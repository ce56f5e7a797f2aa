------------------------ MODULE AuditCheckpoint_proofs ------------------------
(* For any number of concurrent calls, keys, entries and crashes: the store    *)
(* retains only committed heads and covers every reported success, and the     *)
(* degradation latch is set only when something outside the Broker failed.     *)
EXTENDS AuditCheckpoint, SequenceTheorems, TLAPS

EntryType ==
  [event: {"event", "audit.key_rotated", "audit.key_rotation_completed"}, key: Keys, new: 0..MaxKey]

WorkerType ==
  [at: {"stopped", "start", "idle", "initial", "pre_dispatch", "await", "answered"},
   head: Seq(EntryType), response: 0..MaxPeer]

TypeInv ==
  /\ world \in Worlds
  /\ chain \in Seq(EntryType) /\ corrupt \in BOOLEAN /\ retained \in Seq(EntryType)
  /\ peers \in [Peers -> [seq: 0..MaxPeer, retained: 0..MaxPeer]]
  /\ config \in [current: Keys, previous: 0..MaxKey]
  /\ process \in {"down", "rotating", "rotated", "opened", "serving"}
  /\ signer \in Keys /\ storeUp \in BOOLEAN /\ latch \in BOOLEAN
  /\ pc \in [Mutators -> {"idle", "checked", "committed"}]
  /\ mine \in [Mutators -> Nat]
  /\ worker \in WorkerType
  /\ inflight \subseteq 0..MaxPeer
  /\ reported \in Nat /\ faults \subseteq {"store", "damage"} /\ crashes \in Nat

-----------------------------------------------------------------------------
(* Prefixes of the chain. *)

Prefix(s, t) == Len(s) <= Len(t) /\ \A i \in 1..Len(s) : s[i] = t[i]

LEMMA PrefixIsSubSeq ==
  ASSUME NEW S, NEW s \in Seq(S), NEW t \in Seq(S)
  PROVE  Prefix(s, t) <=> Len(s) <= Len(t) /\ s = SubSeq(t, 1, Len(s))
<1>1. ASSUME Prefix(s, t)
      PROVE  s = SubSeq(t, 1, Len(s))
  <2>1. /\ SubSeq(t, 1, Len(s)) \in Seq(S) /\ Len(SubSeq(t, 1, Len(s))) = Len(s)
        /\ \A i \in 1..Len(s) : SubSeq(t, 1, Len(s))[i] = t[i]
    BY <1>1 DEF Prefix
  <2> QED
    BY <1>1, <2>1, SeqEqual DEF Prefix
<1>2. ASSUME Len(s) <= Len(t), s = SubSeq(t, 1, Len(s))
      PROVE  Prefix(s, t)
  BY <1>2 DEF Prefix
<1> QED
  BY <1>1, <1>2 DEF Prefix

LEMMA EqualPrefixes ==
  ASSUME NEW S, NEW s \in Seq(S), NEW t \in Seq(S), NEW u \in Seq(S),
         Prefix(s, u), Prefix(t, u), Len(s) = Len(t)
  PROVE  s = t
BY SeqEqual DEF Prefix

\* The chain only grows at its end.
LEMMA PrefixExtends ==
  ASSUME NEW S, NEW s \in Seq(S), NEW t \in Seq(S), NEW u \in Seq(S), Prefix(s, t)
  PROVE  Prefix(s, t \o u)
BY DEF Prefix

-----------------------------------------------------------------------------
(* Types. *)

LEMMA EntryTypes ==
  /\ \A k \in Keys : Entry(k) \in EntryType /\ Completed(k) \in EntryType
  /\ \A j, k \in Keys : Rotated(j, k) \in EntryType
BY BoundsAssumption DEF Entry, Completed, Rotated, EntryType, Keys

LEMMA Outcomes ==
  /\ \A head : BrokerOutcomes(head) \subseteq {"failure", "rollback", "conflict", "retained"}
  /\ \A p, n : PeerOutcomes(p, n) \subseteq {"failure", "rollback", "retained"}
BY DEF BrokerOutcomes, PeerOutcomes

LEMMA SettleTypes ==
  ASSUME TypeInv, NEW outcome, NEW tolerated, Settle(outcome, tolerated)
  PROVE  latch' \in BOOLEAN /\ faults' \subseteq {"store", "damage"}
BY DEF Settle, TypeInv

LEMMA ZeroTypes == 0 \in 0..MaxPeer /\ 0 \in 0..MaxKey /\ 1 \in Keys /\ <<>> \in Seq(EntryType)
BY BoundsAssumption DEF Keys

LEMMA InitTypes == Init => TypeInv
<1> SUFFICES ASSUME Init PROVE TypeInv
  OBVIOUS
<1>1. worker \in WorkerType
  BY ZeroTypes DEF Init, WorkerType
<1>2. peers \in [Peers -> [seq: 0..MaxPeer, retained: 0..MaxPeer]]
  BY ZeroTypes DEF Init
<1> QED
  BY <1>1, <1>2, ZeroTypes DEF Init, TypeInv

LEMMA NextTypes == TypeInv /\ [Next]_vars => TypeInv'
<1> SUFFICES ASSUME TypeInv, [Next]_vars PROVE TypeInv'
  OBVIOUS
<1> USE DEF TypeInv, WorkerType
<1>0. world \in [mutators: SUBSET Mutators, entries: Nat, key: 1..MaxKey, peer: 0..MaxPeer, crashes: Nat]
  BY BoundsAssumption
<1>1. CASE Startup
  <2>1. CASE OpenJournal
    BY <2>1 DEF OpenJournal, durableVars, historyVars, Keys
  <2>2. CASE RotateAuditKey
    <3>1. <<Rotated(signer, config.current), Completed(config.current)>> \in Seq(EntryType)
      BY EntryTypes
    <3>2. chain' \in Seq(EntryType)
      BY <2>2, <3>1 DEF RotateAuditKey
    <3> QED
      BY <2>2, <3>2 DEF RotateAuditKey, historyVars
  <2>3. CASE VerifyRotated
    BY <2>3 DEF VerifyRotated, durableVars, historyVars
  <2>4. CASE InstallSelfCheckpoint
    BY <2>4 DEF InstallSelfCheckpoint, durableVars
  <2> QED
    BY <1>1, <2>1, <2>2, <2>3, <2>4 DEF Startup
<1>2. CASE Worker
  <2>1. CASE SampleHead
    BY <2>1 DEF SampleHead, durableVars, historyVars
  <2>2. CASE PersistHead
    <3>1. PICK outcome : RetainBroker(outcome, worker.head, {"rollback"})
      BY <2>2 DEF PersistHead
    <3>2. latch' \in BOOLEAN /\ faults' \subseteq {"store", "damage"} /\ retained' \in Seq(EntryType)
      BY <3>1, SettleTypes DEF RetainBroker
    <3>3. PICK next \in {"idle", "await"} : worker' = [worker EXCEPT !.at = next, !.head = <<>>]
      BY <2>2 DEF PersistHead
    <3>4. worker' \in WorkerType
      BY <3>3, ZeroTypes
    <3> QED
      BY <2>2, <3>2, <3>4 DEF PersistHead
  <2>3. CASE SignerRespond
    BY <2>3 DEF SignerRespond, durableVars, historyVars, Peers
  <2>4. CASE ReceiveResponse
    <3>1. PICK outcome : RetainPeer("signer", outcome, worker.response, {})
      BY <2>4 DEF ReceiveResponse
    <3>2. latch' \in BOOLEAN /\ faults' \subseteq {"store", "damage"}
      BY <3>1, SettleTypes DEF RetainPeer
    <3>3. peers' \in [Peers -> [seq: 0..MaxPeer, retained: 0..MaxPeer]]
      BY <3>1 DEF RetainPeer
    <3> QED
      BY <2>4, <3>2, <3>3, ZeroTypes DEF ReceiveResponse
  <2>5. CASE WorkerGivesUp
    BY <2>5, ZeroTypes DEF WorkerGivesUp, durableVars, historyVars
  <2> QED
    BY <1>2, <2>1, <2>2, <2>3, <2>4, <2>5 DEF Worker
<1>3. ASSUME NEW m \in world.mutators, Call(m)
      PROVE  TypeInv'
  <2>1. CASE CheckLatch(m)
    BY <2>1 DEF CheckLatch, durableVars, historyVars
  <2>2. CASE Commit(m)
    <3>1. Entry(signer) \in EntryType
      BY EntryTypes
    <3>2. chain' \in Seq(EntryType)
      <4>1. Append(chain, Entry(signer)) \in Seq(EntryType)
        BY <3>1
      <4> QED
        BY <2>2, <4>1 DEF Commit
    <3>3. Len(chain') \in Nat
      BY <3>2
    <3> QED
      BY <2>2, <3>2, <3>3 DEF Commit
  <2>3. CASE Rollback(m)
    BY <2>3 DEF Rollback, durableVars, historyVars
  <2>4. CASE Checkpoint(m)
    <3>1. PICK outcome : RetainBroker(outcome, chain, {})
                          /\ reported' = IF outcome = "retained" /\ mine[m] > reported THEN mine[m] ELSE reported
      BY <2>4 DEF Checkpoint
    <3>2. m \in Mutators
      BY <1>0
    <3> QED
      BY <2>4, <3>1, <3>2, SettleTypes DEF Checkpoint, RetainBroker
  <2> QED
    BY <1>3, <2>1, <2>2, <2>3, <2>4 DEF Call
<1>4. CASE MachineSend
  BY <1>4 DEF MachineSend, durableVars, historyVars, Peers
<1>5. ASSUME NEW seq \in 0..MaxPeer, CheckpointRequestHead(seq)
      PROVE  TypeInv'
  <2>1. PICK outcome : RetainPeer("machine", outcome, seq, {"rollback"})
    BY <1>5 DEF CheckpointRequestHead
  <2>2. latch' \in BOOLEAN /\ faults' \subseteq {"store", "damage"}
    BY <2>1, SettleTypes DEF RetainPeer
  <2>3. peers' \in [Peers -> [seq: 0..MaxPeer, retained: 0..MaxPeer]]
    BY <2>1 DEF RetainPeer
  <2> QED
    BY <1>5, <2>2, <2>3 DEF CheckpointRequestHead
<1>6. ASSUME NEW p \in Peers, PeerCommit(p)
      PROVE  TypeInv'
  <2>1. peers[p].seq + 1 \in 0..MaxPeer
    BY <1>0, <1>6, BoundsAssumption DEF PeerCommit
  <2>2. peers' \in [Peers -> [seq: 0..MaxPeer, retained: 0..MaxPeer]]
    BY <1>6, <2>1 DEF PeerCommit
  <2> QED
    BY <1>6, <2>2 DEF PeerCommit, processVars, historyVars
<1>7. CASE Crash
  <2>1. worker' \in WorkerType
    BY <1>7, ZeroTypes DEF Crash
  <2>2. pc' \in [Mutators -> {"idle", "checked", "committed"}] /\ mine' \in [Mutators -> Nat]
    BY <1>7 DEF Crash
  <2>3. crashes' \in Nat /\ inflight' \subseteq 0..MaxPeer /\ process' = "down"
        /\ storeUp' = FALSE /\ latch' = FALSE
    BY <1>7 DEF Crash
  <2>4. UNCHANGED <<chain, corrupt, retained, peers, config, signer, reported, faults, world>>
    BY <1>7 DEF Crash, durableVars
  <2> QED
    BY <2>1, <2>2, <2>3, <2>4
<1>8. CASE Damage
  BY <1>8 DEF Damage, processVars
<1>9. CASE Repackage
  BY <1>0, <1>9, BoundsAssumption DEF Repackage, processVars, historyVars, Keys
<1>10. CASE RetirePrevious
  BY <1>10, ZeroTypes DEF RetirePrevious, processVars, historyVars
<1>11. CASE UNCHANGED vars
  BY <1>11 DEF vars, durableVars, processVars, historyVars
<1> QED
  BY <1>1, <1>2, <1>3, <1>4, <1>5, <1>6, <1>7, <1>8, <1>9, <1>10, <1>11 DEF Next

-----------------------------------------------------------------------------
(* What the store holds. *)

\* The heads the store has and the worker is about to send are prefixes of the
\* chain, and a call remembers a position of it.
HeadsCommitted ==
  /\ Prefix(retained, chain) /\ Prefix(worker.head, chain)
  /\ reported <= Len(retained)
  /\ \A m \in Mutators : mine[m] <= Len(chain)

\* The chain only grows at its end; heads and positions stay inside it.
Extends == \E u \in Seq(EntryType) : chain' = chain \o u

LEMMA StepExtends ==
  ASSUME TypeInv, [Next]_vars
  PROVE  Extends
<1>1. ASSUME chain' = chain
      PROVE  Extends
  <2>1. chain = chain \o <<>>
    BY DEF TypeInv
  <2> QED
    BY <1>1, <2>1, ZeroTypes DEF Extends
<1>2. CASE RotateAuditKey
  <2>1. <<Rotated(signer, config.current), Completed(config.current)>> \in Seq(EntryType)
    BY EntryTypes DEF TypeInv
  <2> QED
    BY <1>2, <2>1 DEF RotateAuditKey, Extends
<1>3. ASSUME NEW m \in world.mutators, Commit(m)
      PROVE  Extends
  <2>1. CASE chain' = Append(chain, Entry(signer))
    <3>1. <<Entry(signer)>> \in Seq(EntryType) /\ Append(chain, Entry(signer)) = chain \o <<Entry(signer)>>
      BY EntryTypes DEF TypeInv
    <3> QED
      BY <2>1, <3>1 DEF Extends
  <2> QED
    BY <1>1, <1>3, <2>1 DEF Commit
<1>4. CASE UNCHANGED vars
  BY <1>1, <1>4 DEF vars, durableVars
<1>5. ASSUME NEW m \in world.mutators, CheckLatch(m) \/ Rollback(m) \/ Checkpoint(m)
      PROVE  chain' = chain
  BY <1>5 DEF CheckLatch, Rollback, Checkpoint, durableVars
<1>6. CASE \/ OpenJournal \/ VerifyRotated \/ InstallSelfCheckpoint \/ Worker \/ MachineSend
           \/ \E seq \in 0..MaxPeer : CheckpointRequestHead(seq)
           \/ \E p \in Peers : PeerCommit(p)
           \/ Crash \/ Damage \/ Repackage \/ RetirePrevious
  BY <1>1, <1>6 DEF OpenJournal, VerifyRotated, InstallSelfCheckpoint, Worker, SampleHead, PersistHead,
     SignerRespond, ReceiveResponse, WorkerGivesUp, MachineSend, CheckpointRequestHead, PeerCommit,
     Crash, Damage, Repackage, RetirePrevious, durableVars
<1> QED
  BY <1>1, <1>2, <1>3, <1>4, <1>5, <1>6 DEF Next, Startup, Call

\* A head that is retained is one of the committed ones, and no shorter than
\* what the store had.
LEMMA RetainedOutcome ==
  ASSUME TypeInv, NEW head \in Seq(EntryType), "retained" \in BrokerOutcomes(head)
  PROVE  Len(retained) <= Len(head)
BY DEF BrokerOutcomes, TypeInv

LEMMA HeadsStep ==
  ASSUME TypeInv, TypeInv', HeadsCommitted, [Next]_vars
  PROVE  HeadsCommitted'
<1>0. /\ retained \in Seq(EntryType) /\ retained' \in Seq(EntryType) /\ chain \in Seq(EntryType)
      /\ chain' \in Seq(EntryType) /\ worker.head \in Seq(EntryType) /\ worker'.head \in Seq(EntryType)
      /\ reported \in Nat /\ reported' \in Nat
      /\ Len(chain) \in Nat /\ Len(chain') \in Nat /\ Len(retained) \in Nat
      /\ mine \in [Mutators -> Nat] /\ mine' \in [Mutators -> Nat]
  BY DEF TypeInv, WorkerType
<1>1. PICK u \in Seq(EntryType) : chain' = chain \o u
  BY StepExtends DEF Extends
<1>2. \A s \in Seq(EntryType) : Prefix(s, chain) => Prefix(s, chain')
  BY <1>0, <1>1, PrefixExtends
<1>3. Len(chain) <= Len(chain') /\ Prefix(<<>>, chain') /\ Prefix(chain, chain')
  <2>1. Len(chain') = Len(chain) + Len(u) /\ Len(u) \in Nat /\ Prefix(chain, chain)
    BY <1>0, <1>1 DEF Prefix
  <2> QED
    BY <1>0, <1>2, <2>1 DEF Prefix
<1> DEFINE Stored == Prefix(retained', chain') /\ reported' <= Len(retained')
<1>4. /\ worker'.head \in {worker.head, <<>>, chain}
      /\ \A m \in Mutators : mine'[m] \in {mine[m], 0, Len(chain')}
  <2>1. CASE Startup
    BY <2>1 DEF Startup, OpenJournal, RotateAuditKey, VerifyRotated, InstallSelfCheckpoint, TypeInv, WorkerType
  <2>2. CASE Worker
    <3>1. UNCHANGED mine
      BY <2>2 DEF Worker, SampleHead, PersistHead, SignerRespond, ReceiveResponse, WorkerGivesUp
    <3>2. worker'.head \in {worker.head, <<>>, chain}
      BY <2>2 DEF Worker, SampleHead, PersistHead, SignerRespond, ReceiveResponse, WorkerGivesUp, TypeInv, WorkerType
    <3> QED
      BY <3>1, <3>2
  <2>3. ASSUME NEW m \in world.mutators, Call(m)
        PROVE  UNCHANGED worker /\ \A n \in Mutators : mine'[n] \in {mine[n], 0, Len(chain')}
    BY <1>0, <2>3 DEF Call, CheckLatch, Commit, Rollback, Checkpoint
  <2>4. CASE Crash
    BY <2>4 DEF Crash
  <2>5. CASE \/ MachineSend \/ \E seq \in 0..MaxPeer : CheckpointRequestHead(seq)
             \/ \E p \in Peers : PeerCommit(p)
             \/ Damage \/ Repackage \/ RetirePrevious \/ UNCHANGED vars
    BY <2>5 DEF MachineSend, CheckpointRequestHead, PeerCommit, Damage, Repackage, RetirePrevious,
       vars, processVars
  <2> QED
    BY <2>1, <2>2, <2>3, <2>4, <2>5 DEF Next
<1>5. Prefix(worker'.head, chain') /\ \A m \in Mutators : mine'[m] <= Len(chain')
  <2>1. Prefix(worker'.head, chain')
    <3>1. CASE worker'.head = worker.head
      BY <1>0, <1>2, <3>1 DEF HeadsCommitted
    <3>2. CASE worker'.head = <<>>
      BY <1>3, <3>2
    <3>3. CASE worker'.head = chain
      BY <1>3, <3>3
    <3> QED
      BY <1>4, <3>1, <3>2, <3>3
  <2>2. ASSUME NEW m \in Mutators
        PROVE  mine'[m] <= Len(chain')
    <3>1. mine[m] \in Nat /\ mine[m] <= Len(chain)
      BY <1>0 DEF HeadsCommitted
    <3>2. mine'[m] = mine[m] \/ mine'[m] = 0 \/ mine'[m] = Len(chain')
      BY <1>4
    <3> QED
      BY <1>0, <1>3, <3>1, <3>2
  <2> QED
    BY <2>1, <2>2
<1>6. ASSUME UNCHANGED <<retained, reported>>
      PROVE  Stored
  BY <1>0, <1>2, <1>6 DEF HeadsCommitted
<1>7. ASSUME NEW m \in world.mutators, Checkpoint(m)
      PROVE  Stored
  <2>1. PICK outcome \in BrokerOutcomes(chain) :
          /\ RetainBroker(outcome, chain, {})
          /\ reported' = IF outcome = "retained" /\ mine[m] > reported THEN mine[m] ELSE reported
    BY <1>7 DEF Checkpoint
  <2>2. CASE outcome = "retained"
    <3>1. retained' = chain /\ Len(retained) <= Len(chain)
      BY <1>0, <2>1, <2>2, RetainedOutcome DEF RetainBroker
    <3>2. m \in Mutators
      BY BoundsAssumption DEF TypeInv
    <3> QED
      BY <1>0, <1>3, <2>1, <2>2, <3>1, <3>2 DEF HeadsCommitted
  <2>3. CASE outcome # "retained"
    BY <1>6, <2>1, <2>3 DEF RetainBroker
  <2> QED
    BY <2>2, <2>3
<1>8. ASSUME PersistHead
      PROVE  Stored
  <2>1. PICK outcome \in BrokerOutcomes(worker.head) : RetainBroker(outcome, worker.head, {"rollback"})
    BY <1>8 DEF PersistHead
  <2>2. UNCHANGED <<chain, reported>>
    BY <1>8 DEF PersistHead
  <2>3. CASE outcome = "retained"
    BY <1>0, <2>1, <2>2, <2>3, RetainedOutcome DEF RetainBroker, HeadsCommitted
  <2>4. CASE outcome # "retained"
    BY <1>6, <2>1, <2>2, <2>4 DEF RetainBroker
  <2> QED
    BY <2>3, <2>4
<1>9. ASSUME NEW m \in world.mutators, CheckLatch(m) \/ Commit(m) \/ Rollback(m)
      PROVE  UNCHANGED <<retained, reported>>
  BY <1>9 DEF CheckLatch, Commit, Rollback, durableVars, historyVars
<1>10. ASSUME \/ Startup \/ SampleHead \/ SignerRespond \/ ReceiveResponse \/ WorkerGivesUp \/ MachineSend
              \/ \E seq \in 0..MaxPeer : CheckpointRequestHead(seq)
              \/ \E p \in Peers : PeerCommit(p)
              \/ Crash \/ Damage \/ Repackage \/ RetirePrevious \/ UNCHANGED vars
       PROVE  UNCHANGED <<retained, reported>>
  BY <1>10 DEF Startup, OpenJournal, RotateAuditKey, VerifyRotated, InstallSelfCheckpoint,
     SampleHead, SignerRespond, ReceiveResponse, WorkerGivesUp, MachineSend, CheckpointRequestHead,
     PeerCommit, Crash, Damage, Repackage, RetirePrevious, vars, durableVars, historyVars
<1>11. Stored
  BY <1>6, <1>7, <1>8, <1>9, <1>10 DEF Next, Worker, Call
<1> QED
  BY <1>5, <1>11 DEF HeadsCommitted

LEMMA HeadsInit == Init => HeadsCommitted
BY ZeroTypes DEF Init, HeadsCommitted, Prefix

\* The store never retains a head the journal did not commit, and it covers every
\* call that reported success (checkpoint_committed_head, persist_checkpoint_diagnosed).
THEOREM StoreFollowsChain == Spec => []RetainedIsCommitted
<1>1. TypeInv /\ HeadsCommitted /\ [Next]_vars => TypeInv' /\ HeadsCommitted'
  BY NextTypes, HeadsStep
<1>2. TypeInv /\ HeadsCommitted => RetainedIsCommitted
  BY PrefixIsSubSeq DEF TypeInv, HeadsCommitted, RetainedIsCommitted
<1> QED
  BY <1>1, <1>2, InitTypes, HeadsInit, PTL DEF Spec

-----------------------------------------------------------------------------
(* The latch. *)

Last == chain[Len(chain)]

\* Calls and the worker run in a serving process.
OnlyServing ==
  /\ \A m \in Mutators : pc[m] # "idle" => process = "serving"
  /\ worker.at # "stopped" => process = "serving"

\* The head retained of the Signer is one it had, and the response on its way is
\* no older.
PeersAhead ==
  /\ peers["signer"].retained <= peers["signer"].seq
  /\ worker.at = "answered" => /\ peers["signer"].retained <= worker.response
                               /\ worker.response <= peers["signer"].seq

\* Every entry is signed by the key that the one before it selects.
Linked ==
  \A i \in 2..Len(chain) :
    /\ chain[i].key = Selected(chain[i - 1])
    /\ (chain[i].event = "audit.key_rotation_completed")
         <=> (chain[i - 1].event = "audit.key_rotated")

\* The last entry is under a packaged key, and under the active one from the end
\* of a rotation on.
KeysAgree ==
  /\ config.previous # config.current
  /\ chain # <<>> =>
       Last.event # "audit.key_rotated" /\ Last.key \in {config.current, config.previous}
  /\ process = "rotating" => /\ chain # <<>> /\ ~corrupt
                             /\ signer = config.previous /\ Last.key = signer
  /\ process \in {"rotated", "opened", "serving"} =>
       signer = config.current /\ (~corrupt /\ chain # <<>> => Last.key = signer)

LatchInv ==
  /\ OnlyServing /\ PeersAhead /\ Linked /\ KeysAgree
  /\ corrupt => "damage" \in faults
  /\ latch => faults # {}

LEMMA ServingStep ==
  ASSUME TypeInv, OnlyServing, [Next]_vars
  PROVE  OnlyServing'
<1> USE DEF OnlyServing
<1>1. CASE Startup
  <2>1. CASE OpenJournal
    BY <2>1 DEF OpenJournal
  <2>2. CASE RotateAuditKey
    BY <2>2 DEF RotateAuditKey
  <2>3. CASE VerifyRotated
    BY <2>3 DEF VerifyRotated
  <2>4. CASE InstallSelfCheckpoint
    BY <2>4 DEF InstallSelfCheckpoint
  <2> QED
    BY <1>1, <2>1, <2>2, <2>3, <2>4 DEF Startup
<1>2. CASE Worker
  <2>1. UNCHANGED <<process, pc>> /\ worker.at # "stopped"
    BY <1>2 DEF Worker, SampleHead, PersistHead, SignerRespond, ReceiveResponse, WorkerGivesUp
  <2> QED
    BY <2>1
<1>3. ASSUME NEW m \in world.mutators, Call(m)
      PROVE  OnlyServing'
  <2>1. /\ UNCHANGED <<process, worker>> /\ (pc[m] # "idle" \/ process = "serving")
        /\ \E next : pc' = [pc EXCEPT ![m] = next]
    BY <1>3 DEF Call, CheckLatch, Commit, Rollback, Checkpoint
  <2>2. m \in Mutators
    BY BoundsAssumption DEF TypeInv
  <2> QED
    BY <2>1, <2>2 DEF TypeInv
<1>4. CASE Crash
  BY <1>4 DEF Crash
<1>5. CASE \/ MachineSend \/ \E seq \in 0..MaxPeer : CheckpointRequestHead(seq)
           \/ \E p \in Peers : PeerCommit(p)
           \/ Damage \/ Repackage \/ RetirePrevious \/ UNCHANGED vars
  <2>1. UNCHANGED <<process, pc, worker>>
    BY <1>5 DEF MachineSend, CheckpointRequestHead, PeerCommit, Damage, Repackage, RetirePrevious,
       vars, processVars
  <2> QED
    BY <2>1
<1> QED
  BY <1>1, <1>2, <1>3, <1>4, <1>5 DEF Next

LEMMA PeersStep ==
  ASSUME TypeInv, TypeInv', PeersAhead, [Next]_vars
  PROVE  PeersAhead'
<1>0. /\ peers \in [Peers -> [seq: Nat, retained: Nat]] /\ worker.response \in Nat /\ "signer" \in Peers
      /\ "machine" \in Peers
  BY BoundsAssumption DEF TypeInv, WorkerType, Peers
<1>1. ASSUME UNCHANGED peers, worker'.at = "answered" => worker' = worker
      PROVE  PeersAhead'
  BY <1>1 DEF PeersAhead
<1>2. CASE Startup \/ SampleHead \/ PersistHead \/ WorkerGivesUp \/ Crash \/ UNCHANGED vars
  <2>1. UNCHANGED peers
    BY <1>2 DEF Startup, OpenJournal, RotateAuditKey, VerifyRotated, InstallSelfCheckpoint, SampleHead,
       PersistHead, WorkerGivesUp, Crash, vars, durableVars
  <2>2. worker'.at = "answered" => worker' = worker
    <3>1. CASE InstallSelfCheckpoint
      BY <3>1 DEF InstallSelfCheckpoint, TypeInv, WorkerType
    <3>2. CASE SampleHead
      BY <3>2 DEF SampleHead, TypeInv, WorkerType
    <3>3. CASE PersistHead
      BY <3>3 DEF PersistHead, TypeInv, WorkerType
    <3>4. CASE WorkerGivesUp
      BY <3>4 DEF WorkerGivesUp, TypeInv, WorkerType
    <3>5. CASE Crash
      BY <3>5 DEF Crash
    <3>6. CASE OpenJournal \/ RotateAuditKey \/ VerifyRotated \/ UNCHANGED vars
      BY <3>6 DEF OpenJournal, RotateAuditKey, VerifyRotated, vars, processVars
    <3> QED
      BY <1>2, <3>1, <3>2, <3>3, <3>4, <3>5, <3>6 DEF Startup
  <2> QED
    BY <1>1, <2>1, <2>2
<1>3. CASE SignerRespond
  <2>1. UNCHANGED peers /\ worker'.response = peers["signer"].seq
    BY <1>3 DEF SignerRespond, durableVars, TypeInv, WorkerType
  <2> QED
    BY <1>0, <2>1 DEF PeersAhead
<1>4. CASE ReceiveResponse
  <2>1. PICK outcome \in PeerOutcomes("signer", worker.response) :
          peers' = IF outcome = "retained" THEN [peers EXCEPT !["signer"].retained = worker.response] ELSE peers
    BY <1>4 DEF ReceiveResponse, RetainPeer
  <2>2. worker'.at = "idle" /\ worker.at = "answered"
    BY <1>4 DEF ReceiveResponse, TypeInv, WorkerType
  <2> QED
    BY <1>0, <2>1, <2>2 DEF PeersAhead
<1>5. ASSUME NEW seq \in 0..MaxPeer, CheckpointRequestHead(seq)
      PROVE  PeersAhead'
  <2>1. UNCHANGED worker /\ peers'["signer"] = peers["signer"]
    BY <1>0, <1>5 DEF CheckpointRequestHead, RetainPeer
  <2> QED
    BY <2>1 DEF PeersAhead
<1>6. ASSUME NEW p \in Peers, PeerCommit(p)
      PROVE  PeersAhead'
  BY <1>0, <1>6 DEF PeerCommit, processVars, PeersAhead
<1>7. ASSUME NEW m \in world.mutators, Call(m)
      PROVE  UNCHANGED <<peers, worker>>
  BY <1>7 DEF Call, CheckLatch, Commit, Rollback, Checkpoint, durableVars
<1>8. CASE MachineSend \/ Damage \/ Repackage \/ RetirePrevious
  <2>1. UNCHANGED <<peers, worker>>
    BY <1>8 DEF MachineSend, Damage, Repackage, RetirePrevious, processVars, durableVars
  <2> QED
    BY <1>1, <2>1
<1> QED
  BY <1>1, <1>2, <1>3, <1>4, <1>5, <1>6, <1>7, <1>8 DEF Next, Worker

\* What the chain verifies as in a process that has opened it.
LEMMA OpenedVerifies ==
  ASSUME LatchInv, ~corrupt, process \in {"rotated", "opened", "serving"}
  PROVE  ChainVerifies(signer)
BY DEF LatchInv, KeysAgree, Linked, Last, ChainVerifies

\* One entry more, and the two entries of a rotation.
LEMMA AppendLinks ==
  ASSUME TypeInv, Linked, NEW e \in EntryType, chain' = Append(chain, e),
         chain # <<>> => /\ e.key = Selected(Last)
                         /\ (e.event = "audit.key_rotation_completed") <=> (Last.event = "audit.key_rotated")
  PROVE  Linked' /\ chain' # <<>> /\ Last' = e
<1>1. chain \in Seq(EntryType) /\ Len(chain) \in Nat
  BY DEF TypeInv
<1>2. /\ Len(chain') = Len(chain) + 1 /\ chain'[Len(chain) + 1] = e
      /\ \A i \in 1..Len(chain) : chain'[i] = chain[i]
  BY <1>1
<1>3. Last' = e /\ chain' # <<>>
  BY <1>1, <1>2 DEF Last
<1>4. ASSUME NEW i \in 2..Len(chain')
      PROVE  /\ chain'[i].key = Selected(chain'[i - 1])
             /\ (chain'[i].event = "audit.key_rotation_completed")
                  <=> (chain'[i - 1].event = "audit.key_rotated")
  <2>1. CASE i \in 2..Len(chain)
    <3>1. chain'[i] = chain[i] /\ chain'[i - 1] = chain[i - 1]
      BY <1>1, <1>2, <2>1
    <3> QED
      BY <2>1, <3>1 DEF Linked
  <2>2. CASE i = Len(chain) + 1
    <3>1. chain'[i] = e /\ chain'[i - 1] = Last /\ chain # <<>>
      BY <1>1, <1>2, <2>2 DEF Last
    <3> QED
      BY <3>1
  <2> QED
    BY <1>1, <1>2, <2>1, <2>2
<1> QED
  BY <1>3, <1>4 DEF Linked

LEMMA RotationLinks ==
  ASSUME TypeInv, Linked, chain # <<>>, Last.event # "audit.key_rotated",
         NEW old \in Keys, NEW new \in Keys, Last.key = old,
         chain' = chain \o <<Rotated(old, new), Completed(new)>>
  PROVE  Linked' /\ chain' # <<>> /\ Last' = Completed(new)
<1>0. Rotated(old, new) \in EntryType /\ Completed(new) \in EntryType
  BY EntryTypes
<1>1. chain \in Seq(EntryType) /\ Len(chain) \in Nat /\ Len(chain) > 0
  BY DEF TypeInv
<1>2. /\ Len(chain') = Len(chain) + 2 /\ chain'[Len(chain) + 1] = Rotated(old, new)
      /\ chain'[Len(chain) + 2] = Completed(new)
      /\ \A i \in 1..Len(chain) : chain'[i] = chain[i]
  BY <1>0, <1>1
<1>3. Last' = Completed(new) /\ chain' # <<>>
  BY <1>1, <1>2 DEF Last
<1>4. ASSUME NEW i \in 2..Len(chain')
      PROVE  /\ chain'[i].key = Selected(chain'[i - 1])
             /\ (chain'[i].event = "audit.key_rotation_completed")
                  <=> (chain'[i - 1].event = "audit.key_rotated")
  <2>1. CASE i \in 2..Len(chain)
    <3>1. chain'[i] = chain[i] /\ chain'[i - 1] = chain[i - 1]
      BY <1>1, <1>2, <2>1
    <3> QED
      BY <2>1, <3>1 DEF Linked
  <2>2. CASE i = Len(chain) + 1
    <3>1. chain'[i] = Rotated(old, new) /\ chain'[i - 1] = Last
      BY <1>1, <1>2, <2>2 DEF Last
    <3> QED
      BY <3>1 DEF Rotated, Selected
  <2>3. CASE i = Len(chain) + 2
    <3>1. chain'[i] = Completed(new) /\ chain'[i - 1] = Rotated(old, new)
      BY <1>1, <1>2, <2>3
    <3> QED
      BY <3>1 DEF Rotated, Completed, Selected
  <2> QED
    BY <1>1, <1>2, <2>1, <2>2, <2>3
<1> QED
  BY <1>3, <1>4 DEF Linked

\* Startup opens the chain under a packaged key or rotates to the current one;
\* keys change, and the file is damaged, only while the Broker is down.
LEMMA KeysStep ==
  ASSUME TypeInv, TypeInv', LatchInv, [Next]_vars
  PROVE  Linked' /\ KeysAgree'
<1>0. /\ Linked /\ KeysAgree /\ OnlyServing /\ chain \in Seq(EntryType) /\ signer \in Keys
      /\ config.current \in Keys /\ config.previous \in 0..MaxKey
      /\ chain # <<>> => Last \in EntryType
  BY DEF LatchInv, TypeInv, Last
<1>1. ASSUME UNCHANGED <<chain, corrupt, config, process, signer>>
      PROVE  Linked' /\ KeysAgree'
  BY <1>0, <1>1 DEF Linked, KeysAgree, Last
<1>2. ASSUME UNCHANGED <<chain, config>>, process' = "down"
      PROVE  Linked' /\ KeysAgree'
  BY <1>0, <1>2 DEF Linked, KeysAgree, Last
<1>3. CASE OpenJournal
  <2>1. UNCHANGED <<chain, corrupt, config>>
    BY <1>3 DEF OpenJournal, durableVars
  <2>2. Linked' /\ Last' = Last
    BY <1>0, <2>1 DEF Linked, Last
  <2>3. CASE ~ChainVerifies(config.current) /\ config.previous # 0 /\ ChainVerifies(config.previous)
    <3>1. process' = "rotating" /\ signer' = config.previous
      BY <1>3, <2>3 DEF OpenJournal
    <3>2. chain # <<>> /\ ~corrupt /\ Last.key = config.previous
      BY <1>0, <2>3 DEF ChainVerifies, Last
    <3> QED
      BY <1>0, <2>1, <2>2, <3>1, <3>2 DEF KeysAgree
  <2>4. CASE ~(~ChainVerifies(config.current) /\ config.previous # 0 /\ ChainVerifies(config.previous))
    <3>1. process' = "opened" /\ signer' = config.current
      BY <1>3, <2>4 DEF OpenJournal
    <3>2. ~corrupt /\ chain # <<>> => Last.key = config.current
      <4> SUFFICES ASSUME ~corrupt, chain # <<>>, Last.key # config.current PROVE FALSE
        OBVIOUS
      <4>1. Last.key = config.previous /\ Last.event # "audit.key_rotated"
        BY <1>0 DEF KeysAgree
      <4>2. config.previous # 0 /\ ChainVerifies(config.previous)
        BY <1>0, <4>1 DEF ChainVerifies, Linked, Last, EntryType, Keys
      <4>3. ~ChainVerifies(config.current)
        BY DEF ChainVerifies, Last
      <4> QED
        BY <2>4, <4>2, <4>3
    <3> QED
      BY <1>0, <2>1, <2>2, <3>1, <3>2 DEF KeysAgree
  <2> QED
    BY <2>3, <2>4
<1>4. CASE RotateAuditKey
  <2>1. /\ process = "rotating" /\ process' = "rotated" /\ signer' = config.current /\ UNCHANGED <<config, corrupt>>
        /\ chain' = chain \o <<Rotated(signer, config.current), Completed(config.current)>>
    BY <1>4 DEF RotateAuditKey
  <2>2. chain # <<>> /\ Last.key = signer /\ Last.event # "audit.key_rotated"
    BY <1>0, <2>1 DEF KeysAgree
  <2>3. Linked' /\ chain' # <<>> /\ Last' = Completed(config.current)
    <3>1. PICK old \in Keys, new \in Keys : old = signer /\ new = config.current
      BY <1>0
    <3> QED
      BY <1>0, <2>1, <2>2, <3>1, RotationLinks
  <2> QED
    BY <1>0, <2>1, <2>3 DEF KeysAgree, Completed
<1>5. CASE VerifyRotated
  <2>1. process = "rotated" /\ process' \in {"opened", "down"} /\ UNCHANGED <<chain, corrupt, config, signer>>
    BY <1>5 DEF VerifyRotated, durableVars
  <2> QED
    BY <1>0, <2>1 DEF Linked, KeysAgree, Last
<1>6. CASE InstallSelfCheckpoint
  <2>1. process = "opened" /\ process' = "serving" /\ UNCHANGED <<chain, corrupt, config, signer>>
    BY <1>6 DEF InstallSelfCheckpoint, durableVars
  <2> QED
    BY <1>0, <2>1 DEF Linked, KeysAgree, Last
<1>7. ASSUME NEW m \in world.mutators, Commit(m)
      PROVE  Linked' /\ KeysAgree'
  <2>1. m \in Mutators /\ process = "serving" /\ ChainVerifies(signer) /\ UNCHANGED <<corrupt, config, process, signer>>
    BY <1>0, <1>7, BoundsAssumption DEF Commit, OnlyServing, TypeInv
  <2>2. CASE chain' = chain
    BY <1>1, <2>1, <2>2
  <2>3. CASE chain' = Append(chain, Entry(signer))
    <3>1. PICK e \in EntryType : e = Entry(signer)
      BY <1>0, EntryTypes
    <3>2. chain # <<>> => Last.event # "audit.key_rotated" /\ Last.key = signer
      BY <2>1 DEF ChainVerifies, Last
    <3>3. Linked' /\ chain' # <<>> /\ Last' = e
      BY <1>0, <2>3, <3>1, <3>2, AppendLinks DEF Entry, Selected
    <3> QED
      BY <1>0, <2>1, <3>1, <3>3 DEF KeysAgree, Entry
  <2> QED
    BY <1>7, <2>2, <2>3 DEF Commit
<1>8. CASE Crash
  BY <1>2, <1>8 DEF Crash, durableVars
<1>9. CASE Damage
  BY <1>2, <1>9 DEF Damage, processVars
<1>10. CASE Repackage
  <2>1. /\ process = "down" /\ process' = "down" /\ UNCHANGED chain
        /\ config'.current = config.current + 1 /\ config'.previous = config.current
        /\ chain # <<>> => Last.key = config.current
    BY <1>10 DEF Repackage, processVars, Last
  <2> QED
    BY <1>0, <2>1, BoundsAssumption DEF Linked, KeysAgree, Last, Keys
<1>11. CASE RetirePrevious
  <2>1. /\ process = "down" /\ process' = "down" /\ UNCHANGED chain
        /\ config'.current = config.current /\ config'.previous = 0
        /\ Last.key = config.current
    BY <1>11 DEF RetirePrevious, processVars, Last, TypeInv
  <2> QED
    BY <1>0, <2>1, BoundsAssumption DEF Linked, KeysAgree, Last, Keys
<1>12. ASSUME NEW m \in world.mutators, CheckLatch(m) \/ Rollback(m) \/ Checkpoint(m)
       PROVE  UNCHANGED <<chain, corrupt, config, process, signer>>
  BY <1>12 DEF CheckLatch, Rollback, Checkpoint, durableVars
<1>13. CASE \/ Worker \/ MachineSend \/ UNCHANGED vars
            \/ \E seq \in 0..MaxPeer : CheckpointRequestHead(seq)
            \/ \E p \in Peers : PeerCommit(p)
  <2>1. UNCHANGED <<chain, corrupt, config, process, signer>>
    BY <1>13 DEF Worker, SampleHead, PersistHead, SignerRespond, ReceiveResponse, WorkerGivesUp,
       MachineSend, CheckpointRequestHead, PeerCommit, vars, durableVars, processVars
  <2> QED
    BY <1>1, <2>1
<1> QED
  BY <1>1, <1>3, <1>4, <1>5, <1>6, <1>7, <1>8, <1>9, <1>10, <1>11, <1>12, <1>13 DEF Next, Startup, Call

\* A settled outcome latches only with a fault, unless the store saw a head go
\* back that must not, or two heads of one length.
LEMMA SettleStep ==
  ASSUME TypeInv, latch => faults # {}, NEW outcome, NEW tolerated, Settle(outcome, tolerated),
         outcome \in {"failure", "retained"} \cup tolerated
  PROVE  faults \subseteq faults' /\ (latch' => faults' # {})
BY DEF Settle

LEMMA LatchStep ==
  ASSUME TypeInv, TypeInv', HeadsCommitted, LatchInv, [Next]_vars
  PROVE  (corrupt' => "damage" \in faults') /\ (latch' => faults' # {})
<1>0. /\ corrupt => "damage" \in faults
      /\ latch => faults # {}
      /\ retained \in Seq(EntryType) /\ chain \in Seq(EntryType) /\ worker.head \in Seq(EntryType)
      /\ Len(retained) \in Nat /\ Len(chain) \in Nat /\ Len(worker.head) \in Nat
      /\ Prefix(retained, chain) /\ Prefix(worker.head, chain)
  BY DEF LatchInv, HeadsCommitted, TypeInv, WorkerType
<1>1. ASSUME UNCHANGED corrupt, faults \subseteq faults', latch' => faults' # {}
      PROVE  (corrupt' => "damage" \in faults') /\ (latch' => faults' # {})
  BY <1>0, <1>1
<1>2. ASSUME NEW head \in Seq(EntryType), Prefix(head, chain), NEW outcome \in BrokerOutcomes(head)
      PROVE  /\ outcome \in {"failure", "retained", "rollback"}
             /\ outcome = "rollback" => Len(head) < Len(retained)
  <2>1. Len(head) = Len(retained) => head = retained
    BY <1>0, <1>2, EqualPrefixes
  <2> QED
    BY <1>2, <2>1 DEF BrokerOutcomes
<1>3. CASE OpenJournal
  <2>1. UNCHANGED <<corrupt, faults, config, chain>> /\ process = "down"
    BY <1>3 DEF OpenJournal, durableVars, historyVars
  <2>2. ASSUME ~corrupt, ~ChainVerifies(config.current)
        PROVE  config.previous # 0 /\ ChainVerifies(config.previous)
    <3>1. chain # <<>> /\ Linked /\ KeysAgree /\ Last \in EntryType
      BY <1>0, <2>2 DEF LatchInv, ChainVerifies, Linked, KeysAgree, Last
    <3>2. Last.key = config.previous
      BY <2>2, <3>1 DEF KeysAgree, ChainVerifies, Linked, Last
    <3> QED
      BY <2>2, <3>1, <3>2 DEF KeysAgree, ChainVerifies, Linked, Last, EntryType, Keys
  <2>3. latch' => faults' # {}
    BY <1>0, <1>3, <2>1, <2>2 DEF OpenJournal
  <2> QED
    BY <1>1, <2>1, <2>3
<1>4. CASE RotateAuditKey \/ VerifyRotated
  BY <1>0, <1>4 DEF RotateAuditKey, VerifyRotated, durableVars, historyVars
<1>5. CASE InstallSelfCheckpoint
  <2>1. UNCHANGED corrupt
    BY <1>5 DEF InstallSelfCheckpoint, durableVars
  <2>2. UNCHANGED <<latch, faults>> \/ faults' = faults \cup {"store"}
    BY <1>5 DEF InstallSelfCheckpoint
  <2> QED
    BY <1>0, <1>1, <2>1, <2>2
<1>6. CASE SampleHead
  <2>1. process = "serving" /\ UNCHANGED <<corrupt, faults>>
    BY <1>6 DEF SampleHead, durableVars, historyVars, LatchInv, OnlyServing
  <2>2. corrupt \/ ChainVerifies(signer)
    BY <2>1, OpenedVerifies
  <2> QED
    BY <1>0, <1>6, <2>1, <2>2 DEF SampleHead
<1>7. CASE PersistHead
  <2>1. PICK outcome \in BrokerOutcomes(worker.head) : RetainBroker(outcome, worker.head, {"rollback"})
    BY <1>7 DEF PersistHead
  <2>2. outcome \in {"failure", "retained"} \cup {"rollback"} /\ Settle(outcome, {"rollback"})
    BY <1>0, <1>2, <2>1 DEF RetainBroker
  <2> QED
    BY <1>0, <1>1, <1>7, <2>2, SettleStep DEF PersistHead
<1>8. ASSUME NEW m \in world.mutators, Checkpoint(m)
      PROVE  (corrupt' => "damage" \in faults') /\ (latch' => faults' # {})
  <2>1. PICK outcome \in BrokerOutcomes(chain) : RetainBroker(outcome, chain, {})
    BY <1>8 DEF Checkpoint
  <2>2. Prefix(chain, chain) /\ Len(retained) <= Len(chain)
    BY <1>0 DEF Prefix
  <2>3. outcome \in {"failure", "retained"} \cup {} /\ Settle(outcome, {})
    BY <1>0, <1>2, <2>1, <2>2 DEF RetainBroker
  <2> QED
    BY <1>0, <1>1, <1>8, <2>3, SettleStep DEF Checkpoint
<1>9. CASE ReceiveResponse
  <2>1. PICK outcome \in PeerOutcomes("signer", worker.response) : RetainPeer("signer", outcome, worker.response, {})
    BY <1>9 DEF ReceiveResponse
  <2>2. peers["signer"].retained <= worker.response
    BY <1>9 DEF ReceiveResponse, LatchInv, PeersAhead
  <2>3. peers["signer"].retained \in Nat /\ worker.response \in Nat
    BY BoundsAssumption DEF TypeInv, WorkerType, Peers
  <2>4. outcome \in {"failure", "retained"} \cup {} /\ Settle(outcome, {})
    BY <2>1, <2>2, <2>3 DEF PeerOutcomes, RetainPeer
  <2> QED
    BY <1>0, <1>1, <1>9, <2>4, SettleStep DEF ReceiveResponse
<1>10. ASSUME NEW seq \in 0..MaxPeer, CheckpointRequestHead(seq)
       PROVE  (corrupt' => "damage" \in faults') /\ (latch' => faults' # {})
  <2>1. PICK outcome \in PeerOutcomes("machine", seq) : RetainPeer("machine", outcome, seq, {"rollback"})
    BY <1>10 DEF CheckpointRequestHead
  <2>2. outcome \in {"failure", "retained"} \cup {"rollback"} /\ Settle(outcome, {"rollback"})
    BY <2>1, Outcomes DEF RetainPeer
  <2> QED
    BY <1>0, <1>1, <1>10, <2>2, SettleStep DEF CheckpointRequestHead
<1>11. CASE Crash
  BY <1>0, <1>11 DEF Crash, durableVars
<1>12. CASE Damage
  BY <1>12 DEF Damage
<1>13. ASSUME NEW m \in world.mutators, CheckLatch(m) \/ Commit(m) \/ Rollback(m)
       PROVE  UNCHANGED <<corrupt, faults, latch>>
  BY <1>13 DEF CheckLatch, Commit, Rollback, durableVars, historyVars
<1>14. CASE \/ SignerRespond \/ WorkerGivesUp \/ MachineSend \/ Repackage \/ RetirePrevious \/ UNCHANGED vars
            \/ \E p \in Peers : PeerCommit(p)
  <2>1. UNCHANGED <<corrupt, faults, latch>>
    BY <1>14 DEF SignerRespond, WorkerGivesUp, MachineSend, Repackage, RetirePrevious, PeerCommit,
       vars, durableVars, historyVars
  <2> QED
    BY <1>0, <2>1
<1> QED
  BY <1>0, <1>3, <1>4, <1>5, <1>6, <1>7, <1>8, <1>9, <1>10, <1>11, <1>12, <1>13, <1>14
     DEF Next, Startup, Worker, Call

LEMMA LatchInit == Init => LatchInv
BY DEF Init, LatchInv, OnlyServing, PeersAhead, Linked, KeysAgree, Peers

LEMMA LatchInvStep ==
  TypeInv /\ HeadsCommitted /\ LatchInv /\ [Next]_vars => TypeInv' /\ HeadsCommitted' /\ LatchInv'
<1> SUFFICES ASSUME TypeInv, HeadsCommitted, LatchInv, [Next]_vars
             PROVE  TypeInv' /\ HeadsCommitted' /\ LatchInv'
  OBVIOUS
<1>1. TypeInv' /\ HeadsCommitted'
  BY NextTypes, HeadsStep
<1>2. OnlyServing' /\ PeersAhead' /\ Linked' /\ KeysAgree'
  BY <1>1, ServingStep, PeersStep, KeysStep DEF LatchInv
<1>3. (corrupt' => "damage" \in faults') /\ (latch' => faults' # {})
  BY <1>1, LatchStep
<1> QED
  BY <1>1, <1>2, <1>3 DEF LatchInv

\* Mutations are disabled only by a store that failed or a damaged database, never
\* by calls, the worker and Machine requests racing to retain heads, nor by a key
\* rotation or a crash between any two steps (lock_for_mutation, rotate_audit_key).
THEOREM LatchNeedsFault == Spec => []NoSpuriousLatch
<1>1. LatchInv => NoSpuriousLatch
  BY DEF LatchInv, NoSpuriousLatch
<1> QED
  BY <1>1, LatchInvStep, InitTypes, HeadsInit, LatchInit, PTL DEF Spec
=============================================================================
