--------------------------- MODULE AuditCheckpoint ---------------------------
(***************************************************************************)
(* The Broker's signed audit chain, the heads it retains in the independent*)
(* checkpoint store, and the degradation latch: lock_for_mutation,         *)
(* checkpoint_committed_head, verified_audit_head and rotate_audit_key of  *)
(* journal.rs, the Signer worker of signer_client.rs, the Machine exchange *)
(* and startup of main.rs.                                                 *)
(*                                                                         *)
(* The connection mutex makes each locked section one action; what is split*)
(* is what the code does between two sections: the latch is read before the*)
(* mutex is taken, a commit and its checkpoint are two sections, the worker*)
(* samples a head under the mutex and retains it outside.  The head of a   *)
(* chain is the chain itself (an entry hash covers all that precede it).   *)
(* The Broker is the only writer of its database while it runs; the        *)
(* database may be damaged while it is down.  A peer's head is its number  *)
(* of entries.                                                             *)
(***************************************************************************)
EXTENDS Integers, Sequences, FiniteSets

CONSTANTS
  Mutators,   \* concurrent mutating calls
  Worlds,     \* the environments a behaviour may run in
  MaxKey,     \* bound on audit keys
  MaxPeer     \* bound on a peer's entries

\* A world bounds the calls that run at once, the chain (rotations may exceed
\* the bound), the audit keys, a peer's entries and the crashes.
VARIABLES
  chain,     \* the audit_chain table
  corrupt,   \* the database no longer verifies under any key
  retained,  \* the Broker head in the checkpoint store
  peers,     \* peer -> [seq: its own chain, retained: its retained head]
  config,    \* packaged audit keys [current, previous]; 0 is none
  process,   \* "down", "rotating", "rotated", "opened", "serving"
  signer,    \* key id of the active audit signer
  storeUp,   \* the checkpoint store could be opened
  latch,     \* degradation is set
  pc,        \* mutator -> "idle", "checked", "committed"
  mine,      \* mutator -> entries in the chain when it committed
  worker,    \* the Signer worker: where it is and the head it holds
  inflight,  \* heads of Machine requests on their way
  reported,  \* entries covered by a reported success (history)
  faults,    \* what went wrong outside the Broker (history)
  crashes,
  world      \* one of Worlds, never changed

durableVars == <<chain, corrupt, retained, peers, config>>
processVars == <<process, signer, storeUp, pc, mine, worker, inflight>>
historyVars == <<reported, faults, crashes, world>>
vars == <<durableVars, processVars, latch, historyVars>>

ASSUME BoundsAssumption ==
  /\ IsFiniteSet(Mutators)
  /\ MaxKey \in Nat \ {0} /\ MaxPeer \in Nat
  /\ Worlds \subseteq [mutators: SUBSET Mutators, entries: Nat, key: 1..MaxKey, peer: 0..MaxPeer,
                       crashes: Nat]

Peers == {"machine", "signer"}

Keys == 1..MaxKey

\* Any mutation's entry, and the two entries of a key rotation.
Entry(key) == [event |-> "event", key |-> key, new |-> 0]
Rotated(old, new) == [event |-> "audit.key_rotated", key |-> old, new |-> new]
Completed(new) == [event |-> "audit.key_rotation_completed", key |-> new, new |-> 0]

-----------------------------------------------------------------------------
(* verify_audit_chain_connection: every entry is signed by the key the entries *)
(* before it select, a rotation is completed by the entry that follows it, and *)
(* the key selected last is the active signer's.                               *)

Selected(entry) == IF entry.event = "audit.key_rotated" THEN entry.new ELSE entry.key

ChainVerifies(key) ==
  /\ ~corrupt
  /\ \A i \in 2..Len(chain) :
       /\ chain[i].key = Selected(chain[i - 1])
       /\ (chain[i].event = "audit.key_rotation_completed")
            <=> (chain[i - 1].event = "audit.key_rotated")
  /\ chain # <<>> =>
       /\ chain[Len(chain)].event # "audit.key_rotated"
       /\ chain[Len(chain)].key = key

-----------------------------------------------------------------------------
(* The checkpoint store (bloom_audit_checkpoint), external. *)

\* What the store answers to an attempt.
BrokerOutcomes(head) ==
  IF ~storeUp THEN {"failure"}
  ELSE {"failure",
        IF Len(head) < Len(retained) THEN "rollback"
        ELSE IF Len(head) = Len(retained) /\ head # retained THEN "conflict"
        ELSE "retained"}

PeerOutcomes(p, seq) ==
  IF ~storeUp THEN {"failure"}
  ELSE {"failure", IF seq < peers[p].retained THEN "rollback" ELSE "retained"}

\* What an answer does; an outcome that is not tolerated sets the latch.
Settle(outcome, tolerated) ==
  /\ latch' = (latch \/ outcome \notin {"retained"} \cup tolerated)
  /\ faults' = IF outcome = "failure" THEN faults \cup {"store"} ELSE faults

RetainBroker(outcome, head, tolerated) ==
  /\ retained' = IF outcome = "retained" THEN head ELSE retained
  /\ Settle(outcome, tolerated)

RetainPeer(p, outcome, seq, tolerated) ==
  /\ peers' = IF outcome = "retained" THEN [peers EXCEPT ![p].retained = seq] ELSE peers
  /\ Settle(outcome, tolerated)

-----------------------------------------------------------------------------
Init ==
  /\ world \in Worlds
  /\ chain = <<>> /\ corrupt = FALSE /\ retained = <<>>
  /\ peers = [p \in Peers |-> [seq |-> 0, retained |-> 0]]
  /\ config = [current |-> 1, previous |-> 0]
  /\ process = "down" /\ signer = 1 /\ storeUp = FALSE /\ latch = FALSE
  /\ pc = [m \in Mutators |-> "idle"]
  /\ mine = [m \in Mutators |-> 0]
  /\ worker = [at |-> "stopped", head |-> <<>>, response |-> 0]
  /\ inflight = {}
  /\ reported = 0 /\ faults = {} /\ crashes = 0

-----------------------------------------------------------------------------
(* Startup: open_operational_audit_journal, then the checkpoint store. *)

\* BrokerJournal::open with the current key, then with the previous one.
OpenJournal ==
  /\ process = "down"
  /\ LET rotates == /\ ~ChainVerifies(config.current)
                    /\ config.previous # 0 /\ ChainVerifies(config.previous)
     IN /\ process' = IF rotates THEN "rotating" ELSE "opened"
        /\ signer' = IF rotates THEN config.previous ELSE config.current
        /\ latch' = (~rotates /\ ~ChainVerifies(config.current))
  /\ UNCHANGED <<durableVars, storeUp, pc, mine, worker, inflight, historyVars>>

\* rotate_audit_key: both entries in one transaction; no store is installed
\* yet, so the checkpoint after it is skipped.
RotateAuditKey ==
  /\ process = "rotating"
  /\ chain' = chain \o <<Rotated(signer, config.current), Completed(config.current)>>
  /\ signer' = config.current
  /\ process' = "rotated"
  /\ UNCHANGED <<corrupt, retained, peers, config, storeUp, latch, pc, mine, worker, inflight,
                 historyVars>>

\* verify_audit_chain after the rotation; an error ends startup.
VerifyRotated ==
  /\ process = "rotated"
  /\ process' = IF ChainVerifies(signer) THEN "opened" ELSE "down"
  /\ UNCHANGED <<durableVars, signer, storeUp, latch, pc, mine, worker, inflight, historyVars>>

\* The store is opened and installed; without it the Broker serves latched.
InstallSelfCheckpoint ==
  /\ process = "opened"
  /\ process' = "serving"
  /\ worker' = [worker EXCEPT !.at = "start"]
  /\ \/ storeUp' = TRUE /\ UNCHANGED <<latch, faults>>
     \/ storeUp' = FALSE /\ latch' = TRUE /\ faults' = faults \cup {"store"}
  /\ UNCHANGED <<durableVars, signer, pc, mine, inflight, reported, crashes, world>>

-----------------------------------------------------------------------------
(* A mutating call. *)

\* lock_for_mutation reads the latch before it waits for the mutex.
CheckLatch(m) ==
  /\ process = "serving" /\ pc[m] = "idle"
  /\ ~latch
  /\ pc' = [pc EXCEPT ![m] = "checked"]
  /\ UNCHANGED <<durableVars, process, signer, storeUp, mine, worker, inflight, latch, historyVars>>

\* Under the mutex: the cached tail is current or the chain is verified again.
\* What follows appends and commits, replays an earlier call (a commit without
\* an entry), or is refused and rolled back.
\* Mutant of Commit: the new head is retained inside the transaction, which may
\* still be rolled back.
Commit_Speculative(m) ==
  /\ pc[m] = "checked"
  /\ ChainVerifies(signer)
  /\ Len(chain) < world.entries
  /\ \/ chain' = Append(chain, Entry(signer)) /\ pc' = [pc EXCEPT ![m] = "committed"]
     \/ chain' = chain /\ pc' = [pc EXCEPT ![m] = "idle"]
  /\ mine' = [mine EXCEPT ![m] = Len(chain')]
  /\ \E outcome \in BrokerOutcomes(Append(chain, Entry(signer))) :
       RetainBroker(outcome, Append(chain, Entry(signer)), {})
  /\ UNCHANGED <<corrupt, peers, config, process, signer, storeUp, worker, inflight,
                 reported, crashes, world>>

Commit(m) ==
  /\ pc[m] = "checked"
  /\ ChainVerifies(signer)
  /\ \/ Len(chain) < world.entries /\ chain' = Append(chain, Entry(signer))
     \/ chain' = chain
  /\ pc' = [pc EXCEPT ![m] = "committed"]
  /\ mine' = [mine EXCEPT ![m] = Len(chain')]
  /\ UNCHANGED <<corrupt, retained, peers, config, process, signer, storeUp, worker, inflight,
                 latch, reported, faults, crashes, world>>

Rollback(m) ==
  /\ pc[m] = "checked"
  /\ ChainVerifies(signer)
  /\ pc' = [pc EXCEPT ![m] = "idle"]
  /\ UNCHANGED <<durableVars, process, signer, storeUp, mine, worker, inflight, latch, historyVars>>

\* Mutant of Checkpoint: the head read at the commit is retained after the mutex
\* was given up in between.
Checkpoint_StaleHead(m) ==
  /\ pc[m] = "committed"
  /\ pc' = [pc EXCEPT ![m] = "idle"] /\ mine' = [mine EXCEPT ![m] = 0]
  /\ LET head == SubSeq(chain, 1, mine[m]) IN
     \E outcome \in BrokerOutcomes(head) :
       /\ RetainBroker(outcome, head, {})
       /\ reported' = IF outcome = "retained" /\ mine[m] > reported THEN mine[m] ELSE reported
  /\ UNCHANGED <<chain, corrupt, peers, config, process, signer, storeUp, worker, inflight,
                 crashes, world>>

\* checkpoint_committed_head: the head is read and retained under one hold of
\* the mutex.  A rejected head latches and the call reports an error, although
\* its transaction is durable.
Checkpoint(m) ==
  /\ pc[m] = "committed"
  /\ pc' = [pc EXCEPT ![m] = "idle"] /\ mine' = [mine EXCEPT ![m] = 0]
  /\ \E outcome \in BrokerOutcomes(chain) :
       /\ RetainBroker(outcome, chain, {})
       /\ reported' = IF outcome = "retained" /\ mine[m] > reported THEN mine[m] ELSE reported
  /\ UNCHANGED <<chain, corrupt, peers, config, process, signer, storeUp, worker, inflight,
                 crashes, world>>

-----------------------------------------------------------------------------
(* The Signer worker: one request at a time. *)

\* verified_audit_head; a chain that does not verify latches, the first head is
\* then taken from the store and a mutating request is refused.
SampleHead ==
  /\ worker.at \in {"start", "idle"}
  /\ IF ChainVerifies(signer)
     THEN /\ worker' = [worker EXCEPT !.head = chain,
                          !.at = IF @ = "start" THEN "initial" ELSE "pre_dispatch"]
          /\ UNCHANGED latch
     ELSE /\ \E next \in {"idle"} \cup (IF worker.at = "idle" THEN {"await"} ELSE {}) :
               worker' = [worker EXCEPT !.at = next]
          /\ latch' = TRUE
  /\ UNCHANGED <<durableVars, process, signer, storeUp, pc, mine, inflight, historyVars>>

\* Mutant of PersistHead: the Broker's own head is sent, not retained.
PersistHead_OnlySent ==
  /\ worker.at \in {"initial", "pre_dispatch"}
  /\ worker' = [worker EXCEPT !.head = <<>>,
                 !.at = IF @ = "initial" THEN "idle" ELSE "await"]
  /\ UNCHANGED <<durableVars, process, signer, storeUp, pc, mine, inflight, latch, historyVars>>

\* persist_checkpoint_diagnosed for the sampled head.  Calls may have retained a
\* newer one since, so a rollback is tolerated.  After another failure only
\* read-only methods are sent.
PersistHead ==
  /\ worker.at \in {"initial", "pre_dispatch"}
  /\ \E outcome \in BrokerOutcomes(worker.head) :
       /\ RetainBroker(outcome, worker.head, {"rollback"})
       /\ \E next \in {"idle", "await"} :
            /\ next = "await" => worker.at = "pre_dispatch"
            /\ worker.at = "pre_dispatch" /\ outcome \in {"retained", "rollback"}
                 => next = "await"
            /\ worker' = [worker EXCEPT !.at = next, !.head = <<>>]
  /\ UNCHANGED <<chain, corrupt, peers, config, process, signer, storeUp, pc, mine, inflight,
                 reported, crashes, world>>

\* The Signer signs its head into its response (external).
SignerRespond ==
  /\ worker.at = "await"
  /\ worker' = [worker EXCEPT !.at = "answered", !.response = peers["signer"].seq]
  /\ UNCHANGED <<durableVars, process, signer, storeUp, pc, mine, inflight, latch, historyVars>>

\* persist_response_checkpoint: responses are serial, a rollback is an error.
ReceiveResponse ==
  /\ worker.at = "answered"
  /\ \E outcome \in PeerOutcomes("signer", worker.response) :
       RetainPeer("signer", outcome, worker.response, {})
  /\ worker' = [worker EXCEPT !.at = "idle", !.response = 0]
  /\ UNCHANGED <<chain, corrupt, retained, config, process, signer, storeUp, pc, mine,
                 inflight, reported, crashes, world>>

\* No connection, or the 30 s timeout; a late response has nobody to read it.
WorkerGivesUp ==
  /\ worker.at \in {"await", "answered"}
  /\ worker' = [worker EXCEPT !.at = "idle", !.response = 0]
  /\ UNCHANGED <<durableVars, process, signer, storeUp, pc, mine, inflight, latch, historyVars>>

-----------------------------------------------------------------------------
(* Machine requests carry Machine's head and are served concurrently. *)

MachineSend ==
  /\ process = "serving"
  /\ inflight' = inflight \cup {peers["machine"].seq}
  /\ UNCHANGED <<durableVars, process, signer, storeUp, pc, mine, worker, latch, historyVars>>

CheckpointRequestHead(seq) ==
  /\ seq \in inflight
  /\ inflight' = inflight \ {seq}
  /\ \E outcome \in PeerOutcomes("machine", seq) :
       RetainPeer("machine", outcome, seq, {"rollback"})
  /\ UNCHANGED <<chain, corrupt, retained, config, process, signer, storeUp, pc, mine, worker,
                 reported, crashes, world>>

PeerCommit(p) ==
  /\ peers[p].seq < world.peer
  /\ peers' = [peers EXCEPT ![p].seq = @ + 1]
  /\ UNCHANGED <<chain, corrupt, retained, config, processVars, latch, historyVars>>

-----------------------------------------------------------------------------
(* Crashes, damage at rest, and packaging. *)

Crash ==
  /\ process # "down" /\ crashes < world.crashes
  /\ crashes' = crashes + 1
  /\ process' = "down" /\ storeUp' = FALSE /\ latch' = FALSE
  /\ pc' = [m \in Mutators |-> "idle"] /\ mine' = [m \in Mutators |-> 0]
  /\ worker' = [at |-> "stopped", head |-> <<>>, response |-> 0]
  /\ inflight' = {}
  /\ UNCHANGED <<durableVars, signer, reported, faults, world>>

Damage ==
  /\ process = "down" /\ chain # <<>> /\ ~corrupt
  /\ corrupt' = TRUE
  /\ faults' = faults \cup {"damage"}
  /\ UNCHANGED <<chain, retained, peers, config, processVars, latch, reported, crashes, world>>

\* Packaging supplies a new current key with the previous one beside it, and
\* only once the last rotation is in the chain.
Repackage ==
  /\ process = "down" /\ config.current < world.key
  /\ chain # <<>> => chain[Len(chain)].key = config.current
  /\ config' = [current |-> config.current + 1, previous |-> config.current]
  /\ UNCHANGED <<chain, corrupt, retained, peers, processVars, latch, historyVars>>

\* It removes the previous key after a startup that served.
RetirePrevious ==
  /\ process = "down" /\ config.previous # 0
  /\ chain # <<>> /\ chain[Len(chain)].key = config.current
  /\ config' = [config EXCEPT !.previous = 0]
  /\ UNCHANGED <<chain, corrupt, retained, peers, processVars, latch, historyVars>>

-----------------------------------------------------------------------------
Startup == OpenJournal \/ RotateAuditKey \/ VerifyRotated \/ InstallSelfCheckpoint

Call(m) == CheckLatch(m) \/ Commit(m) \/ Rollback(m) \/ Checkpoint(m)

Worker == SampleHead \/ PersistHead \/ SignerRespond \/ ReceiveResponse \/ WorkerGivesUp

Next ==
  \/ Startup \/ Worker
  \/ \E m \in world.mutators : Call(m)
  \/ MachineSend \/ \E seq \in 0..MaxPeer : CheckpointRequestHead(seq)
  \/ \E p \in Peers : PeerCommit(p)
  \/ Crash \/ Damage \/ Repackage \/ RetirePrevious

Spec == Init /\ [][Next]_vars

-----------------------------------------------------------------------------
(* Properties. *)

\* Mutations are disabled only by a store that failed or a damaged database:
\* never by calls and the worker racing to retain heads, by Machine requests
\* that overtake each other, by a key rotation, or by a crash between any two
\* steps.
NoSpuriousLatch == latch => faults # {}

\* The store never retains a head the journal did not commit, so no crash can
\* leave the store ahead of the chain or beside it, and it covers every call
\* that reported success: a journal restored to before one would be noticed.
RetainedIsCommitted ==
  /\ reported <= Len(retained) /\ Len(retained) <= Len(chain)
  /\ retained = SubSeq(chain, 1, Len(retained))

\* Unless something outside failed, the store catches up with the chain again
\* and again: every committed entry is retained by its own call or, after a
\* crash, by the worker's first exchange.
CommittedIsRetained == []<>(retained = chain \/ faults # {})

\* The service manager restarts the Broker, and a running thread makes progress.
Running ==
  /\ WF_vars(Startup)
  /\ WF_vars(SampleHead \/ PersistHead)
  /\ \A m \in Mutators : WF_vars(Checkpoint(m))

FairSpec == Spec /\ Running
====
