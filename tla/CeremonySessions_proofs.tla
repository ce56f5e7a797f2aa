----------------------- MODULE CeremonySessions_proofs -----------------------
(***************************************************************************)
(* Proofs about CeremonySessions, for any number of operations, handlers,  *)
(* deadlines and faults.                                                   *)
(*                                                                         *)
(* ReleaseInv: a session, in memory, on disk or about to be written, is of *)
(* an operation the Signer knows, and one that is cancelled or expired is  *)
(* of an operation the Signer has decided.                                 *)
(*                                                                         *)
(* TruthInv: what a session says, and what a handler is about to write, is *)
(* true of the Signer and of the observer, and the observer has settled    *)
(* only what the Signer completed.                                         *)
(*                                                                         *)
(* On TruthInv every step is one of CeremonyPromise or a stutter.          *)
(***************************************************************************)
EXTENDS CeremonySessions, TLAPS

SessionFields == {"state", "token", "deadline", "challenge"}
HandlerFields == {"pc", "op", "snap", "then", "caller"}
Decided == {"completed", "ended"}

Formed(s) == DOMAIN s = SessionFields /\ s.state \in States

\* What is stored of an operation o.
Stored(o, s) ==
  s # NoSession =>
    /\ Formed(s) /\ signer[o] # "missing"
    /\ s.state \in {"Cancelled", "Expired"} => signer[o] \in Decided

Entered == {"idle", "p_call", "p_insert"}

\* A handler h.
HandlerOk(h) ==
  /\ DOMAIN h = HandlerFields
  /\ h.caller \in {"idle", "x_read"}
  /\ h.pc # "idle" => h.op \in Ops
  /\ h.pc \in {"w_db", "w_mem"} => h.then \in {"idle", "f_read", "c_call"} /\ Stored(h.op, h.snap)
  /\ h.pc \in {"w_db", "w_mem", "f_notify", "x_call"} => Formed(h.snap)
  /\ h.pc \notin {"idle", "p_call"} => signer[h.op] # "missing"
  /\ h.pc \notin Entered => mem[h.op] # NoSession
  /\ h.pc \in {"e_end", "t_end"} => signer[h.op] = "ended"

Handlers == DOMAIN thr = Threads /\ \A t \in Threads : HandlerOk(thr[t])

Tables == DOMAIN mem = Ops /\ DOMAIN db = Ops /\ signer \in [Ops -> SignerState]

Rows == \A o \in Ops : Stored(o, mem[o]) /\ Stored(o, db[o])

ReleaseInv == world \in Worlds /\ Tables /\ Rows /\ Handlers

\* What no step but the end of the process undoes.
Later ==
  /\ \A o \in Ops : /\ signer[o] # "missing" => signer'[o] # "missing"
                    /\ signer[o] \in Decided => signer'[o] = signer[o]
                    /\ mem[o] # NoSession => mem'[o] # NoSession
  /\ latched => latched'
  /\ adopted \subseteq adopted' /\ rejected \subseteq rejected' /\ abandoned \subseteq abandoned'

-----------------------------------------------------------------------------
\* Records.

LEMMA FormedIsSession ==
  ASSUME NEW s, Formed(s)
  PROVE  s # NoSession
<1>1. "token" \in DOMAIN s /\ "token" \notin DOMAIN NoSession
  BY DEF Formed, SessionFields, NoSession
<1> QED
  BY <1>1

LEMMA LatchedSession ==
  ASSUME NEW s, Formed(s), NEW state \in States
  PROVE  LET l == latch_terminal(s, state) IN Formed(l) /\ l.state = state
BY DEF Formed, SessionFields, latch_terminal

LEMMA NewSession == Formed(new_session) /\ new_session.state = "AwaitingUser"
BY DEF Formed, SessionFields, new_session, States

LEMMA IdleOk == HandlerOk(Idle)
BY DEF HandlerOk, Idle, HandlerFields, Entered

-----------------------------------------------------------------------------
\* The frame.

LEMMA StoredKept ==
  ASSUME Later, NEW o \in Ops, NEW s, Stored(o, s)
  PROVE  Stored(o, s)'
BY DEF Later, Stored, Decided

LEMMA OkKept ==
  ASSUME Later, NEW h, HandlerOk(h)
  PROVE  HandlerOk(h)'
<1>1. h.pc \in {"w_db", "w_mem"} => Stored(h.op, h.snap)'
  BY StoredKept DEF HandlerOk
<1> QED
  BY <1>1 DEF Later, HandlerOk, Decided, Entered

LEMMA Moves ==
  ASSUME ReleaseInv, Later, NEW t \in Threads, NEW h, thr' = [thr EXCEPT ![t] = h], HandlerOk(h)'
  PROVE  Handlers'
<1>1. DOMAIN thr' = Threads /\ thr'[t] = h /\ \A u \in Threads \ {t} : thr'[u] = thr[u]
  BY DEF ReleaseInv, Handlers
<1>2. ASSUME NEW u \in Threads PROVE HandlerOk(thr[u])'
  <2>1. CASE u = t
    BY <1>1, <2>1 DEF HandlerOk, Stored
  <2>2. CASE u # t
    <3>1. PICK k : k = thr[u]
      OBVIOUS
    <3>2. HandlerOk(k)'
      BY <3>1, OkKept DEF ReleaseInv, Handlers
    <3> QED
      BY <1>1, <2>2, <3>1, <3>2 DEF HandlerOk, Stored
  <2> QED
    BY <2>1, <2>2
<1> QED
  BY <1>1, <1>2 DEF Handlers

LEMMA Stays ==
  ASSUME ReleaseInv, Later, UNCHANGED thr
  PROVE  Handlers'
<1>1. ASSUME NEW u \in Threads PROVE HandlerOk(thr[u])'
  <2>1. PICK k : k = thr[u]
    OBVIOUS
  <2>2. HandlerOk(k)'
    BY <2>1, OkKept DEF ReleaseInv, Handlers
  <2> QED
    BY <2>1, <2>2 DEF HandlerOk, Stored
<1> QED
  BY <1>1 DEF Handlers, ReleaseInv

LEMMA Returns ==
  ASSUME ReleaseInv, Later, NEW t \in Threads, Return(t)
  PROVE  Handlers'
<1>1. PICK h : h = Idle
  OBVIOUS
<1>2. HandlerOk(h)'
  BY <1>1 DEF HandlerOk, Idle, HandlerFields, Entered
<1> QED
  BY <1>1, <1>2, Moves DEF Return

\* Where a handler goes without anything to write.
Plainly == {"f_read", "e_ack", "e_status", "e_adopt", "e_cancel", "c_call", "c_ok", "c_unauth",
            "c_fail", "x_read", "idle"}

LEMMA Goes ==
  ASSUME ReleaseInv, Later, NEW t \in Threads, thr[t].pc \notin Entered, NEW pc \in Plainly, Goto(t, pc)
  PROVE  Handlers'
<1>1. PICK h : h = [thr[t] EXCEPT !.pc = pc]
  OBVIOUS
<1>2. DOMAIN h = HandlerFields /\ h.pc = pc /\ h.op = thr[t].op /\ h.caller = thr[t].caller
  BY <1>1 DEF ReleaseInv, Handlers, HandlerOk, HandlerFields
<1>3. HandlerOk(thr[t])
  BY DEF ReleaseInv, Handlers
<1>4. HandlerOk(h)'
  BY <1>2, <1>3 DEF HandlerOk, Plainly, Entered, Later
<1> QED
  BY <1>1, <1>4, Moves DEF Goto

LEMMA Writes ==
  ASSUME ReleaseInv, Later, NEW t \in Threads, thr[t].pc \notin Entered, NEW s, Formed(s),
         NEW o, o = thr[t].op, Stored(o, s)', NEW pc \in {"idle", "f_read", "c_call"}, Write(t, s, pc)
  PROVE  Handlers'
<1>1. PICK h : h = [thr[t] EXCEPT !.pc = "w_db", !.snap = s, !.then = pc]
  OBVIOUS
<1>2. HandlerOk(thr[t])
  BY DEF ReleaseInv, Handlers
<1>3. /\ DOMAIN h = HandlerFields /\ h.pc = "w_db" /\ h.op = o /\ h.caller = thr[t].caller
      /\ h.snap = s /\ h.then = pc
  BY <1>1, <1>2 DEF HandlerOk, HandlerFields
<1>4. HandlerOk(h)'
  BY <1>2, <1>3 DEF HandlerOk, Entered, Later
<1>5. thr' = [thr EXCEPT ![t] = h]
  BY <1>1 DEF Write
<1> QED
  BY <1>4, <1>5, Moves

LEMMA GoesToEnd ==
  ASSUME ReleaseInv, Later, NEW t \in Threads, thr[t].pc \notin Entered, signer'[thr[t].op] = "ended",
         NEW pc \in {"e_end", "t_end"}, Goto(t, pc)
  PROVE  Handlers'
<1>1. PICK h : h = [thr[t] EXCEPT !.pc = pc]
  OBVIOUS
<1>2. HandlerOk(thr[t])
  BY DEF ReleaseInv, Handlers
<1>3. DOMAIN h = HandlerFields /\ h.pc = pc /\ h.op = thr[t].op /\ h.caller = thr[t].caller
  BY <1>1, <1>2 DEF HandlerOk, HandlerFields
<1>4. HandlerOk(h)'
  BY <1>2, <1>3 DEF HandlerOk, Entered, Later
<1> QED
  BY <1>1, <1>4, Moves DEF Goto

LEMMA GoesBack ==
  ASSUME ReleaseInv, Later, NEW t \in Threads, thr[t].pc \notin Entered, Back(t)
  PROVE  Handlers'
<1>1. PICK pc : pc = thr[t].caller
  OBVIOUS
<1>2. pc \in {"idle", "x_read"}
  BY <1>1 DEF ReleaseInv, Handlers, HandlerOk
<1>3. CASE pc = "idle"
  BY <1>1, <1>3, Returns DEF Back
<1>4. CASE pc = "x_read"
  <2>1. Goto(t, pc)
    BY <1>1, <1>4 DEF Back
  <2> QED
    BY <1>2, <2>1, Goes DEF Plainly
<1> QED
  BY <1>2, <1>3, <1>4

LEMMA RowsKept ==
  ASSUME ReleaseInv, Later, UNCHANGED <<mem, db>>
  PROVE  Rows'
<1>1. ASSUME NEW o \in Ops PROVE Stored(o, mem[o])' /\ Stored(o, db[o])'
  <2>1. PICK m, d : m = mem[o] /\ d = db[o]
    OBVIOUS
  <2>2. Stored(o, m)' /\ Stored(o, d)'
    BY <2>1, StoredKept DEF ReleaseInv, Rows
  <2> QED
    BY <2>1, <2>2 DEF Stored
<1> QED
  BY <1>1 DEF Rows

\* A row is written, to either place.
LEMMA RowWritten ==
  ASSUME ReleaseInv, Later, NEW o \in Ops, NEW s, Stored(o, s)',
         mem' \in {mem, [mem EXCEPT ![o] = s]}, db' \in {db, [db EXCEPT ![o] = s]}
  PROVE  Rows' /\ DOMAIN mem' = Ops /\ DOMAIN db' = Ops
<1>1. /\ DOMAIN mem' = Ops /\ DOMAIN db' = Ops
      /\ \A p \in Ops : mem'[p] = mem[p] \/ (p = o /\ mem'[p] = s)
      /\ \A p \in Ops : db'[p] = db[p] \/ (p = o /\ db'[p] = s)
  BY DEF ReleaseInv, Tables
<1>2. ASSUME NEW p \in Ops PROVE Stored(p, mem[p])' /\ Stored(p, db[p])'
  <2>1. PICK m, d : m = mem[p] /\ d = db[p]
    OBVIOUS
  <2>2. Stored(p, m)' /\ Stored(p, d)'
    BY <2>1, StoredKept DEF ReleaseInv, Rows
  <2> QED
    BY <1>1, <2>1, <2>2 DEF Stored
<1> QED
  BY <1>1, <1>2 DEF Rows

\* The Signer's answers.
LEMMA SignerKnows ==
  ASSUME ReleaseInv, NEW o \in Ops
  PROVE  DOMAIN signer = Ops /\ signer[o] \in {"missing", "pending", "completed", "ended"}
BY DEF ReleaseInv, Tables, SignerState

LEMMA Cancels ==
  ASSUME ReleaseInv, NEW o \in Ops, SignerCancels(o), signer[o] # "missing"
  PROVE  /\ signer' \in [Ops -> SignerState] /\ signer'[o] = "ended" /\ signer[o] \in {"pending", "ended"}
         /\ \A p \in Ops : signer'[p] # signer[p] => p = o
<1>1. signer \in [Ops -> SignerState] /\ signer[o] \in {"pending", "ended"}
  BY SignerKnows DEF ReleaseInv, Tables, SignerCancels
<1> QED
  BY <1>1 DEF SignerCancels, SignerState

-----------------------------------------------------------------------------
\* A step of a handler.

Good == Later /\ Tables' /\ Rows' /\ Handlers' /\ world' = world

\* A step that changes only the handlers, or no session and no Signer state.
LEMMA Silent ==
  ASSUME ReleaseInv, UNCHANGED <<world, mem, db, signer>>, latched => latched',
         adopted \subseteq adopted', rejected \subseteq rejected', abandoned \subseteq abandoned'
  PROVE  Later /\ Tables' /\ Rows' /\ world' = world
<1>1. Later
  BY DEF Later
<1> QED
  BY <1>1, RowsKept DEF ReleaseInv, Tables

LEMMA AtHandler ==
  ASSUME ReleaseInv, NEW t \in Threads, NEW pc, At(t, pc), pc \notin Entered
  PROVE  /\ HandlerOk(thr[t]) /\ thr[t].pc = pc /\ thr[t].op \in Ops /\ Formed(mem[thr[t].op])
         /\ signer[thr[t].op] # "missing"
BY DEF ReleaseInv, Handlers, HandlerOk, At, Entered, Rows, Stored

LEMMA PersistStep ==
  ASSUME ReleaseInv, NEW t \in Threads, persist_session(t)
  PROVE  Good
<1>1. PICK o, s : o = thr[t].op /\ s = thr[t].snap
  OBVIOUS
<1>2. /\ thr[t].pc = "w_db" /\ HandlerOk(thr[t]) /\ o \in Ops /\ Stored(o, s) /\ Formed(s)
  BY <1>1 DEF persist_session, At, ReleaseInv, Handlers, HandlerOk
<1>3. Later
  BY DEF persist_session, Later, Refuse
<1>4. Stored(o, s)'
  BY <1>2, <1>3, StoredKept
<1>5. Tables' /\ Rows'
  <2>1. db' \in {db, [db EXCEPT ![o] = s]} /\ UNCHANGED <<mem, signer>>
    BY <1>1 DEF persist_session
  <2> QED
    BY <1>2, <1>3, <1>4, <2>1, RowWritten DEF ReleaseInv, Tables
<1>6. Handlers'
  <2>1. CASE Goto(t, "w_mem")
    <3>1. PICK h : h = [thr[t] EXCEPT !.pc = "w_mem"]
      OBVIOUS
    <3>2. /\ DOMAIN h = HandlerFields /\ h.pc = "w_mem" /\ h.op = o /\ h.snap = s
          /\ h.then = thr[t].then /\ h.caller = thr[t].caller
      BY <1>1, <1>2, <3>1 DEF HandlerOk, HandlerFields
    <3>3. HandlerOk(h)'
      BY <1>1, <1>2, <1>3, <1>4, <3>2 DEF HandlerOk, Entered, Later
    <3> QED
      BY <1>3, <2>1, <3>1, <3>3, Moves DEF Goto
  <2> QED
    BY <1>3, <2>1, Returns DEF persist_session
<1> QED
  BY <1>3, <1>5, <1>6 DEF Good, persist_session

LEMMA InsertStep ==
  ASSUME ReleaseInv, NEW t \in Threads, insert(t)
  PROVE  Good
<1>1. PICK o, s, pc : o = thr[t].op /\ s = thr[t].snap /\ pc = thr[t].then
  OBVIOUS
<1>2. /\ thr[t].pc = "w_mem" /\ HandlerOk(thr[t]) /\ o \in Ops /\ Stored(o, s) /\ Formed(s)
      /\ pc \in {"idle", "f_read", "c_call"}
  BY <1>1 DEF insert, At, ReleaseInv, Handlers, HandlerOk
<1>3. mem' = [mem EXCEPT ![o] = s] /\ UNCHANGED <<db, signer, adopted, rejected, abandoned, latched>> /\ s # NoSession
  BY <1>1, <1>2, FormedIsSession DEF insert
<1>4. Later
  BY <1>2, <1>3 DEF Later, ReleaseInv, Tables
<1>5. Tables' /\ Rows'
  BY <1>2, <1>3, <1>4, StoredKept, RowWritten DEF ReleaseInv, Tables
<1>6. Handlers'
  <2>1. CASE pc = "idle"
    BY <1>1, <1>2, <1>4, <2>1, GoesBack DEF insert, Entered
  <2>2. CASE pc # "idle"
    <3>1. Goto(t, pc) /\ pc \in Plainly
      BY <1>1, <1>2, <2>2 DEF insert, Plainly
    <3> QED
      BY <1>2, <1>4, <3>1, Goes DEF Entered
  <2> QED
    BY <2>1, <2>2
<1> QED
  BY <1>4, <1>5, <1>6 DEF Good, insert

LEMMA PrepareSteps ==
  ASSUME ReleaseInv, NEW t \in Threads, prepare_at_signer(t) \/ insert_session(t)
  PROVE  Good
<1>1. PICK o : o = thr[t].op
  OBVIOUS
<1>2. CASE prepare_at_signer(t)
  <2>1. thr[t].pc = "p_call" /\ HandlerOk(thr[t]) /\ o \in Ops
    BY <1>1, <1>2 DEF prepare_at_signer, At, ReleaseInv, Handlers, HandlerOk
  <2>2. /\ UNCHANGED <<world, mem, db, adopted, rejected, abandoned, latched>>
        /\ UNCHANGED signer \/ (signer' = [signer EXCEPT ![o] = "pending"] /\ signer[o] \in {"missing", "pending"})
    BY <1>1, <1>2 DEF prepare_at_signer
  <2>3. Later /\ signer' \in [Ops -> SignerState]
    BY <2>1, <2>2 DEF Later, Decided, ReleaseInv, Tables, SignerState
  <2>4. Handlers'
    <3>1. CASE Goto(t, "p_insert") /\ signer' = [signer EXCEPT ![o] = "pending"]
      <4>1. PICK h : h = [thr[t] EXCEPT !.pc = "p_insert"]
        OBVIOUS
      <4>2. DOMAIN h = HandlerFields /\ h.pc = "p_insert" /\ h.op = o /\ h.caller = thr[t].caller
        BY <1>1, <2>1, <4>1 DEF HandlerOk, HandlerFields
      <4>3. HandlerOk(h)'
        BY <2>1, <3>1, <4>2 DEF HandlerOk, Entered, ReleaseInv, Tables
      <4> QED
        BY <2>3, <3>1, <4>1, <4>3, Moves DEF Goto
    <3> QED
      BY <1>1, <1>2, <2>3, <3>1, Returns DEF prepare_at_signer
  <2> QED
    BY <2>2, <2>3, <2>4, RowsKept DEF Good, ReleaseInv, Tables
<1>3. CASE insert_session(t)
  <2>1. thr[t].pc = "p_insert" /\ HandlerOk(thr[t]) /\ o \in Ops /\ signer[o] # "missing"
    BY <1>1, <1>3 DEF insert_session, At, ReleaseInv, Handlers, HandlerOk
  <2>2. PICK s : s = new_session
    OBVIOUS
  <2>3. /\ Formed(s) /\ s.state = "AwaitingUser" /\ s # NoSession
    BY <2>2, NewSession, FormedIsSession
  <2>4. /\ mem' \in {mem, [mem EXCEPT ![o] = s]} /\ db' \in {db, [db EXCEPT ![o] = s]}
        /\ UNCHANGED <<world, signer, adopted, rejected, abandoned>> /\ (latched => latched')
    BY <1>1, <1>3, <2>2 DEF insert_session, Refuse
  <2>5. Later
    BY <2>1, <2>3, <2>4 DEF Later, ReleaseInv, Tables
  <2>6. Stored(o, s)'
    BY <2>1, <2>3, <2>4 DEF Stored
  <2>7. Handlers'
    BY <1>3, <2>5, Returns DEF insert_session
  <2> QED
    BY <2>1, <2>4, <2>5, <2>6, <2>7, RowWritten DEF Good, ReleaseInv, Tables
<1> QED
  BY <1>2, <1>3

\* A write of a changed clone.
LEMMA CloneWritten ==
  ASSUME ReleaseInv, Later, NEW t \in Threads, thr[t].pc \notin Entered, NEW s, Formed(s),
         NEW pc \in {"idle", "f_read", "c_call"}, Write(t, s, pc),
         s.state \in {"Cancelled", "Expired"} => signer'[thr[t].op] \in Decided
  PROVE  Handlers'
<1>1. PICK o : o = thr[t].op
  OBVIOUS
<1>2. signer[o] # "missing" /\ o \in Ops
  BY <1>1 DEF ReleaseInv, Handlers, HandlerOk, Entered
<1>3. Stored(o, s)'
  BY <1>1, <1>2 DEF Stored, Later
<1> QED
  BY <1>1, <1>3, Writes

\* The steps of expire_sessions.
LEMMA ExpireSteps ==
  ASSUME ReleaseInv, NEW t \in Threads,
         \/ expire_check(t) \/ expire_unacknowledged(t) \/ expire_status(t)
         \/ expire_cancel(t) \/ expire_write(t)
  PROVE  Good
<1>1. PICK o, m : o = thr[t].op /\ m = mem[o]
  OBVIOUS
<1>2. CASE expire_check(t)
  <2>1. Later /\ Tables' /\ Rows' /\ world' = world
    BY <1>2, Silent DEF expire_check
  <2>2. PICK pc \in {"f_read", "e_ack", "e_status"} : Goto(t, pc)
    <3>1. CASE m.state = "WalletCommitted"
      BY <1>1, <1>2, <3>1 DEF expire_check
    <3>2. CASE m.state = "AwaitingRecoveryAck"
      BY <1>1, <1>2, <3>2 DEF expire_check
    <3>3. CASE m.state \notin {"WalletCommitted", "AwaitingRecoveryAck"}
      BY <1>1, <1>2, <3>3 DEF expire_check
    <3> QED
      BY <3>1, <3>2, <3>3
  <2>3. thr[t].pc = "e_check"
    BY <1>2 DEF expire_check, At
  <2> QED
    BY <2>1, <2>2, <2>3, Goes DEF Good, Plainly, Entered
<1>3. CASE expire_unacknowledged(t)
  <2>1. Later /\ Tables' /\ Rows' /\ world' = world
    BY <1>3, Silent DEF expire_unacknowledged
  <2>2. PICK s : s = latch_terminal(m, "Failed")
    OBVIOUS
  <2>3. thr[t].pc = "e_ack" /\ Formed(m)
    BY <1>1, <1>3, AtHandler DEF expire_unacknowledged, Entered
  <2>4. Formed(s) /\ s.state = "Failed"
    BY <2>2, <2>3, LatchedSession DEF States
  <2> QED
    BY <1>1, <1>3, <2>1, <2>2, <2>3, <2>4, CloneWritten DEF Good, expire_unacknowledged, Entered
<1>4. CASE expire_status(t)
  <2>1. Later /\ Tables' /\ Rows' /\ world' = world
    BY <1>4, Silent DEF expire_status
  <2>2. thr[t].pc = "e_status" /\ signer[o] # "missing" /\ HandlerOk(thr[t]) /\ o \in Ops
    BY <1>1, <1>4, AtHandler DEF expire_status, Entered
  <2>3. CASE Return(t)
    BY <2>1, <2>3, Returns DEF Good
  <2>4. CASE signer[o] = "completed" /\ Goto(t, "e_adopt")
    BY <2>1, <2>2, <2>4, Goes DEF Good, Plainly, Entered
  <2>5. CASE signer[o] = "pending" /\ Goto(t, "e_cancel")
    BY <2>1, <2>2, <2>5, Goes DEF Good, Plainly, Entered
  <2>6. CASE signer[o] \notin {"completed", "pending"} /\ Goto(t, "e_end") /\ UNCHANGED signer
    <3>1. signer[o] = "ended"
      BY <2>2, <2>6, SignerKnows
    <3> QED
      BY <1>1, <2>1, <2>2, <2>6, <3>1, GoesToEnd DEF Good, Entered
  <2>7. CASE /\ Goto(t, CASE signer[o] = "completed" -> "e_adopt"
                          [] signer[o] = "pending" -> "e_cancel"
                          [] OTHER -> "e_end")
             /\ UNCHANGED signer
    BY <2>4, <2>5, <2>6, <2>7
  <2> QED
    BY <1>1, <1>4, <2>3, <2>7 DEF expire_status
<1>5. CASE expire_cancel(t)
  <2>1. thr[t].pc = "e_cancel" /\ signer[o] # "missing" /\ HandlerOk(thr[t]) /\ o \in Ops
    BY <1>1, <1>5, AtHandler DEF expire_cancel, Entered
  <2>2. UNCHANGED <<world, mem, db, adopted, rejected, abandoned, latched>>
    BY <1>5 DEF expire_cancel
  <2>3. CASE SignerCancels(o)
    <3>1. Later /\ Tables' /\ signer'[o] = "ended"
      BY <2>1, <2>2, <2>3, Cancels DEF Later, Tables, ReleaseInv, Decided
    <3>2. CASE Return(t)
      BY <2>2, <3>1, <3>2, Returns, RowsKept DEF Good
    <3>3. CASE Goto(t, "e_end")
      BY <1>1, <2>1, <2>2, <3>1, <3>3, GoesToEnd, RowsKept DEF Good, Entered
    <3>4. Return(t) \/ Goto(t, "e_end")
      BY <1>5 DEF expire_cancel
    <3> QED
      BY <3>2, <3>3, <3>4
  <2>4. CASE Return(t) /\ UNCHANGED signer
    <3>1. Later /\ Tables' /\ Rows' /\ world' = world
      BY <2>2, <2>4, Silent
    <3> QED
      BY <2>4, <3>1, Returns DEF Good
  <2> QED
    BY <1>1, <1>5, <2>3, <2>4 DEF expire_cancel
<1>6. CASE expire_write(t)
  <2>1. Later /\ Tables' /\ Rows' /\ world' = world /\ UNCHANGED signer
    BY <1>6, Silent DEF expire_write
  <2>2. CASE At(t, "e_adopt")
    <3>1. thr[t].pc = "e_adopt" /\ Formed(m)
      BY <1>1, <2>2, AtHandler DEF Entered
    <3>2. PICK s : s = [m EXCEPT !.state = "WalletCommitted"]
      OBVIOUS
    <3>3. Formed(s) /\ s.state = "WalletCommitted"
      BY <3>1, <3>2 DEF Formed, SessionFields, States
    <3>4. Write(t, s, "f_read")
      BY <1>1, <1>6, <2>2, <3>2 DEF expire_write, At
    <3> QED
      BY <2>1, <3>1, <3>3, <3>4, CloneWritten DEF Good, Entered
  <2>3. CASE At(t, "e_end")
    <3>1. thr[t].pc = "e_end" /\ Formed(m) /\ signer[o] = "ended"
      BY <1>1, <2>3, AtHandler DEF Entered, HandlerOk
    <3>2. PICK s : s = latch_terminal(m, "Expired")
      OBVIOUS
    <3>3. Formed(s) /\ s.state = "Expired"
      BY <3>1, <3>2 DEF Formed, SessionFields, States, latch_terminal
    <3>4. Write(t, s, "idle")
      BY <1>1, <1>6, <2>3, <3>2 DEF expire_write, At
    <3> QED
      BY <1>1, <2>1, <3>1, <3>3, <3>4, CloneWritten DEF Good, Entered, Decided
  <2> QED
    BY <1>6, <2>2, <2>3 DEF expire_write
<1> QED
  BY <1>2, <1>3, <1>4, <1>5, <1>6

\* A clone is taken before a call.
LEMMA Holds ==
  ASSUME ReleaseInv, Later, NEW t \in Threads, thr[t].pc \notin Entered, NEW h, thr' = [thr EXCEPT ![t] = h],
         DOMAIN h = HandlerFields, h.pc \in {"f_notify", "x_call"}, h.op = thr[t].op,
         Formed(h.snap), h.caller \in {"idle", "x_read"}
  PROVE  Handlers'
<1>1. HandlerOk(thr[t])
  BY DEF ReleaseInv, Handlers
<1>2. HandlerOk(h)'
  BY <1>1 DEF HandlerOk, Entered, Later
<1> QED
  BY <1>2, Moves

LEMMA FinalizedSession ==
  ASSUME NEW o, NEW s, Formed(s)
  PROVE  LET f == Finalized(o, s) IN
         Formed(f) /\ f.state \in {"AwaitingRecoveryAck", "Completed"}
BY DEF Finalized, Formed, SessionFields, latch_terminal, States

LEMMA FinalizeSteps ==
  ASSUME ReleaseInv, NEW t \in Threads, finalize_read(t) \/ finalize_notify(t)
  PROVE  Good
<1>1. PICK o, m, s : o = thr[t].op /\ m = mem[o] /\ s = thr[t].snap
  OBVIOUS
<1>2. CASE finalize_read(t)
  <2>1. Later /\ Tables' /\ Rows' /\ world' = world
    BY <1>2, Silent DEF finalize_read
  <2>2. thr[t].pc = "f_read" /\ Formed(m) /\ HandlerOk(thr[t])
    BY <1>1, <1>2, AtHandler DEF finalize_read, Entered
  <2>3. CASE thr' = [thr EXCEPT ![t].pc = "f_notify", ![t].snap = m]
    <3>1. PICK h : h = [thr[t] EXCEPT !.pc = "f_notify", !.snap = m]
      OBVIOUS
    <3>2. /\ DOMAIN h = HandlerFields /\ h.pc = "f_notify" /\ h.op = thr[t].op /\ h.snap = m
          /\ h.caller = thr[t].caller
      BY <2>2, <3>1 DEF HandlerOk, HandlerFields
    <3>3. thr' = [thr EXCEPT ![t] = h]
      BY <2>3, <3>1
    <3> QED
      BY <2>1, <2>2, <3>2, <3>3, Holds DEF Good, Entered, HandlerOk
  <2> QED
    BY <1>1, <1>2, <2>1, <2>3, Returns DEF Good, finalize_read
<1>3. CASE finalize_notify(t)
  <2>1. Later /\ Tables' /\ Rows' /\ world' = world
    <3>1. UNCHANGED <<world, mem, db, signer>> /\ (latched => latched')
      BY <1>3 DEF finalize_notify, Refuse
    <3>2. adopted \subseteq adopted' /\ rejected \subseteq rejected' /\ abandoned \subseteq abandoned'
      BY <1>3 DEF finalize_notify, Adopts
    <3> QED
      BY <3>1, <3>2, Silent
  <2>2. thr[t].pc = "f_notify" /\ Formed(s)
    BY <1>1, <1>3, AtHandler DEF finalize_notify, Entered, HandlerOk
  <2>3. PICK w : w = IF o \in adopted' THEN Finalized(o, s) ELSE latch_terminal(s, "Failed")
    OBVIOUS
  <2>4. Formed(w) /\ w.state \notin {"Cancelled", "Expired"}
    BY <2>2, <2>3, FinalizedSession, LatchedSession DEF States
  <2>5. CASE Write(t, w, "idle")
    BY <2>1, <2>2, <2>4, <2>5, CloneWritten DEF Good, Entered
  <2> QED
    BY <1>1, <1>3, <2>1, <2>3, <2>5, Returns DEF Good, finalize_notify
<1> QED
  BY <1>2, <1>3

\* The steps of complete_session.
LEMMA CompleteSteps ==
  ASSUME ReleaseInv, NEW t \in Threads,
         complete_read(t) \/ complete_at_signer(t) \/ complete_release(t) \/ complete_write(t)
  PROVE  Good
<1>1. PICK o, m : o = thr[t].op /\ m = mem[o]
  OBVIOUS
<1>2. CASE complete_read(t)
  <2>1. Later /\ Tables' /\ Rows' /\ world' = world
    BY <1>2, Silent DEF complete_read
  <2>2. thr[t].pc = "c_read" /\ Formed(m)
    BY <1>1, <1>2, AtHandler DEF complete_read, Entered
  <2>3. PICK s : s = [m EXCEPT !.state = "Verifying"]
    OBVIOUS
  <2>4. Formed(s) /\ s.state = "Verifying"
    BY <2>2, <2>3 DEF Formed, SessionFields, States
  <2>5. Return(t) \/ Goto(t, "f_read") \/ Write(t, s, "c_call")
    <3>1. CASE m.state = "AwaitingRecoveryAck" \/ is_terminal(m.state)
      BY <1>1, <1>2, <3>1 DEF complete_read, is_terminal
    <3>2. CASE m.state = "WalletCommitted"
      BY <1>1, <1>2, <3>2 DEF complete_read, is_terminal
    <3>3. CASE ~(m.state = "AwaitingRecoveryAck" \/ is_terminal(m.state)) /\ m.state # "WalletCommitted"
      BY <1>1, <1>2, <2>3, <3>3 DEF complete_read
    <3> QED
      BY <3>1, <3>2, <3>3
  <2>6. CASE Return(t)
    BY <2>1, <2>6, Returns DEF Good
  <2>7. CASE Goto(t, "f_read")
    BY <2>1, <2>2, <2>7, Goes DEF Good, Plainly, Entered
  <2>8. CASE Write(t, s, "c_call")
    BY <2>1, <2>2, <2>4, <2>8, CloneWritten DEF Good, Entered
  <2> QED
    BY <2>5, <2>6, <2>7, <2>8
<1>3. CASE complete_at_signer(t)
  <2>1. thr[t].pc = "c_call" /\ o \in Ops /\ signer[o] # "missing"
    BY <1>1, <1>3, AtHandler DEF complete_at_signer, Entered
  <2>2. UNCHANGED <<world, mem, db, adopted, rejected, latched>> /\ abandoned \subseteq abandoned'
    BY <1>3 DEF complete_at_signer
  <2>3. PICK pc \in {"c_ok", "c_unauth", "c_fail"} : Goto(t, pc)
    BY <1>3 DEF complete_at_signer
  <2>4. \/ UNCHANGED signer
        \/ signer' = [signer EXCEPT ![o] = "completed"] /\ signer[o] \in {"pending", "completed"}
        \/ signer' = [signer EXCEPT ![o] = "ended"] /\ signer[o] = "pending"
        \/ signer' = [signer EXCEPT ![o] = signer[o]]
    BY <1>1, <1>3 DEF complete_at_signer, Accepts
  <2>5. Later /\ Tables'
    BY <2>1, <2>2, <2>4, SignerKnows DEF Later, Tables, ReleaseInv, Decided, SignerState
  <2> QED
    BY <2>1, <2>2, <2>3, <2>5, Goes, RowsKept DEF Good, Plainly, Entered
<1>4. CASE complete_release(t)
  <2>1. thr[t].pc = "c_unauth" /\ o \in Ops /\ signer[o] # "missing"
    BY <1>1, <1>4, AtHandler DEF complete_release, Entered
  <2>2. UNCHANGED <<world, mem, db, adopted, rejected, abandoned, latched>> /\ (SignerCancels(o) \/ UNCHANGED signer)
    BY <1>1, <1>4 DEF complete_release
  <2>3. Later /\ Tables'
    BY <2>1, <2>2, Cancels DEF Later, Tables, ReleaseInv, Decided
  <2>4. Return(t) \/ Goto(t, "c_fail")
    BY <1>4 DEF complete_release
  <2> QED
    BY <2>1, <2>2, <2>3, <2>4, Goes, Returns, RowsKept DEF Good, Plainly, Entered
<1>5. CASE complete_write(t)
  <2>1. Later /\ Tables' /\ Rows' /\ world' = world
    BY <1>5, Silent DEF complete_write
  <2>2. thr[t].pc \in {"c_ok", "c_fail"} /\ Formed(m)
    BY <1>1, <1>5, AtHandler DEF complete_write, Entered
  <2>3. PICK s, f : s = [m EXCEPT !.state = "WalletCommitted"] /\ f = latch_terminal(m, "Failed")
    OBVIOUS
  <2>4. Formed(s) /\ s.state = "WalletCommitted" /\ Formed(f) /\ f.state = "Failed"
    BY <2>2, <2>3, LatchedSession DEF Formed, SessionFields, States
  <2>5. Write(t, s, "f_read") \/ Write(t, f, "idle")
    BY <1>1, <1>5, <2>3 DEF complete_write
  <2> QED
    BY <2>1, <2>2, <2>4, <2>5, CloneWritten DEF Good, Entered
<1> QED
  BY <1>2, <1>3, <1>4, <1>5

\* acknowledge_result, bind_output_key and cancel_with_backoff, from the read on.
LEMMA BrowserSteps ==
  ASSUME ReleaseInv, NEW t \in Threads,
         acknowledge_result(t) \/ bind_write(t) \/ cancel_read(t) \/ cancel_at_signer(t)
  PROVE  Good
<1>1. PICK o, m : o = thr[t].op /\ m = mem[o]
  OBVIOUS
<1>2. CASE acknowledge_result(t)
  <2>1. Later /\ Tables' /\ Rows' /\ world' = world
    BY <1>2, Silent DEF acknowledge_result
  <2>2. thr[t].pc = "a_read" /\ Formed(m)
    BY <1>1, <1>2, AtHandler DEF acknowledge_result, Entered
  <2>3. PICK s : s = latch_terminal(m, "Completed")
    OBVIOUS
  <2>4. Formed(s) /\ s.state = "Completed"
    BY <2>2, <2>3, LatchedSession DEF States
  <2>5. Return(t) \/ Write(t, s, "idle")
    BY <1>1, <1>2, <2>3 DEF acknowledge_result
  <2> QED
    BY <2>1, <2>2, <2>4, <2>5, CloneWritten, Returns DEF Good, Entered
<1>3. CASE bind_write(t)
  <2>1. Later /\ Tables' /\ Rows' /\ world' = world /\ UNCHANGED signer
    BY <1>3, Silent DEF bind_write
  <2>2. thr[t].pc = "b_write" /\ Formed(m) /\ o \in Ops
    BY <1>1, <1>3, AtHandler DEF bind_write, Entered
  <2>3. PICK s : s = [m EXCEPT !.challenge = bound[o]]
    OBVIOUS
  <2>4. Formed(s) /\ s.state = m.state
    BY <2>2, <2>3 DEF Formed, SessionFields
  <2>5. Write(t, s, "idle")
    BY <1>1, <1>3, <2>3 DEF bind_write
  <2>6. s.state \in {"Cancelled", "Expired"} => signer'[o] \in Decided
    BY <1>1, <2>1, <2>2, <2>4, FormedIsSession DEF ReleaseInv, Rows, Stored
  <2> QED
    BY <1>1, <2>1, <2>2, <2>4, <2>5, <2>6, CloneWritten DEF Good, Entered
<1>4. CASE cancel_read(t)
  <2>1. Later /\ Tables' /\ Rows' /\ world' = world
    BY <1>4, Silent DEF cancel_read
  <2>2. thr[t].pc = "x_read" /\ Formed(m) /\ HandlerOk(thr[t])
    BY <1>1, <1>4, AtHandler DEF cancel_read, Entered
  <2>3. PICK s : s = latch_terminal(m, "Cancelled")
    OBVIOUS
  <2>4. Formed(s)
    BY <2>2, <2>3, LatchedSession DEF States
  <2>5. CASE thr' = [thr EXCEPT ![t].pc = "x_call", ![t].caller = "idle", ![t].snap = s]
    <3>1. PICK h : h = [thr[t] EXCEPT !.pc = "x_call", !.caller = "idle", !.snap = s]
      OBVIOUS
    <3>2. /\ DOMAIN h = HandlerFields /\ h.pc = "x_call" /\ h.op = thr[t].op /\ h.snap = s
          /\ h.caller = "idle"
      BY <2>2, <3>1 DEF HandlerOk, HandlerFields
    <3>3. thr' = [thr EXCEPT ![t] = h]
      BY <2>5, <3>1
    <3> QED
      BY <2>1, <2>2, <2>4, <3>2, <3>3, Holds DEF Good, Entered
  <2> QED
    BY <1>1, <1>4, <2>1, <2>3, <2>5, Returns DEF Good, cancel_read
<1>5. CASE cancel_at_signer(t)
  <2>1. thr[t].pc = "x_call" /\ o \in Ops /\ signer[o] # "missing" /\ Formed(thr[t].snap)
    BY <1>1, <1>5, AtHandler DEF cancel_at_signer, Entered, HandlerOk
  <2>2. UNCHANGED <<world, mem, db, adopted, rejected, abandoned, latched>>
    BY <1>5 DEF cancel_at_signer
  <2>3. CASE SignerCancels(o)
    <3>1. Later /\ Tables' /\ signer'[o] = "ended"
      BY <2>1, <2>2, <2>3, Cancels DEF Later, Tables, ReleaseInv, Decided
    <3>2. PICK s : s = thr[t].snap
      OBVIOUS
    <3>3. Return(t) \/ Write(t, s, "idle")
      BY <1>5, <3>2 DEF cancel_at_signer
    <3> QED
      BY <1>1, <2>1, <2>2, <3>1, <3>2, <3>3, Returns, CloneWritten, RowsKept DEF Good, Entered, Decided
  <2>4. CASE Return(t) /\ UNCHANGED signer
    <3>1. Later /\ Tables' /\ Rows' /\ world' = world
      BY <2>2, <2>4, Silent
    <3> QED
      BY <2>4, <3>1, Returns DEF Good
  <2> QED
    BY <1>1, <1>5, <2>3, <2>4 DEF cancel_at_signer
<1> QED
  BY <1>2, <1>3, <1>4, <1>5

\* The steps of terminate_live_sessions.
LEMMA TerminateSteps ==
  ASSUME ReleaseInv, NEW t \in Threads, terminate_cancel(t) \/ terminate_write(t)
  PROVE  Good
<1>1. PICK o, m : o = thr[t].op /\ m = mem[o]
  OBVIOUS
<1>2. CASE terminate_cancel(t)
  <2>1. thr[t].pc = "t_cancel" /\ signer[o] # "missing" /\ HandlerOk(thr[t]) /\ o \in Ops
    BY <1>1, <1>2, AtHandler DEF terminate_cancel, Entered
  <2>2. UNCHANGED <<world, mem, db, adopted, rejected, abandoned, latched>>
    BY <1>2 DEF terminate_cancel
  <2>3. CASE SignerCancels(o)
    <3>1. Later /\ Tables' /\ signer'[o] = "ended"
      BY <2>1, <2>2, <2>3, Cancels DEF Later, Tables, ReleaseInv, Decided
    <3>2. CASE Return(t)
      BY <2>2, <3>1, <3>2, Returns, RowsKept DEF Good
    <3>3. CASE Goto(t, "t_end")
      BY <1>1, <2>1, <2>2, <3>1, <3>3, GoesToEnd, RowsKept DEF Good, Entered
    <3>4. Return(t) \/ Goto(t, "t_end")
      BY <1>2 DEF terminate_cancel
    <3> QED
      BY <3>2, <3>3, <3>4
  <2>4. CASE Return(t) /\ UNCHANGED signer
    <3>1. Later /\ Tables' /\ Rows' /\ world' = world
      BY <2>2, <2>4, Silent
    <3> QED
      BY <2>4, <3>1, Returns DEF Good
  <2> QED
    BY <1>1, <1>2, <2>3, <2>4 DEF terminate_cancel
<1>3. CASE terminate_write(t)
  <2>1. Later /\ Tables' /\ Rows' /\ world' = world /\ UNCHANGED signer
    BY <1>3, Silent DEF terminate_write
  <2>2. PICK end \in {<<"t_end", "Cancelled">>, <<"t_fail", "Failed">>} :
          At(t, end[1]) /\ (Return(t) \/ Write(t, latch_terminal(m, end[2]), "idle"))
    BY <1>1, <1>3 DEF terminate_write
  <2>3. thr[t].pc = end[1] /\ Formed(m) /\ end[1] \notin Entered /\ end[2] \in States
    BY <1>1, <2>2, AtHandler DEF Entered, States
  <2>4. CASE Return(t)
    BY <2>1, <2>4, Returns DEF Good
  <2>5. CASE Write(t, latch_terminal(m, end[2]), "idle")
    <3>1. PICK s : s = latch_terminal(m, end[2])
      OBVIOUS
    <3>2. Formed(s) /\ s.state = end[2]
      BY <2>3, <3>1, LatchedSession
    <3>3. s.state \in {"Cancelled", "Expired"} => signer'[o] \in Decided
      BY <1>1, <2>1, <2>2, <2>3, <3>2 DEF ReleaseInv, Handlers, HandlerOk, Decided
    <3> QED
      BY <1>1, <2>1, <2>3, <2>5, <3>1, <3>2, <3>3, CloneWritten DEF Good
  <2> QED
    BY <2>2, <2>4, <2>5
<1> QED
  BY <1>2, <1>3

LEMMA HandlerGood ==
  ASSUME ReleaseInv, NEW t \in Threads, HandlerStep(t)
  PROVE  Good
BY PersistStep, InsertStep, PrepareSteps, ExpireSteps, FinalizeSteps, CompleteSteps, BrowserSteps,
   TerminateSteps DEF HandlerStep

\* A request arrives, or terminate_live_sessions turns to a session.
Arrives(t, o) ==
  \/ prepare(t, o) \/ sweep(t, o) \/ browser_request(t, o)
  \/ exchange_remote_fragment(t, o) \/ bind_output_key(t, o) \/ cancel(t, o)
  \/ terminate(t, o)

LEMMA DueIsSession ==
  ASSUME ReleaseInv, NEW o \in Ops, mem[o] # NoSession
  PROVE  Formed(mem[o]) /\ signer[o] # "missing"
BY DEF ReleaseInv, Rows, Stored

LEMMA Enters ==
  ASSUME ReleaseInv, Later, NEW t \in Threads, NEW o \in Ops, NEW pc, Enter(t, o, pc),
         \/ pc = "p_call"
         \/ pc \in {"e_check", "c_read", "a_read", "b_write"} /\ mem[o] # NoSession
  PROVE  Handlers'
<1>1. PICK h : h = [Idle EXCEPT !.pc = pc, !.op = o]
  OBVIOUS
<1>2. DOMAIN h = HandlerFields /\ h.pc = pc /\ h.op = o /\ h.caller = "idle"
  BY <1>1 DEF Idle, HandlerFields
<1>3. HandlerOk(h)'
  BY <1>2, DueIsSession DEF HandlerOk, Entered, Later
<1> QED
  BY <1>1, <1>3, Moves DEF Enter

LEMMA TerminateEnters ==
  ASSUME NEW t \in Threads, NEW o \in Ops, terminate(t, o)
  PROVE  \E pc \in {"f_read", "t_cancel", "t_fail"} :
           /\ thr' = [thr EXCEPT ![t] = [Idle EXCEPT !.op = o, !.pc = pc]]
           /\ pc = "t_fail" => mem[o].state \notin {"WalletCommitted", "AwaitingUser"}
<1>1. CASE mem[o].state = "WalletCommitted"
  BY <1>1 DEF terminate
<1>2. CASE mem[o].state = "AwaitingUser"
  BY <1>2 DEF terminate
<1>3. CASE mem[o].state \notin {"WalletCommitted", "AwaitingUser"}
  BY <1>3 DEF terminate
<1> QED
  BY <1>1, <1>2, <1>3

LEMMA ArriveGood ==
  ASSUME ReleaseInv, NEW t \in Threads, NEW o \in Ops, Arrives(t, o)
  PROVE  Good
<1>1. Later /\ Tables' /\ Rows' /\ world' = world
  <2>1. UNCHANGED <<world, mem, db, signer, adopted, rejected, latched>> /\ abandoned \subseteq abandoned'
    BY DEF Arrives, prepare, sweep, browser_request, exchange_remote_fragment, bind_output_key, cancel, terminate
  <2> QED
    BY <2>1, Silent
<1>2. CASE prepare(t, o)
  BY <1>1, <1>2, Enters DEF prepare, Good
<1>3. CASE sweep(t, o)
  BY <1>1, <1>3, Enters DEF sweep, Due, Good
<1>4. CASE browser_request(t, o)
  BY <1>1, <1>4, Enters DEF browser_request, Authorized, Good
<1>5. CASE bind_output_key(t, o)
  BY <1>1, <1>5, Enters DEF bind_output_key, Authorized, Good
<1>6. CASE exchange_remote_fragment(t, o)
  <2>1. PICK s : s = [mem[o] EXCEPT !.token = "cookie"]
    OBVIOUS
  <2>2. Formed(s) /\ s.state = "AwaitingUser" /\ signer[o] # "missing" /\ mem[o] # NoSession
    BY <1>6, <2>1, DueIsSession DEF exchange_remote_fragment, Formed, SessionFields
  <2>3. PICK h : h = [pc |-> "w_db", op |-> o, snap |-> s, then |-> "idle", caller |-> "idle"]
    OBVIOUS
  <2>4. DOMAIN h = HandlerFields
    BY <2>3 DEF HandlerFields
  <2>5. Stored(o, s)'
    BY <1>1, <2>2 DEF Stored, Later
  <2>6. HandlerOk(h)'
    BY <1>1, <2>2, <2>3, <2>4, <2>5 DEF HandlerOk, Entered, Later
  <2> QED
    BY <1>1, <1>6, <2>1, <2>3, <2>6, Moves DEF exchange_remote_fragment, Good
<1>7. CASE cancel(t, o)
  <2>0. PICK pc \in {"e_check", "x_read"} :
          thr' = [thr EXCEPT ![t] = [pc |-> pc, op |-> o, snap |-> NoSession, then |-> "idle", caller |-> "x_read"]]
    BY <1>7 DEF cancel
  <2>1. PICK h : /\ h = [pc |-> pc, op |-> o, snap |-> NoSession, then |-> "idle", caller |-> "x_read"]
                 /\ thr' = [thr EXCEPT ![t] = h]
    BY <2>0
  <2>2. DOMAIN h = HandlerFields
    BY <2>0, <2>1 DEF HandlerFields
  <2>3. mem[o] # NoSession /\ signer[o] # "missing"
    BY <1>7, DueIsSession DEF cancel
  <2>4. HandlerOk(h)'
    BY <1>1, <2>0, <2>1, <2>2, <2>3 DEF HandlerOk, Entered, Later
  <2> QED
    BY <1>1, <2>0, <2>1, <2>4, Moves DEF Good
<1>8. CASE terminate(t, o)
  <2>1. mem[o] # NoSession /\ signer[o] # "missing"
    BY <1>8, DueIsSession DEF terminate
  <2>2. PICK pc \in {"f_read", "t_cancel", "t_fail"} : thr' = [thr EXCEPT ![t] = [Idle EXCEPT !.op = o, !.pc = pc]]
    BY <1>8, TerminateEnters
  <2>3. PICK h : h = [Idle EXCEPT !.op = o, !.pc = pc]
    OBVIOUS
  <2>4. DOMAIN h = HandlerFields /\ h.pc = pc /\ h.op = o /\ h.caller = "idle"
    BY <2>3 DEF Idle, HandlerFields
  <2>5. HandlerOk(h)'
    BY <1>1, <2>1, <2>4 DEF HandlerOk, Entered, Later
  <2> QED
    BY <1>1, <2>2, <2>3, <2>5, Moves DEF Good
<1> QED
  BY <1>2, <1>3, <1>4, <1>5, <1>6, <1>7, <1>8 DEF Arrives

-----------------------------------------------------------------------------
\* The stop and the start of the process.

LEMMA PutGood ==
  ASSUME ReleaseInv, NEW o \in Ops, NEW s, Formed(s), Put(o, s), signer[o] # "missing",
         \/ UNCHANGED signer /\ s.state \notin {"Cancelled", "Expired"}
         \/ UNCHANGED signer /\ Stored(o, s)
         \/ SignerCancels(o),
         UNCHANGED <<world, thr, latched, abandoned>>, adopted \subseteq adopted', rejected \subseteq rejected'
  PROVE  Good
<1>1. s # NoSession
  BY FormedIsSession
<1>2. Later /\ signer' \in [Ops -> SignerState]
  BY <1>1, Cancels DEF Later, Put, ReleaseInv, Tables, Decided
<1>3. Stored(o, s)'
  BY <1>2, Cancels DEF Stored, Decided
<1>4. Rows' /\ DOMAIN mem' = Ops /\ DOMAIN db' = Ops
  BY <1>2, <1>3, RowWritten DEF Put
<1> QED
  BY <1>2, <1>4, Stays DEF Good, Tables

LEMMA AdoptGood ==
  ASSUME ReleaseInv, NEW o \in Ops, AdoptCommitted(o), UNCHANGED <<world, thr, latched, abandoned>>
  PROVE  Good
<1>1. mem[o] # NoSession
  BY DEF AdoptCommitted, NoSession
<1>2. Formed(mem[o]) /\ signer[o] # "missing"
  BY <1>1, DueIsSession
<1>3. PICK s : s = IF o \in adopted' THEN Finalized(o, mem[o]) ELSE latch_terminal(mem[o], "Failed")
  OBVIOUS
<1>4. Formed(s) /\ s.state \notin {"Cancelled", "Expired"}
  BY <1>2, <1>3, FinalizedSession, LatchedSession DEF States
<1>5. Put(o, s) /\ UNCHANGED signer /\ adopted \subseteq adopted' /\ rejected \subseteq rejected'
  BY <1>3 DEF AdoptCommitted, Adopts
<1> QED
  BY <1>2, <1>4, <1>5, PutGood

LEMMA ReloadGood ==
  ASSUME ReleaseInv, NEW o \in Ops, reload(o)
  PROVE  Good
<1>1. PICK d : d = db[o]
  OBVIOUS
<1>2. Formed(d) /\ signer[o] # "missing" /\ Stored(o, d) /\ UNCHANGED <<world, thr, latched, adopted, rejected, abandoned>>
  BY <1>1 DEF reload, ReleaseInv, Rows, Stored
<1>3. PICK f, w, e : /\ f = latch_terminal(d, "Failed") /\ e = latch_terminal(d, "Expired")
                     /\ w = [d EXCEPT !.state = "WalletCommitted"]
  OBVIOUS
<1>4. Formed(f) /\ Formed(e) /\ Formed(w) /\ f.state = "Failed" /\ w.state = "WalletCommitted"
  BY <1>2, <1>3, LatchedSession DEF States, Formed, SessionFields
<1>5. CASE Put(o, d) /\ UNCHANGED signer
  BY <1>2, <1>5, PutGood
<1>6. CASE (Put(o, f) \/ Put(o, w)) /\ UNCHANGED signer
  BY <1>2, <1>4, <1>6, PutGood
<1>7. CASE Put(o, e) /\ SignerCancels(o)
  BY <1>2, <1>4, <1>7, PutGood
<1> QED
  BY <1>1, <1>3, <1>5, <1>6, <1>7 DEF reload

LEMMA ExpiresGood ==
  ASSUME ReleaseInv, NEW o \in Ops, signer_expires(o)
  PROVE  Good
<1>1. Later /\ Tables' /\ UNCHANGED <<world, mem, db, thr>>
  BY DEF signer_expires, Later, Tables, ReleaseInv, Decided, SignerState
<1> QED
  BY <1>1, RowsKept, Stays DEF Good

LEMMA QuietGood ==
  ASSUME ReleaseInv, UNCHANGED <<world, mem, db, signer, adopted, rejected, abandoned, thr, latched>>
  PROVE  Good
BY Silent, Stays DEF Good

LEMMA StoppedRelease ==
  ASSUME ReleaseInv, Stopped
  PROVE  ReleaseInv'
<1>1. Tables' /\ world' \in Worlds
  BY DEF ReleaseInv, Tables, Stopped
<1>2. ASSUME NEW o \in Ops PROVE Stored(o, mem[o])' /\ Stored(o, db[o])'
  BY DEF ReleaseInv, Rows, Stored, Stopped
<1>3. ASSUME NEW t \in Threads PROVE HandlerOk(thr[t])'
  BY DEF Stopped, HandlerOk, Idle, HandlerFields, Entered
<1>4. DOMAIN thr' = Threads
  BY DEF Stopped
<1> QED
  BY <1>1, <1>2, <1>3, <1>4 DEF ReleaseInv, Rows, Handlers

\* The steps by who takes them.
LEMMA Cases ==
  ASSUME ReleaseInv, [Next]_vars
  PROVE  \/ \E t \in Threads : HandlerStep(t)
         \/ \E t \in Threads, o \in Ops : Arrives(t, o)
         \/ \E o \in Ops : reload(o) \/ set_completion_observer(o)
         \/ \E o \in Ops : signer_expires(o) \/ tick(o)
         \/ stop_serving \/ loaded \/ serve \/ UNCHANGED vars
         \/ crash \/ exit
<1>1. world.threads \subseteq Threads /\ world.ops \subseteq Ops
  BY SessionsAssumption DEF ReleaseInv
<1> QED
  BY <1>1 DEF Next, Start, Arrives

LEMMA StepGood ==
  ASSUME ReleaseInv, [Next]_vars
  PROVE  Good \/ Stopped
<1>1. ASSUME NEW o \in Ops, set_completion_observer(o) PROVE Good
  BY <1>1, AdoptGood DEF set_completion_observer
<1>2. ASSUME NEW o \in Ops, tick(o) PROVE Good
  BY <1>2, QuietGood DEF tick
<1>3. ASSUME stop_serving \/ loaded \/ serve \/ UNCHANGED vars PROVE Good
  BY <1>3, QuietGood DEF stop_serving, loaded, serve, vars
<1>4. ASSUME crash \/ exit PROVE Stopped
  BY <1>4 DEF crash, exit
<1> QED
  BY <1>1, <1>2, <1>3, <1>4, Cases, HandlerGood, ArriveGood, ReloadGood, ExpiresGood

LEMMA ReleaseInit == Init => ReleaseInv
<1> SUFFICES ASSUME Init PROVE ReleaseInv
  OBVIOUS
<1>1. world \in Worlds /\ Tables
  BY DEF Init, Tables, SignerState
<1>2. Rows
  BY DEF Init, Rows, Stored
<1>3. Handlers
  BY IdleOk DEF Init, Handlers
<1> QED
  BY <1>1, <1>2, <1>3 DEF ReleaseInv

LEMMA ReleaseInvariance == SafetySpec => []ReleaseInv
<1>1. ReleaseInv /\ [Next]_vars => ReleaseInv'
  BY StepGood, StoppedRelease DEF Good, ReleaseInv
<1> QED
  BY <1>1, ReleaseInit, PTL DEF SafetySpec

\* A session reported cancelled or expired has been released at the Signer, with
\* any number of handlers, lost answers, latched journals and process ends
\* (expire_sessions, cancel_with_backoff, terminate_live_sessions,
\* reload_and_reconcile_nonterminal).
THEOREM EndedMeansReleased == SafetySpec => []EndedIsReleased
<1>1. ReleaseInv => EndedIsReleased
  <2> SUFFICES ASSUME ReleaseInv, NEW o \in Ops, NEW s \in {mem[o], db[o]}, s.state \in {"Cancelled", "Expired"}
               PROVE  signer[o] # "pending"
    BY DEF EndedIsReleased
  <2>1. s # NoSession
    BY DEF NoSession
  <2> QED
    BY <2>1 DEF ReleaseInv, Rows, Stored, Decided
<1> QED
  BY <1>1, ReleaseInvariance, PTL

-----------------------------------------------------------------------------
(***************************************************************************)
(* What sessions say is true.                                              *)
(***************************************************************************)

\* What a session s says of its operation o.
Told(o, s) ==
  s # NoSession =>
    /\ Unreachable(s) => Settled(o)
    /\ s.state = "WalletCommitted" => signer[o] = "completed"
    /\ s.state = "AwaitingRecoveryAck" => o \in adopted /\ o \in Sensitive
    /\ s.state = "Completed" => o \in adopted

\* What a handler knows.
Knows(h) ==
  /\ h.pc \in {"w_db", "w_mem"} => Told(h.op, h.snap)
  /\ h.pc = "x_call" => h.snap.state = "Cancelled"
  /\ h.pc = "f_notify" => h.snap.state = "WalletCommitted" /\ signer[h.op] = "completed"
  /\ h.pc \in {"c_ok", "e_adopt"} => signer[h.op] = "completed"
  /\ h.pc \in {"c_fail", "e_ack", "t_fail"} => Settled(h.op)

\* The observer has seen only receipts of completed operations.
Observed == \A o \in Ops : o \in adopted \cup rejected => signer[o] = "completed"

Truth == \A o \in Ops : Told(o, mem[o]) /\ Told(o, db[o])

Control == \A t \in Threads : Knows(thr[t])

TruthInv == Observed /\ Truth /\ Control

LEMMA SettledKept ==
  ASSUME Later, NEW o \in Ops, Settled(o)
  PROVE  Settled(o)'
BY DEF Later, Settled, Decided

LEMMA ToldKept ==
  ASSUME Later, NEW o \in Ops, NEW s, Told(o, s)
  PROVE  Told(o, s)'
BY SettledKept DEF Later, Told, Decided, Unreachable

LEMMA KnowsKept ==
  ASSUME Later, NEW h, HandlerOk(h), Knows(h)
  PROVE  Knows(h)'
<1>1. h.pc # "idle" => (Told(h.op, h.snap) => Told(h.op, h.snap)') /\ (Settled(h.op) => Settled(h.op)')
  BY ToldKept, SettledKept DEF HandlerOk
<1> QED
  BY <1>1 DEF Later, Knows, HandlerOk, Decided

LEMMA ControlMoves ==
  ASSUME ReleaseInv, TruthInv, Later, NEW t \in Threads, NEW h, thr' = [thr EXCEPT ![t] = h], Knows(h)'
  PROVE  Control'
<1>1. thr'[t] = h /\ \A u \in Threads \ {t} : thr'[u] = thr[u]
  BY DEF ReleaseInv, Handlers
<1>2. ASSUME NEW u \in Threads PROVE Knows(thr[u])'
  <2>1. CASE u = t
    BY <1>1, <2>1 DEF Knows, Told, Settled
  <2>2. CASE u # t
    <3>1. PICK k : k = thr[u]
      OBVIOUS
    <3>2. Knows(k)'
      BY <3>1, KnowsKept DEF ReleaseInv, Handlers, TruthInv, Control
    <3> QED
      BY <1>1, <2>2, <3>1, <3>2 DEF Knows, Told, Settled
  <2> QED
    BY <2>1, <2>2
<1> QED
  BY <1>2 DEF Control

LEMMA ControlStays ==
  ASSUME ReleaseInv, TruthInv, Later, UNCHANGED thr
  PROVE  Control'
<1>1. ASSUME NEW t \in Threads PROVE Knows(thr[t])'
  <2>1. PICK h : h = thr[t]
    OBVIOUS
  <2>2. Knows(h)'
    BY <2>1, KnowsKept DEF ReleaseInv, Handlers, TruthInv, Control
  <2> QED
    BY <2>1, <2>2 DEF Knows, Told, Settled
<1> QED
  BY <1>1 DEF Control

LEMMA ControlReturns ==
  ASSUME ReleaseInv, TruthInv, Later, NEW t \in Threads, Return(t)
  PROVE  Control'
<1>1. PICK h : h = Idle
  OBVIOUS
<1>2. Knows(h)'
  BY <1>1 DEF Knows, Idle
<1> QED
  BY <1>1, <1>2, ControlMoves DEF Return

\* A handler goes on with nothing to write.
LEMMA ControlGoes ==
  ASSUME ReleaseInv, TruthInv, Later, NEW t \in Threads, NEW o, o = thr[t].op,
         NEW pc, Goto(t, pc), pc \notin {"w_db", "w_mem", "x_call", "f_notify"},
         pc \in {"c_ok", "e_adopt"} => signer'[o] = "completed",
         pc \in {"c_fail", "e_ack", "t_fail"} => Settled(o)'
  PROVE  Control'
<1>1. PICK h : h = [thr[t] EXCEPT !.pc = pc]
  OBVIOUS
<1>2. h.pc = pc /\ h.op = o
  BY <1>1 DEF ReleaseInv, Handlers, HandlerOk, HandlerFields
<1>3. Knows(h)'
  BY <1>2 DEF Knows, Settled
<1> QED
  BY <1>1, <1>3, ControlMoves DEF Goto

LEMMA ControlWrites ==
  ASSUME ReleaseInv, TruthInv, Later, NEW t \in Threads, NEW o, o = thr[t].op,
         NEW s, NEW pc, Write(t, s, pc), Told(o, s)'
  PROVE  Control'
<1>1. PICK h : h = [thr[t] EXCEPT !.pc = "w_db", !.snap = s, !.then = pc]
  OBVIOUS
<1>2. h.pc = "w_db" /\ h.op = o /\ h.snap = s
  BY <1>1 DEF ReleaseInv, Handlers, HandlerOk, HandlerFields
<1>3. Knows(h)'
  BY <1>2 DEF Knows, Told, Settled
<1>4. thr' = [thr EXCEPT ![t] = h]
  BY <1>1 DEF Write
<1> QED
  BY <1>3, <1>4, ControlMoves

LEMMA TruthKept ==
  ASSUME TruthInv, Later, UNCHANGED <<mem, db>>
  PROVE  Truth'
<1>1. ASSUME NEW o \in Ops PROVE Told(o, mem[o])' /\ Told(o, db[o])'
  <2>1. PICK m, d : m = mem[o] /\ d = db[o]
    OBVIOUS
  <2>2. Told(o, m)' /\ Told(o, d)'
    BY <2>1, ToldKept DEF TruthInv, Truth
  <2> QED
    BY <2>1, <2>2 DEF Told
<1> QED
  BY <1>1 DEF Truth

LEMMA TruthWritten ==
  ASSUME ReleaseInv, TruthInv, Later, NEW o \in Ops, NEW s, Told(o, s)',
         mem' \in {mem, [mem EXCEPT ![o] = s]}, db' \in {db, [db EXCEPT ![o] = s]}
  PROVE  Truth'
<1>1. /\ \A p \in Ops : mem'[p] = mem[p] \/ (p = o /\ mem'[p] = s)
      /\ \A p \in Ops : db'[p] = db[p] \/ (p = o /\ db'[p] = s)
  BY DEF ReleaseInv, Tables
<1>2. ASSUME NEW p \in Ops PROVE Told(p, mem[p])' /\ Told(p, db[p])'
  <2>1. PICK m, d : m = mem[p] /\ d = db[p]
    OBVIOUS
  <2>2. Told(p, m)' /\ Told(p, d)'
    BY <2>1, ToldKept DEF TruthInv, Truth
  <2> QED
    BY <1>1, <2>1, <2>2 DEF Told
<1> QED
  BY <1>2 DEF Truth

\* Nothing new was observed.
LEMMA ObservedKept ==
  ASSUME TruthInv, Later, UNCHANGED <<adopted, rejected>>
  PROVE  Observed'
BY DEF TruthInv, Observed, Later, Decided

LEMMA ObservedOne ==
  ASSUME TruthInv, Later, NEW o \in Ops, signer[o] = "completed", Adopts(o)
  PROVE  Observed'
BY DEF TruthInv, Observed, Later, Decided, Adopts

Fine == Observed' /\ Truth' /\ Control'

LEMMA FinePersist ==
  ASSUME ReleaseInv, TruthInv, NEW t \in Threads, persist_session(t)
  PROVE  Fine
<1>1. PICK o, s : o = thr[t].op /\ s = thr[t].snap
  OBVIOUS
<1>2. /\ thr[t].pc = "w_db" /\ HandlerOk(thr[t]) /\ Knows(thr[t]) /\ o \in Ops
      /\ UNCHANGED <<mem, signer, adopted, rejected>>
  BY <1>1 DEF persist_session, At, ReleaseInv, Handlers, HandlerOk, TruthInv, Control
<1>3. Later /\ Observed'
  BY <1>2, PersistStep, ObservedKept DEF Good
<1>4. Told(o, s)'
  BY <1>1, <1>2, <1>3, ToldKept DEF Knows
<1>5. Truth'
  <2>1. db' \in {db, [db EXCEPT ![o] = s]}
    BY <1>1 DEF persist_session
  <2> QED
    BY <1>2, <1>3, <1>4, <2>1, TruthWritten
<1>6. CASE Goto(t, "w_mem")
  <2>1. PICK h : h = [thr[t] EXCEPT !.pc = "w_mem"]
    OBVIOUS
  <2>2. h.pc = "w_mem" /\ h.op = o /\ h.snap = s
    BY <1>1, <1>2, <2>1 DEF HandlerOk, HandlerFields
  <2>3. Knows(h)'
    BY <1>4, <2>2 DEF Knows, Told, Settled
  <2> QED
    BY <1>3, <1>5, <1>6, <2>1, <2>3, ControlMoves DEF Fine, Goto
<1>7. CASE Return(t)
  BY <1>3, <1>5, <1>7, ControlReturns DEF Fine
<1> QED
  BY <1>6, <1>7 DEF persist_session

LEMMA FineInsert ==
  ASSUME ReleaseInv, TruthInv, NEW t \in Threads, insert(t)
  PROVE  Fine
<1>1. PICK o, s, then : o = thr[t].op /\ s = thr[t].snap /\ then = thr[t].then
  OBVIOUS
<1>2. /\ thr[t].pc = "w_mem" /\ HandlerOk(thr[t]) /\ Knows(thr[t]) /\ o \in Ops
      /\ UNCHANGED <<signer, adopted, rejected, db>>
      /\ mem' = [mem EXCEPT ![o] = s] /\ then \in {"idle", "f_read", "c_call"}
  BY <1>1 DEF insert, At, ReleaseInv, Handlers, HandlerOk, TruthInv, Control
<1>3. Later /\ Observed'
  BY <1>2, InsertStep, ObservedKept DEF Good
<1>4. Told(o, s)'
  BY <1>1, <1>2, <1>3, ToldKept DEF Knows
<1>5. Truth'
  BY <1>2, <1>3, <1>4, TruthWritten
<1>6. Return(t) \/ Goto(t, "x_read") \/ Goto(t, "f_read") \/ Goto(t, "c_call")
  BY <1>1, <1>2 DEF insert, Back, HandlerOk
<1> QED
  BY <1>1, <1>3, <1>5, <1>6, ControlReturns, ControlGoes DEF Fine

LEMMA FinePrepare ==
  ASSUME ReleaseInv, TruthInv, NEW t \in Threads, prepare_at_signer(t) \/ insert_session(t)
  PROVE  Fine
<1>1. PICK o : o = thr[t].op
  OBVIOUS
<1>2. thr[t].pc \in {"p_call", "p_insert"} /\ HandlerOk(thr[t]) /\ o \in Ops /\ UNCHANGED <<adopted, rejected>>
  BY <1>1 DEF prepare_at_signer, insert_session, At, ReleaseInv, Handlers, HandlerOk
<1>3. Later /\ Observed'
  BY <1>2, PrepareSteps, ObservedKept DEF Good
<1>4. CASE prepare_at_signer(t)
  <2>1. Truth'
    BY <1>3, <1>4, TruthKept DEF prepare_at_signer
  <2>2. Return(t) \/ Goto(t, "p_insert")
    BY <1>4 DEF prepare_at_signer
  <2> QED
    BY <1>1, <1>3, <2>1, <2>2, ControlReturns, ControlGoes DEF Fine
<1>5. CASE insert_session(t)
  <2>1. PICK s : s = new_session
    OBVIOUS
  <2>2. mem' \in {mem, [mem EXCEPT ![o] = s]} /\ db' \in {db, [db EXCEPT ![o] = s]} /\ s.state = "AwaitingUser"
    BY <1>1, <1>5, <2>1, NewSession DEF insert_session
  <2>3. Told(o, s)'
    BY <2>2 DEF Told, Unreachable
  <2>4. Truth'
    BY <1>2, <1>3, <2>2, <2>3, TruthWritten
  <2> QED
    BY <1>3, <1>5, <2>4, ControlReturns DEF Fine, insert_session
<1> QED
  BY <1>4, <1>5

\* A handler past its first read, in a step that writes no session.
LEMMA Reads ==
  ASSUME ReleaseInv, TruthInv, NEW t \in Threads, NEW o, NEW m, o = thr[t].op, m = mem[o], thr[t].pc \notin Entered
  PROVE  HandlerOk(thr[t]) /\ Knows(thr[t]) /\ o \in Ops /\ Formed(m) /\ m # NoSession /\ signer[o] # "missing" /\ Told(o, m)
BY DEF ReleaseInv, Handlers, HandlerOk, Entered, Rows, Stored, TruthInv, Truth, Control

LEMMA Aside ==
  ASSUME TruthInv, Later, UNCHANGED <<mem, db, adopted, rejected>>
  PROVE  Observed' /\ Truth'
BY ObservedKept, TruthKept

LEMMA FineExpire ==
  ASSUME ReleaseInv, TruthInv, NEW t \in Threads,
         \/ expire_check(t) \/ expire_unacknowledged(t) \/ expire_status(t)
         \/ expire_cancel(t) \/ expire_write(t)
  PROVE  Fine
<1>1. PICK o, m : o = thr[t].op /\ m = mem[o]
  OBVIOUS
<1>2. /\ thr[t].pc \in {"e_check", "e_ack", "e_status", "e_cancel", "e_adopt", "e_end"}
      /\ UNCHANGED <<mem, db, adopted, rejected>>
  BY DEF expire_check, expire_unacknowledged, expire_status, expire_cancel, expire_write, At
<1>3. HandlerOk(thr[t]) /\ Knows(thr[t]) /\ o \in Ops /\ Formed(m) /\ m # NoSession /\ signer[o] # "missing" /\ Told(o, m)
  BY <1>1, <1>2, Reads DEF Entered
<1>4. Later /\ Observed' /\ Truth'
  BY <1>2, ExpireSteps, Aside DEF Good
<1>5. CASE expire_check(t)
  <2>1. CASE m.state = "WalletCommitted"
    <3>1. Goto(t, "f_read")
      BY <1>1, <1>5, <2>1 DEF expire_check
    <3> QED
      BY <1>1, <1>4, <3>1, ControlGoes DEF Fine
  <2>2. CASE m.state = "AwaitingRecoveryAck"
    <3>1. Goto(t, "e_ack")
      BY <1>1, <1>5, <2>2 DEF expire_check
    <3>2. Settled(o)'
      BY <1>3, <1>4, <2>2, SettledKept DEF Told, Settled
    <3> QED
      BY <1>1, <1>4, <3>1, <3>2, ControlGoes DEF Fine
  <2>3. CASE m.state \notin {"WalletCommitted", "AwaitingRecoveryAck"}
    <3>1. Goto(t, "e_status")
      BY <1>1, <1>5, <2>3 DEF expire_check
    <3> QED
      BY <1>1, <1>4, <3>1, ControlGoes DEF Fine
  <2> QED
    BY <2>1, <2>2, <2>3
<1>6. CASE expire_unacknowledged(t)
  <2>1. PICK s : s = latch_terminal(m, "Failed")
    OBVIOUS
  <2>2. s.state = "Failed" /\ Settled(o)'
    BY <1>1, <1>3, <1>4, <1>6, <2>1, LatchedSession, SettledKept DEF expire_unacknowledged, At, Knows, States
  <2>3. Told(o, s)'
    BY <2>2 DEF Told
  <2> QED
    BY <1>1, <1>4, <1>6, <2>1, <2>3, ControlWrites DEF Fine, expire_unacknowledged
<1>7. CASE expire_status(t)
  <2>1. CASE Return(t)
    BY <1>4, <2>1, ControlReturns DEF Fine
  <2>2. CASE Goto(t, CASE signer[o] = "completed" -> "e_adopt"
                       [] signer[o] = "pending" -> "e_cancel"
                       [] OTHER -> "e_end")
    <3>1. PICK pc : /\ Goto(t, pc) /\ pc \in {"e_adopt", "e_cancel", "e_end"}
                    /\ pc = "e_adopt" => signer[o] = "completed"
      <4>1. CASE signer[o] = "completed"
        BY <2>2, <4>1
      <4>2. CASE signer[o] = "pending"
        BY <2>2, <4>2
      <4>3. CASE signer[o] \notin {"completed", "pending"}
        BY <2>2, <4>3
      <4> QED
        BY <4>1, <4>2, <4>3
    <3>2. UNCHANGED signer
      BY <1>7 DEF expire_status
    <3> QED
      BY <1>1, <1>4, <3>1, <3>2, ControlGoes DEF Fine
  <2> QED
    BY <1>1, <1>7, <2>1, <2>2 DEF expire_status
<1>8. CASE expire_cancel(t)
  <2>1. Return(t) \/ Goto(t, "e_end")
    BY <1>8 DEF expire_cancel
  <2> QED
    BY <1>1, <1>4, <2>1, ControlReturns, ControlGoes DEF Fine
<1>9. CASE expire_write(t)
  <2>0. UNCHANGED signer
    BY <1>9 DEF expire_write
  <2>1. CASE thr[t].pc = "e_adopt"
    <3>1. PICK s : s = [m EXCEPT !.state = "WalletCommitted"]
      OBVIOUS
    <3>2. s.state = "WalletCommitted" /\ signer'[o] = "completed"
      BY <1>1, <1>3, <2>0, <2>1, <3>1 DEF Formed, SessionFields, Knows
    <3>3. Told(o, s)'
      BY <3>2 DEF Told, Unreachable
    <3>4. Write(t, s, "f_read")
      BY <1>1, <1>9, <2>1, <3>1 DEF expire_write, At
    <3> QED
      BY <1>1, <1>4, <3>3, <3>4, ControlWrites DEF Fine
  <2>2. CASE thr[t].pc = "e_end"
    <3>1. PICK s : s = latch_terminal(m, "Expired")
      OBVIOUS
    <3>2. s.state = "Expired" /\ signer'[o] = "ended"
      BY <1>1, <1>3, <2>0, <2>2, <3>1, LatchedSession DEF HandlerOk, States
    <3>3. Told(o, s)'
      BY <3>2 DEF Told, Settled
    <3>4. Write(t, s, "idle")
      BY <1>1, <1>9, <2>2, <3>1 DEF expire_write, At
    <3> QED
      BY <1>1, <1>4, <3>3, <3>4, ControlWrites DEF Fine
  <2> QED
    BY <1>9, <2>1, <2>2 DEF expire_write, At
<1> QED
  BY <1>5, <1>6, <1>7, <1>8, <1>9

\* What the observer makes of a committed session is true.
LEMMA AdoptedTold ==
  ASSUME NEW o \in Ops, NEW s, Formed(s), Adopts(o), NEW w,
         w = IF o \in adopted' THEN Finalized(o, s) ELSE latch_terminal(s, "Failed")
  PROVE  Told(o, w)'
<1>1. CASE o \in adopted' /\ o \in Sensitive
  <2>1. w.state = "AwaitingRecoveryAck"
    BY <1>1 DEF Finalized, Formed, SessionFields
  <2> QED
    BY <1>1, <2>1 DEF Told, Unreachable
<1>2. CASE o \in adopted' /\ o \notin Sensitive
  <2>1. w.state = "Completed"
    BY <1>2, LatchedSession DEF Finalized, States
  <2> QED
    BY <1>2, <2>1 DEF Told, Unreachable
<1>3. CASE o \notin adopted'
  <2>1. w.state = "Failed" /\ o \in rejected'
    BY <1>3, LatchedSession DEF Adopts, States
  <2> QED
    BY <2>1 DEF Told, Settled
<1> QED
  BY <1>1, <1>2, <1>3

LEMMA FineFinalize ==
  ASSUME ReleaseInv, TruthInv, NEW t \in Threads, finalize_read(t) \/ finalize_notify(t)
  PROVE  Fine
<1>1. PICK o, m, s : o = thr[t].op /\ m = mem[o] /\ s = thr[t].snap
  OBVIOUS
<1>2. thr[t].pc \in {"f_read", "f_notify"} /\ UNCHANGED <<mem, db, signer>>
  BY DEF finalize_read, finalize_notify, At
<1>3. HandlerOk(thr[t]) /\ Knows(thr[t]) /\ o \in Ops /\ Formed(m) /\ m # NoSession /\ signer[o] # "missing" /\ Told(o, m)
  BY <1>1, <1>2, Reads DEF Entered
<1>4. Later /\ Truth'
  BY <1>2, FinalizeSteps, TruthKept DEF Good
<1>5. CASE finalize_read(t)
  <2>0. Observed'
    BY <1>4, <1>5, ObservedKept DEF finalize_read
  <2>1. CASE Return(t)
    BY <1>4, <2>0, <2>1, ControlReturns DEF Fine
  <2>2. CASE m.state = "WalletCommitted" /\ thr' = [thr EXCEPT ![t].pc = "f_notify", ![t].snap = m]
    <3>1. PICK h : h = [thr[t] EXCEPT !.pc = "f_notify", !.snap = m]
      OBVIOUS
    <3>2. h.pc = "f_notify" /\ h.op = o /\ h.snap = m
      BY <1>1, <1>3, <3>1 DEF HandlerOk, HandlerFields
    <3>3. Knows(h)'
      BY <1>2, <1>3, <2>2, <3>2 DEF Knows, Told
    <3>4. thr' = [thr EXCEPT ![t] = h]
      BY <2>2, <3>1
    <3> QED
      BY <1>4, <2>0, <3>3, <3>4, ControlMoves DEF Fine
  <2> QED
    BY <1>1, <1>5, <2>1, <2>2 DEF finalize_read
<1>6. CASE finalize_notify(t)
  <2>1. Formed(s) /\ signer[o] = "completed"
    BY <1>1, <1>3, <1>6 DEF finalize_notify, At, HandlerOk, Knows
  <2>2. CASE Return(t) /\ UNCHANGED <<adopted, rejected>>
    BY <1>4, <2>2, ControlReturns, ObservedKept DEF Fine
  <2>3. PICK w : w = IF o \in adopted' THEN Finalized(o, s) ELSE latch_terminal(s, "Failed")
    OBVIOUS
  <2>4. CASE Adopts(o) /\ Write(t, w, "idle")
    <3>1. Told(o, w)'
      BY <1>3, <2>1, <2>3, <2>4, AdoptedTold
    <3>2. Observed'
      BY <1>3, <1>4, <2>1, <2>4, ObservedOne
    <3> QED
      BY <1>1, <1>4, <2>4, <3>1, <3>2, ControlWrites DEF Fine
  <2> QED
    BY <1>1, <1>6, <2>2, <2>3, <2>4 DEF finalize_notify
<1> QED
  BY <1>5, <1>6

LEMMA FineComplete ==
  ASSUME ReleaseInv, TruthInv, NEW t \in Threads,
         complete_read(t) \/ complete_at_signer(t) \/ complete_release(t) \/ complete_write(t)
  PROVE  Fine
<1>1. PICK o, m : o = thr[t].op /\ m = mem[o]
  OBVIOUS
<1>2. thr[t].pc \in {"c_read", "c_call", "c_unauth", "c_ok", "c_fail"} /\ UNCHANGED <<mem, db, adopted, rejected>>
  BY DEF complete_read, complete_at_signer, complete_release, complete_write, At
<1>3. HandlerOk(thr[t]) /\ Knows(thr[t]) /\ o \in Ops /\ Formed(m) /\ m # NoSession /\ signer[o] # "missing" /\ Told(o, m)
  BY <1>1, <1>2, Reads DEF Entered
<1>4. Later /\ Observed' /\ Truth'
  BY <1>2, CompleteSteps, Aside DEF Good
<1>5. CASE complete_read(t)
  <2>1. PICK s : s = [m EXCEPT !.state = "Verifying"]
    OBVIOUS
  <2>2. s.state = "Verifying"
    BY <1>3, <2>1 DEF Formed, SessionFields
  <2>3. Told(o, s)'
    BY <2>2 DEF Told, Unreachable
  <2>4. Return(t) \/ Goto(t, "f_read") \/ Write(t, s, "c_call")
    <3>1. CASE m.state = "AwaitingRecoveryAck" \/ is_terminal(m.state)
      BY <1>1, <1>5, <3>1 DEF complete_read, is_terminal
    <3>2. CASE m.state = "WalletCommitted"
      BY <1>1, <1>5, <3>2 DEF complete_read, is_terminal
    <3>3. CASE ~(m.state = "AwaitingRecoveryAck" \/ is_terminal(m.state)) /\ m.state # "WalletCommitted"
      BY <1>1, <1>5, <2>1, <3>3 DEF complete_read
    <3> QED
      BY <3>1, <3>2, <3>3
  <2> QED
    BY <1>1, <1>4, <2>3, <2>4, ControlReturns, ControlGoes, ControlWrites DEF Fine
<1>6. CASE complete_at_signer(t)
  <2>1. \/ Goto(t, "c_ok") /\ signer' = [signer EXCEPT ![o] = "completed"]
        \/ Goto(t, "c_unauth")
        \/ /\ Goto(t, "c_fail") /\ signer[o] # "completed"
           /\ signer' = [signer EXCEPT ![o] = IF @ = "pending" THEN "ended" ELSE @]
        \/ Goto(t, "c_fail") /\ abandoned' = abandoned \cup {o}
    BY <1>1, <1>6 DEF complete_at_signer
  <2>2. CASE Goto(t, "c_ok") /\ signer' = [signer EXCEPT ![o] = "completed"]
    <3>1. signer'[o] = "completed"
      BY <1>3, <2>2, SignerKnows
    <3> QED
      BY <1>1, <1>4, <2>2, <3>1, ControlGoes DEF Fine
  <2>3. CASE Goto(t, "c_unauth")
    BY <1>1, <1>4, <2>3, ControlGoes DEF Fine
  <2>4. CASE /\ Goto(t, "c_fail") /\ signer[o] # "completed"
             /\ signer' = [signer EXCEPT ![o] = IF @ = "pending" THEN "ended" ELSE @]
    <3>1. signer'[o] = "ended"
      BY <1>3, <2>4, SignerKnows
    <3>2. Settled(o)'
      BY <3>1 DEF Settled
    <3> QED
      BY <1>1, <1>4, <2>4, <3>2, ControlGoes DEF Fine
  <2>5. CASE Goto(t, "c_fail") /\ abandoned' = abandoned \cup {o}
    <3>1. Settled(o)'
      BY <2>5 DEF Settled
    <3> QED
      BY <1>1, <1>4, <2>5, <3>1, ControlGoes DEF Fine
  <2> QED
    BY <2>1, <2>2, <2>3, <2>4, <2>5
<1>7. CASE complete_release(t)
  <2>1. CASE SignerCancels(o) /\ Goto(t, "c_fail")
    <3>1. signer'[o] = "ended"
      BY <1>3, <2>1, Cancels
    <3>2. Settled(o)'
      BY <3>1 DEF Settled
    <3> QED
      BY <1>1, <1>4, <2>1, <3>2, ControlGoes DEF Fine
  <2>2. CASE Return(t)
    BY <1>4, <2>2, ControlReturns DEF Fine
  <2> QED
    BY <1>1, <1>7, <2>1, <2>2 DEF complete_release
<1>8. CASE complete_write(t)
  <2>0. UNCHANGED signer
    BY <1>8 DEF complete_write
  <2>1. CASE thr[t].pc = "c_ok"
    <3>1. PICK s : s = [m EXCEPT !.state = "WalletCommitted"]
      OBVIOUS
    <3>2. s.state = "WalletCommitted" /\ signer'[o] = "completed"
      BY <1>1, <1>3, <2>0, <2>1, <3>1 DEF Formed, SessionFields, Knows
    <3>3. Told(o, s)'
      BY <3>2 DEF Told, Unreachable
    <3>4. Write(t, s, "f_read")
      BY <1>1, <1>8, <2>1, <3>1 DEF complete_write, At
    <3> QED
      BY <1>1, <1>4, <3>3, <3>4, ControlWrites DEF Fine
  <2>2. CASE thr[t].pc = "c_fail"
    <3>1. PICK s : s = latch_terminal(m, "Failed")
      OBVIOUS
    <3>2. s.state = "Failed" /\ Settled(o)'
      BY <1>1, <1>3, <1>4, <2>2, <3>1, LatchedSession, SettledKept DEF Knows, States
    <3>3. Told(o, s)'
      BY <3>2 DEF Told
    <3>4. Write(t, s, "idle")
      BY <1>1, <1>8, <2>2, <3>1 DEF complete_write, At
    <3> QED
      BY <1>1, <1>4, <3>3, <3>4, ControlWrites DEF Fine
  <2> QED
    BY <1>8, <2>1, <2>2 DEF complete_write, At
<1> QED
  BY <1>5, <1>6, <1>7, <1>8

LEMMA FineBrowser ==
  ASSUME ReleaseInv, TruthInv, NEW t \in Threads,
         acknowledge_result(t) \/ bind_write(t) \/ cancel_read(t) \/ cancel_at_signer(t)
  PROVE  Fine
<1>1. PICK o, m : o = thr[t].op /\ m = mem[o]
  OBVIOUS
<1>2. thr[t].pc \in {"a_read", "b_write", "x_read", "x_call"} /\ UNCHANGED <<mem, db, adopted, rejected>>
  BY DEF acknowledge_result, bind_write, cancel_read, cancel_at_signer, At
<1>3. HandlerOk(thr[t]) /\ Knows(thr[t]) /\ o \in Ops /\ Formed(m) /\ m # NoSession /\ signer[o] # "missing" /\ Told(o, m)
  BY <1>1, <1>2, Reads DEF Entered
<1>4. Later /\ Observed' /\ Truth'
  BY <1>2, BrowserSteps, Aside DEF Good
<1>5. CASE acknowledge_result(t)
  <2>1. CASE Return(t)
    BY <1>4, <2>1, ControlReturns DEF Fine
  <2>2. PICK s : s = latch_terminal(m, "Completed")
    OBVIOUS
  <2>3. CASE m.state = "AwaitingRecoveryAck" /\ Write(t, s, "idle")
    <3>1. s.state = "Completed" /\ o \in adopted'
      BY <1>2, <1>3, <2>2, <2>3, LatchedSession DEF Told, States
    <3>2. Told(o, s)'
      BY <3>1 DEF Told, Unreachable
    <3> QED
      BY <1>1, <1>4, <2>3, <3>2, ControlWrites DEF Fine
  <2> QED
    BY <1>1, <1>5, <2>1, <2>2, <2>3 DEF acknowledge_result
<1>6. CASE bind_write(t)
  <2>1. PICK s : s = [m EXCEPT !.challenge = bound[o]]
    OBVIOUS
  <2>2. s.state = m.state /\ Told(o, m)'
    BY <1>3, <1>4, <2>1, ToldKept DEF Formed, SessionFields
  <2>3. Told(o, s)'
    BY <1>3, <2>2 DEF Told, Unreachable
  <2> QED
    BY <1>1, <1>4, <1>6, <2>1, <2>3, ControlWrites DEF Fine, bind_write
<1>7. CASE cancel_read(t)
  <2>1. CASE Return(t)
    BY <1>4, <2>1, ControlReturns DEF Fine
  <2>2. PICK s, h : /\ s = latch_terminal(m, "Cancelled")
                    /\ h = [thr[t] EXCEPT !.pc = "x_call", !.caller = "idle", !.snap = s]
    OBVIOUS
  <2>3. CASE thr' = [thr EXCEPT ![t].pc = "x_call", ![t].caller = "idle", ![t].snap = s]
    <3>1. h.pc = "x_call" /\ h.op = o /\ h.snap = s /\ s.state = "Cancelled"
      BY <1>1, <1>3, <2>2, LatchedSession DEF HandlerOk, HandlerFields, States
    <3>2. Knows(h)'
      BY <3>1 DEF Knows
    <3>3. thr' = [thr EXCEPT ![t] = h]
      BY <2>2, <2>3
    <3> QED
      BY <1>4, <3>2, <3>3, ControlMoves DEF Fine
  <2> QED
    BY <1>1, <1>7, <2>1, <2>2, <2>3 DEF cancel_read
<1>8. CASE cancel_at_signer(t)
  <2>1. CASE Return(t)
    BY <1>4, <2>1, ControlReturns DEF Fine
  <2>2. PICK s : s = thr[t].snap
    OBVIOUS
  <2>3. CASE SignerCancels(o) /\ Write(t, s, "idle")
    <3>1. signer'[o] = "ended"
      BY <1>3, <2>3, Cancels
    <3>2. s.state = "Cancelled"
      BY <1>3, <1>8, <2>2 DEF cancel_at_signer, At, Knows
    <3>3. Told(o, s)'
      BY <3>1, <3>2 DEF Told, Settled
    <3> QED
      BY <1>1, <1>4, <2>3, <3>3, ControlWrites DEF Fine
  <2> QED
    BY <1>1, <1>8, <2>1, <2>2, <2>3 DEF cancel_at_signer
<1> QED
  BY <1>5, <1>6, <1>7, <1>8

LEMMA FineTerminate ==
  ASSUME ReleaseInv, TruthInv, NEW t \in Threads, terminate_cancel(t) \/ terminate_write(t)
  PROVE  Fine
<1>1. PICK o, m : o = thr[t].op /\ m = mem[o]
  OBVIOUS
<1>2. thr[t].pc \in {"t_cancel", "t_end", "t_fail"} /\ UNCHANGED <<mem, db, adopted, rejected>>
  BY DEF terminate_cancel, terminate_write, At
<1>3. HandlerOk(thr[t]) /\ Knows(thr[t]) /\ o \in Ops /\ Formed(m) /\ m # NoSession /\ signer[o] # "missing" /\ Told(o, m)
  BY <1>1, <1>2, Reads DEF Entered
<1>4. Later /\ Observed' /\ Truth'
  BY <1>2, TerminateSteps, Aside DEF Good
<1>5. CASE terminate_cancel(t)
  <2>1. Return(t) \/ Goto(t, "t_end")
    BY <1>5 DEF terminate_cancel
  <2> QED
    BY <1>1, <1>4, <2>1, ControlReturns, ControlGoes DEF Fine
<1>6. CASE terminate_write(t)
  <2>1. PICK end \in {<<"t_end", "Cancelled">>, <<"t_fail", "Failed">>} :
          At(t, end[1]) /\ (Return(t) \/ Write(t, latch_terminal(m, end[2]), "idle"))
    BY <1>1, <1>6 DEF terminate_write
  <2>2. Settled(o)
    BY <1>1, <1>3, <2>1 DEF At, Knows, HandlerOk, Settled
  <2>3. PICK s : s = latch_terminal(m, end[2])
    OBVIOUS
  <2>4. s.state \in {"Cancelled", "Failed"} /\ Settled(o)'
    BY <1>3, <1>4, <2>1, <2>2, <2>3, LatchedSession, SettledKept DEF States
  <2>5. Told(o, s)'
    BY <2>4 DEF Told
  <2> QED
    BY <1>1, <1>4, <2>1, <2>3, <2>5, ControlReturns, ControlWrites DEF Fine
<1> QED
  BY <1>5, <1>6

LEMMA FineArrive ==
  ASSUME ReleaseInv, TruthInv, NEW t \in Threads, NEW o \in Ops, Arrives(t, o)
  PROVE  Fine
<1>1. UNCHANGED <<mem, db, signer, adopted, rejected>>
  BY DEF Arrives, prepare, sweep, browser_request, exchange_remote_fragment, bind_output_key, cancel, terminate
<1>2. Later /\ Observed' /\ Truth'
  BY <1>1, ArriveGood, Aside DEF Good
<1>3. ASSUME NEW h, thr' = [thr EXCEPT ![t] = h], Knows(h)' PROVE Fine
  BY <1>2, <1>3, ControlMoves DEF Fine
<1>4. ASSUME NEW pc \in {"p_call", "e_check", "c_read", "a_read", "b_write"}, Enter(t, o, pc) PROVE Fine
  <2>1. PICK h : h = [Idle EXCEPT !.pc = pc, !.op = o]
    OBVIOUS
  <2>2. h.pc = pc
    BY <2>1 DEF Idle
  <2>3. Knows(h)'
    BY <2>2 DEF Knows
  <2> QED
    BY <1>3, <1>4, <2>1, <2>3 DEF Enter
<1>5. CASE exchange_remote_fragment(t, o)
  <2>1. PICK s, h : /\ s = [mem[o] EXCEPT !.token = "cookie"]
                    /\ h = [pc |-> "w_db", op |-> o, snap |-> s, then |-> "idle", caller |-> "idle"]
    OBVIOUS
  <2>2. Formed(mem[o]) /\ mem[o].state = "AwaitingUser"
    BY <1>5, DueIsSession DEF exchange_remote_fragment
  <2>3. s.state = "AwaitingUser" /\ h.pc = "w_db" /\ h.op = o /\ h.snap = s
    BY <2>1, <2>2 DEF Formed, SessionFields
  <2>4. Knows(h)'
    BY <2>3 DEF Knows, Told, Unreachable
  <2> QED
    BY <1>3, <1>5, <2>1, <2>4 DEF exchange_remote_fragment
<1>6. CASE cancel(t, o)
  <2>0. PICK pc \in {"e_check", "x_read"} :
          thr' = [thr EXCEPT ![t] = [pc |-> pc, op |-> o, snap |-> NoSession, then |-> "idle", caller |-> "x_read"]]
    BY <1>6 DEF cancel
  <2>1. PICK h : /\ h = [pc |-> pc, op |-> o, snap |-> NoSession, then |-> "idle", caller |-> "x_read"]
                 /\ thr' = [thr EXCEPT ![t] = h]
    BY <2>0
  <2>2. h.pc = pc
    BY <2>0, <2>1
  <2>3. Knows(h)'
    BY <2>2 DEF Knows
  <2> QED
    BY <1>3, <2>0, <2>1, <2>3
<1>7. CASE terminate(t, o)
  <2>1. PICK pc \in {"f_read", "t_cancel", "t_fail"} :
          /\ thr' = [thr EXCEPT ![t] = [Idle EXCEPT !.op = o, !.pc = pc]]
          /\ pc = "t_fail" => mem[o].state \notin {"WalletCommitted", "AwaitingUser"}
    BY <1>7, TerminateEnters
  <2>2. PICK h : h = [Idle EXCEPT !.op = o, !.pc = pc]
    OBVIOUS
  <2>3. h.pc = pc /\ h.op = o
    BY <2>2 DEF Idle
  <2>4. ASSUME pc = "t_fail" PROVE Settled(o)'
    <3>1. mem[o] # NoSession /\ Formed(mem[o]) /\ Told(o, mem[o])
      BY <1>7, DueIsSession DEF terminate, TruthInv, Truth
    <3>2. mem[o].state \in {"Verifying", "AwaitingRecoveryAck"}
      BY <1>7, <2>1, <2>4, <3>1 DEF terminate, Formed, States, is_terminal
    <3>3. CASE mem[o].state = "Verifying"
      BY <1>7, <3>3 DEF terminate, Settled
    <3>4. CASE mem[o].state = "AwaitingRecoveryAck"
      BY <1>2, <3>1, <3>4, SettledKept DEF Told, Settled
    <3> QED
      BY <3>2, <3>3, <3>4
  <2>5. Knows(h)'
    BY <2>3, <2>4 DEF Knows, Settled
  <2> QED
    BY <1>3, <2>1, <2>2, <2>5
<1> QED
  BY <1>4, <1>5, <1>6, <1>7 DEF Arrives, prepare, sweep, browser_request, bind_output_key

-----------------------------------------------------------------------------
\* The start.

LEMMA FineAdopt ==
  ASSUME ReleaseInv, TruthInv, NEW o \in Ops, AdoptCommitted(o), UNCHANGED <<world, thr, latched, abandoned>>
  PROVE  Fine
<1>1. mem[o] # NoSession /\ Later /\ Adopts(o)
  BY AdoptGood DEF AdoptCommitted, NoSession, Good
<1>2. Formed(mem[o]) /\ signer[o] = "completed"
  BY <1>1, DueIsSession DEF AdoptCommitted, TruthInv, Truth, Told
<1>3. PICK s : s = IF o \in adopted' THEN Finalized(o, mem[o]) ELSE latch_terminal(mem[o], "Failed")
  OBVIOUS
<1>4. Told(o, s)' /\ Put(o, s)
  BY <1>1, <1>2, <1>3, AdoptedTold DEF AdoptCommitted
<1>5. Truth'
  BY <1>1, <1>4, TruthWritten DEF Put
<1> QED
  BY <1>1, <1>2, <1>5, ControlStays, ObservedOne DEF Fine

LEMMA FineReload ==
  ASSUME ReleaseInv, TruthInv, NEW o \in Ops, reload(o)
  PROVE  Fine
<1>1. PICK d : d = db[o]
  OBVIOUS
<1>2. /\ Formed(d) /\ d # NoSession /\ signer[o] # "missing" /\ Later /\ Told(o, d) /\ Told(o, d)'
      /\ UNCHANGED <<thr, adopted, rejected>>
  BY <1>1, ReloadGood, ToldKept DEF reload, ReleaseInv, Rows, Stored, Good, TruthInv, Truth
<1>3. ASSUME NEW s, Told(o, s)', Put(o, s) PROVE Fine
  BY <1>2, <1>3, TruthWritten, ControlStays, ObservedKept DEF Fine, Put
<1>4. PICK f, w, e : /\ f = latch_terminal(d, "Failed") /\ e = latch_terminal(d, "Expired")
                     /\ w = [d EXCEPT !.state = "WalletCommitted"]
  OBVIOUS
<1>5. f.state = "Failed" /\ e.state = "Expired" /\ w.state = "WalletCommitted"
  BY <1>2, <1>4, LatchedSession DEF States, Formed, SessionFields
<1>6. CASE Put(o, d)
  BY <1>2, <1>3, <1>6
<1>7. CASE Put(o, f) /\ d.state = "AwaitingRecoveryAck"
  <2>1. Settled(o)'
    BY <1>2, <1>7, SettledKept DEF Told, Settled
  <2>2. Told(o, f)'
    BY <1>5, <2>1 DEF Told
  <2> QED
    BY <1>3, <1>7, <2>2
<1>8. CASE Put(o, w) /\ signer[o] = "completed" /\ UNCHANGED signer
  <2>1. Told(o, w)'
    BY <1>5, <1>8 DEF Told, Unreachable
  <2> QED
    BY <1>3, <1>8, <2>1
<1>9. CASE Put(o, e) /\ SignerCancels(o)
  <2>1. signer'[o] = "ended"
    BY <1>2, <1>9, Cancels
  <2>2. Told(o, e)'
    BY <1>5, <2>1 DEF Told, Settled
  <2> QED
    BY <1>3, <1>9, <2>2
<1> QED
  BY <1>1, <1>4, <1>6, <1>7, <1>8, <1>9 DEF reload

LEMMA FineStopped ==
  ASSUME ReleaseInv, TruthInv, Stopped
  PROVE  Fine
<1>1. Observed'
  BY DEF Stopped, TruthInv, Observed
<1>2. ASSUME NEW o \in Ops PROVE Told(o, mem[o])' /\ Told(o, db[o])'
  BY DEF Stopped, Told, TruthInv, Truth, Settled
<1>3. ASSUME NEW t \in Threads PROVE Knows(thr[t])'
  BY DEF Stopped, Knows, Idle
<1> QED
  BY <1>1, <1>2, <1>3 DEF Fine, Truth, Control

LEMMA TruthStep ==
  ASSUME ReleaseInv, TruthInv, [Next]_vars
  PROVE  TruthInv'
<1>1. ASSUME NEW t \in Threads, HandlerStep(t) PROVE Fine
  BY <1>1, FinePersist, FineInsert, FinePrepare, FineExpire, FineFinalize, FineComplete, FineBrowser,
     FineTerminate DEF HandlerStep
<1>2. ASSUME NEW o \in Ops, set_completion_observer(o) PROVE Fine
  BY <1>2, FineAdopt DEF set_completion_observer
<1>3. ASSUME NEW o \in Ops, signer_expires(o) PROVE Fine
  <2>1. UNCHANGED <<mem, db, thr, adopted, rejected>>
    BY <1>3 DEF signer_expires
  <2> QED
    BY <1>3, <2>1, ExpiresGood, Aside, ControlStays DEF Good, Fine
<1>4. ASSUME (\E o \in Ops : tick(o)) \/ stop_serving \/ loaded \/ serve \/ UNCHANGED vars PROVE Fine
  <2>1. UNCHANGED <<world, mem, db, signer, adopted, rejected, abandoned, thr, latched>>
    BY <1>4 DEF tick, stop_serving, loaded, serve, vars
  <2> QED
    BY <2>1, QuietGood, Aside, ControlStays DEF Good, Fine
<1>5. ASSUME crash \/ exit PROVE Fine
  BY <1>5, FineStopped DEF crash, exit
<1> QED
  BY <1>1, <1>2, <1>3, <1>4, <1>5, Cases, FineArrive, FineReload DEF Fine, TruthInv

LEMMA TruthInit ==
  ASSUME Init
  PROVE  TruthInv
<1>1. Observed /\ Truth
  BY DEF Init, Observed, Truth, Told
<1>2. Control
  BY DEF Init, Control, Knows, Idle
<1> QED
  BY <1>1, <1>2 DEF TruthInv

LEMMA TruthInvariance == SafetySpec => [](ReleaseInv /\ TruthInv)
<1>1. Init => TruthInv
  BY TruthInit
<1>2. ReleaseInv /\ TruthInv /\ [Next]_vars => TruthInv'
  BY TruthStep
<1> QED
  BY <1>1, <1>2, ReleaseInvariance, PTL DEF SafetySpec

\* A session that approval_ceremony_unreachable counts as dead is of a settled
\* operation, or of one the Broker abandoned, with any number of operations,
\* handlers, lost answers, results to acknowledge, latched journals, stops and
\* process ends (expire_sessions, complete_session, cancel_with_backoff,
\* terminate_live_sessions, reload_and_reconcile_nonterminal).
THEOREM UnreachableMeansSettled == SafetySpec => []UnreachableIsSettled
<1>1. ReleaseInv /\ TruthInv => UnreachableIsSettled
  BY DEF TruthInv, Truth, Told, Unreachable, UnreachableIsSettled, NoSession
<1> QED
  BY <1>1, TruthInvariance, PTL

-----------------------------------------------------------------------------
(***************************************************************************)
(* The sessions implement CeremonyPromise.                                 *)
(***************************************************************************)

\* What a row s means.
Means(s) ==
  CASE Unreachable(s) -> "dead"
    [] s.state = "Completed" -> "done"
    [] OTHER -> "open"

Promised == Promise!Next \/ UNCHANGED <<Wallet, adopted, rejected, abandoned, Recorded>>

LEMMA RecordedMeans == Recorded = [o \in Ops |-> Means(db[o])]
BY DEF Recorded, Means

LEMMA MeansOf ==
  ASSUME NEW s
  PROVE  /\ Means(s) \in {"open", "done", "dead"}
         /\ Means(s) = "dead" => s # NoSession /\ Unreachable(s)
         /\ Means(s) = "done" => s # NoSession /\ s.state = "Completed"
<1>1. CASE Unreachable(s)
  BY <1>1 DEF Means, Unreachable, NoSession
<1>2. CASE s.state = "Completed"
  BY <1>2 DEF Means, Unreachable, NoSession
<1>3. CASE ~Unreachable(s) /\ s.state # "Completed"
  BY <1>3 DEF Means
<1> QED
  BY <1>1, <1>2, <1>3

LEMMA WalletOf ==
  ASSUME NEW o \in Ops
  PROVE  /\ signer[o] = "completed" <=> Wallet[o] = "committed"
         /\ signer[o] = "ended" <=> Wallet[o] = "released"
         /\ signer[o] \notin Decided <=> Wallet[o] = "open"
         /\ DOMAIN Wallet = Ops
<1>1. Wallet[o] = CASE signer[o] = "completed" -> "committed"
                    [] signer[o] = "ended" -> "released"
                    [] OTHER -> "open"
  BY DEF Wallet
<1>2. CASE signer[o] = "completed"
  BY <1>1, <1>2 DEF Decided, Wallet
<1>3. CASE signer[o] = "ended"
  BY <1>1, <1>3 DEF Decided, Wallet
<1>4. CASE signer[o] \notin Decided
  BY <1>1, <1>4 DEF Decided, Wallet
<1> QED
  BY <1>2, <1>3, <1>4 DEF Decided

\* The records after a write of s.
LEMMA RecordedAfter ==
  ASSUME ReleaseInv, NEW o \in Ops, NEW s
  PROVE  /\ db' = db => Recorded' = Recorded
         /\ db' = [db EXCEPT ![o] = s] => Recorded' = [Recorded EXCEPT ![o] = Means(s)]
<1>1. Recorded = [p \in Ops |-> Means(db[p])] /\ Recorded' = [p \in Ops |-> Means(db'[p])]
  BY DEF Recorded, Means, Unreachable
<1>2. ASSUME db' = [db EXCEPT ![o] = s] PROVE Recorded' = [Recorded EXCEPT ![o] = Means(s)]
  <2>1. db'[o] = s /\ \A p \in Ops : p # o => db'[p] = db[p]
    BY <1>2 DEF ReleaseInv, Tables
  <2>2. \A p \in Ops : Means(db'[p]) = [Recorded EXCEPT ![o] = Means(s)][p]
    BY <1>1, <2>1
  <2> QED
    BY <1>1, <2>2
<1> QED
  BY <1>1, <1>2

LEMMA WalletSame ==
  ASSUME ReleaseInv, NEW o \in Ops, \A p \in Ops : p # o => signer'[p] = signer[p]
  PROVE  /\ signer'[o] = signer[o] => Wallet' = Wallet
         /\ signer[o] = "missing" /\ signer'[o] = "pending" => Wallet' = Wallet
         /\ signer'[o] = "completed" => Wallet' = [Wallet EXCEPT ![o] = "committed"]
         /\ signer'[o] = "ended" => Wallet' = [Wallet EXCEPT ![o] = "released"]
<1> DEFINE W(x) == CASE x = "completed" -> "committed" [] x = "ended" -> "released" [] OTHER -> "open"
<1>1. Wallet = [p \in Ops |-> W(signer[p])] /\ Wallet' = [p \in Ops |-> W(signer'[p])]
  BY DEF Wallet
<1>2. /\ W("completed") = "committed" /\ W("ended") = "released"
      /\ W("missing") = "open" /\ W("pending") = "open"
  OBVIOUS
<1> HIDE DEF W
<1> QED
  BY <1>1, <1>2

\* The Signer commits only what is not on record as dead, or was abandoned.
LEMMA Commits ==
  ASSUME ReleaseInv, TruthInv, NEW o \in Ops, \A p \in Ops : p # o => signer'[p] = signer[p],
         signer[o] = "pending", signer'[o] = "completed"
  PROVE  /\ Wallet[o] = "open" /\ Wallet' = [Wallet EXCEPT ![o] = "committed"]
         /\ Recorded[o] = "dead" => o \in abandoned
<1>1. Recorded[o] = Means(db[o]) /\ Told(o, db[o]) /\ o \notin adopted \cup rejected
  BY RecordedMeans DEF TruthInv, Truth, Observed
<1>2. Recorded[o] = "dead" => Settled(o)
  BY <1>1, MeansOf DEF Told
<1> QED
  BY <1>1, <1>2, WalletOf, WalletSame DEF Settled, Decided

\* A row is written: Record.
LEMMA PromiseRecord ==
  ASSUME ReleaseInv, NEW o \in Ops, NEW s, Told(o, s)', UNCHANGED <<signer, adopted, rejected, abandoned>>,
         db' = db \/ db' = [db EXCEPT ![o] = s]
  PROVE  Promised
<1>1. Wallet' = Wallet
  BY WalletSame
<1>2. CASE db' = db
  BY <1>1, <1>2, RecordedAfter DEF Promised
<1>3. CASE db' = [db EXCEPT ![o] = s]
  <2>1. PICK r \in {"open", "done", "dead"} : r = Means(s)
    BY MeansOf
  <2>2. /\ r = "done" => o \in adopted
        /\ r = "dead" => Wallet[o] = "released" \/ o \in rejected \cup abandoned \/ (o \in Sensitive /\ o \in adopted)
    <3>1. r = "dead" => Settled(o)'
      BY <2>1, MeansOf DEF Told
    <3>2. r = "dead" => Settled(o)
      BY <3>1 DEF Settled
    <3> QED
      BY <2>1, <3>2, MeansOf, WalletOf DEF Told, Settled
  <2>3. Promise!MayRecord(o, r)
    BY <2>1, <2>2 DEF Promise!MayRecord
  <2>4. Promise!Record(o, r)
    BY <1>1, <1>3, <2>1, <2>3, RecordedAfter DEF Promise!Record
  <2> QED
    BY <2>1, <2>4 DEF Promised, Promise!Next
<1> QED
  BY <1>2, <1>3

\* The Signer moves: Commit, Release or nothing.
LEMMA PromiseSigner ==
  ASSUME ReleaseInv, TruthInv, NEW o \in Ops, \A p \in Ops : p # o => signer'[p] = signer[p],
         UNCHANGED <<db, adopted, rejected, abandoned>>,
         \/ signer'[o] = signer[o] \/ (signer[o] = "missing" /\ signer'[o] = "pending")
         \/ signer[o] = "pending" /\ signer'[o] \in Decided
  PROVE  Promised
<1>1. Recorded' = Recorded
  BY RecordedAfter
<1>2. CASE Wallet' = Wallet
  BY <1>1, <1>2 DEF Promised
<1>3. CASE signer[o] = "pending" /\ signer'[o] = "completed"
  <2>1. Promise!Commit(o)
    BY <1>1, <1>3, Commits DEF Promise!Commit
  <2> QED
    BY <2>1 DEF Promised, Promise!Next
<1>4. CASE signer[o] = "pending" /\ signer'[o] = "ended"
  <2>1. Wallet[o] = "open" /\ Wallet' = [Wallet EXCEPT ![o] = "released"]
    BY <1>4, WalletOf, WalletSame DEF Decided
  <2>2. Promise!Release(o)
    BY <1>1, <2>1 DEF Promise!Release
  <2> QED
    BY <2>2 DEF Promised, Promise!Next
<1> QED
  BY <1>2, <1>3, <1>4, WalletSame DEF Decided

\* The answer to a completion is lost: Commit or Abandon.
LEMMA PromiseLost ==
  ASSUME ReleaseInv, TruthInv, NEW o \in Ops, \A p \in Ops : p # o => signer'[p] = signer[p],
         UNCHANGED <<db, adopted, rejected>>, abandoned' = abandoned \cup {o},
         signer'[o] = signer[o] \/ (signer[o] = "pending" /\ signer'[o] = "completed")
  PROVE  Promised
<1>1. Recorded' = Recorded
  BY RecordedAfter
<1>2. CASE signer'[o] = signer[o]
  <2>1. Promise!Abandon(o)
    BY <1>1, <1>2, WalletSame DEF Promise!Abandon
  <2> QED
    BY <2>1 DEF Promised, Promise!Next
<1>3. CASE signer[o] = "pending" /\ signer'[o] = "completed"
  <2>1. Promise!Commit(o)
    BY <1>1, <1>3, Commits DEF Promise!Commit
  <2> QED
    BY <2>1 DEF Promised, Promise!Next
<1> QED
  BY <1>2, <1>3

LEMMA PromiseStays ==
  ASSUME ReleaseInv, UNCHANGED <<signer, db, adopted, rejected, abandoned>>
  PROVE  Promised
BY DEF Promised, Wallet, Recorded, Unreachable

\* A receipt is applied or refused: Adopt, Reject or nothing.
LEMMA PromiseAdopt ==
  ASSUME ReleaseInv, NEW o \in Ops, signer[o] = "completed", Adopts(o), UNCHANGED <<signer, db, abandoned>>
  PROVE  Promised
<1>1. Wallet' = Wallet /\ Recorded' = Recorded /\ Wallet[o] = "committed"
  BY WalletSame, RecordedAfter, WalletOf
<1>2. CASE UNCHANGED <<adopted, rejected>>
  BY <1>1, <1>2 DEF Promised
<1>3. CASE o \notin adopted \cup rejected
  <2>1. Promise!Adopt(o) \/ Promise!Reject(o)
    BY <1>1, <1>3 DEF Adopts, Promise!Adopt, Promise!Reject
  <2> QED
    BY <2>1 DEF Promised, Promise!Next
<1> QED
  BY <1>2, <1>3 DEF Adopts

\* A start adopts a committed session: Settle.
LEMMA PromiseAdoptPut ==
  ASSUME ReleaseInv, TruthInv, NEW o \in Ops, AdoptCommitted(o), UNCHANGED abandoned
  PROVE  Promised
<1>1. mem[o] # NoSession /\ UNCHANGED signer
  BY DEF AdoptCommitted, NoSession
<1>2. Formed(mem[o]) /\ signer[o] = "completed"
  BY <1>1, DueIsSession DEF AdoptCommitted, TruthInv, Truth, Told
<1>3. PICK s : s = IF o \in adopted' THEN Finalized(o, mem[o]) ELSE latch_terminal(mem[o], "Failed")
  OBVIOUS
<1>4. /\ o \in adopted' => s.state \in {"AwaitingRecoveryAck", "Completed"}
      /\ o \notin adopted' => s.state = "Failed"
  BY <1>2, <1>3, FinalizedSession, LatchedSession DEF States
<1>5. Wallet' = Wallet /\ Wallet[o] = "committed" /\ Recorded' = [Recorded EXCEPT ![o] = Means(s)]
  BY <1>1, <1>2, <1>3, WalletSame, WalletOf, RecordedAfter DEF AdoptCommitted, Put
<1>6. CASE o \in adopted'
  <2>1. Means(s) \in {"open", "done"}
    BY <1>4, <1>6, MeansOf DEF Unreachable
  <2>2. adopted' = adopted \cup {o} /\ o \notin rejected /\ UNCHANGED rejected
    BY <1>6 DEF AdoptCommitted, Adopts
  <2>3. Promise!Settle(o)
    BY <1>5, <2>1, <2>2 DEF Promise!Settle
  <2> QED
    BY <2>3 DEF Promised, Promise!Next
<1>7. CASE o \notin adopted'
  <2>1. Means(s) = "dead"
    BY <1>4, <1>7 DEF Means, Unreachable
  <2>2. rejected' = rejected \cup {o} /\ o \notin adopted /\ UNCHANGED adopted
    BY <1>7 DEF AdoptCommitted, Adopts
  <2>3. Promise!Settle(o)
    BY <1>5, <2>1, <2>2 DEF Promise!Settle
  <2> QED
    BY <2>3 DEF Promised, Promise!Next
<1> QED
  BY <1>6, <1>7

\* A start releases an operation: Settle, or Record when the Signer had already
\* let go of it.
LEMMA PromiseCancelPut ==
  ASSUME ReleaseInv, NEW o \in Ops, NEW s, SignerCancels(o), signer[o] # "missing", Put(o, s),
         s.state = "Expired", UNCHANGED <<adopted, rejected, abandoned>>
  PROVE  Promised
<1>1. /\ signer'[o] = "ended" /\ signer[o] \in {"pending", "ended"}
      /\ \A p \in Ops : p # o => signer'[p] = signer[p]
  BY Cancels
<1>2. Means(s) = "dead"
  BY DEF Means, Unreachable
<1>3. Recorded' = [Recorded EXCEPT ![o] = "dead"] /\ Wallet' = [Wallet EXCEPT ![o] = "released"]
  <2>1. Recorded' = [Recorded EXCEPT ![o] = Means(s)]
    BY RecordedAfter DEF Put
  <2>2. Wallet' = [Wallet EXCEPT ![o] = "released"]
    BY <1>1, WalletSame
  <2> QED
    BY <1>2, <2>1, <2>2
<1>4. CASE signer[o] = "pending"
  <2>1. Promise!Settle(o)
    BY <1>3, <1>4, WalletOf DEF Promise!Settle, Decided
  <2> QED
    BY <2>1 DEF Promised, Promise!Next
<1>5. CASE signer[o] = "ended"
  <2>1. Wallet' = Wallet /\ Wallet[o] = "released"
    BY <1>1, <1>5, WalletSame, WalletOf
  <2>2. Promise!Record(o, "dead")
    BY <1>3, <2>1 DEF Promise!Record, Promise!MayRecord
  <2> QED
    BY <2>2 DEF Promised, Promise!Next
<1> QED
  BY <1>1, <1>4, <1>5

LEMMA PromiseReload ==
  ASSUME ReleaseInv, TruthInv, NEW o \in Ops, reload(o)
  PROVE  Promised
<1>1. PICK d, e : d = db[o] /\ e = latch_terminal(d, "Expired")
  OBVIOUS
<1>2. /\ Formed(d) /\ signer[o] # "missing" /\ Truth' /\ DOMAIN db = Ops
      /\ UNCHANGED <<adopted, rejected, abandoned>>
  BY <1>1, FineReload DEF reload, Fine, ReleaseInv, Tables, Rows, Stored
<1>3. ASSUME NEW s, Put(o, s) PROVE Told(o, s)'
  <2>1. db'[o] = s /\ Told(o, db[o])'
    BY <1>2, <1>3 DEF Put, Truth
  <2> QED
    BY <2>1 DEF Told
<1>4. CASE SignerCancels(o) /\ Put(o, e)
  <2>1. e.state = "Expired"
    BY <1>1, <1>2, LatchedSession DEF States
  <2> QED
    BY <1>2, <1>4, <2>1, PromiseCancelPut
<1>5. ASSUME NEW s, Put(o, s), UNCHANGED signer PROVE Promised
  BY <1>2, <1>3, <1>5, PromiseRecord DEF Put
<1> QED
  BY <1>1, <1>4, <1>5 DEF reload

LEMMA PromiseHandler ==
  ASSUME ReleaseInv, TruthInv, NEW t \in Threads, HandlerStep(t)
  PROVE  Promised
<1>1. PICK o, s : o = thr[t].op /\ s = thr[t].snap
  OBVIOUS
<1>2. CASE persist_session(t)
  <2>1. /\ o \in Ops /\ UNCHANGED <<signer, adopted, rejected, abandoned>>
        /\ (db' = db \/ db' = [db EXCEPT ![o] = s])
    BY <1>1, <1>2, AtHandler DEF persist_session, Entered
  <2>2. CASE db' = db
    BY <2>1, <2>2, PromiseStays
  <2>3. CASE db' = [db EXCEPT ![o] = s]
    <3>1. db'[o] = s /\ Told(o, db[o])'
      BY <1>2, <2>1, <2>3, FinePersist DEF Fine, Truth, ReleaseInv, Tables
    <3>2. Told(o, s)'
      BY <3>1 DEF Told
    <3> QED
      BY <2>1, <2>3, <3>2, PromiseRecord
  <2> QED
    BY <2>1, <2>2, <2>3
<1>3. CASE insert_session(t)
  <2>1. PICK n : n = new_session
    OBVIOUS
  <2>2. /\ o \in Ops /\ UNCHANGED <<signer, adopted, rejected, abandoned>>
        /\ (db' = db \/ db' = [db EXCEPT ![o] = n])
    BY <1>1, <1>3, <2>1 DEF insert_session, At, ReleaseInv, Handlers, HandlerOk
  <2>3. Told(o, n)'
    BY <2>1, NewSession DEF Told, Unreachable
  <2> QED
    BY <2>2, <2>3, PromiseRecord
<1>4. CASE prepare_at_signer(t)
  <2>1. o \in Ops /\ UNCHANGED <<db, adopted, rejected, abandoned>>
    BY <1>1, <1>4 DEF prepare_at_signer, At, ReleaseInv, Handlers, HandlerOk
  <2>2. /\ \A p \in Ops : p # o => signer'[p] = signer[p]
        /\ signer'[o] = signer[o] \/ (signer[o] = "missing" /\ signer'[o] = "pending")
    BY <1>1, <1>4, <2>1 DEF prepare_at_signer, ReleaseInv, Tables
  <2> QED
    BY <2>1, <2>2, PromiseSigner
<1>5. CASE \/ expire_cancel(t) \/ cancel_at_signer(t) \/ complete_release(t) \/ complete_at_signer(t)
           \/ terminate_cancel(t)
  <2>1. /\ o \in Ops /\ UNCHANGED <<db, adopted, rejected>> /\ signer[o] # "missing"
        /\ signer \in [Ops -> SignerState]
    BY <1>1, <1>5, AtHandler
       DEF expire_cancel, cancel_at_signer, complete_release, complete_at_signer, terminate_cancel, Entered,
           ReleaseInv, Tables
  <2>2. \/ /\ UNCHANGED abandoned
           /\ \/ SignerCancels(o) \/ UNCHANGED signer
              \/ signer' = [signer EXCEPT ![o] = IF @ = "pending" THEN "ended" ELSE @]
              \/ signer[o] \in {"pending", "completed"} /\ signer' = [signer EXCEPT ![o] = "completed"]
        \/ /\ abandoned' = abandoned \cup {o}
           /\ UNCHANGED signer \/ (signer[o] = "pending" /\ signer' = [signer EXCEPT ![o] = "completed"])
    BY <1>1, <1>5
       DEF expire_cancel, cancel_at_signer, complete_release, complete_at_signer, terminate_cancel, Accepts
  <2>3. /\ \A p \in Ops : p # o => signer'[p] = signer[p]
        /\ \/ UNCHANGED abandoned /\ (signer'[o] = signer[o] \/ (signer[o] = "pending" /\ signer'[o] \in Decided))
           \/ /\ abandoned' = abandoned \cup {o}
              /\ signer'[o] = signer[o] \/ (signer[o] = "pending" /\ signer'[o] = "completed")
    BY <2>1, <2>2 DEF SignerCancels, Decided
  <2> QED
    BY <2>1, <2>3, PromiseSigner, PromiseLost
<1>6. CASE finalize_notify(t)
  <2>1. o \in Ops /\ UNCHANGED <<db, signer, abandoned>> /\ signer[o] = "completed"
    BY <1>1, <1>6, AtHandler DEF finalize_notify, Entered, TruthInv, Control, Knows
  <2>2. Adopts(o) \/ UNCHANGED <<adopted, rejected>>
    BY <1>1, <1>6 DEF finalize_notify
  <2> QED
    BY <2>1, <2>2, PromiseAdopt, PromiseStays
<1>7. CASE \/ insert(t) \/ expire_check(t) \/ expire_unacknowledged(t) \/ expire_status(t)
           \/ expire_write(t) \/ finalize_read(t) \/ complete_read(t) \/ complete_write(t)
           \/ acknowledge_result(t) \/ bind_write(t) \/ cancel_read(t) \/ terminate_write(t)
  <2>1. UNCHANGED <<signer, db, adopted, rejected, abandoned>>
    BY <1>7 DEF insert, expire_check, expire_unacknowledged, expire_status, expire_write, finalize_read,
                complete_read, complete_write, acknowledge_result, bind_write, cancel_read, terminate_write
  <2> QED
    BY <2>1, PromiseStays
<1> QED
  BY <1>2, <1>3, <1>4, <1>5, <1>6, <1>7 DEF HandlerStep

LEMMA PromiseStep ==
  ASSUME ReleaseInv, TruthInv, [Next]_vars
  PROVE  Promised
<1>1. ASSUME NEW t \in Threads, NEW o \in Ops, Arrives(t, o) PROVE Promised
  <2>1. UNCHANGED <<signer, db, adopted, rejected>> /\ abandoned' \in {abandoned, abandoned \cup {o}}
    BY <1>1 DEF Arrives, prepare, sweep, browser_request, exchange_remote_fragment, bind_output_key, cancel, terminate
  <2> QED
    BY <2>1, PromiseStays, PromiseLost
<1>2. ASSUME NEW o \in Ops, set_completion_observer(o) PROVE Promised
  BY <1>2, PromiseAdoptPut DEF set_completion_observer
<1>3. ASSUME NEW o \in Ops, signer_expires(o) PROVE Promised
  <2>1. /\ signer[o] = "pending" /\ signer'[o] = "ended" /\ UNCHANGED <<db, adopted, rejected, abandoned>>
        /\ \A p \in Ops : p # o => signer'[p] = signer[p]
    BY <1>3 DEF signer_expires, ReleaseInv, Tables
  <2> QED
    BY <2>1, PromiseSigner DEF Decided
<1>4. ASSUME (\E o \in Ops : tick(o)) \/ stop_serving \/ loaded \/ serve \/ UNCHANGED vars \/ crash \/ exit
      PROVE  Promised
  <2>1. UNCHANGED <<signer, db, adopted, rejected, abandoned>>
    BY <1>4 DEF tick, stop_serving, loaded, serve, vars, crash, exit, Stopped
  <2> QED
    BY <2>1, PromiseStays
<1> QED
  BY <1>1, <1>2, <1>3, <1>4, Cases, PromiseHandler, PromiseReload

LEMMA PromiseInit ==
  ASSUME Init
  PROVE  Promise!Init
<1>1. \A o \in Ops : signer[o] = "missing" /\ db[o] = NoSession
  BY DEF Init
<1>2. Wallet = [o \in Ops |-> "open"]
  BY <1>1 DEF Wallet
<1>3. Recorded = [o \in Ops |-> "open"]
  BY <1>1 DEF Recorded, Unreachable, NoSession
<1> QED
  BY <1>2, <1>3 DEF Init, Promise!Init

\* The sessions implement CeremonyPromise in every world: the Signer decides an
\* operation once, the observer settles only what was committed, once, and a
\* row's meaning is true when persist_session writes it, but for the operations
\* the Broker abandoned, with any number of operations, handlers, lost answers,
\* latched journals, stops and process ends.
THEOREM SessionsKeepPromise == SafetySpec => PromiseKept
<1>1. Init => Promise!Init
  BY PromiseInit
<1>2. ReleaseInv /\ TruthInv /\ [Next]_vars => [Promise!Next]_(Promise!promiseVars)
  BY PromiseStep DEF Promised, Promise!promiseVars
<1> QED
  BY <1>1, <1>2, TruthInvariance, PTL DEF SafetySpec, PromiseKept, Promise!Spec

=============================================================================
