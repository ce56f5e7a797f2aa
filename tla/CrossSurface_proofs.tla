------------------------- MODULE CrossSurface_proofs -------------------------
(***************************************************************************)
(* Proofs about CrossSurface, for any number of handlers and faults.       *)
(*                                                                         *)
(* Before the first deadline nobody sweeps, and before the Signer knows    *)
(* the operation there is no source to sweep: then the holder of the       *)
(* admission lock is alone (Sequential), and what it has persisted is all  *)
(* that memory and rows differ by (InStep).  Later a stale write may land, *)
(* but the source is past its deadline, and a destination that was given   *)
(* up is of an operation that can no longer complete (Doomed).             *)
(***************************************************************************)
EXTENDS CrossSurface, TLAPS

Item == [tab: Tabs, session: Session, done: BOOLEAN]
DeadStates == {"Cancelled", "Expired", "Failed", "AlreadyRegistered"}
Writing == {"w_db", "w_mem"}
Holding == {"p_call", "a_call", "a_write", "f_call", "r_call", "x_call", "x_dest"}
Expiring == {"e_status", "e_adopt", "e_cancel", "e_end"}

\* What is stored of tab x.
Kept(x, s) ==
  s # Absent =>
    /\ s \in Session
    /\ x = "dest" => s.deadline > 1
    /\ x = "src" => s.deadline = 1 /\ ~s.retained /\ signer # "missing"

SrcEnded(s) == s = Absent \/ is_terminal(s.state)

\* The Signer's operation never completes.
Doomed ==
  \/ signer \in {"cancelled", "expired", "already"}
  \/ passed > 1 /\ signer \in {"missing", "paired"} /\ \A t \in Threads : thr[t].pc # "a_call"

\* Handler t may report the destination dead.
MayEnd(t) == Doomed \/ (signer = "missing" /\ guard = t)

\* Handler t, in state h, is about to write the session of item q.
Fit(t, h, q) ==
  /\ Kept(q.tab, q.session)
  /\ q.tab = "src" => mem["dest"] # Absent
  /\ q.done => db[q.tab] # Absent
  /\ q.tab = "dest" /\ q.session.state \in DeadStates => MayEnd(t)
  /\ q.tab = "dest" /\ q.session.state = "Cancelled" =>
       /\ h.then = "idle"
       /\ passed = 0 => SrcEnded(mem["src"]) /\ \A i \in DOMAIN h.todo : h.todo[i].tab # "src"
  /\ q.tab = "src" /\ ~is_terminal(q.session.state) =>
       \E i \in DOMAIN h.todo : h.todo[i].tab = "dest" /\ h.todo[i].session.state = "AwaitingUser"

\* Handler t in state h persists and inserts.
WriterOk(t, h) ==
  /\ h.then \in {"idle", "f_read", "x_dest"}
  /\ h.then = "x_dest" =>
       /\ guard = t /\ MayEnd(t) /\ h.seen["dest"] # Absent /\ Kept("dest", h.seen["dest"])
       /\ \E i \in DOMAIN h.todo : h.todo[i].tab = "src" /\ is_terminal(h.todo[i].session.state)
  /\ \A i \in DOMAIN h.todo : Fit(t, h, h.todo[i])
  /\ \A i, j \in DOMAIN h.todo : h.todo[i].tab = h.todo[j].tab => i = j
  /\ h.pc = "w_mem" => \A i \in DOMAIN h.todo : h.todo[i].done

\* Handler t in state h is before or after a call.
CallerOk(t, h) ==
  /\ h.pc \in Holding => guard = t
  /\ h.pc \in Expiring => passed > 1 /\ mem["dest"] # Absent
  /\ h.pc \in {"p_call", "f_call", "r_call", "x_call", "x_dest"} =>
       h.seen["dest"] # Absent /\ Kept("dest", h.seen["dest"])
  /\ h.pc = "p_call" => h.seen["dest"].state = "AwaitingUser" /\ mem["dest"] # Absent
  /\ h.pc \in {"a_call", "a_write"} =>
       h.seen["src"] # Absent /\ Kept("src", h.seen["src"]) /\ mem["dest"] # Absent /\ signer # "missing"
  /\ h.pc = "e_end" => Doomed /\ h.then \in {"Expired", "Cancelled", "AlreadyRegistered"}
  /\ h.pc = "x_dest" => MayEnd(t) /\ (passed = 0 => SrcEnded(mem["src"]))

Place == Writing \cup Holding \cup Expiring \cup {"idle", "f_read"}

Fields == {"pc", "seen", "todo", "then"}

HandlerOk(t, h) ==
  /\ DOMAIN h = Fields /\ h.pc \in Place /\ h.todo \in Seq(Item)
  /\ CallerOk(t, h)
  /\ h.pc \in Writing => WriterOk(t, h)

Handlers == DOMAIN thr = Threads /\ \A t \in Threads : HandlerOk(t, thr[t])

Tables ==
  /\ DOMAIN mem = Tabs /\ DOMAIN db = Tabs
  /\ \A x \in Tabs : Kept(x, mem[x]) /\ Kept(x, db[x]) /\ (mem[x] # Absent => db[x] # Absent)
  /\ db["src"] # Absent => db["dest"] # Absent
  /\ phase = "up" /\ mem["src"] # Absent => mem["dest"] # Absent
  /\ signer \in {"missing", "paired", "authorized", "completed", "already", "cancelled", "expired"}
  /\ passed \in Nat

\* A handler without the lock is a sweep.
Sequential ==
  /\ guard # NoThread => guard \in Threads
  /\ \A t \in Threads : thr[t].pc # "idle" /\ guard # t => passed > 1 \/ (passed = 1 /\ signer # "missing")
  /\ phase # "up" => guard = NoThread /\ \A t \in Threads : thr[t].pc = "idle"

Calm == passed = 0 \/ (passed = 1 /\ signer = "missing")

\* The holder has persisted item i of tab x.
Persisted(x) ==
  guard \in Threads /\ thr[guard].pc \in Writing
    /\ \E i \in DOMAIN thr[guard].todo : thr[guard].todo[i].tab = x /\ thr[guard].todo[i].done
         /\ thr[guard].todo[i].session = db[x]

InStep ==
  Calm /\ phase = "up" /\ ~latched =>
    /\ \A x \in Tabs : db[x] = mem[x] \/ Persisted(x)
    /\ guard \in Threads /\ thr[guard].pc \in Writing =>
         \A i \in DOMAIN thr[guard].todo :
           thr[guard].todo[i].done => db[thr[guard].todo[i].tab] = thr[guard].todo[i].session

Reloaded ==
  phase = "loading" =>
    /\ \A x \in Tabs : mem[x] # Absent => db[x] = mem[x]
    /\ SrcEnded(mem["src"])

\* The source ends with a cancelled destination, which no holder then changes.
Ends ==
  phase = "up" /\ passed = 0 =>
    /\ mem["dest"].state = "Cancelled" => SrcEnded(mem["src"]) /\ guard = NoThread
    /\ db["dest"].state = "Cancelled" => SrcEnded(db["src"])

NoPairing == latched \/ \A t \in Threads : thr[t].pc # "p_call"

GivenUp ==
  \A view \in {mem, db} :
    view["dest"].state \in DeadStates => Doomed \/ (signer = "missing" /\ NoPairing)

CrossInv == Tables /\ Handlers /\ Sequential /\ InStep /\ Reloaded /\ Ends /\ GivenUp

-----------------------------------------------------------------------------
\* Sessions and lists of them.

LEMMA AbsentIsNoSession == Absent \notin Session /\ Absent.state = "absent"
<1>1. Absent.state = "absent"
  BY DEF Absent
<1>2. \A s \in Session : s.state # "absent"
  BY DEF Session
<1> QED
  BY <1>1, <1>2

LEMMA NewSession ==
  ASSUME NEW d \in 1..3
  PROVE  LET s == new_session(d) IN
         s \in Session /\ s.state = "AwaitingUser" /\ s.deadline = d /\ ~s.retained
BY DEF new_session, Session

LEMMA LatchedSession ==
  ASSUME NEW s \in Session, NEW state \in {s.state, "Completed"} \cup DeadStates
  PROVE  \E l \in Session :
           l = latch_terminal(s, state) /\ l.state = state /\ l.deadline = s.deadline /\ l.retained = s.retained
<1>1. PICK l : l = latch_terminal(s, state)
  OBVIOUS
<1>2. l \in Session /\ l.state = state /\ l.deadline = s.deadline /\ l.retained = s.retained
  BY <1>1 DEF latch_terminal, Session, DeadStates
<1> QED
  BY <1>1, <1>2

\* The other fields a handler sets.
LEMMA MarkedSession ==
  ASSUME NEW s \in Session, NEW r \in {[s EXCEPT !.paired = TRUE], [s EXCEPT !.handoff = TRUE],
                                       [s EXCEPT !.result = FALSE], [s EXCEPT !.retained = FALSE]}
  PROVE  r \in Session /\ r.state = s.state /\ r.deadline = s.deadline /\ (r.retained => s.retained)
<1>1. CASE r = [s EXCEPT !.paired = TRUE]
  BY <1>1 DEF Session
<1>2. CASE r = [s EXCEPT !.handoff = TRUE]
  BY <1>2 DEF Session
<1>3. CASE r = [s EXCEPT !.result = FALSE]
  BY <1>3 DEF Session
<1>4. CASE r = [s EXCEPT !.retained = FALSE]
  BY <1>4 DEF Session
<1> QED
  BY <1>1, <1>2, <1>3, <1>4

LEMMA CommittedSession ==
  ASSUME NEW s \in Session
  PROVE  /\ Committed(s) \in Session /\ Committed(s).state = "WalletCommitted"
         /\ Committed(s).deadline = s.deadline
         /\ Finalized(s) \in Session /\ Finalized(s).state = "Succeeded" /\ Finalized(s).deadline = 3
<1>1. /\ Committed(s) \in Session /\ Committed(s).state = "WalletCommitted"
      /\ Committed(s).deadline = s.deadline
  BY DEF Committed, Session
<1>2. Finalized(s) \in Session /\ Finalized(s).state = "Succeeded" /\ Finalized(s).deadline = 3
  <2>1. 3 \in 1..3
    OBVIOUS
  <2>2. [s EXCEPT !.deadline = 3] \in Session
    BY <2>1 DEF Session
  <2>3. PICK r \in Session : r = [s EXCEPT !.deadline = 3]
    BY <2>2
  <2>4. Finalized(s) = [r EXCEPT !.state = "Succeeded", !.retained = TRUE]
    BY <2>3 DEF Finalized, Session
  <2> QED
    BY <2>3, <2>4 DEF Session
<1> QED
  BY <1>1, <1>2

LEMMA Items ==
  ASSUME NEW q \in Seq(Item), NEW i \in DOMAIN q
  PROVE  q[i].tab \in Tabs /\ q[i].session \in Session
<1>1. q[i] \in Item
  OBVIOUS
<1> QED
  BY <1>1 DEF Item

LEMMA Replaced ==
  ASSUME NEW q \in Seq(Item), NEW i \in DOMAIN q, NEW e \in Item
  PROVE  [q EXCEPT ![i] = e] \in Seq(Item)
OBVIOUS

-----------------------------------------------------------------------------
\* The frame.

\* What handler t does to the Signer.
SignerMoves(t) ==
  \/ UNCHANGED signer
  \/ signer = "missing" /\ signer' = "paired" /\ thr[t].pc = "p_call" /\ ~latched
  \/ signer = "paired" /\ signer' = "authorized" /\ thr[t].pc = "a_call"
  \/ signer = "authorized" /\ signer' = "completed"
  \/ signer \in {"paired", "authorized"} /\ signer' \in {"cancelled", "already", "expired"}

LEMMA DoomedKept ==
  ASSUME Tables, NEW t \in Threads, SignerMoves(t), Doomed, passed' \in Nat, passed' >= passed,
         \A u \in Threads : thr'[u].pc = "a_call" => thr[u].pc = "a_call" \/ passed' = 0
  PROVE  Doomed'
BY DEF Tables, SignerMoves, Doomed

\* What a handler u that does not move may rely on.
Undisturbed(u) ==
  /\ signer # "missing" => signer' # "missing"
  /\ Doomed => Doomed'
  /\ \A x \in Tabs : (mem[x] # Absent => mem'[x] # Absent) /\ (db[x] # Absent => db'[x] # Absent)
  /\ passed \in Nat /\ passed' \in Nat /\ passed' >= passed
  /\ guard = u => guard' = u /\ (signer = "missing" => signer' = "missing")
  /\ passed' = 0 /\ SrcEnded(mem["src"]) => SrcEnded(mem'["src"])

LEMMA OkKept ==
  ASSUME NEW u \in Threads, NEW h, HandlerOk(u, h), h.pc = "idle" \/ Undisturbed(u)
  PROVE  HandlerOk(u, h)'
<1>1. CASE h.pc = "idle"
  BY <1>1 DEF HandlerOk, CallerOk, WriterOk, Holding, Expiring, Writing
<1>2. CASE Undisturbed(u)
  <2>1. ASSUME NEW x, NEW s, Kept(x, s) PROVE Kept(x, s)'
    BY <1>2, <2>1 DEF Kept, Undisturbed
  <2>2. MayEnd(u) => MayEnd(u)'
    BY <1>2 DEF MayEnd, Undisturbed
  <2>3. CallerOk(u, h)'
    <3>1. h.pc \in {"a_call", "a_write"} => mem'["dest"] # Absent /\ signer' # "missing" /\ Kept("src", h.seen["src"])'
      BY <1>2, <2>1 DEF HandlerOk, CallerOk, Undisturbed, Tabs
    <3>2. h.pc = "p_call" => mem'["dest"] # Absent
      BY <1>2 DEF HandlerOk, CallerOk, Undisturbed, Tabs
    <3>3. h.pc \in Expiring => passed' > 1 /\ mem'["dest"] # Absent
      BY <1>2 DEF HandlerOk, CallerOk, Undisturbed, Tabs
    <3>4. h.pc \in {"p_call", "f_call", "r_call", "x_call", "x_dest"} => Kept("dest", h.seen["dest"])'
      BY <2>1 DEF HandlerOk, CallerOk
    <3>5. h.pc = "x_dest" => MayEnd(u)' /\ (passed' = 0 => SrcEnded(mem["src"])')
      BY <1>2, <2>2 DEF HandlerOk, CallerOk, Undisturbed, SrcEnded
    <3>6. (h.pc \in Holding => guard' = u) /\ (h.pc = "e_end" => Doomed')
      BY <1>2 DEF HandlerOk, CallerOk, Undisturbed
    <3> QED
      BY <3>2, <3>1, <3>3, <3>4, <3>5, <3>6 DEF HandlerOk, CallerOk
  <2>4. ASSUME h.pc \in Writing PROVE WriterOk(u, h)'
    <3>1. \A i \in DOMAIN h.todo : h.todo[i].tab \in Tabs
      BY Items DEF HandlerOk
    <3>2. ASSUME NEW q, q.tab \in Tabs, Fit(u, h, q) PROVE Fit(u, h, q)'
      BY <1>2, <2>1, <2>2, <3>2 DEF Fit, Undisturbed, SrcEnded, Tabs
    <3>3. h.then = "x_dest" => guard' = u /\ MayEnd(u)' /\ Kept("dest", h.seen["dest"])'
      BY <1>2, <2>1, <2>2, <2>4 DEF HandlerOk, WriterOk, Undisturbed
    <3> QED
      BY <2>4, <3>1, <3>2, <3>3 DEF HandlerOk, WriterOk
  <2> QED
    BY <2>3, <2>4 DEF HandlerOk
<1> QED
  BY <1>1, <1>2

\* Handler t moves to state k, the others stay.
LEMMA Moves ==
  ASSUME Handlers, NEW t \in Threads, NEW k, thr' = [thr EXCEPT ![t] = k], HandlerOk(t, k)',
         \A u \in Threads \ {t} : thr[u].pc = "idle" \/ Undisturbed(u)
  PROVE  Handlers' /\ thr'[t] = k /\ \A u \in Threads : u # t => thr'[u] = thr[u]
<1>1. DOMAIN thr' = Threads /\ thr'[t] = k /\ \A u \in Threads : u # t => thr'[u] = thr[u]
  BY DEF Handlers
<1>2. ASSUME NEW u \in Threads PROVE HandlerOk(u, thr[u])'
  <2>1. PICK h : h = thr[u]
    OBVIOUS
  <2>2. CASE u = t
    BY <1>1, <2>2 DEF HandlerOk, CallerOk, WriterOk, Fit, Kept, MayEnd, Doomed
  <2>3. CASE u # t
    <3>1. HandlerOk(u, h)'
      BY <2>1, <2>3, OkKept DEF Handlers
    <3> QED
      BY <1>1, <2>1, <2>3, <3>1 DEF HandlerOk, CallerOk, WriterOk, Fit, Kept, MayEnd, Doomed
  <2> QED
    BY <2>2, <2>3
<1> QED
  BY <1>1, <1>2 DEF Handlers

-----------------------------------------------------------------------------
\* A step that leaves memory and rows alone.

\* Where the admission lock goes when handler t moves to state k.
LockMoves(t, k) ==
  \/ /\ UNCHANGED guard
     /\ thr[t].pc = "idle" /\ k.pc # "idle" => passed > 1 \/ (passed = 1 /\ signer # "missing")
  \/ /\ guard = NoThread /\ guard' = t /\ thr[t].pc = "idle"
     /\ passed = 0 => mem["dest"].state # "Cancelled"
  \/ k.pc = "idle" /\ guard' = (IF guard = t THEN NoThread ELSE guard)

\* While Calm nobody but the holder is active.
LEMMA Alone ==
  ASSUME Sequential, NEW t \in Threads, thr[t].pc # "idle", Calm
  PROVE  guard = t
BY DEF Sequential, Calm

LEMMA QuietStep ==
  ASSUME CrossInv, NEW t \in Threads, NEW k, thr' = [thr EXCEPT ![t] = k], phase = "up",
         UNCHANGED <<mem, db, phase, passed, latched>>, thr[t].pc \notin Writing \/ latched,
         SignerMoves(t), LockMoves(t, k), HandlerOk(t, k)', thr[t].pc # "idle" \/ k.pc # "idle",
         k.pc \in Writing => \A i \in DOMAIN k.todo : ~k.todo[i].done,
         k.pc = "a_call" => passed = 0,
         k.pc = "p_call" => guard = NoThread /\ mem["dest"].state = "AwaitingUser"
  PROVE  CrossInv'
<1>1. Tables /\ Handlers /\ Sequential /\ NoThread \notin Threads
  BY CrossAssumption DEF CrossInv
<1>2. thr'[t] = k /\ \A u \in Threads : u # t => thr'[u] = thr[u]
  BY <1>1 DEF Handlers
<1>3. Doomed => Doomed'
  BY <1>1, <1>2, DoomedKept DEF Tables
<1>4. signer # "missing" => signer' # "missing"
  BY DEF SignerMoves
<1>5. thr[t].pc = "p_call" => guard = t
  BY <1>1 DEF Handlers, HandlerOk, CallerOk, Holding
<1>6. ASSUME NEW u \in Threads, u # t PROVE Undisturbed(u)
  <2>1. guard = u => guard' = u /\ (signer = "missing" => signer' = "missing")
    BY <1>1, <1>5, <1>6 DEF LockMoves, SignerMoves
  <2> QED
    BY <1>1, <1>3, <1>4, <2>1 DEF Undisturbed, Tables
<1>7. Handlers'
  BY <1>1, <1>6, Moves
<1>8. Tables'
  <2>1. ASSUME NEW x \in Tabs PROVE Kept(x, mem[x])' /\ Kept(x, db[x])'
    BY <1>1, <1>4 DEF Tables, Kept
  <2>2. signer' \in {"missing", "paired", "authorized", "completed", "already", "cancelled", "expired"}
    BY <1>1 DEF Tables, SignerMoves
  <2> QED
    BY <1>1, <2>1, <2>2 DEF Tables
<1>9. Sequential'
  <2>1. guard' # NoThread => guard' \in Threads
    BY <1>1 DEF Sequential, LockMoves
  <2>2. ASSUME NEW u \in Threads, thr'[u].pc # "idle", guard' # u
        PROVE  passed' > 1 \/ (passed' = 1 /\ signer' # "missing")
    <3>1. CASE u = t
      BY <1>1, <1>2, <1>4, <2>2, <3>1 DEF LockMoves, Sequential
    <3>2. CASE u # t
      BY <1>1, <1>2, <1>4, <1>6, <2>2, <3>2 DEF Sequential, Undisturbed
    <3> QED
      BY <3>1, <3>2
  <2> QED
    BY <2>1, <2>2 DEF Sequential
<1>10. ASSUME Calm', ~latched PROVE \A x \in Tabs : db[x] = mem[x]
  <2>1. Calm
    BY <1>4, <1>10 DEF Calm
  <2>2. guard = t \/ guard = NoThread
    BY <1>1, <2>1, Alone DEF LockMoves, Calm
  <2>3. ASSUME NEW x \in Tabs PROVE ~Persisted(x)
    BY <1>1, <1>10, <2>2 DEF Persisted
  <2> QED
    BY <1>10, <2>1, <2>3 DEF CrossInv, InStep
<1>11. InStep'
  <2>1. ASSUME Calm', ~latched, guard' \in Threads, thr'[guard'].pc \in Writing, NEW i \in DOMAIN thr'[guard'].todo
        PROVE  ~thr'[guard'].todo[i].done
    <3>1. guard' = t
      <4>1. Calm
        BY <1>4, <2>1 DEF Calm
      <4>2. guard = t \/ guard = NoThread
        BY <1>1, <4>1, Alone DEF LockMoves, Calm
      <4> QED
        BY <1>1, <2>1, <4>2 DEF LockMoves
    <3> QED
      BY <1>2, <2>1, <3>1
  <2> QED
    BY <1>10, <2>1 DEF InStep
<1>12. Reloaded'
  BY DEF Reloaded
<1>13. Ends'
  BY <1>1 DEF CrossInv, Ends, LockMoves
<1>14. GivenUp'
  <2>1. ASSUME NEW view \in {mem, db}, view["dest"].state \in DeadStates
        PROVE  Doomed' \/ (signer' = "missing" /\ NoPairing')
    <3>1. Doomed \/ (signer = "missing" /\ NoPairing)
      BY <2>1 DEF CrossInv, GivenUp
    <3>2. CASE Doomed
      BY <1>3, <3>2
    <3>3. CASE signer = "missing" /\ NoPairing /\ k.pc # "p_call"
      <4>1. signer' = "missing"
        BY <3>3 DEF SignerMoves, NoPairing
      <4>2. NoPairing'
        BY <1>2, <3>3 DEF NoPairing
      <4> QED
        BY <4>1, <4>2
    <3>4. CASE signer = "missing" /\ k.pc = "p_call" /\ ~latched
      <4>1. guard = NoThread /\ mem["dest"].state = "AwaitingUser" /\ thr[t].pc # "p_call"
        BY <1>1, <1>5, <3>4
      <4>2. view = db
        BY <2>1, <4>1 DEF DeadStates
      <4>3. ~Calm
        <5>1. \A x \in Tabs : ~Persisted(x)
          BY <1>1, <4>1 DEF Persisted
        <5> QED
          BY <2>1, <3>4, <4>1, <4>2, <5>1 DEF CrossInv, InStep, Tabs, DeadStates
      <4>4. \A u \in Threads : thr[u].pc # "a_call"
        BY <1>1, <3>4 DEF Handlers, HandlerOk, CallerOk
      <4>5. Doomed
        BY <1>1, <3>4, <4>3, <4>4 DEF Doomed, Calm, Tables
      <4> QED
        BY <1>3, <4>5
    <3>5. CASE signer = "missing" /\ latched
      BY <3>5 DEF SignerMoves, NoPairing
    <3> QED
      BY <3>1, <3>2, <3>3, <3>4, <3>5
  <2> QED
    BY <2>1 DEF GivenUp
<1> QED
  BY <1>7, <1>8, <1>9, <1>11, <1>12, <1>13, <1>14 DEF CrossInv

\* The steps of a handler between its reads and its writes.
Aside == phase = "up" /\ UNCHANGED <<mem, db, phase, passed, latched>>

LEMMA Returns ==
  ASSUME CrossInv, Aside, NEW t \in Threads, Return(t), thr[t].pc \notin Writing \/ latched,
         thr[t].pc # "idle", SignerMoves(t)
  PROVE  CrossInv'
<1>1. PICK k : k = Idle
  OBVIOUS
<1>2. HandlerOk(t, k)' /\ k.pc = "idle"
  BY <1>1 DEF Idle, HandlerOk, CallerOk, Fields, Place, Writing, Holding, Expiring
<1>3. LockMoves(t, k)
  BY <1>2 DEF Return, LockMoves
<1> QED
  BY <1>1, <1>2, <1>3, QuietStep DEF Return, Aside, Writing

\* To a place where nothing is yet to be written.
LEMMA Goes ==
  ASSUME CrossInv, Aside, NEW t \in Threads, NEW pc \in Place \ (Writing \cup {"idle", "a_call", "p_call"}),
         Goto(t, pc), thr[t].pc \notin Writing, SignerMoves(t),
         thr[t].pc = "idle" => passed > 1,
         NEW k, k = [thr[t] EXCEPT !.pc = pc], CallerOk(t, k)'
  PROVE  CrossInv'
<1>1. HandlerOk(t, thr[t])
  BY DEF CrossInv, Handlers
<1>2. k.pc = pc /\ DOMAIN k = Fields /\ k.todo = thr[t].todo
  BY <1>1 DEF HandlerOk, Fields
<1>3. HandlerOk(t, k)'
  BY <1>1, <1>2 DEF HandlerOk
<1>4. LockMoves(t, k) /\ thr' = [thr EXCEPT ![t] = k]
  BY DEF Goto, LockMoves
<1> QED
  BY <1>2, <1>3, <1>4, QuietStep DEF Aside

LEMMA WritesOne ==
  ASSUME CrossInv, Aside, NEW t \in Threads, NEW x \in Tabs, NEW s \in Session, NEW pc \in {"idle", "f_read"},
         Write(t, <<Put(x, s)>>, pc), thr[t].pc \notin Writing, SignerMoves(t),
         thr[t].pc = "idle" => passed > 1 \/ (passed = 1 /\ signer # "missing"),
         Kept(x, s)', x = "src" => is_terminal(s.state) /\ mem["dest"] # Absent,
         x = "dest" /\ s.state \in DeadStates => MayEnd(t)',
         x = "dest" /\ s.state = "Cancelled" => pc = "idle" /\ (passed = 0 => SrcEnded(mem["src"]))
  PROVE  CrossInv'
<1>1. PICK q : q = <<Put(x, s)>>
  OBVIOUS
<1>2. q \in Seq(Item) /\ DOMAIN q = {1} /\ q[1].tab = x /\ q[1].session = s /\ q[1].done = FALSE
  BY <1>1 DEF Put, Item
<1>3. PICK k : k = [thr[t] EXCEPT !.pc = "w_db", !.todo = q, !.then = pc]
  OBVIOUS
<1>4. thr' = [thr EXCEPT ![t] = k]
  BY <1>1, <1>3 DEF Write
<1>5. DOMAIN k = Fields /\ k.pc = "w_db" /\ k.todo = q /\ k.then = pc
  BY <1>3 DEF CrossInv, Handlers, HandlerOk, Fields
<1>6. Fit(t, k, q[1])'
  BY <1>2, <1>5 DEF Fit, Aside, SrcEnded
<1>7. WriterOk(t, k)'
  BY <1>2, <1>5, <1>6 DEF WriterOk
<1>8. HandlerOk(t, k)'
  BY <1>2, <1>5, <1>7 DEF HandlerOk, CallerOk, Place, Writing, Holding, Expiring
<1>9. LockMoves(t, k)
  BY DEF Write, LockMoves
<1> QED
  BY <1>2, <1>4, <1>5, <1>8, <1>9, QuietStep DEF Aside

\* Both tabs: the holder writes an open destination, or ends the source.
LEMMA WritesTwo ==
  ASSUME CrossInv, Aside, NEW t \in Threads, guard = t, NEW x \in Tabs, NEW s \in Session,
         NEW y \in Tabs, NEW r \in Session, x # y, mem["dest"] # Absent,
         Write(t, <<Put(x, s), Put(y, r)>>, "idle"), thr[t].pc \notin Writing \cup {"idle"}, SignerMoves(t),
         NEW d, d = (IF x = "dest" THEN s ELSE r), NEW e, e = (IF x = "src" THEN s ELSE r),
         Kept("dest", d)', Kept("src", e)', d.state = "AwaitingUser" \/ is_terminal(e.state),
         d.state \in DeadStates => MayEnd(t)', passed = 0 => d.state # "Cancelled"
  PROVE  CrossInv'
<1>1. PICK q : q = <<Put(x, s), Put(y, r)>>
  OBVIOUS
<1>2. /\ q \in Seq(Item) /\ DOMAIN q = {1, 2} /\ q[1].tab = x /\ q[1].session = s /\ q[1].done = FALSE
      /\ q[2].tab = y /\ q[2].session = r /\ q[2].done = FALSE
  BY <1>1 DEF Put, Item
<1>3. PICK k : k = [thr[t] EXCEPT !.pc = "w_db", !.todo = q, !.then = "idle"]
  OBVIOUS
<1>4. thr' = [thr EXCEPT ![t] = k]
  BY <1>1, <1>3 DEF Write
<1>5. DOMAIN k = Fields /\ k.pc = "w_db" /\ k.todo = q /\ k.then = "idle"
  BY <1>3 DEF CrossInv, Handlers, HandlerOk, Fields
<1>6. Fit(t, k, q[1])' /\ Fit(t, k, q[2])'
  <2>1. CASE x = "dest" /\ y = "src"
    BY <1>2, <1>5, <2>1 DEF Fit, Aside
  <2>2. CASE x = "src" /\ y = "dest"
    BY <1>2, <1>5, <2>2 DEF Fit, Aside
  <2> QED
    BY <2>1, <2>2 DEF Tabs
<1>7. WriterOk(t, k)'
  BY <1>2, <1>5, <1>6 DEF WriterOk
<1>8. HandlerOk(t, k)'
  BY <1>2, <1>5, <1>7 DEF HandlerOk, CallerOk, Place, Writing, Holding, Expiring
<1>9. LockMoves(t, k)
  BY DEF Write, LockMoves
<1> QED
  BY <1>2, <1>4, <1>5, <1>8, <1>9, QuietStep DEF Aside

\* A request takes the lock.
LEMMA Enters ==
  ASSUME CrossInv, Aside, NEW t \in Threads, NEW pc \in Holding \cup {"f_read"}, Enter(t, pc), UNCHANGED signer,
         mem["dest"] # Absent, pc # "x_dest" /\ pc # "a_write",
         pc = "a_call" => passed = 0 /\ mem["src"] # Absent,
         pc = "p_call" => mem["dest"].state = "AwaitingUser",
         passed = 0 => mem["dest"].state # "Cancelled"
  PROVE  CrossInv'
<1>1. PICK k : k = [thr[t] EXCEPT !.pc = pc, !.seen = mem]
  OBVIOUS
<1>2. thr' = [thr EXCEPT ![t] = k] /\ guard = NoThread /\ guard' = t /\ thr[t].pc = "idle"
  <2>1. guard = NoThread /\ guard' = t /\ thr[t] = Idle /\ thr' = [thr EXCEPT ![t].pc = pc, ![t].seen = mem]
    BY DEF Enter
  <2>2. thr[t].pc = "idle"
    BY <2>1 DEF Idle
  <2>3. thr' = [thr EXCEPT ![t] = k]
    BY <1>1, <2>1 DEF CrossInv, Handlers
  <2> QED
    BY <2>1, <2>2, <2>3
<1>3. DOMAIN k = Fields /\ k.pc = pc /\ k.seen = mem /\ k.todo \in Seq(Item)
  BY <1>1 DEF CrossInv, Handlers, HandlerOk, Fields
<1>4. Kept("dest", mem["dest"])' /\ Kept("src", mem["src"])' /\ (mem["src"] # Absent => signer # "missing")
  BY DEF CrossInv, Tables, Kept, Aside, Tabs
<1>5. CallerOk(t, k)'
  <2>1. Kept("dest", k.seen["dest"])' /\ Kept("src", k.seen["src"])'
    BY <1>3, <1>4 DEF Aside, Kept
  <2> QED
    BY <1>2, <1>3, <1>4, <2>1 DEF CallerOk, Aside, Expiring, Holding
<1>6. HandlerOk(t, k)'
  BY <1>3, <1>5 DEF HandlerOk, Place, Writing, Holding
<1>7. LockMoves(t, k) /\ SignerMoves(t)
  BY <1>2 DEF LockMoves, SignerMoves
<1> QED
  BY <1>2, <1>3, <1>6, <1>7, QuietStep DEF Aside, Writing, Holding

-----------------------------------------------------------------------------
\* The requests.

LEMMA AtPlace == ASSUME NEW t, NEW pc, At(t, pc) PROVE phase = "up" /\ thr[t].pc = pc
BY DEF At

\* What the invariant says of an active handler and of a session in memory.
LEMMA CallerFacts ==
  ASSUME CrossInv, NEW t \in Threads
  PROVE  CallerOk(t, thr[t]) /\ DOMAIN thr[t] = Fields
BY DEF CrossInv, Handlers, HandlerOk

LEMMA InMemory ==
  ASSUME CrossInv, NEW x \in Tabs, mem[x] # Absent
  PROVE  mem[x] \in Session /\ Kept(x, mem[x])
BY DEF CrossInv, Tables, Kept

LEMMA RequestStep ==
  ASSUME CrossInv, NEW t \in Threads,
         \/ pair_cross_surface(t) \/ authorize_cross_surface(t) \/ finish_cross_surface(t)
         \/ already_registered_cross_surface(t) \/ cancel(t)
  PROVE  CrossInv'
<1>1. CASE pair_cross_surface(t)
  <2>1. Aside /\ UNCHANGED signer /\ Enter(t, "p_call")
    BY <1>1 DEF pair_cross_surface, Aside, Enter
  <2>2. mem["dest"] # Absent /\ mem["dest"].state = "AwaitingUser"
    BY <1>1 DEF pair_cross_surface, Open, Known
  <2> QED
    BY <2>1, <2>2, Enters DEF Holding
<1>2. CASE authorize_cross_surface(t)
  <2>1. Aside /\ UNCHANGED signer /\ Enter(t, "a_call")
    BY <1>2 DEF authorize_cross_surface, Aside, Enter
  <2>2. mem["src"] # Absent /\ mem["src"].state = "AwaitingUser" /\ ~(mem["src"].deadline <= passed)
    BY <1>2 DEF authorize_cross_surface, Open, Due, Known
  <2>3. mem["dest"] # Absent /\ mem["src"].deadline = 1
    BY <2>1, <2>2 DEF CrossInv, Tables, Kept, Tabs, Aside
  <2>4. passed = 0
    BY <2>2, <2>3 DEF CrossInv, Tables
  <2>5. mem["dest"].state # "Cancelled"
    BY <2>1, <2>2, <2>4 DEF CrossInv, Ends, SrcEnded, is_terminal, Aside
  <2> QED
    BY <2>1, <2>2, <2>3, <2>4, <2>5, Enters DEF Holding
<1>3. CASE finish_cross_surface(t)
  <2>1. PICK pc \in {"f_read", "f_call"} : Enter(t, pc) /\ mem["dest"].state \in {"WalletCommitted", "AwaitingUser"}
    BY <1>3 DEF finish_cross_surface, Open
  <2>2. Aside /\ UNCHANGED signer /\ mem["dest"] # Absent
    BY <1>3, <2>1 DEF finish_cross_surface, Aside, Known, Enter
  <2> QED
    BY <2>1, <2>2, Enters DEF Holding
<1>4. CASE already_registered_cross_surface(t)
  <2>1. Aside /\ UNCHANGED signer /\ Enter(t, "r_call")
    BY <1>4 DEF already_registered_cross_surface, Aside, Enter
  <2>2. mem["dest"] # Absent /\ mem["dest"].state = "AwaitingUser"
    BY <1>4 DEF already_registered_cross_surface, Open, Known
  <2> QED
    BY <2>1, <2>2, Enters DEF Holding
<1>5. CASE cancel(t)
  <2>1. Aside /\ UNCHANGED signer /\ Enter(t, "x_call")
    BY <1>5 DEF cancel, Aside, Enter
  <2>2. mem["dest"] # Absent /\ mem["dest"].state = "AwaitingUser"
    BY <1>5 DEF cancel, Known
  <2> QED
    BY <2>1, <2>2, Enters DEF Holding
<1> QED
  BY <1>1, <1>2, <1>3, <1>4, <1>5

LEMMA PrepareStep ==
  ASSUME CrossInv, NEW t \in Threads, prepare_cross_surface(t)
  PROVE  CrossInv'
<1>1. PICK q : q = <<Put("dest", new_session(2))>>
  OBVIOUS
<1>2. PICK s \in Session : s = new_session(2) /\ s.state = "AwaitingUser" /\ s.deadline = 2
  BY NewSession
<1>3. q \in Seq(Item) /\ DOMAIN q = {1} /\ q[1].tab = "dest" /\ q[1].session = s /\ q[1].done = FALSE
  BY <1>1, <1>2 DEF Put, Item, Tabs
<1>4. PICK k : k = [thr[t] EXCEPT !.pc = "w_db", !.todo = q]
  OBVIOUS
<1>5. thr[t] = Idle /\ guard = NoThread /\ guard' = t /\ mem["dest"] = Absent /\ phase = "up"
  BY DEF prepare_cross_surface, Known
<1>6. thr' = [thr EXCEPT ![t] = k]
  BY <1>1, <1>4 DEF prepare_cross_surface
<1>7. DOMAIN k = Fields /\ k.pc = "w_db" /\ k.todo = q /\ k.then = "idle" /\ thr[t].pc = "idle"
  BY <1>4, <1>5 DEF Idle, Fields
<1>8. Fit(t, k, q[1])'
  BY <1>2, <1>3 DEF Fit, Kept, DeadStates
<1>9. HandlerOk(t, k)'
  BY <1>3, <1>7, <1>8 DEF HandlerOk, CallerOk, WriterOk, Place, Writing, Holding, Expiring
<1>10. LockMoves(t, k) /\ SignerMoves(t)
  BY <1>5, <1>7, AbsentIsNoSession DEF LockMoves, SignerMoves, prepare_cross_surface
<1>11. UNCHANGED <<mem, db, phase, passed, latched>>
  BY DEF prepare_cross_surface
<1> QED
  BY <1>3, <1>5, <1>6, <1>7, <1>9, <1>10, <1>11, QuietStep DEF Writing

-----------------------------------------------------------------------------
\* The calls of the addition.

\* No later step completes a doomed operation.
LEMMA DoomedStays ==
  ASSUME CrossInv, Aside, NEW t \in Threads, NEW k, thr' = [thr EXCEPT ![t] = k], k.pc # "a_call",
         SignerMoves(t), Doomed
  PROVE  Doomed'
<1>1. Tables /\ DOMAIN thr = Threads
  BY DEF CrossInv, Handlers
<1>2. \A u \in Threads : thr'[u].pc = "a_call" => thr[u].pc = "a_call"
  BY <1>1
<1> QED
  BY <1>1, <1>2, DoomedKept DEF Aside, Tables

LEMMA DoomedWrites ==
  ASSUME CrossInv, Aside, NEW t \in Threads, NEW list, NEW pc, Write(t, list, pc), SignerMoves(t), Doomed
  PROVE  Doomed'
<1>1. PICK k : k = [thr[t] EXCEPT !.pc = "w_db", !.todo = list, !.then = pc]
  OBVIOUS
<1>2. thr' = [thr EXCEPT ![t] = k] /\ k.pc = "w_db"
  BY <1>1, CallerFacts DEF Write, Fields
<1> QED
  BY <1>2, DoomedStays

\* A dead destination in memory, once nobody is alone any more.
LEMMA DeadIsDoomed ==
  ASSUME CrossInv, mem["dest"].state \in DeadStates, passed > 1 \/ signer # "missing"
  PROVE  Doomed
<1>1. Doomed \/ signer = "missing"
  BY DEF CrossInv, GivenUp
<1>2. signer = "missing" => \A u \in Threads : thr[u].pc # "a_call"
  BY DEF CrossInv, Handlers, HandlerOk, CallerOk
<1> QED
  BY <1>1, <1>2 DEF Doomed

LEMMA PairCall ==
  ASSUME CrossInv, NEW t \in Threads, pair_at_signer(t)
  PROVE  CrossInv'
<1>1. Aside /\ thr[t].pc = "p_call" /\ thr[t].pc \notin Writing \cup {"idle"}
  BY AtPlace DEF pair_at_signer, Aside, Writing
<1>2. guard = t /\ mem["dest"] # Absent /\ thr[t].seen["dest"] # Absent /\ Kept("dest", thr[t].seen["dest"])
      /\ thr[t].seen["dest"].state = "AwaitingUser"
  BY <1>1, CallerFacts DEF CallerOk, Holding
<1>3. SignerMoves(t)
  BY <1>1 DEF pair_at_signer, SignerMoves
<1>4. CASE Return(t)
  BY <1>1, <1>3, <1>4, Returns
<1>5. CASE /\ signer' = "paired"
           /\ Write(t, <<Put("src", [new_session(1) EXCEPT !.paired = TRUE]),
                         Put("dest", [thr[t].seen["dest"] EXCEPT !.paired = TRUE])>>, "idle")
  <2>1. PICK n \in Session : n = new_session(1) /\ n.state = "AwaitingUser" /\ n.deadline = 1 /\ ~n.retained
    BY NewSession
  <2>2. PICK e : e = [n EXCEPT !.paired = TRUE]
    OBVIOUS
  <2>3. PICK c \in Session : c = thr[t].seen["dest"] /\ c.state = "AwaitingUser" /\ c.deadline > 1
    BY <1>2 DEF Kept
  <2>4. PICK d : d = [c EXCEPT !.paired = TRUE]
    OBVIOUS
  <2>5. e \in Session /\ e.deadline = 1 /\ ~e.retained
    BY <2>1, <2>2, MarkedSession
  <2>6. d \in Session /\ d.state = "AwaitingUser" /\ d.deadline > 1
    BY <2>3, <2>4, MarkedSession
  <2>7. Write(t, <<Put("src", e), Put("dest", d)>>, "idle")
    BY <1>5, <2>1, <2>2, <2>3, <2>4
  <2>8. Kept("dest", d)' /\ Kept("src", e)'
    BY <1>5, <2>5, <2>6 DEF Kept
  <2> QED
    BY <1>1, <1>2, <1>3, <2>7, <2>8, <2>5, <2>6, WritesTwo DEF DeadStates, Tabs
<1> QED
  BY <1>4, <1>5 DEF pair_at_signer

LEMMA AuthorizeCall ==
  ASSUME CrossInv, NEW t \in Threads, authorize_at_signer(t)
  PROVE  CrossInv'
<1>1. Aside /\ thr[t].pc = "a_call" /\ thr[t].pc \notin Writing \cup {"idle"}
  BY AtPlace DEF authorize_at_signer, Aside, Writing
<1>2. SignerMoves(t)
  BY <1>1 DEF authorize_at_signer, SignerMoves
<1>3. CASE Return(t)
  BY <1>1, <1>2, <1>3, Returns
<1>4. CASE signer' = "authorized" /\ Goto(t, "a_write")
  <2>1. PICK k : k = [thr[t] EXCEPT !.pc = "a_write"]
    OBVIOUS
  <2>2. k.pc = "a_write" /\ k.seen = thr[t].seen /\ CallerOk(t, thr[t])
    BY <2>1, CallerFacts DEF Fields
  <2>3. guard' = t /\ mem'["dest"] # Absent /\ k.seen["src"] # Absent /\ Kept("src", k.seen["src"])'
    BY <1>1, <1>4, <2>2 DEF CallerOk, Holding, Goto, Aside, Kept
  <2>4. CallerOk(t, k)'
    BY <1>4, <2>2, <2>3 DEF CallerOk, Expiring
  <2>5. "a_write" \in Place \ (Writing \cup {"idle", "a_call", "p_call"})
    BY DEF Place, Writing, Holding
  <2> QED
    BY <1>1, <1>2, <1>4, <2>1, <2>4, <2>5, Goes
<1> QED
  BY <1>3, <1>4 DEF authorize_at_signer

LEMMA AuthorizeWrite ==
  ASSUME CrossInv, NEW t \in Threads, authorize_write(t)
  PROVE  CrossInv'
<1>1. Aside /\ thr[t].pc = "a_write" /\ thr[t].pc \notin Writing \cup {"idle"}
  BY AtPlace DEF authorize_write, Aside, Writing
<1>2. guard = t /\ mem["dest"] # Absent /\ signer # "missing" /\ thr[t].seen["src"] # Absent /\ Kept("src", thr[t].seen["src"])
  BY <1>1, CallerFacts DEF CallerOk, Holding
<1>3. SignerMoves(t) /\ UNCHANGED signer
  BY DEF authorize_write, SignerMoves
<1>4. PICK c \in Session : c = mem["dest"] /\ c.deadline > 1
  BY <1>2, InMemory DEF Kept, Tabs
<1>5. PICK d : d = [c EXCEPT !.handoff = TRUE]
  OBVIOUS
<1>6. d \in Session /\ d.state = c.state /\ d.deadline > 1
  BY <1>4, <1>5, MarkedSession
<1>7. PICK b \in Session : b = thr[t].seen["src"] /\ b.deadline = 1 /\ ~b.retained
  BY <1>2 DEF Kept
<1>8. PICK e \in Session : e = latch_terminal(b, "Completed") /\ e.state = "Completed" /\ e.deadline = 1 /\ ~e.retained
  BY <1>7, LatchedSession
<1>9. Write(t, <<Put("dest", d), Put("src", e)>>, "idle")
  BY <1>4, <1>5, <1>7, <1>8 DEF authorize_write
<1>10. Kept("dest", d)' /\ Kept("src", e)' /\ is_terminal(e.state)
  BY <1>2, <1>3, <1>6, <1>8 DEF Kept, is_terminal
<1>11. d.state \in DeadStates => MayEnd(t)'
  <2>1. d.state \in DeadStates => Doomed
    BY <1>2, <1>4, <1>6, DeadIsDoomed
  <2> QED
    BY <1>1, <1>3, <1>9, <2>1, DoomedWrites DEF MayEnd
<1>12. passed = 0 => d.state # "Cancelled"
  BY <1>1, <1>2, <1>4, <1>6, CrossAssumption DEF CrossInv, Ends, Aside
<1> QED
  BY <1>1, <1>2, <1>3, <1>9, <1>10, <1>11, <1>12, <1>6, WritesTwo DEF Tabs

LEMMA FinishCall ==
  ASSUME CrossInv, NEW t \in Threads, finish_at_signer(t)
  PROVE  CrossInv'
<1>1. Aside /\ thr[t].pc = "f_call" /\ thr[t].pc \notin Writing \cup {"idle"}
  BY AtPlace DEF finish_at_signer, Aside, Writing
<1>2. SignerMoves(t)
  BY DEF finish_at_signer, SignerMoves
<1>3. CASE Return(t)
  BY <1>1, <1>2, <1>3, Returns
<1>4. CASE Write(t, <<Put("dest", Committed(thr[t].seen["dest"]))>>, "f_read")
  <2>1. PICK c \in Session : c = thr[t].seen["dest"] /\ c.deadline > 1
    BY <1>1, CallerFacts DEF CallerOk, Kept
  <2>2. PICK d \in Session : d = Committed(c) /\ d.state = "WalletCommitted" /\ d.deadline > 1
    BY <2>1, CommittedSession
  <2>3. Write(t, <<Put("dest", d)>>, "f_read") /\ Kept("dest", d)'
    BY <1>4, <2>1, <2>2 DEF Kept
  <2> QED
    BY <1>1, <1>2, <2>2, <2>3, WritesOne DEF DeadStates, Tabs
<1> QED
  BY <1>3, <1>4 DEF finish_at_signer

LEMMA FinalizeStep ==
  ASSUME CrossInv, NEW t \in Threads, finalize(t)
  PROVE  CrossInv'
<1>1. Aside /\ thr[t].pc = "f_read" /\ thr[t].pc \notin Writing \cup {"idle"}
  BY AtPlace DEF finalize, Aside, Writing
<1>2. SignerMoves(t)
  BY DEF finalize, SignerMoves
<1>3. CASE Return(t)
  BY <1>1, <1>2, <1>3, Returns
<1>4. CASE mem["dest"].state = "WalletCommitted" /\ Write(t, <<Put("dest", Finalized(mem["dest"]))>>, "idle")
  <2>1. PICK c \in Session : c = mem["dest"]
    BY <1>4, InMemory, AbsentIsNoSession DEF Tabs
  <2>2. PICK d \in Session : d = Finalized(c) /\ d.state = "Succeeded" /\ d.deadline = 3
    BY <2>1, CommittedSession
  <2>3. Write(t, <<Put("dest", d)>>, "idle") /\ Kept("dest", d)'
    BY <1>4, <2>1, <2>2 DEF Kept
  <2> QED
    BY <1>1, <1>2, <2>2, <2>3, WritesOne DEF DeadStates, Tabs
<1> QED
  BY <1>3, <1>4 DEF finalize

LEMMA AlreadyCall ==
  ASSUME CrossInv, NEW t \in Threads, already_at_signer(t)
  PROVE  CrossInv'
<1>1. Aside /\ thr[t].pc = "r_call" /\ thr[t].pc \notin Writing \cup {"idle"}
  BY AtPlace DEF already_at_signer, Aside, Writing
<1>2. SignerMoves(t)
  BY DEF already_at_signer, SignerMoves
<1>3. CASE Return(t)
  BY <1>1, <1>2, <1>3, Returns
<1>4. CASE /\ signer' = "already"
           /\ Write(t, <<Put("dest", latch_terminal(thr[t].seen["dest"], "AlreadyRegistered"))>>, "idle")
  <2>1. PICK c \in Session : c = thr[t].seen["dest"] /\ c.deadline > 1
    BY <1>1, CallerFacts DEF CallerOk, Kept
  <2>2. PICK d \in Session : d = latch_terminal(c, "AlreadyRegistered") /\ d.state = "AlreadyRegistered" /\ d.deadline > 1
    BY <2>1, LatchedSession DEF DeadStates
  <2>3. Write(t, <<Put("dest", d)>>, "idle") /\ Kept("dest", d)' /\ MayEnd(t)'
    BY <1>4, <2>1, <2>2 DEF Kept, MayEnd, Doomed
  <2> QED
    BY <1>1, <1>2, <2>2, <2>3, WritesOne DEF Tabs
<1> QED
  BY <1>3, <1>4 DEF already_at_signer

-----------------------------------------------------------------------------
\* The sweep and the cancel.

LEMMA SweepStep ==
  ASSUME CrossInv, NEW t \in Threads, NEW x \in Tabs, sweep(t, x)
  PROVE  CrossInv'
<1>1. Aside /\ thr[t].pc = "idle" /\ thr[t].pc \notin Writing /\ SignerMoves(t) /\ UNCHANGED signer
  BY DEF sweep, Aside, Idle, Writing, SignerMoves
<1>2. mem[x] # Absent /\ mem[x].deadline <= passed /\ (~is_terminal(mem[x].state) \/ mem[x].retained)
  BY DEF sweep, Swept, Due, Known
<1>3. PICK s \in Session : s = mem[x] /\ Kept(x, s)
  BY <1>2, InMemory
<1>4. /\ x = "dest" => passed > 1
      /\ x = "src" => passed > 1 \/ (passed = 1 /\ signer # "missing")
      /\ x = "src" => ~s.retained /\ mem["dest"] # Absent
  BY <1>1, <1>2, <1>3, AbsentIsNoSession DEF Kept, Session, CrossInv, Tables, Aside
<1>5. CASE mem[x].retained /\ Write(t, <<Put(x, [latch_terminal(mem[x], mem[x].state) EXCEPT !.retained = FALSE])>>, "idle")
  <2>1. x = "dest"
    BY <1>3, <1>4, <1>5 DEF Tabs
  <2>2. PICK l \in Session : l = latch_terminal(s, s.state) /\ l.state = s.state /\ l.deadline = s.deadline
    BY LatchedSession
  <2>3. PICK r : r = [l EXCEPT !.retained = FALSE]
    OBVIOUS
  <2>4. r \in Session /\ r.state = s.state /\ r.deadline = s.deadline
    BY <2>2, <2>3, MarkedSession
  <2>5. Write(t, <<Put(x, r)>>, "idle")
    BY <1>3, <1>5, <2>2, <2>3
  <2>6. Kept(x, r)'
    BY <1>1, <1>3, <2>1, <2>4, AbsentIsNoSession DEF Kept
  <2>7. r.state \in DeadStates => MayEnd(t)'
    <3>1. r.state \in DeadStates => Doomed
      BY <1>3, <1>4, <2>1, <2>4, DeadIsDoomed
    <3> QED
      BY <1>1, <2>5, <3>1, DoomedWrites DEF MayEnd
  <2>8. passed # 0
    BY <1>4, <2>1
  <2> QED
    BY <1>1, <1>4, <2>1, <2>4, <2>5, <2>6, <2>7, <2>8, WritesOne
<1>6. CASE x = "src" /\ Write(t, <<Put(x, latch_terminal(mem[x], "Expired"))>>, "idle")
  <2>1. PICK l \in Session : l = latch_terminal(s, "Expired") /\ l.state = "Expired" /\ l.deadline = s.deadline /\ l.retained = s.retained
    BY LatchedSession DEF DeadStates
  <2>2. Write(t, <<Put(x, l)>>, "idle") /\ is_terminal(l.state)
    BY <1>3, <1>6, <2>1 DEF is_terminal
  <2>3. Kept(x, l)'
    BY <1>1, <1>3, <1>6, <2>1, AbsentIsNoSession DEF Kept
  <2> QED
    BY <1>1, <1>4, <1>6, <2>2, <2>3, WritesOne
<1>7. ASSUME x = "dest", NEW pc \in {"f_read", "e_status"}, Goto(t, pc) PROVE CrossInv'
  <2>1. PICK k : k = [thr[t] EXCEPT !.pc = pc]
    OBVIOUS
  <2>2. k.pc = pc
    BY <2>1, CallerFacts DEF Fields
  <2>3. CallerOk(t, k)'
    BY <1>1, <1>2, <1>4, <1>7, <2>2 DEF CallerOk, Holding, Expiring, Aside
  <2>4. pc \in Place \ (Writing \cup {"idle", "a_call", "p_call"})
    BY DEF Place, Writing, Expiring
  <2> QED
    BY <1>1, <1>4, <1>7, <2>1, <2>3, <2>4, Goes
<1> QED
  BY <1>5, <1>6, <1>7 DEF sweep

\* The expiry of a destination goes on at a place of its own.
LEMMA ExpiryGoes ==
  ASSUME CrossInv, Aside, NEW t \in Threads, thr[t].pc \in Expiring, SignerMoves(t), UNCHANGED guard,
         NEW k, \/ \E pc \in {"e_adopt", "e_cancel"} : k = [thr[t] EXCEPT !.pc = pc]
                \/ /\ k = [thr[t] EXCEPT !.pc = "e_end", !.then = k.then]
                   /\ k.then \in {"Expired", "Cancelled", "AlreadyRegistered"}
                   /\ signer' \in {"missing", "cancelled", "expired", "already"},
         thr' = [thr EXCEPT ![t] = k]
  PROVE  CrossInv'
<1>1. HandlerOk(t, thr[t]) /\ DOMAIN thr = Threads
  BY DEF CrossInv, Handlers
<1>2. DOMAIN k = Fields /\ k.pc \in {"e_adopt", "e_cancel", "e_end"} /\ k.todo \in Seq(Item)
  BY <1>1 DEF HandlerOk, Fields
<1>3. passed' > 1 /\ mem'["dest"] # Absent /\ thr[t].pc # "idle" /\ thr[t].pc \notin Writing
  BY <1>1 DEF HandlerOk, CallerOk, Expiring, Writing, Aside
<1>4. signer' \in {"missing", "cancelled", "expired", "already"} => Doomed'
  <2>1. ASSUME signer' = "missing", NEW u \in Threads PROVE thr'[u].pc # "a_call"
    <3>1. signer = "missing"
      BY <2>1 DEF SignerMoves
    <3>2. thr[u].pc # "a_call"
      BY <3>1 DEF CrossInv, Handlers, HandlerOk, CallerOk
    <3> QED
      BY <1>1, <1>2, <3>2
  <2> QED
    BY <1>3, <2>1 DEF Doomed
<1>5. k.pc = "e_end" => Doomed' /\ k.then \in {"Expired", "Cancelled", "AlreadyRegistered"}
  BY <1>1, <1>4 DEF HandlerOk, Fields
<1>6. HandlerOk(t, k)'
  BY <1>2, <1>3, <1>5 DEF HandlerOk, CallerOk, Place, Writing, Holding, Expiring
<1>7. LockMoves(t, k)
  BY <1>3 DEF LockMoves
<1> QED
  BY <1>2, <1>3, <1>6, <1>7, QuietStep DEF Aside, Writing

LEMMA ExpireStatus ==
  ASSUME CrossInv, NEW t \in Threads, expire_status(t)
  PROVE  CrossInv'
<1>1. Aside /\ thr[t].pc = "e_status" /\ SignerMoves(t) /\ UNCHANGED signer
  BY AtPlace DEF expire_status, Aside, SignerMoves
<1>2. CASE Return(t)
  BY <1>1, <1>2, Returns DEF Writing
<1>3. ASSUME NEW pc \in {"e_adopt", "e_cancel"}, Goto(t, pc) PROVE CrossInv'
  <2>1. PICK k : k = [thr[t] EXCEPT !.pc = pc]
    OBVIOUS
  <2> QED
    BY <1>1, <1>3, <2>1, ExpiryGoes DEF Goto, Expiring
<1>4. CASE /\ signer \in DOMAIN EndState /\ UNCHANGED guard
           /\ thr' = [thr EXCEPT ![t].pc = "e_end", ![t].then = EndState[signer]]
  <2>1. PICK w : w = EndState[signer]
    OBVIOUS
  <2>2. PICK k : k = [thr[t] EXCEPT !.pc = "e_end", !.then = w]
    OBVIOUS
  <2>3. signer \in {"missing", "cancelled", "expired", "already"} /\ w \in {"Expired", "Cancelled", "AlreadyRegistered"}
    BY <1>4, <2>1 DEF EndState
  <2>4. thr' = [thr EXCEPT ![t] = k] /\ k.then = w
    BY <1>4, <2>1, <2>2, CallerFacts DEF Fields
  <2> QED
    BY <1>1, <1>4, <2>2, <2>3, <2>4, ExpiryGoes DEF Expiring
<1> QED
  BY <1>2, <1>3, <1>4 DEF expire_status

LEMMA ExpireCancel ==
  ASSUME CrossInv, NEW t \in Threads, expire_cancel(t)
  PROVE  CrossInv'
<1>1. Aside /\ thr[t].pc = "e_cancel" /\ SignerMoves(t)
  BY AtPlace DEF expire_cancel, Aside, SignerMoves, SignerCancels
<1>2. CASE Return(t)
  BY <1>1, <1>2, Returns DEF Writing
<1>3. CASE /\ SignerCancels /\ UNCHANGED guard
           /\ thr' = [thr EXCEPT ![t].pc = "e_end", ![t].then = "Expired"]
  <2>1. PICK k : k = [thr[t] EXCEPT !.pc = "e_end", !.then = "Expired"]
    OBVIOUS
  <2>2. signer' \in {"missing", "cancelled", "expired", "already"}
    BY <1>3 DEF SignerCancels, CrossInv, Tables
  <2>3. thr' = [thr EXCEPT ![t] = k] /\ k.then = "Expired"
    BY <1>3, <2>1, CallerFacts DEF Fields
  <2> QED
    BY <1>1, <1>3, <2>1, <2>2, <2>3, ExpiryGoes DEF Expiring
<1> QED
  BY <1>2, <1>3 DEF expire_cancel

LEMMA ExpireWrite ==
  ASSUME CrossInv, NEW t \in Threads, expire_write(t)
  PROVE  CrossInv'
<1>1. Aside /\ thr[t].pc \in {"e_adopt", "e_end"} /\ SignerMoves(t) /\ UNCHANGED signer
  BY AtPlace DEF expire_write, Aside, SignerMoves
<1>2. passed > 1 /\ mem["dest"] # Absent /\ thr[t].pc \notin Writing /\ thr[t].pc # "idle"
  BY <1>1, CallerFacts DEF CallerOk, Expiring, Writing
<1>3. PICK c \in Session : c = mem["dest"] /\ c.deadline > 1
  BY <1>2, InMemory DEF Kept, Tabs
<1>4. CASE Write(t, <<Put("dest", Committed(mem["dest"]))>>, "f_read")
  <2>1. PICK d \in Session : d = Committed(c) /\ d.state = "WalletCommitted" /\ d.deadline > 1
    BY <1>3, CommittedSession
  <2>2. Write(t, <<Put("dest", d)>>, "f_read") /\ Kept("dest", d)'
    BY <1>3, <1>4, <2>1 DEF Kept
  <2> QED
    BY <1>1, <1>2, <2>1, <2>2, WritesOne DEF DeadStates, Tabs
<1>5. CASE /\ At(t, "e_end")
           /\ Write(t, <<Put("dest", [latch_terminal(mem["dest"], thr[t].then) EXCEPT !.result = FALSE])>>, "idle")
  <2>1. Doomed /\ thr[t].then \in DeadStates
    BY <1>5, AtPlace, CallerFacts DEF CallerOk, DeadStates
  <2>2. PICK l \in Session : l = latch_terminal(c, thr[t].then) /\ l.deadline = c.deadline
    BY <2>1, LatchedSession
  <2>3. PICK r : r = [l EXCEPT !.result = FALSE]
    OBVIOUS
  <2>4. r \in Session /\ r.deadline > 1
    BY <1>3, <2>2, <2>3, MarkedSession
  <2>5. Write(t, <<Put("dest", r)>>, "idle") /\ Kept("dest", r)'
    BY <1>3, <1>5, <2>2, <2>3, <2>4 DEF Kept
  <2>6. MayEnd(t)' /\ passed # 0
    BY <1>1, <1>2, <2>1, <2>5, DoomedWrites DEF MayEnd
  <2> QED
    BY <1>1, <1>2, <2>4, <2>5, <2>6, WritesOne DEF Tabs
<1> QED
  BY <1>4, <1>5 DEF expire_write

LEMMA CancelCall ==
  ASSUME CrossInv, NEW t \in Threads, cancel_at_signer(t)
  PROVE  CrossInv'
<1>1. Aside /\ thr[t].pc = "x_call" /\ SignerMoves(t) /\ thr[t].pc \notin Writing
  BY AtPlace DEF cancel_at_signer, Aside, SignerMoves, SignerCancels, Writing
<1>2. guard = t /\ thr[t].seen["dest"] # Absent /\ Kept("dest", thr[t].seen["dest"])
  BY <1>1, CallerFacts DEF CallerOk, Holding
<1>3. CASE Return(t)
  BY <1>1, <1>3, Returns
<1>4. ASSUME SignerCancels, UNCHANGED guard PROVE MayEnd(t)' /\ Kept("dest", thr[t].seen["dest"])
  BY <1>2, <1>4 DEF SignerCancels, MayEnd, Doomed, CrossInv, Tables
<1>5. CASE SignerCancels /\ SrcEnded(mem["src"]) /\ Goto(t, "x_dest")
  <2>1. PICK k : k = [thr[t] EXCEPT !.pc = "x_dest"]
    OBVIOUS
  <2>2. k.pc = "x_dest" /\ k.seen = thr[t].seen
    BY <2>1, CallerFacts DEF Fields
  <2>3. Kept("dest", k.seen["dest"])' /\ guard' = t /\ MayEnd(t)' /\ SrcEnded(mem["src"])'
    BY <1>1, <1>2, <1>4, <1>5, <2>2 DEF Goto, Kept, SrcEnded, Aside
  <2>4. CallerOk(t, k)'
    BY <1>2, <2>2, <2>3 DEF CallerOk, Expiring
  <2>5. "x_dest" \in Place \ (Writing \cup {"idle", "a_call", "p_call"})
    BY DEF Place, Writing, Holding
  <2> QED
    BY <1>1, <1>5, <2>1, <2>4, <2>5, Goes
<1>6. CASE /\ SignerCancels /\ mem["src"] # Absent
           /\ Write(t, <<Put("src", latch_terminal(mem["src"], "Cancelled"))>>, "x_dest")
  <2>1. PICK c \in Session : c = mem["src"] /\ c.deadline = 1 /\ ~c.retained /\ signer # "missing"
    BY <1>6, InMemory DEF Kept, Tabs
  <2>2. PICK l \in Session : l = latch_terminal(c, "Cancelled") /\ l.state = "Cancelled" /\ l.deadline = 1 /\ ~l.retained
    BY <2>1, LatchedSession DEF DeadStates
  <2>3. PICK q : q = <<Put("src", l)>>
    OBVIOUS
  <2>4. q \in Seq(Item) /\ DOMAIN q = {1} /\ q[1].tab = "src" /\ q[1].session = l /\ q[1].done = FALSE
    BY <2>3 DEF Put, Item, Tabs
  <2>5. PICK k : k = [thr[t] EXCEPT !.pc = "w_db", !.todo = q, !.then = "x_dest"]
    OBVIOUS
  <2>6. thr' = [thr EXCEPT ![t] = k] /\ UNCHANGED guard
    BY <1>6, <2>1, <2>2, <2>3, <2>5 DEF Write
  <2>7. DOMAIN k = Fields /\ k.pc = "w_db" /\ k.todo = q /\ k.then = "x_dest" /\ k.seen = thr[t].seen
    BY <2>5, CallerFacts DEF Fields
  <2>8. mem'["dest"] # Absent /\ signer' # "missing" /\ is_terminal(l.state)
    BY <1>1, <1>6, <2>1, <2>2 DEF CrossInv, Tables, Aside, SignerMoves, is_terminal
  <2>9. Fit(t, k, q[1])'
    BY <2>2, <2>4, <2>8 DEF Fit, Kept
  <2>10. Kept("dest", k.seen["dest"])' /\ k.seen["dest"] # Absent /\ guard' = t /\ MayEnd(t)'
    BY <1>2, <1>4, <1>6, <2>6, <2>7 DEF Kept
  <2>11. WriterOk(t, k)'
    BY <2>2, <2>4, <2>7, <2>8, <2>9, <2>10 DEF WriterOk
  <2>12. HandlerOk(t, k)'
    BY <2>4, <2>7, <2>11 DEF HandlerOk, CallerOk, Place, Writing, Holding, Expiring
  <2>13. LockMoves(t, k)
    BY <1>1, <2>6 DEF LockMoves
  <2> QED
    BY <1>1, <2>4, <2>6, <2>7, <2>12, <2>13, QuietStep DEF Aside
<1> QED
  BY <1>3, <1>5, <1>6 DEF cancel_at_signer, Known, SrcEnded

LEMMA CancelWrite ==
  ASSUME CrossInv, NEW t \in Threads, cancel_write(t)
  PROVE  CrossInv'
<1>1. Aside /\ thr[t].pc = "x_dest" /\ SignerMoves(t) /\ UNCHANGED signer /\ thr[t].pc \notin Writing
  BY AtPlace DEF cancel_write, Aside, SignerMoves, Writing
<1>2. PICK c \in Session : c = thr[t].seen["dest"] /\ c.deadline > 1
  BY <1>1, CallerFacts DEF CallerOk, Kept
<1>3. PICK d \in Session : d = latch_terminal(c, "Cancelled") /\ d.state = "Cancelled" /\ d.deadline > 1
  <2>1. PICK d \in Session : d = latch_terminal(c, "Cancelled") /\ d.state = "Cancelled" /\ d.deadline = c.deadline
    BY LatchedSession DEF DeadStates
  <2> QED
    BY <1>2, <2>1
<1>4. Write(t, <<Put("dest", d)>>, "idle") /\ Kept("dest", d)'
  BY <1>2, <1>3 DEF cancel_write, Kept
<1>5. MayEnd(t)'
  <2>1. MayEnd(t) /\ UNCHANGED guard
    BY <1>1, <1>4, CallerFacts DEF CallerOk, Write
  <2> QED
    BY <1>1, <1>4, <2>1, DoomedWrites DEF MayEnd
<1>6. passed = 0 => SrcEnded(mem["src"])
  BY <1>1, CallerFacts DEF CallerOk
<1> QED
  BY <1>1, <1>3, <1>4, <1>5, <1>6, WritesOne DEF Tabs

-----------------------------------------------------------------------------
\* Persisting.

\* Nobody pairs while another handler t holds the lock or leaves it.
LEMMA HolderPairs ==
  ASSUME Handlers, NEW t \in Threads, guard = t, NEW k, thr' = [thr EXCEPT ![t] = k], k.pc # "p_call"
  PROVE  \A u \in Threads : thr'[u].pc # "p_call"
<1>1. DOMAIN thr = Threads
  BY DEF Handlers
<1>2. ASSUME NEW u \in Threads, u # t PROVE thr[u].pc # "p_call"
  BY <1>2 DEF Handlers, HandlerOk, CallerOk, Holding
<1> QED
  BY <1>1, <1>2

\* Handler t persists item i of its list, or fails to.
LEMMA RowStep ==
  ASSUME CrossInv, phase = "up", ~latched, NEW t \in Threads, thr[t].pc = "w_db",
         NEW i \in DOMAIN thr[t].todo, NEW q, q = thr[t].todo[i], ~q.done,
         db' \in {db, [db EXCEPT ![q.tab] = q.session]},
         NEW k, thr' = [thr EXCEPT ![t] = k], k.pc \in Writing \cup {"idle"}, HandlerOk(t, k)',
         guard' = IF k.pc = "idle" /\ guard = t THEN NoThread ELSE guard,
         UNCHANGED <<mem, signer, passed, phase>>,
         k.pc = "idle" => latched', InStep'
  PROVE  CrossInv'
<1>1. Tables /\ Handlers /\ Sequential /\ NoThread \notin Threads /\ DOMAIN thr = Threads
  BY CrossAssumption DEF CrossInv, Handlers
<1>2. thr'[t] = k /\ \A u \in Threads : u # t => thr'[u] = thr[u]
  BY <1>1
<1>3. PICK x \in Tabs, s \in Session : x = q.tab /\ s = q.session
  BY <1>1, Items DEF Handlers, HandlerOk
<1>4. HandlerOk(t, thr[t]) /\ WriterOk(t, thr[t]) /\ Fit(t, thr[t], q)
  BY <1>1 DEF Handlers, HandlerOk, WriterOk, Writing
<1>5. Kept(x, s) /\ s # Absent /\ (x = "src" => mem["dest"] # Absent)
  BY <1>3, <1>4, AbsentIsNoSession DEF Fit
<1>6. DOMAIN db' = Tabs /\ (\A y \in Tabs : db'[y] = db[y] \/ (y = x /\ db'[y] = s))
  BY <1>1, <1>3 DEF Tables
<1>7. Doomed => Doomed'
  <2>1. SignerMoves(t) /\ \A u \in Threads : thr'[u].pc = "a_call" => thr[u].pc = "a_call"
    BY <1>2 DEF SignerMoves, Writing
  <2> QED
    BY <1>1, <2>1, DoomedKept DEF Tables
<1>8. ASSUME NEW u \in Threads, u # t PROVE Undisturbed(u)
  BY <1>1, <1>5, <1>6, <1>7, <1>8 DEF Undisturbed, Tables
<1>9. Handlers'
  BY <1>1, <1>8, Moves
<1>10. Tables'
  <2>1. ASSUME NEW y \in Tabs
        PROVE  Kept(y, mem[y])' /\ Kept(y, db[y])' /\ (mem'[y] # Absent => db'[y] # Absent)
    BY <1>1, <1>5, <1>6 DEF Tables, Kept
  <2>2. db'["src"] # Absent => db'["dest"] # Absent
    BY <1>1, <1>5, <1>6 DEF Tables, Tabs
  <2>3. mem' = mem /\ signer' = signer /\ passed' = passed /\ phase' = phase
    OBVIOUS
  <2> QED
    BY <1>1, <1>6, <2>1, <2>2, <2>3 DEF Tables
<1>11. Sequential'
  <2>1. ASSUME NEW u \in Threads, thr'[u].pc # "idle", guard' # u
        PROVE  passed' > 1 \/ (passed' = 1 /\ signer' # "missing")
    <3>1. CASE u = t
      BY <1>1, <1>2, <2>1, <3>1 DEF Sequential
    <3>2. CASE u # t
      BY <1>1, <1>2, <2>1, <3>2 DEF Sequential
    <3> QED
      BY <3>1, <3>2
  <2> QED
    BY <1>1, <2>1 DEF Sequential
<1>12. Reloaded'
  BY DEF Reloaded
<1>13. ASSUME passed = 0 PROVE guard = t /\ mem["dest"].state # "Cancelled"
  <2>1. guard = t
    BY <1>1, <1>13, Alone DEF Calm
  <2> QED
    BY <1>1, <1>13, <2>1 DEF CrossInv, Ends
<1>14. ASSUME passed = 0, NEW y \in Tabs
       PROVE  \/ db[y] = mem[y]
              \/ \E j \in DOMAIN thr[t].todo : thr[t].todo[j].tab = y /\ thr[t].todo[j].session = db[y]
  BY <1>13, <1>14 DEF CrossInv, InStep, Calm, Persisted
<1>15. Ends'
  <2>1. ASSUME passed = 0, db'["dest"].state = "Cancelled" PROVE SrcEnded(db'["src"])
    <3>1. CASE db' = db
      BY <2>1, <3>1 DEF CrossInv, Ends
    <3>2. CASE db' # db /\ x = "dest"
      <4>1. db'["dest"] = s /\ db'["src"] = db["src"]
        BY <1>1, <1>3, <3>2 DEF Tables, Tabs
      <4>2. SrcEnded(mem["src"]) /\ \A j \in DOMAIN thr[t].todo : thr[t].todo[j].tab # "src"
        BY <1>3, <1>4, <2>1, <3>2, <4>1 DEF Fit
      <4>3. db["src"] = mem["src"]
        BY <1>14, <2>1, <4>2 DEF Tabs
      <4> QED
        BY <4>1, <4>2, <4>3
    <3>3. CASE db' # db /\ x = "src"
      <4>1. db'["src"] = s /\ db'["dest"] = db["dest"]
        BY <1>1, <1>3, <3>3 DEF Tables, Tabs
      <4>2. PICK j \in DOMAIN thr[t].todo : thr[t].todo[j].tab = "dest" /\ thr[t].todo[j].session = db["dest"]
        BY <1>13, <1>14, <2>1, <4>1 DEF Tabs
      <4>3. \A m \in DOMAIN thr[t].todo : thr[t].todo[m].tab = "dest" => m = j
        BY <1>4, <4>2 DEF WriterOk
      <4>4. is_terminal(s.state)
        BY <1>3, <1>4, <2>1, <3>3, <4>1, <4>2, <4>3 DEF Fit
      <4> QED
        BY <4>1, <4>4 DEF SrcEnded
    <3> QED
      BY <3>1, <3>2, <3>3 DEF Tabs
  <2> QED
    BY <1>13, <2>1 DEF Ends, SrcEnded
<1>16. GivenUp'
  <2>1. ASSUME mem["dest"].state \in DeadStates \/ db["dest"].state \in DeadStates
        PROVE  Doomed' \/ (signer' = "missing" /\ NoPairing')
    <3>1. NoPairing => NoPairing'
      BY <1>2 DEF NoPairing, Writing
    <3> QED
      BY <1>7, <2>1, <3>1 DEF CrossInv, GivenUp
  <2>2. ASSUME x = "dest", s.state \in DeadStates
        PROVE  Doomed' \/ (signer' = "missing" /\ NoPairing')
    <3>1. Doomed \/ (signer = "missing" /\ guard = t)
      BY <1>3, <1>4, <2>2 DEF Fit, MayEnd
    <3>2. guard = t => NoPairing'
      BY <1>1, HolderPairs DEF NoPairing, Writing
    <3> QED
      BY <1>7, <3>1, <3>2
  <2>3. db'["dest"] = db["dest"] \/ (x = "dest" /\ db'["dest"] = s)
    BY <1>6 DEF Tabs
  <2> QED
    BY <2>1, <2>2, <2>3 DEF GivenUp
<1> QED
  BY <1>9, <1>10, <1>11, <1>12, <1>15, <1>16 DEF CrossInv

\* The handler goes on with item i marked.
LEMMA ItemPersisted ==
  ASSUME CrossInv, phase = "up", ~latched, NEW t \in Threads, thr[t].pc = "w_db",
         NEW i \in DOMAIN thr[t].todo, ~thr[t].todo[i].done, \A j \in 1..(i - 1) : thr[t].todo[j].done,
         db' = [db EXCEPT ![thr[t].todo[i].tab] = thr[t].todo[i].session],
         thr' = [thr EXCEPT ![t].todo[i].done = TRUE,
                            ![t].pc = IF i = Len(thr[t].todo) THEN "w_mem" ELSE "w_db"],
         UNCHANGED <<guard, latched, mem, signer, passed, phase>>
  PROVE  CrossInv'
<1>1. Tables /\ Handlers /\ Sequential /\ NoThread \notin Threads /\ DOMAIN thr = Threads
  BY CrossAssumption DEF CrossInv, Handlers
<1>2. PICK h : h = thr[t]
  OBVIOUS
<1>3. HandlerOk(t, h) /\ WriterOk(t, h)
  BY <1>1, <1>2 DEF Handlers, HandlerOk, Writing
<1>4. PICK list : list = [h.todo EXCEPT ![i].done = TRUE]
  OBVIOUS
<1>5. /\ h.todo \in Seq(Item) /\ list \in Seq(Item) /\ DOMAIN list = DOMAIN h.todo /\ DOMAIN h.todo = 1..Len(h.todo)
      /\ list[i].tab = h.todo[i].tab /\ list[i].session = h.todo[i].session /\ list[i].done
      /\ \A j \in DOMAIN h.todo : j # i => list[j] = h.todo[j]
  <2>1. PICK q \in Seq(Item) : q = h.todo
    BY <1>3 DEF HandlerOk
  <2>2. i \in DOMAIN q /\ list = [q EXCEPT ![i].done = TRUE]
    BY <1>2, <1>4, <2>1
  <2>3. /\ q[i] \in Item /\ list[i] = [q[i] EXCEPT !.done = TRUE]
        /\ DOMAIN list = DOMAIN q /\ DOMAIN q = 1..Len(q)
    BY <2>2
  <2>4. list[i] \in Item /\ list[i].tab = q[i].tab /\ list[i].session = q[i].session /\ list[i].done
    BY <2>3 DEF Item
  <2>5. \A j \in DOMAIN q : j # i => list[j] = q[j]
    BY <2>2
  <2>6. list \in Seq(Item)
    <3>1. PICK e \in Item : e = [q[i] EXCEPT !.done = TRUE]
      BY <2>3, <2>4
    <3>2. list = [q EXCEPT ![i] = e]
      BY <2>2, <3>1
    <3>3. [q EXCEPT ![i] = e] \in Seq(Item)
      BY <2>2, Replaced
    <3> QED
      BY <3>2, <3>3
  <2> QED
    BY <2>1, <2>3, <2>4, <2>5, <2>6
<1>6. PICK k : k = [h EXCEPT !.todo = list, !.pc = IF i = Len(h.todo) THEN "w_mem" ELSE "w_db"]
  OBVIOUS
<1>7. thr' = [thr EXCEPT ![t] = k]
  BY <1>1, <1>2, <1>4, <1>6
<1>8. /\ DOMAIN k = Fields /\ k.todo = list /\ k.then = h.then /\ k.seen = h.seen
      /\ k.pc = IF i = Len(h.todo) THEN "w_mem" ELSE "w_db"
  BY <1>3, <1>6 DEF HandlerOk, Fields
<1>9. PICK x \in Tabs, s \in Session : x = h.todo[i].tab /\ s = h.todo[i].session
  BY <1>2, <1>5, Items
<1>10. DOMAIN db' = Tabs /\ db'[x] = s /\ \A y \in Tabs : y # x => db'[y] = db[y]
  BY <1>1, <1>2, <1>9 DEF Tables
<1>11. \A j \in DOMAIN h.todo : list[j].tab = h.todo[j].tab /\ list[j].session = h.todo[j].session
  BY <1>5
<1>12. /\ MayEnd(t) => MayEnd(t)'
       /\ \A y, e : Kept(y, e) => Kept(y, e)'
  <2>1. \A u \in Threads : thr'[u].pc = "a_call" => thr[u].pc = "a_call"
    BY <1>1, <1>7, <1>8
  <2>2. SignerMoves(t)
    BY DEF SignerMoves
  <2>3. Doomed => Doomed'
    BY <1>1, <2>1, <2>2, DoomedKept DEF Tables
  <2> QED
    BY <2>3 DEF MayEnd, Kept
<1>13. ASSUME NEW j \in DOMAIN list PROVE Fit(t, k, list[j])'
  <2>1. Fit(t, h, h.todo[j])
    BY <1>3, <1>5 DEF WriterOk
  <2>2. list[j].done => db'[list[j].tab] # Absent
    <3>1. CASE j = i
      BY <1>9, <1>10, <1>11, <3>1, AbsentIsNoSession, <1>5
    <3>2. CASE j # i
      <4>1. h.todo[j].tab \in Tabs
        BY <1>5, Items
      <4> QED
        BY <1>5, <1>9, <1>10, <2>1, <3>2, <4>1, AbsentIsNoSession DEF Fit
    <3> QED
      BY <3>1, <3>2
  <2>3. Kept(list[j].tab, list[j].session)' /\ (list[j].tab = "src" => mem'["dest"] # Absent)
    BY <1>5, <1>11, <1>12, <2>1 DEF Fit
  <2>4. list[j].tab = "dest" /\ list[j].session.state \in DeadStates => MayEnd(t)'
    BY <1>5, <1>11, <1>12, <2>1 DEF Fit
  <2>5. list[j].tab = "dest" /\ list[j].session.state = "Cancelled" =>
          /\ k.then = "idle"
          /\ passed' = 0 => SrcEnded(mem["src"])' /\ \A m \in DOMAIN k.todo : k.todo[m].tab # "src"
    BY <1>5, <1>8, <1>11, <2>1 DEF Fit, SrcEnded
  <2>6. list[j].tab = "src" /\ ~is_terminal(list[j].session.state) =>
          \E m \in DOMAIN k.todo : k.todo[m].tab = "dest" /\ k.todo[m].session.state = "AwaitingUser"
    BY <1>5, <1>8, <1>11, <2>1 DEF Fit
  <2> QED
    BY <2>2, <2>3, <2>4, <2>5, <2>6 DEF Fit
<1>14. WriterOk(t, k)'
  <2>1. k.then = "x_dest" =>
          /\ guard' = t /\ MayEnd(t)' /\ k.seen["dest"] # Absent /\ Kept("dest", k.seen["dest"])'
          /\ \E j \in DOMAIN k.todo : k.todo[j].tab = "src" /\ is_terminal(k.todo[j].session.state)
    BY <1>3, <1>5, <1>8, <1>11, <1>12 DEF WriterOk
  <2>2. \A j, m \in DOMAIN k.todo : k.todo[j].tab = k.todo[m].tab => j = m
    BY <1>3, <1>5, <1>8, <1>11 DEF WriterOk
  <2>3. ASSUME k.pc = "w_mem", NEW j \in DOMAIN k.todo PROVE k.todo[j].done
    <3>1. i = Len(h.todo) /\ j \in 1..Len(h.todo) /\ i \in 1..Len(h.todo)
      BY <1>2, <1>5, <1>8, <2>3
    <3>2. j = i \/ j \in 1..(i - 1)
      BY <1>5, <3>1
    <3> QED
      BY <1>2, <1>5, <1>8, <2>3, <3>2
  <2> QED
    BY <1>3, <1>8, <1>13, <2>1, <2>2, <2>3 DEF WriterOk
<1>15. HandlerOk(t, k)'
  BY <1>5, <1>8, <1>14 DEF HandlerOk, CallerOk, Place, Writing, Holding, Expiring
<1>16. InStep'
  <2> SUFFICES ASSUME Calm
               PROVE  /\ \A y \in Tabs : db'[y] = mem'[y] \/ Persisted(y)'
                      /\ \A j \in DOMAIN thr'[t].todo :
                           thr'[t].todo[j].done => db'[thr'[t].todo[j].tab] = thr'[t].todo[j].session
    <3>1. Calm => guard' = t
      BY <1>1, Alone
    <3> QED
      BY <3>1 DEF InStep, Calm
  <2>1. guard = t /\ thr'[t] = k
    BY <1>1, <1>7, Alone
  <2>2. ASSUME NEW j \in DOMAIN h.todo, list[j].done PROVE db'[list[j].tab] = list[j].session
    <3>1. CASE j = i
      BY <1>5, <1>9, <1>10, <3>1
    <3>2. CASE j # i
      <4>1. h.todo[j].tab # x /\ h.todo[j].tab \in Tabs
        BY <1>2, <1>3, <1>5, <1>9, <3>2, Items DEF WriterOk
      <4>2. db[h.todo[j].tab] = h.todo[j].session
        BY <1>2, <1>5, <2>1, <2>2, <3>2 DEF CrossInv, InStep, Writing
      <4> QED
        BY <1>5, <1>10, <3>2, <4>1, <4>2
    <3> QED
      BY <3>1, <3>2
  <2>3. ASSUME NEW y \in Tabs PROVE db'[y] = mem'[y] \/ Persisted(y)'
    <3>1. k.pc \in Writing /\ guard' = t /\ thr'[guard'] = k
      BY <1>8, <2>1 DEF Writing
    <3>2. CASE y = x
      <4>1. i \in DOMAIN k.todo /\ k.todo[i].tab = y /\ k.todo[i].done /\ k.todo[i].session = db'[y]
        BY <1>2, <1>5, <1>8, <1>9, <1>10, <3>2
      <4> QED
        BY <3>1, <4>1 DEF Persisted
    <3>3. CASE y # x /\ db[y] # mem[y]
      <4>1. PICK j \in DOMAIN h.todo : h.todo[j].tab = y /\ h.todo[j].done /\ h.todo[j].session = db[y]
        BY <1>2, <2>1, <3>3 DEF CrossInv, InStep, Persisted
      <4>2. j # i /\ list[j] = h.todo[j] /\ db'[y] = db[y]
        BY <1>5, <1>9, <1>10, <3>3, <4>1
      <4> QED
        BY <1>5, <1>8, <3>1, <4>1, <4>2 DEF Persisted
    <3>4. CASE y # x /\ db[y] = mem[y]
      BY <1>10, <3>4
    <3> QED
      BY <3>2, <3>3, <3>4
  <2> QED
    BY <1>5, <1>8, <2>1, <2>2, <2>3
<1>17. k.pc \in Writing
  BY <1>8 DEF Writing
<1>18. guard' = IF k.pc = "idle" /\ guard = t THEN NoThread ELSE guard
  BY <1>17 DEF Writing
<1> QED
  BY <1>7, <1>15, <1>16, <1>17, <1>18, RowStep DEF Writing

LEMMA PersistStep ==
  ASSUME CrossInv, NEW t \in Threads, persist_session(t)
  PROVE  CrossInv'
<1>1. phase = "up" /\ thr[t].pc = "w_db" /\ UNCHANGED <<mem, signer, adopted, passed, phase>>
  BY AtPlace DEF persist_session
<1>2. PICK i \in DOMAIN thr[t].todo :
        /\ ~thr[t].todo[i].done /\ \A j \in 1..(i - 1) : thr[t].todo[j].done
        /\ LET row == [db EXCEPT ![thr[t].todo[i].tab] = thr[t].todo[i].session] IN
           \/ /\ ~latched
              /\ db' = row
              /\ thr' = [thr EXCEPT ![t].todo[i].done = TRUE,
                                    ![t].pc = IF i = Len(thr[t].todo) THEN "w_mem" ELSE "w_db"]
              /\ UNCHANGED <<guard, latched, left>>
           \/ ~latched /\ latched' = TRUE /\ db' \in {db, row} /\ Return(t)
           \/ latched /\ Return(t) /\ UNCHANGED <<db, latched, left>>
  BY DEF persist_session
<1>3. CASE latched /\ Return(t) /\ UNCHANGED <<db, latched, left>>
  BY <1>1, <1>3, Returns DEF Aside, SignerMoves
<1>4. CASE /\ ~latched /\ latched' = TRUE /\ Return(t)
           /\ db' \in {db, [db EXCEPT ![thr[t].todo[i].tab] = thr[t].todo[i].session]}
  <2>1. PICK k : k = Idle
    OBVIOUS
  <2>2. HandlerOk(t, k)' /\ k.pc = "idle"
    BY <2>1 DEF Idle, HandlerOk, CallerOk, Fields, Place, Writing, Holding, Expiring
  <2>3. thr' = [thr EXCEPT ![t] = k] /\ guard' = IF k.pc = "idle" /\ guard = t THEN NoThread ELSE guard
    BY <1>4, <2>1, <2>2 DEF Return
  <2>4. InStep' /\ latched'
    BY <1>4 DEF InStep
  <2>5. PICK q : q = thr[t].todo[i]
    OBVIOUS
  <2> QED
    BY <1>1, <1>2, <1>4, <2>2, <2>3, <2>4, <2>5, RowStep
<1>5. CASE /\ ~latched
           /\ db' = [db EXCEPT ![thr[t].todo[i].tab] = thr[t].todo[i].session]
           /\ thr' = [thr EXCEPT ![t].todo[i].done = TRUE,
                                 ![t].pc = IF i = Len(thr[t].todo) THEN "w_mem" ELSE "w_db"]
           /\ UNCHANGED <<guard, latched, left>>
  BY <1>1, <1>2, <1>5, ItemPersisted
<1> QED
  BY <1>2, <1>3, <1>4, <1>5

-----------------------------------------------------------------------------
\* Inserting.

LEMMA InsertStep ==
  ASSUME CrossInv, NEW t \in Threads, insert(t)
  PROVE  CrossInv'
<1>1. phase = "up" /\ thr[t].pc = "w_mem" /\ UNCHANGED <<db, signer, passed, phase, latched>>
  BY AtPlace DEF insert
<1>2. Tables /\ Handlers /\ Sequential /\ NoThread \notin Threads /\ DOMAIN thr = Threads
  BY CrossAssumption DEF CrossInv, Handlers
<1>3. PICK h : h = thr[t]
  OBVIOUS
<1>4. HandlerOk(t, h) /\ WriterOk(t, h) /\ h.todo \in Seq(Item)
  BY <1>1, <1>2, <1>3 DEF Handlers, HandlerOk, Writing
<1>5. PICK k : k = IF h.then = "idle" THEN Idle ELSE [h EXCEPT !.pc = h.then]
  OBVIOUS
<1>6. thr' = [thr EXCEPT ![t] = k]
  BY <1>3, <1>5 DEF insert, Return, Goto
<1>7. /\ DOMAIN k = Fields /\ k.pc = h.then /\ k.todo \in Seq(Item) /\ (k.pc # "idle" => k.seen = h.seen)
      /\ k.pc \in {"idle", "f_read", "x_dest"}
  <2>1. CASE h.then = "idle"
    BY <1>5, <2>1 DEF Idle, Fields
  <2>2. CASE h.then # "idle"
    BY <1>4, <1>5, <2>2 DEF HandlerOk, WriterOk, Fields
  <2> QED
    BY <2>1, <2>2
<1>8. guard' = IF k.pc = "idle" /\ guard = t THEN NoThread ELSE guard
  BY <1>3, <1>7 DEF insert, Return, Goto
<1>9. thr'[t] = k /\ \A u \in Threads : u # t => thr'[u] = thr[u]
  BY <1>2, <1>6
<1>10. DOMAIN mem' = Tabs /\ \A j \in DOMAIN h.todo : mem'[h.todo[j].tab] = h.todo[j].session
  <2>1. DOMAIN mem' = Tabs
    BY DEF insert
  <2>2. ASSUME NEW j \in DOMAIN h.todo PROVE mem'[h.todo[j].tab] = h.todo[j].session
    <3>1. PICK x \in Tabs : x = h.todo[j].tab
      BY <1>4, Items
    <3>2. PICK i : i = CHOOSE m \in DOMAIN h.todo : h.todo[m].tab = x
      OBVIOUS
    <3>3. i \in DOMAIN h.todo /\ h.todo[i].tab = x
      BY <3>1, <3>2
    <3>4. i = j
      BY <1>4, <3>1, <3>3 DEF WriterOk
    <3>5. mem'[x] = h.todo[i].session
      BY <1>3, <3>1, <3>2, <3>3 DEF insert
    <3> QED
      BY <3>1, <3>4, <3>5
  <2> QED
    BY <2>1, <2>2
<1>11. ASSUME NEW x \in Tabs, \A j \in DOMAIN h.todo : h.todo[j].tab # x PROVE mem'[x] = mem[x]
  BY <1>3, <1>11 DEF insert
<1>12. ASSUME NEW x \in Tabs
       PROVE  \/ mem'[x] = mem[x] /\ \A j \in DOMAIN h.todo : h.todo[j].tab # x
              \/ \E j \in DOMAIN h.todo : /\ h.todo[j].tab = x /\ mem'[x] = h.todo[j].session
                                          /\ Fit(t, h, h.todo[j]) /\ h.todo[j].done
                                          /\ mem'[x] \in Session /\ mem'[x] # Absent
  <2>1. ASSUME NEW j \in DOMAIN h.todo, h.todo[j].tab = x
        PROVE  /\ mem'[x] = h.todo[j].session /\ Fit(t, h, h.todo[j]) /\ h.todo[j].done
               /\ mem'[x] \in Session /\ mem'[x] # Absent
    BY <1>1, <1>3, <1>4, <1>10, <2>1, Items, AbsentIsNoSession DEF WriterOk
  <2> QED
    BY <1>11, <2>1
<1>13. \A x \in Tabs : mem[x] # Absent => mem'[x] # Absent
  BY <1>12
<1>14. SignerMoves(t) /\ (Doomed => Doomed')
  <2>1. SignerMoves(t) /\ \A u \in Threads : thr'[u].pc = "a_call" => thr[u].pc = "a_call"
    BY <1>1, <1>7, <1>9 DEF SignerMoves
  <2> QED
    BY <1>1, <1>2, <2>1, DoomedKept DEF Tables
<1>15. passed = 0 => guard = t /\ \A u \in Threads : u # t => thr[u].pc = "idle"
  BY <1>1, <1>2, Alone DEF Calm, Sequential
<1>16. ASSUME NEW u \in Threads, u # t PROVE thr[u].pc = "idle" \/ Undisturbed(u)
  BY <1>1, <1>2, <1>8, <1>13, <1>14, <1>15, <1>16 DEF Undisturbed, Tables
<1>17. k.pc = "x_dest" =>
         /\ guard' = t /\ MayEnd(t)' /\ k.seen["dest"] # Absent /\ Kept("dest", k.seen["dest"])'
         /\ SrcEnded(mem["src"])'
  <2> SUFFICES ASSUME k.pc = "x_dest"
               PROVE  /\ guard' = t /\ MayEnd(t)' /\ k.seen["dest"] # Absent /\ Kept("dest", k.seen["dest"])'
                      /\ SrcEnded(mem["src"])'
    OBVIOUS
  <2>1. guard = t /\ MayEnd(t) /\ h.seen["dest"] # Absent /\ Kept("dest", h.seen["dest"])
    BY <1>4, <1>7 DEF WriterOk
  <2>2. guard' = t /\ MayEnd(t)' /\ Kept("dest", k.seen["dest"])'
    BY <1>1, <1>7, <1>8, <1>14, <2>1 DEF MayEnd, Kept
  <2>3. SrcEnded(mem["src"])'
    <3>1. PICK j \in DOMAIN h.todo : h.todo[j].tab = "src" /\ is_terminal(h.todo[j].session.state)
      BY <1>4, <1>7 DEF WriterOk
    <3> QED
      BY <1>10, <3>1 DEF SrcEnded
  <2> QED
    BY <1>7, <2>1, <2>2, <2>3
<1>18. HandlerOk(t, k)'
  BY <1>7, <1>17 DEF HandlerOk, CallerOk, Place, Writing, Holding, Expiring
<1>19. Handlers'
  BY <1>2, <1>6, <1>16, <1>18, Moves
<1>20. Tables'
  <2>1. ASSUME NEW x \in Tabs
        PROVE  Kept(x, mem[x])' /\ Kept(x, db[x])' /\ (mem'[x] # Absent => db'[x] # Absent)
    BY <1>1, <1>2, <1>12 DEF Tables, Kept, Fit
  <2>2. mem'["src"] # Absent => mem'["dest"] # Absent
    BY <1>1, <1>2, <1>12, <1>13 DEF Tables, Fit, Tabs
  <2> QED
    BY <1>1, <1>2, <1>10, <2>1, <2>2 DEF Tables
<1>21. Sequential'
  <2>1. ASSUME NEW u \in Threads, thr'[u].pc # "idle", guard' # u
        PROVE  passed' > 1 \/ (passed' = 1 /\ signer' # "missing")
    <3>1. CASE u = t
      BY <1>1, <1>2, <1>8, <1>9, <2>1, <3>1 DEF Sequential
    <3>2. CASE u # t
      BY <1>1, <1>2, <1>8, <1>9, <2>1, <3>2 DEF Sequential
    <3> QED
      BY <3>1, <3>2
  <2> QED
    BY <1>1, <1>2, <1>8, <2>1 DEF Sequential
<1>22. InStep'
  <2> SUFFICES ASSUME Calm, ~latched PROVE InStep'
    BY <1>1 DEF InStep, Calm
  <2>1. guard = t
    BY <1>1, <1>2, Alone
  <2>2. ASSUME NEW x \in Tabs PROVE db'[x] = mem'[x]
    <3>1. CASE mem'[x] = mem[x] /\ \A j \in DOMAIN h.todo : h.todo[j].tab # x
      <4>1. ~Persisted(x)
        BY <1>3, <2>1, <3>1 DEF Persisted
      <4> QED
        BY <1>1, <3>1, <4>1 DEF CrossInv, InStep
    <3>2. ASSUME NEW j \in DOMAIN h.todo, h.todo[j].tab = x, mem'[x] = h.todo[j].session, h.todo[j].done
          PROVE  db'[x] = mem'[x]
      BY <1>1, <1>3, <2>1, <3>2 DEF CrossInv, InStep, Writing
    <3> QED
      BY <1>12, <3>1, <3>2
  <2>3. guard' \in Threads => thr'[guard'].pc \notin Writing
    BY <1>2, <1>7, <1>8, <1>9, <2>1 DEF Writing
  <2> QED
    BY <2>2, <2>3 DEF InStep
<1>23. Reloaded'
  BY <1>1 DEF Reloaded
<1>24. Ends'
  <2>1. ASSUME passed = 0, mem'["dest"].state = "Cancelled" PROVE SrcEnded(mem["src"])' /\ guard' = NoThread
    <3>1. mem["dest"].state # "Cancelled"
      BY <1>1, <1>2, <1>15, <2>1 DEF CrossInv, Ends
    <3>2. PICK j \in DOMAIN h.todo : h.todo[j].tab = "dest" /\ h.todo[j].session.state = "Cancelled" /\ Fit(t, h, h.todo[j])
      BY <1>12, <2>1, <3>1 DEF Tabs
    <3>3. h.then = "idle" /\ SrcEnded(mem["src"]) /\ \A m \in DOMAIN h.todo : h.todo[m].tab # "src"
      BY <2>1, <3>2 DEF Fit
    <3>4. mem'["src"] = mem["src"]
      BY <1>11, <3>3 DEF Tabs
    <3> QED
      BY <1>7, <1>8, <1>15, <2>1, <3>3, <3>4 DEF SrcEnded
  <2> QED
    BY <1>1, <2>1 DEF CrossInv, Ends, SrcEnded
<1>25. GivenUp'
  <2>1. ASSUME mem["dest"].state \in DeadStates \/ db["dest"].state \in DeadStates
        PROVE  Doomed' \/ (signer' = "missing" /\ NoPairing')
    <3>1. NoPairing => NoPairing'
      BY <1>1, <1>7, <1>9 DEF NoPairing
    <3> QED
      BY <1>1, <1>14, <2>1, <3>1 DEF CrossInv, GivenUp
  <2>2. ASSUME NEW j \in DOMAIN h.todo, h.todo[j].tab = "dest", h.todo[j].session.state \in DeadStates, Fit(t, h, h.todo[j])
        PROVE  Doomed' \/ (signer' = "missing" /\ NoPairing')
    <3>1. Doomed \/ (signer = "missing" /\ guard = t)
      BY <2>2 DEF Fit, MayEnd
    <3>2. guard = t => NoPairing'
      BY <1>2, <1>6, <1>7, HolderPairs DEF NoPairing
    <3> QED
      BY <1>1, <1>14, <3>1, <3>2
  <2>3. mem'["dest"].state \in DeadStates => Doomed' \/ (signer' = "missing" /\ NoPairing')
    BY <1>12, <2>1, <2>2 DEF Tabs
  <2> QED
    BY <1>1, <2>1, <2>3 DEF GivenUp
<1> QED
  BY <1>19, <1>20, <1>21, <1>22, <1>23, <1>24, <1>25 DEF CrossInv

-----------------------------------------------------------------------------
\* The process, the clock and the Signer.

LEMMA Rests ==
  ASSUME Handlers, UNCHANGED thr, \A u \in Threads : thr[u].pc = "idle" \/ Undisturbed(u)
  PROVE  Handlers'
<1>1. ASSUME NEW u \in Threads PROVE HandlerOk(u, thr[u])'
  <2>1. PICK h : h = thr[u]
    OBVIOUS
  <2>2. HandlerOk(u, h)'
    BY <2>1, OkKept DEF Handlers
  <2> QED
    BY <2>1, <2>2 DEF HandlerOk, CallerOk, WriterOk, Fit, Kept, MayEnd, Doomed
<1> QED
  BY <1>1 DEF Handlers

LEMMA IdleIsOk == \A t \in Threads : HandlerOk(t, Idle) /\ Idle.pc = "idle"
BY DEF Idle, HandlerOk, CallerOk, Fields, Place, Writing, Holding, Expiring

LEMMA InitInv == Init => CrossInv
<1> SUFFICES ASSUME Init PROVE CrossInv
  OBVIOUS
<1> USE DEF Init
<1>1. Tables
  BY DEF Tables, Kept, Tabs
<1>2. Handlers /\ \A t \in Threads : thr[t].pc = "idle"
  BY IdleIsOk DEF Handlers
<1>3. Sequential /\ InStep /\ Reloaded
  BY <1>2, CrossAssumption DEF Sequential, InStep, Reloaded
<1>4. Ends /\ GivenUp
  <2>1. mem["dest"] = Absent /\ db["dest"] = Absent
    BY DEF Tabs
  <2> QED
    BY <2>1, AbsentIsNoSession DEF Ends, GivenUp, DeadStates
<1> QED
  BY <1>1, <1>2, <1>3, <1>4 DEF CrossInv

LEMMA CrashStep ==
  ASSUME CrossInv, crash
  PROVE  CrossInv'
<1>1. Tables /\ UNCHANGED <<db, signer, passed>> /\ phase' = "loading" /\ guard' = NoThread
  BY DEF CrossInv, crash
<1>2. DOMAIN thr' = Threads /\ DOMAIN mem' = Tabs /\ (\A x \in Tabs : mem'[x] = Absent) /\ \A t \in Threads : thr'[t] = Idle
  BY DEF crash
<1>3. \A t \in Threads : thr'[t].pc = "idle"
  BY <1>2, IdleIsOk
<1>4. Tables'
  BY <1>1, <1>2 DEF Tables, Kept
<1>5. Handlers'
  <2>1. ASSUME NEW t \in Threads PROVE HandlerOk(t, thr[t])'
    <3>1. DOMAIN thr'[t] = Fields /\ thr'[t].pc = "idle" /\ thr'[t].todo \in Seq(Item)
      <4>1. DOMAIN Idle = Fields /\ Idle.pc = "idle" /\ Idle.todo \in Seq(Item)
        BY DEF Idle, Fields
      <4> QED
        BY <1>2, <4>1
    <3> QED
      BY <3>1 DEF HandlerOk, CallerOk, Place, Writing, Holding, Expiring
  <2> QED
    BY <1>2, <2>1 DEF Handlers
<1>6. Sequential' /\ InStep' /\ Ends'
  BY <1>1, <1>3 DEF Sequential, InStep, Ends
<1>7. Reloaded'
  BY <1>1, <1>2 DEF Reloaded, SrcEnded, Tabs
<1>8. GivenUp'
  <2>1. mem'["dest"].state \notin DeadStates
    BY <1>2, AbsentIsNoSession DEF DeadStates, Tabs
  <2>2. NoPairing' /\ (Doomed => Doomed')
    BY <1>1, <1>3 DEF NoPairing, Doomed
  <2> QED
    BY <1>1, <2>1, <2>2 DEF CrossInv, GivenUp
<1> QED
  BY <1>4, <1>5, <1>6, <1>7, <1>8 DEF CrossInv

\* Before the Broker serves, session s of tab x is loaded.
LEMMA LoadStep ==
  ASSUME CrossInv, phase = "loading", NEW x \in Tabs, db[x] # Absent, NEW s \in Session, Load(x, s), Kept(x, s)',
         x = "src" => is_terminal(s.state),
         x = "dest" /\ s.state \in DeadStates => Doomed' \/ (signer' = "missing" /\ NoPairing'),
         signer' = signer \/ (signer \in {"paired", "authorized"} /\ signer' = "cancelled"),
         UNCHANGED <<passed, thr, guard, phase>>
  PROVE  CrossInv'
<1>1. Tables /\ Handlers /\ guard = NoThread /\ \A t \in Threads : thr[t].pc = "idle"
  BY DEF CrossInv, Sequential
<1>2. /\ DOMAIN mem' = Tabs /\ DOMAIN db' = Tabs /\ mem'[x] = s /\ db'[x] = s /\ s # Absent
      /\ \A y \in Tabs : y # x => mem'[y] = mem[y] /\ db'[y] = db[y]
  BY <1>1, AbsentIsNoSession DEF Tables, Load
<1>3. Handlers'
  BY <1>1, Rests
<1>4. Tables'
  <2>1. ASSUME NEW y \in Tabs
        PROVE  Kept(y, mem[y])' /\ Kept(y, db[y])' /\ (mem'[y] # Absent => db'[y] # Absent)
    <3>1. CASE y = x
      BY <1>2, <3>1 DEF Kept
    <3>2. CASE y # x
      BY <1>1, <1>2, <3>2 DEF Tables, Kept
    <3> QED
      BY <3>1, <3>2
  <2>2. db'["src"] # Absent => db'["dest"] # Absent
    BY <1>1, <1>2 DEF Tables, Tabs
  <2>3. signer' \in {"missing", "paired", "authorized", "completed", "already", "cancelled", "expired"}
    BY <1>1 DEF Tables
  <2> QED
    BY <1>1, <1>2, <2>1, <2>2, <2>3 DEF Tables
<1>5. Sequential' /\ InStep' /\ Ends'
  BY <1>1 DEF Sequential, InStep, Ends
<1>6. Reloaded'
  BY <1>2 DEF CrossInv, Reloaded, SrcEnded, Tabs
<1>7. GivenUp'
  <2>1. Doomed => Doomed'
    BY <1>1 DEF Doomed
  <2>2. NoPairing'
    BY <1>1 DEF NoPairing
  <2>3. ASSUME mem["dest"].state \in DeadStates \/ db["dest"].state \in DeadStates, x = "src"
        PROVE  Doomed' \/ (signer' = "missing" /\ NoPairing')
    BY <2>1, <2>2, <2>3 DEF CrossInv, GivenUp
  <2> QED
    BY <1>2, <2>3 DEF GivenUp, Tabs
<1> QED
  BY <1>3, <1>4, <1>5, <1>6, <1>7 DEF CrossInv

LEMMA ReloadSource ==
  ASSUME CrossInv, reload_source
  PROVE  CrossInv'
<1>1. phase = "loading" /\ db["src"] # Absent /\ UNCHANGED <<signer, passed, thr, guard, latched>>
  BY DEF reload_source
<1>2. PICK s \in Session : s = db["src"] /\ s.deadline = 1 /\ ~s.retained /\ signer # "missing"
  BY <1>1 DEF CrossInv, Tables, Kept, Tabs
<1>3. CASE is_terminal(db["src"].state) /\ Load("src", db["src"]) /\ UNCHANGED phase
  <2>1. Kept("src", s)'
    BY <1>1, <1>2 DEF Kept
  <2> QED
    BY <1>1, <1>2, <1>3, <2>1, LoadStep DEF Tabs
<1>4. CASE Load("src", latch_terminal(db["src"], "Expired")) /\ UNCHANGED phase
  <2>1. PICK l \in Session : l = latch_terminal(s, "Expired") /\ l.state = "Expired" /\ l.deadline = 1 /\ ~l.retained
    BY <1>2, LatchedSession DEF DeadStates
  <2>2. Kept("src", l)' /\ is_terminal(l.state) /\ Load("src", l)
    BY <1>1, <1>2, <1>4, <2>1 DEF Kept, is_terminal
  <2> QED
    BY <1>1, <1>4, <2>1, <2>2, LoadStep DEF Tabs
<1>5. CASE phase' = "failed" /\ UNCHANGED <<mem, db>>
  <2>1. Tables /\ Handlers /\ guard = NoThread /\ \A t \in Threads : thr[t].pc = "idle"
    BY <1>1 DEF CrossInv, Sequential
  <2>2. Handlers'
    BY <1>1, <2>1, Rests
  <2>3. Tables'
    BY <1>1, <1>5, <2>1 DEF Tables, Kept
  <2>4. Sequential' /\ InStep' /\ Ends' /\ Reloaded'
    BY <1>1, <1>5, <2>1 DEF Sequential, InStep, Ends, Reloaded
  <2>5. GivenUp'
    BY <1>1, <1>5 DEF CrossInv, GivenUp, NoPairing, Doomed
  <2> QED
    BY <2>2, <2>3, <2>4, <2>5 DEF CrossInv
<1> QED
  BY <1>3, <1>4, <1>5 DEF reload_source

LEMMA ReloadDestination ==
  ASSUME CrossInv, reload_destination
  PROVE  CrossInv'
<1>1. phase = "loading" /\ db["dest"] # Absent /\ UNCHANGED <<passed, thr, guard, phase, latched>>
  BY DEF reload_destination
<1>2. PICK s \in Session : s = db["dest"] /\ s.deadline > 1
  BY <1>1 DEF CrossInv, Tables, Kept, Tabs
<1>3. NoPairing' /\ \A t \in Threads : thr'[t].pc = "idle"
  BY <1>1 DEF CrossInv, Sequential, NoPairing
<1>4. CASE Load("dest", s) /\ UNCHANGED signer
  <2>1. Kept("dest", s)'
    BY <1>2 DEF Kept
  <2>2. s.state \in DeadStates => Doomed' \/ (signer' = "missing" /\ NoPairing')
    BY <1>1, <1>2, <1>3, <1>4 DEF CrossInv, GivenUp, Doomed
  <2> QED
    BY <1>1, <1>4, <2>1, <2>2, LoadStep DEF Tabs
<1>5. CASE Load("dest", Committed(s)) /\ UNCHANGED signer
  <2>1. PICK d \in Session : d = Committed(s) /\ d.state = "WalletCommitted" /\ d.deadline > 1
    BY <1>2, CommittedSession
  <2>2. Kept("dest", d)' /\ Load("dest", d)
    BY <1>5, <2>1 DEF Kept
  <2> QED
    BY <1>1, <1>5, <2>1, <2>2, LoadStep DEF Tabs, DeadStates
<1>6. CASE /\ SignerCancels
           /\ Load("dest", latch_terminal(s, IF signer \in DOMAIN EndState THEN EndState[signer] ELSE "Expired"))
  <2>1. PICK w : w = IF signer \in DOMAIN EndState THEN EndState[signer] ELSE "Expired"
    OBVIOUS
  <2>2. w \in DeadStates
    BY <2>1 DEF EndState, DeadStates
  <2>3. PICK d \in Session : d = latch_terminal(s, w) /\ d.deadline = s.deadline
    BY <2>2, LatchedSession
  <2>4. Kept("dest", d)' /\ Load("dest", d)
    BY <1>2, <1>6, <2>1, <2>3 DEF Kept
  <2>5. Doomed' \/ (signer' = "missing" /\ NoPairing')
    BY <1>3, <1>6 DEF SignerCancels, Doomed, CrossInv, Tables
  <2>6. signer' = signer \/ (signer \in {"paired", "authorized"} /\ signer' = "cancelled")
    BY <1>6 DEF SignerCancels
  <2> QED
    BY <1>1, <2>3, <2>4, <2>5, <2>6, LoadStep DEF Tabs
<1> QED
  BY <1>2, <1>4, <1>5, <1>6 DEF reload_destination

LEMMA ServeStep ==
  ASSUME CrossInv, serve
  PROVE  CrossInv'
<1>1. phase = "loading" /\ phase' = "up" /\ UNCHANGED <<signer, passed, thr, guard, latched>>
  BY DEF serve
<1>2. Tables /\ Handlers /\ guard = NoThread /\ \A t \in Threads : thr[t].pc = "idle"
  BY <1>1 DEF CrossInv, Sequential
<1>3. (\A x \in Tabs : db[x] = mem[x]) /\ SrcEnded(mem["src"])
  BY <1>1, <1>2 DEF CrossInv, Reloaded, Tables, serve, Known
<1>4. /\ DOMAIN mem' = Tabs /\ DOMAIN db' = Tabs /\ mem'["src"] = mem["src"]
      /\ \A x \in Tabs : db'[x] = mem'[x]
      /\ \/ mem'["dest"] = mem["dest"]
         \/ mem'["dest"] \in Session /\ mem'["dest"].state = "Succeeded" /\ mem'["dest"].deadline = 3
  <2>1. CASE UNCHANGED <<mem, db>>
    BY <1>2, <1>3, <2>1 DEF Tables
  <2>2. CASE Known("dest") /\ Load("dest", Finalized(mem["dest"]))
    <3>1. PICK c \in Session : c = mem["dest"]
      BY <2>2, InMemory DEF Known, Tabs
    <3>2. PICK d \in Session : d = Finalized(c) /\ d.state = "Succeeded" /\ d.deadline = 3
      BY CommittedSession
    <3>3. mem' = [mem EXCEPT !["dest"] = d] /\ db' = [db EXCEPT !["dest"] = d]
      BY <2>2, <3>1, <3>2 DEF Load
    <3> QED
      BY <1>2, <1>3, <3>2, <3>3 DEF Tables, Tabs
  <2> QED
    BY <2>1, <2>2 DEF serve
<1>5. Handlers'
  BY <1>1, <1>2, Rests
<1>6. Tables'
  <2>1. ASSUME NEW y \in Tabs PROVE Kept(y, mem[y])' /\ Kept(y, db[y])'
    BY <1>1, <1>2, <1>4 DEF Tables, Kept, Tabs
  <2>2. mem'["src"] # Absent => mem'["dest"] # Absent
    BY <1>2, <1>3, <1>4, AbsentIsNoSession DEF Tables, Tabs
  <2> QED
    BY <1>1, <1>2, <1>4, <2>1, <2>2 DEF Tables, Tabs
<1>7. Sequential' /\ InStep' /\ Reloaded'
  BY <1>1, <1>2, <1>4, CrossAssumption DEF Sequential, InStep, Reloaded
<1>8. Ends'
  BY <1>1, <1>2, <1>3, <1>4 DEF Ends, SrcEnded, Tabs
<1>9. GivenUp'
  <2>1. Doomed => Doomed'
    BY <1>1 DEF Doomed
  <2>2. NoPairing'
    BY <1>1, <1>2 DEF NoPairing
  <2> QED
    BY <1>1, <1>4, <2>1, <2>2 DEF CrossInv, GivenUp, DeadStates, Tabs
<1> QED
  BY <1>5, <1>6, <1>7, <1>8, <1>9 DEF CrossInv

\* Time passes or the Signer's pairing ends.
LEMMA ElsewhereStep ==
  ASSUME CrossInv, tick \/ signer_expires
  PROVE  CrossInv'
<1>1. Tables /\ Handlers /\ UNCHANGED <<mem, db, thr, guard, phase, latched>>
  BY DEF CrossInv, tick, signer_expires
<1>2. passed' \in Nat /\ passed' >= passed /\ (passed' # passed => passed' = passed + 1 /\ signer' = signer)
  BY <1>1 DEF tick, signer_expires, Tables
<1>3. signer' = signer \/ (signer \in {"paired", "authorized"} /\ signer' = "expired")
  BY DEF tick, signer_expires
<1>4. Doomed => Doomed'
  BY <1>1, <1>2, <1>3 DEF Doomed, Tables
<1>5. \A u \in Threads : Undisturbed(u)
  BY <1>1, <1>2, <1>3, <1>4 DEF Undisturbed, Tables
<1>6. Handlers'
  BY <1>1, <1>5, Rests
<1>7. Tables'
  BY <1>1, <1>2, <1>3 DEF Tables, Kept
<1>8. Sequential'
  BY <1>1, <1>2, <1>3 DEF CrossInv, Sequential, Tables
<1>9. InStep'
  <2>1. Calm' => Calm
    BY <1>1, <1>2, <1>3 DEF Calm, Tables
  <2>2. \A x \in Tabs : Persisted(x) => Persisted(x)'
    BY <1>1 DEF Persisted
  <2> QED
    BY <1>1, <2>1, <2>2 DEF CrossInv, InStep
<1>10. Reloaded' /\ Ends'
  BY <1>1, <1>2 DEF CrossInv, Reloaded, Ends, SrcEnded, Tables
<1>11. GivenUp'
  BY <1>1, <1>3, <1>4 DEF CrossInv, GivenUp, NoPairing
<1> QED
  BY <1>6, <1>7, <1>8, <1>9, <1>10, <1>11 DEF CrossInv

-----------------------------------------------------------------------------
LEMMA StepInv ==
  ASSUME CrossInv, [Next]_vars
  PROVE  CrossInv'
<1>1. CASE UNCHANGED vars
  <2>1. Handlers /\ Tables
    BY DEF CrossInv
  <2>2. \A u \in Threads : Undisturbed(u)
    BY <1>1, <2>1 DEF vars, Undisturbed, Tables, Doomed, SrcEnded
  <2>3. Handlers'
    BY <1>1, <2>1, <2>2, Rests DEF vars
  <2>4. Tables' /\ Sequential' /\ Reloaded' /\ Ends'
    BY <1>1 DEF vars, CrossInv, Tables, Kept, Sequential, Reloaded, Ends, SrcEnded
  <2>5. InStep' /\ GivenUp'
    BY <1>1 DEF vars, CrossInv, InStep, Calm, Persisted, GivenUp, Doomed, NoPairing
  <2> QED
    BY <2>3, <2>4, <2>5 DEF CrossInv
<1>2. ASSUME NEW t \in Threads, HandlerStep(t) PROVE CrossInv'
  BY <1>2, PersistStep, InsertStep, PairCall, AuthorizeCall, AuthorizeWrite, FinishCall, FinalizeStep, AlreadyCall,
     ExpireStatus, ExpireCancel, ExpireWrite, CancelCall, CancelWrite DEF HandlerStep
<1>3. ASSUME NEW t \in Threads,
             \/ prepare_cross_surface(t) \/ pair_cross_surface(t) \/ authorize_cross_surface(t)
             \/ finish_cross_surface(t) \/ already_registered_cross_surface(t) \/ cancel(t)
             \/ \E x \in Tabs : sweep(t, x)
      PROVE  CrossInv'
  BY <1>3, PrepareStep, RequestStep, SweepStep
<1>4. CASE crash \/ Start \/ tick \/ signer_expires
  BY <1>4, CrashStep, ReloadSource, ReloadDestination, ServeStep, ElsewhereStep DEF Start
<1> QED
  BY <1>1, <1>2, <1>3, <1>4 DEF Next

\* The inductive invariant: every handler writes sessions that fit what the
\* Signer, the rows and the holder of the admission lock have come to.
THEOREM CrossInvariant == SafetySpec => []CrossInv
BY InitInv, StepInv, PTL DEF SafetySpec

\* cancel_with_backoff ends the source tab before the destination it cancels:
\* once a cancelled destination is in memory or stored, no source is live before
\* its deadline, for any number of handlers and sweeps, lost answers, audit
\* failures and restarts.
THEOREM CancelEndsBoth == SafetySpec => []CancelEndsBothTabs
<1>1. CrossInv => CancelEndsBothTabs
  <2> SUFFICES ASSUME CrossInv, phase = "up", NEW view \in {mem, db}, view["dest"].state = "Cancelled"
               PROVE  view["src"] = Absent \/ is_terminal(view["src"].state) \/ view["src"].deadline <= passed
    BY DEF CancelEndsBothTabs
  <2>1. CASE passed = 0
    BY <2>1 DEF CrossInv, Ends, SrcEnded
  <2>2. CASE passed # 0
    BY <2>2 DEF CrossInv, Tables, Kept, Tabs
  <2> QED
    BY <2>1, <2>2
<1> QED
  BY <1>1, CrossInvariant, PTL

\* A passkey the Signer completed is never reported dead by expire_sessions,
\* cancel_with_backoff, already_registered_cross_surface or a restart: whoever
\* wrote a dead destination had seen the operation end at the Signer, or it had
\* never begun there and nobody was pairing.
THEOREM AddedIsNeverDead == SafetySpec => []AddedIsNotReportedDead
<1>1. CrossInv => AddedIsNotReportedDead
  BY DEF CrossInv, GivenUp, Doomed, DeadStates, AddedIsNotReportedDead
<1> QED
  BY <1>1, CrossInvariant, PTL

=============================================================================
