----------------------- MODULE CeremonyAdmission_proofs -----------------------
(* For any wallets, threads, requests, policies, clock settings, restarts and   *)
(* times: no window holds more admitted creations than the quota, the sessions  *)
(* asked for stay within theirs, a wallet has one source tab at most, and a     *)
(* refused caller is told when it may come back.                                *)
EXTENDS CeremonyAdmission, FiniteSetTheorems, SequenceTheorems, WellFoundedInduction, TLAPS

-----------------------------------------------------------------------------
(* The inductive invariant. *)

\* The tables have their keys.
Shapes == DOMAIN cooldown = Wallets /\ DOMAIN left = {"steps", "restarts"}

\* What a call that holds the lock was admitted under still stands.
Decided(t) ==
  LET r == thr[t].request IN
  /\ admission = t
  /\ Named(r) # NoWallet => ~QuotaExhausted(OfWallet(Named(r)), limits.wallet, thr[t].now)
  /\ r.anonymous => ~QuotaExhausted(Registrations, limits.anonymous, thr[t].now)

Locked == \A t \in Threads : thr[t].pc = "insert" => Decided(t)

\* The sessions admitted in the window that ends at a time.
Span(counted, at) ==
  {j \in Admitted(counted) : sessions[j].created <= at /\ sessions[j].created + Window > at}

\* RollingQuota for the window that ends at any time, also one no session was
\* created at: sessions are not created in order of time when clocks are set.
Quotas ==
  \A at \in Int :
    /\ \A w \in Wallets : Cardinality(Span(OfWallet(w), at)) <= Largest("wallet")
    /\ Cardinality(Span(Registrations, at)) <= Largest("anonymous")

\* A call is younger than the ceremonies it could create, and the sweep it
\* began with holds: no session under way is due at its time.
Fresh(t) ==
  /\ thr[t].now = thr[t].began
  /\ thr[t].now <= clock["mono"] /\ clock["mono"] < thr[t].now + Life
  /\ \A i \in DOMAIN sessions : sessions[i].state # "over" => sessions[i].expires > thr[t].now
  /\ thr[t].pc = "insert" =>
       /\ Cardinality(Underway) < limits.sessions
       /\ Named(thr[t].request) # NoWallet =>
            \A i \in OfWallet(Named(thr[t].request)) : sessions[i].state = "over"

\* When a session was admitted for a wallet, all earlier ones of it were over;
\* so a source tab of an earlier destination is over, and there is only one.
Alone ==
  \A i, j \in DOMAIN sessions :
    /\ j < i /\ sessions[i].wallet = sessions[j].wallet /\ sessions[i].wallet # NoWallet
    /\ sessions[i].role \in {"plain", "cross"}
    => sessions[j].state = "over"

OneSource == \A i, j \in SourceTabs : sessions[i].wallet = sessions[j].wallet => i = j

OnTime ==
  /\ \A c \in DOMAIN clock : clock[c] = clock["mono"]
  /\ \A i \in DOMAIN sessions : sessions[i].created <= clock["mono"]
  /\ \A t \in Threads : thr[t] # Idle => Fresh(t)
  /\ Cardinality(Underway) <= Largest("sessions")
  /\ Alone /\ OneSource

Timely == Steady => OnTime

-----------------------------------------------------------------------------
(* Counting. *)

LimitNames == {"sessions", "wallet", "anonymous"}

\* Every policy a start may be given is within the widest one.
LEMMA WidestPolicy ==
  ASSUME world \in Worlds, NEW f \in LimitNames
  PROVE  /\ Largest(f) \in Nat \ {0}
         /\ \A p \in world.policies : p[f] \in Nat \ {0} /\ p[f] <= Largest(f)
<1>1. PICK p \in world.policies : \A q \in world.policies : q[f] <= p[f]
  BY AdmissionAssumption DEF LimitNames
<1>2. \E n \in {q[f] : q \in world.policies} : \A q \in world.policies : q[f] <= n
  BY <1>1
<1>3. /\ Largest(f) \in {q[f] : q \in world.policies}
      /\ \A q \in world.policies : q[f] <= Largest(f)
  BY <1>2 DEF Largest
<1> QED
  BY <1>3, AdmissionAssumption DEF LimitNames

\* A part of a finite set is finite and no larger.
LEMMA PartIsSmaller ==
  ASSUME NEW B, IsFiniteSet(B), NEW A, A \subseteq B
  PROVE  /\ IsFiniteSet(A) /\ Cardinality(A) \in Nat
         /\ Cardinality(B) \in Nat /\ Cardinality(A) <= Cardinality(B)
BY FS_Subset, FS_CardinalityType

\* A set that gained one element stays within a bound if, without it, it is
\* part of a set below the bound.
LEMMA GainedOne ==
  ASSUME NEW A, NEW B, NEW C, NEW k, NEW m \in Nat,
         IsFiniteSet(A), IsFiniteSet(B),
         C \subseteq A \cup {k}, Cardinality(A) <= m,
         k \in C => C \ {k} \subseteq B /\ Cardinality(B) < m
  PROVE  Cardinality(C) <= m
<1>1. CASE k \notin C
  <2>1. C \subseteq A
    BY <1>1
  <2> QED
    BY <2>1, PartIsSmaller
<1>2. CASE k \in C
  <2>1. IsFiniteSet(C \ {k}) /\ Cardinality(C \ {k}) \in Nat /\ Cardinality(C \ {k}) <= Cardinality(B) /\ Cardinality(B) \in Nat
    BY <1>2, PartIsSmaller
  <2>2. Cardinality((C \ {k}) \cup {k}) = Cardinality(C \ {k}) + 1
    BY <2>1, FS_AddElement
  <2>3. (C \ {k}) \cup {k} = C
    BY <1>2
  <2> QED
    BY <1>2, <2>1, <2>2, <2>3
<1> QED
  BY <1>1, <1>2

\* The sessions are numbered, and any set of them can be counted.
LEMMA SessionsFinite ==
  ASSUME NEW q \in Seq(Session)
  PROVE  /\ Len(q) \in Nat /\ DOMAIN q = 1..Len(q) /\ IsFiniteSet(DOMAIN q)
         /\ \A i \in DOMAIN q : q[i] \in Session
BY FS_Interval, LenProperties, ElementOfSeq

-----------------------------------------------------------------------------
(* What a step may do to the sessions: edit those there are, or add one. *)

\* Who asked for a session and when is never changed, an ended one stays ended,
\* and a deadline is only ever moved to a lifetime from a present time.
Edited ==
  /\ DOMAIN sessions' = DOMAIN sessions
  /\ \A i \in DOMAIN sessions :
       /\ sessions'[i].wallet = sessions[i].wallet
       /\ sessions'[i].anonymous = sessions[i].anonymous
       /\ sessions'[i].role = sessions[i].role
       /\ sessions'[i].created = sessions[i].created
       /\ sessions'[i].state # "over" => sessions[i].state # "over"
       /\ \/ sessions'[i].expires = sessions[i].expires
          \/ \E c \in {"trusted", "wall"} : sessions'[i].expires = clock[c] + AckLife

LEMMA SessionTimes ==
  ASSUME sessions \in Seq(Session), NEW i \in DOMAIN sessions
  PROVE  sessions[i].created \in Nat /\ sessions[i].expires \in Nat
<1>1. sessions[i] \in Session
  BY SessionsFinite
<1>2. sessions[i].created \in 0..MaxTime /\ sessions[i].expires \in 0..(MaxTime + Life + AckLife)
  BY <1>1 DEF Session
<1> QED
  BY <1>2

\* A table of sessions under the same numbers is a sequence of sessions.
LEMMA EditedSequence ==
  ASSUME NEW q \in Seq(Session), NEW p, p \in [DOMAIN q -> Session]
  PROVE  p \in Seq(Session) /\ Len(p) = Len(q)
<1>1. Len(q) \in Nat /\ DOMAIN q = 1..Len(q)
  BY SessionsFinite
<1>2. p \in Seq(Session)
  BY <1>1, SeqDef
<1> QED
  BY <1>1, <1>2, LenProperties

\* A session moved to another state is otherwise the same.
LEMMA Moving ==
  ASSUME NEW s \in Session, NEW v \in {"open", "busy", "ack", "over"}, NEW e,
         e = [s EXCEPT !.state = v]
  PROVE  /\ e \in Session /\ e.wallet = s.wallet /\ e.anonymous = s.anonymous /\ e.role = s.role
         /\ e.created = s.created /\ e.expires = s.expires /\ e.state = v
BY DEF Session

\* A sweep edits the sessions, and leaves none under way that is due.
LEMMA SweepEdits ==
  ASSUME TypeOK, NEW c \in {"trusted", "wall"}, Sweep(clock[c])
  PROVE  /\ Edited /\ sessions' \in Seq(Session) /\ Len(sessions') = Len(sessions)
         /\ \A i \in DOMAIN sessions : sessions'[i].state # "over" => sessions'[i].expires > clock[c]
<1> DEFINE now == clock[c]
<1>1. sessions \in Seq(Session) /\ now \in 0..MaxTime
  BY DEF TypeOK
<1>2. now + AckLife \in 0..(MaxTime + Life + AckLife) /\ now + AckLife > now
  BY <1>1, AdmissionAssumption
<1>3. ASSUME NEW s \in Session, NEW e \in Swept(s, now)
      PROVE  /\ e \in Session /\ e.wallet = s.wallet /\ e.anonymous = s.anonymous
             /\ e.role = s.role /\ e.created = s.created
             /\ e.state # "over" => s.state # "over" /\ e.expires > now
             /\ e.expires = s.expires \/ e.expires = now + AckLife
  <2>1. CASE e = s /\ (s.state = "over" \/ s.expires > now)
    BY <2>1
  <2>2. CASE e = [s EXCEPT !.state = "over"]
    BY <2>2, Moving
  <2>3. CASE s.state \in {"open", "busy"} /\ e = [s EXCEPT !.state = "ack", !.expires = now + AckLife]
    <3>1. /\ e \in Session /\ e.wallet = s.wallet /\ e.anonymous = s.anonymous /\ e.role = s.role
          /\ e.created = s.created /\ e.expires = now + AckLife
      BY <2>3, <1>2 DEF Session
    <3> QED
      BY <2>3, <3>1, <1>2
  <2> QED
    BY <1>3, <2>1, <2>2, <2>3 DEF Swept
<1>4. \A i \in DOMAIN sessions : sessions[i] \in Session
  BY <1>1, SessionsFinite
<1>5. /\ sessions' \in [DOMAIN sessions -> UNION {Swept(sessions[i], now) : i \in DOMAIN sessions}]
      /\ \A i \in DOMAIN sessions : sessions'[i] \in Swept(sessions[i], now)
  BY DEF Sweep
<1>6. sessions' \in [DOMAIN sessions -> Session]
  BY <1>3, <1>4, <1>5
<1>7. sessions' \in Seq(Session) /\ Len(sessions') = Len(sessions)
  BY <1>1, <1>6, EditedSequence
<1>8. /\ Edited
      /\ \A i \in DOMAIN sessions : sessions'[i].state # "over" => sessions'[i].expires > now
  <2> HIDE DEF now
  <2>1. ASSUME NEW i \in DOMAIN sessions
        PROVE  /\ sessions'[i].wallet = sessions[i].wallet /\ sessions'[i].anonymous = sessions[i].anonymous
               /\ sessions'[i].role = sessions[i].role /\ sessions'[i].created = sessions[i].created
               /\ sessions'[i].state # "over" => sessions[i].state # "over" /\ sessions'[i].expires > now
               /\ sessions'[i].expires = sessions[i].expires \/ sessions'[i].expires = now + AckLife
    BY <1>3, <1>4, <1>5
  <2> QED
    BY <1>6, <2>1 DEF Edited, now
<1> QED
  BY <1>7, <1>8

\* The browser's progress, a cancellation and a restart edit the sessions.
LEMMA ProceedEdits ==
  ASSUME TypeOK, NEW i \in DOMAIN sessions, proceed(i)
  PROVE  Edited /\ sessions' \in Seq(Session) /\ Len(sessions') = Len(sessions)
<1> DEFINE s == sessions[i]
<1>1. sessions \in Seq(Session) /\ clock["wall"] \in 0..MaxTime
  BY DEF TypeOK
<1>2. s \in Session /\ sessions \in [DOMAIN sessions -> Session]
  BY <1>1, SessionsFinite
<1>3. clock["wall"] + AckLife \in 0..(MaxTime + Life + AckLife)
  BY <1>1, AdmissionAssumption
<1>4. PICK e \in Session :
        /\ sessions' = [sessions EXCEPT ![i] = e]
        /\ e.wallet = s.wallet /\ e.anonymous = s.anonymous /\ e.role = s.role /\ e.created = s.created
        /\ s.state # "over"
        /\ e.expires = s.expires \/ e.expires = clock["wall"] + AckLife
  <2>1. CASE s.state = "open" /\ sessions' = [sessions EXCEPT ![i].state = "busy"]
    <3> DEFINE f == [s EXCEPT !.state = "busy"]
    <3>1. sessions' = [sessions EXCEPT ![i] = f]
      BY <2>1, <1>2 DEF Session
    <3>2. /\ f \in Session /\ f.wallet = s.wallet /\ f.anonymous = s.anonymous /\ f.role = s.role
          /\ f.created = s.created /\ (f.expires = s.expires \/ f.expires = clock["wall"] + AckLife)
      BY <1>2, Moving
    <3> HIDE DEF f
    <3> QED
      BY <2>1, <3>1, <3>2
  <2>2. CASE /\ s.state = "busy"
             /\ sessions' = [sessions EXCEPT ![i].state = "ack", ![i].expires = clock["wall"] + AckLife]
    <3> DEFINE f == [s EXCEPT !.state = "ack", !.expires = clock["wall"] + AckLife]
    <3>1. sessions' = [sessions EXCEPT ![i] = f]
      BY <2>2, <1>2 DEF Session
    <3>2. /\ f \in Session /\ f.wallet = s.wallet /\ f.anonymous = s.anonymous /\ f.role = s.role
          /\ f.created = s.created /\ (f.expires = s.expires \/ f.expires = clock["wall"] + AckLife)
      BY <1>2, <1>3 DEF Session
    <3> HIDE DEF f
    <3> QED
      BY <2>2, <3>1, <3>2
  <2>3. CASE s.state \in {"open", "busy", "ack"} /\ sessions' = [sessions EXCEPT ![i].state = "over"]
    <3> DEFINE f == [s EXCEPT !.state = "over"]
    <3>1. sessions' = [sessions EXCEPT ![i] = f]
      BY <2>3, <1>2 DEF Session
    <3>2. /\ f \in Session /\ f.wallet = s.wallet /\ f.anonymous = s.anonymous /\ f.role = s.role
          /\ f.created = s.created /\ (f.expires = s.expires \/ f.expires = clock["wall"] + AckLife)
      BY <1>2, Moving
    <3> HIDE DEF f
    <3> QED
      BY <2>3, <3>1, <3>2
  <2> QED
    BY <2>1, <2>2, <2>3 DEF proceed
<1>5. sessions' \in [DOMAIN sessions -> Session] /\ sessions'[i] = e
      /\ \A j \in DOMAIN sessions \ {i} : sessions'[j] = sessions[j]
  BY <1>2, <1>4
<1>6. sessions' \in Seq(Session) /\ Len(sessions') = Len(sessions)
  BY <1>1, <1>5, EditedSequence
<1>7. Edited
  BY <1>4, <1>5 DEF Edited
<1> QED
  BY <1>6, <1>7

\* A step that ends some sessions and touches no other edits them.
LEMMA EndingEdits ==
  ASSUME TypeOK, NEW E,
         sessions' = [j \in DOMAIN sessions |->
                        IF j \in E THEN [sessions[j] EXCEPT !.state = "over"] ELSE sessions[j]]
  PROVE  Edited /\ sessions' \in Seq(Session) /\ Len(sessions') = Len(sessions)
<1>1. sessions \in Seq(Session) /\ \A j \in DOMAIN sessions : sessions[j] \in Session
  BY SessionsFinite DEF TypeOK
<1>2. ASSUME NEW j \in DOMAIN sessions
      PROVE  /\ sessions'[j] \in Session
             /\ sessions'[j].wallet = sessions[j].wallet /\ sessions'[j].anonymous = sessions[j].anonymous
             /\ sessions'[j].role = sessions[j].role /\ sessions'[j].created = sessions[j].created
             /\ sessions'[j].state # "over" => sessions[j].state # "over"
             /\ sessions'[j].expires = sessions[j].expires
  <2>1. CASE j \in E
    <3>1. sessions'[j] = [sessions[j] EXCEPT !.state = "over"]
      BY <2>1
    <3> QED
      BY <1>1, <3>1, Moving
  <2>2. CASE j \notin E
    BY <1>1, <2>2
  <2> QED
    BY <2>1, <2>2
<1>3. DOMAIN sessions' = DOMAIN sessions
  OBVIOUS
<1>4. sessions' \in [DOMAIN sessions -> Session]
  BY <1>2, <1>3
<1>5. sessions' \in Seq(Session) /\ Len(sessions') = Len(sessions)
  BY <1>1, <1>4, EditedSequence
<1>6. Edited
  BY <1>2, <1>3 DEF Edited
<1> QED
  BY <1>5, <1>6

LEMMA CancelEdits ==
  ASSUME TypeOK, NEW i \in DOMAIN sessions, cancel(i)
  PROVE  Edited /\ sessions' \in Seq(Session) /\ Len(sessions') = Len(sessions)
<1> DEFINE E == {j \in DOMAIN sessions : j = i \/ (sessions[i].role = "cross" /\ sessions[j].role = "aux" /\ j > i
                    /\ sessions[j].wallet = sessions[i].wallet)}
<1>1. sessions' = [j \in DOMAIN sessions |->
                     IF j \in E THEN [sessions[j] EXCEPT !.state = "over"] ELSE sessions[j]]
  BY DEF cancel
<1> QED
  BY <1>1, EndingEdits

LEMMA RestartEdits ==
  ASSUME TypeOK, restart
  PROVE  Edited /\ sessions' \in Seq(Session) /\ Len(sessions') = Len(sessions)
<1> DEFINE E == {j \in DOMAIN sessions : sessions[j].state \in {"open", "busy"} \/ sessions[j].role = "aux"}
<1>1. sessions' = [j \in DOMAIN sessions |->
                     IF j \in E THEN [sessions[j] EXCEPT !.state = "over"] ELSE sessions[j]]
  BY DEF restart
<1> QED
  BY <1>1, EndingEdits

\* A session added at the end.
LEMMA AddedSession ==
  ASSUME NEW q \in Seq(Session), NEW s \in Session, NEW p, p = Append(q, s)
  PROVE  /\ p \in Seq(Session) /\ Len(p) = Len(q) + 1
         /\ Len(q) + 1 \notin DOMAIN q /\ DOMAIN p = DOMAIN q \cup {Len(q) + 1}
         /\ p[Len(q) + 1] = s /\ \A i \in DOMAIN q : p[i] = q[i]
<1>1. Len(q) \in Nat /\ DOMAIN q = 1..Len(q)
  BY SessionsFinite
<1>2. p \in Seq(Session) /\ Len(p) = Len(q) + 1 /\ p[Len(q) + 1] = s /\ \A i \in 1..Len(q) : p[i] = q[i]
  BY AppendProperties
<1>3. DOMAIN p = 1..(Len(q) + 1)
  BY <1>2, LenProperties
<1> QED
  BY <1>1, <1>2, <1>3

\* The session a call inserts, and the source of a destination.
Requested(t) ==
  [wallet |-> thr[t].request.wallet, anonymous |-> thr[t].request.anonymous,
   role |-> thr[t].request.role, state |-> "open", created |-> thr[t].now,
   expires |-> thr[t].now + Life]

SourceOf(i) == [sessions[i] EXCEPT !.role = "aux", !.created = clock["wall"]]

LEMMA RequestedIsSession ==
  ASSUME TypeOK, NEW t \in Threads, thr[t].pc \in {"admit", "insert"}
  PROVE  Requested(t) \in Session /\ thr[t].request \in world.calls /\ thr[t].now \in 0..MaxTime
<1>1. /\ thr[t].request \in world.calls /\ thr[t].now \in 0..MaxTime
  BY DEF TypeOK, Idle
<1>2. world \in Worlds
  BY DEF TypeOK
<1>3. /\ thr[t].request.wallet \in Wallets \cup {NoWallet} /\ thr[t].request.anonymous \in BOOLEAN
      /\ thr[t].request.role \in {"plain", "import", "cross"} /\ Life \in Nat /\ AckLife \in Nat /\ MaxTime \in Nat
  BY <1>1, <1>2, AdmissionAssumption
<1>4. thr[t].now + Life \in 0..(MaxTime + Life + AckLife)
  BY <1>1, <1>3
<1> QED
  BY <1>1, <1>3, <1>4 DEF Requested, Session

LEMMA SourceIsSession ==
  ASSUME TypeOK, NEW i \in DOMAIN sessions
  PROVE  /\ SourceOf(i) \in Session /\ SourceOf(i).role = "aux" /\ SourceOf(i).created = clock["wall"]
         /\ SourceOf(i).state = sessions[i].state /\ SourceOf(i).expires = sessions[i].expires
         /\ SourceOf(i).wallet = sessions[i].wallet
<1>1. sessions[i] \in Session /\ clock["wall"] \in 0..MaxTime
  BY SessionsFinite DEF TypeOK
<1> QED
  BY <1>1 DEF SourceOf, Session

-----------------------------------------------------------------------------
(* Types. *)

Typed == TypeOK /\ Shapes

LEMMA TypeInit == Init => Typed
<1> SUFFICES ASSUME Init PROVE Typed
  OBVIOUS
<1>1. world \in Worlds /\ world.time \in 1..MaxTime /\ MaxTime \in Nat /\ world.sessions \in 1..MaxSessions
      /\ MaxSessions \in Nat /\ world.steps \in Nat
  BY AdmissionAssumption DEF Init
<1>2. clock \in [{"trusted", "wall", "mono"} -> 0..MaxTime]
  BY <1>1 DEF Init
<1>3. sessions \in Seq(Session) /\ Len(sessions) <= world.sessions
  BY <1>1, EmptySeq DEF Init
<1>4. thr \in [Threads -> {Idle}]
  BY DEF Init
<1> QED
  BY <1>1, <1>2, <1>3, <1>4 DEF Init, Typed, TypeOK, Shapes, NoStrikes

LEMMA TypeStep == Typed /\ [Next]_vars => Typed'
<1> SUFFICES ASSUME Typed, [Next]_vars PROVE Typed'
  OBVIOUS
<1> DEFINE Calling(w) == [pc: {"admit", "insert"}, request: w.calls, now: 0..MaxTime, began: 0..MaxTime]
<1>0. /\ TypeOK /\ Shapes /\ world \in Worlds /\ world.threads \subseteq Threads
      /\ world.time \in 1..MaxTime /\ world.sessions \in 1..MaxSessions /\ world.steps \in Nat
      /\ MaxTime \in Nat /\ MaxSessions \in Nat
      /\ sessions \in Seq(Session) /\ Len(sessions) \in Nat
  BY AdmissionAssumption, SessionsFinite DEF Typed, TypeOK
<1>1. ASSUME NEW t \in Threads, enforce_creation_bounds(t)
      PROVE  Typed'
  <2>1. thr[t] \in Calling(world)
    BY <1>0, <1>1 DEF TypeOK, Idle, enforce_creation_bounds
  <2>2. thr' \in [Threads -> {Idle} \cup Calling(world)]
    <3>1. [thr[t] EXCEPT !.pc = "insert"] \in Calling(world)
      BY <2>1
    <3> QED
      BY <1>0, <1>1, <3>1 DEF enforce_creation_bounds, TypeOK
  <2>3. DOMAIN cooldown' = Wallets /\ \A w \in Wallets : cooldown'[w].strikes \in Nat
    BY <1>0, <1>1 DEF enforce_creation_bounds, TypeOK, Shapes, NoStrikes
  <2>4. admission' \in Threads \cup {NoThread} /\ UNCHANGED <<world, clock, limits, sessions, left>>
    BY <1>0, <1>1 DEF enforce_creation_bounds, TypeOK
  <2> QED
    BY <1>0, <2>2, <2>3, <2>4 DEF TypeOK, Shapes, Typed
<1>2. ASSUME NEW t \in Threads, insert_session(t)
      PROVE  Typed'
  <2>1. sessions' \in Seq(Session) /\ Len(sessions') <= world.sessions
    <3>1. CASE Len(sessions) < world.sessions /\ sessions' = Append(sessions, Requested(t))
      <4>1. Requested(t) \in Session
        BY <1>0, <1>2, RequestedIsSession DEF insert_session
      <4> QED
        BY <1>0, <3>1, <4>1, AddedSession
    <3>2. CASE UNCHANGED sessions
      BY <1>0, <3>2 DEF TypeOK
    <3> QED
      BY <1>2, <3>1, <3>2 DEF insert_session, Requested
  <2> QED
    BY <1>0, <1>2, <2>1 DEF insert_session, TypeOK, Shapes, Typed
<1>3. ASSUME NEW t \in Threads, NEW r \in world.calls, prepare(t, r)
      PROVE  Typed'
  <2>1. PICK c \in {"trusted", "wall"} :
          /\ Sweep(clock[c])
          /\ thr' = [thr EXCEPT ![t] = [pc |-> "admit", request |-> r, now |-> clock[c], began |-> clock["mono"]]]
    BY <1>3 DEF prepare
  <2>2. sessions' \in Seq(Session) /\ Len(sessions') = Len(sessions)
    BY <1>0, <2>1, SweepEdits
  <2>3. clock[c] \in 0..MaxTime /\ clock["mono"] \in 0..MaxTime
    BY <1>0 DEF TypeOK
  <2>4. thr' \in [Threads -> {Idle} \cup Calling(world)]
    BY <1>0, <2>1, <2>3 DEF TypeOK
  <2> QED
    BY <1>0, <1>3, <2>2, <2>4 DEF prepare, TypeOK, Shapes, Typed
<1>4. ASSUME NEW i \in DOMAIN sessions, proceed(i)
      PROVE  Typed'
  BY <1>0, <1>4, ProceedEdits DEF proceed, TypeOK, Shapes, Typed
<1>5. ASSUME NEW i \in DOMAIN sessions, pair_cross_surface(i)
      PROVE  Typed'
  <2>1. SourceOf(i) \in Session /\ sessions' = Append(sessions, SourceOf(i)) /\ Len(sessions) < world.sessions
    BY <1>0, <1>5, SourceIsSession DEF pair_cross_surface, SourceOf
  <2>2. sessions' \in Seq(Session) /\ Len(sessions') <= world.sessions
    BY <1>0, <2>1, AddedSession
  <2> QED
    BY <1>0, <1>5, <2>2 DEF pair_cross_surface, TypeOK, Shapes, Typed
<1>6. ASSUME NEW i \in DOMAIN sessions, cancel(i)
      PROVE  Typed'
  <2>1. sessions' \in Seq(Session) /\ Len(sessions') = Len(sessions)
    BY <1>0, <1>6, CancelEdits
  <2>2. DOMAIN cooldown' = Wallets /\ \A w \in Wallets : cooldown'[w].strikes \in Nat
    <3>1. sessions[i].wallet \in Wallets \cup {NoWallet}
      BY <1>0, SessionsFinite DEF Session
    <3>2. PICK c \in {"trusted", "wall"} :
            cooldown' = IF sessions[i].wallet = NoWallet THEN cooldown ELSE record_backoff(sessions[i].wallet, c)
      BY <1>6 DEF cancel
    <3> QED
      BY <1>0, <3>1, <3>2 DEF record_backoff, TypeOK, Shapes
  <2> QED
    BY <1>0, <1>6, <2>1, <2>2 DEF cancel, TypeOK, Shapes, Typed
<1>7. ASSUME NEW c \in {"trusted", "wall"}, set_clock(c)
      PROVE  Typed'
  <2>1. clock' \in [{"trusted", "wall", "mono"} -> 0..MaxTime]
    BY <1>0, <1>7 DEF set_clock, TypeOK
  <2>2. left'.steps = left.steps - 1 /\ left.steps > 0 /\ DOMAIN left' = DOMAIN left
    BY <1>0, <1>7 DEF set_clock, Shapes
  <2>3. left'.steps \in 0..world.steps
    BY <1>0, <2>2 DEF TypeOK
  <2> QED
    BY <1>0, <1>7, <2>1, <2>2, <2>3 DEF set_clock, TypeOK, Shapes, Typed
<1>8. ASSUME tick
      PROVE  Typed'
  <2>1. clock' \in [{"trusted", "wall", "mono"} -> 0..MaxTime]
    <3>1. DOMAIN clock = {"trusted", "wall", "mono"} /\ \A c \in {"trusted", "wall", "mono"} : clock[c] \in 0..MaxTime
      BY <1>0 DEF TypeOK
    <3>2. \A c \in {"trusted", "wall", "mono"} : clock[c] + 1 \in 0..MaxTime
      BY <1>0, <1>8, <3>1 DEF tick
    <3> QED
      BY <1>8, <3>1, <3>2 DEF tick
  <2> QED
    BY <1>0, <1>8, <2>1 DEF tick, TypeOK, Shapes, Typed
<1>9. ASSUME restart
      PROVE  Typed'
  <2>1. sessions' \in Seq(Session) /\ Len(sessions') = Len(sessions)
    BY <1>0, <1>9, RestartEdits
  <2>2. left'.steps = left.steps /\ DOMAIN left' = DOMAIN left
    BY <1>0, <1>9 DEF restart, Shapes
  <2> QED
    BY <1>0, <1>9, <2>1, <2>2 DEF restart, TypeOK, Shapes, Typed, NoStrikes
<1>10. CASE UNCHANGED vars
  BY <1>0, <1>10 DEF vars, TypeOK, Shapes, Typed
<1> QED
  BY <1>0, <1>1, <1>2, <1>3, <1>4, <1>5, <1>6, <1>7, <1>8, <1>9, <1>10 DEF Next

LEMMA AlwaysTyped == Spec => []Typed
BY TypeInit, TypeStep, PTL DEF Spec

\* Every session, call and limit keeps its type for any wallets, threads, worlds
\* and windows: what the arithmetic of deadlines and quotas relies on.
THEOREM AdmissionTypeCorrect == Spec => []TypeOK
<1>1. Typed => TypeOK
  BY DEF Typed
<1> QED
  BY <1>1, AlwaysTyped, PTL

-----------------------------------------------------------------------------
(* What a step does to the counts. *)

\* Neither a session nor the lock is taken or given up.
Quiet ==
  /\ Edited /\ UNCHANGED <<world, limits, admission>>
  /\ \A t \in Threads : thr'[t] = thr[t] \/ thr'[t].pc = "admit"

LEMMA UntouchedIsEdited == UNCHANGED sessions => Edited
BY DEF Edited

LEMMA QuietSteps ==
  ASSUME Typed, world.threads \subseteq Threads,
         \/ \E t \in world.threads, r \in world.calls : prepare(t, r)
         \/ \E i \in DOMAIN sessions : proceed(i) \/ cancel(i)
         \/ \E c \in {"trusted", "wall"} : set_clock(c)
         \/ tick \/ UNCHANGED vars
  PROVE  Quiet
<1>0. TypeOK /\ DOMAIN thr = Threads
  BY DEF Typed, TypeOK
<1>1. ASSUME NEW t \in world.threads, NEW r \in world.calls, prepare(t, r)
      PROVE  Quiet
  <2>1. PICK c \in {"trusted", "wall"} :
          /\ Sweep(clock[c])
          /\ thr' = [thr EXCEPT ![t] = [pc |-> "admit", request |-> r, now |-> clock[c], began |-> clock["mono"]]]
    BY <1>1 DEF prepare
  <2>2. Edited
    BY <1>0, <2>1, SweepEdits
  <2> QED
    BY <1>0, <1>1, <2>1, <2>2 DEF Quiet, prepare
<1>2. ASSUME NEW i \in DOMAIN sessions, proceed(i) \/ cancel(i)
      PROVE  Quiet
  BY <1>0, <1>2, ProceedEdits, CancelEdits DEF Quiet, proceed, cancel
<1>3. CASE (\E c \in {"trusted", "wall"} : set_clock(c)) \/ tick \/ UNCHANGED vars
  BY <1>0, <1>3, UntouchedIsEdited DEF Quiet, set_clock, tick, vars
<1> QED
  BY <1>1, <1>2, <1>3

\* A step is quiet, or one of the four that are not.
LEMMA StepKinds ==
  ASSUME Typed, [Next]_vars
  PROVE  \/ \E t \in Threads : enforce_creation_bounds(t) \/ insert_session(t)
         \/ \E i \in DOMAIN sessions : pair_cross_surface(i)
         \/ restart
         \/ Quiet
<1>1. world.threads \subseteq Threads
  BY AdmissionAssumption DEF Typed, TypeOK
<1> QED
  BY <1>1, QuietSteps DEF Next

\* An edit changes no count of creations, and no session comes under way again.
LEMMA EditedCounts ==
  ASSUME Typed, Edited
  PROVE  /\ \A w : OfWallet(w)' = OfWallet(w)
         /\ Registrations' = Registrations
         /\ \A w, at : creations_in_window(OfWallet(w), at)' = creations_in_window(OfWallet(w), at)
         /\ \A at : creations_in_window(Registrations, at)' = creations_in_window(Registrations, at)
         /\ \A w, at : Span(OfWallet(w), at)' = Span(OfWallet(w), at)
         /\ \A at : Span(Registrations, at)' = Span(Registrations, at)
         /\ Underway' \subseteq Underway
         /\ SourceTabs' \subseteq SourceTabs
<1>1. /\ \A w : OfWallet(w)' = OfWallet(w)
      /\ Registrations' = Registrations
  BY DEF Edited, OfWallet, Registrations
<1>2. /\ \A w, at : creations_in_window(OfWallet(w), at)' = creations_in_window(OfWallet(w), at)
      /\ \A at : creations_in_window(Registrations, at)' = creations_in_window(Registrations, at)
  BY <1>1 DEF Edited, OfWallet, Registrations, creations_in_window
<1>3. /\ \A w, at : Span(OfWallet(w), at)' = Span(OfWallet(w), at)
      /\ \A at : Span(Registrations, at)' = Span(Registrations, at)
  BY <1>1 DEF Edited, OfWallet, Registrations, Span, Admitted
<1>4. Underway' \subseteq Underway /\ SourceTabs' \subseteq SourceTabs
  BY DEF Edited, Underway, SourceTabs
<1> QED
  BY <1>1, <1>2, <1>3, <1>4

\* Every set that is counted is finite.
LEMMA CountsFinite ==
  ASSUME Typed
  PROVE  /\ \A w, at : IsFiniteSet(creations_in_window(OfWallet(w), at)) /\ IsFiniteSet(Span(OfWallet(w), at))
         /\ \A at : IsFiniteSet(creations_in_window(Registrations, at)) /\ IsFiniteSet(Span(Registrations, at))
         /\ IsFiniteSet(Underway) /\ IsFiniteSet(DOMAIN sessions)
<1>1. IsFiniteSet(DOMAIN sessions)
  BY SessionsFinite DEF Typed, TypeOK
<1>2. \A w, at : creations_in_window(OfWallet(w), at) \subseteq DOMAIN sessions /\ Span(OfWallet(w), at) \subseteq DOMAIN sessions
  BY DEF creations_in_window, OfWallet, Span, Admitted
<1>3. \A at : creations_in_window(Registrations, at) \subseteq DOMAIN sessions /\ Span(Registrations, at) \subseteq DOMAIN sessions
  BY DEF creations_in_window, Registrations, Span, Admitted
<1>4. Underway \subseteq DOMAIN sessions
  BY DEF Underway
<1> QED
  BY <1>1, <1>2, <1>3, <1>4, PartIsSmaller

-----------------------------------------------------------------------------
(* The admission lock. *)

LEMMA LockInit == Init => Locked
BY DEF Init, Locked, Idle

\* Nobody is between decision and insertion while the lock is free.
LEMMA FreeLock ==
  ASSUME Locked, admission = NoThread
  PROVE  \A t \in Threads : thr[t].pc # "insert"
BY AdmissionAssumption DEF Locked, Decided

LEMMA LockStep == Typed /\ Locked /\ [Next]_vars => Locked'
<1> SUFFICES ASSUME Typed, Locked, [Next]_vars, NEW u \in Threads, thr'[u].pc = "insert"
             PROVE  Decided(u)'
  BY DEF Locked
<1>0. DOMAIN thr = Threads
  BY DEF Typed, TypeOK
<1>1. ASSUME NEW t \in Threads, enforce_creation_bounds(t)
      PROVE  Decided(u)'
  <2>1. u = t
    BY <1>0, <1>1, FreeLock DEF enforce_creation_bounds
  <2>2. Admits(thr[t].request, thr[t].now)
    BY <1>0, <1>1, <2>1 DEF enforce_creation_bounds, Idle
  <2>3. admission' = t /\ thr'[t].request = thr[t].request /\ thr'[t].now = thr[t].now
    BY <1>0, <1>1, <2>2 DEF enforce_creation_bounds, Typed, TypeOK, Idle
  <2>4. UNCHANGED <<sessions, limits>>
    BY <1>1 DEF enforce_creation_bounds
  <2> QED
    BY <2>1, <2>2, <2>3, <2>4 DEF Decided, Admits, BelowQuotas, QuotaExhausted, creations_in_window,
       OfWallet, Registrations
<1>2. ASSUME NEW t \in Threads, insert_session(t)
      PROVE  FALSE
  <2>1. u # t /\ thr[u].pc = "insert"
    BY <1>0, <1>2 DEF insert_session, Idle
  <2> QED
    BY <1>2, <2>1 DEF insert_session, Locked, Decided
<1>3. ASSUME NEW i \in DOMAIN sessions, pair_cross_surface(i)
      PROVE  FALSE
  BY <1>3, FreeLock DEF pair_cross_surface
<1>4. ASSUME restart
      PROVE  FALSE
  BY <1>4 DEF restart, Idle
<1>5. ASSUME Quiet
      PROVE  Decided(u)'
  <2>1. thr'[u] = thr[u] /\ Decided(u)
    BY <1>5 DEF Quiet, Locked
  <2>2. UNCHANGED <<limits, admission>>
    BY <1>5 DEF Quiet
  <2>3. /\ \A w, at : creations_in_window(OfWallet(w), at)' = creations_in_window(OfWallet(w), at)
        /\ \A at : creations_in_window(Registrations, at)' = creations_in_window(Registrations, at)
    BY <1>5, EditedCounts DEF Quiet
  <2> QED
    BY <2>1, <2>2, <2>3 DEF Decided, QuotaExhausted
<1> QED
  BY <1>1, <1>2, <1>3, <1>4, <1>5, StepKinds

-----------------------------------------------------------------------------
(* The rolling quotas. *)

LEMMA QuotaInit == Init => Quotas
<1> SUFFICES ASSUME Init, NEW at \in Int
             PROVE  /\ \A w \in Wallets : Cardinality(Span(OfWallet(w), at)) <= Largest("wallet")
                    /\ Cardinality(Span(Registrations, at)) <= Largest("anonymous")
  BY DEF Quotas
<1>1. DOMAIN sessions = {}
  BY EmptySeq DEF Init
<1>2. /\ \A w \in Wallets : Span(OfWallet(w), at) = {}
      /\ Span(Registrations, at) = {}
  BY <1>1 DEF Span, Admitted, OfWallet, Registrations
<1>3. Largest("wallet") \in Nat /\ Largest("anonymous") \in Nat
  BY WidestPolicy DEF Init, LimitNames
<1>4. Cardinality({}) = 0
  BY FS_EmptySet
<1> QED
  BY <1>2, <1>3, <1>4

\* The session a call inserts stays within the quota it was admitted under: in
\* any window that holds it, every other session was in the window at the time
\* the call was admitted with.
LEMMA InsertWithinQuota ==
  ASSUME Typed, Locked, Quotas, NEW t \in Threads, thr[t].pc = "insert",
         sessions' = Append(sessions, Requested(t)), world' = world
  PROVE  Quotas'
<1> DEFINE k == Len(sessions) + 1
           r == thr[t].request
           now == thr[t].now
<1>1. /\ Requested(t) \in Session /\ r \in world.calls /\ now \in Nat
      /\ sessions \in Seq(Session) /\ world \in Worlds /\ limits \in world.policies
  BY RequestedIsSession, AdmissionAssumption DEF Typed, TypeOK
<1>2. /\ k \notin DOMAIN sessions /\ DOMAIN sessions' = DOMAIN sessions \cup {k}
      /\ sessions'[k] = Requested(t) /\ \A i \in DOMAIN sessions : sessions'[i] = sessions[i]
  BY <1>1, AddedSession
<1>3. /\ sessions'[k].wallet = r.wallet /\ sessions'[k].anonymous = r.anonymous
      /\ sessions'[k].created = now /\ sessions'[k].role = r.role
  BY <1>2 DEF Requested
<1>4. Decided(t)
  BY DEF Locked
<1>5. /\ Largest("wallet") \in Nat /\ Largest("anonymous") \in Nat
      /\ limits.wallet \in Nat /\ limits.wallet <= Largest("wallet")
      /\ limits.anonymous \in Nat /\ limits.anonymous <= Largest("anonymous")
  BY <1>1, WidestPolicy DEF LimitNames
<1>6. \A i \in DOMAIN sessions : sessions[i].created \in Nat
  BY <1>1, SessionTimes
<1>7. Largest("wallet")' = Largest("wallet") /\ Largest("anonymous")' = Largest("anonymous")
  BY DEF Largest
<1> HIDE DEF k, r, now
<1> SUFFICES ASSUME NEW at \in Int
             PROVE  /\ \A w \in Wallets : Cardinality(Span(OfWallet(w), at)') <= Largest("wallet")
                    /\ Cardinality(Span(Registrations, at)') <= Largest("anonymous")
  BY <1>7 DEF Quotas
<1>8. ASSUME NEW w \in Wallets
      PROVE  Cardinality(Span(OfWallet(w), at)') <= Largest("wallet")
  <2> DEFINE A == Span(OfWallet(w), at)
             B == creations_in_window(OfWallet(w), now)
             C == Span(OfWallet(w), at)'
  <2>1. IsFiniteSet(A) /\ IsFiniteSet(B) /\ Cardinality(A) <= Largest("wallet") /\ Cardinality(B) \in Nat
    BY CountsFinite, FS_CardinalityType DEF Quotas
  <2>2. C \subseteq A \cup {k}
    BY <1>2 DEF Span, Admitted, OfWallet
  <2>3. ASSUME k \in C
        PROVE  C \ {k} \subseteq B /\ Cardinality(B) < Largest("wallet")
    <3>1. Named(r) = w /\ now <= at
      BY <1>2, <1>3, <2>3 DEF Span, Admitted, OfWallet, Named
    <3>2. w # NoWallet
      BY AdmissionAssumption
    <3>3. Cardinality(B) < limits.wallet
      BY <1>4, <1>5, <2>1, <3>1, <3>2 DEF Decided, QuotaExhausted, r, now
    <3>4. C \ {k} \subseteq B
      <4> SUFFICES ASSUME NEW j \in C, j # k PROVE j \in B
        OBVIOUS
      <4>1. j \in DOMAIN sessions /\ sessions[j].wallet = w /\ sessions[j].created + Window > at
        BY <1>2 DEF Span, Admitted, OfWallet
      <4>2. sessions[j].created + Window > now
        BY <1>1, <1>6, <3>1, <4>1, AdmissionAssumption DEF now
      <4> QED
        BY <4>1, <4>2 DEF creations_in_window, OfWallet
    <3> QED
      BY <1>5, <2>1, <3>3, <3>4
  <2> HIDE DEF A, B, C
  <2>4. Cardinality(C) <= Largest("wallet")
    BY <1>5, <2>1, <2>2, <2>3, GainedOne
  <2> QED
    BY <2>4 DEF C
<1>9. Cardinality(Span(Registrations, at)') <= Largest("anonymous")
  <2> DEFINE A == Span(Registrations, at)
             B == creations_in_window(Registrations, now)
             C == Span(Registrations, at)'
  <2>1. IsFiniteSet(A) /\ IsFiniteSet(B) /\ Cardinality(A) <= Largest("anonymous") /\ Cardinality(B) \in Nat
    BY CountsFinite, FS_CardinalityType DEF Quotas
  <2>2. C \subseteq A \cup {k}
    BY <1>2 DEF Span, Admitted, Registrations
  <2>3. ASSUME k \in C
        PROVE  C \ {k} \subseteq B /\ Cardinality(B) < Largest("anonymous")
    <3>1. r.anonymous /\ now <= at
      BY <1>2, <1>3, <2>3 DEF Span, Admitted, Registrations
    <3>2. Cardinality(B) < limits.anonymous
      BY <1>4, <1>5, <2>1, <3>1 DEF Decided, QuotaExhausted, r, now
    <3>3. C \ {k} \subseteq B
      <4> SUFFICES ASSUME NEW j \in C, j # k PROVE j \in B
        OBVIOUS
      <4>1. j \in DOMAIN sessions /\ sessions[j].anonymous /\ sessions[j].created + Window > at
        BY <1>2 DEF Span, Admitted, Registrations
      <4>2. sessions[j].created + Window > now
        BY <1>1, <1>6, <3>1, <4>1, AdmissionAssumption DEF now
      <4> QED
        BY <4>1, <4>2 DEF creations_in_window, Registrations
    <3> QED
      BY <1>5, <2>1, <3>2, <3>3
  <2> HIDE DEF A, B, C
  <2>4. Cardinality(C) <= Largest("anonymous")
    BY <1>5, <2>1, <2>2, <2>3, GainedOne
  <2> QED
    BY <2>4 DEF C
<1> QED
  BY <1>8, <1>9

\* A source session was not asked for, and counts for nobody.
LEMMA SourceCountsForNobody ==
  ASSUME Typed, NEW i \in DOMAIN sessions, sessions' = Append(sessions, SourceOf(i))
  PROVE  /\ \A w, at : Span(OfWallet(w), at)' = Span(OfWallet(w), at)
         /\ \A at : Span(Registrations, at)' = Span(Registrations, at)
         /\ Underway' = Underway
<1> DEFINE k == Len(sessions) + 1
<1>1. SourceOf(i) \in Session /\ SourceOf(i).role = "aux" /\ sessions \in Seq(Session)
  BY SourceIsSession DEF Typed, TypeOK
<1>2. /\ k \notin DOMAIN sessions /\ DOMAIN sessions' = DOMAIN sessions \cup {k}
      /\ sessions'[k].role = "aux" /\ \A j \in DOMAIN sessions : sessions'[j] = sessions[j]
  BY <1>1, AddedSession
<1> HIDE DEF k
<1>3. \A w, at : Span(OfWallet(w), at)' = Span(OfWallet(w), at)
  BY <1>2 DEF Span, Admitted, OfWallet
<1>4. \A at : Span(Registrations, at)' = Span(Registrations, at)
  BY <1>2 DEF Span, Admitted, Registrations
<1>5. Underway' = Underway
  BY <1>2 DEF Underway
<1> QED
  BY <1>3, <1>4, <1>5

LEMMA QuotaStep == Typed /\ Locked /\ Quotas /\ [Next]_vars => Quotas'
<1> SUFFICES ASSUME Typed, Locked, Quotas, [Next]_vars PROVE Quotas'
  OBVIOUS
<1>1. ASSUME Edited, UNCHANGED world
      PROVE  Quotas'
  <2>1. Largest("wallet")' = Largest("wallet") /\ Largest("anonymous")' = Largest("anonymous")
    BY <1>1 DEF Largest
  <2> QED
    BY <1>1, <2>1, EditedCounts DEF Quotas
<1>2. ASSUME NEW t \in Threads, enforce_creation_bounds(t)
      PROVE  Quotas'
  BY <1>1, <1>2, UntouchedIsEdited DEF enforce_creation_bounds
<1>3. ASSUME NEW t \in Threads, insert_session(t)
      PROVE  Quotas'
  <2>1. CASE UNCHANGED sessions
    BY <1>1, <1>3, <2>1, UntouchedIsEdited DEF insert_session
  <2>2. CASE sessions' = Append(sessions, Requested(t))
    BY <1>3, <2>2, InsertWithinQuota DEF insert_session
  <2> QED
    BY <1>3, <2>1, <2>2 DEF insert_session, Requested
<1>4. ASSUME NEW i \in DOMAIN sessions, pair_cross_surface(i)
      PROVE  Quotas'
  <2>1. sessions' = Append(sessions, SourceOf(i)) /\ UNCHANGED world
    BY <1>4 DEF pair_cross_surface, SourceOf
  <2>2. Largest("wallet")' = Largest("wallet") /\ Largest("anonymous")' = Largest("anonymous")
    BY <2>1 DEF Largest
  <2> QED
    BY <2>1, <2>2, SourceCountsForNobody DEF Quotas
<1>5. CASE restart
  BY <1>1, <1>5, RestartEdits DEF restart, Typed
<1>6. CASE Quiet
  BY <1>1, <1>6 DEF Quiet
<1> QED
  BY <1>2, <1>3, <1>4, <1>5, <1>6, StepKinds

\* The rolling quota: no window holds more sessions admitted for a wallet, or
\* more registrations, than the widest policy the Broker was started with, however
\* the clocks are set, the calls interleave and the Broker is restarted.
THEOREM RollingQuotaHolds == Spec => []RollingQuota
<1>1. ASSUME Typed, Quotas PROVE RollingQuota
  <2> SUFFICES ASSUME NEW i \in DOMAIN sessions
               PROVE  /\ \A w \in Wallets : Cardinality(Span(OfWallet(w), sessions[i].created)) <= Largest("wallet")
                      /\ Cardinality(Span(Registrations, sessions[i].created)) <= Largest("anonymous")
    BY DEF RollingQuota, Span
  <2>1. sessions[i].created \in Int
    BY <1>1, SessionTimes DEF Typed, TypeOK
  <2> QED
    BY <1>1, <2>1 DEF Quotas
<1>2. Typed /\ Quotas => RollingQuota
  BY <1>1
<1> QED
  BY <1>2, AlwaysTyped, LockInit, LockStep, QuotaInit, QuotaStep, PTL DEF Spec

-----------------------------------------------------------------------------
(* The concurrency quota, while no clock is set. *)

LEMMA TimelyInit == Init => Timely
<1> SUFFICES ASSUME Init PROVE OnTime
  BY DEF Timely
<1>1. DOMAIN sessions = {}
  BY EmptySeq DEF Init
<1>2. Cardinality(Underway) = 0
  <2>1. Underway = {}
    BY <1>1 DEF Underway
  <2> QED
    BY <2>1, FS_EmptySet
<1>3. Largest("sessions") \in Nat
  BY WidestPolicy DEF Init, LimitNames
<1>4. Alone /\ OneSource
  BY <1>1 DEF Alone, OneSource, SourceTabs
<1> QED
  BY <1>1, <1>2, <1>3, <1>4 DEF Init, OnTime

\* The clocks as numbers.
LEMMA ClockTypes ==
  ASSUME Typed
  PROVE  /\ DOMAIN clock = {"trusted", "wall", "mono"}
         /\ \A c \in {"trusted", "wall", "mono"} : clock[c] \in Nat
         /\ \A t \in Threads : thr[t] # Idle => thr[t].now \in Nat /\ thr[t].began \in Nat /\ thr[t].pc \in {"admit", "insert"}
<1>1. clock \in [{"trusted", "wall", "mono"} -> 0..MaxTime] /\ MaxTime \in Nat
  BY AdmissionAssumption DEF Typed, TypeOK
<1>2. ASSUME NEW t \in Threads, thr[t] # Idle
      PROVE  thr[t].now \in Nat /\ thr[t].began \in Nat /\ thr[t].pc \in {"admit", "insert"}
  <2>1. thr[t] \in [pc: {"admit", "insert"}, request: world.calls, now: 0..MaxTime, began: 0..MaxTime]
    BY <1>2 DEF Typed, TypeOK
  <2> QED
    BY <2>1
<1> QED
  BY <1>1, <1>2

\* An edit leaves a call that is under way as fresh as it was: a deadline is
\* moved beyond the present, which no call is ahead of.
LEMMA FreshKept ==
  ASSUME Typed, OnTime, Edited, UNCHANGED <<clock, limits>>,
         NEW t \in Threads, thr[t] # Idle, thr'[t] = thr[t], limits.sessions \in Nat
  PROVE  Fresh(t)'
<1>1. Fresh(t)
  BY DEF OnTime
<1>2. ASSUME NEW i \in DOMAIN sessions', sessions'[i].state # "over"
      PROVE  sessions'[i].expires > thr[t].now
  <2>1. i \in DOMAIN sessions /\ sessions[i].expires > thr[t].now
    BY <1>1, <1>2 DEF Edited, Fresh
  <2>2. ASSUME NEW c \in {"trusted", "wall"}, sessions'[i].expires = clock[c] + AckLife
        PROVE  sessions'[i].expires > thr[t].now
    <3>1. clock[c] = clock["mono"] /\ clock[c] \in Nat /\ thr[t].now \in Nat /\ AckLife \in Nat \ {0}
      BY ClockTypes, AdmissionAssumption DEF OnTime
    <3> QED
      BY <1>1, <2>2, <3>1 DEF Fresh
  <2> QED
    BY <2>1, <2>2 DEF Edited
<1>3. Cardinality(Underway') \in Nat /\ Cardinality(Underway) \in Nat /\ Cardinality(Underway') <= Cardinality(Underway)
  BY EditedCounts, CountsFinite, PartIsSmaller
<1>4. ASSUME NEW w, \A i \in OfWallet(w) : sessions[i].state = "over"
      PROVE  \A i \in OfWallet(w)' : sessions'[i].state = "over"
  BY <1>4 DEF Edited, OfWallet
<1> QED
  BY <1>1, <1>2, <1>3, <1>4 DEF Fresh

\* What an edit keeps of the rest.
LEMMA EditedOnTime ==
  ASSUME Typed, OnTime, Edited, UNCHANGED <<world, clock>>,
         \A t \in Threads : thr'[t] # Idle => Fresh(t)'
  PROVE  OnTime'
<1>1. \A i \in DOMAIN sessions' : sessions'[i].created <= clock["mono"]
  BY DEF OnTime, Edited
<1>2. Cardinality(Underway') \in Nat /\ Cardinality(Underway) \in Nat /\ Cardinality(Underway') <= Cardinality(Underway)
  BY EditedCounts, CountsFinite, PartIsSmaller
<1>3. Largest("sessions")' = Largest("sessions") /\ Largest("sessions") \in Nat
  BY WidestPolicy DEF Largest, LimitNames, Typed, TypeOK
<1>4. Cardinality(Underway)' <= Largest("sessions")'
  BY <1>2, <1>3 DEF OnTime
<1>5. Alone'
  BY DEF OnTime, Alone, Edited
<1>6. OneSource'
  <2>1. SourceTabs' \subseteq SourceTabs
    BY EditedCounts
  <2>2. SourceTabs \subseteq DOMAIN sessions
    BY DEF SourceTabs
  <2> QED
    BY <2>1, <2>2 DEF OnTime, OneSource, Edited
<1> QED
  BY <1>1, <1>4, <1>5, <1>6 DEF OnTime

\* The decision is taken with a sweep that still holds, so the live sessions it
\* counts are all there are.
LEMMA EnforceOnTime ==
  ASSUME Typed, OnTime, NEW t \in Threads, enforce_creation_bounds(t), limits.sessions \in Nat
  PROVE  OnTime'
<1>0. DOMAIN thr = Threads /\ UNCHANGED <<world, clock, limits, sessions>> /\ Edited
  BY UntouchedIsEdited DEF Typed, TypeOK, enforce_creation_bounds
<1>1. ASSUME NEW u \in Threads, thr'[u] # Idle, u # t
      PROVE  Fresh(u)'
  <2>1. thr'[u] = thr[u]
    BY <1>0, <1>1 DEF enforce_creation_bounds
  <2> QED
    BY <1>0, <1>1, <2>1, FreshKept
<1>2. ASSUME thr'[t] # Idle
      PROVE  Fresh(t)'
  <2>1. thr[t] # Idle /\ Fresh(t)
    BY DEF OnTime, enforce_creation_bounds, Idle
  <2>2. Admits(thr[t].request, thr[t].now) /\ thr' = [thr EXCEPT ![t].pc = "insert"]
    BY <1>0, <1>2 DEF enforce_creation_bounds
  <2>3. thr'[t].now = thr[t].now /\ thr'[t].began = thr[t].began
    BY <1>0, <2>1, <2>2 DEF Typed, TypeOK
  <2>4. Cardinality(Underway) < limits.sessions
    <3> DEFINE L == {i \in DOMAIN sessions : Live(sessions[i], thr[t].now)}
    <3>1. Cardinality(L) < limits.sessions
      BY <2>2 DEF Admits, BelowQuotas
    <3>2. Underway \subseteq L
      BY <2>1 DEF Underway, Live, Fresh
    <3>3. IsFiniteSet(L)
      BY CountsFinite, PartIsSmaller
    <3> QED
      BY <3>1, <3>2, <3>3, PartIsSmaller
  <2>5. Underway' = Underway
    BY <1>0 DEF Underway
  <2>6. ASSUME NEW i \in OfWallet(Named(thr[t].request)), Named(thr[t].request) # NoWallet
        PROVE  sessions[i].state = "over"
    <3>1. ~Live(sessions[i], thr[t].now) /\ i \in DOMAIN sessions
      BY <2>2, <2>6 DEF Admits, BelowQuotas, OfWallet
    <3> QED
      BY <2>1, <3>1 DEF Live, Fresh
  <2>7. thr'[t].request = thr[t].request /\ \A w : OfWallet(w)' = OfWallet(w)
    BY <1>0, <2>1, <2>2 DEF Typed, TypeOK, OfWallet
  <2> QED
    BY <1>0, <2>1, <2>3, <2>4, <2>5, <2>6, <2>7 DEF Fresh
<1> QED
  BY <1>0, <1>1, <1>2, EditedOnTime

\* The inserted session outlives the present, and fills at most the slot that
\* was free when the lock was taken.
LEMMA InsertOnTime ==
  ASSUME Typed, Locked, OnTime, NEW t \in Threads, insert_session(t), limits.sessions \in Nat,
         sessions' = Append(sessions, Requested(t))
  PROVE  OnTime'
<1> DEFINE k == Len(sessions) + 1
<1>0. DOMAIN thr = Threads /\ UNCHANGED <<world, clock, limits>> /\ thr'[t] = Idle /\ thr[t] # Idle
      /\ thr[t].pc = "insert" /\ \A u \in Threads \ {t} : thr'[u] = thr[u]
  BY DEF Typed, TypeOK, insert_session, Idle
<1>1. Fresh(t)
  BY <1>0 DEF OnTime
<1>2. Requested(t) \in Session /\ sessions \in Seq(Session)
  BY <1>0, RequestedIsSession DEF Typed, TypeOK
<1>3. /\ k \notin DOMAIN sessions /\ DOMAIN sessions' = DOMAIN sessions \cup {k}
      /\ sessions'[k] = Requested(t) /\ \A i \in DOMAIN sessions : sessions'[i] = sessions[i]
  BY <1>2, AddedSession
<1>4. sessions'[k].created = thr[t].now /\ sessions'[k].expires = thr[t].now + Life
  BY <1>3 DEF Requested
<1>5. limits.sessions <= Largest("sessions") /\ Largest("sessions")' = Largest("sessions") /\ Largest("sessions") \in Nat
  BY <1>0, WidestPolicy DEF Typed, TypeOK, LimitNames, Largest
<1> HIDE DEF k
<1>6. Cardinality(Underway)' <= Largest("sessions")'
  <2>1. IsFiniteSet(Underway) /\ Cardinality(Underway) \in Nat /\ Cardinality(Underway) < limits.sessions
    BY <1>0, <1>1, CountsFinite, FS_CardinalityType DEF Fresh
  <2>2. Underway' \subseteq Underway \cup {k}
    BY <1>3 DEF Underway
  <2>3. Underway' \ {k} \subseteq Underway
    BY <2>2
  <2>4. Cardinality(Underway) <= Largest("sessions") /\ Cardinality(Underway) < Largest("sessions")
    BY <1>5, <2>1
  <2>5. Cardinality(Underway') <= Largest("sessions")
    BY <1>5, <2>1, <2>2, <2>3, <2>4, GainedOne
  <2> QED
    BY <1>5, <2>5
<1>7. \A i \in DOMAIN sessions' : sessions'[i].created <= clock["mono"]
  BY <1>1, <1>3, <1>4 DEF OnTime, Fresh
<1>8. ASSUME NEW u \in Threads, thr'[u] # Idle
      PROVE  Fresh(u)'
  <2>1. u # t /\ thr'[u] = thr[u] /\ thr[u] # Idle /\ Fresh(u)
    BY <1>0, <1>8 DEF OnTime
  <2>2. thr[u].pc # "insert"
    BY <1>0, <2>1 DEF Locked, Decided
  <2>3. thr[t].now + Life > thr[u].now
    <3>1. /\ thr[t].now \in Nat /\ thr[u].now \in Nat /\ clock["mono"] \in Nat /\ Life \in Nat
      BY <1>0, <2>1, ClockTypes, AdmissionAssumption
    <3> QED
      BY <1>1, <2>1, <3>1 DEF Fresh
  <2>4. \A i \in DOMAIN sessions' : sessions'[i].state # "over" => sessions'[i].expires > thr[u].now
    BY <1>3, <1>4, <2>1, <2>3 DEF Fresh
  <2> QED
    BY <1>0, <2>1, <2>2, <2>4 DEF Fresh
<1>9. Alone'
  <2> SUFFICES ASSUME NEW i \in DOMAIN sessions', NEW j \in DOMAIN sessions', j < i,
                      sessions'[i].wallet = sessions'[j].wallet, sessions'[i].wallet # NoWallet,
                      sessions'[i].role \in {"plain", "cross"}
               PROVE  sessions'[j].state = "over"
    BY DEF Alone
  <2>1. CASE i \in DOMAIN sessions /\ j \in DOMAIN sessions
    BY <1>3, <2>1 DEF OnTime, Alone
  <2>2. CASE i = k /\ j \in DOMAIN sessions
    <3>1. Named(thr[t].request) = sessions[j].wallet /\ sessions[j].wallet # NoWallet
      BY <1>3, <2>2 DEF Requested, Named
    <3>2. j \in OfWallet(Named(thr[t].request))
      BY <2>2, <3>1 DEF OfWallet
    <3> QED
      BY <1>0, <1>1, <1>3, <2>2, <3>1, <3>2 DEF Fresh
  <2>3. CASE j = k
    <3>1. DOMAIN sessions = 1..Len(sessions) /\ Len(sessions) \in Nat
      BY <1>2, SessionsFinite
    <3> QED
      BY <1>3, <2>3, <3>1 DEF k
  <2> QED
    BY <1>3, <2>1, <2>2, <2>3
<1>10. OneSource'
  <2>1. Requested(t).role # "aux"
    <3>1. thr[t].request \in world.calls /\ world \in Worlds
      BY <1>0, RequestedIsSession DEF Typed, TypeOK
    <3>2. thr[t].request.role \in {"plain", "import", "cross"}
      BY <3>1, AdmissionAssumption
    <3> QED
      BY <3>2 DEF Requested
  <2>2. SourceTabs' = SourceTabs /\ SourceTabs \subseteq DOMAIN sessions
    BY <1>3, <2>1 DEF SourceTabs
  <2> QED
    BY <1>3, <2>2 DEF OnTime, OneSource
<1> QED
  BY <1>0, <1>6, <1>7, <1>8, <1>9, <1>10 DEF OnTime

\* A source tab is added for a destination that has none; those of earlier
\* destinations of the wallet ended before it was admitted.
LEMMA PairOnTime ==
  ASSUME Typed, Locked, OnTime, NEW i \in DOMAIN sessions, pair_cross_surface(i)
  PROVE  OnTime'
<1> DEFINE k == Len(sessions) + 1
<1>0. UNCHANGED <<world, clock, limits, thr>> /\ sessions' = Append(sessions, SourceOf(i)) /\ sessions[i].state = "open"
  BY DEF pair_cross_surface, SourceOf
<1>1. /\ SourceOf(i) \in Session /\ SourceOf(i).created = clock["wall"]
      /\ SourceOf(i).expires = sessions[i].expires /\ sessions \in Seq(Session)
      /\ SourceOf(i).role = "aux" /\ SourceOf(i).wallet = sessions[i].wallet
  BY SourceIsSession DEF Typed, TypeOK
<1>2. /\ DOMAIN sessions' = DOMAIN sessions \cup {k} /\ k \notin DOMAIN sessions
      /\ sessions'[k] = SourceOf(i) /\ \A j \in DOMAIN sessions : sessions'[j] = sessions[j]
  BY <1>0, <1>1, AddedSession
<1>3. Underway' = Underway /\ Largest("sessions")' = Largest("sessions")
  BY <1>0, SourceCountsForNobody DEF Largest
<1>4. clock["wall"] = clock["mono"] /\ clock["mono"] \in Nat
  BY ClockTypes DEF OnTime
<1> HIDE DEF k
<1>5. \A j \in DOMAIN sessions' : sessions'[j].created <= clock["mono"]
  BY <1>1, <1>2, <1>4 DEF OnTime
<1>6. ASSUME NEW t \in Threads, thr[t] # Idle
      PROVE  Fresh(t)'
  <2>1. Fresh(t)
    BY <1>6 DEF OnTime
  <2>2. \A j \in DOMAIN sessions' : sessions'[j].state # "over" => sessions'[j].expires > thr[t].now
    BY <1>0, <1>1, <1>2, <2>1 DEF Fresh
  <2>3. thr[t].pc # "insert"
    BY FreeLock DEF pair_cross_surface
  <2> QED
    BY <1>0, <1>3, <2>1, <2>2, <2>3 DEF Fresh
<1>7. DOMAIN sessions = 1..Len(sessions) /\ Len(sessions) \in Nat
  BY <1>1, SessionsFinite
<1>8. Alone'
  <2> SUFFICES ASSUME NEW h \in DOMAIN sessions', NEW j \in DOMAIN sessions', j < h,
                      sessions'[h].wallet = sessions'[j].wallet, sessions'[h].wallet # NoWallet,
                      sessions'[h].role \in {"plain", "cross"}
               PROVE  sessions'[j].state = "over"
    BY DEF Alone
  <2>1. h \in DOMAIN sessions
    BY <1>1, <1>2
  <2>2. j \in DOMAIN sessions
    BY <1>2, <1>7, <2>1 DEF k
  <2> QED
    BY <1>2, <2>1, <2>2 DEF OnTime, Alone
<1>9. OneSource'
  <2>1. ASSUME NEW j \in SourceTabs
        PROVE  j \in DOMAIN sessions /\ sessions[j].wallet # sessions[i].wallet
    <3> SUFFICES ASSUME sessions[j].wallet = sessions[i].wallet PROVE FALSE
      BY <2>1 DEF SourceTabs
    <3>1. j \in DOMAIN sessions /\ sessions[j].role = "aux" /\ sessions[j].state # "over"
      BY <2>1 DEF SourceTabs
    <3>2. j < i /\ sessions[i].wallet # NoWallet /\ sessions[i].role = "cross"
      BY <3>1 DEF pair_cross_surface
    <3> QED
      BY <3>1, <3>2 DEF OnTime, Alone
  <2>2. SourceTabs' \subseteq SourceTabs \cup {k} /\ SourceTabs \subseteq DOMAIN sessions
    BY <1>2 DEF SourceTabs
  <2>3. sessions'[k].wallet = sessions[i].wallet /\ \A j \in DOMAIN sessions : sessions'[j] = sessions[j]
    BY <1>1, <1>2
  <2>4. ASSUME NEW g \in SourceTabs', NEW h \in SourceTabs', sessions'[g].wallet = sessions'[h].wallet
        PROVE  g = h
    <3>1. CASE g \in SourceTabs /\ h \in SourceTabs
      BY <2>2, <2>3, <2>4, <3>1 DEF OnTime, OneSource
    <3>2. CASE g = k \/ h = k
      BY <2>1, <2>2, <2>3, <2>4, <3>2
    <3> QED
      BY <2>2, <3>1, <3>2
  <2> QED
    BY <2>4 DEF OneSource
<1> QED
  BY <1>0, <1>3, <1>5, <1>6, <1>8, <1>9 DEF OnTime

LEMMA PrepareOnTime ==
  ASSUME Typed, OnTime, NEW t \in Threads, NEW r \in world.calls, prepare(t, r), limits.sessions \in Nat
  PROVE  OnTime'
<1>1. PICK c \in {"trusted", "wall"} :
        /\ Sweep(clock[c])
        /\ thr' = [thr EXCEPT ![t] = [pc |-> "admit", request |-> r, now |-> clock[c], began |-> clock["mono"]]]
  BY DEF prepare
<1>2. UNCHANGED <<world, clock, limits>> /\ DOMAIN thr = Threads
  BY DEF prepare, Typed, TypeOK
<1>3. /\ Edited
      /\ \A i \in DOMAIN sessions : sessions'[i].state # "over" => sessions'[i].expires > clock[c]
  BY <1>1, SweepEdits DEF Typed
<1>4. clock[c] = clock["mono"] /\ clock["mono"] \in Nat /\ Life \in Nat \ {0}
  BY ClockTypes, AdmissionAssumption DEF OnTime
<1>5. thr'[t].now = clock[c] /\ thr'[t].began = clock["mono"] /\ thr'[t].pc = "admit"
  BY <1>1, <1>2
<1>6. Fresh(t)'
  BY <1>2, <1>3, <1>4, <1>5 DEF Fresh, Edited
<1>7. ASSUME NEW u \in Threads, thr'[u] # Idle, u # t
      PROVE  Fresh(u)'
  <2>1. thr'[u] = thr[u]
    BY <1>1, <1>2, <1>7
  <2> QED
    BY <1>2, <1>3, <1>7, <2>1, FreshKept
<1> QED
  BY <1>2, <1>3, <1>6, <1>7, EditedOnTime

LEMMA TickOnTime ==
  ASSUME Typed, OnTime, tick
  PROVE  OnTime'
<1>1. /\ UNCHANGED <<world, limits, sessions, thr>>
      /\ DOMAIN clock = {"trusted", "wall", "mono"} /\ DOMAIN clock' = DOMAIN clock
      /\ \A c \in DOMAIN clock : clock'[c] = clock[c] + 1 /\ clock[c] \in Nat
  BY ClockTypes DEF tick
<1>2. \A c \in DOMAIN clock' : clock'[c] = clock'["mono"]
  BY <1>1 DEF OnTime
<1>3. \A i \in DOMAIN sessions : sessions[i].created <= clock'["mono"]
  BY <1>1, SessionTimes DEF OnTime, Typed, TypeOK
<1>4. /\ Underway' = Underway /\ Largest("sessions")' = Largest("sessions")
      /\ (Alone /\ OneSource)' = (Alone /\ OneSource) /\ \A w : OfWallet(w)' = OfWallet(w)
  BY <1>1 DEF Underway, Largest, Alone, OneSource, SourceTabs, OfWallet
<1>5. ASSUME NEW t \in Threads, thr[t] # Idle
      PROVE  Fresh(t)'
  <2>1. Fresh(t) /\ clock["mono"] + 1 < thr[t].began + Life /\ thr[t].now \in Nat
    BY <1>5, ClockTypes DEF OnTime, tick
  <2>2. thr[t].now <= clock'["mono"] /\ clock'["mono"] < thr[t].now + Life
    BY <1>1, <2>1, AdmissionAssumption DEF Fresh
  <2> QED
    BY <1>1, <1>4, <2>1, <2>2 DEF Fresh
<1> QED
  BY <1>1, <1>2, <1>3, <1>4, <1>5 DEF OnTime

LEMMA TimelyStep == Typed /\ Locked /\ Timely /\ [Next]_vars => Timely'
<1> SUFFICES ASSUME Typed, Locked, Timely, [Next]_vars, Steady'
             PROVE  OnTime'
  BY DEF Timely
<1>0. /\ TypeOK /\ world.threads \subseteq Threads /\ left.steps \in Nat /\ left.steps <= world.steps
      /\ world.steps \in Nat /\ "steps" \in DOMAIN left
  BY AdmissionAssumption DEF Typed, TypeOK, Shapes
<1>1. limits.sessions \in Nat
  BY WidestPolicy DEF Typed, TypeOK, LimitNames
<1>2. ASSUME NEW c \in {"trusted", "wall"}, set_clock(c)
      PROVE  FALSE
  <2>1. left'.steps = left.steps - 1 /\ world' = world
    BY <1>0, <1>2 DEF set_clock
  <2>2. left'.steps = world.steps
    BY <2>1 DEF Steady
  <2> QED
    BY <1>0, <2>1, <2>2
<1>3. ASSUME UNCHANGED <<world, left>> PROVE OnTime
  BY <1>3 DEF Timely, Steady
<1>4. ASSUME NEW t \in Threads, enforce_creation_bounds(t)
      PROVE  OnTime'
  BY <1>1, <1>3, <1>4, EnforceOnTime DEF enforce_creation_bounds
<1>5. ASSUME Edited, UNCHANGED <<world, clock, limits, left>>, \A t \in Threads : thr'[t] \in {thr[t], Idle}
      PROVE  OnTime'
  <2>1. OnTime
    BY <1>3, <1>5
  <2>2. ASSUME NEW t \in Threads, thr'[t] # Idle
        PROVE  Fresh(t)'
    BY <1>1, <1>5, <2>1, <2>2, FreshKept
  <2> QED
    BY <1>5, <2>1, <2>2, EditedOnTime
<1>6. ASSUME NEW t \in Threads, insert_session(t)
      PROVE  OnTime'
  <2>1. CASE UNCHANGED sessions
    BY <1>0, <1>5, <1>6, <2>1, UntouchedIsEdited DEF insert_session, TypeOK
  <2>2. CASE sessions' = Append(sessions, Requested(t))
    <3>1. OnTime
      BY <1>3, <1>6 DEF insert_session
    <3> QED
      BY <1>1, <1>6, <2>2, <3>1, InsertOnTime
  <2> QED
    BY <1>6, <2>1, <2>2 DEF insert_session, Requested
<1>7. ASSUME NEW t \in Threads, NEW r \in world.calls, prepare(t, r)
      PROVE  OnTime'
  <2>1. OnTime
    BY <1>3, <1>7 DEF prepare
  <2> QED
    BY <1>1, <1>7, <2>1, PrepareOnTime
<1>8. ASSUME NEW i \in DOMAIN sessions, proceed(i) \/ cancel(i)
      PROVE  OnTime'
  <2>1. Edited
    BY <1>0, <1>8, ProceedEdits, CancelEdits
  <2> QED
    BY <1>5, <1>8, <2>1 DEF proceed, cancel
<1>9. ASSUME NEW i \in DOMAIN sessions, pair_cross_surface(i)
      PROVE  OnTime'
  <2>1. OnTime
    BY <1>3, <1>9 DEF pair_cross_surface
  <2> QED
    BY <1>9, <2>1, PairOnTime
<1>10. CASE tick
  <2>1. OnTime
    BY <1>3, <1>10 DEF tick
  <2> QED
    BY <1>10, <2>1, TickOnTime
<1>11. CASE restart
  <2>1. left'.steps = left.steps /\ UNCHANGED <<world, clock>> /\ \A t \in Threads : thr'[t] = Idle
    BY <1>0, <1>11 DEF restart
  <2>2. OnTime
    BY <2>1 DEF Timely, Steady
  <2> QED
    BY <1>0, <1>11, <2>1, <2>2, RestartEdits, EditedOnTime
<1>12. CASE UNCHANGED vars
  BY <1>5, <1>12, UntouchedIsEdited DEF vars
<1> QED
  BY <1>0, <1>2, <1>4, <1>6, <1>7, <1>8, <1>9, <1>10, <1>11, <1>12 DEF Next

\* The concurrency quota: while no clock is set, the sessions callers asked for
\* never outnumber it, and a wallet has one source tab beside them at most, although calls race, a sweep is taken before the lock, and a
\* completed ceremony is kept longer than the deadline the decision read.
THEOREM ConcurrencyBoundHolds == Spec => []ConcurrencyBound
<1>1. Timely => ConcurrencyBound
  BY DEF Timely, OnTime, OneSource, ConcurrencyBound
<1> QED
  BY <1>1, AlwaysTyped, LockInit, LockStep, TimelyInit, TimelyStep, PTL DEF Spec

-----------------------------------------------------------------------------
(* The hint a refused caller is given. *)

\* A set of natural numbers that is not empty has a least element.
LEMMA LeastNatural ==
  ASSUME NEW N, N \subseteq Nat, N # {}
  PROVE  \E n \in N : \A m \in N : n <= m
<1>1. PICK n \in N : \A m \in N : ~ (<<m, n>> \in OpToRel(<, Nat))
  BY WFMin, NatLessThanWellFounded
<1>2. ASSUME NEW m \in N
      PROVE  n <= m
  <2>1. ~ (<<m, n>> \in OpToRel(<, Nat))
    BY <1>1
  <2> QED
    BY <2>1 DEF OpToRel
<1> QED
  BY <1>2

\* The n-th creation in order of time exists: fewer than n came before it, and
\* at least n came no later.
LEMMA NthExists ==
  ASSUME Typed, NEW recent, recent \subseteq DOMAIN sessions,
         NEW n \in Nat \ {0}, n <= Cardinality(recent)
  PROVE  LET at == Nth(recent, n) IN
         /\ \E i \in recent : sessions[i].created = at
         /\ Cardinality({i \in recent : sessions[i].created < at}) < n
         /\ Cardinality({i \in recent : sessions[i].created <= at}) >= n
<1> DEFINE Before(at) == {i \in recent : sessions[i].created < at}
           By(at) == {i \in recent : sessions[i].created <= at}
           Times == {at \in Nat : Cardinality(By(at)) >= n}
<1>1. /\ \A i \in recent : sessions[i].created \in Nat /\ sessions[i].created <= MaxTime
      /\ IsFiniteSet(recent) /\ MaxTime \in Nat
  <2>1. \A i \in DOMAIN sessions : sessions[i].created \in 0..MaxTime
    BY SessionsFinite DEF Typed, TypeOK, Session
  <2>2. IsFiniteSet(recent)
    BY CountsFinite, PartIsSmaller
  <2>3. MaxTime \in Nat
    BY AdmissionAssumption
  <2> QED
    BY <2>1, <2>2, <2>3
<1>2. By(MaxTime) = recent
  BY <1>1
<1>3. MaxTime \in Times
  BY <1>1, <1>2
<1>4. PICK at \in Times : \A m \in Times : at <= m
  <2>1. Times \subseteq Nat /\ Times # {}
    BY <1>3
  <2> QED
    BY <2>1, LeastNatural
<1>5. at \in Nat /\ Cardinality(By(at)) >= n
  BY <1>4
<1>6. Cardinality(Before(at)) < n
  <2>1. CASE at = 0
    <3>1. Before(at) = {}
      BY <1>1, <2>1
    <3> HIDE DEF Before
    <3> QED
      BY <3>1, FS_EmptySet
  <2>2. CASE at # 0
    <3>1. at - 1 \in Nat /\ at - 1 \notin Times
      BY <1>4, <1>5, <2>2
    <3>2. Before(at) = By(at - 1)
      BY <1>1, <1>5, <3>1
    <3>3. Cardinality(By(at - 1)) \in Nat
      <4>1. By(at - 1) \subseteq recent
        OBVIOUS
      <4> QED
        BY <1>1, <4>1, PartIsSmaller
    <3>4. ~(Cardinality(By(at - 1)) >= n)
      BY <3>1
    <3> HIDE DEF Before, By
    <3> QED
      BY <3>2, <3>3, <3>4
  <2> QED
    BY <2>1, <2>2
<1>7. \E i \in recent : sessions[i].created = at
  <2> SUFFICES ASSUME \A i \in recent : sessions[i].created # at PROVE FALSE
    OBVIOUS
  <2>1. By(at) = Before(at)
    BY <1>1, <1>5
  <2>2. Cardinality(Before(at)) \in Nat
    <3>1. Before(at) \subseteq recent
      OBVIOUS
    <3> QED
      BY <1>1, <3>1, PartIsSmaller
  <2> HIDE DEF Before, By
  <2> QED
    BY <1>5, <1>6, <2>1, <2>2
<1>8. \E x \in {sessions[i].created : i \in recent} : Cardinality(Before(x)) < n /\ Cardinality(By(x)) >= n
  BY <1>5, <1>6, <1>7
<1>9. Nth(recent, n) = CHOOSE x \in {sessions[i].created : i \in recent} : Cardinality(Before(x)) < n /\ Cardinality(By(x)) >= n
  BY DEF Nth
<1> HIDE DEF Before, By
<1>10. /\ Nth(recent, n) \in {sessions[i].created : i \in recent}
       /\ Cardinality(Before(Nth(recent, n))) < n /\ Cardinality(By(Nth(recent, n))) >= n
  BY <1>8, <1>9
<1> QED
  BY <1>10 DEF Before, By

\* A set and one of its parts: the rest is what is left.
LEMMA Rest ==
  ASSUME NEW S, IsFiniteSet(S), NEW T, T \subseteq S
  PROVE  /\ IsFiniteSet(S \ T)
         /\ Cardinality(S) \in Nat /\ Cardinality(T) \in Nat /\ Cardinality(S \ T) \in Nat
         /\ Cardinality(S \ T) = Cardinality(S) - Cardinality(T)
<1>1. S \cap T = T
  OBVIOUS
<1>2. IsFiniteSet(T) /\ IsFiniteSet(S \ T)
  BY FS_Subset
<1> QED
  BY <1>1, <1>2, FS_Difference, FS_CardinalityType

\* The hint, for any wallet and any limit: the quota opens when it has passed,
\* and not a moment earlier.
LEMMA HintOpens ==
  ASSUME Typed, NEW w, NEW limit \in Nat \ {0}, NEW now \in Nat,
         \A i \in DOMAIN sessions : sessions[i].created <= now,
         QuotaExhausted(OfWallet(w), limit, now)
  PROVE  LET hint == rolling_quota_hint(creations_in_window(OfWallet(w), now), limit, now) IN
         /\ hint \in 1..Window
         /\ QuotaExhausted(OfWallet(w), limit, now + hint - 1)
         /\ ~QuotaExhausted(OfWallet(w), limit, now + hint)
<1> DEFINE recent == creations_in_window(OfWallet(w), now)
           n == Cardinality(recent) - limit + 1
           at == Nth(recent, n)
           hint == rolling_quota_hint(recent, limit, now)
           Before == {i \in recent : sessions[i].created < at}
           By == {i \in recent : sessions[i].created <= at}
<1>1. /\ recent \subseteq DOMAIN sessions /\ IsFiniteSet(recent) /\ Cardinality(recent) \in Nat
      /\ Cardinality(recent) >= limit
  BY CountsFinite, FS_CardinalityType DEF creations_in_window, OfWallet, QuotaExhausted
<1>2. n \in Nat \ {0} /\ n <= Cardinality(recent)
  BY <1>1
<1>3. /\ \E i \in recent : sessions[i].created = at
      /\ Cardinality(Before) < n /\ Cardinality(By) >= n
  <2> HIDE DEF recent, n
  <2> QED
    BY <1>1, <1>2, NthExists
<1>4. \A i \in DOMAIN sessions : sessions[i].created \in Nat
  BY SessionTimes DEF Typed, TypeOK
<1>5. Window \in Nat \ {0}
  BY AdmissionAssumption
<1>6. at \in Nat /\ at <= now /\ at + Window > now
  <2> HIDE DEF at, n
  <2>1. PICK i \in recent : sessions[i].created = at
    BY <1>3
  <2> QED
    BY <1>1, <1>4, <2>1 DEF creations_in_window, OfWallet
<1>7. hint = at + Window - now /\ hint \in 1..Window
  <2>1. hint = clamp(at + Window - now)
    BY DEF rolling_quota_hint
  <2> HIDE DEF at, hint
  <2> QED
    BY <1>5, <1>6, <2>1 DEF clamp
<1>8. now + hint = at + Window
  <2> HIDE DEF at, hint
  <2> QED
    BY <1>5, <1>6, <1>7
<1> HIDE DEF n, at, hint
<1>9. QuotaExhausted(OfWallet(w), limit, now + hint - 1)
  <2>1. recent \ Before \subseteq creations_in_window(OfWallet(w), now + hint - 1)
    <3> SUFFICES ASSUME NEW i \in recent, ~(sessions[i].created < at)
                 PROVE  i \in creations_in_window(OfWallet(w), now + hint - 1)
      OBVIOUS
    <3>1. i \in OfWallet(w) /\ sessions[i].created \in Nat
      BY <1>1, <1>4 DEF creations_in_window
    <3>2. sessions[i].created + Window > now + hint - 1
      BY <1>5, <1>6, <1>7, <1>8, <3>1
    <3> QED
      BY <3>1, <3>2 DEF creations_in_window
  <2>2. Before \subseteq recent
    OBVIOUS
  <2>3. Cardinality(recent \ Before) \in Nat /\ Cardinality(recent \ Before) >= limit
    <3> HIDE DEF recent, Before, By
    <3>1. /\ IsFiniteSet(recent \ Before) /\ Cardinality(recent \ Before) \in Nat /\ Cardinality(Before) \in Nat
          /\ Cardinality(recent \ Before) = Cardinality(recent) - Cardinality(Before)
      BY <1>1, <2>2, Rest
    <3> QED
      BY <1>1, <1>3, <3>1 DEF n
  <2>4. IsFiniteSet(creations_in_window(OfWallet(w), now + hint - 1))
    BY CountsFinite
  <2> QED
    BY <2>1, <2>3, <2>4, PartIsSmaller DEF QuotaExhausted
<1>10. ~QuotaExhausted(OfWallet(w), limit, now + hint)
  <2>1. creations_in_window(OfWallet(w), now + hint) \subseteq recent \ By
    <3> SUFFICES ASSUME NEW i \in creations_in_window(OfWallet(w), now + hint)
                 PROVE  i \in recent \ By
      OBVIOUS
    <3>1. i \in OfWallet(w) /\ sessions[i].created + Window > at + Window /\ sessions[i].created \in Nat
      BY <1>4, <1>8 DEF creations_in_window, OfWallet
    <3>2. sessions[i].created > at /\ sessions[i].created + Window > now
      BY <1>5, <1>6, <3>1
    <3> QED
      BY <1>6, <3>1, <3>2 DEF creations_in_window
  <2>2. By \subseteq recent
    OBVIOUS
  <2>3. IsFiniteSet(recent \ By) /\ Cardinality(recent \ By) \in Nat /\ Cardinality(recent \ By) < limit
    <3> HIDE DEF recent, Before, By
    <3>1. /\ IsFiniteSet(recent \ By) /\ Cardinality(recent \ By) \in Nat /\ Cardinality(By) \in Nat
          /\ Cardinality(recent \ By) = Cardinality(recent) - Cardinality(By)
      BY <1>1, <2>2, Rest
    <3> QED
      BY <1>1, <1>3, <3>1 DEF n
  <2> QED
    BY <2>1, <2>3, PartIsSmaller DEF QuotaExhausted
<1> QED
  BY <1>7, <1>9, <1>10 DEF hint

\* A caller refused by the rolling quota is told the first time at which the
\* quota lets it pass, for any population and any limit a restart may lower
\* beneath it, while no clock is set.
THEOREM RetryHintHolds == Spec => []RetryHintIsHonest
<1>1. ASSUME Typed, Timely PROVE RetryHintIsHonest
  <2> SUFFICES ASSUME Steady, NEW w \in Wallets,
                      Cardinality(creations_in_window(OfWallet(w), clock["trusted"])) >= limits.wallet
               PROVE  LET now == clock["trusted"]
                          hint == rolling_quota_hint(creations_in_window(OfWallet(w), now), limits.wallet, now)
                      IN /\ hint \in 1..Window
                         /\ QuotaExhausted(OfWallet(w), limits.wallet, now + hint - 1)
                         /\ ~QuotaExhausted(OfWallet(w), limits.wallet, now + hint)
    BY DEF RetryHintIsHonest
  <2>1. OnTime
    BY <1>1 DEF Timely
  <2>2. clock["trusted"] \in Nat /\ \A i \in DOMAIN sessions : sessions[i].created <= clock["trusted"]
    BY <1>1, <2>1, ClockTypes DEF OnTime
  <2>3. limits.wallet \in Nat \ {0}
    BY <1>1, WidestPolicy DEF Typed, TypeOK, LimitNames
  <2>4. QuotaExhausted(OfWallet(w), limits.wallet, clock["trusted"])
    BY DEF QuotaExhausted
  <2> QED
    BY <1>1, <2>2, <2>3, <2>4, HintOpens
<1>2. Typed /\ Timely => RetryHintIsHonest
  BY <1>1
<1> QED
  BY <1>2, AlwaysTyped, LockInit, LockStep, TimelyInit, TimelyStep, PTL DEF Spec
=============================================================================
