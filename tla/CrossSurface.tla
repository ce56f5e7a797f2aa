----------------------------- MODULE CrossSurface -----------------------------
(***************************************************************************)
(* Adding a passkey across surfaces (crates/bloom-broker/src/ceremony.rs): *)
(* one operation with two browser tabs.  The destination tab pairs and     *)
(* later registers the new passkey; the source tab, an auxiliary session,  *)
(* authorizes with an existing one; the Signer hands the authority over.   *)
(*                                                                         *)
(* Every step of the addition and every cancel hold the creation_admission *)
(* lock; the sweep of any other request does not.  A handler persists its  *)
(* sessions one after the other, then inserts them into memory together.   *)
(***************************************************************************)
EXTENDS Integers, Sequences, FiniteSets

CONSTANTS
  Threads, \* handlers that may run at once
  Faults   \* how many Signer answers may be lost in transit, audit failures
           \* latch the journal and process ends happen in a behaviour

VARIABLES
  mem,     \* sessions in memory: "dest" and "src"
  db,      \* their rows
  signer,  \* the Signer's record of the operation
  adopted, \* the completion observer applied the receipt
  passed,  \* deadlines passed: 1 pairing, 2 destination, 3 retained result
  thr, guard, phase, latched, left

vars == <<mem, db, signer, adopted, passed, thr, guard, phase, latched, left>>

Tabs == {"dest", "src"}

Absent == [state |-> "absent"]
NoThread == "none"

ASSUME CrossAssumption ==
  /\ IsFiniteSet(Threads) /\ NoThread \notin Threads
  /\ Faults \subseteq [lost: Nat, refused: Nat, crash: Nat]

is_terminal(state) ==
  state \in {"Completed", "Succeeded", "Cancelled", "Expired", "Failed", "AlreadyRegistered"}

\* bearer: a token or cookie opens the tab; retained: the result is readable
\* until its deadline.
Session == [state: {"AwaitingUser", "WalletCommitted", "Completed", "Succeeded", "Cancelled",
                    "Expired", "Failed", "AlreadyRegistered"},
            bearer: BOOLEAN, paired: BOOLEAN, handoff: BOOLEAN, result: BOOLEAN,
            retained: BOOLEAN, deadline: 1..3]

new_session(deadline) ==
  [state |-> "AwaitingUser", bearer |-> TRUE, paired |-> FALSE, handoff |-> FALSE,
   result |-> FALSE, retained |-> FALSE, deadline |-> deadline]

\* A handler's place, the sessions it cloned, what it has left to persist and
\* where it goes on.
Idle == [pc |-> "idle", seen |-> [x \in Tabs |-> Absent], todo |-> <<>>, then |-> "idle"]

Init ==
  /\ mem = [x \in Tabs |-> Absent]
  /\ db = [x \in Tabs |-> Absent]
  /\ signer = "missing"
  /\ adopted = FALSE
  /\ passed = 0
  /\ thr = [t \in Threads |-> Idle]
  /\ guard = NoThread
  /\ phase = "up"
  /\ latched = FALSE
  /\ left \in Faults

latch_terminal(s, state) == [s EXCEPT !.state = state, !.bearer = FALSE]

Known(x) == mem[x] # Absent
Due(x) == Known(x) /\ mem[x].deadline <= passed
Open(x) == Known(x) /\ mem[x].state = "AwaitingUser" /\ ~Due(x)
\* Mutant: an ended session is swept no more, its result is never taken away.
Swept_live(x) == Due(x) /\ ~is_terminal(mem[x].state)

Swept(x) == Due(x) /\ (~is_terminal(mem[x].state) \/ mem[x].retained)

-----------------------------------------------------------------------------
\* Control.

At(t, pc) == phase = "up" /\ thr[t].pc = pc

\* The handler starts, and holds the admission lock if it is not a sweep.
Enter(t, pc) ==
  /\ phase = "up" /\ thr[t] = Idle /\ guard = NoThread
  /\ thr' = [thr EXCEPT ![t].pc = pc, ![t].seen = mem]
  /\ guard' = t

Return(t) ==
  /\ thr' = [thr EXCEPT ![t] = Idle]
  /\ guard' = IF guard = t THEN NoThread ELSE guard

Goto(t, pc) == thr' = [thr EXCEPT ![t].pc = pc] /\ UNCHANGED guard

Put(x, s) == [tab |-> x, session |-> s, done |-> FALSE]

\* Persist the listed sessions in turn, insert them, go on at pc.
Write(t, list, pc) ==
  /\ thr' = [thr EXCEPT ![t].pc = "w_db", ![t].todo = list, ![t].then = pc]
  /\ UNCHANGED guard

Lose ==
  \/ latched /\ UNCHANGED left
  \/ left.lost > 0 /\ left' = [left EXCEPT !.lost = @ - 1]

SignerCancels ==
  /\ signer # "completed" /\ ~latched
  /\ signer' = IF signer \in {"paired", "authorized"} THEN "cancelled" ELSE signer

\* How the Broker names an end of the operation at the Signer.
EndState == [missing |-> "Expired", cancelled |-> "Cancelled", expired |-> "Expired",
             already |-> "AlreadyRegistered"]

persist_session(t) ==
  /\ At(t, "w_db")
  /\ \E i \in DOMAIN thr[t].todo :
       /\ ~thr[t].todo[i].done /\ \A j \in 1..(i - 1) : thr[t].todo[j].done
       /\ LET row == [db EXCEPT ![thr[t].todo[i].tab] = thr[t].todo[i].session] IN
          \/ /\ ~latched
             /\ db' = row
             /\ thr' = [thr EXCEPT ![t].todo[i].done = TRUE,
                                   ![t].pc = IF i = Len(thr[t].todo) THEN "w_mem" ELSE "w_db"]
             /\ UNCHANGED <<guard, latched, left>>
          \/ /\ ~latched /\ left.refused > 0
             /\ left' = [left EXCEPT !.refused = @ - 1]
             /\ latched' = TRUE
             /\ db' \in {db, row}
             /\ Return(t)
          \/ latched /\ Return(t) /\ UNCHANGED <<db, latched, left>>
  /\ UNCHANGED <<mem, signer, adopted, passed, phase>>

insert(t) ==
  /\ At(t, "w_mem")
  /\ mem' = [x \in Tabs |->
       IF \E i \in DOMAIN thr[t].todo : thr[t].todo[i].tab = x
         THEN thr[t].todo[CHOOSE i \in DOMAIN thr[t].todo : thr[t].todo[i].tab = x].session
         ELSE mem[x]]
  /\ IF thr[t].then = "idle" THEN Return(t)
       ELSE Goto(t, thr[t].then)
  /\ UNCHANGED <<db, signer, adopted, passed, phase, latched, left>>

-----------------------------------------------------------------------------
\* The addition.

\* prepare_cross_surface: the Signer is not involved yet.
prepare_cross_surface(t) ==
  /\ ~Known("dest") /\ db["dest"] = Absent
  /\ phase = "up" /\ thr[t] = Idle /\ guard = NoThread
  /\ guard' = t
  /\ thr' = [thr EXCEPT ![t].pc = "w_db", ![t].todo = <<Put("dest", new_session(2))>>]
  /\ UNCHANGED <<mem, db, signer, adopted, passed, phase, latched, left>>

\* A repeated pairing with the same key repeats its answer.
pair_cross_surface(t) ==
  /\ Open("dest") /\ mem["dest"].bearer /\ ~mem["dest"].paired
  /\ Enter(t, "p_call")
  /\ UNCHANGED <<mem, db, signer, adopted, passed, phase, latched, left>>

\* cross_surface_pair_start, then cross_surface_prepare_source; both sessions
\* of the pair are written from the clone taken before the calls.
pair_at_signer(t) ==
  /\ At(t, "p_call")
  /\ \/ /\ signer \in {"missing", "paired"} /\ ~latched
        /\ signer' = "paired"
        /\ \/ /\ Write(t, <<Put("src", [new_session(1) EXCEPT !.paired = TRUE]),
                            Put("dest", [thr[t].seen["dest"] EXCEPT !.paired = TRUE])>>, "idle")
              /\ UNCHANGED left
           \/ Lose /\ Return(t)
     \/ Return(t) /\ UNCHANGED <<signer, left>>
  /\ UNCHANGED <<mem, db, adopted, passed, phase, latched>>

authorize_cross_surface(t) ==
  /\ Open("src") /\ mem["src"].bearer
  /\ Enter(t, "a_call")
  /\ UNCHANGED <<mem, db, signer, adopted, passed, phase, latched, left>>

\* cross_surface_complete_source.
authorize_at_signer(t) ==
  /\ At(t, "a_call")
  /\ \/ /\ signer = "paired" /\ ~latched
        /\ signer' = "authorized"
        /\ \/ Goto(t, "a_write") /\ UNCHANGED left
           \/ Lose /\ Return(t)
     \/ Return(t) /\ UNCHANGED <<signer, left>>
  /\ UNCHANGED <<mem, db, adopted, passed, phase, latched>>

\* The destination is cloned only now, the source is the clone from before.
authorize_write(t) ==
  /\ At(t, "a_write")
  /\ Write(t, <<Put("dest", [mem["dest"] EXCEPT !.handoff = TRUE]),
                Put("src", latch_terminal(thr[t].seen["src"], "Completed"))>>, "idle")
  /\ UNCHANGED <<mem, db, signer, adopted, passed, phase, latched, left>>

\* finish_cross_surface: a committed destination is adopted, a retained result
\* repeated, an open one completed.
finish_cross_surface(t) ==
  /\ Known("dest") /\ mem["dest"].bearer /\ ~Swept("dest")
  /\ \/ mem["dest"].state = "WalletCommitted" /\ Enter(t, "f_read")
     \/ Open("dest") /\ mem["dest"].handoff /\ Enter(t, "f_call")
  /\ UNCHANGED <<mem, db, signer, adopted, passed, phase, latched, left>>

Committed(s) == [s EXCEPT !.state = "WalletCommitted", !.result = TRUE]

\* Mutant: a failed completion fails the destination, as complete_session does.
finish_at_signer_failing(t) ==
  /\ At(t, "f_call")
  /\ \/ /\ signer \in {"authorized", "completed"} /\ ~latched
        /\ signer' = "completed"
        /\ \/ Write(t, <<Put("dest", Committed(thr[t].seen["dest"]))>>, "f_read") /\ UNCHANGED left
           \/ Lose /\ Write(t, <<Put("dest", latch_terminal(thr[t].seen["dest"], "Failed"))>>, "idle")
     \/ Return(t) /\ UNCHANGED <<signer, left>>
  /\ UNCHANGED <<mem, db, adopted, passed, phase, latched>>

\* cross_surface_complete_destination.
finish_at_signer(t) ==
  /\ At(t, "f_call")
  /\ \/ /\ signer \in {"authorized", "completed"} /\ ~latched
        /\ signer' = "completed"
        /\ \/ Write(t, <<Put("dest", Committed(thr[t].seen["dest"]))>>, "f_read") /\ UNCHANGED left
           \/ Lose /\ Return(t)
     \/ Return(t) /\ UNCHANGED <<signer, left>>
  /\ UNCHANGED <<mem, db, adopted, passed, phase, latched>>

\* finalize_committed_session of a destination: the result stays readable.
Finalized(s) == [s EXCEPT !.state = "Succeeded", !.retained = TRUE, !.deadline = 3]

finalize(t) ==
  /\ At(t, "f_read")
  /\ IF mem["dest"].state = "WalletCommitted" /\ ~latched
       THEN adopted' = TRUE /\ Write(t, <<Put("dest", Finalized(mem["dest"]))>>, "idle")
       ELSE Return(t) /\ UNCHANGED adopted
  /\ UNCHANGED <<mem, db, signer, passed, phase, latched, left>>

\* already_registered_cross_surface: the provider holds a passkey of the wallet.
already_registered_cross_surface(t) ==
  /\ Open("dest") /\ mem["dest"].bearer /\ mem["dest"].handoff
  /\ Enter(t, "r_call")
  /\ UNCHANGED <<mem, db, signer, adopted, passed, phase, latched, left>>

already_at_signer(t) ==
  /\ At(t, "r_call")
  /\ \/ /\ signer \in {"authorized", "already"} /\ ~latched
        /\ signer' = "already"
        /\ \/ Write(t, <<Put("dest", latch_terminal(thr[t].seen["dest"], "AlreadyRegistered"))>>, "idle")
              /\ UNCHANGED left
           \/ Lose /\ Return(t)
     \/ Return(t) /\ UNCHANGED <<signer, left>>
  /\ UNCHANGED <<mem, db, adopted, passed, phase, latched>>

-----------------------------------------------------------------------------
\* expire_sessions, one session, without the lock.

sweep(t, x) ==
  /\ phase = "up" /\ thr[t] = Idle
  /\ Swept(x)
  /\ \/ /\ mem[x].retained
        /\ Write(t, <<Put(x, [latch_terminal(mem[x], mem[x].state) EXCEPT !.retained = FALSE])>>, "idle")
     \/ /\ ~mem[x].retained /\ x = "src"
        /\ Write(t, <<Put(x, latch_terminal(mem[x], "Expired"))>>, "idle")
     \/ /\ ~mem[x].retained /\ x = "dest"
        /\ Goto(t, IF mem[x].state = "WalletCommitted" THEN "f_read" ELSE "e_status")
  /\ UNCHANGED <<mem, db, signer, adopted, passed, phase, latched, left>>

expire_status(t) ==
  /\ At(t, "e_status")
  /\ \/ signer = "completed" /\ Goto(t, "e_adopt") /\ UNCHANGED left
     \/ signer \in {"paired", "authorized"} /\ Goto(t, "e_cancel") /\ UNCHANGED left
     \/ /\ signer \in DOMAIN EndState /\ UNCHANGED left
        /\ thr' = [thr EXCEPT ![t].pc = "e_end", ![t].then = EndState[signer]] /\ UNCHANGED guard
     \/ Lose /\ Return(t)
  /\ UNCHANGED <<mem, db, signer, adopted, passed, phase, latched>>

expire_cancel(t) ==
  /\ At(t, "e_cancel")
  /\ \/ /\ SignerCancels /\ UNCHANGED left
        /\ thr' = [thr EXCEPT ![t].pc = "e_end", ![t].then = "Expired"] /\ UNCHANGED guard
     \/ signer = "completed" /\ Return(t) /\ UNCHANGED <<signer, left>>
     \/ Lose /\ Return(t) /\ UNCHANGED signer
  /\ UNCHANGED <<mem, db, adopted, passed, phase, latched>>

\* The destination is cloned only now; its result is replaced.
expire_write(t) ==
  /\ \/ At(t, "e_adopt") /\ Write(t, <<Put("dest", Committed(mem["dest"]))>>, "f_read")
     \/ /\ At(t, "e_end")
        /\ Write(t, <<Put("dest", [latch_terminal(mem["dest"], thr[t].then) EXCEPT !.result = FALSE])>>,
                 "idle")
  /\ UNCHANGED <<mem, db, signer, adopted, passed, phase, latched, left>>

-----------------------------------------------------------------------------
\* cancel_with_backoff: its sweep comes first.

cancel(t) ==
  /\ ~Swept("dest") /\ ~Swept("src")
  /\ Known("dest") /\ mem["dest"].state = "AwaitingUser"
  /\ Enter(t, "x_call")
  /\ UNCHANGED <<mem, db, signer, adopted, passed, phase, latched, left>>

\* Mutant: the source tab is left alone.
cancel_at_signer_alone(t) ==
  /\ At(t, "x_call")
  /\ \/ SignerCancels /\ Goto(t, "x_dest")
     \/ signer = "completed" /\ Return(t) /\ UNCHANGED signer
  /\ UNCHANGED <<mem, db, adopted, passed, phase, latched, left>>

\* The source, as it is after the call, ends first; then the destination, as it
\* was before it.
cancel_at_signer(t) ==
  /\ At(t, "x_call")
  /\ \/ /\ SignerCancels
        /\ \/ /\ UNCHANGED left
              /\ IF Known("src") /\ ~is_terminal(mem["src"].state)
                   THEN Write(t, <<Put("src", latch_terminal(mem["src"], "Cancelled"))>>, "x_dest")
                   ELSE Goto(t, "x_dest")
           \/ Lose /\ Return(t)
     \/ signer = "completed" /\ Return(t) /\ UNCHANGED <<signer, left>>
     \/ Lose /\ Return(t) /\ UNCHANGED signer
  /\ UNCHANGED <<mem, db, adopted, passed, phase, latched>>

cancel_write(t) ==
  /\ At(t, "x_dest")
  /\ Write(t, <<Put("dest", latch_terminal(thr[t].seen["dest"], "Cancelled"))>>, "idle")
  /\ UNCHANGED <<mem, db, signer, adopted, passed, phase, latched, left>>

-----------------------------------------------------------------------------
\* The end of the process and the next start.

crash ==
  /\ left.crash > 0
  /\ left' = [left EXCEPT !.crash = @ - 1]
  /\ mem' = [x \in Tabs |-> Absent]
  /\ thr' = [t \in Threads |-> Idle]
  /\ guard' = NoThread
  /\ phase' = "loading"
  /\ latched' \in {FALSE, latched}
  /\ UNCHANGED <<db, signer, adopted, passed>>

Load(x, s) == mem' = [mem EXCEPT ![x] = s] /\ db' = [db EXCEPT ![x] = s]

\* reload_and_reconcile_nonterminal.  The authority of a source tab lives in
\* the Signer's memory only and is not resumed.
reload_source ==
  /\ phase = "loading" /\ ~Known("src") /\ db["src"] # Absent
  /\ \/ is_terminal(db["src"].state) /\ Load("src", db["src"]) /\ UNCHANGED phase
     \/ ~is_terminal(db["src"].state) /\ ~latched
        /\ Load("src", latch_terminal(db["src"], "Expired")) /\ UNCHANGED phase
     \/ ~is_terminal(db["src"].state) /\ latched
        /\ phase' = "failed" /\ UNCHANGED <<mem, db>>
  /\ UNCHANGED <<signer, adopted, passed, thr, guard, latched, left>>

\* Mutant: the stored destination ends without a question to the Signer.
reload_destination_expired ==
  /\ phase = "loading" /\ ~Known("dest") /\ db["dest"] # Absent
  /\ Load("dest", IF is_terminal(db["dest"].state) THEN db["dest"]
                    ELSE latch_terminal(db["dest"], "Expired"))
  /\ UNCHANGED <<signer, adopted, passed, thr, guard, phase, latched, left>>

reload_destination ==
  /\ phase = "loading" /\ ~Known("dest") /\ db["dest"] # Absent
  /\ LET s == db["dest"] IN
     \/ /\ latched \/ is_terminal(s.state) \/ s.state = "WalletCommitted"
        /\ Load("dest", s) /\ UNCHANGED signer
     \/ /\ ~latched /\ s.state = "AwaitingUser"
        /\ \/ signer = "completed" /\ Load("dest", Committed(s)) /\ UNCHANGED signer
           \/ /\ SignerCancels
              /\ Load("dest", latch_terminal(s, IF signer \in DOMAIN EndState THEN EndState[signer] ELSE "Expired"))
  /\ UNCHANGED <<adopted, passed, thr, guard, phase, latched, left>>

\* set_completion_observer, then the listeners.
serve ==
  /\ phase = "loading"
  /\ \A x \in Tabs : db[x] # Absent => Known(x)
  /\ IF Known("dest") /\ mem["dest"].state = "WalletCommitted" /\ ~latched
       THEN Load("dest", Finalized(mem["dest"])) /\ adopted' = TRUE
       ELSE UNCHANGED <<mem, db, adopted>>
  /\ phase' = "up"
  /\ UNCHANGED <<signer, passed, thr, guard, latched, left>>

\* The third deadline is that of a retained result.
tick ==
  /\ passed < (IF Known("dest") /\ mem["dest"].retained THEN 3 ELSE 2)
  /\ passed' = passed + 1
  /\ UNCHANGED <<mem, db, signer, adopted, thr, guard, phase, latched, left>>

\* A pairing of the Signer ends at its own deadline.
signer_expires ==
  /\ passed > 0 /\ signer \in {"paired", "authorized"}
  /\ signer' = "expired"
  /\ UNCHANGED <<mem, db, adopted, passed, thr, guard, phase, latched, left>>

-----------------------------------------------------------------------------
HandlerStep(t) ==
  \/ persist_session(t) \/ insert(t)
  \/ pair_at_signer(t) \/ authorize_at_signer(t) \/ authorize_write(t)
  \/ finish_at_signer(t) \/ finalize(t) \/ already_at_signer(t)
  \/ expire_status(t) \/ expire_cancel(t) \/ expire_write(t) \/ cancel_at_signer(t) \/ cancel_write(t)

Start == reload_source \/ reload_destination \/ serve

Next ==
  \/ \E t \in Threads :
       \/ HandlerStep(t)
       \/ prepare_cross_surface(t) \/ pair_cross_surface(t) \/ authorize_cross_surface(t)
       \/ finish_cross_surface(t) \/ already_registered_cross_surface(t) \/ cancel(t)
       \/ \E x \in Tabs : sweep(t, x)
  \/ crash \/ Start \/ tick \/ signer_expires

SafetySpec == Init /\ [][Next]_vars

\* Handlers and the start run to their end and the sessions keep being swept.
Spec ==
  /\ SafetySpec
  /\ \A t \in Threads : WF_vars(HandlerStep(t))
  /\ WF_vars(Start) /\ WF_vars(tick)
  /\ \A x \in Tabs : WF_vars(\E t \in Threads : sweep(t, x))

-----------------------------------------------------------------------------
\* Properties.

TypeOK ==
  /\ mem \in [Tabs -> Session \cup {Absent}]
  /\ db \in [Tabs -> Session \cup {Absent}]
  /\ signer \in {"missing", "paired", "authorized", "completed", "already", "cancelled", "expired"}
  /\ adopted \in BOOLEAN /\ passed \in 0..3
  /\ guard \in Threads \cup {NoThread}
  /\ phase \in {"up", "loading", "failed"}

\* "Leaving its auxiliary source live would strand the wallet's admission slot
\* after a successful cancel": once the cancelled destination is stored, no
\* source is live before its deadline, in memory or on disk, whatever the sweeps
\* and the losses meanwhile.
CancelEndsBothTabs ==
  \A view \in {mem, db} :
    (phase = "up" /\ view["dest"].state = "Cancelled") =>
      (view["src"] = Absent \/ is_terminal(view["src"].state) \/ view["src"].deadline <= passed)

\* A passkey the Signer added is never reported as cancelled, expired or
\* already registered, also when the Signer's answers are lost.
AddedIsNotReportedDead ==
  signer = "completed" =>
    \A view \in {mem, db} :
      view["dest"].state \notin {"Cancelled", "Expired", "Failed", "AlreadyRegistered"}

\* A degraded journal refuses every write, and may keep the Broker from starting.
Unserved == latched \/ phase = "failed"

\* While the journal accepts writes and the Broker starts, both tabs end, and a
\* bearer retained for its result ends with it.
TabsEnd ==
  \A x \in Tabs :
    Known(x) ~> (Unserved \/ (Known(x) /\ is_terminal(mem[x].state) /\ ~mem[x].bearer))

\* A passkey the Signer added is adopted by the Broker, also when the answer
\* that says so is lost, while the journal accepts writes and the Broker starts.
AddedIsAdopted == (signer = "completed") ~> (adopted \/ Unserved)
=============================================================================
