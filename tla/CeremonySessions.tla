--------------------------- MODULE CeremonySessions ---------------------------
(***************************************************************************)
(* The owner ceremonies of crates/bloom-broker/src/ceremony.rs: a session  *)
(* per operation, kept in memory and in the ceremony_sessions table, moved *)
(* by handlers that run in parallel on the multi-threaded runtime, while   *)
(* the Signer holds its own view of the same operation.                    *)
(*                                                                         *)
(* A handler takes the sessions lock for each read and each write but not  *)
(* between them: it clones a session, calls the Signer, persists a changed *)
(* clone and inserts it into memory, and other handlers run in between.    *)
(* Only prepare and cancel hold the creation_admission lock throughout.    *)
(*                                                                         *)
(* Time is counted in deadlines: a session is due once the clock has       *)
(* passed the deadline it carries.  A sweep over several due sessions is a *)
(* sequence of sweeps of one session.  The Signer is external: it decides  *)
(* an operation once, answers a repeated completion with the same receipt, *)
(* and refuses to cancel a completed operation.                            *)
(***************************************************************************)
EXTENDS Integers, FiniteSets

CONSTANTS
  Ops,          \* ceremony operations
  Sensitive,    \* those whose receipt carries an encrypted browser result
  Remote,       \* those served on the hosted surface
  Threads,      \* handlers that may run at once
  Worlds,       \* the environments a behaviour may run in
  MaxBinds,     \* bound on output-key bindings
  MaxDeadlines  \* bound on the deadlines the clock passes

\* A world: the operations requested, the handlers that run at once, the
\* deadlines the clock passes, the output-key bindings, and how many Signer calls
\* fail in transit, how many audit failures latch the journal and how often the
\* process ends.
VARIABLES
  world,    \* one of Worlds, never changed
  mem,      \* inner.sessions
  db,       \* ceremony_sessions rows
  signer,   \* the Signer's record of each operation
  bound,    \* operation -> challenge the Signer expects a proof of
  adopted,  \* operations whose receipt the completion observer has applied
  rejected, \* operations whose receipt the observer refused for good
  abandoned,\* operations failed without knowing what the Signer decided (history)
  passed,   \* operation -> deadlines the clock has passed
  thr,      \* thread -> its handler's control state
  guard,    \* the thread holding creation_admission, or NoThread
  phase,    \* "up", "stopping", "loading", "observing"
  latched,  \* the audit journal refuses every mutation
  left      \* remaining fault budgets

vars == <<world, mem, db, signer, bound, adopted, rejected, abandoned, passed, thr, guard, phase, latched, left>>

ASSUME SessionsAssumption ==
  /\ Sensitive \subseteq Ops /\ Remote \subseteq Ops
  /\ IsFiniteSet(Threads) /\ Threads # {}
  /\ MaxBinds \in Nat /\ MaxDeadlines \in Nat
  /\ Worlds \subseteq [ops: SUBSET Ops, threads: SUBSET Threads, deadlines: 0..MaxDeadlines,
                       binds: 0..MaxBinds, lost: Nat, refused: Nat, crash: Nat]

States == {"AwaitingUser", "Verifying", "WalletCommitted", "AwaitingRecoveryAck",
           "Completed", "Cancelled", "Expired", "Failed"}

is_terminal(state) == state \in {"Completed", "Cancelled", "Expired", "Failed"}

\* launch: the URL capability; cookie: the browser session it was exchanged
\* for; none: burnt.
Session == [state: States, token: {"launch", "cookie", "none"},
            deadline: 1..(MaxDeadlines + 2), challenge: 0..MaxBinds]

NoSession == [state |-> "absent"]
NoThread == "none"

SignerState == {"missing", "pending", "completed", "ended"}

\* e_: expire_sessions, f_: finalize_committed_session, c_: complete_session,
\* x_: cancel_with_backoff, t_: terminate_live_sessions, p_: prepare;
\* w_: persist, then insert.
Steps == {"idle", "p_call", "p_insert", "e_check", "e_ack", "e_status", "e_cancel",
          "e_adopt", "e_end", "f_read", "f_notify", "c_read", "c_call", "c_ok",
          "c_unauth", "c_fail", "x_read", "x_call", "a_read", "b_write",
          "t_cancel", "t_end", "t_fail", "w_db", "w_mem"}

\* snap is the clone a handler is about to write, then the step after the
\* write, caller the step after a nested sweep.
Idle == [pc |-> "idle", op |-> "none", snap |-> NoSession, then |-> "idle", caller |-> "idle"]

Init ==
  /\ world \in Worlds
  /\ mem = [o \in Ops |-> NoSession]
  /\ db = [o \in Ops |-> NoSession]
  /\ signer = [o \in Ops |-> "missing"]
  /\ bound = [o \in Ops |-> 0]
  /\ adopted = {}
  /\ rejected = {}
  /\ abandoned = {}
  /\ passed = [o \in Ops |-> 0]
  /\ thr = [t \in Threads |-> Idle]
  /\ guard = NoThread
  /\ phase = "up"
  /\ latched = FALSE
  /\ left = [lost |-> world.lost, refused |-> world.refused, crash |-> world.crash]

-----------------------------------------------------------------------------
\* Sessions.

latch_terminal(s, state) == [s EXCEPT !.state = state, !.token = "none"]

\* The first deadline is the expiry the Signer put into its contribution.
new_session == [state |-> "AwaitingUser", token |-> "launch", deadline |-> 1, challenge |-> 0]

Due(o, s) == s # NoSession /\ s.deadline <= passed[o]

\* A session approval_ceremony_unreachable counts as dead.
Unreachable(s) == s.state \in {"Cancelled", "Expired", "Failed"}

-----------------------------------------------------------------------------
\* Thread control.

Enter(t, o, pc) ==
  /\ phase = "up"
  /\ thr[t] = Idle
  /\ thr' = [thr EXCEPT ![t] = [Idle EXCEPT !.pc = pc, !.op = o]]

At(t, pc) == phase \in {"up", "stopping"} /\ thr[t].pc = pc

Goto(t, pc) == thr' = [thr EXCEPT ![t].pc = pc]

\* Persist and insert s, then continue at pc.
Write(t, s, pc) == thr' = [thr EXCEPT ![t].pc = "w_db", ![t].snap = s, ![t].then = pc]

\* The handler returns, whatever it returns.
Return(t) ==
  /\ thr' = [thr EXCEPT ![t] = Idle]
  /\ guard' = IF guard = t THEN NoThread ELSE guard

\* A sweep ends: the handler that called it goes on.
Back(t) ==
  IF thr[t].caller = "idle" THEN Return(t) ELSE Goto(t, thr[t].caller) /\ UNCHANGED guard

\* The Signer call fails in transit, or is not sent because the journal is
\* latched, and the handler only sees an error.
Lose ==
  \/ latched /\ UNCHANGED left
  \/ left.lost > 0 /\ left' = [left EXCEPT !.lost = @ - 1]

\* Signer's cancel: idempotent unless the operation completed.
SignerCancels(o) ==
  /\ signer[o] # "completed" /\ ~latched
  /\ signer' = [signer EXCEPT ![o] = IF @ = "pending" THEN "ended" ELSE @]

\* The audit append or its checkpoint fails and latches the journal; a failed
\* checkpoint leaves the row committed.
Refuse ==
  /\ ~latched /\ left.refused > 0
  /\ left' = [left EXCEPT !.refused = @ - 1]
  /\ latched' = TRUE

\* persist_session, then the insert into memory as a step of its own.
persist_session(t) ==
  /\ At(t, "w_db")
  /\ LET row == [db EXCEPT ![thr[t].op] = thr[t].snap] IN
     \/ ~latched /\ db' = row /\ Goto(t, "w_mem") /\ UNCHANGED <<guard, latched, left>>
     \/ Refuse /\ db' \in {db, row} /\ Return(t)
     \/ latched /\ Return(t) /\ UNCHANGED <<db, latched, left>>
  /\ UNCHANGED <<world, mem, signer, adopted, rejected, abandoned, bound, passed, phase>>

insert(t) ==
  /\ At(t, "w_mem")
  /\ mem' = [mem EXCEPT ![thr[t].op] = thr[t].snap]
  /\ IF thr[t].then = "idle" THEN Back(t) ELSE Goto(t, thr[t].then) /\ UNCHANGED guard
  /\ UNCHANGED <<world, db, signer, adopted, rejected, abandoned, bound, passed, phase, latched, left>>

-----------------------------------------------------------------------------
\* prepare_approval, prepare_custody_reviewed, prepare_policy_update.

\* A known operation is answered from its session, or refused when the request
\* differs; neither changes anything.
stable_response(o) == mem[o] # NoSession

\* Under the admission lock, a new operation goes to the Signer.
prepare(t, o) ==
  /\ guard = NoThread
  /\ ~stable_response(o)
  /\ Enter(t, o, "p_call")
  /\ guard' = t
  /\ UNCHANGED <<world, mem, db, signer, adopted, rejected, abandoned, bound, passed, phase, latched, left>>

prepare_at_signer(t) ==
  /\ At(t, "p_call")
  /\ LET o == thr[t].op IN
     \/ /\ signer[o] \in {"missing", "pending"} /\ ~latched
        /\ signer' = [signer EXCEPT ![o] = "pending"]
        /\ \/ Goto(t, "p_insert") /\ UNCHANGED <<guard, left>>
           \/ Lose /\ Return(t)
     \/ /\ signer[o] \in {"completed", "ended"} \/ latched
        /\ Return(t)
        /\ UNCHANGED <<signer, left>>
  /\ UNCHANGED <<world, mem, db, adopted, rejected, abandoned, bound, passed, phase, latched>>

\* The operations and sessions locks are held over the persist.
insert_session(t) ==
  /\ At(t, "p_insert")
  /\ LET row == [db EXCEPT ![thr[t].op] = new_session] IN
     \/ /\ ~latched
        /\ db' = row
        /\ mem' = [mem EXCEPT ![thr[t].op] = new_session]
        /\ UNCHANGED <<latched, left>>
     \/ Refuse /\ db' \in {db, row} /\ UNCHANGED mem
     \/ latched /\ UNCHANGED <<mem, db, latched, left>>
  /\ Return(t)
  /\ UNCHANGED <<world, signer, adopted, rejected, abandoned, bound, passed, phase>>

-----------------------------------------------------------------------------
\* expire_sessions.

\* Mutant: only a session whose page was opened expires.
sweep_opened(t, o) ==
  /\ Due(o, mem[o])
  /\ mem[o].state = "Verifying"
  /\ Enter(t, o, "e_check")
  /\ UNCHANGED <<world, mem, db, signer, bound, adopted, rejected, abandoned, passed, guard, phase, latched, left>>

\* Every status request, prepare and browser request sweeps first.
sweep(t, o) ==
  /\ Due(o, mem[o])
  /\ ~is_terminal(mem[o].state)
  /\ Enter(t, o, "e_check")
  /\ UNCHANGED <<world, mem, db, signer, adopted, rejected, abandoned, bound, passed, guard, phase, latched, left>>

\* The listed session is read again, and may have moved since.
expire_check(t) ==
  /\ At(t, "e_check")
  /\ LET s == mem[thr[t].op] IN
     Goto(t, CASE s.state = "WalletCommitted" -> "f_read"
               [] s.state = "AwaitingRecoveryAck" -> "e_ack"
               [] OTHER -> "e_status")
  /\ UNCHANGED <<world, mem, db, signer, adopted, rejected, abandoned, bound, passed, guard, phase, latched, left>>

\* The result was never acknowledged.
expire_unacknowledged(t) ==
  /\ At(t, "e_ack")
  /\ Write(t, latch_terminal(mem[thr[t].op], "Failed"), "idle")
  /\ UNCHANGED <<world, mem, db, signer, adopted, rejected, abandoned, bound, passed, guard, phase, latched, left>>

\* Mutant: a pending operation is expired without being released.
expire_without_cancel(t) ==
  /\ At(t, "e_status")
  /\ Goto(t, IF signer[thr[t].op] = "completed" THEN "e_adopt" ELSE "e_end")
  /\ UNCHANGED <<world, mem, db, signer, bound, adopted, rejected, abandoned, passed, guard, phase, latched, left>>

expire_status(t) ==
  /\ At(t, "e_status")
  /\ \/ /\ Goto(t, CASE signer[thr[t].op] = "completed" -> "e_adopt"
                     [] signer[thr[t].op] = "pending" -> "e_cancel"
                     [] OTHER -> "e_end")
        /\ UNCHANGED <<guard, left>>
     \/ Lose /\ Return(t)
  /\ UNCHANGED <<world, mem, db, signer, adopted, rejected, abandoned, bound, passed, phase, latched>>

\* cancel_signer_or_already_released: any refusal ends the sweep with an error.
expire_cancel(t) ==
  /\ At(t, "e_cancel")
  /\ LET o == thr[t].op IN
     \/ SignerCancels(o) /\ Goto(t, "e_end") /\ UNCHANGED <<guard, left>>
     \/ SignerCancels(o) /\ Lose /\ Return(t)
     \/ signer[o] = "completed" /\ Return(t) /\ UNCHANGED <<signer, left>>
     \/ Lose /\ Return(t) /\ UNCHANGED signer
  /\ UNCHANGED <<world, mem, db, adopted, rejected, abandoned, bound, passed, phase, latched>>

\* The session is cloned only now.  A Signer-reported terminal state is taken
\* over as it is; Expired stands for it.
expire_write(t) ==
  /\ \/ /\ At(t, "e_adopt")
        /\ Write(t, [mem[thr[t].op] EXCEPT !.state = "WalletCommitted"], "f_read")
     \/ /\ At(t, "e_end")
        /\ Write(t, latch_terminal(mem[thr[t].op], "Expired"), "idle")
  /\ UNCHANGED <<world, mem, db, signer, adopted, rejected, abandoned, bound, passed, guard, phase, latched, left>>

-----------------------------------------------------------------------------
\* finalize_committed_session.

finalize_read(t) ==
  /\ At(t, "f_read")
  /\ LET s == mem[thr[t].op] IN
     IF s.state = "WalletCommitted"
       THEN thr' = [thr EXCEPT ![t].pc = "f_notify", ![t].snap = s] /\ UNCHANGED guard
       ELSE Return(t)
  /\ UNCHANGED <<world, mem, db, signer, adopted, rejected, abandoned, bound, passed, phase, latched, left>>

Finalized(o, s) ==
  IF o \in Sensitive
    THEN [s EXCEPT !.state = "AwaitingRecoveryAck",
                   !.deadline = IF passed[o] < 2 THEN 2 ELSE passed[o] + 1]
    ELSE latch_terminal(s, "Completed")

\* The observer applies the receipt, once and for all, or refuses it for good.
Adopts(o) ==
  \/ o \notin rejected /\ adopted' = adopted \cup {o} /\ UNCHANGED rejected
  \/ o \notin adopted /\ rejected' = rejected \cup {o} /\ UNCHANGED adopted

\* Mutant: the session is finalized whatever the observer says.
finalize_before_adoption(t) ==
  /\ At(t, "f_notify")
  /\ Write(t, Finalized(thr[t].op, thr[t].snap), "idle")
  /\ adopted' \in {adopted, adopted \cup {thr[t].op}}
  /\ UNCHANGED <<world, mem, db, signer, bound, rejected, abandoned, passed, guard, phase, latched, left>>

\* notify_completion: a transient failure leaves the session committed, a
\* permanent rejection fails it.
finalize_notify(t) ==
  /\ At(t, "f_notify")
  /\ LET o == thr[t].op
         s == thr[t].snap IN
     \/ /\ ~latched
        /\ Adopts(o)
        /\ Write(t, IF o \in adopted' THEN Finalized(o, s) ELSE latch_terminal(s, "Failed"), "idle")
        /\ UNCHANGED <<guard, latched, left>>
     \/ Refuse /\ Return(t) /\ UNCHANGED <<adopted, rejected>>
     \/ latched /\ Return(t) /\ UNCHANGED <<adopted, rejected, latched, left>>
  /\ UNCHANGED <<world, mem, db, signer, abandoned, bound, passed, phase>>

-----------------------------------------------------------------------------
\* The browser handlers.  authorize_browser sweeps, then checks the bearer: the
\* launch token on the local surface, the exchanged cookie on the hosted one.

Authorized(o) ==
  /\ mem[o] # NoSession
  /\ mem[o].token = (IF o \in Remote THEN "cookie" ELSE "launch")
  /\ ~(Due(o, mem[o]) /\ ~is_terminal(mem[o].state))

browser_request(t, o) ==
  /\ Authorized(o)
  /\ \E pc \in {"c_read", "a_read"} : Enter(t, o, pc)
  /\ UNCHANGED <<world, mem, db, signer, adopted, rejected, abandoned, bound, passed, guard, phase, latched, left>>

\* complete_session.
complete_read(t) ==
  /\ At(t, "c_read")
  /\ LET s == mem[thr[t].op] IN
     CASE s.state = "AwaitingRecoveryAck" \/ is_terminal(s.state) -> Return(t)
       [] s.state = "WalletCommitted" -> Goto(t, "f_read") /\ UNCHANGED guard
       [] OTHER -> Write(t, [s EXCEPT !.state = "Verifying"], "c_call") /\ UNCHANGED guard
  /\ UNCHANGED <<world, mem, db, signer, adopted, rejected, abandoned, bound, passed, phase, latched, left>>

Accepts(o, s) == signer[o] = "pending" /\ s.challenge = bound[o] /\ ~latched

\* The proof answers the current challenge and is accepted; or a stale
\* signature counter leaves the operation pending; or it is rejected and the
\* operation ended.  A lost answer is taken for a rejection: whatever the
\* Signer did, the session goes on to fail.
complete_at_signer(t) ==
  /\ At(t, "c_call")
  /\ LET o == thr[t].op IN
     \/ /\ Accepts(o, thr[t].snap) \/ (signer[o] = "completed" /\ ~latched)
        /\ signer' = [signer EXCEPT ![o] = "completed"]
        /\ Goto(t, "c_ok") /\ UNCHANGED <<left, abandoned>>
     \/ /\ signer[o] = "pending" /\ ~latched
        /\ Goto(t, "c_unauth") /\ UNCHANGED <<signer, left, abandoned>>
     \/ /\ signer[o] # "completed" /\ ~latched
        /\ signer' = [signer EXCEPT ![o] = IF @ = "pending" THEN "ended" ELSE @]
        /\ Goto(t, "c_fail") /\ UNCHANGED <<left, abandoned>>
     \/ /\ Lose
        /\ Goto(t, "c_fail")
        /\ abandoned' = abandoned \cup {o}
        /\ \/ UNCHANGED signer
           \/ Accepts(o, thr[t].snap) /\ signer' = [signer EXCEPT ![o] = "completed"]
  /\ UNCHANGED <<world, mem, db, adopted, rejected, bound, passed, guard, phase, latched>>

complete_release(t) ==
  /\ At(t, "c_unauth")
  /\ LET o == thr[t].op IN
     \/ SignerCancels(o) /\ Goto(t, "c_fail") /\ UNCHANGED <<guard, left>>
     \/ SignerCancels(o) /\ Lose /\ Return(t)
     \/ signer[o] = "completed" /\ Return(t) /\ UNCHANGED <<signer, left>>
     \/ Lose /\ Return(t) /\ UNCHANGED signer
  /\ UNCHANGED <<world, mem, db, adopted, rejected, abandoned, bound, passed, phase, latched>>

\* The session is cloned again after the Signer answered.
complete_write(t) ==
  /\ \/ /\ At(t, "c_ok")
        /\ Write(t, [mem[thr[t].op] EXCEPT !.state = "WalletCommitted"], "f_read")
     \/ /\ At(t, "c_fail")
        /\ Write(t, latch_terminal(mem[thr[t].op], "Failed"), "idle")
  /\ UNCHANGED <<world, mem, db, signer, adopted, rejected, abandoned, bound, passed, guard, phase, latched, left>>

acknowledge_result(t) ==
  /\ At(t, "a_read")
  /\ LET s == mem[thr[t].op] IN
     IF s.state = "AwaitingRecoveryAck"
       THEN Write(t, latch_terminal(s, "Completed"), "idle") /\ UNCHANGED guard
       ELSE Return(t)
  /\ UNCHANGED <<world, mem, db, signer, adopted, rejected, abandoned, bound, passed, phase, latched, left>>

\* The single-use launch capability of a hosted session is burnt for a cookie,
\* under the admission lock.
exchange_remote_fragment(t, o) ==
  /\ o \in Remote
  /\ guard = NoThread
  /\ mem[o] # NoSession
  /\ mem[o].state = "AwaitingUser" /\ mem[o].token = "launch" /\ ~Due(o, mem[o])
  /\ phase = "up" /\ thr[t] = Idle
  /\ thr' = [thr EXCEPT ![t] = [pc |-> "w_db", op |-> o, snap |-> [mem[o] EXCEPT !.token = "cookie"],
                                then |-> "idle", caller |-> "idle"]]
  /\ guard' = t
  /\ UNCHANGED <<world, mem, db, signer, adopted, rejected, abandoned, bound, passed, phase, latched, left>>

\* bind_output_key: the Signer issues a new challenge for the bound key; the
\* session is checked before the call and cloned after it.
bind_output_key(t, o) ==
  /\ o \in Sensitive
  /\ Authorized(o)
  /\ mem[o].state = "AwaitingUser"
  /\ signer[o] = "pending" /\ ~latched /\ bound[o] < world.binds
  /\ bound' = [bound EXCEPT ![o] = @ + 1]
  /\ Enter(t, o, "b_write")
  /\ UNCHANGED <<world, mem, db, signer, adopted, rejected, abandoned, passed, guard, phase, latched, left>>

bind_write(t) ==
  /\ At(t, "b_write")
  /\ Write(t, [mem[thr[t].op] EXCEPT !.challenge = bound[thr[t].op]], "idle")
  /\ UNCHANGED <<world, mem, db, signer, adopted, rejected, abandoned, bound, passed, guard, phase, latched, left>>

-----------------------------------------------------------------------------
\* cancel_with_backoff, from the Machine or the browser.

\* Under the admission lock it sweeps first.
cancel(t, o) ==
  /\ guard = NoThread
  /\ mem[o] # NoSession
  /\ phase = "up" /\ thr[t] = Idle
  /\ thr' = [thr EXCEPT ![t] = [pc |-> IF Due(o, mem[o]) /\ ~is_terminal(mem[o].state)
                                         THEN "e_check" ELSE "x_read",
                                op |-> o, snap |-> NoSession, then |-> "idle", caller |-> "x_read"]]
  /\ guard' = t
  /\ UNCHANGED <<world, mem, db, signer, adopted, rejected, abandoned, bound, passed, phase, latched, left>>

\* Already dead: success.  Past AwaitingUser: refused.  Neither changes anything.
cancel_read(t) ==
  /\ At(t, "x_read")
  /\ LET s == mem[thr[t].op] IN
     IF s.state = "AwaitingUser"
       THEN /\ thr' = [thr EXCEPT ![t].pc = "x_call", ![t].caller = "idle",
                                  ![t].snap = latch_terminal(s, "Cancelled")]
            /\ UNCHANGED guard
       ELSE Return(t)
  /\ UNCHANGED <<world, mem, db, signer, adopted, rejected, abandoned, bound, passed, phase, latched, left>>

\* Mutant: any refusal of the Signer is taken for "nothing left to release".
cancel_whatever_the_signer_says(t) ==
  /\ At(t, "x_call")
  /\ signer' = [signer EXCEPT ![thr[t].op] = IF @ = "pending" THEN "ended" ELSE @]
  /\ Write(t, thr[t].snap, "idle")
  /\ UNCHANGED <<world, mem, db, bound, adopted, rejected, abandoned, passed, guard, phase, latched, left>>

\* The clone written afterwards is the one taken before the call.
cancel_at_signer(t) ==
  /\ At(t, "x_call")
  /\ LET o == thr[t].op IN
     \/ /\ SignerCancels(o)
        /\ \/ Write(t, thr[t].snap, "idle") /\ UNCHANGED <<guard, left>>
           \/ Lose /\ Return(t)
     \/ signer[o] = "completed" /\ Return(t) /\ UNCHANGED <<signer, left>>
     \/ Lose /\ Return(t) /\ UNCHANGED signer
  /\ UNCHANGED <<world, mem, db, adopted, rejected, abandoned, bound, passed, phase, latched>>

-----------------------------------------------------------------------------
\* The end of the process and the next start.

\* A handler of the browser; only those on the loopback listeners are drained.
InBrowser(t) ==
  \/ thr[t].pc \in {"c_read", "c_call", "c_ok", "c_unauth", "c_fail", "a_read", "b_write"}
  \/ thr[t].pc \in {"w_db", "w_mem"} /\ thr[t].then = "c_call"

\* The login sentinel went away: no request is taken any more.  Spawned RPC
\* tasks run on, and so does a handler on the hosted surface, whose listener
\* waits 10 s for a handler that may wait 30 s for the Signer.
stop_serving ==
  /\ phase = "up"
  /\ \A t \in Threads : InBrowser(t) => thr[t].op \in Remote
  /\ left.crash > 0
  /\ phase' = "stopping"
  /\ left' = [left EXCEPT !.crash = @ - 1]
  /\ UNCHANGED <<world, mem, db, signer, adopted, rejected, abandoned, bound, passed, thr, guard, latched>>

\* terminate_live_sessions, on a thread of its own: a listed session is adopted,
\* released and cancelled, or failed.  One listed as Verifying is failed without
\* asking the Signer.
terminate(t, o) ==
  /\ phase = "stopping"
  /\ thr[t] = Idle
  /\ mem[o] # NoSession /\ ~is_terminal(mem[o].state)
  /\ thr' = [thr EXCEPT ![t] = [Idle EXCEPT !.op = o,
                !.pc = CASE mem[o].state = "WalletCommitted" -> "f_read"
                         [] mem[o].state = "AwaitingUser" -> "t_cancel"
                         [] OTHER -> "t_fail"]]
  /\ abandoned' = IF mem[o].state = "Verifying" THEN abandoned \cup {o} ELSE abandoned
  /\ UNCHANGED <<world, mem, db, signer, adopted, rejected, bound, passed, guard, phase, latched, left>>

\* An error ends the process; exit may follow any step.
terminate_cancel(t) ==
  /\ At(t, "t_cancel")
  /\ LET o == thr[t].op IN
     \/ SignerCancels(o) /\ Goto(t, "t_end") /\ UNCHANGED <<guard, left>>
     \/ SignerCancels(o) /\ Lose /\ Return(t)
     \/ signer[o] = "completed" /\ Return(t) /\ UNCHANGED <<signer, left>>
     \/ Lose /\ Return(t) /\ UNCHANGED signer
  /\ UNCHANGED <<world, mem, db, adopted, rejected, abandoned, bound, passed, phase, latched>>

\* The session is cloned only now, and left alone if it has ended meanwhile.
terminate_write(t) ==
  /\ \E end \in {<<"t_end", "Cancelled">>, <<"t_fail", "Failed">>} :
       /\ At(t, end[1])
       /\ LET s == mem[thr[t].op] IN
          IF is_terminal(s.state) THEN Return(t)
          ELSE Write(t, latch_terminal(s, end[2]), "idle") /\ UNCHANGED guard
  /\ UNCHANGED <<world, mem, db, signer, adopted, rejected, abandoned, bound, passed, phase, latched, left>>

\* The process ends, between any two steps; the next start may still find the
\* journal degraded.
Stopped ==
  /\ mem' = [o \in Ops |-> NoSession]
  /\ thr' = [t \in Threads |-> Idle]
  /\ guard' = NoThread
  /\ phase' = "loading"
  /\ latched' \in {FALSE, latched}
  /\ UNCHANGED <<world, db, signer, adopted, rejected, abandoned, bound, passed>>

crash ==
  /\ phase # "stopping" /\ left.crash > 0
  /\ left' = [left EXCEPT !.crash = @ - 1]
  /\ Stopped

exit == phase = "stopping" /\ Stopped /\ UNCHANGED left

\* No handler runs yet: persist and insert are one step.
Put(o, s) == mem' = [mem EXCEPT ![o] = s] /\ db' = [db EXCEPT ![o] = s]

\* sweep_committed_session, with no handler running.
AdoptCommitted(o) ==
  /\ mem[o].state = "WalletCommitted"
  /\ Adopts(o)
  /\ Put(o, IF o \in adopted' THEN Finalized(o, mem[o]) ELSE latch_terminal(mem[o], "Failed"))
  /\ UNCHANGED signer

\* Mutant: a reloaded open session is expired without asking the Signer.
reload_without_status(o) ==
  /\ phase = "loading"
  /\ mem[o] = NoSession /\ db[o] # NoSession
  /\ Put(o, IF is_terminal(db[o].state) THEN db[o] ELSE latch_terminal(db[o], "Expired"))
  /\ UNCHANGED <<world, signer, bound, adopted, rejected, abandoned, passed, thr, guard, phase, latched, left>>

\* reload_and_reconcile_nonterminal, one row.
reload(o) ==
  /\ phase = "loading"
  /\ mem[o] = NoSession /\ db[o] # NoSession
  /\ LET s == db[o] IN
     \/ /\ \/ latched \/ is_terminal(s.state) \/ s.state = "WalletCommitted"
           \/ s.state = "AwaitingRecoveryAck" /\ ~Due(o, s)
        /\ Put(o, s)
        /\ UNCHANGED signer
     \/ /\ ~latched
        /\ s.state = "AwaitingRecoveryAck" /\ Due(o, s)
        /\ Put(o, latch_terminal(s, "Failed"))
        /\ UNCHANGED signer
     \/ /\ ~latched
        /\ s.state \in {"AwaitingUser", "Verifying"}
        /\ signer[o] = "completed"
        /\ Put(o, [s EXCEPT !.state = "WalletCommitted"])
        /\ UNCHANGED signer
     \/ /\ ~latched
        /\ s.state \in {"AwaitingUser", "Verifying"}
        /\ SignerCancels(o)
        /\ Put(o, latch_terminal(s, "Expired"))
  /\ UNCHANGED <<world, adopted, rejected, abandoned, bound, passed, thr, guard, phase, latched, left>>

loaded ==
  /\ phase = "loading"
  /\ \A o \in Ops : db[o] # NoSession => mem[o] # NoSession
  /\ phase' = "observing"
  /\ UNCHANGED <<world, mem, db, signer, adopted, rejected, abandoned, bound, passed, thr, guard, latched, left>>

\* set_completion_observer adopts every committed session, and an error ends
\* the start.
set_completion_observer(o) ==
  /\ phase = "observing" /\ ~latched
  /\ AdoptCommitted(o)
  /\ UNCHANGED <<world, abandoned, bound, passed, thr, guard, phase, latched, left>>

serve ==
  /\ phase = "observing"
  /\ latched \/ \A o \in Ops : mem[o].state # "WalletCommitted"
  /\ phase' = "up"
  /\ UNCHANGED <<world, mem, db, signer, adopted, rejected, abandoned, bound, passed, thr, guard, latched, left>>

\* The Signer drops a pending operation once its contribution expired.
signer_expires(o) ==
  /\ signer[o] = "pending" /\ passed[o] > 0
  /\ signer' = [signer EXCEPT ![o] = "ended"]
  /\ UNCHANGED <<world, mem, db, adopted, rejected, abandoned, bound, passed, thr, guard, phase, latched, left>>

\* complete_session is under way, or an adopted result about to be retained.
Completing(t, o) ==
  /\ thr[t].op = o
  /\ \/ thr[t].snap.state = "AwaitingRecoveryAck"
     \/ thr[t].pc \in {"c_read", "c_call", "c_ok", "c_unauth", "c_fail"}
     \/ thr[t].pc \in {"w_db", "w_mem"} /\ thr[t].then = "c_call"

\* The clock passes the next deadline of an operation: first the Signer's,
\* later those of acknowledgement.  The latter lie OUTPUT_ACK_TTL_MS after the
\* adoption, which outlasts the handlers that were completing it.
tick(o) ==
  /\ passed[o] < world.deadlines /\ signer[o] # "missing"
  /\ passed[o] > 0 /\ o \in adopted => \A t \in Threads : ~Completing(t, o)
  /\ passed' = [passed EXCEPT ![o] = @ + 1]
  /\ UNCHANGED <<world, mem, db, signer, bound, adopted, rejected, abandoned, thr, guard, phase, latched, left>>

-----------------------------------------------------------------------------
HandlerStep(t) ==
  \/ persist_session(t) \/ insert(t)
  \/ prepare_at_signer(t) \/ insert_session(t)
  \/ expire_check(t) \/ expire_unacknowledged(t) \/ expire_status(t)
  \/ expire_cancel(t) \/ expire_write(t)
  \/ finalize_read(t) \/ finalize_notify(t)
  \/ complete_read(t) \/ complete_at_signer(t) \/ complete_release(t) \/ complete_write(t)
  \/ acknowledge_result(t) \/ bind_write(t)
  \/ cancel_read(t) \/ cancel_at_signer(t)
  \/ terminate_cancel(t) \/ terminate_write(t)

Start ==
  \/ \E o \in Ops : reload(o) \/ set_completion_observer(o)
  \/ loaded \/ serve \/ exit

Next ==
  \/ \E t \in world.threads : HandlerStep(t)
  \/ \E t \in world.threads, o \in world.ops :
       \/ prepare(t, o) \/ sweep(t, o) \/ browser_request(t, o)
       \/ exchange_remote_fragment(t, o) \/ bind_output_key(t, o) \/ cancel(t, o)
       \/ terminate(t, o)
  \/ \E o \in Ops : signer_expires(o) \/ tick(o)
  \/ stop_serving \/ crash
  \/ Start

SafetySpec == Init /\ [][Next]_vars

\* A handler runs to its end, the Broker is started again, and the Machine
\* polls the status of its ceremonies, which sweeps them.
Spec ==
  /\ SafetySpec
  /\ \A t \in Threads : WF_vars(HandlerStep(t))
  /\ WF_vars(Start)
  /\ \A o \in Ops : WF_vars(tick(o)) /\ WF_vars(\E t \in Threads : sweep(t, o))

-----------------------------------------------------------------------------
\* Properties.

TypeOK ==
  /\ mem \in [Ops -> Session \cup {NoSession}]
  /\ db \in [Ops -> Session \cup {NoSession}]
  /\ signer \in [Ops -> SignerState]
  /\ adopted \subseteq Ops /\ rejected \subseteq Ops /\ abandoned \subseteq Ops
  /\ passed \in [Ops -> 0..MaxDeadlines] /\ bound \in [Ops -> 0..MaxBinds]
  /\ thr \in [Threads -> [pc: Steps, op: Ops \cup {"none"}, snap: Session \cup {NoSession},
                          then: Steps, caller: Steps]]
  /\ guard \in Threads \cup {NoThread}
  /\ phase \in {"up", "stopping", "loading", "observing"}
  /\ latched \in BOOLEAN
  /\ left \in [lost: 0..world.lost, refused: 0..world.refused, crash: 0..world.crash]

\* Nothing more becomes of an operation, or what does is known: the Signer has
\* ended it, the observer refused its receipt, or it was adopted and only its
\* result went unacknowledged.  The exception is an abandoned operation, whose
\* completion answer was lost or whose handler was still running when
\* terminate_live_sessions failed its session.
Settled(o) ==
  \/ signer[o] = "ended"
  \/ o \in rejected \cup abandoned
  \/ o \in Sensitive /\ o \in adopted

\* approval_ceremony_unreachable reports an approval as expired when all its
\* sessions are cancelled, expired or failed.  Such a session, in memory or on
\* disk, is of a settled operation: the wallet has not committed it without the
\* Broker knowing and never will, and the Signer holds no slot for it, however
\* cancellation, expiry, racing completions, lost calls, a stop and a restart
\* interleave.  Only the abandoned operations are reported dead unsettled.
UnreachableIsSettled ==
  \A o \in Ops : \A s \in {mem[o], db[o]} : Unreachable(s) => Settled(o)

\* A session reported cancelled or expired has been released at the Signer,
\* also when the Signer's answers are lost: the wallet's slot there is free.
EndedIsReleased ==
  \A o \in Ops : \A s \in {mem[o], db[o]} :
    s.state \in {"Cancelled", "Expired"} => signer[o] # "pending"

\* While no failed audit latches the journal, a committed operation is adopted
\* or refused for good: no crash, cancel, expiry or lost update strands it.  The
\* abandoned operations, which a lost completion answer or a stop leaves behind,
\* are the only ones that may stay committed and unadopted.
CommittedIsSettled ==
  \A o \in Ops : (signer[o] = "completed" /\ world.refused = 0) ~> (o \in adopted \cup rejected \cup abandoned)

\* Every session ends, unless the journal refuses to write it: none occupies
\* its wallet's slot for ever.
SessionsEnd ==
  \A o \in Ops \ Sensitive : (mem[o] # NoSession /\ world.refused = 0) ~> is_terminal(mem[o].state)

\* What the Signer has decided, and what the durable rows mean.
Wallet == [o \in Ops |-> CASE signer[o] = "completed" -> "committed"
                           [] signer[o] = "ended" -> "released"
                           [] OTHER -> "open"]

Recorded == [o \in Ops |-> CASE Unreachable(db[o]) -> "dead"
                             [] db[o].state = "Completed" -> "done"
                             [] OTHER -> "open"]

\* The sessions keep the promise of CeremonyPromise, in every world: the record
\* is the durable row's meaning.  What the promise excepts of an abandoned
\* operation is all that lost completion answers and stops can break.
Promise == INSTANCE CeremonyPromise WITH wallet <- Wallet, record <- Recorded
PromiseKept == Promise!Spec
=============================================================================
