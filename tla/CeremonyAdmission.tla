-------------------------- MODULE CeremonyAdmission --------------------------
(***************************************************************************)
(* Who may start an owner ceremony, and when: the creation bounds and the  *)
(* cancellation cooldown of crates/bloom-broker/src/ceremony.rs.           *)
(*                                                                         *)
(* prepare sweeps first, with the time it was called at, and only then     *)
(* takes the creation_admission lock for the decision, the Signer call and *)
(* the insertion; other handlers end and extend sessions meanwhile.        *)
(*                                                                         *)
(* Three clocks run: the trusted time of Machine requests, the wall clock  *)
(* the browser handlers read, and the monotonic clock of the process.  The *)
(* first two may be set (the host wall clock is authoritative on macOS,    *)
(* and a frozen durable clock lags the wall clock).                        *)
(***************************************************************************)
EXTENDS Integers, Sequences, FiniteSets

CONSTANTS
  Wallets,      \* wallets requests name
  Threads,      \* prepare calls that may run at once
  Worlds,       \* the environments a behaviour may run in
  Window,       \* creation_window_ms
  Life,         \* lifetime the Signer gives a ceremony
  AckLife,      \* OUTPUT_ACK_TTL_MS
  Backoff,      \* CANCELLATION_BACKOFF_MS
  MaxTime,      \* bound on every clock
  MaxSessions   \* bound on sessions created

\* A world: the calls that may run at once, the requests they make, the
\* CeremonyLimits a start may be configured with, how often clocks are set and
\* the Broker is restarted, and bounds on the times and the sessions.
VARIABLES
  world,     \* one of Worlds, never changed
  clock,     \* "trusted", "wall", "mono" -> time
  limits,    \* the policy in force
  sessions,  \* sessions in order of creation; none is ever removed
  cooldown,  \* cancellation_backoff: wallet -> strikes and deadline
  admission, \* the thread holding creation_admission, or NoThread
  thr,       \* thread -> its prepare call
  left       \* remaining clock settings and restarts

vars == <<world, clock, limits, sessions, cooldown, admission, thr, left>>

NoWallet == "unnamed"
NoThread == "none"

\* CeremonyLimits::new keeps every limit between one and a ceiling, so one of a
\* world's policies is the widest.
ASSUME AdmissionAssumption ==
  /\ IsFiniteSet(Wallets) /\ NoWallet \notin Wallets /\ NoThread \notin Threads
  /\ Window \in Nat \ {0} /\ Life \in Nat \ {0} /\ AckLife \in Nat \ {0} /\ Backoff \in Nat \ {0}
  /\ MaxTime \in Nat /\ MaxSessions \in Nat
  /\ \A w \in Worlds :
       /\ w.threads \subseteq Threads /\ w.time \in 1..MaxTime /\ w.sessions \in 1..MaxSessions
       /\ w.steps \in Nat
       /\ \A r \in w.calls :
            /\ r.wallet \in Wallets \cup {NoWallet} /\ (r.anonymous => r.wallet \in Wallets)
            /\ r.anonymous \in BOOLEAN /\ r.role \in {"plain", "import", "cross"}
            /\ r.role # "plain" => (r.wallet \in Wallets /\ ~r.anonymous)
       /\ \A p \in w.policies : \A f \in {"sessions", "wallet", "anonymous"} : p[f] \in Nat \ {0}
       /\ \A f \in {"sessions", "wallet", "anonymous"} :
            \E p \in w.policies : \A q \in w.policies : q[f] <= p[f]

\* open: AwaitingUser; busy: Verifying or WalletCommitted; ack: waiting for the
\* acknowledgement of its result; over: terminal.  import: the migration of a
\* legacy passkey; cross: the destination of a cross-surface addition; aux: its
\* source, also called the source tab.
Session == [wallet: Wallets \cup {NoWallet}, anonymous: BOOLEAN,
            role: {"plain", "import", "cross", "aux"},
            state: {"open", "busy", "ack", "over"}, created: 0..MaxTime,
            expires: 0..(MaxTime + Life + AckLife)]

NoStrikes == [strikes |-> 0, clock |-> "trusted", until |-> 0]
Idle == [pc |-> "idle"]

Init ==
  /\ world \in Worlds
  /\ clock = [c \in {"trusted", "wall", "mono"} |-> 1]
  /\ limits \in world.policies
  /\ sessions = <<>>
  /\ cooldown = [w \in Wallets |-> NoStrikes]
  /\ admission = NoThread
  /\ thr = [t \in Threads |-> Idle]
  /\ left = [steps |-> world.steps, restarts |-> world.restarts]

-----------------------------------------------------------------------------
\* The decision.

\* The wallet a request names.  The migration of a legacy passkey names none:
\* its wallet is the one the Signer's contribution comes back with, which the
\* session is stored under.
Named(r) == IF r.role = "import" THEN NoWallet ELSE r.wallet

Least(a, b) == IF a < b THEN a ELSE b

Live(s, now) == s.state # "over" /\ s.expires > now

OfWallet(w) == {i \in DOMAIN sessions : sessions[i].wallet = w}

Registrations == {i \in DOMAIN sessions : sessions[i].anonymous}

\* Mutant: a creation leaves the window one step early.
creations_in_window_closed(counted, now) == {i \in counted : sessions[i].created + Window > now + 1}

creations_in_window(counted, now) == {i \in counted : sessions[i].created + Window > now}

\* strikes - 1 doublings, at most five.
backoff_window_ms(strikes) == Backoff * 2^(Least(strikes - 1, 5))

remaining_ms(w, now) ==
  LET d == cooldown[w]
      at == IF d.clock = "mono" THEN clock["mono"] ELSE now
  IN IF d.strikes = 0 \/ d.until <= at THEN 0 ELSE d.until - at

\* The n-th creation in order of time: created_at_ms.sort_unstable() and an index.
Nth(recent, n) ==
  CHOOSE at \in {sessions[i].created : i \in recent} :
    /\ Cardinality({i \in recent : sessions[i].created < at}) < n
    /\ Cardinality({i \in recent : sessions[i].created <= at}) >= n

clamp(wait) == IF wait < 1 THEN 1 ELSE IF wait > Window THEN Window ELSE wait

\* Mutant: the hint waits for the oldest creation, whatever the limit is.
rolling_quota_hint_oldest(recent, limit, now) == clamp(Nth(recent, 1) + Window - now)

\* rolling_quota_exhausted: the wait until the creation whose expiry frees a
\* slot leaves the window.
rolling_quota_hint(recent, limit, now) ==
  clamp(Nth(recent, Cardinality(recent) - limit + 1) + Window - now)

QuotaExhausted(counted, limit, now) == Cardinality(creations_in_window(counted, now)) >= limit

\* enforce_creation_bounds up to the cooldown: zero is no time.
BelowQuotas(r, now) ==
  /\ now > 0
  /\ Cardinality({i \in DOMAIN sessions : Live(sessions[i], now)}) < limits.sessions
  /\ Named(r) # NoWallet =>
       /\ ~QuotaExhausted(OfWallet(Named(r)), limits.wallet, now)
       /\ \A i \in OfWallet(Named(r)) : ~Live(sessions[i], now)

Cooled(r, now) == Named(r) # NoWallet => remaining_ms(Named(r), now) = 0

Admits(r, now) ==
  /\ BelowQuotas(r, now)
  /\ Cooled(r, now)
  /\ r.anonymous => ~QuotaExhausted(Registrations, limits.anonymous, now)

-----------------------------------------------------------------------------
\* Sessions.

\* expire_sessions: a due session ends, unless the Signer completed it and its
\* result waits for acknowledgement.
Swept(s, now) ==
  IF s.state = "over" \/ s.expires > now THEN {s}
  ELSE {[s EXCEPT !.state = "over"]} \cup
       (IF s.state \in {"open", "busy"} /\ s.role \notin {"cross", "aux"}
          THEN {[s EXCEPT !.state = "ack", !.expires = now + AckLife]} ELSE {})

Sweep(now) ==
  sessions' \in {q \in [DOMAIN sessions -> UNION {Swept(sessions[i], now) : i \in DOMAIN sessions}] :
                   \A i \in DOMAIN sessions : q[i] \in Swept(sessions[i], now)}

\* The browser proves, the Signer completes, the result is acknowledged or the
\* ceremony ends.
proceed(i) ==
  /\ LET s == sessions[i] IN
     \/ s.state = "open" /\ s.role # "aux" /\ sessions' = [sessions EXCEPT ![i].state = "busy"]
     \/ /\ s.state = "busy" /\ s.role \notin {"cross", "aux"}
        /\ sessions' = [sessions EXCEPT ![i].state = "ack", ![i].expires = clock["wall"] + AckLife]
     \/ s.state \in {"open", "busy", "ack"} /\ sessions' = [sessions EXCEPT ![i].state = "over"]
  /\ UNCHANGED <<world, clock, limits, cooldown, admission, thr, left>>

-----------------------------------------------------------------------------
\* prepare_approval, prepare_custody_reviewed, prepare_policy_update and
\* prepare_cross_surface, with the time of the Machine's request, and
\* prepare_wallet_backup, with the wall clock.
prepare(t, r) ==
  /\ thr[t] = Idle
  /\ \E c \in {"trusted", "wall"} :
       /\ c = "wall" => (r.role = "plain" /\ ~r.anonymous /\ r.wallet # NoWallet)
       /\ Sweep(clock[c])
       /\ thr' = [thr EXCEPT ![t] = [pc |-> "admit", request |-> r, now |-> clock[c],
                                      began |-> clock["mono"]]]
  /\ UNCHANGED <<world, clock, limits, cooldown, admission, left>>

\* Mutant: the decision does not wait for the admission lock.
enforce_unlocked(t) ==
  /\ thr[t].pc = "admit"
  /\ LET r == thr[t].request IN
     IF Admits(r, thr[t].now)
       THEN /\ admission' \in {t, admission}
            /\ thr' = [thr EXCEPT ![t].pc = "insert"]
            /\ UNCHANGED cooldown
       ELSE thr' = [thr EXCEPT ![t] = Idle] /\ UNCHANGED <<admission, cooldown>>
  /\ UNCHANGED <<world, clock, limits, sessions, left>>

\* An elapsed cooldown is forgotten when the wallet is looked at.
enforce_creation_bounds(t) ==
  /\ thr[t].pc = "admit"
  /\ admission = NoThread
  /\ LET r == thr[t].request
         now == thr[t].now IN
     /\ cooldown' = IF Named(r) # NoWallet /\ BelowQuotas(r, now) /\ Cooled(r, now)
                      THEN [cooldown EXCEPT ![Named(r)] = NoStrikes] ELSE cooldown
     /\ IF Admits(r, now)
          THEN admission' = t /\ thr' = [thr EXCEPT ![t].pc = "insert"]
          ELSE thr' = [thr EXCEPT ![t] = Idle] /\ UNCHANGED admission
  /\ UNCHANGED <<world, clock, limits, sessions, left>>

\* The Signer accepts and the session is inserted under the wallet of the
\* Signer's contribution, or the call fails.
insert_session(t) ==
  /\ thr[t].pc = "insert"
  /\ \/ /\ Len(sessions) < world.sessions
        /\ sessions' = Append(sessions,
             [wallet |-> thr[t].request.wallet, anonymous |-> thr[t].request.anonymous,
              role |-> thr[t].request.role, state |-> "open", created |-> thr[t].now,
              expires |-> thr[t].now + Life])
     \/ UNCHANGED sessions
  /\ admission' = IF admission = t THEN NoThread ELSE admission
  /\ thr' = [thr EXCEPT ![t] = Idle]
  /\ UNCHANGED <<world, clock, limits, cooldown, left>>

\* The one source session of a destination is added, under the same lock but
\* without a look at any quota.
pair_cross_surface(i) ==
  /\ admission = NoThread
  /\ sessions[i].role = "cross" /\ sessions[i].state = "open"
  /\ sessions[i].expires > clock["wall"] /\ sessions[i].wallet # NoWallet
  /\ \A j \in DOMAIN sessions : sessions[j].role = "aux" => sessions[j].wallet # sessions[i].wallet \/ j < i
  /\ Len(sessions) < world.sessions
  /\ sessions' = Append(sessions, [sessions[i] EXCEPT !.role = "aux", !.created = clock["wall"]])
  /\ UNCHANGED <<world, clock, limits, cooldown, admission, thr, left>>

\* record_backoff, on the canceller's clock.
record_backoff(w, c) ==
  LET n == cooldown[w].strikes + 1
      on == IF c = "wall" THEN "mono" ELSE "trusted"
  IN [cooldown EXCEPT ![w] = [strikes |-> n, clock |-> on, until |-> clock[on] + backoff_window_ms(n)]]

\* cancel_with_backoff: the sources of a cancelled destination end with it.
cancel(i) ==
  /\ admission = NoThread
  /\ sessions[i].state = "open" /\ sessions[i].role # "aux"
  /\ \E c \in {"trusted", "wall"} :
       /\ sessions[i].expires > clock[c]
       /\ cooldown' = IF sessions[i].wallet = NoWallet THEN cooldown
                        ELSE record_backoff(sessions[i].wallet, c)
  /\ sessions' = [j \in DOMAIN sessions |->
       IF j = i \/ (sessions[i].role = "cross" /\ sessions[j].role = "aux" /\ j > i
                    /\ sessions[j].wallet = sessions[i].wallet)
         THEN [sessions[j] EXCEPT !.state = "over"] ELSE sessions[j]]
  /\ UNCHANGED <<world, clock, limits, admission, thr, left>>

-----------------------------------------------------------------------------
\* Time and restarts.

\* A call ends long before a ceremony it could create does: the Signer has 30 s
\* to answer it.
tick ==
  /\ \A t \in Threads : thr[t] # Idle => clock["mono"] + 1 < thr[t].began + Life
  /\ \A c \in DOMAIN clock : clock[c] < world.time
  /\ clock' = [c \in DOMAIN clock |-> clock[c] + 1]
  /\ UNCHANGED <<world, limits, sessions, cooldown, admission, thr, left>>

set_clock(c) ==
  /\ left.steps > 0
  /\ \E at \in 0..world.time : clock' = [clock EXCEPT ![c] = at]
  /\ left' = [left EXCEPT !.steps = @ - 1]
  /\ UNCHANGED <<world, limits, sessions, cooldown, admission, thr>>

\* Cooldowns are lost, creation times are not; open sessions are reconciled.
restart ==
  /\ left.restarts > 0
  /\ left' = [left EXCEPT !.restarts = @ - 1]
  /\ limits' \in world.policies
  /\ sessions' = [i \in DOMAIN sessions |->
       IF sessions[i].state \in {"open", "busy"} \/ sessions[i].role = "aux"
         THEN [sessions[i] EXCEPT !.state = "over"] ELSE sessions[i]]
  /\ cooldown' = [w \in Wallets |-> NoStrikes]
  /\ admission' = NoThread
  /\ thr' = [t \in Threads |-> Idle]
  /\ UNCHANGED <<world, clock>>

Next ==
  \/ \E t \in world.threads : enforce_creation_bounds(t) \/ insert_session(t)
  \/ \E t \in world.threads, r \in world.calls : prepare(t, r)
  \/ \E i \in DOMAIN sessions : proceed(i) \/ pair_cross_surface(i) \/ cancel(i)
  \/ \E c \in {"trusted", "wall"} : set_clock(c)
  \/ tick \/ restart

Spec == Init /\ [][Next]_vars

-----------------------------------------------------------------------------
\* Properties.

TypeOK ==
  /\ clock \in [{"trusted", "wall", "mono"} -> 0..MaxTime]
  /\ limits \in world.policies
  /\ sessions \in Seq(Session) /\ Len(sessions) <= world.sessions
  /\ \A w \in Wallets : cooldown[w].strikes \in Nat
  /\ admission \in Threads \cup {NoThread}
  /\ thr \in [Threads -> {Idle} \cup [pc: {"admit", "insert"}, request: world.calls,
                                    now: 0..MaxTime, began: 0..MaxTime]]
  /\ world \in Worlds /\ left.steps \in 0..world.steps

Largest(f) == CHOOSE n \in {p[f] : p \in world.policies} : \A p \in world.policies : p[f] <= n

\* Sessions created under a name the quota was asked about.  The others are
\* counted against later requests, but nothing is counted against them.
Admitted(counted) == {i \in counted : sessions[i].role \notin {"import", "aux"}}

\* However the clocks are set, whoever races whom, and across restarts, no
\* span of one window contains more sessions admitted for a wallet, or more
\* registrations, than the quota (creations_in_window, "Serializes the admission
\* decision").  The quota is no bound on all sessions of a wallet: migrations of
\* its legacy passkey and source tabs come on top, unchecked.
RollingQuota ==
  \A i \in DOMAIN sessions :
    LET Span(counted) == {j \in Admitted(counted) :
                            sessions[j].created <= sessions[i].created
                            /\ sessions[j].created + Window > sessions[i].created}
    IN /\ \A w \in Wallets : Cardinality(Span(OfWallet(w))) <= Largest("wallet")
       /\ Cardinality(Span(Registrations)) <= Largest("anonymous")

\* No clock has been set so far.
Steady == left.steps = world.steps

\* The source tabs under way, and the sessions callers asked for under way.
SourceTabs == {i \in DOMAIN sessions : sessions[i].role = "aux" /\ sessions[i].state # "over"}
Underway == {i \in DOMAIN sessions : sessions[i].role # "aux" /\ sessions[i].state # "over"}

\* While no clock is set, the sessions callers asked for never exceed the
\* concurrency quota, although they are created by calls that run at once and
\* are extended after the decision; and the sessions under way exceed it, as
\* they may, by one source tab per wallet at most.
ConcurrencyBound ==
  Steady => /\ Cardinality(Underway) <= Largest("sessions")
            /\ \A i, j \in SourceTabs : sessions[i].wallet = sessions[j].wallet => i = j

\* A caller refused by the rolling quota is told a time at which the quota lets
\* it pass, and no later one ("a caller can never be told to retry at a time that
\* would be rejected again", creations_in_window): also under a quota lowered
\* beneath the population a restart reloads, while no clock is set.
RetryHintIsHonest ==
  Steady => \A w \in Wallets :
    LET now == clock["trusted"]
        recent == creations_in_window(OfWallet(w), now)
        hint == rolling_quota_hint(recent, limits.wallet, now)
    IN Cardinality(recent) >= limits.wallet =>
         /\ hint \in 1..Window
         /\ QuotaExhausted(OfWallet(w), limits.wallet, now + hint - 1)
         /\ ~QuotaExhausted(OfWallet(w), limits.wallet, now + hint)
=============================================================================
