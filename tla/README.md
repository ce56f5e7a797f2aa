# Formal model of the Bloom Broker

The Broker is the middle of three local services. **Machine** (untrusted
orchestration) asks it to sign; the **Broker** decides, against approvals that
people reviewed in a ceremony, whether a request is allowed, charges it to the
approval's budget and writes everything down; the **Signer** holds the keys and
signs what the Broker forwards. This directory models the Broker's durable core
and the protocols around it in TLA+, checks the models with TLC and proves the
main results with TLAPS. Paths below are relative to the repository; unless
said otherwise they are under `crates/bloom-broker/src/`.

Contents: [inventory](#inventory), [modules](#modules),
[runs](#runs), [proofs](#proofs), [not modelled](#not-modelled),
[what is left](#what-is-left).

## Inventory

| Component | State | Operations | What makes it correct |
|---|---|---|---|
| Journal: approvals, operations (`journal.rs`) | `approvals`, `approval_metadata`, `operations`, `operation_attempts`, `batch_children` | create, activate, transition an approval; begin, transition, publish an operation; begin and complete a by-key revocation | an id is bound once; a renewal consumes what it renews; a by-key stop is final; result, charge and audit entry appear together |
| Journal: accounting ledger | `reservations`, `reservation_values` | reserve, finalize, commit on publication | no lifetime or rolling limit is exceeded, not even by renewing; a row is finalized once |
| Journal: durable clock (`journal.rs`, `clock.rs`) | `clock_state` | observe, repair | effective time does not go back; time-limited admissions use trusted time only |
| Journal: audit chain and latch (`journal.rs`, `main.rs`) | `audit_chain`, cached tail, active signer, degradation latch, the independent checkpoint store | append, verify, checkpoint, rotate the key, open | what is retained is what was committed; a reported success is retained; the latch is set by real damage only |
| Signing service (`service.rs`) | the calls in flight | `sign`, `resolve_signer_operation`, `commit_signer_result`, `operation.cancel` | one dispatch per operation; outcomes agree with the Signer; budget is never given back for something signed |
| Signer client (`signer_client.rs`) | one worker thread behind a bounded queue; last verified head | head exchange before and after each request, 30 s timeout | a reordered own head is tolerated, a rolled-back Signer head is not |
| Machine server (`main.rs`) | connection and window quotas, admission permits | serve, checkpoint request heads | overtaking requests do not disable mutations; quotas bound what Machine can occupy |
| Authority: authorization (`authority.rs`) | policies, provenance catalog, key scopes, approvals | `authorize_for_clock_profile`: policy, catalog, selector, claim, assurance, destination and limit checks, then the reservation | a use is judged by what is in force when it is used, and charged for what it pays |
| Authority: revocation | wallet epochs, tombstones, key stops, the authorization barrier | stop a key, revoke an approval or a wallet, reconcile with the Signer | nothing is authorized under a revoked epoch or key, however reconciliation races |
| Authority: policy and custody | the policies row, account terms, pending and bound Petal key scopes, the key registry | install, update and commit a policy, adopt receipts | versions only grow; what is swapped in, allocated or bound is what the owner reviewed |
| Approval preparation (`service.rs`) | one request between review and record | `prepare_approval` | an approval is written down with the review that was shown |
| Review translators (`evm_review.rs`, `safe_review.rs`, `message_review/`, `solana_review.rs`) | none | read an envelope, rebuild what is hashed, show it or refuse | what is shown is what is signed; a Safe is not changed blindly |
| Clear signing (`bloom-evm-clear-signing`, `bloom-solana-clear-signing`, `bloom-solana-verify`) | the compiled catalog | admit descriptions, resolve, read calls and programs, verify transfers | a reading leaves nothing out; a program is read as it runs |
| Ceremony sessions (`ceremony.rs`) | sessions in memory and in a table, the Signer's operations | prepare, open, bind, complete, acknowledge, cancel, expire, finalize, stop, reload and reconcile | a ceremony reported dead is settled; every completed ceremony is adopted or refused |
| Ceremony admission (`ceremony.rs`) | creations, cooldowns, three clocks | `enforce_creation_bounds` | quotas and concurrency hold; a retry hint is honest |
| Cross-surface addition (`ceremony.rs`) | two tabs of one operation | prepare, pair, authorize, finish, cancel, expire, reload | both tabs end; an added passkey is adopted |
| Remote ceremony material (`remote_material.rs`) | certificate generations | install, activate | a generation is complete before it is used |
| Legacy store migration (`legacy_store.rs`) | old databases, source marker | copy once | a crash leaves either the old store or the complete copy |

**Interactions.** Machine RPCs are tokio tasks. They call the authority store
and the journal, which share one SQLite connection behind one mutex: each
mutating journal call is one transaction. `sign` awaits the Signer worker (an
OS thread that sends one request at a time) between two journal calls, so other
calls run in between. Every signed head, the Broker's own included, goes to the
checkpoint store, which is a directory of its own. Ceremonies reach the journal
through the authority store when they activate an approval.

Ceremony handlers share the sessions
map behind a lock they release between a read, a Signer call and a write. Reviews
are pure: `prepare_approval` runs one, the ceremony page shows it, and the approval
record keeps its digest.

**What is hard.** Concurrent calls on one operation id; crashes between
"DISPATCHED is durable", "the request is sent" and "the answer is published";
the 30 s timeout against a late signature; the two transactions that end an
operation and free its budget; a commit and its checkpoint in two locked
sections; key rotation across crashes; chains of renewals against key stops;
rolling windows at their edges; ceremony handlers that write clones of a session
another handler has ended; a completion whose answer is lost or whose handler a stop
overtakes; a policy that moves
while its update is reviewed; a catalog withdrawn under an active approval; reviews
of messages, batches and programs that must agree with what is hashed and run.
`PROJECT.json` lists these hazards line by line.

## Modules

| Module | Models | Mutants in it |
|---|---|---|
| `BrokerJournal` | the durable tables and every transaction on them | `X_Something` beside `X` |
| `SigningService` | `sign` and `operation.cancel` over `BrokerJournal`, with the Signer | same |
| `AuditCheckpoint` | audit chain, checkpoint store, latch, worker, Machine heads, startup | same |
| `RevocationAuthority` | the revocation RPCs, `reconcile_wallet` and the chokepoints under the authorization barrier, over `BrokerJournal`, with the Signer | same |
| `MCBrokerJournal`, `MCSigningService`, `MCAuditCheckpoint`, `MCRevocationAuthority` | instances for TLC | |
| `CeremonyPromise` | what an owner ceremony promises: the abstract specification | |
| `CeremonySessions` | the session handlers of `ceremony.rs`, with the Signer; implements `CeremonyPromise` | same |
| `CeremonyAdmission` | the creation bounds, the cooldown and the clocks they read | same |
| `CrossSurface` | the two tabs of a cross-surface passkey addition | same |
| `PolicyCustody` | the policies row and what custody ceremonies leave behind, with the requests that change them | same |
| `EnsoProgram` | the decoder of Enso's Weiroll programs, and the machine that runs them | same |
| `ClearSigning` | admission of descriptions and the catalog | same |
| `ClearReading` | the reading of one call, with embedded calls, batches and shortcuts | |
| `TransactionReview` | EVM and Safe transaction reviews | same |
| `MessageReview` | EIP-712, sign-in, HyperCore, Tempo and Polymarket messages | same |
| `SolanaReview` | Solana messages, the one-operation approval, the transfer verifier | same |
| `OwnerApproval` | from a request to an accepted use: gates, review, record, authorization | same |
| `MCCeremonySessions`, `MCCeremonyAdmission`, `MCCrossSurface`, `MCPolicyCustody`, `MCOwnerApproval` | instances for TLC | |
| `BrokerJournal_proofs` | type correctness, publication, audit correlation, binding; lineage, key stops, ledger, budgets and rolling windows of operations, signatures and value | |
| `SigningService_proofs` | types, refinement, dispatch, cancellation, outcomes, charges | |
| `RevocationAuthority_proofs` | types, monotone epochs, reconciliation, no late authorization, key stops and their completion | |
| `AuditCheckpoint_proofs` | what the store retains, when the latch is set | |
| `PolicyCustody_proofs` | versions, swaps, scopes, accounts | |
| `CeremonySessions_proofs` | released operations, dead sessions, the refinement of `CeremonyPromise` | |
| `CeremonyAdmission_proofs` | types, the rolling and the concurrency quota, the retry hint | |
| `CrossSurface_proofs` | the end of both tabs, additions never reported dead | |

`SigningService` and `RevocationAuthority` extend `BrokerJournal`. The modules of the
reviews form a chain by `EXTENDS`: `EnsoProgram`, `ClearSigning`, `ClearReading`,
`TransactionReview`, `MessageReview`, `SolanaReview`, `OwnerApproval`. Several modules
have a constant `Worlds` and a variable `world`: an environment (which operations, how
many handlers, which faults) chosen in the initial state and never changed, so that one
run covers several small environments instead of one large one.

### BrokerJournal

One action per mutating call of `BrokerJournal` (the struct); the call's refusals
and its idempotent replays leave the tables alone and are stuttering steps. The
tables are functions from ids: `approvals`, `renewalOf`, `activation` for an
approval and its metadata, `operations` for the operation row with its receipt,
`reservations[a][o]` for a ledger row and its values, `audit` for the entries
that carry `correlation_schema` v1. Names follow the source
(`CreateApprovalRecord`, `BeginSignAttempt`, `validate_rate_limits`, ...).

- Digests, fields and results are model values: equality is all the code asks of
  them. `fields` stands for every request field a retry must repeat, `envelope`
  for the ones it may change (`attempt_retry_binding_digest`).
- `Lineage(a)` is the set the `WITH RECURSIVE` queries compute, stated as the
  least set closed under `renewalOf`, so that proofs need no recursion.
- A sum of signatures or of value is the number of its units (`Units`, `Total`): a row
  charged n contributes n. The queries' loops compute the same number, and counting lets
  the budgets be proved from theorems about finite sets, without recursion.
- `TransitionApproval` is offered the targets its callers ask for (FAILED and
  REVOKED, from `stop_approval`), `TransitionOperation` the ones `service.rs` asks for.
- `ObserveTime` lets the environment choose the condition; the effective time
  never decreases. The rule that chooses the condition, `evaluate_durable_clock`,
  is in the external crate `bloom_trusted_time`.
- Amounts are small naturals. The code adds `u64` with `checked_add` and refuses
  on overflow, and adds values as big integers, so nothing wraps.
- `DurableClockGuard` is the platform profile: without it
  `reserve_for_clock_profile` does not check the reservation's date.

### SigningService

Several calls, each at a step `pc[c]` of `sign`, share one journal. A step is one
journal transaction, one read, or one message, because the code holds no lock
between two of them. `AfterBegin`, `AfterTransition`, `AfterAnswer`,
`AfterStatus` and `AfterSnapshot` are the `match` statements of the code. The
Signer is external: it decides a request at most once, possibly after the caller
gave up, and its answer may be lost; a refusal may leave no operation behind.
`Crash` stops every call; journal and Signer keep their tables. `Lapse` ends an
approval's validity or replaces the policy it was frozen with: its row stays ACTIVE, and
`authorize_for_clock_profile` refuses it from then on (`lapsed`). Signer responses
whose shape does not match the request (`validate_signer_result_shape`) end the
call like a lost answer and are not a step of their own.

The module EXTENDS `BrokerJournal` and calls its actions, so
`ImplementsJournal == Spec` is the refinement statement: service steps are journal
steps or stutters.

### AuditCheckpoint

The chain is a sequence of entries with the key that signed each; a head is the
chain it covers. The connection mutex makes a locked section one action. Split
are the places where the code lets go of it: `CheckLatch` / `Commit` /
`Checkpoint` of a mutating call, `SampleHead` / `PersistHead` of the worker.
`OpenJournal`, `RotateAuditKey`, `VerifyRotated` and `InstallSelfCheckpoint` are the
steps of startup, with a crash possible after each. The checkpoint store is
external: it retains a head at a higher sequence, or the same head again, answers
"rollback" to a lower sequence and "conflict" to another head at the same one, and
may fail. Damage to the database
happens while the Broker is down.

`reported` and `faults` are history variables: no guard reads them
except through the bounds.

### RevocationAuthority

One wallet. Each call runs one request of six kinds: `sign` and `prepare` reconcile
the wallet and then reach their chokepoint (`Authorize`, `PrepareApproval`),
`reconcile` is `reconcile_wallet` alone, `revoke`, `revoke_for_key` and `revoke_all` are
the revocation RPCs; the control socket's handlers take the same steps. `wallet` is
the `wallet_epochs` row, `tombstones` and `stops` the tables of those names,
`ceremonies` the approvals with a live session, and the approval and operation rows are
`BrokerJournal`'s, changed by its actions only (`StepIsJournal` proves it).

- The authorization barrier is a mutex. A call that holds it over one transaction
  is one action. `reconcile_revocation` and `advance_local_epoch` hold it over several
  transactions: a call at a step in `Held` has the barrier, every other action that
  needs it asks for `BarrierFree`, and `Fail` may end the holder between two
  transactions. That is a crash or a storage error; a crash of the process is the
  failure of every running call.
- The code stops tombstoned and older approvals in the order of its list; the model
  in any order.
- A snapshot is read from the Signer in one step and used in later ones, so it may be
  overtaken by other calls and by the Signer.
- The Signer is external. It handles a command in `wire` at any later time, also after
  the caller timed out, or never; each `revoke_all` advances its epoch by one; its
  owner may revoke an approval or the wallet without the Broker; it activates an
  approval only under its current epoch. Signatures and summaries of a snapshot are
  taken to be valid.
- `Denied` stands for the policy, provenance, claim and validity checks, which may
  always refuse.
- `activate_signer_receipt` does not call `ensure_key_not_stopped`, although the comment
  on that function says that both chokepoints do (`authority.rs:2214`). The promise the
  comment makes still holds, by the fence of `admit_key_revocation`: this is
  `StoppedKeyAdmitsNoAutomation`.
- `late` is a history variable: the call's approval was already revoked, in a table of
  the Broker or of the Signer, when the call began.

### CeremonySessions, CeremonyPromise

A session per operation, in memory (`mem`) and in the `ceremony_sessions` table (`db`).
A handler is a thread at a step: the code takes the sessions lock for each read and
write and releases it in between, so a handler clones a session, calls the Signer,
persists a changed clone and inserts it into memory in separate actions, and updates
can be lost between them. `prepare` and `cancel` hold `creation_admission` throughout.

- Time is counted in deadlines. The acknowledgement deadline outlasts the handler that
  completes a session.
- A sweep over several due sessions is several sweeps of one session.
- The Signer is external: it decides an operation once, answers a repeated completion
  with the same receipt, refuses to cancel a completed operation and issues a new
  challenge at each binding. A call may fail in transit (`lost`) before or after the
  Signer handled it.
- While an audit failure has latched the journal, every persist and every mutating
  Signer call fails.
- `stop_serving` waits for the handlers of the loopback listeners only. Spawned RPC tasks
  and handlers on the hosted surface, which get 10 to 12 s against a Signer call of up to
  30 s, run on beside `terminate_live_sessions`, which has a thread of its own.
- `abandoned` is a history variable: operations whose session was failed without knowing
  what the Signer decided, because the answer to a completion was lost or because
  `terminate_live_sessions` found it Verifying.
- `CeremonyPromise` has no sessions: the Signer's decision, what was adopted, refused or
  abandoned, and what is on record. `PromiseKept` is its specification under the mapping
  at the end of `CeremonySessions`. A record says "done" only of an adopted operation;
  it says "dead", which is what `approval_ceremony_unreachable` counts, only of a released
  or refused one, or of an adopted one whose result nobody acknowledged; and a dead
  operation commits no more. An abandoned operation is excepted from both.

### CeremonyAdmission

`enforce_creation_bounds` and the cancellation cooldown with the trusted clock, the wall
clock and the monotonic clock. A sweep precedes the lock; the decision, the Signer call
and the insertion are under it. A prepare call does not outlast a ceremony's lifetime (the
Signer call is bounded by 30 s). Requests without a wallet are counted as anonymous or
not at all, as in the code. The migration of a legacy passkey (role `import`) names no
wallet when the bounds are enforced (`Named`) and is stored under the one the Signer's
contribution has. `pair_cross_surface` inserts a source tab (role `aux`) with no check.
Both are counted against later requests. `ConcurrencyBound` and `RetryHintIsHonest` are stated while no
clock has been set (`Steady`); `RollingQuota` holds also when one is. A restart may load
other limits, the window is one constant. The sorted list of `rolling_quota_exhausted` is
used at one index, so the model takes that order statistic (`Nth`), and `clamp` its result.

### CrossSurface

One operation, two tabs: the destination pairs and registers, the source authorizes. A
handler persists both sessions one after the other and inserts them together. A lost
answer of the Signer leaves the destination waiting; the sweep then asks the Signer.
Every step of the addition holds `creation_admission` (`guard`), a sweep does not, so
stale clones are written once a deadline has passed.

### PolicyCustody

One wallet. A request or a finalizer is a call at a step, because the code answers a
read, stages an update or verifies a receipt under no lock that it keeps. The Signer's
policy history is `signer.signed`; the Broker has `row`. Signatures are not forged, the
Signer repeats the receipt of a swap it made, and the children an allocation receipt
lists are any list: they are checked. Epochs and expiries in account terms are not
compared. Registration stands also for import; the custody kinds that leave nothing in
the Broker (export, credential, recovery, enrolment) are not operations of the model.
The key registry is filled again from the rows at a start.

### Clear signing: EnsoProgram, ClearSigning, ClearReading

Descriptions, catalogs, calls and readings are operators. A call is a function name with
decoded arguments and a form (`exact`, or with bytes left over); a reading is a set of
fields, each with its place, its raw value and what it says. `build` admits documents
and assembles the catalog the binary compiles in: a catalog that was refused is not a
build, so the initial states leave it out. `review_at` follows `render.rs`: the entry of
the address, else an instance entry or a standard by selector, the constraints, then
each field, with embedded calls one level deeper and batches element by element.
`EnsoProgram` has both the decoder that lists the calls of a program and the virtual
machine that runs it (external), which may return any value of `Returns`.

### Reviews: TransactionReview, MessageReview, SolanaReview

An envelope describes what is signed. The reader rebuilds the preimage from it and shows
fields of it. Preimages are documents and digests are injective, so "the hash matches"
is equality of documents. Labels and number formats are positions and values; where the
unit matters (known tokens, native decimals) the value says whether it was scaled. The
sign-in grammar is reduced to its head and tail; text parsing of signatures and paths is
left out. Only the compiled Solana verifier exists, so other claims are machine-asserted.
Safe batches go through `MultiSendCallOnly`, in which an inner delegate call reverts, and
a batch entry with the zero address is a call to the Safe itself. The fixed sentences
that a review adds to a decoded message (a venue, a permission) are not rows of the model.

### OwnerApproval

`PrepareReview` and `PrepareCommit` are the two halves of `prepare_approval` around the
ceremony page; `activate_approval`, `SignStart` and `SignAuthorize` the later steps; the
clock is read in `SignStart` and used after the awaits. The installer replaces the
catalog and the owner the policy in between. Revocation, retries and the ledger's details
are in the other modules: the reservation here is a lifetime count. A world names the
requests and uses the Machine may send.

## Runs

| Run | Instance | Shows |
|---|---|---|
| `journal_ledger` | an approval and one that may renew it, 2 operations, charges with and without value, time 1..2, lifetime, rate and rolling limits of two durations | `SpendingBudget`, `RollingOperations`, `RollingSpending`, `RenewalConsumesLineage` |
| `journal_publication` | one id used by 2 approvals with 2 digests, 2 attempts, 2 envelopes, 2 results, batches of up to 2, a by-key revocation | `PublishedIsCharged`, `AuditCorrelated`, `NoActivationAfterKeyStop` |
| `signing_race` | 2 calls, 2 conflicting requests on one id, one crash | `SentAtMostOnce`, `SignedIsNeverReleased`, `OutcomeAgrees`, `ImplementsJournal` |
| `signing_retry` | 2 calls retrying one batch request, one crash, fairness | `SignedIsPublished` |
| `checkpoint` | two worlds: 2 mutating calls, worker, Machine heads, 3 entries and one crash; 1 mutating call, 2 keys and 3 crashes; store failure and damage in both; fairness | `NoSpuriousLatch`, `RetainedIsCommitted`, `CommittedIsRetained` |
| `revocation` | 2 calls of any kind, an active approval, its renewal and one of the next epoch, a key with 2 approvals, epochs up to 2, fairness | `AuthorizedWasLive`, `KeyStopReachesEveryTarget`, `CallsEnd` |
| `ceremony` | a local operation with 3 handlers and a process end or stop; a hosted sensitive one with 3 handlers; the same with 2 handlers, an output-key binding, 2 deadlines, a process end and a latched journal; a hosted one with 2 handlers, a lost call and a stop that overtakes a completion | `UnreachableIsSettled`, `PromiseKept` |
| `ceremony_live` | a local and a hosted operation; a lost call, 2 handlers and a process end or stop each; fairness | `EndedIsReleased`, `CommittedIsSettled`, `SessionsEnd` |
| `cross` | 2 handlers, a process end, and a lost answer or a latched journal; fairness | `CancelEndsBothTabs`, `AddedIsNotReportedDead`, `TabsEnd`, `AddedIsAdopted` |
| `admission` | five worlds: 2 calls at the concurrency limit; every kind of request, the migration of a legacy passkey among them, with a restart; 2 calls while a clock is set; a restart that lowers the quota; additions one after the other, each with its source tab | `RollingQuota`, `ConcurrencyBound`, `RetryHintIsHonest` |
| `policy` | five worlds: two updates; registration and update; deletion and update; allocation and retirement; two derivations; process ends and lost answers | `SwapWasReviewed`, `AccountsAsReviewed`, `ScopedKeyKeepsScope`, `PolicyNeverGoesBack` |
| `approval` | seventeen worlds: EVM readings, native transfers, Safe transactions, typed and sign-in messages, x402, MPP and other payments, Polymarket orders and authentication, standing grants, scoped keys, approvals of an older Broker, pump and native Solana messages, Enso shortcuts | `SignedWasShown`, `UseIsPermitted`, `PaymentIsCharged`, `ReadingIsComplete`, `NoBlindReconfiguration`, `ShortcutReadsWhatRuns` |

Each property has a mutant in `PROJECT.json`: a plausible slip in the code for which
the property fails in that very run. What the properties say:

- `SignedIsPublished`: retries are enough to publish what the Signer signed, until the
  approval is stopped or lapses. A retry is authorized anew before it asks for the
  outcome (`authority.rs:2372`, `authority.rs:2400`), so an operation whose approval
  lapsed after the signature stays in DISPATCHED with its charge reserved.
- `UnreachableIsSettled`: what `approval_ceremony_unreachable` counts as dead is of an
  operation the Signer ended, the observer refused, or that was adopted with a result
  nobody acknowledged; the abandoned operations are the only others. `EndedIsReleased`:
  an expired or cancelled session leaves nothing pending at the Signer; it says nothing of
  Failed sessions. `CommittedIsSettled`: a completed operation is adopted or refused for
  good, unless it was abandoned. `SessionsEnd`: every session ends.
- `CancelEndsBothTabs`, `TabsEnd`: no tab of an addition survives the other's end for
  ever. `AddedIsNotReportedDead`, `AddedIsAdopted`: a passkey the Signer registered is
  never shown as failed and reaches the Broker.
- `RollingQuota`: no window holds more sessions admitted for a wallet, or registrations,
  than the quota. `ConcurrencyBound`: the sessions callers asked for stay within the quota,
  and the source tabs on top of them are at most one per wallet. `RetryHintIsHonest`:
  waiting for the reported time passes the quota.
- `SwapWasReviewed`: every policy swapped in at the Signer was reviewed as exactly the
  difference from the one it replaced. `AccountsAsReviewed`, `ScopedKeyKeepsScope`: an
  account or key ceremony that ends well gave what was reviewed.
- `SignedWasShown`: what is signed under an exact approval is on the page the owner
  saw. `UseIsPermitted`: a use satisfies the policy, catalog, scope and limits in force
  when it is authorized; validity is judged at the time `sign` read before its awaits, as
  in the code. `PaymentIsCharged`: a payment reserves at least what it pays.
- `ReadingIsComplete`: every argument, array element and embedded call of a call that
  is read is on the page or fixed by its description. `NoBlindReconfiguration`: a Safe
  transaction that can change the Safe is not approved as opaque data, except a batch
  whose only calls to the Safe are written with the zero address (`UnseenSelfCall`), which
  is approved so.
  `ShortcutReadsWhatRuns`: a step shown with fixed arguments is the call that is made,
  whatever earlier calls return.

**Bounds.** Two approvals are the fewest with a renewal; chains of any length are covered
by the theorems. Two times suffice for rows inside and outside a
window of length 1 and for the saturated start of a window of length 2. One id is
enough for publication and for the signing races, because no rule relates two
operations of one approval except the limits, which the ledger run covers with two.
Two calls are the fewest that race; a third meets the same rows, since a call
keeps nothing from other calls in memory. One crash separates any two steps of the
signing protocol; the rotation world has three, so that a crash may also hit the
startup that repairs the one before. A revocation call slot is used once; two calls
are a stop and the sign or reconciliation it races, and `NoLateAuthorization` covers
any number. `MaxEpoch` 2 lets both sides advance once and one of them twice. One
ceremony operation per world is enough, as operations share only the admission lock;
a third handler is there because a sweep, a cancel and a completion write the same
session, and because two completions and a sweep race on a sensitive one. Admission has up to four creations in six ticks with a window of three, so
that a creation leaves the window while another enters. In `approval`, words have 8 bits
so that sums overflow, arrays up to 3 elements, calls nest 2 deep so that the limit is
met, and a program has 3 commands over 2 slots, so that a slot is written between two
reads. `MaxTime`, `MaxBatchChildren`, `MaxKey`, `MaxPeer`, `MaxCrashes`, `MaxBinds`,
`MaxDeadlines`, `MaxSessions`, `MaxVersion`, `MaxFaults` and the fields of the worlds
are bounds in the guards.

**Deadlock** is checked where the system goes on for ever (`signing_race`, `signing_retry`,
`checkpoint`). The others switch it off: finite ids, limits, call slots, versions or
sessions are used up in the end, and the Broker may then rest.

**Fairness.** `Retrying` (`signing_retry`) says that a caller whose call ended starts
it again, that a call that can go on does, and that among infinitely many retries
some pass the clock, authorization and the Signer's status query (strong fairness of `Observe`,
`Authorize`, `Resolve` against `Refuse` and `ResolveUnavailable`). `Authorize` is disabled
once the approval has lapsed, so nothing is assumed of a retry after that. It says nothing of the Signer's signing,
of the first answer or of crashes. The code has no retry loop of its own: this is
what it asks of its caller, and the property is that the caller's retries are
enough. `Running` (`checkpoint`) says that the service manager restarts the
Broker, that the worker thread samples and retains heads (it does so
unconditionally when it starts, and `main.rs` then exchanges heads every 45 s), and
that a call that committed goes on to its checkpoint. `FairRevocationSpec` says that a
call that can go on does, where a timeout is one way to go on: the worker gives up after
30 s. Nothing is assumed of the Signer. The ceremony specifications say that a handler
runs to its end (its Signer call is bounded by the timeout), that the Broker is started
again, that time passes and that sessions are swept: every request sweeps, and Machine
polls the status of the ceremonies it prepared.

**Disagreements met while modelling.** `PROJECT.json` lists them under `findings`; no run
depends on a disputed sentence.

- Rate-limited reservations on profiles without the durable clock guard are admitted on
  the host's wall clock, although `docs/w2-journal-decisions.md:14` says that
  uninitialised time denies admission. `RollingWindowsHold` assumes the guard.
- A ceremony completion that fails in transit ends the session as Failed although the
  Signer may hold or have completed the operation (`ceremony.rs:4615`). The operation is
  `abandoned`, and the properties of the ceremonies except it.
- `terminate_live_sessions` relies on a drained listener (`ceremony.rs:2611`) that the
  hosted surface and the RPC tasks do not wait for, and fails a session whose completion
  is still at the Signer. This operation is `abandoned` too.
- The sweep of a session that waits for an acknowledgement checks its state under one
  lock and clones it under another (`ceremony.rs:2863`, `ceremony.rs:2868`). If a second
  completion inserts its older clone in between, the sweep stores that clone as Failed
  without a result although the operation was committed and adopted, which the comments
  of the cancel call a ceremony that never committed (`ceremony.rs:2546`). A world of the
  `ceremony` run has the three handlers it takes; `UnreachableIsSettled` counts the
  operation as settled because it was adopted.
- The import of a legacy passkey is checked under no wallet and stored under one
  (`ceremony.rs:2099`, `ceremony.rs:2138`), so a wallet's window may hold more sessions
  than its quota and more than one of them may be live. `RollingQuota` counts the sessions
  that were admitted for the wallet.
- The bound on "simultaneously live ceremony sessions" (`ceremony.rs:205`) is passed by
  the source tabs that `pair_cross_surface` inserts unchecked, one per wallet.
  `ConcurrencyBound` bounds the two kinds separately.
- `can_reconfigure_safe` compares the entries of a batch with the Safe's address only
  (`safe_review.rs:243`), although Safe 1.5.0 reads the zero address as the Safe itself
  (`render.rs:808` of `bloom-evm-clear-signing`). Such a batch is approved as opaque data:
  the exception of `NoBlindReconfiguration`, which a world of `approval` reaches.
- The retry hint is clamped to one window although a creation may be dated ahead of the
  clock that admission reads (`ceremony.rs:5956`); `RetryHintIsHonest` is stated while no
  clock was set.
- A start with a degraded journal fails when a live source tab is stored
  (`ceremony.rs:3497`); the liveness properties of `CrossSurface` except degraded journals.
- A scoped derivation request leaves its pending scope behind although its ceremony is
  refused (`service.rs:567`), and an unscoped one with the same id is adopted under it.
  `ScopedKeyKeepsScope` speaks of the derivations that were reviewed with a scope.

## Proofs

All results hold for every value of the constants that satisfies the named
assumptions: finitely many approval and operation ids (`FinitenessAssumption`), limits
and charges that are naturals (`ConstantsAssumption`), requests of the right type
(`RequestsAssumption`, `RevocationAssumption`), worlds of the right type
(`BoundsAssumption`, `CustodyAssumption`, `SessionsAssumption`, `CrossAssumption`,
`AdmissionAssumption`), a widest policy among those a start may load (`CeremonyLimits::new`
keeps every limit between one and a ceiling), and model values that are no record, wallet
or thread (`NoneAssumption`, and `NoThread` in `CrossAssumption` and
`AdmissionAssumption`). TLC evaluates these in every run. Each
invariant named below was checked with TLC before it was proved.

| Theorem | Says | Argument |
|---|---|---|
| `TypeCorrect` | `TypeOK` | inductive as it stands, one lemma per group of actions |
| `ChargedIffPublished`, `AuditStaysCorrelated`, `AttemptsNameOneOperation` | `PublishedIsCharged`, `AuditCorrelated`, `AttemptsOfOneOperation` | `PublicationInv`: the three together, with "only signing operations have results and attempts" and "an audit entry is about a row that exists, and a publication entry about a published one". Without these an insert could reuse the id an entry is about |
| `OperationBoundOnce` | `OperationBinding` | per action, from types and `PublicationInv` |
| `RenewalIsConsuming`, `LineagesNeverFork` | `RenewalConsumesLineage`, `NoForkedLineage` | `LineageInv`: both, with `Linked` (a predecessor exists before the record that names it, only an activation makes an approval ACTIVE) and `Fenced`. Creation extends a lineage with a leaf, activation consumes its predecessor |
| `KeyStopIsFinal` | `NoActivationAfterKeyStop` | `Fenced`: a recorded target is no longer pending, and only pending approvals are activated |
| `LedgerIsFinal` | `LedgerRowFinal` | every ledger step writes one row that was absent or reserved |
| `BudgetHolds` | `OperationBudget` | the counted rows grow by at most the row `validate_lifetime_limits` allowed |
| `SpendingHolds` | `SpendingBudget` | a sum grows by exactly the units of the row that is added (`TotalGrows`) and only shrinks when a row is released (`TotalShrinks`); the row added is the one `validate_lifetime_limits` and `validate_value_limits` allowed, and an asset without a limit is never charged |
| `RollingWindowsHold` | `RollingOperations`, under the durable guard | `RowsDated`: every row is dated no later than the clock's effective time, so a new row lies in no earlier window; `Windows`, and a reservation only ever happens at the end of the time line. A released row leaves windows, an activated renewal changes no lineage |
| `RollingSpendingHolds` | `RollingSpending`, under the durable guard | the same argument about windows as `RollingWindowsHold` (`WindowStep`: a window loses rows, or ends at the new row and gains it), with the sums of `SpendingHolds` |
| `ServiceTypeCorrect` | `ServiceTypeOK` | every `match` leads to a step that exists |
| `ServiceImplementsJournal` | `ServiceSpec => Spec` | one case per step of a call; identity refinement mapping |
| `ServiceKeepsBudgets` | `OperationBudget`, `SpendingBudget`, `PublishedIsCharged` of the service | through the refinement |
| `SentOnce` | `SentAtMostOnce` | `DispatchInv`: what was sent, or is about to be, is beyond RESERVED; at most one call is about to send an operation, and then nothing was sent |
| `CancelBeatsDispatch` | `CancelledIsNeverSent` | from `DispatchInv`: CANCELLED is not beyond RESERVED |
| `OutcomesAgree`, `SignedKeepsCharge` | `OutcomeAgrees`, `SignedIsNeverReleased` | `OutcomeInv`: what a call is about to write (`CallAgrees`), what an answer says, the operation's row and its ledger row each agree with the Signer's decision. It is inductive because a decision stands: the Signer handles each request once (`SignerHandlesSent`, on `DispatchInv`), so what a call read before an await is still so after it |
| `RevocationTypeCorrect` | `RevocationTypeOK` | with `CallShape`: which handler a call at a step runs and what its request holds |
| `EpochIsMonotone` | `EpochNeverGoesBack` | `StepGrows`: epochs, tombstones and stops only grow |
| `ReconciledEpochIsKnown` | `ReconciledIsKnown` | with `SnapshotReached`: a snapshot in use is not ahead of the Signer, whose epoch only grows |
| `NoLateAuthorization` | `AuthorizedWasLive` | `LateEvidence`: for a sign call whose approval was revoked before it began, the revocation is at the Signer or in the Broker's tables until the snapshot, in the snapshot or the tables until they are stored, and from then on in the tables, which `Authorize` reads. Other calls take no evidence away, because everything in it only grows |
| `StoppedKeyIsFenced` | `StoppedKeyAdmitsNoAutomation` | `StopsFence`: no automation on a stopped key waits for a ceremony. The stop fails the waiting ones, the key check of a preparation lets no new one in, and activation starts from waiting |
| `KeyStopIsComplete` | `KeyStopReachesEveryTarget` | `TargetInv`: a pass of `revoke_for_key` has put behind it every target it no longer lists (`Sweeping`), the one it is about to stop here is revoked at the Signer, and a call has no other revocation on the wire (`OneMessage`), so that no late message of an earlier target is taken for this one's answer. A stopped target never becomes active again |
| `StoreFollowsChain` | `RetainedIsCommitted` | `HeadsCommitted`: the heads in the store and on their way to it are prefixes of the chain, which only grows at its end |
| `LatchNeedsFault` | `NoSpuriousLatch` | `LatchInv`: every entry is signed by the key the one before it selects (`Linked`), the last one by a key the packaging knows and, from the end of a rotation on, by the active one (`KeysAgree`), and the retained peer heads are ones the peers had (`PeersAhead`). The hard case is a crash between the two entries of a rotation: the transaction writes both, so no start finds the first alone |
| `PolicyGoesForward` | `PolicyNeverGoesBack` | `install_policy` is the only writer of the row and compares versions |
| `SwapsWereReviewed`, `KeysKeepTheirScope`, `AccountsMatchReview` | `SwapWasReviewed`, `ScopedKeyKeepsScope`, `AccountsAsReviewed` | `CustodyInv`: what a request froze before its ceremony (`Frozen`), what a session carries and what a finalizer verified are the same; a swap's difference is that of its version (`SwapInv`). No step takes back a session's request, a completed one's receipt, frozen terms or a key's scope (`Kept`), so a call may go on with what it read |
| `EndedMeansReleased` | `EndedIsReleased` | `ReleaseInv`: a cancelled or expired session, in memory, stored or about to be written, is of an operation the Signer has decided; a decision stands |
| `UnreachableMeansSettled` | `UnreachableIsSettled` | `TruthInv`: every session, in memory or on disk, and every clone a handler is about to write says only what is true of the Signer and the observer (`Told`, `Knows`), and the observer has settled only what the Signer completed (`Observed`). A lost answer or an overtaking stop abandons the operation before the session is failed, so what is written is true of it |
| `SessionsKeepPromise` | `PromiseKept` | step simulation on `TruthInv`: each handler step is a commit, an adoption, a refusal, an abandonment or a record of `CeremonyPromise`, or changes none of its variables |
| `AdmissionTypeCorrect` | `TypeOK` of `CeremonyAdmission` | with the keys of its tables (`Typed`) |
| `RollingQuotaHolds` | `RollingQuota` | `Locked`: a call between decision and insertion holds the lock, and the quota it was admitted under still has room, because every other step edits sessions without touching who asked and when (`Edited`). `Quotas` states the bound for the window that ends at any time, not only at a creation: set clocks insert sessions out of order, and every other session of a window that holds the new one was in the window of the decision |
| `ConcurrencyBoundHolds` | `ConcurrencyBound` | `Timely`: while no clock is set, no session under way is due at the time of a running call (`Fresh`), though the sweep came before the lock: a deadline only moves beyond the present, and an inserted session outlives it because a call is shorter than a ceremony. So the live sessions of the decision are all there are. `Alone`: when a session was admitted for a wallet, all earlier ones of it were over, so a wallet has one destination under way and one source tab (`OneSource`) |
| `RetryHintHolds` | `RetryHintIsHonest` | the order statistic exists (the least time by which enough sessions were created); fewer than the limit remain when it leaves the window, and the limit is still met just before |
| `CancelEndsBoth`, `AddedIsNeverDead` | `CancelEndsBothTabs`, `AddedIsNotReportedDead` | `CrossInv`: before the first deadline, and while the Signer does not know the operation, only the holder of the lock is active (`Sequential`), and memory and rows differ by what it has persisted (`InStep`). A later write may be stale, but the source is then past its deadline, and a dead destination is of an operation that the Signer will never complete (`Doomed`) or has never heard of while nobody pairs (`GivenUp`) |

The theorems about `TypeOK`, `OperationBudget`, `NoForkedLineage`, `LedgerRowFinal`,
`OperationBinding`, `AttemptsOfOneOperation`, `CancelledIsNeverSent`, `ReconciledIsKnown`,
`EpochNeverGoesBack`, `StoppedKeyAdmitsNoAutomation` and the types of the two protocol
modules need no run of their own.

Only model-checked:

- The liveness properties `SignedIsPublished`, `CommittedIsRetained`, `CallsEnd`,
  `CommittedIsSettled`, `SessionsEnd`, `TabsEnd` and `AddedIsAdopted`.
- The reviews and `OwnerApproval`, whose readers are recursive operators (calls inside
  calls, nested types), which the prover cannot use.

## Not modelled

- A foreign process that writes the Broker's database while the Broker runs. The
  verified-tail cache notices it through `data_version`; the model has damage at
  rest only, so a failing verification under `lock_for_mutation` is not an action.
- Bytes: ABI words, short vectors, canonical JSON, signatures and hashes. Documents
  stand for their encodings and digests are injective by assumption. The text of
  function signatures, field paths, amounts and dates is covered by golden vectors in
  the repository.
- The bounded queue to the worker and the connection and mutation quotas of the sockets
  (`main.rs`): counters in front of the handlers, which only refuse.
- The internals of the durable clock, which are in the external crate
  `bloom_trusted_time`, and its anchor file.
- `ceremony_assets/` (browser code without authority), `remote_material.rs` (certificate
  files), `legacy_store.rs` and `migrate_legacy_authority` (a one-shot copy before
  anything else starts), `config.rs`, token artwork and the debug driver.
- Serialisation and the translation between wire dialects; read-only projections
  (`wallet_public`, `wallet_accounts`, readiness, capabilities).

## What is left

The migration of the legacy stores with a crash between any two of its steps, should it
stay in the product.
