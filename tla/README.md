# A verification of mcp-usage-control

This directory holds TLA+ models of the usage-control packages in `packages/`,
the TLC configurations that check them on small instances, and proofs about
them that the TLA+ proof system checks for every value of the constants.

`mcp-usage-control` limits what MCP tools may consume. Before a tool call does
paid work it *reserves* units on one or more budget keys; the reservation is a
*lease* that expires; just before the work starts it is *marked liable*; when
the work ends it is *settled* at what was really used. An expired lease is
released if it was pending and charged in full if it was liable. Everything
rests on a store that does each of these steps atomically, and on callers who
may crash, retry, hear nothing, or hear an answer late.

## The system

| Component (source) | State | Operations | Modelled by |
| --- | --- | --- | --- |
| In-process usage store (`core/src/index.ts`, `MemoryUsageStore`) | `reservations`, `operations`, `used`, `nextRecoveryAt` | `reserve`, `reserveVector`, `markLiable`, `renew`, `growReservation`, `growVectorReservation`, `settle`, `settleVector`, `retireBudgetKey`, `stats`, `reconcileOperation` | `MemoryUsageStore`, `RecoveryObserver` |
| Store contract (`core/src/index.ts`, `docs/store-contract.md`) | what a store promises | one call, one exact change | `UsageLedger` |
| Usage control and leases (`core/src/index.ts`, `UsageControl`, `UsageLease` and their vector twins) | a client's copy of a reservation, `unresolvedGrowth` | `reserve`, `grow`, `markLiable`, `renew`, `settle`, `toResumeState`, `resumeLease` | `UsageLease` |
| Observability (`core/src/observability.ts`) | none | `emitUsageEvent` | `RecoveryObserver`, where it is called from recovery |
| Redis usage store (`redis/src/scripts.ts`, `redis/src/index.ts`) | five keys: records, claims, lease index, tombstone index, used units | one Lua script per operation, `reconcileOperation`, `retireHistoricalBudgets` | `RedisUsageStore` |
| MCP wrappers (`mcp/src/index.ts`) | per call: lease, round, heartbeat | `protectTool`, `protectMultiRoundTool` | `McpToolCalls` |
| Flow store contract (`mcp/src/index.ts`, `flow-store-conformance.ts`) | tokens handed out | one claim per token | `McpFlowContract` |
| In-process flow store (`mcp/src/index.ts`) | `flows`, `consumed` | `suspend`, `consume` | `McpFlowStore` |
| Firestore usage store (`firestore/src/index.ts`) | a document per reservation and per budget, a clock per host | one transaction per operation, cleanup by query, `retireHistoricalBudgets` | `FirestoreUsageStore` |
| Cloudflare usage store (`cloudflare/src/worker.ts`, `versioned-worker.ts`, `schema.ts`) | SQLite tables of a Durable Object and their version | one synchronous transaction per operation, `pruneCloudflareBudgets`, construction with migration | `CloudflareUsageStore`, `CloudflareUsageSchema`, `VersionedUsageControl` |
| Cloudflare client (`cloudflare/src/index.ts`, `exact-retry.ts`, `maintenance.ts`, `reconciliation*.ts`) | a call awaited, its attempt and its timer | RPC through the gateway with exact replay, lookup, pruning | `RemoteCloudflareUsageStore` |
| Durable flow stores (`redis/src/mcp-flow.ts`, `firestore/src/mcp-flow.ts`, `cloudflare/src/mcp-flow*.ts`) | flow records and consumed markers | `suspend`, `consume`, deletion by key expiry, TTL policy or alarm | `RedisFlowStore`, `FirestoreFlowStore`, `CloudflareFlowStore` |
| Pure helpers, conformance suites, authentication, scripts, examples | none | | not modelled |

How they interact: a wrapped tool call (`McpToolCalls`) asks `UsageControl` for a
lease; the lease forwards every request to one usage store, by the id of the
reservation, which is derived from the operation key; a multi-round call parks
its lease in a flow store and another process picks it up. Clients reach remote
stores over a network that loses and delays requests and answers. Stores
recover expired leases lazily, in the course of somebody else's call, and
report that to an observer.

What is hard about it, and what would make each part wrong:

- *Interleaving.* Any client's call may recover any other client's lease. No
  budget may lose or gain a unit over any order of admission, growth, expiry,
  settlement, pruning and retirement; no budget may pass its limits.
- *Crash.* A process may die between any two awaits. Work that was made liable
  must be charged, never refunded; a handler must never run without a charge.
- *Ambiguity.* A request that failed may have taken effect. Growth must be
  applied once and never forgotten; an exact retry must be answered with the
  truth; a resume token must re-enter the handler once.
- *Time.* Clocks step back, leases are shortened, deadlines overflow, recovery is
  gated by a cached deadline or bounded by a batch. No expired lease may hide.
- *Reentrancy.* An observer runs inside the recovery loop.

`PROJECT.json` lists each hazard at its line, with the properties that cover it
or the reason why none does.

## The modules

**`UsageUnits`** is arithmetic shared by the stores: `Total(f)`, the sum of a
function with a finite domain, written as a cardinality, and the clamped
subtraction of `releaseAcrossBudgets`. A recursive sum could not be used in a
module with proofs; a cardinality can be reasoned about with the theorems on
finite sets (`UsageUnits_proofs`).

**`UsageLedger`** is the abstract store: a map from operations to entries, two
counters per budget, and three kinds of step: an entry changes by request,
entries expire, budget history is dropped. It has no clock, cursor, key, gate
or batch. Its counters are exact by definition, so a store that implements it
has exact counters.

**`MemoryUsageStore`** is the in-process store. A JavaScript method without an
`await` runs to completion, so each public method is one action, and the
environment is the most general caller. All methods but reconciliation first
run `recoverExpired`; `Recovered`, `RecoveredUsed` and `RecoveredNext` are what
it leaves, and every action is written over them. A call that throws, denies or
replays is `RecoverOnly`, for its recovery stays. `Reserve` and `ReserveVector`
share `Admit`; both growth methods share `Grow`; both settlements share
`SettleAs`: the code repeats the logic for the vector case, with units per
dimension, and since no two dimensions may name the same key a vector of units
per key stands for both. `spent` and `issued` (cursors, random UUIDs in the
code) are the only additions: a history variable that states where units went,
and a counter that makes cursors distinct.

**`RecoveryObserver`** opens up the one step that `MemoryUsageStore` takes for
granted. `recoverExpired` loops over a `Map` and calls the observer inside the
loop, before a released entry is deleted. The module runs the loop entry by
entry, with a stack of frames for calls the observer makes. `safeAdd` may throw in
the middle of the loop (`Throws`), which would leave it half done; that the pass
before the loop (`RecoverySafe`) excludes this is part of what is checked.

**`UsageLease`** is the client of a progressive reservation. It extends
`MemoryUsageStore`, so the store's actions are the real ones, and puts a network
between: a growth request is sent, arrives, is answered; the caller may give up
while the request is still under way. Objects are suspended and resumed, which
moves the copy and abandons answers on their way. An unresolved growth is unpinned
by the store's own answer to that very attempt and by nothing else
(`Authoritative`: a result that fits, whose cursor is adopted, or a
`UsageStateError`; a transport error or an answer that does not fit keeps the pin).
The scalar and the vector class differ in the mode of the calls they make, which is a
field of the lease.

**`RedisUsageStore`** has the five keys of a namespace, one action per script, and
a server clock that may be stepped. Admission recovers a batch of expired
leases and prunes a batch of tombstones, each of `CleanupBatchSize`, in the
order of the indexes; other scripts recover only the record they name, on the
spot (`DirectExpiry`). The two reconciliation scripts write nothing: `Verdict` is
what they answer, and the actions are what may happen before somebody acts on it. Each script is a single step because Redis runs it so,
and because its preflight reads every record before the first write. A record
and the indexes that must agree with it are separate variables, as they are
separate keys.

**`FirestoreUsageStore`** has one document for each operation and one for each
budget. Transactions are serializable, so each is an action that reads and
writes one reservation document and the budgets it touches (`Write`). The time is
what is not atomic: a call reads its host's clock before its transaction, and all
retries keep that instant. Since any number of calls may be under way and may
commit arbitrarily late, a call needs no state of its own: a transaction uses any
instant that some host's clock has shown (`Instants`), which covers calls whose
commit is delayed, retried after `ABORTED`, or repeated after a lost answer. Hosts
have clocks of their own, kept within `MaxSkew` of each other; `ExpiryGrace` must
cover it, as `docs/firestore-clock-skew.md` demands. The query of `recoverExpired`
is outside any transaction, so what it found is state (`cleanups`) until each
document has been looked at again. The throttle of `maybeCleanup` and the outer
retry delays only decide when these steps happen.

**`CloudflareUsageStore`** is a Durable Object: it reads its clock and runs one
synchronous transaction per call, so every call is one action. Its difficulty is
in its tables. An operation is spread over a reservation, a growth cursor and,
for a vector request, its dimensions, and a budget is a row that only admission
inserts, that everything else updates, and that an operator may prune; an
`UPDATE` of a missing row does nothing and reports nothing. So the tables are
separate variables, `Added` and `Released` act on rows that exist only, and an
insertion under a primary key that is taken is impossible. `Recovered` gives the
tables after the cleanup, for a batch (admission) or for one row (all else).
The object keeps no state in memory.

**`CloudflareUsageSchema`** is the database as `initializeCloudflareUsageSchema` sees
it: a recorded version, and tables and indexes that are missing, as expected, or
different. It is constructed one statement at a time: `trial` is what the transaction
sees and `database` what is committed. The object may stop after any statement
(`Stop`), because a check throws, the statement fails or the object is evicted; what
was not committed is rolled back, and the object is constructed anew. The
statements of the older constructor (`EnsureSchema`) commit one by one.
**`VersionedUsageControl`** puts it together with the store: only an object that is up
takes calls, it may be evicted at any time, and the reservations of a database from
before versions and growth were recorded are in the tables when it is adopted.

**`RemoteCloudflareUsageStore`** is the same store seen by hosts outside
Cloudflare. It extends `CloudflareUsageStore`, whose actions are what a request does
when it is executed, and adds what is answered (`Answer`), the attempt that the
host awaits, and the requests that nobody awaits any more but that are still under
way (`strays`). A lease is renewed for any lifetime, another one each time, as the
wrappers do. An attempt fails with a class of error, before or after its request
was executed; `exact-retry.ts` repeats the call if both call and class allow it,
with the same input, up to `MaxAttempts`. A host is the program the documents
ask for: it admits, marks liable, works and settles once; after an admission that it
heard nothing of, or a crash, it looks the operation up and resumes the lease only
if that is active and pending. Hosts learn only from answers (`Learned`).

**`McpFlowContract`** is what the wrappers need of a flow store: a token stands for
one flow until it expires, and is worth one claim. **`McpFlowStores`** puts the
four stores (`McpFlowStore`, `RedisFlowStore`, `FirestoreFlowStore`,
`CloudflareFlowStore`) behind it, one per behaviour, with the tokens that were
handed out as a history variable; the refinement mapping is the identity on it.
A claim is counted when it takes effect, whether or not its answer arrives. A
Firestore transaction may commit up to `MaxLatency` after the time it compares
deadlines with; the safety margin is assumed to cover that, and the flow to be
stored may have expired by then, which the margin has to exclude. The alarm of a
Durable Object may or may not be set.

**`McpFlowStore`** and **`McpToolCalls`** are the wrappers over a flow store and a
usage store. Each `await` of the wrapper is a step: the call sits at `pc` until
the answer is used. The usage store is reduced to one reservation per operation
with an expiry, as its clients see it; a request succeeds, is refused, or fails, and
one that failed has taken effect, never does, or does so at any later time (`late`),
as after a timeout of the client. The heartbeat is a second thread of the same call with
a timer, a request under way and a `stopped` flag. Both stores keep the time
left to a deadline rather than the deadline, which keeps the state space finite
without a bound on the clock.

## What the runs check

| Run | Instance | What it shows |
| --- | --- | --- |
| `memory_store` | three operations and three budget keys, of which two each fit in what is retained, scalar and vector charges, growth onto keys that had no counter, three cursors between the operations, two limits quoted by turns (so limits are lowered and raised between calls), clock stepped both ways, safe integers so small that deadlines overflow | `UsageConserved`, `RecoveryGateSound`, `ReconciliationAgreesWithRecovery`, `NoOversubscription`, `RetentionBounded`, `GrowthReplayIsCurrent`, `ReservationNeverShrinks`, `LiableNeverRefunded`, `SettlementFinal`, and that the store implements `UsageLedger` |
| `memory_recovery_loop` | three operations, the loop with an observer that does not call the store, clock and safe integers up to 3 so that tombstone deadlines overflow | it refines `MemoryUsageStore` (`RecoveryIsIndivisible`) |
| `memory_recovery_observer` | the loop with an observer that may call `stats()` once | `ObserverOutsideEnforcement` fails: finding 1 |
| `lease_growth` | two lease objects of either mode, two calls, two increments, admissions that leave room for one increment or none, callers that await each growth | `StoreAheadByUnresolvedOnly`, `ExactRetryResolves`, `PinnedUntilResolved` |
| `lease_overlap` | two growth calls of one lease at a time, an admission that leaves no room | `PinnedUntilResolved` fails: finding 2 |
| `lease_stale` | a lease kept past the expiry of its reservation | `SettledByOwnLease` fails: finding 3 |
| `redis_store` | two operations, two budgets, a cleanup batch of one, a server clock stepped both ways | `IndexesAgree`, `VerdictsStand`, `BacklogReclaimed`, and that the scripts implement `UsageLedger` |
| `firestore_store` | two operations on different budgets, two hosts with clocks one apart, one cleanup in progress, clocks up to 3 | `UsageConserved`, `NoEarlyRecovery`, and that the transactions implement `UsageLedger` |
| `cloudflare_store` | any database of versions 0 to 4 with any forms of tables and indexes, a stop after any statement and eviction at any time; two operations, two budgets, a scalar and a vector charge, a cleanup batch of one, pruning of any rows, clock and safe integers up to 4 | `ChangesWhole`, `TablesAgree`, `ReplayProtected`, and that the calls implement `UsageLedger` |
| `cloudflare_client` | one host and its operation, another operation whose admissions clean up, two attempts a call, one request that nobody awaits, one crash, pruning, scalar growth, renewals for either of two lifetimes, clock and safe integers up to 2 | `AcknowledgedStands`, `ExecutedOnce`, `AnswersUsable`, `CallsReturn` |
| `flow_stores` | two flow ids and two bindings over each of the four flow stores, lifetimes of two and three, a retention of three, a latency and margin of one | that each store implements `McpFlowContract`; `FlowsForgotten` |
| `mcp_tool_calls` | two concurrent calls of one operation, two flow ids, a foreign binding, up to two suspensions, heartbeats, crashes, one late renewal at a time | `HandlerNeverFree`, `OneReentryPerToken`, `OneHandlerPerOperation`, `SuspendedLeaseLasts`, `LiableSettles` |

The type invariant of each module that has state is checked with the rest, on its
own or as the first conjunct of an invariant (`IndexesAgree`, `TablesAgree`,
`StoreAheadByUnresolvedOnly`, `AnswersUsable`). Deadlock is checked everywhere.

*Bounds, and why they are enough.* Interference between reservations is pairwise:
a call changes one operation and recovers others, and a budget's counter is a
sum. Two operations and two budgets give every such pair, with one budget shared
and one not; a second budget with zero units is what a vector dimension at zero
needs. Clocks need an instant before, at and after a deadline and a tombstone
beyond it, which lifetimes of one or two on a clock of 0..2 give; stepping back
makes the bound harmless, because executions do not end at it. Cursors need one
for admission, one for growth and one for a later growth or admission. The
cleanup batch must be smaller than what can expire at once. In `McpToolCalls` a
heartbeat can only keep a lease alive if it lasts two ticks, and the suspended
lease must be longer than the renewed one, or the order of the two renewals
could not be observed; two rounds let a token follow a token, and one late renewal is
enough to overtake any later request. That late admissions, liability calls and
settlements do no harm either is left to the proofs, where `LateKinds` is arbitrary.
The calls of the run are those of `protectMultiRoundTool` (`MultiRound`): one of
`protectTool` does nothing that such a call without suspension does not; the proofs
cover both. The bounds are
constants of the modules (`MaxClock`, `MaxCursor`, `MaxDepth`, `MaxSerial`,
`MaxAwaited`, `MaxLate`, `LateKinds`), named where they are declared; `MaxSafeInteger` is the code's
own limit, made small where overflow is of interest.

In `firestore_store` the two charges are on different budgets, so that an
admission that takes over an expired document leaves a budget of the old lease;
a clock of 0..3 holds a lease, its grace, and a host one ahead.

In `cloudflare_store` two leases or two tombstones can be due at once, one more than a batch holds,
and the last ticks of the clock are so near the largest safe integer that calls
which would need a later deadline throw and are rolled back.

`cloudflare_client` has one host because hosts have an operation each, and what one
does to another's operation is cleanup, which the other operation's admissions do at
any time. Two attempts give a first one that is abandoned and a second that is
answered while the first is still under way; one stray request is enough for a late
execution before or after the operation was expired, settled, forgotten or admitted
anew, and one crash for a lookup at any of these times.

*Symmetry* is used in the runs over `MemoryUsageStore` and in `cloudflare_store`
(operations), in `firestore_store` (operations and hosts) and in the runs over leases (calls and
objects), none of which checks liveness.

*Fairness.* `RedisUsageStore` assumes that admissions keep coming (weak fairness of
`Admission`) and nothing else: `docs/redis.md` makes no stronger promise than that
later admissions run the cleanup. `McpToolCalls` assumes that an event loop goes
on, that store requests end (those of a heartbeat once `stop()` waits for the last), that the application's handler ends, that time
passes, and that some client uses the store after a lease expired; nobody is
assumed to call, resume, or crash, and a request that failed at its caller need
not arrive. `McpFlowStores` assumes that time passes, that
Firestore's TTL policy deletes what is due and that an alarm that was set goes
off, which the platforms promise. `RemoteCloudflareUsageStore` assumes only the
client's own timers: an attempt that is not answered is aborted by its timeout, and the
delay before the next attempt ends. `LiableSettles` would be false without the
assumption on handlers: a handler that hangs is kept alive by its heartbeat for
as long as its process lives, which the code intends.

## Findings

1. *An observer that calls the store corrupts its accounting.* `recoverExpired`
   calls the observer between releasing a reservation and deleting its entry. If
   the observer calls any public method the loop starts over on the same entry
   and releases it again, and `Math.max(0, ...)` hides that only for the last
   reservation on the budget. `docs/observability.md:5` puts observability outside
   the enforcement transaction.
2. *Overlapping growth calls unpin a lease.* `UsageLease.grow` clears
   `unresolvedGrowth` whichever call returns. After a retry has resolved an
   increment and a second increment is under way, the late answer of the first
   call removes the second's pin.
3. *A stale lease settles somebody else's reservation.* The reservation id is the
   operation key, so a lease that outlives its pending reservation names
   whatever was admitted under that key later.

The same identity of reservation and operation key shows in `McpToolCalls`: when a
pending lease expires while `markLiable` is under way, a second call of the same
operation is admitted, both calls mark the one reservation liable and both enter
their handlers. The documents promise rejection of *active* duplicates only, so
this is listed as a hazard and not as a finding, and `OneHandlerPerOperation` and
`SuspendedLeaseLasts` except operations that were overtaken in this way (the
history variable `overtaken`). No property claims exclusion for those.

A lease that was renewed for a suspension can still lose time: a heartbeat renewal
that timed out at the client lets `heartbeat.stop()` return, and if it is executed
after the suspension's own renewal it sets the shorter expiry. Liability is not
affected; a resumption after the shortened expiry fails closed. The sources promise
nothing else of a request that timed out, so this is a hazard too, and
`SuspendedLeaseLasts` excepts such operations by the history variable `shortened`:
it says that no renewal that is *waited for* does this. In `RemoteCloudflareUsageStore`
the same late renewal shows in `Covers`: an open lease ends before the host was told
by no more than its lifetimes differ.

## What is proved

Each theorem holds for every value of the constants that satisfies the named
assumption of its module. "Step" theorems are action properties.

| Module | Theorems | What they say |
| --- | --- | --- |
| `MemoryUsageStore_proofs` | `Typed`, `Conserved`, `Covered` | `TypeOK`; `UsageConserved`; the clamp in `releaseAcrossBudgets` never absorbs an error |
| | `NotOversubscribed`, `RetentionIsBounded` | no budget passes the largest limit quoted; no more operations or keys than the caps |
| | `GateSound` | the cached deadline that lets a call skip recovery is never late |
| | `GrowthReplay`, `NeverShrinks` | an exact retry of growth is answered with the present state; only growth that consumes the cursor changes a running lease |
| | `SettlementsFinal`, `LiableKept` | no step changes a settled operation under its tombstone, or releases liable work |
| | `ReconciliationAgrees` | read-only reconciliation reports what recovery will do |
| | `StoreImplementsLedger` | the store implements `UsageLedger` |
| | `LoopIsIndivisible` | the recovery loop, with an observer that does not call the store, implements `MemoryUsageStore` |
| `UsageLease_proofs` | `ClientInvariant`, `StoreAheadByOne`, `RetryResolves`, `Pinned` | store, lease, request and reply agree up to one increment; the three properties of growth, among them that only the store's own answer to an attempt unpins it |
| `RedisUsageStore_proofs` | `IndexesAlwaysAgree`, `CountersStayExact` | records, claims and both indexes agree; each counter is exact |
| | `VerdictsAlwaysStand`, `ScriptsImplementLedger` | a verdict of reconciliation changes only as it may; the scripts implement `UsageLedger` |
| `FirestoreUsageStore_proofs` | `FirestoreConserved`, `FirestoreTyped`, `FirestoreNoEarlyRecovery`, `TransactionsImplementLedger` | budgets are exact; no lease is given up before its deadline has passed on every host; the transactions implement `UsageLedger` |
| `CloudflareUsageStore_proofs` | `TablesAlwaysAgree`, `RowsStayExact` | the four tables agree and each row is exact, also after a database of an older version was adopted |
| | `ReplaysProtected`, `CallsImplementLedger` | a settlement on record stands; the calls implement `UsageLedger` |
| | `SchemaChangesWhole` | wherever a construction stops, the database is as it was found or, if the runtime recognizes it, has the whole current schema; calls are taken on nothing else |
| | `ClientsInvariant`, `WorkDoneOnce`, `AcknowledgementsStand`, `AnswersAreUsable` | store, hosts, answers and late requests agree; the three safety properties of the client |
| `McpFlowStores_proofs` | `FlowStoresTyped`, `FlowStoresKeepContract` | each of the four flow stores implements `McpFlowContract` |
| `McpToolCalls_proofs` | `CallsInvariant`, `CallsAreTyped`, `HandlersArePaid`, `TokensReenterOnce`, `OperationsHaveOneHandler`, `SuspendedLeasesLast` | the safety invariants of the wrappers, from one inductive invariant |

*Assumptions.* `ConstantsAssumption` says that operations and budgets are finite sets,
that charges, limits and actual units are functions into the naturals, that a charge
puts nothing on a key it does not name (`canonicalizeBudgets`), and that lifetimes
and caps are positive (`assertPositiveInteger`). The Redis, Cloudflare and Firestore
modules say the same of their constants. `FirestoreConstants` adds that the skew is
at most the grace, which the deployment must ensure, and that no client reports the
outcome that recovery records. `FlowConstants` says that lifetimes are positive and
that a Firestore transaction takes no longer than the safety margin.
`RemoteConstants` says that hosts have operations of their own, that zero is among the
units a host may report (a lease given up before its work is settled at nothing), and
that at least one cursor can be issued. TLC evaluates all of them in
the runs of their modules.

Some theorems have hypotheses of their own:

- `ReconciliationAgrees` and `VerdictsAlwaysStand` take that `LeaseExpired` is not among
  the outcomes that callers settle with. The outcome is a caller's string, and one
  who settles with the label of the store is reported as `expired_liable` although
  nothing expired.
- The theorems of `UsageLease_proofs` take that a lease awaits one growth at a time
  (`MaxAwaited = 1`; with two, finding 2 is a counterexample), that there are
  finitely many growth calls, and that every budget key fits in
  `maxRetainedBudgetKeys`. Without that room TLC finds `StoreAheadByUnresolvedOnly`
  violated in an instance of two keys of which one fits: the first request of a
  growth is still under way when its retry is refused for lack of room, the refusal
  unpins it, and a later retirement lets the first request take effect. The
  refusal is authoritative for the attempt and not for the request.
- `LoopIsIndivisible` takes `MaxDepth = 0`: the observer does not call the store. With
  one nested call finding 1 is a counterexample.

*The arguments.* `UsageConserved` alone is not inductive: retiring a budget key
resets its counter when nothing active *names* the key, which preserves the sum
only if what does not name a key holds nothing on it. So the invariant is
`Conservation == TypeOK /\ HoldsWhatItNames /\ UsageConserved`. Every action is
recovery followed by the replacement of at most one reservation. The proof
follows that shape: `HeldSplitsAtRecovery` splits what is held into what expires
and what stays, and `RecoveredConserved` is the sum after recovery; `ReplaceConserved` reduces an action to what its
replacement adds to the holding of one operation and to `spent`; and the lemma
`TotalChange` of `UsageUnits_proofs` says that changing one account changes a
total by the difference. The rest is one lemma per action. `Covered`
follows from conservation. `NotOversubscribed` is inductive next to `TypeOK`: a
step raises a counter only after the admission test. `GateSound` is independent
of the sums and rests on the least element of a set of deadlines.

The other theorems on the in-process store use one lemma, `StepShape`: a step
recovers and then replaces at most one reservation in one of the ways its operations
allow. `SettlementsFinal`, `LiableKept` and `NeverShrinks` are then read off each way.
`GrowthReplay` and `NeverShrinks` need `CursorIssued`: no record carries a cursor that
was not issued yet, so that the next one to be issued differs from them all. `StoreImplementsLedger` maps each way to the ledger's step, with
conservation before and after the step giving the ledger's counters.

`LoopIsIndivisible` justifies the one step that all of this takes recovery for. A
call of `stats` is mapped to the indivisible recovery when it *begins*: the abstract
reservations and counters are what the loop will leave (`Finished`, `FinishedUsed`,
`FinishedSpent`), and visiting an entry, observing and returning are stutters. Its
invariant `LoopInv` has conservation for what `Remaining` holds once the entry that
is being released is taken away, `Queued` (entries sit at different positions of the
map), and `Looped`: what the loop has passed and kept is not overdue, and the
deadline it carries is the least of them, so that what it stores when it returns
is `EarliestDeadline`, and `Preflighted`: while the loop runs, no tombstone deadline that
it may compute overflows, so `Throws` is never taken. A visit moves one term from what is still to expire to what has
been released or charged, by `TotalChange`; no induction over the loop is needed.

In `UsageLease_proofs` the invariant is `ClientInv`. Per operation (`Books`) the store's record of its last growth is the step
from the previous capacity to the present one. Per lease (`LeaseFaithful`) the copy
is the reservation, or what the reservation was before the one unresolved growth. Per request under way (`RequestHarmless`)
the request is the pinned one or carries a cursor that has been used up. Per reply
(`ReplyTruthful`) what is on its way back is what the lease will make of it. A step of the
store keeps all four for leases that have sent nothing new (`QuietCoherent`,
`AdmissionCoherent`, `DecisionCoherent`); a step of a client changes one lease or one
call (`DropKeeps`, `SwapKeeps`, `PutKeeps`).

For Redis and Cloudflare the structural invariant comes first (`IndexesAgree`,
`TablesAgree`): the lemma `StepShape` of each module says what a step may do to the
records of one operation and to those that its cleanup takes, whatever the batch.
Counters are then exact by an invariant of two parts: `Balanced`, the sum, and
`Names`, that what does not name a budget holds nothing of it. Both are about the
records *before* a step, and the ledger's step is computed from them. For Cloudflare
it is also shown that a row which an open reservation names exists, since an `UPDATE` of a
missing row would lose units silently, and that every database that construction
adopts satisfies the invariant (`AdoptedShape`, `AdoptedAgrees`, `AdoptedExact`).
`VerdictsAlwaysStand` follows from the shape: a step moves an operation along
`Following`. For the schema, `SchemaInv` relates the statement that comes next
to what the transaction sees: each statement that was executed has left its table or
index as expected, the rest is as it was committed, and the committed database is one
that the runtime recognizes once its version was read. `ValidV3` before the commit
makes the whole of it (`CommitsWhole`), and a whole database is left alone by every
statement of the older constructor (`WholeStays`).

The client's invariant `RemoteInv` puts `TablesAgree` beside five facts about each
host, over its own program counter, the call it awaits, the requests that nobody
awaits any more, and the rows of its operation. `Linked`: requests under way are of
the host, they carry one settlement between them, and one admission at most.
`Clean`: while the admission has yet to be sent or executed there is no row and no
work, so a late admission cannot revive an operation that the host has finished with.
`RowTrue`: what the rows say of the work, above all that a lease whose host worked is
no longer pending. `HostTrue` and `AnswerTrue`: what the host believes, and what the
answer that it has yet to read will tell it, hold of the rows *now*. They cannot say
that the rows are as the answer describes them, because cleanup, retries and late
requests move on; they say what no move undoes. `Kept`, for an operation that was
told to be liable until some instant, is that it is liable until then, or charged and
on record for `IdempotencyTtl` after it, or that this time has passed. A step of the object moves the rows of an
operation in one of a few ways (`Drifts`, by cleanup; `Marks`, `Prolongs`, `Closes`,
`Enlarges`, by a request), each of which is shown to be `Steady`: it keeps `Kept`,
the deadline a host relies on, and a settlement. A step of the client changes one
host and leaves the rows alone. `ExecutedOnce`, `AcknowledgedStands` and
`AnswersUsable` are read off the invariant.

For Firestore the invariant `Accounted` adds to the types and the sum that a
document puts units only on the budgets it names: a transaction writes back
named budgets only, so anything else would be lost. Each transaction is one
`Write`, and `WriteKeeps` proves once that a write is harmless if what its document
held and holds accounts for the change of every budget; then each operation is
shown to be balanced, with `ShareIsUsed` to see that the clamped subtraction is
exact. `NoEarlyRecovery` follows from `Synchronized`: clocks are within the skew of
each other and a cleanup's instant was shown by some clock. An expired document's
deadline is at least the grace behind an instant, hence behind every clock
(`ExpiredEverywhere`); what has to be shown of each action is that it ends only
documents that are expired at its instant, which for recovery rests on the second
look inside its transaction (`RequestEndsExpired`, `CleanupEndsExpired`).

For the flow stores the invariant `FlowInv` says of each store that whatever it
still holds of an id agrees with what was handed out (deadline and binding, and
"active" only if nobody has claimed), and that it has forgotten the id only if the
deadline has passed. The contract's guards follow from it (`SuspendGuard`,
`ConsumeGuard`); for Firestore, where the store looks at an older time than the
contract does, they follow because the margin covers the lag. Each action is shown
to preserve the part of the store that takes it (`RedisSuspendKeeps`,
`FirestoreDeleteKeeps`, ...), and `StoreStep` adds that the others stand still.

For the wrappers `CallInv` has a part for each property, since none is inductive alone.
`AllPaid` follows a lease through markLiable, the handler, the renewal and the flow
store; `Unentered` says that no handler was entered for a flow that is stored or in the
hands of a call that may yet enter one, `Exclusive` that no other such call has that
flow, `OneHolder` that an operation which was not overtaken is held by one call or one
stored flow; `LeaseLasts` compares the lease with the flow that is suspended or
about to be, unless a late renewal has shortened it. `Typed` adds that a heartbeat runs beside the handler only. `StepKind`
sorts the steps of a call by what they do to its lease, and each part is shown to
survive each kind.

*Only model-checked*: liveness (`BacklogReclaimed`, `LiableSettles`, `FlowsForgotten`,
`CallsReturn`), which is out of the prover's reach together with `ENABLED`. Every other
property that a passing run checks is a theorem.
`SettledByOwnLease`, `ObserverOutsideEnforcement` and the overlapping case of
`PinnedUntilResolved` are violated, as the findings say.
No module declares a recursive operator, and sums are cardinalities, because
neither recursive operators nor induction over data can be used in the proofs.

## What is left out

Validation and canonicalisation of inputs (the models start from valid charges),
hashing of keys and arguments, event contents, error texts, JSON and RESP
encoding, the columns of a table, policy quotes. Unequal spellings of one budget key
(`canonicalizeBudgets`) are abstract names in the models and listed as a hazard.
A Firestore document of another schema version and the bound on document size are
not modelled; nor are clocks of Firestore hosts that step back, which its
deployment profile excludes. The read-only reconciliation of Firestore
changes no state and has no model; those of the in-process, Redis and Cloudflare
stores do. Of the Cloudflare client, endpoints, headers, authentication, the shape of
envelopes and the events it emits have no model, and `timeout` stands for any error
after which nothing is known. Redis and Firestore are
assumed to keep what they acknowledged: the flow contract is not claimed for a
server that evicts keys or fails over to a replica that lags.

## Plan

1. Firestore reconciliation, whose verdict depends on the asking host's clock.
2. A run for unequal spellings of one budget key.
3. The theorems of `UsageLease_proofs` where not every budget key fits in
   `maxRetainedBudgetKeys`, for leases whose budget keys are not retired.

## Running it

    tlc -config MCMemoryUsageStore.cfg MCMemoryUsageStore
    tlapm MemoryUsageStore_proofs.tla

`PROJECT.json` names the module and configuration of every run.
