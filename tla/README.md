# A TLA+ model of the Sentinel Custody Engine

Sentinel is a FastAPI service over PostgreSQL. It takes withdrawal requests,
decides on them with a whitelist and a daily limit, signs and broadcasts allowed
ones with one Ethereum account, lets an operator review challenged ones, and
reconciles broadcast ones with their receipts. This directory holds TLA+ models
of it, the TLC configurations that check them, and TLAPS proofs about them.
Paths below are relative to the repository.

## Inventory

| Part | Code | State | Operations | Model |
|---|---|---|---|---|
| Ledger tables, audit trail | `src/models`, `alembic`, `src/auditor/audit_log.py` | rows of `transactions`, `transaction_audit_logs` | INSERT, three kinds of UPDATE with their audit row | `Ledger` |
| Ethereum lifecycle, worker | `src/orchestrator/lifecycle.py`, `worker.py` | the coroutine's row, payload and hash | process, process-next | `Custody`, abstractly `Withdrawal` |
| Nonce lock | `src/orchestrator/nonce.py` | an `asyncio.Lock` per process | acquire, release | `NonceLock` |
| Builder, signer, gateway | `transaction_builder.py`, `ethereum_signing.py`, `broadcast.py` | none | nonce and fee, signature, send | `Chain`, `Custody`, `Amounts` (partly) |
| Manual review | `src/gatekeeper/router.py` | none | approve, reject | `Custody` |
| Reconciler, indexer | `src/auditor` | none | sync, get_receipt | `Custody`, `Chain` |
| Gatekeeper | `src/gatekeeper/router.py`, `policy.py`, `schemas.py` | none | request_withdrawal, evaluate | `Gatekeeper`, `Amounts` |
| Whitelist | `src/gatekeeper/admin_router.py` | rows of `whitelist` | add, delete | `Gatekeeper` |
| Engine, sessions | `src/database.py` | the connection pool | check a connection out and in | `Custody` (partly) |
| Demo recorder | `src/orchestrator/record_demo.py` | one session and its copy of the row | insert, process, wait, reconcile | `Recorder` |
| Simulation lifecycle | `lifecycle.py:24-80` | one session of each caller | sign_pending, broadcast_signed, process_pending, beside approve and reject | `SimLifecycle` |
| Key sharding, MPC signer, break-glass | `key_sharding.py`, `signing.py`, `break_glass.py` | none | split, reconstruct, sign, recover | `KeySharding`, `SimLifecycle` |
| Reports | `router.py:106-144`, `admin_router.py:138-161`, `multidb_router.py` | none | audit-all, stats, multi-db: several reads each | `Reports`, `DemoReset` (partly) |
| Demo reset | `scripts/reset_demo.py` | one transaction | delete and seed in one commit | `DemoReset` |
| Application, settings, pages, read-only lists | `src/main.py`, `src/config.py`, `*.html` | none | routing, an API key, presentation | left out: no state |

The parts interact through the database and the node. Handlers share no objects
but the engine's pool and the nonce locks. A handler reads a row, decides in
Python, and writes it back by primary key: SQLAlchemy's UPDATE does not test the
status again, and the isolation is PostgreSQL's READ COMMITTED. The
awaits between the reads and the commits are therefore where everything can go
wrong:

- two requests on one withdrawal, in one server or in two (approve and reject,
  approve and process, process and process-next, two reconciliations);
- a server that dies, or a database or node call that raises, between the commit
  of SIGNED, the broadcast and the commit of its outcome;
- `send_raw_transaction` raising after the node took the payload;
- the nonce lock, which must serialise the payments of a process, must be passed
  on after every exit, and means nothing to another process;
- the connection pool: a request keeps a connection while it waits for the lock;
- concurrent withdrawal requests deciding on the same sum of the day;
- reports that read several SELECTs, and a reset that deletes in two statements
  what handlers commit in one;
- amounts that are rounded three times: by the policy's sum, by the column and by
  `eth_to_wei`.

What makes each part correct: the ledger never says a payment settled that was not
made, nor pays what the policy did not clear; a withdrawal goes through its stages
once and in order; the audit trail agrees with the status; nonces leave no gap;
every request ends; the daily limit bounds what is paid without review.

`PROJECT.json` lists the hazards at their lines, with the properties that cover
each or the reason why none does yet.

## The modules

**`Ledger`** is the database at the granularity of committed transactions. Every
handler flushes and commits its UPDATE with its audit row, so an action is a
commit: `Insert`, `UpdateStatus`, `UpdateBroadcast`, `UpdateSettled`. None has the
row's present status in its guard, because the SQL has none. Withdrawals are
named, and audit rows listed, in the order of their commits. `created_at` is taken
before, at the flush: for two commits that overlap its order may be the other one.
Columns no handler decides on (message, label, timestamps other than
"settled_at is set") are left out.

**`Chain`** is the Ethereum node seen through the four RPC calls the code makes,
for the one account that signs. A payload is the nonce, the transfer and the fee:
what determines the signed bytes and so the hash, and a payload stands for its
hash. The node accepts a payload whose nonce is neither used nor occupied; it
mines payloads in the order of their nonces, successfully or not, and may
forget one. Receipts are final.

**`NonceLock`** is the FIFO queue of one `asyncio.Lock` for each process.

**`Custody`** composes the three. `req[r]` is the coroutine that serves request
`r`: where it is suspended (`pc`), its operation, its withdrawal, its server, and
the payload or hash it holds. The correspondence:

| Code | Action |
|---|---|
| `request_withdrawal` (`router.py:51`) | `RequestWithdrawal` (any decision; the decision is `Gatekeeper`'s subject) |
| the SELECT and the test of the status in each handler | `ProcessWithdrawal`, `ProcessNext`, `ReviewWithdrawal`, `Reconcile`, all through `Load` |
| `async with nonce_lock` | `AwaitLock`, then `Holds` in the guards of `Sign` and `BuildFails` |
| `build`, `sign_transaction` | `Sign`, or `BuildFails` when a call raises or the amount is dust |
| commit of SIGNED (`lifecycle.py:104-112`) | `CommitSigned` |
| `broadcast` (`:115`) | `Accept` (with or without the answer), `Refuse` |
| commit of FAILED (`:116-126`), of BROADCAST (`:128-139`) | `CommitFailed`, `CommitBroadcast` |
| `approve_withdrawal`, `reject_withdrawal` | `CommitApprove`, `CommitReject` |
| `Reconciler.sync` | `NoReceipt`, `Settle` |
| an exception that leaves the handler | `Abort`, and `PoolTimeout` for the pool's 30 seconds |
| the process dies | `Crash` |

Between two actions of a coroutine there is an await, so other coroutines of its
server may run; what happens between two awaits, node calls included since Web3's
are synchronous, is one action. A handler that finds no row, or one in another
status, answers 404 or 409 and changes nothing; it is no step. `submitted` is a
history variable: which payloads the node accepted for which withdrawal.

**`Gatekeeper`** opens `request_withdrawal` up: the read of the whitelist, the
computation of `today_start` with the read of the day's sum and
`PolicyEngine.evaluate`, the flush, which takes `created_at`, and the commit are four
steps of a slot, a request in service. Administrators change the whitelist,
withdrawals are approved or fail, and midnight comes in between. SIGNED, BROADCAST
and SETTLED are not told apart from PENDING here, since `fetch_daily_spent` does not.
`Advance` is all that handlers do to a row as far as the sum can tell: an
approval, a failure, and the return of a FAILED withdrawal by a handler whose
read is older than the failure, which `Custody` has in detail. The fields `seen` and
`lapsed` are histories: what the whitelist said of the address while the request was
served, and whether the withdrawal has ever failed.

**`Recorder`** adds `run_record_demo`, a process of its own, to `Custody`'s servers.
It keeps one session with `expire_on_commit=False` from its INSERT to its last
line, so `session.get` answers from the session's identity map: unlike a server's
handlers it never sees that its row was changed, and its steps have no test of
the row's status. Its steps are those of `Custody` without lock and pool,
which nobody else in its process contends for.

**`Withdrawal`** is the abstract specification: a stage that moves forward and at most
one payment, without requests, servers, locks, nonces or audit rows. Its two gaps are
the code's: `GiveUp`, a broadcast that raised, whose payment may be on its way all
the same, and `Resolve`, by which one payment concludes several withdrawals: two that
ask for the same transfer can end up with the very same payload, if the network
forgot the first. **`CustodyRefinement`** maps `Custody` to it: the stage is the status
column, and the payment of a withdrawal is the fate of the payload submitted for it.

**`Progress`** adds to `Custody` the history `faulted`, which turns true with any step
of a server that is not one of `FaultFreeNext`, and with a timeout of the pool.

**`SimLifecycle`** is `TransactionLifecycleProcessor`, which the tests use in place of
the Ethereum one: callers with sessions of their own run `sign_pending` and
`broadcast_signed`, one after the other (`process_pending`) or apart, with no lock
and nothing that catches an exception. The API's approve and reject are calls
beside them, a read and a commit each: what they make PENDING is signed too. What is signed holds `str(amount)`, which
differs between the session that inserted the row and one that loaded it; hence
`text`. The signer gets any shares that can be presented, and the break-glass
recovery is the other user of the shares.

**`KeySharding`** holds the data of that: Shamir's splitting and Lagrange's
interpolation over the integers modulo a small prime in the place of GF(2^128), and
the padding and length prefix of `split_secret`. PyCryptodome's part is external.

**`Reports`** has one action for each SELECT of `/audit-all`, of one database's part of
`/multi-db` and of `/stats`, with what an answer shows of the ledger.
**`DemoReset`** runs one reader of them beside `scripts/reset_demo.py` and the commits
of handlers, which may come in any order as they may in `Custody`'s races. Each
DELETE of the script sees what was committed until then; its INSERTs become visible
with its commit; a handler's UPDATE of a deleted row waits for the script, then finds
nothing and raises. The fixed ids of the ten seeds are the withdrawals 1 to 10, which
an earlier reset has seeded. A later request gets a new number, whatever the reset
deleted before it.

**`Amounts`** follows an amount through the code's arithmetic: `PolicyEngine.evaluate`
adds it, unrounded, to the day's sum in Python's decimal context of 28 significant
digits (half to even), the column `Numeric(36, 18)` keeps whole wei (half up), and
`eth_to_wei` multiplies the stored value in the context again. It also has
`process-next`'s queue, which a stored zero, whose build always raises, blocks.

`MCCustody`, `MCGatekeeper`, `MCRecorder` and `MCSimLifecycle` give the constants their
values where a cfg cannot. Operators named
`X_Y` whose comment begins with "Mutant" are plausible bugs of `X`; replacing `X`
by one must break the property it is listed with in `PROJECT.json`, which is how
we know that the property has teeth.

## Runs

| Run | Specification | What it shows |
|---|---|---|
| `custody_races` | `Spec` | What survives every interleaving and every fault: payments are cleared, settlements are paid, the trail mirrors the status, BROADCAST carries its hash, the nonce section is exclusive in a server, one payload is outstanding at a time, and every payload is preceded by a SIGNED row |
| `custody_serial` | `SerialSpec` | If requests on one withdrawal do not overlap (those on others do), it is paid at most once, moves along the documented edges (or to FAILED after a signature or a broadcast, which they leave out), has a legal trail, its outcome is that of the chain, and every step is a step of `Withdrawal` or none |
| `custody_liveness` | `ProgressSpec` | Every request that read its row ends: the lock is passed on, also after `build` raised for a dust amount, and a full pool is ended by its timeout. A withdrawal that stays SIGNED is the trace of a fault, never of an unlucky order |
| `recorder` | `RecorderSpec` | With servers processing, reviewing and reconciling the recorder's row: settlements are paid, one payload is outstanding, payloads are audited, the recorder's own outcome stays in the trail and is that of its payload, and a trail of three rows under its result is the whole story |
| `gatekeeper_races` | `Spec` | Requests served n at a time allow at most n times the limit in a day, across midnight, and a limit more for each withdrawal that a stale handler brought back from FAILED; a decision rests on the whitelist as it was during the request |
| `amounts` | `Spec` | The roundings cannot exceed the daily limit between them; whatever the limit allows is paid to the wei, and a longer amount to half a unit of the last of its digits the context keeps; only an amount stored as 0 holds up the queue |
| `sim_lifecycle` | `Spec` | A threshold of distinct shares gives back the key and anything else raises; calls that race, retry or resume emit one payload (for each spelling of the amount) and never lose its hash; what was emitted had been committed as SIGNED, and allowed or approved before that, with reviews that race the rest |
| `demo_reset` | `Spec` | A report shows no status that its trail does not explain, and no count of `/stats` misses what an earlier one counted, unless the reset's commit fell into it; trails and rows agree unless a handler committed between the two DELETEs |
| `custody_pool` | `FaultFreeSpec` | With fewer connections than waiting requests a withdrawal stays SIGNED for ever, without a fault, though its payment was sent |
| `custody_twice` | `FaultFreeSpec` | `process_pending` signs a withdrawal that is no longer pending |
| `custody_failed` | `SerialSpec` | A withdrawal is FAILED and sent |
| `gatekeeper_limit` | `Spec` | Two requests of the whole limit at a time are both allowed |

The four runs that end in a violation are findings about the code, each against a
line of the documentation or the tests that `PROJECT.json` quotes. Two clicks on a
button, a lost answer or fifteen waiting requests suffice. We read the first three
as defects. Re-reading the row after the lock is acquired, with
`SELECT ... FOR UPDATE` or `UPDATE ... WHERE status = ...`, would remove
`custody_twice` and would make `SerialSpec`'s assumption true. For the same reason
an approval and a rejection of one withdrawal can both be committed: the guard of
`ReviewWithdrawal` is of no use at `CommitApprove` and `CommitReject`.

**Bounds.** Two servers are enough for two locks that do not exclude each other,
and any violation between servers involves two coroutines. Two withdrawals let
payloads compete for a nonce, in `custody_races` and `custody_serial` with the same
transfer, so that they can be the very same payload: in `custody_serial` one payment
then concludes both. Three requests on one withdrawal are process,
process again and reconcile; the five of `custody_serial` take one withdrawal
from review to settlement (approve, process, reconcile) and another beside it.
One fee and two values of transfer suffice: equality is all that is ever tested.
A pool of two (the code's default is 5 + 10) with three requests fills up. In
`gatekeeper_races` an amount reaches the limit, and three withdrawals exceed what two
requests at a time may allow, so that the third has to come from a return;
in `gatekeeper_limit` each amount is the limit. One server is enough beside the
recorder, which is itself a second process; two requests can both reach its row.

In `demo_reset` all ten seeds are there, with two withdrawals more, one of which may come
after the reset deleted the other; handlers and new requests commit three times,
to a challenged and a broadcast seed (4 and 7) and to a new withdrawal (11): an INSERT,
and two commits that lie on the two sides of a DELETE. Readers do not affect each
other, so one is enough, and one reset has every statement a handler can come between. In
`sim_lifecycle` the calls of one withdrawal are the ones that can meet; four of them are
two reviews, or a review and three that sign and broadcast, together or apart. A
field of five has room for three shares. The key has one block at most, empty or padded
included; keys of more blocks, which are split and combined block by block, are left to
the theorem. 2-of-3 is how every test of the repository splits. `amounts` scales 28 digits down to
two, 36 to four and the limit to 8 wei, one digit less than the context as 10 000 ETH
are (23 digits). Its amounts are the two sides of every edge: a half of a wei, the limit
and a half of a wei above it, the first amount the context rounds, the largest one
the column takes. Three rows let a blocked one have an older and a younger neighbour.
`MaxTx`, `Request`, `MaxRows`, `MaxEvents`, `MaxCommits`, `Caller` and `MaxDay`
bound the runs only; the theorems hold for all their values where they occur.
Symmetry is used on requests, servers and slots in runs without liveness; no
property or action tells them apart.

**Fairness.** `ProgressSpec` has weak fairness on the steps of each request that read
its row: the event loop runs ready coroutines, Web3's provider has a timeout of 15
seconds (`worker.py:28`), the pool one of 30, and `asyncio.Lock` is FIFO, so a
request that can go on does. Nothing obliges clients, the network or a crash to
act. `FaultFreeSpec` removes `Abort`, `Crash` and the spurious `Refuse`,
`BuildFails` and `PoolTimeout`, but keeps lost answers, and lets the pool time out
only if all its connections belong to waiters for the lock, which is when the
waiting cannot end otherwise. `Amounts` has weak fairness on `ProcessNext`: somebody
calls `process-next` again and again, as the loop of a worker would; without that no
withdrawal has to leave the queue.

`Quiescent` is a stuttering step for states in which no request is in service, so
TLC's deadlock check means that a request in service can always move. `amounts` alone
does not check for deadlock: when its three rows have ended nothing is left to do.

## Proofs

Every safety property the passing runs check is also a theorem, for all values of the
constants. The proofs use the constants' assumptions only (`MaxTxAssumption`,
`CustodyAssumption`, `GatekeeperAssumption`, `DemoResetAssumption`, `ReportsAssumption`,
`AmountsAssumption`, `KeyShardingAssumption`): any sets of servers, requests, transfers and
fees, any number of withdrawals, any pool, any limit. `GatekeeperAssumption` has finitely
many slots, of which `AllowedWithinSlots` speaks. `AmountsAssumption` has a daily limit with
fewer digits than the decimal context (10 000 ETH are 23 of 28); `DailyLimit` is what
`config.py` reads. `KeyShardingAssumption` has a prime: what PyCryptodome's GF(2^128) is
for is that every element but 0 can be inverted.

| Module | Theorem | Inductive invariant and why it is needed |
|---|---|---|
| `CustodyProofs` | `TypeCorrect` | `TypeOK` is inductive itself, with a lemma for each kind of update and one case for each action; the rest of the module and `RecorderProofs` rest on it |
| | `NonceSectionSafe` | `SectionHolds`: a request in the section is at the head of its server's queue. Exclusion alone is not inductive: it does not say that the next signer waits |
| | `PaymentsCleared` | `ClearInv`: a row beyond review, a request that processes one, and a payload submitted are all of a cleared withdrawal. Since decisions never change and trails only grow, clearance is stable, and no stale read can lose it |
| | `AuditFaithful` | `MirrorInv`, with no audit row for an absent withdrawal: every commit changes the status and the trail together |
| | `NoncesConsecutive` | `NonceInv`: the mempool has at most the next nonce, and what a coroutine signed has that nonce or an older one, which the node refuses once it is used or taken |
| | `BroadcastHasHash`, `SettlementsPaid` | `HashInv`: what a `sent` request holds was submitted for its withdrawal, and what a reconciliation holds was the hash of a BROADCAST row, also submitted; submissions and receipts only grow |
| | `PayloadsAudited` | `AuditInv` counts the requests that committed SIGNED and have not sent yet beside the payloads sent: the sum never exceeds the SIGNED rows. Counting payloads alone forgets who may send next |
| | `PaidOnce`, `StatusForward` | `SerialInv`: requests in service are on different withdrawals (`Alone`); therefore what each has read is still true at each of its steps (`InStep`); and what was sent had a status that no reader takes up again (`SentInv`) |
| | `OutcomesTrue` | `OutcomeInv` adds that a row with a BROADCAST event is BROADCAST or concluded, and `settled_at` means SETTLED: the receipt by which a row was concluded is final and its hash no longer changes |
| | `TrailsLegal` | `StoryInv`: the status tells how far the story has come, so the row a commit adds continues it. That a trail is legal does not say which rows may follow |
| | `WithdrawalImplemented` | `RefinementInv` adds that a payload is mined once and that nonces of mined payloads are used up: then no step but `Mine` changes a payment that was made, and `Mine` concludes the payments of all the withdrawals that share the payload alike |
| `RecorderProofs` | `RecorderSettles` | `RecHashInv`: `HashInv`, and what the recorder holds once the node took it was submitted for its row |
| | `RecorderNonce` | `RecNonceInv`: `NonceInv`, and the nonce of what the recorder signed is the account's or older. It holds no lock the servers know of; what keeps the nonces consecutive is the node |
| | `RecorderAudited` | `RecAuditInv`: the recorder's SIGNED row is one more that may still be owed a payload |
| | `RecorderOnce` | `OnceInv`: the trail has the recorder's own rows at least, and if it has no others, nobody else has a commit or a send under way for the withdrawal and the row is as the recorder left it (`Untouched`). Three rows under a final result are then the whole story |
| | `RecorderSurvives` | `RecordedSurvives` is inductive: receipts are final, and trails only grow |
| `GatekeeperProofs` | `GatekeeperTypeCorrect` | `TypeOK` is inductive itself |
| | `DecisionsCurrent` | `SeenInv`: what the whitelist says of a slot's address at present, what the slot read of it, and what it decided are all in its history `seen` |
| | `DailyLimitWithinSlots` | `LimitInv`: each request that was allowed and has not inserted its row keeps a limit of its own in reserve (`Reserved`), and asks for no more than one (`Modest`). Only the one that read the sum last may be counted within what it read: this is the slack that makes n requests n limits and not more. A withdrawal that comes back from FAILED brings a limit of its own along |
| `DemoResetProofs` | `TrailsMatch` | `ResetInv`: until the reset commits every trail matches, raced or not, so that a rollback forgets a race; and what the first DELETE spares of a deleted withdrawal is what was added since, nothing without a race |
| | `StatusesExplained` | `ExplainedInv`: a withdrawal that outlives the reset had no audit row when it began, therefore every row is explained at every moment, after a race as well; and what a report read of the rows stays explained by the trails, which only grow until the reset commits |
| | `StatsComplete` | `StatsInv`: what a report has counted so far is there to be counted by its next SELECT (`Counting`). The counts by status and by decision add up to the number of rows, since each row has one of each |
| `AmountsProofs` | `LimitSurvivesRounding` | `AmountsInv`: the sum of what is stored for allowed withdrawals is within the limit and each row fits its column. A sum that passes the rounded comparison is below the limit and half a wei, as a limit of fewer digits than the context separates the two sides of every rounding; and halves that the column rounds up were compared before |
| | `PaidToTheWei` | the same, and that a payload carries what `eth_to_wei` made of the stored value: a value of as many digits as the context has none to lose, and of a longer one the context drops as many digits as it has too many |
| `KeyShardingProofs` | `QuorumRecovers` | A statement about the operators: from any quorum of shares (no fewer than the threshold, each once, in any order) `ReconstructSecret` gives back the key, blocks, padding and length. See below |
| | `FewerRaise` | Anything that is no quorum raises: an injective sequence has as many elements as its range |
| `SimLifecycleProofs` | `QuorumsRecover` | `KeyInv`: nobody asks before the key is split, it is split once (`Started`), and the shares are from then on those of a split of it (`SharesSplit`) |
| | `FewerRaises` | `FewerNeverAnswer` is inductive: a call is answered once |
| | `OnePayloadOfTheKey` | `SimPayload`: whatever is signed, returned or emitted is made with the key that was split, of that withdrawal and of a text (`Signs`). Who signs it does not matter, because any quorum's answer is the key |
| | `EmissionsAudited` | `SimAudit`: a call that goes on after its commit has its row SIGNED in the trail, and a row past review, and whoever signs it, is of a withdrawal that was allowed, or challenged and approved |
| | `HashKept` | `SimHash`: a commit of BROADCAST that is under way is of a payload that was emitted |

**Interpolation.** With *n* points *x1 ... xn* and *v(i, j) = xi / (xi - xj)* modulo the
prime, the weights of `Combine` are products of *v(m, j)*. Every difference of share numbers
has an inverse (`InverseExists`: the least positive multiple of it divides the prime, so it is
1). Two identities, *v(i, j) + v(j, i) = 1* (`RatioSum`) and the one of three points
(`RatioProduct`), give by induction on *n* that the weights come to 1 (`WeightsBalance`,
`WeightsSum`). Dividing a polynomial by *x - xn* lowers its degree and, with the weights, the
number of points by one (`HornerDivides`): by induction on the degree the weighted values come
to the constant coefficient (`WeightsInterpolate`). The rest ties this to the folds that
`Evaluate` and `Combine` are (`EvaluateSteps`, `WeightSteps`, `CombineSteps`), and blocks to keys.

**Data.** `SumFunctionOnSet` and `FoldLeft` of the community modules are recursive functions
over sets, chosen by CHOOSE, and the library's induction theorems are out of reach of the
provers here, as they take an operator. `SumProofs` gets by without: induction over the
subsets of a finite set and over the natural numbers is stated of a set of good ones
(`SubsetInduction`, `NumberInduction`, from the well-foundedness of inclusion and of <), and
recursion of a function of a pair (`NumberRecursion`). From there, sums do not depend on the
order in which CHOOSE takes the elements (`SumTakesOut`), grow with the set (`SumGrows`), and
counts by class add up to the number of elements (`SumCounts`). `Ten` of `Amounts` is a
recursive function for the same reason.

**Under which specification.** `PaidOnce`, `StatusForward`, `OutcomesTrue`, `TrailsLegal` and
`WithdrawalImplemented` are about `SerialSpec`, whose assumption the code does not enforce
(see `custody_twice`): they say what a lock on the row would buy, and hold of operators
who wait for an answer before they call again. Two overlapping requests are not covered
by them, and what they can do (pay twice, take a status back) no property of
`Spec` excludes. All others are about the full `Spec` of their module, or `RecorderSpec`, with every fault.

Only model-checked is liveness: `RequestsEnd`, `SignedGoesOnUnlessFault` and
`WaitsOnlyBehindDust` need fairness and ENABLED, which are out of TLAPS's reach.

## Abstractions to keep in mind

- The order of withdrawals and of audit rows is that of their commits. In the code
  `created_at` comes from each server's clock at the flush, which may be followed by a
  wait for a row that another commit has locked: overlapping commits can have it the
  other way round, in one server too.
- A SELECT waits for a connection; its timeout answers 500 and is no step.
  `RequestWithdrawal` holds no connection across an await that matters here.
- A commit whose answer is lost is the commit followed by `Abort`.
- Signatures, hashes and checksummed addresses are taken as correct; payloads with
  equal contents have equal hashes. A fee is one value. `build` takes the present base fee
  and the tip, without headroom; later base fees are not modelled, and a payload that
  stays in the mempool for ever stands for one that became too cheap.
- `Gatekeeper` has the rows of `POST /withdrawals`. Those of the demo recorder and of the
  reset's seeds are inserted without asking the policy, and a day they share with
  requests is not bounded by it. Its addresses are spellings: the validator does not
  normalise the case of an address, and neither does the model.
- `Recorder` ends where the code prints; the environment checks and the output around
  it change nothing. A server keeps its lock and pool to itself.
- `KeySharding` splits once: shares of two splits are not mixed. Mixed, they would
  interpolate to some other key, and nothing in a share could tell.
- `DemoReset` has no payments: that of a withdrawal the reset deletes is no longer
  in any ledger row, and its payload can no longer be found through one.
  `settledAt` of the settled seed is not set, as in the script; the seeds' made-up
  hashes are left out.
- `Amounts` serves requests one after the other, on one day and to whitelisted
  addresses; `Gatekeeper` has the interleavings.

## Not modelled

- The application, its API key and its settings: routing, one comparison of a header
  and the reading of environment variables. No state changes.
- The web pages, and the reports made of a single SELECT: they present rows.
- The construction of the engine, Alembic's runner and the row of `ledgers` that the
  reset makes sure of: done once, before anything in the models starts, or never
  changed.
- Reorganisations of the chain, payloads that other nodes keep after ours forgot them,
  and a send that arrives after its timeout was recorded as FAILED: the code has no
  handling of them that a model could follow.

## Plan

Done: the modules, runs and theorems above. What is left:

1. Clocks: `created_at` of two servers out of order, and what `/audit` then shows.
2. What the refinement still says if requests overlap: an abstract specification of
   `Spec`, with second payments, that `Custody` implements without `SerialSpec`.
3. `Recorder` as an implementation of `Withdrawal` when no server touches its row.
