# Goal Stakes: formal models and proofs

Goal Stakes lets a user put a token stake on a daily or weekly goal. A missed
"do" goal, or a reported slip of an "avoid" goal, makes the backend burn the
stake out of the user's ERC-20 allowance. This directory models the part of the
repository where money moves and where several actors touch the same rows, and
states, model-checks and proves what makes it correct.

Paths below are relative to the repository root; `internal/` is
`backend/internal/`.

## 1. Inventory

| Part | State | Operations | Interacts with |
|---|---|---|---|
| Penalty pipeline (`internal/service/service.go`, `internal/store`) | tables goals, check_ins, violations | CreateGoal, UpdateGoal, SetStake, ArchiveGoal, LogCheckIn, ReportViolation | HTTP handlers, scheduler, AI tools and the bot's endpoints call it; it calls the store and the enforcer client |
| Scheduler (`internal/scheduler/scheduler.go`) | none kept between ticks; a run holds a snapshot of the active goals | Start, RunOnce | store, ReportViolation; one goroutine of the API process |
| Enforcer client (`internal/web3/enforcer.go`) | chain clients, the enforcer key | Penalize, AllowanceOf, contract validation | JSON-RPC node, StakeEnforcer contract |
| StakeEnforcer (`web3/src/StakeEnforcer.sol`) | owner, enforcer | penalize, setEnforcer | ERC-20 tokens |
| Stores (`internal/store/memory.go`, `postgres.go`, `backend/migrations`) | all tables | the methods of the Store interface | the service, sign-in, key verification and the AI manager call them |
| Period calendar (`internal/domain/period.go`) | none | CurrentPeriod, PeriodBounds | scheduler, check-ins, reports |
| Wallet sign-in (`internal/auth/siwe.go`) | nonces in memory, users | IssueNonce, VerifyAndLogin, VerifySessionToken | store |
| API keys and agent links (`service.go`, `internal/auth/apikey.go`) | tables api_keys, agent_links | create, verify, revoke, render the skill document | store |
| Telegram linking (`service.go`, `internal/api/router.go`) | tables telegram_link_codes, telegram_links | create code, link chat, resolve chat | store, bot |
| Telegram bot (`telegram-bot/`) | the polling offset, in memory | poll, route, forward | Telegram, backend |
| AI chat (`internal/ai`) | tables conversations, messages | Chat, ChatAudio, tools | OpenAI, the service's operations |
| HTTP API, configuration, frontend, Android app, scripts | no product state | | |

What is hard here:

- the scheduler and any number of requests act on the same goal and period at
  once, and each sequence of store and RPC calls can be interleaved anywhere;
- the database and the chain are two systems without a common transaction: a
  row is inserted, a transaction is sent, its outcome is written, and a crash,
  a cancelled context or a lost answer may fall between any two of these;
- a handler works from a snapshot of its goal while other requests edit it;
- one failing report ends a scheduler run, and one goroutine does them all;
- late and early check-ins, moved deadlines and archived goals;
- a period key is a string that clients choose: a week has several, and rows are
  compared by their strings;
- pairs of rows (a key and its link, a code and its chat, a question and its
  answer) written by two store calls;
- the bot confirms updates by its next poll, gives up requests that go on in the
  backend, and forgets everything when it restarts.

What makes each part correct:

- pipeline: no double charge of a violation, of a key or, where a period has one
  key, of a period, the recorded amount, no "charged" without a
  burned stake, rows settled once, the scheduler only penalizes real misses and
  gets to all of them, pending rows do not stay pending;
- calendar: a scheduler run sees each completed period of a goal exactly once,
  whatever the zone's transitions do;
- goal editing: an edit changes what it was asked to and a stake is covered when
  set, as long as edits do not overlap (section 6 says what happens when they do);
- stores: the one the tests use does what the one the server uses does;
- sign-in: a nonce signs in once, a wallet has one user and its sessions are that
  user's;
- keys and links: what is revoked, or was never handed out, is not usable;
- Telegram: a code links one chat and lets it act for the code's owner only; an
  update is acted on once unless the bot restarts, and none is lost;
- chat: bounded tool rounds, every action behind a stored question of its user;
- enforcer client and contract: a result says what happened to the call's own
  transaction, whatever becomes of nonces and of the enforcer's role; only the
  current enforcer burns, only to the burn address.

`PROJECT.json` lists every hazard at its line with the properties that cover it.

## 2. Plan

The modules in the order of their importance; all are written.

1. `Enforcement` - pipeline, scheduler, store and chain composed.
2. `PenaltyLedger` - what the pipeline promises, and the refinement from 1.
3. `Periods` - CurrentPeriod, PeriodBounds and the loop of `completedPeriods`
   in zones with clock changes, against the periods that are over.
4. `Rows`, `MemoryStore`, `PostgresStore`, `Stores` - the two stores in lockstep.
   That a store method may be taken for one atomic call everywhere else is a
   consequence.
5. `SignIn`, `Credentials`, `GoalStake`, `Penalties` - accounts and custody: four
   components that share no state, composed by `MCAccounts`.
6. `Chat`, `Assistant` - the AI manager, and the Telegram bot with the backend
   behind it; `MCAssistant`.

Theorems come with a component's model, its safety invariants first (section 5).
What is left: a composition of `Assistant` with the reports of `Enforcement`, in
which a redelivered update is a second report (it needs more updates, rows and
faults at once than a run has time for).

## 3. Modules

### Enforcement

One action is one store or RPC call. A request that needs several calls is a
record `calls[c]` that names the call it is about to make (`at`) and holds the
local variables the rest of the handler uses. `GetGoal` of `requireGoalOwner` is
the first step (`BeginReport`, `BeginCheckIn`, `BeginGoalUpdate`).

| Code | Model |
|---|---|
| tables goals, check_ins, violations | `goals`, `checkIns`, `violations`; rows are numbered in the order of insertion |
| the unique index on (goal_id, dedupe_key), the map violationKey | `keyed` rows and `Conflicts` |
| ReportViolation: GetGoal, CreateViolation or CreateViolationIfAbsent, GetUser and Penalize, UpdateViolation | `BeginReport`/`ReportMissed`, `CreateViolation`, `Transact`/`RefuseTransact`/`TransactUnanswered` then `WaitMined`, `UpdateViolation` |
| an error return anywhere | `CallFails`, `Return(c, FALSE)` |
| LogCheckIn | `BeginCheckIn`, `UpsertCheckIn` |
| UpdateGoal, SetStake | `BeginGoalUpdate`, `WriteGoal` |
| CreateGoal, ArchiveGoal | `CreateGoal`, `ArchiveGoal` |
| Start: the ticker | `Tick`; `sched.tick` is the tick's time, which may be older than the clock when the run begins |
| RunOnce | `ListActiveGoals`, `GetCheckIn`, `ReportMissed`, `EndRun`, `RunFails` |
| the mempool and the receipt | `txs`, `Mine`, `Drop` |
| request context, signal context | `ctx`; `Disconnect`, `Shutdown` |
| death and restart of the process | `Crash`, `Restart` |

Abstractions. The two statements of the Postgres `CreateViolationIfAbsent`
(insert, then select on conflict) are one step: rows are never deleted and the
select reads fields that cannot change the outcome, since on a conflict the row
is only returned. A row stands for what is stored, so "stored in time" means the
check-in was in the table before the period ended (Postgres stamps `created_at`
just before the statement). The store is Postgres, as in `cmd/api/main.go`;
the memory store, used by tests, has the same operations and loses everything in
a crash. The allowance check decides which stakes are accepted, so any stake may
be. Periods are given by their boundaries `PeriodStart`. A tick that waited in
the ticker's channel is one taken when the loop was last idle. `ctx` of a client
is live again when its next request begins. A goal keeps one chain and token,
which the properties do not tell apart. `txs[h].for` is a history field: the
contract call itself carries wallet, token and amount.

Keys. `weeklyBounds` scans a key with `Sscanf("%04d-W%02d")` and then looks at
its length and at the week found, so "2026-W05", "2026-W5x", "2026-W+5",
"2026-W 5" and "2026-W5 " are keys of one week. `resolvePeriod` hands a key on
as it was spelt, and check_ins, the dedupe key and the scheduler's GetCheckIn
compare strings. `Keys` are therefore the periods, each standing for the key that
`CurrentPeriod` writes, and `Variants`, further keys, of which `ReadAs` names the
period; `PeriodOf` is the conversion, and only the bounds use it. Check-ins and
reports of clients take any key, the scheduler those of `CurrentPeriod`.
A daily key is parsed by time.Parse, which accepts one spelling, and a week
of two digits has one too, so `Variants` is empty for daily goals.

### PenaltyLedger

Debts, payments and what is declared about them: `Owe`, `Pay`, `Declare`. A
payment is taken once, at the amount owed; "charged" is declared only after a
payment; "failed" may be declared of a debt that is paid all the same. That is
as much as the code promises (section 6). `Enforcement!Ledger` is the refinement
mapping: rows are debts, successful transactions are payments.

### MCEnforcement

Calendars (`UnitPeriods`, `LaterPeriods`), second keys
(`AllFirst`), ownership and the symmetry set of the runs' instances.

### Periods, MCPeriods

The calendar in its own right: local time, `time.Date` and `AddDate` of Go's
package time (external, with the offset lookup of its implementation, which is
what decides at a skipped midnight), the bounds of days and ISO weeks, and
`completedPeriods` as a loop, one action per way an iteration can end: `Break`,
`Advance`, `Stall` (the `next == period` exit). The input (goal, zone, tick) is
chosen in `Init`. What a period *is* comes from `CurrentPeriod` alone, the
function check-ins use, so `Due` is a reference definition that does not depend
on the bounds. Keys are numbers and stay within one ISO year.

`ZonesAssumption` says what a zone may be: offsets shorter than a day, clock
changes further apart than any two offsets, and none of more than half a day.
Every rule of the time zone database that is in use is such a zone; what it
excludes is moving the date line, as Samoa did in 2011, where a whole day is
missing. A zone `SparesMidnight` if the last instant before each change falls on
the same day by the old offset and by the new one, as where clocks change at two
or three in the morning: no midnight is skipped or comes twice.

Enforcement takes the calendar as boundaries, with the end of one period the
start of the next, and its `CompletedPeriods` as a formula; BoundsTile,
FindsAllRegularly and OnlyOver are what entitles it to, in zones whose clock
changes spare midnight. In the other zones they fail (section 4).

### Rows, MemoryStore, PostgresStore, Stores, MCStores

`Rows` has what the two stores share: tables, rows, calls, answers. A row keeps
the columns that decide something: its owner, another row it refers to (`ref`),
its unique key, a payload, whether it is archived, revoked, consumed or settled
(`done`), its creation time (`at`). `MemoryStore` has one operator per method
(each holds one mutex throughout); in `PostgresStore` a statement is atomic,
and the methods made of several (CreateViolationIfAbsent, RevokeApiKey,
AppendMessage, GetConversation) are as many steps. `Stores` runs both in lockstep: a client
makes a call, Postgres executes its statements one by one with those of other
clients in between, and the memory store executes the call when Postgres runs
the last. A statement may fail, and the last one's answer may be lost.

A behaviour is about one group of tables (`focus`): rows are never deleted, and
another group is only referred to, so calls about it cannot change what a call
about this one does. Calls read the clock when they are made, at distinct times
(random UUIDs decide ties, which no property is about). In a
conversation's place for `updated_at` is the position of the message that touched
it last; the code writes the time at which that message's call began, which may be
earlier than the one it replaces, and no order of answers depends on it. The
CHECK constraints of the migrations (type, cadence, status, role, chat_kind) and
the NUMERIC columns are left out of `Insert`: the service validates these fields
before it calls a store. Two differences are accepted
by the properties: for a parent that does not exist the memory store says
ErrNotFound and Postgres reports a violated foreign key (`SameRefusal`; the
service never names such a parent), and GetConversation, two statements, may
return a conversation older than its messages (`SameOrOlder`).

### SignIn

siwe.go call by call: the nonce map under its lock (`IssueNonce`, `LookupNonce`,
`ConsumeExpired`, `ConsumeNonce`), then `GetUserByWallet`, `CreateUser` and
`SignSession`. Whether the message is signed by its wallet is a free choice of
whoever sends it. `SignInRestart` loses the map. `sessions` is a history of the
tokens handed out.

### Credentials

Keys and links, and every request about them, one step per store call. A request
holds what it read (`reqs[c]`). Each call may fail, lose its answer, be cancelled
with its request (`Disconnect`) or be cut off by a crash; `broken` counts them by kind, since NoOrphanKey
depends on it: the error path of CreateAgentLink revokes the key under the same
context. Agent keys are derived from a link's token; the skill document is
served while the link is valid. An expired link answers 410, which is a free
choice of the step. requireAuth verifies a refused `sk_` key a second time
(`getKeyAgain`). `last_used_at` is left out.

### GoalStake

The goal's fields one by one, the allowance on the chain, the cached approval,
and two clients that create and edit: read, check, write back. `want` is what
each field should be after the edits so far, `covered` the stakes the check has
passed. `unsure` marks goals whose token was written back by an overlapping
edit; an edit that has read such a goal and writes its stake unchecked keeps the
mark, also where the goal has been checked in between.

### Penalties

Calls of Penalize with one key: gas estimate, the node's pending nonce,
broadcast, receipt; the pool replaces, refuses and mines; the owner rotates the
enforcer; tokens return true, nothing or false. `sends` are the calls, `txs` the
transactions.

### Chat

ai/manager.go. A job is a request the backend works on: `at` is the call it is
about to make. The question is stored, the model is asked in `Rounds` rounds, a
tool call acts or not, the answer is stored. Any call may fail, and the context
may be cancelled at any of them (`Fail`). What a tool or a command does to goals
is in the other modules; here it only counts that it acted.

### Assistant, MCAssistant

Telegram's queue (`updates`, `confirmed`), the bot (`bot`: where poll is, its
offset, the batch), link codes and linked chats, and `Chat`'s jobs for requests
that come through Telegram. `OffsetAfter` is the only memory of what has been
handled. `Receive` is an answer or the end of the 20 seconds: the request may go
on in the backend until one of its calls notices the cancelled context. `Stop`
covers a kill and SIGTERM: after the cancellation no call succeeds and no poll
follows, so nothing is confirmed. Expiry of a code is one of Fail's causes. The
AI manager is taken to be configured.

Telegram chats always open a new conversation, so chats of other clients share
no conversation with them; the two are explored on their own (`focus`).

## 4. Runs

Passing runs:

| Run | Instance | Shows |
|---|---|---|
| ClientsRace | 2 clients, 1 do goal that may end before the week or after it and is moved between, 1 week with two keys, no faults; symmetric clients | TypeOK, NoDoubleCharge, LedgerMatchesChain, MissedDeadlineIsReal, ImplementsLedger under every interleaving of three callers, with check-ins and reports under either key before, in and after the week |
| Faulty | 1 client, 1 goal of either type, 2 stakes, 1 period with one key, 2 faults of the kinds disconnect, crash, store, rpc, drop | OneChargePerPeriod, ChargesRecordedAmount, ChargedMeansBurned, RowsOnlySettle, ImplementsLedger; UndisturbedSettles as long as no fault has happened |
| CatchUp | scheduler alone, 2 goals, 2 periods, 1 fault (crash, shutdown or store) | MissedPeriodReported: a run that ends early is made good by later ones |
| Calendar | days of 4 units, weeks of 2 days, offsets -1..1, up to two clock changes at any instant; every tick up to 13, six starts, two ends, both cadences | TypeOK, InOrder and, under weak fairness of the loop, which is sequential code, Returns in every zone; FindsAllRegularly, OnlyOver and BoundsTile, through long and short days and weeks, in the zones where every midnight happens once |
| Stores | 3 interchangeable clients, 3 calls, 1 failing statement, 2 keys, 2 payloads, two users with a row each; every method of the interface | SameTables, SameAnswers: the stores hold and answer the same under every interleaving of statements; ConstraintsHold, RowsStay |
| Accounts | two clients per component, one fault; 2 wallets and nonces; 2 keys, 1 link; 2 tokens, 3 edits; 2 penalties, 2 signing keys, 3 kinds of token | sign-in: NonceSignsInOnce, SessionIsItsWallets; keys: RevokedIsRefused, RetiredIsRevoked, NoOrphanKey, OnlyOwnersRevoke; stakes: StakeWasCovered, EditsSurvive; custody: ResultMatchesChain, ExecutedIsBurned, EndsUnlessReplaced |
| Assistants | 2 chats, 2 users, 2 updates, 1 code, 2 lives of the bot; apart from them 2 chats with the AI manager in shared conversations, 2 rounds of at most one tool call | OncePerLife, ChatsActForTheirUsers, ChatsLeaveATrail; UpdatesAreHandled: no request that hangs and no restart loses an update |

Why the bounds are enough to be interesting: two clients and the scheduler are
the smallest number of callers with a race between equals and one with the
scheduler; the two rows and transactions of ClientsRace hold one charge for each
key of its week and would hold two for one key, and its two deadlines put the
week inside the goal or outside it; in Faulty two stakes tell a stale amount from
a current one, two rows let an avoid goal be charged twice, two faults let one
hit the recovery from another, and a third transaction leaves room for one that
should not be sent (a shutdown, left to CatchUp, is a cancelled context followed
by a restart, both of which Faulty has); two goals and
two periods are the smallest run that can be cut short with work on both axes
left. In Stores every hazard is a call that falls between the statements of
another, and a third call sees what they left; a fourth adds no new pair. In
Accounts each race is between two requests, about one or two rows, with one
fault in between; a third edit of GoalStake lets an edit overlap two others; two keys make one of
them the link's and one another owner's. In Assistants two updates let the one
that is late overlap the next (a code and what it unlocks, or the same code in
two chats), the second life redelivers both, and four rounds differ from two only in number. Two approvals of a
token let an allowance be lowered below a stake that was covered; what the first
request of GoalStake names is fixed where names are interchangeable
(`Representative`), which leaves out renamings only. All counters (`now`, rows, transactions, faults) are capped by the named
constants; nothing but the cap stops the model there.

Runs that end in a violation, each the check of one sentence of the repository's
documents or comments:

| Run | Sentence | What the code does |
|---|---|---|
| PendingForever | a violation is created pending, then charged or failed | the outcome is written under the request's context; a client that goes away leaves the row pending, and no later report takes it up |
| FailedBurned | else tx fails: mark violation failed | a lost answer to a broadcast is taken for a refusal; the stake burns, the row says failed and has no hash |
| BlockedScheduler | RunOnce checks every completed period | a transaction that is never mined holds the one scheduler goroutine |
| SpelledTwice | trailing garbage is rejected; a period is the unit of uniqueness for violations | a week of a do goal reported under two keys is charged twice |
| SkippedMidnight | RunOnce checks every completed period | where the clocks go from midnight to one west of Greenwich, the loop stops at the day before the change, now and at every later tick |

In the zones of SkippedMidnight the day before the change also ends, and is
penalized, an hour early: its bounds end while CurrentPeriod still returns it.
OnlyOver therefore speaks of the other zones only.

Deadlock is checked except in Faulty and BlockedScheduler, where a dropped
transaction leaves its waiting handler with nothing to do, as in the program, in
the runs of Periods, where the function has returned, and in Stores, Accounts
and Assistants, which end when their bounded requests have been made.

Fairness (`Fairness`): weak fairness of each handler's next step, of the
scheduler's next step, of the mining of each pending transaction and of the
restart of a terminated process. Goroutines are scheduled, a database or RPC
call returns and the ticker ticks. That somebody starts the process again after
a SIGTERM is an assumption about its operation, not about the code; without it
no promise about the future could hold. No fairness for users, the clock, archiving or
faults. MissedPeriodReported and UndisturbedSettles need no strong fairness because
no step of a handler is disabled by another's.

`PenaltiesFairness`: the node answers a call and mines what is in its pool.
EndsUnlessReplaced shows what remains: Penalize waits for its own hash, and a
transaction replaced by one with the same nonce never has a receipt.
`Assistant!Spec`: weak fairness of the bot's steps, as its HTTP clients have
timeouts (20 and 65 seconds) and the loop goes on after any error; it includes
that of a poll repeated forever one gets through. None for the backend, the
model, or whoever restarts the bot. UpdatesAreHandled speaks of a bot that is up
and stays up.

## 5. Proofs

For every number of clients, goals, periods, wallets, rows, keys, payloads,
transactions and faults, under the assumption of each module on its constants alone
(`ConstantsAssumption`, `SignInAssumption`, `CredAssumption`,
`GoalStakeAssumption`, `PenaltiesAssumption`, `ChatAssumption`,
`AssistantAssumption`, `RowsAssumption`, `StoresAssumption`, `PeriodsAssumption`): bounds are natural
numbers, placeholders are not values, there is a coin, a text and an amount to
name, calls are finitely many, the rows a store starts with have keys that calls
may name, a zone is as section 3 says. The theorems of Periods hold for every
length of day and week, zone, tick, start and deadline.
NeverDoubleCharged and OnlyRealMisses hold whatever keys a period has, and speak
of keys. OneChargeWhereOneKey speaks of periods and has the hypothesis that each
has one key (`Variants = {}`), as in Faulty: without it the property is false, as
SpelledTwice shows.
LedgerAgreesWithChain has a hypothesis of its own, that the only fault is a
dropped transaction (`Faults \subseteq {"drop"}`): the property is about runs in
which no call is cut short, and ClientsRace is one.

| Theorem | Module | Property |
|---|---|---|
| TypeCorrect | EnforcementProofs | TypeOK |
| NeverDoubleCharged | EnforcementProofs | NoDoubleCharge |
| TakesRecordedAmount | EnforcementProofs | ChargesRecordedAmount |
| ChargedIsBurned | EnforcementProofs | ChargedMeansBurned |
| OnlyRealMisses | EnforcementProofs | MissedDeadlineIsReal |
| OneChargeWhereOneKey | EnforcementProofs | OneChargePerPeriod |
| RowsAreOnlySettled | LedgerProofs | RowsOnlySettle |
| PipelineImplementsLedger | LedgerProofs | ImplementsLedger |
| LedgerAgreesWithChain | LedgerProofs | LedgerMatchesChain |
| SignInTypeCorrect | SignInProofs | SignInTypeOK |
| NoncesAreSingleUse | SignInProofs | NonceSignsInOnce |
| SessionsAreTheirWallets | SignInProofs | SessionIsItsWallets |
| CredTypeCorrect | CredentialsProofs | CredTypeOK |
| RevocationIsFinal | CredentialsProofs | RetiredIsRevoked |
| RevokedAreRefused | CredentialsProofs | RevokedIsRefused |
| OwnersRevoke | CredentialsProofs | OnlyOwnersRevoke |
| FailureLeavesNoOrphan | CredentialsProofs | NoOrphanKey |
| PenaltiesTypeCorrect | CustodyProofs | PenaltiesTypeOK |
| ResultsMatchChain | CustodyProofs | ResultMatchesChain |
| ExecutionsBurn | CustodyProofs | ExecutedIsBurned |
| GoalStakeTypeCorrect | CustodyProofs | GoalStakeTypeOK |
| StakesWereCovered | CustodyProofs | StakeWasCovered |
| EditsAreKept | CustodyProofs | EditsSurvive |
| AssistantTypeCorrect | AssistantProofs | TypeOK |
| UpdatesOncePerLife | AssistantProofs | OncePerLife |
| RequestsActForTheirUsers | AssistantProofs | ChatsActForTheirUsers |
| ChatsAreStored | AssistantProofs | ChatsLeaveATrail |
| StoresTypeCorrect | StoreProofs | TypeOK |
| StoresHoldTheSameRows | StoreProofs | SameTables |
| StoresAnswerAlike | StoreProofs | SameAnswers |
| MemoryKeepsConstraints | StoreProofs | ConstraintsHold |
| RowsAreKept | StoreProofs | RowsStay |
| PeriodsTypeCorrect | PeriodsProofs | TypeOK |
| PeriodsInOrder | PeriodsProofs | InOrder |
| FindsOnlyWhatIsOver | PeriodsProofs | OnlyOver |
| FindsEveryPeriod | PeriodsProofs | FindsAllRegularly |
| PeriodsTileTime | PeriodsProofs | BoundsTile |
| ComponentsSideBySide | CustodyProofs | MCAccounts is each of its four components |
| AccountsTypeCorrect | CustodyProofs | TypeOK |

None of the properties is inductive.

- `TypeInv` adds to TypeOK what the placeholder None leaves open: a handler that
  is about to insert has a goal and a period, one that charges has a row, one
  that waits has a hash, and a sent transaction has a row.
- `ChargeInv` is ownership. Between CreateViolation and UpdateViolation a row
  has one holder (`OneHolder`) and is pending (`HoldsPending`); before Transact
  no transaction exists for it and the holder's stake is the row's amount
  (`BeforeTransact`); afterwards the holder's hash is the row's transaction
  (`AfterTransact`). A new row was refused by no keyed row of the same key
  (`UniqueIndex`, of keys), a row has at most one transaction (`OneTxPerRow`). The
  properties are consequences. Without OneHolder, two handlers could each send
  for one row; without BeforeTransact, a resumed handler could send again.
- `MissInv` follows a miss from the listed snapshot to the row: every pair of
  `todo` has ended, and a check-in of a pair being reported that was absent when
  it was looked up can only have been stored after the end. The pairs hold
  periods, that is, the keys CurrentPeriod writes.
- `Effects` (LedgerProofs) bounds what a step can do to rows and successful
  transactions to four cases (quiet, insert, settle, burn); each is a step of
  the ledger or none.
- `ChainInv` (LedgerProofs), for LedgerAgreesWithChain: as no context is cancelled
  (`Uncut`), a pending row still has the handler that will settle it
  (`PendingHeld`), and whoever is about to record a failure has sent nothing for
  the row or seen it revert (`FailedCalls`), which then stays true of the row
  (`FailedRows`): only a transaction that is pending can still take anything.
- `SignInInv` is ownership again. A verification past ConsumeNonce owns its
  nonce: the nonce has left the map, was issued to the wallet of the message, and
  no other verification and no session has it (`OwnsNonce`). One user per wallet
  (`UniqueWallets`) makes the user found after a lost race the wallet's own.
- `CredInv` says that what a request has found out is still true when it uses it:
  the row it names exists and is its user's, a link whose key is about to be
  revoked is itself revoked, and a request whose credential had been revoked is
  not past the lookup that refuses it (`Fits`). It is inductive because rows only
  grow (`Grow`): they keep their owners, and revoked ones stay revoked. Every
  action is then a change of one request (`OneStep`) and of at most one row.
- `SpareInv`, for NoOrphanKey, counts: while at most one call has failed, no
  context is cancelled and a request that undoes its key has had the one failure,
  so undoing succeeds.
- `PenaltyInv` ties each call's place to the state of its own transaction
  (`SendInv`) and counts (`BurnInv`): what was burned is the number of executed
  transactions, what was taken of a coin and what is left of its allowance are
  within what was approved, and the user has at least what is left. Without the
  last, a transfer could fail after the allowance was spent.
- `StakeInv` relates a request to the goal it will write. Its unchecked stake was
  covered when it was read, unless the goal was unsure then; what it was not
  asked to change is as in the goal for as long as no other edit has overtaken
  it; an UpdateGoal's token is the goal's until a SetStake overtakes it
  (`EditInv`). An earlier form of the history `unsure`, in which an edit took
  over the goal's mark when it wrote, was not inductive, and TLC then found the
  property itself false beyond the old bounds: an edit that had read an unsure
  goal wrote its stake back over one that had been checked meanwhile.
- `TelegramInv`: the offset of a running bot is at most the update it handles
  next, and an update it has not passed was sent in earlier lives only
  (`BotInv`, a count of the requests for each update); a code that is linked, or
  consumed and about to be, is used and belongs to one request (`LinkInv`); a
  request past its lookup has a user whose code was sent in its chat
  (`RequestOK`).
- `TrailInv` says for each step of a chat what is stored by then and how many
  calls have acted (`TrailOK`), and for each message that its request has got
  that far (`MessageOK`).
- `StoresInv` is what the two stores share (`DbInv`): tables of the same rows but
  for the moments they were stamped (`SameDb`), the constraints on the memory
  store (`Constrained`), and that no conversation was touched by a message that is
  not there (`Touched`), without which an AppendMessage could take a
  conversation's time back. Of a call that has run a statement it says that what
  it saw still holds (`Settled`): the slip is reported, the key revoked, the
  conversation there and no older than it was read. That is stable because rows
  stay. Of every call it says that the rows it names exist or are those nobody
  could have (`Named`), which is all that the two may refuse differently.
  Every method then appends a row (`AddBoth`: both stores do or both refuse),
  replaces one (`SetBoth`), does neither (`ReadBoth`, `RefuseBoth`) or, for
  AppendMessage, both, and `PutKeeps` and `ReplaceKeeps` carry the invariant over
  each. What the two then have in common, tables and answer, is `Agree`, shown
  of the methods one by one (`ReadingsAgrees`, `KeyingAgrees`, `OtherWritesAgrees`).
- SameAnswers further needs to know when rows were created (`Dated`): Postgres
  stamps a row no later than memory does, memory stamps them in the order of
  their insertion, and a message is no older than its conversation. The two lists
  of an answer are then sorted by ranks, and the place of a row of one in the
  other is the composition of the two orders (`ListAlike`); a conversation in
  front of its messages shifts it by one (`PrefixedRows`). `Sorted` chooses a
  bijection rather than calling the library's sort, whose results are inductions
  over sequences; that there is one to choose is proved by counting, for each
  row, the rows up to it (`SortedList`).

- `PeriodsInv` adds to InOrder that what has been collected lies before the
  loop's period (`Forward`) and, where midnight is spared, that it is exactly what
  is due before it (`Exact`). The lemmas under it are about time: every
  instant lies in one era of the zone, between two changes (`EraOf`, by a least
  counterexample over the changes); time.Date finds the instant that shows a local
  time, or one in the gap's place (`DateFinds`); a midnight that no change skips is
  where one day ends and the next begins (`Divides`, `SparedMidnights`), so
  the bounds of a period are those of the instants that CurrentPeriod puts in it
  (`BoundsOf`). In any zone the end of a period is later than its start
  (`EndsForward`) and the key found there is not a smaller one, which is all that
  InOrder needs.
- The composition (ComponentsSideBySide): a step of MCAccounts is one of a
  component and leaves the variables of the other three, so the theorems about
  the four components hold of MCAccounts, its type invariant among them.

What stays with TLC: the liveness properties (no ENABLED or fairness in the
prover) and the runs that end in a violation. Every invariant a passing run checks is
proved, OneChargePerPeriod for one key a period.

## 6. What is not modelled, and why

- Enforcement leaves out the nonces of concurrent sends: any pending transaction
  may be dropped and any send refused, which covers the effect. The cause is in
  Penalties.
- The HTTP layer: routing, JSON, CORS, the parsing of uploads and the OpenAPI
  document keep no state. The handlers' calls are modelled in the components
  they serve, and requireAuth in Credentials.
- Configuration and start-up (`internal/config`, most of `cmd/api`): environment
  variables are parsed once, in sequence, into values that never change.
- Web frontend and Android app: screens over the HTTP API. What they keep is
  what the server answered last, and they hold no rule the server does not check.
- Operational scripts, `cmd/livee2e` and `cmd/seedapikey`: run by hand, in sequence.
- Formatting and parsing of amounts, addresses and timestamps; the texts of
  prompts, replies and the skill document; signatures and hashes, which are
  taken to be unforgeable and without collisions.
- That a violation reported in a redelivered Telegram update is a second report:
  OncePerLife says when an update is redelivered, Enforcement that two reports of
  an avoid goal are two charges.
- What the code does and no property forbids. Of two edits of a goal that overlap,
  the later write takes the earlier back, stake and deadline included, and an
  UpdateGoal that overlaps a SetStake to another token leaves the old amount in
  the new token; EditsSurvive and StakeWasCovered exempt them. Of two first logins
  of a wallet that overlap, one may be refused with its nonce consumed. A check-in
  for a period that has ended cancels the miss if it arrives before the scheduler
  looks (MissedPeriodReported exempts it). A check-in stored in time under a second
  key of its week does not count for the scheduler, which looks for the first.
- A code is spent when its request fails between ConsumeTelegramLinkCode and
  UpsertTelegramLink: the user asks for another. The model has the step; no
  property forbids it.
