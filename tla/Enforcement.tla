---------------------------- MODULE Enforcement ----------------------------
(***************************************************************************)
(* The penalty pipeline of the backend: users' check-ins, reports and goal *)
(* edits (service.go), the missed-deadline scheduler (scheduler.go), the   *)
(* violation rows both write (store/memory.go, store/postgres.go) and the  *)
(* penalize transactions they send (web3/enforcer.go).                     *)
(*                                                                         *)
(* A request and a scheduler run are sequences of store and RPC calls; one *)
(* action here is one such call, so that every interleaving of the calls   *)
(* of concurrent requests with the scheduler's is a behaviour.             *)
(***************************************************************************)
EXTENDS Integers

CONSTANTS
  Clients,      \* concurrent HTTP requests, each acting for one user
  Sched,        \* the single scheduler goroutine
  Owns,         \* Owns[c]: the goals whose user_id is the user of client c
  NumGoals,     \* bound: goals ever created; goal n is the n-th created
  Kinds,        \* the goal types in play, a subset of {"do", "avoid"}
  Stakes,       \* stake amounts (positive base units; data, only compared)
  StartTimes,   \* explicit starts_at values a creation may choose
  EndTimes,     \* ends_at values; Forever stands for a NULL ends_at
  MaxTime,      \* bound: the clock stops here
  NumPeriods,   \* bound: the periods of the calendar are 1 .. NumPeriods
  PeriodStart,  \* PeriodStart[p]: first instant of p; p ends where p + 1 starts
  Variants,     \* further spellings of weekly keys (see PeriodOf); none of daily ones
  ReadAs,       \* ReadAs[k]: the period that PeriodBounds takes variant k for
  MaxRows,      \* bound: violation rows ever inserted
  MaxTxs,       \* bound: penalize transactions ever broadcast
  Faults,       \* the kinds of fault that may happen (see FaultKinds)
  MaxFaults     \* bound: how many faults happen

Callers == Clients \union {Sched}
Goals   == 1 .. NumGoals
Periods == 1 .. NumPeriods
Time    == 0 .. MaxTime
Rows    == 1 .. MaxRows
Hashes  == 1 .. MaxTxs
None    == 0                 \* no goal, period, row or transaction hash
Never   == -1                \* no check-in stored
Forever == MaxTime + 1

PeriodEnd(p) == PeriodStart[p + 1]

\* A period key is a string, and keys are compared as strings. CurrentPeriod
\* writes one key for each period, which stands for the period here. PeriodBounds
\* reads more: a weekly key is scanned by Sscanf and then only measured, so that
\* besides "2026-W05" also "2026-W5x", "2026-W+5", "2026-W 5" and "2026-W5 " are
\* keys of that week. A daily key and a week of two digits have one spelling.
Keys == Periods \union Variants
PeriodOf(k) == IF k \in Periods THEN k ELSE ReadAs[k]

\* disconnect: the request context of a client is cancelled; shutdown: SIGTERM
\* cancels the scheduler's context; crash: the process dies; store: a database
\* call fails, with or without its effect; rpc: a transaction is broadcast but
\* the answer is lost; drop: a broadcast transaction is never mined.
FaultKinds == {"disconnect", "shutdown", "crash", "store", "rpc", "drop"}

ASSUME ConstantsAssumption ==
  /\ Sched \notin Clients
  /\ NumGoals \in Nat /\ MaxTime \in Nat /\ NumPeriods \in Nat
  /\ MaxRows \in Nat /\ MaxTxs \in Nat /\ MaxFaults \in Nat
  /\ Owns \in [Clients -> SUBSET Goals]
  /\ Kinds \subseteq {"do", "avoid"}
  /\ Stakes \subseteq Nat \ {0}
  /\ StartTimes \subseteq Time
  /\ EndTimes \subseteq Time \union {Forever}
  /\ PeriodStart \in [1 .. (NumPeriods + 1) -> Nat]
  /\ \A p \in Periods : PeriodStart[p] < PeriodStart[p + 1]
  /\ Variants \intersect (Periods \union {None}) = {}
  /\ ReadAs \in [Variants -> Periods]
  /\ Faults \subseteq FaultKinds

VARIABLES
  now,          \* the wall clock
  goals,        \* table goals
  checkIns,     \* table check_ins: when the row of (goal, period key) was stored
  violations,   \* table violations
  txs,          \* penalize transactions known to the chain or its mempool
  calls,        \* per caller: the store or RPC call its handler is about to make
  ctx,          \* per caller: "live", or "done" once its context is cancelled
  sched,        \* the scheduler's loop
  budget        \* faults left

store == <<goals, checkIns, violations>>
vars  == <<now, goals, checkIns, violations, txs, calls, ctx, sched, budget>>

-----------------------------------------------------------------------------
(* Types                                                                   *)

\* kind "none": the goal is not created yet.
Goal == [kind: {"none", "do", "avoid"}, stake: Stakes \union {0}, startsAt: Time,
         endsAt: Time \union {Forever}, archived: BOOLEAN]
NoGoal == [kind |-> "none", stake |-> 0, startsAt |-> 0, endsAt |-> Forever,
           archived |-> FALSE]

\* status "none": no such row. keyed: dedupe_key is not NULL, so that the
\* unique index (the map violationKey of the memory store) covers the row.
Row == [goal: Goals \union {None}, period: Keys \union {None}, keyed: BOOLEAN,
        status: {"none", "pending", "charged", "failed"}, amount: Stakes \union {0},
        reason: {"missed deadline", "reported"}, hash: Hashes \union {None}]
NoRow == [goal |-> None, period |-> None, keyed |-> FALSE, status |-> "none",
          amount |-> 0, reason |-> "reported", hash |-> None]

\* state "none": never broadcast. for: the violation it was sent for, a history
\* field; the contract call itself carries only wallet, token and amount.
Tx == [for: Rows \union {None}, amount: Stakes \union {0},
       state: {"none", "pending", "success", "reverted", "dropped"}]
NoTx == [for |-> None, amount |-> 0, state |-> "none"]

\* What a handler holds in local variables between two calls. GetGoal is behind
\* it; at names the call it is about to make:
\*   checkin  UpsertCheckIn               write  UpdateGoal
\*   insert   CreateViolation[IfAbsent]   wait   WaitMined
\*   charge   GetUser, then the sending half of Penalize
\*   update   UpdateViolation
Call == [at: {"idle", "checkin", "write", "insert", "charge", "wait", "update"},
         goal: Goals \union {None}, period: Keys \union {None},
         kind: {"none", "do", "avoid"}, stake: Stakes \union {0},
         endsAt: Time \union {Forever},
         reason: {"missed deadline", "reported"}, row: Rows \union {None},
         hash: Hashes \union {None}, status: {"charged", "failed"}]
Idle == [at |-> "idle", goal |-> None, period |-> None, kind |-> "none",
         stake |-> 0, endsAt |-> Forever, reason |-> "reported", row |-> None,
         hash |-> None, status |-> "failed"]

\* at: idle (waiting for the ticker), list (about to ListActiveGoals), scan
\* (about to GetCheckIn), owner (about to enter ReportViolation), report (inside
\* it). todo: the (goal, period) pairs this run has still to examine.
SchedState == [at: {"idle", "list", "scan", "owner", "report"}, tick: Time,
               todo: SUBSET (Goals \X Periods)]
IdleSched == [at |-> "idle", tick |-> 0, todo |-> {}]

TypeOK ==
  /\ now \in Time
  /\ goals \in [Goals -> Goal]
  /\ checkIns \in [Goals \X Keys -> Time \union {Never}]
  /\ violations \in [Rows -> Row]
  /\ txs \in [Hashes -> Tx]
  /\ calls \in [Callers -> Call]
  /\ ctx \in [Callers -> {"live", "done"}]
  /\ sched \in SchedState
  /\ budget \in 0 .. MaxFaults

Init ==
  /\ now = 0
  /\ goals = [g \in Goals |-> NoGoal]
  /\ checkIns = [d \in Goals \X Keys |-> Never]
  /\ violations = [v \in Rows |-> NoRow]
  /\ txs = [h \in Hashes |-> NoTx]
  /\ calls = [c \in Callers |-> Idle]
  /\ ctx = [c \in Callers |-> "live"]
  /\ sched = IdleSched
  /\ budget = MaxFaults

-----------------------------------------------------------------------------
(* Calls, answers and faults                                               *)

Fault(kind) == kind \in Faults /\ budget > 0 /\ budget' = budget - 1

\* A database call may fail once the context of its caller is cancelled (pgx
\* refuses or interrupts it; the memory store ignores the context), or because
\* the database does.
StoreFault(c) == \/ ctx[c] = "done" /\ UNCHANGED budget
                 \/ Fault("store")

\* The effect of a database call took place; ok says whether its caller knows.
Acked(c, ok) == IF ok THEN UNCHANGED budget ELSE StoreFault(c)

Goto(c, call) == calls' = [calls EXCEPT ![c] = call] /\ UNCHANGED <<ctx, sched>>

\* The handler returns. The scheduler goes on with the next pair when
\* ReportViolation succeeded and aborts the whole run when it did not.
Return(c, ok) ==
  /\ calls' = [calls EXCEPT ![c] = Idle]
  /\ IF c = Sched
       THEN /\ UNCHANGED ctx
            /\ sched' = IF ok
                 THEN [sched EXCEPT !.at = "scan",
                         !.todo = @ \ {<<calls[c].goal, calls[c].period>>}]
                 ELSE IdleSched
       ELSE ctx' = [ctx EXCEPT ![c] = "live"] /\ UNCHANGED sched

\* The handler returns an error: a call of its own failed without effect.
CallFails(c) ==
  /\ calls[c].at \in {"checkin", "write", "insert", "charge", "update"}
  /\ StoreFault(c)
  /\ Return(c, FALSE)
  /\ UNCHANGED <<now, goals, checkIns, violations, txs>>

-----------------------------------------------------------------------------
(* Goals and check-ins                                                     *)

\* The allowance check of creation and update is data here: it decides which
\* stakes get through, and any stake of Stakes may.
CreateGoal(g) ==
  /\ goals[g].kind = "none"
  /\ \A f \in Goals : f < g => goals[f].kind # "none"
  /\ \E kind \in Kinds, stake \in Stakes, start \in StartTimes \union {now}, end \in EndTimes :
       goals' = [goals EXCEPT ![g] =
         [kind |-> kind, stake |-> stake, startsAt |-> start, endsAt |-> end,
          archived |-> FALSE]]
  /\ UNCHANGED <<now, checkIns, violations, txs, calls, ctx, sched, budget>>

\* A new request reaches a server that is not shutting down.
Serves(c) == calls[c].at = "idle" /\ ctx[Sched] = "live"

\* requireGoalOwner succeeds.
IsActive(g) == goals[g].kind # "none" /\ ~goals[g].archived
MayUse(c, g) == g \in Owns[c] /\ IsActive(g)

\* UpdateGoal and SetStake read the goal, and write it back in a later call.
BeginGoalUpdate(c, g) ==
  /\ Serves(c) /\ MayUse(c, g)
  /\ \E stake \in Stakes, end \in EndTimes :
       Goto(c, [Idle EXCEPT !.at = "write", !.goal = g, !.stake = stake, !.endsAt = end])
  /\ UNCHANGED <<now, store, txs, budget>>

WriteGoal(c, ok) ==
  /\ calls[c].at = "write"
  /\ Acked(c, ok)
  /\ goals' = [goals EXCEPT ![calls[c].goal].stake = calls[c].stake,
                            ![calls[c].goal].endsAt = calls[c].endsAt]
  /\ Return(c, ok)
  /\ UNCHANGED <<now, checkIns, violations, txs>>

ArchiveGoal(g) ==
  /\ IsActive(g)
  /\ goals' = [goals EXCEPT ![g].archived = TRUE]
  /\ UNCHANGED <<now, checkIns, violations, txs, calls, ctx, sched, budget>>

\* resolvePeriod returns an explicit key as it was spelt, once PeriodBounds has
\* read it, or the key of the current period: any key of any period of the
\* calendar, past or future.
BeginCheckIn(c, g, k) ==
  /\ Serves(c) /\ MayUse(c, g)
  /\ Goto(c, [Idle EXCEPT !.at = "checkin", !.goal = g, !.period = k])
  /\ UNCHANGED <<now, store, txs, budget>>

\* A second check-in under the same key only replaces the note.
UpsertCheckIn(c, ok) ==
  LET d == <<calls[c].goal, calls[c].period>>
  IN  /\ calls[c].at = "checkin"
      /\ Acked(c, ok)
      /\ checkIns' = [checkIns EXCEPT ![d] = IF @ = Never THEN now ELSE @]
      /\ Return(c, ok)
      /\ UNCHANGED <<now, goals, violations, txs>>

-----------------------------------------------------------------------------
(* ReportViolation                                                         *)

\* The goal is read once: kind and stake below are this snapshot's.
Reporting(g, k, reason) ==
  [Idle EXCEPT !.at = "insert", !.goal = g, !.period = k, !.reason = reason,
               !.kind = goals[g].kind, !.stake = goals[g].stake]

BeginReport(c, g, k) ==
  /\ Serves(c) /\ MayUse(c, g)
  /\ Goto(c, Reporting(g, k, "reported"))
  /\ UNCHANGED <<now, store, txs, budget>>

NewRow(call) ==
  [goal |-> call.goal, period |-> call.period, keyed |-> call.kind = "do",
   status |-> "pending", amount |-> call.stake, reason |-> call.reason,
   hash |-> None]

\* Mutant of Conflicts: only settled rows are taken for duplicates.
ConflictsSettledOnly(call) ==
  /\ call.kind = "do"
  /\ \E v \in Rows : /\ violations[v].status \in {"charged", "failed"}
                     /\ violations[v].goal = call.goal
                     /\ violations[v].period = call.period

\* The unique index refuses a second keyed row of a (goal, period key).
Conflicts(call) ==
  /\ call.kind = "do"
  /\ \E v \in Rows : /\ violations[v].status # "none" /\ violations[v].keyed
                     /\ violations[v].goal = call.goal
                     /\ violations[v].period = call.period

Exists(v)  == violations[v].status # "none"
Settled(v) == violations[v].status \in {"charged", "failed"}
Sent(h)    == txs[h].state # "none"

\* Row ids and transaction hashes are numbered in the order they come to be.
NextRow(v) == ~Exists(v) /\ \A w \in Rows : w < v => Exists(w)
NextTx(h)  == ~Sent(h) /\ \A k \in Hashes : k < h => Sent(k)

\* Mutant of CreateViolation: the row a conflict returns is charged as if it had
\* just been created.
CreateViolationRecharges(c, ok) ==
  /\ calls[c].at = "insert"
  /\ Acked(c, ok)
  /\ \E v \in Rows :
       /\ IF Conflicts(calls[c])
            THEN /\ Exists(v) /\ violations[v].goal = calls[c].goal
                 /\ violations[v].period = calls[c].period
                 /\ UNCHANGED violations
            ELSE NextRow(v) /\ violations' = [violations EXCEPT ![v] = NewRow(calls[c])]
       /\ IF ok THEN Goto(c, [calls[c] EXCEPT !.at = "charge", !.row = v])
                ELSE Return(c, FALSE)
  /\ UNCHANGED <<now, goals, checkIns, txs>>

\* Mutant of CreateViolation: a conflict overwrites the existing row with the new
\* report (ON CONFLICT DO UPDATE).
CreateViolationUpserts(c, ok) ==
  /\ calls[c].at = "insert"
  /\ Acked(c, ok)
  /\ \E v \in Rows :
       /\ IF Conflicts(calls[c])
            THEN /\ Exists(v) /\ violations[v].goal = calls[c].goal
                 /\ violations[v].period = calls[c].period
            ELSE NextRow(v)
       /\ violations' = [violations EXCEPT ![v] = NewRow(calls[c])]
       /\ IF ok /\ ~Conflicts(calls[c])
            THEN Goto(c, [calls[c] EXCEPT !.at = "charge", !.row = v])
            ELSE Return(c, ok)
  /\ UNCHANGED <<now, goals, checkIns, txs>>

\* A conflict returns the existing row as it is, and the report ends there.
CreateViolation(c, ok) ==
  /\ calls[c].at = "insert"
  /\ Acked(c, ok)
  /\ \/ /\ Conflicts(calls[c])
        /\ Return(c, ok)
        /\ UNCHANGED violations
     \/ /\ ~Conflicts(calls[c])
        /\ \E v \in Rows :
             /\ NextRow(v)
             /\ violations' = [violations EXCEPT ![v] = NewRow(calls[c])]
             /\ IF ok THEN Goto(c, [calls[c] EXCEPT !.at = "charge", !.row = v])
                      ELSE Return(c, FALSE)
  /\ UNCHANGED <<now, goals, checkIns, txs>>

\* Penalize hands its result to UpdateViolation.
Outcome(c, status, hash) ==
  Goto(c, [calls[c] EXCEPT !.at = "update", !.status = status, !.hash = hash])

\* Mutant of Broadcast: the stake is read again from the goal.
BroadcastCurrentStake(c, h) ==
  /\ NextTx(h)
  /\ txs' = [txs EXCEPT ![h] =
       [for |-> calls[c].row, amount |-> goals[calls[c].goal].stake, state |-> "pending"]]

Broadcast(c, h) ==
  /\ NextTx(h)
  /\ txs' = [txs EXCEPT ![h] =
       [for |-> calls[c].row, amount |-> calls[c].stake, state |-> "pending"]]

\* Nothing is sent: invalid input, no chain id, a gas estimate that reverts
\* (allowance or balance gone), a cancelled context, or no enforcer configured.
RefuseTransact(c) ==
  /\ calls[c].at = "charge"
  /\ Outcome(c, "failed", None)
  /\ UNCHANGED <<now, store, txs, budget>>

Transact(c) ==
  /\ calls[c].at = "charge"
  /\ \E h \in Hashes :
       Broadcast(c, h) /\ Goto(c, [calls[c] EXCEPT !.at = "wait", !.hash = h])
  /\ UNCHANGED <<now, store, budget>>

\* Mutant of TransactUnanswered: a lost answer is retried.
TransactUnansweredRetries(c) ==
  /\ calls[c].at = "charge"
  /\ \/ ctx[c] = "done" /\ UNCHANGED budget
     \/ Fault("rpc")
  /\ \E h \in Hashes : Broadcast(c, h)
  /\ UNCHANGED <<now, store, calls, ctx, sched>>

\* The node accepts the transaction and the answer does not arrive.
TransactUnanswered(c) ==
  /\ calls[c].at = "charge"
  /\ \/ ctx[c] = "done" /\ UNCHANGED budget
     \/ Fault("rpc")
  /\ \E h \in Hashes : Broadcast(c, h)
  /\ Outcome(c, "failed", None)
  /\ UNCHANGED <<now, store>>

\* Mutant of WaitMined: the status of the receipt is not looked at.
WaitMinedAnyReceipt(c) ==
  /\ calls[c].at = "wait"
  /\ \/ /\ txs[calls[c].hash].state \in {"success", "reverted"}
        /\ Outcome(c, "charged", calls[c].hash)
     \/ ctx[c] = "done" /\ Outcome(c, "failed", calls[c].hash)
  /\ UNCHANGED <<now, store, txs, budget>>

\* Mutant of WaitMined: a transaction that was sent is taken for mined when the
\* wait for it is cut short.
WaitMinedOptimistic(c) ==
  /\ calls[c].at = "wait"
  /\ \/ txs[calls[c].hash].state = "reverted" /\ Outcome(c, "failed", calls[c].hash)
     \/ txs[calls[c].hash].state = "success" /\ Outcome(c, "charged", calls[c].hash)
     \/ ctx[c] = "done" /\ Outcome(c, "charged", calls[c].hash)
  /\ UNCHANGED <<now, store, txs, budget>>

\* WaitMined polls until there is a receipt; only its context can end it earlier.
WaitMined(c) ==
  /\ calls[c].at = "wait"
  /\ \/ txs[calls[c].hash].state = "success" /\ Outcome(c, "charged", calls[c].hash)
     \/ txs[calls[c].hash].state = "reverted" /\ Outcome(c, "failed", calls[c].hash)
     \/ ctx[c] = "done" /\ Outcome(c, "failed", calls[c].hash)
  /\ UNCHANGED <<now, store, txs, budget>>

\* Mutant of UpdateViolation: only successful charges are recorded.
UpdateViolationOnSuccess(c, ok) ==
  /\ calls[c].at = "update"
  /\ Acked(c, ok)
  /\ IF calls[c].status = "charged"
       THEN violations' = [violations EXCEPT ![calls[c].row].status = "charged",
                                           ![calls[c].row].hash = calls[c].hash]
       ELSE UNCHANGED violations
  /\ Return(c, ok /\ calls[c].status = "charged")
  /\ UNCHANGED <<now, goals, checkIns, txs>>

UpdateViolation(c, ok) ==
  /\ calls[c].at = "update"
  /\ Acked(c, ok)
  /\ violations' = [violations EXCEPT ![calls[c].row].status = calls[c].status,
                                      ![calls[c].row].hash = calls[c].hash]
  /\ Return(c, ok /\ calls[c].status = "charged")
  /\ UNCHANGED <<now, goals, checkIns, txs>>

-----------------------------------------------------------------------------
(* The scheduler                                                           *)

\* Mutant of Tick: the tick is rounded up.
TickRoundedUp ==
  /\ sched.at = "idle" /\ ctx[Sched] = "live"
  /\ sched' = [sched EXCEPT !.at = "list", !.tick = now + 1]
  /\ UNCHANGED <<now, store, txs, calls, ctx, budget>>

Tick ==
  /\ sched.at = "idle" /\ ctx[Sched] = "live"
  /\ sched' = [sched EXCEPT !.at = "list", !.tick = now]
  /\ UNCHANGED <<now, store, txs, calls, ctx, budget>>

\* Mutant of CompletedPeriods: the running period counts as completed.
CompletedPeriodsRunning(goal, t) ==
  {p \in Periods : /\ PeriodEnd(p) > goal.startsAt
                   /\ PeriodStart[p] <= t
                   /\ PeriodStart[p] < goal.endsAt}

\* Mutant of CompletedPeriods: only the period that ends at the tick.
CompletedPeriodsLatest(goal, t) ==
  {p \in Periods : /\ PeriodEnd(p) > goal.startsAt
                   /\ PeriodEnd(p) = t
                   /\ PeriodStart[p] < goal.endsAt}

\* completedPeriods with periodIntersectsGoal; module-level because the
\* periods of a pair are a function of the goal as listed and the tick.
CompletedPeriods(goal, t) ==
  {p \in Periods : /\ PeriodEnd(p) > goal.startsAt
                   /\ PeriodEnd(p) <= t
                   /\ PeriodStart[p] < goal.endsAt}

DuePairs(t) ==
  {d \in Goals \X Periods : /\ IsActive(d[1]) /\ goals[d[1]].kind = "do"
                            /\ d[2] \in CompletedPeriods(goals[d[1]], t)}

ListActiveGoals ==
  /\ sched.at = "list"
  /\ sched' = [at |-> "scan", tick |-> 0, todo |-> DuePairs(sched.tick)]
  /\ UNCHANGED <<now, store, txs, calls, ctx, budget>>

\* Goals in the order of their creation, the periods of each in time order.
First(d) == \A e \in sched.todo : \/ d[1] < e[1]
                                  \/ d[1] = e[1] /\ d[2] <= e[2]

GetCheckIn ==
  /\ sched.at = "scan"
  /\ \E d \in sched.todo :
       /\ First(d)
       /\ sched' = IF checkIns[d] # Never
                     THEN [sched EXCEPT !.todo = @ \ {d}]
                     ELSE [sched EXCEPT !.at = "owner"]
  /\ UNCHANGED <<now, store, txs, calls, ctx, budget>>

\* ReportViolation reads the goal again: archived since it was listed, it makes
\* the report an error, and the error ends the run.
ReportMissed ==
  /\ sched.at = "owner"
  /\ \E d \in sched.todo :
       /\ First(d)
       /\ IF IsActive(d[1])
            THEN /\ calls' = [calls EXCEPT ![Sched] = Reporting(d[1], d[2], "missed deadline")]
                 /\ sched' = [sched EXCEPT !.at = "report"]
            ELSE /\ sched' = IdleSched
                 /\ UNCHANGED calls
  /\ UNCHANGED <<now, store, txs, ctx, budget>>

EndRun ==
  /\ sched.at = "scan" /\ sched.todo = {}
  /\ sched' = IdleSched
  /\ UNCHANGED <<now, store, txs, calls, ctx, budget>>

\* ListActiveGoals, GetCheckIn or GetGoal fails, which ends the run.
RunFails ==
  /\ sched.at \in {"list", "scan", "owner"}
  /\ StoreFault(Sched)
  /\ sched' = IdleSched
  /\ UNCHANGED <<now, store, txs, calls, ctx>>

-----------------------------------------------------------------------------
(* The environment                                                         *)

Clock ==
  /\ now < MaxTime
  /\ now' = now + 1
  /\ UNCHANGED <<store, txs, calls, ctx, sched, budget>>

\* A mined transaction burned the amount or reverted.
Mine(h) ==
  /\ txs[h].state = "pending"
  /\ \E state \in {"success", "reverted"} : txs' = [txs EXCEPT ![h].state = state]
  /\ UNCHANGED <<now, store, calls, ctx, sched, budget>>

\* Evicted from the mempool, or replaced by a transaction of the same nonce.
Drop(h) ==
  /\ txs[h].state = "pending"
  /\ Fault("drop")
  /\ txs' = [txs EXCEPT ![h].state = "dropped"]
  /\ UNCHANGED <<now, store, calls, ctx, sched>>

Disconnect(c) ==
  /\ calls[c].at # "idle" /\ ctx[c] = "live"
  /\ Fault("disconnect")
  /\ ctx' = [ctx EXCEPT ![c] = "done"]
  /\ UNCHANGED <<now, store, txs, calls, sched>>

Shutdown ==
  /\ ctx[Sched] = "live"
  /\ Fault("shutdown")
  /\ ctx' = [ctx EXCEPT ![Sched] = "done"]
  /\ UNCHANGED <<now, store, txs, calls, sched>>

\* What every handler held is gone; rows and transactions stay.
Restarted ==
  /\ calls' = [c \in Callers |-> Idle]
  /\ ctx' = [c \in Callers |-> "live"]
  /\ sched' = IdleSched
  /\ UNCHANGED <<now, store, txs>>

Crash == Fault("crash") /\ Restarted

\* The process a SIGTERM ended, at whatever call it then was, is started again.
Restart == ctx[Sched] = "done" /\ Restarted /\ UNCHANGED budget

-----------------------------------------------------------------------------

\* The rest of a handler once it has begun.
Proceed(c) ==
  \/ \E ok \in BOOLEAN : \/ WriteGoal(c, ok) \/ UpsertCheckIn(c, ok)
                         \/ CreateViolation(c, ok) \/ UpdateViolation(c, ok)
  \/ RefuseTransact(c) \/ Transact(c) \/ TransactUnanswered(c) \/ WaitMined(c)
  \/ CallFails(c)

Request(c) ==
  \E g \in Goals : \/ BeginGoalUpdate(c, g)
                   \/ \E k \in Keys : BeginCheckIn(c, g, k) \/ BeginReport(c, g, k)

SchedStep == Tick \/ ListActiveGoals \/ GetCheckIn \/ ReportMissed \/ EndRun \/ RunFails

Environment ==
  \/ Clock \/ Shutdown \/ Crash \/ Restart
  \/ \E h \in Hashes : Mine(h) \/ Drop(h)
  \/ \E c \in Clients : Disconnect(c)

Next ==
  \/ \E g \in Goals : CreateGoal(g) \/ ArchiveGoal(g)
  \/ \E c \in Clients : Request(c)
  \/ \E c \in Callers : Proceed(c)
  \/ SchedStep
  \/ Environment

Spec == Init /\ [][Next]_vars

\* Goroutines that can run do run, a pending transaction is eventually mined
\* (unless it is dropped), a terminated process is started again. Users,
\* clock and faults are under no obligation.
Fairness ==
  /\ \A c \in Callers : WF_vars(Proceed(c))
  /\ WF_vars(SchedStep)
  /\ \A h \in Hashes : WF_vars(Mine(h))
  /\ WF_vars(Restart)

FairSpec == Spec /\ Fairness
-----------------------------------------------------------------------------
(* Properties                                                              *)

Burned(v)   == \E h \in Hashes : txs[h].for = v /\ txs[h].state = "success"
InCharge(v) == \E c \in Callers : /\ calls[c].at \in {"charge", "wait", "update"}
                                  /\ calls[c].row = v

\* No double charge: however reports of clients and runs of the scheduler
\* interleave, crash, fail and are repeated, no two penalize transactions are
\* ever sent for one violation, nor for one period key of a do goal
\* (scheduler.go:41-43 relies on it). A period with several keys is another
\* matter, see OneChargePerPeriod.
NoDoubleCharge ==
  \A h, k \in Hashes : Sent(h) /\ Sent(k) /\ h # k =>
    LET a == violations[txs[h].for]
        b == violations[txs[k].for]
    IN  /\ txs[h].for # txs[k].for
        /\ a.keyed /\ b.keyed => <<a.goal, a.period>> # <<b.goal, b.period>>

\* A transaction takes exactly the amount recorded in the violation it was sent
\* for, although SetStake and UpdateGoal may change the goal's stake between
\* any two calls of the report.
ChargesRecordedAmount ==
  \A h \in Hashes : Sent(h) => /\ Exists(txs[h].for)
                              /\ txs[h].amount = violations[txs[h].for].amount

\* A violation shown as charged is backed by its own mined, successful
\* transaction, whose hash it shows.
ChargedMeansBurned ==
  \A v \in Rows : violations[v].status = "charged" =>
    \E h \in Hashes : /\ h = violations[v].hash /\ txs[h].for = v
                      /\ txs[h].state = "success"

\* A violation, and a period of a do goal, is charged at most once, whatever key
\* the reports of the period give it (period.go:9-10 "the unit of uniqueness for
\* check-ins and violations"). It holds where each period has one key.
OneChargePerPeriod ==
  \A h, k \in Hashes : Sent(h) /\ Sent(k) /\ h # k =>
    LET a == violations[txs[h].for]
        b == violations[txs[k].for]
    IN  /\ txs[h].for # txs[k].for
        /\ a.keyed /\ b.keyed => <<a.goal, PeriodOf(a.period)>> # <<b.goal, PeriodOf(b.period)>>

\* No check-in of goal g under key k was stored before the period ended.
NoneInTime(g, k) ==
  checkIns[g, k] = Never \/ checkIns[g, k] >= PeriodEnd(PeriodOf(k))

\* The scheduler penalizes only periods that are over and have no check-in, in
\* time, under the key it looks for, whatever happens to check-ins, goals,
\* deadlines and the clock between the calls of a run.
MissedDeadlineIsReal ==
  \A v \in Rows : Exists(v) /\ violations[v].reason = "missed deadline" =>
    /\ PeriodEnd(PeriodOf(violations[v].period)) <= now
    /\ NoneInTime(violations[v].goal, violations[v].period)

\* When no call is cut short, the ledger agrees with the chain: a row nobody is
\* charging any more is settled, and it is charged exactly if its stake burned.
LedgerMatchesChain ==
  \A v \in Rows : Exists(v) /\ ~InCharge(v) =>
    Settled(v) /\ (violations[v].status = "charged" <=> Burned(v))

\* Once written, a violation keeps its goal, period, amount and reason, and is
\* settled at most once: a settled row is never reopened or rewritten by a
\* repeated report, a retry or a later scheduler run.
RowsOnlySettle ==
  [][\A v \in Rows : Exists(v) =>
       \/ violations'[v] = violations[v]
       \/ /\ ~Settled(v) /\ Settled(v)'
          /\ violations'[v] = [violations[v] EXCEPT !.status = violations'[v].status,
                                                   !.hash = violations'[v].hash]]_vars

\* The pipeline implements the abstract ledger: rows are its debts, successful
\* transactions its payments.
Ledger == INSTANCE PenaltyLedger WITH
  Debts    <- Rows,
  Payments <- Hashes,
  Amounts  <- Stakes \union {0},
  debts    <- [v \in Rows |-> [goal |-> violations[v].goal, period |-> violations[v].period,
                              keyed |-> violations[v].keyed, amount |-> violations[v].amount,
                              status |-> violations[v].status]],
  payments <- {[id |-> h, debt |-> txs[h].for, amount |-> txs[h].amount] :
                 h \in {k \in Hashes : txs[k].state = "success"}}

\* Every step of every handler, scheduler run, node and fault is a step of the
\* ledger or leaves it alone: a stake is owed, paid at most once at the amount
\* recorded, and declared charged only after it was paid.
ImplementsLedger == Ledger!LedgerSpec

\* Period p, in which the active do goal g had to be attended to, is over.
Over(g, p) == /\ IsActive(g) /\ goals[g].kind = "do"
              /\ goals[g].startsAt < PeriodEnd(p) /\ PeriodEnd(p) <= now
              /\ PeriodStart[p] < goals[g].endsAt
Recorded(g, p) == \E v \in Rows : /\ Exists(v) /\ violations[v].keyed
                                  /\ violations[v].goal = g /\ violations[v].period = p

\* The scheduler gets to every missed period: it ends up with a violation,
\* unless the user archives the goal, moves its end or checks in before the
\* scheduler looks (scheduler.go:41).
MissedPeriodReported ==
  \A g \in Goals, p \in Periods :
    Over(g, p) /\ checkIns[g, p] = Never ~>
      Recorded(g, p) \/ checkIns[g, p] # Never \/ ~Over(g, p)

\* A pending violation is settled by the handler that inserted it, whoever that
\* is and whatever the others do, as long as nothing fails on the way.
UndisturbedSettles ==
  \A v \in Rows : violations[v].status = "pending" ~> Settled(v) \/ budget < MaxFaults

\* A pending violation does not stay pending, whatever fails (enums.go:51-54).
PendingSettles ==
  \A v \in Rows : violations[v].status = "pending" ~> Settled(v)

\* A violation marked failed took no money (README PENALTY-01, "else tx fails").
FailedMeansNotBurned ==
  \A v \in Rows : violations[v].status = "failed" => ~Burned(v)
=============================================================================
