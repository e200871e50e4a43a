---------------------------- MODULE LedgerProofs ----------------------------
(***************************************************************************)
(* The pipeline implements PenaltyLedger, and rows are only ever settled.  *)
(* Both follow from what one step can do to rows and successful            *)
(* transactions, which ChargeInv bounds to four cases.                     *)
(***************************************************************************)
EXTENDS EnforcementProofs

\* Rows and successful transactions stay as they are.
Quiet ==
  /\ UNCHANGED violations
  /\ \A h \in Hashes : \/ txs'[h] = txs[h]
                       \/ txs[h].state # "success" /\ txs'[h].state # "success"

\* A row is inserted, past the unique index if it is keyed.
Inserts(c, v) ==
  /\ ~Exists(v)
  /\ calls[c].goal \in Goals /\ calls[c].period \in Keys
  /\ calls[c].stake \in Stakes \union {0}
  /\ ~Conflicts(calls[c])
  /\ violations' = [violations EXCEPT ![v] = NewRow(calls[c])]
  /\ UNCHANGED txs

\* A pending row is settled, as charged only if its transaction succeeded.
Settles(v, status, hash) ==
  /\ violations[v].status = "pending"
  /\ status = "charged" => Burned(v)
  /\ violations' = [violations EXCEPT ![v] =
       [violations[v] EXCEPT !.status = status, !.hash = hash]]
  /\ UNCHANGED txs

\* A transaction of a row is mined and burns its amount.
Burns(h) ==
  /\ txs[h].state = "pending"
  /\ txs' = [txs EXCEPT ![h].state = "success"]
  /\ UNCHANGED violations

LEMMA Effects ==
  ASSUME TypeInv, ChargeInv, [Next]_vars
  PROVE  \/ Quiet
         \/ \E c \in Callers, v \in Rows : Inserts(c, v)
         \/ \E v \in Rows, status \in {"charged", "failed"}, hash \in Hashes \union {None} :
              Settles(v, status, hash)
         \/ \E h \in Hashes : Burns(h)
<1>1. ASSUME UNCHANGED <<violations, txs>> PROVE Quiet
  BY <1>1 DEF Quiet
<1>2. ASSUME NEW c \in Callers, NEW ok \in BOOLEAN, CreateViolation(c, ok)
      PROVE  Quiet \/ \E v \in Rows : Inserts(c, v)
  <2>1. calls[c] \in Call /\ calls[c].goal \in Goals /\ calls[c].period \in Keys
    BY <1>2 DEF CreateViolation, TypeInv, TypeOK, Filled, CallFilled
  <2>2. calls[c].stake \in Stakes \union {0}
    BY <2>1 DEF Call
  <2> QED
    BY <1>1, <1>2, <2>1, <2>2 DEF CreateViolation, Inserts, NextRow
<1>3. ASSUME NEW c \in Callers, NEW ok \in BOOLEAN, UpdateViolation(c, ok)
      PROVE  \E v \in Rows, status \in {"charged", "failed"}, hash \in Hashes \union {None} :
               Settles(v, status, hash)
  <2> DEFINE v == calls[c].row
  <2>1. calls[c].at = "update" /\ calls[c] \in Call /\ v \in Rows /\ UNCHANGED txs
    BY <1>3 DEF UpdateViolation, Charging, TypeInv, TypeOK, Filled, CallFilled
  <2>2. violations' = [violations EXCEPT ![v] =
          [violations[v] EXCEPT !.status = calls[c].status, !.hash = calls[c].hash]]
    BY <1>3, <2>1 DEF UpdateViolation, TypeInv, TypeOK
  <2>3. calls[c].status \in {"charged", "failed"} /\ calls[c].hash \in Hashes \union {None}
    BY <2>1 DEF Call
  <2>4. violations[v].status = "pending"
    BY <2>1 DEF ChargeInv, HoldsPending, Charging
  <2>5. calls[c].status = "charged" => Burned(v)
    BY <2>1 DEF ChargeInv, AfterTransact, Burned
  <2> QED
    BY <2>1, <2>2, <2>3, <2>4, <2>5 DEF Settles
<1>4. ASSUME NEW c \in Callers, NEW h \in Hashes, Broadcast(c, h), UNCHANGED violations
      PROVE  Quiet
  BY <1>4 DEF Broadcast, NextTx, Sent, Quiet, TypeInv, TypeOK
<1>5. ASSUME NEW h \in Hashes, Mine(h) \/ Drop(h) PROVE Quiet \/ Burns(h)
  <2>1. txs[h] \in Tx /\ txs[h].state = "pending" /\ UNCHANGED violations
    BY <1>5 DEF Mine, Drop, store, TypeInv, TypeOK
  <2>2. PICK state \in {"success", "reverted", "dropped"} : txs' = [txs EXCEPT ![h].state = state]
    BY <1>5 DEF Mine, Drop
  <2>3. CASE state = "success"
    BY <2>1, <2>2, <2>3 DEF Burns
  <2>4. CASE state # "success"
    <3>1. txs'[h].state # "success" /\ \A k \in Hashes : k # h => txs'[k] = txs[k]
      BY <2>1, <2>2, <2>4 DEF Tx, TypeInv, TypeOK
    <3> QED
      BY <2>1, <3>1 DEF Quiet
  <2> QED
    BY <2>3, <2>4
<1>6. ASSUME NEW c \in Callers, Transact(c) \/ TransactUnanswered(c) PROVE Quiet
  BY <1>4, <1>6 DEF Transact, TransactUnanswered, store
<1>7. ASSUME NEW c \in Callers, NEW ok \in BOOLEAN,
             \/ WriteGoal(c, ok) \/ UpsertCheckIn(c, ok) \/ CallFails(c)
             \/ RefuseTransact(c) \/ WaitMined(c)
      PROVE  Quiet
  BY <1>1, <1>7 DEF WriteGoal, UpsertCheckIn, CallFails, RefuseTransact, WaitMined, store
<1>8. ASSUME NEW g \in Goals, CreateGoal(g) \/ ArchiveGoal(g) PROVE Quiet
  BY <1>1, <1>8 DEF CreateGoal, ArchiveGoal
<1>9. ASSUME NEW c \in Clients, Request(c) \/ Disconnect(c) PROVE Quiet
  BY <1>1, <1>9 DEF Request, BeginGoalUpdate, BeginCheckIn, BeginReport, Disconnect, store
<1>10. ASSUME SchedStep PROVE Quiet
  BY <1>1, <1>10
     DEF SchedStep, Tick, ListActiveGoals, GetCheckIn, ReportMissed, EndRun, RunFails, store
<1>11. ASSUME Clock \/ Shutdown \/ Crash \/ Restart \/ UNCHANGED vars PROVE Quiet
  BY <1>1, <1>11 DEF Clock, Shutdown, Crash, Restart, Restarted, store, vars
<1> QED
  BY <1>2, <1>3, <1>5, <1>6, <1>7, <1>8, <1>9, <1>10, <1>11 DEF Next, Proceed, Environment

-----------------------------------------------------------------------------

\* A violation, once written, keeps everything but its status and hash, and
\* those change once.
THEOREM RowsAreOnlySettled == Spec => RowsOnlySettle
<1> DEFINE Rewritten(v) ==
      \/ violations'[v] = violations[v]
      \/ /\ ~Settled(v) /\ Settled(v)'
         /\ violations'[v] = [violations[v] EXCEPT !.status = violations'[v].status,
                                                  !.hash = violations'[v].hash]
<1>1. ASSUME TypeInv, ChargeInv, [Next]_vars, NEW v \in Rows, Exists(v) PROVE Rewritten(v)
  <2>1. CASE Quiet
    BY <2>1 DEF Quiet
  <2>2. CASE \E c \in Callers, w \in Rows : Inserts(c, w)
    BY <1>1, <2>2 DEF Inserts, TypeInv, TypeOK
  <2>3. ASSUME NEW w \in Rows, NEW status \in {"charged", "failed"},
               NEW hash \in Hashes \union {None}, Settles(w, status, hash)
        PROVE  Rewritten(v)
    <3>1. violations[w] \in Row /\ \A u \in Rows : u # w => violations'[u] = violations[u]
      BY <1>1, <2>3 DEF Settles, TypeInv, TypeOK
    <3>2. violations'[w] = [violations[w] EXCEPT !.status = status, !.hash = hash]
      BY <1>1, <2>3 DEF Settles, TypeInv, TypeOK
    <3>3. violations'[w].status = status /\ violations'[w].hash = hash
      BY <3>1, <3>2 DEF Row
    <3>4. ~Settled(w) /\ Settled(w)'
      BY <2>3, <3>3 DEF Settles, Settled
    <3> QED
      BY <3>1, <3>2, <3>3, <3>4
  <2>4. CASE \E h \in Hashes : Burns(h)
    BY <2>4 DEF Burns
  <2> QED
    BY <1>1, <2>1, <2>2, <2>3, <2>4, Effects
<1>2. TypeInv /\ ChargeInv /\ [Next]_vars =>
        [\A v \in Rows : Exists(v) => Rewritten(v)]_vars
  BY <1>1
<1> QED
  BY <1>2, ChargeAlways, PTL DEF Spec, RowsOnlySettle

-----------------------------------------------------------------------------
(* Refinement                                                              *)

\* The right-hand sides of the refinement mapping, by name.
DebtOf(v) == [goal |-> violations[v].goal, period |-> violations[v].period,
              keyed |-> violations[v].keyed, amount |-> violations[v].amount,
              status |-> violations[v].status]
DebtMap == [v \in Rows |-> DebtOf(v)]
PaymentOf(h) == [id |-> h, debt |-> txs[h].for, amount |-> txs[h].amount]
PaymentSet == {PaymentOf(h) : h \in {k \in Hashes : txs[k].state = "success"}}

LEMMA MapInit == Init => Ledger!LedgerInit
<1> SUFFICES ASSUME Init PROVE Ledger!LedgerInit
  OBVIOUS
<1>1. \A v \in Rows : violations[v].status = "none"
  BY DEF Init, NoRow
<1>2. \A h \in Hashes : txs[h].state = "none"
  BY DEF Init, NoTx
<1> QED
  BY <1>1, <1>2 DEF Ledger!LedgerInit, Ledger!NoDebts, Ledger!Owed

LEMMA MapQuiet ==
  ASSUME TypeInv, Quiet
  PROVE  UNCHANGED Ledger!ledgerVars
<1>1. DebtMap' = DebtMap
  BY DEF Quiet, DebtMap, DebtOf
<1>2. PaymentSet' = PaymentSet
  BY DEF Quiet, PaymentSet, PaymentOf
<1> QED
  BY <1>1, <1>2 DEF Ledger!ledgerVars, DebtMap, DebtOf, PaymentSet, PaymentOf

LEMMA MapInserts ==
  ASSUME TypeInv, NEW c \in Callers, NEW v \in Rows, Inserts(c, v)
  PROVE  Ledger!Owe(v)
<1> DEFINE debt == [goal |-> calls[c].goal, period |-> calls[c].period,
                    keyed |-> calls[c].kind = "do", amount |-> calls[c].stake,
                    status |-> "pending"]
<1>1. violations'[v] = NewRow(calls[c]) /\ \A w \in Rows : w # v => violations'[w] = violations[w]
  BY DEF Inserts, TypeInv, TypeOK
<1>2. DebtMap' = [DebtMap EXCEPT ![v] = debt]
  <2>1. DebtOf(v)' = debt
    BY <1>1 DEF DebtOf, NewRow
  <2>2. \A w \in Rows : w # v => DebtOf(w)' = DebtOf(w)
    BY <1>1 DEF DebtOf
  <2> QED
    BY <2>1, <2>2 DEF DebtMap
<1>3. debt \in Ledger!Debt
  BY DEF Inserts, Ledger!Debt
<1>4. debt.status = "pending" /\ debt.goal = calls[c].goal /\ debt.period = calls[c].period
      /\ (debt.keyed <=> calls[c].kind = "do")
  OBVIOUS
<1>5. ~Ledger!Owed(v)
  BY DEF Inserts, Exists, Ledger!Owed
<1>6. debt.keyed => \A e \in Rows :
        Ledger!Owed(e) /\ DebtMap[e].keyed =>
          DebtMap[e].goal # debt.goal \/ DebtMap[e].period # debt.period
  BY <1>4 DEF Inserts, Conflicts, Ledger!Owed, DebtMap, DebtOf
<1>7. PaymentSet' = PaymentSet
  BY DEF Inserts, PaymentSet, PaymentOf
<1> HIDE DEF debt
<1> QED
  BY <1>2, <1>3, <1>4, <1>5, <1>6, <1>7
     DEF Ledger!Owe, DebtMap, DebtOf, PaymentSet, PaymentOf

LEMMA MapSettles ==
  ASSUME TypeInv, NEW v \in Rows, NEW status \in {"charged", "failed"},
         NEW hash \in Hashes \union {None}, Settles(v, status, hash)
  PROVE  Ledger!Declare(v, status)
<1>1. violations'[v] = [violations[v] EXCEPT !.status = status, !.hash = hash]
      /\ \A w \in Rows : w # v => violations'[w] = violations[w]
  BY DEF Settles, TypeInv, TypeOK
<1>2. DebtMap' = [DebtMap EXCEPT ![v].status = status]
  <2>1. DebtOf(v)' = [DebtOf(v) EXCEPT !.status = status]
    <3>1. violations[v] \in Row
      BY DEF TypeInv, TypeOK
    <3>2. /\ violations'[v].status = status
          /\ violations'[v].goal = violations[v].goal
          /\ violations'[v].period = violations[v].period
          /\ violations'[v].keyed = violations[v].keyed
          /\ violations'[v].amount = violations[v].amount
      BY <1>1, <3>1 DEF Row
    <3> QED
      BY <3>2 DEF DebtOf
  <2>2. \A w \in Rows : w # v => DebtOf(w)' = DebtOf(w)
    BY <1>1 DEF DebtOf
  <2> QED
    BY <2>1, <2>2 DEF DebtMap
<1>3. PaymentSet' = PaymentSet
  BY DEF Settles, PaymentSet, PaymentOf
<1>4. DebtMap[v].status = "pending"
  BY DEF Settles, DebtMap, DebtOf
<1>5. status = "charged" => Ledger!Paid(v)
  <2> SUFFICES ASSUME status = "charged" PROVE Ledger!Paid(v)
    OBVIOUS
  <2>1. PICK h \in Hashes : txs[h].for = v /\ txs[h].state = "success"
    BY DEF Settles, Burned
  <2>2. PaymentOf(h) \in PaymentSet /\ PaymentOf(h).debt = v
    BY <2>1 DEF PaymentSet, PaymentOf
  <2> QED
    BY <2>2 DEF Ledger!Paid, PaymentSet, PaymentOf
<1> QED
  BY <1>2, <1>3, <1>4, <1>5 DEF Ledger!Declare, DebtMap, DebtOf, PaymentSet, PaymentOf

LEMMA MapBurns ==
  ASSUME TypeInv, ChargeInv, NEW h \in Hashes, Burns(h)
  PROVE  Ledger!Pay(txs[h].for, h)
<1> DEFINE v == txs[h].for
<1>1. v \in Rows /\ Exists(v) /\ txs[h].amount = violations[v].amount
  BY DEF Burns, Sent, ChargeInv, ChargesRecordedAmount, TypeInv, Filled, TxsFilled
<1>2. txs[h] \in Tx /\ \A k \in Hashes : k # h => txs'[k] = txs[k]
  BY DEF Burns, TypeInv, TypeOK
<1>3. txs'[h].state = "success" /\ txs'[h].for = v /\ txs'[h].amount = txs[h].amount
  BY <1>2 DEF Burns, Tx, TypeInv, TypeOK
<1>4. PaymentSet' = PaymentSet \union {[id |-> h, debt |-> v, amount |-> DebtMap[v].amount]}
  <2>1. PaymentOf(h)' = [id |-> h, debt |-> v, amount |-> DebtMap[v].amount]
    BY <1>1, <1>3 DEF PaymentOf, DebtMap, DebtOf
  <2>2. {k \in Hashes : txs[k].state = "success"}' =
          {k \in Hashes : txs[k].state = "success"} \union {h}
    BY <1>2, <1>3
  <2>3. \A k \in {k \in Hashes : txs[k].state = "success"} : PaymentOf(k)' = PaymentOf(k)
    BY <1>2 DEF Burns, PaymentOf
  <2> QED
    BY <2>1, <2>2, <2>3 DEF PaymentSet
<1>5. DebtMap' = DebtMap
  BY DEF Burns, DebtMap, DebtOf
<1>6. Ledger!Owed(v)
  BY <1>1 DEF Exists, Ledger!Owed
<1>7. ~Ledger!Paid(v)
  BY <1>1 DEF Burns, ChargeInv, OneTxPerRow, Sent, Ledger!Paid
<1>8. \A x \in PaymentSet : x.id # h
  BY DEF Burns, PaymentSet, PaymentOf
<1> HIDE DEF v
<1> QED
  BY <1>4, <1>5, <1>6, <1>7, <1>8
     DEF Ledger!Pay, DebtMap, DebtOf, PaymentSet, PaymentOf, v

\* The whole pipeline, for every number of clients, goals, periods and faults,
\* implements the ledger of debts and payments.
THEOREM PipelineImplementsLedger == Spec => ImplementsLedger
<1>1. ASSUME TypeInv, ChargeInv, [Next]_vars
      PROVE  Ledger!LedgerNext \/ UNCHANGED Ledger!ledgerVars
  <2>1. CASE Quiet
    BY <1>1, <2>1, MapQuiet
  <2>2. ASSUME NEW c \in Callers, NEW v \in Rows, Inserts(c, v) PROVE Ledger!LedgerNext
    BY <1>1, <2>2, MapInserts DEF Ledger!LedgerNext
  <2>3. ASSUME NEW v \in Rows, NEW status \in {"charged", "failed"},
               NEW hash \in Hashes \union {None}, Settles(v, status, hash)
        PROVE  Ledger!LedgerNext
    BY <1>1, <2>3, MapSettles DEF Ledger!LedgerNext
  <2>4. ASSUME NEW h \in Hashes, Burns(h) PROVE Ledger!LedgerNext
    <3>1. txs[h].for \in Rows
      BY <1>1, <2>4 DEF Burns, Sent, TypeInv, Filled, TxsFilled
    <3> QED
      BY <1>1, <2>4, <3>1, MapBurns DEF Ledger!LedgerNext
  <2> QED
    BY <1>1, <2>1, <2>2, <2>3, <2>4, Effects
<1>2. TypeInv /\ ChargeInv /\ [Next]_vars => [Ledger!LedgerNext]_(Ledger!ledgerVars)
  BY <1>1
<1> QED
  BY <1>2, MapInit, ChargeAlways, PTL DEF Spec, ImplementsLedger, Ledger!LedgerSpec

-----------------------------------------------------------------------------
(* The ledger and the chain agree when no call is cut short                *)

\* No transaction sent for v has taken anything, or still can.
NothingTaken(v) ==
  \A h \in Hashes : Sent(h) /\ txs[h].for = v => txs[h].state = "reverted"

\* No context is cancelled, so that every wait ends with a receipt and every
\* answer arrives.
Uncut == \A c \in Callers : ctx[c] = "live"

\* A pending row has a handler that will settle it.
PendingHeld == \A v \in Rows : violations[v].status = "pending" => InCharge(v)

\* A handler that is about to record a failure, and a row that shows one.
FailedCalls ==
  \A c \in Callers : calls[c].at = "update" /\ calls[c].status = "failed" =>
    NothingTaken(calls[c].row)
FailedRows == \A v \in Rows : violations[v].status = "failed" => NothingTaken(v)

\* The scheduler's own report is over before it goes on.
SchedWaits == calls[Sched].at # "idle" => sched.at = "report"

ChainInv == Uncut /\ PendingHeld /\ FailedCalls /\ FailedRows /\ SchedWaits

LEMMA ChainInit == Init => ChainInv
  BY DEF Init, ChainInv, Uncut, PendingHeld, FailedCalls, FailedRows, SchedWaits,
         NothingTaken, Sent, NoRow, NoTx, Idle, Callers

\* With no fault but dropped transactions, nothing cancels a context, and no
\* call goes without its answer.
LEMMA NothingCut ==
  ASSUME Faults \subseteq {"drop"}, Uncut, NEW c \in Callers
  PROVE  /\ ~StoreFault(c) /\ ~CallFails(c) /\ ~TransactUnanswered(c)
         /\ ~Crash /\ ~Restart /\ ~Shutdown /\ ~Disconnect(c) /\ ~RunFails
         /\ \A ok \in BOOLEAN : Acked(c, ok) => ok = TRUE
  BY DEF Uncut, Callers, StoreFault, CallFails, TransactUnanswered, Crash, Restart, Shutdown,
         Disconnect, RunFails, Acked, Fault

LEMMA StaysUncut ==
  ASSUME TypeInv, Faults \subseteq {"drop"}, Uncut, [Next]_vars
  PROVE  Uncut'
<1>1. CASE UNCHANGED ctx
  BY <1>1 DEF Uncut
<1>2. ASSUME NEW c \in Callers, NEW ok, Return(c, ok) PROVE Uncut'
  BY <1>2 DEF Return, Uncut, TypeInv, TypeOK
<1>3. ASSUME NEW c \in Callers, Proceed(c) PROVE Uncut'
  BY <1>1, <1>2, <1>3, NothingCut
     DEF Proceed, WriteGoal, UpsertCheckIn, CreateViolation, UpdateViolation, RefuseTransact,
         Transact, WaitMined, Outcome, Goto
<1>4. ASSUME NEW c \in Clients, Request(c) PROVE Uncut'
  BY <1>1, <1>4 DEF Request, BeginGoalUpdate, BeginCheckIn, BeginReport, Goto
<1>5. CASE SchedStep
  BY <1>1, <1>5 DEF SchedStep, Tick, ListActiveGoals, GetCheckIn, ReportMissed, EndRun, RunFails
<1>6. CASE Environment
  <2>1. Sched \in Callers /\ Clients \subseteq Callers
    BY DEF Callers
  <2> QED
    BY <1>1, <1>6, <2>1, NothingCut DEF Environment, Clock, Mine, Drop
<1>7. ASSUME NEW g \in Goals, CreateGoal(g) \/ ArchiveGoal(g) PROVE Uncut'
  BY <1>1, <1>7 DEF CreateGoal, ArchiveGoal
<1> QED
  BY <1>1, <1>3, <1>4, <1>5, <1>6, <1>7 DEF Next, vars

\* The scheduler reports only when no report of its own is under way.
LEMMA SchedStaysWaiting ==
  ASSUME TypeInv, SchedWaits, [Next]_vars
  PROVE  SchedWaits'
<1>1. CASE UNCHANGED <<calls, sched>>
  BY <1>1 DEF SchedWaits
<1>2. ASSUME NEW c \in Callers, NEW ok, Return(c, ok) PROVE SchedWaits'
  BY <1>2 DEF Return, SchedWaits, Idle, Callers, TypeInv, TypeOK
<1>3. ASSUME NEW c \in Callers, NEW call, Goto(c, call), calls[c].at # "idle" \/ c # Sched
      PROVE  SchedWaits'
  BY <1>3 DEF Goto, SchedWaits, Callers, TypeInv, TypeOK
<1>4. ASSUME NEW c \in Callers, Proceed(c) PROVE SchedWaits'
  <2>1. CASE CallFails(c) \/ \E ok \in BOOLEAN : WriteGoal(c, ok) \/ UpsertCheckIn(c, ok) \/ UpdateViolation(c, ok)
    BY <1>2, <2>1 DEF CallFails, WriteGoal, UpsertCheckIn, UpdateViolation
  <2>2. ASSUME NEW ok \in BOOLEAN, CreateViolation(c, ok) PROVE SchedWaits'
    BY <1>2, <1>3, <2>2 DEF CreateViolation
  <2>3. CASE RefuseTransact(c) \/ Transact(c) \/ TransactUnanswered(c) \/ WaitMined(c)
    BY <1>3, <2>3 DEF RefuseTransact, Transact, TransactUnanswered, WaitMined, Outcome
  <2> QED
    BY <1>4, <2>1, <2>2, <2>3 DEF Proceed
<1>5. ASSUME NEW c \in Clients, Request(c) PROVE SchedWaits'
  <2>1. c # Sched /\ c \in Callers
    BY ConstantsAssumption DEF Callers
  <2> QED
    BY <1>3, <1>5, <2>1 DEF Request, BeginGoalUpdate, BeginCheckIn, BeginReport
<1>6. CASE SchedStep
  <2>1. sched \in SchedState
    BY DEF TypeInv, TypeOK
  <2> QED
    BY <1>6, <2>1
       DEF SchedStep, Tick, ListActiveGoals, GetCheckIn, ReportMissed, EndRun, RunFails,
           SchedWaits, SchedState
<1>7. CASE Environment
  BY <1>1, <1>7
     DEF Environment, Clock, Shutdown, Crash, Restart, Restarted, Mine, Drop, Disconnect,
         SchedWaits, Idle, Callers
<1>8. ASSUME NEW g \in Goals, CreateGoal(g) \/ ArchiveGoal(g) PROVE SchedWaits'
  BY <1>1, <1>8 DEF CreateGoal, ArchiveGoal
<1> QED
  BY <1>1, <1>4, <1>5, <1>6, <1>7, <1>8 DEF Next, vars

\* What a step must preserve of ChainInv beside Uncut and SchedWaits.
Backed == PendingHeld /\ FailedCalls /\ FailedRows

\* A step that leaves rows, transactions and every handler in the charging of a
\* row alone, and puts no other handler there.
LEMMA QuietBacked ==
  ASSUME Backed, violations' = violations, txs' = txs,
         \A c \in Callers : Charging(calls[c]) \/ Charging(calls'[c]) => calls'[c] = calls[c]
  PROVE  Backed'
<1>1. \A v \in Rows : NothingTaken(v)' <=> NothingTaken(v)
  BY DEF NothingTaken, Sent
<1>2. FailedRows'
  BY <1>1 DEF Backed, FailedRows
<1>3. FailedCalls'
  BY DEF Backed, FailedCalls, Charging, NothingTaken, Sent
<1>4. PendingHeld'
  BY DEF Backed, PendingHeld, InCharge, Charging
<1> QED
  BY <1>2, <1>3, <1>4 DEF Backed

\* The handler of a pending row may go on, and another may join it.
LEMMA HoldersStay ==
  ASSUME PendingHeld,
         \A v \in Rows : violations'[v].status = "pending" =>
           \/ violations[v].status = "pending"
              /\ \A c \in Callers : Charging(calls[c]) /\ calls[c].row = v =>
                   Charging(calls'[c]) /\ calls'[c].row = v
           \/ \E c \in Callers : Charging(calls'[c]) /\ calls'[c].row = v
  PROVE  PendingHeld'
<1> SUFFICES ASSUME NEW v \in Rows, violations'[v].status = "pending"
             PROVE  \E c \in Callers : Charging(calls'[c]) /\ calls'[c].row = v
  BY DEF PendingHeld, InCharge, Charging
<1>1. CASE \E c \in Callers : Charging(calls'[c]) /\ calls'[c].row = v
  BY <1>1
<1>2. CASE violations[v].status = "pending"
           /\ \A c \in Callers : Charging(calls[c]) /\ calls[c].row = v =>
                Charging(calls'[c]) /\ calls'[c].row = v
  <2>1. PICK c \in Callers : Charging(calls[c]) /\ calls[c].row = v
    BY <1>2 DEF PendingHeld, InCharge, Charging
  <2> QED
    BY <1>2, <2>1
<1> QED
  BY <1>1, <1>2

\* A step of one handler that changes no transaction and no row but its own.
LEMMA ReturnBacked ==
  ASSUME TypeInv, Backed, UNCHANGED <<violations, txs>>, NEW c \in Callers, NEW ok,
         Return(c, ok), ~Charging(calls[c])
  PROVE  Backed'
  BY QuietBacked DEF Return, Idle, Charging, TypeInv, TypeOK

LEMMA GotoBacked ==
  ASSUME TypeInv, Backed, UNCHANGED <<violations, txs>>, NEW c \in Callers, NEW call,
         Goto(c, call), ~Charging(calls[c]), ~Charging(call)
  PROVE  Backed'
  BY QuietBacked DEF Goto, TypeInv, TypeOK

\* The insert hands its row over to the handler that charges it.
LEMMA CreateBacked ==
  ASSUME TypeInv, ChargeInv, Uncut, Backed, Faults \subseteq {"drop"},
         NEW c \in Callers, NEW ok \in BOOLEAN, CreateViolation(c, ok)
  PROVE  Backed'
<1>1. ok = TRUE /\ UNCHANGED txs /\ ~Charging(calls[c]) /\ calls[c] \in Call
  BY NothingCut DEF CreateViolation, Charging, TypeInv, TypeOK
<1>2. CASE Return(c, ok) /\ UNCHANGED violations
  BY <1>1, <1>2, ReturnBacked
<1>3. ASSUME NEW v \in Rows, NextRow(v), violations' = [violations EXCEPT ![v] = NewRow(calls[c])],
             Goto(c, [calls[c] EXCEPT !.at = "charge", !.row = v])
      PROVE  Backed'
  <2>1. violations'[v].status = "pending" /\ \A w \in Rows : w # v => violations'[w] = violations[w]
    BY <1>3 DEF NewRow, TypeInv, TypeOK
  <2>2. calls'[c] = [calls[c] EXCEPT !.at = "charge", !.row = v]
        /\ \A d \in Callers : d # c => calls'[d] = calls[d]
    BY <1>3 DEF Goto, TypeInv, TypeOK
  <2>3. calls'[c].at = "charge" /\ calls'[c].row = v
    BY <1>1, <2>2 DEF Call
  <2>4. Charging(calls'[c]) /\ calls'[c].row = v
    BY <2>3 DEF Charging
  <2>5. \A d \in Callers : Charging(calls[d]) => calls'[d] = calls[d]
    BY <1>1, <2>2
  <2>6. PendingHeld'
    <3> SUFFICES ASSUME NEW w \in Rows, violations'[w].status = "pending"
                 PROVE  \E d \in Callers : Charging(calls'[d]) /\ calls'[d].row = w
      BY DEF PendingHeld, InCharge, Charging
    <3>1. CASE w = v
      BY <2>4, <3>1
    <3>2. CASE w # v
      <4>1. PICK d \in Callers : Charging(calls[d]) /\ calls[d].row = w
        BY <2>1, <3>2 DEF Backed, PendingHeld, InCharge, Charging
      <4> QED
        BY <2>5, <4>1
    <3> QED
      BY <3>1, <3>2
  <2>7. FailedCalls'
    <3>1. \A d \in Callers : calls'[d].at = "update" => calls'[d] = calls[d]
      BY <2>2, <2>3
    <3> QED
      BY <1>1, <3>1 DEF Backed, FailedCalls, NothingTaken, Sent
  <2>8. FailedRows'
    BY <1>1, <2>1 DEF Backed, FailedRows, NothingTaken, Sent
  <2> QED
    BY <2>6, <2>7, <2>8 DEF Backed
<1> QED
  BY <1>1, <1>2, <1>3 DEF CreateViolation

\* A handler records a failure only when nothing was sent or what was reverted.
LEMMA OutcomeBacked ==
  ASSUME TypeInv, ChargeInv, Uncut, Backed, NEW c \in Callers, RefuseTransact(c) \/ WaitMined(c)
  PROVE  Backed'
<1>1. Charging(calls[c]) /\ UNCHANGED <<violations, txs>> /\ calls[c] \in Call
  BY DEF RefuseTransact, WaitMined, Charging, store, TypeInv, TypeOK
<1>2. PICK status \in {"charged", "failed"}, hash \in Hashes \union {None} :
        /\ calls' = [calls EXCEPT ![c] = [calls[c] EXCEPT !.at = "update", !.status = status, !.hash = hash]]
        /\ status = "failed" => NothingTaken(calls[c].row)
  <2>1. CASE RefuseTransact(c)
    BY <2>1 DEF RefuseTransact, Outcome, Goto, ChargeInv, BeforeTransact, NothingTaken
  <2>2. CASE WaitMined(c)
    <3>1. /\ calls[c].hash \in Hashes /\ Sent(calls[c].hash)
          /\ txs[calls[c].hash].for = calls[c].row
      BY <2>2 DEF WaitMined, ChargeInv, AfterTransact, TypeInv, Filled, CallFilled
    <3>2. txs[calls[c].hash].state = "reverted" => NothingTaken(calls[c].row)
      BY <3>1 DEF ChargeInv, OneTxPerRow, NothingTaken
    <3> QED
      BY <2>2, <3>1, <3>2 DEF WaitMined, Outcome, Goto, Uncut
  <2> QED
    BY <2>1, <2>2
<1>3. calls'[c] = [calls[c] EXCEPT !.at = "update", !.status = status, !.hash = hash]
      /\ \A d \in Callers : d # c => calls'[d] = calls[d]
  BY <1>2 DEF TypeInv, TypeOK
<1>4. calls'[c].row = calls[c].row /\ calls'[c].at = "update" /\ calls'[c].status = status
  BY <1>1, <1>3 DEF Call
<1>5. PendingHeld'
  <2>1. \A d \in Callers : Charging(calls[d]) => Charging(calls'[d]) /\ calls'[d].row = calls[d].row
    BY <1>3, <1>4 DEF Charging
  <2> QED
    BY <1>1, <2>1, HoldersStay DEF Backed
<1>6. FailedCalls' /\ FailedRows'
  BY <1>1, <1>2, <1>3, <1>4 DEF Backed, FailedCalls, FailedRows, NothingTaken, Sent
<1> QED
  BY <1>5, <1>6 DEF Backed

\* A new transaction is of a row that is pending and that no other handler has.
LEMMA TransactBacked ==
  ASSUME TypeInv, ChargeInv, Backed, NEW c \in Callers, Transact(c)
  PROVE  Backed'
<1>1. calls[c].at = "charge" /\ UNCHANGED violations /\ calls[c] \in Call
  BY DEF Transact, store, TypeInv, TypeOK
<1>2. PICK h \in Hashes : Broadcast(c, h) /\ calls' = [calls EXCEPT ![c] = [calls[c] EXCEPT !.at = "wait", !.hash = h]]
  BY DEF Transact, Goto
<1>3. calls'[c] = [calls[c] EXCEPT !.at = "wait", !.hash = h] /\ \A d \in Callers : d # c => calls'[d] = calls[d]
  BY <1>2 DEF TypeInv, TypeOK
<1>4. calls'[c].at = "wait" /\ calls'[c].row = calls[c].row
  BY <1>1, <1>3 DEF Call
<1>5. txs'[h].for = calls[c].row /\ \A k \in Hashes : k # h => txs'[k] = txs[k]
  BY <1>2 DEF Broadcast, TypeInv, TypeOK
<1>6. ASSUME NEW v \in Rows, v # calls[c].row, NothingTaken(v)
      PROVE  \A k \in Hashes : txs'[k].state # "none" /\ txs'[k].for = v => txs'[k].state = "reverted"
  BY <1>5, <1>6 DEF NothingTaken, Sent
<1>7. PendingHeld'
  <2>1. \A d \in Callers : Charging(calls[d]) => Charging(calls'[d]) /\ calls'[d].row = calls[d].row
    BY <1>3, <1>4 DEF Charging
  <2> QED
    BY <1>1, <2>1, HoldersStay DEF Backed
<1>8. FailedCalls'
  <2> SUFFICES ASSUME NEW d \in Callers, calls'[d].at = "update", calls'[d].status = "failed"
               PROVE  \A k \in Hashes : txs'[k].state # "none" /\ txs'[k].for = calls'[d].row =>
                        txs'[k].state = "reverted"
    BY DEF FailedCalls, NothingTaken, Sent
  <2>1. d # c /\ calls'[d] = calls[d]
    BY <1>3, <1>4
  <2>2. calls[d].row \in Rows /\ calls[d].row # calls[c].row /\ NothingTaken(calls[d].row)
    BY <1>1, <2>1 DEF Backed, FailedCalls, ChargeInv, OneHolder, Charging, TypeInv, Filled, CallFilled
  <2> QED
    BY <1>6, <2>1, <2>2
<1>9. FailedRows'
  <2>1. violations[calls[c].row].status = "pending"
    BY <1>1 DEF ChargeInv, HoldsPending, Charging
  <2> QED
    BY <1>1, <1>6, <2>1 DEF Backed, FailedRows, NothingTaken, Sent
<1> QED
  BY <1>7, <1>8, <1>9 DEF Backed

\* The holder of a row settles it as it knows, and leaves.
LEMMA UpdateBacked ==
  ASSUME TypeInv, ChargeInv, Backed, NEW c \in Callers, NEW ok \in BOOLEAN, UpdateViolation(c, ok)
  PROVE  Backed'
<1> DEFINE v == calls[c].row
<1>1. calls[c].at = "update" /\ calls[c] \in Call /\ v \in Rows /\ violations[v] \in Row /\ UNCHANGED txs
  BY DEF UpdateViolation, Charging, TypeInv, TypeOK, Filled, CallFilled
<1>2. violations' = [violations EXCEPT ![v] = [violations[v] EXCEPT !.status = calls[c].status, !.hash = calls[c].hash]]
  BY <1>1 DEF UpdateViolation, TypeInv, TypeOK
<1>3. /\ violations'[v].status = calls[c].status /\ calls[c].status \in {"charged", "failed"}
      /\ \A w \in Rows : w # v => violations'[w] = violations[w]
  BY <1>1, <1>2 DEF Row, Call, TypeInv, TypeOK
<1>4. ~Charging(calls'[c]) /\ \A d \in Callers : d # c => calls'[d] = calls[d]
  BY DEF UpdateViolation, Return, Idle, Charging, TypeInv, TypeOK
<1>5. PendingHeld'
  BY <1>3, <1>4 DEF Backed, PendingHeld, InCharge
<1>6. FailedCalls'
  BY <1>1, <1>4 DEF Backed, FailedCalls, Charging, NothingTaken, Sent
<1>7. FailedRows'
  BY <1>1, <1>3 DEF Backed, FailedRows, FailedCalls, NothingTaken, Sent
<1> QED
  BY <1>5, <1>6, <1>7 DEF Backed

\* What reverted stays so; only a pending transaction can still take anything.
LEMMA MineBacked ==
  ASSUME TypeInv, Backed, NEW h \in Hashes, Mine(h) \/ Drop(h)
  PROVE  Backed'
<1>1. PICK state \in {"success", "reverted", "dropped"} : txs' = [txs EXCEPT ![h].state = state]
  BY DEF Mine, Drop
<1>2. txs[h] \in Tx /\ txs[h].state = "pending" /\ UNCHANGED <<violations, calls>>
  BY DEF Mine, Drop, store, TypeInv, TypeOK
<1>3. txs'[h].for = txs[h].for /\ \A k \in Hashes : k # h => txs'[k] = txs[k]
  BY <1>1, <1>2 DEF Tx, TypeInv, TypeOK
<1>4. ASSUME NEW v, NothingTaken(v) PROVE NothingTaken(v)'
  BY <1>2, <1>3, <1>4 DEF NothingTaken, Sent
<1>5. FailedCalls' /\ FailedRows'
  BY <1>2, <1>3 DEF Backed, FailedCalls, FailedRows, NothingTaken, Sent
<1> QED
  BY <1>2, <1>5 DEF Backed, PendingHeld, InCharge

LEMMA ChainNext ==
  ASSUME TypeInv, ChargeInv, ChainInv, Faults \subseteq {"drop"}, [Next]_vars
  PROVE  ChainInv'
<1>1. Uncut /\ Backed /\ SchedWaits
  BY DEF ChainInv, Backed
<1>2. Uncut' /\ SchedWaits'
  BY <1>1, StaysUncut, SchedStaysWaiting DEF ChainInv
<1>3. ASSUME violations' = violations, txs' = txs, calls' = calls PROVE Backed'
  <2>1. \A c \in Callers : Charging(calls[c]) \/ Charging(calls'[c]) => calls'[c] = calls[c]
    BY <1>3
  <2> QED
    BY <1>1, <1>3, <2>1, QuietBacked
<1>4. ASSUME NEW c \in Callers, Proceed(c) PROVE Backed'
  <2>1. ASSUME NEW ok \in BOOLEAN, WriteGoal(c, ok) \/ UpsertCheckIn(c, ok) PROVE Backed'
    BY <1>1, <2>1, ReturnBacked DEF WriteGoal, UpsertCheckIn, Charging
  <2>2. ~CallFails(c) /\ ~TransactUnanswered(c)
    BY <1>1, NothingCut
  <2> QED
    BY <1>1, <1>4, <2>1, <2>2, CreateBacked, UpdateBacked, OutcomeBacked, TransactBacked DEF Proceed
<1>5. ASSUME NEW c \in Clients, Request(c) PROVE Backed'
  <2>1. calls[c].at = "idle" /\ c \in Callers /\ UNCHANGED <<violations, txs>>
    BY <1>5 DEF Request, BeginGoalUpdate, BeginCheckIn, BeginReport, Serves, store, Callers
  <2>2. ASSUME NEW g \in Goals, BeginGoalUpdate(c, g) PROVE Backed'
    <3>1. PICK stake \in Stakes, end \in EndTimes :
            Goto(c, [Idle EXCEPT !.at = "write", !.goal = g, !.stake = stake, !.endsAt = end])
      BY <2>2 DEF BeginGoalUpdate
    <3>2. ~Charging([Idle EXCEPT !.at = "write", !.goal = g, !.stake = stake, !.endsAt = end])
      BY DEF Idle, Charging
    <3> QED
      BY <1>1, <2>1, <3>1, <3>2, GotoBacked DEF Charging
  <2>3. ASSUME NEW g \in Goals, NEW p \in Keys, BeginCheckIn(c, g, p) PROVE Backed'
    <3>1. Goto(c, [Idle EXCEPT !.at = "checkin", !.goal = g, !.period = p])
      BY <2>3 DEF BeginCheckIn
    <3>2. ~Charging([Idle EXCEPT !.at = "checkin", !.goal = g, !.period = p])
      BY DEF Idle, Charging
    <3> QED
      BY <1>1, <2>1, <3>1, <3>2, GotoBacked DEF Charging
  <2>4. ASSUME NEW g \in Goals, NEW p \in Keys, BeginReport(c, g, p) PROVE Backed'
    <3>1. Goto(c, Reporting(g, p, "reported"))
      BY <2>4 DEF BeginReport
    <3>2. ~Charging(Reporting(g, p, "reported"))
      BY DEF Reporting, Idle, Charging
    <3> QED
      BY <1>1, <2>1, <3>1, <3>2, GotoBacked DEF Charging
  <2> QED
    BY <1>5, <2>2, <2>3, <2>4 DEF Request
<1>6. ASSUME SchedStep PROVE Backed'
  <2>1. UNCHANGED <<violations, txs>>
    BY <1>6 DEF SchedStep, Tick, ListActiveGoals, GetCheckIn, ReportMissed, EndRun, RunFails, store
  <2>2. CASE UNCHANGED calls
    BY <1>3, <2>1, <2>2
  <2>3. CASE ~UNCHANGED calls
    <3>1. /\ calls[Sched].at = "idle"
          /\ \E d : calls' = [calls EXCEPT ![Sched] = Reporting(d[1], d[2], "missed deadline")]
      BY <1>1, <1>6, <2>3
         DEF SchedStep, Tick, ListActiveGoals, GetCheckIn, ReportMissed, EndRun, RunFails, SchedWaits
    <3>2. PICK d : calls' = [calls EXCEPT ![Sched] = Reporting(d[1], d[2], "missed deadline")]
      BY <3>1
    <3>3. ~Charging(Reporting(d[1], d[2], "missed deadline")) /\ ~Charging(calls[Sched])
      BY <3>1 DEF Reporting, Idle, Charging
    <3>4. \A e \in Callers : Charging(calls[e]) \/ Charging(calls'[e]) => calls'[e] = calls[e]
      BY <3>2, <3>3 DEF TypeInv, TypeOK
    <3> QED
      BY <1>1, <2>1, <3>4, QuietBacked
  <2> QED
    BY <2>2, <2>3
<1>7. ASSUME Environment PROVE Backed'
  <2>1. Sched \in Callers /\ Clients \subseteq Callers
    BY DEF Callers
  <2>2. CASE Clock
    BY <1>3, <2>2 DEF Clock, store
  <2>3. ASSUME NEW h \in Hashes, Mine(h) \/ Drop(h) PROVE Backed'
    BY <1>1, <2>3, MineBacked
  <2>4. ~Shutdown /\ ~Crash /\ ~Restart /\ \A c \in Clients : ~Disconnect(c)
    BY <1>1, <2>1, NothingCut
  <2> QED
    BY <1>7, <2>2, <2>3, <2>4 DEF Environment
<1>8. ASSUME NEW g \in Goals, CreateGoal(g) \/ ArchiveGoal(g) PROVE Backed'
  BY <1>3, <1>8 DEF CreateGoal, ArchiveGoal
<1>9. Backed'
  BY <1>3, <1>4, <1>5, <1>6, <1>7, <1>8 DEF Next, vars
<1> QED
  BY <1>2, <1>9 DEF ChainInv, Backed

\* A ledger whose calls are never cut short agrees with the chain: a row nobody
\* is charging is settled, and shown as charged exactly if its stake burned.
THEOREM LedgerAgreesWithChain ==
  ASSUME Faults \subseteq {"drop"}
  PROVE  Spec => []LedgerMatchesChain
<1>1. Init => ChainInv
  BY ChainInit
<1>2. (TypeInv /\ ChargeInv) /\ ChainInv /\ [Next]_vars => ChainInv'
  BY ChainNext
<1>3. (TypeInv /\ ChargeInv) /\ ChainInv => LedgerMatchesChain
  <2> SUFFICES ASSUME TypeInv, ChargeInv, ChainInv, NEW v \in Rows, Exists(v), ~InCharge(v)
               PROVE  Settled(v) /\ (violations[v].status = "charged" <=> Burned(v))
    BY DEF LedgerMatchesChain
  <2>1. violations[v].status \in {"charged", "failed"}
    BY DEF ChainInv, PendingHeld, Exists, Row, TypeInv, TypeOK
  <2>2. violations[v].status = "charged" => Burned(v)
    BY DEF ChargeInv, ChargedMeansBurned, Burned
  <2>3. violations[v].status = "failed" => ~Burned(v)
    BY DEF ChainInv, FailedRows, NothingTaken, Sent, Burned
  <2> QED
    BY <2>1, <2>2, <2>3 DEF Settled
<1> QED
  BY <1>1, <1>2, <1>3, ChargeAlways, PTL DEF Spec
=============================================================================
