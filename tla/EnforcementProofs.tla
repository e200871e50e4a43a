------------------------- MODULE EnforcementProofs -------------------------
(***************************************************************************)
(* Proofs about Enforcement, for every number of clients, goals, periods,  *)
(* rows and faults.                                                        *)
(***************************************************************************)
EXTENDS Enforcement, TLAPS

-----------------------------------------------------------------------------
(* Type correctness                                                        *)

Charging(call) == call.at \in {"charge", "wait", "update"}

\* What TypeOK leaves open because absent rows, transactions and idle calls
\* hold None.
CallFilled(call) ==
  /\ call.at \in {"checkin", "write", "insert"} => call.goal \in Goals
  /\ call.at \in {"checkin", "insert"} => call.period \in Keys
  /\ Charging(call) => call.row \in Rows
  /\ call.at = "wait" => call.hash \in Hashes
TxsFilled == \A h \in Hashes : Sent(h) => txs[h].for \in Rows

Filled  == TxsFilled /\ \A c \in Callers : CallFilled(calls[c])
TypeInv == TypeOK /\ Filled

LEMMA InitTypes == Init => TypeInv
  BY ConstantsAssumption
     DEF Init, TypeInv, TypeOK, Filled, TxsFilled, CallFilled, Charging,
         Sent, Idle, NoRow, NoTx, NoGoal, IdleSched, Row, Tx, Goal, Call,
         SchedState, Time, None, Forever, Never

LEMMA IdleTypes == Idle \in Call /\ CallFilled(Idle) /\ IdleSched \in SchedState
  BY ConstantsAssumption
     DEF Idle, Call, CallFilled, Charging, IdleSched, SchedState, Time, Forever, None

\* Going on to the next call of a handler.
LEMMA GotoTypes ==
  ASSUME TypeInv, NEW c \in Callers, NEW call \in Call, CallFilled(call), Goto(c, call)
  PROVE  /\ calls' \in [Callers -> Call]
         /\ ctx' \in [Callers -> {"live", "done"}]
         /\ sched' \in SchedState
         /\ \A d \in Callers : CallFilled(calls'[d])
  BY DEF Goto, TypeInv, TypeOK, Filled

\* Leaving a handler.
LEMMA ReturnTypes ==
  ASSUME TypeInv, NEW c \in Callers, NEW ok \in BOOLEAN, Return(c, ok)
  PROVE  /\ calls' \in [Callers -> Call]
         /\ ctx' \in [Callers -> {"live", "done"}]
         /\ sched' \in SchedState
         /\ \A d \in Callers : CallFilled(calls'[d])
<1>1. calls' = [calls EXCEPT ![c] = Idle]
  BY DEF Return
<1>2. calls' \in [Callers -> Call] /\ \A d \in Callers : CallFilled(calls'[d])
  BY <1>1, IdleTypes DEF TypeInv, TypeOK, Filled
<1>3. ctx' \in [Callers -> {"live", "done"}]
  BY DEF Return, TypeInv, TypeOK
<1>4. sched' \in SchedState
  <2> DEFINE rest == sched.todo \ {<<calls[c].goal, calls[c].period>>}
  <2>1. sched \in SchedState
    BY DEF TypeInv, TypeOK
  <2>2. rest \in SUBSET (Goals \X Periods)
    BY <2>1 DEF SchedState
  <2>3. [sched EXCEPT !.at = "scan", !.todo = rest] \in SchedState
    <3> HIDE DEF rest
    <3> QED
      BY <2>1, <2>2 DEF SchedState
  <2> QED
    BY <2>1, <2>3, IdleTypes DEF Return
<1> QED
  BY <1>2, <1>3, <1>4

LEMMA ReportingTypes ==
  ASSUME TypeInv, NEW g \in Goals, NEW p \in Keys,
         NEW reason \in {"missed deadline", "reported"}
  PROVE  Reporting(g, p, reason) \in Call /\ CallFilled(Reporting(g, p, reason))
<1>1. goals[g] \in Goal
  BY DEF TypeInv, TypeOK
<1> QED
  <2> DEFINE call == Reporting(g, p, reason)
  <2>1. /\ call.at = "insert" /\ call.goal = g /\ call.period = p /\ call \in Call
    <3>1. goals[g].kind \in {"none", "do", "avoid"} /\ goals[g].stake \in Stakes \union {0}
      BY <1>1 DEF Goal
    <3> QED
      BY <3>1, IdleTypes DEF Reporting, Call
  <2> HIDE DEF call
  <2>2. CallFilled(call)
    BY <2>1 DEF CallFilled, Charging
  <2> QED
    BY <2>1, <2>2 DEF call

LEMMA OutcomeTypes ==
  ASSUME TypeInv, NEW c \in Callers, Charging(calls[c]),
         NEW status \in {"charged", "failed"}, NEW hash \in Hashes \union {None},
         Outcome(c, status, hash)
  PROVE  /\ calls' \in [Callers -> Call]
         /\ ctx' \in [Callers -> {"live", "done"}]
         /\ sched' \in SchedState
         /\ \A d \in Callers : CallFilled(calls'[d])
<1> DEFINE call == [calls[c] EXCEPT !.at = "update", !.status = status, !.hash = hash]
<1>1. calls[c] \in Call /\ calls[c].row \in Rows
  BY DEF TypeInv, TypeOK, Filled, CallFilled
<1>2. call \in Call /\ CallFilled(call)
  <2>1. /\ call.at = "update" /\ call.status = status /\ call.hash = hash
        /\ call.row = calls[c].row
    BY <1>1 DEF Call
  <2>2. call \in Call
    BY <1>1, ZenonT(40) DEF Call
  <2> HIDE DEF call
  <2> QED
    BY <1>1, <2>1, <2>2 DEF CallFilled, Charging
<1>3. Goto(c, call)
  BY DEF Outcome
<1> HIDE DEF call
<1> QED
  BY <1>2, <1>3, GotoTypes

\* A fault spends budget, and nothing else changes it.
LEMMA FaultTypes ==
  ASSUME TypeInv, NEW c \in Callers, NEW kind, NEW ok \in BOOLEAN,
         Fault(kind) \/ StoreFault(c) \/ Acked(c, ok)
  PROVE  budget' \in 0 .. MaxFaults
  BY ConstantsAssumption DEF Fault, StoreFault, Acked, TypeInv, TypeOK

LEMMA TypesNext == TypeInv /\ [Next]_vars => TypeInv'
<1> SUFFICES ASSUME TypeInv, [Next]_vars PROVE TypeInv'
  OBVIOUS
<1> USE ConstantsAssumption
<1>1. ASSUME NEW g \in Goals, CreateGoal(g) PROVE TypeInv'
  <2>1. goals' \in [Goals -> Goal]
    BY <1>1 DEF CreateGoal, TypeInv, TypeOK, Goal, Time
  <2> QED
    BY <1>1, <2>1 DEF CreateGoal, TypeInv, TypeOK, Filled, TxsFilled, Sent
<1>2. ASSUME NEW g \in Goals, ArchiveGoal(g) PROVE TypeInv'
  <2>1. goals[g] \in Goal
    BY DEF TypeInv, TypeOK
  <2>2. [goals[g] EXCEPT !.archived = TRUE] \in Goal
    BY <2>1 DEF Goal
  <2>3. goals' \in [Goals -> Goal]
    BY <1>2, <2>2 DEF ArchiveGoal, TypeInv, TypeOK
  <2> QED
    BY <1>2, <2>3 DEF ArchiveGoal, TypeInv, TypeOK, Filled, TxsFilled, Sent
<1>3. ASSUME NEW c \in Clients, NEW g \in Goals, BeginGoalUpdate(c, g) PROVE TypeInv'
  <2>1. PICK stake \in Stakes, end \in EndTimes :
          Goto(c, [Idle EXCEPT !.at = "write", !.goal = g, !.stake = stake, !.endsAt = end])
    BY <1>3 DEF BeginGoalUpdate
  <2> DEFINE call == [Idle EXCEPT !.at = "write", !.goal = g, !.stake = stake, !.endsAt = end]
  <2>2. call \in Call /\ CallFilled(call)
    BY IdleTypes DEF Call, CallFilled, Charging
  <2>3. UNCHANGED <<now, goals, checkIns, violations, txs, budget>>
    BY <1>3 DEF BeginGoalUpdate, store
  <2> HIDE DEF call
  <2> QED
    BY <2>1, <2>2, <2>3, GotoTypes
       DEF Callers, call, TypeInv, TypeOK, Filled, TxsFilled, Sent
<1>4. ASSUME NEW c \in Callers, NEW ok \in BOOLEAN, WriteGoal(c, ok) PROVE TypeInv'
  <2>1. calls[c] \in Call /\ calls[c].goal \in Goals
    BY <1>4 DEF WriteGoal, TypeInv, TypeOK, Filled, CallFilled
  <2>2. goals[calls[c].goal] \in Goal
    BY <2>1 DEF TypeInv, TypeOK
  <2>3. [goals[calls[c].goal] EXCEPT !.stake = calls[c].stake, !.endsAt = calls[c].endsAt] \in Goal
    BY <2>1, <2>2 DEF Goal, Call
  <2>4. goals' = [goals EXCEPT ![calls[c].goal] =
          [goals[calls[c].goal] EXCEPT !.stake = calls[c].stake, !.endsAt = calls[c].endsAt]]
    BY <1>4, <2>1 DEF WriteGoal, TypeInv, TypeOK
  <2>5. goals' \in [Goals -> Goal]
    BY <2>3, <2>4 DEF TypeInv, TypeOK
  <2>6. UNCHANGED <<now, checkIns, violations, txs>> /\ Return(c, ok) /\ Acked(c, ok)
    BY <1>4 DEF WriteGoal
  <2> QED
    BY <2>5, <2>6, ReturnTypes, FaultTypes DEF TypeInv, TypeOK, Filled, TxsFilled, Sent
<1>5. ASSUME NEW c \in Clients, NEW g \in Goals, NEW p \in Keys, BeginCheckIn(c, g, p)
      PROVE  TypeInv'
  <2> DEFINE call == [Idle EXCEPT !.at = "checkin", !.goal = g, !.period = p]
  <2>1. call \in Call /\ CallFilled(call)
    BY IdleTypes DEF Call, CallFilled, Charging
  <2>2. UNCHANGED <<now, goals, checkIns, violations, txs, budget>> /\ Goto(c, call)
    BY <1>5 DEF BeginCheckIn, store
  <2> HIDE DEF call
  <2> QED
    BY <2>1, <2>2, GotoTypes DEF Callers, TypeInv, TypeOK, Filled, TxsFilled, Sent
<1>6. ASSUME NEW c \in Callers, NEW ok \in BOOLEAN, UpsertCheckIn(c, ok) PROVE TypeInv'
  <2>1. <<calls[c].goal, calls[c].period>> \in Goals \X Keys
    BY <1>6 DEF UpsertCheckIn, TypeInv, Filled, CallFilled
  <2>2. checkIns' \in [Goals \X Keys -> Time \union {Never}]
    BY <1>6, <2>1 DEF UpsertCheckIn, TypeInv, TypeOK
  <2>3. UNCHANGED <<now, goals, violations, txs>> /\ Return(c, ok) /\ Acked(c, ok)
    BY <1>6 DEF UpsertCheckIn
  <2> QED
    BY <2>2, <2>3, ReturnTypes, FaultTypes DEF TypeInv, TypeOK, Filled, TxsFilled, Sent
<1>7. ASSUME NEW c \in Clients, NEW g \in Goals, NEW p \in Keys, BeginReport(c, g, p)
      PROVE  TypeInv'
  <2>1. Reporting(g, p, "reported") \in Call /\ CallFilled(Reporting(g, p, "reported"))
    BY ReportingTypes
  <2>2. UNCHANGED <<now, goals, checkIns, violations, txs, budget>>
        /\ Goto(c, Reporting(g, p, "reported"))
    BY <1>7 DEF BeginReport, store
  <2> QED
    BY <2>1, <2>2, GotoTypes DEF Callers, TypeInv, TypeOK, Filled, TxsFilled, Sent
<1>8. ASSUME NEW c \in Callers, NEW ok \in BOOLEAN, CreateViolation(c, ok) PROVE TypeInv'
  <2>1. calls[c] \in Call /\ calls[c].goal \in Goals /\ calls[c].period \in Keys
    BY <1>8 DEF CreateViolation, TypeInv, TypeOK, Filled, CallFilled
  <2>2. NewRow(calls[c]) \in Row
    BY <2>1 DEF NewRow, Row, Call, None
  <2>3. UNCHANGED <<now, goals, checkIns, txs>> /\ Acked(c, ok)
    BY <1>8 DEF CreateViolation
  <2>4. CASE Return(c, ok) /\ UNCHANGED violations
    BY <2>3, <2>4, ReturnTypes, FaultTypes DEF TypeInv, TypeOK, Filled, TxsFilled, Sent
  <2>5. ASSUME NEW v \in Rows, violations' = [violations EXCEPT ![v] = NewRow(calls[c])],
               IF ok THEN Goto(c, [calls[c] EXCEPT !.at = "charge", !.row = v])
                     ELSE Return(c, FALSE)
        PROVE  TypeInv'
    <3>1. violations' \in [Rows -> Row]
      BY <2>2, <2>5 DEF TypeInv, TypeOK, Filled, TxsFilled, Sent
    <3> DEFINE call == [calls[c] EXCEPT !.at = "charge", !.row = v]
    <3>2. call \in Call /\ CallFilled(call)
      BY <2>1 DEF Call, CallFilled, Charging
    <3>3. CASE ok /\ Goto(c, call)
      <4> HIDE DEF call
      <4> QED
        BY <2>3, <3>1, <3>2, <3>3, GotoTypes, FaultTypes DEF TypeInv, TypeOK, Filled, TxsFilled, Sent
    <3>4. CASE ~ok /\ Return(c, FALSE)
      BY <2>3, <3>1, <3>4, ReturnTypes, FaultTypes DEF TypeInv, TypeOK, Filled, TxsFilled, Sent
    <3> QED
      BY <2>5, <3>3, <3>4
  <2> QED
    BY <1>8, <2>4, <2>5 DEF CreateViolation
<1>9. ASSUME NEW c \in Callers, NEW ok \in BOOLEAN, UpdateViolation(c, ok) PROVE TypeInv'
  <2>1. calls[c] \in Call /\ calls[c].row \in Rows
    BY <1>9 DEF UpdateViolation, TypeInv, TypeOK, Filled, CallFilled, Charging
  <2> DEFINE row == [violations[calls[c].row] EXCEPT !.status = calls[c].status, !.hash = calls[c].hash]
  <2>2. violations[calls[c].row] \in Row
    BY <2>1 DEF TypeInv, TypeOK
  <2>3. row \in Row
    BY <2>1, <2>2 DEF Row, Call
  <2>4. violations' = [violations EXCEPT ![calls[c].row] = row]
    BY <1>9, <2>1 DEF UpdateViolation, TypeInv, TypeOK
  <2>5. violations' \in [Rows -> Row]
    BY <2>3, <2>4 DEF TypeInv, TypeOK
  <2>6. UNCHANGED <<now, goals, checkIns, txs>> /\ Acked(c, ok)
        /\ Return(c, ok /\ calls[c].status = "charged")
    BY <1>9 DEF UpdateViolation
  <2>7. TxsFilled'
    BY <2>6 DEF TypeInv, TypeOK, Filled, TxsFilled, Sent
  <2> QED
    BY <2>5, <2>6, <2>7, ReturnTypes, FaultTypes DEF TypeInv, TypeOK, Filled
<1>10. ASSUME NEW c \in Callers, NEW h \in Hashes, calls[c].at = "charge", Broadcast(c, h)
       PROVE  txs' \in [Hashes -> Tx] /\ TxsFilled'
  <2>1. calls[c] \in Call /\ calls[c].row \in Rows
    BY <1>10 DEF TypeInv, TypeOK, Filled, CallFilled, Charging
  <2> QED
    BY <1>10, <2>1 DEF Broadcast, Tx, Call, TypeInv, TypeOK, Filled, TxsFilled, Sent
<1>11. ASSUME NEW c \in Callers, RefuseTransact(c) PROVE TypeInv'
  <2>1. UNCHANGED <<now, goals, checkIns, violations, txs, budget>> /\ Outcome(c, "failed", None)
        /\ Charging(calls[c])
    BY <1>11 DEF RefuseTransact, store, Charging
  <2> QED
    BY <2>1, OutcomeTypes DEF None, TypeInv, TypeOK, Filled, TxsFilled, Sent
<1>12. ASSUME NEW c \in Callers, Transact(c) PROVE TypeInv'
  <2>1. PICK h \in Hashes :
          Broadcast(c, h) /\ Goto(c, [calls[c] EXCEPT !.at = "wait", !.hash = h])
    BY <1>12 DEF Transact
  <2>2. calls[c] \in Call /\ calls[c].row \in Rows
    BY <1>12 DEF Transact, TypeInv, TypeOK, Filled, CallFilled, Charging
  <2> DEFINE call == [calls[c] EXCEPT !.at = "wait", !.hash = h]
  <2>3. call \in Call /\ CallFilled(call)
    BY <2>2 DEF Call, CallFilled, Charging
  <2>4. UNCHANGED <<now, goals, checkIns, violations, budget>> /\ txs' \in [Hashes -> Tx] /\ TxsFilled'
    BY <1>10, <1>12, <2>1 DEF Transact, store
  <2> HIDE DEF call
  <2> QED
    BY <2>1, <2>3, <2>4, GotoTypes DEF call, TypeInv, TypeOK, Filled
<1>13. ASSUME NEW c \in Callers, TransactUnanswered(c) PROVE TypeInv'
  <2>1. PICK h \in Hashes : Broadcast(c, h)
    BY <1>13 DEF TransactUnanswered
  <2>2. UNCHANGED <<now, goals, checkIns, violations>> /\ txs' \in [Hashes -> Tx] /\ TxsFilled'
    BY <1>10, <1>13, <2>1 DEF TransactUnanswered, store
  <2>3. budget' \in 0 .. MaxFaults
    BY <1>13, FaultTypes DEF TransactUnanswered, TypeInv, TypeOK
  <2>4. Charging(calls[c]) /\ Outcome(c, "failed", None)
    BY <1>13 DEF TransactUnanswered, Charging
  <2> QED
    BY <2>2, <2>3, <2>4, OutcomeTypes DEF None, TypeInv, TypeOK, Filled
<1>14. ASSUME NEW c \in Callers, WaitMined(c) PROVE TypeInv'
  <2>1. UNCHANGED <<now, goals, checkIns, violations, txs, budget>>
        /\ Charging(calls[c]) /\ calls[c].hash \in Hashes
    BY <1>14 DEF WaitMined, store, Charging, TypeInv, Filled, CallFilled
  <2>2. PICK status \in {"charged", "failed"} : Outcome(c, status, calls[c].hash)
    BY <1>14 DEF WaitMined
  <2> QED
    BY <2>1, <2>2, OutcomeTypes DEF TypeInv, TypeOK, Filled, TxsFilled, Sent
<1>15. ASSUME NEW c \in Callers, CallFails(c) PROVE TypeInv'
  <2>1. UNCHANGED <<now, goals, checkIns, violations, txs>> /\ StoreFault(c) /\ Return(c, FALSE)
    BY <1>15 DEF CallFails
  <2> QED
    BY <2>1, ReturnTypes, FaultTypes DEF TypeInv, TypeOK, Filled, TxsFilled, Sent
<1>16. CASE Tick
  <2>1. sched' \in SchedState
    BY <1>16 DEF Tick, SchedState, TypeInv, TypeOK
  <2> QED
    BY <1>16, <2>1 DEF Tick, store, TypeInv, TypeOK, Filled, TxsFilled, Sent
<1>17. CASE ListActiveGoals
  <2>1. DuePairs(sched.tick) \in SUBSET (Goals \X Periods)
    BY DEF DuePairs
  <2>2. sched' \in SchedState
    <3> DEFINE due == DuePairs(sched.tick)
    <3>1. sched' = [at |-> "scan", tick |-> 0, todo |-> due]
      BY <1>17 DEF ListActiveGoals
    <3> HIDE DEF due
    <3> QED
      BY <2>1, <3>1 DEF SchedState, Time, due
  <2> QED
    BY <1>17, <2>2 DEF ListActiveGoals, store, TypeInv, TypeOK, Filled, TxsFilled, Sent
<1>18. CASE GetCheckIn
  <2>1. sched \in SchedState
    BY DEF TypeInv, TypeOK
  <2>2. sched' \in SchedState
    <3>1. PICK d : \/ sched' = [sched EXCEPT !.todo = sched.todo \ {d}]
                   \/ sched' = [sched EXCEPT !.at = "owner"]
      BY <1>18 DEF GetCheckIn
    <3> QED
      BY <2>1, <3>1 DEF SchedState
  <2> QED
    BY <1>18, <2>2 DEF GetCheckIn, store, TypeInv, TypeOK, Filled, TxsFilled, Sent
<1>19. CASE ReportMissed
  <2>1. PICK d \in sched.todo :
          IF IsActive(d[1])
            THEN /\ calls' = [calls EXCEPT ![Sched] = Reporting(d[1], d[2], "missed deadline")]
                 /\ sched' = [sched EXCEPT !.at = "report"]
            ELSE /\ sched' = IdleSched
                 /\ UNCHANGED calls
    BY <1>19 DEF ReportMissed
  <2>2. sched \in SchedState /\ d[1] \in Goals /\ d[2] \in Periods
    BY <2>1 DEF SchedState, TypeInv, TypeOK
  <2>3. Reporting(d[1], d[2], "missed deadline") \in Call
        /\ CallFilled(Reporting(d[1], d[2], "missed deadline"))
    BY <2>2, ReportingTypes DEF Keys
  <2>4. [sched EXCEPT !.at = "report"] \in SchedState
    BY <2>2 DEF SchedState
  <2>5. UNCHANGED <<now, goals, checkIns, violations, txs, ctx, budget>>
    BY <1>19 DEF ReportMissed, store
  <2>6. /\ calls' \in [Callers -> Call]
        /\ \A c \in Callers : CallFilled(calls'[c])
    BY <2>1, <2>3 DEF TypeInv, TypeOK, Filled
  <2>7. sched' \in SchedState
    BY <2>1, <2>4, IdleTypes
  <2> QED
    BY <2>5, <2>6, <2>7 DEF TypeInv, TypeOK, Filled, TxsFilled, Sent
<1>20. CASE EndRun
  BY <1>20, IdleTypes DEF EndRun, store, TypeInv, TypeOK, Filled, TxsFilled, Sent
<1>21. CASE RunFails
  <2>1. budget' \in 0 .. MaxFaults
    BY <1>21, FaultTypes DEF RunFails, Callers
  <2> QED
    BY <1>21, <2>1, IdleTypes DEF RunFails, store, TypeInv, TypeOK, Filled, TxsFilled, Sent
<1>22. CASE Clock
  BY <1>22 DEF Clock, store, Time, TypeInv, TypeOK, Filled, TxsFilled, Sent
<1>23. ASSUME NEW h \in Hashes, Mine(h) \/ Drop(h) PROVE TypeInv'
  <2>1. PICK state \in {"success", "reverted", "dropped"} : txs' = [txs EXCEPT ![h].state = state]
    BY <1>23 DEF Mine, Drop
  <2>2. txs[h] \in Tx /\ txs[h].state = "pending"
    BY <1>23 DEF Mine, Drop, TypeInv, TypeOK
  <2>3. txs' \in [Hashes -> Tx] /\ TxsFilled'
    BY <2>1, <2>2 DEF Tx, TypeInv, TypeOK, Filled, TxsFilled, Sent
  <2>4. budget' \in 0 .. MaxFaults
    BY <1>23 DEF Mine, Drop, Fault, TypeInv, TypeOK
  <2> QED
    BY <1>23, <2>3, <2>4 DEF Mine, Drop, store, TypeInv, TypeOK, Filled
<1>24. ASSUME NEW c \in Clients, Disconnect(c) PROVE TypeInv'
  <2>1. UNCHANGED <<now, goals, checkIns, violations, txs, calls, sched>> /\ c \in Callers
        /\ ctx' = [ctx EXCEPT ![c] = "done"]
    BY <1>24 DEF Disconnect, store, Callers
  <2>2. budget' \in 0 .. MaxFaults
    BY <1>24 DEF Disconnect, Fault, TypeInv, TypeOK
  <2> QED
    BY <2>1, <2>2 DEF TypeInv, TypeOK, Filled, TxsFilled, Sent
<1>25. CASE Shutdown
  <2>1. UNCHANGED <<now, goals, checkIns, violations, txs, calls, sched>> /\ Sched \in Callers
        /\ ctx' = [ctx EXCEPT ![Sched] = "done"]
    BY <1>25 DEF Shutdown, store, Callers
  <2>2. budget' \in 0 .. MaxFaults
    BY <1>25 DEF Shutdown, Fault, TypeInv, TypeOK
  <2> QED
    BY <2>1, <2>2 DEF TypeInv, TypeOK, Filled, TxsFilled, Sent
<1>26. CASE Crash \/ Restart
  BY <1>26, IdleTypes DEF Crash, Restart, Restarted, Fault, store, TypeInv, TypeOK, Filled, TxsFilled, Sent
<1>27. CASE UNCHANGED vars
  BY <1>27 DEF vars, TypeInv, TypeOK, Filled, TxsFilled, Sent
<1> QED
  BY <1>1, <1>2, <1>3, <1>4, <1>5, <1>6, <1>7, <1>8, <1>9, <1>11, <1>12, <1>13, <1>14, <1>15,
     <1>16, <1>17, <1>18, <1>19, <1>20, <1>21, <1>22, <1>23, <1>24, <1>25, <1>26, <1>27
     DEF Next, Request, Proceed, SchedStep, Environment

\* Every state of every behaviour is well-typed.
THEOREM TypeCorrect == Spec => []TypeOK
<1>1. Spec => []TypeInv
  BY InitTypes, TypesNext, PTL DEF Spec
<1>2. TypeInv => TypeOK
  BY DEF TypeInv
<1> QED
  BY <1>1, <1>2, PTL

-----------------------------------------------------------------------------
(* Money: no double charge, the amount recorded, charged means burned. The   *)
(* argument is ownership. A handler between CreateViolation and              *)
(* UpdateViolation is the only one that holds its row, the row is still      *)
(* pending, and until it has called Transact no transaction exists for it.   *)
(* The row itself was inserted past the unique index.                        *)

HoldsPending ==
  \A c \in Callers : Charging(calls[c]) => violations[calls[c].row].status = "pending"

OneHolder ==
  \A c, d \in Callers :
    Charging(calls[c]) /\ Charging(calls[d]) /\ calls[c].row = calls[d].row => c = d

BeforeTransact ==
  \A c \in Callers : calls[c].at = "charge" =>
    /\ calls[c].stake = violations[calls[c].row].amount
    /\ \A h \in Hashes : Sent(h) => txs[h].for # calls[c].row

AfterTransact ==
  \A c \in Callers :
    /\ calls[c].at = "wait" =>
         Sent(calls[c].hash) /\ txs[calls[c].hash].for = calls[c].row
    /\ calls[c].at = "update" /\ calls[c].status = "charged" =>
         /\ calls[c].hash \in Hashes
         /\ txs[calls[c].hash].for = calls[c].row
         /\ txs[calls[c].hash].state = "success"

OneTxPerRow ==
  \A h, k \in Hashes : Sent(h) /\ Sent(k) /\ txs[h].for = txs[k].for => h = k

UniqueIndex ==
  \A v, w \in Rows :
    /\ Exists(v) /\ Exists(w) /\ violations[v].keyed /\ violations[w].keyed
    /\ violations[v].goal = violations[w].goal
    /\ violations[v].period = violations[w].period
    => v = w

ChargeInv ==
  /\ HoldsPending /\ OneHolder /\ BeforeTransact /\ AfterTransact
  /\ OneTxPerRow /\ UniqueIndex
  /\ ChargesRecordedAmount /\ ChargedMeansBurned

LEMMA ChargeInit == Init => ChargeInv
  BY ConstantsAssumption
     DEF Init, ChargeInv, HoldsPending, OneHolder, BeforeTransact, AfterTransact, OneTxPerRow,
         UniqueIndex, ChargesRecordedAmount, ChargedMeansBurned, Charging, Sent, Exists,
         Idle, NoRow, NoTx

\* A step that leaves rows and transactions alone and puts no handler into, or
\* further along, the charging of a row.
LEMMA QuietStep ==
  ASSUME ChargeInv, violations' = violations, txs' = txs,
         \A c \in Callers : Charging(calls'[c]) => calls'[c] = calls[c]
  PROVE  ChargeInv'
  BY DEF ChargeInv, HoldsPending, OneHolder, BeforeTransact, AfterTransact, OneTxPerRow,
         UniqueIndex, ChargesRecordedAmount, ChargedMeansBurned, Charging, Sent, Exists

LEMMA ReturnIsQuiet ==
  ASSUME TypeInv, NEW c \in Callers, NEW ok, Return(c, ok)
  PROVE  \A d \in Callers : Charging(calls'[d]) => calls'[d] = calls[d]
  BY DEF Return, Idle, Charging, TypeInv, TypeOK

LEMMA GotoIsQuiet ==
  ASSUME TypeInv, NEW c \in Callers, NEW call, ~Charging(call), Goto(c, call)
  PROVE  \A d \in Callers : Charging(calls'[d]) => calls'[d] = calls[d]
  BY DEF Goto, TypeInv, TypeOK

LEMMA ChargeNext == TypeInv /\ TypeInv' /\ ChargeInv /\ [Next]_vars => ChargeInv'
<1> SUFFICES ASSUME TypeInv, TypeInv', ChargeInv, [Next]_vars PROVE ChargeInv'
  OBVIOUS
<1>1. ASSUME NEW g \in Goals, CreateGoal(g) \/ ArchiveGoal(g) PROVE ChargeInv'
  BY <1>1, QuietStep DEF CreateGoal, ArchiveGoal
<1>2. ASSUME NEW c \in Clients, Request(c) PROVE ChargeInv'
  <2> SUFFICES ASSUME UNCHANGED <<violations, txs>>
               PROVE  \A d \in Callers : Charging(calls'[d]) => calls'[d] = calls[d]
    BY <1>2, QuietStep DEF Request, BeginGoalUpdate, BeginCheckIn, BeginReport, store
  <2>1. ASSUME NEW g \in Goals, BeginGoalUpdate(c, g)
        PROVE  \A d \in Callers : Charging(calls'[d]) => calls'[d] = calls[d]
    <3>1. PICK stake \in Stakes, end \in EndTimes :
            Goto(c, [Idle EXCEPT !.at = "write", !.goal = g, !.stake = stake, !.endsAt = end])
      BY <2>1 DEF BeginGoalUpdate
    <3>2. ~Charging([Idle EXCEPT !.at = "write", !.goal = g, !.stake = stake, !.endsAt = end])
      BY DEF Idle, Charging
    <3> QED
      BY <3>1, <3>2, GotoIsQuiet DEF Callers
  <2>2. ASSUME NEW g \in Goals, NEW p \in Keys, BeginCheckIn(c, g, p)
        PROVE  \A d \in Callers : Charging(calls'[d]) => calls'[d] = calls[d]
    <3>1. Goto(c, [Idle EXCEPT !.at = "checkin", !.goal = g, !.period = p])
      BY <2>2 DEF BeginCheckIn
    <3>2. ~Charging([Idle EXCEPT !.at = "checkin", !.goal = g, !.period = p])
      BY DEF Idle, Charging
    <3> QED
      BY <3>1, <3>2, GotoIsQuiet DEF Callers
  <2>3. ASSUME NEW g \in Goals, NEW p \in Keys, BeginReport(c, g, p)
        PROVE  \A d \in Callers : Charging(calls'[d]) => calls'[d] = calls[d]
    <3>1. Goto(c, Reporting(g, p, "reported"))
      BY <2>3 DEF BeginReport
    <3>2. ~Charging(Reporting(g, p, "reported"))
      BY DEF Reporting, Idle, Charging
    <3> QED
      BY <3>1, <3>2, GotoIsQuiet DEF Callers
  <2> QED
    BY <1>2, <2>1, <2>2, <2>3 DEF Request
<1>3. ASSUME NEW c \in Callers, NEW ok \in BOOLEAN, WriteGoal(c, ok) \/ UpsertCheckIn(c, ok) \/ CallFails(c)
      PROVE  ChargeInv'
  <2>1. UNCHANGED <<violations, txs>> /\ (Return(c, ok) \/ Return(c, FALSE))
    BY <1>3 DEF WriteGoal, UpsertCheckIn, CallFails
  <2> QED
    BY <2>1, ReturnIsQuiet, QuietStep
<1>4. ASSUME SchedStep PROVE ChargeInv'
  <2>1. UNCHANGED <<violations, txs>>
    BY <1>4 DEF SchedStep, Tick, ListActiveGoals, GetCheckIn, ReportMissed, EndRun, RunFails, store
  <2>2. CASE UNCHANGED calls
    BY <2>1, <2>2, QuietStep
  <2>3. CASE ~UNCHANGED calls
    <3>1. PICK d : calls' = [calls EXCEPT ![Sched] = Reporting(d[1], d[2], "missed deadline")]
      BY <1>4, <2>3
         DEF SchedStep, Tick, ListActiveGoals, GetCheckIn, ReportMissed, EndRun, RunFails
    <3>2. ~Charging(Reporting(d[1], d[2], "missed deadline"))
      BY DEF Reporting, Idle, Charging
    <3> QED
      BY <2>1, <3>1, <3>2, QuietStep DEF TypeInv, TypeOK
  <2> QED
    BY <2>2, <2>3
<1>5. ASSUME Clock \/ Shutdown \/ \E c \in Clients : Disconnect(c) PROVE ChargeInv'
  BY <1>5, QuietStep DEF Clock, Shutdown, Disconnect, store
<1>6. ASSUME Crash \/ Restart PROVE ChargeInv'
  <2>1. UNCHANGED <<violations, txs>> /\ calls' = [c \in Callers |-> Idle]
    BY <1>6 DEF Crash, Restart, Restarted, store
  <2>2. ~Charging(Idle)
    BY DEF Idle, Charging
  <2> QED
    BY <2>1, <2>2, QuietStep
<1>7. ASSUME UNCHANGED vars PROVE ChargeInv'
  BY <1>7, QuietStep DEF vars
<1>8. ASSUME NEW c \in Callers, NEW ok \in BOOLEAN, CreateViolation(c, ok) PROVE ChargeInv'
  <2>1. UNCHANGED txs
    BY <1>8 DEF CreateViolation
  <2>2. CASE Return(c, ok) /\ UNCHANGED violations
    BY <2>1, <2>2, ReturnIsQuiet, QuietStep
  <2>3. ASSUME NEW v \in Rows, NextRow(v), ~Conflicts(calls[c]),
               violations' = [violations EXCEPT ![v] = NewRow(calls[c])],
               IF ok THEN Goto(c, [calls[c] EXCEPT !.at = "charge", !.row = v])
                     ELSE Return(c, FALSE)
        PROVE  ChargeInv'
    <3>1. ~Exists(v) /\ \A w \in Rows : w # v => violations'[w] = violations[w]
      BY <2>3 DEF NextRow, Exists, TypeInv, TypeOK
    <3>2. /\ violations'[v].status = "pending" /\ violations'[v].amount = calls[c].stake
          /\ violations'[v].goal = calls[c].goal /\ violations'[v].period = calls[c].period
          /\ violations'[v].keyed => calls[c].kind = "do"
      BY <2>3 DEF NewRow, TypeInv, TypeOK
    <3>3. \A h \in Hashes : Sent(h) => txs[h].for # v
      BY <3>1 DEF ChargeInv, ChargesRecordedAmount
    <3>4. \A d \in Callers : Charging(calls[d]) => calls[d].row # v
      BY <3>1 DEF ChargeInv, HoldsPending, Exists
    <3>5. calls[c] \in Call /\ ~Charging(calls[c])
      BY <1>8 DEF CreateViolation, Charging, TypeInv, TypeOK
    <3>6. \A d \in Callers : Charging(calls'[d]) =>
            \/ calls'[d] = calls[d] /\ calls'[d].row # v
            \/ /\ d = c /\ calls'[d].at = "charge" /\ calls'[d].row = v
               /\ calls'[d].stake = calls[c].stake
      <4>1. CASE ok /\ Goto(c, [calls[c] EXCEPT !.at = "charge", !.row = v])
        <5>1. calls'[c] = [calls[c] EXCEPT !.at = "charge", !.row = v]
              /\ \A d \in Callers : d # c => calls'[d] = calls[d]
          BY <4>1 DEF Goto, TypeInv, TypeOK
        <5>2. calls'[c].at = "charge" /\ calls'[c].row = v /\ calls'[c].stake = calls[c].stake
          BY <3>5, <5>1 DEF Call
        <5> QED
          BY <3>4, <5>1, <5>2
      <4>2. CASE ~ok /\ Return(c, FALSE)
        BY <3>4, <4>2, ReturnIsQuiet
      <4> QED
        BY <2>3, <4>1, <4>2
    <3>7. HoldsPending' /\ OneHolder'
      BY <3>1, <3>2, <3>6 DEF ChargeInv, HoldsPending, OneHolder, TypeInv, Filled, CallFilled
    <3>8. BeforeTransact' /\ AfterTransact'
      BY <2>1, <3>1, <3>2, <3>3, <3>6
         DEF ChargeInv, BeforeTransact, AfterTransact, Charging, Sent, TypeInv, Filled, CallFilled
    <3>9. UniqueIndex'
      <4> SUFFICES ASSUME NEW w \in Rows, w # v, Exists(w), violations[w].keyed,
                          calls[c].kind = "do", violations[w].goal = calls[c].goal,
                          violations[w].period = calls[c].period
                   PROVE  FALSE
        BY <3>1, <3>2 DEF ChargeInv, UniqueIndex, Exists
      <4> QED
        BY <2>3 DEF Conflicts, Exists
    <3>10. OneTxPerRow' /\ ChargesRecordedAmount' /\ ChargedMeansBurned'
      BY <2>1, <3>1, <3>2, <3>3
         DEF ChargeInv, OneTxPerRow, ChargesRecordedAmount, ChargedMeansBurned, Exists, Sent,
             TypeInv, Filled, TxsFilled
    <3> QED
      BY <3>7, <3>8, <3>9, <3>10 DEF ChargeInv
  <2> QED
    BY <1>8, <2>2, <2>3 DEF CreateViolation
<1>9. ASSUME NEW c \in Callers, RefuseTransact(c) \/ WaitMined(c) PROVE ChargeInv'
  <2>1. Charging(calls[c]) /\ UNCHANGED <<violations, txs>> /\ calls[c] \in Call
    BY <1>9 DEF RefuseTransact, WaitMined, Charging, store, TypeInv, TypeOK
  <2>2. PICK status \in {"charged", "failed"}, hash \in Hashes \union {None} :
          /\ calls' = [calls EXCEPT ![c] = [calls[c] EXCEPT !.at = "update", !.status = status, !.hash = hash]]
          /\ status = "charged" => /\ hash \in Hashes /\ txs[hash].for = calls[c].row
                                   /\ txs[hash].state = "success"
    <3>1. CASE RefuseTransact(c)
      BY <3>1 DEF RefuseTransact, Outcome, Goto, None
    <3>2. CASE WaitMined(c)
      <4>1. calls[c].hash \in Hashes /\ txs[calls[c].hash].for = calls[c].row
        BY <3>2 DEF WaitMined, ChargeInv, AfterTransact, TypeInv, Filled, CallFilled
      <4> QED
        BY <3>2, <4>1 DEF WaitMined, Outcome, Goto
    <3> QED
      BY <1>9, <3>1, <3>2
  <2>3. calls'[c] = [calls[c] EXCEPT !.at = "update", !.status = status, !.hash = hash]
        /\ \A d \in Callers : d # c => calls'[d] = calls[d]
    BY <2>2 DEF TypeInv, TypeOK
  <2>4. calls'[c].row = calls[c].row /\ calls'[c].at = "update" /\ calls'[c].status = status /\ calls'[c].hash = hash
    BY <2>1, <2>3 DEF Call
  <2> QED
    BY <2>1, <2>2, <2>3, <2>4
     DEF ChargeInv, HoldsPending, OneHolder, BeforeTransact, AfterTransact, OneTxPerRow,
         UniqueIndex, ChargesRecordedAmount, ChargedMeansBurned, Charging, Sent, Exists
<1>10. ASSUME NEW c \in Callers, NEW h \in Hashes, calls[c].at = "charge", Broadcast(c, h), UNCHANGED violations,
              Charging(calls'[c]), calls'[c].row = calls[c].row, calls'[c].at # "charge",
              calls'[c].at = "wait" => calls'[c].hash = h,
              calls'[c].at = "update" => calls'[c].status = "failed",
              \A d \in Callers : d # c => calls'[d] = calls[d]
       PROVE  ChargeInv'
  <2>1. txs[h].state = "none" /\ \A k \in Hashes : k # h => txs'[k] = txs[k]
    BY <1>10 DEF Broadcast, NextTx, Sent, TypeInv, TypeOK
  <2>2. txs'[h] = [for |-> calls[c].row, amount |-> calls[c].stake, state |-> "pending"]
    BY <1>10 DEF Broadcast, TypeInv, TypeOK
  <2>3. HoldsPending' /\ OneHolder'
    BY <1>10 DEF ChargeInv, HoldsPending, OneHolder, Charging
  <2>4. BeforeTransact' /\ AfterTransact'
    BY <1>10, <2>1, <2>2 DEF ChargeInv, BeforeTransact, AfterTransact, OneHolder, Charging, Sent, TypeInv, Filled, CallFilled
  <2>5. OneTxPerRow' /\ ChargesRecordedAmount' /\ ChargedMeansBurned' /\ UniqueIndex'
    BY <1>10, <2>1, <2>2
     DEF ChargeInv, HoldsPending, OneHolder, BeforeTransact, AfterTransact, OneTxPerRow,
         UniqueIndex, ChargesRecordedAmount, ChargedMeansBurned, Charging, Sent, Exists
  <2> QED
    BY <2>3, <2>4, <2>5 DEF ChargeInv
<1>11. ASSUME NEW c \in Callers, Transact(c) \/ TransactUnanswered(c) PROVE ChargeInv'
  <2>1. calls[c].at = "charge" /\ UNCHANGED violations /\ calls[c] \in Call
    BY <1>11 DEF Transact, TransactUnanswered, store, TypeInv, TypeOK
  <2>2. CASE Transact(c)
    <3>1. PICK h \in Hashes : Broadcast(c, h) /\ calls' = [calls EXCEPT ![c] = [calls[c] EXCEPT !.at = "wait", !.hash = h]]
      BY <2>2 DEF Transact, Goto
    <3>2. calls'[c] = [calls[c] EXCEPT !.at = "wait", !.hash = h] /\ \A d \in Callers : d # c => calls'[d] = calls[d]
      BY <3>1 DEF TypeInv, TypeOK
    <3>3. calls'[c].at = "wait" /\ calls'[c].hash = h /\ calls'[c].row = calls[c].row
      BY <2>1, <3>2 DEF Call
    <3> QED
      BY <1>10, <2>1, <3>1, <3>2, <3>3 DEF Charging
  <2>3. CASE TransactUnanswered(c)
    <3>1. PICK h \in Hashes : Broadcast(c, h)
      BY <2>3 DEF TransactUnanswered
    <3>2. calls'[c] = [calls[c] EXCEPT !.at = "update", !.status = "failed", !.hash = None]
          /\ \A d \in Callers : d # c => calls'[d] = calls[d]
      BY <2>3 DEF TransactUnanswered, Outcome, Goto, TypeInv, TypeOK
    <3>3. calls'[c].at = "update" /\ calls'[c].status = "failed" /\ calls'[c].row = calls[c].row
      BY <2>1, <3>2 DEF Call
    <3> QED
      BY <1>10, <2>1, <3>1, <3>2, <3>3 DEF Charging
  <2> QED
    BY <1>11, <2>2, <2>3
<1>12. ASSUME NEW c \in Callers, NEW ok \in BOOLEAN, UpdateViolation(c, ok) PROVE ChargeInv'
  <2> DEFINE v == calls[c].row
  <2>1. calls[c].at = "update" /\ calls[c] \in Call /\ v \in Rows /\ violations[v] \in Row /\ UNCHANGED txs
    BY <1>12 DEF UpdateViolation, Charging, TypeInv, TypeOK, Filled, CallFilled
  <2>2. violations' = [violations EXCEPT ![v] = [violations[v] EXCEPT !.status = calls[c].status, !.hash = calls[c].hash]]
    BY <1>12, <2>1 DEF UpdateViolation, TypeInv, TypeOK
  <2>3. /\ violations'[v].status = calls[c].status /\ violations'[v].hash = calls[c].hash
        /\ violations'[v].goal = violations[v].goal /\ violations'[v].period = violations[v].period
        /\ violations'[v].keyed = violations[v].keyed /\ violations'[v].amount = violations[v].amount
        /\ \A w \in Rows : w # v => violations'[w] = violations[w]
    BY <2>1, <2>2 DEF Row, TypeInv, TypeOK
  <2>4. \A d \in Callers : Charging(calls'[d]) => calls'[d] = calls[d] /\ calls[d].row # v
    <3>1. ~Charging(calls'[c]) /\ \A d \in Callers : d # c => calls'[d] = calls[d]
      BY <1>12 DEF UpdateViolation, Return, Idle, Charging, TypeInv, TypeOK
    <3> QED
      BY <2>1, <3>1 DEF ChargeInv, OneHolder, Charging
  <2>5. violations[v].status = "pending" /\ calls[c].status \in {"charged", "failed"}
    BY <2>1 DEF ChargeInv, HoldsPending, Charging, Call
  <2> HIDE DEF v
  <2>6. HoldsPending' /\ OneHolder'
    BY <2>3, <2>4 DEF ChargeInv, HoldsPending, OneHolder, TypeInv, Filled, CallFilled
  <2>7. BeforeTransact' /\ AfterTransact'
    BY <2>1, <2>3, <2>4 DEF ChargeInv, BeforeTransact, AfterTransact, Charging, Sent, TypeInv, Filled, CallFilled
  <2>8. OneTxPerRow' /\ ChargesRecordedAmount'
    <3>1. \A w \in Rows : violations'[w].amount = violations[w].amount /\ (Exists(w) => Exists(w)')
      BY <2>3, <2>5 DEF Exists
    <3>2. OneTxPerRow'
      BY <2>1 DEF ChargeInv, OneTxPerRow, Sent
    <3>3. ChargesRecordedAmount'
      BY <2>1, <3>1 DEF ChargeInv, ChargesRecordedAmount, Sent, TypeInv, Filled, TxsFilled
    <3> QED
      BY <3>2, <3>3
  <2>9. UniqueIndex'
    <3>1. \A w \in Rows : /\ Exists(w)' => Exists(w)
                          /\ violations'[w].keyed = violations[w].keyed
                          /\ violations'[w].goal = violations[w].goal
                          /\ violations'[w].period = violations[w].period
      BY <2>3, <2>5 DEF Exists
    <3> QED
      BY <3>1, Zenon DEF ChargeInv, UniqueIndex
  <2>10. ChargedMeansBurned'
    BY <2>1, <2>3, <2>5 DEF ChargeInv, ChargedMeansBurned, AfterTransact, v
  <2> QED
    BY <2>6, <2>7, <2>8, <2>9, <2>10 DEF ChargeInv
<1>13. ASSUME NEW h \in Hashes, Mine(h) \/ Drop(h) PROVE ChargeInv'
  <2>1. PICK state \in {"success", "reverted", "dropped"} : txs' = [txs EXCEPT ![h].state = state]
    BY <1>13 DEF Mine, Drop
  <2>2. txs[h] \in Tx /\ txs[h].state = "pending" /\ UNCHANGED <<violations, calls>>
    BY <1>13 DEF Mine, Drop, store, TypeInv, TypeOK
  <2>3. /\ txs'[h].state # "none" /\ txs'[h].for = txs[h].for /\ txs'[h].amount = txs[h].amount
        /\ \A k \in Hashes : k # h => txs'[k] = txs[k]
    BY <2>1, <2>2 DEF Tx, TypeInv, TypeOK
  <2>4. HoldsPending' /\ OneHolder' /\ UniqueIndex'
    BY <2>2 DEF ChargeInv, HoldsPending, OneHolder, UniqueIndex, Exists
  <2>5. BeforeTransact' /\ AfterTransact'
    BY <2>2, <2>3 DEF ChargeInv, BeforeTransact, AfterTransact, Sent, Charging, TypeInv, Filled, CallFilled
  <2>6. OneTxPerRow' /\ ChargesRecordedAmount' /\ ChargedMeansBurned'
    BY <2>2, <2>3 DEF ChargeInv, OneTxPerRow, ChargesRecordedAmount, ChargedMeansBurned, Sent, Exists
  <2> QED
    BY <2>4, <2>5, <2>6 DEF ChargeInv
<1> QED
  BY <1>1, <1>2, <1>3, <1>4, <1>5, <1>6, <1>7, <1>8, <1>9, <1>11, <1>12, <1>13
     DEF Next, Proceed, Environment

LEMMA ChargeAlways == Spec => [](TypeInv /\ ChargeInv)
<1>1. Init => TypeInv /\ ChargeInv
  BY InitTypes, ChargeInit
<1>2. TypeInv /\ ChargeInv /\ [Next]_vars => (TypeInv /\ ChargeInv)'
  BY TypesNext, ChargeNext
<1> QED
  BY <1>1, <1>2, PTL DEF Spec

\* However many reports, scheduler runs, crashes and faults interleave, a
\* violation and a period of a do goal are charged at most once.
THEOREM NeverDoubleCharged == Spec => []NoDoubleCharge
<1>1. TypeInv /\ ChargeInv => NoDoubleCharge
  <2> SUFFICES ASSUME TypeInv, ChargeInv, NEW h \in Hashes, NEW k \in Hashes, Sent(h), Sent(k), h # k
               PROVE  /\ txs[h].for # txs[k].for
                      /\ violations[txs[h].for].keyed /\ violations[txs[k].for].keyed =>
                           <<violations[txs[h].for].goal, violations[txs[h].for].period>>
                             # <<violations[txs[k].for].goal, violations[txs[k].for].period>>
    BY DEF NoDoubleCharge
  <2> QED
    BY DEF ChargeInv, OneTxPerRow, UniqueIndex, ChargesRecordedAmount, TypeInv, Filled, TxsFilled
<1> QED
  BY <1>1, ChargeAlways, PTL

\* What is taken for a violation is the amount it records.
THEOREM TakesRecordedAmount == Spec => []ChargesRecordedAmount
<1>1. ChargeInv => ChargesRecordedAmount
  BY DEF ChargeInv
<1> QED
  BY <1>1, ChargeAlways, PTL

\* A violation shown as charged has been paid by the transaction it names.
THEOREM ChargedIsBurned == Spec => []ChargedMeansBurned
<1>1. ChargeInv => ChargedMeansBurned
  BY DEF ChargeInv
<1> QED
  BY <1>1, ChargeAlways, PTL

-----------------------------------------------------------------------------
(* The scheduler penalizes only real misses. That a period is over and has *)
(* no timely check-in is stable: the clock only moves on, and a check-in   *)
(* stored from now on is late. The scheduler establishes it at GetCheckIn  *)
(* and carries it, unchecked, to the insert. The keys it writes are those  *)
(* of CurrentPeriod, that is, the periods themselves.                      *)

Missed(d) == /\ PeriodEnd(d[2]) <= now
             /\ checkIns[d] = Never \/ checkIns[d] >= PeriodEnd(d[2])

RowMissed(v) ==
  Exists(v) =>
    /\ violations[v].goal \in Goals /\ violations[v].period \in Keys
    /\ violations[v].reason = "missed deadline" =>
         /\ violations[v].period \in Periods
         /\ Missed(<<violations[v].goal, violations[v].period>>)

RowsMissed == \A v \in Rows : RowMissed(v)

CallsMissed == \A c \in Callers :
                 calls[c].at = "insert" /\ calls[c].reason = "missed deadline" =>
                   calls[c].period \in Periods /\ Missed(<<calls[c].goal, calls[c].period>>)

TickPast == sched.tick <= now

SchedMissed ==
  /\ TickPast
  /\ \A d \in sched.todo : PeriodEnd(d[2]) <= now
  /\ sched.at = "owner" => \A d \in sched.todo : First(d) => Missed(d)

MissInv == RowsMissed /\ CallsMissed /\ SchedMissed

LEMMA MissInit == Init => MissInv
<1> SUFFICES ASSUME Init PROVE MissInv
  OBVIOUS
<1>1. RowsMissed
  BY DEF Init, RowsMissed, RowMissed, Exists, NoRow
<1>2. CallsMissed
  BY DEF Init, CallsMissed, Idle
<1>3. SchedMissed
  BY DEF Init, SchedMissed, TickPast, IdleSched
<1> QED
  BY <1>1, <1>2, <1>3 DEF MissInv

\* The clock does not go back, and a check-in is stored at the current time and
\* never replaced.
Onward ==
  /\ now' >= now
  /\ \A d \in Goals \X Keys :
       checkIns'[d] = checkIns[d] \/ (checkIns[d] = Never /\ checkIns'[d] = now)

LEMMA StepsOnward == TypeInv /\ [Next]_vars => Onward
<1> SUFFICES ASSUME TypeInv, [Next]_vars PROVE Onward
  OBVIOUS
<1>1. now \in Int
  BY ConstantsAssumption DEF TypeInv, TypeOK, Time
<1>2. ASSUME NEW c \in Callers, NEW ok \in BOOLEAN, UpsertCheckIn(c, ok) PROVE Onward
  BY <1>1, <1>2 DEF UpsertCheckIn, Onward, TypeInv, TypeOK
<1>3. CASE Clock
  BY <1>1, <1>3 DEF Clock, store, Onward
<1>4. CASE UNCHANGED <<now, checkIns>>
  BY <1>1, <1>4 DEF Onward
<1>5. ASSUME NEW c \in Callers, Proceed(c) PROVE Onward
  BY <1>2, <1>4, <1>5
     DEF Proceed, WriteGoal, CreateViolation, UpdateViolation, RefuseTransact, Transact,
         TransactUnanswered, WaitMined, CallFails, store
<1>6. CASE SchedStep
  BY <1>4, <1>6
     DEF SchedStep, Tick, ListActiveGoals, GetCheckIn, ReportMissed, EndRun, RunFails, store
<1>7. ASSUME NEW c \in Clients, Request(c) PROVE Onward
  BY <1>4, <1>7 DEF Request, BeginGoalUpdate, BeginCheckIn, BeginReport, store
<1>8. CASE Environment
  BY <1>3, <1>4, <1>8
     DEF Environment, Shutdown, Crash, Restart, Restarted, Mine, Drop, Disconnect, store
<1> QED
  BY <1>4, <1>5, <1>6, <1>7, <1>8 DEF Next, CreateGoal, ArchiveGoal, vars

LEMMA PeriodEndTypes ==
  ASSUME NEW p \in Periods
  PROVE  PeriodEnd(p) \in Int
  BY ConstantsAssumption DEF PeriodEnd, Periods

LEMMA EndStable ==
  ASSUME TypeInv, TypeInv', Onward, NEW p \in Periods, PeriodEnd(p) <= now
  PROVE  PeriodEnd(p) <= now'
<1>1. PeriodEnd(p) \in Int
  BY PeriodEndTypes
<1>2. now \in Int /\ now' \in Int
  BY ConstantsAssumption DEF TypeInv, TypeOK, Time
<1> QED
  BY <1>1, <1>2 DEF Onward

LEMMA MissedStable ==
  ASSUME TypeInv, TypeInv', Onward, NEW d \in Goals \X Periods, Missed(d)
  PROVE  Missed(d)'
<1>1. PeriodEnd(d[2]) \in Int
  BY PeriodEndTypes
<1>2. now \in Int /\ now' \in Int
  BY ConstantsAssumption DEF TypeInv, TypeOK, Time, Onward
<1> QED
  BY <1>1, <1>2, ConstantsAssumption DEF Missed, Onward, TypeInv, TypeOK, Time, Never, PeriodEnd, Keys

LEMMA TickStable ==
  ASSUME TypeInv, TypeInv', Onward, TickPast, sched'.tick = sched.tick
  PROVE  TickPast'
<1>1. sched.tick \in Int /\ now \in Int /\ now' \in Int
  BY ConstantsAssumption DEF TypeInv, TypeOK, SchedState, Time
<1> QED
  BY <1>1 DEF Onward, TickPast

LEMMA IdleTickPast ==
  ASSUME TypeInv', sched' = IdleSched
  PROVE  TickPast'
  BY ConstantsAssumption DEF TickPast, IdleSched, TypeInv, TypeOK, Time

\* The scheduler looks at one pair at a time.
LEMMA FirstUnique ==
  ASSUME sched \in SchedState, NEW d \in sched.todo, NEW e \in sched.todo, First(d), First(e)
  PROVE  d = e
<1>1. d \in Goals \X Periods /\ e \in Goals \X Periods
  BY DEF SchedState
<1>2. d[1] \in Int /\ d[2] \in Int /\ e[1] \in Int /\ e[2] \in Int
  BY <1>1 DEF Goals, Periods
<1>3. d[1] = e[1] /\ d[2] = e[2]
  BY <1>2 DEF First
<1> QED
  BY <1>1, <1>3

\* A step that keeps row v; that begins no report of a miss; that lets the
\* scheduler look at nothing new.
RowKept(v) ==
  /\ Exists(v)
  /\ violations'[v].goal = violations[v].goal
  /\ violations'[v].period = violations[v].period
  /\ violations'[v].reason = violations[v].reason
CallsKept ==
  \A c \in Callers :
    calls'[c].at = "insert" /\ calls'[c].reason = "missed deadline" => calls'[c] = calls[c]
SchedKept ==
  /\ TickPast'
  /\ sched'.todo \subseteq sched.todo
  /\ sched'.at = "owner" => sched' = sched

LEMMA RowStaysMissed ==
  ASSUME TypeInv, TypeInv', RowsMissed, Onward, NEW v \in Rows, RowKept(v)
  PROVE  RowMissed(v)'
<1>1. /\ violations'[v].goal \in Goals /\ violations'[v].period \in Keys
  BY DEF RowsMissed, RowMissed, RowKept
<1>2. ASSUME violations'[v].reason = "missed deadline"
      PROVE  /\ violations'[v].period \in Periods
             /\ Missed(<<violations'[v].goal, violations'[v].period>>)
  BY <1>2 DEF RowsMissed, RowMissed, RowKept
<1>3. ASSUME violations'[v].reason = "missed deadline"
      PROVE  \E d \in Goals \X Periods :
               d = <<violations'[v].goal, violations'[v].period>> /\ Missed(d)'
  BY <1>1, <1>2, <1>3, MissedStable
<1> QED
  BY <1>1, <1>2, <1>3 DEF RowMissed, Missed

LEMMA CallsStayMissed ==
  ASSUME TypeInv, TypeInv', CallsMissed, Onward, CallsKept
  PROVE  CallsMissed'
<1> SUFFICES ASSUME NEW c \in Callers, calls'[c].at = "insert",
                    calls'[c].reason = "missed deadline"
             PROVE  /\ calls'[c].period \in Periods
                    /\ Missed(<<calls[c].goal, calls[c].period>>)'
  BY DEF CallsMissed
<1>1. calls'[c] = calls[c] /\ calls'[c].period \in Periods
  BY DEF CallsKept, CallsMissed
<1>2. PICK d \in Goals \X Periods : d = <<calls[c].goal, calls[c].period>>
  BY <1>1 DEF TypeInv, Filled, CallFilled
<1>3. Missed(d)
  BY <1>1, <1>2 DEF CallsMissed
<1>4. d = <<calls'[c].goal, calls'[c].period>> /\ Missed(d)'
  BY <1>1, <1>2, <1>3, MissedStable
<1> QED
  BY <1>1, <1>4 DEF Missed

LEMMA SchedStaysMissed ==
  ASSUME TypeInv, TypeInv', SchedMissed, Onward, SchedKept
  PROVE  SchedMissed'
<1>1. sched.todo \subseteq Goals \X Periods
  BY DEF TypeInv, TypeOK, SchedState
<1>2. ASSUME NEW d \in sched'.todo PROVE PeriodEnd(d[2]) <= now'
  <2>1. d[2] \in Periods /\ PeriodEnd(d[2]) <= now
    BY <1>1, <1>2 DEF SchedMissed, SchedKept
  <2> QED
    BY <2>1, EndStable
<1>3. ASSUME sched'.at = "owner", NEW d \in sched'.todo, First(d)' PROVE Missed(d)'
  <2>1. sched' = sched
    BY <1>3 DEF SchedKept
  <2>2. First(d) /\ d \in Goals \X Periods
    BY <1>1, <1>3, <2>1 DEF First
  <2>3. Missed(d)
    BY <1>3, <2>1, <2>2 DEF SchedMissed
  <2> QED
    BY <2>2, <2>3, MissedStable
<1> QED
  BY <1>2, <1>3 DEF SchedMissed, SchedKept

LEMMA QuietMiss ==
  ASSUME TypeInv, TypeInv', MissInv, Onward, CallsKept, SchedKept,
         \A v \in Rows : Exists(v)' => RowKept(v)
  PROVE  MissInv'
<1>1. RowsMissed'
  BY RowStaysMissed DEF MissInv, RowsMissed, RowMissed
<1> QED
  BY <1>1, CallsStayMissed, SchedStaysMissed DEF MissInv

LEMMA CallsQuiet ==
  ASSUME TypeInv, NEW c \in Callers, NEW call, calls' = [calls EXCEPT ![c] = call],
         call.at # "insert" \/ call.reason # "missed deadline"
  PROVE  CallsKept
  BY DEF CallsKept, TypeInv, TypeOK

LEMMA MissNext ==
  TypeInv /\ TypeInv' /\ ChargeInv /\ MissInv /\ [Next]_vars => MissInv'
<1> SUFFICES ASSUME TypeInv, TypeInv', ChargeInv, MissInv, [Next]_vars PROVE MissInv'
  OBVIOUS
<1>1. Onward
  BY StepsOnward
<1>2. UNCHANGED violations /\ CallsKept /\ SchedKept => MissInv'
  BY <1>1, QuietMiss DEF RowKept, Exists
<1>3. UNCHANGED calls => CallsKept
  BY DEF CallsKept
<1>4. sched'.tick = sched.tick => TickPast'
  BY <1>1, TickStable DEF MissInv, SchedMissed
<1>5. UNCHANGED sched => SchedKept
  BY <1>4 DEF SchedKept
<1>6. sched' = IdleSched => SchedKept
  BY IdleTickPast DEF IdleSched, SchedKept
<1>7. ASSUME NEW c \in Callers, NEW ok \in BOOLEAN, Return(c, ok) PROVE CallsKept /\ SchedKept
  <2>1. CallsKept
    BY <1>7, CallsQuiet DEF Return, Idle
  <2>2. UNCHANGED sched \/ sched' = IdleSched
        \/ sched' = [sched EXCEPT !.at = "scan", !.todo = @ \ {<<calls[c].goal, calls[c].period>>}]
    BY <1>7 DEF Return
  <2>3. sched' = [sched EXCEPT !.at = "scan", !.todo = @ \ {<<calls[c].goal, calls[c].period>>}] => SchedKept
    <3> SUFFICES ASSUME sched' = [sched EXCEPT !.at = "scan", !.todo = @ \ {<<calls[c].goal, calls[c].period>>}]
                 PROVE  SchedKept
      OBVIOUS
    <3>1. sched'.tick = sched.tick /\ sched'.at = "scan" /\ sched'.todo \subseteq sched.todo
      BY DEF TypeInv, TypeOK, SchedState
    <3> QED
      BY <1>4, <3>1 DEF SchedKept
  <2> QED
    BY <1>5, <1>6, <2>1, <2>2, <2>3
<1>8. ASSUME NEW c \in Callers, NEW call, Goto(c, call), call.at # "insert" \/ call.reason # "missed deadline"
      PROVE  CallsKept /\ SchedKept
  <2>1. calls' = [calls EXCEPT ![c] = call] /\ UNCHANGED sched
    BY <1>8 DEF Goto
  <2> QED
    BY <1>5, <1>8, <2>1, CallsQuiet
<1>9. ASSUME NEW g \in Goals, CreateGoal(g) \/ ArchiveGoal(g) PROVE MissInv'
  BY <1>2, <1>3, <1>5, <1>9 DEF CreateGoal, ArchiveGoal
<1>10. ASSUME NEW c \in Clients, Request(c) PROVE MissInv'
  <2>1. CallsKept /\ SchedKept
    <3>1. ASSUME NEW g \in Goals, BeginGoalUpdate(c, g) PROVE CallsKept /\ SchedKept
      <4>1. PICK stake \in Stakes, end \in EndTimes :
              Goto(c, [Idle EXCEPT !.at = "write", !.goal = g, !.stake = stake, !.endsAt = end])
        BY <3>1 DEF BeginGoalUpdate
      <4> DEFINE call == [Idle EXCEPT !.at = "write", !.goal = g, !.stake = stake, !.endsAt = end]
      <4>2. call.at # "insert"
        BY DEF Idle
      <4> HIDE DEF call
      <4> QED
        BY <1>8, <4>1, <4>2 DEF Callers, call
    <3>2. ASSUME NEW g \in Goals, NEW p \in Keys, BeginCheckIn(c, g, p) PROVE CallsKept /\ SchedKept
      <4> DEFINE call == [Idle EXCEPT !.at = "checkin", !.goal = g, !.period = p]
      <4>1. call.at # "insert" /\ Goto(c, call)
        BY <3>2 DEF Idle, BeginCheckIn
      <4> HIDE DEF call
      <4> QED
        BY <1>8, <4>1 DEF Callers
    <3>3. ASSUME NEW g \in Goals, NEW p \in Keys, BeginReport(c, g, p) PROVE CallsKept /\ SchedKept
      <4>1. Goto(c, Reporting(g, p, "reported"))
        BY <3>3 DEF BeginReport
      <4>2. Reporting(g, p, "reported").reason # "missed deadline"
        BY DEF Idle, Reporting
      <4> QED
        BY <1>8, <4>1, <4>2 DEF Callers
    <3> QED
      BY <1>10, <3>1, <3>2, <3>3 DEF Request
  <2>2. UNCHANGED violations
    BY <1>10 DEF Request, BeginGoalUpdate, BeginCheckIn, BeginReport, store
  <2> QED
    BY <1>2, <2>1, <2>2
<1>11. ASSUME NEW c \in Callers, NEW ok \in BOOLEAN, WriteGoal(c, ok) \/ UpsertCheckIn(c, ok) \/ CallFails(c)
       PROVE  MissInv'
  <2>1. UNCHANGED violations /\ (Return(c, ok) \/ Return(c, FALSE))
    BY <1>11 DEF WriteGoal, UpsertCheckIn, CallFails
  <2> QED
    BY <1>2, <1>7, <2>1
<1>12. ASSUME NEW c \in Callers, NEW ok \in BOOLEAN, CreateViolation(c, ok) PROVE MissInv'
  <2>1. CASE Return(c, ok) /\ UNCHANGED violations
    BY <1>2, <1>3, <1>7, <2>1
  <2>2. ASSUME NEW v \in Rows, NextRow(v), violations' = [violations EXCEPT ![v] = NewRow(calls[c])],
               IF ok THEN Goto(c, [calls[c] EXCEPT !.at = "charge", !.row = v])
                     ELSE Return(c, FALSE)
        PROVE  MissInv'
    <3>1. CallsKept /\ SchedKept
      <4>1. CASE ok /\ Goto(c, [calls[c] EXCEPT !.at = "charge", !.row = v])
        <5> DEFINE call == [calls[c] EXCEPT !.at = "charge", !.row = v]
        <5>0. calls[c] \in Call
          BY DEF TypeInv, TypeOK
        <5>1. call.at # "insert"
          BY <5>0 DEF Call
        <5>2. Goto(c, call)
          BY <4>1
        <5> HIDE DEF call
        <5> QED
          BY <1>8, <5>1, <5>2
      <4>2. CASE ~ok /\ Return(c, FALSE)
        BY <1>7, <4>2
      <4> QED
        BY <2>2, <4>1, <4>2
    <3>2. calls[c].at = "insert" /\ calls[c].goal \in Goals /\ calls[c].period \in Keys
      BY <1>12 DEF CreateViolation, TypeInv, Filled, CallFilled
    <3>3. ASSUME calls[c].reason = "missed deadline"
          PROVE  \E d \in Goals \X Periods : d = <<calls[c].goal, calls[c].period>> /\ Missed(d)
      BY <3>2, <3>3 DEF MissInv, CallsMissed
    <3>4. ASSUME calls[c].reason = "missed deadline"
          PROVE  \E d \in Goals \X Periods : d = <<calls[c].goal, calls[c].period>> /\ Missed(d)'
      BY <1>1, <3>3, <3>4, MissedStable
    <3>5. /\ violations'[v].goal = calls[c].goal /\ violations'[v].period = calls[c].period
          /\ violations'[v].reason = calls[c].reason
          /\ \A w \in Rows : w # v => violations'[w] = violations[w]
      BY <2>2 DEF NewRow, TypeInv, TypeOK
    <3>6. ASSUME NEW w \in Rows, w # v, Exists(w)' PROVE RowMissed(w)'
      BY <1>1, <3>5, <3>6, RowStaysMissed DEF RowKept, Exists, MissInv
    <3>7. RowMissed(v)'
      <4>1. violations'[v].goal \in Goals /\ violations'[v].period \in Keys
        BY <3>2, <3>5
      <4>2. ASSUME violations'[v].reason = "missed deadline"
            PROVE  /\ violations'[v].period \in Periods
                   /\ Missed(<<violations[v].goal, violations[v].period>>)'
        <5>1. PICK d \in Goals \X Periods : d = <<calls[c].goal, calls[c].period>> /\ Missed(d)'
          BY <3>4, <3>5, <4>2
        <5>2. d = <<violations'[v].goal, violations'[v].period>>
          BY <3>5, <5>1
        <5> QED
          BY <5>1, <5>2 DEF Missed
      <4> QED
        BY <4>1, <4>2 DEF RowMissed
    <3>8. RowsMissed'
      BY <3>6, <3>7 DEF RowsMissed, RowMissed
    <3> QED
      BY <1>1, <3>1, <3>8, CallsStayMissed, SchedStaysMissed DEF MissInv
  <2> QED
    BY <1>12, <2>1, <2>2 DEF CreateViolation
<1>13. ASSUME NEW c \in Callers, NEW ok \in BOOLEAN, UpdateViolation(c, ok) PROVE MissInv'
  <2>1. calls[c].row \in Rows /\ Exists(calls[c].row) /\ violations[calls[c].row] \in Row
    BY <1>13 DEF UpdateViolation, Charging, Exists, ChargeInv, HoldsPending, TypeInv, TypeOK,
                 Filled, CallFilled
  <2>2. violations' = [violations EXCEPT ![calls[c].row] =
          [violations[calls[c].row] EXCEPT !.status = calls[c].status, !.hash = calls[c].hash]]
    BY <1>13, <2>1 DEF UpdateViolation, TypeInv, TypeOK
  <2>3. \A v \in Rows : Exists(v)' => RowKept(v)
    BY <2>1, <2>2 DEF RowKept, Exists, Row, TypeInv, TypeOK
  <2>4. Return(c, TRUE) \/ Return(c, FALSE)
    BY <1>13 DEF UpdateViolation
  <2> QED
    BY <1>1, <1>7, <2>3, <2>4, QuietMiss
<1>14. ASSUME NEW c \in Callers, RefuseTransact(c) \/ WaitMined(c) \/ TransactUnanswered(c) \/ Transact(c)
       PROVE  MissInv'
  <2>1. UNCHANGED violations /\ calls[c] \in Call
    BY <1>14 DEF RefuseTransact, WaitMined, Transact, TransactUnanswered, store, TypeInv, TypeOK
  <2>2. CASE \E status, hash : Outcome(c, status, hash)
    <3>1. PICK status, hash : Outcome(c, status, hash)
      BY <2>2
    <3> DEFINE call == [calls[c] EXCEPT !.at = "update", !.status = status, !.hash = hash]
    <3>2. call.at # "insert"
      BY <2>1 DEF Call
    <3>3. Goto(c, call)
      BY <3>1 DEF Outcome
    <3> HIDE DEF call
    <3> QED
      BY <1>2, <1>8, <2>1, <3>2, <3>3
  <2>3. CASE Transact(c)
    <3>1. PICK h \in Hashes : Goto(c, [calls[c] EXCEPT !.at = "wait", !.hash = h])
      BY <2>3 DEF Transact
    <3> DEFINE call == [calls[c] EXCEPT !.at = "wait", !.hash = h]
    <3>2. call.at # "insert"
      BY <2>1 DEF Call
    <3> HIDE DEF call
    <3> QED
      BY <1>2, <1>8, <2>1, <3>1, <3>2 DEF call
  <2> QED
    BY <1>14, <2>2, <2>3 DEF RefuseTransact, WaitMined, TransactUnanswered
<1>15. CASE Tick
  <2>1. sched'.tick = now /\ sched'.todo = sched.todo /\ sched'.at = "list" /\ now' = now
    BY <1>15 DEF Tick, TypeInv, TypeOK, SchedState
  <2>2. TickPast'
    BY <2>1, ConstantsAssumption DEF TickPast, TypeInv, TypeOK, Time
  <2> QED
    BY <1>2, <1>3, <1>15, <2>1, <2>2 DEF Tick, store, SchedKept
<1>16. CASE ListActiveGoals
  <2>1. sched'.at = "scan" /\ sched'.tick = 0 /\ sched'.todo = DuePairs(sched.tick) /\ UNCHANGED <<now, violations, calls>>
    BY <1>16 DEF ListActiveGoals, store
  <2>2. TickPast'
    BY <2>1, ConstantsAssumption DEF TickPast, TypeInv, TypeOK, Time
  <2>3. ASSUME NEW d \in DuePairs(sched.tick) PROVE PeriodEnd(d[2]) <= now
    <3>1. d[2] \in Periods /\ PeriodEnd(d[2]) <= sched.tick
      BY <2>3 DEF DuePairs, CompletedPeriods
    <3>2. PeriodEnd(d[2]) \in Int /\ sched.tick \in Int /\ now \in Int
      BY <3>1, PeriodEndTypes, ConstantsAssumption DEF TypeInv, TypeOK, SchedState, Time
    <3> QED
      BY <3>1, <3>2 DEF MissInv, SchedMissed, TickPast
  <2>4. SchedMissed'
    BY <2>1, <2>2, <2>3 DEF SchedMissed
  <2>5. RowsMissed'
    BY <1>1, <2>1, RowStaysMissed DEF MissInv, RowsMissed, RowMissed, RowKept, Exists
  <2> QED
    BY <1>1, <1>3, <2>1, <2>4, <2>5, CallsStayMissed DEF MissInv
<1>17. CASE GetCheckIn
  <2>1. PICK d \in sched.todo :
          /\ First(d)
          /\ sched' = IF checkIns[d] # Never THEN [sched EXCEPT !.todo = @ \ {d}]
                                             ELSE [sched EXCEPT !.at = "owner"]
    BY <1>17 DEF GetCheckIn
  <2>2. UNCHANGED <<now, checkIns, violations, calls>> /\ sched.at = "scan" /\ sched \in SchedState
    BY <1>17 DEF GetCheckIn, store, TypeInv, TypeOK
  <2>3. CASE checkIns[d] # Never
    <3>1. sched'.tick = sched.tick /\ sched'.at = "scan" /\ sched'.todo \subseteq sched.todo
      BY <2>1, <2>2, <2>3 DEF SchedState
    <3> QED
      BY <1>2, <1>3, <1>4, <2>2, <3>1 DEF SchedKept
  <2>4. CASE checkIns[d] = Never
    <3>1. sched'.tick = sched.tick /\ sched'.todo = sched.todo
      BY <2>1, <2>2, <2>4 DEF SchedState
    <3>2. \A e \in sched.todo : First(e) => e = d
      BY <2>1, <2>2, FirstUnique
    <3>3. Missed(d)
      BY <2>4 DEF Missed, MissInv, SchedMissed
    <3>4. \A e \in sched'.todo : PeriodEnd(e[2]) <= now /\ (First(e)' => Missed(e))
      BY <3>1, <3>2, <3>3 DEF First, MissInv, SchedMissed
    <3>5. SchedMissed'
      BY <1>4, <2>2, <3>1, <3>4 DEF SchedMissed, Missed
    <3>6. RowsMissed'
      BY <1>1, <2>2, RowStaysMissed DEF MissInv, RowsMissed, RowMissed, RowKept, Exists
    <3> QED
      BY <1>1, <1>3, <2>2, <3>5, <3>6, CallsStayMissed DEF MissInv
  <2> QED
    BY <2>3, <2>4
<1>18. CASE ReportMissed
  <2>1. PICK d \in sched.todo :
          /\ First(d)
          /\ IF IsActive(d[1])
               THEN /\ calls' = [calls EXCEPT ![Sched] = Reporting(d[1], d[2], "missed deadline")]
                    /\ sched' = [sched EXCEPT !.at = "report"]
               ELSE /\ sched' = IdleSched
                    /\ UNCHANGED calls
    BY <1>18 DEF ReportMissed
  <2>2. UNCHANGED <<now, checkIns, violations>> /\ sched.at = "owner" /\ sched \in SchedState
    BY <1>18 DEF ReportMissed, store, TypeInv, TypeOK
  <2>3. CASE ~IsActive(d[1])
    BY <1>2, <1>3, <1>6, <2>1, <2>2, <2>3
  <2>4. CASE IsActive(d[1])
    <3>1. sched'.tick = sched.tick /\ sched'.todo = sched.todo /\ sched'.at = "report"
      BY <2>1, <2>2, <2>4 DEF SchedState
    <3>2. SchedMissed'
      BY <1>1, <1>4, <3>1, SchedStaysMissed DEF SchedKept, MissInv
    <3>3. Missed(d) /\ d \in Goals \X Periods
      BY <2>1, <2>2 DEF MissInv, SchedMissed, SchedState
    <3>4. Missed(d)' /\ d = <<d[1], d[2]>>
      BY <1>1, <3>3, MissedStable
    <3>5. Sched \in Callers /\ calls' = [calls EXCEPT ![Sched] = Reporting(d[1], d[2], "missed deadline")]
      BY <2>1, <2>4 DEF Callers
    <3>6. Reporting(d[1], d[2], "missed deadline").goal = d[1]
          /\ Reporting(d[1], d[2], "missed deadline").period = d[2]
      BY DEF Reporting, Idle
    <3>7. <<calls'[Sched].goal, calls'[Sched].period>> = d
          /\ \A c \in Callers : c # Sched => calls'[c] = calls[c]
      BY <3>4, <3>5, <3>6 DEF TypeInv, TypeOK
    <3>8. CallsMissed'
      BY <1>1, <2>2, <3>3, <3>4, <3>7 DEF CallsMissed, MissInv, Missed
    <3>9. RowsMissed'
      BY <1>1, <2>2, RowStaysMissed DEF MissInv, RowsMissed, RowMissed, RowKept, Exists
    <3> QED
      BY <3>2, <3>8, <3>9 DEF MissInv
  <2> QED
    BY <2>3, <2>4
<1>19. CASE EndRun \/ RunFails
  BY <1>2, <1>3, <1>6, <1>19 DEF EndRun, RunFails, store
<1>20. ASSUME Clock \/ Shutdown \/ (\E c \in Clients : Disconnect(c)) \/ (\E h \in Hashes : Mine(h) \/ Drop(h))
       PROVE  MissInv'
  BY <1>2, <1>3, <1>5, <1>20 DEF Clock, Shutdown, Disconnect, Mine, Drop, store
<1>21. CASE Crash \/ Restart
  <2>1. UNCHANGED violations /\ sched' = IdleSched /\ calls' = [c \in Callers |-> Idle]
    BY <1>21 DEF Crash, Restart, Restarted, store
  <2>2. CallsKept
    BY <2>1 DEF CallsKept, Idle
  <2> QED
    BY <1>2, <1>6, <2>1, <2>2
<1>22. CASE UNCHANGED vars
  BY <1>2, <1>3, <1>5, <1>22 DEF vars
<1> QED
  BY <1>9, <1>10, <1>11, <1>12, <1>13, <1>14, <1>15, <1>16, <1>17, <1>18, <1>19, <1>20, <1>21, <1>22
     DEF Next, Proceed, SchedStep, Environment

LEMMA MissAlways == Spec => [](TypeInv /\ MissInv)
<1>1. Init => TypeInv /\ ChargeInv /\ MissInv
  BY InitTypes, ChargeInit, MissInit
<1>2. TypeInv /\ ChargeInv /\ MissInv /\ [Next]_vars => (TypeInv /\ ChargeInv /\ MissInv)'
  BY TypesNext, ChargeNext, MissNext
<1> QED
  BY <1>1, <1>2, PTL DEF Spec

\* Nobody is penalized by the scheduler for a period that is still running or
\* that has a timely check-in under the key the scheduler looks for.
THEOREM OnlyRealMisses == Spec => []MissedDeadlineIsReal
<1>1. MissInv => MissedDeadlineIsReal
  BY DEF MissInv, RowsMissed, RowMissed, Missed, MissedDeadlineIsReal, NoneInTime, PeriodOf
<1> QED
  BY <1>1, MissAlways, PTL

-----------------------------------------------------------------------------
(* What holds of periods where each of them has one key, as with daily     *)
(* goals: Variants is the set of further keys.                             *)

LEMMA KeysArePeriods ==
  ASSUME Variants = {}
  PROVE  Keys = Periods /\ \A k \in Keys : PeriodOf(k) = k
  BY DEF Keys, PeriodOf

\* Where no period has a second key, no period of a do goal is charged twice.
THEOREM OneChargeWhereOneKey == Variants = {} => (Spec => []OneChargePerPeriod)
<1> SUFFICES ASSUME Variants = {} PROVE Spec => []OneChargePerPeriod
  OBVIOUS
<1>1. TypeInv /\ ChargeInv /\ MissInv => OneChargePerPeriod
  <2> SUFFICES ASSUME TypeInv, ChargeInv, MissInv, NEW h \in Hashes, NEW k \in Hashes, Sent(h), Sent(k), h # k,
                      NEW v \in Rows, NEW w \in Rows, v = txs[h].for, w = txs[k].for
               PROVE  /\ v # w
                      /\ violations[v].keyed /\ violations[w].keyed /\ violations[v].goal = violations[w].goal =>
                           PeriodOf(violations[v].period) # PeriodOf(violations[w].period)
    BY DEF OneChargePerPeriod, TypeInv, Filled, TxsFilled
  <2>1. v # w /\ Exists(v) /\ Exists(w)
    BY DEF ChargeInv, OneTxPerRow, ChargesRecordedAmount
  <2>2. /\ PeriodOf(violations[v].period) = violations[v].period
        /\ PeriodOf(violations[w].period) = violations[w].period
    BY <2>1, KeysArePeriods DEF MissInv, RowsMissed, RowMissed
  <2> QED
    BY <2>1, <2>2 DEF ChargeInv, UniqueIndex
<1> QED
  BY <1>1, ChargeAlways, MissAlways, PTL
=============================================================================
