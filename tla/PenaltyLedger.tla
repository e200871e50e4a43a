--------------------------- MODULE PenaltyLedger ---------------------------
(***************************************************************************)
(* What the penalty pipeline promises, without requests, scheduler, nodes  *)
(* or failures: a debt is recorded once, at a fixed amount; at most one    *)
(* payment is ever taken for it, of that amount; and it is declared        *)
(* charged only when the payment has been taken. A debt may be declared    *)
(* failed and be paid all the same: the pipeline promises no more.         *)
(* (README PENALTY-01 and PENALTY-02; domain/types.go, type Violation.)    *)
(***************************************************************************)
CONSTANTS
  Debts,     \* ids of debts
  Goals,
  Keys,      \* period keys; a period may have several
  Amounts,   \* amounts of base units that can be owed
  Payments   \* ids of payments

VARIABLES
  debts,     \* debts[d]: what is owed, for what, and what is said about it
  payments   \* the payments taken

ledgerVars == <<debts, payments>>

Debt == [goal: Goals, period: Keys, keyed: BOOLEAN, amount: Amounts,
         status: {"pending", "charged", "failed"}]

Owed(d) == debts[d].status # "none"
Paid(d) == \E x \in payments : x.debt = d

NoDebts == \A d \in Debts : ~Owed(d)

LedgerInit == NoDebts /\ payments = {}

\* A keyed debt is the only keyed one of its goal and period key.
Owe(d) ==
  /\ ~Owed(d)
  /\ \E debt \in Debt :
       /\ debt.status = "pending"
       /\ debt.keyed => \A e \in Debts :
            Owed(e) /\ debts[e].keyed =>
              debts[e].goal # debt.goal \/ debts[e].period # debt.period
       /\ debts' = [debts EXCEPT ![d] = debt]
  /\ UNCHANGED payments

Pay(d, id) ==
  /\ Owed(d) /\ ~Paid(d)
  /\ \A x \in payments : x.id # id
  /\ payments' = payments \union {[id |-> id, debt |-> d, amount |-> debts[d].amount]}
  /\ UNCHANGED debts

Declare(d, status) ==
  /\ debts[d].status = "pending"
  /\ status = "charged" => Paid(d)
  /\ debts' = [debts EXCEPT ![d].status = status]
  /\ UNCHANGED payments

LedgerNext ==
  \E d \in Debts :
    \/ Owe(d)
    \/ \E id \in Payments : Pay(d, id)
    \/ \E status \in {"charged", "failed"} : Declare(d, status)

LedgerSpec == LedgerInit /\ [][LedgerNext]_ledgerVars
=============================================================================
