--------------------------- MODULE MCEnforcement ---------------------------
(***************************************************************************)
(* Small instances of Enforcement. Client identities are interchangeable   *)
(* where they own the same goals, which the symmetric instances use.       *)
(***************************************************************************)
EXTENDS Enforcement, TLC

CONSTANTS c1, c2, w5x

\* Periods of length one, the first of which begins with the clock.
UnitPeriods == [p \in 1 .. (NumPeriods + 1) |-> p - 1]

\* The same, but the first has not begun yet (so that a goal
\* can end before it).
LaterPeriods == [p \in 1 .. (NumPeriods + 1) |-> p]

\* Every variant is one of the first period's, like w5x of week 5.
AllFirst == [k \in Variants |-> 1]

OwnAll  == [c \in Clients |-> 1 .. NumGoals]

ClientSymmetry == Permutations(Clients)
=============================================================================
