----------------------------- MODULE MCPeriods -----------------------------
(***************************************************************************)
(* Instances of Periods: days of four units, weeks of two days, offsets of *)
(* at most one unit, and no, one or two transitions of one unit.           *)
(***************************************************************************)
EXTENDS Periods

Offsets == -1 .. 1
Instants == 2 .. 9

Constants0 == {[offsets |-> <<o>>, at |-> <<>>] : o \in Offsets}
Constants1 ==
  {[offsets |-> <<o, q>>, at |-> <<t>>] :
     <<o, q, t>> \in {x \in Offsets \X Offsets \X Instants : x[1] - x[2] \in {-1, 1}}}

\* There and back, at least a day apart.
Constants2 ==
  {[offsets |-> <<o, q, o>>, at |-> <<t, u>>] :
     <<o, q, t, u>> \in {x \in Offsets \X Offsets \X Instants \X Instants :
                           x[1] - x[2] \in {-1, 1} /\ x[3] + DayLength <= x[4]}}

EarlyStarts == 0 .. 5
SomeEnds == {6, Forever}

AllZones == Constants0 \union Constants1 \union Constants2

\* The clocks go from midnight to one, west of Greenwich (the Azores, Chile).
MidnightGap == {[offsets |-> <<-1, 0>>, at |-> <<5>>]}
=============================================================================
