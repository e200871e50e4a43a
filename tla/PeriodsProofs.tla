--------------------------- MODULE PeriodsProofs ---------------------------
(***************************************************************************)
(* The calendar and the scheduler's loop, for every length of days and     *)
(* weeks, every zone that PeriodsAssumption admits and every goal and tick. *)
(*                                                                         *)
(* A clock change is an era's end. The instants at which a local time can  *)
(* happen lie in two neighbouring eras, so one clock change decides what   *)
(* Date returns: it is off only for a local time that change skips, and by *)
(* no more than the clock is shifted. Where no midnight is skipped or      *)
(* repeated, midnights then divide the instants as they divide local       *)
(* times, and periods tile time.                                           *)
(***************************************************************************)
EXTENDS Periods, FiniteSetTheorems, WellFoundedInduction, TLAPS

-----------------------------------------------------------------------------
(* Division by the length of a day or week                                 *)

Positive == Nat \ {0}

\* What an integer is divided into.
LEMMA DivBounds ==
  ASSUME NEW n \in Positive, NEW x \in Int
  PROVE  x \div n \in Int /\ (x \div n) * n <= x /\ x < (x \div n) * n + n
BY DEF Positive

\* Multiples are ordered as their factors.
LEMMA Multiples ==
  ASSUME NEW n \in Positive, NEW a \in Int, NEW b \in Int
  PROVE  /\ a * n \in Int /\ (a + 1) * n = a * n + n
         /\ a < b => a * n + n <= b * n
         /\ a <= b => a * n <= b * n
<1>1. a < b => a * n + n <= b * n
  BY DEF Positive
<1> QED
  BY <1>1 DEF Positive

\* A quotient is below b where the integer is below the multiple of b.
LEMMA DivLess ==
  ASSUME NEW n \in Positive, NEW x \in Int, NEW b \in Int
  PROVE  /\ x \div n < b <=> x < b * n
         /\ b <= x \div n <=> b * n <= x
<1> DEFINE a == x \div n
<1>1. a \in Int /\ a * n <= x /\ x < a * n + n /\ a * n \in Int /\ b * n \in Int /\ n \in Int
  BY DivBounds, Multiples DEF Positive
<1>2. a < b => a * n + n <= b * n
  BY <1>1, Multiples
<1>3. b <= a => b * n <= a * n
  BY <1>1, Multiples
<1> HIDE DEF a
<1>4. (a < b <=> x < b * n) /\ (b <= a <=> b * n <= x)
  BY <1>1, <1>2, <1>3
<1> QED
  BY <1>4 DEF a

\* A multiple divides without remainder.
LEMMA DivMultiple ==
  ASSUME NEW n \in Positive, NEW b \in Int
  PROVE  (b * n) \div n = b
<1>1. b * n \in Int /\ (b + 1) * n = b * n + n /\ n \in Int /\ n > 0
  BY Multiples DEF Positive
<1>2. b <= (b * n) \div n /\ (b * n) \div n < b + 1 /\ (b * n) \div n \in Int
  BY <1>1, DivLess, DivBounds
<1> QED
  BY <1>2

\* Division twice, by the days of a week after the length of a day.
LEMMA DivTwice ==
  ASSUME NEW n \in Positive, NEW m \in Positive, NEW x \in Int, NEW b \in Int
  PROVE  /\ (x \div n) \div m \in Int
         /\ (x \div n) \div m < b <=> x < (b * m) * n
BY DivBounds, DivLess, Multiples

-----------------------------------------------------------------------------
(* Eras of a zone                                                          *)

LEMMA LengthsTyped ==
  /\ DayLength \in Positive /\ WeekDays \in Positive /\ WeekDays >= 2
  /\ DayLength \in Int /\ DayLength > 0 /\ WeekDays \in Int
  /\ Jan4 \in Int
BY PeriodsAssumption DEF Positive

Changes(z) == 1 .. Len(z.at)
Eras(z) == 1 .. (Len(z.at) + 1)

\* What is assumed of a zone, offset by offset and change by change.
Regular(z) ==
  /\ Len(z.at) \in Nat /\ DOMAIN z.at = Changes(z)
  /\ \A i \in Changes(z) : z.at[i] \in Int
  /\ \A k \in Eras(z) : /\ z.offsets[k] \in Int
                        /\ -DayLength < z.offsets[k] /\ z.offsets[k] < DayLength
  /\ \A i, j \in Changes(z) : i < j =>
       /\ z.at[i] < z.at[j]
       /\ \A k \in Eras(z) : z.at[i] + z.offsets[k] < z.at[j] /\ z.at[i] - z.offsets[k] < z.at[j]
       /\ \A k, l \in Eras(z) : z.at[i] + z.offsets[k] - z.offsets[l] < z.at[j]
  /\ \A i \in Changes(z) : /\ -DayLength <= 2 * (z.offsets[i + 1] - z.offsets[i])
                           /\ 2 * (z.offsets[i + 1] - z.offsets[i]) <= DayLength

LEMMA ZonesAreRegular ==
  ASSUME NEW z \in Zones
  PROVE  Regular(z)
<1> DEFINE offsets == {0} \union {z.offsets[k] : k \in DOMAIN z.offsets}
<1>1. /\ z \in Zone /\ Len(z.offsets) = Len(z.at) + 1
      /\ \A o \in offsets : -DayLength < o /\ o < DayLength
      /\ \A i, j \in DOMAIN z.at : i < j => \A o, q \in offsets : z.at[i] + o - q < z.at[j]
      /\ \A i \in DOMAIN z.at : /\ -DayLength <= 2 * (z.offsets[i + 1] - z.offsets[i])
                                /\ 2 * (z.offsets[i + 1] - z.offsets[i]) <= DayLength
  BY PeriodsAssumption DEF ZonesAssumption
<1>2. /\ Len(z.at) \in Nat /\ DOMAIN z.at = Changes(z) /\ DOMAIN z.offsets = Eras(z)
      /\ \A i \in Changes(z) : z.at[i] \in Int
      /\ \A k \in Eras(z) : z.offsets[k] \in Int
  BY <1>1 DEF Zone, Changes, Eras
<1>3. 0 \in offsets /\ \A k \in Eras(z) : z.offsets[k] \in offsets
  BY <1>2
<1> HIDE DEF offsets
<1>4. ASSUME NEW i \in Changes(z), NEW j \in Changes(z), i < j
      PROVE  /\ z.at[i] < z.at[j]
             /\ \A k \in Eras(z) : z.at[i] + z.offsets[k] < z.at[j] /\ z.at[i] - z.offsets[k] < z.at[j]
             /\ \A k, l \in Eras(z) : z.at[i] + z.offsets[k] - z.offsets[l] < z.at[j]
  <2>1. \A o, q \in offsets : z.at[i] + o - q < z.at[j]
    BY <1>1, <1>2, <1>4
  <2>2. z.at[i] + 0 - 0 < z.at[j] /\ z.at[i] \in Int
    BY <2>1, <1>3, <1>2
  <2>3. \A k \in Eras(z) : /\ z.at[i] + z.offsets[k] - 0 < z.at[j]
                           /\ z.at[i] + 0 - z.offsets[k] < z.at[j]
    BY <2>1, <1>3
  <2> QED
    BY <2>1, <2>2, <2>3, <1>2, <1>3
<1> QED
  BY <1>1, <1>2, <1>3, <1>4 DEF Regular

\* Every set of eras that is not empty has an earliest one.
LEMMA Earliest ==
  ASSUME NEW S \in SUBSET Nat, S # {}
  PROVE  \E e \in S : \A f \in S : e <= f
<1> DEFINE upTo == {0 .. e : e \in S}
           R == StrictSubsetOrdering(Nat)
<1>1. upTo \subseteq FiniteSubsetsOf(Nat) /\ upTo # {}
  <2>1. ASSUME NEW e \in S
        PROVE  0 .. e \in FiniteSubsetsOf(Nat)
    <3>1. e \in Int /\ 0 \in Int /\ 0 .. e \in SUBSET Nat
      OBVIOUS
    <3>2. IsFiniteSet(0 .. e)
      BY <3>1, FS_Interval
    <3> QED
      BY <3>1, <3>2 DEF FiniteSubsetsOf
  <2> QED
    BY <2>1
<1>2. IsWellFoundedOn(R, FiniteSubsetsOf(Nat))
  BY FS_StrictSubsetOrderingWellFounded
<1>3. \E x \in upTo : \A y \in upTo : ~(<<y, x>> \in R)
  <2> HIDE DEF upTo, R
  <2> QED
    BY <1>1, <1>2, WFMin
<1>4. PICK e \in S : \A f \in S : ~(<<0 .. f, 0 .. e>> \in R)
  BY <1>3
<1>5. ASSUME NEW f \in S, f < e
      PROVE  <<0 .. f, 0 .. e>> \in R
  <2>1. 0 .. f \subseteq 0 .. e /\ e \in 0 .. e /\ e \notin 0 .. f
    BY <1>5
  <2>2. 0 .. f \in SUBSET Nat /\ 0 .. e \in SUBSET Nat
    OBVIOUS
  <2> QED
    BY <2>1, <2>2 DEF StrictSubsetOrdering
<1>6. \A f \in S : ~(f < e)
  BY <1>4, <1>5
<1> QED
  BY <1>6

\* The era of an instant begins with a change that has happened by then, and every
\* change from its end on is yet to come.
LEMMA EraOf ==
  ASSUME NEW z, Regular(z), NEW t \in Int
  PROVE  /\ Era(z, t) \in Eras(z)
         /\ \A i \in Changes(z) : IF i < Era(z, t) THEN z.at[i] <= t ELSE t < z.at[i]
<1> DEFINE past == {i \in DOMAIN z.at : z.at[i] <= t}
           rest == {k \in Eras(z) : k \notin past}
<1>1. Len(z.at) \in Nat /\ DOMAIN z.at = Changes(z) /\ \A i \in Changes(z) : z.at[i] \in Int
  BY DEF Regular
<1>2. \A i, j \in Changes(z) : i < j => z.at[i] < z.at[j]
  BY DEF Regular
<1>3. rest \in SUBSET Nat /\ Len(z.at) + 1 \in rest
  BY <1>1 DEF Changes, Eras
<1>4. PICK e \in rest : \A k \in rest : e <= k
  BY <1>3, Earliest
<1>5. e \in Eras(z) /\ e \in Nat /\ e >= 1 /\ e <= Len(z.at) + 1
  BY <1>1, <1>4 DEF Eras
<1>6. \A i \in Changes(z) : i < e => z.at[i] <= t
  BY <1>1, <1>4, <1>5 DEF Changes, Eras
<1>7. \A i \in Changes(z) : i >= e => t < z.at[i]
  <2>1. SUFFICES ASSUME NEW i \in Changes(z), i >= e PROVE t < z.at[i]
    OBVIOUS
  <2>2. e \in Changes(z) /\ e \notin past
    BY <1>4, <1>5, <2>1, <1>1 DEF Changes
  <2>3. t < z.at[e]
    BY <2>2, <1>1
  <2> QED
    BY <2>1, <2>2, <2>3, <1>1, <1>2, <1>5 DEF Changes
<1>8. past = 1 .. (e - 1)
  BY <1>1, <1>5, <1>6, <1>7 DEF Changes
<1>9. Cardinality(past) = e - 1
  <2>1. 1 \in Int /\ e - 1 \in Int /\ e - 1 >= 0
    BY <1>5
  <2>2. Cardinality(1 .. (e - 1)) = IF 1 > e - 1 THEN 0 ELSE (e - 1) - 1 + 1
    BY <2>1, FS_Interval
  <2>3. Cardinality(1 .. (e - 1)) = e - 1
    BY <2>1, <2>2
  <2> QED
    BY <2>3, <1>8
<1>10. Era(z, t) = e
  BY <1>9, <1>5 DEF Era
<1> QED
  BY <1>10, <1>5, <1>6, <1>7, <1>1 DEF Changes

-----------------------------------------------------------------------------
(* Local times and the instants they are found at                          *)

\* What a clock shows, and how far from the instant.
LEMMA LocalOf ==
  ASSUME NEW z, Regular(z), NEW t \in Int
  PROVE  /\ Local(z)[t] = t + z.offsets[Era(z, t)]
         /\ Era(z, t) \in Eras(z) /\ Era(z, t) \in Int
         /\ Local(z)[t] \in Int
         /\ t - DayLength < Local(z)[t] /\ Local(z)[t] < t + DayLength
<1>1. Era(z, t) \in Eras(z) /\ Len(z.at) \in Nat
  BY EraOf DEF Regular
<1>2. /\ z.offsets[Era(z, t)] \in Int
      /\ -DayLength < z.offsets[Era(z, t)] /\ z.offsets[Era(z, t)] < DayLength
  BY <1>1 DEF Regular
<1> QED
  BY <1>1, <1>2, LengthsTyped DEF Local, Eras

\* Instants that are closer than clock changes are at most one change apart.
LEMMA Neighbours ==
  ASSUME NEW z, Regular(z), NEW x \in Int, NEW y \in Int,
         \A i, j \in Changes(z) : i < j => z.at[i] + (x - y) < z.at[j]
  PROVE  Era(z, x) <= Era(z, y) + 1
<1> DEFINE e == Era(z, x)
           d == Era(z, y)
<1>1. /\ e \in Eras(z) /\ d \in Eras(z) /\ Len(z.at) \in Nat
      /\ \A i \in Changes(z) : z.at[i] \in Int
      /\ \A i \in Changes(z) : IF i < e THEN z.at[i] <= x ELSE x < z.at[i]
      /\ \A i \in Changes(z) : IF i < d THEN z.at[i] <= y ELSE y < z.at[i]
  BY EraOf DEF Regular
<1> HIDE DEF e, d
<1>2. ASSUME e > d + 1
      PROVE  FALSE
  <2>1. d \in Changes(z) /\ e - 1 \in Changes(z) /\ d < e - 1
    BY <1>1, <1>2 DEF Changes, Eras
  <2>2. y < z.at[d] /\ z.at[e - 1] <= x /\ z.at[d] \in Int /\ z.at[e - 1] \in Int
    BY <2>1, <1>1 DEF Eras
  <2>3. z.at[d] + (x - y) < z.at[e - 1]
    BY <2>1
  <2> QED
    BY <2>2, <2>3
<1>3. ~(e > d + 1) /\ e \in Int /\ d \in Int
  BY <1>1, <1>2 DEF Eras
<1> QED
  BY <1>3 DEF e, d

\* The change before era i + 1 skips that local time, or makes it happen twice.
Skips(z, i, local) ==
  z.at[i] + z.offsets[i] <= local /\ local < z.at[i] + z.offsets[i + 1]
Repeats(z, i, local) ==
  z.at[i] + z.offsets[i + 1] <= local /\ local < z.at[i] + z.offsets[i]

\* Date finds the local time, unless it was skipped; then it finds one that is off
\* by as much as the clock was shifted.
LEMMA DateFinds ==
  ASSUME NEW z, Regular(z), NEW local \in Int
  PROVE  /\ Date(z)[local] \in Int /\ Local(z)[Date(z)[local]] \in Int
         /\ (\A i \in Changes(z) : ~Skips(z, i, local)) => Local(z)[Date(z)[local]] = local
         /\ -DayLength <= 2 * (Local(z)[Date(z)[local]] - local)
         /\ 2 * (Local(z)[Date(z)[local]] - local) <= DayLength
<1> DEFINE e1 == Era(z, local)
           u == local - z.offsets[e1]
           e2 == Era(z, u)
           v == local - z.offsets[e2]
           e3 == Era(z, v)
<1>1. Date(z)[local] = v
  BY DEF Date
<1>2. /\ \A k \in Eras(z) : z.offsets[k] \in Int
      /\ Len(z.at) \in Nat /\ Changes(z) \subseteq Int /\ Eras(z) \subseteq Int
      /\ \A i \in Changes(z) : z.at[i] \in Int
  BY DEF Regular, Changes, Eras
<1>3. e1 \in Eras(z)
  BY EraOf
<1>4. u \in Int /\ z.offsets[e1] \in Int
  BY <1>2, <1>3
<1>5. /\ e2 \in Eras(z)
      /\ \A i \in Changes(z) : IF i < e2 THEN z.at[i] <= u ELSE u < z.at[i]
  BY <1>4, EraOf
<1>6. v \in Int /\ z.offsets[e2] \in Int
  BY <1>2, <1>5
<1>7. /\ e3 \in Eras(z)
      /\ \A i \in Changes(z) : IF i < e3 THEN z.at[i] <= v ELSE v < z.at[i]
  BY <1>6, EraOf
<1>8. Local(z)[v] = v + z.offsets[e3] /\ z.offsets[e3] \in Int
  BY <1>6, <1>7, <1>2, LocalOf
<1>9. \A i, j \in Changes(z) : i < j =>
        /\ \A k \in Eras(z) : z.at[i] + z.offsets[k] < z.at[j] /\ z.at[i] - z.offsets[k] < z.at[j]
        /\ \A k, l \in Eras(z) : z.at[i] + z.offsets[k] - z.offsets[l] < z.at[j]
  BY DEF Regular
<1>10. e1 <= e2 + 1 /\ e2 <= e1 + 1 /\ e1 <= e3 + 1 /\ e3 <= e1 + 1 /\ e2 <= e3 + 1 /\ e3 <= e2 + 1
  <2> DEFINE o1 == z.offsets[e1]
             o2 == z.offsets[e2]
  <2>o. o1 \in Int /\ o2 \in Int /\ \A i \in Changes(z) : z.at[i] \in Int
    BY <1>2, <1>4, <1>6
  <2>u. /\ local - u = o1 /\ u - local = 0 - o1 /\ local - v = o2 /\ v - local = 0 - o2
        /\ u - v = o2 - o1 /\ v - u = o1 - o2
    BY <2>o
  <2>d. \A i, j \in Changes(z) : i < j =>
          /\ z.at[i] + o1 < z.at[j] /\ z.at[i] + (0 - o1) < z.at[j]
          /\ z.at[i] + o2 < z.at[j] /\ z.at[i] + (0 - o2) < z.at[j]
          /\ z.at[i] + (o2 - o1) < z.at[j] /\ z.at[i] + (o1 - o2) < z.at[j]
    <3>1. e1 \in Eras(z) /\ e2 \in Eras(z)
      BY <1>3, <1>5
    <3> HIDE DEF e1, e2
    <3> QED
      BY <1>9, <2>o, <3>1
  <2> HIDE DEF o1, o2, u, v, e1, e2, e3
  <2>1. e1 <= e2 + 1
    <3>1. \A i, j \in Changes(z) : i < j => z.at[i] + (local - u) < z.at[j]
      BY <2>o, <2>u, <2>d
    <3>2. Era(z, local) <= Era(z, u) + 1
      BY <3>1, <1>4, <1>6, Neighbours
    <3> QED
      BY <3>2 DEF e1, e2
  <2>2. e2 <= e1 + 1
    <3>1. \A i, j \in Changes(z) : i < j => z.at[i] + (u - local) < z.at[j]
      BY <2>o, <2>u, <2>d
    <3>2. Era(z, u) <= Era(z, local) + 1
      BY <3>1, <1>4, <1>6, Neighbours
    <3> QED
      BY <3>2 DEF e2, e1
  <2>3. e1 <= e3 + 1
    <3>1. \A i, j \in Changes(z) : i < j => z.at[i] + (local - v) < z.at[j]
      BY <2>o, <2>u, <2>d
    <3>2. Era(z, local) <= Era(z, v) + 1
      BY <3>1, <1>4, <1>6, Neighbours
    <3> QED
      BY <3>2 DEF e1, e3
  <2>4. e3 <= e1 + 1
    <3>1. \A i, j \in Changes(z) : i < j => z.at[i] + (v - local) < z.at[j]
      BY <2>o, <2>u, <2>d
    <3>2. Era(z, v) <= Era(z, local) + 1
      BY <3>1, <1>4, <1>6, Neighbours
    <3> QED
      BY <3>2 DEF e3, e1
  <2>5. e2 <= e3 + 1
    <3>1. \A i, j \in Changes(z) : i < j => z.at[i] + (u - v) < z.at[j]
      BY <2>o, <2>u, <2>d
    <3>2. Era(z, u) <= Era(z, v) + 1
      BY <3>1, <1>4, <1>6, Neighbours
    <3> QED
      BY <3>2 DEF e2, e3
  <2>6. e3 <= e2 + 1
    <3>1. \A i, j \in Changes(z) : i < j => z.at[i] + (v - u) < z.at[j]
      BY <2>o, <2>u, <2>d
    <3>2. Era(z, v) <= Era(z, u) + 1
      BY <3>1, <1>4, <1>6, Neighbours
    <3> QED
      BY <3>2 DEF e3, e2
  <2> QED
    BY <2>1, <2>2, <2>3, <2>4, <2>5, <2>6
<1>11. CASE e3 = e2
  BY <1>11, <1>1, <1>6, <1>8, LengthsTyped
<1>12. CASE e3 # e2
  <2>1. e1 \in Int /\ e2 \in Int /\ e3 \in Int
    BY <1>2, <1>3, <1>5, <1>7
  <2>2. e1 # e2
    BY <1>12
  <2>3. e3 = e1 /\ (e2 = e1 + 1 \/ e1 = e2 + 1)
    BY <1>10, <1>12, <2>1, <2>2
  <2> DEFINE i == IF e2 < e1 THEN e2 ELSE e1
  <2>4. /\ i \in Changes(z) /\ i + 1 \in Eras(z) /\ i \in Eras(z) /\ i \in Int
        /\ \/ i = e2 /\ i + 1 = e1
           \/ i = e1 /\ i + 1 = e2
    BY <2>1, <2>3, <1>2, <1>3, <1>5 DEF Changes, Eras
  <2> HIDE DEF i
  <2>5. Skips(z, i, local)
    <3>1. CASE i = e1 /\ i + 1 = e2
      <4>1. z.at[i] <= u /\ v < z.at[i]
        BY <1>5, <1>7, <2>1, <2>3, <2>4, <3>1
      <4>2. u + z.offsets[i] = local /\ v + z.offsets[i + 1] = local
        BY <3>1, <1>4, <1>6
      <4>3. z.offsets[i] \in Int /\ z.offsets[i + 1] \in Int /\ z.at[i] \in Int
        BY <1>2, <2>4
      <4> HIDE DEF u, v
      <4> QED
        BY <4>1, <4>2, <4>3, <1>4, <1>6 DEF Skips
    <3>2. CASE i = e2 /\ i + 1 = e1
      <4>1. z.at[i] <= v /\ u < z.at[i]
        BY <1>5, <1>7, <2>1, <2>3, <2>4, <3>2
      <4>2. v + z.offsets[i] = local /\ u + z.offsets[i + 1] = local
        BY <3>2, <1>4, <1>6
      <4>3. z.offsets[i] \in Int /\ z.offsets[i + 1] \in Int /\ z.at[i] \in Int
        BY <1>2, <2>4
      <4> HIDE DEF u, v
      <4> QED
        BY <4>1, <4>2, <4>3, <1>4, <1>6 DEF Skips
    <3> QED
      BY <3>1, <3>2, <2>4
  <2>6. /\ -DayLength <= 2 * (z.offsets[i + 1] - z.offsets[i])
        /\ 2 * (z.offsets[i + 1] - z.offsets[i]) <= DayLength
    BY <2>4 DEF Regular
  <2>7. Local(z)[v] - local = z.offsets[e3] - z.offsets[e2]
    BY <1>6, <1>8
  <2>8. -DayLength <= 2 * (Local(z)[v] - local) /\ 2 * (Local(z)[v] - local) <= DayLength
    <3> DEFINE a == z.offsets[e2]
               b == z.offsets[e3]
    <3>1. a \in Int /\ b \in Int /\ Local(z)[v] - local = b - a
      BY <1>6, <1>8, <2>7
    <3>2. \/ z.offsets[i + 1] = b /\ z.offsets[i] = a
          \/ z.offsets[i + 1] = a /\ z.offsets[i] = b
      BY <2>3, <2>4
    <3> HIDE DEF a, b
    <3> QED
      BY <3>1, <3>2, <2>6, LengthsTyped
  <2> QED
    BY <2>4, <2>5, <2>8, <1>1, <1>6, <1>8
<1> QED
  BY <1>11, <1>12

\* An instant at which the clock shows a local time that happens once divides
\* time: the clock shows an earlier one before it and no earlier one after it.
LEMMA Divides ==
  ASSUME NEW z, Regular(z), NEW local \in Int, NEW v \in Int, Local(z)[v] = local,
         \A i \in Changes(z) : ~Repeats(z, i, local),
         NEW t \in Int
  PROVE  t < v <=> Local(z)[t] < local
<1> DEFINE e == Era(z, v)
           d == Era(z, t)
<1>1. /\ e \in Eras(z) /\ d \in Eras(z) /\ e \in Int /\ d \in Int /\ Len(z.at) \in Nat
      /\ \A i \in Changes(z) : IF i < e THEN z.at[i] <= v ELSE v < z.at[i]
      /\ \A i \in Changes(z) : IF i < d THEN z.at[i] <= t ELSE t < z.at[i]
  <2>1. Len(z.at) \in Nat /\ Eras(z) \subseteq Int
    BY DEF Regular, Eras
  <2> QED
    BY <2>1, EraOf
<1>2. /\ local = v + z.offsets[e] /\ Local(z)[t] = t + z.offsets[d]
      /\ z.offsets[e] \in Int /\ z.offsets[d] \in Int
      /\ \A i \in Changes(z) : z.at[i] \in Int
  BY <1>1, LocalOf DEF Regular
<1>3. \A i, j \in Changes(z) : i < j =>
        \A k, l \in Eras(z) : z.at[i] + z.offsets[k] - z.offsets[l] < z.at[j]
  BY DEF Regular
<1> HIDE DEF e, d
<1>4. t < v => d <= e
  <2>1. ASSUME t < v, d > e
        PROVE  FALSE
    <3>1. e \in Changes(z)
      BY <1>1, <2>1 DEF Changes, Eras
    <3> QED
      BY <1>1, <1>2, <2>1, <3>1
  <2> QED
    BY <2>1, <1>1
<1>5. v <= t => e <= d
  <2>1. ASSUME v <= t, e > d
        PROVE  FALSE
    <3>1. d \in Changes(z)
      BY <1>1, <2>1 DEF Changes, Eras
    <3> QED
      BY <1>1, <1>2, <2>1, <3>1
  <2> QED
    BY <2>1, <1>1
<1>6. ASSUME t < v
      PROVE  Local(z)[t] < local
  <2>1. CASE d = e
    BY <1>2, <1>6, <2>1
  <2>2. CASE d + 1 = e
    <3>1. d \in Changes(z) /\ t < z.at[d] /\ z.at[d] <= v /\ z.at[d] \in Int
      BY <1>1, <1>2, <2>2 DEF Changes, Eras
    <3>2. ~Repeats(z, d, local)
      BY <3>1
    <3> QED
      BY <1>2, <2>2, <3>1, <3>2 DEF Repeats
  <2>3. CASE d + 1 < e
    <3>1. d \in Changes(z) /\ e - 1 \in Changes(z) /\ d < e - 1
      BY <1>1, <2>3 DEF Changes, Eras
    <3>2. t < z.at[d] /\ z.at[e - 1] <= v /\ z.at[d] \in Int /\ z.at[e - 1] \in Int
      BY <1>1, <1>2, <3>1
    <3>3. z.at[d] + z.offsets[d] - z.offsets[e] < z.at[e - 1]
      BY <1>1, <1>3, <3>1
    <3> QED
      BY <1>2, <3>2, <3>3
  <2> QED
    BY <1>1, <1>4, <1>6, <2>1, <2>2, <2>3
<1>7. ASSUME v <= t
      PROVE  local <= Local(z)[t]
  <2>1. CASE d = e
    BY <1>2, <1>7, <2>1
  <2>2. CASE e + 1 = d
    <3>1. e \in Changes(z) /\ v < z.at[e] /\ z.at[e] <= t /\ z.at[e] \in Int
      BY <1>1, <1>2, <2>2 DEF Changes, Eras
    <3>2. ~Repeats(z, e, local)
      BY <3>1
    <3> QED
      BY <1>2, <2>2, <3>1, <3>2 DEF Repeats
  <2>3. CASE e + 1 < d
    <3>1. e \in Changes(z) /\ d - 1 \in Changes(z) /\ e < d - 1
      BY <1>1, <2>3 DEF Changes, Eras
    <3>2. v < z.at[e] /\ z.at[d - 1] <= t /\ z.at[e] \in Int /\ z.at[d - 1] \in Int
      BY <1>1, <1>2, <3>1
    <3>3. z.at[e] + z.offsets[e] - z.offsets[d] < z.at[d - 1]
      BY <1>1, <1>3, <3>1
    <3> QED
      BY <1>2, <3>2, <3>3
  <2> QED
    BY <1>1, <1>5, <1>7, <2>1, <2>2, <2>3
<1>8. Local(z)[t] \in Int
  BY LocalOf
<1> QED
  BY <1>6, <1>7, <1>8

-----------------------------------------------------------------------------
(* Periods and their bounds                                                *)

Goals == [cadence: Cadences, zone: Zones, startsAt: Starts, endsAt: Ends]

\* The local time at which a day begins; the day a period begins with.
DayBegins(day) == day * DayLength
FirstDay(g, p) == IF g.cadence = "daily" THEN p ELSE p * WeekDays
Midnight(g, p) == DayBegins(FirstDay(g, p))

\* No clock change skips or repeats a midnight.
Spares(z) ==
  \A i \in Changes(z), d \in Int :
    ~Skips(z, i, DayBegins(d)) /\ ~Repeats(z, i, DayBegins(d))

LEMMA SparedMidnights ==
  ASSUME goal \in Goals, SparesMidnight
  PROVE  Spares(goal.zone)
<1> DEFINE z == goal.zone
<1>1. Regular(z) /\ DOMAIN z.at = Changes(z)
  BY ZonesAreRegular DEF Goals, Regular
<1>2. SUFFICES ASSUME NEW i \in Changes(z), NEW d \in Int
               PROVE  ~Skips(z, i, d * DayLength) /\ ~Repeats(z, i, d * DayLength)
  BY DEF Spares, DayBegins
<1> DEFINE before == z.at[i] + z.offsets[i]
           after == z.at[i] + z.offsets[i + 1]
           b == z.at[i] - 1 + z.offsets[i]
           a == z.at[i] - 1 + z.offsets[i + 1]
<1>3. /\ z.at[i] \in Int /\ z.offsets[i] \in Int /\ z.offsets[i + 1] \in Int
      /\ before \in Int /\ after \in Int /\ b = before - 1 /\ a = after - 1
  <2>1. i \in Eras(z) /\ i + 1 \in Eras(z)
    BY <1>1 DEF Regular, Changes, Eras
  <2>2. z.at[i] \in Int /\ z.offsets[i] \in Int /\ z.offsets[i + 1] \in Int
    BY <1>1, <2>1 DEF Regular
  <2> QED
    BY <2>2
<1>4. b \div DayLength = a \div DayLength
  BY <1>1 DEF SparesMidnight
<1>5. d * DayLength \in Int
  BY Multiples, LengthsTyped
<1>6. a \in Int /\ b \in Int
  BY <1>3
<1>7. b \div DayLength < d <=> b < d * DayLength
  BY <1>6, DivLess, LengthsTyped
<1>8. a \div DayLength < d <=> a < d * DayLength
  BY <1>6, DivLess, LengthsTyped
<1>9. b < d * DayLength <=> a < d * DayLength
  BY <1>4, <1>7, <1>8
<1> HIDE DEF a, b
<1>10. before <= d * DayLength <=> after <= d * DayLength
  BY <1>3, <1>5, <1>9
<1> QED
  BY <1>3, <1>5, <1>10 DEF Skips, Repeats

LEMMA GoalTyped ==
  ASSUME NEW g \in Goals
  PROVE  /\ Regular(g.zone) /\ g.cadence \in {"daily", "weekly"}
         /\ g.startsAt \in 0 .. MaxTime /\ g.startsAt \in Int /\ g.endsAt \in Int
         /\ MaxTime \in Nat
<1>1. g.startsAt \in Starts /\ g.endsAt \in Ends /\ g.zone \in Zones /\ g.cadence \in Cadences
  BY DEF Goals
<1>2. Ends \subseteq Int
  <2>1. Ends \subseteq 0 .. Forever
    BY PeriodsAssumption
  <2> QED
    BY <2>1
<1>3. g.startsAt \in 0 .. MaxTime /\ MaxTime \in Nat /\ g.cadence \in {"daily", "weekly"}
  BY <1>1, PeriodsAssumption
<1>4. Regular(g.zone)
  BY <1>1, ZonesAreRegular
<1>5. g.startsAt \in Int
  BY <1>3
<1> QED
  BY <1>1, <1>2, <1>3, <1>4, <1>5

\* An instant belongs to the period whose midnights its local time lies between.
LEMMA PeriodOf ==
  ASSUME NEW g \in Goals, NEW t \in Int, NEW p \in Int
  PROVE  /\ CurrentPeriod(g, t) \in Int /\ FirstDay(g, p) \in Int /\ Midnight(g, p) \in Int
         /\ CurrentPeriod(g, t) < p <=> Local(g.zone)[t] < Midnight(g, p)
<1> DEFINE local == Local(g.zone)[t]
<1>1. local \in Int /\ Day(g.zone)[t] = local \div DayLength
  BY GoalTyped, LocalOf DEF Day
<1>2. p * WeekDays \in Int
  BY Multiples, LengthsTyped
<1>3. FirstDay(g, p) \in Int
  BY <1>2 DEF FirstDay
<1>4. Midnight(g, p) \in Int
  BY <1>3, Multiples, LengthsTyped DEF Midnight, DayBegins
<1> HIDE DEF local
<1>5. CASE g.cadence = "daily"
  <2>1. CurrentPeriod(g, t) = local \div DayLength /\ Midnight(g, p) = p * DayLength
    BY <1>1, <1>5 DEF CurrentPeriod, Midnight, DayBegins, FirstDay
  <2>2. local \div DayLength \in Int /\ (local \div DayLength < p <=> local < p * DayLength)
    BY <1>1, DivBounds, DivLess, LengthsTyped
  <2> QED
    BY <2>1, <2>2, <1>3, <1>4 DEF local
<1>6. CASE g.cadence # "daily"
  <2>1. /\ CurrentPeriod(g, t) = (local \div DayLength) \div WeekDays
        /\ Midnight(g, p) = (p * WeekDays) * DayLength
    BY <1>1, <1>6 DEF CurrentPeriod, Midnight, DayBegins, FirstDay
  <2>2. /\ (local \div DayLength) \div WeekDays \in Int
        /\ (local \div DayLength) \div WeekDays < p <=> local < (p * WeekDays) * DayLength
    BY <1>1, DivTwice, LengthsTyped
  <2> QED
    BY <2>1, <2>2, <1>3, <1>4 DEF local
<1> QED
  BY <1>5, <1>6

\* Where midnights are spared, Date finds them.
LEMMA DateOfMidnight ==
  ASSUME NEW z, Regular(z), Spares(z), NEW d \in Int
  PROVE  /\ DayBegins(d) \in Int /\ Date(z)[DayBegins(d)] \in Int
         /\ Local(z)[Date(z)[DayBegins(d)]] = DayBegins(d)
<1>1. DayBegins(d) \in Int
  BY Multiples, LengthsTyped DEF DayBegins
<1>2. \A i \in Changes(z) : ~Skips(z, i, DayBegins(d))
  BY DEF Spares
<1> QED
  BY <1>1, <1>2, DateFinds

\* Days added to a midnight lead to the midnight that many days later.
LEMMA AddToMidnight ==
  ASSUME NEW z, NEW t \in Int, NEW d \in Int, NEW n \in Int, NEW e \in Int, e = d + n,
         Local(z)[t] = DayBegins(d)
  PROVE  AddDate(z, n)[t] = Date(z)[DayBegins(e)]
<1>1. DayBegins(d) + n * DayLength = DayBegins(e)
  BY LengthsTyped DEF DayBegins
<1> QED
  BY <1>1 DEF AddDate

\* The first midnight of an ISO week is as many weeks from that of week 0.
LEMMA WeekStart ==
  ASSUME NEW z, Regular(z), Spares(z), NEW week \in Int
  PROVE  IsoWeekStart(z, week) = Date(z)[DayBegins(week * WeekDays)]
<1> DEFINE s0 == Date(z)[DayBegins(Jan4)]
           s1 == AddDate(z, -Jan4)[s0]
<1>1. Jan4 \in Int /\ -Jan4 \in Int /\ 0 \in Int /\ week * WeekDays \in Int
  BY LengthsTyped, Multiples
<1>2. s0 \in Int /\ Local(z)[s0] = DayBegins(Jan4)
  BY <1>1, DateOfMidnight
<1>3. 0 = Jan4 + -Jan4 /\ week * WeekDays = 0 + week * WeekDays
  BY <1>1
<1>4. s1 = Date(z)[DayBegins(0)]
  BY <1>1, <1>2, <1>3, AddToMidnight
<1>5. Date(z)[DayBegins(0)] \in Int /\ Local(z)[Date(z)[DayBegins(0)]] = DayBegins(0)
  BY <1>1, DateOfMidnight
<1>6. s1 \in Int /\ Local(z)[s1] = DayBegins(0)
  BY <1>4, <1>5
<1>7. AddDate(z, week * WeekDays)[s1] = Date(z)[DayBegins(week * WeekDays)]
  <2> DEFINE days == week * WeekDays
  <2>1. days \in Int /\ days = 0 + days
    BY <1>1
  <2> HIDE DEF days, s0, s1
  <2>2. PICK first \in Int : first = 0
    OBVIOUS
  <2>3. days = first + days /\ s1 \in Int /\ Local(z)[s1] = DayBegins(first)
    BY <1>6, <2>1, <2>2
  <2>4. AddDate(z, days)[s1] = Date(z)[DayBegins(days)]
    BY <2>1, <2>2, <2>3, AddToMidnight
  <2> QED
    BY <2>4 DEF days
<1>8. IsoWeekStart(z, week) = AddDate(z, week * WeekDays)[s1]
  BY DEF IsoWeekStart, DayBegins
<1> QED
  BY <1>7, <1>8

\* A period begins at its midnight and ends where the next one begins.
LEMMA BoundsOf ==
  ASSUME NEW g \in Goals, Spares(g.zone), NEW p \in Int
  PROVE  /\ PeriodBounds(g, p).ok
         /\ PeriodBounds(g, p).start \in Int
         /\ Local(g.zone)[PeriodBounds(g, p).start] = Midnight(g, p)
         /\ PeriodBounds(g, p).end = PeriodBounds(g, p + 1).start
<1> DEFINE z == g.zone
<1>1. Regular(z)
  BY GoalTyped
<1>2. p + 1 \in Int /\ p * WeekDays \in Int /\ (p + 1) * WeekDays = p * WeekDays + WeekDays
      /\ 1 \in Int /\ WeekDays \in Int
  BY LengthsTyped, Multiples
<1> HIDE DEF z
<1>3. CASE g.cadence = "daily"
  <2>1. \A q : PeriodBounds(g, q) = From(z, Date(z)[DayBegins(q)], 1, TRUE)
    BY <1>3 DEF PeriodBounds, DailyBounds, DayBegins, z
  <2>2. \A q : /\ PeriodBounds(g, q).ok /\ PeriodBounds(g, q).start = Date(z)[DayBegins(q)]
               /\ PeriodBounds(g, q).end = AddDate(z, 1)[Date(z)[DayBegins(q)]]
    BY <2>1 DEF From
  <2>3. /\ Date(z)[DayBegins(p)] \in Int
        /\ Local(z)[Date(z)[DayBegins(p)]] = DayBegins(p)
    BY <1>1, DateOfMidnight DEF z
  <2>4. AddDate(z, 1)[Date(z)[DayBegins(p)]] = Date(z)[DayBegins(p + 1)]
    <3> DEFINE day == p
               days == 1
               next == p + 1
    <3>1. day \in Int /\ days \in Int /\ next \in Int /\ next = day + days
      OBVIOUS
    <3> HIDE DEF day, days, next
    <3>2. Date(z)[DayBegins(day)] \in Int /\ Local(z)[Date(z)[DayBegins(day)]] = DayBegins(day)
      BY <2>3 DEF day
    <3>3. AddDate(z, days)[Date(z)[DayBegins(day)]] = Date(z)[DayBegins(next)]
      BY <3>1, <3>2, AddToMidnight
    <3> QED
      BY <3>3 DEF day, days, next
  <2>5. Midnight(g, p) = DayBegins(p)
    BY <1>3 DEF Midnight, FirstDay
  <2> QED
    BY <2>2, <2>3, <2>4, <2>5 DEF z
<1>4. CASE g.cadence # "daily"
  <2> DEFINE first(q) == DayBegins(q * WeekDays)
  <2>1. \A q \in Int : IsoWeekStart(z, q) = Date(z)[first(q)]
    BY <1>1, WeekStart DEF z
  <2>2. \A q \in Int : /\ PeriodBounds(g, q).ok = (Day(z)[Date(z)[first(q)]] \div WeekDays = q)
                       /\ PeriodBounds(g, q).start = Date(z)[first(q)]
                       /\ PeriodBounds(g, q).end = AddDate(z, WeekDays)[Date(z)[first(q)]]
    BY <1>4, <2>1 DEF PeriodBounds, WeeklyBounds, From, z
  <2>3. Date(z)[first(p)] \in Int /\ Local(z)[Date(z)[first(p)]] = first(p)
    BY <1>1, <1>2, DateOfMidnight DEF z
  <2>4. AddDate(z, WeekDays)[Date(z)[first(p)]] = Date(z)[DayBegins((p + 1) * WeekDays)]
    <3> DEFINE day == p * WeekDays
               next == (p + 1) * WeekDays
    <3>1. day \in Int /\ next \in Int /\ next = day + WeekDays /\ WeekDays \in Int
      BY <1>2
    <3> HIDE DEF day, next
    <3>2. Date(z)[DayBegins(day)] \in Int /\ Local(z)[Date(z)[DayBegins(day)]] = DayBegins(day)
      BY <2>3 DEF day
    <3>3. AddDate(z, WeekDays)[Date(z)[DayBegins(day)]] = Date(z)[DayBegins(next)]
      BY <3>1, <3>2, AddToMidnight
    <3> QED
      BY <3>3 DEF day, next
  <2>5. Midnight(g, p) = first(p)
    BY <1>4 DEF Midnight, FirstDay
  <2>6. first(p) \div DayLength = p * WeekDays /\ (p * WeekDays) \div WeekDays = p
    BY <1>2, DivMultiple, LengthsTyped DEF DayBegins
  <2>7. Day(z)[Date(z)[first(p)]] = first(p) \div DayLength
    BY <2>3 DEF Day
  <2> HIDE DEF first
  <2>8. PeriodBounds(g, p).ok
    <3>1. Day(z)[Date(z)[first(p)]] \div WeekDays = p
      BY <2>6, <2>7
    <3> QED
      BY <2>2, <3>1
  <2>9. PeriodBounds(g, p).end = PeriodBounds(g, p + 1).start
    <3>1. PeriodBounds(g, p + 1).start = Date(z)[first(p + 1)]
      BY <1>2, <2>2
    <3> QED
      BY <2>2, <2>4, <3>1 DEF first
  <2> QED
    BY <2>2, <2>3, <2>5, <2>8, <2>9 DEF z
<1> QED
  BY <1>3, <1>4

\* There, the start of a period divides the instants of earlier ones from the others.
LEMMA StartDivides ==
  ASSUME NEW g \in Goals, Spares(g.zone), NEW p \in Int, NEW t \in Int
  PROVE  CurrentPeriod(g, t) < p <=> t < PeriodBounds(g, p).start
<1> DEFINE start == PeriodBounds(g, p).start
<1>1. /\ start \in Int /\ Local(g.zone)[start] = Midnight(g, p) /\ Midnight(g, p) \in Int
      /\ CurrentPeriod(g, t) < p <=> Local(g.zone)[t] < Midnight(g, p)
      /\ Regular(g.zone) /\ FirstDay(g, p) \in Int
  BY BoundsOf, PeriodOf, GoalTyped
<1>2. \A i \in Changes(g.zone) : ~Repeats(g.zone, i, Midnight(g, p))
  BY <1>1 DEF Spares, Midnight
<1> HIDE DEF start
<1>3. t < start <=> Local(g.zone)[t] < Midnight(g, p)
  BY <1>1, <1>2, Divides
<1> QED
  BY <1>1, <1>3 DEF start

\* So a period is not empty, its start belongs to it, and starts are ordered.
LEMMA StartsOrdered ==
  ASSUME NEW g \in Goals, Spares(g.zone), NEW p \in Int, NEW q \in Int
  PROVE  /\ CurrentPeriod(g, PeriodBounds(g, p).start) = p
         /\ p < q <=> PeriodBounds(g, p).start < PeriodBounds(g, q).start
<1> DEFINE start == PeriodBounds(g, p).start
<1>1. start \in Int /\ p + 1 \in Int
  BY BoundsOf
<1>2. CurrentPeriod(g, start) \in Int /\ ~(CurrentPeriod(g, start) < p)
  BY <1>1, PeriodOf, StartDivides
<1>3. CurrentPeriod(g, start) < p + 1
  <2>1. CurrentPeriod(g, start) < p + 1 <=> Midnight(g, p) < Midnight(g, p + 1)
    <3>1. Local(g.zone)[start] = Midnight(g, p)
      BY BoundsOf
    <3> QED
      BY <1>1, <3>1, PeriodOf
  <2>2. FirstDay(g, p) \in Int /\ FirstDay(g, p + 1) \in Int /\ FirstDay(g, p) < FirstDay(g, p + 1)
    BY <1>1, PeriodOf, Multiples, LengthsTyped DEF FirstDay
  <2>3. Midnight(g, p) + DayLength <= Midnight(g, p + 1)
    BY <2>2, Multiples, LengthsTyped DEF Midnight, DayBegins
  <2>4. Midnight(g, p) \in Int /\ Midnight(g, p + 1) \in Int
    BY <1>1, PeriodOf
  <2> QED
    BY <2>1, <2>3, <2>4, LengthsTyped
<1>4. CurrentPeriod(g, start) = p
  BY <1>2, <1>3
<1> QED
  BY <1>1, <1>4, StartDivides

\* In any zone, the instant at which a good period ends is in no earlier period.
LEMMA EndsForward ==
  ASSUME NEW g \in Goals, NEW p \in Int, PeriodBounds(g, p).ok
  PROVE  /\ PeriodBounds(g, p).end \in Int
         /\ p <= CurrentPeriod(g, PeriodBounds(g, p).end)
<1> DEFINE z == g.zone
           start == PeriodBounds(g, p).start
           end == PeriodBounds(g, p).end
<1>1. Regular(z) /\ DayLength \in Int /\ DayLength > 0
  BY GoalTyped, LengthsTyped
<1>2. \A local \in Int : /\ Date(z)[local] \in Int /\ Local(z)[Date(z)[local]] \in Int
                         /\ -DayLength <= 2 * (Local(z)[Date(z)[local]] - local)
                         /\ 2 * (Local(z)[Date(z)[local]] - local) <= DayLength
  BY <1>1, DateFinds
<1>3. \A t, n : t \in Int => AddDate(z, n)[t] = Date(z)[Local(z)[t] + n * DayLength]
  BY DEF AddDate
<1>4. Midnight(g, p) \in Int /\ FirstDay(g, p) \in Int
      /\ (end \in Int => (CurrentPeriod(g, end) < p <=> Local(z)[end] < Midnight(g, p)))
      /\ (end \in Int => CurrentPeriod(g, end) \in Int)
  BY PeriodOf
<1>5. SUFFICES end \in Int /\ Midnight(g, p) <= Local(z)[end] /\ Local(z)[end] \in Int
  BY <1>4
<1> HIDE DEF z
<1>6. CASE g.cadence = "daily"
  <2>1. /\ start = Date(z)[p * DayLength] /\ end = AddDate(z, 1)[start]
        /\ Midnight(g, p) = p * DayLength
    BY <1>6 DEF PeriodBounds, DailyBounds, From, Midnight, FirstDay, DayBegins, z
  <2> DEFINE m == p * DayLength
             s == Local(z)[start]
  <2>2. m \in Int /\ start \in Int /\ s \in Int /\ -DayLength <= 2 * (s - m)
    BY <1>2, <1>4, <2>1
  <2>3. end = Date(z)[s + 1 * DayLength] /\ s + 1 * DayLength \in Int
    BY <1>1, <1>3, <2>1, <2>2
  <2> DEFINE x == s + 1 * DayLength
             f == Local(z)[end]
  <2>4. end \in Int /\ f \in Int /\ -DayLength <= 2 * (f - x) /\ x = s + DayLength
    BY <1>1, <1>2, <2>2, <2>3
  <2> HIDE DEF m, s, x, f
  <2>5. m <= f
    BY <1>1, <2>2, <2>4
  <2> QED
    BY <2>1, <2>4, <2>5 DEF m, f
<1>7. CASE g.cadence # "daily"
  <2>1. /\ start = IsoWeekStart(z, p) /\ end = AddDate(z, WeekDays)[start]
        /\ Day(z)[start] \div WeekDays = p
        /\ Midnight(g, p) = (p * WeekDays) * DayLength
    BY <1>7 DEF PeriodBounds, WeeklyBounds, From, Midnight, FirstDay, DayBegins, z
  <2>2. start \in Int
    <3>1. Jan4 * DayLength \in Int /\ (-Jan4) * DayLength \in Int
          /\ (p * WeekDays) * DayLength \in Int
      BY LengthsTyped, Multiples
    <3> DEFINE s0 == Date(z)[Jan4 * DayLength]
               s1 == AddDate(z, -Jan4)[s0]
    <3>2. s0 \in Int /\ Local(z)[s0] \in Int
      BY <1>2, <3>1
    <3>3. s1 \in Int /\ Local(z)[s1] \in Int
      <4> DEFINE x == Local(z)[s0] + (-Jan4) * DayLength
      <4>1. x \in Int /\ s1 = Date(z)[x]
        BY <1>3, <3>1, <3>2
      <4> QED
        BY <1>2, <4>1
    <3>4. AddDate(z, p * WeekDays)[s1] \in Int
      <4> DEFINE x == Local(z)[s1] + (p * WeekDays) * DayLength
      <4>1. x \in Int /\ AddDate(z, p * WeekDays)[s1] = Date(z)[x]
        BY <1>3, <3>1, <3>3
      <4> QED
        BY <1>2, <4>1
    <3> QED
      BY <2>1, <3>4 DEF IsoWeekStart
  <2> DEFINE s == Local(z)[start]
             f == Local(z)[end]
             m == Midnight(g, p)
             w == WeekDays * DayLength
             x == s + w
  <2>3. s \in Int /\ Day(z)[start] = s \div DayLength
    BY <1>1, <2>2, LocalOf DEF Day
  <2>4. m <= s
    <3>1. (s \div DayLength) \div WeekDays < p <=> s < (p * WeekDays) * DayLength
      BY <2>3, DivTwice, LengthsTyped
    <3>2. ~(s < m)
      BY <2>1, <2>3, <3>1
    <3> QED
      BY <1>4, <2>3, <3>2
  <2>5. w \in Int /\ DayLength <= w
    <3>1. 1 * DayLength <= WeekDays * DayLength /\ WeekDays * DayLength \in Int
      BY Multiples, LengthsTyped
    <3> QED
      BY <1>1, <3>1
  <2>6. end = Date(z)[x] /\ x \in Int
    BY <1>3, <2>1, <2>2, <2>3, <2>5
  <2>7. end \in Int /\ f \in Int /\ -DayLength <= 2 * (f - x)
    BY <1>2, <2>6
  <2> HIDE DEF s, f, w
  <2>8. m <= f
    BY <1>1, <1>4, <2>3, <2>4, <2>5, <2>7
  <2> QED
    BY <2>7, <2>8 DEF f
<1> QED
  BY <1>6, <1>7

-----------------------------------------------------------------------------
(* The loop                                                                *)

\* The period the goal begins in, with which the loop begins.
FirstPeriod == CurrentPeriod(goal, goal.startsAt)

\* An instant of the first period or a later one is no earlier than the window.
LEMMA InWindow ==
  ASSUME goal \in Goals, NEW t \in Int, t <= MaxTime,
         FirstPeriod <= CurrentPeriod(goal, t)
  PROVE  t \in Window
<1> DEFINE z == goal.zone
           p == FirstPeriod
           w == WeekDays * DayLength
           m == Midnight(goal, p)
           n == Midnight(goal, p + 1)
           s == Local(z)[goal.startsAt]
           l == Local(z)[t]
<1>1. goal.startsAt \in Int /\ goal.startsAt >= 0 /\ Regular(z) /\ MaxTime \in Nat
  BY GoalTyped
<1>2. p \in Int /\ p + 1 \in Int /\ CurrentPeriod(goal, t) \in Int
  BY <1>1, PeriodOf DEF FirstPeriod
<1>3. /\ m \in Int /\ n \in Int
      /\ CurrentPeriod(goal, t) < p <=> l < m
      /\ CurrentPeriod(goal, goal.startsAt) < p + 1 <=> s < n
  BY <1>1, <1>2, PeriodOf
<1>4. l \in Int /\ s \in Int /\ l < t + DayLength /\ -DayLength < s
  BY <1>1, LocalOf, LengthsTyped
<1>5. w \in Int /\ DayLength \in Int /\ 2 * DayLength <= w /\ 2 * DayLength * WeekDays = 2 * w
  BY LengthsTyped, Multiples
<1>6. n <= m + w
  <2>1. p * WeekDays \in Int /\ (p + 1) * WeekDays = p * WeekDays + WeekDays
    BY <1>2, Multiples, LengthsTyped
  <2>2. CASE goal.cadence = "daily"
    <3>1. m = p * DayLength /\ n = (p + 1) * DayLength
      BY <2>2 DEF Midnight, FirstDay, DayBegins
    <3>2. n = m + DayLength
      BY <1>2, <3>1, Multiples, LengthsTyped
    <3> QED
      BY <1>3, <1>5, <3>2, LengthsTyped
  <2>3. CASE goal.cadence # "daily"
    <3>1. m = (p * WeekDays) * DayLength /\ n = ((p + 1) * WeekDays) * DayLength
      BY <2>3 DEF Midnight, FirstDay, DayBegins
    <3>2. n = m + w
      BY <1>2, <2>1, <3>1, LengthsTyped
    <3> QED
      BY <1>3, <1>5, <3>2
  <2> QED
    BY <2>2, <2>3
<1>7. m <= l /\ s < n
  BY <1>2, <1>3, <1>4 DEF FirstPeriod
<1> HIDE DEF p, w, m, n, s, l
<1>8. -(2 * w) <= t
  BY <1>3, <1>4, <1>5, <1>6, <1>7
<1>9. -2 * DayLength * WeekDays = -(2 * w)
  BY LengthsTyped DEF w
<1>10. Window = -(2 * w) .. (MaxTime + 2 * w)
  BY <1>5, <1>9 DEF Window
<1> QED
  BY <1>1, <1>5, <1>8, <1>10, LengthsTyped

Collected(p) == \E i \in DOMAIN periods : periods[i] = p

\* Where midnights are spared: the loop has collected what is due and every period
\* that it has passed, and it returns because the next one is not over or not the
\* goal's.
Exact ==
  /\ \A i \in DOMAIN periods : Due(periods[i])
  /\ \A p \in FirstPeriod .. (period - 1) : Collected(p)
  /\ at = "returned" => Over

\* The loop goes forward.
Forward ==
  /\ FirstPeriod <= period
  /\ \A i \in DOMAIN periods : /\ periods[i] <= period
                               /\ at = "loop" => periods[i] < period

PeriodsInv ==
  /\ TypeOK
  /\ Forward
  /\ InOrder
  /\ SparesMidnight => Exact

LEMMA StateTyped ==
  ASSUME TypeOK
  PROVE  /\ goal \in Goals /\ FirstPeriod \in Int /\ period \in Int /\ Keys \subseteq Int
         /\ now \in Int /\ 0 <= now /\ now <= MaxTime
         /\ \A i \in DOMAIN periods : periods[i] \in Int
         /\ goal.startsAt \in Int /\ 0 <= goal.startsAt /\ goal.startsAt <= MaxTime
         /\ goal.endsAt \in Int /\ MaxTime \in Int /\ Window \subseteq Int
<1>1. goal \in Goals /\ now \in 0 .. MaxTime /\ period \in Keys /\ periods \in Seq(Keys)
  BY DEF TypeOK, Goals
<1>2. goal.startsAt \in 0 .. MaxTime /\ goal.startsAt \in Int /\ goal.endsAt \in Int /\ MaxTime \in Nat
  BY <1>1, GoalTyped
<1>3. Window \subseteq Int
  BY <1>2, LengthsTyped, Multiples DEF Window
<1>4. \A t \in Int : CurrentPeriod(goal, t) \in Int
  BY <1>1, PeriodOf
<1>5. Keys \subseteq Int
  BY <1>3, <1>4 DEF Keys
<1>6. FirstPeriod \in Int
  BY <1>2, <1>4 DEF FirstPeriod
<1>7. \A i \in DOMAIN periods : periods[i] \in Keys
  BY <1>1
<1>8. now \in Int /\ 0 <= now /\ now <= MaxTime /\ MaxTime \in Int
      /\ 0 <= goal.startsAt /\ goal.startsAt <= MaxTime
  BY <1>1, <1>2
<1>9. (\A i \in DOMAIN periods : periods[i] \in Int) /\ period \in Int
  BY <1>1, <1>5, <1>7
<1> QED
  BY <1>1, <1>2, <1>3, <1>5, <1>6, <1>8, <1>9

LEMMA InitExact == Init => PeriodsInv
<1> SUFFICES ASSUME Init PROVE PeriodsInv
  OBVIOUS
<1>1. goal \in Goals /\ period = FirstPeriod /\ periods = <<>> /\ at = "loop"
      /\ now \in 0 .. MaxTime
  BY DEF Init, Goals, FirstPeriod
<1>2. goal.startsAt \in 0 .. MaxTime /\ goal.startsAt \in Int
  BY <1>1, GoalTyped
<1>3. FirstPeriod \in Int
  BY <1>1, <1>2, PeriodOf DEF FirstPeriod
<1>4. goal.startsAt \in Window
  BY <1>1, <1>2, <1>3, InWindow DEF FirstPeriod
<1>5. TypeOK
  <2>1. period \in Keys
    BY <1>1, <1>4 DEF Keys, FirstPeriod
  <2> QED
    BY <1>1, <2>1 DEF TypeOK, Goals
<1>6. DOMAIN periods = {}
  BY <1>1
<1> QED
  BY <1>1, <1>3, <1>5, <1>6 DEF PeriodsInv, Forward, InOrder, Exact

\* What the loop does with a period: it comes last, if at all.
LEMMA CollectLast ==
  ASSUME TypeOK, Collect
  PROVE  /\ periods' \in Seq(Keys)
         /\ \A i \in DOMAIN periods' :
              \/ i \in DOMAIN periods /\ periods'[i] = periods[i]
              \/ /\ i \notin DOMAIN periods /\ periods'[i] = period
                 /\ \A j \in DOMAIN periods' : j # i => j \in DOMAIN periods /\ j < i
         /\ \A p : Collected(p) => Collected(p)'
         /\ PeriodIntersectsGoal => \E i \in DOMAIN periods' : periods'[i] = period
<1>1. periods \in Seq(Keys) /\ period \in Keys
  BY DEF TypeOK
<1>2. CASE PeriodIntersectsGoal
  <2>1. periods' = Append(periods, period)
    BY <1>2 DEF Collect
  <2>2. /\ periods' \in Seq(Keys) /\ Len(periods) \in Nat
        /\ DOMAIN periods = 1 .. Len(periods) /\ DOMAIN periods' = 1 .. (Len(periods) + 1)
        /\ \A i \in 1 .. Len(periods) : periods'[i] = periods[i]
        /\ periods'[Len(periods) + 1] = period
    BY <1>1, <2>1
  <2>3. Len(periods) + 1 \in DOMAIN periods'
    BY <2>2
  <2>4. ASSUME NEW i \in DOMAIN periods', i \notin DOMAIN periods
        PROVE  /\ periods'[i] = period
               /\ \A j \in DOMAIN periods' : j # i => j \in DOMAIN periods /\ j < i
    BY <2>2, <2>4
  <2>5. \A p : Collected(p) => Collected(p)'
    BY <2>2 DEF Collected
  <2>6. \E i \in DOMAIN periods' : periods'[i] = period
    BY <2>2, <2>3
  <2> QED
    BY <2>2, <2>4, <2>5, <2>6
<1>3. CASE ~PeriodIntersectsGoal
  BY <1>1, <1>3 DEF Collect, Collected
<1> QED
  BY <1>2, <1>3

\* The loop goes on to a later period, within the window.
LEMMA SuccessorLater ==
  ASSUME TypeOK, Forward, ~Over, Successor # period
  PROVE  Successor \in Keys /\ Successor \in Int /\ period < Successor
<1>1. /\ goal \in Goals /\ period \in Int /\ FirstPeriod \in Int
      /\ now \in Int /\ now <= MaxTime /\ MaxTime \in Int
  BY StateTyped
<1>2. Bounds.ok /\ ~(Bounds.end > now)
  BY DEF Over
<1>3. Bounds.end \in Int /\ period <= Successor
  BY <1>1, <1>2, EndsForward DEF Bounds, Successor
<1>4. Successor \in Int
  BY <1>1, <1>3, PeriodOf DEF Successor
<1>5. FirstPeriod <= Successor /\ Bounds.end <= MaxTime
  BY <1>1, <1>2, <1>3, <1>4 DEF Forward
<1>6. Bounds.end \in Window
  BY <1>1, <1>3, <1>5, InWindow DEF Successor
<1> QED
  BY <1>1, <1>3, <1>4, <1>6 DEF Keys, Successor

\* Where midnights are spared, a period that is over is due, the goal has to do
\* with it, and the loop goes on to the next.
LEMMA CompletedIsDue ==
  ASSUME TypeOK, Forward, SparesMidnight, ~Over
  PROVE  Due(period) /\ PeriodIntersectsGoal /\ Successor = period + 1
<1> DEFINE start == Bounds.start
           end == Bounds.end
<1>1. /\ goal \in Goals /\ period \in Int /\ FirstPeriod \in Int /\ period + 1 \in Int
      /\ now \in Int /\ now <= MaxTime /\ MaxTime \in Int
      /\ goal.startsAt \in Int /\ 0 <= goal.startsAt /\ goal.endsAt \in Int /\ Window \subseteq Int
  BY StateTyped
<1>2. Spares(goal.zone)
  BY <1>1, SparedMidnights
<1>3. end = PeriodBounds(goal, period + 1).start /\ start \in Int /\ end \in Int
  BY <1>1, <1>2, BoundsOf DEF Bounds
<1>4. CurrentPeriod(goal, start) = period /\ CurrentPeriod(goal, end) = period + 1 /\ start < end
  BY <1>1, <1>2, <1>3, StartsOrdered DEF Bounds
<1>5. \A t \in Int : /\ CurrentPeriod(goal, t) \in Int
                     /\ CurrentPeriod(goal, t) < period <=> t < start
                     /\ CurrentPeriod(goal, t) < period + 1 <=> t < end
  BY <1>1, <1>2, <1>3, StartDivides, PeriodOf DEF Bounds
<1>6. end <= now /\ start < goal.endsAt
  BY <1>1, <1>3 DEF Over
<1> HIDE DEF start, end
<1>7. goal.startsAt < end
  BY <1>1, <1>5 DEF Forward, FirstPeriod
<1>8. \A t \in Int : start <= t /\ t < end => CurrentPeriod(goal, t) = period
  BY <1>1, <1>3, <1>5
<1>9. \A t \in Int : start <= t /\ t < end => t \in Span(period)
  <2> TAKE t \in Int
  <2> HAVE start <= t /\ t < end
  <2>1. CurrentPeriod(goal, t) = period /\ t <= MaxTime
    BY <1>1, <1>3, <1>6, <1>8
  <2>2. t \in Window
    BY <1>1, <2>1, InWindow DEF Forward
  <2> QED
    BY <2>1, <2>2 DEF Span
<1>10. \A t \in Span(period) : t < now
  BY <1>1, <1>3, <1>5, <1>6 DEF Span
<1>11. \E t \in Span(period) : t >= goal.startsAt
  <2> DEFINE t == IF goal.startsAt <= start THEN start ELSE goal.startsAt
  <2>1. t \in Int /\ start <= t /\ t < end /\ t >= goal.startsAt
    BY <1>1, <1>3, <1>4, <1>7
  <2> QED
    BY <1>9, <2>1
<1>12. start \in Span(period)
  BY <1>3, <1>4, <1>9
<1>13. Due(period)
  BY <1>6, <1>10, <1>11, <1>12 DEF Due
<1>14. PeriodIntersectsGoal /\ Successor = period + 1
  BY <1>1, <1>3, <1>4, <1>7 DEF PeriodIntersectsGoal, Successor, end
<1> QED
  BY <1>13, <1>14

\* The steps of the loop keep the goal and the tick, so what is due stays due.
LEMMA DueStays ==
  ASSUME UNCHANGED <<goal, now>>
  PROVE  /\ \A p : Due(p)' = Due(p)
         /\ FirstPeriod' = FirstPeriod /\ SparesMidnight' = SparesMidnight /\ Keys' = Keys
BY DEF Due, Span, FirstPeriod, SparesMidnight, Keys, CurrentPeriod

\* A period that is collected is later than the others, which stay in order.
LEMMA CollectInOrder ==
  ASSUME TypeOK, Forward, InOrder, at = "loop", Collect
  PROVE  /\ InOrder'
         /\ \A i \in DOMAIN periods' : periods'[i] \in Int /\ periods'[i] <= period
<1>1. /\ period \in Int
      /\ \A i \in DOMAIN periods : periods[i] \in Int /\ periods[i] < period /\ i \in Int
  BY StateTyped DEF Forward, TypeOK
<1>2. \A i \in DOMAIN periods' :
        \/ i \in DOMAIN periods /\ periods'[i] = periods[i]
        \/ /\ i \notin DOMAIN periods /\ periods'[i] = period
           /\ \A j \in DOMAIN periods' : j # i => j \in DOMAIN periods /\ j < i
  BY CollectLast
<1>3. \A i \in DOMAIN periods' : i \in Int
  <2>1. periods' \in Seq(Keys)
    BY CollectLast
  <2> QED
    BY <2>1
<1>4. ASSUME NEW i \in DOMAIN periods', NEW j \in DOMAIN periods', i < j
      PROVE  periods'[i] < periods'[j]
  <2>1. i \in DOMAIN periods /\ periods'[i] = periods[i]
    BY <1>2, <1>3, <1>4
  <2>2. CASE j \in DOMAIN periods /\ periods'[j] = periods[j]
    BY <1>4, <2>1, <2>2 DEF InOrder
  <2>3. CASE periods'[j] = period
    BY <1>1, <2>1, <2>3
  <2> QED
    BY <1>2, <2>2, <2>3
<1>5. \A i \in DOMAIN periods' : periods'[i] \in Int /\ periods'[i] <= period
  BY <1>1, <1>2
<1> QED
  BY <1>4, <1>5 DEF InOrder

\* A period that is over is collected after the ones before it, where midnights
\* are spared.
LEMMA CollectExact ==
  ASSUME TypeOK, Forward, SparesMidnight, Exact, ~Over, Collect, UNCHANGED <<goal, now>>
  PROVE  /\ \A i \in DOMAIN periods' : Due(periods'[i])
         /\ \A p \in FirstPeriod .. period : Collected(p)'
<1>1. Due(period) /\ PeriodIntersectsGoal
  BY CompletedIsDue
<1>2. /\ \A i \in DOMAIN periods' : \/ i \in DOMAIN periods /\ periods'[i] = periods[i]
                                    \/ periods'[i] = period
      /\ \A p : Collected(p) => Collected(p)'
      /\ \E i \in DOMAIN periods' : periods'[i] = period
  BY <1>1, CollectLast
<1>3. FirstPeriod \in Int /\ period \in Int
  BY StateTyped
<1>4. \A i \in DOMAIN periods' : Due(periods'[i])
  BY <1>1, <1>2 DEF Exact
<1>5. ASSUME NEW p \in FirstPeriod .. period
      PROVE  Collected(p)'
  <2>1. CASE p = period
    BY <1>2, <2>1 DEF Collected
  <2>2. CASE p # period
    <3>1. p \in FirstPeriod .. (period - 1)
      BY <1>3, <1>5, <2>2
    <3> QED
      BY <1>2, <3>1 DEF Exact
  <2> QED
    BY <2>1, <2>2
<1> QED
  BY <1>4, <1>5

LEMMA BreakExact == PeriodsInv /\ Break => PeriodsInv'
<1> SUFFICES ASSUME PeriodsInv, Break PROVE PeriodsInv'
  OBVIOUS
<1>1. /\ TypeOK /\ Forward /\ InOrder /\ Over /\ at' = "returned"
      /\ UNCHANGED <<goal, now, period, periods>>
      /\ SparesMidnight => Exact
  BY DEF PeriodsInv, Break
<1>2. /\ \A p : Due(p)' = Due(p)
      /\ FirstPeriod' = FirstPeriod /\ SparesMidnight' = SparesMidnight /\ Keys' = Keys
  BY <1>1, DueStays
<1>3. TypeOK'
  BY <1>1, <1>2 DEF TypeOK
<1>4. Forward' /\ InOrder'
  BY <1>1, <1>2 DEF Forward, InOrder
<1>5. Over'
  BY <1>1 DEF Over, Bounds
<1>6. SparesMidnight' => Exact'
  BY <1>1, <1>2, <1>5 DEF Exact, Collected
<1> QED
  BY <1>3, <1>4, <1>6 DEF PeriodsInv

LEMMA AdvanceExact == PeriodsInv /\ Advance => PeriodsInv'
<1> SUFFICES ASSUME PeriodsInv, Advance PROVE PeriodsInv'
  OBVIOUS
<1>1. /\ TypeOK /\ Forward /\ InOrder /\ at = "loop" /\ ~Over /\ Successor # period
      /\ Collect /\ period' = Successor /\ UNCHANGED <<goal, now, at>>
      /\ SparesMidnight => Exact
  BY DEF PeriodsInv, Advance
<1>2. /\ \A p : Due(p)' = Due(p)
      /\ FirstPeriod' = FirstPeriod /\ SparesMidnight' = SparesMidnight /\ Keys' = Keys
  BY <1>1, DueStays
<1>3. Successor \in Keys /\ Successor \in Int /\ period < Successor
  BY <1>1, SuccessorLater
<1>4. TypeOK'
  <2>1. periods' \in Seq(Keys)
    BY <1>1, CollectLast
  <2> QED
    BY <1>1, <1>2, <1>3, <2>1 DEF TypeOK
<1>5. FirstPeriod \in Int /\ period \in Int
  BY <1>1, StateTyped
<1>6. InOrder' /\ \A i \in DOMAIN periods' : periods'[i] \in Int /\ periods'[i] <= period
  BY <1>1, CollectInOrder
<1>7. Forward'
  BY <1>1, <1>2, <1>3, <1>5, <1>6 DEF Forward
<1>8. SparesMidnight => Exact'
  <2> SUFFICES ASSUME SparesMidnight PROVE Exact'
    OBVIOUS
  <2>1. /\ \A i \in DOMAIN periods' : Due(periods'[i])
        /\ \A p \in FirstPeriod .. period : Collected(p)'
    BY <1>1, CollectExact
  <2>2. period' - 1 = period
    BY <1>1, <1>5, CompletedIsDue
  <2>3. \A p \in FirstPeriod' .. (period' - 1) : Collected(p)'
    BY <1>2, <2>1, <2>2
  <2>4. (\A i \in DOMAIN periods : Due(periods[i]))'
    BY <1>2, <2>1
  <2> QED
    BY <1>1, <2>3, <2>4 DEF Exact
<1> QED
  BY <1>2, <1>4, <1>6, <1>7, <1>8 DEF PeriodsInv

LEMMA StallExact == PeriodsInv /\ Stall => PeriodsInv'
<1> SUFFICES ASSUME PeriodsInv, Stall PROVE PeriodsInv'
  OBVIOUS
<1>1. /\ TypeOK /\ Forward /\ InOrder /\ at = "loop" /\ ~Over /\ Successor = period
      /\ Collect /\ at' = "returned" /\ UNCHANGED <<goal, now, period>>
  BY DEF PeriodsInv, Stall
<1>2. FirstPeriod' = FirstPeriod /\ SparesMidnight' = SparesMidnight /\ Keys' = Keys
  BY <1>1, DueStays
<1>3. TypeOK'
  <2>1. periods' \in Seq(Keys)
    BY <1>1, CollectLast
  <2> QED
    BY <1>1, <1>2, <2>1 DEF TypeOK
<1>4. InOrder' /\ \A i \in DOMAIN periods' : periods'[i] \in Int /\ periods'[i] <= period
  BY <1>1, CollectInOrder
<1>5. Forward'
  BY <1>1, <1>2, <1>4 DEF Forward
<1>6. ~SparesMidnight
  <2>1. SparesMidnight => Successor = period + 1
    BY <1>1, CompletedIsDue
  <2>2. period \in Int
    BY <1>1, StateTyped
  <2> QED
    BY <1>1, <2>1, <2>2
<1> QED
  BY <1>2, <1>3, <1>4, <1>5, <1>6 DEF PeriodsInv

LEMMA PeriodsInvariant == Spec => []PeriodsInv
<1>1. PeriodsInv /\ UNCHANGED vars => PeriodsInv'
  <2> SUFFICES ASSUME PeriodsInv, UNCHANGED vars PROVE PeriodsInv'
    OBVIOUS
  <2>1. UNCHANGED <<goal, now, at, period, periods>>
    BY DEF vars
  <2>2. /\ \A p : Due(p)' = Due(p)
        /\ FirstPeriod' = FirstPeriod /\ SparesMidnight' = SparesMidnight /\ Keys' = Keys
    BY <2>1, DueStays
  <2>3. TypeOK'
    BY <2>1, <2>2 DEF PeriodsInv, TypeOK
  <2>4. Forward' /\ InOrder'
    BY <2>1, <2>2 DEF PeriodsInv, Forward, InOrder
  <2>5. Over' = Over
    BY <2>1 DEF Over, Bounds
  <2>6. SparesMidnight' => Exact'
    BY <2>1, <2>2, <2>5 DEF PeriodsInv, Exact, Collected
  <2> QED
    BY <2>3, <2>4, <2>6 DEF PeriodsInv
<1>2. PeriodsInv /\ [Next]_vars => PeriodsInv'
  BY <1>1, BreakExact, AdvanceExact, StallExact DEF Next
<1> QED
  BY <1>2, InitExact, PTL DEF Spec

-----------------------------------------------------------------------------
(* Theorems                                                                *)

\* Every value is of its type, and the loop stays within the instants and keys
\* that a goal and a tick can meet (period.go, scheduler.go:41).
THEOREM PeriodsTypeCorrect == Spec => []TypeOK
<1>1. PeriodsInv => TypeOK
  BY DEF PeriodsInv
<1> QED
  BY <1>1, PeriodsInvariant, PTL

\* A period is found once, and earlier ones first, whatever its zone does to
\* midnights.
THEOREM PeriodsInOrder == Spec => []InOrder
<1>1. PeriodsInv => InOrder
  BY DEF PeriodsInv
<1> QED
  BY <1>1, PeriodsInvariant, PTL

\* Where midnights are spared, the loop finds no period that is still running or
\* that the goal has nothing to do with: a check-in made now counts for none of them.
THEOREM FindsOnlyWhatIsOver == Spec => []OnlyOver
<1>1. PeriodsInv => OnlyOver
  BY DEF PeriodsInv, OnlyOver, Exact
<1> QED
  BY <1>1, PeriodsInvariant, PTL

\* Where midnights are spared, the loop finds every period of the goal that is over,
\* through days and weeks of any length.
THEOREM FindsEveryPeriod == Spec => []FindsAllRegularly
<1>1. PeriodsInv => FindsAllRegularly
  <2>1. SUFFICES ASSUME PeriodsInv, SparesMidnight, at = "returned",
                        NEW p \in Keys, Due(p)
                 PROVE  Collected(p)
    BY DEF FindsAllRegularly, FindsAll, Collected
  <2>2. TypeOK /\ Exact /\ Over
    BY <2>1 DEF PeriodsInv, Exact
  <2>3. /\ goal \in Goals /\ period \in Int /\ FirstPeriod \in Int /\ p \in Int
        /\ now \in Int /\ 0 <= now /\ now <= MaxTime /\ MaxTime \in Int
        /\ goal.startsAt \in Int /\ goal.endsAt \in Int /\ Window \subseteq Int
    BY <2>2, StateTyped
  <2>4. Spares(goal.zone)
    BY <2>1, <2>3, SparedMidnights
  <2>5. \A q, t \in Int : CurrentPeriod(goal, t) < q <=> t < PeriodBounds(goal, q).start
    BY <2>3, <2>4, StartDivides
  <2>6. \A t \in Span(p) : t \in Int /\ CurrentPeriod(goal, t) = p
    BY <2>3 DEF Span
  <2>7. FirstPeriod <= p
    <3>1. PICK t \in Span(p) : t >= goal.startsAt
      BY <2>1 DEF Due
    <3>2. ~(goal.startsAt < PeriodBounds(goal, FirstPeriod).start)
      BY <2>3, <2>5 DEF FirstPeriod
    <3>3. PeriodBounds(goal, FirstPeriod).start \in Int
      BY <2>3, <2>4, BoundsOf
    <3>4. ~(t < PeriodBounds(goal, FirstPeriod).start) /\ t \in Int
      BY <2>3, <2>6, <3>1, <3>2, <3>3
    <3>5. ~(CurrentPeriod(goal, t) < FirstPeriod)
      BY <2>3, <2>5, <3>4
    <3> QED
      BY <2>3, <2>6, <3>5
  <2>8. p < period
    <3>1. SUFFICES ASSUME period <= p PROVE FALSE
      BY <2>3
    <3>2. /\ Bounds.ok /\ Bounds.start \in Int /\ period + 1 \in Int
          /\ Bounds.end = PeriodBounds(goal, period + 1).start
          /\ Bounds.end \in Int
      BY <2>3, <2>4, BoundsOf DEF Bounds
    <3>3. CASE Bounds.end > now
      <4>1. CurrentPeriod(goal, now) < period + 1
        BY <2>3, <2>5, <3>2, <3>3
      <4>2. CurrentPeriod(goal, now) \in Int
        BY <2>3, PeriodOf
      <4>3. PICK t \in Span(p) : t < now
        BY <2>1 DEF Due
      <4>4. ~(t < PeriodBounds(goal, p).start) /\ t \in Int
        BY <2>3, <2>5, <2>6, <4>3
      <4>5. PeriodBounds(goal, p).start \in Int
        BY <2>3, <2>4, BoundsOf
      <4>6. ~(now < PeriodBounds(goal, p).start)
        BY <2>3, <4>3, <4>4, <4>5
      <4>7. ~(CurrentPeriod(goal, now) < p)
        BY <2>3, <2>5, <4>6
      <4>8. CurrentPeriod(goal, now) = p
        BY <2>3, <3>1, <4>1, <4>2, <4>7
      <4>9. now \in Window
        BY <2>3, <2>7, <4>8, InWindow
      <4>10. now \in Span(p)
        BY <4>8, <4>9 DEF Span
      <4> QED
        BY <2>1, <2>3, <4>10 DEF Due
    <3>4. CASE Bounds.start >= goal.endsAt
      <4>1. PICK t \in Span(p) : t < goal.endsAt
        BY <2>1 DEF Due
      <4>2. t < Bounds.start /\ t \in Int
        BY <2>3, <2>6, <3>2, <3>4, <4>1
      <4>3. CurrentPeriod(goal, t) < period
        BY <2>3, <2>5, <4>2 DEF Bounds
      <4> QED
        BY <2>3, <2>6, <3>1, <4>3
    <3> QED
      BY <2>2, <3>2, <3>3, <3>4 DEF Over
  <2>9. p \in FirstPeriod .. (period - 1)
    BY <2>3, <2>7, <2>8
  <2> QED
    BY <2>2, <2>9 DEF Exact
<1> QED
  BY <1>1, PeriodsInvariant, PTL

\* Where midnights are spared, bounds tile time: a period ends where the next one
\* begins and is not empty (period.go:40-42), as the calendar of Enforcement assumes.
THEOREM PeriodsTileTime == Spec => []BoundsTile
<1>1. PeriodsInv => BoundsTile
  <2>1. SUFFICES ASSUME TypeOK, SparesMidnight, NEW p \in Keys, p + 1 \in Keys
                 PROVE  /\ PeriodBounds(goal, p).end = PeriodBounds(goal, p + 1).start
                        /\ PeriodBounds(goal, p).start < PeriodBounds(goal, p).end
    BY DEF PeriodsInv, BoundsTile
  <2>2. goal \in Goals /\ p \in Int /\ p + 1 \in Int
    BY <2>1, StateTyped
  <2>3. Spares(goal.zone)
    BY <2>1, <2>2, SparedMidnights
  <2>4. PeriodBounds(goal, p).end = PeriodBounds(goal, p + 1).start
    BY <2>2, <2>3, BoundsOf
  <2>5. PeriodBounds(goal, p).start < PeriodBounds(goal, p + 1).start
    BY <2>2, <2>3, StartsOrdered
  <2> QED
    BY <2>4, <2>5
<1> QED
  BY <1>1, PeriodsInvariant, PTL
=============================================================================
