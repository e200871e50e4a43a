----------------------------- MODULE StoreProofs -----------------------------
(***************************************************************************)
(* The two stores hold the same rows under the same constraints and answer *)
(* alike, and rows stay, for every number of clients, calls, keys,         *)
(* payloads and faults.                                                    *)
(*                                                                         *)
(* Every call ends in one of three ways in both stores: it changes         *)
(* nothing, it appends a row, or it replaces one (AppendMessage does both  *)
(* of the latter). Both then answer with the row it is about, or with rows *)
(* in an order that the times of their creation allow.                     *)
(***************************************************************************)
EXTENDS Stores, SequenceTheorems, FunctionTheorems, FiniteSetTheorems, TLAPS

DbType(db) == db \in [Tables -> Seq(Row)]

SameDb(m, p) ==
  \A t \in Tables :
    /\ Len(m[t]) = Len(p[t])
    /\ \A i \in DOMAIN m[t] : SameRow(m[t][i], p[t][i])

Constrained(db) ==
  \A t \in Tables : \A i \in DOMAIN db[t] :
    /\ Clash(db, t, db[t][i]) \subseteq {i}
    /\ Referenced(db, t, db[t][i])

KeyedTables == Tables \ {"conversations", "messages", "violations"}
HasKeys(db) == \A t \in KeyedTables : \A i \in DOMAIN db[t] : db[t][i].key \in Keys

\* A conversation was last touched by a message there is.
Touched(db) == \A i \in DOMAIN db["conversations"] : db["conversations"][i].data <= Len(db["messages"])

DbInv(m, p) ==
  /\ DbType(m) /\ DbType(p) /\ SameDb(m, p)
  /\ Constrained(m) /\ HasKeys(m) /\ Touched(m)

(***************************************************************************)
(* Rows that agree, and the sets of them                                   *)
(***************************************************************************)

LEMMA RowParts ==
  ASSUME NEW r \in Row, NEW q \in Row
  PROVE  SameRow(r, q) <=> /\ r.owner = q.owner /\ r.key = q.key /\ r.data = q.data
                           /\ r.ref = q.ref /\ r.done = q.done
<1>1. [r EXCEPT !.at = 0] = [owner |-> r.owner, key |-> r.key, data |-> r.data, ref |-> r.ref,
                             done |-> r.done, at |-> 0]
  BY DEF Row
<1>2. [q EXCEPT !.at = 0] = [owner |-> q.owner, key |-> q.key, data |-> q.data, ref |-> q.ref,
                             done |-> q.done, at |-> 0]
  BY DEF Row
<1> QED
  BY <1>1, <1>2 DEF SameRow

LEMMA RowEqual ==
  ASSUME NEW r \in Row, NEW q \in Row, r.owner = q.owner, r.key = q.key, r.data = q.data,
         r.ref = q.ref, r.done = q.done, r.at = q.at
  PROVE  r = q
<1>1. r = [owner |-> r.owner, key |-> r.key, data |-> r.data, ref |-> r.ref, done |-> r.done, at |-> r.at]
  BY DEF Row
<1>2. q = [owner |-> q.owner, key |-> q.key, data |-> q.data, ref |-> q.ref, done |-> q.done, at |-> q.at]
  BY DEF Row
<1> QED
  BY <1>1, <1>2

LEMMA RowTypes ==
  ASSUME NEW db, DbType(db), NEW t \in Tables
  PROVE  /\ db[t] \in Seq(Row) /\ Len(db[t]) \in Nat /\ DOMAIN db[t] = 1 .. Len(db[t])
         /\ \A i \in DOMAIN db[t] : db[t][i] \in Row /\ i \in Nat \ {0}
<1>1. db[t] \in Seq(Row)
  BY DEF DbType
<1> QED
  BY <1>1

LEMMA SameParts ==
  ASSUME NEW m, NEW p, DbType(m), DbType(p), SameDb(m, p), NEW t \in Tables
  PROVE  /\ DOMAIN m[t] = DOMAIN p[t] /\ Len(m[t]) = Len(p[t])
         /\ \A i \in DOMAIN m[t] :
              /\ m[t][i].owner = p[t][i].owner /\ m[t][i].key = p[t][i].key
              /\ m[t][i].data = p[t][i].data /\ m[t][i].ref = p[t][i].ref
              /\ m[t][i].done = p[t][i].done
<1>1. Len(m[t]) = Len(p[t]) /\ DOMAIN m[t] = DOMAIN p[t]
  BY RowTypes DEF SameDb
<1>2. ASSUME NEW i \in DOMAIN m[t] PROVE m[t][i] \in Row /\ p[t][i] \in Row /\ SameRow(m[t][i], p[t][i])
  BY <1>1, RowTypes DEF SameDb
<1> QED
  BY <1>1, <1>2, RowParts

LEMMA SameSets ==
  ASSUME NEW m, NEW p, DbType(m), DbType(p), SameDb(m, p), NEW t \in Tables
  PROVE  /\ \A key : WithKey(m, t, key) = WithKey(p, t, key)
         /\ \A owner, key : Owned(m, t, owner, key) = Owned(p, t, owner, key)
         /\ \A id : Having(m, t, id) = Having(p, t, id)
BY SameParts DEF WithKey, Owned, Having

LEMMA OnlyIn ==
  ASSUME NEW S, S # {}
  PROVE  Only(S) \in S
BY DEF Only

LEMMA SameReferenced ==
  ASSUME NEW m, NEW p, DbType(m), DbType(p), SameDb(m, p), NEW t \in Tables, NEW r, NEW q,
         r.owner = q.owner, r.ref = q.ref
  PROVE  Referenced(m, t, r) <=> Referenced(p, t, q)
<1>1. \A u \in Tables : DOMAIN m[u] = DOMAIN p[u]
  BY SameParts
<1>2. Parent[t] \subseteq Tables /\ "apiKeys" \in Tables
  BY DEF Parent, Tables
<1> QED
  BY <1>1, <1>2 DEF Referenced

LEMMA SameClash ==
  ASSUME NEW m, NEW p, DbType(m), DbType(p), SameDb(m, p), NEW t \in Tables, NEW r, NEW q,
         r.owner = q.owner, r.key = q.key
  PROVE  Clash(m, t, r) = Clash(p, t, q)
BY SameSets DEF Clash

(***************************************************************************)
(* Appending and replacing a row                                           *)
(***************************************************************************)

Put(db, t, row) == [db EXCEPT ![t] = Append(@, row)]
Replace(db, t, i, row) == [db EXCEPT ![t][i] = row]

LEMMA PutParts ==
  ASSUME NEW db, DbType(db), NEW t \in Tables, NEW r \in Row
  PROVE  /\ DbType(Put(db, t, r))
         /\ \A u \in Tables : u # t => Put(db, t, r)[u] = db[u]
         /\ Len(Put(db, t, r)[t]) = Len(db[t]) + 1
         /\ DOMAIN Put(db, t, r)[t] = 1 .. Len(db[t]) + 1
         /\ \A i \in DOMAIN db[t] : Put(db, t, r)[t][i] = db[t][i]
         /\ Put(db, t, r)[t][Len(db[t]) + 1] = r
<1>1. Put(db, t, r)[t] = Append(db[t], r) /\ \A u \in Tables : u # t => Put(db, t, r)[u] = db[u]
  BY DEF Put, DbType
<1>2. db[t] \in Seq(Row) /\ DOMAIN db[t] = 1 .. Len(db[t])
  BY RowTypes
<1>3. Append(db[t], r) \in Seq(Row)
  BY <1>2
<1>4. DbType(Put(db, t, r))
  BY <1>3 DEF Put, DbType
<1> QED
  BY <1>1, <1>2, <1>4

LEMMA ReplaceParts ==
  ASSUME NEW db, DbType(db), NEW t \in Tables, NEW i \in DOMAIN db[t], NEW r \in Row
  PROVE  /\ DbType(Replace(db, t, i, r))
         /\ \A u \in Tables : u # t => Replace(db, t, i, r)[u] = db[u]
         /\ Len(Replace(db, t, i, r)[t]) = Len(db[t])
         /\ DOMAIN Replace(db, t, i, r)[t] = DOMAIN db[t]
         /\ \A j \in DOMAIN db[t] : j # i => Replace(db, t, i, r)[t][j] = db[t][j]
         /\ Replace(db, t, i, r)[t][i] = r
<1>1. Replace(db, t, i, r)[t] = [db[t] EXCEPT ![i] = r]
      /\ \A u \in Tables : u # t => Replace(db, t, i, r)[u] = db[u]
  BY DEF Replace, DbType
<1>2. db[t] \in Seq(Row) /\ DOMAIN db[t] = 1 .. Len(db[t])
  BY RowTypes
<1>3. [db[t] EXCEPT ![i] = r] \in Seq(Row) /\ Len([db[t] EXCEPT ![i] = r]) = Len(db[t])
  BY <1>2
<1>4. DbType(Replace(db, t, i, r))
  BY <1>3 DEF Replace, DbType
<1> QED
  BY <1>1, <1>2, <1>3, <1>4

(***************************************************************************)
(* The constraints, row by row                                             *)
(***************************************************************************)

\* The two rows cannot stand in t side by side.
Collide(t, r, q) ==
  \/ t \in {"users", "apiKeys", "codes", "chats", "agentLinks"} /\ q.key = r.key
  \/ t \in {"checkIns", "approvals"} /\ q.key = r.key /\ q.owner = r.owner
  \/ t = "violations" /\ r.key # NoKey /\ q.key = r.key /\ q.owner = r.owner

LEMMA ClashIsCollision ==
  ASSUME NEW db, NEW t \in Tables, NEW r
  PROVE  Clash(db, t, r) = {i \in DOMAIN db[t] : Collide(t, r, db[t][i])}
<1>1. CASE t \in {"users", "apiKeys", "codes", "chats", "agentLinks"}
  BY <1>1 DEF Clash, Collide, WithKey
<1>2. CASE t \in {"checkIns", "approvals"}
  BY <1>2 DEF Clash, Collide, WithKey, Owned
<1>3. CASE t = "violations"
  BY <1>3 DEF Clash, Collide, WithKey, Owned
<1>4. CASE t \in {"goals", "conversations", "messages"}
  BY <1>4 DEF Clash, Collide
<1> QED
  BY <1>1, <1>2, <1>3, <1>4 DEF Tables

LEMMA ConstrainedRows ==
  ASSUME NEW db
  PROVE  Constrained(db) <=>
           \A t \in Tables : \A i \in DOMAIN db[t] :
             /\ \A j \in DOMAIN db[t] : Collide(t, db[t][i], db[t][j]) => i = j
             /\ Referenced(db, t, db[t][i])
BY ClashIsCollision DEF Constrained

\* Tables that have at least the rows of db have the parents db has.
LEMMA MoreReferenced ==
  ASSUME NEW db, NEW after, NEW t \in Tables, NEW r, NEW q, r.owner = q.owner, r.ref = q.ref,
         \A u \in Tables : DOMAIN db[u] \subseteq DOMAIN after[u], Referenced(db, t, r)
  PROVE  Referenced(after, t, q)
<1>1. Parent[t] \subseteq Tables /\ "apiKeys" \in Tables
  BY DEF Parent, Tables
<1> QED
  BY <1>1 DEF Referenced

\* A row that may be appended to t.
Fits(db, t, row) ==
  /\ Clash(db, t, row) = {} /\ Referenced(db, t, row)
  /\ t \in KeyedTables => row.key \in Keys
  /\ t = "conversations" => row.data = 0

LEMMA PutKeeps ==
  ASSUME NEW m, NEW p, DbInv(m, p), NEW t \in Tables, NEW r \in Row, NEW q \in Row,
         SameRow(r, q), Fits(m, t, r)
  PROVE  DbInv(Put(m, t, r), Put(p, t, q))
<1> DEFINE after == Put(m, t, r)
           new == Len(m[t]) + 1
<1>1. DbType(m) /\ DbType(p) /\ SameDb(m, p) /\ Constrained(m) /\ HasKeys(m) /\ Touched(m)
  BY DEF DbInv
<1>2. DbType(after) /\ DbType(Put(p, t, q))
  BY <1>1, PutParts
<1>3. /\ Len(m[t]) \in Nat /\ DOMAIN m[t] = 1 .. Len(m[t]) /\ DOMAIN p[t] = 1 .. Len(m[t])
      /\ Len(p[t]) = Len(m[t])
  BY <1>1, RowTypes, SameParts
<1>4. /\ \A u \in Tables : u # t => after[u] = m[u]
      /\ DOMAIN after[t] = DOMAIN m[t] \cup {new} /\ Len(after[t]) = new
      /\ \A i \in DOMAIN m[t] : after[t][i] = m[t][i]
      /\ after[t][new] = r /\ new \notin DOMAIN m[t]
  <2>1. DOMAIN after[t] = 1 .. new
    BY <1>1, PutParts
  <2> QED
    BY <1>1, <1>3, <2>1, PutParts
<1>5. SameDb(after, Put(p, t, q))
  <2>1. /\ \A u \in Tables : u # t => Put(p, t, q)[u] = p[u]
        /\ Len(Put(p, t, q)[t]) = new /\ Put(p, t, q)[t][new] = q
        /\ \A i \in DOMAIN m[t] : Put(p, t, q)[t][i] = p[t][i]
    BY <1>1, <1>3, PutParts
  <2> HIDE DEF after, new
  <2> QED
    BY <1>1, <1>4, <2>1 DEF SameDb
<1> HIDE DEF after, new
<1>6. HasKeys(after)
  BY <1>1, <1>4 DEF HasKeys, KeyedTables, Fits
<1>7. Touched(after)
  <2>1. Len(m["messages"]) \in Nat /\ "messages" \in Tables /\ "conversations" \in Tables
    BY <1>1, RowTypes DEF Tables
  <2>2. \A i \in DOMAIN m["conversations"] : m["conversations"][i] \in Row
    BY <1>1, <2>1, RowTypes
  <2>3. Len(m["messages"]) <= Len(after["messages"]) /\ Len(after["messages"]) \in Nat
    BY <1>3, <1>4, <2>1 DEF new
  <2>4. CASE t = "conversations"
    <3>1. r.data = 0
      BY <2>4 DEF Fits
    <3>2. ASSUME NEW i \in DOMAIN m["conversations"]
          PROVE  after["conversations"][i].data <= Len(after["messages"])
      <4>1. after["conversations"][i] = m["conversations"][i] /\ after["messages"] = m["messages"]
        BY <1>4, <2>1, <2>4
      <4> QED
        BY <1>1, <4>1 DEF Touched
    <3>3. r.data <= Len(after["messages"])
      BY <2>3, <3>1
    <3>4. after["conversations"][new].data <= Len(after["messages"])
      BY <1>4, <2>4, <3>3
    <3>5. DOMAIN after["conversations"] = DOMAIN m["conversations"] \cup {new}
      BY <1>4, <2>4
    <3>6. ASSUME NEW i \in DOMAIN after["conversations"]
          PROVE  after["conversations"][i].data <= Len(after["messages"])
      <4>1. i \in DOMAIN m["conversations"] \/ i = new
        BY <3>5
      <4> QED
        BY <3>2, <3>4, <4>1
    <3> QED
      BY <3>6 DEF Touched
  <2>5. CASE t # "conversations"
    <3>1. after["conversations"] = m["conversations"]
      BY <1>4, <2>1, <2>5
    <3>2. ASSUME NEW i \in DOMAIN m["conversations"]
          PROVE  m["conversations"][i].data <= Len(after["messages"])
      <4>1. m["conversations"][i].data \in Nat
        BY <2>2 DEF Row
      <4>2. m["conversations"][i].data <= Len(m["messages"])
        BY <1>1 DEF Touched
      <4> QED
        BY <2>1, <2>3, <4>1, <4>2
    <3> QED
      BY <3>1, <3>2 DEF Touched
  <2> QED
    BY <2>4, <2>5
<1>8. Constrained(after)
  <2>1. \A u \in Tables : DOMAIN m[u] \subseteq DOMAIN after[u]
    BY <1>4
  <2>2. ASSUME NEW u \in Tables, NEW i \in DOMAIN after[u] PROVE Referenced(after, u, after[u][i])
    <3>1. CASE u = t /\ i = new
      BY <1>4, <2>1, <3>1, MoreReferenced DEF Fits
    <3>2. CASE ~(u = t /\ i = new)
      <4>1. i \in DOMAIN m[u] /\ after[u][i] = m[u][i]
        BY <1>4, <2>2, <3>2
      <4>2. Referenced(m, u, m[u][i])
        BY <1>1, <4>1 DEF Constrained
      <4> QED
        BY <2>1, <4>1, <4>2, MoreReferenced
    <3> QED
      BY <3>1, <3>2
  <2>3. \A i \in DOMAIN m[t] : ~Collide(t, r, m[t][i])
    BY ClashIsCollision DEF Fits
  <2>4. \A i \in DOMAIN m[t] : ~Collide(t, m[t][i], r)
    BY <2>3 DEF Collide
  <2>5. ASSUME NEW u \in Tables, NEW i \in DOMAIN after[u], NEW j \in DOMAIN after[u],
               Collide(u, after[u][i], after[u][j])
        PROVE  i = j
    <3>1. CASE i \in DOMAIN m[u] /\ j \in DOMAIN m[u]
      <4>1. after[u][i] = m[u][i] /\ after[u][j] = m[u][j]
        BY <1>4, <3>1
      <4> QED
        BY <1>1, <2>5, <3>1, <4>1, ConstrainedRows
    <3>2. CASE ~(i \in DOMAIN m[u] /\ j \in DOMAIN m[u])
      <4>1. u = t /\ (i = new \/ j = new)
        BY <1>4, <2>5, <3>2
      <4> QED
        BY <1>4, <2>3, <2>4, <2>5, <4>1
    <3> QED
      BY <3>1, <3>2
  <2> QED
    BY <2>2, <2>5, ConstrainedRows
<1>9. DbInv(after, Put(p, t, q))
  BY <1>2, <1>5, <1>6, <1>7, <1>8 DEF DbInv
<1> QED
  BY <1>9 DEF after

\* A row that may replace row old of t: it keeps what it is found by and whom it
\* belongs to, except where nothing is unique, or the new owner exists.
Replaces(db, t, old, row) ==
  /\ t # "goals" => row.key = old.key
  /\ t = "goals" => row.key \in Keys
  /\ row.ref = old.ref
  /\ row.owner = old.owner \/ (t = "chats" /\ row.owner \in DOMAIN db["users"])
  /\ t = "conversations" => row.data <= Len(db["messages"])

LEMMA ReplaceKeeps ==
  ASSUME NEW m, NEW p, DbInv(m, p), NEW t \in Tables, NEW i \in DOMAIN m[t], NEW r \in Row, NEW q \in Row,
         SameRow(r, q), Replaces(m, t, m[t][i], r)
  PROVE  DbInv(Replace(m, t, i, r), Replace(p, t, i, q))
<1> DEFINE after == Replace(m, t, i, r)
<1>1. DbType(m) /\ DbType(p) /\ SameDb(m, p) /\ Constrained(m) /\ HasKeys(m) /\ Touched(m)
  BY DEF DbInv
<1>2. DOMAIN p[t] = DOMAIN m[t] /\ Len(p[t]) = Len(m[t])
  BY <1>1, SameParts
<1>3. DbType(after) /\ DbType(Replace(p, t, i, q))
  BY <1>1, <1>2, ReplaceParts
<1>4. /\ \A u \in Tables : u # t => after[u] = m[u]
      /\ DOMAIN after[t] = DOMAIN m[t] /\ Len(after[t]) = Len(m[t])
      /\ \A j \in DOMAIN m[t] : j # i => after[t][j] = m[t][j]
      /\ after[t][i] = r
  BY <1>1, ReplaceParts
<1>5. SameDb(after, Replace(p, t, i, q))
  BY <1>1, <1>2, <1>4, ReplaceParts DEF SameDb
<1> HIDE DEF after
<1>6. HasKeys(after)
  BY <1>1, <1>4 DEF HasKeys, KeyedTables, Replaces
<1>7. Touched(after)
  <2>1. Len(after["messages"]) = Len(m["messages"])
    BY <1>4 DEF Tables
  <2>2. CASE t = "conversations"
    BY <1>1, <1>4, <2>1, <2>2 DEF Touched, Replaces
  <2>3. CASE t # "conversations"
    BY <1>1, <1>4, <2>1, <2>3 DEF Touched, Tables
  <2> QED
    BY <2>2, <2>3
<1>8. Constrained(after)
  <2>1. \A u \in Tables : DOMAIN m[u] = DOMAIN after[u]
    BY <1>4
  <2>2. ASSUME NEW u \in Tables, NEW j \in DOMAIN m[u] PROVE Referenced(after, u, after[u][j])
    <3>1. Referenced(m, u, m[u][j])
      BY <1>1, <2>2 DEF Constrained
    <3>2. CASE after[u][j].owner = m[u][j].owner /\ after[u][j].ref = m[u][j].ref
      BY <2>1, <3>1, <3>2, MoreReferenced
    <3>3. CASE ~(after[u][j].owner = m[u][j].owner /\ after[u][j].ref = m[u][j].ref)
      <4>1. u = "chats" /\ after[u][j].owner \in DOMAIN m["users"]
        BY <1>4, <3>3 DEF Replaces
      <4>2. after[u][j].owner \in DOMAIN after["users"]
        BY <2>1, <4>1 DEF Tables
      <4> QED
        BY <4>1, <4>2 DEF Referenced, Parent
    <3> QED
      BY <3>2, <3>3
  <2>3. ASSUME NEW u \in Tables, NEW j \in DOMAIN m[u], NEW k \in DOMAIN m[u],
               Collide(u, after[u][j], after[u][k])
        PROVE  j = k
    <3>1. \A n \in DOMAIN m[u] : /\ u # "goals" => after[u][n].key = m[u][n].key
                                 /\ u \notin {"goals", "chats"} => after[u][n].owner = m[u][n].owner
      BY <1>4 DEF Replaces
    <3>2. Collide(u, m[u][j], m[u][k])
      BY <2>3, <3>1 DEF Collide
    <3> QED
      BY <1>1, <3>2, ConstrainedRows
  <2> QED
    BY <2>1, <2>2, <2>3, ConstrainedRows
<1>9. DbInv(after, Replace(p, t, i, q))
  BY <1>3, <1>5, <1>6, <1>7, <1>8 DEF DbInv
<1> QED
  BY <1>9 DEF after

(***************************************************************************)
(* Rows that stay                                                          *)
(***************************************************************************)

Stays(db, after) ==
  \A t \in Tables : \A i \in DOMAIN db[t] :
    i \in DOMAIN after[t] /\ StaysRow(t, db[t][i], after[t][i])

LEMMA RowStaysSame ==
  ASSUME NEW t, NEW r \in Row
  PROVE  StaysRow(t, r, r)
BY DEF StaysRow, Row

LEMMA SameStays ==
  ASSUME NEW db, DbType(db)
  PROVE  Stays(db, db)
BY RowTypes, RowStaysSame DEF Stays

LEMMA PutStays ==
  ASSUME NEW db, DbType(db), NEW t \in Tables, NEW r \in Row
  PROVE  Stays(db, Put(db, t, r))
<1>1. \A u \in Tables : \A i \in DOMAIN db[u] : i \in DOMAIN Put(db, t, r)[u] /\ Put(db, t, r)[u][i] = db[u][i]
  <2>1. DOMAIN db[t] = 1 .. Len(db[t]) /\ Len(db[t]) \in Nat
    BY RowTypes
  <2>2. \A i \in DOMAIN db[t] : i \in DOMAIN Put(db, t, r)[t]
    BY <2>1, PutParts
  <2> QED
    BY <2>2, PutParts
<1>2. \A u \in Tables : \A i \in DOMAIN db[u] : StaysRow(u, db[u][i], db[u][i])
  BY RowTypes, RowStaysSame
<1> QED
  BY <1>1, <1>2 DEF Stays

LEMMA ReplaceStays ==
  ASSUME NEW db, DbType(db), NEW t \in Tables, NEW i \in DOMAIN db[t], NEW r \in Row,
         StaysRow(t, db[t][i], r)
  PROVE  Stays(db, Replace(db, t, i, r))
<1>1. \A u \in Tables : \A j \in DOMAIN db[u] :
        /\ j \in DOMAIN Replace(db, t, i, r)[u]
        /\ ~(u = t /\ j = i) => Replace(db, t, i, r)[u][j] = db[u][j]
  BY ReplaceParts
<1>2. Replace(db, t, i, r)[t][i] = r
  BY ReplaceParts
<1>3. \A u \in Tables : \A j \in DOMAIN db[u] : StaysRow(u, db[u][j], db[u][j])
  BY RowTypes, RowStaysSame
<1> QED
  BY <1>1, <1>2, <1>3 DEF Stays

LEMMA StaysTransitive ==
  ASSUME NEW db, NEW next, NEW after, DbType(db), DbType(next), DbType(after),
         Stays(db, next), Stays(next, after)
  PROVE  Stays(db, after)
<1>1. ASSUME NEW t \in Tables, NEW i \in DOMAIN db[t]
      PROVE  i \in DOMAIN after[t] /\ StaysRow(t, db[t][i], after[t][i])
  <2>1. i \in DOMAIN next[t] /\ i \in DOMAIN after[t]
    BY DEF Stays
  <2>2. StaysRow(t, db[t][i], next[t][i]) /\ StaysRow(t, next[t][i], after[t][i])
    BY <2>1 DEF Stays
  <2>3. db[t][i].data \in Nat /\ next[t][i].data \in Nat /\ after[t][i].data \in Nat
    BY <2>1, RowTypes DEF Row
  <2> QED
    BY <2>1, <2>2, <2>3 DEF StaysRow
<1> QED
  BY <1>1 DEF Stays

(***************************************************************************)
(* What a call may do to the two stores                                    *)
(***************************************************************************)

Kept(p, after, pafter) == DbInv(after, pafter) /\ Stays(p, pafter)

LEMMA Unchanged ==
  ASSUME NEW m, NEW p, DbInv(m, p)
  PROVE  Kept(p, m, p)
BY SameStays DEF Kept, DbInv

(***************************************************************************)
(* What two calls have in common                                           *)
(***************************************************************************)

\* Creation times: the memory store stamps a row under its mutex, Postgres takes
\* the time the call read earlier. A message is no older than its conversation.
Dated(m, p, now) ==
  /\ now \in Nat
  /\ \A t \in Tables : \A i \in DOMAIN m[t] : p[t][i].at <= m[t][i].at /\ m[t][i].at <= now
  /\ \A t \in Tables : \A i, j \in DOMAIN m[t] : i < j => m[t][i].at <= m[t][j].at
  /\ \A i \in DOMAIN m["messages"] :
       p["conversations"][m["messages"][i].owner].at <= m["messages"][i].at

\* Rows keep the time they were created at; those that are new were now.
Stamped(db, after, now) ==
  \A t \in Tables : \A i \in DOMAIN after[t] :
    after[t][i].at = IF i \in DOMAIN db[t] THEN db[t][i].at ELSE now

AlikeRows(r, s) == Len(r) = Len(s) /\ SameRows(r, s)

\* Both answer with no row, or with the row at the same position.
Shown(x, y) ==
  \/ x.rows = <<>> /\ y.rows = <<>>
  \/ \E t \in Tables : \E i \in DOMAIN x.db[t] :
       /\ x.rows = <<[of |-> t, id |-> i, row |-> x.db[t][i]]>>
       /\ y.rows = <<[of |-> t, id |-> i, row |-> y.db[t][i]]>>

\* The outcomes x of the memory store's call j on m and y of Postgres's call k on p.
Agree(m, p, j, k, x, y) ==
  /\ Kept(p, x.db, y.db)
  /\ Stamped(m, x.db, j.at) /\ Stamped(p, y.db, k.at)
  /\ SameRefusal(k, x, y)
  /\ Shown(x, y) \/ AlikeRows(x.rows, y.rows)

LEMMA Refusal ==
  ASSUME NEW db, NEW why
  PROVE  /\ Refuse(db, why).db = db /\ Refuse(db, why).why = why /\ Refuse(db, why).rows = <<>>
BY DEF Refuse

LEMMA OneRow ==
  ASSUME NEW db, NEW t, NEW i
  PROVE  /\ Answer(db, t, <<i>>).db = db /\ Answer(db, t, <<i>>).why = "none"
         /\ Answer(db, t, <<i>>).rows = <<[of |-> t, id |-> i, row |-> db[t][i]]>>
<1>1. DOMAIN <<i>> = {1} /\ <<i>>[1] = i
  OBVIOUS
<1>r. PICK r : r = [of |-> t, id |-> i, row |-> db[t][i]]
  OBVIOUS
<1>2. Answer(db, t, <<i>>).rows = [n \in {1} |-> r]
  BY <1>1, <1>r DEF Answer
<1>3. [n \in {1} |-> r] = <<r>>
  OBVIOUS
<1> QED
  BY <1>r, <1>2, <1>3 DEF Answer

LEMMA NoRow ==
  ASSUME NEW db
  PROVE  Done(db).db = db /\ Done(db).why = "none" /\ Done(db).rows = <<>>
<1>1. DOMAIN <<>> = {}
  OBVIOUS
<1>2. Done(db).rows = [n \in {} |-> [of |-> "users", id |-> <<>>[n], row |-> db["users"][<<>>[n]]]]
  BY <1>1 DEF Done, Answer
<1>3. Done(db).rows = <<>>
  BY <1>2
<1> QED
  BY <1>3 DEF Done, Answer

\* Neither call changes anything.
LEMMA ReadBoth ==
  ASSUME NEW m, NEW p, DbInv(m, p), NEW j, NEW k, NEW x, NEW y, x.db = m, y.db = p,
         SameRefusal(k, x, y), Shown(x, y) \/ AlikeRows(x.rows, y.rows)
  PROVE  Agree(m, p, j, k, x, y)
<1>1. Kept(p, x.db, y.db)
  BY Unchanged
<1>2. Stamped(m, x.db, j.at) /\ Stamped(p, y.db, k.at)
  BY DEF Stamped
<1> QED
  BY <1>1, <1>2 DEF Agree

\* Neither does, for both refuse.
LEMMA RefuseBoth ==
  ASSUME NEW m, NEW p, DbInv(m, p), NEW j, NEW k, NEW why, NEW other,
         why = other \/ (why = "not found" /\ other = "error" /\ Orphan(k))
  PROVE  Agree(m, p, j, k, Refuse(m, why), Refuse(p, other))
<1>x. PICK x : x = Refuse(m, why)
  OBVIOUS
<1>y. PICK y : y = Refuse(p, other)
  OBVIOUS
<1>1. /\ x.db = m /\ x.why = why /\ x.rows = <<>>
      /\ y.db = p /\ y.why = other /\ y.rows = <<>>
  BY <1>x, <1>y, Refusal
<1>2. SameRefusal(k, x, y) /\ Shown(x, y)
  BY <1>1 DEF SameRefusal, Shown
<1> QED
  BY <1>x, <1>y, <1>1, <1>2, ReadBoth

LEMMA PutStamped ==
  ASSUME NEW db, DbType(db), NEW t \in Tables, NEW r \in Row
  PROVE  Stamped(db, Put(db, t, r), r.at)
<1>1. ASSUME NEW u \in Tables, NEW i \in DOMAIN Put(db, t, r)[u]
      PROVE  Put(db, t, r)[u][i].at = IF i \in DOMAIN db[u] THEN db[u][i].at ELSE r.at
  <2>1. CASE u # t
    <3>1. Put(db, t, r)[u] = db[u]
      BY <2>1, PutParts
    <3> QED
      BY <3>1
  <2>2. CASE u = t
    <3>1. DOMAIN db[t] = 1 .. Len(db[t]) /\ Len(db[t]) \in Nat
      BY RowTypes
    <3>2. i \in 1 .. Len(db[t]) + 1
      BY <2>2, PutParts
    <3>3. i \in DOMAIN db[t] \/ (i = Len(db[t]) + 1 /\ i \notin DOMAIN db[t])
      BY <3>1, <3>2
    <3> QED
      BY <2>2, <3>3, PutParts
  <2> QED
    BY <2>1, <2>2
<1> QED
  BY <1>1 DEF Stamped

LEMMA ReplaceStamped ==
  ASSUME NEW db, DbType(db), NEW t \in Tables, NEW i \in DOMAIN db[t], NEW r \in Row,
         r.at = db[t][i].at, NEW now
  PROVE  Stamped(db, Replace(db, t, i, r), now)
<1>1. ASSUME NEW u \in Tables
      PROVE  /\ DOMAIN Replace(db, t, i, r)[u] = DOMAIN db[u]
             /\ \A n \in DOMAIN db[u] : Replace(db, t, i, r)[u][n].at = db[u][n].at
  <2>1. CASE u # t
    <3>1. Replace(db, t, i, r)[u] = db[u]
      BY <2>1, ReplaceParts
    <3> QED
      BY <3>1
  <2>2. CASE u = t
    BY <2>2, ReplaceParts
  <2> QED
    BY <2>1, <2>2
<1> QED
  BY <1>1 DEF Stamped

\* Both insert the row or both refuse to.
LEMMA AddBoth ==
  ASSUME NEW m, NEW p, DbInv(m, p), NEW j, NEW k, NEW t \in Tables,
         NEW r \in Row, NEW q \in Row, SameRow(r, q), r.at = j.at, q.at = k.at,
         NEW parents, NEW taken,
         (\A x \in parents : x[2] \in DOMAIN m[x[1]]) <=> Referenced(m, t, r),
         Referenced(m, t, r) \/ Orphan(k),
         Referenced(m, t, r) => (taken = {} <=> Clash(m, t, r) = {}),
         t \in KeyedTables => r.key \in Keys, t = "conversations" => r.data = 0
  PROVE  Agree(m, p, j, k, MemAdd(m, t, parents, taken, r), Insert(p, t, q))
<1>1. DbType(m) /\ DbType(p) /\ SameDb(m, p)
  BY DEF DbInv
<1>2. r.owner = q.owner /\ r.key = q.key /\ r.ref = q.ref
  BY RowParts
<1>3. (Referenced(m, t, r) <=> Referenced(p, t, q)) /\ Clash(m, t, r) = Clash(p, t, q)
  BY <1>1, <1>2, SameReferenced, SameClash
<1>4. CASE Referenced(m, t, r) /\ taken = {}
  <2>x. PICK x : x = MemAdd(m, t, parents, taken, r)
    OBVIOUS
  <2>y. PICK y : y = Insert(p, t, q)
    OBVIOUS
  <2>n. PICK n : n = Len(m[t]) + 1
    OBVIOUS
  <2>0. Len(Put(m, t, r)[t]) = n /\ Len(Put(p, t, q)[t]) = n /\ n \in DOMAIN Put(m, t, r)[t]
    <3>1. Len(m[t]) = Len(p[t]) /\ Len(m[t]) \in Nat
      BY <1>1, SameParts, RowTypes
    <3>2. n \in 1 .. Len(m[t]) + 1
      BY <2>n, <3>1
    <3> QED
      BY <1>1, <2>n, <3>1, <3>2, PutParts
  <2>1. x = Answer(Put(m, t, r), t, <<n>>)
    BY <1>4, <2>x, <2>0 DEF MemAdd, Put
  <2>2. y = Answer(Put(p, t, q), t, <<n>>)
    BY <1>3, <1>4, <2>y, <2>0 DEF Insert, Put
  <2>3. Fits(m, t, r)
    BY <1>4 DEF Fits
  <2>4. /\ x.db = Put(m, t, r) /\ x.why = "none"
        /\ x.rows = <<[of |-> t, id |-> n, row |-> Put(m, t, r)[t][n]]>>
    BY <2>1, OneRow
  <2>5. /\ y.db = Put(p, t, q) /\ y.why = "none"
        /\ y.rows = <<[of |-> t, id |-> n, row |-> Put(p, t, q)[t][n]]>>
    BY <2>2, OneRow
  <2>6. Kept(p, x.db, y.db)
    BY <1>1, <2>3, <2>4, <2>5, PutKeeps, PutStays DEF Kept
  <2>7. Stamped(m, x.db, j.at) /\ Stamped(p, y.db, k.at)
    BY <1>1, <2>4, <2>5, PutStamped
  <2>8. SameRefusal(k, x, y) /\ Shown(x, y)
    BY <2>0, <2>4, <2>5 DEF SameRefusal, Shown
  <2> QED
    BY <2>x, <2>y, <2>6, <2>7, <2>8 DEF Agree
<1>5. CASE ~Referenced(m, t, r)
  <2>1. MemAdd(m, t, parents, taken, r) = Refuse(m, "not found")
    BY <1>5 DEF MemAdd
  <2>2. Insert(p, t, q) = Refuse(p, "error")
    BY <1>3, <1>5 DEF Insert
  <2> QED
    BY <1>5, <2>1, <2>2, RefuseBoth
<1>6. CASE Referenced(m, t, r) /\ taken # {}
  <2>1. MemAdd(m, t, parents, taken, r) = Refuse(m, "error")
    BY <1>6 DEF MemAdd
  <2>2. Insert(p, t, q) = Refuse(p, "error")
    BY <1>3, <1>6 DEF Insert
  <2> QED
    BY <2>1, <2>2, RefuseBoth
<1> QED
  BY <1>4, <1>5, <1>6

\* Both replace the row, or none where there is none.
LEMMA SetBoth ==
  ASSUME NEW m, NEW p, DbInv(m, p), NEW j, NEW k, NEW t \in Tables, NEW ids, ids \subseteq DOMAIN m[t],
         NEW r, NEW new, DOMAIN new = ids,
         ids # {} => /\ r \in Row /\ new[Only(ids)] \in Row /\ SameRow(r, new[Only(ids)])
                     /\ Replaces(m, t, m[t][Only(ids)], r) /\ r.at = m[t][Only(ids)].at
                     /\ StaysRow(t, p[t][Only(ids)], new[Only(ids)])
  PROVE  Agree(m, p, j, k, MemSet(m, t, ids, r), Update(p, t, new))
<1>1. DbType(m) /\ DbType(p) /\ SameDb(m, p)
  BY DEF DbInv
<1>2. CASE ids = {}
  <2>1. MemSet(m, t, ids, r) = Refuse(m, "not found")
    BY <1>2 DEF MemSet
  <2>2. Update(p, t, new) = Refuse(p, "not found")
    BY <1>2 DEF Update
  <2> QED
    BY <2>1, <2>2, RefuseBoth
<1>3. CASE ids # {}
  <2> PICK i : i = Only(ids)
    OBVIOUS
  <2>x. PICK x : x = MemSet(m, t, ids, r)
    OBVIOUS
  <2>y. PICK y : y = Update(p, t, new)
    OBVIOUS
  <2>1. i \in ids /\ i \in DOMAIN m[t] /\ i \in DOMAIN p[t]
    BY <1>1, <1>3, OnlyIn, SameParts
  <2>2. PICK q \in Row : q = new[i]
    BY <1>3
  <2>3. /\ r \in Row /\ SameRow(r, q) /\ Replaces(m, t, m[t][i], r) /\ StaysRow(t, p[t][i], q)
        /\ r.at = m[t][i].at /\ q.at = p[t][i].at
    BY <1>3, <2>2 DEF StaysRow
  <2>4. x = Answer(Replace(m, t, i, r), t, <<i>>)
    BY <1>3, <2>x DEF MemSet, Replace
  <2>5. DbInv(Replace(m, t, i, r), Replace(p, t, i, q))
    BY <2>1, <2>3, ReplaceKeeps
  <2>6. Referenced(p, t, q)
    <3>1. Constrained(Replace(m, t, i, r)) /\ DbType(Replace(m, t, i, r))
      BY <2>5 DEF DbInv
    <3>2. /\ i \in DOMAIN Replace(m, t, i, r)[t] /\ Replace(m, t, i, r)[t][i] = r
          /\ \A u \in Tables : DOMAIN Replace(m, t, i, r)[u] = DOMAIN m[u]
      BY <1>1, <2>1, <2>3, ReplaceParts
    <3>3. Referenced(Replace(m, t, i, r), t, r)
      BY <3>1, <3>2 DEF Constrained
    <3>4. r.owner = q.owner /\ r.ref = q.ref
      BY <2>3, RowParts
    <3>5. \A u \in Tables : DOMAIN p[u] = DOMAIN m[u]
      BY <1>1, SameParts
    <3> QED
      BY <3>2, <3>3, <3>4, <3>5, MoreReferenced
  <2>7. y = Answer(Replace(p, t, i, q), t, <<i>>)
    BY <1>3, <2>2, <2>6, <2>y DEF Update, Replace
  <2>8. Stays(p, Replace(p, t, i, q))
    BY <1>1, <2>1, <2>3, ReplaceStays
  <2>9. /\ x.db = Replace(m, t, i, r) /\ x.why = "none"
        /\ x.rows = <<[of |-> t, id |-> i, row |-> Replace(m, t, i, r)[t][i]]>>
    BY <2>4, OneRow
  <2>10. /\ y.db = Replace(p, t, i, q) /\ y.why = "none"
         /\ y.rows = <<[of |-> t, id |-> i, row |-> Replace(p, t, i, q)[t][i]]>>
    BY <2>7, OneRow
  <2>11. Stamped(m, x.db, j.at) /\ Stamped(p, y.db, k.at)
    BY <1>1, <2>1, <2>3, <2>9, <2>10, ReplaceStamped
  <2>12. i \in DOMAIN Replace(m, t, i, r)[t]
    BY <1>1, <2>1, <2>3, ReplaceParts
  <2>13. SameRefusal(k, x, y) /\ Shown(x, y)
    BY <2>9, <2>10, <2>12 DEF SameRefusal, Shown
  <2> QED
    BY <2>x, <2>y, <2>5, <2>8, <2>9, <2>10, <2>11, <2>13 DEF Kept, Agree
<1> QED
  BY <1>2, <1>3

\* An answer that leaves its rows out is alike where it was with them.
LEMMA WithoutRows ==
  ASSUME NEW m, NEW p, NEW j, NEW k, NEW x, NEW y, Agree(m, p, j, k, x, y), NEW v, NEW w,
         v.db = x.db, v.why = x.why, v.rows = <<>>, w.db = y.db, w.why = y.why, w.rows = <<>>
  PROVE  Agree(m, p, j, k, v, w)
BY DEF Agree, SameRefusal, Shown

(***************************************************************************)
(* The methods                                                             *)
(***************************************************************************)

Arguments(c) == c.id \in Nat /\ c.key \in Nat /\ c.data \in Nat /\ c.ref \in Nat /\ c.at \in Nat

\* The memory store's call j and Postgres's call k: the same, but for the clock.
SameCall(j, k) ==
  /\ Arguments(j) /\ Arguments(k)
  /\ j.op = k.op /\ j.id = k.id /\ j.key = k.key /\ j.data = k.data /\ j.ref = k.ref

LEMMA NewRows ==
  ASSUME NEW o \in Nat, NEW key \in Nat, NEW d \in Nat, NEW a \in Nat, NEW b \in Nat
  PROVE  /\ NewRow(o, key, d, a) \in Row /\ NewRow(o, key, d, b) \in Row
         /\ SameRow(NewRow(o, key, d, a), NewRow(o, key, d, b))
<1>1. NewRow(o, key, d, a) \in Row /\ NewRow(o, key, d, b) \in Row
  BY DEF NewRow, Row
<1> QED
  BY <1>1, RowParts DEF NewRow

LEMMA CreateUserAgrees ==
  ASSUME NEW m, NEW p, DbInv(m, p), NEW j, NEW k, SameCall(j, k), k.key \in Keys
  PROVE  Agree(m, p, j, k, MemCreateUser(m, j), PgCreateUser(p, k))
<1> PICK r : r = NewRow(0, j.key, j.data, j.at)
  OBVIOUS
<1> PICK q : q = NewRow(0, k.key, k.data, k.at)
  OBVIOUS
<1>1. r \in Row /\ q \in Row /\ SameRow(r, q)
  BY NewRows, 0 \in Nat DEF SameCall, Arguments
<1>0. r.key = k.key /\ r.at = j.at /\ q.at = k.at
  BY DEF NewRow, SameCall
<1>2. Referenced(m, "users", r)
  BY DEF Referenced, Parent
<1>3. Clash(m, "users", r) = WithKey(m, "users", j.key)
  BY <1>0 DEF Clash, SameCall
<1>4. "users" \in Tables
  BY DEF Tables
<1>5. Agree(m, p, j, k, MemAdd(m, "users", {}, WithKey(m, "users", j.key), r), Insert(p, "users", q))
  BY <1>0, <1>1, <1>2, <1>3, <1>4, AddBoth
<1> QED
  BY <1>5 DEF MemCreateUser, PgCreateUser

\* A row of a table whose rows nothing but ids tells apart.
LEMMA FreeRowAgrees ==
  ASSUME NEW m, NEW p, DbInv(m, p), NEW t \in {"goals", "conversations", "violations"},
         NEW parent, Parent[t] = {parent},
         NEW o \in Nat, NEW key \in Nat, NEW d \in Nat,
         NEW j, NEW k, j.at \in Nat, k.at \in Nat, o \in DOMAIN m[parent] \/ Orphan(k),
         t = "goals" => key \in Keys, t = "violations" => key = NoKey, t = "conversations" => d = 0
  PROVE  Agree(m, p, j, k, MemAdd(m, t, {<<parent, o>>}, {}, NewRow(o, key, d, j.at)),
                Insert(p, t, NewRow(o, key, d, k.at)))
<1> PICK r : r = NewRow(o, key, d, j.at)
  OBVIOUS
<1> PICK q : q = NewRow(o, key, d, k.at)
  OBVIOUS
<1>1. r \in Row /\ q \in Row /\ SameRow(r, q) /\ r.owner = o /\ r.key = key /\ r.data = d
      /\ r.at = j.at /\ q.at = k.at
  <2>1. r.owner = o /\ r.key = key /\ r.data = d
        /\ r.at = j.at /\ q.at = k.at
    BY DEF NewRow
  <2> QED
    BY <2>1, NewRows
<1>2. (\A x \in {<<parent, o>>} : x[2] \in DOMAIN m[x[1]]) <=> Referenced(m, t, r)
  BY <1>1 DEF Referenced
<1>3. Clash(m, t, r) = {}
  BY <1>1 DEF Clash
<1>4. t \in Tables /\ (t \in KeyedTables => r.key \in Keys)
  BY <1>1 DEF Tables, KeyedTables
<1>5. Referenced(m, t, r) \/ Orphan(k)
  BY <1>1 DEF Referenced
<1> QED
  BY <1>1, <1>2, <1>3, <1>4, <1>5, AddBoth

\* A row of a table whose rows nothing else has the key of.
LEMMA KeyedRowAgrees ==
  ASSUME NEW m, NEW p, DbInv(m, p), NEW t \in {"apiKeys", "codes", "chats"},
         NEW o \in Nat, NEW key \in Keys, NEW d \in Nat,
         NEW j, NEW k, j.at \in Nat, k.at \in Nat, o \in DOMAIN m["users"] \/ Orphan(k)
  PROVE  Agree(m, p, j, k, MemAdd(m, t, {<<"users", o>>}, WithKey(m, t, key), NewRow(o, key, d, j.at)),
                Insert(p, t, NewRow(o, key, d, k.at)))
<1>0. key \in Nat
  BY RowsAssumption
<1> PICK r : r = NewRow(o, key, d, j.at)
  OBVIOUS
<1> PICK q : q = NewRow(o, key, d, k.at)
  OBVIOUS
<1>1. r \in Row /\ q \in Row /\ SameRow(r, q) /\ r.owner = o /\ r.key = key /\ r.data = d
      /\ r.at = j.at /\ q.at = k.at
  <2>1. r.owner = o /\ r.key = key /\ r.data = d
        /\ r.at = j.at /\ q.at = k.at
    BY DEF NewRow
  <2> QED
    BY <2>1, <1>0, NewRows
<1>2. (\A x \in {<<"users", o>>} : x[2] \in DOMAIN m[x[1]]) <=> Referenced(m, t, r)
  BY <1>1 DEF Referenced, Parent
<1>3. Clash(m, t, r) = WithKey(m, t, key)
  BY <1>1 DEF Clash
<1>4. t \in Tables
  BY DEF Tables
<1>5. Referenced(m, t, r) \/ Orphan(k)
  BY <1>1 DEF Referenced, Parent
<1> QED
  BY <1>1, <1>2, <1>3, <1>4, <1>5, AddBoth

\* The first row of that owner with that key.
LEMMA FirstRowAgrees ==
  ASSUME NEW m, NEW p, DbInv(m, p), NEW t \in {"checkIns", "approvals"},
         NEW parent, Parent[t] = {parent},
         NEW o \in Nat, NEW key \in Keys, NEW d \in Nat,
         NEW j, NEW k, j.at \in Nat, k.at \in Nat, o \in DOMAIN m[parent] \/ Orphan(k),
         o \in DOMAIN m[parent] => Owned(m, t, o, key) = {}
  PROVE  Agree(m, p, j, k, MemAdd(m, t, {<<parent, o>>}, {}, NewRow(o, key, d, j.at)),
                Insert(p, t, NewRow(o, key, d, k.at)))
<1>0. key \in Nat
  BY RowsAssumption
<1> PICK r : r = NewRow(o, key, d, j.at)
  OBVIOUS
<1> PICK q : q = NewRow(o, key, d, k.at)
  OBVIOUS
<1>1. r \in Row /\ q \in Row /\ SameRow(r, q) /\ r.owner = o /\ r.key = key /\ r.data = d
      /\ r.at = j.at /\ q.at = k.at
  <2>1. r.owner = o /\ r.key = key /\ r.data = d
        /\ r.at = j.at /\ q.at = k.at
    BY DEF NewRow
  <2> QED
    BY <2>1, <1>0, NewRows
<1>2. (\A x \in {<<parent, o>>} : x[2] \in DOMAIN m[x[1]]) <=> Referenced(m, t, r)
  BY <1>1 DEF Referenced
<1>3. Referenced(m, t, r) => Clash(m, t, r) = {}
  BY <1>1 DEF Clash, Referenced
<1>4. t \in Tables
  BY DEF Tables
<1>5. Referenced(m, t, r) \/ Orphan(k)
  BY <1>1 DEF Referenced
<1> QED
  BY <1>1, <1>2, <1>3, <1>4, <1>5, AddBoth

LEMMA CreateAgentLinkAgrees ==
  ASSUME NEW m, NEW p, DbInv(m, p), NEW j, NEW k, SameCall(j, k), k.key \in Keys,
         (k.id \in DOMAIN m["users"] /\ k.ref \in DOMAIN m["apiKeys"]) \/ Orphan(k)
  PROVE  Agree(m, p, j, k, MemCreateAgentLink(m, j), PgCreateAgentLink(p, k))
<1> PICK r : r = [NewRow(j.id, j.key, j.data, j.at) EXCEPT !.ref = j.ref]
  OBVIOUS
<1> PICK q : q = [NewRow(k.id, k.key, k.data, k.at) EXCEPT !.ref = k.ref]
  OBVIOUS
<1>0. /\ j.id = k.id /\ j.key = k.key /\ j.data = k.data /\ j.ref = k.ref
      /\ k.id \in Nat /\ k.key \in Nat /\ k.data \in Nat /\ k.ref \in Nat /\ j.at \in Nat /\ k.at \in Nat
  BY DEF SameCall, Arguments
<1>1. r \in Row /\ q \in Row /\ SameRow(r, q) /\ r.owner = k.id /\ r.key = k.key /\ r.ref = k.ref
      /\ r.at = j.at /\ q.at = k.at
  <2>1. /\ r \in Row /\ r.owner = k.id /\ r.key = k.key /\ r.ref = k.ref /\ r.data = k.data
        /\ r.done = FALSE /\ r.at = j.at
    BY <1>0 DEF NewRow, Row
  <2>2. /\ q \in Row /\ q.owner = k.id /\ q.key = k.key /\ q.ref = k.ref /\ q.data = k.data
        /\ q.done = FALSE /\ q.at = k.at
    BY <1>0 DEF NewRow, Row
  <2> QED
    BY <2>1, <2>2, RowParts
<1>2. (\A x \in {<<"users", j.id>>, <<"apiKeys", j.ref>>} : x[2] \in DOMAIN m[x[1]])
        <=> Referenced(m, "agentLinks", r)
  BY <1>0, <1>1 DEF Referenced, Parent
<1>3. Clash(m, "agentLinks", r) = WithKey(m, "agentLinks", j.key)
  BY <1>0, <1>1 DEF Clash
<1>4. "agentLinks" \in Tables /\ r.key \in Keys
  BY <1>1 DEF Tables
<1>5. Referenced(m, "agentLinks", r) \/ Orphan(k)
  BY <1>1 DEF Referenced, Parent
<1>6. Agree(m, p, j, k, MemAdd(m, "agentLinks", {<<"users", j.id>>, <<"apiKeys", j.ref>>},
                     WithKey(m, "agentLinks", j.key), r),
                Insert(p, "agentLinks", q))
  BY <1>1, <1>2, <1>3, <1>4, <1>5, AddBoth
<1> QED
  BY <1>6 DEF MemCreateAgentLink, PgCreateAgentLink

\* r and q are what an update makes of row i in the two stores.
Edits(m, p, t, i, r, q) ==
  /\ r \in Row /\ q \in Row /\ SameRow(r, q)
  /\ r.ref = m[t][i].ref /\ r.at = m[t][i].at /\ q.at = p[t][i].at
  /\ t = "goals" => r.key \in Keys
  /\ t # "goals" => r.key = m[t][i].key
  /\ r.owner = m[t][i].owner \/ (t = "chats" /\ r.owner \in DOMAIN m["users"])
  /\ m[t][i].done = TRUE => r.done = TRUE
  /\ t # "conversations"

LEMMA EditReplaces ==
  ASSUME NEW m, NEW p, DbInv(m, p), NEW t \in Tables, NEW i \in DOMAIN m[t],
         NEW r, NEW q, Edits(m, p, t, i, r, q)
  PROVE  /\ r \in Row /\ q \in Row /\ SameRow(r, q)
         /\ Replaces(m, t, m[t][i], r) /\ r.at = m[t][i].at /\ StaysRow(t, p[t][i], q)
<1>1. /\ m[t][i].owner = p[t][i].owner /\ m[t][i].key = p[t][i].key
      /\ m[t][i].ref = p[t][i].ref /\ m[t][i].done = p[t][i].done
  BY SameParts DEF DbInv
<1>2. r \in Row /\ q \in Row /\ SameRow(r, q) /\ r.at = m[t][i].at
  BY DEF Edits
<1>3. r.owner = q.owner /\ r.key = q.key /\ r.ref = q.ref /\ r.done = q.done
  BY <1>2, RowParts
<1>4. Replaces(m, t, m[t][i], r)
  BY DEF Edits, Replaces
<1>5. p[t][i].done => q.done
  BY <1>1, <1>3 DEF Edits
<1>6. q.at = p[t][i].at /\ q.ref = p[t][i].ref
  BY <1>1, <1>3 DEF Edits
<1>7. /\ t # "chats" => q.owner = p[t][i].owner
      /\ t # "goals" => q.key = p[t][i].key
      /\ t # "conversations"
  BY <1>1, <1>3 DEF Edits
<1>8. StaysRow(t, p[t][i], q)
  BY <1>5, <1>6, <1>7 DEF StaysRow
<1> QED
  BY <1>2, <1>4, <1>8

LEMMA EditBoth ==
  ASSUME NEW m, NEW p, DbInv(m, p), NEW j, NEW k, NEW t \in Tables, NEW ids, ids \subseteq DOMAIN m[t],
         NEW r, NEW new, DOMAIN new = ids,
         \A i \in ids : i = Only(ids) => Edits(m, p, t, i, r, new[i])
  PROVE  Agree(m, p, j, k, MemSet(m, t, ids, r), Update(p, t, new))
<1>1. ASSUME ids # {}
      PROVE  /\ r \in Row /\ new[Only(ids)] \in Row /\ SameRow(r, new[Only(ids)])
             /\ Replaces(m, t, m[t][Only(ids)], r) /\ r.at = m[t][Only(ids)].at
             /\ StaysRow(t, p[t][Only(ids)], new[Only(ids)])
  <2> PICK i : i = Only(ids)
    OBVIOUS
  <2>1. i \in ids /\ i \in DOMAIN m[t]
    BY <1>1, OnlyIn
  <2>2. Edits(m, p, t, i, r, new[i])
    BY <2>1
  <2> QED
    BY <2>1, <2>2, EditReplaces
<1> QED
  BY <1>1, SetBoth

LEMMA OldRows ==
  ASSUME NEW m, NEW p, DbInv(m, p), NEW t \in Tables, NEW i \in DOMAIN m[t]
  PROVE  /\ m[t][i] \in Row /\ p[t][i] \in Row
         /\ m[t][i].owner = p[t][i].owner /\ m[t][i].key = p[t][i].key
         /\ m[t][i].data = p[t][i].data /\ m[t][i].ref = p[t][i].ref
         /\ m[t][i].done = p[t][i].done
         /\ t \in KeyedTables => m[t][i].key \in Keys
<1>1. i \in DOMAIN p[t]
  BY SameParts DEF DbInv
<1> QED
  BY <1>1, SameParts, RowTypes DEF DbInv, HasKeys

LEMMA DataEdits ==
  ASSUME NEW m, NEW p, DbInv(m, p), NEW t \in Tables, t # "conversations", NEW i \in DOMAIN m[t], NEW d \in Nat
  PROVE  Edits(m, p, t, i, [m[t][i] EXCEPT !.data = d], [p[t][i] EXCEPT !.data = d])
<1>a. PICK a : a = m[t][i]
  OBVIOUS
<1>b. PICK b : b = p[t][i]
  OBVIOUS
<1>r. PICK r : r = [a EXCEPT !.data = d]
  OBVIOUS
<1>q. PICK q : q = [b EXCEPT !.data = d]
  OBVIOUS
<1>1. /\ a \in Row /\ b \in Row /\ a.owner = b.owner /\ a.key = b.key /\ a.data = b.data
      /\ a.ref = b.ref /\ a.done = b.done /\ (t \in KeyedTables => a.key \in Keys)
  BY <1>a, <1>b, OldRows
<1>2. /\ r \in Row /\ r.owner = a.owner /\ r.key = a.key /\ r.data = d /\ r.ref = a.ref
      /\ r.done = a.done /\ r.at = a.at
  BY <1>1, <1>r DEF Row
<1>3. /\ q \in Row /\ q.owner = b.owner /\ q.key = b.key /\ q.data = d /\ q.ref = b.ref
      /\ q.done = b.done /\ q.at = b.at
  BY <1>1, <1>q DEF Row
<1>4. SameRow(r, q)
  BY <1>1, <1>2, <1>3, RowParts
<1>5. Edits(m, p, t, i, r, q)
  <2>1. r.ref = m[t][i].ref /\ r.at = m[t][i].at /\ q.at = p[t][i].at
    BY <1>a, <1>b, <1>2, <1>3
  <2>2. m[t][i].done = TRUE => r.done = TRUE
    BY <1>a, <1>2
  <2>3. (t = "goals" => r.key \in Keys) /\ r.key = m[t][i].key
    BY <1>a, <1>1, <1>2 DEF KeyedTables, Tables
  <2>4. r.owner = m[t][i].owner
    BY <1>a, <1>2
  <2> QED
    BY <1>2, <1>3, <1>4, <2>1, <2>2, <2>3, <2>4 DEF Edits
<1> QED
  BY <1>a, <1>b, <1>r, <1>q, <1>5

LEMMA DoneEdits ==
  ASSUME NEW m, NEW p, DbInv(m, p), NEW t \in Tables, t # "conversations", NEW i \in DOMAIN m[t]
  PROVE  Edits(m, p, t, i, [m[t][i] EXCEPT !.done = TRUE], [p[t][i] EXCEPT !.done = TRUE])
<1>a. PICK a : a = m[t][i]
  OBVIOUS
<1>b. PICK b : b = p[t][i]
  OBVIOUS
<1>r. PICK r : r = [a EXCEPT !.done = TRUE]
  OBVIOUS
<1>q. PICK q : q = [b EXCEPT !.done = TRUE]
  OBVIOUS
<1>1. /\ a \in Row /\ b \in Row /\ a.owner = b.owner /\ a.key = b.key /\ a.data = b.data
      /\ a.ref = b.ref /\ a.done = b.done /\ (t \in KeyedTables => a.key \in Keys)
  BY <1>a, <1>b, OldRows
<1>2. /\ r \in Row /\ r.owner = a.owner /\ r.key = a.key /\ r.data = a.data /\ r.ref = a.ref
      /\ r.done = TRUE /\ r.at = a.at
  BY <1>1, <1>r DEF Row
<1>3. /\ q \in Row /\ q.owner = b.owner /\ q.key = b.key /\ q.data = b.data /\ q.ref = b.ref
      /\ q.done = TRUE /\ q.at = b.at
  BY <1>1, <1>q DEF Row
<1>4. SameRow(r, q)
  BY <1>1, <1>2, <1>3, RowParts
<1>5. Edits(m, p, t, i, r, q)
  <2>1. r.ref = m[t][i].ref /\ r.at = m[t][i].at /\ q.at = p[t][i].at
    BY <1>a, <1>b, <1>2, <1>3
  <2>2. m[t][i].done = TRUE => r.done = TRUE
    BY <1>a, <1>2
  <2>3. (t = "goals" => r.key \in Keys) /\ r.key = m[t][i].key
    BY <1>a, <1>1, <1>2 DEF KeyedTables, Tables
  <2>4. r.owner = m[t][i].owner
    BY <1>a, <1>2
  <2> QED
    BY <1>2, <1>3, <1>4, <2>1, <2>2, <2>3, <2>4 DEF Edits
<1> QED
  BY <1>a, <1>b, <1>r, <1>q, <1>5

LEMMA SettledEdits ==
  ASSUME NEW m, NEW p, DbInv(m, p), NEW t \in Tables, t # "conversations", NEW i \in DOMAIN m[t], NEW d \in Nat
  PROVE  Edits(m, p, t, i, [m[t][i] EXCEPT !.done = TRUE, !.data = d], [p[t][i] EXCEPT !.done = TRUE, !.data = d])
<1>a. PICK a : a = m[t][i]
  OBVIOUS
<1>b. PICK b : b = p[t][i]
  OBVIOUS
<1>r. PICK r : r = [a EXCEPT !.done = TRUE, !.data = d]
  OBVIOUS
<1>q. PICK q : q = [b EXCEPT !.done = TRUE, !.data = d]
  OBVIOUS
<1>1. /\ a \in Row /\ b \in Row /\ a.owner = b.owner /\ a.key = b.key /\ a.data = b.data
      /\ a.ref = b.ref /\ a.done = b.done /\ (t \in KeyedTables => a.key \in Keys)
  BY <1>a, <1>b, OldRows
<1>2. /\ r \in Row /\ r.owner = a.owner /\ r.key = a.key /\ r.data = d /\ r.ref = a.ref
      /\ r.done = TRUE /\ r.at = a.at
  BY <1>1, <1>r DEF Row
<1>3. /\ q \in Row /\ q.owner = b.owner /\ q.key = b.key /\ q.data = d /\ q.ref = b.ref
      /\ q.done = TRUE /\ q.at = b.at
  BY <1>1, <1>q DEF Row
<1>4. SameRow(r, q)
  BY <1>1, <1>2, <1>3, RowParts
<1>5. Edits(m, p, t, i, r, q)
  <2>1. r.ref = m[t][i].ref /\ r.at = m[t][i].at /\ q.at = p[t][i].at
    BY <1>a, <1>b, <1>2, <1>3
  <2>2. m[t][i].done = TRUE => r.done = TRUE
    BY <1>a, <1>2
  <2>3. (t = "goals" => r.key \in Keys) /\ r.key = m[t][i].key
    BY <1>a, <1>1, <1>2 DEF KeyedTables, Tables
  <2>4. r.owner = m[t][i].owner
    BY <1>a, <1>2
  <2> QED
    BY <1>2, <1>3, <1>4, <2>1, <2>2, <2>3, <2>4 DEF Edits
<1> QED
  BY <1>a, <1>b, <1>r, <1>q, <1>5

LEMMA GoalEdits ==
  ASSUME NEW m, NEW p, DbInv(m, p), NEW t \in {"goals"}, NEW i \in DOMAIN m[t], NEW d \in Nat,
         NEW key, key \in Keys \/ key = NoKey
  PROVE  Edits(m, p, t, i, [m[t][i] EXCEPT !.data = d, !.key = IF key = NoKey THEN @ ELSE key], [p[t][i] EXCEPT !.data = d, !.key = IF key = NoKey THEN @ ELSE key])
<1>a. PICK a : a = m[t][i]
  OBVIOUS
<1>b. PICK b : b = p[t][i]
  OBVIOUS
<1>r. PICK r : r = [a EXCEPT !.data = d, !.key = IF key = NoKey THEN @ ELSE key]
  OBVIOUS
<1>q. PICK q : q = [b EXCEPT !.data = d, !.key = IF key = NoKey THEN @ ELSE key]
  OBVIOUS
<1>1. /\ a \in Row /\ b \in Row /\ a.owner = b.owner /\ a.key = b.key /\ a.data = b.data
      /\ a.ref = b.ref /\ a.done = b.done /\ (t \in KeyedTables => a.key \in Keys)
  BY <1>a, <1>b, OldRows DEF Tables
<1>2. /\ r \in Row /\ r.owner = a.owner /\ r.key = (IF key = NoKey THEN a.key ELSE key) /\ r.data = d /\ r.ref = a.ref
      /\ r.done = a.done /\ r.at = a.at
  BY <1>1, <1>r, RowsAssumption DEF Row, NoKey
<1>3. /\ q \in Row /\ q.owner = b.owner /\ q.key = (IF key = NoKey THEN b.key ELSE key) /\ q.data = d /\ q.ref = b.ref
      /\ q.done = b.done /\ q.at = b.at
  BY <1>1, <1>q, RowsAssumption DEF Row, NoKey
<1>4. SameRow(r, q)
  BY <1>1, <1>2, <1>3, RowParts
<1>5. Edits(m, p, t, i, r, q)
  <2>1. r.ref = m[t][i].ref /\ r.at = m[t][i].at /\ q.at = p[t][i].at
    BY <1>a, <1>b, <1>2, <1>3
  <2>2. m[t][i].done = TRUE => r.done = TRUE
    BY <1>a, <1>2
  <2>3. r.key \in Keys /\ t = "goals"
    BY <1>a, <1>1, <1>2 DEF KeyedTables, Tables
  <2>4. r.owner = m[t][i].owner
    BY <1>a, <1>2
  <2> QED
    BY <1>2, <1>3, <1>4, <2>1, <2>2, <2>3, <2>4 DEF Edits
<1> QED
  BY <1>a, <1>b, <1>r, <1>q, <1>5

LEMMA ChatEdits ==
  ASSUME NEW m, NEW p, DbInv(m, p), NEW t \in {"chats"}, NEW i \in DOMAIN m[t],
         NEW u \in Nat, u \in DOMAIN m["users"], NEW d \in Nat
  PROVE  Edits(m, p, t, i, [m[t][i] EXCEPT !.owner = u, !.data = d], [p[t][i] EXCEPT !.owner = u, !.data = d])
<1>a. PICK a : a = m[t][i]
  OBVIOUS
<1>b. PICK b : b = p[t][i]
  OBVIOUS
<1>r. PICK r : r = [a EXCEPT !.owner = u, !.data = d]
  OBVIOUS
<1>q. PICK q : q = [b EXCEPT !.owner = u, !.data = d]
  OBVIOUS
<1>1. /\ a \in Row /\ b \in Row /\ a.owner = b.owner /\ a.key = b.key /\ a.data = b.data
      /\ a.ref = b.ref /\ a.done = b.done /\ (t \in KeyedTables => a.key \in Keys)
  BY <1>a, <1>b, OldRows DEF Tables
<1>2. /\ r \in Row /\ r.owner = u /\ r.key = a.key /\ r.data = d /\ r.ref = a.ref
      /\ r.done = a.done /\ r.at = a.at
  BY <1>1, <1>r DEF Row
<1>3. /\ q \in Row /\ q.owner = u /\ q.key = b.key /\ q.data = d /\ q.ref = b.ref
      /\ q.done = b.done /\ q.at = b.at
  BY <1>1, <1>q DEF Row
<1>4. SameRow(r, q)
  BY <1>1, <1>2, <1>3, RowParts
<1>5. Edits(m, p, t, i, r, q)
  <2>1. r.ref = m[t][i].ref /\ r.at = m[t][i].at /\ q.at = p[t][i].at
    BY <1>a, <1>b, <1>2, <1>3
  <2>2. m[t][i].done = TRUE => r.done = TRUE
    BY <1>a, <1>2
  <2>3. (t = "goals" => r.key \in Keys) /\ r.key = m[t][i].key
    BY <1>a, <1>1, <1>2 DEF KeyedTables, Tables
  <2>4. r.owner \in DOMAIN m["users"] /\ t = "chats"
    BY <1>a, <1>2
  <2> QED
    BY <1>2, <1>3, <1>4, <2>1, <2>2, <2>3, <2>4 DEF Edits
<1> QED
  BY <1>a, <1>b, <1>r, <1>q, <1>5

\* Where a table has a row with that id, it is the row at that position.
LEMMA HavingRow ==
  ASSUME NEW m, NEW p, DbInv(m, p), NEW t \in Tables, NEW id
  PROVE  /\ Having(p, t, id) = Having(m, t, id) /\ Having(m, t, id) \subseteq DOMAIN m[t]
         /\ \A i \in Having(m, t, id) : i = id
<1>1. Having(p, t, id) = Having(m, t, id)
  BY SameSets DEF DbInv
<1> QED
  BY <1>1 DEF Having

\* The rows with that id are edited alike: what the memory store makes of its row is what Postgres makes of the same row.
LEMMA EditById ==
  ASSUME NEW m, NEW p, DbInv(m, p), NEW j, NEW k, NEW t \in Tables, NEW id, NEW r, NEW new,
         DOMAIN new = Having(p, t, id),
         id \in DOMAIN m[t] => Edits(m, p, t, id, r, new[id])
  PROVE  Agree(m, p, j, k, MemSet(m, t, Having(m, t, id), r), Update(p, t, new))
<1>1. /\ Having(p, t, id) = Having(m, t, id) /\ Having(m, t, id) \subseteq DOMAIN m[t]
      /\ \A i \in Having(m, t, id) : i = id
  BY HavingRow
<1>2. \A i \in Having(m, t, id) : Edits(m, p, t, i, r, new[i])
  BY <1>1
<1> QED
  BY <1>1, <1>2, EditBoth

\* Outcomes are records.
LEMMA NoRows ==
  ASSUME NEW db, NEW t, NEW new, NEW x, x = [Update(db, t, new) EXCEPT !.rows = <<>>]
  PROVE  x.db = Update(db, t, new).db /\ x.why = Update(db, t, new).why /\ x.rows = <<>>
BY DEF Update, Refuse, Answer

LEMMA TouchApiKeyAgrees ==
  ASSUME NEW m, NEW p, DbInv(m, p), NEW j, NEW k, SameCall(j, k)
  PROVE  Agree(m, p, j, k, MemTouchApiKey(m, j), PgTouchApiKey(p, k))
<1>r. PICK r : r = [m.apiKeys[j.id] EXCEPT !.data = j.data]
  OBVIOUS
<1>n. PICK new : new = [i \in Having(p, "apiKeys", k.id) |-> [p.apiKeys[i] EXCEPT !.data = k.data]]
  OBVIOUS
<1>1. j.id = k.id /\ j.key = k.key /\ j.data = k.data /\ k.data \in Nat /\ "apiKeys" \in Tables
  BY DEF SameCall, Arguments, Tables
<1>2. DOMAIN new = Having(p, "apiKeys", j.id)
  BY <1>n, <1>1
<1>3. ASSUME j.id \in DOMAIN m["apiKeys"]
      PROVE  Edits(m, p, "apiKeys", j.id, r, new[j.id])
  <2>1. j.id \in Having(p, "apiKeys", j.id)
    BY <1>1, <1>3, HavingRow DEF Having
  <2>2. new[j.id] = [p["apiKeys"][j.id] EXCEPT !.data = k.data]
    BY <1>n, <1>1, <2>1
  <2>3. Edits(m, p, "apiKeys", j.id, [m["apiKeys"][j.id] EXCEPT !.data = k.data], [p["apiKeys"][j.id] EXCEPT !.data = k.data])
    BY <1>1, <1>3, DataEdits
  <2> QED
    BY <1>r, <1>1, <2>2, <2>3
<1>4. Agree(m, p, j, k, MemSet(m, "apiKeys", Having(m, "apiKeys", j.id), r), Update(p, "apiKeys", new))
  BY <1>1, <1>2, <1>3, EditById
<1> QED
  BY <1>r, <1>n, <1>4 DEF MemTouchApiKey, PgTouchApiKey

LEMMA UpdateViolationAgrees ==
  ASSUME NEW m, NEW p, DbInv(m, p), NEW j, NEW k, SameCall(j, k)
  PROVE  Agree(m, p, j, k, MemUpdateViolation(m, j), PgUpdateViolation(p, k))
<1>r. PICK r : r = [m.violations[j.id] EXCEPT !.done = TRUE, !.data = j.data]
  OBVIOUS
<1>n. PICK new : new = [i \in Having(p, "violations", k.id) |-> [p.violations[i] EXCEPT !.done = TRUE, !.data = k.data]]
  OBVIOUS
<1>1. j.id = k.id /\ j.key = k.key /\ j.data = k.data /\ k.data \in Nat /\ "violations" \in Tables
  BY DEF SameCall, Arguments, Tables
<1>2. DOMAIN new = Having(p, "violations", j.id)
  BY <1>n, <1>1
<1>3. ASSUME j.id \in DOMAIN m["violations"]
      PROVE  Edits(m, p, "violations", j.id, r, new[j.id])
  <2>1. j.id \in Having(p, "violations", j.id)
    BY <1>1, <1>3, HavingRow DEF Having
  <2>2. new[j.id] = [p["violations"][j.id] EXCEPT !.done = TRUE, !.data = k.data]
    BY <1>n, <1>1, <2>1
  <2>3. Edits(m, p, "violations", j.id, [m["violations"][j.id] EXCEPT !.done = TRUE, !.data = k.data], [p["violations"][j.id] EXCEPT !.done = TRUE, !.data = k.data])
    BY <1>1, <1>3, SettledEdits
  <2> QED
    BY <1>r, <1>1, <2>2, <2>3
<1>4. Agree(m, p, j, k, MemSet(m, "violations", Having(m, "violations", j.id), r),
                Update(p, "violations", new))
  BY <1>1, <1>2, <1>3, EditById
<1> QED
  BY <1>r, <1>n, <1>4 DEF MemUpdateViolation, PgUpdateViolation

LEMMA UpdateGoalAgrees ==
  ASSUME NEW m, NEW p, DbInv(m, p), NEW j, NEW k, SameCall(j, k), k.key \in Keys \/ k.key = NoKey
  PROVE  Agree(m, p, j, k, MemUpdateGoal(m, j), PgUpdateGoal(p, k))
<1>r. PICK r : r = [m.goals[j.id] EXCEPT !.data = j.data, !.key = IF j.key = NoKey THEN @ ELSE j.key]
  OBVIOUS
<1>n. PICK new : new = [i \in Having(p, "goals", k.id) |-> [p.goals[i] EXCEPT !.data = k.data, !.key = IF k.key = NoKey THEN @ ELSE k.key]]
  OBVIOUS
<1>1. j.id = k.id /\ j.key = k.key /\ j.data = k.data /\ k.data \in Nat /\ "goals" \in Tables
  BY DEF SameCall, Arguments, Tables
<1>2. DOMAIN new = Having(p, "goals", j.id)
  BY <1>n, <1>1
<1>3. ASSUME j.id \in DOMAIN m["goals"]
      PROVE  Edits(m, p, "goals", j.id, r, new[j.id])
  <2>1. j.id \in Having(p, "goals", j.id)
    BY <1>1, <1>3, HavingRow DEF Having
  <2>2. new[j.id] = [p["goals"][j.id] EXCEPT !.data = k.data, !.key = IF k.key = NoKey THEN @ ELSE k.key]
    BY <1>n, <1>1, <2>1
  <2>3. Edits(m, p, "goals", j.id, [m["goals"][j.id] EXCEPT !.data = k.data, !.key = IF k.key = NoKey THEN @ ELSE k.key], [p["goals"][j.id] EXCEPT !.data = k.data, !.key = IF k.key = NoKey THEN @ ELSE k.key])
    BY <1>1, <1>3, GoalEdits
  <2> QED
    BY <1>r, <1>1, <2>2, <2>3
<1>4. Agree(m, p, j, k, MemSet(m, "goals", Having(m, "goals", j.id), r), Update(p, "goals", new))
  BY <1>1, <1>2, <1>3, EditById
<1> QED
  BY <1>r, <1>n, <1>4 DEF MemUpdateGoal, PgUpdateGoal

LEMMA RevokeAgentLinkAgrees ==
  ASSUME NEW m, NEW p, DbInv(m, p), NEW j, NEW k, SameCall(j, k)
  PROVE  Agree(m, p, j, k, MemRevokeAgentLink(m, j), PgRevokeAgentLink(p, k))
<1>r. PICK r : r = [m.agentLinks[j.id] EXCEPT !.done = TRUE]
  OBVIOUS
<1>n. PICK new : new = [i \in Having(p, "agentLinks", k.id) |-> [p.agentLinks[i] EXCEPT !.done = TRUE]]
  OBVIOUS
<1>1. j.id = k.id /\ j.key = k.key /\ j.data = k.data /\ k.data \in Nat /\ "agentLinks" \in Tables
  BY DEF SameCall, Arguments, Tables
<1>2. DOMAIN new = Having(p, "agentLinks", j.id)
  BY <1>n, <1>1
<1>3. ASSUME j.id \in DOMAIN m["agentLinks"]
      PROVE  Edits(m, p, "agentLinks", j.id, r, new[j.id])
  <2>1. j.id \in Having(p, "agentLinks", j.id)
    BY <1>1, <1>3, HavingRow DEF Having
  <2>2. new[j.id] = [p["agentLinks"][j.id] EXCEPT !.done = TRUE]
    BY <1>n, <1>1, <2>1
  <2>3. Edits(m, p, "agentLinks", j.id, [m["agentLinks"][j.id] EXCEPT !.done = TRUE], [p["agentLinks"][j.id] EXCEPT !.done = TRUE])
    BY <1>1, <1>3, DoneEdits
  <2> QED
    BY <1>r, <1>1, <2>2, <2>3
<1>4. Agree(m, p, j, k, MemSet(m, "agentLinks", Having(m, "agentLinks", j.id), r),
                Update(p, "agentLinks", new))
  BY <1>1, <1>2, <1>3, EditById
<1> QED
  BY <1>r, <1>n, <1>4 DEF MemRevokeAgentLink, PgRevokeAgentLink

LEMMA ArchiveGoalAgrees ==
  ASSUME NEW m, NEW p, DbInv(m, p), NEW j, NEW k, SameCall(j, k)
  PROVE  Agree(m, p, j, k, MemArchiveGoal(m, j), PgArchiveGoal(p, k))
<1>r. PICK r : r = [m.goals[j.id] EXCEPT !.done = TRUE]
  OBVIOUS
<1>n. PICK new : new = [i \in Having(p, "goals", k.id) |-> [p.goals[i] EXCEPT !.done = TRUE]]
  OBVIOUS
<1>1. j.id = k.id /\ j.key = k.key /\ j.data = k.data /\ k.data \in Nat /\ "goals" \in Tables
  BY DEF SameCall, Arguments, Tables
<1>2. DOMAIN new = Having(p, "goals", j.id)
  BY <1>n, <1>1
<1>3. ASSUME j.id \in DOMAIN m["goals"]
      PROVE  Edits(m, p, "goals", j.id, r, new[j.id])
  <2>1. j.id \in Having(p, "goals", j.id)
    BY <1>1, <1>3, HavingRow DEF Having
  <2>2. new[j.id] = [p["goals"][j.id] EXCEPT !.done = TRUE]
    BY <1>n, <1>1, <2>1
  <2>3. Edits(m, p, "goals", j.id, [m["goals"][j.id] EXCEPT !.done = TRUE], [p["goals"][j.id] EXCEPT !.done = TRUE])
    BY <1>1, <1>3, DoneEdits
  <2> QED
    BY <1>r, <1>1, <2>2, <2>3
<1>4. Agree(m, p, j, k, MemSet(m, "goals", Having(m, "goals", j.id), r), Update(p, "goals", new))
  BY <1>1, <1>2, <1>3, EditById
<1>x. PICK x : x = MemSet(m, "goals", Having(m, "goals", j.id), r)
  OBVIOUS
<1>y. PICK y : y = Update(p, "goals", new)
  OBVIOUS
<1>v. PICK v : v = MemArchiveGoal(m, j)
  OBVIOUS
<1>w. PICK w : w = PgArchiveGoal(p, k)
  OBVIOUS
<1>5. v.db = x.db /\ v.why = x.why /\ v.rows = <<>>
  <2>1. CASE j.id \notin DOMAIN m["goals"]
    <3>1. x = Refuse(m, "not found")
      <4>1. Having(m, "goals", j.id) = {}
        BY <2>1 DEF Having
      <4> QED
        BY <1>x, <4>1 DEF MemSet
    <3>2. v = Refuse(m, "not found")
      BY <1>v, <2>1 DEF MemArchiveGoal
    <3>3. v = x
      BY <3>1, <3>2
    <3>4. v.rows = <<>>
      BY <3>2 DEF Refuse
    <3> QED
      BY <3>3, <3>4
  <2>2. CASE j.id \in DOMAIN m["goals"]
    <3>1. Only(Having(m, "goals", j.id)) = j.id /\ Having(m, "goals", j.id) # {}
      BY <2>2, OnlyIn DEF Having
    <3>a. PICK after : after = Replace(m, "goals", j.id, r)
      OBVIOUS
    <3>2. x = Answer(Replace(m, "goals", j.id, r), "goals", <<j.id>>)
      BY <1>x, <3>1 DEF MemSet, Replace
    <3>3. v = Done(Replace(m, "goals", j.id, r))
      BY <1>r, <1>v, <2>2 DEF MemArchiveGoal, Replace
    <3>4. x.db = after /\ x.why = "none"
      <4>1. x = Answer(after, "goals", <<j.id>>)
        BY <3>a, <3>2
      <4>2. x.db = after /\ x.why = "none" /\ x.rows = <<[of |-> "goals", id |-> j.id, row |-> after["goals"][j.id]]>>
        BY <4>1, OneRow
      <4> QED
        BY <4>2
    <3>5. v.db = after /\ v.why = "none" /\ v.rows = <<>>
      BY <3>3, <3>a, NoRow
    <3> QED
      BY <3>4, <3>5
  <2> QED
    BY <2>1, <2>2
<1>6. w.db = y.db /\ w.why = y.why /\ w.rows = <<>>
  <2>1. w = [Update(p, "goals", new) EXCEPT !.rows = <<>>]
    BY <1>n, <1>w DEF PgArchiveGoal
  <2> QED
    BY <1>y, <2>1, NoRows
<1>7. Agree(m, p, j, k, v, w)
  BY <1>4, <1>5, <1>6, <1>x, <1>y, WithoutRows
<1> QED
  BY <1>7, <1>v, <1>w

LEMMA RevokeApiKeyAgrees ==
  ASSUME NEW m, NEW p, DbInv(m, p), NEW j, NEW k, SameCall(j, k), k.step = 1
  PROVE  Agree(m, p, j, k, MemRevokeApiKey(m, j), PgRevokeApiKey(p, k))
<1>r. PICK r : r = [m.apiKeys[j.id] EXCEPT !.done = TRUE]
  OBVIOUS
<1>n. PICK new : new = [i \in Having(p, "apiKeys", k.id) |-> [p.apiKeys[i] EXCEPT !.done = TRUE]]
  OBVIOUS
<1>1. j.id = k.id /\ j.key = k.key /\ j.data = k.data /\ k.data \in Nat /\ "apiKeys" \in Tables
  BY DEF SameCall, Arguments, Tables
<1>2. DOMAIN new = Having(p, "apiKeys", j.id)
  BY <1>n, <1>1
<1>3. ASSUME j.id \in DOMAIN m["apiKeys"]
      PROVE  Edits(m, p, "apiKeys", j.id, r, new[j.id])
  <2>1. j.id \in Having(p, "apiKeys", j.id)
    BY <1>1, <1>3, HavingRow DEF Having
  <2>2. new[j.id] = [p["apiKeys"][j.id] EXCEPT !.done = TRUE]
    BY <1>n, <1>1, <2>1
  <2>3. Edits(m, p, "apiKeys", j.id, [m["apiKeys"][j.id] EXCEPT !.done = TRUE], [p["apiKeys"][j.id] EXCEPT !.done = TRUE])
    BY <1>1, <1>3, DoneEdits
  <2> QED
    BY <1>r, <1>1, <2>2, <2>3
<1>4. Agree(m, p, j, k, MemSet(m, "apiKeys", Having(m, "apiKeys", j.id), r), Update(p, "apiKeys", new))
  BY <1>1, <1>2, <1>3, EditById
<1>x. PICK x : x = MemSet(m, "apiKeys", Having(m, "apiKeys", j.id), r)
  OBVIOUS
<1>y. PICK y : y = Update(p, "apiKeys", new)
  OBVIOUS
<1>v. PICK v : v = MemRevokeApiKey(m, j)
  OBVIOUS
<1>w. PICK w : w = PgRevokeApiKey(p, k)
  OBVIOUS
<1>5. v.db = x.db /\ v.why = x.why /\ v.rows = <<>>
  <2>1. CASE j.id \notin DOMAIN m["apiKeys"]
    <3>1. x = Refuse(m, "not found")
      <4>1. Having(m, "apiKeys", j.id) = {}
        BY <2>1 DEF Having
      <4> QED
        BY <1>x, <4>1 DEF MemSet
    <3>2. v = Refuse(m, "not found")
      BY <1>v, <2>1 DEF MemRevokeApiKey
    <3>3. v = x
      BY <3>1, <3>2
    <3>4. v.rows = <<>>
      BY <3>2 DEF Refuse
    <3> QED
      BY <3>3, <3>4
  <2>2. CASE j.id \in DOMAIN m["apiKeys"]
    <3>1. Only(Having(m, "apiKeys", j.id)) = j.id /\ Having(m, "apiKeys", j.id) # {}
      BY <2>2, OnlyIn DEF Having
    <3>a. PICK after : after = Replace(m, "apiKeys", j.id, r)
      OBVIOUS
    <3>2. x = Answer(Replace(m, "apiKeys", j.id, r), "apiKeys", <<j.id>>)
      BY <1>x, <3>1 DEF MemSet, Replace
    <3>3. v = Done(Replace(m, "apiKeys", j.id, r))
      BY <1>r, <1>v, <2>2 DEF MemRevokeApiKey, Replace
    <3>4. x.db = after /\ x.why = "none"
      <4>1. x = Answer(after, "apiKeys", <<j.id>>)
        BY <3>a, <3>2
      <4>2. x.db = after /\ x.why = "none" /\ x.rows = <<[of |-> "apiKeys", id |-> j.id, row |-> after["apiKeys"][j.id]]>>
        BY <4>1, OneRow
      <4> QED
        BY <4>2
    <3>5. v.db = after /\ v.why = "none" /\ v.rows = <<>>
      BY <3>3, <3>a, NoRow
    <3> QED
      BY <3>4, <3>5
  <2> QED
    BY <2>1, <2>2
<1>6. w.db = y.db /\ w.why = y.why /\ w.rows = <<>>
  <2>1. w = [Update(p, "apiKeys", new) EXCEPT !.rows = <<>>]
    BY <1>n, <1>w DEF PgRevokeApiKey
  <2> QED
    BY <1>y, <2>1, NoRows
<1>7. Agree(m, p, j, k, v, w)
  BY <1>4, <1>5, <1>6, <1>x, <1>y, WithoutRows
<1> QED
  BY <1>7, <1>v, <1>w

LEMMA CreateGoalAgrees ==
  ASSUME NEW m, NEW p, DbInv(m, p), NEW j, NEW k, SameCall(j, k), k.key \in Keys,
         k.id \in DOMAIN m["users"] \/ Orphan(k)
  PROVE  Agree(m, p, j, k, MemCreateGoal(m, j), PgCreateGoal(p, k))
<1>1. /\ j.id = k.id /\ j.key = k.key /\ j.data = k.data /\ k.id \in Nat /\ k.key \in Nat /\ k.data \in Nat
      /\ j.at \in Nat /\ k.at \in Nat
  BY DEF SameCall, Arguments
<1>2. 0 \in Nat /\ NoKey \in Nat
  BY DEF NoKey
<1>3. Parent["goals"] = {"users"}
  BY DEF Parent
<1>4. Agree(m, p, j, k, MemAdd(m, "goals", {<<"users", j.id>>}, {}, NewRow(j.id, j.key, j.data, j.at)),
                Insert(p, "goals", NewRow(k.id, k.key, k.data, k.at)))
  BY <1>1, <1>2, <1>3, FreeRowAgrees
<1> QED
  BY <1>4 DEF MemCreateGoal, PgCreateGoal

LEMMA CreateConversationAgrees ==
  ASSUME NEW m, NEW p, DbInv(m, p), NEW j, NEW k, SameCall(j, k),
         k.id \in DOMAIN m["users"] \/ Orphan(k)
  PROVE  Agree(m, p, j, k, MemCreateConversation(m, j), PgCreateConversation(p, k))
<1>1. /\ j.id = k.id /\ j.key = k.key /\ j.data = k.data /\ k.id \in Nat /\ k.key \in Nat /\ k.data \in Nat
      /\ j.at \in Nat /\ k.at \in Nat
  BY DEF SameCall, Arguments
<1>2. 0 \in Nat /\ NoKey \in Nat
  BY DEF NoKey
<1>3. Parent["conversations"] = {"users"}
  BY DEF Parent
<1>4. Agree(m, p, j, k, MemAdd(m, "conversations", {<<"users", j.id>>}, {}, NewRow(j.id, NoKey, 0, j.at)),
                Insert(p, "conversations", NewRow(k.id, NoKey, 0, k.at)))
  BY <1>1, <1>2, <1>3, FreeRowAgrees
<1> QED
  BY <1>4 DEF MemCreateConversation, PgCreateConversation

LEMMA CreateViolationAgrees ==
  ASSUME NEW m, NEW p, DbInv(m, p), NEW j, NEW k, SameCall(j, k),
         k.id \in DOMAIN m["goals"] \/ Orphan(k)
  PROVE  Agree(m, p, j, k, MemCreateViolation(m, j), PgCreateViolation(p, k))
<1>1. /\ j.id = k.id /\ j.key = k.key /\ j.data = k.data /\ k.id \in Nat /\ k.key \in Nat /\ k.data \in Nat
      /\ j.at \in Nat /\ k.at \in Nat
  BY DEF SameCall, Arguments
<1>2. 0 \in Nat /\ NoKey \in Nat
  BY DEF NoKey
<1>3. Parent["violations"] = {"goals"}
  BY DEF Parent
<1>4. Agree(m, p, j, k, MemAdd(m, "violations", {<<"goals", j.id>>}, {}, NewRow(j.id, NoKey, j.data, j.at)),
                Insert(p, "violations", NewRow(k.id, NoKey, k.data, k.at)))
  BY <1>1, <1>2, <1>3, FreeRowAgrees
<1> QED
  BY <1>4 DEF MemCreateViolation, PgCreateViolation, CreateViolationLocked

LEMMA CreateApiKeyAgrees ==
  ASSUME NEW m, NEW p, DbInv(m, p), NEW j, NEW k, SameCall(j, k), k.key \in Keys,
         k.id \in DOMAIN m["users"] \/ Orphan(k)
  PROVE  Agree(m, p, j, k, MemCreateApiKey(m, j), PgCreateApiKey(p, k))
<1>1. /\ j.id = k.id /\ j.key = k.key /\ j.data = k.data /\ k.id \in Nat /\ k.key \in Nat /\ k.data \in Nat
      /\ j.at \in Nat /\ k.at \in Nat
  BY DEF SameCall, Arguments
<1>2. 0 \in Nat /\ NoKey \in Nat
  BY DEF NoKey
<1>3. Parent["apiKeys"] = {"users"}
  BY DEF Parent
<1>4. Agree(m, p, j, k, MemAdd(m, "apiKeys", {<<"users", j.id>>}, WithKey(m, "apiKeys", j.key), NewRow(j.id, j.key, 0, j.at)),
                Insert(p, "apiKeys", NewRow(k.id, k.key, 0, k.at)))
  BY <1>1, <1>2, <1>3, KeyedRowAgrees
<1> QED
  BY <1>4 DEF MemCreateApiKey, PgCreateApiKey

LEMMA CreateTelegramLinkCodeAgrees ==
  ASSUME NEW m, NEW p, DbInv(m, p), NEW j, NEW k, SameCall(j, k), k.key \in Keys,
         k.id \in DOMAIN m["users"] \/ Orphan(k)
  PROVE  Agree(m, p, j, k, MemCreateTelegramLinkCode(m, j), PgCreateTelegramLinkCode(p, k))
<1>1. /\ j.id = k.id /\ j.key = k.key /\ j.data = k.data /\ k.id \in Nat /\ k.key \in Nat /\ k.data \in Nat
      /\ j.at \in Nat /\ k.at \in Nat
  BY DEF SameCall, Arguments
<1>2. 0 \in Nat /\ NoKey \in Nat
  BY DEF NoKey
<1>3. Parent["codes"] = {"users"}
  BY DEF Parent
<1>4. Agree(m, p, j, k, MemAdd(m, "codes", {<<"users", j.id>>}, WithKey(m, "codes", j.key), NewRow(j.id, j.key, j.data, j.at)),
                Insert(p, "codes", NewRow(k.id, k.key, k.data, k.at)))
  BY <1>1, <1>2, <1>3, KeyedRowAgrees
<1> QED
  BY <1>4 DEF MemCreateTelegramLinkCode, PgCreateTelegramLinkCode

LEMMA UpsertCheckInAgrees ==
  ASSUME NEW m, NEW p, DbInv(m, p), NEW j, NEW k, SameCall(j, k), k.key \in Keys,
         k.id \in DOMAIN m["goals"] \/ Orphan(k)
  PROVE  Agree(m, p, j, k, MemUpsertCheckIn(m, j), PgUpsertCheckIn(p, k))
<1>i. PICK ids : ids = Owned(m, "checkIns", j.id, j.key)
  OBVIOUS
<1>n. PICK new : new = [i \in Owned(p, "checkIns", k.id, k.key) |-> [p.checkIns[i] EXCEPT !.data = k.data]]
  OBVIOUS
<1>1. /\ j.id = k.id /\ j.key = k.key /\ j.data = k.data /\ k.id \in Nat /\ k.key \in Nat /\ k.data \in Nat
      /\ j.at \in Nat /\ k.at \in Nat
  BY DEF SameCall, Arguments
<1>2. "checkIns" \in Tables /\ "goals" \in Tables /\ Parent["checkIns"] = {"goals"}
  BY DEF Tables, Parent
<1>3. DOMAIN new = ids /\ ids \subseteq DOMAIN m["checkIns"] /\ Owned(p, "checkIns", k.id, k.key) = ids
  <2>1. Owned(p, "checkIns", k.id, k.key) = ids
    BY <1>i, <1>1, <1>2, SameSets DEF DbInv
  <2> QED
    BY <1>i, <1>n, <2>1 DEF Owned, WithKey
<1>4. CASE ids = {}
  <2>1. Owned(m, "checkIns", k.id, k.key) = {}
    BY <1>i, <1>1, <1>4
  <2>2. Agree(m, p, j, k, MemAdd(m, "checkIns", {<<"goals", k.id>>}, {}, NewRow(k.id, k.key, k.data, j.at)),
                Insert(p, "checkIns", NewRow(k.id, k.key, k.data, k.at)))
    BY <1>1, <1>2, <2>1, FirstRowAgrees
  <2>3. MemUpsertCheckIn(m, j) = MemAdd(m, "checkIns", {<<"goals", k.id>>}, {}, NewRow(k.id, k.key, k.data, j.at))
    BY <1>i, <1>1, <1>4 DEF MemUpsertCheckIn
  <2>4. PgUpsertCheckIn(p, k) = Insert(p, "checkIns", NewRow(k.id, k.key, k.data, k.at))
    BY <1>n, <1>3, <1>4 DEF PgUpsertCheckIn, Upsert
  <2> QED
    BY <2>2, <2>3, <2>4
<1>5. CASE ids # {}
  <2>r. PICK r : r = [m.checkIns[Only(ids)] EXCEPT !.data = j.data]
    OBVIOUS
  <2>1. ASSUME NEW i \in ids, i = Only(ids)
        PROVE  Edits(m, p, "checkIns", i, r, new[i])
    <3>1. new[i] = [p["checkIns"][i] EXCEPT !.data = k.data]
      BY <1>n, <1>3
    <3>2. Edits(m, p, "checkIns", i, [m["checkIns"][i] EXCEPT !.data = k.data], [p["checkIns"][i] EXCEPT !.data = k.data])
      BY <1>1, <1>2, <1>3, DataEdits
    <3> QED
      BY <1>1, <2>r, <2>1, <3>1, <3>2
  <2>2. Agree(m, p, j, k, MemSet(m, "checkIns", ids, r), Update(p, "checkIns", new))
    BY <1>2, <1>3, <2>1, EditBoth
  <2>3. j.id \in DOMAIN m["goals"]
    <3>1. PICK i \in DOMAIN m["checkIns"] : m["checkIns"][i].owner = j.id
      BY <1>i, <1>5 DEF Owned, WithKey
    <3>2. Referenced(m, "checkIns", m["checkIns"][i])
      BY <1>2, <3>1 DEF DbInv, Constrained
    <3> QED
      BY <1>2, <3>1, <3>2 DEF Referenced
  <2>4. MemUpsertCheckIn(m, j) = MemSet(m, "checkIns", ids, r)
    BY <1>i, <1>5, <2>r, <2>3 DEF MemUpsertCheckIn
  <2>5. PgUpsertCheckIn(p, k) = Update(p, "checkIns", new)
    BY <1>n, <1>3, <1>5 DEF PgUpsertCheckIn, Upsert
  <2> QED
    BY <2>2, <2>4, <2>5
<1> QED
  BY <1>4, <1>5

LEMMA UpsertWalletApprovalAgrees ==
  ASSUME NEW m, NEW p, DbInv(m, p), NEW j, NEW k, SameCall(j, k), k.key \in Keys,
         k.id \in DOMAIN m["users"] \/ Orphan(k)
  PROVE  Agree(m, p, j, k, MemUpsertWalletApproval(m, j), PgUpsertWalletApproval(p, k))
<1>i. PICK ids : ids = Owned(m, "approvals", j.id, j.key)
  OBVIOUS
<1>n. PICK new : new = [i \in Owned(p, "approvals", k.id, k.key) |-> [p.approvals[i] EXCEPT !.data = k.data]]
  OBVIOUS
<1>1. /\ j.id = k.id /\ j.key = k.key /\ j.data = k.data /\ k.id \in Nat /\ k.key \in Nat /\ k.data \in Nat
      /\ j.at \in Nat /\ k.at \in Nat
  BY DEF SameCall, Arguments
<1>2. "approvals" \in Tables /\ "users" \in Tables /\ Parent["approvals"] = {"users"}
  BY DEF Tables, Parent
<1>3. DOMAIN new = ids /\ ids \subseteq DOMAIN m["approvals"] /\ Owned(p, "approvals", k.id, k.key) = ids
  <2>1. Owned(p, "approvals", k.id, k.key) = ids
    BY <1>i, <1>1, <1>2, SameSets DEF DbInv
  <2> QED
    BY <1>i, <1>n, <2>1 DEF Owned, WithKey
<1>4. CASE ids = {}
  <2>1. Owned(m, "approvals", k.id, k.key) = {}
    BY <1>i, <1>1, <1>4
  <2>2. Agree(m, p, j, k, MemAdd(m, "approvals", {<<"users", k.id>>}, {}, NewRow(k.id, k.key, k.data, j.at)),
                Insert(p, "approvals", NewRow(k.id, k.key, k.data, k.at)))
    BY <1>1, <1>2, <2>1, FirstRowAgrees
  <2>3. MemUpsertWalletApproval(m, j) = MemAdd(m, "approvals", {<<"users", k.id>>}, {}, NewRow(k.id, k.key, k.data, j.at))
    BY <1>i, <1>1, <1>4 DEF MemUpsertWalletApproval
  <2>4. PgUpsertWalletApproval(p, k) = Insert(p, "approvals", NewRow(k.id, k.key, k.data, k.at))
    BY <1>n, <1>3, <1>4 DEF PgUpsertWalletApproval, Upsert
  <2> QED
    BY <2>2, <2>3, <2>4
<1>5. CASE ids # {}
  <2>r. PICK r : r = [m.approvals[Only(ids)] EXCEPT !.data = j.data]
    OBVIOUS
  <2>1. ASSUME NEW i \in ids, i = Only(ids)
        PROVE  Edits(m, p, "approvals", i, r, new[i])
    <3>1. new[i] = [p["approvals"][i] EXCEPT !.data = k.data]
      BY <1>n, <1>3
    <3>2. Edits(m, p, "approvals", i, [m["approvals"][i] EXCEPT !.data = k.data], [p["approvals"][i] EXCEPT !.data = k.data])
      BY <1>1, <1>2, <1>3, DataEdits
    <3> QED
      BY <1>1, <2>r, <2>1, <3>1, <3>2
  <2>2. Agree(m, p, j, k, MemSet(m, "approvals", ids, r), Update(p, "approvals", new))
    BY <1>2, <1>3, <2>1, EditBoth
  <2>3. j.id \in DOMAIN m["users"]
    <3>1. PICK i \in DOMAIN m["approvals"] : m["approvals"][i].owner = j.id
      BY <1>i, <1>5 DEF Owned, WithKey
    <3>2. Referenced(m, "approvals", m["approvals"][i])
      BY <1>2, <3>1 DEF DbInv, Constrained
    <3> QED
      BY <1>2, <3>1, <3>2 DEF Referenced
  <2>4. MemUpsertWalletApproval(m, j) = MemSet(m, "approvals", ids, r)
    BY <1>i, <1>5, <2>r, <2>3 DEF MemUpsertWalletApproval
  <2>5. PgUpsertWalletApproval(p, k) = Update(p, "approvals", new)
    BY <1>n, <1>3, <1>5 DEF PgUpsertWalletApproval, Upsert
  <2> QED
    BY <2>2, <2>4, <2>5
<1> QED
  BY <1>4, <1>5

\* The chat changes hands, unless the new owner does not exist.
LEMMA UpsertTelegramLinkAgrees ==
  ASSUME NEW m, NEW p, DbInv(m, p), NEW j, NEW k, SameCall(j, k), k.key \in Keys,
         k.id \in DOMAIN m["users"] \/ Orphan(k)
  PROVE  Agree(m, p, j, k, MemUpsertTelegramLink(m, j), PgUpsertTelegramLink(p, k))
<1>i. PICK ids : ids = WithKey(m, "chats", j.key)
  OBVIOUS
<1>n. PICK new : new = [i \in WithKey(p, "chats", k.key) |->
                          [p.chats[i] EXCEPT !.owner = k.id, !.data = k.data]]
  OBVIOUS
<1>1. /\ j.id = k.id /\ j.key = k.key /\ j.data = k.data /\ k.id \in Nat /\ k.key \in Nat /\ k.data \in Nat
      /\ j.at \in Nat /\ k.at \in Nat
  BY DEF SameCall, Arguments
<1>2. "chats" \in Tables /\ "users" \in Tables /\ Parent["chats"] = {"users"}
  BY DEF Tables, Parent
<1>3. DOMAIN new = ids /\ ids \subseteq DOMAIN m["chats"] /\ WithKey(p, "chats", k.key) = ids
  <2>1. WithKey(p, "chats", k.key) = ids
    BY <1>i, <1>1, <1>2, SameSets DEF DbInv
  <2> QED
    BY <1>i, <1>n, <2>1 DEF WithKey
<1>4. CASE ids = {}
  <2>1. Agree(m, p, j, k, MemAdd(m, "chats", {<<"users", k.id>>}, WithKey(m, "chats", k.key),
                       NewRow(k.id, k.key, k.data, j.at)),
                Insert(p, "chats", NewRow(k.id, k.key, k.data, k.at)))
    BY <1>1, KeyedRowAgrees
  <2>2. MemUpsertTelegramLink(m, j)
          = MemAdd(m, "chats", {<<"users", k.id>>}, {}, NewRow(k.id, k.key, k.data, j.at))
    BY <1>i, <1>1, <1>4 DEF MemUpsertTelegramLink
  <2>3. PgUpsertTelegramLink(p, k) = Insert(p, "chats", NewRow(k.id, k.key, k.data, k.at))
    BY <1>n, <1>3, <1>4 DEF PgUpsertTelegramLink, Upsert
  <2>4. WithKey(m, "chats", k.key) = {}
    BY <1>i, <1>1, <1>4
  <2> QED
    BY <2>1, <2>2, <2>3, <2>4
<1>5. CASE ids # {} /\ j.id \in DOMAIN m["users"]
  <2>r. PICK r : r = [m.chats[Only(ids)] EXCEPT !.owner = j.id, !.data = j.data]
    OBVIOUS
  <2>1. ASSUME NEW i \in ids, i = Only(ids)
        PROVE  Edits(m, p, "chats", i, r, new[i])
    <3>1. new[i] = [p["chats"][i] EXCEPT !.owner = k.id, !.data = k.data]
      BY <1>n, <1>3
    <3>2. Edits(m, p, "chats", i, [m["chats"][i] EXCEPT !.owner = k.id, !.data = k.data],
                                  [p["chats"][i] EXCEPT !.owner = k.id, !.data = k.data])
      BY <1>1, <1>2, <1>3, <1>5, ChatEdits
    <3> QED
      BY <1>1, <2>r, <2>1, <3>1, <3>2
  <2>2. Agree(m, p, j, k, MemSet(m, "chats", ids, r), Update(p, "chats", new))
    BY <1>2, <1>3, <2>1, EditBoth
  <2>3. MemUpsertTelegramLink(m, j) = MemSet(m, "chats", ids, r)
    BY <1>i, <1>5, <2>r DEF MemUpsertTelegramLink
  <2>4. PgUpsertTelegramLink(p, k) = Update(p, "chats", new)
    BY <1>n, <1>3, <1>5 DEF PgUpsertTelegramLink, Upsert
  <2> QED
    BY <2>2, <2>3, <2>4
<1>6. CASE ids # {} /\ j.id \notin DOMAIN m["users"]
  <2>1. MemUpsertTelegramLink(m, j) = Refuse(m, "not found")
    BY <1>i, <1>6 DEF MemUpsertTelegramLink, MemAdd
  <2>2. PICK i : i = Only(ids)
    OBVIOUS
  <2>3. i \in ids /\ i \in DOMAIN p["chats"]
    BY <1>2, <1>3, <1>6, <2>2, OnlyIn, SameParts DEF DbInv
  <2>4. new[i] = [p["chats"][i] EXCEPT !.owner = k.id, !.data = k.data]
    BY <1>n, <1>3, <2>3
  <2>5. p["chats"][i] \in Row
    BY <1>2, <2>3, RowTypes DEF DbInv
  <2>6. new[i].owner = k.id
    BY <2>4, <2>5 DEF Row
  <2>7. k.id \notin DOMAIN p["users"]
    BY <1>1, <1>2, <1>6, SameParts DEF DbInv
  <2>8. ~Referenced(p, "chats", new[i])
    BY <1>2, <2>6, <2>7 DEF Referenced
  <2>9. Update(p, "chats", new) = Refuse(p, "error")
    BY <1>3, <1>6, <2>2, <2>8 DEF Update
  <2>10. PgUpsertTelegramLink(p, k) = Update(p, "chats", new)
    BY <1>n, <1>3, <1>6 DEF PgUpsertTelegramLink, Upsert
  <2>11. Orphan(k)
    BY <1>1, <1>6
  <2> QED
    BY <2>1, <2>9, <2>10, <2>11, RefuseBoth
<1> QED
  BY <1>4, <1>5, <1>6

LEMMA ConsumeTelegramLinkCodeAgrees ==
  ASSUME NEW m, NEW p, DbInv(m, p), NEW j, NEW k, SameCall(j, k)
  PROVE  Agree(m, p, j, k, MemConsumeTelegramLinkCode(m, j), PgConsumeTelegramLinkCode(p, k))
<1>i. PICK ids : ids = {i \in WithKey(m, "codes", j.key) : ~m.codes[i].done /\ m.codes[i].data > j.data}
  OBVIOUS
<1>v. PICK valid : valid = {i \in WithKey(p, "codes", k.key) : ~p.codes[i].done /\ p.codes[i].data > k.data}
  OBVIOUS
<1>n. PICK new : new = [i \in valid |-> [p.codes[i] EXCEPT !.done = TRUE]]
  OBVIOUS
<1>r. PICK r : r = [m.codes[Only(ids)] EXCEPT !.done = TRUE]
  OBVIOUS
<1>1. j.key = k.key /\ j.data = k.data /\ "codes" \in Tables
  BY DEF SameCall, Tables
<1>2. ids \subseteq DOMAIN m["codes"] /\ valid = ids
  <2>1. \A i \in DOMAIN m["codes"] : m.codes[i].done = p.codes[i].done /\ m.codes[i].data = p.codes[i].data
    BY <1>1, SameParts DEF DbInv
  <2>2. WithKey(m, "codes", j.key) = WithKey(p, "codes", k.key) /\ WithKey(m, "codes", j.key) \subseteq DOMAIN m["codes"]
    BY <1>1, SameSets DEF DbInv, WithKey
  <2> QED
    BY <1>i, <1>v, <1>1, <2>1, <2>2
<1>3. DOMAIN new = ids
  BY <1>n, <1>2
<1>4. ASSUME NEW i \in ids, i = Only(ids)
      PROVE  Edits(m, p, "codes", i, r, new[i])
  <2>1. new[i] = [p["codes"][i] EXCEPT !.done = TRUE]
    BY <1>n, <1>2
  <2>2. Edits(m, p, "codes", i, [m["codes"][i] EXCEPT !.done = TRUE], [p["codes"][i] EXCEPT !.done = TRUE])
    BY <1>1, <1>2, DoneEdits
  <2> QED
    BY <1>r, <1>4, <2>1, <2>2
<1>5. Agree(m, p, j, k, MemSet(m, "codes", ids, r), Update(p, "codes", new))
  BY <1>1, <1>2, <1>3, <1>4, EditBoth
<1>6. MemConsumeTelegramLinkCode(m, j) = MemSet(m, "codes", ids, r)
  BY <1>i, <1>r DEF MemConsumeTelegramLinkCode
<1>7. PgConsumeTelegramLinkCode(p, k) = Update(p, "codes", new)
  BY <1>v, <1>n DEF PgConsumeTelegramLinkCode
<1> QED
  BY <1>5, <1>6, <1>7

\* The statement that revokes nothing because the key is revoked, or is not there.
LEMMA RevokedAlready ==
  ASSUME NEW m, NEW p, DbInv(m, p), NEW j, NEW k, SameCall(j, k), k.step # 1,
         \A i \in Having(p, "apiKeys", k.id) : p.apiKeys[i].done
  PROVE  Agree(m, p, j, k, MemRevokeApiKey(m, j), PgRevokeApiKey(p, k))
<1>1. j.id = k.id /\ "apiKeys" \in Tables
  BY DEF SameCall, Tables
<1>x. PICK x : x = MemRevokeApiKey(m, j)
  OBVIOUS
<1>y. PICK y : y = PgRevokeApiKey(p, k)
  OBVIOUS
<1>o. PICK out : out = SelectOne(p, "apiKeys", Having(p, "apiKeys", k.id))
  OBVIOUS
<1>2. y.db = out.db /\ y.why = out.why /\ y.rows = <<>>
  <2>1. y = [out EXCEPT !.rows = <<>>]
    BY <1>o, <1>y DEF PgRevokeApiKey
  <2>2. out = [db |-> out.db, why |-> out.why, rows |-> out.rows]
    BY <1>o DEF SelectOne, Refuse, Answer
  <2> QED
    BY <2>1, <2>2
<1>3. CASE j.id \notin DOMAIN m["apiKeys"]
  <2>1. Having(p, "apiKeys", k.id) = {}
    BY <1>1, <1>3, SameParts DEF DbInv, Having
  <2>2. out = Refuse(p, "not found")
    BY <1>o, <2>1 DEF SelectOne
  <2>3. x = Refuse(m, "not found")
    BY <1>x, <1>3 DEF MemRevokeApiKey
  <2>4. x.db = m /\ x.why = "not found" /\ x.rows = <<>> /\ out.db = p /\ out.why = "not found"
    BY <2>2, <2>3, Refusal
  <2>5. SameRefusal(k, x, y) /\ Shown(x, y)
    BY <1>2, <2>4 DEF SameRefusal, Shown
  <2> QED
    BY <1>2, <1>x, <1>y, <2>4, <2>5, ReadBoth
<1>4. CASE j.id \in DOMAIN m["apiKeys"]
  <2>1. j.id \in Having(p, "apiKeys", k.id)
    BY <1>1, <1>4, HavingRow DEF Having
  <2>2. p["apiKeys"][j.id].done
    BY <1>1, <2>1
  <2>a. PICK a : a = m["apiKeys"][j.id]
    OBVIOUS
  <2>3. a \in Row /\ a.done = TRUE
    <3>1. p["apiKeys"][j.id].done \in BOOLEAN
      BY <1>1, <1>4, OldRows DEF Row
    <3> QED
      BY <1>1, <1>4, <2>2, <2>a, <3>1, OldRows
  <2>4. [a EXCEPT !.done = TRUE] = a
    BY <2>3 DEF Row
  <2>5. x = Done(Replace(m, "apiKeys", j.id, [a EXCEPT !.done = TRUE]))
    BY <1>4, <1>x, <2>a DEF MemRevokeApiKey, Replace
  <2>6. Replace(m, "apiKeys", j.id, a) = m
    <3>1. [m["apiKeys"] EXCEPT ![j.id] = a] = m["apiKeys"]
      BY <1>1, <1>4, <2>a, RowTypes DEF DbInv
    <3>2. [m EXCEPT !["apiKeys"] = m["apiKeys"]] = m
      BY DEF DbInv, DbType
    <3>3. [m EXCEPT !["apiKeys"][j.id] = a] = [m EXCEPT !["apiKeys"] = [m["apiKeys"] EXCEPT ![j.id] = a]]
      OBVIOUS
    <3> QED
      BY <3>1, <3>2, <3>3 DEF Replace
  <2>7. x.db = m /\ x.why = "none" /\ x.rows = <<>>
    BY <2>4, <2>5, <2>6, NoRow
  <2>i. PICK i : i = Only(Having(p, "apiKeys", k.id))
    OBVIOUS
  <2>8. out = Answer(p, "apiKeys", <<i>>)
    BY <1>o, <2>1, <2>i DEF SelectOne
  <2>9. out.db = p /\ out.why = "none" /\ out.rows = <<[of |-> "apiKeys", id |-> i, row |-> p["apiKeys"][i]]>>
    BY <2>8, OneRow
  <2>10. SameRefusal(k, x, y) /\ Shown(x, y)
    BY <1>2, <2>7, <2>9 DEF SameRefusal, Shown
  <2> QED
    BY <1>2, <1>x, <1>y, <2>7, <2>9, <2>10, ReadBoth
<1> QED
  BY <1>3, <1>4

\* Nobody has reported the slip: both do, under the dedupe key.
LEMMA ViolationCreated ==
  ASSUME NEW m, NEW p, DbInv(m, p), NEW j, NEW k, SameCall(j, k), k.key \in Keys, k.step = 1,
         Owned(p, "violations", k.id, k.key) = {}, k.id \in DOMAIN m["goals"] \/ Orphan(k)
  PROVE  Agree(m, p, j, k, MemCreateViolationIfAbsent(m, j), PgCreateViolationIfAbsent(p, k))
<1>1. /\ j.id = k.id /\ j.key = k.key /\ j.data = k.data /\ k.id \in Nat /\ k.key \in Nat /\ k.data \in Nat
      /\ j.at \in Nat /\ k.at \in Nat /\ k.key # NoKey
  BY RowsAssumption DEF SameCall, Arguments, NoKey
<1>2. "violations" \in Tables /\ "violations" \notin KeyedTables /\ Parent["violations"] = {"goals"}
      /\ DbType(m) /\ DbType(p) /\ SameDb(m, p)
  BY DEF Tables, KeyedTables, Parent, DbInv
<1>e. PICK empty : empty = NewRow(k.id, NoKey, k.data, j.at)
  OBVIOUS
<1>r. PICK r : r = NewRow(k.id, k.key, k.data, j.at)
  OBVIOUS
<1>q. PICK q : q = NewRow(k.id, k.key, k.data, k.at)
  OBVIOUS
<1>3. r \in Row /\ q \in Row /\ SameRow(r, q) /\ empty \in Row
  <2>1. NoKey \in Nat
    BY DEF NoKey
  <2> QED
    BY <1>e, <1>r, <1>q, <1>1, <2>1, NewRows
<1>4. r.owner = k.id /\ r.key = k.key /\ [empty EXCEPT !.key = k.key] = r
  <2>1. r.owner = k.id /\ r.key = k.key
    BY <1>r DEF NewRow
  <2>2. [empty EXCEPT !.key = k.key] \in Row
    BY <1>1, <1>3 DEF Row
  <2>3. /\ r.data = k.data /\ r.ref = 0 /\ r.done = FALSE /\ r.at = j.at
        /\ empty.owner = k.id /\ empty.data = k.data /\ empty.ref = 0 /\ empty.done = FALSE /\ empty.at = j.at
    BY <1>e, <1>r DEF NewRow
  <2>x. PICK x : x = [empty EXCEPT !.key = k.key]
    OBVIOUS
  <2>y. /\ x.owner = empty.owner /\ x.key = k.key /\ x.data = empty.data /\ x.ref = empty.ref
        /\ x.done = empty.done /\ x.at = empty.at
    BY <1>3, <2>x DEF Row
  <2>4. [empty EXCEPT !.key = k.key] = r
    BY <1>3, <2>1, <2>2, <2>3, <2>x, <2>y, RowEqual
  <2> QED
    BY <2>1, <2>4
<1>5. Owned(m, "violations", k.id, k.key) = {}
  BY <1>2, SameSets
<1>6. Clash(m, "violations", r) = {}
  BY <1>1, <1>4, <1>5 DEF Clash
<1>7. Referenced(m, "violations", r) <=> k.id \in DOMAIN m["goals"]
  BY <1>2, <1>4 DEF Referenced
<1>0. r.at = j.at /\ q.at = k.at
  BY <1>r, <1>q DEF NewRow
<1>8. Agree(m, p, j, k, MemAdd(m, "violations", {<<"goals", k.id>>}, {}, r), Insert(p, "violations", q))
  <2>1. (\A x \in {<<"goals", k.id>>} : x[2] \in DOMAIN m[x[1]]) <=> Referenced(m, "violations", r)
    BY <1>7
  <2> QED
    BY <1>0, <1>2, <1>3, <1>6, <1>7, <2>1, AddBoth
<1>9. PgCreateViolationIfAbsent(p, k) = Insert(p, "violations", q)
  BY <1>q DEF PgCreateViolationIfAbsent
<1>10. MemCreateViolationIfAbsent(m, j) = MemAdd(m, "violations", {<<"goals", k.id>>}, {}, r)
  <2>o. PICK out : out = CreateViolationLocked(m, j)
    OBVIOUS
  <2>1. out = MemAdd(m, "violations", {<<"goals", k.id>>}, {}, empty)
    BY <1>e, <1>1, <2>o DEF CreateViolationLocked
  <2>2. CASE k.id \notin DOMAIN m["goals"]
    <3>1. out = Refuse(m, "not found") /\ out.why # "none"
      BY <2>1, <2>2 DEF MemAdd, Refuse
    <3>2. MemCreateViolationIfAbsent(m, j) = out
      BY <1>1, <2>o, <2>2, <3>1 DEF MemCreateViolationIfAbsent
    <3>3. MemAdd(m, "violations", {<<"goals", k.id>>}, {}, r) = Refuse(m, "not found")
      BY <2>2 DEF MemAdd
    <3> QED
      BY <3>1, <3>2, <3>3
  <2>3. CASE k.id \in DOMAIN m["goals"]
    <3>1. out.db = Put(m, "violations", empty) /\ out.why = "none"
      BY <2>1, <2>3 DEF MemAdd, Answer, Put
    <3>n. PICK new : new = Len(m["violations"]) + 1
      OBVIOUS
    <3>2. MemAdd(m, "violations", {<<"goals", k.id>>}, {}, r) = Answer(Put(m, "violations", r), "violations", <<new>>)
      <4>1. MemAdd(m, "violations", {<<"goals", k.id>>}, {}, r)
              = Answer(Put(m, "violations", r), "violations", <<Len(Put(m, "violations", r)["violations"])>>)
        BY <2>3 DEF MemAdd, Put
      <4>2. Len(Put(m, "violations", r)["violations"]) = new
        BY <1>2, <1>3, <3>n, PutParts
      <4> QED
        BY <4>1, <4>2
    <3>3. MemCreateViolationIfAbsent(m, j)
            = Answer([Put(m, "violations", empty) EXCEPT !["violations"][new].key = k.key], "violations", <<new>>)
      BY <1>1, <1>5, <2>o, <2>3, <3>1, <3>n DEF MemCreateViolationIfAbsent
    <3>4. [Append(m["violations"], empty) EXCEPT ![new].key = k.key] = Append(m["violations"], r)
      <4>1. m["violations"] \in Seq(Row) /\ Len(m["violations"]) \in Nat
        BY <1>2, RowTypes
      <4>2. Append(m["violations"], empty)[new] = empty
        BY <1>3, <3>n, <4>1
      <4>a. PICK a : a = [Append(m["violations"], empty) EXCEPT ![new] = r]
        OBVIOUS
      <4>b. PICK b : b = Append(m["violations"], r)
        OBVIOUS
      <4>3. a \in Seq(Row) /\ b \in Seq(Row) /\ Len(a) = new /\ Len(b) = new
        BY <1>3, <3>n, <4>1, <4>a, <4>b
      <4>4. ASSUME NEW i \in 1 .. new PROVE a[i] = b[i]
        <5>1. i \in 1 .. Len(m["violations"]) \/ i = new
          BY <3>n, <4>1
        <5>2. CASE i = new
          BY <1>3, <3>n, <4>1, <4>a, <4>b, <5>2
        <5>3. CASE i \in 1 .. Len(m["violations"])
          <6>1. Append(m["violations"], empty)[i] = m["violations"][i] /\ b[i] = m["violations"][i]
            BY <1>3, <4>1, <4>b, <5>3
          <6>2. a[i] = Append(m["violations"], empty)[i]
            <7>1. i # new
              BY <3>n, <4>1, <5>3
            <7>2. DOMAIN Append(m["violations"], empty) = 1 .. new
              BY <1>3, <3>n, <4>1
            <7> QED
              BY <4>a, <7>1, <7>2
          <6> QED
            BY <6>1, <6>2
        <5> QED
          BY <5>1, <5>2, <5>3
      <4>5. a = b
        BY <4>3, <4>4, SeqEqual
      <4>6. [Append(m["violations"], empty) EXCEPT ![new] = r] = Append(m["violations"], r)
        BY <4>5, <4>a, <4>b
      <4> QED
        BY <1>4, <4>2, <4>6
    <3>5. Put(m, "violations", empty)["violations"] = Append(m["violations"], empty)
      BY <1>2 DEF Put, DbType
    <3>6. [Put(m, "violations", empty) EXCEPT !["violations"][new].key = k.key]
            = [Put(m, "violations", empty) EXCEPT !["violations"] = Append(m["violations"], r)]
      BY <3>4, <3>5
    <3>7. [Put(m, "violations", empty) EXCEPT !["violations"] = Append(m["violations"], r)] = Put(m, "violations", r)
      BY <1>2 DEF Put, DbType
    <3> QED
      BY <3>2, <3>3, <3>6, <3>7
  <2> QED
    BY <2>2, <2>3
<1> QED
  BY <1>8, <1>9, <1>10

\* Somebody has: both return that row.
LEMMA ViolationFound ==
  ASSUME NEW m, NEW p, DbInv(m, p), NEW j, NEW k, SameCall(j, k), k.step # 1,
         Owned(p, "violations", k.id, k.key) # {}
  PROVE  Agree(m, p, j, k, MemCreateViolationIfAbsent(m, j), PgCreateViolationIfAbsent(p, k))
<1>1. j.id = k.id /\ j.key = k.key /\ "violations" \in Tables
  BY DEF SameCall, Tables
<1>2. Owned(m, "violations", j.id, j.key) # {}
  BY <1>1, SameSets DEF DbInv
<1>3. j.id \in DOMAIN m["goals"]
  <2>1. PICK i \in DOMAIN m["violations"] : m["violations"][i].owner = j.id
    BY <1>2 DEF Owned, WithKey
  <2>2. Referenced(m, "violations", m["violations"][i])
    BY <1>1, <2>1 DEF DbInv, Constrained
  <2> QED
    BY <2>1, <2>2 DEF Referenced, Parent
<1>n. PICK n : n = Only(Owned(m, "violations", j.id, j.key))
  OBVIOUS
<1>x. PICK x : x = MemCreateViolationIfAbsent(m, j)
  OBVIOUS
<1>y. PICK y : y = PgCreateViolationIfAbsent(p, k)
  OBVIOUS
<1>4. n \in DOMAIN m["violations"]
  BY <1>n, <1>2, OnlyIn DEF Owned, WithKey
<1>5. x = Answer(m, "violations", <<n>>)
  BY <1>n, <1>x, <1>2, <1>3 DEF MemCreateViolationIfAbsent
<1>6. y = Answer(p, "violations", <<n>>)
  <2>1. Owned(p, "violations", k.id, k.key) = Owned(m, "violations", j.id, j.key)
    BY <1>1, SameSets DEF DbInv
  <2> QED
    BY <1>n, <1>y, <1>2, <2>1 DEF PgCreateViolationIfAbsent, SelectOne
<1>7. x.db = m /\ x.why = "none" /\ x.rows = <<[of |-> "violations", id |-> n, row |-> m["violations"][n]]>>
  BY <1>5, OneRow
<1>8. y.db = p /\ y.why = "none" /\ y.rows = <<[of |-> "violations", id |-> n, row |-> p["violations"][n]]>>
  BY <1>6, OneRow
<1>9. SameRefusal(k, x, y) /\ Shown(x, y)
  BY <1>1, <1>4, <1>7, <1>8 DEF SameRefusal, Shown
<1> QED
  BY <1>x, <1>y, <1>7, <1>8, <1>9, ReadBoth

\* The conversation, and the outcome of the insert, once the message has touched it.
TouchedBy(db, id, n) == [db["conversations"][id] EXCEPT !.data = n]
Touching(out, id) == [out EXCEPT !.db.conversations[id].data = Len(out.db.messages)]

\* A conversation is set to be touched by the last message.
LEMMA TouchKept ==
  ASSUME NEW m, NEW p, DbInv(m, p), NEW id, id \in DOMAIN m["conversations"],
         NEW n, n = Len(m["messages"])
  PROVE  Kept(p, Replace(m, "conversations", id, TouchedBy(m, id, n)),
                 Replace(p, "conversations", id, TouchedBy(p, id, n)))
<1>r. PICK r : r = TouchedBy(m, id, n)
  OBVIOUS
<1>q. PICK q : q = TouchedBy(p, id, n)
  OBVIOUS
<1>a. PICK a : a = m["conversations"][id]
  OBVIOUS
<1>b. PICK b : b = p["conversations"][id]
  OBVIOUS
<1>1. "conversations" \in Tables /\ "messages" \in Tables /\ DbType(m) /\ DbType(p) /\ n \in Nat
  BY RowTypes DEF Tables, DbInv
<1>2. /\ a \in Row /\ b \in Row /\ a.owner = b.owner /\ a.key = b.key /\ a.data = b.data
      /\ a.ref = b.ref /\ a.done = b.done /\ id \in DOMAIN p["conversations"]
  BY <1>a, <1>b, <1>1, OldRows, SameParts DEF DbInv
<1>3. /\ r \in Row /\ r.owner = a.owner /\ r.key = a.key /\ r.data = n /\ r.ref = a.ref
      /\ r.done = a.done
  BY <1>a, <1>r, <1>1, <1>2 DEF Row, TouchedBy
<1>4. /\ q \in Row /\ q.owner = b.owner /\ q.key = b.key /\ q.data = n /\ q.ref = b.ref
      /\ q.done = b.done /\ q.at = b.at
  BY <1>b, <1>q, <1>1, <1>2 DEF Row, TouchedBy
<1>5. SameRow(r, q)
  BY <1>2, <1>3, <1>4, RowParts
<1>6. Replaces(m, "conversations", m["conversations"][id], r)
  BY <1>a, <1>1, <1>3 DEF Replaces
<1>7. DbInv(Replace(m, "conversations", id, r), Replace(p, "conversations", id, q))
  BY <1>1, <1>3, <1>4, <1>5, <1>6, ReplaceKeeps
<1>8. b.data <= n
  BY <1>a, <1>2 DEF DbInv, Touched
<1>9. StaysRow("conversations", b, q)
  <2>1. b.data \in Nat
    BY <1>2 DEF Row
  <2> QED
    BY <1>1, <1>4, <1>8, <2>1 DEF StaysRow
<1>10. Stays(p, Replace(p, "conversations", id, q))
  BY <1>b, <1>1, <1>2, <1>4, <1>9, ReplaceStays
<1> QED
  BY <1>r, <1>q, <1>7, <1>10 DEF Kept

LEMMA TouchingParts ==
  ASSUME NEW db, NEW n, n = Len(db["messages"]), NEW id, NEW row, row = TouchedBy(db, id, n),
         NEW out, out = Answer(db, "messages", <<n>>), NEW x, x = Touching(out, id)
  PROVE  /\ x.db = Replace(db, "conversations", id, row) /\ x.why = "none"
         /\ x.rows = <<[of |-> "messages", id |-> n, row |-> db["messages"][n]]>>
<1>1. out.db = db /\ out.why = "none" /\ out.rows = <<[of |-> "messages", id |-> n, row |-> db["messages"][n]]>>
  BY OneRow
<1>r. PICK rows : rows = out.rows
  OBVIOUS
<1>2. out = [db |-> db, why |-> "none", rows |-> rows]
  BY <1>1, <1>r DEF Answer
<1>3. x.db = [db EXCEPT !["conversations"][id].data = n] /\ x.why = "none" /\ x.rows = rows
  BY <1>2 DEF Touching
<1>4. x.db = Replace(db, "conversations", id, row)
  BY <1>3 DEF Replace, TouchedBy
<1> QED
  BY <1>1, <1>r, <1>3, <1>4

LEMMA TouchedRow ==
  ASSUME NEW db, DbType(db), NEW id, id \in DOMAIN db["conversations"], NEW n \in Nat, NEW row,
         row = TouchedBy(db, id, n)
  PROVE  row \in Row /\ row.at = db["conversations"][id].at
<1>1. "conversations" \in Tables
  BY DEF Tables
<1>a. PICK a : a = db["conversations"][id]
  OBVIOUS
<1>2. a \in Row
  BY <1>1, <1>a, RowTypes
<1>3. row = [a EXCEPT !.data = n]
  BY <1>a DEF TouchedBy
<1>4. row \in Row /\ row.at = a.at
  BY <1>2, <1>3 DEF Row
<1> QED
  BY <1>a, <1>4

\* The same positions have rows.
Same(db, after) == \A t \in Tables : DOMAIN after[t] = DOMAIN db[t]

LEMMA StampedTwice ==
  ASSUME NEW a, NEW b, NEW c, NEW now, Stamped(a, b, now), Stamped(b, c, now), Same(b, c)
  PROVE  Stamped(a, c, now)
<1>1. ASSUME NEW t \in Tables, NEW i \in DOMAIN c[t]
      PROVE  c[t][i].at = IF i \in DOMAIN a[t] THEN a[t][i].at ELSE now
  <2>1. i \in DOMAIN b[t]
    BY DEF Same
  <2>2. c[t][i].at = b[t][i].at
    BY <2>1 DEF Stamped
  <2> QED
    BY <2>1, <2>2 DEF Stamped
<1> QED
  BY <1>1 DEF Stamped

LEMMA AppendMessageAgrees ==
  ASSUME NEW m, NEW p, DbInv(m, p), NEW j, NEW k, SameCall(j, k), k.step # 1,
         k.id \in DOMAIN p["conversations"]
  PROVE  Agree(m, p, j, k, MemAppendMessage(m, j), PgAppendMessage(p, k))
<1>1. /\ j.id = k.id /\ j.data = k.data /\ k.id \in Nat /\ k.data \in Nat
      /\ j.at \in Nat /\ k.at \in Nat /\ NoKey \in Nat
  BY DEF SameCall, Arguments, NoKey
<1>2. "conversations" \in Tables /\ "messages" \in Tables /\ Parent["messages"] = {"conversations"}
      /\ "messages" \notin KeyedTables /\ DbType(m) /\ DbType(p) /\ SameDb(m, p)
  BY DEF Tables, KeyedTables, Parent, DbInv
<1>r. PICK r : r = NewRow(k.id, NoKey, k.data, j.at)
  OBVIOUS
<1>q. PICK q : q = NewRow(k.id, NoKey, k.data, k.at)
  OBVIOUS
<1>3. r \in Row /\ q \in Row /\ SameRow(r, q)
  BY <1>r, <1>q, <1>1, NewRows
<1>4. r.owner = k.id /\ q.owner = k.id /\ r.at = j.at /\ q.at = k.at
  BY <1>r, <1>q DEF NewRow
<1>5. k.id \in DOMAIN m["conversations"]
  BY <1>2, SameParts
<1>6. Referenced(m, "messages", r) /\ Referenced(p, "messages", q) /\ \A db : Clash(db, "messages", r) = {}
      /\ Clash(db, "messages", q) = {}
  BY <1>2, <1>4, <1>5 DEF Referenced, Clash
<1>m. PICK m1 : m1 = Put(m, "messages", r)
  OBVIOUS
<1>p. PICK p1 : p1 = Put(p, "messages", q)
  OBVIOUS
<1>7. DbInv(m1, p1) /\ DbType(p1)
  <2>1. Fits(m, "messages", r)
    BY <1>2, <1>6 DEF Fits
  <2>2. DbInv(Put(m, "messages", r), Put(p, "messages", q))
    BY <1>2, <1>3, <2>1, PutKeeps
  <2> QED
    BY <1>m, <1>p, <2>2 DEF DbInv
<1>8. Stays(p, p1)
  BY <1>2, <1>3, <1>p, PutStays
<1>9. k.id \in DOMAIN m1["conversations"]
  BY <1>2, <1>3, <1>5, <1>m, PutParts
<1>n. PICK n : n = Len(m1["messages"])
  OBVIOUS
<1>10. Len(p1["messages"]) = n
  BY <1>2, <1>7, <1>n, SameParts DEF DbInv
<1>c. PICK c : c = TouchedBy(m1, k.id, n)
  OBVIOUS
<1>d. PICK d : d = TouchedBy(p1, k.id, n)
  OBVIOUS
<1>11. Kept(p1, Replace(m1, "conversations", k.id, c), Replace(p1, "conversations", k.id, d))
  BY <1>7, <1>9, <1>n, <1>c, <1>d, TouchKept
<1>12. Kept(p, Replace(m1, "conversations", k.id, c), Replace(p1, "conversations", k.id, d))
  <2>1. DbType(Replace(p1, "conversations", k.id, d))
    BY <1>11 DEF Kept, DbInv
  <2> QED
    BY <1>2, <1>7, <1>8, <1>11, <2>1, StaysTransitive DEF Kept
<1>m2. PICK m2 : m2 = Replace(m1, "conversations", k.id, c)
  OBVIOUS
<1>p2. PICK p2 : p2 = Replace(p1, "conversations", k.id, d)
  OBVIOUS
<1>x. PICK x : x = MemAppendMessage(m, j)
  OBVIOUS
<1>y. PICK y : y = PgAppendMessage(p, k)
  OBVIOUS
<1>13. x.db = m2 /\ x.why = "none" /\ x.rows = <<[of |-> "messages", id |-> n, row |-> m1["messages"][n]]>>
  <2>o. PICK out : out = MemAdd(m, "messages", {<<"conversations", j.id>>}, {}, r)
    OBVIOUS
  <2>1. out = Answer(m1, "messages", <<n>>)
    BY <1>1, <1>5, <1>m, <1>n, <2>o DEF MemAdd, Put
  <2>2. x = Touching(out, k.id)
    <3>1. out.why = "none"
      BY <2>1 DEF Answer
    <3> QED
      BY <1>1, <1>r, <1>x, <2>o, <3>1 DEF MemAppendMessage, Touching
  <2> QED
    BY <1>c, <1>m2, <1>n, <2>1, <2>2, TouchingParts
<1>14. y.db = p2 /\ y.why = "none" /\ y.rows = <<[of |-> "messages", id |-> n, row |-> p1["messages"][n]]>>
  <2>o. PICK out : out = Insert(p, "messages", q)
    OBVIOUS
  <2>1. out = Answer(p1, "messages", <<n>>)
    BY <1>6, <1>10, <1>p, <2>o DEF Insert, Put
  <2>2. y = Touching(out, k.id)
    BY <1>q, <1>y, <2>o DEF PgAppendMessage, Touching
  <2> QED
    BY <1>d, <1>p2, <1>10, <2>1, <2>2, TouchingParts
<1>15. m2["messages"] = m1["messages"] /\ p2["messages"] = p1["messages"] /\ n \in DOMAIN m2["messages"]
  <2>1. m2["messages"] = m1["messages"] /\ p2["messages"] = p1["messages"]
    BY <1>m2, <1>p2, <1>2, <1>7 DEF Replace, DbInv, DbType, Tables
  <2>2. n = Len(m["messages"]) + 1 /\ DOMAIN m1["messages"] = 1 .. Len(m["messages"]) + 1
    BY <1>2, <1>3, <1>m, <1>n, PutParts
  <2>3. n \in DOMAIN m1["messages"]
    BY <1>2, <2>2, RowTypes
  <2> QED
    BY <2>1, <2>3
<1>16. Stamped(m, m2, j.at) /\ Stamped(p, p2, k.at)
  <2>1. Stamped(m, m1, j.at) /\ Stamped(p, p1, k.at)
    BY <1>2, <1>3, <1>4, <1>m, <1>p, PutStamped
  <2>2. DbType(m1) /\ DbType(p1) /\ k.id \in DOMAIN p1["conversations"] /\ n \in Nat
    <3>1. DbType(m1) /\ DbType(p1) /\ SameDb(m1, p1)
      BY <1>7 DEF DbInv
    <3> QED
      BY <1>2, <1>9, <1>n, <3>1, SameParts, RowTypes
  <2>3. c \in Row /\ c.at = m1["conversations"][k.id].at
    BY <1>2, <1>9, <1>c, <2>2, TouchedRow
  <2>4. d \in Row /\ d.at = p1["conversations"][k.id].at
    BY <1>2, <1>d, <2>2, TouchedRow
  <2>5. Stamped(m1, m2, j.at)
    BY <1>2, <1>9, <1>m2, <2>2, <2>3, ReplaceStamped
  <2>6. Stamped(p1, p2, k.at)
    BY <1>2, <1>p2, <2>2, <2>4, ReplaceStamped
  <2>7. Same(m1, m2) /\ Same(p1, p2)
    BY <1>2, <1>9, <1>m2, <1>p2, <2>2, <2>3, <2>4, ReplaceParts DEF Same
  <2> QED
    BY <2>1, <2>5, <2>6, <2>7, StampedTwice
<1>17. SameRefusal(k, x, y)
  BY <1>13, <1>14 DEF SameRefusal
<1>18. Shown(x, y)
  BY <1>2, <1>13, <1>14, <1>15 DEF Shown
<1>19. Kept(p, x.db, y.db)
  BY <1>12, <1>m2, <1>p2, <1>13, <1>14
<1> QED
  BY <1>x, <1>y, <1>13, <1>14, <1>16, <1>17, <1>18, <1>19 DEF Agree

\* There is no such conversation.
LEMMA NoConversation ==
  ASSUME NEW m, NEW p, DbInv(m, p), NEW j, NEW k, SameCall(j, k), k.step = 1,
         k.id \notin DOMAIN p["conversations"]
  PROVE  Agree(m, p, j, k, MemAppendMessage(m, j), PgAppendMessage(p, k))
<1>1. j.id = k.id /\ k.id \notin DOMAIN m["conversations"]
  <2>1. "conversations" \in Tables
    BY DEF Tables
  <2> QED
    BY <2>1, SameParts DEF SameCall, DbInv
<1>o. PICK out : out = MemAdd(m, "messages", {<<"conversations", j.id>>}, {}, NewRow(j.id, NoKey, j.data, j.at))
  OBVIOUS
<1>2. out = Refuse(m, "not found") /\ out.why # "none"
  BY <1>1, <1>o DEF MemAdd, Refuse
<1>3. MemAppendMessage(m, j) = Refuse(m, "not found")
  BY <1>o, <1>2 DEF MemAppendMessage
<1>4. PgAppendMessage(p, k) = Refuse(p, "not found")
  BY DEF PgAppendMessage
<1> QED
  BY <1>3, <1>4, RefuseBoth

(***************************************************************************)
(* The order of the rows of an answer                                      *)
(***************************************************************************)

\* A finite set of rows can be put in the order of any ranks.
LEMMA SortedList ==
  ASSUME NEW ids, IsFiniteSet(ids), ids \subseteq Nat, NEW rank, \A i \in ids : rank[i] \in Nat
  PROVE  /\ Cardinality(ids) \in Nat
         /\ Sorted(ids, rank) \in Bijection(1 .. Cardinality(ids), ids)
         /\ \A i, j \in 1 .. Cardinality(ids) :
              i < j => rank[Sorted(ids, rank)[i]] <= rank[Sorted(ids, rank)[j]]
<1> DEFINE n == Cardinality(ids)
           upTo(i) == {j \in ids : rank[j] < rank[i] \/ (rank[j] = rank[i] /\ j <= i)}
           place == [i \in ids |-> Cardinality(upTo(i))]
           list == Inverse(place, ids, 1 .. n)
<1>1. n \in Nat
  BY FS_CardinalityType
<1>2. ASSUME NEW i \in ids
      PROVE  IsFiniteSet(upTo(i)) /\ Cardinality(upTo(i)) \in 1 .. n
  <2>1. upTo(i) \in SUBSET ids /\ i \in upTo(i)
    OBVIOUS
  <2>2. IsFiniteSet(upTo(i)) /\ Cardinality(upTo(i)) <= n
    BY <2>1, FS_Subset
  <2>3. Cardinality(upTo(i)) \in Nat
    BY <2>2, FS_CardinalityType
  <2>4. Cardinality(upTo(i)) # 0
    BY <2>1, <2>2, FS_EmptySet
  <2> QED
    BY <1>1, <2>2, <2>3, <2>4
<1>3. ASSUME NEW i \in ids, NEW j \in ids, rank[i] < rank[j] \/ (rank[i] = rank[j] /\ i < j)
      PROVE  Cardinality(upTo(i)) < Cardinality(upTo(j))
  <2>0. /\ i \in Nat /\ j \in Nat /\ rank[i] \in Nat /\ rank[j] \in Nat
        /\ \A x \in ids : x \in Nat /\ rank[x] \in Nat
    OBVIOUS
  <2>1. j \in upTo(j) /\ j \notin upTo(i) /\ \A x \in upTo(i) : x \in upTo(j)
    BY <1>3, <2>0
  <2>2. Cardinality(upTo(i)) <= Cardinality(upTo(j)) /\ Cardinality(upTo(i)) # Cardinality(upTo(j))
    BY <1>2, <2>1, FS_Subset
  <2> QED
    BY <1>1, <1>2, <2>2
<1>4. place \in [ids -> 1 .. n] /\ \A i \in ids : place[i] = Cardinality(upTo(i))
  BY <1>2
<1>5. \A i, j \in ids : place[i] = place[j] => i = j
  <2> SUFFICES ASSUME NEW i \in ids, NEW j \in ids, i # j
               PROVE  Cardinality(upTo(i)) # Cardinality(upTo(j))
    BY <1>4
  <2>1. \/ rank[i] < rank[j] \/ (rank[i] = rank[j] /\ i < j)
        \/ rank[j] < rank[i] \/ (rank[j] = rank[i] /\ j < i)
    OBVIOUS
  <2> QED
    BY <1>1, <1>2, <1>3, <2>1
<1> HIDE DEF place
<1>6. place \in Bijection(ids, 1 .. n)
  <2>1. place \in Injection(ids, 1 .. n)
    BY <1>4, <1>5, Fun_IsInj
  <2>2. IsFiniteSet(1 .. n) /\ Cardinality(1 .. n) = n
    BY <1>1, FS_Interval
  <2>3. place \in Surjection(ids, 1 .. n)
    BY <2>1, <2>2, FS_Injection
  <2> QED
    BY <2>1, <2>3, Fun_IsBij
<1>7. list \in Bijection(1 .. n, ids) /\ \A i \in ids : list[place[i]] = i
  BY <1>6, Fun_BijInverse
<1> HIDE DEF list
<1>8. list \in [1 .. n -> ids] /\ \A k \in 1 .. n : place[list[k]] = k
  <2>1. list \in [1 .. n -> ids]
    BY <1>7, Fun_BijectionProperties
  <2>2. \A k \in 1 .. n : \E i \in ids : place[i] = k
    BY <1>6, Fun_BijectionProperties
  <2> QED
    BY <1>7, <2>1, <2>2
<1>9. ASSUME NEW k \in 1 .. n, NEW l \in 1 .. n, k < l
      PROVE  rank[list[k]] <= rank[list[l]]
  <2>1. list[k] \in ids /\ list[l] \in ids /\ k \in Nat /\ l \in Nat
    BY <1>8
  <2>a. PICK a \in ids : a = list[k]
    BY <2>1
  <2>b. PICK b \in ids : b = list[l]
    BY <2>1
  <2>2. Cardinality(upTo(a)) = k /\ Cardinality(upTo(b)) = l
    BY <1>4, <1>8, <2>a, <2>b
  <2>3. ~(rank[b] < rank[a])
    BY <1>3, <1>9, <2>1, <2>2
  <2>4. rank[a] \in Nat /\ rank[b] \in Nat
    OBVIOUS
  <2> QED
    BY <2>3, <2>4, <2>a, <2>b
<1>10. \E f \in Bijection(1 .. n, ids) : \A i, j \in DOMAIN f : i < j => rank[f[i]] <= rank[f[j]]
  <2>1. DOMAIN list = 1 .. n
    BY <1>8
  <2> QED
    BY <1>7, <1>9, <2>1
<1>11. /\ Sorted(ids, rank) \in Bijection(1 .. n, ids)
       /\ \A i, j \in DOMAIN Sorted(ids, rank) :
            i < j => rank[Sorted(ids, rank)[i]] <= rank[Sorted(ids, rank)[j]]
  BY <1>10 DEF Sorted
<1>12. DOMAIN Sorted(ids, rank) = 1 .. n
  BY <1>11, Fun_BijectionProperties
<1> QED
  BY <1>1, <1>11, <1>12

LEMMA ListBijection ==
  ASSUME NEW n \in Nat, NEW S, NEW f, f \in Bijection(1 .. n, S)
  PROVE  /\ f \in [1 .. n -> S] /\ \A i, j \in 1 .. n : f[i] = f[j] => i = j
         /\ \A x \in S : \E i \in 1 .. n : f[i] = x
<1>1. f \in [1 .. n -> S]
  BY Fun_BijectionProperties
<1>2. \A i, j \in 1 .. n : f[i] = f[j] => i = j
  BY Fun_BijectionProperties
<1>3. \A x \in S : \E i \in 1 .. n : f[i] = x
  BY DEF Bijection, Surjection
<1> QED
  BY <1>1, <1>2, <1>3

\* Rows in the order of their insertion, and the same rows by creation time.
LEMMA ListAlike ==
  ASSUME NEW m, NEW p, NEW now, DbInv(m, p), Dated(m, p, now), NEW t \in Tables,
         NEW ids, ids \subseteq DOMAIN m[t]
  PROVE  AlikeRows(MemList(m, t, ids).rows, SelectAll(p, t, ids).rows)
<1>n. PICK n : n = Cardinality(ids)
  OBVIOUS
<1>o. PICK one : one = Sorted(ids, [i \in ids |-> i])
  OBVIOUS
<1>t. PICK two : two = Sorted(ids, [i \in ids |-> p[t][i].at])
  OBVIOUS
<1>r. PICK r : r = MemList(m, t, ids).rows
  OBVIOUS
<1>s. PICK s : s = SelectAll(p, t, ids).rows
  OBVIOUS
<1>1. /\ DbType(m) /\ DbType(p) /\ SameDb(m, p)
      /\ \A i \in ids : m[t][i] \in Row /\ p[t][i] \in Row /\ i \in Nat /\ SameRow(m[t][i], p[t][i])
  <2>1. DbType(m) /\ DbType(p) /\ SameDb(m, p)
    BY DEF DbInv
  <2> QED
    BY <2>1, RowTypes, SameParts DEF SameDb
<1>2. IsFiniteSet(ids) /\ n \in Nat
  <2>1. DOMAIN m[t] = 1 .. Len(m[t]) /\ Len(m[t]) \in Nat
    BY <1>1, RowTypes
  <2>2. IsFiniteSet(1 .. Len(m[t])) /\ ids \in SUBSET (1 .. Len(m[t]))
    BY <2>1, FS_Interval
  <2>3. IsFiniteSet(ids)
    BY <2>2, FS_Subset
  <2> QED
    BY <1>n, <2>3, FS_CardinalityType
<1>3. /\ one \in Bijection(1 .. n, ids)
      /\ \A i, j \in 1 .. n : i < j => one[i] <= one[j]
  <2>r. PICK rank : rank = [i \in ids |-> i]
    OBVIOUS
  <2>o. PICK list : list = Sorted(ids, rank)
    OBVIOUS
  <2>1. ids \subseteq Nat /\ \A i \in ids : rank[i] = i /\ rank[i] \in Nat
    BY <1>1, <2>r
  <2>2. /\ list \in Bijection(1 .. n, ids)
        /\ \A i, j \in 1 .. n : i < j => rank[list[i]] <= rank[list[j]]
    <3>1. /\ Sorted(ids, rank) \in Bijection(1 .. Cardinality(ids), ids)
          /\ \A i, j \in 1 .. Cardinality(ids) :
               i < j => rank[Sorted(ids, rank)[i]] <= rank[Sorted(ids, rank)[j]]
      BY <1>2, <2>1, SortedList
    <3> QED
      BY <1>n, <2>o, <3>1
  <2>3. \A i \in 1 .. n : list[i] \in ids
    BY <1>2, <2>2, ListBijection
  <2>4. one = list
    BY <1>o, <2>r, <2>o
  <2> QED
    BY <2>1, <2>2, <2>3, <2>4
<1>4. /\ two \in Bijection(1 .. n, ids)
      /\ \A i, j \in 1 .. n : i < j => p[t][two[i]].at <= p[t][two[j]].at
  <2>r. PICK rank : rank = [i \in ids |-> p[t][i].at]
    OBVIOUS
  <2>o. PICK list : list = Sorted(ids, rank)
    OBVIOUS
  <2>1. ids \subseteq Nat /\ \A i \in ids : rank[i] = p[t][i].at /\ rank[i] \in Nat
    BY <1>1, <2>r DEF Row
  <2>2. /\ list \in Bijection(1 .. n, ids)
        /\ \A i, j \in 1 .. n : i < j => rank[list[i]] <= rank[list[j]]
    <3>1. /\ Sorted(ids, rank) \in Bijection(1 .. Cardinality(ids), ids)
          /\ \A i, j \in 1 .. Cardinality(ids) :
               i < j => rank[Sorted(ids, rank)[i]] <= rank[Sorted(ids, rank)[j]]
      BY <1>2, <2>1, SortedList
    <3> QED
      BY <1>n, <2>o, <3>1
  <2>3. \A i \in 1 .. n : list[i] \in ids
    BY <1>2, <2>2, ListBijection
  <2>4. two = list
    BY <1>t, <2>r, <2>o
  <2> QED
    BY <2>1, <2>2, <2>3, <2>4
<1>5. /\ one \in [1 .. n -> ids] /\ \A i, j \in 1 .. n : one[i] = one[j] => i = j
      /\ \A x \in ids : \E i \in 1 .. n : one[i] = x
  BY <1>2, <1>3, ListBijection
<1>6. /\ two \in [1 .. n -> ids] /\ \A i, j \in 1 .. n : two[i] = two[j] => i = j
      /\ \A x \in ids : \E i \in 1 .. n : two[i] = x
  BY <1>2, <1>4, ListBijection
<1>7. /\ Len(r) = n /\ DOMAIN r = 1 .. n
      /\ \A k \in 1 .. n : r[k] = [of |-> t, id |-> one[k], row |-> m[t][one[k]]]
  <2>1. r = Answer(m, t, one).rows
    BY <1>r, <1>o, <1>5 DEF MemList
  <2>2. DOMAIN one = 1 .. n
    BY <1>5
  <2>3. /\ Len(Answer(m, t, one).rows) = n /\ DOMAIN Answer(m, t, one).rows = 1 .. n
        /\ \A k \in 1 .. n : Answer(m, t, one).rows[k] = [of |-> t, id |-> one[k], row |-> m[t][one[k]]]
    BY <1>2, <2>2 DEF Answer
  <2> QED
    BY <2>1, <2>3
<1>8. /\ Len(s) = n /\ DOMAIN s = 1 .. n
      /\ \A k \in 1 .. n : s[k] = [of |-> t, id |-> two[k], row |-> p[t][two[k]]]
  <2>1. s = Answer(p, t, two).rows
    BY <1>s, <1>t, <1>6 DEF SelectAll
  <2>2. DOMAIN two = 1 .. n
    BY <1>6
  <2>3. /\ Len(Answer(p, t, two).rows) = n /\ DOMAIN Answer(p, t, two).rows = 1 .. n
        /\ \A k \in 1 .. n : Answer(p, t, two).rows[k] = [of |-> t, id |-> two[k], row |-> p[t][two[k]]]
    BY <1>2, <2>2 DEF Answer
  <2> QED
    BY <2>1, <2>3
<1> DEFINE place == [i \in 1 .. n |-> CHOOSE k \in 1 .. n : two[k] = one[i]]
<1>9. \A i \in 1 .. n : place[i] \in 1 .. n /\ two[place[i]] = one[i]
  BY <1>5, <1>6
<1>10. place \in Bijection(1 .. n, 1 .. n)
  <2>1. place \in [1 .. n -> 1 .. n]
    BY <1>9
  <2>2. \A i, j \in 1 .. n : place[i] = place[j] => i = j
    BY <1>5, <1>9
  <2>3. ASSUME NEW k \in 1 .. n PROVE \E i \in 1 .. n : place[i] = k
    <3>1. PICK i \in 1 .. n : one[i] = two[k]
      BY <1>5, <1>6
    <3>2. place[i] = k
      BY <1>6, <1>9, <3>1
    <3> QED
      BY <3>2
  <2> HIDE DEF place
  <2> QED
    BY <2>1, <2>2, <2>3, Fun_IsBij
<1> HIDE DEF place
<1>11. ASSUME NEW i \in 1 .. n
       PROVE  place[i] \in 1 .. n /\ SameOrOlder(r[i], s[place[i]])
  <2>1. one[i] \in ids /\ s[place[i]] = [of |-> t, id |-> one[i], row |-> p[t][one[i]]]
    BY <1>5, <1>8, <1>9
  <2>2. SameRow(m[t][one[i]], p[t][one[i]])
    BY <1>1, <2>1
  <2> QED
    BY <1>7, <1>9, <2>1, <2>2 DEF SameOrOlder
<1>12. ASSUME NEW i \in 1 .. n, NEW j \in 1 .. n, r[i].row.at < s[place[j]].row.at
       PROVE  i < j /\ place[i] < place[j]
  <2>1. PICK x \in ids : x = one[i]
    BY <1>5
  <2>2. PICK y \in ids : y = one[j]
    BY <1>5
  <2>3. r[i].row = m[t][x] /\ s[place[i]].row = p[t][x] /\ s[place[j]].row = p[t][y]
    BY <1>7, <1>8, <1>9, <2>1, <2>2
  <2>4. /\ m[t][x].at \in Nat /\ m[t][y].at \in Nat /\ p[t][x].at \in Nat /\ p[t][y].at \in Nat
        /\ x \in Nat /\ y \in Nat
    BY <1>1 DEF Row
  <2>5. p[t][x].at <= m[t][x].at /\ p[t][y].at <= m[t][y].at /\ m[t][x].at < p[t][y].at
    BY <1>12, <2>3 DEF Dated
  <2>6. ~(y <= x)
    <3>1. y < x => m[t][y].at <= m[t][x].at
      BY DEF Dated
    <3> QED
      BY <2>4, <2>5, <3>1
  <2>7. i < j
    <3>1. j < i => y <= x
      BY <1>3, <2>1, <2>2
    <3>2. j = i => y = x
      BY <2>1, <2>2
    <3> QED
      BY <2>4, <2>6, <3>1, <3>2
  <2>8. place[i] < place[j]
    <3>1. two[place[i]] = x /\ two[place[j]] = y /\ place[i] \in 1 .. n /\ place[j] \in 1 .. n
      BY <1>9, <2>1, <2>2
    <3>2. place[j] < place[i] => p[t][y].at <= p[t][x].at
      BY <1>4, <3>1
    <3>3. place[j] = place[i] => y = x
      BY <3>1
    <3> QED
      BY <2>4, <2>5, <2>6, <3>1, <3>2, <3>3
  <2> QED
    BY <2>7, <2>8
<1>13. SameRows(r, s)
  <2>1. /\ \A i \in 1 .. n : place[i] \in 1 .. n /\ SameOrOlder(r[i], s[place[i]])
        /\ \A i, j \in 1 .. n : r[i].row.at < s[place[j]].row.at => i < j /\ place[i] < place[j]
    BY <1>11, <1>12
  <2> QED
    BY <1>7, <1>8, <1>10, <2>1 DEF SameRows
<1> QED
  BY <1>r, <1>s, <1>7, <1>8, <1>13 DEF AlikeRows

AnswerRow == [of: Tables, id: Nat, row: Row]

ListsOf(r, db, t, ids) == \A k \in DOMAIN r : \E i \in ids : r[k] = [of |-> t, id |-> i, row |-> db[t][i]]

\* Every row of a list is one of those listed.
LEMMA SortedRows ==
  ASSUME NEW db, DbType(db), NEW t \in Tables, NEW ids, ids \subseteq DOMAIN db[t],
         NEW rank, \A i \in ids : rank[i] \in Nat,
         NEW r, r = Answer(db, t, Sorted(ids, rank)).rows
  PROVE  r \in Seq(AnswerRow) /\ ListsOf(r, db, t, ids)
<1>n. PICK n : n = Cardinality(ids)
  OBVIOUS
<1>l. PICK list : list = Sorted(ids, rank)
  OBVIOUS
<1>1. DOMAIN db[t] = 1 .. Len(db[t]) /\ Len(db[t]) \in Nat /\ \A i \in DOMAIN db[t] : db[t][i] \in Row
  BY RowTypes
<1>2. IsFiniteSet(ids) /\ ids \subseteq Nat
  <2>1. IsFiniteSet(1 .. Len(db[t])) /\ ids \in SUBSET (1 .. Len(db[t]))
    BY <1>1, FS_Interval
  <2> QED
    BY <2>1, FS_Subset
<1>3. n \in Nat /\ list \in Bijection(1 .. n, ids)
  <2>1. Cardinality(ids) \in Nat /\ Sorted(ids, rank) \in Bijection(1 .. Cardinality(ids), ids)
    BY <1>2, SortedList
  <2> QED
    BY <1>n, <1>l, <2>1
<1>4. list \in [1 .. n -> ids]
  BY <1>3, ListBijection
<1>5. r = [k \in 1 .. n |-> [of |-> t, id |-> list[k], row |-> db[t][list[k]]]]
  <2>1. r = Answer(db, t, list).rows
    BY <1>l
  <2>2. DOMAIN list = 1 .. n
    BY <1>4
  <2> QED
    BY <2>1, <2>2 DEF Answer
<1>6. ASSUME NEW k \in 1 .. n
      PROVE  /\ r[k] \in AnswerRow
             /\ \E i \in ids : r[k] = [of |-> t, id |-> i, row |-> db[t][i]]
  <2>1. list[k] \in ids /\ r[k] = [of |-> t, id |-> list[k], row |-> db[t][list[k]]]
    BY <1>4, <1>5
  <2>2. list[k] \in Nat /\ db[t][list[k]] \in Row
    BY <1>1, <1>2, <2>1
  <2>3. r[k] \in AnswerRow
    BY <2>1, <2>2 DEF AnswerRow
  <2> QED
    BY <2>1, <2>3
<1>7. DOMAIN r = 1 .. n
  BY <1>5
<1>8. r \in [1 .. n -> AnswerRow]
  BY <1>5, <1>6, <1>7
<1>9. r \in Seq(AnswerRow)
  BY <1>3, <1>8, SeqDef
<1> QED
  BY <1>6, <1>7, <1>9 DEF ListsOf

\* Lists that are alike still are behind a row that is older than theirs.
LEMMA PrefixedRows ==
  ASSUME NEW S, NEW r \in Seq(S), NEW s \in Seq(S), NEW a \in S, NEW b \in S, AlikeRows(r, s),
         SameOrOlder(a, b), ~(a.row.at < b.row.at), \A i \in DOMAIN r : ~(r[i].row.at < b.row.at)
  PROVE  AlikeRows(<<a>> \o r, <<b>> \o s)
<1>n. PICK n \in Nat : n = Len(r)
  OBVIOUS
<1>x. PICK x : x = <<a>> \o r
  OBVIOUS
<1>y. PICK y : y = <<b>> \o s
  OBVIOUS
<1>1. DOMAIN r = 1 .. n /\ DOMAIN s = 1 .. n /\ Len(s) = n
  BY <1>n DEF AlikeRows
<1>2. PICK old \in Bijection(DOMAIN r, DOMAIN r) :
        /\ \A i \in DOMAIN r : old[i] \in DOMAIN s /\ SameOrOlder(r[i], s[old[i]])
        /\ \A i, j \in DOMAIN r : r[i].row.at < s[old[j]].row.at => i < j /\ old[i] < old[j]
  BY DEF AlikeRows, SameRows
<1>3. /\ old \in [1 .. n -> 1 .. n] /\ \A i, j \in 1 .. n : old[i] = old[j] => i = j
      /\ \A k \in 1 .. n : \E i \in 1 .. n : old[i] = k
  <2>r. PICK range : range = 1 .. n
    OBVIOUS
  <2>1. old \in Bijection(1 .. n, range)
    BY <1>1, <2>r
  <2>2. /\ old \in [1 .. n -> range] /\ \A i, j \in 1 .. n : old[i] = old[j] => i = j
        /\ \A k \in range : \E i \in 1 .. n : old[i] = k
    BY <2>1, ListBijection
  <2> QED
    BY <2>r, <2>2
<1>4. /\ x \in Seq(S) /\ Len(x) = n + 1 /\ DOMAIN x = 1 .. n + 1 /\ x[1] = a
      /\ \A i \in 2 .. n + 1 : x[i] = r[i - 1]
  BY <1>n, <1>x
<1>5. /\ y \in Seq(S) /\ Len(y) = n + 1 /\ DOMAIN y = 1 .. n + 1 /\ y[1] = b
      /\ \A i \in 2 .. n + 1 : y[i] = s[i - 1]
  BY <1>1, <1>y
<1>p. PICK place : place = [i \in 1 .. n + 1 |-> IF i = 1 THEN 1 ELSE old[i - 1] + 1]
  OBVIOUS
<1>6. /\ place[1] = 1
      /\ \A i \in 2 .. n + 1 : i - 1 \in 1 .. n /\ place[i] = old[i - 1] + 1
                               /\ old[i - 1] \in 1 .. n /\ place[i] \in 2 .. n + 1
  <2>1. place[1] = 1
    BY <1>p, 1 \in 1 .. n + 1
  <2>2. ASSUME NEW i \in 2 .. n + 1
        PROVE  i - 1 \in 1 .. n /\ place[i] = old[i - 1] + 1
               /\ old[i - 1] \in 1 .. n /\ place[i] \in 2 .. n + 1
    <3>1. i - 1 \in 1 .. n /\ i \in 1 .. n + 1 /\ i # 1
      BY <1>n
    <3>2. old[i - 1] \in 1 .. n /\ place[i] = old[i - 1] + 1
      BY <1>3, <1>p, <3>1
    <3> QED
      BY <1>n, <3>1, <3>2
  <2> QED
    BY <2>1, <2>2
<1>7. place \in Bijection(1 .. n + 1, 1 .. n + 1)
  <2>1. place \in [1 .. n + 1 -> 1 .. n + 1]
    <3>1. \A i \in 1 .. n + 1 : i = 1 \/ i \in 2 .. n + 1
      OBVIOUS
    <3>2. \A i \in 1 .. n + 1 : place[i] \in 1 .. n + 1
      BY <1>6, <3>1
    <3> QED
      BY <1>p, <3>2
  <2>2. ASSUME NEW i \in 1 .. n + 1, NEW j \in 1 .. n + 1, place[i] = place[j]
        PROVE  i = j
    <3>1. (i = 1 \/ i \in 2 .. n + 1) /\ (j = 1 \/ j \in 2 .. n + 1)
      OBVIOUS
    <3>2. CASE i \in 2 .. n + 1 /\ j \in 2 .. n + 1
      <4>1. old[i - 1] = old[j - 1] /\ i - 1 \in 1 .. n /\ j - 1 \in 1 .. n
        <5>1. /\ i - 1 \in 1 .. n /\ place[i] = old[i - 1] + 1 /\ old[i - 1] \in 1 .. n
              /\ j - 1 \in 1 .. n /\ place[j] = old[j - 1] + 1 /\ old[j - 1] \in 1 .. n
          BY <1>6, <3>2
        <5>2. old[i - 1] + 1 = old[j - 1] + 1
          BY <2>2, <5>1
        <5>3. old[i - 1] \in Nat /\ old[j - 1] \in Nat
          BY <1>n, <5>1
        <5> QED
          BY <5>1, <5>2, <5>3
      <4>2. i - 1 = j - 1
        BY <1>3, <4>1
      <4> QED
        BY <4>2
    <3>3. CASE i = 1 \/ j = 1
      BY <1>6, <2>2, <3>1, <3>3
    <3> QED
      BY <3>1, <3>2, <3>3
  <2>3. ASSUME NEW k \in 1 .. n + 1 PROVE \E i \in 1 .. n + 1 : place[i] = k
    <3>1. CASE k = 1
      BY <1>6, <3>1
    <3>2. CASE k # 1
      <4>1. PICK i \in 1 .. n : old[i] = k - 1
        <5>1. k - 1 \in 1 .. n
          BY <3>2
        <5> QED
          BY <1>3, <5>1
      <4>2. i + 1 \in 2 .. n + 1 /\ (i + 1) - 1 = i
        OBVIOUS
      <4>3. place[i + 1] = k
        BY <1>6, <4>1, <4>2
      <4> QED
        BY <4>2, <4>3
    <3> QED
      BY <3>1, <3>2
  <2> QED
    BY <2>1, <2>2, <2>3, Fun_IsBij
<1>8. ASSUME NEW i \in 1 .. n + 1
      PROVE  place[i] \in 1 .. n + 1 /\ SameOrOlder(x[i], y[place[i]])
  <2>1. CASE i = 1
    BY <1>4, <1>5, <1>6, <2>1
  <2>2. CASE i # 1
    <3>1. i \in 2 .. n + 1
      BY <2>2
    <3>2. i - 1 \in 1 .. n /\ place[i] \in 2 .. n + 1 /\ place[i] - 1 = old[i - 1]
      <4>1. i - 1 \in 1 .. n /\ place[i] \in 2 .. n + 1 /\ place[i] = old[i - 1] + 1 /\ old[i - 1] \in 1 .. n
        BY <1>6, <3>1
      <4> QED
        BY <4>1
    <3>3. x[i] = r[i - 1] /\ y[place[i]] = s[old[i - 1]]
      BY <1>4, <1>5, <3>1, <3>2
    <3>4. SameOrOlder(r[i - 1], s[old[i - 1]])
      BY <1>1, <1>2, <3>2
    <3> QED
      BY <3>2, <3>3, <3>4
  <2> QED
    BY <2>1, <2>2
<1>9. ASSUME NEW i \in 1 .. n + 1, NEW j \in 1 .. n + 1, x[i].row.at < y[place[j]].row.at
      PROVE  i < j /\ place[i] < place[j]
  <2>1. (i = 1 \/ i \in 2 .. n + 1) /\ (j = 1 \/ j \in 2 .. n + 1)
    OBVIOUS
  <2>2. j # 1
    <3>1. ASSUME j = 1 PROVE FALSE
      <4>1. y[place[j]] = b
        BY <1>5, <1>6, <3>1
      <4>2. x[i] = a \/ (x[i] = r[i - 1] /\ i - 1 \in DOMAIN r)
        BY <1>1, <1>4, <1>6, <2>1
      <4> QED
        BY <1>9, <4>1, <4>2
    <3> QED
      BY <3>1
  <2>3. j \in 2 .. n + 1
    BY <2>1, <2>2
  <2>4. CASE i = 1
    BY <1>6, <2>3, <2>4
  <2>5. CASE i \in 2 .. n + 1
    <3>1. i - 1 \in 1 .. n /\ j - 1 \in 1 .. n /\ place[i] = old[i - 1] + 1 /\ place[j] = old[j - 1] + 1
          /\ old[i - 1] \in 1 .. n /\ old[j - 1] \in 1 .. n
      BY <1>6, <2>3, <2>5
    <3>2. x[i] = r[i - 1] /\ y[place[j]] = s[old[j - 1]]
      <4>1. place[j] \in 2 .. n + 1 /\ place[j] - 1 = old[j - 1]
        <5>1. place[j] \in 2 .. n + 1
          BY <1>6, <2>3
        <5> QED
          BY <3>1, <5>1
      <4> QED
        BY <1>4, <1>5, <2>5, <4>1
    <3>3. i - 1 < j - 1 /\ old[i - 1] < old[j - 1]
      BY <1>1, <1>2, <1>9, <3>1, <3>2
    <3> QED
      BY <3>1, <3>3
  <2> QED
    BY <2>1, <2>4, <2>5
<1>10. SameRows(x, y)
  BY <1>4, <1>5, <1>7, <1>8, <1>9 DEF SameRows
<1> QED
  BY <1>x, <1>y, <1>4, <1>5, <1>10 DEF AlikeRows

\* What GetConversation returns: a conversation Postgres read before its messages
\* may be older than they are.
LEMMA ConversationAlike ==
  ASSUME NEW m, NEW p, NEW now, DbInv(m, p), Dated(m, p, now), NEW id \in DOMAIN m["conversations"],
         NEW seen \in Nat, seen <= p["conversations"][id].data,
         NEW a, a = [of |-> "conversations", id |-> id, row |-> m["conversations"][id]],
         NEW b, b = [of |-> "conversations", id |-> id, row |-> [p["conversations"][id] EXCEPT !.data = seen]]
  PROVE  AlikeRows(<<a>> \o MemList(m, "messages", OwnedBy(m, "messages", id)).rows,
                   <<b>> \o SelectAll(p, "messages", OwnedBy(p, "messages", id)).rows)
<1>i. PICK ids : ids = OwnedBy(m, "messages", id)
  OBVIOUS
<1>r. PICK r : r = MemList(m, "messages", ids).rows
  OBVIOUS
<1>s. PICK s : s = SelectAll(p, "messages", ids).rows
  OBVIOUS
<1>1. "conversations" \in Tables /\ "messages" \in Tables /\ DbType(m) /\ DbType(p) /\ SameDb(m, p)
  BY DEF Tables, DbInv
<1>2. OwnedBy(p, "messages", id) = ids /\ ids \subseteq DOMAIN m["messages"] /\ ids \subseteq DOMAIN p["messages"]
  BY <1>i, <1>1, SameParts DEF OwnedBy
<1>3. AlikeRows(r, s)
  BY <1>r, <1>s, <1>1, <1>2, ListAlike
<1>4. r \in Seq(AnswerRow) /\ ListsOf(r, m, "messages", ids)
  <2>1. PICK rank : rank = [i \in ids |-> i]
    OBVIOUS
  <2>2. \A i \in ids : rank[i] \in Nat
    BY <1>1, <1>2, <2>1, RowTypes
  <2>3. r = Answer(m, "messages", Sorted(ids, rank)).rows
    BY <1>r, <2>1 DEF MemList
  <2> QED
    BY <1>1, <1>2, <2>2, <2>3, SortedRows
<1>5. s \in Seq(AnswerRow)
  <2>1. PICK rank : rank = [i \in ids |-> p["messages"][i].at]
    OBVIOUS
  <2>2. \A i \in ids : rank[i] \in Nat
    <3>1. \A i \in ids : p["messages"][i] \in Row
      BY <1>1, <1>2, RowTypes
    <3> QED
      BY <2>1, <3>1 DEF Row
  <2>3. s = Answer(p, "messages", Sorted(ids, rank)).rows
    BY <1>s, <2>1 DEF SelectAll
  <2> QED
    BY <1>1, <1>2, <2>2, <2>3, SortedRows
<1>c. PICK c : c = m["conversations"][id]
  OBVIOUS
<1>d. PICK d : d = p["conversations"][id]
  OBVIOUS
<1>e. PICK e : e = [d EXCEPT !.data = seen]
  OBVIOUS
<1>6. /\ id \in Nat /\ c \in Row /\ d \in Row
      /\ c.owner = d.owner /\ c.key = d.key /\ c.data = d.data /\ c.ref = d.ref /\ c.done = d.done
  BY <1>c, <1>d, <1>1, OldRows, RowTypes
<1>7. /\ e \in Row /\ e.owner = d.owner /\ e.key = d.key /\ e.data = seen /\ e.ref = d.ref
      /\ e.done = d.done /\ e.at = d.at
  BY <1>6, <1>e DEF Row
<1>8. a.of = "conversations" /\ a.id = id /\ a.row = c /\ b.of = "conversations" /\ b.id = id /\ b.row = e
  BY <1>c, <1>d, <1>e
<1>9. a \in AnswerRow /\ b \in AnswerRow
  <2>1. a = [of |-> "conversations", id |-> id, row |-> c] /\ b = [of |-> "conversations", id |-> id, row |-> e]
    BY <1>c, <1>d, <1>e
  <2> QED
    BY <1>1, <1>6, <1>7, <2>1 DEF AnswerRow
<1>10. SameOrOlder(a, b)
  <2>1. seen <= c.data /\ c.data \in Nat
    BY <1>d, <1>6 DEF Row
  <2>2. CASE seen = c.data
    <3>1. SameRow(c, e)
      BY <1>6, <1>7, <2>2, RowParts
    <3> QED
      BY <1>8, <3>1 DEF SameOrOlder
  <2>3. CASE seen < c.data
    <3>f. PICK f : f = [e EXCEPT !.data = c.data]
      OBVIOUS
    <3>1. /\ f \in Row /\ f.owner = e.owner /\ f.key = e.key /\ f.data = c.data /\ f.ref = e.ref
          /\ f.done = e.done
      BY <1>7, <2>1, <3>f DEF Row
    <3>2. SameRow(c, f)
      BY <1>6, <1>7, <3>1, RowParts
    <3> QED
      BY <1>7, <1>8, <2>3, <3>f, <3>2 DEF SameOrOlder
  <2> QED
    BY <2>1, <2>2, <2>3
<1>11. ~(a.row.at < b.row.at)
  <2>1. d.at <= c.at
    BY <1>c, <1>d, <1>1 DEF Dated
  <2>2. d.at \in Nat /\ c.at \in Nat
    BY <1>6 DEF Row
  <2> QED
    BY <1>7, <1>8, <2>1, <2>2
<1>12. ASSUME NEW k \in DOMAIN r PROVE ~(r[k].row.at < b.row.at)
  <2>1. PICK i \in ids : r[k] = [of |-> "messages", id |-> i, row |-> m["messages"][i]]
    BY <1>4 DEF ListsOf
  <2>2. i \in DOMAIN m["messages"] /\ m["messages"][i].owner = id /\ m["messages"][i] \in Row
    BY <1>i, <1>1, <1>2, RowTypes DEF OwnedBy
  <2>3. d.at <= m["messages"][i].at
    BY <1>d, <2>2 DEF Dated
  <2>4. d.at \in Nat /\ m["messages"][i].at \in Nat
    BY <1>6, <2>2 DEF Row
  <2> QED
    BY <1>7, <1>8, <2>1, <2>3, <2>4
<1>13. AlikeRows(<<a>> \o r, <<b>> \o s)
  BY <1>3, <1>4, <1>5, <1>9, <1>10, <1>11, <1>12, PrefixedRows
<1> QED
  BY <1>i, <1>r, <1>s, <1>2, <1>13

(***************************************************************************)
(* The methods that read                                                   *)
(***************************************************************************)

LEMMA SameOwned ==
  ASSUME NEW m, NEW p, DbInv(m, p), NEW t \in Tables
  PROVE  /\ \A owner : OwnedBy(m, t, owner) = OwnedBy(p, t, owner)
         /\ Open(m, t) = Open(p, t)
<1>1. DbType(m) /\ DbType(p) /\ SameDb(m, p)
  BY DEF DbInv
<1> QED
  BY <1>1, SameParts DEF OwnedBy, Open

LEMMA GetBoth ==
  ASSUME NEW m, NEW p, DbInv(m, p), NEW j, NEW k, NEW t \in Tables, NEW ids, ids \subseteq DOMAIN m[t]
  PROVE  Agree(m, p, j, k, MemGet(m, t, ids), SelectOne(p, t, ids))
<1>1. CASE ids = {}
  <2>1. MemGet(m, t, ids) = Refuse(m, "not found") /\ SelectOne(p, t, ids) = Refuse(p, "not found")
    BY <1>1 DEF MemGet, SelectOne
  <2> QED
    BY <2>1, RefuseBoth
<1>2. CASE ids # {}
  <2>i. PICK i : i = Only(ids)
    OBVIOUS
  <2>x. PICK x : x = MemGet(m, t, ids)
    OBVIOUS
  <2>y. PICK y : y = SelectOne(p, t, ids)
    OBVIOUS
  <2>1. i \in DOMAIN m[t]
    BY <1>2, <2>i, OnlyIn
  <2>2. x = Answer(m, t, <<i>>) /\ y = Answer(p, t, <<i>>)
    BY <1>2, <2>i, <2>x, <2>y DEF MemGet, SelectOne
  <2>3. x.db = m /\ x.why = "none" /\ x.rows = <<[of |-> t, id |-> i, row |-> m[t][i]]>>
    BY <2>2, OneRow
  <2>4. y.db = p /\ y.why = "none" /\ y.rows = <<[of |-> t, id |-> i, row |-> p[t][i]]>>
    BY <2>2, OneRow
  <2>5. SameRefusal(k, x, y) /\ Shown(x, y)
    BY <2>1, <2>3, <2>4 DEF SameRefusal, Shown
  <2> QED
    BY <2>x, <2>y, <2>3, <2>4, <2>5, ReadBoth
<1> QED
  BY <1>1, <1>2

LEMMA ListBoth ==
  ASSUME NEW m, NEW p, NEW now, DbInv(m, p), Dated(m, p, now), NEW j, NEW k, NEW t \in Tables,
         NEW ids, ids \subseteq DOMAIN m[t]
  PROVE  Agree(m, p, j, k, MemList(m, t, ids), SelectAll(p, t, ids))
<1>x. PICK x : x = MemList(m, t, ids)
  OBVIOUS
<1>y. PICK y : y = SelectAll(p, t, ids)
  OBVIOUS
<1>1. x.db = m /\ x.why = "none"
  BY <1>x DEF MemList, Answer
<1>2. y.db = p /\ y.why = "none"
  BY <1>y DEF SelectAll, Answer
<1>3. AlikeRows(x.rows, y.rows)
  BY <1>x, <1>y, ListAlike
<1>4. SameRefusal(k, x, y)
  BY <1>1, <1>2 DEF SameRefusal
<1> QED
  BY <1>x, <1>y, <1>1, <1>2, <1>3, <1>4, ReadBoth

\* The statement that reads the messages of a conversation, read before as k.seen.
LEMMA ConversationRead ==
  ASSUME NEW m, NEW p, NEW now, DbInv(m, p), Dated(m, p, now), NEW j, NEW k, SameCall(j, k), k.step # 1,
         k.id \in DOMAIN p["conversations"], k.seen \in Nat, k.seen <= p["conversations"][k.id].data
  PROVE  Agree(m, p, j, k, MemGetConversation(m, j), PgGetConversation(p, k))
<1>i. PICK id : id = k.id
  OBVIOUS
<1>x. PICK x : x = MemGetConversation(m, j)
  OBVIOUS
<1>y. PICK y : y = PgGetConversation(p, k)
  OBVIOUS
<1>r. PICK r : r = MemList(m, "messages", OwnedBy(m, "messages", id)).rows
  OBVIOUS
<1>s. PICK s : s = SelectAll(p, "messages", OwnedBy(p, "messages", id)).rows
  OBVIOUS
<1>a. PICK a : a = [of |-> "conversations", id |-> id, row |-> m["conversations"][id]]
  OBVIOUS
<1>b. PICK b : b = [of |-> "conversations", id |-> id, row |-> [p["conversations"][id] EXCEPT !.data = k.seen]]
  OBVIOUS
<1>1. "conversations" \in Tables /\ DbType(m) /\ DbType(p) /\ SameDb(m, p) /\ j.id = id
  BY <1>i DEF Tables, DbInv, SameCall
<1>2. id \in DOMAIN m["conversations"] /\ id \in DOMAIN p["conversations"]
  BY <1>i, <1>1, SameParts
<1>3. Having(m, "conversations", id) = {id} /\ Having(p, "conversations", id) = {id} /\ Only({id}) = id
  BY <1>2, OnlyIn DEF Having
<1>4. x.db = m /\ x.why = "none" /\ x.rows = <<a>> \o r
  <2>c. PICK conv : conv = MemGet(m, "conversations", Having(m, "conversations", id))
    OBVIOUS
  <2>1. conv = Answer(m, "conversations", <<id>>)
    BY <1>3, <2>c DEF MemGet
  <2>2. conv.db = m /\ conv.why = "none" /\ conv.rows = <<[of |-> "conversations", id |-> id, row |-> m["conversations"][id]]>>
    BY <2>1, OneRow
  <2>3. conv = [db |-> m, why |-> "none", rows |-> <<a>>]
    <3>q. PICK rows : rows = conv.rows
      OBVIOUS
    <3>1. conv = [db |-> m, why |-> "none", rows |-> rows]
      BY <2>1, <3>q DEF Answer
    <3> QED
      BY <1>a, <2>2, <3>q, <3>1
  <2>4. x = [conv EXCEPT !.rows = @ \o r]
    BY <1>r, <1>x, <1>1, <2>c, <2>2 DEF MemGetConversation
  <2> QED
    BY <2>3, <2>4
<1>5. y.db = p /\ y.why = "none" /\ y.rows = <<b>> \o s
  <2>c. PICK conv : conv = SelectOne(p, "conversations", Having(p, "conversations", id))
    OBVIOUS
  <2>d. PICK d : d = [of |-> "conversations", id |-> id, row |-> p["conversations"][id]]
    OBVIOUS
  <2>1. conv = Answer(p, "conversations", <<id>>)
    BY <1>3, <2>c DEF SelectOne
  <2>2. conv.db = p /\ conv.why = "none" /\ conv.rows = <<[of |-> "conversations", id |-> id, row |-> p["conversations"][id]]>>
    BY <2>1, OneRow
  <2>3. conv = [db |-> p, why |-> "none", rows |-> <<d>>]
    <3>q. PICK rows : rows = conv.rows
      OBVIOUS
    <3>1. conv = [db |-> p, why |-> "none", rows |-> rows]
      BY <2>1, <3>q DEF Answer
    <3> QED
      BY <2>d, <2>2, <3>q, <3>1
  <2>4. y = [conv EXCEPT !.rows = <<[@[1] EXCEPT !.row.data = k.seen]>> \o s]
    BY <1>i, <1>s, <1>y, <2>c DEF PgGetConversation
  <2>5. [d EXCEPT !.row.data = k.seen] = b
    BY <1>b, <2>d
  <2>6. conv.rows[1] = d
    BY <2>3
  <2>7. y = [conv EXCEPT !.rows = <<b>> \o s]
    BY <2>4, <2>5, <2>6
  <2> QED
    BY <2>3, <2>7
<1>6. AlikeRows(<<a>> \o r, <<b>> \o s)
  BY <1>i, <1>r, <1>s, <1>a, <1>b, <1>2, ConversationAlike
<1>7. SameRefusal(k, x, y)
  BY <1>4, <1>5 DEF SameRefusal
<1> QED
  BY <1>x, <1>y, <1>4, <1>5, <1>6, <1>7, ReadBoth

\* There is no such conversation to read.
LEMMA ConversationMissing ==
  ASSUME NEW m, NEW p, DbInv(m, p), NEW j, NEW k, SameCall(j, k), k.step = 1,
         k.id \notin DOMAIN p["conversations"]
  PROVE  Agree(m, p, j, k, MemGetConversation(m, j), PgGetConversation(p, k))
<1>1. Having(m, "conversations", j.id) = {} /\ Having(p, "conversations", k.id) = {}
  <2>1. "conversations" \in Tables /\ j.id = k.id
    BY DEF Tables, SameCall
  <2>2. k.id \notin DOMAIN m["conversations"]
    BY <2>1, SameParts DEF DbInv
  <2> QED
    BY <2>1, <2>2 DEF Having
<1>2. MemGet(m, "conversations", Having(m, "conversations", j.id)) = Refuse(m, "not found")
  BY <1>1 DEF MemGet
<1>3. Refuse(m, "not found").why # "none"
  BY DEF Refuse
<1>4. MemGetConversation(m, j) = Refuse(m, "not found")
  BY <1>2, <1>3 DEF MemGetConversation
<1>5. PgGetConversation(p, k) = Refuse(p, "not found")
  BY <1>1 DEF PgGetConversation, SelectOne
<1> QED
  BY <1>4, <1>5, RefuseBoth

(***************************************************************************)
(* The calls                                                               *)
(***************************************************************************)

Readings == {
  "GetUserByWallet", "GetUser", "GetGoal", "GetGoalsByUser", "ListActiveGoals",
  "GetCheckIn", "ListViolations", "GetWalletApproval", "GetApiKeyByHash",
  "ListApiKeysByUser", "GetTelegramLinkByChatID", "ListAgentLinksByUser",
  "GetAgentLinkByTokenHash", "GetConversation"}

\* Their key is that of the row they are about.
Keying == {
  "CreateUser", "CreateGoal", "UpsertCheckIn", "CreateViolationIfAbsent",
  "UpsertWalletApproval", "CreateApiKey", "CreateTelegramLinkCode",
  "UpsertTelegramLink", "CreateAgentLink"}

OtherWrites == {
  "UpdateGoal", "ArchiveGoal", "CreateViolation", "UpdateViolation",
  "TouchApiKey", "RevokeApiKey", "ConsumeTelegramLinkCode", "RevokeAgentLink",
  "CreateConversation", "AppendMessage"}

Operations == Readings \union Keying \union OtherWrites

CallRecord == [op: Operations, id: Nat, key: Nat, data: Nat, ref: Nat, at: Nat, step: Nat, seen: Nat]

\* Nothing undoes what a call of several statements has seen so far: a slip that
\* is reported, a key that is revoked, a conversation that exists and was touched.
Settled(p, k) ==
  /\ k.op = "CreateViolationIfAbsent" /\ k.step # 1 => Owned(p, "violations", k.id, k.key) # {}
  /\ k.op = "RevokeApiKey" =>
       /\ k.id = 0 \/ k.id \in DOMAIN p["apiKeys"]
       /\ k.step # 1 => \A i \in Having(p, "apiKeys", k.id) : p.apiKeys[i].done
  /\ k.op = "AppendMessage" /\ k.step # 1 => k.id \in DOMAIN p["conversations"]
  /\ k.op = "GetConversation" /\ k.step # 1 =>
       k.id \in DOMAIN p["conversations"] /\ k.seen <= p["conversations"][k.id].data

\* The calls that insert a row of a user, or of a goal.
OfUsers == {"CreateGoal", "UpsertWalletApproval", "CreateApiKey", "CreateTelegramLinkCode",
  "UpsertTelegramLink", "CreateAgentLink", "CreateConversation"}
OfGoals == {"UpsertCheckIn", "CreateViolation", "CreateViolationIfAbsent"}

\* The rows a call names exist, or are those nobody could have.
Named(p, k) ==
  \/ Orphan(k)
  \/ /\ k.op \in OfUsers => k.id \in DOMAIN p["users"]
     /\ k.op \in OfGoals => k.id \in DOMAIN p["goals"]
     /\ k.op = "CreateAgentLink" => k.ref \in DOMAIN p["apiKeys"]

WellKeyed(k) ==
  /\ k.op \in Keying => k.key \in Keys
  /\ k.op = "UpdateGoal" => k.key \in Keys \/ k.key = NoKey

CallInv(f, p, k) ==
  /\ k \in CallRecord /\ WellKeyed(k) /\ Settled(p, k) /\ Named(p, k)
  /\ [k EXCEPT !.at = 0, !.step = 1, !.seen = 0] \in Methods[f]

LEMMA ReadingsAgrees ==
  ASSUME NEW m, NEW p, NEW now, DbInv(m, p), Dated(m, p, now), NEW j, NEW k, SameCall(j, k), k.op \in Readings,
         k.seen \in Nat, Settled(p, k), ~PgContinues(p, k)
  PROVE  Agree(m, p, j, k, Memory(m, j), Postgres(p, k))
<1>0. /\ j.op = k.op /\ j.id = k.id /\ j.key = k.key
      /\ {"users", "goals", "checkIns", "violations", "approvals", "apiKeys", "chats", "agentLinks"} \subseteq Tables
      /\ DbType(m) /\ DbType(p) /\ SameDb(m, p)
  BY DEF SameCall, Tables, DbInv
<1>1. CASE k.op = "GetUserByWallet"
  <2>i. PICK ids : ids = WithKey(m, "users", j.key)
    OBVIOUS
  <2>1. WithKey(p, "users", k.key) = ids /\ ids \subseteq DOMAIN m["users"]
    <3>1. WithKey(p, "users", k.key) = ids
      BY <1>0, <2>i, SameSets
    <3> QED
      BY <2>i, <3>1 DEF WithKey
  <2>2. Memory(m, j) = MemGet(m, "users", ids)
    BY <1>0, <1>1, <2>i DEF Memory, MemGetUserByWallet
  <2>3. Postgres(p, k) = SelectOne(p, "users", ids)
    BY <1>1, <2>1 DEF Postgres, PgGetUserByWallet
  <2>4. Agree(m, p, j, k, MemGet(m, "users", ids), SelectOne(p, "users", ids))
    BY <1>0, <2>1, GetBoth
  <2> QED
    BY <2>2, <2>3, <2>4
<1>2. CASE k.op = "GetUser"
  <2>i. PICK ids : ids = Having(m, "users", j.id)
    OBVIOUS
  <2>1. Having(p, "users", k.id) = ids /\ ids \subseteq DOMAIN m["users"]
    <3>1. Having(p, "users", k.id) = ids
      BY <1>0, <2>i, SameSets
    <3> QED
      BY <2>i, <3>1 DEF Having
  <2>2. Memory(m, j) = MemGet(m, "users", ids)
    BY <1>0, <1>2, <2>i DEF Memory, MemGetUser
  <2>3. Postgres(p, k) = SelectOne(p, "users", ids)
    BY <1>2, <2>1 DEF Postgres, PgGetUser
  <2>4. Agree(m, p, j, k, MemGet(m, "users", ids), SelectOne(p, "users", ids))
    BY <1>0, <2>1, GetBoth
  <2> QED
    BY <2>2, <2>3, <2>4
<1>3. CASE k.op = "GetGoal"
  <2>i. PICK ids : ids = Having(m, "goals", j.id)
    OBVIOUS
  <2>1. Having(p, "goals", k.id) = ids /\ ids \subseteq DOMAIN m["goals"]
    <3>1. Having(p, "goals", k.id) = ids
      BY <1>0, <2>i, SameSets
    <3> QED
      BY <2>i, <3>1 DEF Having
  <2>2. Memory(m, j) = MemGet(m, "goals", ids)
    BY <1>0, <1>3, <2>i DEF Memory, MemGetGoal
  <2>3. Postgres(p, k) = SelectOne(p, "goals", ids)
    BY <1>3, <2>1 DEF Postgres, PgGetGoal
  <2>4. Agree(m, p, j, k, MemGet(m, "goals", ids), SelectOne(p, "goals", ids))
    BY <1>0, <2>1, GetBoth
  <2> QED
    BY <2>2, <2>3, <2>4
<1>4. CASE k.op = "GetGoalsByUser"
  <2>i. PICK ids : ids = OwnedBy(m, "goals", j.id)
    OBVIOUS
  <2>1. OwnedBy(p, "goals", k.id) = ids /\ ids \subseteq DOMAIN m["goals"]
    <3>1. OwnedBy(p, "goals", k.id) = ids
      BY <1>0, <2>i, SameOwned
    <3> QED
      BY <2>i, <3>1 DEF OwnedBy
  <2>2. Memory(m, j) = MemList(m, "goals", ids)
    BY <1>0, <1>4, <2>i DEF Memory, MemGetGoalsByUser
  <2>3. Postgres(p, k) = SelectAll(p, "goals", ids)
    BY <1>4, <2>1 DEF Postgres, PgGetGoalsByUser
  <2>4. Agree(m, p, j, k, MemList(m, "goals", ids), SelectAll(p, "goals", ids))
    BY <1>0, <2>1, ListBoth
  <2> QED
    BY <2>2, <2>3, <2>4
<1>5. CASE k.op = "ListActiveGoals"
  <2>i. PICK ids : ids = Open(m, "goals")
    OBVIOUS
  <2>1. Open(p, "goals") = ids /\ ids \subseteq DOMAIN m["goals"]
    <3>1. Open(p, "goals") = ids
      BY <1>0, <2>i, SameOwned
    <3> QED
      BY <2>i, <3>1 DEF Open
  <2>2. Memory(m, j) = MemList(m, "goals", ids)
    BY <1>0, <1>5, <2>i DEF Memory, MemListActiveGoals
  <2>3. Postgres(p, k) = SelectAll(p, "goals", ids)
    BY <1>5, <2>1 DEF Postgres, PgListActiveGoals
  <2>4. Agree(m, p, j, k, MemList(m, "goals", ids), SelectAll(p, "goals", ids))
    BY <1>0, <2>1, ListBoth
  <2> QED
    BY <2>2, <2>3, <2>4
<1>6. CASE k.op = "GetCheckIn"
  <2>i. PICK ids : ids = Owned(m, "checkIns", j.id, j.key)
    OBVIOUS
  <2>1. Owned(p, "checkIns", k.id, k.key) = ids /\ ids \subseteq DOMAIN m["checkIns"]
    <3>1. Owned(p, "checkIns", k.id, k.key) = ids
      BY <1>0, <2>i, SameSets
    <3> QED
      BY <2>i, <3>1 DEF Owned, WithKey
  <2>2. Memory(m, j) = MemGet(m, "checkIns", ids)
    BY <1>0, <1>6, <2>i DEF Memory, MemGetCheckIn
  <2>3. Postgres(p, k) = SelectOne(p, "checkIns", ids)
    BY <1>6, <2>1 DEF Postgres, PgGetCheckIn
  <2>4. Agree(m, p, j, k, MemGet(m, "checkIns", ids), SelectOne(p, "checkIns", ids))
    BY <1>0, <2>1, GetBoth
  <2> QED
    BY <2>2, <2>3, <2>4
<1>7. CASE k.op = "ListViolations"
  <2>i. PICK ids : ids = OwnedBy(m, "violations", j.id)
    OBVIOUS
  <2>1. OwnedBy(p, "violations", k.id) = ids /\ ids \subseteq DOMAIN m["violations"]
    <3>1. OwnedBy(p, "violations", k.id) = ids
      BY <1>0, <2>i, SameOwned
    <3> QED
      BY <2>i, <3>1 DEF OwnedBy
  <2>2. Memory(m, j) = MemList(m, "violations", ids)
    BY <1>0, <1>7, <2>i DEF Memory, MemListViolations
  <2>3. Postgres(p, k) = SelectAll(p, "violations", ids)
    BY <1>7, <2>1 DEF Postgres, PgListViolations
  <2>4. Agree(m, p, j, k, MemList(m, "violations", ids), SelectAll(p, "violations", ids))
    BY <1>0, <2>1, ListBoth
  <2> QED
    BY <2>2, <2>3, <2>4
<1>8. CASE k.op = "GetWalletApproval"
  <2>i. PICK ids : ids = Owned(m, "approvals", j.id, j.key)
    OBVIOUS
  <2>1. Owned(p, "approvals", k.id, k.key) = ids /\ ids \subseteq DOMAIN m["approvals"]
    <3>1. Owned(p, "approvals", k.id, k.key) = ids
      BY <1>0, <2>i, SameSets
    <3> QED
      BY <2>i, <3>1 DEF Owned, WithKey
  <2>2. Memory(m, j) = MemGet(m, "approvals", ids)
    BY <1>0, <1>8, <2>i DEF Memory, MemGetWalletApproval
  <2>3. Postgres(p, k) = SelectOne(p, "approvals", ids)
    BY <1>8, <2>1 DEF Postgres, PgGetWalletApproval
  <2>4. Agree(m, p, j, k, MemGet(m, "approvals", ids), SelectOne(p, "approvals", ids))
    BY <1>0, <2>1, GetBoth
  <2> QED
    BY <2>2, <2>3, <2>4
<1>9. CASE k.op = "GetApiKeyByHash"
  <2>i. PICK ids : ids = WithKey(m, "apiKeys", j.key)
    OBVIOUS
  <2>1. WithKey(p, "apiKeys", k.key) = ids /\ ids \subseteq DOMAIN m["apiKeys"]
    <3>1. WithKey(p, "apiKeys", k.key) = ids
      BY <1>0, <2>i, SameSets
    <3> QED
      BY <2>i, <3>1 DEF WithKey
  <2>2. Memory(m, j) = MemGet(m, "apiKeys", ids)
    BY <1>0, <1>9, <2>i DEF Memory, MemGetApiKeyByHash
  <2>3. Postgres(p, k) = SelectOne(p, "apiKeys", ids)
    BY <1>9, <2>1 DEF Postgres, PgGetApiKeyByHash
  <2>4. Agree(m, p, j, k, MemGet(m, "apiKeys", ids), SelectOne(p, "apiKeys", ids))
    BY <1>0, <2>1, GetBoth
  <2> QED
    BY <2>2, <2>3, <2>4
<1>10. CASE k.op = "ListApiKeysByUser"
  <2>i. PICK ids : ids = OwnedBy(m, "apiKeys", j.id)
    OBVIOUS
  <2>1. OwnedBy(p, "apiKeys", k.id) = ids /\ ids \subseteq DOMAIN m["apiKeys"]
    <3>1. OwnedBy(p, "apiKeys", k.id) = ids
      BY <1>0, <2>i, SameOwned
    <3> QED
      BY <2>i, <3>1 DEF OwnedBy
  <2>2. Memory(m, j) = MemList(m, "apiKeys", ids)
    BY <1>0, <1>10, <2>i DEF Memory, MemListApiKeysByUser
  <2>3. Postgres(p, k) = SelectAll(p, "apiKeys", ids)
    BY <1>10, <2>1 DEF Postgres, PgListApiKeysByUser
  <2>4. Agree(m, p, j, k, MemList(m, "apiKeys", ids), SelectAll(p, "apiKeys", ids))
    BY <1>0, <2>1, ListBoth
  <2> QED
    BY <2>2, <2>3, <2>4
<1>11. CASE k.op = "GetTelegramLinkByChatID"
  <2>i. PICK ids : ids = WithKey(m, "chats", j.key)
    OBVIOUS
  <2>1. WithKey(p, "chats", k.key) = ids /\ ids \subseteq DOMAIN m["chats"]
    <3>1. WithKey(p, "chats", k.key) = ids
      BY <1>0, <2>i, SameSets
    <3> QED
      BY <2>i, <3>1 DEF WithKey
  <2>2. Memory(m, j) = MemGet(m, "chats", ids)
    BY <1>0, <1>11, <2>i DEF Memory, MemGetTelegramLinkByChatID
  <2>3. Postgres(p, k) = SelectOne(p, "chats", ids)
    BY <1>11, <2>1 DEF Postgres, PgGetTelegramLinkByChatID
  <2>4. Agree(m, p, j, k, MemGet(m, "chats", ids), SelectOne(p, "chats", ids))
    BY <1>0, <2>1, GetBoth
  <2> QED
    BY <2>2, <2>3, <2>4
<1>12. CASE k.op = "ListAgentLinksByUser"
  <2>i. PICK ids : ids = OwnedBy(m, "agentLinks", j.id)
    OBVIOUS
  <2>1. OwnedBy(p, "agentLinks", k.id) = ids /\ ids \subseteq DOMAIN m["agentLinks"]
    <3>1. OwnedBy(p, "agentLinks", k.id) = ids
      BY <1>0, <2>i, SameOwned
    <3> QED
      BY <2>i, <3>1 DEF OwnedBy
  <2>2. Memory(m, j) = MemList(m, "agentLinks", ids)
    BY <1>0, <1>12, <2>i DEF Memory, MemListAgentLinksByUser
  <2>3. Postgres(p, k) = SelectAll(p, "agentLinks", ids)
    BY <1>12, <2>1 DEF Postgres, PgListAgentLinksByUser
  <2>4. Agree(m, p, j, k, MemList(m, "agentLinks", ids), SelectAll(p, "agentLinks", ids))
    BY <1>0, <2>1, ListBoth
  <2> QED
    BY <2>2, <2>3, <2>4
<1>13. CASE k.op = "GetAgentLinkByTokenHash"
  <2>i. PICK ids : ids = WithKey(m, "agentLinks", j.key)
    OBVIOUS
  <2>1. WithKey(p, "agentLinks", k.key) = ids /\ ids \subseteq DOMAIN m["agentLinks"]
    <3>1. WithKey(p, "agentLinks", k.key) = ids
      BY <1>0, <2>i, SameSets
    <3> QED
      BY <2>i, <3>1 DEF WithKey
  <2>2. Memory(m, j) = MemGet(m, "agentLinks", ids)
    BY <1>0, <1>13, <2>i DEF Memory, MemGetAgentLinkByTokenHash
  <2>3. Postgres(p, k) = SelectOne(p, "agentLinks", ids)
    BY <1>13, <2>1 DEF Postgres, PgGetAgentLinkByTokenHash
  <2>4. Agree(m, p, j, k, MemGet(m, "agentLinks", ids), SelectOne(p, "agentLinks", ids))
    BY <1>0, <2>1, GetBoth
  <2> QED
    BY <2>2, <2>3, <2>4
<1>14. CASE k.op = "GetConversation"
  <2>1. Memory(m, j) = MemGetConversation(m, j) /\ Postgres(p, k) = PgGetConversation(p, k)
    BY <1>0, <1>14 DEF Memory, Postgres
  <2>2. CASE k.step = 1
    <3>1. k.id \notin DOMAIN p["conversations"]
      BY <1>14, <2>2 DEF PgContinues
    <3> QED
      BY <2>1, <2>2, <3>1, ConversationMissing
  <2>3. CASE k.step # 1
    <3>1. k.id \in DOMAIN p["conversations"] /\ k.seen <= p["conversations"][k.id].data
      BY <1>14, <2>3 DEF Settled
    <3> QED
      BY <2>1, <2>3, <3>1, ConversationRead
  <2> QED
    BY <2>2, <2>3
<1> QED
  BY <1>1, <1>2, <1>3, <1>4, <1>5, <1>6, <1>7, <1>8, <1>9, <1>10, <1>11, <1>12, <1>13, <1>14 DEF Readings

LEMMA KeyingAgrees ==
  ASSUME NEW m, NEW p, DbInv(m, p), NEW j, NEW k, SameCall(j, k), k.op \in Keying,
         WellKeyed(k), Settled(p, k), Named(m, k), ~PgContinues(p, k)
  PROVE  Agree(m, p, j, k, Memory(m, j), Postgres(p, k))
<1>0. j.op = k.op
  BY DEF SameCall
<1>1. CASE k.op = "CreateUser"
  <2>1. Memory(m, j) = MemCreateUser(m, j) /\ Postgres(p, k) = PgCreateUser(p, k)
    BY <1>0, <1>1 DEF Memory, Postgres
  <2>2. k.key \in Keys
    BY <1>1 DEF WellKeyed, Keying
  <2> QED
    BY <2>1, <2>2, CreateUserAgrees
<1>2. CASE k.op = "CreateGoal"
  <2>1. Memory(m, j) = MemCreateGoal(m, j) /\ Postgres(p, k) = PgCreateGoal(p, k)
    BY <1>0, <1>2 DEF Memory, Postgres
  <2>2. k.key \in Keys
    BY <1>2 DEF WellKeyed, Keying
  <2>3. k.id \in DOMAIN m["users"] \/ Orphan(k)
    BY <1>2 DEF Named, OfUsers
  <2> QED
    BY <2>1, <2>2, <2>3, CreateGoalAgrees
<1>3. CASE k.op = "UpsertCheckIn"
  <2>1. Memory(m, j) = MemUpsertCheckIn(m, j) /\ Postgres(p, k) = PgUpsertCheckIn(p, k)
    BY <1>0, <1>3 DEF Memory, Postgres
  <2>2. k.key \in Keys
    BY <1>3 DEF WellKeyed, Keying
  <2>3. k.id \in DOMAIN m["goals"] \/ Orphan(k)
    BY <1>3 DEF Named, OfGoals
  <2> QED
    BY <2>1, <2>2, <2>3, UpsertCheckInAgrees
<1>4. CASE k.op = "CreateViolationIfAbsent"
  <2>1. Memory(m, j) = MemCreateViolationIfAbsent(m, j) /\ Postgres(p, k) = PgCreateViolationIfAbsent(p, k)
    BY <1>0, <1>4 DEF Memory, Postgres
  <2>2. k.key \in Keys
    BY <1>4 DEF WellKeyed, Keying
  <2>3. CASE k.step = 1
    <3>1. Owned(p, "violations", k.id, k.key) = {}
      BY <1>4, <2>3 DEF PgContinues
    <3>2. k.id \in DOMAIN m["goals"] \/ Orphan(k)
      BY <1>4 DEF Named, OfGoals
    <3> QED
      BY <2>1, <2>2, <2>3, <3>1, <3>2, ViolationCreated
  <2>4. CASE k.step # 1
    <3>1. Owned(p, "violations", k.id, k.key) # {}
      BY <1>4, <2>4 DEF Settled
    <3> QED
      BY <2>1, <2>4, <3>1, ViolationFound
  <2> QED
    BY <2>3, <2>4
<1>5. CASE k.op = "UpsertWalletApproval"
  <2>1. Memory(m, j) = MemUpsertWalletApproval(m, j) /\ Postgres(p, k) = PgUpsertWalletApproval(p, k)
    BY <1>0, <1>5 DEF Memory, Postgres
  <2>2. k.key \in Keys
    BY <1>5 DEF WellKeyed, Keying
  <2>3. k.id \in DOMAIN m["users"] \/ Orphan(k)
    BY <1>5 DEF Named, OfUsers
  <2> QED
    BY <2>1, <2>2, <2>3, UpsertWalletApprovalAgrees
<1>6. CASE k.op = "CreateApiKey"
  <2>1. Memory(m, j) = MemCreateApiKey(m, j) /\ Postgres(p, k) = PgCreateApiKey(p, k)
    BY <1>0, <1>6 DEF Memory, Postgres
  <2>2. k.key \in Keys
    BY <1>6 DEF WellKeyed, Keying
  <2>3. k.id \in DOMAIN m["users"] \/ Orphan(k)
    BY <1>6 DEF Named, OfUsers
  <2> QED
    BY <2>1, <2>2, <2>3, CreateApiKeyAgrees
<1>7. CASE k.op = "CreateTelegramLinkCode"
  <2>1. Memory(m, j) = MemCreateTelegramLinkCode(m, j) /\ Postgres(p, k) = PgCreateTelegramLinkCode(p, k)
    BY <1>0, <1>7 DEF Memory, Postgres
  <2>2. k.key \in Keys
    BY <1>7 DEF WellKeyed, Keying
  <2>3. k.id \in DOMAIN m["users"] \/ Orphan(k)
    BY <1>7 DEF Named, OfUsers
  <2> QED
    BY <2>1, <2>2, <2>3, CreateTelegramLinkCodeAgrees
<1>8. CASE k.op = "UpsertTelegramLink"
  <2>1. Memory(m, j) = MemUpsertTelegramLink(m, j) /\ Postgres(p, k) = PgUpsertTelegramLink(p, k)
    BY <1>0, <1>8 DEF Memory, Postgres
  <2>2. k.key \in Keys
    BY <1>8 DEF WellKeyed, Keying
  <2>3. k.id \in DOMAIN m["users"] \/ Orphan(k)
    BY <1>8 DEF Named, OfUsers
  <2> QED
    BY <2>1, <2>2, <2>3, UpsertTelegramLinkAgrees
<1>9. CASE k.op = "CreateAgentLink"
  <2>1. Memory(m, j) = MemCreateAgentLink(m, j) /\ Postgres(p, k) = PgCreateAgentLink(p, k)
    BY <1>0, <1>9 DEF Memory, Postgres
  <2>2. k.key \in Keys
    BY <1>9 DEF WellKeyed, Keying
  <2>3. (k.id \in DOMAIN m["users"] /\ k.ref \in DOMAIN m["apiKeys"]) \/ Orphan(k)
    BY <1>9 DEF Named, OfUsers
  <2> QED
    BY <2>1, <2>2, <2>3, CreateAgentLinkAgrees
<1> QED
  BY <1>1, <1>2, <1>3, <1>4, <1>5, <1>6, <1>7, <1>8, <1>9 DEF Keying

LEMMA OtherWritesAgrees ==
  ASSUME NEW m, NEW p, DbInv(m, p), NEW j, NEW k, SameCall(j, k), k.op \in OtherWrites,
         WellKeyed(k), Settled(p, k), Named(m, k), ~PgContinues(p, k)
  PROVE  Agree(m, p, j, k, Memory(m, j), Postgres(p, k))
<1>0. j.op = k.op
  BY DEF SameCall
<1>1. CASE k.op = "UpdateGoal"
  <2>1. Memory(m, j) = MemUpdateGoal(m, j) /\ Postgres(p, k) = PgUpdateGoal(p, k)
    BY <1>0, <1>1 DEF Memory, Postgres
  <2>2. k.key \in Keys \/ k.key = NoKey
    BY <1>1 DEF WellKeyed
  <2> QED
    BY <2>1, <2>2, UpdateGoalAgrees
<1>2. CASE k.op = "ArchiveGoal"
  <2>1. Memory(m, j) = MemArchiveGoal(m, j) /\ Postgres(p, k) = PgArchiveGoal(p, k)
    BY <1>0, <1>2 DEF Memory, Postgres
  <2> QED
    BY <2>1, ArchiveGoalAgrees
<1>3. CASE k.op = "CreateViolation"
  <2>1. Memory(m, j) = MemCreateViolation(m, j) /\ Postgres(p, k) = PgCreateViolation(p, k)
    BY <1>0, <1>3 DEF Memory, Postgres
  <2>2. k.id \in DOMAIN m["goals"] \/ Orphan(k)
    BY <1>3 DEF Named, OfGoals
  <2> QED
    BY <2>1, <2>2, CreateViolationAgrees
<1>4. CASE k.op = "UpdateViolation"
  <2>1. Memory(m, j) = MemUpdateViolation(m, j) /\ Postgres(p, k) = PgUpdateViolation(p, k)
    BY <1>0, <1>4 DEF Memory, Postgres
  <2> QED
    BY <2>1, UpdateViolationAgrees
<1>5. CASE k.op = "TouchApiKey"
  <2>1. Memory(m, j) = MemTouchApiKey(m, j) /\ Postgres(p, k) = PgTouchApiKey(p, k)
    BY <1>0, <1>5 DEF Memory, Postgres
  <2> QED
    BY <2>1, TouchApiKeyAgrees
<1>6. CASE k.op = "RevokeApiKey"
  <2>1. Memory(m, j) = MemRevokeApiKey(m, j) /\ Postgres(p, k) = PgRevokeApiKey(p, k)
    BY <1>0, <1>6 DEF Memory, Postgres
  <2>2. CASE k.step = 1
    BY <2>1, <2>2, RevokeApiKeyAgrees
  <2>3. CASE k.step # 1
    <3>1. \A i \in Having(p, "apiKeys", k.id) : p.apiKeys[i].done
      BY <1>6, <2>3 DEF Settled
    <3> QED
      BY <2>1, <2>3, <3>1, RevokedAlready
  <2> QED
    BY <2>2, <2>3
<1>7. CASE k.op = "ConsumeTelegramLinkCode"
  <2>1. Memory(m, j) = MemConsumeTelegramLinkCode(m, j) /\ Postgres(p, k) = PgConsumeTelegramLinkCode(p, k)
    BY <1>0, <1>7 DEF Memory, Postgres
  <2> QED
    BY <2>1, ConsumeTelegramLinkCodeAgrees
<1>8. CASE k.op = "RevokeAgentLink"
  <2>1. Memory(m, j) = MemRevokeAgentLink(m, j) /\ Postgres(p, k) = PgRevokeAgentLink(p, k)
    BY <1>0, <1>8 DEF Memory, Postgres
  <2> QED
    BY <2>1, RevokeAgentLinkAgrees
<1>9. CASE k.op = "CreateConversation"
  <2>1. Memory(m, j) = MemCreateConversation(m, j) /\ Postgres(p, k) = PgCreateConversation(p, k)
    BY <1>0, <1>9 DEF Memory, Postgres
  <2>2. k.id \in DOMAIN m["users"] \/ Orphan(k)
    BY <1>9 DEF Named, OfUsers
  <2> QED
    BY <2>1, <2>2, CreateConversationAgrees
<1>10. CASE k.op = "AppendMessage"
  <2>1. Memory(m, j) = MemAppendMessage(m, j) /\ Postgres(p, k) = PgAppendMessage(p, k)
    BY <1>0, <1>10 DEF Memory, Postgres
  <2>2. CASE k.id \in DOMAIN p["conversations"]
    <3>1. k.step # 1
      BY <1>10, <2>2 DEF PgContinues
    <3> QED
      BY <2>1, <2>2, <3>1, AppendMessageAgrees
  <2>3. CASE k.id \notin DOMAIN p["conversations"]
    <3>1. k.step = 1
      BY <1>10, <2>3 DEF Settled
    <3> QED
      BY <2>1, <2>3, <3>1, NoConversation
  <2> QED
    BY <2>2, <2>3
<1> QED
  BY <1>1, <1>2, <1>3, <1>4, <1>5, <1>6, <1>7, <1>8, <1>9, <1>10 DEF OtherWrites

\* What a call has seen stays, whatever other calls do.
LEMMA SettledStays ==
  ASSUME NEW p, NEW after, DbType(p), DbType(after), Stays(p, after), NEW k \in CallRecord, Settled(p, k)
  PROVE  Settled(after, k)
<1>1. ASSUME k.op = "CreateViolationIfAbsent", k.step # 1
      PROVE  Owned(after, "violations", k.id, k.key) # {}
  <2>1. PICK i \in DOMAIN p["violations"] : p["violations"][i].key = k.key /\ p["violations"][i].owner = k.id
    BY <1>1 DEF Settled, Owned, WithKey
  <2>2. "violations" \in Tables
    BY DEF Tables
  <2>3. /\ i \in DOMAIN after["violations"]
        /\ after["violations"][i].key = k.key /\ after["violations"][i].owner = k.id
    BY <2>1, <2>2 DEF Stays, StaysRow
  <2> QED
    BY <2>3 DEF Owned, WithKey
<1>2. ASSUME k.op = "RevokeApiKey"
      PROVE  /\ k.id = 0 \/ k.id \in DOMAIN after["apiKeys"]
             /\ k.step # 1 => \A i \in Having(after, "apiKeys", k.id) : after.apiKeys[i].done
  <2>1. "apiKeys" \in Tables
    BY DEF Tables
  <2>2. k.id = 0 \/ k.id \in DOMAIN p["apiKeys"]
    BY <1>2 DEF Settled
  <2>3. k.id = 0 \/ k.id \in DOMAIN after["apiKeys"]
    BY <2>1, <2>2 DEF Stays
  <2>4. ASSUME k.step # 1, NEW i \in Having(after, "apiKeys", k.id)
        PROVE  after["apiKeys"][i].done
    <3>1. i = k.id /\ i # 0
      BY <2>1, <2>4, RowTypes DEF Having
    <3>2. i \in Having(p, "apiKeys", k.id) /\ i \in DOMAIN p["apiKeys"]
      BY <2>2, <3>1 DEF Having
    <3>3. p["apiKeys"][i].done
      BY <1>2, <2>4, <3>2 DEF Settled
    <3>4. StaysRow("apiKeys", p["apiKeys"][i], after["apiKeys"][i])
      BY <2>1, <3>2 DEF Stays
    <3> QED
      BY <3>3, <3>4 DEF StaysRow
  <2> QED
    BY <2>3, <2>4
<1>3. ASSUME k.op = "AppendMessage", k.step # 1
      PROVE  k.id \in DOMAIN after["conversations"]
  <2>1. k.id \in DOMAIN p["conversations"] /\ "conversations" \in Tables
    BY <1>3 DEF Settled, Tables
  <2> QED
    BY <2>1 DEF Stays
<1>4. ASSUME k.op = "GetConversation", k.step # 1
      PROVE  k.id \in DOMAIN after["conversations"] /\ k.seen <= after["conversations"][k.id].data
  <2>i. PICK i : i = k.id
    OBVIOUS
  <2>1. i \in DOMAIN p["conversations"] /\ k.seen <= p["conversations"][i].data /\ "conversations" \in Tables
    BY <1>4, <2>i DEF Settled, Tables
  <2>2. i \in DOMAIN after["conversations"] /\ after["conversations"][i].data >= p["conversations"][i].data
    BY <2>1 DEF Stays, StaysRow
  <2>3. p["conversations"][i].data \in Nat /\ after["conversations"][i].data \in Nat /\ k.seen \in Nat
    <3>1. p["conversations"][i] \in Row /\ after["conversations"][i] \in Row
      BY <2>1, <2>2, RowTypes
    <3> QED
      BY <3>1 DEF Row, CallRecord
  <2> QED
    BY <2>i, <2>1, <2>2, <2>3
<1> QED
  BY <1>1, <1>2, <1>3, <1>4 DEF Settled

LEMMA NamedStays ==
  ASSUME NEW p, NEW after, Stays(p, after), NEW k, Named(p, k)
  PROVE  Named(after, k)
<1>1. {"users", "goals", "apiKeys"} \subseteq Tables
  BY DEF Tables
<1>2. \A t \in {"users", "goals", "apiKeys"} : \A i \in DOMAIN p[t] : i \in DOMAIN after[t]
  BY <1>1 DEF Stays
<1> QED
  BY <1>2 DEF Named

\* A statement that another follows has seen what the last one relies on.
LEMMA ContinuesSettled ==
  ASSUME NEW p, DbType(p), NEW k \in CallRecord, Settled(p, k), PgContinues(p, k),
         NEW n \in CallRecord, n.op = k.op, n.id = k.id, n.key = k.key, n.seen = PgSees(p, k)
  PROVE  Settled(p, n)
<1>1. ASSUME n.op = "CreateViolationIfAbsent", n.step # 1
      PROVE  Owned(p, "violations", n.id, n.key) # {}
  BY <1>1 DEF Settled, PgContinues
<1>4. ASSUME n.op = "GetConversation", n.step # 1
      PROVE  n.id \in DOMAIN p["conversations"] /\ n.seen <= p["conversations"][n.id].data
  <2>1. n.id \in DOMAIN p["conversations"] /\ n.seen = p["conversations"][n.id].data
    BY <1>4 DEF PgContinues, PgSees
  <2>2. p["conversations"][n.id].data \in Nat
    <3>1. "conversations" \in Tables
      BY DEF Tables
    <3>2. p["conversations"][n.id] \in Row
      BY <2>1, <3>1, RowTypes
    <3> QED
      BY <3>2 DEF Row
  <2> QED
    BY <2>1, <2>2
<1>2. ASSUME n.op = "RevokeApiKey"
      PROVE  /\ n.id = 0 \/ n.id \in DOMAIN p["apiKeys"]
             /\ n.step # 1 => \A i \in Having(p, "apiKeys", n.id) : p.apiKeys[i].done
  <2>1. n.id = 0 \/ n.id \in DOMAIN p["apiKeys"]
    BY <1>2 DEF Settled
  <2>2. \A i \in Having(p, "apiKeys", n.id) : p.apiKeys[i].done
    BY <1>2 DEF PgContinues
  <2> QED
    BY <2>1, <2>2
<1>3. ASSUME n.op = "AppendMessage", n.step # 1
      PROVE  n.id \in DOMAIN p["conversations"]
  BY <1>3 DEF Settled, PgContinues
<1> QED
  BY <1>1, <1>2, <1>3, <1>4 DEF Settled

(***************************************************************************)
(* The arguments of the methods                                            *)
(***************************************************************************)

\* A call that has not been made: it has read no clock and run no statement.
Fresh(k) == k \in CallRecord /\ k.at = 0 /\ k.step = 1 /\ k.seen = 0

LEMMA Formers ==
  ASSUME NEW op \in Operations, NEW k
  PROVE  /\ k \in ById(op) \/ k \in Noting(op) => Fresh(k) /\ k.op = op /\ k.key = NoKey
         /\ k \in ByKey(op) \/ k \in Keyed(op) \/ k \in Writing(op)
              => Fresh(k) /\ k.op = op /\ k.key \in Keys
<1>1. ASSUME NEW id \in Nat, NEW key \in Nat, NEW data \in Nat, k = Call(op, id, key, data, 0)
      PROVE  Fresh(k) /\ k.op = op /\ k.key = key
  BY <1>1 DEF Call, Fresh, CallRecord
<1>2. Users \subseteq Nat /\ Keys \subseteq Nat /\ Data \subseteq Nat /\ 0 \in Nat /\ 1 \in Nat /\ NoKey \in Nat
  BY RowsAssumption DEF Users, NoKey
<1>3. ASSUME k \in ById(op) PROVE Fresh(k) /\ k.op = op /\ k.key = NoKey
  BY <1>1, <1>2, <1>3 DEF ById
<1>4. ASSUME k \in Noting(op) PROVE Fresh(k) /\ k.op = op /\ k.key = NoKey
  BY <1>1, <1>2, <1>4 DEF Noting
<1>5. ASSUME k \in ByKey(op) PROVE Fresh(k) /\ k.op = op /\ k.key \in Keys
  BY <1>1, <1>2, <1>5 DEF ByKey
<1>6. ASSUME k \in Keyed(op) PROVE Fresh(k) /\ k.op = op /\ k.key \in Keys
  BY <1>1, <1>2, <1>6 DEF Keyed
<1>7. ASSUME k \in Writing(op) PROVE Fresh(k) /\ k.op = op /\ k.key \in Keys
  BY <1>1, <1>2, <1>7 DEF Writing
<1> QED
  BY <1>3, <1>4, <1>5, <1>6, <1>7

\* An input of a method on the tables of f.
Proper(f, k) ==
  /\ Fresh(k) /\ WellKeyed(k)
  /\ k.op = "RevokeApiKey" => f = "apiKeys"
  /\ k.op \in OfUsers => Parent[f] = {"users"}
  /\ k.op \in OfGoals => Parent[f] = {"goals"}
  /\ k.op = "CreateAgentLink" => k.ref \in 0 .. 1

LEMMA ProperFormer ==
  ASSUME NEW f, NEW op \in Operations, NEW k, op = "RevokeApiKey" => f = "apiKeys",
         op \in OfUsers => Parent[f] = {"users"}, op \in OfGoals => Parent[f] = {"goals"},
         op # "CreateAgentLink",
         \/ op \notin Keying /\ (k \in ById(op) \/ k \in Noting(op))
         \/ k \in ByKey(op) \/ k \in Keyed(op) \/ k \in Writing(op)
  PROVE  Proper(f, k)
BY Formers DEF Proper, WellKeyed

LEMMA ProperLink ==
  ASSUME NEW k, k \in {[c EXCEPT !.ref = ref] : c \in Keyed("CreateAgentLink"), ref \in 0 .. 1}
  PROVE  Proper("agentLinks", k)
<1>1. PICK c \in Keyed("CreateAgentLink"), ref \in 0 .. 1 : k = [c EXCEPT !.ref = ref]
  OBVIOUS
<1>2. "CreateAgentLink" \in Operations
  BY DEF Operations, Keying
<1>3. Fresh(c) /\ c.op = "CreateAgentLink" /\ c.key \in Keys
  BY <1>2, Formers
<1>4. c \in CallRecord /\ ref \in Nat
  BY <1>3 DEF Fresh
<1>5. k \in CallRecord /\ k.op = c.op /\ k.key = c.key /\ k.at = c.at /\ k.step = c.step /\ k.seen = c.seen
      /\ k.ref = ref
  BY <1>1, <1>4 DEF CallRecord
<1>6. Parent["agentLinks"] = {"users"} /\ k.op \notin OfGoals
  BY <1>3, <1>5 DEF Parent, OfGoals
<1> QED
  BY <1>1, <1>3, <1>5, <1>6 DEF Proper, Fresh, WellKeyed

LEMMA ParentsOf ==
  /\ \A t \in {"goals", "approvals", "apiKeys", "codes", "chats", "agentLinks", "conversations"} :
       Parent[t] = {"users"}
  /\ \A t \in {"checkIns", "violations"} : Parent[t] = {"goals"}
BY DEF Parent

LEMMA MethodsProper ==
  ASSUME NEW f \in DOMAIN Methods, NEW k \in Methods[f]
  PROVE  Proper(f, k)
<1>0. f \in {"users", "goals", "checkIns", "violations", "approvals", "apiKeys", "codes", "chats",
              "agentLinks", "conversations"}
  BY DEF Methods
<1>1. CASE f = "users"
  <2>1. \/ k \in ByKey("CreateUser")
        \/ k \in Keyed("GetUserByWallet")
        \/ k \in ById("GetUser")
    BY <1>1 DEF Methods
  <2>2. /\ {"CreateUser", "GetUserByWallet", "GetUser"} \subseteq Operations
        /\ {"GetUser"} \cap Keying = {}
    BY DEF Operations, Readings, Keying, OtherWrites
  <2> QED
    BY <1>1, <2>1, <2>2, ProperFormer, ParentsOf DEF OfUsers, OfGoals
<1>2. CASE f = "goals"
  <2>1. \/ k \in Keyed("CreateGoal")
        \/ k \in Noting("UpdateGoal")
        \/ k \in Writing("UpdateGoal")
        \/ (\E op \in {"GetGoal", "GetGoalsByUser", "ArchiveGoal"} : k \in ById(op))
        \/ k = Call("ListActiveGoals", 0, NoKey, 1, 0)
    BY <1>2 DEF Methods
  <2>2. /\ {"CreateGoal", "UpdateGoal", "GetGoal", "GetGoalsByUser", "ArchiveGoal", "ListActiveGoals"} \subseteq Operations
        /\ {"UpdateGoal", "GetGoal", "GetGoalsByUser", "ArchiveGoal"} \cap Keying = {}
    BY DEF Operations, Readings, Keying, OtherWrites
  <2>3. k = Call("ListActiveGoals", 0, NoKey, 1, 0) => Proper(f, k)
    <3>1. Call("ListActiveGoals", 0, NoKey, 1, 0) \in ById("ListActiveGoals")
      BY DEF ById
    <3>2. "ListActiveGoals" \notin Keying
      BY DEF Keying
    <3> QED
      BY <1>2, <2>2, <3>1, <3>2, ProperFormer, ParentsOf DEF OfUsers, OfGoals
  <2> QED
    BY <1>2, <2>1, <2>2, <2>3, ProperFormer, ParentsOf DEF OfUsers, OfGoals
<1>3. CASE f = "checkIns"
  <2>1. \/ k \in Writing("UpsertCheckIn")
        \/ k \in Keyed("GetCheckIn")
    BY <1>3 DEF Methods
  <2>2. /\ {"UpsertCheckIn", "GetCheckIn"} \subseteq Operations
    BY DEF Operations, Readings, Keying, OtherWrites
  <2> QED
    BY <1>3, <2>1, <2>2, ProperFormer, ParentsOf DEF OfUsers, OfGoals
<1>4. CASE f = "violations"
  <2>1. \/ k \in Noting("CreateViolation")
        \/ k \in Keyed("CreateViolationIfAbsent")
        \/ k \in Noting("UpdateViolation")
        \/ k \in ById("ListViolations")
    BY <1>4 DEF Methods
  <2>2. /\ {"CreateViolation", "CreateViolationIfAbsent", "UpdateViolation", "ListViolations"} \subseteq Operations
        /\ {"CreateViolation", "UpdateViolation", "ListViolations"} \cap Keying = {}
    BY DEF Operations, Readings, Keying, OtherWrites
  <2> QED
    BY <1>4, <2>1, <2>2, ProperFormer, ParentsOf DEF OfUsers, OfGoals
<1>5. CASE f = "approvals"
  <2>1. \/ k \in Writing("UpsertWalletApproval")
        \/ k \in Keyed("GetWalletApproval")
    BY <1>5 DEF Methods
  <2>2. /\ {"UpsertWalletApproval", "GetWalletApproval"} \subseteq Operations
    BY DEF Operations, Readings, Keying, OtherWrites
  <2> QED
    BY <1>5, <2>1, <2>2, ProperFormer, ParentsOf DEF OfUsers, OfGoals
<1>6. CASE f = "apiKeys"
  <2>1. \/ k \in Keyed("CreateApiKey")
        \/ k \in Keyed("GetApiKeyByHash")
        \/ (\E op \in {"TouchApiKey", "ListApiKeysByUser", "RevokeApiKey"} : k \in ById(op))
    BY <1>6 DEF Methods
  <2>2. /\ {"CreateApiKey", "GetApiKeyByHash", "TouchApiKey", "ListApiKeysByUser", "RevokeApiKey"} \subseteq Operations
        /\ {"TouchApiKey", "ListApiKeysByUser", "RevokeApiKey"} \cap Keying = {}
    BY DEF Operations, Readings, Keying, OtherWrites
  <2> QED
    BY <1>6, <2>1, <2>2, ProperFormer, ParentsOf DEF OfUsers, OfGoals
<1>7. CASE f = "codes"
  <2>1. \/ k \in Keyed("CreateTelegramLinkCode")
        \/ k \in ByKey("ConsumeTelegramLinkCode")
    BY <1>7 DEF Methods
  <2>2. /\ {"CreateTelegramLinkCode", "ConsumeTelegramLinkCode"} \subseteq Operations
    BY DEF Operations, Readings, Keying, OtherWrites
  <2> QED
    BY <1>7, <2>1, <2>2, ProperFormer, ParentsOf DEF OfUsers, OfGoals
<1>8. CASE f = "chats"
  <2>1. \/ k \in Writing("UpsertTelegramLink")
        \/ k \in ByKey("GetTelegramLinkByChatID")
    BY <1>8 DEF Methods
  <2>2. /\ {"UpsertTelegramLink", "GetTelegramLinkByChatID"} \subseteq Operations
    BY DEF Operations, Readings, Keying, OtherWrites
  <2> QED
    BY <1>8, <2>1, <2>2, ProperFormer, ParentsOf DEF OfUsers, OfGoals
<1>9. CASE f = "agentLinks"
  <2>1. \/ k \in {[c EXCEPT !.ref = ref] : c \in Keyed("CreateAgentLink"), ref \in 0 .. 1}
        \/ k \in ByKey("GetAgentLinkByTokenHash")
        \/ (\E op \in {"ListAgentLinksByUser", "RevokeAgentLink"} : k \in ById(op))
    BY <1>9 DEF Methods
  <2>2. /\ {"CreateAgentLink", "GetAgentLinkByTokenHash", "ListAgentLinksByUser", "RevokeAgentLink"} \subseteq Operations
        /\ {"ListAgentLinksByUser", "RevokeAgentLink"} \cap Keying = {}
    BY DEF Operations, Readings, Keying, OtherWrites
  <2>3. CASE k \in {[c EXCEPT !.ref = ref] : c \in Keyed("CreateAgentLink"), ref \in 0 .. 1}
    BY <1>9, <2>3, ProperLink
  <2>4. CASE k \in ByKey("GetAgentLinkByTokenHash")
    BY <1>9, <2>2, <2>4, ProperFormer DEF OfUsers, OfGoals
  <2>5. ASSUME NEW op \in {"ListAgentLinksByUser", "RevokeAgentLink"}, k \in ById(op)
        PROVE  Proper(f, k)
    BY <1>9, <2>2, <2>5, ProperFormer DEF OfUsers, OfGoals
  <2> QED
    BY <2>1, <2>3, <2>4, <2>5
<1>10. CASE f = "conversations"
  <2>1. \/ k \in ById("CreateConversation")
        \/ k \in Noting("AppendMessage")
        \/ k \in ById("GetConversation")
    BY <1>10 DEF Methods
  <2>2. /\ {"CreateConversation", "AppendMessage", "GetConversation"} \subseteq Operations
        /\ {"CreateConversation", "AppendMessage", "GetConversation"} \cap Keying = {}
    BY DEF Operations, Readings, Keying, OtherWrites
  <2> QED
    BY <1>10, <2>1, <2>2, ProperFormer, ParentsOf DEF OfUsers, OfGoals
<1> QED
  BY <1>0, <1>1, <1>2, <1>3, <1>4, <1>5, <1>6, <1>7, <1>8, <1>9, <1>10

(***************************************************************************)
(* The invariant                                                           *)
(***************************************************************************)

\* A call rereads the clock under the mutex after it was made. The API key of the
\* seed is what agent links refer to.
StoresInv ==
  /\ Dated(mem, pg, clock) /\ 1 \in DOMAIN pg["apiKeys"]
  /\ focus \in DOMAIN Methods /\ clock \in Nat /\ faults \in 0 .. MaxFaults
  /\ DbInv(mem, pg)
  /\ calls \in [Clients -> CallRecord \union {Idle}]
  /\ \A c \in Clients : Pending(c) => CallInv(focus, pg, calls[c]) /\ calls[c].at <= clock

\* Time passes.
LEMMA DatedLater ==
  ASSUME NEW m, NEW p, DbInv(m, p), NEW now, Dated(m, p, now)
  PROVE  Dated(m, p, now + 1)
<1>1. ASSUME NEW t \in Tables, NEW i \in DOMAIN m[t] PROVE m[t][i].at <= now + 1
  <2>1. m[t][i].at \in Nat
    BY RowTypes DEF DbInv, Row
  <2>2. m[t][i].at <= now /\ now \in Nat
    BY DEF Dated
  <2> QED
    BY <2>1, <2>2
<1>2. now + 1 \in Nat
  BY DEF Dated
<1> QED
  BY <1>1, <1>2 DEF Dated

\* Rows that are new now come last, and are no older than their conversations.
LEMMA DatedStep ==
  ASSUME NEW m, NEW p, DbInv(m, p), NEW now, Dated(m, p, now), NEW n, NEW q, DbInv(n, q), Stays(p, q),
         Stamped(m, n, now), NEW a \in Nat, a <= now, Stamped(p, q, a)
  PROVE  Dated(n, q, now)
<1>1. DbType(m) /\ DbType(p) /\ SameDb(m, p) /\ DbType(n) /\ DbType(q) /\ SameDb(n, q) /\ now \in Nat
  BY DEF DbInv, Dated
<1>2. ASSUME NEW t \in Tables, NEW i \in DOMAIN n[t]
      PROVE  /\ i \in DOMAIN q[t] /\ (i \in DOMAIN m[t] <=> i \in DOMAIN p[t])
             /\ n[t][i].at = IF i \in DOMAIN m[t] THEN m[t][i].at ELSE now
             /\ q[t][i].at = IF i \in DOMAIN p[t] THEN p[t][i].at ELSE a
  <2>1. DOMAIN n[t] = DOMAIN q[t] /\ DOMAIN m[t] = DOMAIN p[t]
    BY <1>1, SameParts
  <2>2. n[t][i].at = IF i \in DOMAIN m[t] THEN m[t][i].at ELSE now
    BY DEF Stamped
  <2>3. q[t][i].at = IF i \in DOMAIN p[t] THEN p[t][i].at ELSE a
    BY <2>1 DEF Stamped
  <2> QED
    BY <2>1, <2>2, <2>3
<1>3. ASSUME NEW t \in Tables, NEW i \in DOMAIN n[t]
      PROVE  q[t][i].at <= n[t][i].at /\ n[t][i].at <= now /\ q[t][i].at <= now
  <2>1. CASE i \in DOMAIN m[t]
    <3>1. n[t][i].at = m[t][i].at /\ q[t][i].at = p[t][i].at
      BY <1>2, <2>1
    <3>2. p[t][i].at <= m[t][i].at /\ m[t][i].at <= now
      BY <2>1 DEF Dated
    <3>3. m[t][i].at \in Nat /\ p[t][i].at \in Nat
      <4>1. i \in DOMAIN p[t]
        BY <1>2, <2>1
      <4> QED
        BY <1>1, <2>1, <4>1, RowTypes DEF Row
    <3> QED
      BY <1>1, <3>1, <3>2, <3>3
  <2>2. CASE i \notin DOMAIN m[t]
    BY <1>1, <1>2, <2>2
  <2> QED
    BY <2>1, <2>2
<1>4. ASSUME NEW t \in Tables, NEW i \in DOMAIN n[t], NEW j \in DOMAIN n[t], i < j
      PROVE  n[t][i].at <= n[t][j].at
  <2>1. CASE j \in DOMAIN m[t]
    <3>1. i \in DOMAIN m[t]
      <4>1. DOMAIN m[t] = 1 .. Len(m[t]) /\ Len(m[t]) \in Nat /\ i \in Nat \ {0}
        BY <1>1, RowTypes
      <4> QED
        BY <1>4, <2>1, <4>1
    <3>2. n[t][i].at = m[t][i].at /\ n[t][j].at = m[t][j].at
      BY <1>2, <2>1, <3>1
    <3>3. m[t][i].at <= m[t][j].at
      BY <1>4, <2>1, <3>1 DEF Dated
    <3> QED
      BY <3>2, <3>3
  <2>2. CASE j \notin DOMAIN m[t]
    <3>1. n[t][j].at = now
      BY <1>2, <2>2
    <3> QED
      BY <1>3, <3>1
  <2> QED
    BY <2>1, <2>2
<1>5. ASSUME NEW i \in DOMAIN n["messages"]
      PROVE  q["conversations"][n["messages"][i].owner].at <= n["messages"][i].at
  <2>0. {"messages", "conversations"} \subseteq Tables
    BY DEF Tables
  <2>o. PICK o : o = n["messages"][i].owner
    OBVIOUS
  <2>1. o \in DOMAIN n["conversations"]
    BY <2>0, <2>o DEF DbInv, Constrained, Referenced, Parent
  <2>2. CASE i \in DOMAIN m["messages"]
    <3>1. i \in DOMAIN p["messages"] /\ i \in DOMAIN q["messages"] /\ n["messages"][i].at = m["messages"][i].at
      BY <1>2, <2>0, <2>2
    <3>2. p["messages"][i].owner = q["messages"][i].owner
      BY <2>0, <3>1 DEF Stays, StaysRow
    <3>3. m["messages"][i].owner = o
      <4>1. m["messages"][i].owner = p["messages"][i].owner
        BY <1>1, <2>0, <2>2, SameParts
      <4>2. n["messages"][i].owner = q["messages"][i].owner
        BY <1>1, <2>0, SameParts
      <4> QED
        BY <2>o, <3>2, <4>1, <4>2
    <3>4. o \in DOMAIN m["conversations"]
      BY <2>0, <2>2, <3>3 DEF DbInv, Constrained, Referenced, Parent
    <3>5. q["conversations"][o].at = p["conversations"][o].at
      BY <1>2, <2>0, <2>1, <3>4
    <3>6. p["conversations"][o].at <= m["messages"][i].at
      BY <2>2, <3>3 DEF Dated
    <3> QED
      BY <2>o, <3>1, <3>5, <3>6
  <2>3. CASE i \notin DOMAIN m["messages"]
    <3>1. n["messages"][i].at = now
      BY <1>2, <2>0, <2>3
    <3> QED
      BY <1>3, <2>0, <2>o, <2>1, <3>1
  <2> QED
    BY <2>2, <2>3
<1> QED
  BY <1>1, <1>3, <1>4, <1>5 DEF Dated

\* The answers of calls that agree.
LEMMA AgreedAnswers ==
  ASSUME NEW m, NEW p, DbInv(m, p), NEW j, NEW k, Dated(m, p, j.at), k.at \in Nat, k.at <= j.at,
         NEW x, NEW y, Agree(m, p, j, k, x, y)
  PROVE  AlikeRows(x.rows, y.rows)
<1>1. DbInv(x.db, y.db) /\ Dated(x.db, y.db, j.at)
  <2>1. DbInv(x.db, y.db) /\ Stays(p, y.db) /\ Stamped(m, x.db, j.at) /\ Stamped(p, y.db, k.at)
    BY DEF Agree, Kept
  <2> QED
    BY <2>1, DatedStep
<1>2. CASE x.rows = <<>> /\ y.rows = <<>>
  <2>1. <<>> \in Bijection({}, {}) /\ DOMAIN <<>> = {} /\ Len(<<>>) = 0
    <3>1. <<>> \in [{} -> {}]
      OBVIOUS
    <3> QED
      BY <3>1, Fun_IsBij
  <2>r. PICK r : r = <<>>
    OBVIOUS
  <2>2. r \in Bijection(DOMAIN r, DOMAIN r) /\ DOMAIN r = {}
    BY <2>1, <2>r
  <2>3. AlikeRows(r, r)
    BY <2>2 DEF AlikeRows, SameRows
  <2> QED
    BY <1>2, <2>r, <2>3
<1>3. ASSUME NEW t \in Tables, NEW i \in DOMAIN x.db[t],
             x.rows = <<[of |-> t, id |-> i, row |-> x.db[t][i]]>>,
             y.rows = <<[of |-> t, id |-> i, row |-> y.db[t][i]]>>
      PROVE  AlikeRows(x.rows, y.rows)
  <2>a. PICK a : a = [of |-> t, id |-> i, row |-> x.db[t][i]]
    OBVIOUS
  <2>b. PICK b : b = [of |-> t, id |-> i, row |-> y.db[t][i]]
    OBVIOUS
  <2>1. SameOrOlder(a, b)
    BY <1>1, <2>a, <2>b DEF SameOrOlder, DbInv, SameDb
  <2>2. ~(a.row.at < b.row.at)
    <3>1. b.row.at <= a.row.at
      BY <1>1, <2>a, <2>b DEF Dated
    <3>2. i \in DOMAIN y.db[t] /\ DbType(x.db) /\ DbType(y.db)
      BY <1>1, SameParts DEF DbInv
    <3>3. a.row.at \in Nat /\ b.row.at \in Nat
      BY <2>a, <2>b, <3>2, RowTypes DEF Row
    <3> QED
      BY <3>1, <3>3
  <2>r. PICK r : r = <<a>>
    OBVIOUS
  <2>s. PICK s : s = <<b>>
    OBVIOUS
  <2>3. DOMAIN r = {1} /\ DOMAIN s = {1} /\ r[1] = a /\ s[1] = b /\ Len(r) = 1 /\ Len(s) = 1
    BY <2>r, <2>s
  <2>p. PICK place : place = [n \in {1} |-> n]
    OBVIOUS
  <2>4. place \in Bijection(DOMAIN r, DOMAIN r) /\ place[1] = 1
    <3>1. place \in [{1} -> {1}] /\ place[1] = 1
      BY <2>p
    <3> QED
      BY <2>3, <3>1, Fun_IsBij
  <2>5. AlikeRows(r, s)
    BY <2>1, <2>2, <2>3, <2>4 DEF AlikeRows, SameRows
  <2> QED
    BY <1>3, <2>a, <2>b, <2>r, <2>s, <2>5
<1> QED
  BY <1>2, <1>3 DEF Agree, Shown

\* The tables there are at first, one by one.
LEMMA SeedTables ==
  /\ DOMAIN Seed = Tables
  /\ Seed["users"] = [u \in 1 .. 2 |-> NewRow(0, u, 1, u)]
  /\ \A t \in {"messages", "checkIns", "violations", "approvals"} : Seed[t] = <<>>
  /\ Seed["conversations"] = <<NewRow(1, NoKey, 0, 2)>>
  /\ Seed["agentLinks"] = <<[NewRow(1, 1, 2, 2) EXCEPT !.ref = 1]>>
  /\ \A t \in {"goals", "apiKeys", "codes", "chats"} : Seed[t] = <<NewRow(1, 1, 2, 2)>>
<1>1. DOMAIN Seed = Tables
  BY DEF Seed
<1>2. Seed["users"] = [u \in 1 .. 2 |-> NewRow(0, u, 1, u)]
  BY DEF Seed, Tables, Users
<1>3. \A t \in {"messages", "checkIns", "violations", "approvals"} : Seed[t] = <<>>
  BY DEF Seed, Tables
<1>4. Seed["conversations"] = <<NewRow(1, NoKey, 0, 2)>>
  BY DEF Seed, Tables
<1>5. Seed["agentLinks"] = <<[NewRow(1, 1, 2, 2) EXCEPT !.ref = 1]>>
  BY DEF Seed, Tables
<1>6. \A t \in {"goals", "apiKeys", "codes", "chats"} : Seed[t] = <<NewRow(1, 1, 2, 2)>>
  BY DEF Seed, Tables
<1> QED
  BY <1>1, <1>2, <1>3, <1>4, <1>5, <1>6

\* A table of at most one row.
LEMMA SeedRow ==
  ASSUME NEW t \in Tables \ {"users"}
  PROVE  /\ Seed[t] \in Seq(Row) /\ DOMAIN Seed[t] \subseteq {1}
         /\ \A i \in DOMAIN Seed[t] :
              /\ Seed[t][i].owner = 1
              /\ t \in KeyedTables => Seed[t][i].key = 1
              /\ t = "agentLinks" => Seed[t][i].ref = 1
              /\ t = "conversations" => Seed[t][i].data = 0
<1>1. CASE t \in {"messages", "checkIns", "violations", "approvals"}
  <2>1. Seed[t] = <<>>
    BY <1>1, SeedTables
  <2>2. <<>> \in Seq(Row) /\ DOMAIN <<>> = {}
    OBVIOUS
  <2> QED
    BY <2>1, <2>2
<1>2. CASE t = "conversations"
  <2>r. PICK r : r = NewRow(1, NoKey, 0, 2)
    OBVIOUS
  <2>1. r \in Row /\ r.owner = 1 /\ r.data = 0
    BY <2>r DEF NewRow, Row, NoKey
  <2>2. Seed[t] = <<r>>
    BY <1>2, <2>r, SeedTables
  <2> QED
    BY <1>2, <2>1, <2>2 DEF KeyedTables
<1>3. CASE t = "agentLinks"
  <2>r. PICK r : r = [NewRow(1, 1, 2, 2) EXCEPT !.ref = 1]
    OBVIOUS
  <2>1. r \in Row /\ r.owner = 1 /\ r.ref = 1 /\ r.key = 1
    BY <2>r DEF NewRow, Row
  <2>2. Seed[t] = <<r>>
    BY <1>3, <2>r, SeedTables
  <2> QED
    BY <1>3, <2>1, <2>2
<1>4. CASE t \in {"goals", "apiKeys", "codes", "chats"}
  <2>r. PICK r : r = NewRow(1, 1, 2, 2)
    OBVIOUS
  <2>1. r \in Row /\ r.owner = 1 /\ r.key = 1
    BY <2>r DEF NewRow, Row
  <2>2. Seed[t] = <<r>>
    BY <1>4, <2>r, SeedTables
  <2> QED
    BY <1>4, <2>1, <2>2
<1> QED
  BY <1>1, <1>2, <1>3, <1>4 DEF Tables

LEMMA SeedUsers ==
  /\ Seed["users"] \in Seq(Row) /\ DOMAIN Seed["users"] = 1 .. 2
  /\ \A u \in 1 .. 2 : Seed["users"][u].key = u
<1>1. \A u \in 1 .. 2 : NewRow(0, u, 1, u) \in Row
  BY DEF NewRow, Row
<1>2. \A u \in 1 .. 2 : Seed["users"][u] = NewRow(0, u, 1, u)
  BY SeedTables
<1>3. Seed["users"] \in [1 .. 2 -> Row]
  BY <1>1, SeedTables
<1>4. \A u \in 1 .. 2 : NewRow(0, u, 1, u).key = u
  BY DEF NewRow
<1>5. Seed["users"] \in Seq(Row) /\ DOMAIN Seed["users"] = 1 .. 2
  BY <1>3, 2 \in Nat, SeqDef
<1> QED
  BY <1>2, <1>4, <1>5

LEMMA SeedInv == DbInv(Seed, Seed)
<1>1. DbType(Seed)
  <2>1. \A t \in Tables : Seed[t] \in Seq(Row)
    BY SeedRow, SeedUsers
  <2>2. Seed = [t \in Tables |-> Seed[t]]
    BY DEF Seed
  <2> QED
    BY <2>1, <2>2 DEF DbType
<1>2. SameDb(Seed, Seed)
  BY DEF SameDb, SameRow
<1>3. Constrained(Seed)
  <2>1. ASSUME NEW t \in Tables, NEW i \in DOMAIN Seed[t], NEW j \in DOMAIN Seed[t],
               Collide(t, Seed[t][i], Seed[t][j])
        PROVE  i = j
    <3>1. CASE t = "users"
      BY <2>1, <3>1, SeedUsers DEF Collide
    <3>2. CASE t # "users"
      BY <3>2, SeedRow
    <3> QED
      BY <3>1, <3>2
  <2>2. ASSUME NEW t \in Tables, NEW i \in DOMAIN Seed[t] PROVE Referenced(Seed, t, Seed[t][i])
    <3>1. CASE t = "users"
      BY <3>1 DEF Referenced, Parent
    <3>2. CASE t # "users"
      <4>1. t \notin {"messages", "checkIns", "violations", "approvals"}
        BY SeedTables
      <4>2. Parent[t] = {"users"}
        BY <3>2, <4>1 DEF Tables, Parent
      <4>3. Seed[t][i].owner = 1 /\ (t = "agentLinks" => Seed[t][i].ref = 1)
        BY <3>2, SeedRow
      <4>4. 1 \in DOMAIN Seed["users"] /\ 1 \in DOMAIN Seed["apiKeys"]
        BY SeedUsers, SeedTables
      <4> QED
        BY <4>2, <4>3, <4>4 DEF Referenced
    <3> QED
      BY <3>1, <3>2
  <2> QED
    BY <2>1, <2>2, ConstrainedRows
<1>4. HasKeys(Seed)
  <2>1. 1 \in Keys /\ 1 .. 2 \subseteq Keys
    BY StoresAssumption DEF Users
  <2> QED
    BY <2>1, SeedUsers, SeedRow DEF HasKeys, KeyedTables
<1>5. Touched(Seed)
  <2>1. "conversations" \in Tables \ {"users"} /\ Len(Seed["messages"]) \in Nat
    BY SeedTables DEF Tables
  <2>2. ASSUME NEW i \in DOMAIN Seed["conversations"]
        PROVE  Seed["conversations"][i].data <= Len(Seed["messages"])
    BY <2>1, SeedRow
  <2> QED
    BY <2>2 DEF Touched
<1> QED
  BY <1>1, <1>2, <1>3, <1>4, <1>5 DEF DbInv

LEMMA SeedDated == Dated(Seed, Seed, 2)
<1>1. \A t \in {"conversations", "agentLinks", "goals", "apiKeys", "codes", "chats"} : Seed[t][1].at = 2
  BY SeedTables DEF NewRow
<1>2. \A t \in {"messages", "checkIns", "violations", "approvals"} : DOMAIN Seed[t] = {}
  BY SeedTables
<1>3. \A u \in 1 .. 2 : Seed["users"][u].at = u
  BY SeedTables DEF NewRow
<1>4. DOMAIN Seed["users"] = 1 .. 2
  BY SeedUsers
<1>5. \A t \in Tables \ {"users"} : DOMAIN Seed[t] \subseteq {1}
  BY SeedRow
<1>6. ASSUME NEW t \in Tables, NEW i \in DOMAIN Seed[t]
      PROVE  Seed[t][i].at \in Nat /\ Seed[t][i].at <= 2
  <2>1. CASE t = "users"
    BY <1>3, <1>4, <2>1
  <2>2. CASE t # "users"
    BY <1>1, <1>2, <1>5, <2>2 DEF Tables
  <2> QED
    BY <2>1, <2>2
<1>7. ASSUME NEW t \in Tables, NEW i \in DOMAIN Seed[t], NEW j \in DOMAIN Seed[t], i < j
      PROVE  Seed[t][i].at <= Seed[t][j].at
  <2>1. CASE t = "users"
    BY <1>3, <1>4, <1>7, <2>1
  <2>2. CASE t # "users"
    BY <1>5, <1>7, <2>2
  <2> QED
    BY <2>1, <2>2
<1> QED
  BY <1>2, <1>6, <1>7 DEF Dated

LEMMA InitStoresInv == Init => StoresInv
<1> SUFFICES ASSUME Init PROVE StoresInv
  OBVIOUS
<1>1. DbInv(mem, pg)
  BY SeedInv DEF Init
<1>4. Dated(mem, pg, clock) /\ 1 \in DOMAIN pg["apiKeys"]
  BY SeedDated, SeedTables DEF Init
<1>2. focus \in DOMAIN Methods /\ clock \in Nat /\ faults \in 0 .. MaxFaults
  BY StoresAssumption DEF Init
<1>3. calls \in [Clients -> CallRecord \union {Idle}] /\ \A c \in Clients : ~Pending(c)
  BY DEF Init, Pending
<1> QED
  BY <1>1, <1>2, <1>3, <1>4 DEF StoresInv

LEMMA InvParts ==
  ASSUME StoresInv, NEW c \in Clients, Pending(c)
  PROVE  calls[c] \in CallRecord /\ CallInv(focus, pg, calls[c]) /\ calls[c].at <= clock
BY DEF StoresInv, Pending

\* The call that a client is about to end, in the two stores.
LEMMA EndsAgree ==
  ASSUME StoresInv, NEW c \in Clients, Ends(c)
  PROVE  /\ Agree(mem, pg, [calls[c] EXCEPT !.at = clock], calls[c], InMemory(c), InPostgres(c))
         /\ [calls[c] EXCEPT !.at = clock].at = clock /\ calls[c].at \in Nat /\ calls[c].at <= clock
<1>k. PICK k : k = calls[c]
  OBVIOUS
<1>j. PICK j : j = [k EXCEPT !.at = clock]
  OBVIOUS
<1>1. Pending(c) /\ ~PgContinues(pg, k)
  BY <1>k DEF Ends
<1>2. k \in CallRecord /\ WellKeyed(k) /\ Settled(pg, k) /\ Named(pg, k) /\ k.at <= clock
  BY <1>k, <1>1, InvParts DEF CallInv
<1>3. DbInv(mem, pg) /\ Dated(mem, pg, clock) /\ clock \in Nat
  BY DEF StoresInv
<1>4. SameCall(j, k) /\ j.at = clock /\ k.at \in Nat /\ k.seen \in Nat
  BY <1>j, <1>2, <1>3 DEF CallRecord, SameCall, Arguments
<1>5. InMemory(c) = Memory(mem, j) /\ InPostgres(c) = Postgres(pg, k)
  BY <1>k, <1>j DEF InMemory, InPostgres
<1>6. Named(mem, k)
  <2>1. \A t \in {"users", "goals", "apiKeys"} : DOMAIN mem[t] = DOMAIN pg[t]
    BY <1>3, SameParts DEF DbInv, Tables
  <2> QED
    BY <1>2, <2>1 DEF Named
<1>7. k.op \in Readings \/ k.op \in Keying \/ k.op \in OtherWrites
  BY <1>2 DEF CallRecord, Operations
<1>8. Agree(mem, pg, j, k, Memory(mem, j), Postgres(pg, k))
  <2>1. CASE k.op \in Readings
    BY <1>1, <1>2, <1>3, <1>4, <2>1, ReadingsAgrees
  <2>2. CASE k.op \in Keying
    BY <1>1, <1>2, <1>3, <1>4, <1>6, <2>2, KeyingAgrees
  <2>3. CASE k.op \in OtherWrites
    BY <1>1, <1>2, <1>3, <1>4, <1>6, <2>3, OtherWritesAgrees
  <2> QED
    BY <1>7, <2>1, <2>2, <2>3
<1> QED
  BY <1>k, <1>j, <1>2, <1>4, <1>5, <1>8

LEMMA ExecuteKept ==
  ASSUME StoresInv, NEW c \in Clients, Execute(c)
  PROVE  Kept(pg, mem', pg') /\ Dated(mem', pg', clock)
<1>j. PICK j : j = [calls[c] EXCEPT !.at = clock]
  OBVIOUS
<1>x. PICK x : x = InMemory(c)
  OBVIOUS
<1>y. PICK y : y = InPostgres(c)
  OBVIOUS
<1>1. Ends(c) /\ mem' = x.db /\ pg' = y.db
  BY <1>x, <1>y DEF Execute
<1>2. Agree(mem, pg, j, calls[c], x, y) /\ j.at = clock /\ calls[c].at \in Nat /\ calls[c].at <= clock
  BY <1>j, <1>x, <1>y, <1>1, EndsAgree
<1>3. Kept(pg, x.db, y.db) /\ Stamped(mem, x.db, clock) /\ Stamped(pg, y.db, calls[c].at)
  BY <1>2 DEF Agree
<1>4. DbInv(mem, pg) /\ Dated(mem, pg, clock)
  BY DEF StoresInv
<1>5. Dated(x.db, y.db, clock)
  BY <1>2, <1>3, <1>4, DatedStep DEF Kept
<1> QED
  BY <1>1, <1>3, <1>5

\* A client is done with its call; what the others have seen stays.
LEMMA DoneStep ==
  ASSUME StoresInv, NEW c \in Clients, calls' = [calls EXCEPT ![c] = Idle],
         Kept(pg, mem', pg'), Dated(mem', pg', clock),
         focus' = focus, clock' = clock, faults' \in 0 .. MaxFaults
  PROVE  StoresInv'
<1>1. DbInv(mem', pg') /\ Stays(pg, pg')
  BY DEF Kept
<1>2. DbType(pg) /\ DbType(pg')
  BY <1>1 DEF StoresInv, DbInv
<1>3. calls \in [Clients -> CallRecord \union {Idle}]
  BY DEF StoresInv
<1>4. calls' \in [Clients -> CallRecord \union {Idle}]
  BY <1>3
<1>5. ASSUME NEW d \in Clients, Pending(d)'
      PROVE  CallInv(focus, pg', calls'[d]) /\ calls'[d].at <= clock
  <2>1. d # c /\ calls'[d] = calls[d]
    BY <1>3, <1>5 DEF Pending
  <2>2. Pending(d)
    BY <1>5, <2>1 DEF Pending
  <2>3. calls[d] \in CallRecord /\ CallInv(focus, pg, calls[d]) /\ calls[d].at <= clock
    BY <2>2, InvParts
  <2>4. Settled(pg', calls[d])
    BY <1>1, <1>2, <2>3, SettledStays DEF CallInv
  <2>5. Named(pg', calls[d])
    BY <1>1, <2>3, NamedStays DEF CallInv
  <2> QED
    BY <2>1, <2>3, <2>4, <2>5 DEF CallInv
<1>6. 1 \in DOMAIN pg'["apiKeys"]
  BY <1>1 DEF StoresInv, Stays, Tables
<1> QED
  BY <1>1, <1>4, <1>5, <1>6 DEF StoresInv

LEMMA MakeStep ==
  ASSUME StoresInv, NEW c \in Clients, Make(c)
  PROVE  StoresInv'
<1>1. PICK input \in Methods[focus] : Known(input) /\ calls' = [calls EXCEPT ![c] = [input EXCEPT !.at = clock']]
  BY DEF Make
<1>2. /\ calls \in [Clients -> CallRecord \union {Idle}] /\ clock \in Nat /\ clock' = clock + 1
      /\ UNCHANGED <<mem, pg, focus, faults>> /\ focus \in DOMAIN Methods
  BY DEF StoresInv, Make
<1>3. /\ Fresh(input) /\ WellKeyed(input) /\ (input.op = "RevokeApiKey" => focus = "apiKeys")
      /\ (input.op \in OfUsers => Parent[focus] = {"users"}) /\ (input.op \in OfGoals => Parent[focus] = {"goals"})
      /\ (input.op = "CreateAgentLink" => input.ref \in 0 .. 1)
  BY <1>2, MethodsProper DEF Proper
<1>k. PICK k : k = [input EXCEPT !.at = clock']
  OBVIOUS
<1>4. /\ k \in CallRecord /\ k.op = input.op /\ k.id = input.id /\ k.key = input.key /\ k.step = 1
      /\ k.ref = input.ref /\ k.at = clock'
  BY <1>2, <1>3, <1>k DEF Fresh, CallRecord
<1>5. [k EXCEPT !.at = 0, !.step = 1, !.seen = 0] = input
  BY <1>3, <1>k DEF Fresh, CallRecord
<1>6. Settled(pg, k)
  <2>1. ASSUME k.op = "RevokeApiKey" PROVE k.id = 0 \/ k.id \in DOMAIN pg["apiKeys"]
    BY <1>1, <1>3, <1>4, <2>1 DEF Known, OfTable
  <2> QED
    BY <1>4, <2>1 DEF Settled
<1>7. WellKeyed(k)
  BY <1>3, <1>4 DEF WellKeyed
<1>n. Named(pg, k)
  <2>1. CASE Orphan(k)
    BY <2>1 DEF Named
  <2>2. CASE ~Orphan(k)
    <3>1. ASSUME k.op \in OfUsers \union OfGoals
          PROVE  k.id # 0 /\ k.op \notin OfTable /\ \E t \in Parent[focus] : k.id \in DOMAIN pg[t]
      <4>1. k.op \notin OfTable
        BY <3>1 DEF OfUsers, OfGoals, OfTable
      <4>2. k.id # 0
        BY <2>2, <4>1 DEF Orphan
      <4> QED
        BY <1>1, <1>4, <4>1, <4>2 DEF Known
    <3>2. ASSUME k.op = "CreateAgentLink" PROVE k.ref \in DOMAIN pg["apiKeys"]
      <4>1. k.op \notin OfTable
        BY <3>2 DEF OfTable
      <4>2. k.ref # 0 /\ k.ref \in 0 .. 1
        BY <1>3, <1>4, <2>2, <3>2, <4>1 DEF Orphan
      <4>3. k.ref = 1
        BY <4>2
      <4> QED
        BY <4>3 DEF StoresInv
    <3> QED
      BY <1>3, <1>4, <3>1, <3>2 DEF Named
  <2> QED
    BY <2>1, <2>2
<1>8. CallInv(focus, pg, k)
  BY <1>4, <1>5, <1>6, <1>7, <1>n DEF CallInv
<1>9. calls' = [calls EXCEPT ![c] = k]
  BY <1>1, <1>k
<1>10. calls' \in [Clients -> CallRecord \union {Idle}]
  BY <1>2, <1>4, <1>9
<1>11. ASSUME NEW d \in Clients, Pending(d)'
       PROVE  CallInv(focus, pg, calls'[d]) /\ calls'[d].at <= clock'
  <2>1. CASE d = c
    <3>1. clock' <= clock'
      BY <1>2
    <3> QED
      BY <1>2, <1>4, <1>8, <1>9, <2>1, <3>1
  <2>2. CASE d # c
    <3>1. calls'[d] = calls[d]
      BY <1>2, <1>9, <2>2
    <3>2. Pending(d)
      BY <1>11, <3>1 DEF Pending
    <3>3. CallInv(focus, pg, calls[d]) /\ calls[d] \in CallRecord /\ calls[d].at <= clock
      BY <3>2, InvParts
    <3>4. calls[d].at \in Nat
      BY <3>3 DEF CallRecord
    <3>5. calls[d].at <= clock'
      BY <1>2, <3>3, <3>4
    <3> QED
      BY <3>1, <3>3, <3>5
  <2> QED
    BY <2>1, <2>2
<1>12. DbInv(mem, pg) /\ Dated(mem, pg, clock)
  BY DEF StoresInv
<1>13. Dated(mem, pg, clock')
  BY <1>2, <1>12, DatedLater
<1> QED
  BY <1>2, <1>10, <1>11, <1>13 DEF StoresInv

LEMMA StatementStep ==
  ASSUME StoresInv, NEW c \in Clients, Statement(c)
  PROVE  StoresInv'
<1>k. PICK k : k = calls[c]
  OBVIOUS
<1>1. /\ Pending(c) /\ PgContinues(pg, k)
      /\ calls' = [calls EXCEPT ![c].step = @ + 1, ![c].seen = PgSees(pg, calls[c])]
      /\ UNCHANGED <<mem, pg, focus, clock, faults>>
  BY <1>k DEF Statement
<1>2. calls \in [Clients -> CallRecord \union {Idle}] /\ DbInv(mem, pg) /\ DbType(pg)
  BY DEF StoresInv, DbInv
<1>3. k \in CallRecord /\ WellKeyed(k) /\ Settled(pg, k) /\ Named(pg, k) /\ k.at <= clock
      /\ [k EXCEPT !.at = 0, !.step = 1, !.seen = 0] \in Methods[focus]
  BY <1>k, <1>1, InvParts DEF CallInv
<1>s. PICK seen : seen = PgSees(pg, k)
  OBVIOUS
<1>4. seen \in Nat
  <2>1. CASE k.op = "GetConversation"
    <3>1. k.id \in DOMAIN pg["conversations"] /\ "conversations" \in Tables
      BY <1>1, <2>1 DEF PgContinues, Tables
    <3>2. pg["conversations"][k.id].data \in Nat
      BY <1>2, <3>1, RowTypes DEF Row
    <3> QED
      BY <1>s, <2>1, <3>2 DEF PgSees
  <2>2. CASE k.op # "GetConversation"
    BY <1>3, <1>s, <2>2 DEF PgSees, CallRecord
  <2> QED
    BY <2>1, <2>2
<1>n. PICK n : n = [k EXCEPT !.step = @ + 1, !.seen = seen]
  OBVIOUS
<1>5. n \in CallRecord /\ n.op = k.op /\ n.id = k.id /\ n.key = k.key /\ n.ref = k.ref /\ n.at = k.at
      /\ n.seen = seen
  <2>1. k.step + 1 \in Nat
    BY <1>3 DEF CallRecord
  <2>2. n = [k EXCEPT !.step = k.step + 1, !.seen = seen]
    BY <1>n
  <2>3. n \in CallRecord
    BY <1>3, <1>4, <2>1, <2>2 DEF CallRecord
  <2>4. n.op = k.op /\ n.id = k.id /\ n.key = k.key /\ n.ref = k.ref /\ n.at = k.at /\ n.seen = seen
    BY <1>3, <2>2 DEF CallRecord
  <2> QED
    BY <2>3, <2>4
<1>6. [n EXCEPT !.at = 0, !.step = 1, !.seen = 0] = [k EXCEPT !.at = 0, !.step = 1, !.seen = 0]
  BY <1>3, <1>4, <1>n DEF CallRecord
<1>7. calls' = [calls EXCEPT ![c] = n]
  BY <1>k, <1>s, <1>n, <1>1, <1>2
<1>8. CallInv(focus, pg, n)
  <2>1. Settled(pg, n)
    BY <1>1, <1>2, <1>3, <1>5, <1>s, ContinuesSettled
  <2>2. WellKeyed(n)
    BY <1>3, <1>5 DEF WellKeyed
  <2>3. Named(pg, n)
    BY <1>3, <1>5 DEF Named, Orphan
  <2> QED
    BY <1>3, <1>5, <1>6, <2>1, <2>2, <2>3 DEF CallInv
<1>9. calls' \in [Clients -> CallRecord \union {Idle}]
  BY <1>2, <1>5, <1>7
<1>10. ASSUME NEW d \in Clients, Pending(d)'
       PROVE  CallInv(focus, pg, calls'[d]) /\ calls'[d].at <= clock
  <2>1. CASE d = c
    BY <1>2, <1>3, <1>5, <1>7, <1>8, <2>1
  <2>2. CASE d # c
    <3>1. calls'[d] = calls[d]
      BY <1>2, <1>7, <2>2
    <3>2. Pending(d)
      BY <1>10, <3>1 DEF Pending
    <3> QED
      BY <3>1, <3>2, InvParts
  <2> QED
    BY <2>1, <2>2
<1> QED
  BY <1>1, <1>9, <1>10 DEF StoresInv

\* What a step of any client does to the tables.
LEMMA StepKept ==
  ASSUME StoresInv, [Next]_vars
  PROVE  Kept(pg, mem', pg')
<1>1. DbInv(mem, pg)
  BY DEF StoresInv
<1>2. Kept(pg, mem, pg)
  BY <1>1, Unchanged
<1>3. ASSUME NEW c \in Clients, Make(c) \/ Statement(c) \/ Finish(c) \/ Unanswered(c) \/ Fail(c)
      PROVE  Kept(pg, mem', pg')
  <2>1. CASE Make(c) \/ Statement(c) \/ Fail(c)
    BY <1>2, <2>1 DEF Make, Statement, Fail
  <2>2. CASE Finish(c) \/ Unanswered(c)
    BY <2>2, ExecuteKept DEF Finish, Unanswered
  <2> QED
    BY <1>3, <2>1, <2>2
<1>4. CASE UNCHANGED vars
  BY <1>2, <1>4 DEF vars
<1>5. CASE Stop
  BY <1>2, <1>5 DEF Stop, vars
<1> QED
  BY <1>3, <1>4, <1>5 DEF Next

LEMMA NextStoresInv ==
  ASSUME StoresInv, [Next]_vars
  PROVE  StoresInv'
<1>1. Kept(pg, mem', pg') /\ MaxFaults \in Nat /\ faults \in 0 .. MaxFaults
  BY StepKept, StoresAssumption DEF StoresInv
<1>2. ASSUME NEW c \in Clients, Make(c) PROVE StoresInv'
  BY <1>2, MakeStep
<1>3. ASSUME NEW c \in Clients, Statement(c) PROVE StoresInv'
  BY <1>3, StatementStep
<1>4. ASSUME NEW c \in Clients, Finish(c) PROVE StoresInv'
  <2>1. Dated(mem', pg', clock)
    BY <1>4, ExecuteKept DEF Finish
  <2> QED
    BY <1>1, <1>4, <2>1, DoneStep DEF Finish, Execute
<1>5. ASSUME NEW c \in Clients, Unanswered(c) PROVE StoresInv'
  <2>1. /\ calls' = [calls EXCEPT ![c] = Idle] /\ focus' = focus /\ clock' = clock
        /\ faults' = faults + 1 /\ faults < MaxFaults
    BY <1>5 DEF Unanswered, Execute
  <2>2. faults' \in 0 .. MaxFaults
    BY <1>1, <2>1
  <2>3. Dated(mem', pg', clock)
    BY <1>5, ExecuteKept DEF Unanswered
  <2> QED
    BY <1>1, <2>1, <2>2, <2>3, DoneStep
<1>6. ASSUME NEW c \in Clients, Fail(c) PROVE StoresInv'
  <2>1. /\ calls' = [calls EXCEPT ![c] = Idle] /\ focus' = focus /\ clock' = clock
        /\ faults' = faults + 1 /\ faults < MaxFaults
    BY <1>6 DEF Fail
  <2>2. faults' \in 0 .. MaxFaults
    BY <1>1, <2>1
  <2>3. Dated(mem', pg', clock)
    BY <1>6 DEF Fail, StoresInv
  <2> QED
    BY <1>1, <2>1, <2>2, <2>3, DoneStep
<1>7. CASE UNCHANGED vars
  BY <1>7 DEF vars, StoresInv, Pending
<1>8. CASE Stop
  BY <1>8 DEF Stop, vars, StoresInv, Pending
<1> QED
  BY <1>2, <1>3, <1>4, <1>5, <1>6, <1>7, <1>8 DEF Next

LEMMA StoresInvHolds == Spec => []StoresInv
<1>1. StoresInv /\ [Next]_vars => StoresInv'
  BY NextStoresInv
<1> QED
  BY InitStoresInv, <1>1, PTL DEF Spec

(***************************************************************************)
(* Theorems                                                                *)
(***************************************************************************)

\* Every table of either store holds rows of the schema, under keys that somebody
\* gave, and every call under way is one a client may make.
THEOREM StoresTypeCorrect == Spec => []TypeOK
<1>1. StoresInv => TypeOK
  <2> SUFFICES ASSUME StoresInv PROVE TypeOK
    OBVIOUS
  <2>1. DbType(mem) /\ DbType(pg) /\ HasKeys(mem)
    BY DEF StoresInv, DbInv
  <2>2. \A t \in Tables : mem[t] \in Seq(Row) /\ pg[t] \in Seq(Row)
    BY <2>1, RowTypes
  <2>3. \A c \in Clients : Pending(c) =>
          [calls[c] EXCEPT !.at = 0, !.step = 1, !.seen = 0] \in Methods[focus]
    BY InvParts DEF CallInv
  <2> QED
    BY <2>1, <2>2, <2>3 DEF TypeOK, StoresInv, HasKeys, KeyedTables
<1> QED
  BY StoresInvHolds, <1>1, PTL

\* Whatever clients interleave, and whichever statements fail or go unanswered,
\* the memory store (memory.go) holds the rows that Postgres (postgres.go) does.
THEOREM StoresHoldTheSameRows == Spec => []SameTables
<1>1. StoresInv => SameTables
  BY DEF StoresInv, DbInv, SameDb, SameTables
<1> QED
  BY StoresInvHolds, <1>1, PTL

\* Whatever clients interleave, and whichever statements fail or go unanswered,
\* the two stores answer a call alike: they refuse it for the same reason, but for
\* a parent that does not exist, or list the same rows in an order that the times
\* of their creation allow. The tests run the handlers on memory.go and the server
\* runs postgres.go.
THEOREM StoresAnswerAlike == Spec => []SameAnswers
<1>1. ASSUME StoresInv, NEW c \in Clients, Ends(c)
      PROVE  /\ SameRefusal(calls[c], InMemory(c), InPostgres(c))
             /\ AlikeRows(InMemory(c).rows, InPostgres(c).rows)
  <2>j. PICK j : j = [calls[c] EXCEPT !.at = clock]
    OBVIOUS
  <2>1. /\ Agree(mem, pg, j, calls[c], InMemory(c), InPostgres(c))
        /\ j.at = clock /\ calls[c].at \in Nat /\ calls[c].at <= clock
    BY <1>1, <2>j, EndsAgree
  <2>2. DbInv(mem, pg) /\ Dated(mem, pg, j.at)
    BY <1>1, <2>1 DEF StoresInv
  <2>3. AlikeRows(InMemory(c).rows, InPostgres(c).rows)
    BY <2>1, <2>2, AgreedAnswers
  <2>4. SameRefusal(calls[c], InMemory(c), InPostgres(c))
    BY <2>1 DEF Agree
  <2> QED
    BY <2>3, <2>4
<1>2. StoresInv => SameAnswers
  BY <1>1 DEF SameAnswers, AlikeRows
<1> QED
  BY StoresInvHolds, <1>2, PTL

\* The memory store, which has no schema, keeps the UNIQUE and REFERENCES
\* constraints of backend/migrations.
THEOREM MemoryKeepsConstraints == Spec => []ConstraintsHold
<1>1. StoresInv => ConstraintsHold
  BY DEF StoresInv, DbInv, Constrained, ConstraintsHold
<1> QED
  BY StoresInvHolds, <1>1, PTL

\* No statement deletes a row, moves it, changes what it was created with, or
\* takes back what is archived, revoked, consumed or settled.
THEOREM RowsAreKept == Spec => RowsStay
<1>1. StoresInv /\ [Next]_vars =>
        [\A t \in Tables : \A i \in DOMAIN pg[t] :
           i \in DOMAIN pg'[t] /\ StaysRow(t, pg[t][i], pg'[t][i])]_vars
  BY StepKept DEF Kept, Stays
<1> QED
  BY StoresInvHolds, <1>1, PTL DEF Spec, RowsStay
=============================================================================
