-------------------------------- MODULE Rows --------------------------------
(***************************************************************************)
(* What the two implementations of the Store interface (store/store.go)    *)
(* have in common: tables of rows, calls and answers. A table is the       *)
(* sequence of its rows in the order of their insertion; the position of a *)
(* row stands for its random UUID.                                         *)
(***************************************************************************)
EXTENDS Naturals, Sequences, FiniteSets, Functions

CONSTANTS
  Keys,   \* wallets, periods, chain and token pairs, hashes, chat ids
  Data    \* payloads: names, notes, amounts, expiry times

ASSUME RowsAssumption == Keys \subseteq Nat \ {0} /\ Data \subseteq Nat \ {0}

NoKey == 0  \* NULL, or an empty string

Tables == {"users", "goals", "checkIns", "violations", "approvals", "apiKeys",
           "codes", "chats", "agentLinks", "conversations", "messages"}

\* owner: the row of the parent table it belongs to. key: what rows are looked
\* up by (a goal's is its chain and token, a violation's its dedupe key). data:
\* the payload; a conversation's is the position of the message that touched it
\* last (its updated_at is the time the call of that message began, which an
\* overlapping call may have passed). ref: the API key of an agent link. done:
\* archived, revoked, consumed or settled. at: created_at.
Row == [owner: Nat, key: Nat, data: Nat, ref: Nat,
        done: BOOLEAN, at: Nat]

NewRow(owner, key, data, at) ==
  [owner |-> owner, key |-> key, data |-> data, ref |-> 0, done |-> FALSE, at |-> at]

\* The positions of the rows of t with that key, that owner, or both; with that id; not done.
WithKey(db, t, key) == {i \in DOMAIN db[t] : db[t][i].key = key}
Owned(db, t, owner, key) == {i \in WithKey(db, t, key) : db[t][i].owner = owner}
OwnedBy(db, t, owner) == {i \in DOMAIN db[t] : db[t][i].owner = owner}
Having(db, t, id) == DOMAIN db[t] \intersect {id}
Open(db, t) == {i \in DOMAIN db[t] : ~db[t][i].done}

\* The only element of a set, where there is one.
Only(ids) == CHOOSE i \in ids : TRUE

\* A set of rows in the order of their ranks.
Sorted(ids, rank) ==
  CHOOSE list \in Bijection(1 .. Cardinality(ids), ids) :
    \A i, j \in DOMAIN list : i < j => rank[list[i]] <= rank[list[j]]

\* A call of a Store method: op names it, id is the row or the parent it is
\* about, ref a second parent, at the time it reads from the clock; step and seen
\* are for methods of several statements (PostgresStore).
Call(op, id, key, data, ref) ==
  [op |-> op, id |-> id, key |-> key, data |-> data, ref |-> ref, at |-> 0,
   step |-> 1, seen |-> 0]

\* Outcomes: the tables afterwards and the answer. An answer holds row
\* positions with their rows; why tells ErrNotFound from any other error.
Refuse(db, why) == [db |-> db, why |-> why, rows |-> <<>>]
Answer(db, t, ids) == [db |-> db, why |-> "none", rows |-> [k \in DOMAIN ids |->
                        [of |-> t, id |-> ids[k], row |-> db[t][ids[k]]]]]
Done(db) == Answer(db, "users", <<>>)
=============================================================================
