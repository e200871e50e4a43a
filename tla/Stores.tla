------------------------------- MODULE Stores -------------------------------
(***************************************************************************)
(* Concurrent clients of the Postgres store, with the memory store run in  *)
(* lockstep: it executes a call when Postgres runs the statement that ends *)
(* it. The tests exercise the memory store and the server runs Postgres,   *)
(* so what the one does has to be what the other does.                     *)
(*                                                                         *)
(* Tables refer to others only through rows that are never deleted, so the *)
(* calls about one group of tables are explored on their own.              *)
(***************************************************************************)
EXTENDS MemoryStore, PostgresStore

CONSTANTS
  Clients,
  MaxCalls,   \* calls made in a behaviour
  MaxFaults   \* statements that fail or go unanswered

VARIABLES
  mem, pg,    \* the tables of the two stores
  calls,      \* the call each client has made, Idle if none
  focus,      \* the group of tables this behaviour is about
  clock,      \* the time; every call is made at a time of its own
  faults

vars == <<mem, pg, calls, focus, clock, faults>>

Idle == [op |-> "none"]

\* Two users, the first with a row of its own in most tables.
Users == 1 .. 2

ASSUME StoresAssumption ==
  /\ {MaxCalls, MaxFaults} \subseteq Nat
  /\ Users \subseteq Keys  \* the keys of the rows there are at first

Seed == [t \in Tables |->
  CASE t = "users" -> [u \in Users |-> NewRow(0, u, 1, u)]
    [] t \in {"messages", "checkIns", "violations", "approvals"} -> <<>>
    [] t = "conversations" -> <<NewRow(1, NoKey, 0, 2)>>
    [] t = "agentLinks" -> <<[NewRow(1, 1, 2, 2) EXCEPT !.ref = 1]>>
    [] OTHER -> <<NewRow(1, 1, 2, 2)>>]

\* Arguments of the methods; id 0 is that of no row.
ById(op) == {Call(op, id, NoKey, 1, 0) : id \in {0} \union Users}
ByKey(op) == {Call(op, 0, key, data, 0) : key \in Keys, data \in Data}
Keyed(op) == {Call(op, id, key, 1, 0) : id \in {0} \union Users, key \in Keys}
Writing(op) == {Call(op, id, key, data, 0) : id \in {0} \union Users, key \in Keys, data \in Data}
Noting(op) == {Call(op, id, NoKey, data, 0) : id \in {0} \union Users, data \in Data}

Methods == [
  users |-> ByKey("CreateUser") \union Keyed("GetUserByWallet") \union ById("GetUser"),
  goals |-> Keyed("CreateGoal") \union Noting("UpdateGoal") \union Writing("UpdateGoal")
     \union {Call("ListActiveGoals", 0, NoKey, 1, 0)}
     \union UNION {ById(op) : op \in {"GetGoal", "GetGoalsByUser", "ArchiveGoal"}},
  checkIns |-> Writing("UpsertCheckIn") \union Keyed("GetCheckIn"),
  violations |-> Noting("CreateViolation") \union Keyed("CreateViolationIfAbsent")
     \union Noting("UpdateViolation") \union ById("ListViolations"),
  approvals |-> Writing("UpsertWalletApproval") \union Keyed("GetWalletApproval"),
  apiKeys |-> Keyed("CreateApiKey") \union Keyed("GetApiKeyByHash")
     \union UNION {ById(op) : op \in {"TouchApiKey", "ListApiKeysByUser", "RevokeApiKey"}},
  codes |-> Keyed("CreateTelegramLinkCode") \union ByKey("ConsumeTelegramLinkCode"),
  chats |-> Writing("UpsertTelegramLink") \union ByKey("GetTelegramLinkByChatID"),
  agentLinks |-> {[c EXCEPT !.ref = ref] : c \in Keyed("CreateAgentLink"), ref \in 0 .. 1}
     \union ByKey("GetAgentLinkByTokenHash")
     \union UNION {ById(op) : op \in {"ListAgentLinksByUser", "RevokeAgentLink"}},
  conversations |-> ById("CreateConversation") \union Noting("AppendMessage")
     \union ById("GetConversation")]

\* The id is of a row that is stored already: ids are random, so nobody knows
\* one before. It is a row of the table itself or of its parent.
OfTable == {"GetUser", "GetGoal", "UpdateGoal", "ArchiveGoal", "UpdateViolation",
  "TouchApiKey", "RevokeApiKey", "RevokeAgentLink", "AppendMessage", "GetConversation"}
Known(input) ==
  \/ input.id = 0
  \/ \E t \in IF input.op \in OfTable THEN {focus} ELSE Parent[focus] : input.id \in DOMAIN pg[t]

Init ==
  /\ focus \in DOMAIN Methods
  /\ mem = Seed /\ pg = Seed
  /\ calls = [c \in Clients |-> Idle]
  /\ clock = 2 /\ faults = 0

Make(c) ==
  /\ calls[c] = Idle
  /\ clock < MaxCalls + 2
  /\ clock' = clock + 1
  /\ \E input \in {known \in Methods[focus] : Known(known)} :
       calls' = [calls EXCEPT ![c] = [input EXCEPT !.at = clock']]
  /\ UNCHANGED <<mem, pg, focus, faults>>

Pending(c) == calls[c] # Idle

\* The next statement is the last.
Ends(c) == Pending(c) /\ ~PgContinues(pg, calls[c])

\* UPDATE conversations waits for a transaction that updated the row before.
Locked(c) ==
  /\ calls[c].op = "AppendMessage" /\ calls[c].step = 3
  /\ \E d \in Clients \ {c} : Pending(d) /\ calls[d].op = "AppendMessage"
                              /\ calls[d].id = calls[c].id /\ calls[d].step = 4

Statement(c) ==
  /\ Pending(c) /\ PgContinues(pg, calls[c]) /\ ~Locked(c)
  /\ calls' = [calls EXCEPT ![c].step = @ + 1, ![c].seen = PgSees(pg, calls[c])]
  /\ UNCHANGED <<mem, pg, focus, clock, faults>>

\* The memory store reads the clock under its mutex.
InMemory(c) == Memory(mem, [calls[c] EXCEPT !.at = clock])
InPostgres(c) == Postgres(pg, calls[c])

Execute(c) ==
  /\ Ends(c)
  /\ mem' = InMemory(c).db
  /\ pg' = InPostgres(c).db
  /\ calls' = [calls EXCEPT ![c] = Idle]

Finish(c) == Execute(c) /\ UNCHANGED <<focus, clock, faults>>

\* The statement takes effect and its answer is lost.
Unanswered(c) ==
  /\ faults < MaxFaults
  /\ Execute(c)
  /\ faults' = faults + 1
  /\ UNCHANGED <<focus, clock>>

\* The statement fails; a transaction is rolled back.
Fail(c) ==
  /\ faults < MaxFaults
  /\ Pending(c)
  /\ calls' = [calls EXCEPT ![c] = Idle]
  /\ faults' = faults + 1
  /\ UNCHANGED <<mem, pg, focus, clock>>

\* Every call has been made and has ended.
Stop == clock = MaxCalls + 2 /\ calls = [c \in Clients |-> Idle] /\ UNCHANGED vars

Next == \/ \E c \in Clients : Make(c) \/ Statement(c) \/ Finish(c) \/ Unanswered(c) \/ Fail(c)
        \/ Stop

Spec == Init /\ [][Next]_vars

\* Only a conversation, a message and a reported slip go without a key.
TypeOK ==
  /\ focus \in DOMAIN Methods
  /\ \A t \in Tables \ {"conversations", "messages", "violations"} :
       \A i \in DOMAIN mem[t] : mem[t][i].key \in Keys
  /\ \A t \in Tables : mem[t] \in Seq(Row) /\ pg[t] \in Seq(Row)
  /\ \A c \in Clients : Pending(c) =>
       [calls[c] EXCEPT !.at = 0, !.step = 1, !.seen = 0] \in Methods[focus]
  /\ faults \in 0 .. MaxFaults

(***************************************************************************)
(* Properties                                                              *)
(***************************************************************************)

\* Rows that agree but for the moment they were stamped.
SameRow(m, p) == [m EXCEPT !.at = 0] = [p EXCEPT !.at = 0]

\* The two tables hold the same rows, whatever clients interleave and whichever
\* statements fail: memory.go:13 "mirrors the uniqueness and idempotency
\* guarantees of the Postgres store".
SameTables ==
  \A t \in Tables :
    /\ Len(mem[t]) = Len(pg[t])
    /\ \A i \in DOMAIN mem[t] : SameRow(mem[t][i], pg[t][i])

\* Both refuse, for the same reason. A parent that does not exist is ErrNotFound
\* in memory and a violated foreign key in Postgres, except in AppendMessage.
Orphan(call) ==
  call.op \notin OfTable /\ (call.id = 0 \/ (call.op = "CreateAgentLink" /\ call.ref = 0))
SameRefusal(call, m, p) ==
  \/ m.why = p.why
  \/ m.why = "not found" /\ p.why = "error" /\ Orphan(call)

\* One is an earlier version of the other: a conversation that was read in one
\* statement and its messages in the next may be older than they are.
SameOrOlder(m, p) ==
  /\ m.of = p.of /\ m.id = p.id
  /\ \/ SameRow(m.row, p.row)
     \/ /\ m.of = "conversations" /\ p.row.data < m.row.data
        /\ SameRow(m.row, [p.row EXCEPT !.data = m.row.data])

\* The same rows, in the same order unless their creations overlapped: Postgres
\* lists by the time the call read before it was sent, memory by insertion.
SameRows(m, p) ==
  \E place \in Bijection(DOMAIN m, DOMAIN m) :
    /\ \A i \in DOMAIN m : place[i] \in DOMAIN p /\ SameOrOlder(m[i], p[place[i]])
    /\ \A i, j \in DOMAIN m :
         m[i].row.at < p[place[j]].row.at => i < j /\ place[i] < place[j]

\* Whatever call a client is about to end, the two stores answer it alike.
SameAnswers ==
  \A c \in Clients : Ends(c) =>
    LET m == InMemory(c)
        p == InPostgres(c)
    IN  /\ SameRefusal(calls[c], m, p)
        /\ Len(m.rows) = Len(p.rows) /\ SameRows(m.rows, p.rows)

\* The memory store has no schema, and keeps its UNIQUE and REFERENCES
\* constraints all the same.
ConstraintsHold ==
  \A t \in Tables : \A i \in DOMAIN mem[t] :
    /\ Clash(mem, t, mem[t][i]) \subseteq {i}
    /\ Referenced(mem, t, mem[t][i])

\* A row stays: it keeps its place, its creation time and, but for a chat that
\* changes hands, its owner; what is archived, revoked, consumed or settled
\* stays so, whichever calls of however many clients write to it. A conversation
\* is not left as touched by an earlier message than before.
StaysRow(t, old, new) ==
  /\ new.at = old.at /\ new.ref = old.ref
  /\ t # "chats" => new.owner = old.owner
  /\ t # "goals" => new.key = old.key
  /\ old.done => new.done
  /\ t = "conversations" => new.data >= old.data
RowsStay ==
  [][\A t \in Tables : \A i \in DOMAIN pg[t] :
       i \in DOMAIN pg'[t] /\ StaysRow(t, pg[t][i], pg'[t][i])]_vars
=============================================================================
