--------------------------- MODULE PostgresStore ---------------------------
(***************************************************************************)
(* The Postgres store (store/postgres.go) and the schema it runs on        *)
(* (backend/migrations). A statement is atomic. Most methods are one; of   *)
(* the others c.step is the statement c is about to run, and PgContinues   *)
(* says whether another follows it. What a statement before the last one   *)
(* leaves behind is c.seen: no such statement changes a table that another *)
(* connection can see.                                                     *)
(***************************************************************************)
EXTENDS Rows

\* REFERENCES: the table of a row's owner.
Parent == [users |-> {}, goals |-> {"users"}, checkIns |-> {"goals"},
  violations |-> {"goals"}, approvals |-> {"users"}, apiKeys |-> {"users"},
  codes |-> {"users"}, chats |-> {"users"}, agentLinks |-> {"users"},
  conversations |-> {"users"}, messages |-> {"conversations"}]

Referenced(db, t, row) ==
  /\ \A p \in Parent[t] : row.owner \in DOMAIN db[p]
  /\ t = "agentLinks" => row.ref \in DOMAIN db.apiKeys

\* UNIQUE: the rows a row cannot stand beside.
Clash(db, t, row) ==
  CASE t \in {"users", "apiKeys", "codes", "chats", "agentLinks"} -> WithKey(db, t, row.key)
    [] t \in {"checkIns", "approvals"} -> Owned(db, t, row.owner, row.key)
    [] t = "violations" /\ row.key # NoKey -> Owned(db, t, row.owner, row.key)
    [] OTHER -> {}

\* INSERT. A broken constraint is an error like any other.
Insert(db, t, row) ==
  IF Clash(db, t, row) # {} \/ ~Referenced(db, t, row) THEN Refuse(db, "error")
  ELSE LET after == [db EXCEPT ![t] = Append(@, row)]
       IN  Answer(after, t, <<Len(after[t])>>)

\* UPDATE ... RETURNING, of at most one row: new holds it at its position. mapErr
\* turns no rows into ErrNotFound.
Update(db, t, new) ==
  LET i == Only(DOMAIN new) IN
  CASE DOMAIN new = {} -> Refuse(db, "not found")
    [] DOMAIN new # {} /\ ~Referenced(db, t, new[i]) -> Refuse(db, "error")
    [] OTHER -> Answer([db EXCEPT ![t][i] = new[i]], t, <<i>>)

\* INSERT ... ON CONFLICT DO UPDATE: new holds the row in conflict.
Upsert(db, t, row, new) ==
  IF DOMAIN new = {} THEN Insert(db, t, row) ELSE Update(db, t, new)

SelectOne(db, t, ids) ==
  IF ids = {} THEN Refuse(db, "not found") ELSE Answer(db, t, <<Only(ids)>>)

\* Mutant for SameAnswers: newest first.
SelectAllLatest(db, t, ids) ==
  LET oldest == Sorted(ids, [i \in ids |-> db[t][i].at])
  IN  Answer(db, t, [k \in DOMAIN oldest |-> oldest[Len(oldest) + 1 - k]])

\* SELECT ... ORDER BY created_at.
SelectAll(db, t, ids) == Answer(db, t, Sorted(ids, [i \in ids |-> db[t][i].at]))

PgCreateUser(db, c) == Insert(db, "users", NewRow(0, c.key, c.data, c.at))

PgGetUserByWallet(db, c) == SelectOne(db, "users", WithKey(db, "users", c.key))

PgGetUser(db, c) == SelectOne(db, "users", Having(db, "users", c.id))

PgCreateGoal(db, c) == Insert(db, "goals", NewRow(c.id, c.key, c.data, c.at))

PgGetGoal(db, c) == SelectOne(db, "goals", Having(db, "goals", c.id))

PgGetGoalsByUser(db, c) == SelectAll(db, "goals", OwnedBy(db, "goals", c.id))

PgUpdateGoal(db, c) ==
  Update(db, "goals",
         [i \in Having(db, "goals", c.id) |->
            [db.goals[i] EXCEPT !.data = c.data, !.key = IF c.key = NoKey THEN @ ELSE c.key]])

PgArchiveGoal(db, c) ==
  LET out == Update(db, "goals",
                    [i \in Having(db, "goals", c.id) |-> [db.goals[i] EXCEPT !.done = TRUE]])
  IN  [out EXCEPT !.rows = <<>>]

PgListActiveGoals(db, c) == SelectAll(db, "goals", Open(db, "goals"))

\* Mutant for RowsStay: SET created_at = EXCLUDED.created_at.
PgUpsertCheckInAnew(db, c) ==
  Upsert(db, "checkIns", NewRow(c.id, c.key, c.data, c.at),
         [i \in Owned(db, "checkIns", c.id, c.key) |->
            [db.checkIns[i] EXCEPT !.data = c.data, !.at = c.at]])

\* A conflict keeps the row's id and created_at.
PgUpsertCheckIn(db, c) ==
  Upsert(db, "checkIns", NewRow(c.id, c.key, c.data, c.at),
         [i \in Owned(db, "checkIns", c.id, c.key) |-> [db.checkIns[i] EXCEPT !.data = c.data]])

PgGetCheckIn(db, c) == SelectOne(db, "checkIns", Owned(db, "checkIns", c.id, c.key))

\* dedupe_key NULL.
PgCreateViolation(db, c) == Insert(db, "violations", NewRow(c.id, NoKey, c.data, c.at))

\* INSERT ... ON CONFLICT DO NOTHING; where it returned no row, a SELECT.
PgCreateViolationIfAbsent(db, c) ==
  IF c.step = 1 THEN Insert(db, "violations", NewRow(c.id, c.key, c.data, c.at))
  ELSE SelectOne(db, "violations", Owned(db, "violations", c.id, c.key))

PgUpdateViolation(db, c) ==
  Update(db, "violations",
         [i \in Having(db, "violations", c.id) |->
            [db.violations[i] EXCEPT !.done = TRUE, !.data = c.data]])

PgListViolations(db, c) == SelectAll(db, "violations", OwnedBy(db, "violations", c.id))

PgUpsertWalletApproval(db, c) ==
  Upsert(db, "approvals", NewRow(c.id, c.key, c.data, c.at),
         [i \in Owned(db, "approvals", c.id, c.key) |-> [db.approvals[i] EXCEPT !.data = c.data]])

PgGetWalletApproval(db, c) == SelectOne(db, "approvals", Owned(db, "approvals", c.id, c.key))

PgCreateApiKey(db, c) == Insert(db, "apiKeys", NewRow(c.id, c.key, 0, c.at))

PgGetApiKeyByHash(db, c) == SelectOne(db, "apiKeys", WithKey(db, "apiKeys", c.key))

PgTouchApiKey(db, c) ==
  Update(db, "apiKeys",
         [i \in Having(db, "apiKeys", c.id) |-> [db.apiKeys[i] EXCEPT !.data = c.data]])

PgListApiKeysByUser(db, c) == SelectAll(db, "apiKeys", OwnedBy(db, "apiKeys", c.id))

\* UPDATE ... WHERE revoked_at IS NULL; where it touched no row, a SELECT 1.
PgRevokeApiKey(db, c) ==
  LET ids == Having(db, "apiKeys", c.id)
      out == IF c.step = 1
             THEN Update(db, "apiKeys", [i \in ids |-> [db.apiKeys[i] EXCEPT !.done = TRUE]])
             ELSE SelectOne(db, "apiKeys", ids)
  IN  [out EXCEPT !.rows = <<>>]

PgCreateTelegramLinkCode(db, c) == Insert(db, "codes", NewRow(c.id, c.key, c.data, c.at))

\* WHERE code_hash = $1 AND consumed_at IS NULL AND expires_at > $2.
PgConsumeTelegramLinkCode(db, c) ==
  LET valid == {i \in WithKey(db, "codes", c.key) : ~db.codes[i].done /\ db.codes[i].data > c.data}
  IN  Update(db, "codes", [i \in valid |-> [db.codes[i] EXCEPT !.done = TRUE]])

\* Mutant for SameTables: the conflict keeps user_id.
PgUpsertTelegramLinkKeeps(db, c) ==
  Upsert(db, "chats", NewRow(c.id, c.key, c.data, c.at),
         [i \in WithKey(db, "chats", c.key) |-> [db.chats[i] EXCEPT !.data = c.data]])

PgUpsertTelegramLink(db, c) ==
  Upsert(db, "chats", NewRow(c.id, c.key, c.data, c.at),
         [i \in WithKey(db, "chats", c.key) |->
            [db.chats[i] EXCEPT !.owner = c.id, !.data = c.data]])

PgGetTelegramLinkByChatID(db, c) == SelectOne(db, "chats", WithKey(db, "chats", c.key))

PgCreateAgentLink(db, c) ==
  Insert(db, "agentLinks", [NewRow(c.id, c.key, c.data, c.at) EXCEPT !.ref = c.ref])

PgListAgentLinksByUser(db, c) == SelectAll(db, "agentLinks", OwnedBy(db, "agentLinks", c.id))

PgGetAgentLinkByTokenHash(db, c) == SelectOne(db, "agentLinks", WithKey(db, "agentLinks", c.key))

PgRevokeAgentLink(db, c) ==
  Update(db, "agentLinks",
         [i \in Having(db, "agentLinks", c.id) |-> [db.agentLinks[i] EXCEPT !.done = TRUE]])

PgCreateConversation(db, c) == Insert(db, "conversations", NewRow(c.id, NoKey, 0, c.at))

\* A transaction: SELECT 1 (step 1), INSERT (2), UPDATE of the conversation (3),
\* which holds the row's lock until COMMIT (4) makes both visible.
PgAppendMessage(db, c) ==
  IF c.step = 1 THEN Refuse(db, "not found")
  ELSE LET out == Insert(db, "messages", NewRow(c.id, NoKey, c.data, c.at))
       IN  [out EXCEPT !.db.conversations[c.id].data = Len(out.db.messages)]

\* A SELECT of the conversation, then one of its messages.
PgGetConversation(db, c) ==
  LET conv == SelectOne(db, "conversations", Having(db, "conversations", c.id)) IN
  IF c.step = 1 THEN conv
  ELSE [conv EXCEPT !.rows = <<[@[1] EXCEPT !.row.data = c.seen]>>
                             \o SelectAll(db, "messages", OwnedBy(db, "messages", c.id)).rows]

\* Another statement follows the one c is about to run.
PgContinues(db, c) ==
  \/ /\ c.op = "CreateViolationIfAbsent" /\ c.step = 1
     /\ Owned(db, "violations", c.id, c.key) # {}
  \/ /\ c.op = "RevokeApiKey" /\ c.step = 1
     /\ \A i \in Having(db, "apiKeys", c.id) : db.apiKeys[i].done
  \/ /\ c.op = "AppendMessage" /\ c.step < 4
     /\ c.id \in DOMAIN db.conversations
  \/ /\ c.op = "GetConversation" /\ c.step = 1
     /\ c.id \in DOMAIN db.conversations

\* What the statement leaves behind for the next one.
PgSees(db, c) == IF c.op = "GetConversation" THEN db.conversations[c.id].data ELSE c.seen

Postgres(db, c) ==
  CASE c.op = "CreateUser" -> PgCreateUser(db, c)
    [] c.op = "GetUserByWallet" -> PgGetUserByWallet(db, c)
    [] c.op = "GetUser" -> PgGetUser(db, c)
    [] c.op = "CreateGoal" -> PgCreateGoal(db, c)
    [] c.op = "GetGoal" -> PgGetGoal(db, c)
    [] c.op = "GetGoalsByUser" -> PgGetGoalsByUser(db, c)
    [] c.op = "UpdateGoal" -> PgUpdateGoal(db, c)
    [] c.op = "ArchiveGoal" -> PgArchiveGoal(db, c)
    [] c.op = "ListActiveGoals" -> PgListActiveGoals(db, c)
    [] c.op = "UpsertCheckIn" -> PgUpsertCheckIn(db, c)
    [] c.op = "GetCheckIn" -> PgGetCheckIn(db, c)
    [] c.op = "CreateViolation" -> PgCreateViolation(db, c)
    [] c.op = "CreateViolationIfAbsent" -> PgCreateViolationIfAbsent(db, c)
    [] c.op = "UpdateViolation" -> PgUpdateViolation(db, c)
    [] c.op = "ListViolations" -> PgListViolations(db, c)
    [] c.op = "UpsertWalletApproval" -> PgUpsertWalletApproval(db, c)
    [] c.op = "GetWalletApproval" -> PgGetWalletApproval(db, c)
    [] c.op = "CreateApiKey" -> PgCreateApiKey(db, c)
    [] c.op = "GetApiKeyByHash" -> PgGetApiKeyByHash(db, c)
    [] c.op = "TouchApiKey" -> PgTouchApiKey(db, c)
    [] c.op = "ListApiKeysByUser" -> PgListApiKeysByUser(db, c)
    [] c.op = "RevokeApiKey" -> PgRevokeApiKey(db, c)
    [] c.op = "CreateTelegramLinkCode" -> PgCreateTelegramLinkCode(db, c)
    [] c.op = "ConsumeTelegramLinkCode" -> PgConsumeTelegramLinkCode(db, c)
    [] c.op = "UpsertTelegramLink" -> PgUpsertTelegramLink(db, c)
    [] c.op = "GetTelegramLinkByChatID" -> PgGetTelegramLinkByChatID(db, c)
    [] c.op = "CreateAgentLink" -> PgCreateAgentLink(db, c)
    [] c.op = "ListAgentLinksByUser" -> PgListAgentLinksByUser(db, c)
    [] c.op = "GetAgentLinkByTokenHash" -> PgGetAgentLinkByTokenHash(db, c)
    [] c.op = "RevokeAgentLink" -> PgRevokeAgentLink(db, c)
    [] c.op = "CreateConversation" -> PgCreateConversation(db, c)
    [] c.op = "AppendMessage" -> PgAppendMessage(db, c)
    [] c.op = "GetConversation" -> PgGetConversation(db, c)
=============================================================================
