---------------------------- MODULE MemoryStore ----------------------------
(***************************************************************************)
(* The in-memory store (store/memory.go), which the tests of the service   *)
(* run against. Every method holds one mutex from its first line to its    *)
(* last, so each is one operator here: the tables before, the call, the    *)
(* outcome. An index map is the look-up it serves, except violationKey,    *)
(* which holds more than the violation rows do.                            *)
(***************************************************************************)
EXTENDS Rows

\* Rows of t in the order of m.ord.
MemList(db, t, ids) == Answer(db, t, Sorted(ids, [i \in ids |-> i]))

MemGet(db, t, ids) ==
  IF ids = {} THEN Refuse(db, "not found") ELSE Answer(db, t, <<Only(ids)>>)

\* Every lookup of a parent that fails returns ErrNotFound.
MemAdd(db, t, parents, taken, row) ==
  IF \E p \in parents : p[2] \notin DOMAIN db[p[1]] THEN Refuse(db, "not found")
  ELSE IF taken # {} THEN Refuse(db, "error")
  ELSE LET after == [db EXCEPT ![t] = Append(@, row)]
       IN  Answer(after, t, <<Len(after[t])>>)

MemSet(db, t, ids, row) ==
  IF ids = {} THEN Refuse(db, "not found")
  ELSE Answer([db EXCEPT ![t][Only(ids)] = row], t, <<Only(ids)>>)

MemCreateUser(db, c) ==
  MemAdd(db, "users", {}, WithKey(db, "users", c.key), NewRow(0, c.key, c.data, c.at))

MemGetUserByWallet(db, c) == MemGet(db, "users", WithKey(db, "users", c.key))

MemGetUser(db, c) == MemGet(db, "users", Having(db, "users", c.id))

MemCreateGoal(db, c) ==
  MemAdd(db, "goals", {<<"users", c.id>>}, {}, NewRow(c.id, c.key, c.data, c.at))

MemGetGoal(db, c) == MemGet(db, "goals", Having(db, "goals", c.id))

MemGetGoalsByUser(db, c) == MemList(db, "goals", OwnedBy(db, "goals", c.id))

\* Mutant for TypeOK: an empty token overwrites the goal's.
MemUpdateGoalBlank(db, c) ==
  MemSet(db, "goals", Having(db, "goals", c.id),
         [db.goals[c.id] EXCEPT !.data = c.data, !.key = c.key])

\* An empty token and chain (NoKey) keep the goal's.
MemUpdateGoal(db, c) ==
  MemSet(db, "goals", Having(db, "goals", c.id),
         [db.goals[c.id] EXCEPT !.data = c.data, !.key = IF c.key = NoKey THEN @ ELSE c.key])

MemArchiveGoal(db, c) ==
  IF c.id \notin DOMAIN db.goals THEN Refuse(db, "not found")
  ELSE Done([db EXCEPT !.goals[c.id].done = TRUE])

MemListActiveGoals(db, c) == MemList(db, "goals", Open(db, "goals"))

MemUpsertCheckIn(db, c) ==
  LET ids == Owned(db, "checkIns", c.id, c.key) IN
  IF c.id \notin DOMAIN db.goals \/ ids = {}
  THEN MemAdd(db, "checkIns", {<<"goals", c.id>>}, {}, NewRow(c.id, c.key, c.data, c.at))
  ELSE MemSet(db, "checkIns", ids, [db.checkIns[Only(ids)] EXCEPT !.data = c.data])

MemGetCheckIn(db, c) == MemGet(db, "checkIns", Owned(db, "checkIns", c.id, c.key))

\* A fresh pending row, under no key.
CreateViolationLocked(db, c) ==
  MemAdd(db, "violations", {<<"goals", c.id>>}, {}, NewRow(c.id, NoKey, c.data, c.at))

MemCreateViolation(db, c) == CreateViolationLocked(db, c)

\* Rows of the memory store carry no dedupe key: violationKey knows the row of
\* a goal and period. Here that map is the key field of the row it points to.
MemCreateViolationIfAbsent(db, c) ==
  LET ids == Owned(db, "violations", c.id, c.key)
      out == CreateViolationLocked(db, c)
      new == Len(db.violations) + 1
  IN  IF c.id \in DOMAIN db.goals /\ ids # {} THEN Answer(db, "violations", <<Only(ids)>>)
      ELSE IF out.why # "none" THEN out
      ELSE Answer([out.db EXCEPT !.violations[new].key = c.key], "violations", <<new>>)

MemUpdateViolation(db, c) ==
  MemSet(db, "violations", Having(db, "violations", c.id),
         [db.violations[c.id] EXCEPT !.done = TRUE, !.data = c.data])

MemListViolations(db, c) == MemList(db, "violations", OwnedBy(db, "violations", c.id))

MemUpsertWalletApproval(db, c) ==
  LET ids == Owned(db, "approvals", c.id, c.key) IN
  IF c.id \notin DOMAIN db.users \/ ids = {}
  THEN MemAdd(db, "approvals", {<<"users", c.id>>}, {}, NewRow(c.id, c.key, c.data, c.at))
  ELSE MemSet(db, "approvals", ids, [db.approvals[Only(ids)] EXCEPT !.data = c.data])

MemGetWalletApproval(db, c) == MemGet(db, "approvals", Owned(db, "approvals", c.id, c.key))

\* Mutant for ConstraintsHold: the hash is not looked up first.
MemCreateApiKeyUnchecked(db, c) ==
  MemAdd(db, "apiKeys", {<<"users", c.id>>}, {}, NewRow(c.id, c.key, 0, c.at))

MemCreateApiKey(db, c) ==
  MemAdd(db, "apiKeys", {<<"users", c.id>>}, WithKey(db, "apiKeys", c.key),
         NewRow(c.id, c.key, 0, c.at))

MemGetApiKeyByHash(db, c) == MemGet(db, "apiKeys", WithKey(db, "apiKeys", c.key))

\* data 0: never used.
MemTouchApiKey(db, c) ==
  MemSet(db, "apiKeys", Having(db, "apiKeys", c.id), [db.apiKeys[c.id] EXCEPT !.data = c.data])

MemListApiKeysByUser(db, c) == MemList(db, "apiKeys", OwnedBy(db, "apiKeys", c.id))

\* Revoking a revoked key is a success.
MemRevokeApiKey(db, c) ==
  IF c.id \notin DOMAIN db.apiKeys THEN Refuse(db, "not found")
  ELSE Done([db EXCEPT !.apiKeys[c.id].done = TRUE])

MemCreateTelegramLinkCode(db, c) ==
  MemAdd(db, "codes", {<<"users", c.id>>}, WithKey(db, "codes", c.key),
         NewRow(c.id, c.key, c.data, c.at))

\* data of a code is its expiry, data of the call the time of consumption.
MemConsumeTelegramLinkCode(db, c) ==
  LET ids == {i \in WithKey(db, "codes", c.key) : ~db.codes[i].done /\ db.codes[i].data > c.data}
  IN  MemSet(db, "codes", ids, [db.codes[Only(ids)] EXCEPT !.done = TRUE])

\* A chat that is already linked changes hands.
MemUpsertTelegramLink(db, c) ==
  LET ids == WithKey(db, "chats", c.key) IN
  IF c.id \notin DOMAIN db.users \/ ids = {}
  THEN MemAdd(db, "chats", {<<"users", c.id>>}, {}, NewRow(c.id, c.key, c.data, c.at))
  ELSE MemSet(db, "chats", ids, [db.chats[Only(ids)] EXCEPT !.owner = c.id, !.data = c.data])

MemGetTelegramLinkByChatID(db, c) == MemGet(db, "chats", WithKey(db, "chats", c.key))

MemCreateAgentLink(db, c) ==
  MemAdd(db, "agentLinks", {<<"users", c.id>>, <<"apiKeys", c.ref>>},
         WithKey(db, "agentLinks", c.key),
         [NewRow(c.id, c.key, c.data, c.at) EXCEPT !.ref = c.ref])

MemListAgentLinksByUser(db, c) == MemList(db, "agentLinks", OwnedBy(db, "agentLinks", c.id))

MemGetAgentLinkByTokenHash(db, c) == MemGet(db, "agentLinks", WithKey(db, "agentLinks", c.key))

MemRevokeAgentLink(db, c) ==
  MemSet(db, "agentLinks", Having(db, "agentLinks", c.id),
         [db.agentLinks[c.id] EXCEPT !.done = TRUE])

MemCreateConversation(db, c) ==
  MemAdd(db, "conversations", {<<"users", c.id>>}, {}, NewRow(c.id, NoKey, 0, c.at))

\* The conversation's updated_at is the new message's created_at.
MemAppendMessage(db, c) ==
  LET out == MemAdd(db, "messages", {<<"conversations", c.id>>}, {},
                    NewRow(c.id, NoKey, c.data, c.at))
  IN  IF out.why # "none" THEN out
      ELSE [out EXCEPT !.db.conversations[c.id].data = Len(out.db.messages)]

\* The conversation, then a copy of its messages.
MemGetConversation(db, c) ==
  LET conv == MemGet(db, "conversations", Having(db, "conversations", c.id)) IN
  IF conv.why # "none" THEN conv
  ELSE [conv EXCEPT !.rows = @ \o MemList(db, "messages", OwnedBy(db, "messages", c.id)).rows]

Memory(db, c) ==
  CASE c.op = "CreateUser" -> MemCreateUser(db, c)
    [] c.op = "GetUserByWallet" -> MemGetUserByWallet(db, c)
    [] c.op = "GetUser" -> MemGetUser(db, c)
    [] c.op = "CreateGoal" -> MemCreateGoal(db, c)
    [] c.op = "GetGoal" -> MemGetGoal(db, c)
    [] c.op = "GetGoalsByUser" -> MemGetGoalsByUser(db, c)
    [] c.op = "UpdateGoal" -> MemUpdateGoal(db, c)
    [] c.op = "ArchiveGoal" -> MemArchiveGoal(db, c)
    [] c.op = "ListActiveGoals" -> MemListActiveGoals(db, c)
    [] c.op = "UpsertCheckIn" -> MemUpsertCheckIn(db, c)
    [] c.op = "GetCheckIn" -> MemGetCheckIn(db, c)
    [] c.op = "CreateViolation" -> MemCreateViolation(db, c)
    [] c.op = "CreateViolationIfAbsent" -> MemCreateViolationIfAbsent(db, c)
    [] c.op = "UpdateViolation" -> MemUpdateViolation(db, c)
    [] c.op = "ListViolations" -> MemListViolations(db, c)
    [] c.op = "UpsertWalletApproval" -> MemUpsertWalletApproval(db, c)
    [] c.op = "GetWalletApproval" -> MemGetWalletApproval(db, c)
    [] c.op = "CreateApiKey" -> MemCreateApiKey(db, c)
    [] c.op = "GetApiKeyByHash" -> MemGetApiKeyByHash(db, c)
    [] c.op = "TouchApiKey" -> MemTouchApiKey(db, c)
    [] c.op = "ListApiKeysByUser" -> MemListApiKeysByUser(db, c)
    [] c.op = "RevokeApiKey" -> MemRevokeApiKey(db, c)
    [] c.op = "CreateTelegramLinkCode" -> MemCreateTelegramLinkCode(db, c)
    [] c.op = "ConsumeTelegramLinkCode" -> MemConsumeTelegramLinkCode(db, c)
    [] c.op = "UpsertTelegramLink" -> MemUpsertTelegramLink(db, c)
    [] c.op = "GetTelegramLinkByChatID" -> MemGetTelegramLinkByChatID(db, c)
    [] c.op = "CreateAgentLink" -> MemCreateAgentLink(db, c)
    [] c.op = "ListAgentLinksByUser" -> MemListAgentLinksByUser(db, c)
    [] c.op = "GetAgentLinkByTokenHash" -> MemGetAgentLinkByTokenHash(db, c)
    [] c.op = "RevokeAgentLink" -> MemRevokeAgentLink(db, c)
    [] c.op = "CreateConversation" -> MemCreateConversation(db, c)
    [] c.op = "AppendMessage" -> MemAppendMessage(db, c)
    [] c.op = "GetConversation" -> MemGetConversation(db, c)
=============================================================================
