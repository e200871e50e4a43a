---------------------------- MODULE Credentials ----------------------------
(***************************************************************************)
(* API keys and agent links (service.go, auth/apikey.go) and the requests  *)
(* that authenticate with them (router.go, requireAuth). An agent link is  *)
(* a public URL whose skill document carries an API key derived from the   *)
(* URL's token: two rows, created and revoked by two store calls each.     *)
(*                                                                         *)
(* A step is one call of the store.                                        *)
(***************************************************************************)
EXTENDS Naturals, Sequences

CONSTANTS
  CredClients,
  Owners,                     \* users
  MaxKeys, MaxLinks, MaxCredFaults  \* bounds

ASSUME CredAssumption ==
  {MaxKeys, MaxLinks, MaxCredFaults} \subseteq Nat

VARIABLES
  keys,     \* table api_keys
  links,    \* table agent_links
  reqs,     \* the request each client waits for
  retired,  \* history: keys and links whose revocation was answered with success
  broken    \* faults so far, by kind

credVars == <<keys, links, reqs, retired, broken>>

NoReq == [at |-> "idle"]
Key == [owner: Owners, agent: BOOLEAN, revoked: BOOLEAN]
Link == [owner: Owners, key: 1 .. MaxKeys, revoked: BOOLEAN]

\* A request: whose it is, the step it is at, the key and the link it is about.
\* late: its credential had been revoked, and its owner told so, when it was
\* made. alive: its context is not cancelled.
Req == [at: {"createKey", "createAgentKey", "createLink", "undoKey", "listKeys", "revokeKey",
             "listLinks", "revokeLink", "revokeLinkKey", "getLink", "getKey", "touchKey",
             "getKeyAgain", "touchKeyAgain", "serve"},
        by: Owners, key: 0 .. MaxKeys, link: 0 .. MaxLinks, late: BOOLEAN, alive: BOOLEAN]

\* A store call fails; its answer is lost; its client goes; the process dies.
FaultKinds == {"failed", "lost", "disconnected", "crashed"}

CredTypeOK ==
  /\ keys \in Seq(Key) /\ Len(keys) <= MaxKeys
  /\ links \in Seq(Link) /\ Len(links) <= MaxLinks
  /\ reqs \in [CredClients -> Req \union {NoReq}]
  /\ retired \subseteq {"key"} \X DOMAIN keys \union {"link"} \X DOMAIN links
  /\ broken \in [FaultKinds -> 0 .. MaxCredFaults]

CredInit ==
  /\ keys = <<>> /\ links = <<>> /\ retired = {}
  /\ reqs = [c \in CredClients |-> NoReq]
  /\ broken = [kind \in FaultKinds |-> 0]

Break(kind) ==
  /\ broken["failed"] + broken["lost"] + broken["disconnected"] + broken["crashed"] < MaxCredFaults
  /\ broken' = [broken EXCEPT ![kind] = @ + 1]

Ask(c, at, by, k, l, late) ==
  /\ reqs[c] = NoReq
  /\ reqs' = [reqs EXCEPT ![c] = [at |-> at, by |-> by, key |-> k, link |-> l,
                                  late |-> late, alive |-> TRUE]]
  /\ UNCHANGED <<keys, links, retired, broken>>

CreateAPIKey(c) == \E u \in Owners : Ask(c, "createKey", u, 0, 0, FALSE)
CreateAgentLink(c) == \E u \in Owners : Ask(c, "createAgentKey", u, 0, 0, FALSE)
\* Anybody may name any key or link.
RevokeAPIKey(c) == \E u \in Owners, k \in DOMAIN keys : Ask(c, "listKeys", u, k, 0, FALSE)
RevokeAgentLink(c) == \E u \in Owners, l \in DOMAIN links : Ask(c, "listLinks", u, 0, l, FALSE)
AgentSkillMarkdown(c) ==
  \E l \in DOMAIN links : Ask(c, "getLink", links[l].owner, 0, l, <<"link", l>> \in retired)
\* requireAuth, in front of any request: APIKeyManager.Verify.
Verify(c) ==
  \E k \in DOMAIN keys : Ask(c, "getKey", keys[k].owner, k, 0, <<"key", k>> \in retired)

Go(c, at) == reqs' = [reqs EXCEPT ![c].at = at]
Reply(c) == reqs' = [reqs EXCEPT ![c] = NoReq]

\* A store call of c that succeeds. The context of a client that has gone is
\* cancelled, and every call made with it fails.
Calls(c, at) == reqs[c].at = at /\ reqs[c].alive

StoreKey(c) ==
  LET agent == reqs[c].at = "createAgentKey" IN
  /\ Calls(c, "createKey") \/ Calls(c, "createAgentKey")
  /\ Len(keys) < MaxKeys
  /\ keys' = Append(keys, [owner |-> reqs[c].by, agent |-> agent, revoked |-> FALSE])
  /\ reqs' = [reqs EXCEPT ![c] = IF agent THEN [@ EXCEPT !.at = "createLink", !.key = Len(keys')]
                                          ELSE NoReq]
  /\ UNCHANGED <<links, retired, broken>>

NewLink(c) == [owner |-> reqs[c].by, key |-> reqs[c].key, revoked |-> FALSE]

StoreLink(c) ==
  /\ Calls(c, "createLink")
  /\ Len(links) < MaxLinks
  /\ links' = Append(links, NewLink(c))
  /\ Reply(c)
  /\ UNCHANGED <<keys, retired, broken>>

\* A list holds revoked rows too; the request goes on if its row is there.
ListApiKeysByUser(c) ==
  /\ Calls(c, "listKeys")
  /\ IF keys[reqs[c].key].owner = reqs[c].by THEN Go(c, "revokeKey") ELSE Reply(c)
  /\ UNCHANGED <<keys, links, retired, broken>>

\* Mutant for OnlyOwnersRevoke: the list is not the user's own.
ListAgentLinksOfAll(c) ==
  /\ Calls(c, "listLinks")
  /\ Go(c, "revokeLink")
  /\ UNCHANGED <<keys, links, retired, broken>>

ListAgentLinksByUser(c) ==
  /\ Calls(c, "listLinks")
  /\ IF links[reqs[c].link].owner = reqs[c].by THEN Go(c, "revokeLink") ELSE Reply(c)
  /\ UNCHANGED <<keys, links, retired, broken>>

\* Mutant for RetiredIsRevoked: RevokeAgentLink starts with the key and has done
\* once that is revoked.
StoreRevokedLinkNever(c) ==
  /\ Calls(c, "revokeLink")
  /\ reqs' = [reqs EXCEPT ![c].at = "revokeLinkKey", ![c].key = links[reqs[c].link].key]
  /\ UNCHANGED <<keys, links, retired, broken>>

\* The row comes back with the key it names.
StoreRevokedLink(c) ==
  /\ Calls(c, "revokeLink")
  /\ links' = [links EXCEPT ![reqs[c].link].revoked = TRUE]
  /\ reqs' = [reqs EXCEPT ![c].at = "revokeLinkKey", ![c].key = links[reqs[c].link].key]
  /\ UNCHANGED <<keys, retired, broken>>

\* RevokeApiKey: the last call of RevokeAPIKey and of RevokeAgentLink, and what
\* a failed CreateAgentLink tries before it returns its error.
StoreRevokedKey(c) ==
  LET told == CASE reqs[c].at = "revokeKey" -> {<<"key", reqs[c].key>>}
                [] reqs[c].at = "revokeLinkKey" -> {<<"key", reqs[c].key>>, <<"link", reqs[c].link>>}
                [] OTHER -> {}
  IN  /\ Calls(c, "revokeKey") \/ Calls(c, "revokeLinkKey") \/ Calls(c, "undoKey")
      /\ keys' = [keys EXCEPT ![reqs[c].key].revoked = TRUE]
      /\ retired' = retired \union told
      /\ Reply(c)
      /\ UNCHANGED <<links, broken>>

\* 404 for a revoked link, else the document; or 410, as a link expires at a
\* time of its own, which is left out.
GetAgentLinkByTokenHash(c) ==
  /\ Calls(c, "getLink")
  /\ \/ ~links[reqs[c].link].revoked /\ Go(c, "serve")
     \/ Reply(c)
  /\ UNCHANGED <<keys, links, retired, broken>>

\* A key that is refused the first time is no session token either, and is
\* verified a second time.
GetApiKeyByHash(c) ==
  LET first == reqs[c].at = "getKey" IN
  /\ Calls(c, "getKey") \/ Calls(c, "getKeyAgain")
  /\ CASE ~keys[reqs[c].key].revoked -> Go(c, IF first THEN "touchKey" ELSE "touchKeyAgain")
       [] keys[reqs[c].key].revoked /\ first -> Go(c, "getKeyAgain")
       [] OTHER -> Reply(c)
  /\ UNCHANGED <<keys, links, retired, broken>>

\* Mutant for RevokedIsRefused: the row that was read is written back whole.
TouchApiKeyWritesBack(c) ==
  /\ Calls(c, "touchKey") \/ Calls(c, "touchKeyAgain")
  /\ keys' = [keys EXCEPT ![reqs[c].key].revoked = FALSE]
  /\ Go(c, "serve")
  /\ UNCHANGED <<links, retired, broken>>

\* The time of the key's last use, which is all this writes, is left out.
TouchApiKey(c) ==
  /\ Calls(c, "touchKey") \/ Calls(c, "touchKeyAgain")
  /\ Go(c, "serve")
  /\ UNCHANGED <<keys, links, retired, broken>>

\* The request is served as its key's owner, or the document is sent.
Serve(c) ==
  /\ reqs[c].at = "serve"
  /\ Reply(c)
  /\ UNCHANGED <<keys, links, retired, broken>>

\* Mutant for NoOrphanKey: CreateAgentLink returns the error of its second call.
AfterErrorReply(c) == Reply(c)

\* A store call that returns an error ends the request, except that the call that
\* stores the link is followed by one that revokes its key, and that the first
\* verification of a key is followed by the second.
AfterError(c) ==
  CASE reqs[c].at = "createLink" -> Go(c, "undoKey")
    [] reqs[c].at \in {"getKey", "touchKey"} -> Go(c, "getKeyAgain")
    [] OTHER -> Reply(c)
Calling(c) == reqs[c] # NoReq /\ reqs[c].at # "serve"

CallFails(c) ==
  /\ Calling(c)
  /\ \/ ~reqs[c].alive /\ UNCHANGED broken
     \/ reqs[c].alive /\ Break("failed")
  /\ AfterError(c)
  /\ UNCHANGED <<keys, links, retired>>

\* The statement takes effect, the answer is lost.
CallUnanswered(c) ==
  LET at == reqs[c].at IN
  /\ Calling(c) /\ reqs[c].alive /\ Break("lost")
  /\ \/ /\ at \in {"createKey", "createAgentKey"} /\ Len(keys) < MaxKeys
        /\ keys' = Append(keys, [owner |-> reqs[c].by, agent |-> at = "createAgentKey",
                                 revoked |-> FALSE])
        /\ UNCHANGED links
     \/ /\ at = "createLink" /\ Len(links) < MaxLinks
        /\ links' = Append(links, NewLink(c))
        /\ UNCHANGED keys
     \/ /\ at = "revokeLink"
        /\ links' = [links EXCEPT ![reqs[c].link].revoked = TRUE]
        /\ UNCHANGED keys
     \/ /\ at \in {"revokeKey", "revokeLinkKey", "undoKey"}
        /\ keys' = [keys EXCEPT ![reqs[c].key].revoked = TRUE]
        /\ UNCHANGED links
  /\ AfterError(c)
  /\ UNCHANGED <<retired>>

\* The client goes away: the context of its request is cancelled.
Disconnect(c) ==
  /\ Calling(c) /\ reqs[c].alive /\ Break("disconnected")
  /\ reqs' = [reqs EXCEPT ![c].alive = FALSE]
  /\ UNCHANGED <<keys, links, retired>>

\* The process dies: requests in progress stop where they are.
CredCrash ==
  /\ Break("crashed")
  /\ reqs' = [c \in CredClients |-> NoReq]
  /\ UNCHANGED <<keys, links, retired>>

CredNext ==
  \/ \E c \in CredClients :
       \/ CreateAPIKey(c) \/ CreateAgentLink(c) \/ RevokeAPIKey(c) \/ RevokeAgentLink(c)
       \/ AgentSkillMarkdown(c) \/ Verify(c)
       \/ StoreKey(c) \/ StoreLink(c) \/ ListApiKeysByUser(c) \/ ListAgentLinksByUser(c)
       \/ StoreRevokedLink(c) \/ StoreRevokedKey(c)
       \/ GetAgentLinkByTokenHash(c) \/ GetApiKeyByHash(c) \/ TouchApiKey(c) \/ Serve(c)
       \/ CallFails(c) \/ CallUnanswered(c) \/ Disconnect(c)
  \/ CredCrash

CredSpec == CredInit /\ [][CredNext]_credVars

(***************************************************************************)
(* Properties                                                              *)
(***************************************************************************)

\* Once its owner has been told that a key or a link is revoked, no later
\* request is served with it, whatever was in progress then (service.go:907
\* "After revocation, this URL stops resolving and the API secret returns 401.").
RevokedIsRefused == \A c \in CredClients :
  reqs[c].at \in {"touchKey", "touchKeyAgain", "serve"} => ~reqs[c].late

\* A link's revocation takes two calls. It is reported as done only when both
\* rows are revoked, also by a repetition of one that failed half-way or that
\* raced another; and no row is ever made valid again.
RetiredIsRevoked ==
  /\ \A k \in DOMAIN keys : <<"key", k>> \in retired => keys[k].revoked
  /\ \A l \in DOMAIN links : <<"link", l>> \in retired =>
       links[l].revoked /\ keys[links[l].key].revoked

\* Rows are revoked only for their owner, whatever ids a request names; the
\* list a request looks its id up in is its own user's.
OnlyOwnersRevoke ==
  [][ /\ \A k \in DOMAIN keys : ~keys[k].revoked /\ keys'[k].revoked =>
           \E c \in CredClients : reqs[c] # reqs'[c] /\ reqs[c].by = keys[k].owner
      /\ \A l \in DOMAIN links : ~links[l].revoked /\ links'[l].revoked =>
           \E c \in CredClients : reqs[c] # reqs'[c] /\ reqs[c].by = links[l].owner ]_credVars

\* A valid agent key that no link carries is left behind only by a lost answer, a
\* broken connection, a crash or two failures: one failed call is made up for.
Carried(k) == \E l \in DOMAIN links : links[l].key = k
InProgress(k) == \E c \in CredClients :
  reqs[c].at \in {"createLink", "undoKey"} /\ reqs[c].key = k
NoOrphanKey ==
  (\A kind \in FaultKinds : broken[kind] <= IF kind = "failed" THEN 1 ELSE 0) =>
    \A k \in DOMAIN keys : keys[k].agent /\ ~keys[k].revoked => Carried(k) \/ InProgress(k)
=============================================================================
