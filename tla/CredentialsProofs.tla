------------------------- MODULE CredentialsProofs -------------------------
(***************************************************************************)
(* Revocation of keys and links, for every number of clients, owners, rows *)
(* and faults.                                                             *)
(*                                                                         *)
(* What a request found out about its rows stays true until it uses it:    *)
(* rows keep their owners and a revoked one stays revoked (Grow). That, and *)
(* what each step of a request relies on (Fits), is the invariant.         *)
(***************************************************************************)
EXTENDS Credentials, SequenceTheorems, TLAPS

KeySteps == {"createLink", "undoKey", "listKeys", "revokeKey", "revokeLinkKey",
             "getKey", "touchKey", "getKeyAgain", "touchKeyAgain"}
LinkSteps == {"listLinks", "revokeLink", "revokeLinkKey", "getLink"}

Names(r) ==
  /\ r.at \in KeySteps => r.key \in DOMAIN keys
  /\ r.at \in LinkSteps => r.link \in DOMAIN links

Owns(r) ==
  /\ r.at \in {"createLink", "undoKey", "revokeKey"} => keys[r.key].owner = r.by
  /\ r.at \in {"revokeLink", "revokeLinkKey"} => links[r.link].owner = r.by
  /\ r.at = "revokeLinkKey" => links[r.link].revoked = TRUE /\ r.key = links[r.link].key

IsLate(r) ==
  /\ r.at = "getLink" /\ r.late = TRUE => <<"link", r.link>> \in retired
  /\ r.at \in {"getKey", "getKeyAgain"} /\ r.late = TRUE => <<"key", r.key>> \in retired
  /\ r.at \in {"touchKey", "touchKeyAgain", "serve"} => r.late = FALSE

Fits(r) == Names(r) /\ Owns(r) /\ IsLate(r)

LinkFits(l) == links[l].key \in DOMAIN keys /\ keys[links[l].key].owner = links[l].owner

LinksFit == \A l \in DOMAIN links : LinkFits(l)

Revoked ==
  /\ \A k \in DOMAIN keys : <<"key", k>> \in retired => keys[k].revoked = TRUE
  /\ \A l \in DOMAIN links : <<"link", l>> \in retired =>
       links[l].revoked = TRUE /\ keys[links[l].key].revoked = TRUE

CredInv ==
  /\ CredTypeOK
  /\ \A c \in CredClients : Fits(reqs[c])
  /\ LinksFit
  /\ Revoked

KeysGrow ==
  \A k \in DOMAIN keys :
    /\ k \in DOMAIN keys' /\ keys'[k].owner = keys[k].owner
    /\ keys[k].revoked = TRUE => keys'[k].revoked = TRUE

LinksGrow ==
  \A l \in DOMAIN links :
    /\ l \in DOMAIN links' /\ links'[l].owner = links[l].owner /\ links'[l].key = links[l].key
    /\ links[l].revoked = TRUE => links'[l].revoked = TRUE

Grow == KeysGrow /\ LinksGrow /\ retired \subseteq retired'

LEMMA CredInitInv == CredInit => CredInv
<1> SUFFICES ASSUME CredInit PROVE CredInv
  OBVIOUS
<1>1. CredTypeOK
  BY CredAssumption DEF CredInit, CredTypeOK, FaultKinds
<1>2. \A c \in CredClients : reqs[c] = NoReq
  BY DEF CredInit
<1>3. Fits(NoReq)
  BY DEF Fits, Names, Owns, IsLate, KeySteps, LinkSteps, NoReq
<1>4. DOMAIN keys = {} /\ DOMAIN links = {}
  BY DEF CredInit
<1> QED
  BY <1>1, <1>2, <1>3, <1>4 DEF CredInv, LinksFit, Revoked

\* A request is idle or has every field of one.
LEMMA ReqFields ==
  ASSUME CredTypeOK, NEW c \in CredClients, reqs[c].at # "idle"
  PROVE  reqs[c] \in Req
BY DEF CredTypeOK, NoReq

\* What a request relies on is not disturbed by rows that grow.
LEMMA StillFits ==
  ASSUME NEW r, Fits(r), Grow
  PROVE  Fits(r)'
<1>1. Names(r)'
  BY DEF Fits, Names, Grow, KeysGrow, LinksGrow
<1>2. Owns(r)'
  BY DEF Fits, Names, Owns, Grow, KeysGrow, LinksGrow, KeySteps, LinkSteps
<1>3. IsLate(r)'
  BY DEF Fits, IsLate, Grow
<1> QED
  BY <1>1, <1>2, <1>3 DEF Fits

\* A step of one request.
LEMMA OneStep ==
  ASSUME CredInv, Grow, NEW c \in CredClients, NEW r \in Req \union {NoReq},
         reqs' = [reqs EXCEPT ![c] = r],
         Fits(r)', CredTypeOK', LinksFit', Revoked'
  PROVE  CredInv'
<1>1. \A d \in CredClients : reqs'[d] = IF d = c THEN r ELSE reqs[d]
  BY DEF CredInv, CredTypeOK
<1>2. ASSUME NEW d \in CredClients, d # c PROVE Fits(reqs[d])'
  <2>1. PICK other : other = reqs[d]
    OBVIOUS
  <2>2. Fits(other) /\ reqs'[d] = other
    BY <1>1, <1>2, <2>1 DEF CredInv
  <2>3. Fits(other)'
    BY <2>2, StillFits
  <2> QED
    BY <2>2, <2>3 DEF Fits, Names, Owns, IsLate
<1>3. Fits(reqs[c])'
  BY <1>1 DEF Fits, Names, Owns, IsLate
<1> QED
  BY <1>2, <1>3 DEF CredInv

\* A step that changes one request and no row.
LEMMA QuietStep ==
  ASSUME CredInv, NEW c \in CredClients, NEW r \in Req \union {NoReq},
         reqs' = [reqs EXCEPT ![c] = r],
         UNCHANGED <<keys, links, retired>>, Fits(r), broken' \in [FaultKinds -> 0 .. MaxCredFaults]
  PROVE  CredInv'
<1>1. Grow
  BY DEF Grow, KeysGrow, LinksGrow
<1>2. CredTypeOK'
  BY DEF CredInv, CredTypeOK
<1>3. LinksFit' /\ Revoked'
  BY DEF CredInv, LinksFit, LinkFits, Revoked
<1>4. Fits(r)'
  BY <1>1, StillFits
<1> QED
  BY <1>1, <1>2, <1>3, <1>4, OneStep

LEMMA NoReqFits == Fits(NoReq)
BY DEF Fits, Names, Owns, IsLate, KeySteps, LinkSteps, NoReq

\* A new request.
LEMMA AskStep ==
  ASSUME CredInv, NEW c \in CredClients, NEW at, NEW by \in Owners, NEW k \in 0 .. MaxKeys,
         NEW l \in 0 .. MaxLinks, NEW late \in BOOLEAN, Ask(c, at, by, k, l, late),
         at \in {"createKey", "createAgentKey", "listKeys", "listLinks", "getLink", "getKey"},
         at \in {"listKeys", "getKey"} => k \in DOMAIN keys,
         at \in {"listLinks", "getLink"} => l \in DOMAIN links,
         at = "getLink" /\ late = TRUE => <<"link", l>> \in retired,
         at = "getKey" /\ late = TRUE => <<"key", k>> \in retired
  PROVE  CredInv'
<1> DEFINE r == [at |-> at, by |-> by, key |-> k, link |-> l, late |-> late, alive |-> TRUE]
<1>1. r \in Req
  BY DEF Req
<1>2. Fits(r)
  BY DEF Fits, Names, Owns, IsLate, KeySteps, LinkSteps
<1>3. reqs' = [reqs EXCEPT ![c] = r] /\ UNCHANGED <<keys, links, retired, broken>>
  BY DEF Ask
<1>4. broken' \in [FaultKinds -> 0 .. MaxCredFaults]
  BY <1>3 DEF CredInv, CredTypeOK
<1> HIDE DEF r
<1> QED
  BY <1>1, <1>2, <1>3, <1>4, QuietStep

\* A request with another step is a request with the same fields.
LEMMA WithStep ==
  ASSUME CredInv, NEW c \in CredClients, reqs[c].at # "idle",
         NEW at \in {"undoKey", "revokeKey", "revokeLink", "touchKey", "getKeyAgain",
                     "touchKeyAgain", "serve"}
  PROVE  LET r == [reqs[c] EXCEPT !.at = at] IN
         /\ r \in Req /\ r.at = at /\ r.by = reqs[c].by /\ r.key = reqs[c].key
         /\ r.link = reqs[c].link /\ r.late = reqs[c].late
<1>1. reqs[c] \in Req
  BY ReqFields DEF CredInv
<1> QED
  BY <1>1 DEF Req

\* A request may go on where what its next step relies on is known.
LEMMA GoStep ==
  ASSUME CredInv, NEW c \in CredClients, reqs[c].at # "idle",
         NEW at \in {"undoKey", "revokeKey", "revokeLink", "touchKey", "getKeyAgain",
                     "touchKeyAgain", "serve"},
         Go(c, at),
         at \in {"undoKey", "revokeKey"} => reqs[c].key \in DOMAIN keys
                                          /\ keys[reqs[c].key].owner = reqs[c].by,
         at = "revokeLink" => reqs[c].link \in DOMAIN links /\ links[reqs[c].link].owner = reqs[c].by,
         at \in {"touchKey", "getKeyAgain", "touchKeyAgain"} => reqs[c].key \in DOMAIN keys,
         at = "getKeyAgain" /\ reqs[c].late = TRUE => <<"key", reqs[c].key>> \in retired,
         at \in {"touchKey", "touchKeyAgain", "serve"} => reqs[c].late = FALSE
  PROVE  \E r \in Req : reqs' = [reqs EXCEPT ![c] = r] /\ Fits(r)
<1> DEFINE r == [reqs[c] EXCEPT !.at = at]
<1>1. /\ r \in Req /\ r.at = at /\ r.by = reqs[c].by /\ r.key = reqs[c].key
      /\ r.link = reqs[c].link /\ r.late = reqs[c].late
  BY WithStep
<1>2. reqs' = [reqs EXCEPT ![c] = r]
  BY DEF Go
<1> HIDE DEF r
<1>3. Fits(r)
  BY <1>1 DEF Fits, Names, Owns, IsLate, KeySteps, LinkSteps
<1> QED
  BY <1>1, <1>2, <1>3

LEMMA BreakType ==
  ASSUME CredTypeOK, NEW kind \in FaultKinds, Break(kind)
  PROVE  broken' \in [FaultKinds -> 0 .. MaxCredFaults]
<1>1. broken \in [FaultKinds -> 0 .. MaxCredFaults] /\ MaxCredFaults \in Nat
  BY CredAssumption DEF CredTypeOK
<1>2. broken[kind] < MaxCredFaults
  <2>1. \A k \in FaultKinds : broken[k] \in Nat
    BY <1>1
  <2>2. /\ broken["failed"] \in Nat /\ broken["lost"] \in Nat
        /\ broken["disconnected"] \in Nat /\ broken["crashed"] \in Nat
    BY <2>1 DEF FaultKinds
  <2>3. broken["failed"] + broken["lost"] + broken["disconnected"] + broken["crashed"] < MaxCredFaults
    BY DEF Break
  <2> QED
    BY <1>1, <2>2, <2>3 DEF FaultKinds
<1> QED
  BY <1>1, <1>2 DEF Break

\* One more key.
LEMMA KeyStored ==
  ASSUME CredInv, NEW k \in Key, Len(keys) < MaxKeys, keys' = Append(keys, k),
         UNCHANGED <<links, retired>>
  PROVE  /\ Grow /\ LinksFit' /\ Revoked' /\ keys' \in Seq(Key) /\ Len(keys') <= MaxKeys
         /\ Len(keys') \in DOMAIN keys' /\ keys'[Len(keys')] = k /\ DOMAIN keys \subseteq DOMAIN keys'
<1>1. keys \in Seq(Key) /\ MaxKeys \in Nat
  BY CredAssumption DEF CredInv, CredTypeOK
<1>2. /\ DOMAIN keys = 1 .. Len(keys) /\ Len(keys) \in Nat /\ DOMAIN keys' = 1 .. Len(keys) + 1
      /\ Len(keys') = Len(keys) + 1 /\ keys' \in Seq(Key)
      /\ \A i \in DOMAIN keys : keys'[i] = keys[i]
      /\ keys'[Len(keys) + 1] = k
  BY <1>1
<1>3. Grow
  BY <1>2 DEF Grow, KeysGrow, LinksGrow
<1>4. LinksFit'
  BY <1>2 DEF CredInv, LinksFit, LinkFits
<1>5. Revoked'
  <2>1. \A i \in DOMAIN keys' : <<"key", i>> \in retired => i \in DOMAIN keys
    BY DEF CredInv, CredTypeOK
  <2> QED
    BY <1>2, <2>1 DEF CredInv, Revoked, LinksFit, LinkFits
<1> QED
  BY <1>1, <1>2, <1>3, <1>4, <1>5

\* One more link, of a key of the same owner.
LEMMA LinkStored ==
  ASSUME CredInv, NEW l \in Link, Len(links) < MaxLinks, links' = Append(links, l),
         l.key \in DOMAIN keys, keys[l.key].owner = l.owner, UNCHANGED <<keys, retired>>
  PROVE  Grow /\ LinksFit' /\ Revoked' /\ links' \in Seq(Link) /\ Len(links') <= MaxLinks
         /\ DOMAIN links \subseteq DOMAIN links'
<1>1. links \in Seq(Link) /\ MaxLinks \in Nat
  BY CredAssumption DEF CredInv, CredTypeOK
<1>2. /\ DOMAIN links = 1 .. Len(links) /\ Len(links) \in Nat /\ DOMAIN links' = 1 .. Len(links) + 1
      /\ Len(links') = Len(links) + 1 /\ links' \in Seq(Link)
      /\ \A i \in DOMAIN links : links'[i] = links[i]
      /\ links'[Len(links) + 1] = l
  BY <1>1
<1>3. Grow
  BY <1>2 DEF Grow, KeysGrow, LinksGrow
<1>4. LinksFit'
  BY <1>2 DEF CredInv, LinksFit, LinkFits
<1>5. Revoked'
  <2>1. \A i \in DOMAIN links' : <<"link", i>> \in retired => i \in DOMAIN links
    BY DEF CredInv, CredTypeOK
  <2> QED
    BY <1>2, <2>1 DEF CredInv, Revoked
<1> QED
  BY <1>1, <1>2, <1>3, <1>4, <1>5

\* A link is revoked.
LEMMA LinkRevoked ==
  ASSUME CredInv, NEW l \in DOMAIN links, links' = [links EXCEPT ![l].revoked = TRUE],
         UNCHANGED <<keys, retired>>
  PROVE  /\ Grow /\ LinksFit' /\ Revoked' /\ links' \in Seq(Link) /\ Len(links') <= MaxLinks
         /\ DOMAIN links' = DOMAIN links
         /\ \A i \in DOMAIN links : i # l => links'[i] = links[i]
         /\ links'[l].revoked = TRUE /\ links'[l].owner = links[l].owner
         /\ links'[l].key = links[l].key
<1>1. links \in Seq(Link) /\ Len(links) <= MaxLinks
  BY DEF CredInv, CredTypeOK
<1>2. /\ links' \in Seq(Link) /\ DOMAIN links' = DOMAIN links /\ Len(links') = Len(links)
      /\ \A i \in DOMAIN links : links'[i] = IF i = l THEN [links[i] EXCEPT !.revoked = TRUE] ELSE links[i]
  <2> DEFINE row == [links[l] EXCEPT !.revoked = TRUE]
  <2>1. l \in 1 .. Len(links) /\ DOMAIN links = 1 .. Len(links) /\ links[l] \in Link
    BY <1>1
  <2>2. row \in Link
    BY <2>1 DEF Link
  <2>3. links' = [links EXCEPT ![l] = row]
    OBVIOUS
  <2> HIDE DEF row
  <2>4. /\ [links EXCEPT ![l] = row] \in Seq(Link)
        /\ Len([links EXCEPT ![l] = row]) = Len(links)
        /\ \A i \in 1 .. Len(links) : [links EXCEPT ![l] = row][i] = IF i = l THEN row ELSE links[i]
    BY <1>1, <2>1, <2>2, ExceptSeq
  <2>5. \A i \in 1 .. Len(links) : links'[i] = IF i = l THEN row ELSE links[i]
    BY <2>3, <2>4
  <2>6. links' \in Seq(Link) /\ Len(links') = Len(links) /\ DOMAIN links' = DOMAIN links
    BY <2>1, <2>3, <2>4
  <2> QED
    BY <2>1, <2>5, <2>6 DEF row
<1>3. \A i \in DOMAIN links :
        /\ links'[i].owner = links[i].owner /\ links'[i].key = links[i].key
        /\ i # l => links'[i] = links[i]
        /\ i = l => links'[i].revoked = TRUE
  BY <1>1, <1>2 DEF Link
<1>4. Grow
  BY <1>2, <1>3 DEF Grow, KeysGrow, LinksGrow
<1>5. LinksFit'
  BY <1>2, <1>3 DEF CredInv, LinksFit, LinkFits
<1>6. Revoked'
  <2>1. \A i \in DOMAIN links : links[i].revoked = TRUE => links'[i].revoked = TRUE
    BY <1>3
  <2> QED
    BY <1>2, <1>3, <2>1 DEF CredInv, Revoked
<1> QED
  BY <1>1, <1>2, <1>3, <1>4, <1>5, <1>6

\* A key is revoked, and its owner may be told so.
LEMMA KeyRevoked ==
  ASSUME CredInv, NEW k \in DOMAIN keys, keys' = [keys EXCEPT ![k].revoked = TRUE],
         UNCHANGED links, retired \subseteq retired',
         \A i \in DOMAIN keys : <<"key", i>> \in retired' \ retired => i = k,
         \A l \in DOMAIN links : <<"link", l>> \in retired' \ retired =>
           links[l].revoked = TRUE /\ links[l].key = k
  PROVE  /\ Grow /\ LinksFit' /\ Revoked' /\ keys' \in Seq(Key) /\ Len(keys') <= MaxKeys
         /\ DOMAIN keys' = DOMAIN keys
         /\ \A i \in DOMAIN keys : i # k => keys'[i] = keys[i]
<1>1. keys \in Seq(Key) /\ Len(keys) <= MaxKeys
  BY DEF CredInv, CredTypeOK
<1>2. /\ keys' \in Seq(Key) /\ DOMAIN keys' = DOMAIN keys /\ Len(keys') = Len(keys)
      /\ \A i \in DOMAIN keys : keys'[i] = IF i = k THEN [keys[i] EXCEPT !.revoked = TRUE] ELSE keys[i]
  <2> DEFINE row == [keys[k] EXCEPT !.revoked = TRUE]
  <2>1. k \in 1 .. Len(keys) /\ DOMAIN keys = 1 .. Len(keys) /\ keys[k] \in Key
    BY <1>1
  <2>2. row \in Key
    BY <2>1 DEF Key
  <2>3. keys' = [keys EXCEPT ![k] = row]
    OBVIOUS
  <2> HIDE DEF row
  <2>4. /\ [keys EXCEPT ![k] = row] \in Seq(Key)
        /\ Len([keys EXCEPT ![k] = row]) = Len(keys)
        /\ \A i \in 1 .. Len(keys) : [keys EXCEPT ![k] = row][i] = IF i = k THEN row ELSE keys[i]
    BY <1>1, <2>1, <2>2, ExceptSeq
  <2>5. \A i \in 1 .. Len(keys) : keys'[i] = IF i = k THEN row ELSE keys[i]
    BY <2>3, <2>4
  <2>6. keys' \in Seq(Key) /\ Len(keys') = Len(keys) /\ DOMAIN keys' = DOMAIN keys
    BY <2>1, <2>3, <2>4
  <2> QED
    BY <2>1, <2>5, <2>6 DEF row
<1>3. \A i \in DOMAIN keys :
        /\ keys'[i].owner = keys[i].owner
        /\ i # k => keys'[i] = keys[i]
        /\ i = k => keys'[i].revoked = TRUE
  BY <1>1, <1>2 DEF Key
<1>4. Grow
  BY <1>2, <1>3 DEF Grow, KeysGrow, LinksGrow
<1>5. LinksFit'
  BY <1>2, <1>3 DEF CredInv, LinksFit, LinkFits
<1>6. Revoked'
  <2>1. \A i \in DOMAIN keys : keys[i].revoked = TRUE => keys'[i].revoked = TRUE
    BY <1>3
  <2>2. \A l \in DOMAIN links : links[l].key \in DOMAIN keys
    BY DEF CredInv, LinksFit, LinkFits
  <2> QED
    BY <1>2, <1>3, <2>1, <2>2 DEF CredInv, Revoked
<1> QED
  BY <1>1, <1>2, <1>3, <1>4, <1>5, <1>6

\* After an error a request ends, or goes on with what it knew.
LEMMA ErrorStep ==
  ASSUME CredInv, NEW c \in CredClients, Calling(c), AfterError(c)
  PROVE  \E r \in Req \union {NoReq} : reqs' = [reqs EXCEPT ![c] = r] /\ Fits(r)
<1>1. Fits(reqs[c]) /\ reqs[c] \in Req /\ reqs[c].at # "idle"
  BY DEF Calling, CredInv, CredTypeOK, Req, NoReq
<1>2. CASE reqs[c].at = "createLink"
  <2>1. Go(c, "undoKey") /\ reqs[c].key \in DOMAIN keys /\ keys[reqs[c].key].owner = reqs[c].by
    BY <1>1, <1>2 DEF AfterError, Fits, Names, Owns, KeySteps
  <2> QED
    BY <1>1, <2>1, GoStep
<1>3. CASE reqs[c].at \in {"getKey", "touchKey"}
  <2>1. Go(c, "getKeyAgain") /\ reqs[c].key \in DOMAIN keys
    BY <1>1, <1>3 DEF AfterError, Fits, Names, KeySteps
  <2>2. reqs[c].late = TRUE => <<"key", reqs[c].key>> \in retired
    BY <1>1, <1>3 DEF Fits, IsLate
  <2> QED
    BY <1>1, <2>1, <2>2, GoStep
<1>4. CASE reqs[c].at \notin {"createLink", "getKey", "touchKey"}
  BY <1>4, NoReqFits DEF AfterError, Reply
<1> QED
  BY <1>2, <1>3, <1>4

\* A revocation of a key by c, with what its owner may be told.
LEMMA RevokesKey ==
  ASSUME CredInv, NEW c \in CredClients, reqs[c].at \in {"revokeKey", "revokeLinkKey", "undoKey"},
         keys' = [keys EXCEPT ![reqs[c].key].revoked = TRUE], UNCHANGED links,
         \/ retired' = retired
         \/ reqs[c].at = "revokeKey" /\ retired' = retired \union {<<"key", reqs[c].key>>}
         \/ reqs[c].at = "revokeLinkKey"
            /\ retired' = retired \union {<<"key", reqs[c].key>>, <<"link", reqs[c].link>>},
         reqs' = [reqs EXCEPT ![c] = NoReq],
         broken' \in [FaultKinds -> 0 .. MaxCredFaults]
  PROVE  CredInv'
<1>1. Fits(reqs[c])
  BY DEF CredInv
<1>2. reqs[c].key \in DOMAIN keys
  BY <1>1 DEF Fits, Names, KeySteps
<1>3. reqs[c].at = "revokeLinkKey" =>
        /\ reqs[c].link \in DOMAIN links
        /\ links[reqs[c].link].revoked = TRUE /\ links[reqs[c].link].key = reqs[c].key
  BY <1>1 DEF Fits, Names, Owns, LinkSteps
<1>4. PICK k : k = reqs[c].key
  OBVIOUS
<1>5. /\ retired \subseteq retired'
      /\ \A i \in DOMAIN keys : <<"key", i>> \in retired' \ retired => i = k
      /\ \A l \in DOMAIN links : <<"link", l>> \in retired' \ retired =>
           links[l].revoked = TRUE /\ links[l].key = k
  BY <1>3, <1>4
<1>6. /\ Grow /\ LinksFit' /\ Revoked' /\ keys' \in Seq(Key) /\ Len(keys') <= MaxKeys
      /\ DOMAIN keys' = DOMAIN keys
  BY <1>2, <1>4, <1>5, KeyRevoked
<1>7. CredTypeOK'
  BY <1>2, <1>3, <1>6 DEF CredInv, CredTypeOK
<1> QED
  BY <1>6, <1>7, NoReqFits, StillFits, OneStep

\* A revocation of a link by c.
LEMMA RevokesLink ==
  ASSUME CredInv, NEW c \in CredClients, reqs[c].at = "revokeLink",
         links' = [links EXCEPT ![reqs[c].link].revoked = TRUE], UNCHANGED <<keys, retired>>,
         \/ reqs' = [reqs EXCEPT ![c] = NoReq]
         \/ reqs' = [reqs EXCEPT ![c].at = "revokeLinkKey", ![c].key = links[reqs[c].link].key],
         broken' \in [FaultKinds -> 0 .. MaxCredFaults]
  PROVE  CredInv'
<1>1. Fits(reqs[c]) /\ reqs[c] \in Req
  BY ReqFields DEF CredInv
<1>2. PICK l \in DOMAIN links : l = reqs[c].link /\ links[l].owner = reqs[c].by
  BY <1>1 DEF Fits, Names, Owns, LinkSteps
<1>3. /\ Grow /\ LinksFit' /\ Revoked' /\ links' \in Seq(Link) /\ Len(links') <= MaxLinks
      /\ DOMAIN links' = DOMAIN links
      /\ links'[l].revoked = TRUE /\ links'[l].owner = links[l].owner /\ links'[l].key = links[l].key
  BY <1>2, LinkRevoked
<1>4. links[l].key \in DOMAIN keys /\ links[l].key \in 0 .. MaxKeys
  <2>1. links[l] \in Link
    BY <1>2 DEF CredInv, CredTypeOK
  <2> QED
    BY <2>1, CredAssumption DEF CredInv, Link, LinksFit, LinkFits
<1>5. CASE reqs' = [reqs EXCEPT ![c] = NoReq]
  <2>1. CredTypeOK'
    BY <1>3, <1>5 DEF CredInv, CredTypeOK
  <2> QED
    BY <1>3, <1>5, <2>1, NoReqFits, StillFits, OneStep
<1>6. CASE reqs' = [reqs EXCEPT ![c].at = "revokeLinkKey", ![c].key = links[reqs[c].link].key]
  <2>1. PICK r : r = [reqs[c] EXCEPT !.at = "revokeLinkKey", !.key = links[l].key]
    OBVIOUS
  <2>2. /\ r \in Req /\ r.at = "revokeLinkKey" /\ r.by = reqs[c].by
        /\ r.key = links[l].key /\ r.link = l
    BY <1>1, <1>2, <1>4, <2>1 DEF Req
  <2>3. reqs' = [reqs EXCEPT ![c] = r]
    BY <1>2, <1>6, <2>1
  <2>4. Fits(r)'
    BY <1>2, <1>3, <1>4, <2>2 DEF Fits, Names, Owns, IsLate, KeySteps, LinkSteps
  <2>5. CredTypeOK'
    BY <1>3, <2>2, <2>3 DEF CredInv, CredTypeOK
  <2> QED
    BY <1>3, <2>2, <2>3, <2>4, <2>5, OneStep
<1> QED
  BY <1>5, <1>6

LEMMA CredStep == CredInv /\ [CredNext]_credVars => CredInv'
<1> SUFFICES ASSUME CredInv, [CredNext]_credVars PROVE CredInv'
  OBVIOUS
<1>0. CredTypeOK /\ LinksFit /\ Revoked /\ broken \in [FaultKinds -> 0 .. MaxCredFaults]
  BY DEF CredInv, CredTypeOK
<1>1. ASSUME NEW c \in CredClients,
             \/ CreateAPIKey(c) \/ CreateAgentLink(c) \/ RevokeAPIKey(c) \/ RevokeAgentLink(c)
             \/ AgentSkillMarkdown(c) \/ Verify(c)
      PROVE  CredInv'
  <2>1. /\ 0 \in 0 .. MaxKeys /\ 0 \in 0 .. MaxLinks /\ FALSE \in BOOLEAN
        /\ \A k \in DOMAIN keys : k \in 0 .. MaxKeys /\ keys[k].owner \in Owners
        /\ \A l \in DOMAIN links : l \in 0 .. MaxLinks /\ links[l].owner \in Owners
    <3>1. /\ \A k \in DOMAIN keys : keys[k] \in Key /\ k \in 1 .. Len(keys)
          /\ \A l \in DOMAIN links : links[l] \in Link /\ l \in 1 .. Len(links)
          /\ Len(keys) \in Nat /\ Len(links) \in Nat
          /\ Len(keys) <= MaxKeys /\ Len(links) <= MaxLinks
      BY <1>0 DEF CredTypeOK
    <3> QED
      BY <3>1, CredAssumption DEF Key, Link
  <2>2. CASE CreateAPIKey(c) \/ CreateAgentLink(c)
    BY <2>1, <2>2, AskStep DEF CreateAPIKey, CreateAgentLink
  <2>3. CASE RevokeAPIKey(c)
    BY <2>1, <2>3, AskStep DEF RevokeAPIKey
  <2>4. CASE RevokeAgentLink(c)
    BY <2>1, <2>4, AskStep DEF RevokeAgentLink
  <2>5. ASSUME NEW l \in DOMAIN links,
               Ask(c, "getLink", links[l].owner, 0, l, <<"link", l>> \in retired)
        PROVE  CredInv'
    <3>1. PICK by \in Owners : by = links[l].owner
      BY <2>1
    <3>0. (<<"link", l>> \in retired) \in BOOLEAN
      OBVIOUS
    <3>2. PICK late \in BOOLEAN : late = (<<"link", l>> \in retired)
      BY <3>0, Zenon
    <3>3. late = TRUE => <<"link", l>> \in retired
      BY <3>2
    <3>4. Ask(c, "getLink", by, 0, l, late)
      BY <2>5, <3>1, <3>2
    <3> QED
      BY <2>1, <3>3, <3>4, AskStep
  <2>6. ASSUME NEW k \in DOMAIN keys,
               Ask(c, "getKey", keys[k].owner, k, 0, <<"key", k>> \in retired)
        PROVE  CredInv'
    <3>1. PICK by \in Owners : by = keys[k].owner
      BY <2>1
    <3>0. (<<"key", k>> \in retired) \in BOOLEAN
      OBVIOUS
    <3>2. PICK late \in BOOLEAN : late = (<<"key", k>> \in retired)
      BY <3>0, Zenon
    <3>3. late = TRUE => <<"key", k>> \in retired
      BY <3>2
    <3>4. Ask(c, "getKey", by, k, 0, late)
      BY <2>6, <3>1, <3>2
    <3>5. k \in 0 .. MaxKeys /\ 0 \in 0 .. MaxLinks
      BY <2>1
    <3> QED
      BY <3>3, <3>4, <3>5, AskStep
  <2> QED
    BY <1>1, <2>2, <2>3, <2>4, <2>5, <2>6 DEF AgentSkillMarkdown, Verify
<1>2. ASSUME NEW c \in CredClients, StoreKey(c) PROVE CredInv'
  <2>1. reqs[c] \in Req
    BY <1>0, <1>2, ReqFields DEF StoreKey, Calls
  <2>2. PICK k : k = [owner |-> reqs[c].by, agent |-> reqs[c].at = "createAgentKey", revoked |-> FALSE]
    OBVIOUS
  <2>3. k \in Key /\ k.owner = reqs[c].by
    BY <2>1, <2>2 DEF Key, Req
  <2>4. Len(keys) < MaxKeys /\ keys' = Append(keys, k) /\ UNCHANGED <<links, retired, broken>>
    BY <1>2, <2>2 DEF StoreKey
  <2>5. /\ Grow /\ LinksFit' /\ Revoked' /\ keys' \in Seq(Key) /\ Len(keys') <= MaxKeys
        /\ Len(keys') \in DOMAIN keys' /\ keys'[Len(keys')] = k /\ DOMAIN keys \subseteq DOMAIN keys'
    BY <2>3, <2>4, KeyStored
  <2>6. CASE reqs[c].at = "createAgentKey"
    <3>1. PICK r : r = [reqs[c] EXCEPT !.at = "createLink", !.key = Len(keys')]
      OBVIOUS
    <3>2. /\ r \in Req /\ r.at = "createLink" /\ r.by = reqs[c].by /\ r.key = Len(keys')
      <4>1. Len(keys') \in 0 .. MaxKeys
        BY <2>5, CredAssumption
      <4> QED
        BY <2>1, <3>1, <4>1 DEF Req
    <3>3. reqs' = [reqs EXCEPT ![c] = r]
      BY <1>2, <2>6, <3>1 DEF StoreKey
    <3>4. Fits(r)'
      BY <2>3, <2>5, <3>2 DEF Fits, Names, Owns, IsLate, KeySteps, LinkSteps
    <3>5. CredTypeOK'
      BY <1>0, <2>4, <2>5, <3>2, <3>3 DEF CredTypeOK
    <3> QED
      BY <2>5, <3>2, <3>3, <3>4, <3>5, OneStep
  <2>7. CASE reqs[c].at # "createAgentKey"
    <3>1. reqs' = [reqs EXCEPT ![c] = NoReq]
      BY <1>2, <2>7 DEF StoreKey
    <3>2. CredTypeOK'
      BY <1>0, <2>4, <2>5, <3>1 DEF CredTypeOK
    <3> QED
      BY <2>5, <3>1, <3>2, NoReqFits, StillFits, OneStep
  <2> QED
    BY <2>6, <2>7

<1>3. ASSUME NEW c \in CredClients, StoreLink(c) PROVE CredInv'
  <2>1. reqs[c] \in Req /\ Fits(reqs[c]) /\ reqs[c].at = "createLink"
    BY <1>3, ReqFields DEF StoreLink, Calls, CredInv
  <2>2. PICK l : l = [owner |-> reqs[c].by, key |-> reqs[c].key, revoked |-> FALSE]
    OBVIOUS
  <2>3. reqs[c].key \in DOMAIN keys /\ keys[reqs[c].key].owner = reqs[c].by
    BY <2>1 DEF Fits, Names, Owns, KeySteps
  <2>4. reqs[c].key \in 1 .. MaxKeys
    BY <1>0, <2>3, CredAssumption DEF CredTypeOK
  <2>5. l \in Link /\ l.owner = reqs[c].by /\ l.key = reqs[c].key
    BY <2>1, <2>2, <2>4 DEF Link, Req
  <2>6. /\ Len(links) < MaxLinks /\ links' = Append(links, l)
        /\ UNCHANGED <<keys, retired, broken>> /\ reqs' = [reqs EXCEPT ![c] = NoReq]
    BY <1>3, <2>2 DEF StoreLink, NewLink, Reply
  <2>7. /\ Grow /\ LinksFit' /\ Revoked' /\ links' \in Seq(Link) /\ Len(links') <= MaxLinks
        /\ DOMAIN links \subseteq DOMAIN links'
    BY <2>3, <2>5, <2>6, LinkStored
  <2>8. CredTypeOK'
    BY <1>0, <2>6, <2>7 DEF CredTypeOK
  <2> QED
    BY <2>6, <2>7, <2>8, NoReqFits, StillFits, OneStep
<1>4. ASSUME NEW c \in CredClients, reqs[c].at # "idle", UNCHANGED <<keys, links, retired, broken>>,
             \E r \in Req \union {NoReq} : reqs' = [reqs EXCEPT ![c] = r] /\ Fits(r)
      PROVE  CredInv'
  BY <1>0, <1>4, QuietStep
<1>5. ASSUME NEW c \in CredClients, Reply(c) 
      PROVE  \E r \in Req \union {NoReq} : reqs' = [reqs EXCEPT ![c] = r] /\ Fits(r)
  BY <1>5, NoReqFits DEF Reply
<1>6. ASSUME NEW c \in CredClients, ListApiKeysByUser(c) PROVE CredInv'
  <2>1. reqs[c].at = "listKeys" /\ Fits(reqs[c]) /\ UNCHANGED <<keys, links, retired, broken>>
    BY <1>6 DEF ListApiKeysByUser, Calls, CredInv
  <2>2. reqs[c].key \in DOMAIN keys
    BY <2>1 DEF Fits, Names, KeySteps
  <2>3. CASE keys[reqs[c].key].owner = reqs[c].by
    <3>1. Go(c, "revokeKey")
      BY <1>6, <2>3 DEF ListApiKeysByUser
    <3>2. \E r \in Req : reqs' = [reqs EXCEPT ![c] = r] /\ Fits(r)
      BY <2>1, <2>2, <2>3, <3>1, GoStep
    <3> QED
      BY <1>4, <2>1, <3>2
  <2>4. CASE keys[reqs[c].key].owner # reqs[c].by
    BY <1>4, <1>5, <1>6, <2>1, <2>4 DEF ListApiKeysByUser
  <2> QED
    BY <2>3, <2>4
<1>7. ASSUME NEW c \in CredClients, ListAgentLinksByUser(c) PROVE CredInv'
  <2>1. reqs[c].at = "listLinks" /\ Fits(reqs[c]) /\ UNCHANGED <<keys, links, retired, broken>>
    BY <1>7 DEF ListAgentLinksByUser, Calls, CredInv
  <2>2. reqs[c].link \in DOMAIN links
    BY <2>1 DEF Fits, Names, LinkSteps
  <2>3. CASE links[reqs[c].link].owner = reqs[c].by
    <3>1. Go(c, "revokeLink")
      BY <1>7, <2>3 DEF ListAgentLinksByUser
    <3>2. \E r \in Req : reqs' = [reqs EXCEPT ![c] = r] /\ Fits(r)
      BY <2>1, <2>2, <2>3, <3>1, GoStep
    <3> QED
      BY <1>4, <2>1, <3>2
  <2>4. CASE links[reqs[c].link].owner # reqs[c].by
    BY <1>4, <1>5, <1>7, <2>1, <2>4 DEF ListAgentLinksByUser
  <2> QED
    BY <2>3, <2>4
<1>8. ASSUME NEW c \in CredClients, StoreRevokedLink(c) PROVE CredInv'
  <2>1. /\ reqs[c].at = "revokeLink" /\ UNCHANGED <<keys, retired, broken>>
        /\ links' = [links EXCEPT ![reqs[c].link].revoked = TRUE]
        /\ reqs' = [reqs EXCEPT ![c].at = "revokeLinkKey", ![c].key = links[reqs[c].link].key]
    BY <1>8 DEF StoreRevokedLink, Calls
  <2> QED
    BY <1>0, <2>1, RevokesLink
<1>9. ASSUME NEW c \in CredClients, StoreRevokedKey(c) PROVE CredInv'
  <2>1. /\ reqs[c].at \in {"revokeKey", "revokeLinkKey", "undoKey"}
        /\ keys' = [keys EXCEPT ![reqs[c].key].revoked = TRUE]
        /\ UNCHANGED <<links, broken>> /\ reqs' = [reqs EXCEPT ![c] = NoReq]
    BY <1>9 DEF StoreRevokedKey, Calls, Reply
  <2>2. \/ retired' = retired
        \/ reqs[c].at = "revokeKey" /\ retired' = retired \union {<<"key", reqs[c].key>>}
        \/ reqs[c].at = "revokeLinkKey"
           /\ retired' = retired \union {<<"key", reqs[c].key>>, <<"link", reqs[c].link>>}
    BY <1>9, <2>1 DEF StoreRevokedKey
  <2> QED
    BY <1>0, <2>1, <2>2, RevokesKey
<1>10. ASSUME NEW c \in CredClients, GetAgentLinkByTokenHash(c) PROVE CredInv'
  <2>1. reqs[c].at = "getLink" /\ Fits(reqs[c]) /\ UNCHANGED <<keys, links, retired, broken>>
    BY <1>10 DEF GetAgentLinkByTokenHash, Calls, CredInv
  <2>2. reqs[c].link \in DOMAIN links /\ (reqs[c].late = TRUE => <<"link", reqs[c].link>> \in retired)
    BY <2>1 DEF Fits, Names, IsLate, LinkSteps
  <2>3. CASE ~links[reqs[c].link].revoked /\ Go(c, "serve")
    <3>1. reqs[c].late = FALSE
      <4>1. reqs[c].late \in BOOLEAN
        BY <1>0, <2>1, ReqFields DEF Req
      <4> QED
        BY <1>0, <2>2, <2>3, <4>1 DEF Revoked
    <3>2. \E r \in Req : reqs' = [reqs EXCEPT ![c] = r] /\ Fits(r)
      BY <2>1, <2>3, <3>1, GoStep
    <3> QED
      BY <1>4, <2>1, <3>2
  <2>4. CASE Reply(c)
    BY <1>4, <1>5, <2>1, <2>4
  <2> QED
    BY <1>10, <2>3, <2>4 DEF GetAgentLinkByTokenHash
<1>11. ASSUME NEW c \in CredClients, GetApiKeyByHash(c) PROVE CredInv'
  <2>1. /\ reqs[c].at \in {"getKey", "getKeyAgain"} /\ Fits(reqs[c])
        /\ UNCHANGED <<keys, links, retired, broken>>
    BY <1>11 DEF GetApiKeyByHash, Calls, CredInv
  <2>2. reqs[c].key \in DOMAIN keys /\ (reqs[c].late = TRUE => <<"key", reqs[c].key>> \in retired)
    BY <2>1 DEF Fits, Names, IsLate, KeySteps
  <2>3. CASE ~keys[reqs[c].key].revoked
    <3>1. reqs[c].late = FALSE
      <4>1. reqs[c].late \in BOOLEAN
        BY <1>0, <2>1, ReqFields DEF Req
      <4> QED
        BY <1>0, <2>2, <2>3, <4>1 DEF Revoked
    <3>2. Go(c, "touchKey") \/ Go(c, "touchKeyAgain")
      BY <1>11, <2>3 DEF GetApiKeyByHash
    <3>3. \E r \in Req : reqs' = [reqs EXCEPT ![c] = r] /\ Fits(r)
      BY <2>1, <2>2, <3>1, <3>2, GoStep
    <3> QED
      BY <1>4, <2>1, <3>3
  <2>4. CASE keys[reqs[c].key].revoked /\ reqs[c].at = "getKey"
    <3>1. Go(c, "getKeyAgain")
      BY <1>11, <2>4 DEF GetApiKeyByHash
    <3>2. \E r \in Req : reqs' = [reqs EXCEPT ![c] = r] /\ Fits(r)
      BY <2>1, <2>2, <3>1, GoStep
    <3> QED
      BY <1>4, <2>1, <3>2
  <2>5. CASE keys[reqs[c].key].revoked /\ reqs[c].at # "getKey"
    BY <1>4, <1>5, <1>11, <2>1, <2>5 DEF GetApiKeyByHash
  <2> QED
    BY <2>3, <2>4, <2>5
<1>12. ASSUME NEW c \in CredClients, TouchApiKey(c) PROVE CredInv'
  <2>1. /\ reqs[c].at \in {"touchKey", "touchKeyAgain"} /\ Fits(reqs[c]) /\ Go(c, "serve")
        /\ UNCHANGED <<keys, links, retired, broken>>
    BY <1>12 DEF TouchApiKey, Calls, CredInv
  <2>2. reqs[c].late = FALSE
    BY <2>1 DEF Fits, IsLate
  <2>3. \E r \in Req : reqs' = [reqs EXCEPT ![c] = r] /\ Fits(r)
    BY <2>1, <2>2, GoStep
  <2> QED
    BY <1>4, <2>1, <2>3
<1>13. ASSUME NEW c \in CredClients, Serve(c) PROVE CredInv'
  BY <1>4, <1>5, <1>13 DEF Serve
<1>14. ASSUME NEW c \in CredClients, CallFails(c) PROVE CredInv'
  <2>1. \E r \in Req \union {NoReq} : reqs' = [reqs EXCEPT ![c] = r] /\ Fits(r)
    BY <1>14, ErrorStep DEF CallFails
  <2>2. broken' \in [FaultKinds -> 0 .. MaxCredFaults]
    BY <1>0, <1>14, BreakType DEF CallFails, FaultKinds
  <2> QED
    BY <1>14, <2>1, <2>2, QuietStep DEF CallFails
<1>15. ASSUME NEW c \in CredClients, CallUnanswered(c) PROVE CredInv'
  <2>1. /\ Calling(c) /\ AfterError(c) /\ UNCHANGED retired
        /\ broken' \in [FaultKinds -> 0 .. MaxCredFaults]
    BY <1>0, <1>15, BreakType DEF CallUnanswered, FaultKinds
  <2>2. PICK r \in Req \union {NoReq} : reqs' = [reqs EXCEPT ![c] = r] /\ Fits(r)
    BY <2>1, ErrorStep
  <2>3. reqs[c] \in Req
    BY <1>0, <2>1 DEF Calling, CredTypeOK
  <2>4. ASSUME NEW agent \in BOOLEAN, Len(keys) < MaxKeys, UNCHANGED links,
               keys' = Append(keys, [owner |-> reqs[c].by, agent |-> agent, revoked |-> FALSE])
        PROVE  CredInv'
    <3>1. PICK k : k = [owner |-> reqs[c].by, agent |-> agent, revoked |-> FALSE]
      OBVIOUS
    <3>2. k \in Key /\ keys' = Append(keys, k)
      BY <2>3, <2>4, <3>1 DEF Key, Req
    <3>3. /\ Grow /\ LinksFit' /\ Revoked' /\ keys' \in Seq(Key) /\ Len(keys') <= MaxKeys
          /\ DOMAIN keys \subseteq DOMAIN keys'
      BY <2>1, <2>4, <3>2, KeyStored
    <3>4. CredTypeOK'
      BY <1>0, <2>1, <2>2, <2>4, <3>3 DEF CredTypeOK
    <3> QED
      BY <2>2, <3>3, <3>4, StillFits, OneStep
  <2>5. ASSUME reqs[c].at = "createLink", Len(links) < MaxLinks, UNCHANGED keys,
               links' = Append(links, NewLink(c))
        PROVE  CredInv'
    <3>1. PICK l : l = [owner |-> reqs[c].by, key |-> reqs[c].key, revoked |-> FALSE]
      OBVIOUS
    <3>2. reqs[c].key \in DOMAIN keys /\ keys[reqs[c].key].owner = reqs[c].by
      BY <2>5 DEF CredInv, Fits, Names, Owns, KeySteps
    <3>3. reqs[c].key \in 1 .. MaxKeys
      BY <1>0, <3>2, CredAssumption DEF CredTypeOK
    <3>4. l \in Link /\ l.owner = reqs[c].by /\ l.key = reqs[c].key /\ links' = Append(links, l)
      BY <2>3, <2>5, <3>1, <3>3 DEF Link, Req, NewLink
    <3>5. /\ Grow /\ LinksFit' /\ Revoked' /\ links' \in Seq(Link) /\ Len(links') <= MaxLinks
          /\ DOMAIN links \subseteq DOMAIN links'
      BY <2>1, <2>5, <3>2, <3>4, LinkStored
    <3>6. CredTypeOK'
      BY <1>0, <2>1, <2>2, <2>5, <3>5 DEF CredTypeOK
    <3> QED
      BY <2>2, <3>5, <3>6, StillFits, OneStep
  <2>6. ASSUME reqs[c].at = "revokeLink", UNCHANGED keys,
               links' = [links EXCEPT ![reqs[c].link].revoked = TRUE]
        PROVE  CredInv'
    <3>1. reqs' = [reqs EXCEPT ![c] = NoReq]
      BY <2>1, <2>6 DEF AfterError, Reply
    <3> QED
      BY <2>1, <2>6, <3>1, RevokesLink
  <2>7. ASSUME reqs[c].at \in {"revokeKey", "revokeLinkKey", "undoKey"}, UNCHANGED links,
               keys' = [keys EXCEPT ![reqs[c].key].revoked = TRUE]
        PROVE  CredInv'
    <3>1. reqs' = [reqs EXCEPT ![c] = NoReq]
      BY <2>1, <2>7 DEF AfterError, Reply
    <3> QED
      BY <2>1, <2>7, <3>1, RevokesKey
  <2>8. (reqs[c].at = "createAgentKey") \in BOOLEAN
    OBVIOUS
  <2> QED
    BY <1>15, <2>4, <2>5, <2>6, <2>7, <2>8 DEF CallUnanswered
<1>16. ASSUME NEW c \in CredClients, Disconnect(c) PROVE CredInv'
  <2>1. reqs[c] \in Req /\ Fits(reqs[c])
    BY <1>0, <1>16 DEF Disconnect, Calling, CredInv, CredTypeOK
  <2>2. PICK r : r = [reqs[c] EXCEPT !.alive = FALSE]
    OBVIOUS
  <2>3. /\ r \in Req /\ r.at = reqs[c].at /\ r.by = reqs[c].by /\ r.key = reqs[c].key
        /\ r.link = reqs[c].link /\ r.late = reqs[c].late
    BY <2>1, <2>2 DEF Req
  <2>4. Fits(r)
    BY <2>1, <2>3 DEF Fits, Names, Owns, IsLate
  <2>5. reqs' = [reqs EXCEPT ![c] = r] /\ UNCHANGED <<keys, links, retired>>
    BY <1>16, <2>2 DEF Disconnect
  <2>6. broken' \in [FaultKinds -> 0 .. MaxCredFaults]
    BY <1>0, <1>16, BreakType DEF Disconnect, FaultKinds
  <2> QED
    BY <2>3, <2>4, <2>5, <2>6, QuietStep
<1>17. ASSUME CredCrash PROVE CredInv'
  <2>1. /\ reqs' = [c \in CredClients |-> NoReq] /\ UNCHANGED <<keys, links, retired>>
        /\ broken' \in [FaultKinds -> 0 .. MaxCredFaults]
    BY <1>0, <1>17, BreakType DEF CredCrash, FaultKinds
  <2>2. CredTypeOK'
    BY <1>0, <2>1 DEF CredTypeOK
  <2>3. LinksFit' /\ Revoked'
    BY <1>0, <2>1 DEF LinksFit, LinkFits, Revoked
  <2>4. \A c \in CredClients : Fits(reqs[c])'
    BY <2>1 DEF Fits, Names, Owns, IsLate, KeySteps, LinkSteps, NoReq
  <2> QED
    BY <2>2, <2>3, <2>4 DEF CredInv
<1>18. CASE UNCHANGED credVars
  <2>1. UNCHANGED <<keys, links, reqs, retired, broken>>
    BY <1>18 DEF credVars
  <2> QED
    BY <2>1 DEF CredInv, CredTypeOK, Fits, Names, Owns, IsLate, LinksFit, LinkFits, Revoked
<1> QED
  BY <1>1, <1>2, <1>3, <1>6, <1>7, <1>8, <1>9, <1>10, <1>11, <1>12, <1>13, <1>14, <1>15, <1>16,
     <1>17, <1>18 DEF CredNext

\* Every reachable state satisfies the invariant.
LEMMA CredInvariant == CredSpec => []CredInv
BY CredInitInv, CredStep, PTL DEF CredSpec

\* Every reachable state is of the declared shape.
THEOREM CredTypeCorrect == CredSpec => []CredTypeOK
<1>1. CredInv => CredTypeOK
  BY DEF CredInv
<1> QED
  BY <1>1, CredInvariant, PTL

\* A revocation that was answered with success holds for both rows, for ever.
THEOREM RevocationIsFinal == CredSpec => []RetiredIsRevoked
<1>1. CredInv => RetiredIsRevoked
  BY DEF CredInv, Revoked, RetiredIsRevoked
<1> QED
  BY <1>1, CredInvariant, PTL

\* No request made after that is served with the credential.
THEOREM RevokedAreRefused == CredSpec => []RevokedIsRefused
<1>1. CredInv => RevokedIsRefused
  BY DEF CredInv, Fits, IsLate, RevokedIsRefused
<1> QED
  BY <1>1, CredInvariant, PTL

OwnKeysRevoked ==
  \A k \in DOMAIN keys : ~keys[k].revoked /\ keys'[k].revoked =>
    \E c \in CredClients : reqs[c] # reqs'[c] /\ reqs[c].by = keys[k].owner

OwnLinksRevoked ==
  \A l \in DOMAIN links : ~links[l].revoked /\ links'[l].revoked =>
    \E c \in CredClients : reqs[c] # reqs'[c] /\ reqs[c].by = links[l].owner

\* A revocation by c is of a row of the user c asks for.
LEMMA OwnRevocation ==
  ASSUME CredInv, NEW c \in CredClients, reqs[c] # reqs'[c]
  PROVE  /\ reqs[c].at \in {"revokeKey", "revokeLinkKey", "undoKey"}
              /\ keys' = [keys EXCEPT ![reqs[c].key].revoked = TRUE] => OwnKeysRevoked
         /\ reqs[c].at = "revokeLink"
              /\ links' = [links EXCEPT ![reqs[c].link].revoked = TRUE] => OwnLinksRevoked
<1>1. Fits(reqs[c])
  BY DEF CredInv
<1>2. ASSUME reqs[c].at \in {"revokeKey", "revokeLinkKey", "undoKey"},
             keys' = [keys EXCEPT ![reqs[c].key].revoked = TRUE]
      PROVE  OwnKeysRevoked
  <2>1. PICK n : n = reqs[c].key
    OBVIOUS
  <2>2. n \in DOMAIN keys /\ keys[n].owner = reqs[c].by
    <3>1. CASE reqs[c].at \in {"revokeKey", "undoKey"}
      BY <1>1, <2>1, <3>1 DEF Fits, Names, Owns, KeySteps
    <3>2. CASE reqs[c].at = "revokeLinkKey"
      BY <1>1, <2>1, <3>2 DEF Fits, Names, Owns, KeySteps, LinkSteps, CredInv, LinksFit, LinkFits
    <3> QED
      BY <1>2, <3>1, <3>2
  <2>3. \A k \in DOMAIN keys : k # n => keys'[k] = keys[k]
    BY <1>2, <2>1
  <2> QED
    BY <2>2, <2>3 DEF OwnKeysRevoked
<1>3. ASSUME reqs[c].at = "revokeLink", links' = [links EXCEPT ![reqs[c].link].revoked = TRUE]
      PROVE  OwnLinksRevoked
  <2>1. PICK n : n = reqs[c].link
    OBVIOUS
  <2>2. n \in DOMAIN links /\ links[n].owner = reqs[c].by
    BY <1>1, <1>3, <2>1 DEF Fits, Names, Owns, LinkSteps
  <2>3. \A l \in DOMAIN links : l # n => links'[l] = links[l]
    BY <1>3, <2>1
  <2> QED
    BY <2>2, <2>3 DEF OwnLinksRevoked
<1> QED
  BY <1>2, <1>3

LEMMA OwnRows == CredInv /\ [CredNext]_credVars => OwnKeysRevoked /\ OwnLinksRevoked
<1> SUFFICES ASSUME CredInv, [CredNext]_credVars PROVE OwnKeysRevoked /\ OwnLinksRevoked
  OBVIOUS
<1>0. keys \in Seq(Key) /\ links \in Seq(Link)
  BY DEF CredInv, CredTypeOK
<1>1. UNCHANGED keys => OwnKeysRevoked
  BY DEF OwnKeysRevoked
<1>2. UNCHANGED links => OwnLinksRevoked
  BY DEF OwnLinksRevoked
<1>3. ASSUME NEW row, keys' = Append(keys, row) PROVE OwnKeysRevoked
  <2>1. \A k \in DOMAIN keys : keys'[k] = keys[k]
    BY <1>0, <1>3
  <2> QED
    BY <2>1 DEF OwnKeysRevoked
<1>4. ASSUME NEW row, links' = Append(links, row) PROVE OwnLinksRevoked
  <2>1. \A l \in DOMAIN links : links'[l] = links[l]
    BY <1>0, <1>4
  <2> QED
    BY <2>1 DEF OwnLinksRevoked
<1>5. ASSUME NEW c \in CredClients, Reply(c), reqs[c].at # "idle" PROVE reqs[c] # reqs'[c]
  <2>1. reqs'[c] = NoReq
    BY <1>5 DEF Reply, CredInv, CredTypeOK
  <2> QED
    BY <1>5, <2>1 DEF NoReq
<1>6. ASSUME NEW c \in CredClients, StoreKey(c) \/ StoreLink(c)
      PROVE  OwnKeysRevoked /\ OwnLinksRevoked
  BY <1>1, <1>2, <1>3, <1>4, <1>6 DEF StoreKey, StoreLink
<1>7. ASSUME NEW c \in CredClients, StoreRevokedLink(c) PROVE OwnKeysRevoked /\ OwnLinksRevoked
  <2>1. /\ reqs[c].at = "revokeLink" /\ UNCHANGED keys
        /\ links' = [links EXCEPT ![reqs[c].link].revoked = TRUE]
        /\ reqs' = [reqs EXCEPT ![c].at = "revokeLinkKey", ![c].key = links[reqs[c].link].key]
    BY <1>7 DEF StoreRevokedLink, Calls
  <2>2. reqs[c] # reqs'[c]
    <3>1. reqs[c] \in Req
      BY <2>1, ReqFields DEF CredInv
    <3>2. reqs'[c].at = "revokeLinkKey"
      BY <2>1, <3>1 DEF CredInv, CredTypeOK, Req
    <3> QED
      BY <2>1, <3>2
  <2> QED
    BY <1>1, <2>1, <2>2, OwnRevocation
<1>8. ASSUME NEW c \in CredClients, StoreRevokedKey(c) PROVE OwnKeysRevoked /\ OwnLinksRevoked
  <2>1. /\ reqs[c].at \in {"revokeKey", "revokeLinkKey", "undoKey"} /\ UNCHANGED links /\ Reply(c)
        /\ keys' = [keys EXCEPT ![reqs[c].key].revoked = TRUE]
    BY <1>8 DEF StoreRevokedKey, Calls
  <2> QED
    BY <1>2, <1>5, <2>1, OwnRevocation
<1>9. ASSUME NEW c \in CredClients, CallUnanswered(c) PROVE OwnKeysRevoked /\ OwnLinksRevoked
  <2>1. AfterError(c) /\ reqs[c] # NoReq
    BY <1>9 DEF CallUnanswered, Calling
  <2>2. ASSUME reqs[c].at \in {"revokeLink", "revokeKey", "revokeLinkKey", "undoKey"}
        PROVE  reqs[c] # reqs'[c]
    BY <1>5, <2>1, <2>2 DEF AfterError
  <2> QED
    BY <1>1, <1>2, <1>3, <1>4, <1>9, <2>2, OwnRevocation DEF CallUnanswered
<1>10. CASE UNCHANGED <<keys, links>>
  BY <1>1, <1>2, <1>10
<1>11. ASSUME NEW c \in CredClients,
              \/ CreateAPIKey(c) \/ CreateAgentLink(c) \/ RevokeAPIKey(c) \/ RevokeAgentLink(c)
              \/ AgentSkillMarkdown(c) \/ Verify(c)
       PROVE  UNCHANGED <<keys, links>>
  BY <1>11 DEF CreateAPIKey, CreateAgentLink, RevokeAPIKey, RevokeAgentLink, AgentSkillMarkdown,
               Verify, Ask
<1>12. ASSUME NEW c \in CredClients,
              \/ ListApiKeysByUser(c) \/ ListAgentLinksByUser(c) \/ GetAgentLinkByTokenHash(c)
              \/ GetApiKeyByHash(c) \/ TouchApiKey(c) \/ Serve(c) \/ CallFails(c) \/ Disconnect(c)
       PROVE  UNCHANGED <<keys, links>>
  BY <1>12 DEF ListApiKeysByUser, ListAgentLinksByUser, GetAgentLinkByTokenHash, GetApiKeyByHash,
               TouchApiKey, Serve, CallFails, Disconnect
<1>13. CASE CredCrash \/ UNCHANGED credVars
  BY <1>10, <1>13 DEF CredCrash, credVars
<1> QED
  BY <1>6, <1>7, <1>8, <1>9, <1>10, <1>11, <1>12, <1>13 DEF CredNext

\* No request revokes another user's key or link.
THEOREM OwnersRevoke == CredSpec => OnlyOwnersRevoke
<1>1. CredInv /\ [CredNext]_credVars => [OwnKeysRevoked /\ OwnLinksRevoked]_credVars
  BY OwnRows
<1>2. CredSpec => [][OwnKeysRevoked /\ OwnLinksRevoked]_credVars
  BY <1>1, CredInvariant, PTL DEF CredSpec
<1>3. OnlyOwnersRevoke <=> [][OwnKeysRevoked /\ OwnLinksRevoked]_credVars
  BY PTL DEF OnlyOwnersRevoke, OwnKeysRevoked, OwnLinksRevoked
<1> QED
  BY <1>2, <1>3

\* At most one call failed, and nothing worse happened.
Calm == \A kind \in FaultKinds : broken[kind] <= IF kind = "failed" THEN 1 ELSE 0

Kept(k) == Carried(k) \/ InProgress(k)

\* While that is so, a request whose link is not stored still has a failure to
\* spare until it has revoked the link's key.
SpareInv ==
  Calm =>
    /\ \A c \in CredClients : reqs[c].at # "idle" => reqs[c].alive = TRUE
    /\ \A c \in CredClients : reqs[c].at = "undoKey" => broken["failed"] = 1
    /\ \A k \in DOMAIN keys : keys[k].agent = TRUE /\ keys[k].revoked # TRUE => Kept(k)

LEMMA BreakCounts ==
  ASSUME CredTypeOK, NEW kind \in FaultKinds, Break(kind)
  PROVE  /\ broken'[kind] = broken[kind] + 1 /\ broken[kind] \in Nat
         /\ \A other \in FaultKinds : other # kind => broken'[other] = broken[other]
         /\ Calm' => Calm /\ kind = "failed" /\ broken'["failed"] = 1 /\ broken["failed"] = 0
<1>1. broken \in [FaultKinds -> 0 .. MaxCredFaults] /\ MaxCredFaults \in Nat
  BY CredAssumption DEF CredTypeOK
<1>2. /\ broken'[kind] = broken[kind] + 1 /\ broken[kind] \in Nat
      /\ \A other \in FaultKinds : other # kind => broken'[other] = broken[other]
  BY <1>1 DEF Break
<1>3. Calm' => Calm /\ kind = "failed" /\ broken'["failed"] = 1 /\ broken["failed"] = 0
  BY <1>1, <1>2 DEF Calm, FaultKinds
<1> QED
  BY <1>2, <1>3

\* A step of c that loses no key: c is no longer about one only if it is carried
\* or revoked.
LEMMA SpareStep ==
  ASSUME CredInv, SpareInv, NEW c \in CredClients, Calm' => Calm,
         NEW r, reqs' = [reqs EXCEPT ![c] = r],
         Calm' => (r.at # "idle" => r.alive = TRUE),
         Calm' => (r.at = "undoKey" => broken'["failed"] = 1),
         Calm' => \A d \in CredClients : reqs[d].at = "undoKey" => broken'["failed"] = broken["failed"],
         \A l \in DOMAIN links : l \in DOMAIN links' /\ links'[l].key = links[l].key,
         \A k \in DOMAIN keys' : keys'[k].agent = TRUE /\ keys'[k].revoked # TRUE =>
           \/ k \in DOMAIN keys /\ keys[k].agent = TRUE /\ keys[k].revoked # TRUE
           \/ Kept(k)',
         Calm' => \A k \in DOMAIN keys' : keys'[k].agent = TRUE /\ keys'[k].revoked # TRUE =>
           (reqs[c].at \in {"createLink", "undoKey"} /\ reqs[c].key = k => Kept(k)')
  PROVE  SpareInv'
<1> SUFFICES ASSUME Calm' PROVE SpareInv'
  BY DEF SpareInv
<1>1. \A d \in CredClients : reqs'[d] = IF d = c THEN r ELSE reqs[d]
  BY DEF CredInv, CredTypeOK
<1>2. \A d \in CredClients : reqs'[d].at # "idle" => reqs'[d].alive = TRUE
  BY <1>1 DEF SpareInv
<1>3. \A d \in CredClients : reqs'[d].at = "undoKey" => broken'["failed"] = 1
  BY <1>1 DEF SpareInv
<1>4. ASSUME NEW k \in DOMAIN keys', keys'[k].agent = TRUE, keys'[k].revoked # TRUE
      PROVE  Kept(k)'
  <2>1. CASE k \in DOMAIN keys /\ keys[k].agent = TRUE /\ keys[k].revoked # TRUE
    <3>1. Kept(k)
      BY <2>1 DEF SpareInv
    <3>2. CASE Carried(k)
      BY <3>2 DEF Carried, Kept
    <3>3. CASE InProgress(k)
      <4>1. PICK d \in CredClients : reqs[d].at \in {"createLink", "undoKey"} /\ reqs[d].key = k
        BY <3>3 DEF InProgress
      <4>2. CASE d = c
        BY <1>4, <4>1, <4>2
      <4>3. CASE d # c
        BY <1>1, <4>1, <4>3 DEF InProgress, Kept
      <4> QED
        BY <4>2, <4>3
    <3> QED
      BY <3>1, <3>2, <3>3 DEF Kept
  <2> QED
    BY <1>4, <2>1
<1> QED
  BY <1>2, <1>3, <1>4 DEF SpareInv

\* A step that changes no row, and leaves no key that c is storing a link of.
LEMMA SpareQuiet ==
  ASSUME CredInv, SpareInv, NEW c \in CredClients, Calm' => Calm,
         NEW r, reqs' = [reqs EXCEPT ![c] = r], UNCHANGED <<keys, links>>,
         Calm' => (r.at # "idle" => r.alive = TRUE),
         Calm' => (r.at = "undoKey" => broken'["failed"] = 1),
         Calm' => \A d \in CredClients : reqs[d].at = "undoKey" => broken'["failed"] = broken["failed"],
         Calm' => (reqs[c].at \in {"createLink", "undoKey"} => r.at = "undoKey" /\ r.key = reqs[c].key)
  PROVE  SpareInv'
<1>1. \A k \in DOMAIN keys' : keys'[k].agent = TRUE /\ keys'[k].revoked # TRUE =>
        k \in DOMAIN keys /\ keys[k].agent = TRUE /\ keys[k].revoked # TRUE
  OBVIOUS
<1>2. reqs'[c] = r
  BY DEF CredInv, CredTypeOK
<1>3. Calm' => \A k \in DOMAIN keys' :
        (reqs[c].at \in {"createLink", "undoKey"} /\ reqs[c].key = k => Kept(k)')
  BY <1>2 DEF Kept, InProgress
<1> QED
  BY <1>1, <1>3, SpareStep

LEMMA SpareNext == CredInv /\ SpareInv /\ [CredNext]_credVars => SpareInv'
<1> SUFFICES ASSUME CredInv, SpareInv, [CredNext]_credVars PROVE SpareInv'
  OBVIOUS
<1>0. CredTypeOK
  BY DEF CredInv
<1>1. UNCHANGED broken => (Calm' <=> Calm)
  BY DEF Calm
<1>2. ASSUME NEW c \in CredClients, NEW r, UNCHANGED <<keys, links, broken>>,
             reqs' = [reqs EXCEPT ![c] = r], r.at # "undoKey",
             r.at # "idle" => (Calm => r.alive = TRUE),
             reqs[c].at \notin {"createLink", "undoKey"}
      PROVE  SpareInv'
  BY <1>1, <1>2, SpareQuiet
<1>3. ASSUME NEW c \in CredClients,
             \/ CreateAPIKey(c) \/ CreateAgentLink(c) \/ RevokeAPIKey(c) \/ RevokeAgentLink(c)
             \/ AgentSkillMarkdown(c) \/ Verify(c)
      PROVE  SpareInv'
  <2>1. \E at, by, k, l, late : Ask(c, at, by, k, l, late) /\ at \notin {"undoKey", "idle"}
    <3>0. PICK no : no = FALSE
      OBVIOUS
    <3>1. CASE CreateAPIKey(c)
      <4>1. PICK u \in Owners : Ask(c, "createKey", u, 0, 0, no)
        BY <3>0, <3>1 DEF CreateAPIKey
      <4> QED
        BY <4>1
    <3>2. CASE CreateAgentLink(c)
      <4>1. PICK u \in Owners : Ask(c, "createAgentKey", u, 0, 0, no)
        BY <3>0, <3>2 DEF CreateAgentLink
      <4> QED
        BY <4>1
    <3>3. CASE RevokeAPIKey(c)
      <4>1. PICK u \in Owners, k \in DOMAIN keys : Ask(c, "listKeys", u, k, 0, no)
        BY <3>0, <3>3 DEF RevokeAPIKey
      <4> QED
        BY <4>1
    <3>4. CASE RevokeAgentLink(c)
      <4>1. PICK u \in Owners, l \in DOMAIN links : Ask(c, "listLinks", u, 0, l, no)
        BY <3>0, <3>4 DEF RevokeAgentLink
      <4> QED
        BY <4>1
    <3>5. CASE AgentSkillMarkdown(c)
      <4>1. PICK l \in DOMAIN links :
              Ask(c, "getLink", links[l].owner, 0, l, <<"link", l>> \in retired)
        BY <3>5 DEF AgentSkillMarkdown
      <4>2. PICK late : late = (<<"link", l>> \in retired)
        OBVIOUS
      <4>3. Ask(c, "getLink", links[l].owner, 0, l, late)
        BY <4>1, <4>2
      <4> QED
        BY <4>3
    <3>6. CASE Verify(c)
      <4>1. PICK k \in DOMAIN keys :
              Ask(c, "getKey", keys[k].owner, k, 0, <<"key", k>> \in retired)
        BY <3>6 DEF Verify
      <4>2. PICK late : late = (<<"key", k>> \in retired)
        OBVIOUS
      <4>3. Ask(c, "getKey", keys[k].owner, k, 0, late)
        BY <4>1, <4>2
      <4> QED
        BY <4>3
    <3> QED
      BY <1>3, <3>1, <3>2, <3>3, <3>4, <3>5, <3>6
  <2>3. PICK at, by, k, l, late : Ask(c, at, by, k, l, late) /\ at \notin {"undoKey", "idle"}
    BY <2>1
  <2>4. PICK r : r = [at |-> at, by |-> by, key |-> k, link |-> l, late |-> late, alive |-> TRUE]
    OBVIOUS
  <2>5. /\ reqs' = [reqs EXCEPT ![c] = r] /\ UNCHANGED <<keys, links, broken>>
        /\ reqs[c] = NoReq /\ r.at \notin {"undoKey", "idle"} /\ r.alive = TRUE
    BY <2>3, <2>4 DEF Ask
  <2>6. reqs[c].at = "idle"
    BY <2>5 DEF NoReq
  <2> QED
    BY <1>2, <2>5, <2>6
<1>4. NoReq.at = "idle"
  BY DEF NoReq
<1>5. ASSUME NEW c \in CredClients, Reply(c), UNCHANGED <<keys, links, broken>>,
             reqs[c].at \notin {"createLink", "undoKey"}
      PROVE  SpareInv'
  BY <1>2, <1>4, <1>5 DEF Reply
<1>6. ASSUME NEW c \in CredClients, NEW at, Go(c, at), UNCHANGED <<keys, links, broken>>,
             at \in {"revokeKey", "revokeLink", "serve", "touchKey", "touchKeyAgain", "getKeyAgain"},
             reqs[c].at \notin {"createLink", "undoKey", "idle"}
      PROVE  SpareInv'
  <2>1. PICK r : r = [reqs[c] EXCEPT !.at = at]
    OBVIOUS
  <2>2. reqs[c] \in Req
    BY <1>0, <1>6, ReqFields
  <2>3. r.at = at /\ r.alive = reqs[c].alive
    BY <2>1, <2>2 DEF Req
  <2>4. reqs' = [reqs EXCEPT ![c] = r] /\ (Calm => r.alive = TRUE)
    BY <1>6, <2>1, <2>3 DEF Go, SpareInv
  <2> QED
    BY <1>2, <1>6, <2>3, <2>4
<1>7. ASSUME NEW c \in CredClients,
             \/ ListApiKeysByUser(c) \/ ListAgentLinksByUser(c) \/ GetAgentLinkByTokenHash(c)
             \/ GetApiKeyByHash(c) \/ TouchApiKey(c) \/ Serve(c)
      PROVE  SpareInv'
  BY <1>5, <1>6, <1>7 DEF ListApiKeysByUser, ListAgentLinksByUser, GetAgentLinkByTokenHash,
                          GetApiKeyByHash, TouchApiKey, Serve, Calls
<1>8. ASSUME NEW c \in CredClients, StoreKey(c) PROVE SpareInv'
  <2>1. reqs[c] \in Req
    BY <1>0, <1>8, ReqFields DEF StoreKey, Calls
  <2>2. PICK k : k = [owner |-> reqs[c].by, agent |-> reqs[c].at = "createAgentKey", revoked |-> FALSE]
    OBVIOUS
  <2>3. /\ keys' = Append(keys, k) /\ UNCHANGED <<links, broken>>
        /\ reqs[c].at \in {"createKey", "createAgentKey"}
    BY <1>8, <2>2 DEF StoreKey, Calls
  <2>4. keys \in Seq(Key)
    BY <1>0 DEF CredTypeOK
  <2>5. /\ DOMAIN keys' = 1 .. Len(keys) + 1 /\ DOMAIN keys = 1 .. Len(keys) /\ Len(keys) \in Nat
        /\ Len(keys') = Len(keys) + 1 /\ keys'[Len(keys) + 1] = k
        /\ \A i \in DOMAIN keys : keys'[i] = keys[i]
    BY <2>3, <2>4
  <2>6. CASE reqs[c].at = "createAgentKey"
    <3>1. PICK r : r = [reqs[c] EXCEPT !.at = "createLink", !.key = Len(keys')]
      OBVIOUS
    <3>2. r.at = "createLink" /\ r.key = Len(keys') /\ r.alive = reqs[c].alive
      BY <2>1, <3>1 DEF Req
    <3>3. reqs' = [reqs EXCEPT ![c] = r]
      BY <1>8, <2>6, <3>1 DEF StoreKey
    <3>4. reqs'[c] = r
      BY <1>0, <3>3 DEF CredTypeOK
    <3>5. \A i : i = Len(keys') => Kept(i)'
      BY <3>2, <3>4 DEF Kept, InProgress
    <3>6. Calm => r.alive = TRUE
      BY <2>6, <3>2 DEF SpareInv
    <3>7. \A i \in DOMAIN keys' : keys'[i].agent = TRUE /\ keys'[i].revoked # TRUE =>
            (i \in DOMAIN keys /\ keys[i].agent = TRUE /\ keys[i].revoked # TRUE) \/ Kept(i)'
      <4> SUFFICES ASSUME NEW i \in DOMAIN keys', i \notin DOMAIN keys PROVE Kept(i)'
        BY <2>5
      <4>1. i = Len(keys')
        BY <2>5
      <4> QED
        BY <3>5, <4>1
    <3> QED
      BY <1>1, <2>3, <2>6, <3>2, <3>3, <3>6, <3>7, SpareStep
  <2>7. CASE reqs[c].at # "createAgentKey"
    <3>1. reqs' = [reqs EXCEPT ![c] = NoReq]
      BY <1>8, <2>7 DEF StoreKey
    <3>2. \A i \in DOMAIN keys' : keys'[i].agent = TRUE =>
            i \in DOMAIN keys /\ keys'[i] = keys[i]
      <4>1. (reqs[c].at = "createAgentKey") = FALSE
        BY <2>7
      <4>2. k.agent = FALSE
        BY <2>2, <4>1
      <4> QED
        BY <2>5, <4>2
    <3>3. NoReq.at = "idle"
      BY DEF NoReq
    <3> QED
      BY <1>1, <2>3, <2>7, <3>1, <3>2, <3>3, SpareStep
  <2> QED
    BY <2>6, <2>7
<1>9. ASSUME NEW c \in CredClients, StoreLink(c) PROVE SpareInv'
  <2>1. PICK l : l = NewLink(c)
    OBVIOUS
  <2>2. /\ links' = Append(links, l) /\ UNCHANGED <<keys, broken>> /\ l.key = reqs[c].key
        /\ reqs' = [reqs EXCEPT ![c] = NoReq]
    BY <1>9, <2>1 DEF StoreLink, NewLink, Reply
  <2>3. links \in Seq(Link)
    BY <1>0 DEF CredTypeOK
  <2>4. /\ Len(links) + 1 \in DOMAIN links' /\ links'[Len(links) + 1] = l
        /\ \A i \in DOMAIN links : i \in DOMAIN links' /\ links'[i] = links[i]
    BY <2>2, <2>3
  <2>5. ASSUME NEW k, k = reqs[c].key PROVE Kept(k)'
    <3>1. \E i \in DOMAIN links' : links'[i].key = k
      BY <2>2, <2>4, <2>5
    <3> QED
      BY <3>1 DEF Kept, Carried
  <2>6. NoReq.at = "idle"
    BY DEF NoReq
  <2> QED
    BY <1>1, <2>2, <2>4, <2>5, <2>6, SpareStep
<1>10. ASSUME NEW c \in CredClients, StoreRevokedLink(c) PROVE SpareInv'
  <2>1. PICK r : r = [reqs[c] EXCEPT !.at = "revokeLinkKey", !.key = links[reqs[c].link].key]
    OBVIOUS
  <2>2. /\ reqs[c].at = "revokeLink" /\ reqs[c].alive /\ UNCHANGED <<keys, broken>>
        /\ links' = [links EXCEPT ![reqs[c].link].revoked = TRUE]
        /\ reqs' = [reqs EXCEPT ![c].at = "revokeLinkKey", ![c].key = links[reqs[c].link].key]
    BY <1>10 DEF StoreRevokedLink, Calls
  <2>3. reqs[c] \in Req
    BY <1>0, <2>2, ReqFields
  <2>4. r.at = "revokeLinkKey" /\ r.alive = TRUE /\ reqs' = [reqs EXCEPT ![c] = r]
    BY <2>1, <2>2, <2>3 DEF Req
  <2>5. reqs[c].link \in DOMAIN links /\ links \in Seq(Link)
    BY <1>0, <2>2 DEF CredInv, CredTypeOK, Fits, Names, LinkSteps
  <2>6. \A i \in DOMAIN links : i \in DOMAIN links' /\ links'[i].key = links[i].key
    BY <2>2, <2>5, LinkRevoked DEF StoreRevokedLink, Link
  <2> QED
    BY <1>1, <2>2, <2>4, <2>6, SpareStep
<1>11. ASSUME NEW c \in CredClients, StoreRevokedKey(c) PROVE SpareInv'
  <2>1. /\ reqs[c].at \in {"revokeKey", "revokeLinkKey", "undoKey"} /\ UNCHANGED <<links, broken>>
        /\ keys' = [keys EXCEPT ![reqs[c].key].revoked = TRUE]
        /\ reqs' = [reqs EXCEPT ![c] = NoReq]
    BY <1>11 DEF StoreRevokedKey, Calls, Reply
  <2>2. PICK n \in DOMAIN keys : n = reqs[c].key
    BY <2>1 DEF CredInv, Fits, Names, KeySteps
  <2>3. /\ DOMAIN keys' = DOMAIN keys /\ keys'[n].revoked = TRUE
        /\ \A i \in DOMAIN keys : i # n => keys'[i] = keys[i]
    <3>1. keys[n] \in Key
      BY <1>0 DEF CredTypeOK
    <3> QED
      BY <2>1, <2>2, <3>1 DEF Key
  <2>4. NoReq.at = "idle"
    BY DEF NoReq
  <2> QED
    BY <1>1, <2>1, <2>2, <2>3, <2>4, SpareStep
<1>12. ASSUME NEW c \in CredClients, CallFails(c) PROVE SpareInv'
  <2>1. /\ Calling(c) /\ AfterError(c) /\ UNCHANGED <<keys, links>>
        /\ reqs[c] \in Req /\ reqs[c].at # "idle"
    BY <1>0, <1>12 DEF CallFails, Calling, CredTypeOK, Req
  <2>2. CASE ~reqs[c].alive /\ UNCHANGED broken
    <3>1. ~Calm'
      BY <1>1, <2>1, <2>2 DEF SpareInv
    <3> QED
      BY <3>1 DEF SpareInv
  <2>3. CASE reqs[c].alive /\ Break("failed")
    <3>1. Calm' => /\ Calm /\ broken'["failed"] = 1 /\ broken["failed"] = 0
                   /\ \A d \in CredClients : reqs[d].at # "undoKey"
      BY <1>0, <2>3, BreakCounts DEF FaultKinds, SpareInv
    <3>2. ASSUME NEW at, Go(c, at), at \in {"undoKey", "getKeyAgain"},
                 reqs[c].at = "createLink" => at = "undoKey"
          PROVE  SpareInv'
      <4>1. PICK r : r = [reqs[c] EXCEPT !.at = at]
        OBVIOUS
      <4>2. r.at = at /\ r.alive = reqs[c].alive /\ r.key = reqs[c].key
        BY <2>1, <4>1 DEF Req
      <4>3. reqs' = [reqs EXCEPT ![c] = r] /\ (Calm => r.alive = TRUE)
        BY <2>1, <3>2, <4>1, <4>2 DEF Go, SpareInv
      <4> QED
        BY <2>1, <3>1, <3>2, <4>2, <4>3, SpareQuiet
    <3>3. ASSUME Reply(c), reqs[c].at # "createLink" PROVE SpareInv'
      <4>1. NoReq.at = "idle" /\ reqs' = [reqs EXCEPT ![c] = NoReq]
        BY <3>3 DEF Reply, NoReq
      <4> QED
        BY <2>1, <3>1, <3>3, <4>1, SpareQuiet
    <3> QED
      BY <2>1, <3>2, <3>3 DEF AfterError
  <2> QED
    BY <1>12, <2>2, <2>3 DEF CallFails
<1>13. ASSUME Break("lost") \/ Break("disconnected") \/ Break("crashed") PROVE SpareInv'
  BY <1>0, <1>13, BreakCounts DEF FaultKinds, SpareInv
<1>14. CASE UNCHANGED credVars
  <2>1. UNCHANGED <<keys, links, reqs, retired, broken>>
    BY <1>14 DEF credVars
  <2> QED
    BY <2>1 DEF SpareInv, Calm, Kept, Carried, InProgress
<1> QED
  BY <1>3, <1>7, <1>8, <1>9, <1>10, <1>11, <1>12, <1>13, <1>14
     DEF CredNext, CallUnanswered, Disconnect, CredCrash

\* One failed call leaves no valid agent key that no link carries.
THEOREM FailureLeavesNoOrphan == CredSpec => []NoOrphanKey
<1>1. CredInit => SpareInv
  BY DEF CredInit, SpareInv, NoReq
<1>2. CredInv /\ SpareInv => NoOrphanKey
  <2> SUFFICES ASSUME CredInv, SpareInv, Calm, NEW k \in DOMAIN keys, keys[k].agent, ~keys[k].revoked
               PROVE  Carried(k) \/ InProgress(k)
    BY DEF NoOrphanKey, Calm
  <2>1. keys[k] \in Key
    BY DEF CredInv, CredTypeOK
  <2>2. keys[k].agent = TRUE /\ keys[k].revoked # TRUE
    BY <2>1 DEF Key
  <2> QED
    BY <2>2 DEF SpareInv, Kept
<1> QED
  BY <1>1, <1>2, SpareNext, CredInvariant, PTL DEF CredSpec
=============================================================================
