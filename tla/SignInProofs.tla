---------------------------- MODULE SignInProofs ----------------------------
(***************************************************************************)
(* A nonce signs in once, and a session is its wallet's, for every number  *)
(* of clients, wallets, nonces and faults.                                 *)
(*                                                                         *)
(* A verification owns a nonce from ConsumeNonce on: the nonce has left    *)
(* the map, no other verification and no session has it, and it was issued *)
(* to the wallet of the message.                                           *)
(***************************************************************************)
EXTENDS SignIn, TLAPS

Consumed(c) == logins[c].at \in {"getUser", "createUser", "sign"}

LoginInv(c) ==
  /\ logins[c] # NoLogin => logins[c].nonce \in DOMAIN issued
  /\ Consumed(c) => /\ logins[c].nonce \notin nonces
                    /\ issued[logins[c].nonce].wallet = logins[c].wallet
  /\ logins[c].at = "sign" => /\ logins[c].user \in DOMAIN users
                              /\ users[logins[c].user] = logins[c].wallet

SessionInv(s) ==
  /\ sessions[s].nonce \in DOMAIN issued \ nonces
  /\ sessions[s].user \in DOMAIN users
  /\ users[sessions[s].user] = issued[sessions[s].nonce].wallet

\* Neither another verification nor a session has a consumed nonce.
OwnsNonce ==
  \A c \in SignInClients : Consumed(c) =>
    /\ \A d \in SignInClients : Consumed(d) /\ logins[d].nonce = logins[c].nonce => d = c
    /\ \A s \in DOMAIN sessions : sessions[s].nonce # logins[c].nonce

UniqueWallets == \A u, v \in DOMAIN users : users[u] = users[v] => u = v

SignInInv ==
  /\ SignInTypeOK
  /\ Len(issued) <= MaxNonces
  /\ \A c \in SignInClients : LoginInv(c)
  /\ \A s \in DOMAIN sessions : SessionInv(s)
  /\ OwnsNonce
  /\ UniqueWallets
  /\ NonceSignsInOnce

LEMMA SignInInitInv == SignInInit => SignInInv
<1> SUFFICES ASSUME SignInInit PROVE SignInInv
  OBVIOUS
<1>1. SignInTypeOK /\ Len(issued) <= MaxNonces
  BY SignInAssumption DEF SignInInit, SignInTypeOK, NoLogin
<1>2. \A c \in SignInClients : logins[c] = NoLogin /\ ~Consumed(c)
  BY DEF SignInInit, Consumed, NoLogin
<1>3. DOMAIN sessions = {} /\ DOMAIN users = {}
  BY DEF SignInInit
<1> QED
  BY <1>1, <1>2, <1>3
     DEF SignInInv, LoginInv, OwnsNonce, UniqueWallets, NonceSignsInOnce, NoLogin

\* A login that is not idle has every field of one.
LEMMA LoginFields ==
  ASSUME SignInTypeOK, NEW c \in SignInClients, logins[c].at # "idle"
  PROVE  logins[c] \in Login /\ logins[c] # NoLogin
BY DEF SignInTypeOK, NoLogin

\* A step of one verification that leaves the tables alone: it ends or moves on,
\* with the user it has found if there is one, and does not begin to own a nonce.
MovesOn(c) ==
  /\ c \in SignInClients /\ UNCHANGED <<issued, users, sessions>>
  /\ nonces' \subseteq nonces
  /\ \E l \in Login \union {NoLogin} :
       /\ logins' = [logins EXCEPT ![c] = l]
       /\ l # NoLogin => l.nonce \in DOMAIN issued
       /\ l.at \in {"getUser", "createUser", "sign"} =>
            /\ Consumed(c) \/ (logins[c].nonce \in nonces \ nonces' /\ logins[c].at = "consume")
            /\ l.nonce = logins[c].nonce /\ l.wallet = logins[c].wallet
            /\ issued[l.nonce].wallet = l.wallet
       /\ l.at = "sign" => l.user \in DOMAIN users /\ users[l.user] = l.wallet

LEMMA MovingOn ==
  ASSUME SignInInv, NEW c, MovesOn(c), time' \in 0 .. MaxTime, signInFaults' \in 0 .. MaxSignInFaults
  PROVE  SignInInv'
<1> PICK l \in Login \union {NoLogin} :
      /\ logins' = [logins EXCEPT ![c] = l]
      /\ l # NoLogin => l.nonce \in DOMAIN issued
      /\ l.at \in {"getUser", "createUser", "sign"} =>
           /\ Consumed(c) \/ (logins[c].nonce \in nonces \ nonces' /\ logins[c].at = "consume")
           /\ l.nonce = logins[c].nonce /\ l.wallet = logins[c].wallet
           /\ issued[l.nonce].wallet = l.wallet
      /\ l.at = "sign" => l.user \in DOMAIN users /\ users[l.user] = l.wallet
  BY DEF MovesOn
<1>0. c \in SignInClients /\ UNCHANGED <<issued, users, sessions>> /\ nonces' \subseteq nonces
  BY DEF MovesOn
<1>1. \A d \in SignInClients : logins'[d] = IF d = c THEN l ELSE logins[d]
  BY <1>0 DEF SignInInv, SignInTypeOK
<1>2. SignInTypeOK'
  BY <1>0 DEF SignInInv, SignInTypeOK
<1>3. ASSUME NEW d \in SignInClients PROVE LoginInv(d)'
  BY <1>0, <1>1 DEF SignInInv, LoginInv, Consumed, NoLogin
<1>4. ASSUME NEW s \in DOMAIN sessions' PROVE SessionInv(s)'
  BY <1>0 DEF SignInInv, SessionInv
<1>5. OwnsNonce'
  BY <1>0, <1>1 DEF SignInInv, OwnsNonce, Consumed, LoginInv, SessionInv
<1>6. UniqueWallets' /\ NonceSignsInOnce'
  BY <1>0 DEF SignInInv, UniqueWallets, NonceSignsInOnce
<1>7. Len(issued') <= MaxNonces
  BY <1>0 DEF SignInInv
<1> QED
  BY <1>2, <1>3, <1>4, <1>5, <1>6, <1>7 DEF SignInInv

\* The first login of a wallet stores its user, and then goes on or fails.
LEMMA FirstLogin ==
  ASSUME SignInInv, NEW c \in SignInClients, Consumed(c),
         UsersOf(logins[c].wallet) = {}, users' = Append(users, logins[c].wallet),
         UNCHANGED <<issued, nonces, sessions>>,
         time' \in 0 .. MaxTime, signInFaults' \in 0 .. MaxSignInFaults,
         NEW l \in Login \union {NoLogin}, logins' = [logins EXCEPT ![c] = l],
         l = NoLogin \/ /\ l.nonce = logins[c].nonce /\ l.wallet = logins[c].wallet
                        /\ l.at = "sign" /\ l.user = Len(users')
  PROVE  SignInInv'
<1>1. logins[c] \in Login /\ logins[c].nonce \in DOMAIN issued
  BY LoginFields DEF SignInInv, LoginInv, Consumed
<1>2. \A d \in SignInClients : logins'[d] = IF d = c THEN l ELSE logins[d]
  BY DEF SignInInv, SignInTypeOK
<1>3. /\ DOMAIN users = 1 .. Len(users) /\ Len(users) \in Nat
      /\ DOMAIN users' = 1 .. Len(users) + 1 /\ Len(users') = Len(users) + 1
      /\ \A u \in DOMAIN users : users'[u] = users[u]
      /\ users'[Len(users) + 1] = logins[c].wallet
  BY <1>1 DEF SignInInv, SignInTypeOK, Login
<1>4. SignInTypeOK'
  BY <1>1, <1>3 DEF SignInInv, SignInTypeOK, Login
<1>5. ASSUME NEW d \in SignInClients PROVE LoginInv(d)'
  BY <1>1, <1>2, <1>3 DEF SignInInv, LoginInv, Consumed, NoLogin
<1>6. ASSUME NEW s \in DOMAIN sessions' PROVE SessionInv(s)'
  BY <1>3 DEF SignInInv, SessionInv
<1>7. OwnsNonce'
  BY <1>2 DEF SignInInv, OwnsNonce, Consumed, NoLogin
<1>8. UniqueWallets'
  BY <1>3 DEF SignInInv, UniqueWallets, UsersOf
<1>9. NonceSignsInOnce'
  BY DEF SignInInv, NonceSignsInOnce
<1> QED
  BY <1>4, <1>5, <1>6, <1>7, <1>8, <1>9 DEF SignInInv

LEMMA SignInStep == SignInInv /\ [SignInNext]_signInVars => SignInInv'
<1> SUFFICES ASSUME SignInInv, [SignInNext]_signInVars PROVE SignInInv'
  OBVIOUS
<1> USE SignInAssumption
<1>0. /\ SignInTypeOK /\ OwnsNonce /\ UniqueWallets /\ NonceSignsInOnce
      /\ \A c \in SignInClients : LoginInv(c)
      /\ \A s \in DOMAIN sessions : SessionInv(s)
      /\ time \in 0 .. MaxTime /\ signInFaults \in 0 .. MaxSignInFaults
      /\ Len(issued) <= MaxNonces
  BY DEF SignInInv, SignInTypeOK
<1>1. ASSUME NEW w \in Wallets, IssueNonce(w) PROVE SignInInv'
  <2>1. /\ DOMAIN issued' = 1 .. Len(issued) + 1 /\ Len(issued') = Len(issued) + 1
        /\ DOMAIN issued = 1 .. Len(issued) /\ Len(issued) \in Nat
        /\ \A n \in DOMAIN issued : issued'[n] = issued[n]
        /\ nonces' = nonces \union {Len(issued) + 1}
    BY <1>0, <1>1 DEF IssueNonce, SignInTypeOK
  <2>2. UNCHANGED <<users, sessions, logins, time, signInFaults>>
    BY <1>1 DEF IssueNonce
  <2>3. SignInTypeOK' /\ Len(issued') <= MaxNonces
    BY <1>0, <1>1, <2>1, <2>2 DEF IssueNonce, SignInTypeOK
  <2>4. ASSUME NEW c \in SignInClients PROVE LoginInv(c)'
    BY <1>0, <2>1, <2>2 DEF LoginInv, Consumed, NoLogin
  <2>5. ASSUME NEW s \in DOMAIN sessions' PROVE SessionInv(s)'
    BY <1>0, <2>1, <2>2 DEF SessionInv
  <2>6. OwnsNonce' /\ UniqueWallets' /\ NonceSignsInOnce'
    BY <1>0, <2>2 DEF OwnsNonce, Consumed, UniqueWallets, NonceSignsInOnce
  <2> QED
    BY <2>3, <2>4, <2>5, <2>6 DEF SignInInv
<1>2. ASSUME NEW c \in SignInClients, VerifyAndLogin(c) PROVE SignInInv'
  <2>1. PICK n \in DOMAIN issued, w \in Wallets, signed \in BOOLEAN :
          logins' = [logins EXCEPT ![c] =
            [at |-> "lookup", nonce |-> n, wallet |-> w, signed |-> signed, user |-> 0]]
    BY <1>2 DEF VerifyAndLogin
  <2>2. n \in 1 .. MaxNonces
    BY <1>0, <2>1 DEF SignInTypeOK
  <2> DEFINE l == [at |-> "lookup", nonce |-> n, wallet |-> w, signed |-> signed, user |-> 0]
  <2>3. l \in Login /\ l.at = "lookup" /\ l.nonce = n
    BY <2>2 DEF Login
  <2>4. UNCHANGED <<issued, nonces, users, sessions, time, signInFaults>>
    BY <1>2 DEF VerifyAndLogin
  <2>5. MovesOn(c)
    BY <2>1, <2>3, <2>4 DEF MovesOn
  <2> QED
    BY <1>0, <2>4, <2>5, MovingOn
<1>3. ASSUME NEW c \in SignInClients, LookupNonce(c) \/ ConsumeExpired(c) PROVE SignInInv'
  <2>1. logins[c] \in Login /\ logins[c].nonce \in DOMAIN issued
    BY <1>0, <1>3, LoginFields DEF LookupNonce, ConsumeExpired, LoginInv
  <2>2. \E l \in Login \union {NoLogin} :
          /\ logins' = [logins EXCEPT ![c] = l]
          /\ l = NoLogin \/ l.nonce = logins[c].nonce
          /\ l.at \in {"idle", "expired", "consume"}
    <3>1. \A at \in {"expired", "consume"} :
            /\ [logins[c] EXCEPT !.at = at] \in Login
            /\ [logins[c] EXCEPT !.at = at].nonce = logins[c].nonce
            /\ [logins[c] EXCEPT !.at = at].at = at
      BY <2>1 DEF Login
    <3> QED
      BY <1>3, <3>1 DEF LookupNonce, ConsumeExpired, Step, Refused, NoLogin
  <2>3. MovesOn(c) /\ UNCHANGED <<time, signInFaults>>
    BY <1>3, <2>1, <2>2 DEF LookupNonce, ConsumeExpired, MovesOn, NoLogin
  <2> QED
    BY <1>0, <2>3, MovingOn
<1>4. ASSUME NEW c \in SignInClients, ConsumeNonce(c) PROVE SignInInv'
  <2>1. logins[c] \in Login /\ logins[c].nonce \in DOMAIN issued
    BY <1>0, <1>4, LoginFields DEF ConsumeNonce, LoginInv
  <2>2. CASE Consumable(c)
    <3> DEFINE l == [logins[c] EXCEPT !.at = "getUser"]
    <3>1. l \in Login /\ l.at = "getUser" /\ l.nonce = logins[c].nonce /\ l.wallet = logins[c].wallet
      BY <2>1 DEF Login
    <3>2. logins' = [logins EXCEPT ![c] = l]
      BY <1>4, <2>2 DEF ConsumeNonce, Step
    <3>3. MovesOn(c) /\ UNCHANGED <<time, signInFaults>>
      BY <1>4, <2>1, <2>2, <3>1, <3>2 DEF ConsumeNonce, Consumable, MovesOn
    <3> QED
      BY <1>0, <3>3, MovingOn
  <2>3. CASE ~Consumable(c)
    <3>1. MovesOn(c) /\ UNCHANGED <<time, signInFaults>>
      BY <1>4, <2>3 DEF ConsumeNonce, Refused, MovesOn, NoLogin
    <3> QED
      BY <1>0, <3>1, MovingOn
  <2> QED
    BY <2>2, <2>3
<1>5. ASSUME NEW c \in SignInClients, GetUserByWallet(c) PROVE SignInInv'
  <2>1. /\ logins[c] \in Login /\ logins[c].nonce \in DOMAIN issued
        /\ Consumed(c) /\ issued[logins[c].nonce].wallet = logins[c].wallet
    BY <1>0, <1>5, LoginFields DEF GetUserByWallet, LoginInv, Consumed
  <2>2. \E l \in Login :
          /\ logins' = [logins EXCEPT ![c] = l]
          /\ l.nonce = logins[c].nonce /\ l.wallet = logins[c].wallet
          /\ l.at = "sign" => l.user \in DOMAIN users /\ users[l.user] = l.wallet
    <3>1. CASE Step(c, "createUser")
      <4> DEFINE l == [logins[c] EXCEPT !.at = "createUser"]
      <4>1. l \in Login /\ l.at = "createUser" /\ l.nonce = logins[c].nonce /\ l.wallet = logins[c].wallet
        BY <2>1 DEF Login
      <4> QED
        BY <3>1, <4>1 DEF Step
    <3>2. ASSUME NEW u \in UsersOf(logins[c].wallet), SignAs(c, u)
          PROVE  \E l \in Login :
                   /\ logins' = [logins EXCEPT ![c] = l]
                   /\ l.nonce = logins[c].nonce /\ l.wallet = logins[c].wallet
                   /\ l.at = "sign" => l.user \in DOMAIN users /\ users[l.user] = l.wallet
      <4> DEFINE l == [logins[c] EXCEPT !.at = "sign", !.user = u]
      <4>1. u \in Nat /\ u \in DOMAIN users /\ users[u] = logins[c].wallet
        BY <1>0 DEF SignInTypeOK, UsersOf
      <4>2. l \in Login /\ l.user = u /\ l.nonce = logins[c].nonce /\ l.wallet = logins[c].wallet
        BY <2>1, <4>1 DEF Login
      <4>3. logins' = [logins EXCEPT ![c] = l]
        BY <3>2 DEF SignAs
      <4> QED
        BY <4>1, <4>2, <4>3
    <3> QED
      BY <1>5, <3>1, <3>2 DEF GetUserByWallet
  <2>3. MovesOn(c) /\ UNCHANGED <<time, signInFaults>>
    BY <1>5, <2>1, <2>2 DEF GetUserByWallet, MovesOn
  <2> QED
    BY <1>0, <2>3, MovingOn
<1>6. ASSUME NEW c \in SignInClients, CreateUser(c) PROVE SignInInv'
  <2>1. logins[c] \in Login /\ Consumed(c)
    BY <1>0, <1>6, LoginFields DEF CreateUser, Consumed
  <2>2. CASE UsersOf(logins[c].wallet) = {}
    <3> DEFINE l == [logins[c] EXCEPT !.at = "sign", !.user = Len(users')]
    <3>1. users' = Append(users, logins[c].wallet) /\ logins' = [logins EXCEPT ![c] = l]
      BY <1>6, <2>2 DEF CreateUser, SignAs
    <3>2. Len(users') \in Nat
      BY <1>0, <2>1, <3>1 DEF SignInTypeOK, Login
    <3>3. /\ l \in Login /\ l.nonce = logins[c].nonce /\ l.wallet = logins[c].wallet
          /\ l.at = "sign" /\ l.user = Len(users')
      BY <2>1, <3>2 DEF Login
    <3>4. UNCHANGED <<issued, nonces, sessions, time, signInFaults>>
      BY <1>6 DEF CreateUser
    <3> HIDE DEF l
    <3> QED
      BY <1>0, <2>1, <2>2, <3>1, <3>3, <3>4, FirstLogin
  <2>3. CASE UsersOf(logins[c].wallet) # {}
    <3>1. MovesOn(c) /\ UNCHANGED <<time, signInFaults>>
      BY <1>6, <2>3 DEF CreateUser, Refused, MovesOn, NoLogin
    <3> QED
      BY <1>0, <3>1, MovingOn
  <2> QED
    BY <2>2, <2>3
<1>7. ASSUME NEW c \in SignInClients, SignSession(c) PROVE SignInInv'
  <2> DEFINE new == [nonce |-> logins[c].nonce, user |-> logins[c].user]
  <2>1. /\ logins[c] \in Login /\ logins[c].nonce \in DOMAIN issued /\ Consumed(c)
        /\ logins[c].nonce \notin nonces
        /\ issued[logins[c].nonce].wallet = logins[c].wallet
        /\ logins[c].user \in DOMAIN users /\ users[logins[c].user] = logins[c].wallet
    BY <1>0, <1>7, LoginFields DEF SignSession, LoginInv, Consumed
  <2>2. new \in Session
    BY <2>1 DEF Login, Session
  <2>3. /\ DOMAIN sessions = 1 .. Len(sessions) /\ Len(sessions) \in Nat
        /\ DOMAIN sessions' = 1 .. Len(sessions) + 1
        /\ \A s \in DOMAIN sessions : sessions'[s] = sessions[s]
        /\ sessions'[Len(sessions) + 1] = new
    BY <1>0, <1>7, <2>2 DEF SignSession, SignInTypeOK
  <2>4. UNCHANGED <<issued, nonces, users, time, signInFaults>>
    BY <1>7 DEF SignSession
  <2>5. \A d \in SignInClients : logins'[d] = IF d = c THEN NoLogin ELSE logins[d]
    BY <1>0, <1>7 DEF SignSession, Refused, SignInTypeOK
  <2>6. SignInTypeOK'
    BY <1>0, <1>7, <2>2, <2>4 DEF SignSession, Refused, SignInTypeOK
  <2>7. ASSUME NEW d \in SignInClients PROVE LoginInv(d)'
    BY <1>0, <2>4, <2>5 DEF LoginInv, Consumed, NoLogin
  <2>8. ASSUME NEW s \in DOMAIN sessions' PROVE SessionInv(s)'
    BY <1>0, <2>1, <2>3, <2>4 DEF SessionInv
  <2>9. OwnsNonce'
    <3>1. \A s \in DOMAIN sessions' :
            s \in DOMAIN sessions \/ sessions'[s].nonce = logins[c].nonce
      BY <2>3
    <3>2. \A d \in SignInClients : Consumed(d)' => d # c /\ Consumed(d) /\ logins'[d] = logins[d]
      BY <2>5 DEF Consumed, NoLogin
    <3> QED
      BY <1>0, <2>1, <2>3, <3>1, <3>2 DEF OwnsNonce
  <2>10. NonceSignsInOnce'
    <3>1. \A s \in DOMAIN sessions : sessions'[s].nonce = sessions[s].nonce
                                    /\ sessions[s].nonce # logins[c].nonce
      BY <1>0, <2>1, <2>3 DEF OwnsNonce
    <3>2. \A s \in DOMAIN sessions' :
            s \in DOMAIN sessions \/ (s = Len(sessions) + 1 /\ sessions'[s].nonce = logins[c].nonce)
      BY <2>3
    <3> QED
      BY <1>0, <3>1, <3>2 DEF NonceSignsInOnce
  <2>11. UniqueWallets'
    BY <1>0, <2>4 DEF UniqueWallets
  <2> QED
    BY <1>0, <2>4, <2>6, <2>7, <2>8, <2>9, <2>10, <2>11 DEF SignInInv
<1>8. ASSUME NEW c \in SignInClients, SignInFails(c) PROVE SignInInv'
  <2>1. logins[c] \in Login /\ Consumed(c)
    BY <1>0, <1>8, LoginFields DEF SignInFails, Consumed
  <2>2. /\ UNCHANGED <<issued, nonces, sessions, time>>
        /\ signInFaults' \in 0 .. MaxSignInFaults
        /\ logins' = [logins EXCEPT ![c] = NoLogin]
    BY <1>0, <1>8 DEF SignInFails, Refused
  <2>3. CASE users' = users
    <3>1. NoLogin.at = "idle"
      BY DEF NoLogin
    <3>2. MovesOn(c)
      BY <2>2, <2>3, <3>1 DEF MovesOn
    <3> QED
      BY <1>0, <2>2, <3>2, MovingOn
  <2>4. CASE UsersOf(logins[c].wallet) = {} /\ users' = Append(users, logins[c].wallet)
    BY <1>0, <2>1, <2>2, <2>4, FirstLogin
  <2> QED
    BY <1>8, <2>3, <2>4 DEF SignInFails
<1>9. CASE SignInRestart
  <2>1. /\ UNCHANGED <<issued, users, sessions, time>> /\ nonces' = {}
        /\ logins' = [c \in SignInClients |-> NoLogin]
    BY <1>9 DEF SignInRestart
  <2>2. SignInTypeOK'
    BY <1>0, <1>9, <2>1 DEF SignInRestart, SignInTypeOK
  <2>3. \A c \in SignInClients : LoginInv(c)'
    BY <2>1 DEF LoginInv, Consumed, NoLogin
  <2>4. ASSUME NEW s \in DOMAIN sessions' PROVE SessionInv(s)'
    BY <1>0, <2>1 DEF SessionInv
  <2>5. OwnsNonce' /\ UniqueWallets' /\ NonceSignsInOnce'
    BY <1>0, <2>1 DEF OwnsNonce, Consumed, NoLogin, UniqueWallets, NonceSignsInOnce
  <2> QED
    BY <1>0, <2>1, <2>2, <2>3, <2>4, <2>5 DEF SignInInv
<1>10. CASE SignInTick \/ UNCHANGED signInVars
  <2>1. /\ UNCHANGED <<issued, nonces, users, sessions, logins, signInFaults>>
        /\ time' \in 0 .. MaxTime
    BY <1>0, <1>10 DEF SignInTick, signInVars
  <2> QED
    BY <1>0, <2>1
       DEF SignInInv, SignInTypeOK, LoginInv, SessionInv, OwnsNonce, Consumed, UniqueWallets,
           NonceSignsInOnce
<1> QED
  BY <1>1, <1>2, <1>3, <1>4, <1>5, <1>6, <1>7, <1>8, <1>9, <1>10 DEF SignInNext

LEMMA SignInInvariant == SignInSpec => []SignInInv
BY SignInInitInv, SignInStep, PTL DEF SignInSpec

\* Tables, map and requests keep their types.
THEOREM SignInTypeCorrect == SignInSpec => []SignInTypeOK
<1>1. SignInInv => SignInTypeOK
  BY DEF SignInInv
<1> QED
  BY <1>1, SignInInvariant, PTL

\* However many verifications have looked a nonce up when the first consumes it,
\* it is worth one session.
THEOREM NoncesAreSingleUse == SignInSpec => []NonceSignsInOnce
<1>1. SignInInv => NonceSignsInOnce
  BY DEF SignInInv
<1> QED
  BY <1>1, SignInInvariant, PTL

\* A session is of the only user of the wallet its nonce was issued to.
THEOREM SessionsAreTheirWallets == SignInSpec => []SessionIsItsWallets
<1>1. SignInInv => SessionIsItsWallets
  BY DEF SignInInv, SessionInv, UniqueWallets, SessionIsItsWallets
<1> QED
  BY <1>1, SignInInvariant, PTL

=============================================================================
