------------------------------- MODULE SignIn -------------------------------
(***************************************************************************)
(* Signing in with a wallet (auth/siwe.go): nonces kept in the memory of   *)
(* the process, a verification that looks a nonce up, checks the signature *)
(* and consumes the nonce under three separate locks or none, the user     *)
(* created at the first login, and the session token that outlives it all. *)
(***************************************************************************)
EXTENDS Naturals, Sequences, FiniteSets

CONSTANTS
  SignInClients,
  Wallets,
  NonceTTL,
  MaxNonces, MaxTime, MaxSignInFaults  \* bounds

ASSUME SignInAssumption ==
  {NonceTTL, MaxNonces, MaxTime, MaxSignInFaults} \subseteq Nat

VARIABLES
  issued,     \* every nonce ever issued: its wallet and time. A nonce is its position
  nonces,     \* the nonces in the map
  users,      \* table users: the wallets, in the order of creation
  sessions,   \* the session tokens handed out, with the nonce each one cost
  logins,     \* the verification each client waits for
  time,
  signInFaults

signInVars == <<issued, nonces, users, sessions, logins, time, signInFaults>>

NoLogin == [at |-> "idle"]

\* A message names a nonce and an address; signed: the signature is the address's.
\* user: the one found or created, 0 before.
Login == [at: {"lookup", "expired", "consume", "getUser", "createUser", "sign"},
          nonce: 1 .. MaxNonces, wallet: Wallets, signed: BOOLEAN, user: Nat]
Session == [nonce: 1 .. MaxNonces, user: Nat]

SignInTypeOK ==
  /\ issued \in Seq([wallet: Wallets, at: 0 .. MaxTime])
  /\ nonces \subseteq DOMAIN issued
  /\ users \in Seq(Wallets)
  /\ sessions \in Seq(Session)
  /\ logins \in [SignInClients -> Login \union {NoLogin}]
  /\ time \in 0 .. MaxTime
  /\ signInFaults \in 0 .. MaxSignInFaults

SignInInit ==
  /\ issued = <<>> /\ nonces = {}
  /\ users = <<>> /\ sessions = <<>>
  /\ logins = [c \in SignInClients |-> NoLogin]
  /\ time = 0 /\ signInFaults = 0

IssueNonce(w) ==
  /\ Len(issued) < MaxNonces
  /\ issued' = Append(issued, [wallet |-> w, at |-> time])
  /\ nonces' = nonces \union {Len(issued')}
  /\ UNCHANGED <<users, sessions, logins, time, signInFaults>>

Step(c, at) == logins' = [logins EXCEPT ![c].at = at]
SignAs(c, u) == logins' = [logins EXCEPT ![c].at = "sign", ![c].user = u]
Refused(c) == logins' = [logins EXCEPT ![c] = NoLogin]

\* Anybody may send any nonce that was ever issued, again and again.
VerifyAndLogin(c) ==
  /\ logins[c] = NoLogin
  /\ \E n \in DOMAIN issued, w \in Wallets, signed \in BOOLEAN :
       logins' = [logins EXCEPT ![c] =
         [at |-> "lookup", nonce |-> n, wallet |-> w, signed |-> signed, user |-> 0]]
  /\ UNCHANGED <<issued, nonces, users, sessions, time, signInFaults>>

Expired(n) == time - issued[n].at > NonceTTL

\* lookupNonce and the checks that follow it, up to the next lock.
LookupNonce(c) ==
  LET n == logins[c].nonce IN
  /\ logins[c].at = "lookup"
  /\ CASE n \notin nonces \/ issued[n].wallet # logins[c].wallet -> Refused(c)
       [] n \in nonces /\ issued[n].wallet = logins[c].wallet /\ Expired(n) -> Step(c, "expired")
       [] OTHER -> IF logins[c].signed THEN Step(c, "consume") ELSE Refused(c)
  /\ UNCHANGED <<issued, nonces, users, sessions, time, signInFaults>>

\* consumeNonce succeeds for the one call that still finds the nonce.
Consumable(c) ==
  logins[c].nonce \in nonces /\ issued[logins[c].nonce].wallet = logins[c].wallet

ConsumeExpired(c) ==
  /\ logins[c].at = "expired"
  /\ nonces' = IF Consumable(c) THEN nonces \ {logins[c].nonce} ELSE nonces
  /\ Refused(c)
  /\ UNCHANGED <<issued, users, sessions, time, signInFaults>>

\* Mutant for NonceSignsInOnce: a nonce that is already gone is taken as consumed.
ConsumeNonceAlways(c) ==
  /\ logins[c].at = "consume"
  /\ nonces' = nonces \ {logins[c].nonce}
  /\ Step(c, "getUser")
  /\ UNCHANGED <<issued, users, sessions, time, signInFaults>>

ConsumeNonce(c) ==
  /\ logins[c].at = "consume"
  /\ IF Consumable(c)
     THEN nonces' = nonces \ {logins[c].nonce} /\ Step(c, "getUser")
     ELSE Refused(c) /\ UNCHANGED nonces
  /\ UNCHANGED <<issued, users, sessions, time, signInFaults>>

\* Mutant for SessionIsItsWallets: the query has no WHERE.
UsersOfAll(w) == DOMAIN users

UsersOf(w) == {u \in DOMAIN users : users[u] = w}

GetUserByWallet(c) ==
  /\ logins[c].at = "getUser"
  /\ \/ UsersOf(logins[c].wallet) = {} /\ Step(c, "createUser")
     \/ \E u \in UsersOf(logins[c].wallet) : SignAs(c, u)
  /\ UNCHANGED <<issued, nonces, users, sessions, time, signInFaults>>

\* The wallet is unique: the loser of two first logins gets an error.
CreateUser(c) ==
  /\ logins[c].at = "createUser"
  /\ IF UsersOf(logins[c].wallet) = {}
     THEN users' = Append(users, logins[c].wallet) /\ SignAs(c, Len(users'))
     ELSE Refused(c) /\ UNCHANGED users
  /\ UNCHANGED <<issued, nonces, sessions, time, signInFaults>>

SignSession(c) ==
  /\ logins[c].at = "sign"
  /\ sessions' = Append(sessions, [nonce |-> logins[c].nonce, user |-> logins[c].user])
  /\ Refused(c)
  /\ UNCHANGED <<issued, nonces, users, time, signInFaults>>

\* A store call fails, or its answer is lost once the user is stored.
SignInFails(c) ==
  /\ signInFaults < MaxSignInFaults
  /\ logins[c].at \in {"getUser", "createUser"}
  /\ users' \in {users} \union (IF logins[c].at = "createUser" /\ UsersOf(logins[c].wallet) = {}
                                THEN {Append(users, logins[c].wallet)} ELSE {})
  /\ Refused(c)
  /\ signInFaults' = signInFaults + 1
  /\ UNCHANGED <<issued, nonces, sessions, time>>

\* The process restarts: the map is gone, and so is every call in progress.
SignInRestart ==
  /\ signInFaults < MaxSignInFaults
  /\ nonces' = {}
  /\ logins' = [c \in SignInClients |-> NoLogin]
  /\ signInFaults' = signInFaults + 1
  /\ UNCHANGED <<issued, users, sessions, time>>

SignInTick ==
  /\ time < MaxTime
  /\ time' = time + 1
  /\ UNCHANGED <<issued, nonces, users, sessions, logins, signInFaults>>

SignInNext ==
  \/ \E w \in Wallets : IssueNonce(w)
  \/ \E c \in SignInClients :
       \/ VerifyAndLogin(c) \/ LookupNonce(c) \/ ConsumeExpired(c) \/ ConsumeNonce(c)
       \/ GetUserByWallet(c) \/ CreateUser(c) \/ SignSession(c) \/ SignInFails(c)
  \/ SignInRestart
  \/ SignInTick

SignInSpec == SignInInit /\ [][SignInNext]_signInVars

(***************************************************************************)
(* Properties                                                              *)
(***************************************************************************)

\* A nonce signs in at most once, however many verifications have looked it up
\* before the first of them consumes it (siwe.go:85 "a single-use nonce").
NonceSignsInOnce ==
  \A s, t \in DOMAIN sessions : sessions[s].nonce = sessions[t].nonce => s = t

\* A session is of the one user whose wallet the nonce was issued to, whatever
\* address the message names and however the first logins of wallets overlap: two
\* of them never leave a wallet with two users.
SessionIsItsWallets ==
  \A s \in DOMAIN sessions :
    {u \in DOMAIN users : users[u] = issued[sessions[s].nonce].wallet} = {sessions[s].user}
=============================================================================
