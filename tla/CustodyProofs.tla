---------------------------- MODULE CustodyProofs ----------------------------
(***************************************************************************)
(* Stakes and penalties, for every number of requests, goals, calls and    *)
(* faults: a sure goal's stake was covered and edits survive; the result   *)
(* of a penalty is what the chain did, and what it did is burning. At the  *)
(* end, what is proved of the four components of MCAccounts one by one     *)
(* holds of them side by side.                                             *)
(***************************************************************************)
EXTENDS MCAccounts, SignInProofs, CredentialsProofs, FiniteSetTheorems, SequenceTheorems, TLAPS

(***************************************************************************)
(* Penalties                                                               *)
(***************************************************************************)

LEMMA PenaltyConstants ==
  /\ IsFiniteSet(Penalties) /\ IsFiniteSet(Coins) /\ Approved \in Nat
  /\ Coins \subseteq {"true", "empty", "false"} /\ Coins # {}
<1>1. IsFiniteSet({"true", "empty", "false"})
  <2>1. IsFiniteSet({"true"} \cup {"empty"})
    BY FS_Singleton, FS_AddElement
  <2>2. IsFiniteSet(({"true"} \cup {"empty"}) \cup {"false"})
    BY <2>1, FS_AddElement
  <2>3. ({"true"} \cup {"empty"}) \cup {"false"} = {"true", "empty", "false"}
    OBVIOUS
  <2> QED
    BY <2>2, <2>3
<1> QED
  BY <1>1, FS_Subset, PenaltiesAssumption DEF CoinKinds

\* A call that has sent nothing has no transaction, one without a result is not
\* done, and one in progress has a signer.
SendInv(p) ==
  /\ sends[p].at \in {"idle", "estimate", "nonce", "send"} => txs[p].state = "none"
  /\ sends[p].result # "none" => sends[p].at = "done"
  /\ sends[p].at \notin {"idle", "done"} => signer \in SignKeys
  /\ sends[p].result = "charged" => txs[p].state = "moved"
  /\ sends[p].result = "failed" /\ sends[p].told = TRUE => txs[p].state \in {"none", "reverted"}

MovedOf(coin) == {p \in Moved : sends[p].coin = coin}

\* What is left of an allowance, nothing of a coin there is not.
Rest(kind) == IF kind \in Coins THEN left[kind] ELSE 0
One(kind) == IF kind \in Coins THEN 1 ELSE 0

\* What has been taken of a coin and what may still be taken were approved; the
\* user has what may still be taken.
BurnInv ==
  /\ balance["burn"] = Cardinality(Moved) /\ balance["contract"] = 0
  /\ balance["user"] + balance["burn"] = Approved * Cardinality(Coins)
  /\ balance["user"] >= Rest("true") + Rest("empty") + Rest("false")
  /\ \A coin \in Coins : Cardinality(MovedOf(coin)) + left[coin] <= Approved

PenaltyInv ==
  /\ PenaltiesTypeOK
  /\ \A p \in Penalties : SendInv(p)
  /\ BurnInv

LEMMA FiniteMoved ==
  /\ IsFiniteSet(Moved) /\ Cardinality(Moved) \in Nat
  /\ \A coin : IsFiniteSet(MovedOf(coin)) /\ Cardinality(MovedOf(coin)) \in Nat
<1>1. Moved \in SUBSET Penalties /\ \A coin : MovedOf(coin) \in SUBSET Penalties
  BY DEF Moved, MovedOf
<1> QED
  BY <1>1, PenaltyConstants, FS_Subset, FS_CardinalityType

LEMMA CountCoins == Cardinality(Coins) = One("true") + One("empty") + One("false")
<1> DEFINE A == Coins \ {"true"}
           B == A \ {"empty"}
           C == B \ {"false"}
<1>1. IsFiniteSet(A) /\ Cardinality(A) = Cardinality(Coins) - One("true")
  <2>1. IsFiniteSet(Coins) /\ Cardinality(Coins) \in Nat
    BY PenaltyConstants, FS_CardinalityType
  <2> QED
    BY <2>1, FS_RemoveElement DEF One
<1>2. IsFiniteSet(B) /\ Cardinality(B) = Cardinality(A) - One("empty")
  <2>1. IsFiniteSet(A) /\ Cardinality(A) \in Nat
    BY <1>1, FS_CardinalityType
  <2>2. "empty" \in A <=> "empty" \in Coins
    OBVIOUS
  <2> HIDE DEF A
  <2> QED
    BY <2>1, <2>2, FS_RemoveElement DEF One
<1>3. IsFiniteSet(C) /\ Cardinality(C) = Cardinality(B) - One("false")
  <2>1. IsFiniteSet(B) /\ Cardinality(B) \in Nat
    BY <1>2, FS_CardinalityType
  <2>2. "false" \in B <=> "false" \in Coins
    OBVIOUS
  <2> HIDE DEF B
  <2> QED
    BY <2>1, <2>2, FS_RemoveElement DEF One
<1>4. C = {}
  BY PenaltyConstants
<1>5. Cardinality(C) = 0
  BY <1>4, FS_EmptySet
<1>6. Cardinality(Coins) \in Nat
  BY PenaltyConstants, FS_CardinalityType
<1> HIDE DEF A, B, C
<1> QED
  BY <1>1, <1>2, <1>3, <1>5, <1>6 DEF One

LEMMA PenaltyInitInv == PenaltiesInit => PenaltyInv
<1> SUFFICES ASSUME PenaltiesInit PROVE PenaltyInv
  OBVIOUS
<1>1. Approved \in Nat /\ Cardinality(Coins) \in Nat
  BY PenaltyConstants, FS_CardinalityType
<1>2. Approved * Cardinality(Coins) \in Nat
  BY <1>1
<1>3. (CHOOSE coin \in Coins : TRUE) \in Coins
  BY PenaltyConstants
<1>4. PenaltiesTypeOK
  BY <1>1, <1>2, <1>3 DEF PenaltiesInit, PenaltiesTypeOK, Send, NoTransaction, Transaction
<1>5. \A p \in Penalties : SendInv(p)
  BY DEF PenaltiesInit, SendInv, NoTransaction
<1>6. Moved = {} /\ \A coin : MovedOf(coin) = {}
  BY DEF PenaltiesInit, Moved, MovedOf, NoTransaction
<1>7. balance["user"] >= Rest("true") + Rest("empty") + Rest("false")
  <2>1. Approved * Cardinality(Coins) = Approved * One("true") + Approved * One("empty") + Approved * One("false")
    BY <1>1, CountCoins DEF One
  <2>2. \A kind : Rest(kind) = Approved * One(kind)
    BY <1>1 DEF PenaltiesInit, Rest, One
  <2>3. balance["user"] = Approved * Cardinality(Coins)
    BY DEF PenaltiesInit
  <2> QED
    BY <1>2, <2>1, <2>2, <2>3
<1>8. BurnInv
  <2>1. Cardinality(Moved) = 0 /\ \A coin : Cardinality(MovedOf(coin)) = 0
    BY <1>6, FS_EmptySet
  <2>2. /\ balance["user"] = Approved * Cardinality(Coins)
        /\ balance["burn"] = 0 /\ balance["contract"] = 0
        /\ \A coin \in Coins : left[coin] = Approved
    BY DEF PenaltiesInit
  <2>3. Approved <= Approved
    BY <1>1
  <2> QED
    BY <1>1, <1>2, <1>7, <2>1, <2>2, <2>3 DEF BurnInv
<1> QED
  BY <1>4, <1>5, <1>8 DEF PenaltyInv

\* A step that moves no coin.
LEMMA StillBurned ==
  ASSUME BurnInv, UNCHANGED <<left, balance>>, Moved' = Moved,
         \A p \in Moved : sends'[p].coin = sends[p].coin
  PROVE  BurnInv'
<1>1. \A coin : MovedOf(coin)' = MovedOf(coin)
  BY DEF MovedOf
<1> QED
  BY <1>1 DEF BurnInv, Rest

\* A step of one call that changes no transaction.
LEMMA CallStep ==
  ASSUME PenaltyInv, NEW p \in Penalties, NEW s \in Send, sends' = [sends EXCEPT ![p] = s],
         UNCHANGED <<enforcer, signer, txs, nonce, left, balance>>,
         sends[p].at # "done", s.at # "idle",
         s.coin = sends[p].coin \/ sends[p].at = "idle",
         s.at \in {"estimate", "nonce", "send"} => txs[p].state = "none",
         s.result # "none" => s.at = "done",
         s.at # "done" => signer \in SignKeys,
         s.result = "charged" => txs[p].state = "moved",
         s.result = "failed" /\ s.told = TRUE => txs[p].state \in {"none", "reverted"}
  PROVE  PenaltyInv'
<1>1. PenaltiesTypeOK'
  BY DEF PenaltyInv, PenaltiesTypeOK
<1>2. \A q \in Penalties : sends'[q] = IF q = p THEN s ELSE sends[q]
  BY DEF PenaltyInv, PenaltiesTypeOK
<1>3. \A q \in Penalties : SendInv(q)'
  BY <1>2 DEF PenaltyInv, SendInv
<1>4. BurnInv'
  <2>1. Moved' = Moved
    BY DEF Moved
  <2>2. \A q \in Moved : sends'[q].coin = sends[q].coin
    BY <1>2 DEF PenaltyInv, SendInv, Moved
  <2> QED
    BY <2>1, <2>2, StillBurned DEF PenaltyInv
<1> QED
  BY <1>1, <1>3, <1>4 DEF PenaltyInv

\* A result, by itself or with the call's transaction.
LEMMA ResultFields ==
  ASSUME PenaltyInv, NEW p \in Penalties, NEW result \in {"charged", "failed"}, NEW told \in BOOLEAN,
         Result(p, result, told)
  PROVE  \E s \in Send : /\ sends' = [sends EXCEPT ![p] = s] /\ s.at = "done" /\ s.result = result
                         /\ s.told = told /\ s.coin = sends[p].coin
<1>1. sends[p] \in Send
  BY DEF PenaltyInv, PenaltiesTypeOK
<1>2. PICK s : s = [sends[p] EXCEPT !.at = "done", !.result = result, !.told = told]
  OBVIOUS
<1>3. /\ s \in Send /\ s.at = "done" /\ s.result = result /\ s.told = told
      /\ s.coin = sends[p].coin
  BY <1>1, <1>2 DEF Send
<1>4. sends' = [sends EXCEPT ![p] = s]
  BY <1>2 DEF Result
<1> QED
  BY <1>3, <1>4

LEMMA ResultStep ==
  ASSUME PenaltyInv, NEW p \in Penalties, NEW result \in {"charged", "failed"}, NEW told \in BOOLEAN,
         Result(p, result, told), sends[p].at # "done",
         UNCHANGED <<enforcer, signer, txs, nonce, left, balance>>,
         result = "charged" => txs[p].state = "moved",
         result = "failed" /\ told = TRUE => txs[p].state \in {"none", "reverted"}
  PROVE  PenaltyInv'
<1>1. PICK s \in Send : /\ sends' = [sends EXCEPT ![p] = s] /\ s.at = "done" /\ s.result = result
                        /\ s.told = told /\ s.coin = sends[p].coin
  BY ResultFields
<1> QED
  BY <1>1, CallStep

\* A transaction enters the pool.
LEMMA AcceptStep ==
  ASSUME PenaltyInv, NEW p \in Penalties, NEW s \in Send, sends' = [sends EXCEPT ![p] = s],
         UNCHANGED <<enforcer, signer, nonce, left, balance>>, Accept(p),
         sends[p].at = "send", s.coin = sends[p].coin,
         \/ s.at = "wait" /\ s.result = "none"
         \/ s.at = "done" /\ s.result = "failed" /\ s.told = FALSE
  PROVE  PenaltyInv'
<1>1. /\ \A q \in Penalties : sends'[q] = IF q = p THEN s ELSE sends[q]
      /\ txs[p].state = "none" /\ signer \in SignKeys
  BY DEF PenaltyInv, PenaltiesTypeOK, SendInv
<1>2. /\ txs' \in [Penalties -> Transaction] /\ txs'[p].state = "pool"
      /\ \A q \in Penalties : q # p =>
           \/ txs'[q] = txs[q]
           \/ txs[q].state = "pool" /\ txs'[q].state = "replaced"
  <2>1. PICK n \in Nat : n = sends[p].nonce
    BY DEF PenaltyInv, PenaltiesTypeOK, Send
  <2>2. ASSUME NEW q \in Penalties PROVE txs'[q] \in Transaction
    <3>1. txs[q] \in Transaction
      BY DEF PenaltyInv, PenaltiesTypeOK
    <3> QED
      BY <1>1, <2>1, <3>1 DEF Accept, Transaction
  <2>3. \A q \in Pool(signer, n) : txs[q].state = "pool"
    BY DEF Pool
  <2>4. \A q \in Penalties : txs[q] \in Transaction
    BY DEF PenaltyInv, PenaltiesTypeOK
  <2> QED
    BY <2>1, <2>2, <2>3, <2>4 DEF Accept, Transaction
<1>3. PenaltiesTypeOK'
  BY <1>2 DEF PenaltyInv, PenaltiesTypeOK
<1>4. \A q \in Penalties : SendInv(q)'
  BY <1>1, <1>2 DEF PenaltyInv, SendInv
<1>5. BurnInv'
  <2>1. Moved' = Moved
    BY <1>1, <1>2 DEF Moved
  <2>2. \A q \in Moved : sends'[q].coin = sends[q].coin
    BY <1>1
  <2> QED
    BY <2>1, <2>2, StillBurned DEF PenaltyInv
<1> QED
  BY <1>3, <1>4, <1>5 DEF PenaltyInv

\* A call that penalizes finds something left to take.
LEMMA SafeTakes ==
  ASSUME PenaltiesTypeOK, NEW coin \in Coins, SafeTransferFrom(coin)
  PROVE  left[coin] > 0
<1>1. left[coin] \in Nat
  BY PenaltyConstants DEF PenaltiesTypeOK
<1>2. CASE left[coin] = 0 /\ coin = "false"
  <2>1. TransferFrom(coin) = [ok |-> TRUE, ret |-> "false"]
    BY <1>2 DEF TransferFrom
  <2> QED
    BY <2>1 DEF SafeTransferFrom
<1>3. CASE left[coin] = 0 /\ coin # "false"
  <2>1. PICK ret : TransferFrom(coin) = [ok |-> FALSE, ret |-> ret]
    <3>1. ~(left[coin] > 0) /\ coin # "false"
      BY <1>3
    <3> QED
      BY <3>1, Zenon DEF TransferFrom
  <2>2. TransferFrom(coin).ok = FALSE
    BY <2>1
  <2> QED
    BY <2>2 DEF SafeTransferFrom
<1> QED
  BY <1>1, <1>2, <1>3

\* The chain executes or reverts a transaction.
LEMMA MineStep ==
  ASSUME PenaltyInv, NEW q \in Penalties, Mine(q)
  PROVE  PenaltyInv'
<1>0. PICK coin \in Coins : coin = sends[q].coin
  BY DEF PenaltyInv, PenaltiesTypeOK, Send
<1> DEFINE done == Penalizes(txs[q].key, coin)
<1>1. /\ txs[q] \in Transaction /\ txs[q].state = "pool" /\ coin \in Coins /\ left[coin] \in Nat
      /\ balance \in [{"user", "contract", "burn"} -> Nat] /\ left \in [Coins -> 0 .. Approved]
      /\ UNCHANGED <<enforcer, signer, sends>>
  BY PenaltyConstants DEF Mine, PenaltyInv, PenaltiesTypeOK
<1>2. done => left[coin] > 0
  BY <1>1, SafeTakes DEF Penalizes, PenaltyInv
<1>3. PICK t \in Transaction : /\ txs' = [txs EXCEPT ![q] = t]
                               /\ t.state = IF done THEN "moved" ELSE "reverted"
  <2>1. PICK t : t = [txs[q] EXCEPT !.state = IF done THEN "moved" ELSE "reverted"]
    OBVIOUS
  <2>2. t \in Transaction /\ t.state = IF done THEN "moved" ELSE "reverted"
    BY <1>1, <2>1 DEF Transaction
  <2>3. txs' = [txs EXCEPT ![q] = t]
    BY <1>0, <2>1 DEF Mine
  <2> QED
    BY <2>2, <2>3
<1>4. \A p \in Penalties : txs'[p] = IF p = q THEN t ELSE txs[p]
  BY <1>3 DEF PenaltyInv, PenaltiesTypeOK
<1>5. nonce' \in [SignKeys -> Nat]
  <2>1. PICK key : key = txs[q].key
    OBVIOUS
  <2>2. nonce' = [nonce EXCEPT ![key] = @ + 1] /\ nonce \in [SignKeys -> Nat]
    BY <2>1 DEF Mine, PenaltyInv, PenaltiesTypeOK
  <2>3. CASE key \in SignKeys
    <3>1. nonce[key] + 1 \in Nat
      BY <2>2, <2>3
    <3>2. PICK n \in Nat : n = nonce[key] + 1
      BY <3>1
    <3>3. nonce' = [nonce EXCEPT ![key] = n]
      BY <2>2, <3>2
    <3> QED
      BY <2>2, <3>3
  <2>4. CASE key \notin SignKeys
    <3>1. nonce' = nonce
      BY <2>2, <2>4
    <3> QED
      BY <2>2, <3>1
  <2> QED
    BY <2>3, <2>4
<1>6. \A p \in Penalties : SendInv(p)'
  BY <1>1, <1>4 DEF PenaltyInv, SendInv
<1>7. CASE done
  <2>1. /\ left' = [left EXCEPT ![coin] = @ - 1]
        /\ balance' = [balance EXCEPT !["user"] = @ - 1, !["burn"] = @ + 1]
    BY <1>0, <1>2, <1>7 DEF Mine
  <2>2. /\ left'[coin] = left[coin] - 1 /\ left' \in [Coins -> 0 .. Approved]
        /\ \A other \in Coins : other # coin => left'[other] = left[other]
    <3>1. left[coin] - 1 \in 0 .. Approved
      BY <1>1, <1>2, <1>7, PenaltyConstants
    <3> QED
      BY <1>1, <2>1, <3>1
  <2>3. /\ balance'["user"] = balance["user"] - 1 /\ balance'["burn"] = balance["burn"] + 1
        /\ balance'["contract"] = balance["contract"]
    BY <1>1, <2>1
  <2>4. /\ \A kind \in {"true", "empty", "false"} : Rest(kind) \in Nat /\ Rest(kind)' \in Nat
        /\ \A kind \in {"true", "empty", "false"} : kind # coin => Rest(kind)' = Rest(kind)
        /\ Rest(coin)' = Rest(coin) - 1 /\ Rest(coin) > 0
    BY <1>1, <1>2, <1>7, <2>2, PenaltyConstants DEF Rest
  <2>5. /\ balance["user"] > 0
        /\ balance'["user"] >= Rest("true")' + Rest("empty")' + Rest("false")'
    <3>1. balance["user"] >= Rest("true") + Rest("empty") + Rest("false")
      BY DEF PenaltyInv, BurnInv
    <3>2. coin \in {"true", "empty", "false"} /\ balance["user"] \in Nat
      BY <1>1, PenaltyConstants
    <3>3. PICK a, b, c, d, e, f : /\ a = Rest("true") /\ b = Rest("empty") /\ c = Rest("false")
                                  /\ d = Rest("true")' /\ e = Rest("empty")' /\ f = Rest("false")'
      OBVIOUS
    <3>4. {a, b, c, d, e, f} \subseteq Nat /\ d + e + f = a + b + c - 1 /\ a + b + c > 0
      BY <2>4, <3>2, <3>3
    <3> QED
      BY <2>3, <3>1, <3>2, <3>3, <3>4
  <2>6. balance' \in [{"user", "contract", "burn"} -> Nat]
    BY <1>1, <2>1, <2>5
  <2>7. q \notin Moved /\ Moved' = Moved \cup {q}
    BY <1>1, <1>3, <1>4, <1>7 DEF Moved
  <2>8. Cardinality(Moved') = Cardinality(Moved) + 1
    BY <2>7, FiniteMoved, FS_AddElement
  <2>9. ASSUME NEW other \in Coins
        PROVE  Cardinality(MovedOf(other)') + left'[other] <= Approved
    <3>1. Cardinality(MovedOf(other)) + left[other] <= Approved
      BY DEF PenaltyInv, BurnInv
    <3>2. left[other] \in Nat /\ left'[other] \in Nat
      BY <1>1, <2>2, PenaltyConstants
    <3>3. CASE other = coin
      <4>1. MovedOf(other)' = MovedOf(other) \cup {q} /\ q \notin MovedOf(other)
        BY <1>0, <1>1, <2>7, <3>3 DEF MovedOf
      <4>2. Cardinality(MovedOf(other)') = Cardinality(MovedOf(other)) + 1
        BY <4>1, FiniteMoved, FS_AddElement
      <4> QED
        BY <2>2, <3>1, <3>2, <3>3, <4>2, FiniteMoved, PenaltyConstants
    <3>4. CASE other # coin
      <4>1. MovedOf(other)' = MovedOf(other)
        BY <1>0, <1>1, <2>7, <3>4 DEF MovedOf
      <4> QED
        BY <2>2, <3>1, <3>4, <4>1
    <3> QED
      BY <3>3, <3>4
  <2>10. BurnInv'
    <3>1. balance'["burn"] = Cardinality(Moved') /\ balance'["contract"] = 0
      BY <2>3, <2>8 DEF PenaltyInv, BurnInv
    <3>2. balance'["user"] + balance'["burn"] = Approved * Cardinality(Coins)
      <4>1. balance["user"] \in Nat /\ balance["burn"] \in Nat
        BY <1>1
      <4>2. balance["user"] + balance["burn"] = Approved * Cardinality(Coins)
        BY DEF PenaltyInv, BurnInv
      <4> QED
        BY <2>3, <4>1, <4>2
    <3> QED
      BY <2>5, <2>9, <3>1, <3>2 DEF BurnInv
  <2> QED
    BY <1>1, <1>3, <1>5, <1>6, <2>2, <2>6, <2>10 DEF PenaltyInv, PenaltiesTypeOK
<1>8. CASE ~done
  <2>1. UNCHANGED <<left, balance>>
    BY <1>0, <1>8 DEF Mine
  <2>2. Moved' = Moved
    BY <1>1, <1>3, <1>4, <1>8 DEF Moved
  <2>3. BurnInv'
    BY <1>1, <2>1, <2>2, StillBurned DEF PenaltyInv
  <2> QED
    BY <1>1, <1>3, <1>5, <1>6, <2>1, <2>3 DEF PenaltyInv, PenaltiesTypeOK
<1> QED
  BY <1>7, <1>8

LEMMA PenaltyStep == PenaltyInv /\ [PenaltiesNext]_penaltyVars => PenaltyInv'
<1> SUFFICES ASSUME PenaltyInv, [PenaltiesNext]_penaltyVars PROVE PenaltyInv'
  OBVIOUS
<1>0. PenaltiesTypeOK /\ BurnInv /\ (\A p \in Penalties : SendInv(p) /\ sends[p] \in Send)
  BY DEF PenaltyInv, PenaltiesTypeOK
<1>1. ASSUME NEW k \in SignKeys, NewEnforcer(k) \/ SetEnforcer(k) PROVE PenaltyInv'
  <2>1. /\ UNCHANGED <<sends, txs, nonce, left, balance>>
        /\ enforcer' \in SignKeys /\ signer' \in SignKeys \union {NoSigner}
        /\ signer \in SignKeys => signer' \in SignKeys
    BY <1>0, <1>1 DEF NewEnforcer, SetEnforcer, PenaltiesTypeOK
  <2>2. PenaltiesTypeOK'
    BY <1>0, <2>1 DEF PenaltiesTypeOK
  <2>3. \A p \in Penalties : SendInv(p)'
    BY <1>0, <2>1 DEF SendInv
  <2>4. BurnInv'
    BY <1>0, <2>1, StillBurned DEF Moved
  <2> QED
    BY <2>2, <2>3, <2>4 DEF PenaltyInv
<1>2. ASSUME NEW p \in Penalties, Begin(p) PROVE PenaltyInv'
  <2>1. PICK coin \in Coins : sends' = [sends EXCEPT ![p].at = "estimate", ![p].coin = coin]
    BY <1>2 DEF Begin
  <2>2. PICK s : s = [sends[p] EXCEPT !.at = "estimate", !.coin = coin]
    OBVIOUS
  <2>3. s \in Send /\ s.at = "estimate" /\ s.result = sends[p].result
    BY <1>0, <2>2 DEF Send
  <2>4. sends' = [sends EXCEPT ![p] = s]
    BY <2>1, <2>2
  <2>5. /\ UNCHANGED <<enforcer, signer, txs, nonce, left, balance>>
        /\ sends[p].at = "idle" /\ signer \in SignKeys
    BY <1>0, <1>2 DEF Begin, PenaltiesTypeOK
  <2>6. txs[p].state = "none" /\ s.result = "none"
    BY <1>0, <2>3, <2>5 DEF SendInv, Send
  <2> QED
    BY <2>3, <2>4, <2>5, <2>6, CallStep
<1>3. ASSUME NEW p \in Penalties, NEW at \in {"nonce", "send", "wait"}, NEW n \in Nat,
             sends' = [sends EXCEPT ![p].at = at, ![p].nonce = n],
             UNCHANGED <<enforcer, signer, txs, nonce, left, balance>>,
             sends[p].at \in {"estimate", "nonce"}, at # "wait"
      PROVE  PenaltyInv'
  <2>1. PICK s : s = [sends[p] EXCEPT !.at = at, !.nonce = n]
    OBVIOUS
  <2>2. s \in Send /\ s.at = at /\ s.result = sends[p].result /\ s.coin = sends[p].coin
    BY <1>0, <2>1 DEF Send
  <2>3. sends' = [sends EXCEPT ![p] = s]
    BY <1>3, <2>1
  <2>4. txs[p].state = "none" /\ s.result = "none" /\ signer \in SignKeys
    BY <1>0, <1>3, <2>2 DEF SendInv, Send
  <2> QED
    BY <1>3, <2>2, <2>3, <2>4, CallStep
<1>4. ASSUME NEW p \in Penalties, EstimateGas(p) PROVE PenaltyInv'
  <2>1. sends[p].at = "estimate" /\ UNCHANGED <<enforcer, signer, txs, nonce, left, balance>>
    BY <1>4 DEF EstimateGas
  <2>2. CASE sends' = [sends EXCEPT ![p].at = "nonce"]
    <3>1. PICK n \in Nat : n = sends[p].nonce
      BY <1>0 DEF Send
    <3>2. sends' = [sends EXCEPT ![p].at = "nonce", ![p].nonce = n]
      <4>1. [sends[p] EXCEPT !.at = "nonce"] = [sends[p] EXCEPT !.at = "nonce", !.nonce = n]
        BY <1>0, <3>1 DEF Send
      <4> QED
        BY <2>2, <4>1
    <3> QED
      BY <1>3, <2>1, <3>2
  <2>3. CASE Result(p, "failed", TRUE)
    <3>1. txs[p].state = "none"
      BY <1>0, <2>1 DEF SendInv
    <3> QED
      BY <2>1, <2>3, <3>1, ResultStep
  <2> QED
    BY <1>4, <2>2, <2>3 DEF EstimateGas
<1>5. ASSUME NEW p \in Penalties, PendingNonceAt(p) PROVE PenaltyInv'
  <2>1. sends[p].at = "nonce" /\ UNCHANGED <<enforcer, signer, txs, nonce, left, balance>>
    BY <1>5 DEF PendingNonceAt
  <2>2. nonce[signer] \in Nat
    BY <1>0, <2>1 DEF SendInv, PenaltiesTypeOK
  <2>3. Cardinality(Penalties) \in Nat
    BY PenaltyConstants, FS_CardinalityType
  <2>4. PICK n \in nonce[signer] .. nonce[signer] + Cardinality(Penalties) :
          sends' = [sends EXCEPT ![p].at = "send", ![p].nonce = n]
    BY <1>5 DEF PendingNonceAt
  <2>5. n \in Nat
    BY <2>2, <2>3
  <2> QED
    BY <1>3, <2>1, <2>4, <2>5
<1>6. ASSUME NEW p \in Penalties, SendTransaction(p) PROVE PenaltyInv'
  <2>1. sends[p].at = "send" /\ UNCHANGED <<enforcer, signer, nonce, left, balance>>
    BY <1>6 DEF SendTransaction
  <2>2. txs[p].state = "none" /\ sends[p].result = "none"
    BY <1>0, <2>1 DEF SendInv, Send
  <2>3. CASE Result(p, "failed", TRUE) /\ UNCHANGED txs
    BY <2>1, <2>2, <2>3, ResultStep
  <2>4. CASE Accept(p) /\ sends' = [sends EXCEPT ![p].at = "wait"]
    <3>1. PICK s : s = [sends[p] EXCEPT !.at = "wait"]
      OBVIOUS
    <3>2. s \in Send /\ s.at = "wait" /\ s.result = "none" /\ s.coin = sends[p].coin
      BY <1>0, <2>2, <3>1 DEF Send
    <3>3. sends' = [sends EXCEPT ![p] = s]
      BY <2>4, <3>1
    <3> QED
      BY <2>1, <2>4, <3>2, <3>3, AcceptStep
  <2> QED
    BY <1>6, <2>3, <2>4 DEF SendTransaction
<1>7. ASSUME NEW p \in Penalties, SendUnanswered(p) PROVE PenaltyInv'
  <2>1. PICK s \in Send : /\ sends' = [sends EXCEPT ![p] = s] /\ s.at = "done"
                          /\ s.result = "failed" /\ s.told = FALSE /\ s.coin = sends[p].coin
    BY <1>7, ResultFields DEF SendUnanswered
  <2>2. /\ sends[p].at = "send" /\ Accept(p)
        /\ UNCHANGED <<enforcer, signer, nonce, left, balance>>
    BY <1>7 DEF SendUnanswered
  <2> QED
    BY <2>1, <2>2, AcceptStep
<1>8. ASSUME NEW p \in Penalties, WaitMined(p) PROVE PenaltyInv'
  <2>1. CASE txs[p].state = "moved"
    BY <1>8, <2>1, ResultStep DEF WaitMined
  <2>2. CASE txs[p].state = "reverted"
    BY <1>8, <2>2, ResultStep DEF WaitMined
  <2> QED
    BY <1>8, <2>1, <2>2 DEF WaitMined
<1>9. ASSUME NEW p \in Penalties, NodeFails(p) PROVE PenaltyInv'
  BY <1>9, ResultStep DEF NodeFails
<1>10. ASSUME Close PROVE PenaltyInv'
  <2>1. /\ UNCHANGED <<enforcer, txs, nonce, left, balance>> /\ signer' = NoSigner
        /\ sends' = [p \in Penalties |-> IF sends[p].at = "idle" THEN sends[p]
                                         ELSE [sends[p] EXCEPT !.at = "done"]]
    BY <1>10 DEF Close
  <2>2. ASSUME NEW p \in Penalties
        PROVE  /\ sends'[p] \in Send /\ sends'[p].coin = sends[p].coin
               /\ sends'[p].result = sends[p].result /\ sends'[p].told = sends[p].told
               /\ sends'[p].at = IF sends[p].at = "idle" THEN "idle" ELSE "done"
    BY <1>0, <2>1 DEF Send
  <2>3. PenaltiesTypeOK'
    BY <1>0, <2>1, <2>2 DEF PenaltiesTypeOK
  <2>4. \A p \in Penalties : SendInv(p)'
    BY <1>0, <2>1, <2>2 DEF SendInv
  <2>5. BurnInv'
    BY <1>0, <2>1, <2>2, StillBurned DEF Moved
  <2> QED
    BY <2>3, <2>4, <2>5 DEF PenaltyInv
<1>11. ASSUME NEW coin \in Coins, Withdraw(coin) PROVE PenaltyInv'
  <2>1. /\ UNCHANGED <<enforcer, signer, sends, txs, nonce, balance>>
        /\ left' = [left EXCEPT ![coin] = 0]
    BY <1>11 DEF Withdraw
  <2>2. left' \in [Coins -> 0 .. Approved] /\ \A other \in Coins : left'[other] <= left[other]
    BY <1>0, <2>1, PenaltyConstants DEF PenaltiesTypeOK
  <2>3. PenaltiesTypeOK' /\ \A p \in Penalties : SendInv(p)'
    BY <1>0, <2>1, <2>2 DEF PenaltiesTypeOK, SendInv
  <2>4. BurnInv'
    <3>1. \A other \in Coins : left[other] \in Nat /\ left'[other] \in Nat
      BY <1>0, <2>2, PenaltyConstants DEF PenaltiesTypeOK
    <3>2. Moved' = Moved /\ \A other : MovedOf(other)' = MovedOf(other)
      BY <2>1 DEF Moved, MovedOf
    <3>3. \A other \in Coins : Cardinality(MovedOf(other)') + left'[other] <= Approved
      BY <1>0, <2>2, <3>1, <3>2, FiniteMoved, PenaltyConstants DEF BurnInv
    <3>4. balance'["user"] >= Rest("true")' + Rest("empty")' + Rest("false")'
      <4>1. \A kind : Rest(kind) \in Nat /\ Rest(kind)' \in Nat /\ Rest(kind)' <= Rest(kind)
        BY <2>2, <3>1 DEF Rest
      <4>2. balance'["user"] \in Nat /\ balance'["user"] >= Rest("true") + Rest("empty") + Rest("false")
        BY <1>0, <2>1 DEF BurnInv, PenaltiesTypeOK
      <4> QED
        BY <4>1, <4>2
    <3> QED
      BY <1>0, <2>1, <3>2, <3>3, <3>4 DEF BurnInv
  <2> QED
    BY <2>3, <2>4 DEF PenaltyInv
<1>12. CASE UNCHANGED penaltyVars
  <2>1. UNCHANGED <<enforcer, signer, sends, txs, nonce, left, balance>>
    BY <1>12 DEF penaltyVars
  <2>2. PenaltiesTypeOK' /\ \A p \in Penalties : SendInv(p)'
    BY <1>0, <2>1 DEF PenaltiesTypeOK, SendInv
  <2>3. BurnInv'
    BY <1>0, <2>1, StillBurned DEF Moved
  <2> QED
    BY <2>2, <2>3 DEF PenaltyInv
<1> QED
  BY <1>1, <1>2, <1>4, <1>5, <1>6, <1>7, <1>8, <1>9, <1>10, <1>11, <1>12, MineStep DEF PenaltiesNext

LEMMA PenaltyInvariant == PenaltiesSpec => []PenaltyInv
BY PenaltyInitInv, PenaltyStep, PTL DEF PenaltiesSpec

\* Every reachable state of the enforcer client and the contract is well-typed.
THEOREM PenaltiesTypeCorrect == PenaltiesSpec => []PenaltiesTypeOK
<1>1. PenaltyInv => PenaltiesTypeOK
  BY DEF PenaltyInv
<1> QED
  BY <1>1, PenaltyInvariant, PTL

\* What Penalize reports is what the chain did, whatever collides or is rotated.
THEOREM ResultsMatchChain == PenaltiesSpec => []ResultMatchesChain
<1>1. PenaltyInv => ResultMatchesChain
  BY DEF PenaltyInv, SendInv, ResultMatchesChain, Moved
<1> QED
  BY <1>1, PenaltyInvariant, PTL

\* An executed penalty has burned one unit and nothing else has moved; no coin is
\* taken beyond what was approved.
THEOREM ExecutionsBurn == PenaltiesSpec => []ExecutedIsBurned
<1>1. PenaltyInv => ExecutedIsBurned
  <2> SUFFICES ASSUME PenaltyInv PROVE ExecutedIsBurned
    OBVIOUS
  <2>1. ASSUME NEW coin \in Coins
        PROVE  Cardinality({p \in Moved : sends[p].coin = coin}) <= Approved
    <3>1. Cardinality(MovedOf(coin)) + left[coin] <= Approved /\ left[coin] \in Nat
      BY PenaltyConstants DEF PenaltyInv, BurnInv, PenaltiesTypeOK
    <3>2. Cardinality(MovedOf(coin)) <= Approved
      BY <3>1, FiniteMoved, PenaltyConstants
    <3> QED
      BY <3>2 DEF MovedOf
  <2> QED
    BY <2>1 DEF PenaltyInv, BurnInv, ExecutedIsBurned
<1> QED
  BY <1>1, PenaltyInvariant, PTL

(***************************************************************************)
(* Goals and allowances                                                    *)
(***************************************************************************)

FieldNames == {"text", "ends", "stake", "token"}

GoalInv(g) ==
  /\ goal[g].row = goal[g].want
  /\ goal[g].unsure = FALSE => <<goal[g].row.token, goal[g].row.stake>> \in covered

\* A request in progress: its goal exists; the token it looks at is that of the
\* goal it writes; a checked stake it is about to write was covered, an unchecked
\* one when it was read; what it was not asked to change is as it was read.
EditInv(e) ==
  /\ e.op \in {"UpdateGoal", "SetStake", "ArchiveGoal"} => e.goal \in DOMAIN goal
  /\ e.op \in {"CreateGoal", "UpdateGoal", "SetStake"} => e.new.token = e.token
  /\ e.op \in {"CreateGoal", "SetStake"} => e.checks = TRUE
  /\ e.checks = TRUE /\ e.at = "write" => <<e.token, e.new.stake>> \in covered
  /\ e.op = "UpdateGoal" =>
       /\ "token" \notin e.changes
       /\ e.checks = FALSE /\ e.unsure = FALSE => <<e.token, e.new.stake>> \in covered
       /\ "SetStake" \notin e.overtaken => e.token = goal[e.goal].row.token
  /\ e.op \in {"UpdateGoal", "SetStake"} /\ e.overtaken = {} =>
       \A f \in FieldNames \ e.changes : e.new[f] = goal[e.goal].row[f]

StakeInv ==
  /\ GoalStakeTypeOK
  /\ \A g \in DOMAIN goal : GoalInv(g)
  /\ \A c \in EditClients : edits[c] # NoEdit => EditInv(edits[c])

LEMMA StakeInitInv == GoalStakeInit => StakeInv
<1> SUFFICES ASSUME GoalStakeInit PROVE StakeInv
  OBVIOUS
<1>1. {MaxAmount, MaxGoals, MaxEdits, MaxEditFaults, MaxApprovals} \subseteq Nat
  BY GoalStakeAssumption
<1>2. GoalStakeTypeOK
  BY <1>1 DEF GoalStakeInit, GoalStakeTypeOK, Amount, NoAmount
<1>3. DOMAIN goal = {}
  BY DEF GoalStakeInit
<1> QED
  BY <1>2, <1>3 DEF GoalStakeInit, StakeInv

\* An edit is not disturbed by a step that keeps the rows.
LEMMA EditKept ==
  ASSUME StakeInv, NEW e, EditInv(e), covered \subseteq covered',
         \A g \in DOMAIN goal : g \in DOMAIN goal' /\ goal'[g].row = goal[g].row,
         e.op \in {"UpdateGoal", "SetStake"} => e.goal \in DOMAIN goal
  PROVE  EditInv(e)'
BY DEF EditInv

\* A step of one request that writes no goal.
LEMMA EditStep ==
  ASSUME StakeInv, NEW c \in EditClients, NEW e \in Edit \union {NoEdit},
         edits' = [edits EXCEPT ![c] = e], goal' = goal, live' \in BOOLEAN,
         covered \subseteq covered', covered' \subseteq Tokens \X Amount,
         cache' \in [Tokens -> 0 .. NoAmount], allowance' \in [Tokens -> Amount],
         spent' \in [edits: 0 .. MaxEdits, faults: 0 .. MaxEditFaults, approvals: 0 .. MaxApprovals],
         e # NoEdit => EditInv(e)'
  PROVE  StakeInv'
<1>1. \A d \in EditClients : edits'[d] = IF d = c THEN e ELSE edits[d]
  BY DEF StakeInv, GoalStakeTypeOK
<1>2. GoalStakeTypeOK'
  BY DEF StakeInv, GoalStakeTypeOK
<1>3. \A g \in DOMAIN goal' : GoalInv(g)'
  BY DEF StakeInv, GoalInv
<1>4. ASSUME NEW d \in EditClients, edits'[d] # NoEdit PROVE EditInv(edits[d])'
  <2>1. CASE d = c
    BY <1>1, <1>4, <2>1
  <2>2. CASE d # c
    <3>1. PICK f : f = edits[d]
      OBVIOUS
    <3>2. EditInv(f)
      BY <1>1, <1>4, <2>2, <3>1 DEF StakeInv
    <3>3. EditInv(f)'
      BY <3>2, EditKept DEF EditInv
    <3> QED
      BY <1>1, <2>2, <3>1, <3>3
  <2> QED
    BY <2>1, <2>2
<1> QED
  BY <1>2, <1>3, <1>4 DEF StakeInv

\* A request that has read the goals.
LEMMA RequestStep ==
  ASSUME StakeInv, NEW c \in EditClients, NEW op \in {"CreateGoal", "UpdateGoal", "SetStake", "ArchiveGoal", "RecordApproval"},
         NEW at \in {"allowance", "cache", "write"}, NEW g \in 0 .. MaxGoals, NEW new \in Fields,
         NEW asked \in SUBSET FieldNames, NEW token \in Tokens, NEW seen \in 0 .. NoAmount,
         Request(c, op, at, g, new, asked, token, seen),
         g = 0 \/ g \in DOMAIN goal,
         op \in {"UpdateGoal", "SetStake", "ArchiveGoal"} => g \in DOMAIN goal,
         op \in {"CreateGoal", "UpdateGoal", "SetStake"} => new.token = token,
         op \in {"CreateGoal", "SetStake"} => at = "allowance",
         op = "UpdateGoal" => /\ "token" \notin asked
                              /\ token = goal[g].row.token
                              /\ at # "allowance" => new.stake = goal[g].row.stake,
         op \in {"UpdateGoal", "SetStake"} =>
           \A f \in FieldNames \ asked : new[f] = goal[g].row[f]
  PROVE  StakeInv'
<1>0. /\ GoalStakeTypeOK /\ 0 \notin DOMAIN goal
      /\ \A i \in DOMAIN goal : goal[i] \in GoalRow
  BY DEF StakeInv, GoalStakeTypeOK
<1>1. PICK checks \in BOOLEAN : checks = (at = "allowance")
  OBVIOUS
<1>2. PICK unsure \in BOOLEAN : /\ unsure = IF g = 0 THEN FALSE ELSE goal[g].unsure
                                /\ g \in DOMAIN goal => unsure = goal[g].unsure
  <2>1. g # 0 => goal[g].unsure \in BOOLEAN
    BY <1>0 DEF GoalRow
  <2> QED
    BY <1>0, <2>1
<1>3. PICK e : e = [op |-> op, at |-> at, goal |-> g, new |-> new, changes |-> asked,
                    checks |-> checks, token |-> token, seen |-> seen,
                    unsure |-> unsure, overtaken |-> {}]
  OBVIOUS
<1>4. edits' = [edits EXCEPT ![c] = e]
  BY <1>1, <1>2, <1>3 DEF Request
<1>5. e \in Edit
  BY <1>3 DEF Edit, FieldNames
<1>6. /\ e.op = op /\ e.at = at /\ e.goal = g /\ e.new = new /\ e.changes = asked /\ e.token = token
      /\ e.checks = checks /\ e.unsure = unsure /\ e.overtaken = {}
  BY <1>3
<1>7. EditInv(e)
  <2>1. op = "UpdateGoal" /\ checks = FALSE /\ unsure = FALSE => <<token, new.stake>> \in covered
    BY <1>1, <1>2 DEF StakeInv, GoalInv
  <2>2. op \in {"CreateGoal", "SetStake"} => checks = TRUE
    BY <1>1
  <2>3. ~(checks = TRUE /\ at = "write")
    BY <1>1
  <2> QED
    BY <1>6, <2>1, <2>2, <2>3 DEF EditInv
<1>8. EditInv(e)'
  BY <1>7, EditKept DEF EditInv, Request
<1>9. spent' \in [edits: 0 .. MaxEdits, faults: 0 .. MaxEditFaults, approvals: 0 .. MaxApprovals]
  <2>1. spent.edits + 1 \in 0 .. MaxEdits
    BY <1>0, GoalStakeAssumption DEF Request, GoalStakeTypeOK
  <2>2. PICK n \in 0 .. MaxEdits : n = spent.edits + 1
    BY <2>1
  <2>3. spent' = [spent EXCEPT !.edits = n]
    BY <2>2 DEF Request
  <2> QED
    BY <1>0, <2>3 DEF GoalStakeTypeOK
<1> QED
  BY <1>0, <1>4, <1>5, <1>8, <1>9, EditStep DEF Request, GoalStakeTypeOK

\* What is compared is then covered.
LEMMA CompareStep ==
  ASSUME StakeInv, NEW c \in EditClients, edits[c].at \in {"allowance", "cache"}, NEW a \in 0 .. NoAmount,
         Compare(c, a), UNCHANGED <<live, goal, allowance, spent>>, cache' \in [Tokens -> 0 .. NoAmount]
  PROVE  StakeInv'
<1>0. /\ GoalStakeTypeOK /\ edits[c] \in Edit /\ edits[c] # NoEdit /\ EditInv(edits[c])
  BY DEF StakeInv, GoalStakeTypeOK, NoEdit, Edit
<1>1. CASE edits[c].op # "RecordApproval" /\ a >= edits[c].new.stake
  <2>1. PICK e : e = [edits[c] EXCEPT !.at = "write"]
    OBVIOUS
  <2>2. /\ e \in Edit /\ e.at = "write"
        /\ e.op = edits[c].op /\ e.goal = edits[c].goal /\ e.new = edits[c].new
        /\ e.changes = edits[c].changes /\ e.checks = edits[c].checks /\ e.token = edits[c].token
        /\ e.unsure = edits[c].unsure /\ e.overtaken = edits[c].overtaken
    BY <1>0, <2>1 DEF Edit
  <2>3. /\ edits' = [edits EXCEPT ![c] = e]
        /\ covered' = covered \union {<<e.token, e.new.stake>>}
    BY <1>1, <2>1, <2>2 DEF Compare
  <2>4. covered' \subseteq Tokens \X Amount
    <3>1. e.token \in Tokens /\ e.new \in Fields
      BY <2>2 DEF Edit
    <3>2. e.new.stake \in Amount
      BY <3>1, GoalStakeAssumption DEF Fields, Amount
    <3> QED
      BY <1>0, <2>3, <3>1, <3>2 DEF GoalStakeTypeOK
  <2>5. EditInv(e)'
    BY <1>0, <2>2, <2>3 DEF EditInv
  <2> QED
    BY <1>0, <2>2, <2>3, <2>4, <2>5, EditStep DEF GoalStakeTypeOK
<1>2. CASE ~(edits[c].op # "RecordApproval" /\ a >= edits[c].new.stake)
  <2>1. edits' = [edits EXCEPT ![c] = NoEdit] /\ covered' = covered
    BY <1>2 DEF Compare, Respond
  <2> QED
    BY <1>0, <2>1, EditStep DEF GoalStakeTypeOK
<1> QED
  BY <1>1, <1>2

\* A request ends, with or without a new goal.
LEMMA InsertStep ==
  ASSUME StakeInv, NEW c \in EditClients, InsertGoal(c)
  PROVE  StakeInv'
<1>0. /\ GoalStakeTypeOK /\ edits[c] \in Edit /\ edits[c] # NoEdit /\ EditInv(edits[c])
  BY DEF StakeInv, GoalStakeTypeOK, NoEdit, Edit, InsertGoal
<1>1. PICK r : r = [row |-> edits[c].new, want |-> edits[c].new, archived |-> FALSE, unsure |-> FALSE]
  OBVIOUS
<1>2. r \in GoalRow /\ r.row = edits[c].new /\ r.want = edits[c].new
  BY <1>0, <1>1 DEF GoalRow, Edit
<1>3. /\ goal' = Append(goal, r) /\ edits' = [edits EXCEPT ![c] = NoEdit]
      /\ UNCHANGED <<live, cache, allowance, covered, spent>>
  BY <1>1 DEF InsertGoal, Respond
<1>4. /\ goal' \in Seq(GoalRow) /\ Len(goal') = Len(goal) + 1 /\ Len(goal') <= MaxGoals
      /\ \A g \in DOMAIN goal : g \in DOMAIN goal' /\ goal'[g] = goal[g]
      /\ \A g \in DOMAIN goal' : g \in DOMAIN goal \/ goal'[g] = r
  BY <1>0, <1>2, <1>3, GoalStakeAssumption DEF GoalStakeTypeOK, InsertGoal
<1>5. GoalStakeTypeOK'
  BY <1>0, <1>3, <1>4 DEF GoalStakeTypeOK
<1>6. ASSUME NEW g \in DOMAIN goal' PROVE GoalInv(g)'
  <2>1. CASE g \in DOMAIN goal
    BY <1>3, <1>4, <2>1 DEF GoalInv, StakeInv
  <2>2. CASE goal'[g] = r
    <3>1. <<edits[c].token, edits[c].new.stake>> \in covered /\ edits[c].new.token = edits[c].token
      BY <1>0 DEF EditInv, InsertGoal
    <3> QED
      BY <1>2, <1>3, <2>2, <3>1 DEF GoalInv
  <2> QED
    BY <1>4, <2>1, <2>2
<1>7. ASSUME NEW d \in EditClients, edits'[d] # NoEdit PROVE EditInv(edits[d])'
  <2>1. PICK f : f = edits[d]
    OBVIOUS
  <2>2. d # c /\ edits'[d] = f
    BY <1>0, <1>3, <1>7, <2>1 DEF GoalStakeTypeOK
  <2>3. EditInv(f)
    BY <1>7, <2>1, <2>2 DEF StakeInv
  <2>4. EditInv(f)'
    BY <1>3, <1>4, <2>3, EditKept DEF EditInv
  <2> QED
    BY <2>2, <2>4
<1> QED
  BY <1>5, <1>6, <1>7 DEF StakeInv

LEMMA ArchiveStep ==
  ASSUME StakeInv, NEW c \in EditClients, StoreArchived(c)
  PROVE  StakeInv'
<1>0. /\ GoalStakeTypeOK /\ edits[c] \in Edit /\ edits[c] # NoEdit /\ EditInv(edits[c])
  BY DEF StakeInv, GoalStakeTypeOK, NoEdit, Edit, StoreArchived
<1>1. PICK g \in DOMAIN goal : g = edits[c].goal
  BY <1>0 DEF EditInv, StoreArchived
<1>2. goal[g] \in GoalRow
  BY <1>0 DEF GoalStakeTypeOK
<1>3. PICK r : r = [goal[g] EXCEPT !.archived = TRUE]
  OBVIOUS
<1>4. r \in GoalRow /\ r.row = goal[g].row /\ r.want = goal[g].want /\ r.unsure = goal[g].unsure
  BY <1>2, <1>3 DEF GoalRow
<1>5. /\ goal' = [goal EXCEPT ![g] = r] /\ edits' = [edits EXCEPT ![c] = NoEdit]
      /\ UNCHANGED <<live, cache, allowance, covered, spent>>
  BY <1>1, <1>3 DEF StoreArchived, Respond
<1>6. /\ goal' \in Seq(GoalRow) /\ Len(goal') = Len(goal) /\ DOMAIN goal' = DOMAIN goal
      /\ \A h \in DOMAIN goal : goal'[h] = IF h = g THEN r ELSE goal[h]
  BY <1>0, <1>4, <1>5 DEF GoalStakeTypeOK
<1>7. GoalStakeTypeOK'
  BY <1>0, <1>5, <1>6 DEF GoalStakeTypeOK
<1>8. \A h \in DOMAIN goal' : GoalInv(h)'
  BY <1>4, <1>5, <1>6 DEF GoalInv, StakeInv
<1>9. ASSUME NEW d \in EditClients, edits'[d] # NoEdit PROVE EditInv(edits[d])'
  <2>1. PICK f : f = edits[d]
    OBVIOUS
  <2>2. d # c /\ edits'[d] = f
    BY <1>0, <1>5, <1>9, <2>1 DEF GoalStakeTypeOK
  <2>3. EditInv(f)
    BY <1>9, <2>1, <2>2 DEF StakeInv
  <2>4. EditInv(f)'
    BY <1>4, <1>5, <1>6, <2>3, EditKept DEF EditInv
  <2> QED
    BY <2>2, <2>4
<1> QED
  BY <1>7, <1>8, <1>9 DEF StakeInv

\* UpdateGoal and SetStake write the goal; the other requests for it are overtaken.
LEMMA WriteStep ==
  ASSUME StakeInv, NEW c \in EditClients, WriteGoal(c)
  PROVE  StakeInv'
<1> DEFINE e == edits[c]
<1>0. /\ GoalStakeTypeOK /\ e \in Edit /\ e # NoEdit /\ EditInv(e)
      /\ e.at = "write" /\ e.op \in {"UpdateGoal", "SetStake"}
      /\ UNCHANGED <<live, cache, allowance, covered, spent>>
  BY DEF StakeInv, GoalStakeTypeOK, NoEdit, Edit, WriteGoal
<1>1. PICK g \in DOMAIN goal : g = e.goal
  BY <1>0 DEF EditInv
<1>2. goal[g] \in GoalRow /\ GoalInv(g)
  BY <1>0 DEF GoalStakeTypeOK, StakeInv
<1>3. /\ Written(e) \in Fields /\ Written(e).stake = e.new.stake
      /\ \A f \in FieldNames \ {"token"} : Written(e)[f] = e.new[f]
      /\ Written(e).token = IF e.op = "SetStake" THEN e.token ELSE goal[g].row.token
  <2>1. e.new \in Fields /\ goal[g].row \in Fields
    BY <1>0, <1>2 DEF Edit, GoalRow
  <2>2. CASE e.op = "SetStake"
    <3>1. Written(e) = e.new /\ e.new.token = e.token
      BY <1>0, <2>2 DEF Written, EditInv
    <3> QED
      BY <2>1, <2>2, <3>1 DEF Fields
  <2>3. CASE e.op # "SetStake"
    <3>1. PICK t \in Tokens : t = goal[g].row.token
      BY <2>1 DEF Fields
    <3>2. Written(e) = [e.new EXCEPT !.token = t]
      BY <1>1, <2>3, <3>1 DEF Written
    <3>3. PICK w : w = Written(e)
      OBVIOUS
    <3>4. /\ w \in Fields /\ w.token = t /\ w.stake = e.new.stake
          /\ \A f \in FieldNames \ {"token"} : w[f] = e.new[f]
      BY <2>1, <3>2, <3>3 DEF Fields, FieldNames
    <3> QED
      BY <2>3, <3>1, <3>3, <3>4
  <2> QED
    BY <2>2, <2>3
<1>4. PICK written \in Fields : written = Written(e)
  BY <1>3
<1>5. e.overtaken = {} => [f \in DOMAIN e.new |-> IF f \in e.changes THEN e.new[f] ELSE goal[g].want[f]] = written
  <2> SUFFICES ASSUME e.overtaken = {}
               PROVE [f \in DOMAIN e.new |-> IF f \in e.changes THEN e.new[f] ELSE goal[g].want[f]] = written
    OBVIOUS
  <2>1. /\ e.new \in Fields /\ DOMAIN e.new = FieldNames /\ DOMAIN written = FieldNames
        /\ written = [f \in FieldNames |-> written[f]]
    BY <1>0 DEF Edit, Fields, FieldNames
  <2>2. \A f \in FieldNames \ e.changes : e.new[f] = goal[g].want[f]
    BY <1>0, <1>1, <1>2 DEF EditInv, GoalInv
  <2>3. written.token = e.new.token
    <3>1. e.op = "UpdateGoal" => goal[g].row.token = e.token
      BY <1>0, <1>1 DEF EditInv
    <3>2. e.new.token = e.token
      BY <1>0 DEF EditInv
    <3> QED
      BY <1>0, <1>3, <1>4, <3>1, <3>2
  <2>4. \A f \in FieldNames : written[f] = e.new[f]
    BY <1>3, <1>4, <2>3
  <2>5. \A f \in FieldNames : (IF f \in e.changes THEN e.new[f] ELSE goal[g].want[f]) = written[f]
    BY <2>2, <2>4
  <2> QED
    BY <2>1, <2>5
<1>6. PICK unsure \in BOOLEAN : unsure = /\ e.op = "UpdateGoal"
                                         /\ "SetStake" \in e.overtaken \/ (e.unsure /\ ~e.checks)
  OBVIOUS
<1>7. PICK r : r = [goal[g] EXCEPT !.row = written, !.want = written, !.unsure = unsure]
  OBVIOUS
<1>8. r \in GoalRow /\ r.row = written /\ r.want = written /\ r.unsure = unsure
  BY <1>2, <1>7 DEF GoalRow
<1>9. goal' = [goal EXCEPT ![g] = r]
  BY <1>1, <1>4, <1>5, <1>6, <1>7 DEF WriteGoal
<1>10. /\ goal' \in Seq(GoalRow) /\ Len(goal') = Len(goal) /\ DOMAIN goal' = DOMAIN goal
       /\ \A h \in DOMAIN goal : goal'[h] = IF h = g THEN r ELSE goal[h]
  BY <1>0, <1>8, <1>9 DEF GoalStakeTypeOK
<1>11. \A d \in EditClients :
         edits'[d] = CASE d = c -> NoEdit
                       [] d # c /\ edits[d] # NoEdit /\ edits[d].goal = g ->
                            [edits[d] EXCEPT !.overtaken = @ \union {e.op}]
                       [] OTHER -> edits[d]
  BY <1>1 DEF WriteGoal
<1>12. ASSUME NEW d \in EditClients
       PROVE  /\ edits'[d] \in Edit \union {NoEdit}
              /\ edits'[d] # NoEdit => EditInv(edits[d])'
  <2>1. CASE d = c
    BY <1>11, <2>1
  <2>2. CASE d # c /\ edits[d] # NoEdit /\ edits[d].goal = g
    <3>1. edits[d] \in Edit /\ EditInv(edits[d])
      BY <1>0, <2>2 DEF StakeInv, GoalStakeTypeOK
    <3>2. PICK op \in {"UpdateGoal", "SetStake"} : op = e.op
      BY <1>0
    <3>3. PICK f : f = [edits[d] EXCEPT !.overtaken = @ \union {op}]
      OBVIOUS
    <3>4. edits'[d] = f
      BY <1>11, <2>2, <3>2, <3>3
    <3>5. /\ f \in Edit
          /\ f.op = edits[d].op /\ f.at = edits[d].at /\ f.goal = g /\ f.new = edits[d].new
          /\ f.changes = edits[d].changes /\ f.checks = edits[d].checks /\ f.token = edits[d].token
          /\ f.unsure = edits[d].unsure
          /\ f.overtaken = edits[d].overtaken \union {op}
      BY <2>2, <3>1, <3>2, <3>3 DEF Edit
    <3>6. f.overtaken # {} /\ op \in f.overtaken
      BY <3>5
    <3>7. f.op = "UpdateGoal" /\ "SetStake" \notin f.overtaken => f.token = goal'[g].row.token
      <4>1. op # "SetStake" => written.token = goal[g].row.token
        BY <1>3, <1>4, <3>2
      <4> QED
        BY <1>8, <1>10, <2>2, <3>1, <3>5, <4>1 DEF EditInv
    <3>8. EditInv(f)'
      BY <1>0, <1>10, <3>1, <3>5, <3>6, <3>7 DEF EditInv
    <3> QED
      BY <3>4, <3>5, <3>8
  <2>3. CASE d # c /\ (edits[d] = NoEdit \/ edits[d].goal # g)
    <3>1. PICK f : f = edits[d]
      OBVIOUS
    <3>2. edits'[d] = f
      BY <1>11, <2>3, <3>1
    <3>3. f \in Edit \union {NoEdit}
      BY <1>0, <3>1 DEF GoalStakeTypeOK
    <3>4. ASSUME f # NoEdit PROVE EditInv(f)'
      <4>1. EditInv(f) /\ f.goal # g
        BY <2>3, <3>1, <3>4 DEF StakeInv
      <4> QED
        BY <1>0, <1>10, <4>1 DEF EditInv
    <3> QED
      BY <3>2, <3>3, <3>4
  <2> QED
    BY <2>1, <2>2, <2>3
<1>13. GoalStakeTypeOK'
  <2>1. edits' \in [EditClients -> Edit \union {NoEdit}]
    <3>1. edits' = [d \in EditClients |-> edits'[d]]
      BY DEF WriteGoal
    <3> QED
      BY <1>12, <3>1
  <2> QED
    BY <1>0, <1>10, <2>1 DEF GoalStakeTypeOK
<1>14. ASSUME NEW h \in DOMAIN goal' PROVE GoalInv(h)'
  <2>1. CASE h # g
    BY <1>0, <1>10, <2>1 DEF GoalInv, StakeInv
  <2>2. CASE h = g
    <3>1. unsure = FALSE => <<written.token, written.stake>> \in covered
      <4>1. CASE e.op = "SetStake"
        BY <1>0, <1>3, <1>4, <4>1 DEF EditInv
      <4>2. CASE e.op = "UpdateGoal" /\ unsure = FALSE
        <5>1. "SetStake" \notin e.overtaken /\ ~(e.unsure /\ ~e.checks)
          BY <1>6, <4>2
        <5>2. e.checks \in BOOLEAN /\ e.unsure \in BOOLEAN
          BY <1>0 DEF Edit
        <5>3. e.checks = TRUE \/ (e.checks = FALSE /\ e.unsure = FALSE)
          BY <5>1, <5>2
        <5>4. <<e.token, e.new.stake>> \in covered
          BY <1>0, <4>2, <5>3 DEF EditInv
        <5>5. written.token = e.token
          BY <1>0, <1>1, <1>3, <1>4, <4>2, <5>1 DEF EditInv
        <5> QED
          BY <1>3, <1>4, <5>4, <5>5
      <4> QED
        BY <1>0, <4>1, <4>2
    <3> QED
      BY <1>0, <1>8, <1>10, <2>2, <3>1 DEF GoalInv
  <2> QED
    BY <2>1, <2>2
<1> QED
  BY <1>12, <1>13, <1>14 DEF StakeInv

LEMMA StakeStep == StakeInv /\ [GoalStakeNext]_stakeVars => StakeInv'
<1> SUFFICES ASSUME StakeInv, [GoalStakeNext]_stakeVars PROVE StakeInv'
  OBVIOUS
<1>0. /\ GoalStakeTypeOK /\ 0 \in 0 .. MaxGoals /\ 0 \in 0 .. NoAmount /\ NoAmount \in 0 .. NoAmount
      /\ \A g \in DOMAIN goal : g \in 0 .. MaxGoals /\ goal[g].row \in Fields
      /\ \A a \in Amount : a \in 0 .. NoAmount
  <2>1. MaxAmount \in Nat /\ MaxGoals \in Nat
    BY GoalStakeAssumption
  <2>2. GoalStakeTypeOK /\ goal \in Seq(GoalRow) /\ Len(goal) <= MaxGoals
    BY DEF StakeInv, GoalStakeTypeOK
  <2>3. \A g \in DOMAIN goal : g \in 0 .. MaxGoals /\ goal[g] \in GoalRow
    BY <2>1, <2>2
  <2>4. \A g \in DOMAIN goal : goal[g].row \in Fields
    BY <2>3 DEF GoalRow
  <2>5. 0 \in 0 .. MaxGoals /\ 0 \in 0 .. NoAmount /\ NoAmount \in 0 .. NoAmount
    BY <2>1 DEF NoAmount
  <2>6. \A a \in Amount : a \in 0 .. NoAmount
    BY <2>1 DEF NoAmount, Amount
  <2> QED
    BY <2>2, <2>3, <2>4, <2>5, <2>6
<1>1. ASSUME NEW c \in EditClients, CreateGoal(c) PROVE StakeInv'
  <2>1. PICK f \in Fields :
          Request(c, "CreateGoal", "allowance", 0, f, {"text", "ends", "stake", "token"}, f.token, 0)
    BY <1>1 DEF CreateGoal
  <2>2. f.token \in Tokens
    BY DEF Fields
  <2> QED
    BY <1>0, <2>1, <2>2, RequestStep DEF FieldNames
<1>2. ASSUME NEW c \in EditClients, UpdateGoal(c) PROVE StakeInv'
  <2>1. PICK g \in DOMAIN goal, text \in Texts, ends \in Texts, stake \in 1 .. MaxAmount :
          \E kept \in SUBSET {"ends", "stake"} :
            LET old == goal[g].row
                new == [text |-> text, token |-> old.token,
                        ends |-> IF "ends" \in kept THEN old.ends ELSE ends,
                        stake |-> IF "stake" \in kept THEN old.stake ELSE stake]
            IN  /\ ~goal[g].archived
                /\ Request(c, "UpdateGoal", IF new.stake # old.stake THEN "allowance" ELSE "write", g, new,
                           {"text", "ends", "stake"} \ kept, old.token, 0)
    BY <1>2 DEF UpdateGoal
  <2>2. PICK kept \in SUBSET {"ends", "stake"} :
          LET old == goal[g].row
              new == [text |-> text, token |-> old.token,
                      ends |-> IF "ends" \in kept THEN old.ends ELSE ends,
                      stake |-> IF "stake" \in kept THEN old.stake ELSE stake]
          IN  Request(c, "UpdateGoal", IF new.stake # old.stake THEN "allowance" ELSE "write", g, new,
                      {"text", "ends", "stake"} \ kept, old.token, 0)
    BY <2>1
  <2>3. PICK old \in Fields : old = goal[g].row
    BY <1>0
  <2>4. PICK new : new = [text |-> text, token |-> old.token,
                          ends |-> IF "ends" \in kept THEN old.ends ELSE ends,
                          stake |-> IF "stake" \in kept THEN old.stake ELSE stake]
    OBVIOUS
  <2>5. PICK at \in {"allowance", "write"} : at = IF new.stake # old.stake THEN "allowance" ELSE "write"
    OBVIOUS
  <2>6. PICK changed \in SUBSET FieldNames : changed = {"text", "ends", "stake"} \ kept
    BY DEF FieldNames
  <2>7. Request(c, "UpdateGoal", at, g, new, changed, old.token, 0)
    BY <2>2, <2>3, <2>4, <2>5, <2>6
  <2>8. /\ new \in Fields /\ old.token \in Tokens /\ new.token = old.token
        /\ "ends" \in kept => new.ends = old.ends
        /\ "stake" \in kept => new.stake = old.stake
    BY <2>4 DEF Fields
  <2>9. \A f \in FieldNames \ changed : new[f] = goal[g].row[f]
    BY <2>3, <2>6, <2>8 DEF FieldNames
  <2>10. "token" \notin changed /\ (at # "allowance" => new.stake = old.stake)
    BY <2>5, <2>6
  <2> QED
    BY <1>0, <2>3, <2>5, <2>7, <2>8, <2>9, <2>10, RequestStep
<1>3. ASSUME NEW c \in EditClients, SetStake(c) PROVE StakeInv'
  <2>1. PICK g \in DOMAIN goal, stake \in 1 .. MaxAmount, token \in Tokens :
          Request(c, "SetStake", "allowance", g, [goal[g].row EXCEPT !.stake = stake, !.token = token],
                  {"stake", "token"}, token, 0)
    BY <1>3 DEF SetStake
  <2>2. PICK new : new = [goal[g].row EXCEPT !.stake = stake, !.token = token]
    OBVIOUS
  <2>3. /\ new \in Fields /\ new.token = token
        /\ \A f \in FieldNames \ {"stake", "token"} : new[f] = goal[g].row[f]
    BY <1>0, <2>2 DEF Fields, FieldNames
  <2>4. Request(c, "SetStake", "allowance", g, new, {"stake", "token"}, token, 0)
    BY <2>1, <2>2
  <2> QED
    BY <1>0, <2>3, <2>4, RequestStep DEF FieldNames
<1>4. ASSUME NEW c \in EditClients, ArchiveGoal(c) PROVE StakeInv'
  <2>1. PICK g \in DOMAIN goal :
          Request(c, "ArchiveGoal", "write", g, goal[g].row, {}, goal[g].row.token, 0)
    BY <1>4 DEF ArchiveGoal
  <2>2. goal[g].row \in Fields /\ goal[g].row.token \in Tokens
    BY <1>0 DEF Fields
  <2> QED
    BY <1>0, <2>1, <2>2, RequestStep
<1>5. ASSUME NEW c \in EditClients, RecordApproval(c) PROVE StakeInv'
  <2>1. PICK token \in Tokens, told \in Amount :
          Request(c, "RecordApproval", IF live THEN "allowance" ELSE "cache", 0, AnyFields, {}, token, told)
    BY <1>5 DEF RecordApproval
  <2>2. PICK at \in {"allowance", "cache"} : at = IF live THEN "allowance" ELSE "cache"
    OBVIOUS
  <2>3. Request(c, "RecordApproval", at, 0, AnyFields, {}, token, told)
    BY <2>1, <2>2
  <2>4. AnyFields \in Fields
    <3>1. PICK text \in Texts : TRUE
      BY GoalStakeAssumption
    <3>2. [text |-> text, ends |-> text, stake |-> 1, token |-> token] \in Fields
      BY <3>1, GoalStakeAssumption DEF Fields
    <3> QED
      BY <3>2 DEF AnyFields
  <2> QED
    BY <1>0, <2>3, <2>4, RequestStep
<1>6. ASSUME NEW c \in EditClients, GetApprovalStatus(c) PROVE StakeInv'
  <2>1. edits[c] \in Edit /\ edits[c] # NoEdit /\ edits[c].at = "allowance"
    BY <1>0, <1>6 DEF GetApprovalStatus, GoalStakeTypeOK, NoEdit, Edit
  <2>2. CASE live = TRUE
    <3>1. PICK seen \in Amount : seen = allowance[edits[c].token]
      BY <1>0, <2>1 DEF GoalStakeTypeOK, Edit
    <3>2. PICK e : e = [edits[c] EXCEPT !.at = "cache", !.seen = seen]
      OBVIOUS
    <3>3. /\ e \in Edit /\ e.at = "cache"
          /\ e.op = edits[c].op /\ e.goal = edits[c].goal /\ e.new = edits[c].new
          /\ e.changes = edits[c].changes /\ e.checks = edits[c].checks /\ e.token = edits[c].token
          /\ e.unsure = edits[c].unsure /\ e.overtaken = edits[c].overtaken
      BY <1>0, <2>1, <3>1, <3>2 DEF Edit
    <3>4. edits' = [edits EXCEPT ![c] = e] /\ UNCHANGED <<live, goal, cache, allowance, covered, spent>>
      BY <1>6, <2>2, <3>1, <3>2 DEF GetApprovalStatus
    <3>5. EditInv(e)'
      BY <2>1, <3>3, <3>4 DEF EditInv, StakeInv
    <3> QED
      BY <1>0, <3>3, <3>4, <3>5, EditStep DEF GoalStakeTypeOK
  <2>3. CASE live = FALSE
    <3>1. PICK a \in 0 .. NoAmount : a = IF cache[edits[c].token] = NoAmount THEN 0 ELSE cache[edits[c].token]
      BY <1>0, <2>1 DEF GoalStakeTypeOK, Edit
    <3>2. Compare(c, a) /\ UNCHANGED <<live, goal, cache, allowance, spent>>
      BY <1>6, <2>3, <3>1 DEF GetApprovalStatus
    <3> QED
      BY <1>0, <2>1, <3>2, CompareStep DEF GoalStakeTypeOK
  <2> QED
    BY <1>0, <2>2, <2>3 DEF GoalStakeTypeOK
<1>7. ASSUME NEW c \in EditClients, UpsertWalletApproval(c) PROVE StakeInv'
  <2>1. edits[c] \in Edit /\ edits[c].at = "cache"
    BY <1>0, <1>7 DEF UpsertWalletApproval, GoalStakeTypeOK, NoEdit
  <2>2. PICK a \in 0 .. NoAmount : a = edits[c].seen
    BY <2>1 DEF Edit
  <2>3. /\ Compare(c, a) /\ UNCHANGED <<live, goal, allowance, spent>>
        /\ cache' = [cache EXCEPT ![edits[c].token] = a]
    BY <1>7, <2>2 DEF UpsertWalletApproval
  <2> QED
    BY <1>0, <2>1, <2>3, CompareStep DEF GoalStakeTypeOK
<1>8. ASSUME NEW c \in EditClients, EditFails(c) PROVE StakeInv'
  <2>1. spent.faults + 1 \in 0 .. MaxEditFaults
    BY <1>0, <1>8, GoalStakeAssumption DEF EditFails, GoalStakeTypeOK
  <2>2. PICK n \in 0 .. MaxEditFaults : n = spent.faults + 1
    BY <2>1
  <2>3. spent' = [spent EXCEPT !.faults = n]
    BY <1>8, <2>2 DEF EditFails
  <2>4. spent' \in [edits: 0 .. MaxEdits, faults: 0 .. MaxEditFaults, approvals: 0 .. MaxApprovals]
    BY <1>0, <2>3 DEF GoalStakeTypeOK
  <2> QED
    BY <1>0, <1>8, <2>4, EditStep DEF EditFails, Respond, GoalStakeTypeOK
<1>9. CASE AllowanceChanges
  <2>1. spent.approvals + 1 \in 0 .. MaxApprovals
    BY <1>0, <1>9, GoalStakeAssumption DEF AllowanceChanges, GoalStakeTypeOK
  <2>2. PICK n \in 0 .. MaxApprovals : n = spent.approvals + 1
    BY <2>1
  <2>3. spent' = [spent EXCEPT !.approvals = n]
    BY <1>9, <2>2 DEF AllowanceChanges
  <2>4. spent' \in [edits: 0 .. MaxEdits, faults: 0 .. MaxEditFaults, approvals: 0 .. MaxApprovals]
    BY <1>0, <2>3 DEF GoalStakeTypeOK
  <2>5. allowance' \in [Tokens -> Amount] /\ UNCHANGED <<live, goal, cache, edits, covered>>
    BY <1>0, <1>9 DEF AllowanceChanges, GoalStakeTypeOK
  <2>6. GoalStakeTypeOK'
    BY <1>0, <2>4, <2>5 DEF GoalStakeTypeOK
  <2> QED
    BY <2>5, <2>6 DEF StakeInv, GoalInv, EditInv
<1>10. CASE UNCHANGED stakeVars
  <2>1. GoalStakeTypeOK'
    BY <1>0, <1>10 DEF GoalStakeTypeOK, stakeVars
  <2> QED
    BY <1>10, <2>1 DEF StakeInv, GoalInv, EditInv, stakeVars
<1> QED
  BY <1>1, <1>2, <1>3, <1>4, <1>5, <1>6, <1>7, <1>8, <1>9, <1>10, InsertStep, WriteStep, ArchiveStep
     DEF GoalStakeNext

LEMMA StakeInvariant == GoalStakeSpec => []StakeInv
BY StakeInitInv, StakeStep, PTL DEF GoalStakeSpec

\* Every reachable state of the goals, the allowances and their requests is
\* well-typed.
THEOREM GoalStakeTypeCorrect == GoalStakeSpec => []GoalStakeTypeOK
<1>1. StakeInv => GoalStakeTypeOK
  BY DEF StakeInv
<1> QED
  BY <1>1, StakeInvariant, PTL

\* However many edits of a goal overlap, its stake was once found covered by an
\* allowance of its token, unless UpdateGoal put back one a SetStake had replaced.
THEOREM StakesWereCovered == GoalStakeSpec => []StakeWasCovered
<1>1. StakeInv => StakeWasCovered
  <2> SUFFICES ASSUME StakeInv, NEW g \in DOMAIN goal, ~goal[g].unsure
               PROVE  <<goal[g].row.token, goal[g].row.stake>> \in covered
    BY DEF StakeWasCovered
  <2>1. goal[g] \in GoalRow
    BY DEF StakeInv, GoalStakeTypeOK
  <2>2. goal[g].unsure = FALSE
    BY <2>1 DEF GoalRow
  <2> QED
    BY <2>2 DEF StakeInv, GoalInv
<1> QED
  BY <1>1, StakeInvariant, PTL

\* No edit that is not overtaken changes a field it was not asked to change.
THEOREM EditsAreKept == GoalStakeSpec => []EditsSurvive
<1>1. StakeInv => EditsSurvive
  BY DEF StakeInv, GoalInv, EditsSurvive
<1> QED
  BY <1>1, StakeInvariant, PTL

-----------------------------------------------------------------------------
(* The four components of MCAccounts                                       *)

\* A behaviour of the four side by side is one of each of them: the first state
\* chooses who moves, and the others stutter.
THEOREM ComponentsSideBySide ==
  Spec => SignInSpec /\ CredSpec /\ GoalStakeSpec /\ PenaltiesSpec
<1>1. Init => SignInInit /\ CredInit /\ GoalStakeInit /\ PenaltiesInit
  BY DEF Init
<1>2. [Next]_vars => [SignInNext]_signInVars
  BY DEF Next, vars
<1>3. [Next]_vars => [CredNext]_credVars
  BY DEF Next, vars
<1>4. [Next]_vars => [GoalStakeNext]_stakeVars
  BY DEF Next, vars
<1>5. [Next]_vars => [PenaltiesNext]_penaltyVars
  BY DEF Next, vars
<1> QED
  BY <1>1, <1>2, <1>3, <1>4, <1>5, PTL
     DEF Spec, SignInSpec, CredSpec, GoalStakeSpec, PenaltiesSpec

\* Every variable of the four components holds a value of its table or record,
\* whichever of them moves.
THEOREM AccountsTypeCorrect == Spec => []TypeOK
<1>1. SignInTypeOK /\ CredTypeOK /\ GoalStakeTypeOK /\ PenaltiesTypeOK => TypeOK
  BY DEF TypeOK
<1> QED
  BY <1>1, ComponentsSideBySide, SignInTypeCorrect, CredTypeCorrect,
     GoalStakeTypeCorrect, PenaltiesTypeCorrect, PTL
=============================================================================
