----------------------------- MODULE Penalties -----------------------------
(***************************************************************************)
(* The enforcer client (web3/enforcer.go) and the StakeEnforcer contract   *)
(* (StakeEnforcer.sol). All penalties are sent with one key, each asking   *)
(* the node for the key's next nonce on its own; the contract's owner may  *)
(* rotate the enforcer at any time; tokens differ in how transferFrom      *)
(* reports a failure. Enforcement models what the caller of Penalize does  *)
(* with its result.                                                        *)
(***************************************************************************)
EXTENDS Naturals, FiniteSets

CONSTANTS
  Penalties,     \* calls of Penalize, one unit of a token each
  SignKeys,      \* keys the owner may give the enforcer's role to
  Coins,         \* tokens, named after what their transferFrom does
  Approved,      \* the wallet's allowance of each
  MaxChanges, MaxNodeFaults  \* bounds

\* Where it may move the tokens, transferFrom returns true, but "empty" returns
\* nothing; where it may not, it reverts, but "false" returns false.
CoinKinds == {"true", "empty", "false"}

ASSUME PenaltiesAssumption ==
  /\ Coins \subseteq CoinKinds /\ Coins # {} /\ IsFiniteSet(Penalties)
  /\ {Approved, MaxChanges, MaxNodeFaults} \subseteq Nat

VARIABLES
  enforcer,    \* of the contract
  signer,      \* the key of the running backend
  sends,       \* the calls of Penalize
  txs,         \* the transaction of each call
  nonce,       \* the mined transactions of each key
  left,        \* the allowance
  balance,     \* of the user, the contract and the burn address
  changes, nodeFaults

penaltyVars == <<enforcer, signer, sends, txs, nonce, left, balance, changes, nodeFaults>>

NoSigner == "stopped"
Send == [at: {"idle", "estimate", "nonce", "send", "wait", "done"}, coin: Coins, nonce: Nat,
         result: {"none", "charged", "failed"}, told: BOOLEAN]
NoTransaction == [key |-> NoSigner, nonce |-> 0, state |-> "none"]
Transaction == [key: SignKeys \union {NoSigner}, nonce: Nat,
                state: {"none", "pool", "moved", "reverted", "replaced"}]

PenaltiesTypeOK ==
  /\ enforcer \in SignKeys /\ signer \in SignKeys \union {NoSigner}
  /\ sends \in [Penalties -> Send]
  /\ txs \in [Penalties -> Transaction]
  /\ nonce \in [SignKeys -> Nat]
  /\ left \in [Coins -> 0 .. Approved]
  /\ balance \in [{"user", "contract", "burn"} -> Nat]

PenaltiesInit ==
  /\ enforcer \in SignKeys /\ signer = NoSigner
  /\ sends = [p \in Penalties |-> [at |-> "idle", coin |-> CHOOSE coin \in Coins : TRUE, nonce |-> 0,
                                   result |-> "none", told |-> FALSE]]
  /\ txs = [p \in Penalties |-> NoTransaction]
  /\ nonce = [k \in SignKeys |-> 0]
  /\ left = [coin \in Coins |-> Approved]
  /\ balance = [user |-> Approved * Cardinality(Coins), contract |-> 0, burn |-> 0]
  /\ changes = 0 /\ nodeFaults = 0

\* NewEnforcer refuses to start unless the contract's enforcer is its own key.
NewEnforcer(k) ==
  /\ signer = NoSigner /\ enforcer = k
  /\ signer' = k
  /\ UNCHANGED <<enforcer, sends, txs, nonce, left, balance, changes, nodeFaults>>

\* The contract: what transferFrom answers, and what penalize makes of it.
TransferFrom(coin) ==
  IF left[coin] > 0 THEN [ok |-> TRUE, ret |-> IF coin = "empty" THEN "" ELSE "true"]
  ELSE IF coin = "false" THEN [ok |-> TRUE, ret |-> "false"]
  ELSE [ok |-> FALSE, ret |-> ""]
\* Mutant for ExecutedIsBurned: what the token returns is not looked at.
UnsafeTransferFrom(coin) == TransferFrom(coin).ok

SafeTransferFrom(coin) ==
  LET answer == TransferFrom(coin) IN answer.ok /\ (answer.ret = "" \/ answer.ret = "true")
Penalizes(sender, coin) == sender = enforcer /\ SafeTransferFrom(coin)

Begin(p) ==
  /\ sends[p].at = "idle" /\ signer # NoSigner
  /\ \E coin \in Coins : sends' = [sends EXCEPT ![p].at = "estimate", ![p].coin = coin]
  /\ UNCHANGED <<enforcer, signer, txs, nonce, left, balance, changes, nodeFaults>>

\* A result; told: it is what the node answered.
Result(p, result, told) ==
  sends' = [sends EXCEPT ![p].at = "done", ![p].result = result, ![p].told = told]

\* Transact first has the node estimate the gas, which fails if the call would.
EstimateGas(p) ==
  /\ sends[p].at = "estimate"
  /\ IF Penalizes(signer, sends[p].coin)
     THEN sends' = [sends EXCEPT ![p].at = "nonce"]
     ELSE Result(p, "failed", TRUE)
  /\ UNCHANGED <<enforcer, signer, txs, nonce, left, balance, changes, nodeFaults>>

Pool(k, n) == {q \in Penalties : txs[q] = [key |-> k, nonce |-> n, state |-> "pool"]}

\* The first nonce after the mined ones that no waiting transaction has.
PendingNonceAt(p) ==
  /\ sends[p].at = "nonce"
  /\ \E n \in nonce[signer] .. nonce[signer] + Cardinality(Penalties) :
       /\ Pool(signer, n) = {}
       /\ \A i \in nonce[signer] .. n - 1 : Pool(signer, i) # {}
       /\ sends' = [sends EXCEPT ![p].at = "send", ![p].nonce = n]
  /\ UNCHANGED <<enforcer, signer, txs, nonce, left, balance, changes, nodeFaults>>

\* The node takes a transaction with a used nonce for stale, and one with the
\* nonce of another in the pool either for underpriced or for its replacement.
Refuses(p) ==
  sends[p].nonce < nonce[signer] \/ Pool(signer, sends[p].nonce) # {}
Accept(p) ==
  /\ sends[p].nonce >= nonce[signer]
  /\ txs' = [q \in Penalties |->
       IF q = p THEN [key |-> signer, nonce |-> sends[p].nonce, state |-> "pool"]
       ELSE IF q \in Pool(signer, sends[p].nonce) THEN [txs[q] EXCEPT !.state = "replaced"]
       ELSE txs[q]]

SendTransaction(p) ==
  /\ sends[p].at = "send"
  /\ \/ Refuses(p) /\ Result(p, "failed", TRUE) /\ UNCHANGED txs
     \/ Accept(p) /\ sends' = [sends EXCEPT ![p].at = "wait"]
  /\ UNCHANGED <<enforcer, signer, nonce, left, balance, changes, nodeFaults>>

\* The transaction is accepted and the answer lost.
SendUnanswered(p) ==
  /\ sends[p].at = "send" /\ nodeFaults < MaxNodeFaults
  /\ Accept(p) /\ Result(p, "failed", FALSE)
  /\ nodeFaults' = nodeFaults + 1
  /\ UNCHANGED <<enforcer, signer, nonce, left, balance, changes>>

\* The transactions of a key are mined in the order of their nonces.
Mine(q) ==
  LET key == txs[q].key
      coin == sends[q].coin
      done == Penalizes(key, coin)
  IN  /\ txs[q].state = "pool" /\ txs[q].nonce = nonce[key]
      /\ nonce' = [nonce EXCEPT ![key] = @ + 1]
      /\ txs' = [txs EXCEPT ![q].state = IF done THEN "moved" ELSE "reverted"]
      /\ IF done /\ left[coin] > 0
         THEN /\ left' = [left EXCEPT ![coin] = @ - 1]
              /\ balance' = [balance EXCEPT !["user"] = @ - 1, !["burn"] = @ + 1]
         ELSE UNCHANGED <<left, balance>>
      /\ UNCHANGED <<enforcer, signer, sends, changes, nodeFaults>>

\* Mutant for EndsUnlessReplaced: a reverted transaction is waited for longer.
WaitMoved(p) ==
  /\ sends[p].at = "wait" /\ txs[p].state = "moved"
  /\ Result(p, "charged", TRUE)
  /\ UNCHANGED <<enforcer, signer, txs, nonce, left, balance, changes, nodeFaults>>

\* Mutant for ResultMatchesChain: the status of the receipt is not looked at.
WaitMinedAnyStatus(p) ==
  /\ sends[p].at = "wait" /\ txs[p].state \in {"moved", "reverted"}
  /\ Result(p, "charged", TRUE)
  /\ UNCHANGED <<enforcer, signer, txs, nonce, left, balance, changes, nodeFaults>>

\* WaitMined, then PenaltyReceiptResult.
WaitMined(p) ==
  /\ sends[p].at = "wait" /\ txs[p].state \in {"moved", "reverted"}
  /\ Result(p, IF txs[p].state = "moved" THEN "charged" ELSE "failed", TRUE)
  /\ UNCHANGED <<enforcer, signer, txs, nonce, left, balance, changes, nodeFaults>>

\* A call to the node fails, or the context is cancelled while it waits.
NodeFails(p) ==
  /\ sends[p].at \notin {"idle", "done"} /\ nodeFaults < MaxNodeFaults
  /\ Result(p, "failed", FALSE)
  /\ nodeFaults' = nodeFaults + 1
  /\ UNCHANGED <<enforcer, signer, txs, nonce, left, balance, changes>>

\* The backend stops; the calls in progress are gone without a result.
Close ==
  /\ signer # NoSigner /\ nodeFaults < MaxNodeFaults
  /\ signer' = NoSigner
  /\ sends' = [p \in Penalties |-> IF sends[p].at = "idle" THEN sends[p]
                                   ELSE [sends[p] EXCEPT !.at = "done"]]
  /\ nodeFaults' = nodeFaults + 1
  /\ UNCHANGED <<enforcer, txs, nonce, left, balance, changes>>

SetEnforcer(k) ==
  /\ changes < MaxChanges /\ k # enforcer
  /\ enforcer' = k
  /\ changes' = changes + 1
  /\ UNCHANGED <<signer, sends, txs, nonce, left, balance, nodeFaults>>

\* The user withdraws the approval of a coin.
Withdraw(coin) ==
  /\ changes < MaxChanges
  /\ left' = [left EXCEPT ![coin] = 0]
  /\ changes' = changes + 1
  /\ UNCHANGED <<enforcer, signer, sends, txs, nonce, balance, nodeFaults>>

PenaltiesNext ==
  \/ \E k \in SignKeys : NewEnforcer(k) \/ SetEnforcer(k)
  \/ \E p \in Penalties :
       \/ Begin(p) \/ EstimateGas(p) \/ PendingNonceAt(p) \/ SendTransaction(p)
       \/ SendUnanswered(p) \/ Mine(p) \/ WaitMined(p) \/ NodeFails(p)
  \/ \E coin \in Coins : Withdraw(coin)
  \/ Close

\* The chain goes on mining, and a call that can take its next step takes it.
PenaltiesFairness ==
  \A p \in Penalties :
    /\ WF_penaltyVars(Mine(p))
    /\ WF_penaltyVars(EstimateGas(p) \/ PendingNonceAt(p) \/ SendTransaction(p) \/ WaitMined(p))

PenaltiesSpec == PenaltiesInit /\ [][PenaltiesNext]_penaltyVars /\ PenaltiesFairness

(***************************************************************************)
(* Properties                                                              *)
(***************************************************************************)

Moved == {p \in Penalties : txs[p].state = "moved"}

\* Whichever transactions collide on a nonce, replace each other or revert after
\* a rotation: "charged" means that the call's own transaction was executed, and
\* a failure the node reported means that it never is.
ResultMatchesChain ==
  \A p \in Penalties :
    /\ sends[p].result = "charged" => p \in Moved
    /\ sends[p].result = "failed" /\ sends[p].told => txs[p].state \in {"none", "reverted"}

\* Every executed penalty has burned one unit, however the token reports
\* failures, and nothing else has moved (StakeEnforcer.sol:15 "forfeited funds
\* can ONLY go to {BURN}", :17 "the contract never takes custody").
ExecutedIsBurned ==
  /\ balance["burn"] = Cardinality(Moved) /\ balance["contract"] = 0
  /\ balance["user"] + balance["burn"] = Approved * Cardinality(Coins)
  /\ \A coin \in Coins : Cardinality({p \in Moved : sends[p].coin = coin}) <= Approved

\* A call of Penalize ends, unless its transaction was replaced by that of
\* another call with the same nonce, which it then waits for in vain.
EndsUnlessReplaced ==
  \A p \in Penalties :
    sends[p].at = "estimate" ~> sends[p].at = "done" \/ txs[p].state = "replaced"
=============================================================================
