----------------------------- MODULE GoalStake -----------------------------
(***************************************************************************)
(* Goals and the allowance behind their stakes (service.go). A stake is    *)
(* accepted when the wallet's allowance covers it: read from the chain,    *)
(* cached, compared, and only then is the goal written. UpdateGoal and     *)
(* SetStake write back, from the goal they read first, every field they    *)
(* were not asked to change.                                               *)
(*                                                                         *)
(* One user; Enforcement models ownership. A step is one store or RPC call.*)
(* A request whose input is refused changes nothing and is left out.       *)
(***************************************************************************)
EXTENDS Naturals, Sequences

CONSTANTS
  EditClients,
  Tokens,      \* configured pairs of chain and token
  Texts,       \* titles with descriptions, and deadlines
  MaxAmount,   \* of a stake or an allowance
  MaxGoals, MaxEdits, MaxEditFaults, MaxApprovals  \* bounds

ASSUME GoalStakeAssumption ==
  /\ {MaxAmount, MaxGoals, MaxEdits, MaxEditFaults, MaxApprovals} \subseteq Nat
  /\ MaxAmount > 0 /\ Texts # {}

VARIABLES
  live,       \* approvalChecker is configured
  goal,       \* table goals
  cache,      \* table wallet_approvals: the cached allowance of each token
  allowance,  \* the allowance on chain
  edits,      \* the request each client waits for
  covered,    \* history: the stakes some check has found covered
  spent       \* requests, faults and approvals so far

stakeVars == <<live, goal, cache, allowance, edits, covered, spent>>

Amount == 0 .. MaxAmount
NoAmount == MaxAmount + 1  \* no row
NoEdit == [at |-> "idle"]

\* A goal. want (history): its fields, had each edit changed only those it was
\* asked to change; a write that another edit has overtaken is taken as it is.
\* unsure (history): that other edit was a SetStake, and the stake the write
\* put back has not been checked since.
Fields == [text: Texts, ends: Texts, stake: 1 .. MaxAmount, token: Tokens]
GoalRow == [row: Fields, want: Fields, archived: BOOLEAN, unsure: BOOLEAN]

\* A request: the goal it is about, 0 for a new one; the fields it will write;
\* those it is asked to change; the token and allowance it looks at; whether its
\* goal was unsure when it read it, and the edits of the goal that were written
\* since (history).
Edit == [op: {"CreateGoal", "UpdateGoal", "SetStake", "ArchiveGoal", "RecordApproval"},
         at: {"allowance", "cache", "write"}, goal: 0 .. MaxGoals,
         new: Fields, changes: SUBSET {"text", "ends", "stake", "token"},
         checks: BOOLEAN, token: Tokens, seen: 0 .. NoAmount, unsure: BOOLEAN,
         overtaken: SUBSET {"UpdateGoal", "SetStake"}]

GoalStakeTypeOK ==
  /\ live \in BOOLEAN
  /\ goal \in Seq(GoalRow) /\ Len(goal) <= MaxGoals
  /\ cache \in [Tokens -> 0 .. NoAmount]
  /\ allowance \in [Tokens -> Amount]
  /\ edits \in [EditClients -> Edit \union {NoEdit}]
  /\ covered \subseteq Tokens \X Amount
  /\ spent \in [edits: 0 .. MaxEdits, faults: 0 .. MaxEditFaults, approvals: 0 .. MaxApprovals]

GoalStakeInit ==
  /\ live \in BOOLEAN
  /\ goal = <<>> /\ covered = {}
  /\ cache = [t \in Tokens |-> NoAmount]
  /\ allowance = [t \in Tokens |-> 0]
  /\ edits = [c \in EditClients |-> NoEdit]
  /\ spent = [edits |-> 0, faults |-> 0, approvals |-> 0]

Request(c, op, at, g, new, changes, token, seen) ==
  /\ edits[c] = NoEdit /\ spent.edits < MaxEdits
  /\ edits' = [edits EXCEPT ![c] =
       [op |-> op, at |-> at, goal |-> g, new |-> new, changes |-> changes,
        checks |-> at = "allowance", token |-> token, seen |-> seen,
        unsure |-> IF g = 0 THEN FALSE ELSE goal[g].unsure, overtaken |-> {}]]
  /\ spent' = [spent EXCEPT !.edits = @ + 1]
  /\ UNCHANGED <<live, goal, cache, allowance, covered>>

AnyFields == CHOOSE f \in Fields : TRUE

CreateGoal(c) ==
  /\ Len(goal) < MaxGoals
  /\ \E f \in Fields :
       Request(c, "CreateGoal", "allowance", 0, f, {"text", "ends", "stake", "token"}, f.token, 0)

\* requireGoalOwner reads the goal, which must not be archived. A stake or a
\* deadline that is left out, and the token, stay as they were read.
UpdateGoal(c) ==
  \E g \in DOMAIN goal, text, ends \in Texts, stake \in 1 .. MaxAmount :
  \E kept \in SUBSET {"ends", "stake"} :
    LET old == goal[g].row
        new == [text |-> text, token |-> old.token,
                ends |-> IF "ends" \in kept THEN old.ends ELSE ends,
                stake |-> IF "stake" \in kept THEN old.stake ELSE stake]
    IN  /\ ~goal[g].archived
        /\ Request(c, "UpdateGoal", IF new.stake # old.stake THEN "allowance" ELSE "write", g, new,
                   {"text", "ends", "stake"} \ kept, old.token, 0)

SetStake(c) ==
  \E g \in DOMAIN goal, stake \in 1 .. MaxAmount, token \in Tokens :
    /\ ~goal[g].archived
    /\ Request(c, "SetStake", "allowance", g, [goal[g].row EXCEPT !.stake = stake, !.token = token],
               {"stake", "token"}, token, 0)

ArchiveGoal(c) ==
  \E g \in DOMAIN goal :
    /\ ~goal[g].archived
    /\ Request(c, "ArchiveGoal", "write", g, goal[g].row, {}, goal[g].row.token, 0)

\* With a checker RecordApproval is GetApprovalStatus; without one it stores
\* the allowance it is told.
RecordApproval(c) ==
  \E token \in Tokens, told \in Amount :
    Request(c, "RecordApproval", IF live THEN "allowance" ELSE "cache", 0, AnyFields, {}, token, told)

Respond(c) == edits' = [edits EXCEPT ![c] = NoEdit]

\* Mutant for StakeWasCovered: the goal is written whatever the allowance is.
CompareNothing(c, a) ==
  LET stake == edits[c].new.stake IN
  IF edits[c].op # "RecordApproval"
  THEN /\ edits' = [edits EXCEPT ![c].at = "write"]
       /\ covered' = IF a >= stake THEN covered \union {<<edits[c].token, stake>>} ELSE covered
  ELSE Respond(c) /\ UNCHANGED covered

\* ensureAllowanceCoversStake, once the status is known to be a.
Compare(c, a) ==
  LET stake == edits[c].new.stake IN
  IF edits[c].op # "RecordApproval" /\ a >= stake
  THEN /\ edits' = [edits EXCEPT ![c].at = "write"]
       /\ covered' = covered \union {<<edits[c].token, stake>>}
  ELSE Respond(c) /\ UNCHANGED covered

\* GetApprovalStatus: AllowanceOf, or without a checker the cached row.
GetApprovalStatus(c) ==
  LET e == edits[c] IN
  /\ e.at = "allowance"
  /\ IF live
     THEN /\ edits' = [edits EXCEPT ![c].at = "cache", ![c].seen = allowance[e.token]]
          /\ UNCHANGED covered
     ELSE Compare(c, IF cache[e.token] = NoAmount THEN 0 ELSE cache[e.token])
  /\ UNCHANGED <<live, goal, cache, allowance, spent>>

UpsertWalletApproval(c) ==
  LET e == edits[c] IN
  /\ e.at = "cache"
  /\ cache' = [cache EXCEPT ![e.token] = e.seen]
  /\ Compare(c, e.seen)
  /\ UNCHANGED <<live, goal, allowance, spent>>

InsertGoal(c) ==
  LET e == edits[c] IN
  /\ e.at = "write" /\ e.op = "CreateGoal" /\ Len(goal) < MaxGoals
  /\ goal' = Append(goal, [row |-> e.new, want |-> e.new, archived |-> FALSE, unsure |-> FALSE])
  /\ Respond(c)
  /\ UNCHANGED <<live, cache, allowance, covered, spent>>

\* Mutant for EditsSurvive: SetStake sends its two fields without the others.
WrittenAlone(e) ==
  IF e.op = "SetStake" THEN [AnyFields EXCEPT !.stake = e.new.stake, !.token = e.new.token]
  ELSE [e.new EXCEPT !.token = goal[e.goal].row.token]

\* Mutant for TypeOK: the token that UpdateGoal does not send is stored as it is.
WrittenAny(e) == IF e.op = "SetStake" THEN e.new ELSE [e.new EXCEPT !.token = NoAmount]

\* The statement: UpdateGoal sends no token, which keeps the row's.
Written(e) ==
  IF e.op = "SetStake" THEN e.new ELSE [e.new EXCEPT !.token = goal[e.goal].row.token]

WriteGoal(c) ==
  LET e == edits[c]
      asked == [f \in DOMAIN e.new |-> IF f \in e.changes THEN e.new[f] ELSE goal[e.goal].want[f]]
  IN
  /\ e.at = "write" /\ e.op \in {"UpdateGoal", "SetStake"}
  /\ goal' = [goal EXCEPT ![e.goal] =
       [@ EXCEPT !.row = Written(e),
                 !.want = IF e.overtaken = {} THEN asked ELSE Written(e),
                 !.unsure = /\ e.op = "UpdateGoal"
                            /\ "SetStake" \in e.overtaken \/ (e.unsure /\ ~e.checks)]]
  /\ edits' = [d \in EditClients |->
       CASE d = c -> NoEdit
         [] d # c /\ edits[d] # NoEdit /\ edits[d].goal = e.goal ->
              [edits[d] EXCEPT !.overtaken = @ \union {e.op}]
         [] OTHER -> edits[d]]
  /\ UNCHANGED <<live, cache, allowance, covered, spent>>

StoreArchived(c) ==
  LET e == edits[c] IN
  /\ e.at = "write" /\ e.op = "ArchiveGoal"
  /\ goal' = [goal EXCEPT ![e.goal].archived = TRUE]
  /\ Respond(c)
  /\ UNCHANGED <<live, cache, allowance, covered, spent>>

\* A call fails before it takes effect.
EditFails(c) ==
  /\ edits[c] # NoEdit /\ spent.faults < MaxEditFaults
  /\ Respond(c)
  /\ spent' = [spent EXCEPT !.faults = @ + 1]
  /\ UNCHANGED <<live, goal, cache, allowance, covered>>

\* The owner approves another amount, or a penalty takes some of it.
AllowanceChanges ==
  /\ spent.approvals < MaxApprovals
  /\ \E t \in Tokens, a \in Amount : allowance' = [allowance EXCEPT ![t] = a]
  /\ spent' = [spent EXCEPT !.approvals = @ + 1]
  /\ UNCHANGED <<live, goal, cache, edits, covered>>

GoalStakeNext ==
  \/ \E c \in EditClients :
       \/ CreateGoal(c) \/ UpdateGoal(c) \/ SetStake(c) \/ ArchiveGoal(c) \/ RecordApproval(c)
       \/ GetApprovalStatus(c) \/ UpsertWalletApproval(c)
       \/ InsertGoal(c) \/ WriteGoal(c) \/ StoreArchived(c) \/ EditFails(c)
  \/ AllowanceChanges

GoalStakeSpec == GoalStakeInit /\ [][GoalStakeNext]_stakeVars

(***************************************************************************)
(* Properties                                                              *)
(***************************************************************************)

\* The stake of a goal was found covered by an allowance of the same token,
\* whatever edits overlapped, except where an UpdateGoal wrote back a stake
\* that a SetStake had replaced, token included, since it was read, or kept one
\* that had been written so.
StakeWasCovered ==
  \A g \in DOMAIN goal : ~goal[g].unsure => <<goal[g].row.token, goal[g].row.stake>> \in covered

\* An edit changes no field it was not asked to change, unless another edit of
\* the goal was written between its reading and its writing.
EditsSurvive == \A g \in DOMAIN goal : goal[g].row = goal[g].want
=============================================================================
