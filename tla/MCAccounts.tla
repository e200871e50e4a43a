----------------------------- MODULE MCAccounts -----------------------------
(***************************************************************************)
(* Four components that share no state, checked in one run: the first      *)
(* state of a behaviour chooses the one whose steps it takes, and the      *)
(* others stay in their initial states.                                    *)
(***************************************************************************)
EXTENDS SignIn, Credentials, GoalStake, Penalties

VARIABLE focus

vars == <<focus, signInVars, credVars, stakeVars, penaltyVars>>

\* The components left alone start in any one of their initial states.
First(name, init) == focus # name => init

Init ==
  /\ focus \in {"signIn", "credentials", "goalStake", "penalties"}
  /\ SignInInit /\ CredInit /\ GoalStakeInit /\ PenaltiesInit
  /\ First("goalStake", live)
  /\ First("penalties", enforcer = CHOOSE k \in SignKeys : TRUE)

\* Clients, tokens and texts of goals are interchangeable: the first request, and
\* the goal it creates, may have any fixed ones.
Representative ==
  LET e == edits'[CHOOSE c \in EditClients : TRUE]
      text == CHOOSE x \in Texts : TRUE
  IN  spent'.edits > spent.edits /\ spent.edits = 0 =>
        /\ e # NoEdit /\ e.token = CHOOSE t \in Tokens : TRUE
        /\ e.op = "CreateGoal" => e.new.text = text /\ e.new.ends = text

Next ==
  \/ focus = "signIn" /\ SignInNext /\ UNCHANGED <<focus, credVars, stakeVars, penaltyVars>>
  \/ focus = "credentials" /\ CredNext /\ UNCHANGED <<focus, signInVars, stakeVars, penaltyVars>>
  \/ /\ focus = "goalStake" /\ GoalStakeNext /\ Representative
     /\ UNCHANGED <<focus, signInVars, credVars, penaltyVars>>
  \/ focus = "penalties" /\ PenaltiesNext /\ UNCHANGED <<focus, signInVars, credVars, stakeVars>>

Spec == Init /\ [][Next]_vars /\ PenaltiesFairness

\* Every variable of the four components holds a value of its table or record.
TypeOK == SignInTypeOK /\ CredTypeOK /\ GoalStakeTypeOK /\ PenaltiesTypeOK
=============================================================================
