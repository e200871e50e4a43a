-------------------------------- MODULE Chat --------------------------------
(***************************************************************************)
(* A chat with the AI goal manager (ai/manager.go), for whoever sends the  *)
(* request: the question is stored, the model is asked in a few rounds and *)
(* may call tools in each, which act on the user's goals at once, and the  *)
(* answer is stored last. Any call of the store or of the model may fail.  *)
(*                                                                         *)
(* Jobs are the requests the backend works on; Assistant adds those that   *)
(* come through Telegram.                                                  *)
(***************************************************************************)
EXTENDS Naturals, Sequences, FiniteSets

CONSTANTS
  Users,
  Rounds,             \* of asking the model: 4
  MaxCalls, MaxAsks   \* bounds: tool calls of a round, chats not through Telegram

NoUser == "nobody"

ASSUME ChatAssumption ==
  Rounds \in Nat \ {0} /\ {MaxCalls, MaxAsks} \subseteq Nat /\ NoUser \notin Users

VARIABLES
  jobs,           \* every request so far
  conversations   \* tables conversations and messages

chatVars == <<jobs, conversations>>

Ended == {"done", "failed"}

\* A request: the update it is for, 0 without one; the step it is at; for whom
\* it acts; its conversation, 0 for a new one; the round it is in, the tool
\* calls left in it, and those that have acted.
Job == [update: Nat, kind: {"link", "command", "text", "audio"},
        at: {"consume", "upsert", "resolve", "act", "transcribe", "conversation", "question",
             "model", "tools", "answer", "respond"} \union Ended,
        user: Users \union {NoUser}, code: Nat, conversation: Nat,
        round: 1 .. Rounds, calls: 0 .. MaxCalls, acted: Nat]

\* The messages of a conversation name the request that stored them.
Message == [role: {"user", "assistant"}, of: Nat]
Conversation == [owner: Users, messages: Seq(Message)]

NewJob(update, kind, at, user, code, conversation) ==
  [update |-> update, kind |-> kind, at |-> at, user |-> user, code |-> code,
   conversation |-> conversation, round |-> 1, calls |-> 0, acted |-> 0]

Goes(j, at) == jobs' = [jobs EXCEPT ![j].at = at]
\* Rounds and calls no longer count.
Ends(j, at) == jobs' = [jobs EXCEPT ![j].at = at, ![j].round = 1, ![j].calls = 0]

\* POST /chat and /chat/audio: the user may name any conversation.
AskChat ==
  /\ Cardinality({j \in DOMAIN jobs : jobs[j].update = 0}) < MaxAsks
  /\ \E u \in Users, k \in 0 .. Len(conversations), kind \in {"text", "audio"} :
       jobs' = Append(jobs, NewJob(0, kind, IF kind = "audio" THEN "transcribe" ELSE "conversation",
                                   u, 0, k))
  /\ UNCHANGED conversations

Transcribe(j) ==
  /\ jobs[j].at = "transcribe"
  /\ Goes(j, "conversation")
  /\ UNCHANGED conversations

CreateConversation(j) ==
  /\ jobs[j].at = "conversation" /\ jobs[j].conversation = 0
  /\ conversations' = Append(conversations, [owner |-> jobs[j].user, messages |-> <<>>])
  /\ jobs' = [jobs EXCEPT ![j].at = "question", ![j].conversation = Len(conversations')]

\* Mutant for ChatsLeaveATrail: the conversation may be another user's.
GetAnyConversation(j) ==
  /\ jobs[j].at = "conversation" /\ jobs[j].conversation # 0
  /\ Goes(j, "question")
  /\ UNCHANGED conversations

GetConversation(j) ==
  /\ jobs[j].at = "conversation" /\ jobs[j].conversation # 0
  /\ Goes(j, IF conversations[jobs[j].conversation].owner = jobs[j].user
             THEN "question" ELSE "failed")
  /\ UNCHANGED conversations

Store(j, role) ==
  conversations' = [conversations EXCEPT ![jobs[j].conversation].messages =
                      Append(@, [role |-> role, of |-> j])]

AppendQuestion(j) ==
  /\ jobs[j].at = "question"
  /\ Store(j, "user") /\ Goes(j, "model")

\* The model answers, or calls tools. A blank answer is an error, see Fail.
CreateChatCompletion(j) ==
  /\ jobs[j].at = "model"
  /\ \/ Goes(j, "answer")
     \/ \E n \in 1 .. MaxCalls : jobs' = [jobs EXCEPT ![j].at = "tools", ![j].calls = n]
  /\ UNCHANGED conversations

\* Mutant for TypeOK: a round too many.
PastLastRound(round) == round > Rounds

LastRound(round) == round = Rounds

\* A tool acts, or only reads or fails, which is a result like any other. The
\* calls of the last round are executed too, and then there is no answer.
DispatchTool(j) ==
  LET job == jobs[j]
      last == job.calls = 1
  IN  /\ job.at = "tools"
      /\ \E acts \in 0 .. 1 :
           jobs' = [jobs EXCEPT ![j] =
             [job EXCEPT !.calls = @ - 1, !.acted = @ + acts,
                         !.at = CASE ~last -> "tools"
                                  [] last /\ LastRound(job.round) -> "failed"
                                  [] OTHER -> "model",
                         !.round = CASE ~last -> @
                                     [] last /\ LastRound(job.round) -> 1
                                     [] OTHER -> @ + 1]]
      /\ UNCHANGED conversations

AppendAnswer(j) ==
  /\ jobs[j].at = "answer"
  /\ Store(j, "assistant") /\ Goes(j, "respond")

Respond(j) ==
  /\ jobs[j].at = "respond"
  /\ Ends(j, "done")
  /\ UNCHANGED conversations

\* A call fails, an answer of the model is blank, the response is lost, or the
\* client of the request has gone and its context is cancelled.
Fail(j) ==
  /\ jobs[j].at \notin Ended
  /\ Ends(j, "failed")
  /\ UNCHANGED conversations

ChatStep(j) ==
  \/ Transcribe(j) \/ CreateConversation(j) \/ GetConversation(j) \/ AppendQuestion(j)
  \/ CreateChatCompletion(j) \/ DispatchTool(j) \/ AppendAnswer(j) \/ Respond(j) \/ Fail(j)

ChatNext == AskChat \/ \E j \in DOMAIN jobs : ChatStep(j)

(***************************************************************************)
(* Properties                                                              *)
(***************************************************************************)

Chats == {j \in DOMAIN jobs : jobs[j].kind \in {"text", "audio"}}
Stores(k, i, role, j) == conversations[k].messages[i] = [role |-> role, of |-> j]

\* However chats of a conversation overlap and wherever they fail: a tool acts
\* for a user only once the question that led to it is in a conversation of that
\* user; an answer is stored once, behind its own question; a chat that is
\* answered has stored its answer; and a chat acts at most once for each call
\* the model may make in its rounds.
ChatsLeaveATrail ==
  /\ \A j \in Chats :
       LET k == jobs[j].conversation IN
       /\ jobs[j].acted > 0 => \E i \in DOMAIN conversations[k].messages : Stores(k, i, "user", j)
       /\ jobs[j].at = "done" /\ k # 0 =>
            \E i \in DOMAIN conversations[k].messages : Stores(k, i, "assistant", j)
       /\ jobs[j].acted <= Rounds * MaxCalls
  /\ \A k \in DOMAIN conversations : \A i \in DOMAIN conversations[k].messages :
       LET j == conversations[k].messages[i].of IN
       /\ conversations[k].owner = jobs[j].user
       /\ Stores(k, i, "assistant", j) =>
            /\ \E h \in 1 .. i - 1 : Stores(k, h, "user", j)
            /\ \A h \in 1 .. i - 1 : ~Stores(k, h, "assistant", j)
=============================================================================
