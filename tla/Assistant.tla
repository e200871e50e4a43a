----------------------------- MODULE Assistant -----------------------------
(***************************************************************************)
(* The Telegram bot and the backend behind it: Telegram's queue of         *)
(* updates, the bot that polls it, handles one update after another and    *)
(* confirms them by the offset of its next poll (telegram-bot/cmd), the    *)
(* requests it makes of the backend and gives up after 20 seconds, and     *)
(* what the backend does for them (router.go, service.go): link codes,     *)
(* linked chats, commands, and chats with the AI manager (Chat).           *)
(***************************************************************************)
EXTENDS Chat

CONSTANTS
  TelegramChats,
  MaxUpdates, MaxCodes, MaxLives  \* bounds

ASSUME AssistantAssumption == {MaxUpdates, MaxCodes, MaxLives} \subseteq Nat

VARIABLES
  updates,    \* everything sent to the bot; an update's id is its position
  confirmed,  \* the updates Telegram has dropped
  bot,        \* offset, next and last are those of poll; job: the awaited request
  lives,      \* how often the bot has been started
  handled,    \* history: updates the bot is done with
  codes,      \* table telegram_link_codes
  links,      \* table telegram_links: the user of each chat
  linked      \* history: every link ever stored, with its code

vars == <<jobs, conversations, updates, confirmed, bot, lives, handled, codes, links, linked>>

\* "other" has no message and no text, "help" is answered by the bot alone. The
\* other commands, own-agent links included, act by one call of the service.
Update == [chat: TelegramChats, kind: {"other", "help", "link", "command", "text", "audio"},
           code: 0 .. MaxCodes]
Bot == [at: {"down", "poll", "next", "wait", "send"}, offset: 0 .. MaxUpdates + 1,
        next: 1 .. MaxUpdates + 1, last: 0 .. MaxUpdates, job: Nat]

\* Every variable holds a value of its table or record; no field is out of its range.
TypeOK ==
  /\ jobs \in Seq(Job)
  /\ conversations \in Seq(Conversation)
  /\ updates \in Seq(Update) /\ confirmed \in 0 .. Len(updates)
  /\ bot \in Bot /\ lives \in 0 .. MaxLives
  /\ handled \subseteq DOMAIN updates
  /\ codes \in Seq([owner: Users, used: BOOLEAN])
  /\ links \in [TelegramChats -> Users \union {NoUser}]
  /\ linked \subseteq [code: DOMAIN codes, chat: TelegramChats, user: Users, job: DOMAIN jobs]

Init ==
  /\ jobs = <<>> /\ conversations = <<>> /\ updates = <<>> /\ confirmed = 0
  /\ bot = [at |-> "down", offset |-> 0, next |-> 1, last |-> 0, job |-> 0]
  /\ lives = 0 /\ handled = {} /\ codes = <<>> /\ linked = {}
  /\ links = [chat \in TelegramChats |-> NoUser]

backendVars == <<codes, links, linked>>
botVars == <<confirmed, bot, lives, handled>>

\* Anybody may send anything to the bot, also a code that has been used.
SendUpdate ==
  /\ Len(updates) < MaxUpdates
  /\ \E u \in Update :
       /\ IF u.kind = "link" THEN u.code \in DOMAIN codes ELSE u.code = 0
       /\ updates' = Append(updates, u)
  /\ UNCHANGED <<chatVars, botVars, backendVars>>

CreateTelegramLinkCode(u) ==
  /\ Len(codes) < MaxCodes
  /\ codes' = Append(codes, [owner |-> u, used |-> FALSE])
  /\ UNCHANGED <<chatVars, updates, botVars, links, linked>>

(***************************************************************************)
(* The bot                                                                 *)
(***************************************************************************)

\* It remembers nothing.
Start ==
  /\ bot.at = "down" /\ lives < MaxLives
  /\ bot' = [at |-> "poll", offset |-> 0, next |-> 1, last |-> 0, job |-> 0]
  /\ lives' = lives + 1
  /\ UNCHANGED <<chatVars, updates, confirmed, handled, backendVars>>

\* Killed or interrupted: once its context is cancelled, nothing it still tries
\* succeeds before it returns.
Stop ==
  /\ bot.at # "down"
  /\ bot' = [bot EXCEPT !.at = "down", !.job = 0]
  /\ UNCHANGED <<chatVars, updates, confirmed, lives, handled, backendVars>>

\* Telegram drops the updates before the offset and returns the rest; its answer
\* may be lost.
GetUpdates ==
  /\ bot.at = "poll"
  /\ confirmed' = IF bot.offset > confirmed + 1 THEN bot.offset - 1 ELSE confirmed
  /\ \/ bot' = [bot EXCEPT !.at = "next", !.next = confirmed' + 1, !.last = Len(updates)]
     \/ UNCHANGED bot
  /\ UNCHANGED <<chatVars, updates, lives, handled, backendVars>>

\* Done with the update.
Finish == handled' = handled \union {bot.next}
Following == [bot EXCEPT !.at = "next", !.next = @ + 1, !.job = 0]

\* Mutant for OncePerLife: the offset is the last update's own.
OffsetAt(u) == u

\* The offset passes the update before it is handled.
OffsetAfter(u) == IF u >= bot.offset THEN u + 1 ELSE bot.offset

EndBatch ==
  /\ bot.at = "next" /\ bot.next > bot.last
  /\ bot' = [bot EXCEPT !.at = "poll"]
  /\ UNCHANGED <<chatVars, updates, confirmed, lives, handled, backendVars>>

\* An update without a message, or one whose file cannot be fetched.
SkipUpdate ==
  LET u == bot.next IN
  /\ bot.at = "next" /\ u <= bot.last
  /\ updates[u].kind \in {"other", "audio"}
  /\ Finish
  /\ bot' = [Following EXCEPT !.offset = OffsetAfter(u)]
  /\ UNCHANGED <<chatVars, updates, confirmed, lives, backendVars>>

Help ==
  LET u == bot.next IN
  /\ bot.at = "next" /\ u <= bot.last
  /\ updates[u].kind = "help"
  /\ bot' = [bot EXCEPT !.at = "send", !.offset = OffsetAfter(u)]
  /\ UNCHANGED <<chatVars, updates, confirmed, lives, handled, backendVars>>

Handle ==
  LET u == bot.next
      kind == updates[u].kind
  IN  /\ bot.at = "next" /\ u <= bot.last
      /\ kind \in {"link", "command", "text", "audio"}
      /\ jobs' = Append(jobs, NewJob(u, kind, IF kind = "link" THEN "consume" ELSE "resolve",
                                     NoUser, updates[u].code, 0))
      /\ bot' = [bot EXCEPT !.at = "wait", !.job = Len(jobs'), !.offset = OffsetAfter(u)]
      /\ UNCHANGED <<conversations, updates, confirmed, lives, handled, backendVars>>

\* Mutant for UpdatesAreHandled: the client has no timeout.
ReceiveAnswer ==
  /\ bot.at = "wait" /\ jobs[bot.job].at \in Ended
  /\ bot' = [bot EXCEPT !.at = "send"]
  /\ UNCHANGED <<chatVars, updates, confirmed, lives, handled, backendVars>>

\* The answer comes, or the time is up and an error is reported instead. The
\* backend may go on for a while, until a call notices the cancelled context.
Receive ==
  /\ bot.at = "wait"
  /\ bot' = [bot EXCEPT !.at = "send"]
  /\ UNCHANGED <<chatVars, updates, confirmed, lives, handled, backendVars>>

\* A failure to send is logged, and the bot goes on.
SendMessage ==
  /\ bot.at = "send"
  /\ Finish /\ bot' = Following
  /\ UNCHANGED <<chatVars, updates, confirmed, lives, backendVars>>

(***************************************************************************)
(* The backend                                                             *)
(***************************************************************************)

ChatOf(j) == updates[jobs[j].update].chat

\* Mutant for ChatsActForTheirUsers: a used code is consumed again.
ConsumeAnyTelegramLinkCode(j) ==
  /\ jobs[j].at = "consume"
  /\ jobs' = [jobs EXCEPT ![j].at = "upsert", ![j].user = codes[jobs[j].code].owner]
  /\ codes' = [codes EXCEPT ![jobs[j].code].used = TRUE]
  /\ UNCHANGED <<conversations, updates, botVars, links, linked>>

\* A code is also refused once it has expired, which is one of Fail's causes.
ConsumeTelegramLinkCode(j) ==
  LET code == jobs[j].code IN
  /\ jobs[j].at = "consume"
  /\ IF codes[code].used
     THEN Goes(j, "failed") /\ UNCHANGED codes
     ELSE /\ jobs' = [jobs EXCEPT ![j].at = "upsert", ![j].user = codes[code].owner]
          /\ codes' = [codes EXCEPT ![code].used = TRUE]
  /\ UNCHANGED <<conversations, updates, botVars, links, linked>>

UpsertTelegramLink(j) ==
  /\ jobs[j].at = "upsert"
  /\ links' = [links EXCEPT ![ChatOf(j)] = jobs[j].user]
  /\ linked' = linked \union
       {[code |-> jobs[j].code, chat |-> ChatOf(j), user |-> jobs[j].user, job |-> j]}
  /\ Goes(j, "respond")
  /\ UNCHANGED <<conversations, updates, botVars, codes>>

\* A chat without a link is told to link itself.
ResolveTelegramChat(j) ==
  LET user == links[ChatOf(j)]
      first == CASE jobs[j].kind = "command" -> "act"
                 [] jobs[j].kind = "audio" -> "transcribe"
                 [] OTHER -> "conversation"
  IN  /\ jobs[j].at = "resolve"
      /\ jobs' = [jobs EXCEPT ![j].at = IF user = NoUser THEN "respond" ELSE first,
                              ![j].user = user]
      /\ UNCHANGED <<conversations, updates, botVars, backendVars>>

Act(j) ==
  /\ jobs[j].at = "act"
  /\ jobs' = [jobs EXCEPT ![j].at = "respond", ![j].acted = 1]
  /\ UNCHANGED <<conversations, updates, botVars, backendVars>>

BotStep ==
  \/ GetUpdates \/ EndBatch \/ SkipUpdate \/ Help \/ Handle \/ Receive \/ SendMessage

TelegramNext ==
  \/ SendUpdate \/ Start \/ Stop \/ BotStep
  \/ \E u \in Users : CreateTelegramLinkCode(u)
  \/ \E j \in DOMAIN jobs :
       \/ ChatStep(j) /\ UNCHANGED <<updates, botVars, backendVars>>
       \/ ConsumeTelegramLinkCode(j) \/ UpsertTelegramLink(j)
       \/ ResolveTelegramChat(j) \/ Act(j)

Next == TelegramNext \/ (AskChat /\ UNCHANGED <<updates, botVars, backendVars>>)

\* A running bot goes on; nothing is assumed of the backend, the model, or of
\* whoever starts the bot again.
Spec == Init /\ [][Next]_vars /\ WF_vars(BotStep)

(***************************************************************************)
(* Properties                                                              *)
(***************************************************************************)

\* Every update is dealt with as long as the bot runs, even if the backend never
\* answers a request, and none is dropped before.
UpdatesAreHandled ==
  \A u \in 1 .. MaxUpdates :
    u \in DOMAIN updates /\ bot.at # "down" ~> u \in handled \/ bot.at = "down"

\* An update is sent to the backend once in each life of the bot: only a restart
\* repeats what it asks for.
OncePerLife ==
  \A u \in DOMAIN updates : Cardinality({j \in DOMAIN jobs : jobs[j].update = u}) <= lives

\* A code links one chat, for its owner, also when requests that carry it overlap,
\* fail half-way and are repeated; and nothing that is sent in a chat acts for a
\* user whose code has not been sent there.
ChatsActForTheirUsers ==
  /\ \A x, y \in linked : x.code = y.code => x = y
  /\ \A x \in linked : codes[x.code].owner = x.user
  /\ \A j \in DOMAIN jobs : jobs[j].update # 0 /\ jobs[j].kind # "link" /\ jobs[j].user # NoUser =>
       \E x \in linked : x.chat = ChatOf(j) /\ x.user = jobs[j].user
=============================================================================
