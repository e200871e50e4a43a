--------------------------- MODULE AssistantProofs ---------------------------
(***************************************************************************)
(* The Telegram bot and the chats, for every number of updates, codes,     *)
(* lives, requests and rounds: an update is sent to the backend once in    *)
(* each life, requests act for the users whose codes were sent in their    *)
(* chat, and a chat leaves its question and answer behind.                 *)
(***************************************************************************)
EXTENDS Assistant, FiniteSetTheorems, SequenceTheorems, TLAPS

(***************************************************************************)
(* The inductive invariant                                                 *)
(***************************************************************************)

JobsFor(u) == {j \in DOMAIN jobs : jobs[j].update = u}

\* The offset of a running bot is not past what it handles next, and what it has
\* not passed yet was sent only in earlier lives.
BotInv ==
  /\ Len(updates) <= MaxUpdates
  /\ bot.last <= Len(updates) /\ bot.offset <= Len(updates) + 1
  /\ bot.at \in {"wait", "send"} => bot.next <= bot.last /\ bot.offset <= bot.next + 1
  /\ bot.at = "next" => bot.offset <= bot.next
  /\ bot.at # "down" => lives > 0
  /\ \A u \in Nat \ {0} :
       /\ Cardinality(JobsFor(u)) <= lives
       /\ bot.at # "down" /\ bot.offset <= u => Cardinality(JobsFor(u)) < lives

\* A code that is linked, or about to be, is used, and by nobody else.
LinkInv ==
  /\ \A u \in DOMAIN updates : updates[u].kind = "link" => updates[u].code \in DOMAIN codes
  /\ \A x \in linked : codes[x.code].owner = x.user /\ codes[x.code].used = TRUE
  /\ \A x, y \in linked : x.code = y.code => x = y
  /\ \A x \in linked : \A j \in DOMAIN jobs : jobs[j].at = "upsert" => x.code # jobs[j].code
  /\ \A i, j \in DOMAIN jobs :
       jobs[i].at = "upsert" /\ jobs[j].at = "upsert" /\ jobs[i].code = jobs[j].code => i = j
  /\ \A chat \in TelegramChats : links[chat] # NoUser =>
       \E x \in linked : x.chat = chat /\ x.user = links[chat]

\* Where a request has a user, a kind and a conversation, and which.
RequestOK(job) ==
  /\ job.update = 0 \/ job.update \in DOMAIN updates
  /\ job.conversation \in 0 .. Len(conversations)
  /\ job.kind = "link" =>
       /\ job.update # 0 /\ job.code \in DOMAIN codes
       /\ job.at \in {"consume", "upsert", "respond", "done", "failed"}
  /\ job.at \in {"consume", "upsert"} => job.kind = "link"
  /\ job.at = "act" => job.kind = "command"
  /\ job.at = "resolve" => job.update # 0
  /\ job.at \in {"transcribe", "conversation", "question", "model", "tools", "answer"} =>
       job.user # NoUser /\ job.kind \in {"text", "audio"}
  /\ job.at \in {"question", "model", "tools", "answer"} => job.conversation # 0
  /\ job.at = "upsert" => codes[job.code].owner = job.user /\ codes[job.code].used = TRUE
  /\ job.kind # "link" /\ job.update # 0 /\ job.user # NoUser =>
       \E x \in linked : x.chat = updates[job.update].chat /\ x.user = job.user

TelegramInv ==
  /\ TypeOK /\ BotInv /\ LinkInv
  /\ \A j \in DOMAIN jobs : RequestOK(jobs[j])

IsStored(k, role, j) ==
  /\ k \in DOMAIN conversations
  /\ \E i \in DOMAIN conversations[k].messages : Stores(k, i, role, j)

Before == {"consume", "upsert", "resolve", "act", "transcribe", "conversation", "question"}
After == {"respond", "done", "failed"}

\* What a request has done by the step it is at.
TrailOK(j, job) ==
  /\ job.at = "resolve" => job.conversation = 0
  /\ job.at \in {"question", "model", "tools", "answer"} =>
       conversations[job.conversation].owner = job.user
  /\ job.kind \in {"text", "audio"} =>
       /\ job.at \in Before => job.acted = 0
       /\ job.at = "model" => job.acted <= (job.round - 1) * MaxCalls
       /\ job.at = "tools" => job.calls > 0 /\ job.acted + job.calls <= job.round * MaxCalls
       /\ job.acted <= Rounds * MaxCalls
       /\ job.acted > 0 \/ job.at \in {"model", "tools", "answer"} =>
            IsStored(job.conversation, "user", j)
       /\ job.at \in {"respond", "done"} /\ job.conversation # 0 =>
            IsStored(job.conversation, "assistant", j)

\* What the stored messages say of the requests that stored them.
MessageOK(k, i) ==
  LET j == conversations[k].messages[i].of
  IN  /\ j \in DOMAIN jobs /\ jobs[j].user = conversations[k].owner
      /\ jobs[j].at \notin Before
      /\ conversations[k].messages[i].role = "assistant" =>
           /\ jobs[j].at \in After
           /\ \E h \in 1 .. i - 1 : Stores(k, h, "user", j)
           /\ \A h \in 1 .. i - 1 : ~Stores(k, h, "assistant", j)

TrailInv ==
  /\ \A j \in DOMAIN jobs : TrailOK(j, jobs[j])
  /\ \A k \in DOMAIN conversations : \A i \in DOMAIN conversations[k].messages : MessageOK(k, i)

AssistantInv == TelegramInv /\ TrailInv

LEMMA Constants ==
  /\ Rounds \in Nat /\ Rounds > 0 /\ MaxCalls \in Nat /\ MaxAsks \in Nat
  /\ MaxUpdates \in Nat /\ MaxCodes \in Nat /\ MaxLives \in Nat
BY ChatAssumption, AssistantAssumption

LEMMA FiniteJobs ==
  ASSUME jobs \in Seq(Job), NEW u
  PROVE  IsFiniteSet(JobsFor(u)) /\ Cardinality(JobsFor(u)) \in Nat
<1>1. IsFiniteSet(1 .. Len(jobs))
  BY FS_Interval
<1>2. JobsFor(u) \subseteq 1 .. Len(jobs)
  BY DEF JobsFor
<1> QED
  BY <1>1, <1>2, FS_Subset, FS_CardinalityType

LEMMA AssistantInitInv == Init => AssistantInv
<1> SUFFICES ASSUME Init PROVE AssistantInv
  OBVIOUS
<1>1. /\ jobs = <<>> /\ conversations = <<>> /\ updates = <<>> /\ codes = <<>>
      /\ linked = {} /\ handled = {} /\ lives = 0 /\ confirmed = 0
      /\ links = [chat \in TelegramChats |-> NoUser]
      /\ bot = [at |-> "down", offset |-> 0, next |-> 1, last |-> 0, job |-> 0]
  BY DEF Init
<1>2. bot \in Bot
  BY <1>1, Constants DEF Bot
<1>3. TypeOK
  BY <1>1, <1>2, Constants DEF TypeOK
<1>4. BotInv
  <2>1. \A u : JobsFor(u) = {}
    BY <1>1 DEF JobsFor
  <2>2. \A u : Cardinality(JobsFor(u)) = 0
    BY <2>1, FS_EmptySet
  <2> QED
    BY <1>1, <2>2, Constants DEF BotInv
<1>5. LinkInv
  BY <1>1 DEF LinkInv
<1> QED
  BY <1>1, <1>3, <1>4, <1>5 DEF AssistantInv, TelegramInv, TrailInv

(***************************************************************************)
(* Steps of one request                                                    *)
(***************************************************************************)

LEMMA JobChanged ==
  ASSUME jobs \in Seq(Job), NEW j \in DOMAIN jobs, NEW job \in Job,
         jobs' = [jobs EXCEPT ![j] = job], job.update = jobs[j].update
  PROVE  /\ jobs' \in Seq(Job) /\ Len(jobs') = Len(jobs) /\ DOMAIN jobs' = DOMAIN jobs
         /\ \A i \in DOMAIN jobs : jobs'[i] = IF i = j THEN job ELSE jobs[i]
         /\ \A u : JobsFor(u)' = JobsFor(u)
<1>1. /\ jobs' \in Seq(Job) /\ Len(jobs') = Len(jobs) /\ DOMAIN jobs' = DOMAIN jobs
      /\ \A i \in DOMAIN jobs : jobs'[i] = IF i = j THEN job ELSE jobs[i]
  OBVIOUS
<1>2. \A u : JobsFor(u)' = JobsFor(u)
  BY <1>1 DEF JobsFor
<1> QED
  BY <1>1, <1>2

\* A request goes on, by itself.
LEMMA TelegramJobStep ==
  ASSUME TelegramInv, NEW j \in DOMAIN jobs, NEW job \in Job, jobs' = [jobs EXCEPT ![j] = job],
         job.update = jobs[j].update, job.code = jobs[j].code, RequestOK(job)',
         job.at = "upsert" => jobs[j].at = "upsert",
         UNCHANGED <<updates, confirmed, bot, lives, handled, codes, links, linked>>,
         conversations' \in Seq(Conversation), Len(conversations') >= Len(conversations)
  PROVE  TelegramInv'
<1>0. TypeOK /\ jobs \in Seq(Job)
  BY DEF TelegramInv, TypeOK
<1>1. /\ jobs' \in Seq(Job) /\ DOMAIN jobs' = DOMAIN jobs
      /\ \A i \in DOMAIN jobs : jobs'[i] = IF i = j THEN job ELSE jobs[i]
      /\ \A u : JobsFor(u)' = JobsFor(u)
  BY <1>0, JobChanged
<1>2. TypeOK'
  BY <1>0, <1>1 DEF TypeOK
<1>3. BotInv'
  BY <1>1 DEF TelegramInv, BotInv
<1>4. LinkInv'
  BY <1>1 DEF TelegramInv, LinkInv
<1>5. ASSUME NEW i \in DOMAIN jobs' PROVE RequestOK(jobs[i])'
  <2>1. CASE i = j
    BY <1>1, <2>1
  <2>2. CASE i # j
    <3>1. PICK other : other = jobs[i]
      OBVIOUS
    <3>2. RequestOK(other) /\ jobs'[i] = other
      BY <1>1, <2>2, <3>1 DEF TelegramInv
    <3>3. Len(conversations) \in Nat /\ Len(conversations') \in Nat
      BY <1>0 DEF TypeOK
    <3>4. RequestOK(other)'
      BY <3>2, <3>3 DEF RequestOK
    <3> QED
      BY <3>2, <3>4
  <2> QED
    BY <2>1, <2>2
<1> QED
  BY <1>2, <1>3, <1>4, <1>5 DEF TelegramInv

\* A request goes on without storing a message.
LEMMA TrailJobStep ==
  ASSUME jobs \in Seq(Job), TrailInv, NEW j \in DOMAIN jobs, NEW job \in Job,
         jobs' = [jobs EXCEPT ![j] = job], job.update = jobs[j].update, TrailOK(j, job),
         UNCHANGED conversations,
         job.at \in Before => jobs[j].at \in Before,
         jobs[j].at \in After => job.at \in After,
         job.user = jobs[j].user \/ jobs[j].at \in Before
  PROVE  TrailInv'
<1>1. /\ DOMAIN jobs' = DOMAIN jobs
      /\ \A i \in DOMAIN jobs : jobs'[i] = IF i = j THEN job ELSE jobs[i]
  BY JobChanged
<1>2. ASSUME NEW i \in DOMAIN jobs' PROVE TrailOK(i, jobs[i])'
  <2>1. PICK other : other = jobs'[i]
    OBVIOUS
  <2>2. TrailOK(i, other)
    BY <1>1, <2>1 DEF TrailInv
  <2>3. TrailOK(i, other)'
    BY <2>2 DEF TrailOK, IsStored, Stores
  <2> QED
    BY <2>1, <2>3
<1>3. ASSUME NEW k \in DOMAIN conversations', NEW i \in DOMAIN conversations'[k].messages
      PROVE  MessageOK(k, i)'
  <2>1. MessageOK(k, i)
    BY <1>3 DEF TrailInv
  <2> QED
    BY <1>1, <2>1 DEF MessageOK, Stores
<1> QED
  BY <1>2, <1>3 DEF TrailInv

LEMMA JobStep ==
  ASSUME AssistantInv, NEW j \in DOMAIN jobs, NEW job \in Job, jobs' = [jobs EXCEPT ![j] = job],
         job.update = jobs[j].update, job.code = jobs[j].code, RequestOK(job), TrailOK(j, job),
         UNCHANGED <<conversations, updates, confirmed, bot, lives, handled, codes, links, linked>>,
         job.at = "upsert" => jobs[j].at = "upsert",
         job.at \in Before => jobs[j].at \in Before,
         jobs[j].at \in After => job.at \in After,
         job.user = jobs[j].user \/ jobs[j].at \in Before
  PROVE  AssistantInv'
<1>1. RequestOK(job)'
  BY DEF RequestOK
<1>2. jobs \in Seq(Job) /\ conversations \in Seq(Conversation) /\ Len(conversations) >= Len(conversations)
  BY DEF AssistantInv, TelegramInv, TypeOK
<1>3. TelegramInv'
  BY <1>1, <1>2, TelegramJobStep DEF AssistantInv
<1>4. TrailInv'
  BY <1>2, TrailJobStep DEF AssistantInv
<1> QED
  BY <1>3, <1>4 DEF AssistantInv

\* The fields of a request that only goes to another step.
LEMMA GoesFields ==
  ASSUME NEW j \in DOMAIN jobs, jobs[j] \in Job, NEW at, Goes(j, at),
         at \in {"consume", "upsert", "resolve", "act", "transcribe", "conversation", "question",
                 "model", "tools", "answer", "respond", "done", "failed"}
  PROVE  \E job \in Job : /\ jobs' = [jobs EXCEPT ![j] = job] /\ job.at = at
                          /\ job.update = jobs[j].update /\ job.kind = jobs[j].kind
                          /\ job.user = jobs[j].user /\ job.code = jobs[j].code
                          /\ job.conversation = jobs[j].conversation
                          /\ job.round = jobs[j].round /\ job.calls = jobs[j].calls
                          /\ job.acted = jobs[j].acted
<1>1. PICK job : job = [jobs[j] EXCEPT !.at = at]
  OBVIOUS
<1>2. /\ job \in Job /\ job.at = at
      /\ job.update = jobs[j].update /\ job.kind = jobs[j].kind
      /\ job.user = jobs[j].user /\ job.code = jobs[j].code
      /\ job.conversation = jobs[j].conversation
      /\ job.round = jobs[j].round /\ job.calls = jobs[j].calls
      /\ job.acted = jobs[j].acted
  BY <1>1 DEF Job, Ended
<1>3. jobs' = [jobs EXCEPT ![j] = job]
  BY <1>1 DEF Goes
<1> QED
  BY <1>2, <1>3

LEMMA EndsFields ==
  ASSUME NEW j \in DOMAIN jobs, jobs[j] \in Job, NEW at \in {"done", "failed"}, Ends(j, at)
  PROVE  \E job \in Job : /\ jobs' = [jobs EXCEPT ![j] = job] /\ job.at = at
                          /\ job.update = jobs[j].update /\ job.kind = jobs[j].kind
                          /\ job.user = jobs[j].user /\ job.code = jobs[j].code
                          /\ job.conversation = jobs[j].conversation
                          /\ job.acted = jobs[j].acted
<1>1. PICK job : job = [jobs[j] EXCEPT !.at = at, !.round = 1, !.calls = 0]
  OBVIOUS
<1>2. /\ job \in Job /\ job.at = at
      /\ job.update = jobs[j].update /\ job.kind = jobs[j].kind
      /\ job.user = jobs[j].user /\ job.code = jobs[j].code
      /\ job.conversation = jobs[j].conversation
      /\ job.acted = jobs[j].acted
  <2>1. 1 \in 1 .. Rounds /\ 0 \in 0 .. MaxCalls
    BY Constants
  <2> QED
    BY <1>1, <2>1 DEF Job, Ended
<1>3. jobs' = [jobs EXCEPT ![j] = job]
  BY <1>1 DEF Ends
<1> QED
  BY <1>2, <1>3

(***************************************************************************)
(* Chat and Telegram requests, step by step                                *)
(***************************************************************************)

LEMMA TypedJob ==
  ASSUME AssistantInv, NEW j \in DOMAIN jobs
  PROVE  jobs[j] \in Job /\ RequestOK(jobs[j]) /\ TrailOK(j, jobs[j])
BY DEF AssistantInv, TelegramInv, TrailInv, TypeOK

LEMMA Multiplied ==
  /\ \A n \in Nat : (n - 1) * MaxCalls + MaxCalls = n * MaxCalls
  /\ \A n \in 1 .. Rounds : n * MaxCalls <= Rounds * MaxCalls
  /\ \A n \in 1 .. Rounds : n * MaxCalls \in Nat /\ (n - 1) * MaxCalls \in Nat
<1>1. \A a, m \in Nat : (a - 1) * m + m = a * m
  OBVIOUS
<1>2. \A a, b, m \in Nat : a <= b => a * m <= b * m
  OBVIOUS
<1>3. \A a, m \in Nat : a * m \in Nat
  OBVIOUS
<1>4. MaxCalls \in Nat /\ Rounds \in Nat
  BY Constants
<1>5. \A n \in 1 .. Rounds : n \in Nat /\ n - 1 \in Nat /\ n <= Rounds
  BY <1>4
<1> QED
  BY <1>1, <1>2, <1>3, <1>4, <1>5

LEMMA ChatTyped ==
  ASSUME AssistantInv, NEW j \in DOMAIN jobs, jobs[j].update # 0
  PROVE  ChatOf(j) \in TelegramChats
<1>1. jobs[j].update \in DOMAIN updates /\ updates \in Seq(Update)
  BY TypedJob DEF RequestOK, AssistantInv, TelegramInv, TypeOK
<1>2. updates[jobs[j].update] \in Update
  BY <1>1
<1> QED
  BY <1>2 DEF ChatOf, Update

\* Steps that leave the conversations and Telegram alone.
Alone == UNCHANGED <<conversations, updates, confirmed, bot, lives, handled, codes, links, linked>>

LEMMA TranscribeStep ==
  ASSUME AssistantInv, NEW j \in DOMAIN jobs, Transcribe(j), Alone
  PROVE  AssistantInv'
<1>1. jobs[j] \in Job /\ RequestOK(jobs[j]) /\ TrailOK(j, jobs[j])
  BY TypedJob
<1>2. jobs[j].at = "transcribe" /\ Goes(j, "conversation")
  BY DEF Transcribe
<1>3. PICK job \in Job : /\ jobs' = [jobs EXCEPT ![j] = job] /\ job.at = "conversation"
                         /\ job.update = jobs[j].update /\ job.kind = jobs[j].kind
                         /\ job.user = jobs[j].user /\ job.code = jobs[j].code
                         /\ job.conversation = jobs[j].conversation
                         /\ job.round = jobs[j].round /\ job.calls = jobs[j].calls
                         /\ job.acted = jobs[j].acted
  BY <1>1, <1>2, GoesFields
<1>4. RequestOK(job) /\ TrailOK(j, job)
  BY <1>1, <1>2, <1>3 DEF RequestOK, TrailOK, Before
<1> QED
  BY <1>2, <1>3, <1>4, JobStep DEF Alone, Before, After

LEMMA GetConversationStep ==
  ASSUME AssistantInv, NEW j \in DOMAIN jobs, GetConversation(j), Alone
  PROVE  AssistantInv'
<1>1. jobs[j] \in Job /\ RequestOK(jobs[j]) /\ TrailOK(j, jobs[j])
  BY TypedJob
<1>2. PICK at \in {"question", "failed"} :
        /\ at = IF conversations[jobs[j].conversation].owner = jobs[j].user THEN "question" ELSE "failed"
        /\ jobs[j].at = "conversation" /\ jobs[j].conversation # 0 /\ Goes(j, at)
  BY DEF GetConversation
<1>3. PICK job \in Job : /\ jobs' = [jobs EXCEPT ![j] = job] /\ job.at = at
                         /\ job.update = jobs[j].update /\ job.kind = jobs[j].kind
                         /\ job.user = jobs[j].user /\ job.code = jobs[j].code
                         /\ job.conversation = jobs[j].conversation
                         /\ job.round = jobs[j].round /\ job.calls = jobs[j].calls
                         /\ job.acted = jobs[j].acted
  BY <1>1, <1>2, GoesFields
<1>4. RequestOK(job)
  BY <1>1, <1>2, <1>3 DEF RequestOK
<1>5. TrailOK(j, job)
  BY <1>1, <1>2, <1>3 DEF TrailOK, Before
<1> QED
  BY <1>2, <1>3, <1>4, <1>5, JobStep DEF Alone, Before, After

LEMMA CompletionStep ==
  ASSUME AssistantInv, NEW j \in DOMAIN jobs, CreateChatCompletion(j), Alone
  PROVE  AssistantInv'
<1>1. jobs[j] \in Job /\ RequestOK(jobs[j]) /\ TrailOK(j, jobs[j]) /\ jobs[j].at = "model"
  BY TypedJob DEF CreateChatCompletion
<1>2. CASE Goes(j, "answer")
  <2>1. PICK job \in Job : /\ jobs' = [jobs EXCEPT ![j] = job] /\ job.at = "answer"
                           /\ job.update = jobs[j].update /\ job.kind = jobs[j].kind
                           /\ job.user = jobs[j].user /\ job.code = jobs[j].code
                           /\ job.conversation = jobs[j].conversation
                           /\ job.round = jobs[j].round /\ job.calls = jobs[j].calls
                           /\ job.acted = jobs[j].acted
    BY <1>1, <1>2, GoesFields
  <2>2. RequestOK(job) /\ TrailOK(j, job)
    BY <1>1, <2>1 DEF RequestOK, TrailOK, Before
  <2> QED
    BY <1>1, <2>1, <2>2, JobStep DEF Alone, Before, After
<1>3. ASSUME NEW n \in 1 .. MaxCalls, jobs' = [jobs EXCEPT ![j].at = "tools", ![j].calls = n]
      PROVE  AssistantInv'
  <2>1. PICK job : job = [jobs[j] EXCEPT !.at = "tools", !.calls = n]
    OBVIOUS
  <2>2. n \in Nat /\ n > 0 /\ n <= MaxCalls /\ n \in 0 .. MaxCalls
    BY Constants
  <2>3. /\ job \in Job /\ job.at = "tools" /\ job.calls = n
        /\ job.update = jobs[j].update /\ job.kind = jobs[j].kind
        /\ job.user = jobs[j].user /\ job.code = jobs[j].code
        /\ job.conversation = jobs[j].conversation
        /\ job.round = jobs[j].round /\ job.acted = jobs[j].acted
    BY <1>1, <2>1, <2>2 DEF Job
  <2>4. jobs' = [jobs EXCEPT ![j] = job]
    BY <1>3, <2>1
  <2>5. RequestOK(job)
    BY <1>1, <2>3 DEF RequestOK
  <2>6. job.acted + job.calls <= job.round * MaxCalls
    <3>1. /\ jobs[j].acted \in Nat /\ jobs[j].round \in 1 .. Rounds
          /\ jobs[j].acted <= (jobs[j].round - 1) * MaxCalls
      BY <1>1 DEF Job, TrailOK, RequestOK
    <3>2. jobs[j].round \in Nat /\ MaxCalls \in Nat
      BY <3>1, Constants
    <3>3. PICK before, limit \in Nat : before = (jobs[j].round - 1) * MaxCalls /\ limit = jobs[j].round * MaxCalls
      BY <3>1, Multiplied
    <3>4. before + MaxCalls = limit
      BY <3>2, <3>3, Multiplied
    <3> QED
      BY <2>2, <2>3, <3>1, <3>2, <3>3, <3>4
  <2>7. TrailOK(j, job)
    BY <1>1, <2>2, <2>3, <2>6 DEF TrailOK, Before
  <2> QED
    BY <1>1, <2>3, <2>4, <2>5, <2>7, JobStep DEF Alone, Before, After
<1> QED
  BY <1>2, <1>3 DEF CreateChatCompletion

\* Calls of a round that have acted do not count among those left.
LEMMA DispatchStep ==
  ASSUME AssistantInv, NEW j \in DOMAIN jobs, DispatchTool(j), Alone
  PROVE  AssistantInv'
<1>1. jobs[j] \in Job /\ RequestOK(jobs[j]) /\ TrailOK(j, jobs[j]) /\ jobs[j].at = "tools"
  BY TypedJob DEF DispatchTool
<1>2. /\ jobs[j].acted \in Nat /\ jobs[j].round \in 1 .. Rounds /\ jobs[j].calls \in 0 .. MaxCalls
      /\ jobs[j].calls > 0 /\ jobs[j].acted + jobs[j].calls <= jobs[j].round * MaxCalls
      /\ IsStored(jobs[j].conversation, "user", j)
  BY <1>1 DEF Job, TrailOK, RequestOK
<1>3. PICK last, lastRound \in BOOLEAN : /\ last = (jobs[j].calls = 1)
                                         /\ lastRound = LastRound(jobs[j].round)
  BY DEF LastRound
<1>4. PICK acts \in 0 .. 1 :
        jobs' = [jobs EXCEPT ![j] =
          [jobs[j] EXCEPT !.calls = @ - 1, !.acted = @ + acts,
                      !.at = CASE ~last -> "tools"
                               [] last /\ lastRound -> "failed"
                               [] OTHER -> "model",
                      !.round = CASE ~last -> @
                                  [] last /\ lastRound -> 1
                                  [] OTHER -> @ + 1]]
  BY <1>3 DEF DispatchTool
<1>5. PICK at, round : /\ at = CASE ~last -> "tools" [] last /\ lastRound -> "failed" [] OTHER -> "model"
                       /\ round = CASE ~last -> jobs[j].round [] last /\ lastRound -> 1
                                    [] OTHER -> jobs[j].round + 1
  OBVIOUS
<1>6. PICK calls \in 0 .. MaxCalls, acted \in Nat :
        calls = jobs[j].calls - 1 /\ acted = jobs[j].acted + acts
  <2>1. jobs[j].calls - 1 \in 0 .. MaxCalls /\ jobs[j].acted + acts \in Nat
    BY <1>2, Constants
  <2> QED
    BY <2>1
<1>7. \/ at = "tools" /\ round = jobs[j].round /\ calls > 0
      \/ at = "model" /\ round = jobs[j].round + 1 /\ round <= Rounds /\ calls = 0
      \/ at = "failed" /\ round = 1 /\ calls = 0
  <2>1. /\ last = TRUE <=> jobs[j].calls = 1
        /\ lastRound = TRUE <=> jobs[j].round = Rounds
    BY <1>3 DEF LastRound
  <2>2. /\ last = FALSE => at = "tools" /\ round = jobs[j].round
        /\ last = TRUE /\ lastRound = TRUE => at = "failed" /\ round = 1
        /\ last = TRUE /\ lastRound = FALSE => at = "model" /\ round = jobs[j].round + 1
    BY <1>5
  <2>3. last = FALSE => calls > 0
    BY <1>2, <1>6, <2>1
  <2>4. last = TRUE => calls = 0
    BY <1>6, <2>1
  <2>5. lastRound = FALSE => jobs[j].round + 1 <= Rounds
    BY <1>2, <2>1, Constants
  <2> QED
    BY <2>2, <2>3, <2>4, <2>5
<1>8. round \in 1 .. Rounds
  BY <1>2, <1>7, Constants
<1>9. PICK job : job = [jobs[j] EXCEPT !.calls = calls, !.acted = acted, !.at = at, !.round = round]
  OBVIOUS
<1>10. /\ job \in Job /\ job.at = at /\ job.calls = calls /\ job.acted = acted /\ job.round = round
       /\ job.update = jobs[j].update /\ job.kind = jobs[j].kind
       /\ job.user = jobs[j].user /\ job.code = jobs[j].code
       /\ job.conversation = jobs[j].conversation
  BY <1>1, <1>7, <1>8, <1>9 DEF Job, Ended
<1>11. jobs' = [jobs EXCEPT ![j] = job]
  BY <1>4, <1>5, <1>6, <1>9
<1>12. RequestOK(job)
  BY <1>1, <1>7, <1>10 DEF RequestOK
<1>13. /\ acted + calls <= jobs[j].round * MaxCalls
       /\ acted <= Rounds * MaxCalls
       /\ at = "model" => acted <= (round - 1) * MaxCalls
  <2>1. PICK limit \in Nat : limit = jobs[j].round * MaxCalls
    BY <1>2, Multiplied
  <2>2. PICK all \in Nat : all = Rounds * MaxCalls
    BY Constants, Multiplied
  <2>3. limit <= all
    BY <1>2, <2>1, <2>2, Multiplied
  <2>4. acted + calls <= limit /\ calls \in Nat /\ acted <= all
    BY <1>2, <1>6, <2>1, <2>2, <2>3, Constants
  <2>5. at = "model" => round - 1 = jobs[j].round /\ calls = 0
    BY <1>2, <1>7, Constants
  <2> QED
    BY <2>1, <2>2, <2>4, <2>5
<1>14. TrailOK(j, job)
  BY <1>1, <1>2, <1>7, <1>10, <1>13 DEF TrailOK, Before
<1> QED
  BY <1>1, <1>7, <1>10, <1>11, <1>12, <1>14, JobStep DEF Alone, Before, After

LEMMA EndStep ==
  ASSUME AssistantInv, NEW j \in DOMAIN jobs, Alone, jobs[j].at \notin Ended,
         \/ Ends(j, "failed")
         \/ Ends(j, "done") /\ jobs[j].at = "respond"
  PROVE  AssistantInv'
<1>1. jobs[j] \in Job /\ RequestOK(jobs[j]) /\ TrailOK(j, jobs[j])
  BY TypedJob
<1>2. PICK at \in {"done", "failed"} : Ends(j, at) /\ (at = "done" => jobs[j].at = "respond")
  OBVIOUS
<1>3. PICK job \in Job : /\ jobs' = [jobs EXCEPT ![j] = job] /\ job.at = at
                         /\ job.update = jobs[j].update /\ job.kind = jobs[j].kind
                         /\ job.user = jobs[j].user /\ job.code = jobs[j].code
                         /\ job.conversation = jobs[j].conversation
                         /\ job.acted = jobs[j].acted
  BY <1>1, <1>2, EndsFields
<1>4. RequestOK(job)
  BY <1>1, <1>2, <1>3 DEF RequestOK
<1>5. TrailOK(j, job)
  BY <1>1, <1>2, <1>3 DEF TrailOK, Before
<1> QED
  BY <1>2, <1>3, <1>4, <1>5, JobStep DEF Alone, Before, After

LEMMA ResolveStep ==
  ASSUME AssistantInv, NEW j \in DOMAIN jobs, ResolveTelegramChat(j)
  PROVE  AssistantInv'
<1>1. jobs[j] \in Job /\ RequestOK(jobs[j]) /\ TrailOK(j, jobs[j]) /\ jobs[j].at = "resolve"
  BY TypedJob DEF ResolveTelegramChat
<1>2. PICK chat \in TelegramChats : chat = ChatOf(j)
  BY <1>1, ChatTyped DEF RequestOK
<1>3. PICK user \in Users \union {NoUser} : user = links[chat]
  BY DEF AssistantInv, TelegramInv, TypeOK
<1>4. PICK at : at = IF user = NoUser THEN "respond"
                     ELSE CASE jobs[j].kind = "command" -> "act"
                            [] jobs[j].kind = "audio" -> "transcribe"
                            [] OTHER -> "conversation"
  OBVIOUS
<1>5. /\ jobs[j].kind \in {"command", "text", "audio"}
      /\ at \in {"respond", "act", "transcribe", "conversation"}
      /\ at = "act" => jobs[j].kind = "command"
      /\ at \in {"transcribe", "conversation"} => user # NoUser /\ jobs[j].kind \in {"text", "audio"}
  BY <1>1, <1>4 DEF RequestOK, Job
<1>6. PICK job : job = [jobs[j] EXCEPT !.at = at, !.user = user]
  OBVIOUS
<1>7. /\ job \in Job /\ job.at = at /\ job.user = user
      /\ job.update = jobs[j].update /\ job.kind = jobs[j].kind
      /\ job.code = jobs[j].code /\ job.conversation = jobs[j].conversation
      /\ job.round = jobs[j].round /\ job.calls = jobs[j].calls
      /\ job.acted = jobs[j].acted
  BY <1>1, <1>3, <1>5, <1>6 DEF Job
<1>8. jobs' = [jobs EXCEPT ![j] = job] /\ Alone
  BY <1>2, <1>3, <1>4, <1>6 DEF ResolveTelegramChat, Alone, botVars, backendVars
<1>9. user # NoUser => \E x \in linked : x.chat = updates[job.update].chat /\ x.user = user
  BY <1>2, <1>3, <1>7 DEF AssistantInv, TelegramInv, LinkInv, ChatOf
<1>10. RequestOK(job)
  BY <1>1, <1>5, <1>7, <1>9 DEF RequestOK
<1>11. TrailOK(j, job)
  BY <1>1, <1>5, <1>7 DEF TrailOK, Before
<1> QED
  BY <1>1, <1>5, <1>7, <1>8, <1>10, <1>11, JobStep DEF Alone, Before, After

LEMMA ActStep ==
  ASSUME AssistantInv, NEW j \in DOMAIN jobs, Act(j)
  PROVE  AssistantInv'
<1>1. jobs[j] \in Job /\ RequestOK(jobs[j]) /\ TrailOK(j, jobs[j]) /\ jobs[j].at = "act"
  BY TypedJob DEF Act
<1>2. PICK job : job = [jobs[j] EXCEPT !.at = "respond", !.acted = 1]
  OBVIOUS
<1>3. /\ job \in Job /\ job.at = "respond" /\ job.user = jobs[j].user
      /\ job.update = jobs[j].update /\ job.kind = jobs[j].kind
      /\ job.code = jobs[j].code /\ job.conversation = jobs[j].conversation
  BY <1>1, <1>2 DEF Job
<1>4. jobs' = [jobs EXCEPT ![j] = job] /\ Alone
  BY <1>2 DEF Act, Alone, botVars, backendVars
<1>5. RequestOK(job) /\ TrailOK(j, job)
  BY <1>1, <1>3 DEF RequestOK, TrailOK
<1> QED
  BY <1>1, <1>3, <1>4, <1>5, JobStep DEF Alone, Before, After

(***************************************************************************)
(* Steps that store something in a conversation                            *)
(***************************************************************************)

\* Conversations keep their owners and only grow.
Grows ==
  \A k \in DOMAIN conversations :
    /\ k \in DOMAIN conversations' /\ conversations'[k].owner = conversations[k].owner
    /\ \A i \in DOMAIN conversations[k].messages :
         /\ i \in DOMAIN conversations'[k].messages
         /\ conversations'[k].messages[i] = conversations[k].messages[i]

LEMMA TrailKept ==
  ASSUME conversations \in Seq(Conversation), NEW j, NEW job, RequestOK(job), TrailOK(j, job), Grows
  PROVE  TrailOK(j, job)'
<1>1. \A k, role : IsStored(k, role, j) => IsStored(k, role, j)'
  BY DEF Grows, IsStored, Stores
<1>2. job.at \in {"question", "model", "tools", "answer"} => job.conversation \in DOMAIN conversations
  BY DEF RequestOK
<1>3. job.at \in {"question", "model", "tools", "answer"} =>
        conversations'[job.conversation].owner = job.user
  BY <1>2 DEF Grows, TrailOK
<1> QED
  BY <1>1, <1>3 DEF TrailOK

\* A request stores something and goes on.
LEMMA StoreStep ==
  ASSUME AssistantInv, NEW j \in DOMAIN jobs, NEW job \in Job, jobs' = [jobs EXCEPT ![j] = job],
         job.update = jobs[j].update, job.code = jobs[j].code, job.user = jobs[j].user,
         job.at # "upsert", job.at \in Before => jobs[j].at \in Before,
         jobs[j].at \in After => job.at \in After,
         UNCHANGED <<updates, confirmed, bot, lives, handled, codes, links, linked>>,
         conversations' \in Seq(Conversation), Len(conversations') >= Len(conversations), Grows,
         RequestOK(job)', TrailOK(j, job)',
         \A k \in DOMAIN conversations' : \A i \in DOMAIN conversations'[k].messages :
           (k \in DOMAIN conversations /\ i \in DOMAIN conversations[k].messages) \/ MessageOK(k, i)'
  PROVE  AssistantInv'
<1>0. jobs \in Seq(Job) /\ conversations \in Seq(Conversation)
  BY DEF AssistantInv, TelegramInv, TypeOK
<1>1. TelegramInv'
  BY TelegramJobStep DEF AssistantInv
<1>2. /\ DOMAIN jobs' = DOMAIN jobs
      /\ \A i \in DOMAIN jobs : jobs'[i] = IF i = j THEN job ELSE jobs[i]
  BY <1>0, JobChanged
<1>3. ASSUME NEW i \in DOMAIN jobs' PROVE TrailOK(i, jobs[i])'
  <2>1. CASE i = j
    BY <1>2, <2>1
  <2>2. CASE i # j
    <3>1. PICK other : other = jobs[i]
      OBVIOUS
    <3>2. RequestOK(other) /\ TrailOK(i, other) /\ jobs'[i] = other
      BY <1>2, <2>2, <3>1 DEF AssistantInv, TelegramInv, TrailInv
    <3>3. TrailOK(i, other)'
      BY <1>0, <3>2, TrailKept
    <3> QED
      BY <3>2, <3>3
  <2> QED
    BY <2>1, <2>2
<1>4. ASSUME NEW k \in DOMAIN conversations', NEW i \in DOMAIN conversations'[k].messages
      PROVE  MessageOK(k, i)'
  <2> SUFFICES ASSUME k \in DOMAIN conversations, i \in DOMAIN conversations[k].messages
               PROVE  MessageOK(k, i)'
    OBVIOUS
  <2>1. MessageOK(k, i)
    BY DEF AssistantInv, TrailInv
  <2>2. PICK m : m = conversations[k].messages[i]
    OBVIOUS
  <2>3. conversations'[k].messages[i] = m /\ conversations'[k].owner = conversations[k].owner
    BY <2>2 DEF Grows
  <2>4. \A h \in 1 .. i - 1 : conversations'[k].messages[h] = conversations[k].messages[h]
    <3>1. conversations[k].messages \in Seq(Message)
      <4>1. conversations[k] \in Conversation
        BY <1>0
      <4> QED
        BY <4>1 DEF Conversation
    <3>2. \A h \in 1 .. i - 1 : h \in DOMAIN conversations[k].messages
      BY <3>1
    <3> QED
      BY <3>2 DEF Grows
  <2>5. /\ m.of \in DOMAIN jobs /\ jobs[m.of].at \notin Before /\ jobs[m.of].user = conversations[k].owner
        /\ m.role = "assistant" => jobs[m.of].at \in After
    BY <2>1, <2>2 DEF MessageOK
  <2>6. /\ m.of \in DOMAIN jobs' /\ jobs'[m.of].at \notin Before /\ jobs'[m.of].user = conversations[k].owner
        /\ m.role = "assistant" => jobs'[m.of].at \in After
    BY <1>2, <2>5
  <2> QED
    BY <2>1, <2>2, <2>3, <2>4, <2>6 DEF MessageOK, Stores
<1> QED
  BY <1>1, <1>3, <1>4 DEF AssistantInv, TrailInv

LEMMA CreateConversationStep ==
  ASSUME AssistantInv, NEW j \in DOMAIN jobs, CreateConversation(j),
         UNCHANGED <<updates, confirmed, bot, lives, handled, codes, links, linked>>
  PROVE  AssistantInv'
<1>0. jobs \in Seq(Job) /\ conversations \in Seq(Conversation)
  BY DEF AssistantInv, TelegramInv, TypeOK
<1>1. /\ jobs[j] \in Job /\ RequestOK(jobs[j]) /\ TrailOK(j, jobs[j])
      /\ jobs[j].at = "conversation" /\ jobs[j].conversation = 0
  BY TypedJob DEF CreateConversation
<1>2. PICK c : c = [owner |-> jobs[j].user, messages |-> <<>>]
  OBVIOUS
<1>3. c \in Conversation /\ c.owner = jobs[j].user /\ DOMAIN c.messages = {}
  <2>1. jobs[j].user \in Users
    BY <1>1 DEF RequestOK, Job
  <2> QED
    BY <1>2, <2>1 DEF Conversation
<1>4. conversations' = Append(conversations, c)
  BY <1>2 DEF CreateConversation
<1>5. /\ conversations' \in Seq(Conversation) /\ Len(conversations') = Len(conversations) + 1
      /\ conversations'[Len(conversations')] = c
      /\ \A k \in DOMAIN conversations : k \in DOMAIN conversations' /\ conversations'[k] = conversations[k]
      /\ \A k \in DOMAIN conversations' : k \in DOMAIN conversations \/ conversations'[k] = c
  BY <1>0, <1>3, <1>4
<1>6. PICK new \in Nat : new = Len(conversations') /\ new # 0 /\ new \in 0 .. Len(conversations')
  BY <1>0, <1>5
<1>7. PICK job : job = [jobs[j] EXCEPT !.at = "question", !.conversation = new]
  OBVIOUS
<1>8. /\ job \in Job /\ job.at = "question" /\ job.user = jobs[j].user
      /\ job.update = jobs[j].update /\ job.kind = jobs[j].kind
      /\ job.code = jobs[j].code /\ job.conversation = new
      /\ job.round = jobs[j].round /\ job.calls = jobs[j].calls /\ job.acted = jobs[j].acted
  BY <1>1, <1>7 DEF Job
<1>9. jobs' = [jobs EXCEPT ![j] = job]
  BY <1>6, <1>7 DEF CreateConversation
<1>10. RequestOK(job)'
  BY <1>1, <1>6, <1>8 DEF RequestOK
<1>11. TrailOK(j, job)'
  BY <1>1, <1>3, <1>5, <1>6, <1>8 DEF TrailOK, Before
<1>12. Grows
  BY <1>5 DEF Grows
<1>13. \A k \in DOMAIN conversations' : \A i \in DOMAIN conversations'[k].messages :
         k \in DOMAIN conversations /\ i \in DOMAIN conversations[k].messages
  BY <1>3, <1>5
<1>14. Len(conversations') >= Len(conversations)
  BY <1>0, <1>5
<1> QED
  BY <1>1, <1>5, <1>8, <1>9, <1>10, <1>11, <1>12, <1>13, <1>14, StoreStep DEF Before, After

LEMMA StoreOthers ==
  ASSUME AssistantInv, NEW j \in DOMAIN jobs, NEW role \in {"user", "assistant"}, Store(j, role),
         NEW k \in DOMAIN conversations, k = jobs[j].conversation
  PROVE  /\ conversations' \in Seq(Conversation) /\ Len(conversations') = Len(conversations)
         /\ DOMAIN conversations' = DOMAIN conversations
         /\ \A l \in DOMAIN conversations : l # k => conversations'[l] = conversations[l]
<1>0. jobs \in Seq(Job) /\ conversations \in Seq(Conversation)
  BY DEF AssistantInv, TelegramInv, TypeOK
<1>1. conversations[k] \in Conversation /\ conversations[k].messages \in Seq(Message)
  <2>1. conversations[k] \in Conversation
    BY <1>0
  <2> QED
    BY <2>1 DEF Conversation
<1>2. PICK m : m = [role |-> role, of |-> j]
  OBVIOUS
<1>3. m \in Message
  BY <1>0, <1>2 DEF Message
<1>4. PICK messages : messages = Append(conversations[k].messages, m)
  OBVIOUS
<1>5. PICK n \in Nat \ {0} : n = Len(conversations[k].messages) + 1
  BY <1>1
<1>6. /\ messages \in Seq(Message) /\ DOMAIN messages = 1 .. n /\ messages[n] = m
      /\ DOMAIN conversations[k].messages = 1 .. n - 1
      /\ \A i \in DOMAIN conversations[k].messages : i \in 1 .. n /\ messages[i] = conversations[k].messages[i]
  BY <1>1, <1>3, <1>4, <1>5
<1>7. PICK c : c = [conversations[k] EXCEPT !.messages = messages]
  OBVIOUS
<1>8. c \in Conversation /\ c.owner = conversations[k].owner /\ c.messages = messages
  BY <1>1, <1>6, <1>7 DEF Conversation
<1>9. conversations' = [conversations EXCEPT ![k] = c]
  BY <1>2, <1>4, <1>7 DEF Store
<1>10. /\ conversations' \in Seq(Conversation) /\ Len(conversations') = Len(conversations)
       /\ DOMAIN conversations' = DOMAIN conversations
       /\ \A l \in DOMAIN conversations : conversations'[l] = IF l = k THEN c ELSE conversations[l]
  BY <1>0, <1>8, <1>9
<1> QED
  BY <1>10

LEMMA StoreFields ==
  ASSUME AssistantInv, NEW j \in DOMAIN jobs, NEW role \in {"user", "assistant"}, Store(j, role),
         NEW k \in DOMAIN conversations, k = jobs[j].conversation
  PROVE  \E n \in Nat \ {0} : /\ conversations'[k].messages[n] = [role |-> role, of |-> j]
                              /\ DOMAIN conversations[k].messages = 1 .. n - 1
                              /\ DOMAIN conversations'[k].messages = 1 .. n
                              /\ Grows
<1>0. jobs \in Seq(Job) /\ conversations \in Seq(Conversation)
  BY DEF AssistantInv, TelegramInv, TypeOK
<1>1. conversations[k] \in Conversation /\ conversations[k].messages \in Seq(Message)
  <2>1. conversations[k] \in Conversation
    BY <1>0
  <2> QED
    BY <2>1 DEF Conversation
<1>2. PICK m : m = [role |-> role, of |-> j]
  OBVIOUS
<1>3. m \in Message
  BY <1>0, <1>2 DEF Message
<1>4. PICK messages : messages = Append(conversations[k].messages, m)
  OBVIOUS
<1>5. PICK n \in Nat \ {0} : n = Len(conversations[k].messages) + 1
  BY <1>1
<1>6. /\ messages \in Seq(Message) /\ DOMAIN messages = 1 .. n /\ messages[n] = m
      /\ DOMAIN conversations[k].messages = 1 .. n - 1
      /\ \A i \in DOMAIN conversations[k].messages : i \in 1 .. n /\ messages[i] = conversations[k].messages[i]
  BY <1>1, <1>3, <1>4, <1>5
<1>7. PICK c : c = [conversations[k] EXCEPT !.messages = messages]
  OBVIOUS
<1>8. c \in Conversation /\ c.owner = conversations[k].owner /\ c.messages = messages
  BY <1>1, <1>6, <1>7 DEF Conversation
<1>9. conversations' = [conversations EXCEPT ![k] = c]
  BY <1>2, <1>4, <1>7 DEF Store
<1>10. /\ conversations' \in Seq(Conversation) /\ Len(conversations') = Len(conversations)
       /\ DOMAIN conversations' = DOMAIN conversations
       /\ \A l \in DOMAIN conversations : conversations'[l] = IF l = k THEN c ELSE conversations[l]
  BY <1>0, <1>8, <1>9
<1>11. Grows
  BY <1>6, <1>8, <1>10 DEF Grows
<1> QED
  BY <1>2, <1>6, <1>8, <1>10, <1>11

LEMMA AppendQuestionStep ==
  ASSUME AssistantInv, NEW j \in DOMAIN jobs, AppendQuestion(j),
         UNCHANGED <<updates, confirmed, bot, lives, handled, codes, links, linked>>
  PROVE  AssistantInv'
<1>0. jobs \in Seq(Job) /\ conversations \in Seq(Conversation)
  BY DEF AssistantInv, TelegramInv, TypeOK
<1>1. /\ jobs[j] \in Job /\ RequestOK(jobs[j]) /\ TrailOK(j, jobs[j])
      /\ jobs[j].at = "question" /\ Goes(j, "model") /\ Store(j, "user")
  BY TypedJob DEF AppendQuestion
<1>2. PICK k \in DOMAIN conversations : k = jobs[j].conversation
  BY <1>0, <1>1 DEF RequestOK
<1>3. PICK job \in Job : /\ jobs' = [jobs EXCEPT ![j] = job] /\ job.at = "model"
                         /\ job.update = jobs[j].update /\ job.kind = jobs[j].kind
                         /\ job.user = jobs[j].user /\ job.code = jobs[j].code
                         /\ job.conversation = jobs[j].conversation
                         /\ job.round = jobs[j].round /\ job.calls = jobs[j].calls
                         /\ job.acted = jobs[j].acted
  BY <1>1, GoesFields
<1>4. /\ conversations' \in Seq(Conversation) /\ Len(conversations') = Len(conversations)
      /\ DOMAIN conversations' = DOMAIN conversations
      /\ \A l \in DOMAIN conversations : l # k => conversations'[l] = conversations[l]
  BY <1>1, <1>2, StoreOthers
<1>5. PICK n \in Nat \ {0} : /\ conversations'[k].messages[n] = [role |-> "user", of |-> j]
                             /\ DOMAIN conversations[k].messages = 1 .. n - 1
                             /\ DOMAIN conversations'[k].messages = 1 .. n
                             /\ Grows
  BY <1>1, <1>2, StoreFields
<1>6. conversations'[k].owner = jobs[j].user
  BY <1>1, <1>2, <1>4, <1>5 DEF TrailOK, Grows
<1>7. RequestOK(job)'
  BY <1>1, <1>3, <1>4 DEF RequestOK
<1>8. IsStored(k, "user", j)'
  BY <1>4, <1>5 DEF IsStored, Stores
<1>9. TrailOK(j, job)'
  <2>1. (job.round - 1) * MaxCalls >= 0 /\ Rounds * MaxCalls >= 0
    BY Multiplied, Constants DEF Job
  <2>2. job.kind \in {"text", "audio"} => job.acted = 0
    BY <1>1, <1>3 DEF TrailOK, Before
  <2> QED
    BY <1>2, <1>3, <1>6, <1>8, <2>1, <2>2 DEF TrailOK, Before
<1>10. MessageOK(k, n)'
  <2>1. j \in DOMAIN jobs' /\ jobs'[j] = job
    BY <1>0, <1>3, JobChanged
  <2>2. PICK m : m = conversations'[k].messages[n] /\ m.of = j /\ m.role = "user"
    BY <1>5
  <2> QED
    BY <1>3, <1>6, <2>1, <2>2 DEF MessageOK, Before
<1>11. \A l \in DOMAIN conversations' : \A i \in DOMAIN conversations'[l].messages :
         (l \in DOMAIN conversations /\ i \in DOMAIN conversations[l].messages) \/ MessageOK(l, i)'
  <2>1. \A i \in 1 .. n : i \in 1 .. n - 1 \/ i = n
    OBVIOUS
  <2> QED
    BY <1>4, <1>5, <1>10, <2>1
<1>12. Len(conversations') >= Len(conversations)
  BY <1>0, <1>4
<1> QED
  BY <1>1, <1>3, <1>4, <1>7, <1>9, <1>5, <1>11, <1>12, StoreStep DEF Before, After

LEMMA AppendAnswerStep ==
  ASSUME AssistantInv, NEW j \in DOMAIN jobs, AppendAnswer(j),
         UNCHANGED <<updates, confirmed, bot, lives, handled, codes, links, linked>>
  PROVE  AssistantInv'
<1>0. jobs \in Seq(Job) /\ conversations \in Seq(Conversation)
  BY DEF AssistantInv, TelegramInv, TypeOK
<1>1. /\ jobs[j] \in Job /\ RequestOK(jobs[j]) /\ TrailOK(j, jobs[j])
      /\ jobs[j].at = "answer" /\ Goes(j, "respond") /\ Store(j, "assistant")
  BY TypedJob DEF AppendAnswer
<1>2. PICK k \in DOMAIN conversations : k = jobs[j].conversation
  BY <1>0, <1>1 DEF RequestOK
<1>3. PICK job \in Job : /\ jobs' = [jobs EXCEPT ![j] = job] /\ job.at = "respond"
                         /\ job.update = jobs[j].update /\ job.kind = jobs[j].kind
                         /\ job.user = jobs[j].user /\ job.code = jobs[j].code
                         /\ job.conversation = jobs[j].conversation
                         /\ job.round = jobs[j].round /\ job.calls = jobs[j].calls
                         /\ job.acted = jobs[j].acted
  BY <1>1, GoesFields
<1>4. /\ conversations' \in Seq(Conversation) /\ Len(conversations') = Len(conversations)
      /\ DOMAIN conversations' = DOMAIN conversations
      /\ \A l \in DOMAIN conversations : l # k => conversations'[l] = conversations[l]
  BY <1>1, <1>2, StoreOthers
<1>5. PICK n \in Nat \ {0} : /\ conversations'[k].messages[n] = [role |-> "assistant", of |-> j]
                             /\ DOMAIN conversations[k].messages = 1 .. n - 1
                             /\ DOMAIN conversations'[k].messages = 1 .. n
                             /\ Grows
  BY <1>1, <1>2, StoreFields
<1>6. conversations'[k].owner = jobs[j].user
  BY <1>1, <1>2, <1>4, <1>5 DEF TrailOK, Grows
<1>7. RequestOK(job)'
  BY <1>1, <1>3, <1>4 DEF RequestOK
<1>8. IsStored(k, "user", j) /\ IsStored(k, "user", j)'
  <2>1. IsStored(k, "user", j)
    BY <1>1, <1>2 DEF TrailOK, RequestOK
  <2> QED
    BY <1>4, <1>5, <2>1 DEF IsStored, Stores, Grows
<1>9. IsStored(k, "assistant", j)'
  BY <1>4, <1>5 DEF IsStored, Stores
<1>10. TrailOK(j, job)'
  BY <1>1, <1>2, <1>3, <1>8, <1>9 DEF TrailOK, Before
<1>11. MessageOK(k, n)'
  <2>1. j \in DOMAIN jobs' /\ jobs'[j] = job
    BY <1>0, <1>3, JobChanged
  <2>2. PICK m : m = conversations'[k].messages[n] /\ m.of = j /\ m.role = "assistant"
    BY <1>5
  <2>3. \A h \in 1 .. n - 1 : conversations'[k].messages[h] = conversations[k].messages[h]
    BY <1>4, <1>5 DEF Grows
  <2>4. \E h \in 1 .. n - 1 : Stores(k, h, "user", j)
    BY <1>5, <1>8 DEF IsStored
  <2>5. ASSUME NEW h \in 1 .. n - 1 PROVE ~Stores(k, h, "assistant", j)
    <3> SUFFICES ASSUME Stores(k, h, "assistant", j) PROVE FALSE
      OBVIOUS
    <3>1. MessageOK(k, h)
      BY <1>5 DEF AssistantInv, TrailInv
    <3>2. PICK old : old = conversations[k].messages[h] /\ old.of = j /\ old.role = "assistant"
      BY DEF Stores
    <3>3. jobs[j].at \in After
      BY <3>1, <3>2 DEF MessageOK
    <3> QED
      BY <1>1, <3>3 DEF After
  <2>6. (\E h \in 1 .. n - 1 : Stores(k, h, "user", j)') /\ \A h \in 1 .. n - 1 : ~Stores(k, h, "assistant", j)'
    BY <2>3, <2>4, <2>5 DEF Stores
  <2> QED
    BY <1>3, <1>6, <2>1, <2>2, <2>6 DEF MessageOK, Before, After
<1>12. \A l \in DOMAIN conversations' : \A i \in DOMAIN conversations'[l].messages :
         (l \in DOMAIN conversations /\ i \in DOMAIN conversations[l].messages) \/ MessageOK(l, i)'
  <2>1. \A i \in 1 .. n : i \in 1 .. n - 1 \/ i = n
    OBVIOUS
  <2> QED
    BY <1>4, <1>5, <1>11, <2>1
<1>13. Len(conversations') >= Len(conversations)
  BY <1>0, <1>4
<1> QED
  BY <1>1, <1>3, <1>4, <1>7, <1>10, <1>5, <1>12, <1>13, StoreStep DEF Before, After

(***************************************************************************)
(* New requests                                                            *)
(***************************************************************************)

LEMMA JobAdded ==
  ASSUME jobs \in Seq(Job), NEW job \in Job, jobs' = Append(jobs, job)
  PROVE  /\ jobs' \in Seq(Job) /\ Len(jobs') = Len(jobs) + 1 /\ Len(jobs') \notin DOMAIN jobs
         /\ jobs'[Len(jobs')] = job /\ Len(jobs') \in DOMAIN jobs'
         /\ \A i \in DOMAIN jobs : i \in DOMAIN jobs' /\ jobs'[i] = jobs[i]
         /\ \A i \in DOMAIN jobs' : i \in DOMAIN jobs \/ i = Len(jobs')
OBVIOUS

LEMMA AddStep ==
  ASSUME AssistantInv, NEW job \in Job, jobs' = Append(jobs, job),
         UNCHANGED <<conversations, updates, codes, links, linked>>,
         RequestOK(job), job.at # "upsert", job.at \in Before, job.acted = 0,
         job.at = "resolve" => job.conversation = 0, job.at # "question",
         TypeOK', BotInv'
  PROVE  AssistantInv'
<1>1. /\ jobs' \in Seq(Job) /\ Len(jobs') \notin DOMAIN jobs
      /\ jobs'[Len(jobs')] = job /\ Len(jobs') \in DOMAIN jobs'
      /\ \A i \in DOMAIN jobs : i \in DOMAIN jobs' /\ jobs'[i] = jobs[i]
      /\ \A i \in DOMAIN jobs' : i \in DOMAIN jobs \/ i = Len(jobs')
  BY JobAdded DEF AssistantInv, TelegramInv, TypeOK
<1>2. LinkInv'
  <2>1. \A i \in DOMAIN jobs' : jobs'[i].at = "upsert" => i \in DOMAIN jobs /\ jobs[i] = jobs'[i]
    BY <1>1
  <2> QED
    BY <2>1 DEF AssistantInv, TelegramInv, LinkInv
<1>3. ASSUME NEW i \in DOMAIN jobs' PROVE RequestOK(jobs[i])' /\ TrailOK(i, jobs[i])'
  <2>1. CASE i \in DOMAIN jobs
    <3>1. PICK other : other = jobs[i]
      OBVIOUS
    <3>2. RequestOK(other) /\ TrailOK(i, other) /\ jobs'[i] = other
      BY <1>1, <2>1, <3>1 DEF AssistantInv, TelegramInv, TrailInv
    <3>3. RequestOK(other)' /\ TrailOK(i, other)'
      BY <3>2 DEF RequestOK, TrailOK, IsStored, Stores
    <3> QED
      BY <3>2, <3>3
  <2>2. CASE i = Len(jobs')
    <3>1. RequestOK(job)'
      BY DEF RequestOK
    <3>2. Rounds * MaxCalls >= 0
      BY Multiplied, Constants
    <3>3. TrailOK(i, job)'
      BY <3>2 DEF TrailOK, Before
    <3> QED
      BY <1>1, <2>2, <3>1, <3>3
  <2> QED
    BY <1>1, <2>1, <2>2
<1>4. ASSUME NEW k \in DOMAIN conversations', NEW i \in DOMAIN conversations'[k].messages
      PROVE  MessageOK(k, i)'
  <2>1. MessageOK(k, i)
    BY <1>4 DEF AssistantInv, TrailInv
  <2> QED
    BY <1>1, <2>1 DEF MessageOK, Stores
<1> QED
  BY <1>2, <1>3, <1>4 DEF AssistantInv, TelegramInv, TrailInv

LEMMA AskStep ==
  ASSUME AssistantInv, AskChat, UNCHANGED <<updates, confirmed, bot, lives, handled, codes, links, linked>>
  PROVE  AssistantInv'
<1>0. TypeOK /\ jobs \in Seq(Job) /\ conversations \in Seq(Conversation)
  BY DEF AssistantInv, TelegramInv, TypeOK
<1>1. PICK u \in Users, k \in 0 .. Len(conversations), kind \in {"text", "audio"} :
        jobs' = Append(jobs, NewJob(0, kind, IF kind = "audio" THEN "transcribe" ELSE "conversation", u, 0, k))
  BY DEF AskChat
<1>2. PICK at \in {"transcribe", "conversation"} : at = IF kind = "audio" THEN "transcribe" ELSE "conversation"
  OBVIOUS
<1>3. PICK job : job = NewJob(0, kind, at, u, 0, k)
  OBVIOUS
<1>4. 0 \in 0 .. MaxCalls /\ 1 \in 1 .. Rounds /\ k \in Nat
  BY <1>0, Constants
<1>5. /\ job \in Job /\ job.at = at /\ job.kind = kind /\ job.update = 0 /\ job.conversation = k
      /\ job.user = u /\ job.acted = 0
  BY <1>3, <1>4 DEF NewJob, Job
<1>6. u # NoUser
  BY ChatAssumption
<1>7. RequestOK(job)
  BY <1>5, <1>6 DEF RequestOK
<1>8. jobs' = Append(jobs, job) /\ UNCHANGED conversations
  BY <1>1, <1>2, <1>3 DEF AskChat
<1>9. /\ jobs' \in Seq(Job) /\ Len(jobs') \notin DOMAIN jobs
      /\ jobs'[Len(jobs')] = job /\ Len(jobs') \in DOMAIN jobs'
      /\ \A i \in DOMAIN jobs : i \in DOMAIN jobs' /\ jobs'[i] = jobs[i]
      /\ \A i \in DOMAIN jobs' : i \in DOMAIN jobs \/ i = Len(jobs')
  BY <1>0, <1>5, <1>8, JobAdded
<1>10. TypeOK'
  BY <1>0, <1>8, <1>9 DEF TypeOK
<1>11. BotInv'
  <2>1. \A n \in Nat \ {0} : JobsFor(n)' = JobsFor(n)
    BY <1>5, <1>9 DEF JobsFor
  <2> QED
    BY <2>1 DEF AssistantInv, TelegramInv, BotInv
<1> QED
  BY <1>5, <1>7, <1>8, <1>10, <1>11, AddStep DEF Before

\* The update is handled for the first time in this life.
LEMMA HandleStep ==
  ASSUME AssistantInv, Handle
  PROVE  AssistantInv'
<1> PICK u : u = bot.next
  OBVIOUS
<1>0. /\ TypeOK /\ jobs \in Seq(Job) /\ BotInv /\ bot \in Bot /\ bot.at = "next" /\ u <= bot.last
      /\ updates \in Seq(Update) /\ u \in Nat \ {0} /\ bot.offset \in Nat /\ lives \in Nat
      /\ UNCHANGED <<conversations, updates, confirmed, lives, handled, codes, links, linked>>
  <2>1. TypeOK /\ jobs \in Seq(Job) /\ BotInv /\ bot \in Bot /\ updates \in Seq(Update) /\ lives \in Nat
    BY Constants DEF AssistantInv, TelegramInv, TypeOK
  <2>2. /\ bot.at = "next" /\ u <= bot.last
        /\ UNCHANGED <<conversations, updates, confirmed, lives, handled, codes, links, linked>>
    BY DEF Handle, backendVars
  <2>3. u \in Nat \ {0} /\ bot.offset \in Nat
    BY <2>1, Constants DEF Bot
  <2> QED
    BY <2>1, <2>2, <2>3
<1>1. u \in DOMAIN updates /\ u \in 1 .. MaxUpdates /\ bot.offset <= u
  BY <1>0, Constants DEF BotInv, Bot
<1>2. PICK kind \in {"link", "command", "text", "audio"} : kind = updates[u].kind
  BY DEF Handle
<1>3. PICK code \in Nat : code = updates[u].code /\ (kind = "link" => code \in DOMAIN codes)
  <2>1. updates[u] \in Update
    BY <1>0, <1>1
  <2>2. updates[u].code \in Nat
    BY <2>1, Constants DEF Update
  <2> QED
    BY <1>1, <1>2, <2>2 DEF AssistantInv, TelegramInv, LinkInv
<1>4. PICK at \in {"consume", "resolve"} : at = IF kind = "link" THEN "consume" ELSE "resolve"
  OBVIOUS
<1>5. PICK job : job = NewJob(u, kind, at, NoUser, code, 0)
  OBVIOUS
<1>6. /\ job \in Job /\ job.at = at /\ job.kind = kind /\ job.update = u /\ job.conversation = 0
      /\ job.user = NoUser /\ job.acted = 0 /\ job.code = code
  <2>1. 0 \in 0 .. MaxCalls /\ 1 \in 1 .. Rounds
    BY Constants
  <2> QED
    BY <1>0, <1>5, <2>1 DEF NewJob, Job
<1>7. jobs' = Append(jobs, job)
  BY <1>2, <1>3, <1>4, <1>5 DEF Handle
<1>8. RequestOK(job)
  BY <1>0, <1>1, <1>3, <1>4, <1>6 DEF RequestOK, TypeOK
<1>9. /\ jobs' \in Seq(Job) /\ Len(jobs') \notin DOMAIN jobs /\ Len(jobs') \in Nat
      /\ jobs'[Len(jobs')] = job /\ Len(jobs') \in DOMAIN jobs'
      /\ \A i \in DOMAIN jobs : i \in DOMAIN jobs' /\ jobs'[i] = jobs[i]
      /\ \A i \in DOMAIN jobs' : i \in DOMAIN jobs \/ i = Len(jobs')
  BY <1>0, <1>6, <1>7, JobAdded
<1>10. /\ bot' \in Bot /\ bot'.at = "wait" /\ bot'.next = u /\ bot'.last = bot.last
       /\ bot'.offset = u + 1
  <2>1. PICK id \in Nat : id = Len(jobs')
    BY <1>9
  <2>2. PICK offset \in 0 .. MaxUpdates + 1 : offset = OffsetAfter(u) /\ offset = u + 1
    BY <1>0, <1>1, Constants DEF OffsetAfter
  <2>3. bot' = [bot EXCEPT !.at = "wait", !.job = id, !.offset = offset]
    BY <2>1, <2>2 DEF Handle
  <2> QED
    BY <1>0, <2>2, <2>3 DEF Bot
<1>11. TypeOK'
  BY <1>0, <1>9, <1>10 DEF TypeOK
<1>12. BotInv'
  <2>1. lives > 0 /\ Cardinality(JobsFor(u)) < lives
    <3>1. bot.at # "down"
      BY <1>0
    <3>2. lives > 0 /\ \A n \in Nat \ {0} : bot.offset <= n => Cardinality(JobsFor(n)) < lives
      BY <1>0, <3>1 DEF BotInv
    <3> QED
      BY <1>0, <1>1, <3>2
  <2>2. JobsFor(u)' = JobsFor(u) \union {Len(jobs')} /\ Len(jobs') \notin JobsFor(u)
    BY <1>6, <1>9 DEF JobsFor
  <2>3. Cardinality(JobsFor(u)') = Cardinality(JobsFor(u)) + 1 /\ Cardinality(JobsFor(u)) \in Nat
    <3>1. IsFiniteSet(JobsFor(u)) /\ Cardinality(JobsFor(u)) \in Nat
      BY <1>0, FiniteJobs
    <3>2. Cardinality(JobsFor(u) \union {Len(jobs')}) = Cardinality(JobsFor(u)) + 1
      BY <2>2, <3>1, FS_AddElement
    <3> QED
      BY <2>2, <3>1, <3>2
  <2>4. ASSUME NEW n \in Nat \ {0}
        PROVE  /\ Cardinality(JobsFor(n)') <= lives
               /\ bot'.offset <= n => Cardinality(JobsFor(n)') < lives
    <3>1. CASE n = u
      BY <1>0, <1>10, <2>1, <2>3, <3>1
    <3>2. CASE n # u
      <4>1. JobsFor(n)' = JobsFor(n)
        BY <1>6, <1>9, <3>2 DEF JobsFor
      <4>2. /\ Cardinality(JobsFor(n)) <= lives
            /\ bot.offset <= n => Cardinality(JobsFor(n)) < lives
        BY <1>0 DEF BotInv
      <4> QED
        BY <1>0, <1>1, <1>10, <4>1, <4>2
    <3> QED
      BY <3>1, <3>2
  <2>5. bot'.offset <= Len(updates) + 1
    BY <1>0, <1>1, <1>10 DEF BotInv
  <2> QED
    BY <1>0, <1>10, <2>1, <2>4, <2>5 DEF BotInv
<1> QED
  BY <1>0, <1>4, <1>6, <1>7, <1>8, <1>11, <1>12, AddStep DEF Before

(***************************************************************************)
(* Linking                                                                 *)
(***************************************************************************)

\* A request is not disturbed when codes are used and chats are linked.
LEMMA RequestKept ==
  ASSUME NEW job, RequestOK(job), UNCHANGED <<conversations, updates>>, linked \subseteq linked',
         \A code \in DOMAIN codes : /\ code \in DOMAIN codes' /\ codes'[code].owner = codes[code].owner
                                    /\ codes[code].used = TRUE => codes'[code].used = TRUE
  PROVE  RequestOK(job)'
BY DEF RequestOK

LEMMA CodeTyped ==
  ASSUME AssistantInv, NEW code \in DOMAIN codes
  PROVE  codes[code] \in [owner: Users, used: BOOLEAN]
<1>1. PICK table : table = [owner: Users, used: BOOLEAN]
  OBVIOUS
<1>2. codes \in Seq(table)
  BY <1>1 DEF AssistantInv, TelegramInv, TypeOK
<1>3. codes[code] \in table
  BY <1>2
<1> QED
  BY <1>1, <1>3

LEMMA ConsumeStep ==
  ASSUME AssistantInv, NEW j \in DOMAIN jobs, ConsumeTelegramLinkCode(j)
  PROVE  AssistantInv'
<1>0. /\ TypeOK /\ jobs \in Seq(Job) /\ BotInv /\ LinkInv /\ codes \in Seq([owner: Users, used: BOOLEAN])
      /\ UNCHANGED <<conversations, updates, confirmed, bot, lives, handled, links, linked>>
  BY DEF AssistantInv, TelegramInv, TypeOK, ConsumeTelegramLinkCode, botVars
<1>1. /\ jobs[j] \in Job /\ RequestOK(jobs[j]) /\ TrailOK(j, jobs[j])
      /\ jobs[j].at = "consume" /\ jobs[j].kind = "link"
  BY TypedJob DEF ConsumeTelegramLinkCode, RequestOK
<1>2. PICK code \in DOMAIN codes : code = jobs[j].code
  BY <1>1 DEF RequestOK
<1>3. codes[code] \in [owner: Users, used: BOOLEAN]
  BY CodeTyped
<1>4. CASE codes[code].used = TRUE
  <2>1. Goes(j, "failed") /\ UNCHANGED codes
    BY <1>2, <1>4 DEF ConsumeTelegramLinkCode
  <2>2. PICK job \in Job : /\ jobs' = [jobs EXCEPT ![j] = job] /\ job.at = "failed"
                           /\ job.update = jobs[j].update /\ job.kind = jobs[j].kind
                           /\ job.user = jobs[j].user /\ job.code = jobs[j].code
                           /\ job.conversation = jobs[j].conversation
                           /\ job.round = jobs[j].round /\ job.calls = jobs[j].calls
                           /\ job.acted = jobs[j].acted
    BY <1>1, <2>1, GoesFields
  <2>3. RequestOK(job) /\ TrailOK(j, job)
    BY <1>1, <2>2 DEF RequestOK, TrailOK
  <2> QED
    BY <1>0, <1>1, <2>1, <2>2, <2>3, JobStep DEF Before, After
<1>5. CASE codes[code].used = FALSE
  <2>1. PICK owner \in Users : owner = codes[code].owner
    BY <1>3
  <2>2. PICK job : job = [jobs[j] EXCEPT !.at = "upsert", !.user = owner]
    OBVIOUS
  <2>3. /\ job \in Job /\ job.at = "upsert" /\ job.user = owner
        /\ job.update = jobs[j].update /\ job.kind = "link" /\ job.code = code
        /\ job.conversation = jobs[j].conversation
    BY <1>1, <1>2, <2>2 DEF Job
  <2>4. jobs' = [jobs EXCEPT ![j] = job] /\ codes' = [codes EXCEPT ![code].used = TRUE]
    BY <1>2, <1>5, <2>1, <2>2 DEF ConsumeTelegramLinkCode
  <2>5. PICK used : used = [codes[code] EXCEPT !.used = TRUE]
    OBVIOUS
  <2>6. used \in [owner: Users, used: BOOLEAN] /\ used.owner = owner /\ used.used = TRUE
    BY <1>3, <2>1, <2>5
  <2>7. /\ codes' \in Seq([owner: Users, used: BOOLEAN]) /\ DOMAIN codes' = DOMAIN codes
        /\ \A c \in DOMAIN codes : codes'[c] = IF c = code THEN used ELSE codes[c]
    BY <1>0, <2>4, <2>5, <2>6
  <2>8. \A c \in DOMAIN codes : /\ c \in DOMAIN codes' /\ codes'[c].owner = codes[c].owner
                                /\ codes[c].used = TRUE => codes'[c].used = TRUE
    BY <2>1, <2>6, <2>7
  <2>9. /\ jobs' \in Seq(Job) /\ DOMAIN jobs' = DOMAIN jobs
        /\ \A i \in DOMAIN jobs : jobs'[i] = IF i = j THEN job ELSE jobs[i]
        /\ \A u : JobsFor(u)' = JobsFor(u)
    BY <1>0, <2>3, <2>4, JobChanged
  <2>10. TypeOK'
    BY <1>0, <2>7, <2>9 DEF TypeOK
  <2>11. BotInv'
    BY <1>0, <2>9 DEF BotInv
  <2>12. \A x \in linked : x.code \in DOMAIN codes /\ x.code # code
    BY <1>0, <1>5 DEF LinkInv, TypeOK
  <2>13. \A i \in DOMAIN jobs : i # j /\ jobs'[i].at = "upsert" =>
           jobs[i].at = "upsert" /\ jobs'[i].code = jobs[i].code /\ jobs[i].code # code
    <3>1. \A i \in DOMAIN jobs : jobs[i].at = "upsert" => codes[jobs[i].code].used = TRUE
      BY TypedJob DEF RequestOK
    <3> QED
      BY <1>5, <2>9, <3>1
  <2>14. LinkInv'
    <3>1. \A x \in linked : codes'[x.code].owner = x.user /\ codes'[x.code].used = TRUE
      BY <1>0, <2>8, <2>12 DEF LinkInv
    <3>2. \A x \in linked : \A i \in DOMAIN jobs' : jobs'[i].at = "upsert" => x.code # jobs'[i].code
      BY <1>0, <2>3, <2>9, <2>12, <2>13 DEF LinkInv
    <3>3. \A h, i \in DOMAIN jobs' :
            jobs'[h].at = "upsert" /\ jobs'[i].at = "upsert" /\ jobs'[h].code = jobs'[i].code => h = i
      BY <1>0, <2>3, <2>9, <2>13 DEF LinkInv
    <3> QED
      BY <1>0, <2>7, <3>1, <3>2, <3>3 DEF LinkInv
  <2>15. ASSUME NEW i \in DOMAIN jobs' PROVE RequestOK(jobs[i])'
    <3>1. CASE i = j
      <4>1. RequestOK(job)'
        BY <1>0, <1>1, <1>2, <2>3, <2>6, <2>7 DEF RequestOK
      <4> QED
        BY <2>9, <3>1, <4>1
    <3>2. CASE i # j
      <4>1. PICK other : other = jobs[i]
        OBVIOUS
      <4>2. RequestOK(other) /\ jobs'[i] = other
        BY <2>9, <3>2, <4>1, TypedJob
      <4>3. RequestOK(other)'
        BY <1>0, <2>8, <4>2, RequestKept
      <4> QED
        BY <4>2, <4>3
    <3> QED
      BY <3>1, <3>2
  <2>16. TrailOK(j, job)
    BY <2>3 DEF TrailOK
  <2>17. TrailInv'
    BY <1>0, <1>1, <2>3, <2>4, <2>16, TrailJobStep DEF AssistantInv, Before, After
  <2> QED
    BY <2>10, <2>11, <2>14, <2>15, <2>17 DEF AssistantInv, TelegramInv
<1> QED
  BY <1>3, <1>4, <1>5

LEMMA LinkStep ==
  ASSUME AssistantInv, NEW j \in DOMAIN jobs, UpsertTelegramLink(j)
  PROVE  AssistantInv'
<1>0. /\ TypeOK /\ jobs \in Seq(Job) /\ BotInv /\ LinkInv
      /\ UNCHANGED <<conversations, updates, confirmed, bot, lives, handled, codes>>
  BY DEF AssistantInv, TelegramInv, TypeOK, UpsertTelegramLink, botVars
<1>1. /\ jobs[j] \in Job /\ RequestOK(jobs[j]) /\ TrailOK(j, jobs[j])
      /\ jobs[j].at = "upsert" /\ jobs[j].kind = "link" /\ jobs[j].update # 0
      /\ codes[jobs[j].code].owner = jobs[j].user /\ codes[jobs[j].code].used = TRUE
  BY TypedJob DEF UpsertTelegramLink, RequestOK
<1>2. PICK code \in DOMAIN codes : code = jobs[j].code
  BY <1>1 DEF RequestOK
<1>3. PICK chat \in TelegramChats : chat = ChatOf(j)
  BY <1>1, ChatTyped
<1>4. PICK user \in Users : user = jobs[j].user
  <2>1. codes[code] \in [owner: Users, used: BOOLEAN]
    BY CodeTyped
  <2> QED
    BY <1>1, <1>2, <2>1
<1>5. PICK new : new = [code |-> code, chat |-> chat, user |-> user, job |-> j]
  OBVIOUS
<1>6. /\ links' = [links EXCEPT ![chat] = user] /\ linked' = linked \union {new}
      /\ Goes(j, "respond")
  BY <1>2, <1>3, <1>4, <1>5 DEF UpsertTelegramLink
<1>7. PICK job \in Job : /\ jobs' = [jobs EXCEPT ![j] = job] /\ job.at = "respond"
                         /\ job.update = jobs[j].update /\ job.kind = jobs[j].kind
                         /\ job.user = jobs[j].user /\ job.code = jobs[j].code
                         /\ job.conversation = jobs[j].conversation
                         /\ job.round = jobs[j].round /\ job.calls = jobs[j].calls
                         /\ job.acted = jobs[j].acted
  BY <1>1, <1>6, GoesFields
<1>8. /\ jobs' \in Seq(Job) /\ DOMAIN jobs' = DOMAIN jobs
      /\ \A i \in DOMAIN jobs : jobs'[i] = IF i = j THEN job ELSE jobs[i]
      /\ \A u : JobsFor(u)' = JobsFor(u)
  BY <1>0, <1>7, JobChanged
<1>9. /\ links' \in [TelegramChats -> Users \union {NoUser}]
      /\ \A c \in TelegramChats : links'[c] = IF c = chat THEN user ELSE links[c]
  BY <1>0, <1>6 DEF TypeOK
<1>10. TypeOK'
  BY <1>0, <1>5, <1>6, <1>8, <1>9 DEF TypeOK
<1>11. BotInv'
  BY <1>0, <1>8 DEF BotInv
<1>12. LinkInv'
  <2>1. new.code = code /\ new.chat = chat /\ new.user = user
    BY <1>5
  <2>2. \A x \in linked : x.code # code
    BY <1>0, <1>1, <1>2 DEF LinkInv
  <2>3. \A i \in DOMAIN jobs : jobs'[i].at = "upsert" =>
          i # j /\ jobs[i].at = "upsert" /\ jobs'[i].code = jobs[i].code /\ jobs[i].code # code
    BY <1>0, <1>1, <1>2, <1>7, <1>8 DEF LinkInv
  <2>4. \A x \in linked' : codes[x.code].owner = x.user /\ codes[x.code].used = TRUE
    BY <1>0, <1>1, <1>2, <1>4, <1>6, <2>1 DEF LinkInv
  <2>5. \A x, y \in linked' : x.code = y.code => x = y
    BY <1>0, <1>6, <2>1, <2>2 DEF LinkInv
  <2>6. \A x \in linked' : \A i \in DOMAIN jobs' : jobs'[i].at = "upsert" => x.code # jobs'[i].code
    BY <1>0, <1>6, <1>8, <2>1, <2>3 DEF LinkInv
  <2>7. \A h, i \in DOMAIN jobs' :
          jobs'[h].at = "upsert" /\ jobs'[i].at = "upsert" /\ jobs'[h].code = jobs'[i].code => h = i
    BY <1>0, <1>8, <2>3 DEF LinkInv
  <2>8. \A c \in TelegramChats : links'[c] # NoUser => \E x \in linked' : x.chat = c /\ x.user = links'[c]
    BY <1>0, <1>6, <1>9, <2>1 DEF LinkInv
  <2> QED
    BY <1>0, <2>4, <2>5, <2>6, <2>7, <2>8 DEF LinkInv
<1>13. ASSUME NEW i \in DOMAIN jobs' PROVE RequestOK(jobs[i])'
  <2>1. PICK other : other = jobs'[i]
    OBVIOUS
  <2>2. RequestOK(other)
    <3>1. RequestOK(job)
      BY <1>1, <1>7 DEF RequestOK
    <3> QED
      BY <1>8, <2>1, <3>1, TypedJob
  <2>3. RequestOK(other)'
    BY <1>0, <1>6, <2>2, RequestKept
  <2> QED
    BY <2>1, <2>3
<1>14. TrailOK(j, job)
  BY <1>1, <1>7 DEF TrailOK
<1>15. TrailInv'
  BY <1>0, <1>1, <1>7, <1>14, TrailJobStep DEF AssistantInv, Before, After
<1> QED
  BY <1>10, <1>11, <1>12, <1>13, <1>15 DEF AssistantInv, TelegramInv

(***************************************************************************)
(* The bot, and what reaches it                                            *)
(***************************************************************************)

LEMMA TrailSame ==
  ASSUME TrailInv, UNCHANGED <<jobs, conversations>>
  PROVE  TrailInv'
<1>1. ASSUME NEW j \in DOMAIN jobs' PROVE TrailOK(j, jobs[j])'
  <2>1. PICK job : job = jobs[j]
    OBVIOUS
  <2>2. TrailOK(j, job)
    BY <2>1 DEF TrailInv
  <2>3. TrailOK(j, job)'
    BY <2>2 DEF TrailOK, IsStored, Stores
  <2> QED
    BY <2>1, <2>3
<1>2. ASSUME NEW k \in DOMAIN conversations', NEW i \in DOMAIN conversations'[k].messages
      PROVE  MessageOK(k, i)'
  <2>1. MessageOK(k, i)
    BY <1>2 DEF TrailInv
  <2> QED
    BY <2>1 DEF MessageOK, Stores
<1> QED
  BY <1>1, <1>2 DEF TrailInv

LEMMA QuietStep ==
  ASSUME AssistantInv, UNCHANGED <<jobs, conversations, updates, codes, links, linked>>,
         confirmed' \in 0 .. Len(updates), lives' \in 0 .. MaxLives, handled' \subseteq DOMAIN updates,
         bot' \in Bot, BotInv'
  PROVE  AssistantInv'
<1>1. TypeOK'
  BY DEF AssistantInv, TelegramInv, TypeOK
<1>2. LinkInv'
  BY DEF AssistantInv, TelegramInv, LinkInv
<1>3. \A j \in DOMAIN jobs' : RequestOK(jobs[j])'
  BY DEF AssistantInv, TelegramInv, RequestOK
<1>4. TrailInv'
  BY TrailSame DEF AssistantInv
<1> QED
  BY <1>1, <1>2, <1>3, <1>4 DEF AssistantInv, TelegramInv

\* A bot that goes on in the same life, with an offset that is not less.
LEMMA BotMoves ==
  ASSUME AssistantInv, UNCHANGED <<jobs, conversations, updates, lives, codes, links, linked>>,
         bot.at # "down", bot' \in Bot, bot'.offset >= bot.offset,
         bot'.last <= Len(updates), bot'.offset <= Len(updates) + 1,
         bot'.at \in {"wait", "send"} => bot'.next <= bot'.last /\ bot'.offset <= bot'.next + 1,
         bot'.at = "next" => bot'.offset <= bot'.next,
         confirmed' \in 0 .. Len(updates), handled' \subseteq DOMAIN updates
  PROVE  AssistantInv'
<1>1. BotInv /\ TypeOK /\ bot \in Bot /\ jobs \in Seq(Job)
  BY DEF AssistantInv, TelegramInv, TypeOK
<1>2. bot.offset \in Nat /\ bot'.offset \in Nat
  BY <1>1, Constants DEF Bot
<1>3. \A u : JobsFor(u)' = JobsFor(u)
  BY DEF JobsFor
<1>4. BotInv'
  BY <1>1, <1>2, <1>3 DEF BotInv
<1> QED
  BY <1>1, <1>4, QuietStep DEF TypeOK

LEMMA StartStopStep ==
  ASSUME AssistantInv, Start \/ Stop
  PROVE  AssistantInv'
<1>0. /\ BotInv /\ TypeOK /\ bot \in Bot /\ jobs \in Seq(Job) /\ lives \in 0 .. MaxLives
      /\ \A u : JobsFor(u)' = JobsFor(u) /\ Cardinality(JobsFor(u)) \in Nat
      /\ UNCHANGED <<jobs, conversations, updates, confirmed, handled, codes, links, linked>>
  BY FiniteJobs DEF AssistantInv, TelegramInv, TypeOK, JobsFor, Start, Stop, chatVars, backendVars
<1>1. CASE Start
  <2>1. lives' = lives + 1 /\ lives' \in 0 .. MaxLives
    BY <1>0, <1>1, Constants DEF Start
  <2>2. /\ bot' = [at |-> "poll", offset |-> 0, next |-> 1, last |-> 0, job |-> 0]
        /\ bot' \in Bot
    BY <1>1, Constants DEF Start, Bot
  <2>3. Len(updates) \in Nat
    BY <1>0 DEF TypeOK
  <2>4. BotInv'
    BY <1>0, <2>1, <2>2, <2>3, Constants DEF BotInv
  <2> QED
    BY <1>0, <2>1, <2>2, <2>4, QuietStep DEF TypeOK
<1>2. CASE Stop
  <2>1. bot' \in Bot /\ bot'.at = "down" /\ bot'.offset = bot.offset /\ bot'.last = bot.last
        /\ lives' = lives
    BY <1>0, <1>2 DEF Stop, Bot
  <2>2. BotInv'
    BY <1>0, <2>1 DEF BotInv
  <2> QED
    BY <1>0, <2>1, <2>2, QuietStep DEF TypeOK
<1> QED
  BY <1>1, <1>2

LEMMA OffsetGrows ==
  ASSUME AssistantInv, NEW u \in Nat, u = bot.next, bot.at = "next", u <= bot.last
  PROVE  /\ u \in DOMAIN updates /\ OffsetAfter(u) = u + 1
         /\ OffsetAfter(u) \in 0 .. MaxUpdates + 1 /\ OffsetAfter(u) <= Len(updates) + 1
         /\ OffsetAfter(u) >= bot.offset
         /\ u + 1 \in 1 .. MaxUpdates + 1
<1>1. BotInv /\ TypeOK /\ bot \in Bot /\ updates \in Seq(Update)
  BY DEF AssistantInv, TelegramInv, TypeOK
<1>2. bot.offset \in Nat /\ bot.last \in Nat /\ u > 0
  BY <1>1, Constants DEF Bot
<1>3. bot.offset <= u
  BY <1>1 DEF BotInv
<1>4. u <= Len(updates) /\ Len(updates) <= MaxUpdates /\ Len(updates) \in Nat
  BY <1>1, <1>2 DEF BotInv
<1>5. OffsetAfter(u) = u + 1
  BY <1>2, <1>3 DEF OffsetAfter
<1> QED
  BY <1>1, <1>2, <1>3, <1>4, <1>5, Constants

LEMMA PollStep ==
  ASSUME AssistantInv, BotStep, ~Handle
  PROVE  AssistantInv'
<1>0. /\ BotInv /\ TypeOK /\ bot \in Bot /\ updates \in Seq(Update) /\ Len(updates) \in Nat
      /\ bot.offset \in Nat /\ bot.next \in Nat /\ bot.last \in Nat /\ confirmed \in 0 .. Len(updates)
      /\ Len(updates) <= MaxUpdates /\ bot.last <= Len(updates) /\ bot.offset <= Len(updates) + 1
      /\ UNCHANGED <<jobs, conversations, updates, lives, codes, links, linked>>
      /\ bot.at # "down"
  <2>1. BotInv /\ TypeOK
    BY DEF AssistantInv, TelegramInv
  <2>2. bot \in Bot /\ updates \in Seq(Update) /\ confirmed \in 0 .. Len(updates)
    BY <2>1 DEF TypeOK
  <2>3. bot.offset \in Nat /\ bot.next \in Nat /\ bot.last \in Nat
    BY <2>2, Constants DEF Bot
  <2>4. Len(updates) <= MaxUpdates /\ bot.last <= Len(updates) /\ bot.offset <= Len(updates) + 1
    BY <2>1 DEF BotInv
  <2>5. /\ UNCHANGED <<jobs, conversations, updates, lives, codes, links, linked>>
        /\ bot.at # "down"
    BY DEF BotStep, GetUpdates, EndBatch, SkipUpdate, Help, Receive, SendMessage, chatVars, backendVars
  <2> QED
    BY <2>1, <2>2, <2>3, <2>4, <2>5
<1>1. CASE GetUpdates
  <2>1. /\ confirmed' = IF bot.offset > confirmed + 1 THEN bot.offset - 1 ELSE confirmed
        /\ UNCHANGED handled
        /\ \/ bot' = [bot EXCEPT !.at = "next", !.next = confirmed' + 1, !.last = Len(updates)]
           \/ bot' = bot /\ bot.at = "poll"
    BY <1>1 DEF GetUpdates
  <2>2. confirmed' \in 0 .. Len(updates) /\ bot.offset <= confirmed' + 1
    BY <1>0, <2>1
  <2>3. CASE bot' = [bot EXCEPT !.at = "next", !.next = confirmed' + 1, !.last = Len(updates)]
    <3>1. confirmed' + 1 \in 1 .. MaxUpdates + 1 /\ Len(updates) \in 0 .. MaxUpdates
      <4>1. PICK c \in Nat, n \in Nat : c = confirmed' /\ n = Len(updates) /\ c <= n /\ n <= MaxUpdates
        BY <1>0, <2>2
      <4>2. c <= n /\ n <= MaxUpdates /\ MaxUpdates \in Nat
        BY <4>1, Constants
      <4>3. c + 1 \in 1 .. MaxUpdates + 1 /\ n \in 0 .. MaxUpdates
        BY <4>2
      <4> QED
        BY <4>1, <4>3
    <3>2. PICK next \in 1 .. MaxUpdates + 1, last \in 0 .. MaxUpdates : next = confirmed' + 1 /\ last = Len(updates)
      BY <3>1
    <3>3. /\ bot' \in Bot /\ bot'.at = "next" /\ bot'.next = next /\ bot'.last = last
          /\ bot'.offset = bot.offset
      BY <1>0, <2>3, <3>2 DEF Bot
    <3> QED
      BY <1>0, <2>1, <2>2, <3>2, <3>3, BotMoves DEF TypeOK
  <2>4. CASE bot' = bot /\ bot.at = "poll"
    BY <1>0, <2>1, <2>2, <2>4, BotMoves DEF TypeOK
  <2> QED
    BY <2>1, <2>3, <2>4
<1>2. CASE EndBatch
  <2>1. bot' \in Bot /\ bot'.at = "poll" /\ bot'.offset = bot.offset /\ bot'.last = bot.last
        /\ UNCHANGED <<confirmed, handled>>
    BY <1>0, <1>2 DEF EndBatch, Bot
  <2> QED
    BY <1>0, <2>1, BotMoves DEF TypeOK
<1>3. CASE SkipUpdate
  <2>1. PICK u \in Nat : /\ u = bot.next /\ bot.at = "next" /\ u <= bot.last
    BY <1>0, <1>3 DEF SkipUpdate
  <2>2. /\ u \in DOMAIN updates /\ OffsetAfter(u) = u + 1
        /\ OffsetAfter(u) \in 0 .. MaxUpdates + 1 /\ OffsetAfter(u) <= Len(updates) + 1
        /\ OffsetAfter(u) >= bot.offset /\ u + 1 \in 1 .. MaxUpdates + 1
    BY <2>1, OffsetGrows
  <2>3. PICK offset \in 0 .. MaxUpdates + 1, next \in 1 .. MaxUpdates + 1 :
          offset = OffsetAfter(u) /\ next = u + 1
    BY <2>2
  <2>4. bot' = [[bot EXCEPT !.at = "next", !.next = next, !.job = 0] EXCEPT !.offset = offset]
    BY <1>3, <2>1, <2>3 DEF SkipUpdate, Following
  <2>5. /\ bot' \in Bot /\ bot'.at = "next" /\ bot'.next = next /\ bot'.offset = offset
        /\ bot'.last = bot.last
    BY <1>0, <2>4 DEF Bot
  <2>6. handled' \subseteq DOMAIN updates /\ UNCHANGED confirmed
    BY <1>0, <1>3, <2>1, <2>2 DEF SkipUpdate, Finish, TypeOK
  <2> QED
    BY <1>0, <2>2, <2>3, <2>5, <2>6, BotMoves DEF TypeOK
<1>4. CASE Help
  <2>1. PICK u \in Nat : /\ u = bot.next /\ bot.at = "next" /\ u <= bot.last
    BY <1>0, <1>4 DEF Help
  <2>2. /\ OffsetAfter(u) = u + 1 /\ OffsetAfter(u) <= Len(updates) + 1
        /\ OffsetAfter(u) \in 0 .. MaxUpdates + 1 /\ OffsetAfter(u) >= bot.offset
    BY <2>1, OffsetGrows
  <2>3. PICK offset \in 0 .. MaxUpdates + 1 : offset = OffsetAfter(u)
    BY <2>2
  <2>4. bot' = [bot EXCEPT !.at = "send", !.offset = offset] /\ UNCHANGED <<confirmed, handled>>
    BY <1>4, <2>1, <2>3 DEF Help
  <2>5. /\ bot' \in Bot /\ bot'.at = "send" /\ bot'.next = u /\ bot'.offset = offset
        /\ bot'.last = bot.last
    BY <1>0, <2>1, <2>4 DEF Bot
  <2> QED
    BY <1>0, <2>1, <2>2, <2>3, <2>4, <2>5, BotMoves DEF TypeOK
<1>5. CASE Receive
  <2>1. /\ bot' \in Bot /\ bot'.at = "send" /\ bot'.offset = bot.offset /\ bot'.last = bot.last
        /\ bot'.next = bot.next /\ bot.at = "wait" /\ UNCHANGED <<confirmed, handled>>
    BY <1>0, <1>5 DEF Receive, Bot
  <2>2. bot.next <= bot.last /\ bot.offset <= bot.next + 1
    BY <1>0, <2>1 DEF BotInv
  <2> QED
    BY <1>0, <2>1, <2>2, BotMoves DEF TypeOK
<1>6. CASE SendMessage
  <2>1. bot.at = "send" /\ bot.next <= bot.last /\ bot.offset <= bot.next + 1
    BY <1>0, <1>6 DEF BotInv, SendMessage
  <2>2. PICK next \in 1 .. MaxUpdates + 1 : next = bot.next + 1
    <3>1. bot.next + 1 \in 1 .. MaxUpdates + 1
      BY <1>0, <2>1, Constants
    <3> QED
      BY <3>1
  <2>3. bot' = [bot EXCEPT !.at = "next", !.next = next, !.job = 0] /\ UNCHANGED confirmed
    BY <1>6, <2>2 DEF SendMessage, Following
  <2>4. /\ bot' \in Bot /\ bot'.at = "next" /\ bot'.next = next /\ bot'.offset = bot.offset
        /\ bot'.last = bot.last
    BY <1>0, <2>3 DEF Bot
  <2>5. bot.next \in DOMAIN updates
    BY <1>0, <2>1, Constants DEF Bot
  <2>6. handled' \subseteq DOMAIN updates
    BY <1>0, <1>6, <2>5 DEF SendMessage, Finish, TypeOK
  <2> QED
    BY <1>0, <2>1, <2>2, <2>3, <2>4, <2>6, BotMoves DEF TypeOK
<1> QED
  BY <1>1, <1>2, <1>3, <1>4, <1>5, <1>6 DEF BotStep

LEMMA SendUpdateStep ==
  ASSUME AssistantInv, SendUpdate
  PROVE  AssistantInv'
<1>0. /\ TypeOK /\ BotInv /\ LinkInv /\ updates \in Seq(Update) /\ Len(updates) \in Nat
      /\ UNCHANGED <<jobs, conversations, confirmed, bot, lives, handled, codes, links, linked>>
  BY DEF AssistantInv, TelegramInv, TypeOK, SendUpdate, chatVars, botVars, backendVars
<1>1. PICK u \in Update : /\ u.kind = "link" => u.code \in DOMAIN codes
                          /\ updates' = Append(updates, u)
  BY DEF SendUpdate
<1>2. /\ updates' \in Seq(Update) /\ Len(updates') = Len(updates) + 1
      /\ \A n \in DOMAIN updates : n \in DOMAIN updates' /\ updates'[n] = updates[n]
      /\ \A n \in DOMAIN updates' : n \in DOMAIN updates \/ updates'[n] = u
  BY <1>0, <1>1
<1>3. TypeOK'
  <2>1. confirmed \in 0 .. Len(updates')
    BY <1>0, <1>2 DEF TypeOK
  <2> QED
    BY <1>0, <1>2, <2>1 DEF TypeOK
<1>4. BotInv'
  <2>1. Len(updates') <= MaxUpdates
    BY <1>0, <1>2, Constants DEF SendUpdate
  <2>2. bot.last \in Nat /\ bot.offset \in Nat
    BY <1>0, Constants DEF TypeOK, Bot
  <2>3. \A n : JobsFor(n)' = JobsFor(n)
    BY <1>0 DEF JobsFor
  <2> QED
    BY <1>0, <1>2, <2>1, <2>2, <2>3 DEF BotInv
<1>5. LinkInv'
  BY <1>0, <1>1, <1>2 DEF LinkInv
<1>6. ASSUME NEW j \in DOMAIN jobs' PROVE RequestOK(jobs[j])'
  <2>1. PICK job : job = jobs[j] /\ RequestOK(job)
    BY <1>0, TypedJob
  <2>2. RequestOK(job)'
    BY <1>0, <1>2, <2>1 DEF RequestOK
  <2> QED
    BY <1>0, <2>1, <2>2
<1>7. TrailInv'
  BY <1>0, TrailSame DEF AssistantInv
<1> QED
  BY <1>3, <1>4, <1>5, <1>6, <1>7 DEF AssistantInv, TelegramInv

LEMMA NewCodeStep ==
  ASSUME AssistantInv, NEW u \in Users, CreateTelegramLinkCode(u)
  PROVE  AssistantInv'
<1>0. /\ TypeOK /\ BotInv /\ LinkInv
      /\ UNCHANGED <<jobs, conversations, updates, confirmed, bot, lives, handled, links, linked>>
  BY DEF AssistantInv, TelegramInv, CreateTelegramLinkCode, chatVars, botVars
<1>1. PICK table : table = [owner: Users, used: BOOLEAN]
  OBVIOUS
<1>2. PICK code : code = [owner |-> u, used |-> FALSE]
  OBVIOUS
<1>3. code \in table /\ codes \in Seq(table) /\ codes' = Append(codes, code)
  BY <1>0, <1>1, <1>2 DEF TypeOK, CreateTelegramLinkCode
<1>4. /\ codes' \in Seq(table)
      /\ \A c \in DOMAIN codes : c \in DOMAIN codes' /\ codes'[c] = codes[c]
  BY <1>3
<1>5. TypeOK'
  BY <1>0, <1>1, <1>4 DEF TypeOK
<1>6. BotInv'
  BY <1>0 DEF BotInv, JobsFor
<1>7. LinkInv'
  <2>1. \A x \in linked : x.code \in DOMAIN codes
    BY <1>0 DEF TypeOK
  <2> QED
    BY <1>0, <1>4, <2>1 DEF LinkInv
<1>8. ASSUME NEW j \in DOMAIN jobs' PROVE RequestOK(jobs[j])'
  <2>1. PICK job : job = jobs[j] /\ RequestOK(job)
    BY <1>0, TypedJob
  <2>2. RequestOK(job)'
    BY <1>0, <1>4, <2>1, RequestKept
  <2> QED
    BY <1>0, <2>1, <2>2
<1>9. TrailInv'
  BY <1>0, TrailSame DEF AssistantInv
<1> QED
  BY <1>5, <1>6, <1>7, <1>8, <1>9 DEF AssistantInv, TelegramInv

LEMMA UnchangedStep ==
  ASSUME AssistantInv, UNCHANGED vars
  PROVE  AssistantInv'
<1>1. /\ UNCHANGED <<jobs, conversations, updates, confirmed, bot, lives, handled, codes, links, linked>>
      /\ TypeOK /\ BotInv
  BY DEF vars, AssistantInv, TelegramInv
<1>2. BotInv'
  BY <1>1 DEF BotInv, JobsFor
<1> QED
  BY <1>1, <1>2, QuietStep DEF TypeOK

LEMMA ChatSteps ==
  ASSUME AssistantInv, NEW j \in DOMAIN jobs, ChatStep(j),
         UNCHANGED <<updates, confirmed, bot, lives, handled, codes, links, linked>>
  PROVE  AssistantInv'
<1>1. CASE Transcribe(j)
  BY <1>1, TranscribeStep DEF Transcribe, Alone
<1>2. CASE CreateConversation(j)
  BY <1>2, CreateConversationStep
<1>3. CASE GetConversation(j)
  BY <1>3, GetConversationStep DEF GetConversation, Alone
<1>4. CASE AppendQuestion(j)
  BY <1>4, AppendQuestionStep
<1>5. CASE CreateChatCompletion(j)
  BY <1>5, CompletionStep DEF CreateChatCompletion, Alone
<1>6. CASE DispatchTool(j)
  BY <1>6, DispatchStep DEF DispatchTool, Alone
<1>7. CASE AppendAnswer(j)
  BY <1>7, AppendAnswerStep
<1>8. CASE Respond(j)
  BY <1>8, EndStep DEF Respond, Alone, Ended
<1>9. CASE Fail(j)
  BY <1>9, EndStep DEF Fail, Alone
<1> QED
  BY <1>1, <1>2, <1>3, <1>4, <1>5, <1>6, <1>7, <1>8, <1>9 DEF ChatStep

LEMMA AssistantStep == AssistantInv /\ [Next]_vars => AssistantInv'
<1> SUFFICES ASSUME AssistantInv, [Next]_vars PROVE AssistantInv'
  OBVIOUS
<1>1. CASE SendUpdate
  BY <1>1, SendUpdateStep
<1>2. CASE Start \/ Stop
  BY <1>2, StartStopStep
<1>3. CASE BotStep
  BY <1>3, HandleStep, PollStep
<1>4. ASSUME NEW u \in Users, CreateTelegramLinkCode(u) PROVE AssistantInv'
  BY <1>4, NewCodeStep
<1>5. ASSUME NEW j \in DOMAIN jobs, ChatStep(j), UNCHANGED <<updates, botVars, backendVars>>
      PROVE  AssistantInv'
  BY <1>5, ChatSteps DEF botVars, backendVars
<1>6. ASSUME NEW j \in DOMAIN jobs,
             ConsumeTelegramLinkCode(j) \/ UpsertTelegramLink(j) \/ ResolveTelegramChat(j) \/ Act(j)
      PROVE  AssistantInv'
  BY <1>6, ConsumeStep, LinkStep, ResolveStep, ActStep
<1>7. CASE AskChat /\ UNCHANGED <<updates, botVars, backendVars>>
  BY <1>7, AskStep DEF botVars, backendVars
<1>8. CASE UNCHANGED vars
  BY <1>8, UnchangedStep
<1> QED
  BY <1>1, <1>2, <1>3, <1>4, <1>5, <1>6, <1>7, <1>8 DEF Next, TelegramNext

LEMMA AssistantInvariant == Spec => []AssistantInv
BY AssistantInitInv, AssistantStep, PTL DEF Spec

\* Every reachable state of the bot, the requests and the conversations is
\* well-typed.
THEOREM AssistantTypeCorrect == Spec => []TypeOK
<1>1. AssistantInv => TypeOK
  BY DEF AssistantInv, TelegramInv
<1> QED
  BY <1>1, AssistantInvariant, PTL

\* However often the bot is stopped and whatever answer is lost, an update makes
\* one request in each of its lives.
THEOREM UpdatesOncePerLife == Spec => []OncePerLife
<1>1. AssistantInv => OncePerLife
  <2> SUFFICES ASSUME AssistantInv, NEW u \in DOMAIN updates
               PROVE  Cardinality(JobsFor(u)) <= lives
    BY DEF OncePerLife, JobsFor
  <2>1. u \in Nat \ {0}
    BY DEF AssistantInv, TelegramInv, TypeOK
  <2> QED
    BY <2>1 DEF AssistantInv, TelegramInv, BotInv
<1> QED
  BY <1>1, AssistantInvariant, PTL

\* However link requests overlap, fail and are repeated, a code links one chat,
\* and a chat acts for users whose codes were sent there.
THEOREM RequestsActForTheirUsers == Spec => []ChatsActForTheirUsers
<1>1. AssistantInv => ChatsActForTheirUsers
  <2> SUFFICES ASSUME AssistantInv PROVE ChatsActForTheirUsers
    OBVIOUS
  <2>1. ASSUME NEW j \in DOMAIN jobs, jobs[j].update # 0, jobs[j].kind # "link", jobs[j].user # NoUser
        PROVE  \E x \in linked : x.chat = ChatOf(j) /\ x.user = jobs[j].user
    BY <2>1, TypedJob DEF RequestOK, ChatOf
  <2> QED
    BY <2>1 DEF AssistantInv, TelegramInv, LinkInv, ChatsActForTheirUsers
<1> QED
  BY <1>1, AssistantInvariant, PTL

\* However chats of a conversation overlap and fail, each leaves its question
\* before it acts and its answer behind its question, among its user's messages.
THEOREM ChatsAreStored == Spec => []ChatsLeaveATrail
<1>1. AssistantInv => ChatsLeaveATrail
  <2> SUFFICES ASSUME AssistantInv PROVE ChatsLeaveATrail
    OBVIOUS
  <2>1. ASSUME NEW j \in Chats, NEW k, k = jobs[j].conversation
        PROVE  /\ jobs[j].acted > 0 => \E i \in DOMAIN conversations[k].messages : Stores(k, i, "user", j)
               /\ jobs[j].at = "done" /\ k # 0 =>
                    \E i \in DOMAIN conversations[k].messages : Stores(k, i, "assistant", j)
               /\ jobs[j].acted <= Rounds * MaxCalls
    <3>1. j \in DOMAIN jobs /\ jobs[j].kind \in {"text", "audio"}
      BY DEF Chats
    <3>2. TrailOK(j, jobs[j])
      BY <3>1, TypedJob
    <3>3. /\ jobs[j].acted > 0 => IsStored(k, "user", j)
          /\ jobs[j].at = "done" /\ k # 0 => IsStored(k, "assistant", j)
          /\ jobs[j].acted <= Rounds * MaxCalls
      BY <2>1, <3>1, <3>2 DEF TrailOK
    <3> QED
      BY <3>3 DEF IsStored
  <2>2. ASSUME NEW k \in DOMAIN conversations, NEW i \in DOMAIN conversations[k].messages,
               NEW j, j = conversations[k].messages[i].of
        PROVE  /\ conversations[k].owner = jobs[j].user
               /\ Stores(k, i, "assistant", j) =>
                    /\ \E h \in 1 .. i - 1 : Stores(k, h, "user", j)
                    /\ \A h \in 1 .. i - 1 : ~Stores(k, h, "assistant", j)
    <3>1. MessageOK(k, i)
      BY DEF AssistantInv, TrailInv
    <3>2. Stores(k, i, "assistant", j) => conversations[k].messages[i].role = "assistant"
      BY DEF Stores
    <3> QED
      BY <2>2, <3>1, <3>2 DEF MessageOK
  <2> QED
    BY <2>1, <2>2 DEF ChatsLeaveATrail
<1> QED
  BY <1>1, AssistantInvariant, PTL
=============================================================================
