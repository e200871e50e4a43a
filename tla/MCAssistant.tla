---------------------------- MODULE MCAssistant ----------------------------
(***************************************************************************)
(* The requests that come through Telegram, and chats of other clients     *)
(* that share conversations, each explored on its own: the conversation of *)
(* a Telegram chat is always new.                                          *)
(***************************************************************************)
EXTENDS Assistant

VARIABLE focus

MCInit == Init /\ focus \in {"telegram", "chats"}

\* Chats are interchangeable, and so are users: the first of either in a
\* behaviour may be any fixed one.
Representative ==
  /\ updates' # <<>> => updates'[1].chat = CHOOSE chat \in TelegramChats : TRUE
  /\ codes' # <<>> => codes'[1].owner = CHOOSE u \in Users : TRUE

MCNext ==
  /\ \/ focus = "telegram" /\ TelegramNext
     \/ focus = "chats" /\ ChatNext /\ UNCHANGED <<updates, botVars, backendVars>>
  /\ Representative
  /\ UNCHANGED focus

MCSpec == MCInit /\ [][MCNext]_<<vars, focus>> /\ WF_vars(BotStep)
=============================================================================
