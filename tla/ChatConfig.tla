----------------------------- MODULE ChatConfig -----------------------------
(***************************************************************************)
(* The configuration of a chat in Redis (state.py), from the bot's being   *)
(* added to the chat until its removal (onboarding.py and the handlers of  *)
(* telegram_app.py), and the panel's list of chats, which stores missing   *)
(* titles on its way.                                                      *)
(*                                                                         *)
(* Each update is a task of its own and each handler runs in a thread, so  *)
(* updates are handled in any order and between any two Redis calls of     *)
(* another handler.                                                        *)
(***************************************************************************)
EXTENDS Integers

CONSTANTS
  Chats,
  Private,  \* those that are private chats and have no title
  MaxMoves  \* bound: what people do

ASSUME ChatConfigAssumption ==
  /\ Private \subseteq Chats
  /\ MaxMoves \in Nat

VARIABLES
  config,   \* aiwip:botcfg, of each chat: absent, or with a title or without
  member,   \* whether the bot is in the chat
  updates,  \* my_chat_member updates not handled yet, of each chat
  prompted, \* whether the chat shows the button to configure it
  tapped,   \* whether a tap on that button is being handled
  refresh,  \* the panel's list of chats while it is being opened
  moves     \* what people did so far

configVars == <<config, member, updates, prompted, tapped, refresh>>

Stored == {"none", "untitled", "titled"}
NoRefresh == [pc |-> "idle", todo |-> {}, bare |-> {}, titles |-> {}]
Refresh == [pc : {"idle", "look", "fill"}, todo : SUBSET Chats,
            bare : SUBSET Chats, titles : SUBSET Chats]

(* Chats may have been configured before titles were stored. *)
ConfigInit ==
  /\ config \in [Chats -> Stored]
  /\ \A c \in Private : config[c] # "titled"
  /\ member = [c \in Chats |-> config[c] # "none"]
  /\ updates = [c \in Chats |-> {}]
  /\ prompted = [c \in Chats |-> FALSE]
  /\ tapped = [c \in Chats |-> FALSE]
  /\ refresh = NoRefresh
  /\ moves = 0

Move == moves < MaxMoves /\ moves' = moves + 1

(* list_configured_chats. *)
Configured == {c \in Chats : config[c] # "none"}

(* set_chat_config keeps the stored title when it is given none. *)
SetConfig(c, title) ==
  config' = [config EXCEPT
    ![c] = IF title \/ @ = "titled" THEN "titled" ELSE "untitled"]
-----------------------------------------------------------------------------
(* Someone adds the bot to the chat, or removes it. *)
Join(c) ==
  /\ ~member[c]
  /\ Move
  /\ member' = [member EXCEPT ![c] = TRUE]
  /\ updates' = [updates EXCEPT ![c] = @ \cup {"added"}]
  /\ UNCHANGED <<config, prompted, tapped, refresh>>

Leave(c) ==
  /\ member[c]
  /\ Move
  /\ member' = [member EXCEPT ![c] = FALSE]
  /\ updates' = [updates EXCEPT ![c] = @ \cup {"removed"}]
  /\ UNCHANGED <<config, prompted, tapped, refresh>>

(* on_bot_added_to_group: an unconfigured chat is asked to choose. *)
BotAdded(c) ==
  /\ "added" \in updates[c]
  /\ updates' = [updates EXCEPT ![c] = @ \ {"added"}]
  /\ prompted' = [prompted EXCEPT
       ![c] = @ \/ (config[c] = "none" /\ member[c])]
  /\ UNCHANGED <<config, member, tapped, refresh, moves>>

(* on_bot_removed_from_group: clear_chat_config. *)
BotRemoved(c) ==
  /\ "removed" \in updates[c]
  /\ updates' = [updates EXCEPT ![c] = @ \ {"removed"}]
  /\ config' = [config EXCEPT ![c] = "none"]
  /\ UNCHANGED <<member, prompted, tapped, refresh, moves>>

(* _group_text: a message in an unconfigured group is answered by the      *)
(* same question.                                                          *)
AskAgain(c) ==
  /\ c \notin Private
  /\ member[c]
  /\ config[c] = "none"
  /\ ~prompted[c]
  /\ prompted' = [prompted EXCEPT ![c] = TRUE]
  /\ UNCHANGED <<config, member, updates, tapped, refresh, moves>>

(* Someone chooses the internal destination, the only one on offer... *)
TapDestination(c) ==
  /\ prompted[c]
  /\ ~tapped[c]
  /\ Move
  /\ tapped' = [tapped EXCEPT ![c] = TRUE]
  /\ UNCHANGED <<config, member, updates, prompted, refresh>>

(* ...and handle_destination_choice stores it.  The message that asked     *)
(* loses its button, unless Telegram refuses to edit it.                   *)
StoreDestination(c) ==
  /\ tapped[c]
  /\ tapped' = [tapped EXCEPT ![c] = FALSE]
  /\ SetConfig(c, c \notin Private)
  /\ \E kept \in BOOLEAN :
       prompted' = [prompted EXCEPT ![c] = @ /\ kept]
  /\ UNCHANGED <<member, updates, refresh, moves>>
-----------------------------------------------------------------------------
refreshRest == <<member, updates, prompted, tapped, moves>>

(* admin:chats lists the configured chats... *)
OpenChats ==
  /\ refresh.pc = "idle"
  /\ refresh' = [NoRefresh EXCEPT !.pc = "look", !.todo = Configured]
  /\ UNCHANGED <<config, refreshRest>>

(* Mutant: Telegram is asked for every title. *)
LookAtTitleAlways(c) ==
  /\ refresh.pc = "look"
  /\ c \in refresh.todo
  /\ \E answers \in BOOLEAN :
       refresh' = [refresh EXCEPT
         !.todo = @ \ {c},
         !.bare = IF config[c] # "titled" THEN @ \cup {c} ELSE @,
         !.titles = IF answers /\ c \notin Private THEN @ \cup {c} ELSE @]
  /\ UNCHANGED <<config, refreshRest>>

(* ...reads each one's configuration, and asks Telegram for the title of a *)
(* chat that has none stored, or no configuration any more.  bare is what  *)
(* it found, titles what Telegram answered.                                *)
LookAtTitle(c) ==
  /\ refresh.pc = "look"
  /\ c \in refresh.todo
  /\ \E answers \in BOOLEAN :
       refresh' = [refresh EXCEPT
         !.todo = @ \ {c},
         !.bare = IF config[c] # "titled" THEN @ \cup {c} ELSE @,
         !.titles = IF answers /\ config[c] # "titled" /\ c \notin Private
                    THEN @ \cup {c} ELSE @]
  /\ UNCHANGED <<config, refreshRest>>

StartFill ==
  /\ refresh.pc = "look"
  /\ refresh.todo = {}
  /\ refresh' = [refresh EXCEPT !.pc = "fill", !.todo = refresh.titles]
  /\ UNCHANGED <<config, refreshRest>>

(* _admin_chats reads each of them again and stores the title if there is  *)
(* none, in a configuration made up on the spot when there is none.        *)
FillTitle(c) ==
  /\ refresh.pc = "fill"
  /\ c \in refresh.todo
  /\ refresh' = [refresh EXCEPT !.todo = @ \ {c}]
  /\ SetConfig(c, TRUE)
  /\ UNCHANGED refreshRest

(* The list is shown; or the admin is not linked any more, and it is not. *)
ShowChats ==
  /\ refresh.pc = "fill"
  /\ refresh.todo = {} \/ refresh.todo = refresh.titles
  /\ refresh' = NoRefresh
  /\ UNCHANGED <<config, refreshRest>>
-----------------------------------------------------------------------------
ConfigNext ==
  \/ \E c \in Chats :
       \/ Join(c)
       \/ Leave(c)
       \/ BotAdded(c)
       \/ BotRemoved(c)
       \/ AskAgain(c)
       \/ TapDestination(c)
       \/ StoreDestination(c)
       \/ LookAtTitle(c)
       \/ FillTitle(c)
  \/ OpenChats
  \/ StartFill
  \/ ShowChats

ConfigTypeOK ==
  /\ config \in [Chats -> Stored]
  /\ member \in [Chats -> BOOLEAN]
  /\ updates \in [Chats -> SUBSET {"added", "removed"}]
  /\ prompted \in [Chats -> BOOLEAN]
  /\ tapped \in [Chats -> BOOLEAN]
  /\ refresh \in Refresh
  /\ moves \in 0..MaxMoves
=============================================================================
