----------------------------- MODULE StorageChat -----------------------------
(***************************************************************************)
(* What the rest of tg2s3 may rely on when it calls TelegramClient         *)
(* (src/src/telegram/mod.rs), whatever happens to requests and replies: a  *)
(* send posts at most one message; a message is erased only when a call    *)
(* asked for it, and stays erased; a call that reports its messages gone   *)
(* is right, and so is one that reports a message stored.  A call that     *)
(* reports an error promises nothing: what it asked for may have happened, *)
(* or may happen later.                                                    *)
(***************************************************************************)
CONSTANTS Msg, Call, NoCall

VARIABLES
    chat,    \* "unsent", "present" or "deleted" per message
    sender,  \* the call that posted the message
    asked,   \* the messages a call is about, and whether it posts or erases
    report   \* what the call reported: "open", "stored", "gone" or "error"

chatVars == <<chat, sender, asked, report>>

Nothing == [op |-> "none", msgs |-> {}]

Init ==
    /\ chat \in [Msg -> {"unsent", "present"}]
    /\ sender = [m \in Msg |-> NoCall]
    /\ asked = [c \in Call |-> Nothing]
    /\ report = [c \in Call |-> "open"]

AskPost(c) ==
    /\ asked[c] = Nothing
    /\ asked' = [asked EXCEPT ![c] = [op |-> "post", msgs |-> {}]]
    /\ UNCHANGED <<chat, sender, report>>

AskErase(c, msgs) ==
    /\ asked[c] = Nothing
    /\ asked' = [asked EXCEPT ![c] = [op |-> "erase", msgs |-> msgs]]
    /\ UNCHANGED <<chat, sender, report>>

Post(m, c) ==
    /\ asked[c].op = "post"
    /\ chat[m] = "unsent"
    /\ \A n \in Msg : sender[n] # c
    /\ chat' = [chat EXCEPT ![m] = "present"]
    /\ sender' = [sender EXCEPT ![m] = c]
    /\ UNCHANGED <<asked, report>>

\* The messages of a call to erase; those of a call to post, once it knows
\* them, only when it turns them down.
Erase(c) ==
    /\ chat' = [m \in Msg |-> IF m \in asked[c].msgs /\ chat[m] = "present"
                              THEN "deleted" ELSE chat[m]]
    /\ report[c] \in {"open", "error"}
    /\ UNCHANGED <<sender, asked, report>>

TurnDown(c) ==
    /\ asked[c].op = "post" /\ report[c] = "open"
    /\ asked' = [asked EXCEPT ![c].msgs = {m \in Msg : sender[m] = c}]
    /\ report' = [report EXCEPT ![c] = "error"]
    /\ UNCHANGED <<chat, sender>>

ReportStored(c) ==
    /\ asked[c].op = "post" /\ report[c] = "open"
    /\ \E m \in Msg : sender[m] = c /\ chat[m] = "present"
    /\ report' = [report EXCEPT ![c] = "stored"]
    /\ UNCHANGED <<chat, sender, asked>>

ReportGone(c) ==
    /\ asked[c].op = "erase" /\ report[c] = "open"
    /\ \A m \in asked[c].msgs : chat[m] = "deleted"
    /\ report' = [report EXCEPT ![c] = "gone"]
    /\ UNCHANGED <<chat, sender, asked>>

ReportError(c) ==
    /\ asked[c] # Nothing /\ report[c] = "open"
    /\ report' = [report EXCEPT ![c] = "error"]
    /\ UNCHANGED <<chat, sender, asked>>

Next ==
    \E c \in Call :
        \/ AskPost(c)
        \/ \E msgs \in SUBSET Msg : AskErase(c, msgs)
        \/ \E m \in Msg : Post(m, c)
        \/ Erase(c) \/ TurnDown(c)
        \/ ReportStored(c) \/ ReportGone(c) \/ ReportError(c)

Spec == Init /\ [][Next]_chatVars

============================================================================
