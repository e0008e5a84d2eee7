----------------------------- MODULE MCTelegram -----------------------------
(* One instance for TLC of the traffic with Telegram.  Its parts share no  *)
(* variable, so that what one does tells nothing about the others: in a    *)
(* behaviour one of them moves, and each invariant is looked at in the     *)
(* behaviours of its part.                                                 *)
EXTENDS Telegram

VARIABLE part

CONSTANTS h1

MCInfo == {[auth |-> h1, bot |-> "unknown", self |-> "unknown"],
           [auth |-> NoHash, bot |-> "yes", self |-> "yes"],
           [auth |-> NoHash, bot |-> "unknown", self |-> "no"]}

\* The messages stored earlier matter to the calls alone.
Init ==
    /\ TelegramInit
    /\ part \in {"calls", "session", "bandwidth"}
    /\ part # "calls" => \A m \in Msg : chat[m] = "unsent"
    /\ part # "bandwidth" => direction = "upload"

Next ==
    /\ \/ part = "calls" /\ CallsMove
       \/ part = "session" /\ SessionMoves
       \/ part = "bandwidth" /\ BandwidthMoves
    /\ UNCHANGED part

Spec == Init /\ [][Next]_<<part, telegramVars>> /\ CallsFairness

=============================================================================
