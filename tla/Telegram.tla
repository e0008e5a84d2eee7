------------------------------ MODULE Telegram ------------------------------
(***************************************************************************)
(* The traffic with Telegram: the calls of TelegramClient, the session of  *)
(* the grammers client they may go through, and the bandwidth schedule     *)
(* their bodies are paid on.  All of it runs in one process, in tasks that *)
(* tokio interleaves; no step of one part reads or writes what another     *)
(* keeps (src/src/telegram/mod.rs holds the two backends side by side,     *)
(* src/src/limits.rs knows nothing of them).                               *)
(***************************************************************************)
EXTENDS TelegramCalls, Session, Bandwidth

telegramVars == <<callVars, sessionVars, bandwidthVars>>

TelegramInit == CallsInit /\ SessionInit /\ BandwidthInit

CallsMove == CallsNext /\ UNCHANGED <<sessionVars, bandwidthVars>>
SessionMoves == SessionNext /\ UNCHANGED <<callVars, bandwidthVars>>
BandwidthMoves == BandwidthNext /\ UNCHANGED <<callVars, sessionVars>>

TelegramNext == CallsMove \/ SessionMoves \/ BandwidthMoves

TelegramSpec == TelegramInit /\ [][TelegramNext]_telegramVars /\ CallsFairness

\* Every part keeps its invariant beside the others: what a call was answered
\* is true of the chat, only the holder of write_lock is at work on the session,
\* whose update_state has at most one row, and the schedule is well typed.
TelegramInv == CallsInv /\ SessionInv /\ BandwidthTypeOK

=============================================================================
