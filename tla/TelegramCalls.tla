---------------------------- MODULE TelegramCalls ----------------------------
(***************************************************************************)
(* The calls of TelegramClient that change the storage chat: sending a     *)
(* document, deleting one message, deleting a batch, over the Bot API with *)
(* its retries (src/src/telegram/bot_api.rs) or over grammers              *)
(* (src/src/telegram/grammers.rs).  A request may arrive late, after its   *)
(* sender gave it up and sent another, or never; Telegram may execute a    *)
(* request and fail to say so; a reply may be lost or be unreadable.       *)
(*                                                                         *)
(* Back-off delays are abstracted: a sleeping call wakes some time later.  *)
(* A batch is one chunk of at most 100 messages.                           *)
(***************************************************************************)
EXTENDS Integers, FiniteSets

CONSTANTS Msg, Call, NoCall,
          MaxAttempts   \* 5 in retry()

ASSUME AttemptsAssumption == MaxAttempts \in Nat \ {0}
ASSUME NoCallAssumption == NoCall \notin Call

VARIABLES
    chat,      \* "unsent", "present" or "deleted" per message
    sender,    \* the call that posted the message, NoCall for older ones
    call,      \* what each call of the client is doing
    requests   \* requests under way: <<call, op, attempt>>

callVars == <<chat, sender, call, requests>>

Backend == {"bot_api", "grammers"}

NewCall == [op |-> "none", backend |-> "bot_api", msgs |-> {}, pc |-> "idle",
            attempt |-> 0, reply |-> "none", result |-> "none"]

\* A "discard" is a send whose message turned out to be no document and is
\* being deleted again.  msgs: the messages the call knows it is about.
CallsTypeOK ==
    /\ chat \in [Msg -> {"unsent", "present", "deleted"}]
    /\ sender \in [Msg -> Call \cup {NoCall}]
    /\ call \in [Call ->
         [op : {"none", "send", "discard", "delete", "batch"}, backend : Backend,
          msgs : SUBSET Msg, pc : {"idle", "waiting", "sleeping", "done"},
          attempt : 0..(MaxAttempts - 1),
          reply : {"none", "ok", "bare", "missing", "refused", "busy", "garbled"},
          result : {"none", "stored", "gone", "error"}]]
    /\ requests \in SUBSET (Call \X {"send", "discard", "delete", "batch"}
                                 \X (0..(MaxAttempts - 1)))

\* Messages stored earlier are in the chat.
CallsInit ==
    /\ chat \in [Msg -> {"unsent", "present"}]
    /\ sender = [m \in Msg |-> NoCall]
    /\ call = [c \in Call |-> NewCall]
    /\ requests = {}

----------------------------------------------------------------------------
(* The client.                                                             *)

\* Mutant: sendDocument goes through retry() like the other methods.
Idempotent_sendToo(op) == op \in {"send", "delete", "batch", "discard"}

\* upload_stream posts its one request itself; everything else is retried.
Idempotent(op) == op # "send"

\* Only grammers' own flood waits are repeated, inside the library.
Attempts(c) ==
    IF call[c].backend = "bot_api" /\ Idempotent(call[c].op) THEN MaxAttempts ELSE 1

\* retry_policy: 429, 408, 5xx and transport errors
Retryable(reply) == reply \in {"busy", "none"}

\* Mutant: every "Bad Request" about a message counts as missing.
IsMissing_badRequest(reply) == reply \in {"missing", "refused"}

\* "message ... not found", or grammers deleted nothing
IsMissing(reply) == reply = "missing"

\* A request goes out, the first of the operation or a repetition.
Request(c, record) ==
    /\ call' = [call EXCEPT ![c] = record]
    /\ requests' = requests \cup {<<c, record.op, record.attempt>>}

Begin(c, op, backend, msgs) ==
    /\ call[c].pc = "idle"
    /\ Request(c, [NewCall EXCEPT !.op = op, !.backend = backend, !.msgs = msgs,
                                  !.pc = "waiting"])
    /\ UNCHANGED <<chat, sender>>

\* Messages the program knows of: stored before it started, or by a call.
Known ==
    {m \in Msg : /\ chat[m] # "unsent"
                 /\ sender[m] = NoCall \/ call[sender[m]].result = "stored"}

Send(c) == \E backend \in Backend : Begin(c, "send", backend, {})
DeleteMessage(c) == \E backend \in Backend, m \in Known : Begin(c, "delete", backend, {m})
DeleteMessages(c) ==
    \E backend \in Backend, msgs \in SUBSET Known :
        Cardinality(msgs) > 1 /\ Begin(c, "batch", backend, msgs)

Finish(c, result) ==
    /\ call' = [call EXCEPT ![c].pc = "done", ![c].result = result]
    /\ UNCHANGED <<chat, sender, requests>>

Stored(c) ==
    /\ call[c].pc = "waiting" /\ call[c].op = "send" /\ call[c].reply = "ok"
    /\ call' = [call EXCEPT ![c].pc = "done", ![c].result = "stored",
                            ![c].msgs = {m \in Msg : sender[m] = c}]
    /\ UNCHANGED <<chat, sender, requests>>

\* Mutant: the message is left where it is.
NoDocument_kept(c) ==
    /\ call[c].pc = "waiting" /\ call[c].reply = "bare"
    /\ call' = [call EXCEPT ![c].pc = "done", ![c].result = "error",
                            ![c].msgs = {m \in Msg : sender[m] = c}]
    /\ UNCHANGED <<chat, sender, requests>>

\* The message has no document (or not the size sent): it is deleted again.
NoDocument(c) ==
    /\ call[c].pc = "waiting" /\ call[c].reply = "bare"
    /\ Request(c, [call[c] EXCEPT !.op = "discard", !.attempt = 0, !.reply = "none",
                                  !.msgs = {m \in Msg : sender[m] = c}])
    /\ UNCHANGED <<chat, sender>>

Gone(c) ==
    /\ call[c].pc = "waiting" /\ call[c].op # "send"
    /\ call[c].reply = "ok" \/ (call[c].op = "delete" /\ IsMissing(call[c].reply))
    /\ Finish(c, "gone")

\* A failure that is no reason, or the last one, to try again.  The reply
\* "none" is a timeout or a broken connection, which may strike even when the
\* reply is on its way.
Fails(c, reply) ==
    /\ call[c].pc = "waiting"
    /\ reply \in {"none", call[c].reply} \ {"ok", "bare"}
    /\ ~(call[c].op = "delete" /\ IsMissing(reply))
    /\ Retryable(reply) => call[c].attempt + 1 = Attempts(c)
    /\ Finish(c, "error")

Sleep(c, reply) ==
    /\ call[c].pc = "waiting"
    /\ reply \in {"none", call[c].reply}
    /\ Retryable(reply)
    /\ call[c].attempt + 1 < Attempts(c)
    /\ call' = [call EXCEPT ![c].pc = "sleeping", ![c].reply = "none"]
    /\ UNCHANGED <<chat, sender, requests>>

\* Mutant: the attempt is not counted.
Retry_uncounted(c) ==
    /\ call[c].pc = "sleeping"
    /\ Request(c, [call[c] EXCEPT !.pc = "waiting"])
    /\ UNCHANGED <<chat, sender>>

Retry(c) ==
    /\ call[c].pc = "sleeping"
    /\ Request(c, [call[c] EXCEPT !.pc = "waiting", !.attempt = @ + 1])
    /\ UNCHANGED <<chat, sender>>

ClientStep(c) ==
    \/ Stored(c) \/ NoDocument(c) \/ Gone(c) \/ Retry(c)
    \/ \E reply \in {"none", call[c].reply} : Fails(c, reply) \/ Sleep(c, reply)

----------------------------------------------------------------------------
(* Telegram and the network.                                               *)

\* The request is no longer under way; its reply reaches the call if that
\* still waits for it.
Answer(r, reply) ==
    LET c == r[1]
        waits == call[c].pc = "waiting" /\ call[c].op = r[2] /\ call[c].attempt = r[3]
    IN  /\ requests' = requests \ {r}
        /\ call' = IF waits THEN [call EXCEPT ![c].reply = reply] ELSE call

\* What Telegram may say after it did what was asked.
Post(r) ==
    /\ r[2] = "send"
    /\ \E m \in Msg :
         /\ chat[m] = "unsent"
         /\ chat' = [chat EXCEPT ![m] = "present"]
         /\ sender' = [sender EXCEPT ![m] = r[1]]
    /\ \E reply \in {"ok", "bare", "busy", "garbled"} : Answer(r, reply)

\* One message that is gone already is an error, in a batch it is skipped.
Erase(r) ==
    LET msgs == call[r[1]].msgs
    IN  /\ r[2] # "send"
        /\ chat' = [m \in Msg |-> IF m \in msgs THEN "deleted" ELSE chat[m]]
        /\ \E reply \in {"busy", "garbled",
                         IF r[2] # "batch" /\ \A m \in msgs : chat[m] = "deleted"
                         THEN "missing" ELSE "ok"} : Answer(r, reply)
        /\ UNCHANGED sender

Reject(r) ==
    /\ \E reply \in {"busy", "refused"} : Answer(r, reply)
    /\ UNCHANGED <<chat, sender>>

\* The request never arrives.
Lose(r) ==
    /\ requests' = requests \ {r}
    /\ UNCHANGED <<chat, sender, call>>

----------------------------------------------------------------------------

CallsNext ==
    \/ \E c \in Call : Send(c) \/ DeleteMessage(c) \/ DeleteMessages(c) \/ ClientStep(c)
    \/ \E r \in requests : Post(r) \/ Erase(r) \/ Reject(r) \/ Lose(r)

\* The HTTP client times out and sleeps end: a call that began moves on.
CallsFairness == \A c \in Call : WF_callVars(ClientStep(c))

CallsSpec == CallsInit /\ [][CallsNext]_callVars /\ CallsFairness

----------------------------------------------------------------------------

\* What a call has asked for and what it reported, in the terms of StorageChat.
AskedBy(c) ==
    IF call[c].pc = "idle" THEN [op |-> "none", msgs |-> {}]
    ELSE IF call[c].op \in {"send", "discard"}
    THEN [op |-> "post", msgs |-> IF call[c].op = "discard" THEN call[c].msgs ELSE {}]
    ELSE [op |-> "erase", msgs |-> call[c].msgs]
ReportOf(c) ==
    IF call[c].op = "discard" THEN "error"
    ELSE IF call[c].pc = "done" THEN call[c].result ELSE "open"

\* The promise of TelegramClient to the collector and to uploads, kept in spite
\* of retries, late and lost requests: see StorageChat.
Promise == INSTANCE StorageChat WITH
    asked <- [c \in Call |-> AskedBy(c)], report <- [c \in Call |-> ReportOf(c)]

ImplementsStorageChat == Promise!Spec

\* A message whose id the client learned is not forgotten: the send reported it
\* stored, or tried to delete it again and was told that it could not.  Only a
\* lost or unreadable reply to sendDocument leaves a message nobody knows.
LearnedMessagesKept ==
    \A c \in Call : call[c].pc = "done" =>
        \A m \in Msg : sender[m] = c /\ chat[m] = "present"
            => \/ call[c].result = "stored"
               \/ call[c].op = "discard" /\ call[c].result = "error"
               \/ call[c].msgs = {}

\* The inductive invariant: a call posts at most once, the replies it got are
\* true of the chat, and only calls that reported their message stored let
\* others delete it.
Posted(c) == {m \in Msg : sender[m] = c}

CallOK(c) ==
    LET k == call[c]
    IN  /\ k.pc = "idle" <=> k.op = "none"
        /\ k.pc = "done" <=> k.result # "none"
        /\ k.pc = "sleeping" => k.op # "send" /\ k.attempt + 1 < MaxAttempts
        /\ k.reply # "none" => k.pc \in {"waiting", "done"}
        /\ k.reply = "bare" => k.op = "send"
        /\ k.result = "stored" => k.op = "send" /\ Posted(c) # {}
        /\ k.op = "none" => k.msgs = {}
        /\ k.op = "send" =>
             /\ k.attempt = 0 /\ k.result # "gone"
             /\ k.reply \in {"ok", "bare"} => Posted(c) # {}
             /\ k.result # "stored" => k.msgs = {} /\ \A m \in Posted(c) : chat[m] = "present"
        /\ k.op # "send" /\ (k.reply \in {"ok", "missing"} \/ k.result = "gone") =>
             \A m \in k.msgs : chat[m] = "deleted"
        /\ k.op = "discard" => k.msgs = Posted(c) /\ Posted(c) # {}
        /\ k.op \notin {"send", "discard"} =>
             /\ Posted(c) = {}
             /\ \A m \in k.msgs : /\ chat[m] # "unsent"
                                  /\ sender[m] # NoCall => call[sender[m]].result = "stored"

CallsInv ==
    /\ CallsTypeOK
    /\ \A c \in Call : CallOK(c)
    /\ \A r \in requests : r[2] = call[r[1]].op /\ (r[2] = "send" => r[3] = 0 /\ Posted(r[1]) = {})
    /\ \A m \in Msg : sender[m] # NoCall => chat[m] # "unsent"
    /\ \A m, n \in Msg : sender[m] = sender[n] /\ m # n => sender[m] = NoCall

\* Every call comes to an end, whatever Telegram does.
CallsEnd == \A c \in Call : call[c].pc # "idle" ~> call[c].pc = "done"

============================================================================
