--------------------------- MODULE TelegramProofs ---------------------------
(* Proofs about the traffic with Telegram, for any number of calls,        *)
(* messages, attempts, data centres and peers: CallsInv is inductive, no   *)
(* learned message is forgotten, and the calls implement StorageChat; then *)
(* the same for the session, whose restarts change nothing that was told.  *)
EXTENDS Telegram, BandwidthProofs, TLAPS

Ops == {"none", "send", "discard", "delete", "batch"}
CallRecord ==
    [op : Ops, backend : Backend, msgs : SUBSET Msg,
     pc : {"idle", "waiting", "sleeping", "done"}, attempt : 0..(MaxAttempts - 1),
     reply : {"none", "ok", "bare", "missing", "refused", "busy", "garbled"},
     result : {"none", "stored", "gone", "error"}]

\* A call that asks for nothing yet.
LEMMA NewCallRecord == NewCall \in CallRecord
BY AttemptsAssumption DEF NewCall, CallRecord, Backend, Ops

\* At the start no message was ever sent.
LEMMA CallsInitInv == CallsInit => CallsInv
<1> SUFFICES ASSUME CallsInit PROVE CallsInv
  OBVIOUS
<1>1. CallsTypeOK
  BY NewCallRecord DEF CallsInit, CallsTypeOK, CallRecord, Ops
<1>2. \A c \in Call : CallOK(c)
  BY NoCallAssumption DEF CallsInit, CallOK, Posted, NewCall
<1> QED
  BY <1>1, <1>2 DEF CallsInit, CallsInv

----------------------------------------------------------------------------
(* Steps of the client.                                                    *)

\* A step of one call that leaves the chat alone.
LEMMA ClientFrame ==
    ASSUME CallsInv, NEW c \in Call, NEW k \in CallRecord, call' = [call EXCEPT ![c] = k],
           call[c].result = "none", UNCHANGED <<chat, sender>>,
           \/ UNCHANGED requests
           \/ /\ requests' = requests \cup {<<c, k.op, k.attempt>>}
              /\ k.op # "none" /\ (k.op = "send" => k.attempt = 0 /\ Posted(c) = {}),
           \A r \in requests : r[1] = c => r[2] = k.op,
           CallOK(c)'
    PROVE  CallsInv'
<1>1. call'[c] = k /\ \A d \in Call : d # c => call'[d] = call[d]
  BY DEF CallsInv, CallsTypeOK
<1>2. CallsTypeOK'
  BY DEF CallsInv, CallsTypeOK, CallRecord, Ops
<1>3. \A d \in Call : Posted(d)' = Posted(d)
  BY DEF Posted
<1>4. ASSUME NEW d \in Call, d # c PROVE CallOK(d)'
  <2>1. CallOK(d) /\ call'[d] = call[d]
    BY <1>1, <1>4 DEF CallsInv
  <2>2. \A m \in Msg : sender[m] # NoCall /\ call[sender[m]].result = "stored"
                         => call'[sender[m]].result = "stored"
    BY <1>1 DEF CallsInv, CallsTypeOK
  <2> QED
    BY <1>3, <2>1, <2>2 DEF CallOK, CallsInv, CallsTypeOK, CallRecord
<1>5. \A r \in requests' : r[2] = call'[r[1]].op /\ (r[2] = "send" => r[3] = 0 /\ Posted(r[1])' = {})
  <2>1. ASSUME NEW r \in requests
        PROVE  r[2] = call'[r[1]].op /\ (r[2] = "send" => r[3] = 0 /\ Posted(r[1])' = {})
    <3>1. r[1] \in Call /\ r[2] = call[r[1]].op /\ (r[2] = "send" => r[3] = 0 /\ Posted(r[1]) = {})
      BY DEF CallsInv, CallsTypeOK
    <3> QED
      BY <1>1, <1>3, <3>1
  <2>2. k.op = "send" /\ requests' # requests => Posted(c)' = {}
    BY <1>3
  <2> QED
    BY <1>1, <2>1, <2>2
<1> QED
  BY <1>2, <1>4, <1>5 DEF CallsInv

\* Begin (TelegramClient::upload_stream) keeps the invariant.
LEMMA BeginInv ==
    ASSUME CallsInv, NEW c \in Call, NEW op \in {"send", "delete", "batch"}, NEW backend \in Backend,
           NEW msgs \in SUBSET Known, op = "send" => msgs = {}, Begin(c, op, backend, msgs)
    PROVE  CallsInv'
<1>1. PICK k : k = [NewCall EXCEPT !.op = op, !.backend = backend, !.msgs = msgs, !.pc = "waiting"]
  OBVIOUS
<1>2. k \in CallRecord
  BY <1>1, NewCallRecord DEF CallRecord, Ops, Known
<1>3. /\ k.op = op /\ k.pc = "waiting" /\ k.msgs = msgs /\ k.attempt = 0 /\ k.reply = "none"
      /\ k.result = "none"
  BY <1>1 DEF NewCall
<1>4. /\ call' = [call EXCEPT ![c] = k] /\ requests' = requests \cup {<<c, k.op, k.attempt>>}
      /\ UNCHANGED <<chat, sender>> /\ call[c].pc = "idle" /\ call'[c] = k
  BY <1>1 DEF Begin, Request, CallsInv, CallsTypeOK
<1>5. CallOK(c) /\ call[c].op = "none" /\ Posted(c) = {} /\ call[c].result = "none"
  BY <1>4 DEF CallsInv, CallOK
<1>6. \A r \in requests : r[1] # c
  BY <1>5 DEF CallsInv, CallsTypeOK
<1>7. \A m \in msgs : /\ chat[m] # "unsent"
                      /\ sender[m] # NoCall => call'[sender[m]].result = "stored"
  BY <1>4, <1>5 DEF Known, CallsInv, CallsTypeOK
<1>8. CallOK(c)'
  BY <1>3, <1>4, <1>5, <1>7 DEF CallOK, Posted
<1> QED
  BY <1>2, <1>3, <1>4, <1>5, <1>6, <1>8, ClientFrame

\* Every kind of call begins in the same way.
LEMMA BeginsInv ==
    ASSUME CallsInv, NEW c \in Call, Send(c) \/ DeleteMessage(c) \/ DeleteMessages(c)
    PROVE  CallsInv'
<1>1. CASE Send(c)
  BY <1>1, BeginInv DEF Send
<1>2. CASE DeleteMessage(c)
  <2>1. PICK backend \in Backend, m \in Known : Begin(c, "delete", backend, {m})
    BY <1>2 DEF DeleteMessage
  <2>2. {m} \in SUBSET Known
    OBVIOUS
  <2> QED
    BY <2>1, <2>2, BeginInv
<1>3. CASE DeleteMessages(c)
  BY <1>3, BeginInv DEF DeleteMessages
<1> QED
  BY <1>1, <1>2, <1>3

\* A call that is over: what it reports holds.
LEMMA FinishInv ==
    ASSUME CallsInv, NEW c \in Call, NEW result \in {"gone", "error"}, call[c].pc = "waiting",
           result = "gone" => call[c].op # "send" /\ \A m \in call[c].msgs : chat[m] = "deleted",
           Finish(c, result)
    PROVE  CallsInv'
<1>1. PICK k : k = [call[c] EXCEPT !.pc = "done", !.result = result]
  OBVIOUS
<1>2. call[c] \in CallRecord /\ CallOK(c)
  BY DEF CallsInv, CallsTypeOK, CallRecord, Ops
<1>3. /\ k \in CallRecord /\ k.pc = "done" /\ k.result = result /\ k.op = call[c].op
      /\ k.msgs = call[c].msgs /\ k.reply = call[c].reply /\ k.attempt = call[c].attempt
  BY <1>1, <1>2 DEF CallRecord
<1>4. call' = [call EXCEPT ![c] = k] /\ call'[c] = k /\ UNCHANGED <<chat, sender, requests>>
  BY <1>1 DEF Finish, CallsInv, CallsTypeOK
<1>5. call[c].result = "none" /\ \A r \in requests : r[1] = c => r[2] = k.op
  BY <1>2, <1>3 DEF CallOK, CallsInv
<1>6. \A m \in Msg : sender[m] # NoCall /\ call[sender[m]].result = "stored"
                       => call'[sender[m]].result = "stored"
  BY <1>4, <1>5 DEF CallsInv, CallsTypeOK
<1>7. CallOK(c)'
  BY <1>2, <1>3, <1>4, <1>6 DEF CallOK, Posted, CallRecord
<1> QED
  BY <1>3, <1>4, <1>5, <1>7, ClientFrame

\* Stored (GrammersClient::upload_stream) keeps the invariant.
LEMMA StoredInv ==
    ASSUME CallsInv, NEW c \in Call, Stored(c) PROVE CallsInv'
<1>1. PICK k : k = [call[c] EXCEPT !.pc = "done", !.result = "stored", !.msgs = Posted(c)]
  OBVIOUS
<1>2. call[c] \in CallRecord /\ CallOK(c) /\ Posted(c) \in SUBSET Msg
  BY DEF CallsInv, CallsTypeOK, CallRecord, Ops, Posted
<1>3. /\ k \in CallRecord /\ k.pc = "done" /\ k.result = "stored" /\ k.op = call[c].op
      /\ k.msgs = Posted(c) /\ k.reply = call[c].reply /\ k.attempt = call[c].attempt
  BY <1>1, <1>2 DEF CallRecord
<1>4. /\ call' = [call EXCEPT ![c] = k] /\ call'[c] = k /\ UNCHANGED <<chat, sender, requests>>
      /\ call[c].pc = "waiting" /\ call[c].op = "send" /\ call[c].reply = "ok"
  BY <1>1 DEF Stored, Posted, CallsInv, CallsTypeOK
<1>5. call[c].result = "none" /\ \A r \in requests : r[1] = c => r[2] = k.op
  BY <1>2, <1>3, <1>4 DEF CallOK, CallsInv
<1>6. CallOK(c)'
  BY <1>2, <1>3, <1>4 DEF CallOK, Posted
<1> QED
  BY <1>3, <1>4, <1>5, <1>6, ClientFrame

\* NoDocument (GrammersClient::upload_stream) keeps the invariant.
LEMMA NoDocumentInv ==
    ASSUME CallsInv, NEW c \in Call, NoDocument(c) PROVE CallsInv'
<1>1. PICK k : k = [call[c] EXCEPT !.op = "discard", !.attempt = 0, !.reply = "none", !.msgs = Posted(c)]
  OBVIOUS
<1>2. call[c] \in CallRecord /\ CallOK(c) /\ Posted(c) \in SUBSET Msg
  BY DEF CallsInv, CallsTypeOK, CallRecord, Ops, Posted
<1>3. /\ k \in CallRecord /\ k.pc = call[c].pc /\ k.result = call[c].result /\ k.op = "discard"
      /\ k.msgs = Posted(c) /\ k.reply = "none" /\ k.attempt = 0
  <2>1. "discard" \in Ops /\ 0 \in 0..(MaxAttempts - 1)
    BY AttemptsAssumption DEF Ops
  <2> QED
    BY <1>1, <1>2, <2>1 DEF CallRecord
<1>4. /\ call' = [call EXCEPT ![c] = k] /\ call'[c] = k /\ UNCHANGED <<chat, sender>>
      /\ requests' = requests \cup {<<c, k.op, k.attempt>>}
      /\ call[c].pc = "waiting" /\ call[c].reply = "bare"
  BY <1>1 DEF NoDocument, Request, Posted, CallsInv, CallsTypeOK
<1>5. call[c].result = "none" /\ call[c].op = "send" /\ Posted(c) # {}
  BY <1>2, <1>4 DEF CallOK
<1>6. \A r \in requests : r[1] # c
  BY <1>5 DEF CallsInv, CallsTypeOK
<1>7. CallOK(c)'
  BY <1>2, <1>3, <1>4, <1>5 DEF CallOK, Posted
<1> QED
  BY <1>3, <1>4, <1>5, <1>6, <1>7, ClientFrame

\* Sleep (BotApiClient::retry) keeps the invariant.
LEMMA SleepInv ==
    ASSUME CallsInv, NEW c \in Call, NEW reply, Sleep(c, reply) PROVE CallsInv'
<1>1. PICK k : k = [call[c] EXCEPT !.pc = "sleeping", !.reply = "none"]
  OBVIOUS
<1>2. call[c] \in CallRecord /\ CallOK(c)
  BY DEF CallsInv, CallsTypeOK, CallRecord, Ops
<1>3. /\ k \in CallRecord /\ k.pc = "sleeping" /\ k.result = call[c].result /\ k.op = call[c].op
      /\ k.msgs = call[c].msgs /\ k.reply = "none" /\ k.attempt = call[c].attempt
  BY <1>1, <1>2 DEF CallRecord
<1>4. /\ call' = [call EXCEPT ![c] = k] /\ call'[c] = k /\ UNCHANGED <<chat, sender, requests>>
      /\ call[c].pc = "waiting" /\ call[c].attempt + 1 < Attempts(c)
  BY <1>1 DEF Sleep, CallsInv, CallsTypeOK
<1>5. /\ call[c].result = "none" /\ call[c].op # "none"
      /\ \A r \in requests : r[1] = c => r[2] = k.op
  BY <1>2, <1>3, <1>4 DEF CallOK, CallsInv
<1>6. call[c].op # "send" /\ call[c].attempt + 1 < MaxAttempts
  BY <1>2, <1>4, AttemptsAssumption DEF Attempts, Idempotent, CallRecord
<1>7. \A m \in Msg : sender[m] # NoCall /\ call[sender[m]].result = "stored"
                       => call'[sender[m]].result = "stored"
  BY <1>3, <1>4 DEF CallsInv, CallsTypeOK
<1>8. CallOK(c)'
  BY <1>2, <1>3, <1>4, <1>5, <1>6, <1>7 DEF CallOK, Posted, CallRecord
<1> QED
  BY <1>3, <1>4, <1>5, <1>8, ClientFrame

\* Retry (BotApiClient::retry) keeps the invariant.
LEMMA RetryInv ==
    ASSUME CallsInv, NEW c \in Call, Retry(c) PROVE CallsInv'
<1>1. PICK k : k = [call[c] EXCEPT !.pc = "waiting", !.attempt = call[c].attempt + 1]
  OBVIOUS
<1>2. call[c] \in CallRecord /\ CallOK(c) /\ call[c].pc = "sleeping"
  BY DEF Retry, CallsInv, CallsTypeOK, CallRecord, Ops
<1>3. call[c].attempt + 1 \in 0..(MaxAttempts - 1) /\ call[c].op # "send"
  BY <1>2, AttemptsAssumption DEF CallRecord, CallOK
<1>4. /\ k \in CallRecord /\ k.pc = "waiting" /\ k.result = call[c].result /\ k.op = call[c].op
      /\ k.msgs = call[c].msgs /\ k.reply = call[c].reply
  BY <1>1, <1>2, <1>3 DEF CallRecord
<1>5. /\ call' = [call EXCEPT ![c] = k] /\ call'[c] = k /\ UNCHANGED <<chat, sender>>
      /\ requests' = requests \cup {<<c, k.op, k.attempt>>}
  BY <1>1 DEF Retry, Request, CallsInv, CallsTypeOK
<1>6. /\ call[c].result = "none" /\ call[c].op # "none" /\ call[c].reply = "none"
      /\ \A r \in requests : r[1] = c => r[2] = k.op
  BY <1>2, <1>4 DEF CallOK, CallsInv
<1>7. \A m \in Msg : sender[m] # NoCall /\ call[sender[m]].result = "stored"
                       => call'[sender[m]].result = "stored"
  BY <1>4, <1>5 DEF CallsInv, CallsTypeOK
<1>8. CallOK(c)'
  BY <1>2, <1>3, <1>4, <1>5, <1>6, <1>7 DEF CallOK, Posted, CallRecord
<1> QED
  BY <1>3, <1>4, <1>5, <1>6, <1>8, ClientFrame

\* Every step of the client keeps the invariant.
LEMMA ClientStepInv ==
    ASSUME CallsInv, NEW c \in Call, ClientStep(c) PROVE CallsInv'
<1>1. CASE Gone(c)
  <2>1. /\ call[c].pc = "waiting" /\ call[c].op # "send" /\ call[c].reply \in {"ok", "missing"}
        /\ Finish(c, "gone")
    BY <1>1 DEF Gone, IsMissing
  <2> QED
    BY <2>1, FinishInv DEF CallsInv, CallOK
<1>2. ASSUME NEW reply, Fails(c, reply) PROVE CallsInv'
  BY <1>2, FinishInv DEF Fails
<1> QED
  BY <1>1, <1>2, StoredInv, NoDocumentInv, RetryInv, SleepInv DEF ClientStep

----------------------------------------------------------------------------
(* Steps of Telegram and the network.                                      *)

\* What Answer leaves of the calls: at most one reply is new, to the call that
\* made the request and still waits for it.
LEMMA AnswerFacts ==
    ASSUME CallsInv, NEW r \in requests, NEW reply, Answer(r, reply),
           reply \in {"ok", "bare", "missing", "refused", "busy", "garbled"}
    PROVE  /\ r[1] \in Call /\ call' \in [Call -> CallRecord] /\ requests' \in SUBSET requests
           /\ r \notin requests' /\ r[2] = call[r[1]].op
           /\ \A d \in Call : d # r[1] => call'[d] = call[d]
           /\ LET k == call'[r[1]]
                  j == call[r[1]]
              IN  /\ k.pc = j.pc /\ k.op = j.op /\ k.msgs = j.msgs /\ k.attempt = j.attempt
                  /\ k.result = j.result
                  /\ k.reply = j.reply \/ (k.reply = reply /\ k.pc = "waiting")
<1>1. PICK c \in Call : c = r[1]
  BY DEF CallsInv, CallsTypeOK
<1>2. /\ call[c] \in CallRecord /\ r[2] = call[c].op
      /\ call \in [Call -> CallRecord] /\ requests' = requests \ {r}
  BY <1>1 DEF Answer, CallsInv, CallsTypeOK, CallRecord, Ops
<1>3. CASE call' = call
  BY <1>1, <1>2, <1>3
<1>4. CASE call[c].pc = "waiting" /\ call' = [call EXCEPT ![c].reply = reply]
  <2>1. PICK k : k = [call[c] EXCEPT !.reply = reply]
    OBVIOUS
  <2>2. call' = [call EXCEPT ![c] = k] /\ call'[c] = k
    BY <1>2, <1>4, <2>1
  <2>3. /\ k \in CallRecord /\ k.pc = call[c].pc /\ k.op = call[c].op /\ k.msgs = call[c].msgs
        /\ k.attempt = call[c].attempt /\ k.result = call[c].result /\ k.reply = reply
    BY <1>2, <2>1 DEF CallRecord
  <2> QED
    BY <1>1, <1>2, <1>4, <2>2, <2>3
<1> QED
  BY <1>1, <1>3, <1>4 DEF Answer

\* Reject (Telegram and the network) keeps the invariant.
LEMMA RejectInv ==
    ASSUME CallsInv, NEW r \in requests, Reject(r) PROVE CallsInv'
<1>1. PICK reply \in {"busy", "refused"} : Answer(r, reply)
  BY DEF Reject
<1>2. UNCHANGED <<chat, sender>> /\ \A c \in Call : Posted(c)' = Posted(c)
  BY DEF Reject, Posted
<1>3. /\ call' \in [Call -> CallRecord] /\ requests' \in SUBSET requests
      /\ \A c \in Call :
           LET k == call'[c]
               j == call[c]
           IN  /\ k.pc = j.pc /\ k.op = j.op /\ k.msgs = j.msgs /\ k.attempt = j.attempt
               /\ k.result = j.result
               /\ k.reply = j.reply \/ (k.reply \in {"busy", "refused"} /\ k.pc = "waiting")
  BY <1>1, AnswerFacts
<1>4. CallsTypeOK'
  BY <1>2, <1>3 DEF CallsInv, CallsTypeOK, CallRecord, Ops
<1>5. ASSUME NEW c \in Call PROVE CallOK(c)'
  <2>1. CallOK(c)
    BY DEF CallsInv
  <2>2. \A m \in Msg : sender[m] # NoCall /\ call[sender[m]].result = "stored"
                         => call'[sender[m]].result = "stored"
    BY <1>3 DEF CallsInv, CallsTypeOK
  <2>3. call[c].msgs \subseteq Msg
    BY DEF CallsInv, CallsTypeOK
  <2> QED
    BY <1>2, <1>3, <2>1, <2>2, <2>3 DEF CallOK
<1>6. ASSUME NEW q \in requests'
      PROVE  q[2] = call'[q[1]].op /\ (q[2] = "send" => q[3] = 0 /\ Posted(q[1])' = {})
  <2>1. /\ q[1] \in Call /\ q[2] = call[q[1]].op
        /\ q[2] = "send" => q[3] = 0 /\ Posted(q[1]) = {}
    <3>1. q \in requests
      BY <1>3
    <3> QED
      BY <3>1 DEF CallsInv, CallsTypeOK
  <2> QED
    BY <1>2, <1>3, <2>1
<1> QED
  BY <1>2, <1>4, <1>5, <1>6 DEF CallsInv

\* Lose (Telegram and the network) keeps the invariant.
LEMMA LoseInv ==
    ASSUME CallsInv, NEW r \in requests, Lose(r) PROVE CallsInv'
<1>1. \A c \in Call : Posted(c)' = Posted(c)
  BY DEF Lose, Posted
<1>2. CallsTypeOK' /\ \A c \in Call : CallOK(c)'
  BY <1>1 DEF Lose, CallsInv, CallsTypeOK, CallOK
<1>3. \A q \in requests' :
        q[2] = call'[q[1]].op /\ (q[2] = "send" => q[3] = 0 /\ Posted(q[1])' = {})
  BY <1>1 DEF Lose, CallsInv, CallsTypeOK
<1> QED
  BY <1>2, <1>3 DEF Lose, CallsInv

\* The request that posts is the only one its call will ever make of this kind.
LEMMA PostFacts ==
    ASSUME CallsInv, NEW r \in requests, Post(r)
    PROVE  /\ r[1] \in Call /\ call[r[1]].op = "send" /\ Posted(r[1]) = {}
           /\ \E m \in Msg : /\ chat[m] = "unsent" /\ sender[m] = NoCall
                             /\ chat' = [chat EXCEPT ![m] = "present"]
                             /\ sender' = [sender EXCEPT ![m] = r[1]]
                             /\ Posted(r[1])' = {m}
           /\ \A d \in Call : d # r[1] => Posted(d)' = Posted(d)
<1>1. r[1] \in Call /\ call[r[1]].op = "send" /\ Posted(r[1]) = {}
  BY DEF Post, CallsInv, CallsTypeOK
<1>2. PICK m \in Msg : /\ chat[m] = "unsent" /\ chat' = [chat EXCEPT ![m] = "present"]
                       /\ sender' = [sender EXCEPT ![m] = r[1]]
  BY DEF Post
<1>3. sender[m] = NoCall
  BY <1>2 DEF CallsInv
<1>4. \A n \in Msg : sender'[n] = IF n = m THEN r[1] ELSE sender[n]
  BY <1>2 DEF CallsInv, CallsTypeOK
<1>5. Posted(r[1])' = {m}
  BY <1>1, <1>4 DEF Posted
<1>6. \A d \in Call : d # r[1] => Posted(d)' = Posted(d)
  BY <1>3, <1>4, NoCallAssumption DEF Posted
<1> QED
  BY <1>1, <1>2, <1>3, <1>5, <1>6

\* Post (Telegram and the network) keeps the invariant.
LEMMA PostInv ==
    ASSUME CallsInv, NEW r \in requests, Post(r) PROVE CallsInv'
<1>1. PICK c \in Call : c = r[1]
  BY PostFacts
<1>2. PICK m \in Msg : /\ chat[m] = "unsent" /\ sender[m] = NoCall
                       /\ chat' = [chat EXCEPT ![m] = "present"]
                       /\ sender' = [sender EXCEPT ![m] = c]
                       /\ Posted(c)' = {m}
  BY <1>1, PostFacts
<1>3. PICK reply \in {"ok", "bare", "busy", "garbled"} : Answer(r, reply)
  BY DEF Post
<1>4. /\ call' \in [Call -> CallRecord] /\ requests' \in SUBSET requests /\ r \notin requests'
      /\ \A d \in Call : d # c => call'[d] = call[d]
      /\ call'[c].pc = call[c].pc /\ call'[c].op = call[c].op /\ call'[c].msgs = call[c].msgs
      /\ call'[c].attempt = call[c].attempt /\ call'[c].result = call[c].result
      /\ call'[c].reply = call[c].reply \/ call'[c].pc = "waiting"
      /\ call'[c].reply = call[c].reply \/ call'[c].reply \in {"ok", "bare", "busy", "garbled"}
  BY <1>1, <1>3, AnswerFacts
<1>5. /\ \A n \in Msg : chat'[n] = IF n = m THEN "present" ELSE chat[n]
      /\ \A n \in Msg : sender'[n] = IF n = m THEN c ELSE sender[n]
      /\ \A d \in Call : d # c => Posted(d)' = Posted(d)
      /\ call[c].op = "send" /\ Posted(c) = {}
  <2>1. /\ \A n \in Msg : chat'[n] = IF n = m THEN "present" ELSE chat[n]
        /\ \A n \in Msg : sender'[n] = IF n = m THEN c ELSE sender[n]
    BY <1>2 DEF CallsInv, CallsTypeOK
  <2> QED
    BY <1>1, <2>1, PostFacts
<1>6. CallsTypeOK'
  BY <1>2, <1>4 DEF CallsInv, CallsTypeOK, CallRecord, Ops
<1>7. ASSUME NEW d \in Call, d # c PROVE CallOK(d)'
  <2>1. CallOK(d) /\ call'[d] = call[d] /\ Posted(d)' = Posted(d) /\ call[d].msgs \subseteq Msg
    BY <1>4, <1>5, <1>7 DEF CallsInv, CallsTypeOK
  <2>2. \A n \in Posted(d) : n \in Msg /\ n # m
    BY <1>2, NoCallAssumption DEF Posted
  <2>a. \A n \in Msg : chat[n] # "unsent" => chat'[n] = chat[n] /\ sender'[n] = sender[n]
    BY <1>2, <1>5
  <2>b. \A n \in Msg : sender[n] # NoCall => sender[n] \in Call
    BY DEF CallsInv, CallsTypeOK
  <2>c. \A e \in Call : call'[e].result = call[e].result
    BY <1>4
  <2>3. \A n \in Msg : /\ chat[n] # "unsent" => chat'[n] = chat[n] /\ sender'[n] = sender[n]
                       /\ sender[n] # NoCall => call'[sender[n]].result = call[sender[n]].result
    BY <2>a, <2>b, <2>c
  <2>4. call[d].op = "discard" => \A n \in call[d].msgs : chat'[n] = chat[n]
    BY <1>5, <2>1, <2>2 DEF CallOK
  <2>5. call[d].op \in {"delete", "batch"} => \A n \in call[d].msgs : chat'[n] = chat[n]
    <3>1. call[d].op \in {"delete", "batch"} =>
            \A n \in call[d].msgs : n \in Msg /\ chat[n] # "unsent"
      BY <2>1 DEF CallOK
    <3> QED
      BY <2>3, <3>1
  <2>6. call[d].op = "send" => \A n \in Posted(d) : chat'[n] = chat[n]
    BY <1>5, <2>2
  <2>7. call[d].op = "none" => call[d].msgs = {}
    BY <2>1 DEF CallOK
  <2>8. call[d].op \in {"none", "send", "discard", "delete", "batch"}
    BY DEF CallsInv, CallsTypeOK
  <2> QED
    BY <2>1, <2>3, <2>4, <2>5, <2>6, <2>7, <2>8 DEF CallOK
<1>8. CallOK(c)'
  <2>1. CallOK(c) /\ call[c].result # "stored"
    BY <1>5 DEF CallsInv, CallOK
  <2> QED
    BY <1>2, <1>4, <1>5, <2>1 DEF CallOK
<1>9. ASSUME NEW q \in requests' 
      PROVE  q[2] = call'[q[1]].op /\ (q[2] = "send" => q[3] = 0 /\ Posted(q[1])' = {})
  <2>1. /\ q \in requests /\ q # r /\ q[1] \in Call /\ q[2] = call[q[1]].op
        /\ q = <<q[1], q[2], q[3]>> /\ r = <<r[1], r[2], r[3]>>
    BY <1>4 DEF CallsInv, CallsTypeOK
  <2>2. r[2] = "send" /\ r[3] = 0 /\ (q[2] = "send" => q[3] = 0)
    BY <2>1 DEF CallsInv, Post
  <2>3. ~(q[1] = c /\ q[2] = "send")
    BY <1>1, <2>1, <2>2
  <2> QED
    BY <1>4, <1>5, <2>1, <2>3 DEF CallsInv
<1>10. \A n \in Msg : sender'[n] # NoCall => chat'[n] # "unsent"
  BY <1>5 DEF CallsInv
<1>11. \A n, l \in Msg : sender'[n] = sender'[l] /\ n # l => sender'[n] = NoCall
  BY <1>5 DEF CallsInv, Posted
<1> QED
  BY <1>6, <1>7, <1>8, <1>9, <1>10, <1>11 DEF CallsInv

\* What a request to erase does: its messages were in the chat, and are gone.
LEMMA EraseFacts ==
    ASSUME CallsInv, NEW r \in requests, Erase(r)
    PROVE  /\ r[1] \in Call /\ call[r[1]].op \in {"discard", "delete", "batch"}
           /\ \A m \in call[r[1]].msgs : m \in Msg /\ chat[m] # "unsent"
           /\ chat' = [m \in Msg |-> IF m \in call[r[1]].msgs THEN "deleted" ELSE chat[m]]
           /\ UNCHANGED sender
<1>1. /\ r[1] \in Call /\ r[2] = call[r[1]].op /\ r[2] # "send"
      /\ call[r[1]].op # "none" /\ call[r[1]].msgs \subseteq Msg
  BY DEF Erase, CallsInv, CallsTypeOK
<1>2. call[r[1]].op \in {"discard", "delete", "batch"} /\ CallOK(r[1])
  BY <1>1 DEF CallsInv, CallsTypeOK
<1>3. \A m \in call[r[1]].msgs : m \in Msg /\ chat[m] # "unsent"
  BY <1>1, <1>2, NoCallAssumption DEF CallOK, CallsInv, Posted
<1> QED
  BY <1>1, <1>2, <1>3 DEF Erase

\* Erase (Telegram and the network) keeps the invariant.
LEMMA EraseInv ==
    ASSUME CallsInv, NEW r \in requests, Erase(r) PROVE CallsInv'
<1>1. PICK c \in Call : c = r[1]
  BY EraseFacts
<1>2. /\ call[c].op \in {"discard", "delete", "batch"} /\ UNCHANGED sender
      /\ \A m \in call[c].msgs : m \in Msg /\ chat[m] # "unsent"
      /\ chat' = [m \in Msg |-> IF m \in call[c].msgs THEN "deleted" ELSE chat[m]]
  BY <1>1, EraseFacts
<1>3. PICK reply \in {"busy", "garbled", "missing", "ok"} : Answer(r, reply)
  BY DEF Erase
<1>4. /\ call' \in [Call -> CallRecord] /\ requests' \in SUBSET requests
      /\ \A d \in Call : d # c => call'[d] = call[d]
      /\ call'[c].pc = call[c].pc /\ call'[c].op = call[c].op /\ call'[c].msgs = call[c].msgs
      /\ call'[c].attempt = call[c].attempt /\ call'[c].result = call[c].result
      /\ call'[c].reply = call[c].reply \/ call'[c].pc = "waiting"
      /\ call'[c].reply = call[c].reply \/ call'[c].reply \in {"busy", "garbled", "missing", "ok"}
  BY <1>1, <1>3, AnswerFacts
<1>5. /\ \A d \in Call : Posted(d)' = Posted(d)
      /\ \A m \in Msg : chat'[m] = IF m \in call[c].msgs THEN "deleted" ELSE chat[m]
      /\ \A m \in Msg : chat'[m] = "unsent" <=> chat[m] = "unsent"
      /\ \A m \in Msg : chat[m] = "deleted" => chat'[m] = "deleted"
  BY <1>2 DEF Posted
<1>6. CallsTypeOK'
  BY <1>2, <1>4 DEF CallsInv, CallsTypeOK, CallRecord, Ops
<1>7. ASSUME NEW m \in Msg, m \in call[c].msgs, sender[m] # NoCall
      PROVE  sender[m] = c \/ call[sender[m]].result = "stored"
  BY <1>2, <1>7 DEF CallsInv, CallOK, Posted
<1>8. ASSUME NEW d \in Call, d # c PROVE CallOK(d)'
  <2>1. /\ CallOK(d) /\ call'[d] = call[d] /\ Posted(d)' = Posted(d) /\ call[d].msgs \subseteq Msg
        /\ call[d].op \in {"none", "send", "discard", "delete", "batch"}
    BY <1>4, <1>5, <1>8 DEF CallsInv, CallsTypeOK
  <2>2. \A m \in Msg : sender[m] # NoCall => call'[sender[m]].result = call[sender[m]].result
    BY <1>4 DEF CallsInv, CallsTypeOK
  <2>3. call[d].op = "send" /\ call[d].result # "stored" => \A m \in Posted(d) : chat'[m] = "present"
    <3>1. SUFFICES ASSUME call[d].op = "send", call[d].result # "stored", NEW m \in Posted(d)
                   PROVE  chat'[m] = "present"
      OBVIOUS
    <3>2. m \in Msg /\ sender[m] = d /\ chat[m] = "present"
      BY <2>1, <3>1 DEF CallOK, Posted
    <3>3. m \notin call[c].msgs
      BY <1>7, <1>8, <3>1, <3>2, NoCallAssumption
    <3> QED
      BY <1>5, <3>2, <3>3
  <2> QED
    BY <1>2, <1>5, <2>1, <2>2, <2>3 DEF CallOK
<1>9. CallOK(c)'
  <2>1. CallOK(c) /\ \A m \in call[c].msgs : chat'[m] = "deleted"
    BY <1>2, <1>5 DEF CallsInv
  <2>2. \A m \in Msg : sender[m] # NoCall => call'[sender[m]].result = call[sender[m]].result
    BY <1>4 DEF CallsInv, CallsTypeOK
  <2> QED
    BY <1>2, <1>4, <1>5, <2>1, <2>2 DEF CallOK
<1>10. ASSUME NEW q \in requests'
       PROVE  q[2] = call'[q[1]].op /\ (q[2] = "send" => q[3] = 0 /\ Posted(q[1])' = {})
  <2>1. q \in requests /\ q[1] \in Call /\ q[2] = call[q[1]].op
    BY <1>4 DEF CallsInv, CallsTypeOK
  <2> QED
    BY <1>4, <1>5, <2>1 DEF CallsInv
<1> QED
  BY <1>2, <1>5, <1>6, <1>8, <1>9, <1>10 DEF CallsInv

----------------------------------------------------------------------------

\* Every step keeps the invariant.
LEMMA CallsNextInv == CallsInv /\ [CallsNext]_callVars => CallsInv'
<1> SUFFICES ASSUME CallsInv, [CallsNext]_callVars PROVE CallsInv'
  OBVIOUS
<1>1. ASSUME NEW c \in Call, Send(c) \/ DeleteMessage(c) \/ DeleteMessages(c) \/ ClientStep(c)
      PROVE  CallsInv'
  BY <1>1, BeginsInv, ClientStepInv
<1>2. ASSUME NEW r \in requests, Post(r) \/ Erase(r) \/ Reject(r) \/ Lose(r) PROVE CallsInv'
  BY <1>2, PostInv, EraseInv, RejectInv, LoseInv
<1>3. CASE UNCHANGED callVars
  BY <1>3 DEF callVars, CallsInv, CallsTypeOK, CallOK, Posted
<1> QED
  BY <1>1, <1>2, <1>3 DEF CallsNext

\* The invariant: a call posts at most once, and its replies are true of the
\* chat, however requests are repeated, delayed and lost.
THEOREM CallsInvariant == CallsSpec => []CallsInv
BY CallsInitInv, CallsNextInv, PTL DEF CallsSpec

\* A message whose id the client learned is reported or deleted again
\* (send_document and the deletion of a message without a document).
THEOREM LearnedAlwaysKept == CallsSpec => []LearnedMessagesKept
<1>1. CallsInv => LearnedMessagesKept
  <2> SUFFICES ASSUME CallsInv, NEW c \in Call, call[c].pc = "done",
                      NEW m \in Msg, sender[m] = c, chat[m] = "present"
               PROVE  \/ call[c].result = "stored"
                      \/ call[c].op = "discard" /\ call[c].result = "error"
                      \/ call[c].msgs = {}
    BY DEF LearnedMessagesKept
  <2>1. CallOK(c) /\ m \in Posted(c) /\ call[c] \in CallRecord
    BY DEF CallsInv, CallsTypeOK, Posted, CallRecord, Ops
  <2>2. call[c].op \in {"send", "discard"}
    BY <2>1 DEF CallOK
  <2> QED
    BY <2>1, <2>2 DEF CallOK, CallRecord
<1> QED
  BY <1>1, CallsInvariant, PTL

----------------------------------------------------------------------------
(* The calls implement StorageChat.                                        *)

asked == [c \in Call |-> AskedBy(c)]
report == [c \in Call |-> ReportOf(c)]

\* Steps that change nothing StorageChat speaks of.
LEMMA Stutters ==
    ASSUME UNCHANGED <<chat, sender>>,
           \A c \in Call : AskedBy(c)' = AskedBy(c) /\ ReportOf(c)' = ReportOf(c)
    PROVE  UNCHANGED Promise!chatVars
<1>1. asked' = asked /\ report' = report
  BY DEF asked, report
<1> QED
  BY <1>1 DEF Promise!chatVars, asked, report

\* The empty chat is the empty chat of the promise.
LEMMA InitMaps == CallsInit => Promise!Init
<1> SUFFICES ASSUME CallsInit PROVE Promise!Init
  OBVIOUS
<1>1. \A c \in Call : AskedBy(c) = [op |-> "none", msgs |-> {}] /\ ReportOf(c) = "open"
  BY DEF CallsInit, AskedBy, ReportOf, NewCall
<1>2. asked = [c \in Call |-> Promise!Nothing] /\ report = [c \in Call |-> "open"]
  BY <1>1 DEF Promise!Nothing, asked, report
<1> QED
  BY <1>2 DEF CallsInit, Promise!Init, asked, report

\* A step of one call that leaves the chat alone, as StorageChat sees it.
LEMMA OneCallMaps ==
    ASSUME CallsInv, NEW c \in Call, \A d \in Call : d # c => call'[d] = call[d]
    PROVE  /\ asked' = [asked EXCEPT ![c] = AskedBy(c)']
           /\ report' = [report EXCEPT ![c] = ReportOf(c)']
<1>1. \A d \in Call : d # c => AskedBy(d)' = AskedBy(d) /\ ReportOf(d)' = ReportOf(d)
  BY DEF AskedBy, ReportOf
<1> QED
  BY <1>1 DEF asked, report

\* A call that begins asks for what it will do.
LEMMA BeginMaps ==
    ASSUME CallsInv, NEW c \in Call, NEW op \in {"send", "delete", "batch"}, NEW backend \in Backend,
           NEW msgs \in SUBSET Msg, op = "send" => msgs = {}, Begin(c, op, backend, msgs)
    PROVE  IF op = "send" THEN Promise!AskPost(c) ELSE Promise!AskErase(c, msgs)
<1>1. PICK k : k = [NewCall EXCEPT !.op = op, !.backend = backend, !.msgs = msgs, !.pc = "waiting"]
  OBVIOUS
<1>2. k.op = op /\ k.pc = "waiting" /\ k.msgs = msgs
  BY <1>1 DEF NewCall
<1>3. /\ call' = [call EXCEPT ![c] = k] /\ call'[c] = k /\ UNCHANGED <<chat, sender>>
      /\ call[c].pc = "idle" /\ call[c].op = "none"
      /\ \A d \in Call : d # c => call'[d] = call[d]
  BY <1>1 DEF Begin, Request, CallsInv, CallsTypeOK, CallOK
<1>4. /\ AskedBy(c)' = [op |-> IF op = "send" THEN "post" ELSE "erase", msgs |-> msgs]
      /\ AskedBy(c) = Promise!Nothing
      /\ ReportOf(c)' = "open" /\ ReportOf(c) = "open"
  BY <1>2, <1>3 DEF AskedBy, ReportOf, Promise!Nothing
<1>5. /\ asked' = [asked EXCEPT ![c] = AskedBy(c)'] /\ report' = [report EXCEPT ![c] = ReportOf(c)']
      /\ asked[c] = Promise!Nothing /\ report[c] = "open" /\ report' = report
  <2>1. /\ asked' = [asked EXCEPT ![c] = AskedBy(c)'] /\ report' = [report EXCEPT ![c] = ReportOf(c)']
    BY <1>3, OneCallMaps
  <2>2. asked[c] = AskedBy(c) /\ report[c] = ReportOf(c) /\ report = [report EXCEPT ![c] = ReportOf(c)]
    BY DEF asked, report
  <2> QED
    BY <1>4, <2>1, <2>2
<1> QED
  BY <1>3, <1>4, <1>5 DEF Promise!AskPost, Promise!AskErase, asked, report

\* Every kind of call does.
LEMMA BeginsMap ==
    ASSUME CallsInv, NEW c \in Call, Send(c) \/ DeleteMessage(c) \/ DeleteMessages(c)
    PROVE  Promise!Next
<1>1. CASE Send(c)
  <2>1. PICK backend \in Backend : Begin(c, "send", backend, {})
    BY <1>1 DEF Send
  <2>2. Promise!AskPost(c)
    BY <2>1, BeginMaps
  <2> QED
    BY <2>2 DEF Promise!Next
<1>2. ASSUME NEW op \in {"delete", "batch"}, NEW backend \in Backend, NEW msgs \in SUBSET Msg,
             Begin(c, op, backend, msgs)
      PROVE  Promise!Next
  <2>1. Promise!AskErase(c, msgs)
    BY <1>2, BeginMaps
  <2> QED
    BY <2>1 DEF Promise!Next
<1>3. CASE DeleteMessage(c)
  <2>1. PICK backend \in Backend, m \in Known : Begin(c, "delete", backend, {m})
    BY <1>3 DEF DeleteMessage
  <2>2. {m} \in SUBSET Msg
    BY <2>1 DEF Known
  <2> QED
    BY <1>2, <2>1, <2>2
<1>4. CASE DeleteMessages(c)
  <2>1. PICK backend \in Backend, msgs \in SUBSET Known : Begin(c, "batch", backend, msgs)
    BY <1>4 DEF DeleteMessages
  <2>2. msgs \in SUBSET Msg
    BY <2>1 DEF Known
  <2> QED
    BY <1>2, <2>1, <2>2
<1> QED
  BY <1>1, <1>3, <1>4

\* A report: only the report of the call changes.
LEMMA ReportMaps ==
    ASSUME CallsInv, NEW c \in Call, NEW result \in {"stored", "gone", "error"}, NEW k,
           call' = [call EXCEPT ![c] = k], k.pc = "done", k.result = result, k.op = call[c].op,
           call[c].pc = "waiting", call[c].op # "discard", result # "stored" => k.msgs = call[c].msgs,
           result = "stored" => call[c].op = "send",
           UNCHANGED <<chat, sender>>
    PROVE  /\ asked' = asked /\ report' = [report EXCEPT ![c] = result]
           /\ asked[c] = AskedBy(c) /\ report[c] = "open"
<1>1. call'[c] = k /\ (\A d \in Call : d # c => call'[d] = call[d]) /\ call[c].op # "none"
  BY DEF CallsInv, CallsTypeOK, CallOK
<1>2. AskedBy(c)' = AskedBy(c) /\ ReportOf(c)' = result /\ ReportOf(c) = "open"
  BY <1>1 DEF AskedBy, ReportOf
<1>3. asked' = [asked EXCEPT ![c] = AskedBy(c)'] /\ report' = [report EXCEPT ![c] = ReportOf(c)']
  BY <1>1, OneCallMaps
<1>4. asked[c] = AskedBy(c) /\ report[c] = ReportOf(c) /\ asked = [asked EXCEPT ![c] = AskedBy(c)]
  BY DEF asked, report
<1> QED
  BY <1>2, <1>3, <1>4

\* A send whose reply names the message reports it stored.
LEMMA StoredMaps ==
    ASSUME CallsInv, NEW c \in Call, Stored(c) PROVE Promise!Next
<1>1. PICK k : k = [call[c] EXCEPT !.pc = "done", !.result = "stored", !.msgs = Posted(c)]
  OBVIOUS
<1>2. call[c] \in CallRecord /\ CallOK(c)
  BY DEF CallsInv, CallsTypeOK, CallRecord, Ops
<1>3. k.pc = "done" /\ k.result = "stored" /\ k.op = call[c].op
  BY <1>1, <1>2 DEF CallRecord
<1>4. /\ call' = [call EXCEPT ![c] = k] /\ UNCHANGED <<chat, sender, requests>>
      /\ call[c].pc = "waiting" /\ call[c].op = "send" /\ call[c].reply = "ok"
  BY <1>1 DEF Stored, Posted
<1>5. /\ asked' = asked /\ report' = [report EXCEPT ![c] = "stored"]
      /\ asked[c] = AskedBy(c) /\ report[c] = "open"
  BY <1>3, <1>4, ReportMaps
<1>6. AskedBy(c).op = "post"
  BY <1>4 DEF AskedBy
<1>7. \E m \in Msg : sender[m] = c /\ chat[m] = "present"
  BY <1>2, <1>4 DEF CallOK, Posted
<1>8. Promise!ReportStored(c)
  BY <1>4, <1>5, <1>6, <1>7 DEF Promise!ReportStored, asked, report
<1> QED
  BY <1>8 DEF Promise!Next

\* A call that ends reports what it learned.
LEMMA FinishMaps ==
    ASSUME CallsInv, NEW c \in Call, NEW result \in {"gone", "error"}, call[c].pc = "waiting",
           result = "gone" => call[c].op # "send" /\ \A m \in call[c].msgs : chat[m] = "deleted",
           Finish(c, result)
    PROVE  [Promise!Next]_Promise!chatVars
<1>1. PICK k : k = [call[c] EXCEPT !.pc = "done", !.result = result]
  OBVIOUS
<1>2. call[c] \in CallRecord /\ CallOK(c)
  BY DEF CallsInv, CallsTypeOK, CallRecord, Ops
<1>3. /\ k.pc = "done" /\ k.result = result /\ k.op = call[c].op /\ k.msgs = call[c].msgs
  BY <1>1, <1>2 DEF CallRecord
<1>4. /\ call' = [call EXCEPT ![c] = k] /\ call'[c] = k /\ UNCHANGED <<chat, sender, requests>>
      /\ \A d \in Call : d # c => call'[d] = call[d]
  BY <1>1 DEF Finish, CallsInv, CallsTypeOK
<1>5. CASE call[c].op = "discard"
  <2>1. call'[c].op = "discard" /\ call'[c].msgs = call[c].msgs /\ call'[c].pc # "idle"
    BY <1>3, <1>4, <1>5
  <2>2. AskedBy(c)' = AskedBy(c) /\ ReportOf(c)' = ReportOf(c)
    BY <1>5, <2>1 DEF AskedBy, ReportOf
  <2>3. \A d \in Call \ {c} : AskedBy(d)' = AskedBy(d) /\ ReportOf(d)' = ReportOf(d)
    BY <1>4 DEF AskedBy, ReportOf
  <2> QED
    BY <1>4, <2>2, <2>3, Stutters
<1>6. CASE call[c].op # "discard"
  <2>. /\ result \in {"stored", "gone", "error"} /\ result # "stored"
       /\ UNCHANGED <<chat, sender>>
    BY <1>4
  <2>1. /\ asked' = asked /\ report' = [report EXCEPT ![c] = result]
        /\ asked[c] = AskedBy(c) /\ report[c] = "open"
    BY <1>3, <1>4, <1>6, ReportMaps
  <2>2. AskedBy(c) # Promise!Nothing
    BY <1>2 DEF AskedBy, Promise!Nothing, CallOK
  <2>3. CASE result = "error"
    <3>1. Promise!ReportError(c)
      BY <1>4, <2>1, <2>2, <2>3 DEF Promise!ReportError, asked, report
    <3> QED
      BY <3>1 DEF Promise!Next
  <2>4. CASE result = "gone"
    <3>1. AskedBy(c) = [op |-> "erase", msgs |-> call[c].msgs]
      BY <1>6, <2>4 DEF AskedBy
    <3>2. Promise!ReportGone(c)
      BY <1>4, <2>1, <2>4, <3>1 DEF Promise!ReportGone, asked, report
    <3> QED
      BY <3>2 DEF Promise!Next
  <2> QED
    BY <2>3, <2>4
<1> QED
  BY <1>5, <1>6

\* A send whose reply has no document deletes the message or reports it kept.
LEMMA NoDocumentMaps ==
    ASSUME CallsInv, NEW c \in Call, NoDocument(c) PROVE Promise!Next
<1>1. PICK k : k = [call[c] EXCEPT !.op = "discard", !.attempt = 0, !.reply = "none", !.msgs = Posted(c)]
  OBVIOUS
<1>2. call[c] \in CallRecord /\ CallOK(c)
  BY DEF CallsInv, CallsTypeOK, CallRecord, Ops
<1>3. /\ k.pc = call[c].pc /\ k.result = call[c].result /\ k.op = "discard" /\ k.msgs = Posted(c)
  BY <1>1, <1>2 DEF CallRecord
<1>4. /\ call'[c] = k /\ UNCHANGED <<chat, sender>>
      /\ call[c].pc = "waiting" /\ call[c].reply = "bare"
      /\ \A d \in Call : d # c => call'[d] = call[d]
  BY <1>1 DEF NoDocument, Request, Posted, CallsInv, CallsTypeOK
<1>5. call[c].op = "send"
  BY <1>2, <1>4 DEF CallOK
<1>6. /\ AskedBy(c)' = [op |-> "post", msgs |-> Posted(c)] /\ ReportOf(c)' = "error"
      /\ AskedBy(c) = [op |-> "post", msgs |-> {}] /\ ReportOf(c) = "open"
  BY <1>3, <1>4, <1>5 DEF AskedBy, ReportOf
<1>7. /\ asked' = [asked EXCEPT ![c] = [op |-> "post", msgs |-> Posted(c)]]
      /\ report' = [report EXCEPT ![c] = "error"]
  BY <1>4, <1>6, OneCallMaps
<1>8. asked[c] = [op |-> "post", msgs |-> {}] /\ report[c] = "open"
  BY <1>6 DEF asked, report
<1>9. asked' = [asked EXCEPT ![c].msgs = Posted(c)]
  <2>1. [op |-> "post", msgs |-> Posted(c)] = [asked[c] EXCEPT !.msgs = Posted(c)]
    BY <1>8
  <2> QED
    BY <1>7, <2>1
<1>10. Promise!TurnDown(c)
  BY <1>4, <1>7, <1>8, <1>9 DEF Promise!TurnDown, asked, report, Posted
<1> QED
  BY <1>10 DEF Promise!Next

\* Waiting for another attempt is nothing to anybody.
LEMMA RepeatMaps ==
    ASSUME CallsInv, NEW c \in Call, Retry(c) \/ \E reply \in {"none", call[c].reply} : Sleep(c, reply)
    PROVE  UNCHANGED Promise!chatVars
<1>1. PICK k : /\ call' = [call EXCEPT ![c] = k]
               /\ \/ k = [call[c] EXCEPT !.pc = "sleeping", !.reply = "none"]
                  \/ k = [call[c] EXCEPT !.pc = "waiting", !.attempt = call[c].attempt + 1]
  BY DEF Retry, Sleep, Request
<1>2. call[c] \in CallRecord /\ call[c].pc \in {"waiting", "sleeping"} /\ UNCHANGED <<chat, sender>>
  BY DEF Retry, Sleep, CallsInv, CallsTypeOK, CallRecord, Ops
<1>3. k.op = call[c].op /\ k.msgs = call[c].msgs /\ k.pc \in {"waiting", "sleeping"}
  BY <1>1, <1>2 DEF CallRecord
<1>4. call'[c] = k /\ \A d \in Call : d # c => call'[d] = call[d]
  BY <1>1 DEF CallsInv, CallsTypeOK
<1>5. \A d \in Call : AskedBy(d)' = AskedBy(d) /\ ReportOf(d)' = ReportOf(d)
  BY <1>2, <1>3, <1>4 DEF AskedBy, ReportOf
<1> QED
  BY <1>2, <1>5, Stutters

\* Every step of the client is a step of the promise, or none.
LEMMA ClientStepMaps ==
    ASSUME CallsInv, NEW c \in Call, ClientStep(c) PROVE [Promise!Next]_Promise!chatVars
<1>1. CASE Gone(c)
  <2>1. /\ call[c].pc = "waiting" /\ call[c].op # "send" /\ call[c].reply \in {"ok", "missing"}
        /\ Finish(c, "gone")
    BY <1>1 DEF Gone, IsMissing
  <2> QED
    BY <2>1, FinishMaps DEF CallsInv, CallOK
<1>2. ASSUME NEW reply, Fails(c, reply) PROVE [Promise!Next]_Promise!chatVars
  BY <1>2, FinishMaps DEF Fails
<1> QED
  BY <1>1, <1>2, StoredMaps, NoDocumentMaps, RepeatMaps DEF ClientStep

\* A reply is nothing to StorageChat before the client has read it.
LEMMA AnswerMaps ==
    ASSUME CallsInv, NEW r \in requests, NEW reply, Answer(r, reply),
           reply \in {"ok", "bare", "missing", "refused", "busy", "garbled"}
    PROVE  asked' = asked /\ report' = report
<1>1. ASSUME NEW d \in Call PROVE AskedBy(d)' = AskedBy(d) /\ ReportOf(d)' = ReportOf(d)
  <2>1. /\ call'[d].pc = call[d].pc /\ call'[d].op = call[d].op
        /\ call'[d].msgs = call[d].msgs /\ call'[d].result = call[d].result
    BY AnswerFacts
  <2> QED
    BY <2>1 DEF AskedBy, ReportOf
<1> QED
  BY <1>1 DEF asked, report

\* Telegram posts a message only for a call that asked for it,
LEMMA PostMaps ==
    ASSUME CallsInv, NEW r \in requests, Post(r) PROVE Promise!Next
<1>1. asked' = asked /\ report' = report
  BY AnswerMaps DEF Post
<1>2. PICK m \in Msg : /\ chat[m] = "unsent" /\ chat' = [chat EXCEPT ![m] = "present"]
                       /\ sender' = [sender EXCEPT ![m] = r[1]]
  BY PostFacts
<1>3. r[1] \in Call /\ call[r[1]].op = "send" /\ Posted(r[1]) = {} /\ call[r[1]].pc # "idle"
  BY PostFacts DEF CallsInv, CallOK
<1>4. asked[r[1]].op = "post"
  BY <1>3 DEF asked, AskedBy
<1>5. Promise!Post(m, r[1])
  BY <1>1, <1>2, <1>3, <1>4 DEF Promise!Post, asked, report, Posted
<1> QED
  BY <1>3, <1>5 DEF Promise!Next

\* and erases only messages it was asked to erase.
LEMMA EraseMaps ==
    ASSUME CallsInv, NEW r \in requests, Erase(r) PROVE [Promise!Next]_Promise!chatVars
<1>1. asked' = asked /\ report' = report
  BY AnswerMaps DEF Erase
<1>2. PICK c \in Call : c = r[1]
  BY EraseFacts
<1>3. /\ call[c].op \in {"discard", "delete", "batch"} /\ UNCHANGED sender
      /\ \A m \in call[c].msgs : m \in Msg /\ chat[m] # "unsent"
      /\ chat' = [m \in Msg |-> IF m \in call[c].msgs THEN "deleted" ELSE chat[m]]
  BY <1>2, EraseFacts
<1>4. call[c].pc # "idle" /\ CallOK(c) /\ call[c] \in CallRecord
  BY <1>3 DEF CallsInv, CallOK, CallsTypeOK, CallRecord, Ops
<1>5. asked[c].msgs = call[c].msgs /\ report[c] = ReportOf(c)
  BY <1>3, <1>4 DEF asked, report, AskedBy
<1>6. CASE ReportOf(c) \in {"open", "error"}
  <2>1. \A m \in call[c].msgs : chat[m] \in {"present", "deleted"}
    BY <1>3 DEF CallsInv, CallsTypeOK
  <2>2. chat' = [m \in Msg |-> IF m \in asked[c].msgs /\ chat[m] = "present"
                               THEN "deleted" ELSE chat[m]]
    BY <1>3, <1>5, <2>1
  <2>3. Promise!Erase(c)
    BY <1>1, <1>3, <1>5, <1>6, <2>2 DEF Promise!Erase, asked, report
  <2> QED
    BY <2>3 DEF Promise!Next
<1>7. CASE ReportOf(c) \notin {"open", "error"}
  <2>1. \A m \in call[c].msgs : chat[m] = "deleted"
    BY <1>3, <1>4, <1>7 DEF CallOK, CallRecord, ReportOf
  <2>2. chat' = chat
    BY <1>3, <2>1 DEF CallsInv, CallsTypeOK
  <2> QED
    BY <1>1, <1>3, <2>2 DEF Promise!chatVars, asked, report
<1> QED
  BY <1>6, <1>7

\* Every step is a step of the promise, or none.
LEMMA NextMaps ==
    ASSUME CallsInv, [CallsNext]_callVars PROVE [Promise!Next]_Promise!chatVars
<1>1. ASSUME NEW c \in Call, Send(c) \/ DeleteMessage(c) \/ DeleteMessages(c) \/ ClientStep(c)
      PROVE  [Promise!Next]_Promise!chatVars
  BY <1>1, BeginsMap, ClientStepMaps
<1>2. ASSUME NEW r \in requests, Post(r) \/ Erase(r) PROVE [Promise!Next]_Promise!chatVars
  BY <1>2, PostMaps, EraseMaps
<1>3. ASSUME NEW r \in requests, Reject(r) \/ Lose(r) PROVE UNCHANGED Promise!chatVars
  <2>1. UNCHANGED <<chat, sender>>
    BY <1>3 DEF Reject, Lose
  <2>2. asked' = asked /\ report' = report
    <3>1. CASE Reject(r)
      BY <3>1, AnswerMaps DEF Reject
    <3>2. CASE Lose(r)
      BY <3>2 DEF Lose, asked, report, AskedBy, ReportOf
    <3> QED
      BY <1>3, <3>1, <3>2
  <2> QED
    BY <2>1, <2>2 DEF Promise!chatVars, asked, report
<1>4. CASE UNCHANGED callVars
  BY <1>4 DEF callVars, Promise!chatVars, AskedBy, ReportOf
<1> QED
  BY <1>1, <1>2, <1>3, <1>4 DEF CallsNext

\* Whatever happens to requests and replies, TelegramClient keeps the promise of
\* StorageChat (send_document, delete_message, delete_messages, retry).
THEOREM ImplementsChat == CallsSpec => ImplementsStorageChat
<1>1. CallsSpec => Promise!Init /\ [][Promise!Next]_Promise!chatVars
  BY InitMaps, NextMaps, CallsInvariant, PTL DEF CallsSpec
<1> QED
  BY <1>1 DEF ImplementsStorageChat, Promise!Spec

----------------------------------------------------------------------------
(* The session.                                                            *)

\* The operations on a session and what they are about.
LEMMA OperationFields ==
    ASSUME NEW o \in Operation
    PROVE  /\ o.op \in {"home", "option", "peer", "all", "primary", "secondary"}
           /\ o.op = "home" => o.dc \in Dc
           /\ o.op = "option" => o.dc \in Dc /\ o.key \in AuthKey \cup {NoKey}
           /\ o.op = "peer" => o.peer \in Peer /\ o.info \in PeerInfo
           /\ o.op = "all" => o.row \in UpdateRow
           /\ o.op \in {"primary", "secondary"} => o.pos \in Pts
BY InfoAssumption DEF Operation

\* No row, and a task without an operation.
LEMMA RowTypes == NoRow \in PeerRow /\ IdleTask \in TaskState
BY DEF NoRow, PeerRow, IdleTask, TaskState

\* A task at work works alone.
LEMMA OthersIdle ==
    ASSUME SessionInv, NEW t \in Task, task[t].pc # "idle" \/ lock = NoTask
    PROVE  \A u \in Task : u # t => task[u].pc = "idle"
BY NothingAssumption DEF SessionInv, TaskOK

\* A session starts empty, with an equal cache.
LEMMA SessionInitInv == SessionInit => SessionInv
<1> SUFFICES ASSUME SessionInit PROVE SessionInv
  OBVIOUS
<1>1. /\ disk = [home |-> <<>>, option |-> [dc \in Dc |-> NoKey],
                 peer |-> [p \in Peer |-> NoRow], update |-> <<>>]
      /\ cache = [home |-> DefaultDc, option |-> disk.option]
      /\ lock = NoTask /\ task = [t \in Task |-> IdleTask] /\ behind = NotBehind
  BY DEF SessionInit, Opened
<1>2. SessionTypeOK
  BY <1>1, RowTypes, DefaultAssumption DEF SessionTypeOK, Database, NotBehind
<1>3. \A t \in Task : TaskOK(t)
  BY <1>1 DEF TaskOK, IdleTask, Catching
<1>4. CacheSurvivesRestart
  BY <1>1 DEF CacheSurvivesRestart, Opened
<1> QED
  BY <1>1, <1>2, <1>3, <1>4 DEF SessionInv, NoRow

\* A step of one task that leaves the database alone, or the tables it read
\* and committed: what remains to be shown is about that task.
LEMMA TaskFrame ==
    ASSUME SessionInv, NEW t \in Task, task[t].pc # "idle" \/ lock = NoTask,
           NEW k \in TaskState, task' = [task EXCEPT ![t] = k]
    PROVE  /\ task' \in [Task -> TaskState] /\ task'[t] = k
           /\ \A u \in Task : u # t => task'[u].pc = "idle" /\ TaskOK(u)'
           /\ \A u \in Task, op \in {"home", "option"} :
                 /\ Catching(u, op) => u = t
                 /\ Catching(u, op)' => u = t
<1>1. task \in [Task -> TaskState] /\ \A u \in Task : u # t => task[u].pc = "idle"
  BY OthersIdle DEF SessionInv, SessionTypeOK
<1>2. /\ task' \in [Task -> TaskState] /\ task'[t] = k
      /\ \A u \in Task : u # t => task'[u].pc = "idle"
  BY <1>1
<1> QED
  BY <1>1, <1>2 DEF TaskOK, Catching

\* Lock (SqlxSession::set_home_dc_id) keeps the invariant.
LEMMA LockInv ==
    ASSUME SessionInv, NEW t \in Task, NEW operation \in Operation, Lock(t, operation)
    PROVE  SessionInv'
<1>1. PICK k : k = [IdleTask EXCEPT !.pc = "locked", !.does = operation]
  OBVIOUS
<1>2. k \in TaskState /\ k.pc = "locked" /\ k.does = operation
  BY <1>1, RowTypes DEF IdleTask, TaskState
<1>3. /\ task' = [task EXCEPT ![t] = k] /\ lock = NoTask /\ lock' = t /\ task[t].pc = "idle"
      /\ UNCHANGED <<disk, cache, behind>>
  BY <1>1 DEF Lock, LockFree
<1>4. /\ task' \in [Task -> TaskState] /\ task'[t] = k
      /\ \A u \in Task : u # t => task'[u].pc = "idle" /\ TaskOK(u)'
      /\ \A u \in Task, op \in {"home", "option"} :
            (Catching(u, op) => u = t) /\ (Catching(u, op)' => u = t)
  BY <1>2, <1>3, TaskFrame
<1>5. SessionTypeOK'
  BY <1>3, <1>4 DEF SessionInv, SessionTypeOK
<1>6. TaskOK(t)'
  BY <1>2, <1>3, <1>4 DEF TaskOK, Catching
<1>7. CacheSurvivesRestart'
  <2>1. \A u \in Task, op \in {"home", "option"} : ~Catching(u, op)
    BY <1>3, <1>4 DEF Catching
  <2> QED
    BY <1>3, <2>1 DEF SessionInv, CacheSurvivesRestart, Opened
<1> QED
  BY <1>3, <1>4, <1>5, <1>6, <1>7 DEF SessionInv

\* What a writer commits are rows.
LEMMA UpdatedRowsType ==
    ASSUME SessionInv, NEW does \in Operation, does.op \in {"all", "primary", "secondary"}
    PROVE  UpdatedRows(does) \in {<<>>} \cup {<<row>> : row \in UpdateRow}
<1>1. disk.update = <<>> \/ \E row \in UpdateRow : disk.update = <<row>>
  BY DEF SessionInv, SessionTypeOK, Database
<1>2. disk.update # <<>> => Head(disk.update) \in UpdateRow
  BY <1>1
<1>3. CASE does.op = "all"
  BY <1>3, OperationFields DEF UpdatedRows
<1>4. CASE does.op = "primary"
  <2>1. [pts |-> does.pos, qts |-> IF disk.update = <<>> THEN 0 ELSE Head(disk.update).qts]
            \in UpdateRow
    BY <1>2, <1>4, OperationFields, PtsAssumption DEF UpdateRow
  <2> QED
    BY <1>4, <2>1 DEF UpdatedRows
<1>5. CASE does.op = "secondary"
  <2>1. [pts |-> IF disk.update = <<>> THEN 0 ELSE Head(disk.update).pts, qts |-> does.pos]
            \in UpdateRow
    BY <1>2, <1>5, OperationFields, PtsAssumption DEF UpdateRow
  <2> QED
    BY <1>5, <2>1 DEF UpdatedRows
<1> QED
  BY <1>3, <1>4, <1>5

\* Commit (SqlxSession::set_dc_option) keeps the invariant.
LEMMA CommitInv == ASSUME SessionInv, NEW t \in Task, Commit(t) PROVE SessionInv'
<1>1. PICK does, k : does = task[t].does /\ k = [task[t] EXCEPT !.pc = "committed"]
  OBVIOUS
<1>2. task[t] \in TaskState /\ task[t].pc = "locked" /\ does \in Operation /\ lock = t
  BY <1>1 DEF Commit, SessionInv, SessionTypeOK, TaskOK
<1>3. k \in TaskState /\ k.pc = "committed" /\ k.does = does
  BY <1>1, <1>2 DEF TaskState
<1>4. /\ task' = [task EXCEPT ![t] = k] /\ UNCHANGED <<cache, lock, behind>>
      /\ does.op # "peer"
  BY <1>1 DEF Commit
<1>5. /\ task' \in [Task -> TaskState] /\ task'[t] = k
      /\ \A u \in Task : u # t => task'[u].pc = "idle" /\ TaskOK(u)'
      /\ \A u \in Task, op \in {"home", "option"} :
            (Catching(u, op) => u = t) /\ (Catching(u, op)' => u = t)
  BY <1>2, <1>3, <1>4, TaskFrame
<1>6. \A u \in Task, op \in {"home", "option"} : ~Catching(u, op)
  BY <1>2, <1>5 DEF Catching
<1>7. \A op \in {"home", "option"} : Catching(t, op)' <=> does.op = op
  BY <1>3, <1>5 DEF Catching
<1>8. disk \in Database
  BY DEF SessionInv, SessionTypeOK
<1>9. /\ disk' \in Database /\ disk'.peer = disk.peer
      /\ does.op = "home" => disk'.home = <<does.dc>>
      /\ does.op # "home" => disk'.home = disk.home
      /\ does.op = "option" => disk'.option = [disk.option EXCEPT ![does.dc] = does.key]
      /\ does.op # "option" => disk'.option = disk.option
  <2>1. CASE does.op = "home"
    <3>1. disk' = [disk EXCEPT !.home = <<does.dc>>] /\ does.dc \in Dc
      BY <1>1, <1>2, <2>1, OperationFields DEF Commit
    <3> QED
      BY <1>8, <2>1, <3>1 DEF Database
  <2>2. CASE does.op = "option"
    <3>1. /\ disk' = [disk EXCEPT !.option[does.dc] = does.key]
          /\ does.dc \in Dc /\ does.key \in AuthKey \cup {NoKey}
      BY <1>1, <1>2, <2>2, OperationFields DEF Commit
    <3> QED
      BY <1>8, <2>2, <3>1 DEF Database
  <2>3. CASE does.op \notin {"home", "option"}
    <3>1. /\ disk' = [disk EXCEPT !.update = UpdatedRows(does)]
          /\ UpdatedRows(does) \in {<<>>} \cup {<<row>> : row \in UpdateRow}
      BY <1>1, <1>2, <1>4, <2>3, OperationFields, UpdatedRowsType DEF Commit
    <3> QED
      BY <1>8, <2>3, <3>1 DEF Database
  <2> QED
    BY <2>1, <2>2, <2>3
<1>10. SessionTypeOK'
  BY <1>4, <1>5, <1>9 DEF SessionInv, SessionTypeOK
<1>11. TaskOK(t)'
  <2>1. does.op = "option" => disk'.option[does.dc] = does.key
    BY <1>2, <1>8, <1>9, OperationFields DEF Database
  <2> QED
    BY <1>2, <1>3, <1>4, <1>5, <1>7, <1>9, <2>1 DEF TaskOK
<1>12. CacheSurvivesRestart'
  <2>1. cache.home' # Opened(disk').home => behind.home' \/ Catching(t, "home")'
    BY <1>4, <1>6, <1>7, <1>9 DEF SessionInv, CacheSurvivesRestart, Opened
  <2>2. ASSUME NEW dc \in Dc, cache'.option[dc] # Opened(disk').option[dc]
        PROVE  dc \in behind'.options \/ (Catching(t, "option")' /\ task'[t].does.dc = dc)
    <3>1. disk'.option[dc] = disk.option[dc] \/ (does.op = "option" /\ does.dc = dc)
      BY <1>8, <1>9 DEF Database
    <3> QED
      BY <1>3, <1>4, <1>5, <1>6, <1>7, <2>2, <3>1 DEF SessionInv, CacheSurvivesRestart, Opened
  <2> QED
    BY <2>1, <2>2 DEF CacheSurvivesRestart
<1> QED
  BY <1>5, <1>9, <1>10, <1>11, <1>12 DEF SessionInv

\* Return (SqlxSession::set_dc_option) keeps the invariant.
LEMMA ReturnInv == ASSUME SessionInv, NEW t \in Task, Return(t) PROVE SessionInv'
<1>1. PICK does : does = task[t].does
  OBVIOUS
<1>2. /\ task[t].pc = "committed" /\ does \in Operation
      /\ does.op = "home" => disk.home = <<does.dc>>
      /\ does.op = "option" => disk.option[does.dc] = does.key
  BY <1>1 DEF Return, SessionInv, TaskOK, Catching
<1>3. task' = [task EXCEPT ![t] = IdleTask] /\ lock' = NoTask /\ UNCHANGED disk
  BY DEF Return
<1>4. /\ task' \in [Task -> TaskState] /\ task'[t] = IdleTask
      /\ \A u \in Task : u # t => task'[u].pc = "idle" /\ TaskOK(u)'
      /\ \A u \in Task, op \in {"home", "option"} :
            (Catching(u, op) => u = t) /\ (Catching(u, op)' => u = t)
  BY <1>2, <1>3, RowTypes, TaskFrame
<1>5. \A op \in {"home", "option"} : Catching(t, op) <=> does.op = op
  BY <1>1, <1>2 DEF Catching
<1>6. /\ cache \in [home : Dc, option : [Dc -> AuthKey \cup {NoKey}]]
      /\ behind \in [home : BOOLEAN, options : SUBSET Dc]
  BY DEF SessionInv, SessionTypeOK
<1>7. /\ cache' \in [home : Dc, option : [Dc -> AuthKey \cup {NoKey}]]
      /\ behind' \in [home : BOOLEAN, options : SUBSET Dc]
      /\ does.op = "home" => cache'.home = does.dc
      /\ does.op # "home" => cache'.home = cache.home /\ behind'.home = behind.home
      /\ does.op = "option" =>
            /\ cache'.option[does.dc] = does.key
            /\ \A dc \in Dc \ {does.dc} : cache'.option[dc] = cache.option[dc]
            /\ behind'.options = behind.options \ {does.dc}
      /\ does.op # "option" => cache'.option = cache.option /\ behind'.options = behind.options
  <2>1. CASE does.op = "home"
    <3>1. /\ cache' = [cache EXCEPT !.home = does.dc] /\ behind' = [behind EXCEPT !.home = FALSE]
          /\ does.dc \in Dc
      BY <1>1, <1>2, <2>1, OperationFields DEF Return
    <3> QED
      BY <1>6, <2>1, <3>1
  <2>2. CASE does.op = "option"
    <3>1. /\ cache' = [cache EXCEPT !.option[does.dc] = does.key]
          /\ behind' = [behind EXCEPT !.options = behind.options \ {does.dc}]
          /\ does.dc \in Dc /\ does.key \in AuthKey \cup {NoKey}
      BY <1>1, <1>2, <2>2, OperationFields DEF Return
    <3> QED
      BY <1>6, <2>2, <3>1
  <2>3. CASE does.op \notin {"home", "option"}
    BY <1>1, <1>6, <2>3 DEF Return
  <2> QED
    BY <2>1, <2>2, <2>3
<1>8. SessionTypeOK'
  BY <1>3, <1>4, <1>7 DEF SessionInv, SessionTypeOK
<1>9. TaskOK(t)'
  BY <1>4 DEF TaskOK, Catching, IdleTask
<1>10. CacheSurvivesRestart'
  <2>1. cache'.home # Opened(disk).home => behind'.home
    BY <1>2, <1>4, <1>5, <1>7 DEF SessionInv, CacheSurvivesRestart, Opened
  <2>2. ASSUME NEW dc \in Dc, cache'.option[dc] # disk.option[dc] PROVE dc \in behind'.options
    <3>1. cache'.option[dc] = cache.option[dc] /\ ~(does.op = "option" /\ does.dc = dc)
      BY <1>2, <1>7, <2>2
    <3> QED
      BY <1>1, <1>4, <1>5, <1>7, <2>2, <3>1 DEF SessionInv, CacheSurvivesRestart, Opened
  <2> QED
    BY <1>3, <2>1, <2>2 DEF CacheSurvivesRestart, Opened
<1> QED
  BY <1>3, <1>4, <1>8, <1>9, <1>10 DEF SessionInv

\* LoadPeer (SqlxSession::load_peer) keeps the invariant.
LEMMA LoadPeerInv == ASSUME SessionInv, NEW t \in Task, LoadPeer(t) PROVE SessionInv'
<1>1. PICK does : does = task[t].does
  OBVIOUS
<1>2. task[t] \in TaskState /\ task[t].pc = "locked" /\ does \in Operation /\ lock = t
  BY <1>1 DEF LoadPeer, SessionInv, SessionTypeOK, TaskOK
<1>3. does.op = "peer" /\ does.peer \in Peer /\ disk.peer[does.peer] \in PeerRow
  BY <1>1, <1>2, OperationFields DEF LoadPeer, SessionInv, SessionTypeOK, Database
<1>4. PICK k : k = [task[t] EXCEPT !.pc = "loaded", !.read = disk.peer[does.peer]]
  OBVIOUS
<1>5. /\ k \in TaskState /\ k.pc = "loaded" /\ k.does = does /\ k.read = disk.peer[does.peer]
      /\ task' = [task EXCEPT ![t] = k] /\ UNCHANGED <<disk, cache, lock, behind>>
  <2>1. /\ k \in TaskState /\ k.pc = "loaded" /\ k.does = does
        /\ k.read = disk.peer[does.peer]
    BY <1>1, <1>2, <1>3, <1>4 DEF TaskState
  <2>2. /\ task' = [task EXCEPT ![t].pc = "loaded", ![t].read = disk.peer[does.peer]]
        /\ UNCHANGED <<disk, cache, lock, behind>>
    BY <1>1 DEF LoadPeer
  <2>3. task \in [Task -> TaskState]
    BY DEF SessionInv, SessionTypeOK
  <2>4. task' = [task EXCEPT ![t] = k]
    BY <1>4, <2>2, <2>3
  <2> QED
    BY <2>1, <2>2, <2>4
<1>6. /\ task' \in [Task -> TaskState] /\ task'[t] = k
      /\ \A u \in Task : u # t => task'[u].pc = "idle" /\ TaskOK(u)'
      /\ \A u \in Task, op \in {"home", "option"} :
            (Catching(u, op) => u = t) /\ (Catching(u, op)' => u = t)
  BY <1>2, <1>5, TaskFrame
<1>7. SessionTypeOK'
  BY <1>5, <1>6 DEF SessionInv, SessionTypeOK
<1>8. TaskOK(t)'
  BY <1>2, <1>3, <1>5, <1>6 DEF TaskOK, Catching
<1>9. CacheSurvivesRestart'
  <2>1. \A u \in Task, op \in {"home", "option"} : ~Catching(u, op)
    BY <1>2, <1>6 DEF Catching
  <2> QED
    BY <1>5, <2>1 DEF SessionInv, CacheSurvivesRestart, Opened
<1> QED
  BY <1>5, <1>6, <1>7, <1>8, <1>9 DEF SessionInv

\* What is stored is a row, and NULL only when it says nothing.
LEMMA ExtendedRow ==
    ASSUME NEW row \in PeerRow, NEW info \in PeerInfo
    PROVE  LET new == RowOf(Extended(row, info))
           IN  new \in PeerRow /\ (new.null => new.flags = {})
<1>1. (IF info.auth = NoHash THEN row.hash ELSE info.auth) \in Hash \cup {NoHash}
  BY DEF PeerRow, PeerInfo
<1> QED
  BY <1>1 DEF RowOf, Extended, PeerRow

\* StorePeer (SqlxSession::cache_peer) keeps the invariant.
LEMMA StorePeerInv == ASSUME SessionInv, NEW t \in Task, StorePeer(t) PROVE SessionInv'
<1>1. PICK does, new : does = task[t].does /\ new = RowOf(Extended(task[t].read, does.info))
  OBVIOUS
<1>2. /\ task[t] \in TaskState /\ task[t].pc = "loaded" /\ does \in Operation
      /\ does.op = "peer"
  BY <1>1 DEF StorePeer, SessionInv, SessionTypeOK, TaskOK
<1>3. does.peer \in Peer /\ does.info \in PeerInfo /\ task[t].read \in PeerRow
  BY <1>2, OperationFields DEF TaskState
<1>4. new \in PeerRow /\ (new.null => new.flags = {})
  BY <1>1, <1>3, ExtendedRow
<1>5. /\ disk' = [disk EXCEPT !.peer[does.peer] = new] /\ lock' = NoTask
      /\ task' = [task EXCEPT ![t] = IdleTask] /\ UNCHANGED <<cache, behind>>
  BY <1>1 DEF StorePeer
<1>6. /\ task' \in [Task -> TaskState] /\ task'[t] = IdleTask
      /\ \A u \in Task : u # t => task'[u].pc = "idle" /\ TaskOK(u)'
      /\ \A u \in Task, op \in {"home", "option"} :
            (Catching(u, op) => u = t) /\ (Catching(u, op)' => u = t)
  BY <1>2, <1>5, RowTypes, TaskFrame
<1>7. /\ disk' \in Database /\ disk'.home = disk.home /\ disk'.option = disk.option
      /\ disk'.peer = [disk.peer EXCEPT ![does.peer] = new]
      /\ disk.peer \in [Peer -> PeerRow]
  BY <1>3, <1>4, <1>5 DEF SessionInv, SessionTypeOK, Database
<1>8. SessionTypeOK'
  BY <1>5, <1>6, <1>7 DEF SessionInv, SessionTypeOK
<1>9. TaskOK(t)'
  BY <1>6 DEF TaskOK, Catching, IdleTask
<1>10. \A p \in Peer : disk'.peer[p].null => disk'.peer[p].flags = {}
  BY <1>3, <1>4, <1>7 DEF SessionInv
<1>11. CacheSurvivesRestart'
  <2>1. \A u \in Task, op \in {"home", "option"} : ~Catching(u, op)
    BY <1>2, <1>6 DEF Catching
  <2> QED
    BY <1>5, <1>7, <2>1 DEF SessionInv, CacheSurvivesRestart, Opened
<1> QED
  BY <1>6, <1>8, <1>9, <1>10, <1>11 DEF SessionInv

\* Drop (SqlxSession::set_home_dc_id) keeps the invariant.
LEMMA DropInv == ASSUME SessionInv, NEW t \in Task, Drop(t) PROVE SessionInv'
<1>1. PICK does : does = task[t].does
  OBVIOUS
<1>2. /\ task[t].pc # "idle" /\ does \in Operation /\ lock = t
      /\ task' = [task EXCEPT ![t] = IdleTask] /\ lock' = NoTask /\ UNCHANGED <<disk, cache>>
  BY <1>1 DEF Drop, SessionInv, TaskOK
<1>3. /\ task' \in [Task -> TaskState] /\ task'[t] = IdleTask
      /\ \A u \in Task : u # t => task'[u].pc = "idle" /\ TaskOK(u)'
      /\ \A u \in Task, op \in {"home", "option"} :
            (Catching(u, op) => u = t) /\ (Catching(u, op)' => u = t)
  BY <1>2, RowTypes, TaskFrame
<1>4. behind \in [home : BOOLEAN, options : SUBSET Dc]
  BY DEF SessionInv, SessionTypeOK
<1>5. /\ behind' \in [home : BOOLEAN, options : SUBSET Dc]
      /\ behind.home => behind'.home
      /\ behind.options \subseteq behind'.options
      /\ Catching(t, "home") => behind'.home
      /\ Catching(t, "option") => does.dc \in behind'.options
  <2>1. CASE Catching(t, "home")
    <3>1. behind' = [behind EXCEPT !.home = TRUE] /\ ~Catching(t, "option")
      BY <2>1 DEF Drop, Catching
    <3> QED
      BY <1>4, <3>1
  <2>2. CASE Catching(t, "option")
    <3>1. /\ behind' = [behind EXCEPT !.options = behind.options \cup {does.dc}]
          /\ does.dc \in Dc /\ ~Catching(t, "home")
      BY <1>1, <1>2, <2>2, OperationFields DEF Drop, Catching
    <3> QED
      BY <1>4, <3>1
  <2>3. CASE ~Catching(t, "home") /\ ~Catching(t, "option")
    <3>1. behind' = behind
      BY <2>3 DEF Drop
    <3> QED
      BY <1>4, <2>3, <3>1
  <2> QED
    BY <2>1, <2>2, <2>3
<1>6. SessionTypeOK'
  BY <1>2, <1>3, <1>5 DEF SessionInv, SessionTypeOK
<1>7. TaskOK(t)'
  BY <1>3 DEF TaskOK, Catching, IdleTask
<1>8. CacheSurvivesRestart'
  <2>1. cache.home # Opened(disk).home => behind'.home
    BY <1>3, <1>5 DEF SessionInv, CacheSurvivesRestart
  <2>2. \A dc \in Dc : cache.option[dc] # Opened(disk).option[dc] => dc \in behind'.options
    BY <1>1, <1>3, <1>5 DEF SessionInv, CacheSurvivesRestart
  <2> QED
    BY <1>2, <2>1, <2>2 DEF CacheSurvivesRestart
<1> QED
  BY <1>2, <1>3, <1>6, <1>7, <1>8 DEF SessionInv

\* Restart (SqlxSession::open) keeps the invariant.
LEMMA RestartInv == ASSUME SessionInv, Restart PROVE SessionInv'
<1>1. /\ task' = [t \in Task |-> IdleTask] /\ lock' = NoTask /\ behind' = NotBehind
      /\ cache' = Opened(disk) /\ UNCHANGED disk
  BY DEF Restart
<1>2. Opened(disk) \in [home : Dc, option : [Dc -> AuthKey \cup {NoKey}]]
  <2>1. /\ disk.home = <<>> \/ \E dc \in Dc : disk.home = <<dc>>
        /\ disk.option \in [Dc -> AuthKey \cup {NoKey}]
    BY DEF SessionInv, SessionTypeOK, Database
  <2>2. (IF disk.home = <<>> THEN DefaultDc ELSE Head(disk.home)) \in Dc
    BY <2>1, DefaultAssumption
  <2> QED
    BY <2>1, <2>2 DEF Opened
<1>3. SessionTypeOK'
  BY <1>1, <1>2, RowTypes DEF SessionInv, SessionTypeOK, NotBehind
<1>4. \A t \in Task : TaskOK(t)'
  BY <1>1 DEF TaskOK, Catching, IdleTask
<1>5. CacheSurvivesRestart'
  BY <1>1 DEF CacheSurvivesRestart
<1> QED
  BY <1>1, <1>3, <1>4, <1>5 DEF SessionInv

\* Every step keeps the invariant.
LEMMA SessionNextInv == SessionInv /\ [SessionNext]_sessionVars => SessionInv'
<1> SUFFICES ASSUME SessionInv, [SessionNext]_sessionVars PROVE SessionInv'
  OBVIOUS
<1>1. ASSUME NEW t \in Task, NEW operation \in Operation, Lock(t, operation) PROVE SessionInv'
  BY <1>1, LockInv
<1>2. ASSUME NEW t \in Task, SessionStep(t) PROVE SessionInv'
  BY <1>2, CommitInv, ReturnInv, LoadPeerInv, StorePeerInv, DropInv DEF SessionStep
<1>3. CASE UNCHANGED sessionVars
  BY <1>3 DEF sessionVars, SessionInv, SessionTypeOK, TaskOK, Catching, CacheSurvivesRestart, Opened
<1> QED
  BY <1>1, <1>2, <1>3, RestartInv DEF SessionNext

\* The session is well-typed and written by one task at a time, which holds
\* write_lock (SqlxSession::set_home_dc_id, set_dc_option, cache_peer).
THEOREM SessionInvariant == SessionSpec => []SessionInv
<1>1. SessionInit => SessionInv
  BY SessionInitInv
<1>2. SessionInv /\ [SessionNext]_sessionVars => SessionInv'
  BY SessionNextInv
<1> QED
  BY <1>1, <1>2, PTL DEF SessionSpec

\* open() gives what the cache held, unless a writer was dropped between its
\* commit and the cache (SqlxSession::open).
THEOREM CacheAlwaysSurvives == SessionSpec => []CacheSurvivesRestart
<1>1. SessionInv => CacheSurvivesRestart
  BY Zenon DEF SessionInv
<1> QED
  BY <1>1, SessionInvariant, PTL

\* What StorePeer writes keeps what is stored, unless it is told otherwise.
LEMMA StorePeerKeeps ==
    ASSUME SessionInv, NEW t \in Task, StorePeer(t), NEW p \in Peer
    PROVE  /\ disk.peer[p].hash # NoHash => disk'.peer[p].hash # NoHash
           /\ \A f \in disk.peer[p].flags \ disk'.peer[p].flags :
                 task[t].pc = "loaded" /\ task[t].does.info[f] = "no"
<1>1. PICK does, row, new : /\ does = task[t].does /\ row = task[t].read
                            /\ new = RowOf(Extended(row, does.info))
  OBVIOUS
<1>2. /\ does.op = "peer" /\ does \in Operation /\ task[t].pc = "loaded"
      /\ row = disk.peer[does.peer] /\ disk \in Database
  BY <1>1 DEF StorePeer, SessionInv, SessionTypeOK, TaskOK
<1>3. does.peer \in Peer /\ does.info \in PeerInfo /\ row \in PeerRow
  BY <1>2, OperationFields DEF Database
<1>4. disk'.peer = [disk.peer EXCEPT ![does.peer] = new]
  BY <1>1, <1>2 DEF StorePeer, Database
<1>5. row.hash # NoHash => new.hash # NoHash
  BY <1>1 DEF RowOf, Extended
<1>6. ASSUME NEW f \in row.flags \ new.flags PROVE does.info[f] = "no"
  <2>1. f \in {"bot", "self"} /\ ~row.null
    BY <1>2, <1>3 DEF PeerRow, SessionInv
  <2>2. Extended(row, does.info)[f] # "yes"
    BY <1>1, <1>6, <2>1 DEF RowOf
  <2>3. FlagOf(row, f) = "yes"
    BY <1>6, <2>1 DEF FlagOf
  <2>4. does.info[f] # "unknown" /\ does.info[f] # "yes"
    BY <2>1, <2>2, <2>3 DEF Extended
  <2> QED
    BY <1>3, <2>1, <2>4 DEF PeerInfo, Flag
<1> QED
  BY <1>1, <1>2, <1>3, <1>4, <1>5, <1>6 DEF Database

\* Partial information about a peer takes nothing away
\* (SqlxSession::cache_peer, extend_info).
THEOREM KnowledgeKept == SessionSpec => PeerKnowledgeKept
<1>1. ASSUME SessionInv, [SessionNext]_sessionVars
      PROVE  [\A p \in Peer :
                /\ disk.peer[p].hash # NoHash => disk'.peer[p].hash # NoHash
                /\ \A f \in disk.peer[p].flags \ disk'.peer[p].flags :
                     \E t \in Task : task[t].pc = "loaded" /\ task[t].does.info[f] = "no"]_sessionVars
  <2>1. ASSUME NEW t \in Task, Commit(t) PROVE disk'.peer = disk.peer
    <3>1. disk \in Database
      BY <1>1 DEF SessionInv, SessionTypeOK
    <3> QED
      BY <2>1, <3>1 DEF Commit, Database
  <2>2. CASE disk'.peer = disk.peer
    BY <2>2
  <2>3. /\ \A t \in Task, operation \in Operation : Lock(t, operation) => disk' = disk
        /\ \A t \in Task : Return(t) \/ LoadPeer(t) \/ Drop(t) => disk' = disk
        /\ Restart => disk' = disk
    BY DEF Lock, Return, LoadPeer, Drop, Restart
  <2>4. CASE \E t \in Task : StorePeer(t)
    BY <1>1, <2>4, StorePeerKeeps
  <2>5. CASE SessionNext /\ ~\E t \in Task : StorePeer(t)
    BY <2>1, <2>2, <2>3, <2>5 DEF SessionNext, SessionStep
  <2> QED
    BY <1>1, <2>4, <2>5 DEF SessionNext
<1> QED
  BY <1>1, SessionInvariant, PTL DEF SessionSpec, PeerKnowledgeKept

----------------------------------------------------------------------------
(* The parts together.                                                     *)

\* A step of the whole is a step of one part, or none, and leaves the others.
LEMMA StepsOfParts ==
    [TelegramNext]_telegramVars =>
        [CallsNext]_callVars /\ [SessionNext]_sessionVars /\ [BandwidthNext]_bandwidthVars
BY DEF TelegramNext, CallsMove, SessionMoves, BandwidthMoves, telegramVars

\* The parts share no variable here, so what each does in the whole it does alone.
LEMMA PartsRunAlone == TelegramSpec => CallsSpec /\ SessionSpec /\ BandwidthSpec
<1>1. TelegramInit => CallsInit /\ SessionInit /\ BandwidthInit
  BY DEF TelegramInit
<1> QED
  BY <1>1, StepsOfParts, PTL DEF TelegramSpec, CallsSpec, SessionSpec, BandwidthSpec

\* So the parts keep their invariants beside each other.
THEOREM TelegramInvariant == TelegramSpec => []TelegramInv
<1>1. CallsInv /\ SessionInv /\ BandwidthTypeOK => TelegramInv
  BY DEF TelegramInv
<1> QED
  BY <1>1, PartsRunAlone, CallsInvariant, SessionInvariant, BandwidthTypes, PTL

=============================================================================
