-------------------------- MODULE LspClient_proofs --------------------------
(***************************************************************************)
(* Proofs about the JSON-RPC client for any set of callers, any number of  *)
(* calls and any faults: replies are correlated, no channel is sent on or  *)
(* closed twice, no entry of the pending table leaks, and every waiter is  *)
(* known to the reader.                                                    *)
(***************************************************************************)
EXTENDS LspClient, TLAPS

\* Reading the oldest frame off the pipe.
LEMMA PopFrame ==
  ASSUME out \in Seq(Frames), out # <<>>
  PROVE  /\ Head(out) \in Frames /\ Head(out) = out[1] /\ 1 \in DOMAIN out
         /\ Tail(out) \in Seq(Frames)
         /\ \A k \in DOMAIN Tail(out) : k + 1 \in DOMAIN out /\ Tail(out)[k] = out[k + 1]
  OBVIOUS

\* Writing a new frame to the pipe.
LEMMA PushFrame ==
  ASSUME out \in Seq(Frames), NEW f \in Frames
  PROVE  /\ Append(out, f) \in Seq(Frames)
         /\ \A k \in DOMAIN Append(out, f) :
               Append(out, f)[k] = f \/ (k \in DOMAIN out /\ Append(out, f)[k] = out[k])
  OBVIOUS

\* A Call that returns keeps the variables of its caller in their types.
LEMMA ReturnType ==
  ASSUME TypeOK, NEW c \in Callers, NEW r \in Outcomes, NEW e \in Nat, Return(c, r, e)
  PROVE  /\ pc' \in [Callers -> {"idle", "checked", "write", "wait"}]
         /\ outcome' \in [Callers -> Outcomes] /\ got' \in [Callers -> Nat]
         /\ ctxDone' \in [Callers -> BOOLEAN]
<1>1. ctxDone' \in [Callers -> BOOLEAN]
  BY DEF TypeOK, Return
<1>2. pc' \in [Callers -> {"idle", "checked", "write", "wait"}]
  BY DEF TypeOK, Return
<1> QED
  BY <1>1, <1>2 DEF TypeOK, Return

\* A client without calls satisfies the invariant.
LEMMA InitInv == Init => IInv
<1> SUFFICES ASSUME Init PROVE IInv
  OBVIOUS
<1>1. TypeOK
  <2>1. closed \in BOOLEAN /\ runCtx \in BOOLEAN /\ indexed \in BOOLEAN
        /\ ctxDone \in [Callers -> BOOLEAN]
    BY DEF Init
  <2>2. chan \in [1 .. nextID -> [st : {"open", "full", "closed"}, call : Nat]]
    BY DEF Init
  <2>3. taken \in Frames
    BY DEF Init, NoFrame, Frame, Frames
  <2>4. out \in Seq(Frames)
    BY DEF Init
  <2> QED
    BY <2>1, <2>2, <2>3, <2>4 DEF Init, TypeOK, Outcomes
<1>2. IdsInv /\ EchoInv
  BY DEF Init, IdsInv, EchoInv, Busy
<1>3. OwnReply /\ NoChannelPanic /\ NoPendingLeak /\ WaiterIsKnown
  BY DEF Init, OwnReply, NoChannelPanic, NoPendingLeak, WaiterIsKnown, Delivering
<1> QED
  BY <1>1, <1>2, <1>3 DEF IInv

\* Every action keeps every variable in its type.
LEMMA TypeStep ==
  TypeOK /\ IdsInv /\ [Next]_vars => TypeOK'
<1> SUFFICES ASSUME TypeOK, IdsInv, [Next]_vars PROVE TypeOK'
  OBVIOUS
<1> USE DEF TypeOK, Outcomes,
        callerVars, tableVars, readerVars, serverVars
<1>1. CASE UNCHANGED vars
  BY <1>1 DEF vars
<1>2. ASSUME NEW c \in Callers, CheckClosed(c) \/ Register(c) \/
      WriteRequest(c) \/ WriteFails(c) \/ ReceiveReply(c) \/ ReceiveClosed(c)
      \/ ContextDone(c) \/ CancelCall(c) \/ Notify(c)
      PROVE  TypeOK'
  <2>1. CASE CheckClosed(c)
    <3>1. /\ calls' \in Nat /\ myCall' \in [Callers -> Nat]
          /\ UNCHANGED <<myId, tableVars, readerVars, serverVars>>
      BY <2>1 DEF CheckClosed
    <3>2. /\ pc' \in [Callers -> {"idle", "checked", "write", "wait"}]
          /\ outcome' \in [Callers -> Outcomes] /\ got' \in [Callers -> Nat]
          /\ ctxDone' \in [Callers -> BOOLEAN]
      <4>1. CASE closed
        <5>1. Return(c, "clientClosed", 0)
          BY <2>1, <4>1 DEF CheckClosed
        <5>2. "clientClosed" \in Outcomes
          BY DEF Outcomes
        <5> QED
          BY <5>1, <5>2, ReturnType
      <4>2. CASE ~closed
        <5>1. pc' = [pc EXCEPT ![c] = "checked"] /\ outcome' = [outcome EXCEPT ![c] = "none"]
          BY <2>1, <4>2 DEF CheckClosed
        <5>2. got' = [got EXCEPT ![c] = 0] /\ ctxDone' = ctxDone
          BY <2>1, <4>2 DEF CheckClosed
        <5>3. pc' \in [Callers -> {"idle", "checked", "write", "wait"}]
          BY <5>1
        <5>4. outcome' \in [Callers -> Outcomes]
          BY <5>1
        <5> QED
          BY <5>2, <5>3, <5>4
      <4> QED
        BY <4>1, <4>2
    <3> QED
      BY <3>1, <3>2
  <2>2. CASE Register(c)
    BY <2>2 DEF Register
  <2>3. CASE WriteRequest(c)
    <3>1. Frame("call", myId[c], myCall[c]) \in Frames
      BY DEF Frame, Frames
    <3> QED
      BY <2>3, <3>1 DEF WriteRequest
  <2>4. CASE WriteFails(c)
    <3>1. Return(c, "writeErr", 0)
      BY <2>4 DEF WriteFails
    <3>2. "writeErr" \in Outcomes /\ 0 \in Nat
      BY <2>4 DEF WriteFails, Outcomes
    <3> QED
      BY <2>4, <3>1, <3>2, ReturnType DEF WriteFails, Unregister
  <2>5. CASE ReceiveReply(c)
    <3>1. chan[myId[c]].call \in Nat
      BY <2>5 DEF ReceiveReply, IdsInv, Busy
    <3>2. Return(c, "reply", chan[myId[c]].call) /\ "reply" \in Outcomes
      BY <2>5 DEF ReceiveReply, Outcomes
    <3> QED
      BY <2>5, <3>1, <3>2, ReturnType DEF ReceiveReply
  <2>6. CASE ReceiveClosed(c)
    <3>1. Return(c, "connClosed", 0)
      BY <2>6 DEF ReceiveClosed
    <3>2. "connClosed" \in Outcomes /\ 0 \in Nat
      BY <2>6 DEF ReceiveClosed, Outcomes
    <3> QED
      BY <2>6, <3>1, <3>2, ReturnType DEF ReceiveClosed
  <2>7. CASE ContextDone(c)
    <3>1. Return(c, "ctx", 0)
      BY <2>7 DEF ContextDone
    <3>2. "ctx" \in Outcomes /\ 0 \in Nat
      BY <2>7 DEF ContextDone, Outcomes
    <3> QED
      BY <2>7, <3>1, <3>2, ReturnType DEF ContextDone, Unregister
  <2>8. CASE CancelCall(c)
    BY <2>8 DEF CancelCall
  <2>9. CASE Notify(c)
    BY <2>9 DEF Notify, Return
  <2> QED
    BY <1>2, <2>1, <2>2, <2>3, <2>4, <2>5, <2>6, <2>7, <2>8, <2>9
<1>3. CASE RunContextDone
  BY <1>3 DEF RunContextDone
<1>4. CASE RunReads
  BY <1>4 DEF RunReads
<1>5. CASE ReadFails
  <2>1. out' \in Seq(Frames)
    BY <1>5, PopFrame DEF ReadFails
  <2> QED
    BY <1>5, <2>1 DEF ReadFails
<1>6. CASE DispatchReply
  <2>1. Head(out) \in Frames /\ Tail(out) \in Seq(Frames) /\ out' = Tail(out)
    BY <1>6, PopFrame DEF DispatchReply, Incoming
  <2> QED
    BY <1>6, <2>1 DEF DispatchReply
<1>7. CASE Deliver
  <2>1. taken' \in Frames
    BY <1>7 DEF Deliver, NoFrame, Frame, Frames
  <2>2. [st |-> "full", call |-> taken.call] \in [st : {"open", "full", "closed"}, call : Nat]
    BY DEF Frames
  <2>3. chan' \in [1 .. nextID -> [st : {"open", "full", "closed"}, call : Nat]]
    BY <1>7, <2>2 DEF Deliver
  <2> QED
    BY <1>7, <2>1, <2>3 DEF Deliver
<1>8. CASE DispatchRequest
  <2>1. Head(out) \in Frames /\ Tail(out) \in Seq(Frames) /\ out' = Tail(out)
    BY <1>8, PopFrame DEF DispatchRequest, Incoming
  <2> QED
    BY <1>8, <2>1 DEF DispatchRequest
<1>9. CASE DispatchNotification
  <2>1. Head(out) \in Frames /\ Tail(out) \in Seq(Frames) /\ out' = Tail(out)
    BY <1>9, PopFrame DEF DispatchNotification, Incoming
  <2> QED
    BY <1>9, <2>1 DEF DispatchNotification
<1>10. CASE CloseAllPending
  BY <1>10 DEF CloseAllPending
<1>11. CASE CancelRun
  BY <1>11 DEF CancelRun
<1>12. CASE ServerReplies
  <2>1. PICK r \in inbox : Send(Frame("reply", r.id, r.call)) /\ inbox' = inbox \ {r}
    BY <1>12 DEF ServerReplies
  <2>2. Frame("reply", r.id, r.call) \in Frames
    BY DEF Frame, Frames
  <2>3. out' \in Seq(Frames)
    BY <2>1, <2>2, PushFrame DEF Send
  <2> QED
    BY <1>12, <2>1, <2>3 DEF ServerReplies
<1>13. CASE ServerAsks
  <2>1. Frame("request", 1, 0) \in Frames
    BY <1>13 DEF ServerAsks, Frame, Frames, TypeOK
  <2>2. Append(out, Frame("request", 1, 0)) \in Seq(Frames)
    BY <2>1, PushFrame DEF TypeOK
  <2>3. out' = Append(out, Frame("request", 1, 0))
    BY <1>13 DEF ServerAsks, Send
  <2> QED
    BY <1>13, <2>2, <2>3 DEF ServerAsks, Send
<1>14. CASE ServerEndsProgress
  <2>1. Frame("end", 0, 0) \in Frames
    BY <1>14 DEF ServerEndsProgress, Frame, Frames, TypeOK
  <2>2. Append(out, Frame("end", 0, 0)) \in Seq(Frames)
    BY <2>1, PushFrame DEF TypeOK
  <2>3. out' = Append(out, Frame("end", 0, 0))
    BY <1>14 DEF ServerEndsProgress, Send
  <2> QED
    BY <1>14, <2>2, <2>3 DEF ServerEndsProgress, Send
<1>15. CASE ServerGarbles
  <2>1. Frame("bad", 0, 0) \in Frames
    BY <1>15 DEF ServerGarbles, Frame, Frames, TypeOK
  <2>2. Append(out, Frame("bad", 0, 0)) \in Seq(Frames)
    BY <2>1, PushFrame DEF TypeOK
  <2>3. out' = Append(out, Frame("bad", 0, 0))
    BY <1>15 DEF ServerGarbles, Send
  <2> QED
    BY <1>15, <2>2, <2>3 DEF ServerGarbles, Send
<1>16. CASE ServerDies
  BY <1>16 DEF ServerDies
<1>17. ASSUME UNCHANGED vars
      PROVE  UNCHANGED vars
  BY <1>17 DEF vars
<1> QED
  BY <1>1, <1>2, <1>3, <1>4, <1>5, <1>6, <1>7, <1>8, <1>9, <1>10, <1>11, <1>12,
     <1>13, <1>14, <1>15, <1>16, <1>17
     DEF Next, Caller, FinishCall, Reader, Server

\* A new request gets an id that no other request in progress has.
LEMMA IdsStep ==
  TypeOK /\ IdsInv /\ [Next]_vars => IdsInv'
<1> SUFFICES ASSUME TypeOK, IdsInv, [Next]_vars PROVE IdsInv'
  OBVIOUS
<1> USE DEF TypeOK, IdsInv, Busy,
        callerVars, tableVars, readerVars, serverVars
<1>1. CASE UNCHANGED <<pc, myId, nextID>>
  BY <1>1 DEF vars
<1>2. ASSUME NEW c \in Callers, CheckClosed(c) \/ Register(c) \/
      WriteRequest(c) \/ WriteFails(c) \/ ReceiveReply(c) \/ ReceiveClosed(c)
      \/ ContextDone(c) \/ Notify(c)
      PROVE  IdsInv'
  <2>1. CASE CheckClosed(c)
    <3>1. CASE closed
      BY <2>1, <3>1 DEF CheckClosed, Return
    <3>2. CASE ~closed
      BY <2>1, <3>2 DEF CheckClosed
    <3> QED
      BY <3>1, <3>2
  <2>2. CASE Register(c)
    BY <2>2 DEF Register
  <2>3. CASE WriteRequest(c)
    BY <2>3 DEF WriteRequest, Frame
  <2>4. CASE WriteFails(c)
    BY <2>4 DEF WriteFails, Unregister, Return
  <2>5. CASE ReceiveReply(c)
    BY <2>5 DEF ReceiveReply, Return
  <2>6. CASE ReceiveClosed(c)
    BY <2>6 DEF ReceiveClosed, Return
  <2>7. CASE ContextDone(c)
    BY <2>7 DEF ContextDone, Unregister, Return
  <2>8. CASE Notify(c)
    BY <2>8 DEF Notify, Return
  <2> QED
    BY <1>2, <2>1, <2>2, <2>3, <2>4, <2>5, <2>6, <2>7, <2>8
<1>3. ASSUME NEW c \in Callers, CancelCall(c)
      PROVE  UNCHANGED <<pc, myId, nextID>>
  BY <1>3 DEF CancelCall
<1>4. ASSUME UNCHANGED vars \/ RunContextDone \/ RunReads \/ ReadFails \/
      DispatchReply \/ Deliver \/ DispatchRequest \/ DispatchNotification \/
      CloseAllPending \/ CancelRun \/ ServerReplies \/ ServerAsks \/
      ServerEndsProgress \/ ServerGarbles \/ ServerDies
      PROVE  UNCHANGED <<pc, myId, nextID>>
  BY <1>4 DEF vars, RunContextDone, RunReads, ReadFails, DispatchReply,
     Deliver, DispatchRequest, DispatchNotification, CloseAllPending,
     CancelRun, ServerReplies, ServerAsks, ServerEndsProgress, ServerGarbles,
     ServerDies
<1> QED
  BY <1>1, <1>2, <1>3, <1>4
     DEF Next, Caller, FinishCall, Reader, Server

\* The ordinal of a call travels unchanged from the request to the reply channel.
LEMMA EchoStep ==
  TypeOK /\ IdsInv /\ EchoInv /\ [Next]_vars => EchoInv'
<1> SUFFICES ASSUME TypeOK, IdsInv, EchoInv, [Next]_vars PROVE EchoInv'
  OBVIOUS
<1> USE DEF TypeOK, IdsInv, EchoInv, Echoes, Busy,
        callerVars, tableVars, readerVars, serverVars
<1>1. CASE UNCHANGED <<pc, myId, myCall, calls, nextID, pending, chan, reader,
      taken, inbox, out>>
  BY <1>1 DEF vars
<1>2. ASSUME NEW c \in Callers, CheckClosed(c) \/ Register(c) \/
      WriteRequest(c) \/ WriteFails(c) \/ ReceiveReply(c) \/ ReceiveClosed(c)
      \/ ContextDone(c) \/ Notify(c)
      PROVE  EchoInv'
  <2>1. CASE CheckClosed(c)
    <3>1. /\ \A d \in Callers : Busy(d)' => Busy(d) /\ myCall'[d] = myCall[d]
          /\ UNCHANGED <<myId, nextID, pending, chan, reader, taken, inbox, out>>
      BY <2>1 DEF CheckClosed, Return
    <3> QED
      BY <3>1
  <2>2. CASE Register(c)
    <3>1. /\ nextID' = nextID + 1 /\ UNCHANGED <<myCall, reader, taken, inbox, out>>
          /\ \A d \in Callers : Busy(d)' => IF d = c THEN myId'[d] = nextID + 1
                                           ELSE Busy(d) /\ myId'[d] = myId[d]
      BY <2>2 DEF Register
    <3>2. \A f \in Frames : Echoes(f) => Echoes(f)'
      <4> SUFFICES ASSUME NEW f \in Frames, Echoes(f) PROVE Echoes(f)'
        OBVIOUS
      <4>1. f.id \in Nat /\ f.id <= nextID'
        BY <3>1 DEF Frames
      <4>2. ASSUME NEW d \in Callers, Busy(d)', myId'[d] = f.id
            PROVE  f.call = myCall'[d]
        <5>1. d # c
          BY <3>1, <4>1, <4>2
        <5> QED
          BY <3>1, <4>2, <5>1
      <4> QED
        BY <4>1, <4>2
    <3>3. (\A r \in inbox : Echoes(r))' /\ (\A k \in DOMAIN out : out[k].kind = "reply" => Echoes(out[k]))'
      BY <3>1, <3>2
    <3>4. (reader = "deliver" => Echoes(taken) /\ taken.id \in (1 .. nextID) \ pending)'
      BY <2>2, <3>1, <3>2 DEF Register
    <3>5. (\A i \in 1 .. nextID : chan[i].st = "full"
              => \A d \in Callers : Busy(d) /\ myId[d] = i => chan[i].call = myCall[d])'
      BY <2>2, <3>1 DEF Register
    <3> QED
      BY <3>3, <3>4, <3>5
  <2>3. CASE WriteRequest(c)
    BY <2>3 DEF WriteRequest, Frame
  <2>4. CASE WriteFails(c)
    BY <2>4 DEF WriteFails, Unregister, Return
  <2>5. CASE ReceiveReply(c)
    BY <2>5 DEF ReceiveReply, Return
  <2>6. CASE ReceiveClosed(c)
    BY <2>6 DEF ReceiveClosed, Return
  <2>7. CASE ContextDone(c)
    BY <2>7 DEF ContextDone, Unregister, Return
  <2>8. CASE Notify(c)
    BY <2>8 DEF Notify, Return
  <2> QED
    BY <1>2, <2>1, <2>2, <2>3, <2>4, <2>5, <2>6, <2>7, <2>8
<1>3. CASE RunContextDone
  BY <1>3 DEF RunContextDone
<1>4. CASE RunReads
  BY <1>4 DEF RunReads
<1>5. CASE ReadFails
  <2>1. \A k \in DOMAIN out' : \E j \in DOMAIN out : out'[k] = out[j]
    <3>1. CASE out = <<>>
      BY <1>5, <3>1 DEF ReadFails
    <3>2. CASE out # <<>>
      <4>1. out' = Tail(out)
        BY <1>5, <3>2 DEF ReadFails
      <4>2. \A k \in DOMAIN out' : k + 1 \in DOMAIN out /\ out'[k] = out[k + 1]
        BY <3>2, <4>1, PopFrame
      <4> QED
        BY <4>2
    <3> QED
      BY <3>1, <3>2
  <2> QED
    BY <1>5, <2>1 DEF ReadFails
<1>6. CASE DispatchReply
  <2>1. /\ Head(out) \in Frames /\ Echoes(Head(out))
        /\ \A k \in DOMAIN out' : \E j \in DOMAIN out : out'[k] = out[j]
    BY <1>6, PopFrame DEF DispatchReply, Incoming
  <2>2. UNCHANGED <<pc, myId, myCall, nextID, chan, inbox>> /\ pending' \subseteq pending
    BY <1>6 DEF DispatchReply
  <2>3. (reader = "deliver" => Echoes(taken) /\ taken.id \in (1 .. nextID) \ pending)'
    BY <1>6, <2>1, <2>2 DEF DispatchReply, Incoming
  <2>4. (\A k \in DOMAIN out : out[k].kind = "reply" => Echoes(out[k]))'
    BY <2>1, <2>2
  <2> QED
    BY <2>2, <2>3, <2>4
<1>7. CASE Deliver
  BY <1>7 DEF Deliver, NoFrame, Frame
<1>8. CASE DispatchRequest
  BY <1>8 DEF DispatchRequest, Incoming
<1>9. CASE DispatchNotification
  BY <1>9 DEF DispatchNotification, Incoming
<1>10. CASE CloseAllPending
  BY <1>10 DEF CloseAllPending
<1>11. CASE ServerReplies
  BY <1>11 DEF ServerReplies, Send, Frame
<1>12. CASE ServerAsks
  BY <1>12 DEF ServerAsks, Send, Frame
<1>13. CASE ServerEndsProgress
  BY <1>13 DEF ServerEndsProgress, Send, Frame
<1>14. CASE ServerGarbles
  BY <1>14 DEF ServerGarbles, Send, Frame
<1>15. CASE ServerDies
  BY <1>15 DEF ServerDies
<1>16. ASSUME NEW c \in Callers, CancelCall(c)
      PROVE  UNCHANGED <<pc, myId, myCall, calls, nextID, pending, chan,
            reader, taken, inbox, out>>
  BY <1>16 DEF CancelCall
<1>17. ASSUME UNCHANGED vars \/ CancelRun
      PROVE  UNCHANGED <<pc, myId, myCall, calls, nextID, pending, chan,
            reader, taken, inbox, out>>
  BY <1>17 DEF vars, CancelRun
<1> QED
  BY <1>1, <1>2, <1>3, <1>4, <1>5, <1>6, <1>7, <1>8, <1>9, <1>10, <1>11, <1>12,
     <1>13, <1>14, <1>15, <1>16, <1>17
     DEF Next, Caller, FinishCall, Reader, Server

\* A reply handed to a caller echoes the call the caller is making.
LEMMA OwnReplyStep ==
  TypeOK /\ IdsInv /\ EchoInv /\ OwnReply /\ [Next]_vars => OwnReply'
<1> SUFFICES ASSUME TypeOK, IdsInv, EchoInv, OwnReply, [Next]_vars PROVE OwnReply'
  OBVIOUS
<1> USE DEF TypeOK, IdsInv, EchoInv, Busy, OwnReply,
        callerVars, tableVars, readerVars, serverVars
<1>1. CASE UNCHANGED <<myCall, outcome, got>>
  BY <1>1 DEF vars
<1>2. ASSUME NEW c \in Callers, CheckClosed(c) \/ WriteFails(c) \/
      ReceiveReply(c) \/ ReceiveClosed(c) \/ ContextDone(c) \/ Notify(c)
      PROVE  OwnReply'
  <2>1. CASE CheckClosed(c)
    BY <2>1 DEF CheckClosed, Return
  <2>2. CASE WriteFails(c)
    BY <2>2 DEF WriteFails, Unregister, Return
  <2>3. CASE ReceiveReply(c)
    BY <2>3 DEF ReceiveReply, Return
  <2>4. CASE ReceiveClosed(c)
    BY <2>4 DEF ReceiveClosed, Return
  <2>5. CASE ContextDone(c)
    BY <2>5 DEF ContextDone, Unregister, Return
  <2>6. CASE Notify(c)
    BY <2>6 DEF Notify, Return
  <2> QED
    BY <1>2, <2>1, <2>2, <2>3, <2>4, <2>5, <2>6
<1>3. ASSUME NEW c \in Callers, Register(c) \/ WriteRequest(c) \/ CancelCall(c)
      PROVE  UNCHANGED <<myCall, outcome, got>>
  BY <1>3 DEF Register, WriteRequest, CancelCall
<1>4. ASSUME UNCHANGED vars \/ RunContextDone \/ RunReads \/ ReadFails \/
      DispatchReply \/ Deliver \/ DispatchRequest \/ DispatchNotification \/
      CloseAllPending \/ CancelRun \/ ServerReplies \/ ServerAsks \/
      ServerEndsProgress \/ ServerGarbles \/ ServerDies
      PROVE  UNCHANGED <<myCall, outcome, got>>
  BY <1>4 DEF vars, RunContextDone, RunReads, ReadFails, DispatchReply,
     Deliver, DispatchRequest, DispatchNotification, CloseAllPending,
     CancelRun, ServerReplies, ServerAsks, ServerEndsProgress, ServerGarbles,
     ServerDies
<1> QED
  BY <1>1, <1>2, <1>3, <1>4
     DEF Next, Caller, FinishCall, Reader, Server

\* Only the reader fills or closes a channel, and only once.
LEMMA PanicStep ==
  TypeOK /\ EchoInv /\ NoChannelPanic /\ [Next]_vars => NoChannelPanic'
<1> SUFFICES ASSUME TypeOK, EchoInv, NoChannelPanic, [Next]_vars PROVE NoChannelPanic'
  OBVIOUS
<1> USE DEF TypeOK, EchoInv, NoChannelPanic, Delivering,
        callerVars, tableVars, readerVars, serverVars
<1>1. CASE UNCHANGED <<nextID, pending, chan, reader, taken>>
  BY <1>1 DEF vars
<1>2. ASSUME NEW c \in Callers, Register(c) \/ WriteFails(c) \/ ContextDone(c)
      PROVE  NoChannelPanic'
  <2>1. CASE Register(c)
    BY <2>1 DEF Register
  <2>2. CASE WriteFails(c)
    BY <2>2 DEF WriteFails, Unregister, Return
  <2>3. CASE ContextDone(c)
    BY <2>3 DEF ContextDone, Unregister, Return
  <2> QED
    BY <1>2, <2>1, <2>2, <2>3
<1>3. CASE RunContextDone
  BY <1>3 DEF RunContextDone
<1>4. CASE RunReads
  BY <1>4 DEF RunReads
<1>5. CASE ReadFails
  BY <1>5 DEF ReadFails
<1>6. CASE DispatchReply
  BY <1>6 DEF DispatchReply, Incoming
<1>7. CASE Deliver
  BY <1>7 DEF Deliver, NoFrame, Frame
<1>8. CASE DispatchRequest
  BY <1>8 DEF DispatchRequest, Incoming
<1>9. CASE DispatchNotification
  BY <1>9 DEF DispatchNotification, Incoming
<1>10. CASE CloseAllPending
  BY <1>10 DEF CloseAllPending
<1>11. ASSUME NEW c \in Callers, CheckClosed(c) \/ WriteRequest(c) \/
      ReceiveReply(c) \/ ReceiveClosed(c) \/ CancelCall(c) \/ Notify(c)
      PROVE  UNCHANGED <<nextID, pending, chan, reader, taken>>
  BY <1>11 DEF CheckClosed, WriteRequest, ReceiveReply, ReceiveClosed,
     CancelCall, Notify, Return
<1>12. ASSUME UNCHANGED vars \/ CancelRun \/ ServerReplies \/ ServerAsks \/
      ServerEndsProgress \/ ServerGarbles \/ ServerDies
      PROVE  UNCHANGED <<nextID, pending, chan, reader, taken>>
  BY <1>12 DEF vars, CancelRun, ServerReplies, ServerAsks, ServerEndsProgress,
     ServerGarbles, ServerDies
<1> QED
  BY <1>1, <1>2, <1>3, <1>4, <1>5, <1>6, <1>7, <1>8, <1>9, <1>10, <1>11, <1>12
     DEF Next, Caller, FinishCall, Reader, Server

\* Whoever stops waiting has its entry removed, by itself or by the reader.
LEMMA LeakStep ==
  TypeOK /\ IdsInv /\ NoChannelPanic /\ NoPendingLeak /\ [Next]_vars => NoPendingLeak'
<1> SUFFICES ASSUME TypeOK, IdsInv, NoChannelPanic, NoPendingLeak, [Next]_vars PROVE NoPendingLeak'
  OBVIOUS
<1> USE DEF TypeOK, IdsInv, Busy, NoChannelPanic, NoPendingLeak,
        callerVars, tableVars, readerVars, serverVars
<1>1. CASE UNCHANGED <<pc, myId, pending>>
  BY <1>1 DEF vars
<1>2. ASSUME NEW c \in Callers, CheckClosed(c) \/ Register(c) \/
      WriteRequest(c) \/ WriteFails(c) \/ ReceiveReply(c) \/ ReceiveClosed(c)
      \/ ContextDone(c) \/ Notify(c)
      PROVE  NoPendingLeak'
  <2>1. CASE CheckClosed(c)
    BY <2>1 DEF CheckClosed, Return
  <2>2. CASE Register(c)
    BY <2>2 DEF Register
  <2>3. CASE WriteRequest(c)
    BY <2>3 DEF WriteRequest, Frame
  <2>4. CASE WriteFails(c)
    BY <2>4 DEF WriteFails, Unregister, Return
  <2>5. CASE ReceiveReply(c)
    BY <2>5 DEF ReceiveReply, Return
  <2>6. CASE ReceiveClosed(c)
    BY <2>6 DEF ReceiveClosed, Return
  <2>7. CASE ContextDone(c)
    BY <2>7 DEF ContextDone, Unregister, Return
  <2>8. CASE Notify(c)
    BY <2>8 DEF Notify, Return
  <2> QED
    BY <1>2, <2>1, <2>2, <2>3, <2>4, <2>5, <2>6, <2>7, <2>8
<1>3. CASE DispatchReply
  BY <1>3 DEF DispatchReply, Incoming
<1>4. CASE CloseAllPending
  BY <1>4 DEF CloseAllPending
<1>5. ASSUME NEW c \in Callers, CancelCall(c)
      PROVE  UNCHANGED <<pc, myId, pending>>
  BY <1>5 DEF CancelCall
<1>6. ASSUME UNCHANGED vars \/ RunContextDone \/ RunReads \/ ReadFails \/
      Deliver \/ DispatchRequest \/ DispatchNotification \/ CancelRun \/
      ServerReplies \/ ServerAsks \/ ServerEndsProgress \/ ServerGarbles \/
      ServerDies
      PROVE  UNCHANGED <<pc, myId, pending>>
  BY <1>6 DEF vars, RunContextDone, RunReads, ReadFails, Deliver,
     DispatchRequest, DispatchNotification, CancelRun, ServerReplies,
     ServerAsks, ServerEndsProgress, ServerGarbles, ServerDies
<1> QED
  BY <1>1, <1>2, <1>3, <1>4, <1>5, <1>6
     DEF Next, Caller, FinishCall, Reader, Server

\* An entry leaves the table only for the reader's hands or with its channel.
LEMMA WaiterStep ==
  TypeOK /\ IdsInv /\ EchoInv /\ WaiterIsKnown /\ [Next]_vars => WaiterIsKnown'
<1> SUFFICES ASSUME TypeOK, IdsInv, EchoInv, WaiterIsKnown, [Next]_vars PROVE WaiterIsKnown'
  OBVIOUS
<1> USE DEF TypeOK, IdsInv, Busy, EchoInv, WaiterIsKnown, Delivering,
        callerVars, tableVars, readerVars, serverVars
<1>1. CASE UNCHANGED <<pc, myId, nextID, pending, chan, reader, taken>>
  BY <1>1 DEF vars
<1>2. ASSUME NEW c \in Callers, CheckClosed(c) \/ Register(c) \/
      WriteRequest(c) \/ WriteFails(c) \/ ReceiveReply(c) \/ ReceiveClosed(c)
      \/ ContextDone(c) \/ Notify(c)
      PROVE  WaiterIsKnown'
  <2>1. CASE CheckClosed(c)
    BY <2>1 DEF CheckClosed, Return
  <2>2. CASE Register(c)
    BY <2>2 DEF Register
  <2>3. CASE WriteRequest(c)
    BY <2>3 DEF WriteRequest, Frame
  <2>4. CASE WriteFails(c)
    BY <2>4 DEF WriteFails, Unregister, Return
  <2>5. CASE ReceiveReply(c)
    BY <2>5 DEF ReceiveReply, Return
  <2>6. CASE ReceiveClosed(c)
    BY <2>6 DEF ReceiveClosed, Return
  <2>7. CASE ContextDone(c)
    BY <2>7 DEF ContextDone, Unregister, Return
  <2>8. CASE Notify(c)
    BY <2>8 DEF Notify, Return
  <2> QED
    BY <1>2, <2>1, <2>2, <2>3, <2>4, <2>5, <2>6, <2>7, <2>8
<1>3. CASE RunContextDone
  BY <1>3 DEF RunContextDone
<1>4. CASE RunReads
  BY <1>4 DEF RunReads
<1>5. CASE ReadFails
  BY <1>5 DEF ReadFails
<1>6. CASE DispatchReply
  BY <1>6 DEF DispatchReply, Incoming
<1>7. CASE Deliver
  BY <1>7 DEF Deliver, NoFrame, Frame
<1>8. CASE DispatchRequest
  BY <1>8 DEF DispatchRequest, Incoming
<1>9. CASE DispatchNotification
  BY <1>9 DEF DispatchNotification, Incoming
<1>10. CASE CloseAllPending
  BY <1>10 DEF CloseAllPending
<1>11. ASSUME NEW c \in Callers, CancelCall(c)
      PROVE  UNCHANGED <<pc, myId, nextID, pending, chan, reader, taken>>
  BY <1>11 DEF CancelCall
<1>12. ASSUME UNCHANGED vars \/ CancelRun \/ ServerReplies \/ ServerAsks \/
      ServerEndsProgress \/ ServerGarbles \/ ServerDies
      PROVE  UNCHANGED <<pc, myId, nextID, pending, chan, reader, taken>>
  BY <1>12 DEF vars, CancelRun, ServerReplies, ServerAsks, ServerEndsProgress,
     ServerGarbles, ServerDies
<1> QED
  BY <1>1, <1>2, <1>3, <1>4, <1>5, <1>6, <1>7, <1>8, <1>9, <1>10, <1>11, <1>12
     DEF Next, Caller, FinishCall, Reader, Server

\* IInv is an invariant: each of its parts is preserved.
THEOREM Invariance == Spec => []IInv
<1>1. IInv /\ [Next]_vars => IInv'
  BY TypeStep, IdsStep, EchoStep, OwnReplyStep, PanicStep, LeakStep, WaiterStep DEF IInv
<1> QED
  BY InitInv, <1>1, PTL DEF Spec

\* Every reply goes to the call that asked for it.
THEOREM Correlation == Spec => []OwnReply
<1>1. IInv => OwnReply
  BY DEF IInv
<1> QED
  BY Invariance, <1>1, PTL

\* The reader never sends on a closed channel nor closes one twice.
THEOREM ChannelSafety == Spec => []NoChannelPanic
<1>1. IInv => NoChannelPanic
  BY DEF IInv
<1> QED
  BY Invariance, <1>1, PTL

\* The pending table holds only requests somebody waits for.
THEOREM NoLeak == Spec => []NoPendingLeak
<1>1. IInv => NoPendingLeak
  BY DEF IInv
<1> QED
  BY Invariance, <1>1, PTL

\* No caller waits on a channel the reader has forgotten.
THEOREM KnownWaiters == Spec => []WaiterIsKnown
<1>1. IInv => WaiterIsKnown
  BY DEF IInv
<1> QED
  BY Invariance, <1>1, PTL

=============================================================================
