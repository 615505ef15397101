----------------------------- MODULE LspClient -----------------------------
(***************************************************************************)
(* The JSON-RPC client of internal/lsp (lsp.go): goroutines that Call and  *)
(* Notify, the single reader goroutine running Client.Run, and the         *)
(* language server at the other end of the two pipes.  A request is        *)
(* abstracted to the ordinal of its call, which the server echoes in its   *)
(* reply; frames are abstracted to records.  The server is external code.  *)
(***************************************************************************)
EXTENDS Naturals, Sequences

CONSTANTS
    Callers,    \* goroutines that use the client
    MaxCalls,   \* bound: calls made in total
    Faults      \* what may go wrong, a subset of FaultKinds

FaultKinds == {"die",        \* the server process exits
               "garble",     \* the server sends a frame that does not decode
               "cancelCall", \* the context of a call is cancelled
               "cancelRun"}  \* the context of Run is cancelled

ASSUME CallersAssumption == MaxCalls \in Nat /\ Faults \subseteq FaultKinds

VARIABLES
    pc,        \* per caller: "idle", "checked", "write" or "wait"
    myId,      \* per caller: id of its current or last request
    myCall,    \* per caller: ordinal of its current or last call
    outcome,   \* per caller: what its last Call or Notify returned, "none" while it runs
    got,       \* per caller: ordinal echoed in the reply it got, 0 for none
    ctxDone,   \* per caller: the context of its call is done
    calls,     \* number of calls made so far
    nextID,    \* Client.nextID
    pending,   \* ids in Client.pending
    chan,      \* per id: state of its one-slot reply channel, and the echo in it
    closed,    \* Client.closed
    reader,    \* Run: "top", "read", "deliver", "drain" or "done"
    taken,     \* the reply the reader has taken out of pending
    runCtx,    \* the context of Run is done
    server,    \* "up" or "dead"
    inbox,     \* requests the server has not answered yet
    out,       \* frames on their way to the client
    progress,  \* work-done progress: "none", "asked", "granted" or "ended"
    indexed    \* Process.indexedCh is closed

callerVars == <<pc, myId, myCall, outcome, got, ctxDone, calls>>
tableVars  == <<nextID, pending, chan>>
readerVars == <<closed, reader, taken, runCtx, indexed>>
serverVars == <<server, inbox, out, progress>>
vars == <<callerVars, tableVars, readerVars, serverVars>>

Frame(kind, id, call) == [kind |-> kind, id |-> id, call |-> call]
NoFrame == Frame("none", 0, 0)

Init ==
    /\ pc = [c \in Callers |-> "idle"] /\ myId = [c \in Callers |-> 0]
    /\ myCall = [c \in Callers |-> 0] /\ outcome = [c \in Callers |-> "none"]
    /\ got = [c \in Callers |-> 0] /\ ctxDone = [c \in Callers |-> FALSE]
    /\ calls = 0 /\ nextID = 0 /\ pending = {} /\ chan = <<>>
    /\ closed = FALSE /\ reader = "top" /\ taken = NoFrame
    /\ runCtx = FALSE /\ indexed = FALSE
    /\ server = "up" /\ inbox = {} /\ out = <<>> /\ progress = "none"

-----------------------------------------------------------------------------
(* Call and Notify                                                         *)

Return(c, result, echo) ==
    /\ pc' = [pc EXCEPT ![c] = "idle"]
    /\ outcome' = [outcome EXCEPT ![c] = result]
    /\ got' = [got EXCEPT ![c] = echo]
    /\ ctxDone' = [ctxDone EXCEPT ![c] = FALSE]

\* Call begins: it looks at closed once.
CheckClosed(c) ==
    /\ pc[c] = "idle" /\ calls < MaxCalls
    /\ calls' = calls + 1 /\ myCall' = [myCall EXCEPT ![c] = calls + 1]
    /\ IF closed
       THEN Return(c, "clientClosed", 0)
       ELSE /\ pc' = [pc EXCEPT ![c] = "checked"]
            /\ outcome' = [outcome EXCEPT ![c] = "none"] /\ got' = [got EXCEPT ![c] = 0]
            /\ UNCHANGED ctxDone
    /\ UNCHANGED <<myId, tableVars, readerVars, serverVars>>

\* A fresh id and an empty one-slot channel, entered in the pending table.
Register(c) ==
    /\ pc[c] = "checked"
    /\ nextID' = nextID + 1
    /\ myId' = [myId EXCEPT ![c] = nextID']
    /\ pending' = pending \cup {nextID'}
    /\ chan' = [i \in 1 .. nextID' |-> IF i = nextID' THEN [st |-> "open", call |-> 0]
                                       ELSE chan[i]]
    /\ pc' = [pc EXCEPT ![c] = "write"]
    /\ UNCHANGED <<myCall, outcome, got, ctxDone, calls, readerVars, serverVars>>

\* Mutant of Unregister: a failed call stays in the table.
UnregisterForgotten(c) == UNCHANGED tableVars

Unregister(c) == pending' = pending \ {myId[c]} /\ UNCHANGED <<nextID, chan>>

\* writeFrame holds wmu, so frames enter the pipe whole and one at a time.
WriteRequest(c) ==
    /\ pc[c] = "write" /\ server = "up"
    /\ inbox' = inbox \cup {Frame("call", myId[c], myCall[c])}
    /\ pc' = [pc EXCEPT ![c] = "wait"]
    /\ UNCHANGED <<myId, myCall, outcome, got, ctxDone, calls, tableVars, readerVars, server, out, progress>>

\* The read end of the pipe is gone: the plain write error is returned.
WriteFails(c) ==
    /\ pc[c] = "write" /\ server = "dead"
    /\ Unregister(c) /\ Return(c, "writeErr", 0)
    /\ UNCHANGED <<myId, myCall, calls, readerVars, serverVars>>

ReceiveReply(c) ==
    /\ pc[c] = "wait" /\ chan[myId[c]].st = "full"
    /\ Return(c, "reply", chan[myId[c]].call)
    /\ UNCHANGED <<myId, myCall, calls, tableVars, readerVars, serverVars>>

ReceiveClosed(c) ==
    /\ pc[c] = "wait" /\ chan[myId[c]].st = "closed"
    /\ Return(c, "connClosed", 0)
    /\ UNCHANGED <<myId, myCall, calls, tableVars, readerVars, serverVars>>

ContextDone(c) ==
    /\ pc[c] = "wait" /\ ctxDone[c]
    /\ Unregister(c) /\ Return(c, "ctx", 0)
    /\ UNCHANGED <<myId, myCall, calls, readerVars, serverVars>>

CancelCall(c) ==
    /\ "cancelCall" \in Faults /\ pc[c] # "idle" /\ ~ctxDone[c]
    /\ ctxDone' = [ctxDone EXCEPT ![c] = TRUE]
    /\ UNCHANGED <<pc, myId, myCall, outcome, got, calls, tableVars, readerVars, serverVars>>

\* Notify only writes: it never looks at closed.
Notify(c) ==
    /\ pc[c] = "idle"
    /\ Return(c, IF server = "up" THEN "sent" ELSE "sendErr", 0)
    /\ UNCHANGED <<myId, myCall, calls, tableVars, readerVars, serverVars>>

FinishCall(c) == \/ Register(c) \/ WriteRequest(c) \/ WriteFails(c)
                 \/ ReceiveReply(c) \/ ReceiveClosed(c) \/ ContextDone(c)

Caller(c) == CheckClosed(c) \/ FinishCall(c) \/ CancelCall(c) \/ Notify(c)

-----------------------------------------------------------------------------
(* Run: the reader goroutine                                               *)

\* The context is looked at between two frames; closed is not set here.
RunContextDone ==
    /\ reader = "top" /\ runCtx /\ reader' = "drain"
    /\ UNCHANGED <<callerVars, tableVars, closed, taken, runCtx, indexed, serverVars>>

RunReads ==
    /\ reader = "top" /\ ~runCtx /\ reader' = "read"
    /\ UNCHANGED <<callerVars, tableVars, closed, taken, runCtx, indexed, serverVars>>

\* End of file, or a frame that does not decode.
ReadFails ==
    /\ reader = "read"
    /\ \/ out = <<>> /\ server = "dead" /\ UNCHANGED out
       \/ out # <<>> /\ Head(out).kind = "bad" /\ out' = Tail(out)
    /\ closed' = TRUE /\ reader' = "drain"
    /\ UNCHANGED <<callerVars, tableVars, taken, runCtx, indexed, server, inbox, progress>>

Incoming(kind) == reader = "read" /\ out # <<>> /\ Head(out).kind = kind /\ out' = Tail(out)

\* Mutants of DispatchReply: replies are matched in order, not by id; the
\* entry stays in the table.
DispatchInOrder ==
    /\ Incoming("reply")
    /\ IF pending # {}
       THEN LET id == CHOOSE i \in pending : \A j \in pending : i <= j
            IN /\ pending' = pending \ {id}
               /\ taken' = [Head(out) EXCEPT !.id = id] /\ reader' = "deliver"
       ELSE reader' = "top" /\ UNCHANGED <<pending, taken>>
    /\ UNCHANGED <<callerVars, nextID, chan, closed, runCtx, indexed, server, inbox, progress>>
DispatchKeeps ==
    /\ Incoming("reply")
    /\ IF Head(out).id \in pending
       THEN taken' = Head(out) /\ reader' = "deliver"
       ELSE reader' = "top" /\ UNCHANGED taken
    /\ UNCHANGED <<callerVars, nextID, pending, chan, closed, runCtx, indexed, server, inbox, progress>>

\* A reply is taken out of the table; an unknown id is dropped.
DispatchReply ==
    /\ Incoming("reply")
    /\ IF Head(out).id \in pending
       THEN /\ pending' = pending \ {Head(out).id}
            /\ taken' = Head(out) /\ reader' = "deliver"
       ELSE reader' = "top" /\ UNCHANGED <<pending, taken>>
    /\ UNCHANGED <<callerVars, nextID, chan, closed, runCtx, indexed, server, inbox, progress>>

\* The send into the buffered channel, and its close.
Deliver ==
    /\ reader = "deliver"
    /\ chan' = [chan EXCEPT ![taken.id] = [st |-> "full", call |-> taken.call]]
    /\ taken' = NoFrame /\ reader' = "top"
    /\ UNCHANGED <<callerVars, nextID, pending, closed, runCtx, indexed, serverVars>>

\* Mutant of DispatchRequest: requests are dropped.
DispatchRequestDropped ==
    /\ Incoming("request") /\ reader' = "top"
    /\ UNCHANGED <<callerVars, tableVars, closed, taken, runCtx, indexed, server, inbox, progress>>

\* A server-to-client request is answered with an empty result.
DispatchRequest ==
    /\ Incoming("request")
    /\ progress' = IF server = "up" THEN "granted" ELSE progress
    /\ reader' = "top"
    /\ UNCHANGED <<callerVars, tableVars, closed, taken, runCtx, indexed, server, inbox>>

\* $/progress: the end of background indexing releases WaitIndexed.
DispatchNotification ==
    /\ Incoming("end")
    /\ indexed' = TRUE /\ reader' = "top"
    /\ UNCHANGED <<callerVars, tableVars, closed, taken, runCtx, server, inbox, progress>>

\* Mutant of CloseAllPending: the channels are dropped, not closed.
CloseAllPendingSilently ==
    /\ reader = "drain" /\ pending' = {} /\ reader' = "done"
    /\ UNCHANGED <<callerVars, nextID, chan, closed, taken, runCtx, indexed, serverVars>>

\* closeAllPending, under pendingMu.
CloseAllPending ==
    /\ reader = "drain"
    /\ chan' = [i \in DOMAIN chan |-> IF i \in pending THEN [chan[i] EXCEPT !.st = "closed"]
                                      ELSE chan[i]]
    /\ pending' = {} /\ reader' = "done"
    /\ UNCHANGED <<callerVars, nextID, closed, taken, runCtx, indexed, serverVars>>

Reader == \/ RunContextDone \/ RunReads \/ ReadFails \/ DispatchReply \/ Deliver
          \/ DispatchRequest \/ DispatchNotification \/ CloseAllPending

CancelRun ==
    /\ "cancelRun" \in Faults /\ ~runCtx /\ runCtx' = TRUE
    /\ UNCHANGED <<callerVars, tableVars, closed, reader, taken, indexed, serverVars>>

-----------------------------------------------------------------------------
(* The language server (external)                                          *)

Send(frame) == server = "up" /\ out' = Append(out, frame)

ServerReplies ==
    /\ \E r \in inbox : Send(Frame("reply", r.id, r.call)) /\ inbox' = inbox \ {r}
    /\ UNCHANGED <<callerVars, tableVars, readerVars, server, progress>>

\* window/workDoneProgress/create gates the progress notifications.
ServerAsks ==
    /\ progress = "none" /\ Send(Frame("request", 1, 0)) /\ progress' = "asked"
    /\ UNCHANGED <<callerVars, tableVars, readerVars, server, inbox>>

ServerEndsProgress ==
    /\ progress = "granted" /\ Send(Frame("end", 0, 0)) /\ progress' = "ended"
    /\ UNCHANGED <<callerVars, tableVars, readerVars, server, inbox>>

ServerGarbles ==
    /\ "garble" \in Faults /\ Send(Frame("bad", 0, 0))
    /\ \A k \in DOMAIN out : out[k].kind # "bad"
    /\ UNCHANGED <<callerVars, tableVars, readerVars, server, inbox, progress>>

\* The process exits; what it has written can still be read.
ServerDies ==
    /\ "die" \in Faults \/ runCtx
    /\ server = "up" /\ server' = "dead" /\ inbox' = {}
    /\ UNCHANGED <<callerVars, tableVars, readerVars, out, progress>>

Server == ServerReplies \/ ServerAsks \/ ServerEndsProgress \/ ServerGarbles \/ ServerDies

Next == (\E c \in Callers : Caller(c)) \/ Reader \/ CancelRun \/ Server

\* Goroutines that can move do, and the server answers what it is asked and
\* ends its indexing; nobody has to start a call, cancel, die or garble.
Fairness == /\ \A c \in Callers : WF_vars(FinishCall(c))
            /\ WF_vars(Reader)
            /\ WF_vars(ServerReplies) /\ WF_vars(ServerEndsProgress)
            /\ WF_vars(runCtx /\ ServerDies)

Spec == Init /\ [][Next]_vars
FairSpec == Spec /\ Fairness

-----------------------------------------------------------------------------
(* Properties                                                              *)

Outcomes == {"none", "sent", "sendErr", "reply", "clientClosed", "connClosed", "writeErr", "ctx"}
Frames == [kind : {"none", "call", "reply", "request", "end", "bad"}, id : Nat, call : Nat]

\* Safety: every variable has its type; ids are handed out densely and only
\* ids that were handed out have a channel or a table entry (Call).
TypeOK ==
    /\ pc \in [Callers -> {"idle", "checked", "write", "wait"}]
    /\ myId \in [Callers -> Nat] /\ myCall \in [Callers -> Nat]
    /\ outcome \in [Callers -> Outcomes] /\ got \in [Callers -> Nat]
    /\ ctxDone \in [Callers -> BOOLEAN]
    /\ calls \in Nat /\ nextID \in Nat /\ pending \subseteq 1 .. nextID
    /\ chan \in [1 .. nextID -> [st : {"open", "full", "closed"}, call : Nat]]
    /\ closed \in BOOLEAN /\ runCtx \in BOOLEAN /\ indexed \in BOOLEAN
    /\ reader \in {"top", "read", "deliver", "drain", "done"}
    /\ server \in {"up", "dead"} /\ progress \in {"none", "asked", "granted", "ended"}
    /\ taken \in Frames /\ inbox \subseteq Frames /\ out \in Seq(Frames)

\* The id the reader is between taking out of the table and delivering.
Delivering == IF reader = "deliver" THEN {taken.id} ELSE {}

\* Safety: a Call that returns a reply returns the reply to its own request,
\* however calls overlap, are cancelled and are answered out of order or late
\* (Call, dispatch: correlation by id).
OwnReply == \A c \in Callers : outcome[c] = "reply" => got[c] = myCall[c]

\* Safety: the channels the reader may still send on or close are open, so
\* it never sends on a closed channel and never closes one twice, either of
\* which would panic (dispatch, closeAllPending).
NoChannelPanic == \A i \in pending \cup Delivering : chan[i].st = "open"

\* Safety: the table holds only requests somebody still waits for; a call
\* that failed or was cancelled leaves nothing behind (Call).
NoPendingLeak ==
    \A i \in pending : \E c \in Callers : pc[c] \in {"write", "wait"} /\ myId[c] = i

\* Safety: a caller waiting on an empty channel is known to the reader: its
\* id is in the table or in the reader's hands (Call, dispatch).  An entry made
\* after the table was drained counts too, though no reader is left to use it.
WaiterIsKnown ==
    \A c \in Callers : (pc[c] \in {"write", "wait"} /\ chan[myId[c]].st = "open")
                           => myId[c] \in pending \cup Delivering

\* c has a request in progress.
Busy(c) == pc[c] \in {"write", "wait"}

\* Requests in progress have ids of their own.
IdsInv ==
    /\ \A c \in Callers : Busy(c) => myId[c] \in 1 .. nextID
    /\ \A c, d \in Callers : Busy(c) /\ Busy(d) /\ myId[c] = myId[d] => c = d

\* f answers, or asks for, the call of whoever waits for its id.
Echoes(f) ==
    /\ f.id <= nextID
    /\ \A c \in Callers : Busy(c) /\ myId[c] = f.id => f.call = myCall[c]

EchoInv ==
    /\ \A r \in inbox : Echoes(r)
    /\ \A k \in DOMAIN out : out[k].kind = "reply" => Echoes(out[k])
    /\ reader = "deliver" => Echoes(taken) /\ taken.id \in (1 .. nextID) \ pending
    /\ \A i \in 1 .. nextID : chan[i].st = "full"
           => \A c \in Callers : Busy(c) /\ myId[c] = i => chan[i].call = myCall[c]

\* Safety: the inductive invariant behind the four properties (module
\* LspClient_proofs): ids in use are distinct, and whatever is on its way
\* under an id belongs to the call that waits for it (Call, dispatch).
IInv == TypeOK /\ IdsInv /\ EchoInv /\ OwnReply
        /\ NoChannelPanic /\ NoPendingLeak /\ WaiterIsKnown

\* Liveness: every call returns, whether the server answers or dies, and
\* whether or not the call is cancelled (lsp.go:27-29).
EveryCallReturns == \A c \in Callers : (pc[c] # "idle") ~> (pc[c] = "idle")

\* Liveness: once the server asks to report progress, either it dies or the
\* end of indexing reaches WaitIndexed: the request is answered although the
\* client implements no reverse RPC (dispatch, lsp.go:150-154).
IndexingSettles == (progress = "asked") ~> (indexed \/ server = "dead")

=============================================================================
