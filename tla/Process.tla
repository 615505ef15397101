------------------------------ MODULE Process ------------------------------
(***************************************************************************)
(* One clangd from Start to Stop (clangdproc.Process) under clang-index    *)
(* build: the wait for the background index, the extraction of the TUs and *)
(* the progress bar (progress.go), which the reader goroutine, the workers *)
(* and a ticker repaint.  The reader is Client.Run (module LspClient), cut *)
(* down to the messages that matter here; extract.Run (module Extract) is  *)
(* cut down to its wait and to its count of TUs.                           *)
(***************************************************************************)
EXTENDS Integers, Sequences, FiniteSets

CONSTANTS
    TUs,        \* what extract.Run has planned
    Percents,   \* what a report says; -1: nothing
    MaxRounds,  \* bound: rounds of background indexing
    MaxReports, \* bound: reports of clangd
    MaxPipe,    \* bound: messages between clangd and the reader
    Faults      \* what may go wrong, a subset of FaultKinds

FaultKinds == {"die",      \* clangd exits by itself
               "refuse",   \* it answers documentSymbol with an error
               "cancel"}   \* SIGINT or SIGTERM

ASSUME TUsAssumption == IsFiniteSet(TUs)
ASSUME PercentsAssumption == Percents \subseteq -1 .. 100
ASSUME BoundsAssumption == MaxRounds \in Nat /\ MaxReports \in Nat /\ MaxPipe \in Nat \ {0}
ASSUME FaultsAssumption == Faults \subseteq FaultKinds

VARIABLES
    clangd,    \* "none", "up", "gone", "reaped"
    asked,     \* requests clangd has got: "initialize", "shutdown", "exit"
    indexing,  \* the token of clangd's round of background indexing, or "no"
    rounds, reports,   \* begun, sent (bounded)
    pipe,      \* messages on their way to the reader
    client,    \* "open" or "closed": the reader has returned
    replies,   \* requests that were answered
    marking,   \* the reader is between the callback and markIndexed
    closed,    \* how often indexedCh and stopTick were closed
    main,      \* where build is
    outcome,   \* "running", "ok" or "failed"
    listening, \* the callback is registered
    gaveUp,    \* the wait for the index ended by its deadline
    ended,     \* history: clangd has ended a round under the token it is known by
    cancelled, \* the context is done
    work,      \* TU -> "todo", "counted", "reported" or "dropped"
    number,    \* TU -> what it counted
    count,     \* progress: TUs counted
    bar,       \* the progress bar
    screen     \* what is painted: a frame, or Clear

procVars   == <<clangd, asked, indexing, rounds, reports, ended>>
readerVars == <<client, replies, marking>>
mainVars   == <<main, outcome, listening, gaveUp>>
workVars   == <<work, number, count>>
barVars    == <<bar, screen>>
vars == <<procVars, pipe, readerVars, closed, mainVars, cancelled, workVars, barVars>>

Clear == <<"clear">>

Init ==
    /\ clangd = "none" /\ asked = {} /\ indexing = "no" /\ rounds = 0 /\ reports = 0
    /\ pipe = <<>> /\ client = "open" /\ replies = {} /\ marking = FALSE
    /\ closed = [indexedCh |-> 0, stopTick |-> 0]
    /\ main = "start" /\ outcome = "running" /\ listening = FALSE /\ gaveUp = FALSE
    /\ ended = FALSE /\ cancelled = FALSE
    /\ work = [t \in TUs |-> "todo"] /\ number = [t \in TUs |-> 0] /\ count = 0
    /\ bar \in [tty : BOOLEAN, phase : {"none"}, pct : {-1}, done : {0}, finished : {FALSE},
                ticking : {FALSE}]
    /\ screen = Clear

-----------------------------------------------------------------------------
(* The progress bar                                                        *)

Frame(b) == IF b.phase = "index" THEN <<"index", b.pct>> ELSE <<"extract", b.done>>

\* draw: what the screen may show next.  A paint that is not forced is left out
\* when the last one was less than 80 ms ago.
Draw(b, force) ==
    IF ~b.tty \/ b.finished \/ b.phase = "none" THEN {screen}
    ELSE {Frame(b)} \cup (IF force THEN {} ELSE {screen})

\* newProgressBar, with the ticker of animate
NewProgressBar == bar' = [bar EXCEPT !.ticking = bar.tty]

Tick ==
    /\ bar.ticking
    /\ screen' \in Draw(bar, TRUE)
    /\ UNCHANGED <<procVars, pipe, readerVars, closed, mainVars, cancelled, workVars, bar>>

TickerStops ==
    /\ bar.ticking /\ closed.stopTick > 0
    /\ bar' = [bar EXCEPT !.ticking = FALSE]
    /\ UNCHANGED <<procVars, pipe, readerVars, closed, mainVars, cancelled, workVars, screen>>

\* Mutant of ReportIndex: late progress repaints.
ReportIndexLate(pct) ==
    /\ bar' = [bar EXCEPT !.phase = "index", !.pct = IF pct > bar.pct THEN pct ELSE @]
    /\ screen' \in Draw(bar', FALSE)

\* reportIndex
ReportIndex(pct) ==
    IF bar.phase = "extract" THEN UNCHANGED barVars
    ELSE /\ bar' = [bar EXCEPT !.phase = "index", !.pct = IF pct > bar.pct THEN pct ELSE @]
         /\ screen' \in Draw(bar', FALSE)

\* reportExtract
ReportExtract(n) ==
    /\ bar' = [bar EXCEPT !.phase = "extract", !.done = n]
    /\ screen' \in Draw(bar', FALSE)

Finish ==
    IF bar.finished THEN UNCHANGED <<bar, closed, screen>>
    ELSE /\ bar' = [bar EXCEPT !.finished = TRUE]
         /\ closed' = [closed EXCEPT !.stopTick = @ + 1]
         /\ screen' = IF bar.tty /\ bar.phase # "none" THEN Clear ELSE screen

-----------------------------------------------------------------------------
(* clangd, and the operating system                                        *)

Up == clangd = "up"
Sends(m) == Up /\ Len(pipe) < MaxPipe /\ pipe' = Append(pipe, m)

Answers(req) ==
    /\ req \in asked \cap {"initialize", "shutdown"}
    /\ Sends([kind |-> "reply", req |-> req])
    /\ asked' = asked \ {req}
    /\ UNCHANGED <<clangd, indexing, rounds, reports, ended, readerVars, closed, mainVars, cancelled, workVars, barVars>>

\* The token of a progress; clangd names its rounds by "backgroundIndexProgress".
\* Only a begin has a title.
Tokens == {"background", "other"}

BeginsRound(token) ==
    /\ "initialize" \in replies /\ indexing = "no" /\ rounds < MaxRounds
    /\ Sends([kind |-> "begin", token |-> token, title |-> "indexing"])
    /\ indexing' = token /\ rounds' = rounds + 1
    /\ UNCHANGED <<clangd, asked, reports, ended, readerVars, closed, mainVars, cancelled, workVars, barVars>>

Reports(pct) ==
    /\ indexing # "no" /\ reports < MaxReports
    /\ Sends([kind |-> "report", token |-> indexing, pct |-> pct])
    /\ reports' = reports + 1
    /\ UNCHANGED <<clangd, asked, indexing, rounds, ended, readerVars, closed, mainVars, cancelled, workVars, barVars>>

EndsRound ==
    /\ indexing # "no"
    /\ Sends([kind |-> "end", token |-> indexing])
    /\ indexing' = "no" /\ ended' = (ended \/ indexing = "background")
    /\ UNCHANGED <<clangd, asked, rounds, reports, readerVars, closed, mainVars, cancelled, workVars, barVars>>

\* Some other progress begins; its end is like that of a round named "other".
BeginsOther ==
    /\ "initialize" \in replies /\ reports < MaxReports
    /\ Sends([kind |-> "begin", token |-> "other", title |-> "other"])
    /\ reports' = reports + 1
    /\ UNCHANGED <<clangd, asked, indexing, rounds, ended, readerVars, closed, mainVars, cancelled, workVars, barVars>>

\* It exits when told to, is killed with the context, or dies.
Exits ==
    /\ Up /\ ("exit" \in asked \/ cancelled \/ "die" \in Faults)
    /\ clangd' = "gone" /\ indexing' = "no"
    /\ UNCHANGED <<asked, rounds, reports, ended, pipe, readerVars, closed, mainVars, cancelled, workVars, barVars>>

\* SIGINT, SIGTERM
Cancel ==
    /\ "cancel" \in Faults /\ ~cancelled /\ cancelled' = TRUE
    /\ UNCHANGED <<procVars, pipe, readerVars, closed, mainVars, workVars, barVars>>

-----------------------------------------------------------------------------
(* The reader goroutine                                                    *)

Reading == client = "open" /\ ~marking /\ pipe # <<>>
m0 == Head(pipe)

ReadsReply ==
    /\ Reading /\ m0.kind = "reply"
    /\ pipe' = Tail(pipe) /\ replies' = replies \cup {m0.req}
    /\ UNCHANGED <<procVars, client, marking, closed, mainVars, cancelled, workVars, barVars>>

\* The token is looked at, or the title, which no report and no end has.
IsBgIndex(m) == m.token = "background" \/ (m.kind = "begin" /\ m.title = "indexing")

IgnoresProgress ==
    /\ Reading /\ m0.kind # "reply" /\ ~IsBgIndex(m0)
    /\ pipe' = Tail(pipe)
    /\ UNCHANGED <<procVars, readerVars, closed, mainVars, cancelled, workVars, barVars>>

\* fireIndexProgress, and parseFraction for what a report says.
Fire(pct) == IF listening THEN ReportIndex(pct) ELSE UNCHANGED barVars
PercentOf(m) == CASE m.kind = "begin" -> -1 [] m.kind = "report" -> m.pct [] m.kind = "end" -> 100

\* Mutant of HandlesProgress: the index is marked by way of the callback.
HandlesProgressByCallback ==
    /\ Reading /\ m0.kind # "reply" /\ IsBgIndex(m0)
    /\ pipe' = Tail(pipe) /\ Fire(PercentOf(m0))
    /\ marking' = (m0.kind = "end" /\ listening)
    /\ UNCHANGED <<procVars, client, replies, closed, mainVars, cancelled, workVars>>

\* The $/progress handler; after an end it marks the index.
HandlesProgress ==
    /\ Reading /\ m0.kind # "reply" /\ IsBgIndex(m0)
    /\ pipe' = Tail(pipe) /\ Fire(PercentOf(m0))
    /\ marking' = (m0.kind = "end")
    /\ UNCHANGED <<procVars, client, replies, closed, mainVars, cancelled, workVars>>

\* Mutant of MarkIndexed: without the Once.
MarkIndexedAgain ==
    /\ marking /\ marking' = FALSE
    /\ closed' = [closed EXCEPT !.indexedCh = @ + 1]
    /\ UNCHANGED <<procVars, pipe, client, replies, mainVars, cancelled, workVars, barVars>>

MarkIndexed ==
    /\ marking /\ marking' = FALSE
    /\ closed' = [closed EXCEPT !.indexedCh = 1]
    /\ UNCHANGED <<procVars, pipe, client, replies, mainVars, cancelled, workVars, barVars>>

\* Run returns at the end of the stream, which cmd.Wait may close before all of
\* it was read, or when it finds its context done.
ReaderReturns ==
    /\ client = "open" /\ ~marking /\ main # "start"
    /\ (clangd = "gone" /\ pipe = <<>>) \/ clangd = "reaped" \/ cancelled
    /\ client' = "closed"
    /\ UNCHANGED <<procVars, pipe, replies, marking, closed, mainVars, cancelled, workVars, barVars>>

-----------------------------------------------------------------------------
(* build: Start, extract.Run, Stop                                         *)

\* A deadline may pass at any time.
At(from, to) == main = from /\ main' = to

\* spawn, and the request of Initialize
Start ==
    /\ At("start", "handshake")
    /\ clangd' = "up" /\ asked' = {"initialize"}
    /\ UNCHANGED <<outcome, listening, gaveUp, indexing, rounds, reports, ended, pipe, readerVars, closed, cancelled, workVars, barVars>>

SpawnFails ==
    /\ At("start", "done") /\ outcome' = "failed"
    /\ UNCHANGED <<listening, gaveUp, procVars, pipe, readerVars, closed, cancelled, workVars, barVars>>

\* Start returns; the bar is made, and then listens.
Initialized ==
    /\ At("handshake", "bar") /\ "initialize" \in replies
    /\ NewProgressBar
    /\ UNCHANGED <<outcome, listening, gaveUp, procVars, pipe, readerVars, closed, cancelled, workVars, screen>>

\* The handshake has 30 s; clangd is killed, and nobody waits for it.
InitializeFails ==
    /\ At("handshake", "done") /\ outcome' = "failed"
    /\ clangd' = "gone" /\ indexing' = "no"
    /\ UNCHANGED <<listening, gaveUp, asked, rounds, reports, ended, pipe, readerVars, closed, cancelled, workVars, barVars>>

OnIndexProgress ==
    /\ At("bar", "open") /\ listening' = TRUE
    /\ UNCHANGED <<outcome, gaveUp, procVars, pipe, readerVars, closed, cancelled, workVars, barVars>>

\* extract.Run has opened the TUs.
Opened ==
    /\ At("open", "wait")
    /\ UNCHANGED <<outcome, listening, gaveUp, procVars, pipe, readerVars, closed, cancelled, workVars, barVars>>

\* extract.Run ends early: a file cannot be opened (it is gone, or the client is
\* closed), or documentLink finds the client closed.
RunFails ==
    /\ main = "open" \/ (main = "links" /\ client = "closed")
    /\ main' = "finish" /\ outcome' = "failed"
    /\ UNCHANGED <<listening, gaveUp, procVars, pipe, readerVars, closed, cancelled, workVars, barVars>>

WaitIndexed ==
    /\ At("wait", "links") /\ closed.indexedCh > 0
    /\ UNCHANGED <<outcome, listening, gaveUp, procVars, pipe, readerVars, closed, cancelled, workVars, barVars>>

\* Mutant of WaitTimesOut: the deadline is left out, unless clangd is gone.
WaitTimesOutGone ==
    /\ At("wait", "links") /\ ~Up /\ ~cancelled
    /\ gaveUp' = TRUE
    /\ UNCHANGED <<outcome, listening, procVars, pipe, readerVars, closed, cancelled, workVars, barVars>>

\* The inner deadline passes: build goes on with what clangd has.
WaitTimesOut ==
    /\ At("wait", "links") /\ ~cancelled
    /\ gaveUp' = TRUE
    /\ UNCHANGED <<outcome, listening, procVars, pipe, readerVars, closed, cancelled, workVars, barVars>>

\* A signal ends the wait with an error, which Run does not look at: it goes on,
\* and notices when the workers have returned.
WaitCancelled ==
    /\ At("wait", "links") /\ cancelled
    /\ UNCHANGED <<outcome, listening, gaveUp, procVars, pipe, readerVars, closed, cancelled, workVars, barVars>>

\* documentLink and ast of what is open: answered, or ended with the context or
\* with the client.
ReadsHeaders ==
    /\ At("links", "extract")
    /\ UNCHANGED <<outcome, listening, gaveUp, procVars, pipe, readerVars, closed, cancelled, workVars, barVars>>

\* No request of a worker is waited for any longer: the client or the context
\* has ended, or the first failure has cancelled the workers.
Ended == client = "closed" \/ cancelled \/ (\E u \in TUs : work[u] = "dropped")

\* reportProgress, in its two steps: the counter, then the bar.
Counts(t) ==
    /\ main = "extract" /\ work[t] = "todo"
    /\ work' = [work EXCEPT ![t] = "counted"]
    /\ count' = count + 1 /\ number' = [number EXCEPT ![t] = count + 1]
    /\ UNCHANGED <<procVars, pipe, readerVars, closed, mainVars, cancelled, barVars>>

ReportsTU(t) ==
    /\ main = "extract" /\ work[t] = "counted"
    /\ work' = [work EXCEPT ![t] = "reported"]
    /\ ReportExtract(number[t])
    /\ UNCHANGED <<procVars, pipe, readerVars, closed, mainVars, cancelled, number, count>>

\* A TU fails, its documentSymbol being refused or the client closed, or is
\* skipped when the context is done or after another has failed.
DropsTU(t) ==
    /\ main = "extract" /\ work[t] = "todo"
    /\ Ended \/ ("refuse" \in Faults /\ Up)
    /\ work' = [work EXCEPT ![t] = "dropped"]
    /\ UNCHANGED <<procVars, pipe, readerVars, closed, mainVars, cancelled, number, count, barVars>>

\* wg.Wait
RunReturns ==
    /\ At("extract", "finish") /\ \A t \in TUs : work[t] \in {"reported", "dropped"}
    /\ outcome' = IF cancelled \/ (\E t \in TUs : work[t] = "dropped") THEN "failed" ELSE "ok"
    /\ UNCHANGED <<listening, gaveUp, procVars, pipe, readerVars, closed, cancelled, workVars, barVars>>

\* bar.Finish, and again when the deferred calls run.
Finishes ==
    /\ \/ At("finish", "unwind") /\ UNCHANGED asked
       \/ At("unwind", "shutdown") /\ asked' = IF Up THEN asked \cup {"shutdown"} ELSE asked
    /\ Finish
    /\ UNCHANGED <<outcome, listening, gaveUp, clangd, indexing, rounds, reports, ended, pipe, readerVars, cancelled, workVars>>

\* Stop: the answer to shutdown, or 5 s without it.
ShutdownAnswered ==
    /\ At("shutdown", "reap") /\ "shutdown" \in replies
    /\ asked' = asked \cup {"exit"}
    /\ UNCHANGED <<outcome, listening, gaveUp, clangd, indexing, rounds, reports, ended, pipe, readerVars, closed, cancelled, workVars, barVars>>
ShutdownFails ==
    /\ At("shutdown", "reap")
    /\ UNCHANGED <<outcome, listening, gaveUp, procVars, pipe, readerVars, closed, cancelled, workVars, barVars>>

\* cmd.Wait returns, and closes the pipe.
Reaps ==
    /\ At("reap", "done") /\ clangd = "gone"
    /\ clangd' = "reaped" /\ pipe' = <<>>
    /\ UNCHANGED <<outcome, listening, gaveUp, asked, indexing, rounds, reports, ended, readerVars, closed, cancelled, workVars, barVars>>

\* Mutant of Kills: build does not wait for the clangd it has killed.
KillsOnly ==
    /\ At("reap", "done") /\ Up
    /\ clangd' = "gone" /\ indexing' = "no"
    /\ UNCHANGED <<outcome, listening, gaveUp, asked, rounds, reports, ended, pipe, readerVars, closed, cancelled, workVars, barVars>>

\* Another 5 s have passed; Wait is waited for.
Kills ==
    /\ main = "reap" /\ Up
    /\ clangd' = "gone" /\ indexing' = "no"
    /\ UNCHANGED <<mainVars, asked, rounds, reports, ended, pipe, readerVars, closed, cancelled, workVars, barVars>>

Clangd == \/ (\E req \in {"initialize", "shutdown"} : Answers(req))
          \/ (\E token \in Tokens : BeginsRound(token)) \/ (\E pct \in Percents : Reports(pct))
          \/ EndsRound \/ BeginsOther \/ Exits
Reader == ReadsReply \/ IgnoresProgress \/ HandlesProgress \/ MarkIndexed \/ ReaderReturns
Worker(t) == Counts(t) \/ ReportsTU(t) \/ DropsTU(t)
\* The steps of build that need no answer of clangd, and those that return from
\* a wait with a deadline.
Main == \/ Start \/ SpawnFails \/ Initialized \/ InitializeFails \/ OnIndexProgress
        \/ Opened \/ RunFails \/ WaitIndexed \/ WaitTimesOut \/ WaitCancelled \/ RunReturns
        \/ Finishes \/ ShutdownAnswered \/ ShutdownFails \/ Reaps \/ Kills

\* When build is done the program exits.
Next ==
    /\ main # "done"
    /\ \/ Clangd \/ Cancel \/ Reader \/ (\E t \in TUs : Worker(t)) \/ Main \/ ReadsHeaders
       \/ Tick \/ TickerStops

Spec == Init /\ [][Next]_vars
\* Goroutines are scheduled and deadlines pass.  The requests of extraction have
\* no deadline: that clangd answers one is not assumed, only that a call returns
\* once the client or the context has ended.
FairSpec == /\ Spec /\ WF_vars(Reader) /\ WF_vars(Main) /\ WF_vars(Ended /\ ReadsHeaders)
            /\ \A t \in TUs : WF_vars(ReportsTU(t)) /\ WF_vars(Ended /\ (Counts(t) \/ DropsTU(t)))

-----------------------------------------------------------------------------
(* Properties                                                              *)

Messages == [kind : {"reply"}, req : {"initialize", "shutdown"}]
            \cup [kind : {"begin"}, token : Tokens, title : {"indexing", "other"}]
            \cup [kind : {"report"}, token : Tokens, pct : Percents]
            \cup [kind : {"end"}, token : Tokens]
Phases   == {"start", "handshake", "bar", "open", "wait", "links", "extract", "finish", "unwind", "shutdown", "reap",
             "done"}

ClangdTypes ==
    /\ clangd \in {"none", "up", "gone", "reaped"} /\ asked \subseteq {"initialize", "shutdown", "exit"}
    /\ indexing \in Tokens \cup {"no"} /\ ended \in BOOLEAN /\ rounds \in Nat /\ reports \in Nat
    /\ pipe \in Seq(Messages) /\ Len(pipe) <= MaxPipe
BuildTypes ==
    /\ client \in {"open", "closed"} /\ replies \subseteq {"initialize", "shutdown"}
    /\ marking \in BOOLEAN /\ listening \in BOOLEAN /\ gaveUp \in BOOLEAN /\ cancelled \in BOOLEAN
    /\ main \in Phases /\ outcome \in {"running", "ok", "failed"}
WorkTypes ==
    /\ work \in [TUs -> {"todo", "counted", "reported", "dropped"}]
    /\ count \in 0 .. Cardinality(TUs) /\ number \in [TUs -> 0 .. count]
    /\ \A t, u \in TUs : (t # u /\ number[t] # 0) => number[t] # number[u]
Bars == [tty : BOOLEAN, phase : {"none", "index", "extract"}, pct : -1 .. 100,
         done : 0 .. Cardinality(TUs), finished : BOOLEAN, ticking : BOOLEAN]
BarTypes ==
    /\ bar \in Bars
    /\ screen \in {Clear} \cup ({"index"} \X (-1 .. 100)) \cup ({"extract"} \X (1 .. Cardinality(TUs)))
    /\ closed \in [indexedCh : 0 .. 1, stopTick : 0 .. 1]

\* Safety: every variable has its type; indexedCh and stopTick are closed at most
\* once, however many rounds clangd ends and though Finish is also deferred (a
\* second close panics); every TU that is counted has a number of its own, so
\* that the bar shows no number twice (reportProgress).
TypeOK == ClangdTypes /\ BuildTypes /\ WorkTypes /\ BarTypes

\* What one step may do to the line on the screen.
Forward ==
    /\ screen[1] = "extract" => screen'[1] # "index"
    /\ (screen[1] = "index" /\ screen'[1] = "index") => screen'[2] >= screen[2]
    /\ bar'.finished => screen' = Clear

\* Action property: the line keeps its order.  Progress of the index never
\* repaints the extraction, the percentage of the index never falls, whatever
\* round clangd is in (reportIndex: "stray late-arriving progress events"), and
\* nothing is painted on the line Finish has cleared ("subsequent output starts
\* on a clean line").  The count of the extraction may fall: two workers can
\* report in the other order than they counted.
LineKeepsOrder == [][Forward]_vars

\* Safety: no clangd outlives build, and none is left unreaped, except by a
\* handshake that failed (Start kills it without a Wait).
NoClangdLeft ==
    main = "done" => clangd \in {"none", "reaped"} \/ (clangd = "gone" /\ ~listening)

\* build waits for clangd to answer a request of the extraction.
WaitsForAnswer ==
    /\ Up /\ ~Ended
    /\ main = "links" \/ (main = "extract" /\ \E t \in TUs : work[t] = "todo")

\* Liveness: build ends although clangd may be quiet, hang before the extraction
\* and in Stop, or die at any point, and although it may have reported the end of
\* its index before anyone listened; unless clangd lives, never answers a request
\* of the extraction, which has no deadline (extract.go:200, 230, 442), and no
\* signal comes.
BuildReturns == <>(main = "done") \/ <>[]WaitsForAnswer

\* Safety: the end of a round that clangd names by its token is not lost: it was
\* heard, is on its way, or the reader or the pipe is gone (of a round known by
\* the title of its begin alone it would be: an end has no title); that the callback is set after Start has returned,
\* and clangd may be done by then, does not matter (WaitIndexed).
EndIsHeard ==
    ended => \/ closed.indexedCh > 0 \/ marking \/ client = "closed" \/ clangd = "reaped"
             \/ \E i \in DOMAIN pipe : pipe[i].kind = "end" /\ pipe[i].token = "background"

\* Every TU that was counted has a number, and there are as many as were counted.
CountInv ==
    /\ count = Cardinality({t \in TUs : number[t] # 0})
    /\ \A t \in TUs : number[t] # 0 <=> work[t] \in {"counted", "reported"}

\* The bar and the screen.
BarInv ==
    /\ bar.finished <=> closed.stopTick = 1
    /\ bar.phase = "extract" => bar.done > 0
    /\ ~bar.tty \/ bar.finished \/ bar.phase = "none" => screen = Clear
    /\ screen[1] = "extract" => bar.phase = "extract"
    /\ screen[1] = "index" => screen[2] <= bar.pct

\* How far Start and Stop have come.
StartInv ==
    /\ main = "start" => clangd = "none"
    /\ main \in {"start", "handshake", "bar"} => ~listening
    /\ clangd = "reaped" => main = "done"

\* Safety: the inductive invariant behind the properties (module Process_proofs).
IInv == TypeOK /\ CountInv /\ BarInv /\ StartInv /\ NoClangdLeft /\ EndIsHeard

=============================================================================
