------------------------------- MODULE Daemon -------------------------------
(***************************************************************************)
(* The rebuild loop of clangd-mcp-daemon: clangdproc.Daemon (daemon.go)    *)
(* with its callers in cmd/clangd-mcp-daemon/main.go.  The processes are   *)
(*   - the build system, which rewrites compile_commands.json;             *)
(*   - watchCompDB, which turns file events into Restart() pulses;         *)
(*   - Daemon.Run, which debounces pulses, replaces clangd and calls       *)
(*     onReady to rebuild and publish the index;                           *)
(*   - clangd itself, which may die;                                       *)
(*   - the signal handler and the caller of Close.                         *)
(* compile_commands.json is abstracted to a version number and to whether  *)
(* a reader finds it whole; an index is abstracted to the version it was   *)
(* built from.  Extraction is one step here: module Extract details it.    *)
(***************************************************************************)
EXTENDS Naturals, FiniteSets

CONSTANTS
    MaxVersion,   \* bound: compile_commands.json takes versions 1..MaxVersion
    MaxCrashes,   \* bound: how often clangd dies by itself or breaks its stream
    CrashAt,      \* where the loop may be then
    Faults        \* what else may go wrong, a subset of FaultKinds

MaxCrashRetries == 3   \* start: const maxCrashRetries

LoopStates == {"spawn", "init", "load", "extract", "publish",
               "select", "stop", "backoff", "exited"}

FaultKinds == {"spawn",    \* exec or the LSP handshake fails
               "garbled",  \* a living clangd sends a frame that does not decode
               "watch",    \* the directory cannot be watched
               "torn",     \* compile_commands.json is rewritten in place or removed
               "input",    \* extraction fails with clangd alive (unreadable source)
               "rawWrite", \* clangd's death surfaces as a plain write error
               "masked",   \* clangd's death does not surface: extraction succeeds
               "store",    \* writing or opening the new index fails
               "signal",   \* SIGINT/SIGTERM, or the MCP transport ends
               "close"}    \* Daemon.Close is called without a signal

ASSUME BoundsAssumption == MaxVersion \in Nat \ {0} /\ MaxCrashes \in Nat
ASSUME FaultsAssumption == CrashAt \subseteq LoopStates /\ Faults \subseteq FaultKinds

VARIABLES
    version,      \* version of compile_commands.json on disk
    content,      \* "whole", "torn" (half written) or "absent"
    events,       \* fsnotify events not yet received by watchCompDB
    watcher,      \* "starting", "watching" or "gone"
    watchedFrom,  \* version on disk when w.Add returned
    restartCh,    \* TRUE when the one-slot channel holds a pulse
    timer,        \* debounce timer: "nil", "armed" or "fired"
    loop,         \* where Daemon.Run / start is, one of LoopStates
    after,        \* where the loop goes when the Stop in progress returns
    attempt,      \* start: attempt, 0 .. MaxCrashRetries - 1
    exitErr,      \* what Run returned: "none", "nil", "ctx", "gaveUp", "error"
    current,      \* d.current: number of the process, 0 for nil
    victim,       \* process being stopped by stopCurrent, 0 for none
    spawned,      \* how many clangd processes were ever started
    alive,        \* those still running
    reaped,       \* those whose exit was collected by Wait
    broken,       \* the reader of the last one has given up its stream
    readV,        \* version loaded by the last extraction
    served,       \* version whose index is served
    ctxDone,      \* main's context is cancelled
    closer,       \* caller of Close: "idle", "waiting", "returned"
    crashes       \* how often clangd died or broke its stream by itself (bounded)

fileVars   == <<version, content, events>>
watchVars  == <<watcher, watchedFrom>>
procVars   == <<current, victim, spawned, alive, reaped, broken>>
indexVars  == <<readV, served>>
stopVars   == <<ctxDone, closer>>
loopVars   == <<loop, after, attempt, exitErr>>
vars == <<fileVars, watchVars, restartCh, timer, loopVars, procVars,
          indexVars, stopVars, crashes>>

stopCh == closer # "idle"      \* the channel is closed by Close
doneCh == loop = "exited"      \* the channel is closed when Run returns

Init ==
    /\ version = 1 /\ content = "whole" /\ events = 0
    /\ watcher = "starting" /\ watchedFrom = 0
    /\ restartCh = FALSE /\ timer = "nil"
    /\ loop = "spawn" /\ after = "spawn" /\ attempt = 0 /\ exitErr = "none"
    /\ current = 0 /\ victim = 0 /\ spawned = 0 /\ alive = {} /\ reaped = {} /\ broken = FALSE
    /\ readV = 0 /\ served = 0
    /\ ctxDone = FALSE /\ closer = "idle"
    /\ crashes = 0

-----------------------------------------------------------------------------
(* The build system.  An event reaches the queue only once the directory   *)
(* is watched.                                                             *)

Notified == events' = IF watcher = "watching" THEN events + 1 ELSE events

\* Written aside and renamed over the old file (Create event).
ReplaceCompDB ==
    /\ version < MaxVersion /\ content # "torn"
    /\ version' = version + 1 /\ content' = "whole" /\ Notified
    /\ UNCHANGED <<watchVars, restartCh, timer, loopVars, procVars, indexVars, stopVars, crashes>>

\* Truncated and rewritten in place: two Write events, torn in between.
BeginRewrite ==
    /\ "torn" \in Faults /\ version < MaxVersion /\ content = "whole"
    /\ content' = "torn" /\ Notified
    /\ UNCHANGED <<version, watchVars, restartCh, timer, loopVars, procVars, indexVars, stopVars, crashes>>

EndRewrite ==
    /\ content = "torn"
    /\ version' = version + 1 /\ content' = "whole" /\ Notified
    /\ UNCHANGED <<watchVars, restartCh, timer, loopVars, procVars, indexVars, stopVars, crashes>>

\* Removed, to be generated again: watchCompDB ignores Remove events.
RemoveCompDB ==
    /\ "torn" \in Faults /\ version < MaxVersion /\ content = "whole"
    /\ content' = "absent"
    /\ UNCHANGED <<version, events, watchVars, restartCh, timer, loopVars, procVars, indexVars, stopVars, crashes>>

Environment == ReplaceCompDB \/ BeginRewrite \/ EndRewrite \/ RemoveCompDB

-----------------------------------------------------------------------------
(* watchCompDB                                                             *)

WatchAdd ==
    /\ watcher = "starting"
    /\ watcher' = "watching" /\ watchedFrom' = version
    /\ UNCHANGED <<fileVars, restartCh, timer, loopVars, procVars, indexVars, stopVars, crashes>>

\* Mutant of Restart: the channel has no slot, a pulse needs a receiver.
RestartUnbuffered == restartCh' = (restartCh \/ loop = "select")

\* Restart: a non-blocking send on the one-slot channel.
Restart == restartCh' = TRUE

ReceiveEvent ==
    /\ watcher = "watching" /\ events > 0
    /\ events' = events - 1 /\ Restart
    /\ UNCHANGED <<version, content, watchVars, timer, loopVars, procVars, indexVars, stopVars, crashes>>

\* NewWatcher or Add fails: main logs it and goes on without a watch.
WatchFails ==
    /\ watcher = "starting" /\ "watch" \in Faults
    /\ watcher' = "gone"
    /\ UNCHANGED <<fileVars, watchedFrom, restartCh, timer, loopVars, procVars, indexVars, stopVars, crashes>>

WatchReturns ==
    /\ watcher = "watching" /\ ctxDone
    /\ watcher' = "gone"
    /\ UNCHANGED <<fileVars, watchedFrom, restartCh, timer, loopVars, procVars, indexVars, stopVars, crashes>>

Watcher == WatchAdd \/ WatchFails \/ ReceiveEvent \/ WatchReturns

-----------------------------------------------------------------------------
(* Daemon.Run: the select loop                                             *)

ReturnFromRun(err) == loop' = "exited" /\ exitErr' = err

\* stopCurrent: take the process out of d.current; StopReturns finishes it.
StopCurrent(then) ==
    /\ victim' = current /\ current' = 0
    /\ loop' = "stop" /\ after' = then

\* Mutant of SelectDone: Close does not end the loop.
SelectDoneCtxOnly ==
    /\ loop = "select" /\ ctxDone
    /\ StopCurrent("exited") /\ exitErr' = "ctx"
    /\ UNCHANGED <<fileVars, watchVars, restartCh, timer, attempt, spawned, alive, reaped, broken, indexVars, stopVars, crashes>>

SelectDone ==
    /\ loop = "select" /\ (ctxDone \/ stopCh)
    /\ StopCurrent("exited")
    /\ exitErr' \in (IF ctxDone THEN {"ctx"} ELSE {}) \cup (IF stopCh THEN {"nil"} ELSE {})
    /\ UNCHANGED <<fileVars, watchVars, restartCh, timer, attempt, spawned, alive, reaped, broken, indexVars, stopVars, crashes>>

\* A pulse arms the debounce timer, or pushes it back; Reset also discards
\* a tick that was not received yet.
SelectRestart ==
    /\ loop = "select" /\ restartCh
    /\ restartCh' = FALSE /\ timer' = "armed"
    /\ UNCHANGED <<fileVars, watchVars, loopVars, procVars, indexVars, stopVars, crashes>>

\* Mutants of SelectTimer: the old process is not stopped; the tick stays.
SelectTimerNoStop ==
    /\ loop = "select" /\ timer = "fired"
    /\ timer' = "nil" /\ loop' = "spawn" /\ attempt' = 0
    /\ UNCHANGED <<fileVars, watchVars, restartCh, after, exitErr, procVars, indexVars, stopVars, crashes>>
SelectTimerStale ==
    /\ loop = "select" /\ timer = "fired"
    /\ StopCurrent("spawn") /\ attempt' = 0
    /\ UNCHANGED <<fileVars, watchVars, restartCh, timer, exitErr, spawned, alive, reaped, broken, indexVars, stopVars, crashes>>

SelectTimer ==
    /\ loop = "select" /\ timer = "fired"
    /\ timer' = "nil"
    /\ StopCurrent("spawn") /\ attempt' = 0
    /\ UNCHANGED <<fileVars, watchVars, restartCh, exitErr, spawned, alive, reaped, broken, indexVars, stopVars, crashes>>

DebounceElapses ==
    /\ timer = "armed" /\ timer' = "fired"
    /\ UNCHANGED <<fileVars, watchVars, restartCh, loopVars, procVars, indexVars, stopVars, crashes>>

\* Process.Stop: shutdown handshake, Wait, Kill after 5 s.  It always ends
\* with the process gone and collected.
StopReturns ==
    /\ loop = "stop"
    /\ loop' = after /\ victim' = 0
    /\ alive' = alive \ {victim}
    /\ reaped' = reaped \cup ({victim} \ {0})
    /\ UNCHANGED <<fileVars, watchVars, restartCh, timer, after, attempt, exitErr, current, spawned, broken, indexVars, stopVars, crashes>>

-----------------------------------------------------------------------------
(* Daemon.start: up to MaxCrashRetries attempts                            *)

\* Start spawns the process ...
Spawn ==
    /\ loop = "spawn" /\ ~ctxDone
    /\ spawned' = spawned + 1 /\ alive' = alive \cup {spawned + 1} /\ broken' = FALSE
    /\ loop' = "init"
    /\ UNCHANGED <<fileVars, watchVars, restartCh, timer, after, attempt, exitErr, current, victim, reaped, indexVars, stopVars, crashes>>

SpawnFails ==
    /\ loop = "spawn" /\ (ctxDone \/ "spawn" \in Faults)
    /\ ReturnFromRun("error")
    /\ UNCHANGED <<fileVars, watchVars, restartCh, timer, after, attempt, procVars, indexVars, stopVars, crashes>>

\* ... and initializes it; start then publishes it as d.current.
Initialized ==
    /\ loop = "init" /\ spawned \in alive /\ ~broken
    /\ current' = spawned /\ loop' = "load"
    /\ UNCHANGED <<fileVars, watchVars, restartCh, timer, after, attempt, exitErr, victim, spawned, alive, reaped, broken, indexVars, stopVars, crashes>>

\* A failed handshake kills the process; start does not retry it.
InitializeFails ==
    /\ loop = "init" /\ (spawned \notin alive \/ broken \/ ctxDone \/ "spawn" \in Faults)
    /\ alive' = alive \ {spawned}
    /\ ReturnFromRun("error")
    /\ UNCHANGED <<fileVars, watchVars, restartCh, timer, after, attempt, current, victim, spawned, reaped, broken, indexVars, stopVars, crashes>>

\* Mutant of LoadCompDB: an unreadable file counts as an empty one.
LoadCompDBUnchecked ==
    /\ loop = "load"
    /\ readV' = (IF content = "whole" THEN version ELSE 0) /\ loop' = "extract"
    /\ UNCHANGED <<fileVars, watchVars, restartCh, timer, after, attempt, exitErr, procVars, served, stopVars, crashes>>

\* onReady: extract.Run first loads compile_commands.json.
LoadCompDB ==
    /\ loop = "load" /\ content = "whole"
    /\ readV' = version /\ loop' = "extract"
    /\ UNCHANGED <<fileVars, watchVars, restartCh, timer, after, attempt, exitErr, procVars, served, stopVars, crashes>>

\* An error of onReady that is no crash error ends Run; the process stays.
OnReadyFails ==
    /\ \/ loop = "load" /\ content # "whole"
       \/ loop = "extract" /\ ("input" \in Faults \/ ctxDone)
       \/ loop = "extract" /\ current \notin alive /\ "rawWrite" \in Faults
       \/ loop = "publish" /\ "store" \in Faults
    /\ ReturnFromRun("error")
    /\ UNCHANGED <<fileVars, watchVars, restartCh, timer, after, attempt, procVars, indexVars, stopVars, crashes>>

\* The connection is closed, clangd being dead or its stream broken.
ExtractCrashes ==
    /\ loop = "extract" /\ (current \notin alive \/ broken)
    /\ StopCurrent("backoff")
    /\ UNCHANGED <<fileVars, watchVars, restartCh, timer, attempt, exitErr, spawned, alive, reaped, broken, indexVars, stopVars, crashes>>

ExtractReturns ==
    /\ loop = "extract" /\ ((current \in alive /\ ~broken) \/ "masked" \in Faults)
    /\ loop' = "publish"
    /\ UNCHANGED <<fileVars, watchVars, restartCh, timer, after, attempt, exitErr, procVars, indexVars, stopVars, crashes>>

\* Mutant of Publish: a failed Swap is ignored.
PublishUnchecked ==
    /\ loop = "publish"
    /\ served' \in {served, readV} /\ loop' = "select"
    /\ UNCHANGED <<fileVars, watchVars, restartCh, timer, after, attempt, exitErr, procVars, readV, stopVars, crashes>>

\* WriteIndexWithFacts, Swap(newPath), Remove, Rename, Swap(firstDB).
Publish ==
    /\ loop = "publish"
    /\ served' = readV /\ loop' = "select"
    /\ UNCHANGED <<fileVars, watchVars, restartCh, timer, after, attempt, exitErr, procVars, readV, stopVars, crashes>>

\* Mutant of BackoffElapses: one attempt too few.
BackoffOnceLess ==
    /\ loop = "backoff"
    /\ IF attempt + 2 < MaxCrashRetries
       THEN loop' = "spawn" /\ attempt' = attempt + 1 /\ UNCHANGED exitErr
       ELSE ReturnFromRun("gaveUp") /\ UNCHANGED attempt
    /\ UNCHANGED <<fileVars, watchVars, restartCh, timer, after, procVars, indexVars, stopVars, crashes>>

\* 2 s after a crash: the next attempt, or give up after the last one.
BackoffElapses ==
    /\ loop = "backoff"
    /\ IF attempt + 1 < MaxCrashRetries
       THEN loop' = "spawn" /\ attempt' = attempt + 1 /\ UNCHANGED exitErr
       ELSE ReturnFromRun("gaveUp") /\ UNCHANGED attempt
    /\ UNCHANGED <<fileVars, watchVars, restartCh, timer, after, procVars, indexVars, stopVars, crashes>>

BackoffCancelled ==
    /\ loop = "backoff" /\ ctxDone
    /\ ReturnFromRun("ctx")
    /\ UNCHANGED <<fileVars, watchVars, restartCh, timer, after, attempt, procVars, indexVars, stopVars, crashes>>

Loop == \/ SelectDone \/ SelectRestart \/ SelectTimer \/ StopReturns
        \/ Spawn \/ SpawnFails \/ Initialized \/ InitializeFails
        \/ LoadCompDB \/ OnReadyFails \/ ExtractCrashes \/ ExtractReturns
        \/ Publish \/ BackoffElapses \/ BackoffCancelled

-----------------------------------------------------------------------------
(* clangd, the context and Close                                           *)

ClangdDies ==
    /\ crashes < MaxCrashes /\ loop \in CrashAt
    /\ \E p \in alive : alive' = alive \ {p}
    /\ crashes' = crashes + 1
    /\ UNCHANGED <<fileVars, watchVars, restartCh, timer, loopVars, current, victim, spawned, reaped, broken, indexVars, stopVars>>

\* A frame of a living clangd does not decode: Client.Run returns, and the
\* connection is closed for all its calls.
StreamBreaks ==
    /\ "garbled" \in Faults /\ crashes < MaxCrashes /\ loop \in CrashAt
    /\ spawned \in alive /\ ~broken /\ broken' = TRUE
    /\ crashes' = crashes + 1
    /\ UNCHANGED <<fileVars, watchVars, restartCh, timer, loopVars, current, victim, spawned, alive, reaped, indexVars, stopVars>>

Cancel ==
    /\ "signal" \in Faults /\ ~ctxDone /\ ctxDone' = TRUE
    /\ UNCHANGED <<fileVars, watchVars, restartCh, timer, loopVars, procVars, indexVars, closer, crashes>>

\* exec.CommandContext kills the process once the context is done.
ContextKills ==
    /\ ctxDone /\ alive # {}
    /\ alive' = {}
    /\ UNCHANGED <<fileVars, watchVars, restartCh, timer, loopVars, current, victim, spawned, reaped, broken, indexVars, stopVars, crashes>>

\* main calls Close after <-ctx.Done(); an embedder may call it at any time.
Close ==
    /\ closer = "idle" /\ (ctxDone \/ "close" \in Faults)
    /\ closer' = "waiting"
    /\ UNCHANGED <<fileVars, watchVars, restartCh, timer, loopVars, procVars, indexVars, ctxDone, crashes>>

CloseReturns ==
    /\ closer = "waiting" /\ doneCh
    /\ closer' = "returned"
    /\ UNCHANGED <<fileVars, watchVars, restartCh, timer, loopVars, procVars, indexVars, ctxDone, crashes>>

Next == \/ Environment \/ Watcher \/ Loop \/ DebounceElapses
        \/ ClangdDies \/ StreamBreaks \/ Cancel \/ ContextKills \/ Close \/ CloseReturns

\* The goroutines are scheduled, timers expire, and the build system completes
\* a file it is rewriting and recreates one it removed; nobody has to change
\* the file, kill clangd, signal or call Close (main calls it once the context
\* is done).
Fairness == /\ WF_vars(Watcher) /\ WF_vars(Loop) /\ WF_vars(DebounceElapses)
            /\ WF_vars(EndRewrite) /\ WF_vars(content = "absent" /\ ReplaceCompDB)
            /\ WF_vars(ContextKills)
            /\ WF_vars(ctxDone /\ Close) /\ WF_vars(CloseReturns)

Spec == Init /\ [][Next]_vars
FairSpec == Spec /\ Fairness

-----------------------------------------------------------------------------
(* Properties                                                              *)

\* Safety: every variable has its type; in particular start counts its
\* attempts only up to MaxCrashRetries - 1.
TypeOK ==
    /\ version \in 1 .. MaxVersion /\ content \in {"whole", "torn", "absent"}
    /\ events \in Nat
    /\ watcher \in {"starting", "watching", "gone"} /\ watchedFrom \in Nat
    /\ restartCh \in BOOLEAN /\ timer \in {"nil", "armed", "fired"}
    /\ loop \in LoopStates /\ after \in {"spawn", "backoff", "exited"}
    /\ attempt \in 0 .. MaxCrashRetries - 1
    /\ exitErr \in {"none", "nil", "ctx", "gaveUp", "error"}
    /\ spawned \in Nat /\ current \in 0 .. spawned /\ victim \in 0 .. spawned
    /\ alive \subseteq 1 .. spawned /\ reaped \subseteq 1 .. spawned /\ broken \in BOOLEAN
    /\ readV \in Nat /\ served \in Nat
    /\ ctxDone \in BOOLEAN /\ closer \in {"idle", "waiting", "returned"}
    /\ crashes \in Nat

\* A rebuild that will load compile_commands.json again is on its way: an
\* event, a pulse or a timer is pending, or the loop has yet to load.
RebuildPending ==
    \/ events > 0 \/ restartCh \/ timer # "nil"
    \/ loop \in {"spawn", "init", "load", "backoff"}
    \/ loop = "stop" /\ after # "exited"

Exiting == loop = "exited" \/ (loop = "stop" /\ after = "exited")

\* Safety: a change made while compile_commands.json is watched is never
\* forgotten by the event queue, the one-slot channel, the debounce timer and
\* the retry loop together: until the loop loads a version as new as the one
\* on disk, something that makes it load again is pending (Daemon.Run,
\* Restart, watchCompDB; a lost pulse would leave a stale index for ever).
NoLostPulse ==
    (watcher = "watching" /\ ~Exiting /\ watchedFrom < version /\ readV < version)
        => RebuildPending

\* Safety: when the daemon is at rest, the index it serves is that of the
\* compile_commands.json on disk, if it changed at all since it is watched.
RestIsFresh ==
    (/\ watcher = "watching" /\ watchedFrom < version
     /\ loop = "select" /\ ~RebuildPending)
        => served = version

\* Safety: a clangd is started only when all earlier ones have exited and
\* were collected, so that at most one runs and none is left as a zombie
\* (Daemon "owns one Process at a time", daemon.go:14).
OneClangdAtATime ==
    \A p \in 1 .. spawned - 1 : p \in reaped /\ p \notin alive

\* Safety: Current() never hands out a process that the daemon itself has
\* stopped or is stopping (it may have died by itself, which goes unnoticed).
CurrentNotStopped == current # 0 => current \notin reaped /\ current # victim

\* How many events the changes so far may have raised.
FileEvents == 2 * (version - 1) + (IF content = "torn" THEN 1 ELSE 0)
\* Safety: the daemon never restarts clangd more often than there were file
\* events and crashes to cause it: bursts are coalesced, and neither a tick of
\* the debounce timer nor a pulse is acted on twice (Daemon.Run; a stale tick
\* would restart clangd for ever).
NoSpuriousRestart == spawned <= 1 + FileEvents + crashes

\* Liveness: Close returns, whatever fails and whatever the loop is doing
\* (Close waits for doneCh; start cannot be interrupted by stopCh).
CloseTerminates == (closer = "waiting") ~> (closer = "returned")

\* Liveness: a change of compile_commands.json made while it is watched is
\* eventually served, unless the daemon is shut down or reports an error
\* (README.md:67); in particular a rebuild that was overtaken, a burst of
\* events or a crash that is retried loses nothing.
WatchedChangeIsServed ==
    \A v \in 2 .. MaxVersion :
        (watcher = "watching" /\ watchedFrom < v /\ version >= v)
            ~> (served >= v \/ ctxDone \/ stopCh \/ exitErr \in {"error", "gaveUp"})

\* Liveness: the rebuild loop survives a compile_commands.json that is being
\* rewritten: every watched change is served, or the daemon is shut down
\* (README.md:67: "When it changes, clangd is restarted (debounced 5 s) and
\* the index is rebuilt").
RewriteIsServed ==
    \A v \in 2 .. MaxVersion :
        (watcher = "watching" /\ watchedFrom < v /\ version >= v)
            ~> (served >= v \/ ctxDone \/ stopCh)

\* Safety: unless it is shutting down, the daemon gives up only when clangd
\* died or broke its stream three times by itself; its own Stop and a failed
\* attempt before do not count (start, isCrashError).
GaveUpAfterThreeCrashes == exitErr = "gaveUp" => ctxDone \/ crashes >= MaxCrashRetries

Live == INSTANCE LiveIndex WITH latest <- version

\* Refinement: the daemon implements the promise of LiveIndex: the index it
\* serves is that of some version of compile_commands.json, which never goes
\* back (onReady publishes what it loaded minutes before).
ServesVersions == Live!Spec

\* The versions involved are ordered.
VersionsInv ==
    /\ served <= readV /\ readV <= version /\ watchedFrom <= version
    /\ loop = "select" => served = readV
    /\ watcher = "starting" => events = 0
    /\ content # "whole" => version < MaxVersion

\* The processes of each state of the loop.
ProcessInv ==
    /\ \A p \in 1 .. spawned - 1 : p \in reaped /\ p \notin alive
    /\ loop \in {"spawn", "backoff"} => (spawned > 0 => spawned \in reaped /\ spawned \notin alive)
    /\ loop = "stop" => victim = spawned /\ victim > 0 /\ current = 0
    /\ loop # "stop" => victim = 0
    /\ loop \in {"load", "extract", "publish", "select"} => current = spawned /\ current > 0
    /\ loop \in {"spawn", "init", "backoff"} => current = 0
    /\ loop \in {"init", "stop", "load", "extract", "publish", "select"} => spawned \notin reaped
    /\ current \in {0, spawned}
    /\ spawned \in reaped => current = 0

One(b) == IF b THEN 1 ELSE 0
\* clangd has died or broken its stream, and the loop has not noticed yet.
Unnoticed == loop \in {"init", "load", "extract", "publish", "select"} /\ (spawned \notin alive \/ broken)
Retries   == loop = "backoff" \/ (loop = "stop" /\ after = "backoff")
Respawns  == loop = "spawn" \/ (loop = "stop" /\ after = "spawn") \/ Retries

\* What may still start a clangd, and those started already, each have a cause of their own.
CausesInv ==
    ~ctxDone => spawned + events + One(restartCh) + One(timer # "nil") + One(Respawns) + One(Unnoticed)
                    <= 1 + FileEvents + crashes

\* Every attempt but the first follows a crash of its own.
AttemptsInv == ~ctxDone => attempt + One(Retries) + One(Unnoticed) <= crashes

\* Safety: the inductive invariant behind the properties (module Daemon_proofs):
\* types, the order of the versions that were read and served, the process that
\* goes with each place of Daemon.Run and start, and what each start of clangd
\* was caused by.
IInv == /\ TypeOK /\ VersionsInv /\ ProcessInv /\ NoLostPulse
        /\ CausesInv /\ AttemptsInv /\ NoSpuriousRestart /\ GaveUpAfterThreeCrashes

=============================================================================
