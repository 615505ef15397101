------------------------------ MODULE Extract ------------------------------
(***************************************************************************)
(* extract.Run and extractTU (internal/extract/extract.go) with the        *)
(* per-file cache (internal/cache): one goroutine plans the translation    *)
(* units (TUs) of compile_commands.json, opens the ones that are not       *)
(* cached, hands them to at most Jobs workers and merges their payloads.   *)
(* Run is called again and again, by a daemon or by separate builds; the   *)
(* cache stays, clangd is new each time.  A source file is abstracted to a *)
(* content number, a payload to the facts in it, each with the content of  *)
(* the file it was derived from.  Every TU declares one function, which    *)
(* calls an inline function of Header; some use its typedefs.  clangd is   *)
(* external code.                                                          *)
(***************************************************************************)
EXTENDS Naturals, Sequences, FiniteSets

CONSTANTS
    Entries,   \* the files of compile_commands.json, in order; may repeat
    Header,    \* the header they use
    Linked,    \* files whose documentLinks resolve to Header
    Jobs,      \* Options.Jobs
    MaxRuns,   \* bound: calls of Run
    MaxEdits,  \* bound: changes of source files and the header
    Faults     \* what may go wrong, a subset of FaultKinds

FaultKinds == {"die",     \* clangd exits
               "cancel",  \* the context of Run is cancelled
               "refuse",  \* a living clangd answers a request with an error
               "timeout", \* background indexing does not settle in time
               "edit",    \* a source file or the header is changed
               "editBetween",  \* the same, but never while Run runs
               "vanish"}  \* one of them is removed

Files    == {Entries[k] : k \in DOMAIN Entries}
Contents == 0 .. 2    \* 0: there is no such file

ASSUME EntriesAssumption == Entries \in Seq(Files) /\ Entries # <<>> /\ Header \notin Files
ASSUME JobsAssumption == Jobs \in Nat \ {0}
ASSUME BoundsAssumption == MaxRuns \in Nat /\ MaxEdits \in Nat
ASSUME FaultsAssumption == Linked \subseteq Files /\ Faults \subseteq FaultKinds

VARIABLES
    disk,       \* per file: its content
    edits,      \* how often a file was changed (bounded)
    troubled,   \* history: clangd died, a request failed, the context was cancelled,
                \* the index did not settle or a file changed under a Run, now or earlier
    cache,      \* the per-file cache: key (file, content) -> payload
    outdated,   \* history: keys whose payload, if any, is of before the last change of Header
    run,        \* where Run is
    runs,       \* how often Run was called (bounded)
    next,       \* index of the loop Run is in
    plans,      \* plans: file, digest, whether it was a hit, cached payload
    openedSet,  \* openedSet
    openedURIs, \* openedURIs
    links,      \* number of URIs the documentLink loop ranges over
    settled,    \* the background index was complete when extraction began
    typed,      \* sharedTypedefs has the typedefs of Header
    worker,     \* per plan: what its worker does next
    facts,      \* per plan: the payload its worker has so far
    agg,        \* plan -> payload, for the payloads merged by addPayload
    firstErr,   \* firstErr; once it is set workCtx is cancelled
    result,     \* what Run returned
    ctxDone,    \* the context of Run is cancelled
    clangd,     \* "up" or "dead"
    opens,      \* per URI: didOpens less didCloses received by clangd
    text        \* per URI: the content clangd was given

diskVars   == <<disk, edits>>
cacheVars  == <<cache, outdated>>
planVars   == <<plans, openedSet, openedURIs, links, settled, typed>>
workVars   == <<worker, facts, agg, firstErr>>
clangdVars == <<clangd, opens, text>>
vars == <<diskVars, troubled, cacheVars, run, runs, next, planVars, workVars, result, ctxDone, clangdVars>>

Indexes == DOMAIN Entries
URIs    == Files \cup {Header}
Keys    == Files \X (Contents \ {0})

\* What the payload of a TU is made of, by the requests that yield it: facts of
\* the TU itself, and facts of the header, of content h, where there is one.
Fact(what, content) == [what |-> what, of |-> content]
OwnKinds    == {"ast", "source", "symbols"}
HeaderKinds == {"types", "calls"}
Needed(key, h) ==
    {Fact(w, key[2]) : w \in OwnKinds}
    \cup {Fact(w, h) : w \in {v \in HeaderKinds : h # 0 /\ (v = "types" => key[1] \in Linked)}}

\* Earlier builds may have left some payloads, of the header as it is or as it was.
Init ==
    /\ disk \in [URIs -> {0, 1}] /\ disk[Header] # 0 /\ edits = 0 /\ troubled = FALSE
    /\ \E warm \in SUBSET (Files \X {1}), h \in Contents \ {0} :
           /\ cache = [k \in warm |-> Needed(k, h)]
           /\ outdated = IF h = disk[Header] THEN {} ELSE Keys
    /\ run = "returned" /\ runs = 0 /\ next = 1
    /\ plans = <<>> /\ openedSet = {} /\ openedURIs = <<>> /\ links = 0
    /\ settled = FALSE /\ typed = FALSE
    /\ worker = [k \in Indexes |-> "none"] /\ facts = [k \in Indexes |-> {}]
    /\ agg = <<>> /\ firstErr = "none" /\ result = "none" /\ ctxDone = FALSE
    /\ clangd = "dead" /\ opens = [u \in URIs |-> 0] /\ text = [u \in URIs |-> 0]

\* The caller starts a clangd and calls Run.
CallRun ==
    /\ run = "returned" /\ runs < MaxRuns
    /\ run' = "plan" /\ runs' = runs + 1 /\ next' = 1
    /\ plans' = <<>> /\ openedSet' = {} /\ openedURIs' = <<>> /\ links' = 0
    /\ settled' = FALSE /\ typed' = FALSE
    /\ worker' = [k \in Indexes |-> "none"] /\ facts' = [k \in Indexes |-> {}]
    /\ agg' = <<>> /\ firstErr' = "none" /\ result' = "none" /\ ctxDone' = FALSE
    /\ clangd' = "up" /\ opens' = [u \in URIs |-> 0] /\ text' = [u \in URIs |-> 0]
    /\ UNCHANGED <<diskVars, troubled, cacheVars>>

-----------------------------------------------------------------------------
(* Calls to clangd                                                         *)

Cancelled == ctxDone \/ firstErr # "none"    \* workCtx.Err() # nil

\* How a Call can fail: a dead clangd shows as a closed connection or as a
\* write error, a cancelled context as such, an error reply as an error of its own.
CallErrors(cancelled) == (IF clangd = "dead" THEN {"crash", "write"} ELSE {})
                         \cup (IF cancelled THEN {"ctx"} ELSE {})
                         \cup (IF clangd = "up" /\ "refuse" \in Faults THEN {"refused"} ELSE {})

\* openTU: clangd gets the file as it is now.
OpenTU(u) ==
    /\ opens' = [opens EXCEPT ![u] = @ + 1]
    /\ text' = [text EXCEPT ![u] = disk[u]]
    /\ UNCHANGED clangd

\* Mutant of EnsureOpened: openedSet is not updated.
EnsureOpenedUnrecorded(u) ==
    IF u \in openedSet \/ disk[u] = 0 \/ clangd = "dead"
    THEN UNCHANGED <<openedSet, openedURIs, clangdVars>>
    ELSE OpenTU(u) /\ openedURIs' = Append(openedURIs, u) /\ UNCHANGED openedSet

\* ensureOpened, under openMu; openTU may find no file, or no clangd.
EnsureOpened(u) ==
    IF u \in openedSet \/ disk[u] = 0 \/ clangd = "dead"
    THEN UNCHANGED <<openedSet, openedURIs, clangdVars>>
    ELSE /\ OpenTU(u)
         /\ openedSet' = openedSet \cup {u} /\ openedURIs' = Append(openedURIs, u)

-----------------------------------------------------------------------------
(* Run: the first pass                                                     *)

Return(res) == run' = "close" /\ result' = res

Planning == run = "plan" /\ next <= Len(Entries)
File == Entries[next]
Plan(digest, hit, payload) ==
    plans' = Append(plans, [file |-> File, digest |-> digest, hit |-> hit, payload |-> payload])

\* SumFile fails: the TU is left out.
SkipTU ==
    /\ Planning /\ disk[File] = 0
    /\ next' = next + 1
    /\ UNCHANGED <<diskVars, troubled, cacheVars, run, runs, planVars, workVars, result, ctxDone, clangdVars>>

\* Mutant of PlanCached: the payload is looked up by path alone.
PlanCachedByPath ==
    /\ Planning /\ disk[File] # 0
    /\ \E c \in Contents : /\ <<File, c>> \in DOMAIN cache
                            /\ Plan(disk[File], TRUE, cache[<<File, c>>])
    /\ next' = next + 1
    /\ UNCHANGED <<diskVars, troubled, cacheVars, run, runs, openedSet, openedURIs, links, settled, typed, workVars, result, ctxDone, clangdVars>>

PlanCached ==
    /\ Planning /\ disk[File] # 0 /\ <<File, disk[File]>> \in DOMAIN cache
    /\ Plan(disk[File], TRUE, cache[<<File, disk[File]>>])
    /\ next' = next + 1
    /\ UNCHANGED <<diskVars, troubled, cacheVars, run, runs, openedSet, openedURIs, links, settled, typed, workVars, result, ctxDone, clangdVars>>

PlanUncached ==
    /\ Planning /\ disk[File] # 0 /\ <<File, disk[File]>> \notin DOMAIN cache
    /\ Plan(disk[File], FALSE, {})
    /\ run' = "open"
    /\ UNCHANGED <<diskVars, troubled, cacheVars, runs, next, openedSet, openedURIs, links, settled, typed, workVars, result, ctxDone, clangdVars>>

OpenPlanned ==
    /\ run = "open" /\ disk[File] # 0 /\ clangd = "up"
    /\ OpenTU(File) /\ openedURIs' = Append(openedURIs, File)
    /\ run' = "plan" /\ next' = next + 1
    /\ UNCHANGED <<diskVars, troubled, cacheVars, runs, plans, openedSet, links, settled, typed, workVars, result, ctxDone>>

\* The file is gone, or clangd: Run returns before its deferred didCloses
\* are registered.
OpenFails ==
    /\ run = "open" /\ (disk[File] = 0 \/ clangd = "dead")
    /\ run' = "returned" /\ result' = IF disk[File] = 0 THEN "input" ELSE "write"
    /\ UNCHANGED <<diskVars, troubled, cacheVars, runs, next, planVars, workVars, ctxDone, clangdVars>>

\* Mutant of WaitForIndex: extraction does not wait.
WaitForIndexSkipped ==
    /\ run = "plan" /\ next > Len(Entries)
    /\ settled' \in BOOLEAN
    /\ openedSet' = {openedURIs[k] : k \in DOMAIN openedURIs}
    /\ links' = Len(openedURIs) /\ run' = "links" /\ next' = 1
    /\ UNCHANGED <<diskVars, troubled, cacheVars, runs, plans, openedURIs, typed, workVars, result, ctxDone, clangdVars>>

\* WaitForIndex, if anything was opened.  Its error is ignored.
WaitForIndex ==
    /\ run = "plan" /\ next > Len(Entries)
    /\ settled' \in (IF "timeout" \in Faults \/ clangd = "dead" \/ ctxDone
                     THEN BOOLEAN ELSE {TRUE})
    /\ openedSet' = {openedURIs[k] : k \in DOMAIN openedURIs}
    /\ links' = Len(openedURIs) /\ run' = "links" /\ next' = 1
    /\ troubled' = (troubled \/ ~settled')
    /\ UNCHANGED <<diskVars, cacheVars, runs, plans, openedURIs, typed, workVars, result, ctxDone, clangdVars>>

-----------------------------------------------------------------------------
(* Run: documentLinks and typedefs                                         *)

Linking == run = "links" /\ next <= links

DocumentLink ==
    /\ Linking /\ clangd = "up"
    /\ IF openedURIs[next] \in Linked THEN EnsureOpened(Header)
       ELSE UNCHANGED <<openedSet, openedURIs, clangdVars>>
    /\ next' = next + 1
    /\ UNCHANGED <<diskVars, troubled, cacheVars, run, runs, plans, links, settled, typed, workVars, result, ctxDone>>

\* A closed connection ends Run; any other error is skipped.
DocumentLinkFails ==
    /\ Linking
    /\ \E err \in CallErrors(ctxDone) :
           IF err = "crash" THEN Return(err) /\ UNCHANGED next
           ELSE next' = next + 1 /\ UNCHANGED <<run, result>>
    /\ troubled' = TRUE
    /\ UNCHANGED <<diskVars, cacheVars, runs, planVars, workVars, ctxDone, clangdVars>>

\* The AST of every open file is fetched; an error only leaves its typedefs out.
CollectTypedefs ==
    /\ run = "links" /\ next > links
    /\ \/ typed' = (Header \in openedSet) /\ clangd = "up" /\ UNCHANGED troubled
       \/ typed' = FALSE /\ CallErrors(ctxDone) # {} /\ troubled' = TRUE
    /\ run' = "dispatch" /\ next' = 1
    /\ UNCHANGED <<diskVars, cacheVars, runs, plans, openedSet, openedURIs, links, settled, workVars, result, ctxDone, clangdVars>>

-----------------------------------------------------------------------------
(* Run: the dispatch loop                                                  *)

Dispatching == run = "dispatch" /\ next <= Len(plans)

\* addPayload, under aggMu.
AddPayload(k, payload) ==
    agg' = [j \in DOMAIN agg \cup {k} |-> IF j = k THEN payload ELSE agg[j]]

DispatchCached ==
    /\ Dispatching /\ plans[next].hit
    /\ AddPayload(next, plans[next].payload) /\ next' = next + 1
    /\ UNCHANGED <<diskVars, troubled, cacheVars, run, runs, planVars, worker, facts, firstErr, result, ctxDone, clangdVars>>

\* workCtx is looked at before the semaphore is acquired.
DispatchUncached ==
    /\ Dispatching /\ ~plans[next].hit
    /\ run' = IF Cancelled THEN "join" ELSE "acquire"
    /\ UNCHANGED <<diskVars, troubled, cacheVars, runs, next, planVars, workVars, result, ctxDone, clangdVars>>

Active == {k \in Indexes : worker[k] \notin {"none", "done"}}
Slots  == IF Jobs > Len(plans) THEN Len(plans) ELSE Jobs

SpawnWorker ==
    /\ run = "acquire" /\ Cardinality(Active) < Slots
    /\ worker' = [worker EXCEPT ![next] = "start"]
    /\ run' = "dispatch" /\ next' = next + 1
    /\ UNCHANGED <<diskVars, troubled, cacheVars, runs, planVars, facts, agg, firstErr, result, ctxDone, clangdVars>>

DispatchEnds ==
    /\ run = "dispatch" /\ next > Len(plans) /\ run' = "join"
    /\ UNCHANGED <<diskVars, troubled, cacheVars, runs, next, planVars, workVars, result, ctxDone, clangdVars>>

\* Mutant of Join: the context is not looked at.
JoinUnchecked ==
    /\ run = "join" /\ Active = {}
    /\ Return(IF firstErr # "none" THEN firstErr ELSE "ok")
    /\ UNCHANGED <<diskVars, troubled, cacheVars, runs, next, planVars, workVars, ctxDone, clangdVars>>

\* wg.Wait, firstErr, ctx.Err.
Join ==
    /\ run = "join" /\ Active = {}
    /\ Return(IF firstErr # "none" THEN firstErr ELSE IF ctxDone THEN "ctx" ELSE "ok")
    /\ UNCHANGED <<diskVars, troubled, cacheVars, runs, next, planVars, workVars, ctxDone, clangdVars>>

\* Where openedURIs has a URI.
Opened(u) == {k \in DOMAIN openedURIs : openedURIs[k] = u}

\* Mutant of CloseTUs: every opened file is closed once, however often it was
\* opened.
CloseOnce ==
    /\ run = "close" /\ run' = "returned"
    /\ opens' = IF clangd = "dead" THEN opens
                ELSE [u \in URIs |-> IF u \in {openedURIs[k] : k \in DOMAIN openedURIs}
                                      THEN opens[u] - 1 ELSE opens[u]]
    /\ UNCHANGED <<diskVars, troubled, cacheVars, runs, next, planVars, workVars, result, ctxDone, clangd, text>>

\* The deferred didCloses, one for each of openedURIs.
CloseTUs ==
    /\ run = "close" /\ run' = "returned"
    /\ opens' = IF clangd = "dead" THEN opens
                ELSE [u \in URIs |-> opens[u] - Cardinality(Opened(u))]
    /\ UNCHANGED <<diskVars, troubled, cacheVars, runs, next, planVars, workVars, result, ctxDone, clangd, text>>

Run == \/ SkipTU \/ PlanCached \/ PlanUncached \/ OpenPlanned \/ OpenFails
       \/ WaitForIndex \/ DocumentLink \/ DocumentLinkFails \/ CollectTypedefs
       \/ DispatchCached \/ DispatchUncached \/ SpawnWorker \/ DispatchEnds
       \/ Join \/ CloseTUs

-----------------------------------------------------------------------------
(* A worker: extractTU, the cache, and the merge                           *)

Goto(k, step) == worker' = [worker EXCEPT ![k] = step]
\* What is learnt is of the TU or of the header as clangd was given them.
Learnt(k, what) == Fact(what, text[IF what \in HeaderKinds THEN Header ELSE plans[k].file])
Learn(k, what) == facts' = [facts EXCEPT ![k] = @ \cup {Learnt(k, what)}]

\* Mutant of SetErr: the last error wins.
SetErrLast(err) == firstErr' = err

\* setErr: the first error wins and cancels workCtx.
SetErr(err) == firstErr' = IF firstErr = "none" THEN err ELSE firstErr

WorkerStarts(k) ==
    /\ worker[k] = "start"
    /\ Goto(k, IF Cancelled THEN "done" ELSE "documentSymbol")
    /\ UNCHANGED <<cacheVars, planVars, facts, agg, firstErr, clangdVars>>

DocumentSymbol(k) ==
    /\ worker[k] = "documentSymbol" /\ clangd = "up"
    /\ Goto(k, "ast")
    /\ UNCHANGED <<cacheVars, planVars, facts, agg, firstErr, clangdVars>>

\* Mutant of DocumentSymbolFails: the worker tries again and keeps its slot.
DocumentSymbolRetried(k) ==
    /\ worker[k] = "documentSymbol" /\ CallErrors(Cancelled) # {} /\ troubled' = TRUE
    /\ UNCHANGED <<cacheVars, planVars, workVars, clangdVars>>

DocumentSymbolFails(k) ==
    /\ worker[k] = "documentSymbol"
    /\ \E err \in CallErrors(Cancelled) : SetErr(err)
    /\ Goto(k, "done") /\ troubled' = TRUE
    /\ UNCHANGED <<cacheVars, planVars, facts, agg, clangdVars>>

\* The AST of the TU; the walker reads the source from disk again.
FetchAST(k) ==
    /\ worker[k] = "ast" /\ clangd = "up"
    /\ facts' = [facts EXCEPT ![k] =
           {Learnt(k, w) : w \in {"ast"} \cup (IF typed THEN {"types"} ELSE {})}
           \cup {Fact("source", c) : c \in {disk[plans[k].file]} \ {0}}]
    /\ Goto(k, "symbolUSR")
    /\ UNCHANGED <<cacheVars, planVars, agg, firstErr, clangdVars>>

SymbolUSR(k) ==
    /\ worker[k] = "symbolUSR" /\ clangd = "up"
    /\ Learn(k, "symbols") /\ Goto(k, "outgoingCalls")
    /\ UNCHANGED <<cacheVars, planVars, agg, firstErr, clangdVars>>

OutgoingCalls(k) ==
    /\ worker[k] = "outgoingCalls" /\ clangd = "up"
    /\ Goto(k, IF settled THEN "callee" ELSE "put")
    /\ UNCHANGED <<cacheVars, planVars, facts, agg, firstErr, clangdVars>>

\* Mutant of CalleeUSR: a callee in a file that is not open is left out.
CalleeUSRNoOpen(k) ==
    /\ worker[k] = "callee" /\ clangd = "up"
    /\ IF opens[Header] > 0 THEN Learn(k, "calls") ELSE UNCHANGED facts
    /\ Goto(k, "put")
    /\ UNCHANGED <<cacheVars, planVars, agg, firstErr, clangdVars>>

\* symbolInfo answers only for files that are open.
CalleeUSR(k) ==
    /\ worker[k] = "callee" /\ clangd = "up"
    /\ IF opens[Header] > 0 THEN Learn(k, "calls") /\ Goto(k, "put")
       ELSE Goto(k, "ensureOpened") /\ UNCHANGED facts
    /\ UNCHANGED <<cacheVars, planVars, agg, firstErr, clangdVars>>

OpenCallee(k) ==
    /\ worker[k] = "ensureOpened"
    /\ EnsureOpened(Header) /\ Goto(k, "retry")
    /\ UNCHANGED <<cacheVars, plans, links, settled, typed, facts, agg, firstErr>>

RetryCallee(k) ==
    /\ worker[k] = "retry" /\ clangd = "up"
    /\ IF opens[Header] > 0 THEN Learn(k, "calls") ELSE UNCHANGED facts
    /\ Goto(k, "put")
    /\ UNCHANGED <<cacheVars, planVars, agg, firstErr, clangdVars>>

\* Any other request that fails only leaves its facts out.
RequestFails(k) ==
    /\ CallErrors(Cancelled) # {} /\ troubled' = TRUE
    /\ \/ worker[k] = "ast" /\ Goto(k, "symbolUSR")
       \/ worker[k] \in {"symbolUSR", "outgoingCalls", "retry"} /\ Goto(k, "put")
       \/ worker[k] = "callee" /\ Goto(k, "ensureOpened")
    /\ UNCHANGED <<cacheVars, planVars, facts, agg, firstErr, clangdVars>>

\* PerFile.Put: written aside and renamed.
Put(k) ==
    /\ worker[k] = "put"
    /\ LET key == <<plans[k].file, plans[k].digest>>
       IN /\ cache' = [j \in DOMAIN cache \cup {key} |-> IF j = key THEN facts[k] ELSE cache[j]]
          /\ outdated' = outdated \ {key}
    /\ Goto(k, "add")
    /\ UNCHANGED <<planVars, facts, agg, firstErr, clangdVars>>

Merge(k) ==
    /\ worker[k] = "add"
    /\ AddPayload(k, facts[k]) /\ Goto(k, "done")
    /\ UNCHANGED <<cacheVars, planVars, facts, firstErr, clangdVars>>

Worker(k) ==
    /\ \/ DocumentSymbolFails(k) \/ RequestFails(k)
       \/ /\ \/ WorkerStarts(k) \/ DocumentSymbol(k) \/ FetchAST(k) \/ SymbolUSR(k)
             \/ OutgoingCalls(k) \/ CalleeUSR(k) \/ OpenCallee(k) \/ RetryCallee(k)
             \/ Put(k) \/ Merge(k)
          /\ UNCHANGED troubled
    /\ UNCHANGED <<diskVars, run, runs, next, result, ctxDone>>

-----------------------------------------------------------------------------
(* The surroundings                                                        *)

Running == run # "returned"

ClangdDies ==
    /\ "die" \in Faults \/ ctxDone    \* exec.CommandContext kills it
    /\ Running /\ clangd = "up" /\ clangd' = "dead"
    /\ troubled' = TRUE
    /\ UNCHANGED <<diskVars, cacheVars, run, runs, next, planVars, workVars, result, ctxDone, opens, text>>

Cancel ==
    /\ "cancel" \in Faults /\ Running /\ ~ctxDone /\ ctxDone' = TRUE
    /\ troubled' = TRUE
    /\ UNCHANGED <<diskVars, cacheVars, run, runs, next, planVars, workVars, result, clangdVars>>

EditFile(f) ==
    /\ edits < MaxEdits /\ edits' = edits + 1 /\ troubled' = (troubled \/ Running)
    /\ \E c \in Contents \ {disk[f]} :
           /\ \/ c > 0 /\ "edit" \in Faults
              \/ c > 0 /\ "editBetween" \in Faults /\ ~Running
              \/ c = 0 /\ "vanish" \in Faults
           /\ disk' = [disk EXCEPT ![f] = c]
    /\ outdated' = IF f = Header THEN Keys ELSE outdated
    /\ UNCHANGED <<cache, run, runs, next, planVars, workVars, result, ctxDone, clangdVars>>

Next == \/ CallRun \/ Run \/ (\E k \in Indexes : Worker(k))
        \/ ClangdDies \/ Cancel \/ (\E f \in URIs : EditFile(f))

\* The goroutines are scheduled and every request returns (LspClient).
Fairness == WF_vars(Run) /\ \A k \in Indexes : WF_vars(Worker(k))

Spec == Init /\ [][Next]_vars
FairSpec == Spec /\ Fairness

-----------------------------------------------------------------------------
(* Properties                                                              *)

RunSteps == {"plan", "open", "links", "dispatch", "acquire", "join", "close", "returned"}
WorkerSteps == {"none", "start", "documentSymbol", "ast", "symbolUSR", "outgoingCalls",
                "callee", "ensureOpened", "retry", "put", "add", "done"}
Errors   == {"none", "crash", "write", "ctx", "refused"}
Payloads == SUBSET [what : OwnKinds \cup HeaderKinds, of : Contents]

SourceTypes ==
    /\ disk \in [URIs -> Contents] /\ edits \in Nat /\ troubled \in BOOLEAN
    /\ DOMAIN cache \subseteq Keys /\ \A k \in DOMAIN cache : cache[k] \in Payloads
    /\ outdated \subseteq Keys
RunTypes ==
    /\ run \in RunSteps /\ runs \in Nat /\ next \in 1 .. Len(Entries) + Len(openedURIs) + 1
    /\ plans \in Seq([file : Files, digest : Contents \ {0}, hit : BOOLEAN, payload : Payloads])
    /\ result \in Errors \cup {"ok", "input"} /\ ctxDone \in BOOLEAN
OpenTypes ==
    /\ openedSet \subseteq URIs /\ openedURIs \in Seq(URIs) /\ links \in 0 .. Len(openedURIs)
    /\ settled \in BOOLEAN /\ typed \in BOOLEAN /\ clangd \in {"up", "dead"}
    /\ opens \in [URIs -> Nat] /\ opens[Header] \in 0 .. 1 /\ text \in [URIs -> Contents]
WorkTypes ==
    /\ worker \in [Indexes -> WorkerSteps] /\ facts \in [Indexes -> Payloads]
    /\ DOMAIN agg \subseteq Indexes /\ \A k \in DOMAIN agg : agg[k] \in Payloads
    /\ firstErr \in Errors

\* Safety: every variable has its type; in particular no two goroutines open the
\* same header (extract.go:150-152: openMu "serializes the openTU call so two
\* workers don't race-didOpen the same header").
TypeOK == SourceTypes /\ RunTypes /\ OpenTypes /\ WorkTypes

Succeeded == run = "returned" /\ result = "ok"

\* Safety: no TU that was planned is lost: when Run succeeds, the payload of
\* every plan was merged, although workers and the dispatch loop give up
\* silently when they are cancelled (Run, extract.go:372-377).
SuccessCoversPlans == Succeeded => DOMAIN agg = DOMAIN plans

\* A payload has all the facts its key asks for and no others, those of the header from
\* content h.
Whole(payload, key, h) ==
    /\ Needed(key, h) \subseteq payload
    /\ \A fact \in payload : fact.of = IF fact.what \in HeaderKinds THEN h ELSE key[2]

\* It is of one content of the header, and that is its content now unless the header was
\* changed after the payload was made.
Matches(payload, key) ==
    \E h \in Contents : Whole(payload, key, h) /\ (key \notin outdated => h = disk[Header])

\* What the plan of a TU asks for.
Key(k) == <<plans[k].file, plans[k].digest>>

\* Safety: when Run succeeds, every TU it planned has all its facts; a clangd
\* that died or a run that was cancelled is an error, not a smaller index
\* (extract.go:372-374: no "partial result with err==nil").
SuccessIsComplete ==
    Succeeded => \A k \in DOMAIN plans : k \in DOMAIN agg /\ Matches(agg[k], Key(k))

\* Safety: when a first run that only a dying clangd or a cancelling caller can
\* disturb succeeds without all facts, clangd died under it: a cancellation at
\* any point is reported, a file listed twice loses nothing, and headers are
\* opened when callees need them.  (extractTU tolerates every error after
\* documentSymbol: a clangd that died, but also one that refuses a request or
\* has not settled in time, which this run leaves out, costs facts silently.)
CompleteUnlessClangdDies == clangd = "up" => SuccessIsComplete

\* Safety: a failure is never taken for a cancellation: Run returns a context
\* error only if its caller cancelled it, although the first failing worker
\* cancels all others (setErr); the daemon restarts clangd only when it can
\* tell a crash from a cancellation (isCrashError).
NoPhantomCancel == result = "ctx" => ctxDone

\* Safety: when Run returns, everything it opened in a living clangd is
\* closed again (extract.go:105: "We didClose them all at the end of Run").
EverythingClosed ==
    (run = "returned" /\ clangd = "up") => \A u \in URIs : opens[u] = 0

\* Safety: as long as nothing went wrong in any run, a run that succeeds has
\* all facts of every TU it planned, whether it found them in the cache or
\* asked clangd, also after files were changed between the runs: those of the
\* TU of its present content, and those of the header of its present content
\* too, unless it was found in the cache and the header was changed since it
\* was filed there, which no key covers (cache.go:175-176: "this does *not*
\* include transitive header content", docs/architecture.md:403-412).  Even
\* then they are of one content of the header, never a mixture.
QuietSuccessIsComplete == troubled \/ SuccessIsComplete

\* Safety: as long as nothing went wrong in any run, a payload in the cache has
\* all facts, those of the TU of the content it is filed under and those of the
\* header of one content, its present one unless the header was changed since
\* (cache.go:174-176: the key has "a TU's own content digest" and "the digest of
\* its compile command", and "does *not* include transitive header content").
CacheMatchesKey == troubled \/ \A k \in DOMAIN cache : Matches(cache[k], k)

\* Liveness: Run returns, whatever clangd and the caller do: no slot of the
\* semaphore is lost and wg.Wait ends (Run).
RunReturns == (run = "plan") ~> (run = "returned")

\* The plans, and how far Run is with them.
PlanInv ==
    /\ Len(plans) <= Len(Entries)
    /\ run = "plan" => Len(plans) < next /\ next <= Len(Entries) + 1
    /\ run = "open" => /\ Len(plans) \in 1 .. next /\ next <= Len(Entries)
                       /\ plans[Len(plans)].file = File
    /\ run = "links" => next <= links + 1
    /\ run \in {"dispatch", "acquire"} => next <= Len(plans) + 1
    /\ run = "acquire" => next \in DOMAIN plans /\ ~plans[next].hit

\* What clangd was told to open is what Run knows it has opened.
OpensInv ==
    /\ run \in {"plan", "open"} => openedSet = {} /\ Opened(Header) = {}
    /\ run \in {"links", "dispatch", "acquire", "join", "close"} =>
           openedSet = {openedURIs[k] : k \in DOMAIN openedURIs}
    /\ Running => /\ \A u \in URIs : opens[u] = Cardinality(Opened(u))
                  /\ opens[Header] = IF Header \in openedSet THEN 1 ELSE 0

\* Workers exist for plans that were dispatched, and run while Run waits for them.
WorkerInv ==
    /\ DOMAIN agg \subseteq DOMAIN plans
    /\ \A k \in Indexes : worker[k] # "none" => k \in DOMAIN plans /\ ~plans[k].hit
    /\ run \notin {"dispatch", "acquire", "join"} => Active = {}
    /\ run \in {"plan", "open", "links"} => DOMAIN agg = {} /\ \A k \in Indexes : worker[k] = "none"
    /\ run \in {"dispatch", "acquire"} => \A k \in Indexes : k >= next => worker[k] = "none"

\* A plan that was passed is merged, or has a worker that will merge it, unless something is
\* reported.
CoverInv ==
    /\ run \in {"dispatch", "acquire"} =>
           \A k \in DOMAIN plans : k < next => k \in DOMAIN agg \/ worker[k] # "none"
    /\ run = "join" => Cancelled \/ \A k \in DOMAIN plans : k \in DOMAIN agg \/ worker[k] # "none"
    /\ \A k \in Indexes : worker[k] = "done" => k \in DOMAIN agg \/ Cancelled
    /\ run \notin {"close", "returned"} => result = "none"
    /\ result = "ok" => DOMAIN agg = DOMAIN plans
    /\ firstErr = "ctx" => ctxDone

\* Plans of one key are all hits or all misses.
HitsInv ==
    /\ \A i, j \in DOMAIN plans : Key(i) = Key(j) => plans[i].hit = plans[j].hit
    /\ run \in {"plan", "open"} => \A k \in DOMAIN plans : plans[k].hit <=> Key(k) \in DOMAIN cache

Origin(k, w) == IF w \in HeaderKinds THEN disk[Header] ELSE plans[k].digest
Has(k, w)    == Fact(w, Origin(k, w)) \in facts[k]
PastAST      == {"symbolUSR", "outgoingCalls", "callee", "ensureOpened", "retry", "put", "add"}

\* As long as nothing goes wrong: a plan is for the file as it is, and unless it
\* was a hit clangd has that file, among those Run asks for links.
Planned(k) ==
    /\ plans[k].digest = disk[plans[k].file]
    /\ ~plans[k].hit /\ (run = "open" => k < Len(plans)) =>
           /\ text[plans[k].file] = disk[plans[k].file]
           /\ \E i \in DOMAIN openedURIs : /\ openedURIs[i] = plans[k].file
                                           /\ run \notin {"plan", "open"} => i <= links

\* ... Run has what the workers need of it ...
QuietRun ==
    /\ firstErr = "none"
    /\ Running => /\ clangd = "up" /\ ~ctxDone /\ \A k \in DOMAIN plans : Planned(k)
                  /\ Header \in openedSet => text[Header] = disk[Header] /\ disk[Header] # 0
    /\ run \in {"links", "dispatch", "acquire", "join"} => settled
    /\ run = "links" /\ disk[Header] # 0 =>
           \A i \in 1 .. next - 1 : openedURIs[i] \in Linked => Header \in openedSet
    /\ run \in {"dispatch", "acquire", "join"} =>
           /\ typed => Header \in openedSet
           /\ disk[Header] # 0 => \A k \in DOMAIN plans : ~plans[k].hit /\ plans[k].file \in Linked => typed

\* ... a worker knows what the steps of extractTU behind it have asked for ...
Knows(k) ==
    /\ worker[k] \in PastAST => /\ Has(k, "ast") /\ Has(k, "source")
                                /\ plans[k].file \in Linked /\ disk[Header] # 0 => Has(k, "types")
                                /\ \A fact \in facts[k] : fact.of = Origin(k, fact.what)
    /\ worker[k] \in PastAST \ {"symbolUSR"} => Has(k, "symbols")
    /\ worker[k] \in {"put", "add"} /\ disk[Header] # 0 => Has(k, "calls")
    /\ worker[k] = "retry" /\ disk[Header] # 0 => Header \in openedSet
    /\ worker[k] = "add" => Key(k) \notin outdated

\* ... and the payloads are whole.
QuietFacts ==
    /\ \A k \in DOMAIN plans : plans[k].hit => Matches(plans[k].payload, Key(k))
    /\ \A k \in DOMAIN agg : Matches(agg[k], Key(k))
    /\ Running => \A k \in DOMAIN agg : ~plans[k].hit => Key(k) \notin outdated
    /\ \A k \in Indexes : Knows(k)

QuietInv == troubled \/ (QuietRun /\ QuietFacts)

\* Safety: the inductive invariant behind the properties (module Extract_proofs).
IInv == /\ TypeOK /\ PlanInv /\ OpensInv /\ WorkerInv /\ CoverInv /\ HitsInv
        /\ NoPhantomCancel /\ CacheMatchesKey /\ QuietInv

\* Safety: what EverythingClosed rests on: the file Run is about to open is there
\* (unless files vanish).
ClosedInv == (run = "open" => disk[File] # 0) /\ EverythingClosed

\* Safety: what CompleteUnlessClangdDies rests on, in a first run that clangd and the
\* caller alone can disturb: it is disturbed by nothing else, and when it
\* succeeds before that every payload is whole.
FirstRunInv ==
    /\ Running \/ troubled => runs # 0
    /\ troubled => clangd = "dead" \/ ctxDone
    /\ result = "ok" /\ clangd = "up" => \A k \in DOMAIN agg : Matches(agg[k], Key(k))

=============================================================================
