--------------------------- MODULE Extract_proofs ---------------------------
(***************************************************************************)
(* Proofs about extract.Run for any compile_commands.json, any number of   *)
(* workers and runs, and whatever faults occur: the invariant IInv of      *)
(* module Extract is inductive, so that no planned TU is ever lost, no     *)
(* failure is taken for a cancellation, no header is opened twice, and     *)
(* what is merged and cached while nothing goes wrong is complete.         *)
(***************************************************************************)
EXTENDS Extract, FiniteSetTheorems, TLAPS

-----------------------------------------------------------------------------
(* What the proofs use of the data                                         *)

\* The entries, and the URIs.
LEMMA EntryFacts ==
    /\ Len(Entries) \in Nat \ {0} /\ Indexes = 1 .. Len(Entries)
    /\ \A k \in Indexes : Entries[k] \in Files
    /\ Header \in URIs /\ Header \notin Files /\ Files \subseteq URIs
BY EntriesAssumption DEF Indexes, URIs, Files

\* What can be asked of clangd makes a payload.
LEMMA PayloadFacts ==
    /\ {} \in Payloads
    /\ \A p, q \in Payloads : p \cup q \in Payloads
    /\ \A w \in OwnKinds \cup HeaderKinds, c \in Contents : {Fact(w, c)} \in Payloads
    /\ \A S \in SUBSET Contents : {Fact("source", c) : c \in S} \in Payloads
    /\ \A key \in Keys, h \in Contents : Needed(key, h) \in Payloads
BY DEF Payloads, Fact, Needed, Keys, OwnKinds, HeaderKinds

\* Opening one more URI.
LEMMA OpenFacts ==
    ASSUME openedURIs \in Seq(URIs), NEW u \in URIs, openedURIs' = Append(openedURIs, u)
    PROVE  /\ openedURIs' \in Seq(URIs) /\ Len(openedURIs) \in Nat
           /\ Len(openedURIs') = Len(openedURIs) + 1
           /\ DOMAIN openedURIs = 1 .. Len(openedURIs)
           /\ DOMAIN openedURIs' = 1 .. Len(openedURIs) + 1
           /\ \A i \in DOMAIN openedURIs : openedURIs'[i] = openedURIs[i]
           /\ openedURIs'[Len(openedURIs) + 1] = u
BY DEF URIs

\* The set of URIs gets one more.
LEMMA OpenedSetFacts ==
    ASSUME openedURIs \in Seq(URIs), NEW u \in URIs, openedURIs' = Append(openedURIs, u)
    PROVE  {openedURIs'[i] : i \in DOMAIN openedURIs'} = {openedURIs[i] : i \in DOMAIN openedURIs} \cup {u}
BY OpenFacts

\* The positions of a URI are finite.
LEMMA OpenedFinite ==
    ASSUME openedURIs \in Seq(URIs), NEW v
    PROVE  IsFiniteSet(Opened(v)) /\ Cardinality(Opened(v)) \in Nat
<1>1. Opened(v) \subseteq 1 .. Len(openedURIs) /\ Len(openedURIs) \in Nat
  BY DEF Opened
<1>2. IsFiniteSet(1 .. Len(openedURIs))
  BY <1>1, FS_Interval
<1> QED
  BY <1>1, <1>2, FS_Subset, FS_CardinalityType

\* The URI just opened has one position more, the others keep theirs.
LEMMA OpenedCounts ==
    ASSUME openedURIs \in Seq(URIs), NEW u \in URIs, openedURIs' = Append(openedURIs, u)
    PROVE  /\ \A v : v # u => Opened(v)' = Opened(v)
           /\ Cardinality(Opened(u)') = Cardinality(Opened(u)) + 1
<1> DEFINE n == Len(openedURIs) + 1
<1>1. /\ Len(openedURIs) \in Nat /\ DOMAIN openedURIs = 1 .. Len(openedURIs)
      /\ DOMAIN openedURIs' = 1 .. n
      /\ \A i \in DOMAIN openedURIs : openedURIs'[i] = openedURIs[i]
      /\ openedURIs'[n] = u
  BY OpenFacts
<1>2. \A v : v # u => Opened(v)' = Opened(v)
  BY <1>1 DEF Opened
<1>3. Opened(u)' = Opened(u) \cup {n} /\ n \notin Opened(u)
  BY <1>1 DEF Opened
<1> HIDE DEF n
<1>4. Cardinality(Opened(u) \cup {n}) = Cardinality(Opened(u)) + 1
  BY <1>3, OpenedFinite, FS_AddElement
<1> QED
  BY <1>2, <1>3, <1>4

\* Planning one more TU.
LEMMA PlanFacts ==
    ASSUME RunTypes, SourceTypes, PlanInv, Planning, NEW hit \in BOOLEAN, NEW payload \in Payloads,
           disk[File] # 0, Plan(disk[File], hit, payload)
    PROVE  /\ plans' \in Seq([file : Files, digest : Contents \ {0}, hit : BOOLEAN, payload : Payloads])
           /\ Len(plans) \in Nat /\ Len(plans') = Len(plans) + 1
           /\ DOMAIN plans = 1 .. Len(plans) /\ DOMAIN plans' = 1 .. Len(plans) + 1
           /\ \A i \in DOMAIN plans : plans'[i] = plans[i]
           /\ plans'[Len(plans) + 1].file = File /\ plans'[Len(plans) + 1].digest = disk[File]
           /\ plans'[Len(plans) + 1].hit = hit /\ plans'[Len(plans) + 1].payload = payload
           /\ File \in Files /\ disk[File] \in Contents \ {0}
<1>1. next \in 1 .. Len(Entries)
  BY EntryFacts DEF Planning, RunTypes, Contents
<1>2. File \in Files
  BY <1>1, EntryFacts DEF File
<1>3. disk[File] \in Contents \ {0}
  BY <1>2, EntryFacts DEF SourceTypes
<1> DEFINE plan == [file |-> File, digest |-> disk[File], hit |-> hit, payload |-> payload]
<1>4. plan \in [file : Files, digest : Contents \ {0}, hit : BOOLEAN, payload : Payloads]
  BY <1>2, <1>3
<1>5. plan.file = File /\ plan.digest = disk[File] /\ plan.hit = hit /\ plan.payload = payload
  OBVIOUS
<1>6. plans' = Append(plans, plan)
  BY DEF Plan
<1> HIDE DEF plan
<1>7. plans \in Seq([file : Files, digest : Contents \ {0}, hit : BOOLEAN, payload : Payloads])
  BY DEF RunTypes
<1> QED
  BY <1>2, <1>3, <1>4, <1>5, <1>6, <1>7

\* The elements of a sequence.
LEMMA Elements ==
    ASSUME NEW S, NEW s \in Seq(S)
    PROVE  DOMAIN s = 1 .. Len(s) /\ Len(s) \in Nat /\ \A i \in DOMAIN s : s[i] \in S
OBVIOUS

\* The sequence of a Run that has done nothing yet.
LEMMA Empty == Len(<<>>) = 0 /\ DOMAIN <<>> = {} /\ \A S : <<>> \in Seq(S)
OBVIOUS

\* A plan is a file, its content, and what was found for it.
LEMMA PlanTypes ==
    ASSUME RunTypes, NEW k \in DOMAIN plans
    PROVE  /\ DOMAIN plans = 1 .. Len(plans) /\ Len(plans) \in Nat
           /\ plans[k].file \in Files /\ plans[k].digest \in Contents \ {0}
           /\ plans[k].hit \in BOOLEAN /\ plans[k].payload \in Payloads /\ Key(k) \in Keys
<1> DEFINE Plans == [file : Files, digest : Contents \ {0}, hit : BOOLEAN, payload : Payloads]
<1>1. plans \in Seq(Plans)
  BY DEF RunTypes
<1>2. plans[k] \in Plans /\ DOMAIN plans = 1 .. Len(plans) /\ Len(plans) \in Nat
  BY <1>1, Elements
<1> QED
  BY <1>2 DEF Key, Keys

\* The plans are those of the first entries.
LEMMA PlanIndexes ==
    ASSUME RunTypes, PlanInv
    PROVE  /\ DOMAIN plans = 1 .. Len(plans) /\ Len(plans) \in Nat /\ DOMAIN plans \subseteq Indexes
<1>1. DOMAIN plans = 1 .. Len(plans) /\ Len(plans) \in Nat
  BY DEF RunTypes
<1> QED
  BY <1>1, EntryFacts DEF PlanInv

\* What every step of a worker leaves alone.
Aside == UNCHANGED <<diskVars, run, runs, next, result, ctxDone>>

\* A worker changes neither the plans nor what Run is at.
LEMMA WorkerFrame ==
    ASSUME NEW k \in Indexes, Worker(k)
    PROVE  UNCHANGED <<disk, edits, run, runs, next, result, ctxDone, clangd,
                       plans, links, settled, typed>>
BY DEF Worker, WorkerStarts, DocumentSymbol, DocumentSymbolFails, FetchAST, SymbolUSR, OutgoingCalls,
       CalleeUSR, OpenCallee, RetryCallee, RequestFails, Put, Merge, EnsureOpened, OpenTU,
       diskVars, cacheVars, planVars, clangdVars

\* A worker that has something to do belongs to an uncached plan, and Run waits for it.
LEMMA WorkerFacts ==
    ASSUME WorkerInv, NEW k \in Indexes, worker[k] \notin {"none", "done"}
    PROVE  /\ run \in {"dispatch", "acquire", "join"} /\ Running
           /\ k \in DOMAIN plans /\ ~plans[k].hit
BY DEF WorkerInv, Active, Running

\* Run waits for every worker that takes a step.
LEMMA WorkerRuns ==
    ASSUME WorkerInv, NEW k \in Indexes, Worker(k)
    PROVE  run \in {"dispatch", "acquire", "join"} /\ Running
<1>1. worker[k] \notin {"none", "done"}
  BY DEF Worker, WorkerStarts, DocumentSymbol, DocumentSymbolFails, FetchAST, SymbolUSR, OutgoingCalls,
         CalleeUSR, OpenCallee, RetryCallee, RequestFails, Put, Merge
<1> QED
  BY <1>1, WorkerFacts

\* A header that is not in openedSet has not been opened.
LEMMA HeaderOpens ==
    ASSUME OpenTypes, OpensInv, Running, Header \notin openedSet
    PROVE  opens[Header] = 0
BY DEF OpensInv

-----------------------------------------------------------------------------
(* The parts of the invariant, action by action                            *)

\* Every action keeps the types of the files and the cache.
LEMMA SourceStep ==
  TypeOK /\ PlanInv /\ WorkerInv /\ [Next]_vars => SourceTypes'
<1> SUFFICES ASSUME TypeOK, PlanInv, WorkerInv, [Next]_vars PROVE SourceTypes'
  OBVIOUS
<1> USE DEF TypeOK, SourceTypes
<1> USE DEF Aside
<1>1. CASE UNCHANGED vars
  BY <1>1 DEF vars, diskVars, cacheVars, planVars, workVars, clangdVars
<1>2. CASE CallRun
  BY <1>2 DEF CallRun, diskVars, cacheVars
<1>3. CASE SkipTU
  BY <1>3 DEF SkipTU, diskVars, cacheVars
<1>4. CASE PlanCached
  BY <1>4 DEF PlanCached, diskVars, cacheVars
<1>5. CASE PlanUncached
  BY <1>5 DEF PlanUncached, diskVars, cacheVars
<1>6. CASE OpenPlanned
  BY <1>6 DEF OpenPlanned, diskVars, cacheVars
<1>7. CASE OpenFails
  BY <1>7 DEF OpenFails, diskVars, cacheVars
<1>8. CASE WaitForIndex
  BY <1>8 DEF WaitForIndex, diskVars, cacheVars
<1>9. CASE DocumentLink
  BY <1>9 DEF DocumentLink, diskVars, cacheVars
<1>10. CASE DocumentLinkFails
  BY <1>10 DEF DocumentLinkFails, diskVars, cacheVars
<1>11. CASE CollectTypedefs
  BY <1>11 DEF CollectTypedefs, diskVars, cacheVars
<1>12. CASE DispatchCached
  BY <1>12 DEF DispatchCached, diskVars, cacheVars
<1>13. CASE DispatchUncached
  BY <1>13 DEF DispatchUncached, diskVars, cacheVars
<1>14. CASE SpawnWorker
  BY <1>14 DEF SpawnWorker, diskVars, cacheVars
<1>15. CASE DispatchEnds
  BY <1>15 DEF DispatchEnds, diskVars, cacheVars
<1>16. CASE Join
  BY <1>16 DEF Join, diskVars, cacheVars
<1>17. CASE CloseTUs
  BY <1>17 DEF CloseTUs, diskVars, cacheVars
<1>18. ASSUME NEW k \in Indexes, WorkerStarts(k), Aside, UNCHANGED troubled PROVE SourceTypes'
  BY <1>18 DEF WorkerStarts, diskVars, cacheVars
<1>19. ASSUME NEW k \in Indexes, DocumentSymbol(k), Aside, UNCHANGED troubled PROVE SourceTypes'
  BY <1>19 DEF DocumentSymbol, diskVars, cacheVars
<1>20. ASSUME NEW k \in Indexes, DocumentSymbolFails(k), Aside PROVE SourceTypes'
  BY <1>20 DEF DocumentSymbolFails, diskVars, cacheVars
<1>21. ASSUME NEW k \in Indexes, FetchAST(k), Aside, UNCHANGED troubled PROVE SourceTypes'
  BY <1>21 DEF FetchAST, diskVars, cacheVars
<1>22. ASSUME NEW k \in Indexes, SymbolUSR(k), Aside, UNCHANGED troubled PROVE SourceTypes'
  BY <1>22 DEF SymbolUSR, diskVars, cacheVars
<1>23. ASSUME NEW k \in Indexes, OutgoingCalls(k), Aside, UNCHANGED troubled PROVE SourceTypes'
  BY <1>23 DEF OutgoingCalls, diskVars, cacheVars
<1>24. ASSUME NEW k \in Indexes, CalleeUSR(k), Aside, UNCHANGED troubled PROVE SourceTypes'
  BY <1>24 DEF CalleeUSR, diskVars, cacheVars
<1>25. ASSUME NEW k \in Indexes, OpenCallee(k), Aside, UNCHANGED troubled PROVE SourceTypes'
  BY <1>25 DEF OpenCallee, diskVars, cacheVars
<1>26. ASSUME NEW k \in Indexes, RetryCallee(k), Aside, UNCHANGED troubled PROVE SourceTypes'
  BY <1>26 DEF RetryCallee, diskVars, cacheVars
<1>27. ASSUME NEW k \in Indexes, RequestFails(k), Aside PROVE SourceTypes'
  BY <1>27 DEF RequestFails, diskVars, cacheVars
<1>28. ASSUME NEW k \in Indexes, Put(k), Aside, UNCHANGED troubled PROVE SourceTypes'
  <2>1. k \in DOMAIN plans /\ worker[k] = "put"
    BY <1>28, WorkerFacts DEF Put
  <2>2. Key(k) \in Keys /\ facts[k] \in Payloads
    BY <2>1, PlanTypes DEF WorkTypes
  <2> QED
    BY <1>28, <2>2 DEF Put, Key, diskVars, cacheVars
<1>29. ASSUME NEW k \in Indexes, Merge(k), Aside, UNCHANGED troubled PROVE SourceTypes'
  BY <1>29 DEF Merge, diskVars, cacheVars
<1>30. CASE ClangdDies
  BY <1>30 DEF ClangdDies, diskVars, cacheVars
<1>31. CASE Cancel
  BY <1>31 DEF Cancel, diskVars, cacheVars
<1>32. ASSUME NEW f \in URIs, EditFile(f) PROVE SourceTypes'
  BY <1>32 DEF EditFile
<1> QED
  BY <1>1, <1>2, <1>3, <1>4, <1>5, <1>6, <1>7, <1>8, <1>9, <1>10, <1>11, <1>12,
     <1>13, <1>14, <1>15, <1>16, <1>17, <1>18, <1>19, <1>20, <1>21, <1>22, <1>23,
     <1>24, <1>25, <1>26, <1>27, <1>28, <1>29, <1>30, <1>31, <1>32
     DEF Next, Run, Worker, Aside

\* Every action keeps the types of what Run keeps; its index stays within its loop.
LEMMA RunStep ==
  TypeOK /\ PlanInv /\ [Next]_vars => RunTypes'
<1> SUFFICES ASSUME TypeOK, PlanInv, [Next]_vars PROVE RunTypes'
  OBVIOUS
<1> USE EntryFacts DEF TypeOK, RunTypes
<1> USE DEF RunSteps, Errors
<1>1. CASE UNCHANGED vars
  BY <1>1 DEF vars, diskVars, cacheVars, planVars, workVars, clangdVars
<1>2. CASE CallRun
  <2>1. /\ run' = "plan" /\ runs' = runs + 1 /\ next' = 1 /\ result' = "none" /\ ctxDone' = FALSE
        /\ plans' = <<>> /\ openedURIs' = <<>>
    BY <1>2 DEF CallRun
  <2>2. plans' \in Seq([file : Files, digest : Contents \ {0}, hit : BOOLEAN, payload : Payloads])
    BY <2>1, Empty
  <2>3. next' \in 1 .. Len(Entries) + Len(openedURIs') + 1
    BY <2>1, Empty
  <2>4. runs \in Nat /\ runs' = runs + 1
    BY <2>1
  <2>5. runs' \in Nat
    BY <2>4
  <2>6. run' \in RunSteps /\ result' \in Errors \cup {"ok", "input"} /\ ctxDone' \in BOOLEAN
    BY <2>1, Zenon
  <2> QED
    BY <2>2, <2>3, <2>5, <2>6, Zenon
<1>3. CASE SkipTU
  BY <1>3 DEF SourceTypes, PlanInv, SkipTU, Planning, planVars, clangdVars
<1>4. CASE PlanCached
  <2>1. cache[<<File, disk[File]>>] \in Payloads /\ disk[File] # 0 /\ Plan(disk[File], TRUE, cache[<<File, disk[File]>>])
    BY <1>4, PayloadFacts DEF PlanCached, SourceTypes
  <2>2. plans' \in Seq([file : Files, digest : Contents \ {0}, hit : BOOLEAN, payload : Payloads])
    BY <1>4, <2>1, PlanFacts DEF PlanCached
  <2> QED
    BY <1>4, <2>2 DEF PlanCached, Planning, clangdVars
<1>5. CASE PlanUncached
  <2>1. {} \in Payloads /\ disk[File] # 0 /\ Plan(disk[File], FALSE, {})
    BY <1>5, PayloadFacts DEF PlanUncached, SourceTypes
  <2>2. plans' \in Seq([file : Files, digest : Contents \ {0}, hit : BOOLEAN, payload : Payloads])
    BY <1>5, <2>1, PlanFacts DEF PlanUncached
  <2> QED
    BY <1>5, <2>2 DEF PlanUncached, Planning, clangdVars
<1>6. CASE OpenPlanned
  <2>1. next <= Len(Entries) /\ File \in Files /\ openedURIs' = Append(openedURIs, File)
    BY <1>6, EntryFacts DEF OpenPlanned, PlanInv, File
  <2>2. Len(openedURIs') = Len(openedURIs) + 1 /\ Len(openedURIs) \in Nat
    BY <2>1, OpenFacts, EntryFacts DEF OpenTypes
  <2> QED
    BY <1>6, <2>1, <2>2 DEF OpenPlanned
<1>7. CASE OpenFails
  BY <1>7 DEF SourceTypes, PlanInv, OpenFails, planVars, clangdVars
<1>8. CASE WaitForIndex
  BY <1>8 DEF SourceTypes, PlanInv, WaitForIndex, planVars, clangdVars
<1>9. CASE DocumentLink
  <2>1. next' = next + 1 /\ next <= links /\ openedURIs' \in {openedURIs, Append(openedURIs, Header)}
    BY <1>9 DEF DocumentLink, Linking, EnsureOpened
  <2>2. Len(openedURIs') \in {Len(openedURIs), Len(openedURIs) + 1} /\ Len(openedURIs) \in Nat
    BY <2>1, OpenFacts, EntryFacts DEF OpenTypes
  <2>3. next' \in 1 .. Len(Entries) + Len(openedURIs') + 1
    BY <2>1, <2>2, EntryFacts DEF OpenTypes
  <2> QED
    BY <1>9, <2>3 DEF DocumentLink
<1>10. CASE DocumentLinkFails
  BY <1>10 DEF SourceTypes, PlanInv, DocumentLinkFails, Linking, CallErrors, Return, OpenTypes, planVars
<1>11. CASE CollectTypedefs
  BY <1>11 DEF SourceTypes, PlanInv, CollectTypedefs, planVars, clangdVars
<1>12. CASE DispatchCached
  BY <1>12 DEF SourceTypes, PlanInv, DispatchCached, Dispatching, AddPayload, planVars, clangdVars
<1>13. CASE DispatchUncached
  BY <1>13 DEF SourceTypes, PlanInv, DispatchUncached, Dispatching, Cancelled, planVars, clangdVars
<1>14. CASE SpawnWorker
  BY <1>14 DEF SourceTypes, PlanInv, SpawnWorker, planVars, clangdVars
<1>15. CASE DispatchEnds
  BY <1>15 DEF SourceTypes, PlanInv, DispatchEnds, planVars, clangdVars
<1>16. CASE Join
  BY <1>16 DEF SourceTypes, PlanInv, Join, Return, WorkTypes, planVars, Errors
<1>17. CASE CloseTUs
  BY <1>17 DEF SourceTypes, PlanInv, CloseTUs, planVars, clangdVars
<1>18. ASSUME NEW k \in Indexes, Worker(k) PROVE RunTypes'
  <2>1. openedURIs' \in {openedURIs, Append(openedURIs, Header)}
    BY <1>18 DEF Worker, WorkerStarts, DocumentSymbol, DocumentSymbolFails, FetchAST, SymbolUSR, OutgoingCalls,
             CalleeUSR, OpenCallee, RetryCallee, RequestFails, Put, Merge, EnsureOpened, planVars
  <2>2. Len(openedURIs') >= Len(openedURIs) /\ Len(openedURIs') \in Nat /\ Len(openedURIs) \in Nat
    BY <2>1, OpenFacts DEF OpenTypes
  <2> QED
    BY <1>18, <2>2, WorkerFrame
<1>19. CASE ClangdDies
  BY <1>19 DEF SourceTypes, PlanInv, ClangdDies, planVars, clangdVars
<1>20. CASE Cancel
  BY <1>20 DEF SourceTypes, PlanInv, Cancel, planVars, clangdVars
<1>21. ASSUME NEW f \in URIs, EditFile(f) PROVE RunTypes'
  BY <1>21 DEF SourceTypes, PlanInv, EditFile, planVars, clangdVars
<1> QED
  BY <1>1, <1>2, <1>3, <1>4, <1>5, <1>6, <1>7, <1>8, <1>9, <1>10, <1>11, <1>12,
     <1>13, <1>14, <1>15, <1>16, <1>17, <1>18, <1>19, <1>20, <1>21
     DEF Next, Run, Worker

\* Opening the header when it is not open keeps the types.
LEMMA EnsureOpenedTypes ==
    ASSUME SourceTypes, OpenTypes, OpensInv, Running, EnsureOpened(Header), UNCHANGED <<links, settled, typed>>
    PROVE  OpenTypes'
<1> USE EntryFacts
<1>1. CASE UNCHANGED <<openedSet, openedURIs, clangdVars>>
  BY <1>1 DEF OpenTypes, clangdVars
<1>2. CASE /\ Header \notin openedSet /\ openedSet' = openedSet \cup {Header}
           /\ openedURIs' = Append(openedURIs, Header) /\ OpenTU(Header)
  <2>1. openedURIs' \in Seq(URIs) /\ Len(openedURIs') = Len(openedURIs) + 1 /\ Len(openedURIs) \in Nat
    BY <1>2, OpenFacts DEF OpenTypes
  <2>2. opens[Header] = 0
    BY <1>2, HeaderOpens
  <2> QED
    BY <1>2, <2>1, <2>2 DEF OpenTypes, OpenTU, SourceTypes
<1> QED
  BY <1>1, <1>2 DEF EnsureOpened

\* Every action keeps the types of what was opened; the header is opened at most once.
LEMMA OpenStep ==
  SourceTypes /\ RunTypes /\ OpenTypes /\ PlanInv /\ OpensInv /\ WorkerInv /\ [Next]_vars => OpenTypes'
<1> SUFFICES ASSUME SourceTypes, RunTypes, OpenTypes, PlanInv, OpensInv, WorkerInv, [Next]_vars PROVE OpenTypes'
  OBVIOUS
<1> USE EntryFacts DEF OpenTypes
<1> USE DEF Aside
<1>1. CASE UNCHANGED vars
  BY <1>1 DEF vars, diskVars, cacheVars, planVars, workVars, clangdVars
<1>2. CASE CallRun
  <2>1. openedURIs' \in Seq(URIs) /\ links' \in 0 .. Len(openedURIs')
    BY <1>2, Empty DEF CallRun
  <2>2. /\ openedSet' \subseteq URIs /\ settled' \in BOOLEAN /\ typed' \in BOOLEAN /\ clangd' = "up"
        /\ opens' \in [URIs -> Nat] /\ opens'[Header] = 0
    BY <1>2 DEF CallRun
  <2>3. text' \in [URIs -> Contents]
    BY <1>2 DEF CallRun, Contents
  <2> QED
    BY <2>1, <2>2, <2>3
<1>3. CASE SkipTU
  BY <1>3 DEF SkipTU, Planning, planVars, clangdVars
<1>4. CASE PlanCached
  BY <1>4 DEF PlanCached, Planning, Plan, planVars, clangdVars
<1>5. CASE PlanUncached
  BY <1>5 DEF PlanUncached, Planning, Plan, planVars, clangdVars
<1>6. CASE OpenPlanned
  <2>1. File \in Files /\ disk[File] \in Contents /\ openedURIs' = Append(openedURIs, File)
    BY <1>6 DEF OpenPlanned, PlanInv, File, SourceTypes, RunTypes
  <2>2. openedURIs' \in Seq(URIs) /\ Len(openedURIs') = Len(openedURIs) + 1 /\ Len(openedURIs) \in Nat
    BY <2>1, OpenFacts
  <2> QED
    BY <1>6, <2>1, <2>2 DEF OpenPlanned, OpenTU
<1>7. CASE OpenFails
  BY <1>7 DEF OpenFails, planVars, clangdVars
<1>8. CASE WaitForIndex
  <2>1. \A i \in DOMAIN openedURIs : openedURIs[i] \in URIs
    BY Elements
  <2>2. links' = Len(openedURIs) /\ openedURIs' = openedURIs /\ Len(openedURIs) \in Nat
    BY <1>8 DEF WaitForIndex
  <2>3. openedSet' \subseteq URIs
    BY <1>8, <2>1 DEF WaitForIndex
  <2>4. settled' \in BOOLEAN
    BY <1>8 DEF WaitForIndex
  <2> QED
    BY <1>8, <2>2, <2>3, <2>4 DEF WaitForIndex, clangdVars
<1>9. CASE DocumentLink
  <2>1. CASE UNCHANGED <<openedSet, openedURIs, clangdVars>>
    BY <1>9, <2>1 DEF DocumentLink, clangdVars
  <2>2. CASE EnsureOpened(Header)
    BY <1>9, <2>2, EnsureOpenedTypes DEF DocumentLink, Linking, Running
  <2> QED
    BY <1>9, <2>1, <2>2 DEF DocumentLink
<1>10. CASE DocumentLinkFails
  BY <1>10 DEF DocumentLinkFails, Linking, CallErrors, Return, planVars, clangdVars
<1>11. CASE CollectTypedefs
  <2>1. typed' \in BOOLEAN
    <3>1. CASE typed' = (Header \in openedSet)
      <4>1. (Header \in openedSet) \in BOOLEAN
        OBVIOUS
      <4> QED
        BY <3>1, <4>1, Zenon
    <3>2. CASE typed' = FALSE
      BY <3>2
    <3> QED
      BY <1>11, <3>1, <3>2 DEF CollectTypedefs
  <2> QED
    BY <1>11, <2>1 DEF CollectTypedefs, clangdVars
<1>12. CASE DispatchCached
  BY <1>12 DEF DispatchCached, Dispatching, AddPayload, planVars, clangdVars
<1>13. CASE DispatchUncached
  BY <1>13 DEF DispatchUncached, Dispatching, Cancelled, planVars, clangdVars
<1>14. CASE SpawnWorker
  BY <1>14 DEF SpawnWorker, planVars, clangdVars
<1>15. CASE DispatchEnds
  BY <1>15 DEF DispatchEnds, planVars, clangdVars
<1>16. CASE Join
  BY <1>16 DEF Join, Return, planVars, clangdVars
<1>17. CASE CloseTUs
  <2>1. Running /\ \A u \in URIs : opens[u] = Cardinality(Opened(u)) /\ opens[u] \in Nat
    BY <1>17 DEF CloseTUs, OpensInv, Running
  <2>2. opens' \in [URIs -> Nat] /\ opens'[Header] \in 0 .. 1
    BY <1>17, <2>1 DEF CloseTUs
  <2> QED
    BY <1>17, <2>2 DEF CloseTUs, planVars
<1>18. ASSUME NEW k \in Indexes, WorkerStarts(k), Aside, UNCHANGED troubled PROVE OpenTypes'
  BY <1>18 DEF WorkerStarts, Goto, Cancelled, planVars, clangdVars
<1>19. ASSUME NEW k \in Indexes, DocumentSymbol(k), Aside, UNCHANGED troubled PROVE OpenTypes'
  BY <1>19 DEF DocumentSymbol, Goto, planVars, clangdVars
<1>20. ASSUME NEW k \in Indexes, DocumentSymbolFails(k), Aside PROVE OpenTypes'
  BY <1>20 DEF DocumentSymbolFails, Goto, CallErrors, SetErr, planVars, clangdVars
<1>21. ASSUME NEW k \in Indexes, FetchAST(k), Aside, UNCHANGED troubled PROVE OpenTypes'
  BY <1>21 DEF FetchAST, Goto, Learnt, planVars, clangdVars
<1>22. ASSUME NEW k \in Indexes, SymbolUSR(k), Aside, UNCHANGED troubled PROVE OpenTypes'
  BY <1>22 DEF SymbolUSR, Goto, Learn, Learnt, planVars, clangdVars
<1>23. ASSUME NEW k \in Indexes, OutgoingCalls(k), Aside, UNCHANGED troubled PROVE OpenTypes'
  BY <1>23 DEF OutgoingCalls, Goto, planVars, clangdVars
<1>24. ASSUME NEW k \in Indexes, CalleeUSR(k), Aside, UNCHANGED troubled PROVE OpenTypes'
  BY <1>24 DEF CalleeUSR, Goto, Learn, Learnt, planVars, clangdVars
<1>25. ASSUME NEW k \in Indexes, OpenCallee(k), Aside, UNCHANGED troubled PROVE OpenTypes'
  <2>1. Running
    BY <1>25, WorkerFacts DEF OpenCallee
  <2> QED
    BY <1>25, <2>1, EnsureOpenedTypes DEF OpenCallee
<1>26. ASSUME NEW k \in Indexes, RetryCallee(k), Aside, UNCHANGED troubled PROVE OpenTypes'
  BY <1>26 DEF RetryCallee, Goto, Learn, Learnt, planVars, clangdVars
<1>27. ASSUME NEW k \in Indexes, RequestFails(k), Aside PROVE OpenTypes'
  BY <1>27 DEF RequestFails, Goto, CallErrors, planVars, clangdVars
<1>28. ASSUME NEW k \in Indexes, Put(k), Aside, UNCHANGED troubled PROVE OpenTypes'
  BY <1>28 DEF Put, Goto, planVars, clangdVars
<1>29. ASSUME NEW k \in Indexes, Merge(k), Aside, UNCHANGED troubled PROVE OpenTypes'
  BY <1>29 DEF Merge, Goto, AddPayload, planVars, clangdVars
<1>30. CASE ClangdDies
  BY <1>30 DEF ClangdDies, planVars, clangdVars
<1>31. CASE Cancel
  BY <1>31 DEF Cancel, planVars, clangdVars
<1>32. ASSUME NEW f \in URIs, EditFile(f) PROVE OpenTypes'
  BY <1>32 DEF EditFile, planVars, clangdVars
<1> QED
  BY <1>1, <1>2, <1>3, <1>4, <1>5, <1>6, <1>7, <1>8, <1>9, <1>10, <1>11, <1>12,
     <1>13, <1>14, <1>15, <1>16, <1>17, <1>18, <1>19, <1>20, <1>21, <1>22, <1>23,
     <1>24, <1>25, <1>26, <1>27, <1>28, <1>29, <1>30, <1>31, <1>32
     DEF Next, Run, Worker, Aside

\* What clangd says of a worker's TU and of the header is a fact.
LEMMA LearntTypes ==
    ASSUME RunTypes, OpenTypes, WorkerInv, NEW k \in Indexes, worker[k] \notin {"none", "done"},
           NEW w \in OwnKinds \cup HeaderKinds
    PROVE  {Learnt(k, w)} \in Payloads
<1>1. plans[k].file \in URIs
  BY WorkerFacts, PlanTypes, EntryFacts
<1> QED
  BY <1>1, EntryFacts, PayloadFacts DEF Learnt, OpenTypes

\* What a worker learns are facts.
LEMMA LearnTypes ==
    ASSUME RunTypes, OpenTypes, WorkTypes, WorkerInv, NEW k \in Indexes,
           worker[k] \notin {"none", "done"}, NEW w \in OwnKinds \cup HeaderKinds, Learn(k, w)
    PROVE  facts' \in [Indexes -> Payloads]
<1> DEFINE new == {Learnt(k, w)}
<1>1. new \in Payloads
  BY LearntTypes
<1>2. facts' = [facts EXCEPT ![k] = facts[k] \cup new] /\ facts \in [Indexes -> Payloads]
  BY DEF Learn, WorkTypes
<1> HIDE DEF new
<1> QED
  BY <1>1, <1>2, PayloadFacts

\* Every action keeps the types of the workers.
LEMMA WorkStep ==
  SourceTypes /\ RunTypes /\ OpenTypes /\ WorkTypes /\ PlanInv /\ WorkerInv /\ [Next]_vars => WorkTypes'
<1> SUFFICES ASSUME SourceTypes, RunTypes, OpenTypes, WorkTypes, PlanInv, WorkerInv, [Next]_vars PROVE WorkTypes'
  OBVIOUS
<1> USE EntryFacts, PayloadFacts DEF WorkTypes
<1> USE DEF WorkerSteps
<1> USE DEF Aside
<1>1. CASE UNCHANGED vars
  BY <1>1 DEF vars, diskVars, cacheVars, planVars, workVars, clangdVars
<1>2. CASE CallRun
  BY <1>2, Empty DEF CallRun, Errors
<1>3. CASE SkipTU
  BY <1>3 DEF SkipTU, Planning, workVars
<1>4. CASE PlanCached
  BY <1>4 DEF PlanCached, Planning, Plan, workVars
<1>5. CASE PlanUncached
  BY <1>5 DEF PlanUncached, Planning, Plan, workVars
<1>6. CASE OpenPlanned
  BY <1>6 DEF OpenPlanned, OpenTU, workVars
<1>7. CASE OpenFails
  BY <1>7 DEF OpenFails, workVars
<1>8. CASE WaitForIndex
  BY <1>8 DEF WaitForIndex, workVars
<1>9. CASE DocumentLink
  BY <1>9 DEF DocumentLink, Linking, EnsureOpened, OpenTU, workVars
<1>10. CASE DocumentLinkFails
  BY <1>10 DEF DocumentLinkFails, Linking, CallErrors, Return, workVars
<1>11. CASE CollectTypedefs
  BY <1>11 DEF CollectTypedefs, workVars
<1>12. CASE DispatchCached
  <2>1. next \in DOMAIN plans /\ next \in Indexes
    BY <1>12, PlanIndexes DEF DispatchCached, Dispatching, RunTypes
  <2>2. plans[next].payload \in Payloads
    BY <2>1, PlanTypes
  <2> QED
    BY <1>12, <2>1, <2>2 DEF DispatchCached, AddPayload
<1>13. CASE DispatchUncached
  BY <1>13 DEF DispatchUncached, Dispatching, Cancelled, workVars
<1>14. CASE SpawnWorker
  BY <1>14 DEF SpawnWorker
<1>15. CASE DispatchEnds
  BY <1>15 DEF DispatchEnds, workVars
<1>16. CASE Join
  BY <1>16 DEF Join, Return, workVars
<1>17. CASE CloseTUs
  BY <1>17 DEF CloseTUs, workVars
<1>18. ASSUME NEW k \in Indexes, WorkerStarts(k), Aside, UNCHANGED troubled PROVE WorkTypes'
  BY <1>18 DEF WorkerStarts, Goto, Cancelled, workVars
<1>19. ASSUME NEW k \in Indexes, DocumentSymbol(k), Aside, UNCHANGED troubled PROVE WorkTypes'
  BY <1>19 DEF DocumentSymbol, Goto, workVars
<1>20. ASSUME NEW k \in Indexes, DocumentSymbolFails(k), Aside PROVE WorkTypes'
  BY <1>20 DEF DocumentSymbolFails, CallErrors, SetErr, Goto, Errors
<1>21. ASSUME NEW k \in Indexes, FetchAST(k), Aside, UNCHANGED troubled PROVE WorkTypes'
  <2> DEFINE got == {Learnt(k, w) : w \in {"ast"} \cup (IF typed THEN {"types"} ELSE {})}
               src == {Fact("source", c) : c \in {disk[plans[k].file]} \ {0}}
  <2>1. plans[k].file \in Files /\ worker[k] \notin {"none", "done"}
    BY <1>21, WorkerFacts, PlanTypes DEF FetchAST
  <2>2. {Learnt(k, "ast")} \in Payloads /\ {Learnt(k, "types")} \in Payloads
    BY <2>1, LearntTypes DEF OwnKinds, HeaderKinds
  <2>3. got = {Learnt(k, "ast")} \/ got = {Learnt(k, "ast")} \cup {Learnt(k, "types")}
    OBVIOUS
  <2>4. got \in Payloads
    BY <2>2, <2>3, PayloadFacts
  <2>5. src \in Payloads
    BY <2>1, PayloadFacts, EntryFacts DEF SourceTypes
  <2>6. facts' = [facts EXCEPT ![k] = got \cup src]
    BY <1>21 DEF FetchAST
  <2> HIDE DEF got, src
  <2>7. got \cup src \in Payloads
    BY <2>4, <2>5, PayloadFacts
  <2> QED
    BY <1>21, <2>6, <2>7 DEF FetchAST, Goto
<1>22. ASSUME NEW k \in Indexes, SymbolUSR(k), Aside, UNCHANGED troubled PROVE WorkTypes'
  <2>1. worker[k] \notin {"none", "done"} /\ facts' \in [Indexes -> Payloads]
    BY <1>22, LearnTypes DEF SymbolUSR, OwnKinds, HeaderKinds
  <2> QED
    BY <1>22, <2>1 DEF SymbolUSR, Goto
<1>23. ASSUME NEW k \in Indexes, OutgoingCalls(k), Aside, UNCHANGED troubled PROVE WorkTypes'
  BY <1>23 DEF OutgoingCalls, Goto, workVars
<1>24. ASSUME NEW k \in Indexes, CalleeUSR(k), Aside, UNCHANGED troubled PROVE WorkTypes'
  <2>1. worker[k] \notin {"none", "done"} /\ facts' \in [Indexes -> Payloads]
    BY <1>24, LearnTypes DEF CalleeUSR, OwnKinds, HeaderKinds
  <2> QED
    BY <1>24, <2>1 DEF CalleeUSR, Goto
<1>25. ASSUME NEW k \in Indexes, OpenCallee(k), Aside, UNCHANGED troubled PROVE WorkTypes'
  BY <1>25 DEF OpenCallee, Goto, EnsureOpened, OpenTU, workVars
<1>26. ASSUME NEW k \in Indexes, RetryCallee(k), Aside, UNCHANGED troubled PROVE WorkTypes'
  <2>1. worker[k] \notin {"none", "done"} /\ facts' \in [Indexes -> Payloads]
    BY <1>26, LearnTypes DEF RetryCallee, OwnKinds, HeaderKinds
  <2> QED
    BY <1>26, <2>1 DEF RetryCallee, Goto
<1>27. ASSUME NEW k \in Indexes, RequestFails(k), Aside PROVE WorkTypes'
  BY <1>27 DEF RequestFails, Goto, CallErrors, workVars
<1>28. ASSUME NEW k \in Indexes, Put(k), Aside, UNCHANGED troubled PROVE WorkTypes'
  BY <1>28 DEF Put, Goto, workVars
<1>29. ASSUME NEW k \in Indexes, Merge(k), Aside, UNCHANGED troubled PROVE WorkTypes'
  BY <1>29 DEF Merge, Goto, AddPayload, workVars
<1>30. CASE ClangdDies
  BY <1>30 DEF ClangdDies, workVars
<1>31. CASE Cancel
  BY <1>31 DEF Cancel, workVars
<1>32. ASSUME NEW f \in URIs, EditFile(f) PROVE WorkTypes'
  BY <1>32 DEF EditFile, workVars
<1> QED
  BY <1>1, <1>2, <1>3, <1>4, <1>5, <1>6, <1>7, <1>8, <1>9, <1>10, <1>11, <1>12,
     <1>13, <1>14, <1>15, <1>16, <1>17, <1>18, <1>19, <1>20, <1>21, <1>22, <1>23,
     <1>24, <1>25, <1>26, <1>27, <1>28, <1>29, <1>30, <1>31, <1>32
     DEF Next, Run, Worker, Aside

\* Every action keeps PlanInv: there are no more plans than entries looked at, and Run's index stays
\* within its loop.
LEMMA PlanStep ==
  SourceTypes /\ RunTypes /\ OpenTypes /\ PlanInv /\ [Next]_vars => PlanInv'
<1> SUFFICES ASSUME SourceTypes, RunTypes, OpenTypes, PlanInv, [Next]_vars PROVE PlanInv'
  OBVIOUS
<1> USE EntryFacts DEF RunTypes, OpenTypes, PlanInv
<1>1. CASE UNCHANGED vars
  BY <1>1 DEF vars, diskVars, cacheVars, planVars, workVars, clangdVars, File
<1>2. CASE CallRun
  BY <1>2, Empty DEF CallRun
<1>3. CASE SkipTU
  BY <1>3 DEF SkipTU, Planning, planVars, File
<1>4. CASE PlanCached
  <2>1. cache[<<File, disk[File]>>] \in Payloads /\ disk[File] # 0 /\ Plan(disk[File], TRUE, cache[<<File, disk[File]>>])
    BY <1>4, PayloadFacts DEF PlanCached, SourceTypes
  <2>2. /\ Len(plans) \in Nat /\ Len(plans') = Len(plans) + 1
        /\ plans'[Len(plans) + 1].file = File
    BY <1>4, <2>1, PlanFacts DEF PlanCached
  <2> QED
    BY <1>4, <2>2 DEF PlanCached, Planning
<1>5. CASE PlanUncached
  <2>1. {} \in Payloads /\ disk[File] # 0 /\ Plan(disk[File], FALSE, {})
    BY <1>5, PayloadFacts DEF PlanUncached, SourceTypes
  <2>2. /\ Len(plans) \in Nat /\ Len(plans') = Len(plans) + 1
        /\ plans'[Len(plans) + 1].file = File
    BY <1>5, <2>1, PlanFacts DEF PlanUncached
  <2> QED
    BY <1>5, <2>2 DEF File, PlanUncached, Planning
<1>6. CASE OpenPlanned
  BY <1>6 DEF OpenPlanned, OpenTU, planVars, File
<1>7. CASE OpenFails
  BY <1>7 DEF OpenFails, planVars, File
<1>8. CASE WaitForIndex
  BY <1>8 DEF WaitForIndex, planVars, File
<1>9. CASE DocumentLink
  BY <1>9 DEF DocumentLink, Linking, EnsureOpened, OpenTU, planVars, File
<1>10. CASE DocumentLinkFails
  BY <1>10 DEF DocumentLinkFails, Linking, CallErrors, Return, planVars, File
<1>11. CASE CollectTypedefs
  BY <1>11 DEF CollectTypedefs, planVars, File
<1>12. CASE DispatchCached
  BY <1>12 DEF DispatchCached, Dispatching, AddPayload, planVars, File
<1>13. CASE DispatchUncached
  BY <1>13, PlanIndexes DEF DispatchUncached, Dispatching, planVars, File
<1>14. CASE SpawnWorker
  BY <1>14 DEF SpawnWorker, planVars, File
<1>15. CASE DispatchEnds
  BY <1>15 DEF DispatchEnds, planVars, File
<1>16. CASE Join
  BY <1>16 DEF Join, Return, planVars, File
<1>17. CASE CloseTUs
  BY <1>17 DEF CloseTUs, planVars, File
<1>18. ASSUME NEW k \in Indexes, Worker(k) PROVE PlanInv'
  BY <1>18, WorkerFrame DEF File
<1>19. CASE ClangdDies
  BY <1>19 DEF ClangdDies, planVars, File
<1>20. CASE Cancel
  BY <1>20 DEF Cancel, planVars, File
<1>21. ASSUME NEW f \in URIs, EditFile(f) PROVE PlanInv'
  BY <1>21 DEF EditFile, planVars, File
<1> QED
  BY <1>1, <1>2, <1>3, <1>4, <1>5, <1>6, <1>7, <1>8, <1>9, <1>10, <1>11, <1>12,
     <1>13, <1>14, <1>15, <1>16, <1>17, <1>18, <1>19, <1>20, <1>21
     DEF Next, Run, Worker

\* Opening the header keeps OpensInv.
LEMMA EnsureOpenedOpens ==
    ASSUME OpenTypes, OpensInv, run \in {"links", "dispatch", "acquire", "join"}, EnsureOpened(Header), run' = run
    PROVE  OpensInv'
<1> USE EntryFacts
<1>1. CASE UNCHANGED <<openedSet, openedURIs, clangdVars>>
  BY <1>1 DEF OpensInv, clangdVars, Opened, Running
<1>2. CASE /\ Header \notin openedSet /\ openedSet' = openedSet \cup {Header}
           /\ openedURIs' = Append(openedURIs, Header) /\ OpenTU(Header)
  <2>1. openedSet' = {openedURIs'[i] : i \in DOMAIN openedURIs'}
    BY <1>2, OpenedSetFacts DEF OpensInv, OpenTypes
  <2>2. /\ \A u \in URIs : u # Header => Opened(u)' = Opened(u)
        /\ Cardinality(Opened(Header)') = Cardinality(Opened(Header)) + 1
    BY <1>2, OpenedCounts DEF OpenTypes
  <2>3. /\ \A u \in URIs : opens[u] = Cardinality(Opened(u))
        /\ opens[Header] = 0
    BY <1>2, HeaderOpens DEF OpensInv, Running
  <2>4. opens' = [opens EXCEPT ![Header] = opens[Header] + 1] /\ opens \in [URIs -> Nat]
    BY <1>2 DEF OpenTU, OpenTypes
  <2>5. \A u \in URIs : opens'[u] = Cardinality(Opened(u)')
    BY <2>2, <2>3, <2>4
  <2>6. opens'[Header] = 1 /\ Header \in openedSet'
    BY <1>2, <2>3, <2>4
  <2> QED
    BY <2>1, <2>5, <2>6 DEF OpensInv
<1> QED
  BY <1>1, <1>2 DEF EnsureOpened

\* Every action keeps OpensInv: clangd has what Run believes it has opened.
LEMMA OpensStep ==
  RunTypes /\ OpenTypes /\ PlanInv /\ OpensInv /\ WorkerInv /\ [Next]_vars => OpensInv'
<1> SUFFICES ASSUME RunTypes, OpenTypes, PlanInv, OpensInv, WorkerInv, [Next]_vars PROVE OpensInv'
  OBVIOUS
<1> USE EntryFacts DEF OpenTypes, OpensInv, Running
<1> USE DEF Aside
<1>1. CASE UNCHANGED vars
  BY <1>1 DEF vars, diskVars, cacheVars, planVars, workVars, clangdVars, Opened
<1>2. CASE CallRun
  <2>1. openedURIs' = <<>> /\ openedSet' = {} /\ opens' = [u \in URIs |-> 0] /\ run' = "plan"
    BY <1>2 DEF CallRun
  <2>2. \A u : Opened(u)' = {} /\ Cardinality(Opened(u)') = 0
    BY <2>1, FS_EmptySet DEF Opened
  <2> QED
    BY <2>1, <2>2
<1>3. CASE SkipTU
  BY <1>3 DEF SkipTU, Planning, planVars, clangdVars, Opened
<1>4. CASE PlanCached
  BY <1>4 DEF PlanCached, Planning, Plan, planVars, clangdVars, Opened
<1>5. CASE PlanUncached
  BY <1>5 DEF PlanUncached, Planning, Plan, planVars, clangdVars, Opened
<1>6. CASE OpenPlanned
  <2>1. PICK u \in Files : u = File
    BY <1>6 DEF OpenPlanned, PlanInv, File, RunTypes
  <2>2. openedURIs' = Append(openedURIs, u) /\ openedSet' = {} /\ run' = "plan" /\ run = "open"
    BY <1>6, <2>1 DEF OpenPlanned
  <2>3. /\ \A v : v # u => Opened(v)' = Opened(v)
        /\ Cardinality(Opened(u)') = Cardinality(Opened(u)) + 1
    BY <2>2, OpenedCounts
  <2>4. opens' = [opens EXCEPT ![u] = opens[u] + 1] /\ opens \in [URIs -> Nat]
    BY <1>6, <2>1 DEF OpenPlanned, OpenTU
  <2>5. opens[Header] = 0 /\ Opened(Header) = {} /\ \A v \in URIs : opens[v] = Cardinality(Opened(v))
    BY <2>2 DEF Running
  <2>6. \A v \in URIs : opens'[v] = Cardinality(Opened(v)')
    BY <2>3, <2>4, <2>5
  <2>7. opens'[Header] = 0 /\ Opened(Header)' = {}
    BY <2>3, <2>4, <2>5
  <2> QED
    BY <2>2, <2>6, <2>7
<1>7. CASE OpenFails
  BY <1>7 DEF OpenFails, planVars, clangdVars, Opened
<1>8. CASE WaitForIndex
  <2>1. /\ UNCHANGED <<openedURIs, opens>> /\ run = "plan" /\ run' = "links"
        /\ openedSet' = {openedURIs[i] : i \in DOMAIN openedURIs}
    BY <1>8 DEF WaitForIndex, clangdVars
  <2>2. \A u : Opened(u)' = Opened(u)
    BY <2>1 DEF Opened
  <2>3. opens[Header] = 0 /\ Header \notin openedSet' /\ \A u \in URIs : opens[u] = Cardinality(Opened(u))
    BY <2>1 DEF Running, Opened
  <2> QED
    BY <2>1, <2>2, <2>3
<1>9. CASE DocumentLink
  <2>1. CASE UNCHANGED <<openedSet, openedURIs, clangdVars>>
    BY <1>9, <2>1 DEF DocumentLink, clangdVars, Opened
  <2>2. CASE EnsureOpened(Header)
    BY <1>9, <2>2, EnsureOpenedOpens DEF DocumentLink, Linking
  <2> QED
    BY <1>9, <2>1, <2>2 DEF DocumentLink
<1>10. CASE DocumentLinkFails
  BY <1>10 DEF DocumentLinkFails, Linking, CallErrors, Return, planVars, clangdVars, Opened
<1>11. CASE CollectTypedefs
  BY <1>11 DEF CollectTypedefs, planVars, clangdVars, Opened
<1>12. CASE DispatchCached
  BY <1>12 DEF DispatchCached, Dispatching, AddPayload, planVars, clangdVars, Opened
<1>13. CASE DispatchUncached
  BY <1>13 DEF DispatchUncached, Dispatching, Cancelled, planVars, clangdVars, Opened
<1>14. CASE SpawnWorker
  BY <1>14 DEF SpawnWorker, planVars, clangdVars, Opened
<1>15. CASE DispatchEnds
  BY <1>15 DEF DispatchEnds, planVars, clangdVars, Opened
<1>16. CASE Join
  BY <1>16 DEF Join, Return, planVars, clangdVars, Opened
<1>17. CASE CloseTUs
  BY <1>17 DEF CloseTUs, planVars, clangdVars, Opened
<1>18. ASSUME NEW k \in Indexes, WorkerStarts(k), Aside, UNCHANGED troubled PROVE OpensInv'
  BY <1>18 DEF WorkerStarts, Goto, Cancelled, planVars, clangdVars, Opened
<1>19. ASSUME NEW k \in Indexes, DocumentSymbol(k), Aside, UNCHANGED troubled PROVE OpensInv'
  BY <1>19 DEF DocumentSymbol, Goto, planVars, clangdVars, Opened
<1>20. ASSUME NEW k \in Indexes, DocumentSymbolFails(k), Aside PROVE OpensInv'
  BY <1>20 DEF DocumentSymbolFails, Goto, CallErrors, SetErr, planVars, clangdVars, Opened
<1>21. ASSUME NEW k \in Indexes, FetchAST(k), Aside, UNCHANGED troubled PROVE OpensInv'
  BY <1>21 DEF FetchAST, Goto, Learnt, planVars, clangdVars, Opened
<1>22. ASSUME NEW k \in Indexes, SymbolUSR(k), Aside, UNCHANGED troubled PROVE OpensInv'
  BY <1>22 DEF SymbolUSR, Goto, Learn, Learnt, planVars, clangdVars, Opened
<1>23. ASSUME NEW k \in Indexes, OutgoingCalls(k), Aside, UNCHANGED troubled PROVE OpensInv'
  BY <1>23 DEF OutgoingCalls, Goto, planVars, clangdVars, Opened
<1>24. ASSUME NEW k \in Indexes, CalleeUSR(k), Aside, UNCHANGED troubled PROVE OpensInv'
  BY <1>24 DEF CalleeUSR, Goto, Learn, Learnt, planVars, clangdVars, Opened
<1>25. ASSUME NEW k \in Indexes, OpenCallee(k), Aside, UNCHANGED troubled PROVE OpensInv'
  <2>1. run \in {"dispatch", "acquire", "join"}
    BY <1>25, WorkerFacts DEF OpenCallee
  <2> QED
    BY <1>25, <2>1, EnsureOpenedOpens DEF OpenCallee
<1>26. ASSUME NEW k \in Indexes, RetryCallee(k), Aside, UNCHANGED troubled PROVE OpensInv'
  BY <1>26 DEF RetryCallee, Goto, Learn, Learnt, planVars, clangdVars, Opened
<1>27. ASSUME NEW k \in Indexes, RequestFails(k), Aside PROVE OpensInv'
  BY <1>27 DEF RequestFails, Goto, CallErrors, planVars, clangdVars, Opened
<1>28. ASSUME NEW k \in Indexes, Put(k), Aside, UNCHANGED troubled PROVE OpensInv'
  BY <1>28 DEF Put, Goto, planVars, clangdVars, Opened
<1>29. ASSUME NEW k \in Indexes, Merge(k), Aside, UNCHANGED troubled PROVE OpensInv'
  BY <1>29 DEF Merge, Goto, AddPayload, planVars, clangdVars, Opened
<1>30. CASE ClangdDies
  BY <1>30 DEF ClangdDies, planVars, clangdVars, Opened
<1>31. CASE Cancel
  BY <1>31 DEF Cancel, planVars, clangdVars, Opened
<1>32. ASSUME NEW f \in URIs, EditFile(f) PROVE OpensInv'
  BY <1>32 DEF EditFile, planVars, clangdVars, Opened
<1> QED
  BY <1>1, <1>2, <1>3, <1>4, <1>5, <1>6, <1>7, <1>8, <1>9, <1>10, <1>11, <1>12,
     <1>13, <1>14, <1>15, <1>16, <1>17, <1>18, <1>19, <1>20, <1>21, <1>22, <1>23,
     <1>24, <1>25, <1>26, <1>27, <1>28, <1>29, <1>30, <1>31, <1>32
     DEF Next, Run, Worker, Aside

\* Every action keeps WorkerInv: workers exist only while Run waits for them.
LEMMA WorkerStep ==
  SourceTypes /\ RunTypes /\ WorkTypes /\ PlanInv /\ WorkerInv /\ [Next]_vars => WorkerInv'
<1> SUFFICES ASSUME SourceTypes, RunTypes, WorkTypes, PlanInv, WorkerInv, [Next]_vars PROVE WorkerInv'
  OBVIOUS
<1> USE EntryFacts DEF WorkTypes, WorkerInv, Active
<1> USE DEF Aside
<1>1. CASE UNCHANGED vars
  BY <1>1 DEF vars, diskVars, cacheVars, planVars, workVars, clangdVars
<1>2. CASE CallRun
  BY <1>2, Empty DEF CallRun
<1>3. CASE SkipTU
  BY <1>3 DEF SkipTU, Planning, planVars, workVars
<1>4. CASE PlanCached
  <2>1. cache[<<File, disk[File]>>] \in Payloads /\ disk[File] # 0 /\ Plan(disk[File], TRUE, cache[<<File, disk[File]>>])
    BY <1>4, PayloadFacts DEF PlanCached, SourceTypes
  <2>2. /\ DOMAIN plans = 1 .. Len(plans) /\ DOMAIN plans' = 1 .. Len(plans) + 1 /\ Len(plans) \in Nat
        /\ \A i \in DOMAIN plans : plans'[i] = plans[i]
    BY <1>4, <2>1, PlanFacts DEF PlanCached
  <2> QED
    BY <1>4, <2>2 DEF PlanCached, Planning, workVars
<1>5. CASE PlanUncached
  <2>1. {} \in Payloads /\ disk[File] # 0 /\ Plan(disk[File], FALSE, {})
    BY <1>5, PayloadFacts DEF PlanUncached, SourceTypes
  <2>2. /\ DOMAIN plans = 1 .. Len(plans) /\ DOMAIN plans' = 1 .. Len(plans) + 1 /\ Len(plans) \in Nat
        /\ \A i \in DOMAIN plans : plans'[i] = plans[i]
    BY <1>5, <2>1, PlanFacts DEF PlanUncached
  <2> QED
    BY <1>5, <2>2 DEF PlanUncached, Planning, workVars
<1>6. CASE OpenPlanned
  BY <1>6 DEF OpenPlanned, OpenTU, planVars, workVars
<1>7. CASE OpenFails
  BY <1>7 DEF OpenFails, planVars, workVars
<1>8. CASE WaitForIndex
  BY <1>8 DEF WaitForIndex, planVars, workVars
<1>9. CASE DocumentLink
  BY <1>9 DEF DocumentLink, Linking, EnsureOpened, OpenTU, planVars, workVars
<1>10. CASE DocumentLinkFails
  BY <1>10 DEF DocumentLinkFails, Linking, CallErrors, Return, planVars, workVars
<1>11. CASE CollectTypedefs
  BY <1>11 DEF CollectTypedefs, planVars, workVars
<1>12. CASE DispatchCached
  BY <1>12, PlanIndexes DEF DispatchCached, Dispatching, AddPayload, planVars, RunTypes
<1>13. CASE DispatchUncached
  BY <1>13 DEF DispatchUncached, Dispatching, Cancelled, planVars, workVars
<1>14. CASE SpawnWorker
  BY <1>14, PlanIndexes DEF SpawnWorker, PlanInv, planVars, RunTypes
<1>15. CASE DispatchEnds
  BY <1>15 DEF DispatchEnds, planVars, workVars
<1>16. CASE Join
  BY <1>16 DEF Join, Return, planVars, workVars
<1>17. CASE CloseTUs
  BY <1>17 DEF CloseTUs, planVars, workVars
<1>18. ASSUME NEW k \in Indexes, WorkerStarts(k), Aside, UNCHANGED troubled PROVE WorkerInv'
  <2>1. run \in {"dispatch", "acquire", "join"} /\ k \in DOMAIN plans /\ ~plans[k].hit /\ worker[k] # "none"
    BY <1>18, WorkerFacts DEF WorkerStarts
  <2>2. UNCHANGED <<run, next, plans>> /\ DOMAIN agg' \subseteq DOMAIN agg \cup {k}
    BY <1>18 DEF WorkerStarts, planVars
  <2>3. \A j \in Indexes : j # k => worker'[j] = worker[j]
    BY <1>18 DEF WorkerStarts, Goto
  <2> QED
    BY <2>1, <2>2, <2>3
<1>19. ASSUME NEW k \in Indexes, DocumentSymbol(k), Aside, UNCHANGED troubled PROVE WorkerInv'
  <2>1. run \in {"dispatch", "acquire", "join"} /\ k \in DOMAIN plans /\ ~plans[k].hit /\ worker[k] # "none"
    BY <1>19, WorkerFacts DEF DocumentSymbol
  <2>2. UNCHANGED <<run, next, plans>> /\ DOMAIN agg' \subseteq DOMAIN agg \cup {k}
    BY <1>19 DEF DocumentSymbol, planVars
  <2>3. \A j \in Indexes : j # k => worker'[j] = worker[j]
    BY <1>19 DEF DocumentSymbol, Goto
  <2> QED
    BY <2>1, <2>2, <2>3
<1>20. ASSUME NEW k \in Indexes, DocumentSymbolFails(k), Aside PROVE WorkerInv'
  <2>1. run \in {"dispatch", "acquire", "join"} /\ k \in DOMAIN plans /\ ~plans[k].hit /\ worker[k] # "none"
    BY <1>20, WorkerFacts DEF DocumentSymbolFails
  <2>2. UNCHANGED <<run, next, plans>> /\ DOMAIN agg' \subseteq DOMAIN agg \cup {k}
    BY <1>20 DEF DocumentSymbolFails, planVars
  <2>3. \A j \in Indexes : j # k => worker'[j] = worker[j]
    BY <1>20 DEF DocumentSymbolFails, Goto
  <2> QED
    BY <2>1, <2>2, <2>3
<1>21. ASSUME NEW k \in Indexes, FetchAST(k), Aside, UNCHANGED troubled PROVE WorkerInv'
  <2>1. run \in {"dispatch", "acquire", "join"} /\ k \in DOMAIN plans /\ ~plans[k].hit /\ worker[k] # "none"
    BY <1>21, WorkerFacts DEF FetchAST
  <2>2. UNCHANGED <<run, next, plans>> /\ DOMAIN agg' \subseteq DOMAIN agg \cup {k}
    BY <1>21 DEF FetchAST, planVars
  <2>3. \A j \in Indexes : j # k => worker'[j] = worker[j]
    BY <1>21 DEF FetchAST, Goto
  <2> QED
    BY <2>1, <2>2, <2>3
<1>22. ASSUME NEW k \in Indexes, SymbolUSR(k), Aside, UNCHANGED troubled PROVE WorkerInv'
  <2>1. run \in {"dispatch", "acquire", "join"} /\ k \in DOMAIN plans /\ ~plans[k].hit /\ worker[k] # "none"
    BY <1>22, WorkerFacts DEF SymbolUSR
  <2>2. UNCHANGED <<run, next, plans>> /\ DOMAIN agg' \subseteq DOMAIN agg \cup {k}
    BY <1>22 DEF SymbolUSR, planVars
  <2>3. \A j \in Indexes : j # k => worker'[j] = worker[j]
    BY <1>22 DEF SymbolUSR, Goto
  <2> QED
    BY <2>1, <2>2, <2>3
<1>23. ASSUME NEW k \in Indexes, OutgoingCalls(k), Aside, UNCHANGED troubled PROVE WorkerInv'
  <2>1. run \in {"dispatch", "acquire", "join"} /\ k \in DOMAIN plans /\ ~plans[k].hit /\ worker[k] # "none"
    BY <1>23, WorkerFacts DEF OutgoingCalls
  <2>2. UNCHANGED <<run, next, plans>> /\ DOMAIN agg' \subseteq DOMAIN agg \cup {k}
    BY <1>23 DEF OutgoingCalls, planVars
  <2>3. \A j \in Indexes : j # k => worker'[j] = worker[j]
    BY <1>23 DEF OutgoingCalls, Goto
  <2> QED
    BY <2>1, <2>2, <2>3
<1>24. ASSUME NEW k \in Indexes, CalleeUSR(k), Aside, UNCHANGED troubled PROVE WorkerInv'
  <2>1. run \in {"dispatch", "acquire", "join"} /\ k \in DOMAIN plans /\ ~plans[k].hit /\ worker[k] # "none"
    BY <1>24, WorkerFacts DEF CalleeUSR
  <2>2. UNCHANGED <<run, next, plans>> /\ DOMAIN agg' \subseteq DOMAIN agg \cup {k}
    BY <1>24 DEF CalleeUSR, planVars
  <2>3. \A j \in Indexes : j # k => worker'[j] = worker[j]
    BY <1>24 DEF CalleeUSR, Goto
  <2> QED
    BY <2>1, <2>2, <2>3
<1>25. ASSUME NEW k \in Indexes, OpenCallee(k), Aside, UNCHANGED troubled PROVE WorkerInv'
  <2>1. run \in {"dispatch", "acquire", "join"} /\ k \in DOMAIN plans /\ ~plans[k].hit /\ worker[k] # "none"
    BY <1>25, WorkerFacts DEF OpenCallee
  <2>2. UNCHANGED <<run, next, plans>> /\ DOMAIN agg' \subseteq DOMAIN agg \cup {k}
    BY <1>25 DEF OpenCallee, planVars
  <2>3. \A j \in Indexes : j # k => worker'[j] = worker[j]
    BY <1>25 DEF OpenCallee, Goto
  <2> QED
    BY <2>1, <2>2, <2>3
<1>26. ASSUME NEW k \in Indexes, RetryCallee(k), Aside, UNCHANGED troubled PROVE WorkerInv'
  <2>1. run \in {"dispatch", "acquire", "join"} /\ k \in DOMAIN plans /\ ~plans[k].hit /\ worker[k] # "none"
    BY <1>26, WorkerFacts DEF RetryCallee
  <2>2. UNCHANGED <<run, next, plans>> /\ DOMAIN agg' \subseteq DOMAIN agg \cup {k}
    BY <1>26 DEF RetryCallee, planVars
  <2>3. \A j \in Indexes : j # k => worker'[j] = worker[j]
    BY <1>26 DEF RetryCallee, Goto
  <2> QED
    BY <2>1, <2>2, <2>3
<1>27. ASSUME NEW k \in Indexes, RequestFails(k), Aside PROVE WorkerInv'
  <2>1. run \in {"dispatch", "acquire", "join"} /\ k \in DOMAIN plans /\ ~plans[k].hit /\ worker[k] # "none"
    BY <1>27, WorkerFacts DEF RequestFails
  <2>2. UNCHANGED <<run, next, plans>> /\ DOMAIN agg' \subseteq DOMAIN agg \cup {k}
    BY <1>27 DEF RequestFails, planVars
  <2>3. \A j \in Indexes : j # k => worker'[j] = worker[j]
    BY <1>27 DEF RequestFails, Goto
  <2> QED
    BY <2>1, <2>2, <2>3
<1>28. ASSUME NEW k \in Indexes, Put(k), Aside, UNCHANGED troubled PROVE WorkerInv'
  <2>1. run \in {"dispatch", "acquire", "join"} /\ k \in DOMAIN plans /\ ~plans[k].hit /\ worker[k] # "none"
    BY <1>28, WorkerFacts DEF Put
  <2>2. UNCHANGED <<run, next, plans>> /\ DOMAIN agg' \subseteq DOMAIN agg \cup {k}
    BY <1>28 DEF Put, planVars
  <2>3. \A j \in Indexes : j # k => worker'[j] = worker[j]
    BY <1>28 DEF Put, Goto
  <2> QED
    BY <2>1, <2>2, <2>3
<1>29. ASSUME NEW k \in Indexes, Merge(k), Aside, UNCHANGED troubled PROVE WorkerInv'
  <2>1. run \in {"dispatch", "acquire", "join"} /\ k \in DOMAIN plans /\ ~plans[k].hit /\ worker[k] # "none"
    BY <1>29, WorkerFacts DEF Merge
  <2>2. UNCHANGED <<run, next, plans>> /\ DOMAIN agg' \subseteq DOMAIN agg \cup {k}
    BY <1>29 DEF Merge, planVars, AddPayload
  <2>3. \A j \in Indexes : j # k => worker'[j] = worker[j]
    BY <1>29 DEF Merge, Goto
  <2> QED
    BY <2>1, <2>2, <2>3
<1>30. CASE ClangdDies
  BY <1>30 DEF ClangdDies, planVars, workVars
<1>31. CASE Cancel
  BY <1>31 DEF Cancel, planVars, workVars
<1>32. ASSUME NEW f \in URIs, EditFile(f) PROVE WorkerInv'
  BY <1>32 DEF EditFile, planVars, workVars
<1> QED
  BY <1>1, <1>2, <1>3, <1>4, <1>5, <1>6, <1>7, <1>8, <1>9, <1>10, <1>11, <1>12,
     <1>13, <1>14, <1>15, <1>16, <1>17, <1>18, <1>19, <1>20, <1>21, <1>22, <1>23,
     <1>24, <1>25, <1>26, <1>27, <1>28, <1>29, <1>30, <1>31, <1>32
     DEF Next, Run, Worker, Aside

\* A step of one worker keeps CoverInv if that worker is not lost.
LEMMA CoverWorker ==
    ASSUME RunTypes, PlanInv, CoverInv, UNCHANGED <<run, next, plans, result, ctxDone>>,
           result = "none", DOMAIN agg \subseteq DOMAIN agg',
           NEW k \in Indexes, worker[k] # "none", worker'[k] # "none",
           \A j \in Indexes : j # k => worker'[j] = worker[j],
           worker'[k] = "done" => k \in DOMAIN agg' \/ Cancelled',
           Cancelled => Cancelled', firstErr' = "ctx" => ctxDone'
    PROVE  CoverInv'
<1>1. DOMAIN plans \subseteq Indexes
  BY PlanIndexes
<1>2. \A j \in Indexes : /\ worker[j] # "none" => worker'[j] # "none"
                        /\ worker'[j] = "done" => j \in DOMAIN agg' \/ Cancelled'
  BY DEF CoverInv
<1>3. \A j \in DOMAIN plans : j \in DOMAIN agg \/ worker[j] # "none" => j \in DOMAIN agg' \/ worker'[j] # "none"
  BY <1>1, <1>2
<1>4. run' \in {"dispatch", "acquire"} =>
          \A j \in DOMAIN plans' : j < next' => j \in DOMAIN agg' \/ worker'[j] # "none"
  BY <1>3 DEF CoverInv
<1>5. run' = "join" => Cancelled' \/ \A j \in DOMAIN plans' : j \in DOMAIN agg' \/ worker'[j] # "none"
  BY <1>3 DEF CoverInv
<1> QED
  BY <1>2, <1>4, <1>5 DEF CoverInv

\* Every action keeps CoverInv: a plan that was passed is merged, or will be, or Run reports why not.
LEMMA CoverStep ==
  RunTypes /\ WorkTypes /\ PlanInv /\ WorkerInv /\ CoverInv /\ [Next]_vars => CoverInv'
<1> SUFFICES ASSUME RunTypes, WorkTypes, PlanInv, WorkerInv, CoverInv, [Next]_vars PROVE CoverInv'
  OBVIOUS
<1> USE EntryFacts DEF WorkTypes, CoverInv
<1> USE DEF Aside
<1>1. CASE UNCHANGED vars
  BY <1>1 DEF vars, diskVars, cacheVars, planVars, workVars, clangdVars, Cancelled
<1>2. CASE CallRun
  BY <1>2, Empty DEF CallRun
<1>3. CASE SkipTU
  BY <1>3 DEF SkipTU, Planning, planVars, workVars, Cancelled
<1>4. CASE PlanCached
  BY <1>4 DEF PlanCached, Planning, workVars, Cancelled, WorkerInv
<1>5. CASE PlanUncached
  BY <1>5 DEF PlanUncached, Planning, workVars, Cancelled, WorkerInv
<1>6. CASE OpenPlanned
  BY <1>6 DEF OpenPlanned, OpenTU, planVars, workVars, Cancelled
<1>7. CASE OpenFails
  BY <1>7 DEF OpenFails, planVars, workVars, Cancelled
<1>8. CASE WaitForIndex
  BY <1>8 DEF WaitForIndex, planVars, workVars, Cancelled
<1>9. CASE DocumentLink
  BY <1>9 DEF DocumentLink, Linking, EnsureOpened, OpenTU, planVars, workVars, Cancelled
<1>10. CASE DocumentLinkFails
  BY <1>10 DEF DocumentLinkFails, Linking, CallErrors, Return, planVars, workVars, Cancelled
<1>11. CASE CollectTypedefs
  BY <1>11 DEF CollectTypedefs, planVars, workVars, Cancelled
<1>12. CASE DispatchCached
  BY <1>12, PlanIndexes DEF DispatchCached, Dispatching, AddPayload, planVars, Cancelled, RunTypes
<1>13. CASE DispatchUncached
  BY <1>13 DEF DispatchUncached, Dispatching, workVars, planVars, Cancelled
<1>14. CASE SpawnWorker
  BY <1>14, PlanIndexes DEF SpawnWorker, planVars, Cancelled, RunTypes
<1>15. CASE DispatchEnds
  BY <1>15, PlanIndexes DEF DispatchEnds, workVars, planVars, Cancelled, RunTypes
<1>16. CASE Join
  <2>1. /\ \A k \in Indexes : worker[k] \in {"none", "done"}
        /\ UNCHANGED <<plans, worker, agg, firstErr, ctxDone>>
        /\ run = "join" /\ run' = "close"
    BY <1>16 DEF Join, Return, Active, workVars, planVars
  <2>2. ASSUME result' = "ok" PROVE DOMAIN agg = DOMAIN plans
    <3>1. ~Cancelled
      BY <1>16, <2>2 DEF Join, Return, Cancelled, Errors
    <3> QED
      BY <2>1, <3>1, PlanIndexes DEF WorkerInv
  <2> QED
    BY <2>1, <2>2 DEF Cancelled
<1>17. CASE CloseTUs
  BY <1>17 DEF CloseTUs, planVars, workVars, Cancelled
<1>18. ASSUME NEW k \in Indexes, WorkerStarts(k), Aside, UNCHANGED troubled PROVE CoverInv'
  <2>1. run \in {"dispatch", "acquire", "join"} /\ k \in DOMAIN plans /\ worker[k] # "none" /\ result = "none"
    BY <1>18, WorkerFacts DEF WorkerStarts
  <2>2. /\ UNCHANGED <<run, next, plans, result, ctxDone>> /\ DOMAIN agg' = DOMAIN agg
        /\ worker'[k] # "none" /\ \A j \in Indexes : j # k => worker'[j] = worker[j]
    BY <1>18 DEF WorkerStarts, planVars, Goto
  <2>3. /\ worker'[k] = "done" => k \in DOMAIN agg' \/ Cancelled'
        /\ (Cancelled => Cancelled') /\ (firstErr' = "ctx" => ctxDone')
    BY <1>18 DEF WorkerStarts, Goto, Cancelled
  <2> QED
    BY <2>1, <2>2, <2>3, CoverWorker
<1>19. ASSUME NEW k \in Indexes, DocumentSymbol(k), Aside, UNCHANGED troubled PROVE CoverInv'
  <2>1. run \in {"dispatch", "acquire", "join"} /\ k \in DOMAIN plans /\ worker[k] # "none" /\ result = "none"
    BY <1>19, WorkerFacts DEF DocumentSymbol
  <2>2. /\ UNCHANGED <<run, next, plans, result, ctxDone>> /\ DOMAIN agg' = DOMAIN agg
        /\ worker'[k] # "none" /\ \A j \in Indexes : j # k => worker'[j] = worker[j]
    BY <1>19 DEF DocumentSymbol, planVars, Goto
  <2>3. /\ worker'[k] = "done" => k \in DOMAIN agg' \/ Cancelled'
        /\ (Cancelled => Cancelled') /\ (firstErr' = "ctx" => ctxDone')
    BY <1>19 DEF DocumentSymbol, Goto, Cancelled
  <2> QED
    BY <2>1, <2>2, <2>3, CoverWorker
<1>20. ASSUME NEW k \in Indexes, DocumentSymbolFails(k), Aside PROVE CoverInv'
  <2>1. run \in {"dispatch", "acquire", "join"} /\ k \in DOMAIN plans /\ worker[k] # "none" /\ result = "none"
    BY <1>20, WorkerFacts DEF DocumentSymbolFails
  <2>2. /\ UNCHANGED <<run, next, plans, result, ctxDone>> /\ DOMAIN agg' = DOMAIN agg
        /\ worker'[k] # "none" /\ \A j \in Indexes : j # k => worker'[j] = worker[j]
    BY <1>20 DEF DocumentSymbolFails, planVars, Goto
  <2>3. /\ worker'[k] = "done" => k \in DOMAIN agg' \/ Cancelled'
        /\ (Cancelled => Cancelled') /\ (firstErr' = "ctx" => ctxDone')
    BY <1>20 DEF DocumentSymbolFails, Goto, Cancelled, CallErrors, SetErr
  <2> QED
    BY <2>1, <2>2, <2>3, CoverWorker
<1>21. ASSUME NEW k \in Indexes, FetchAST(k), Aside, UNCHANGED troubled PROVE CoverInv'
  <2>1. run \in {"dispatch", "acquire", "join"} /\ k \in DOMAIN plans /\ worker[k] # "none" /\ result = "none"
    BY <1>21, WorkerFacts DEF FetchAST
  <2>2. /\ UNCHANGED <<run, next, plans, result, ctxDone>> /\ DOMAIN agg' = DOMAIN agg
        /\ worker'[k] # "none" /\ \A j \in Indexes : j # k => worker'[j] = worker[j]
    BY <1>21 DEF FetchAST, planVars, Goto
  <2>3. /\ worker'[k] = "done" => k \in DOMAIN agg' \/ Cancelled'
        /\ (Cancelled => Cancelled') /\ (firstErr' = "ctx" => ctxDone')
    BY <1>21 DEF FetchAST, Goto, Cancelled
  <2> QED
    BY <2>1, <2>2, <2>3, CoverWorker
<1>22. ASSUME NEW k \in Indexes, SymbolUSR(k), Aside, UNCHANGED troubled PROVE CoverInv'
  <2>1. run \in {"dispatch", "acquire", "join"} /\ k \in DOMAIN plans /\ worker[k] # "none" /\ result = "none"
    BY <1>22, WorkerFacts DEF SymbolUSR
  <2>2. /\ UNCHANGED <<run, next, plans, result, ctxDone>> /\ DOMAIN agg' = DOMAIN agg
        /\ worker'[k] # "none" /\ \A j \in Indexes : j # k => worker'[j] = worker[j]
    BY <1>22 DEF SymbolUSR, planVars, Goto
  <2>3. /\ worker'[k] = "done" => k \in DOMAIN agg' \/ Cancelled'
        /\ (Cancelled => Cancelled') /\ (firstErr' = "ctx" => ctxDone')
    BY <1>22 DEF SymbolUSR, Goto, Cancelled
  <2> QED
    BY <2>1, <2>2, <2>3, CoverWorker
<1>23. ASSUME NEW k \in Indexes, OutgoingCalls(k), Aside, UNCHANGED troubled PROVE CoverInv'
  <2>1. run \in {"dispatch", "acquire", "join"} /\ k \in DOMAIN plans /\ worker[k] # "none" /\ result = "none"
    BY <1>23, WorkerFacts DEF OutgoingCalls
  <2>2. /\ UNCHANGED <<run, next, plans, result, ctxDone>> /\ DOMAIN agg' = DOMAIN agg
        /\ worker'[k] # "none" /\ \A j \in Indexes : j # k => worker'[j] = worker[j]
    BY <1>23 DEF OutgoingCalls, planVars, Goto
  <2>3. /\ worker'[k] = "done" => k \in DOMAIN agg' \/ Cancelled'
        /\ (Cancelled => Cancelled') /\ (firstErr' = "ctx" => ctxDone')
    BY <1>23 DEF OutgoingCalls, Goto, Cancelled
  <2> QED
    BY <2>1, <2>2, <2>3, CoverWorker
<1>24. ASSUME NEW k \in Indexes, CalleeUSR(k), Aside, UNCHANGED troubled PROVE CoverInv'
  <2>1. run \in {"dispatch", "acquire", "join"} /\ k \in DOMAIN plans /\ worker[k] # "none" /\ result = "none"
    BY <1>24, WorkerFacts DEF CalleeUSR
  <2>2. /\ UNCHANGED <<run, next, plans, result, ctxDone>> /\ DOMAIN agg' = DOMAIN agg
        /\ worker'[k] # "none" /\ \A j \in Indexes : j # k => worker'[j] = worker[j]
    BY <1>24 DEF CalleeUSR, planVars, Goto
  <2>3. /\ worker'[k] = "done" => k \in DOMAIN agg' \/ Cancelled'
        /\ (Cancelled => Cancelled') /\ (firstErr' = "ctx" => ctxDone')
    BY <1>24 DEF CalleeUSR, Goto, Cancelled
  <2> QED
    BY <2>1, <2>2, <2>3, CoverWorker
<1>25. ASSUME NEW k \in Indexes, OpenCallee(k), Aside, UNCHANGED troubled PROVE CoverInv'
  <2>1. run \in {"dispatch", "acquire", "join"} /\ k \in DOMAIN plans /\ worker[k] # "none" /\ result = "none"
    BY <1>25, WorkerFacts DEF OpenCallee
  <2>2. /\ UNCHANGED <<run, next, plans, result, ctxDone>> /\ DOMAIN agg' = DOMAIN agg
        /\ worker'[k] # "none" /\ \A j \in Indexes : j # k => worker'[j] = worker[j]
    BY <1>25 DEF OpenCallee, planVars, Goto
  <2>3. /\ worker'[k] = "done" => k \in DOMAIN agg' \/ Cancelled'
        /\ (Cancelled => Cancelled') /\ (firstErr' = "ctx" => ctxDone')
    BY <1>25 DEF OpenCallee, Goto, Cancelled
  <2> QED
    BY <2>1, <2>2, <2>3, CoverWorker
<1>26. ASSUME NEW k \in Indexes, RetryCallee(k), Aside, UNCHANGED troubled PROVE CoverInv'
  <2>1. run \in {"dispatch", "acquire", "join"} /\ k \in DOMAIN plans /\ worker[k] # "none" /\ result = "none"
    BY <1>26, WorkerFacts DEF RetryCallee
  <2>2. /\ UNCHANGED <<run, next, plans, result, ctxDone>> /\ DOMAIN agg' = DOMAIN agg
        /\ worker'[k] # "none" /\ \A j \in Indexes : j # k => worker'[j] = worker[j]
    BY <1>26 DEF RetryCallee, planVars, Goto
  <2>3. /\ worker'[k] = "done" => k \in DOMAIN agg' \/ Cancelled'
        /\ (Cancelled => Cancelled') /\ (firstErr' = "ctx" => ctxDone')
    BY <1>26 DEF RetryCallee, Goto, Cancelled
  <2> QED
    BY <2>1, <2>2, <2>3, CoverWorker
<1>27. ASSUME NEW k \in Indexes, RequestFails(k), Aside PROVE CoverInv'
  <2>1. run \in {"dispatch", "acquire", "join"} /\ k \in DOMAIN plans /\ worker[k] # "none" /\ result = "none"
    BY <1>27, WorkerFacts DEF RequestFails
  <2>2. /\ UNCHANGED <<run, next, plans, result, ctxDone>> /\ DOMAIN agg' = DOMAIN agg
        /\ worker'[k] # "none" /\ \A j \in Indexes : j # k => worker'[j] = worker[j]
    BY <1>27 DEF RequestFails, planVars, Goto
  <2>3. /\ worker'[k] = "done" => k \in DOMAIN agg' \/ Cancelled'
        /\ (Cancelled => Cancelled') /\ (firstErr' = "ctx" => ctxDone')
    BY <1>27 DEF RequestFails, Goto, Cancelled
  <2> QED
    BY <2>1, <2>2, <2>3, CoverWorker
<1>28. ASSUME NEW k \in Indexes, Put(k), Aside, UNCHANGED troubled PROVE CoverInv'
  <2>1. run \in {"dispatch", "acquire", "join"} /\ k \in DOMAIN plans /\ worker[k] # "none" /\ result = "none"
    BY <1>28, WorkerFacts DEF Put
  <2>2. /\ UNCHANGED <<run, next, plans, result, ctxDone>> /\ DOMAIN agg' = DOMAIN agg
        /\ worker'[k] # "none" /\ \A j \in Indexes : j # k => worker'[j] = worker[j]
    BY <1>28 DEF Put, planVars, Goto
  <2>3. /\ worker'[k] = "done" => k \in DOMAIN agg' \/ Cancelled'
        /\ (Cancelled => Cancelled') /\ (firstErr' = "ctx" => ctxDone')
    BY <1>28 DEF Put, Goto, Cancelled
  <2> QED
    BY <2>1, <2>2, <2>3, CoverWorker
<1>29. ASSUME NEW k \in Indexes, Merge(k), Aside, UNCHANGED troubled PROVE CoverInv'
  <2>1. run \in {"dispatch", "acquire", "join"} /\ k \in DOMAIN plans /\ worker[k] # "none" /\ result = "none"
    BY <1>29, WorkerFacts DEF Merge
  <2>2. /\ UNCHANGED <<run, next, plans, result, ctxDone>> /\ DOMAIN agg' = DOMAIN agg \cup {k}
        /\ worker'[k] # "none" /\ \A j \in Indexes : j # k => worker'[j] = worker[j]
    BY <1>29 DEF Merge, planVars, Goto, AddPayload
  <2>3. /\ worker'[k] = "done" => k \in DOMAIN agg' \/ Cancelled'
        /\ (Cancelled => Cancelled') /\ (firstErr' = "ctx" => ctxDone')
    BY <1>29 DEF Merge, Goto, Cancelled, AddPayload
  <2> QED
    BY <2>1, <2>2, <2>3, CoverWorker
<1>30. CASE ClangdDies
  BY <1>30 DEF ClangdDies, planVars, workVars, Cancelled
<1>31. CASE Cancel
  BY <1>31 DEF Cancel, planVars, workVars, Cancelled
<1>32. ASSUME NEW f \in URIs, EditFile(f) PROVE CoverInv'
  BY <1>32 DEF EditFile, planVars, workVars, Cancelled
<1> QED
  BY <1>1, <1>2, <1>3, <1>4, <1>5, <1>6, <1>7, <1>8, <1>9, <1>10, <1>11, <1>12,
     <1>13, <1>14, <1>15, <1>16, <1>17, <1>18, <1>19, <1>20, <1>21, <1>22, <1>23,
     <1>24, <1>25, <1>26, <1>27, <1>28, <1>29, <1>30, <1>31, <1>32
     DEF Next, Run, Worker, Aside

\* Another plan keeps HitsInv if it is a hit exactly when the cache has its key.
LEMMA PlanHits ==
    ASSUME RunTypes, SourceTypes, PlanInv, HitsInv, Planning, NEW hit \in BOOLEAN, NEW payload \in Payloads,
           disk[File] # 0, Plan(disk[File], hit, payload), hit <=> <<File, disk[File]>> \in DOMAIN cache,
           UNCHANGED cache
    PROVE  HitsInv'
<1>1. PICK n \in Nat : n = Len(plans) + 1
  BY PlanIndexes
<1>2. /\ DOMAIN plans = 1 .. Len(plans) /\ DOMAIN plans' = 1 .. n /\ Len(plans) \in Nat
      /\ \A i \in DOMAIN plans : plans'[i] = plans[i]
      /\ plans'[n].file = File /\ plans'[n].digest = disk[File] /\ plans'[n].hit = hit
  BY <1>1, PlanFacts
<1>3. \A i \in DOMAIN plans : plans[i].hit \in BOOLEAN /\ (plans[i].hit <=> Key(i) \in DOMAIN cache)
  BY PlanTypes DEF HitsInv, Planning
<1>4. ASSUME NEW i \in DOMAIN plans' PROVE plans'[i].hit \in BOOLEAN /\ (plans'[i].hit <=> Key(i)' \in DOMAIN cache')
  <2>1. i = n \/ i \in DOMAIN plans
    BY <1>1, <1>2
  <2> QED
    BY <1>2, <1>3, <2>1 DEF Key
<1>5. ASSUME NEW i \in DOMAIN plans', NEW j \in DOMAIN plans', Key(i)' = Key(j)'
      PROVE  plans'[i].hit = plans'[j].hit
  <2>1. plans'[i].hit <=> plans'[j].hit
    BY <1>4, <1>5
  <2> QED
    BY <1>4, <2>1
<1> QED
  BY <1>4, <1>5, Zenon DEF HitsInv

\* Every action keeps HitsInv: nothing is cached while Run looks its TUs up.
LEMMA HitsStep ==
  SourceTypes /\ RunTypes /\ PlanInv /\ WorkerInv /\ HitsInv /\ [Next]_vars => HitsInv'
<1> SUFFICES ASSUME SourceTypes, RunTypes, PlanInv, WorkerInv, HitsInv, [Next]_vars PROVE HitsInv'
  OBVIOUS
<1> DEFINE Stays == UNCHANGED <<plans, cache>> /\ (run' \in {"plan", "open"} => run \in {"plan", "open"})
<1>1. ASSUME Stays PROVE HitsInv'
  BY <1>1 DEF HitsInv, Key
<1>2. CASE UNCHANGED vars
  BY <1>1, <1>2 DEF vars, planVars, cacheVars
<1>3. CASE CallRun
  BY <1>3, Empty DEF CallRun, HitsInv
<1>4. CASE PlanCached
  <2>1. cache[<<File, disk[File]>>] \in Payloads
    BY <1>4 DEF PlanCached, SourceTypes
  <2> QED
    BY <1>4, <2>1, PlanHits DEF PlanCached, cacheVars
<1>5. CASE PlanUncached
  BY <1>5, PayloadFacts, PlanHits DEF PlanUncached, cacheVars
<1>6. CASE SkipTU \/ OpenPlanned \/ OpenFails \/ WaitForIndex
  BY <1>1, <1>6 DEF SkipTU, OpenPlanned, OpenFails, WaitForIndex, planVars, cacheVars
<1>7. CASE DocumentLink \/ DocumentLinkFails \/ CollectTypedefs
  BY <1>1, <1>7 DEF DocumentLink, DocumentLinkFails, CollectTypedefs, Linking, Return, planVars, cacheVars
<1>8. CASE DispatchCached \/ DispatchUncached \/ SpawnWorker \/ DispatchEnds \/ Join \/ CloseTUs
  BY <1>1, <1>8 DEF DispatchCached, DispatchUncached, SpawnWorker, DispatchEnds, Join, CloseTUs,
                    Dispatching, Return, planVars, cacheVars
<1>9. ASSUME NEW k \in Indexes, Worker(k) PROVE HitsInv'
  <2>1. UNCHANGED <<run, plans>> /\ run \in {"dispatch", "acquire", "join"}
    BY <1>9, WorkerFrame, WorkerRuns
  <2> QED
    BY <2>1 DEF HitsInv, Key
<1>10. CASE ClangdDies \/ Cancel
  BY <1>1, <1>10 DEF ClangdDies, Cancel, planVars, cacheVars
<1>11. ASSUME NEW f \in URIs, EditFile(f) PROVE HitsInv'
  BY <1>1, <1>11 DEF EditFile, planVars
<1> QED
  BY <1>2, <1>3, <1>4, <1>5, <1>6, <1>7, <1>8, <1>9, <1>10, <1>11 DEF Next, Run

\* Every action keeps NoPhantomCancel.
LEMMA PhantomStep ==
  CoverInv /\ NoPhantomCancel /\ [Next]_vars => NoPhantomCancel'
<1> SUFFICES ASSUME CoverInv, NoPhantomCancel, [Next]_vars PROVE NoPhantomCancel'
  OBVIOUS
<1> USE DEF NoPhantomCancel
<1>1. CASE UNCHANGED vars
  BY <1>1 DEF vars, diskVars, cacheVars, planVars, workVars, clangdVars
<1>2. CASE CallRun
  BY <1>2 DEF CallRun
<1>3. CASE SkipTU
  BY <1>3 DEF SkipTU, Planning
<1>4. CASE PlanCached
  BY <1>4 DEF PlanCached, Planning, Plan
<1>5. CASE PlanUncached
  BY <1>5 DEF PlanUncached, Planning, Plan
<1>6. CASE OpenPlanned
  BY <1>6 DEF OpenPlanned, OpenTU
<1>7. CASE OpenFails
  BY <1>7 DEF OpenFails
<1>8. CASE WaitForIndex
  BY <1>8 DEF WaitForIndex
<1>9. CASE DocumentLink
  BY <1>9 DEF DocumentLink, Linking, EnsureOpened, OpenTU
<1>10. CASE DocumentLinkFails
  BY <1>10 DEF DocumentLinkFails, Return
<1>11. CASE CollectTypedefs
  BY <1>11 DEF CollectTypedefs
<1>12. CASE DispatchCached
  BY <1>12 DEF DispatchCached, Dispatching, AddPayload
<1>13. CASE DispatchUncached
  BY <1>13 DEF DispatchUncached, Dispatching, Cancelled
<1>14. CASE SpawnWorker
  BY <1>14 DEF SpawnWorker
<1>15. CASE DispatchEnds
  BY <1>15 DEF DispatchEnds
<1>16. CASE Join
  BY <1>16 DEF Join, Return, CoverInv
<1>17. CASE CloseTUs
  BY <1>17 DEF CloseTUs
<1>18. ASSUME NEW k \in Indexes, Worker(k) PROVE NoPhantomCancel'
  BY <1>18, WorkerFrame
<1>19. CASE ClangdDies
  BY <1>19 DEF ClangdDies
<1>20. CASE Cancel
  BY <1>20 DEF Cancel
<1>21. ASSUME NEW f \in URIs, EditFile(f) PROVE NoPhantomCancel'
  BY <1>21 DEF EditFile
<1> QED
  BY <1>1, <1>2, <1>3, <1>4, <1>5, <1>6, <1>7, <1>8, <1>9, <1>10, <1>11, <1>12,
     <1>13, <1>14, <1>15, <1>16, <1>17, <1>18, <1>19, <1>20, <1>21
     DEF Next, Run, Worker

-----------------------------------------------------------------------------
(* As long as nothing goes wrong                                           *)

\* What went wrong stays.
LEMMA TroubledStays == troubled \in BOOLEAN /\ [Next]_vars => (troubled => troubled')
<1> SUFFICES ASSUME troubled, [Next]_vars PROVE troubled'
  OBVIOUS
<1>1. CASE UNCHANGED vars
  BY <1>1 DEF vars
<1>2. CASE CallRun
  BY <1>2 DEF CallRun
<1>3. CASE Run
  BY <1>3 DEF Run, SkipTU, PlanCached, PlanUncached, OpenPlanned, OpenFails, WaitForIndex, DocumentLink,
              DocumentLinkFails, CollectTypedefs, DispatchCached, DispatchUncached, SpawnWorker,
              DispatchEnds, Join, CloseTUs
<1>4. ASSUME NEW k \in Indexes, Worker(k) PROVE troubled'
  BY <1>4 DEF Worker, DocumentSymbolFails, RequestFails
<1>5. ASSUME NEW f \in URIs, EditFile(f) PROVE troubled'
  BY <1>5 DEF EditFile
<1>6. CASE ClangdDies \/ Cancel
  BY <1>6 DEF ClangdDies, Cancel
<1> QED
  BY <1>1, <1>2, <1>3, <1>4, <1>5, <1>6 DEF Next

\* The payload of a worker that has asked for everything is whole.
LEMMA KnowsWhole ==
    ASSUME SourceTypes, NEW k, Knows(k), worker[k] \in {"put", "add"}
    PROVE  Whole(facts[k], Key(k), disk[Header]) /\ disk[Header] \in Contents
<1>1. Key(k)[1] = plans[k].file /\ Key(k)[2] = plans[k].digest
  BY DEF Key
<1>2. /\ Has(k, "ast") /\ Has(k, "source") /\ Has(k, "symbols")
      /\ disk[Header] # 0 => Has(k, "calls") /\ (plans[k].file \in Linked => Has(k, "types"))
      /\ \A fact \in facts[k] : fact.of = Origin(k, fact.what)
  BY DEF Knows, PastAST
<1>3. disk[Header] \in Contents
  BY EntryFacts DEF SourceTypes
<1> QED
  BY <1>1, <1>2, <1>3 DEF Whole, Needed, Has, Origin, OwnKinds, HeaderKinds

\* A worker knows what it knew while nobody touches what it has.
LEMMA KnowsStays ==
    ASSUME NEW j, Knows(j), worker'[j] = worker[j], facts'[j] = facts[j],
           worker[j] \notin {"none", "done"} =>
               /\ plans'[j] = plans[j] /\ openedSet \subseteq openedSet'
               /\ disk' = disk /\ (worker[j] = "add" => (Key(j) \in outdated' => Key(j) \in outdated))
    PROVE  Knows(j)'
BY DEF Knows, Has, Origin, PastAST, Key

\* What clangd has of a TU whose worker asks about it is what its plan is for,
\* and what it has of the header is its content.
LEMMA QuietLearnt ==
    ASSUME QuietRun, RunTypes, WorkerInv, NEW k \in Indexes, worker[k] \notin {"none", "done"},
           NEW w, w \in HeaderKinds => Header \in openedSet
    PROVE  Learnt(k, w) = Fact(w, Origin(k, w)) /\ disk[plans[k].file] = plans[k].digest
<1>1. run \in {"dispatch", "acquire", "join"} /\ Running /\ k \in DOMAIN plans /\ ~plans[k].hit
  BY WorkerFacts
<1>2. Planned(k) /\ (Header \in openedSet => text[Header] = disk[Header])
  BY <1>1 DEF QuietRun
<1> QED
  BY <1>1, <1>2 DEF Planned, Learnt, Origin

\* A step of one worker under which nothing goes wrong leaves clangd and firstErr alone, and
\* opens no more than the header, as it is.
LEMMA QuietWorker ==
    ASSUME OpenTypes, WorkerInv, QuietRun, ~troubled', NEW k \in Indexes, Worker(k)
    PROVE  /\ UNCHANGED <<firstErr, clangd>> /\ openedSet \subseteq openedSet'
           /\ \A f \in Files : text'[f] = text[f]
           /\ Header \in openedSet' => text'[Header] = disk[Header] /\ disk[Header] # 0
           /\ \A i \in DOMAIN openedURIs : i \in DOMAIN openedURIs' /\ openedURIs'[i] = openedURIs[i]
<1>1. worker[k] \notin {"none", "done"} /\ ~DocumentSymbolFails(k) /\ ~RequestFails(k)
  BY DEF Worker, WorkerStarts, DocumentSymbol, DocumentSymbolFails, FetchAST, SymbolUSR, OutgoingCalls,
         CalleeUSR, OpenCallee, RetryCallee, RequestFails, Put, Merge
<1>2. Header \in openedSet => text[Header] = disk[Header] /\ disk[Header] # 0
  BY <1>1, WorkerFacts DEF QuietRun
<1>3. CASE OpenCallee(k)
  <2>1. CASE UNCHANGED <<openedSet, openedURIs, clangdVars>>
    BY <1>2, <1>3, <2>1 DEF OpenCallee, clangdVars
  <2>2. CASE /\ openedSet' = openedSet \cup {Header} /\ openedURIs' = Append(openedURIs, Header)
             /\ OpenTU(Header) /\ disk[Header] # 0
    BY <1>3, <2>2, OpenFacts, EntryFacts DEF OpenCallee, OpenTU, OpenTypes
  <2> QED
    BY <1>3, <2>1, <2>2 DEF OpenCallee, EnsureOpened
<1>4. CASE ~OpenCallee(k)
  BY <1>1, <1>2, <1>4 DEF Worker, WorkerStarts, DocumentSymbol, FetchAST, SymbolUSR, OutgoingCalls,
         CalleeUSR, RetryCallee, Put, Merge, planVars, clangdVars
<1> QED
  BY <1>3, <1>4

\* A step of one worker keeps QuietFacts if that worker knows what it should.
LEMMA KnowsStep ==
    ASSUME QuietFacts, NEW k \in Indexes, UNCHANGED <<plans, agg, run, disk, outdated>>,
           openedSet \subseteq openedSet',
           \A j \in Indexes : j # k => worker'[j] = worker[j] /\ facts'[j] = facts[j], Knows(k)'
    PROVE  QuietFacts'
<1>1. \A j \in Indexes : Knows(j)'
  BY KnowsStays DEF QuietFacts
<1> QED
  BY <1>1 DEF QuietFacts, Matches, Key, Running

\* Every action keeps CacheMatchesKey: only whole payloads are cached.
LEMMA CacheStep ==
  SourceTypes /\ CacheMatchesKey /\ QuietInv /\ [Next]_vars => CacheMatchesKey'
<1> SUFFICES ASSUME SourceTypes, CacheMatchesKey, QuietInv, [Next]_vars PROVE CacheMatchesKey'
  OBVIOUS
<1> USE DEF CacheMatchesKey, Matches
<1> USE DEF Aside
<1>1. CASE UNCHANGED vars
  BY <1>1 DEF vars, diskVars, cacheVars, planVars, workVars, clangdVars
<1>2. CASE CallRun
  BY <1>2 DEF CallRun, diskVars, cacheVars
<1>3. CASE SkipTU
  BY <1>3 DEF SkipTU, diskVars, cacheVars
<1>4. CASE PlanCached
  BY <1>4 DEF PlanCached, diskVars, cacheVars
<1>5. CASE PlanUncached
  BY <1>5 DEF PlanUncached, diskVars, cacheVars
<1>6. CASE OpenPlanned
  BY <1>6 DEF OpenPlanned, diskVars, cacheVars
<1>7. CASE OpenFails
  BY <1>7 DEF OpenFails, diskVars, cacheVars
<1>8. CASE WaitForIndex
  BY <1>8 DEF WaitForIndex, diskVars, cacheVars
<1>9. CASE DocumentLink
  BY <1>9 DEF DocumentLink, diskVars, cacheVars
<1>10. CASE DocumentLinkFails
  BY <1>10 DEF DocumentLinkFails, diskVars, cacheVars
<1>11. CASE CollectTypedefs
  BY <1>11 DEF CollectTypedefs, diskVars, cacheVars
<1>12. CASE DispatchCached
  BY <1>12 DEF DispatchCached, diskVars, cacheVars
<1>13. CASE DispatchUncached
  BY <1>13 DEF DispatchUncached, diskVars, cacheVars
<1>14. CASE SpawnWorker
  BY <1>14 DEF SpawnWorker, diskVars, cacheVars
<1>15. CASE DispatchEnds
  BY <1>15 DEF DispatchEnds, diskVars, cacheVars
<1>16. CASE Join
  BY <1>16 DEF Join, diskVars, cacheVars
<1>17. CASE CloseTUs
  BY <1>17 DEF CloseTUs, diskVars, cacheVars
<1>18. ASSUME NEW k \in Indexes, WorkerStarts(k), Aside, UNCHANGED troubled PROVE CacheMatchesKey'
  BY <1>18 DEF WorkerStarts, diskVars, cacheVars
<1>19. ASSUME NEW k \in Indexes, DocumentSymbol(k), Aside, UNCHANGED troubled PROVE CacheMatchesKey'
  BY <1>19 DEF DocumentSymbol, diskVars, cacheVars
<1>20. ASSUME NEW k \in Indexes, DocumentSymbolFails(k), Aside PROVE CacheMatchesKey'
  BY <1>20 DEF DocumentSymbolFails, diskVars, cacheVars
<1>21. ASSUME NEW k \in Indexes, FetchAST(k), Aside, UNCHANGED troubled PROVE CacheMatchesKey'
  BY <1>21 DEF FetchAST, diskVars, cacheVars
<1>22. ASSUME NEW k \in Indexes, SymbolUSR(k), Aside, UNCHANGED troubled PROVE CacheMatchesKey'
  BY <1>22 DEF SymbolUSR, diskVars, cacheVars
<1>23. ASSUME NEW k \in Indexes, OutgoingCalls(k), Aside, UNCHANGED troubled PROVE CacheMatchesKey'
  BY <1>23 DEF OutgoingCalls, diskVars, cacheVars
<1>24. ASSUME NEW k \in Indexes, CalleeUSR(k), Aside, UNCHANGED troubled PROVE CacheMatchesKey'
  BY <1>24 DEF CalleeUSR, diskVars, cacheVars
<1>25. ASSUME NEW k \in Indexes, OpenCallee(k), Aside, UNCHANGED troubled PROVE CacheMatchesKey'
  BY <1>25 DEF OpenCallee, diskVars, cacheVars
<1>26. ASSUME NEW k \in Indexes, RetryCallee(k), Aside, UNCHANGED troubled PROVE CacheMatchesKey'
  BY <1>26 DEF RetryCallee, diskVars, cacheVars
<1>27. ASSUME NEW k \in Indexes, RequestFails(k), Aside PROVE CacheMatchesKey'
  BY <1>27 DEF RequestFails, diskVars, cacheVars
<1>28. ASSUME NEW k \in Indexes, Put(k), Aside, UNCHANGED troubled PROVE CacheMatchesKey'
  <2>1. CASE troubled
    BY <1>28, <2>1
  <2>2. CASE ~troubled
    <3>1. Whole(facts[k], Key(k), disk[Header]) /\ disk[Header] \in Contents
      BY <1>28, <2>2, KnowsWhole DEF Put, QuietInv, QuietFacts
    <3>2. /\ cache' = [j \in DOMAIN cache \cup {Key(k)} |-> IF j = Key(k) THEN facts[k] ELSE cache[j]]
          /\ outdated' = outdated \ {Key(k)} /\ disk' = disk
      BY <1>28 DEF Put, Key, diskVars
    <3>3. \A j \in DOMAIN cache : Matches(cache[j], j)
      BY <2>2
    <3>4. ASSUME NEW j \in DOMAIN cache' PROVE Matches(cache[j], j)'
      <4>1. CASE j = Key(k)
        BY <3>1, <3>2, <4>1
      <4>2. CASE j # Key(k)
        BY <3>2, <3>3, <4>2
      <4> QED
        BY <4>1, <4>2
    <3> QED
      BY <3>4
  <2> QED
    BY <2>1, <2>2
<1>29. ASSUME NEW k \in Indexes, Merge(k), Aside, UNCHANGED troubled PROVE CacheMatchesKey'
  BY <1>29 DEF Merge, diskVars, cacheVars
<1>30. CASE ClangdDies
  BY <1>30 DEF ClangdDies
<1>31. CASE Cancel
  BY <1>31 DEF Cancel
<1>32. ASSUME NEW f \in URIs, EditFile(f) PROVE CacheMatchesKey'
  <2>1. CASE f = Header
    BY <1>32, <2>1 DEF EditFile, SourceTypes
  <2>2. CASE f # Header
    <3>1. /\ UNCHANGED <<cache, outdated>> /\ (troubled => troubled')
          /\ disk'[Header] = disk[Header]
      BY <1>32, <2>2, EntryFacts DEF EditFile, SourceTypes
    <3> QED
      BY <3>1
  <2> QED
    BY <2>1, <2>2
<1> QED
  BY <1>1, <1>2, <1>3, <1>4, <1>5, <1>6, <1>7, <1>8, <1>9, <1>10, <1>11, <1>12,
     <1>13, <1>14, <1>15, <1>16, <1>17, <1>18, <1>19, <1>20, <1>21, <1>22, <1>23,
     <1>24, <1>25, <1>26, <1>27, <1>28, <1>29, <1>30, <1>31, <1>32
     DEF Next, Run, Worker, Aside

\* Every action keeps QuietRun, as long as nothing goes wrong.
LEMMA QuietRunStep ==
  SourceTypes /\ RunTypes /\ OpenTypes /\ PlanInv /\ OpensInv /\ WorkerInv /\ QuietRun /\ [Next]_vars => (troubled \/ QuietRun)'
<1> SUFFICES ASSUME SourceTypes, RunTypes, OpenTypes, PlanInv, OpensInv, WorkerInv, QuietRun, [Next]_vars PROVE (troubled \/ QuietRun)'
  OBVIOUS
<1> USE EntryFacts DEF QuietRun
<1>1. CASE UNCHANGED vars
  BY <1>1 DEF vars, diskVars, cacheVars, planVars, workVars, clangdVars, Planned, Running
<1>2. CASE CallRun
  BY <1>2, Empty DEF CallRun
<1>3. CASE SkipTU
  BY <1>3 DEF SkipTU, Planning, Planned, Running, diskVars, cacheVars, planVars, workVars, clangdVars
<1>4. CASE PlanCached
  <2>1. /\ cache[<<File, disk[File]>>] \in Payloads /\ disk[File] # 0 /\ Plan(disk[File], TRUE, cache[<<File, disk[File]>>])
        /\ run = "plan" /\ run' = "plan" /\ Planning
        /\ UNCHANGED <<disk, openedURIs, openedSet, links, text, firstErr, clangd, ctxDone>>
    BY <1>4, PayloadFacts DEF PlanCached, SourceTypes, Planning, diskVars, cacheVars, clangdVars, workVars
  <2>2. PICK n \in Nat : n = Len(plans) + 1
    BY PlanIndexes
  <2>3. /\ DOMAIN plans = 1 .. Len(plans) /\ DOMAIN plans' = 1 .. n /\ Len(plans) \in Nat
        /\ Len(plans') = n /\ \A i \in DOMAIN plans : plans'[i] = plans[i]
        /\ plans'[n].file = File /\ plans'[n].digest = disk[File] /\ plans'[n].hit = TRUE
    BY <2>1, <2>2, PlanFacts
  <2>4. \A i \in DOMAIN plans : Planned(i)'
    BY <2>1, <2>2, <2>3 DEF Running, Planned
  <2>5. Planned(n)'
    BY <2>1, <2>2, <2>3 DEF Planned
  <2>6. \A i \in DOMAIN plans' : Planned(i)'
    BY <2>2, <2>3, <2>4, <2>5
  <2> QED
    BY <2>1, <2>6 DEF Running
<1>5. CASE PlanUncached
  <2>1. /\ {} \in Payloads /\ disk[File] # 0 /\ Plan(disk[File], FALSE, {})
        /\ run = "plan" /\ run' = "open" /\ Planning
        /\ UNCHANGED <<disk, openedURIs, openedSet, links, text, firstErr, clangd, ctxDone>>
    BY <1>5, PayloadFacts DEF PlanUncached, SourceTypes, Planning, diskVars, cacheVars, clangdVars, workVars
  <2>2. PICK n \in Nat : n = Len(plans) + 1
    BY PlanIndexes
  <2>3. /\ DOMAIN plans = 1 .. Len(plans) /\ DOMAIN plans' = 1 .. n /\ Len(plans) \in Nat
        /\ Len(plans') = n /\ \A i \in DOMAIN plans : plans'[i] = plans[i]
        /\ plans'[n].file = File /\ plans'[n].digest = disk[File] /\ plans'[n].hit = FALSE
    BY <2>1, <2>2, PlanFacts
  <2>4. \A i \in DOMAIN plans : Planned(i)'
    BY <2>1, <2>2, <2>3 DEF Running, Planned
  <2>5. Planned(n)'
    BY <2>1, <2>2, <2>3 DEF Planned
  <2>6. \A i \in DOMAIN plans' : Planned(i)'
    BY <2>2, <2>3, <2>4, <2>5
  <2> QED
    BY <2>1, <2>6 DEF Running
<1>6. CASE OpenPlanned
  <2>1. PICK u \in Files : u = File
    BY <1>6 DEF OpenPlanned, PlanInv, File, RunTypes
  <2>2. /\ run = "open" /\ run' = "plan" /\ openedURIs' = Append(openedURIs, u)
        /\ text' = [text EXCEPT ![u] = disk[u]] /\ plans[Len(plans)].file = u
        /\ UNCHANGED <<disk, plans, firstErr, clangd, ctxDone>> /\ openedSet' = {}
    BY <1>6, <2>1 DEF OpenPlanned, OpenTU, PlanInv, OpensInv, diskVars, cacheVars, workVars
  <2>3. /\ Len(openedURIs) \in Nat /\ DOMAIN openedURIs' = 1 .. Len(openedURIs) + 1
        /\ DOMAIN openedURIs = 1 .. Len(openedURIs)
        /\ \A i \in DOMAIN openedURIs : openedURIs'[i] = openedURIs[i]
        /\ openedURIs'[Len(openedURIs) + 1] = u
    BY <2>2, OpenFacts DEF OpenTypes
  <2>4. ASSUME NEW k \in DOMAIN plans PROVE Planned(k)'
    <3>1. Planned(k) /\ plans[k].file \in Files
      BY <2>2, PlanTypes DEF Running
    <3>2. k \in 1 .. Len(plans) /\ Len(plans) \in Nat
      BY PlanTypes
    <3>3. text'[plans[k].file] = disk[plans[k].file] \/ (plans[k].file # u /\ text'[plans[k].file] = text[plans[k].file])
      BY <2>2, <3>1 DEF OpenTypes
    <3>4. CASE k = Len(plans)
      BY <2>2, <2>3, <3>1, <3>3, <3>4 DEF Planned
    <3>5. CASE k < Len(plans)
      BY <2>2, <2>3, <3>1, <3>3, <3>5 DEF Planned
    <3> QED
      BY <3>2, <3>4, <3>5
  <2> QED
    BY <2>2, <2>4 DEF Running
<1>7. CASE OpenFails
  BY <1>7 DEF OpenFails, workVars, Running
<1>8. CASE WaitForIndex
  <2>1. /\ run = "plan" /\ run' = "links" /\ links' = Len(openedURIs) /\ next' = 1
        /\ UNCHANGED <<disk, plans, openedURIs, text, firstErr, clangd, ctxDone>>
        /\ Header \notin openedSet'
    BY <1>8 DEF WaitForIndex, workVars, clangdVars, diskVars, OpensInv, Opened
  <2>2. settled' \/ troubled'
    BY <1>8 DEF WaitForIndex
  <2>3. \A i \in DOMAIN openedURIs : i <= links'
    BY <2>1 DEF OpenTypes
  <2>4. \A k \in DOMAIN plans : Planned(k)'
    BY <2>1, <2>3 DEF Running, Planned
  <2>5. 1 .. next' - 1 = {}
    BY <2>1
  <2> QED
    BY <2>1, <2>2, <2>4, <2>5 DEF Running
<1>9. CASE DocumentLink
  <2>1. /\ run = "links" /\ run' = "links" /\ clangd = "up" /\ next' = next + 1 /\ next <= links
        /\ UNCHANGED <<disk, plans, links, settled, firstErr, ctxDone>>
    BY <1>9 DEF DocumentLink, Linking, diskVars, cacheVars, workVars
  <2>2. /\ clangd' = clangd /\ openedSet \subseteq openedSet' /\ (\A f \in Files : text'[f] = text[f])
        /\ Header \in openedSet' => text'[Header] = disk[Header] /\ disk[Header] # 0
        /\ \A i \in DOMAIN openedURIs : i \in DOMAIN openedURIs' /\ openedURIs'[i] = openedURIs[i]
    <3>1. Header \in openedSet => text[Header] = disk[Header] /\ disk[Header] # 0
      BY <2>1 DEF Running
    <3>2. CASE UNCHANGED <<openedSet, openedURIs, clangdVars>>
      BY <3>1, <3>2 DEF clangdVars
    <3>3. CASE /\ openedSet' = openedSet \cup {Header} /\ openedURIs' = Append(openedURIs, Header)
               /\ OpenTU(Header) /\ disk[Header] # 0
      BY <3>3, OpenFacts DEF OpenTU, OpenTypes
    <3> QED
      BY <1>9, <3>2, <3>3 DEF DocumentLink, EnsureOpened
  <2>3. \A k \in DOMAIN plans : Planned(k)'
    BY <2>1, <2>2, PlanTypes DEF Running, Planned
  <2>4. disk[Header] # 0 /\ openedURIs[next] \in Linked => Header \in openedSet'
    BY <1>9 DEF DocumentLink, EnsureOpened
  <2>5. next \in Nat \ {0} /\ links \in Nat /\ \A i \in 1 .. links : i \in DOMAIN openedURIs
    BY DEF RunTypes, OpenTypes
  <2>6. \A i \in 1 .. next' - 1 : i \in DOMAIN openedURIs /\ (i = next \/ i \in 1 .. next - 1)
    BY <2>1, <2>5
  <2>7. disk[Header] # 0 => \A i \in 1 .. next' - 1 : openedURIs'[i] \in Linked => Header \in openedSet'
    BY <2>1, <2>2, <2>4, <2>6
  <2> QED
    BY <2>1, <2>2, <2>3, <2>7 DEF Running
<1>10. CASE DocumentLinkFails
  BY <1>10 DEF DocumentLinkFails
<1>11. CASE CollectTypedefs
  <2>1. /\ run = "links" /\ run' = "dispatch" /\ next > links
        /\ UNCHANGED <<disk, plans, openedURIs, openedSet, links, settled, firstErr, ctxDone, clangd, text>>
    BY <1>11 DEF CollectTypedefs, diskVars, workVars, clangdVars
  <2>2. troubled' \/ typed' = (Header \in openedSet)
    BY <1>11 DEF CollectTypedefs
  <2>3. \A k \in DOMAIN plans : Planned(k) /\ Planned(k)'
    BY <2>1 DEF Running, Planned
  <2>4. ASSUME disk[Header] # 0, NEW k \in DOMAIN plans, ~plans[k].hit, plans[k].file \in Linked
        PROVE  Header \in openedSet
    <3>1. PICK i \in DOMAIN openedURIs : openedURIs[i] = plans[k].file /\ i <= links
      BY <2>1, <2>3, <2>4 DEF Planned
    <3>2. i \in 1 .. next - 1
      BY <2>1, <3>1 DEF RunTypes, OpenTypes
    <3> QED
      BY <2>1, <2>4, <3>1, <3>2
  <2> QED
    BY <2>1, <2>2, <2>3, <2>4 DEF Running
<1>12. CASE DispatchCached
  BY <1>12 DEF DispatchCached, Dispatching, AddPayload, Planned, Running, diskVars, cacheVars, planVars, workVars, clangdVars
<1>13. CASE DispatchUncached
  BY <1>13 DEF DispatchUncached, Dispatching, Cancelled, Planned, Running, diskVars, cacheVars, planVars, workVars, clangdVars
<1>14. CASE SpawnWorker
  BY <1>14 DEF SpawnWorker, Planned, Running, diskVars, cacheVars, planVars, workVars, clangdVars
<1>15. CASE DispatchEnds
  BY <1>15 DEF DispatchEnds, Planned, Running, diskVars, cacheVars, planVars, workVars, clangdVars
<1>16. CASE Join
  BY <1>16 DEF Join, Return, Planned, Running, diskVars, cacheVars, planVars, workVars, clangdVars
<1>17. CASE CloseTUs
  BY <1>17 DEF CloseTUs, workVars, Running
<1>18. ASSUME NEW k \in Indexes, Worker(k) PROVE (troubled \/ QuietRun)'
  <2> SUFFICES ASSUME ~troubled' PROVE QuietRun'
    OBVIOUS
  <2>1. run \in {"dispatch", "acquire", "join"} /\ Running
    BY <1>18, WorkerRuns
  <2>2. /\ UNCHANGED <<disk, run, ctxDone, plans, links, settled, typed, firstErr, clangd>>
        /\ openedSet \subseteq openedSet' /\ (\A f \in Files : text'[f] = text[f])
        /\ Header \in openedSet' => text'[Header] = disk[Header] /\ disk[Header] # 0
        /\ \A i \in DOMAIN openedURIs : i \in DOMAIN openedURIs' /\ openedURIs'[i] = openedURIs[i]
    BY <1>18, WorkerFrame, QuietWorker
  <2>3. \A j \in DOMAIN plans : Planned(j)'
    BY <2>1, <2>2, PlanTypes DEF Planned
  <2> QED
    BY <2>1, <2>2, <2>3 DEF Running
<1>19. CASE ClangdDies
  BY <1>19 DEF ClangdDies
<1>20. CASE Cancel
  BY <1>20 DEF Cancel
<1>21. ASSUME NEW f \in URIs, EditFile(f) PROVE (troubled \/ QuietRun)'
  <2>1. CASE Running
    BY <1>21, <2>1 DEF EditFile
  <2>2. CASE ~Running
    BY <1>21, <2>2 DEF EditFile, Running, planVars, workVars
  <2> QED
    BY <2>1, <2>2
<1> QED
  BY <1>1, <1>2, <1>3, <1>4, <1>5, <1>6, <1>7, <1>8, <1>9, <1>10, <1>11, <1>12,
     <1>13, <1>14, <1>15, <1>16, <1>17, <1>18, <1>19, <1>20, <1>21
     DEF Next, Run, Worker

\* A step that leaves the payloads, the workers and the header alone keeps QuietFacts.
LEMMA FactsStay ==
    ASSUME QuietFacts, UNCHANGED <<plans, agg, worker, facts, disk, outdated>>,
           openedSet \subseteq openedSet', Running' => Running
    PROVE  QuietFacts'
<1>1. \A k \in Indexes : Knows(k)'
  BY KnowsStays DEF QuietFacts, Key
<1> QED
  BY <1>1 DEF QuietFacts, Matches, Key

\* A fact asked for while nothing goes wrong is of the content it should be of.
LEMMA QuietLearn ==
    ASSUME QuietRun, RunTypes, WorkerInv, WorkTypes, NEW k \in Indexes, worker[k] \notin {"none", "done"},
           NEW w, w \in HeaderKinds => Header \in openedSet, Learn(k, w), UNCHANGED <<plans, disk>>,
           \A fact \in facts[k] : fact.of = Origin(k, fact.what)
    PROVE  /\ Has(k, w)' /\ \A x : Has(k, x) => Has(k, x)'
           /\ \A fact \in facts'[k] : fact.of = Origin(k, fact.what)'
           /\ \A j \in Indexes : j # k => facts'[j] = facts[j]
<1>1. Learnt(k, w) = Fact(w, Origin(k, w))
  BY QuietLearnt
<1>2. /\ facts'[k] = facts[k] \cup {Fact(w, Origin(k, w))}
      /\ \A j \in Indexes : j # k => facts'[j] = facts[j]
  BY <1>1 DEF Learn, WorkTypes
<1> QED
  BY <1>2 DEF Has, Fact, Origin

\* Every action keeps QuietFacts, as long as nothing goes wrong.
LEMMA QuietFactsStep ==
  SourceTypes /\ RunTypes /\ OpenTypes /\ WorkTypes /\ PlanInv /\ OpensInv /\ WorkerInv /\ HitsInv /\ CacheMatchesKey /\ QuietRun /\ QuietFacts /\ ~troubled /\ [Next]_vars => (troubled \/ QuietFacts)'
<1> SUFFICES ASSUME SourceTypes, RunTypes, OpenTypes, WorkTypes, PlanInv, OpensInv, WorkerInv, HitsInv, CacheMatchesKey, QuietRun, QuietFacts, ~troubled, [Next]_vars PROVE (troubled \/ QuietFacts)'
  OBVIOUS
<1> USE EntryFacts
<1> USE DEF Aside
<1>1. CASE UNCHANGED vars
  BY <1>1, FactsStay DEF vars, planVars, workVars, diskVars, cacheVars, Running
<1>2. CASE CallRun
  <2>1. /\ plans' = <<>> /\ agg' = <<>> /\ \A k \in Indexes : worker'[k] = "none" /\ facts'[k] = {}
    BY <1>2 DEF CallRun
  <2>2. \A k \in Indexes : Knows(k)'
    BY <2>1 DEF Knows, PastAST
  <2> QED
    BY <2>1, <2>2, Empty DEF QuietFacts
<1>3. CASE SkipTU
  BY <1>3, FactsStay DEF SkipTU, planVars, workVars, diskVars, cacheVars, Running
<1>4. CASE PlanCached
  <2>1. /\ cache[<<File, disk[File]>>] \in Payloads /\ disk[File] # 0 /\ Plan(disk[File], TRUE, cache[<<File, disk[File]>>])
        /\ Planning /\ UNCHANGED <<agg, worker, facts, disk, outdated>>
    BY <1>4, PayloadFacts DEF PlanCached, SourceTypes, workVars, diskVars, cacheVars
  <2>2. DOMAIN agg = {} /\ \A k \in Indexes : worker[k] = "none"
    BY <2>1 DEF WorkerInv, Planning
  <2>3. PICK n \in Nat : n = Len(plans) + 1
    BY PlanIndexes
  <2>4. /\ DOMAIN plans = 1 .. Len(plans) /\ DOMAIN plans' = 1 .. n /\ Len(plans) \in Nat
        /\ \A i \in DOMAIN plans : plans'[i] = plans[i]
        /\ plans'[n].file = File /\ plans'[n].digest = disk[File] /\ plans'[n].hit = TRUE
        /\ plans'[n].payload = cache[<<File, disk[File]>>]
    BY <2>1, <2>3, PlanFacts
  <2>5. \A i \in DOMAIN plans : (plans[i].hit => Matches(plans[i].payload, Key(i)))'
    BY <2>1, <2>4 DEF QuietFacts, Matches, Key
  <2>6. (plans[n].hit => Matches(plans[n].payload, Key(n)))'
    BY <1>4, <2>1, <2>4 DEF PlanCached, CacheMatchesKey, Matches, Key
  <2>7. \A i \in DOMAIN plans' : (plans[i].hit => Matches(plans[i].payload, Key(i)))'
    BY <2>3, <2>4, <2>5, <2>6
  <2>8. \A k \in Indexes : Knows(k)'
    BY <2>1, <2>2, KnowsStays DEF QuietFacts
  <2> QED
    BY <2>1, <2>2, <2>7, <2>8 DEF QuietFacts
<1>5. CASE PlanUncached
  <2>1. /\ {} \in Payloads /\ disk[File] # 0 /\ Plan(disk[File], FALSE, {})
        /\ Planning /\ UNCHANGED <<agg, worker, facts, disk, outdated>>
    BY <1>5, PayloadFacts DEF PlanUncached, SourceTypes, workVars, diskVars, cacheVars
  <2>2. DOMAIN agg = {} /\ \A k \in Indexes : worker[k] = "none"
    BY <2>1 DEF WorkerInv, Planning
  <2>3. PICK n \in Nat : n = Len(plans) + 1
    BY PlanIndexes
  <2>4. /\ DOMAIN plans = 1 .. Len(plans) /\ DOMAIN plans' = 1 .. n /\ Len(plans) \in Nat
        /\ \A i \in DOMAIN plans : plans'[i] = plans[i]
        /\ plans'[n].file = File /\ plans'[n].digest = disk[File] /\ plans'[n].hit = FALSE
        /\ plans'[n].payload = {}
    BY <2>1, <2>3, PlanFacts
  <2>5. \A i \in DOMAIN plans : (plans[i].hit => Matches(plans[i].payload, Key(i)))'
    BY <2>1, <2>4 DEF QuietFacts, Matches, Key
  <2>6. (plans[n].hit => Matches(plans[n].payload, Key(n)))'
    BY <2>4
  <2>7. \A i \in DOMAIN plans' : (plans[i].hit => Matches(plans[i].payload, Key(i)))'
    BY <2>3, <2>4, <2>5, <2>6
  <2>8. \A k \in Indexes : Knows(k)'
    BY <2>1, <2>2, KnowsStays DEF QuietFacts
  <2> QED
    BY <2>1, <2>2, <2>7, <2>8 DEF QuietFacts
<1>6. CASE OpenPlanned
  BY <1>6, FactsStay DEF OpenPlanned, planVars, workVars, diskVars, cacheVars, Running
<1>7. CASE OpenFails
  BY <1>7, FactsStay DEF OpenFails, planVars, workVars, diskVars, cacheVars, Running
<1>8. CASE WaitForIndex
  <2>1. UNCHANGED <<plans, agg, worker, facts, disk, outdated>> /\ openedSet = {} /\ Running
    BY <1>8 DEF WaitForIndex, workVars, diskVars, cacheVars, OpensInv, Running
  <2> QED
    BY <2>1, FactsStay
<1>9. CASE DocumentLink
  BY <1>9, FactsStay DEF DocumentLink, EnsureOpened, planVars, workVars, diskVars, cacheVars, Running
<1>10. CASE DocumentLinkFails
  BY <1>10 DEF DocumentLinkFails
<1>11. CASE CollectTypedefs
  BY <1>11, FactsStay DEF CollectTypedefs, planVars, workVars, diskVars, cacheVars, Running
<1>12. CASE DispatchCached
  <2>1. /\ next \in DOMAIN plans /\ plans[next].hit
        /\ UNCHANGED <<plans, worker, facts, openedSet, disk, outdated, run>>
        /\ agg' = [j \in DOMAIN agg \cup {next} |-> IF j = next THEN plans[next].payload ELSE agg[j]]
    BY <1>12, PlanIndexes DEF DispatchCached, Dispatching, AddPayload, planVars, RunTypes, diskVars, cacheVars
  <2>2. ASSUME NEW k \in DOMAIN agg'
        PROVE  (Matches(agg[k], Key(k)) /\ (Running /\ ~plans[k].hit => Key(k) \notin outdated))'
    <3>1. CASE k = next
      BY <2>1, <3>1 DEF QuietFacts, Matches, Key
    <3>2. CASE k # next
      BY <2>1, <3>2 DEF QuietFacts, Matches, Key, Running
    <3> QED
      BY <3>1, <3>2
  <2>3. \A k \in Indexes : Knows(k)'
    BY <2>1, KnowsStays DEF QuietFacts, Key
  <2>4. \A k \in DOMAIN plans' : (plans[k].hit => Matches(plans[k].payload, Key(k)))'
    BY <2>1 DEF QuietFacts, Matches, Key
  <2> QED
    BY <2>2, <2>3, <2>4 DEF QuietFacts
<1>13. CASE DispatchUncached
  BY <1>13, FactsStay DEF DispatchUncached, Dispatching, planVars, workVars, diskVars, cacheVars, Running
<1>14. CASE SpawnWorker
  <2>1. next \in Indexes /\ worker[next] = "none"
    BY <1>14, PlanIndexes DEF SpawnWorker, PlanInv, WorkerInv
  <2>2. /\ UNCHANGED <<plans, agg, facts, openedSet, disk, outdated>> /\ worker'[next] = "start"
        /\ \A j \in Indexes : j # next => worker'[j] = worker[j]
    BY <1>14, <2>1 DEF SpawnWorker, planVars, WorkTypes, diskVars, cacheVars
  <2>3. ASSUME NEW k \in Indexes PROVE Knows(k)'
    <3>1. CASE k = next
      BY <2>2, <3>1 DEF Knows, PastAST
    <3>2. CASE k # next
      BY <2>2, <3>2, KnowsStays DEF QuietFacts, Key
    <3> QED
      BY <3>1, <3>2
  <2>4. Running
    BY <1>14 DEF SpawnWorker, Running
  <2> QED
    BY <2>2, <2>3, <2>4 DEF QuietFacts, Matches, Key
<1>15. CASE DispatchEnds
  BY <1>15, FactsStay DEF DispatchEnds, planVars, workVars, diskVars, cacheVars, Running
<1>16. CASE Join
  BY <1>16, FactsStay DEF Join, Return, planVars, workVars, diskVars, cacheVars, Running
<1>17. CASE CloseTUs
  BY <1>17, FactsStay DEF CloseTUs, planVars, workVars, diskVars, cacheVars, Running
<1>18. ASSUME NEW k \in Indexes, WorkerStarts(k), Aside, UNCHANGED troubled PROVE (troubled \/ QuietFacts)'
  <2>1. /\ worker[k] = "start" /\ UNCHANGED <<plans, agg, run, disk, outdated>> /\ openedSet \subseteq openedSet'
        /\ \A j \in Indexes : j # k => worker'[j] = worker[j]
    BY <1>18 DEF WorkerStarts, Goto, planVars, diskVars, cacheVars, EnsureOpened
  <2>2. Knows(k) /\ \A j \in Indexes : j # k => facts'[j] = facts[j]
    BY <1>18 DEF WorkerStarts, QuietFacts, Learn
  <2>3. Knows(k)'
    BY <1>18, <2>1, <2>2 DEF WorkerStarts, Goto, Knows, Has, Origin, Key, PastAST, WorkTypes
  <2> QED
    BY <2>1, <2>2, <2>3, KnowsStep
<1>19. ASSUME NEW k \in Indexes, DocumentSymbol(k), Aside, UNCHANGED troubled PROVE (troubled \/ QuietFacts)'
  <2>1. /\ worker[k] = "documentSymbol" /\ UNCHANGED <<plans, agg, run, disk, outdated>> /\ openedSet \subseteq openedSet'
        /\ \A j \in Indexes : j # k => worker'[j] = worker[j]
    BY <1>19 DEF DocumentSymbol, Goto, planVars, diskVars, cacheVars, EnsureOpened
  <2>2. Knows(k) /\ \A j \in Indexes : j # k => facts'[j] = facts[j]
    BY <1>19 DEF DocumentSymbol, QuietFacts, Learn
  <2>3. Knows(k)'
    BY <1>19, <2>1, <2>2 DEF DocumentSymbol, Goto, Knows, Has, Origin, Key, PastAST, WorkTypes
  <2> QED
    BY <2>1, <2>2, <2>3, KnowsStep
<1>20. ASSUME NEW k \in Indexes, DocumentSymbolFails(k), Aside PROVE (troubled \/ QuietFacts)'
  BY <1>20 DEF DocumentSymbolFails
<1>21. ASSUME NEW k \in Indexes, FetchAST(k), Aside, UNCHANGED troubled PROVE (troubled \/ QuietFacts)'
  <2>1. /\ worker[k] = "ast" /\ UNCHANGED <<plans, agg, run, disk, outdated>> /\ openedSet \subseteq openedSet'
        /\ \A j \in Indexes : j # k => worker'[j] = worker[j]
    BY <1>21 DEF FetchAST, Goto, planVars, diskVars, cacheVars, EnsureOpened
  <2>2. Knows(k) /\ \A j \in Indexes : j # k => facts'[j] = facts[j]
    BY <1>21 DEF FetchAST, QuietFacts, Learn
  <2>3. Knows(k)'
    <3>1. run \in {"dispatch", "acquire", "join"} /\ k \in DOMAIN plans /\ ~plans[k].hit
      BY <2>1, WorkerFacts
    <3>2. /\ typed => Header \in openedSet
          /\ disk[Header] # 0 /\ plans[k].file \in Linked => typed
      BY <3>1 DEF QuietRun
    <3>3. /\ Learnt(k, "ast") = Fact("ast", Origin(k, "ast"))
          /\ typed => Learnt(k, "types") = Fact("types", Origin(k, "types"))
          /\ disk[plans[k].file] = Origin(k, "source") /\ Origin(k, "source") # 0
      BY <2>1, <3>1, <3>2, QuietLearnt, PlanTypes DEF Origin, HeaderKinds
    <3>4. facts'[k] = {Learnt(k, w) : w \in {"ast"} \cup (IF typed THEN {"types"} ELSE {})}
                      \cup {Fact("source", c) : c \in {disk[plans[k].file]} \ {0}}
      BY <1>21 DEF FetchAST, WorkTypes
    <3>5. facts'[k] = {Fact("ast", Origin(k, "ast")), Fact("source", Origin(k, "source"))}
                      \cup (IF typed THEN {Fact("types", Origin(k, "types"))} ELSE {})
      BY <3>3, <3>4
    <3>6. \A x : Origin(k, x)' = Origin(k, x)
      BY <2>1 DEF Origin
    <3>7. /\ Has(k, "ast")' /\ Has(k, "source")'
          /\ (disk[Header] # 0 /\ plans[k].file \in Linked => Has(k, "types")')
          /\ \A fact \in facts'[k] : fact.of = Origin(k, fact.what)
      BY <3>2, <3>5, <3>6 DEF Has, Fact
    <3>8. worker'[k] = "symbolUSR"
      BY <1>21 DEF FetchAST, Goto, WorkTypes
    <3> QED
      BY <2>1, <3>6, <3>7, <3>8 DEF Knows
  <2> QED
    BY <2>1, <2>2, <2>3, KnowsStep
<1>22. ASSUME NEW k \in Indexes, SymbolUSR(k), Aside, UNCHANGED troubled PROVE (troubled \/ QuietFacts)'
  <2>1. /\ worker[k] = "symbolUSR" /\ UNCHANGED <<plans, agg, run, disk, outdated>> /\ openedSet \subseteq openedSet'
        /\ \A j \in Indexes : j # k => worker'[j] = worker[j]
    BY <1>22 DEF SymbolUSR, Goto, planVars, diskVars, cacheVars, EnsureOpened
  <2>2. Knows(k) /\ \A j \in Indexes : j # k => facts'[j] = facts[j]
    BY <1>22 DEF SymbolUSR, QuietFacts, Learn
  <2>3. Knows(k)'
    <3>1. worker'[k] = "outgoingCalls" /\ Learn(k, "symbols")
      BY <1>22 DEF SymbolUSR, Goto, WorkTypes
    <3>2. \A fact \in facts[k] : fact.of = Origin(k, fact.what)
      BY <2>1, <2>2 DEF Knows, PastAST
    <3>3. /\ Has(k, "symbols")' /\ \A x : Has(k, x) => Has(k, x)'
          /\ \A fact \in facts'[k] : fact.of = Origin(k, fact.what)'
      BY <2>1, <3>1, <3>2, QuietLearn DEF HeaderKinds
    <3> QED
      BY <2>1, <2>2, <3>1, <3>3 DEF Knows, PastAST
  <2> QED
    BY <2>1, <2>2, <2>3, KnowsStep
<1>23. ASSUME NEW k \in Indexes, OutgoingCalls(k), Aside, UNCHANGED troubled PROVE (troubled \/ QuietFacts)'
  <2>1. /\ worker[k] = "outgoingCalls" /\ UNCHANGED <<plans, agg, run, disk, outdated>> /\ openedSet \subseteq openedSet'
        /\ \A j \in Indexes : j # k => worker'[j] = worker[j]
    BY <1>23 DEF OutgoingCalls, Goto, planVars, diskVars, cacheVars, EnsureOpened
  <2>2. Knows(k) /\ \A j \in Indexes : j # k => facts'[j] = facts[j]
    BY <1>23 DEF OutgoingCalls, QuietFacts, Learn
  <2>3. Knows(k)'
    <3>1. settled
      BY <2>1, WorkerFacts DEF QuietRun
    <3> QED
      BY <1>23, <2>1, <2>2, <3>1 DEF OutgoingCalls, Goto, Knows, Has, Origin, Key, PastAST, WorkTypes
  <2> QED
    BY <2>1, <2>2, <2>3, KnowsStep
<1>24. ASSUME NEW k \in Indexes, CalleeUSR(k), Aside, UNCHANGED troubled PROVE (troubled \/ QuietFacts)'
  <2>1. /\ worker[k] = "callee" /\ UNCHANGED <<plans, agg, run, disk, outdated>> /\ openedSet \subseteq openedSet'
        /\ \A j \in Indexes : j # k => worker'[j] = worker[j]
    <3>1. worker[k] = "callee" /\ UNCHANGED planVars /\ \E s \in WorkerSteps : Goto(k, s)
      BY <1>24 DEF CalleeUSR, WorkerSteps
    <3>2. UNCHANGED <<agg, run, disk, outdated>>
      BY <1>24 DEF CalleeUSR, diskVars, cacheVars
    <3> QED
      BY <3>1, <3>2 DEF Goto, planVars
  <2>2. Knows(k) /\ \A j \in Indexes : j # k => facts'[j] = facts[j]
    <3>1. facts' = facts \/ Learn(k, "calls")
      BY <1>24 DEF CalleeUSR
    <3>2. \A j \in Indexes : j # k => facts'[j] = facts[j]
      BY <3>1 DEF Learn, WorkTypes
    <3> QED
      BY <3>2 DEF QuietFacts
  <2>3. Knows(k)'
    <3>1. CASE opens[Header] > 0
      <4>1. worker'[k] = "put" /\ Learn(k, "calls")
        BY <1>24, <3>1 DEF CalleeUSR, Goto, WorkTypes
      <4>2. Header \in openedSet /\ \A fact \in facts[k] : fact.of = Origin(k, fact.what)
        BY <2>1, <2>2, <3>1, WorkerFacts DEF Knows, PastAST, OpensInv
      <4>3. /\ Has(k, "calls")' /\ \A x : Has(k, x) => Has(k, x)'
            /\ \A fact \in facts'[k] : fact.of = Origin(k, fact.what)'
        BY <2>1, <4>1, <4>2, QuietLearn
      <4> QED
        BY <2>1, <2>2, <4>1, <4>3 DEF Knows, PastAST
    <3>2. CASE ~(opens[Header] > 0)
      BY <1>24, <2>1, <2>2, <3>2 DEF CalleeUSR, Goto, Knows, Has, Origin, Key, PastAST, WorkTypes
    <3> QED
      BY <3>1, <3>2
  <2> QED
    BY <2>1, <2>2, <2>3, KnowsStep
<1>25. ASSUME NEW k \in Indexes, OpenCallee(k), Aside, UNCHANGED troubled PROVE (troubled \/ QuietFacts)'
  <2>1. /\ worker[k] = "ensureOpened" /\ UNCHANGED <<plans, agg, run, disk, outdated>> /\ openedSet \subseteq openedSet'
        /\ \A j \in Indexes : j # k => worker'[j] = worker[j]
    BY <1>25 DEF OpenCallee, Goto, planVars, diskVars, cacheVars, EnsureOpened
  <2>2. Knows(k) /\ \A j \in Indexes : j # k => facts'[j] = facts[j]
    BY <1>25 DEF OpenCallee, QuietFacts, Learn
  <2>3. Knows(k)'
    <3>1. clangd = "up"
      BY <2>1, WorkerFacts DEF QuietRun
    <3>2. disk[Header] # 0 => Header \in openedSet'
      BY <1>25, <3>1 DEF OpenCallee, EnsureOpened
    <3> QED
      BY <1>25, <2>1, <2>2, <3>2 DEF OpenCallee, Goto, Knows, Has, Origin, Key, PastAST, WorkTypes
  <2> QED
    BY <2>1, <2>2, <2>3, KnowsStep
<1>26. ASSUME NEW k \in Indexes, RetryCallee(k), Aside, UNCHANGED troubled PROVE (troubled \/ QuietFacts)'
  <2>1. /\ worker[k] = "retry" /\ UNCHANGED <<plans, agg, run, disk, outdated>> /\ openedSet \subseteq openedSet'
        /\ \A j \in Indexes : j # k => worker'[j] = worker[j]
    BY <1>26 DEF RetryCallee, Goto, planVars, diskVars, cacheVars, EnsureOpened
  <2>2. Knows(k) /\ \A j \in Indexes : j # k => facts'[j] = facts[j]
    <3>1. facts' = facts \/ Learn(k, "calls")
      BY <1>26 DEF RetryCallee
    <3>2. \A j \in Indexes : j # k => facts'[j] = facts[j]
      BY <3>1 DEF Learn, WorkTypes
    <3> QED
      BY <3>2 DEF QuietFacts
  <2>3. Knows(k)'
    <3>1. \A fact \in facts[k] : fact.of = Origin(k, fact.what)
      BY <2>1, <2>2 DEF Knows, PastAST
    <3>2. worker'[k] = "put"
      BY <1>26 DEF RetryCallee, Goto, WorkTypes
    <3>3. CASE opens[Header] > 0
      <4>1. Header \in openedSet /\ Learn(k, "calls")
        BY <1>26, <2>1, <3>3, WorkerFacts DEF RetryCallee, OpensInv
      <4>2. /\ Has(k, "calls")' /\ \A x : Has(k, x) => Has(k, x)'
            /\ \A fact \in facts'[k] : fact.of = Origin(k, fact.what)'
        BY <2>1, <3>1, <4>1, QuietLearn
      <4> QED
        BY <2>1, <2>2, <3>2, <4>2 DEF Knows, PastAST
    <3>4. CASE ~(opens[Header] > 0)
      <4>1. Header \notin openedSet
        BY <2>1, <3>4, WorkerFacts DEF OpensInv
      <4>2. disk[Header] = 0 /\ facts' = facts
        BY <1>26, <2>1, <2>2, <3>4, <4>1 DEF RetryCallee, Knows
      <4> QED
        BY <2>1, <2>2, <3>2, <4>2 DEF Knows, Has, Origin, PastAST
    <3> QED
      BY <3>3, <3>4
  <2> QED
    BY <2>1, <2>2, <2>3, KnowsStep
<1>27. ASSUME NEW k \in Indexes, RequestFails(k), Aside PROVE (troubled \/ QuietFacts)'
  BY <1>27 DEF RequestFails
<1>28. ASSUME NEW k \in Indexes, Put(k), Aside, UNCHANGED troubled PROVE (troubled \/ QuietFacts)'
  <2>1. /\ worker[k] = "put" /\ UNCHANGED <<plans, agg, facts, openedSet, disk, run>> /\ worker'[k] = "add"
        /\ outdated' = outdated \ {Key(k)} /\ \A j \in Indexes : j # k => worker'[j] = worker[j]
    BY <1>28 DEF Put, Goto, Key, planVars, diskVars, WorkTypes
  <2>2. k \in DOMAIN plans /\ ~plans[k].hit /\ Running /\ DOMAIN agg \subseteq DOMAIN plans
    BY <2>1, WorkerFacts DEF WorkerInv
  <2>3. \A j \in DOMAIN plans : plans[j].hit => Key(j) # Key(k)
    BY <2>2 DEF HitsInv
  <2>4. ASSUME NEW j \in DOMAIN plans', plans'[j].hit PROVE Matches(plans[j].payload, Key(j))'
    BY <2>1, <2>3, <2>4 DEF QuietFacts, Matches, Key
  <2>5. ASSUME NEW j \in DOMAIN agg'
        PROVE  (Matches(agg[j], Key(j)) /\ (Running /\ ~plans[j].hit => Key(j) \notin outdated))'
    <3>1. j \in DOMAIN agg /\ j \in DOMAIN plans
      BY <2>1, <2>2
    <3>2. Matches(agg[j], Key(j)) /\ (~plans[j].hit => Key(j) \notin outdated)
      BY <2>2, <3>1 DEF QuietFacts
    <3>3. Key(j) # Key(k) \/ Key(j) \notin outdated
      BY <2>3, <3>1, <3>2
    <3> QED
      BY <2>1, <3>2, <3>3 DEF Matches, Key
  <2>6. ASSUME NEW j \in Indexes PROVE Knows(j)'
    <3>1. Knows(j)
      BY DEF QuietFacts
    <3>2. CASE j = k
      BY <2>1, <3>1, <3>2 DEF Knows, Has, Origin, Key, PastAST
    <3>3. CASE j # k
      BY <2>1, <3>1, <3>3, KnowsStays
    <3> QED
      BY <3>2, <3>3
  <2> QED
    BY <2>4, <2>5, <2>6 DEF QuietFacts
<1>29. ASSUME NEW k \in Indexes, Merge(k), Aside, UNCHANGED troubled PROVE (troubled \/ QuietFacts)'
  <2>1. /\ worker[k] = "add" /\ UNCHANGED <<plans, facts, openedSet, disk, outdated, run>> /\ worker'[k] = "done"
        /\ agg' = [j \in DOMAIN agg \cup {k} |-> IF j = k THEN facts[k] ELSE agg[j]]
        /\ \A j \in Indexes : j # k => worker'[j] = worker[j]
    BY <1>29 DEF Merge, Goto, planVars, AddPayload, diskVars, cacheVars, WorkTypes
  <2>2. /\ Knows(k) /\ Key(k) \notin outdated
        /\ Whole(facts[k], Key(k), disk[Header]) /\ disk[Header] \in Contents
    BY <2>1, KnowsWhole DEF QuietFacts, Knows
  <2>3. ASSUME NEW j \in DOMAIN agg'
        PROVE  (Matches(agg[j], Key(j)) /\ (Running /\ ~plans[j].hit => Key(j) \notin outdated))'
    <3>1. CASE j = k
      BY <2>1, <2>2, <3>1 DEF Matches, Key
    <3>2. CASE j # k
      BY <2>1, <3>2 DEF QuietFacts, Matches, Key, Running
    <3> QED
      BY <3>1, <3>2
  <2>4. ASSUME NEW j \in Indexes PROVE Knows(j)'
    <3>1. CASE j = k
      BY <2>1, <3>1 DEF Knows, PastAST
    <3>2. CASE j # k
      BY <2>1, <3>2, KnowsStays DEF QuietFacts, Key
    <3> QED
      BY <3>1, <3>2
  <2>5. \A j \in DOMAIN plans' : (plans[j].hit => Matches(plans[j].payload, Key(j)))'
    BY <2>1 DEF QuietFacts, Matches, Key
  <2> QED
    BY <2>3, <2>4, <2>5 DEF QuietFacts
<1>30. CASE ClangdDies
  BY <1>30 DEF ClangdDies
<1>31. CASE Cancel
  BY <1>31 DEF Cancel
<1>32. ASSUME NEW f \in URIs, EditFile(f) PROVE (troubled \/ QuietFacts)'
  <2>1. CASE Running
    BY <1>32, <2>1 DEF EditFile
  <2>2. CASE ~Running
    <3>1. UNCHANGED <<plans, agg, worker, facts, openedSet, run>> /\ ~Running'
      BY <1>32, <2>2 DEF EditFile, planVars, workVars, Running
    <3>2. \A k \in Indexes : worker[k] \in {"none", "done"}
      BY <2>2 DEF WorkerInv, Running, Active
    <3>3. ASSUME NEW p, NEW key \in Keys, Matches(p, key)
          PROVE  \E h \in Contents : Whole(p, key, h) /\ (key \notin outdated' => h = disk'[Header])
      <4>1. CASE f = Header
        BY <1>32, <3>3, <4>1 DEF EditFile, Matches
      <4>2. CASE f # Header
        BY <1>32, <3>3, <4>2 DEF EditFile, Matches, SourceTypes
      <4> QED
        BY <4>1, <4>2
    <3>4. \A k \in DOMAIN plans : Key(k) \in Keys
      BY PlanTypes
    <3>5. \A k \in DOMAIN plans' : (plans[k].hit => Matches(plans[k].payload, Key(k)))'
      BY <3>1, <3>3, <3>4 DEF QuietFacts, Matches, Key
    <3>6. \A k \in DOMAIN agg' : Matches(agg[k], Key(k))'
      BY <3>1, <3>3, <3>4 DEF QuietFacts, Matches, Key, WorkerInv
    <3>7. \A k \in Indexes : Knows(k)'
      BY <3>1, <3>2 DEF Knows, PastAST
    <3> QED
      BY <3>1, <3>5, <3>6, <3>7 DEF QuietFacts
  <2> QED
    BY <2>1, <2>2
<1> QED
  BY <1>1, <1>2, <1>3, <1>4, <1>5, <1>6, <1>7, <1>8, <1>9, <1>10, <1>11, <1>12,
     <1>13, <1>14, <1>15, <1>16, <1>17, <1>18, <1>19, <1>20, <1>21, <1>22, <1>23,
     <1>24, <1>25, <1>26, <1>27, <1>28, <1>29, <1>30, <1>31, <1>32
     DEF Next, Run, Worker, Aside

-----------------------------------------------------------------------------
(* The invariant and the theorems                                          *)

\* At first nothing has run, and the cache may have whole payloads of earlier builds.
LEMMA InitInv == Init => IInv
<1> SUFFICES ASSUME Init PROVE IInv
  OBVIOUS
<1> USE EntryFacts, Empty
<1>1. PICK warm \in SUBSET (Files \X {1}), h \in Contents \ {0} :
        /\ cache = [k \in warm |-> Needed(k, h)]
        /\ outdated = IF h = disk[Header] THEN {} ELSE Keys
  BY DEF Init
<1>2. \A k \in warm : k \in Keys /\ Needed(k, h) \in Payloads
  BY <1>1, PayloadFacts DEF Keys, Contents
<1>3. disk \in [URIs -> Contents] /\ edits \in Nat /\ troubled = FALSE
  BY DEF Init, Contents
<1>4. SourceTypes
  BY <1>1, <1>2, <1>3 DEF SourceTypes
<1>5. /\ run = "returned" /\ runs = 0 /\ next = 1 /\ plans = <<>> /\ openedSet = {} /\ openedURIs = <<>>
      /\ links = 0 /\ settled = FALSE /\ typed = FALSE /\ agg = <<>> /\ firstErr = "none"
      /\ result = "none" /\ ctxDone = FALSE /\ clangd = "dead"
      /\ worker = [k \in Indexes |-> "none"] /\ facts = [k \in Indexes |-> {}]
  BY DEF Init
<1>6. opens \in [URIs -> Nat] /\ opens[Header] = 0 /\ text \in [URIs -> Contents]
  BY DEF Init, Contents
<1>7. plans \in Seq([file : Files, digest : Contents \ {0}, hit : BOOLEAN, payload : Payloads])
  BY <1>5
<1>8. RunTypes
  <2>1. next \in 1 .. Len(Entries) + Len(openedURIs) + 1 /\ runs \in Nat
    BY <1>5
  <2>2. run \in RunSteps /\ result \in Errors \cup {"ok", "input"} /\ ctxDone \in BOOLEAN
    BY <1>5, Zenon DEF RunSteps, Errors
  <2> QED
    BY <2>1, <2>2, <1>7, Zenon DEF RunTypes
<1>9. OpenTypes
  <2>1. openedURIs \in Seq(URIs) /\ links \in 0 .. Len(openedURIs)
    BY <1>5
  <2>2. openedSet \subseteq URIs /\ settled \in BOOLEAN /\ typed \in BOOLEAN /\ clangd \in {"up", "dead"}
    BY <1>5, Zenon
  <2> QED
    BY <2>1, <2>2, <1>6 DEF OpenTypes
<1>10. WorkTypes
  BY <1>5, PayloadFacts DEF WorkTypes, WorkerSteps, Errors
<1>11. PlanInv /\ OpensInv /\ WorkerInv /\ CoverInv /\ HitsInv /\ NoPhantomCancel
  <2>1. Active = {}
    BY <1>5 DEF Active
  <2>2. Len(plans) = 0 /\ DOMAIN agg = {} /\ DOMAIN plans = {}
    BY <1>5
  <2>3. run = "returned" /\ result = "none" /\ firstErr = "none" /\ \A k \in Indexes : worker[k] = "none"
    BY <1>5
  <2> QED
    BY <2>1, <2>2, <2>3 DEF PlanInv, OpensInv, WorkerInv, CoverInv, HitsInv, NoPhantomCancel, Running
<1>12. CacheMatchesKey
  <2>1. ASSUME NEW k \in warm PROVE Whole(Needed(k, h), k, h)
    BY DEF Whole, Needed, Fact, OwnKinds, HeaderKinds
  <2>2. \A k \in DOMAIN cache : k \in Keys /\ Whole(cache[k], k, h)
    BY <1>1, <1>2, <2>1
  <2> QED
    BY <1>1, <2>2 DEF CacheMatchesKey, Matches
<1>13. QuietRun /\ QuietFacts
  <2>1. DOMAIN agg = {} /\ DOMAIN plans = {}
    BY <1>5
  <2>2. run = "returned" /\ firstErr = "none" /\ \A k \in Indexes : worker[k] = "none" /\ facts[k] = {}
    BY <1>5
  <2> QED
    BY <2>1, <2>2 DEF QuietRun, QuietFacts, Running, Knows, PastAST
<1> QED
  BY <1>4, <1>8, <1>9, <1>10, <1>11, <1>12, <1>13 DEF IInv, TypeOK, QuietInv

\* Every action keeps QuietInv.
LEMMA QuietStep == IInv /\ [Next]_vars => QuietInv'
<1> SUFFICES ASSUME IInv, [Next]_vars PROVE QuietInv'
  OBVIOUS
<1>1. SourceTypes /\ RunTypes /\ OpenTypes /\ WorkTypes
  BY DEF IInv, TypeOK
<1>2. CASE troubled
  BY <1>1, <1>2, TroubledStays DEF QuietInv, SourceTypes
<1>3. CASE ~troubled
  <2>1. (troubled \/ QuietRun)'
    BY <1>1, <1>3, QuietRunStep DEF IInv, QuietInv
  <2>2. (troubled \/ QuietFacts)'
    BY <1>1, <1>3, QuietFactsStep DEF IInv, QuietInv
  <2> QED
    BY <2>1, <2>2 DEF QuietInv
<1> QED
  BY <1>2, <1>3

\* IInv is an invariant: each of its parts is preserved.
THEOREM Invariance == Spec => []IInv
<1>1. IInv /\ [Next]_vars => IInv'
  BY SourceStep, RunStep, OpenStep, WorkStep, PlanStep, OpensStep, WorkerStep, CoverStep, HitsStep,
     PhantomStep, CacheStep, QuietStep DEF IInv, TypeOK
<1> QED
  BY InitInv, <1>1, PTL DEF Spec

\* Every variable keeps its type; in particular the header is never opened twice.
THEOREM TypeCorrect == Spec => []TypeOK
<1>1. IInv => TypeOK
  BY DEF IInv
<1> QED
  BY Invariance, <1>1, PTL

\* When Run succeeds, every TU it planned was merged.
THEOREM SuccessCoversPlansAlways == Spec => []SuccessCoversPlans
<1>1. IInv => SuccessCoversPlans
  BY DEF IInv, CoverInv, SuccessCoversPlans, Succeeded
<1> QED
  BY Invariance, <1>1, PTL

\* Run reports a cancellation only if its caller cancelled it.
THEOREM NoPhantomCancelAlways == Spec => []NoPhantomCancel
<1>1. IInv => NoPhantomCancel
  BY DEF IInv
<1> QED
  BY Invariance, <1>1, PTL

\* What is cached while nothing goes wrong is whole: of the content of the TU it is filed
\* under, and of one content of the header, the present one unless the header was changed
\* since it was filed.
THEOREM CacheMatchesKeyAlways == Spec => []CacheMatchesKey
<1>1. IInv => CacheMatchesKey
  BY DEF IInv
<1> QED
  BY Invariance, <1>1, PTL

\* A run that succeeds while nothing goes wrong has all facts of all its TUs, of their
\* present content; those of the header are of one content, the present one unless the
\* payload was cached before the header was changed.
THEOREM QuietSuccessIsCompleteAlways == Spec => []QuietSuccessIsComplete
<1>1. IInv => QuietSuccessIsComplete
  BY DEF IInv, CoverInv, QuietInv, QuietFacts, QuietSuccessIsComplete, SuccessIsComplete, Succeeded
<1> QED
  BY Invariance, <1>1, PTL

-----------------------------------------------------------------------------
(* Where only some things go wrong                                         *)

\* As long as no source file is removed, Run closes what it opened.
THEOREM EverythingClosedAlways ==
    ASSUME "vanish" \notin Faults
    PROVE  Spec => []EverythingClosed
<1>1. Init => ClosedInv
  BY DEF Init, ClosedInv, EverythingClosed
<1>2. IInv /\ ClosedInv /\ [Next]_vars => ClosedInv'
  <2> SUFFICES ASSUME IInv, ClosedInv, [Next]_vars PROVE ClosedInv'
    OBVIOUS
  <2> USE DEF ClosedInv, EverythingClosed
  <2>1. CASE UNCHANGED vars
    BY <2>1 DEF vars, diskVars, cacheVars, planVars, workVars, clangdVars, File
  <2>2. CASE CallRun
    BY <2>2 DEF CallRun, File, diskVars, cacheVars, clangdVars
  <2>3. CASE SkipTU
    BY <2>3 DEF SkipTU, Planning, File, diskVars, cacheVars, clangdVars
  <2>4. CASE PlanCached
    BY <2>4 DEF PlanCached, Planning, File, diskVars, cacheVars, clangdVars
  <2>5. CASE PlanUncached
    BY <2>5 DEF PlanUncached, Planning, File, diskVars, cacheVars, clangdVars
  <2>6. CASE OpenPlanned
    BY <2>6 DEF OpenPlanned, File, diskVars, cacheVars, clangdVars
  <2>7. CASE OpenFails
    BY <2>7 DEF OpenFails, File, diskVars, cacheVars, clangdVars
  <2>8. CASE WaitForIndex
    BY <2>8 DEF WaitForIndex, File, diskVars, cacheVars, clangdVars
  <2>9. CASE DocumentLink
    BY <2>9 DEF DocumentLink, Linking, File, diskVars, cacheVars, clangdVars
  <2>10. CASE DocumentLinkFails
    BY <2>10 DEF DocumentLinkFails, Linking, Return, File, diskVars, cacheVars, clangdVars
  <2>11. CASE CollectTypedefs
    BY <2>11 DEF CollectTypedefs, File, diskVars, cacheVars, clangdVars
  <2>12. CASE DispatchCached
    BY <2>12 DEF DispatchCached, Dispatching, File, diskVars, cacheVars, clangdVars
  <2>13. CASE DispatchUncached
    BY <2>13 DEF DispatchUncached, Dispatching, File, diskVars, cacheVars, clangdVars
  <2>14. CASE SpawnWorker
    BY <2>14 DEF SpawnWorker, File, diskVars, cacheVars, clangdVars
  <2>15. CASE DispatchEnds
    BY <2>15 DEF DispatchEnds, File, diskVars, cacheVars, clangdVars
  <2>16. CASE Join
    BY <2>16 DEF Join, Return, File, diskVars, cacheVars, clangdVars
  <2>17. CASE CloseTUs
    <3>1. clangd = "up" => \A u \in URIs : opens'[u] = 0
      BY <2>17 DEF CloseTUs, IInv, TypeOK, OpenTypes, OpensInv, Running
    <3> QED
      BY <2>17, <3>1 DEF CloseTUs
  <2>18. ASSUME NEW k \in Indexes, Worker(k) PROVE ClosedInv'
    BY <2>18, WorkerFrame, WorkerRuns DEF IInv, File
  <2>19. CASE ClangdDies
    BY <2>19 DEF ClangdDies, diskVars, File
  <2>20. CASE Cancel
    BY <2>20 DEF Cancel, diskVars, File, clangdVars
  <2>21. ASSUME NEW f \in URIs, EditFile(f) PROVE ClosedInv'
    <3>1. /\ UNCHANGED <<run, next, clangd, opens>>
          /\ \E c \in Contents : c > 0 /\ disk' = [disk EXCEPT ![f] = c]
      BY <2>21 DEF EditFile, clangdVars
    <3> QED
      BY <3>1 DEF File, IInv, TypeOK, SourceTypes
  <2> QED
    BY <2>1, <2>2, <2>3, <2>4, <2>5, <2>6, <2>7, <2>8, <2>9, <2>10, <2>11, <2>12,
       <2>13, <2>14, <2>15, <2>16, <2>17, <2>18, <2>19, <2>20, <2>21
       DEF Next, Run, Worker
<1>3. ClosedInv => EverythingClosed
  BY DEF ClosedInv
<1> QED
  BY Invariance, <1>1, <1>2, <1>3, PTL DEF Spec

\* A first run that only its caller or a dying clangd can disturb, and that
\* succeeds with a living clangd, has all facts of all its TUs.
THEOREM CompleteUnlessClangdDiesAlways ==
    ASSUME MaxRuns <= 1, Faults \subseteq {"die", "cancel", "editBetween"}
    PROVE  Spec => []CompleteUnlessClangdDies
<1>1. Init => FirstRunInv
  BY Empty DEF Init, FirstRunInv, Running
<1>2. IInv /\ FirstRunInv /\ [Next]_vars => FirstRunInv'
  <2> SUFFICES ASSUME IInv, FirstRunInv, [Next]_vars PROVE FirstRunInv'
    OBVIOUS
  <2> USE DEF FirstRunInv, Running
  <2>1. CASE UNCHANGED vars
    BY <2>1 DEF vars, diskVars, cacheVars, planVars, workVars, clangdVars, Key, Matches
  <2>2. CASE CallRun
    <3>1. runs = 0 /\ runs' = 1 /\ troubled' = troubled
      BY <2>2, BoundsAssumption DEF CallRun, diskVars, cacheVars, IInv, TypeOK, RunTypes
    <3>2. result' = "none"
      BY <2>2 DEF CallRun
    <3> QED
      BY <3>1, <3>2
  <2>3. CASE SkipTU
    BY <2>3 DEF SkipTU, Planning, diskVars, cacheVars, planVars, workVars, clangdVars, IInv, CoverInv, Key
  <2>4. CASE PlanCached
    BY <2>4 DEF PlanCached, Planning, diskVars, cacheVars, planVars, workVars, clangdVars, IInv, CoverInv, Key
  <2>5. CASE PlanUncached
    BY <2>5 DEF PlanUncached, Planning, diskVars, cacheVars, planVars, workVars, clangdVars, IInv, CoverInv, Key
  <2>6. CASE OpenPlanned
    BY <2>6 DEF OpenPlanned, diskVars, cacheVars, planVars, workVars, clangdVars, IInv, CoverInv, Key
  <2>7. CASE OpenFails
    BY <2>7 DEF OpenFails, diskVars, cacheVars, planVars, workVars, clangdVars, IInv, CoverInv, Key
  <2>8. CASE WaitForIndex
    BY <2>8 DEF WaitForIndex, workVars, clangdVars, IInv, CoverInv
  <2>9. CASE DocumentLink
    BY <2>9 DEF DocumentLink, Linking, diskVars, cacheVars, planVars, workVars, clangdVars, IInv, CoverInv, Key
  <2>10. CASE DocumentLinkFails
    BY <2>10 DEF DocumentLinkFails, Linking, Return, CallErrors, clangdVars, IInv, CoverInv
  <2>11. CASE CollectTypedefs
    BY <2>11 DEF CollectTypedefs, CallErrors, clangdVars, IInv, CoverInv
  <2>12. CASE DispatchCached
    BY <2>12 DEF DispatchCached, Dispatching, diskVars, cacheVars, planVars, workVars, clangdVars, IInv, CoverInv, Key
  <2>13. CASE DispatchUncached
    BY <2>13 DEF DispatchUncached, Dispatching, diskVars, cacheVars, planVars, workVars, clangdVars, IInv, CoverInv, Key
  <2>14. CASE SpawnWorker
    BY <2>14 DEF SpawnWorker, diskVars, cacheVars, planVars, workVars, clangdVars, IInv, CoverInv, Key
  <2>15. CASE DispatchEnds
    BY <2>15 DEF DispatchEnds, diskVars, cacheVars, planVars, workVars, clangdVars, IInv, CoverInv, Key
  <2>16. CASE Join
    <3>1. UNCHANGED <<troubled, runs, plans, agg, clangd, ctxDone, disk, outdated>> /\ run = "join"
      BY <2>16 DEF Join, diskVars, cacheVars, planVars, workVars, clangdVars
    <3>2. ASSUME result' = "ok", clangd = "up" PROVE \A k \in DOMAIN agg : Matches(agg[k], Key(k))
      <4>1. ~ctxDone
        BY <2>16, <3>2 DEF Join, Return, IInv, TypeOK, WorkTypes, Errors
      <4> QED
        BY <3>2, <4>1 DEF IInv, QuietInv, QuietFacts
    <3> QED
      BY <3>1, <3>2 DEF Key, Matches
  <2>17. CASE CloseTUs
    BY <2>17 DEF CloseTUs, diskVars, cacheVars, planVars, workVars, IInv, CoverInv, Key, Matches
  <2>18. ASSUME NEW k \in Indexes, Worker(k) PROVE FirstRunInv'
    <3>1. UNCHANGED <<run, runs, ctxDone, clangd, result>> /\ run \in {"dispatch", "acquire", "join"}
      BY <2>18, WorkerFrame, WorkerRuns DEF IInv
    <3>2. result = "none" /\ runs # 0
      BY <3>1 DEF IInv, CoverInv
    <3>3. CASE CallErrors(Cancelled) # {}
      <4>1. clangd = "dead" \/ ctxDone \/ firstErr # "none"
        BY <3>3 DEF CallErrors, Cancelled
      <4>2. clangd = "dead" \/ ctxDone
        BY <4>1 DEF IInv, QuietInv, QuietRun
      <4> QED
        BY <3>1, <3>2, <4>2
    <3>4. CASE CallErrors(Cancelled) = {}
      <4>1. troubled' = troubled
        BY <2>18, <3>4 DEF Worker, DocumentSymbolFails, RequestFails
      <4> QED
        BY <3>1, <3>2, <4>1
    <3> QED
      BY <3>3, <3>4
  <2>19. CASE ClangdDies
    BY <2>19 DEF ClangdDies
  <2>20. CASE Cancel
    BY <2>20 DEF Cancel, planVars, workVars, diskVars, cacheVars, clangdVars, Key, Matches
  <2>21. ASSUME NEW f \in URIs, EditFile(f) PROVE FirstRunInv'
    <3>1. UNCHANGED <<run, runs, ctxDone, clangd, result, plans, agg>>
      BY <2>21 DEF EditFile, planVars, workVars, clangdVars
    <3>2. ~Running /\ troubled' = troubled
      BY <2>21 DEF EditFile, IInv, TypeOK, SourceTypes
    <3>3. ASSUME NEW p, NEW key \in Keys, Matches(p, key)
          PROVE  \E h \in Contents : Whole(p, key, h) /\ (key \notin outdated' => h = disk'[Header])
      <4>1. CASE f = Header
        BY <2>21, <3>3, <4>1 DEF EditFile, Matches
      <4>2. CASE f # Header
        BY <2>21, <3>3, <4>2, EntryFacts DEF EditFile, Matches, IInv, TypeOK, SourceTypes
      <4> QED
        BY <4>1, <4>2
    <3>4. \A k \in DOMAIN agg : Key(k) \in Keys
      BY PlanTypes DEF IInv, TypeOK, WorkerInv
    <3>5. (result = "ok" /\ clangd = "up" => \A k \in DOMAIN agg : Matches(agg[k], Key(k)))'
      BY <3>1, <3>3, <3>4 DEF Matches, Key
    <3> QED
      BY <3>1, <3>2, <3>5
  <2> QED
    BY <2>1, <2>2, <2>3, <2>4, <2>5, <2>6, <2>7, <2>8, <2>9, <2>10, <2>11, <2>12,
       <2>13, <2>14, <2>15, <2>16, <2>17, <2>18, <2>19, <2>20, <2>21
       DEF Next, Run, Worker
<1>3. IInv /\ FirstRunInv => CompleteUnlessClangdDies
  BY DEF IInv, CoverInv, FirstRunInv, CompleteUnlessClangdDies, SuccessIsComplete, Succeeded
<1> QED
  BY Invariance, <1>1, <1>2, <1>3, PTL DEF Spec

=============================================================================
