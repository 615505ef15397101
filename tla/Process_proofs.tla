---------------------------- MODULE Process_proofs ----------------------------
(***************************************************************************)
(* Proofs about one clangd under clang-index build, for any plan of TUs,   *)
(* any reports and any faults: no clangd is left, the end of a round is    *)
(* not lost, nothing is closed twice, TUs are numbered without repetition  *)
(* and the line on the screen keeps its order.                               *)
(***************************************************************************)
EXTENDS Process, FiniteSetTheorems, TLAPS

\* Cardinality is a number here.
LEMMA PlanIsFinite == Cardinality(TUs) \in Nat
BY TUsAssumption, FS_CardinalityType

\* clangd writes a message to the pipe.
LEMMA SendFacts ==
    ASSUME ClangdTypes, NEW m \in Messages, Sends(m)
    PROVE  /\ pipe' \in Seq(Messages) /\ Len(pipe') <= MaxPipe
           /\ \A i \in DOMAIN pipe : i \in DOMAIN pipe' /\ pipe'[i] = pipe[i]
           /\ \E i \in DOMAIN pipe' : pipe'[i] = m
<1>1. pipe \in Seq(Messages) /\ Len(pipe) < MaxPipe /\ pipe' = Append(pipe, m)
  BY DEF ClangdTypes, Sends
<1>2. pipe' \in Seq(Messages) /\ Len(pipe') = Len(pipe) + 1
  BY <1>1
<1>3. Len(pipe') <= MaxPipe
  BY <1>1, <1>2, BoundsAssumption
<1>4. \A i \in DOMAIN pipe : i \in DOMAIN pipe' /\ pipe'[i] = pipe[i]
  BY <1>1
<1>5. pipe'[Len(pipe) + 1] = m /\ Len(pipe) + 1 \in DOMAIN pipe'
  BY <1>1
<1> QED
  BY <1>2, <1>3, <1>4, <1>5

\* The reader takes the oldest message.
LEMMA ReadFacts ==
    ASSUME ClangdTypes, Reading, pipe' = Tail(pipe)
    PROVE  /\ m0 \in Messages /\ m0 = pipe[1]
           /\ pipe' \in Seq(Messages) /\ Len(pipe') <= MaxPipe
           /\ \A i \in DOMAIN pipe : i # 1 => i - 1 \in DOMAIN pipe' /\ pipe'[i - 1] = pipe[i]
<1>1. pipe \in Seq(Messages) /\ Len(pipe) <= MaxPipe /\ pipe # <<>> /\ pipe' = Tail(pipe)
  BY DEF ClangdTypes, Reading
<1>2. m0 \in Messages /\ m0 = pipe[1]
  BY <1>1 DEF m0
<1>3. pipe' \in Seq(Messages) /\ Len(pipe') = Len(pipe) - 1
  BY <1>1
<1>4. \A i \in DOMAIN pipe : i # 1 => i - 1 \in DOMAIN pipe' /\ pipe'[i - 1] = pipe[i]
  BY <1>1
<1> QED
  BY <1>1, <1>2, <1>3, <1>4, BoundsAssumption

\* What clangd sends is a message.
LEMMA MessageFacts ==
    /\ \A req \in {"initialize", "shutdown"} : [kind |-> "reply", req |-> req] \in Messages
    /\ \A token \in Tokens : /\ [kind |-> "begin", token |-> token, title |-> "indexing"] \in Messages
                             /\ [kind |-> "begin", token |-> token, title |-> "other"] \in Messages
                             /\ [kind |-> "end", token |-> token] \in Messages
                             /\ \A pct \in Percents : [kind |-> "report", token |-> token, pct |-> pct] \in Messages
    /\ \A m \in Messages : /\ m.kind \in {"reply", "begin", "report", "end"}
                           /\ m.kind = "reply" => m.req \in {"initialize", "shutdown"}
                           /\ m.kind # "reply" => m.token \in Tokens
                           /\ m.kind = "report" => m.pct \in Percents
BY DEF Messages

\* The percentage of a progress message.
LEMMA PercentFacts ==
    ASSUME NEW m \in Messages, m.kind # "reply"
    PROVE  PercentOf(m) \in -1 .. 100
BY MessageFacts, PercentsAssumption DEF PercentOf

\* Before the start everything is as it should be.
LEMMA InitInv == Init => IInv
<1> SUFFICES ASSUME Init PROVE IInv
  OBVIOUS
<1> USE PlanIsFinite DEF Init
<1>1. ClangdTypes
  <2>1. pipe \in Seq(Messages) /\ Len(pipe) <= MaxPipe
    BY BoundsAssumption
  <2> QED
    BY <2>1 DEF ClangdTypes
<1>7. BuildTypes
  BY DEF BuildTypes, Phases
<1>2. WorkTypes
  BY DEF WorkTypes
<1>3. BarTypes
  <2>1. -1 \in -1 .. 100 /\ 0 \in 0 .. Cardinality(TUs) /\ 0 \in 0 .. 1
    OBVIOUS
  <2>2. /\ bar.tty \in BOOLEAN /\ bar.phase = "none" /\ bar.pct = -1 /\ bar.done = 0
        /\ bar.finished = FALSE /\ bar.ticking = FALSE
        /\ bar = [tty |-> bar.tty, phase |-> bar.phase, pct |-> bar.pct, done |-> bar.done,
                  finished |-> bar.finished, ticking |-> bar.ticking]
    OBVIOUS
  <2>3. bar \in Bars
    BY <2>1, <2>2 DEF Bars
  <2> QED
    BY <2>1, <2>3 DEF BarTypes
<1>4. CountInv
  <2>1. {t \in TUs : number[t] # 0} = {}
    OBVIOUS
  <2> QED
    BY <2>1, FS_EmptySet DEF CountInv
<1>5. BarInv
  <2>1. bar.phase = "none" /\ bar.finished = FALSE
    OBVIOUS
  <2> QED
    BY <2>1 DEF BarInv, Clear
<1>6. StartInv /\ NoClangdLeft /\ EndIsHeard
  BY DEF StartInv, NoClangdLeft, EndIsHeard
<1> QED
  BY <1>1, <1>2, <1>3, <1>4, <1>5, <1>6, <1>7 DEF IInv, TypeOK

\* Every action keeps clangd and the pipe in their types.
LEMMA ClangdTypesStep ==
  ClangdTypes /\ [Next]_vars => ClangdTypes'
<1> SUFFICES ASSUME ClangdTypes, [Next]_vars PROVE ClangdTypes'
  OBVIOUS
<1> USE DEF ClangdTypes, procVars, readerVars, mainVars, workVars, barVars
<1>1. CASE UNCHANGED vars
  BY <1>1 DEF vars
<1>2. ASSUME NEW req \in {"initialize", "shutdown"}, Answers(req) PROVE ClangdTypes'
  <2>1. Sends([kind |-> "reply", req |-> req]) /\ [kind |-> "reply", req |-> req] \in Messages
    BY <1>2, MessageFacts DEF Answers
  <2> QED
    BY <1>2, <2>1, SendFacts DEF Answers
<1>3. ASSUME NEW token \in Tokens, BeginsRound(token) PROVE ClangdTypes'
  <2>1. Sends([kind |-> "begin", token |-> token, title |-> "indexing"]) /\ [kind |-> "begin", token |-> token, title |-> "indexing"] \in Messages
    BY <1>3, MessageFacts DEF BeginsRound
  <2> QED
    BY <1>3, <2>1, SendFacts DEF BeginsRound
<1>4. ASSUME NEW pct \in Percents, Reports(pct) PROVE ClangdTypes'
  <2>1. indexing \in Tokens
    BY <1>4 DEF Reports
  <2>2. Sends([kind |-> "report", token |-> indexing, pct |-> pct]) /\ [kind |-> "report", token |-> indexing, pct |-> pct] \in Messages
    BY <1>4, <2>1, MessageFacts DEF Reports
  <2> QED
    BY <1>4, <2>2, SendFacts DEF Reports
<1>5. CASE EndsRound
  <2>1. indexing \in Tokens
    BY <1>5 DEF EndsRound
  <2>2. Sends([kind |-> "end", token |-> indexing]) /\ [kind |-> "end", token |-> indexing] \in Messages
    BY <1>5, <2>1, MessageFacts DEF EndsRound
  <2> QED
    BY <1>5, <2>2, SendFacts DEF EndsRound
<1>6. CASE BeginsOther
  <2>1. Sends([kind |-> "begin", token |-> "other", title |-> "other"]) /\ [kind |-> "begin", token |-> "other", title |-> "other"] \in Messages
    BY <1>6, MessageFacts DEF BeginsOther, Tokens
  <2> QED
    BY <1>6, <2>1, SendFacts DEF BeginsOther
<1>7. CASE Exits
  BY <1>7 DEF Exits
<1>8. CASE Cancel
  BY <1>8 DEF Cancel
<1>9. CASE ReadsReply
  BY <1>9, ReadFacts DEF ReadsReply
<1>10. CASE IgnoresProgress
  BY <1>10, ReadFacts DEF IgnoresProgress
<1>11. CASE HandlesProgress
  BY <1>11, ReadFacts DEF HandlesProgress
<1>12. CASE MarkIndexed
  BY <1>12 DEF MarkIndexed
<1>13. CASE ReaderReturns
  BY <1>13 DEF ReaderReturns
<1>14. ASSUME NEW t \in TUs, Counts(t) PROVE ClangdTypes'
  BY <1>14 DEF Counts
<1>15. ASSUME NEW t \in TUs, ReportsTU(t) PROVE ClangdTypes'
  BY <1>15 DEF ReportsTU
<1>16. ASSUME NEW t \in TUs, DropsTU(t) PROVE ClangdTypes'
  BY <1>16 DEF DropsTU
<1>17. CASE Start
  BY <1>17 DEF Start
<1>18. CASE SpawnFails
  BY <1>18 DEF SpawnFails
<1>19. CASE Initialized
  BY <1>19 DEF Initialized
<1>20. CASE InitializeFails
  BY <1>20 DEF InitializeFails
<1>21. CASE OnIndexProgress
  BY <1>21 DEF OnIndexProgress
<1>22. CASE RunFails
  BY <1>22 DEF RunFails
<1>23. CASE WaitIndexed
  BY <1>23 DEF WaitIndexed
<1>24. CASE WaitTimesOut
  BY <1>24 DEF WaitTimesOut
<1>33. CASE Opened
  BY <1>33 DEF Opened
<1>34. CASE WaitCancelled
  BY <1>34 DEF WaitCancelled
<1>35. CASE ReadsHeaders
  BY <1>35 DEF ReadsHeaders
<1>25. CASE RunReturns
  BY <1>25 DEF RunReturns
<1>26. CASE Finishes
  BY <1>26 DEF Finishes
<1>27. CASE ShutdownAnswered
  BY <1>27 DEF ShutdownAnswered
<1>28. CASE ShutdownFails
  BY <1>28 DEF ShutdownFails
<1>29. CASE Reaps
  BY <1>29, BoundsAssumption DEF Reaps
<1>30. CASE Kills
  BY <1>30 DEF Kills
<1>31. CASE Tick
  BY <1>31 DEF Tick
<1>32. CASE TickerStops
  BY <1>32 DEF TickerStops
<1> QED
  BY <1>1, <1>2, <1>3, <1>4, <1>5, <1>6, <1>7, <1>8, <1>9, <1>10, <1>11, <1>12,
     <1>13, <1>14, <1>15, <1>16, <1>17, <1>18, <1>19, <1>20, <1>21, <1>22, <1>23,
     <1>24, <1>25, <1>26, <1>27, <1>28, <1>29, <1>30, <1>31, <1>32, <1>33, <1>34, <1>35
     DEF Next, Clangd, Reader, Worker, Main

\* Every action keeps the reader and build in their types.
LEMMA BuildTypesStep ==
  ClangdTypes /\ BuildTypes /\ [Next]_vars => BuildTypes'
<1> SUFFICES ASSUME ClangdTypes, BuildTypes, [Next]_vars PROVE BuildTypes'
  OBVIOUS
<1> USE DEF BuildTypes, Phases, procVars, readerVars, mainVars, workVars, barVars
<1>1. CASE UNCHANGED vars
  BY <1>1 DEF vars
<1>2. ASSUME NEW req \in {"initialize", "shutdown"}, Answers(req) PROVE BuildTypes'
  BY <1>2 DEF Answers
<1>3. ASSUME NEW token \in Tokens, BeginsRound(token) PROVE BuildTypes'
  BY <1>3 DEF BeginsRound
<1>4. ASSUME NEW pct \in Percents, Reports(pct) PROVE BuildTypes'
  BY <1>4 DEF Reports
<1>5. CASE EndsRound
  BY <1>5 DEF EndsRound
<1>6. CASE BeginsOther
  BY <1>6 DEF BeginsOther
<1>7. CASE Exits
  BY <1>7 DEF Exits
<1>8. CASE Cancel
  BY <1>8 DEF Cancel
<1>9. CASE ReadsReply
  <2>1. m0.req \in {"initialize", "shutdown"}
    BY <1>9, ReadFacts, MessageFacts DEF ReadsReply
  <2> QED
    BY <1>9, <2>1 DEF ReadsReply
<1>10. CASE IgnoresProgress
  BY <1>10 DEF IgnoresProgress
<1>11. CASE HandlesProgress
  BY <1>11 DEF HandlesProgress
<1>12. CASE MarkIndexed
  BY <1>12 DEF MarkIndexed
<1>13. CASE ReaderReturns
  BY <1>13 DEF ReaderReturns
<1>14. ASSUME NEW t \in TUs, Counts(t) PROVE BuildTypes'
  BY <1>14 DEF Counts
<1>15. ASSUME NEW t \in TUs, ReportsTU(t) PROVE BuildTypes'
  BY <1>15 DEF ReportsTU
<1>16. ASSUME NEW t \in TUs, DropsTU(t) PROVE BuildTypes'
  BY <1>16 DEF DropsTU
<1>17. CASE Start
  BY <1>17 DEF Start, At
<1>18. CASE SpawnFails
  BY <1>18 DEF SpawnFails, At
<1>19. CASE Initialized
  BY <1>19 DEF Initialized, At
<1>20. CASE InitializeFails
  BY <1>20 DEF InitializeFails, At
<1>21. CASE OnIndexProgress
  BY <1>21 DEF OnIndexProgress, At
<1>22. CASE RunFails
  BY <1>22 DEF RunFails, At
<1>23. CASE WaitIndexed
  BY <1>23 DEF WaitIndexed, At
<1>24. CASE WaitTimesOut
  BY <1>24 DEF WaitTimesOut, At
<1>33. CASE Opened
  BY <1>33 DEF Opened, At
<1>34. CASE WaitCancelled
  BY <1>34 DEF WaitCancelled, At
<1>35. CASE ReadsHeaders
  BY <1>35 DEF ReadsHeaders, At
<1>25. CASE RunReturns
  BY <1>25 DEF RunReturns, At
<1>26. CASE Finishes
  BY <1>26 DEF Finishes, At
<1>27. CASE ShutdownAnswered
  BY <1>27 DEF ShutdownAnswered, At
<1>28. CASE ShutdownFails
  BY <1>28 DEF ShutdownFails, At
<1>29. CASE Reaps
  BY <1>29 DEF Reaps, At
<1>30. CASE Kills
  BY <1>30 DEF Kills
<1>31. CASE Tick
  BY <1>31 DEF Tick
<1>32. CASE TickerStops
  BY <1>32 DEF TickerStops
<1> QED
  BY <1>1, <1>2, <1>3, <1>4, <1>5, <1>6, <1>7, <1>8, <1>9, <1>10, <1>11, <1>12,
     <1>13, <1>14, <1>15, <1>16, <1>17, <1>18, <1>19, <1>20, <1>21, <1>22, <1>23,
     <1>24, <1>25, <1>26, <1>27, <1>28, <1>29, <1>30, <1>31, <1>32, <1>33, <1>34, <1>35
     DEF Next, Clangd, Reader, Worker, Main

\* Every action keeps the work and its numbers in their types, the numbers without repetition.
LEMMA WorkTypesStep ==
  WorkTypes /\ CountInv /\ [Next]_vars => WorkTypes'
<1> SUFFICES ASSUME WorkTypes, CountInv, [Next]_vars PROVE WorkTypes'
  OBVIOUS
<1> USE DEF WorkTypes, procVars, readerVars, mainVars, workVars, barVars
<1>1. CASE UNCHANGED vars
  BY <1>1 DEF vars
<1>2. ASSUME NEW req \in {"initialize", "shutdown"}, Answers(req) PROVE WorkTypes'
  BY <1>2 DEF Answers
<1>3. ASSUME NEW token \in Tokens, BeginsRound(token) PROVE WorkTypes'
  BY <1>3 DEF BeginsRound
<1>4. ASSUME NEW pct \in Percents, Reports(pct) PROVE WorkTypes'
  BY <1>4 DEF Reports
<1>5. CASE EndsRound
  BY <1>5 DEF EndsRound
<1>6. CASE BeginsOther
  BY <1>6 DEF BeginsOther
<1>7. CASE Exits
  BY <1>7 DEF Exits
<1>8. CASE Cancel
  BY <1>8 DEF Cancel
<1>9. CASE ReadsReply
  BY <1>9 DEF ReadsReply
<1>10. CASE IgnoresProgress
  BY <1>10 DEF IgnoresProgress
<1>11. CASE HandlesProgress
  BY <1>11 DEF HandlesProgress
<1>12. CASE MarkIndexed
  BY <1>12 DEF MarkIndexed
<1>13. CASE ReaderReturns
  BY <1>13 DEF ReaderReturns
<1>14. ASSUME NEW t \in TUs, Counts(t) PROVE WorkTypes'
  <2> DEFINE N == {u \in TUs : number[u] # 0}
  <2>1. t \notin N /\ N \cup {t} \subseteq TUs /\ count = Cardinality(N)
    BY <1>14 DEF Counts, CountInv
  <2>2. IsFiniteSet(N) /\ Cardinality(N \cup {t}) = Cardinality(N) + 1
    BY <2>1, TUsAssumption, FS_Subset, FS_AddElement
  <2>3. count + 1 <= Cardinality(TUs)
    BY <2>1, <2>2, TUsAssumption, FS_Subset
  <2>4. count + 1 \in 0 .. Cardinality(TUs) /\ count \in Nat
    BY <2>3, PlanIsFinite
  <2>5. number' \in [TUs -> 0 .. count']
    BY <1>14, <2>4 DEF Counts
  <2>6. \A u, v \in TUs : (u # v /\ number'[u] # 0) => number'[u] # number'[v]
    BY <1>14, <2>4 DEF Counts
  <2> QED
    BY <1>14, <2>4, <2>5, <2>6 DEF Counts
<1>15. ASSUME NEW t \in TUs, ReportsTU(t) PROVE WorkTypes'
  BY <1>15 DEF ReportsTU
<1>16. ASSUME NEW t \in TUs, DropsTU(t) PROVE WorkTypes'
  BY <1>16 DEF DropsTU
<1>17. CASE Start
  BY <1>17 DEF Start
<1>18. CASE SpawnFails
  BY <1>18 DEF SpawnFails
<1>19. CASE Initialized
  BY <1>19 DEF Initialized
<1>20. CASE InitializeFails
  BY <1>20 DEF InitializeFails
<1>21. CASE OnIndexProgress
  BY <1>21 DEF OnIndexProgress
<1>22. CASE RunFails
  BY <1>22 DEF RunFails
<1>23. CASE WaitIndexed
  BY <1>23 DEF WaitIndexed
<1>24. CASE WaitTimesOut
  BY <1>24 DEF WaitTimesOut
<1>33. CASE Opened
  BY <1>33 DEF Opened
<1>34. CASE WaitCancelled
  BY <1>34 DEF WaitCancelled
<1>35. CASE ReadsHeaders
  BY <1>35 DEF ReadsHeaders
<1>25. CASE RunReturns
  BY <1>25 DEF RunReturns
<1>26. CASE Finishes
  BY <1>26 DEF Finishes
<1>27. CASE ShutdownAnswered
  BY <1>27 DEF ShutdownAnswered
<1>28. CASE ShutdownFails
  BY <1>28 DEF ShutdownFails
<1>29. CASE Reaps
  BY <1>29 DEF Reaps
<1>30. CASE Kills
  BY <1>30 DEF Kills
<1>31. CASE Tick
  BY <1>31 DEF Tick
<1>32. CASE TickerStops
  BY <1>32 DEF TickerStops
<1> QED
  BY <1>1, <1>2, <1>3, <1>4, <1>5, <1>6, <1>7, <1>8, <1>9, <1>10, <1>11, <1>12,
     <1>13, <1>14, <1>15, <1>16, <1>17, <1>18, <1>19, <1>20, <1>21, <1>22, <1>23,
     <1>24, <1>25, <1>26, <1>27, <1>28, <1>29, <1>30, <1>31, <1>32, <1>33, <1>34, <1>35
     DEF Next, Clangd, Reader, Worker, Main

\* What may be painted is a line, whatever the state of the bar.
LEMMA DrawFacts ==
    ASSUME BarTypes, NEW force \in BOOLEAN, NEW b, b.phase = "index" => b.pct \in -1 .. 100,
           b.phase = "extract" => b.done \in 1 .. Cardinality(TUs),
           b.phase \in {"none", "index", "extract"}, NEW line \in Draw(b, force)
    PROVE  /\ line \in {Clear} \cup ({"index"} \X (-1 .. 100)) \cup ({"extract"} \X (1 .. Cardinality(TUs)))
           /\ line = screen \/ (line = Frame(b) /\ b.tty /\ ~b.finished /\ b.phase # "none")
BY DEF Draw, Frame, BarTypes

\* The bar is a record: what a change of some fields leaves of the others.
LEMMA BarIndexes ==
    ASSUME bar \in Bars, NEW pct \in -1 .. 100, bar' = [bar EXCEPT !.phase = "index", !.pct = pct]
    PROVE  /\ bar'.phase = "index" /\ bar'.pct = pct /\ bar'.tty = bar.tty
           /\ bar'.finished = bar.finished /\ bar'.done = bar.done /\ bar' \in Bars
BY DEF Bars

LEMMA BarExtracts ==
    ASSUME bar \in Bars, NEW n \in 0 .. Cardinality(TUs),
           bar' = [bar EXCEPT !.phase = "extract", !.done = n]
    PROVE  /\ bar'.phase = "extract" /\ bar'.done = n /\ bar'.tty = bar.tty
           /\ bar'.finished = bar.finished /\ bar'.pct = bar.pct /\ bar' \in Bars
BY DEF Bars

LEMMA BarFinishes ==
    ASSUME bar \in Bars, bar' = [bar EXCEPT !.finished = TRUE]
    PROVE  /\ bar'.phase = bar.phase /\ bar'.done = bar.done /\ bar'.tty = bar.tty
           /\ bar'.finished /\ bar'.pct = bar.pct /\ bar' \in Bars
BY DEF Bars

LEMMA BarTicks ==
    ASSUME bar \in Bars, NEW on \in BOOLEAN, bar' = [bar EXCEPT !.ticking = on]
    PROVE  /\ bar'.phase = bar.phase /\ bar'.done = bar.done /\ bar'.tty = bar.tty
           /\ bar'.finished = bar.finished /\ bar'.pct = bar.pct /\ bar' \in Bars
BY DEF Bars

\* The step of the bar when the reader fires the callback.
LEMMA IndexFacts ==
    ASSUME BarTypes, BarInv, NEW pct \in -1 .. 100, Fire(pct), UNCHANGED closed
    PROVE  BarTypes' /\ BarInv' /\ Forward
<1>1. CASE UNCHANGED barVars
  BY <1>1 DEF barVars, BarTypes, BarInv, Forward, Clear
<1>2. CASE ~UNCHANGED barVars
  <2> DEFINE to == IF pct > bar.pct THEN pct ELSE bar.pct
  <2>1. /\ bar.phase # "extract" /\ bar' = [bar EXCEPT !.phase = "index", !.pct = to]
        /\ screen' \in Draw(bar', FALSE)
    BY <1>2 DEF Fire, ReportIndex, barVars
  <2>2. bar.pct \in -1 .. 100 /\ to \in -1 .. 100 /\ to >= bar.pct
    BY DEF BarTypes, Bars
  <2>3. /\ bar'.phase = "index" /\ bar'.pct = to /\ bar'.tty = bar.tty
        /\ bar'.finished = bar.finished /\ bar'.done = bar.done
        /\ bar' \in Bars
    BY <2>1, <2>2, BarIndexes DEF BarTypes
  <2> HIDE DEF to
  <2>4. BarTypes'
    BY <2>1, <2>2, <2>3, DrawFacts DEF BarTypes
  <2>a. screen' = screen \/ (screen' = Frame(bar') /\ bar'.tty /\ ~bar'.finished)
    BY <2>1, <2>2, <2>3, DrawFacts
  <2>5. screen' = screen \/ (screen' = <<"index", to>> /\ bar.tty /\ ~bar.finished)
    BY <2>3, <2>a DEF Frame
  <2>6. /\ screen = Clear \/ (screen[1] = "index" /\ screen[2] \in -1 .. 100)
        /\ screen = Clear => screen[1] = "clear"
    BY <2>1 DEF BarTypes, BarInv, Clear
  <2>7. BarInv'
    BY <2>2, <2>3, <2>5, <2>6 DEF BarInv
  <2>8. CASE screen' = screen
    <3>1. (screen[1] = "extract" => screen'[1] # "index") /\ (bar'.finished => screen' = Clear)
      BY <2>3, <2>8 DEF BarInv
    <3>2. screen[1] = "index" /\ screen'[1] = "index" => screen'[2] >= screen[2]
      BY <2>6, <2>8
    <3> QED
      BY <3>1, <3>2, <2>4, <2>7 DEF Forward
  <2>9. CASE screen' = <<"index", to>> /\ bar.tty /\ ~bar.finished
    <3>1. screen[1] # "extract" /\ ~bar'.finished
      BY <2>1, <2>3, <2>9 DEF BarInv
    <3>2. screen'[2] = to
      BY <2>9
    <3>3. screen[1] = "index" => screen[2] \in -1 .. 100 /\ screen[2] <= bar.pct
      BY <2>6 DEF BarInv
    <3>4. screen[1] = "index" => screen'[2] >= screen[2]
      BY <3>2, <3>3, <2>2
    <3> QED
      BY <3>1, <3>4, <2>4, <2>7 DEF Forward
  <2> QED
    BY <2>5, <2>8, <2>9
<1> QED
  BY <1>1, <1>2

\* The step of the bar when a worker reports a TU.
LEMMA ExtractFacts ==
    ASSUME BarTypes, BarInv, NEW n \in 1 .. Cardinality(TUs), ReportExtract(n), UNCHANGED closed
    PROVE  BarTypes' /\ BarInv' /\ Forward
<1>1. /\ bar' = [bar EXCEPT !.phase = "extract", !.done = n] /\ screen' \in Draw(bar', FALSE)
  BY DEF ReportExtract
<1>2. /\ bar'.phase = "extract" /\ bar'.done = n /\ bar'.tty = bar.tty /\ bar'.pct = bar.pct
      /\ bar'.finished = bar.finished
      /\ bar' \in Bars
  <2>1. n \in 0 .. Cardinality(TUs)
    BY PlanIsFinite
  <2> QED
    BY <1>1, <2>1, BarExtracts DEF BarTypes
<1>3. BarTypes'
  <2>1. screen' \in {Clear} \cup ({"index"} \X (-1 .. 100))
                   \cup ({"extract"} \X (1 .. Cardinality(TUs)))
    BY <1>1, <1>2, DrawFacts
  <2> QED
    BY <1>2, <2>1 DEF BarTypes
<1>a. screen' = screen \/ (screen' = Frame(bar') /\ bar'.tty /\ ~bar'.finished)
  BY <1>1, <1>2, DrawFacts
<1>4. screen' = screen \/ (screen' = <<"extract", n>> /\ bar.tty /\ ~bar.finished)
  BY <1>2, <1>a DEF Frame
<1>5. /\ screen = Clear \/ (screen[1] = "index" /\ screen[2] \in -1 .. 100) \/ screen[1] = "extract"
      /\ screen = Clear => screen[1] = "clear"
  BY DEF BarTypes, BarInv, Clear
<1>6. BarInv'
  BY <1>2, <1>4, <1>5 DEF BarInv
<1>7. Forward
  BY <1>2, <1>4, <1>5 DEF BarInv, Forward
<1> QED
  BY <1>3, <1>6, <1>7

\* The other steps of the bar: the ticker, and Finish, which runs twice.
LEMMA TickFacts ==
    ASSUME BarTypes, BarInv, Tick
    PROVE  BarTypes' /\ BarInv' /\ Forward
<1>1. screen' \in Draw(bar, TRUE) /\ UNCHANGED <<bar, closed>>
  BY DEF Tick
<1>2. /\ bar.phase \in {"none", "index", "extract"} /\ bar.pct \in -1 .. 100
      /\ bar.done \in 0 .. Cardinality(TUs)
  BY DEF BarTypes, Bars
<1>3. bar.phase = "extract" => bar.done \in 1 .. Cardinality(TUs)
  BY <1>2, PlanIsFinite DEF BarInv
<1>4. BarTypes'
  BY <1>1, <1>2, <1>3, DrawFacts DEF BarTypes
<1>5. screen' = screen \/ (screen' = Frame(bar) /\ bar.tty /\ ~bar.finished /\ bar.phase # "none")
  BY <1>1, <1>2, <1>3, DrawFacts
<1>6. /\ screen = Clear \/ (screen[1] = "index" /\ screen[2] \in -1 .. 100) \/ screen[1] = "extract"
      /\ screen = Clear => screen[1] = "clear"
  BY DEF BarTypes, BarInv, Clear
<1>7. BarInv'
  BY <1>1, <1>2, <1>5, <1>6 DEF BarInv, Frame
<1>8. Forward
  BY <1>1, <1>2, <1>5, <1>6 DEF BarInv, Frame, Forward
<1> QED
  BY <1>4, <1>7, <1>8

LEMMA FinishFacts ==
    ASSUME BarTypes, BarInv, Finish
    PROVE  BarTypes' /\ BarInv' /\ Forward
<1>1. CASE bar.finished
  BY <1>1 DEF Finish, BarTypes, BarInv, Forward, Clear
<1>2. CASE ~bar.finished
  <2>1. closed.stopTick = 0 /\ closed' \in [indexedCh : 0 .. 1, stopTick : 0 .. 1] /\ closed'.stopTick = 1
    BY <1>2 DEF BarTypes, BarInv, Finish
  <2>2. /\ bar'.phase = bar.phase /\ bar'.done = bar.done /\ bar'.tty = bar.tty
        /\ bar'.pct = bar.pct /\ bar'.finished
        /\ bar' \in Bars
    BY <1>2, BarFinishes DEF BarTypes, Finish
  <2>3. screen' = Clear
    BY <1>2 DEF Finish, BarInv, BarTypes
  <2> QED
    BY <2>1, <2>2, <2>3 DEF BarTypes, BarInv, Forward, Clear
<1> QED
  BY <1>1, <1>2

\* Every action keeps the bar, and paints the next line only where Forward allows it.
LEMMA BarStep ==
  ClangdTypes /\ WorkTypes /\ BarTypes /\ CountInv /\ BarInv /\ [Next]_vars => (BarTypes' /\ BarInv' /\ Forward)
<1> SUFFICES ASSUME ClangdTypes, WorkTypes, BarTypes, CountInv, BarInv, [Next]_vars PROVE (BarTypes' /\ BarInv' /\ Forward)
  OBVIOUS
<1> USE DEF procVars, readerVars, mainVars, workVars, barVars
<1>a. UNCHANGED <<closed, barVars>> => BarTypes' /\ BarInv' /\ Forward
  BY DEF BarTypes, BarInv, Forward, Clear
<1>1. CASE UNCHANGED vars
  BY <1>1, <1>a DEF vars
<1>2. ASSUME NEW req \in {"initialize", "shutdown"}, Answers(req) PROVE (BarTypes' /\ BarInv' /\ Forward)
  BY <1>2, <1>a DEF Answers
<1>3. ASSUME NEW token \in Tokens, BeginsRound(token) PROVE (BarTypes' /\ BarInv' /\ Forward)
  BY <1>3, <1>a DEF BeginsRound
<1>4. ASSUME NEW pct \in Percents, Reports(pct) PROVE (BarTypes' /\ BarInv' /\ Forward)
  BY <1>4, <1>a DEF Reports
<1>5. CASE EndsRound
  BY <1>5, <1>a DEF EndsRound
<1>6. CASE BeginsOther
  BY <1>6, <1>a DEF BeginsOther
<1>7. CASE Exits
  BY <1>7, <1>a DEF Exits
<1>8. CASE Cancel
  BY <1>8, <1>a DEF Cancel
<1>9. CASE ReadsReply
  BY <1>9, <1>a DEF ReadsReply
<1>10. CASE IgnoresProgress
  BY <1>10, <1>a DEF IgnoresProgress
<1>11. CASE HandlesProgress
  <2>1. PercentOf(m0) \in -1 .. 100
    BY <1>11, ReadFacts, PercentFacts DEF HandlesProgress
  <2> QED
    BY <1>11, <2>1, IndexFacts DEF HandlesProgress
<1>12. CASE MarkIndexed
  BY <1>12 DEF MarkIndexed, BarTypes, BarInv, Forward, Clear
<1>13. CASE ReaderReturns
  BY <1>13, <1>a DEF ReaderReturns
<1>14. ASSUME NEW t \in TUs, Counts(t) PROVE (BarTypes' /\ BarInv' /\ Forward)
  BY <1>14, <1>a DEF Counts
<1>15. ASSUME NEW t \in TUs, ReportsTU(t) PROVE (BarTypes' /\ BarInv' /\ Forward)
  <2>1. number[t] \in 1 .. Cardinality(TUs)
    BY <1>15, PlanIsFinite DEF ReportsTU, WorkTypes, CountInv
  <2> QED
    BY <1>15, <2>1, ExtractFacts DEF ReportsTU
<1>16. ASSUME NEW t \in TUs, DropsTU(t) PROVE (BarTypes' /\ BarInv' /\ Forward)
  BY <1>16, <1>a DEF DropsTU
<1>17. CASE Start
  BY <1>17, <1>a DEF Start
<1>18. CASE SpawnFails
  BY <1>18, <1>a DEF SpawnFails
<1>19. CASE Initialized
  <2>1. bar.tty \in BOOLEAN
    BY DEF BarTypes, Bars
  <2> QED
    BY <1>19, <2>1, BarTicks DEF Initialized, NewProgressBar, BarTypes, BarInv, Forward, Clear
<1>20. CASE InitializeFails
  BY <1>20, <1>a DEF InitializeFails
<1>21. CASE OnIndexProgress
  BY <1>21, <1>a DEF OnIndexProgress
<1>22. CASE RunFails
  BY <1>22, <1>a DEF RunFails
<1>23. CASE WaitIndexed
  BY <1>23, <1>a DEF WaitIndexed
<1>24. CASE WaitTimesOut
  BY <1>24, <1>a DEF WaitTimesOut
<1>33. CASE Opened
  BY <1>33, <1>a DEF Opened
<1>34. CASE WaitCancelled
  BY <1>34, <1>a DEF WaitCancelled
<1>35. CASE ReadsHeaders
  BY <1>35, <1>a DEF ReadsHeaders
<1>25. CASE RunReturns
  BY <1>25, <1>a DEF RunReturns
<1>26. CASE Finishes
  BY <1>26, FinishFacts DEF Finishes
<1>27. CASE ShutdownAnswered
  BY <1>27, <1>a DEF ShutdownAnswered
<1>28. CASE ShutdownFails
  BY <1>28, <1>a DEF ShutdownFails
<1>29. CASE Reaps
  BY <1>29, <1>a DEF Reaps
<1>30. CASE Kills
  BY <1>30, <1>a DEF Kills
<1>31. CASE Tick
  BY <1>31, TickFacts
<1>32. CASE TickerStops
  <2>1. bar' = [bar EXCEPT !.ticking = FALSE] /\ UNCHANGED <<closed, screen>>
    BY <1>32 DEF TickerStops
  <2>2. bar \in Bars
    BY DEF BarTypes
  <2>3. /\ bar'.phase = bar.phase /\ bar'.done = bar.done /\ bar'.tty = bar.tty
        /\ bar'.finished = bar.finished /\ bar'.pct = bar.pct /\ bar' \in Bars
    BY <2>1, <2>2, BarTicks
  <2> QED
    BY <2>1, <2>3 DEF BarTypes, BarInv, Forward, Clear
<1> QED
  BY <1>1, <1>2, <1>3, <1>4, <1>5, <1>6, <1>7, <1>8, <1>9, <1>10, <1>11, <1>12,
     <1>13, <1>14, <1>15, <1>16, <1>17, <1>18, <1>19, <1>20, <1>21, <1>22, <1>23,
     <1>24, <1>25, <1>26, <1>27, <1>28, <1>29, <1>30, <1>31, <1>32, <1>33, <1>34, <1>35
     DEF Next, Clangd, Reader, Worker, Main

\* Every action keeps the count that of the TUs with a number.
LEMMA CountStep ==
  WorkTypes /\ CountInv /\ [Next]_vars => CountInv'
<1> SUFFICES ASSUME WorkTypes, CountInv, [Next]_vars PROVE CountInv'
  OBVIOUS
<1> USE DEF CountInv, procVars, readerVars, mainVars, workVars, barVars
<1>1. CASE UNCHANGED vars
  BY <1>1 DEF vars
<1>2. ASSUME NEW req \in {"initialize", "shutdown"}, Answers(req) PROVE CountInv'
  BY <1>2 DEF Answers
<1>3. ASSUME NEW token \in Tokens, BeginsRound(token) PROVE CountInv'
  BY <1>3 DEF BeginsRound
<1>4. ASSUME NEW pct \in Percents, Reports(pct) PROVE CountInv'
  BY <1>4 DEF Reports
<1>5. CASE EndsRound
  BY <1>5 DEF EndsRound
<1>6. CASE BeginsOther
  BY <1>6 DEF BeginsOther
<1>7. CASE Exits
  BY <1>7 DEF Exits
<1>8. CASE Cancel
  BY <1>8 DEF Cancel
<1>9. CASE ReadsReply
  BY <1>9 DEF ReadsReply
<1>10. CASE IgnoresProgress
  BY <1>10 DEF IgnoresProgress
<1>11. CASE HandlesProgress
  BY <1>11 DEF HandlesProgress
<1>12. CASE MarkIndexed
  BY <1>12 DEF MarkIndexed
<1>13. CASE ReaderReturns
  BY <1>13 DEF ReaderReturns
<1>14. ASSUME NEW t \in TUs, Counts(t) PROVE CountInv'
  <2> DEFINE N == {u \in TUs : number[u] # 0}
  <2>1. t \notin N /\ N \subseteq TUs /\ count = Cardinality(N) /\ count \in Nat
    BY <1>14, PlanIsFinite DEF Counts, WorkTypes
  <2>2. IsFiniteSet(N) /\ Cardinality(N \cup {t}) = Cardinality(N) + 1
    BY <2>1, TUsAssumption, FS_Subset, FS_AddElement
  <2>3. {u \in TUs : number'[u] # 0} = N \cup {t}
    BY <1>14, <2>1 DEF Counts, WorkTypes
  <2>4. \A u \in TUs : number'[u] # 0 <=> work'[u] \in {"counted", "reported"}
    BY <1>14, <2>1 DEF Counts, WorkTypes
  <2> QED
    BY <1>14, <2>1, <2>2, <2>3, <2>4 DEF Counts
<1>15. ASSUME NEW t \in TUs, ReportsTU(t) PROVE CountInv'
  BY <1>15 DEF ReportsTU, WorkTypes
<1>16. ASSUME NEW t \in TUs, DropsTU(t) PROVE CountInv'
  BY <1>16 DEF DropsTU, WorkTypes
<1>17. CASE Start
  BY <1>17 DEF Start
<1>18. CASE SpawnFails
  BY <1>18 DEF SpawnFails
<1>19. CASE Initialized
  BY <1>19 DEF Initialized
<1>20. CASE InitializeFails
  BY <1>20 DEF InitializeFails
<1>21. CASE OnIndexProgress
  BY <1>21 DEF OnIndexProgress
<1>22. CASE RunFails
  BY <1>22 DEF RunFails
<1>23. CASE WaitIndexed
  BY <1>23 DEF WaitIndexed
<1>24. CASE WaitTimesOut
  BY <1>24 DEF WaitTimesOut
<1>33. CASE Opened
  BY <1>33 DEF Opened
<1>34. CASE WaitCancelled
  BY <1>34 DEF WaitCancelled
<1>35. CASE ReadsHeaders
  BY <1>35 DEF ReadsHeaders
<1>25. CASE RunReturns
  BY <1>25 DEF RunReturns
<1>26. CASE Finishes
  BY <1>26 DEF Finishes
<1>27. CASE ShutdownAnswered
  BY <1>27 DEF ShutdownAnswered
<1>28. CASE ShutdownFails
  BY <1>28 DEF ShutdownFails
<1>29. CASE Reaps
  BY <1>29 DEF Reaps
<1>30. CASE Kills
  BY <1>30 DEF Kills
<1>31. CASE Tick
  BY <1>31 DEF Tick
<1>32. CASE TickerStops
  BY <1>32 DEF TickerStops
<1> QED
  BY <1>1, <1>2, <1>3, <1>4, <1>5, <1>6, <1>7, <1>8, <1>9, <1>10, <1>11, <1>12,
     <1>13, <1>14, <1>15, <1>16, <1>17, <1>18, <1>19, <1>20, <1>21, <1>22, <1>23,
     <1>24, <1>25, <1>26, <1>27, <1>28, <1>29, <1>30, <1>31, <1>32, <1>33, <1>34, <1>35
     DEF Next, Clangd, Reader, Worker, Main

\* Every action keeps StartInv.
LEMMA StartStep ==
  StartInv /\ [Next]_vars => StartInv'
<1> SUFFICES ASSUME StartInv, [Next]_vars PROVE StartInv'
  OBVIOUS
<1> USE DEF StartInv, Up, procVars, readerVars, mainVars, workVars, barVars
<1>a. main # "done" \/ UNCHANGED vars
  BY DEF Next
<1>1. CASE UNCHANGED vars
  BY <1>1, <1>a DEF vars
<1>2. ASSUME NEW req \in {"initialize", "shutdown"}, Answers(req) PROVE StartInv'
  BY <1>2, <1>a DEF Answers
<1>3. ASSUME NEW token \in Tokens, BeginsRound(token) PROVE StartInv'
  BY <1>3, <1>a DEF BeginsRound
<1>4. ASSUME NEW pct \in Percents, Reports(pct) PROVE StartInv'
  BY <1>4, <1>a DEF Reports
<1>5. CASE EndsRound
  BY <1>5, <1>a DEF EndsRound
<1>6. CASE BeginsOther
  BY <1>6, <1>a DEF BeginsOther
<1>7. CASE Exits
  BY <1>7, <1>a DEF Exits
<1>8. CASE Cancel
  BY <1>8, <1>a DEF Cancel
<1>9. CASE ReadsReply
  BY <1>9, <1>a DEF ReadsReply
<1>10. CASE IgnoresProgress
  BY <1>10, <1>a DEF IgnoresProgress
<1>11. CASE HandlesProgress
  BY <1>11, <1>a DEF HandlesProgress
<1>12. CASE MarkIndexed
  BY <1>12, <1>a DEF MarkIndexed
<1>13. CASE ReaderReturns
  BY <1>13, <1>a DEF ReaderReturns
<1>14. ASSUME NEW t \in TUs, Counts(t) PROVE StartInv'
  BY <1>14, <1>a DEF Counts
<1>15. ASSUME NEW t \in TUs, ReportsTU(t) PROVE StartInv'
  BY <1>15, <1>a DEF ReportsTU
<1>16. ASSUME NEW t \in TUs, DropsTU(t) PROVE StartInv'
  BY <1>16, <1>a DEF DropsTU
<1>17. CASE Start
  BY <1>17, <1>a DEF Start, At
<1>18. CASE SpawnFails
  BY <1>18, <1>a DEF SpawnFails, At
<1>19. CASE Initialized
  BY <1>19, <1>a DEF Initialized, At
<1>20. CASE InitializeFails
  BY <1>20, <1>a DEF InitializeFails, At
<1>21. CASE OnIndexProgress
  BY <1>21, <1>a DEF OnIndexProgress, At
<1>22. CASE RunFails
  BY <1>22, <1>a DEF RunFails, At
<1>23. CASE WaitIndexed
  BY <1>23, <1>a DEF WaitIndexed, At
<1>24. CASE WaitTimesOut
  BY <1>24, <1>a DEF WaitTimesOut, At
<1>33. CASE Opened
  BY <1>33, <1>a DEF Opened, At
<1>34. CASE WaitCancelled
  BY <1>34, <1>a DEF WaitCancelled, At
<1>35. CASE ReadsHeaders
  BY <1>35, <1>a DEF ReadsHeaders, At
<1>25. CASE RunReturns
  BY <1>25, <1>a DEF RunReturns, At
<1>26. CASE Finishes
  BY <1>26, <1>a DEF Finishes, At
<1>27. CASE ShutdownAnswered
  BY <1>27, <1>a DEF ShutdownAnswered, At
<1>28. CASE ShutdownFails
  BY <1>28, <1>a DEF ShutdownFails, At
<1>29. CASE Reaps
  BY <1>29, <1>a DEF Reaps, At
<1>30. CASE Kills
  BY <1>30, <1>a DEF Kills
<1>31. CASE Tick
  BY <1>31, <1>a DEF Tick
<1>32. CASE TickerStops
  BY <1>32, <1>a DEF TickerStops
<1> QED
  BY <1>1, <1>2, <1>3, <1>4, <1>5, <1>6, <1>7, <1>8, <1>9, <1>10, <1>11, <1>12,
     <1>13, <1>14, <1>15, <1>16, <1>17, <1>18, <1>19, <1>20, <1>21, <1>22, <1>23,
     <1>24, <1>25, <1>26, <1>27, <1>28, <1>29, <1>30, <1>31, <1>32, <1>33, <1>34, <1>35
     DEF Next, Clangd, Reader, Worker, Main

\* Every action keeps NoClangdLeft: build ends only where clangd was never started, was reaped,
\* or failed its handshake.
LEMMA NoClangdLeftStep ==
  BuildTypes /\ StartInv /\ NoClangdLeft /\ [Next]_vars => NoClangdLeft'
<1> SUFFICES ASSUME BuildTypes, StartInv, NoClangdLeft, [Next]_vars PROVE NoClangdLeft'
  OBVIOUS
<1> USE DEF NoClangdLeft, procVars, readerVars, mainVars, workVars, barVars
<1>1. CASE UNCHANGED vars
  BY <1>1 DEF vars
<1>2. ASSUME NEW req \in {"initialize", "shutdown"}, Answers(req) PROVE NoClangdLeft'
  BY <1>2 DEF Answers
<1>3. ASSUME NEW token \in Tokens, BeginsRound(token) PROVE NoClangdLeft'
  BY <1>3 DEF BeginsRound
<1>4. ASSUME NEW pct \in Percents, Reports(pct) PROVE NoClangdLeft'
  BY <1>4 DEF Reports
<1>5. CASE EndsRound
  BY <1>5 DEF EndsRound
<1>6. CASE BeginsOther
  BY <1>6 DEF BeginsOther
<1>7. CASE Exits
  BY <1>7 DEF Exits, Up
<1>8. CASE Cancel
  BY <1>8 DEF Cancel
<1>9. CASE ReadsReply
  BY <1>9 DEF ReadsReply
<1>10. CASE IgnoresProgress
  BY <1>10 DEF IgnoresProgress
<1>11. CASE HandlesProgress
  BY <1>11 DEF HandlesProgress
<1>12. CASE MarkIndexed
  BY <1>12 DEF MarkIndexed
<1>13. CASE ReaderReturns
  BY <1>13 DEF ReaderReturns
<1>14. ASSUME NEW t \in TUs, Counts(t) PROVE NoClangdLeft'
  BY <1>14 DEF Counts
<1>15. ASSUME NEW t \in TUs, ReportsTU(t) PROVE NoClangdLeft'
  BY <1>15 DEF ReportsTU
<1>16. ASSUME NEW t \in TUs, DropsTU(t) PROVE NoClangdLeft'
  BY <1>16 DEF DropsTU
<1>17. CASE Start
  BY <1>17 DEF Start, At
<1>18. CASE SpawnFails
  BY <1>18 DEF SpawnFails, At, StartInv
<1>19. CASE Initialized
  BY <1>19 DEF Initialized, At
<1>20. CASE InitializeFails
  BY <1>20 DEF InitializeFails, At, StartInv
<1>21. CASE OnIndexProgress
  BY <1>21 DEF OnIndexProgress, At
<1>22. CASE RunFails
  BY <1>22 DEF RunFails, At
<1>23. CASE WaitIndexed
  BY <1>23 DEF WaitIndexed, At
<1>24. CASE WaitTimesOut
  BY <1>24 DEF WaitTimesOut, At
<1>33. CASE Opened
  BY <1>33 DEF Opened, At
<1>34. CASE WaitCancelled
  BY <1>34 DEF WaitCancelled, At
<1>35. CASE ReadsHeaders
  BY <1>35 DEF ReadsHeaders, At
<1>25. CASE RunReturns
  BY <1>25 DEF RunReturns, At
<1>26. CASE Finishes
  BY <1>26 DEF Finishes, At
<1>27. CASE ShutdownAnswered
  BY <1>27 DEF ShutdownAnswered, At
<1>28. CASE ShutdownFails
  BY <1>28 DEF ShutdownFails, At
<1>29. CASE Reaps
  BY <1>29 DEF Reaps, At
<1>30. CASE Kills
  BY <1>30 DEF Kills, Up
<1>31. CASE Tick
  BY <1>31 DEF Tick
<1>32. CASE TickerStops
  BY <1>32 DEF TickerStops
<1> QED
  BY <1>1, <1>2, <1>3, <1>4, <1>5, <1>6, <1>7, <1>8, <1>9, <1>10, <1>11, <1>12,
     <1>13, <1>14, <1>15, <1>16, <1>17, <1>18, <1>19, <1>20, <1>21, <1>22, <1>23,
     <1>24, <1>25, <1>26, <1>27, <1>28, <1>29, <1>30, <1>31, <1>32, <1>33, <1>34, <1>35
     DEF Next, Clangd, Reader, Worker, Main

\* Every action keeps EndIsHeard: the reader drops no end of background indexing.
LEMMA EndIsHeardStep ==
  ClangdTypes /\ BarTypes /\ StartInv /\ EndIsHeard /\ [Next]_vars => EndIsHeard'
<1> SUFFICES ASSUME ClangdTypes, BarTypes, StartInv, EndIsHeard, [Next]_vars PROVE EndIsHeard'
  OBVIOUS
<1> USE DEF EndIsHeard, procVars, readerVars, mainVars, workVars, barVars
<1>1. CASE UNCHANGED vars
  BY <1>1 DEF vars
<1>2. ASSUME NEW req \in {"initialize", "shutdown"}, Answers(req) PROVE EndIsHeard'
  <2>1. Sends([kind |-> "reply", req |-> req]) /\ [kind |-> "reply", req |-> req] \in Messages
    BY <1>2, MessageFacts DEF Answers
  <2> QED
    BY <1>2, <2>1, SendFacts DEF Answers
<1>3. ASSUME NEW token \in Tokens, BeginsRound(token) PROVE EndIsHeard'
  <2>1. Sends([kind |-> "begin", token |-> token, title |-> "indexing"]) /\ [kind |-> "begin", token |-> token, title |-> "indexing"] \in Messages
    BY <1>3, MessageFacts DEF BeginsRound
  <2> QED
    BY <1>3, <2>1, SendFacts DEF BeginsRound
<1>4. ASSUME NEW pct \in Percents, Reports(pct) PROVE EndIsHeard'
  <2>1. indexing \in Tokens
    BY <1>4 DEF Reports, ClangdTypes
  <2>2. Sends([kind |-> "report", token |-> indexing, pct |-> pct]) /\ [kind |-> "report", token |-> indexing, pct |-> pct] \in Messages
    BY <1>4, <2>1, MessageFacts DEF Reports
  <2> QED
    BY <1>4, <2>2, SendFacts DEF Reports
<1>5. CASE EndsRound
  <2>1. indexing \in Tokens
    BY <1>5 DEF EndsRound, ClangdTypes
  <2>2. Sends([kind |-> "end", token |-> indexing]) /\ [kind |-> "end", token |-> indexing] \in Messages
    BY <1>5, <2>1, MessageFacts DEF EndsRound
  <2> QED
    <3>1. /\ \A i \in DOMAIN pipe : i \in DOMAIN pipe' /\ pipe'[i] = pipe[i]
          /\ \E i \in DOMAIN pipe' : pipe'[i] = [kind |-> "end", token |-> indexing]
      BY <2>2, SendFacts
    <3>2. CASE indexing = "background"
      BY <1>5, <3>1, <3>2 DEF EndsRound
    <3>3. CASE indexing # "background"
      BY <1>5, <3>1, <3>3 DEF EndsRound
    <3> QED
      BY <3>2, <3>3
<1>6. CASE BeginsOther
  <2>1. Sends([kind |-> "begin", token |-> "other", title |-> "other"]) /\ [kind |-> "begin", token |-> "other", title |-> "other"] \in Messages
    BY <1>6, MessageFacts DEF BeginsOther, Tokens
  <2> QED
    BY <1>6, <2>1, SendFacts DEF BeginsOther
<1>7. CASE Exits
  BY <1>7 DEF Exits, Up
<1>8. CASE Cancel
  BY <1>8 DEF Cancel
<1>9. CASE ReadsReply
  BY <1>9, ReadFacts DEF ReadsReply, IsBgIndex
<1>10. CASE IgnoresProgress
  BY <1>10, ReadFacts DEF IgnoresProgress, IsBgIndex
<1>11. CASE HandlesProgress
  <2>1. CASE m0.kind = "end"
    BY <1>11, <2>1 DEF HandlesProgress
  <2>2. CASE m0.kind # "end"
    BY <1>11, <2>2, ReadFacts DEF HandlesProgress, Reading
  <2> QED
    BY <2>1, <2>2
<1>12. CASE MarkIndexed
  BY <1>12 DEF MarkIndexed, BarTypes
<1>13. CASE ReaderReturns
  BY <1>13 DEF ReaderReturns
<1>14. ASSUME NEW t \in TUs, Counts(t) PROVE EndIsHeard'
  BY <1>14 DEF Counts
<1>15. ASSUME NEW t \in TUs, ReportsTU(t) PROVE EndIsHeard'
  BY <1>15 DEF ReportsTU
<1>16. ASSUME NEW t \in TUs, DropsTU(t) PROVE EndIsHeard'
  BY <1>16 DEF DropsTU
<1>17. CASE Start
  BY <1>17 DEF Start, At, StartInv
<1>18. CASE SpawnFails
  BY <1>18 DEF SpawnFails
<1>19. CASE Initialized
  BY <1>19 DEF Initialized
<1>20. CASE InitializeFails
  BY <1>20 DEF InitializeFails, At, StartInv
<1>21. CASE OnIndexProgress
  BY <1>21 DEF OnIndexProgress
<1>22. CASE RunFails
  BY <1>22 DEF RunFails
<1>23. CASE WaitIndexed
  BY <1>23 DEF WaitIndexed
<1>24. CASE WaitTimesOut
  BY <1>24 DEF WaitTimesOut
<1>33. CASE Opened
  BY <1>33 DEF Opened
<1>34. CASE WaitCancelled
  BY <1>34 DEF WaitCancelled
<1>35. CASE ReadsHeaders
  BY <1>35 DEF ReadsHeaders
<1>25. CASE RunReturns
  BY <1>25 DEF RunReturns
<1>26. CASE Finishes
  <2>1. closed'.indexedCh = closed.indexedCh
    BY <1>26 DEF Finishes, Finish, BarTypes
  <2> QED
    BY <1>26, <2>1 DEF Finishes
<1>27. CASE ShutdownAnswered
  BY <1>27 DEF ShutdownAnswered
<1>28. CASE ShutdownFails
  BY <1>28 DEF ShutdownFails
<1>29. CASE Reaps
  BY <1>29 DEF Reaps
<1>30. CASE Kills
  BY <1>30 DEF Kills, Up
<1>31. CASE Tick
  BY <1>31 DEF Tick
<1>32. CASE TickerStops
  BY <1>32 DEF TickerStops
<1> QED
  BY <1>1, <1>2, <1>3, <1>4, <1>5, <1>6, <1>7, <1>8, <1>9, <1>10, <1>11, <1>12,
     <1>13, <1>14, <1>15, <1>16, <1>17, <1>18, <1>19, <1>20, <1>21, <1>22, <1>23,
     <1>24, <1>25, <1>26, <1>27, <1>28, <1>29, <1>30, <1>31, <1>32, <1>33, <1>34, <1>35
     DEF Next, Clangd, Reader, Worker, Main

\* The invariant is inductive.
LEMMA Inductive == IInv /\ [Next]_vars => IInv'
BY ClangdTypesStep, BuildTypesStep, WorkTypesStep, BarStep, CountStep, StartStep, NoClangdLeftStep,
   EndIsHeardStep
   DEF IInv, TypeOK

\* Safety: IInv holds whatever clangd, the workers and the deadlines do.
THEOREM Invariance == Spec => []IInv
<1>1. Init => IInv
  BY InitInv
<1>2. IInv /\ [Next]_vars => IInv'
  BY Inductive
<1> QED
  BY <1>1, <1>2, PTL DEF Spec

\* Safety: no channel is closed twice and no number is shown twice.
THEOREM TypeCorrect == Spec => []TypeOK
<1>1. IInv => TypeOK
  BY DEF IInv
<1> QED
  BY <1>1, Invariance, PTL

\* Safety: build leaves no clangd behind but one whose handshake failed.
THEOREM NoClangdLeftAlways == Spec => []NoClangdLeft
<1>1. IInv => NoClangdLeft
  BY DEF IInv
<1> QED
  BY <1>1, Invariance, PTL

\* Safety: the end of a round of indexing is not lost.
THEOREM EndIsHeardAlways == Spec => []EndIsHeard
<1>1. IInv => EndIsHeard
  BY DEF IInv
<1> QED
  BY <1>1, Invariance, PTL

\* Action: the line on the screen never goes back from the extraction to the
\* index nor in the percentage of the index, and stays cleared.
THEOREM LineKeepsOrderAlways == Spec => LineKeepsOrder
<1>1. IInv /\ [Next]_vars => [Forward]_vars
  BY BarStep DEF IInv, TypeOK
<1> QED
  BY <1>1, Invariance, PTL DEF Spec, LineKeepsOrder

=============================================================================
