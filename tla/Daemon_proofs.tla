--------------------------- MODULE Daemon_proofs ---------------------------
(***************************************************************************)
(* Proofs about the rebuild loop for every value of its constants: the     *)
(* invariant IInv of module Daemon is inductive, and the safety properties *)
(* and the refinement of LiveIndex follow from it.                         *)
(***************************************************************************)
EXTENDS Daemon, TLAPS

\* A daemon that has not spawned clangd yet satisfies the invariant.
LEMMA InitInv == Init => IInv
<1> SUFFICES ASSUME Init PROVE IInv
  OBVIOUS
<1>1. TypeOK
  <2>1. restartCh \in BOOLEAN /\ ctxDone \in BOOLEAN /\ broken \in BOOLEAN
    BY DEF Init
  <2>2. version \in 1 .. MaxVersion /\ attempt \in 0 .. MaxCrashRetries - 1
    BY BoundsAssumption DEF Init, MaxCrashRetries
  <2>3. /\ spawned \in Nat /\ current \in 0 .. spawned /\ victim \in 0 .. spawned
        /\ alive \subseteq 1 .. spawned /\ reaped \subseteq 1 .. spawned
    BY DEF Init
  <2> QED
    BY <2>1, <2>2, <2>3 DEF Init, TypeOK, LoopStates
<1>2. VersionsInv /\ ProcessInv /\ NoLostPulse
  BY BoundsAssumption DEF Init, VersionsInv, ProcessInv, NoLostPulse, RebuildPending, Exiting
<1>3. CausesInv /\ AttemptsInv /\ NoSpuriousRestart /\ GaveUpAfterThreeCrashes
  BY DEF Init, CausesInv, AttemptsInv, NoSpuriousRestart, GaveUpAfterThreeCrashes, One,
         Unnoticed, Retries, Respawns, FileEvents
<1> QED
  BY <1>1, <1>2, <1>3 DEF IInv

\* Every action keeps every variable in its type.
LEMMA TypeStep == TypeOK /\ VersionsInv /\ [Next]_vars => TypeOK'
<1> SUFFICES ASSUME TypeOK, VersionsInv, [Next]_vars PROVE TypeOK'
  OBVIOUS
<1> USE BoundsAssumption DEF TypeOK, LoopStates, MaxCrashRetries,
        fileVars, watchVars, loopVars, procVars, indexVars, stopVars
<1>1. CASE UNCHANGED vars
  BY <1>1 DEF vars
<1>2. CASE ReplaceCompDB
  BY <1>2 DEF ReplaceCompDB, Notified
<1>3. CASE BeginRewrite
  BY <1>3 DEF BeginRewrite, Notified
<1>4. CASE EndRewrite
  BY <1>4 DEF EndRewrite, Notified, VersionsInv
<1>5. CASE RemoveCompDB
  BY <1>5 DEF RemoveCompDB
<1>6. CASE WatchAdd
  BY <1>6 DEF WatchAdd
<1>7. CASE ReceiveEvent
  BY <1>7 DEF ReceiveEvent, Restart
<1>8. CASE WatchReturns
  BY <1>8 DEF WatchReturns
<1>9. CASE SelectDone
  BY <1>9 DEF SelectDone, StopCurrent
<1>10. CASE SelectRestart
  BY <1>10 DEF SelectRestart
<1>11. CASE SelectTimer
  BY <1>11 DEF SelectTimer, StopCurrent
<1>12. CASE DebounceElapses
  BY <1>12 DEF DebounceElapses
<1>13. CASE StopReturns
  BY <1>13 DEF StopReturns
<1>14. CASE Spawn
  <2>1. spawned' \in Nat /\ current' \in 0 .. spawned' /\ victim' \in 0 .. spawned'
    BY <1>14 DEF Spawn
  <2>2. alive' \subseteq 1 .. spawned' /\ reaped' \subseteq 1 .. spawned'
    BY <1>14 DEF Spawn
  <2> QED
    BY <1>14, <2>1, <2>2 DEF Spawn
<1>15. CASE SpawnFails
  BY <1>15 DEF SpawnFails, ReturnFromRun
<1>16. CASE Initialized
  BY <1>16 DEF Initialized
<1>17. CASE InitializeFails
  BY <1>17 DEF InitializeFails, ReturnFromRun
<1>18. CASE LoadCompDB
  BY <1>18 DEF LoadCompDB
<1>19. CASE OnReadyFails
  BY <1>19 DEF OnReadyFails, ReturnFromRun
<1>20. CASE ExtractCrashes
  BY <1>20 DEF ExtractCrashes, StopCurrent
<1>21. CASE ExtractReturns
  BY <1>21 DEF ExtractReturns
<1>22. CASE Publish
  BY <1>22 DEF Publish
<1>23. CASE BackoffElapses
  BY <1>23 DEF BackoffElapses, ReturnFromRun
<1>24. CASE BackoffCancelled
  BY <1>24 DEF BackoffCancelled, ReturnFromRun
<1>25. CASE ClangdDies
  BY <1>25 DEF ClangdDies
<1>26. CASE Cancel
  BY <1>26 DEF Cancel
<1>27. CASE ContextKills
  BY <1>27 DEF ContextKills
<1>28. CASE Close
  BY <1>28 DEF Close
<1>29. CASE CloseReturns
  BY <1>29 DEF CloseReturns
<1>30. CASE WatchFails
  BY <1>30 DEF WatchFails
<1>31. CASE StreamBreaks
  BY <1>31 DEF StreamBreaks
<1> QED
  BY <1>1, <1>2, <1>3, <1>4, <1>5, <1>6, <1>7, <1>8, <1>9, <1>10, <1>11, <1>12,
     <1>13, <1>14, <1>15, <1>16, <1>17, <1>18, <1>19, <1>20, <1>21, <1>22,
     <1>23, <1>24, <1>25, <1>26, <1>27, <1>28, <1>29, <1>30, <1>31
     DEF Next, Environment, Watcher, Loop

\* What is published was loaded, and what was loaded exists.
LEMMA VersionsStep == TypeOK /\ VersionsInv /\ [Next]_vars => VersionsInv'
<1> SUFFICES ASSUME TypeOK, VersionsInv, [Next]_vars PROVE VersionsInv'
  OBVIOUS
<1> USE DEF TypeOK, VersionsInv,
        fileVars, watchVars, loopVars, procVars, indexVars, stopVars
<1>1. CASE UNCHANGED <<version, content, events, watcher, watchedFrom, loop,
      readV, served>>
  BY <1>1
<1>2. CASE ReplaceCompDB
  BY <1>2 DEF ReplaceCompDB, Notified
<1>3. CASE BeginRewrite
  BY <1>3 DEF BeginRewrite, Notified
<1>4. CASE EndRewrite
  BY <1>4 DEF EndRewrite, Notified
<1>5. CASE RemoveCompDB
  BY <1>5 DEF RemoveCompDB
<1>6. CASE WatchAdd
  BY <1>6 DEF WatchAdd
<1>7. CASE ReceiveEvent
  BY <1>7 DEF ReceiveEvent, Restart
<1>8. CASE WatchReturns
  BY <1>8 DEF WatchReturns
<1>9. CASE SelectDone
  BY <1>9 DEF SelectDone, StopCurrent
<1>10. CASE SelectTimer
  BY <1>10 DEF SelectTimer, StopCurrent
<1>11. CASE StopReturns
  BY <1>11 DEF StopReturns
<1>12. CASE Spawn
  BY <1>12 DEF Spawn
<1>13. CASE SpawnFails
  BY <1>13 DEF SpawnFails, ReturnFromRun
<1>14. CASE Initialized
  BY <1>14 DEF Initialized
<1>15. CASE InitializeFails
  BY <1>15 DEF InitializeFails, ReturnFromRun
<1>16. CASE LoadCompDB
  BY <1>16 DEF LoadCompDB
<1>17. CASE OnReadyFails
  BY <1>17 DEF OnReadyFails, ReturnFromRun
<1>18. CASE ExtractCrashes
  BY <1>18 DEF ExtractCrashes, StopCurrent
<1>19. CASE ExtractReturns
  BY <1>19 DEF ExtractReturns
<1>20. CASE Publish
  BY <1>20 DEF Publish
<1>21. CASE BackoffElapses
  BY <1>21 DEF BackoffElapses, ReturnFromRun
<1>22. CASE BackoffCancelled
  BY <1>22 DEF BackoffCancelled, ReturnFromRun
<1>23. ASSUME UNCHANGED vars \/ SelectRestart \/ DebounceElapses \/ ClangdDies
      \/ StreamBreaks \/ Cancel \/ ContextKills \/ Close \/ CloseReturns
      PROVE  UNCHANGED <<version, content, events, watcher, watchedFrom, loop,
            readV, served>>
  BY <1>23 DEF vars, SelectRestart, DebounceElapses, ClangdDies, StreamBreaks,
     Cancel, ContextKills, Close, CloseReturns
<1>24. CASE WatchFails
  BY <1>24 DEF WatchFails
<1> QED
  BY <1>1, <1>2, <1>3, <1>4, <1>5, <1>6, <1>7, <1>8, <1>9, <1>10, <1>11, <1>12,
     <1>13, <1>14, <1>15, <1>16, <1>17, <1>18, <1>19, <1>20, <1>21, <1>22,
     <1>23, <1>24
     DEF Next, Environment, Watcher, Loop

\* Every clangd but the last one was collected before its successor.
LEMMA ProcessStep == TypeOK /\ ProcessInv /\ [Next]_vars => ProcessInv'
<1> SUFFICES ASSUME TypeOK, ProcessInv, [Next]_vars PROVE ProcessInv'
  OBVIOUS
<1> USE DEF TypeOK, ProcessInv,
        fileVars, watchVars, loopVars, procVars, indexVars, stopVars
<1>1. CASE UNCHANGED <<loop, current, victim, spawned, alive, reaped>>
  BY <1>1
<1>2. CASE SelectDone
  BY <1>2 DEF SelectDone, StopCurrent
<1>3. CASE SelectTimer
  BY <1>3 DEF SelectTimer, StopCurrent
<1>4. CASE StopReturns
  BY <1>4 DEF StopReturns
<1>5. CASE Spawn
  BY <1>5 DEF Spawn
<1>6. CASE SpawnFails
  BY <1>6 DEF SpawnFails, ReturnFromRun
<1>7. CASE Initialized
  BY <1>7 DEF Initialized
<1>8. CASE InitializeFails
  BY <1>8 DEF InitializeFails, ReturnFromRun
<1>9. CASE LoadCompDB
  BY <1>9 DEF LoadCompDB
<1>10. CASE OnReadyFails
  BY <1>10 DEF OnReadyFails, ReturnFromRun
<1>11. CASE ExtractCrashes
  BY <1>11 DEF ExtractCrashes, StopCurrent
<1>12. CASE ExtractReturns
  BY <1>12 DEF ExtractReturns
<1>13. CASE Publish
  BY <1>13 DEF Publish
<1>14. CASE BackoffElapses
  BY <1>14 DEF BackoffElapses, ReturnFromRun
<1>15. CASE BackoffCancelled
  BY <1>15 DEF BackoffCancelled, ReturnFromRun
<1>16. CASE ClangdDies
  BY <1>16 DEF ClangdDies
<1>17. CASE ContextKills
  BY <1>17 DEF ContextKills
<1>18. ASSUME UNCHANGED vars \/ ReplaceCompDB \/ BeginRewrite \/ EndRewrite \/
      RemoveCompDB \/ WatchAdd \/ WatchFails \/ ReceiveEvent \/ WatchReturns \/
      SelectRestart \/ DebounceElapses \/ StreamBreaks \/ Cancel \/ Close \/ CloseReturns
      PROVE  UNCHANGED <<loop, current, victim, spawned, alive, reaped>>
  BY <1>18 DEF vars, ReplaceCompDB, BeginRewrite, EndRewrite, RemoveCompDB,
     WatchAdd, WatchFails, ReceiveEvent, WatchReturns, SelectRestart,
     DebounceElapses, StreamBreaks, Cancel, Close, CloseReturns
<1>19. CASE StreamBreaks
  BY <1>19 DEF StreamBreaks
<1> QED
  BY <1>1, <1>2, <1>3, <1>4, <1>5, <1>6, <1>7, <1>8, <1>9, <1>10, <1>11, <1>12,
     <1>13, <1>14, <1>15, <1>16, <1>17, <1>18, <1>19
     DEF Next, Environment, Watcher, Loop

\* A change only ever moves along the pipeline event, pulse, timer, load.
LEMMA PulseStep == TypeOK /\ VersionsInv /\ NoLostPulse /\ [Next]_vars =>
      NoLostPulse'
<1> SUFFICES ASSUME TypeOK, VersionsInv, NoLostPulse, [Next]_vars PROVE
      NoLostPulse'
  OBVIOUS
<1> USE DEF TypeOK, VersionsInv, NoLostPulse, RebuildPending, Exiting,
        fileVars, watchVars, loopVars, procVars, indexVars, stopVars
<1>1. CASE UNCHANGED <<version, events, watcher, watchedFrom, restartCh, timer,
      loop, after, readV>>
  BY <1>1
<1>2. CASE ReplaceCompDB
  BY <1>2 DEF ReplaceCompDB, Notified
<1>3. CASE BeginRewrite
  BY <1>3 DEF BeginRewrite, Notified
<1>4. CASE EndRewrite
  BY <1>4 DEF EndRewrite, Notified
<1>5. CASE WatchAdd
  BY <1>5 DEF WatchAdd
<1>6. CASE ReceiveEvent
  BY <1>6 DEF ReceiveEvent, Restart
<1>7. CASE WatchReturns
  BY <1>7 DEF WatchReturns
<1>8. CASE SelectDone
  BY <1>8 DEF SelectDone, StopCurrent
<1>9. CASE SelectRestart
  BY <1>9 DEF SelectRestart
<1>10. CASE SelectTimer
  BY <1>10 DEF SelectTimer, StopCurrent
<1>11. CASE DebounceElapses
  BY <1>11 DEF DebounceElapses
<1>12. CASE StopReturns
  BY <1>12 DEF StopReturns
<1>13. CASE Spawn
  BY <1>13 DEF Spawn
<1>14. CASE SpawnFails
  BY <1>14 DEF SpawnFails, ReturnFromRun
<1>15. CASE Initialized
  BY <1>15 DEF Initialized
<1>16. CASE InitializeFails
  BY <1>16 DEF InitializeFails, ReturnFromRun
<1>17. CASE LoadCompDB
  BY <1>17 DEF LoadCompDB
<1>18. CASE OnReadyFails
  BY <1>18 DEF OnReadyFails, ReturnFromRun
<1>19. CASE ExtractCrashes
  BY <1>19 DEF ExtractCrashes, StopCurrent
<1>20. CASE ExtractReturns
  BY <1>20 DEF ExtractReturns
<1>21. CASE Publish
  BY <1>21 DEF Publish
<1>22. CASE BackoffElapses
  BY <1>22 DEF BackoffElapses, ReturnFromRun
<1>23. CASE BackoffCancelled
  BY <1>23 DEF BackoffCancelled, ReturnFromRun
<1>24. ASSUME UNCHANGED vars \/ RemoveCompDB \/ ClangdDies \/ StreamBreaks \/ Cancel \/
      ContextKills \/ Close \/ CloseReturns
      PROVE  UNCHANGED <<version, events, watcher, watchedFrom, restartCh,
            timer, loop, after, readV>>
  BY <1>24 DEF vars, RemoveCompDB, ClangdDies, StreamBreaks, Cancel, ContextKills, Close,
     CloseReturns
<1>25. CASE WatchFails
  BY <1>25 DEF WatchFails
<1> QED
  BY <1>1, <1>2, <1>3, <1>4, <1>5, <1>6, <1>7, <1>8, <1>9, <1>10, <1>11, <1>12,
     <1>13, <1>14, <1>15, <1>16, <1>17, <1>18, <1>19, <1>20, <1>21, <1>22,
     <1>23, <1>24, <1>25
     DEF Next, Environment, Watcher, Loop

\* Only the clangd that was started last may still run.
LEMMA LastAlone == TypeOK /\ ProcessInv => alive \subseteq {spawned}
BY DEF TypeOK, ProcessInv

\* Every action keeps CausesInv: an event becomes a pulse, a tick and a restart, a crash a retry.
LEMMA CausesStep ==
  TypeOK /\ ProcessInv /\ CausesInv /\ [Next]_vars => CausesInv'
<1> SUFFICES ASSUME TypeOK, ProcessInv, CausesInv, [Next]_vars PROVE CausesInv'
  OBVIOUS
<1> USE LastAlone DEF TypeOK, ProcessInv, CausesInv, One, Unnoticed, Retries, Respawns, FileEvents,
        fileVars, watchVars, loopVars, procVars, indexVars, stopVars
<1>1. CASE UNCHANGED vars
  BY <1>1 DEF vars
<1>2. CASE ReplaceCompDB
  BY <1>2 DEF ReplaceCompDB, Notified
<1>3. CASE BeginRewrite
  BY <1>3 DEF BeginRewrite, Notified
<1>4. CASE EndRewrite
  BY <1>4 DEF EndRewrite, Notified
<1>5. CASE RemoveCompDB
  BY <1>5 DEF RemoveCompDB
<1>6. CASE WatchAdd
  BY <1>6 DEF WatchAdd
<1>7. CASE ReceiveEvent
  BY <1>7 DEF ReceiveEvent, Restart
<1>8. CASE WatchReturns
  BY <1>8 DEF WatchReturns
<1>9. CASE SelectDone
  BY <1>9 DEF SelectDone, StopCurrent
<1>10. CASE SelectRestart
  BY <1>10 DEF SelectRestart
<1>11. CASE SelectTimer
  BY <1>11 DEF SelectTimer, StopCurrent
<1>12. CASE DebounceElapses
  BY <1>12 DEF DebounceElapses
<1>13. CASE StopReturns
  BY <1>13 DEF StopReturns
<1>14. CASE Spawn
  BY <1>14 DEF Spawn
<1>15. CASE SpawnFails
  BY <1>15 DEF SpawnFails, ReturnFromRun
<1>16. CASE Initialized
  BY <1>16 DEF Initialized
<1>17. CASE InitializeFails
  BY <1>17 DEF InitializeFails, ReturnFromRun
<1>18. CASE LoadCompDB
  BY <1>18 DEF LoadCompDB
<1>19. CASE OnReadyFails
  BY <1>19 DEF OnReadyFails, ReturnFromRun
<1>20. CASE ExtractCrashes
  BY <1>20 DEF ExtractCrashes, StopCurrent
<1>21. CASE ExtractReturns
  BY <1>21 DEF ExtractReturns
<1>22. CASE Publish
  BY <1>22 DEF Publish
<1>23. CASE BackoffElapses
  BY <1>23 DEF BackoffElapses, ReturnFromRun
<1>24. CASE BackoffCancelled
  BY <1>24 DEF BackoffCancelled, ReturnFromRun
<1>25. CASE ClangdDies
  BY <1>25 DEF ClangdDies
<1>26. CASE Cancel
  BY <1>26 DEF Cancel
<1>27. CASE ContextKills
  BY <1>27 DEF ContextKills
<1>28. CASE Close
  BY <1>28 DEF Close
<1>29. CASE CloseReturns
  BY <1>29 DEF CloseReturns
<1>30. CASE WatchFails
  BY <1>30 DEF WatchFails
<1>31. CASE StreamBreaks
  BY <1>31 DEF StreamBreaks
<1> QED
  BY <1>1, <1>2, <1>3, <1>4, <1>5, <1>6, <1>7, <1>8, <1>9, <1>10, <1>11, <1>12,
     <1>13, <1>14, <1>15, <1>16, <1>17, <1>18, <1>19, <1>20, <1>21, <1>22, <1>23,
     <1>24, <1>25, <1>26, <1>27, <1>28, <1>29, <1>30, <1>31
     DEF Next, Environment, Watcher, Loop

\* Every action keeps AttemptsInv.
LEMMA AttemptsStep ==
  TypeOK /\ ProcessInv /\ AttemptsInv /\ [Next]_vars => AttemptsInv'
<1> SUFFICES ASSUME TypeOK, ProcessInv, AttemptsInv, [Next]_vars PROVE AttemptsInv'
  OBVIOUS
<1> USE LastAlone DEF TypeOK, ProcessInv, AttemptsInv, One, Unnoticed, Retries,
        fileVars, watchVars, loopVars, procVars, indexVars, stopVars
<1>1. CASE UNCHANGED vars
  BY <1>1 DEF vars
<1>2. CASE ReplaceCompDB
  BY <1>2 DEF ReplaceCompDB, Notified
<1>3. CASE BeginRewrite
  BY <1>3 DEF BeginRewrite, Notified
<1>4. CASE EndRewrite
  BY <1>4 DEF EndRewrite, Notified
<1>5. CASE RemoveCompDB
  BY <1>5 DEF RemoveCompDB
<1>6. CASE WatchAdd
  BY <1>6 DEF WatchAdd
<1>7. CASE ReceiveEvent
  BY <1>7 DEF ReceiveEvent, Restart
<1>8. CASE WatchReturns
  BY <1>8 DEF WatchReturns
<1>9. CASE SelectDone
  BY <1>9 DEF SelectDone, StopCurrent
<1>10. CASE SelectRestart
  BY <1>10 DEF SelectRestart
<1>11. CASE SelectTimer
  BY <1>11 DEF SelectTimer, StopCurrent
<1>12. CASE DebounceElapses
  BY <1>12 DEF DebounceElapses
<1>13. CASE StopReturns
  BY <1>13 DEF StopReturns
<1>14. CASE Spawn
  BY <1>14 DEF Spawn
<1>15. CASE SpawnFails
  BY <1>15 DEF SpawnFails, ReturnFromRun
<1>16. CASE Initialized
  BY <1>16 DEF Initialized
<1>17. CASE InitializeFails
  BY <1>17 DEF InitializeFails, ReturnFromRun
<1>18. CASE LoadCompDB
  BY <1>18 DEF LoadCompDB
<1>19. CASE OnReadyFails
  BY <1>19 DEF OnReadyFails, ReturnFromRun
<1>20. CASE ExtractCrashes
  BY <1>20 DEF ExtractCrashes, StopCurrent
<1>21. CASE ExtractReturns
  BY <1>21 DEF ExtractReturns
<1>22. CASE Publish
  BY <1>22 DEF Publish
<1>23. CASE BackoffElapses
  BY <1>23 DEF BackoffElapses, ReturnFromRun
<1>24. CASE BackoffCancelled
  BY <1>24 DEF BackoffCancelled, ReturnFromRun
<1>25. CASE ClangdDies
  BY <1>25 DEF ClangdDies
<1>26. CASE Cancel
  BY <1>26 DEF Cancel
<1>27. CASE ContextKills
  BY <1>27 DEF ContextKills
<1>28. CASE Close
  BY <1>28 DEF Close
<1>29. CASE CloseReturns
  BY <1>29 DEF CloseReturns
<1>30. CASE WatchFails
  BY <1>30 DEF WatchFails
<1>31. CASE StreamBreaks
  BY <1>31 DEF StreamBreaks
<1> QED
  BY <1>1, <1>2, <1>3, <1>4, <1>5, <1>6, <1>7, <1>8, <1>9, <1>10, <1>11, <1>12,
     <1>13, <1>14, <1>15, <1>16, <1>17, <1>18, <1>19, <1>20, <1>21, <1>22, <1>23,
     <1>24, <1>25, <1>26, <1>27, <1>28, <1>29, <1>30, <1>31
     DEF Next, Environment, Watcher, Loop

\* Every action keeps NoSpuriousRestart.
LEMMA SpawnedStep ==
  TypeOK /\ CausesInv /\ NoSpuriousRestart /\ [Next]_vars => NoSpuriousRestart'
<1> SUFFICES ASSUME TypeOK, CausesInv, NoSpuriousRestart, [Next]_vars PROVE NoSpuriousRestart'
  OBVIOUS
<1> USE DEF TypeOK, NoSpuriousRestart, FileEvents, fileVars, watchVars, loopVars, procVars, indexVars, stopVars
<1>1. CASE UNCHANGED vars
  BY <1>1 DEF vars
<1>2. CASE ReplaceCompDB
  BY <1>2 DEF ReplaceCompDB, Notified
<1>3. CASE BeginRewrite
  BY <1>3 DEF BeginRewrite, Notified
<1>4. CASE EndRewrite
  BY <1>4 DEF EndRewrite, Notified
<1>5. CASE RemoveCompDB
  BY <1>5 DEF RemoveCompDB
<1>6. CASE WatchAdd
  BY <1>6 DEF WatchAdd
<1>7. CASE ReceiveEvent
  BY <1>7 DEF ReceiveEvent, Restart
<1>8. CASE WatchReturns
  BY <1>8 DEF WatchReturns
<1>9. CASE SelectDone
  BY <1>9 DEF SelectDone, StopCurrent
<1>10. CASE SelectRestart
  BY <1>10 DEF SelectRestart
<1>11. CASE SelectTimer
  BY <1>11 DEF SelectTimer, StopCurrent
<1>12. CASE DebounceElapses
  BY <1>12 DEF DebounceElapses
<1>13. CASE StopReturns
  BY <1>13 DEF StopReturns
<1>14. CASE Spawn
  BY <1>14 DEF Spawn, CausesInv, One, Respawns
<1>15. CASE SpawnFails
  BY <1>15 DEF SpawnFails, ReturnFromRun
<1>16. CASE Initialized
  BY <1>16 DEF Initialized
<1>17. CASE InitializeFails
  BY <1>17 DEF InitializeFails, ReturnFromRun
<1>18. CASE LoadCompDB
  BY <1>18 DEF LoadCompDB
<1>19. CASE OnReadyFails
  BY <1>19 DEF OnReadyFails, ReturnFromRun
<1>20. CASE ExtractCrashes
  BY <1>20 DEF ExtractCrashes, StopCurrent
<1>21. CASE ExtractReturns
  BY <1>21 DEF ExtractReturns
<1>22. CASE Publish
  BY <1>22 DEF Publish
<1>23. CASE BackoffElapses
  BY <1>23 DEF BackoffElapses, ReturnFromRun
<1>24. CASE BackoffCancelled
  BY <1>24 DEF BackoffCancelled, ReturnFromRun
<1>25. CASE ClangdDies
  BY <1>25 DEF ClangdDies
<1>26. CASE Cancel
  BY <1>26 DEF Cancel
<1>27. CASE ContextKills
  BY <1>27 DEF ContextKills
<1>28. CASE Close
  BY <1>28 DEF Close
<1>29. CASE CloseReturns
  BY <1>29 DEF CloseReturns
<1>30. CASE WatchFails
  BY <1>30 DEF WatchFails
<1>31. CASE StreamBreaks
  BY <1>31 DEF StreamBreaks
<1> QED
  BY <1>1, <1>2, <1>3, <1>4, <1>5, <1>6, <1>7, <1>8, <1>9, <1>10, <1>11, <1>12,
     <1>13, <1>14, <1>15, <1>16, <1>17, <1>18, <1>19, <1>20, <1>21, <1>22, <1>23,
     <1>24, <1>25, <1>26, <1>27, <1>28, <1>29, <1>30, <1>31
     DEF Next, Environment, Watcher, Loop

\* Every action keeps GaveUpAfterThreeCrashes.
LEMMA GaveUpStep ==
  TypeOK /\ AttemptsInv /\ GaveUpAfterThreeCrashes /\ [Next]_vars => GaveUpAfterThreeCrashes'
<1> SUFFICES ASSUME TypeOK, AttemptsInv, GaveUpAfterThreeCrashes, [Next]_vars PROVE GaveUpAfterThreeCrashes'
  OBVIOUS
<1> USE DEF TypeOK, GaveUpAfterThreeCrashes, MaxCrashRetries, fileVars, watchVars, loopVars, procVars, indexVars, stopVars
<1>1. CASE UNCHANGED vars
  BY <1>1 DEF vars
<1>2. CASE ReplaceCompDB
  BY <1>2 DEF ReplaceCompDB, Notified
<1>3. CASE BeginRewrite
  BY <1>3 DEF BeginRewrite, Notified
<1>4. CASE EndRewrite
  BY <1>4 DEF EndRewrite, Notified
<1>5. CASE RemoveCompDB
  BY <1>5 DEF RemoveCompDB
<1>6. CASE WatchAdd
  BY <1>6 DEF WatchAdd
<1>7. CASE ReceiveEvent
  BY <1>7 DEF ReceiveEvent, Restart
<1>8. CASE WatchReturns
  BY <1>8 DEF WatchReturns
<1>9. CASE SelectDone
  BY <1>9 DEF SelectDone, StopCurrent
<1>10. CASE SelectRestart
  BY <1>10 DEF SelectRestart
<1>11. CASE SelectTimer
  BY <1>11 DEF SelectTimer, StopCurrent
<1>12. CASE DebounceElapses
  BY <1>12 DEF DebounceElapses
<1>13. CASE StopReturns
  BY <1>13 DEF StopReturns
<1>14. CASE Spawn
  BY <1>14 DEF Spawn
<1>15. CASE SpawnFails
  BY <1>15 DEF SpawnFails, ReturnFromRun
<1>16. CASE Initialized
  BY <1>16 DEF Initialized
<1>17. CASE InitializeFails
  BY <1>17 DEF InitializeFails, ReturnFromRun
<1>18. CASE LoadCompDB
  BY <1>18 DEF LoadCompDB
<1>19. CASE OnReadyFails
  BY <1>19 DEF OnReadyFails, ReturnFromRun
<1>20. CASE ExtractCrashes
  BY <1>20 DEF ExtractCrashes, StopCurrent
<1>21. CASE ExtractReturns
  BY <1>21 DEF ExtractReturns
<1>22. CASE Publish
  BY <1>22 DEF Publish
<1>23. CASE BackoffElapses
  BY <1>23 DEF BackoffElapses, ReturnFromRun, AttemptsInv, One, Retries
<1>24. CASE BackoffCancelled
  BY <1>24 DEF BackoffCancelled, ReturnFromRun
<1>25. CASE ClangdDies
  BY <1>25 DEF ClangdDies
<1>26. CASE Cancel
  BY <1>26 DEF Cancel
<1>27. CASE ContextKills
  BY <1>27 DEF ContextKills
<1>28. CASE Close
  BY <1>28 DEF Close
<1>29. CASE CloseReturns
  BY <1>29 DEF CloseReturns
<1>30. CASE WatchFails
  BY <1>30 DEF WatchFails
<1>31. CASE StreamBreaks
  BY <1>31 DEF StreamBreaks
<1> QED
  BY <1>1, <1>2, <1>3, <1>4, <1>5, <1>6, <1>7, <1>8, <1>9, <1>10, <1>11, <1>12,
     <1>13, <1>14, <1>15, <1>16, <1>17, <1>18, <1>19, <1>20, <1>21, <1>22, <1>23,
     <1>24, <1>25, <1>26, <1>27, <1>28, <1>29, <1>30, <1>31
     DEF Next, Environment, Watcher, Loop

\* IInv is an invariant: each of its parts is preserved.
THEOREM Invariance == Spec => []IInv
<1>1. IInv /\ [Next]_vars => IInv'
  BY TypeStep, VersionsStep, ProcessStep, PulseStep, CausesStep, AttemptsStep, SpawnedStep, GaveUpStep
     DEF IInv
<1> QED
  BY InitInv, <1>1, PTL DEF Spec

\* No change seen by the watcher is lost between the file and the loop.
THEOREM NoLostPulseAlways == Spec => []NoLostPulse
<1>1. IInv => NoLostPulse
  BY DEF IInv
<1> QED
  BY Invariance, <1>1, PTL

\* A daemon at rest serves the index of the file on disk.
THEOREM RestIsFreshAlways == Spec => []RestIsFresh
<1>1. IInv => RestIsFresh
  <2> SUFFICES ASSUME IInv, watcher = "watching", watchedFrom < version,
                      loop = "select", ~RebuildPending
               PROVE  served = version
    BY DEF RestIsFresh
  <2>1. ~(readV < version)
    BY DEF IInv, NoLostPulse, Exiting
  <2>2. served = readV /\ readV <= version
    BY DEF IInv, VersionsInv
  <2> QED
    BY <2>1, <2>2 DEF IInv, TypeOK
<1> QED
  BY Invariance, <1>1, PTL

\* At most one clangd runs, and none is left uncollected behind it.
THEOREM OneClangdAlways == Spec => []OneClangdAtATime
<1>1. IInv => OneClangdAtATime
  BY DEF IInv, ProcessInv, OneClangdAtATime
<1> QED
  BY Invariance, <1>1, PTL

\* Current() never returns a process the daemon has stopped.
THEOREM CurrentNotStoppedAlways == Spec => []CurrentNotStopped
<1>1. IInv => CurrentNotStopped
  BY DEF IInv, ProcessInv, CurrentNotStopped
<1> QED
  BY Invariance, <1>1, PTL

\* The daemon never starts clangd without an event or a crash to cause it.
THEOREM NoSpuriousRestartAlways == Spec => []NoSpuriousRestart
<1>1. IInv => NoSpuriousRestart
  BY DEF IInv
<1> QED
  BY Invariance, <1>1, PTL

\* The daemon gives up only after its clangd died or broke its stream three times.
THEOREM GaveUpAfterThreeCrashesAlways == Spec => []GaveUpAfterThreeCrashes
<1>1. IInv => GaveUpAfterThreeCrashes
  BY DEF IInv
<1> QED
  BY Invariance, <1>1, PTL

\* The loop implements LiveIndex: publishing never goes back and never runs
\* ahead, and every other step is a change of the file or stutters.
THEOREM Refinement == Spec => ServesVersions
<1>1. Init => Live!Init
  BY DEF Init, Live!Init
<1>2. IInv /\ [Next]_vars => [Live!Next]_Live!liveVars
  <2> SUFFICES ASSUME IInv, [Next]_vars PROVE [Live!Next]_Live!liveVars
    OBVIOUS
  <2> USE DEF Live!Next, Live!liveVars
  <2>1. CASE Publish
    BY <2>1 DEF Publish, Live!Publish, IInv, TypeOK, VersionsInv, fileVars
  <2>2. CASE ReplaceCompDB \/ EndRewrite
    BY <2>2 DEF ReplaceCompDB, EndRewrite, Live!Change, indexVars
  <2>3. CASE UNCHANGED <<version, served>>
    BY <2>3
  <2>4. CASE UNCHANGED vars
    BY <2>4 DEF vars, fileVars, indexVars
  <2>5. CASE BeginRewrite \/ RemoveCompDB \/ WatchAdd \/ WatchFails \/ ReceiveEvent \/
        WatchReturns \/ SelectDone \/ SelectRestart \/ SelectTimer \/
        DebounceElapses \/ StopReturns \/ Spawn \/ SpawnFails \/ Initialized \/
        InitializeFails \/ LoadCompDB \/ OnReadyFails \/ ExtractCrashes \/
        ExtractReturns \/ BackoffElapses \/ BackoffCancelled \/ ClangdDies \/
        StreamBreaks \/ Cancel \/ ContextKills \/ Close \/ CloseReturns
    BY <2>3, <2>5 DEF BeginRewrite, RemoveCompDB, WatchAdd, WatchFails,
       ReceiveEvent, WatchReturns, SelectDone, SelectRestart, SelectTimer, DebounceElapses,
       StopReturns, Spawn, SpawnFails, Initialized, InitializeFails,
       LoadCompDB, OnReadyFails, ExtractCrashes, ExtractReturns,
       BackoffElapses, BackoffCancelled, ClangdDies, StreamBreaks, Cancel, ContextKills,
       Close, CloseReturns, fileVars, indexVars
  <2> QED
    BY <2>1, <2>2, <2>4, <2>5 DEF Next, Environment, Watcher, Loop
<1> QED
  BY Invariance, <1>1, <1>2, PTL DEF Spec, ServesVersions, Live!Spec

=============================================================================
