-------------------------- MODULE IndexStore_proofs --------------------------
(***************************************************************************)
(* Proofs about the index files and handles for any number of readers,     *)
(* rebuilds and restarts and any steps at which the process may crash: the *)
(* invariant IInv of module IndexStore is inductive, HandleMatchesFile     *)
(* follows from it, and with CallsInv that it implements AtomicIndex.      *)
(***************************************************************************)
EXTENDS IndexStore, TLAPS

\* A sequence is a function on the numbers up to its length, and the other way round.
LEMMA SeqIsFunction ==
    ASSUME NEW S, NEW q \in Seq(S)
    PROVE  q \in [1 .. Len(q) -> S] /\ Len(q) \in Nat /\ DOMAIN q = 1 .. Len(q)
OBVIOUS

LEMMA FunctionIsSeq ==
    ASSUME NEW S, NEW n \in Nat, NEW q \in [1 .. n -> S]
    PROVE  q \in Seq(S) /\ Len(q) = n
OBVIOUS

\* What the types say of the files, in the form the other proofs use it.
LEMMA FileFacts ==
    ASSUME FileTypes
    PROVE  /\ DOMAIN disk = Names /\ 0 \in Names /\ seq \in Names /\ seq \in Nat
           /\ \A n \in Names : disk[n].ver \in Nat /\ n \in Nat /\ disk[n] \in Contents
           /\ built \in Nat /\ published \in Nat /\ published <= built
           /\ MaxBuilds \in Nat /\ restarts \in Nat
BY BoundsAssumption DEF FileTypes, Names, Contents

\* What a file may hold.
LEMMA ContentFacts ==
    /\ Absent \in Contents
    /\ \A s \in {"absent", "partial", "full"}, v \in 0 .. MaxBuilds :
           [st |-> s, ver |-> v] \in Contents
BY BoundsAssumption DEF Contents, Absent

\* The first process starts on an empty directory.
LEMMA InitInv == Init => IInv
<1> SUFFICES ASSUME Init PROVE IInv
  OBVIOUS
<1> USE BoundsAssumption DEF Init, Names, Absent
<1>1. TypeOK
  BY DEF TypeOK, FileTypes, HandleTypes, ReaderTypes, Contents, Steps, Idle
<1>2. FilesInv /\ HandlesInv /\ ReadersInv
  BY DEF FilesInv, HandlesInv, ReadersInv, Publishing, Settled, Idle
<1>3. OneOpenHandle /\ NeverHalfBuilt /\ NewestIsOnDisk
  BY DEF OneOpenHandle, NeverHalfBuilt, NewestIsOnDisk, Idle
<1> QED
  BY <1>1, <1>2, <1>3 DEF IInv

\* A tool call reads: it changes neither files nor handles.
LEMMA ReadersOnlyRead ==
    ASSUME NEW r \in Readers, Reader(r)
    PROVE  UNCHANGED <<fileVars, storeVars, step, seq, restarts>>
BY DEF Reader, BeginCall, SearchSymbol, GetSymbol, LoadHandle, QueryPooled, QueryConnects,
       QueryRefused, QueryReturns

\* The publisher leaves readers alone.
LEMMA PublisherKeepsReaders == Publisher => UNCHANGED <<readVars, restarts>>
BY DEF Publisher, Stat, Seed, SeedCommits, OpenStore, StartRebuild, CreateNew, CreateCollides,
       WriteCommits, SwapNew, CloseOld, RemoveFirst, RenameNew, SwapFirst, CloseNew

\* Every action keeps the files and the publisher in their types.
LEMMA FileTypesStep ==
  FileTypes /\ FilesInv /\ [Next]_vars => FileTypes'
<1> SUFFICES ASSUME FileTypes, FilesInv, [Next]_vars PROVE FileTypes'
  OBVIOUS
<1> USE DEF FileTypes, fileVars, storeVars, readVars
<1>1. CASE UNCHANGED vars
  BY <1>1 DEF vars
<1>2. CASE Stat
  BY <1>2, FileFacts, ContentFacts DEF Stat, Steps
<1>3. CASE Seed
  BY <1>3, FileFacts, ContentFacts DEF Seed, CreateFile, Steps
<1>4. CASE SeedCommits
  <2>1. 0 \in 0 .. MaxBuilds
    BY BoundsAssumption
  <2> QED
    BY <1>4, <2>1, FileFacts, ContentFacts DEF SeedCommits, CommitFile, Steps
<1>5. CASE OpenStore
  <2>1. published' \in 0 .. built
    BY <1>5, FileFacts DEF OpenStore, Newer, FilesInv
  <2> QED
    BY <1>5, <2>1 DEF OpenStore, Steps
<1>6. CASE StartRebuild
  <2>1. built < MaxBuilds /\ seq <= built
    BY <1>6 DEF StartRebuild, FilesInv
  <2>2. seq' \in Names
    BY <1>6, <2>1, FileFacts DEF StartRebuild, Names
  <2> QED
    BY <1>6, <2>2 DEF StartRebuild, Steps
<1>7. CASE CreateNew
  BY <1>7, FileFacts, ContentFacts DEF CreateNew, CreateFile, Steps
<1>8. CASE CreateCollides
  BY <1>8, FileFacts, ContentFacts DEF CreateCollides, Steps
<1>9. CASE WriteCommits
  <2>1. built' \in 0 .. MaxBuilds /\ published \in 0 .. built'
    BY <1>9, FileFacts DEF WriteCommits, FilesInv
  <2>2. disk' \in [Names -> Contents]
    BY <1>9, <2>1, FileFacts, ContentFacts DEF WriteCommits, CommitFile
  <2> QED
    BY <1>9, <2>1, <2>2 DEF WriteCommits, Steps
<1>10. CASE SwapNew
  <2>1. published' \in 0 .. built
    BY <1>10, FileFacts DEF SwapNew, SwapPointer, Newer, FilesInv
  <2> QED
    BY <1>10, <2>1 DEF SwapNew, SwapPointer, Steps
<1>11. CASE CloseOld
  BY <1>11 DEF CloseOld, CloseHandle, Steps
<1>12. CASE RemoveFirst
  BY <1>12, FileFacts, ContentFacts DEF RemoveFirst, Steps
<1>13. CASE RenameNew
  BY <1>13, FileFacts, ContentFacts DEF RenameNew, Steps
<1>14. CASE SwapFirst
  <2>1. published' \in 0 .. built
    BY <1>14, FileFacts DEF SwapFirst, SwapPointer, Newer, FilesInv
  <2> QED
    BY <1>14, <2>1 DEF SwapFirst, SwapPointer, Steps
<1>15. CASE CloseNew
  BY <1>15 DEF CloseNew, CloseHandle, Steps
<1>16. CASE \E r \in Readers : Reader(r)
  BY <1>16, ReadersOnlyRead
<1>17. CASE ProcessEnds
  BY <1>17, FileFacts, ContentFacts DEF ProcessEnds, Steps
<1>18. CASE ProcessStarts
  BY <1>18, FileFacts, ContentFacts DEF ProcessStarts, Steps
<1> QED
  BY <1>1, <1>2, <1>3, <1>4, <1>5, <1>6, <1>7, <1>8, <1>9, <1>10, <1>11, <1>12,
     <1>13, <1>14, <1>15, <1>16, <1>17, <1>18
     DEF Next, Publisher

\* An open handle on an index file.
LEMMA HandleType ==
    ASSUME FileTypes, NEW n \in Names
    PROVE  Handle(n) \in [name : Names, has : Contents, open : BOOLEAN]
BY FileFacts DEF Handle

\* What the types say of the handles.
LEMMA HandleFacts ==
    ASSUME HandleTypes
    PROVE  /\ handles \in [1 .. Len(handles) -> [name : Names, has : Contents, open : BOOLEAN]]
           /\ Len(handles) \in Nat /\ DOMAIN handles = 1 .. Len(handles)
           /\ \A i \in DOMAIN handles : handles[i].has \in Contents /\ handles[i].name \in Names
<1> DEFINE H == [name : Names, has : Contents, open : BOOLEAN]
<1>1. handles \in Seq(H)
  BY DEF HandleTypes
<1> HIDE DEF H
<1>2. /\ handles \in [1 .. Len(handles) -> H]
      /\ Len(handles) \in Nat /\ DOMAIN handles = 1 .. Len(handles)
  BY <1>1, SeqIsFunction
<1> QED
  BY <1>2 DEF H

\* What Swap's Close does to the handles.
LEMMA CloseFacts ==
    ASSUME HandleTypes, CloseHandle
    PROVE  /\ HandleTypes' /\ Len(handles') = Len(handles) /\ DOMAIN handles' = DOMAIN handles
           /\ \A i \in DOMAIN handles :
                 /\ handles'[i].name = handles[i].name /\ handles'[i].has = handles[i].has
                 /\ handles'[i].open = (handles[i].open /\ i # old)
<1> DEFINE H == [name : Names, has : Contents, open : BOOLEAN]
<1>1. handles \in [1 .. Len(handles) -> H] /\ Len(handles) \in Nat
  BY HandleFacts
<1>2. \A h \in H : [h EXCEPT !.open = FALSE] \in H
  OBVIOUS
<1>3. handles' \in [1 .. Len(handles) -> H]
  BY <1>1, <1>2 DEF CloseHandle
<1>4. Len(handles') = Len(handles) /\ handles' \in Seq(H)
  BY <1>1, <1>3, FunctionIsSeq
<1>5. HandleTypes'
  BY <1>4 DEF HandleTypes, CloseHandle
<1>6. \A i \in DOMAIN handles :
         /\ handles'[i].name = handles[i].name /\ handles'[i].has = handles[i].has
         /\ handles'[i].open = (handles[i].open /\ i # old)
  BY <1>1 DEF CloseHandle
<1> QED
  BY <1>1, <1>3, <1>4, <1>5, <1>6

\* Every action keeps the handles in their types.
LEMMA HandleTypesStep ==
  FileTypes /\ HandleTypes /\ [Next]_vars => HandleTypes'
<1> SUFFICES ASSUME FileTypes, HandleTypes, [Next]_vars PROVE HandleTypes'
  OBVIOUS
<1> USE DEF HandleTypes, storeVars
<1>1. CASE UNCHANGED vars
  BY <1>1 DEF vars
<1>2. CASE Stat
  BY <1>2 DEF Stat
<1>3. CASE Seed
  BY <1>3 DEF Seed
<1>4. CASE SeedCommits
  BY <1>4 DEF SeedCommits
<1>5. CASE OpenStore
  <2>1. Handle(0) \in [name : Names, has : Contents, open : BOOLEAN]
    BY HandleType, FileFacts
  <2> QED
    BY <1>5, <2>1 DEF OpenStore
<1>6. CASE StartRebuild
  BY <1>6 DEF StartRebuild
<1>7. CASE CreateNew
  BY <1>7 DEF CreateNew
<1>8. CASE CreateCollides
  BY <1>8 DEF CreateCollides
<1>9. CASE WriteCommits
  BY <1>9 DEF WriteCommits
<1>10. CASE SwapNew
  <2>1. Handle(seq) \in [name : Names, has : Contents, open : BOOLEAN]
    BY HandleType, FileFacts
  <2> QED
    BY <1>10, <2>1 DEF SwapNew, SwapPointer
<1>11. CASE CloseOld
  BY <1>11, CloseFacts DEF CloseOld
<1>12. CASE RemoveFirst
  BY <1>12 DEF RemoveFirst
<1>13. CASE RenameNew
  BY <1>13 DEF RenameNew
<1>14. CASE SwapFirst
  <2>1. Handle(0) \in [name : Names, has : Contents, open : BOOLEAN]
    BY HandleType, FileFacts
  <2> QED
    BY <1>14, <2>1 DEF SwapFirst, SwapPointer
<1>15. CASE CloseNew
  BY <1>15, CloseFacts DEF CloseNew
<1>16. CASE \E r \in Readers : Reader(r)
  BY <1>16, ReadersOnlyRead
<1>17. CASE ProcessEnds
  BY <1>17 DEF ProcessEnds
<1>18. CASE ProcessStarts
  BY <1>18 DEF ProcessStarts
<1> QED
  BY <1>1, <1>2, <1>3, <1>4, <1>5, <1>6, <1>7, <1>8, <1>9, <1>10, <1>11, <1>12,
     <1>13, <1>14, <1>15, <1>16, <1>17, <1>18
     DEF Next, Publisher

\* Every action keeps the readers in their types.
LEMMA ReaderTypesStep ==
  FileTypes /\ HandleTypes /\ ReaderTypes /\ ReadersInv /\ [Next]_vars => ReaderTypes'
<1> SUFFICES ASSUME FileTypes, HandleTypes, ReaderTypes, ReadersInv, [Next]_vars
             PROVE  ReaderTypes'
  OBVIOUS
<1> DEFINE Calls == [pc : {"idle", "load", "loaded", "query"}, h : Nat, conn : Contents,
                     left : Nat, seen : SUBSET Nat]
<1>a. live \in Nat
  BY DEF HandleTypes
<1>b. \A r \in Readers : rd[r] \in Calls
  BY DEF ReaderTypes
<1>c. Idle \in Calls
  BY ContentFacts DEF Idle
<1>d. Absent \in Contents /\ \A c \in Contents : c.ver \in Nat
  BY ContentFacts, BoundsAssumption DEF Contents
<1>e. \A i \in DOMAIN handles : handles[i].has \in Contents /\ handles[i].name \in Names
  BY HandleFacts
<1>1. CASE UNCHANGED readVars
  BY <1>1 DEF readVars, ReaderTypes
<1>2. ASSUME NEW r \in Readers, NEW reads \in Nat, BeginCall(r, reads) PROVE ReaderTypes'
  <2>1. [Idle EXCEPT !.pc = "load", !.left = reads] \in Calls
    BY <1>d DEF Idle
  <2> QED
    BY <1>2, <2>1 DEF BeginCall, ReaderTypes
<1>3. ASSUME NEW r \in Readers, LoadHandle(r) PROVE ReaderTypes'
  BY <1>3, <1>a, <1>b DEF LoadHandle, ReaderTypes
<1>4. ASSUME NEW r \in Readers, NEW content \in Contents, Connected(r, content)
      PROVE  rd' \in [Readers -> Calls]
  BY <1>4, <1>b DEF Connected, ReaderTypes
<1>5. ASSUME NEW r \in Readers, NEW result \in {"none", "noFile", "closed", "ok"},
             CallReturns(r, result)
      PROVE  ReaderTypes'
  <2>1. [Idle EXCEPT !.seen = rd[r].seen] \in Calls
    BY <1>b, <1>d DEF Idle
  <2> QED
    BY <1>5, <2>1 DEF CallReturns, ReaderTypes
<1>6. ASSUME NEW r \in Readers, QueryPooled(r) PROVE ReaderTypes'
  <2>1. handles[rd[r].h].has \in Contents
    BY <1>6, <1>e DEF QueryPooled, ReadersInv
  <2> QED
    BY <1>6, <1>4, <2>1 DEF QueryPooled, ReaderTypes
<1>7. ASSUME NEW r \in Readers, QueryConnects(r) PROVE ReaderTypes'
  <2>1. disk[handles[rd[r].h].name] \in Contents
    BY <1>7, <1>e, FileFacts DEF QueryConnects, ReadersInv
  <2> QED
    BY <1>7, <1>4, <1>5, <2>1 DEF QueryConnects, ReaderTypes
<1>8. ASSUME NEW r \in Readers, QueryRefused(r) PROVE ReaderTypes'
  BY <1>8, <1>5 DEF QueryRefused
<1>9. ASSUME NEW r \in Readers, QueryReturns(r) PROVE ReaderTypes'
  <2>1. rd[r].seen \cup {rd[r].conn.ver} \in SUBSET Nat
    BY <1>b, <1>d
  <2> DEFINE seen == rd[r].seen \cup {rd[r].conn.ver}
  <2>2. CASE rd[r].left > 1
    <3>1. rd[r].left - 1 \in Nat
      BY <1>b, <2>2
    <3>2. [Idle EXCEPT !.pc = "load", !.left = rd[r].left - 1, !.seen = seen] \in Calls
      BY <1>d, <2>1, <3>1 DEF Idle
    <3> QED
      BY <1>9, <2>2, <3>2 DEF QueryReturns, ReaderTypes
  <2>3. CASE ~(rd[r].left > 1)
    <3>1. [Idle EXCEPT !.seen = seen] \in Calls
      BY <1>d, <2>1 DEF Idle
    <3> QED
      BY <1>9, <2>3, <3>1 DEF QueryReturns, ReaderTypes
  <2> QED
    BY <2>2, <2>3
<1>10. CASE ProcessEnds
  BY <1>10, <1>c DEF ProcessEnds, ReaderTypes
<1>11. CASE Publisher \/ ProcessStarts \/ UNCHANGED vars
  BY <1>11, <1>1, PublisherKeepsReaders DEF ProcessStarts, vars
<1> QED
  BY <1>2, <1>3, <1>6, <1>7, <1>8, <1>9, <1>10, <1>11
     DEF Next, Reader, SearchSymbol, GetSymbol

\* Every action keeps every variable in its type.
LEMMA TypeStep == TypeOK /\ FilesInv /\ ReadersInv /\ [Next]_vars => TypeOK'
BY FileTypesStep, HandleTypesStep, ReaderTypesStep DEF TypeOK

\* Every action leaves the files as FilesInv says.
LEMMA FilesStep ==
  FileTypes /\ FilesInv /\ [Next]_vars => FilesInv'
<1> SUFFICES ASSUME FileTypes, FilesInv, [Next]_vars PROVE FilesInv'
  OBVIOUS
<1> USE FileFacts DEF FilesInv, Publishing, Absent, New, fileVars, storeVars
<1>1. CASE UNCHANGED vars
  BY <1>1 DEF vars
<1>2. CASE Stat
  <2>1. disk[0].st = "absent" => disk[0] = Absent
    BY DEF Contents
  <2> QED
    BY <1>2, <2>1 DEF Stat
<1>3. CASE Seed
  BY <1>3 DEF Seed, CreateFile
<1>4. CASE SeedCommits
  BY <1>4 DEF SeedCommits, CommitFile
<1>5. CASE OpenStore
  BY <1>5 DEF OpenStore, Newer
<1>6. CASE StartRebuild
  BY <1>6 DEF StartRebuild
<1>7. CASE CreateNew
  BY <1>7 DEF CreateNew, CreateFile
<1>8. CASE CreateCollides
  BY <1>8 DEF CreateCollides
<1>9. CASE WriteCommits
  BY <1>9 DEF WriteCommits, CommitFile, New
<1>10. CASE SwapNew
  BY <1>10 DEF SwapNew, SwapPointer, Newer
<1>11. CASE CloseOld
  BY <1>11 DEF CloseOld, CloseHandle
<1>12. CASE RemoveFirst
  BY <1>12 DEF RemoveFirst
<1>13. CASE RenameNew
  BY <1>13 DEF RenameNew
<1>14. CASE SwapFirst
  BY <1>14 DEF SwapFirst, SwapPointer, Newer
<1>15. CASE CloseNew
  BY <1>15 DEF CloseNew, CloseHandle
<1>16. CASE \E r \in Readers : Reader(r)
  BY <1>16, ReadersOnlyRead
<1>17. CASE ProcessEnds
  BY <1>17 DEF ProcessEnds
<1>18. CASE ProcessStarts
  BY <1>18 DEF ProcessStarts
<1> QED
  BY <1>1, <1>2, <1>3, <1>4, <1>5, <1>6, <1>7, <1>8, <1>9, <1>10, <1>11, <1>12,
     <1>13, <1>14, <1>15, <1>16, <1>17, <1>18
     DEF Next, Publisher

\* Every action leaves the handles as HandlesInv says.
LEMMA HandlesStep ==
  FileTypes /\ HandleTypes /\ FilesInv /\ HandlesInv /\ [Next]_vars => HandlesInv'
<1> SUFFICES ASSUME FileTypes, HandleTypes, FilesInv, HandlesInv, [Next]_vars PROVE HandlesInv'
  OBVIOUS
<1> USE FileFacts DEF HandleTypes, FilesInv, HandlesInv, Publishing, Settled, Absent, New, fileVars,
        storeVars
<1>1. CASE UNCHANGED vars
  BY <1>1 DEF vars
<1>2. CASE Stat
  BY <1>2 DEF Stat
<1>3. CASE Seed
  BY <1>3 DEF Seed, CreateFile
<1>4. CASE SeedCommits
  BY <1>4 DEF SeedCommits, CommitFile
<1>5. CASE OpenStore
  BY <1>5 DEF OpenStore, Handle, Newer
<1>6. CASE StartRebuild
  BY <1>6 DEF StartRebuild
<1>7. CASE CreateNew
  BY <1>7 DEF CreateNew, CreateFile
<1>8. CASE CreateCollides
  BY <1>8 DEF CreateCollides
<1>9. CASE WriteCommits
  BY <1>9 DEF WriteCommits, CommitFile, New
<1>10. CASE SwapNew
  BY <1>10 DEF SwapNew, SwapPointer, Handle, Newer
<1>11. CASE CloseOld
  BY <1>11 DEF CloseOld, CloseHandle
<1>12. CASE RemoveFirst
  BY <1>12 DEF RemoveFirst
<1>13. CASE RenameNew
  BY <1>13 DEF RenameNew
<1>14. CASE SwapFirst
  BY <1>14 DEF SwapFirst, SwapPointer, Handle, Newer
<1>15. CASE CloseNew
  BY <1>15 DEF CloseNew, CloseHandle
<1>16. CASE \E r \in Readers : Reader(r)
  BY <1>16, ReadersOnlyRead
<1>17. CASE ProcessEnds
  BY <1>17 DEF ProcessEnds
<1>18. CASE ProcessStarts
  BY <1>18 DEF ProcessStarts
<1> QED
  BY <1>1, <1>2, <1>3, <1>4, <1>5, <1>6, <1>7, <1>8, <1>9, <1>10, <1>11, <1>12,
     <1>13, <1>14, <1>15, <1>16, <1>17, <1>18
     DEF Next, Publisher

\* The publisher keeps the handles that readers hold, and never withdraws Store.db.
LEMMA PublisherKeepsHandles ==
    ASSUME FileTypes, HandleTypes, HandlesInv, Publisher
    PROVE  /\ live # 0 => live' # 0
           /\ DOMAIN handles \subseteq DOMAIN handles'
<1> USE DEF HandleTypes, HandlesInv, Settled, Publishing, storeVars
<1>1. CASE Stat \/ Seed \/ SeedCommits \/ StartRebuild \/ CreateNew \/ CreateCollides
           \/ WriteCommits \/ RemoveFirst \/ RenameNew
  BY <1>1 DEF Stat, Seed, SeedCommits, StartRebuild, CreateNew, CreateCollides, WriteCommits,
              RemoveFirst, RenameNew
<1>2. CASE OpenStore
  BY <1>2 DEF OpenStore
<1>3. CASE SwapNew \/ SwapFirst
  BY <1>3 DEF SwapNew, SwapFirst, SwapPointer
<1>4. CASE CloseOld \/ CloseNew
  BY <1>4, CloseFacts DEF CloseOld, CloseNew, CloseHandle
<1> QED
  BY <1>1, <1>2, <1>3, <1>4 DEF Publisher

\* Every action leaves readers with handles of this process.
LEMMA ReadersStep ==
  FileTypes /\ HandleTypes /\ ReaderTypes /\ HandlesInv /\ ReadersInv /\ [Next]_vars => ReadersInv'
<1> SUFFICES ASSUME FileTypes, HandleTypes, ReaderTypes, HandlesInv, ReadersInv, [Next]_vars
             PROVE  ReadersInv'
  OBVIOUS
<1> USE DEF ReadersInv
<1>1. CASE UNCHANGED vars
  BY <1>1 DEF vars, readVars, storeVars
<1>2. CASE Publisher
  BY <1>2, PublisherKeepsHandles, PublisherKeepsReaders DEF readVars
<1>3. ASSUME NEW r \in Readers, Reader(r) PROVE ReadersInv'
  <2>1. UNCHANGED <<handles, live>>
    BY <1>3, ReadersOnlyRead DEF storeVars
  <2>2. live # 0 => live \in DOMAIN handles
    BY DEF HandleTypes
  <2>3. ASSUME \A s \in Readers \ {r} : rd'[s] = rd[s], rd'[r].pc \in {"idle", "load"}, live # 0
        PROVE  ReadersInv'
    BY <2>1, <2>3
  <2>4. CASE SearchSymbol(r) \/ GetSymbol(r)
    <3>1. PICK reads \in {1, 3} : BeginCall(r, reads)
      BY <2>4 DEF SearchSymbol, GetSymbol
    <3> QED
      BY <2>3, <3>1 DEF BeginCall, Idle, ReaderTypes
  <2>5. CASE LoadHandle(r)
    BY <2>1, <2>2, <2>5 DEF LoadHandle, ReaderTypes
  <2>6. ASSUME NEW content, Connected(r, content), rd[r].pc = "loaded" PROVE ReadersInv'
    BY <2>1, <2>6 DEF Connected, ReaderTypes
  <2>7. ASSUME NEW result, CallReturns(r, result), rd[r].pc = "loaded" PROVE ReadersInv'
    BY <2>3, <2>7 DEF CallReturns, Idle, ReaderTypes
  <2>8. CASE QueryPooled(r) \/ QueryConnects(r) \/ QueryRefused(r)
    BY <2>6, <2>7, <2>8 DEF QueryPooled, QueryConnects, QueryRefused
  <2>9. CASE QueryReturns(r)
    BY <2>3, <2>9 DEF QueryReturns, Idle, ReaderTypes
  <2> QED
    BY <1>3, <2>4, <2>5, <2>8, <2>9 DEF Reader
<1>4. CASE ProcessEnds
  BY <1>4 DEF ProcessEnds, Idle
<1>5. CASE ProcessStarts
  BY <1>5 DEF ProcessStarts, readVars, storeVars
<1> QED
  BY <1>1, <1>2, <1>3, <1>4, <1>5 DEF Next

\* Every action keeps OneOpenHandle: at a Swap nothing else is being closed, and a Close
\* never closes the handle that readers load.
LEMMA OneOpenHandleStep ==
  HandleTypes /\ HandlesInv /\ OneOpenHandle /\ [Next]_vars => OneOpenHandle'
<1> SUFFICES ASSUME HandleTypes, HandlesInv, OneOpenHandle, [Next]_vars PROVE OneOpenHandle'
  OBVIOUS
<1> USE DEF OneOpenHandle, HandlesInv, Settled, Publishing
<1>1. CASE UNCHANGED storeVars
  BY <1>1 DEF storeVars
<1>2. CASE Stat \/ Seed \/ SeedCommits \/ StartRebuild \/ CreateNew \/ CreateCollides
           \/ WriteCommits \/ RemoveFirst \/ RenameNew \/ ProcessStarts \/ UNCHANGED vars
  BY <1>1, <1>2 DEF vars, Stat, Seed, SeedCommits, StartRebuild, CreateNew, CreateCollides,
     WriteCommits, RemoveFirst, RenameNew, ProcessStarts
<1>3. CASE OpenStore
  BY <1>3 DEF OpenStore, Handle
<1>4. CASE SwapNew \/ SwapFirst
  BY <1>4 DEF SwapNew, SwapFirst, SwapPointer, Handle, HandleTypes
<1>5. CASE CloseOld \/ CloseNew
  <2>1. CloseHandle /\ live' = live /\ live # old /\ live \in DOMAIN handles
    BY <1>5, HandleFacts DEF CloseOld, CloseNew, CloseHandle, HandleTypes
  <2> QED
    BY <2>1, CloseFacts
<1>6. CASE \E r \in Readers : Reader(r)
  BY <1>1, <1>6, ReadersOnlyRead
<1>7. CASE ProcessEnds
  BY <1>7 DEF ProcessEnds
<1> QED
  BY <1>2, <1>3, <1>4, <1>5, <1>6, <1>7 DEF Next, Publisher

\* The invariant puts the right file under the name of every open handle.
LEMMA OpenHandlesMatch ==
    ASSUME FileTypes, HandleTypes, FilesInv, HandlesInv, OneOpenHandle
    PROVE  HandleMatchesFile
<1> SUFFICES ASSUME NEW i \in DOMAIN handles, handles[i].open
             PROVE  disk[handles[i].name] \in {handles[i].has, Absent}
  BY DEF HandleMatchesFile
<1>1. live # 0
  BY DEF HandlesInv
<1>2. i \in {live, old} /\ i # 0 /\ live # old
  BY <1>1 DEF OneOpenHandle, HandlesInv, HandleTypes
<1>3. CASE i = live
  BY <1>1, <1>3, FileFacts DEF HandlesInv, FilesInv, Settled, Publishing
<1>4. CASE i = old
  BY <1>2, <1>4, FileFacts DEF HandlesInv, FilesInv, Publishing
<1> QED
  BY <1>2, <1>3, <1>4

\* Every action keeps NeverHalfBuilt.
LEMMA NeverHalfBuiltStep ==
  TypeOK /\ FilesInv /\ HandlesInv /\ ReadersInv /\ OneOpenHandle /\ NeverHalfBuilt /\ [Next]_vars
     => NeverHalfBuilt'
<1> SUFFICES ASSUME TypeOK, FilesInv, HandlesInv, ReadersInv, OneOpenHandle, NeverHalfBuilt,
                    [Next]_vars
             PROVE  NeverHalfBuilt'
  OBVIOUS
<1> DEFINE GoodHandles == \A h \in DOMAIN handles :
                              handles[h].has.st # "full" => restarts > 0 /\ h = 1
           GoodReaders == \A r \in Readers : rd[r].pc = "query" /\ rd[r].conn.st # "full"
                              => restarts > 0 /\ rd[r].h = 1
<1>a. FileTypes /\ HandleTypes /\ ReaderTypes /\ GoodHandles /\ GoodReaders /\ restarts \in Nat
  BY DEF TypeOK, NeverHalfBuilt, FileTypes
<1>1. CASE UNCHANGED vars
  BY <1>1 DEF vars, readVars, storeVars, NeverHalfBuilt
<1>2. CASE Publisher
  <2>1. GoodReaders'
    BY <1>2, <1>a, PublisherKeepsReaders DEF readVars
  <2>2. restarts' = restarts
    BY <1>2, PublisherKeepsReaders
  <2>3. CASE UNCHANGED handles
    BY <2>1, <2>2, <2>3, <1>a DEF NeverHalfBuilt
  <2>4. CASE OpenStore
    <3>1. disk[0].st # "full" => restarts > 0
      BY <2>4, <1>a, FileFacts DEF OpenStore, FilesInv, Contents
    <3> QED
      BY <2>1, <2>2, <2>4, <3>1 DEF OpenStore, Handle, NeverHalfBuilt
  <2>5. CASE SwapNew \/ SwapFirst
    <3>1. PICK n \in Names : SwapPointer(n) /\ disk[n] = New
      BY <2>5, <1>a, FileFacts DEF SwapNew, SwapFirst, FilesInv, Publishing
    <3>2. \A h \in DOMAIN handles' : h \in DOMAIN handles \/ handles'[h] = Handle(n)
      BY <1>a, <3>1 DEF SwapPointer, HandleTypes
    <3>3. \A h \in DOMAIN handles : handles'[h] = handles[h]
      BY <1>a, <3>1 DEF SwapPointer, HandleTypes
    <3>4. Handle(n).has.st = "full"
      BY <3>1 DEF Handle, New
    <3> QED
      BY <1>a, <2>1, <2>2, <3>2, <3>3, <3>4 DEF NeverHalfBuilt
  <2>6. CASE CloseOld \/ CloseNew
    BY <1>a, <2>1, <2>2, <2>6, CloseFacts DEF CloseOld, CloseNew, NeverHalfBuilt
  <2> QED
    BY <1>2, <2>3, <2>4, <2>5, <2>6
       DEF Publisher, Stat, Seed, SeedCommits, StartRebuild, CreateNew, CreateCollides,
           WriteCommits, RemoveFirst, RenameNew, storeVars
<1>3. ASSUME NEW r \in Readers, Reader(r) PROVE NeverHalfBuilt'
  <2>1. UNCHANGED <<handles, restarts>>
    BY <1>3, ReadersOnlyRead DEF storeVars
  <2>2. rd \in [Readers -> [pc : {"idle", "load", "loaded", "query"}, h : Nat, conn : Contents,
                            left : Nat, seen : SUBSET Nat]]
    BY <1>a DEF ReaderTypes
  <2>3. CASE SearchSymbol(r) \/ GetSymbol(r) \/ LoadHandle(r)
    BY <1>a, <2>1, <2>2, <2>3
       DEF SearchSymbol, GetSymbol, LoadHandle, BeginCall, Idle, NeverHalfBuilt
  <2>4. ASSUME NEW content \in Contents, Connected(r, content),
               content.st # "full" => restarts > 0 /\ rd[r].h = 1
        PROVE  NeverHalfBuilt'
    BY <1>a, <2>1, <2>2, <2>4 DEF Connected, NeverHalfBuilt
  <2>5. ASSUME NEW result, CallReturns(r, result) PROVE NeverHalfBuilt'
    BY <1>a, <2>1, <2>2, <2>5 DEF CallReturns, Idle, NeverHalfBuilt
  <2>6. \A i \in DOMAIN handles : handles[i].has \in Contents /\ handles[i].name \in Names
    BY <1>a, HandleFacts
  <2>7. CASE QueryPooled(r)
    BY <1>a, <2>4, <2>6, <2>7 DEF QueryPooled, ReadersInv
  <2>8. CASE QueryConnects(r)
    <3>1. rd[r].h \in DOMAIN handles /\ handles[rd[r].h].open
      BY <2>8 DEF QueryConnects, ReadersInv
    <3>2. disk[handles[rd[r].h].name] \in {handles[rd[r].h].has, Absent}
      BY <1>a, <3>1, OpenHandlesMatch DEF HandleMatchesFile
    <3> QED
      BY <1>a, <2>4, <2>5, <2>6, <2>8, <3>1, <3>2 DEF QueryConnects, Absent
  <2>9. CASE QueryRefused(r)
    BY <2>5, <2>9 DEF QueryRefused
  <2>10. CASE QueryReturns(r)
    BY <1>a, <2>1, <2>2, <2>10 DEF QueryReturns, Idle, NeverHalfBuilt
  <2> QED
    BY <1>3, <2>3, <2>7, <2>8, <2>9, <2>10 DEF Reader
<1>4. CASE ProcessEnds
  BY <1>4 DEF ProcessEnds, Idle, NeverHalfBuilt
<1>5. CASE ProcessStarts
  BY <1>5 DEF ProcessStarts, readVars, storeVars, NeverHalfBuilt
<1> QED
  BY <1>1, <1>2, <1>3, <1>4, <1>5 DEF Next

\* Every action keeps NewestIsOnDisk: the publisher overwrites or removes no file that is the
\* only one to hold the newest index.
LEMMA NewestStep ==
  FileTypes /\ FilesInv /\ NewestIsOnDisk /\ [Next]_vars => NewestIsOnDisk'
<1> SUFFICES ASSUME FileTypes, FilesInv, NewestIsOnDisk, [Next]_vars PROVE NewestIsOnDisk'
  OBVIOUS
<1> USE FileFacts DEF FilesInv, NewestIsOnDisk, Publishing, Absent, fileVars, storeVars
<1>1. CASE UNCHANGED vars
  BY <1>1 DEF vars
<1>2. CASE Stat
  BY <1>2 DEF Stat
<1>3. CASE Seed
  BY <1>3 DEF Seed, CreateFile
<1>4. CASE SeedCommits
  BY <1>4 DEF SeedCommits, CommitFile
<1>5. CASE OpenStore
  <2>1. disk[0].ver > 0 => disk[0] = [st |-> "full", ver |-> disk[0].ver]
    BY DEF FilesInv, Contents
  <2> QED
    BY <1>5, <2>1 DEF OpenStore, Newer
<1>6. CASE StartRebuild
  BY <1>6 DEF StartRebuild
<1>7. CASE CreateNew
  BY <1>7 DEF CreateNew, CreateFile
<1>8. CASE CreateCollides
  BY <1>8 DEF CreateCollides
<1>9. CASE WriteCommits
  BY <1>9 DEF WriteCommits, CommitFile
<1>10. CASE SwapNew
  BY <1>10 DEF SwapNew, SwapPointer, Newer, New
<1>11. CASE CloseOld
  BY <1>11 DEF CloseOld, CloseHandle
<1>12. CASE RemoveFirst
  BY <1>12 DEF RemoveFirst, New
<1>13. CASE RenameNew
  BY <1>13 DEF RenameNew, New
<1>14. CASE SwapFirst
  BY <1>14 DEF SwapFirst, SwapPointer, Newer, New
<1>15. CASE CloseNew
  BY <1>15 DEF CloseNew, CloseHandle
<1>16. CASE \E r \in Readers : Reader(r)
  BY <1>16, ReadersOnlyRead
<1>17. CASE ProcessEnds
  BY <1>17 DEF ProcessEnds
<1>18. CASE ProcessStarts
  BY <1>18 DEF ProcessStarts
<1> QED
  BY <1>1, <1>2, <1>3, <1>4, <1>5, <1>6, <1>7, <1>8, <1>9, <1>10, <1>11, <1>12,
     <1>13, <1>14, <1>15, <1>16, <1>17, <1>18
     DEF Next, Publisher

\* The invariant is inductive.
LEMMA Inductive == IInv /\ [Next]_vars => IInv'
BY TypeStep, FilesStep, HandlesStep, ReadersStep, OneOpenHandleStep, NeverHalfBuiltStep, NewestStep
   DEF IInv, TypeOK

\* Safety: IInv holds whatever the readers and the rebuild loop do and wherever the process
\* crashes.
THEOREM Invariance == Spec => []IInv
<1>1. Init => IInv
  BY InitInv
<1>2. IInv /\ [Next]_vars => IInv'
  BY Inductive
<1> QED
  BY <1>1, <1>2, PTL DEF Spec

\* Safety: an open handle's file is the database it was opened on, or is gone.
THEOREM HandleMatchesFileAlways == Spec => []HandleMatchesFile
<1>1. IInv => HandleMatchesFile
  BY OpenHandlesMatch DEF IInv, TypeOK
<1> QED
  BY <1>1, Invariance, PTL

\* Safety: Swap neither closes the handle it publishes nor leaks the previous one.
THEOREM OneOpenHandleAlways == Spec => []OneOpenHandle
<1>1. IInv => OneOpenHandle
  BY DEF IInv
<1> QED
  BY <1>1, Invariance, PTL

\* Safety: no query runs on a database that is not completely written, but for a seed
\* that a crash interrupted.
THEOREM NeverHalfBuiltAlways == Spec => []NeverHalfBuilt
<1>1. IInv => NeverHalfBuilt
  BY DEF IInv
<1> QED
  BY <1>1, Invariance, PTL

\* Safety: the newest index that was ever served is in one of the files, wherever a crash
\* stops Remove and Rename.
THEOREM NewestIsOnDiskAlways == Spec => []NewestIsOnDisk
<1>1. IInv => NewestIsOnDisk
  BY DEF IInv
<1> QED
  BY <1>1, Invariance, PTL

-----------------------------------------------------------------------------
(* The store implements AtomicIndex                                        *)

\* The first process has no calls.
LEMMA InitCalls == Init => CallsInv
BY DEF Init, CallsInv, Idle, Settled

\* Every action keeps CallsInv: only RemoveFirst takes index.db away, and a
\* rebuild is numbered after all that were written before.
LEMMA CallsStep ==
  IInv /\ CallsInv /\ [Next]_vars => CallsInv'
<1> SUFFICES ASSUME IInv, CallsInv, [Next]_vars PROVE CallsInv'
  OBVIOUS
<1> DEFINE Known == \A r \in Readers : rd[r].pc = "idle" <=> rd[r].left = 0
           InPlace == (Settled => disk[0].st # "absent") /\ (step = "swapNew" => disk[0].ver < built)
<1>a. FileTypes /\ HandleTypes /\ ReaderTypes /\ FilesInv /\ HandlesInv /\ Known /\ InPlace
  BY DEF IInv, TypeOK, CallsInv
<1>b. rd \in [Readers -> [pc : {"idle", "load", "loaded", "query"}, h : Nat, conn : Contents,
                          left : Nat, seen : SUBSET Nat]]
  BY <1>a DEF ReaderTypes
<1>c. InPlace'
  <2> USE <1>a, FileFacts DEF Settled, fileVars, storeVars
  <2>1. CASE Stat \/ StartRebuild \/ CreateCollides \/ CloseOld \/ SwapNew \/ SwapFirst
    BY <2>1 DEF Stat, StartRebuild, CreateCollides, CloseOld, SwapNew, SwapFirst
  <2>2. CASE Seed \/ SeedCommits \/ RemoveFirst \/ RenameNew
    BY <2>2 DEF Seed, SeedCommits, RemoveFirst, RenameNew
  <2>3. CASE OpenStore
    BY <2>3 DEF OpenStore, FilesInv
  <2>4. CASE CreateNew
    BY <2>4 DEF CreateNew, CreateFile, FilesInv
  <2>5. CASE WriteCommits
    BY <2>5 DEF WriteCommits, CommitFile, FilesInv
  <2>6. CASE CloseNew
    BY <2>6 DEF CloseNew, FilesInv, New
  <2>7. CASE \E r \in Readers : Reader(r)
    BY <2>7, ReadersOnlyRead
  <2>8. CASE ProcessEnds \/ ProcessStarts
    BY <2>8 DEF ProcessEnds, ProcessStarts
  <2>9. CASE UNCHANGED vars
    BY <2>9 DEF vars
  <2> QED
    BY <2>1, <2>2, <2>3, <2>4, <2>5, <2>6, <2>7, <2>8, <2>9 DEF Next, Publisher
<1>d. Known'
  <2>1. CASE UNCHANGED rd
    BY <2>1, <1>a
  <2>2. CASE Publisher \/ ProcessStarts \/ UNCHANGED vars
    BY <2>1, <2>2, PublisherKeepsReaders DEF ProcessStarts, vars, readVars
  <2>3. CASE ProcessEnds
    BY <2>3 DEF ProcessEnds, Idle
  <2>4. ASSUME NEW r \in Readers, Reader(r) PROVE Known'
    <3>a. ASSUME NEW call, rd' = [rd EXCEPT ![r] = call], call.pc = "idle" <=> call.left = 0 PROVE Known'
      <4>1. rd'[r] = call /\ \A s \in Readers \ {r} : rd'[s] = rd[s]
        BY <1>b, <3>a
      <4> QED
        BY <1>a, <3>a, <4>1
    <3>1. CASE SearchSymbol(r) \/ GetSymbol(r)
      <4>1. PICK n \in {1, 3} : BeginCall(r, n)
        BY <3>1 DEF SearchSymbol, GetSymbol
      <4> DEFINE call == [Idle EXCEPT !.pc = "load", !.left = n]
      <4>2. call.pc = "load" /\ call.left = n
        BY DEF Idle
      <4>3. rd' = [rd EXCEPT ![r] = call]
        BY <4>1 DEF BeginCall
      <4> HIDE DEF call
      <4>4. call.pc = "idle" <=> call.left = 0
        BY <4>2
      <4> QED
        BY <3>a, <4>3, <4>4
    <3>2. CASE LoadHandle(r) \/ QueryPooled(r)
      BY <1>a, <1>b, <3>2 DEF LoadHandle, QueryPooled, Connected
    <3>3. ASSUME NEW result, CallReturns(r, result) PROVE Known'
      BY <1>a, <1>b, <3>3 DEF CallReturns, Idle
    <3>4. CASE QueryConnects(r)
      BY <1>a, <1>b, <3>3, <3>4 DEF QueryConnects, Connected
    <3>5. CASE QueryRefused(r)
      BY <3>3, <3>5 DEF QueryRefused
    <3>6. CASE QueryReturns(r)
      <4> DEFINE seen == rd[r].seen \cup {rd[r].conn.ver}
                 more == [Idle EXCEPT !.pc = "load", !.left = rd[r].left - 1, !.seen = seen]
                 done == [Idle EXCEPT !.seen = seen]
      <4>1. more.pc = "load" /\ more.left = rd[r].left - 1 /\ done.pc = "idle" /\ done.left = 0
        BY DEF Idle
      <4>2. CASE rd[r].left > 1
        <5>1. rd' = [rd EXCEPT ![r] = more] /\ more.left # 0
          BY <1>b, <3>6, <4>1, <4>2 DEF QueryReturns
        <5> HIDE DEF more
        <5> QED
          BY <3>a, <4>1, <5>1
      <4>3. CASE ~(rd[r].left > 1)
        <5>1. rd' = [rd EXCEPT ![r] = done]
          BY <3>6, <4>3 DEF QueryReturns
        <5> HIDE DEF done
        <5> QED
          BY <3>a, <4>1, <5>1
      <4> QED
        BY <4>2, <4>3
    <3> QED
      BY <2>4, <3>1, <3>2, <3>4, <3>5, <3>6 DEF Reader
  <2> QED
    BY <2>2, <2>3, <2>4 DEF Next
<1> QED
  BY <1>c, <1>d DEF CallsInv

\* Safety: calls are known by their reads, and index.db is there, and older
\* than a new index, whenever readers are served from it.
THEOREM CallsInvariance == Spec => [](IInv /\ CallsInv)
<1>1. Init => IInv /\ CallsInv
  BY InitInv, InitCalls
<1>2. IInv /\ CallsInv /\ [Next]_vars => (IInv /\ CallsInv)'
  BY Inductive, CallsStep
<1> QED
  BY <1>1, <1>2, PTL DEF Spec

\* What the types say of the calls, seen from outside.
LEMMA CallFacts ==
    ASSUME TypeOK, ReadersInv
    PROVE  /\ ServedIndex.gen = live /\ live \in Nat
           /\ live # 0 => live \in DOMAIN handles /\ ServedIndex \in Atomic!Index
           /\ \A r \in Readers : /\ rd[r].pc \in {"idle", "load", "loaded", "query"}
                                 /\ rd[r].left \in Nat /\ rd[r].seen \subseteq Nat
                                 /\ rd[r].pc \in {"loaded", "query"} => rd[r].h \in DOMAIN handles /\ rd[r].h \in Nat \ {0}
<1>1. \A i \in DOMAIN handles : handles[i].has.ver \in Nat /\ i \in Nat \ {0}
  BY HandleFacts, BoundsAssumption DEF TypeOK, Contents
<1>2. live \in 0 .. Len(handles) /\ DOMAIN handles = 1 .. Len(handles)
  BY HandleFacts DEF TypeOK, HandleTypes
<1> QED
  BY <1>1, <1>2 DEF TypeOK, ReaderTypes, ReadersInv, ServedIndex, Atomic!Index

\* Calls and handles that are left as they are look the same from outside.
LEMMA CallsSame ==
    ASSUME ReadersInv, UNCHANGED rd,
           \A i \in DOMAIN handles : handles'[i].has = handles[i].has
    PROVE  ToolCalls' = ToolCalls
<1>1. \A r \in Readers : ReadOf(rd[r])' = ReadOf(rd[r])
  BY DEF ReadersInv, ReadOf
<1> QED
  BY <1>1 DEF ToolCalls

\* A step of one reader changes its call only.
LEMMA OneCall ==
    ASSUME TypeOK, NEW r \in Readers, NEW call, rd' = [rd EXCEPT ![r] = call], UNCHANGED handles
    PROVE  ToolCalls' = [ToolCalls EXCEPT ![r] = [left |-> call.left, got |-> ReadOf(call), seen |-> call.seen]]
<1>1. rd'[r] = call /\ \A s \in Readers \ {r} : rd'[s] = rd[s]
  BY DEF TypeOK, ReaderTypes
<1>2. \A s \in Readers \ {r} : ReadOf(rd[s])' = ReadOf(rd[s])
  BY <1>1 DEF ReadOf
<1>3. ReadOf(rd[r])' = ReadOf(call)
  BY <1>1 DEF ReadOf
<1> QED
  BY <1>1, <1>2, <1>3 DEF ToolCalls

\* The steps of a reader are those of its call: what it reads is what the
\* handle it has loaded was opened on, whichever connection it gets.
LEMMA ReaderReads ==
    ASSUME IInv, CallsInv, NEW r \in Readers, Reader(r)
    PROVE  [Atomic!Next]_<<ServedIndex, Publishing, ToolCalls>>
<1>a. TypeOK /\ ReadersInv /\ FileTypes /\ HandleTypes /\ FilesInv /\ HandlesInv /\ OneOpenHandle
  BY DEF IInv, TypeOK
<1>b. UNCHANGED <<handles, live, step>> /\ UNCHANGED <<ServedIndex, Publishing>>
  BY ReadersOnlyRead DEF storeVars, ServedIndex, Publishing
<1>c. ToolCalls[r] = [left |-> rd[r].left, got |-> ReadOf(rd[r]), seen |-> rd[r].seen]
  BY DEF ToolCalls
<1>g. ToolCalls[r].left = rd[r].left /\ ToolCalls[r].got = ReadOf(rd[r]) /\ ToolCalls[r].seen = rd[r].seen
  BY <1>c
<1>h. ToolCalls = [s \in Readers |-> ToolCalls[s]]
  BY DEF ToolCalls
<1>d. rd[r].pc = "idle" <=> rd[r].left = 0
  BY DEF CallsInv
<1>e. rd \in [Readers -> [pc : {"idle", "load", "loaded", "query"}, h : Nat, conn : Contents,
                          left : Nat, seen : SUBSET Nat]]
  BY <1>a DEF TypeOK, ReaderTypes
<1>f. rd[r].pc \in {"loaded", "query"} => ReadOf(rd[r]) # Atomic!Nothing
  BY <1>a, CallFacts DEF ReadOf, Atomic!Nothing
<1> HIDE DEF Publishing
<1>1. CASE SearchSymbol(r) \/ GetSymbol(r)
  <2>1. PICK n \in {1, 3} : BeginCall(r, n)
    BY <1>1 DEF SearchSymbol, GetSymbol
  <2> DEFINE call == [Idle EXCEPT !.pc = "load", !.left = n]
  <2>2. call.left = n /\ call.seen = {} /\ call.pc = "load"
    BY DEF Idle
  <2>3. ReadOf(call) = Atomic!Nothing
    BY <2>2 DEF ReadOf, Atomic!Nothing
  <2>4. ToolCalls' = [ToolCalls EXCEPT ![r] = [left |-> n, got |-> Atomic!Nothing, seen |-> {}]]
    BY <1>a, <1>b, <2>1, <2>2, <2>3, OneCall DEF BeginCall
  <2>5. [Atomic!NoCall EXCEPT !.left = n] = [left |-> n, got |-> Atomic!Nothing, seen |-> {}]
    BY DEF Atomic!NoCall
  <2>6. ServedIndex # Atomic!Nothing /\ ToolCalls[r].left = 0
    BY <1>a, <1>d, <1>g, <2>1, CallFacts DEF BeginCall, Atomic!Nothing
  <2>7. Atomic!Begin(r)
    BY <1>b, <2>4, <2>5, <2>6 DEF Atomic!Begin, Atomic!indexVars
  <2> QED
    BY <2>7 DEF Atomic!Next
<1>2. CASE LoadHandle(r)
  <2> DEFINE call == [rd[r] EXCEPT !.pc = "loaded", !.h = live]
  <2>1. rd' = [rd EXCEPT ![r] = call]
    BY <1>2, <1>e DEF LoadHandle
  <2>2. call.left = rd[r].left /\ call.seen = rd[r].seen /\ call.pc = "loaded" /\ call.h = live
    BY <1>e
  <2>3. live # 0 /\ ReadOf(call) = ServedIndex
    BY <1>2, <1>a, <2>2 DEF LoadHandle, ReadersInv, ReadOf, ServedIndex
  <2>4. ToolCalls' = [ToolCalls EXCEPT ![r] = [left |-> rd[r].left, got |-> ServedIndex, seen |-> rd[r].seen]]
    BY <1>a, <1>b, <2>1, <2>2, <2>3, OneCall
  <2>5. ToolCalls' = [ToolCalls EXCEPT ![r].got = ServedIndex]
    <3> DEFINE S == ServedIndex
    <3>1. [ToolCalls[r] EXCEPT !.got = S] = [left |-> rd[r].left, got |-> S, seen |-> rd[r].seen]
      BY <1>c
    <3>2. ToolCalls' = [ToolCalls EXCEPT ![r] = [ToolCalls[r] EXCEPT !.got = S]]
      BY <2>4, <3>1
    <3> HIDE DEF S
    <3>3. ToolCalls' = [ToolCalls EXCEPT ![r].got = S]
      BY <3>2
    <3> QED
      BY <3>3 DEF S
  <2>6. ToolCalls[r].left > 0 /\ ToolCalls[r].got = Atomic!Nothing
    <3>1. rd[r].pc = "load" /\ rd[r].left > 0
      BY <1>2, <1>d, <1>e DEF LoadHandle
    <3>2. ReadOf(rd[r]) = Atomic!Nothing
      BY <3>1 DEF ReadOf, Atomic!Nothing
    <3> QED
      BY <1>g, <3>1, <3>2
  <2>7. Atomic!Read(r)
    BY <1>b, <2>5, <2>6 DEF Atomic!Read, Atomic!indexVars
  <2> QED
    BY <2>7 DEF Atomic!Next
<1>3. ASSUME rd[r].pc = "loaded", Connected(r, handles[rd[r].h].has)
      PROVE  UNCHANGED ToolCalls
  <2> DEFINE call == [rd[r] EXCEPT !.pc = "query", !.conn = handles[rd[r].h].has]
  <2>1. rd' = [rd EXCEPT ![r] = call]
    BY <1>3, <1>e DEF Connected
  <2>2. /\ call.left = rd[r].left /\ call.seen = rd[r].seen /\ call.pc = "query" /\ call.h = rd[r].h
        /\ call.conn = handles[rd[r].h].has
    BY <1>e
  <2>3. ReadOf(call) = ReadOf(rd[r])
    BY <1>3, <2>2 DEF ReadOf
  <2>4. ToolCalls' = [ToolCalls EXCEPT ![r] = [left |-> rd[r].left, got |-> ReadOf(rd[r]), seen |-> rd[r].seen]]
    BY <1>a, <1>b, <2>1, <2>2, <2>3, OneCall
  <2> QED
    BY <1>c, <1>h, <2>4
<1>4. ASSUME NEW result, rd[r].pc = "loaded", CallReturns(r, result), Publishing \/ rd[r].h # live
      PROVE  Atomic!Fail(r)
  <2> DEFINE call == [Idle EXCEPT !.seen = rd[r].seen]
  <2>1. call.left = 0 /\ call.seen = rd[r].seen /\ call.pc = "idle"
    BY DEF Idle
  <2>2. ReadOf(call) = Atomic!Nothing
    BY <2>1 DEF ReadOf, Atomic!Nothing
  <2>3. ToolCalls' = [ToolCalls EXCEPT ![r] = [left |-> 0, got |-> Atomic!Nothing, seen |-> rd[r].seen]]
    BY <1>4, <1>a, <1>b, <2>1, <2>2, OneCall DEF CallReturns
  <2>4. [Atomic!NoCall EXCEPT !.seen = ToolCalls[r].seen] = [left |-> 0, got |-> Atomic!Nothing, seen |-> rd[r].seen]
    BY <1>g DEF Atomic!NoCall
  <2>5. rd[r].h # live => ToolCalls[r].got # ServedIndex
    <3>1. ReadOf(rd[r]).gen = rd[r].h
      BY <1>4 DEF ReadOf
    <3> QED
      BY <1>a, <1>g, <3>1, CallFacts
  <2> QED
    BY <1>4, <1>b, <1>f, <1>g, <2>3, <2>4, <2>5 DEF Atomic!Fail, Atomic!indexVars
<1>5. CASE QueryPooled(r)
  BY <1>3, <1>5, <1>b DEF QueryPooled
<1>6. CASE QueryConnects(r)
  <2> DEFINE file == disk[handles[rd[r].h].name]
  <2>1. rd[r].pc = "loaded" /\ rd[r].h \in DOMAIN handles /\ handles[rd[r].h].open
    BY <1>6, <1>a DEF QueryConnects, ReadersInv
  <2>2. file \in {handles[rd[r].h].has, Absent}
    BY <1>a, <2>1, OpenHandlesMatch DEF HandleMatchesFile
  <2>3. CASE file.st = "absent"
    <3>1. CASE Settled /\ rd[r].h = live
      BY <1>a, <2>3, <3>1 DEF HandlesInv, CallsInv
    <3>2. Settled \/ Publishing
      BY <1>a, <2>1 DEF HandlesInv, ReadersInv
    <3> QED
      BY <1>4, <1>6, <2>1, <2>3, <3>1, <3>2 DEF QueryConnects, Atomic!Next
  <2>4. CASE file.st # "absent"
    BY <1>3, <1>6, <1>b, <2>1, <2>2, <2>4 DEF QueryConnects, Absent
  <2> QED
    BY <2>3, <2>4
<1>7. CASE QueryRefused(r)
  <2>1. rd[r].pc = "loaded" /\ rd[r].h # live
    BY <1>7, <1>a DEF QueryRefused, OneOpenHandle, ReadersInv
  <2> QED
    BY <1>4, <1>7, <2>1 DEF QueryRefused, Atomic!Next
<1>8. CASE QueryReturns(r)
  <2>1. rd[r].pc = "query" /\ rd[r].left > 0
    BY <1>8, <1>d, <1>e DEF QueryReturns
  <2> DEFINE seen == rd[r].seen \cup {rd[r].conn.ver}
             call == IF rd[r].left > 1
                     THEN [Idle EXCEPT !.pc = "load", !.left = rd[r].left - 1, !.seen = seen]
                     ELSE [Idle EXCEPT !.seen = seen]
  <2>2. rd' = [rd EXCEPT ![r] = call]
    BY <1>8 DEF QueryReturns
  <2>3. call.left = rd[r].left - 1 /\ call.seen = seen /\ call.pc \in {"idle", "load"}
    BY <1>e, <2>1 DEF Idle
  <2> HIDE DEF call
  <2>4. ReadOf(call) = Atomic!Nothing
    BY <2>3 DEF ReadOf, Atomic!Nothing
  <2>5. ToolCalls' = [ToolCalls EXCEPT ![r] = [left |-> rd[r].left - 1, got |-> Atomic!Nothing, seen |-> seen]]
    BY <1>a, <1>b, <2>2, <2>3, <2>4, OneCall
  <2>6. ToolCalls[r].got.ver = rd[r].conn.ver
    <3>1. ReadOf(rd[r]).ver = rd[r].conn.ver
      BY <2>1 DEF ReadOf
    <3> QED
      BY <1>g, <3>1
  <2>7. Atomic!Finish(r)
    BY <1>b, <1>f, <1>g, <2>1, <2>5, <2>6 DEF Atomic!Finish, Atomic!indexVars
  <2> QED
    BY <2>7 DEF Atomic!Next
<1> QED
  BY <1>1, <1>2, <1>5, <1>6, <1>7, <1>8 DEF Reader

\* The steps of the publisher are those of AtomicIndex: the two Swaps publish,
\* the first one a newer index, and all else goes unseen.
LEMMA PublisherPublishes ==
    ASSUME IInv, CallsInv, Publisher
    PROVE  [Atomic!Next]_<<ServedIndex, Publishing, ToolCalls>>
<1>a. TypeOK /\ ReadersInv /\ FileTypes /\ HandleTypes /\ FilesInv /\ HandlesInv
  BY DEF IInv, TypeOK
<1>b. UNCHANGED rd
  BY PublisherKeepsReaders DEF readVars
<1>1. CASE \/ Stat \/ Seed \/ SeedCommits \/ StartRebuild \/ CreateNew \/ CreateCollides \/ WriteCommits
           \/ RemoveFirst \/ RenameNew
  <2>1. UNCHANGED <<handles, live>> /\ UNCHANGED Publishing
    BY <1>1 DEF Stat, Seed, SeedCommits, StartRebuild, CreateNew, CreateCollides, WriteCommits,
                RemoveFirst, RenameNew, storeVars, Publishing
  <2> QED
    BY <1>a, <1>b, <2>1, CallsSame DEF ServedIndex
<1>2. CASE OpenStore
  <2>1. live = 0 /\ UNCHANGED Publishing
    BY <1>2, <1>a DEF OpenStore, HandlesInv, Settled, Publishing
  <2>2. handles = <<>> /\ UNCHANGED ToolCalls
    BY <1>a, <1>b, <2>1, CallsSame DEF HandlesInv
  <2>3. ServedIndex' = [gen |-> 1, ver |-> disk[0].ver]
    BY <1>2 DEF OpenStore, Handle, ServedIndex
  <2>4. ServedIndex = Atomic!Nothing /\ ServedIndex' \in Atomic!Index
    BY <1>a, <2>1, <2>3, FileFacts DEF ServedIndex, Atomic!Nothing, Atomic!Index
  <2>5. Atomic!Open
    BY <2>1, <2>2, <2>4 DEF Atomic!Open
  <2> QED
    BY <2>5 DEF Atomic!Next
<1>3. ASSUME NEW n \in Names, SwapPointer(n), live # 0
      PROVE  /\ UNCHANGED ToolCalls /\ ServedIndex # Atomic!Nothing
             /\ ServedIndex' \in Atomic!Index /\ ServedIndex'.gen > ServedIndex.gen
             /\ ServedIndex'.ver = disk[n].ver /\ ServedIndex.ver = handles[live].has.ver
  <2>1. /\ live' = Len(handles) + 1 /\ handles'[live'] = Handle(n)
        /\ \A i \in DOMAIN handles : handles'[i] = handles[i]
    BY <1>3, <1>a DEF SwapPointer, HandleTypes
  <2>2. Len(handles) \in Nat /\ live \in 1 .. Len(handles)
    BY <1>3, <1>a, HandleFacts DEF HandleTypes
  <2>3. ServedIndex' = [gen |-> live', ver |-> disk[n].ver]
    BY <2>1, <2>2 DEF ServedIndex, Handle
  <2>4. ServedIndex = [gen |-> live, ver |-> handles[live].has.ver]
    BY <2>2 DEF ServedIndex
  <2>5. UNCHANGED ToolCalls
    BY <1>a, <1>b, <2>1, CallsSame
  <2> QED
    BY <1>a, <2>1, <2>2, <2>3, <2>4, <2>5, FileFacts DEF Atomic!Index, Atomic!Nothing
<1>4. CASE SwapNew
  <2>1. /\ SwapPointer(seq) /\ live # 0 /\ ~Publishing /\ Publishing'
        /\ handles[live].has = disk[0] /\ disk[seq].ver = built /\ disk[0].ver < built
    BY <1>4, <1>a DEF SwapNew, HandlesInv, Settled, Publishing, FilesInv, New, CallsInv
  <2>2. Atomic!Publish
    BY <1>3, <1>a, <2>1, FileFacts DEF Atomic!Publish
  <2> QED
    BY <2>2 DEF Atomic!Next
<1>5. CASE SwapFirst
  <2>1. /\ SwapPointer(0) /\ live # 0 /\ Publishing /\ Publishing'
        /\ handles[live].has = New /\ disk[0] = New
    BY <1>5, <1>a DEF SwapFirst, HandlesInv, Publishing, FilesInv
  <2>2. Atomic!PublishAgain
    BY <1>3, <1>a, <2>1, FileFacts DEF Atomic!PublishAgain
  <2> QED
    BY <2>2 DEF Atomic!Next
<1>6. CASE CloseOld \/ CloseNew
  <2>1. /\ live' = live /\ live \in DOMAIN handles
        /\ \A i \in DOMAIN handles : handles'[i].has = handles[i].has
    BY <1>6, <1>a, CloseFacts, CallFacts DEF CloseOld, CloseNew, CloseHandle, HandlesInv, Publishing
  <2>2. UNCHANGED <<ServedIndex, ToolCalls>>
    BY <1>a, <1>b, <2>1, CallsSame DEF ServedIndex
  <2>3. CASE CloseOld
    BY <2>2, <2>3 DEF CloseOld, Publishing
  <2>4. CASE CloseNew
    <3>1. Atomic!Settle
      BY <2>2, <2>4 DEF CloseNew, Publishing, Atomic!Settle
    <3> QED
      BY <3>1 DEF Atomic!Next
  <2> QED
    BY <1>6, <2>3, <2>4
<1> QED
  BY <1>1, <1>2, <1>4, <1>5, <1>6 DEF Publisher

\* Refinement: the store implements AtomicIndex, for any readers, rebuilds and
\* restarts and wherever the process ends: reads are atomic although files are
\* removed and renamed under the handles they use, the index never goes back,
\* and reads fail only because of a publication.
THEOREM Refinement == Spec => ReadsAreAtomic
<1>1. Init => Atomic!Init
  BY DEF Init, Atomic!Init, ServedIndex, Publishing, ToolCalls, ReadOf, Idle, Atomic!Nothing, Atomic!NoCall
<1>2. IInv /\ CallsInv /\ [Next]_vars => [Atomic!Next]_<<ServedIndex, Publishing, ToolCalls>>
  <2> SUFFICES ASSUME IInv, CallsInv, [Next]_vars
               PROVE  [Atomic!Next]_<<ServedIndex, Publishing, ToolCalls>>
    OBVIOUS
  <2>a. TypeOK /\ ReadersInv
    BY DEF IInv
  <2>1. CASE ProcessStarts \/ UNCHANGED vars
    <3>1. UNCHANGED <<handles, live, rd>> /\ UNCHANGED Publishing
      BY <2>1 DEF ProcessStarts, vars, storeVars, readVars, Publishing
    <3> QED
      BY <2>a, <3>1, CallsSame DEF ServedIndex
  <2>2. CASE ProcessEnds
    <3>1. Atomic!Down
      BY <2>2 DEF ProcessEnds, Atomic!Down, ServedIndex, Publishing, ToolCalls, ReadOf, Idle,
                  Atomic!Nothing, Atomic!NoCall
    <3> QED
      BY <3>1 DEF Atomic!Next
  <2> QED
    BY <2>1, <2>2, ReaderReads, PublisherPublishes DEF Next
<1> QED
  BY CallsInvariance, <1>1, <1>2, PTL DEF Spec, ReadsAreAtomic, Atomic!Spec

=============================================================================
