----------------------------- MODULE Build_proofs -----------------------------
(***************************************************************************)
(* Proofs about clang-index build and serve for any builders, inputs and   *)
(* contents and whatever faults occur: the invariant IInv of module Build  *)
(* is inductive, so that nothing torn is ever published or served, a hit   *)
(* is as fresh as a miss, and only litter stands in the way of a build.    *)
(***************************************************************************)
EXTENDS Build, TLAPS

\* The files of the model are files.
LEMMA FileFacts ==
    /\ Absent \in Files /\ Empty \in Files /\ Torn \in Files /\ Schema \in Files
    /\ \A of \in Seq(Contents) : Index(of) \in Files
BY DEF Files, Absent, Empty, Torn, Schema, Index, File

\* A digest of every input is a key, and every key is a sequence of contents.
LEMMA KeyFacts ==
    /\ \A k \in Keys : k \in Seq(Contents) /\ DOMAIN k = Inputs /\ Len(k) = NInputs
    /\ \A k \in Seq(Contents) : Len(k) = NInputs => k \in Keys
BY InputsAssumption DEF Keys, Inputs

\* The file to be read next, and what is known of it.
LEMMA ComingFacts ==
    ASSUME TypeOK, NEW b \in Builders, ReadsSources(b) \/ ReadsCompDB(b)
    PROVE  Coming(b) \in Inputs /\ inputs[Coming(b)] \in Contents
<1>1. read[b] \in Seq(Contents) /\ Len(read[b]) \in Nat
  BY DEF TypeOK, BuilderTypes
<1>2. Coming(b) \in Inputs
  BY <1>1, InputsAssumption DEF ReadsSources, ReadsCompDB, Inputs, Coming
<1> QED
  BY <1>2 DEF TypeOK, SharedTypes, Keys

\* Having the content of one more input.
LEMMA HasFacts ==
    ASSUME TypeOK, NEW b \in Builders, NEW content \in Contents, Has(b, content)
    PROVE  /\ read' \in [Builders -> Seq(Contents)]
           /\ \A c \in Builders \ {b} : read'[c] = read[c]
           /\ \A i \in DOMAIN read'[b] : \/ i = Coming(b) /\ read'[b][i] = content
                                         \/ i \in DOMAIN read[b] /\ read'[b][i] = read[b][i]
<1>1. read[b] \in Seq(Contents) /\ Len(read[b]) \in Nat
  BY DEF TypeOK, BuilderTypes
<1> DEFINE more == Append(read[b], content)
<1>2. /\ more \in Seq(Contents)
      /\ \A i \in DOMAIN more : \/ i = Coming(b) /\ more[i] = content
                                \/ i \in DOMAIN read[b] /\ more[i] = read[b][i]
  BY <1>1 DEF Coming
<1>3. read' = [read EXCEPT ![b] = more]
  BY DEF Has
<1> HIDE DEF more
<1> QED
  BY <1>2, <1>3 DEF TypeOK, BuilderTypes

\* What is planned: nothing for a missing file, a payload, or a digest.
LEMMA PlanFacts ==
    ASSUME TypeOK, NEW b \in Builders, PlanTU(b)
    PROVE  LET i == Coming(b)
               k == PerFileKey(i, read[b][1], inputs[i])
           IN \/ inputs[i] = 0 /\ Has(b, inputs[i]) /\ UNCHANGED digest
              \/ k \in DOMAIN perFile /\ perFile[k] \in Contents /\ Has(b, perFile[k]) /\ UNCHANGED digest
              \/ digest' = [digest EXCEPT ![b][i] = inputs[i]] /\ UNCHANGED read
BY DEF PlanTU, TypeOK, FileTypes

\* A process that ends keeps the builders in their types.
LEMMA ExitTypes ==
    ASSUME BuilderTypes, NEW b \in Builders, NEW res \in Results, Exit(b, res), UNCHANGED quiet
    PROVE  BuilderTypes'
<1>1. Undigested \in [Inputs -> Contents]
  BY InputsAssumption DEF Undigested
<1> QED
  BY <1>1, FileFacts DEF BuilderTypes, Exit, Goto, PCs

\* The first build may find the cache warm.
LEMMA InitInv == Init => IInv
<1> SUFFICES ASSUME Init PROVE IInv
  OBVIOUS
<1>1. inputs \in Keys /\ inputs \in Seq(Contents) /\ <<>> \in Seq(Contents)
  BY KeyFacts, InputsAssumption DEF Init, Keys
<1>2. PICK warm \in SUBSET {inputs} :
          /\ cached = [k \in warm |-> Index(k)]
          /\ perFile = [k \in {PerFileKey(i, w[1], w[i]) : w \in warm, i \in Sources} |-> k[3]]
  BY DEF Init
<1>8. \A k \in DOMAIN perFile : k \in Sources \X Nat \X Contents /\ perFile[k] = k[3]
  <2>1. SUFFICES ASSUME NEW w \in warm, NEW i \in Sources
                 PROVE  PerFileKey(i, w[1], w[i]) \in Sources \X Nat \X Contents
    BY <1>2
  <2>2. w[1] \in Contents /\ w[i] \in Contents
    BY <1>1, InputsAssumption DEF Keys, Sources, Inputs
  <2> QED
    BY <2>2, CommandAssumption DEF PerFileKey
<1>3. TypeOK
  <2>1. SharedTypes
    BY <1>1 DEF Init, SharedTypes
  <2>2. perFile \in [DOMAIN perFile -> Contents]
    BY <1>2, <1>8
  <2>3. FileTypes
    BY <1>1, <1>2, <2>2, FileFacts DEF Init, FileTypes
  <2>4. Undigested \in [Inputs -> Contents]
    BY InputsAssumption DEF Undigested
  <2>5. BuilderTypes
    BY <1>1, <2>4, FileFacts DEF Init, BuilderTypes, PCs, Results
  <2> QED
    BY <2>1, <2>3, <2>5 DEF TypeOK
<1>4. \A k \in DOMAIN cached : NamedBy(cached[k], k)
  BY <1>2 DEF NamedBy, Index, File
<1>5. FilesInv
  BY <1>4 DEF Init, FilesInv, HasInHand, HasInTmp
<1>6. QuietInv /\ RunInv /\ BuildIsFresh /\ BlockedOnlyByLitter
  BY InputsAssumption DEF Init, QuietInv, RunInv, BuildIsFresh, BlockedOnlyByLitter, Undigested
<1>9. PerFileInv
  BY <1>8 DEF PerFileInv
<1>7. NothingTorn
  BY <1>4 DEF Init, NothingTorn, NamedBy, Absent, File
<1> QED
  BY <1>3, <1>5, <1>6, <1>7, <1>9 DEF IInv

\* Every action keeps the inputs and the histories in their types.
LEMMA SharedTypesStep ==
  TypeOK /\ [Next]_vars => SharedTypes'
<1> SUFFICES ASSUME TypeOK, [Next]_vars PROVE SharedTypes'
  OBVIOUS
<1> USE DEF TypeOK, SharedTypes, inputVars, ghosts
<1>1. CASE UNCHANGED vars
  BY <1>1 DEF vars
<1>2. ASSUME NEW b \in Builders, Start(b) PROVE SharedTypes'
  BY <1>2 DEF Start
<1>3. ASSUME NEW b \in Builders, LoadCompDB(b) PROVE SharedTypes'
  BY <1>3 DEF LoadCompDB
<1>4. ASSUME NEW b \in Builders, NoCompDB(b) PROVE SharedTypes'
  BY <1>4 DEF NoCompDB
<1>5. ASSUME NEW b \in Builders, Digest(b) PROVE SharedTypes'
  BY <1>5 DEF Digest
<1>6. ASSUME NEW b \in Builders, LookupHit(b) PROVE SharedTypes'
  BY <1>6 DEF LookupHit
<1>7. ASSUME NEW b \in Builders, LookupMiss(b) PROVE SharedTypes'
  BY <1>7 DEF LookupMiss
<1>8. ASSUME NEW b \in Builders, CopyCreates(b) PROVE SharedTypes'
  BY <1>8 DEF CopyCreates
<1>9. ASSUME NEW b \in Builders, CopyData(b) PROVE SharedTypes'
  BY <1>9 DEF CopyData
<1>10. ASSUME NEW b \in Builders, CopyFails(b) PROVE SharedTypes'
  BY <1>10 DEF CopyFails
<1>11. ASSUME NEW b \in Builders, CopyRenames(b) PROVE SharedTypes'
  BY <1>11 DEF CopyRenames
<1>12. ASSUME NEW b \in Builders, Spawn(b) PROVE SharedTypes'
  BY <1>12 DEF Spawn
<1>13. ASSUME NEW b \in Builders, SpawnFails(b) PROVE SharedTypes'
  BY <1>13 DEF SpawnFails
<1>14. ASSUME NEW b \in Builders, Extracted(b) PROVE SharedTypes'
  BY <1>14 DEF Extracted, BuilderTypes
<1>15. ASSUME NEW b \in Builders, ExtractFails(b) PROVE SharedTypes'
  BY <1>15 DEF ExtractFails
<1>16. ASSUME NEW b \in Builders, CreateTmp(b) PROVE SharedTypes'
  BY <1>16 DEF CreateTmp
<1>17. ASSUME NEW b \in Builders, CreateCollides(b) PROVE SharedTypes'
  BY <1>17 DEF CreateCollides
<1>18. ASSUME NEW b \in Builders, CommitTmp(b) PROVE SharedTypes'
  BY <1>18 DEF CommitTmp
<1>19. ASSUME NEW b \in Builders, CommitFails(b) PROVE SharedTypes'
  BY <1>19 DEF CommitFails
<1>20. ASSUME NEW b \in Builders, RenameTmp(b) PROVE SharedTypes'
  BY <1>20 DEF RenameTmp
<1>21. ASSUME NEW b \in Builders, PutCopies(b) PROVE SharedTypes'
  BY <1>21 DEF PutCopies
<1>22. ASSUME NEW b \in Builders, PutFails(b) PROVE SharedTypes'
  BY <1>22 DEF PutFails
<1>23. ASSUME NEW b \in Builders, PutRenames(b) PROVE SharedTypes'
  BY <1>23 DEF PutRenames
<1>24. ASSUME NEW b \in Builders, Kill(b) PROVE SharedTypes'
  BY <1>24 DEF Kill
<1>25. ASSUME NEW b \in Builders, Signal(b) PROVE SharedTypes'
  BY <1>25 DEF Signal
<1>26. ASSUME NEW b \in Builders, ServeConnects(b) PROVE SharedTypes'
  BY <1>26 DEF ServeConnects
<1>27. CASE ServeEnds
  BY <1>27 DEF ServeEnds
<1>28. ASSUME NEW i \in Inputs, Edit(i) PROVE SharedTypes'
  BY <1>28, InputsAssumption DEF Edit, Keys
<1>29. ASSUME NEW b \in Builders, SumFile(b) PROVE SharedTypes'
  BY <1>29 DEF SumFile
<1>30. ASSUME NEW b \in Builders, PlanTU(b) PROVE SharedTypes'
  BY <1>30 DEF PlanTU
<1>31. ASSUME NEW b \in Builders, OpenTU(b) PROVE SharedTypes'
  BY <1>31 DEF OpenTU
<1>32. ASSUME NEW b \in Builders, NEW i \in Sources, PutTU(b, i) PROVE SharedTypes'
  <2>1. i \in Inputs /\ digest[b][i] \in Contents
    BY DEF Sources, BuilderTypes
  <2>2. movedTUs' \subseteq movedTUs \cup {<<i, digest[b][i]>>}
    BY <1>32 DEF PutTU
  <2>3. movedTUs' \subseteq Inputs \X Contents
    BY <2>1, <2>2
  <2> QED
    BY <1>32, <2>3 DEF PutTU
<1> QED
  BY <1>1, <1>2, <1>3, <1>4, <1>5, <1>6, <1>7, <1>8, <1>9, <1>10, <1>11, <1>12,
     <1>13, <1>14, <1>15, <1>16, <1>17, <1>18, <1>19, <1>20, <1>21, <1>22, <1>23,
     <1>24, <1>25, <1>26, <1>27, <1>28, <1>29, <1>30, <1>31, <1>32
     DEF Next, Build

\* Every action keeps the files in their types.
LEMMA FileTypesStep ==
  TypeOK /\ [Next]_vars => FileTypes'
<1> SUFFICES ASSUME TypeOK, [Next]_vars PROVE FileTypes'
  OBVIOUS
<1> USE FileFacts DEF TypeOK, FileTypes, inputVars, ghosts
<1>1. CASE UNCHANGED vars
  BY <1>1 DEF vars
<1>2. ASSUME NEW b \in Builders, Start(b) PROVE FileTypes'
  BY <1>2 DEF Start
<1>3. ASSUME NEW b \in Builders, LoadCompDB(b) PROVE FileTypes'
  BY <1>3 DEF LoadCompDB
<1>4. ASSUME NEW b \in Builders, NoCompDB(b) PROVE FileTypes'
  BY <1>4 DEF NoCompDB
<1>5. ASSUME NEW b \in Builders, Digest(b) PROVE FileTypes'
  BY <1>5 DEF Digest
<1>6. ASSUME NEW b \in Builders, LookupHit(b) PROVE FileTypes'
  BY <1>6 DEF LookupHit
<1>7. ASSUME NEW b \in Builders, LookupMiss(b) PROVE FileTypes'
  BY <1>7 DEF LookupMiss
<1>8. ASSUME NEW b \in Builders, CopyCreates(b) PROVE FileTypes'
  BY <1>8 DEF CopyCreates
<1>9. ASSUME NEW b \in Builders, CopyData(b) PROVE FileTypes'
  BY <1>9 DEF CopyData, BuilderTypes
<1>10. ASSUME NEW b \in Builders, CopyFails(b) PROVE FileTypes'
  BY <1>10 DEF CopyFails
<1>11. ASSUME NEW b \in Builders, CopyRenames(b) PROVE FileTypes'
  BY <1>11 DEF CopyRenames, Rename
<1>12. ASSUME NEW b \in Builders, Spawn(b) PROVE FileTypes'
  BY <1>12 DEF Spawn
<1>13. ASSUME NEW b \in Builders, SpawnFails(b) PROVE FileTypes'
  BY <1>13 DEF SpawnFails
<1>14. ASSUME NEW b \in Builders, Extracted(b) PROVE FileTypes'
  BY <1>14 DEF Extracted
<1>15. ASSUME NEW b \in Builders, ExtractFails(b) PROVE FileTypes'
  BY <1>15 DEF ExtractFails
<1>16. ASSUME NEW b \in Builders, CreateTmp(b) PROVE FileTypes'
  BY <1>16 DEF CreateTmp
<1>17. ASSUME NEW b \in Builders, CreateCollides(b) PROVE FileTypes'
  BY <1>17 DEF CreateCollides
<1>18. ASSUME NEW b \in Builders, CommitTmp(b) PROVE FileTypes'
  BY <1>18 DEF CommitTmp, BuilderTypes
<1>19. ASSUME NEW b \in Builders, CommitFails(b) PROVE FileTypes'
  BY <1>19 DEF CommitFails
<1>20. ASSUME NEW b \in Builders, RenameTmp(b) PROVE FileTypes'
  BY <1>20 DEF RenameTmp, Rename
<1>21. ASSUME NEW b \in Builders, PutCopies(b) PROVE FileTypes'
  BY <1>21 DEF PutCopies
<1>22. ASSUME NEW b \in Builders, PutFails(b) PROVE FileTypes'
  BY <1>22 DEF PutFails
<1>23. ASSUME NEW b \in Builders, PutRenames(b) PROVE FileTypes'
  <2>1. key[b] \in Seq(Contents) /\ held[b] \in Files
    BY DEF BuilderTypes
  <2> QED
    BY <1>23, <2>1 DEF PutRenames
<1>24. ASSUME NEW b \in Builders, Kill(b) PROVE FileTypes'
  BY <1>24 DEF Kill
<1>25. ASSUME NEW b \in Builders, Signal(b) PROVE FileTypes'
  BY <1>25 DEF Signal
<1>26. ASSUME NEW b \in Builders, ServeConnects(b) PROVE FileTypes'
  BY <1>26 DEF ServeConnects
<1>27. CASE ServeEnds
  BY <1>27 DEF ServeEnds
<1>28. ASSUME NEW i \in Inputs, Edit(i) PROVE FileTypes'
  BY <1>28 DEF Edit
<1>29. ASSUME NEW b \in Builders, SumFile(b) PROVE FileTypes'
  BY <1>29 DEF SumFile
<1>30. ASSUME NEW b \in Builders, PlanTU(b) PROVE FileTypes'
  BY <1>30 DEF PlanTU
<1>31. ASSUME NEW b \in Builders, OpenTU(b) PROVE FileTypes'
  BY <1>31 DEF OpenTU
<1>32. ASSUME NEW b \in Builders, NEW i \in Sources, PutTU(b, i) PROVE FileTypes'
  <2>1. read[b][i] \in Contents
    BY <1>32, InputsAssumption DEF PutTU, BuilderTypes, Sources, Inputs
  <2>2. perFile' \in [DOMAIN perFile' -> Contents]
    BY <1>32, <2>1 DEF PutTU
  <2> QED
    BY <1>32, <2>2 DEF PutTU
<1> QED
  BY <1>1, <1>2, <1>3, <1>4, <1>5, <1>6, <1>7, <1>8, <1>9, <1>10, <1>11, <1>12,
     <1>13, <1>14, <1>15, <1>16, <1>17, <1>18, <1>19, <1>20, <1>21, <1>22, <1>23,
     <1>24, <1>25, <1>26, <1>27, <1>28, <1>29, <1>30, <1>31, <1>32
     DEF Next, Build

\* Every action keeps the builders in their types.
LEMMA BuilderTypesStep ==
  TypeOK /\ [Next]_vars => BuilderTypes'
<1> SUFFICES ASSUME TypeOK, [Next]_vars PROVE BuilderTypes'
  OBVIOUS
<1> USE FileFacts DEF TypeOK, BuilderTypes, inputVars, ghosts, PCs, Results
<1>1. CASE UNCHANGED vars
  BY <1>1 DEF vars
<1>2. ASSUME NEW b \in Builders, Start(b) PROVE BuilderTypes'
  BY <1>2 DEF Start, Goto
<1>3. ASSUME NEW b \in Builders, LoadCompDB(b) PROVE BuilderTypes'
  <2>1. inputs[1] \in Contents
    BY InputsAssumption DEF SharedTypes, Keys, Inputs
  <2> QED
    BY <1>3, <2>1, HasFacts DEF LoadCompDB
<1>4. ASSUME NEW b \in Builders, NoCompDB(b) PROVE BuilderTypes'
  BY <1>4, ExitTypes DEF NoCompDB
<1>5. ASSUME NEW b \in Builders, Digest(b) PROVE BuilderTypes'
  <2>1. <<>> \in Seq(Contents)
    OBVIOUS
  <2> QED
    BY <1>5, <2>1 DEF Digest, Goto, InputDigest
<1>6. ASSUME NEW b \in Builders, LookupHit(b) PROVE BuilderTypes'
  <2>1. cached[key[b]] \in Files
    BY <1>6 DEF LookupHit, FileTypes
  <2> QED
    BY <1>6, <2>1 DEF LookupHit, Goto, Hold
<1>7. ASSUME NEW b \in Builders, LookupMiss(b) PROVE BuilderTypes'
  BY <1>7 DEF LookupMiss, Goto
<1>8. ASSUME NEW b \in Builders, CopyCreates(b) PROVE BuilderTypes'
  BY <1>8 DEF CopyCreates, Goto
<1>9. ASSUME NEW b \in Builders, CopyData(b) PROVE BuilderTypes'
  BY <1>9 DEF CopyData, Goto
<1>10. ASSUME NEW b \in Builders, CopyFails(b) PROVE BuilderTypes'
  BY <1>10, ExitTypes DEF CopyFails
<1>11. ASSUME NEW b \in Builders, CopyRenames(b) PROVE BuilderTypes'
  BY <1>11, ExitTypes DEF CopyRenames
<1>12. ASSUME NEW b \in Builders, Spawn(b) PROVE BuilderTypes'
  BY <1>12 DEF Spawn, Goto
<1>13. ASSUME NEW b \in Builders, SpawnFails(b) PROVE BuilderTypes'
  BY <1>13, ExitTypes DEF SpawnFails
<1>14. ASSUME NEW b \in Builders, Extracted(b) PROVE BuilderTypes'
  <2>1. Index(read[b]) \in Files
    OBVIOUS
  <2> QED
    BY <1>14, <2>1 DEF Extracted, Goto, Hold
<1>15. ASSUME NEW b \in Builders, ExtractFails(b) PROVE BuilderTypes'
  BY <1>15, ExitTypes DEF ExtractFails
<1>16. ASSUME NEW b \in Builders, CreateTmp(b) PROVE BuilderTypes'
  BY <1>16 DEF CreateTmp, Goto
<1>17. ASSUME NEW b \in Builders, CreateCollides(b) PROVE BuilderTypes'
  BY <1>17, ExitTypes DEF CreateCollides
<1>18. ASSUME NEW b \in Builders, CommitTmp(b) PROVE BuilderTypes'
  BY <1>18 DEF CommitTmp, Goto
<1>19. ASSUME NEW b \in Builders, CommitFails(b) PROVE BuilderTypes'
  BY <1>19, ExitTypes DEF CommitFails
<1>20. ASSUME NEW b \in Builders, RenameTmp(b) PROVE BuilderTypes'
  BY <1>20 DEF RenameTmp, Goto, Rename
<1>21. ASSUME NEW b \in Builders, PutCopies(b) PROVE BuilderTypes'
  <2>1. out[b] \in Files
    BY DEF FileTypes
  <2> QED
    BY <1>21, <2>1 DEF PutCopies, Goto, Hold
<1>22. ASSUME NEW b \in Builders, PutFails(b) PROVE BuilderTypes'
  BY <1>22, ExitTypes DEF PutFails
<1>23. ASSUME NEW b \in Builders, PutRenames(b) PROVE BuilderTypes'
  BY <1>23, ExitTypes DEF PutRenames
<1>24. ASSUME NEW b \in Builders, Kill(b) PROVE BuilderTypes'
  BY <1>24, ExitTypes DEF Kill
<1>25. ASSUME NEW b \in Builders, Signal(b) PROVE BuilderTypes'
  BY <1>25 DEF Signal
<1>26. ASSUME NEW b \in Builders, ServeConnects(b) PROVE BuilderTypes'
  BY <1>26 DEF ServeConnects
<1>27. CASE ServeEnds
  BY <1>27 DEF ServeEnds
<1>28. ASSUME NEW i \in Inputs, Edit(i) PROVE BuilderTypes'
  BY <1>28 DEF Edit
<1>29. ASSUME NEW b \in Builders, SumFile(b) PROVE BuilderTypes'
  <2>1. inputs[Coming(b)] \in Contents
    BY <1>29, ComingFacts DEF SumFile
  <2> QED
    BY <1>29, <2>1, HasFacts DEF SumFile
<1>30. ASSUME NEW b \in Builders, PlanTU(b) PROVE BuilderTypes'
  <2>1. Coming(b) \in Inputs /\ inputs[Coming(b)] \in Contents
    BY <1>30, ComingFacts DEF PlanTU
  <2> DEFINE k == PerFileKey(Coming(b), read[b][1], inputs[Coming(b)])
  <2>2. \/ Has(b, inputs[Coming(b)]) /\ UNCHANGED digest
        \/ perFile[k] \in Contents /\ Has(b, perFile[k]) /\ UNCHANGED digest
        \/ digest' = [digest EXCEPT ![b][Coming(b)] = inputs[Coming(b)]] /\ UNCHANGED read
    BY <1>30, PlanFacts
  <2>3. UNCHANGED <<pc, key, held, signal, result, quiet>>
    BY <1>30 DEF PlanTU
  <2> HIDE DEF k
  <2>4. read' \in [Builders -> Seq(Contents)]
    BY <2>1, <2>2, HasFacts
  <2>5. digest' \in [Builders -> [Inputs -> Contents]]
    <3> DEFINE i == Coming(b)
               more == [digest[b] EXCEPT ![i] = inputs[i]]
    <3>1. more \in [Inputs -> Contents]
      BY <2>1
    <3>2. digest' = digest \/ digest' = [digest EXCEPT ![b] = more]
      BY <2>2
    <3> HIDE DEF more
    <3> QED
      BY <3>1, <3>2
  <2> QED
    BY <2>3, <2>4, <2>5
<1>31. ASSUME NEW b \in Builders, OpenTU(b) PROVE BuilderTypes'
  <2>1. inputs[Coming(b)] \in Contents
    BY <1>31, ComingFacts DEF OpenTU, Opening
  <2> QED
    BY <1>31, <2>1, HasFacts DEF OpenTU
<1>32. ASSUME NEW b \in Builders, NEW i \in Sources, PutTU(b, i) PROVE BuilderTypes'
  <2>1. digest' \in [Builders -> [Inputs -> Contents]]
    BY <1>32, InputsAssumption DEF PutTU
  <2> QED
    BY <1>32, <2>1 DEF PutTU
<1> QED
  BY <1>1, <1>2, <1>3, <1>4, <1>5, <1>6, <1>7, <1>8, <1>9, <1>10, <1>11, <1>12,
     <1>13, <1>14, <1>15, <1>16, <1>17, <1>18, <1>19, <1>20, <1>21, <1>22, <1>23,
     <1>24, <1>25, <1>26, <1>27, <1>28, <1>29, <1>30, <1>31, <1>32
     DEF Next, Build

\* Every action keeps every variable in its type.
LEMMA TypeStep == TypeOK /\ [Next]_vars => TypeOK'
BY SharedTypesStep, FileTypesStep, BuilderTypesStep DEF TypeOK

\* What is misfiled stays so.
LEMMA MovedGrows == [Next]_vars => moved \subseteq moved' /\ movedTUs \subseteq movedTUs'
<1> SUFFICES ASSUME [Next]_vars PROVE moved \subseteq moved' /\ movedTUs \subseteq movedTUs'
  OBVIOUS
<1>1. ASSUME NEW b \in Builders, NEW i \in Sources, PutTU(b, i)
      PROVE moved \subseteq moved' /\ movedTUs \subseteq movedTUs'
  BY <1>1 DEF PutTU
<1>2. ASSUME NEW b \in Builders, Extracted(b) PROVE moved \subseteq moved' /\ movedTUs \subseteq movedTUs'
  BY <1>2 DEF Extracted
<1>3. ASSUME NEW b \in Builders,
             LoadCompDB(b) \/ SumFile(b) \/ NoCompDB(b) \/ Digest(b) \/ LookupHit(b) \/ LookupMiss(b)
      PROVE UNCHANGED <<moved, movedTUs>>
  BY <1>3 DEF LoadCompDB, SumFile, NoCompDB, Digest, LookupHit, LookupMiss, ghosts
<1>4. ASSUME NEW b \in Builders,
             CopyCreates(b) \/ CopyData(b) \/ CopyFails(b) \/ CopyRenames(b) \/ Spawn(b) \/ SpawnFails(b)
      PROVE UNCHANGED <<moved, movedTUs>>
  BY <1>4 DEF CopyCreates, CopyData, CopyFails, CopyRenames, Spawn, SpawnFails, ghosts
<1>5. ASSUME NEW b \in Builders,
             PlanTU(b) \/ OpenTU(b) \/ ExtractFails(b) \/ CreateTmp(b) \/ CreateCollides(b)
      PROVE UNCHANGED <<moved, movedTUs>>
  BY <1>5 DEF PlanTU, OpenTU, ExtractFails, CreateTmp, CreateCollides, ghosts
<1>6. ASSUME NEW b \in Builders,
             CommitTmp(b) \/ CommitFails(b) \/ RenameTmp(b) \/ PutCopies(b) \/ PutFails(b) \/ PutRenames(b)
      PROVE UNCHANGED <<moved, movedTUs>>
  BY <1>6 DEF CommitTmp, CommitFails, RenameTmp, PutCopies, PutFails, PutRenames, ghosts
<1>7. ASSUME NEW b \in Builders, Start(b) \/ Kill(b) \/ Signal(b) \/ ServeConnects(b)
      PROVE UNCHANGED <<moved, movedTUs>>
  BY <1>7 DEF Start, Kill, Signal, ServeConnects, ghosts
<1>8. CASE ServeEnds \/ (\E i \in Inputs : Edit(i)) \/ UNCHANGED vars
  BY <1>8 DEF ServeEnds, Edit, vars, ghosts
<1> QED
  BY <1>1, <1>2, <1>3, <1>4, <1>5, <1>6, <1>7, <1>8 DEF Next, Build

\* Every action keeps the index that is on its way named by its key.
LEMMA FilesStep ==
  TypeOK /\ FilesInv /\ QuietInv /\ [Next]_vars => FilesInv'
<1> SUFFICES ASSUME TypeOK, FilesInv, QuietInv, [Next]_vars PROVE FilesInv'
  OBVIOUS
<1> USE DEF FilesInv, HasInHand, HasInTmp, inputVars, ghosts
<1>t. /\ pc \in [Builders -> PCs] /\ held \in [Builders -> Files]
      /\ key \in [Builders -> Seq(Contents)]
      /\ out \in [Builders -> Files] /\ tmp \in [Builders -> Files]
  BY DEF TypeOK, BuilderTypes, FileTypes
<1>m. \A file, k : NamedBy(file, k) => NamedBy(file, k)'
  BY MovedGrows DEF NamedBy, Misfiled
<1>m2. \A k : Misfiled(k) => Misfiled(k)'
  BY MovedGrows DEF Misfiled
<1>1. CASE UNCHANGED vars
  BY <1>1, <1>m DEF vars
<1>2. ASSUME NEW b \in Builders, Start(b) PROVE FilesInv'
  BY <1>2, <1>t, <1>m DEF Start, Goto
<1>3. ASSUME NEW b \in Builders, LoadCompDB(b) PROVE FilesInv'
  BY <1>3, <1>t, <1>m DEF LoadCompDB
<1>4. ASSUME NEW b \in Builders, NoCompDB(b) PROVE FilesInv'
  BY <1>4, <1>t, <1>m DEF NoCompDB, Exit, Goto
<1>5. ASSUME NEW b \in Builders, Digest(b) PROVE FilesInv'
  BY <1>5, <1>t, <1>m DEF Digest, Goto, InputDigest
<1>6. ASSUME NEW b \in Builders, LookupHit(b) PROVE FilesInv'
  BY <1>6, <1>t, <1>m DEF LookupHit, Goto, Hold
<1>7. ASSUME NEW b \in Builders, LookupMiss(b) PROVE FilesInv'
  BY <1>7, <1>t, <1>m DEF LookupMiss, Goto
<1>8. ASSUME NEW b \in Builders, CopyCreates(b) PROVE FilesInv'
  BY <1>8, <1>t, <1>m DEF CopyCreates, Goto
<1>9. ASSUME NEW b \in Builders, CopyData(b) PROVE FilesInv'
  BY <1>9, <1>t, <1>m DEF CopyData, Goto
<1>10. ASSUME NEW b \in Builders, CopyFails(b) PROVE FilesInv'
  BY <1>10, <1>t, <1>m DEF CopyFails, Exit, Goto
<1>11. ASSUME NEW b \in Builders, CopyRenames(b) PROVE FilesInv'
  <2>1. tmp[b].st = "index"
    BY <1>11 DEF CopyRenames, NamedBy
  <2> QED
    BY <1>11, <1>t, <1>m, <2>1 DEF CopyRenames, Exit, Goto, Rename
<1>12. ASSUME NEW b \in Builders, Spawn(b) PROVE FilesInv'
  BY <1>12, <1>t, <1>m DEF Spawn, Goto
<1>13. ASSUME NEW b \in Builders, SpawnFails(b) PROVE FilesInv'
  BY <1>13, <1>t, <1>m DEF SpawnFails, Exit, Goto
<1>14. ASSUME NEW b \in Builders, Extracted(b) PROVE FilesInv'
  <2>1. held' = [held EXCEPT ![b] = Index(read[b])]
    BY <1>14 DEF Extracted, Hold
  <2>2. quiet[b] => read[b] = key[b] \/ Misfiled(key[b])
    <3>1. quiet[b] => key[b] = inputs /\ \A i \in DOMAIN read[b] : read[b][i] = inputs[i] \/ <<i, inputs[i]>> \in movedTUs
      BY <1>14 DEF Extracted, QuietInv
    <3>2. read[b] \in Seq(Contents) /\ Len(read[b]) = NInputs
      BY <1>14 DEF Extracted, TypeOK, BuilderTypes
    <3>3. read[b] \in Keys /\ inputs \in Keys
      BY <3>2, KeyFacts DEF TypeOK, SharedTypes
    <3> QED
      BY <3>1, <3>3 DEF Keys, Misfiled
  <2>3. quiet[b] \/ key[b] \in moved'
    BY <1>14 DEF Extracted
  <2>4. read[b] = key[b] \/ Misfiled(key[b])'
    <3>1. key' = key /\ (key[b] \in moved' => Misfiled(key[b])')
      BY <1>14 DEF Extracted, Misfiled
    <3> QED
      BY <1>m2, <2>2, <2>3, <3>1
  <2>5. NamedBy(held[b], key[b])'
    BY <1>14, <1>t, <2>1, <2>4 DEF NamedBy, Index, File, Extracted
  <2> QED
    BY <1>14, <1>t, <1>m, <2>1, <2>5 DEF Extracted, Goto
<1>15. ASSUME NEW b \in Builders, ExtractFails(b) PROVE FilesInv'
  BY <1>15, <1>t, <1>m DEF ExtractFails, Exit, Goto
<1>16. ASSUME NEW b \in Builders, CreateTmp(b) PROVE FilesInv'
  BY <1>16, <1>t, <1>m DEF CreateTmp, Goto
<1>17. ASSUME NEW b \in Builders, CreateCollides(b) PROVE FilesInv'
  BY <1>17, <1>t, <1>m DEF CreateCollides, Exit, Goto
<1>18. ASSUME NEW b \in Builders, CommitTmp(b) PROVE FilesInv'
  BY <1>18, <1>t, <1>m DEF CommitTmp, Goto
<1>19. ASSUME NEW b \in Builders, CommitFails(b) PROVE FilesInv'
  BY <1>19, <1>t, <1>m DEF CommitFails, Exit, Goto
<1>20. ASSUME NEW b \in Builders, RenameTmp(b) PROVE FilesInv'
  <2>1. tmp[b].st = "index"
    BY <1>20 DEF RenameTmp, NamedBy
  <2> QED
    BY <1>20, <1>t, <1>m, <2>1 DEF RenameTmp, Goto, Rename
<1>21. ASSUME NEW b \in Builders, PutCopies(b) PROVE FilesInv'
  BY <1>21, <1>t, <1>m DEF PutCopies, Goto, Hold
<1>22. ASSUME NEW b \in Builders, PutFails(b) PROVE FilesInv'
  BY <1>22, <1>t, <1>m DEF PutFails, Exit, Goto
<1>23. ASSUME NEW b \in Builders, PutRenames(b) PROVE FilesInv'
  BY <1>23, <1>t, <1>m DEF PutRenames, Exit, Goto
<1>24. ASSUME NEW b \in Builders, Kill(b) PROVE FilesInv'
  BY <1>24, <1>t, <1>m DEF Kill, Exit, Goto
<1>25. ASSUME NEW b \in Builders, Signal(b) PROVE FilesInv'
  BY <1>25, <1>t, <1>m DEF Signal
<1>26. ASSUME NEW b \in Builders, ServeConnects(b) PROVE FilesInv'
  BY <1>26, <1>t, <1>m DEF ServeConnects
<1>27. CASE ServeEnds
  BY <1>27, <1>m DEF ServeEnds
<1>28. ASSUME NEW i \in Inputs, Edit(i) PROVE FilesInv'
  BY <1>28, <1>m DEF Edit
<1>29. ASSUME NEW b \in Builders, SumFile(b) PROVE FilesInv'
  BY <1>29, <1>t, <1>m DEF SumFile
<1>30. ASSUME NEW b \in Builders, PlanTU(b) PROVE FilesInv'
  BY <1>30, <1>t, <1>m DEF PlanTU
<1>31. ASSUME NEW b \in Builders, OpenTU(b) PROVE FilesInv'
  BY <1>31, <1>t, <1>m DEF OpenTU
<1>32. ASSUME NEW b \in Builders, NEW i \in Sources, PutTU(b, i) PROVE FilesInv'
  BY <1>32, <1>t, <1>m DEF PutTU
<1> QED
  BY <1>1, <1>2, <1>3, <1>4, <1>5, <1>6, <1>7, <1>8, <1>9, <1>10, <1>11, <1>12,
     <1>13, <1>14, <1>15, <1>16, <1>17, <1>18, <1>19, <1>20, <1>21, <1>22, <1>23,
     <1>24, <1>25, <1>26, <1>27, <1>28, <1>29, <1>30, <1>31, <1>32
     DEF Next, Build

\* Every action keeps PerFileInv: only a payload that is put there disturbs it.
LEMMA PerFileStep ==
  TypeOK /\ PerFileInv /\ QuietInv /\ [Next]_vars => PerFileInv'
<1> SUFFICES ASSUME TypeOK, PerFileInv, QuietInv, [Next]_vars PROVE PerFileInv'
  OBVIOUS
<1> USE DEF PerFileInv, inputVars, ghosts
<1>1. CASE UNCHANGED perFile
  BY <1>1, MovedGrows
<1>2. ASSUME NEW b \in Builders, NEW i \in Sources, PutTU(b, i) PROVE PerFileInv'
  <2> DEFINE k == PerFileKey(i, read[b][1], digest[b][i])
  <2>1. CASE UNCHANGED perFile
    BY <1>1, <2>1
  <2>2. CASE /\ perFile' = [l \in DOMAIN perFile \cup {k} |-> IF l = k THEN read[b][i] ELSE perFile[l]]
             /\ movedTUs' = IF quiet[b] THEN movedTUs ELSE movedTUs \cup {<<i, digest[b][i]>>}
    <3>1. digest[b][i] \in Contents /\ i \in Inputs /\ 1 \in Inputs
      BY InputsAssumption DEF TypeOK, BuilderTypes, Sources, Inputs
    <3>2. read[b] \in Seq(Contents) /\ DOMAIN read[b] = Inputs
      BY <1>2 DEF PutTU, TypeOK, BuilderTypes, Inputs
    <3>3. Command[read[b][1]] \in Nat
      BY <3>1, <3>2, CommandAssumption
    <3>4. k \in Sources \X Nat \X Contents /\ k[1] = i /\ k[3] = digest[b][i]
      BY <3>1, <3>3 DEF PerFileKey
    <3>5. quiet[b] => read[b][i] = digest[b][i] \/ <<i, digest[b][i]>> \in movedTUs
      BY <1>2, <3>1, <3>2 DEF PutTU, QuietInv
    <3> HIDE DEF k
    <3> QED
      BY <2>2, <3>4, <3>5
  <2> QED
    BY <1>2, <2>1, <2>2 DEF PutTU
<1>3. ASSUME NEW b \in Builders,
             LoadCompDB(b) \/ SumFile(b) \/ NoCompDB(b) \/ Digest(b) \/ LookupHit(b) \/ LookupMiss(b)
      PROVE UNCHANGED perFile
  BY <1>3 DEF LoadCompDB, SumFile, NoCompDB, Digest, LookupHit, LookupMiss
<1>4. ASSUME NEW b \in Builders,
             CopyCreates(b) \/ CopyData(b) \/ CopyFails(b) \/ CopyRenames(b) \/ Spawn(b) \/ SpawnFails(b)
      PROVE UNCHANGED perFile
  BY <1>4 DEF CopyCreates, CopyData, CopyFails, CopyRenames, Spawn, SpawnFails
<1>5. ASSUME NEW b \in Builders,
             PlanTU(b) \/ OpenTU(b) \/ Extracted(b) \/ ExtractFails(b) \/ CreateTmp(b) \/ CreateCollides(b)
      PROVE UNCHANGED perFile
  BY <1>5 DEF PlanTU, OpenTU, Extracted, ExtractFails, CreateTmp, CreateCollides
<1>6. ASSUME NEW b \in Builders,
             CommitTmp(b) \/ CommitFails(b) \/ RenameTmp(b) \/ PutCopies(b) \/ PutFails(b) \/ PutRenames(b)
      PROVE UNCHANGED perFile
  BY <1>6 DEF CommitTmp, CommitFails, RenameTmp, PutCopies, PutFails, PutRenames
<1>7. ASSUME NEW b \in Builders, Start(b) \/ Kill(b) \/ Signal(b) \/ ServeConnects(b) PROVE UNCHANGED perFile
  BY <1>7 DEF Start, Kill, Signal, ServeConnects
<1>8. CASE ServeEnds \/ (\E i \in Inputs : Edit(i)) \/ UNCHANGED vars
  BY <1>8 DEF ServeEnds, Edit, vars
<1> QED
  BY <1>1, <1>2, <1>3, <1>4, <1>5, <1>6, <1>7, <1>8 DEF Next, Build

\* A process that ends has nothing in memory that could be of another content.
LEMMA QuietExit ==
    ASSUME TypeOK, QuietInv, NEW b \in Builders, NEW res, Exit(b, res),
           UNCHANGED <<inputs, quiet, movedTUs>>
    PROVE  QuietInv'
<1>t. /\ pc \in [Builders -> PCs] /\ read \in [Builders -> Seq(Contents)]
      /\ key \in [Builders -> Seq(Contents)] /\ digest \in [Builders -> [Inputs -> Contents]]
  BY DEF TypeOK, BuilderTypes
<1>1. /\ pc'[b] = "idle" /\ read'[b] = <<>> /\ digest'[b] = Undigested
      /\ \A c \in Builders \ {b} : /\ pc'[c] = pc[c] /\ read'[c] = read[c]
                                   /\ digest'[c] = digest[c] /\ key'[c] = key[c]
  BY <1>t DEF Exit, Goto
<1>2. DOMAIN read'[b] = {} /\ \A i \in Inputs : digest'[b][i] = 0
  BY <1>1 DEF Undigested
<1> QED
  BY <1>1, <1>2 DEF QuietInv

\* Nor has a builder that has one more file, of the content it has now.
LEMMA QuietHas ==
    ASSUME TypeOK, QuietInv, NEW b \in Builders, NEW content \in Contents,
           ReadsSources(b) \/ ReadsCompDB(b), pc[b] \in {"digest", "extract"},
           \/ content = inputs[Coming(b)]
           \/ quiet[b] => pc[b] = "extract" /\ <<Coming(b), inputs[Coming(b)]>> \in movedTUs,
           Has(b, content), UNCHANGED <<inputs, pc, key, digest, quiet, movedTUs>>
    PROVE  QuietInv'
<1>1. /\ \A c \in Builders \ {b} : read'[c] = read[c]
      /\ \A i \in DOMAIN read'[b] : \/ i = Coming(b) /\ read'[b][i] = content
                                    \/ i \in DOMAIN read[b] /\ read'[b][i] = read[b][i]
  BY HasFacts
<1>2. ASSUME quiet[b], NEW i \in DOMAIN read'[b]
      PROVE  read'[b][i] = inputs[i] \/ (pc[b] # "digest" /\ <<i, inputs[i]>> \in movedTUs)
  BY <1>1, <1>2 DEF QuietInv
<1> QED
  BY <1>1, <1>2 DEF QuietInv

\* Every action keeps QuietInv: while the inputs stay as they are, so does what is read of them.
LEMMA QuietStep ==
  TypeOK /\ PerFileInv /\ QuietInv /\ [Next]_vars => QuietInv'
<1> SUFFICES ASSUME TypeOK, PerFileInv, QuietInv, [Next]_vars PROVE QuietInv'
  OBVIOUS
<1> USE DEF QuietInv, inputVars, ghosts
<1>t. /\ pc \in [Builders -> PCs] /\ read \in [Builders -> Seq(Contents)]
      /\ key \in [Builders -> Seq(Contents)] /\ quiet \in [Builders -> BOOLEAN]
      /\ digest \in [Builders -> [Inputs -> Contents]]
  BY DEF TypeOK, BuilderTypes
<1>1. CASE UNCHANGED vars
  BY <1>1 DEF vars
<1>2. ASSUME NEW b \in Builders, Start(b) PROVE QuietInv'
  <2>1. pc[b] = "idle" /\ DOMAIN read[b] = {} /\ digest[b] = Undigested
    BY <1>2 DEF Start
  <2>2. \A i \in Inputs : digest[b][i] = 0
    BY <2>1 DEF Undigested
  <2> QED
    BY <1>2, <1>t, <2>1, <2>2 DEF Start, Goto
<1>3. ASSUME NEW b \in Builders, LoadCompDB(b) PROVE QuietInv'
  <2>1. inputs[1] \in Contents /\ Coming(b) = 1
    BY <1>3, InputsAssumption DEF LoadCompDB, ReadsCompDB, Coming, TypeOK, SharedTypes, Keys, Inputs
  <2> QED
    BY <1>3, <2>1, QuietHas DEF LoadCompDB
<1>4. ASSUME NEW b \in Builders, NoCompDB(b) PROVE QuietInv'
  BY <1>4, QuietExit DEF NoCompDB
<1>5. ASSUME NEW b \in Builders, Digest(b) PROVE QuietInv'
  <2>1. quiet[b] => read[b] = inputs
    <3>1. read[b] \in Seq(Contents) /\ Len(read[b]) = NInputs
      BY <1>5 DEF Digest, TypeOK, BuilderTypes
    <3>2. read[b] \in Keys /\ inputs \in Keys
      BY <3>1, KeyFacts DEF TypeOK, SharedTypes
    <3>3. quiet[b] => \A i \in DOMAIN read[b] : read[b][i] = inputs[i]
      BY <1>5 DEF Digest
    <3> QED
      BY <3>2, <3>3 DEF Keys
  <2> QED
    BY <1>5, <1>t, <2>1 DEF Digest, Goto, InputDigest
<1>6. ASSUME NEW b \in Builders, LookupHit(b) PROVE QuietInv'
  BY <1>6, <1>t DEF LookupHit, Goto, Hold
<1>7. ASSUME NEW b \in Builders, LookupMiss(b) PROVE QuietInv'
  BY <1>7, <1>t DEF LookupMiss, Goto
<1>8. ASSUME NEW b \in Builders, CopyCreates(b) PROVE QuietInv'
  BY <1>8, <1>t DEF CopyCreates, Goto
<1>9. ASSUME NEW b \in Builders, CopyData(b) PROVE QuietInv'
  BY <1>9, <1>t DEF CopyData, Goto
<1>10. ASSUME NEW b \in Builders, CopyFails(b) PROVE QuietInv'
  BY <1>10, QuietExit DEF CopyFails
<1>11. ASSUME NEW b \in Builders, CopyRenames(b) PROVE QuietInv'
  BY <1>11, QuietExit DEF CopyRenames
<1>12. ASSUME NEW b \in Builders, Spawn(b) PROVE QuietInv'
  BY <1>12, <1>t DEF Spawn, Goto
<1>13. ASSUME NEW b \in Builders, SpawnFails(b) PROVE QuietInv'
  BY <1>13, QuietExit DEF SpawnFails
<1>14. ASSUME NEW b \in Builders, Extracted(b) PROVE QuietInv'
  BY <1>14, <1>t DEF Extracted, Goto, Hold
<1>15. ASSUME NEW b \in Builders, ExtractFails(b) PROVE QuietInv'
  BY <1>15, QuietExit DEF ExtractFails
<1>16. ASSUME NEW b \in Builders, CreateTmp(b) PROVE QuietInv'
  BY <1>16, <1>t DEF CreateTmp, Goto
<1>17. ASSUME NEW b \in Builders, CreateCollides(b) PROVE QuietInv'
  BY <1>17, QuietExit DEF CreateCollides
<1>18. ASSUME NEW b \in Builders, CommitTmp(b) PROVE QuietInv'
  BY <1>18, <1>t DEF CommitTmp, Goto
<1>19. ASSUME NEW b \in Builders, CommitFails(b) PROVE QuietInv'
  BY <1>19, QuietExit DEF CommitFails
<1>20. ASSUME NEW b \in Builders, RenameTmp(b) PROVE QuietInv'
  BY <1>20, <1>t DEF RenameTmp, Goto, Rename
<1>21. ASSUME NEW b \in Builders, PutCopies(b) PROVE QuietInv'
  BY <1>21, <1>t DEF PutCopies, Goto, Hold
<1>22. ASSUME NEW b \in Builders, PutFails(b) PROVE QuietInv'
  BY <1>22, QuietExit DEF PutFails
<1>23. ASSUME NEW b \in Builders, PutRenames(b) PROVE QuietInv'
  BY <1>23, QuietExit DEF PutRenames
<1>24. ASSUME NEW b \in Builders, Kill(b) PROVE QuietInv'
  BY <1>24, QuietExit DEF Kill
<1>25. ASSUME NEW b \in Builders, Signal(b) PROVE QuietInv'
  BY <1>25, <1>t DEF Signal
<1>26. ASSUME NEW b \in Builders, ServeConnects(b) PROVE QuietInv'
  BY <1>26, <1>t DEF ServeConnects
<1>27. CASE ServeEnds
  BY <1>27 DEF ServeEnds
<1>28. ASSUME NEW i \in Inputs, Edit(i) PROVE QuietInv'
  BY <1>28 DEF Edit
<1>29. ASSUME NEW b \in Builders, SumFile(b) PROVE QuietInv'
  <2>1. inputs[Coming(b)] \in Contents
    BY <1>29, ComingFacts DEF SumFile
  <2> QED
    BY <1>29, <2>1, QuietHas DEF SumFile
<1>30. ASSUME NEW b \in Builders, PlanTU(b) PROVE QuietInv'
  <2> DEFINE i == Coming(b)
             k == PerFileKey(i, read[b][1], inputs[i])
  <2>1. /\ i \in Inputs /\ inputs[i] \in Contents
        /\ ReadsSources(b) /\ pc[b] = "extract"
        /\ UNCHANGED <<inputs, pc, key, quiet, movedTUs>>
    BY <1>30, ComingFacts DEF PlanTU
  <2>2. k[1] = i /\ k[3] = inputs[i]
    BY DEF PerFileKey
  <2>3. CASE Has(b, inputs[i]) /\ UNCHANGED digest
    BY <2>1, <2>3, QuietHas
  <2>4. CASE k \in DOMAIN perFile /\ perFile[k] \in Contents /\ Has(b, perFile[k]) /\ UNCHANGED digest
    <3>1. perFile[k] = inputs[i] \/ <<i, inputs[i]>> \in movedTUs
      BY <2>2, <2>4 DEF PerFileInv
    <3> HIDE DEF k
    <3> QED
      BY <2>1, <2>4, <3>1, QuietHas
  <2>5. CASE digest' = [digest EXCEPT ![b][i] = inputs[i]] /\ UNCHANGED read
    <3>1. /\ digest'[b][i] = inputs[i]
          /\ \A j \in Inputs : j # i => digest'[b][j] = digest[b][j]
          /\ \A c \in Builders : c # b => digest'[c] = digest[c]
      BY <1>t, <2>1, <2>5
    <3> HIDE DEF i
    <3> QED
      BY <2>1, <2>5, <3>1
  <2> QED
    BY <1>30, <2>3, <2>4, <2>5, PlanFacts
<1>31. ASSUME NEW b \in Builders, OpenTU(b) PROVE QuietInv'
  <2>1. inputs[Coming(b)] \in Contents
    BY <1>31, ComingFacts DEF OpenTU, Opening
  <2> QED
    BY <1>31, <2>1, QuietHas DEF OpenTU, Opening
<1>32. ASSUME NEW b \in Builders, NEW i \in Sources, PutTU(b, i) PROVE QuietInv'
  <2>1. /\ pc[b] = "extract" /\ UNCHANGED <<inputs, pc, read, key, quiet>>
        /\ digest' = [digest EXCEPT ![b][i] = 0]
    BY <1>32 DEF PutTU
  <2>2. /\ \A j \in Inputs : digest'[b][j] \in {0, digest[b][j]}
        /\ \A c \in Builders : c # b => digest'[c] = digest[c]
    BY <1>t, <2>1
  <2>3. movedTUs \subseteq movedTUs'
    BY MovedGrows
  <2> QED
    BY <1>t, <2>1, <2>2, <2>3
<1> QED
  BY <1>1, <1>2, <1>3, <1>4, <1>5, <1>6, <1>7, <1>8, <1>9, <1>10, <1>11, <1>12,
     <1>13, <1>14, <1>15, <1>16, <1>17, <1>18, <1>19, <1>20, <1>21, <1>22, <1>23,
     <1>24, <1>25, <1>26, <1>27, <1>28, <1>29, <1>30, <1>31, <1>32
     DEF Next, Build

\* Every action keeps RunInv.
LEMMA RunStep ==
  TypeOK /\ RunInv /\ [Next]_vars => RunInv'
<1> SUFFICES ASSUME TypeOK, RunInv, [Next]_vars PROVE RunInv'
  OBVIOUS
<1> USE DEF RunInv, inputVars, ghosts
<1>t. /\ pc \in [Builders -> PCs] /\ result \in [Builders -> Results]
      /\ tmp \in [Builders -> Files]
      /\ signal \in [Builders -> {"no", "extracting", "other"}]
  BY DEF TypeOK, BuilderTypes, FileTypes
<1>1. CASE UNCHANGED vars
  BY <1>1 DEF vars
<1>2. ASSUME NEW b \in Builders, Start(b) PROVE RunInv'
  BY <1>2, <1>t DEF Start, Goto
<1>3. ASSUME NEW b \in Builders, LoadCompDB(b) PROVE RunInv'
  BY <1>3, <1>t DEF LoadCompDB
<1>4. ASSUME NEW b \in Builders, NoCompDB(b) PROVE RunInv'
  BY <1>4, <1>t DEF NoCompDB, Exit, Goto
<1>5. ASSUME NEW b \in Builders, Digest(b) PROVE RunInv'
  BY <1>5, <1>t DEF Digest, Goto, InputDigest
<1>6. ASSUME NEW b \in Builders, LookupHit(b) PROVE RunInv'
  BY <1>6, <1>t DEF LookupHit, Goto, Hold
<1>7. ASSUME NEW b \in Builders, LookupMiss(b) PROVE RunInv'
  BY <1>7, <1>t DEF LookupMiss, Goto
<1>8. ASSUME NEW b \in Builders, CopyCreates(b) PROVE RunInv'
  BY <1>8, <1>t DEF CopyCreates, Goto
<1>9. ASSUME NEW b \in Builders, CopyData(b) PROVE RunInv'
  BY <1>9, <1>t DEF CopyData, Goto
<1>10. ASSUME NEW b \in Builders, CopyFails(b) PROVE RunInv'
  BY <1>10, <1>t DEF CopyFails, Exit, Goto
<1>11. ASSUME NEW b \in Builders, CopyRenames(b) PROVE RunInv'
  BY <1>11, <1>t DEF CopyRenames, Exit, Goto, Rename
<1>12. ASSUME NEW b \in Builders, Spawn(b) PROVE RunInv'
  BY <1>12, <1>t DEF Spawn, Goto
<1>13. ASSUME NEW b \in Builders, SpawnFails(b) PROVE RunInv'
  BY <1>13, <1>t DEF SpawnFails, Exit, Goto
<1>14. ASSUME NEW b \in Builders, Extracted(b) PROVE RunInv'
  BY <1>14, <1>t DEF Extracted, Goto, Hold
<1>15. ASSUME NEW b \in Builders, ExtractFails(b) PROVE RunInv'
  BY <1>15, <1>t DEF ExtractFails, Exit, Goto
<1>16. ASSUME NEW b \in Builders, CreateTmp(b) PROVE RunInv'
  BY <1>16, <1>t DEF CreateTmp, Goto
<1>17. ASSUME NEW b \in Builders, CreateCollides(b) PROVE RunInv'
  BY <1>17, <1>t DEF CreateCollides, Exit, Goto
<1>18. ASSUME NEW b \in Builders, CommitTmp(b) PROVE RunInv'
  BY <1>18, <1>t DEF CommitTmp, Goto
<1>19. ASSUME NEW b \in Builders, CommitFails(b) PROVE RunInv'
  BY <1>19, <1>t DEF CommitFails, Exit, Goto
<1>20. ASSUME NEW b \in Builders, RenameTmp(b) PROVE RunInv'
  BY <1>20, <1>t DEF RenameTmp, Goto, Rename
<1>21. ASSUME NEW b \in Builders, PutCopies(b) PROVE RunInv'
  BY <1>21, <1>t DEF PutCopies, Goto, Hold
<1>22. ASSUME NEW b \in Builders, PutFails(b) PROVE RunInv'
  BY <1>22, <1>t DEF PutFails, Exit, Goto
<1>23. ASSUME NEW b \in Builders, PutRenames(b) PROVE RunInv'
  BY <1>23, <1>t DEF PutRenames, Exit, Goto
<1>24. ASSUME NEW b \in Builders, Kill(b) PROVE RunInv'
  BY <1>24, <1>t DEF Kill, Exit, Goto
<1>25. ASSUME NEW b \in Builders, Signal(b) PROVE RunInv'
  BY <1>25, <1>t DEF Signal
<1>26. ASSUME NEW b \in Builders, ServeConnects(b) PROVE RunInv'
  BY <1>26, <1>t DEF ServeConnects
<1>27. CASE ServeEnds
  BY <1>27 DEF ServeEnds
<1>28. ASSUME NEW i \in Inputs, Edit(i) PROVE RunInv'
  BY <1>28 DEF Edit
<1>29. ASSUME NEW b \in Builders, SumFile(b) PROVE RunInv'
  BY <1>29, <1>t DEF SumFile
<1>30. ASSUME NEW b \in Builders, PlanTU(b) PROVE RunInv'
  BY <1>30, <1>t DEF PlanTU
<1>31. ASSUME NEW b \in Builders, OpenTU(b) PROVE RunInv'
  BY <1>31, <1>t DEF OpenTU
<1>32. ASSUME NEW b \in Builders, NEW i \in Sources, PutTU(b, i) PROVE RunInv'
  BY <1>32, <1>t DEF PutTU
<1> QED
  BY <1>1, <1>2, <1>3, <1>4, <1>5, <1>6, <1>7, <1>8, <1>9, <1>10, <1>11, <1>12,
     <1>13, <1>14, <1>15, <1>16, <1>17, <1>18, <1>19, <1>20, <1>21, <1>22, <1>23,
     <1>24, <1>25, <1>26, <1>27, <1>28, <1>29, <1>30, <1>31, <1>32
     DEF Next, Build

\* Every action keeps NothingTorn: only a whole index is renamed to -out, filed or opened.
LEMMA NothingTornStep ==
  TypeOK /\ FilesInv /\ NothingTorn /\ [Next]_vars => NothingTorn'
<1> SUFFICES ASSUME TypeOK, FilesInv, NothingTorn, [Next]_vars PROVE NothingTorn'
  OBVIOUS
<1> USE DEF NothingTorn, inputVars, ghosts
<1>t. /\ pc \in [Builders -> PCs] /\ held \in [Builders -> Files]
      /\ key \in [Builders -> Seq(Contents)]
      /\ out \in [Builders -> Files] /\ tmp \in [Builders -> Files]
  BY DEF TypeOK, BuilderTypes, FileTypes
<1>1. CASE UNCHANGED vars
  BY <1>1 DEF vars
<1>2. ASSUME NEW b \in Builders, Start(b) PROVE NothingTorn'
  BY <1>2, <1>t DEF Start
<1>3. ASSUME NEW b \in Builders, LoadCompDB(b) PROVE NothingTorn'
  BY <1>3, <1>t DEF LoadCompDB
<1>4. ASSUME NEW b \in Builders, NoCompDB(b) PROVE NothingTorn'
  BY <1>4, <1>t DEF NoCompDB
<1>5. ASSUME NEW b \in Builders, Digest(b) PROVE NothingTorn'
  BY <1>5, <1>t DEF Digest
<1>6. ASSUME NEW b \in Builders, LookupHit(b) PROVE NothingTorn'
  BY <1>6, <1>t DEF LookupHit
<1>7. ASSUME NEW b \in Builders, LookupMiss(b) PROVE NothingTorn'
  BY <1>7, <1>t DEF LookupMiss
<1>8. ASSUME NEW b \in Builders, CopyCreates(b) PROVE NothingTorn'
  BY <1>8, <1>t DEF CopyCreates
<1>9. ASSUME NEW b \in Builders, CopyData(b) PROVE NothingTorn'
  BY <1>9, <1>t DEF CopyData
<1>10. ASSUME NEW b \in Builders, CopyFails(b) PROVE NothingTorn'
  BY <1>10, <1>t DEF CopyFails
<1>11. ASSUME NEW b \in Builders, CopyRenames(b) PROVE NothingTorn'
  BY <1>11, <1>t DEF CopyRenames, Rename, FilesInv, HasInHand, HasInTmp, NamedBy
<1>12. ASSUME NEW b \in Builders, Spawn(b) PROVE NothingTorn'
  BY <1>12, <1>t DEF Spawn
<1>13. ASSUME NEW b \in Builders, SpawnFails(b) PROVE NothingTorn'
  BY <1>13, <1>t DEF SpawnFails
<1>14. ASSUME NEW b \in Builders, Extracted(b) PROVE NothingTorn'
  BY <1>14, <1>t DEF Extracted
<1>15. ASSUME NEW b \in Builders, ExtractFails(b) PROVE NothingTorn'
  BY <1>15, <1>t DEF ExtractFails
<1>16. ASSUME NEW b \in Builders, CreateTmp(b) PROVE NothingTorn'
  BY <1>16, <1>t DEF CreateTmp
<1>17. ASSUME NEW b \in Builders, CreateCollides(b) PROVE NothingTorn'
  BY <1>17, <1>t DEF CreateCollides
<1>18. ASSUME NEW b \in Builders, CommitTmp(b) PROVE NothingTorn'
  BY <1>18, <1>t DEF CommitTmp
<1>19. ASSUME NEW b \in Builders, CommitFails(b) PROVE NothingTorn'
  BY <1>19, <1>t DEF CommitFails
<1>20. ASSUME NEW b \in Builders, RenameTmp(b) PROVE NothingTorn'
  BY <1>20, <1>t DEF RenameTmp, Rename, FilesInv, HasInHand, HasInTmp, NamedBy
<1>21. ASSUME NEW b \in Builders, PutCopies(b) PROVE NothingTorn'
  BY <1>21, <1>t DEF PutCopies
<1>22. ASSUME NEW b \in Builders, PutFails(b) PROVE NothingTorn'
  BY <1>22, <1>t DEF PutFails
<1>23. ASSUME NEW b \in Builders, PutRenames(b) PROVE NothingTorn'
  BY <1>23, <1>t DEF PutRenames, FilesInv, HasInHand, HasInTmp, NamedBy
<1>24. ASSUME NEW b \in Builders, Kill(b) PROVE NothingTorn'
  BY <1>24, <1>t DEF Kill
<1>25. ASSUME NEW b \in Builders, Signal(b) PROVE NothingTorn'
  BY <1>25, <1>t DEF Signal
<1>26. ASSUME NEW b \in Builders, ServeConnects(b) PROVE NothingTorn'
  BY <1>26, <1>t DEF ServeConnects, FilesInv, HasInHand, HasInTmp, NamedBy
<1>27. CASE ServeEnds
  BY <1>27 DEF ServeEnds
<1>28. ASSUME NEW i \in Inputs, Edit(i) PROVE NothingTorn'
  BY <1>28 DEF Edit
<1>29. ASSUME NEW b \in Builders, SumFile(b) PROVE NothingTorn'
  BY <1>29, <1>t DEF SumFile
<1>30. ASSUME NEW b \in Builders, PlanTU(b) PROVE NothingTorn'
  BY <1>30, <1>t DEF PlanTU
<1>31. ASSUME NEW b \in Builders, OpenTU(b) PROVE NothingTorn'
  BY <1>31, <1>t DEF OpenTU
<1>32. ASSUME NEW b \in Builders, NEW i \in Sources, PutTU(b, i) PROVE NothingTorn'
  BY <1>32, <1>t DEF PutTU
<1> QED
  BY <1>1, <1>2, <1>3, <1>4, <1>5, <1>6, <1>7, <1>8, <1>9, <1>10, <1>11, <1>12,
     <1>13, <1>14, <1>15, <1>16, <1>17, <1>18, <1>19, <1>20, <1>21, <1>22, <1>23,
     <1>24, <1>25, <1>26, <1>27, <1>28, <1>29, <1>30, <1>31, <1>32
     DEF Next, Build

\* Every action keeps BuildIsFresh.
LEMMA FreshStep ==
  TypeOK /\ FilesInv /\ QuietInv /\ RunInv /\ BuildIsFresh /\ [Next]_vars => BuildIsFresh'
<1> SUFFICES ASSUME TypeOK, FilesInv, QuietInv, RunInv, BuildIsFresh, [Next]_vars PROVE BuildIsFresh'
  OBVIOUS
<1> USE DEF BuildIsFresh, inputVars, ghosts
<1>t. /\ pc \in [Builders -> PCs] /\ result \in [Builders -> Results]
      /\ quiet \in [Builders -> BOOLEAN]
      /\ out \in [Builders -> Files] /\ tmp \in [Builders -> Files]
  BY DEF TypeOK, BuilderTypes, FileTypes
<1>m. \A k : Misfiled(k) => Misfiled(k)'
  BY MovedGrows DEF Misfiled
<1>1. CASE UNCHANGED vars
  BY <1>1 DEF vars, Misfiled
<1>2. ASSUME NEW b \in Builders, Start(b) PROVE BuildIsFresh'
  BY <1>2, <1>t, <1>m DEF Start
<1>3. ASSUME NEW b \in Builders, LoadCompDB(b) PROVE BuildIsFresh'
  BY <1>3, <1>t, <1>m DEF LoadCompDB
<1>4. ASSUME NEW b \in Builders, NoCompDB(b) PROVE BuildIsFresh'
  BY <1>4, <1>t, <1>m DEF NoCompDB, Exit, Goto
<1>5. ASSUME NEW b \in Builders, Digest(b) PROVE BuildIsFresh'
  BY <1>5, <1>t, <1>m DEF Digest
<1>6. ASSUME NEW b \in Builders, LookupHit(b) PROVE BuildIsFresh'
  BY <1>6, <1>t, <1>m DEF LookupHit
<1>7. ASSUME NEW b \in Builders, LookupMiss(b) PROVE BuildIsFresh'
  BY <1>7, <1>t, <1>m DEF LookupMiss
<1>8. ASSUME NEW b \in Builders, CopyCreates(b) PROVE BuildIsFresh'
  BY <1>8, <1>t, <1>m DEF CopyCreates
<1>9. ASSUME NEW b \in Builders, CopyData(b) PROVE BuildIsFresh'
  BY <1>9, <1>t, <1>m DEF CopyData
<1>10. ASSUME NEW b \in Builders, CopyFails(b) PROVE BuildIsFresh'
  BY <1>10, <1>t, <1>m DEF CopyFails, Exit, Goto
<1>11. ASSUME NEW b \in Builders, CopyRenames(b) PROVE BuildIsFresh'
  BY <1>11, <1>t, <1>m DEF CopyRenames, Exit, Goto, Rename, FilesInv, QuietInv, RunInv, HasInTmp, NamedBy
<1>12. ASSUME NEW b \in Builders, Spawn(b) PROVE BuildIsFresh'
  BY <1>12, <1>t, <1>m DEF Spawn
<1>13. ASSUME NEW b \in Builders, SpawnFails(b) PROVE BuildIsFresh'
  BY <1>13, <1>t, <1>m DEF SpawnFails, Exit, Goto
<1>14. ASSUME NEW b \in Builders, Extracted(b) PROVE BuildIsFresh'
  BY <1>14, <1>t, <1>m DEF Extracted
<1>15. ASSUME NEW b \in Builders, ExtractFails(b) PROVE BuildIsFresh'
  BY <1>15, <1>t, <1>m DEF ExtractFails, Exit, Goto
<1>16. ASSUME NEW b \in Builders, CreateTmp(b) PROVE BuildIsFresh'
  BY <1>16, <1>t, <1>m DEF CreateTmp
<1>17. ASSUME NEW b \in Builders, CreateCollides(b) PROVE BuildIsFresh'
  BY <1>17, <1>t, <1>m DEF CreateCollides, Exit, Goto
<1>18. ASSUME NEW b \in Builders, CommitTmp(b) PROVE BuildIsFresh'
  BY <1>18, <1>t, <1>m DEF CommitTmp
<1>19. ASSUME NEW b \in Builders, CommitFails(b) PROVE BuildIsFresh'
  BY <1>19, <1>t, <1>m DEF CommitFails, Exit, Goto
<1>20. ASSUME NEW b \in Builders, RenameTmp(b) PROVE BuildIsFresh'
  BY <1>20, <1>t, <1>m DEF RenameTmp, Goto, Rename, FilesInv, QuietInv, RunInv, HasInTmp, NamedBy
<1>21. ASSUME NEW b \in Builders, PutCopies(b) PROVE BuildIsFresh'
  BY <1>21, <1>t, <1>m DEF PutCopies
<1>22. ASSUME NEW b \in Builders, PutFails(b) PROVE BuildIsFresh'
  BY <1>22, <1>t, <1>m DEF PutFails, Exit, Goto, FilesInv, QuietInv, RunInv, HasInTmp, NamedBy
<1>23. ASSUME NEW b \in Builders, PutRenames(b) PROVE BuildIsFresh'
  BY <1>23, <1>t, <1>m DEF PutRenames, Exit, Goto, FilesInv, QuietInv, RunInv, HasInTmp, NamedBy
<1>24. ASSUME NEW b \in Builders, Kill(b) PROVE BuildIsFresh'
  BY <1>24, <1>t, <1>m DEF Kill, Exit, Goto
<1>25. ASSUME NEW b \in Builders, Signal(b) PROVE BuildIsFresh'
  BY <1>25, <1>t, <1>m DEF Signal
<1>26. ASSUME NEW b \in Builders, ServeConnects(b) PROVE BuildIsFresh'
  BY <1>26, <1>t, <1>m DEF ServeConnects
<1>27. CASE ServeEnds
  BY <1>27 DEF ServeEnds, Misfiled
<1>28. ASSUME NEW i \in Inputs, Edit(i) PROVE BuildIsFresh'
  BY <1>28 DEF Edit
<1>29. ASSUME NEW b \in Builders, SumFile(b) PROVE BuildIsFresh'
  BY <1>29, <1>t, <1>m DEF SumFile
<1>30. ASSUME NEW b \in Builders, PlanTU(b) PROVE BuildIsFresh'
  BY <1>30, <1>t, <1>m DEF PlanTU
<1>31. ASSUME NEW b \in Builders, OpenTU(b) PROVE BuildIsFresh'
  BY <1>31, <1>t, <1>m DEF OpenTU
<1>32. ASSUME NEW b \in Builders, NEW i \in Sources, PutTU(b, i) PROVE BuildIsFresh'
  BY <1>32, <1>t, <1>m DEF PutTU
<1> QED
  BY <1>1, <1>2, <1>3, <1>4, <1>5, <1>6, <1>7, <1>8, <1>9, <1>10, <1>11, <1>12,
     <1>13, <1>14, <1>15, <1>16, <1>17, <1>18, <1>19, <1>20, <1>21, <1>22, <1>23,
     <1>24, <1>25, <1>26, <1>27, <1>28, <1>29, <1>30, <1>31, <1>32
     DEF Next, Build

\* Every action keeps BlockedOnlyByLitter.
LEMMA LitterStep ==
  TypeOK /\ RunInv /\ BlockedOnlyByLitter /\ [Next]_vars => BlockedOnlyByLitter'
<1> SUFFICES ASSUME TypeOK, RunInv, BlockedOnlyByLitter, [Next]_vars PROVE BlockedOnlyByLitter'
  OBVIOUS
<1> USE DEF BlockedOnlyByLitter, inputVars, ghosts
<1>t. result \in [Builders -> Results]
  BY DEF TypeOK, BuilderTypes
<1>1. CASE UNCHANGED vars
  BY <1>1 DEF vars
<1>2. ASSUME NEW b \in Builders, Start(b) PROVE BlockedOnlyByLitter'
  BY <1>2, <1>t DEF Start
<1>3. ASSUME NEW b \in Builders, LoadCompDB(b) PROVE BlockedOnlyByLitter'
  BY <1>3, <1>t DEF LoadCompDB
<1>4. ASSUME NEW b \in Builders, NoCompDB(b) PROVE BlockedOnlyByLitter'
  BY <1>4, <1>t DEF NoCompDB, Exit, Goto
<1>5. ASSUME NEW b \in Builders, Digest(b) PROVE BlockedOnlyByLitter'
  BY <1>5, <1>t DEF Digest
<1>6. ASSUME NEW b \in Builders, LookupHit(b) PROVE BlockedOnlyByLitter'
  BY <1>6, <1>t DEF LookupHit
<1>7. ASSUME NEW b \in Builders, LookupMiss(b) PROVE BlockedOnlyByLitter'
  BY <1>7, <1>t DEF LookupMiss
<1>8. ASSUME NEW b \in Builders, CopyCreates(b) PROVE BlockedOnlyByLitter'
  BY <1>8, <1>t DEF CopyCreates, RunInv
<1>9. ASSUME NEW b \in Builders, CopyData(b) PROVE BlockedOnlyByLitter'
  BY <1>9, <1>t DEF CopyData
<1>10. ASSUME NEW b \in Builders, CopyFails(b) PROVE BlockedOnlyByLitter'
  BY <1>10, <1>t DEF CopyFails, Exit, Goto
<1>11. ASSUME NEW b \in Builders, CopyRenames(b) PROVE BlockedOnlyByLitter'
  BY <1>11, <1>t DEF CopyRenames, Exit, Goto, Rename
<1>12. ASSUME NEW b \in Builders, Spawn(b) PROVE BlockedOnlyByLitter'
  BY <1>12, <1>t DEF Spawn
<1>13. ASSUME NEW b \in Builders, SpawnFails(b) PROVE BlockedOnlyByLitter'
  BY <1>13, <1>t DEF SpawnFails, Exit, Goto
<1>14. ASSUME NEW b \in Builders, Extracted(b) PROVE BlockedOnlyByLitter'
  BY <1>14, <1>t DEF Extracted
<1>15. ASSUME NEW b \in Builders, ExtractFails(b) PROVE BlockedOnlyByLitter'
  BY <1>15, <1>t DEF ExtractFails, Exit, Goto
<1>16. ASSUME NEW b \in Builders, CreateTmp(b) PROVE BlockedOnlyByLitter'
  BY <1>16, <1>t DEF CreateTmp
<1>17. ASSUME NEW b \in Builders, CreateCollides(b) PROVE BlockedOnlyByLitter'
  BY <1>17, <1>t DEF CreateCollides, Exit, Goto, RunInv
<1>18. ASSUME NEW b \in Builders, CommitTmp(b) PROVE BlockedOnlyByLitter'
  BY <1>18, <1>t DEF CommitTmp
<1>19. ASSUME NEW b \in Builders, CommitFails(b) PROVE BlockedOnlyByLitter'
  BY <1>19, <1>t DEF CommitFails, Exit, Goto
<1>20. ASSUME NEW b \in Builders, RenameTmp(b) PROVE BlockedOnlyByLitter'
  BY <1>20, <1>t DEF RenameTmp
<1>21. ASSUME NEW b \in Builders, PutCopies(b) PROVE BlockedOnlyByLitter'
  BY <1>21, <1>t DEF PutCopies
<1>22. ASSUME NEW b \in Builders, PutFails(b) PROVE BlockedOnlyByLitter'
  BY <1>22, <1>t DEF PutFails, Exit, Goto
<1>23. ASSUME NEW b \in Builders, PutRenames(b) PROVE BlockedOnlyByLitter'
  BY <1>23, <1>t DEF PutRenames, Exit, Goto
<1>24. ASSUME NEW b \in Builders, Kill(b) PROVE BlockedOnlyByLitter'
  BY <1>24, <1>t DEF Kill, Exit, Goto
<1>25. ASSUME NEW b \in Builders, Signal(b) PROVE BlockedOnlyByLitter'
  BY <1>25, <1>t DEF Signal
<1>26. ASSUME NEW b \in Builders, ServeConnects(b) PROVE BlockedOnlyByLitter'
  BY <1>26, <1>t DEF ServeConnects
<1>27. CASE ServeEnds
  BY <1>27 DEF ServeEnds
<1>28. ASSUME NEW i \in Inputs, Edit(i) PROVE BlockedOnlyByLitter'
  BY <1>28 DEF Edit
<1>29. ASSUME NEW b \in Builders, SumFile(b) PROVE BlockedOnlyByLitter'
  BY <1>29, <1>t DEF SumFile
<1>30. ASSUME NEW b \in Builders, PlanTU(b) PROVE BlockedOnlyByLitter'
  BY <1>30, <1>t DEF PlanTU
<1>31. ASSUME NEW b \in Builders, OpenTU(b) PROVE BlockedOnlyByLitter'
  BY <1>31, <1>t DEF OpenTU
<1>32. ASSUME NEW b \in Builders, NEW i \in Sources, PutTU(b, i) PROVE BlockedOnlyByLitter'
  BY <1>32, <1>t DEF PutTU
<1> QED
  BY <1>1, <1>2, <1>3, <1>4, <1>5, <1>6, <1>7, <1>8, <1>9, <1>10, <1>11, <1>12,
     <1>13, <1>14, <1>15, <1>16, <1>17, <1>18, <1>19, <1>20, <1>21, <1>22, <1>23,
     <1>24, <1>25, <1>26, <1>27, <1>28, <1>29, <1>30, <1>31, <1>32
     DEF Next, Build

\* No action publishes the index of a build that was interrupted while it extracts.
LEMMA InterruptStep ==
  TypeOK /\ RunInv /\ [Next]_vars => Unpublished
<1> SUFFICES ASSUME TypeOK, RunInv, [Next]_vars PROVE Unpublished
  OBVIOUS
<1> USE DEF Unpublished, RunInv, inputVars, ghosts
<1>t. out \in [Builders -> Files]
  BY DEF TypeOK, FileTypes
<1>1. CASE UNCHANGED vars
  BY <1>1 DEF vars
<1>2. ASSUME NEW b \in Builders, Start(b) PROVE Unpublished
  BY <1>2, <1>t DEF Start
<1>3. ASSUME NEW b \in Builders, LoadCompDB(b) PROVE Unpublished
  BY <1>3, <1>t DEF LoadCompDB
<1>4. ASSUME NEW b \in Builders, NoCompDB(b) PROVE Unpublished
  BY <1>4, <1>t DEF NoCompDB
<1>5. ASSUME NEW b \in Builders, Digest(b) PROVE Unpublished
  BY <1>5, <1>t DEF Digest
<1>6. ASSUME NEW b \in Builders, LookupHit(b) PROVE Unpublished
  BY <1>6, <1>t DEF LookupHit
<1>7. ASSUME NEW b \in Builders, LookupMiss(b) PROVE Unpublished
  BY <1>7, <1>t DEF LookupMiss
<1>8. ASSUME NEW b \in Builders, CopyCreates(b) PROVE Unpublished
  BY <1>8, <1>t DEF CopyCreates
<1>9. ASSUME NEW b \in Builders, CopyData(b) PROVE Unpublished
  BY <1>9, <1>t DEF CopyData
<1>10. ASSUME NEW b \in Builders, CopyFails(b) PROVE Unpublished
  BY <1>10, <1>t DEF CopyFails
<1>11. ASSUME NEW b \in Builders, CopyRenames(b) PROVE Unpublished
  BY <1>11, <1>t DEF CopyRenames, Rename
<1>12. ASSUME NEW b \in Builders, Spawn(b) PROVE Unpublished
  BY <1>12, <1>t DEF Spawn
<1>13. ASSUME NEW b \in Builders, SpawnFails(b) PROVE Unpublished
  BY <1>13, <1>t DEF SpawnFails
<1>14. ASSUME NEW b \in Builders, Extracted(b) PROVE Unpublished
  BY <1>14, <1>t DEF Extracted
<1>15. ASSUME NEW b \in Builders, ExtractFails(b) PROVE Unpublished
  BY <1>15, <1>t DEF ExtractFails
<1>16. ASSUME NEW b \in Builders, CreateTmp(b) PROVE Unpublished
  BY <1>16, <1>t DEF CreateTmp
<1>17. ASSUME NEW b \in Builders, CreateCollides(b) PROVE Unpublished
  BY <1>17, <1>t DEF CreateCollides
<1>18. ASSUME NEW b \in Builders, CommitTmp(b) PROVE Unpublished
  BY <1>18, <1>t DEF CommitTmp
<1>19. ASSUME NEW b \in Builders, CommitFails(b) PROVE Unpublished
  BY <1>19, <1>t DEF CommitFails
<1>20. ASSUME NEW b \in Builders, RenameTmp(b) PROVE Unpublished
  BY <1>20, <1>t DEF RenameTmp, Rename
<1>21. ASSUME NEW b \in Builders, PutCopies(b) PROVE Unpublished
  BY <1>21, <1>t DEF PutCopies
<1>22. ASSUME NEW b \in Builders, PutFails(b) PROVE Unpublished
  BY <1>22, <1>t DEF PutFails
<1>23. ASSUME NEW b \in Builders, PutRenames(b) PROVE Unpublished
  BY <1>23, <1>t DEF PutRenames
<1>24. ASSUME NEW b \in Builders, Kill(b) PROVE Unpublished
  BY <1>24, <1>t DEF Kill
<1>25. ASSUME NEW b \in Builders, Signal(b) PROVE Unpublished
  BY <1>25, <1>t DEF Signal
<1>26. ASSUME NEW b \in Builders, ServeConnects(b) PROVE Unpublished
  BY <1>26, <1>t DEF ServeConnects
<1>27. CASE ServeEnds
  BY <1>27 DEF ServeEnds
<1>28. ASSUME NEW i \in Inputs, Edit(i) PROVE Unpublished
  BY <1>28 DEF Edit
<1>29. ASSUME NEW b \in Builders, SumFile(b) PROVE Unpublished
  BY <1>29, <1>t DEF SumFile
<1>30. ASSUME NEW b \in Builders, PlanTU(b) PROVE Unpublished
  BY <1>30, <1>t DEF PlanTU
<1>31. ASSUME NEW b \in Builders, OpenTU(b) PROVE Unpublished
  BY <1>31, <1>t DEF OpenTU
<1>32. ASSUME NEW b \in Builders, NEW i \in Sources, PutTU(b, i) PROVE Unpublished
  BY <1>32, <1>t DEF PutTU
<1> QED
  BY <1>1, <1>2, <1>3, <1>4, <1>5, <1>6, <1>7, <1>8, <1>9, <1>10, <1>11, <1>12,
     <1>13, <1>14, <1>15, <1>16, <1>17, <1>18, <1>19, <1>20, <1>21, <1>22, <1>23,
     <1>24, <1>25, <1>26, <1>27, <1>28, <1>29, <1>30, <1>31, <1>32
     DEF Next, Build

\* The invariant is inductive.
LEMMA Inductive == IInv /\ [Next]_vars => IInv'
BY TypeStep, FilesStep, PerFileStep, QuietStep, RunStep, NothingTornStep, FreshStep, LitterStep DEF IInv

\* Safety: IInv holds whatever builds run, are killed or run out of space, and however the
\* inputs are changed under them.
THEOREM Invariance == Spec => []IInv
<1>1. Init => IInv
  BY InitInv
<1>2. IInv /\ [Next]_vars => IInv'
  BY Inductive
<1> QED
  BY <1>1, <1>2, PTL DEF Spec

\* Safety: -out, the entries of the cache and what the server has open are whole databases.
THEOREM NothingTornAlways == Spec => []NothingTorn
<1>1. IInv => NothingTorn
  BY DEF IInv
<1> QED
  BY <1>1, Invariance, PTL

\* Safety: a build whose inputs nobody touches leaves an index of them, hit or miss of either
\* cache, unless a build whose inputs were changed under it filed their snapshot, or the
\* payload of one of the files.
THEOREM BuildIsFreshAlways == Spec => []BuildIsFresh
<1>1. IInv => BuildIsFresh
  BY DEF IInv
<1> QED
  BY <1>1, Invariance, PTL

\* Safety: only a build that was killed or ran out of space stands in the way of the next.
THEOREM BlockedOnlyByLitterAlways == Spec => []BlockedOnlyByLitter
<1>1. IInv => BlockedOnlyByLitter
  BY DEF IInv
<1> QED
  BY <1>1, Invariance, PTL

\* Action: a build that is interrupted while it extracts publishes nothing.
THEOREM InterruptedPublishesNothingAlways == Spec => InterruptedPublishesNothing
<1>1. IInv /\ [Next]_vars => [Unpublished]_vars
  BY InterruptStep DEF IInv
<1> QED
  BY <1>1, Invariance, PTL DEF Spec, InterruptedPublishesNothing

=============================================================================
