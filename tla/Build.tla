------------------------------- MODULE Build -------------------------------
(***************************************************************************)
(* clang-index build and serve (cmd/clang-index/main.go) around the        *)
(* whole-build cache (cache.WholeBuild).  Every builder is a process that  *)
(* is started again and again with an -out of its own; they share a cache  *)
(* root, and a server opens what they write.  Input 1 is                   *)
(* compile_commands.json, the others are the sources it lists; content 0   *)
(* means that the file is missing.  An index is abstracted to the contents *)
(* it was extracted from; headers, which are in no key, are no inputs.     *)
(* extract.Run is here its plans with the per-file cache (cache.PerFile);  *)
(* the rest of it, with what a failing clangd leaves out of a payload, is  *)
(* module Extract.                                                         *)
(***************************************************************************)
EXTENDS Naturals, Sequences, FiniteSets

CONSTANTS
    Builders,   \* builds with different -out
    NInputs,    \* compile_commands.json and the sources
    Contents,   \* contents of a file; 0: missing
    Command,    \* content of compile_commands.json -> its commands for the sources
    MaxEdits,   \* bound: changes of the inputs
    MaxBuilds,  \* bound: starts of a build
    MaxConns,   \* bound: connections of the server
    Faults      \* what may go wrong, a subset of FaultKinds

FaultKinds == {"kill",     \* a builder is killed
               "signal",   \* it gets SIGINT or SIGTERM
               "io",       \* a write fails, the disk being full
               "crash"}    \* clangd exits and extraction fails

ASSUME InputsAssumption == NInputs \in Nat \ {0} /\ Contents \subseteq Nat /\ {0, 1} \subseteq Contents
ASSUME CommandAssumption == Command \in [Contents -> Nat]
ASSUME BoundsAssumption == MaxEdits \in Nat /\ MaxBuilds \in Nat /\ MaxConns \in Nat
ASSUME FaultsAssumption == Faults \subseteq FaultKinds

VARIABLES
    inputs,    \* input -> content
    edits,     \* how often an input was changed (bounded)
    starts,    \* how often a build was started (bounded)
    cached,    \* the whole-build cache: key -> file
    perFile,   \* the per-file cache: <<source, command, content>> -> content of the payload
    out, tmp,  \* per builder: its -out, and its -out with ".tmp"
    pc,        \* where the builder is
    read,      \* contents it has so far, first from digests, then from extraction
    digest,    \* source -> the digest its payload will be filed under, 0: none
    key,       \* inputDigest
    held,      \* the file it has in hand: a hit, an index in memory, a copy
    signal,    \* "no", "extracting" if the signal came then, "other"
    result,    \* how the last build of this builder ended
    quiet,     \* history: no input was changed since the build started
    littered,  \* history: a kill or a failed write has left tmp behind
    moved,     \* history: keys of builds under which an input was changed
    movedTUs,  \* history: <<source, content>> filed per file by such builds
    conns      \* the files the server has open

inputVars == <<inputs, edits>>
ghosts    == <<quiet, littered, moved, movedTUs>>
vars == <<inputVars, starts, cached, perFile, out, tmp, pc, read, digest, key, held,
          signal, result, ghosts, conns>>

Inputs == 1 .. NInputs
\* A digest stands for what was digested.
Keys   == [Inputs -> Contents]

File(st, of) == [st |-> st, of |-> of]
Absent == File("absent", <<>>)
Empty  == File("empty", <<>>)     \* no bytes
Torn   == File("torn", <<>>)      \* a copy that has not ended
Schema == File("schema", <<>>)    \* tables without rows
Index(of) == File("index", of)

Sources == Inputs \ {1}
\* PerFileKey of source i with digest d under the compile_commands.json c.
PerFileKey(i, c, d) == <<i, Command[c], d>>
Undigested == [i \in Inputs |-> 0]

\* An earlier build may have been filed.
Init ==
    /\ inputs = [i \in Inputs |-> 1] /\ edits = 0 /\ starts = 0
    /\ \E warm \in SUBSET {inputs} :
           /\ cached = [k \in warm |-> Index(k)]
           /\ perFile = [k \in {PerFileKey(i, w[1], w[i]) : w \in warm, i \in Sources} |-> k[3]]
    /\ out = [b \in Builders |-> Absent] /\ tmp = [b \in Builders |-> Absent]
    /\ pc = [b \in Builders |-> "idle"] /\ read = [b \in Builders |-> <<>>]
    /\ digest = [b \in Builders |-> Undigested]
    /\ key = [b \in Builders |-> <<>>] /\ held = [b \in Builders |-> Absent]
    /\ signal = [b \in Builders |-> "no"] /\ result = [b \in Builders |-> "none"]
    /\ quiet = [b \in Builders |-> TRUE] /\ littered = {} /\ moved = {} /\ movedTUs = {}
    /\ conns = {}

Goto(b, step) == pc' = [pc EXCEPT ![b] = step]
\* Whatever the process has in memory is gone with it.
Exit(b, res) ==
    /\ Goto(b, "idle") /\ result' = [result EXCEPT ![b] = res]
    /\ read' = [read EXCEPT ![b] = <<>>] /\ key' = [key EXCEPT ![b] = <<>>]
    /\ digest' = [digest EXCEPT ![b] = Undigested]
    /\ held' = [held EXCEPT ![b] = Absent] /\ signal' = [signal EXCEPT ![b] = "no"]
Hold(b, file) == held' = [held EXCEPT ![b] = file]
Rename(b) == out' = [out EXCEPT ![b] = tmp[b]] /\ tmp' = [tmp EXCEPT ![b] = Absent]
\* A write fails when the disk is full.
WriteFails == "io" \in Faults

-----------------------------------------------------------------------------
(* runBuild up to the whole-build cache                                    *)

Start(b) ==
    /\ pc[b] = "idle" /\ starts < MaxBuilds
    /\ starts' = starts + 1 /\ Goto(b, "digest")
    /\ quiet' = [quiet EXCEPT ![b] = TRUE] /\ result' = [result EXCEPT ![b] = "none"]
    /\ UNCHANGED <<inputVars, cached, perFile, out, tmp, read, digest, key, held, signal, littered, moved, movedTUs, conns>>

\* The next input, in order; a source that cannot be read is left out.
Coming(b) == Len(read[b]) + 1
ReadsSources(b) == Len(read[b]) \in 1 .. NInputs - 1
ReadsCompDB(b)  == read[b] = <<>>
Has(b, content) == read' = [read EXCEPT ![b] = Append(@, content)]

\* LoadCompDB, for the key and once more in extract.Run.
LoadCompDB(b) ==
    /\ pc[b] \in {"digest", "extract"} /\ ReadsCompDB(b) /\ inputs[1] # 0
    /\ Has(b, inputs[1])
    /\ UNCHANGED <<inputVars, starts, cached, perFile, out, tmp, pc, digest, key, held, signal, result, ghosts, conns>>

\* SumFile of a source, for the key.
SumFile(b) ==
    /\ pc[b] = "digest" /\ ReadsSources(b)
    /\ Has(b, inputs[Coming(b)])
    /\ UNCHANGED <<inputVars, starts, cached, perFile, out, tmp, pc, digest, key, held, signal, result, ghosts, conns>>

NoCompDB(b) ==
    /\ pc[b] = "digest" /\ ReadsCompDB(b) /\ inputs[1] = 0
    /\ Exit(b, "compdb")
    /\ UNCHANGED <<inputVars, starts, cached, perFile, out, tmp, ghosts, conns>>

InputDigest(contents) == contents

Digest(b) ==
    /\ pc[b] = "digest" /\ Len(read[b]) = NInputs
    /\ key' = [key EXCEPT ![b] = InputDigest(read[b])]
    /\ read' = [read EXCEPT ![b] = <<>>] /\ Goto(b, "lookup")
    /\ UNCHANGED <<inputVars, starts, cached, perFile, out, tmp, digest, held, signal, result, ghosts, conns>>

LookupHit(b) ==
    /\ pc[b] = "lookup" /\ key[b] \in DOMAIN cached
    /\ Hold(b, cached[key[b]]) /\ Goto(b, "copyCreate")
    /\ UNCHANGED <<inputVars, starts, cached, perFile, out, tmp, read, digest, key, signal, result, ghosts, conns>>

LookupMiss(b) ==
    /\ pc[b] = "lookup" /\ key[b] \notin DOMAIN cached
    /\ Goto(b, "spawn")
    /\ UNCHANGED <<inputVars, starts, cached, perFile, out, tmp, read, digest, key, held, signal, result, ghosts, conns>>

-----------------------------------------------------------------------------
(* A hit: copyFile                                                         *)

\* Mutant of CopyCreates: -out itself is written.
CopyInPlace(b) ==
    /\ pc[b] = "copyCreate"
    /\ out' = [out EXCEPT ![b] = Torn] /\ tmp' = [tmp EXCEPT ![b] = Torn] /\ Goto(b, "copyData")
    /\ UNCHANGED <<inputVars, starts, cached, perFile, read, digest, key, held, signal, result, ghosts, conns>>

\* os.Create truncates whatever is there.
CopyCreates(b) ==
    /\ pc[b] = "copyCreate"
    /\ tmp' = [tmp EXCEPT ![b] = Torn] /\ Goto(b, "copyData")
    /\ littered' = littered \ {b}
    /\ UNCHANGED <<inputVars, starts, cached, perFile, out, read, digest, key, held, signal, result, quiet, moved, movedTUs, conns>>

CopyData(b) ==
    /\ pc[b] = "copyData"
    /\ tmp' = [tmp EXCEPT ![b] = held[b]] /\ Goto(b, "copyRename")
    /\ UNCHANGED <<inputVars, starts, cached, perFile, out, read, digest, key, held, signal, result, ghosts, conns>>

\* Mutant of CopyFails: tmp is left behind.
CopyFailsUncleaned(b) ==
    /\ pc[b] = "copyData" /\ WriteFails /\ Exit(b, "copy")
    /\ UNCHANGED <<inputVars, starts, cached, perFile, out, tmp, ghosts, conns>>

CopyFails(b) ==
    /\ pc[b] = "copyData" /\ WriteFails
    /\ tmp' = [tmp EXCEPT ![b] = Absent] /\ Exit(b, "copy")
    /\ UNCHANGED <<inputVars, starts, cached, perFile, out, ghosts, conns>>

CopyRenames(b) ==
    /\ pc[b] = "copyRename"
    /\ Rename(b) /\ Exit(b, "ok")
    /\ UNCHANGED <<inputVars, starts, cached, perFile, ghosts, conns>>

-----------------------------------------------------------------------------
(* A miss: clangd, extract.Run, WriteIndexWithFacts, WholeBuild.Put        *)

Spawn(b) ==
    /\ pc[b] = "spawn" /\ signal[b] = "no"
    /\ Goto(b, "extract")
    /\ UNCHANGED <<inputVars, starts, cached, perFile, out, tmp, read, digest, key, held, signal, result, ghosts, conns>>

\* exec.CommandContext starts nothing for a cancelled context.
SpawnFails(b) ==
    /\ pc[b] = "spawn" /\ (signal[b] # "no" \/ "crash" \in Faults)
    /\ Exit(b, "spawn")
    /\ UNCHANGED <<inputVars, starts, cached, perFile, out, tmp, ghosts, conns>>

\* extract.Run: the next source is digested.  A file that cannot be read is no
\* plan; a payload filed under the digest stands for the file; without one the
\* file is to be opened.
PlanTU(b) ==
    /\ pc[b] = "extract" /\ ReadsSources(b) /\ digest[b][Coming(b)] = 0
    /\ LET i == Coming(b)
           k == PerFileKey(i, read[b][1], inputs[i])
       IN \/ inputs[i] = 0 /\ Has(b, 0) /\ UNCHANGED digest
          \/ inputs[i] # 0 /\ k \in DOMAIN perFile /\ Has(b, perFile[k]) /\ UNCHANGED digest
          \/ /\ inputs[i] # 0 /\ k \notin DOMAIN perFile
             /\ digest' = [digest EXCEPT ![b][i] = inputs[i]] /\ UNCHANGED read
    /\ UNCHANGED <<inputVars, starts, cached, perFile, out, tmp, pc, key, held, signal, result, ghosts, conns>>

Opening(b) == pc[b] = "extract" /\ ReadsSources(b) /\ digest[b][Coming(b)] # 0

\* openTU reads the file again, and this is what clangd gets.
OpenTU(b) ==
    /\ Opening(b) /\ inputs[Coming(b)] # 0
    /\ Has(b, inputs[Coming(b)])
    /\ UNCHANGED <<inputVars, starts, cached, perFile, out, tmp, pc, digest, key, held, signal, result, ghosts, conns>>

\* A worker is done with source i: its payload is filed under the digest, unless
\* the write fails, which is ignored.  A worker that was cancelled files one too.
PutTU(b, i) ==
    /\ pc[b] = "extract" /\ Len(read[b]) = NInputs /\ digest[b][i] # 0
    /\ LET k == PerFileKey(i, read[b][1], digest[b][i])
       IN \/ WriteFails /\ UNCHANGED <<perFile, movedTUs>>
          \/ /\ perFile' = [l \in DOMAIN perFile \cup {k} |-> IF l = k THEN read[b][i] ELSE perFile[l]]
             /\ movedTUs' = IF quiet[b] THEN movedTUs ELSE movedTUs \cup {<<i, digest[b][i]>>}
    /\ digest' = [digest EXCEPT ![b][i] = 0]
    /\ UNCHANGED <<inputVars, starts, cached, out, tmp, pc, read, key, held, signal, result, quiet, littered, moved, conns>>

\* Mutant of Extracted: a signal only ends the waiting for clangd's index.
ExtractedAnyway(b) ==
    /\ pc[b] = "extract" /\ Len(read[b]) = NInputs /\ digest[b] = Undigested
    /\ Hold(b, Index(read[b])) /\ Goto(b, "create")
    /\ moved' = IF quiet[b] THEN moved ELSE moved \cup {key[b]}
    /\ UNCHANGED <<inputVars, starts, cached, perFile, out, tmp, read, digest, key, signal, result, quiet, littered, movedTUs, conns>>

\* extract.Run succeeds: all workers are done, and the context is not.
Extracted(b) ==
    /\ pc[b] = "extract" /\ Len(read[b]) = NInputs /\ digest[b] = Undigested /\ signal[b] = "no"
    /\ Hold(b, Index(read[b])) /\ Goto(b, "create")
    /\ moved' = IF quiet[b] THEN moved ELSE moved \cup {key[b]}
    /\ UNCHANGED <<inputVars, starts, cached, perFile, out, tmp, read, digest, key, signal, result, quiet, littered, movedTUs, conns>>

\* extract.Run fails: it was cancelled, clangd exited, or a file is gone.
ExtractFails(b) ==
    /\ pc[b] = "extract"
    /\ \/ signal[b] # "no" \/ "crash" \in Faults
       \/ ReadsCompDB(b) /\ inputs[1] = 0
       \/ Opening(b) /\ inputs[Coming(b)] = 0
    /\ Exit(b, "extract")
    /\ UNCHANGED <<inputVars, starts, cached, perFile, out, tmp, ghosts, conns>>

\* store.Create makes a database of tmp, unless something is there.
CreateTmp(b) ==
    /\ pc[b] = "create" /\ tmp[b] \in {Absent, Empty}
    /\ tmp' = [tmp EXCEPT ![b] = Schema] /\ Goto(b, "commit")
    /\ UNCHANGED <<inputVars, starts, cached, perFile, out, read, digest, key, held, signal, result, ghosts, conns>>

CreateCollides(b) ==
    /\ pc[b] = "create" /\ tmp[b] \notin {Absent, Empty}
    /\ Exit(b, "write")
    /\ UNCHANGED <<inputVars, starts, cached, perFile, out, tmp, ghosts, conns>>

CommitTmp(b) ==
    /\ pc[b] = "commit"
    /\ tmp' = [tmp EXCEPT ![b] = held[b]] /\ Goto(b, "rename")
    /\ UNCHANGED <<inputVars, starts, cached, perFile, out, read, digest, key, held, signal, result, ghosts, conns>>

\* Nothing removes tmp.
CommitFails(b) ==
    /\ pc[b] = "commit" /\ WriteFails
    /\ Exit(b, "write") /\ littered' = littered \cup {b}
    /\ UNCHANGED <<inputVars, starts, cached, perFile, out, tmp, quiet, moved, movedTUs, conns>>

RenameTmp(b) ==
    /\ pc[b] = "rename"
    /\ Rename(b) /\ Goto(b, "putOpen")
    /\ UNCHANGED <<inputVars, starts, cached, perFile, read, digest, key, held, signal, result, ghosts, conns>>

\* Mutant of PutCopies: the key is made anew, of the inputs as they are now.
PutCopiesRekeyed(b) ==
    /\ pc[b] = "putOpen"
    /\ key' = [key EXCEPT ![b] = InputDigest(inputs)]
    /\ Hold(b, out[b]) /\ Goto(b, "putRename")
    /\ UNCHANGED <<inputVars, starts, cached, perFile, out, tmp, read, digest, signal, result, ghosts, conns>>

\* WholeBuild.Put copies -out into a file of its own.
PutCopies(b) ==
    /\ pc[b] = "putOpen"
    /\ Hold(b, out[b]) /\ Goto(b, "putRename")
    /\ UNCHANGED <<inputVars, starts, cached, perFile, out, tmp, read, digest, key, signal, result, ghosts, conns>>

\* Its errors are only warned of.
PutFails(b) ==
    /\ pc[b] = "putOpen" /\ WriteFails
    /\ Exit(b, "ok")
    /\ UNCHANGED <<inputVars, starts, cached, perFile, out, tmp, ghosts, conns>>

PutRenames(b) ==
    /\ pc[b] = "putRename"
    /\ cached' = [k \in DOMAIN cached \cup {key[b]} |-> IF k = key[b] THEN held[b] ELSE cached[k]]
    /\ Exit(b, "ok")
    /\ UNCHANGED <<inputVars, starts, perFile, out, tmp, ghosts, conns>>

Build(b) == \/ LoadCompDB(b) \/ SumFile(b) \/ NoCompDB(b) \/ Digest(b) \/ LookupHit(b) \/ LookupMiss(b)
            \/ CopyCreates(b) \/ CopyData(b) \/ CopyFails(b) \/ CopyRenames(b)
            \/ Spawn(b) \/ SpawnFails(b) \/ PlanTU(b) \/ OpenTU(b)
            \/ (\E i \in Sources : PutTU(b, i)) \/ Extracted(b) \/ ExtractFails(b)
            \/ CreateTmp(b) \/ CreateCollides(b) \/ CommitTmp(b) \/ CommitFails(b)
            \/ RenameTmp(b) \/ PutCopies(b) \/ PutFails(b) \/ PutRenames(b)

-----------------------------------------------------------------------------
(* The surroundings                                                        *)

\* The process is gone at once; files stay as they are.
Kill(b) ==
    /\ "kill" \in Faults /\ pc[b] # "idle"
    /\ littered' = IF tmp[b] # Absent THEN littered \cup {b} ELSE littered
    /\ Exit(b, "killed")
    /\ UNCHANGED <<inputVars, starts, cached, perFile, out, tmp, quiet, moved, movedTUs, conns>>

\* signalCtx: the signal cancels ctx, which only clangd and extract.Run look at.
Signal(b) ==
    /\ "signal" \in Faults /\ pc[b] # "idle" /\ signal[b] = "no"
    /\ signal' = [signal EXCEPT ![b] = IF pc[b] = "extract" THEN "extracting" ELSE "other"]
    /\ UNCHANGED <<inputVars, starts, cached, perFile, out, tmp, pc, read, digest, key, held, result, ghosts, conns>>

Edit(i) ==
    /\ edits < MaxEdits /\ edits' = edits + 1
    /\ \E c \in Contents \ {inputs[i]} : inputs' = [inputs EXCEPT ![i] = c]
    /\ quiet' = [b \in Builders |-> FALSE]
    /\ UNCHANGED <<starts, cached, perFile, out, tmp, pc, read, digest, key, held, signal, result, littered, moved, movedTUs, conns>>

\* runServe opens the file; its pool opens it by name for further queries.
ServeConnects(b) ==
    /\ Cardinality(conns) < MaxConns /\ out[b] # Absent
    /\ conns' = conns \cup {out[b]}
    /\ UNCHANGED <<inputVars, starts, cached, perFile, out, tmp, pc, read, digest, key, held, signal, result, ghosts>>

\* A signal, or a listener that fails: the store is closed.
ServeEnds ==
    /\ conns # {} /\ conns' = {}
    /\ UNCHANGED <<inputVars, starts, cached, perFile, out, tmp, pc, read, digest, key, held, signal, result, ghosts>>

Next == \/ \E b \in Builders : \/ Start(b) \/ Build(b) \/ Kill(b) \/ Signal(b) \/ ServeConnects(b)
        \/ ServeEnds \/ \E i \in Inputs : Edit(i)

Spec == Init /\ [][Next]_vars

-----------------------------------------------------------------------------
(* Properties                                                              *)

\* Safety: whatever is killed, interrupted or out of space at any step, -out is
\* missing or a whole database, and so is every entry of the cache and every
\* file the server has open (copyFile, runBuild, WholeBuild.Put).
NothingTorn ==
    /\ \A b \in Builders : out[b].st \in {"absent", "index"}
    /\ \A k \in DOMAIN cached : cached[k].st = "index"
    /\ \A file \in conns : file.st = "index"

\* The key, or one of the files it stands for, was filed by a build whose inputs
\* were changed under it.
Misfiled(k) == k \in moved \/ \E i \in DOMAIN k : <<i, k[i]>> \in movedTUs

\* Safety: a build that succeeds while nobody touches its inputs leaves an index
\* of them in -out, whether it was a hit of either cache or a miss and whatever
\* other builds filed there (cache.go:4-5: a build is skipped when "an identical
\* input snapshot was already indexed").  Both caches are filled under digests
\* that were made before extract.Run read the files again, so the exceptions are
\* a snapshot that a build filed whose inputs were changed under it, and a file
\* whose payload such a build filed, which later builds with other keys pick up.
\* Nothing is claimed of headers, which no key covers (cache.go:175-176).
BuildIsFresh ==
    \A b \in Builders :
        result[b] = "ok" /\ quiet[b] /\ ~Misfiled(inputs) => out[b].of = inputs

\* Safety: a build fails to write its index only where an earlier one was killed
\* or ran out of space in the middle of writing; a build that was cancelled,
\* whose copy failed or whose clangd crashed never stands in the way of the
\* next (runBuild, copyFile, Create).
BlockedOnlyByLitter == \A b \in Builders : result[b] = "write" => b \in littered

\* What a build that is interrupted while it extracts leaves alone.
Unpublished ==
    \A b \in Builders : signal[b] = "extracting" =>
          /\ out'[b] = out[b]
          /\ ~(pc[b] = "putRename" /\ result'[b] = "ok")

\* Action: a build that is interrupted while it extracts neither replaces -out
\* nor files anything (main.go:146-148: "otherwise we'd silently continue,
\* write a partial DB, and cache it").
InterruptedPublishesNothing == [][Unpublished]_vars

Files == [st : {"absent", "empty", "torn", "schema", "index"}, of : Seq(Contents)]
PCs   == {"idle", "digest", "lookup", "copyCreate", "copyData", "copyRename", "spawn", "extract",
          "create", "commit", "rename", "putOpen", "putRename"}
Results == {"none", "compdb", "copy", "spawn", "extract", "write", "ok", "killed"}

SharedTypes ==
    /\ inputs \in Keys /\ edits \in Nat /\ starts \in Nat
    /\ littered \subseteq Builders /\ moved \subseteq Seq(Contents)
    /\ movedTUs \subseteq Inputs \X Contents
FileTypes ==
    /\ DOMAIN cached \subseteq Seq(Contents) /\ cached \in [DOMAIN cached -> Files]
    /\ perFile \in [DOMAIN perFile -> Contents]
    /\ out \in [Builders -> Files] /\ tmp \in [Builders -> Files] /\ conns \subseteq Files
BuilderTypes ==
    /\ pc \in [Builders -> PCs] /\ result \in [Builders -> Results]
    /\ digest \in [Builders -> [Inputs -> Contents]]
    /\ read \in [Builders -> Seq(Contents)] /\ key \in [Builders -> Seq(Contents)]
    /\ held \in [Builders -> Files] /\ signal \in [Builders -> {"no", "extracting", "other"}]
    /\ quiet \in [Builders -> BOOLEAN]
TypeOK == SharedTypes /\ FileTypes /\ BuilderTypes

\* The index on its way to -out or into the cache, and where it is.
HasInHand(b) == pc[b] \in {"copyCreate", "copyData", "create", "commit", "putRename"}
HasInTmp(b)  == pc[b] \in {"copyRename", "rename"}

\* It is whole, and it is the index the key names unless that is misfiled.
NamedBy(file, k) == file.st = "index" /\ (file.of = k \/ Misfiled(k))
FilesInv ==
    /\ \A k \in DOMAIN cached : NamedBy(cached[k], k)
    /\ \A b \in Builders :
           /\ out[b] = Absent \/ out[b].st = "index"
           /\ HasInHand(b) => NamedBy(held[b], key[b])
           /\ HasInTmp(b) => NamedBy(tmp[b], key[b])
           /\ pc[b] \in {"putOpen", "putRename"} => NamedBy(out[b], key[b])

\* A payload is of the content it is filed under, unless that is misfiled.
PerFileInv ==
    \A k \in DOMAIN perFile : /\ k \in Sources \X Nat \X Contents
                              /\ perFile[k] = k[3] \/ <<k[1], k[3]>> \in movedTUs

\* What a build has read, and the key it made of it, while nobody touches its inputs.
QuietInv ==
    \A b \in Builders :
        /\ pc[b] \in {"idle", "lookup", "spawn"} => read[b] = <<>>
        /\ pc[b] # "extract" => digest[b] = Undigested
        /\ quiet[b] => /\ \A i \in DOMAIN read[b] :
                              read[b][i] = inputs[i] \/ (pc[b] # "digest" /\ <<i, inputs[i]>> \in movedTUs)
                       /\ \A i \in Inputs : digest[b][i] \in {0, inputs[i]}
                       /\ pc[b] \notin {"idle", "digest"} => key[b] = inputs

\* The steps of a build that runs: it has no result, tmp is its own or litter, and one that
\* was interrupted while it extracts does not get further.
RunInv ==
    \A b \in Builders :
        /\ pc[b] # "idle" => result[b] = "none"
        /\ tmp[b] # Absent =>
               b \in littered \/ pc[b] \in {"copyData", "copyRename", "commit", "rename"}
        /\ signal[b] = "extracting" => pc[b] = "extract"

\* Safety: the inductive invariant behind the properties (module Build_proofs): where the
\* index is at each step of runBuild, and what the key says of it.
IInv == /\ TypeOK /\ FilesInv /\ PerFileInv /\ QuietInv /\ RunInv
        /\ NothingTorn /\ BuildIsFresh /\ BlockedOnlyByLitter

=============================================================================
