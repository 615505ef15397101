----------------------------- MODULE IndexStore -----------------------------
(***************************************************************************)
(* How the daemon stores, publishes and reads index databases: the files   *)
(* in -db-dir (index.db and index-<seq>.db), openOrSeed and the publishing *)
(* half of onReady (cmd/clangd-mcp-daemon/main.go), Store.Open, Swap and   *)
(* the readers of internal/store, and the MCP tool get_symbol, which reads *)
(* three times.  The daemon process may crash and be started again.  A     *)
(* database is abstracted to the number of the rebuild that wrote it; 0 is *)
(* the seed.  database/sql and SQLite are external: a handle is a pool of  *)
(* connections that opens further connections by file name.                *)
(***************************************************************************)
EXTENDS Naturals, Sequences, FiniteSets

CONSTANTS
    Readers,      \* goroutines serving MCP requests
    MaxBuilds,    \* bound: rebuilds that write a database
    MaxRestarts,  \* bound: how often the daemon process is started again
    CrashAt       \* steps of the publisher at which the process may crash

Steps == {"down", "boot", "seed", "seedWrite", "open", "idle", "create", "write",
          "swapNew", "closeOld", "remove", "rename", "swapFirst", "closeNew", "stuck"}

ASSUME BoundsAssumption == MaxBuilds \in Nat /\ MaxRestarts \in Nat
ASSUME CrashAssumption == CrashAt \subseteq Steps

VARIABLES
    disk,      \* per file: its state, and the rebuild it holds; file 0 is index.db
    step,      \* what the goroutine of onReady (main, while booting) does next
    seq,       \* rebuildSeq, which names the next index-<seq>.db
    built,     \* number of databases written completely so far
    handles,   \* the *sql.DB handles of this process: file name, content, open
    live,      \* Store.db: the handle readers load, 0 before Open
    old,       \* the handle Swap is about to close, 0 for none
    rd,        \* per reader: what it is doing
    last,      \* per reader: what its last tool call returned
    restarts,  \* how often the process was started again (bounded)
    published  \* greatest rebuild that was ever live

fileVars   == <<disk, built>>
storeVars  == <<handles, live, old, published>>
readVars   == <<rd, last>>
vars == <<fileVars, storeVars, readVars, step, seq, restarts>>

Names  == 0 .. MaxBuilds + 1
Absent == [st |-> "absent", ver |-> 0]
Idle   == [pc |-> "idle", h |-> 0, conn |-> Absent, left |-> 0, seen |-> {}]

Init ==
    /\ disk = [n \in Names |-> Absent] /\ built = 0
    /\ step = "boot" /\ seq = 0
    /\ handles = <<>> /\ live = 0 /\ old = 0 /\ published = 0
    /\ rd = [r \in Readers |-> Idle] /\ last = [r \in Readers |-> "none"]
    /\ restarts = 0

-----------------------------------------------------------------------------
(* openOrSeed                                                              *)

\* Mutant of Stat: index.db is always seeded.
StatIgnored ==
    /\ step = "boot" /\ step' = "seed"
    /\ UNCHANGED <<fileVars, storeVars, readVars, seq, restarts>>

\* Stat: an existing index.db is opened as it is, a missing one is seeded.
Stat ==
    /\ step = "boot"
    /\ step' = IF disk[0].st = "absent" THEN "seed" ELSE "open"
    /\ UNCHANGED <<fileVars, storeVars, readVars, seq, restarts>>

\* Create applies the schema statement by statement ...
CreateFile(n) == disk' = [disk EXCEPT ![n] = [st |-> "partial", ver |-> 0]]

\* ... and one transaction fills the tables.
CommitFile(n, ver) == disk' = [disk EXCEPT ![n] = [st |-> "full", ver |-> ver]]

Seed ==
    /\ step = "seed" /\ CreateFile(0) /\ step' = "seedWrite"
    /\ UNCHANGED <<built, storeVars, readVars, seq, restarts>>

SeedCommits ==
    /\ step = "seedWrite" /\ CommitFile(0, 0) /\ step' = "open"
    /\ UNCHANGED <<built, storeVars, readVars, seq, restarts>>

Handle(n) == [name |-> n, has |-> disk[n], open |-> TRUE]

\* Larger of two rebuild numbers.
Newer(a, b) == IF a < b THEN b ELSE a

OpenStore ==
    /\ step = "open"
    /\ handles' = <<Handle(0)>> /\ live' = 1 /\ old' = 0
    /\ published' = Newer(published, disk[0].ver)
    /\ step' = "idle"
    /\ UNCHANGED <<fileVars, readVars, seq, restarts>>

-----------------------------------------------------------------------------
(* onReady: write index-<seq>.db, swap it in, make it index.db, swap again *)

StartRebuild ==
    /\ step = "idle" /\ built < MaxBuilds
    /\ seq' = seq + 1 /\ step' = "create"
    /\ UNCHANGED <<fileVars, storeVars, readVars, restarts>>

\* Mutant of CreateNew: the file is published before it is filled.
CreateNewEarly ==
    /\ step = "create" /\ disk[seq].st = "absent"
    /\ CreateFile(seq) /\ step' = "swapNew"
    /\ UNCHANGED <<built, storeVars, readVars, seq, restarts>>

CreateNew ==
    /\ step = "create" /\ disk[seq].st = "absent"
    /\ CreateFile(seq) /\ step' = "write"
    /\ UNCHANGED <<built, storeVars, readVars, seq, restarts>>

\* The file is there already: "table symbols already exists", onReady fails
\* and Daemon.Run returns.
CreateCollides ==
    /\ step = "create" /\ disk[seq].st # "absent"
    /\ step' = "stuck"
    /\ UNCHANGED <<fileVars, storeVars, readVars, seq, restarts>>

WriteCommits ==
    /\ step = "write" /\ built' = built + 1
    /\ CommitFile(seq, built + 1) /\ step' = "swapNew"
    /\ UNCHANGED <<storeVars, readVars, seq, restarts>>

\* Store.Swap up to the exchange of the pointer, under swapMu.
SwapPointer(n) ==
    /\ handles' = Append(handles, Handle(n))
    /\ live' = Len(handles) + 1 /\ old' = live
    /\ published' = Newer(published, disk[n].ver)

\* Mutant of CloseHandle: the previous handle is leaked.
CloseHandleForgotten == old' = 0 /\ UNCHANGED <<handles, live, published>>

\* The rest of Swap: the previous handle is closed.
CloseHandle ==
    /\ handles' = [handles EXCEPT ![old].open = FALSE]
    /\ old' = 0 /\ UNCHANGED <<live, published>>

\* Mutant of SwapNew: the files are exchanged before the handles.
SwapNewSkipped ==
    /\ step = "swapNew" /\ step' = "remove"
    /\ UNCHANGED <<fileVars, storeVars, readVars, seq, restarts>>

SwapNew ==
    /\ step = "swapNew" /\ SwapPointer(seq) /\ step' = "closeOld"
    /\ UNCHANGED <<fileVars, readVars, seq, restarts>>

CloseOld ==
    /\ step = "closeOld" /\ CloseHandle /\ step' = "remove"
    /\ UNCHANGED <<fileVars, readVars, seq, restarts>>

RemoveFirst ==
    /\ step = "remove" /\ disk' = [disk EXCEPT ![0] = Absent] /\ step' = "rename"
    /\ UNCHANGED <<built, storeVars, readVars, seq, restarts>>

RenameNew ==
    /\ step = "rename"
    /\ disk' = [disk EXCEPT ![0] = disk[seq], ![seq] = Absent]
    /\ step' = "swapFirst"
    /\ UNCHANGED <<built, storeVars, readVars, seq, restarts>>

SwapFirst ==
    /\ step = "swapFirst" /\ SwapPointer(0) /\ step' = "closeNew"
    /\ UNCHANGED <<fileVars, readVars, seq, restarts>>

CloseNew ==
    /\ step = "closeNew" /\ CloseHandle /\ step' = "idle"
    /\ UNCHANGED <<fileVars, readVars, seq, restarts>>

Publisher == \/ Stat \/ Seed \/ SeedCommits \/ OpenStore \/ StartRebuild
             \/ CreateNew \/ CreateCollides \/ WriteCommits \/ SwapNew \/ CloseOld
             \/ RemoveFirst \/ RenameNew \/ SwapFirst \/ CloseNew

-----------------------------------------------------------------------------
(* The readers                                                             *)

BeginCall(r, reads) ==
    /\ live # 0 /\ rd[r].pc = "idle"
    /\ rd' = [rd EXCEPT ![r] = [Idle EXCEPT !.pc = "load", !.left = reads]]
    /\ last' = [last EXCEPT ![r] = "none"]
    /\ UNCHANGED <<fileVars, storeVars, step, seq, restarts>>

\* search_symbol, list_symbols_in_file, ...: one read.
SearchSymbol(r) == BeginCall(r, 1)

\* get_symbol: the symbol, its callers and its callees.
GetSymbol(r) == BeginCall(r, 3)

\* db := s.db.Load()
LoadHandle(r) ==
    /\ rd[r].pc = "load"
    /\ rd' = [rd EXCEPT ![r].pc = "loaded", ![r].h = live]
    /\ UNCHANGED <<fileVars, storeVars, last, step, seq, restarts>>

CallReturns(r, result) ==
    /\ rd' = [rd EXCEPT ![r] = [Idle EXCEPT !.seen = rd[r].seen]]
    /\ last' = [last EXCEPT ![r] = result]

Querying(h) == {s \in Readers : rd[s].pc = "query" /\ rd[s].h = h}

\* A query runs on a pooled connection, or opens one when all are in use.
Connected(r, content) ==
    rd' = [rd EXCEPT ![r].pc = "query", ![r].conn = content]

QueryPooled(r) ==
    /\ rd[r].pc = "loaded" /\ handles[rd[r].h].open
    /\ Connected(r, handles[rd[r].h].has)
    /\ UNCHANGED <<fileVars, storeVars, last, step, seq, restarts>>

QueryConnects(r) ==
    /\ rd[r].pc = "loaded" /\ handles[rd[r].h].open
    /\ Querying(rd[r].h) # {}
    /\ LET file == disk[handles[rd[r].h].name]
       IN IF file.st = "absent" THEN CallReturns(r, "noFile")
          ELSE Connected(r, file) /\ UNCHANGED last
    /\ UNCHANGED <<fileVars, storeVars, step, seq, restarts>>

\* "sql: database is closed"
QueryRefused(r) ==
    /\ rd[r].pc = "loaded" /\ ~handles[rd[r].h].open
    /\ CallReturns(r, "closed")
    /\ UNCHANGED <<fileVars, storeVars, step, seq, restarts>>

\* The rows were read; running queries survive the Close of their handle.
QueryReturns(r) ==
    /\ rd[r].pc = "query"
    /\ LET seen == rd[r].seen \cup {rd[r].conn.ver}
       IN IF rd[r].left > 1
          THEN /\ rd' = [rd EXCEPT ![r] = [Idle EXCEPT !.pc = "load", !.left = rd[r].left - 1,
                                                       !.seen = seen]]
               /\ UNCHANGED last
          ELSE /\ rd' = [rd EXCEPT ![r] = [Idle EXCEPT !.seen = seen]]
               /\ last' = [last EXCEPT ![r] = "ok"]
    /\ UNCHANGED <<fileVars, storeVars, step, seq, restarts>>

Reader(r) == \/ SearchSymbol(r) \/ GetSymbol(r) \/ LoadHandle(r) \/ QueryPooled(r) \/ QueryConnects(r)
             \/ QueryRefused(r) \/ QueryReturns(r)

-----------------------------------------------------------------------------
(* The process ends, by a crash or (between rebuilds) by a shutdown, and   *)
(* is started again.  Only the files survive.                              *)

ProcessEnds ==
    /\ restarts < MaxRestarts /\ step \in CrashAt \cup {"idle", "stuck"}
    /\ step' = "down" /\ seq' = 0 /\ restarts' = restarts + 1
    /\ handles' = <<>> /\ live' = 0 /\ old' = 0
    /\ rd' = [r \in Readers |-> Idle] /\ last' = [r \in Readers |-> "none"]
    /\ UNCHANGED <<fileVars, published>>

ProcessStarts ==
    /\ step = "down" /\ step' = "boot"
    /\ UNCHANGED <<fileVars, storeVars, readVars, seq, restarts>>

Next == Publisher \/ (\E r \in Readers : Reader(r)) \/ ProcessEnds \/ ProcessStarts

Spec == Init /\ [][Next]_vars

-----------------------------------------------------------------------------
(* Properties                                                              *)

\* Safety: an open handle can be relied on: the file under its name is the
\* database it was opened on, or is not there; so that a further connection of
\* the pool never reads another index than the first one (order of Swap, Remove
\* and Rename in onReady).
HandleMatchesFile ==
    \A i \in DOMAIN handles : handles[i].open =>
        disk[handles[i].name] \in {handles[i].has, Absent}

\* Safety: readers load an open handle, and every other handle but the one
\* being closed is closed: Swap neither closes the handle it publishes nor
\* leaks the previous one (Store.Swap, store.go:158).
OneOpenHandle ==
    live # 0 => /\ handles[live].open
                /\ \A i \in DOMAIN handles : handles[i].open => i \in {live, old}

\* Safety: a query never runs on a database that is not completely written
\* (README.md:67: "in-flight MCP queries never see a half-built database"),
\* with one exception: a process that was started again may open an index.db
\* whose seeding was interrupted, and serves it until its first rebuild
\* (openOrSeed only looks whether the file is there).
NeverHalfBuilt ==
    /\ \A h \in DOMAIN handles : handles[h].has.st # "full" => restarts > 0 /\ h = 1
    /\ \A r \in Readers : rd[r].pc = "query" /\ rd[r].conn.st # "full"
            => restarts > 0 /\ rd[r].h = 1

\* Safety: wherever the process ends, the newest index that was ever served is
\* still in one of the files, although index.db is removed before its
\* replacement is renamed and names of earlier processes are used again
\* (order of Remove and Rename in onReady; Create).
NewestIsOnDisk ==
    published > 0 => \E n \in Names : disk[n] = [st |-> "full", ver |-> published]

\* Safety: a rebuild always writes to a fresh file (store.go:190-192: "to a
\* fresh DB at path. The DB is rebuilt from scratch every time").
RebuildIsFresh == step # "stuck"

Contents == [st : {"absent", "partial", "full"}, ver : 0 .. MaxBuilds]

\* The database being published, and the steps from its first Swap on.
New == [st |-> "full", ver |-> built]
Publishing == step \in {"closeOld", "remove", "rename", "swapFirst", "closeNew"}
\* The steps at which readers are served from index.db.
Settled == step \in {"idle", "create", "write", "stuck", "swapNew"}

FileTypes ==
    /\ disk \in [Names -> Contents] /\ built \in 0 .. MaxBuilds /\ published \in 0 .. built
    /\ seq \in Names /\ step \in Steps /\ restarts \in Nat

HandleTypes ==
    /\ handles \in Seq([name : Names, has : Contents, open : BOOLEAN])
    /\ live \in 0 .. Len(handles) /\ old \in 0 .. Len(handles)

ReaderTypes ==
    /\ rd \in [Readers -> [pc : {"idle", "load", "loaded", "query"}, h : Nat, conn : Contents,
                           left : Nat, seen : SUBSET Nat]]
    /\ last \in [Readers -> {"none", "noFile", "closed", "ok"}]

TypeOK == FileTypes /\ HandleTypes /\ ReaderTypes

\* How far each file is written, step by step of openOrSeed and onReady.
FilesInv ==
    /\ \A n \in Names : disk[n].ver <= built /\ (disk[n].st # "full" => disk[n].ver = 0)
    /\ step \in {"create", "write", "swapNew"} \/ Publishing => seq > 0
    /\ IF step \in {"create", "write"} THEN seq <= built + 1 /\ built < MaxBuilds
       ELSE step # "stuck" => seq <= built
    /\ step = "seed" => disk[0] = Absent
    /\ disk[0].st = "partial" => step = "seedWrite" \/ restarts > 0
    /\ step = "seedWrite" => disk[0].st = "partial"
    /\ step = "open" => disk[0].st # "absent"
    /\ step = "write" => disk[seq].st = "partial"
    /\ step \in {"swapNew", "closeOld", "remove", "rename"} => disk[seq] = New
    /\ step = "rename" => disk[0] = Absent
    /\ step \in {"swapFirst", "closeNew"} => disk[0] = New /\ disk[seq] = Absent
    /\ Publishing => published = built

\* Which handles are open then, and on what.
HandlesInv ==
    /\ live # 0 <=> Settled \/ Publishing
    /\ old # 0 <=> step \in {"closeOld", "closeNew"}
    /\ live = 0 => handles = <<>>
    /\ live # 0 => live # old
    /\ Settled => handles[live].name = 0 /\ handles[live].has = disk[0]
    /\ step \in {"closeOld", "remove", "rename", "swapFirst"} =>
           handles[live].name = seq /\ handles[live].has = New
    /\ step = "closeOld" => handles[old].name = 0 /\ handles[old].has = disk[0]
    /\ step = "closeNew" => /\ handles[live].name = 0 /\ handles[live].has = New
                            /\ handles[old].name = seq

\* Readers hold handles of this process.
ReadersInv ==
    \A r \in Readers : /\ rd[r].pc # "idle" => live # 0
                       /\ rd[r].pc \in {"loaded", "query"} => rd[r].h \in DOMAIN handles

\* Safety: the inductive invariant behind the four properties (module
\* IndexStore_proofs): what is in the files and in the open handles at each step
\* of openOrSeed and onReady, for any earlier crashes.
IInv == /\ TypeOK /\ FilesInv /\ HandlesInv /\ ReadersInv
        /\ OneOpenHandle /\ NeverHalfBuilt /\ NewestIsOnDisk

-----------------------------------------------------------------------------
(* What the store promises to its readers                                  *)

\* The index that readers are served, by the handle they load.
ServedIndex == IF live = 0 THEN [gen |-> 0, ver |-> 0]
               ELSE [gen |-> live, ver |-> handles[live].has.ver]

\* A read has begun once it has loaded the handle.  What it will see is what
\* that handle was opened on; what it does see is what its connection reads.
ReadOf(call) ==
    CASE call.pc = "loaded" -> [gen |-> call.h, ver |-> handles[call.h].has.ver]
      [] call.pc = "query"  -> [gen |-> call.h, ver |-> call.conn.ver]
      [] OTHER              -> [gen |-> 0, ver |-> 0]
ToolCalls == [r \in Readers |-> [left |-> rd[r].left, got |-> ReadOf(rd[r]), seen |-> rd[r].seen]]

Atomic == INSTANCE AtomicIndex
          WITH Callers <- Readers, Reads <- {1, 3}, serving <- ServedIndex,
               exchanging <- Publishing, calls <- ToolCalls

\* Refinement: the store implements AtomicIndex.  A read sees the index that was
\* live when it loaded the handle, although the pool reopens the file by name
\* while files are removed and renamed under it; the live index never goes back
\* while the process lives; and a read fails only on a handle that Swap has
\* replaced, or while onReady is publishing (Store.Swap; onReady).
ReadsAreAtomic == Atomic!Spec

\* What the refinement needs beside IInv: a call is known by its reads, and
\* once the handle is index.db's its file is there, and older than a new one.
CallsInv ==
    /\ \A r \in Readers : rd[r].pc = "idle" <=> rd[r].left = 0
    /\ Settled => disk[0].st # "absent"
    /\ step = "swapNew" => disk[0].ver < built

=============================================================================
