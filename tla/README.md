# clang-index-mcp: TLA+ models and proofs

This directory models the parts of clang-index-mcp whose correctness depends
on the order in which things happen: the daemon that follows
`compile_commands.json`, the JSON-RPC client through which clangd is driven,
the extraction that runs over it, the caches it fills, the index databases
that are exchanged under running MCP queries, and the one-shot build with its
clangd and its progress bar. The facts of an index, from the AST clangd prints
to the rows a query joins, are modelled too. TLC checks small instances, and
TLAPS proves every safety property of every component for every value of the
constants, under the hypotheses section 4 names. Paths and line numbers below refer to the repository.

## 1. The system

`clangd-mcp-daemon` spawns a clangd, asks it for everything an index needs,
writes a SQLite database and serves it to MCP clients. When
`compile_commands.json` changes it does so again. `clang-index build` does the
extraction once, `clang-index serve` serves a frozen database.

| Component | State it keeps | Operations | Talks to |
|---|---|---|---|
| `clangdproc.Daemon` (`internal/clangdproc/daemon.go`) with `onReady`, `watchCompDB`, `signalCtx` of `cmd/clangd-mcp-daemon/main.go` | `current`, `restartCh` (one slot), `stopCh`, `doneCh`, a debounce timer | `Run`, `start`, `stopCurrent`, `Restart`, `Close`, `Current` | fsnotify events; spawns and stops `Process`; calls `onReady` |
| `clangdproc.Process` (`clangdproc.go`) | the command, `indexedCh`, the progress callback | `Start`, `Stop`, `WaitIndexed`, `OnIndexProgress`, the `$/progress` handler | clangd over two pipes, through `lsp.Client`; the progress bar |
| `lsp.Client` (`internal/lsp/lsp.go`) | `nextID`, `pending`, `closed`, the write mutex | `Call`, `Notify`, `Run` with `dispatch`, `closeAllPending` | callers (many goroutines), one reader goroutine, the server |
| `extract.Run`, `extractTU` (`internal/extract/extract.go`) | plans, `openedSet`, `openedURIs`, `sharedTypedefs`, the semaphore, `firstErr`, the merged maps | plan, open, follow links, wait for the index, dispatch, work, join, close | `lsp.Client`, the per-file cache, the source files |
| `cache` (`internal/cache/cache.go`) | one file per key | `Lookup` and `Put` of `PerFile` and `WholeBuild`, digests | `extract.Run`, `clang-index build` |
| `store` (`internal/store/store.go`) with `openOrSeed` | an atomic pointer to a `*sql.DB`, `swapMu`; the files of `-db-dir` | `Create`, `WriteIndex…`, `Open`, `Swap`, the queries | `onReady` (writer), MCP handlers (readers) |
| `mcp.Server` (`internal/mcp/mcp.go`) | none of its own | one handler per tool | `store` |
| Address-take and indirect-call analysis (`internal/extract/indirect.go`) | the walker's stack, the enclosing function, typedefs | classification, type canonicalisation | `extractTU` |
| `clang-index` (`cmd/clang-index/main.go`) | `-out` and its `.tmp` | `build`, `serve` | `Process`, `extract`, `cache`, `store` |
| Progress bar (`cmd/clang-index/progress.go`) | phase, counters, one line of the terminal | `reportIndex`, `reportExtract`, `Finish`, a ticker | the reader goroutine, the workers, `build` |

What is hard, and what makes each component correct:

- **Rebuild loop.** Changes arrive while a rebuild takes minutes; pulses are
  coalesced in a one-slot channel and a timer that is reset; the process is
  replaced from three places; errors are sorted into crashes and others.
  Correct means: no change is forgotten, a daemon at rest is up to date, the
  served version never goes back, one clangd runs at a time, `Close` returns.
- **JSON-RPC client.** Replies come late, out of order or never; calls are
  cancelled; the reader drains the table when the connection ends. Correct
  means: a call gets its own reply, a channel is never closed twice or sent on
  after its close, no entry leaks, every call returns.
- **Extraction.** Workers share a client, a semaphore and the set of opened
  headers; any request may fail; the first error cancels the others; files
  change. Correct means: success covers everything, an error is reported as
  what it is, what was opened is closed, the cache holds what its key says.
- **Index store.** The database is exchanged while it is read, its file is
  removed and renamed, and the process may end at any step. Correct means: the
  handle and the file under its name agree, one handle is open, a read sees one
  complete database, no index is lost.
- **Build.** Inputs are read for the key, for the per-file cache and for
  clangd, and may change in between; a build may be killed, interrupted or out of space at any step, and others
  share its cache. Correct means: no torn file is ever published, a build is
  as fresh as its inputs, an interrupted build publishes nothing, and what one
  build leaves does not stop the next.
- **clangd process and progress bar.** clangd may be quiet, hang or die at any
  point; the end of indexing may come before anybody listens; four goroutines
  share one line. Correct means: build ends and leaves no clangd, the end of
  indexing is heard, channels are closed once, nothing is painted late.
- **Facts.** A walker keeps context on its stack while it descends through
  nested calls and assignments; payloads are merged in any order; types are
  joined as text. Correct means: every use of a function is found once and
  described by what is around it, nothing is dropped on the way to the
  database, and the join finds the callbacks.

`PROJECT.json` lists every hazard with its line and the property that
would catch it, or the reason why none does.

## 2. The modules

| Module | Models |
|---|---|
| `LiveIndex` | abstract specification of the daemon: what it promises about the served index |
| `Daemon` | the rebuild loop with its watcher, clangd, signals and `Close` |
| `Daemon_proofs` | proofs about `Daemon`, and that it implements `LiveIndex` |
| `LspClient` | `lsp.Client` with its callers, its reader and the server |
| `LspClient_proofs` | proofs about `LspClient` |
| `Extract` | `extract.Run`, `extractTU` and the per-file cache over several runs |
| `Extract_proofs` | proofs about `Extract` |
| `Build` | `clang-index build` and `serve` around the whole-build cache |
| `Build_proofs` | proofs about `Build` |
| `Process` | one clangd from `Start` to `Stop` under `build`, with the progress bar |
| `Process_proofs` | proofs about `Process` |
| `FnTypes` | the canonical form of function types |
| `Facts` | the walker, the merge, the rows and the queries; uses `FnTypes` |
| `Facts_proofs` | proofs about `Facts` |
| `Induction` | induction over naturals for the proofs about `Facts` |
| `AtomicIndex` | abstract specification of the store: what it promises to tool calls |
| `IndexStore` | index files, `openOrSeed`, the publishing half of `onReady`, `Swap`, the readers |
| `IndexStore_proofs` | proofs about `IndexStore`, and that it implements `AtomicIndex` |
| `MC_*` | instances for TLC: sets of faults, lists of files, symmetry |

A definition under a comment *Mutant of X* is a plausible bug of the code in X.
Each property of a passing run is checked to fail when X is replaced by it.

### Daemon

`compile_commands.json` is a version number and whether a reader finds it
whole; an index is the version it was built from. `loop` is the program
counter of `Daemon.Run` and of `start`, which `Run` calls: `select` is the
`select` of `Run`, `stop` a `Process.Stop` in progress, with `after` as its
return point, `backoff` the two seconds after a crash. `restartCh` is the
slot of the channel, `timer` the debounce timer with its tick (`fired` is a
tick nobody has received; `Reset` discards it, as since Go 1.23). `current` is
`d.current`; `victim` the process `stopCurrent` has taken out and is stopping;
`alive` and `reaped` say which processes run and which were waited for, and
`broken` whether the reader has given up the stream of the last one, which
`isCrashError` takes for a crash too.

| Action | Code |
|---|---|
| `ReplaceCompDB`, `BeginRewrite`, `EndRewrite`, `RemoveCompDB` | the build system (external) |
| `WatchAdd`, `WatchFails`, `ReceiveEvent`, `WatchReturns` | `watchCompDB` |
| `SelectDone`, `SelectRestart`, `SelectTimer`, `DebounceElapses` | the `select` of `Run` and its timer |
| `StopReturns` | `Process.Stop` |
| `Spawn`, `SpawnFails`, `Initialized`, `InitializeFails` | `clangdproc.Start`, called by `start` |
| `LoadCompDB`, `ExtractReturns`, `ExtractCrashes`, `OnReadyFails`, `Publish` | `onReady` and what `start` does with its error |
| `BackoffElapses`, `BackoffCancelled` | the end of an attempt |
| `ClangdDies`, `StreamBreaks`, `Cancel`, `ContextKills`, `Close`, `CloseReturns` | clangd, signals, `exec.CommandContext`, `Daemon.Close` |

`Faults` selects what may go wrong. Two of its members come from the other
modules: `rawWrite` (the death of clangd shows as a write error, which
`isCrashError` does not know: outcome `writeErr` of `LspClient`) and `masked`
(extraction succeeds although clangd died: `Extract`).

### LspClient

A request is the ordinal of its call, which the server echoes; a frame is a
record. `pc` follows a caller through `Call`: `checked` after the test of
`closed`, `write` once its channel is registered, `wait` in the final
`select`. `chan[i]` is the one-slot reply channel of id `i`. The reader holds
a reply it has taken out of the table in `taken` (`deliver`), and `drain` is
`Run` between its read error and the end of `closeAllPending`. The server
answers its `inbox` in any order, may ask for a work-done progress token, may
die and may send a frame that does not decode. Framing (`Content-Length`) is
abstracted to frames that decode or do not.

### Extract

A file, source or header, is a content number (0: no such file); `disk` is what
it has, `text` what clangd was given. A payload is a set of facts, each with
the content it was derived from: `ast`, `source` (what the walkers find) and
`symbols` are of the TU itself, `types` (typedefs) and `calls` of the header.
No key of the cache covers the header: `outdated` is the set of the keys whose
payload, if there is one, is of before the last change of the header.
`troubled` says that something failed, timed out or changed under a run;
`CacheMatchesKey` and `QuietSuccessIsComplete` say nothing from then on, as what
such a run leaves in the cache really is wrong (section 3).
`run` is the program counter of `Run` (`plan`, `open`, `links`, `dispatch`,
`acquire`, `join`, `close`), `worker[k]` that of the goroutine of plan `k`.
Every TU declares one function that calls an inline function of `Header`,
which is the case in which a header must be opened by a worker. A request
fails when clangd is dead, when the context is cancelled or when a living clangd
answers with an error (`refuse`), and what the caller of
`Call` does with the error, give up or carry on, is the code's. `cache`
outlives a run; clangd and everything else starts afresh.

### IndexStore

`disk` maps file 0 (`index.db`) and files 1, 2, … (`index-<seq>.db`) to
`absent`, `partial` (schema, no rows) or `full`, and to the rebuild that wrote
them. `step` is the program counter of `main` while it boots and of `onReady`
afterwards; `Swap` is two steps, `SwapPointer` and `CloseHandle`. A handle is
a `*sql.DB`: a pool that was opened on a file and opens further connections by
name. A reader loads the pointer, then queries; `GetSymbol` does so three
times. `ProcessEnds` may strike at any step; only files survive.

### AtomicIndex

One index is served at a time. A read sees the index that is served when it
begins; publishing replaces it by a newer one, and then by the same one again
(from `index.db`); a process that starts may serve any. A read fails only while
an index is being published, or after the one it has loaded was replaced.
`IndexStore` implements it with the handle readers load as the served index
(`ServedIndex`), the steps from the first `Swap` to the second as publishing,
and the readers as calls (`ToolCalls`): a read begins when it loads the handle.
That the pool opens connections by name, and that files are removed and renamed
under it, does not show.

### LiveIndex

The served index is that of one version of the compilation database, never
goes back and never runs ahead. `Daemon` implements it with `latest <- version`.

### Build

A builder is a process that is started again and again with an `-out` of its
own; the builders share the cache root. Input 1 is `compile_commands.json`, the
others are the sources it lists. A file is `absent`, `empty`, `torn` (a copy in
progress), `schema` (tables without rows) or an `index`, which is the contents
it was extracted from. `perFile` is the per-file cache with the content each
payload is of: `extract.Run` digests a file (`PlanTU`), takes a payload filed
under that digest for it, or else reads it once more for clangd (`OpenTU`) and
files the payload under the first digest (`PutTU`). Headers are no inputs here.

| Action | Code |
|---|---|
| `LoadCompDB`, `NoCompDB`, `SumFile`, `Digest` | `LoadCompDB` for the key and in `extract.Run`, `SumFile`, `InputDigest` |
| `LookupHit`, `LookupMiss`, `CopyCreates`, `CopyData`, `CopyFails`, `CopyRenames` | `WholeBuild.Lookup` and `copyFile` |
| `Spawn`, `SpawnFails` | `clangdproc.Start`, seen from `runBuild` |
| `PlanTU`, `OpenTU`, `PutTU`, `Extracted`, `ExtractFails` | the plans of `extract.Run`, its didOpens, its `PerFile.Put`, and its end |
| `CreateTmp`, `CreateCollides`, `CommitTmp`, `CommitFails`, `RenameTmp` | `store.WriteIndexWithFacts` into `.tmp`, and the rename |
| `PutCopies`, `PutFails`, `PutRenames` | `WholeBuild.Put` |
| `Kill`, `Signal`, `Edit` | SIGKILL, `signalCtx`, an editor |
| `ServeConnects`, `ServeEnds` | `runServe`; a connection keeps the file it has opened |

### Process

`pipe` holds clangd's messages; `Reader` is `Client.Run` with the `$/progress`
handler, in two steps because the callback paints before `markIndexed` closes
the channel. `main` is the program counter of `runBuild` from `Start` to the
end of `Stop`, `work` that of each worker between the counter of
`reportProgress` and its callback. `screen` is what the line shows, a frame or
`Clear`, and `closed` counts how often `indexedCh` and `stopTick` were closed.

| Action | Code |
|---|---|
| `Answers`, `BeginsRound`, `Reports`, `EndsRound`, `BeginsOther`, `Exits`, `Cancel` | clangd and signals (external) |
| `ReadsReply`, `IgnoresProgress`, `HandlesProgress`, `MarkIndexed`, `ReaderReturns` | the reader goroutine |
| `Start`, `SpawnFails`, `Initialized`, `InitializeFails`, `OnIndexProgress` | `clangdproc.Start`, `runBuild` |
| `Opened`, `RunFails`, `WaitIndexed`, `WaitTimesOut`, `WaitCancelled`, `ReadsHeaders`, `Counts`, `ReportsTU`, `DropsTU`, `RunReturns` | `extract.Run`, seen from the bar |
| `Finishes`, `ShutdownAnswered`, `ShutdownFails`, `Reaps`, `Kills` | `progressBar.Finish`, in line and deferred; `Process.Stop` |
| `Tick`, `TickerStops` | `progressBar.animate` |

### FnTypes and Facts

A type is the sequence of words, stars and parentheses clang prints; the
definitions of `FnTypes` are the functions of the same names, the regular
expressions being sets of positions. `CanonicalTypes` is the set of results,
one per order in which Go may range over the typedefs.

In `Facts` a program is a sequence of TUs, each an AST of the shape clangd
dumps, its document symbols and its call hierarchy. `Visit` is one call of
`walker.visit` up to its recursion, with the stack of frames as in the code;
`Leave` is its return, which gives the parent its hint after the first child
and restores the enclosing function. `DocSymbol` is one round of the loop over
symbols in `extractTU`; `AddPayload` takes the payloads in any order;
`WriteIndexWithFacts` drops rows without their symbols. `SQLQuery` runs the
join recipe of the schema guide for one indirect call and says whether rows are
missing; `FindAddressTakes` asks the list tool the same, and gets bare rows,
cut at a limit of its own. `TakenForComplete` is what lets a client rely on an
answer: the flag of `sql_query`, and for the list tool only that it got fewer
rows than the limit. A function is identified with its USR, `answers`
are the functions clangd can resolve, and an address take is identified by its
place in the AST. Such a place is a path, the children to descend to from the
root: `NodesOn` are the nodes along it, `Paths` all that a TU has, `NodesIn`
its nodes.

## 3. The runs

| Run | Shows |
|---|---|
| `Daemon_loop` | The whole loop with every fault, and a clangd that may die or break its stream wherever the loop is. Safety: `NoLostPulse`, `RestIsFresh`, `OneClangdAtATime`, `NoSpuriousRestart`, `GaveUpAfterThreeCrashes`. Refinement: `ServesVersions`. Liveness: `CloseTerminates`, `WatchedChangeIsServed`. |
| `LspClient_safety` | With every fault: `OwnReply`, `NoChannelPanic`, `NoPendingLeak`, `WaiterIsKnown`. |
| `LspClient_returns` | With a server that answers or dies and calls that may be cancelled: `EveryCallReturns`, `IndexingSettles`. |
| `Extract_cache` | Two runs over a cache that earlier builds filled; clangd may refuse requests, the index may not settle, a source file or the header may be changed or removed: `QuietSuccessIsComplete`, `CacheMatchesKey`, and in `TypeOK` that no header is opened twice. |
| `Extract_returns` | A first run: a file listed twice, more TUs than workers, clangd may die, the caller may cancel: `RunReturns`, `SuccessCoversPlans`, `NoPhantomCancel`, `EverythingClosed`, `CompleteUnlessClangdDies`. |
| `IndexStore_safety` | Two rebuilds, two readers, the process may end at any step. Refinement: `ReadsAreAtomic`. Safety: `OneOpenHandle`, `NeverHalfBuilt`, `NewestIsOnDisk`. |
| `Build_cache` | Two builds over one cache, with every fault: `NothingTorn`, `BuildIsFresh`, `BlockedOnlyByLitter`, `InterruptedPublishesNothing`. |
| `Process_build` | A clangd that may be quiet, hang, refuse or die, over two rounds of indexing: `EndIsHeard`, `NoClangdLeft`, `LineKeepsOrder`, `BuildReturns`, and in `TypeOK` that channels are closed once and every TU gets a number of its own. |
| `Facts_index` | Every nesting of a small grammar, walked, merged in any order, stored and queried: `ContextIsNearest`, `NoReferenceLost`, `CallerIsInnermost`, `FactsMeetSymbols`, `JoinFindsCallbacks`. |

The type invariants of `Daemon`, `LspClient`, `IndexStore` and `Build` are part
of the inductive invariants that are proved (section 4).

Three runs show where the code does not do what a document or a comment says;
`PROJECT.json` quotes the lines.

| Run | Shows |
|---|---|
| `Daemon_torn` | Reading a `compile_commands.json` that is just being rewritten is an error that is no crash; `Run` ends, and later changes are never served. |
| `IndexStore_stuck` | If the process ends while `index-1.db` is written, the first rebuild of every later process finds the file in its way and fails. |
| `Facts_join` | `normalizeFnPtrType` looks for a blank before the parameters, so the type `void *(int)` of a function that returns a pointer is left as it is, and never equals the `void *(*)(int)` of the call. |

The passing properties are stated so that they say what does hold next to
these: `WatchedChangeIsServed` excepts a loop that ended with an error,
`NeverHalfBuilt` a seed that a crash interrupted, `CompleteUnlessClangdDies` a
clangd that died after `documentSymbol`, `QuietSuccessIsComplete` and
`CacheMatchesKey` what follows a run in which something failed or changed and,
for the facts of a header, payloads that were cached before it was edited (they
are still of one content of it), `BuildIsFresh` a
snapshot that was filed, or a file whose payload was, by a build whose inputs
were changed under it, and `BlockedOnlyByLitter` a
`.tmp` that a kill or a full disk left.

Further disagreements and limits were met, which no run pins down.

- Daemon: a change of the compilation database before the watch is registered
  raises no event (`cmd/clangd-mcp-daemon/main.go:218`), nor does one after the
  watched directory was recreated; if the watch fails, the daemon only logs it
  and serves what it has for ever (`:178`); three attempts are two restarts, not three
  (`daemon.go:102`, `clang-index-architecture.md:190`); after an error that is
  no crash `Close` leaves clangd to the context (`daemon.go:119`).
- Client: `Call` tests `closed` (`lsp.go:213`) before it registers its channel;
  if the reader fails on a garbled frame and drains the table in between while
  the server lives, the call waits until its context ends. The death of
  the server may show as a write error (`lsp.go:231`), which `isCrashError`
  does not know. `Notify` never returns `ErrClientClosed` (`lsp.go:252`). The
  comment at `clangdproc.go:197` says that the client does not reply to the
  server, but it does and must (`lsp.go:150-162`). The first `end` of two
  rounds of indexing releases `WaitIndexed` (`clangdproc.go:193`). A round is
  known by its token or by the title of its begin (`:172-173`), but an end has
  no title: that of a round known by title alone is not heard.
- Store: a reader that loaded the handle before a `Swap` and queries after it
  gets "database is closed" (`store.go:320`); between Remove and Rename there
  is no `index.db` (`cmd/clangd-mcp-daemon/main.go:150`), so a process that ends there starts again
  with an empty index although `NewestIsOnDisk` holds; between Rename and the
  second `Swap` a further connection of the pool finds no file (`:151`);
  `get_symbol` reads three times and may meet a swap in between (`mcp.go:401`);
  `serve` opens further connections by name after a build has renamed a new
  file there (`cmd/clang-index/main.go:192`).
- Extraction: no key covers the contents of headers, an "accepted gap"
  (`cache.go:175-176`, `docs/architecture.md:403-412`): after an edit of a
  header, the payloads of the sources that use it are served as they were.
  A clangd that dies, or refuses a request, after `documentSymbol`, and an index
  that does not settle in time, cost facts silently (`extract.go:498`,
  `:184-186`). A worker that was cancelled or timed out caches its partial
  payload (`extract.go:358-360`); a file edited between its digest and its
  didOpen is cached under the old digest (`extract.go:131`); when a didOpen
  fails the files opened before stay open (`extract.go:133`); two workers may report
  their counts out of order (`extract.go:315-317`), so that the count on the
  progress line steps back and may end below the total (`LineKeepsOrder` says
  nothing of it); the error of the wait for the index is not looked at
  (`extract.go:184-186`), so after a signal Run goes on until `:375`; no request
  of the extraction has a deadline, so a clangd that hangs there hangs `build`.
- Facts: typedefs come from the TUs that were opened, the first one winning
  (`extract.go:229`), and nested ones are substituted in the random order of a
  map (`indirect.go:572`); types that contain `(*` anywhere are not normalised;
  `(p = f) == g` and `h(p = f)` are classed as assignments, the nearest decisive
  ancestor, although the precedence of the category text has comparisons and
  arguments first (`clang-index-architecture.md:271-277`); in `(c ? f : g)()` neither `f` nor `g` is a take, the call
  is an indirect one; a file that is listed twice gives every take twice
  (`schema.go:58`); of several functions of one name all facts go to the first
  (`extract.go:457-463`).
- MCP: `get_indirect_call_sites` ignores `type` when `function_id` is given
  (`mcp.go:302`); the "max 500" of `search_symbol` is not enforced
  (`mcp.go:59`); a `timeout_ms` below one becomes 0 (`mcp.go:358`). The list
  tools cut their answers at 200 rows or the limit given and do not say so
  (`mcp.go:261-275`, `store.go:421-432`), `get_address_take_sites` too, which is
  described as "every recorded address-take" (`README.md:24`):
  `JoinFindsCallbacks` claims nothing of a list answer that is as long as its
  limit.

### Bounds

- `Daemon_loop`: `MaxVersion = 3` allows a change before, during and after a
  rebuild, so that two changes coalesce or one overtakes another;
  `MaxCrashes = 3`, of deaths and broken streams together, is the least with
  which all attempts of `start` fail.
  `Daemon_torn` needs one change and no crash.
- `LspClient_*`: two callers and two calls in total. Two is the least for a
  reply to reach the wrong caller, and a caller can make both calls, so that a
  late reply to the first meets the second. The proofs lift both bounds, and
  likewise those of all other modules.
- `Extract_*`: two or three TUs and two workers, one file that links the
  header and one that does not. Contents are 1 and 2, and 0 for a removed file.
  One header is enough for workers to race for it, and for stale facts of it.
  `Extract_cache` starts with payloads of file content 1, of either content of
  the header; it has two runs, for a cache written by one to be read by the
  other, and one edit, of a source or of the header, for the second to meet
  other contents. Three runs and three edits between them were tried without
  other faults, and two runs with every fault, with the same verdict.
- `IndexStore_*`: two rebuilds (the first replaces the seed, the second an
  index), two readers (one keeps the pooled connection busy so that the other
  opens a new one), two restarts (the second meets what a crash in the first
  restart left). Three rebuilds were tried and give the same verdict.

- `Build_cache`: two builders and two starts in total, either of two builders
  or twice of one, so that one build meets what another or its own predecessor
  left; contents 0 to 2 and two edits, so that an input may move and move back
  between the key, the plan and the didOpen, and a payload filed under a stale
  digest be picked up by a build with another key. The commands are the same in
  every `compile_commands.json`, so that payloads survive its changes. Three
  edits were tried and give the same verdict. One connection of the server is enough,
  since connections do not meet.
- `Process_build`: two workers that report out of order; two rounds, of which
  the second may end before or after the extraction began and reports less
  than the first, under the token `backgroundIndexProgress` or another; one
  report or foreign progress; a pipe of two messages.
  Deadlines may pass at any time, which covers every value of the timeouts.
- `Facts_*`: two files, one with each expression of the grammar in `MC_Facts`
  (assignments, comparisons, calls in callee and argument position, casts,
  initialisers, subscripts and conditionals around one function, nested up to
  three deep), the other with drivers, an overloaded name and a variable;
  clangd does not know either `hook` or `g`. `DefaultRows = 1`,
  `MaxRows = 2` and `ListRows = 2` stand for 500, 5000 and 200, so that answers
  are cut.
  `MaxDepth = 12` exceeds every AST (`DeepestAssumption`). `Facts_join` adds
  functions that return pointers. `Nodes` is the set of the nodes of the
  programs of a run.

`CHECK_DEADLOCK FALSE` is set everywhere because every system here really
stops: the daemon exits, a client whose server died and whose callers are done
rests, a store with nothing to rebuild waits, a build is done, an index is
queried once, and calls, edits and restarts are bounded. That nobody waits for
ever is stated as liveness instead (`CloseTerminates`, `EveryCallReturns`,
`RunReturns`, `BuildReturns`).

### Fairness

- `Daemon`: goroutines run, timers expire, the context kills the process it
  was given to; `main` calls `Close` once the context is done. The build
  system completes a file it rewrites and recreates one it removed. Nobody has
  to change the file, die, signal or call `Close` otherwise. One `WF` covers
  the loop, which is sequential; that extraction returns is `EveryCallReturns`
  and `RunReturns`, whose exceptions (a garbled frame at the wrong moment, a
  clangd that hangs during extraction) stop the loop too. `WatchedChangeIsServed` needs that pulses do
  not push the timer back for ever, which the bounded number of changes
  ensures: with changes more often than every five seconds the code really
  never rebuilds.
- `LspClient`: goroutines run, and the server answers what it was asked and
  ends a progress it was granted; a server whose context is done is killed.
  Dying, garbling, cancelling and starting a call are never forced.
- `Extract`: the goroutine of `Run` and each worker run; every request
  returns, which is `EveryCallReturns` of `LspClient`. Where that fails, after
  a garbled frame, `Run` hangs too unless its context ends.
- `Process`: the reader, `build` and each worker run; a deadline that has
  become the only step left passes. Nothing is assumed of clangd, which may
  never answer, report or exit. A worker that waits for an answer goes on only
  when one comes, or when the client or the context has ended: the requests of
  the extraction have no deadline (`extract.go:200`, `:230`, `:442`). So `build`
  does hang when clangd lives, is silent during extraction and no signal comes;
  `BuildReturns` says that this is the only way (`WaitsForAnswer`).
- `IndexStore`, `Build` and `Facts` state safety only and have no fairness.

## 4. What is proved

`Daemon_proofs`, from `BoundsAssumption` (`MaxVersion` positive, `MaxCrashes` a
natural number), for any set of faults and any place where clangd dies:

- `Invariance`: `Spec => []IInv`. `IInv` is `TypeOK`, `VersionsInv`,
  `ProcessInv`, `CausesInv`, `AttemptsInv` and three of the properties.
  `NoLostPulse` alone is not inductive: that a loop in `select` served what it
  loaded, and that the versions involved are ordered (`VersionsInv`), is needed
  when a version is loaded or published; `ProcessInv` says, for each place of
  the loop, which process is current, which is being stopped and which were
  collected, without which nothing prevents `Spawn` from meeting an older
  clangd. `CausesInv` counts: each start of clangd so far and each that is
  still on its way (an event, a pulse, a tick, a retry, a death nobody has
  noticed) has a change, a crash or a broken stream of its own. `AttemptsInv` does the same for
  the attempts of `start`.
- `NoLostPulseAlways`, `RestIsFreshAlways`, `OneClangdAlways`,
  `CurrentNotStoppedAlways`, `NoSpuriousRestartAlways`,
  `GaveUpAfterThreeCrashesAlways`: the safety properties, from `IInv`.
- `Refinement`: `Spec => ServesVersions`. Every step is a `Change`, a `Publish`
  or a stutter of `LiveIndex`; `Publish` never goes back because `served` is at
  most `readV`, and `readV` at most `version`.

`LspClient_proofs`, from no assumption, for any set of callers, any number of
calls and any faults:

- `Invariance`: `Spec => []IInv`, with `TypeOK`, `IdsInv` (requests in progress
  have ids of their own), `EchoInv` (every request on its way, every reply on
  its way, in the reader's hands or in a channel carries the ordinal of
  whoever waits for its id) and the four properties, which need each other:
  that an id in the reader's hands is no longer in the table gives
  `NoChannelPanic`; `NoPendingLeak` and `WaiterIsKnown` say together that the
  table is exact. (An entry that is made after the drain counts as known, so
  `WaiterIsKnown` does not exclude the hang of `lsp.go:213`, section 3.) One lemma per conjunct, one step per action.
- `Correlation`, `ChannelSafety`, `NoLeak`, `KnownWaiters`: `OwnReply`,
  `NoChannelPanic`, `NoPendingLeak`, `WaiterIsKnown`.

`Extract_proofs`, from `EntriesAssumption` (a sequence that is not empty, in
which files may repeat; the header is none of them), for any set `Linked`, any
`Jobs` and any faults (`BoundsAssumption` only for the last theorem):

- `Invariance`: `Spec => []IInv`, with `TypeOK` and
  - `PlanInv`: how many plans there are at each step of `Run`, and that the
    index stays within the loop it belongs to;
  - `OpensInv`: clangd has every URI open as often as it stands in
    `openedURIs`, and the header once if it is in `openedSet`. It is what makes
    `didClose` close everything and the header never opened twice;
  - `WorkerInv`: workers belong to uncached plans that were passed, and exist
    only while `Run` dispatches or waits;
  - `CoverInv`: a plan that was passed is merged or has a worker, and a worker
    that is done has merged unless the context of the workers is cancelled;
    without it `SuccessCoversPlans` says nothing of the steps before `Join`.
    It also says that `firstErr` is a cancellation only if the caller's;
  - `HitsInv`: plans of one key are all hits or all misses, so that a payload
    that is put into the cache makes none current that was looked up before;
  - `QuietInv`: until something goes wrong, every plan is for the file as it
    is, clangd has that text and that of the header (`QuietRun`), and each worker
    knows what the steps of `extractTU` behind it have asked for (`QuietFacts`,
    `Knows`), so that what it puts into the cache is whole and of the header as
    it is. A payload that was found there is of one content of the header, the
    present one unless its key is in `outdated` (`Matches`).
- `TypeCorrect`, `SuccessCoversPlansAlways`, `NoPhantomCancelAlways`,
  `CacheMatchesKeyAlways`, `QuietSuccessIsCompleteAlways`: the properties of
  the runs, under every fault and for any number of runs and of edits.
- `EverythingClosedAlways`: under the hypothesis that no file vanishes, which is
  where the code really leaves files open (section 3). Invariant: `ClosedInv`.
- `CompleteUnlessClangdDiesAlways`: for one run, in which clangd may die and the
  caller may cancel (`MaxRuns <= 1`, `Faults` within `die`, `cancel` and edits
  outside the run). The hypotheses are those of the property: a second run may
  find in the cache what a cancelled one left there. Invariant: `FirstRunInv`,
  which says what can have gone wrong, and that a success before that is whole.

`IndexStore_proofs`, from `BoundsAssumption`, for any readers, rebuilds and restarts and wherever the process may end:

- `Invariance`: `FilesInv` says which files exist at each step of `openOrSeed`
  and `onReady`, whatever an earlier process left behind; `HandlesInv` which
  handles are open then and on what; `ReadersInv` that readers hold handles of
  this process. `NewestIsOnDisk` needs that the new file is whole before the old
  one is removed, which is `FilesInv`; `HandleMatchesFile` (the file under the
  name of an open handle is the database it was opened on, or is gone) follows
  from both.
- `HandleMatchesFileAlways`, `OneOpenHandleAlways`, `NeverHalfBuiltAlways`,
  `NewestIsOnDiskAlways`.
- `CallsInvariance` and `Refinement`: `Spec => ReadsAreAtomic`. Every step is one
  of `AtomicIndex` or a stutter. A connection that is opened by name reads what
  the handle was opened on because of `HandleMatchesFile`; the first `Swap`
  publishes a newer index because a rebuild is numbered after all that were
  written before, and a read that finds no file has a handle that was replaced
  or is about to be, because `index.db` is there whenever readers are served from
  it (`CallsInv`).

`Build_proofs`, from `InputsAssumption` and `CommandAssumption`, for any builders, inputs, contents and commands and any faults:

- `Invariance`: `FilesInv` says where the whole index of a build is at each step
  and that every copy of it is named by its key; `PerFileInv` that a payload is
  of the content it is filed under, unless a build that was disturbed filed it;
  `QuietInv` that a build nobody disturbs has what is there, or a payload so
  misfiled, and has the key of it; `RunInv` whose a `.tmp` is. `BuildIsFresh`
  needs the first three: a hit is as fresh as the entry is rightly named.
- `NothingTornAlways`, `BuildIsFreshAlways`, `BlockedOnlyByLitterAlways`, and the
  action property `InterruptedPublishesNothingAlways`.

`Process_proofs`, from `TUsAssumption` (there are finitely many TUs),
`PercentsAssumption` and `BoundsAssumption`:

- `Invariance`: `CountInv` (the counter is the number of TUs that have a number,
  which makes `TypeOK`'s claim that no two have the same one inductive),
  `BarInv` (what is on the screen is behind what the bar knows), `StartInv`.
- `TypeCorrect`, `NoClangdLeftAlways`, `EndIsHeardAlways`, and the action property
  `LineKeepsOrderAlways`.

`Facts_proofs`, from the assumptions about programs named in `Facts`: their
ASTs are made of `Nodes` and no deeper than `MaxDepth`, and the callee of a call
has a type and declares no function (`CalleesAssumption`). For any programs of
that kind, any set of functions clangd may not know and any limits of queries:

- `Invariance`: `Spec => []IInv`, with
  - `WalkTypes`, `StageInv`: what the stack is made of, how many payloads there
    are, and that the walker is new for each TU;
  - `StackInv`: the stack is a path from the root, each frame the child its
    parent is at, and a frame that has left its first child has the hint that
    child gives. Without it `ContextIsNearest` is not inductive: what a take
    says is read from the stack;
  - `EnclosingInv`: `enclosing` is the innermost function known on the stack,
    and what each frame keeps to restore is that above it;
  - `VisitedInv`: facts are at places the walker has been at, each once, and
    what it has been at is accounted for. At the end of a walk it has been
    everywhere, which is `NoReferenceLost`;
  - `CallsInv`: an indirect call on the stack is recorded already, because
    `visit` calls `handleCall` on the way down; so a reference below it may rely
    on it;
  - `MergeInv`: the aggregate is the union of the payloads merged so far, and
    edges have symbols.
- `ContextIsNearestAlways`, `CallerIsInnermostAlways`, `NoReferenceLostAlways`,
  `FactsMeetSymbolsAlways`.
- `JoinInvariance`: `Spec => []JoinInv`. `TypesInv` says that the walker never
  learns a typedef it does not have, as all typedefs of the TU are among the
  shared ones, and that the type of each fact is a canonical form of that of its
  node; `AnswerInv` that an answer that a client may take for complete is exactly
  the candidates.
- `JoinFindsCallbacksAlways`: under `TypesJoin(p)` for every program `p`, which
  says that a function and a call that mean the same function type get the same
  canonical form. That is a strong hypothesis, and where the code may fail: it is
  all the join needs of `canonicalizeType`. The theorem shows that nothing else,
  neither the walk, the merge, the rows nor the cut, loses a callback. TLC evaluates it for the programs of
  `Facts_index`, where it holds (`NestedTypesJoin` in `MC_Facts`) but would not
  without `reshapeFunctionTypePointer`; for that of `Facts_join` it is false,
  which is the finding.
- `NormalizeIsIdempotent`: `normalizeFnPtrType` applied again changes nothing,
  for any type, as the comment of `canonicalizeType` says (indirect.go:560-562).
- `FunctionMeetsPointer`: a function type is brought into the form of the pointer
  to it if, and only if, its return type does not end in `*`, whatever words its
  return type and parameters are made of, as long as they have no parentheses.
  So the finding of `Facts_join` is about every function that returns a pointer.
- `JoinFindsPlainCallbacks`: for programs without typedefs whose functions take
  and return no pointers to functions and return no pointer, `TypesJoin` is not
  assumed but proved, from `FunctionMeetsPointer` and `NormalizeIsIdempotent`;
  what is left as hypothesis is that clang prints different function types
  differently.

What the model computes along a path or a sequence (`NodesOn`, `Paths`,
`InCalleeSubtree`, the nearest call) needs induction over data. The induction
theorems of the library take the predicate as an operator, which the provers
cannot instantiate, so that `Induction` derives what is needed from
`NatLessThanWellFounded`, where the predicate is a set: naturals have a least
element, what holds at 0 and is handed on holds up to n, and a set of numbers up
to n has a greatest one.

The proofs are laid out alike: facts about the data first, then one lemma per
part of `IInv` with one step per action, then the theorems. Every `IInv`, and
`ClosedInv`, `FirstRunInv` and `JoinInv`, was checked with TLC on the bounds of the
component's runs before it was proved.

Model-checked only:

- the liveness properties (`CloseTerminates`, `WatchedChangeIsServed`,
  `EveryCallReturns`, `IndexingSettles`, `RunReturns`, `BuildReturns`): fairness
  and ENABLED are beyond the provers;
- what the functions of `FnTypes` compute, but for `NormalizeFnPtrType`: they are
  folds over sequences of words. The proofs about `Facts` hold whatever they
  return; that canonical forms join (`TypesJoin`) with typedefs in them is
  checked on the types of `MC_Facts`.

## 5. What is not modelled, and why

- HTTP and stdio transports, flags and logging: plain input and output; the
  end of a transport is the fault `signal` of `Daemon`.
- How a frame of the progress bar is drawn (`renderBar`, `renderScanner`), and
  the static texts of categories and of the schema guide.
- The bytes of the protocol, of the digests and of SQL: `LspClient` has
  frames, `Extract` and `Build` contents, `IndexStore` versions, `Facts` rows.
  Digests are taken to be free of collisions.
- Signatures, documentation and declaration places of symbols; decoding of
  clangd's AST dump; `callee_expr`, which is only shown.
- Bounded pipes between client and clangd, on which the automatic reply of the
  reader can block (`lsp.go:156`); the zombie that a failed handshake leaves
  (`NoClangdLeft` excepts it); failing Remove, Rename and second `Swap`; WAL
  side files.
- `build` with the cache disabled (the same without `Lookup` and `Put`) and two
  builds with one `-out`, which share a `.tmp`.
- `ForceIndexed`, which only tests call; full-text search and the other
  queries; timeouts of queries.

## 6. Plan

Modules are in the order of the importance of the behaviour; all but 11 are done.

1. `Daemon` and `LiveIndex`, with proofs. The heart of the daemon.
2. `LspClient`, with proofs. Everything else talks through it.
3. `IndexStore`. What MCP clients see.
4. `Extract` with the per-file cache.
5. `Build`: `clang-index build` with the whole-build cache, and `serve`.
6. `Process`: `Start`, `Stop`, `WaitIndexed` and progress in several rounds,
   with the progress bar.
7. `FnTypes` and `Facts`: from the AST to the answers of queries.
8. `IndexStore_proofs`: for any number of readers, rebuilds and restarts.
9. `Extract_proofs`: for any list of files and any `Jobs`.
10. `Build_proofs` and `Process_proofs`: for any builders, inputs, edits, TUs
    and rounds; `Daemon_proofs` extended to restarts and attempts.
11. `Daemon` with its `publish` step refined by `IndexStore`, and bounded pipes
    in `LspClient`. Left to do.
12. `Facts_proofs`: for any programs. What `Facts` computes with folds was
    restated so that a proof can unfold it.
13. `AtomicIndex`, and the proof that `IndexStore` implements it.
