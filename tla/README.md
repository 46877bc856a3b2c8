# no-pilot in TLA+

no-pilot is an MCP server in Go: it gives an agent tools that run commands, edit
files, search, and fetch web pages, and restricts them by policy files. This
directory holds TLA+ models of the parts of it that keep state or run
concurrently, the TLC configurations that check them on small instances, and
proofs that TLAPS checks for every value of the constants.

- `tlc -config X.cfg M` checks a run; the table of runs below names `M` for each `X`.
- `tlapm MProofs.tla` checks the proofs about module `M`.

Paths below are relative to `src/`.

## 1. Inventory

The server answers each tool call in a goroutine of its own (the MCP library's
stdio server hands calls to a pool of workers), so any two handlers may overlap.
What they share is the registry of terminal sessions, the policy in force, the
files on the disk, a cache of fetched pages and the record of the last test run.

| component | state | operations | concurrent with |
|---|---|---|---|
| **terminal sessions** `internal/terminalstate/state.go` | registry `sessions`, `lastID`, `manualLast`; per session `running`, `exitCode`, `output`, `stdin`, `done` | `StartWithOptions`, `Wait`, `GetOutput`, `Send`, `Kill`, `LastSnapshot`, `ListSnapshots`, `Store`, `Reset`; goroutines `wait` and those that copy output | other callers, the command and its descendants, timers |
| **terminal tools** `internal/tools/execute/{run_in_terminal,get_terminal_output,send_to_terminal,kill_terminal,list_terminals}.go`, `read/terminal_last_command.go` | none of their own | one handler each; the byte range of an output; the listing | as above |
| **configuration watcher** `internal/config/watcher.go` | policy in force, watched directories, debounce timer | `NewWatcher`, `loop`, `reload`, `refreshWatchDirs`, `Policy`, `Close` | editors of the files, the kernel's events, the timer |
| **policy loading and merge** `internal/config/config.go` | none | `Load`, `merge`, `mergePolicy`, validation | edits of the files between its reads |
| **policy enforcement** `internal/policy/policy.go` | none; reads the policy in force | `Enforce`, `EnforceWithPaths`, `EnforceWithCommand`, `EnforceWithURL` | reloads |
| **file tools** `internal/tools/edit/*.go`, `execute/run_notebook_cell.go`, `execute/create_and_run_task.go` | texts, notebooks, `tasks.json` | edit, rename, create, edit and run notebooks, update tasks | each other; writes fail |
| **test runs** `execute/run_tests.go`, `test_state.go`, `test_failure.go` | the last run and its failures; coverage profiles in the directory of temporary files | run, look up | each other; the test runners |
| **web fetch** `internal/tools/web/fetch.go` | cache of pages by URL | fetch, conditional fetch, extraction of text | each other; the web server; the client's timer |
| **read and search tools** `internal/tools/{read,search}/*.go` | none | read, list, search | – |
| **server and startup** `main.go`, `internal/server/server.go`, `*/register.go` | none | build, serve | the library's worker pool |
| **logging, test helpers** | log level | – | – |

How they interact: `main` builds the watcher and the server; each registered
handler is wrapped in a middleware of *policy enforcement*, which asks the
*watcher* for the policy of its tool, once for each check; the handlers of the
*terminal tools* call *terminal sessions*; `execute_createAndRunTask` first is a
*file tool* and then starts a session.

What is hard, and what makes each component correct:

- *Sessions.* Starts, kills, sends, waits and the end of the command interleave
  at every lock. Correct: the registry never loses a process; the end of a
  session is one event (exit code, complete output, closed stdin, no process
  left, all visible together); answers that say "completed" are final; `Kill`
  succeeds only when the session is over; whoever waits is woken.
- *Output window.* The kept output moves under a client that pages by offset.
  Correct: it is exactly the end of what was written; ranges are exact.
- *Watcher.* Files change while they are read, while events wait behind the
  timer, while `Close` runs. Correct: no change that was reported is
  lost, and when nothing is under way, and none went unreported, the policy in
  force is that of the disk.
- *Merge and enforcement.* Each field has a rule of its own for merging, and one
  call reads the policy several times, also for files that only its walk comes
  to. Correct: layers only restrict; an answer, and each write, is justified by
  a policy that was in force during the call.
- *File tools.* Reads and writes of overlapping calls, truncation before a
  write, writes that fail half-way. Correct: a refused call wrote nothing, a
  successful one did what it says, no file is left empty, ids stay unique.
- *Readers of the registry.* A listing collects the sessions under one lock and
  looks at each under another, while they start, end, and fail to start.
  Correct: none that was there is left out, and no half of an end is told.
- *Test runs.* Calls overlap for as long as their runners take. Correct: the
  record is that of one run, the latest in the sense that overlapping allows; a
  coverage summary counts the profile of its own run.
- *Web fetch.* A call looks at the cache twice, with the network in between. The
  text of a page is filtered before it is stored. Correct: an answer is a
  version of the page that was there during the call; its body is what the
  options say; a call returns though the web server stalls.

`PROJECT.json` lists every hazard at its line with the properties that cover it.

## 2. Modules

```
SessionLifecycle   what a client is promised of a session (abstract)
   ^ implemented by
TerminalState ---- MCTerminalState, TerminalStateProofs
   ^ extended by
TerminalListing -- MCTerminalListing, TerminalListingProofs
OutputWindow ----- OutputWindowProofs
ConfigWatcher ---- ConfigWatcherProofs
PolicyMerge <----- PolicyEnforcement ---- MCPolicyEnforcement, PolicyProofs
FileTools -------- MCFileTools, FileToolsProofs
PageText <-------- FetchCache ---- MCFetchCache, FetchCacheProofs
TestRuns --------- MCTestRuns, TestRunsProofs
```

An `MC` module gives values to constants that a `.cfg` cannot write down. A
`Proofs` module EXTENDS its component's module and holds theorems only. An
operator whose comment calls it a *mutant* is a plausible bug in the definition
after it and part of no specification: exchanging the two makes the property
that `PROJECT.json` names fail, which shows that the property can fail.

### TerminalState, SessionLifecycle

One step of a caller is what the code does under one hold of a lock, or one call
into the operating system. `pc[c]` says where the handler is; `arg`, `mode` and
`todo` are its locals.

| code | actions |
|---|---|
| `StartWithOptions` | `CallStart`, `Register` (under `mu`, before `cmd.Start`), `Exec` or `ExecFails`, `Unregister` |
| `Wait`, `handleRunInTerminal` | `WaitLookup`, `WaitDone` / `WaitTimeout`, `WaitSnap`, `StartSnap` |
| `GetOutput` | `CallGet`, `GetSnap` |
| `Send` | `CallSend`, `SendCheck`, `SendWrite` / `SendFails`, `SendSnap` |
| `Kill` | `CallKill`, `KillCheck`, `KillStdin`, `KillPoll`, `KillSignal` / `KillSignalFails`, `KillDone` / `KillTimeout`, `KillSnap` |
| `Store`, `Reset` | `Store`; `CallReset`, `ResetOne`, `ResetReturns` |
| `session.wait` | `WaitProcess`, `WaitCopiers`, `WaitErrText`, `WaitPublish`, `WaitClose` |
| `sessionOutputWriter.Write` | `Copy` |
| `os/exec`, the kernel, the command (external) | `Write`, `ReadStdin`, `Fork`, `ChildExit`, `ShellExit`, `ShellDies`, `Signal` |

`cmd.Wait` is two steps, as in `os/exec`: the shell is reaped (`WaitProcess`),
then the goroutines that copy its output are awaited (`WaitCopiers`), which
ends only when no process holds the pipes. A descendant of the shell is one
Boolean, `child`. Output is a number of bytes; stdin a number of unread lines,
and a write to a full pipe blocks.

`SessionLifecycle` is the promise: a session is free, starting, failed, running
or exited; output grows while it runs; its exit code comes with all of it
complete and input closed, and never changes. `Lifecycle == Promised!Spec`
is the refinement, with the mapping at the end of `TerminalState`.

### TerminalListing

`ListSnapshots` and `LastSnapshot` beside all the calls of `TerminalState`: a
reader collects ids under `mu` (`CallList`, `CallLast`), takes one snapshot after
the other (`Look`; `LookFails` when `LastSnapshot` finds its session gone), and
answers (`Answer`). `Other` is any step of `TerminalState`, with the start time
of a session that is made in it: milliseconds, of which two sessions may have
the same, and `sort.Slice` is not stable, so every order of those is an answer.
`live` is history: the sessions whose command was started when the call began.

### OutputWindow

`appendOutput` (state.go:306) and `sliceOutputBytes` (get_terminal_output.go:80):
`output` is a sequence of the numbers of the bytes it holds. `Poll` is a client
that asks for what follows what it has.

### ConfigWatcher

Three parties: whoever edits files and directories (`Change`, `ChangeOther`,
`MakeDir`, `RemoveDir`), the watcher's goroutine, and the timer. A load is
`ReadUser`, `StatProj`, `ReadProj`, `Install`, with the failures that keep the old
policy. `NewWatcher` goes on with `WatchUser`, `WatchProj`, `Refresh`; `loop` is
`TakeTimer`, `TakeEvent`, `TakeDone`. `watches` is what the kernel reports on,
`watchedDirs` what the watcher believes: the two differ once a directory was
removed. What a file holds is one of some policies, an unparsable text, no
bytes, or no file.

Files and directories may change from the first load on, and the kernel has room
for `QueueSize` events. So a change may have no event to report it: before the
watches are added, in a directory that was made or made again, or with the queue
full, which reaches the watcher as an error that it logs (watcher.go:136). The
history variable `missed` has the files changed so and not read since. The
properties say that nothing else keeps a change from being loaded: it is not lost
behind another event, behind the timer, or in the middle of a load; and that the
project's directory, unlike the user's, is watched from then on.

### PolicyMerge, PolicyEnforcement

`PolicyMerge` has the operators: `MergePolicy` is `mergePolicy` field by field,
`Merge` and `Load` put the layers together, `Passes(pol, call, i)` is the
i-th check of a call by the middlewares and handlers (each tool has its list,
`Checks`). Globs are a relation `Matched` between patterns and arguments;
`Embedded` says which command a command wraps. `PolicyEnforcement` runs callers
through their checks one by one while `Reload` replaces the configuration, and
then the handlers of the edit tools through their files: `edit_createFile` and
`edit_editFiles` write the files they were called with (`Write`), and
`edit_renameSymbol` comes to the files of its walk in any order and looks each up
in `deny_paths` before it writes it (`Visit`, `Write`), under the configuration of
that moment. A call may return at any point of this, as it does at an error.
`seen[c]` is history: the configurations in force since the call began. What the
files hold is `FileTools`' subject.

### FileTools

A file is a list of items (strings of a text, cells of a notebook, tasks). A
call reads its files and computes (`ReadOne`, `RefuseOne`), then writes
(`OpenWrite`, `FinishWrite`, or `OpenFails`, `WriteFails`): `os.WriteFile`
truncates in one step and writes in another. `edit_renameSymbol` reads and
writes file by file (`Visit`, `Skip`, `WalkEnds`); `edit_createFile` and
`edit_createNotebook` open with `O_EXCL` (`OpenCreate`, `RefuseCreate`).
`before`, `wrote`, `disturbed` and `failed` are history. Two overlapping
writes of one file leave the later one or a mixture, `Broken`; so may a write
that fails in the middle. The run of a notebook's cells gives each cell
the code that ran up to it as its output. A denied path is one constant set
here; that the policy may change during a call is PolicyEnforcement's subject.

### PageText, FetchCache

`PageText` is the text that is made of a page: the nodes of a selector
(`IncludedNodes`), what is below them and neither excluded nor hidden
(`NodeText`), the lines that match the query and the cut to `maxChars` (`Text`). A
page is the sequence of the nodes of its tree in document order, as the parser
makes them (`IsPage`); the words of a text node are a set. `collectMatchingNodes`
and `collectText` are one recursion over first children and next siblings
(`Collect`), with what is taken and what is left out as its parameters. The
module's second part says the same without a recursion over the tree: a line is
the text of a node whose path to an included node is clear (`VisibleLines`,
`IsTextOf`). The two agree for every page, by proof (below); `MCFetchCache` also
compares them on all trees of four nodes below the document.

`FetchCache` is `handleFetch` for one URL, and the web server, which changes the
page (`Publish`), also back to an earlier version, and sends a full response or
a 304 (`Serve`).

| code | actions |
|---|---|
| options, the first look at the cache, the request (fetch.go:123-181) | `Request` |
| `client.Do` fails | `DoFails` |
| a 304 and the second look (192-201) | `AnswerCached` |
| content type refused (203-206) | `RefuseType` |
| the body breaks off, or stalls until the timeout (208-211) | `ReadFails` |
| the text, the entry and the answer (213-240) | `Store` |

`stored`, `shown` and `raced` are history: the requests whose text was put into the
cache, the versions shown during a call, and whether another call stored an entry
meanwhile. ETags are modelled; `Last-Modified` is
used in the same way. Titles, redirects and the parsing of HTML are left out.

### TestRuns

A run of tests: `CallRun` or `RefuseRun`, the runner itself (`Runner`, external, or
`RunnerNotFound`), `SetLastTestRun`, `Return` with the deferred removal of the
coverage profile. `CallTestFailure` is `execute_testFailure`. Runs are numbered
in the order in which they begin; a runner's output is known by whether it has
lines that tell of failures, which do not need to agree with its exit.
`recorded`, `before` and `ends` are history.

## 3. Runs

| run | module | what it checks | distinct states |
|---|---|---|---|
| SessionsOne | MCTerminalState | the end of a session is one consistent event; refinement of SessionLifecycle; what must happen, under fairness | 263 272 |
| SessionsTwo | MCTerminalListing | the registry under starts that fail, and what its readers say of it meanwhile | 1 553 021 |
| Output | OutputWindow | the window and its ranges | 162 |
| WatcherSync | ConfigWatcher | no reported change is lost, loads converge, `Close` returns | 222 594 |
| Policies | MCPolicyEnforcement | merge, answers and writes under reloads, what there is of the guard of the policy file | 393 734 |
| Files | MCFileTools | the file tools, two at a time, with failing writes | 3 817 149 |
| Fetch | MCFetchCache | bodies, freshness and return of fetches that share a cache entry | 270 402 |
| Tests | MCTestRuns | the record and the coverage profiles of overlapping runs | 214 035 |
| KillTerminates | MCTerminalState | finding, section 4 | (violated) |
| WatcherDirs | ConfigWatcher | finding | (violated) |
| PolicyEdit | MCPolicyEnforcement | finding | (violated) |
| FilesTwice | MCFileTools | finding | (violated) |

Beside these, `SessionsSafety.cfg` (MCTerminalState, 482 028 states) is SessionsOne
with a second byte of output, `Store` at any time and no liveness, and six
configurations show the remarks at the end of section 4.

Bounds, and why they are enough:

- *SessionsOne*: one session, two callers, one byte of output, a pipe of one line,
  every call and every failure. Sessions share nothing but the registry, so one
  suffices for what happens to a session; two callers give every pair of
  concurrent operations on it; a byte arrives before or after any step (with the
  two of SessionsSafety, before and after); one line makes the second send block.
  `Store` happens before the first start only (`StoreFirst`): what it does to a
  registry with sessions in it is the subject of SessionsTwo. Without symmetry,
  which is unsound for liveness.
- *SessionsTwo*: overlapping starts need two sessions and two callers, and the
  reader is a third; of output, one byte is enough to tell a complete one, and
  descendants do not matter to the registry.
- *Output*: limit 4, chunks to 5, 11 bytes: chunks that stay below, meet, cross
  and exceed the limit, twice over.
- *WatcherSync*: three changes: one that is being read, one that is reported, one
  behind the timer; or two that fill the queue of two events and one that finds no
  room. They come at any time from the first load on, and the user's directory may
  be missing, made and removed. Two policies, one without self-protection, and
  every kind of broken file.
- *Policies*: five files (silent, disabling, allowing, two with lists), in each
  position, two reloads: before, in the middle of, and after a call, or before and
  after a file of a walk. A walk has two files, one of them the policy file or a
  denied one. A call reads nothing that another call writes, so one caller is
  enough.
- *Fetch*: two callers, since a third could only store an entry as the second
  does; three versions (two with an ETag, an error page without one), so that
  an entry may be replaced and brought back; two requests that differ in each
  option, one of them with limits that cut the page, one with a content type
  that the error page has not. The number of calls is not bounded.
- *Tests*: two callers, three runs: two that overlap and one that begins in
  between or after them; two names, so that one that is left behind (its runner
  was not found) leaves one to reuse, and two leave none.
- *Files*: two callers, three calls: two that overlap and one after them, which
  finds what they left.

The runs that set `CHECK_DEADLOCK FALSE` do so because the system really may
stop: bounded input ends, commands need not write, clients need not call.

### Fairness

`TerminalState`: weak fairness of each handler's next step, of timers, of the
`wait` and copying goroutines, and of the death of a process that was sent
SIGKILL. The Go scheduler runs every runnable goroutine, `time.After` fires, and
the kernel delivers SIGKILL. There is none for the command (it may hang, or
never read or write) nor for clients. `ConfigWatcher`: the goroutine and the
timer; none for editors. `FetchCache`: the handler's next step once a response
is there, and the timeout of the `http.Client`, which covers the connection, the
redirects and the body; none for the web server, which may never answer.
`TestRuns` has no liveness, and rightly so: a call waits for its runner without a
clock. The other modules have safety properties only.

## 4. Findings

Each is a `violation` run: TLC shows a behaviour of the code that a comment, a
tool's description or the documentation denies. What it denies is quoted in
`PROJECT.json`.

- **KillTerminates** – `Kill` signals the shell only (state.go:237). A descendant
  that holds the output pipes keeps `cmd.Wait`, and the session, running.
- **WatcherDirs** – the directory of the user's file, made while the program
  runs, is watched only once its creation was taken as an event (watcher.go:131),
  which starts no reload: a file written meanwhile stays unread. `HotReload` is
  stated for changes made after `NewWatcher` has returned, and two changes do not
  fill the queue: the counterexample is about the directory alone.
- **PolicyEdit** – `edit_editFiles` goes through `policy.Enforce` (edit_files.go:43),
  not `EnforceWithPaths`, and its handler asks for `deny_paths` alone
  (edit_files.go:67): it writes the policy file, though "no edit tool may ever
  write project policy" (policy.go:150-151).
- **FilesTwice** – two edits of one file in one call are both computed from the
  old content (edit_files.go:60-86), so the second write undoes the first, while
  the answer counts both as applied.

The following are remarks of the same kind, each with a configuration that TLC
finds violated when it is run by hand:

- `PolicyRename.cfg` (MCPolicyEnforcement) – `edit_renameSymbol` is behind
  `EnforceWithPaths`, which guards the file and the root it is called with. Its
  walk asks for `deny_paths` alone (rename_symbol.go:93) and so rewrites a policy
  file below the root.
- `WatcherRemade.cfg` (ConfigWatcher) – a directory of the user's file that was
  there from the start, removed and made again, is never watched again, since
  `watchedDirs` still has it (watcher.go:205). `HotReloadAgain` is stated for a
  directory that is there, and nothing changed, until `NewWatcher` has returned;
  three changes do not fill the queue of this run.
- `LastCommand.cfg` (MCTerminalState) – a start that fails has put its id into
  `lastID` and clears it (state.go:122) rather than to restore the one that was
  there: `read_terminalLastCommand` then answers nothing, though a session that
  was started before is tracked. Synthetic snapshots (`Store`) are not needed for
  it: they hide sessions too, as the comment on `LastSnapshot` says.
- `FetchFilter.cfg` (MCFetchCache) – after a 304 the cached text is answered
  whatever the query, selectors and limits of the call (fetch.go:192-201): lines
  that do not match the query are returned. `BodyExact` is what holds: a cached
  body is as a call asked whose text was put into the cache before.
- `FetchPlain.cfg` (MCFetchCache) – plain text becomes one line
  (`normalizeWhitespace`, fetch.go:298-300), so a query keeps all of it or
  nothing, although the tool promises "only matching text lines" (fetch.go:35).
- `TestsNotFound.cfg` (MCTestRuns) – a run whose runner is not found returns
  before the record is made (run_tests.go:80-84): `execute_testFailure` goes on to
  tell of an earlier one. `FailureIsLatest` is what holds: nothing older than a
  run that was recorded when the latest began.

Of "no edit tool may ever write project policy", `PolicyFileGuarded` is what the
code keeps: for the arguments of the edit tools behind `EnforceWithPaths`, for the
writes of `edit_createFile`, and for commands in a terminal.

A run whose runner is not found also leaves its coverage profile in the directory
of temporary files (run_tests.go:80-87); nothing promises that it does not, so no
run says so.

## 5. Proofs

Every theorem below holds for all values of the constants that meet the named
assumptions of the modules (`TerminalAssumption`, `WatcherAssumption`, ...), any
number of callers and sessions, and without the bounds' being small.

- **TerminalStateProofs.** `TypeCorrect`, `RegistryCorrect`, `CompletedCorrect`,
  `ExitStays`, `CompletedReplyCorrect`, `KillCorrect`, `Refinement`,
  `NoProcessLost`. None of the safety properties is inductive: that an exit code
  implies complete output depends on where the `wait` goroutine is. `IInv` adds
  that: `SessionInv` ties `waiter[s]` to the state of the process and to each
  published field; `StartersInv` says that a caller between `CallStart` and the
  end of the start owns its session alone (that is what makes `Unregister`
  remove the right entry); `ArgOK` that a caller past its lookup has a session.
  `RegistryCorrect` is about `lastID` alone: that it names a registered session or
  none, which a failed start has to see to, and none under a synthetic snapshot.
  It does not say that every reader finds a session: one that has read `lastID`
  and let go of `mu` may not (`LookFails`, state.go:252-262).
  One lemma per group of actions shows that each part is kept. `Refinement`
  maps initial state to initial state and every step to a step or a stutter,
  from `IInv`. `NoProcessLost` assumes `"reset" \notin Ops`: `Reset`, which only
  tests call, gives sessions up.
- **OutputWindowProofs.** `TypeCorrect`, `TailCorrect`,
  `PagesCorrect`, `SliceCorrect`, for every limit and chunk size. `IInv` is their
  conjunction with `offset <= Len(output)`; lemma `Suffix` is the arithmetic of
  cutting a window, `SliceBytes` that of a range of it.
- **ConfigWatcherProofs.** `TypeCorrect`, `NoChangeLostCorrect`,
  `QuiescentCorrect`, for any number of changes, at any time, of files and
  directories, any depth and any length of the kernel's queue. `SyncInv` says, beside
  `NoChangeLost`, that the project's directory is watched once the watcher believes
  so (it is always there, so its watch never goes), that a load that saw a stale
  `fileExists` is followed by another, and that outside a load the policy in force
  is what the last load read unless it was rejected.
- **PolicyProofs.** `LoadAdmits` is about operators alone: for every two files
  and every call, the merged configuration admits what both admit. `TypeCorrect`,
  `MergedCorrect`, `AnswersCorrect`, `WritesCorrect` and `PolicyFileKept` are about
  `PolicyEnforcement`. `Justified` adds to `AnswersJustified` the checks that a call
  still under way has passed; `Writing` says that what a handler has written, or
  is to write without another look-up, was permitted by a configuration of its
  call: for a walk by the look-up itself (`Visit`), for the other edit tools by
  the checks they passed (`TargetsPermitted`). `PolicyFileKept` follows: a check
  that passed for some configuration excludes the policy file, since the guard
  (`PathsGuard`, `CommandGuard`) does not depend on the configuration, and
  `edit_createFile` writes its arguments only. It says nothing of the edits of
  `edit_editFiles` nor of the files that a rename only comes to.
- **TerminalListingProofs.** `ReadersOnlyLook`: with its readers the detailed
  specification is implemented still, so whatever is proved of `TerminalState`
  holds beside them. `ListingHolds` (without `Reset`) uses `IInv` of
  `TerminalStateProofs` and two facts that are kept by every step: a snapshot once
  taken stays true of its session (`SnapshotStays`), and what was collected and
  not yet looked at is apart from what was (`ReaderInv`).
- **FetchCacheProofs.** `TypeCorrect`, `TextCorrect`, `BodyCorrect`, `FreshCorrect`,
  for any pages, ETags and requests, any number of callers and of changes of the
  page.
  `TextCorrect` is about operators alone: for every page, what `Text` makes of it
  is what `IsTextOf` describes. What the proof rests on is document order: the
  path of a node is a chain (`PathFacts`), what is below a node is an interval
  (`Contiguous`), so what is below one child comes before what is below the next
  (`Siblings`). By it the recursion collects, at every node, an ascending sequence
  of exactly the nodes it should (`UnderSplit`, `FromOnSplit`, `Collected`), and there
  is only one such sequence (`AscInOrder`). Without document order the claim is
  false, as small trees show. Inductions are made on the least node, or
  place, where a claim fails (`Least`); that the recursive functions exist at all
  is shown by extending a function on a part of the nodes by one
  (`PathStep`, `SiblingsStep`, `Along`). That what is read of a page, its first
  `maxBytes`, is a page again is `CutPage`.
  `BodyCorrect` follows with `BodyInv`: what is kept in the cache and what is
  answered was made by `Text` of one version: an answer from the server for the
  options of its own call, the entry and a cached answer for those of a call in
  `stored`. For
  `FreshCorrect`, `Known(c)` has to be added: unless `raced[c]`, the ETag that was
  sent is the entry's; a 304 that was received proves that a version with that
  ETag was shown during the call. ETags are assumed to tell versions apart
  (`FetchAssumption`).
- **TestRunsProofs.** `TypeCorrect`, `LatestCorrect`, `CoverageCorrect`, for any
  number of callers, runs and names. `RunsApart` says that a run under way has a
  number of its own that is not recorded, `HistoryKept` that what was recorded
  before a run began stays so.
- **FileToolsProofs.** `TypeCorrect`, `RefusalCorrect`, `DeniedCorrect`,
  `EmptyCorrect`, `CreateCorrect`, `IdsCorrect`, `DoneCorrect`, for any files, calls,
  edits per call and number of callers.
  Lemma `UpdatedType` says that a change that applies makes a document of a
  document. `IInv` ties a caller's `pc` to `pending` and `wrote`: who still reads
  its edits has written nothing and has one pending write per edit read; every
  pending write is to a file that was permitted. `NoEmptyFile` is then kept by
  each step: the writer of an empty file stays until it has written
  (`WriterStays`), and a file becomes empty by being opened (`WriterComes`).
  `CreateCorrect`: a file that was created is never absent again (`NoneRemoved`), so
  the second creator finds it; `CreateInv` says that no creator is at `"write"`.
  `IdsCorrect`: each kind of change keeps ids unique (`UpdatedUnique`), and since
  a write is computed before it is made, `UniqueInv` speaks of pending writes too.
  It assumes ids unique at first. `DoneCorrect`: `DoneInv` says of each step of a
  call which files it has passed over, which of those it owes, and what it leaves
  in every file that no other call has written: `AnsweredIsDone` is its case of a
  call that owes nothing. It needs a walk to visit each file once (`FileAssumption`).

Only model-checked: the liveness properties, since fairness and ENABLED are beyond
the prover. Every invariant and every action property of the runs that pass is
proved. `ExitIsStable` (`ExitStays`) follows from `Lifecycle`, so no run repeats it.

## 6. Not modelled

- Errors of fsnotify (watcher.go:136) other than a full queue: logged, without
  effect on the state.
- Error exits that leave the state as it was: of `cmd.StdinPipe` (state.go:94-97),
  and of `MkdirAll` and of `OpenFile` other than that the file exists
  (create_file.go:46-48, 55; create_notebook.go:42-51). Those of `NewWatcher` and of
  `watchPaths` (watcher.go:42-61, 178-192) end the program before it serves.
- `nearestExistingDir`, the stat and `fsw.Add` of a directory are one step
  (`WatchUser`): a directory that is removed between them goes unwatched, or
  makes `NewWatcher` fail.
- A text that is `Broken` (two overlapping writes, or half of one) is refused by
  every tool here; `edit_editFiles` edits whatever bytes it finds
  (edit_files.go:71-85).
- Commands are followed into those they embed as deep as the code follows them
  (`maxCommandHopDepth`, policy.go:66); that a deeper one is not checked is
  deliberate and no property says otherwise.
- YAML, glob and shell syntax, request ids, log lines, durations and formatting.
- Directories that the file tools make on the way, modes of files, and files
  that are renamed or removed by others during a call.
- Read and search tools, and the readers of notebooks: each reads files or runs
  a program once, keeps nothing, and formats what it got. There is no state, no
  order of steps and no second actor to go wrong with. `edit_createDirectory` is
  one call of `os.MkdirAll`.
- Parsing of HTML, titles and redirects in `fetch.go`. `Cut` counts lines, the code
  bytes: a cut through the middle of a character is not seen.
- The pool of workers that serves the calls: it is part of the MCP library, and
  nothing in the repository tells its size or what it does when it is full. That
  synchronous commands could occupy all of it is listed as a hazard without a
  property.
- Logging and test helpers.

## 7. What is left

Every component that keeps state or runs concurrently is modelled, and every
safety property of the runs is proved. What could be added are
larger instances of the liveness runs: two sessions at once, whose only bond is
the registry.
