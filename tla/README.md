# modot: TLA+ models of a dotfiles, codebase and tool manager

modot is a dotfiles, codebase and tool manager written in Go. This directory
holds TLA+ specifications of the parts of it that keep state, TLC
configurations that check them on small instances, and TLAPS proofs of the
properties that matter most for every instance. Paths like `executor.go:107`
refer to the Go sources of the repository (`internal/deployer/executor.go`).
`PROJECT.json` maps each definition to the lines it models.

## 1. Inventory

| component | state | operations | what is hard | what makes it correct | module |
|---|---|---|---|---|---|
| **deployer + dotfiles.Manager** (`internal/deployer`, `internal/dotfiles`, `cmd/modot/home/apply`, `cmd/modot/codebase/apply.go`) | the target files, `state.json` (target -> SourceInfo), the loaded state and plan | load, drop ignored keys, plan, hooks, execute in parallel, save | parallel tasks on nested paths; failure of some tasks; death between execute and save; edits meanwhile; two applies | a successful run converges; `state.json` says what is owned; only owned or desired paths are touched; retries settle | Deployer, Ledger, FileTree |
| `internal/apply` (dconf) | marker file, dconf database | marker as a target, After hook | the hook runs after the marker is on disk, its failure is only logged | loaded settings follow the marker | Deployer |
| `internal/atomicfile` | destination, temp sibling, `.old` sibling | Write, CreateSibling, Install, ReplaceDir | crash between two renames, concurrent writers | old content until the new one is complete | FileTree, SourceCache, SelfUpdate |
| source cache | a directory per key | fetch into a temp directory, swap in | in-process mutex only, crash while swapping | an entry is whole or absent, and stays for its readers | SourceCache |
| **`internal/modfile`** (`modot.lock.json`), `internal/tool` | the lock file of a workspace | load, refresh, resolve a tool, upsert, write | read-modify-write by several commands without a lock; lookups between load and write | a pin stays; what runs is what is pinned | SumLock, Commands |
| source providers (GitHub) | rows of the lock, a cache per machine | list tags page by page, choose the newest, pin, overlay the lock on a source | names that move upstream, pages that shift, machines with caches of their own | the newest tag is pinned; what is pinned is read | SourcePins |
| **daemon** (`cmd/modot/daemon`) and its clients | connections with reader, pump and bounded channel; restart flag | dial, check the binary, run, stream, restart | a full channel, a vanished client, a new binary while busy | a command runs once; calls return; success means done | Daemon, Commands |
| **`internal/lsp`** | servers per language, open documents, pending requests | start lazily, replay, fan out, ask, merge, shut down | a goroutine per notification, late answers, failed starts, shutdown under a mutex | answers belong to their requests, edits arrive, nobody hangs | LspProxy |
| **`internal/source`** | the files of a tree | render, mount, place, merge, absorb | Go map order; overlapping targets; conflict rules | nothing lost or invented; refused exactly on conflict; at most one file per path | Compose |
| **configuration** (`internal/configcue`, `internal/module`) | the compiled value | discover layers, compile three times, join modules, scan them | files saved between readings; two resolvers of one reference | a load is of one disk; a module comes whole; paths agree | Configuration |
| `internal/icons`, core module | a theme per fingerprint | fingerprint, render in parallel, swap in | edits between fingerprint and generation; failed or killed runs | what is deployed matches what was asked for | IconTheme |
| `internal/backup` | working trees, branches, a remote, task pools | clone, commit, rebase, push; transfer through a pipe | users and other hosts at the same time; interruptions; nested tasks | nothing a user wrote is lost; the command returns | GitSync, Backup |
| self update, self install | the installed binary, a shared download directory | build or download, replace, chmod, shim | two updates at once, kills | the binary can always be run | SelfUpdate |
| history | a table, the old program's table | record, ingest, import, list, search | two imports, rows recorded meanwhile | imported once and in order; what is listed is the newest | History |
| `internal/sudo` queue | a file per slug | enqueue, approve, reject | enqueue while an approval runs, kills | a command waits until it was run, rejected or replaced | SudoQueue |
| `internal/nix`, `system apply`, `utils nix` | systems, profiles and their generations, nodes | build here or elsewhere, ask for the switch, clean up; deploy | the world moves while a command waits for the operator | what runs late is still meant; a node gets what was asked for | NixHost, Deploy |
| `internal/checks` | tools, findings, annotations | detect, run, decode, annotate | tools that fail or vanish; diffs that look like headers | a review shows exactly the findings on added lines | Checks |
| drivers, text, templates, shell generation, palette, cas, command line, other commands | none of their own | conversions, adapters over other programs | | see "Not modelled" | - |

How they interact: a command loads the CUE configuration (Configuration),
refreshes `modot.lock.json` (SumLock, SourcePins), builds the tree of desired
files through the source pipeline (Compose, with the theme of IconTheme and
sources from SourceCache), and hands it to `dotfiles.Manager`, which drives
planner, executor, hooks and state store (Deployer). Lazy tools are pinned in the
same lock. A client may have its command run by the daemon (Daemon); the
composition of both is Commands. What needs root goes through the SudoQueue, as
NixHost does.

The hazards of each component, at the line where they bite, are listed in
`PROJECT.json` with the properties that cover them.

## 2. What is modelled

Each module keeps the code's control flow: a process has a program counter whose
values are the phases named below, an action is one handler or one call that
others can see, `Fail` and `Kill` are the error returns and the death of a
process, and bookkeeping variables, which no action reads, record what a
property has to know of the past. Operators marked `Mistake` are mutated forms of
the definition below them; no specification uses them, they show that the
properties fail when the code has the corresponding bug.

### FileTree.tla
The file system as the deployer uses it: one node (absent, directory, regular
file, symbolic link) per path, the relation `Below`, and the effect of
`MkdirAll`, `Remove`, `RemoveAll`, `Symlink` and `Rename` with their failures.
A regular file is one value standing for permission bits and content;
`DirPerm` are the files whose permission bits equal a directory's (0755), which
the planner can tell apart from a directory only by reading them.

### Deployer.tla
One apply is a process `p` that walks `pc[p]` through `Manager.Apply`:

| phase -> action | code |
|---|---|
| resting -> `Begin` | the command reads the configuration and builds the tree (`home/apply/root.go:59-98`) |
| load -> `Load` | `StateStore.Load`, `DropIgnored` (`manager.go:109-120`) |
| plan -> `MakePlan`, `RejectPlan` | `Planner.Plan`, counting, early returns for no changes and dry run (`manager.go:122-170`, `planner.go:42-159`) |
| before -> `StartExecute` | Before hooks; the executor drops noops and queues tasks |
| execute -> `StatOrphan`, `RemoveOrphan`, `MkdirParent`, `ClearTarget`, `PlaceLink`, `OpenTemp`, `CommitTemp`, `FailTask` | the calls of `applyFS` (`executor.go:120-185`) and of `atomicfile.Write`, each task of each path on its own |
| execute -> `FinishExecute` | `taskgroup.Map` returns; patches are applied if no task failed (`executor.go:201-217`) |
| after -> `AfterHooks` | all After hooks, their errors only logged; then the verdict (`manager.go:184-195`, `root.go:105-127`) |
| save -> `Save` | `StateStore.Save` |
| any -> `Abort`, `Crash` | an error return of a phase; the death of the process |

The environment acts too: `UserEdit` changes a target, `Reconfigure` changes
the configuration, between runs or during one. `quiet[p]` and `disturbances`
are bookkeeping of the model: whether anything outside the run touched the
targets since it began, and how many failures and edits happened so far.
`PlanOne` is `planOne` branch for branch (missing, `--no-cache`, bundle fast
path, difference, ignored, not adopted, noop), `PlanFails` the case in which its
read fails.

The operators marked as mistakes (`KeepIgnored`, `TrustSource`, ...) are mutated
forms of the definition below them. No specification uses them; they show that
each checked property fails when the code has the corresponding bug.

### Ledger.tla
The abstract specification: `state.json` as a ledger on which each run is a
transaction. A run takes a snapshot of the configuration, and either commits
exactly the ownership of that snapshot or leaves the ledger alone.
`Deployer!ImplementsLedger` is the refinement, with
`ledger <- saved`, `snapshot <- cfg` and `running` the processes not at rest.

### DeployerProofs.tla
The TLAPS proofs, section 5. `SourceCacheProofs`, `CommandsProofs` (which also covers
SumLock and Daemon), `LspProxyProofs` and `SourcePinsProofs` extend the module they are
named after. `WorkspaceProofs` and `MachineProofs` prove the invariants of the components
that `Workspace` and `Machines` hold, and `PartsProofs` the theorems about `Parts`.

### SourceCache.tla
`EnsureCachedDir` for one key and, step by step, `atomicfile.ReplaceDir` under
it: three directories (`dest`, `dest.tmp`, `dest.old`) that are missing,
incomplete or complete, the calls `t` of some processes, and one mutex per
process. `Ask` is the first look outside the mutex, `Recheck` the second; then
`ClearTemp`, `MakeTemp`, `Fetched` or `FetchFails`, and the calls of ReplaceDir
(`PurgeOld`, `Probe`, `SetAside`, `Wipe`, `InstallNew`, `Restore`, `Tidy`).
`Faults` says which errors an instance explores; a rename also fails for the
reasons the directories give (missing source, target in the way). `had` and
`spoilt` are bookkeeping: what the call found when it took the mutex, and
whether a rename of `dest` or of `dest.old` ever failed. `MCSourceCache.tla`
instantiates it, `SourceCacheProofs.tla` holds its proofs. The icon module
(`internal/module/provider/core/base16_icons.go:158-190`) follows the same
protocol without the mutex.

### MCDeployer.tla
The instances: paths `a`, `ab` below `a`, and `c`; values `d1`, `d2` (deployed
contents), `u` (a user's), link `l1`; SourceInfo `s1`, `s2` and the bundle `b1`;
and the sets of configurations of each run.

### SumLock.tla, Daemon.tla, Commands.tla
`SumLock` is the lock file of two workspaces (where a command runs, and the
dotfiles) and the commands that change it: `run` of a lazy tool
(`ResolveLazyToolAt`), `refresh` of apply and plan (`RefreshWorkspaceLocks`) and
`lock` (`GenerateLock` with force).

| phase -> action | code |
|---|---|
| ensure, create -> `EnsureFiles`, `Create` | `EnsureLockFile`: stat, then an empty file (`files.go:10-20`) |
| load, tools -> `Load`, `LoadTools` | `LoadSumFile` and what is kept of it (`runner.go:44-57`, `lazy.go:94-129`) |
| resolve -> `Resolve` | the lookups upstream, together |
| resolve, update -> `UpdateLoad`; write -> `UpdateWrite` | `updateSumFile`: load again, upsert, rename (`sumops.go:8-27`) |
| install -> `Install` | the store installs the version that the command runs |

`seen` and `late` record the rows that others wrote since a command decided and
since it loaded: the properties say that a pin is lost in no other way.

`Daemon` is the daemon and its clients: `client` is where `TryRemoteRaw` is, `conn`
a connection with its reader, channel (`out`), pump and context, `daemon` the
process with the binary it runs and the restart flag, `disk` the binary on disk.
`CheckTime` and `CheckHash` are the two comparisons before a command is served.

`Commands` composes them: a command is run by its client or by the goroutine of a
connection, dies with the process it is in, and the client learns of its end
through channel and socket, if at all.

### SourcePins.tla
What a source of GitHub is pinned to. `Begin` is the decision of
`GenerateLockWithConfig` (reuse or resolve) or of a reader (`Overlay`);
`ListTags` one page; `NewestTag` the choice among all pages; `EnsureSource` the
cache of this machine or a download; `Pin` the row. Upstream moves tags, branches
and the default branch at any moment (`Point`, `Rename`), and modot.cue changes
between commands (`Edit`). Versions are compared as `newerThan` does, by numbers,
then pre-releases, or as strings; the property states the order by itself, on
versions spelled out (`Spelled`). A name of 7 to 40 hexadecimal digits looks like a
commit to the code (`HexTags`): in modot.cue it is one, and a tag of such a name that a
pattern chose leaves the default branch in the row (`TrackingRef`).

### LspProxy.tla
The loop of the router and everything that runs beside it. `pc` is the function
the loop is in: `read` (`loop`), `start`, `init`, `greet`, `replay` (`ensureLanguage`,
`initializeBackend`), `route` and `call` (`forwardRequest` and its merge), `close`
(`closeAll`), `done`, and `failed` for a read error, which returns without `closeAll`
(`proxy.go:53-57`). `srv[s]` is a server process with its read loop, its pending
request, its pipe, `full` or not, and what it was told; `tasks` are the goroutines
that fan a notification out, each on its way to some servers. The servers answer
late, in error or never, crash, print what is no message, ask for configuration, and
stop reading. Every write to a server, a request's (`backend.go:183`) as well as a
notification's, waits while the server runs and its pipe is full (`Blocked`): the
timeout of a request bounds the wait for its answer only.

### Compose.tla
`discover` (templates) -> `mount` -> `place` -> `merge` -> `done`, or `refused`
for a conflict, `failed` for anything else. Files, mounts and recorded paths are
taken in any order, as Go maps are. The library that merges (`lewkit/x/compose`)
is external: what agrees is what is equal. A link found among fragments gives an
empty line (`Line`): `fileMember` hands the library an empty copy of it. `OneFilePerPath` is what
`Deployer.PrefixFree` assumes of its input, except for the case it names.

### Configuration.tla
`discover` -> `inputs` -> `base` -> `join` -> `scan` -> `done`, one action per
reading of the disk, so that a file saved in between is seen by the later ones
only. A CUE value is a set of facts, a field and a value; unification is their
union, which fails when two facts give a field different values. Three readers
resolve references: the loader for module files, the module scanner for template
files, and `runtime.inputs` for paths. `read` records what each reading of a
`modot.cue` gave; a file is `Torn` when it did not read the same each time, and
`Denoted(disk)` is the value that a load has to reach when it reads `disk` only.

### IconTheme.tla
One command at a time: `stat` -> `clear` -> `colors` -> `collect` -> `render` ->
`walk`; the masters and rasters are rendered in any order (`Render`,
`Rasterize`), which empties the file, and what was painted is written by `Write`,
over what other tasks put there meanwhile or mixed with it. `Install` is the swap,
whose steps SourceCache has. A content is the master, its time and the colors it was
painted with, a file the set of contents it has something of, so that a theme mixed
from two runs shows, and a file mixed from two masters.

### GitSync.tla and Backup.tla
`GitSync` is a sync of each of several hosts with one remote: `look`, `wipe`,
`clone`, `head`, `commit`, `ask`, `pull`, `push`. A commit is what it adds and
what it deletes; whether two lines of commits conflict is left open. Users write
and delete at any moment. `Backup` is the command around it: actions in their
pools, the transfer that an rsync action nests in the pool of I/O, and the pipe
with the goroutine that scans it.

### SelfUpdate.tla
`build` or `list`, `fetch`, `fetching`, `install`, `chmod` or `stat`, then
`replace`, `shim`, `clean`. A binary knows who still has it open for writing and
whether a writer stopped halfway; a rename moves it with its writers.

### History.tla
The table in the order of its ids. `Record` is a command of the shell,
`LoadEvents` and `BatchRecord` an ingestion, `BeginImport`, `Commit` and
`Rollback` the transaction of the import; `List` and `PreferCwd` are what `list`
and `search` show, defined as the code computes them (the rows in SQLite's order, the
newest of them collapsed one by one) and compared with a definition by sets.

### SudoQueue.tla and NixHost.tla
`SudoQueue`: a file per slug, approvals (`run`, `remove`) of several operators,
rejections, kills. `NixHost` composes it with the two commands that enqueue:
`build`, `back` (copied from a builder), `ask`; and with what the rest of a
machine does meanwhile: edits of the flake, new generations, rollbacks,
collections of garbage, a restart.

### Deploy.tla
Per node: `build`, `copy`, `choose` (the action, from the nixpkgs that runs),
`look`, `switch`. Nodes restart and may be deployed to by two commands.

### Checks.tla
`detect` (one tool after another), `run` (linters in parallel, formatters in
turn), `done`. `Outputs` says what a tool may print (whole, cut off, noisy with or
without brackets in the noise, nothing) and `Decode` what each codec makes of it;
`Section` is what git writes of a file, whose name has a tab after it if it holds a
blank and is quoted if it holds more than ASCII (`Header`), and `DiffLines` reads a
diff line by line, as the code does; `AnnotateIfApplicable` puts both together.

### The instances
`MCDeployer`, `MCSourceCache`, `MCCommands` and `MCLspProxy` instantiate one
component. `MCLive` holds the two components whose liveness is checked on an
instance of their own. `Workspace` holds instances of what a command makes of a
workspace (Compose, Configuration, IconTheme, SourcePins, Checks) and `Machines` of what
happens on machines (GitSync, SelfUpdate, History, SudoQueue, NixHost, Deploy, Backup).
Both leave the constants of the parts open, with the assumptions that the proofs use;
`Lists` has the one operator these need. `Parts` puts the two side by side, since they
share no state: a behavior is one of the part chosen at the start (`part`), the others
rest, and every property is the one of its module under that condition. `MCParts` gives
the constants their values, and the `...Cases` modules hold the inputs of the larger
parts.

## 3. The runs

| run | instance | properties | result |
|---|---|---|---|
| Tree | 1 process, paths a, a/b, c, all options, 3 disturbances of any kind | Converged, CommitsWholeApply, TouchesOnlyItsOwn, UpdatesInPlace | hold, 768,482 states |
| Pair | 2 processes, apply and plan, 1 disturbance | ImplementsLedger | holds, 1,030,156 states |
| Live | the deployer applying a home configuration, 3 disturbances; or 2 calls of the source cache, all faults; with fairness | Settles; Whole, FailureKeepsCache, HitsStay, EveryCallReturns | hold, about 106,000 states |
| Commands | 2 clients, 1 tool, 2 aliases of one repository, every pair of commands, 2 releases, 1 new binary, 1 failure or interruption; with fairness | PinsStay, RunsPinned, RefreshPins, NotTwice, OkMeansDone, CallsReturn | hold, 342,592 states |
| Lsp | 2 servers, one shared by 2 languages, 4 messages of the editor, 1 crash, garbled message, question or full pipe of a server; with fairness | OwnAnswers, EditsArrive, NoOrphans, Returns | hold, 935,809 states |
| Parts | Compose, Configuration, IconTheme, GitSync, SelfUpdate, History, SudoQueue, NixHost, Deploy, Checks, Backup, SourcePins | SaysAll, Settled, OneFilePerPath; LoadIsAtomic, ModuleWhole, RefsAgree; ThemeMatches; NothingLost, Saved, OnlyUsersDelete; Runnable; ImportedOnce, Listed; Waits; StillMeant; Deployed; Annotated; BackupReturns; Pinned | hold, 1,547,422 states |
| Dconf | home configurations that differ in the settings | DconfLoaded | violated |
| Prune | the tree configurations with crashes | PruneNeverBlocked | violated |
| Exec | a directory becomes an executable | DirectoryReplaced | violated |
| CacheShared | 2 processes, no faults | NeverTruncated | violated |
| CommandsRestart | 2 clients of the daemon, 1 new binary, no failure | Restarts | violated |
| Entry | Configuration with one module that enables another | EntryNamesModules | violated |

What they say:

- **Converged**: a run that reports success and was not interfered with has
  brought both the tree and `state.json` to its configuration, although its
  tasks ran in any order and the starting point may be the leftover of a crash,
  a failed run or an edit. It depends on the prefix-freedom that compose
  enforces, on a prune failing on a non-empty directory, and on the second
  `MkdirAll` inside `atomicfile.Create`.
- **CommitsWholeApply**: `state.json` is rewritten only after an execution
  without failed tasks and then holds exactly what the configuration owns.
- **TouchesOnlyItsOwn**: a removed path was owned when the run loaded the
  state, is not desired and not ignored; a replaced one is desired or below a
  desired one; a created directory is above a desired path.
- **UpdatesInPlace**: a regular file desired as a regular file is there at
  every moment of its update.
- **ImplementsLedger**: refinement of Ledger, with two processes.
- **Settles**: after finitely many disturbances, repeated applies bring targets
  and `state.json` to the configuration for good.
- **Whole**, **FailureKeepsCache**, **HitsStay**, **EveryCallReturns**: within one
  process the cached directory is missing or complete, is not lost by a call
  that fails, is replaced under its readers only by an apply with `--no-cache`,
  and no error path keeps the mutex. `Whole` and `FailureKeepsCache` hold until a
  rename of `dest` or `dest.old` fails (`spoilt`): then the code falls back on
  removing `dest` file by file, or has to give up the restore.
- **PinsStay**, **RefreshPins**: nothing guards the lock file, and pins do get
  lost; the properties say when, namely only if another command wrote the row
  between the load and the write of this one, or between its decision and its
  write. **RunsPinned**: the version installed is the one in the lock, unless
  another command replaced it since.
- **NotTwice**, **OkMeansDone**, **CallsReturn**: whatever breaks, a command that
  the daemon has begun is not run again by its client, a client that reports
  success has had its command run to its end, and every call ends.
- **OwnAnswers**: a late answer never passes for the answer to a later request.
  **EditsArrive**: every live server of a language hears of the current version
  of an open document, though with overlapping notifications perhaps not last.
  **NoOrphans**: a server process that runs is registered or being initialized, so
  a failed start leaves none, and none runs after exit or the end of the editor's
  stream; a read error of another kind does leave the registered ones running, and
  the property says so. **Returns**: the loop comes back to the editor unless it is
  in a write to a server that runs and does not read, which nothing bounds in time;
  the shutdown is held up only by a server that runs and does not answer or does not
  read, or whose read loop ended.
- **SaysAll**, **Settled**, **OneFilePerPath**: the composed tree holds all files
  and nothing else whatever the order of maps; it is refused exactly when two
  files do not agree; no path has two files or one above another. The line of a link
  among fragments is empty, for its copy is read (`compose_dest.go:434`, `:857`).
- **LoadIsAtomic**, **ModuleWhole**, **RefsAgree**: although files are read up to
  three times, the value is that of one disk; CUE and templates of a module come
  from one directory; `runtime.inputs` names the directory that a mount reads.
- **ThemeMatches**: a deployed theme is the one that configuration and masters ask
  for, after any failed, killed or concurrent-with-edits run. A file that two masters
  share, one at the root and one in the default context, may hold something of both:
  their tasks empty and write it at the same time (`theme_generate_engine.go:151`,
  `:179`). Every other master has one painting in all its sizes.
- **NothingLost**, **Saved**, **OnlyUsersDelete**: a sync destroys nothing that a
  user wrote, what was pushed stays, and no sync deletes on its own.
  **BackupReturns**: the command never gets stuck in its pools.
- **Runnable**: whatever update, failure or kill, the installed binary is whole
  and executable. **ImportedOnce**, **Listed**: the import comes once, in order and
  first; lists show what the rows say.
- **Waits**: an enqueued command waits until it was run, rejected or replaced.
  **StillMeant**: what an approval runs is still there and still obsolete.
  **Deployed**: a node gets what was asked for, and `auto` never switches to
  another nixpkgs under a running system.
- **Annotated**: a review shows exactly the findings on added lines of files whose
  names git writes plainly, of every tool whose output can be read, however it exited.
  The reader of diffs takes the tab and the quotes for the name (`review.go:177`), so
  nothing is shown for the other files, and eslint's output is lost after noise with a
  bracket in it (`eslint.go:86`).
- **Pinned**: no tag that was there all along is newer than the one in the row, and
  every machine reads what is locked. If the newest tag looks like a commit, the row
  names the default branch, which no pattern matches: readers fail and the next refresh
  resolves again (`provider.go:66`).

Most of these name exceptions. They are not conveniences: each is a case in which
the code does otherwise, found by the run when the exception is left out, and it
stands in the comment of the property.

The six violations are disagreements between the code and what the
repository says of it; `PROJECT.json` quotes both sides:

- *Dconf*: the hook that loads the settings is skipped when another task of the
  run failed, while the marker is already written; the next apply sees a
  converged marker and never loads them.
- *Prune*: a crash after a file was replaced by a directory of deployed files
  leaves an owned key whose prune fails on every later apply.
- *Exec*: the planner reads a directory as a file when its permission bits are
  the desired ones, and the whole plan fails.
- *CacheShared*: the mutex is per process and the temp directory is not, so a
  second process empties the directory that the first one is about to install.
- *CommandsRestart*: the handler that should exec the new binary waits for a pump
  that nobody ends, so the daemon answers DAEMON_RESTARTING for ever.
- *Entry*: a module file can enable another module, whose files are then deployed.

Others are named as exceptions without a run of their own: a transfer whose
output has a line beyond 64 KiB hangs the backup (Backup); an interrupted clone
makes the next sync push deletions (GitSync); a release without the executable bit
is bare between rename and chmod (SelfUpdate); and `mod lock` without `--no-cache`
pins what the cache of this machine holds, although `runner.go:47` says it always
re-pins (SourcePins).

### Bounds and why they are enough
- Deployer: two nested paths and one apart are the smallest tree in which a prune,
  a `MkdirAll` and a `RemoveAll` of different tasks meet, and in which a file turns
  into a directory and back. Three configurations cover: file to directory, file
  to link, ignored, no longer desired, bundle, same SourceInfo with other content.
  Three disturbances allow a crash, a configuration change and an edit before the
  last run; they bound failures, not the number of runs. Pair uses two paths and
  one disturbance because the interleavings of two runs multiply; the theorems
  below cover any number of processes and paths.
- The instances respect what the commands can do: `home apply` has a dconf marker
  and no ignore rules, `codebase apply` has ignore rules and no marker.
- Commands: two commands are what a race needs; the scenarios are every pair on a
  full lock, two runs without a lock, and a run with a refresh that both pin the
  tool, one client asking the daemon and the other not, or both asking it. A
  channel of capacity 1 with one packet of output is full as soon as a result
  follows (`ChanCap` 1, `MaxOutput` 1; the code has 1000). `MaxVersion` 2,
  `MaxBinary` 1, `MaxBreaks` 1.
- LspProxy: `MaxMsgs` 4 is initialize, open, change and a request or shutdown;
  `MaxEvents` 1 is one crash, garbled message, question or pipe that fills up. Two
  servers, one bound to two languages, are what merging and sharing need.
- Compose: any 3 of 19 files with each of 4 configurations, and two of 7 mounts
  with at most one file: nesting, fragments, links and templates meet in pairs. The
  files hold the cases that failed proofs asked for (section 5).
- Configuration: nested directories with and without git, modules local, in an
  input and core, one file saved during the load (`MaxEdits` 1); among the disks are
  one whose layers share a module file and one whose references are not spelled out.
- IconTheme: `MaxDisturbances` 1, one edit or kill; with 2 it holds as well.
- GitSync: two hosts, 3 edits, 1 deletion, 2 syncs, 1 interruption, from every kind
  of path; it also holds with 4 edits and 3 syncs.
- SelfUpdate: 2 processes, 2 starts, 2 releases, 1 kill. Backup: 3 actions, 1 slot
  for I/O, 2 lines. History: 3 rows, 2 old ones, 2 seconds, 2 imports. SudoQueue: 2
  slugs, 2 operators, 3 commands, 1 kill. NixHost: 1 user, 1 operator, 2 commands,
  2 profiles, 3 generations, 1 move of the machine. Deploy: 2 deploys of one node,
  3 revisions with 2 nixpkgs, 1 restart. Checks: 2 tools, 1 edit.
  SourcePins: 2 machines, 5 tags on pages of 2, one of which looks like a commit, 2
  commands, 1 move upstream or edit.

### Fairness
- Deployer: the operator keeps starting plain applies (weak fairness of `Begin`
  with `PlainApply`), and a started run and its tasks are scheduled, which the Go
  runtime and taskgroup do. No fairness is assumed of failures, crashes or edits,
  and none that a call succeeds. The paths are not nested there, because of the
  findings Prune and Exec: with them an apply can fail for ever.
- SourceCache: the steps of a call are weakly fair (goroutines are scheduled, a
  fetch returns), and taking the mutex is strongly fair: `sync.Mutex` hands over to
  a starving waiter.
- Commands: each goroutine is weakly fair by itself, the client's dial, the
  command, the handler's reader, the pump, and the handler's return. Nobody has to
  write, fail, interrupt, publish or replace.
- LspProxy: the loop, the goroutines and timers are weakly fair; servers need not
  answer, nor read.
- Parts states safety only; `BackupReturns` uses ENABLED for the absence of a
  deadlock.

## 4. Abstractions

- Deployer: planning reads all targets in one step. The executor acts later on a
  tree that may have changed, so staleness between plan and act is kept; staleness
  between the reads of one plan is not. `Lstat` and `RemoveAll` before a write are
  one step, and `RemoveAll` is atomic; the prune's `Lstat` and `Remove` are two.
  Writing the temp file is one step, `CommitTemp`, or a failure with the old node
  kept; temp files have no node of their own, and the chmod after the rename does
  not fail. Symbolic links point to files. A directory's permission bits are 0755.
  `Save` is atomic, because it writes with atomicfile. A file's mode and content
  are one value. The ignore rules are those of one moment per run. The GTK reload
  hook changes no modelled state; a failing Before hook is an `Abort`.
- SourceCache: one key; `RemoveAll` of `dest.tmp` and `dest.old` is one step, of
  `dest` two; what a fetch writes into a directory that another process made is
  left as that process has it.
- SumLock: parallel lookups are one step. A source is pinned to some commit from
  the first to the newest, as the cache may be old. The guard against a shrinking
  lock cannot fire, since upserts never remove a row. The two workspaces are
  different. Of a row only its ref and its pin.
- Daemon: delivery on the socket is immediate; environment and session, the tray's
  command and history events are left out. A writer that stays blocked on a full
  channel does so only when its client is gone.
- SourcePins: one command at a time (the races are SumLock's), one row, a tarball is
  its commit, Renovate's fields are left out. No pattern matches a branch.
- LspProxy: a conforming editor that reads what it is sent; the servers that can be
  written to get a notification in the step that looks them up, the others when they
  read again; a message is written as a whole or not at all, and the first one, the
  initialize request, finds its pipe empty; a request is registered when it can be
  written; a killed process is gone at once. Notifications from servers, which are
  passed on, are left out. Once `Run` returns the model stops: what becomes of
  servers that it left running is not followed.
- Compose: the merging library is external, one profile is visible per mode, what a
  template renders to is left open, contents are tokens. Left out of its properties:
  links aimed below the profile directory, and templates that only a mount brings.
- Configuration: `..` in paths, the split of versions at `@`, and validation of rows
  are not modelled; a mount of a directory does not look whether it exists.
- IconTheme: one command at a time (two share `<fingerprint>.tmp`, as in
  CacheShared); the palette's arithmetic is a token; the rules of a Go map come in
  any order.
- GitSync: git is external; two syncs of one repository on one host exclude each
  other by git's index lock.
- Backup: notifications and dry runs are left out; git actions are GitSync's.
- SelfUpdate: unpacking is external; a private temp file of atomicfile is left out,
  since nobody else knows its name.
- History: SQLite's isolation is what the code relies on. Ingesting bash twice
  makes rows twice; SPEC.md:119 is not checked of it.
- NixHost, Deploy: nix and switch-to-configuration are external; profiles lie in one
  directory.
- Checks: of a line only how it begins, of a finding no column and no message; the
  tree under review is the commit under review. What formatters do to files is
  left out.

## 5. Proofs

`DeployerProofs.tla` proves, for every set of processes and paths, every
`Below` that is a strict transitive order, every set of prefix-free
configurations, and any bound on disturbances (the assumptions
`BelowAssumption`, `NodeAssumption`, `ConfigAssumption` and
`EnvironmentAssumption`, which TLC evaluates in the runs):

| theorem | statement |
|---|---|
| `Inductive` | `Spec => []IInv` |
| `TypeCorrect` | `Spec => []TypeOK` |
| `PlanOnly` | `Spec => []PlanOnlyReports` |
| `WholeApplyCommits` | `Spec => CommitsWholeApply` |
| `OnlyItsOwn` | `Spec => TouchesOnlyItsOwn` |
| `FilesUpdatedInPlace` | `Spec => UpdatesInPlace` |
| `AppliesAreIdempotent` | `Spec => Idempotent` |
| `RefinesLedger` | `Spec => ImplementsLedger` |
| `CalmInductive` | `Spec => []CInv` |
| `ApplyConverges` | `Spec => []Converged` |

`SourceCacheProofs.tla` proves, for any number of calls in one process
(`OneProcess`; with two, `Whole` is false as CacheShared shows) and any set of
faults:

| theorem | statement, given `OneProcess` |
|---|---|
| `CacheInductive` | `Spec => []IInv` |
| `CacheWhole` | `Spec => []Whole` |
| `ErrorsKeepCache` | `Spec => FailureKeepsCache` |
| `HandedOutStays` | `Spec => HitsStay` |

Its `IInv` is typing (`TypeOK`), mutual exclusion (`Mutex`) and what the holder knows of the three
directories at each point: `dest.tmp` is its own (`OwnTemp`), a swap was asked
for (`Missed`), and what it found is in `dest` or in `dest.old` (`Kept`).

The argument for Deployer. `TypeOK` is not inductive: `CommitTemp` installs
`cfg[p].want[q].val`, which is a file only if `q` is desired, and `Save` commits
`st[p]`, which is right only if it was patched by the plan made from it. `IInv`
adds, per process, what one phase hands to the next: after `Load` no ignored key
is owned (`Loaded`); after `MakePlan` the plan writes only desired paths, prunes
only owned ones, and its patches turn `st` into `OwnedBy(cfg)` (`Planned`);
tasks move only along their plan (`Working`); an execution without failures has
patched (`Executed`). `PlanPatches` and `NoWorkOwned` are the two facts about
the planner behind it. The action properties and the refinement follow from
`IInv` and the effect of one call (`HowItWrites`).

`Converged` needs more: `CInv` adds, for a run nobody disturbed (`quiet`), that
it runs alone, that what planning found equal is still there, and that what
its finished tasks wrote is still there (`Progress`). The heart is
`SparesOthers`: in a prefix-free plan no call made for one path undoes what
another one needs, since a desired path is never above or below another, and a
prune removes neither a non-empty directory nor a desired path.

TypeOK, PlanOnlyReports and Idempotent have no run: the theorems cover them for every
instance.

`CommandsProofs.tla` proves, for any clients, locks, commands, output, capacity
of the channel and number of interruptions, replaced binaries and ended daemons
(`SameNames`, `ScenarioAssumption`, `LockAssumption`, `DaemonAssumption`):

| theorem | statement |
|---|---|
| `SuccessIsTrue` | `Spec => []OkMeansDone` |
| `NobodyRunsTwice` | `Spec => NotTwice` |
| `WhatRunsIsPinned` | `Spec => []RunsPinned` |
| `PinsAreKept` | `Spec => PinsStay` |
| `RefreshLeavesPins` | `Spec => RefreshPins` |

The first two follow from one invariant, which ties the three places that know of a
command: the packets on their way to a client, what the client knows, and where the
command is (`Agree`). An `ok` in the channel means that the command is done; a
`DAEMON_RESTARTING` that nobody begins it, while the client still waits; a request
not looked at that it has not begun. From the commands it needs only that none
starts by itself or leaves its end (`Steady`), which holds of every step of SumLock.

The other three are about the lock file, which nothing guards. `RowsInv` compares what
a command holds with the file at that moment, but for the rows that others wrote
meanwhile, `late` since it loaded and `seen` since it decided (`Fresh`). A run is
looking up or has pinned its tool and nothing else (`Running`); a source has a pin
that matches what is asked, or the row of the file where it may be reused (`Sources`);
a refresh goes to its tools when every source is as some alias asks (`Phases`).

`LspProxyProofs.tla` proves, for any servers, languages, documents, bindings and
bounds:

| theorem | statement |
|---|---|
| `NobodyOrphaned` | `Spec => []NoOrphans` |
| `AnswersAreOwn` | `Spec => []OwnAnswers` |
| `EditsAlwaysArrive` | `Spec => []EditsArrive` |

`NobodyOrphaned` covers every end of the loop: after exit and the end of the stream
none runs, and the exception, a read error, is a message of kind `broken`.
NoOrphans is not inductive: it says nothing of the list that closeAll works off.
`Covered` adds that every registered server is in it until it is closed, and
`Registered` that a process that runs is registered or at the head of the list of
servers to be started; the rest is that no operation of a Backend starts a process,
and that the loop fails on a broken message only (`Handling`).

OwnAnswers rests on the numbers of a Backend's requests being used once (`Numbers`):
everything a server still has to say carries a number below `next`, so what carries
the number of the pending request is about the message that the loop handles (`About`,
`Calls`).

EditsArrive has two ways in which a server comes to know a document, and the invariant
follows both. A notification is due to the servers its goroutine has not been at,
or that have to read before it can be written (`Carries`, `Proper`, `InTurn`), or the document is to be replayed to a server that starts
(`Prepared`). `Heard` is the property between two steps: a server was told the
current version, last unless notifications overlapped, or it is still due. It needs that a
document is opened before anything else is said of it (`Known`) and that a live
language has met its servers (`Met`).

`SourcePinsProofs.tla` proves `LockPins == Assumptions => (Spec => []Pinned)`, for any
machines, pages, moves upstream and texts of tags. The invariant (`PinsInv`) follows the
commit of a tag that never moved through the caches (`TagsCached`), the row (`RowKept`)
and the command that is to write or to read it (`ToPin`, `ToRead`). A tag that stayed
was mentioned on a page, or its place among the tags that are there is beyond the pages
read (`ListedSoFar`): a new tag moves it to a later page, and a removed one ends the
claim, as `stayed` says. What is chosen is a tag that no listed one is newer than, since
`newerThan` is transitive on versions with numbers (`NewerTrans`), and that `Older`, which
compares versions spelled out, implies it (`OlderIsNewer`).

What `Pin` writes is what was selected, or the default branch (`Recorded`).

SourcePins declares no assumptions, hence the hypothesis of the theorem: no two of a tag,
a branch and a commit have one name, though a tag may look like a commit; what looks like
one in modot.cue is one; a pattern matches tags, and the parts of a version are numbers or
words. A tag and a branch of one name, and a pattern that matches branches, are left out.

`PartsProofs.tla` proves about the components of `Parts`, for any values of their
constants that satisfy the assumptions of `Workspace` and `Machines`, which TLC evaluates
in the run Parts. `WorkspaceProofs.tla` and `MachineProofs.tla` hold what it rests on, for
each part three lemmas: its initial states satisfy an invariant, its steps keep it, and
the properties follow. They see one half of the variables and constants each, which
also keeps what the provers are given small.

| theorem | statement | assumption, beyond `AllSpec` |
|---|---|---|
| `CommandsWait` | `AllSpec => []Waits` | a slug exists (`SlugsAssumption`) |
| `UpdatesStayRunnable` | `AllSpec => []Runnable` | a release exists (`ReleasesAssumption`) |
| `DeploysEndWell` | `AllSpec => []Deployed` | |
| `SyncsLoseNothing`, `SyncsSave`, `SyncsDeleteNothing` | `AllSpec => []NothingLost`, `[]Saved`, `[]OnlyUsersDelete` | repositories as git makes them (`RepositoriesAssumption`) |
| `RowsImportedOnce`, `RowsAreListed` | `AllSpec => []ImportedOnce`, `[]Listed` | a history file is lines with whole numbers as times, limits are not negative (`HistoryAssumption`) |
| `ThemesMatch` | `AllSpec => []ThemeMatches` | |
| `CommandsStayMeant` | `AllSpec => []StillMeant` | |
| `TreeSaysAll`, `OrderSettlesNothing`, `PathsHaveOneFile` | `AllSpec => []SaysAll`, `[]Settled`, `[]OneFilePerPath` | files and mounts have their fields (`InputsAssumption`) |
| `SourcesArePinned` | `AllSpec => []Pinned` | the hypothesis of `LockPins` (`SourcesAssumption`) |
| `FindingsAnnotated` | `AllSpec => []Annotated` | a change is files with hunks, a file that goes has no new lines, findings name files, codecs are known (`RequestsAssumption`) |
| `LoadsAreAtomic`, `InputsAgree`, `ModulesAreWhole` | `AllSpec => []LoadIsAtomic`, `[]RefsAgree`, `[]ModuleWhole` | directories and values are sequences (`LoadsAssumption`) |

A step of the whole is a step of one part or leaves that part alone, so that the
invariant of a part is one of the whole. The invariants:

- SudoQueue (`QueueInv`): Waits is not inductive, since the removal at the end of an
  approval takes whatever has the slug; `QueueAtWork` says what that can be: the command
  the approval read, one that was tried, or one that came while it was at work.
- SelfUpdate (`UpdateInv`): a release is moved over the binary in one rename, so the
  invariant follows it back to its download. A release that no two updates downloaded at
  a time has one process between the start of the download and the rename (`OneWriter`),
  its file is open only in that process, and once torn nobody holds it any more
  (`DownloadsWhole`).
- SourcePins: the invariant above, of an instance of its proof module; it is shown first
  that this instance and the one of Workspace define the same actions (`PinSteps`).
- Checks (`ChecksInv`): a linter that said something is applicable and is through, what
  was read of it is what its codec makes of it (`Lints`, `ToolInv`), and what is shown is
  worked out of what was read once all tools ended. For that, the two readers are
  characterized. In a change without lines that look like headers the parser reads what
  the change adds, the files of plain names under these, and nothing else (`DiffIsRead`):
  `Reads` says that some lines lead from
  one state of the parser to another, and readings of nothing, of one line and of two
  pieces compose to those of hunks, files and changes; that the lines determine the state
  is shown by taking the first line at which two readings differ. And `Decoded` says
  which findings each codec keeps of each output (`Keeps`).
- Deploy (`DeployInv`): a task that nobody interfered with has its machine as it
  was when it looked (`Undisturbed`), has taken what was asked of it (`Given`,
  `Taken`), and what it reports at its end is on the machine (`Ends`).
- GitSync (`SyncInv`): a commit deletes only what a user deleted or what an
  interrupted clone lacks (`Harmless`), on the remote and on every host; what a user
  saved is in the tree, in a commit of the host or on the remote (`WorkThere`,
  `WorkPushed`, `FilesThere`).
- History (`HistoryInv`): the first `copied` rows are the first of the old table, in
  order, and no later row comes from there; the import read a beginning of that table
  (`Begins`). What replaying the lines of bash returns is shown by taking the smallest
  number of lines at which it would not hold. `HistoryTimed` adds that every time, in
  the tables and in what is read and not yet written, is a whole number, so that time
  and id order all rows. Listed then follows in any state (`RowsListed`). An order of
  n numbers has a sequence in that order: the rank of a number, how many come before
  it, is one to one into n numbers and so takes each (`OrderExists`); `ORDER BY` thus
  has a result, whose k-th has k - 1 before it (`SortedIs`, `FirstIs`). The lines
  collapsed from the first k ids are the newest run of each command and directory among
  them, with the number of the runs, in their order (`Lines`, which `CollapseInto` and
  `CollapseAfter` keep); the last of these is what `list` turns round (`ListOfRows`).
- IconTheme (`ThemeInv`): while nothing is edited that a command works from it has one
  configuration and one set of masters (`Unedited`); what it rendered is in the work
  directory, being written, or still to be written in another size (`Rendering`), with
  one painting per master (`OneEach`), and a file that nobody writes is not empty
  (`Filled`); so a theme in the cache is what its fingerprint and its masters ask for (`Cached`).
- NixHost (`HostInv`): a command is prepared for what the machine needs at that moment
  (`Prepares`), and stays meant until the machine moves (`WaitsMeant`), which the
  queue cannot change, by SudoQueue's invariant.
- Compose (`ComposeInv`): of the files already placed, one that joins others is in
  what is recorded at its path, which agrees with all that is there, and one that does
  not is copied or was absorbed (`Placed`); of those no two are at one path or below
  one another; and nothing can be absorbed once the merge starts (`Sorted`). It is the
  order of the maps that the invariant leaves out: it speaks of the set of files left.
- Configuration (`ReadInv`): a load that reads while somebody writes cannot be
  compared with the disk of one moment. The invariant speaks of all disks that fit
  everything read so far (`Fits`): whatever was computed is what each of them denotes
  (`LayersRead`, `InputsRead`, `EntryRead`, `ModulesRead`, `AllRead`). If no file was
  torn and the disk had at most two contents, one of them fits, and LoadIsAtomic
  follows. `FinalSound` and `ModulesFound` add that the last value has no conflict and
  where the files of a module came from, for RefsAgree and ModuleWhole.

Five properties were false outside the inputs first chosen, which the attempts to prove
them showed; each now says what holds, and the instance has a case for it:

- *Settled* compared only what joins with what joins. A file that is copied to the
  destination of fragments is absorbed and then merged, so that it can be in the way of
  another one as well (`Joined`).
- *OneFilePerPath* holds without links aimed below the profile directory only
  (`NoNestedLink`): `Marked` makes a copied one forget where it goes, so that one that is
  absorbed can meet a copy.
- *LoadIsAtomic* left out the layers that change between their first and their last
  reading. A configuration file that discovery had missed, and one that is read for
  several modules, is of neither disk either. It now leaves out what is `Torn`, of
  whatever file.
- *ModuleWhole* (`PlainRef`): an absolute path, and an input other than self that has a
  directory, are resolved in two ways by loader and scanner.
- *RefsAgree* (`Literal`): an input whose version is itself a path of `runtime.inputs`
  is resolved before that path is known.

Only model-checked: `Settles`, `EveryCallReturns`, `CallsReturn` and `Returns`, since
liveness is outside the proof system; `BackupReturns`, which uses ENABLED; and the six
violations.

## 6. What is left

Every safety property of the passing runs is stated by a theorem, but for
`BackupReturns`, which stays with TLC.

### Not modelled
- The palette generators (`internal/palette`): arithmetic in floating point without
  state.
- Drivers (`internal/driver`): adapters over desktop and device programs; of
  `internal/executil` only the identity of a binary.
- `internal/template`, `internal/text`, `internal/shellgen`: text conversions without
  state; what they produce is a token in Compose.
- `internal/modulecue` and the functions of `loader.go` that build schemas for
  fetched modules: nothing but tests calls them.
- `internal/cas`: two writers of one name write the same bytes through atomicfile.
- The store of lewkit that unpacks tools, shims, and the listing of tools.
- Renovate's fields, tidying and the codec of the lock; ingestion from atuin, which
  differs from bash in its source only.
- Command line parsing, notifications, and the commands that only print.
- Development tools and the setup script.
