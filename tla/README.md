# Formal models of dnr

dnr runs Deno applications that are distributed as one ZIP archive. It reads
archive entries through an in-memory cache, keeps derived files (V8 code cache,
extracted native libraries) in a disk cache that several processes share, saves
per-application preferences, and can open desktop windows through a native GUI
backend. A packer builds the archive for several platforms at once, and an
installer puts it, or its unpacked files, into a directory. This directory holds
TLA+ modules of the parts whose correctness depends on interleaving, failure or
timing, or on how several views of one package agree; the TLC configurations
that check them on small instances; and TLAPS proofs of their theorems.

Paths below are relative to `src/`. `PROJECT.json` lists components, runs,
mutations, hazards and theorems, and maps every definition that models code to
its lines.

    tlc -config EntryCache.cfg MCEntryCache      # a run: configuration, MC module
    tlapm BrowserWindowsProofs.tla               # the proofs of a module

## 1. Inventory

The program's own logic is in `crates/package` (archive, caches, installation),
`integration/rt` (runtime glue, state store, windows in JavaScript) and the
Rust/JavaScript added by `integration/deno.patch` and `integration/laufey.patch`.

| Component | State | Operations | Hard parts | Status |
|---|---|---|---|---|
| ZIP entry cache, `cache.rs` | a slot per entry (empty, loading, ready), CLOCK queue and byte count, decode limiter | `read`, `get`, completion with eviction | threads under four kinds of lock, condition variables, unwinding decodes, budget | modelled |
| Application state store, `dnr_state.rs` | per process: document, dirty fields, deadline, switches; a file and its lock | `record_size`, `zoom_changed`, `set_settings`, debounced save, flush, load | several processes share the file, which one may be unable to read; failed saves, exit, kill | modelled |
| Desktop main loop, `desktop_tail.rs`, `dnr.rs` | the runtime thread and its call, requests, the `READY` slot, native loop | lazy start of the backend, worker loop with its events, exit of either side | a backend that ends before it is ready; a native loop that somebody must end | modelled |
| Cache generations, `persistent.rs` | a directory per version, receipt, lease file, `current`, gate; in it the same again per version of the runtime | `open`, `use`, atomic writes, compiled code, `finish`, collection | processes killed between any two file operations, package replaced meanwhile, threads that outlive the use | partly: not the search of other paths' caches for compiled code |
| Cache management, `persistent/management.rs` | none of its own | `clean`, `rebuild`, `report`, `trace` | try-locks of every lease while processes open | partly: `clean --all`, `rebuild` |
| Catalog, `persistent/catalog.rs` | index, bounded queue, writer thread | record, rebuild, lookup, flush at exit | dropped entries, ignored errors, flush deadline, rebuilds that fail half way, index behind the disk | partly: uses in `Catalog`, what the rows of generations do in `NativeGroups` |
| Native library groups, `materialize.rs` | groups, gates, leases on disk | prepare, publish, reuse, release, sidecar | lock order between processes, renames | partly: receipts and checksums are one bit |
| Installation, `commands.rs`, `contents.rs` | installed package with its sidecar, or full tree | install, staging, renames | failure between two renames; a lock file that lies in what is renamed | partly: see 7 |
| Package open and index, `lib.rs`, `index.rs` | the index | validation, links, reads | platforms that share paths, link chains | partly: `PackageTrees`, without the ZIP layout |
| Packager, `lib.rs`, `index.rs`, `config.rs` | entries, records, the temporary file | list, describe, hash, copy, check, publish | files change between the passes | partly: patterns and icons are data |
| VFS overlay, `integration/rt/dnr.rs`; package commands, `commands.rs` of the overlay | the mounted tree | which paths are the package's; configuration files; search for a command | three lookups that must agree about the disk | partly: not listings and open handles |
| Desktop windows, `dnr_windows.js`, event loop in `deno.patch` | logical windows, maps of keys, callbacks, calls in progress; native windows | show, hide, close, destroy, navigate, bind, executeJs, policies | asynchronous teardown, timers, events of windows that are gone, bounded channel | partly: see 7 |
| Desktop event queue, `deno.patch` | channel, coalesced system states | send, take | a full channel | partly: the channel, in BrowserWindows |
| Zoom controller, `laufey.patch` | factor | `change_zoom`, shortcuts | a shortcut between a decision and its execution | partly, in AppState |
| V8 cache glue, `dnr_cache.rs` | the slot of the compile cache | open, read, store, finish | the slot is emptied while a thread holds it | partly: in CompileCaches and Runtime |
| Native backends and loader, `bridge.cc` | native windows and loop | the backends one after the other | foreign code | partly: the order of backends in DesktopMain; the rest external, as BrowserWindows sees it |
| Document security, `document_security.h` | document generations | page calls, replacement | a call of a page that was replaced | not modelled: a choice in BrowserWindows |
| Zoom configuration, backend choice, build and test tools | none between calls | parsing, forwarding | - | not modelled |

How they interact: the packer writes an index that the host validates again and
then looks up. Every reader of a package calls the entry cache. Opening a
package takes a lease on a cache generation, in which native groups and compiled
code live, or binds a group of the sidecar that an installation left; the
catalog follows what the generations do, through a queue. The desktop runtime
runs JavaScript on one thread; windows call the backend synchronously and get
its events through one bounded channel. The first use of a desktop API sends a
request to the main thread, which lends itself to the native loop. Hiding,
resizing and zooming reach the state store, whose writer thread saves them later.
At the end the runtime thread flushes the store, the main thread winds the
backend down, the store is flushed once more and the catalog gets its last use.

What makes them correct: a reader gets the bytes of one decode and always
returns; memory stays within its budget; nobody removes a generation in use and
leftovers are reclaimed; a package that was published works on every platform it
is for, and no read of it is answered from the disk by mistake; an installation
is replaced as a whole and never under an application; a process always ends
once its JavaScript has; a process neither loses its preferences nor overwrites
those of another; an application that hides, shows, navigates and destroys its
windows in any order sees one native window or none, and every call of a page is
answered exactly once.

## 2. Modules

| Module | What it is |
|---|---|
| `SharedReads` | what a reader of the cache is promised: decoded once, shared, failures not kept |
| `EntryCache` | `cache.rs`, one step per critical section |
| `EntryCacheProofs` | its invariants, its books, and that it implements `SharedReads` |
| `AppState`, `AppStateProofs` | the state store of several processes; its theorems |
| `Generations` | generations and `clean` on one package path |
| `CompileCaches`, `GenerationsProofs` | Generations with the compiled code inside the generations; theorems of both |
| `NativeGroups`, `NativeGroupsProofs` | one extracted group at several paths; its theorems |
| `PackageTrees` | trees, links, validation and every lookup of a path: functions |
| `Packaging`, `PackagingProofs` | the packer on a disk that changes, over PackageTrees; theorems of both |
| `Install`, `InstallProofs` | installers of one directory and applications that start from it; its theorems |
| `Catalog` | the queue, the writer, the flush and the rebuild |
| `DesktopMain` | the runtime thread and the main thread |
| `Runtime`, `RuntimeProofs` | a desktop process from start to exit: DesktopMain with Catalog; its theorems |
| `WindowLifecycle` | what each call does to one window: functions on its record |
| `BrowserWindows`, `BrowserWindowsProofs` | the windows, channel, timers, backend and calls; its theorems |
| `MCEntryCache`, `MCAppState`, `MCCompileCaches`, `MCNativeGroups`, `MCPackaging`, `MCInstall`, `MCRuntime`, `MCBrowserWindows` | names, sizes, jobs and symmetry of the finite instances |

Operators called `Slip...` are not used by the specifications. Each is a
variant of the operator that follows it with a plausible mistake in it; the
`mutants` of `PROJECT.json` put it in place to show that a property notices.

### EntryCache

`value`, `current` and `referenced` are an entry's slot; `queue`, `resident`,
`clockOwner` the CLOCK with its lock; `flights` the shared results; `count` and
`bytes` the limiter; `pc`, `job`, `flight`, `outcome` the calls. `read` is
`Hit`, `Coalesce` or `Lead` by what it finds under the slot lock, then
`Acquire` (or `AwaitPermit` on the condition variable), `Load`, `LockClock`,
one `SecondChance` or `Evict` for each turn of the eviction loop, `Complete`,
`Release`; `get` is `Probe`. The loop is split because it takes the locks of
its victims one by one while other threads hit them. A decode may succeed, fail
or unwind, in which case the drop of its leader publishes `interrupted`.
Condition variables are a set `parked` from which a notification takes all that
wait on it. An entry whose length does not fit `usize` fails before admission.

### AppState

A step is a critical section on the process's state lock. Saving keeps it over
`Flush`/`Expire`, `LockFile` (read and merge under the file lock) and `Replace`
(rename), or `FailToSave`. The deadline is a boolean: set, it may have passed.
`SetSettings` withdraws what was pending for a switch turned off;
`ResetZoom` is the second half of undoing a restored zoom, which
`set_state_persistence` carries out after the lock is released. `Quit`,
`Cleanup`, `LastFlush` and `Exit` are the end of a process; `Kill` is a signal
at any moment. The factor of a file written by an older version is `legacy`.

Reading the file may fail, because of an error, damage or another version of the
format, at startup (`Start`) and in a save (`LockFile`). Both go on from an empty
document, and a save so made succeeds. What is in the file and why it cannot be read
is left to a choice at every read; `blind` is the set of processes whose save under
way could not read the file, for the properties to tell the two apart.

### Generations

A step is one operation on the file system. `OpenPackage` remembers the stamp
of the file, `LockGate` starts either an open (`TakeLease`, `MakeDirectory`,
`WriteReceipt`, `CompareStamp`, `Publish`, collection by `Try` and `Remove`,
`Unlock`) or the sweep of `finish`, and `List`, `TryAll`, `Clean`, `Cleaned` are
`dnr cache clean`. Locks belong to the file and not to its name, so a lease
whose file was unlinked protects nothing (`linked`). `Kill` frees locks and
leaves files; `Replace` puts another version, or an old one, at the path.

### CompileCaches

Inside a generation every version of the runtime has a directory with a gate, a
lease and a `current` of its own, and nothing else protects it: it goes with the
generation (`Follow`). `caches`, `newest` and `staged` are what is on disk,
`user` what the threads of a process do with the cache, `slot` whether it is
kept for the next thread, and `named` whether its lock files still have their
names. `LockCompile` and `Compile` are `CompileCache::open` under the gate, with
its collection; `Take`, `BeginStore` and `LetGo` a thread that uses the cache;
`EndUse` is `dnr_cache::finish`, which empties the slot. A thread that still
holds the cache then goes on (`ended`), and recreates the directories on its way
when a sweep or `clean` has removed them. `Before` is an initial state in which
an earlier version has left its generation, so that replacing the package once
gives both the upgrade and the return to a version whose directory exists.

### NativeGroups

One package content is installed at several paths, and each path's generation
has its own copy of a group, extracted when a process first needs it. `disk`,
`files` and `catalog` are what is on disk, `gate`, `leases`, `preparing`,
`owner` and `sharers` the locks, `pc`, `todo` and `from` where the processes
stand. `Open` is `bind_group` as far as it opens the generation. `ensure_group`
is `Call`, `LockPreparation`, `LockShared`, `Check`, `Convert` (the shared lock
is given up and the exclusive one tried); `reusable_group` is `Pick`, `LockGate`,
`LockCandidate` or `NoSuchGroup`, `Compare`; `publish_group` is `Fill`,
`RemoveOld`, `Rename`, or `Fail` at any of them; `Downgrade` makes the lock
shared again. `Reclaim` is what `clean` and `collect_old` do to a generation
nobody leases, complete or killed half way, with or without taking it out of
the catalog. The steps of opening and removing a generation are those of
`Generations` and are one step here, because they lie under one gate.

Abstractions: a group is absent, damaged or complete; a file that cannot be
linked is extracted, so the stage is complete whatever becomes of the
candidate; compiled code and other groups appear only through `Index`, which
may put a path into the catalog as soon as a process runs there; stages left by
killed processes are the unfinished files of `Generations`.

### PackageTrees and Packaging

A path is the sequence of its components. `Follow` replaces the first link on a
path by what it points to, for `MaxHops` rounds; `Valid` is `validate_view`
of one platform and `Opens` all that is checked when a package is opened.
`Entries` is the tree of a platform, `Unavailable` what only others have. The
lookups are `Read`, `ReadText` (configuration files), `DnrContains` over
`Mounted` (the overlay of the file system), `NativePath` and `ModulePath` (where
a native file or a module is found in the tree of its group, which is `Layout`),
and `Command` (the search for an executable).

`Packaging` is `pack_with_desktop`. The packer passes over the disk four times:
`Collect` lists, `Stat` describes, `Digest` hashes, compares declarations and
shortens the names of the payloads, `Write` copies and compares with the hashes.
`Check` opens the result as the host would, on the packer's own platform, and
`Publish` renames it. Between any two passes somebody may `Edit` the disk or
publish a `Rival` at the output. Errors end the packer (`Stop`) in the pass that
meets them. Contents are names of data; what a file looks like to the detection of
native code is a field of its node. The code numbers the payloads to give them short
names; a name here has in the place of the number what is numbered, so that the names
differ where the numbers do.

### Install

`mode` is the kind of installation of the directory. `at` is the installed tree
(or sidecar), a version with the lock file that lies in it; `stash` what an
installer has renamed away, `staged` what it prepared, `held` the locks as pairs
of process and file: a lock is on a file and not on a path, so a tree that is
renamed takes its lock file along. A full installation is `CheckDirectory`,
`LockDirectory`, `TryDirectory`; a native one `MakeGate`, `TryGate`, `Compare`,
`Copy`, `Scan`; both go on with `Stage`, `Away`, `In` or `Restore`, `Tidy`, and
the native one with `Persist` and `End`. An application is `Start`, then
`Probe`, `PassGate`, `OpenGroup` in front of a sidecar, `Share`, `Bind`, `Exit`.
Installers run at the same time; `met` remembers that two full ones did.

### Catalog, DesktopMain and Runtime

`Catalog` has one process with its writer thread. `Send` drops an entry that
does not fit; the writer takes one entry and then all that there are (`Receive`,
`Drained`), and applies them as a batch (`Index`, `RecordAccess`, `Reply`). The
flush waits for room and for the answer until one deadline (`TimeOut`). A
`rebuild` of another process is four steps under the database's lock: `ReadUses`,
which goes on with none when they cannot be read, `RemoveFiles`, `WriteUses` and
`IndexAll`; at each it may fail or be killed (`GiveUp`).

The code ignores the errors of the writer and answers a flush all the same. Two
history variables keep the properties honest about that. `due` is the set of uses
this process has queued, less those that only a batch held whose write failed
(`Refused`), and less those that a failing rebuild lost (`Lost`); a use that is in the
queue again, or in the database, stays in it. `best` is the latest use recorded by
anybody since a rebuild last failed. `UsesKept` compares the database with `best`,
`FlushKeeps` with `due`.

`DesktopMain` has the runtime thread (`script`, and `call` for its wait) and the
main thread (`main`), which takes requests one by one. `Use` is `ensure_backend`;
`Activate` puts the reply channel into `READY` and enters the native API, where
`Initialize`, `Mismatch`, `NoBackend` and `LoopEnds` are what backends may do and the
order in which `dnr_native_main` tries them;
`Returned` answers whoever is still waiting. The worker loop is `Loaded`, `Settled`,
`Unloading`, `Leaving`, `Unload`; JavaScript runs in every phase and may `Open`,
`Close`, `Ask` to exit or `Throw`.

`Runtime` joins the two: entries are sent while JavaScript runs (`Touch`), and
the main thread ends with `LastUse`, `FlushCatalog` and `Leave`.

### BrowserWindows and WindowLifecycle

JavaScript runs to completion, so a call of the application is a function from
a window's record to its next record, composed as the code composes its calls:
`Release` is `CancelTimer` and then `TearDown` (`Detached`, `Destroyed`,
`Complete`), `Hide` ends in `ScheduleRelease`, `Navigate` of a protected window
is `Release` and `CreateNative`. `BrowserWindows` has the actions: construction, the
calls (`AppCall`), `Bind`, `Unbind`, `ExecuteJs`, `Export`; the native events
`RequestClose` and `PageCalls` with the full channel; `Dispatch`; a callback
that returns (`Settle`); a replaced document (`InvalidateDocument`); and what
goes on by itself (`CloseDone` of the backend, `Poll` of `release`, timers that
`Fire`, `Tick`). The choice `gone` is whether the backend reports a close as
done at once (WebView) or later (CEF).

Abstractions: `focus` is a show; `closeBehavior` is chosen at every close,
since the application may set it at any time; whether a protected window's
document is still the current one is a choice; geometry, titles, menus and the
sizes saved under a key are left out, and so are failures of the creation of a
native window.

## 3. Runs

| Run | Instance | Shows |
|---|---|---|
| `entry_cache` | 3 threads, 3 entries of sizes 1, 2, 9, the last longer than the address space; budget 2, at most 2 decodes or 1 byte, 3 decodes in all, fairness | books balance, nobody sleeps for ever, implements `SharedReads`, every read returns |
| `app_state` | 2 processes, 1 key, 2 sizes, 2 factors, 3 edits, 1 fault, fairness | nothing pending is forgotten, exits save all, only own edits are written if the file can be read and no old snapshot if not, the last edit wins, restored zoom undone, pending is saved |
| `app_state_off`, `app_state_reset` | the same with 1 size and no faults | the first two findings of section 5 |
| `generations` | 2 processes of different runtimes, a version left behind or none, 1 replacement, 1 kill, threads of one process outlive its use, fairness | what is in use stays, unfinished writes survive, `current` is not set back, compiled code in use stays, `clean` spares a path in use, an open reclaims leftovers |
| `native_groups` | 3 processes at 2 paths, one path in the catalog, 3 calls, 1 loss of files, fairness | a ready group is complete, what is used or copied stays, nothing is extracted twice, every preparation ends |
| `native_groups_wait` | 2 processes at 2 paths, both in the catalog | the third finding |
| `packages` | every combination of two items of an application, the trees of two platforms that are laid over them, declarations and exclusions; those that can succeed also with 1 edit, a rival and includes; 2 hops | a published package works on every platform, no lookup falls through to the disk by mistake, nobody's package is overwritten |
| `packages_groups` | the same without edits, links that pass through the application | the fourth finding |
| `install` | 3 installers of 2 versions, 1 application that starts again and again, 1 kill, 1 replacement of the source, symmetric | nothing is renamed under an application, it runs from what it opened, there is always an installation, `--force` is needed, a successful installation is a matching pair |
| `runtime` | 1 process, 2 backends, queue of 1, a clock of 2 times that may jump, writes that fail, other processes that record and rebuild, rebuilds that fail, fairness | no recorded use is lost but by a rebuild that fails, after a successful flush the database has every queued use but those whose write failed, no native loop is left that nobody ends, calls return, the process ends when JavaScript has ended or asked for it |
| `browser_windows` | 1 window, 2 native instances, 1 entry, 1 name, 1 call, channel of 1, time 0..2, four policies, fairness | one live native window, nothing left behind, calls answered once and in the end, exported handles stay, shows and releases happen |

The theorems of section 6 say more about the same modules than the runs check:
type invariants, that the CLOCK lists the ready slots, that one reader decodes a
slot, the budget and the limiter, windows that are visible as wanted, timers,
pages, keys, deadlines and destruction are proved for all values of the constants
and are not checked on an instance again.

Why the bounds suffice. *EntryCache*: the budget holds either of two entries and
not both, so every completion evicts while a third thread hits the victim; the
limiter is empty, full, and over its bytes by one entry alone; the third entry
fails before admission. *AppState*: three edits are set, overwrite and switch, or
two fields and one switch, with the other process in between; every read of the file may
fail, without a bound. *Generations*: two
runtimes at one package compete for `current` of the compiled code, an old
generation exists, is returned to or is half removed, and with one kill there is
a leftover and somebody who finds it. *NativeGroups*: two processes at one path
compete for its group while the third makes it a candidate or a copier; three
calls are an extraction, a loss and the repair of it. *Packaging*: two platforms
are needed for a path that one has and the other lacks, two items and the
variants for links that cross from one to the other, into a group and out of it;
`MaxHops` 3 is two links in a row and the round that finds the end (40 in the code),
so chains at, below and above the limit all occur. One edit between
any two passes lets every pair of passes disagree about an entry. *Install*: two
installers that meet and a third that comes after both is what it takes for a
lock file to be stale twice. *Runtime*: a queue of one is full as soon as the writer
lags, and two times are an older and a newer use; writes and rebuilds fail as often as
they like; two backends are one that fails
and one after it. *BrowserWindows*: two native
instances are a teardown and the one after it; everything but keys is per window,
and keys are proved; delays 0 and 2 with time 0..2 let a deadline be overdue,
exact and extended. `MaxFlights`, `MaxEdits` (of `AppState` and of `Packaging`), `MaxFaults`,
`MaxKills`, `MaxStamp`, `MaxCalls`, `MaxDamages`, `MaxReplaced`, `MaxTime`,
`MaxNatives`, `MaxDelay` and `Lingering` cut behaviours, not states of the code;
the safety theorems hold for any value. `MaxHops`, `Capacity` and `Backends` are
numbers of the code.

Deadlock checking is on, except where the program ends: the packer, the
installers and the process of `Runtime` stop when they are done
(`Packaging.cfg`, `PackagingGroups.cfg`, `Install.cfg`, `Runtime.cfg`). That
`Runtime` does not stop before is `ProcessEnds`.

## 4. Fairness

- `EntryCache`: weak fairness of every step of a thread inside `read`. Threads
  are scheduled and decodes terminate; nobody has to call. Locks are held for
  one step, except the CLOCK's, whose owner is itself fair. The limiter has no
  queue, so small decodes may overtake a large one; `MaxFlights` ends that in the
  model, and the property does not say that it ends in the code.
- `AppState`: weak fairness of the steps of a save. The writer thread runs, the
  file can be locked and replaced; failures are the exception that the liveness
  property makes. A deadline that is set may pass: that edits which never cease
  push it back for ever, as they do in the code, is outside the property.
- `CompileCaches`: weak fairness of a process that holds the gate of the
  generations, until it leaves it. No process has to come, and nothing is
  assumed of the threads, so the property speaks of a process that came.
- `Runtime`: weak fairness of both threads, of a backend that has been called and
  has neither started nor failed yet, of a native loop that was told to end, and
  of the cleanup with its deadline. Nothing of JavaScript, of the writer or of the
  processes that hold the lock of the catalog: the process ends without them.
- `Packaging` and `Install` have safety properties only.
- `NativeGroups`: weak fairness of a process inside `ensure_group`: it runs, and
  gets a lock that stays free. Nobody is made to call, release or end.
- `BrowserWindows`: time passes, the loop takes events and expired timers, the
  backend confirms the closes it was asked for, and callbacks return. Without
  the last a call is open as long as its page, which is what the code does.

## 5. Findings

- `app_state_off`: `docs/ZOOM.md:71` says that switching zoom memory off
  withdraws the pending change. `set_settings` clears the dirty field but leaves
  the value in the document, and `merge_write` takes the document's zoom for a
  file that has none. So a later save of a window size writes the withdrawn
  zoom.
- `app_state_reset`: the comment at `integration/rt/dnr_state.rs:219` says that
  `true` asks to undo an *untouched* startup zoom. The decision is made under
  the lock and executed after it (`deno.patch:1899`), so a shortcut pressed in
  between is undone too.
- `native_groups_wait`: `ensure_group` extracts under the exclusive lock of its
  group, and meanwhile waits without a limit for the lock of another path's
  group that it would like to link (`materialize.rs:767`), holding the gate of
  that path as well. Two processes that run the same content from two paths,
  both in the catalog - compiled code is enough to get there - and first need
  the group at the same time wait for each other for ever, and so does whoever
  opens either cache afterwards. `docs/PERFORMANCE.md:183` says that checking
  or extracting a group holds no lock that others need, and
  `docs/CACHE.md:40-41` makes the link an option. With one path in the catalog
  there is no cycle: `PreparationEnds` holds, and `OneCataloguedPath` proves it.
- `packages_groups`: `docs/NATIVE-PACKAGING.md:55` says that a link of a group
  must point to a file of the group or into a directory that belongs to it.
  `validate_view` looks at where the link ends, not at the links it passes
  (`index.rs:599`). A link through a link of the application is accepted, and in
  the unpacked group, which has the group's members only, it leads nowhere.

Met while modelling, but not stated as properties:

A process that cannot read the state file in a save (`dnr_state.rs:159-162`) replaces it by
its own changes and the zoom it shows, and the save succeeds: the sizes that other
processes have saved are gone, and so are its own of earlier runs, even when the error was
a passing one or the file was written in a newer format. No document speaks of it;
`OnlyOwnEdits` and the theorems state what is kept in that case and what is not.

A flush of the catalog says that the writer has been through what was queued, not that it was
written: errors of `record_access` are dropped before the answer (`catalog.rs:38-43`). The
comment there calls the metadata best effort, and `FlushKeeps` makes the exception. In the same
way a `rebuild` that cannot read the recorded uses (`catalog.rs:202`) removes them and reports
success.

A process that only looks at
a candidate has its group lock shared for a moment. If the owner of that group
tries the exclusive lock just then (`materialize.rs:583`), its call fails with
"native group is in use; retry after that process exits" although nobody uses
the group (`Convert` ending in `open`).

`Package::read`, and with it the reader of configuration files and the search for
a command, looks up the path that a link leads to. If that path is one that only
another platform has below a directory of this platform, the read is answered
from the disk, while `dnr_contains` keeps the file system away from it
(`FORMAT.md:21` says such paths do not fall back). `ServedOrUnavailable` names
the difference: behind a link the lookups agree on what the package has, not on who is
asked when it has nothing. The listing of a directory, which is not modelled, also shows
files of the disk whose names are unavailable.

Two full installations into one directory at once may lose it: while the first
has renamed the old tree away, the second finds no directory, makes one and locks
it; the first can then neither put its tree in place nor the old one back
(`contents.rs:146-152`), and drops the backup. If the second fails, nothing is
left. Nor does `--force` hold between two: a full installer looks into the directory
before it takes the lock (`contents.rs:88-104`), so that it may replace, without
`--force`, what another has installed in the meantime, though the message there wants
"an empty directory or --force on an existing full installation". A full installer that is killed between the two renames leaves the lock file in
its backup; an application that waited for that lock and finds another
installation in place runs from it without a lock that the next installer sees.
Both are behaviours of `Install`; its properties make the exceptions, with the history
variable `met` and in `Protected`.

## 6. Theorems

Every safety invariant and every action property of the runs is stated by a theorem,
except those that the runs of section 5 refute. The theorems hold for any number of
threads, entries, processes, installers, windows, keys, calls and jobs, and for any
limits, from the assumptions named in the modules. Most say that constants are numbers or
finite sets and that names differ (`NamesAssumption`, `FactorsAssumption`,
`ProcsAssumption`, `GenerationsAssumption`, `CompileCachesAssumption`,
`GroupsAssumption`, `CatalogAssumption`, `WindowsAssumption`, `InstallAssumption`);
`CacheAssumption` adds that the limiter's byte limit is representable, and
`MaxHopsAssumption` that a link is followed at all. `JobsAssumption` says what the file
system and the parser of the configuration can yield: the names of a listed directory
are strings other than `..`, a node is a file, a directory or a link, and a declaration
has one of the three roles.

**EntryCache.** `TypeCorrect`, `LimiterCorrect`, `BudgetCorrect`,
`ClockCorrect`, `SingleFlight`, `WaitersAreServed`, `PermitsAreNotified`,
`CountersBalance`, `CountersNeverWrap` and `CacheKeepsPromise`: the cache implements `SharedReads`. The invariant is built
in layers. *Typed* adds to the type what a thread has at each point of `read`.
*Limiter*: the count is the cardinality of the admitted threads, and a sleeping
thread has one to wake it. *Clock*: the queue lists the ready slots, once each,
which survives a hit because a hit changes neither. *Flights*: a loading slot has one leader
with an unfinished flight of its own, and a waiter of an unfinished flight has
that leader; it needs the typed layer alone, so an eviction that interleaves is
a stutter for it. The refinement maps leaders to `decoding`, waiters to `asked`
and ready slots to `kept`; every action is a step of the promise or a stutter.
*Books*: `resident` is the sum of the sizes of the ready slots and `bytes` that of the
admitted decodes. The sum of a finite set is a fold over the set, of which the proof
needs only that an element more adds its size; that follows from the definition by
induction over the size of sets, which the set form of the principle of the naturals
(`NatSetInduction`) gives without an operator parameter. Since both are sums of sizes, no
subtraction takes an unsigned counter below zero.

**AppState.** `TypeCorrect`, `SavesAreExclusive`, `PendingCorrect`, `RestoredZoomGoes`,
`OnlyOwnEditsHolds`, `LastEditIsSavedHolds`, `SizeMemoryOffHolds`. The invariant: a process about to
replace the file holds its lock and its merged document is still the merge of
the present file, or of an empty one if it could not read it, with its dirty fields
(`SaveInv`), and the document shows every dirty value while switches that are off have
none (`PendInv`). The first part is what makes the action properties hold: nothing writes
between read and rename. `LastEditIsSavedHolds` holds for both merges;
`OnlyOwnEditsHolds` and `SizeMemoryOffHolds` say for the second that sizes are dropped
and none are put in their place.

**Generations.** `TypeCorrect`, `UsedGenerationsStay`, `WritesAreSafe`,
`NoRollBack`, `CleanIsSafe`. The invariant adds to the properties: who is in a
gated phase is the owner of the gate; from taking its lease to giving it back a
process holds it under the name that others look for, and what it has put in its
generation since is still there; what a process has locked to remove is leased
by nobody; who publishes is at least as new as all at work. The last is why
`current` is not set back, although `CompareStamp` and `Publish` are two steps
and the package may be replaced in between.

**CompileCaches.** `GenerationsRemainSafe`: all of the above hold with the compiled
code beside the generations, for a step of `CompileCaches` is one of `Generations`, a
stutter, or a thread that recreates directories of a generation that was removed under it
(`Recreated`), which gives nobody a lock and removes nothing. `CompiledCodeStays`: the
invariant of the generations is extended by `CacheInv`. It says that a process whose use
has ended is on its way out (`Attended`) and that a process at work that holds a compile
cache has the lock on it under its name, its directory and its unfinished file (`Kept`).
The collection of another runtime cannot lock it, and a sweep or `clean` cannot remove the
generation around it because of the lease of the generation; that is where the second
invariant needs the first.

**NativeGroups.** `TypeCorrect`, `ReadyGroupsAreComplete`, `UsedGroupsStay`,
`OneCataloguedPath`. The invariant `Inv` says of every process exactly which
locks it has where it stands (`HasLease`, `HasPreparation`, `HasGroup`,
`Shares`), and that whoever is about to extract has found its group incomplete
and it still is (`Seen`). The latter holds because the preparation gate is kept
over check and publication, and is what makes "nothing is extracted twice"
inductive. `OneCataloguedPath` needs in addition that candidates are catalogued
and never one's own path (`Candidates`).

**BrowserWindows.** `TypeCorrect`, `OneNative`, `VisibleAsWanted`,
`TimersAreRight`, `KeysAreExclusive`, `NothingLeftBehind`, `CallsAnsweredOnce`,
`PageIsRight`, and the action properties `ExportedRemain`, `DeadlineKept`,
`DestroyedRemain`. The invariant of one window, `WinOK`, says where its native
part stands (`Body`), what the application wants of it (`Wishes`), its timer
(`TimerOK`) and its page (`PageOK`). One lemma per function shows that it turns
a window that satisfies it into another (`HideOK`, `ReleaseOK`, `NavigateOK`,
...), with the states in the middle of a release named `Vacant` and `Torn`. A
second lemma per function says what it cannot do (`Calm`, `Tame`): take a
key, keep calls for another native window, revive, tear down an exported one. The
global invariant adds that keys are disjoint, that a call in progress belongs to
one window and its present native one, and that the channel carries queued
calls, each once. That last part is needed for `AnsweredOnce`: without it a
call could be delivered twice.

**Install.** `TypeCorrect`, `ApplicationsRunTheirTree`, `PairsAgree`,
`RunningTreesStay`, `InstallationsAreKept`, `OthersAreKept`. A lock is on a file, and
files move with trees, so the invariant is about who knows which file. `Alone`: as long as
full installers have not met, one installer works on the directory, which for
sidecars the gate enforces. `Fresh` and `Unknown`: the lock file that an installer will put
in place is known to nobody before. `Looked`, `Locked`, `Prepared` and `Asked` are what
the one at work knows where it stands: the tree has the file it holds, also in the backup
while the tree is away; what it staged is what it was asked for. `Bound`: an
application holds the file it has opened, and while something guards the tree (`Guards`)
the tree has its version. Then `Try` of an installer fails against a running application
because they have locked the same file, which is all that `RunningStays` needs; the
other theorems follow from what the steps that change the tree may change.

**Runtime.** `TypeCorrect`, `UsesAreKept`, `FlushesKeep`, `LoopsAreTold`. `Carries`: the
database has the best use, or the rebuilding process has read it and will put it back, or
could not and nothing counts as recorded any more. `Followed` says where a use that is due
may be: recorded, in the writer's batch, or in the queue; that the request of a
flush is the last of the queue, or is in a batch that has taken all before it; and that
both are empty after the answer. `LossFollows` is the step that a failing write or rebuild
adds: what it loses is not due, and what is due is elsewhere. `Threaded` adds that nothing
is queued any more once the flush is, because JavaScript has ended by then; that a backend
is started only while JavaScript waits for it or the process ends with an error; and that
the loop was told to end when JavaScript has ended with the native API there.

**PackageTrees and Packaging.** `TypeCorrect`, `PackagesAreUsable`, `NoPathFallsThrough`,
`RivalsAreKept`, for all jobs, disks, edits and any limit on links. The
invariant `Inv` follows what the passes carry: names without `..` from the listing
(`Listing`), records of a shape (`Recorded`), bytes that have their sum (`Copied`), and a
check that succeeded (`Sound`). From there it is about functions only: a package that opens
on one platform is `Fit` for every platform it is for, and a fit package is usable
(`FitIsUsable`) and its lookups agree (`ServedOrNot`). The lemmas on the way say that
the entries of a platform are nested, that `Read` and the native lookups find each of them
under every link to it, that a walk in the tree of a group or of the overlay goes together with
the walk in the entries (`WalkTogether`), and that a path with nothing under it is
unavailable to all three lookups or to none. Links are followed by recursive functions;
that such a function exists for every path and every number of rounds (`WayExists`,
`HopsExist`) is again by `NatSetInduction`, and so is what holds of each round.
`TypeCorrect` has an invariant of its own, `NameInv`: the source of a payload is the
directory of its group and platform with its path. A short name keeps the number of
the two and drops only a part that all paths of the group share, so it tells two payloads
apart as well (`ShortTells`); what has no platform cannot be mistaken for one, because its name
does not begin with `.dnr`.

Model-checked only: the liveness properties (`EveryReadReturns`,
`PendingIsSaved`, `OpenReclaims`, `PreparationEnds`, `ShowIsHonoured`, `HiddenIsReleased`,
`CallsAreAnswered`, `CallsReturn`, `ProcessEnds`), which need fairness and `ENABLED`.

## 7. Not modelled

- Installation: two kinds of installation into one directory; the `install.lock` that a
  failed first full installation leaves; failures of the rename that restores
  the old tree; sidecars of several groups; sidecars without a gate, which older versions made.
- Catalog: the rows of generations, which `NativeGroups` has as a set that lags
  behind the disk; files of the database of which a rebuild has removed only some.
- Deadlines: in the code an edit pushes the deadline of the save back; in
  `AppState` a deadline that is set may always have passed.
- Caches: the search of other paths' generations for compiled code; selection by
  age, size and `--trace`; `clean` of a single directory; failing removals. The
  entries in a code cache and their keys are contents.
- Packages: the ZIP layout, binary metadata, compression, icons, patterns and
  name normalisation, which are sequential functions of bytes; listings and open
  file handles of the overlay; exports (`extract`).
- Windows: geometry, titles, menus, keys' sizes; the document generations of
  protected windows, which live in C++ inside the backends' callbacks; the
  coalesced system states (one bit each, set and cleared by atomic operations).
- The GTK, WebKit and CEF glue; parsing of zoom settings and arguments; build,
  release and test tools.

## 8. Plan

The modules planned are written and their safety properties proved. What is left:

1. An abstract specification of what `Install` promises (a directory that is empty or has
   one installation, replaced in one step when nobody runs it), and the proof that
   `Install` implements it where two full installers do not meet.
2. The same for `AppState`: a file that each process edits atomically, with `Replace` as the
   step; and for `Catalog`, whose promise is the latest use recorded.
3. The search of other paths' generations for compiled code, the part of `CompileCaches`
   that is still missing.
4. Listings of directories in the overlay, in `PackageTrees`, with what they show of
   unavailable names.
