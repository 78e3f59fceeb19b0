# Formal model of brewdock (`bd`)

`bd` installs Homebrew formulae into the prefix it shares with Homebrew. It has
no daemon: the prefix (kegs, opt links, symlinks, `INSTALL_RECEIPT.json`), a content store
and a copy of the formula index are the state, and several `bd` processes, their
blocking threads, failures and crashes meet in them. This directory holds TLA+
modules for that state and the code that changes it, TLC configurations, and
proofs for TLAPS. Paths below are relative to `src/`; `orchestrate/` stands for
`crates/core/src/orchestrate/`.

## Inventory

| component | state it keeps | operations | hard behaviour | what makes it correct |
|---|---|---|---|---|
| staged executor (`crates/core/src/orchestrate.rs`, `orchestrate/planning.rs`, `orchestrate/execution.rs`, `finalize.rs`) | the plan, the acquire futures and the threads they spawned, the entry finalize is at | `install`, `upgrade`, `plan_install`, `plan_upgrade` | bounded concurrent acquire, threads that outlive their futures, a failure at every step, the upgrade loop that must undo itself | what is shown as installed is complete, dependencies first, a failed entry leaves nothing, a failed upgrade restores |
| operation lock (`core/src/lock.rs`) | one exclusive `flock` | acquire, drop | error paths, process death | held exactly during an operation; the prefix changes only under it; nobody waits forever |
| prefix: materialize, opt link, link, receipt, discovery (`crates/cellar/src`) | `Cellar/<f>/<v>`, `.<v>.brewdock-tmp`, `opt/<f>`, symlinks, receipts | `materialize`, `link`, `unlink`, `write_receipt`, `find_installed_keg`, `cleanup_failed_install` | not one atomic change; a crash between or inside two of them | what is shown is relocated |
| relocation (`cellar/src/relocate.rs`) | Mach-O load commands and text of a keg | `relocate_keg_with_manifest` | fails half way | a keg is relocated before it is shown |
| bottle etc/var transaction (`cellar/src/materialize.rs`) | directories and files it created | install, rollback | rollback of a partly executed install | rollback restores what was there |
| post_install runtime (`cellar/src/post_install.rs`, `post_install/`) | backups, statements | run, commit, rollback | the roots to back up are computed beforehand | rollback restores every path a statement changed |
| blob store, download, extraction, cleanup (`crates/bottle/src`, `orchestrate/query.rs`) | `blobs/`, `store/<sha>` | `download_verified`, `put`, `extract`, `cleanup` | publish by rename, presence means complete, cleanup without the lock | no incomplete payload is ever used; nothing in use is removed |
| dependency resolution (`formula/src/resolve.rs`) | DFS marks | `resolve_install_order` | cycles, diamonds | topological, complete, every cycle reported |
| version comparison (`formula/src/version.rs`) | none | `Ord for PkgVersion` | keywords against numbers against missing tokens | a total order |
| bottle selection, supportability (`formula/src/bottle_selection.rs`, `supportability.rs`) | none | choice of tag and method | fallback between tags | a bottle that is chosen runs on the host and in its Cellar |
| metadata cache, API client (`formula/src/api/metadata_store.rs`, `client.rs`) | index, etag, fetched_at | `update`, `ensure_fresh_cache` | staleness, two updates at once | an answer is never older than the limit allows |
| source build (`core/src/source_build.rs`, `source_build/`) | a tempdir, the keg | unpack, build | fails half way | nothing left after a failure |
| post_install analysis, `test do` (`crates/analysis`, `cellar/src/test_do.rs`) | none | parse, lower | Ruby subset | only supported statements are lowered |
| queries (`orchestrate/query.rs`) | none | outdated, search, info, list, doctor | read without the lock | answer from receipts |
| progress (`core/src/progress.rs`), StateDb, layout, platform, CLI, analyze tool | as their names say | | | |

`PROJECT.json` lists every component with its status, and every hazard at its
line with the property that covers it or the reason none does.

**How they interact.** The CLI (`crates/cli/src/main.rs`) runs one operation on
tokio's `current_thread` runtime. `install` and `upgrade` take the lock, resolve
metadata and receipts into an execution plan, run the acquire stage
(`buffer_unordered` over downloads and `spawn_blocking` threads that materialize
and relocate kegs), then finalize the entries one after the other: etc/var files,
the `post_install` hook, links, the receipt. Dropping the lock ends the operation;
dropping the runtime waits for the threads. Components share the prefix and the
brewdock cache directory, and nothing else: no messages, one lock file.

## Modules

| module | models | builds on |
|---|---|---|
| `Prefix` | the prefix, per formula, and the functions of `crates/cellar` and `finalize.rs` that read and change it | |
| `InstallPipeline` | processes, lock, planning, the upgrade loop, acquire with its threads, finalize, all error paths, crash, exit | `Prefix` |
| `FormulaLifecycle` | abstract: what `bd list` may show of a formula over time | implemented by `InstallPipeline` |
| `BottleStore` | blobs, temporary blobs, extracted trees, the copy of a keg, and `bd cleanup` | |
| `ContentStore` | abstract: a content-addressed store whose entries appear all at once | implemented by `BottleStore` |
| `FileTree` | a directory tree and the file operations used on it | |
| `HookProgram` | the statements of a lowered `post_install`, what each does to a tree, the roots saved before | `FileTree` |
| `FinalizeKeg` | finishing one keg: etc/var files under an undo log, links, hook on top of saved copies, every failure and its undoing | `HookProgram` |
| `HookSchemas` | the programs `schema.rs` puts in the place of hooks it knows | `HookProgram` |
| `PostInstallLowering` | from the Ruby syntax tree of `post_install` to a program | `HookSchemas` |
| `InstallMethod` | support, choice of a bottle, source build | |
| `ResolveOrder` | from the names of a request to an ordered plan | `InstallMethod` |
| `PkgVersionOrder` | tokens and order of versions, `is_outdated`, the upgrade loop it drives | |
| `MetadataCache` | the index upstream, its local copy, and the commands that refresh it or answer from it | |
| `MC...` | instances for TLC | the module of that name |
| `..._proofs` | theorems | the module of that name, TLAPS |
| `InstallPipeline_proofs`, `InstallOutcome_proofs`, `FormulaLifecycle_proofs` | theorems of the pipeline | `InstallPipeline`, then each the one before |

`InstallPipeline` is the whole; the other modules open up what is one step or one
constant in it: `BottleStore` the step `Fetched` and the copy of `CopyTree`, `FinalizeKeg` the steps
`EtcVar`, `Hook`, `Link` and their failures, `ResolveOrder` its `Orders` and `Pending`, `PkgVersionOrder` the
choice of the formulae `upgrade` goes through, `MetadataCache` the metadata it takes as given.
`PostInstallLowering` produces the programs that `FinalizeKeg` runs; both run
them on `FileTree`, which is how a lowered program can be compared with the source
(`SameEffect`) and an undone one with the state before (`FailureLeavesPrefix`).

### `Prefix`, `InstallPipeline`

`Prefix`: `oldKeg[f]` and `keg[f]` are the two kegs a formula may have: an outdated
version that was there before, and the latest one that `bd` installs. `keg[f]` is
`raw` after the rename, half built, or with some of its files removed, and `ready`
after `relocate_keg_with_manifest` (or after a source build). `opt[f]` and `receipt[f]` are read by `Visible`, which is
`find_installed_keg`: it follows `opt/<f>`, wants a valid receipt, and fails on
one that does not parse (`Unreadable`). `links[f][v]` says whether none, some or all
of the symlinks of version `v` are in the prefix; `link` and `unlink` may stop in
the middle (`LinkPartly`, `UnlinkPartly`). Both versions ship the same file names,
so the new one cannot be linked while links of the old one are left
(`Collides`, `check_link_collision`).

`InstallPipeline`: `pc[p]` is where the async side of process `p` is. Each value is
a place between two actions where something else may run or where the code may
leave through `?`:

    idle -> lock -> resolve -> acquire -> [finalize steps]* -> unlock -> exit -> idle
                       \-> next -> replan -> acquire ... -> next   (upgrade's loop)
                                 failure of acquire:  abort -> unlock | restore
                                 failure of finalize: unlock | restore -> unlock

`task[p][f]` is the acquire future of entry `f` (`fetching`, `prepared`, `failed`,
`acquired`) or the blocking thread it awaits (`Running`: `copying`, `swapping`,
`opting`, `relocating`, `unpacking`). When an entry fails, the futures disappear and
the threads stay, as with tokio. `at[p]` is the entry finalize or
`cleanup_materialized_kegs` is at. `Gone` is what is lost with a process.

The runtime has one thread, so an async step is atomic up to its next `.await`; only
threads and other processes interleave with it. Finalize has no thread of its own
alive, yet it is split into its steps so that a crash, a failure or another process
can fall between any two of them. One action is one call (`link`, `write_receipt`,
`cleanup_failed_install`, ...) with its error handling: every `...Fails` action
names the error path taken, and does all of it, cleanup and rollback included.
`Crash` may fall between any two actions and inside the ones that change several
files (`CutShort`). The command `plan_install` or `plan_upgrade` is a dry run.
`Faults` is the set of failures the environment may cause; an error the state
itself provokes (a link collision, a missing keg, an unreadable receipt, a
dependency cycle) happens whatever `Faults` says.

**Abstractions of these two modules.**

- A version is `old` or `new`; the metadata does not change during a command, and
  dependencies do not depend on the version.
- Downloading, verifying and extracting are one step of `fetching`.
- `cleanup_failed_install`, removing a keg, linking and building are atomic unless a
  crash cuts them in the middle; a copy cut in the middle is a temporary keg that
  does not exist, since the next materialize discards it. An I/O error inside
  `cleanup_failed_install` itself is left out.
- A crash does not cut a cleanup and the write that made it necessary at once (a torn
  receipt with its links half removed).
- `unlink` of a keg that has lost some of its files is taken to find all of its links.
- Files of etc/var and of the hook are represented by the success or failure of the
  step and of its rollback; `FinalizeKeg` opens these steps up.
- A plan is any topological order of its entries; which one the depth-first search
  yields makes no difference to the properties.
- A command line names a set, without duplicates.
- Two threads that share a temporary keg do not mix file contents.
- `MaxOps` bounds how many operations are started (`budget`); nothing else is
  bounded. `Limit` stands for `MAX_ACQUIRE_CONCURRENCY`, 4 in the code.

### `BottleStore`

One action is one file operation of `acquire_payload`, `BlobStore::put`, `extract_tar_gz`,
`copy_dir_recursive` or `cleanup_directory_tree`. `blob[s]` and `temp[s][n]` are the blob of a digest
and its temporary file with nonce `n` (`none`, `part`, `whole`); `dir[s]` and `tree[s]` the extracted
tree. Installs hold the lock, cleanups do not, so the two interleave between any two
file operations. `CleanTree` keeps nothing: the leaf compared with the digests is `<name>/<version>`'s
first part (`StoreLeaf`), as in the code. A crash may fall between any two operations. The bottles of
one plan are acquired one after the other (they have different digests and share only the
nonce). `put`'s answer for a blob that exists already is left out: under the lock nobody else
puts one between `has` and `put`. `count` is history: commands, overlaps, crashes inside `put`,
collisions, extractions cut short.

### `FileTree`, `HookProgram`, `FinalizeKeg`

A tree maps paths to directories, files with contents and mode, or links; `exists` and
`is_dir` follow a link, `symlink_metadata` does not, as the code relies on in several places.
`phase` is where `finalize_with_keg` is: entries of `.bottle/etc` and `.bottle/var` (with
`.default` when the user's file differs) are put in one by one and logged in `created`; `backups` are the
copies of `collect_rollback_roots`; the undo steps run in the order of the code and stop where it stops
(`UndoStops`, `RestoreFails`, phase `stuck`). `Other` is another program that puts a file into a directory
the transaction made. A failure may fall at every step, and any step fails by itself
when the tree does not allow it.
A statement is `Makes`, the directory it makes first; `Entries`, what it goes through one by one; and `Effect`. One that
fails leaves any of the trees of `Partly`: some levels of that directory, some of the entries, a file half written, no
link where an old one was, part of a copy. An `InstallSymlink` makes its directory before it looks at its target, all others
look at both their paths first (`TwoPaths`). A child process (`System`) may change what its last argument names, or fail. A
copy of a directory, for the backups too, has the modes of the files in it but not its own (`Copied`).
A `link` that fails has made its directories by then (`LinkFails`), which nothing undoes (`torn`). `prehook` is the tree the
hook found, empty before it starts. `unlink` prunes the directories it leaves without a file, up to `bin`, `lib` and the like,
which stay, and does not ask who made them: `Hollow` are those it may take.

What a failed hook leaves is not quite what it found, and the properties say how far: below a root a directory may have lost
its mode (`CameBack`), and a directory no root covers stays (`Abandoned`): one above a root that a statement made because
it was missing, or the one made for a link whose target is refused. `torn` are also the failures after which
a prefix link may dangle: a link statement over a linked file of the keg (the node schema's `bin/npm`) that removes the
file and then fails leaves `unlink` nothing to find that link by.

`PreHookState`, `FailureLeavesPrefix` hold for a hook that stays within reach: `HookStays` says that a statement, whole or
half done, changes the keg and what is below a saved root only and elsewhere adds the directories just named and nothing
else, `KegStays` that a statement that ends well removes no file of the keg that was linked. `HookConfined` says so of
every step, and the run checks it for its hooks and the programs of the schemas: this is where a root that
`collect_rollback_roots` forgets shows.

### `HookSchemas`, `PostInstallLowering`

A body is a tree of nodes (calls, OS conditions, `exist?` conditions, helper calls, the
captured output of a command); the recursion of `lower_statement` is a stack (`work`), the helpers being
expanded `helper_stack`. `FallBack` is the second try with Tier 2. A schema is recognized by marks, calls
and helpers of a method, as `schema.rs` does by searching its text. The parser is external; string
literals, modes and resource versions are abstracted. The programs of the schemas are complete but for the arguments
below `opt/php` (a link into the keg). Not modelled: the errors of `helper_string_literal` and `extract_resource_version`,
which refuse the hook; literals of several parts
that contain `..`, a bare `libexec` base inside such a literal, and what Ruby's own `quiet_system` and `rm` do
where the runtime differs from them by design.

### `InstallMethod`, `ResolveOrder`

`catalog` is the index, which another `bd update` may replace (`Update`) while `fetch_with_deps` is
between two loads, so that `cache` mixes two indexes. The queue is a set, since the order of loads is of no
consequence. The recursion of `visit` is `path` with a list of dependencies still `todo` on each level;
`state` has its marks. The filter of planning asks for one name of the order at a time (`looked`), and a
receipt that cannot be read fails the request there. The host is an Apple Silicon machine on a macOS of
the table (`HostTagAssumption`). A version in a requirement is its major number.

### `PkgVersionOrder`

A version string is a sequence of runs of digits, letters and separators, which is all tokenization
distinguishes; `digits_to_u64` saturates at `MaxU64`. The loops of `tokenize` and of `Ord::cmp` are recursive
functions of a position and of a pair of positions; `tokens_at` and `compare_at` are one round of them. `Upgrade` replaces the installed version when
`is_outdated` says so; `past` is some version it once replaced.

### `MetadataCache`

`db` is the SQLite file (absent, without tables, or an index with its ETag, age and count). `Load`, the
request and the save are separate steps of `update`; several processes take them in any
order. A save is one transaction (`persist_formula_index`). Time is in ticks; a request and the
save of its answer take less than one, and the clock never goes back.

## What is model-checked

| run | setting | checks | shows |
|---|---|---|---|
| `pipeline_crash` | one process at a time, a bottle and a source build on top of it, four operations, every fault and crashes | `TypeOK`, `OkMeansInstalled`, `ShownIsReady`, `OnlyUpgradeTouches` | whatever failed or crashed before, Ok from a later command is true, what is shown is relocated or built to the end at every moment, and only an upgrade at that formula, or a source build of it past its opt link, changes what is installed |
| `pipeline_failures` | one process at a time, three formulae, four operations, without crashes and without the failures whose handling gives up | `ShownIsWhole`, `DepsInstalled`, `NeverLost`, `FailedEntryClean`, `ImplementsLifecycle` | the error paths leave a prefix in which what is shown is complete and nothing is lost, and `bd list` follows `FormulaLifecycle` |
| `pipeline_lock` | two processes, two operations, bottles, one of them keg-only, all faults of finalize and planning | `NoOrphans`, `HoldsLock`, `MutatedUnderLock`, `OperationsEnd` | the prefix changes only under the lock and every operation ends |
| `pipeline_orphan` | two processes, failures of acquire | `MutatedUnderLock`, violated | a thread left behind by a failed acquire writes after its lock was dropped |
| `pipeline_residue` | one process, every handled failure but those of acquire | `NoHalfInstalled`, violated | the entries after a failed one keep kegs and opt links without a receipt |
| `store_race` | two processes, three commands of install and cleanup, one formula with two bottles of two files, every fault and crashes | `TypeOK`, `BlobsAreAtomic`, `OneCollisionPerCrash`, `OwnStoreHolds`, `MaterializedIsWhole`, `CleanupReclaims` | a blob appears all at once; a temporary blob left by a crash costs at most one failed install; commands one after the other never fail on their own store, copy whole kegs and reclaim everything |
| `store_cut` | one process, failing extraction | `HitIsWhole`, violated | half a tree is taken for a finished extraction |
| `keg_undo` | 3 prefixes, 4 bottles, 16 hooks or none; 2 prefixes and the programs of 12 schemas; two failures | `FailureLeavesPrefix`, `UserFilesKept`, `PreHookState`, `HookConfined` | what was done is undone in the right order, a failed hook leaves the files and links it found, nobody else's file is lost, no statement changes a file that is neither in the keg nor below a saved root |
| `lower_hooks` | every pair of 43 statements with nested, recursive, malformed and missing helpers, and a body for every schema | `SameEffect`, `FailsClosed`, `Accepted`, `CensusExplains`, `Terminates` | a lowered hook does what the source does, what is off the allowlist is refused wherever it hides, what is on it is accepted, recursion ends |
| `resolve_plans` | graphs of up to three formulae, one built from source, with eight lists of dependencies each, the index replaced once; one formula in every form | `InstallOrder`, `CycleIsReal`, `PlanIsComplete`, `NeverMissing`, `BottleFits`, `Terminates` | the plan is ordered, complete and without repetition, a reported cycle is one, a planned bottle fits this machine |
| `version_order` | 103 version strings, every pair (triples inside the property) | `TotalOrder`, `StagesSort`, `NeverDowngrades` | the order is total and transitive, so that upgrade never comes back to a version it left |
| `cache_shared` | two processes, five commands, failures and crashes, two indexes, two ticks | `ReadIsFresh`, `UpdateBrings`, `CatchesUp` | no answer is older than its limit, an update on its own brings what it asked for, and the database ends up current |

**Bounds.** *Pipeline*: `app` needs `lib` and (in the larger graph) `src`, itself built from
source and needing `lib`: a diamond, a leaf, both methods, a formula with
and without `post_install`, and plans of up to three entries, so that with
`Limit = 2` one entry waits for a slot and a finalize failure can have entries on
both sides. Initial prefixes are all combinations of absent, old, new and
new-with-the-old-keg-kept in which installed formulae have their dependencies.
`pipeline_crash` has the bottle `lib` and `src` on top of it only, the bottle with `post_install`: `upgrade` may skip
it, and has to bring `src` up to date. Four operations let
the effects of three meet a fourth: a receipt that outlives the cleanup of a source build needs one to be
killed, one to link over it and one to fail. Two processes and two operations are enough for the lock, because
every other contender waits in the same state. *Store*: three commands are an install that
crashes, one that collides and one that comes after; two bottles are a rebuilt one and the one it
replaces; two files make half a tree possible. *Kegs and hooks*: two failures are one that starts the
undoing and one inside it; each kind of statement occurs, on a root that exists, does not exist, or is
a link, below directories that are missing, with a mode of their own, or with a target that is refused; each may stop half way. *Lowering*: a pair of statements is what one may do to another, helpers nest two deep and call each
other through a condition. *Resolution*: a cycle, a diamond and a self-loop exist among three. *Versions*:
every kind of token meets every other, at the first, second and third place, and present meets missing.
*Cache*: one index replaces another within and after the limit. The theorems below
do not depend on any of these.

Runs with `CHECK_DEADLOCK FALSE` are those whose system really stops: after `MaxOps` commands, when
the keg is finished, the hook lowered, the request decided. That no operation
stops earlier is `OperationsEnd`, `Terminates`.

`ImplementsLifecycle` maps the state to `FormulaLifecycle` with
`stage = [f |-> Stage(f)]`: a formula whose old keg exists while nothing is visible is
being replaced. It is checked under `HandledFaults`: with crashes or with a failing
restore a formula does vanish (hazards at `orchestrate.rs:518` and `:524`). `BlobsAreAtomic` maps
`content` to `blob`.

**Fairness.** In the pipeline and the cache, weak fairness of each process's own steps and of each of its threads:
an operating system schedules runnable threads, downloads end or fail. A blocked
`lock_exclusive` gets its turn under weak fairness only because the number of operations is
bounded: once the others are over, the lock stays free. `ResolveOrder` and `PostInstallLowering` are
sequential: weak fairness of the next step. None is assumed of starting a command, of
upstream, of the clock or of failing. `CatchesUp` has as a premise that some process goes on updating with
success: nothing in `bd` makes it do so.

### Findings

Three violations are recorded in `PROJECT.json`.

- `run_acquire_stage` returns at the first error and drops the other futures, but a
  `spawn_blocking` thread cannot be cancelled. `install` then cleans up, drops the lock and
  returns while the thread goes on creating kegs and opt links.
- The finalize loop leaves the entries after a failed one in the Cellar with opt links and
  without receipts, against `TODO.md`. (A later `bd install` repairs them, which is part of
  `OkMeansInstalled`.)
- `extract_tar_gz` writes straight into `store/<sha>`; a tree it left half done is a hit for the next
  install, which then installs an incomplete keg and calls it complete.

Further places where the code falls short of what one would state; the properties
above are stated so as to leave them out, and say so:

- `materialize` shows the keg and switches `opt/<name>` during acquire, where `README.md:18` has all
  Homebrew-visible mutations at finalize.
- `bd cleanup` can empty a tree that an install is copying (`MaterializedIsWhole` is about commands that do
  not overlap), and it never keeps a tree of an installed formula, since it compares a formula
  name with digests.
- A failed hook is said to be undone: `post_install.rs:83` has "Restores the pre-hook filesystem state." Directories are not
  (`PreHookState` says how far): the directory an `InstallSymlink` makes before its target is refused has no root
  (`execute.rs:32-36`, `rollback.rs:55-63`) and stays, as do new ones above a root; one that is restored is made anew
  (`rollback.rs:219-226`), so that a private `var/<name>` (0700) comes back with the default mode.
- A link statement that fails over a linked file of the keg, after the removal, leaves the prefix link of that file: `unlink`
  goes by the keg as it is then.
- A hook that moves a file out of etc or var: the source is not among the saved copies (`PreHookState`). A
  hook that removes a linked file of the keg: `unlink` goes by the keg as it is now and leaves the link.
  A statement that writes through a link out of its roots changes what is not restored.
- An etc file half copied when the disk is full is not in the undo log. A `.default` file that was there, of an earlier
  install for one, is overwritten, and a failure does not bring it back. A dangling link of the user's
  is taken for a free place (`PlacesFree`).
- `unlink` prunes directories of the user's that hold no file. A symlink that fails leaves the directories made
  for it.
- A hook that matches a schema loses whatever else it does (`SameEffect` is about bodies no schema matches); a `cert.pem` link whose ends have formula attributes
  is refused though Tier 2 allows it (`Accepted`).
- The cellar of a bottle is checked after its tag is chosen: an incompatible bottle hides compatible
  ones behind it.
- Two updates at once may leave the older index; a 304 does not renew `fetched_at`; `install` and `upgrade` look at
  no age at all; `doctor` advises `bd update`, which after a 304 changes nothing `doctor` looks at.

## What is proved

From the named assumptions on the constants, for every value they allow, and the condition in the last
column where there is one:

| module | theorem | states |
|---|---|---|
| `InstallPipeline_proofs` | `TypeCorrect` | `Spec => []TypeOK` |
| | `LockCorrect` | `Spec => []HoldsLock`, all faults and crashes |
| | `ThreadsUnderLock` | `Spec => []NoOrphans`, if no fetch and no thread fails |
| | `PrefixUnderLock` | `Spec => MutatedUnderLock`, under the same condition |
| | `ShownCorrect` | `Spec => []ShownIsReady`, under the same condition |
| | `OnlyUpgradeTouchesIt` | `Spec => OnlyUpgradeTouches`, under the same condition |
| `InstallOutcome_proofs` | `OkIsInstalled` | `Spec => []OkMeansInstalled`, under the same condition |
| | `FailureIsClean` | `Spec => []FailedEntryClean`, under the same condition, and if no opt link of a build, rollback or commit fails |
| `FormulaLifecycle_proofs` | `LifecycleImplemented` | `Spec => ImplementsLifecycle`, under the same condition, and if no commit fails |
| | `NothingLost` | `Spec => []NeverLost`, under the same condition, and if nothing crashes and no restore fails |
| | `DepsAreInstalled` | `Spec => []DepsInstalled`, likewise |
| | `ShownWhole` | `Spec => []ShownIsWhole`, likewise, and if no unlink, rollback or commit fails |
| `BottleStore_proofs` | `StoreTyped` | `Spec => []TypeOK` |
| | `BlobStoreCorrect` | `Spec => BlobsAreAtomic`: the blob store implements `ContentStore` |
| | `CollisionsArePaid` | `Spec => []OneCollisionPerCrash` |
| | `StoreHolds` | `Spec => []OwnStoreHolds`, if a bottle has a file at all |
| | `CopiedWhole` | `Spec => []MaterializedIsWhole` |
| | `CleanupIsThorough` | `Spec => []CleanupReclaims` |
| `FinalizeKeg_proofs` | `PreHookStateHolds` | `Spec => PreHookState`, if `[][HookStays]_vars` |
| | `UserFilesKeptHolds` | `Spec => []UserFilesKept`, likewise, and if `NotYetLinked` and `PlacesFree` |
| | `FailureLeavesPrefixHolds` | `Spec => []FailureLeavesPrefix`, likewise, and if `[][KegStays]_vars` |
| `ResolveOrder_proofs` | `OrderOfInstall` | `Spec => []InstallOrder` |
| | `NoneMissing` | `Spec => []NeverMissing` |
| | `CyclesAreReal` | `Spec => []CycleIsReal` |
| | `PlanComplete` | `Spec => []PlanIsComplete` |
| | `BottlesFit` | `Spec => []BottleFits` |
| `PkgVersionOrder_proofs` | `VersionsOrdered` | `Spec => []TotalOrder` |
| | `UpgradesRise` | `Spec => []NeverDowngrades`, if every version has a token |
| | `StagesAreSorted` | `Spec => []StagesSort`, if `MaxU64 >= 2` |
| `MetadataCache_proofs` | `ReadsAreFresh` | `Spec => []ReadIsFresh`, all faults and crashes |
| | `UpdateLeavesWanted` | `Spec => []UpdateBrings`, all faults and crashes |

**InstallPipeline.** The condition (`NoAcquireFaults`) excludes faults, not crashes. `ThreadsUnderLock` and
`PrefixUnderLock` need it: `pipeline_orphan` is the counterexample without it. `ShownCorrect`
needs it when there are several processes, since an orphan thread could swap a keg
another process is about to finish; with one process at a time `pipeline_crash` checks
the property with all faults.
`TypeOK` is inductive with `HasCandidate` (while the install step of
upgrade runs, `todo` is not empty, so `Head` and `Tail` are defined): `Typed`.
`HoldsLock` is inductive relative to `Typed`: one lemma (`StepsInside`) shows that every
async action starts inside the critical section unless it acquires. `MutatedUnderLock`
needs to know that no thread runs once the stage is over, which is not in
`HoldsLock`: `Awaited` says that an unfinished task belongs to a process in `acquire`
and to an entry of its plan, and that the thread's temporary keg, then its keg, is there.

`ShownIsReady` is far from inductive: `Receipt(p)` sees only that the keg exists, and
building into a keg, or removing it to replace it, is harmless only if that keg is not
shown while it goes on. Three facts about each process (`Ready`) close the gap.
`PreparedBy`: a bottle whose task is done has a `ready` keg, every bottle from `at[p]` on
still does during finalize, and a new keg has no receipt. `FreshBy`: the entries of a
plan are distinct and none still to be worked on is shown at its latest version,
although a keg with a valid receipt may be there (a failed commit leaves one behind).
`QueueBy`: the candidates of `upgrade` still to come are distinct, are shown at their
old version, and are not entries of the current plan, so that they are still fresh
when their turn comes. `HoldsLock` and `Awaited` keep other processes from disturbing
any of it. The inductive invariant is `Safe`: `Typed`, `HoldsLock`, `Awaited`, `Ready` of every
process, and `ReadyNew` (`ShownIsReady` spelled out). TLC was run on `Safe`, with three
operations and with two processes, before it was proved.

`OnlyUpgradeTouches` is about a list of pending formulae that is made once and acted on much later. `Spared`
carries the fact over: every entry the run may still take down or replace (`InWork`) is not installed, or is the
formula `upgrade` is at. A bottle is in work until its receipt is written, a source build only until its
opt link, which can show the receipt that a killed cleanup left in the keg; that is the property's second
exception, without which it fails at the third operation. The entries of a plan
are distinct (`FreshBy`), so finishing one does not show another; no other process is inside its
operation (`HoldsLock`), so nobody else installs an entry that was pending; and `cleanup_materialized_kegs`, which does not
look at what it removes, is not reached (`NoAcquireFaults`). The inductive invariant is `Kept`: `Safe` with
`Spared` of every process. TLC checked `Spared` before it was proved.

**Outcomes of an operation.** `OkMeansInstalled` says what is true when the lock is dropped; the plan was made long
before. `Aimed` carries it over: what the operation was asked for and all it needs is installed or in the plan;
the outdated names of an upgrade are still in its queue. `Opened` says what an entry has on
the way to its receipt: a bottle its opt link from the acquire stage on, a source build from its own step,
the entry at hand its links once `link` is over, and those before `at[p]` everything. So an entry is
complete when its receipt is written. Both are inductive relative to `Kept`, whatever crashes, and with any failure of finalize.
`FailedEntryClean` has `Cleaned`: after an error the entry at hand has no keg, receipt, opt link or new links, and no
thread or restore brings one of them back; a source build without a keg has no links (`Rooted`), since its cleanup unlinks
before it removes. The three errors that leave through `?` before the cleanup are excluded, and TLC finds a
counterexample with each of them: the opt link after a build, the rollback of the hook when `link` or the receipt fails, the removal of
its backups.

**FormulaLifecycle.** A receipt says installed, so it must not be there while `opt` points elsewhere and the entry is still to be
worked on: `Bared` says so of every entry without a receipt yet, and that the candidate of an upgrade is the last entry of
its plan. Then a step of the pipeline shows one formula, hides one, or neither (`OneShown`), and hiding needs an old keg:
these are the steps of the abstract machine. That it never installs before the dependencies
needs `Supplied`: what an entry depends on is installed and not in the plan, or comes before it. A failing `commit` has to be
excluded: the receipt is written by then, so the new version was shown, and the restore takes it back to the old one.
Crashes and a failing restore are allowed, since the abstract machine may stay in `replacing`.
`NeverLost` and `DepsInstalled` are about the moments when no operation runs, and there the opposite holds: a crash or a failed restore is
how a formula is lost, so both are excluded, and any other error is not. `Present`: an old keg that is not shown belongs to the candidate an
upgrade is at. `DepsSeen`: a dependency of a formula that is shown or has an old keg is, too. `ShownIsWhole` adds the links:
`NewLinked` and `OldLinked` say that what is shown has all its links, except for the formula some process is linking or
replacing. Each of the five faults excluded there has a counterexample, `rollback` and `restore` together with the failure
they answer.

**BottleStore.** That `blob` is never `part` (`NoPartBlob`) is not inductive: `Publish` renames whatever
the temporary file is. `WrittenBeforeRename` says it is whole, or gone, when a process is about to rename it.
That needs `OnlyHolderInstalls`: only the process that holds the lock is inside `put`, so nobody else
creates or writes under its name; a concurrent cleanup may remove the file, never shorten it, and a crash
leaves a half-written one under a name that the next `put` refuses (`create_new`). With `TypeOK` these are `SInv`. A
step of the store is then a `Publish`, a `Discard` or a stutter of `ContentStore`. There is no assumption on faults.

`OneCollisionPerCrash` is a counting argument. `Litter` is the set of temporary names nobody is writing. A death inside `put` adds
one name at most; a put that finds its name taken, as the nonce restarts at 0 with each process, fails and removes the file, and
`LitterCounted` says that the names left and the collisions together never exceed the deaths. The other three properties speak of commands that do not overlap (`Solitary`); each has an
invariant of the command that runs: `Holds`, what it is about to open is there; `Fills`, what it copies and what is left to copy make the
whole bottle; `Reclaims`, whatever is not to be kept is still on the list it walks. `BottleHasFiles` is needed since
a bottle with no file leaves no tree to copy from.

**FinalizeKeg.** The theorems are about every prefix, keg, `.bottle` and program, and any number of failures (the
run has two), with another program's file anywhere below a top-level directory. What a statement does is not expanded in
the proofs: `HookStays` and `KegStays` are all they know of a hook. Both are premises on the behaviour, since whether a
hook keeps them depends on the hook; the run checks them for its own (`HookConfined`). `NotYetLinked` (no link of the prefix
leads into this keg before) and `PlacesFree` (the places `.bottle` needs are not taken in a way the
undo log cannot tell) are about the starts; MC checks that its starts meet them (`StartsAreFresh`). Without the first, unlink
removes links that were there before; without the second, a `.default` is overwritten.

`PhaseInv` says what each phase has behind it: the roots are saved as the hook found them, no root is below another, none is in
the Cellar. `TreeInv`: before the hook the tree is one, every path with its directories, and when the hook starts
each linked file of the keg has something in its place. `HookInv`: what the hook does not reach is as it found it, but for
directories no root covers. Removing the roots and copying back what was saved then gives the files and links the hook
found, but for the keg, and its directories without the modes (`RestoredOf`, `PreHookState`).

`UserFilesKept` has `UserInv` on top of the first two: `LogInv`, the log names new paths of etc and var, each once; `PlaceInv`, an entry still to
come finds its place and its `.default` in a state that leads to neither being overwritten; `KeepInv`, the property itself with the one phase after which
hollow directories may be missing; `OtherInv`, the other program's file is not in the log while the log can still be
undone, since undoing removes what it names whoever made it.

`FailureLeavesPrefix` is an accounting (`AccountInv`): everything in the prefix that was not there at the start is in
the undo log, is a link of the keg that `unlink` will find (`OurAt`), a directory above one (`LinkDir`), or one that no root
covers (`Stray`); what was there is as it was or came back without its mode (`Accounted`). The tree the hook finds has
neither of these two (`FoundThen`), and a restore goes from the one account to the other. `LogClosed`, the
directories above a logged path were there or are logged earlier, keeps the account when the newest entry of the log is
undone. `LateLinks` says what linking again may have
added when it fails after the hook. In the end the log is empty, `unlink` takes the links and every directory it leaves without
a file, and what is left of the new is `bin`, `lib` and the like and the abandoned ones; what it takes of the old was hollow
(`PrunedWasHollow`). `KegStays` is needed because `unlink` goes by the keg as it is then.

**ResolveOrder.** `RInv` has four parts. What was fetched, with the queue, is closed under dependencies,
whatever index each formula came from (`FetchInv`: this is why a replaced index cannot make `visit` miss a
name, since build dependencies are decided again from the *cached* copy). The names
in progress are those on the path, each once, and the done ones are those in the order (`Marks`). Each name on the
path needs the next (`Chain`), and a dependency of it is done, still to visit, or the next on the path
(`Covered`): when its list is empty all it needs is done, hence before it in the order.
`InstallOrder` (`DepsFirst` and `EachOnce`) and `CycleIsReal` follow. Catalogs are arbitrary, and so is the number of updates.
`PlanIsComplete` has two halves. `Walk`: nothing is entered that the request does not come to (`Inside`), and a name asked for is done, still to
visit, or the first on the path (`RequestCovered`); at the end the order is closed under dependencies and has the
request in it, so it is all that is reachable (`Whole`). `Filtering`: the names looked at so far are
those found installed and those in the plan, in the order of the walk. `BottleFits` rests on a fact about two
tables, `APPLE_SILICON_CODENAMES` and `MACOS_VERSIONS`: the codenames stand in the order of falling major
versions (`CodenameMajor`), so the first candidate that has a bottle is the newest one that runs here.

**PkgVersionOrder.** The order is a loop that steps through two sequences of tokens at different speeds, passing over zeros on one
side, and falls back to comparing with a missing token at the end. `Positions`, the pairs of places, are well-founded by what is left, and
`FromUnfolds` shows that the recursive function is its own one round everywhere. Every place that is not a zero has
a key: the rank of the stage (a missing token has one between the stages that sort before and those after it) and its value. A zero can be passed over on either side
(`ZerosPass`), a positive number decides against anything else (`PositiveDecides`), and else the keys decide (`KeysDecide`). Then `Mirror` (antisymmetry)
and `Follow` (transitivity, three sequences at three places) go by induction on what is left, as least
counterexamples (`Least`, from the library's theorem on minimal elements, which takes a set where its theorem of induction takes an operator);
so does `TokenizeTyped`. `TotalOrder` follows for strings of any length and whatever the order of words is, as
long as it is one of integers. `NeverDowngrades` needs `AllParse`: for a version without a token
`is_outdated` asks only whether the strings differ, which goes both ways. `StagesSort` needs a largest number of at least 2, as it
compares revisions up to 2 and larger ones saturate; the code has 2^64 - 1.

**MetadataCache.** `ReadIsFresh` needs to know, for every stop between two reads of the database, what a save
by another process may have changed. `DbInv`: what is saved was served at its `fetched_at`, so the age that
`needs_refresh` and doctor look at bounds how long it is out of date. `Downloaded`: what is about to be saved is
still served in this tick. It follows that a save during a command (`DbAfter`) only brings an index that was
served after the command began. `Requested`: a 304 speaks of the ETag that was loaded, not of the database, and by
then the database holds the index of that ETag or one served since. `Answerable` is the same for the rest of
the command. `UpdateBrings` needs `Brings`: while all others are idle the database stays what the ETag was
read from. `CInv` is all of it with the types. That a fetch and its save take less than a tick
is built into `Tick`: a save delayed by more would store a `fetched_at` later than its index was served.

Only model-checked: liveness (`OperationsEnd`, `Terminates`, `CatchesUp`), which is outside what TLAPS does; `HookConfined`,
which some hooks do not keep, so that it can only be checked of given ones; and the properties of `PostInstallLowering` (`SameEffect`,
`FailsClosed`, `Accepted`, `CensusExplains`). These four compare the effects of programs, folds over
statements and trees of nodes, and two of them speak of a reference semantics that is recursive over the syntax.

## What is left

1. Starts in which a `.default` is there already, and hooks that leave their roots, as runs that show what is lost.
2. Upgrades whose new version changes its dependencies (hazard at `execution.rs:36`).
3. The events of `progress.rs`: one completion or failure for every start.

## Not modelled

The `test do` runtime, which no command calls; `StateDb`, which the orchestrator no longer uses; the
analyze tool; platform detection, Mach-O patching and the macOS bindings; the build systems inside a source build;
argument parsing, output, hints and progress events; Ruby and JSON parsing, SQL and HTTP: either pure
functions over large text inputs, thin I/O, or code without effect on the state modelled here.
