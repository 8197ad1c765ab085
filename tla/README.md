# A verification project for ocx

`ocx` installs OCI-packaged tools into a content-addressed store below
`$OCX_HOME`. There is no daemon: every command is a process of its own, and
processes meet only on the file system, through lock files, atomic renames,
symlinks and directories that are deleted entry by entry. Inside one process a
command is a tree of tokio tasks. What is hard to get right, and hard to test,
is what these processes and tasks do to each other and what a crash leaves
behind. That is what the modules here model.

All paths below are relative to the repository.

## Inventory

| Part | State | Operations | Meets |
|---|---|---|---|
| Lock files (`crates/ocx_util/src/fs/locked_file.rs`, `.../temp_store/acquire_result.rs`) | a path, its inode, advisory locks on open handles | try, block until a deadline, verify against the path, release with or without unlinking | everything that serialises processes |
| Temp store (`crates/ocx_store/src/file_structure/temp_store.rs`) | staging directories, each with a sibling lock file | acquire (clear leftovers), fill, drop, list stale entries | installers, `ocx clean` |
| Install symlinks and back-references (`crates/ocx_store/src/reference_manager.rs`, `.../tasks/common.rs`) | `candidates/*` and `current` symlinks, `refs/symlinks` in packages | link, unlink, select, deselect, rollback | garbage collection, which takes live back-references for roots |
| Singleflight (`crates/ocx_util/src/singleflight.rs`) | keyed entries, a watch channel per leader, a capacity | try_acquire, complete, fail, drop, wait | the tasks of a pull |
| Pull (`crates/ocx_package_manager/src/tasks/pull.rs`) | task tree, permits, staging locks, the store | set up roots, dependencies and layers; place in the store | lock files, singleflight, store |
| Garbage collection (`.../tasks/garbage_collection.rs`, `.../garbage_collection/`, `.../tasks/clean.rs`, `.../tasks/purge.rs`) | reachability graph, roots, work queue | clean, force, purge, sweep of the temp store | symlinks, project locks, patches, store |
| Lazy installs (`.../tasks/prepare_lazy.rs`) | shims | publish a shim instead of a package | store, collection |
| Project files (`crates/ocx_project/src/mutation.rs`, `mutate.rs`, `resolve.rs`, `lock.rs`) | `ocx.toml`, `ocx.lock`, the project lock | init, add, remove, lock, update, upgrade, set activate; rollback | readers that accept a pair of files; editors; the index |
| Project registry (`crates/ocx_project/src/registry.rs`, `consent.rs`) | symlink ledger, consent stamps | register, probe, prune, record, revoke, sweep | commits; collection roots |
| Resolution index (`crates/ocx_index`) | tag documents and blobs, local and remote | resolve, update, snapshot | pull |
| Rolling tags (`crates/ocx_package/src/cascade.rs`, `cascade/`, `version.rs`, `publisher.rs`, `prune.rs`) | the tags and indexes of a repository, at a registry | push, cascade, audit, repair, prune | publishers in different places, the registry's retention |
| Visibility and closures (`crates/ocx_package`) | none: pure algorithms | visibility of dependencies, resolved closures | pull, environment |
| Shell reconciliation (`crates/ocx_shell`) | ledger of exported variables | plan, apply | the prompt hook |
| Patches, managed configuration | descriptors, snapshots | discover, sync, freeze; refresh | roots of the collection; configuration tiers |
| OCI client, announce, signing, trust, setup, script, Python import, CLI, console, schema/SDK generators, launcher, test support | mostly none of their own | network, formats, presentation | |

The hard behaviours, in short: holders unlink the file others wait on;
processes die between any two system calls; the sweep of `ocx clean` decides on
a listing that has become old; `link` and `unlink` read a symlink and then act
on what they read without a lock; a failed leader is replaced while its waiters
are still waking up; tasks keep permits and staging locks while they wait for
tasks of other roots and other processes; a collection is cut short and the
next one starts from what it left; one unreadable project lock hides pins; two
files are published by two renames and a process dies between them; pins carried
over from the last lock outlive the tag they came from; a clean lists projects
that are committed to, deleted and restored meanwhile; a push moves half of its
tags, and everything written to a registry is a read, a change and an
unconditional write.
`PROJECT.json` lists these as hazards, each at its line, with the properties
that cover it.

What makes each part correct:

- lock files: mutual exclusion; nobody unlinks a successor's file; a request
  ends;
- temp store: what is published comes from one installer, once; a sweep and an
  installer never share a locked directory;
- symlinks: a completed link keeps its root; a rollback restores;
- singleflight and pull: one task per key; the store stays closed under
  dependencies; success means stored; nothing is replaced; every pull ends;
- collection: only garbage goes, a clean leaves none, a purge stays with its
  seeds;
- project files: a lock a reader accepts pins what is declared, and from the
  declared tag; a commit that succeeds leaves a current pair, failure the old one;
  no update is lost; `ocx lock` mends whatever is left;
- project registry: a clean keeps the pins, links and stamps of projects that
  are there, whatever is committed beside it;
- rolling tags: what pushes build, the audit accepts; a failed push leaves no
  gap; no alias moves back; a repair heals and takes nothing back.

## Modules

| Module | Models | Built on |
|---|---|---|
| `AdvisoryLock` | what an exclusive lock file promises (abstract specification) | |
| `LockedFile` | the lock-file protocol on one path, one action per system call | implements `AdvisoryLock` |
| `TempStore` | one staging directory with its installers and sweeps | extends `LockedFile` |
| `ReferenceManager` | `link`, `unlink`, select, deselect, rollback, one action per system call | |
| `Singleflight` | groups, leaders, waiters, capacity | |
| `Pull` | `pull_all` in several processes over one store | extends `Singleflight` |
| `GarbageCollection` | roots, marking, clean, force, purge, deletion, and the commands between collections | |
| `LockResolve` | which bindings resolve, which pins are carried, and the lock that results (operators) | |
| `ProjectMutation` | the commands that write `ocx.toml` and `ocx.lock` | extends `LockResolve` |
| `ProjectRegistry` | commits that register, projects that come and go, and `ocx clean` beside them | |
| `CascadeGraph` | the order of versions, cascades, blockers, the audit and the plan of a repair (operators) | |
| `CascadePush` | push, repair and prune over one repository | extends `CascadeGraph` |
| `LockedFileProofs`, `TempStoreProofs`, `ReferenceManagerProofs`, `PullProofs`, `GarbageCollectionProofs`, `ProjectMutationProofs`, `ProjectRegistryProofs`, `CascadePushProofs` | the theorems | the module they are named after; `TempStoreProofs` also `LockedFileProofs` |
| `MC*` | the small instances TLC checks | |

### LockedFile and AdvisoryLock

`path` is the inode the lock path names and `flock` the kernel's lock table.
`pc`, `fd`, `mode`, `tries` and `expired` are the local state of one
acquisition. `OpenLockFile`, `TakeLock`, `Contended`, `VerifyMatch`,
`VerifyMismatch` and `DropStale` are the body of the reopen loop in
`open_exclusive_blocking_with_timeout` (mode "block") and
`try_exclusive_blocking` (mode "try"); `LockMatchesPath` is
`lock_matches_path`. An inode nobody refers to may be reused by the next
create, which is what could make the comparison of device and inode lie. A
verification may also miss without a reason, because an unreadable path counts
as a mismatch in the code. `UnlinkLockFile` and `CloseUnlinked` are
`TempAcquireResult::drop` and the drop of its lock field. `Crash` closes the
handle and leaves the file. Shared locks are not modelled.

The refinement mapping: `holder` is the process past verification, `waiting`
the processes inside an acquisition call.

### TempStore

The lock protocol runs unchanged below; `job` is where a process stands in its
own code. `FinishAcquire`, `ClearOne` and `Cleared` are `finish_acquire` and
`TempDir::clear`; `Recheck`, `WritePart` and `Publish` are the parts of
`setup_owned_impl` and `extract_layer_inner` that touch the directory;
`CleanList` to `OrphanDone` are `list_all`, `stale_entries` and `clean_temp`.
`remove_dir_all` removes entry by entry and may fail in between; the rename
that publishes is atomic.

### ReferenceManager

`fwd` and `back` are the symlinks and the back-references, `sel` the select
lock of a `current` symlink, `op` the arguments and local variables of the
running call. Candidate links take no lock (`BeginUnlocked`), select and
deselect do (`BeginLocked`). The removal of an old back-reference may fail
silently, as in the code; the calls in `Failing` may fail with an error, and
only select rolls back. `hurt` is a history variable: the paths on which an
operation died or failed half-way and no later operation has run to its end.
`Clean` runs only while nothing else does.

### Singleflight and Pull

A task asks for one key and leads at most once, so the leading task stands for
the watch channel it creates. `Lead`, `Resolved`, `Join` and `CapacityExceeded`
are the four answers of `try_acquire`; `Settle` is `complete`, `fail` or the
drop of the handle; `Wake` and `StopWaiting` are the ends of `wait`.

`Pull` gives each node of the call trees a task. A leader looks at the store,
takes the item's staging lock, looks again, runs its layer and dependency tasks
in two JoinSets, and places the item by a rename. The first error in a JoinSet
dooms the rest of it; a doomed task is dropped at some await with its guard,
its handle and its own JoinSets (`Abort`). The staging lock is the abstract
lock of `AdvisoryLock`, one per item and shared by all processes; the
singleflight groups are per process. Credentials, downloads, signature checks
and assembly are one way to fail (`Faulty`).

### GarbageCollection

`Refs` is the content of the refs directories, `Leaves` the retention edge from
a manifest to the indexes that list it, `Tiers` the directories a lock's pin
roots. `Begin` collects the roots (or refuses, when a lock cannot be read),
`Visit` is one turn of `ReachabilityGraph::bfs`, `Unreachable` and
`PurgeSeeds` / `Orphaned` choose what goes, `Delete` removes one directory.
`linked` stands for the packages `ReferenceManager!HasLiveRefs` holds for. The
other commands run between collections only: `ocx clean` is documented as not
to be run beside others
(`website/src/content/docs/reference/command-line/commands.md:83`).

### LockResolve and ProjectMutation

A binding is a group and a name; a group's binding may follow the `[tools]`
entry of its name (`{ from = "default" }`). A digest is a reference and how often
its tag has moved, so that a pin tells which tag, and which of its values, it
came from. A lock keeps its entries per binding as a sequence, since nothing in
the code keeps two entries of one key apart. `LockResolve` has the pure part of
`resolve.rs`: `ExpandTouched`, `PredecessorCoherent`, `Changed`, `Seed`,
`Adopting`, `ReconcileWork`, `MergeCarryForward`, `BuildLock`. The declaration
hash is the declaration itself; `from` is no part of it (`hash.rs:18`).

In `ProjectMutation` a command takes the project lock, reads both files (`Load`),
chooses its candidate and its work (`Add` to `SetActivate`), asks the index for
one binding after another (`ResolveOne`, the tag may move in between), and
commits: `SaveLock`, then `Publish`, with `Rollback` when the second fails. Two
commands succeed without a lock of their own, `set_activate` and an `ocx add` whose
bindings are all declared and pinned (`NothingToDo`, job kind "readd"). Each
rename has three outcomes: done, failed before it, and failed in the directory
fsync after it ("unsynced"), where the code reports an error although the file
has changed. `Crash` is possible everywhere. `Edit` is an editor; `InitCheck` and
`InitWrite` are `init_project`, which looks and then renames without the lock
(`mutate.rs:428`); `outside` remembers either for the properties. Readers need no
state: they accept a lock by its hash, so `LockFollowsHash` is about the lock
alone.

### ProjectRegistry

`present`, `lock`, `link`, `stamp` are the directories, their locks, the ledger
and the consent stamps. A commit saves, registers, publishes, registers again
(`SaveLock` to `Finish`), and every registration may fail silently. A clean is
modelled look by look: `Probe`, `Reprobe`, `Prune` are the loop of `list_live`,
`LoadLock` and `RetainAll` are `collect_project_roots`, `DeleteOne` deletes from
the store as it was at `Build`, and `FindDeparted`, `Recheck`, `Unstamp` are the
sweep of the stamps. Nothing keeps a clean and the rest apart. Three variables are
history, one entry per clean. `held` is what each project that was registered when
the clean began has pinned ever since: a commit, a rollback or a departure takes
out what the new lock no longer names, and another clean that prunes the project
takes out everything. `live` (kept by `Watch`) is the projects that were live
before the clean's second look at the entry in hand and have been since. `there` is
the directories that have been there since it took up its present stamp.
The packages are the pins alone; what they reach is in
`GarbageCollection`, which takes the pins of the registered projects as roots.

### CascadeGraph and CascadePush

A tag is six numbers, with an absent part above every present one, as
`Version::cmp` orders them; `latest` and the bare name of a variant are tags
without a major. An index maps platforms to manifests, and a manifest is named by
the version and the platform it was pushed for. `Targets` and `Blockers` are
`decompose`, `Expected` is `fold_expected`, `Plan` is `diff` and `plan_repairs`.

A push lists the tags, checks its blockers level by level (`Resolve`), pushes the
manifest, and merges its platform into one tag after another (`MergeRead`,
`MergeWrite`), on the bare track too with `--default`; it may stop anywhere
(`FailPush`) and be repeated. Pushes of several platforms in one command are
separate pushes here. `List` to `EndRepair` are `gather`, `preflight` and
`apply`; `Select` to `EndPrune` are `prune`. `marks`, `torn` and `still` are
history: whether pushes failed or overlapped anything, whether a merge dropped a
platform that it had not read ("lost"), and what disturbed a repair.

Definitions whose comment begins "Faulty variant" are not part of any
specification. Each differs from the definition after it by one plausible
mistake; put in its place, the property it belongs to is violated. They are the
evidence that the properties can fail.

## Runs

| Run | Checks | Instance |
|---|---|---|
| `lockedfile` | `LockTypeOK`, `MutualExclusion`, `UnlinksOwnFile`, `ImplementsAdvisoryLock` (with its fairness) | 3 processes, 4 inodes, 2 tries |
| `tempstore` | `TempTypeOK`, `NoForeignArtifacts`, `SweepExcludesInstall`, `PublishedOnce`, `OnlyOrphanSweepDamages` | 2 installers, 1 sweep, 2 files |
| `tempstore_orphan` | `LiveInstallIntact`: violated | same |
| `references` | `RefTypeOK`, `QuietRooted`, `RollbackRestores` | 3 processes, 1 candidate, 1 current, 2 packages |
| `references_rollback` | `RollbackRestores` when a select's replacement fails: violated | same, only that call fails |
| `pull` | `PullTypeOK`, `OneFlight`, `StoreClosed`, `SuccessIsStored`, `NeverReplaced`, `PullsEnd` | 2 processes, 3 roots, 9 tasks, 5 items |
| `gc` | `GcTypeOK`, `LeavesNoGarbage`, `RemovesOnlyGarbage`, `PurgeStaysWithSeeds` | 8 objects, 1 project, interruptions |
| `gc_pull` | `PullDelivers`: violated | same, no interruptions |
| `project` | `ProjectTypeOK`, `LockSound`, `SuccessIsCurrent`, `FailureChangesNothing`, `ReconcileRepairs`, `SharedPin`, `NoLostUpdate` | 2 writers, 1 name in 2 groups, 2 tags of 1 repository, 1 edit, 1 moved tag |
| `project_duplicate` | `OneEntryPerBinding`: violated | same |
| `registry` | `RegistryTypeOK`, `CleanKeepsPins`, `CleanKeepsLinks`, `ConsentKept` | 1 project and the home, 2 packages, 3 lock contents, 1 clean, 1 commit at a time |
| `cascade` | `CascadeTypeOK`, `ReadsBackClean`, `NoGap`, `RepairHeals`, `NeverBackwards`, `RepairKeepsRight` | 6 campaigns of up to 5 pushes on 2 platforms |

Why the bounds are enough for the cases that matter:

- `TryAttempts = 2` (8 in the code): a try meets an unlinked file, goes round
  once and gives up in the second round. Three processes are a holder that
  unlinks, one waiting on the old inode and one that creates the new file. Four
  inodes are one more than there are handles, so a create never lacks an inode
  and numbers are reused.
- `Parts = 2`: a directory can be half filled and half removed.
- Two installers and a sweep: a holder, one that waits for it, and a sweep that
  listed the directory before either.
- Three processes on one candidate path: two lock-free operations overlap while
  a third completes between their steps. The current path has its lock, so
  there it is about failure and rollback.
- Pull: a and b share d, d has a layer, e may fail, and process 2 pulls d itself
  and dies at any time. The package group of process 1 has room for three of its
  four packages. With `Limit = 2` both roots of process 1 hold permits while d is
  led by one of them and its staging lock may be process 2's. The store starts as
  any dependency-closed set.
- Collection: a shared layer, a dependency, a manifest retained through an
  index, a shim, a companion and a site descriptor; every pin set, every seed
  set and every sequence of commands over them.
- Project: one name in `[tools]` and in one group is a source, a follower, a
  literal of its own or absent; two tags are a respelling, and a moved tag gives
  one of them a second digest. The files start as any declaration with no lock, a
  version 3 lock or a version 4 lock. Two writers are one that commits or dies
  and one that starts from what it left. Every hand edit is possible, once.
- Registry: `$OCX_HOME`, which is read without a ledger entry, and a project that
  is linked, committed to, deleted and restored around every step of a clean. The
  locks are empty, one package or both, so that a commit can keep, add and drop a
  pin; the theorems have any number of cleans, commits, projects and packages.
- Cascade: the campaigns are releases with builds, minors and majors and one
  failure; variants, `--default`, a pre-release and a push without cascade;
  two publishers, a repair and a registry that deletes manifests; two publishers
  of one build, one of whose merges drops the other's platform before or while a
  repair reads; the repair of one named tag; a pre-release that is pruned, by count and by force, and
  repaired. Within a campaign the pushes come in every order.

Deadlock checking is off for `tempstore` (an installer that finds its object
stored has nothing left to do, and with no directory a sweep has nothing to
list), for the pulls (a pull that has ended stops) and for `cascade` (a campaign
ends with its last push).

Symmetry is used for `tempstore`, `references` and `project`, where only safety is
checked: installers and inodes, processes and packages, writers. Nothing in the
modules distinguishes them.

## Fairness

- `LockFairness`: a thread inside an acquisition call keeps running
  (`AcquireStep`), the clock passes deadlines (`Expire`), a drop that began ends
  (`CloseUnlinked`). Nothing is assumed of holders: they may keep the lock for
  ever. A blocking request is polled on an interval until its deadline, which
  is why weak fairness is enough.
- `PullSpec`: weak fairness for every task step, since the runtime polls every
  task that can go on. `WaitTimeout`, `TempTimeout` and `Crash` are outside it:
  `PullsEnd` does not depend on a timeout to resolve a wait.
- `TempSpec`, `RefSpec` and `ProjectSpec` let a started command run on; only
  safety is checked under them. `GcSpec`, `RegistrySpec` and `CascadeSpec` have no
  fairness.

## What the violations show

- `tempstore_orphan`. A staging directory listed without a lock file is
  removed later without taking the lock (`clean.rs:340`). An installer that has
  locked it in between loses it, although the sweep means to lock "each where
  possible so a concurrent install's directory is not swept". TLC's shortest trace
  loses the directory while it is still empty; `LiveInstallIntact` is about the
  files an installer has written too.
  `OnlyOrphanSweepDamages` in the passing run says that this is the only way.
- `references_rollback`. `link` removes the old back-reference before it
  replaces the symlink. If the replacement fails, the rollback links to the old
  target, finds the symlink up to date, and returns without the back-reference;
  the selected package is no longer a root. `references` and the theorems hold
  with every other call failing.
- `gc_pull`. A purge of a dependency that an unrooted package still needs
  leaves that package in the store; a later pull of it stops at its directory
  and succeeds without the dependency.
- `project_duplicate`. `resolve_lock_reconcile` takes a follower that adopts its
  source's pin out of the seed, but `expand_touched` puts every respelled binding
  back. A group binding that is rewritten from a tag of its own to
  `{ from = "default" }` is therefore resolved together with its source and adopts
  the source's old pin as well: two entries of one key, which
  `validate_predecessor_coherence` calls a corrupt lock, and the source has moved
  although `resolve.rs:288` means to avoid that. `LockSound` holds all the same:
  both digests are ones the declared tag has had.

Also seen while modelling, without a run of their own:

- Collecting the stale temp entries locks each one that has a lock file, which
  creates or clears its directory, and drops the lock again, which unlinks the
  file, also for `--dry-run` (`temp_store.rs:156`), which "previews without
  changing anything" (`crates/ocx_cli/src/command/clean.rs:19`). `list_live`
  prunes links in a dry run too (`tasks/clean.rs:88`); `Prune` does so in the model.
- A link judged dead twice is removed even if a commit has made it again in
  between the second look and the removal (`registry.rs:264`). `CleanKeepsLinks`
  bounds the window from one side: whatever was live by the second look keeps its
  link. The documentation asks that no clean runs beside other commands. Likewise
  nothing protects the pins of a project between the save of its first lock and
  its registration, or when that registration fails (`lock.rs:694`, best effort):
  `CleanKeepsPins` is about projects the ledger has when the clean begins.
- `ocx add` of bindings that are all declared and pinned drops the guard and
  succeeds without comparing the declaration hash (`add.rs:137`), also when
  `ocx.toml` has drifted from `ocx.lock`. The documentation has no such exception:
  `ocx add` "Fails with exit 65 when `ocx.toml` drifted from `ocx.lock` before this
  add" (`reference/command-line/commands.md:54`, `ocx_cli/src/command.rs:141`), and
  "If `ocx.toml` drifted from `ocx.lock` ... the mutator fails with exit 65 before
  touching anything" (`explanation/project-toolchain.md:114`). `SuccessIsCurrent`
  names the case and says what holds there: the lock and the declaration are as they
  were found. Without that disjunct TLC finds it violated in the `project` instance,
  by an edit of `ocx.toml` before the add reads it.
- When a directory fsync fails after its rename, the commit reports an error with
  the new `ocx.lock` in place, or rolls the lock back under a new `ocx.toml`
  (`mutate.rs:40`). `FailureChangesNothing` sets these apart ("unsynced");
  `ReconcileRepairs` says the pair can be mended.
- Merges into an index are unconditional (`client.rs:543`), and there is a moment
  between the re-read of an alias and its write (`apply.rs:281`). `NoGap` and
  `NeverBackwards` are about pushes made one at a time, `RepairKeepsRight` about
  everything but that moment and changes during the gather itself.
- `RepairKeepsRight` was once stated with fewer hypotheses, and the proof failed
  where TLC then found a counterexample, with pushes of 1.1 for platform a
  and of 1.2 for a and b. Two merges overlap on the tag `1.2` and the later one
  drops a; the repair gathers and plans the alias `1` for a from 1.1; the push of
  1.2 for a is repeated and puts a back into `1.2`. The alias had 1.2 all along, so
  the re-read of `write_alias` finds it as gathered, and the repair moves it back
  to 1.1. The re-read compares the alias alone, not
  the versions the plan was computed from. `torn` now also notes a write beside a
  repair after a merge has dropped something. The hypotheses `Separate` and
  `Unambiguous` leave out rolling tags pushed by hand and a version published from
  two builds (a variant's with `--default`, and the bare one): there a version's
  own tag changes its build while the plan counts on the old one.
- The help of `cascade repair` says that "A run that cannot be completed therefore
  writes nothing at all" (`package_cascade_repair.rs:23`); `preflight` refuses
  aliases one by one, and the others are written.

## Theorems

| Theorem | Statement, for every value of the constants |
|---|---|
| `LockTypeCorrect`, `LockMutualExclusion`, `LockUnlinksOwnFile` | the invariants of `lockedfile` |
| `LockRefinesAdvisoryLock` | the protocol implements the safety part of `AdvisoryLock` |
| `TempTypeCorrect`, `NoForeignArtifactsHolds`, `SweepExcludesInstallHolds`, `PublishedOnceHolds`, `OnlyOrphanSweepDamagesHolds` | the properties of `tempstore`, for any installers, sweeps and files |
| `RefTypeCorrect`, `LinksStayRooted`, `RollbackCorrect` | the properties of `references`, assuming a select's replacement does not fail |
| `PullTypeCorrect`, `PullOneFlight`, `PullKeepsStoreClosed`, `PullSuccessIsStored`, `PullNeverReplaces` | the properties of `pull`, for any task trees, groups and processes |
| `GcTypeCorrect`, `GcRemovesOnlyGarbage`, `GcLeavesNoGarbage`, `GcPurgeStaysWithSeeds` | the properties of `gc`, for any reference graph and projects |
| `ProjectTypeCorrect`, `LockSoundHolds`, `SuccessIsCurrentHolds`, `FailureChangesNothingHolds`, `NoLostUpdateHolds`, `ReconcileRepairsHolds`, `SharedPinHolds` | the properties of `project`, for any names, groups, references, writers, edits and pushes |
| `RegistryTypeCorrect`, `CleanKeepsPinsHolds`, `CleanKeepsLinksHolds`, `ConsentKeptHolds` | the properties of `registry`, for any projects, packages, cleans and commits |
| `CascadeTypeCorrect`, `PushesReadBackClean`, `PushesLeaveNoGap`, `PushesGoForward`, `RepairsHeal`, `RepairsKeepRight` | the properties of `cascade`, for any versions, platforms, publishers and campaigns |

The assumptions are the named `ASSUME`s of the modules; TLC evaluates them on
the instances.

- `LockInv`. Mutual exclusion is not inductive: a process past `TakeLock` is
  safe only because its handle owns the lock of its inode (`HandlesOwnLocks`),
  and a holder because the path still names that inode (`UnlinksOwnFile`). Two
  holders would own the lock of one inode. The refinement has a lemma for each
  way a step moves a process between the abstract states.
- `RefInv`. `QuietRooted` speaks of paths at rest. `RootedOrRestoring` says of
  every other path that some process is going to restore it: one that is yet to
  move the symlink, one that moved it and is yet to write the back-reference,
  or a rollback. `Shape` and `Memory` tie the program counters to the arguments
  and to the select lock.
- `PullProofs`. `SuccessIsStored` and `StoreClosed` need each other through the
  channels: an "ok" in a channel means the item is stored; a task at work has
  the item's staging lock and has missed the store under it, and its keys'
  entry is its own.
- `GcInv`. While marking, what was visited or queued is reachable, and every
  neighbour of a visited object is visited or queued (`MarkInv`); with an empty
  queue the visited set is closed, hence exactly what the roots reach
  (`KeptInv`). `TargetInv` says that what is to be deleted is never kept, so a
  deletion does not change what the roots reach. `SeedInv` does the same for a
  purge's second search.
- `TempInv`. Every step of the staging directory is a step of the lock protocol
  or leaves it alone (`TempStepIsLockStep`), so `LockInv` carries over. `JobsHold`
  says which jobs are inside the lock; `WorkIsOwn` that an installer at work finds
  no other's files in the directory and nothing published.
- `ProjectInv`. `LockInv` says of the file on disk what `LockSound` needs to be
  preserved: the pins follow the hash, and a version 4 entry has the spelling its
  pin came from. `WriterInv` says of each command that it holds the project lock
  (`JobInv`) and how the files relate to what it read (`FileInv`), with the commands that write no
  lock kept apart (`Idle`). The work is in
  the lemmas on the operators: whatever is neither resolved nor adopted is carried
  unchanged under the same reference (`UnchangedCarried`, `ReconcileCarries`,
  `TouchedCarries`), so the new lock is sound whatever digests the index answered,
  and `AddFacts`, `RemoveFacts`, `RetagFacts` give that for each command's
  candidate.
- `RegistryInv`. `HeldKnown` says where a clean knows of what a project holds: the
  project is still to be probed, or a root, or still to be read, or the pins are
  collected already, in step with where the clean stands, and none of them is among
  what is to be deleted. It survives commits because `held` only shrinks to what the
  old and the new lock share, so whichever of them is read has it. `LiveWatched` says
  that an entry about to be pruned is not `live`: the second look found it dead, and
  `Watch` adds nobody from then on. `ThereHere` does the same for the directories and
  the stamp in hand. `LockThere` (a lock has its directory) and `HomeUnlinked` make
  them inductive.

- `CascadePushProofs` begins with the algebra of `CascadeGraph`: the order of
  versions is total, and of tags with six bounded parts there is a least and a
  greatest (`LeastIs`, `GreatestIs`: six times a least number, which is why no
  induction is needed beyond that of the naturals); the aliases of a version are
  a chain (`TargetsChain`); and the blockers of all levels up to an alias are the
  versions of its `Zone`, those above the pushed one that cascade into it.
  `TypeInv` is `CascadeTypeOK` made inductive: what a push has read, and what a
  repair has read and planned, is of the right subtree too.
  - `Sequential` (for `NoGap`, `NeverBackwards`), as long as nothing overlapped:
    the index about to be written is still the one that was read (`Fresh`), what
    is below it has been written (`Ordered`), and no version of the zone of an
    alias to be written has the platform (`Unpassed`). `WriteForward` draws from
    these that a write never goes back; `NoGapIn` says what a push that fails
    leaves for the next.
  - `Unfailed` (for `ReadsBackClean`), as long as nothing failed either: every
    alias of a published version serves it or a later one, or the push at work is
    still to write it (`Pending`); an alias a push gave up serves a later version
    (`Overtaken`: the blocker's own cascade has put it there).
  - `RepairInv` (for `RepairHeals`): the plan is what was planned, less what
    preflight dropped; while undisturbed the registry is what was read but for
    aliases (`Agree`), which do not change what is expected (`AgreeIs`).
  - `BackedInv` and `KeepsInv` (for `RepairKeepsRight`): until a merge drops
    something or a prune runs, every entry anywhere, also one in flight, is at the
    version's own tag as well. A repair that pushes have written beside therefore
    planned from versions that are still there: what it would write is at most
    what the registry expects now, and if the alias already has that, it was read
    with it and planned from it.

Only model-checked: liveness (`PullsEnd`, the fairness part of
`ImplementsAdvisoryLock`), which is beyond the prover.

## Limits of the models

- `Pull` starts from a closed store, which is what pulls produce. The
  collection can break that (`gc_pull`); the two are not composed.
- The staging lock of `Pull` is `AdvisoryLock`'s holder without its requests;
  the clearing of the directory is in `TempStore`.
- A deletion of one object in `GarbageCollection` is atomic; a directory that
  is half deleted when the collector dies is not distinguished.
- A store hit in `Pull` (`TryAcquire`) ends the task at once; the code first links
  the chain's blobs to the package that is there and may fail in that
  (`pull.rs:330-336`), a failure that leaves the store as it was.
- One lock path, one staging directory and one select lock per current symlink.
- Names, digests, formats and reports are left out throughout.
- A lazy install appears only by its effect on the store. The attribution of
  roots in the report of `ocx clean` is left out.
- `ProjectMutation`: the format-preserving edit of `ocx.toml`, the platforms of an
  entry and the toolchain links rendered after a commit are left out; a
  contended project lock is a command that never began. `ocx update` is modelled
  for the default group and for one binding.
- `CascadePush`: the order of entries in an index, annotations, entries without a
  platform, slots held twice and aliases that are no index (`needs_write` rewrites
  both), the staleness report of the public index and prune of explicitly named
  tags are left out. The keep tag is always written, as without `--no-keep-tag`; no
  property depends on it but through what the registry's retention may delete. But for `CascadeTypeOK` and `RepairHeals`, the properties
  leave out campaigns in which one pushed version is an alias of another (a
  rolling tag pushed by hand).
- Not modelled: the OCI client, announce, signing, trust, setup, the script
  runner, Python import, the CLI, console, generators and the launcher; they are
  network protocols, formats, text or presentation without shared state of
  their own.

## Plan

What is left, in this order:

1. `LazyInstall`: a shim staged without a lock file and published by rename,
   beside the sweep of `TempStore`.
2. `Index`: chained and local index, concurrent writers of one tag document.
3. Pure algorithms against reference definitions: visibility of dependencies,
   resolved closures, the plan of the shell reconciler.
4. `ManagedConfig` and the patch snapshot, if they fit.
