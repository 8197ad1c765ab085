--------------------------- MODULE GarbageCollection ---------------------------
(***************************************************************************)
(* The collector of the object store: `ocx clean`, `ocx clean --force` and *)
(* `--purge`.  It collects roots (install symlinks, project locks, site    *)
(* patches), marks what they reach breadth first over the refs directories *)
(* and the index-retention edges, and deletes the rest, or, for a purge,   *)
(* what only the given seeds reach, one object directory at a time.  It    *)
(* may die or fail between any two steps.                                  *)
(*                                                                         *)
(* Other commands change the store, the symlinks and the locks between     *)
(* collections, never during one: the documentation forbids it.  linked    *)
(* stands for the packages that ReferenceManager!HasLiveRefs holds for.    *)
(***************************************************************************)
CONSTANTS
    Objs,           \* directories of the packages, layers, blobs and shims tiers
    Pkgs,
    Tools,          \* packages that users install, pin and purge by name
    Blobs,
    Refs,           \* Refs[o]: the targets of o's refs/deps, refs/layers, refs/blobs
    Leaves,         \* Leaves[b]: the manifests the image index b lists, {} for others
    Tiers,          \* Tiers[x]: the objects a lock's pin of x roots: x and its shim
    Projects,       \* registered projects, and $OCX_HOME itself
    PatchRoots,     \* PatchRoots[x]: companions and descriptors for x and its dependencies
    SiteRoots,      \* the global descriptor and the patch snapshot, whatever is in use
    Interruptible   \* whether a collection may be cut short

ASSUME ObjsAssumption ==
    /\ Pkgs \subseteq Objs /\ Tools \subseteq Pkgs /\ Blobs \subseteq Objs /\ SiteRoots \subseteq Objs
    /\ Refs \in [Objs -> SUBSET Objs]
    /\ Leaves \in [Blobs -> SUBSET Blobs]
    /\ Tiers \in [Pkgs -> SUBSET Objs] /\ PatchRoots \in [Pkgs -> SUBSET Objs]
    /\ Interruptible \in BOOLEAN

VARIABLES
    present,        \* objects on disk
    linked,         \* packages with a live install symlink
    pins,           \* pins[q]: the packages q's ocx.lock pins
    unreadable,     \* projects whose lock or config cannot be read now
    pulled,         \* {x} when the last command was a pull of x, else {}
    phase,          \* of the collector
    kind,           \* what it was started as
    seeds,          \* the packages a purge was asked to remove
    queue,          \* breadth first search: what is still to visit ...
    seen,           \* ... and what was visited
    kept,           \* what the roots reach, once that is known
    targets         \* what is still to delete

envVars == <<linked, pins, unreadable, pulled>>
gcVars == <<phase, kind, seeds, queue, seen, kept, targets>>
vars == <<present, envVars, gcVars>>

Phases == {"idle", "mark", "seeds", "delete"}
GcKinds == {"clean", "force", "purge"}

\* read_refs of an object that the store lists.  A layer or blob has no refs.
RefEdges(o) == IF o \in present THEN Refs[o] ELSE {}

\* From a manifest to the listed indexes that list it.
RetentionEdges(o) == {b \in Blobs \cap present : o \in Leaves[b]}

\* Out-edges in the reachability graph.
Neighbors(o) == RefEdges(o) \cup RetentionEdges(o)

LockPins(Q) == UNION {pins[q] : q \in Q}

\* A pin roots whatever tiers hold the package.
LockRoots(Q) == UNION {Tiers[x] : x \in LockPins(Q)}

\* The roots when the locks of Q count: linked packages, pinned packages and
\* shims, and the patches of all of them.  Only what is there can be a root.
RootsOf(Q) ==
    present \cap (linked \cup LockRoots(Q) \cup SiteRoots
                  \cup UNION {PatchRoots[x] : x \in linked \cup LockPins(Q)})

\* collect_project_roots and the patch roots; --force reads no project lock.
CollectRoots(k) == RootsOf(IF k = "force" THEN {} ELSE Projects \ unreadable)

GcInit ==
    /\ present = {} /\ linked = {} /\ unreadable = {} /\ pulled = {}
    /\ pins = [q \in Projects |-> {}]
    /\ phase = "idle" /\ kind = "clean"
    /\ seeds = {} /\ queue = {} /\ seen = {} /\ kept = {} /\ targets = {}

----------------------------------------------------------------------------
(* The collector *)

\* Faulty variant: an unreadable lock only loses its own pins.
BeginAnyway(k, S) ==
    /\ phase = "idle"
    /\ phase' = "mark" /\ kind' = k /\ seeds' = S
    /\ queue' = CollectRoots(k) /\ seen' = {}
    /\ pulled' = {}
    /\ UNCHANGED <<present, linked, pins, unreadable, kept, targets>>

\* One unreadable lock retains everything (RetainAll), so nothing starts.
Begin(k, S) ==
    /\ phase = "idle"
    /\ k = "force" \/ unreadable = {}
    /\ phase' = "mark" /\ kind' = k /\ seeds' = S
    /\ queue' = CollectRoots(k) /\ seen' = {}
    /\ pulled' = {}
    /\ UNCHANGED <<present, linked, pins, unreadable, kept, targets>>

\* One turn of ReachabilityGraph::bfs.
Visit ==
    /\ phase \in {"mark", "seeds"}
    /\ \E o \in queue :
          /\ seen' = seen \cup {o}
          /\ queue' = (queue \ {o}) \cup (IF o \in seen THEN {} ELSE Neighbors(o))
    /\ UNCHANGED <<present, envVars, phase, kind, seeds, kept, targets>>

\* Faulty variant: blobs are never collected.
UnreachableDirs ==
    /\ phase = "mark" /\ queue = {} /\ kind # "purge"
    /\ phase' = "delete" /\ kept' = seen
    /\ targets' = (present \ seen) \ Blobs
    /\ UNCHANGED <<present, envVars, kind, seeds, queue, seen>>

\* unreachable_objects, for a clean.
Unreachable ==
    /\ phase = "mark" /\ queue = {} /\ kind # "purge"
    /\ phase' = "delete" /\ kept' = seen
    /\ targets' = present \ seen
    /\ UNCHANGED <<present, envVars, kind, seeds, queue, seen>>

\* A purge keeps the seeds that a root holds, and marks on from the others.
PurgeSeeds ==
    /\ phase = "mark" /\ queue = {} /\ kind = "purge"
    /\ phase' = "seeds" /\ kept' = seen
    /\ queue' = seeds \ seen
    /\ UNCHANGED <<present, envVars, kind, seeds, seen, targets>>

\* Faulty variant: a purge takes all the garbage.
OrphanedAll ==
    /\ phase = "seeds" /\ queue = {}
    /\ phase' = "delete"
    /\ targets' = present \ kept
    /\ UNCHANGED <<present, envVars, kind, seeds, queue, seen, kept>>

\* orphaned_by_seeds
Orphaned ==
    /\ phase = "seeds" /\ queue = {}
    /\ phase' = "delete"
    /\ targets' = (seen \ kept) \cap present
    /\ UNCHANGED <<present, envVars, kind, seeds, queue, seen, kept>>

\* delete_objects, one directory.
Delete ==
    /\ phase = "delete"
    /\ \E o \in targets : present' = present \ {o} /\ targets' = targets \ {o}
    /\ UNCHANGED <<envVars, phase, kind, seeds, queue, seen, kept>>

GcReset ==
    /\ phase' = "idle"
    /\ seeds' = {} /\ queue' = {} /\ seen' = {} /\ kept' = {} /\ targets' = {}
    /\ UNCHANGED kind

GcDone ==
    /\ phase = "delete" /\ targets = {}
    /\ GcReset
    /\ UNCHANGED <<present, envVars>>

\* The collector dies, or a directory cannot be removed and the rest stays.
Interrupt ==
    /\ Interruptible
    /\ phase # "idle"
    /\ GcReset
    /\ UNCHANGED <<present, envVars>>

----------------------------------------------------------------------------
(* The other commands *)

\* What S reaches over the edges E: the least set with S that is closed.
Reach(S, E(_)) ==
    {o \in Objs : \A T \in SUBSET Objs : S \subseteq T /\ (\A y \in T : E(y) \subseteq T) => o \in T}

\* A pull stops at a package that is there already, and fetches whatever a
\* missing one refers to; only the chain blobs of x itself are topped up.
Missing(o) == IF o \in present THEN {} ELSE Refs[o]

Pull(x) ==
    /\ phase = "idle"
    /\ present' = present \cup Reach({x}, Missing) \cup (Refs[x] \cap Blobs)
    /\ pulled' = {x}
    /\ UNCHANGED <<linked, pins, unreadable, gcVars>>

\* A lazy install publishes the shim of x and the blobs it refers to.
Defer(x) ==
    /\ phase = "idle"
    /\ present' = present \cup UNION {{s} \cup Refs[s] : s \in Tiers[x] \ Pkgs}
    /\ pulled' = {}
    /\ UNCHANGED <<linked, pins, unreadable, gcVars>>

\* Resolving a tag stores the image index, patch discovery the descriptor.
StoreBlob(b) ==
    /\ phase = "idle"
    /\ Leaves[b] # {} \/ b \in SiteRoots
    /\ present' = present \cup {b}
    /\ pulled' = {}
    /\ UNCHANGED <<linked, pins, unreadable, gcVars>>

Link(x) ==
    /\ phase = "idle"
    /\ x \in present
    /\ linked' = linked \cup {x}
    /\ pulled' = {}
    /\ UNCHANGED <<present, pins, unreadable, gcVars>>

Unlink(x) ==
    /\ phase = "idle"
    /\ linked' = linked \ {x}
    /\ pulled' = {}
    /\ UNCHANGED <<present, pins, unreadable, gcVars>>

\* Faulty variant: the lock names directories of any tier.
WriteLockTiers(q, S) ==
    /\ phase = "idle"
    /\ pins' = [pins EXCEPT ![q] = UNION {Tiers[x] : x \in S}]
    /\ pulled' = {}
    /\ UNCHANGED <<present, linked, unreadable, gcVars>>

\* A project's lock is rewritten, or goes away with its pins.
WriteLock(q, S) ==
    /\ phase = "idle"
    /\ pins' = [pins EXCEPT ![q] = S]
    /\ pulled' = {}
    /\ UNCHANGED <<present, linked, unreadable, gcVars>>

ChangeReadable(Q) ==
    /\ phase = "idle"
    /\ unreadable' = Q
    /\ pulled' = {}
    /\ UNCHANGED <<present, linked, pins, gcVars>>

----------------------------------------------------------------------------
GcStep == Visit \/ Unreachable \/ PurgeSeeds \/ Orphaned \/ Delete \/ GcDone \/ Interrupt

OtherCommand ==
    \/ \E x \in Pkgs : Pull(x)
    \/ \E x \in Tools : Defer(x) \/ Link(x) \/ Unlink(x)
    \/ \E b \in Blobs : StoreBlob(b)
    \/ \E q \in Projects, S \in SUBSET Tools : WriteLock(q, S)
    \/ \E Q \in SUBSET Projects : ChangeReadable(Q)

GcNext ==
    \/ Begin("clean", {}) \/ Begin("force", {})
    \/ \E S \in SUBSET Tools : Begin("purge", S)
    \/ GcStep
    \/ OtherCommand

GcSpec == GcInit /\ [][GcNext]_vars

----------------------------------------------------------------------------
(* Properties *)

\* Every variable keeps its type.
GcTypeOK ==
    /\ present \subseteq Objs /\ linked \subseteq Pkgs
    /\ pins \in [Projects -> SUBSET Pkgs] /\ unreadable \subseteq Projects
    /\ pulled \subseteq Pkgs
    /\ phase \in Phases /\ kind \in GcKinds
    /\ seeds \subseteq Pkgs
    /\ queue \subseteq Objs /\ seen \subseteq Objs /\ kept \subseteq Objs /\ targets \subseteq Objs

\* What must survive a collection: what the install symlinks hold always, and
\* what every lock holds, readable or not, unless the collection is forced.
Held == RootsOf(IF kind = "force" THEN {} ELSE Projects)

\* No collection removes an object that something held still reaches, also
\* when a project's lock cannot be read ("over-retention recovers, a deleted
\* lock-pinned package does not", purge.rs), and however earlier collections
\* were cut short.
RemovesOnlyGarbage ==
    [][phase = "delete" => (present \ present') \cap Reach(Held, Neighbors) = {}]_vars

\* A clean that runs to its end leaves nothing unreachable behind
\* (unreachable_objects, delete_objects).
LeavesNoGarbage ==
    phase = "delete" /\ targets = {} /\ kind # "purge" =>
        present \subseteq Reach(Held, Neighbors)

\* A purge removes only what its seeds reach: unrelated garbage is left to
\* `ocx clean` (orphaned_by_seeds).
PurgeStaysWithSeeds ==
    [][phase = "seeds" /\ phase' = "delete" => targets' \subseteq Reach(seeds, Neighbors)]_vars

\* What x depends on, directly or not.
AllRefs(o) == Refs[o]
Dependencies(x) == Pkgs \cap Reach({x}, AllRefs)

\* "Downloads a package and its transitive dependencies into the object store"
\* (PackageManager::pull): when a pull of x returns, they are there.
PullDelivers == \A x \in pulled : Dependencies(x) \subseteq present
================================================================================
