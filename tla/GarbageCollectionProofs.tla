------------------------ MODULE GarbageCollectionProofs ------------------------
(***************************************************************************)
(* The collector removes garbage only, all of it, and a purge only what    *)
(* its seeds reach: proofs for every store, every graph of references and  *)
(* any number of projects.  The inductive invariant GcInv says how far the *)
(* search has got in each phase.                                           *)
(***************************************************************************)
EXTENDS GarbageCollection, TLAPS

Live == Reach(Held, Neighbors)
FromSeeds == Reach(seeds, Neighbors)

\* The search has found every root, has queued what the visited objects refer
\* to, and has found live objects only.
MarkInv ==
    phase = "mark" =>
        /\ Held \subseteq seen \cup queue
        /\ \A o \in seen : Neighbors(o) \subseteq seen \cup queue
        /\ seen \cup queue \subseteq Live

\* Once marking is over kept is exactly the live objects: it holds the roots,
\* is closed under references, and has nothing else.
KeptInv ==
    phase \in {"seeds", "delete"} =>
        /\ Held \subseteq kept
        /\ \A o \in kept : Neighbors(o) \subseteq kept
        /\ kept \subseteq Live

\* A purge's second search stays with its seeds.
SeedInv ==
    phase = "seeds" =>
        /\ kind = "purge"
        /\ kept \subseteq seen
        /\ queue \subseteq FromSeeds
        /\ seen \subseteq kept \cup FromSeeds

\* Deletion spares what is kept, and a clean misses nothing else.
TargetInv ==
    phase = "delete" =>
        /\ targets \cap kept = {}
        /\ kind # "purge" => present \subseteq kept \cup targets

GcInv == GcTypeOK /\ MarkInv /\ KeptInv /\ SeedInv /\ TargetInv

----------------------------------------------------------------------------
\* Edges and roots stay within the objects.
LEMMA GraphTypes ==
    ASSUME GcTypeOK
    PROVE  /\ \A o \in Objs : Neighbors(o) \subseteq Objs
           /\ Held \subseteq Objs
           /\ \A k \in GcKinds : CollectRoots(k) \subseteq Objs
  BY ObjsAssumption DEF GcTypeOK, Neighbors, RefEdges, RetentionEdges, Held, CollectRoots,
         RootsOf

\* What the roots reach lies in every closed set that holds the roots.
LEMMA LiveIsLeast ==
    ASSUME NEW T \in SUBSET Objs, Held \subseteq T,
           \A y \in T : Neighbors(y) \subseteq T
    PROVE  Live \subseteq T
  BY DEF Live, Reach

\* The roots are live, and so is what a live object refers to.
LEMMA LiveIsClosed ==
    ASSUME GcTypeOK
    PROVE  Held \subseteq Live /\ \A y \in Live : Neighbors(y) \subseteq Live
  <1>1. Held \subseteq Live
    BY GraphTypes DEF Live, Reach
  <1>2. ASSUME NEW y \in Live, NEW z \in Neighbors(y)
        PROVE  z \in Live
    <2>1. z \in Objs
      BY <1>2, GraphTypes DEF Live, Reach
    <2>2. ASSUME NEW T \in SUBSET Objs, Held \subseteq T,
                 \A w \in T : Neighbors(w) \subseteq T
          PROVE  z \in T
      <3>1. y \in T
        BY <2>2, <1>2 DEF Live, Reach
      <3>. QED  BY <3>1, <2>2, <1>2
    <2>. QED  BY <2>1, <2>2 DEF Live, Reach
  <1>. QED  BY <1>1, <1>2

\* The same for what the seeds reach.
LEMMA FromSeedsIsClosed ==
    ASSUME GcTypeOK
    PROVE  seeds \subseteq FromSeeds /\ \A y \in FromSeeds : Neighbors(y) \subseteq FromSeeds
  <1>1. seeds \subseteq FromSeeds
    BY ObjsAssumption DEF FromSeeds, Reach, GcTypeOK
  <1>2. ASSUME NEW y \in FromSeeds, NEW z \in Neighbors(y)
        PROVE  z \in FromSeeds
    <2>1. z \in Objs
      BY <1>2, GraphTypes DEF FromSeeds, Reach
    <2>2. ASSUME NEW T \in SUBSET Objs, seeds \subseteq T,
                 \A w \in T : Neighbors(w) \subseteq T
          PROVE  z \in T
      <3>1. y \in T
        BY <2>2, <1>2 DEF FromSeeds, Reach
      <3>. QED  BY <3>1, <2>2, <1>2
    <2>. QED  BY <2>1, <2>2 DEF FromSeeds, Reach
  <1>. QED  BY <1>1, <1>2

\* A step that leaves the store, the roots and the kind alone moves no edge.
LEMMA SameGraph ==
    ASSUME UNCHANGED <<present, envVars, kind>>
    PROVE  Held' = Held /\ (\A o : Neighbors(o)' = Neighbors(o)) /\ Live' = Live
  <1>1. Held' = Held
    BY DEF Held, RootsOf, LockRoots, LockPins, envVars
  <1>2. \A o : Neighbors(o)' = Neighbors(o)
    BY DEF Neighbors, RefEdges, RetentionEdges
  <1>. QED  BY <1>1, <1>2 DEF Live, Reach

----------------------------------------------------------------------------
\* The empty store satisfies the invariant.
LEMMA GcInvInit == GcInit => GcInv
  BY DEF GcInit, GcInv, GcTypeOK, MarkInv, KeptInv, SeedInv, TargetInv, Phases, GcKinds

\* A collection starts from every root it must respect: nothing starts while a
\* lock is unreadable, unless it is forced.
LEMMA BeginPreserved ==
    ASSUME GcInv, NEW k \in GcKinds, NEW S \in SUBSET Pkgs, Begin(k, S)
    PROVE  GcInv'
  <1>. USE DEF GcInv, Begin
  <1>1. GcTypeOK'
    BY GraphTypes DEF GcTypeOK, Phases
  <1>2. Held' = queue'
    BY DEF Held, CollectRoots, RootsOf, LockRoots, LockPins, GcTypeOK
  <1>3. MarkInv'
    <2>1. Held' \subseteq Live'
      BY <1>1, <1>2 DEF Live, Reach, GcTypeOK
    <2>. QED  BY <1>2, <2>1 DEF MarkInv
  <1>. QED  BY <1>1, <1>3 DEF KeptInv, SeedInv, TargetInv

\* A turn of the search.
LEMMA VisitPreserved ==
    ASSUME GcInv, Visit
    PROVE  GcInv'
  <1>. USE DEF GcInv
  <1>. PICK o \in queue :
          /\ seen' = seen \cup {o}
          /\ queue' = (queue \ {o}) \cup (IF o \in seen THEN {} ELSE Neighbors(o))
    BY DEF Visit
  <1>1. /\ phase \in {"mark", "seeds"}
        /\ UNCHANGED <<present, envVars, phase, kind, seeds, kept, targets>>
    BY DEF Visit
  <1>2. GcTypeOK'
    BY <1>1, GraphTypes DEF GcTypeOK, envVars
  <1>3. Held' = Held /\ (\A x : Neighbors(x)' = Neighbors(x)) /\ Live' = Live
    BY <1>1, SameGraph
  <1>4. MarkInv'
    BY <1>1, <1>3, LiveIsClosed DEF MarkInv
  <1>5. KeptInv'
    BY <1>1, <1>3 DEF KeptInv
  <1>6. SeedInv'
    <2>1. FromSeeds' = FromSeeds
      BY <1>1, <1>3 DEF FromSeeds, Reach
    <2>. QED  BY <1>1, <2>1, FromSeedsIsClosed DEF SeedInv
  <1>. QED  BY <1>1, <1>2, <1>4, <1>5, <1>6 DEF TargetInv

\* The end of the marking, of a clean and of a purge, and of a purge's search.
LEMMA MarkedPreserved ==
    ASSUME GcInv, Unreachable \/ PurgeSeeds \/ Orphaned
    PROVE  GcInv'
  <1>. USE DEF GcInv
  <1>1. UNCHANGED <<present, envVars, kind>>
    BY DEF Unreachable, PurgeSeeds, Orphaned
  <1>2. Held' = Held /\ (\A x : Neighbors(x)' = Neighbors(x)) /\ Live' = Live
    BY <1>1, SameGraph
  <1>3. GcTypeOK'
    BY ObjsAssumption DEF GcTypeOK, Phases, envVars, Unreachable, PurgeSeeds, Orphaned
  <1>4. MarkInv'
    BY DEF MarkInv, Unreachable, PurgeSeeds, Orphaned
  <1>5. KeptInv'
    <2>1. CASE Orphaned
      BY <2>1, <1>2 DEF KeptInv, Orphaned
    <2>2. CASE Unreachable \/ PurgeSeeds
      BY <2>2, <1>2 DEF KeptInv, MarkInv, Unreachable, PurgeSeeds
    <2>. QED  BY <2>1, <2>2
  <1>6. SeedInv'
    <2>1. CASE PurgeSeeds
      <3>1. FromSeeds' = FromSeeds
        BY <2>1, <1>2 DEF FromSeeds, Reach, PurgeSeeds
      <3>. QED  BY <2>1, <3>1, FromSeedsIsClosed DEF SeedInv, PurgeSeeds
    <2>. QED  BY <2>1 DEF SeedInv, Unreachable, Orphaned
  <1>7. TargetInv'
    <2>1. CASE Orphaned
      <3>1. kind = "purge"
        BY <2>1 DEF Orphaned, SeedInv
      <3>. QED  BY <2>1, <3>1 DEF TargetInv, Orphaned
    <2>. QED  BY <2>1 DEF TargetInv, Unreachable, PurgeSeeds
  <1>. QED  BY <1>3, <1>4, <1>5, <1>6, <1>7

\* Deleting what is not kept changes neither the roots nor an edge of a kept
\* object, so the live objects stay the same.
LEMMA DeletePreserved ==
    ASSUME GcInv, Delete
    PROVE  GcInv'
  <1>. USE DEF GcInv
  <1>. PICK d \in targets : present' = present \ {d} /\ targets' = targets \ {d}
    BY DEF Delete
  <1>1. phase = "delete" /\ UNCHANGED <<envVars, phase, kind, seeds, queue, seen, kept>>
    BY DEF Delete
  <1>2. d \notin kept
    BY <1>1 DEF TargetInv
  <1>3. GcTypeOK'
    BY <1>1 DEF GcTypeOK, envVars
  <1>4. Held' = Held
    BY <1>1, <1>2 DEF Held, RootsOf, LockRoots, LockPins, envVars, KeptInv
  <1>5. \A o \in kept : Neighbors(o)' = Neighbors(o)
    <2>1. \A o \in kept : Neighbors(o) \subseteq kept
      BY <1>1 DEF KeptInv
    <2>. QED  BY <1>2, <2>1 DEF Neighbors, RefEdges, RetentionEdges
  <1>6. kept \subseteq Live'
    <2>1. kept \subseteq Objs
      BY DEF GcTypeOK
    <2>2. ASSUME NEW T \in SUBSET Objs, Held' \subseteq T,
                 \A y \in T : Neighbors(y)' \subseteq T
          PROVE  kept \subseteq T
      <3>1. /\ Held \subseteq T \cap kept
            /\ \A y \in T \cap kept : Neighbors(y) \subseteq T \cap kept
        BY <1>1, <1>4, <1>5, <2>2 DEF KeptInv
      <3>2. Live \subseteq T \cap kept
        BY <3>1, LiveIsLeast
      <3>. QED  BY <3>2, <1>1 DEF KeptInv
    <2>. QED  BY <2>1, <2>2 DEF Live, Reach
  <1>7. KeptInv'
    BY <1>1, <1>4, <1>5, <1>6 DEF KeptInv
  <1>. QED  BY <1>1, <1>3, <1>7 DEF MarkInv, SeedInv, TargetInv

\* The end of a collection, and every command that runs between collections.
LEMMA IdlePreserved ==
    ASSUME GcInv, GcDone \/ Interrupt \/ OtherCommand
    PROVE  GcInv'
  <1>. USE DEF GcInv
  <1>1. CASE GcDone \/ Interrupt
    BY <1>1 DEF GcDone, Interrupt, GcReset, GcTypeOK, Phases, envVars,
                MarkInv, KeptInv, SeedInv, TargetInv
  <1>2. CASE OtherCommand
    <2>1. phase' = "idle"
      BY <1>2 DEF OtherCommand, Pull, Defer, Link, Unlink, StoreBlob, WriteLock,
                  ChangeReadable, gcVars
    <2>2. GcTypeOK'
      BY <1>2, ObjsAssumption
         DEF OtherCommand, Pull, Defer, Link, Unlink, StoreBlob, WriteLock,
             ChangeReadable, gcVars, GcTypeOK, Reach
    <2>. QED  BY <2>1, <2>2 DEF MarkInv, KeptInv, SeedInv, TargetInv
  <1>. QED  BY <1>1, <1>2

\* GcInv is inductive.
LEMMA GcInvNext == GcInv /\ [GcNext]_vars => GcInv'
  <1>. SUFFICES ASSUME GcInv, [GcNext]_vars PROVE GcInv'
    OBVIOUS
  <1>1. CASE \E k \in GcKinds, S \in SUBSET Pkgs : Begin(k, S)
    BY <1>1, BeginPreserved
  <1>2. CASE GcStep
    BY <1>2, VisitPreserved, MarkedPreserved, DeletePreserved, IdlePreserved DEF GcStep
  <1>3. CASE OtherCommand
    BY <1>3, IdlePreserved
  <1>4. CASE UNCHANGED vars
    <2>1. GcTypeOK'
      BY <1>4 DEF GcInv, GcTypeOK, vars, envVars, gcVars
    <2>2. Held' = Held /\ (\A o : Neighbors(o)' = Neighbors(o)) /\ Live' = Live
      BY <1>4, SameGraph DEF vars, gcVars
    <2>3. FromSeeds' = FromSeeds
      BY <1>4, <2>2 DEF FromSeeds, Reach, vars, gcVars
    <2>. QED  BY <1>4, <2>1, <2>2, <2>3
              DEF GcInv, MarkInv, KeptInv, SeedInv, TargetInv, vars, envVars, gcVars
  <1>. QED  BY <1>1, <1>2, <1>3, <1>4, ObjsAssumption DEF GcNext, GcKinds

\* GcInv holds throughout.
LEMMA GcInvAlways == GcSpec => []GcInv
  BY GcInvInit, GcInvNext, PTL DEF GcSpec

----------------------------------------------------------------------------
\* Every variable keeps its type.
THEOREM GcTypeCorrect == GcSpec => []GcTypeOK
  <1>1. GcInv => GcTypeOK
    BY DEF GcInv
  <1>. QED  BY <1>1, GcInvAlways, PTL

\* delete_objects never removes what an install symlink, a site patch or,
\* unless forced, a project's lock reaches, for every store and graph.
THEOREM GcRemovesOnlyGarbage == GcSpec => RemovesOnlyGarbage
  <1>1. GcInv /\ [GcNext]_vars =>
            [phase = "delete" => (present \ present') \cap Reach(Held, Neighbors) = {}]_vars
    <2>. SUFFICES ASSUME GcInv, [GcNext]_vars, phase = "delete"
                  PROVE  (present \ present') \cap Live = {}
      BY DEF Live
    <2>1. Live \subseteq kept
      BY LiveIsLeast DEF GcInv, GcTypeOK, KeptInv
    <2>2. present \ present' \subseteq targets
      BY DEF GcNext, Begin, GcStep, Visit, Unreachable, PurgeSeeds, Orphaned, Delete, GcDone,
             Interrupt, OtherCommand, Pull, Defer, Link, Unlink, StoreBlob, WriteLock,
             ChangeReadable, vars
    <2>. QED  BY <2>1, <2>2 DEF GcInv, TargetInv
  <1>. QED  BY <1>1, GcInvAlways, PTL DEF GcSpec, RemovesOnlyGarbage

\* A clean that ran to its end left no unreachable object behind.
THEOREM GcLeavesNoGarbage == GcSpec => []LeavesNoGarbage
  <1>1. GcInv => LeavesNoGarbage
    BY DEF GcInv, TargetInv, KeptInv, LeavesNoGarbage, Live
  <1>. QED  BY <1>1, GcInvAlways, PTL

\* A purge removes nothing its seeds do not reach (orphaned_by_seeds).
THEOREM GcPurgeStaysWithSeeds == GcSpec => PurgeStaysWithSeeds
  <1>1. GcInv /\ [GcNext]_vars =>
            [phase = "seeds" /\ phase' = "delete" => targets' \subseteq Reach(seeds, Neighbors)]_vars
    <2>. SUFFICES ASSUME GcInv, [GcNext]_vars, phase = "seeds", phase' = "delete"
                  PROVE  targets' \subseteq FromSeeds
      BY DEF FromSeeds
    <2>1. Orphaned
      BY DEF GcNext, Begin, GcStep, Visit, Unreachable, PurgeSeeds, Delete, GcDone, GcReset,
             Interrupt, OtherCommand, Pull, Defer, Link, Unlink, StoreBlob, WriteLock,
             ChangeReadable, vars, gcVars
    <2>. QED  BY <2>1 DEF Orphaned, GcInv, SeedInv
  <1>. QED  BY <1>1, GcInvAlways, PTL DEF GcSpec, PurgeStaysWithSeeds
================================================================================
