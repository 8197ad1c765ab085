-------------------------------- MODULE TempStore --------------------------------
(***************************************************************************)
(* One staging directory of the temp store, its sibling lock file and the  *)
(* processes that use them: installers (acquire, clear, fill, rename into  *)
(* the object store, drop) and `ocx clean` sweeps (list, then either lock, *)
(* clear and remove, or remove an "orphan" that has no lock file).  The    *)
(* lock file follows LockedFile; this module adds the directory.           *)
(*                                                                         *)
(* remove_dir_all is not atomic: it removes entry by entry, then the       *)
(* directory.  Renaming the directory into the store is.                   *)
(***************************************************************************)
EXTENDS LockedFile

CONSTANTS
    Installers,     \* processes that run setup_owned_impl / extract_layer_inner
    Cleaners,       \* processes that run clean_temp
    Parts,          \* how many files an installer writes before publishing
    NotStored       \* the store has no object for this directory yet

ASSUME RolesAssumption == Installers \cap Cleaners = {} /\ Procs = Installers \cup Cleaners
ASSUME PartsAssumption == Parts \in Nat \ {0}

VARIABLES
    dirExists,      \* the staging directory is on disk
    files,          \* the files in it, as <<writer, part>>
    store,          \* the published object: the files renamed into place
    job,            \* job[p]: where p stands in its own code
    done,           \* done[p]: parts an installer has written
    dry             \* dry[p]: the sweep p runs was asked for with --dry-run

dirVars == <<dirExists, files, store>>
tempVars == <<lockVars, dirVars, job, done, dry>>

\* try and block are the two acquisition calls; list..drop the code after it.
Jobs == {"idle", "list", "try", "block", "clear", "recheck", "write", "sweep",
         "orphan", "drop", "close"}

TempInit ==
    /\ LockInit
    /\ dirExists \in BOOLEAN                 \* a failed install may have left it
    /\ files = {}
    /\ store = NotStored
    /\ job = [p \in Procs |-> "idle"]
    /\ done = [p \in Procs |-> 0]
    /\ dry = [p \in Procs |-> FALSE]

Job(p, j) == job' = [job EXCEPT ![p] = j]

----------------------------------------------------------------------------
(* Acquisition, shared by installers and sweeps *)

\* Progress inside try_exclusive_blocking or open_exclusive_blocking.
LockStep(p) ==
    /\ job[p] \in {"try", "block"}
    /\ AcquireStep(p) \/ Expire(p)
    /\ UNCHANGED <<dirVars, job, done, dry>>

\* finish_acquire: the lock is held; create_dir_all.
FinishAcquire(p) ==
    /\ job[p] \in {"try", "block"} /\ Held(p)
    /\ dirExists' = TRUE
    /\ Job(p, "clear")
    /\ UNCHANGED <<lockVars, files, store, done, dry>>

\* TempDir::clear removes the leftovers entry by entry.
ClearOne(p) ==
    /\ job[p] = "clear"
    /\ \E f \in files : files' = files \ {f}
    /\ UNCHANGED <<lockVars, dirExists, store, job, done, dry>>

\* Faulty variant: the directory is used as it was found.
ClearedNothing(p) ==
    /\ job[p] = "clear"
    /\ Job(p, IF p \in Installers THEN "recheck" ELSE IF dry[p] THEN "drop" ELSE "sweep")
    /\ UNCHANGED <<lockVars, dirVars, done, dry>>

Cleared(p) ==
    /\ job[p] = "clear" /\ files = {}
    /\ Job(p, IF p \in Installers THEN "recheck" ELSE IF dry[p] THEN "drop" ELSE "sweep")
    /\ UNCHANGED <<lockVars, dirVars, done, dry>>

\* TempAcquireResult::drop: unlink the lock file, then close it.
DropTemp(p) ==
    /\ job[p] = "drop"
    /\ UnlinkLockFile(p)
    /\ Job(p, "close")
    /\ UNCHANGED <<dirVars, done, dry>>

CloseTemp(p) ==
    /\ job[p] = "close"
    /\ CloseUnlinked(p)
    /\ Job(p, "idle")
    /\ done' = [done EXCEPT ![p] = 0]
    /\ dry' = [dry EXCEPT ![p] = FALSE]
    /\ UNCHANGED dirVars

\* finish_acquire fails (an entry cannot be removed): the LockedFile drops
\* without the unlink, and the call returns the error.
AcquireError(p) ==
    /\ job[p] = "clear"
    /\ DropHandle(p)
    /\ Job(p, "idle")
    /\ dry' = [dry EXCEPT ![p] = FALSE]
    /\ UNCHANGED <<dirVars, done>>

----------------------------------------------------------------------------
(* Installers *)

\* The unlocked look at the store comes first; a miss goes for the lock.
InstallBegin(p) ==
    /\ p \in Installers /\ job[p] = "idle"
    /\ store = NotStored
    /\ Begin(p, "try")
    /\ Job(p, "try")
    /\ UNCHANGED <<dirVars, done, dry>>

\* acquire_temp_dir: the try found the lock busy, so wait for it.
InstallWait(p) ==
    /\ p \in Installers /\ job[p] = "try"
    /\ Begin(p, "block")
    /\ Job(p, "block")
    /\ UNCHANGED <<dirVars, done, dry>>

\* Faulty variant: after the timeout the installer goes on without the lock.
InstallUnlocked(p) ==
    /\ job[p] = "block" /\ pc[p] = "idle"
    /\ Job(p, "clear")
    /\ UNCHANGED <<lockVars, dirVars, done, dry>>

InstallTimeout(p) ==
    /\ job[p] = "block" /\ pc[p] = "idle"
    /\ Job(p, "idle")
    /\ UNCHANGED <<lockVars, dirVars, done, dry>>

\* Faulty variant: no second look.
RecheckNothing(p) ==
    /\ job[p] = "recheck"
    /\ Job(p, "write")
    /\ UNCHANGED <<lockVars, dirVars, done, dry>>

\* The look at the store again, under the lock.
Recheck(p) ==
    /\ job[p] = "recheck"
    /\ Job(p, IF store # NotStored THEN "drop" ELSE "write")
    /\ UNCHANGED <<lockVars, dirVars, done, dry>>

\* Faulty variant: off by one.
WritePartTooMany(p) ==
    /\ job[p] = "write" /\ done[p] <= Parts
    /\ dirExists
    /\ files' = files \cup {<<p, done[p] + 1>>}
    /\ done' = [done EXCEPT ![p] = @ + 1]
    /\ UNCHANGED <<lockVars, dirExists, store, job, dry>>

WritePart(p) ==
    /\ job[p] = "write" /\ done[p] < Parts
    /\ dirExists
    /\ files' = files \cup {<<p, done[p] + 1>>}
    /\ done' = [done EXCEPT ![p] = @ + 1]
    /\ UNCHANGED <<lockVars, dirExists, store, job, dry>>

\* A download, a write into a removed directory or the rename fails: `?`
\* returns and the guard drops; the directory stays behind.
InstallError(p) ==
    /\ job[p] = "write"
    /\ Job(p, "drop")
    /\ UNCHANGED <<lockVars, dirVars, done, dry>>

\* move_temp_to_object_store / finalize_layer_dir: one rename.
Publish(p) ==
    /\ job[p] = "write" /\ done[p] = Parts
    /\ dirExists
    /\ store' = files
    /\ files' = {} /\ dirExists' = FALSE
    /\ Job(p, "drop")
    /\ UNCHANGED <<lockVars, done, dry>>

----------------------------------------------------------------------------
(* ocx clean *)

\* list_all: an entry with a lock file is tried, one without is an orphan.
CleanList(p, d) ==
    /\ p \in Cleaners /\ job[p] = "idle"
    /\ path # NoInode \/ dirExists
    /\ Job(p, IF path # NoInode THEN "list" ELSE "orphan")
    /\ dry' = [dry EXCEPT ![p] = d]
    /\ UNCHANGED <<lockVars, dirVars, done>>

CleanTry(p) ==
    /\ job[p] = "list"
    /\ Begin(p, "try")
    /\ Job(p, "try")
    /\ UNCHANGED <<dirVars, done, dry>>

\* Faulty variant: a busy entry is swept all the same.
CleanBusy(p) ==
    /\ p \in Cleaners /\ job[p] = "try" /\ pc[p] = "idle"
    /\ Job(p, "sweep")
    /\ UNCHANGED <<lockVars, dirVars, done, dry>>

\* try_acquire answered None: the entry is in use and is skipped.
CleanSkip(p) ==
    /\ p \in Cleaners /\ job[p] = "try" /\ pc[p] = "idle"
    /\ Job(p, "idle")
    /\ dry' = [dry EXCEPT ![p] = FALSE]
    /\ UNCHANGED <<lockVars, dirVars, done>>

\* remove_stale_dir, entry by entry, for a locked or an orphaned directory.
RemoveOne(p) ==
    /\ job[p] \in {"sweep", "orphan"} /\ ~dry[p]
    /\ \E f \in files : files' = files \ {f}
    /\ UNCHANGED <<lockVars, dirExists, store, job, done, dry>>

\* ... then the directory itself (a no-op if it is gone).
RemoveDir(p) ==
    /\ job[p] \in {"sweep", "orphan"} /\ ~dry[p]
    /\ files = {}
    /\ dirExists' = FALSE
    /\ Job(p, IF job[p] = "sweep" THEN "drop" ELSE "idle")
    /\ UNCHANGED <<lockVars, files, store, done, dry>>

\* The removal of the swept directory fails: clean returns the error, and the
\* guard drops.
SweepFails(p) ==
    /\ job[p] = "sweep"
    /\ Job(p, "drop")
    /\ UNCHANGED <<lockVars, dirVars, done, dry>>

\* A dry run only reports the orphan; remove_dir_all may also give up on a
\* directory that is being filled (ENOTEMPTY).
OrphanDone(p) ==
    /\ job[p] = "orphan"
    /\ dry[p] \/ files # {}
    /\ Job(p, "idle")
    /\ dry' = [dry EXCEPT ![p] = FALSE]
    /\ UNCHANGED <<lockVars, dirVars, done>>

----------------------------------------------------------------------------
\* A process dies: the kernel closes its handle, the disk stays as it is.
CrashTemp(p) ==
    /\ job[p] # "idle"
    /\ IF pc[p] = "idle" THEN UNCHANGED lockVars ELSE Crash(p)
    /\ Job(p, "idle")
    /\ done' = [done EXCEPT ![p] = 0]
    /\ dry' = [dry EXCEPT ![p] = FALSE]
    /\ UNCHANGED dirVars

TempStep(p) ==
    \/ LockStep(p) \/ FinishAcquire(p) \/ ClearOne(p) \/ Cleared(p)
    \/ DropTemp(p) \/ CloseTemp(p) \/ AcquireError(p)
    \/ InstallWait(p) \/ InstallTimeout(p) \/ Recheck(p) \/ WritePart(p)
    \/ InstallError(p) \/ Publish(p)
    \/ CleanTry(p) \/ CleanSkip(p) \/ RemoveOne(p) \/ RemoveDir(p) \/ SweepFails(p)
    \/ OrphanDone(p)

TempNext ==
    \E p \in Procs :
        \/ InstallBegin(p)
        \/ \E d \in BOOLEAN : CleanList(p, d)
        \/ TempStep(p)
        \/ CrashTemp(p)

\* A started command keeps running until it ends or its process dies.
TempSpec == TempInit /\ [][TempNext]_tempVars /\ \A p \in Procs : WF_tempVars(TempStep(p))

----------------------------------------------------------------------------
(* Properties *)

\* Every variable keeps its type.
TempTypeOK ==
    /\ LockTypeOK
    /\ dirExists \in BOOLEAN
    /\ files \subseteq Installers \X (1..Parts)
    /\ store \in {NotStored} \cup SUBSET (Installers \X (1..Parts))
    /\ job \in [Procs -> Jobs]
    /\ done \in [Procs -> 0..Parts]
    /\ dry \in [Procs -> BOOLEAN]

Intact(p) == dirExists /\ {p} \X (1..done[p]) \subseteq files
Installing(p) == p \in Installers /\ job[p] \in {"recheck", "write"}

\* What is published was written by one installer: neither a crashed
\* predecessor's leftovers nor a concurrent installer's files get in
\* (finish_acquire clears under the lock).
NoForeignArtifacts ==
    store # NotStored => \E p \in Installers : store \subseteq {p} \X (1..Parts)

\* "Released only after removal, so no install can claim the dir mid-delete"
\* (clean.rs): while a sweep clears or removes a directory it locked, no
\* installer is between its acquisition and its drop.
SweepExcludesInstall ==
    \A c \in Cleaners, p \in Installers :
        job[c] \in {"clear", "sweep"} => ~Installing(p) /\ job[p] # "clear"

\* An object in the store is never replaced by a second installer that was
\* waiting for the lock: the look under the lock ends it (setup_owned_impl,
\* extract_layer_inner).
PublishedOnce == [][store # NotStored => store' = store]_tempVars

\* "locking each where possible so a concurrent install's directory is not
\* swept" (clean.rs), "Directory exists but no lock file - safe to remove
\* directly" (stale_entry.rs): an installer at work finds every file it
\* wrote.
LiveInstallIntact ==
    \A p \in Installers :
        job[p] = "write" => Intact(p)

\* Whatever takes a file from an installer at work is the sweep of a directory
\* that was listed without a lock file: neither another installer nor a sweep
\* that found the lock file ever does (stale_entries, clean_temp).
OnlyOrphanSweepDamages ==
    [][\A p \in Installers :
          job[p] = "write" /\ job'[p] = "write" /\ Intact(p) /\ ~Intact(p)'
              => \E c \in Cleaners : job[c] = "orphan"]_tempVars
================================================================================
