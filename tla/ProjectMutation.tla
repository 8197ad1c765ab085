----------------------------- MODULE ProjectMutation -----------------------------
(***************************************************************************)
(* One project's ocx.toml and ocx.lock and the commands that write them:   *)
(* add, remove, lock, update, upgrade (a two-file commit, lock first),     *)
(* `self setup` (manifest only) and init (no lock taken).  A command takes *)
(* the project lock (an AdvisoryLock), reads both files, computes a        *)
(* candidate and its lock, publishes ocx.lock by rename, then ocx.toml by  *)
(* rename, and rolls the lock back if the second fails.  An editor may     *)
(* write ocx.toml at any time, a tag may move at any time, a process may   *)
(* die at any step.                                                        *)
(*                                                                         *)
(* Readers take no lock: they read ocx.toml, then ocx.lock, and accept the *)
(* pair when IsCurrent.  What they may accept is a property of the lock    *)
(* alone (LockFollowsHash), so they need no state here.                    *)
(***************************************************************************)
EXTENDS LockResolve

CONSTANTS
    Writers,        \* processes running a command
    NoWriter,
    MaxPushes,      \* bound: how often a tag is moved to another digest
    MaxEdits        \* bound: how often somebody edits ocx.toml

ASSUME NoWriterAssumption == NoWriter \notin Writers
ASSUME BoundsAssumption == MaxPushes \in Nat /\ MaxEdits \in Nat

VARIABLES
    manifest,       \* ocx.toml, or None
    lockfile,       \* ocx.lock, or None
    holder,         \* who holds the project lock
    tag,            \* tag[r]: how often the tag of r has been moved
    pushes,         \* how often any tag has been moved
    edits,          \* how often ocx.toml was edited by hand
    pc,             \* pc[p]: where p stands
    job,            \* job[p]: the guard and the staged mutation of p
    outside         \* outside[p]: ocx.toml was written by an editor or by init since p read it

fileVars == <<manifest, lockfile>>
index == <<tag, pushes>>
projectVars == <<fileVars, holder, index, edits, pc, job, outside>>

PCs == {"idle", "init", "load", "staged", "resolve", "save", "publish", "rollback", "end"}

\* pins: the digests the index has answered so far.  end is how the command
\* ended: "ok", "error", or "unsynced" when the error is that of the directory
\* fsync after a rename, or the rollback's.
NoPins == [b \in Bindings |-> None]
NoJob == [kind |-> "none", snap |-> None, prev |-> None, cand |-> None, changed |-> FALSE,
          work |-> {}, adopting |-> {}, pins |-> NoPins, end |-> "none"]

Digest(r) == <<r, tag[r]>>

\* A lock for c as some earlier release or command may have left it.
LockOf(c, v) ==
    [version |-> v, hash |-> DeclarationHash(c),
     tools |-> [b \in Bindings |->
        IF c.decl[b] = None THEN <<>>
        ELSE <<Entry(c.decl[b], IF v = 3 THEN None ELSE c.decl[b], <<c.decl[b], 0>>)>>]]

ProjectInit ==
    /\ manifest \in {c \in Configs : ~c.activate} \cup {None}
    /\ lockfile \in IF manifest = None THEN {None}
                    ELSE {None, LockOf(manifest, 3), LockOf(manifest, 4)}
    /\ holder = NoWriter
    /\ tag = [r \in Refs |-> 0]
    /\ pushes = 0
    /\ edits = 0
    /\ pc = [p \in Writers |-> "idle"]
    /\ job = [p \in Writers |-> NoJob]
    /\ outside = [p \in Writers |-> FALSE]

Goto(p, l) == pc' = [pc EXCEPT ![p] = l]
Set(p, j) == job' = [job EXCEPT ![p] = j]

\* The command ends: the guard drops last, after both files have landed.
End(p, how) ==
    /\ Goto(p, "end")
    /\ job' = [job EXCEPT ![p] = [@ EXCEPT !.end = how, !.cand = None, !.changed = FALSE,
                                            !.work = {}, !.adopting = {}, !.pins = NoPins]]

\* The command finds nothing to change: it drops the guard without a commit and
\* reports success.  It does not ask whether the pair it found is current.
NothingToDo(p, kind) ==
    /\ Set(p, [job[p] EXCEPT !.kind = kind, !.end = "ok"])
    /\ Goto(p, "end")

----------------------------------------------------------------------------
(* The guard *)

\* load_project_for_mutate finds the project and takes its lock; past the
\* contention budget the command ends with nothing done, as if never run.
Acquire(p) ==
    /\ pc[p] = "idle" /\ manifest # None
    /\ holder = NoWriter
    /\ holder' = p
    /\ Goto(p, "load")
    /\ UNCHANGED <<fileVars, index, edits, job, outside>>

\* Faulty variant: the files are read first, the lock is taken to write them.
LoadUnlocked(p) ==
    /\ pc[p] = "load"
    /\ holder' = NoWriter
    /\ Set(p, [NoJob EXCEPT !.snap = manifest, !.prev = lockfile])
    /\ Goto(p, "staged")
    /\ UNCHANGED <<fileVars, index, edits, outside>>

\* The snapshot and the predecessor lock, read under the lock.
Load(p) ==
    /\ pc[p] = "load"
    /\ Set(p, [NoJob EXCEPT !.snap = manifest, !.prev = lockfile])
    /\ Goto(p, "staged")
    /\ UNCHANGED <<fileVars, holder, index, edits, outside>>

\* The process ends and its lock with it.
Release(p) ==
    /\ pc[p] = "end"
    /\ holder' = IF holder = p THEN NoWriter ELSE holder
    /\ Goto(p, "idle") /\ Set(p, NoJob)
    /\ outside' = [outside EXCEPT ![p] = FALSE]
    /\ UNCHANGED <<fileVars, index, edits>>

----------------------------------------------------------------------------
(* The commands, up to the work they hand to the index *)

\* p goes on to resolve work for the candidate c.
Resolving(p, kind, c, changed, work, adopting) ==
    /\ Set(p, [job[p] EXCEPT !.kind = kind, !.cand = c, !.changed = changed,
                             !.work = work, !.adopting = adopting])
    /\ Goto(p, "resolve")

\* resolve_lock_touched: a drifted or incoherent predecessor is refused, and
\* so is a touched binding that is not declared; without a predecessor
\* everything resolves.
TouchedWork(p, kind, c, changed, touched) ==
    LET prev == job[p].prev
        wide == ExpandTouched(c, prev, touched)
    IN  IF prev = None
        THEN Resolving(p, kind, c, changed, Declared(c), {})
        ELSE IF /\ prev.hash = DeclarationHash(job[p].snap)
                /\ PredecessorCoherent(c, prev, wide)
                /\ wide \subseteq Declared(c)
             THEN Resolving(p, kind, c, changed, wide, {})
             ELSE End(p, "error")

\* ocx add: a new key is staged, the identifier it already has changes
\* nothing but a missing pin, any other one is refused.
Add(p, b, r) ==
    LET c == job[p].snap
        pinned == Find(job[p].prev, b) # None
    IN  /\ pc[p] = "staged"
        /\ CASE c.decl[b] = None -> TouchedWork(p, "add", AddBinding(c, b, r), TRUE, {b})
             [] c.decl[b] = r /\ pinned -> NothingToDo(p, "readd")
             [] c.decl[b] = r /\ ~pinned -> TouchedWork(p, "add", c, FALSE, {b})
             [] OTHER -> End(p, "error")
        /\ UNCHANGED <<fileVars, holder, index, edits, outside>>

\* ocx remove: nothing resolves, the other pins are carried.
Remove(p, b) ==
    LET c == job[p].snap
    IN  /\ pc[p] = "staged"
        /\ IF c.decl[b] = None THEN End(p, "error")
           ELSE TouchedWork(p, "remove", RemoveBinding(c, b), TRUE, {})
        /\ UNCHANGED <<fileVars, holder, index, edits, outside>>

Reconcile(p, kind, forced) ==
    LET c == job[p].snap
    IN  Resolving(p, kind, c, FALSE, ReconcileWork(c, job[p].prev, forced),
                                     Adopting(c, job[p].prev, forced))

\* ocx lock.
Lock(p) ==
    /\ pc[p] = "staged"
    /\ Reconcile(p, "lock", {})
    /\ UNCHANGED <<fileVars, holder, index, edits, outside>>

\* ocx update of the default group: a current lock advances it, a drifted one
\* reconciles it, a missing one resolves everything.
Update(p) ==
    LET c == job[p].snap
        prev == job[p].prev
        default == {b \in Declared(c) : b[1] = DefaultGroup}
    IN  /\ pc[p] = "staged"
        /\ IF prev # None /\ ~IsCurrent(prev, c)
           THEN Reconcile(p, "update", default)
           ELSE TouchedWork(p, "update", c, FALSE, ExpandTouched(c, prev, default))
        /\ UNCHANGED <<fileVars, holder, index, edits, outside>>

\* ocx update NAME: always scoped, so it needs a lock and refuses drift.
UpdateBinding(p, b) ==
    LET c == job[p].snap
        prev == job[p].prev
    IN  /\ pc[p] = "staged"
        /\ IF prev = None \/ c.decl[b] = None THEN End(p, "error")
           ELSE TouchedWork(p, "update", c, FALSE, ExpandTouched(c, prev, {b}))
        /\ UNCHANGED <<fileVars, holder, index, edits, outside>>

\* ocx upgrade of b to another tag of its repository.
Upgrade(p, b, r) ==
    LET c == job[p].snap
        prev == job[p].prev
        cand == RetagBinding(c, b, r)
    IN  /\ pc[p] = "staged"
        /\ c.decl[b] # None /\ c.decl[b] # r /\ RepoOf[c.decl[b]] = RepoOf[r]
        /\ IF prev = None \/ ~IsCurrent(prev, c) THEN End(p, "error")
           ELSE TouchedWork(p, "upgrade", cand, TRUE, ExpandTouched(cand, prev, {b}))
        /\ UNCHANGED <<fileVars, holder, index, edits, outside>>

\* set_activate: one key of the manifest, the lock file is not looked at.
SetActivate(p) ==
    LET c == job[p].snap
    IN  /\ pc[p] = "staged"
        /\ IF c.activate THEN NothingToDo(p, "activate")
           ELSE /\ Set(p, [job[p] EXCEPT !.kind = "activate",
                                         !.cand = [c EXCEPT !.activate = TRUE],
                                         !.changed = TRUE])
                /\ Goto(p, "publish")
        /\ UNCHANGED <<fileVars, holder, index, edits, outside>>

----------------------------------------------------------------------------
(* Resolution *)

\* Bindings the index is still asked for: a follower whose source is in the
\* work copies it instead.
Pending(p) ==
    {b \in job[p].work \ Copying(job[p].cand, job[p].work) : job[p].pins[b] = None}

\* One resolve_one task answers; the tag may have moved since the last one.
ResolveOne(p, b) ==
    /\ pc[p] = "resolve" /\ b \in Pending(p)
    /\ job' = [job EXCEPT ![p].pins[b] = Digest(job[p].cand.decl[b])]
    /\ UNCHANGED <<fileVars, holder, index, edits, pc, outside>>

\* Retries are used up, the tag is gone, or the tool's timeout passes: the
\* first error ends the command before anything is written.
ResolveFails(p) ==
    /\ pc[p] = "resolve" /\ Pending(p) # {}
    /\ End(p, "error")
    /\ UNCHANGED <<fileVars, holder, index, edits, outside>>

ResolveDone(p) ==
    /\ pc[p] = "resolve" /\ Pending(p) = {}
    /\ Goto(p, "save")
    /\ UNCHANGED <<fileVars, holder, index, edits, job, outside>>

----------------------------------------------------------------------------
(* MutationGuard::commit *)

Built(p) == NewLock(job[p].cand, job[p].prev, job[p].work, job[p].adopting, job[p].pins)

\* Faulty variant: every commit is taken for a lock-only one.
SaveLockOnly(p) ==
    /\ pc[p] = "save"
    /\ lockfile' = Built(p)
    /\ End(p, "ok")
    /\ UNCHANGED <<manifest, holder, index, edits, outside>>

\* ProjectLock::save publishes the lock.
SaveLock(p) ==
    /\ pc[p] = "save"
    /\ lockfile' = Built(p)
    /\ IF job[p].changed THEN Goto(p, "publish") /\ UNCHANGED job
                         ELSE End(p, "ok")
    /\ UNCHANGED <<manifest, holder, index, edits, outside>>

\* Writing the temporary file or the rename fails: the old lock stays.
SaveFails(p) ==
    /\ pc[p] = "save"
    /\ End(p, "error")
    /\ UNCHANGED <<fileVars, holder, index, edits, outside>>

\* publish_by_rename renamed the file and then failed to fsync the directory:
\* the same error, with the new lock in place and no rollback.
SaveUnsynced(p) ==
    /\ pc[p] = "save"
    /\ lockfile' = Built(p)
    /\ End(p, "unsynced")
    /\ UNCHANGED <<manifest, holder, index, edits, outside>>

\* The candidate replaces the manifest.
Publish(p) ==
    /\ pc[p] = "publish"
    /\ manifest' = job[p].cand
    /\ End(p, "ok")
    /\ UNCHANGED <<lockfile, holder, index, edits, outside>>

\* Faulty variant: the error is returned without restoring the lock.
PublishFailsNoRollback(p) ==
    /\ pc[p] = "publish"
    /\ End(p, "error")
    /\ UNCHANGED <<fileVars, holder, index, edits, outside>>

\* Rendering or writing the manifest fails before the rename.  set_activate
\* has no lock to restore.
PublishFails(p) ==
    /\ pc[p] = "publish"
    /\ IF job[p].kind = "activate" THEN End(p, "error")
       ELSE Goto(p, "rollback") /\ UNCHANGED job
    /\ UNCHANGED <<fileVars, holder, index, edits, outside>>

\* ... or after it, in the directory fsync.
PublishUnsynced(p) ==
    /\ pc[p] = "publish"
    /\ manifest' = job[p].cand
    /\ IF job[p].kind = "activate" THEN End(p, "unsynced")
       ELSE Goto(p, "rollback") /\ job' = [job EXCEPT ![p].end = "unsynced"]
    /\ UNCHANGED <<lockfile, holder, index, edits, outside>>

\* rollback_lock_after_failure: the predecessor's bytes, or no file.
Rollback(p) ==
    /\ pc[p] = "rollback"
    /\ lockfile' = job[p].prev
    /\ End(p, IF job[p].end = "unsynced" THEN "unsynced" ELSE "error")
    /\ UNCHANGED <<manifest, holder, index, edits, outside>>

\* It fails: logged, and the commit's own error is returned.
RollbackFails(p) ==
    /\ pc[p] = "rollback"
    /\ End(p, "unsynced")
    /\ UNCHANGED <<fileVars, holder, index, edits, outside>>

----------------------------------------------------------------------------
(* Around the commands *)

Holding(p) == pc[p] \notin {"idle", "init", "load"}

\* ocx.toml is replaced by somebody who does not hold the lock.
WriteOutside(c) ==
    /\ manifest' = c
    /\ outside' = [p \in Writers |-> outside[p] \/ Holding(p)]

\* init_project looks, and a free path is taken later, without the lock.
InitCheck(p) ==
    /\ pc[p] = "idle" /\ manifest = None
    /\ Goto(p, "init")
    /\ UNCHANGED <<fileVars, holder, index, edits, job, outside>>

InitWrite(p) ==
    /\ pc[p] = "init"
    /\ WriteOutside(EmptyConfig)
    /\ Goto(p, "idle")
    /\ UNCHANGED <<lockfile, holder, index, edits, job>>

\* Somebody saves another declaration in an editor, or checks one out.
Edit(c) ==
    /\ manifest # None /\ edits < MaxEdits
    /\ c # manifest /\ c.activate = manifest.activate
    /\ WriteOutside(c)
    /\ edits' = edits + 1
    /\ UNCHANGED <<lockfile, holder, index, pc, job>>

\* A tag is pushed to another digest.
MoveTag(r) ==
    /\ pushes < MaxPushes
    /\ tag' = [tag EXCEPT ![r] = @ + 1]
    /\ pushes' = pushes + 1
    /\ UNCHANGED <<fileVars, holder, edits, pc, job, outside>>

\* The process dies; the kernel drops its lock, the files stay as they are.
Crash(p) ==
    /\ pc[p] # "idle"
    /\ holder' = IF holder = p THEN NoWriter ELSE holder
    /\ Goto(p, "idle") /\ Set(p, NoJob)
    /\ outside' = [outside EXCEPT ![p] = FALSE]
    /\ UNCHANGED <<fileVars, index, edits>>

----------------------------------------------------------------------------
Command(p) ==
    \/ \E b \in Bindings, r \in Refs : Add(p, b, r) \/ Upgrade(p, b, r)
    \/ \E b \in Bindings : Remove(p, b) \/ UpdateBinding(p, b)
    \/ Lock(p) \/ Update(p) \/ SetActivate(p)

WriterStep(p) ==
    \/ Load(p) \/ Command(p)
    \/ \E b \in Bindings : ResolveOne(p, b)
    \/ ResolveFails(p) \/ ResolveDone(p)
    \/ SaveLock(p) \/ SaveFails(p) \/ SaveUnsynced(p)
    \/ Publish(p) \/ PublishFails(p) \/ PublishUnsynced(p)
    \/ Rollback(p) \/ RollbackFails(p)
    \/ InitWrite(p) \/ Release(p)

ProjectNext ==
    \/ \E p \in Writers : Acquire(p) \/ InitCheck(p) \/ WriterStep(p) \/ Crash(p)
    \/ \E c \in Configs : Edit(c)
    \/ \E r \in Refs : MoveTag(r)

\* A started command runs on until it ends or its process dies.
ProjectSpec ==
    /\ ProjectInit /\ [][ProjectNext]_projectVars
    /\ \A p \in Writers : WF_projectVars(WriterStep(p))

----------------------------------------------------------------------------
(* Properties *)

Jobs ==
    [kind : {"none", "add", "readd", "remove", "lock", "update", "upgrade", "activate"},
     snap : Configs \cup {None}, prev : Locks \cup {None}, cand : Configs \cup {None},
     changed : BOOLEAN, work : SUBSET Bindings, adopting : SUBSET Bindings,
     pins : [Bindings -> Digests \cup {None}], end : {"none", "ok", "error", "unsynced"}]

\* Every variable keeps its type.
ProjectTypeOK ==
    /\ manifest \in Configs \cup {None}
    /\ lockfile \in Locks \cup {None}
    /\ holder \in Writers \cup {NoWriter}
    /\ tag \in [Refs -> Nat]
    /\ pushes \in 0..MaxPushes /\ edits \in 0..MaxEdits
    /\ pc \in [Writers -> PCs]
    /\ job \in [Writers -> Jobs]
    /\ outside \in [Writers -> BOOLEAN]

\* Whatever crashed, failed or was edited, a lock a reader would accept pins
\* every binding its declaration holds, and each from the tag declared there:
\* no carried digest outlives its spelling (resolve_lock_touched,
\* resolve_lock_reconcile, merge_carry_forward).
LockSound == lockfile # None => LockFollowsHash(lockfile)

\* A command that commits a lock and reports success leaves a pair every reader
\* accepts (MutationGuard::commit).  Two commands succeed without one, and leave
\* the pair as current or as drifted as they found it: set_activate, and `ocx add`
\* of bindings that are all declared and pinned, which looks at the pin and never
\* at the hash (add.rs:137), although commands.md:54 says `ocx add` "Fails with
\* exit 65 when `ocx.toml` drifted from `ocx.lock` before this add".  Nothing is
\* said of a command during which somebody else wrote ocx.toml.
SuccessIsCurrent ==
    \A p \in Writers :
        pc[p] = "end" /\ job[p].end = "ok" /\ ~outside[p] =>
            \/ lockfile # None /\ IsCurrent(lockfile, manifest)
            \/ /\ job[p].kind \in {"readd", "activate"}
               /\ lockfile = job[p].prev /\ manifest.decl = job[p].snap.decl

\* "a failed manifest write rolls the lock back" (mutation.rs): a command that
\* fails leaves both files as it found them.  The errors called "unsynced" are
\* outside it: the fsync of the directory after a rename, where the new file is
\* in place already, and a rollback that fails itself.
FailureChangesNothing ==
    \A p \in Writers :
        pc[p] = "end" /\ job[p].end = "error" /\ ~outside[p]
            => manifest = job[p].snap /\ lockfile = job[p].prev

\* "Project-state writes serialize" (project-toolchain.md): no command writes
\* over a manifest or a lock it has not read, unless an editor or a racing
\* init replaced ocx.toml since.
NoLostUpdate ==
    [][\A p \in Writers :
          /\ pc[p] = "publish" /\ manifest' # manifest /\ pc'[p] # "publish"
                => outside[p] \/ manifest = job[p].snap
          /\ pc[p] = "save" /\ lockfile' # lockfile => lockfile = job[p].prev]_projectVars

\* `ocx lock` mends whatever pair a crash, a failed fsync, a failed rollback or
\* an edit left behind: the lock it builds from what it finds, once the project
\* lock is free, is sound and current.
ReconcileRepairs ==
    holder = NoWriter /\ manifest # None =>
        LET work == ReconcileWork(manifest, lockfile, {})
            new  == NewLock(manifest, lockfile, work, Adopting(manifest, lockfile, {}),
                            [b \in work |-> Digest(manifest.decl[b])])
        IN  LockFollowsHash(new) /\ IsCurrent(new, manifest)

\* "one package, one version across groups" (expand_touched): a follower that
\* resolves together with its source gets the source's digest, even when the
\* tag moves between two answers of the index (resolve_work).
SharedPin ==
    \A p \in Writers : pc[p] = "save" =>
        \A b \in job[p].cand.follows \cap job[p].work :
            Source(b) \in job[p].work =>
                Head(Built(p).tools[b]).digest = Head(Built(p).tools[Source(b)]).digest

\* "Every binding `candidate` declares must be touched or carried exactly once"
\* (resolve.rs): no lock this code writes holds two entries of one binding.
OneEntryPerBinding ==
    lockfile # None => \A b \in Bindings : Len(lockfile.tools[b]) <= 1
================================================================================
