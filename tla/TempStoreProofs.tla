----------------------------- MODULE TempStoreProofs -----------------------------
(***************************************************************************)
(* That the staging directory belongs to whoever holds its lock file, for  *)
(* any installers, sweeps and number of files: what is published is one    *)
(* installer's work, once, and only the sweep of a directory listed        *)
(* without a lock file can take a file from an installer.                  *)
(*                                                                         *)
(* The lock's own invariant (LockedFileProofs) is carried along: every     *)
(* step here is a step of LockedFile or leaves it alone.  On top of it,    *)
(* JobsHold says where a process that touches the directory stands in the  *)
(* lock protocol, and WorkIsOwn what an installer at work has in front of  *)
(* it; mutual exclusion makes both inductive.                              *)
(***************************************************************************)
EXTENDS TempStore, LockedFileProofs

\* The code between acquisition and drop runs with the lock held; before and
\* after it there is no handle.
JobsHold ==
    \A p \in Procs :
        /\ job[p] \in {"clear", "recheck", "write", "sweep", "drop"} => pc[p] = "held"
        /\ job[p] = "close" => pc[p] = "unlinked"
        /\ job[p] \in {"idle", "list", "orphan"} => pc[p] = "idle"
        /\ job[p] \in {"recheck", "write"} => p \in Installers
        /\ job[p] \in {"list", "sweep", "orphan"} => p \in Cleaners

\* An installer at work finds no other's files, and nothing published.
WorkIsOwn ==
    \A p \in Procs :
        /\ job[p] \in {"recheck", "write"} => files \subseteq {p} \X (1..Parts)
        /\ job[p] = "write" => store = NotStored

TempTypes ==
    /\ dirExists \in BOOLEAN
    /\ files \subseteq Installers \X (1..Parts)
    /\ store \in {NotStored} \cup SUBSET (Installers \X (1..Parts))
    /\ job \in [Procs -> Jobs]
    /\ done \in [Procs -> 0..Parts]
    /\ dry \in [Procs -> BOOLEAN]

TempInv == LockInv /\ TempTypes /\ JobsHold /\ WorkIsOwn /\ NoForeignArtifacts

\* What an acquisition step does to the others.
LEMMA AcquireMovesOne ==
    ASSUME LockInv, NEW p \in Procs, AcquireStep(p) \/ Expire(p)
    PROVE  \A q \in Procs \ {p} : pc'[q] = pc[q]
  <1>1. pc \in [Procs -> PCs]  BY DEF LockInv, LockTypeOK
  <1> QED
    BY <1>1 DEF AcquireStep, Expire, OpenLockFile, OpenError, TakeLock, Contended, VerifyMatch,
               VerifyMismatch, DropStale, Return, Goto

\* Every step is one of the lock file or leaves it alone.
LEMMA TempStepIsLockStep ==
    ASSUME [TempNext]_tempVars PROVE [LockNext]_lockVars
  <1>1. ASSUME NEW p \in Procs, InstallBegin(p) \/ InstallWait(p) \/ CleanTry(p)
        PROVE  \E m \in Modes : Begin(p, m)
    BY <1>1 DEF InstallBegin, InstallWait, CleanTry, Modes
  <1>2. ASSUME NEW p \in Procs, LockStep(p) PROVE AcquireStep(p) \/ Expire(p)
    BY <1>2 DEF LockStep
  <1>3. ASSUME NEW p \in Procs, DropTemp(p) \/ CloseTemp(p) \/ AcquireError(p) \/ CrashTemp(p)
        PROVE  \/ UnlinkLockFile(p) \/ CloseUnlinked(p) \/ DropHandle(p) \/ Crash(p)
               \/ UNCHANGED lockVars
    BY <1>3, Zenon DEF DropTemp, CloseTemp, AcquireError, CrashTemp
  <1>4. ASSUME NEW p \in Procs,
               \/ FinishAcquire(p) \/ ClearOne(p) \/ Cleared(p) \/ InstallTimeout(p)
               \/ Recheck(p) \/ WritePart(p) \/ InstallError(p) \/ Publish(p)
               \/ (\E d \in BOOLEAN : CleanList(p, d)) \/ CleanSkip(p)
               \/ RemoveOne(p) \/ RemoveDir(p) \/ SweepFails(p) \/ OrphanDone(p)
        PROVE  UNCHANGED lockVars
    BY <1>4, Zenon DEF FinishAcquire, ClearOne, Cleared, InstallTimeout, Recheck, WritePart,
       InstallError, Publish, CleanList, CleanSkip, RemoveOne, RemoveDir, SweepFails, OrphanDone
  <1>5. UNCHANGED tempVars => UNCHANGED lockVars  BY DEF tempVars
  <1> QED
    BY <1>1, <1>2, <1>3, <1>4, <1>5, Zenon DEF TempNext, TempStep, LockNext

\* The part of the invariant that is about the directory.
DirInv == TempTypes /\ JobsHold /\ WorkIsOwn /\ NoForeignArtifacts

\* The acquisition steps, the release and the crash leave the directory alone.
LEMMA LockPart ==
    ASSUME TempInv, NEW p \in Procs,
           \/ LockStep(p) \/ DropTemp(p) \/ CloseTemp(p) \/ AcquireError(p)
           \/ InstallBegin(p) \/ InstallWait(p) \/ CleanTry(p) \/ CrashTemp(p)
    PROVE  DirInv'
  <1> USE DEF TempInv, TempTypes, JobsHold, WorkIsOwn, NoForeignArtifacts, Job, dirVars, Jobs
  <1>1. pc \in [Procs -> PCs] /\ Installers \subseteq Procs /\ Parts \in Nat \ {0}
    BY RolesAssumption, PartsAssumption DEF LockInv, LockTypeOK
  <1>2. CASE LockStep(p)
    <2>1. /\ UNCHANGED <<dirExists, files, store, job, done, dry>> /\ job[p] \in {"try", "block"}
          /\ \A q \in Procs \ {p} : pc'[q] = pc[q]
      BY <1>2, AcquireMovesOne DEF LockStep
    <2> QED  BY <2>1 DEF DirInv
  <1>3. CASE DropTemp(p)  BY <1>1, <1>3 DEF DirInv, DropTemp, UnlinkLockFile, Goto
  <1>4. CASE CloseTemp(p)  BY <1>1, <1>4 DEF DirInv, CloseTemp, CloseUnlinked, Goto
  <1>5. CASE AcquireError(p)  BY <1>1, <1>5 DEF DirInv, AcquireError, DropHandle, Goto
  <1>6. CASE InstallBegin(p)  BY <1>1, <1>6 DEF DirInv, InstallBegin, Begin, Goto
  <1>7. CASE InstallWait(p)  BY <1>1, <1>7 DEF DirInv, InstallWait, Begin, Goto
  <1>8. CASE CleanTry(p)  BY <1>1, <1>8 DEF DirInv, CleanTry, Begin, Goto
  <1>9. CASE CrashTemp(p)
    <2>1. pc' = [pc EXCEPT ![p] = "idle"]
      BY <1>1, <1>9 DEF CrashTemp, Crash, Return, Goto, lockVars
    <2> QED  BY <1>1, <1>9, <2>1 DEF DirInv, CrashTemp
  <1> QED  BY <1>2, <1>3, <1>4, <1>5, <1>6, <1>7, <1>8, <1>9

\* The steps that work on the directory.
LEMMA DirPart ==
    ASSUME TempInv, NEW p \in Procs,
           \/ FinishAcquire(p) \/ ClearOne(p) \/ Cleared(p) \/ InstallTimeout(p)
           \/ Recheck(p) \/ WritePart(p) \/ InstallError(p) \/ Publish(p)
           \/ (\E d \in BOOLEAN : CleanList(p, d)) \/ CleanSkip(p)
           \/ RemoveOne(p) \/ RemoveDir(p) \/ SweepFails(p) \/ OrphanDone(p)
    PROVE  DirInv'
  <1> USE DEF TempInv, TempTypes, JobsHold, WorkIsOwn, NoForeignArtifacts, Job, dirVars, Jobs,
              lockVars
  <1>1. /\ pc \in [Procs -> PCs] /\ Procs = Installers \cup Cleaners
        /\ Installers \cap Cleaners = {} /\ Parts \in Nat \ {0}
    BY RolesAssumption, PartsAssumption DEF LockInv, LockTypeOK
  <1>2. \A q \in Procs : job[q] \in {"clear", "recheck", "write", "sweep", "drop"}
             /\ job[p] \in {"clear", "recheck", "write", "sweep", "drop"} => p = q
    BY LockInvImpliesMutualExclusion DEF MutualExclusion, Held
  <1>3. CASE FinishAcquire(p)  BY <1>1, <1>3 DEF DirInv, FinishAcquire, Held
  <1>4. CASE ClearOne(p)  BY <1>1, <1>4 DEF DirInv, ClearOne
  <1>5. CASE Cleared(p)  BY <1>1, <1>5 DEF DirInv, Cleared
  <1>6. CASE InstallTimeout(p)  BY <1>1, <1>6 DEF DirInv, InstallTimeout
  <1>7. CASE Recheck(p)  BY <1>1, <1>7 DEF DirInv, Recheck
  <1>8. CASE WritePart(p)  BY <1>1, <1>2, <1>8 DEF DirInv, WritePart
  <1>9. CASE InstallError(p)  BY <1>1, <1>9 DEF DirInv, InstallError
  <1>10. CASE Publish(p)  BY <1>1, <1>2, <1>10 DEF DirInv, Publish
  <1>11. CASE \E d \in BOOLEAN : CleanList(p, d)  BY <1>1, <1>11 DEF DirInv, CleanList
  <1>12. CASE CleanSkip(p)  BY <1>1, <1>12 DEF DirInv, CleanSkip
  <1>13. CASE RemoveOne(p)  BY <1>1, <1>13 DEF DirInv, RemoveOne
  <1>14. CASE RemoveDir(p)  BY <1>1, <1>14 DEF DirInv, RemoveDir
  <1>15. CASE SweepFails(p)  BY <1>1, <1>15 DEF DirInv, SweepFails
  <1>16. CASE OrphanDone(p)  BY <1>1, <1>16 DEF DirInv, OrphanDone
  <1> QED
    BY <1>3, <1>4, <1>5, <1>6, <1>7, <1>8, <1>9, <1>10, <1>11, <1>12, <1>13, <1>14, <1>15, <1>16

----------------------------------------------------------------------------
(* The theorems *)

\* The initial states satisfy the invariant.
LEMMA TempInvInit == TempInit => TempInv
  <1> SUFFICES ASSUME TempInit PROVE TempInv
    OBVIOUS
  <1>1. LockInv  BY LockInvInit DEF TempInit
  <1>2. TempTypes  BY PartsAssumption DEF TempInit, TempTypes, Jobs
  <1>3. JobsHold /\ WorkIsOwn /\ NoForeignArtifacts
    BY DEF TempInit, LockInit, JobsHold, WorkIsOwn, NoForeignArtifacts
  <1> QED  BY <1>1, <1>2, <1>3 DEF TempInv

\* Every step keeps the invariant.
LEMMA TempInvStep == TempInv /\ [TempNext]_tempVars => TempInv'
  <1> SUFFICES ASSUME TempInv, [TempNext]_tempVars PROVE TempInv'
    OBVIOUS
  <1>1. LockInv'  BY TempStepIsLockStep, LockInvStep DEF TempInv
  <1>2. CASE UNCHANGED tempVars
    <2>1. DirInv'
      BY <1>2 DEF DirInv, TempInv, TempTypes, JobsHold, WorkIsOwn, NoForeignArtifacts,
                  tempVars, dirVars, lockVars
    <2> QED  BY <1>1, <2>1 DEF DirInv, TempInv
  <1>3. ASSUME NEW p \in Procs,
               \/ InstallBegin(p) \/ (\E d \in BOOLEAN : CleanList(p, d))
               \/ TempStep(p) \/ CrashTemp(p)
        PROVE  DirInv'
    BY <1>3, LockPart, DirPart DEF TempStep
  <1> QED  BY <1>1, <1>2, <1>3 DEF TempNext, DirInv, TempInv

\* The invariant holds throughout.
LEMMA TempInvariant == TempSpec => []TempInv
  BY TempInvInit, TempInvStep, PTL DEF TempSpec

\* Every variable of the staging directory and its lock file keeps its type.
THEOREM TempTypeCorrect == TempSpec => []TempTypeOK
  <1>1. TempInv => TempTypeOK  BY DEF TempInv, LockInv, TempTypes, TempTypeOK
  <1> QED  BY <1>1, TempInvariant, PTL

\* What is published was written by one installer, whatever a crashed one
\* left behind and whoever else was waiting.
THEOREM NoForeignArtifactsHolds == TempSpec => []NoForeignArtifacts
  <1>1. TempInv => NoForeignArtifacts  BY DEF TempInv
  <1> QED  BY <1>1, TempInvariant, PTL

\* While a sweep clears or removes a directory it locked, no installer is
\* between its acquisition and its drop.
THEOREM SweepExcludesInstallHolds == TempSpec => []SweepExcludesInstall
  <1>1. TempInv => SweepExcludesInstall
    <2> SUFFICES ASSUME TempInv, NEW c \in Cleaners, NEW p \in Installers,
                        job[c] \in {"clear", "sweep"}
                 PROVE  ~Installing(p) /\ job[p] # "clear"
      BY DEF SweepExcludesInstall
    <2>1. c \in Procs /\ p \in Procs /\ c # p  BY RolesAssumption
    <2>2. MutualExclusion  BY LockInvImpliesMutualExclusion DEF TempInv
    <2>3. pc[c] = "held"  BY <2>1 DEF TempInv, JobsHold
    <2> QED  BY <2>1, <2>2, <2>3 DEF TempInv, JobsHold, Installing, MutualExclusion, Held
  <1> QED  BY <1>1, TempInvariant, PTL

\* No object in the store is replaced by an installer that was waiting.
THEOREM PublishedOnceHolds == TempSpec => PublishedOnce
  <1> DEFINE Step == store # NotStored => store' = store
  <1>1. TempInv /\ [TempNext]_tempVars => [Step]_tempVars
    <2> SUFFICES ASSUME TempInv, TempNext, store # NotStored PROVE store' = store
      OBVIOUS
    <2>1. ASSUME NEW p \in Procs, Publish(p) PROVE FALSE
      BY <2>1 DEF TempInv, WorkIsOwn, Publish
    <2> QED
      BY <2>1 DEF TempNext, TempStep, dirVars, InstallBegin, CleanList, CrashTemp, LockStep,
         FinishAcquire, ClearOne, Cleared, DropTemp, CloseTemp, AcquireError, InstallWait,
         InstallTimeout, Recheck, WritePart, InstallError, CleanTry, CleanSkip, RemoveOne,
         RemoveDir, SweepFails, OrphanDone
  <1> HIDE DEF Step
  <1>2. TempSpec => [][Step]_tempVars  BY <1>1, TempInvariant, PTL DEF TempSpec
  <1> QED  BY <1>2 DEF PublishedOnce, Step

\* Only the sweep of a directory that was listed without a lock file takes a
\* file from an installer at work.
THEOREM OnlyOrphanSweepDamagesHolds == TempSpec => OnlyOrphanSweepDamages
  <1> DEFINE Step == \A p \in Installers :
                        job[p] = "write" /\ job'[p] = "write" /\ Intact(p) /\ ~Intact(p)'
                            => \E c \in Cleaners : job[c] = "orphan"
  <1>1. TempInv /\ [TempNext]_tempVars => [Step]_tempVars
    <2> SUFFICES ASSUME TempInv, TempNext, NEW p \in Installers, job[p] = "write",
                        job'[p] = "write", Intact(p), ~Intact(p)',
                        \A c \in Cleaners : job[c] # "orphan"
                 PROVE  FALSE
      OBVIOUS
    <2>1. p \in Procs  BY RolesAssumption
    <2>2. job \in [Procs -> Jobs] /\ done \in [Procs -> 0..Parts]  BY DEF TempInv, TempTypes
    <2>3. \A q \in Procs : job[q] \in {"clear", "recheck", "write", "sweep", "drop"} => q = p
      BY <2>1, LockInvImpliesMutualExclusion DEF TempInv, JobsHold, MutualExclusion, Held
    <2>4. \A q \in Procs : job[q] # "orphan"  BY DEF TempInv, JobsHold
    <2>5. dirExists /\ {p} \X (1..done[p]) \subseteq files  BY DEF Intact
    <2>6. PICK q \in Procs : \/ InstallBegin(q) \/ (\E d \in BOOLEAN : CleanList(q, d))
                             \/ TempStep(q) \/ CrashTemp(q)
      BY DEF TempNext
    <2>7. ASSUME UNCHANGED <<dirExists, files>>, done'[p] = done[p] PROVE FALSE
      BY <2>5, <2>7 DEF Intact
    <2>8. ASSUME dirExists', files' = files, done' = done PROVE FALSE
      BY <2>5, <2>8 DEF Intact
    <2>9. CASE WritePart(q)
      <3>1. q = p  BY <2>3, <2>9 DEF WritePart
      <3>2. /\ dirExists' = dirExists /\ done'[p] = done[p] + 1 /\ done[p] \in Nat
            /\ files' = files \cup {<<p, done[p] + 1>>}
        BY <2>1, <2>2, <2>9, <3>1 DEF WritePart
      <3>3. 1..done'[p] = (1..done[p]) \cup {done[p] + 1}  BY <3>2
      <3>4. {p} \X (1..done'[p]) \subseteq files'  BY <2>5, <3>2, <3>3
      <3> QED  BY <2>5, <3>2, <3>4 DEF Intact
    <2>10. CASE ClearOne(q) \/ Publish(q) \/ RemoveOne(q) \/ RemoveDir(q)
      <3>1. q = p  BY <2>3, <2>4, <2>10 DEF ClearOne, Publish, RemoveOne, RemoveDir
      <3> QED  BY <2>1, <2>2, <2>10, <3>1 DEF ClearOne, Publish, RemoveOne, RemoveDir, Job
    <2>11. CASE CloseTemp(q) \/ CrashTemp(q)
      <3>1. job' = [job EXCEPT ![q] = "idle"] /\ done' = [done EXCEPT ![q] = 0]
            /\ UNCHANGED <<dirExists, files>>
        BY <2>11 DEF CloseTemp, CrashTemp, Job, dirVars
      <3>2. q # p  BY <2>1, <2>2, <3>1
      <3> QED  BY <2>1, <2>2, <2>7, <3>1, <3>2
    <2>12. CASE FinishAcquire(q)  BY <2>8, <2>12 DEF FinishAcquire
    <2>13. CASE \/ InstallBegin(q) \/ (\E d \in BOOLEAN : CleanList(q, d)) \/ LockStep(q)
                \/ Cleared(q) \/ DropTemp(q) \/ AcquireError(q) \/ InstallWait(q)
                \/ InstallTimeout(q) \/ Recheck(q) \/ InstallError(q) \/ CleanTry(q)
                \/ CleanSkip(q) \/ SweepFails(q) \/ OrphanDone(q)
      <3>1. UNCHANGED <<dirExists, files, done>>
        BY <2>13 DEF dirVars, InstallBegin, CleanList, LockStep, Cleared, DropTemp, AcquireError,
           InstallWait, InstallTimeout, Recheck, InstallError, CleanTry, CleanSkip, SweepFails,
           OrphanDone
      <3> QED  BY <2>7, <3>1
    <2> QED  BY <2>6, <2>9, <2>10, <2>11, <2>12, <2>13 DEF TempStep
  <1> HIDE DEF Step
  <1>2. TempSpec => [][Step]_tempVars  BY <1>1, TempInvariant, PTL DEF TempSpec
  <1> QED  BY <1>2 DEF OnlyOrphanSweepDamages, Step
================================================================================
