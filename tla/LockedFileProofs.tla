---------------------------- MODULE LockedFileProofs ----------------------------
(***************************************************************************)
(* Mutual exclusion of the lock-file protocol for any set of processes and *)
(* inodes, and that the protocol implements AdvisoryLock (safety part).    *)
(*                                                                         *)
(* MutualExclusion alone is not inductive: a process past "verify" is safe *)
(* only because its handle owns the lock of its inode (HandlesOwnLocks)    *)
(* and, once inside, because the path still names that inode               *)
(* (UnlinksOwnFile).  Two holders would then own the lock of one inode.    *)
(***************************************************************************)
EXTENDS LockedFile, TLAPS

\* From flock() until close() the handle refers to an inode and owns its
\* lock; a handle that is still polling refers to an inode.
HandlesOwnLocks ==
    \A p \in Procs :
        /\ pc[p] \in {"verify", "stale", "held", "unlinked"} =>
               fd[p] \in Inodes /\ flock[fd[p]] = p
        /\ pc[p] = "lock" => fd[p] \in Inodes

\* The inductive invariant.
LockInv == LockTypeOK /\ HandlesOwnLocks /\ UnlinksOwnFile

\* A verified holder has the lock of the inode the path names: two of them would share it.
LEMMA LockInvImpliesMutualExclusion == LockInv => MutualExclusion
BY NoProcAssumption, NoInodeAssumption
   DEF LockInv, LockTypeOK, HandlesOwnLocks, UnlinksOwnFile, MutualExclusion, Held

\* At the start no process has a handle or a lock; a file may be there.
LEMMA LockInvInit == LockInit => LockInv
BY NoProcAssumption, NoInodeAssumption, TryAttemptsAssumption
   DEF LockInit, LockInv, LockTypeOK, HandlesOwnLocks, UnlinksOwnFile, Held,
       PCs, Modes

\* Every action keeps the types.
LEMMA LockTypeStep == LockTypeOK /\ HandlesOwnLocks /\ [LockNext]_lockVars => LockTypeOK'
<1> SUFFICES ASSUME LockTypeOK, HandlesOwnLocks, [LockNext]_lockVars PROVE LockTypeOK'
  OBVIOUS
<1> USE TryAttemptsAssumption DEF LockTypeOK, PCs, Waiting, Modes
<1>1. ASSUME NEW p \in Procs, NEW m \in Modes, Begin(p, m) PROVE LockTypeOK'
  BY <1>1 DEF Begin, Goto
<1>2. ASSUME NEW p \in Procs, OpenLockFile(p) PROVE LockTypeOK'
  BY <1>2 DEF OpenLockFile, Openable, Goto
<1>3. ASSUME NEW p \in Procs, OpenError(p) PROVE LockTypeOK'
  BY <1>3 DEF OpenError, Return, Goto
<1>4. ASSUME NEW p \in Procs, TakeLock(p) PROVE LockTypeOK'
  BY <1>4 DEF TakeLock, Goto, HandlesOwnLocks
<1>5. ASSUME NEW p \in Procs, Contended(p) PROVE LockTypeOK'
  BY <1>5 DEF Contended, CloseHandle, Return, Goto
<1>6. ASSUME NEW p \in Procs, VerifyMatch(p) PROVE LockTypeOK'
  BY <1>6 DEF VerifyMatch, Return, Goto
<1>7. ASSUME NEW p \in Procs, VerifyMismatch(p) PROVE LockTypeOK'
  BY <1>7 DEF VerifyMismatch, Goto
<1>8. ASSUME NEW p \in Procs, DropStale(p) PROVE LockTypeOK'
  <2>1. CASE LastRound(p)
    <3>1. CloseHandle(p) /\ Return(p, "idle") /\ UNCHANGED path
      BY <1>8, <2>1, Zenon DEF DropStale
    <3> QED BY <3>1 DEF CloseHandle, Return, Goto
  <2>2. CASE ~LastRound(p)
    <3>1. /\ CloseHandle(p) /\ Goto(p, "open") /\ UNCHANGED <<path, mode, expired>>
          /\ tries' = [tries EXCEPT ![p] = IF mode[p] = "try" THEN @ - 1 ELSE @]
      BY <1>8, <2>2, Zenon DEF DropStale
    <3>2. mode[p] = "try" => tries[p] - 1 \in 1..TryAttempts
      BY <2>2 DEF LastRound
    <3>3. tries' \in [Procs -> 1..TryAttempts]
      BY <3>1, <3>2
    <3> QED BY <3>1, <3>3 DEF CloseHandle, Goto
  <2> QED BY <2>1, <2>2
<1>9. ASSUME NEW p \in Procs, Expire(p) PROVE LockTypeOK'
  BY <1>9 DEF Expire
<1>10. ASSUME NEW p \in Procs, UnlinkLockFile(p) PROVE LockTypeOK'
  BY <1>10 DEF UnlinkLockFile, Goto
<1>11. ASSUME NEW p \in Procs, CloseUnlinked(p) PROVE LockTypeOK'
  BY <1>11 DEF CloseUnlinked, CloseHandle, Goto
<1>12. ASSUME NEW p \in Procs, DropHandle(p) PROVE LockTypeOK'
  BY <1>12 DEF DropHandle, CloseHandle, Goto
<1>13. ASSUME NEW p \in Procs, Crash(p) PROVE LockTypeOK'
  BY <1>13 DEF Crash, CloseHandle, Return, Goto
<1>14. CASE UNCHANGED lockVars
  BY <1>14 DEF lockVars
<1> QED
  BY <1>1, <1>2, <1>3, <1>4, <1>5, <1>6, <1>7, <1>8, <1>9, <1>10, <1>11, <1>12,
     <1>13, <1>14 DEF LockNext, AcquireStep

\* Every action keeps the handles' claims and the holders' claim on the path.
LEMMA LockClaimsStep ==
    LockInv /\ [LockNext]_lockVars => HandlesOwnLocks' /\ UnlinksOwnFile'
<1> SUFFICES ASSUME LockInv, [LockNext]_lockVars
             PROVE  HandlesOwnLocks' /\ UnlinksOwnFile'
  OBVIOUS
<1> USE NoProcAssumption, NoInodeAssumption
    DEF LockInv, LockTypeOK, HandlesOwnLocks, UnlinksOwnFile, Held, PCs, Waiting
<1>a. MutualExclusion
  BY LockInvImpliesMutualExclusion
<1>1. ASSUME NEW p \in Procs, NEW m \in Modes, Begin(p, m)
      PROVE  HandlesOwnLocks' /\ UnlinksOwnFile'
  BY <1>1 DEF Begin, Goto
<1>2. ASSUME NEW p \in Procs, OpenLockFile(p)
      PROVE  HandlesOwnLocks' /\ UnlinksOwnFile'
  BY <1>2 DEF OpenLockFile, Openable, Goto
<1>3. ASSUME NEW p \in Procs, OpenError(p)
      PROVE  HandlesOwnLocks' /\ UnlinksOwnFile'
  BY <1>3 DEF OpenError, Return, Goto
<1>4. ASSUME NEW p \in Procs, TakeLock(p)
      PROVE  HandlesOwnLocks' /\ UnlinksOwnFile'
  BY <1>4 DEF TakeLock, Goto
<1>5. ASSUME NEW p \in Procs, Contended(p)
      PROVE  HandlesOwnLocks' /\ UnlinksOwnFile'
  BY <1>5 DEF Contended, CloseHandle, Return, Goto
<1>6. ASSUME NEW p \in Procs, VerifyMatch(p)
      PROVE  HandlesOwnLocks' /\ UnlinksOwnFile'
  BY <1>6 DEF VerifyMatch, LockMatchesPath, Return, Goto
<1>7. ASSUME NEW p \in Procs, VerifyMismatch(p)
      PROVE  HandlesOwnLocks' /\ UnlinksOwnFile'
  BY <1>7 DEF VerifyMismatch, Goto
<1>8. ASSUME NEW p \in Procs, DropStale(p)
      PROVE  HandlesOwnLocks' /\ UnlinksOwnFile'
  <2>1. CloseHandle(p) /\ UNCHANGED path /\ pc[p] = "stale"
    BY <1>8, Zenon DEF DropStale
  <2>2. \E label \in {"idle", "open"} : Goto(p, label)
    BY <1>8 DEF DropStale, Return
  <2> QED BY <2>1, <2>2 DEF CloseHandle, Goto
<1>9. ASSUME NEW p \in Procs, Expire(p)
      PROVE  HandlesOwnLocks' /\ UnlinksOwnFile'
  BY <1>9 DEF Expire
<1>10. ASSUME NEW p \in Procs, UnlinkLockFile(p)
      PROVE  HandlesOwnLocks' /\ UnlinksOwnFile'
  BY <1>10, <1>a DEF UnlinkLockFile, Goto, MutualExclusion
<1>11. ASSUME NEW p \in Procs, CloseUnlinked(p)
      PROVE  HandlesOwnLocks' /\ UnlinksOwnFile'
  BY <1>11 DEF CloseUnlinked, CloseHandle, Goto
<1>12. ASSUME NEW p \in Procs, DropHandle(p)
      PROVE  HandlesOwnLocks' /\ UnlinksOwnFile'
  BY <1>12 DEF DropHandle, CloseHandle, Goto
<1>13. ASSUME NEW p \in Procs, Crash(p)
      PROVE  HandlesOwnLocks' /\ UnlinksOwnFile'
  BY <1>13 DEF Crash, CloseHandle, Return, Goto
<1>14. CASE UNCHANGED lockVars
  BY <1>14 DEF lockVars
<1> QED
  BY <1>1, <1>2, <1>3, <1>4, <1>5, <1>6, <1>7, <1>8, <1>9, <1>10, <1>11, <1>12,
     <1>13, <1>14 DEF LockNext, AcquireStep

\* LockInv is inductive (one lemma per action above).
LEMMA LockInvStep == LockInv /\ [LockNext]_lockVars => LockInv'
BY LockTypeStep, LockClaimsStep DEF LockInv

\* LockInv holds throughout, whatever the fairness.
LEMMA LockInvariant == LockSafetySpec => []LockInv
BY LockInvInit, LockInvStep, PTL DEF LockSafetySpec

\* Every variable keeps its type, for any processes, inodes and rounds.
THEOREM LockTypeCorrect == LockSpec => []LockTypeOK
BY LockInvariant, PTL DEF LockSpec, LockInv

\* At most one process is inside the lock-file lock, for any number of
\* processes and although holders unlink the file others wait on.
THEOREM LockMutualExclusion == LockSpec => []MutualExclusion
BY LockInvariant, LockInvImpliesMutualExclusion, PTL DEF LockSpec

\* remove_file(lock_path) in TempAcquireResult::drop only ever removes the
\* file its own process locked.
THEOREM LockUnlinksOwnFile == LockSpec => []UnlinksOwnFile
BY LockInvariant, PTL DEF LockSpec, LockInv

----------------------------------------------------------------------------
(* Refinement: every step of the protocol is a step of AdvisoryLock or a    *)
(* stutter.  AbsWaiting abbreviates the mapping of waiting.                 *)

AbsWaiting == {p \in Procs : pc[p] \in Waiting}

\* The mapping of holder, made explicit.
LEMMA HolderOfHeld ==
    ASSUME MutualExclusion, NEW p \in Procs, Held(p)
    PROVE  HolderOf = p
BY DEF HolderOf, MutualExclusion

\* The abstract lock is free exactly when no process is inside.
LEMMA HolderOfNone ==
    ASSUME \A p \in Procs : ~Held(p)
    PROVE  HolderOf = NoProc
BY DEF HolderOf

\* A step that leaves the set of holders alone leaves the abstract holder alone.
LEMMA HolderOfSame ==
    ASSUME MutualExclusion, \A p \in Procs : Held(p) <=> Held(p)'
    PROVE  HolderOf' = HolderOf
<1>1. CASE \E p \in Procs : Held(p)
  BY <1>1 DEF HolderOf, MutualExclusion
<1>2. CASE \A p \in Procs : ~Held(p)
  BY <1>2 DEF HolderOf
<1> QED BY <1>1, <1>2

\* The three ways a step moves one process p between the abstract states.
LEMMA AbsRequest ==
    ASSUME LockInv, NEW p \in Procs, pc[p] = "idle", Goto(p, "open")
    PROVE  Abstract!Next
<1> USE DEF LockInv, LockTypeOK, PCs, Waiting, Goto, Held
<1>1. HolderOf' = HolderOf
  BY HolderOfSame, LockInvImpliesMutualExclusion
<1>2. HolderOf # p
  BY HolderOfHeld, HolderOfNone, LockInvImpliesMutualExclusion, NoProcAssumption
<1>3. AbsWaiting' = AbsWaiting \cup {p} /\ p \notin AbsWaiting
  BY DEF AbsWaiting
<1> QED BY <1>1, <1>2, <1>3 DEF Abstract!Next, Abstract!Request, AbsWaiting

\* A process that gives up, or dies without being inside, stops requesting.
LEMMA AbsGiveUp ==
    ASSUME LockInv, NEW p \in Procs, pc[p] \in Waiting, Goto(p, "idle")
    PROVE  Abstract!Next
<1> USE DEF LockInv, LockTypeOK, PCs, Waiting, Goto, Held
<1>1. HolderOf' = HolderOf
  BY HolderOfSame, LockInvImpliesMutualExclusion
<1>2. AbsWaiting' = AbsWaiting \ {p} /\ p \in AbsWaiting
  BY DEF AbsWaiting
<1> QED BY <1>1, <1>2 DEF Abstract!Next, Abstract!GiveUp, AbsWaiting

\* A holder that leaves, by release or by death, frees the abstract lock.
LEMMA AbsRelease ==
    ASSUME LockInv, NEW p \in Procs, Held(p),
           NEW label \in {"idle", "unlinked"}, Goto(p, label)
    PROVE  Abstract!Next
<1> USE DEF LockInv, LockTypeOK, PCs, Waiting, Goto, Held
<1>1. MutualExclusion /\ HolderOf = p
  BY HolderOfHeld, LockInvImpliesMutualExclusion
<1>2. \A q \in Procs : ~Held(q)'
  BY <1>1 DEF MutualExclusion
<1>3. HolderOf' = NoProc
  BY <1>2 DEF HolderOf
<1>4. AbsWaiting' = AbsWaiting
  BY DEF AbsWaiting
<1> QED BY <1>1, <1>3, <1>4 DEF Abstract!Next, Abstract!Release, AbsWaiting

\* A verified lock is a grant: mutual exclusion says nobody else is inside.
LEMMA AbsGrant ==
    ASSUME LockInv, LockInv', NEW p \in Procs, pc[p] = "verify", Goto(p, "held")
    PROVE  Abstract!Next
<1> USE DEF LockInv, LockTypeOK, PCs, Waiting, Goto, Held
<1>1. MutualExclusion'
  BY LockInvImpliesMutualExclusion, PTL
<1>2. \A q \in Procs : ~Held(q)
  BY <1>1 DEF MutualExclusion
<1>3. HolderOf = NoProc
  BY <1>2, HolderOfNone
<1>4. HolderOf' = p
  BY <1>1 DEF HolderOf, MutualExclusion
<1>5. AbsWaiting' = AbsWaiting \ {p} /\ p \in AbsWaiting
  BY DEF AbsWaiting
<1> QED BY <1>3, <1>4, <1>5 DEF Abstract!Next, Abstract!Grant, AbsWaiting

\* A step that neither opens nor closes a request and moves no holder.
LEMMA AbsStutter ==
    ASSUME LockInv,
           \A p \in Procs : /\ Held(p) <=> Held(p)'
                            /\ pc[p] \in Waiting <=> pc'[p] \in Waiting
    PROVE  UNCHANGED Abstract!vars
<1>1. HolderOf' = HolderOf
  BY HolderOfSame, LockInvImpliesMutualExclusion
<1>2. AbsWaiting' = AbsWaiting
  BY DEF AbsWaiting
<1> QED BY <1>1, <1>2 DEF Abstract!vars, AbsWaiting

\* Every step of the protocol maps to a step or a stutter of AdvisoryLock.
LEMMA AbsStep ==
    LockInv /\ LockInv' /\ [LockNext]_lockVars => [Abstract!Next]_(Abstract!vars)
<1> SUFFICES ASSUME LockInv, LockInv', [LockNext]_lockVars
             PROVE  Abstract!Next \/ UNCHANGED Abstract!vars
  OBVIOUS
<1> USE DEF LockInv, LockTypeOK, PCs, Waiting, Held
<1>1. ASSUME NEW p \in Procs, NEW m \in Modes, Begin(p, m) PROVE Abstract!Next
  BY <1>1, AbsRequest DEF Begin
<1>2. ASSUME NEW p \in Procs, OpenError(p) \/ Contended(p) PROVE Abstract!Next
  BY <1>2, AbsGiveUp DEF OpenError, Contended, Return
<1>3. ASSUME NEW p \in Procs, VerifyMatch(p) PROVE Abstract!Next
  BY <1>3, AbsGrant DEF VerifyMatch, Return
<1>4. ASSUME NEW p \in Procs, UnlinkLockFile(p) \/ DropHandle(p) PROVE Abstract!Next
  BY <1>4, AbsRelease DEF UnlinkLockFile, DropHandle
<1>5. ASSUME NEW p \in Procs,
             \/ OpenLockFile(p) \/ TakeLock(p) \/ VerifyMismatch(p)
             \/ Expire(p) \/ CloseUnlinked(p)
      PROVE  UNCHANGED Abstract!vars
  BY <1>5, AbsStutter
     DEF OpenLockFile, TakeLock, VerifyMismatch, Expire, CloseUnlinked, Goto
<1>6. ASSUME NEW p \in Procs, DropStale(p)
      PROVE  Abstract!Next \/ UNCHANGED Abstract!vars
  <2>1. /\ pc[p] = "stale"
        /\ Goto(p, "idle") \/ Goto(p, "open")
    BY <1>6 DEF DropStale, Return
  <2>2. CASE Goto(p, "idle")
    BY <2>1, <2>2, AbsGiveUp
  <2>3. CASE Goto(p, "open")
    BY <2>1, <2>3, AbsStutter DEF Goto
  <2> QED BY <2>1, <2>2, <2>3
<1>7. ASSUME NEW p \in Procs, Crash(p)
      PROVE  Abstract!Next \/ UNCHANGED Abstract!vars
  <2>1. pc[p] \in PCs \ {"idle"} /\ Goto(p, "idle")
    BY <1>7 DEF Crash, Return
  <2>2. CASE pc[p] \in Waiting
    BY <2>1, <2>2, AbsGiveUp
  <2>3. CASE pc[p] = "held"
    BY <2>1, <2>3, AbsRelease
  <2>4. CASE pc[p] = "unlinked"
    BY <2>1, <2>4, AbsStutter DEF Goto
  <2> QED BY <2>1, <2>2, <2>3, <2>4
<1>8. CASE UNCHANGED lockVars
  BY <1>8, AbsStutter DEF lockVars
<1> QED
  BY <1>1, <1>2, <1>3, <1>4, <1>5, <1>6, <1>7, <1>8 DEF LockNext, AcquireStep

\* The initial states of the protocol are initial states of the abstract lock.
LEMMA AbsInit == LockInit => Abstract!Init
BY HolderOfNone DEF LockInit, Abstract!Init, Held, Waiting

\* The lock-file protocol implements the safety part of AdvisoryLock: single
\* holder, no grant without a request, no hand-over.
THEOREM LockRefinesAdvisoryLock == LockSpec => Abstract!SafetySpec
BY AbsInit, AbsStep, LockInvariant, PTL DEF LockSpec, LockSafetySpec, Abstract!SafetySpec
================================================================================
