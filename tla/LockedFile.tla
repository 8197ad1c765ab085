------------------------------- MODULE LockedFile -------------------------------
(***************************************************************************)
(* The lock-file protocol of ocx_util::fs::LockedFile for one path: open   *)
(* (creating), flock, verify that the locked handle still names the path,  *)
(* and reopen when a peer unlinked it meanwhile.  A holder may release by  *)
(* unlinking the path and then closing (TempAcquireResult::drop) or by     *)
(* closing only (LockedFile dropped, the file stays).  A process may die   *)
(* between any two system calls; the kernel then closes its handle.        *)
(*                                                                         *)
(* The kernel side is path (the inode the name refers to) and flock (who   *)
(* locked each inode).  An inode lives while the path or a handle refers   *)
(* to it, and its number is reused afterwards.                             *)
(***************************************************************************)
EXTENDS Naturals

CONSTANTS
    Procs,          \* processes, or threads with handles of their own
    Inodes,
    NoProc,
    NoInode,
    TryAttempts     \* rounds of try_exclusive_blocking (8 in the code)

ASSUME NoProcAssumption == NoProc \notin Procs
ASSUME NoInodeAssumption == NoInode \notin Inodes
ASSUME TryAttemptsAssumption == TryAttempts \in Nat \ {0}

VARIABLES
    path,       \* inode the lock path names, or NoInode
    flock,      \* flock[i]: the process whose handle holds the lock of i
    pc,         \* pc[p]: where p stands in the protocol
    fd,         \* fd[p]: inode p's handle refers to, or NoInode
    mode,       \* mode[p]: which of the two acquisition calls p runs
    tries,      \* tries[p]: rounds a "try" acquisition has left
    expired     \* expired[p]: the deadline of a "block" acquisition passed

lockVars == <<path, flock, pc, fd, mode, tries, expired>>

Waiting == {"open", "lock", "verify", "stale"}
PCs == Waiting \cup {"idle", "held", "unlinked"}
Modes == {"try", "block"}

Held(p) == pc[p] = "held"

LockInit ==
    /\ path \in Inodes \cup {NoInode}       \* a crash may have left the file
    /\ flock = [i \in Inodes |-> NoProc]
    /\ pc = [p \in Procs |-> "idle"]
    /\ fd = [p \in Procs |-> NoInode]
    /\ mode = [p \in Procs |-> "try"]
    /\ tries = [p \in Procs |-> TryAttempts]
    /\ expired = [p \in Procs |-> FALSE]

\* No name and no handle refers to i: creating a file may reuse it.
Free(i) == i # path /\ \A p \in Procs : fd[p] # i

\* Closing p's handle drops whatever lock the handle holds.
CloseHandle(p) ==
    /\ flock' = [i \in Inodes |-> IF flock[i] = p THEN NoProc ELSE flock[i]]
    /\ fd' = [fd EXCEPT ![p] = NoInode]

Goto(p, label) == pc' = [pc EXCEPT ![p] = label]

\* The acquisition call returns, and its local variables end with it.
Return(p, label) ==
    /\ Goto(p, label)
    /\ mode' = [mode EXCEPT ![p] = "try"]
    /\ tries' = [tries EXCEPT ![p] = TryAttempts]
    /\ expired' = [expired EXCEPT ![p] = FALSE]

----------------------------------------------------------------------------
(* Acquisition *)

\* A call of try_exclusive_blocking ("try") or of
\* open_exclusive_blocking_with_timeout ("block").
Begin(p, m) ==
    /\ pc[p] = "idle"
    /\ Goto(p, "open")
    /\ mode' = [mode EXCEPT ![p] = m]
    /\ UNCHANGED <<path, flock, fd, tries, expired>>

\* The inodes open(O_CREAT) may hand out: the one the path names, or any
\* unused one for a new file.
Openable == IF path = NoInode THEN {i \in Inodes : Free(i)} ELSE {path}

OpenLockFile(p) ==
    /\ pc[p] = "open"
    /\ \E i \in Openable :
          /\ path' = i
          /\ fd' = [fd EXCEPT ![p] = i]
    /\ Goto(p, "lock")
    /\ UNCHANGED <<flock, mode, tries, expired>>

\* The open fails: the call returns the I/O error.
OpenError(p) ==
    /\ pc[p] = "open"
    /\ Return(p, "idle")
    /\ UNCHANGED <<path, flock, fd>>

TakeLock(p) ==
    /\ pc[p] = "lock"
    /\ flock[fd[p]] = NoProc
    /\ flock' = [flock EXCEPT ![fd[p]] = p]
    /\ Goto(p, "verify")
    /\ UNCHANGED <<path, fd, mode, tries, expired>>

\* Faulty variant: a "block" polls a busy lock without looking at its deadline.
ContendedNoDeadline(p) ==
    /\ pc[p] = "lock"
    /\ flock[fd[p]] # NoProc
    /\ mode[p] = "try"
    /\ CloseHandle(p)
    /\ Return(p, "idle")
    /\ UNCHANGED path

\* A busy lock ends a "try" at once; a "block" polls until its deadline.
Contended(p) ==
    /\ pc[p] = "lock"
    /\ flock[fd[p]] # NoProc
    /\ mode[p] = "try" \/ expired[p]
    /\ CloseHandle(p)
    /\ Return(p, "idle")
    /\ UNCHANGED path

\* Faulty variant: it is enough that the path exists.
LockPathExists(p) == path # NoInode /\ fd[p] # NoInode

\* lock_matches_path: the handle and the path are the same file.
LockMatchesPath(p) == path = fd[p]

\* Faulty variant: no look at the path after the lock is taken.
VerifyNothing(p) ==
    /\ pc[p] = "verify"
    /\ Return(p, "held")
    /\ UNCHANGED <<path, flock, fd>>

VerifyMatch(p) ==
    /\ pc[p] = "verify"
    /\ LockMatchesPath(p)
    /\ Return(p, "held")
    /\ UNCHANGED <<path, flock, fd>>

\* A path that is gone, names another file or cannot be read is a mismatch;
\* the unreadable one may happen in any state.
VerifyMismatch(p) ==
    /\ pc[p] = "verify"
    /\ Goto(p, "stale")
    /\ UNCHANGED <<path, flock, fd, mode, tries, expired>>

\* Faulty variant: one round too many.
LastRoundLate(p) ==
    \/ mode[p] = "block" /\ expired[p]
    \/ mode[p] = "try" /\ tries[p] = 0

\* No round is left: the deadline of a "block" passed, or a "try" used them up.
LastRound(p) ==
    \/ mode[p] = "block" /\ expired[p]
    \/ mode[p] = "try" /\ tries[p] = 1

\* drop(lock), then the loop condition.
DropStale(p) ==
    /\ pc[p] = "stale"
    /\ CloseHandle(p)
    /\ IF LastRound(p)
       THEN Return(p, "idle")
       ELSE /\ Goto(p, "open")
            /\ tries' = [tries EXCEPT ![p] = IF mode[p] = "try" THEN @ - 1 ELSE @]
            /\ UNCHANGED <<mode, expired>>
    /\ UNCHANGED path

\* The clock passes p's deadline.
Expire(p) ==
    /\ pc[p] \in Waiting
    /\ mode[p] = "block"
    /\ ~expired[p]
    /\ expired' = [expired EXCEPT ![p] = TRUE]
    /\ UNCHANGED <<path, flock, pc, fd, mode, tries>>

----------------------------------------------------------------------------
(* Release *)

\* TempAcquireResult::drop removes whatever file the path names, while the
\* handle is still open and locked.
UnlinkLockFile(p) ==
    /\ pc[p] = "held"
    /\ path' = NoInode
    /\ Goto(p, "unlinked")
    /\ UNCHANGED <<flock, fd, mode, tries, expired>>

\* ... and the lock field drops after it.
CloseUnlinked(p) ==
    /\ pc[p] = "unlinked"
    /\ CloseHandle(p)
    /\ Goto(p, "idle")
    /\ UNCHANGED <<path, mode, tries, expired>>

\* The guard drops and the file stays: a scoped lock, finish_acquire failing,
\* or remove_file failing.
DropHandle(p) ==
    /\ pc[p] = "held"
    /\ CloseHandle(p)
    /\ Goto(p, "idle")
    /\ UNCHANGED <<path, mode, tries, expired>>

Crash(p) ==
    /\ pc[p] # "idle"
    /\ CloseHandle(p)
    /\ Return(p, "idle")
    /\ UNCHANGED path

----------------------------------------------------------------------------
\* What the running thread does next while its request is open.
AcquireStep(p) ==
    \/ OpenLockFile(p) \/ OpenError(p)
    \/ TakeLock(p) \/ Contended(p)
    \/ VerifyMatch(p) \/ VerifyMismatch(p)
    \/ DropStale(p)

LockNext ==
    \E p \in Procs :
        \/ \E m \in Modes : Begin(p, m)
        \/ AcquireStep(p) \/ Expire(p)
        \/ UnlinkLockFile(p) \/ CloseUnlinked(p) \/ DropHandle(p)
        \/ Crash(p)

\* A live thread keeps running, and the clock keeps going.  Nothing is
\* assumed of holders, of callers and of crashes.
LockFairness ==
    \A p \in Procs :
        /\ WF_lockVars(AcquireStep(p))
        /\ WF_lockVars(Expire(p))
        /\ WF_lockVars(CloseUnlinked(p))

LockSafetySpec == LockInit /\ [][LockNext]_lockVars
LockSpec == LockSafetySpec /\ LockFairness

----------------------------------------------------------------------------
(* Properties *)

\* Every variable keeps its type.
LockTypeOK ==
    /\ path \in Inodes \cup {NoInode}
    /\ flock \in [Inodes -> Procs \cup {NoProc}]
    /\ pc \in [Procs -> PCs]
    /\ fd \in [Procs -> Inodes \cup {NoInode}]
    /\ mode \in [Procs -> Modes]
    /\ tries \in [Procs -> 1..TryAttempts]
    /\ expired \in [Procs -> BOOLEAN]

\* At most one process is inside the lock, although holders unlink the very
\* file the others are waiting on (LockedFile, TempAcquireResult::drop).
MutualExclusion ==
    \A p, q \in Procs : Held(p) /\ Held(q) => p = q

\* A holder's release never removes the lock file of another process: while p
\* is inside, the path names the inode p locked, so remove_file(lock_path)
\* unlinks p's own file (acquire_result.rs).
UnlinksOwnFile ==
    \A p \in Procs : Held(p) => path = fd[p] /\ path # NoInode

HolderOf == IF \E p \in Procs : Held(p) THEN CHOOSE p \in Procs : Held(p)
                                        ELSE NoProc

Abstract == INSTANCE AdvisoryLock WITH
    holder  <- HolderOf,
    waiting <- {p \in Procs : pc[p] \in Waiting}

\* The protocol implements the lock callers rely on, including that no
\* request waits for ever whatever the holders do: the deadline and the
\* bounded rounds end it (open_exclusive_blocking_with_timeout,
\* try_exclusive_blocking).
ImplementsAdvisoryLock == Abstract!Spec
================================================================================
