------------------------------ MODULE AdvisoryLock ------------------------------
(***************************************************************************)
(* What an exclusive lock file promises its callers: at most one process   *)
(* holds the lock, a request is either granted or given up (contention on  *)
(* a try, a timeout, an I/O error, a crash), and nobody hands the lock     *)
(* over: it passes through the free state.  LockedFile is the protocol     *)
(* that implements this over flock(2) and a file that holders unlink.      *)
(***************************************************************************)
CONSTANTS
    Procs,      \* the processes that contend
    NoProc      \* the value of holder while the lock is free

VARIABLES
    holder,     \* the process inside the lock, or NoProc
    waiting     \* the processes whose request is still open

vars == <<holder, waiting>>

Init ==
    /\ holder = NoProc
    /\ waiting = {}

Request(p) ==
    /\ p \notin waiting
    /\ holder # p
    /\ waiting' = waiting \cup {p}
    /\ UNCHANGED holder

Grant(p) ==
    /\ p \in waiting
    /\ holder = NoProc
    /\ holder' = p
    /\ waiting' = waiting \ {p}

GiveUp(p) ==
    /\ p \in waiting
    /\ waiting' = waiting \ {p}
    /\ UNCHANGED holder

Release(p) ==
    /\ holder = p
    /\ holder' = NoProc
    /\ UNCHANGED waiting

Next == \E p \in Procs : Request(p) \/ Grant(p) \/ GiveUp(p) \/ Release(p)

\* A request does not stay open for ever; a holder may keep the lock as long
\* as it likes.
Fairness == \A p \in Procs : WF_vars(Grant(p) \/ GiveUp(p))

SafetySpec == Init /\ [][Next]_vars
Spec == SafetySpec /\ Fairness
================================================================================
