---------------------------------- MODULE Pull ----------------------------------
(***************************************************************************)
(* pull_all: several processes put packages, their dependencies and their  *)
(* layers into one store.  Every task of a process asks its process's      *)
(* Singleflight group for its item; a leader looks at the store, takes the *)
(* item's staging lock (shared by all processes, see TempStore), looks     *)
(* again, runs one task per layer and per dependency, and renames the      *)
(* result into the store.  The two sets of child tasks are JoinSets: the   *)
(* first error drops its set, which aborts the other tasks in it.          *)
(*                                                                         *)
(* An item is a package or a layer, and a layer needs nothing.  Tasks are  *)
(* the nodes of the call trees.                                            *)
(***************************************************************************)
EXTENDS Singleflight

CONSTANTS
    Procs,
    ProcOf,         \* ProcOf[t]: the process t runs in
    Items,
    Layers,         \* the items that are layers
    ItemOf,         \* ItemOf[t]: the item t sets up
    Kids,           \* Kids[t]: the tasks t starts once it works on its item
    Roots,          \* the tasks pull_all starts
    Limit,          \* how many root pulls a process runs at once
    Faulty,         \* items whose download, check or assembly may fail
    Mortal          \* processes that may die

ASSUME TasksAssumption ==
    /\ ProcOf \in [Tasks -> Procs]
    /\ ItemOf \in [Tasks -> Items]
    /\ Kids \in [Tasks -> SUBSET Tasks]
    /\ Roots \subseteq Tasks

\* What an item needs does not depend on who pulls it, and tasks share a
\* singleflight key exactly when they want the same item in one process.
ASSUME NeedsAssumption ==
    \A t, u \in Tasks :
        /\ ItemOf[t] = ItemOf[u] => {ItemOf[k] : k \in Kids[t]} = {ItemOf[k] : k \in Kids[u]}
        /\ KeyOf[t] = KeyOf[u] <=> ItemOf[t] = ItemOf[u] /\ ProcOf[t] = ProcOf[u]

ASSUME LimitAssumption == Limit \in Nat \ {0}

VARIABLES
    store,      \* items that are in the store, complete
    temp,       \* temp[x]: the task that holds x's staging lock, or NoTask
    stage,      \* stage[t]: where t stands
    doomed      \* tasks whose JoinSet was dropped

pullVars == <<sfVars, store, temp, stage, doomed>>

Ended == {"ok", "err", "dead"}
Stages == Ended \cup {"unborn", "permit", "call", "wait", "find", "lock",
                      "recheck", "work", "placed"}

\* The children of t that share a JoinSet with k: its layers or its deps.
JoinSet(t, k) == {j \in Kids[t] : ItemOf[j] \in Layers <=> ItemOf[k] \in Layers}

Closed(S) == \A t \in Tasks : ItemOf[t] \in S => \A k \in Kids[t] : ItemOf[k] \in S

PullInit ==
    /\ SfInit
    /\ store \in {S \in SUBSET Items : Closed(S)}       \* earlier pulls
    /\ temp = [x \in Items |-> NoTask]
    /\ stage = [t \in Tasks |-> IF t \in Roots THEN "permit" ELSE "unborn"]
    /\ doomed = {}

Goto(t, s) == stage' = [stage EXCEPT ![t] = s]
InStore(t) == ItemOf[t] \in store

\* The staging guard drops, if t has it.
Unlock(t) == temp' = [x \in Items |-> IF temp[x] = t THEN NoTask ELSE temp[x]]

\* The leader's result: the guard is gone before the handle tells the waiters.
Succeed(t) == Settle(t, "ok") /\ Unlock(t) /\ Goto(t, "ok") /\ UNCHANGED <<store, doomed>>
Fail(t) == Settle(t, "failed") /\ Unlock(t) /\ Goto(t, "err") /\ UNCHANGED <<store, doomed>>

----------------------------------------------------------------------------
(* pull_all and setup_impl / extract_layer_atomic *)

Permits(p) == {t \in Roots : ProcOf[t] = p /\ stage[t] \notin Ended \cup {"permit"}}

AcquirePermit(t) ==
    /\ stage[t] = "permit"
    /\ Cardinality(Permits(ProcOf[t])) < Limit
    /\ Goto(t, "call")
    /\ UNCHANGED <<sfVars, store, temp, doomed>>

\* A package that does not resolve fails before it has a singleflight key.
ResolveFails(t) ==
    /\ stage[t] = "call"
    /\ ItemOf[t] \in Faulty \ Layers
    /\ Goto(t, "err")
    /\ UNCHANGED <<sfVars, store, temp, doomed>>

\* What try_acquire answers: a capacity error, the cached value, leadership,
\* or a leader to wait for.
TryAcquire(t) ==
    /\ stage[t] = "call"
    /\ \/ CapacityExceeded(t) /\ Goto(t, "err")
       \/ Resolved(t) /\ Goto(t, "ok")
       \/ Lead(t) /\ Goto(t, "find")
       \/ Join(t) /\ Goto(t, "wait")
    /\ UNCHANGED <<store, temp, doomed>>

\* Faulty variant: the leader's error is taken for an answer.
LeaderAnswersAnything(t) ==
    /\ stage[t] = "wait"
    /\ \E a \in Answers : Wake(t, a) /\ Goto(t, "ok")
    /\ UNCHANGED <<store, temp, doomed>>

LeaderAnswers(t) ==
    /\ stage[t] = "wait"
    /\ \E a \in Answers : Wake(t, a) /\ Goto(t, IF a = "ok" THEN "ok" ELSE "err")
    /\ UNCHANGED <<store, temp, doomed>>

WaitTimeout(t) ==
    /\ stage[t] = "wait"
    /\ StopWaiting(t)
    /\ Goto(t, "err")
    /\ UNCHANGED <<store, temp, doomed>>

----------------------------------------------------------------------------
(* setup_owned_impl / extract_layer_inner *)

\* The look at the store before the lock.
Find(t) ==
    /\ stage[t] = "find"
    /\ \/ InStore(t) /\ Succeed(t)
       \/ ~InStore(t) /\ Goto(t, "lock") /\ UNCHANGED <<sfVars, store, temp, doomed>>

\* acquire_temp_dir
TakeTemp(t) ==
    /\ stage[t] = "lock"
    /\ temp[ItemOf[t]] = NoTask
    /\ temp' = [temp EXCEPT ![ItemOf[t]] = t]
    /\ Goto(t, "recheck")
    /\ UNCHANGED <<sfVars, store, doomed>>

TempTimeout(t) ==
    /\ stage[t] = "lock"
    /\ temp[ItemOf[t]] # NoTask
    /\ Fail(t)

\* Faulty variants: no second look, or child tasks that need a permit too.
RecheckNothing(t) ==
    /\ stage[t] = "recheck"
    /\ stage' = [u \in Tasks |-> IF u = t THEN "work"
                                 ELSE IF u \in Kids[t] THEN "call" ELSE stage[u]]
    /\ UNCHANGED <<sfVars, store, temp, doomed>>

RecheckPermits(t) ==
    /\ stage[t] = "recheck"
    /\ \/ InStore(t) /\ Succeed(t)
       \/ /\ ~InStore(t)
          /\ stage' = [u \in Tasks |-> IF u = t THEN "work"
                                       ELSE IF u \in Kids[t] THEN "permit" ELSE stage[u]]
          /\ UNCHANGED <<sfVars, store, temp, doomed>>

\* The look under the lock; a miss spawns the layer and dependency tasks.
Recheck(t) ==
    /\ stage[t] = "recheck"
    /\ \/ InStore(t) /\ Succeed(t)
       \/ /\ ~InStore(t)
          /\ stage' = [u \in Tasks |-> IF u = t THEN "work"
                                       ELSE IF u \in Kids[t] THEN "call" ELSE stage[u]]
          /\ UNCHANGED <<sfVars, store, temp, doomed>>

\* join_next yields an error: the rest of that JoinSet is aborted.
DropJoinSet(t, k) ==
    /\ stage[t] = "work"
    /\ k \in Kids[t] /\ stage[k] = "err"
    /\ ~ JoinSet(t, k) \subseteq doomed
    /\ doomed' = doomed \cup JoinSet(t, k)
    /\ UNCHANGED <<sfVars, store, temp, stage>>

\* join! returns when both sets are through, and then the first error counts.
KidsFailed(t) ==
    /\ stage[t] = "work"
    /\ \E k \in Kids[t] : stage[k] = "err"
    /\ \A k \in Kids[t] : JoinSet(t, k) \subseteq doomed \/ stage[k] = "ok"
    /\ Fail(t)

\* The leader's own work fails: the signature check, the metadata, the
\* download, the assembly.
WorkFails(t) ==
    /\ \/ stage[t] \in {"find", "recheck"}
       \/ stage[t] = "work" /\ \A k \in Kids[t] : stage[k] = "ok"
    /\ ItemOf[t] \in Faulty
    /\ Fail(t)

\* Faulty variants: the package is placed once its layers are there, or under
\* the name of its singleflight key.
PlaceEarly(t) ==
    /\ stage[t] = "work"
    /\ \A k \in Kids[t] : ItemOf[k] \in Layers => stage[k] = "ok"
    /\ store' = store \cup {ItemOf[t]}
    /\ Goto(t, "placed")
    /\ UNCHANGED <<sfVars, temp, doomed>>

PlaceByKey(t) ==
    /\ stage[t] = "work"
    /\ \A k \in Kids[t] : stage[k] = "ok"
    /\ store' = store \cup {KeyOf[t]}
    /\ Goto(t, "placed")
    /\ UNCHANGED <<sfVars, temp, doomed>>

\* move_temp_to_object_store / finalize_layer_dir: one rename.
Place(t) ==
    /\ stage[t] = "work"
    /\ \A k \in Kids[t] : stage[k] = "ok"
    /\ store' = store \cup {ItemOf[t]}
    /\ Goto(t, "placed")
    /\ UNCHANGED <<sfVars, temp, doomed>>

Finish(t) ==
    /\ stage[t] = "placed"
    /\ Succeed(t)

----------------------------------------------------------------------------
(* Aborts and crashes *)

\* The runtime drops an aborted task at an await: its guard, its handle and
\* its own JoinSets go with it.
Abort(t) ==
    /\ t \in doomed
    /\ stage[t] \notin Ended
    /\ \/ Leading(t) /\ Settle(t, "abandoned")
       \/ on[t] # NoTask /\ StopWaiting(t)
       \/ ~Leading(t) /\ on[t] = NoTask /\ UNCHANGED sfVars
    /\ Unlock(t)
    /\ Goto(t, "dead")
    /\ doomed' = doomed \cup IF stage[t] = "work" THEN Kids[t] ELSE {}
    /\ UNCHANGED store

\* A process dies with all its tasks; the kernel frees its locks, and its
\* singleflight groups are gone with it.
Crash(p) ==
    LET gone == {t \in Tasks : ProcOf[t] = p /\ stage[t] \notin Ended} IN
    /\ gone # {}
    /\ stage' = [t \in Tasks |-> IF t \in gone THEN "dead" ELSE stage[t]]
    /\ temp' = [x \in Items |-> IF temp[x] \in gone THEN NoTask ELSE temp[x]]
    /\ channel' = [t \in Tasks |-> IF t \in gone /\ Leading(t) THEN "abandoned" ELSE channel[t]]
    /\ on' = [t \in Tasks |-> IF t \in gone THEN NoTask ELSE on[t]]
    /\ UNCHANGED <<entry, store, doomed>>

----------------------------------------------------------------------------
PullStep(t) ==
    \/ AcquirePermit(t) \/ ResolveFails(t) \/ TryAcquire(t) \/ LeaderAnswers(t)
    \/ Find(t) \/ TakeTemp(t) \/ Recheck(t)
    \/ \E k \in Kids[t] : DropJoinSet(t, k)
    \/ KidsFailed(t) \/ WorkFails(t) \/ Place(t) \/ Finish(t)
    \/ Abort(t)

PullNext ==
    \/ \E t \in Tasks : PullStep(t) \/ WaitTimeout(t) \/ TempTimeout(t)
    \/ \E p \in Mortal : Crash(p)

\* The runtime polls every task that can go on.  No timeout is assumed to fire.
PullSpec == PullInit /\ [][PullNext]_pullVars /\ \A t \in Tasks : WF_pullVars(PullStep(t))

----------------------------------------------------------------------------
(* Properties *)

\* Every variable keeps its type.
PullTypeOK ==
    /\ SfTypeOK
    /\ store \subseteq Items
    /\ temp \in [Items -> Tasks \cup {NoTask}]
    /\ stage \in [Tasks -> Stages]
    /\ doomed \subseteq Tasks

\* Whatever is in the store has everything it needs in the store, whichever
\* tasks and processes put the parts there and whichever of them failed, were
\* aborted or died (setup_owned_impl places a package after its layers and
\* dependencies).
StoreClosed == Closed(store)

\* A pull that reports success has its item in the store, also when it only
\* waited for another task's result (Acquisition::Resolved).
SuccessIsStored == \A t \in Tasks : stage[t] = "ok" => InStore(t)

\* No pull replaces an item that another one completed: move_dir would delete
\* a package that is in use.  The look under the staging lock ends every late
\* comer, in this process and in others.
NeverReplaced ==
    [][\A t \in Tasks : stage[t] = "work" /\ stage'[t] = "placed" => ~InStore(t)]_pullVars

\* Every pull ends although tasks hold staging locks and permits while they
\* wait for other tasks and processes, and no timeout has to fire for it:
\* "bounding dependency or layer setup would deadlock" (pull_all).
PullsEnd == <>(\A t \in Tasks : stage[t] \in Ended \cup {"unborn"})
================================================================================
