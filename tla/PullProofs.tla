------------------------------- MODULE PullProofs -------------------------------
(***************************************************************************)
(* Proofs about Pull, for any call trees, any processes, faults and        *)
(* crashes.                                                                *)
(*                                                                         *)
(* The inductive invariant ties three things together.  An entry of a      *)
(* singleflight group holds the channel of the one task that may still     *)
(* succeed on its key (FlightInv); a task past the lock owns the staging   *)
(* lock of its item, which no other task can then place (LockInv, WorkInv);*)
(* and every "ok", in a task, in a channel or on the way there, is backed  *)
(* by the store (OkInv).                                                   *)
(***************************************************************************)
EXTENDS Pull, TLAPS

\* The entry of a key is a channel of that key, the one that flies or flew;
\* a waiting task waits on a channel of its own key.
FlightInv ==
    /\ \A k \in Keys : entry[k] # NoTask => KeyOf[entry[k]] = k
    /\ \A t \in Tasks : channel[t] \in {"pending", "ok"} => entry[KeyOf[t]] = t
    /\ \A t \in Tasks : on[t] # NoTask => KeyOf[on[t]] = KeyOf[t]

LockInv ==
    \A t \in Tasks : stage[t] \in {"recheck", "work", "placed"} => temp[ItemOf[t]] = t

WorkInv == \A t \in Tasks : stage[t] = "work" => ~InStore(t)

OkInv ==
    \A t \in Tasks : stage[t] \in {"ok", "placed"} \/ channel[t] = "ok" => InStore(t)

PullInv == PullTypeOK /\ FlightInv /\ LockInv /\ WorkInv /\ OkInv /\ StoreClosed

\* What a task may do to the singleflight variables.
FlightStep(t) ==
    \/ Lead(t) \/ Join(t) \/ StopWaiting(t)
    \/ \E a \in Answers : Wake(t, a) \/ Settle(t, a)
    \/ UNCHANGED sfVars

----------------------------------------------------------------------------
\* Tasks that share a singleflight key set up the same item (setup_impl keys
\* its group by the pinned package).
LEMMA SameKeySameItem ==
    ASSUME NEW t \in Tasks, NEW u \in Tasks, KeyOf[t] = KeyOf[u]
    PROVE  ItemOf[t] = ItemOf[u]
  BY NeedsAssumption

\* Every singleflight operation keeps the entries and channels in order: a new
\* leader takes an entry only when no other task can succeed on its key
\* (try_acquire).
LEMMA FlightPreserved ==
    ASSUME SfTypeOK, FlightInv, NEW t \in Tasks, FlightStep(t)
    PROVE  SfTypeOK' /\ FlightInv'
<1> USE KeysAssumption, NoTaskAssumption
<1>1. CASE Lead(t)
  BY <1>1 DEF Lead, SfTypeOK, FlightInv, Slot, Errors, Answers
<1>2. CASE Join(t)
  BY <1>2 DEF Join, SfTypeOK, FlightInv, Slot
<1>3. CASE StopWaiting(t)
  BY <1>3 DEF StopWaiting, SfTypeOK, FlightInv
<1>4. ASSUME NEW a \in Answers, Wake(t, a)
      PROVE  SfTypeOK' /\ FlightInv'
  BY <1>4 DEF Wake, SfTypeOK, FlightInv
<1>5. ASSUME NEW a \in Answers, Settle(t, a)
      PROVE  SfTypeOK' /\ FlightInv'
  BY <1>5 DEF Settle, Leading, SfTypeOK, FlightInv
<1>6. CASE UNCHANGED sfVars
  BY <1>6 DEF sfVars, SfTypeOK, FlightInv
<1> QED
  BY <1>1, <1>2, <1>3, <1>4, <1>5, <1>6 DEF FlightStep

\* The initial store is closed, and nothing runs.
LEMMA InitInv == PullInit => PullInv
  BY KeysAssumption, TasksAssumption, NoTaskAssumption
  DEF PullInit, SfInit, PullInv, PullTypeOK, SfTypeOK, FlightInv, LockInv, WorkInv,
      OkInv, StoreClosed, Stages, Ended, InStore


\* A step that neither places an item nor ends a task well keeps LockInv,
\* WorkInv and OkInv, if it leaves the locks of the tasks at work alone.
LEMMA QuietPreserved ==
    ASSUME PullInv, SfTypeOK', FlightInv', store' = store,
           stage' \in [Tasks -> Stages], doomed' \subseteq Tasks,
           temp' \in [Items -> Tasks \cup {NoTask}],
           \A t \in Tasks : stage'[t] \in {"recheck", "work", "placed"} =>
               \/ stage'[t] = stage[t] /\ temp'[ItemOf[t]] = temp[ItemOf[t]]
               \/ stage'[t] = "recheck" /\ temp'[ItemOf[t]] = t
               \/ stage'[t] = "work" /\ stage[t] = "recheck" /\ ~InStore(t)
                  /\ temp'[ItemOf[t]] = temp[ItemOf[t]],
           \A t \in Tasks : stage'[t] = "ok" => stage[t] = "ok" \/ InStore(t),
           \A t \in Tasks : channel'[t] = "ok" => channel[t] = "ok" \/ InStore(t)
    PROVE  PullInv'
<1>1. PullTypeOK'
  BY DEF PullInv, PullTypeOK
<1>2. LockInv'
  BY DEF PullInv, LockInv
<1>3. WorkInv'
  BY DEF PullInv, WorkInv, InStore
<1>4. OkInv'
  BY DEF PullInv, OkInv, InStore
<1>5. StoreClosed'
  BY DEF PullInv, StoreClosed, Closed
<1> QED
  BY <1>1, <1>2, <1>3, <1>4, <1>5 DEF PullInv

\* A leader that ends well finds its item in the store.
LEMMA SucceedPreserved ==
    ASSUME PullInv, NEW t \in Tasks, InStore(t), Succeed(t)
    PROVE  PullInv'
<1> USE TasksAssumption, NoTaskAssumption
<1>1. SfTypeOK' /\ FlightInv'
  BY FlightPreserved DEF PullInv, PullTypeOK, Succeed, FlightStep, Answers
<1>2. store' = store /\ doomed' \subseteq Tasks
  BY DEF PullInv, PullTypeOK, Succeed
<1>3. /\ stage' \in [Tasks -> Stages]
      /\ temp' \in [Items -> Tasks \cup {NoTask}]
  BY DEF PullInv, PullTypeOK, Succeed, Goto, Unlock, Stages, Ended
<1>4. ASSUME NEW u \in Tasks, stage'[u] \in {"recheck", "work", "placed"}
      PROVE  stage'[u] = stage[u] /\ temp'[ItemOf[u]] = temp[ItemOf[u]]
  BY <1>4 DEF PullInv, PullTypeOK, LockInv, Succeed, Goto, Unlock
<1>5. ASSUME NEW u \in Tasks
      PROVE  /\ stage'[u] = "ok" => stage[u] = "ok" \/ InStore(u)
             /\ channel'[u] = "ok" => channel[u] = "ok" \/ InStore(u)
  BY DEF PullInv, PullTypeOK, SfTypeOK, Succeed, Settle, Goto
<1> QED
  BY <1>1, <1>2, <1>3, <1>4, <1>5, QuietPreserved

\* A leader that fails tells its waiters, frees its lock and leaves the store.
LEMMA FailPreserved ==
    ASSUME PullInv, NEW t \in Tasks, Fail(t)
    PROVE  PullInv'
<1> USE TasksAssumption, NoTaskAssumption
<1>1. SfTypeOK' /\ FlightInv'
  BY FlightPreserved DEF PullInv, PullTypeOK, Fail, FlightStep, Answers, Errors
<1>2. store' = store /\ doomed' \subseteq Tasks
  BY DEF PullInv, PullTypeOK, Fail
<1>3. /\ stage' \in [Tasks -> Stages]
      /\ temp' \in [Items -> Tasks \cup {NoTask}]
  BY DEF PullInv, PullTypeOK, Fail, Goto, Unlock, Stages, Ended
<1>4. ASSUME NEW u \in Tasks, stage'[u] \in {"recheck", "work", "placed"}
      PROVE  stage'[u] = stage[u] /\ temp'[ItemOf[u]] = temp[ItemOf[u]]
  BY <1>4 DEF PullInv, PullTypeOK, LockInv, Fail, Goto, Unlock
<1>5. ASSUME NEW u \in Tasks
      PROVE  /\ stage'[u] = "ok" => stage[u] = "ok"
             /\ channel'[u] = "ok" => channel[u] = "ok"
  BY DEF PullInv, PullTypeOK, SfTypeOK, Fail, Settle, Goto
<1> QED
  BY <1>1, <1>2, <1>3, <1>4, <1>5, QuietPreserved
\* A task moves on without touching the store, a lock or a channel's "ok".
LEMMA MovePreserved ==
    ASSUME PullInv, NEW t \in Tasks, FlightStep(t),
           NEW s \in Stages \ {"recheck", "work", "placed"}, Goto(t, s),
           s = "ok" => InStore(t),
           \A u \in Tasks : channel'[u] = "ok" => channel[u] = "ok",
           UNCHANGED <<store, temp, doomed>>
    PROVE  PullInv'
<1>1. SfTypeOK' /\ FlightInv'
  BY FlightPreserved DEF PullInv, PullTypeOK
<1>2. stage' \in [Tasks -> Stages]
  BY DEF PullInv, PullTypeOK, Goto
<1>3. ASSUME NEW u \in Tasks
      PROVE  /\ stage'[u] \in {"recheck", "work", "placed"} => stage'[u] = stage[u]
             /\ stage'[u] = "ok" => stage[u] = "ok" \/ InStore(u)
  BY DEF PullInv, PullTypeOK, Goto
<1> QED
  BY <1>1, <1>2, <1>3, QuietPreserved DEF PullInv, PullTypeOK

----------------------------------------------------------------------------
(* The steps of one task *)

\* Each of the four answers of try_acquire keeps the invariant.
LEMMA TryAcquirePreserved ==
    ASSUME PullInv, NEW t \in Tasks, TryAcquire(t)
    PROVE  PullInv'
<1> USE TasksAssumption, KeysAssumption, NoTaskAssumption DEF TryAcquire
<1>1. CASE CapacityExceeded(t) /\ Goto(t, "err")
  <2>1. "err" \in Stages \ {"recheck", "work", "placed"}
    BY DEF Stages, Ended
  <2> QED
    BY <1>1, <2>1, MovePreserved DEF CapacityExceeded, sfVars, FlightStep
<1>2. CASE Resolved(t) /\ Goto(t, "ok")
  <2>1. "ok" \in Stages \ {"recheck", "work", "placed"}
    BY DEF Stages, Ended
  <2>2. Slot(t) \in Tasks /\ KeyOf[Slot(t)] = KeyOf[t] /\ channel[Slot(t)] = "ok"
    BY <1>2 DEF Resolved, Slot, PullInv, PullTypeOK, SfTypeOK, FlightInv
  <2>3. InStore(t)
    BY <2>2, SameKeySameItem DEF PullInv, OkInv, InStore
  <2> QED
    BY <1>2, <2>1, <2>3, MovePreserved DEF Resolved, sfVars, FlightStep
<1>3. CASE Lead(t) /\ Goto(t, "find")
  <2>1. "find" \in Stages \ {"recheck", "work", "placed"}
    BY DEF Stages, Ended
  <2>2. \A u \in Tasks : channel'[u] = "ok" => channel[u] = "ok"
    BY <1>3 DEF Lead, PullInv, PullTypeOK, SfTypeOK
  <2> QED
    BY <1>3, <2>1, <2>2, MovePreserved DEF FlightStep
<1>4. CASE Join(t) /\ Goto(t, "wait")
  <2>1. "wait" \in Stages \ {"recheck", "work", "placed"}
    BY DEF Stages, Ended
  <2> QED
    BY <1>4, <2>1, MovePreserved DEF Join, FlightStep
<1> QED
  BY <1>1, <1>2, <1>3, <1>4

\* A waiter takes over the leader's answer; "ok" means the item is stored.
LEMMA LeaderAnswersPreserved ==
    ASSUME PullInv, NEW t \in Tasks, LeaderAnswers(t)
    PROVE  PullInv'
<1> USE TasksAssumption, KeysAssumption, NoTaskAssumption
<1>1. PICK a \in Answers : Wake(t, a) /\ Goto(t, IF a = "ok" THEN "ok" ELSE "err")
  BY DEF LeaderAnswers
<1>2. (IF a = "ok" THEN "ok" ELSE "err") \in Stages \ {"recheck", "work", "placed"}
  BY DEF Stages, Ended
<1>3. ASSUME a = "ok"
      PROVE  InStore(t)
  <2>1. on[t] \in Tasks /\ KeyOf[on[t]] = KeyOf[t] /\ channel[on[t]] = "ok"
    BY <1>1, <1>3 DEF Wake, PullInv, PullTypeOK, SfTypeOK, FlightInv
  <2> QED
    BY <2>1, SameKeySameItem DEF PullInv, OkInv, InStore
<1>4. FlightStep(t) /\ UNCHANGED channel
  BY <1>1 DEF FlightStep, Wake
<1> QED
  BY <1>1, <1>2, <1>3, <1>4, MovePreserved DEF LeaderAnswers

\* Taking the staging lock: nobody at work on the item had it.
LEMMA TakeTempPreserved ==
    ASSUME PullInv, NEW t \in Tasks, TakeTemp(t)
    PROVE  PullInv'
<1> USE TasksAssumption, NoTaskAssumption
<1>1. SfTypeOK' /\ FlightInv'
  BY DEF TakeTemp, sfVars, PullInv, PullTypeOK, SfTypeOK, FlightInv
<1>2. /\ stage' \in [Tasks -> Stages]
      /\ temp' \in [Items -> Tasks \cup {NoTask}]
  BY DEF TakeTemp, Goto, PullInv, PullTypeOK, Stages
<1>3. ASSUME NEW u \in Tasks, stage'[u] \in {"recheck", "work", "placed"}
      PROVE  \/ stage'[u] = stage[u] /\ temp'[ItemOf[u]] = temp[ItemOf[u]]
             \/ stage'[u] = "recheck" /\ temp'[ItemOf[u]] = u
  BY <1>3 DEF TakeTemp, Goto, PullInv, PullTypeOK, LockInv
<1>4. ASSUME NEW u \in Tasks, stage'[u] = "ok"
      PROVE  stage[u] = "ok"
  BY <1>4 DEF TakeTemp, Goto, PullInv, PullTypeOK
<1> QED
  BY <1>1, <1>2, <1>3, <1>4, QuietPreserved DEF TakeTemp, sfVars, PullInv, PullTypeOK

\* The leader that misses under the lock starts to work, and spawns its tasks.
LEMMA SpawnPreserved ==
    ASSUME PullInv, NEW t \in Tasks, stage[t] = "recheck", ~InStore(t),
           stage' = [u \in Tasks |-> IF u = t THEN "work"
                                     ELSE IF u \in Kids[t] THEN "call" ELSE stage[u]],
           UNCHANGED <<sfVars, store, temp, doomed>>
    PROVE  PullInv'
<1> USE TasksAssumption
<1>1. SfTypeOK' /\ FlightInv'
  BY DEF sfVars, PullInv, PullTypeOK, SfTypeOK, FlightInv
<1>2. stage' \in [Tasks -> Stages]
  BY DEF PullInv, PullTypeOK, Stages
<1>3. ASSUME NEW u \in Tasks
      PROVE  /\ stage'[u] \in {"recheck", "work", "placed"} =>
                    \/ stage'[u] = stage[u]
                    \/ stage'[u] = "work" /\ stage[u] = "recheck" /\ ~InStore(u)
             /\ stage'[u] = "ok" => stage[u] = "ok"
  OBVIOUS
<1> QED
  BY <1>1, <1>2, <1>3, QuietPreserved DEF sfVars, PullInv, PullTypeOK

\* Placing an item: its holder had the lock, so no one else is at work on it,
\* and what it needs is in the store because every child task ended well.
LEMMA PlacePreserved ==
    ASSUME PullInv, NEW t \in Tasks, Place(t)
    PROVE  PullInv'
<1> USE TasksAssumption, NeedsAssumption
<1>1. PullTypeOK'
  BY DEF Place, Goto, sfVars, PullInv, PullTypeOK, SfTypeOK, Stages
<1>2. FlightInv'
  BY DEF Place, sfVars, PullInv, FlightInv
<1>3. LockInv'
  BY DEF Place, Goto, PullInv, PullTypeOK, LockInv
<1>4. WorkInv'
  BY DEF Place, Goto, PullInv, PullTypeOK, LockInv, WorkInv, InStore
<1>5. OkInv'
  BY DEF Place, Goto, sfVars, PullInv, PullTypeOK, OkInv, InStore
<1>6. StoreClosed'
  <2>1. SUFFICES ASSUME NEW u \in Tasks, ItemOf[u] \in store', NEW k \in Kids[u]
                 PROVE  ItemOf[k] \in store'
    BY DEF StoreClosed, Closed
  <2>2. CASE ItemOf[u] \in store
    BY <2>2 DEF Place, PullInv, StoreClosed, Closed
  <2>3. CASE ItemOf[u] = ItemOf[t]
    <3>1. PICK j \in Kids[t] : ItemOf[j] = ItemOf[k]
      <4>1. ItemOf[k] \in {ItemOf[i] : i \in Kids[u]}
        OBVIOUS
      <4>2. {ItemOf[i] : i \in Kids[u]} = {ItemOf[i] : i \in Kids[t]}
        BY <2>3
      <4> QED
        BY <4>1, <4>2
    <3> QED
      BY <3>1 DEF Place, PullInv, OkInv, InStore
  <2> QED
    BY <2>1, <2>2, <2>3 DEF Place
<1> QED
  BY <1>1, <1>2, <1>3, <1>4, <1>5, <1>6 DEF PullInv

\* An aborted task gives up its lock and abandons its waiters.
LEMMA AbortPreserved ==
    ASSUME PullInv, NEW t \in Tasks, Abort(t)
    PROVE  PullInv'
<1> USE TasksAssumption, NoTaskAssumption
<1>1. SfTypeOK' /\ FlightInv'
  BY FlightPreserved DEF Abort, PullInv, PullTypeOK, FlightStep, Answers, Errors
<1>2. /\ stage' \in [Tasks -> Stages]
      /\ temp' \in [Items -> Tasks \cup {NoTask}]
      /\ doomed' \subseteq Tasks
  BY DEF Abort, PullInv, PullTypeOK, Goto, Unlock, Stages, Ended
<1>3. ASSUME NEW u \in Tasks, stage'[u] \in {"recheck", "work", "placed"}
      PROVE  stage'[u] = stage[u] /\ temp'[ItemOf[u]] = temp[ItemOf[u]]
  BY <1>3 DEF Abort, PullInv, PullTypeOK, LockInv, Goto, Unlock
<1>4. ASSUME NEW u \in Tasks
      PROVE  /\ stage'[u] = "ok" => stage[u] = "ok"
             /\ channel'[u] = "ok" => channel[u] = "ok"
  BY DEF Abort, PullInv, PullTypeOK, SfTypeOK, Goto, Settle, StopWaiting, sfVars
<1> QED
  BY <1>1, <1>2, <1>3, <1>4, QuietPreserved DEF Abort

\* A dying process frees the locks of its own tasks only.
LEMMA CrashPreserved ==
    ASSUME PullInv, NEW p, Crash(p)
    PROVE  PullInv'
<1> DEFINE gone == {t \in Tasks : ProcOf[t] = p /\ stage[t] \notin Ended}
<1> USE TasksAssumption, NoTaskAssumption
<1>1. /\ stage' = [t \in Tasks |-> IF t \in gone THEN "dead" ELSE stage[t]]
      /\ temp' = [x \in Items |-> IF temp[x] \in gone THEN NoTask ELSE temp[x]]
      /\ channel' = [t \in Tasks |-> IF t \in gone /\ Leading(t) THEN "abandoned" ELSE channel[t]]
      /\ on' = [t \in Tasks |-> IF t \in gone THEN NoTask ELSE on[t]]
      /\ UNCHANGED <<entry, store, doomed>>
  BY DEF Crash
<1> HIDE DEF gone
<1>2. SfTypeOK' /\ FlightInv'
  BY <1>1, KeysAssumption DEF PullInv, PullTypeOK, SfTypeOK, FlightInv, Answers, Errors
<1>3. /\ stage' \in [Tasks -> Stages]
      /\ temp' \in [Items -> Tasks \cup {NoTask}]
  BY <1>1 DEF PullInv, PullTypeOK, Stages, Ended
<1>4. ASSUME NEW u \in Tasks, stage'[u] \in {"recheck", "work", "placed"}
      PROVE  stage'[u] = stage[u] /\ temp'[ItemOf[u]] = temp[ItemOf[u]]
  BY <1>1, <1>4 DEF PullInv, PullTypeOK, LockInv
<1>5. ASSUME NEW u \in Tasks
      PROVE  /\ stage'[u] = "ok" => stage[u] = "ok"
             /\ channel'[u] = "ok" => channel[u] = "ok"
  BY <1>1
<1> QED
  BY <1>1, <1>2, <1>3, <1>4, <1>5, QuietPreserved DEF PullInv, PullTypeOK
----------------------------------------------------------------------------
\* Every step of Pull keeps the inductive invariant: one step per action.
LEMMA StepPreserved == PullInv /\ [PullNext]_pullVars => PullInv'
<1> SUFFICES ASSUME PullInv, [PullNext]_pullVars
             PROVE  PullInv'
  OBVIOUS
<1> USE DEF Goto
<1>1. ASSUME NEW t \in Tasks, PullStep(t)
      PROVE  PullInv'
  <2>0. {"call", "err", "lock"} \subseteq Stages \ {"recheck", "work", "placed"}
    BY DEF Stages, Ended
  <2>1. CASE AcquirePermit(t)
    BY <2>0, <2>1, MovePreserved DEF AcquirePermit, FlightStep, sfVars
  <2>2. CASE ResolveFails(t)
    BY <2>0, <2>2, MovePreserved DEF ResolveFails, FlightStep, sfVars
  <2>3. CASE TryAcquire(t)
    BY <2>3, TryAcquirePreserved
  <2>4. CASE LeaderAnswers(t)
    BY <2>4, LeaderAnswersPreserved
  <2>5. CASE Find(t)
    <3>1. CASE InStore(t) /\ Succeed(t)
      BY <3>1, SucceedPreserved
    <3>2. CASE Goto(t, "lock") /\ UNCHANGED <<sfVars, store, temp, doomed>>
      BY <2>0, <3>2, MovePreserved DEF FlightStep, sfVars
    <3> QED
      BY <2>5, <3>1, <3>2 DEF Find
  <2>6. CASE TakeTemp(t)
    BY <2>6, TakeTempPreserved
  <2>7. CASE Recheck(t)
    BY <2>7, SucceedPreserved, SpawnPreserved DEF Recheck
  <2>8. ASSUME NEW k \in Kids[t], DropJoinSet(t, k)
        PROVE  PullInv'
    <3>1. /\ UNCHANGED <<entry, channel, on, store, temp, stage>>
          /\ doomed' \subseteq Tasks
      BY <2>8, TasksAssumption DEF DropJoinSet, JoinSet, sfVars, PullInv, PullTypeOK
    <3> QED
      BY <3>1 DEF PullInv, PullTypeOK, SfTypeOK, FlightInv, LockInv, WorkInv, OkInv,
                  StoreClosed, Closed, InStore
  <2>9. CASE KidsFailed(t) \/ WorkFails(t)
    BY <2>9, FailPreserved DEF KidsFailed, WorkFails
  <2>10. CASE Place(t)
    BY <2>10, PlacePreserved
  <2>11. CASE Finish(t)
    BY <2>11, SucceedPreserved DEF Finish, PullInv, OkInv
  <2>12. CASE Abort(t)
    BY <2>12, AbortPreserved
  <2> QED
    BY <1>1, <2>1, <2>2, <2>3, <2>4, <2>5, <2>6, <2>7, <2>8, <2>9, <2>10, <2>11, <2>12
    DEF PullStep
<1>2. ASSUME NEW t \in Tasks, WaitTimeout(t)
      PROVE  PullInv'
  <2>1. "err" \in Stages \ {"recheck", "work", "placed"}
    BY DEF Stages, Ended
  <2> QED
    BY <1>2, <2>1, MovePreserved DEF WaitTimeout, StopWaiting, FlightStep
<1>3. ASSUME NEW t \in Tasks, TempTimeout(t)
      PROVE  PullInv'
  BY <1>3, FailPreserved DEF TempTimeout
<1>4. ASSUME NEW p \in Mortal, Crash(p)
      PROVE  PullInv'
  BY <1>4, CrashPreserved
<1>5. CASE UNCHANGED pullVars
  BY <1>5 DEF pullVars, sfVars, PullInv, PullTypeOK, SfTypeOK, FlightInv, LockInv, WorkInv,
              OkInv, StoreClosed, Closed, InStore
<1> QED
  BY <1>1, <1>2, <1>3, <1>4, <1>5 DEF PullNext

\* The invariant holds throughout.
LEMMA PullInvariant == PullSpec => []PullInv
  BY InitInv, StepPreserved, PTL DEF PullSpec

----------------------------------------------------------------------------
(* What follows *)

\* The variables of Pull keep their types.
THEOREM PullTypeCorrect == PullSpec => []PullTypeOK
<1>1. PullInv => PullTypeOK
  BY DEF PullInv
<1> QED
  BY <1>1, PullInvariant, PTL

\* Whatever the call trees, faults, aborts and crashes, at most one task of a
\* process works on an item and none starts after one succeeded
\* (singleflight::Group as pull_all uses it).
THEOREM PullOneFlight == PullSpec => []OneFlight
<1>1. PullInv => OneFlight
  BY DEF PullInv, FlightInv, OneFlight, Flown
<1> QED
  BY <1>1, PullInvariant, PTL

\* The store never holds a package without its layers and its dependencies,
\* whatever fails or dies (setup_owned_impl).
THEOREM PullKeepsStoreClosed == PullSpec => []StoreClosed
<1>1. PullInv => StoreClosed
  BY DEF PullInv
<1> QED
  BY <1>1, PullInvariant, PTL

\* A pull that reports success has its item in the store (setup_impl).
THEOREM PullSuccessIsStored == PullSpec => []SuccessIsStored
<1>1. PullInv => SuccessIsStored
  BY DEF PullInv, OkInv, SuccessIsStored
<1> QED
  BY <1>1, PullInvariant, PTL

\* No pull, in any process, replaces an item that is complete
\* (move_temp_to_object_store runs only where the look under the lock missed).
THEOREM PullNeverReplaces == PullSpec => NeverReplaced
<1>1. PullInv => (\A t \in Tasks : stage[t] = "work" => ~InStore(t))
  BY DEF PullInv, WorkInv
<1>2. PullInv /\ [PullNext]_pullVars =>
        [\A t \in Tasks : stage[t] = "work" /\ stage'[t] = "placed" => ~InStore(t)]_pullVars
  BY <1>1
<1> QED
  BY <1>2, PullInvariant, PTL DEF PullSpec, NeverReplaced
================================================================================
