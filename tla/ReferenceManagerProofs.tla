------------------------- MODULE ReferenceManagerProofs -------------------------
(***************************************************************************)
(* QuietRooted for any number of processes, paths and packages, provided   *)
(* the symlink replacement of a select does not fail (the one failure the  *)
(* rollback does not repair).                                              *)
(*                                                                         *)
(* QuietRooted speaks of quiet paths only.  The inductive invariant says,  *)
(* for a path that is not quiet, who is going to restore it: a process     *)
(* that is past removing a back-reference has yet to move the symlink, one *)
(* that moved the symlink has yet to write the back-reference, and a       *)
(* rollback has yet to finish (InFlight).                                  *)
(***************************************************************************)
EXTENDS ReferenceManager, TLAPS

Busy(p) == at[p] # "idle"

\* The program counter fits the operation, and a select path is only worked on
\* by the holder of its select lock.
Shape ==
    \A p \in Procs : Busy(p) =>
        /\ op[p].f \in SelectPaths <=> op[p].kind \notin {"link", "unlink"}
        /\ op[p].f \in SelectPaths => sel[op[p].f] = p
        /\ at[p] \in {"dropold", "replace", "mkback"} => Linking(p)
        /\ at[p] \in {"dropref", "rmfwd"} => ~Linking(p)
        /\ Linking(p) => op[p].t \in Pkgs

\* What a process remembers of its target and of the prior symlink.
Memory ==
    \A p \in Procs : Busy(p) =>
        /\ op[p].kind \in {"link", "select"} => op[p].t \in present
        /\ op[p].kind = "select" /\ at[p] # "mkback" => op[p].prior = fwd[op[p].f]
        /\ op[p].kind = "select" /\ at[p] \in {"dropold", "replace", "mkback"} =>
               op[p].prior # op[p].t
        /\ op[p].kind = "select" /\ at[p] = "mkback" => fwd[op[p].f] = op[p].t
        /\ op[p].kind = "restore" => op[p].t = op[p].prior
        /\ op[p].kind = "remove" => op[p].prior = NoPkg
        /\ op[p].kind = "restore" /\ at[p] = "read" => fwd[op[p].f] # op[p].t
        /\ op[p].kind = "restore" /\ at[p] = "mkback" => fwd[op[p].f] = op[p].t
        /\ op[p].kind \in {"select", "restore"} /\ op[p].f \notin hurt =>
               op[p].prior \in present \cup {NoPkg}

Rooted(f) == fwd[f] = NoPkg \/ (<<fwd[f], f>> \in back /\ fwd[f] \in present)

\* p is going to leave f rooted.
Restoring(p, f) ==
    /\ Busy(p) /\ op[p].f = f
    /\ \/ at[p] \in {"replace", "rmfwd"}
       \/ at[p] = "mkback" /\ op[p].t = fwd[f]
       \/ op[p].kind \in {"restore", "remove"}

RootedOrRestoring ==
    \A f \in Paths \ hurt : Rooted(f) \/ \E p \in Procs : Restoring(p, f)

\* The inductive invariant.
RefInv == RefTypeOK /\ Shape /\ Memory /\ RootedOrRestoring

\* Where nothing is under way, the invariant leaves every link rooted.
LEMMA RefInvImpliesQuietRooted == RefInv => QuietRooted
BY DEF RefInv, RootedOrRestoring, Restoring, Rooted, QuietRooted, Busy

\* The resting state of an operation is of the right type.
LEMMA IdleOpType == IdleOp \in Ops
BY SelectPathsAssumption DEF IdleOp, Operation, Ops, Kinds, Targets

\* Every action keeps the types.
LEMMA RefTypeStep ==
    ASSUME RefInv, [RefNext]_refVars, <<"select", "replace">> \notin Failing
    PROVE  RefTypeOK'
<1> USE SelectPathsAssumption, NoPkgAssumption, NoProcAssumption, IdleOpType
    DEF RefInv, RefTypeOK, Ops, Kinds, Steps, Targets
<1>1. ASSUME NEW x \in Pkgs, Install(x) PROVE RefTypeOK'
  BY <1>1 DEF Install
<1>2. ASSUME NEW p \in Procs, NEW k \in Kinds, NEW f \in Paths, NEW x \in Targets,
             BeginUnlocked(p, k, f, x)
      PROVE  RefTypeOK'
  BY <1>2 DEF BeginUnlocked, Operation, Step
<1>3. ASSUME NEW p \in Procs, NEW k \in Kinds, NEW f \in Paths, NEW x \in Targets,
             BeginLocked(p, k, f, x)
      PROVE  RefTypeOK'
  BY <1>3 DEF BeginLocked, Operation, Step
<1>4. ASSUME NEW p \in Procs, LinkUpToDate(p) PROVE RefTypeOK'
  BY <1>4 DEF LinkUpToDate, Finish, Step
<1>5. ASSUME NEW p \in Procs, LinkRead(p) PROVE RefTypeOK'
  BY <1>5 DEF LinkRead, Step
<1>6. ASSUME NEW p \in Procs, DropOld(p) PROVE RefTypeOK'
  BY <1>6 DEF DropOld, Step
<1>7. ASSUME NEW p \in Procs, Replace(p) PROVE RefTypeOK'
  BY <1>7 DEF Replace, Step
<1>8. ASSUME NEW p \in Procs, MakeBack(p) PROVE RefTypeOK'
  <2>1. <<op[p].t, op[p].f>> \in Pkgs \X Paths
    BY <1>8 DEF MakeBack, Shape, Busy, Linking
  <2>2. hurt' \subseteq Paths
    BY <1>8 DEF MakeBack
  <2> QED BY <1>8, <2>1, <2>2 DEF MakeBack, Finish, Step
<1>9. ASSUME NEW p \in Procs, CallFails(p) PROVE RefTypeOK'
  <2>1. CASE op[p].kind # "select"
    BY <1>9, <2>1 DEF CallFails, Finish, Operation, Step
  <2>2. CASE op[p].kind = "select"
    <3>1. op'[p] \in Ops
      BY <1>9, <2>2 DEF CallFails, Operation
    <3>2. op' \in [Procs -> Ops]
      BY <1>9, <2>2, <3>1 DEF CallFails
    <3> QED BY <1>9, <2>2, <3>2 DEF CallFails, Step
  <2> QED BY <2>1, <2>2
<1>10. ASSUME NEW p \in Procs, UnlinkAbsent(p) PROVE RefTypeOK'
  BY <1>10 DEF UnlinkAbsent, Finish, Step
<1>11. ASSUME NEW p \in Procs, UnlinkRead(p) PROVE RefTypeOK'
  BY <1>11 DEF UnlinkRead, Step
<1>12. ASSUME NEW p \in Procs, DropRef(p) PROVE RefTypeOK'
  BY <1>12 DEF DropRef, Step
<1>13. ASSUME NEW p \in Procs, RemoveForward(p) PROVE RefTypeOK'
  BY <1>13 DEF RemoveForward, Finish, Step
<1>14. ASSUME NEW p \in Procs, Crash(p) PROVE RefTypeOK'
  BY <1>14 DEF Crash, Finish, Step
<1>15. CASE Clean
  BY <1>15 DEF Clean, Quiet
<1>16. CASE UNCHANGED refVars
  BY <1>16 DEF refVars
<1> HIDE DEF RefInv, RefTypeOK, Ops, Kinds, Steps, Targets
<1> QED
  BY <1>1, <1>2, <1>3, <1>4, <1>5, <1>6, <1>7, <1>8,
     <1>9, <1>10, <1>11, <1>12, <1>13, <1>14, <1>15, <1>16 DEF RefNext, RefStep

\* Every action keeps the program counters in shape.
LEMMA ShapeStep ==
    ASSUME RefInv, [RefNext]_refVars, <<"select", "replace">> \notin Failing
    PROVE  Shape'
<1> USE SelectPathsAssumption, NoPkgAssumption, NoProcAssumption, IdleOpType
    DEF RefInv, RefTypeOK, Shape, Busy, Linking, Ops, Kinds, Steps, Targets
<1>1. ASSUME NEW x \in Pkgs, Install(x) PROVE Shape'
  BY <1>1 DEF Install
<1>2. ASSUME NEW p \in Procs, NEW k \in Kinds, NEW f \in Paths, NEW x \in Targets,
             BeginUnlocked(p, k, f, x)
      PROVE  Shape'
  BY <1>2 DEF BeginUnlocked, Operation, Step
<1>3. ASSUME NEW p \in Procs, NEW k \in Kinds, NEW f \in Paths, NEW x \in Targets,
             BeginLocked(p, k, f, x)
      PROVE  Shape'
  BY <1>3 DEF BeginLocked, Operation, Step
<1>4. ASSUME NEW p \in Procs, LinkUpToDate(p) PROVE Shape'
  BY <1>4 DEF LinkUpToDate, Finish, Step
<1>5. ASSUME NEW p \in Procs, LinkRead(p) PROVE Shape'
  BY <1>5 DEF LinkRead, Step
<1>6. ASSUME NEW p \in Procs, DropOld(p) PROVE Shape'
  BY <1>6 DEF DropOld, Step
<1>7. ASSUME NEW p \in Procs, Replace(p) PROVE Shape'
  BY <1>7 DEF Replace, Step
<1>8. ASSUME NEW p \in Procs, MakeBack(p) PROVE Shape'
  BY <1>8 DEF MakeBack, Finish, Step
<1>9. ASSUME NEW p \in Procs, CallFails(p) PROVE Shape'
  BY <1>9 DEF CallFails, Finish, Operation, Step
<1>10. ASSUME NEW p \in Procs, UnlinkAbsent(p) PROVE Shape'
  BY <1>10 DEF UnlinkAbsent, Finish, Step
<1>11. ASSUME NEW p \in Procs, UnlinkRead(p) PROVE Shape'
  BY <1>11 DEF UnlinkRead, Step
<1>12. ASSUME NEW p \in Procs, DropRef(p) PROVE Shape'
  BY <1>12 DEF DropRef, Step
<1>13. ASSUME NEW p \in Procs, RemoveForward(p) PROVE Shape'
  BY <1>13 DEF RemoveForward, Finish, Step
<1>14. ASSUME NEW p \in Procs, Crash(p) PROVE Shape'
  BY <1>14 DEF Crash, Finish, Step
<1>15. CASE Clean
  BY <1>15 DEF Clean, Quiet
<1>16. CASE UNCHANGED refVars
  BY <1>16 DEF refVars
<1> HIDE DEF RefInv, RefTypeOK, Shape, Busy, Linking, Ops, Kinds, Steps, Targets
<1> QED
  BY <1>1, <1>2, <1>3, <1>4, <1>5, <1>6, <1>7, <1>8,
     <1>9, <1>10, <1>11, <1>12, <1>13, <1>14, <1>15, <1>16 DEF RefNext, RefStep

\* Every action keeps what the processes remember true.
LEMMA MemoryStep ==
    ASSUME RefInv, [RefNext]_refVars, <<"select", "replace">> \notin Failing
    PROVE  Memory'
<1> USE SelectPathsAssumption, NoPkgAssumption, NoProcAssumption, IdleOpType
    DEF RefInv, RefTypeOK, Shape, Memory, Busy, Linking, Ops, Kinds, Steps, Targets
<1>1. ASSUME NEW x \in Pkgs, Install(x) PROVE Memory'
  BY <1>1 DEF Install
<1>2. ASSUME NEW p \in Procs, NEW k \in Kinds, NEW f \in Paths, NEW x \in Targets,
             BeginUnlocked(p, k, f, x)
      PROVE  Memory'
  BY <1>2 DEF BeginUnlocked, Operation, Step
<1>3. ASSUME NEW p \in Procs, NEW k \in Kinds, NEW f \in Paths, NEW x \in Targets,
             BeginLocked(p, k, f, x)
      PROVE  Memory'
  <2>1. f \notin hurt => fwd[f] \in present \cup {NoPkg}
    <3>1. \A q \in Procs : ~Busy(q) \/ op[q].f # f
      BY <1>3 DEF BeginLocked
    <3>2. ~(\E q \in Procs : Restoring(q, f))
      BY <3>1 DEF Restoring
    <3> QED BY <3>2 DEF RootedOrRestoring, Rooted
  <2>2. op'[p] = Operation(k, f, x, fwd[f]) /\ \A q \in Procs \ {p} : op'[q] = op[q] /\ at'[q] = at[q]
    BY <1>3 DEF BeginLocked, Step
  <2>3. at'[p] = "read" /\ fwd' = fwd /\ present' = present /\ hurt' = hurt
    BY <1>3 DEF BeginLocked, Step
  <2>4. k \in {"select", "deselect"} /\ (k = "select" => x \in present)
    BY <1>3 DEF BeginLocked
  <2> QED BY <2>1, <2>2, <2>3, <2>4 DEF Operation
<1>4. ASSUME NEW p \in Procs, LinkUpToDate(p) PROVE Memory'
  BY <1>4 DEF LinkUpToDate, Finish, Step
<1>5. ASSUME NEW p \in Procs, LinkRead(p) PROVE Memory'
  BY <1>5 DEF LinkRead, Step
<1>6. ASSUME NEW p \in Procs, DropOld(p) PROVE Memory'
  BY <1>6 DEF DropOld, Step
<1>7. ASSUME NEW p \in Procs, Replace(p) PROVE Memory'
  BY <1>7 DEF Replace, Step
<1>8. ASSUME NEW p \in Procs, MakeBack(p) PROVE Memory'
  BY <1>8 DEF MakeBack, Finish, Step
<1>9. ASSUME NEW p \in Procs, CallFails(p) PROVE Memory'
  <2>0. fwd' = fwd /\ present' = present /\ hurt \subseteq hurt'
    BY <1>9 DEF CallFails
  <2>1. CASE op[p].kind # "select"
    BY <1>9, <2>0, <2>1 DEF CallFails, Finish, Step
  <2>2. CASE op[p].kind = "select"
    <3>1. at[p] = "mkback" /\ hurt' = hurt
      BY <1>9, <2>2 DEF CallFails
    <3>2. /\ op'[p] = Operation(IF op[p].prior = NoPkg THEN "remove" ELSE "restore",
                              op[p].f, op[p].prior, op[p].prior)
          /\ at'[p] = "read"
          /\ \A q \in Procs \ {p} : op'[q] = op[q] /\ at'[q] = at[q]
      BY <1>9, <2>2 DEF CallFails, Step
    <3>3. fwd[op[p].f] # op[p].prior
      BY <2>2, <3>1
    <3> QED BY <2>0, <2>2, <3>1, <3>2, <3>3 DEF Operation
  <2> QED BY <2>1, <2>2
<1>10. ASSUME NEW p \in Procs, UnlinkAbsent(p) PROVE Memory'
  BY <1>10 DEF UnlinkAbsent, Finish, Step
<1>11. ASSUME NEW p \in Procs, UnlinkRead(p) PROVE Memory'
  BY <1>11 DEF UnlinkRead, Step
<1>12. ASSUME NEW p \in Procs, DropRef(p) PROVE Memory'
  BY <1>12 DEF DropRef, Step
<1>13. ASSUME NEW p \in Procs, RemoveForward(p) PROVE Memory'
  BY <1>13 DEF RemoveForward, Finish, Step
<1>14. ASSUME NEW p \in Procs, Crash(p) PROVE Memory'
  BY <1>14 DEF Crash, Finish, Step
<1>15. CASE Clean
  BY <1>15 DEF Clean, Quiet
<1>16. CASE UNCHANGED refVars
  BY <1>16 DEF refVars
<1> HIDE DEF RefInv, RefTypeOK, Shape, Memory, Busy, Linking, Ops, Kinds, Steps, Targets
<1> QED
  BY <1>1, <1>2, <1>3, <1>4, <1>5, <1>6, <1>7, <1>8,
     <1>9, <1>10, <1>11, <1>12, <1>13, <1>14, <1>15, <1>16 DEF RefNext, RefStep

\* Every action leaves each path rooted or in the hands of a process.
LEMMA RootedStep ==
    ASSUME RefInv, [RefNext]_refVars, <<"select", "replace">> \notin Failing
    PROVE  RootedOrRestoring'
<1> USE SelectPathsAssumption, NoPkgAssumption, NoProcAssumption, IdleOpType
    DEF RefInv, RefTypeOK, Shape, Memory, RootedOrRestoring, Rooted, Restoring, Busy, Linking, Ops, Kinds, Steps, Targets
<1>1. ASSUME NEW x \in Pkgs, Install(x) PROVE RootedOrRestoring'
  BY <1>1 DEF Install
<1>2. ASSUME NEW p \in Procs, NEW k \in Kinds, NEW f \in Paths, NEW x \in Targets,
             BeginUnlocked(p, k, f, x)
      PROVE  RootedOrRestoring'
  BY <1>2 DEF BeginUnlocked, Operation, Step
<1>3. ASSUME NEW p \in Procs, NEW k \in Kinds, NEW f \in Paths, NEW x \in Targets,
             BeginLocked(p, k, f, x)
      PROVE  RootedOrRestoring'
  BY <1>3 DEF BeginLocked, Operation, Step
<1>4. ASSUME NEW p \in Procs, LinkUpToDate(p) PROVE RootedOrRestoring'
  BY <1>4 DEF LinkUpToDate, Finish, Step
<1>5. ASSUME NEW p \in Procs, LinkRead(p) PROVE RootedOrRestoring'
  BY <1>5 DEF LinkRead, Step
<1>6. ASSUME NEW p \in Procs, DropOld(p) PROVE RootedOrRestoring'
  BY <1>6 DEF DropOld, Step
<1>7. ASSUME NEW p \in Procs, Replace(p) PROVE RootedOrRestoring'
  BY <1>7 DEF Replace, Step
<1>8. ASSUME NEW p \in Procs, MakeBack(p) PROVE RootedOrRestoring'
  BY <1>8 DEF MakeBack, Finish, Step
<1>9. ASSUME NEW p \in Procs, CallFails(p) PROVE RootedOrRestoring'
  <2>1. CASE op[p].kind # "select"
    BY <1>9, <2>1 DEF CallFails, Finish, Operation, Step
  <2>2. CASE op[p].kind = "select"
    <3>1. op'[p].kind \in {"remove", "restore"} /\ op'[p].f = op[p].f /\ at'[p] = "read"
      BY <1>9, <2>2 DEF CallFails, Operation, Step
    <3>2. /\ fwd' = fwd /\ back' = back /\ present' = present /\ hurt' = hurt
          /\ \A q \in Procs \ {p} : op'[q] = op[q] /\ at'[q] = at[q]
      BY <1>9, <2>2 DEF CallFails, Operation, Step
    <3>3. ASSUME NEW f \in Paths \ hurt PROVE Rooted(f)' \/ \E q \in Procs : Restoring(q, f)'
      <4>1. CASE op[p].f = f
        BY <3>1, <4>1
      <4>2. CASE op[p].f # f
        BY <3>2, <4>2
      <4> QED BY <4>1, <4>2
    <3> QED BY <3>2, <3>3
  <2> QED BY <2>1, <2>2
<1>10. ASSUME NEW p \in Procs, UnlinkAbsent(p) PROVE RootedOrRestoring'
  BY <1>10 DEF UnlinkAbsent, Finish, Step
<1>11. ASSUME NEW p \in Procs, UnlinkRead(p) PROVE RootedOrRestoring'
  BY <1>11 DEF UnlinkRead, Step
<1>12. ASSUME NEW p \in Procs, DropRef(p) PROVE RootedOrRestoring'
  BY <1>12 DEF DropRef, Step
<1>13. ASSUME NEW p \in Procs, RemoveForward(p) PROVE RootedOrRestoring'
  BY <1>13 DEF RemoveForward, Finish, Step
<1>14. ASSUME NEW p \in Procs, Crash(p) PROVE RootedOrRestoring'
  BY <1>14 DEF Crash, Finish, Step
<1>15. CASE Clean
  <2>1. ASSUME NEW f \in Paths \ hurt PROVE Rooted(f)'
    <3>1. Rooted(f)
      BY <1>15 DEF Clean, Quiet
    <3>2. fwd[f] # NoPkg => fwd[f] \in present'
      BY <1>15, <3>1 DEF Clean, HasLiveRefs
    <3>3. fwd[f] # NoPkg => <<fwd[f], f>> \in back'
      BY <1>15, <3>1, <3>2 DEF Clean
    <3> QED BY <1>15, <3>1, <3>2, <3>3 DEF Clean
  <2> QED BY <1>15, <2>1 DEF Clean
<1>16. CASE UNCHANGED refVars
  BY <1>16 DEF refVars
<1> HIDE DEF RefInv, RefTypeOK, Shape, Memory, RootedOrRestoring, Rooted, Restoring, Busy, Linking, Ops, Kinds, Steps, Targets
<1> QED
  BY <1>1, <1>2, <1>3, <1>4, <1>5, <1>6, <1>7, <1>8,
     <1>9, <1>10, <1>11, <1>12, <1>13, <1>14, <1>15, <1>16 DEF RefNext, RefStep

\* At the start there are no symlinks and nothing is under way.
LEMMA RefInvInit == RefInit => RefInv
<1> SUFFICES ASSUME RefInit PROVE RefInv
  OBVIOUS
<1>1. RefTypeOK
  BY IdleOpType DEF RefInit, RefTypeOK, Steps, Targets
<1>2. Shape /\ Memory /\ RootedOrRestoring
  BY DEF RefInit, Shape, Memory, RootedOrRestoring, Rooted, Busy
<1> QED BY <1>1, <1>2 DEF RefInv

\* However links, unlinks, selects, rollbacks, crashes and cleans interleave,
\* a path no operation is working on has its back-reference and leads into the
\* store, unless an operation on it died or failed half-way since; for any
\* number of processes, paths and packages.
THEOREM LinksStayRooted ==
    ASSUME <<"select", "replace">> \notin Failing
    PROVE  RefSpec => []QuietRooted
<1>1. RefInv /\ [RefNext]_refVars => RefInv'
  BY RefTypeStep, ShapeStep, MemoryStep, RootedStep DEF RefInv
<1> QED
  BY RefInvInit, <1>1, RefInvImpliesQuietRooted, PTL DEF RefSpec

\* A rollback that runs to its end puts the symlink and its back-reference back,
\* provided it was not the symlink replacement that failed.
THEOREM RollbackCorrect ==
    ASSUME <<"select", "replace">> \notin Failing
    PROVE  RefSpec => RollbackRestores
<1>1. ASSUME RefInv, [RefNext]_refVars PROVE RollbackDone
  <2> SUFFICES ASSUME NEW p \in Procs, at[p] # "idle", at'[p] = "idle",
                      op[p].kind \in {"restore", "remove"}, op[p].f \notin hurt'
               PROVE  /\ fwd'[op[p].f] = op[p].prior
                      /\ op[p].prior # NoPkg => <<op[p].prior, op[p].f>> \in back'
    BY DEF RollbackDone
  <2>0. op[p] \in Ops /\ op[p].f \in Paths
    BY <1>1 DEF RefInv, RefTypeOK, Ops
  <2>1. \/ LinkUpToDate(p) \/ MakeBack(p) \/ CallFails(p) \/ UnlinkAbsent(p)
        \/ RemoveForward(p) \/ Crash(p)
    <3>1. ASSUME NEW q \in Procs, RefStep(q) \/ Crash(q) PROVE q = p
      BY <1>1, <3>1 DEF RefStep, Crash, Finish, Step, LinkUpToDate, LinkRead, DropOld,
         Replace, MakeBack, CallFails, UnlinkAbsent, UnlinkRead, DropRef,
         RemoveForward, RefInv, RefTypeOK
    <3>2. ~(\E x \in Pkgs : Install(x)) /\ ~Clean /\ ~UNCHANGED refVars
      BY DEF Install, Clean, refVars
    <3>3. ~(\E q \in Procs, k \in Kinds, f \in Paths, x \in Targets :
                BeginUnlocked(q, k, f, x) \/ BeginLocked(q, k, f, x))
      BY <1>1 DEF BeginUnlocked, BeginLocked, Step, RefInv, RefTypeOK
    <3>4. RefStep(p) \/ Crash(p)
      BY <1>1, <3>1, <3>2, <3>3 DEF RefNext
    <3> QED BY <1>1, <3>4 DEF RefStep, LinkRead, DropOld, Replace, UnlinkRead,
            DropRef, Step, RefInv, RefTypeOK
  <2>2. ~LinkUpToDate(p)
    BY <1>1 DEF LinkUpToDate, Linking, RefInv, Memory, Busy
  <2>3. CASE MakeBack(p)
    BY <1>1, <2>0, <2>3 DEF MakeBack, RefInv, Shape, Memory, Busy, Linking
  <2>4. ~CallFails(p) /\ ~Crash(p)
    BY <2>0 DEF CallFails, Crash
  <2>5. CASE UnlinkAbsent(p)
    BY <1>1, <2>5 DEF UnlinkAbsent, Linking, RefInv, Memory, Busy
  <2>6. CASE RemoveForward(p)
    BY <1>1, <2>0, <2>6 DEF RemoveForward, RefInv, RefTypeOK, Shape, Memory, Busy, Linking
  <2> QED BY <2>1, <2>2, <2>3, <2>4, <2>5, <2>6
<1>2. RefInv /\ [RefNext]_refVars => RefInv'
  BY RefTypeStep, ShapeStep, MemoryStep, RootedStep DEF RefInv
<1> QED
  BY RefInvInit, <1>1, <1>2, PTL DEF RefSpec, RollbackRestores

\* Every variable keeps its type.
THEOREM RefTypeCorrect ==
    ASSUME <<"select", "replace">> \notin Failing
    PROVE  RefSpec => []RefTypeOK
<1>1. RefInv /\ [RefNext]_refVars => RefInv'
  BY RefTypeStep, ShapeStep, MemoryStep, RootedStep DEF RefInv
<1>2. RefInv => RefTypeOK
  BY DEF RefInv
<1> QED
  BY RefInvInit, <1>1, <1>2, PTL DEF RefSpec
================================================================================
