---------------------------- MODULE ReferenceManager ----------------------------
(***************************************************************************)
(* Install symlinks and the back-references that make them garbage         *)
(* collection roots (ocx_store::ReferenceManager), step by step, with the  *)
(* operations that call it: candidate links and unlinks, which take no     *)
(* lock, and select / deselect, which hold the repository's select lock    *)
(* and roll a failed link back.  Any number of processes interleave        *)
(* between system calls.                                                   *)
(*                                                                         *)
(* back holds <<package, path>> for refs/symlinks/<name of path> in the    *)
(* package directory; replacing a symlink (stage and rename) is atomic.    *)
(***************************************************************************)
CONSTANTS
    Procs,
    Paths,          \* forward paths: candidate and current symlinks
    SelectPaths,    \* the current symlinks, guarded by a select lock
    Pkgs,           \* package directories of the store
    NoPkg,          \* no symlink at a path
    NoProc,         \* a select lock is free
    Failing         \* <<kind, step>>: the system calls that may fail

ASSUME SelectPathsAssumption == Paths # {} /\ SelectPaths \subseteq Paths
ASSUME NoPkgAssumption == NoPkg \notin Pkgs
ASSUME NoProcAssumption == NoProc \notin Procs

VARIABLES
    fwd,        \* fwd[f]: the package the symlink f points at, or NoPkg
    back,       \* the back-references
    present,    \* packages in the store
    sel,        \* sel[f]: who holds the select lock of the current symlink f
    at,         \* at[p]: the step p is about to take
    op,         \* op[p]: the operation p is in
    hurt        \* history: the paths where an operation died or failed half-way
                \* and no later link or unlink has run to its end

refVars == <<fwd, back, present, sel, at, op, hurt>>

Kinds == {"link", "unlink", "select", "deselect", "restore", "remove"}
Steps == {"idle", "read", "dropold", "replace", "mkback", "dropref", "rmfwd"}
Targets == Pkgs \cup {NoPkg}
Ops == [kind : Kinds, f : Paths, t : Targets, seen : Targets, prior : Targets]

Operation(k, f, x, y) == [kind |-> k, f |-> f, t |-> x, seen |-> NoPkg, prior |-> y]

\* What op[p] holds while p runs nothing.
IdleOp == Operation("link", CHOOSE f \in Paths : TRUE, NoPkg, NoPkg)

RefInit ==
    /\ fwd = [f \in Paths |-> NoPkg]
    /\ back = {}
    /\ present = {}
    /\ sel = [f \in SelectPaths |-> NoProc]
    /\ at = [p \in Procs |-> "idle"]
    /\ op = [p \in Procs |-> IdleOp]
    /\ hurt = {}

Step(p, s) == at' = [at EXCEPT ![p] = s]

\* The call returns; dropping the guard frees a select lock it holds.
Finish(p) ==
    /\ Step(p, "idle")
    /\ sel' = [f \in SelectPaths |-> IF sel[f] = p THEN NoProc ELSE sel[f]]
    /\ op' = [op EXCEPT ![p] = IdleOp]

Linking(p) == op[p].kind \in {"link", "select", "restore"}

----------------------------------------------------------------------------
(* Calls *)

\* An installed package appears in the store (pull renames it into place).
Install(x) ==
    /\ x \notin present
    /\ present' = present \cup {x}
    /\ UNCHANGED <<fwd, back, sel, at, op, hurt>>

\* wire_selection's candidate and link_install (link), uninstall (unlink).
BeginUnlocked(p, k, f, x) ==
    /\ at[p] = "idle"
    /\ f \notin SelectPaths
    /\ \/ k = "link" /\ x \in present
       \/ k = "unlink" /\ x = NoPkg
    /\ op' = [op EXCEPT ![p] = Operation(k, f, x, NoPkg)]
    /\ Step(p, "read")
    /\ UNCHANGED <<fwd, back, present, sel, hurt>>

\* wire_selection's current (select) and deselect: under the select lock, and
\* select first reads what a rollback would restore.
BeginLocked(p, k, f, x) ==
    /\ at[p] = "idle"
    /\ f \in SelectPaths
    /\ \/ k = "select" /\ x \in present
       \/ k = "deselect" /\ x = NoPkg
    /\ sel[f] = NoProc
    /\ sel' = [sel EXCEPT ![f] = p]
    /\ op' = [op EXCEPT ![p] = Operation(k, f, x, fwd[f])]
    /\ Step(p, "read")
    /\ UNCHANGED <<fwd, back, present, hurt>>

----------------------------------------------------------------------------
(* ReferenceManager::link *)

\* Already up to date: return at once, whatever the back-reference says.
LinkUpToDate(p) ==
    /\ at[p] = "read" /\ Linking(p)
    /\ fwd[op[p].f] = op[p].t
    /\ Finish(p)
    /\ UNCHANGED <<fwd, back, present, hurt>>

LinkRead(p) ==
    /\ at[p] = "read" /\ Linking(p)
    /\ fwd[op[p].f] # op[p].t
    /\ op' = [op EXCEPT ![p].seen = fwd[op[p].f]]
    /\ Step(p, IF fwd[op[p].f] = NoPkg THEN "replace" ELSE "dropold")
    /\ UNCHANGED <<fwd, back, present, sel, hurt>>

\* Remove the back-reference of the target seen before; a failure is ignored.
DropOld(p) ==
    /\ at[p] = "dropold"
    /\ back' \in {back, back \ {<<op[p].seen, op[p].f>>}}
    /\ Step(p, "replace")
    /\ UNCHANGED <<fwd, present, sel, op, hurt>>

\* symlink::replace_atomic
Replace(p) ==
    /\ at[p] = "replace"
    /\ fwd' = [fwd EXCEPT ![op[p].f] = op[p].t]
    /\ Step(p, "mkback")
    /\ UNCHANGED <<back, present, sel, op, hurt>>

\* Create the back-reference; one that is already there is fine.
MakeBack(p) ==
    /\ at[p] = "mkback"
    /\ back' = back \cup {<<op[p].t, op[p].f>>}
    /\ hurt' = IF op[p].t = fwd[op[p].f] /\ op[p].t \in present
               THEN hurt \ {op[p].f} ELSE hurt
    /\ Finish(p)
    /\ UNCHANGED <<fwd, present>>

\* Faulty variants: the rollback links to nothing, or always removes.
CallFailsRestores(p) ==
    /\ at[p] \in {"replace", "mkback", "rmfwd"}
    /\ <<op[p].kind, at[p]>> \in Failing
    /\ IF op[p].kind # "select"
       THEN Finish(p) /\ hurt' = hurt \cup {op[p].f}
       ELSE /\ op' = [op EXCEPT ![p] = Operation("restore", @.f, @.prior, @.prior)]
            /\ Step(p, "read")
            /\ UNCHANGED <<sel, hurt>>
    /\ UNCHANGED <<fwd, back, present>>

CallFailsRemoves(p) ==
    /\ at[p] \in {"replace", "mkback", "rmfwd"}
    /\ <<op[p].kind, at[p]>> \in Failing
    /\ IF op[p].kind # "select"
       THEN Finish(p) /\ hurt' = hurt \cup {op[p].f}
       ELSE /\ op' = [op EXCEPT ![p] = Operation("remove", @.f, @.prior, @.prior)]
            /\ Step(p, "read")
            /\ UNCHANGED <<sel, hurt>>
    /\ UNCHANGED <<fwd, back, present>>

\* A system call of link or unlink fails.  Only select rolls back (rollback_symlink):
\* link to what was there before, or unlink if nothing was.
CallFails(p) ==
    /\ at[p] \in {"replace", "mkback", "rmfwd"}
    /\ <<op[p].kind, at[p]>> \in Failing
    /\ IF op[p].kind # "select"
       THEN Finish(p) /\ hurt' = hurt \cup {op[p].f}
       ELSE /\ op' = [op EXCEPT ![p] = Operation(IF @.prior = NoPkg THEN "remove" ELSE "restore",
                                                @.f, @.prior, @.prior)]
            /\ Step(p, "read")
            /\ UNCHANGED <<sel, hurt>>
    /\ UNCHANGED <<fwd, back, present>>

----------------------------------------------------------------------------
(* ReferenceManager::unlink *)

UnlinkAbsent(p) ==
    /\ at[p] = "read" /\ ~Linking(p)
    /\ fwd[op[p].f] = NoPkg
    /\ Finish(p)
    /\ UNCHANGED <<fwd, back, present, hurt>>

UnlinkRead(p) ==
    /\ at[p] = "read" /\ ~Linking(p)
    /\ fwd[op[p].f] # NoPkg
    /\ op' = [op EXCEPT ![p].seen = fwd[op[p].f]]
    /\ Step(p, "dropref")
    /\ UNCHANGED <<fwd, back, present, sel, hurt>>

DropRef(p) ==
    /\ at[p] = "dropref"
    /\ back' \in {back, back \ {<<op[p].seen, op[p].f>>}}
    /\ Step(p, "rmfwd")
    /\ UNCHANGED <<fwd, present, sel, op, hurt>>

\* Remove whatever symlink is at the path now (an error if there is none).
RemoveForward(p) ==
    /\ at[p] = "rmfwd"
    /\ fwd' = [fwd EXCEPT ![op[p].f] = NoPkg]
    /\ hurt' = hurt \ {op[p].f}
    /\ Finish(p)
    /\ UNCHANGED <<back, present>>

----------------------------------------------------------------------------
(* Garbage collection *)

Quiet == \A p \in Procs : at[p] = "idle"

\* Faulty variant: candidate symlinks keep nothing alive.
HasCurrentRef(x) == \E f \in SelectPaths : <<x, f>> \in back /\ fwd[f] \in present

\* has_live_refs: a back-reference whose forward path still resolves.  Only
\* existence counts, not where the path leads.
HasLiveRefs(x) == \E f \in Paths : <<x, f>> \in back /\ fwd[f] \in present

\* ocx clean, which must not run beside other commands: an unrooted package
\* goes, and its refs directory with it.
Clean ==
    /\ Quiet
    /\ present' = {x \in present : HasLiveRefs(x)}
    /\ back' = {b \in back : b[1] \in present'}
    /\ UNCHANGED <<fwd, sel, at, op, hurt>>

\* The process dies between two system calls.
Crash(p) ==
    /\ at[p] # "idle"
    /\ Finish(p)
    /\ hurt' = hurt \cup {op[p].f}
    /\ UNCHANGED <<fwd, back, present>>

RefStep(p) ==
    \/ LinkUpToDate(p) \/ LinkRead(p) \/ DropOld(p) \/ Replace(p) \/ MakeBack(p)
    \/ CallFails(p)
    \/ UnlinkAbsent(p) \/ UnlinkRead(p) \/ DropRef(p) \/ RemoveForward(p)

RefNext ==
    \/ \E x \in Pkgs : Install(x)
    \/ \E p \in Procs, k \in Kinds, f \in Paths, x \in Targets :
          BeginUnlocked(p, k, f, x) \/ BeginLocked(p, k, f, x)
    \/ \E p \in Procs : RefStep(p) \/ Crash(p)
    \/ Clean

RefSpec == RefInit /\ [][RefNext]_refVars /\ \A p \in Procs : WF_refVars(RefStep(p))

----------------------------------------------------------------------------
(* Properties *)

\* Every variable keeps its type.
RefTypeOK ==
    /\ fwd \in [Paths -> Targets]
    /\ back \subseteq Pkgs \X Paths
    /\ present \subseteq Pkgs
    /\ sel \in [SelectPaths -> Procs \cup {NoProc}]
    /\ at \in [Procs -> Steps]
    /\ op \in [Procs -> Ops]
    /\ hurt \subseteq Paths

\* Once no operation is under way on a path, its symlink has its
\* back-reference and leads to a package in the store: concurrent lock-free
\* links and unlinks of one path, cleans and rolled-back selects lose no
\* garbage collection root; only an operation that died or failed half-way can
\* (ReferenceManager::link "lock-free and idempotent", has_live_refs).
QuietRooted ==
    \A f \in Paths \ hurt :
        (\A p \in Procs : at[p] = "idle" \/ op[p].f # f) =>
            fwd[f] = NoPkg \/ (<<fwd[f], f>> \in back /\ fwd[f] \in present)

\* The step that ends a rollback leaves what was there before the select.
RollbackDone ==
    \A p \in Procs :
        /\ at[p] # "idle" /\ at'[p] = "idle"
        /\ op[p].kind \in {"restore", "remove"}
        /\ op[p].f \notin hurt'
        => /\ fwd'[op[p].f] = op[p].prior
           /\ op[p].prior # NoPkg => <<op[p].prior, op[p].f>> \in back'

\* rollback_symlink "Restores a symlink to its prior state": when the rollback
\* of a failed select returns, the symlink and its back-reference are what
\* they were before the select.
RollbackRestores == [][RollbackDone]_refVars
================================================================================
