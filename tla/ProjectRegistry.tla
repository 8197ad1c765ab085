----------------------------- MODULE ProjectRegistry -----------------------------
(***************************************************************************)
(* The ledger of projects ($OCX_HOME/projects, one symlink each), the      *)
(* consent stamps and `ocx clean`, which turns both into decisions: whose  *)
(* pins are roots, which links and stamps are stale.  Commits register     *)
(* their project after ocx.lock is published and again after ocx.toml is;  *)
(* registration is best effort.  Nothing keeps a clean and a commit apart: *)
(* every look at the file system may be out of date when it is acted on.   *)
(*                                                                         *)
(* Packages are the pinned leaves a lock names; what they depend on is     *)
(* GarbageCollection's business.  ProjectMutation has what commits write.  *)
(***************************************************************************)
EXTENDS Naturals, FiniteSets

CONSTANTS
    Projects,       \* directories with an ocx.toml
    Home,           \* one of them is $OCX_HOME, with the global toolchain's lock
    Packages,
    Contents,       \* what a lock may pin: sets of packages
    Cleaners,       \* processes running ocx clean
    Modes,          \* the flags a clean may be given: sets of "dry" and "force"
    MaxCommits,     \* bound: commands that commit at the same time
    Absent

ASSUME HomeAssumption == Home \in Projects
ASSUME ContentsAssumption == Contents \subseteq SUBSET Packages
ASSUME AbsentAssumption == \A S \in Contents : S # Absent
ASSUME ModesAssumption == Modes \subseteq SUBSET {"dry", "force"}

VARIABLES
    present,        \* present[d]: the directory exists
    lock,           \* lock[d]: the packages its ocx.lock pins, or Absent
    link,           \* link[d]: the ledger has a link to it
    stamp,          \* stamp[d]: a consent stamp records it
    store,          \* packages in the store
    writer,         \* writer[d]: the command that commits in d
    clean,          \* clean[c]: where the clean of c stands
    held,           \* held[c][d]: what d, registered, has pinned ever since c began
    live,           \* live[c]: projects live since before c last looked at the entry in hand
    there           \* there[c]: directories there ever since c took up its present candidate

diskVars == <<present, lock, link, stamp, store>>
ghostVars == <<held, there>>
registryVars == <<diskVars, writer, clean, ghostVars, live>>

NoWriter == [pc |-> "idle", prev |-> Absent]
NoneHeld == [d \in Projects |-> {}]
NoClean == [pc |-> "idle", mode |-> {}, todo |-> {}, roots |-> {}, pins |-> {}, targets |-> {}]

RegistryInit ==
    /\ present \in [Projects -> BOOLEAN] /\ present[Home]
    /\ lock = [d \in Projects |-> Absent]
    /\ link = [d \in Projects |-> FALSE]
    /\ stamp \in [Projects -> BOOLEAN]          \* a departed project may have left one
    /\ store = {}
    /\ writer = [d \in Projects |-> NoWriter]
    /\ clean = [c \in Cleaners |-> NoClean]
    /\ held = [c \in Cleaners |-> NoneHeld]
    /\ live = [c \in Cleaners |-> {}]
    /\ there = [c \in Cleaners |-> {}]

PinsOf(l) == IF l = Absent THEN {} ELSE l
Pins(d) == PinsOf(lock[d])

\* From now on d pins no more than pins, and that is all the cleans in C can
\* count on.
HeldBy(C, d, pins) ==
    held' = [c \in Cleaners |->
        IF c \in C THEN [held[c] EXCEPT ![d] = @ \cap pins] ELSE held[c]]

----------------------------------------------------------------------------
(* Commits *)

Writer(d, w) == writer' = [writer EXCEPT ![d] = w]

\* ProjectLock::save publishes ocx.lock ...
SaveLock(d, pins) ==
    /\ writer[d].pc = "idle" /\ present[d]
    /\ Cardinality({x \in Projects : writer[x].pc # "idle"}) < MaxCommits
    /\ lock' = [lock EXCEPT ![d] = pins]
    /\ Writer(d, [pc |-> "saved", prev |-> lock[d]])
    /\ HeldBy(Cleaners, d, pins)
    /\ UNCHANGED <<present, link, stamp, store, clean, there>>

\* register_project_dir_best_effort: a failure is logged, no more.  A link to
\* a directory that is gone cannot be made; $OCX_HOME needs none.
Register(d, pcs, next, ok) ==
    /\ writer[d].pc \in pcs
    /\ ok => present[d]
    /\ link' = IF ok /\ d # Home THEN [link EXCEPT ![d] = TRUE] ELSE link
    /\ Writer(d, [writer[d] EXCEPT !.pc = next])
    /\ UNCHANGED <<present, lock, stamp, store, clean, ghostVars>>

\* ... and registers; commit publishes ocx.toml and registers again.
RegisterSaved(d) == \E ok \in BOOLEAN : Register(d, {"saved"}, "manifest", ok)

PublishManifest(d) == \E ok \in BOOLEAN : Register(d, {"manifest"}, "committed", ok)

\* The manifest write fails: the predecessor lock comes back, or none.
RollbackLock(d) ==
    /\ writer[d].pc = "manifest" /\ present[d]
    /\ lock' = [lock EXCEPT ![d] = writer[d].prev]
    /\ Writer(d, NoWriter)
    /\ HeldBy(Cleaners, d, PinsOf(writer[d].prev))
    /\ UNCHANGED <<present, link, stamp, store, clean, there>>

\* After the guard dropped: the consent stamp (best effort), then the pull.
Finish(d) ==
    /\ writer[d].pc = "committed"
    /\ \E recorded \in BOOLEAN :
          stamp' = IF recorded /\ present[d] /\ d # Home THEN [stamp EXCEPT ![d] = TRUE] ELSE stamp
    /\ store' = store \cup Pins(d)
    /\ Writer(d, NoWriter)
    /\ UNCHANGED <<present, lock, link, clean, ghostVars>>

CrashWriter(d) ==
    /\ writer[d].pc # "idle"
    /\ Writer(d, NoWriter)
    /\ UNCHANGED <<diskVars, clean, ghostVars>>

\* ocx pull reads the lock alone: it fills the store and registers nothing.
Pull(d) ==
    /\ present[d] /\ lock[d] # Absent
    /\ store' = store \cup Pins(d)
    /\ UNCHANGED <<present, lock, link, stamp, writer, clean, ghostVars>>

----------------------------------------------------------------------------
(* People *)

\* The directory is deleted, moved or unmounted.
Depart(d) ==
    /\ present[d] /\ d # Home
    /\ present' = [present EXCEPT ![d] = FALSE]
    /\ lock' = [lock EXCEPT ![d] = Absent]
    /\ there' = [c \in Cleaners |-> there[c] \ {d}]
    /\ HeldBy(Cleaners, d, {})
    /\ UNCHANGED <<link, stamp, store, writer, clean>>

\* ... and is there again, with a lock from a backup or a checkout.
Return(d, pins) ==
    /\ ~present[d]
    /\ present' = [present EXCEPT ![d] = TRUE]
    /\ lock' = [lock EXCEPT ![d] = pins]
    /\ UNCHANGED <<link, stamp, store, writer, clean, ghostVars>>

\* ocx shell revoke removes the stamp.
Revoke(d) ==
    /\ stamp[d]
    /\ stamp' = [stamp EXCEPT ![d] = FALSE]
    /\ UNCHANGED <<present, lock, link, store, writer, clean, ghostVars>>

----------------------------------------------------------------------------
(* ocx clean: the ledger *)

Clean(c, r) == clean' = [clean EXCEPT ![c] = r]

CleanOver(c) ==
    /\ Clean(c, NoClean)
    /\ held' = [held EXCEPT ![c] = NoneHeld] /\ there' = [there EXCEPT ![c] = {}]
    /\ UNCHANGED <<diskVars, writer>>

\* list_live reads the ledger up front; --force does not look at it.
CleanBegin(c, mode) ==
    /\ clean[c].pc = "idle"
    /\ Clean(c, IF "force" \in mode
                THEN [NoClean EXCEPT !.pc = "load", !.mode = mode]
                ELSE [NoClean EXCEPT !.pc = "probe", !.mode = mode,
                                     !.todo = {d \in Projects : link[d]}])
    /\ held' = [held EXCEPT ![c] =
          [d \in Projects |-> IF link[d] \/ d = Home THEN Pins(d) ELSE {}]]
    /\ UNCHANGED <<diskVars, writer, there>>

\* Faulty variant: an error of the probe is taken for an answer.
AliveIfProbed(d, error) == link[d] /\ present[d] /\ lock[d] # Absent /\ ~error

\* probe_live_target: a link that resolves to a directory with ocx.lock; an
\* error other than NotFound counts as alive.
Alive(d, error) == error \/ (link[d] /\ present[d] /\ lock[d] # Absent)

Probe(c, d, error) ==
    /\ clean[c].pc = "probe" /\ d \in clean[c].todo
    /\ IF Alive(d, error)
       THEN Clean(c, [clean[c] EXCEPT !.todo = @ \ {d}, !.roots = @ \cup {d}])
       ELSE Clean(c, [clean[c] EXCEPT !.pc = "reprobe", !.targets = {d}])
    /\ UNCHANGED <<diskVars, writer, ghostVars>>

\* Faulty variant: an entry that came back is a root, and pruned all the same.
ReprobeFallsThrough(c, d, error) ==
    /\ clean[c].pc = "reprobe" /\ d \in clean[c].targets
    /\ Clean(c, IF Alive(d, error)
                THEN [clean[c] EXCEPT !.pc = "prune", !.todo = @ \ {d}, !.roots = @ \cup {d}]
                ELSE [clean[c] EXCEPT !.pc = "prune"])
    /\ UNCHANGED <<diskVars, writer, ghostVars>>

\* A dead entry is looked at once more.
Reprobe(c, d, error) ==
    /\ clean[c].pc = "reprobe" /\ d \in clean[c].targets
    /\ IF Alive(d, error)
       THEN Clean(c, [clean[c] EXCEPT !.pc = "probe", !.todo = @ \ {d},
                                      !.roots = @ \cup {d}, !.targets = {}])
       ELSE Clean(c, [clean[c] EXCEPT !.pc = "prune"])
    /\ UNCHANGED <<diskVars, writer, ghostVars>>

\* The link goes, in a dry run too; by now the project may be back, or have
\* been committed to.
Prune(c, d) ==
    /\ clean[c].pc = "prune" /\ d \in clean[c].targets
    /\ \E removed \in BOOLEAN :
          link' = IF removed THEN [link EXCEPT ![d] = FALSE] ELSE link
    /\ Clean(c, [clean[c] EXCEPT !.pc = "probe", !.todo = @ \ {d}, !.targets = {}])
    /\ HeldBy(Cleaners \ {c}, d, {})
    /\ UNCHANGED <<present, lock, stamp, store, writer, there>>

\* An I/O error, an unreadable link among them, or a signal ends the command.
CleanAborts(c) ==
    /\ clean[c].pc # "idle"
    /\ CleanOver(c)

----------------------------------------------------------------------------
(* ocx clean: roots and deletion *)

\* $OCX_HOME's own lock is never in the ledger and always read.
Listed(c) ==
    /\ clean[c].pc = "probe" /\ clean[c].todo = {}
    /\ Clean(c, [clean[c] EXCEPT !.pc = "load", !.roots = {},
                                 !.todo = clean[c].roots \cup {Home}])
    /\ UNCHANGED <<diskVars, writer, ghostVars>>

\* collect_project_roots reads the locks of the roots, in any order.
LoadLock(c, d) ==
    /\ clean[c].pc = "load" /\ d \in clean[c].todo
    /\ Clean(c, [clean[c] EXCEPT !.todo = @ \ {d},
                                 !.pins = @ \cup Pins(d)])
    /\ UNCHANGED <<diskVars, writer, ghostVars>>

\* Faulty variant: an unreadable lock is skipped.
SkipUnreadable(c) ==
    /\ clean[c].pc = "load"
    /\ \E d \in clean[c].todo : Clean(c, [clean[c] EXCEPT !.todo = @ \ {d}])
    /\ UNCHANGED <<diskVars, writer, ghostVars>>

\* One unreadable lock or manifest retains everything: only the temp store
\* is cleaned.
RetainAll(c) ==
    /\ clean[c].pc = "load" /\ clean[c].todo # {}
    /\ CleanOver(c)

\* The collector is built over what the store holds now.
Build(c) ==
    /\ clean[c].pc = "load" /\ clean[c].todo = {}
    /\ Clean(c, [clean[c] EXCEPT !.pc = "delete", !.pins = {},
                                 !.targets = store \ clean[c].pins])
    /\ UNCHANGED <<diskVars, writer, ghostVars>>

DeleteOne(c, p) ==
    /\ clean[c].pc = "delete" /\ p \in clean[c].targets
    /\ store' = IF "dry" \in clean[c].mode THEN store ELSE store \ {p}
    /\ Clean(c, [clean[c] EXCEPT !.targets = @ \ {p}])
    /\ UNCHANGED <<present, lock, link, stamp, writer, ghostVars>>

----------------------------------------------------------------------------
(* ocx clean: consent stamps *)

\* Directories that are there now.
Here == {d \in Projects : present[d]}

\* sweep_consent_stamps: the stamps whose directory is not there now, and one
\* for $OCX_HOME; a directory it cannot probe keeps its stamp.
FindDeparted(c) ==
    /\ clean[c].pc = "delete" /\ clean[c].targets = {}
    /\ held' = [held EXCEPT ![c] = NoneHeld]
    /\ \E unknown \in SUBSET Projects :
          Clean(c, [clean[c] EXCEPT !.pc = "sweep", !.todo =
             {d \in Projects : stamp[d] /\ (d = Home \/ (~present[d] /\ d \notin unknown))}])
    /\ there' = [there EXCEPT ![c] = Here]
    /\ UNCHANGED <<diskVars, writer>>

\* Faulty variant: a candidate is removed without another look.
RecheckNothing(c, d, error) ==
    /\ clean[c].pc = "sweep" /\ d \in clean[c].todo
    /\ Clean(c, [clean[c] EXCEPT !.pc = "unstamp", !.targets = {d}])
    /\ UNCHANGED <<diskVars, writer, ghostVars>>

\* remove_departed_stamps looks again at each just before it removes it.
Recheck(c, d, error) ==
    /\ clean[c].pc = "sweep" /\ d \in clean[c].todo
    /\ IF d # Home /\ (present[d] \/ error)
       THEN /\ Clean(c, [clean[c] EXCEPT !.todo = @ \ {d}])
            /\ there' = [there EXCEPT ![c] = Here]
       ELSE /\ Clean(c, [clean[c] EXCEPT !.pc = "unstamp", !.targets = {d}])
            /\ UNCHANGED there
    /\ UNCHANGED <<diskVars, writer, held>>

Unstamp(c, d) ==
    /\ clean[c].pc = "unstamp" /\ d \in clean[c].targets
    /\ stamp' = IF "dry" \in clean[c].mode THEN stamp ELSE [stamp EXCEPT ![d] = FALSE]
    /\ Clean(c, [clean[c] EXCEPT !.pc = "sweep", !.todo = @ \ {d}, !.targets = {}])
    /\ there' = [there EXCEPT ![c] = Here]
    /\ UNCHANGED <<present, lock, link, store, writer, held>>

CleanEnd(c) ==
    /\ clean[c].pc = "sweep" /\ clean[c].todo = {}
    /\ CleanOver(c)

----------------------------------------------------------------------------
(* The system *)

Commit(d) ==
    \/ \E pins \in Contents : SaveLock(d, pins)
    \/ RegisterSaved(d) \/ PublishManifest(d) \/ RollbackLock(d)
    \/ Finish(d) \/ CrashWriter(d)
    \/ Pull(d)

People(d) ==
    \/ Depart(d) \/ Revoke(d)
    \/ \E pins \in Contents \cup {Absent} : Return(d, pins)

CleanStep(c) ==
    \/ \E mode \in Modes : CleanBegin(c, mode)
    \/ \E d \in Projects :
          \/ \E error \in BOOLEAN :
                Probe(c, d, error) \/ Reprobe(c, d, error) \/ Recheck(c, d, error)
          \/ Prune(c, d) \/ LoadLock(c, d) \/ Unstamp(c, d)
    \/ \E p \in Packages : DeleteOne(c, p)
    \/ CleanAborts(c) \/ Listed(c) \/ RetainAll(c) \/ Build(c)
    \/ FindDeparted(c) \/ CleanEnd(c)

\* The projects a probe would find live now.
LiveNow == {d \in Projects : link[d] /\ present[d] /\ lock[d] # Absent}

\* Once a clean has judged an entry, nobody who comes to life is added.
Watch ==
    live' = [c \in Cleaners |-> IF clean'[c].pc = "prune" THEN live[c] \cap LiveNow' ELSE LiveNow']

RegistryNext ==
    /\ \/ \E d \in Projects : Commit(d) \/ People(d)
       \/ \E c \in Cleaners : CleanStep(c)
    /\ Watch

RegistrySpec == RegistryInit /\ [][RegistryNext]_registryVars

----------------------------------------------------------------------------
(* Properties *)

\* Every variable has its type, and a clean about to remove one link or one
\* stamp holds exactly that one, out of the list it is working through.
RegistryTypeOK ==
    /\ present \in [Projects -> BOOLEAN]
    /\ lock \in [Projects -> Contents \cup {Absent}]
    /\ link \in [Projects -> BOOLEAN] /\ stamp \in [Projects -> BOOLEAN]
    /\ store \subseteq Packages
    /\ writer \in [Projects -> [pc : {"idle", "saved", "manifest", "committed"},
                               prev : Contents \cup {Absent}]]
    /\ DOMAIN clean = Cleaners
    /\ \A c \in Cleaners :
          /\ clean[c].pc \in {"idle", "probe", "reprobe", "prune", "load", "delete",
                              "sweep", "unstamp"}
          /\ clean[c].mode \in Modes \cup {{}}
          /\ clean[c].todo \subseteq Projects /\ clean[c].roots \subseteq Projects
          /\ clean[c].pins \subseteq Packages
          /\ clean[c].pc = "delete" => clean[c].targets \subseteq Packages
          /\ clean[c].pc \in {"reprobe", "prune", "unstamp"} =>
                \E d \in clean[c].todo : clean[c].targets = {d}
          /\ clean[c].pc \in {"idle", "probe", "load", "sweep"} => clean[c].targets = {}
    /\ held \in [Cleaners -> [Projects -> SUBSET Packages]]
    /\ live \in [Cleaners -> SUBSET Projects] /\ there \in [Cleaners -> SUBSET Projects]

\* A clean never deletes a package that a registered project has pinned ever
\* since the clean began, although commits replace that project's lock, roll it
\* back or are about to pull the package meanwhile: whichever lock the clean
\* reads names it.  --force waives the ledger, and another clean may take the
\* project out of it (collect_project_roots, CollectedRoots::RetainAll).
CleanKeepsPins ==
    [][\A c \in Cleaners, p \in Packages :
         DeleteOne(c, p) /\ p \notin store' =>
           "force" \in clean[c].mode \/ \A d \in Projects : p \notin held[c][d]]_registryVars

\* A project that is in the ledger with its lock by the time a clean takes its
\* second look, restored or committed to since the first one perhaps, keeps its
\* link, whatever errors the probes meet: all that can be lost is what comes to
\* life between the second look and the removal (list_live,
\* ProbeResult::Unknown).
CleanKeepsLinks ==
    [][\A c \in Cleaners, d \in Projects :
         Prune(c, d) /\ ~link'[d] => d \notin live[c]]_registryVars

\* A project that was back before the sweep came to its stamp keeps it
\* (remove_departed_stamps); $OCX_HOME never owns one.
ConsentKept ==
    [][\A c \in Cleaners, d \in Projects \ {Home} :
         Unstamp(c, d) /\ ~stamp'[d] => d \notin there[c]]_registryVars
================================================================================
