-------------------------- MODULE ProjectRegistryProofs --------------------------
(***************************************************************************)
(* That `ocx clean` keeps the pins and links of registered projects and    *)
(* the consent of those that are back, for any projects, packages, locks,  *)
(* number of cleans and of commits.                                        *)
(*                                                                         *)
(* What a clean deletes is decided many steps before it is deleted, so the *)
(* invariant says at every label what the clean still knows of a project   *)
(* that has pinned something ever since it began (HeldKnown): it waits to  *)
(* be probed, or is a root; it waits to be read, or what it held is among  *)
(* the pins; none of that is a target.                                     *)
(***************************************************************************)
EXTENDS ProjectRegistry, TLAPS

CleanPcs == {"idle", "probe", "reprobe", "prune", "load", "delete", "sweep", "unstamp"}

\* RegistryTypeOK in parts.  A writer's record and, for each label, what a
\* clean's record holds:
WriterRecords == [pc : {"idle", "saved", "manifest", "committed"},
                  prev : Contents \cup {Absent}]

CleanFields == [pc : CleanPcs, mode : SUBSET {"dry", "force"},
                todo : SUBSET Projects, roots : SUBSET Projects,
                pins : SUBSET Packages, targets : SUBSET (Projects \cup Packages)]

CleanRecords ==
    {r \in CleanFields :
        /\ r.mode \in Modes \cup {{}}
        /\ r.pc = "delete" => r.targets \subseteq Packages
        /\ r.pc \in {"reprobe", "prune", "unstamp"} => \E d \in r.todo : r.targets = {d}
        /\ r.pc \in {"idle", "probe", "load", "sweep"} => r.targets = {}}

DiskOK ==
    /\ present \in [Projects -> BOOLEAN] /\ lock \in [Projects -> Contents \cup {Absent}]
    /\ link \in [Projects -> BOOLEAN] /\ stamp \in [Projects -> BOOLEAN]
    /\ store \subseteq Packages

GhostsOK ==
    /\ held \in [Cleaners -> [Projects -> SUBSET Packages]]
    /\ there \in [Cleaners -> SUBSET Projects]

TypeInv ==
    /\ DiskOK /\ GhostsOK
    /\ writer \in [Projects -> WriterRecords]
    /\ clean \in [Cleaners -> CleanRecords]

\* A lock is in a directory.
LockThere == \A d \in Projects : lock[d] # Absent => present[d]

\* $OCX_HOME has no link, so no clean ever probes it.
HomeUnlinked ==
    /\ ~link[Home]
    /\ \A c \in Cleaners :
          clean[c].pc \in {"probe", "reprobe", "prune"} => Home \notin clean[c].todo

\* What clean c knows of a project d that has pinned something ever since c
\* began.
Known(c, d) ==
    LET kept == held[c][d]
    IN  /\ kept \subseteq Pins(d)
        /\ kept # {} =>
              /\ link[d] \/ d = Home
              /\ clean[c].pc \in {"probe", "reprobe", "prune"} =>
                    /\ d \in clean[c].todo \cup clean[c].roots \cup {Home}
                    /\ clean[c].pc # "probe" => d \notin clean[c].targets
              /\ clean[c].pc = "load" /\ "force" \notin clean[c].mode =>
                    d \in clean[c].todo \/ kept \subseteq clean[c].pins
              /\ clean[c].pc = "delete" /\ "force" \notin clean[c].mode =>
                    kept \cap clean[c].targets = {}

HeldKnown == \A c \in Cleaners, d \in Projects : Known(c, d)

\* live[c] is what is live, but for what came to life since c's second look at
\* the entry it is about to remove; that entry is none of them.
LiveWatched ==
    /\ live \in [Cleaners -> SUBSET Projects]
    /\ \A c \in Cleaners :
          IF clean[c].pc = "prune" THEN live[c] \cap clean[c].targets = {} ELSE live[c] = LiveNow

\* A directory that was there all along is there, and its stamp is not the one
\* a sweep is about to remove.
ThereHere ==
    \A c \in Cleaners :
        /\ there[c] \subseteq Here
        /\ clean[c].pc = "unstamp" => \A d \in clean[c].targets : d = Home \/ d \notin there[c]

\* The inductive invariant.
RegistryInv == TypeInv /\ LockThere /\ HomeUnlinked /\ HeldKnown /\ LiveWatched /\ ThereHere

----------------------------------------------------------------------------

\* The parts are RegistryTypeOK.
LEMMA TypeInvImpliesTypeOK == TypeInv /\ LiveWatched => RegistryTypeOK
BY DEF TypeInv, LiveWatched, DiskOK, GhostsOK, WriterRecords, CleanRecords, CleanFields, CleanPcs, RegistryTypeOK

\* The records of no writer and of no clean.
LEMMA NoRecords == NoWriter \in WriterRecords /\ NoClean \in CleanRecords
BY DEF NoWriter, NoClean, WriterRecords, CleanRecords, CleanFields, CleanPcs

\* At the start nothing is locked, linked or under way.
LEMMA RegistryInvInit == RegistryInit => RegistryInv
<1> SUFFICES ASSUME RegistryInit PROVE RegistryInv
  OBVIOUS
<1>1. TypeInv
  BY NoRecords DEF RegistryInit, TypeInv, DiskOK, GhostsOK, NoneHeld
<1>2. HeldKnown
  BY DEF RegistryInit, HeldKnown, Known, NoneHeld
<1>3. LiveWatched
  <2>1. LiveNow = {}
    BY DEF RegistryInit, LiveNow
  <2>2. \A c \in Cleaners : clean[c].pc # "prune" /\ live[c] = {}
    BY DEF RegistryInit, NoClean
  <2>3. live \in [Cleaners -> SUBSET Projects]
    BY DEF RegistryInit
  <2> QED BY <2>1, <2>2, <2>3 DEF LiveWatched
<1> QED BY <1>1, <1>2, <1>3, HomeAssumption
  DEF RegistryInit, RegistryInv, LockThere, HomeUnlinked, ThereHere, NoClean, NoWriter

----------------------------------------------------------------------------
(* Types *)

\* A project pins packages.
LEMMA PinsType == ASSUME TypeInv, NEW d \in Projects PROVE Pins(d) \subseteq Packages
BY ContentsAssumption DEF Pins, PinsOf, TypeInv, DiskOK

\* What is held only becomes less, and for one project.
LEMMA HeldByType ==
    ASSUME TypeInv, NEW C, NEW d \in Projects, NEW pins, HeldBy(C, d, pins)
    PROVE  /\ held' \in [Cleaners -> [Projects -> SUBSET Packages]]
           /\ \A c \in Cleaners, x \in Projects :
                 held'[c][x] = IF c \in C /\ x = d THEN held[c][x] \cap pins ELSE held[c][x]
BY DEF HeldBy, TypeInv, GhostsOK

\* Every action of a commit keeps the types.
LEMMA TypeCommit ==
    ASSUME TypeInv, NEW d \in Projects, Commit(d) PROVE TypeInv'
<1> USE DEF TypeInv, DiskOK, GhostsOK
<1>1. ASSUME NEW pins \in Contents, SaveLock(d, pins) PROVE TypeInv'
  <2>1. [pc |-> "saved", prev |-> lock[d]] \in WriterRecords
    BY DEF WriterRecords
  <2>2. held' \in [Cleaners -> [Projects -> SUBSET Packages]]
    BY <1>1, HeldByType DEF SaveLock
  <2> QED BY <1>1, <2>1, <2>2 DEF SaveLock, Writer
<1>2. ASSUME NEW pcs, NEW next \in {"manifest", "committed"}, NEW ok \in BOOLEAN, Register(d, pcs, next, ok)
      PROVE  TypeInv'
  <2>1. [writer[d] EXCEPT !.pc = next] \in WriterRecords
    BY DEF WriterRecords
  <2> QED BY <1>2, <2>1 DEF Register, Writer, ghostVars
<1>3. CASE RollbackLock(d)
  <2>1. writer[d].prev \in Contents \cup {Absent}
    BY DEF WriterRecords
  <2>2. held' \in [Cleaners -> [Projects -> SUBSET Packages]]
    BY <1>3, HeldByType DEF RollbackLock
  <2> QED BY <1>3, <2>1, <2>2, NoRecords DEF RollbackLock, Writer
<1>4. CASE Finish(d)
  <2>1. stamp' \in [Projects -> BOOLEAN]
    BY <1>4 DEF Finish
  <2>2. store' \subseteq Packages
    BY <1>4, PinsType DEF Finish
  <2> QED BY <1>4, <2>1, <2>2, NoRecords DEF Finish, Writer, ghostVars
<1>5. CASE CrashWriter(d)
  BY <1>5, NoRecords DEF CrashWriter, Writer, diskVars, ghostVars
<1>6. CASE Pull(d)
  BY <1>6, PinsType DEF Pull, ghostVars
<1>7. CASE RegisterSaved(d)
  BY <1>2, <1>7 DEF RegisterSaved
<1>8. CASE PublishManifest(d)
  BY <1>2, <1>8 DEF PublishManifest
<1> QED BY <1>1, <1>3, <1>4, <1>5, <1>6, <1>7, <1>8 DEF Commit

\* What people do keeps the types.
LEMMA TypePeople ==
    ASSUME TypeInv, NEW d \in Projects, People(d) PROVE TypeInv'
<1>1. CASE Depart(d)
  <2>1. held' \in [Cleaners -> [Projects -> SUBSET Packages]]
    BY <1>1, HeldByType DEF Depart
  <2>2. there' \in [Cleaners -> SUBSET Projects]
    BY <1>1 DEF Depart, TypeInv, GhostsOK
  <2> QED BY <1>1, <2>1, <2>2 DEF Depart, TypeInv, DiskOK, GhostsOK
<1>2. CASE Revoke(d)
  BY <1>2 DEF Revoke, ghostVars, TypeInv, DiskOK, GhostsOK
<1>3. ASSUME NEW pins \in Contents \cup {Absent}, Return(d, pins) PROVE TypeInv'
  BY <1>3 DEF Return, ghostVars, TypeInv, DiskOK, GhostsOK
<1> QED BY <1>1, <1>2, <1>3 DEF People

\* The record of a clean, field by field.
LEMMA CleanFieldsOf ==
    ASSUME TypeInv, NEW c \in Cleaners
    PROVE  /\ clean[c] \in CleanFields
           /\ clean[c].mode \in Modes \cup {{}}
           /\ clean[c].todo \subseteq Projects /\ clean[c].roots \subseteq Projects
           /\ clean[c].pins \subseteq Packages
           /\ clean[c].pc = "delete" => clean[c].targets \subseteq Packages
           /\ clean[c].pc \in {"reprobe", "prune", "unstamp"} => \E d \in clean[c].todo : clean[c].targets = {d}
           /\ clean[c].pc \in {"idle", "probe", "load", "sweep"} => clean[c].targets = {}
BY DEF TypeInv, CleanRecords, CleanFields

\* Every action of a clean leaves it with a record of its new label.
LEMMA CleanRecordStep ==
    ASSUME TypeInv, NEW c \in Cleaners, CleanStep(c) PROVE clean' \in [Cleaners -> CleanRecords]
<1>0. ASSUME NEW r \in CleanRecords, Clean(c, r) PROVE clean' \in [Cleaners -> CleanRecords]
  BY <1>0 DEF Clean, TypeInv
<1> USE CleanFieldsOf
<1>1. ASSUME NEW mode \in Modes, CleanBegin(c, mode) PROVE clean' \in [Cleaners -> CleanRecords]
  <2> DEFINE forced == [NoClean EXCEPT !.pc = "load", !.mode = mode]
             ledger == [NoClean EXCEPT !.pc = "probe", !.mode = mode, !.todo = {d \in Projects : link[d]}]
  <2>1. forced \in CleanRecords /\ ledger \in CleanRecords
    BY ModesAssumption DEF NoClean, CleanRecords, CleanFields, CleanPcs
  <2>2. Clean(c, forced) \/ Clean(c, ledger)
    BY <1>1 DEF CleanBegin
  <2> QED BY <1>0, <2>1, <2>2
<1>2. ASSUME NEW d \in Projects, NEW error \in BOOLEAN, Probe(c, d, error)
      PROVE  clean' \in [Cleaners -> CleanRecords]
  <2> DEFINE back == [clean[c] EXCEPT !.todo = @ \ {d}, !.roots = @ \cup {d}]
             dead == [clean[c] EXCEPT !.pc = "reprobe", !.targets = {d}]
  <2>1. clean[c].pc = "probe" /\ d \in clean[c].todo /\ (Clean(c, back) \/ Clean(c, dead))
    BY <1>2 DEF Probe
  <2>2. back \in CleanRecords /\ dead \in CleanRecords
    BY <2>1 DEF CleanRecords, CleanFields, CleanPcs
  <2> QED BY <1>0, <2>1, <2>2
<1>3. ASSUME NEW d \in Projects, NEW error \in BOOLEAN, Reprobe(c, d, error)
      PROVE  clean' \in [Cleaners -> CleanRecords]
  <2> DEFINE back == [clean[c] EXCEPT !.pc = "probe", !.todo = @ \ {d}, !.roots = @ \cup {d}, !.targets = {}]
             dead == [clean[c] EXCEPT !.pc = "prune"]
  <2>1. clean[c].pc = "reprobe" /\ (Clean(c, back) \/ Clean(c, dead))
    BY <1>3 DEF Reprobe
  <2>2. back \in CleanRecords /\ dead \in CleanRecords
    BY <2>1 DEF CleanRecords, CleanFields, CleanPcs
  <2> QED BY <1>0, <2>1, <2>2
<1>4. ASSUME NEW d \in Projects, NEW error \in BOOLEAN, Recheck(c, d, error)
      PROVE  clean' \in [Cleaners -> CleanRecords]
  <2> DEFINE keep == [clean[c] EXCEPT !.todo = @ \ {d}]
             drop == [clean[c] EXCEPT !.pc = "unstamp", !.targets = {d}]
  <2>1. clean[c].pc = "sweep" /\ d \in clean[c].todo /\ (Clean(c, keep) \/ Clean(c, drop))
    BY <1>4 DEF Recheck
  <2>2. keep \in CleanRecords /\ drop \in CleanRecords
    BY <2>1 DEF CleanRecords, CleanFields, CleanPcs
  <2> QED BY <1>0, <2>1, <2>2
<1>5. ASSUME NEW d \in Projects, Prune(c, d) PROVE clean' \in [Cleaners -> CleanRecords]
  <2> DEFINE next == [clean[c] EXCEPT !.pc = "probe", !.todo = @ \ {d}, !.targets = {}]
  <2>1. Clean(c, next)
    BY <1>5 DEF Prune
  <2>2. next \in CleanRecords
    BY DEF CleanRecords, CleanFields, CleanPcs
  <2> QED BY <1>0, <2>1, <2>2
<1>6. ASSUME NEW d \in Projects, LoadLock(c, d) PROVE clean' \in [Cleaners -> CleanRecords]
  <2> DEFINE read == Pins(d)
             next == [clean[c] EXCEPT !.todo = @ \ {d}, !.pins = @ \cup read]
  <2>1. clean[c].pc = "load" /\ Clean(c, next)
    BY <1>6 DEF LoadLock
  <2>2. read \subseteq Packages
    BY PinsType
  <2>3. next \in CleanRecords
    <3> HIDE DEF read
    <3> QED BY <2>1, <2>2 DEF CleanRecords, CleanFields, CleanPcs
  <2> HIDE DEF next
  <2> QED BY <1>0, <2>1, <2>3
<1>7. ASSUME NEW d \in Projects, Unstamp(c, d) PROVE clean' \in [Cleaners -> CleanRecords]
  <2> DEFINE next == [clean[c] EXCEPT !.pc = "sweep", !.todo = @ \ {d}, !.targets = {}]
  <2>1. Clean(c, next)
    BY <1>7 DEF Unstamp
  <2>2. next \in CleanRecords
    BY DEF CleanRecords, CleanFields, CleanPcs
  <2> QED BY <1>0, <2>1, <2>2
<1>8. ASSUME NEW p \in Packages, DeleteOne(c, p) PROVE clean' \in [Cleaners -> CleanRecords]
  <2> DEFINE next == [clean[c] EXCEPT !.targets = @ \ {p}]
  <2>1. clean[c].pc = "delete" /\ Clean(c, next)
    BY <1>8 DEF DeleteOne
  <2>2. next \in CleanRecords
    BY <2>1 DEF CleanRecords, CleanFields, CleanPcs
  <2> QED BY <1>0, <2>1, <2>2
<1>9. CASE Listed(c)
  <2> DEFINE next == [clean[c] EXCEPT !.pc = "load", !.roots = {}, !.todo = clean[c].roots \cup {Home}]
  <2>1. clean[c].pc = "probe" /\ Clean(c, next)
    BY <1>9 DEF Listed
  <2>2. next \in CleanRecords
    BY <2>1, HomeAssumption DEF CleanRecords, CleanFields, CleanPcs
  <2> QED BY <1>0, <2>1, <2>2
<1>10. CASE Build(c)
  <2> DEFINE next == [clean[c] EXCEPT !.pc = "delete", !.pins = {}, !.targets = store \ clean[c].pins]
  <2>1. Clean(c, next)
    BY <1>10 DEF Build
  <2>2. next \in CleanRecords
    <3>1. store \ clean[c].pins \subseteq Packages  BY DEF TypeInv, DiskOK
    <3> QED BY <3>1 DEF CleanRecords, CleanFields, CleanPcs
  <2> QED BY <1>0, <2>1, <2>2
<1>11. CASE FindDeparted(c)
  <2>1. PICK unknown \in SUBSET Projects :
           Clean(c, [clean[c] EXCEPT !.pc = "sweep", !.todo =
              {d \in Projects : stamp[d] /\ (d = Home \/ (~present[d] /\ d \notin unknown))}])
    BY <1>11 DEF FindDeparted
  <2> DEFINE departed == {d \in Projects : stamp[d] /\ (d = Home \/ (~present[d] /\ d \notin unknown))}
             next == [clean[c] EXCEPT !.pc = "sweep", !.todo = departed]
  <2>2. departed \subseteq Projects /\ clean[c].targets = {}
    BY <1>11 DEF FindDeparted
  <2>3. next \in CleanRecords
    <3> HIDE DEF departed
    <3> QED BY <2>2 DEF CleanRecords, CleanFields, CleanPcs
  <2> QED BY <1>0, <2>1, <2>3
<1>12. CASE CleanAborts(c) \/ RetainAll(c) \/ CleanEnd(c)
  BY <1>0, <1>12, NoRecords DEF CleanAborts, RetainAll, CleanEnd, CleanOver
<1> QED BY <1>1, <1>2, <1>3, <1>4, <1>5, <1>6, <1>7, <1>8, <1>9, <1>10, <1>11, <1>12 DEF CleanStep

\* Nor does it touch the types of anything else.
LEMMA TypeClean ==
    ASSUME TypeInv, NEW c \in Cleaners, CleanStep(c) PROVE TypeInv'
<1> USE CleanRecordStep DEF TypeInv, DiskOK, GhostsOK, diskVars, ghostVars
<1>1. ASSUME NEW mode \in Modes, CleanBegin(c, mode) PROVE TypeInv'
  <2>1. held' \in [Cleaners -> [Projects -> SUBSET Packages]]
    BY <1>1, PinsType DEF CleanBegin
  <2> QED BY <1>1, <2>1 DEF CleanBegin
<1>2. ASSUME NEW d \in Projects, NEW error \in BOOLEAN,
             Probe(c, d, error) \/ Reprobe(c, d, error) \/ Recheck(c, d, error)
      PROVE  TypeInv'
  BY <1>2 DEF Probe, Reprobe, Recheck, Here
<1>3. ASSUME NEW d \in Projects, Prune(c, d) PROVE TypeInv'
  <2>1. held' \in [Cleaners -> [Projects -> SUBSET Packages]]
    BY <1>3, HeldByType DEF Prune
  <2>2. link' \in [Projects -> BOOLEAN]
    BY <1>3 DEF Prune
  <2> QED BY <1>3, <2>1, <2>2 DEF Prune
<1>4. ASSUME NEW d \in Projects, LoadLock(c, d) \/ Unstamp(c, d) PROVE TypeInv'
  <2>1. CASE LoadLock(c, d)
    BY <2>1 DEF LoadLock
  <2>2. CASE Unstamp(c, d)
    <3>1. stamp' \in [Projects -> BOOLEAN]  BY <2>2 DEF Unstamp
    <3>2. there' \in [Cleaners -> SUBSET Projects]  BY <2>2 DEF Unstamp, Here
    <3> QED BY <2>2, <3>1, <3>2 DEF Unstamp
  <2> QED BY <1>4, <2>1, <2>2
<1>5. ASSUME NEW p \in Packages, DeleteOne(c, p) PROVE TypeInv'
  BY <1>5 DEF DeleteOne
<1>6. CASE Listed(c) \/ Build(c) \/ FindDeparted(c)
  <2>1. CASE Listed(c) \/ Build(c)  BY <2>1 DEF Listed, Build
  <2>2. CASE FindDeparted(c)
    <3>1. held' \in [Cleaners -> [Projects -> SUBSET Packages]]
      BY <2>2 DEF FindDeparted, NoneHeld
    <3>2. there' \in [Cleaners -> SUBSET Projects]
      BY <2>2 DEF FindDeparted, Here
    <3> QED BY <2>2, <3>1, <3>2 DEF FindDeparted
  <2> QED BY <1>6, <2>1, <2>2
<1>7. CASE CleanAborts(c) \/ RetainAll(c) \/ CleanEnd(c)
  BY <1>7 DEF CleanAborts, RetainAll, CleanEnd, CleanOver, NoneHeld
<1> QED BY <1>1, <1>2, <1>3, <1>4, <1>5, <1>6, <1>7 DEF CleanStep

\* Every step keeps the types.
LEMMA TypeStep == TypeInv /\ [RegistryNext]_registryVars => TypeInv'
<1> SUFFICES ASSUME TypeInv, [RegistryNext]_registryVars PROVE TypeInv'
  OBVIOUS
<1>1. CASE UNCHANGED registryVars
  BY <1>1 DEF registryVars, diskVars, ghostVars, TypeInv, DiskOK, GhostsOK
<1> QED BY <1>1, TypeCommit, TypePeople, TypeClean DEF RegistryNext

----------------------------------------------------------------------------
(* What a clean knows of a project that has pinned something all along *)

\* A lock is only ever written into a directory that is there.
LEMMA LockThereStep == TypeInv /\ LockThere /\ [RegistryNext]_registryVars => LockThere'
<1> SUFFICES ASSUME TypeInv, LockThere, [RegistryNext]_registryVars PROVE LockThere'
  OBVIOUS
<1> USE DEF TypeInv, DiskOK, LockThere
<1>1. ASSUME NEW d \in Projects, NEW pins \in Contents, SaveLock(d, pins) PROVE LockThere'
  BY <1>1 DEF SaveLock
<1>2. ASSUME NEW d \in Projects, RollbackLock(d) PROVE LockThere'
  BY <1>2 DEF RollbackLock
<1>3. ASSUME NEW d \in Projects, Depart(d) PROVE LockThere'
  BY <1>3 DEF Depart
<1>4. ASSUME NEW d \in Projects, NEW pins \in Contents \cup {Absent}, Return(d, pins) PROVE LockThere'
  BY <1>4 DEF Return
<1>5. ASSUME UNCHANGED <<lock, present>> PROVE LockThere'
  BY <1>5
<1>6. ASSUME NEW c \in Cleaners, CleanStep(c) PROVE UNCHANGED <<lock, present>>
  BY <1>6 DEF CleanStep, CleanBegin, Probe, Reprobe, Recheck, Prune, LoadLock, Unstamp, DeleteOne, CleanAborts,
              Listed, RetainAll, Build, FindDeparted, CleanEnd, CleanOver, diskVars
<1>7. ASSUME NEW d \in Projects, RegisterSaved(d) \/ PublishManifest(d) \/ Finish(d) \/ CrashWriter(d) \/ Pull(d) \/ Revoke(d)
      PROVE  UNCHANGED <<lock, present>>
  BY <1>7 DEF RegisterSaved, PublishManifest, Register, Finish, CrashWriter, Pull, Revoke, diskVars
<1>8. CASE UNCHANGED registryVars
  BY <1>8 DEF registryVars, diskVars
<1> QED BY <1>1, <1>2, <1>3, <1>4, <1>5, <1>6, <1>7, <1>8, Zenon DEF RegistryNext, Commit, People

\* A step of c changes its own record alone.
LEMMA CleanOf ==
    ASSUME TypeInv, NEW c \in Cleaners, NEW r, Clean(c, r)
    PROVE  clean'[c] = r /\ \A x \in Cleaners \ {c} : clean'[x] = clean[x]
BY DEF Clean, TypeInv

\* So does every one of its actions.
LEMMA CleanStepOwn ==
    ASSUME TypeInv, NEW c \in Cleaners, CleanStep(c), NEW x \in Cleaners, x # c
    PROVE  clean'[x] = clean[x]
<1>1. \E r : Clean(c, r)
  BY DEF CleanStep, CleanBegin, Probe, Reprobe, Recheck, Prune, LoadLock, Unstamp, DeleteOne, CleanAborts,
         Listed, RetainAll, Build, FindDeparted, CleanEnd, CleanOver
<1> QED BY <1>1, CleanOf

\* Only other projects are linked, and only links are probed.
LEMMA HomeUnlinkedStep == TypeInv /\ HomeUnlinked /\ [RegistryNext]_registryVars => HomeUnlinked'
<1> SUFFICES ASSUME TypeInv, HomeUnlinked, [RegistryNext]_registryVars PROVE HomeUnlinked'
  OBVIOUS
<1> USE HomeAssumption DEF HomeUnlinked
<1>1. ASSUME NEW d \in Projects, Commit(d) \/ People(d) PROVE HomeUnlinked'
  <2>1. UNCHANGED clean
    BY <1>1 DEF Commit, SaveLock, RegisterSaved, PublishManifest, Register, RollbackLock, Finish, CrashWriter,
                Pull, People, Depart, Revoke, Return
  <2>2. ~link'[Home]
    BY <1>1 DEF Commit, SaveLock, RegisterSaved, PublishManifest, Register, RollbackLock, Finish, CrashWriter,
                Pull, People, Depart, Revoke, Return, diskVars, TypeInv, DiskOK
  <2> QED BY <2>1, <2>2
<1>2. ASSUME NEW c \in Cleaners, CleanStep(c) PROVE HomeUnlinked'
  <2>0. clean[c] \in CleanFields
    BY CleanFieldsOf
  <2>00. ASSUME UNCHANGED link, \A x \in Cleaners \ {c} : clean'[x] = clean[x],
                clean'[c].pc \in {"probe", "reprobe", "prune"} => Home \notin clean'[c].todo
         PROVE  HomeUnlinked'
    BY <2>00
  <2>1. ASSUME NEW mode \in Modes, CleanBegin(c, mode) PROVE HomeUnlinked'
    BY <2>1 DEF CleanBegin, Clean, NoClean, TypeInv, diskVars
  <2>2. ASSUME NEW d \in Projects, NEW error \in BOOLEAN, Probe(c, d, error) PROVE HomeUnlinked'
    <3>1. Home \notin clean[c].todo /\ UNCHANGED link
      BY <2>2 DEF Probe, diskVars
    <3>2. /\ \/ clean'[c] = [clean[c] EXCEPT !.todo = @ \ {d}, !.roots = @ \cup {d}]
             \/ clean'[c] = [clean[c] EXCEPT !.pc = "reprobe", !.targets = {d}]
          /\ \A x \in Cleaners \ {c} : clean'[x] = clean[x]
      BY <2>2, CleanOf DEF Probe
    <3>3. Home \notin clean'[c].todo
      BY <2>0, <3>1, <3>2 DEF CleanFields
    <3>4. UNCHANGED link /\ \A x \in Cleaners \ {c} : clean'[x] = clean[x]
      BY <3>1, <3>2
    <3> QED BY <2>00, <3>3, <3>4
  <2>3. ASSUME NEW d \in Projects, NEW error \in BOOLEAN, Reprobe(c, d, error) PROVE HomeUnlinked'
    <3>1. Home \notin clean[c].todo /\ UNCHANGED link
      BY <2>3 DEF Reprobe, diskVars
    <3>2. /\ \/ clean'[c] = [clean[c] EXCEPT !.pc = "probe", !.todo = @ \ {d}, !.roots = @ \cup {d}, !.targets = {}]
             \/ clean'[c] = [clean[c] EXCEPT !.pc = "prune"]
          /\ \A x \in Cleaners \ {c} : clean'[x] = clean[x]
      BY <2>3, CleanOf DEF Reprobe
    <3>3. Home \notin clean'[c].todo
      <4>1. CASE clean'[c] = [clean[c] EXCEPT !.pc = "probe", !.todo = @ \ {d}, !.roots = @ \cup {d}, !.targets = {}]
        <5>1. clean'[c].todo = clean[c].todo \ {d}  BY <2>0, <4>1 DEF CleanFields
        <5> QED BY <3>1, <5>1, Zenon
      <4>2. CASE clean'[c] = [clean[c] EXCEPT !.pc = "prune"]
        <5>1. clean'[c].todo = clean[c].todo  BY <2>0, <4>2 DEF CleanFields
        <5> QED BY <3>1, <5>1, Zenon
      <4> QED BY <3>2, <4>1, <4>2, Zenon
    <3>4. UNCHANGED link /\ \A x \in Cleaners \ {c} : clean'[x] = clean[x]
      BY <3>1, <3>2
    <3> QED BY <2>00, <3>3, <3>4
  <2>4. ASSUME NEW d \in Projects, NEW error \in BOOLEAN, Recheck(c, d, error) PROVE HomeUnlinked'
    <3>1. clean[c].pc = "sweep" /\ UNCHANGED link
      BY <2>4 DEF Recheck, diskVars
    <3>2. /\ \/ clean'[c] = [clean[c] EXCEPT !.todo = @ \ {d}]
             \/ clean'[c] = [clean[c] EXCEPT !.pc = "unstamp", !.targets = {d}]
          /\ \A x \in Cleaners \ {c} : clean'[x] = clean[x]
      BY <2>4, CleanOf DEF Recheck
    <3>3. clean'[c].pc \notin {"probe", "reprobe", "prune"}
      BY <2>0, <3>1, <3>2 DEF CleanFields
    <3>4. UNCHANGED link /\ \A x \in Cleaners \ {c} : clean'[x] = clean[x]
      BY <3>1, <3>2
    <3> QED BY <2>00, <3>3, <3>4
  <2>5. ASSUME NEW d \in Projects, Prune(c, d) PROVE HomeUnlinked'
    <3>1. ~link'[Home]
      BY <2>5 DEF Prune, TypeInv, DiskOK
    <3> QED BY <2>5, <3>1 DEF Prune, Clean, TypeInv
  <2>6. ASSUME NEW d \in Projects, LoadLock(c, d) \/ Unstamp(c, d) PROVE HomeUnlinked'
    <3>1. PICK r : Clean(c, r) /\ r.pc \in {"load", "sweep"} /\ UNCHANGED link
      <4>1. CASE LoadLock(c, d)
        BY <2>0, <4>1 DEF LoadLock, CleanFields, diskVars
      <4>2. CASE Unstamp(c, d)
        BY <2>0, <4>2 DEF Unstamp, CleanFields
      <4> QED BY <2>6, <4>1, <4>2
    <3> QED BY <2>00, <3>1, CleanOf
  <2>7. ASSUME NEW p \in Packages, DeleteOne(c, p) PROVE HomeUnlinked'
    BY <2>0, <2>7 DEF DeleteOne, Clean, CleanFields, TypeInv
  <2>8. CASE Listed(c) \/ Build(c)
    <3>1. PICK r : Clean(c, r) /\ r.pc \in {"load", "delete"} /\ UNCHANGED link
      <4>1. CASE Listed(c)
        BY <2>0, <4>1 DEF Listed, CleanFields, diskVars
      <4>2. CASE Build(c)
        BY <2>0, <4>2 DEF Build, CleanFields, diskVars
      <4> QED BY <2>8, <4>1, <4>2
    <3> QED BY <2>00, <3>1, CleanOf
  <2>9. CASE FindDeparted(c)
    <3>1. \E todo : Clean(c, [clean[c] EXCEPT !.pc = "sweep", !.todo = todo])
      BY <2>9 DEF FindDeparted
    <3>2. clean'[c].pc = "sweep" /\ \A x \in Cleaners \ {c} : clean'[x] = clean[x]
      BY <2>0, <3>1 DEF Clean, CleanFields, TypeInv
    <3> QED BY <2>00, <2>9, <3>2 DEF FindDeparted, diskVars
  <2>10. CASE CleanAborts(c) \/ RetainAll(c) \/ CleanEnd(c)
    BY <2>10 DEF CleanAborts, RetainAll, CleanEnd, CleanOver, NoClean, Clean, TypeInv, diskVars
  <2> QED BY <1>2, <2>1, <2>2, <2>3, <2>4, <2>5, <2>6, <2>7, <2>8, <2>9, <2>10 DEF CleanStep
<1>3. CASE UNCHANGED registryVars
  BY <1>3 DEF registryVars, diskVars
<1> QED BY <1>1, <1>2, <1>3 DEF RegistryNext

\* What c knows of d outlives a step that leaves c alone, takes no link and
\* lets d keep pinning what is held of it.
LEMMA KnownFrame ==
    ASSUME NEW c \in Cleaners, NEW d \in Projects, Known(c, d), clean'[c] = clean[c],
           held'[c][d] \subseteq held[c][d], held'[c][d] \subseteq Pins(d)',
           held'[c][d] # {} => (link[d] => link'[d])
    PROVE  Known(c, d)'
<1>1. CASE held'[c][d] = {}
  BY <1>1 DEF Known
<1>2. CASE held'[c][d] # {}
  <2>1. held[c][d] # {}
    BY <1>2
  <2> QED BY <1>2, <2>1 DEF Known
<1> QED BY <1>1, <1>2

\* A commit that replaces or restores a lock leaves held what both locks pin;
\* a project that departs holds nothing; nobody but a clean takes a link.
LEMMA HeldOthers ==
    ASSUME TypeInv, LockThere, HeldKnown, NEW d \in Projects, Commit(d) \/ People(d)
    PROVE  HeldKnown'
<1>0. ASSUME UNCHANGED clean,
             \A x \in Projects : link[x] => link'[x],
             \A c \in Cleaners, x \in Projects :
                 held'[c][x] \subseteq held[c][x] /\ held'[c][x] \subseteq Pins(x)'
      PROVE  HeldKnown'
  <2> SUFFICES ASSUME NEW c \in Cleaners, NEW x \in Projects PROVE Known(c, x)'
    BY DEF HeldKnown
  <2>1. Known(c, x)
    BY DEF HeldKnown
  <2> QED BY <1>0, <2>1, KnownFrame
<1>00. \A c \in Cleaners, x \in Projects : held[c][x] \subseteq Pins(x)
  BY DEF HeldKnown, Known
<1>000. ASSUME NEW pins, HeldBy(Cleaners, d, pins), UNCHANGED <<clean, link>>,
               \A x \in Projects : PinsOf(lock'[x]) = IF x = d THEN pins ELSE PinsOf(lock[x])
        PROVE  HeldKnown'
  <2>1. \A c \in Cleaners, x \in Projects :
           held'[c][x] = IF x = d THEN held[c][x] \cap pins ELSE held[c][x]
    BY <1>000 DEF HeldBy, TypeInv, GhostsOK
  <2> QED BY <1>0, <1>00, <1>000, <2>1 DEF Pins
<1> USE DEF TypeInv, DiskOK
<1>1. ASSUME NEW pins \in Contents, SaveLock(d, pins) PROVE HeldKnown'
  <2>1. HeldBy(Cleaners, d, pins) /\ UNCHANGED <<clean, link>> /\ lock' = [lock EXCEPT ![d] = pins]
    BY <1>1 DEF SaveLock
  <2>2. \A x \in Projects : PinsOf(lock'[x]) = IF x = d THEN pins ELSE PinsOf(lock[x])
    BY <2>1, AbsentAssumption DEF PinsOf
  <2> QED BY <1>000, <2>1, <2>2
<1>2. CASE RegisterSaved(d) \/ PublishManifest(d)
  BY <1>0, <1>00, <1>2 DEF RegisterSaved, PublishManifest, Register, Pins, ghostVars
<1>3. CASE RollbackLock(d)
  <2>1. HeldBy(Cleaners, d, PinsOf(writer[d].prev)) /\ UNCHANGED <<clean, link>>
        /\ lock' = [lock EXCEPT ![d] = writer[d].prev]
    BY <1>3 DEF RollbackLock
  <2>2. \A x \in Projects : PinsOf(lock'[x]) = IF x = d THEN PinsOf(writer[d].prev) ELSE PinsOf(lock[x])
    BY <2>1
  <2> QED BY <1>000, <2>1, <2>2
<1>4. CASE Finish(d) \/ CrashWriter(d) \/ Pull(d) \/ Revoke(d)
  <2>1. UNCHANGED <<clean, link, lock, held>>
    BY <1>4 DEF Finish, CrashWriter, Pull, Revoke, diskVars, ghostVars
  <2> QED BY <1>0, <1>00, <2>1 DEF Pins
<1>5. CASE Depart(d)
  <2>1. HeldBy(Cleaners, d, {}) /\ UNCHANGED <<clean, link>> /\ lock' = [lock EXCEPT ![d] = Absent]
    BY <1>5 DEF Depart
  <2>2. \A x \in Projects : PinsOf(lock'[x]) = IF x = d THEN {} ELSE PinsOf(lock[x])
    BY <2>1 DEF PinsOf
  <2> QED BY <1>000, <2>1, <2>2
<1>6. ASSUME NEW pins \in Contents \cup {Absent}, Return(d, pins) PROVE HeldKnown'
  <2>1. \A c \in Cleaners : held[c][d] = {}
    BY <1>00, <1>6 DEF Return, LockThere, Pins, PinsOf
  <2>2. UNCHANGED <<clean, link, held>> /\ \A x \in Projects : x # d => lock'[x] = lock[x]
    BY <1>6 DEF Return, ghostVars
  <2> QED BY <1>0, <1>00, <2>1, <2>2 DEF Pins
<1> QED BY <1>1, <1>2, <1>3, <1>4, <1>5, <1>6 DEF Commit, People

\* A clean learns what it has to know of such a project before it acts on
\* it: the probe finds it alive, whatever error it meets; its lock is read; a
\* lock that cannot be read ends the run.
LEMMA HeldClean ==
    ASSUME TypeInv, TypeInv', LockThere, HomeUnlinked, HeldKnown, NEW c \in Cleaners, CleanStep(c)
    PROVE  HeldKnown'
<1>0. ASSUME UNCHANGED <<lock, link>>,
             \A x \in Cleaners \ {c} : clean'[x] = clean[x] /\ held'[x] = held[x],
             \A d \in Projects : Known(c, d)'
      PROVE  HeldKnown'
  <2> SUFFICES ASSUME NEW x \in Cleaners \ {c}, NEW d \in Projects PROVE Known(x, d)'
    BY <1>0 DEF HeldKnown
  <2>1. Known(x, d)
    BY DEF HeldKnown
  <2>2. held'[x][d] = held[x][d] /\ Pins(d)' = Pins(d)
    BY <1>0 DEF Pins
  <2>3. held[x][d] \subseteq Pins(d)
    BY <2>1 DEF Known
  <2> QED BY <1>0, <2>1, <2>2, <2>3, KnownFrame
<1>00. \A d \in Projects : Known(c, d)
  BY DEF HeldKnown
<1>000. clean[c] \in CleanFields
  BY CleanFieldsOf
<1>1. ASSUME NEW mode \in Modes, CleanBegin(c, mode) PROVE HeldKnown'
  <2>1. \A d \in Projects : Known(c, d)'
    <3>1. \A d \in Projects : held'[c][d] = IF link[d] \/ d = Home THEN Pins(d) ELSE {}
      BY <1>1 DEF CleanBegin, TypeInv, GhostsOK
    <3>2. UNCHANGED <<lock, link>>
      BY <1>1 DEF CleanBegin, diskVars
    <3>3. CASE "force" \in mode
      <4>1. clean'[c] = [NoClean EXCEPT !.pc = "load", !.mode = mode]
        BY <1>1, <3>3, CleanOf DEF CleanBegin
      <4> QED BY <3>1, <3>2, <3>3, <4>1 DEF NoClean, Known, Pins
    <3>4. CASE "force" \notin mode
      <4>1. clean'[c] = [NoClean EXCEPT !.pc = "probe", !.mode = mode, !.todo = {d \in Projects : link[d]}]
        BY <1>1, <3>4, CleanOf DEF CleanBegin
      <4> QED BY <3>1, <3>2, <4>1 DEF NoClean, Known, Pins
    <3> QED BY <3>3, <3>4
  <2> QED BY <1>0, <1>1, <2>1 DEF CleanBegin, Clean, TypeInv, GhostsOK, diskVars
<1>2. ASSUME NEW d \in Projects, NEW error \in BOOLEAN, Probe(c, d, error) PROVE HeldKnown'
  <2>1. clean[c].pc = "probe" /\ UNCHANGED <<lock, link, held>>
    BY <1>2 DEF Probe, diskVars, ghostVars
  <2>2. CASE Alive(d, error)
    <3>1. clean'[c] = [clean[c] EXCEPT !.todo = @ \ {d}, !.roots = @ \cup {d}]
      BY <1>2, <2>2 DEF Probe, Clean, TypeInv
    <3>2. \A x \in Projects : Known(c, x)'
      BY <1>00, <1>000, <2>1, <3>1 DEF Known, Pins, CleanFields
    <3> QED BY <1>0, <1>2, <2>1, <3>2 DEF Probe, Clean, TypeInv
  <2>3. CASE ~Alive(d, error)
    <3>1. clean'[c] = [clean[c] EXCEPT !.pc = "reprobe", !.targets = {d}]
      BY <1>2, <2>3 DEF Probe, Clean, TypeInv
    <3>2. d # Home
      BY <1>2 DEF Probe, HomeUnlinked
    <3>3. held[c][d] = {}
      BY <1>00, <2>3, <3>2 DEF Alive, Known, LockThere, Pins, PinsOf
    <3>4. \A x \in Projects : Known(c, x)'
      BY <1>00, <1>000, <2>1, <3>1, <3>3 DEF Known, Pins, CleanFields
    <3> QED BY <1>0, <1>2, <2>1, <3>4 DEF Probe, Clean, TypeInv
  <2> QED BY <2>2, <2>3
<1>3. ASSUME NEW d \in Projects, NEW error \in BOOLEAN, Reprobe(c, d, error) PROVE HeldKnown'
  <2>1. clean[c].pc = "reprobe" /\ UNCHANGED <<lock, link, held>>
    BY <1>3 DEF Reprobe, diskVars, ghostVars
  <2>2. CASE Alive(d, error)
    <3>1. clean'[c] = [clean[c] EXCEPT !.pc = "probe", !.todo = @ \ {d}, !.roots = @ \cup {d}, !.targets = {}]
      BY <1>3, <2>2 DEF Reprobe, Clean, TypeInv
    <3>2. \A x \in Projects : Known(c, x)'
      BY <1>00, <1>000, <2>1, <3>1 DEF Known, Pins, CleanFields
    <3> QED BY <1>0, <1>3, <2>1, <3>2 DEF Reprobe, Clean, TypeInv
  <2>3. CASE ~Alive(d, error)
    <3>1. clean'[c] = [clean[c] EXCEPT !.pc = "prune"]
      BY <1>3, <2>3 DEF Reprobe, Clean, TypeInv
    <3>2. \A x \in Projects : Known(c, x)'
      BY <1>00, <1>000, <2>1, <3>1 DEF Known, Pins, CleanFields
    <3> QED BY <1>0, <1>3, <2>1, <3>2 DEF Reprobe, Clean, TypeInv
  <2> QED BY <2>2, <2>3
<1>4. ASSUME NEW d \in Projects, Prune(c, d) PROVE HeldKnown'
  <2>1. held[c][d] = {} /\ clean[c].targets = {d}
    BY <1>4, <1>00, CleanFieldsOf DEF Prune, Known
  <2>2. \A y \in Cleaners, x \in Projects :
           held'[y][x] = IF y # c /\ x = d THEN {} ELSE held[y][x]
    BY <1>4 DEF Prune, HeldBy, TypeInv, GhostsOK
  <2>3. ASSUME NEW x \in Projects, x # d PROVE lock'[x] = lock[x] /\ link'[x] = link[x]
    BY <1>4, <2>3 DEF Prune, TypeInv, DiskOK
  <2>4. ASSUME NEW y \in Cleaners PROVE Known(y, d)'
    BY <2>1, <2>2 DEF Known
  <2>5. ASSUME NEW x \in Projects \ {d} PROVE Known(c, x)'
    <3>1. clean'[c] = [clean[c] EXCEPT !.pc = "probe", !.todo = @ \ {d}, !.targets = {}] /\ clean[c].pc = "prune"
      BY <1>4 DEF Prune, Clean, TypeInv
    <3> QED BY <1>00, <1>000, <2>2, <2>3, <3>1 DEF Known, Pins, CleanFields
  <2>6. ASSUME NEW y \in Cleaners \ {c}, NEW x \in Projects \ {d} PROVE Known(y, x)'
    <3>1. Known(y, x) /\ clean'[y] = clean[y]
      BY <1>4 DEF HeldKnown, Prune, Clean, TypeInv
    <3>2. held'[y][x] = held[y][x] /\ Pins(x)' = Pins(x) /\ held[y][x] \subseteq Pins(x)
      BY <2>2, <2>3, <3>1 DEF Pins, Known
    <3> QED BY <2>3, <3>1, <3>2, KnownFrame
  <2> QED BY <2>4, <2>5, <2>6 DEF HeldKnown
<1>5. CASE Listed(c)
  <2>1. \A x \in Projects : Known(c, x)'
    BY <1>5, <1>00, <1>000 DEF Listed, Clean, Known, Pins, CleanFields, TypeInv, DiskOK, GhostsOK, diskVars, ghostVars
  <2> QED BY <1>0, <1>5, <2>1 DEF Listed, Clean, TypeInv, GhostsOK, diskVars, ghostVars
<1>6. ASSUME NEW d \in Projects, LoadLock(c, d) PROVE HeldKnown'
  <2>1. \A x \in Projects : Known(c, x)'
    BY <1>6, <1>00, <1>000 DEF LoadLock, Clean, Known, Pins, CleanFields, TypeInv, DiskOK, GhostsOK, diskVars, ghostVars
  <2> QED BY <1>0, <1>6, <2>1 DEF LoadLock, Clean, TypeInv, GhostsOK, diskVars, ghostVars
<1>7. CASE Build(c)
  <2>1. \A x \in Projects : Known(c, x)'
    BY <1>7, <1>00, <1>000 DEF Build, Clean, Known, Pins, CleanFields, TypeInv, DiskOK, GhostsOK, diskVars, ghostVars
  <2> QED BY <1>0, <1>7, <2>1 DEF Build, Clean, TypeInv, GhostsOK, diskVars, ghostVars
<1>8. ASSUME NEW p \in Packages, DeleteOne(c, p) PROVE HeldKnown'
  <2>1. \A x \in Projects : Known(c, x)'
    BY <1>8, <1>00, <1>000 DEF DeleteOne, Clean, Known, Pins, CleanFields, TypeInv, DiskOK, GhostsOK, ghostVars
  <2> QED BY <1>0, <1>8, <2>1 DEF DeleteOne, Clean, TypeInv, GhostsOK, ghostVars
<1>9. CASE FindDeparted(c)
  <2>1. held'[c] = NoneHeld
    BY <1>9 DEF FindDeparted, TypeInv, GhostsOK
  <2>2. \A x \in Projects : Known(c, x)'
    BY <2>1 DEF Known, NoneHeld
  <2> QED BY <1>0, <1>9, <2>2 DEF FindDeparted, Clean, TypeInv, GhostsOK, diskVars
<1>10. ASSUME NEW d \in Projects, NEW error \in BOOLEAN, Recheck(c, d, error) PROVE HeldKnown'
  <2>1. \A x \in Projects : Known(c, x)'
    <3>1. clean'[c].pc \in {"sweep", "unstamp"}
      <4>1. \/ clean'[c] = [clean[c] EXCEPT !.todo = @ \ {d}]
            \/ clean'[c] = [clean[c] EXCEPT !.pc = "unstamp", !.targets = {d}]
        BY <1>10, CleanOf DEF Recheck
      <4> QED BY <1>10, <1>000, <4>1 DEF Recheck, CleanFields
    <3>2. UNCHANGED <<lock, link, held>>
      BY <1>10 DEF Recheck, diskVars
    <3> QED BY <1>00, <3>1, <3>2 DEF Known, Pins
  <2> QED BY <1>0, <1>10, <2>1 DEF Recheck, Clean, TypeInv, GhostsOK, diskVars
<1>11. ASSUME NEW d \in Projects, Unstamp(c, d) PROVE HeldKnown'
  <2>1. \A x \in Projects : Known(c, x)'
    <3>1. clean'[c].pc = "sweep" /\ UNCHANGED <<lock, link, held>>
      BY <1>11, <1>000 DEF Unstamp, Clean, CleanFields, TypeInv
    <3> QED BY <1>00, <3>1 DEF Known, Pins
  <2> QED BY <1>0, <1>11, <2>1 DEF Unstamp, Clean, TypeInv, GhostsOK
<1>12. CASE CleanAborts(c) \/ RetainAll(c) \/ CleanEnd(c)
  <2>1. CleanOver(c)
    BY <1>12 DEF CleanAborts, RetainAll, CleanEnd
  <2>2. held'[c] = NoneHeld
    BY <2>1 DEF CleanOver, TypeInv, GhostsOK
  <2>3. \A x \in Projects : Known(c, x)'
    BY <2>2 DEF Known, NoneHeld
  <2> QED BY <1>0, <2>1, <2>3 DEF CleanOver, Clean, TypeInv, GhostsOK, diskVars
<1> QED BY <1>1, <1>2, <1>3, <1>4, <1>5, <1>6, <1>7, <1>8, <1>9, <1>10, <1>11, <1>12 DEF CleanStep

----------------------------------------------------------------------------
(* Consent stamps and links *)

\* A project is there all along until it departs; a sweep takes up a stamp to
\* remove only when it has just seen that the project is gone.
LEMMA ThereHereStep == TypeInv /\ ThereHere /\ [RegistryNext]_registryVars => ThereHere'
<1> SUFFICES ASSUME TypeInv, ThereHere, [RegistryNext]_registryVars PROVE ThereHere'
  OBVIOUS
<1> USE DEF ThereHere, Here
<1>1. ASSUME NEW d \in Projects, Depart(d) PROVE ThereHere'
  BY <1>1 DEF Depart, TypeInv, DiskOK, GhostsOK
<1>2. ASSUME NEW d \in Projects, NEW pins \in Contents \cup {Absent}, Return(d, pins) PROVE ThereHere'
  BY <1>2 DEF Return, TypeInv, DiskOK, ghostVars
<1>3. ASSUME UNCHANGED <<present, clean, there>> PROVE ThereHere'
  BY <1>3
<1>4. ASSUME NEW d \in Projects, Commit(d) \/ Revoke(d) PROVE ThereHere'
  BY <1>3, <1>4 DEF Commit, SaveLock, RegisterSaved, PublishManifest, Register, RollbackLock, Finish, CrashWriter,
                    Pull, Revoke, diskVars, ghostVars
<1>5. ASSUME NEW c \in Cleaners, CleanStep(c) PROVE ThereHere'
  <2>0. clean[c] \in CleanFields
    BY CleanFieldsOf
  <2>1. ASSUME NEW r, Clean(c, r), r.pc # "unstamp", UNCHANGED present,
               \A x \in Cleaners : there'[x] \subseteq there[x] \cup Here
                                   /\ (x # c => there'[x] = there[x])
        PROVE  ThereHere'
    BY <2>1, CleanOf
  <2>2. ASSUME NEW mode \in Modes, CleanBegin(c, mode) PROVE ThereHere'
    <3>1. PICK r : Clean(c, r) /\ r.pc # "unstamp" /\ UNCHANGED <<present, there>>
      BY <2>2 DEF CleanBegin, NoClean, diskVars
    <3> QED BY <2>1, <3>1
  <2>3. ASSUME NEW d \in Projects, NEW error \in BOOLEAN, Probe(c, d, error) \/ Reprobe(c, d, error) PROVE ThereHere'
    <3>1. PICK r : Clean(c, r) /\ r.pc # "unstamp" /\ UNCHANGED <<present, there>>
      BY <2>0, <2>3 DEF Probe, Reprobe, CleanFields, diskVars, ghostVars
    <3> QED BY <2>1, <3>1
  <2>4. ASSUME NEW d \in Projects, NEW error \in BOOLEAN, Recheck(c, d, error) PROVE ThereHere'
    <3>1. CASE d # Home /\ (present[d] \/ error)
      <4>1. Clean(c, [clean[c] EXCEPT !.todo = @ \ {d}]) /\ clean[c].pc = "sweep" /\ UNCHANGED present
            /\ there' = [there EXCEPT ![c] = Here]
        BY <2>4, <3>1 DEF Recheck, diskVars
      <4> QED BY <2>0, <2>1, <4>1 DEF CleanFields, TypeInv, GhostsOK
    <3>2. CASE ~(d # Home /\ (present[d] \/ error))
      <4>1. Clean(c, [clean[c] EXCEPT !.pc = "unstamp", !.targets = {d}]) /\ UNCHANGED <<present, there>>
        BY <2>4, <3>2 DEF Recheck, diskVars
      <4>2. clean'[c].targets = {d} /\ (d = Home \/ ~present[d])
        <5>1. clean'[c] = [clean[c] EXCEPT !.pc = "unstamp", !.targets = {d}]
          BY <4>1, CleanOf
        <5> QED BY <2>0, <3>2, <5>1 DEF CleanFields
      <4> QED BY <4>1, <4>2, CleanOf
    <3> QED BY <3>1, <3>2
  <2>5. ASSUME NEW d \in Projects, Prune(c, d) \/ LoadLock(c, d) PROVE ThereHere'
    <3>1. PICK r : Clean(c, r) /\ r.pc # "unstamp" /\ UNCHANGED <<present, there>>
      BY <2>0, <2>5 DEF Prune, LoadLock, CleanFields, diskVars, ghostVars
    <3> QED BY <2>1, <3>1
  <2>6. ASSUME NEW d \in Projects, Unstamp(c, d) PROVE ThereHere'
    <3>1. PICK r : Clean(c, r) /\ r.pc # "unstamp" /\ UNCHANGED present /\ there' = [there EXCEPT ![c] = Here]
      BY <2>0, <2>6 DEF Unstamp, CleanFields
    <3> QED BY <2>1, <3>1 DEF TypeInv, GhostsOK
  <2>7. ASSUME NEW p \in Packages, DeleteOne(c, p) PROVE ThereHere'
    <3>1. PICK r : Clean(c, r) /\ r.pc # "unstamp" /\ UNCHANGED <<present, there>>
      BY <2>0, <2>7 DEF DeleteOne, CleanFields, ghostVars
    <3> QED BY <2>1, <3>1
  <2>8. CASE Listed(c) \/ Build(c)
    <3>1. PICK r : Clean(c, r) /\ r.pc # "unstamp" /\ UNCHANGED <<present, there>>
      BY <2>0, <2>8 DEF Listed, Build, CleanFields, diskVars, ghostVars
    <3> QED BY <2>1, <3>1
  <2>9. CASE FindDeparted(c)
    <3>1. PICK todo : Clean(c, [clean[c] EXCEPT !.pc = "sweep", !.todo = todo])
      BY <2>9 DEF FindDeparted
    <3>2. UNCHANGED present /\ there' = [there EXCEPT ![c] = Here]
      BY <2>9 DEF FindDeparted, diskVars
    <3> QED BY <2>0, <2>1, <3>1, <3>2 DEF CleanFields, TypeInv, GhostsOK
  <2>10. CASE CleanAborts(c) \/ RetainAll(c) \/ CleanEnd(c)
    <3>1. Clean(c, NoClean) /\ NoClean.pc # "unstamp" /\ UNCHANGED present /\ there' = [there EXCEPT ![c] = {}]
      BY <2>10 DEF CleanAborts, RetainAll, CleanEnd, CleanOver, NoClean, diskVars
    <3> QED BY <2>1, <3>1 DEF TypeInv, GhostsOK
  <2> QED BY <1>5, <2>2, <2>3, <2>4, <2>5, <2>6, <2>7, <2>8, <2>9, <2>10 DEF CleanStep
<1>6. CASE UNCHANGED registryVars
  BY <1>6 DEF registryVars, diskVars, ghostVars
<1> QED BY <1>1, <1>2, <1>4, <1>5, <1>6 DEF RegistryNext, People

\* A clean comes to remove a link only after it has just seen it dead.
LEMMA PruneAfterDead ==
    ASSUME TypeInv, NEW c \in Cleaners, CleanStep(c), clean'[c].pc = "prune"
    PROVE  /\ clean[c].pc = "reprobe" /\ clean'[c].targets = clean[c].targets
           /\ \A d \in clean[c].targets : d \notin LiveNow
<1>0. clean[c] \in CleanFields
  BY CleanFieldsOf
<1>1. ASSUME NEW mode \in Modes, CleanBegin(c, mode) PROVE FALSE
  BY <1>1 DEF CleanBegin, Clean, NoClean, TypeInv
<1>2. ASSUME NEW d \in Projects, NEW error \in BOOLEAN, Probe(c, d, error) PROVE FALSE
  <2>1. clean[c].pc = "probe"
        /\ (\/ clean'[c] = [clean[c] EXCEPT !.todo = @ \ {d}, !.roots = @ \cup {d}]
            \/ clean'[c] = [clean[c] EXCEPT !.pc = "reprobe", !.targets = {d}])
    BY <1>2, CleanOf DEF Probe
  <2> QED BY <1>0, <2>1 DEF CleanFields
<1>3. ASSUME NEW d \in Projects, NEW error \in BOOLEAN, Recheck(c, d, error) PROVE FALSE
  <2>1. clean[c].pc = "sweep"
        /\ (\/ clean'[c] = [clean[c] EXCEPT !.todo = @ \ {d}]
            \/ clean'[c] = [clean[c] EXCEPT !.pc = "unstamp", !.targets = {d}])
    BY <1>3, CleanOf DEF Recheck
  <2> QED BY <1>0, <2>1 DEF CleanFields
<1>4. ASSUME NEW d \in Projects, Prune(c, d) \/ Unstamp(c, d) PROVE FALSE
  <2>1. \/ clean'[c] = [clean[c] EXCEPT !.pc = "probe", !.todo = @ \ {d}, !.targets = {}]
        \/ clean'[c] = [clean[c] EXCEPT !.pc = "sweep", !.todo = @ \ {d}, !.targets = {}]
    BY <1>4, CleanOf DEF Prune, Unstamp
  <2> QED BY <1>0, <2>1 DEF CleanFields
<1>5. ASSUME NEW d \in Projects, LoadLock(c, d) PROVE FALSE
  BY <1>0, <1>5 DEF LoadLock, Clean, CleanFields, TypeInv
<1>6. ASSUME NEW p \in Packages, DeleteOne(c, p) PROVE FALSE
  BY <1>0, <1>6 DEF DeleteOne, Clean, CleanFields, TypeInv
<1>7. ASSUME Listed(c) \/ Build(c) \/ FindDeparted(c) PROVE FALSE
  <2>1. CASE Listed(c)
    BY <1>0, <2>1 DEF Listed, Clean, CleanFields, TypeInv
  <2>2. CASE Build(c)
    BY <1>0, <2>2 DEF Build, Clean, CleanFields, TypeInv
  <2>3. CASE FindDeparted(c)
    <3>1. PICK todo : Clean(c, [clean[c] EXCEPT !.pc = "sweep", !.todo = todo])
      BY <2>3 DEF FindDeparted
    <3> QED BY <1>0, <3>1 DEF Clean, CleanFields, TypeInv
  <2> QED BY <1>7, <2>1, <2>2, <2>3
<1>8. ASSUME CleanAborts(c) \/ RetainAll(c) \/ CleanEnd(c) PROVE FALSE
  BY <1>8 DEF CleanAborts, RetainAll, CleanEnd, CleanOver, NoClean, Clean, TypeInv
<1>9. PICK d \in Projects, error \in BOOLEAN : Reprobe(c, d, error)
  BY <1>1, <1>2, <1>3, <1>4, <1>5, <1>6, <1>7, <1>8 DEF CleanStep
<1>10. ~Alive(d, error)
  <2> SUFFICES ASSUME Alive(d, error) PROVE FALSE
    OBVIOUS
  <2>1. clean'[c] = [clean[c] EXCEPT !.pc = "probe", !.todo = @ \ {d}, !.roots = @ \cup {d}, !.targets = {}]
    BY <1>9, CleanOf DEF Reprobe
  <2> QED BY <1>0, <2>1 DEF CleanFields
<1>11. clean'[c] = [clean[c] EXCEPT !.pc = "prune"] /\ clean[c].pc = "reprobe" /\ d \in clean[c].targets
  BY <1>9, <1>10, CleanOf DEF Reprobe
<1>12. clean[c].targets = {d}
  BY <1>11, CleanFieldsOf
<1> QED BY <1>0, <1>10, <1>11, <1>12 DEF CleanFields, Alive, LiveNow

\* What comes to life after the second look is not watched; nothing that was
\* live at that look is about to lose its link.
LEMMA LiveWatchedStep == TypeInv /\ LiveWatched /\ [RegistryNext]_registryVars => LiveWatched'
<1> SUFFICES ASSUME TypeInv, LiveWatched, [RegistryNext]_registryVars PROVE LiveWatched'
  OBVIOUS
<1>1. CASE UNCHANGED registryVars
  BY <1>1 DEF registryVars, diskVars, LiveWatched, LiveNow
<1>2. CASE RegistryNext
  <2>1. live' = [c \in Cleaners |-> IF clean'[c].pc = "prune" THEN live[c] \cap LiveNow' ELSE LiveNow']
    BY <1>2 DEF RegistryNext, Watch
  <2>2. LiveNow' \subseteq Projects
    BY DEF LiveNow
  <2>3. live' \in [Cleaners -> SUBSET Projects]
    BY <2>1, <2>2
  <2>4. ASSUME NEW c \in Cleaners, clean'[c].pc = "prune" PROVE live[c] \cap clean'[c].targets = {}
    <3>1. CASE clean'[c] = clean[c]
      BY <2>4, <3>1 DEF LiveWatched
    <3>2. CASE clean'[c] # clean[c]
      <4>1. ASSUME NEW d \in Projects, Commit(d) \/ People(d) PROVE FALSE
        BY <3>2, <4>1 DEF Commit, SaveLock, RegisterSaved, PublishManifest, Register, RollbackLock, Finish,
                          CrashWriter, Pull, People, Depart, Revoke, Return
      <4>2. ASSUME NEW x \in Cleaners, CleanStep(x), x # c PROVE FALSE
        BY <3>2, <4>2, CleanStepOwn
      <4>3. CleanStep(c)
        BY <1>2, <4>1, <4>2 DEF RegistryNext
      <4>4. live[c] = LiveNow
        BY <2>4, <4>3, PruneAfterDead DEF LiveWatched
      <4> QED BY <2>4, <4>3, <4>4, PruneAfterDead
    <3> QED BY <3>1, <3>2
  <2>5. \A c \in Cleaners : live'[c] = IF clean'[c].pc = "prune" THEN live[c] \cap LiveNow' ELSE LiveNow'
    BY <2>1
  <2> QED BY <2>3, <2>4, <2>5 DEF LiveWatched
<1> QED BY <1>1, <1>2

----------------------------------------------------------------------------
(* Theorems *)

\* Every step keeps the invariant.
LEMMA RegistryInvStep == RegistryInv /\ [RegistryNext]_registryVars => RegistryInv'
<1> SUFFICES ASSUME RegistryInv, [RegistryNext]_registryVars PROVE RegistryInv'
  OBVIOUS
<1> USE DEF RegistryInv
<1>1. TypeInv' /\ LockThere' /\ HomeUnlinked' /\ ThereHere' /\ LiveWatched'
  BY TypeStep, LockThereStep, HomeUnlinkedStep, ThereHereStep, LiveWatchedStep
<1>2. HeldKnown'
  <2>1. CASE UNCHANGED registryVars
    BY <2>1 DEF registryVars, diskVars, ghostVars, HeldKnown, Known, Pins, PinsOf
  <2> QED BY <1>1, <2>1, HeldOthers, HeldClean DEF RegistryNext
<1> QED BY <1>1, <1>2

\* The invariant holds throughout.
LEMMA RegistryInvariant == RegistrySpec => []RegistryInv
BY RegistryInvInit, RegistryInvStep, PTL DEF RegistrySpec

\* Every variable keeps its type, and a clean about to remove a link or a
\* stamp holds exactly one, of the list it works through.
THEOREM RegistryTypeCorrect == RegistrySpec => []RegistryTypeOK
BY RegistryInvariant, TypeInvImpliesTypeOK, PTL DEF RegistryInv

\* Without --force, no clean deletes a package that a registered project has
\* pinned ever since the clean began, for any projects, locks and packages and
\* any number of cleans and of commits that replace those locks meanwhile.
THEOREM CleanKeepsPinsHolds == RegistrySpec => CleanKeepsPins
<1>1. RegistryInv /\ [RegistryNext]_registryVars =>
         [\A c \in Cleaners, p \in Packages :
            DeleteOne(c, p) /\ p \notin store' =>
              "force" \in clean[c].mode \/ \A d \in Projects : p \notin held[c][d]]_registryVars
  <2> SUFFICES ASSUME RegistryInv, NEW c \in Cleaners, NEW p \in Packages, DeleteOne(c, p),
                      "force" \notin clean[c].mode, NEW d \in Projects
               PROVE  p \notin held[c][d]
    OBVIOUS
  <2>1. Known(c, d) /\ clean[c].pc = "delete" /\ p \in clean[c].targets
    BY DEF RegistryInv, HeldKnown, DeleteOne
  <2> QED BY <2>1 DEF Known
<1> QED BY <1>1, RegistryInvariant, PTL DEF RegistrySpec, CleanKeepsPins

\* Nor does one prune the link of a project that was in the ledger with its
\* lock when it took its second look, whatever its probes meet.
THEOREM CleanKeepsLinksHolds == RegistrySpec => CleanKeepsLinks
<1>1. RegistryInv /\ [RegistryNext]_registryVars =>
         [\A c \in Cleaners, d \in Projects :
            Prune(c, d) /\ ~link'[d] => d \notin live[c]]_registryVars
  BY DEF RegistryInv, LiveWatched, Prune
<1> QED BY <1>1, RegistryInvariant, PTL DEF RegistrySpec, CleanKeepsLinks

\* A project that was back before the sweep came to its stamp keeps it.
THEOREM ConsentKeptHolds == RegistrySpec => ConsentKept
<1>1. RegistryInv /\ [RegistryNext]_registryVars =>
         [\A c \in Cleaners, d \in Projects \ {Home} :
            Unstamp(c, d) /\ ~stamp'[d] => d \notin there[c]]_registryVars
  BY DEF RegistryInv, ThereHere, Unstamp
<1> QED BY <1>1, RegistryInvariant, PTL DEF RegistrySpec, ConsentKept
================================================================================
