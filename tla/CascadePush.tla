------------------------------ MODULE CascadePush -------------------------------
(***************************************************************************)
(* One repository of a registry and the commands that move its tags:       *)
(* `ocx package push` (with and without --cascade, --default), `ocx        *)
(* package cascade repair` and `ocx package prune`.  They run in different *)
(* places and share nothing but the registry, which offers no conditional  *)
(* write: every merge into an index reads it and puts it back whole.       *)
(*                                                                         *)
(* A push publishes one version for one platform.  Its manifest is named   *)
(* by both, as CascadeGraph does; the order of entries in an index, its    *)
(* annotations and entries without a platform are left out, and so is the  *)
(* public index but for the marks prune reads.                             *)
(***************************************************************************)
EXTENDS CascadeGraph, FiniteSets

CONSTANTS
    Publishers,     \* processes that push
    Campaigns,      \* what may happen: see CampaignAssumption
    NoPush

\* A campaign has the pushes to be made, the publishers that make them, how
\* many of them may fail (a bound), whether repairs run and which tag they
\* name ({} for all), whether the registry deletes manifests no keep tag
\* protects, what prune may be asked for, and the rows of the public index.
ASSUME CampaignAssumption ==
    \A k \in Campaigns :
        /\ \A j \in k.pushes : j.version \in Tag /\ IsVersion(j.version)
        /\ k.publishers \subseteq Publishers /\ k.failures \in Nat
        /\ \A x \in k.prunes : HasPrerelease(x.family) /\ ~HasBuild(x.family)

VARIABLES
    campaign,
    tags,           \* tags[t]: the index the registry serves at t
    manifests,      \* the platform manifests it holds, as <<version, platform>>
    kept,           \* those with a keep tag
    todo,           \* pushes still to be made
    push,           \* push[p]: where the push of p stands
    repair,         \* where the repair stands
    prune,          \* where the prune stands
    failures,       \* pushes that failed
    marks           \* what happened so far: "failed", "tangled", "pruned", "lost"

registryVars == <<tags, manifests, kept>>
cascadeVars == <<campaign, registryVars, todo, push, repair, prune, failures, marks>>

NoJob == [pc |-> "idle", push |-> NoPush, others |-> {}, levels |-> {}, writes |-> {},
          read |-> EmptyIndex, bare |-> FALSE]

\* torn: a tag changed during the gather, or between the re-read of an alias
\* and its write, or was deleted, or may be one put back that a prune deleted
\* or a stale merge dropped; still: none changed and no manifest went.
NoRepair == [pc |-> "idle", listed |-> {}, seen |-> EmptyIndex, plan |-> EmptyIndex,
             confirmed |-> {}, complete |-> TRUE, torn |-> FALSE, still |-> TRUE]

NoPrune == [pc |-> "idle", todo |-> {}, force |-> FALSE]

CascadeInit ==
    /\ campaign \in Campaigns
    /\ tags = EmptyIndex
    /\ manifests = {} /\ kept = {}
    /\ todo = campaign.pushes
    /\ push = [p \in Publishers |-> NoJob]
    /\ repair = NoRepair
    /\ prune = NoPrune
    /\ failures = 0
    /\ marks = {}

\* Two commands, or one that is no push, have been at work.
Busy == repair.pc # "idle" \/ prune.pc # "idle" \/ \E p \in Publishers : push[p].pc # "idle"

SetTag(t, index) == [u \in DOMAIN tags \cup {t} |-> IF u = t THEN index ELSE tags[u]]

\* A merge drops a platform that t has by now: it read t too early.
Loses(t, index) == ~(DOMAIN IndexAt(tags, t) \subseteq DOMAIN index)

\* Somebody else writes t while a repair runs.
Disturb(t, index) ==
    repair' = IF repair.pc = "idle" \/ index = IndexAt(tags, t) THEN repair
              ELSE [repair EXCEPT !.still = FALSE,
                                  !.torn = @ \/ repair.pc = "gather" \/ t \in repair.confirmed
                                             \/ marks \cap {"pruned", "lost"} # {} \/ Loses(t, index)]

----------------------------------------------------------------------------
(* Push *)

Job(p, j) == push' = [push EXCEPT ![p] = j]

\* The version of the track being written: the pushed one, or under --default
\* the same without its variant.
Subject(j) == IF j.bare THEN WithoutVariant(j.push.version) ELSE j.push.version

\* With --cascade the repository's tags are listed first.
BeginPush(p, x) ==
    /\ push[p].pc = "idle" /\ x \in todo /\ p \in campaign.publishers
    /\ Job(p, [NoJob EXCEPT !.pc = "resolve", !.push = x, !.writes = {x.version},
                            !.others = IF x.cascade THEN Versions(tags) ELSE {},
                            !.levels = IF x.cascade THEN Targets(x.version) ELSE {}])
    /\ todo' = todo \ {x}
    /\ marks' = marks \cup (IF Busy THEN {"tangled"} ELSE {})
                      \cup (IF x.cascade THEN {} ELSE {"failed"})
    /\ UNCHANGED <<campaign, registryVars, repair, prune, failures>>

\* Faulty variant: a blocker blocks whatever platforms it has.
BlockedByAny(j, t, error) == Blockers(Subject(j), t, j.others) # {}

\* Faulty variant: a blocker that cannot be read does not block.
BlockedIfRead(j, t, error) ==
    \E b \in Blockers(Subject(j), t, j.others) :
        ~error /\ b \in DOMAIN tags /\ j.push.platform \in DOMAIN tags[b]

\* has_blocking_platform: a blocker that cannot be read stops the cascade too.
Blocked(j, t, error) ==
    \E b \in Blockers(Subject(j), t, j.others) :
        error \/ b \notin DOMAIN tags \/ j.push.platform \in DOMAIN tags[b]

\* resolve_cascade_tags, one level: most specific first, up to the first that
\* is blocked.
Resolve(p, error) ==
    /\ push[p].pc = "resolve" /\ push[p].levels # {}
    /\ LET t == Least(push[p].levels)
           blocked == Blocked(push[p], t, error)
       IN /\ error => Blockers(Subject(push[p]), t, push[p].others) # {}
          /\ Job(p, [push[p] EXCEPT !.levels = IF blocked THEN {} ELSE @ \ {t},
                                    !.writes = IF blocked THEN @ ELSE @ \cup {t}])
    /\ marks' = IF error THEN marks \cup {"failed"} ELSE marks
    /\ UNCHANGED <<campaign, registryVars, todo, repair, prune, failures>>

\* The layers and the manifest go up before any index names them.
PushManifest(p) ==
    /\ push[p].pc = "resolve" /\ push[p].levels = {} /\ ~push[p].bare
    /\ manifests' = manifests \cup {<<push[p].push.version, push[p].push.platform>>}
    /\ Job(p, [push[p] EXCEPT !.pc = "read"])
    /\ UNCHANGED <<campaign, tags, kept, todo, repair, prune, failures, marks>>

BeginAliases(p) ==
    /\ push[p].pc = "resolve" /\ push[p].levels = {} /\ push[p].bare
    /\ Job(p, [push[p] EXCEPT !.pc = "read"])
    /\ UNCHANGED <<campaign, registryVars, todo, repair, prune, failures, marks>>

\* Faulty variant: the least specific alias first.
NextWriteCoarse(writes) == Greatest(writes)

\* push_manifest_and_merge_tags: the version's own tag, then its aliases.
NextWrite(writes) == Least(writes)

\* merge_platform_into_index fetches the index ...
MergeRead(p) ==
    /\ push[p].pc = "read"
    /\ Job(p, [push[p] EXCEPT !.pc = "write", !.read = IndexAt(tags, NextWrite(push[p].writes))])
    /\ UNCHANGED <<campaign, registryVars, todo, repair, prune, failures, marks>>

\* What follows the last write of a track: the bare track under --default
\* (write_default_variant_aliases), then the keep tag.
AfterTrack(j) ==
    IF j.push.default /\ j.push.version[1] # None /\ ~j.bare
    THEN LET bare == WithoutVariant(j.push.version)
         IN [j EXCEPT !.pc = "resolve", !.bare = TRUE, !.writes = {bare}, !.read = EmptyIndex,
                      !.levels = IF j.push.cascade THEN Targets(bare) ELSE {}]
    ELSE [j EXCEPT !.pc = "keep", !.writes = {}, !.read = EmptyIndex, !.others = {}]

\* ... and puts it back with this platform's entry replaced.
MergeWrite(p) ==
    /\ push[p].pc = "write"
    /\ LET t == NextWrite(push[p].writes)
           entry == [q \in {push[p].push.platform} |-> push[p].push.version]
           merged == Over(entry, push[p].read)
           rest == push[p].writes \ {t}
       IN /\ tags' = SetTag(t, merged)
          /\ Disturb(t, merged)
          /\ marks' = IF Loses(t, merged) THEN marks \cup {"lost"} ELSE marks
          /\ Job(p, IF rest = {} THEN AfterTrack(push[p])
                    ELSE [push[p] EXCEPT !.pc = "read", !.writes = rest, !.read = EmptyIndex])
    /\ UNCHANGED <<campaign, manifests, kept, todo, prune, failures>>

\* push_keep_tag fetches the manifest by digest and tags it.
PushKeepTag(p) ==
    /\ push[p].pc = "keep"
    /\ LET m == <<push[p].push.version, push[p].push.platform>>
       IN m \in manifests /\ kept' = kept \cup {m}
    /\ Job(p, NoJob)
    /\ UNCHANGED <<campaign, tags, manifests, todo, repair, prune, failures, marks>>

\* An error or a kill ends a push where it stands; CI runs the job again.
FailPush(p) ==
    /\ push[p].pc # "idle" /\ failures < campaign.failures
    /\ todo' = todo \cup {push[p].push}
    /\ Job(p, NoJob)
    /\ failures' = failures + 1
    /\ marks' = marks \cup {"failed"}
    /\ UNCHANGED <<campaign, registryVars, repair, prune>>

\* The registry deletes a manifest that no keep tag protects (external).
DeleteManifest(m) ==
    /\ campaign.retention /\ m \in manifests \ kept
    /\ manifests' = manifests \ {m}
    /\ repair' = [repair EXCEPT !.still = @ /\ repair.pc = "idle"]
    /\ marks' = marks \cup {"tangled"}
    /\ UNCHANGED <<campaign, tags, kept, todo, push, prune, failures>>

----------------------------------------------------------------------------
(* Repair *)

\* gather lists the tags; a variant's root is one only beside a version of it.
List ==
    /\ repair.pc = "idle" /\ campaign.repairs
    /\ repair' = [NoRepair EXCEPT !.pc = "gather",
                     !.listed = {t \in DOMAIN tags :
                                    \/ IsVersion(t) \/ t[1] = None
                                    \/ \E v \in Versions(tags) : v[1] = t[1]}]
    /\ marks' = marks \cup {"tangled"}
    /\ UNCHANGED <<campaign, registryVars, todo, push, prune, failures>>

\* Then each tag is read, in any order.  One the listing named and the registry
\* no longer serves ends the run, as any other read error does.
ReadTag(t) ==
    /\ repair.pc = "gather" /\ t \in repair.listed
    /\ repair' = IF t \notin DOMAIN tags THEN NoRepair
                 ELSE [repair EXCEPT !.listed = @ \ {t}, !.seen = Over([u \in {t} |-> tags[t]], @)]
    /\ UNCHANGED <<campaign, registryVars, todo, push, prune, failures, marks>>

\* diff and plan_repairs, for the tag the command names or for all of them.
PlanRepair ==
    /\ repair.pc = "gather" /\ repair.listed = {}
    /\ LET versions == Versions(repair.seen)
           unknown == \E t \in campaign.request : IsVersion(t) /\ t \notin versions \cup AliasUniverse(versions)
       IN repair' = IF unknown THEN NoRepair
                    ELSE [repair EXCEPT !.pc = "preflight",
                                        !.plan = Plan(repair.seen, Scope(versions, campaign.request))]
    /\ UNCHANGED <<campaign, registryVars, todo, push, prune, failures, marks>>

\* preflight probes every manifest the plan names before the first write.
Preflight ==
    /\ repair.pc = "preflight"
    /\ LET refused == {t \in DOMAIN repair.plan : Refused(repair.seen, t, repair.plan[t], manifests)}
           Rest(index) == [q \in DOMAIN index \ Gone(index, manifests) |-> index[q]]
       IN repair' = [repair EXCEPT !.pc = "apply", !.complete = refused = {},
                        !.plan = [t \in DOMAIN repair.plan \ refused |-> Rest(repair.plan[t])]]
    /\ UNCHANGED <<campaign, registryVars, todo, push, prune, failures, marks>>

Without(f, t) == [u \in DOMAIN f \ {t} |-> f[u]]

\* An alias whose write was given up, for one reason or another.
GiveUp(t) == [repair EXCEPT !.plan = Without(@, t), !.confirmed = @ \ {t}, !.complete = FALSE]

\* Faulty variant: the alias is not read again.
RereadNothing(t) == [repair EXCEPT !.confirmed = @ \cup {t}]

\* write_alias reads the alias again: one that moved since the gather is left.
Reread(t) ==
    IF IndexAt(tags, t) = IndexAt(repair.seen, t)
    THEN [repair EXCEPT !.confirmed = @ \cup {t}]
    ELSE GiveUp(t)

ConfirmAlias(t) ==
    /\ repair.pc = "apply" /\ t \in DOMAIN repair.plan \ repair.confirmed
    /\ repair' = Reread(t)
    /\ UNCHANGED <<campaign, registryVars, todo, push, prune, failures, marks>>

PutAlias(t) ==
    /\ repair.pc = "apply" /\ t \in repair.confirmed
    /\ tags' = SetTag(t, repair.plan[t])
    /\ repair' = [repair EXCEPT !.plan = Without(@, t), !.confirmed = @ \ {t}]
    /\ UNCHANGED <<campaign, manifests, kept, todo, push, prune, failures, marks>>

\* The re-read or the write of one alias fails; the others go on.
FailAlias(t) ==
    /\ repair.pc = "apply" /\ t \in DOMAIN repair.plan
    /\ repair' = GiveUp(t)
    /\ UNCHANGED <<campaign, registryVars, todo, push, prune, failures, marks>>

EndRepair ==
    /\ repair.pc = "apply" /\ DOMAIN repair.plan = {}
    /\ repair' = NoRepair
    /\ UNCHANGED <<campaign, registryVars, todo, push, prune, failures, marks>>

\* A read error of the gather or of the preflight, or a kill at any time.
AbortRepair ==
    /\ repair.pc # "idle"
    /\ repair' = NoRepair
    /\ UNCHANGED <<campaign, registryVars, todo, push, prune, failures, marks>>

RepairNext ==
    \/ List \/ PlanRepair \/ Preflight \/ EndRepair \/ AbortRepair
    \/ \E t \in repair.listed : ReadTag(t)
    \/ \E t \in DOMAIN repair.plan : ConfirmAlias(t) \/ PutAlias(t) \/ FailAlias(t)

----------------------------------------------------------------------------
(* Prune *)

\* select: the builds of a pre-release but its newest `keep`, and the rolling
\* tag when no number of builds to keep was given (keep = 0 here).
Selection(x) ==
    LET builds == {t \in DOMAIN tags : HasBuild(t) /\ Clear(t, 6) = x.family}
        newer(t) == {u \in builds : Less(t, u)}
    IN {t \in builds : Cardinality(newer(t)) >= x.keep}
          \cup {t \in DOMAIN tags : t = x.family /\ x.keep = 0}

Select(x) ==
    /\ prune.pc = "idle" /\ x \in campaign.prunes
    /\ prune' = [pc |-> "judge", todo |-> Selection(x), force |-> x.force]
    /\ marks' = marks \cup {"tangled", "pruned"}
    /\ UNCHANGED <<campaign, registryVars, todo, push, repair, failures>>

\* judge: what the public index does not mark ephemeral goes only by force;
\* one refusal and nothing is deleted.
Judge ==
    /\ prune.pc = "judge"
    /\ LET rows == campaign.index
           found == {t \in prune.todo : t \in DOMAIN rows \/ t \in DOMAIN tags}
           refused == {t \in found : ~prune.force /\ (t \notin DOMAIN rows \/ ~rows[t])}
       IN prune' = IF refused # {} THEN NoPrune
                   ELSE [prune EXCEPT !.pc = "delete", !.todo = found]
    /\ UNCHANGED <<campaign, registryVars, todo, push, repair, failures, marks>>

\* delete_and_confirm: builds oldest first, the rolling tag last.
DeleteTag ==
    /\ prune.pc = "delete" /\ prune.todo # {}
    /\ LET t == Least(prune.todo)
       IN /\ tags' = Without(tags, t)
          /\ prune' = [prune EXCEPT !.todo = @ \ {t}]
    /\ repair' = IF repair.pc = "idle" THEN repair ELSE [repair EXCEPT !.torn = TRUE, !.still = FALSE]
    /\ UNCHANGED <<campaign, manifests, kept, todo, push, failures, marks>>

\* Done, refused by the registry, or killed.
EndPrune ==
    /\ prune.pc # "idle"
    /\ prune' = NoPrune
    /\ UNCHANGED <<campaign, registryVars, todo, push, repair, failures, marks>>

PruneNext == (\E x \in campaign.prunes : Select(x)) \/ Judge \/ DeleteTag \/ EndPrune

----------------------------------------------------------------------------

PushNext ==
    \E p \in Publishers :
        \/ \E x \in todo : BeginPush(p, x)
        \/ \E error \in BOOLEAN : Resolve(p, error)
        \/ PushManifest(p) \/ BeginAliases(p)
        \/ MergeRead(p) \/ MergeWrite(p) \/ PushKeepTag(p)
        \/ FailPush(p)

CascadeNext == PushNext \/ RepairNext \/ PruneNext \/ \E m \in manifests : DeleteManifest(m)

CascadeSpec == CascadeInit /\ [][CascadeNext]_cascadeVars

----------------------------------------------------------------------------
(* Properties *)

\* The version of t's track that the manifest of c is on it: c itself, or c
\* without its variant where --default put it on the un-prefixed track.
OnTrack(c, t) == IF t[1] = None THEN WithoutVariant(c) ELSE c

\* The types, and that a tag only ever holds builds of its own subtree: `1.2`
\* never serves a 1.3, whatever push, repair and prune did and in what order
\* (decompose_targets, fold_expected).
CascadeTypeOK ==
    /\ campaign \in Campaigns
    /\ todo \subseteq campaign.pushes
    /\ kept \subseteq {<<j.version, j.platform>> : j \in campaign.pushes}
    /\ marks \subseteq {"failed", "tangled", "pruned", "lost"}
    /\ failures \in 0 .. campaign.failures
    /\ \A t \in DOMAIN tags :
          /\ t \in Tag
          /\ \A q \in DOMAIN tags[t] : LET v == OnTrack(tags[t][q], t) IN t \in {v} \cup Targets(v)

\* The versions a push is published as, one a track.
SubjectsOf(x) == {x.version} \cup (IF x.default THEN {WithoutVariant(x.version)} ELSE {})
Subjects == UNION {SubjectsOf(x) : x \in campaign.pushes}

\* No version that is pushed is an alias of another one.
Separate == \A v \in Subjects : Subjects \cap Targets(v) = {}

\* No version is published from two builds: a variant's, by --default, and another.
Unambiguous ==
    \A x, y \in campaign.pushes : SubjectsOf(x) \cap SubjectsOf(y) # {} => x.version = y.version

\* After any sequence of cascading pushes, one at a time and none of which
\* failed or met an unreadable blocker, in any order of versions and
\* platforms, `ocx package cascade check` finds nothing: what
\* resolve_cascade_tags decided push by push is what fold_expected computes
\* from the whole repository.
ReadsBackClean ==
    marks = {} /\ Separate /\ (\A p \in Publishers : push[p].pc = "idle")
        => \A t \in AliasUniverse(Versions(tags)) : ~HasFindings(tags, t)

\* Pushes made one at a time, which may fail anywhere and be repeated, leave
\* no gap: where an alias serves a version, the version's own tag and every
\* more specific alias of it serve the platform too, and nothing older.
NoGap ==
    "tangled" \notin marks /\ Separate
        => \A t \in DOMAIN tags : \A q \in DOMAIN tags[t] :
              LET v == OnTrack(tags[t][q], t)
              IN \A u \in {v} \cup {a \in Targets(v) : Less(a, t)} :
                    /\ u \in DOMAIN tags /\ q \in DOMAIN tags[u]
                    /\ ~Less(OnTrack(tags[u][q], u), v)

\* Nor does any of them, failed or repeated, move a platform of an alias back
\* to an older version: has_blocking_platform stops where it cannot tell.
NeverBackwards ==
    [][ \A t \in DOMAIN tags : \A q \in DOMAIN tags[t] :
            "tangled" \notin marks' /\ Separate
                => q \in DOMAIN tags'[t] /\ ~Less(OnTrack(tags'[t][q], t), OnTrack(tags[t][q], t)) ]_cascadeVars

\* A repair that wrote every planned alias, while nobody else wrote anything,
\* leaves nothing to repair in what it was asked about: a second run plans no
\* write (plan_repairs, apply).
RepairHeals ==
    repair.pc = "apply" /\ DOMAIN repair.plan = {} /\ repair.complete /\ repair.still
        => \A t \in Scope(Versions(tags), campaign.request) : ~NeedsWrite(tags, t)

\* A repair never takes back what a push published after the gather: the alias
\* is read again before it is written (write_alias).  What the gather itself
\* missed and the moment between the re-read and the write remain (torn), and
\* so does a version whose own tag lost the platform to a stale merge and gets
\* it back from a repeated push: by then the plan counts on an older one.
RepairKeepsRight ==
    [][ \A t \in repair.confirmed :
            PutAlias(t) /\ ~repair.torn /\ t \in DOMAIN tags /\ Separate /\ Unambiguous
                => \A q \in DOMAIN tags[t] \cap DOMAIN Expected(tags, t) :
                      tags[t][q] = Expected(tags, t)[q]
                          => q \in DOMAIN tags'[t] /\ tags'[t][q] = tags[t][q] ]_cascadeVars
================================================================================
