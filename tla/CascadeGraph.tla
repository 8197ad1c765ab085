------------------------------ MODULE CascadeGraph ------------------------------
(***************************************************************************)
(* The algebra of rolling tags: how versions are ordered, which aliases a  *)
(* version cascades into, which published versions block it on the way,    *)
(* and, for `ocx package cascade check|repair`, what every alias should    *)
(* hold given the versions a repository publishes.                         *)
(*                                                                         *)
(* A tag is six numbers: variant, major, minor, patch, pre-release, build. *)
(* None stands for a part that is not there; the code sorts an absent part *)
(* above every present one, so None is above every number in use.  A tag   *)
(* without a major is the root of its track: `latest`, or a variant's name.*)
(***************************************************************************)
EXTENDS Naturals

CONSTANT None

ASSUME PartAssumption == None \in Nat

Parts == 1 .. 6
Tag == [Parts -> 0 .. None]

\* An index is the manifest each platform has in it, named by the version
\* that was built; a manifest belongs to one version and one platform.
EmptyIndex == [q \in {} |-> q]

\* What a reader finds at t.
IndexAt(tags, t) == IF t \in DOMAIN tags THEN tags[t] ELSE EmptyIndex

\* f, with g where f says nothing.
Over(f, g) == [q \in DOMAIN f \cup DOMAIN g |-> IF q \in DOMAIN f THEN f[q] ELSE g[q]]

----------------------------------------------------------------------------
(* Versions *)

\* Version::cmp.
Less(v, w) == \E i \in Parts : v[i] < w[i] /\ \A j \in 1 .. (i - 1) : v[j] = w[j]

Least(S) == CHOOSE v \in S : \A w \in S : v = w \/ Less(v, w)
Greatest(S) == CHOOSE v \in S : \A w \in S : v = w \/ Less(w, v)

IsVersion(t) == t[2] # None
HasPrerelease(v) == v[5] # None
HasBuild(v) == v[6] # None

\* v without its parts from the i-th on.
Clear(v, i) == [j \in Parts |-> IF j >= i THEN None ELSE v[j]]

WithoutVariant(v) == [v EXCEPT ![1] = None]

Root(v) == Clear(v, 2)

\* The iterated Version::parent.
Ancestors(v) == {Clear(v, i) : i \in 3 .. 6} \ {v}

\* decompose_targets, and the track root for what is eligible for latest: the
\* aliases v moves.  A pre-release only moves the pre-release it is a build of.
Targets(v) ==
    IF HasPrerelease(v)
    THEN IF HasBuild(v) THEN {Clear(v, 6)} ELSE {}
    ELSE (Ancestors(v) \cup {Root(v)}) \ {v}

\* decompose: the published versions that stand between v and its alias t.
\* Pre-releases never block a stable version, and only later builds of the
\* same pre-release block one.
Blockers(v, t, others) ==
    IF HasPrerelease(v)
    THEN {o \in others : Less(v, o) /\ HasBuild(o) /\ \A i \in 1 .. 5 : o[i] = v[i]}
    ELSE LET current == Greatest({v} \cup {u \in Targets(v) : Less(u, t)})
         IN {o \in others : Less(current, o) /\ Less(o, t) /\ ~HasPrerelease(o)}

----------------------------------------------------------------------------
(* The tag graph *)

Versions(tags) == {t \in DOMAIN tags : IsVersion(t)}

AliasUniverse(versions) == UNION {Targets(v) : v \in versions}

Leaves(versions) == versions \ AliasUniverse(versions)

\* Faulty variant: any leaf may back any alias.
SourcesAnywhere(tags, t, q) == {v \in Leaves(Versions(tags)) : q \in DOMAIN tags[v]}

\* The leaves that cascade into t and ship platform q.
Sources(tags, t, q) ==
    {v \in Leaves(Versions(tags)) : t \in Targets(v) /\ q \in DOMAIN tags[v]}

\* fold_expected: per platform, the entry of the greatest of them.
Expected(tags, t) ==
    LET platforms == UNION {DOMAIN tags[v] : v \in Versions(tags)}
    IN [q \in {p \in platforms : Sources(tags, t, p) # {}} |->
           tags[Greatest(Sources(tags, t, q))][q]]

\* diff and needs_write: the alias does not exist, or a slot is missing or
\* stale; a slot nothing folds into (an orphan) alone is left as it is.
NeedsWrite(tags, t) ==
    \/ t \notin DOMAIN tags
    \/ \E q \in DOMAIN Expected(tags, t) :
          q \notin DOMAIN tags[t] \/ tags[t][q] # Expected(tags, t)[q]

\* Faulty variant: what the alias holds wins over what it should hold.
PlannedKeepsHeld(tags, t) == Over(IndexAt(tags, t), Expected(tags, t))

\* planned_entries: what it should hold, and every orphan as it is.
Planned(tags, t) == Over(Expected(tags, t), IndexAt(tags, t))

\* has_findings, for an alias: an orphan is reported as well.
HasFindings(tags, t) == IndexAt(tags, t) # Expected(tags, t)

\* scope_filter: the whole graph, a track, or an alias with what is below it
\* and the path from it, or from a leaf, to the root.
Scope(versions, requested) ==
    LET universe == AliasUniverse(versions)
        Below(t) == {a \in universe : IsVersion(a) /\ t \in Ancestors(a)}
        Above(t) == universe \cap (Ancestors(t) \cup {Root(t)})
        Around(t) == IF ~IsVersion(t) THEN {a \in universe : a[1] = t[1]}
                     ELSE IF t \in universe THEN {t} \cup Below(t) \cup Above(t)
                     ELSE Above(t)
    IN IF requested = {} THEN universe ELSE UNION {Around(t) : t \in requested}

\* plan_repairs: an alias that would end up empty is left out.
Plan(tags, scope) ==
    [t \in {a \in scope : NeedsWrite(tags, a) /\ DOMAIN Planned(tags, a) # {}} |-> Planned(tags, t)]

\* preflight and verdict: an entry whose manifest is gone is dropped when it
\* is an orphan, and the alias refused when it is not, or when nothing is left.
Gone(index, manifests) == {q \in DOMAIN index : <<index[q], q>> \notin manifests}

Refused(tags, t, index, manifests) ==
    LET gone == Gone(index, manifests)
    IN \/ gone \cap DOMAIN Expected(tags, t) # {}
       \/ gone # {} /\ gone = DOMAIN index
================================================================================
