------------------------------- MODULE LockResolve -------------------------------
(***************************************************************************)
(* How ocx.lock is computed from ocx.toml (ocx_project, resolve.rs): which *)
(* bindings re-resolve, which pins are carried over from the predecessor,  *)
(* and the lock that results.  A binding is a (group, name) pair; a group  *)
(* binding written { from = "default" } follows the [tools] entry of its   *)
(* name.  Everything here is a pure operator; ProjectMutation drives it.   *)
(*                                                                         *)
(* The predecessor's entries are kept per binding, in file order: nothing  *)
(* stops a lock from holding two entries of one key.  The digest a tag     *)
(* resolved to is <<ref, n>>, n counting the times the tag has moved.      *)
(***************************************************************************)
EXTENDS Naturals, Sequences, FiniteSets

CONSTANTS
    Names,          \* binding keys
    NamedGroups,    \* the [group.*] tables
    DefaultGroup,   \* the [tools] table
    Refs,           \* declared identifiers, repository and tag
    RepoOf,         \* RepoOf[r]: the repository r names
    None

ASSUME DefaultGroupAssumption == DefaultGroup \notin NamedGroups
ASSUME NoneAssumption == None \notin Refs

Bindings == ({DefaultGroup} \cup NamedGroups) \X Names
Source(b) == <<DefaultGroup, b[2]>>

----------------------------------------------------------------------------
(* ocx.toml *)

\* ProjectConfig: tools and groups (decl), inherited (follows) and the one
\* setting outside the declaration hash that a command writes.
Configs ==
    {c \in [decl : [Bindings -> Refs \cup {None}],
            follows : SUBSET (NamedGroups \X Names),
            activate : BOOLEAN] :
        \A b \in c.follows : c.decl[b] = c.decl[Source(b)] /\ c.decl[b] # None}

\* The document init_project writes.
EmptyConfig == [decl |-> [b \in Bindings |-> None], follows |-> {}, activate |-> FALSE]

\* collect_work over all groups.
Declared(c) == {b \in Bindings : c.decl[b] # None}

\* declaration_hash covers the resolved identifiers; neither `from` nor
\* `activate` is part of it.
DeclarationHash(c) == c.decl

\* sync_inherited: a follower takes its source's identifier; one whose source
\* is gone keeps its last identifier as a literal.
SyncInherited(c) ==
    LET kept == {b \in c.follows : c.decl[Source(b)] # None}
    IN  [c EXCEPT !.follows = kept,
                  !.decl = [b \in Bindings |-> IF b \in kept THEN c.decl[Source(b)]
                                                             ELSE c.decl[b]]]

AddBinding(c, b, r) == SyncInherited([c EXCEPT !.decl[b] = r])

\* Faulty variant: the followers of a removed source are left as they are.
RemoveBindingOnly(c, b) ==
    [c EXCEPT !.decl[b] = None, !.follows = @ \ {b}]

RemoveBinding(c, b) ==
    SyncInherited([c EXCEPT !.decl[b] = None, !.follows = @ \ {b}])

\* retag_binding_in_memory: a follower's retag goes to its source.
RetagBinding(c, b, r) ==
    SyncInherited([c EXCEPT !.decl[IF b \in c.follows THEN Source(b) ELSE b] = r])

----------------------------------------------------------------------------
(* ocx.lock *)

\* A LockedTool.  declared is absent in a version 3 lock.
Entry(r, spelled, digest) == [repository |-> RepoOf[r], declared |-> spelled, digest |-> digest]

Digests == Refs \X Nat
Entries == [repository : {RepoOf[r] : r \in Refs}, declared : Refs \cup {None}, digest : Digests]
Locks == [version : {3, 4}, hash : [Bindings -> Refs \cup {None}], tools : [Bindings -> Seq(Entries)]]

ASSUME NoLockAssumption == None \notin Locks

\* tool.find(group, name): the first entry of the key, or None.
Find(lock, b) == IF lock = None \/ lock.tools[b] = <<>> THEN None ELSE Head(lock.tools[b])

\* ProjectLock::is_current: the hash, and every entry still declared from the
\* repository it was locked from.
IsCurrent(lock, c) ==
    /\ lock.hash = DeclarationHash(c)
    /\ \A b \in Bindings : \A i \in DOMAIN lock.tools[b] :
          c.decl[b] # None /\ RepoOf[c.decl[b]] = lock.tools[b][i].repository

----------------------------------------------------------------------------
(* Which bindings move *)

\* The predecessor's entry of b records another spelling than c declares.
Respelled(c, previous, b) ==
    LET e == Find(previous, b)
    IN  e # None /\ e.declared # None /\ e.declared # c.decl[b]

\* expand_touched: the touched bindings, the respelled ones, and the source
\* and followers of each of those.
ExpandTouched(c, previous, touched) ==
    LET moved  == touched \cup {b \in Declared(c) : Respelled(c, previous, b)}
        shared == {b[2] : b \in {x \in moved : x[1] = DefaultGroup \/ x \in c.follows}}
    IN  moved \cup {b \in Bindings : b[2] \in shared
                      /\ (b \in c.follows \/ (b[1] = DefaultGroup /\ c.decl[b] # None))}

\* validate_predecessor_coherence: every declared binding is touched, or
\* carried exactly once and from the repository it is declared from.
PredecessorCoherent(c, previous, touched) ==
    /\ \A b \in Bindings \ touched : Len(previous.tools[b]) <= 1
    /\ \A b \in Declared(c) \ touched :
          /\ previous.tools[b] # <<>>
          /\ Find(previous, b).repository = RepoOf[c.decl[b]]

\* Faulty variant: an entry without a spelling counts as unchanged.
ChangedIfSpelled(c, previous, b) ==
    LET e == Find(previous, b)
    IN  e = None \/ e.repository # RepoOf[c.decl[b]] \/ Respelled(c, previous, b)

\* resolve_lock_reconcile, `changed`: no entry, another repository, another
\* spelling; a version 3 lock that drifted counts as changed throughout.
Changed(c, previous, b) ==
    LET e == Find(previous, b)
        v3Drifted == previous # None /\ previous.version = 3 /\ ~IsCurrent(previous, c)
    IN  \/ e = None
        \/ v3Drifted
        \/ e.repository # RepoOf[c.decl[b]]
        \/ Respelled(c, previous, b)

\* What `ocx lock` (forced = {}) and a drifted `ocx update` start from.
Seed(c, previous, forced) ==
    {b \in Declared(c) : b \in forced \/ Changed(c, previous, b)}

\* A follower that is not forced takes over its source's carried pin, when
\* the source has one and does not move itself.
Adopting(c, previous, forced) ==
    {b \in Seed(c, previous, forced) :
        /\ b \in c.follows /\ b \notin forced
        /\ Source(b) \notin Seed(c, previous, forced)
        /\ Find(previous, Source(b)) # None}

ReconcileWork(c, previous, forced) ==
    Declared(c) \cap ExpandTouched(c, previous,
                        Seed(c, previous, forced) \ Adopting(c, previous, forced))

----------------------------------------------------------------------------
(* The new lock *)

\* Faulty variant: every binding asks the index for itself.
CopyingNone(c, work) == {b \in work : FALSE}

\* resolve_work: the followers whose source is resolved too copy its entry.
Copying(c, work) == {b \in work : b \in c.follows /\ Source(b) \in work}

\* The entries resolve_work and the adoption loop append for each key, given
\* the digests the index answered for work \ Copying.
Resolved(c, previous, work, adopting, pins) ==
    [b \in Bindings |->
        LET own  == IF b \notin work THEN <<>>
                    ELSE LET a == IF b \in Copying(c, work) THEN Source(b) ELSE b
                         IN  <<Entry(c.decl[a], c.decl[a], pins[a])>>
            kept == IF b \notin adopting THEN <<>> ELSE <<Find(previous, Source(b))>>
        IN  own \o kept]

\* Faulty variant: the digest of a removed binding's key is carried along.
MergeKeepsAll(previous, resolved, c) ==
    [b \in Bindings |->
        IF resolved[b] # <<>> THEN resolved[b]
        ELSE IF previous # None THEN previous.tools[b]
        ELSE <<>>]

\* merge_carry_forward: a key that was resolved takes the new entries, one
\* that is still declared keeps its old ones.
MergeCarryForward(previous, resolved, c) ==
    [b \in Bindings |->
        IF resolved[b] # <<>> THEN resolved[b]
        ELSE IF previous # None /\ c.decl[b] # None THEN previous.tools[b]
        ELSE <<>>]

\* build_lock: a version 4 lock stamped with c's hash, every entry with the
\* spelling c declares.
BuildLock(tools, c) ==
    [version |-> 4,
     hash    |-> DeclarationHash(c),
     tools   |-> [b \in Bindings |->
                    [i \in DOMAIN tools[b] |-> [tools[b][i] EXCEPT !.declared = c.decl[b]]]]]

NewLock(c, previous, work, adopting, pins) ==
    BuildLock(MergeCarryForward(previous, Resolved(c, previous, work, adopting, pins), c), c)

----------------------------------------------------------------------------
(* What a lock must be for the readers that accept it *)

\* One binding's entries: they are there exactly when it is declared, and the
\* digest of each is one its declared tag has had.
EntriesFollow(decl, entries, b) ==
    /\ (entries # <<>>) <=> (decl[b] # None)
    /\ \A i \in DOMAIN entries :
          /\ entries[i].repository = RepoOf[decl[b]]
          /\ entries[i].digest[1] = decl[b]
          /\ entries[i].declared \in {None, decl[b]}

\* A reader takes any config whose hash the lock carries, whenever it was
\* read: what the lock pins must follow from the hash alone.
LockFollowsHash(lock) ==
    \A b \in Bindings : EntriesFollow(lock.hash, lock.tools[b], b)
================================================================================
