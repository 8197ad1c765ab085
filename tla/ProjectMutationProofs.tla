-------------------------- MODULE ProjectMutationProofs --------------------------
(***************************************************************************)
(* That the commands on one project serialize, that a failed one leaves    *)
(* both files as it found them, and that every lock they write follows     *)
(* from the declaration hash it carries: for any names, groups,            *)
(* identifiers, writers, edits and tag moves.                              *)
(*                                                                         *)
(* The first half is about LockResolve's operators alone: a lock built     *)
(* from a good predecessor is good, provided the bindings that are not     *)
(* resolved again have the same identifier in both declarations (Carry),   *)
(* and the ways the commands choose what to resolve provide that.  The     *)
(* second half is the invariant of the commands: the lock holder's files   *)
(* are the ones it read until the step that replaces them.                 *)
(***************************************************************************)
EXTENDS ProjectMutation, SequenceTheorems, TLAPS

----------------------------------------------------------------------------
(* What a lock holds *)

\* The entries a declaration allows for b.
Good(decl, b) ==
    {e \in Entries : e.repository = RepoOf[decl[b]] /\ e.digest[1] = decl[b]}

\* A version 4 lock records every spelling.
Spelled(lock) ==
    lock.version = 4 =>
        \A b \in Bindings : \A i \in DOMAIN lock.tools[b] : lock.tools[b][i].declared # None

LockOK(lock) == lock \in Locks /\ LockFollowsHash(lock) /\ Spelled(lock)

\* The predecessor's entries of b may stand for what c declares for b.
Carried(c, prev, b) ==
    prev # None /\ prev.tools[b] # <<>> /\ prev.hash[b] = c.decl[b]

\* What is neither resolved nor adopted is carried, and so is what is adopted.
Carry(c, prev, work, adopting) ==
    /\ work \subseteq Declared(c)
    /\ adopting \subseteq c.follows
    /\ \A b \in Declared(c) \ (work \cup adopting) : Carried(c, prev, b)
    /\ \A b \in adopting : Carried(c, prev, Source(b))

\* The index has answered for everything it was asked for.
Answered(c, work, pins) ==
    \A b \in work \ Copying(c, work) : pins[b] \in Digests /\ pins[b][1] = c.decl[b]

\* The source of a binding is in [tools], where nothing follows.
LEMMA SourceFacts ==
    ASSUME NEW b \in Bindings
    PROVE  /\ Source(b) \in Bindings
           /\ Source(b) \notin NamedGroups \X Names
           /\ Source(b)[1] = DefaultGroup /\ Source(b)[2] = b[2]
           /\ b[1] = DefaultGroup => Source(b) = b
  BY DefaultGroupAssumption DEF Source, Bindings

\* What a config holds.
LEMMA ConfigFacts ==
    ASSUME NEW c \in Configs
    PROVE  /\ c.decl \in [Bindings -> Refs \cup {None}]
           /\ c.follows \subseteq NamedGroups \X Names
           /\ c.follows \subseteq Bindings
           /\ \A b \in c.follows : /\ c.decl[b] = c.decl[Source(b)] /\ c.decl[b] # None
                                   /\ b \in Declared(c) /\ Source(b) \in Declared(c)
                                   /\ Source(b) \notin c.follows
           /\ c.activate \in BOOLEAN
           /\ Declared(c) \subseteq Bindings
  <1>1. /\ c.decl \in [Bindings -> Refs \cup {None}] /\ c.follows \subseteq NamedGroups \X Names
        /\ c.activate \in BOOLEAN
        /\ \A b \in c.follows : c.decl[b] = c.decl[Source(b)] /\ c.decl[b] # None
    BY DEF Configs
  <1>2. c.follows \subseteq Bindings  BY <1>1 DEF Bindings
  <1> QED  BY <1>1, <1>2, SourceFacts DEF Declared

\* A carried entry is one the new declaration allows.
LEMMA CarriedGood ==
    ASSUME NEW c \in Configs, NEW prev, prev # None => LockOK(prev),
           NEW b \in Bindings, Carried(c, prev, b)
    PROVE  /\ prev.tools[b] \in Seq(Good(c.decl, b)) /\ prev.tools[b] # <<>>
           /\ Find(prev, b) \in Good(c.decl, b)
  <1>1. prev # None /\ LockOK(prev) /\ prev.tools[b] # <<>> /\ prev.hash[b] = c.decl[b]
    BY DEF Carried
  <1> DEFINE s == prev.tools[b]
  <1>2. s \in Seq(Entries)  BY <1>1 DEF LockOK, Locks
  <1>3. \A i \in DOMAIN s : s[i].repository = RepoOf[c.decl[b]] /\ s[i].digest[1] = c.decl[b]
    BY <1>1 DEF LockOK, LockFollowsHash, EntriesFollow
  <1>4. Len(s) \in Nat /\ DOMAIN s = 1..Len(s) /\ \A i \in 1..Len(s) : s[i] \in Entries
    BY <1>2, LenProperties
  <1>5. \A i \in 1..Len(s) : s[i] \in Good(c.decl, b)  BY <1>3, <1>4 DEF Good
  <1>6. s \in Seq(Good(c.decl, b))
    <2> HIDE DEF s
    <2> QED  BY <1>2, <1>4, <1>5
  <1>7. Head(s) \in Good(c.decl, b)  BY <1>6, <1>1, HeadTailProperties
  <1> QED  BY <1>1, <1>6, <1>7 DEF Find

\* What resolve_work and the adoption loop append is allowed.
LEMMA ResolvedGood ==
    ASSUME NEW c \in Configs, NEW prev, prev # None => LockOK(prev),
           NEW work, NEW adopting, Carry(c, prev, work, adopting),
           NEW pins, Answered(c, work, pins), NEW b \in Bindings
    PROVE  LET r == Resolved(c, prev, work, adopting, pins)
           IN  /\ r[b] \in Seq(Good(c.decl, b))
               /\ (r[b] # <<>>) <=> (b \in work \cup adopting)
  <1> DEFINE a    == IF b \in Copying(c, work) THEN Source(b) ELSE b
             own  == IF b \notin work THEN <<>>
                     ELSE <<Entry(c.decl[a], c.decl[a], pins[a])>>
             kept == IF b \notin adopting THEN <<>> ELSE <<Find(prev, Source(b))>>
             G    == Good(c.decl, b)
  <1>1. Resolved(c, prev, work, adopting, pins)[b] = own \o kept
    BY DEF Resolved
  <1>2. own \in Seq(G) /\ (own # <<>> <=> b \in work)
    <2>1. CASE b \in work
      <3>1. a \in work \ Copying(c, work) /\ c.decl[a] = c.decl[b] /\ c.decl[b] \in Refs
        BY <2>1, ConfigFacts DEF Copying, Carry, Declared
      <3>2. pins[a] \in Digests /\ pins[a][1] = c.decl[b]  BY <3>1 DEF Answered
      <3>3. Entry(c.decl[a], c.decl[a], pins[a]) \in G
        BY <3>1, <3>2 DEF Good, Entry, Entries
      <3> HIDE DEF a, G
      <3> QED  BY <2>1, <3>3
    <2>2. CASE b \notin work  BY <2>2
    <2> QED  BY <2>1, <2>2
  <1>3. kept \in Seq(G) /\ (kept # <<>> <=> b \in adopting)
    <2>1. CASE b \in adopting
      <3>1. Source(b) \in Bindings /\ c.decl[b] = c.decl[Source(b)]
        BY <2>1, ConfigFacts, SourceFacts DEF Carry
      <3>2. Find(prev, Source(b)) \in Good(c.decl, Source(b))
        BY <2>1, <3>1, CarriedGood DEF Carry
      <3>3. Find(prev, Source(b)) \in G  BY <3>1, <3>2 DEF Good
      <3> HIDE DEF G
      <3> QED  BY <2>1, <3>3
    <2>2. CASE b \notin adopting  BY <2>2
    <2> QED  BY <2>1, <2>2
  <1> HIDE DEF own, kept, G
  <1>4. own \o kept \in Seq(G) /\ (own \o kept = <<>> <=> own = <<>> /\ kept = <<>>)
    BY <1>2, <1>3, ConcatProperties, ConcatEqualIffEmpty
  <1> QED  BY <1>1, <1>2, <1>3, <1>4 DEF G

\* A lock built from a good predecessor is good, carries the hash of its
\* declaration, and a reader of that declaration accepts it (resolve_work,
\* merge_carry_forward, build_lock).
LEMMA NewLockOK ==
    ASSUME NEW c \in Configs, NEW prev, prev # None => LockOK(prev),
           NEW work, NEW adopting, Carry(c, prev, work, adopting),
           NEW pins, Answered(c, work, pins)
    PROVE  LET new == NewLock(c, prev, work, adopting, pins)
           IN  LockOK(new) /\ new.hash = c.decl /\ IsCurrent(new, c)
  <1> DEFINE r     == Resolved(c, prev, work, adopting, pins)
             tools == MergeCarryForward(prev, r, c)
             new   == NewLock(c, prev, work, adopting, pins)
  <1>1. \A b \in Bindings : tools[b] \in Seq(Good(c.decl, b))
                            /\ ((tools[b] # <<>>) <=> (c.decl[b] # None))
    <2> SUFFICES ASSUME NEW b \in Bindings
                 PROVE  tools[b] \in Seq(Good(c.decl, b))
                        /\ ((tools[b] # <<>>) <=> (c.decl[b] # None))
      OBVIOUS
    <2>1. r[b] \in Seq(Good(c.decl, b)) /\ ((r[b] # <<>>) <=> (b \in work \cup adopting))
      BY ResolvedGood
    <2>2. tools[b] = IF r[b] # <<>> THEN r[b]
                     ELSE IF prev # None /\ c.decl[b] # None THEN prev.tools[b]
                     ELSE <<>>
      BY DEF MergeCarryForward
    <2>3. b \in work \cup adopting => c.decl[b] # None
      BY ConfigFacts DEF Carry, Declared
    <2> HIDE DEF r, tools
    <2>4. CASE b \in work \cup adopting  BY <2>1, <2>2, <2>3, <2>4
    <2>5. CASE b \notin work \cup adopting /\ c.decl[b] # None
      <3>1. Carried(c, prev, b)  BY <2>5 DEF Carry, Declared
      <3>2. tools[b] = prev.tools[b]  BY <3>1, <2>1, <2>2, <2>5 DEF Carried
      <3> QED  BY <3>1, <3>2, <2>5, CarriedGood
    <2>6. CASE b \notin work \cup adopting /\ c.decl[b] = None
      BY <2>1, <2>2, <2>6
    <2> QED  BY <2>4, <2>5, <2>6
  <1>2. /\ new.version = 4 /\ new.hash = c.decl
        /\ new.tools = [b \in Bindings |-> [i \in DOMAIN tools[b] |->
                            [tools[b][i] EXCEPT !.declared = c.decl[b]]]]
        /\ new = [version |-> 4, hash |-> c.decl, tools |-> new.tools]
    BY DEF NewLock, BuildLock, DeclarationHash
  <1>3. ASSUME NEW b \in Bindings
        PROVE  /\ new.tools[b] \in Seq(Entries)
               /\ DOMAIN new.tools[b] = DOMAIN tools[b]
               /\ new.tools[b] # <<>> <=> c.decl[b] # None
               /\ \A i \in DOMAIN new.tools[b] :
                     /\ c.decl[b] # None
                     /\ new.tools[b][i].repository = RepoOf[c.decl[b]]
                     /\ new.tools[b][i].digest[1] = c.decl[b]
                     /\ new.tools[b][i].declared = c.decl[b]
    <2> DEFINE t == tools[b]
               n == [i \in DOMAIN t |-> [t[i] EXCEPT !.declared = c.decl[b]]]
    <2>1. new.tools[b] = n  BY <1>2
    <2>2. t \in Seq(Good(c.decl, b)) /\ (t # <<>> <=> c.decl[b] # None)  BY <1>1
    <2> HIDE DEF t
    <2>3. Len(t) \in Nat /\ DOMAIN t = 1..Len(t) /\ \A i \in 1..Len(t) : t[i] \in Good(c.decl, b)
      BY <2>2, LenProperties
    <2>4. c.decl[b] \in Refs \cup {None}  BY ConfigFacts
    <2>5. ASSUME NEW i \in 1..Len(t)
          PROVE  /\ n[i] \in Entries /\ n[i].declared = c.decl[b]
                 /\ n[i].repository = RepoOf[c.decl[b]] /\ n[i].digest[1] = c.decl[b]
      <3>1. t[i] \in Good(c.decl, b)  BY <2>3
      <3>2. t[i] \in Entries /\ t[i].repository = RepoOf[c.decl[b]] /\ t[i].digest[1] = c.decl[b]
        BY <3>1 DEF Good
      <3>3. n[i] = [t[i] EXCEPT !.declared = c.decl[b]]  BY <2>3
      <3> HIDE DEF n
      <3> QED  BY <3>2, <3>3, <2>4 DEF Entries
    <2>6. n \in Seq(Entries) /\ DOMAIN n = 1..Len(t)  BY <2>3, <2>5
    <2>7. n # <<>> <=> t # <<>>
      <3> HIDE DEF n
      <3>1. Len(n) = Len(t)  BY <2>6, <2>3
      <3> QED  BY <3>1, <2>2, <2>6, EmptySeq
    <2>8. \A i \in 1..Len(t) : c.decl[b] # None
      BY <2>2, <2>3, EmptySeq
    <2> HIDE DEF n
    <2> QED  BY <2>1, <2>2, <2>3, <2>5, <2>6, <2>7, <2>8 DEF t
  <1>4. new \in Locks
    <2>1. new.tools \in [Bindings -> Seq(Entries)]  BY <1>2, <1>3
    <2> HIDE DEF new
    <2> QED  BY <2>1, <1>2, ConfigFacts DEF Locks
  <1> HIDE DEF new, tools
  <1>h. new.hash = c.decl  BY <1>2
  <1>5. LockFollowsHash(new)
    <2> SUFFICES ASSUME NEW b \in Bindings PROVE EntriesFollow(new.hash, new.tools[b], b)
      BY DEF LockFollowsHash
    <2> QED  BY <1>h, <1>3 DEF EntriesFollow
  <1>6. Spelled(new)  BY <1>3 DEF Spelled
  <1>7. IsCurrent(new, c)  BY <1>h, <1>3 DEF IsCurrent, DeclarationHash
  <1> QED  BY <1>h, <1>4, <1>5, <1>6, <1>7 DEF LockOK, new

----------------------------------------------------------------------------
(* What the commands resolve *)

\* expand_touched only adds.
LEMMA ExpandGrows ==
    ASSUME NEW c, NEW prev, NEW touched
    PROVE  touched \subseteq ExpandTouched(c, prev, touched)
  BY DEF ExpandTouched

\* A binding resolve_lock_reconcile calls unchanged may be carried: its entry
\* has a spelling, which is the hash's, or the lock is version 3 and current.
LEMMA UnchangedCarried ==
    ASSUME NEW c \in Configs, NEW prev, prev # None => LockOK(prev),
           NEW b \in Bindings, ~Changed(c, prev, b)
    PROVE  Carried(c, prev, b)
  <1> DEFINE e == Find(prev, b)
  <1>1. /\ e # None /\ ~Respelled(c, prev, b)
        /\ ~(prev # None /\ prev.version = 3 /\ ~IsCurrent(prev, c))
    BY DEF Changed
  <1>2. prev # None /\ prev.tools[b] # <<>> /\ e = Head(prev.tools[b])
    BY <1>1 DEF Find
  <1>3. LockOK(prev)  BY <1>2
  <1>4. prev.tools[b] \in Seq(Entries) /\ prev.version \in {3, 4}
    BY <1>3 DEF LockOK, Locks
  <1>5. 1 \in DOMAIN prev.tools[b] /\ e = prev.tools[b][1]
    BY <1>2, <1>4
  <1>6. e.declared \in {None, prev.hash[b]}
    BY <1>3, <1>5 DEF LockOK, LockFollowsHash, EntriesFollow
  <1>7. e.declared = None \/ e.declared = c.decl[b]
    BY <1>1 DEF Respelled
  <1>8. CASE e.declared # None  BY <1>2, <1>6, <1>7, <1>8 DEF Carried
  <1>9. CASE e.declared = None
    <2>1. prev.version # 4  BY <1>3, <1>5, <1>9 DEF LockOK, Spelled
    <2>2. prev.hash = c.decl  BY <2>1, <1>1, <1>2, <1>4 DEF IsCurrent, DeclarationHash
    <2> QED  BY <2>2, <1>2 DEF Carried
  <1> QED  BY <1>8, <1>9

\* resolve_lock_reconcile: what it neither resolves nor adopts is unchanged.
LEMMA ReconcileCarries ==
    ASSUME NEW c \in Configs, NEW prev, prev # None => LockOK(prev), NEW forced
    PROVE  Carry(c, prev, ReconcileWork(c, prev, forced), Adopting(c, prev, forced))
  <1> DEFINE seed     == Seed(c, prev, forced)
             adopting == Adopting(c, prev, forced)
             work     == ReconcileWork(c, prev, forced)
  <1>1. work \subseteq Declared(c) /\ (seed \ adopting) \cap Declared(c) \subseteq work
    BY ExpandGrows DEF ReconcileWork
  <1>2. adopting \subseteq c.follows  BY DEF Adopting
  <1>3. \A b \in Declared(c) \ seed : ~Changed(c, prev, b)
    BY DEF Seed
  <1>4. ASSUME NEW b \in Declared(c) \ (work \cup adopting) PROVE Carried(c, prev, b)
    <2>1. b \notin seed  BY <1>1
    <2> QED  BY <2>1, <1>3, UnchangedCarried, ConfigFacts
  <1>5. ASSUME NEW b \in adopting PROVE Carried(c, prev, Source(b))
    <2>1. Source(b) \notin seed  BY DEF Adopting
    <2>2. Source(b) \in Declared(c) /\ Source(b) \in Bindings
      BY <1>2, ConfigFacts
    <2> QED  BY <2>1, <2>2, <1>3, UnchangedCarried
  <1> QED  BY <1>1, <1>2, <1>4, <1>5 DEF Carry

\* resolve_lock_touched: a predecessor that is neither drifted nor incoherent
\* may be carried where the command left the identifiers alone.
LEMMA TouchedCarries ==
    ASSUME NEW c \in Configs, NEW snap, NEW prev, prev # None, prev.hash = snap.decl,
           NEW wide, wide \subseteq Declared(c), PredecessorCoherent(c, prev, wide),
           \A b \in Declared(c) \ wide : c.decl[b] = snap.decl[b]
    PROVE  Carry(c, prev, wide, {})
  BY DEF Carry, Carried, PredecessorCoherent

\* Without a predecessor everything resolves.
LEMMA FreshCarries ==
    ASSUME NEW c, NEW prev
    PROVE  Carry(c, prev, Declared(c), {})
  BY DEF Carry

\* sync_inherited leaves a config, changes followers only, and gives those
\* that still have a source its identifier.
LEMMA SyncFacts ==
    ASSUME NEW c, c \in [decl : [Bindings -> Refs \cup {None}],
                         follows : SUBSET (NamedGroups \X Names), activate : BOOLEAN]
    PROVE  LET n == SyncInherited(c)
           IN  /\ n \in Configs
               /\ n.follows = {b \in c.follows : c.decl[Source(b)] # None}
               /\ \A b \in Bindings \ c.follows : n.decl[b] = c.decl[b]
               /\ \A b \in c.follows : n.decl[b] \in {c.decl[b], c.decl[Source(b)]}
               /\ \A b \in c.follows : c.decl[Source(b)] = None => n.decl[b] = c.decl[b]
  <1> DEFINE kept == {b \in c.follows : c.decl[Source(b)] # None}
             d    == [b \in Bindings |-> IF b \in kept THEN c.decl[Source(b)] ELSE c.decl[b]]
             n    == SyncInherited(c)
  <1>1. n = [c EXCEPT !.follows = kept, !.decl = d]  BY DEF SyncInherited
  <1>2. c.follows \subseteq Bindings  BY DEF Bindings
  <1>3. \A b \in Bindings : Source(b) \in Bindings /\ Source(b) \notin c.follows
    BY SourceFacts
  <1>4. d \in [Bindings -> Refs \cup {None}]  BY <1>2, <1>3
  <1>5. kept \subseteq NamedGroups \X Names  OBVIOUS
  <1>6. \A b \in kept : d[b] = d[Source(b)] /\ d[b] # None  BY <1>2, <1>3
  <1>7. \A b \in Bindings \ c.follows : d[b] = c.decl[b]  OBVIOUS
  <1>8. \A b \in c.follows : /\ d[b] \in {c.decl[b], c.decl[Source(b)]}
                             /\ c.decl[Source(b)] = None => d[b] = c.decl[b]
    BY <1>2
  <1> HIDE DEF kept, d, n
  <1>9. n.follows = kept /\ n.decl = d /\ n \in Configs
    BY <1>1, <1>4, <1>5, <1>6 DEF Configs
  <1> QED  BY <1>7, <1>8, <1>9 DEF n, kept

\* add: only the new key's identifier changes.
LEMMA AddFacts ==
    ASSUME NEW c \in Configs, NEW b \in Bindings, NEW r \in Refs, c.decl[b] = None
    PROVE  LET n == AddBinding(c, b, r)
           IN  n \in Configs /\ \A x \in Bindings \ {b} : n.decl[x] = c.decl[x]
  <1> DEFINE m == [c EXCEPT !.decl[b] = r]
  <1>1. m \in [decl : [Bindings -> Refs \cup {None}],
               follows : SUBSET (NamedGroups \X Names), activate : BOOLEAN]
    BY DEF Configs
  <1>2. /\ m.follows = c.follows /\ m.decl = [c.decl EXCEPT ![b] = r]
    BY DEF Configs
  <1>3. \A x \in Bindings \ {b} : m.decl[x] = c.decl[x]  BY <1>2, ConfigFacts
  <1>4. \A x \in c.follows : Source(x) # b /\ x # b /\ c.decl[x] = c.decl[Source(x)]
                              /\ Source(x) \in Bindings /\ x \in Bindings
    BY ConfigFacts, SourceFacts
  <1> HIDE DEF m
  <1>5. AddBinding(c, b, r) = SyncInherited(m)  BY DEF AddBinding, m
  <1>6. \A x \in c.follows : m.decl[x] = c.decl[x] /\ m.decl[Source(x)] = c.decl[x]
    BY <1>3, <1>4
  <1> DEFINE n == SyncInherited(m)
  <1>7. n \in Configs  BY <1>1, SyncFacts
  <1>8. \A x \in Bindings \ c.follows : n.decl[x] = m.decl[x]  BY <1>1, <1>2, SyncFacts
  <1>9. \A x \in c.follows : n.decl[x] \in {m.decl[x], m.decl[Source(x)]}
    BY <1>1, <1>2, SyncFacts
  <1> HIDE DEF n
  <1>10. \A x \in Bindings \ {b} : n.decl[x] = c.decl[x]  BY <1>3, <1>6, <1>8, <1>9
  <1> QED  BY <1>5, <1>7, <1>10 DEF n

\* remove: a follower of the removed key keeps its identifier.
LEMMA RemoveFacts ==
    ASSUME NEW c \in Configs, NEW b \in Bindings
    PROVE  LET n == RemoveBinding(c, b)
           IN  /\ n \in Configs
               /\ \A x \in Declared(n) : n.decl[x] = c.decl[x]
  <1> DEFINE m == [c EXCEPT !.decl[b] = None, !.follows = @ \ {b}]
  <1>1. /\ m \in [decl : [Bindings -> Refs \cup {None}],
                  follows : SUBSET (NamedGroups \X Names), activate : BOOLEAN]
        /\ m.follows = c.follows \ {b} /\ m.decl = [c.decl EXCEPT ![b] = None]
    BY DEF Configs
  <1> HIDE DEF m
  <1>2. /\ \A x \in Bindings \ {b} : m.decl[x] = c.decl[x]
        /\ m.decl[b] = None
    BY <1>1, ConfigFacts
  <1>3. RemoveBinding(c, b) = SyncInherited(m)  BY DEF RemoveBinding, m
  <1>4. \A x \in m.follows : x # b /\ c.decl[x] = c.decl[Source(x)]
                              /\ Source(x) \in Bindings /\ x \in Bindings
    BY <1>1, ConfigFacts, SourceFacts
  <1> DEFINE n == SyncInherited(m)
  <1>5. n \in Configs  BY <1>1, SyncFacts
  <1>6. \A x \in Bindings \ m.follows : n.decl[x] = m.decl[x]  BY <1>1, SyncFacts
  <1>7. \A x \in m.follows : n.decl[x] \in {m.decl[x], m.decl[Source(x)]}
                              /\ (m.decl[Source(x)] = None => n.decl[x] = m.decl[x])
    BY <1>1, SyncFacts
  <1> HIDE DEF n
  <1>8. ASSUME NEW x \in Declared(n) PROVE n.decl[x] = c.decl[x]
    <2>1. x \in Bindings /\ n.decl[x] # None  BY DEF Declared
    <2>2. CASE x \in m.follows  BY <2>1, <2>2, <1>2, <1>4, <1>7
    <2>3. CASE x \notin m.follows  BY <2>1, <2>3, <1>2, <1>6
    <2> QED  BY <2>2, <2>3
  <1> QED  BY <1>3, <1>5, <1>8 DEF n

\* upgrade: the binding, its source and that source's followers change, and
\* expand_touched has them all.
LEMMA RetagFacts ==
    ASSUME NEW c \in Configs, NEW b \in Bindings, NEW r \in Refs, NEW prev
    PROVE  LET n == RetagBinding(c, b, r)
           IN  /\ n \in Configs
               /\ \A x \in Declared(n) \ ExpandTouched(n, prev, {b}) : n.decl[x] = c.decl[x]
  <1> DEFINE t == IF b \in c.follows THEN Source(b) ELSE b
             m == [c EXCEPT !.decl[t] = r]
             n == SyncInherited(m)
             wide == ExpandTouched(n, prev, {b})
  <1>1. t \in Bindings /\ t \notin c.follows /\ (b \in c.follows => t = Source(b))
    BY SourceFacts, ConfigFacts
  <1>2. RetagBinding(c, b, r) = n  BY DEF RetagBinding
  <1>t. b \notin c.follows => t = b  OBVIOUS
  <1> HIDE DEF t
  <1>3. /\ m \in [decl : [Bindings -> Refs \cup {None}],
                  follows : SUBSET (NamedGroups \X Names), activate : BOOLEAN]
        /\ m.follows = c.follows /\ m.decl = [c.decl EXCEPT ![t] = r]
    BY <1>1 DEF Configs
  <1> HIDE DEF m
  <1>4. /\ \A x \in Bindings \ {t} : m.decl[x] = c.decl[x]
        /\ m.decl[t] = r /\ r # None
    BY <1>1, <1>3, ConfigFacts, NoneAssumption
  <1>5. \A x \in c.follows : /\ c.decl[x] = c.decl[Source(x)] /\ c.decl[x] # None
                             /\ Source(x) \in Bindings /\ x \in Bindings /\ x[2] = Source(x)[2]
                             /\ Source(x)[1] = DefaultGroup
    BY ConfigFacts, SourceFacts
  <1>6. n \in Configs  BY <1>3, SyncFacts
  <1>7. n.follows = {x \in c.follows : m.decl[Source(x)] # None}  BY <1>3, SyncFacts
  <1>8. \A x \in Bindings \ c.follows : n.decl[x] = m.decl[x]  BY <1>3, SyncFacts
  <1>9. \A x \in c.follows : n.decl[x] \in {m.decl[x], m.decl[Source(x)]}  BY <1>3, SyncFacts
  <1>10. n.follows = c.follows  BY <1>4, <1>5, <1>7
  <1> HIDE DEF n
  <1>11. b \in wide  BY ExpandGrows
  <1>12. \A x \in Bindings :
            (b[1] = DefaultGroup \/ b \in n.follows) /\ x[2] = b[2]
            /\ (x \in n.follows \/ (x[1] = DefaultGroup /\ n.decl[x] # None))
            => x \in wide
    BY DEF ExpandTouched
  <1> HIDE DEF wide
  <1>13. n.decl[t] # None  BY <1>1, <1>4, <1>8
  <1>14. t \in wide
    <2>1. CASE b \in c.follows  BY <2>1, <1>1, <1>5, <1>10, <1>12, <1>13
    <2>2. CASE b \notin c.follows  BY <2>2, <1>t, <1>11
    <2> QED  BY <2>1, <2>2
  <1>15. ASSUME NEW x \in c.follows, Source(x) = t PROVE x \in wide
    <2>1. CASE b \in c.follows  BY <2>1, <1>15, <1>1, <1>5, <1>10, <1>12
    <2>2. CASE b \notin c.follows  BY <2>2, <1>15, <1>t, <1>5, <1>10, <1>12
    <2> QED  BY <2>1, <2>2
  <1>16. ASSUME NEW x \in Declared(n) \ wide PROVE n.decl[x] = c.decl[x]
    <2>1. x \in Bindings /\ x # t  BY <1>14 DEF Declared
    <2>2. CASE x \in c.follows  BY <2>1, <2>2, <1>4, <1>5, <1>9, <1>15
    <2>3. CASE x \notin c.follows  BY <2>1, <2>3, <1>4, <1>8
    <2> QED  BY <2>2, <2>3
  <1> QED  BY <1>2, <1>6, <1>16 DEF n, wide

----------------------------------------------------------------------------
(* The invariant of the commands *)

Active(p) == pc[p] \notin {"idle", "init"}

\* A staged mutation: what it resolves and carries, and what it has heard.
Prepared(j) ==
    /\ j.kind \notin {"none", "readd", "activate"}
    /\ ~j.changed => j.cand = j.snap
    /\ Carry(j.cand, j.prev, j.work, j.adopting)
    /\ \A b \in Bindings : j.pins[b] = None \/ j.pins[b][1] = j.cand.decl[b]

\* What p has read and computed.
JobInv(p) ==
    /\ pc[p] = "load" => manifest \in Configs
    /\ Holding(p) => /\ job[p].snap \in Configs
                     /\ job[p].prev # None => LockOK(job[p].prev)
    /\ pc[p] = "staged" => job[p].kind = "none" /\ job[p].pins = NoPins /\ job[p].end = "none"
    /\ pc[p] \in {"resolve", "save", "publish", "rollback"} => job[p].cand \in Configs
    /\ pc[p] \in {"resolve", "save"} => Prepared(job[p]) /\ job[p].end = "none"
    /\ pc[p] = "save" => Answered(job[p].cand, job[p].work, job[p].pins)

\* p may still end with "error": the files must be the ones it read.
ManifestKept(p) ==
    \/ pc[p] \in {"staged", "resolve", "save", "publish"}
    \/ pc[p] = "rollback" /\ job[p].end # "unsynced"
    \/ pc[p] = "end" /\ job[p].end = "error"

LockKept(p) ==
    \/ pc[p] \in {"staged", "resolve", "save"}
    \/ pc[p] = "publish" /\ job[p].kind = "activate"
    \/ pc[p] = "end" /\ job[p].end = "error"

\* A command that writes no lock.
Idle(j) == j.kind \in {"readd", "activate"}

\* How the files stand to it.
FileInv(p) ==
    /\ ManifestKept(p) /\ ~outside[p] => manifest = job[p].snap
    /\ LockKept(p) => lockfile = job[p].prev
    /\ pc[p] = "publish" /\ job[p].kind # "activate" =>
          /\ lockfile # None /\ lockfile.hash = job[p].cand.decl
          /\ job[p].kind # "readd"
    /\ pc[p] = "publish" /\ job[p].kind = "activate" => job[p].cand.decl = job[p].snap.decl
    /\ pc[p] = "end" /\ job[p].end = "ok" /\ ~outside[p] /\ ~Idle(job[p]) =>
          manifest \in Configs /\ lockfile # None /\ lockfile.hash = manifest.decl
    /\ pc[p] = "end" /\ job[p].end = "ok" /\ ~outside[p] /\ Idle(job[p]) =>
          lockfile = job[p].prev /\ manifest.decl = job[p].snap.decl

WriterInv(p) == (Active(p) => holder = p) /\ JobInv(p) /\ FileInv(p)

LockInv == lockfile # None => LockOK(lockfile)

ProjectInv == ProjectTypeOK /\ LockInv /\ \A p \in Writers : WriterInv(p)

\* A step of the lock holder p leaves every other process where it is, which
\* is outside the commands.
HolderStep(p) ==
    /\ pc' \in [Writers -> PCs] /\ job' \in [Writers -> Jobs]
    /\ \A q \in Writers \ {p} : pc'[q] = pc[q]
    /\ WriterInv(p)'

\* The empty answers are answers.
LEMMA NoPinsType == NoPins \in [Bindings -> Digests \cup {None}] /\ \A b \in Bindings : NoPins[b] = None
  BY DEF NoPins

\* What End does to the process.
LEMMA EndFacts ==
    ASSUME ProjectTypeOK, NEW p \in Writers, NEW how \in {"ok", "error", "unsynced"}, End(p, how)
    PROVE  /\ pc' \in [Writers -> PCs] /\ job' \in [Writers -> Jobs]
           /\ \A q \in Writers \ {p} : pc'[q] = pc[q]
           /\ pc'[p] = "end" /\ job'[p].end = how /\ job'[p].kind = job[p].kind
           /\ job'[p].snap = job[p].snap /\ job'[p].prev = job[p].prev
  <1>1. pc \in [Writers -> PCs] /\ job \in [Writers -> Jobs]  BY DEF ProjectTypeOK
  <1> DEFINE j == [job[p] EXCEPT !.end = how, !.cand = None, !.changed = FALSE,
                                 !.work = {}, !.adopting = {}, !.pins = NoPins]
  <1>2. pc' = [pc EXCEPT ![p] = "end"] /\ job' = [job EXCEPT ![p] = j]
    BY DEF End, Goto
  <1>3. job[p] \in Jobs  BY <1>1
  <1>4. /\ j \in Jobs /\ j.end = how /\ j.kind = job[p].kind
        /\ j.snap = job[p].snap /\ j.prev = job[p].prev
    BY <1>3, NoPinsType DEF Jobs
  <1> HIDE DEF j
  <1>5. job' \in [Writers -> Jobs] /\ job'[p] = j  BY <1>1, <1>2, <1>4
  <1>6. pc' \in [Writers -> PCs] /\ pc'[p] = "end" /\ \A q \in Writers \ {p} : pc'[q] = pc[q]
    BY <1>1, <1>2 DEF PCs
  <1> QED  BY <1>4, <1>5, <1>6

\* An error before anything is written.
LEMMA ErrorStep ==
    ASSUME ProjectInv, NEW p \in Writers, LockKept(p), ManifestKept(p), Active(p),
           pc[p] # "end", End(p, "error"), UNCHANGED <<fileVars, holder, outside>>
    PROVE  HolderStep(p)
  <1>1. ProjectTypeOK /\ WriterInv(p)  BY DEF ProjectInv
  <1>2. /\ pc' \in [Writers -> PCs] /\ job' \in [Writers -> Jobs]
        /\ \A q \in Writers \ {p} : pc'[q] = pc[q]
        /\ pc'[p] = "end" /\ job'[p].end = "error" /\ job'[p].kind = job[p].kind
        /\ job'[p].snap = job[p].snap /\ job'[p].prev = job[p].prev
    BY <1>1, EndFacts
  <1>3. UNCHANGED <<manifest, lockfile, holder, outside>>  BY DEF fileVars
  <1>4. Holding(p) /\ Holding(p)'  BY <1>2 DEF LockKept, Holding
  <1>5. JobInv(p)'  BY <1>1, <1>2, <1>4 DEF WriterInv, JobInv
  <1>6. FileInv(p)'  BY <1>1, <1>2, <1>3 DEF WriterInv, FileInv
  <1> QED  BY <1>1, <1>2, <1>3, <1>5, <1>6 DEF WriterInv, HolderStep, Active

\* A command that finds nothing to do.
LEMMA NothingToDoStep ==
    ASSUME ProjectInv, NEW p \in Writers, pc[p] = "staged",
           NEW kind \in {"readd", "activate"}, NothingToDo(p, kind),
           UNCHANGED <<fileVars, holder, outside>>
    PROVE  HolderStep(p)
  <1>1. WriterInv(p) /\ pc \in [Writers -> PCs] /\ job \in [Writers -> Jobs]
    BY DEF ProjectInv, ProjectTypeOK
  <1> DEFINE j == [job[p] EXCEPT !.kind = kind, !.end = "ok"]
  <1>2. pc' = [pc EXCEPT ![p] = "end"] /\ job' = [job EXCEPT ![p] = j]
    BY DEF NothingToDo, Goto, Set
  <1>3. job[p] \in Jobs  BY <1>1
  <1>4. /\ j \in Jobs /\ j.end = "ok" /\ j.kind = kind
        /\ j.snap = job[p].snap /\ j.prev = job[p].prev
    BY <1>3 DEF Jobs
  <1> HIDE DEF j
  <1>5. job' \in [Writers -> Jobs] /\ job'[p] = j  BY <1>1, <1>2, <1>4
  <1>6. pc' \in [Writers -> PCs] /\ pc'[p] = "end" /\ \A q \in Writers \ {p} : pc'[q] = pc[q]
    BY <1>1, <1>2 DEF PCs
  <1>7. UNCHANGED <<manifest, lockfile, holder, outside>>  BY DEF fileVars
  <1>8. /\ lockfile = job[p].prev /\ (~outside[p] => manifest = job[p].snap)
        /\ job[p].snap \in Configs /\ (job[p].prev # None => LockOK(job[p].prev))
    BY <1>1 DEF WriterInv, JobInv, FileInv, ManifestKept, LockKept, Holding
  <1>9. JobInv(p)'  BY <1>4, <1>5, <1>6, <1>8 DEF JobInv
  <1>10. FileInv(p)'  BY <1>4, <1>5, <1>6, <1>7, <1>8 DEF FileInv, ManifestKept, LockKept, Idle
  <1> QED  BY <1>1, <1>5, <1>6, <1>7, <1>9, <1>10 DEF WriterInv, HolderStep, Active

Kinds == {"add", "remove", "lock", "update", "upgrade"}

\* A command that goes on to resolve.
LEMMA ResolvingStep ==
    ASSUME ProjectInv, NEW p \in Writers, pc[p] = "staged",
           NEW kind \in Kinds, NEW c \in Configs, NEW changed \in BOOLEAN, NEW work, NEW adopting,
           ~changed => c = job[p].snap, Carry(c, job[p].prev, work, adopting),
           Resolving(p, kind, c, changed, work, adopting),
           UNCHANGED <<fileVars, holder, outside>>
    PROVE  HolderStep(p)
  <1>1. ProjectTypeOK /\ WriterInv(p)  BY DEF ProjectInv
  <1>2. pc \in [Writers -> PCs] /\ job \in [Writers -> Jobs]  BY <1>1 DEF ProjectTypeOK
  <1> DEFINE j == [job[p] EXCEPT !.kind = kind, !.cand = c, !.changed = changed,
                                 !.work = work, !.adopting = adopting]
  <1>3. pc' = [pc EXCEPT ![p] = "resolve"] /\ job' = [job EXCEPT ![p] = j]
    BY DEF Resolving, Goto, Set
  <1>4. job[p] \in Jobs /\ job[p].pins = NoPins /\ job[p].end = "none"
    BY <1>1, <1>2 DEF WriterInv, JobInv
  <1>5. work \in SUBSET Bindings /\ adopting \in SUBSET Bindings
    BY ConfigFacts DEF Carry
  <1>6. /\ j \in Jobs /\ j.kind = kind /\ j.cand = c /\ j.changed = changed /\ j.work = work
        /\ j.adopting = adopting /\ j.snap = job[p].snap /\ j.prev = job[p].prev
        /\ j.pins = NoPins /\ j.end = "none"
    BY <1>4, <1>5 DEF Jobs, Kinds
  <1> HIDE DEF j
  <1>7. pc' \in [Writers -> PCs] /\ pc'[p] = "resolve" /\ \A q \in Writers \ {p} : pc'[q] = pc[q]
    BY <1>2, <1>3 DEF PCs
  <1>8. job' \in [Writers -> Jobs] /\ job'[p] = j  BY <1>2, <1>3, <1>6
  <1>9. Prepared(j)  BY <1>6, NoPinsType DEF Prepared, Kinds
  <1>10. JobInv(p)'  BY <1>1, <1>6, <1>7, <1>8, <1>9 DEF WriterInv, JobInv, Holding
  <1>11. FileInv(p)'
    BY <1>1, <1>6, <1>7, <1>8 DEF WriterInv, FileInv, ManifestKept, LockKept, fileVars
  <1> QED  BY <1>1, <1>7, <1>8, <1>10, <1>11 DEF WriterInv, HolderStep, Active, fileVars

\* A command that names what it touches (resolve_lock_touched).
LEMMA TouchedStep ==
    ASSUME ProjectInv, NEW p \in Writers, pc[p] = "staged",
           NEW kind \in Kinds, NEW c \in Configs, NEW changed \in BOOLEAN, NEW touched,
           ~changed => c = job[p].snap,
           \A b \in Declared(c) \ ExpandTouched(c, job[p].prev, touched) :
              c.decl[b] = job[p].snap.decl[b],
           TouchedWork(p, kind, c, changed, touched),
           UNCHANGED <<fileVars, holder, outside>>
    PROVE  HolderStep(p)
  <1> DEFINE prev == job[p].prev
             wide == ExpandTouched(c, prev, touched)
  <1>1. CASE prev = None
    <2>1. Resolving(p, kind, c, changed, Declared(c), {})  BY <1>1 DEF TouchedWork
    <2> QED  BY <2>1, FreshCarries, ResolvingStep
  <1>2. CASE prev # None /\ Resolving(p, kind, c, changed, wide, {})
             /\ prev.hash = job[p].snap.decl /\ PredecessorCoherent(c, prev, wide)
             /\ wide \subseteq Declared(c)
    <2>1. Carry(c, prev, wide, {})  BY <1>2, TouchedCarries
    <2> QED  BY <1>2, <2>1, ResolvingStep
  <1>3. CASE End(p, "error")
    BY <1>3, ErrorStep DEF LockKept, ManifestKept, Active
  <1> QED  BY <1>1, <1>2, <1>3 DEF TouchedWork, DeclarationHash

----------------------------------------------------------------------------
(* The steps of the lock holder *)

\* Every command keeps the invariant.
LEMMA CommandStep ==
    ASSUME ProjectInv, NEW p \in Writers, Command(p)
    PROVE  HolderStep(p) /\ UNCHANGED <<fileVars, holder, index, edits, outside>> /\ Active(p)
  <1> DEFINE c == job[p].snap
             prev == job[p].prev
             still == UNCHANGED <<fileVars, holder, index, edits, outside>>
  <1>1. WriterInv(p)  BY DEF ProjectInv
  <1>2. pc[p] = "staged" => c \in Configs /\ (prev # None => LockOK(prev))
    BY <1>1 DEF WriterInv, JobInv, Holding
  <1>3. pc[p] = "staged" => LockKept(p) /\ ManifestKept(p) /\ Active(p)
    BY DEF LockKept, ManifestKept, Active
  <1>4. ASSUME pc[p] = "staged", NEW kind \in Kinds, NEW forced, Reconcile(p, kind, forced), still
        PROVE  HolderStep(p)
    <2>1. Resolving(p, kind, c, FALSE, ReconcileWork(c, prev, forced), Adopting(c, prev, forced))
      BY <1>4 DEF Reconcile
    <2>2. Carry(c, prev, ReconcileWork(c, prev, forced), Adopting(c, prev, forced))
      BY <1>2, <1>4, ReconcileCarries
    <2> QED  BY <1>2, <1>4, <2>1, <2>2, ResolvingStep
  <1>5. ASSUME pc[p] = "staged", NEW kind \in Kinds, NEW touched,
               TouchedWork(p, kind, c, FALSE, touched), still
        PROVE  HolderStep(p)
    BY <1>2, <1>5, TouchedStep
  <1>6. ASSUME pc[p] = "staged", End(p, "error"), still PROVE HolderStep(p)
    BY <1>3, <1>6, ErrorStep
  <1>7. ASSUME pc[p] = "staged", NEW kind \in {"readd", "activate"}, NothingToDo(p, kind), still
        PROVE  HolderStep(p)
    BY <1>7, NothingToDoStep
  <1>8. ASSUME NEW b \in Bindings, NEW r \in Refs, Add(p, b, r)
        PROVE  HolderStep(p) /\ still /\ Active(p)
    <2>1. pc[p] = "staged" /\ still  BY <1>8 DEF Add
    <2>2. CASE c.decl[b] = None /\ TouchedWork(p, "add", AddBinding(c, b, r), TRUE, {b})
      <3> DEFINE n == AddBinding(c, b, r)
      <3>1. n \in Configs /\ \A x \in Bindings \ {b} : n.decl[x] = c.decl[x]
        BY <1>2, <2>1, <2>2, AddFacts
      <3>2. \A x \in Declared(n) \ ExpandTouched(n, prev, {b}) : n.decl[x] = c.decl[x]
        BY <3>1, ExpandGrows DEF Declared
      <3> HIDE DEF n
      <3>3. HolderStep(p)  BY <2>1, <2>2, <3>1, <3>2, TouchedStep DEF Kinds, n
      <3> QED  BY <2>1, <1>3, <3>3
    <2>3. CASE NothingToDo(p, "readd")  BY <2>1, <2>3, <1>3, <1>7
    <2>4. CASE End(p, "error")  BY <2>1, <2>4, <1>3, <1>6
    <2>5. CASE TouchedWork(p, "add", c, FALSE, {b})  BY <2>1, <2>5, <1>3, <1>5 DEF Kinds
    <2>6. \/ c.decl[b] = None /\ TouchedWork(p, "add", AddBinding(c, b, r), TRUE, {b})
          \/ NothingToDo(p, "readd") \/ End(p, "error") \/ TouchedWork(p, "add", c, FALSE, {b})
      <3> DEFINE pinned == Find(prev, b) # None
      <3>1. CASE c.decl[b] = None  BY <1>8, <3>1 DEF Add
      <3>2. CASE c.decl[b] # None /\ c.decl[b] = r /\ pinned
        BY <1>8, <3>2, NoneAssumption DEF Add
      <3>3. CASE c.decl[b] # None /\ c.decl[b] = r /\ ~pinned
        BY <1>8, <3>3, NoneAssumption DEF Add
      <3>4. CASE c.decl[b] # None /\ c.decl[b] # r  BY <1>8, <3>4 DEF Add
      <3> QED  BY <3>1, <3>2, <3>3, <3>4
    <2> QED  BY <2>2, <2>3, <2>4, <2>5, <2>6
  <1>9. ASSUME NEW b \in Bindings, Remove(p, b)
        PROVE  HolderStep(p) /\ still /\ Active(p)
    <2>1. pc[p] = "staged" /\ still  BY <1>9 DEF Remove
    <2>2. CASE End(p, "error")  BY <2>1, <2>2, <1>3, <1>6
    <2>3. CASE TouchedWork(p, "remove", RemoveBinding(c, b), TRUE, {})
      <3> DEFINE n == RemoveBinding(c, b)
      <3>1. n \in Configs /\ \A x \in Declared(n) : n.decl[x] = c.decl[x]
        BY <1>2, <2>1, RemoveFacts
      <3> HIDE DEF n
      <3>2. HolderStep(p)  BY <2>1, <2>3, <3>1, TouchedStep DEF Kinds, n
      <3> QED  BY <2>1, <1>3, <3>2
    <2> QED  BY <1>9, <2>2, <2>3 DEF Remove
  <1>10. ASSUME Lock(p) PROVE HolderStep(p) /\ still /\ Active(p)
    BY <1>3, <1>4, <1>10 DEF Lock, Kinds
  <1>11. ASSUME Update(p) PROVE HolderStep(p) /\ still /\ Active(p)
    <2> DEFINE default == {b \in Declared(c) : b[1] = DefaultGroup}
    <2>1. pc[p] = "staged" /\ still
          /\ (\/ Reconcile(p, "update", default)
              \/ TouchedWork(p, "update", c, FALSE, ExpandTouched(c, prev, default)))
      BY <1>11 DEF Update
    <2> HIDE DEF default
    <2> QED  BY <2>1, <1>3, <1>4, <1>5 DEF Kinds
  <1>12. ASSUME NEW b \in Bindings, UpdateBinding(p, b)
         PROVE  HolderStep(p) /\ still /\ Active(p)
    BY <1>3, <1>5, <1>6, <1>12 DEF UpdateBinding, Kinds
  <1>13. ASSUME NEW b \in Bindings, NEW r \in Refs, Upgrade(p, b, r)
         PROVE  HolderStep(p) /\ still /\ Active(p)
    <2> DEFINE n == RetagBinding(c, b, r)
    <2>1. pc[p] = "staged" /\ still  BY <1>13 DEF Upgrade
    <2>2. CASE End(p, "error")  BY <2>1, <2>2, <1>3, <1>6
    <2>3. CASE TouchedWork(p, "upgrade", n, TRUE, ExpandTouched(n, prev, {b}))
      <3>1. n \in Configs /\ \A x \in Declared(n) \ ExpandTouched(n, prev, {b}) : n.decl[x] = c.decl[x]
        BY <1>2, <2>1, RetagFacts
      <3> HIDE DEF n
      <3>2. ExpandTouched(n, prev, {b}) \subseteq ExpandTouched(n, prev, ExpandTouched(n, prev, {b}))
        BY ExpandGrows
      <3>3. HolderStep(p)  BY <2>1, <2>3, <3>1, <3>2, TouchedStep DEF Kinds
      <3> QED  BY <2>1, <1>3, <3>3
    <2> QED  BY <1>13, <2>2, <2>3 DEF Upgrade
  <1>14. ASSUME SetActivate(p) PROVE HolderStep(p) /\ still /\ Active(p)
    <2>1. pc[p] = "staged" /\ still  BY <1>14 DEF SetActivate
    <2>2. CASE c.activate
      <3>1. NothingToDo(p, "activate")  BY <1>14, <2>2 DEF SetActivate
      <3> QED  BY <2>1, <3>1, <1>3, <1>7
    <2>3. CASE ~c.activate
      <3> DEFINE n == [c EXCEPT !.activate = TRUE]
                 j == [job[p] EXCEPT !.kind = "activate", !.cand = n, !.changed = TRUE]
      <3>1. job' = [job EXCEPT ![p] = j] /\ pc' = [pc EXCEPT ![p] = "publish"]
        BY <1>14, <2>3 DEF SetActivate, Goto, Set
      <3>2. n \in Configs /\ n.decl = c.decl  BY <1>2, <2>1 DEF Configs
      <3> HIDE DEF n
      <3>3. pc \in [Writers -> PCs] /\ job \in [Writers -> Jobs]  BY DEF ProjectInv, ProjectTypeOK
      <3>4. job[p] \in Jobs  BY <3>3
      <3>5. /\ j \in Jobs /\ j.kind = "activate" /\ j.cand = n
            /\ j.snap = job[p].snap /\ j.prev = job[p].prev
        BY <3>2, <3>4 DEF Jobs
      <3> HIDE DEF j
      <3>6. pc' \in [Writers -> PCs] /\ pc'[p] = "publish" /\ \A q \in Writers \ {p} : pc'[q] = pc[q]
        BY <3>1, <3>3 DEF PCs
      <3>7. job' \in [Writers -> Jobs] /\ job'[p] = j  BY <3>1, <3>3, <3>5
      <3>8. JobInv(p)'  BY <1>2, <2>1, <3>2, <3>5, <3>6, <3>7 DEF JobInv, Holding
      <3>9. FileInv(p)'
        BY <1>1, <2>1, <3>2, <3>5, <3>6, <3>7
           DEF WriterInv, FileInv, ManifestKept, LockKept, fileVars
      <3>10. (Active(p) => holder = p)'  BY <1>1, <2>1 DEF WriterInv, Active
      <3>11. HolderStep(p)  BY <3>6, <3>7, <3>8, <3>9, <3>10 DEF HolderStep, WriterInv
      <3> QED  BY <2>1, <1>3, <3>11
    <2> QED  BY <2>2, <2>3
  <1> QED  BY <1>8, <1>9, <1>10, <1>11, <1>12, <1>13, <1>14 DEF Command

\* The files are read under the lock.
LEMMA LoadStep ==
    ASSUME ProjectInv, NEW p \in Writers, Load(p)
    PROVE  HolderStep(p) /\ Active(p)
  <1>1. /\ WriterInv(p) /\ LockInv /\ pc \in [Writers -> PCs] /\ job \in [Writers -> Jobs]
        /\ lockfile \in Locks \cup {None}
    BY DEF ProjectInv, ProjectTypeOK
  <1> DEFINE j == [NoJob EXCEPT !.snap = manifest, !.prev = lockfile]
  <1>2. /\ pc[p] = "load" /\ pc' = [pc EXCEPT ![p] = "staged"] /\ job' = [job EXCEPT ![p] = j]
        /\ UNCHANGED <<manifest, lockfile, holder>>
    BY DEF Load, Goto, Set, fileVars
  <1>3. manifest \in Configs /\ holder = p  BY <1>1, <1>2 DEF WriterInv, JobInv, Active
  <1>4. /\ j \in Jobs /\ j.kind = "none" /\ j.snap = manifest /\ j.prev = lockfile
        /\ j.pins = NoPins /\ j.end = "none"
    BY <1>1, <1>3, NoPinsType DEF NoJob, Jobs
  <1> HIDE DEF j
  <1>5. pc' \in [Writers -> PCs] /\ pc'[p] = "staged" /\ \A q \in Writers \ {p} : pc'[q] = pc[q]
    BY <1>1, <1>2 DEF PCs
  <1>6. job' \in [Writers -> Jobs] /\ job'[p] = j  BY <1>1, <1>2, <1>4
  <1>7. JobInv(p)'  BY <1>1, <1>3, <1>4, <1>5, <1>6 DEF JobInv, LockInv
  <1>8. FileInv(p)'  BY <1>2, <1>4, <1>5, <1>6 DEF FileInv, ManifestKept, LockKept
  <1> QED  BY <1>2, <1>3, <1>5, <1>6, <1>7, <1>8 DEF HolderStep, WriterInv, Active

\* An answer of the index.
LEMMA ResolveOneStep ==
    ASSUME ProjectInv, NEW p \in Writers, NEW b \in Bindings, ResolveOne(p, b)
    PROVE  HolderStep(p) /\ Active(p)
  <1>1. /\ WriterInv(p) /\ pc \in [Writers -> PCs] /\ job \in [Writers -> Jobs]
        /\ tag \in [Refs -> Nat]
    BY DEF ProjectInv, ProjectTypeOK
  <1> DEFINE d == Digest(job[p].cand.decl[b])
             j == [job[p] EXCEPT !.pins = [job[p].pins EXCEPT ![b] = d]]
  <1>2. /\ pc[p] = "resolve" /\ pc' = pc /\ job' = [job EXCEPT ![p] = j]
        /\ b \in job[p].work /\ UNCHANGED <<manifest, lockfile, holder, outside>>
    BY DEF ResolveOne, Pending, fileVars
  <1>3. Prepared(job[p]) /\ job[p].cand \in Configs  BY <1>1, <1>2 DEF WriterInv, JobInv
  <1>4. job[p].cand.decl[b] \in Refs
    BY <1>2, <1>3, ConfigFacts DEF Prepared, Carry, Declared
  <1>5. d \in Digests /\ d[1] = job[p].cand.decl[b]  BY <1>1, <1>4 DEF Digest, Digests
  <1> HIDE DEF d
  <1>6. job[p] \in Jobs /\ job[p].pins \in [Bindings -> Digests \cup {None}]  BY <1>1 DEF Jobs
  <1>7. /\ j \in Jobs /\ j.pins = [job[p].pins EXCEPT ![b] = d]
        /\ j.kind = job[p].kind /\ j.snap = job[p].snap /\ j.prev = job[p].prev
        /\ j.cand = job[p].cand /\ j.changed = job[p].changed /\ j.work = job[p].work
        /\ j.adopting = job[p].adopting /\ j.end = job[p].end
    <2> DEFINE n == [job[p].pins EXCEPT ![b] = d]
    <2>1. n \in [Bindings -> Digests \cup {None}]  BY <1>5, <1>6
    <2> HIDE DEF n
    <2>2. LET k == [job[p] EXCEPT !.pins = n]
          IN  /\ k \in Jobs /\ k.pins = n
              /\ k.kind = job[p].kind /\ k.snap = job[p].snap /\ k.prev = job[p].prev
              /\ k.cand = job[p].cand /\ k.changed = job[p].changed /\ k.work = job[p].work
              /\ k.adopting = job[p].adopting /\ k.end = job[p].end
      BY <1>6, <2>1 DEF Jobs
    <2> QED  BY <2>2 DEF n
  <1> HIDE DEF j
  <1>8. \A x \in Bindings : j.pins[x] = None \/ j.pins[x][1] = job[p].cand.decl[x]
    BY <1>3, <1>5, <1>6, <1>7 DEF Prepared
  <1>9. Prepared(j)  BY <1>3, <1>7, <1>8 DEF Prepared
  <1>10. job' \in [Writers -> Jobs] /\ job'[p] = j  BY <1>1, <1>2, <1>7
  <1>11. JobInv(p)'  BY <1>1, <1>2, <1>7, <1>9, <1>10 DEF WriterInv, JobInv, Holding
  <1>12. FileInv(p)'
    BY <1>1, <1>2, <1>7, <1>10 DEF WriterInv, FileInv, ManifestKept, LockKept
  <1> QED  BY <1>1, <1>2, <1>10, <1>11, <1>12 DEF HolderStep, WriterInv, Active

\* The index has answered everything.
LEMMA ResolveDoneStep ==
    ASSUME ProjectInv, NEW p \in Writers, ResolveDone(p)
    PROVE  HolderStep(p) /\ Active(p)
  <1>1. WriterInv(p) /\ pc \in [Writers -> PCs] /\ job \in [Writers -> Jobs]
    BY DEF ProjectInv, ProjectTypeOK
  <1>2. /\ pc[p] = "resolve" /\ pc' = [pc EXCEPT ![p] = "save"] /\ Pending(p) = {}
        /\ UNCHANGED <<manifest, lockfile, holder, job, outside>>
    BY DEF ResolveDone, Goto, fileVars
  <1>3. pc' \in [Writers -> PCs] /\ pc'[p] = "save" /\ \A q \in Writers \ {p} : pc'[q] = pc[q]
    BY <1>1, <1>2 DEF PCs
  <1>4. Prepared(job[p]) /\ job[p].cand \in Configs  BY <1>1, <1>2 DEF WriterInv, JobInv
  <1>5. job[p].work \subseteq Bindings /\ job[p].pins \in [Bindings -> Digests \cup {None}]
    BY <1>1 DEF Jobs
  <1>6. Answered(job[p].cand, job[p].work, job[p].pins)
    <2> SUFFICES ASSUME NEW b \in job[p].work \ Copying(job[p].cand, job[p].work)
                 PROVE  job[p].pins[b] \in Digests /\ job[p].pins[b][1] = job[p].cand.decl[b]
      BY DEF Answered
    <2>1. job[p].pins[b] # None  BY <1>2 DEF Pending
    <2> QED  BY <2>1, <1>4, <1>5 DEF Prepared
  <1>7. JobInv(p)'  BY <1>1, <1>2, <1>3, <1>4, <1>6 DEF WriterInv, JobInv, Holding
  <1>8. FileInv(p)'
    BY <1>1, <1>2, <1>3 DEF WriterInv, FileInv, ManifestKept, LockKept
  <1> QED  BY <1>1, <1>2, <1>3, <1>7, <1>8 DEF HolderStep, WriterInv, Active

\* The lock a command is about to write.
LEMMA BuiltOK ==
    ASSUME ProjectInv, NEW p \in Writers, pc[p] = "save"
    PROVE  LockOK(Built(p)) /\ Built(p).hash = job[p].cand.decl /\ Built(p) # None
  <1>1. WriterInv(p)  BY DEF ProjectInv
  <1>2. /\ job[p].cand \in Configs /\ (job[p].prev # None => LockOK(job[p].prev))
        /\ Prepared(job[p]) /\ Answered(job[p].cand, job[p].work, job[p].pins)
    BY <1>1 DEF WriterInv, JobInv, Holding
  <1>3. Carry(job[p].cand, job[p].prev, job[p].work, job[p].adopting)  BY <1>2 DEF Prepared
  <1> DEFINE new == NewLock(job[p].cand, job[p].prev, job[p].work, job[p].adopting, job[p].pins)
  <1>n. LockOK(new) /\ new.hash = job[p].cand.decl /\ IsCurrent(new, job[p].cand)
    BY <1>2, <1>3, NewLockOK, Zenon
  <1>4. LockOK(Built(p)) /\ Built(p).hash = job[p].cand.decl
    BY <1>n DEF Built
  <1> QED  BY <1>4, NoLockAssumption DEF LockOK

\* ocx.lock is written, or fails to be.
LEMMA SaveStep ==
    ASSUME ProjectInv, NEW p \in Writers, SaveLock(p) \/ SaveFails(p) \/ SaveUnsynced(p)
    PROVE  HolderStep(p) /\ Active(p) /\ LockInv'
  <1>1. /\ ProjectTypeOK /\ WriterInv(p) /\ LockInv
        /\ pc \in [Writers -> PCs] /\ job \in [Writers -> Jobs]
    BY DEF ProjectInv, ProjectTypeOK
  <1>2. pc[p] = "save"  BY DEF SaveLock, SaveFails, SaveUnsynced
  <1>3. LockOK(Built(p)) /\ Built(p).hash = job[p].cand.decl /\ Built(p) # None
    BY <1>2, BuiltOK
  <1>4. /\ job[p].cand \in Configs /\ job[p].snap \in Configs /\ Holding(p) /\ Active(p)
        /\ (job[p].prev # None => LockOK(job[p].prev))
        /\ Prepared(job[p]) /\ job[p].end = "none"
        /\ holder = p /\ (~outside[p] => manifest = job[p].snap) /\ lockfile = job[p].prev
    BY <1>1, <1>2 DEF WriterInv, JobInv, FileInv, Holding, Active, ManifestKept, LockKept
  <1>5. CASE SaveFails(p)
    <2>1. HolderStep(p)
      BY <1>2, <1>4, <1>5, ErrorStep DEF SaveFails, LockKept, ManifestKept
    <2> QED  BY <1>1, <1>4, <1>5, <2>1 DEF SaveFails, LockInv, fileVars
  <1>6. CASE SaveLock(p) /\ job[p].changed
    <2>1. /\ pc' = [pc EXCEPT ![p] = "publish"] /\ job' = job /\ lockfile' = Built(p)
          /\ UNCHANGED <<manifest, holder, outside>>
      BY <1>6 DEF SaveLock, Goto
    <2>2. pc' \in [Writers -> PCs] /\ pc'[p] = "publish" /\ \A q \in Writers \ {p} : pc'[q] = pc[q]
      BY <1>1, <2>1 DEF PCs
    <2>3. JobInv(p)'  BY <1>4, <2>1, <2>2 DEF JobInv
    <2>4. FileInv(p)'
      BY <1>3, <1>4, <2>1, <2>2 DEF Prepared, FileInv, ManifestKept, LockKept
    <2>5. LockInv'  BY <1>3, <2>1 DEF LockInv
    <2> QED  BY <1>1, <1>4, <2>1, <2>2, <2>3, <2>4, <2>5 DEF HolderStep, WriterInv, Active
  <1>7. ASSUME NEW how \in {"ok", "unsynced"}, End(p, how), how = "ok" => ~job[p].changed,
               lockfile' = Built(p), UNCHANGED <<manifest, holder, outside>>
        PROVE  HolderStep(p) /\ Active(p) /\ LockInv'
    <2>1. /\ pc' \in [Writers -> PCs] /\ job' \in [Writers -> Jobs]
          /\ \A q \in Writers \ {p} : pc'[q] = pc[q]
          /\ pc'[p] = "end" /\ job'[p].end = how /\ job'[p].kind = job[p].kind
          /\ job'[p].snap = job[p].snap /\ job'[p].prev = job[p].prev
      BY <1>1, <1>7, EndFacts
    <2>2. JobInv(p)'  BY <1>4, <2>1 DEF JobInv
    <2>3. FileInv(p)'
      BY <1>3, <1>4, <1>7, <2>1 DEF Prepared, FileInv, ManifestKept, LockKept, Idle
    <2>4. LockInv'  BY <1>3, <1>7 DEF LockInv
    <2> QED  BY <1>4, <1>7, <2>1, <2>2, <2>3, <2>4 DEF HolderStep, WriterInv
  <1>8. CASE SaveLock(p) /\ ~job[p].changed  BY <1>7, <1>8 DEF SaveLock
  <1>9. CASE SaveUnsynced(p)  BY <1>7, <1>9 DEF SaveUnsynced
  <1> QED  BY <1>5, <1>6, <1>8, <1>9

\* ocx.toml is written, or fails to be.
LEMMA PublishStep ==
    ASSUME ProjectInv, NEW p \in Writers, Publish(p) \/ PublishFails(p) \/ PublishUnsynced(p)
    PROVE  HolderStep(p) /\ Active(p) /\ manifest' \in Configs \cup {None} /\ lockfile' = lockfile
  <1>1. /\ ProjectTypeOK /\ WriterInv(p)
        /\ pc \in [Writers -> PCs] /\ job \in [Writers -> Jobs]
        /\ manifest \in Configs \cup {None}
    BY DEF ProjectInv, ProjectTypeOK
  <1>2. pc[p] = "publish"  BY DEF Publish, PublishFails, PublishUnsynced
  <1>3. /\ job[p].cand \in Configs /\ job[p].snap \in Configs /\ Holding(p) /\ Active(p)
        /\ (job[p].prev # None => LockOK(job[p].prev))
        /\ holder = p /\ (~outside[p] => manifest = job[p].snap)
        /\ job[p].kind = "activate" => /\ lockfile = job[p].prev
                                       /\ job[p].cand.decl = job[p].snap.decl
        /\ job[p].kind # "activate" => /\ lockfile # None /\ lockfile.hash = job[p].cand.decl
                                       /\ job[p].kind # "readd"
    BY <1>1, <1>2 DEF WriterInv, JobInv, FileInv, Holding, Active, ManifestKept, LockKept
  <1>4. ASSUME NEW how \in {"ok", "unsynced"}, End(p, how), manifest' = job[p].cand,
               UNCHANGED <<lockfile, holder, outside>>
        PROVE  HolderStep(p) /\ Active(p)
    <2>1. /\ pc' \in [Writers -> PCs] /\ job' \in [Writers -> Jobs]
          /\ \A q \in Writers \ {p} : pc'[q] = pc[q]
          /\ pc'[p] = "end" /\ job'[p].end = how /\ job'[p].kind = job[p].kind
          /\ job'[p].snap = job[p].snap /\ job'[p].prev = job[p].prev
      BY <1>1, <1>4, EndFacts
    <2>2. JobInv(p)'  BY <1>3, <2>1 DEF JobInv
    <2>3. FileInv(p)'  BY <1>3, <1>4, <2>1 DEF FileInv, ManifestKept, LockKept, Idle
    <2> QED  BY <1>3, <1>4, <2>1, <2>2, <2>3 DEF HolderStep, WriterInv
  <1>5. ASSUME NEW j \in Jobs, j.snap = job[p].snap, j.prev = job[p].prev, j.cand = job[p].cand,
               job' = [job EXCEPT ![p] = j], pc' = [pc EXCEPT ![p] = "rollback"],
               manifest' = manifest \/ j.end = "unsynced",
               UNCHANGED <<lockfile, holder, outside>>
        PROVE  HolderStep(p) /\ Active(p)
    <2>1. pc' \in [Writers -> PCs] /\ pc'[p] = "rollback" /\ \A q \in Writers \ {p} : pc'[q] = pc[q]
      BY <1>1, <1>5 DEF PCs
    <2>2. job' \in [Writers -> Jobs] /\ job'[p] = j  BY <1>1, <1>5
    <2>3. JobInv(p)'  BY <1>3, <1>5, <2>1, <2>2 DEF JobInv
    <2>4. FileInv(p)'  BY <1>3, <1>5, <2>1, <2>2 DEF FileInv, ManifestKept, LockKept
    <2> QED  BY <1>3, <1>5, <2>1, <2>2, <2>3, <2>4 DEF HolderStep, WriterInv
  <1>6. job[p] \in Jobs /\ job = [job EXCEPT ![p] = job[p]]  BY <1>1
  <1>7. CASE Publish(p)  BY <1>3, <1>4, <1>7 DEF Publish
  <1>8. CASE PublishFails(p)
    <2>1. UNCHANGED <<manifest, lockfile, holder, outside>>  BY <1>8 DEF PublishFails, fileVars
    <2>2. CASE job[p].kind = "activate"
      <3>1. End(p, "error")  BY <1>8, <2>2 DEF PublishFails
      <3>2. HolderStep(p)
        BY <1>2, <1>3, <2>1, <2>2, <3>1, ErrorStep DEF LockKept, ManifestKept, fileVars
      <3> QED  BY <1>1, <1>3, <2>1, <3>2
    <2>3. CASE job[p].kind # "activate"
      <3>1. pc' = [pc EXCEPT ![p] = "rollback"] /\ job' = job  BY <1>8, <2>3 DEF PublishFails, Goto
      <3>2. job' = [job EXCEPT ![p] = job[p]]  BY <3>1, <1>6
      <3> QED  BY <1>1, <1>5, <1>6, <2>1, <3>1, <3>2
    <2> QED  BY <2>2, <2>3
  <1>9. CASE PublishUnsynced(p)
    <2>1. manifest' = job[p].cand /\ UNCHANGED <<lockfile, holder, outside>>
      BY <1>9 DEF PublishUnsynced
    <2>2. CASE job[p].kind = "activate"  BY <1>3, <1>4, <1>9, <2>1, <2>2 DEF PublishUnsynced
    <2>3. CASE job[p].kind # "activate"
      <3> DEFINE j == [job[p] EXCEPT !.end = "unsynced"]
      <3>1. pc' = [pc EXCEPT ![p] = "rollback"] /\ job' = [job EXCEPT ![p] = j]
        BY <1>9, <2>3 DEF PublishUnsynced, Goto
      <3>2. /\ j \in Jobs /\ j.snap = job[p].snap /\ j.prev = job[p].prev
            /\ j.cand = job[p].cand /\ j.end = "unsynced"
        BY <1>6 DEF Jobs
      <3> HIDE DEF j
      <3> QED  BY <1>3, <1>5, <2>1, <3>1, <3>2
    <2> QED  BY <2>2, <2>3
  <1> QED  BY <1>7, <1>8, <1>9

\* The lock is put back, or fails to be.
LEMMA RollbackStep ==
    ASSUME ProjectInv, NEW p \in Writers, Rollback(p) \/ RollbackFails(p)
    PROVE  HolderStep(p) /\ Active(p) /\ LockInv' /\ manifest' = manifest
  <1>1. ProjectTypeOK /\ WriterInv(p) /\ LockInv  BY DEF ProjectInv
  <1>2. pc[p] = "rollback" /\ UNCHANGED <<manifest, holder, outside>>
    BY DEF Rollback, RollbackFails, fileVars
  <1>3. /\ job[p].snap \in Configs /\ Active(p) /\ holder = p
        /\ (job[p].prev # None => LockOK(job[p].prev))
        /\ (job[p].end # "unsynced" /\ ~outside[p] => manifest = job[p].snap)
    BY <1>1, <1>2 DEF WriterInv, JobInv, FileInv, Holding, Active, ManifestKept
  <1>4. ASSUME NEW how \in {"error", "unsynced"}, End(p, how),
               how = "error" => lockfile' = job[p].prev /\ job[p].end # "unsynced",
               lockfile' \in {lockfile, job[p].prev}
        PROVE  HolderStep(p) /\ LockInv'
    <2>1. /\ pc' \in [Writers -> PCs] /\ job' \in [Writers -> Jobs]
          /\ \A q \in Writers \ {p} : pc'[q] = pc[q]
          /\ pc'[p] = "end" /\ job'[p].end = how /\ job'[p].kind = job[p].kind
          /\ job'[p].snap = job[p].snap /\ job'[p].prev = job[p].prev
      BY <1>1, <1>4, EndFacts
    <2>2. JobInv(p)'  BY <1>3, <2>1 DEF JobInv
    <2>3. FileInv(p)'  BY <1>2, <1>3, <1>4, <2>1 DEF FileInv, ManifestKept, LockKept
    <2>4. LockInv'  BY <1>1, <1>3, <1>4 DEF LockInv
    <2> QED  BY <1>2, <1>3, <2>1, <2>2, <2>3, <2>4 DEF HolderStep, WriterInv
  <1>5. CASE Rollback(p)  BY <1>2, <1>3, <1>4, <1>5 DEF Rollback
  <1>6. CASE RollbackFails(p)  BY <1>2, <1>3, <1>4, <1>6 DEF RollbackFails, fileVars
  <1> QED  BY <1>5, <1>6

----------------------------------------------------------------------------
(* The others, and the steps around the commands *)

\* Outside the commands there is nothing to keep.
LEMMA InactiveStep ==
    ASSUME NEW q \in Writers, pc'[q] \in {"idle", "init"}
    PROVE  WriterInv(q)'
  BY DEF WriterInv, JobInv, FileInv, Active, Holding, ManifestKept, LockKept

\* One process holds the lock, so its steps meet nobody else's.
LEMMA OthersInactive ==
    ASSUME ProjectInv, NEW p \in Writers, Active(p), HolderStep(p)
    PROVE  \A q \in Writers : WriterInv(q)'
  <1> SUFFICES ASSUME NEW q \in Writers, q # p PROVE WriterInv(q)'
    BY DEF HolderStep
  <1>1. holder = p /\ (Active(q) => holder = q)  BY DEF ProjectInv, WriterInv
  <1>2. pc'[q] = pc[q]  BY DEF HolderStep
  <1> QED  BY <1>1, <1>2, InactiveStep DEF Active

\* A process whose files and state stay.
LEMMA SameStep ==
    ASSUME ProjectInv, NEW q \in Writers, pc'[q] = pc[q], job'[q] = job[q],
           outside'[q] = outside[q], UNCHANGED fileVars, Active(q) => holder' = holder
    PROVE  WriterInv(q)'
  <1>1. WriterInv(q)  BY DEF ProjectInv
  <1> QED
    BY <1>1 DEF WriterInv, JobInv, FileInv, Active, Holding, ManifestKept, LockKept, fileVars

\* A process under which somebody replaces ocx.toml.
LEMMA OutsideStep ==
    ASSUME ProjectInv, NEW q \in Writers, pc'[q] = pc[q], job'[q] = job[q],
           manifest' \in Configs, outside'[q] = (outside[q] \/ Holding(q)),
           UNCHANGED <<lockfile, holder>>
    PROVE  WriterInv(q)'
  <1>1. WriterInv(q)  BY DEF ProjectInv
  <1>2. JobInv(q)'  BY <1>1 DEF WriterInv, JobInv, Holding
  <1>3. FileInv(q)'
    <2>1. CASE Holding(q)  BY <1>1, <2>1 DEF WriterInv, FileInv, ManifestKept, LockKept
    <2>2. CASE ~Holding(q)  BY <1>1, <2>2 DEF FileInv, ManifestKept, LockKept, Holding
    <2> QED  BY <2>1, <2>2
  <1> QED  BY <1>1, <1>2, <1>3 DEF WriterInv, Active

\* The document init_project writes is a config.
LEMMA EmptyConfigType == EmptyConfig \in Configs
  BY DEF EmptyConfig, Configs

\* The files are typed and the processes keep the invariant.
LEMMA InvStep ==
    ASSUME ProjectInv, [ProjectNext]_projectVars
    PROVE  ProjectInv'
  <1> DEFINE Kept == \A q \in Writers : WriterInv(q)'
  <1>1. /\ ProjectTypeOK /\ LockInv /\ \A q \in Writers : WriterInv(q)
        /\ manifest \in Configs \cup {None} /\ lockfile \in Locks \cup {None}
        /\ holder \in Writers \cup {NoWriter} /\ tag \in [Refs -> Nat]
        /\ pushes \in 0..MaxPushes /\ edits \in 0..MaxEdits
        /\ pc \in [Writers -> PCs] /\ job \in [Writers -> Jobs] /\ outside \in [Writers -> BOOLEAN]
    BY DEF ProjectInv, ProjectTypeOK
  <1>2. ASSUME NEW p \in Writers, HolderStep(p), Active(p),
               manifest' \in Configs \cup {None}, LockInv',
               UNCHANGED <<holder, index, edits, outside>>
        PROVE  ProjectInv'
    <2>1. lockfile' \in Locks \cup {None}  BY <1>2 DEF LockInv, LockOK
    <2>2. pc' \in [Writers -> PCs] /\ job' \in [Writers -> Jobs]  BY <1>2 DEF HolderStep
    <2>3. UNCHANGED <<holder, tag, pushes, edits, outside>>  BY <1>2 DEF index
    <2>4. ProjectTypeOK'  BY <1>1, <1>2, <2>1, <2>2, <2>3 DEF ProjectTypeOK
    <2>5. Kept  BY <1>2, OthersInactive
    <2> QED  BY <1>2, <2>4, <2>5 DEF ProjectInv
  <1>3. UNCHANGED fileVars => LockInv' /\ manifest' = manifest /\ lockfile' = lockfile
    BY <1>1 DEF LockInv, fileVars
  <1>4. ASSUME NEW p \in Writers, pc' = [pc EXCEPT ![p] = "idle"],
               job' = [job EXCEPT ![p] = NoJob], outside' = [outside EXCEPT ![p] = FALSE],
               holder' = IF holder = p THEN NoWriter ELSE holder,
               UNCHANGED <<fileVars, index, edits>>
        PROVE  ProjectInv'
    <2>1. NoJob \in Jobs  BY NoPinsType DEF NoJob, Jobs
    <2>2. /\ pc' \in [Writers -> PCs] /\ pc'[p] = "idle"
          /\ \A q \in Writers \ {p} : pc'[q] = pc[q]
      BY <1>1, <1>4 DEF PCs
    <2>3. job' \in [Writers -> Jobs] /\ \A q \in Writers \ {p} : job'[q] = job[q]
      BY <1>1, <1>4, <2>1
    <2>4. outside' \in [Writers -> BOOLEAN] /\ \A q \in Writers \ {p} : outside'[q] = outside[q]
      BY <1>1, <1>4
    <2>5. holder' \in Writers \cup {NoWriter}  BY <1>1, <1>4
    <2>6. UNCHANGED <<tag, pushes, edits>>  BY <1>4 DEF index
    <2>7. ProjectTypeOK'  BY <1>1, <1>3, <1>4, <2>2, <2>3, <2>4, <2>5, <2>6 DEF ProjectTypeOK
    <2>8. WriterInv(p)'  BY <2>2, InactiveStep
    <2>9. ASSUME NEW q \in Writers \ {p} PROVE WriterInv(q)'
      <3>1. Active(q) => holder' = holder  BY <1>1, <1>4 DEF WriterInv
      <3> QED  BY <1>4, <2>2, <2>3, <2>4, <3>1, SameStep
    <2> QED  BY <1>3, <1>4, <2>7, <2>8, <2>9 DEF ProjectInv
  <1>5. ASSUME NEW c \in Configs, WriteOutside(c), UNCHANGED <<lockfile, holder, index, job>>,
               edits' \in 0..MaxEdits, pc' \in [Writers -> PCs],
               \A q \in Writers : pc'[q] = pc[q] \/ pc'[q] = "idle"
        PROVE  ProjectInv'
    <2>1. /\ manifest' = c /\ UNCHANGED <<lockfile, holder, job, tag, pushes>>
          /\ outside' = [q \in Writers |-> outside[q] \/ Holding(q)]
      BY <1>5 DEF WriteOutside, index
    <2>2. outside' \in [Writers -> BOOLEAN]
      <3>1. \A q \in Writers : (outside[q] \/ Holding(q)) \in BOOLEAN  BY <1>1 DEF Holding
      <3> QED  BY <2>1, <3>1
    <2>3. ProjectTypeOK'  BY <1>1, <1>5, <2>1, <2>2 DEF ProjectTypeOK
    <2>4. LockInv'  BY <1>1, <2>1 DEF LockInv
    <2>5. ASSUME NEW q \in Writers PROVE WriterInv(q)'
      <3>1. CASE pc'[q] = "idle"  BY <3>1, InactiveStep
      <3>2. CASE pc'[q] = pc[q]
        <4>1. outside'[q] = (outside[q] \/ Holding(q)) /\ manifest' \in Configs  BY <2>1
        <4> QED  BY <2>1, <3>2, <4>1, OutsideStep
      <3> QED  BY <1>5, <3>1, <3>2
    <2> QED  BY <2>3, <2>4, <2>5 DEF ProjectInv
  <1>6. ASSUME NEW p \in Writers, Acquire(p) PROVE ProjectInv'
    <2>1. /\ holder = NoWriter /\ holder' = p /\ pc' = [pc EXCEPT ![p] = "load"] /\ manifest # None
          /\ UNCHANGED <<fileVars, tag, pushes, edits, job, outside>>
      BY <1>6 DEF Acquire, Goto, index
    <2>2. /\ pc' \in [Writers -> PCs] /\ pc'[p] = "load"
          /\ \A q \in Writers \ {p} : pc'[q] = pc[q]
      BY <1>1, <2>1 DEF PCs
    <2>3. ProjectTypeOK'  BY <1>1, <1>3, <2>1, <2>2 DEF ProjectTypeOK
    <2>4. WriterInv(p)'
      BY <1>1, <1>3, <2>1, <2>2 DEF WriterInv, JobInv, FileInv, Holding, ManifestKept, LockKept
    <2>5. ASSUME NEW q \in Writers \ {p} PROVE WriterInv(q)'
      <3>1. ~Active(q)  BY <1>1, <2>1, NoWriterAssumption DEF WriterInv
      <3> QED  BY <2>2, <3>1, InactiveStep DEF Active
    <2> QED  BY <1>3, <2>1, <2>3, <2>4, <2>5 DEF ProjectInv
  <1>7. ASSUME NEW p \in Writers, InitCheck(p) PROVE ProjectInv'
    <2>1. pc' = [pc EXCEPT ![p] = "init"] /\ UNCHANGED <<fileVars, holder, tag, pushes, edits, job, outside>>
      BY <1>7 DEF InitCheck, Goto, index
    <2>2. /\ pc' \in [Writers -> PCs] /\ pc'[p] = "init"
          /\ \A q \in Writers \ {p} : pc'[q] = pc[q]
      BY <1>1, <2>1 DEF PCs
    <2>3. ProjectTypeOK'  BY <1>1, <1>3, <2>1, <2>2 DEF ProjectTypeOK
    <2>4. WriterInv(p)'  BY <2>2, InactiveStep
    <2>5. \A q \in Writers \ {p} : WriterInv(q)'  BY <2>1, <2>2, SameStep
    <2> QED  BY <1>3, <2>1, <2>3, <2>4, <2>5 DEF ProjectInv
  <1>8. ASSUME NEW p \in Writers, InitWrite(p) PROVE ProjectInv'
    <2>1. /\ WriteOutside(EmptyConfig) /\ UNCHANGED <<lockfile, holder, index, job>> /\ edits' = edits
          /\ pc' = [pc EXCEPT ![p] = "idle"]
      BY <1>8 DEF InitWrite, Goto
    <2>2. pc' \in [Writers -> PCs] /\ \A q \in Writers : pc'[q] = pc[q] \/ pc'[q] = "idle"
      BY <1>1, <2>1 DEF PCs
    <2> QED  BY <1>1, <1>5, <2>1, <2>2, EmptyConfigType
  <1>9. ASSUME NEW p \in Writers, Crash(p) PROVE ProjectInv'
    BY <1>4, <1>9 DEF Crash, Goto, Set
  <1>10. ASSUME NEW p \in Writers, Release(p) PROVE ProjectInv'
    BY <1>4, <1>10 DEF Release, Goto, Set
  <1>11. ASSUME NEW p \in Writers, Load(p) PROVE ProjectInv'
    <2>1. UNCHANGED <<fileVars, holder, index, edits, outside>>  BY <1>11 DEF Load
    <2> QED  BY <1>1, <1>2, <1>3, <1>11, <2>1, LoadStep
  <1>12. ASSUME NEW p \in Writers, Command(p) PROVE ProjectInv'
    <2>1. HolderStep(p) /\ UNCHANGED <<fileVars, holder, index, edits, outside>> /\ Active(p)
      BY <1>12, CommandStep
    <2> QED  BY <1>1, <1>2, <1>3, <2>1
  <1>13. ASSUME NEW p \in Writers, NEW b \in Bindings, ResolveOne(p, b) PROVE ProjectInv'
    <2>1. UNCHANGED <<fileVars, holder, index, edits, outside>>  BY <1>13 DEF ResolveOne
    <2> QED  BY <1>1, <1>2, <1>3, <1>13, <2>1, ResolveOneStep
  <1>14. ASSUME NEW p \in Writers, ResolveFails(p) PROVE ProjectInv'
    <2>1. /\ UNCHANGED <<fileVars, holder, index, edits, outside>>
          /\ pc[p] = "resolve" /\ End(p, "error")
      BY <1>14 DEF ResolveFails
    <2>2. HolderStep(p) /\ Active(p)
      BY <2>1, ErrorStep DEF LockKept, ManifestKept, Active
    <2> QED  BY <1>1, <1>2, <1>3, <2>1, <2>2
  <1>15. ASSUME NEW p \in Writers, ResolveDone(p) PROVE ProjectInv'
    <2>1. UNCHANGED <<fileVars, holder, index, edits, outside>>  BY <1>15 DEF ResolveDone
    <2> QED  BY <1>1, <1>2, <1>3, <1>15, <2>1, ResolveDoneStep
  <1>16. ASSUME NEW p \in Writers, SaveLock(p) \/ SaveFails(p) \/ SaveUnsynced(p) PROVE ProjectInv'
    <2>1. manifest' = manifest /\ UNCHANGED <<holder, index, edits, outside>>
      BY <1>16 DEF SaveLock, SaveFails, SaveUnsynced, fileVars
    <2> QED  BY <1>1, <1>2, <1>16, <2>1, SaveStep
  <1>17. ASSUME NEW p \in Writers, Publish(p) \/ PublishFails(p) \/ PublishUnsynced(p)
         PROVE  ProjectInv'
    <2>1. UNCHANGED <<holder, index, edits, outside>>
      BY <1>17 DEF Publish, PublishFails, PublishUnsynced
    <2>2. HolderStep(p) /\ Active(p) /\ manifest' \in Configs \cup {None} /\ lockfile' = lockfile
      BY <1>17, PublishStep
    <2>3. LockInv'  BY <1>1, <2>2 DEF LockInv
    <2> QED  BY <1>2, <2>1, <2>2, <2>3
  <1>18. ASSUME NEW p \in Writers, Rollback(p) \/ RollbackFails(p) PROVE ProjectInv'
    <2>1. UNCHANGED <<holder, index, edits, outside>>
      BY <1>18 DEF Rollback, RollbackFails
    <2> QED  BY <1>1, <1>2, <1>18, <2>1, RollbackStep
  <1>19. ASSUME NEW c \in Configs, Edit(c) PROVE ProjectInv'
    <2>1. /\ WriteOutside(c) /\ UNCHANGED <<lockfile, holder, index, job, pc>>
          /\ edits' = edits + 1 /\ edits < MaxEdits
      BY <1>19 DEF Edit
    <2>2. edits' \in 0..MaxEdits  BY <1>1, <2>1, BoundsAssumption
    <2> QED  BY <1>1, <1>5, <2>1, <2>2
  <1>20. ASSUME NEW r \in Refs, MoveTag(r) PROVE ProjectInv'
    <2>1. /\ UNCHANGED <<fileVars, holder, edits, pc, job, outside>>
          /\ tag' = [tag EXCEPT ![r] = @ + 1] /\ pushes' = pushes + 1 /\ pushes < MaxPushes
      BY <1>20 DEF MoveTag
    <2>2. tag' \in [Refs -> Nat]  BY <1>1, <2>1
    <2>3. pushes' \in 0..MaxPushes  BY <1>1, <2>1, BoundsAssumption
    <2>4. ProjectTypeOK'  BY <1>1, <1>3, <2>1, <2>2, <2>3 DEF ProjectTypeOK
    <2>5. Kept  BY <2>1, SameStep
    <2> QED  BY <1>3, <2>1, <2>4, <2>5 DEF ProjectInv
  <1>21. ASSUME UNCHANGED projectVars PROVE ProjectInv'
    <2>1. UNCHANGED <<fileVars, holder, tag, pushes, edits, pc, job, outside>>
      BY <1>21 DEF projectVars, index
    <2>2. ProjectTypeOK'  BY <1>1, <1>3, <2>1 DEF ProjectTypeOK
    <2>3. Kept  BY <2>1, SameStep
    <2> QED  BY <1>3, <2>1, <2>2, <2>3 DEF ProjectInv
  <1>22. ASSUME NEW p \in Writers, WriterStep(p) PROVE ProjectInv'
    BY <1>8, <1>10, <1>11, <1>12, <1>13, <1>14, <1>15, <1>16, <1>17, <1>18, <1>22 DEF WriterStep
  <1> QED
    BY <1>6, <1>7, <1>9, <1>19, <1>20, <1>21, <1>22 DEF ProjectNext

----------------------------------------------------------------------------
(* The theorems *)

\* A lock an earlier command left is good.
LEMMA LockOfOK ==
    ASSUME NEW c \in Configs, NEW v \in {3, 4}
    PROVE  LockOK(LockOf(c, v))
  <1> DEFINE e(b) == Entry(c.decl[b], IF v = 3 THEN None ELSE c.decl[b], <<c.decl[b], 0>>)
             lock == LockOf(c, v)
  <1>1. /\ lock.version = v /\ lock.hash = c.decl
        /\ lock.tools = [b \in Bindings |-> IF c.decl[b] = None THEN <<>> ELSE <<e(b)>>]
        /\ lock = [version |-> v, hash |-> c.decl, tools |-> lock.tools]
    BY DEF LockOf, DeclarationHash
  <1>2. ASSUME NEW b \in Bindings, c.decl[b] # None
        PROVE  /\ e(b) \in Entries /\ e(b).repository = RepoOf[c.decl[b]]
               /\ e(b).digest[1] = c.decl[b]
               /\ e(b).declared \in {None, c.decl[b]} /\ (v = 4 => e(b).declared = c.decl[b])
    <2>1. c.decl[b] \in Refs  BY <1>2, ConfigFacts
    <2> QED  BY <2>1 DEF Entry, Entries, Digests
  <1> HIDE DEF lock, e
  <1>3. ASSUME NEW b \in Bindings
        PROVE  /\ lock.tools[b] \in Seq(Entries)
               /\ (lock.tools[b] # <<>>) <=> (c.decl[b] # None)
               /\ \A i \in DOMAIN lock.tools[b] : c.decl[b] # None /\ lock.tools[b][i] = e(b)
    <2>1. CASE c.decl[b] = None
      <3>1. lock.tools[b] = <<>>  BY <1>1, <2>1
      <3> QED  BY <2>1, <3>1
    <2>2. CASE c.decl[b] # None
      <3>1. lock.tools[b] = <<e(b)>> /\ e(b) \in Entries  BY <1>1, <1>2, <2>2
      <3> QED  BY <2>2, <3>1
    <2> QED  BY <2>1, <2>2
  <1>4. lock \in Locks
    <2>1. lock.tools \in [Bindings -> Seq(Entries)]  BY <1>1, <1>3
    <2> QED  BY <2>1, <1>1, ConfigFacts DEF Locks
  <1>h. lock.hash = c.decl /\ lock.version = v  BY <1>1
  <1>5. LockFollowsHash(lock)
    <2> SUFFICES ASSUME NEW b \in Bindings PROVE EntriesFollow(lock.hash, lock.tools[b], b)
      BY DEF LockFollowsHash
    <2> QED  BY <1>h, <1>2, <1>3 DEF EntriesFollow
  <1>6. Spelled(lock)
    <2> SUFFICES ASSUME v = 4, NEW b \in Bindings, NEW i \in DOMAIN lock.tools[b]
                 PROVE  lock.tools[b][i].declared # None
      BY <1>h DEF Spelled
    <2> QED  BY <1>2, <1>3
  <1> QED  BY <1>4, <1>5, <1>6 DEF LockOK, lock

\* The initial states satisfy the invariant.
LEMMA InvInit == ProjectInit => ProjectInv
  <1> SUFFICES ASSUME ProjectInit PROVE ProjectInv
    OBVIOUS
  <1>1. manifest \in Configs \cup {None}  BY DEF ProjectInit
  <1>2. lockfile # None => LockOK(lockfile)
    <2> SUFFICES ASSUME lockfile # None PROVE LockOK(lockfile)
      OBVIOUS
    <2>1. manifest # None  BY DEF ProjectInit
    <2>2. manifest \in Configs  BY <1>1, <2>1
    <2>3. lockfile \in {LockOf(manifest, 3), LockOf(manifest, 4)}  BY <2>1 DEF ProjectInit
    <2> QED  BY <2>2, <2>3, LockOfOK
  <1>3. lockfile \in Locks \cup {None}  BY <1>2 DEF LockOK
  <1>4. NoJob \in Jobs  BY NoPinsType DEF NoJob, Jobs
  <1>5. pc \in [Writers -> PCs] /\ job \in [Writers -> Jobs] /\ outside \in [Writers -> BOOLEAN]
    BY <1>4 DEF ProjectInit, PCs
  <1>6. ProjectTypeOK  BY <1>1, <1>3, <1>5, BoundsAssumption DEF ProjectInit, ProjectTypeOK
  <1>7. \A p \in Writers : WriterInv(p)
    BY DEF ProjectInit, WriterInv, JobInv, FileInv, Active, Holding, ManifestKept, LockKept
  <1> QED  BY <1>2, <1>6, <1>7 DEF ProjectInv, LockInv

\* The invariant holds throughout.
THEOREM ProjectInvariant == ProjectSpec => []ProjectInv
  <1>1. ProjectInv /\ [ProjectNext]_projectVars => ProjectInv'  BY InvStep
  <1> QED  BY <1>1, InvInit, PTL DEF ProjectSpec

\* Every variable of the commands on a project keeps its type.
THEOREM ProjectTypeCorrect == ProjectSpec => []ProjectTypeOK
  <1>1. ProjectInv => ProjectTypeOK  BY DEF ProjectInv
  <1> QED  BY <1>1, ProjectInvariant, PTL

\* Every ocx.lock the commands leave behind pins what its own declaration hash
\* declares, whatever crashed, failed or was edited.
THEOREM LockSoundHolds == ProjectSpec => []LockSound
  <1>1. ProjectInv => LockSound  BY DEF ProjectInv, LockInv, LockOK, LockSound
  <1> QED  BY <1>1, ProjectInvariant, PTL

\* A good lock whose hash is c's is current for c.
LEMMA FollowsIsCurrent ==
    ASSUME NEW lock, LockOK(lock), NEW c, lock.hash = c.decl
    PROVE  IsCurrent(lock, c)
  <1> SUFFICES ASSUME NEW b \in Bindings, NEW i \in DOMAIN lock.tools[b]
               PROVE  c.decl[b] # None /\ RepoOf[c.decl[b]] = lock.tools[b][i].repository
    BY DEF IsCurrent, DeclarationHash
  <1>1. EntriesFollow(c.decl, lock.tools[b], b)  BY DEF LockOK, LockFollowsHash
  <1>2. lock.tools[b] \in Seq(Entries)  BY DEF LockOK, Locks
  <1>3. lock.tools[b] # <<>>  BY <1>2
  <1> QED  BY <1>1, <1>3 DEF EntriesFollow

\* A command that reports success leaves a pair of files every reader accepts,
\* or is set_activate or an `ocx add` with nothing to add (add.rs:137), and then
\* leaves the lock and the declaration, drifted or not, as it found them.
THEOREM SuccessIsCurrentHolds == ProjectSpec => []SuccessIsCurrent
  <1>1. ProjectInv => SuccessIsCurrent
    <2> SUFFICES ASSUME ProjectInv, NEW p \in Writers,
                        pc[p] = "end", job[p].end = "ok", ~outside[p]
                 PROVE  \/ lockfile # None /\ IsCurrent(lockfile, manifest)
                        \/ /\ job[p].kind \in {"readd", "activate"}
                           /\ lockfile = job[p].prev /\ manifest.decl = job[p].snap.decl
      BY DEF SuccessIsCurrent
    <2>1. CASE ~Idle(job[p])
      <3>1. lockfile # None /\ lockfile.hash = manifest.decl
        BY <2>1 DEF ProjectInv, WriterInv, FileInv
      <3>2. LockOK(lockfile)  BY <3>1 DEF ProjectInv, LockInv
      <3> QED  BY <3>1, <3>2, FollowsIsCurrent
    <2>2. CASE Idle(job[p])  BY <2>2 DEF ProjectInv, WriterInv, FileInv, Idle
    <2> QED  BY <2>1, <2>2
  <1> QED  BY <1>1, ProjectInvariant, PTL

\* A command that fails leaves ocx.toml and ocx.lock as it found them.
THEOREM FailureChangesNothingHolds == ProjectSpec => []FailureChangesNothing
  <1>1. ProjectInv => FailureChangesNothing
    BY DEF ProjectInv, WriterInv, FileInv, ManifestKept, LockKept, FailureChangesNothing
  <1> QED  BY <1>1, ProjectInvariant, PTL

\* No command writes over a manifest or a lock it has not read.
THEOREM NoLostUpdateHolds == ProjectSpec => NoLostUpdate
  <1> DEFINE Step == \A p \in Writers :
          /\ pc[p] = "publish" /\ manifest' # manifest /\ pc'[p] # "publish"
                => outside[p] \/ manifest = job[p].snap
          /\ pc[p] = "save" /\ lockfile' # lockfile => lockfile = job[p].prev
  <1>1. ProjectInv => Step
    BY DEF ProjectInv, WriterInv, FileInv, ManifestKept, LockKept
  <1>2. ProjectInv /\ [ProjectNext]_projectVars => [Step]_projectVars  BY <1>1
  <1>3. ProjectSpec => [][Step]_projectVars
    <2> HIDE DEF Step
    <2> QED  BY <1>2, ProjectInvariant, PTL DEF ProjectSpec
  <1> QED  BY <1>3 DEF NoLostUpdate, Step

\* From every pair of files the commands, their failures and an editor can
\* leave, `ocx lock` builds a lock that is good and current.
THEOREM ReconcileRepairsHolds == ProjectSpec => []ReconcileRepairs
  <1>1. ProjectInv => ReconcileRepairs
    <2> SUFFICES ASSUME ProjectInv, manifest # None PROVE ReconcileRepairs
      BY DEF ReconcileRepairs
    <2> DEFINE work == ReconcileWork(manifest, lockfile, {})
               adopting == Adopting(manifest, lockfile, {})
               pins == [b \in work |-> Digest(manifest.decl[b])]
               new == NewLock(manifest, lockfile, work, adopting, pins)
    <2>1. manifest \in Configs /\ (lockfile # None => LockOK(lockfile)) /\ tag \in [Refs -> Nat]
      BY DEF ProjectInv, ProjectTypeOK, LockInv
    <2>2. Carry(manifest, lockfile, work, adopting)  BY <2>1, ReconcileCarries
    <2>3. Answered(manifest, work, pins)
      <3> HIDE DEF work
      <3>1. \A b \in work : manifest.decl[b] \in Refs
        BY <2>1, <2>2, ConfigFacts DEF Carry, Declared
      <3>2. \A b \in work : pins[b] \in Digests /\ pins[b][1] = manifest.decl[b]
        BY <2>1, <3>1 DEF Digest, Digests
      <3> QED  BY <3>2 DEF Answered
    <2> HIDE DEF work, adopting, pins
    <2>4. LockOK(new) /\ new.hash = manifest.decl /\ IsCurrent(new, manifest)
      BY <2>1, <2>2, <2>3, NewLockOK, Zenon
    <2>5. LockFollowsHash(new) /\ IsCurrent(new, manifest)  BY <2>4 DEF LockOK
    <2> QED  BY <2>5 DEF ReconcileRepairs, new, work, adopting, pins
  <1> QED  BY <1>1, ProjectInvariant, PTL

\* Appending one entry to another gives two, the first in front.
LEMMA TwoEntries ==
    ASSUME NEW S, NEW x \in Seq(S), NEW y \in Seq(S), NEW e, Len(x) = 1, Len(y) = 1, x[1] = e
    PROVE  x \o y \in Seq(S) /\ Len(x \o y) = 2 /\ (x \o y)[1] = e
<1>1. x \o y \in Seq(S)  BY ConcatProperties, Zenon
<1>2. Len(x \o y) = Len(x) + Len(y)  BY ConcatProperties, Zenon
<1>3. \A i \in 1 .. Len(x) + Len(y) : (x \o y)[i] = IF i <= Len(x) THEN x[i] ELSE y[i - Len(x)]
  BY ConcatProperties, Zenon
<1>4. (x \o y)[1] = e  BY <1>3
<1> QED  BY <1>1, <1>2, <1>4

\* The first entry of a resolved binding holds the digest it was resolved to.
LEMMA ResolvedHead ==
    ASSUME NEW c, NEW prev, NEW work, NEW adopting, NEW pins, NEW b \in Bindings, b \in work,
           NEW a, a = IF b \in Copying(c, work) THEN Source(b) ELSE b
    PROVE  Head(NewLock(c, prev, work, adopting, pins).tools[b]).digest = pins[a]
  <1> DEFINE e == Entry(c.decl[a], c.decl[a], pins[a])
             f == Find(prev, Source(b))
             r == Resolved(c, prev, work, adopting, pins)
             tools == MergeCarryForward(prev, r, c)
  <1>1. r[b] = <<e>> \o (IF b \notin adopting THEN <<>> ELSE <<f>>)  BY DEF Resolved
  <1>2. e.digest = pins[a] /\ e = [repository |-> RepoOf[c.decl[a]],
                                   declared |-> c.decl[a], digest |-> pins[a]]
    BY DEF Entry
  <1>3. tools[b] = IF r[b] # <<>> THEN r[b]
                   ELSE IF prev # None /\ c.decl[b] # None THEN prev.tools[b] ELSE <<>>
    BY DEF MergeCarryForward
  <1>4. NewLock(c, prev, work, adopting, pins).tools[b]
          = [i \in DOMAIN tools[b] |-> [tools[b][i] EXCEPT !.declared = c.decl[b]]]
    BY DEF NewLock, BuildLock
  <1> HIDE DEF e, f, r, tools
  <1>5. r[b] \in Seq({e, f}) /\ r[b] # <<>> /\ r[b][1] = e /\ Len(r[b]) \in {1, 2}
    <2>1. CASE b \in adopting
      <3> DEFINE S == {e, f}
                 x == <<e>>
                 y == <<f>>
      <3>1. r[b] = x \o y  BY <1>1, <2>1
      <3>2. x \in Seq(S) /\ y \in Seq(S) /\ Len(x) = 1 /\ Len(y) = 1 /\ x[1] = e  OBVIOUS
      <3> HIDE DEF S, x, y
      <3>3. x \o y \in Seq(S) /\ Len(x \o y) = 2 /\ (x \o y)[1] = e
        BY <3>2, TwoEntries
      <3>4. x \o y # <<>>  BY <3>3
      <3> QED  BY <3>1, <3>3, <3>4 DEF S
    <2>2. CASE b \notin adopting
      <3>1. r[b] = <<e>>  BY <1>1, <2>2
      <3> QED  BY <3>1
    <2> QED  BY <2>1, <2>2
  <1>6. tools[b] = r[b]  BY <1>3, <1>5
  <1> DEFINE n == [i \in DOMAIN tools[b] |-> [tools[b][i] EXCEPT !.declared = c.decl[b]]]
  <1>7. DOMAIN tools[b] = 1..Len(r[b]) /\ 1 \in DOMAIN tools[b]  BY <1>5, <1>6
  <1>8. n[1] = [e EXCEPT !.declared = c.decl[b]]  BY <1>5, <1>6, <1>7
  <1>9. n[1].digest = pins[a]  BY <1>2, <1>8
  <1>10. Head(n) = n[1]
    <2> HIDE DEF n
    <2> QED  OBVIOUS
  <1> QED  BY <1>4, <1>9, <1>10

\* A follower that resolves together with its source gets its source's digest.
THEOREM SharedPinHolds == ProjectSpec => []SharedPin
  <1>1. ProjectInv => SharedPin
    <2> SUFFICES ASSUME ProjectInv, NEW p \in Writers, pc[p] = "save",
                        NEW b \in job[p].cand.follows \cap job[p].work,
                        Source(b) \in job[p].work
                 PROVE  Head(Built(p).tools[b]).digest = Head(Built(p).tools[Source(b)]).digest
      BY DEF SharedPin
    <2>1. job[p].cand \in Configs  BY DEF ProjectInv, WriterInv, JobInv
    <2>2. /\ b \in Bindings /\ Source(b) \in Bindings /\ Source(b) \notin job[p].cand.follows
      BY <2>1, ConfigFacts, SourceFacts
    <2>3. b \in Copying(job[p].cand, job[p].work) /\ Source(b) \notin Copying(job[p].cand, job[p].work)
      BY <2>2 DEF Copying
    <2>4. Head(Built(p).tools[b]).digest = job[p].pins[Source(b)]
      BY <2>2, <2>3, ResolvedHead DEF Built
    <2>5. Head(Built(p).tools[Source(b)]).digest = job[p].pins[Source(b)]
      BY <2>2, <2>3, ResolvedHead DEF Built
    <2> QED  BY <2>4, <2>5
  <1> QED  BY <1>1, ProjectInvariant, PTL
================================================================================
