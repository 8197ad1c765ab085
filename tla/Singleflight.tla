------------------------------ MODULE Singleflight ------------------------------
(***************************************************************************)
(* ocx_util::singleflight: groups of keyed in-flight work.  The first task *)
(* to ask for a key leads; tasks that ask while it works wait on its watch *)
(* channel; a success stays cached, and a failed entry is led again by the *)
(* next task that asks, while those waiting on the old channel still get   *)
(* the old error.                                                          *)
(*                                                                         *)
(* A task asks for one key and leads at most once, so the leading task     *)
(* stands for the channel that lead() creates.                             *)
(***************************************************************************)
EXTENDS Naturals, FiniteSets

CONSTANTS
    Tasks,
    NoTask,
    Keys,
    KeyOf,          \* KeyOf[t]: the key t asks for
    Groups,
    GroupOf,        \* GroupOf[k]: the group whose entries k belongs to
    MaxEntries      \* MaxEntries[g]: the capacity of group g

ASSUME NoTaskAssumption == NoTask \notin Tasks
ASSUME KeysAssumption == KeyOf \in [Tasks -> Keys] /\ GroupOf \in [Keys -> Groups]
ASSUME MaxEntriesAssumption == MaxEntries \in [Groups -> Nat \ {0}]

VARIABLES
    entry,      \* entry[k]: the task whose channel the entry of k holds
    channel,    \* channel[t]: what t's channel holds ("none": t never led)
    on          \* on[t]: the leader t waits for, or NoTask

sfVars == <<entry, channel, on>>

Errors == {"failed", "abandoned"}
Answers == {"ok"} \cup Errors

SfInit ==
    /\ entry = [k \in Keys |-> NoTask]
    /\ channel = [t \in Tasks |-> "none"]
    /\ on = [t \in Tasks |-> NoTask]

Slot(t) == entry[KeyOf[t]]
Leading(t) == channel[t] = "pending"
InFlight(g) == {k \in Keys : GroupOf[k] = g /\ entry[k] # NoTask}
Full(t) == LET g == GroupOf[KeyOf[t]] IN Cardinality(InFlight(g)) >= MaxEntries[g]

----------------------------------------------------------------------------
(* try_acquire, under the entries mutex *)

\* Faulty variant: a success is not kept.
LeadAgain(t) ==
    /\ channel[t] = "none"
    /\ \/ Slot(t) = NoTask /\ ~Full(t)
       \/ Slot(t) # NoTask /\ channel[Slot(t)] # "pending"
    /\ entry' = [entry EXCEPT ![KeyOf[t]] = t]
    /\ channel' = [channel EXCEPT ![t] = "pending"]
    /\ UNCHANGED on

\* No entry, or one that failed: a failed one is replaced in place, whatever
\* the capacity.
Lead(t) ==
    /\ channel[t] = "none"
    /\ \/ Slot(t) = NoTask /\ ~Full(t)
       \/ Slot(t) # NoTask /\ channel[Slot(t)] \in Errors
    /\ entry' = [entry EXCEPT ![KeyOf[t]] = t]
    /\ channel' = [channel EXCEPT ![t] = "pending"]
    /\ UNCHANGED on

CapacityExceeded(t) ==
    /\ Slot(t) = NoTask /\ Full(t)
    /\ UNCHANGED sfVars

Resolved(t) ==
    /\ Slot(t) # NoTask /\ channel[Slot(t)] = "ok"
    /\ UNCHANGED sfVars

Join(t) ==
    /\ Slot(t) # NoTask /\ channel[Slot(t)] = "pending"
    /\ on' = [on EXCEPT ![t] = Slot(t)]
    /\ UNCHANGED <<entry, channel>>

----------------------------------------------------------------------------
(* After the mutex *)

\* wait_for sees an answer.
Wake(t, a) ==
    /\ on[t] # NoTask
    /\ a \in Answers /\ channel[on[t]] = a
    /\ on' = [on EXCEPT ![t] = NoTask]
    /\ UNCHANGED <<entry, channel>>

\* The wait times out, or the waiting task is dropped.
StopWaiting(t) ==
    /\ on[t] # NoTask
    /\ on' = [on EXCEPT ![t] = NoTask]
    /\ UNCHANGED <<entry, channel>>

\* Handle::complete, Handle::fail, or the handle dropped without either.
Settle(t, a) ==
    /\ Leading(t)
    /\ a \in Answers
    /\ channel' = [channel EXCEPT ![t] = a]
    /\ UNCHANGED <<entry, on>>

----------------------------------------------------------------------------
(* Properties *)

\* Every variable keeps its type.
SfTypeOK ==
    /\ entry \in [Keys -> Tasks \cup {NoTask}]
    /\ channel \in [Tasks -> {"none", "pending"} \cup Answers]
    /\ on \in [Tasks -> Tasks \cup {NoTask}]

\* The tasks that work on their key or have succeeded.
Flown == {t \in Tasks : channel[t] \in {"pending", "ok"}}

\* At most one task works on a key at any time, and none starts once one has
\* succeeded, although failed and abandoned entries are led again (Group::lead).
OneFlight == \A t, u \in Flown : KeyOf[t] = KeyOf[u] => t = u
================================================================================
