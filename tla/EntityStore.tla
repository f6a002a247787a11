----------------------------- MODULE EntityStore -----------------------------
(***************************************************************************)
(* What the game servers can rely on: one value per entity, written by     *)
(* whoever holds the entity, and loads that return the value last written  *)
(* until it is reported to be in the database.  From then on a load may    *)
(* also bring what the database has, or fail.                              *)
(***************************************************************************)
CONSTANTS Guid, Value, NoValue

VARIABLES store,     \* the value of each entity
          reported,  \* the value last reported to be in the database
          answer     \* the last answer to a load: an entity and its value

vars == <<store, reported, answer>>

Init ==
  /\ store \in [Guid -> Value \cup {NoValue}]
  /\ reported = store
  /\ answer = <<NoValue, NoValue>>

(* New, update and flush. *)
Write(g, v) ==
  /\ store' = [store EXCEPT ![g] = v]
  /\ UNCHANGED <<reported, answer>>

Remove(g) ==
  /\ store' = [store EXCEPT ![g] = NoValue]
  /\ UNCHANGED <<reported, answer>>

Report(g, v) ==
  /\ reported' = [reported EXCEPT ![g] = v]
  /\ UNCHANGED <<store, answer>>

(* Only an entity that exists is loaded. *)
Load(g, v) ==
  /\ store[g] # NoValue
  /\ v = store[g] \/ reported[g] = store[g]
  /\ answer' = <<g, v>>
  /\ UNCHANGED <<store, reported>>

Next ==
  \E g \in Guid :
    \/ \E v \in Value : Write(g, v) \/ Report(g, v)
    \/ Remove(g)
    \/ \E v \in Value \cup {NoValue} : Load(g, v)

Spec == Init /\ [][Next]_vars

=============================================================================
