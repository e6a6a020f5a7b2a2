------------------------------- MODULE UrcMap -------------------------------
(***************************************************************************)
(* What the table of URC callbacks promises: a map from identifiers to     *)
(* callbacks, of bounded size.  While an identifier is being registered a  *)
(* URC of it may find anything; apart from that it finds the callback      *)
(* registered last, and registering or unregistering one identifier        *)
(* changes no other.                                                       *)
(***************************************************************************)
EXTENDS FiniteSets, Naturals

CONSTANTS Id, Callback, NULL, Capacity,
          EndCallback,  \* a callback that itself unregisters ...
          EndIds,       \* ... these identifiers
          Changing,     \* the identifier is being registered ...
          Cancelled     \* ... and a callback has unregistered it meanwhile

VARIABLES
  map,        \* identifier -> its callback, NULL, Changing or Cancelled
  subject,    \* the identifier of the main program's request
  requested,  \* the callback it asks for
  pending     \* callback found for the URC being received

Registering(id) == map[id] \in {Changing, Cancelled}
Full(id) == Cardinality({i \in Id \ {id} : map[i] # NULL}) >= Capacity

Init ==
  /\ map = [id \in Id |-> NULL]
  /\ subject \in Id
  /\ requested \in Callback
  /\ pending = NULL

(* The main program asks to register or to unregister an identifier.       *)
Request(id) ==
  /\ ~Registering(subject)
  /\ subject' = id
  /\ requested' \in Callback
  /\ map' \in {map, [map EXCEPT ![id] = Changing]}
  /\ UNCHANGED pending

(* A registration ends with the callback in the map; without it if the map *)
(* is full or a callback unregistered the identifier in between.           *)
FinishRegister ==
  /\ Registering(subject)
  /\ \/ map' = [map EXCEPT ![subject] = requested]
     \/ /\ Full(subject) \/ map[subject] = Cancelled
        /\ map' = [map EXCEPT ![subject] = NULL]
  /\ UNCHANGED <<subject, requested, pending>>

Unregister ==
  /\ ~Registering(subject)
  /\ map' = [map EXCEPT ![subject] = NULL]
  /\ UNCHANGED <<subject, requested, pending>>

(* A URC begins: the callback of its identifier is remembered.             *)
Match(id) ==
  /\ pending' \in IF Registering(id) THEN Callback ELSE {map[id]}
  /\ UNCHANGED <<map, subject, requested>>

(* It ends: the callback is called.                                        *)
Complete ==
  /\ pending' = NULL
  /\ IF pending = EndCallback
     THEN map' = [id \in Id |-> IF id \notin EndIds THEN map[id]
                                ELSE IF Registering(id) THEN Cancelled
                                ELSE NULL]
     ELSE UNCHANGED map
  /\ UNCHANGED <<subject, requested>>

(* ... or not, when it is too long.                                        *)
GiveUp == pending' = NULL /\ UNCHANGED <<map, subject, requested>>

Next ==
  \/ \E id \in Id : Request(id) \/ Match(id)
  \/ FinishRegister \/ Unregister
  \/ Complete \/ GiveUp

Spec == Init /\ [][Next]_<<map, subject, requested, pending>>
=============================================================================
