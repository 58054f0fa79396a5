--------------------------- MODULE KeyValueStore ---------------------------
(***************************************************************************)
(* What IStore promises (the remarks and the doc comments of               *)
(* src/FileStore.cs): "All operations are atomic".  An operation is called,*)
(* takes effect at one instant, and returns.  A Put that throws leaves     *)
(* either the old value or no value ("The file is deleted if an exception  *)
(* is encountered"), never anything else.                                  *)
(***************************************************************************)
CONSTANTS Keys, Values, Procs,
          Absent,      \* the store has no value for the key
          Ok, Error,   \* results: returned, and threw an exception
          None         \* no argument, no result yet

VARIABLES map,         \* [Keys -> Values \cup {Absent}]
          request,     \* the operation each process has called
          result       \* what it returned, None while it is in progress

vars == <<map, request, result>>

Kinds == {"none", "get", "exists", "put", "remove"}
Requests == [kind : Kinds, key : Keys \cup {None}, value : Values \cup {None}]
NoRequest == [kind |-> "none", key |-> None, value |-> None]
Results == Values \cup {Absent, Ok, Error, None, TRUE, FALSE}

Init == /\ map = [k \in Keys |-> Absent]
        /\ request = [p \in Procs |-> NoRequest]
        /\ result = [p \in Procs |-> None]

Call(p, r) == /\ request[p] = NoRequest /\ r \in Requests /\ r.kind # "none"
              /\ request' = [request EXCEPT ![p] = r]
              /\ UNCHANGED <<map, result>>

(* The instant at which the operation of p takes effect.                   *)
Effect(p) ==
  LET r == request[p] IN
  /\ r.kind # "none" /\ result[p] = None
  /\ \/ /\ r.kind = "get"
        /\ result' = [result EXCEPT ![p] = map[r.key]]
        /\ map' = map
     \/ /\ r.kind = "exists"
        /\ result' = [result EXCEPT ![p] = (map[r.key] # Absent)]
        /\ map' = map
     \/ /\ r.kind = "put"
        /\ result' = [result EXCEPT ![p] = Ok]
        /\ map' = [map EXCEPT ![r.key] = r.value]
     \/ /\ r.kind = "put"
        /\ result' = [result EXCEPT ![p] = Error]
        /\ map' = [map EXCEPT ![r.key] = Absent]
     \/ /\ r.kind = "remove"
        /\ result' = [result EXCEPT ![p] = Ok]
        /\ map' = [map EXCEPT ![r.key] = Absent]
     \/ /\ result' = [result EXCEPT ![p] = Error]
        /\ map' = map
  /\ request' = request

Return(p) == /\ result[p] # None
             /\ request' = [request EXCEPT ![p] = NoRequest]
             /\ result' = [result EXCEPT ![p] = None]
             /\ map' = map

Next == \E p \in Procs : (\E r \in Requests : Call(p, r)) \/ Effect(p) \/ Return(p)

Spec == Init /\ [][Next]_vars
=============================================================================
