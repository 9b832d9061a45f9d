--------------------------- MODULE StoreRequests ----------------------------
(* Requests to an object store and what it answers (internal/objstore/store.go, *)
(* errors.go).                                                                   *)
EXTENDS Naturals, FiniteSets

CONSTANTS
  Clients, Keys, Bodies, Limits, None,
  Tags    \* entity tags

NoObject == [body |-> None, tag |-> None]
NoAnswer == [status |-> "none", body |-> None, tag |-> None, keys |-> {}]
Error == [NoAnswer EXCEPT !.status = "error"]
NoRequest == [op |-> "none", key |-> None, body |-> None, tag |-> None, limit |-> 0]

Requests ==
  [op : {"get", "head"}, key : Keys, body : {None}, tag : {None}, limit : {0}]
    \cup [op : {"create"}, key : Keys, body : Bodies, tag : {None}, limit : {0}]
    \cup [op : {"cas"}, key : Keys, body : Bodies, tag : Tags \cup {None}, limit : {0}]
    \cup [op : {"list"}, key : {None}, body : {None}, tag : {None}, limit : Limits]

Existing(objs) == {k \in Keys : objs[k] # NoObject}

\* "shown" is what a listing of "found" cut to "limit" keys (0: no limit) shows.
Listing(shown, found, limit) ==
  /\ shown \subseteq found
  /\ \A a \in shown, b \in found \ shown : a < b
  /\ shown # found => limit > 0 /\ Cardinality(shown) = limit
  /\ limit > 0 => Cardinality(shown) <= limit

=============================================================================
