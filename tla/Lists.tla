-------------------------------- MODULE Lists --------------------------------
(***************************************************************************)
(* Python's list comprehensions with a condition, its sort() of a list and *)
(* update() of a dictionary, by what they give rather than how they go     *)
(* about it.                                                               *)
(***************************************************************************)
EXTENDS Integers, FiniteSets

\* The k-th of a set of places.
PlaceIn(places, k) ==
  CHOOSE n \in places : Cardinality({m \in places : m <= n}) = k

\* What a list has at these places, in its order.
ElementsAt(list, places) ==
  LET ranked == {<<Cardinality({m \in places : m <= n}), n>> : n \in places}
  IN  [k \in 1..Cardinality(places) |-> list[CHOOSE n \in places : <<k, n>> \in ranked]]

\* The place of an element in the list sorted by a key of each: equal keys keep their order.
SortedPlace(key, n) ==
  Cardinality({m \in DOMAIN key : key[m] < key[n] \/ (key[m] = key[n] /\ m <= n)})

SortedBy(list, key) ==
  [k \in DOMAIN list |-> list[CHOOSE n \in DOMAIN list : SortedPlace(key, n) = k]]

\* A dictionary updated with another.
Updated(old, new) ==
  [x \in DOMAIN new \cup DOMAIN old |-> IF x \in DOMAIN new THEN new[x] ELSE old[x]]
=============================================================================
