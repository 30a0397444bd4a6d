-------------------------- MODULE MCModelDelivery --------------------------
(* Instances of ModelDelivery for TLC: each content has a schema of its    *)
(* own, so that contents and deliveries are interchangeable.               *)
EXTENDS ModelDelivery, TLC

CONSTANTS d1, d2, a1, x, y

MCSchemaOf == [z \in Content |-> z]
Symmetry == Permutations({d1, d2}) \cup Permutations({x, y})
=============================================================================
