--------------------------- MODULE MCResourceManager ---------------------------
(* Small instances of the pool manager: two pools, every kind of request.     *)
EXTENDS ResourceManager, TLC

CONSTANTS A, B

Units(a, b) == (A :> a) @@ (B :> b)

\* two ORs that prefer different pools, an AND, and a request for two units of a pool
MixedAlternatives ==
    "or"  :> <<Units(1, 0), Units(0, 1)>> @@
    "ro"  :> <<Units(0, 1), Units(1, 0)>> @@
    "and" :> <<Units(1, 1)>> @@
    "two" :> <<Units(2, 0)>>
MixedIds == DOMAIN MixedAlternatives
MixedCapacity == Units(2, 1)
\* pool A has two units, then one, then two again; B is constant
Shifts == (A :> [t \in 0 .. MaxTime |-> IF t = 1 THEN 1 ELSE 2]) @@
          (B :> [t \in 0 .. MaxTime |-> 1])
=============================================================================
