--------------------------------- MODULE MCHub ---------------------------------
(* Small instances of Hub for TLC: a browser or two of one tenant, positions  *)
(* of that tenant and alerts of another.                                      *)
EXTENDS Hub, TLC

CONSTANTS c1, c2, A, B, d1

OneClient    == (c1 :> A)
TwoOfATenant == (c1 :> A) @@ (c2 :> A)

PositionsOfA == {[kind |-> "position", company |-> A, device |-> d1]}
MixedEvents  == {[kind |-> "position", company |-> A, device |-> d1],
                 [kind |-> "alert", company |-> B, device |-> NoDevice]}

\* browsers of one tenant are interchangeable
SameTenant == Permutations({c1, c2})
================================================================================
