-------------------------- MODULE MCForwardSession --------------------------
(* Instances of ForwardSession for TLC. *)
EXTENDS ForwardSession, TLC

\* Connections are interchangeable; devices are not, SetToSeq orders them.
Symmetry == Permutations(Conns)

\* The connections of an instance suffice: the model never blocks for one.
ConnsSuffice == \A d \in Devices : NextLine(d) => Unused(Held) # {}
=============================================================================
