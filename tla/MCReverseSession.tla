-------------------------- MODULE MCReverseSession --------------------------
(* Instances of ReverseSession for TLC. *)
EXTENDS ReverseSession, TLC

\* Connections are interchangeable; devices are not, SetToSeq orders them.
Symmetry == Permutations(Conns)

ConnsSuffice ==
  \A d \in Devices : lines # <<>> /\ Head(lines) = d /\ ppc = "read" => Unused(Held) # {}
=============================================================================
