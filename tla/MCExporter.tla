------------------------------ MODULE MCExporter ------------------------------
(* Instances of Exporter for TLC: which sockets are held, and symmetry. *)
EXTENDS Exporter, TLC

\* Devices, and the connections that linger, are interchangeable (safety runs).
Symmetry == Permutations(Devices) \cup Permutations(Holders \ NoLinger)
=============================================================================
