--------------------------- MODULE MCFailoverTask ---------------------------
(* Instances of FailoverTask for TLC.  Devices, items and requests are
   interchangeable in the module and in the properties checked with the
   symmetry; liveness is checked without it. *)
EXTENDS FailoverTask, TLC

Symmetry ==
  Permutations(Devices) \cup Permutations(Addresses) \cup Permutations(Requests)
=============================================================================
