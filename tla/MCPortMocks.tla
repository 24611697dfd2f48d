----------------------------- MODULE MCPortMocks -----------------------------
(***************************************************************************)
(* Instances of PortMocks for TLC.                                         *)
(***************************************************************************)
EXTENDS PortMocks, TLC

\* No action or property orders or names a thread or a busid.
Interchangeable == Permutations(Threads) \cup Permutations(BusIds)
=============================================================================
