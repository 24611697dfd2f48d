-------------------------- MODULE MCDeviceRegistry --------------------------
(***************************************************************************)
(* Instances of DeviceRegistry for TLC.                                    *)
(***************************************************************************)
EXTENDS DeviceRegistry, TLC

\* Buses, sessions, descriptors, handles and readers are interchangeable: no
\* action or property orders or names one.
Interchangeable ==
  Permutations(BusIds) \cup Permutations(SessionIds) \cup Permutations(Descriptors)
    \cup Permutations(Handles) \cup Permutations(Readers)
=============================================================================
