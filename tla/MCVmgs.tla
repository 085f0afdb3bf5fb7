------------------------------- MODULE MCVmgs -------------------------------
(* An instance of Vmgs for TLC, with bounds on its requests and faults. *)
EXTENDS VmgsAllocation

CONSTANTS f1, f2, small, large, k1, k2, MaxRequests, MaxFaults

VARIABLES requests, faults

MCFiles == {f1, f2}
MCValues == {small, large}
MCSize == [v \in MCValues |-> IF v = small THEN 1 ELSE 2]
MCKeys == {k1, k2}
MCMetaKeys == 1 .. 8
Symmetry == Permutations(MCFiles) \cup Permutations(MCKeys)

MCInit == Init /\ requests = 0 /\ faults = 0

MCNext ==
    \/ requests < MaxRequests /\ Request /\ requests' = requests + 1 /\ UNCHANGED faults
    \/ faults < MaxFaults /\ Fault /\ faults' = faults + 1 /\ UNCHANGED requests
    \/ (Access \/ DiskRequest) /\ UNCHANGED <<requests, faults>>

MCSpec == MCInit /\ [][MCNext]_<<vars, requests, faults>>
=============================================================================
