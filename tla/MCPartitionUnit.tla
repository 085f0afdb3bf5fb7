-------------------------- MODULE MCPartitionUnit ---------------------------
(* Instances of PartitionUnit for TLC. *)
EXTENDS PartitionUnit, TLC

VpSymmetry == Permutations(VPs)

DebugCalls == {"Start", "Stop", "ClearHalt"}
LiveCalls == {"Start", "Stop", "StopVps", "ClearHalt", "Teardown"}
RaceCalls == {"Start", "StopVpsAtIoBoundary"}

AllCalls == StateRequests \cup PartitionRequests \cup {"Teardown"}

NoHalts == {}
AllHalts == Reasons
OnlyHalt == {"Halt"}
=============================================================================
