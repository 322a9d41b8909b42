\* The comment on the exemption, against what the loop does.
SPECIFICATION Spec
CONSTANTS
    Names <- AddrV2Names
    Order <- AddrV2Order
    Bodies <- MCBodies
    TargetSet <- AddrV2Targets
    Inputs <- AddrV2Inputs
    MaxRuns = 1
INVARIANTS
    OthersNeverForgiven
CHECK_DEADLOCK FALSE
