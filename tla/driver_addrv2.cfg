\* The addrv2 target with Btcd loaded: what its exemption may hide.
SPECIFICATION Spec
CONSTANTS
    Names <- AddrV2Names
    Order <- AddrV2Order
    Bodies <- MCBodies
    TargetSet <- AddrV2Targets
    Inputs <- AddrV2Inputs
    MaxRuns = 2
INVARIANTS
    ForgivesOnlyNearBtcd
CHECK_DEADLOCK FALSE
