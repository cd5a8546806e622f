CONSTANTS
    Calls <- MCCalls
    CallSite <- MCCallSite
    AllocInst <- MCAllocInst
    Huge = {3}
    Freed = {0}
    MaxDepth = 3
    MaxBlocks = 4
    MaxReq = 1
    MaxObjs = 3
SPECIFICATION Spec
INVARIANTS TypeOK SameCallSameObject
