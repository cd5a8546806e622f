CONSTANTS
    Calls <- MCCalls
    CallSite <- MCCallSite
    AllocInst <- MCAllocInst
    Huge = {3}
    Freed = {0}
    MaxDepth = 3
    MaxBlocks = 3
    MaxReq = 2
    MaxObjs = 3
SPECIFICATION Spec
INVARIANT SameCallSameObject
