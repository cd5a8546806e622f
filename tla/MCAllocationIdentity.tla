------------------------ MODULE MCAllocationIdentity ------------------------
EXTENDS AllocationIdentity

MCCalls == 0..3

(* Calls 1 and 2 call the same function, so they run the same malloc.      *)
MCAllocInst == [k \in MCCalls |-> IF k = 2 THEN 1 ELSE k]

(* Every call is made from its own call site.                              *)
MCCallSite == [k \in MCCalls |-> k]

(* Calls 1 and 2 are two iterations of one loop: same call site.           *)
MCCallSiteLoop == [k \in MCCalls |-> IF k = 2 THEN 1 ELSE k]

=============================================================================
