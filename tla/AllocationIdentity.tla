------------------------- MODULE AllocationIdentity -------------------------
(***************************************************************************)
(* Allocation identity under recovery (Executor.cpp: onExecuteAlloc,       *)
(* bindAll, unbindAll, executeFree, startRecoveryState,                    *)
(* onRecoveryStateExit, notifyDependentState).                             *)
(*                                                                         *)
(* One normal state (level 0) has skipped the calls in Calls, one snapshot *)
(* each, numbered in the order they were skipped.  A may-blocking load of  *)
(* the state at the top of the chain asks for the recovery of some earlier *)
(* snapshots; they run one at a time, each a recovery state stacked on the *)
(* state that issued the load.  The skipped function allocates one object  *)
(* with malloc (and may free it again before it returns).  A recovery      *)
(* state re-executing that malloc looks its allocation context up in the   *)
(* guiding record it was given, and on a miss allocates and records.       *)
(*                                                                         *)
(* Only objects allocated by recoveries are tracked in the address spaces; *)
(* everything else a state holds is left out.                              *)
(***************************************************************************)
EXTENDS Naturals, Sequences, SequencesExt, FiniteSets, TLC

CONSTANTS
    Calls,      \* snapshot indices 0..n-1 of the skipped calls
    CallSite,   \* CallSite[k]: the call trace at the k-th skipped call
    AllocInst,  \* AllocInst[k]: the malloc instruction the callee executes
    Huge,       \* calls whose malloc size is >= HUGE_ALLOC_SIZE
    Freed,      \* calls whose callee frees its object before returning
    MaxDepth,   \* bound: recovery states stacked on the normal state
    MaxBlocks,  \* bound: may-blocking loads that start recoveries
    MaxReq,     \* bound: recovery infos one load may need
    MaxObjs     \* MemoryObjects a run may need: one per non-huge call

Null == 0
Objs == 1..MaxObjs
Levels == 0..MaxDepth

VARIABLES
    chain,   \* chain[i]: the recovery state at level i (level 0 is the normal state)
    rec,     \* rec[l]: allocationRecord of the state at level l
    pend,    \* pend[l]: pendingRecoveryInfos of the state at level l (snapshot indices)
    bound,   \* bound[l]: recovery-allocated objects bound in level l's address space
    nextObj, \* the next MemoryObject memory->allocate returns
    blocks,  \* may-blocking loads so far
    objOf    \* history: objOf[k] = every object a recovery of call k obtained

vars == <<chain, rec, pend, bound, nextObj, blocks, objOf>>

ContextInstOnly(k) == AllocInst[k]
(* ASContext(cloner, callTrace, allocInst): the call trace and the alloc   *)
(* instruction, as spec.md describes it.                                   *)
ContextOf(k) == <<CallSite[k], AllocInst[k]>>

Contexts == {ContextOf(k) : k \in Calls}
Records == UNION {[D -> Objs \cup {Null}] : D \in SUBSET Contexts}
EmptyRecord == [c \in {} |-> Null]
Frame == [snap : Calls, guide : Records, mo : Objs \cup {Null},
          pc : {"pre", "post", "freed"}]

Top == Len(chain)

(* A recovery state created from snapshot 0 is RECOVERY_STATE only; any    *)
(* other is NORMAL_STATE | RECOVERY_STATE.                                  *)
IsNormalAt(l) == l = 0 \/ chain[l].snap > 0

(* The snapshots a state at level l holds: all of them for the normal      *)
(* state; for a recovery state those before its own index (the loop of    *)
(* getAllRecoveryInfo breaks at it).                                       *)
SnapsAt(l) == IF l = 0 THEN Calls ELSE {k \in Calls : k < chain[l].snap}

(* startRecoveryState(state, ri) for the state at level l: the snapshot is *)
(* cloned, an NR state takes a copy of the dependent's allocationRecord,   *)
(* and the guiding record is the dependent's allocationRecord.  A state of *)
(* type RECOVERY_STATE keeps the snapshot's record, which is never read.   *)
StartRecoveryState(l, k) ==
    /\ chain' = Append(SubSeq(chain, 1, l), [snap |-> k, guide |-> rec[l],
                                             mo |-> Null, pc |-> "pre"])
    /\ rec' = [rec EXCEPT ![l + 1] = IF k > 0 THEN rec[l] ELSE EmptyRecord]
    /\ bound' = [bound EXCEPT ![l + 1] = {}]

(* handleMayBlockingLoad: getAllRecoveryInfo pushes the non-cached infos   *)
(* to the front of the pending list in ascending snapshot order; the head  *)
(* is popped and its recovery started, and the state is suspended.         *)
HandleMayBlockingLoad ==
    /\ blocks < MaxBlocks
    /\ Top < MaxDepth
    /\ \E req \in SUBSET SnapsAt(Top) :
         /\ req # {}
         /\ Cardinality(req) <= MaxReq
         /\ LET q == SetToSortSeq(req, <) IN
            /\ StartRecoveryState(Top, Head(q))
            /\ pend' = [pend EXCEPT ![Top] = Tail(q) \o @]
    /\ blocks' = blocks + 1
    /\ UNCHANGED <<nextObj, objOf>>

(* bindAll(dependentState, mo): bind mo in the dependent state and, while  *)
(* the state is a recovery state, in its dependent, down to level 0.       *)
BindAllOneLevel(b, t, mo) == [l \in Levels |-> IF l = t - 1 THEN b[l] \cup {mo} ELSE b[l]]
BindAll(b, t, mo) == [l \in Levels |-> IF l < t THEN b[l] \cup {mo} ELSE b[l]]

(* unbindAll(dependentState, mo), the same walk removing mo.               *)
UnbindAll(b, t, mo) == [l \in Levels |-> IF l < t THEN b[l] \ {mo} ELSE b[l]]

(* bindObjectInState(state, mo): mo is bound in the state's own address  *)
(* space.                                                                  *)
BindObjectInState(b, t, mo) == [b EXCEPT ![t] = @ \cup {mo}]

(* resolveExact(state, p): the pointer is resolved in the state's address *)
(* space; the state goes on with each object it may point to, and a      *)
(* pointer that resolves to none ends it with an invalid-pointer error.   *)
ResolveExact(b, t, mo) == mo \in b[t]

SmallAlways(k) == TRUE
(* executeAlloc's size test: sizes from HUGE_ALLOC_SIZE on get NULL.       *)
Small(k) == k \notin Huge

AllocNoGuide(f, c) == FALSE
(* The guiding-record lookup of onExecuteAlloc.                            *)
GuideHit(f, c) == c \in DOMAIN f.guide

(* executeAlloc in a recovery state, for the callee's malloc: onExecuteAlloc*)
(* reuses the guided object on a hit; on a miss it allocates (NULL for a   *)
(* huge size) and records the object in the dependent's allocationRecord   *)
(* and, for an NR state, in its own.  A non-NULL object is bound in the    *)
(* dependent chain (bindAll) and in the state itself (bindObjectInState).  *)
OnExecuteAlloc ==
    /\ Top > 0
    /\ chain[Top].pc = "pre"
    /\ LET f   == chain[Top]
           c   == ContextOf(f.snap)
           hit == GuideHit(f, c)
           new == ~hit /\ Small(f.snap)
           mo  == CASE hit -> f.guide[c] [] new -> nextObj [] OTHER -> Null
       IN /\ chain' = [chain EXCEPT ![Top].mo = mo, ![Top].pc = "post"]
          /\ rec' = IF hit THEN rec
                    ELSE [l \in Levels |->
                            IF l = Top - 1 \/ (l = Top /\ IsNormalAt(Top))
                            THEN (c :> mo) @@ rec[l] ELSE rec[l]]
          /\ bound' = IF mo = Null THEN bound
                      ELSE BindObjectInState(BindAll(bound, Top, mo), Top, mo)
          /\ nextObj' = IF new THEN nextObj + 1 ELSE nextObj
          /\ objOf' = [objOf EXCEPT ![f.snap] = @ \cup {mo}]
    /\ UNCHANGED <<pend, blocks>>

(* executeFree in a recovery state: the object is unbound in the state and *)
(* (onExecuteFree) in its whole dependent chain.                           *)
ExecuteFree ==
    /\ Top > 0
    /\ chain[Top].pc = "post"
    /\ chain[Top].snap \in Freed
    /\ chain[Top].mo # Null
    /\ ResolveExact(bound, Top, chain[Top].mo)
    /\ bound' = [UnbindAll(bound, Top, chain[Top].mo) EXCEPT ![Top] = @ \ {chain[Top].mo}]
    /\ chain' = [chain EXCEPT ![Top].pc = "freed"]
    /\ UNCHANGED <<rec, pend, nextObj, blocks, objOf>>

(* The callee has returned: the recovery state is at its exit instruction. *)
AtExit(f) == \/ f.pc = "freed"
             \/ f.pc = "post" /\ (f.snap \notin Freed \/ f.mo = Null)

(* notifyDependentState: an NR recovery state hands its allocationRecord   *)
(* to its dependent, which is resumed.                                     *)
NotifyDependentState(t) ==
    /\ rec' = [rec EXCEPT ![t - 1] = IF IsNormalAt(t) THEN rec[t] ELSE @,
                          ![t] = EmptyRecord]
    /\ chain' = SubSeq(chain, 1, t - 1)
    /\ bound' = [bound EXCEPT ![t] = {}]
    /\ UNCHANGED pend

(* onRecoveryStateExit: if the dependent has pending recovery infos, the   *)
(* next one is popped and started for it; otherwise the dependent is       *)
(* notified.  The recovery state is then terminated.                       *)
OnRecoveryStateExit ==
    /\ Top > 0
    /\ AtExit(chain[Top])
    /\ LET d == Top - 1 IN
       IF pend[d] # <<>>
       THEN /\ StartRecoveryState(d, Head(pend[d]))
            /\ pend' = [pend EXCEPT ![d] = Tail(@)]
       ELSE NotifyDependentState(Top)
    /\ UNCHANGED <<nextObj, blocks, objOf>>

(* The normal state runs on once it has no more may-blocking loads.        *)
Finished ==
    /\ Top = 0
    /\ blocks = MaxBlocks
    /\ UNCHANGED vars

Init ==
    /\ chain = <<>>
    /\ rec = [l \in Levels |-> EmptyRecord]
    /\ pend = [l \in Levels |-> <<>>]
    /\ bound = [l \in Levels |-> {}]
    /\ nextObj = 1
    /\ blocks = 0
    /\ objOf = [k \in Calls |-> {}]

Next ==
    \/ HandleMayBlockingLoad
    \/ OnExecuteAlloc
    \/ ExecuteFree
    \/ OnRecoveryStateExit
    \/ Finished

Spec == Init /\ [][Next]_vars

-----------------------------------------------------------------------------

(* Types; with MaxObjs the number of calls of small size, nextObj in     *)
(* range also says the allocator is asked once per such call at most.     *)
TypeOK ==
    /\ chain \in Seq(Frame) /\ Len(chain) <= MaxDepth
    /\ rec \in [Levels -> Records]
    /\ pend \in [Levels -> Seq(Calls)]
    /\ bound \in [Levels -> SUBSET Objs]
    /\ nextObj \in 1..MaxObjs + 1
    /\ objOf \in [Calls -> SUBSET (Objs \cup {Null})]

(* Re-executing a skipped call yields the object its first re-execution   *)
(* got (spec.md: "so allocations reuse identical MemoryObjects"): across  *)
(* every recovery of call k, onExecuteAlloc returned one object.          *)
SameCallSameObject ==
    \A k \in Calls : Cardinality(objOf[k]) <= 1

(* Two different skipped calls allocate two different objects, as they do *)
(* when the calls are executed eagerly.                                    *)
DistinctCallsDistinctObjects ==
    \A j, k \in Calls : j # k => objOf[j] \cap objOf[k] \subseteq {Null}

(* Every recovery-allocated object bound in a recovery state is bound in   *)
(* each state of its dependent chain: bindAll walks the whole chain, so    *)
(* the normal state sees what a nested recovery allocated.                 *)
DependentsSeeAllocations ==
    \A l \in 1..Top : bound[l] \subseteq bound[l - 1]

=============================================================================
