---------------------------- MODULE RecoveryEngine ----------------------------
(***************************************************************************)
(* The recovery engine of Executor.cpp: a normal state that calls a        *)
(* side-effecting function it was told to skip takes a snapshot and goes  *)
(* on (executeCall); a later load that may read what a skipped call wrote  *)
(* suspends the state and runs recovery states, one per pending snapshot,  *)
(* each executing the slice of the skipped call from its snapshot and      *)
(* copying the value written at the load address back into the suspended  *)
(* state (handleMayBlockingLoad, getAllRecoveryInfo, startRecoveryState,   *)
(* onRecoveryStateWrite, onRecoveryStateExit, notifyDependentState).       *)
(*                                                                         *)
(* chain is the stack of states the engine links: chain[1] is the         *)
(* originating state, chain[k+1] the recovery state chain[k] depends on.   *)
(* Only the top of the chain runs; all the others are suspended.  A slice  *)
(* of call f for address a loads Reads[f] (if it reads anything) and      *)
(* stores a value computed from it at a; a slice for an address f does not *)
(* really write is empty.  eager is a ghost: the memory the originating    *)
(* state would have if the skipped calls had been executed in place.      *)
(***************************************************************************)
EXTENDS Naturals, Sequences, SequencesExt, TLC

CONSTANTS
  Funcs, Addrs, Writes, Reads, FWidth, Widths, MaxWidth, None, Null,
  Mods,          \* Mods[f]: addresses the approximate mod analysis says f may write
  MaxSnapshots,  \* bound on the skipped calls of the originating state
  MaxStores,     \* bound on its stores
  MaxLoads,      \* bound on its loads
  MultiResolve,  \* whether a store's pointer may resolve to several objects
  MaxBranches,   \* bound on the symbolic branches taken
  ForkInhibit  \* fork may be skipped (--max-memory-inhibit at the memory cap, --max-forks)

ASSUME \A f \in Funcs : Writes[f] \subseteq Mods[f] /\ FWidth[f] \in 1..MaxWidth
ASSUME Widths \subseteq 1..MaxWidth
ASSUME MultiResolve \in BOOLEAN /\ ForkInhibit \in BOOLEAN

VARIABLES
  chain,     \* the originating state and its stack of recovery states
  snaps,     \* snaps[i+1]: snapshot i, the function skipped and the state copied
  eager,     \* ghost: memory with every skipped call executed in place
  lastLoad,  \* the last load completed by the originating state
  nStores,   \* stores made by the originating state
  nLoads,    \* loads started by the originating state
  nBranches  \* symbolic branches taken; branch i has condition i

vars == <<chain, snaps, eager, lastLoad, nStores, nLoads, nBranches>>

Eager == INSTANCE EagerMemory WITH mem <- eager, ncalls <- Len(snaps),
                                   nstores <- nStores

Bytes == Eager!Bytes
Idx == 0..(MaxSnapshots - 1)
SnapFunc(i) == snaps[i + 1].f

(* ExecutionState type bits: NORMAL_STATE, RECOVERY_STATE or both.         *)
IsNormal(s)   == s.type \in {"normal", "normrec"}
IsRecovery(s) == s.type \in {"recovery", "normrec"}
IsInDependentMode(s) == s.nsnap > 0
GetCurrentSnapshotIndex(s) == s.nsnap - 1

(***************************************************************************)
(* Path constraints.  Constraint i is the side of branch i that the state  *)
(* took; the two sides of a fork behave alike, so which one it is is not   *)
(* kept.  guidingConstraints are kept by the originating state only and    *)
(* passed on to every recovery state started for it.                       *)
(***************************************************************************)
Lits == 0..(MaxBranches - 1)

\* Variant: a constraint never becomes a guiding constraint.
AddConstraintNoGuiding(s, l) == [s EXCEPT !.cons = @ \cup {l}]

\* ExecutionState::addConstraint: a normal state that is not a recovery
\* state and has taken a snapshot also keeps the constraint as guiding.
AddConstraint(s, l) ==
  [s EXCEPT !.cons = @ \cup {l},
            !.guiding = IF IsNormal(s) /\ ~IsRecovery(s) /\ s.nsnap > 0
                        THEN @ \cup {l} ELSE @]

\* createSnapshotState: a copy without guiding constraints.
CreateSnapshotState(s) == [s EXCEPT !.guiding = {}]

\* mergeConstraintsForAll on the chain ch whose top state took l: l is
\* added to every dependent state below it (mergeConstraints), and to the
\* guiding constraints of the originating state.
MergeConstraintsForAll(ch, l) ==
  LET merged == [k \in DOMAIN ch |-> IF k < Len(ch) THEN AddConstraint(ch[k], l) ELSE ch[k]]
  IN  [merged EXCEPT ![1].guiding = @ \cup {l}]

\* Variant: the written index taken as the snapshot count, not the index.
AddWrittenAddressCount(s, a, w) ==
  [s EXCEPT !.written[a] = [maxSize |-> IF w > @.maxSize THEN w ELSE @.maxSize,
                            snapshotIndex |-> s.nsnap]]

\* addWrittenAddress: the widest store so far, and the latest snapshot index.
AddWrittenAddress(s, a, w) ==
  [s EXCEPT !.written[a] = [maxSize |-> IF w > @.maxSize THEN w ELSE @.maxSize,
                            snapshotIndex |-> GetCurrentSnapshotIndex(s)]]

\* getWrittenAddressInfo: a store covered at least the w bytes loaded.
CompleteOverwrite(s, a, w) == s.written[a].maxSize >= w

\* Variant: recovery restarts at the snapshot of the overwrite itself.
GetStartingIndexAtWrite(s, a, w) ==
  IF CompleteOverwrite(s, a, w) THEN s.written[a].snapshotIndex ELSE 0

GetStartingIndex(s, a, w) ==
  IF CompleteOverwrite(s, a, w) THEN s.written[a].snapshotIndex + 1 ELSE 0

\* isRecoveryRequired, without the markLoadAsUnrecovered it makes when the
\* address was overwritten after the current snapshot.
WrittenAtCurrentIndex(s, a, w) ==
  /\ a \notin s.recovered
  /\ CompleteOverwrite(s, a, w)
  /\ s.written[a].snapshotIndex = GetCurrentSnapshotIndex(s)

IsRecoveryRequired(s, a, w) ==
  a \notin s.recovered /\ ~WrittenAtCurrentIndex(s, a, w)

\* The snapshot indices getAllRecoveryInfo collects, in ascending order:
\* from the starting index, those whose function may modify a.  A
\* NORMAL|RECOVERY state made from snapshot j holds exactly j snapshots, so
\* the loop's break at its own snapshot index is reached only at the end.
RequiredIndices(s, a, w) ==
  LET start == GetStartingIndex(s, a, w)
      count == IF s.nsnap > start THEN s.nsnap - start ELSE 0
  IN SelectSeq([k \in 1..count |-> start + k - 1],
               LAMBDA i : a \in Mods[SnapFunc(i)])

\* The filtering loop of getAllRecoveryInfo over desc (descending indices):
\* a cached value is written and stops the walk, a cached "no write" is
\* skipped, a slice never run is cached as pending and pushed to the front.
RECURSIVE FilterRecoveryInfos(_, _, _, _)
FilterRecoveryInfos(s, a, w, desc) ==
  IF desc = <<>>
  THEN [pending |-> <<>>, cache |-> s.cache, recovered |-> s.recovered, hit |-> Null]
  ELSE LET key == <<Head(desc), a>> IN
       IF key \in DOMAIN s.cache
       THEN IF s.cache[key] # Null
            THEN [pending |-> <<>>, cache |-> s.cache,
                  recovered |-> s.recovered \cup {a}, hit |-> s.cache[key]]
            ELSE FilterRecoveryInfos([s EXCEPT !.recovered = @ \cup {a}], a, w, Tail(desc))
       ELSE LET r == FilterRecoveryInfos([s EXCEPT !.cache = (key :> Null) @@ @],
                                         a, w, Tail(desc))
            IN [r EXCEPT !.pending =
                  @ \o <<[loadAddr |-> a, loadSize |-> w, snapshotIndex |-> Head(desc)]>>]

GetAllRecoveryInfo(s, a, w) == FilterRecoveryInfos(s, a, w, Reverse(RequiredIndices(s, a, w)))

\* The first step of the slice of SnapFunc(ri.snapshotIndex) for ri.loadAddr.
SliceEntry(ri) ==
  LET f == SnapFunc(ri.snapshotIndex) IN
  IF ri.loadAddr \notin Writes[f] THEN "exit"
  ELSE IF Reads[f] = None THEN "store" ELSE "load"

\* startRecoveryState: a copy of the snapshot, dependent on d, with the
\* guiding constraints of the originating state (chain[1]) added.
StartRecoveryState(d, ri) ==
  LET base == snaps[ri.snapshotIndex + 1].st
      rec  == [base EXCEPT !.info = ri, !.pc = SliceEntry(ri), !.arg = <<>>,
                           !.cons = @ \cup chain[1].guiding]
  IN IF ri.snapshotIndex = 0
     THEN [rec EXCEPT !.type = "recovery"]
     ELSE [rec EXCEPT !.type = "normrec", !.blocking = TRUE,
                      !.recovered = {}, !.cache = d.cache]

\* onNormalStateWrite: only a Store instruction that may override a skipped
\* call's write records the written address.
OnNormalStateWrite(s, a, w, overriding) ==
  IF IsInDependentMode(s) /\ overriding THEN AddWrittenAddress(s, a, w) ELSE s

\* onRecoveryStateWrite on the dependent d of recovery state r.
OnRecoveryStateWrite(d, r, a, w, v) ==
  IF a # r.info.loadAddr THEN d
  ELSE [d EXCEPT !.mem = Eager!WriteMem(@, a, w, v),
                 !.cache = (<<r.info.snapshotIndex, a>> :> [val |-> v, width |-> w]) @@ @]

\* executeMemoryOperation, write: the top state of ch writes v over w bytes
\* at a; overriding is whether the instruction is an overriding Store.
MemoryWrite(ch, a, w, v, overriding) ==
  LET k  == Len(ch)
      s  == [ch[k] EXCEPT !.mem = Eager!WriteMem(@, a, w, v)]
      s2 == IF IsNormal(s) THEN OnNormalStateWrite(s, a, w, overriding) ELSE s
  IN IF IsRecovery(s)
     THEN [ch EXCEPT ![k] = s2, ![k - 1] = OnRecoveryStateWrite(@, s, a, w, v)]
     ELSE [ch EXCEPT ![k] = s2]

\* executeMemoryOperation's error path, write: the pointer does not resolve
\* to one in-bounds object, so the state is forked once per object it may
\* point to; in the fork for a the top state writes v over w bytes, and
\* neither onNormalStateWrite nor onRecoveryStateWrite is called.
ResolvedWrite(ch, a, w, v) == [ch EXCEPT ![Len(ch)].mem = Eager!WriteMem(@, a, w, v)]

\* onNormalStateRead
OnNormalStateRead(s, a) ==
  IF IsNormal(s) /\ IsInDependentMode(s) /\ ~s.blocking
  THEN [s EXCEPT !.recovered = @ \cup {a}, !.blocking = TRUE]
  ELSE s

(***************************************************************************)
(* The Load case of executeInstruction on the top state, up to the read:   *)
(* the may-blocking check, the cached write or the recovery it starts.     *)
(* blocked means the state was suspended with pc back at the load.         *)
(***************************************************************************)
LoadCase(a, w) ==
  LET k   == Len(chain)
      s   == chain[k]
      r   == GetAllRecoveryInfo(s, a, w)
      s1  == [s EXCEPT !.cache = r.cache, !.recovered = r.recovered]
      ch1 == IF r.hit = Null THEN [chain EXCEPT ![k] = s1]
             ELSE MemoryWrite([chain EXCEPT ![k] = s1], a, r.hit.width, r.hit.val, FALSE)
      checked == IsNormal(s) /\ IsInDependentMode(s) /\ s.blocking
  IN IF checked /\ IsRecoveryRequired(s, a, w)
     THEN IF r.pending = <<>>
          THEN [blocked |-> FALSE, ch |-> ch1]
          ELSE LET d == [ch1[k] EXCEPT !.pcLoad = [addr |-> a, size |-> w],
                                       !.pending = Tail(r.pending)]
               IN [blocked |-> TRUE,
                   ch |-> Append([ch1 EXCEPT ![k] = d], StartRecoveryState(d, Head(r.pending)))]
     ELSE IF checked /\ WrittenAtCurrentIndex(s, a, w)
     THEN [blocked |-> FALSE, ch |-> [chain EXCEPT ![k].blocking = FALSE]]
     ELSE [blocked |-> FALSE, ch |-> chain]

EmptyCache == [key \in {} |-> Null]

OriginatingState ==
  [type |-> "normal", mem |-> Eager!InitMem, nsnap |-> 0,
   written |-> [a \in Addrs |-> [maxSize |-> 0, snapshotIndex |-> 0]],
   recovered |-> {}, blocking |-> TRUE, pending |-> <<>>, cache |-> EmptyCache,
   pcLoad |-> Null, info |-> Null, pc |-> Null, arg |-> <<>>,
   cons |-> {}, guiding |-> {}]

Init ==
  /\ chain = <<OriginatingState>>
  /\ snaps = <<>>
  /\ eager = Eager!InitMem
  /\ lastLoad = Null
  /\ nStores = 0
  /\ nLoads = 0
  /\ nBranches = 0

\* The originating state runs, and is not re-executing a blocked load.
OriginRunning == Len(chain) = 1 /\ chain[1].pcLoad = Null

\* Variant: the recovered addresses are kept across the skipped call.
ExecuteSkippedCallKeepRecovered(f) ==
  /\ OriginRunning
  /\ Len(snaps) < MaxSnapshots
  /\ snaps' = Append(snaps, [f |-> f, st |-> CreateSnapshotState(chain[1])])
  /\ chain' = <<[chain[1] EXCEPT !.nsnap = @ + 1]>>
  /\ eager' = Eager!CallEffect(eager, Len(snaps), f)
  /\ UNCHANGED <<lastLoad, nStores, nLoads, nBranches>>

\* executeCall on a function to skip with side effects: snapshot, skip.
ExecuteSkippedCall(f) ==
  /\ OriginRunning
  /\ Len(snaps) < MaxSnapshots
  /\ snaps' = Append(snaps, [f |-> f, st |-> CreateSnapshotState(chain[1])])
  /\ chain' = <<[chain[1] EXCEPT !.nsnap = @ + 1, !.recovered = {}]>>
  /\ eager' = Eager!CallEffect(eager, Len(snaps), f)
  /\ UNCHANGED <<lastLoad, nStores, nLoads, nBranches>>

\* Instruction::Store of the originating state: the fast path of
\* executeMemoryOperation, or (a pointer that may resolve to several objects)
\* the fork of its error path that writes a.
ExecuteStore(a, w) ==
  /\ OriginRunning
  /\ nStores < MaxStores
  /\ \E fast \in IF MultiResolve THEN BOOLEAN ELSE {TRUE} :
       chain' = IF fast THEN MemoryWrite(chain, a, w, Eager!StoreVal(nStores), TRUE)
                ELSE ResolvedWrite(chain, a, w, Eager!StoreVal(nStores))
  /\ eager' = Eager!WriteMem(eager, a, w, Eager!StoreVal(nStores))
  /\ nStores' = nStores + 1
  /\ UNCHANGED <<snaps, lastLoad, nLoads, nBranches>>

\* Instruction::Load of the originating state: a new load, or the blocked
\* load executed again once the state is resumed.
ExecuteLoad(a, w) ==
  /\ Len(chain) = 1
  /\ \/ chain[1].pcLoad = [addr |-> a, size |-> w]
     \/ chain[1].pcLoad = Null /\ nLoads < MaxLoads
  /\ nLoads' = IF chain[1].pcLoad = Null THEN nLoads + 1 ELSE nLoads
  /\ \E o \in {LoadCase(a, w)} :
       IF o.blocked
       THEN chain' = o.ch /\ UNCHANGED lastLoad
       ELSE /\ chain' = <<[OnNormalStateRead(o.ch[1], a) EXCEPT !.pcLoad = Null]>>
            /\ lastLoad' = [addr |-> a, size |-> w, val |-> Eager!ReadMem(o.ch[1].mem, a, w)]
  /\ UNCHANGED <<snaps, eager, nStores, nBranches>>

\* The load of the slice a recovery state runs.
ExecuteSliceLoad ==
  /\ Len(chain) > 1
  /\ chain[Len(chain)].pc = "load"
  /\ LET n == Len(chain)
         a == Reads[SnapFunc(chain[n].info.snapshotIndex)]
     IN \E o \in {LoadCase(a, MaxWidth)} :
          chain' = IF o.blocked THEN o.ch
                   ELSE [o.ch EXCEPT ![n] = [OnNormalStateRead(o.ch[n], a) EXCEPT
                            !.arg = Eager!ReadMem(o.ch[n].mem, a, MaxWidth), !.pc = "store"]]
  /\ UNCHANGED <<snaps, eager, lastLoad, nStores, nLoads, nBranches>>

\* The store of the slice; whether the slice's store is flagged as
\* overriding by the static analysis is not known here, so both are taken.
ExecuteSliceStore ==
  LET n == Len(chain)
      r == chain[n]
      f == SnapFunc(r.info.snapshotIndex)
  IN /\ n > 1
     /\ r.pc = "store"
     /\ \E overriding \in BOOLEAN :
          LET ch == MemoryWrite(chain, r.info.loadAddr, FWidth[f],
                                Eager!CallVal(r.info.snapshotIndex, r.arg), overriding)
          IN chain' = [ch EXCEPT ![n].pc = "exit"]
     /\ UNCHANGED <<snaps, eager, lastLoad, nStores, nLoads, nBranches>>

\* Where the top state may branch: the originating state while it runs, a
\* slice before its load (unless it blocked there) or before its store.
BranchPoint(s) == s.pc = "store" \/ (s.pc \in {Null, "load"} /\ s.pcLoad = Null)

\* Executor::fork with both sides feasible, on the side of chain ch that
\* takes l: the state adds l, and a recovery state's forked dependent
\* chain (forkDependentStates) gets l by mergeConstraintsForAll.
ForkConstraints(ch, l) ==
  LET t == [ch EXCEPT ![Len(ch)] = AddConstraint(@, l)]
  IN  IF IsRecovery(ch[Len(ch)]) THEN MergeConstraintsForAll(t, l) ELSE t

\* A symbolic branch of the top state.  Either it forks (the chain that
\* took one of the sides is followed), or, at the memory limit, fork picks
\* a side at random and adds its constraint to the branching state alone.
ExecuteBranch ==
  LET n == Len(chain)
  IN  /\ n > 0
      /\ BranchPoint(chain[n])
      /\ nBranches < MaxBranches
      /\ \/ chain' = ForkConstraints(chain, nBranches)
         \/ ForkInhibit /\ chain' = [chain EXCEPT ![n] = AddConstraint(@, nBranches)]
      /\ nBranches' = nBranches + 1
      /\ UNCHANGED <<snaps, eager, lastLoad, nStores, nLoads>>

\* resumeState on the dependent (notifyDependentState): it runs again and its
\* next load skips the recovery check (markLoadAsUnrecovered).
ResumeState(d) == [d EXCEPT !.blocking = FALSE]

\* Variant: the next pending recovery is started without being popped.
OnRecoveryStateExitNoPop ==
  LET n == Len(chain)
      d == chain[n - 1]
      rest == SubSeq(chain, 1, n - 2)
  IN /\ n > 1
     /\ chain[n].pc = "exit"
     /\ chain' = IF d.pending # <<>>
                 THEN rest \o <<d, StartRecoveryState(d, Head(d.pending))>>
                 ELSE Append(rest, ResumeState(d))
     /\ UNCHANGED <<snaps, eager, lastLoad, nStores, nLoads, nBranches>>

\* A recovery state reaches its exit instruction: the next pending recovery
\* of its dependent starts, or the dependent is resumed (notifyDependentState,
\* resumeState); the recovery state is terminated.
OnRecoveryStateExit ==
  LET n == Len(chain)
      d == chain[n - 1]
      rest == SubSeq(chain, 1, n - 2)
  IN /\ n > 1
     /\ chain[n].pc = "exit"
     /\ chain' = IF d.pending # <<>>
                 THEN LET d2 == [d EXCEPT !.pending = Tail(@)]
                      IN rest \o <<d2, StartRecoveryState(d2, Head(d.pending))>>
                 ELSE Append(rest, ResumeState(d))
     /\ UNCHANGED <<snaps, eager, lastLoad, nStores, nLoads, nBranches>>

\* The originating state exits (terminateStateOnExit).
TerminateStateOnExit ==
  /\ OriginRunning
  /\ chain' = <<>>
  /\ UNCHANGED <<snaps, eager, lastLoad, nStores, nLoads, nBranches>>

Terminated == chain = <<>> /\ UNCHANGED vars

Next ==
  \/ \E f \in Funcs : ExecuteSkippedCall(f)
  \/ \E a \in Addrs, w \in Widths : ExecuteStore(a, w) \/ ExecuteLoad(a, w)
  \/ ExecuteSliceLoad
  \/ ExecuteSliceStore
  \/ ExecuteBranch
  \/ OnRecoveryStateExit
  \/ TerminateStateOnExit
  \/ Terminated

\* The searcher always selects a runnable state while there is one; in a
\* chain only the top state is runnable, so its steps are weakly fair.
RecoverySteps ==
  \/ ExecuteSliceLoad \/ ExecuteSliceStore \/ OnRecoveryStateExit
  \/ \E a \in Addrs, w \in Widths : chain # <<>> /\ chain[1].pcLoad # Null /\ ExecuteLoad(a, w)

Spec == Init /\ [][Next]_vars /\ WF_vars(RecoverySteps)

-----------------------------------------------------------------------------
TypeOK ==
  /\ \A i \in DOMAIN snaps : snaps[i].f \in Funcs /\ snaps[i].st.nsnap = i - 1
  /\ Len(snaps) <= MaxSnapshots /\ nStores <= MaxStores /\ nLoads <= MaxLoads
  /\ \A k \in DOMAIN chain :
       LET s == chain[k] IN
       /\ s.type \in {"normal", "recovery", "normrec"}
       /\ (k = 1) = (s.type = "normal")
       /\ s.nsnap \in 0..Len(snaps)
       /\ s.written \in [Addrs -> [maxSize : 0..MaxWidth, snapshotIndex : Idx]]
       /\ s.recovered \subseteq Addrs
       /\ s.blocking \in BOOLEAN
       /\ DOMAIN s.cache \subseteq Idx \X Addrs
       /\ s.pc \in {Null, "load", "store", "exit"}
       /\ s.pcLoad \in {Null} \cup [addr : Addrs, size : Widths]
       /\ s.cons \subseteq Lits /\ s.guiding \subseteq Lits
  /\ nBranches \in 0..MaxBranches

\* Merge soundness (the core promise of skipping): every load the
\* originating state completes returns what it would have returned with
\* every skipped call executed in place, whatever recovery states, cached
\* values and overwrite records produced it.
EagerLoads == Eager!Spec

\* Whenever the originating state runs, each address in its recovered set
\* (which lets later loads skip the recovery check, isRecoveryRequired)
\* holds its up-to-date value.
RecoveredLoadsCurrent ==
  OriginRunning => \A a \in chain[1].recovered : chain[1].mem[a] = eager[a]

\* Each constraint on the originating state's path is on the path of every
\* recovery state stacked on it: those it took before the snapshot the
\* recovery state was copied from, those it took after it (kept as guiding
\* constraints by ExecutionState::addConstraint and added by
\* startRecoveryState), and those mergeConstraintsForAll brought down from
\* forks of recovery states.  A skipped call is re-executed only along the
\* originating state's path.
OriginConstraintsInRecoveries ==
  \A k \in DOMAIN chain : chain[1].cons \subseteq chain[k].cons

\* A load that blocks is eventually executed again and completes: the
\* recovery chain it starts runs down and resumes the originating state.
BlockingLoadCompletes ==
  (chain # <<>> /\ chain[1].pcLoad # Null) ~> (chain # <<>> /\ chain[1].pcLoad = Null)

=============================================================================
