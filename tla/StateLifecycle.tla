--------------------------- MODULE StateLifecycle ---------------------------
(***************************************************************************)
(* One worker's execution states under chopped execution: the run loop's  *)
(* step and the bookkeeping that follows it (Executor::updateStates), the *)
(* searchers of Searcher.cpp (DFS, random state, and the SplittedSearcher *)
(* that routes recovery states to their own searcher), the states' types, *)
(* suspension and dependency links, and the OFFLOAD request that removes  *)
(* states from the worker.                                                 *)
(*                                                                         *)
(* A state is an ExecutionState object; its identity is its address, an  *)
(* element of Ids, reused once the object is deleted.  Its type is "N"    *)
(* (NORMAL_STATE), "R" (RECOVERY_STATE) or "NR" (both).  A suspended      *)
(* normal state waits on its recoveryState; a recovery state names its    *)
(* dependentState; pend counts the recovery infos still pending.           *)
(*                                                                         *)
(* Each step selects a state as the searcher does, executes one event of  *)
(* it (exit, recovery exit, early termination, fork, blocking load) with  *)
(* every bookkeeping call the event makes, and then runs updateStates,    *)
(* including newCheck2Offload and the READY/NOT_READY hysteresis of the   *)
(* run loop, within the same step: the worker is single-threaded.         *)
(***************************************************************************)
EXTENDS Naturals, Sequences, SequencesExt, FiniteSets, FiniteSetsExt, Functions

CONSTANTS
  Ids,              \* addresses of ExecutionState objects (naturals)
  MaxForks,         \* branches with two feasible sides the program reaches (bound)
  MaxBlocks,        \* blocking loads the program makes (bound)
  MaxPend,          \* most recovery infos beyond the first one a load waits on
  MaxOffloads,      \* OFFLOAD requests the master sends (bound)
  ReadyThresh,      \* OFFLOAD_READY_THRESH
  NotReadyThresh,   \* OFFLOAD_NOT_READY_THRESH
  MinOffload,       \* fewest candidates offloadFromStatesVector offloads from
  OffloadDivisor,   \* share of the candidates offloaded
  MemoryCap,        \* --max-memory is non-zero (the default is 2000 MB)
  MaxKills,         \* checkMemoryUsage calls that kill states (bound)
  SearchModes,      \* the searchMode strings a run may be given
  None

Kinds == {"N", "R", "NR"}

\* The fields of an ExecutionState the bookkeeping reads.
StateRec == [kind : Kinds, susp : BOOLEAN, dep : Ids \cup {None},
             rec : Ids \cup {None}, pend : 0..MaxPend, orig : Ids \cup {None}]

Blank == [kind |-> "N", susp |-> FALSE, dep |-> None, rec |-> None, pend |-> 0,
          orig |-> None]

VARIABLES
  mode,       \* the searcher constructUserSearcher built: "DFS", "RAND" or "COVNEW"
  split,      \* --split-search
  st,         \* st[i]: the fields of the state at address i
  alive,      \* addresses of allocated states
  states,     \* Executor::states
  base,       \* the (base) searcher's vector
  recq,       \* the SplittedSearcher's recovery searcher's vector
  parked,     \* states offloaded to rangingSuspendedStates
  ready,      \* ready2Offload
  err,        \* the failed assertion that stopped the worker, or "none"
  forks, blocks, offloads,
  kills,      \* checkMemoryUsage calls that killed states
  atLimit     \* atMemoryLimit

vars == <<mode, split, st, alive, states, base, recq, parked, ready, err,
          forks, blocks, offloads, kills, atLimit>>

IsNormal(r)   == r.kind \in {"N", "NR"}
IsRecovery(r) == r.kind \in {"R", "NR"}

\* The searcher's states, in both of its vectors.
Searched == ToSet(base) \cup ToSet(recq)

\* getNewSearcher for constructUserSearcher's searchMode: DFSSearcher for
\* "DFS" and for every string it does not know (the executor's default is
\* "BFS"), RandomSearcher for "RAND", WeightedRandomSearcher(CoveringNew)
\* for "COVNEW".  With --split-search both searchers are of that kind.
Constructed(m) == CASE m = "RAND"   -> "RAND"
                    [] m = "COVNEW" -> "COVNEW"
                    [] OTHER        -> "DFS"

\* WeightedRandomSearcher::selectState draws from its DiscretePDF by
\* getWeight; under CoveringNew every weight is at least (1/10000)^2, so
\* every state it holds can be drawn.
PickWeighted(q) == ToSet(q)

\* selectState of the searcher on one vector: DFS takes the back element,
\* the random searchers any element.
Pick(q) == CASE mode = "DFS"    -> {q[Len(q)]}
             [] mode = "COVNEW" -> PickWeighted(q)
             [] OTHER           -> ToSet(q)

\* SplittedSearcher::selectState: either searcher when both are non-empty
\* (the split ratio draws a random number).
Selectable ==
  IF ~split THEN Pick(base)
  ELSE IF base = <<>> THEN Pick(recq)
  ELSE IF recq = <<>> THEN Pick(base)
  ELSE Pick(base) \cup Pick(recq)

\* The removal loop of DFSSearcher::update and RandomSearcher::update for
\* one state: the DFS searcher pops it when it is the back element.
\* Removing a state that is not there fails "invalid state removed".
\* WeightedRandomSearcher::update removes it from its DiscretePDF (a KLEE
\* container outside this repository, taken to fail alike on a missing
\* element); its reweighting of the current state changes no membership.
RemoveOne(q, e) ==
  IF mode = "DFS" /\ q # <<>> /\ Last(q) = e THEN Front(q) ELSE RemoveFirst(q, e)

\* Searcher::update, addState and removeState as a sequence of operations
\* [add, id]; the SplittedSearcher routes each by isRecoveryState.
SearchOp(stt, acc, op) ==
    LET toRec == split /\ IsRecovery(stt[op.id])
        q     == IF toRec THEN acc.recq ELSE acc.base
        q2    == IF op.add THEN Append(q, op.id) ELSE RemoveOne(q, op.id)
        bad   == ~op.add /\ op.id \notin ToSet(q)
    IN  [base |-> IF toRec THEN acc.base ELSE q2,
         recq |-> IF toRec THEN q2 ELSE acc.recq,
         ok   |-> acc.ok /\ ~bad]

RECURSIVE FoldOps(_, _, _)
FoldOps(stt, acc, ops) ==
  IF ops = <<>> THEN acc ELSE FoldOps(stt, SearchOp(stt, acc, Head(ops)), Tail(ops))

ApplyOps(stt, b, r, ops) == FoldOps(stt, [base |-> b, recq |-> r, ok |-> TRUE], ops)

Adds(s) == [i \in DOMAIN s |-> [add |-> TRUE, id |-> s[i]]]
Rems(s) == [i \in DOMAIN s |-> [add |-> FALSE, id |-> s[i]]]

(***************************************************************************)
(* The executor's vectors during one step.  A step starts from P0 and the *)
(* event's calls rewrite it; updateStates then consumes it.               *)
(***************************************************************************)
P0 == [st |-> st, alive |-> alive, added |-> <<>>, removed |-> <<>>,
       suspended |-> <<>>, resumed |-> <<>>]

\* terminateState: a state still in addedStates never reached the searcher
\* and is deleted at once; any other is queued in removedStates.
TerminateState(P, i) ==
  IF i \in ToSet(P.added)
  THEN [P EXCEPT !.added = Remove(@, i), !.alive = @ \ {i}, !.st[i] = Blank]
  ELSE [P EXCEPT !.removed = Append(@, i)]

\* Mutant: only the state itself is terminated, not its dependents.
TerminateStateOnlyFirst(P, i) == TerminateState(P, i)

\* terminateStateRecursively: the state and, while it is a recovery state,
\* its dependent state, and so on down the chain.
RECURSIVE TerminateStateRecursively(_, _)
TerminateStateRecursively(P, i) ==
  LET next == P.st[i].dep
      P1   == TerminateState(P, i)
  IN  IF IsRecovery(P.st[i]) THEN TerminateStateRecursively(P1, next) ELSE P1

\* terminateStateEarly and terminateStateOnError (ExitOnErrorType empty, so
\* no halt): a recovery state ends with its dependent chain, any other
\* state alone.
TerminateStateEarly(P, i) ==
  IF IsRecovery(P.st[i]) THEN TerminateStateRecursively(P, i) ELSE TerminateState(P, i)

\* suspendState.
SuspendState(P, i) ==
  [P EXCEPT !.st[i].susp = TRUE, !.suspended = Append(@, i)]

\* Mutant: implicitly created states are resumed like any other.
ResumeStateAlwaysResumed(P, i) ==
  [P EXCEPT !.st[i].susp = FALSE, !.st[i].rec = None, !.resumed = Append(@, i)]

\* resumeState: a dependent state that is not in Executor::states (a copy
\* made by forkDependentStates) is added as an implicitly created state.
ResumeState(P, i) ==
  LET P1 == [P EXCEPT !.st[i].susp = FALSE, !.st[i].rec = None]
  IN  IF i \notin states THEN [P1 EXCEPT !.added = Append(@, i)]
      ELSE [P1 EXCEPT !.resumed = Append(@, i)]

\* startRecoveryState: a new recovery state r of type t for state i; its
\* originating state is i's when i is a recovery state, else i itself.
StartRecoveryState(P, i, r, t) ==
  [P EXCEPT !.st[r] = [kind |-> t, susp |-> FALSE, dep |-> i, rec |-> None, pend |-> 0,
                       orig |-> IF IsRecovery(P.st[i]) THEN P.st[i].orig ELSE i],
            !.st[i].rec = r,
            !.alive = @ \cup {r},
            !.added = Append(@, r)]
\* The dependent states below state i, down to the originating state.
RECURSIVE DepChain(_, _)
DepChain(stt, i) ==
  IF IsRecovery(stt[i]) THEN <<stt[i].dep>> \o DepChain(stt, stt[i].dep) ELSE <<>>

\* forkDependentStates(t, f), first loop: the chain below t is copied, the
\* copies are linked below f (recoveryState up, dependentState down) and
\* are not put in Executor::states.  cs[j] is the address of the copy of
\* the j-th state.
CopyDependentChain(P, t, f, cs) ==
  LET ch   == DepChain(P.st, t)
      m    == Len(ch)
      up(j) == IF j = 1 THEN f ELSE cs[j - 1]
      down(j) == IF j < m THEN cs[j + 1] ELSE P.st[ch[j]].dep
      copy(j) == [P.st[ch[j]] EXCEPT !.rec = up(j), !.dep = down(j)]
  IN  [P EXCEPT !.st = [i \in Ids |->
                          IF i = f THEN [P.st[f] EXCEPT !.dep = cs[1]]
                          ELSE IF \E j \in 1..m : cs[j] = i
                          THEN copy(CHOOSE j \in 1..m : cs[j] = i)
                          ELSE P.st[i]],
                !.alive = @ \cup Range(cs)]

\* forkDependentStates, second loop: f and the recovery states among the
\* copies take the copied originating state (the last copy) as theirs.
SetOriginating(P, f, cs) ==
  [P EXCEPT !.st = [i \in Ids |->
                      IF (i = f \/ i \in Range(cs)) /\ IsRecovery(P.st[i])
                      THEN [P.st[i] EXCEPT !.orig = cs[Len(cs)]]
                      ELSE P.st[i]]]

\* Mutant: the copies are not linked up to the forked recovery state.
ForkDependentStatesNoRelink(P, t, f, cs) ==
  LET ch == DepChain(P.st, t)
      m  == Len(ch)
      copy(j) == [P.st[ch[j]] EXCEPT !.dep = IF j < m THEN cs[j + 1] ELSE @]
  IN  SetOriginating(
        [P EXCEPT !.st = [i \in Ids |->
                            IF i = f THEN [P.st[f] EXCEPT !.dep = cs[1]]
                            ELSE IF \E j \in 1..m : cs[j] = i
                            THEN copy(CHOOSE j \in 1..m : cs[j] = i)
                            ELSE P.st[i]],
                  !.alive = @ \cup Range(cs)], f, cs)

\* Mutant: the forked chain keeps the originating state of the original.
ForkDependentStatesKeepOrigin(P, t, f, cs) == CopyDependentChain(P, t, f, cs)

\* forkDependentStates(t, f).
ForkDependentStates(P, t, f, cs) == SetOriginating(CopyDependentChain(P, t, f, cs), f, cs)

\* Executor::fork with both sides feasible: the false state is a copy of
\* the current one, goes to addedStates, and for a recovery state gets its
\* own copy of the dependent chain.
Fork(P, s, f, cs) ==
  LET P1 == [P EXCEPT !.st[f] = P.st[s], !.alive = @ \cup {f}, !.added = Append(@, f)]
  IN  IF IsRecovery(P.st[s]) THEN ForkDependentStates(P1, s, f, cs) ELSE P1

\* Mutant: the first recovery info is left pending as well.
BlockingLoadNoPop(P, s, k, r, t) ==
  SuspendState(StartRecoveryState([P EXCEPT !.st[s].pend = k + 1], s, r, t), s)

\* handleMayBlockingLoad with 1 + k recovery infos: the first starts a
\* recovery state r of type t, the rest stay pending, and the state is
\* suspended.
BlockingLoad(P, s, k, r, t) ==
  SuspendState(StartRecoveryState([P EXCEPT !.st[s].pend = k], s, r, t), s)

\* onRecoveryStateExit: the next pending recovery info of the dependent
\* state starts a new recovery state, or else the dependent state is
\* resumed (notifyDependentState); then the recovery state terminates.
OnRecoveryStateExit(P, s, r, t) ==
  LET d  == P.st[s].dep
      P1 == IF P.st[d].pend > 0
            THEN StartRecoveryState([P EXCEPT !.st[d].pend = @ - 1], d, r, t)
            ELSE ResumeState(P, d)
  IN  TerminateState(P1, s)

\* offloadFromStatesVector: how many of n candidates are offloaded.
NumToOffload(n) == IF n < MinOffload THEN 0 ELSE n \div OffloadDivisor

\* updateStates' removal loop: a removed state that is not in states must
\* be a suspended normal state (it is skipped, not deleted); any other is
\* erased from states and deleted.
Reap(acc, i) ==
  IF i \notin acc.states
  THEN [acc EXCEPT !.ok = @ /\ IsNormal(acc.st[i]) /\ acc.st[i].susp]
  ELSE [acc EXCEPT !.states = @ \ {i}, !.alive = @ \ {i}, !.st[i] = Blank]

RECURSIVE ReapAll(_, _)
ReapAll(acc, rs) == IF rs = <<>> THEN acc ELSE ReapAll(Reap(acc, Head(rs)), Tail(rs))

\* searcher->getSize(): the number of states of a DFSSearcher or
\* RandomSearcher, the sum of both for a SplittedSearcher, and 0 for a
\* WeightedRandomSearcher, whose getSize is a stub.
SearcherSize(b, r) == IF mode = "COVNEW" THEN 0 ELSE Len(b) + Len(r)

\* The READY/NOT_READY hysteresis of the run loop on searcher->getSize().
NewReady(n) ==
  IF ready /\ n < NotReadyThresh THEN FALSE
  ELSE IF ~ready /\ n >= ReadyThresh THEN TRUE
  ELSE ready

\* Mutant: suspended normal states are passed to the searcher too.
FilteredAll(Q) == Q.removed

\* The removed states updateStates passes to the searcher: not the
\* suspended normal ones, which the searcher no longer holds.
Filtered(Q) == SelectSeq(Q.removed, LAMBDA i : ~(IsNormal(Q.st[i]) /\ Q.st[i].susp))

\* checkMemoryUsage, between executeInstruction and updateStates, as a set
\* of outcomes [q: the vectors, lim: atMemoryLimit].  With no cap it returns
\* at once.  Otherwise, on the instructions it measures, atMemoryLimit
\* becomes whether usage is over the cap; more than 100 MB over, toKill
\* states (one to all of them, by the ratio of usage to cap) are picked at
\* random among Executor::states that are neither suspended normal states
\* nor recovery states, and each one is ended by terminateStateEarly.
KillCandidates(P) == {i \in states : P.st[i].kind = "N" /\ ~P.st[i].susp}

CheckMemoryUsage(P) ==
  IF ~MemoryCap THEN {[q |-> P, lim |-> atLimit]}
  ELSE {[q |-> P, lim |-> l] : l \in BOOLEAN}
       \cup IF kills < MaxKills
            THEN {[q |-> FoldLeft(TerminateStateEarly, P, SetToSeq(K)), lim |-> TRUE] :
                    K \in SUBSET KillCandidates(P) \ {{}}}
            ELSE {}

(***************************************************************************)
(* checkMemoryUsage and then updateStates(current) with the executor's     *)
(* vectors P, then                                                         *)
(* newCheck2Offload (off: an OFFLOAD request is waiting) and the           *)
(* hysteresis.                                                             *)
(***************************************************************************)
UpdateStates(P, off) ==
  \E M \in CheckMemoryUsage(P) :
  LET Q == M.q IN
  LET ops == Adds(Q.added) \o Rems(Filtered(Q)) \o Rems(Q.suspended) \o Adds(Q.resumed)
  IN  \E sr \in {ApplyOps(Q.st, base, recq, ops)},
         rp \in {ReapAll([states |-> states \cup ToSet(Q.added), alive |-> Q.alive,
                          st |-> Q.st, ok |-> TRUE], Q.removed)} :
      LET cand == {i \in rp.states : ~rp.st[i].susp}
          k    == IF off /\ ready THEN NumToOffload(Cardinality(cand)) ELSE 0
      IN  \E O \in kSubset(k, cand) :
          \E so \in {ApplyOps(rp.st, sr.base, sr.recq, Rems(SetToSeq(O)))} :
            /\ st' = rp.st
            /\ alive' = rp.alive
            /\ states' = rp.states \ O
            /\ parked' = parked \cup O
            /\ base' = so.base
            /\ recq' = so.recq
            /\ ready' = NewReady(SearcherSize(so.base, so.recq))
            /\ offloads' = IF off THEN offloads + 1 ELSE offloads
            /\ kills' = IF Q = P THEN kills ELSE kills + 1
            /\ atLimit' = M.lim
            /\ err' = IF ~sr.ok THEN "invalid state removed"
                      ELSE IF ~rp.ok THEN "removed state not suspended"
                      ELSE "none"

Free == Ids \ alive

\* The address the j-th `new ExecutionState` of a step returns.  Which free
\* address the allocator returns is immaterial (nothing orders states by
\* address but offloadFromStatesVector, whose choice is left open), so the
\* lowest free ones are taken.
Fresh(j) == CHOOSE i \in Free : Cardinality({x \in Free : x < i}) = j - 1

\* The run loop's condition and the OFFLOAD request that may be waiting.
Running == err = "none" /\ states # {}
Offload(off) == off => offloads < MaxOffloads

\* terminateStateOnExit / terminateStateEarly of a normal state.
Exit(s) ==
  /\ st[s].kind = "N"
  /\ \E off \in BOOLEAN : Offload(off) /\ UpdateStates(TerminateState(P0, s), off)
  /\ UNCHANGED <<mode, split, forks, blocks>>

\* executeInstruction reaching a recovery state's exit instruction.
RecoveryExit(s) ==
  LET more == st[st[s].dep].pend > 0
  IN  /\ IsRecovery(st[s])
      /\ more => Free # {}
      /\ \E t \in (IF more THEN {"R", "NR"} ELSE {"R"}), off \in BOOLEAN :
           Offload(off) /\ UpdateStates(OnRecoveryStateExit(P0, s, IF more THEN Fresh(1) ELSE None, t), off)
      /\ UNCHANGED <<mode, split, forks, blocks>>

\* terminateStateEarly / terminateStateOnExit / terminateStateOnError of a
\* recovery state: terminateStateRecursively.
RecoveryFail(s) ==
  /\ IsRecovery(st[s])
  /\ \E off \in BOOLEAN : Offload(off) /\ UpdateStates(TerminateStateEarly(P0, s), off)
  /\ UNCHANGED <<mode, split, forks, blocks>>

\* A branch both of whose sides are feasible, below the memory limit.
Branch(s) ==
  LET m == Len(DepChain(st, s))
  IN  /\ ~atLimit
      /\ forks < MaxForks
      /\ Cardinality(Free) > m
      /\ \E off \in BOOLEAN :
           /\ Offload(off)
           /\ UpdateStates(Fork(P0, s, Fresh(1), [j \in 1..m |-> Fresh(j + 1)]), off)
      /\ forks' = forks + 1
      /\ UNCHANGED <<mode, split, blocks>>

\* A load that depends on skipped functions (the Load case of
\* executeInstruction; only normal states take it).
Block(s) ==
  /\ IsNormal(st[s])
  /\ blocks < MaxBlocks
  /\ Free # {}
  /\ \E k \in 0..MaxPend, t \in {"R", "NR"}, off \in BOOLEAN :
       Offload(off) /\ UpdateStates(BlockingLoad(P0, s, k, Fresh(1), t), off)
  /\ blocks' = blocks + 1
  /\ UNCHANGED <<mode, split, forks>>

\* A branch both of whose sides are feasible while atMemoryLimit (with
\* --max-memory-inhibit, on by default): fork adds the constraint of a
\* random side and no state is created.
ForkInhibited(s) ==
  /\ atLimit
  /\ forks < MaxForks
  /\ \E off \in BOOLEAN : Offload(off) /\ UpdateStates(P0, off)
  /\ forks' = forks + 1
  /\ UNCHANGED <<mode, split, blocks>>

\* A load of a normal state that may block, whose address getLoadInfo cannot
\* resolve to one memory object (no object, several, or a solver timeout):
\* handleMayBlockingLoad fails and the state is ended, with its dependent
\* chain if it is a NORMAL|RECOVERY state.
BlockFail(s) ==
  /\ IsNormal(st[s])
  /\ blocks < MaxBlocks
  /\ \E off \in BOOLEAN : Offload(off) /\ UpdateStates(TerminateStateEarly(P0, s), off)
  /\ blocks' = blocks + 1
  /\ UNCHANGED <<mode, split, forks>>

\* One iteration of the run loop on the state the searcher selects.
Step ==
  /\ Running
  /\ base # <<>> \/ recq # <<>>
  /\ \E s \in Selectable : Exit(s) \/ RecoveryExit(s) \/ RecoveryFail(s) \/ Branch(s)
                         \/ ForkInhibited(s) \/ Block(s) \/ BlockFail(s)

\* assert(!searcher->empty()) at the top of the run loop.
SearcherEmpty ==
  /\ Running
  /\ base = <<>> /\ recq = <<>>
  /\ err' = "searcher empty"
  /\ UNCHANGED <<mode, split, st, alive, states, base, recq, parked, ready, forks, blocks, offloads, kills, atLimit>>

\* The run loop has left (no states) or an assertion stopped the worker.
Stopped == ~Running /\ UNCHANGED vars

Init ==
  /\ mode \in {Constructed(m) : m \in SearchModes}
  /\ split \in BOOLEAN
  /\ st = [i \in Ids |-> Blank]
  /\ alive = {Min(Ids)}
  /\ states = alive
  /\ base = <<Min(Ids)>>
  /\ recq = <<>>
  /\ parked = {}
  /\ ready = FALSE
  /\ err = "none"
  /\ forks = 0 /\ blocks = 0 /\ offloads = 0 /\ kills = 0
  /\ atLimit = FALSE

Next == Step \/ SearcherEmpty \/ Stopped

Spec == Init /\ [][Next]_vars /\ WF_vars(Step) /\ WF_vars(SearcherEmpty)

-----------------------------------------------------------------------------

TypeOK ==
  /\ mode \in {"DFS", "RAND", "COVNEW"} /\ split \in BOOLEAN
  /\ st \in [Ids -> StateRec]
  /\ alive \subseteq Ids /\ states \subseteq alive /\ parked \subseteq alive
  /\ base \in Seq(Ids) /\ recq \in Seq(Ids)
  /\ ready \in BOOLEAN
  /\ err \in {"none", "invalid state removed", "removed state not suspended", "searcher empty"}
  /\ forks \in 0..MaxForks /\ blocks \in 0..MaxBlocks /\ offloads \in 0..MaxOffloads
  /\ kills \in 0..MaxKills /\ atLimit \in BOOLEAN

\* The states the executor can still reach: Executor::states, the offloaded
\* ones, and the dependent chains below them.
Held  == states \cup parked
Reach == Held \cup UNION {ToSet(DepChain(st, i)) : i \in Held}

\* updateStates keeps the searcher in step with Executor::states although
\* suspended, resumed, implicitly created and removed states reach it by
\* different calls: the searcher holds each non-suspended state of states
\* exactly once, and with --split-search recovery states only in the
\* recovery searcher.
SearcherConsistent ==
  err = "none" =>
    /\ Searched = {i \in states : ~st[i].susp}
    /\ IsInjective(base \o recq)
    /\ \A j \in DOMAIN base : ~(split /\ IsRecovery(st[base[j]]))
    /\ \A j \in DOMAIN recq : split /\ IsRecovery(st[recq[j]])

\* The recovery links that startRecoveryState, onRecoveryStateExit,
\* resumeState and forkDependentStates maintain: a reachable suspended
\* state waits on a live recovery state whose dependent it is, a recovery
\* state's dependent is suspended on it, and a reachable state that is not
\* suspended is runnable (in the searcher) or offloaded.
ChainsWellFormed ==
  \A i \in Reach :
    /\ st[i].susp => /\ st[i].rec \in alive
                     /\ IsRecovery(st[st[i].rec])
                     /\ st[st[i].rec].dep = i
    /\ IsRecovery(st[i]) => /\ st[i].dep \in alive
                            /\ st[st[i].dep].susp
                            /\ st[st[i].dep].rec = i
    /\ ~st[i].susp => i \in Searched \cup parked

\* The originating state a live recovery state names (the state whose
\* guiding constraints mergeConstraintsForAll extends when it forks, and
\* whose guiding constraints startRecoveryState gives to each recovery
\* state stacked on it) is the normal state at the bottom of its own
\* dependent chain, also after forks of recovery states have copied
\* chains and recovery states have exited and started along them.
OriginatingIsChainBottom ==
  \A r \in Reach : IsRecovery(st[r]) => st[r].orig = Last(DepChain(st, r))

\* Every ExecutionState the worker has allocated is still reachable from
\* Executor::states, the offloaded states or a dependent chain below them:
\* updateStates deletes what it removes.  The copies forkDependentStates
\* makes are in no set but their chain, so when terminateStateRecursively
\* ends such a chain, updateStates skips them (they are not in states) and
\* they are neither reachable nor deleted.
NoLeakedStates == alive \subseteq Reach

\* No assertion of the run loop, updateStates or the searchers fails.
NoAbort == err = "none"

\* The run loop ends: every state is eventually terminated or offloaded.
Termination == <>(states = {})
====
