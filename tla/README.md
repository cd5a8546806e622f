# TLA+ models of pChop

pChop is KLEE extended with two mechanisms:

- **chopped symbolic execution.** Calls to chosen side-effecting functions are skipped and re-executed lazily, as slices, when a later load needs what they wrote.
- **distributed exploration.** Worker processes explore disjoint parts of the execution tree, which the master hands out as path prefixes. A worker offloads part of its frontier back to the master.

This directory holds TLA+ models of those mechanisms, written from the C++ source under `src/`. It also holds the TLC configurations that check them. `PROJECT.json` lists:

- the components and their status;
- every run and its expected result;
- the mutants that show each property can fail;
- the map from each TLA+ definition to the source lines it models;
- findings and hazards.

## The system's parts

| Part (spec.md name) | Source | Role |
|---|---|---|
| StateGraph | `Executor.cpp` `branch`, `fork` | Forks execution states at symbolic branches and records each state's branch history. |
| RecoveryEngine | `Executor.cpp` 1849-1905, 2705-2729, 4663-4733, 5171-6222; `ExecutionState.h` | Skips calls, snapshots state, runs recovery states, and merges their writes back. Modelled by `RecoveryEngine`, `StateLifecycle` and `AllocationIdentity`. |
| Scheduler | `Searcher.cpp`, `UserSearcher.cpp` | DFS, BFS and random searchers, plus the split searcher that gives recovery states their own share. Modelled by `StateLifecycle`. |
| DistributedCoordinator | `Executor.cpp` `run`, `newCheck2Offload`, `updateStates`; `ExecutionState.h` prefixes; `PrefixTree.cpp` | Handles the worker side of prefix ranging, offload and resume. The master is in `main.cpp`, outside `src/`. Modelled by `DistributedRanging`. |
| SolverFacade | STP/Z3, outside `src/` | Decides feasibility. |
| AddressSpace | KLEE `Memory`/`AddressSpace`, outside `src/` | Holds copy-on-write memory objects. |

How they interact:

- A worker's `run` loop steps the state the searcher selects.
- A skipped call adds a snapshot to the state.
- A load that may read a skipped call's write suspends the state. The state then becomes the *dependent* of a new recovery state, which the searcher schedules like any other.
- Recovery states write back into their dependent and, on exit, either start the next pending recovery or resume the dependent.
- Across workers, a state's branch history is its identity. Prefixes sent by the master steer `branch`/`fork` on the worker.

## Modules

### `EagerMemory` — what skipping promises (abstract)

This module defines the memory of the originating state as if every skipped call had been executed in place, at its call site:

- Memory is a map from object address to a byte vector.
- Values are tags naming their writer: the initial contents, the k-th store, or the i-th call together with the bytes it read. A value computed from stale input therefore differs from a fresh one.
- Actions: `Call(f)`, `Store(a, w)`, `Load(a, w)`. `Load` records `lastLoad`.

### `RecoveryEngine` — chopped execution on one path

The model follows one originating state and every state the engine links to it:

- `chain[1]` is the originating state.
- `chain[k+1]` is the recovery state that `chain[k]` waits for. Only the top of the chain runs.
- Each state is a record holding the fields of `ExecutionState` that the engine reads and writes:
  - `type`: NORMAL, RECOVERY, or NORMAL|RECOVERY;
  - `mem`;
  - `nsnap`: the number of snapshots;
  - `written`: `writtenAddresses`, holding maxSize and snapshotIndex;
  - `recovered`: `recoveredLoads`;
  - `blocking`: `blockingLoadStatus`;
  - `pending`: `pendingRecoveryInfos`;
  - `cache`: `recoveryCache`;
  - `pcLoad`: the blocked load that is re-executed after resume;
  - `info`, `pc` and `arg`, for recovery states: the recovery info, the slice's program counter, and the value the slice loaded;
  - `cons`: the path constraints; `guiding`: `guidingConstraints`.
- `nBranches` counts the symbolic branches taken. Branch `i` adds constraint `i`: the two sides of a fork behave alike for every property here, so which side a state took is not kept, and the model follows one side.
- `snaps` holds the snapshots. Each is a copy of the originating state made when the call was skipped, without its guiding constraints, as `createSnapshotState` does.

| Action | Code |
|---|---|
| `ExecuteSkippedCall(f)` | `executeCall` skip branch: snapshot, `addSnapshot`, `clearRecoveredAddresses` |
| `ExecuteStore(a,w)` | `Instruction::Store` → `executeMemoryOperation`: the fast path → `onNormalStateWrite` (`addWrittenAddress`), or, when `MultiResolve` lets a pointer point to several objects, the fork of the error path that writes `a` with no hook (`ResolvedWrite`) |
| `ExecuteLoad(a,w)` | `Instruction::Load`: `isMayBlockingLoad`/`isRecoveryRequired` (with its `markLoadAsUnrecovered` side effect), `handleMayBlockingLoad`/`getAllRecoveryInfo` (cached write, pending list, `startRecoveryState`, suspend), otherwise the read and `onNormalStateRead` |
| `ExecuteSliceLoad` | The same Load case, executed by a recovery state running its slice. A NORMAL\|RECOVERY state can itself block and start a nested recovery. |
| `ExecuteSliceStore` | The slice's store: `executeMemoryOperation` → `onRecoveryStateWrite` (write-back and cache update in the dependent) and, in a NORMAL\|RECOVERY state, `onNormalStateWrite` |
| `ExecuteBranch` | `Instruction::Br` → `fork` with an unknown condition, by the top state of the chain: a real fork adds the constraint with `ExecutionState::addConstraint` (a guiding constraint too, for a normal state with snapshots) and, in a recovery state, `mergeConstraintsForAll` adds it to every dependent and to the originating state's guiding constraints; a fork skipped at the memory cap (`ForkInhibit`) adds it to the current state only |
| `OnRecoveryStateExit` | `onRecoveryStateExit`: start the next pending recovery, or `notifyDependentState`/`resumeState`; terminate the recovery state |
| `TerminateStateOnExit` | The originating state exits. |

`LoadCase`, `GetAllRecoveryInfo` (with the recursive `FilterRecoveryInfos`), `StartRecoveryState`, `MemoryWrite`, `OnRecoveryStateWrite` and the others are operators of one idea each. They are named after the C++ functions they translate.

Data abstraction:

- A slice of call `f` for address `a` loads `Reads[f]`, if `f` reads anything, and stores a value computed from it at `a`.
- A slice for an address `f` does not really write, but which the approximate mod analysis (`Mods`) lists, is empty. The recovery cache then records "no write" for it.
- `eager` is a ghost variable holding `EagerMemory`'s memory. The refinement maps `mem <- eager`, `ncalls <- Len(snaps)` and `nstores <- nStores`. The check is therefore that the *lazily* computed `lastLoad` equals the eager one.

Assumptions about code outside `src/`, all stated in the module:

- Static analysis flags program loads as may-block and program stores as may-override. Whether a slice's store is flagged is unknown, so both outcomes are explored.
- A new `ExecutionState` starts with `blockingLoadStatus` true. The constructor is outside `src/`.
- Memory accesses resolve to one in-bounds object.

#### Runs

**`recovery_merge` (pass).** Configuration `MCRecoveryEngine.cfg`:

- two callees and two addresses;
- `f` writes x from y, and the analysis also lists y for `f`;
- `g` writes x and y from x, so recovering x from a later snapshot of `g` needs a nested recovery from an earlier one;
- up to 3 skipped calls, 1 store, 2 loads, one-byte objects;
- one symbolic branch (`MaxBranches = 1`), taken at any point by whichever state is on top of the chain, real or skipped (`ForkInhibit = TRUE`).

It reaches 135,829 distinct states in about a minute, with recovery chains three deep and cached results reused. It checks:

- `TypeOK`.
- `EagerLoads`: refinement of `EagerMemory`. Every completed load of the originating state returns the eager value. This is merge soundness, spec.md §8.5.
- `RecoveredLoadsCurrent`: while the originating state runs, every address in its recovered set holds the eager value. That set is what lets later loads skip the check.
- `OriginConstraintsInRecoveries`: every state of the chain is constrained by at least the originating state's path constraints. A recovery state starts from a snapshot older than the originating state's later branches; it gets them only through the guiding constraints `startRecoveryState` adds, and a branch it takes itself reaches the originating state only through `mergeConstraintsForAll`. Without guiding constraints (the mutant) a slice runs on a path the originating state has excluded.
- `BlockingLoadCompletes`: a blocked load is eventually re-executed and completes. This holds under weak fairness of the top state's steps: `run` always steps a state the searcher selects, and in a chain only the top state is runnable.

**`recovery_partial_overwrite` (violation).** Configuration `MCRecoveryEnginePartial.cfg`: two-byte objects, and program loads and stores of width 1 or 2. TLC finds this 8-step trace:

1. A call to `g` is skipped.
2. The program stores one byte of x.
3. The program loads both bytes of x. `getWrittenAddressInfo` reports no complete overwrite, so `getStartingIndex` returns 0.
4. The slice from snapshot 0 runs, and `onRecoveryStateWrite` copies its two bytes over the newer store.
5. The load returns the skipped call's byte where the program had stored a new one.

This is a finding (`PROJECT.json`).

Stores through a pointer that may point to several objects take `executeMemoryOperation`'s error path. That path forks per object and writes without `onNormalStateWrite`. With `MultiResolve = TRUE`, TLC finds `EagerLoads` violated in 8 states:

1. `f` is skipped.
2. x is stored through such a pointer, and the store is not recorded.
3. A load of x starts a recovery.
4. The recovery copies `f`'s value over the store.

All runs keep `MultiResolve = FALSE`. The defect is recorded as the hazard at Executor.cpp:4770, because `recovery_partial_overwrite` already shows the same consequence: a stale slice value overwrites a newer store.

A fork skipped at the memory cap (`Executor.cpp:1238`) adds the side it picks to the recovery state only, not to its dependents or to the guiding constraints as a real fork does. With `ForkInhibit = TRUE`, TLC finds "every constraint of a recovery state is a constraint or guiding constraint of the originating state" violated after a skip, a load, a recovery and a skipped fork; with `ForkInhibit = FALSE` it holds over 106,084 states. The originating state then resumes without the constraint under which the slice computed the value it receives. This is recorded as a hazard, not a run: the run list keeps one run per question, and its violation runs are taken by the bugs this project found.

Why the bounds are enough:

- Three snapshots give a NORMAL|RECOVERY state that itself blocks: snapshot 2's slice reads x, which snapshot 1 wrote. That in turn exercises cache copying into nested states.
- Two loads exercise the cache and the recovered set across loads.
- One store exercises the overwrite index, the `markLoadAsUnrecovered` shortcut and `startIndex > 0`.
- One branch suffices for the constraint properties: it can be taken by the originating state before or after a snapshot, or by a recovery state at any depth, and the chain's later states are started after it.
- Each mutant listed in `PROJECT.json` is caught within these bounds.

### `DistributedRanging` — prefix ranging, offload and resume

The model holds the master (rank 0) and a set of worker ranks. They exchange messages over one FIFO channel per direction and pair of ranks, as MPI guarantees between two ranks. The program under test is a binary tree of `Depth` two-way branches. The branches at the canonical paths in `SwitchNodes` are `switch` instructions with two feasible cases; the others are `br`. `Feas[p]` is the set of sides the solver allows at the branch reached along canonical path `p`.

State, per worker:

- `live`: the `states` set. Each state is a record of its `branchHist`, over the alphabet 0 1 2 3, and its `prefixes`, the raw byte strings that steer it while `shallIRange` holds.
- `susp`: `prefixSuspendedStatesMap`, from canonical path to history.
- `tree`: `prefixTree`, as the set of its nodes' paths.
- `rsusp`: `rangingSuspendedStates`.
- `ready`: `ready2Offload`.
- `wphase`: where the worker is in `run`.
- `upper`: `upperBound`, the raw prefix string of the last START_PREFIX_TASK, dashes included.

State of the master:

- `mphase`;
- `mfront`: its phase-1 states, then its work list;
- `idle`: workers whose FINISH it holds;
- `readyW`: workers whose last hint was READY;
- `pending`: the worker it asked to OFFLOAD.

Ghosts:

- `tests` counts the test cases per leaf.
- `oob` records a prefix byte read past the end of its buffer.

| Action | Code |
|---|---|
| `MasterStep(h)` | phase 1: `run` with coreId 0; `fork` asks the solver (no ranging) |
| `MasterHalt` | `cntNumStates2Offload >= branchLevel2Halt`; `addState2WorkList` |
| `MasterDispatch`, `MasterRecv(w)`, `MasterRequestOffload(r)`, `MasterKill` | `main.cpp`, outside `src/`, from spec.md 4.5 |
| `WorkerStart(w)` | `run`'s start: the initial state gets `upperBound` as its one prefix |
| `WorkerExit(w,s)` | `terminateStateOnExit`, then `updateStates` |
| `WorkerBranch(w,s)` | `Br` → `fork`: `branchToTake` while ranging, otherwise the solver; fork-and-suspend into `rangingSuspendedStates`; `removeFalsePrefixes`/`removeTruePrefixes` on a real fork; then `updateStates` (canonicalisation into the map and the tree, `newCheck2Offload`) and the READY/NOT_READY hint |
| `WorkerSwitch(w,s)` | `Switch` → `branch()` with two cases: outside ranging both states run on; while ranging, the case whose new history byte equals `upperBound`'s byte at that depth runs on (`SwitchCase`: '0' picks case 0, anything else the default, case 1) and the other is ranging-suspended; then `updateStates` |
| `WorkerBranchAssert(w,s)` | `branchToTake`'s `assert(depth < prefixes[0].second)` |
| `WorkerFinish(w)` | the inner loop ends with no state: FINISH |
| `WorkerKilled(w)`, `WorkerResume(w)`, `WorkerReprobe(w)` | the blocking `MPI_Probe`: KILL; START_PREFIX_TASK (dash parsing, `getPathToResume`, the assert at the map lookup, `addPrefix`, erase from the map); any other tag, received by neither branch |

Data abstraction and undefined behaviour:

- A byte read past the end of a prefix buffer, or of `upperBound` in `branch()`, is any byte: a digit or `Junk`. This is the nondeterministic outcome of the out-of-bounds read.
- The solver is `Feas`.
- Recovery states and seeding are left out.
- Error terminations are left out: a leaf's test carries no termination reason, and the options that make an error stop a rank (`--exit-on-error-type`, `maxErrorCount`, `errorLocations`) are set outside `src/`. So are BUG_FOUND, which only such a stop sends, and TIMEOUT, which nothing under `src/` sends and no worker probe receives. The hazards list records what the code does on both paths.
- The worker's depth prune is assumed off.

Fairness is weak fairness of the master and of each worker. Every rank is a process of its own, and MPI delivers every message sent.

#### Runs

The configurations are in `MCDistributedRanging.tla`:

- a program of four branches with six feasible paths;
- the root's branch and the one after `0 1` have only their true side feasible, so histories, prefixes and suspended states hold '2';
- thresholds scaled from 8/4/4/(1/4)/64/16 to 2/1/2/(1/2)/4/2, so that a worker with two states is ready and gives one away;
- a channel buffers 3 messages;
- the branch after `0` is a two-way switch (`MCSwitchNodes`), which workers reach while ranging towards their first task; the violation runs have no switch.

Workers are interchangeable, so the safety runs use symmetry.

- **`ranging_explore` (pass).** Two workers, 17,339 distinct states. It checks:
  - `TypeOK`;
  - `OffloadPrefixRoundTrip`: the offload message format. For any offload of up to three states a worker could make (`RoundTripStates`), the receiver's `dashLoc`/`recvP` parse of the composite `newCheck2Offload` builds gives back each state's branch history, in order. This includes the trailing dash and empty suffix of a single state. The mutant starts the suffixes one byte late.
  - `ResumeFindsLongestCommonPath`: on every prefix tree a worker builds, `getPathToResume` returns the deepest node of the tree on any path of the program (`DeepestOnPath`, the reference definition). `getPathToResume` walks down from the root and stops at the first missing child. `updateStates` builds the tree with `addToTree` for each suspended state. The walk finds the longest common path spec.md 4.5 asks for only because `addToTree` creates every node along a path. The mutant stops the walk one byte early.
- **`ranging_resume_assert` (violation, `NoAbort`).**
  1. A worker offloads a state that is still ranging. The composite prefix carries the state's history, not its remaining prefix.
  2. On the receiver, the tree walk ends at a node that is only an intermediate node of its tree.
  3. The assert at Executor.cpp:3992 fails.
- The module also defines `NoDuplicateTest` (no path gets two test cases) and `CompleteWhenKilled` (once the master has killed every worker, each feasible path has exactly one test case). No run claims them, because the code does not keep them:
  - The offload above also drops the state's remaining prefix. With three workers, the receiver then explores the state's whole subtree and tests a path another worker has tested, so `NoDuplicateTest` fails. This has the root cause of `ranging_resume_assert` and is recorded as the hazard at Executor.cpp:3214.
  - Behaviours that abort or livelock never reach the state where every worker is killed, so `CompleteWhenKilled` says nothing about them.
- Switches further down (`MCSwitchNodesDeep`) are reached by resumed states, which `branch()` steers by the newest `upperBound` rather than by their own prefixes. With them TLC finds `NoDuplicateTest` violated in a trace where such a switch reads past the end of `upperBound`. This is recorded as the hazard at Executor.cpp:902.
- **`ranging_prefix_oob` (violation, `PrefixReadsInBounds`).** After a state's prefix is used up, the state's next fork reads the prefix at its depth in `removeFalsePrefixes`/`removeTruePrefixes`, past the end of the buffer.
- **`ranging_offload_livelock` (violation, `Termination`).**
  1. The master asks a worker to OFFLOAD.
  2. The worker's states run out before its next `newCheck2Offload`.
  3. The worker sends FINISH and blocks in `MPI_Probe`, which handles only KILL and START.
  4. The worker loops on FINISH and the same OFFLOAD forever.
- A program with fewer feasible paths than workers hangs the master. Master phase 1 runs out of states before it reaches `branchLevel2Halt`, and `run`'s outer loop spins. With `Feas <- MCFeasOnePath` and deadlock checking off (the spin is a stuttering state of the model), TLC finds `Termination` violated. This is recorded as the hazard at Executor.cpp:3787 and is not run: any small test with more workers than paths shows it.

Why the bounds are enough:

- Depth 4 gives phase-1 prefixes with '2', fork-and-suspend on the worker, offloads from states at different depths, resumes of a state with two prefixes, and both orders of OFFLOAD against FINISH.
- Every mutant listed in `PROJECT.json` is caught within the pass run's bounds.

### `StateLifecycle` — states, searchers and recovery bookkeeping on one worker

This module models how one worker keeps track of its execution states. It covers the types, suspension and dependency links that chopped execution adds, and the searchers that schedule the states. Memory contents are abstracted away; `RecoveryEngine` models them.

#### State

| Variable | Code |
|---|---|
| `st[i]` | Fields of the `ExecutionState` at address `i`: `type` (`N`, `R`, `NR`), `suspendStatus`, `recoveryState`, `dependentState`, the number of `pendingRecoveryInfos`, and `originatingState` |
| `alive` | Allocated states |
| `states` | `Executor::states` |
| `base`, `recq` | The searcher's vector. With `--split-search`, `recq` is the `SplittedSearcher`'s recovery searcher. |
| `parked` | States offloaded into `rangingSuspendedStates` |
| `ready` | `ready2Offload` |
| `err` | The assertion that stopped the worker |
| `mode`, `split` | The searcher `constructUserSearcher` builds for a `searchMode` in `SearchModes` (`Constructed`), and `--split-search`. Both are chosen at `Init`. |
| `kills` | `checkMemoryUsage` calls that killed states (bounded by `MaxKills`) |
| `atLimit` | `atMemoryLimit` |

A step's `addedStates`, `removedStates`, `suspendedStates` and `resumedStates` form a record `P`. The step starts from `P0`, and the event's calls rewrite `P`.

#### Actions

Each action is one iteration of `run`'s loop on the state `Selectable` allows:

- DFS selects the back of its vector; random selects any state in it.
- The split searcher selects from either non-empty searcher.

The action applies the event's calls, then `checkMemoryUsage`, then the whole of `updateStates`. With `MemoryCap` FALSE (`--max-memory=0`) `checkMemoryUsage` returns at once. Otherwise it sets `atMemoryLimit` to either value, since memory usage is not modelled. More than 100 MB over the cap, it also sets `atMemoryLimit` and ends any non-empty set of the states in `states` that are neither suspended normal states nor recovery states, each by `terminateStateEarly` (`CheckMemoryUsage`). How many states it ends depends on memory usage, and which ones on `rand()`, so both are open choices. The steps of `updateStates` are:

1. the filtered searcher update;
2. `removeState` for suspended states and `addState` for resumed ones;
3. `states ∪= added`;
4. the removal loop, with its assert;
5. `newCheck2Offload`;
6. the READY hysteresis on `searcher->getSize()` (`SearcherSize`). `WeightedRandomSearcher::getSize` is a stub that returns 0 (Searcher.h:184), so in `"COVNEW"` mode the worker never becomes ready and never offloads.

| Event | Calls |
|---|---|
| `Exit` | `terminateStateOnExit` of a normal state → `terminateState` |
| `RecoveryExit` | `onRecoveryStateExit`: start the next pending recovery, or `notifyDependentState` → `resumeState` (into `addedStates` if the dependent is not in `states`); then `terminateState` |
| `RecoveryFail` | `terminateStateEarly` of a recovery state → `terminateStateRecursively` |
| `Branch` | `fork` with both sides feasible: the false state goes to `addedStates`, and for a recovery state `forkDependentStates` copies the chain below it (`CopyDependentChain`) and points the new side's recovery states at the copied originating state (`SetOriginating`) |
| `ForkInhibited` | `fork` with both sides feasible while `atMemoryLimit` (`--max-memory-inhibit` is on by default): one side is taken at random and no state is created. `Branch` requires `~atLimit`. |
| `Block` | `handleMayBlockingLoad`: `startRecoveryState` (type `R` or `NR`, by snapshot index) with 0..`MaxPend` infos left pending, then `suspendState` |
| `BlockFail` | a may-blocking load whose address `getLoadInfo` cannot resolve to one object: `terminateStateEarly` or `terminateStateOnError` (`TerminateStateEarly`), which for a NORMAL\|RECOVERY state ends its dependent chain too. `ExitOnErrorType` is empty by default, so no error halts the run. |
| `SearcherEmpty` | `assert(!searcher->empty())` at Executor.cpp:3792 |

`new ExecutionState` returns the lowest free address (`Fresh`). Nothing but `offloadFromStatesVector` orders states by address, and its choice is left open: any subset of the right size.

Fairness is weak fairness of the run loop. The worker is single-threaded and always steps while `states` is non-empty.

#### Runs

`MCStateLifecycle.tla` uses these bounds:

- 6 addresses;
- 2 forks;
- 2 blocking loads, each on up to two skipped calls;
- offload thresholds scaled to 2/1/2/(1/2).

`constructUserSearcher` builds three kinds of searcher:

- `DFSSearcher` for `"DFS"` and for any string it does not know, including the executor's default `"BFS"`;
- `RandomSearcher` for `"RAND"`;
- `WeightedRandomSearcher` with CoveringNew weights for `"COVNEW"`.

Every CoveringNew weight is positive, so the weighted draw can return any state the searcher holds (`PickWeighted`). Its `DiscretePDF` is outside this repository and is modelled as a set.

The random and weighted searchers behave the same at this level of detail, so the bookkeeping run takes `{"BFS", "COVNEW"}` and the progress run takes `{"DFS", "RAND"}`; each kind appears in a passing run. Each mode is an initial state with and without split.

- **`lifecycle_bookkeeping` (pass, 543,227 states, one OFFLOAD, one memory-cap kill, inhibited forks).** It checks three invariants:
  - `TypeOK`.
  - `SearcherConsistent`: the searcher holds every non-suspended state of `states` exactly once. With split search, recovery states are only in the recovery searcher.
  - `ChainsWellFormed`: a reachable suspended state waits on a live recovery state that names it, and each recovery state's dependent is suspended on it. A reachable state that is not suspended is in the searcher or offloaded.
  - `OriginatingIsChainBottom`: every reachable recovery state names, as its `originatingState`, the normal state at the bottom of its own dependent chain. `mergeConstraintsForAll` adds each branch condition of a recovery state to that state's guiding constraints, and `startRecoveryState` hands them to every later recovery of it. A recovery state on the forked side that still named the original chain's state would put the new side's condition on the other side's path. The mutant that leaves out `forkDependentStates`' second loop breaks this after one fork of a recovery state.
- **`lifecycle_progress` (pass, 76,980 states, no OFFLOAD, `MemoryCap` FALSE). The cap is off here because with it on, `NoAbort` fails through the double kill below..** It checks `NoAbort`: no assertion of the run loop fails. Every step uses up a bounded budget (forks, blocking loads, memory kills), so every behaviour of this model ends; a termination property would hold by those bounds alone and is not checked.
- **`lifecycle_offload_recovery` (violation, `NoAbort`).**
  1. A blocking load starts a recovery state.
  2. The OFFLOAD in the same `updateStates` takes that recovery state.
  3. The other state exits.
  4. `states` still holds the suspended dependent while the searcher is empty, and the assert at 3792 fails.
- **`lifecycle_memory_double_kill` (violation, `NoAbort`).**
  1. The only state exits, and `terminateState` queues it in `removedStates`.
  2. In the same iteration `checkMemoryUsage` finds the cap exceeded. The exited state is still in `states` and is not suspended, so it is a candidate, and `terminateStateEarly` queues it again.
  3. `updateStates` has the searcher remove it twice, and `assert(ok && "invalid state removed")` fails. With asserts off, the removal loop would read the state after deleting it.
- A leak is recorded as a hazard, not run, because the states it leaks are unreachable and affect no other property:
  1. A recovery state forks, and its dependent is copied.
  2. The forked recovery state terminates early.
  3. The copy is queued for removal, skipped by `updateStates` because it is not in `states`, and never deleted.

  `NoLeakedStates` (every allocated state is reachable from `states`, the offloaded states or a dependent chain below them) states this. Under `MCStateLifecycle.cfg`, TLC finds it violated in four states: a blocking load, a fork of the recovery state, and the fork's early termination.

Why the bounds are enough:

- Six addresses allow a fork of a recovery state whose chain is two deep (`NR` over `N`), together with its copies.
- Two blocking loads give nested recovery and a pending second info.
- Every mutant is caught within these bounds.

### `AllocationIdentity` — allocation records under recovery

A recovery state re-executes a skipped call. When the callee calls `malloc`, the recovery must bind the MemoryObject the same allocation got before, so that pointers the dependent already holds stay valid. `onExecuteAlloc` keys the allocation record by an *allocation context*, the call trace plus the alloc instruction (`ASContext`, outside `src/`; spec.md gives its definition).

The module tracks one normal state (level 0) that has skipped the calls `Calls`, with recovery states stacked on it.

#### State

| Variable | Code |
|---|---|
| `chain[i]` | the recovery state at level `i`: snapshot index, `guidingAllocationRecord`, the object its malloc returned, progress through the callee |
| `rec[l]` | `allocationRecord` of the state at level `l` |
| `pend[l]` | `pendingRecoveryInfos`, as snapshot indices |
| `bound[l]` | the recovery-allocated objects bound in level `l`'s address space |
| `nextObj` | the allocator's next MemoryObject |
| `objOf` | history: every object any recovery of call `k` obtained |

#### Actions

| Action | Code |
|---|---|
| `HandleMayBlockingLoad` | `handleMayBlockingLoad`, with the pending list in ascending snapshot order (`getAllRecoveryInfo`) and `startRecoveryState` |
| `OnExecuteAlloc` | `executeAlloc` → `onExecuteAlloc` → `bindAll`, and `bindObjectInState` in the state itself |
| `ExecuteFree` | `executeFree` in a recovery state: `resolveExact` finds the object bound in the state → `onExecuteFree` → `unbindAll` |
| `OnRecoveryStateExit` | `onRecoveryStateExit`: start the next pending recovery, or `notifyDependentState` |

`startRecoveryState` shapes the records:

- An NR state (snapshot index > 0) gets a copy of its dependent's record.
- Every recovery state gets the dependent's record as its guiding record.
- On a miss, `onExecuteAlloc` records the object in the dependent's record and, for an NR state, in its own.
- `notifyDependentState` copies an NR state's record back to the dependent.

The recovery cache is left out. Any non-empty set of earlier snapshots may be needed by a load.

#### Runs

`MCAllocationIdentity.tla` uses these bounds:

- four calls;
- calls 1 and 2 go to the same function and run the same malloc;
- call 3 has a huge size;
- call 0 frees its object before returning;
- recoveries nested three deep;
- four loads.

Runs:

- **`alloc_identity` (pass, 2,490 states).** Each load needs one recovery info. The properties:
  - `SameCallSameObject`: every recovery of a call gets the same object.

  `BindAll` and `UnbindAll` walk the whole dependent chain as `bindAll`/`unbindAll` do, so a property that every level sees a nested recovery's allocation would only restate them; it is not checked.
- **Loop aliasing (hazard).** Suppose calls 1 and 2 are made from one call site, as two iterations of a loop (`MCCallSiteLoop`). Their contexts are then equal, so the recovery of the second reuses the first's object, and TLC finds two calls sharing one object in five steps. With distinct call sites, as in `alloc_identity`, distinct contexts follow from the constants alone, so no run checks this. `ASContext` is outside `src/`, so how it compares call traces comes from spec.md. For that reason this is recorded as a hazard, not as a run.
- **`alloc_pending_drop` (violation, `SameCallSameObject`).**
  1. A load needs recoveries of snapshots 2 and 3.
  2. The NR recovery of 2 runs a nested recovery of call 1, whose object is recorded only in the NR state's record.
  3. Snapshot 3 is pending, so `onRecoveryStateExit` starts it without `notifyDependentState`, and the record is dropped.
  4. A later recovery of call 1 misses and allocates a second object, while the first is still bound in the normal state.

The pass run needs one recovery info per load. With two, the dropped record is reached, as the violation run shows.

## What is not modelled yet, and the plan

These steps are ordered. Each adds a module, a run and its mutants.

1. **Allocation records under forks.** The record copies `forkDependentStates` makes would extend `AllocationIdentity` from a chain to a tree of states. `StateLifecycle` already covers the bookkeeping of such forks, and `RecoveryEngine` the constraints `mergeConstraintsForAll` adds.

Larger instances were tried and are not runs:

- `StateLifecycle` with seven addresses and three forks did not finish within a run's time. No invariant was violated over the 5.5 million distinct states explored in eight minutes. That search is not exhaustive.
- `DistributedRanging` with three workers reaches the duplicate test described under `ranging_resume_assert`.

Hazards found in the source but not checked, because the options or messages behind them are set or sent outside `src/` (see PROJECT.json):

- TIMEOUT is received by neither worker probe (`Executor.cpp:3171`, `3893`). A TIMEOUT at the head of the channel would block the worker as the OFFLOAD of `ranging_offload_livelock` does.
- `haltExecution` is reset only once, before `run`'s outer loop (`Executor.cpp:3786`). After an exit-on error with no error locations, no BUG_FOUND is sent (`Executor.cpp:4310`). The worker sends FINISH with states left, and turns every later START_PREFIX_TASK into another FINISH.
- `errorLocations` is each rank's own copy of the option (`Executor.cpp:4325`). Locations hit on different workers never empty any copy, so no BUG_FOUND is sent, whereas spec.md 4.5 has a global table decide.
- `doDumpStates` is commented out at the end of `run`, so a KILL does not emit tests for the remaining states as spec.md section 5 says.

Left out for good:

- code no path of `src/` reaches: the searchers `constructUserSearcher` never builds (`BFSSearcher`, whose `actDepth` is never written, `RandomPathSearcher`, `OptimizedSplittedSearcher`), `checkRange`/`convertPath2Number`, `check2Offload`, `offloadOriginatingStates` and `Executor::offLoad`;
- the SMT solver (an outcome is a nondeterministic choice);
- KLEE's memory object machinery;
- test-case output, logging and statistics;
- the command line.
