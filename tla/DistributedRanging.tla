------------------------- MODULE DistributedRanging -------------------------
(***************************************************************************)
(* Prefix ranging, offload and resume between the master (rank 0) and the *)
(* workers of distributed pChop.                                           *)
(*                                                                         *)
(* The program under test is a binary tree of symbolic branches of height *)
(* Depth: Feas[p] is the set of sides (0 true, 1 false) the solver allows  *)
(* at the branch reached along canonical path p.  A state is identified by *)
(* its branch history over the alphabet 0 1 2 3 (2 and 3: the true or the  *)
(* false side taken without a fork), and carries the list of prefixes     *)
(* (raw histories) that steer it while shallIRange holds.                 *)
(*                                                                         *)
(* Worker side, from Executor.cpp, ExecutionState.h and PrefixTree.cpp:   *)
(* the run loop's step with fork/branchToTake, updateStates,               *)
(* newCheck2Offload, the READY/NOT_READY hysteresis, FINISH and the       *)
(* blocking probe with the START_PREFIX_TASK resume path.  Master side:   *)
(* phase 1 (the same run loop with coreId 0) from Executor.cpp; the       *)
(* dispatch loop of main.cpp is not in the source tree and follows spec.md *)
(* section 4.5.  Channels are FIFO per pair of ranks, as MPI guarantees.  *)
(***************************************************************************)
EXTENDS Naturals, Sequences, SequencesExt, FiniteSets, FiniteSetsExt, Functions

CONSTANTS
  Workers,          \* worker ranks
  Depth,            \* symbolic branches on every path of the program
  Feas,             \* Feas[p]: the sides the solver allows at canonical path p
  ReadyThresh,      \* OFFLOAD_READY_THRESH (8)
  NotReadyThresh,   \* OFFLOAD_NOT_READY_THRESH (4)
  MinOffload,       \* fewest candidates offloadFromStatesVector offloads from (4)
  OffloadDivisor,   \* share of the candidates offloaded (1/4)
  OffloadCapAt,     \* above this many candidates ... (64)
  OffloadCap,       \* ... exactly this many are offloaded (16)
  ChanCap,          \* messages a channel buffers before MPI_Send blocks
  SwitchNodes,      \* canonical paths at which the branch is a two-way switch
  None

\* Bytes of a branch history or prefix: '0' '1' '2' '3', '-', 'x', and any
\* other byte (what a read past the end of a prefix buffer may return).
Chars    == 0..3
Dash     == 4
FailChar == 5
Junk     == 6
ByteVals == Chars \cup {Junk}

PathsUpTo(n) == UNION {[1..k -> {0, 1}] : k \in 0..n}
Nodes        == PathsUpTo(Depth - 1)
Leaves       == [1..Depth -> {0, 1}]
FeasibleLeaves ==
  {l \in Leaves : \A k \in 0..Depth - 1 : l[k + 1] \in Feas[SubSeq(l, 1, k)]}

ASSUMES_OK ==
  /\ Feas \in [Nodes -> SUBSET {0, 1} \ {{}}]
  /\ NotReadyThresh <= ReadyThresh
  /\ \A p \in SwitchNodes : Feas[p] = {0, 1}
ASSUME ASSUMES_OK

VARIABLES
  mphase,     \* master: "explore" (phase 1), "serve" (dispatch loop), "done"
  mfront,     \* master: histories of its live states in phase 1, then its work list
  idle,       \* master: workers whose FINISH it has and that have no task since
  readyW,     \* master: workers whose last hint was READY_TO_OFFLOAD
  pending,    \* master: the worker asked to OFFLOAD and not yet answered, or None
  wphase,     \* worker: "init", "run" (inner loop), "wait" (probing), "halted", "aborted"
  live,       \* worker: its states set: records [hist, prefixes]
  susp,       \* worker: prefixSuspendedStatesMap, canonical path -> history
  tree,       \* worker: prefixTree as the set of its nodes' paths
  rsusp,      \* worker: rangingSuspendedStates not yet entered in the map
  ready,      \* worker: ready2Offload
  toW,        \* toW[w]: channel master -> w
  toM,        \* toM[w]: channel w -> master
  tests,      \* ghost: tests[l]: test cases emitted for leaf l
  upper,      \* worker: upperBound, the body of the last START it received
  oob         \* ghost: some prefix byte was read past the prefix's end

vars == <<mphase, mfront, idle, readyW, pending, wphase, live, susp, tree,
          rsusp, ready, upper, toW, toM, tests, oob>>
workerVars == <<wphase, live, susp, tree, rsusp, ready, upper>>
masterVars == <<mphase, mfront, idle, readyW, pending>>

-----------------------------------------------------------------------------
(* Histories, prefixes and the prefix tree.                                *)

\* The canonical path of a history: '2' -> '0', '3' -> '1'.
Canon(h) == [i \in DOMAIN h |-> h[i] % 2]

\* prefixTree->addToTree: the nodes on the path exist afterwards.
AddToTree(t, p) == t \cup Prefixes(p)

\* prefixTree->getPathToResume: walk from the root along p while the child
\* exists; the result is the path walked.
\* Mutant: the walk stops before the path's last byte.
RECURSIVE WalkShort(_, _, _)
WalkShort(t, p, k) ==
  IF k + 1 < Len(p) /\ SubSeq(p, 1, k + 1) \in t THEN WalkShort(t, p, k + 1)
  ELSE SubSeq(p, 1, k)

RECURSIVE Walk(_, _, _)
Walk(t, p, k) ==
  IF k < Len(p) /\ SubSeq(p, 1, k + 1) \in t THEN Walk(t, p, k + 1)
  ELSE SubSeq(p, 1, k)
GetPathToResume(t, p) == Walk(t, p, 0)

\* state.shallIRange(): some prefix is longer than the state's depth.
ShallIRange(s) == \E i \in DOMAIN s.prefixes : Len(s.hist) < Len(s.prefixes[i])

\* The bytes first[depth] of every prefix: exact within the buffer, and
\* any byte past its end (the buffer holds exactly the prefix).
Reads(ps, d) ==
  {g \in [DOMAIN ps -> ByteVals] :
     \A i \in DOMAIN ps : d < Len(ps[i]) => g[i] = ps[i][d + 1]}
ReadsPastEnd(ps, d) == \E i \in DOMAIN ps : d >= Len(ps[i])

\* Mutant: removeFalsePrefixes and removeTruePrefixes swapped.
RemovePrefixesSwapped(ps, g, c) ==
  LET keep == SelectSeq([i \in DOMAIN ps |-> i], LAMBDA i : g[i] = c)
  IN  [j \in DOMAIN keep |-> ps[keep[j]]]

\* removeFalsePrefixes (c = 1) and removeTruePrefixes (c = 0): drop the
\* prefixes whose byte at the fork's depth is c.
RemovePrefixes(ps, g, c) ==
  LET keep == SelectSeq([i \in DOMAIN ps |-> i], LAMBDA i : g[i] # c)
  IN  [j \in DOMAIN keep |-> ps[keep[j]]]

\* Mutant: only the first prefix is consulted.
BranchToTakeFirstOnly(ps, g) == [res |-> g[1] % 2, fs |-> g[1] < 2]

\* branchToTake with the bytes g read: res 0 (true), 1 (false), 2 (fork),
\* and whether the sibling is forked and suspended.
BranchToTake(ps, g) ==
  IF \E x \in DOMAIN ps : g[x] # g[1]
  THEN [res |-> 2, fs |-> FALSE]
  ELSE [res |-> g[1] % 2, fs |-> g[1] < 2]

\* solver->evaluate outside ranging.
SolverResult(p) ==
  [res |-> IF Feas[p] = {0, 1} THEN 2 ELSE IF Feas[p] = {0} THEN 0 ELSE 1,
   fs  |-> FALSE]

\* fork(): the states that continue and the histories suspended by ranging.
Fork(s, out, g) ==
  LET h == s.hist  ps == s.prefixes
  IN  CASE out.res = 2 ->
             [cont |-> {[hist |-> Append(h, 0), prefixes |-> RemovePrefixes(ps, g, 1)],
                        [hist |-> Append(h, 1), prefixes |-> RemovePrefixes(ps, g, 0)]},
              sus  |-> {}]
        [] out.fs ->
             [cont |-> {[hist |-> Append(h, out.res), prefixes |-> ps]},
              sus  |-> {Append(h, 1 - out.res)}]
        [] OTHER ->
             [cont |-> {[hist |-> Append(h, out.res + 2), prefixes |-> ps]},
              sus  |-> {}]

-----------------------------------------------------------------------------
(* Offload: the composite prefix P0 ('-' Pi)* and its parsing.             *)

\* offloadFromStatesVector: how many of n candidates are offloaded.
NumToOffload(n) ==
  IF n < MinOffload THEN 0
  ELSE IF n > OffloadCapAt THEN OffloadCap
  ELSE n \div OffloadDivisor

\* Mutant: the suffixes start one byte late (start = commonPref.size() + 1).
CompositeLate(hs) ==
  LET common == LongestCommonPrefix({hs[i] : i \in DOMAIN hs})
  IN  common \o FlattenSeq([i \in DOMAIN hs |->
                              <<Dash>> \o SubSeq(hs[i], Len(common) + 2, Len(hs[i]))])

\* newCheck2Offload: the histories' longest common prefix, then for each
\* state in order a dash and the rest of its history.
Composite(hs) ==
  LET common == LongestCommonPrefix({hs[i] : i \in DOMAIN hs})
  IN  common \o FlattenSeq([i \in DOMAIN hs |->
                              <<Dash>> \o SubSeq(hs[i], Len(common) + 1, Len(hs[i]))])

\* The run loop's parse of a START_PREFIX_TASK: dashLoc, and recvP for the
\* pref-th suffix: the bytes before the first dash, then those after the
\* pref-th dash up to the next one.
DashLoc(m) == SelectSeq([j \in DOMAIN m |-> j], LAMBDA j : m[j] = Dash)
RecvP(m, pref) ==
  LET dl   == DashLoc(m)
      stop == IF pref < Len(dl) THEN dl[pref + 1] ELSE Len(m) + 1
  IN  SubSeq(m, 1, dl[1] - 1) \o SubSeq(m, dl[pref] + 1, stop - 1)

\* The resume loop over the suffixes: for each, the suspended state at the
\* longest tree path along its canonical form gets it as a prefix; the
\* assert at the map lookup fails if that path is not a key.
ResumeTargets(w, m) ==
  LET RECURSIVE Go(_, _)
      Go(acc, pref) ==
        IF pref > Len(DashLoc(m)) \/ acc.failed THEN acc
        ELSE LET rp == RecvP(m, pref)
                 p  == GetPathToResume(tree[w], Canon(rp))
             IN  IF p \notin DOMAIN susp[w]
                 THEN [acc EXCEPT !.failed = TRUE]
                 ELSE Go([acc EXCEPT
                            !.paths = acc.paths \cup {p},
                            !.pref  = [q \in acc.paths \cup {p} |->
                                         IF q = p
                                         THEN (IF q \in acc.paths THEN acc.pref[q] ELSE <<>>) \o <<rp>>
                                         ELSE acc.pref[q]]],
                         pref + 1)
  IN  Go([failed |-> FALSE, paths |-> {}, pref |-> [q \in {} |-> <<>>]], 1)

-----------------------------------------------------------------------------
(* updateStates' tail, the offload probe and the hysteresis.               *)

\* Mutant: histories enter the map uncanonicalised.
EnterMapRaw(m, hs) ==
  [p \in DOMAIN m \cup (hs \ DOMAIN m) |-> IF p \in DOMAIN m THEN m[p] ELSE p]

\* updateStates: ranging-suspended states enter prefixSuspendedStatesMap
\* under their canonical path (insert keeps an existing entry) and the tree.
EnterMap(m, hs) ==
  LET new == {Canon(h) : h \in hs} \ DOMAIN m
  IN  [p \in DOMAIN m \cup new |->
         IF p \in DOMAIN m THEN m[p] ELSE CHOOSE h \in hs : Canon(h) = p]
EnterTree(t, hs) == FoldSet(LAMBDA h, acc : AddToTree(acc, Canon(h)), t, hs)

Msg(tag, body) == [tag |-> tag, body |-> body]

\* READY_TO_OFFLOAD / NOT_READY_TO_OFFLOAD after the step, on the searcher's
\* size n, only when it crosses a threshold.
Hint(w, n) ==
  IF ready[w] /\ n < NotReadyThresh THEN <<Msg("NOT_READY", <<>>)>>
  ELSE IF ~ready[w] /\ n >= ReadyThresh THEN <<Msg("READY", <<>>)>>
  ELSE <<>>
NewReady(w, n) ==
  IF ready[w] /\ n < NotReadyThresh THEN FALSE
  ELSE IF ~ready[w] /\ n >= ReadyThresh THEN TRUE
  ELSE ready[w]

\* newCheck2Offload on the states L: MPI_Iprobe may see nothing (no message,
\* or one still in flight); a START stays unreceived; KILL halts; OFFLOAD
\* is answered with 'x', or with the composite prefix of k states, which
\* leave the states set for rangingSuspendedStates.
ProbeOutcomes(w, L) ==
  LET none == [live |-> L, rsusp |-> {}, resp |-> <<>>, pop |-> FALSE, halt |-> FALSE]
      head == IF toW[w] # <<>> THEN Head(toW[w]).tag ELSE "none"
      k    == IF ready[w] THEN NumToOffload(Cardinality(L)) ELSE 0
      sent(S, ord) ==
        [live |-> L \ S, rsusp |-> {x.hist : x \in S},
         resp |-> <<Msg("OFFLOAD_RESP", Composite([i \in DOMAIN ord |-> ord[i].hist]))>>,
         pop |-> TRUE, halt |-> FALSE]
  IN  {none}
      \cup (IF head = "KILL" THEN {[none EXCEPT !.pop = TRUE, !.halt = TRUE]} ELSE {})
      \cup (IF head = "OFFLOAD" /\ k = 0
            THEN {[none EXCEPT !.pop = TRUE, !.resp = <<Msg("OFFLOAD_RESP", <<FailChar>>)>>]}
            ELSE {})
      \cup (IF head = "OFFLOAD" /\ k > 0
            THEN UNION {{sent(S, ord) : ord \in SetToSeqs(S)} : S \in kSubset(k, L)}
            ELSE {})

\* The rest of a run-loop iteration after the instruction: updateStates
\* (the states set becomes L; S and the states offloaded by the previous
\* iteration enter the map and the tree; then newCheck2Offload) and the
\* hysteresis hint.
UpdateStates(w, L, S) ==
  LET hs == rsusp[w] \cup S
  IN  \E o \in ProbeOutcomes(w, L) :
        LET n == Cardinality(o.live)
        IN  /\ susp'  = [susp EXCEPT ![w] = EnterMap(@, hs)]
            /\ tree'  = [tree EXCEPT ![w] = EnterTree(@, hs)]
            /\ live'  = [live EXCEPT ![w] = o.live]
            /\ rsusp' = [rsusp EXCEPT ![w] = o.rsusp]
            /\ toW'   = IF o.pop THEN [toW EXCEPT ![w] = Tail(@)] ELSE toW
            /\ toM'   = [toM EXCEPT ![w] = @ \o o.resp \o Hint(w, n)]
            /\ ready' = [ready EXCEPT ![w] = NewReady(w, n)]
            /\ wphase' = IF o.halt THEN [wphase EXCEPT ![w] = "halted"] ELSE wphase

-----------------------------------------------------------------------------
(* The master.                                                             *)

\* Phase 1 (run with coreId 0 and enableBranchHalt): while fewer than
\* branchLevel2Halt (the number of workers) states live, the selected state
\* exits with a test or reaches a branch the solver decides.
MasterStep(h) ==
  /\ mphase = "explore"
  /\ Cardinality(mfront) < Cardinality(Workers)
  /\ h \in mfront
  /\ IF Len(h) = Depth
     THEN /\ tests' = [tests EXCEPT ![Canon(h)] = @ + 1]
          /\ mfront' = mfront \ {h}
     ELSE /\ mfront' = (mfront \ {h}) \cup
                       {c.hist : c \in Fork([hist |-> h, prefixes |-> <<>>],
                                            SolverResult(Canon(h)), <<>>).cont}
          /\ UNCHANGED tests
  /\ UNCHANGED <<mphase, idle, readyW, pending, toW, toM, oob>>
  /\ UNCHANGED workerVars

\* Phase 1 halts; addState2WorkList records every live history.
MasterHalt ==
  /\ mphase = "explore"
  /\ Cardinality(mfront) >= Cardinality(Workers)
  /\ mphase' = "dispatch"
  /\ UNCHANGED <<mfront, idle, readyW, pending, toW, toM, tests, oob>>
  /\ UNCHANGED workerVars

\* main.cpp (spec.md 4.5): each worker gets one work-list prefix.
MasterDispatch ==
  /\ mphase = "dispatch"
  /\ \E f \in Bijection(Workers, mfront) :
       toW' = [w \in Workers |-> <<Msg("START", f[w])>>]
  /\ mphase' = "serve"
  /\ UNCHANGED <<mfront, idle, readyW, pending, toM, tests, oob>>
  /\ UNCHANGED workerVars

\* main.cpp (spec.md 4.5): the master's receive loop.
MasterRecv(w) ==
  /\ mphase = "serve"
  /\ toM[w] # <<>>
  /\ LET m == Head(toM[w]) IN
     /\ CASE m.tag = "FINISH"    -> /\ idle' = idle \cup {w}
                                    /\ UNCHANGED <<readyW, pending, toW>>
          [] m.tag = "READY"     -> /\ readyW' = readyW \cup {w}
                                    /\ UNCHANGED <<idle, pending, toW>>
          [] m.tag = "NOT_READY" -> /\ readyW' = readyW \ {w}
                                    /\ UNCHANGED <<idle, pending, toW>>
          [] m.body = <<FailChar>> -> /\ pending' = None
                                      /\ UNCHANGED <<idle, readyW, toW>>
          [] OTHER -> \E v \in idle :
                        /\ toW' = [toW EXCEPT ![v] = Append(@, Msg("START", m.body))]
                        /\ idle' = idle \ {v}
                        /\ pending' = None
                        /\ UNCHANGED readyW
  /\ toM' = [toM EXCEPT ![w] = Tail(@)]
  /\ UNCHANGED <<mphase, mfront, tests, oob>>
  /\ UNCHANGED workerVars

\* main.cpp (spec.md 4.5): an idle worker exists, ask a ready one for work.
MasterRequestOffload(r) ==
  /\ mphase = "serve"
  /\ pending = None
  /\ idle # {}
  /\ r \in readyW \ idle
  /\ toW' = [toW EXCEPT ![r] = Append(@, Msg("OFFLOAD", <<>>))]
  /\ pending' = r
  /\ UNCHANGED <<mphase, mfront, idle, readyW, toM, tests, oob>>
  /\ UNCHANGED workerVars

\* main.cpp (spec.md 4.5): every worker is idle: KILL them all.
MasterKill ==
  /\ mphase = "serve"
  /\ idle = Workers
  /\ pending = None
  /\ toW' = [w \in Workers |-> Append(toW[w], Msg("KILL", <<>>))]
  /\ mphase' = "done"
  /\ UNCHANGED <<mfront, idle, readyW, pending, toM, tests, oob>>
  /\ UNCHANGED workerVars

-----------------------------------------------------------------------------
(* The workers.                                                            *)

\* run(): the initial state gets the task main.cpp received, upperBound,
\* as its one prefix.
WorkerStart(w) ==
  /\ wphase[w] = "init"
  /\ toW[w] # <<>>
  /\ Head(toW[w]).tag = "START"
  /\ live' = [live EXCEPT ![w] = {[hist |-> <<>>, prefixes |-> <<Head(toW[w]).body>>]}]
  /\ upper' = [upper EXCEPT ![w] = Head(toW[w]).body]
  /\ wphase' = [wphase EXCEPT ![w] = "run"]
  /\ toW' = [toW EXCEPT ![w] = Tail(@)]
  /\ UNCHANGED <<susp, tree, rsusp, ready, toM, tests, oob>>
  /\ UNCHANGED masterVars

\* The selected state exits (terminateStateOnExit emits its test) and the
\* iteration ends with updateStates.
WorkerExit(w, s) ==
  /\ wphase[w] = "run"
  /\ s \in live[w]
  /\ Len(s.hist) = Depth
  /\ tests' = [tests EXCEPT ![Canon(s.hist)] = @ + 1]
  /\ UpdateStates(w, live[w] \ {s}, {})
  /\ UNCHANGED <<upper, oob>>
  /\ UNCHANGED masterVars

\* The selected state reaches a branch: fork() decides by branchToTake while
\* it ranges and by the solver otherwise, and the iteration ends with
\* updateStates.
WorkerBranch(w, s) ==
  /\ wphase[w] = "run"
  /\ s \in live[w]
  /\ Len(s.hist) < Depth
  /\ Canon(s.hist) \notin SwitchNodes
  /\ ShallIRange(s) => Len(s.hist) < Len(s.prefixes[1])
  /\ \E g \in Reads(s.prefixes, Len(s.hist)) :
       LET rng == ShallIRange(s)
           out == IF rng THEN BranchToTake(s.prefixes, g) ELSE SolverResult(Canon(s.hist))
           f   == Fork(s, out, g)
       IN  /\ oob' = (oob \/ ((rng \/ out.res = 2) /\ ReadsPastEnd(s.prefixes, Len(s.hist))))
           /\ UpdateStates(w, (live[w] \ {s}) \cup f.cont, f.sus)
  /\ UNCHANGED <<upper, tests>>
  /\ UNCHANGED masterVars

\* branch() while the state ranges, for the two cases of a switch: both
\* states are made ('0' for result[0], '1' for result[1]); the first whose
\* new byte equals upperBound's byte b at that depth is taken, and the
\* default, result[1], if none is.
SwitchCase(s, b) == IF b = 0 THEN 0 ELSE 1

\* The selected state reaches a switch with both cases feasible: branch()
\* makes one state per case with all of the state's prefixes.  Outside
\* ranging both run on; while ranging the case SwitchCase picks runs on
\* and the other is ranging-suspended.  updateStates ends the iteration.
WorkerSwitch(w, s) ==
  /\ wphase[w] = "run"
  /\ s \in live[w]
  /\ Len(s.hist) < Depth
  /\ Canon(s.hist) \in SwitchNodes
  /\ LET h == s.hist
         d == Len(h)
         kid(c) == [hist |-> Append(h, c), prefixes |-> s.prefixes]
     IN  IF ~ShallIRange(s)
         THEN /\ UpdateStates(w, (live[w] \ {s}) \cup {kid(0), kid(1)}, {})
              /\ UNCHANGED oob
         ELSE \E b \in IF d < Len(upper[w]) THEN {upper[w][d + 1]} ELSE ByteVals :
                LET c == SwitchCase(s, b) IN
                /\ oob' = (oob \/ d >= Len(upper[w]))
                /\ UpdateStates(w, (live[w] \ {s}) \cup {kid(c)}, {Append(h, 1 - c)})
  /\ UNCHANGED <<upper, tests>>
  /\ UNCHANGED masterVars

\* branchToTake's assert(depth < prefixes[0].second) fails: the worker aborts.
WorkerBranchAssert(w, s) ==
  /\ wphase[w] = "run"
  /\ s \in live[w]
  /\ Len(s.hist) < Depth
  /\ Canon(s.hist) \notin SwitchNodes
  /\ ShallIRange(s)
  /\ Len(s.hist) >= Len(s.prefixes[1])
  /\ wphase' = [wphase EXCEPT ![w] = "aborted"]
  /\ UNCHANGED <<live, susp, tree, rsusp, ready, upper, toW, toM, tests, oob>>
  /\ UNCHANGED masterVars

\* The states set is empty: send FINISH and block in MPI_Probe.  MPI_Send
\* blocks while the channel holds ChanCap messages.
WorkerFinish(w) ==
  /\ wphase[w] = "run"
  /\ live[w] = {}
  /\ Len(toM[w]) < ChanCap
  /\ toM' = [toM EXCEPT ![w] = Append(@, Msg("FINISH", <<>>))]
  /\ wphase' = [wphase EXCEPT ![w] = "wait"]
  /\ UNCHANGED <<live, susp, tree, rsusp, ready, upper, toW, tests, oob>>
  /\ UNCHANGED masterVars

\* The probe returns KILL: halt.
WorkerKilled(w) ==
  /\ wphase[w] = "wait"
  /\ toW[w] # <<>>
  /\ Head(toW[w]).tag = "KILL"
  /\ wphase' = [wphase EXCEPT ![w] = "halted"]
  /\ toW' = [toW EXCEPT ![w] = Tail(@)]
  /\ UNCHANGED <<live, susp, tree, rsusp, ready, upper, toM, tests, oob>>
  /\ UNCHANGED masterVars

\* The probe returns START_PREFIX_TASK: the resumed states take their new
\* prefixes, join the states set and leave the map (the tree keeps them).
\* A failed lookup assert aborts the worker.
WorkerResume(w) ==
  /\ wphase[w] = "wait"
  /\ toW[w] # <<>>
  /\ Head(toW[w]).tag = "START"
  /\ upper' = [upper EXCEPT ![w] = Head(toW[w]).body]
  /\ LET R == ResumeTargets(w, Head(toW[w]).body)
     IN  IF R.failed
         THEN /\ wphase' = [wphase EXCEPT ![w] = "aborted"]
              /\ UNCHANGED <<live, susp>>
         ELSE /\ live' = [live EXCEPT ![w] =
                            {[hist |-> susp[w][p], prefixes |-> R.pref[p]] : p \in R.paths}]
              /\ susp' = [susp EXCEPT ![w] =
                            [p \in DOMAIN @ \ R.paths |-> @[p]]]
              /\ wphase' = [wphase EXCEPT ![w] = "run"]
  /\ toW' = [toW EXCEPT ![w] = Tail(@)]
  /\ UNCHANGED <<tree, rsusp, ready, toM, tests, oob>>
  /\ UNCHANGED masterVars

\* The probe returns OFFLOAD: neither branch receives it; the outer loop
\* runs again with an empty states set, so FINISH is sent again and the
\* probe returns the same message.
WorkerReprobe(w) ==
  /\ wphase[w] = "wait"
  /\ toW[w] # <<>>
  /\ Head(toW[w]).tag = "OFFLOAD"
  /\ wphase' = [wphase EXCEPT ![w] = "run"]
  /\ UNCHANGED <<live, susp, tree, rsusp, ready, upper, toW, toM, tests, oob>>
  /\ UNCHANGED masterVars

-----------------------------------------------------------------------------

Init ==
  /\ mphase = "explore"
  /\ mfront = {<<>>}
  /\ idle = {}
  /\ readyW = {}
  /\ pending = None
  /\ wphase = [w \in Workers |-> "init"]
  /\ live = [w \in Workers |-> {}]
  /\ susp = [w \in Workers |-> [p \in {} |-> <<>>]]
  /\ tree = [w \in Workers |-> {<<>>}]
  /\ rsusp = [w \in Workers |-> {}]
  /\ ready = [w \in Workers |-> FALSE]
  /\ upper = [w \in Workers |-> <<>>]
  /\ toW = [w \in Workers |-> <<>>]
  /\ toM = [w \in Workers |-> <<>>]
  /\ tests = [l \in Leaves |-> 0]
  /\ oob = FALSE

\* The job has ended: the master has killed every worker and each has
\* halted, or a rank failed an assert, which ends the whole MPI job.
Ended ==
  \/ mphase = "done" /\ \A w \in Workers : wphase[w] = "halted"
  \/ \E w \in Workers : wphase[w] = "aborted"

Finished == Ended /\ UNCHANGED vars

Worker(w) ==
  \/ WorkerStart(w)
  \/ \E s \in live[w] : \/ WorkerExit(w, s) \/ WorkerBranch(w, s)
                        \/ WorkerSwitch(w, s) \/ WorkerBranchAssert(w, s)
  \/ WorkerFinish(w)
  \/ WorkerKilled(w)
  \/ WorkerResume(w)
  \/ WorkerReprobe(w)

Master ==
  \/ \E h \in mfront : MasterStep(h)
  \/ MasterHalt
  \/ MasterDispatch
  \/ \E w \in Workers : MasterRecv(w) \/ MasterRequestOffload(w)
  \/ MasterKill

Next == Master \/ (\E w \in Workers : Worker(w)) \/ Finished

\* Every rank is a process of its own; MPI delivers what is sent.
Spec == Init /\ [][Next]_vars /\ WF_vars(Master) /\ \A w \in Workers : WF_vars(Worker(w))

-----------------------------------------------------------------------------
(* Properties.                                                             *)

Msgs == [tag : {"START", "OFFLOAD", "KILL", "FINISH", "READY", "NOT_READY",
                "OFFLOAD_RESP"},
         body : Seq(Chars \cup {Dash, FailChar})]

TypeOK ==
  /\ mphase \in {"explore", "dispatch", "serve", "done"}
  /\ mfront \subseteq Seq(Chars)
  /\ idle \subseteq Workers /\ readyW \subseteq Workers
  /\ pending \in Workers \cup {None}
  /\ wphase \in [Workers -> {"init", "run", "wait", "halted", "aborted"}]
  /\ \A w \in Workers :
       /\ \A s \in live[w] : s.hist \in Seq(Chars) /\ s.prefixes \in Seq(Seq(Chars))
       /\ DOMAIN susp[w] \subseteq Seq({0, 1})
       /\ <<>> \in tree[w]
       /\ rsusp[w] \subseteq Seq(Chars)
       /\ toW[w] \in Seq(Msgs) /\ toM[w] \in Seq(Msgs)
  /\ ready \in [Workers -> BOOLEAN]
  /\ upper \in [Workers -> Seq(Chars \cup {Dash})]
  /\ tests \in [Leaves -> Nat]
  /\ oob \in BOOLEAN

\* Exploration is disjoint: no path of the program gets a test case twice,
\* from the master's phase 1 or from any worker, whatever the offloads and
\* resumes in between (spec.md 8.7).
NoDuplicateTest == \A l \in Leaves : tests[l] <= 1

\* Exploration is complete: when the master has killed every worker, each
\* feasible path of the program has had exactly one test case and no
\* infeasible one has had any (spec.md 8.7).
CompleteWhenKilled ==
  (mphase = "done" /\ \A w \in Workers : wphase[w] = "halted")
    => \A l \in Leaves : tests[l] = IF l \in FeasibleLeaves THEN 1 ELSE 0

\* No worker aborts on an assert: branchToTake's depth < prefixes[0].second
\* and the resume loop's lookup of the tree's path in the suspended map.
NoAbort == \A w \in Workers : wphase[w] # "aborted"

\* fork() never reads a prefix byte past the end of its buffer (through
\* branchToTake, removeFalsePrefixes or removeTruePrefixes).
PrefixReadsInBounds == ~oob

\* The reference for getPathToResume: the deepest node of tree t on path p.
DeepestOnPath(t, p) ==
  CHOOSE q \in {r \in t : IsPrefix(r, p)} :
    \A r \in t : IsPrefix(r, p) => Len(r) <= Len(q)

\* The resume lookup finds the longest common path (spec.md 4.5): for the
\* prefix tree each worker has built with addToTree in updateStates,
\* getPathToResume, which walks down from the root and stops at the first
\* missing child, returns the deepest node of the tree on every path of
\* the program a START_PREFIX_TASK could name.
ResumeFindsLongestCommonPath ==
  \A w \in Workers : \A p \in PathsUpTo(Depth) :
    GetPathToResume(tree[w], p) = DeepestOnPath(tree[w], p)

\* Bound on the states of one offload the property below is checked for.
RoundTripStates == 3

(* The START_PREFIX_TASK format: for any offload a worker could make from  *)
(* its states, the run loop's parse (dashLoc, recvP) of the composite      *)
(* newCheck2Offload builds from their branch histories, which the master  *)
(* relays unchanged, gives back each state's history in the order the     *)
(* states were offloaded.  Each suffix the receiver resumes is meant for   *)
(* exactly one of them.                                                    *)
OffloadPrefixRoundTrip ==
  \A w \in Workers :
    \A hs \in UNION {[1..n -> {s.hist : s \in live[w]}] : n \in 1..RoundTripStates} :
      \A i \in DOMAIN hs : RecvP(Composite(hs), i) = hs[i]

\* The job ends: once the workers run out of work the master kills them
\* all and they halt (or an assert ends the job early).
Termination == <>Ended

=============================================================================
