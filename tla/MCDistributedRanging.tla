------------------------ MODULE MCDistributedRanging ------------------------
(***************************************************************************)
(* Two workers and a program of four branches.  The solver allows only    *)
(* the true side of the first branch and of the branch after 0 1, so      *)
(* histories, prefixes and suspended states hold '2' as well as '0' and   *)
(* '1'; six paths are feasible.  Thresholds are scaled from              *)
(* 8/4/4/(1/4)/64/16 so that a worker holding two states is ready and     *)
(* gives one of them away.  MCFeasOnePath is a program with a single     *)
(* feasible path.  Workers are                                           *)
(* interchangeable (Init and the dispatch treat them alike), so safety    *)
(* runs use symmetry.                                                      *)
(***************************************************************************)
EXTENDS DistributedRanging

CONSTANTS w1, w2

MCWorkers == {w1, w2}

MCFeas ==
  [p \in PathsUpTo(Depth - 1) |-> IF p \in {<<>>, <<0, 1>>} THEN {0} ELSE {0, 1}]

MCFeasOnePath == [p \in PathsUpTo(Depth - 1) |-> {0}]

(* The branch after 0 is a switch; workers reach it only while ranging    *)
(* towards their first task.                                                *)
MCSwitchNodes == {<<0>>}

(* A switch also below it, where resumed states range.                     *)
MCSwitchNodesDeep == {<<0>>, <<0, 0>>, <<1, 0>>, <<0, 0, 0>>, <<0, 1, 0>>}

MCSymmetry == Permutations(MCWorkers)

=============================================================================
