-------------------------- MODULE MCStateLifecycle --------------------------
(***************************************************************************)
(* StateLifecycle for TLC.  Six addresses; the program forks              *)
(* and takes blocking loads a bounded number of times, a blocking load    *)
(* waits on at most two skipped calls, and the offload thresholds are     *)
(* scaled down so that a handful of states makes a worker ready.          *)
(***************************************************************************)
EXTENDS StateLifecycle, TLC

MCIds == 1..6
=============================================================================
