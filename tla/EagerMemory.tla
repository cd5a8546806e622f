----------------------------- MODULE EagerMemory -----------------------------
(***************************************************************************)
(* What the skip/snapshot/recovery machinery promises to the originating   *)
(* state: skipping a side-effecting call is invisible.  Every load of the  *)
(* originating state returns what it would have returned had every         *)
(* skipped callee been executed in place, at its call site.                *)
(*                                                                         *)
(* Memory is a map from object addresses to byte vectors; a write of width *)
(* w replaces the first w bytes.  Values are tags that name their writer:  *)
(* the initial contents of an address, the k-th store of the program, or   *)
(* the i-th skipped call together with the bytes that call read, so a      *)
(* value computed from stale input is told apart from a fresh one.         *)
(***************************************************************************)
EXTENDS Naturals, Sequences

CONSTANTS
  Funcs,      \* skipped callees that have side effects
  Addrs,      \* addresses of the memory objects the program touches
  Writes,     \* Writes[f]: the addresses a call of f really writes
  Reads,      \* Reads[f]: the address whose value f's writes are computed from, or None
  FWidth,     \* FWidth[f]: width in bytes of f's writes
  Widths,     \* widths of the program's own loads and stores
  MaxWidth,   \* the object size in bytes
  None, Null

VARIABLES
  mem,        \* memory of the originating state with every call executed
  ncalls,     \* number of skipped calls made so far
  nstores,    \* number of stores made so far
  lastLoad    \* the most recent load of the originating state and its result

Bytes == 1..MaxWidth

InitVal(a)       == [kind |-> "init",  id |-> a, arg |-> <<>>]
StoreVal(k)      == [kind |-> "store", id |-> k, arg |-> <<>>]
CallVal(i, args) == [kind |-> "call",  id |-> i, arg |-> args]

InitMem == [a \in Addrs |-> [b \in Bytes |-> InitVal(a)]]

\* Write value v over the first w bytes of the object at address a.
WriteMem(m, a, w, v) ==
  [m EXCEPT ![a] = [b \in Bytes |-> IF b <= w THEN v ELSE @[b]]]

ReadMem(m, a, w) == [b \in 1..w |-> m[a][b]]

\* The bytes call f reads before writing (a slice re-reads exactly these).
CallArg(m, f) == IF Reads[f] = None THEN <<>> ELSE ReadMem(m, Reads[f], MaxWidth)

\* Memory after the i-th skipped call, a call of f, executed in place.
CallEffect(m, i, f) ==
  [a \in Addrs |->
     IF a \in Writes[f]
     THEN [b \in Bytes |-> IF b <= FWidth[f] THEN CallVal(i, CallArg(m, f)) ELSE m[a][b]]
     ELSE m[a]]

Init ==
  /\ mem = InitMem
  /\ ncalls = 0
  /\ nstores = 0
  /\ lastLoad = Null

Call(f) ==
  /\ mem' = CallEffect(mem, ncalls, f)
  /\ ncalls' = ncalls + 1
  /\ UNCHANGED <<nstores, lastLoad>>

Store(a, w) ==
  /\ mem' = WriteMem(mem, a, w, StoreVal(nstores))
  /\ nstores' = nstores + 1
  /\ UNCHANGED <<ncalls, lastLoad>>

Load(a, w) ==
  /\ lastLoad' = [addr |-> a, size |-> w, val |-> ReadMem(mem, a, w)]
  /\ UNCHANGED <<mem, ncalls, nstores>>

Next ==
  \/ \E f \in Funcs : Call(f)
  \/ \E a \in Addrs, w \in Widths : Store(a, w)
  \/ \E a \in Addrs, w \in Widths : Load(a, w)

Spec == Init /\ [][Next]_<<mem, ncalls, nstores, lastLoad>>

=============================================================================
