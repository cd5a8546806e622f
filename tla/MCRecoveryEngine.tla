--------------------------- MODULE MCRecoveryEngine ---------------------------
(***************************************************************************)
(* Two skipped callees over two addresses.  f writes x from y, and the mod *)
(* analysis over-approximates it as writing y too (an empty slice); g      *)
(* writes x and y from x, so its slice for x reads what earlier calls     *)
(* wrote: recovering x from a later snapshot of g *)
(* needs a nested recovery from an earlier snapshot.                       *)
(***************************************************************************)
EXTENDS RecoveryEngine

CONSTANTS f, g, x, y

MCFuncs  == {f, g}
MCAddrs  == {x, y}
MCWrites == (f :> {x}) @@ (g :> {x, y})
MCMods   == (f :> {x, y}) @@ (g :> {x, y})
MCReads  == (f :> y) @@ (g :> x)
MCFWidth == (f :> 1) @@ (g :> 1)

\* Two-byte objects: the callees write whole objects, the program's own
\* loads and stores may cover one byte or both.
MCFWidth2 == (f :> 2) @@ (g :> 2)
=============================================================================
