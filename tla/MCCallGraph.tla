----------------------------- MODULE MCCallGraph -----------------------------
(***************************************************************************)
(* The root, a source function and two wrappers.  The edges of the root    *)
(* have no site; the others have one call each.                            *)
(***************************************************************************)
EXTENDS CallGraphSearch, TLC

CONSTANTS root, f, w1, w2, nil, cf, c1, c2

MCSitesIn == root :> {nil} @@ f :> {cf} @@ w1 :> {c1} @@ w2 :> {c2}
=============================================================================
