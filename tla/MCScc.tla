------------------------------- MODULE MCScc -------------------------------
(* All graphs with N vertices.                                             *)
EXTENDS Scc

CONSTANT N

MCVertices == 1..N
MCGraphs == {g \in [MCVertices -> SUBSET MCVertices] : \A v \in MCVertices : v \notin g[v]}
=============================================================================
