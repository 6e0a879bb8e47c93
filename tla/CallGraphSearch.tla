--------------------------- MODULE CallGraphSearch ---------------------------
(***************************************************************************)
(* A call graph is built, its synthetic nodes may be deleted (CallGraph),  *)
(* and then someone searches it for a path (PathSearch).                   *)
(***************************************************************************)
EXTENDS PathSearch

CONSTANTS Root, Synthetic, Inits, SitesIn, MaxEdges

VARIABLES nodes, in, out, phase, hashed, visit, cur, ins, eIn, outs, missing, before

Graph == INSTANCE CallGraph WITH Funcs <- Nodes, NoFunc <- NoNode

ASSUME GraphAssumption == Graph!ConstantsOK

graphVars == <<nodes, in, out, phase, hashed, visit, cur, ins, eIn, outs, missing, before>>
allVars == <<vars, graphVars>>

SearchInit ==
  /\ Graph!Init
  /\ graph = {} /\ start = NoNode /\ end = {}
  /\ stack = <<>> /\ seen = {} /\ calls = <<>> /\ arg = NoNode /\ result = "idle"

(* A call of PathSearch, on a graph that has been built or reduced.  The   *)
(* search reads the edges and nothing else of the graph, which is given up *)
(* to have fewer states.                                                   *)
Ask(n, E) ==
  /\ phase \in {"build", "done"} /\ n \in nodes /\ E \subseteq nodes
  /\ graph' = {<<l.caller, l.site, l.callee>> : l \in Graph!Links(Graph!AllEdges)}
  /\ start' = n /\ end' = E /\ arg' = n /\ result' = "none"
  /\ phase' = "search"
  /\ nodes' = {} /\ in' = [f \in Nodes |-> {}] /\ out' = [f \in Nodes |-> {}] /\ before' = {}
  /\ UNCHANGED <<hashed, visit, cur, ins, eIn, outs, missing, stack, seen, calls>>

SearchStep == Step /\ UNCHANGED graphVars

SearchNext ==
  \/ Graph!Next /\ UNCHANGED vars
  \/ \E n \in nodes, e \in nodes : Ask(n, {e})
  \/ SearchStep
  \/ result \in {"nil", "path"} /\ UNCHANGED allVars

SearchSpec == SearchInit /\ [][SearchNext]_allVars /\ WF_allVars(SearchStep)

-----------------------------------------------------------------------------
(* DeleteNode never misses an edge, and In and Out stay dual (CallGraph).  *)
EdgesAreDual == Graph!EdgesAreDual

(* DeleteSyntheticNodes keeps what can be reached from each call site of   *)
(* the nodes that it keeps (CallGraph).                                    *)
TopologyPreserved == Graph!TopologyPreserved

(* DeleteSyntheticNodes never adds an edge that duplicates one (CallGraph).*)
NoDuplicates == Graph!NoDuplicates

(* The search does what GraphSearch promises: each call of PathSearch is   *)
(* answered, once, and rightly for the graph it was called on.             *)
KeepsPromise == Promise!Spec
=============================================================================
