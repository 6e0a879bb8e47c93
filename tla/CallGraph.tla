------------------------------ MODULE CallGraph ------------------------------
(***************************************************************************)
(* callgraph.Graph: CreateNode, AddEdge, DeleteNode and                    *)
(* DeleteSyntheticNodes, which replaces the paths through the nodes of     *)
(* wrappers by edges and deletes those nodes while it iterates over the    *)
(* map of nodes.                                                           *)
(*                                                                         *)
(* An edge is a pointer: two edges may have the same caller, site and      *)
(* callee, and are then told apart by a number.  In and Out are documented *)
(* as unordered sets of edges, and are sets here; a range loop over one of *)
(* them works on the elements it had when the loop began.                  *)
(***************************************************************************)
EXTENDS Naturals, FiniteSets

CONSTANTS
  Funcs,       \* the functions
  Root,        \* the function of g.Root
  Synthetic,   \* the functions with a non-empty Synthetic
  Inits,       \* the package initializers
  Sites,       \* the call instructions, and nil
  SitesIn,     \* the sites that the edges of a function can have
  NoFunc,      \* no node is being inlined
  MaxEdges     \* bound: how many edges are added before the deletion

ConstantsOK ==
  /\ Root \in Funcs /\ Synthetic \subseteq Funcs /\ Inits \subseteq Funcs
  /\ NoFunc \notin Funcs
  /\ SitesIn \in [Funcs -> SUBSET Sites]

VARIABLES
  nodes,    \* the keys of g.Nodes
  in,       \* Node.In
  out,      \* Node.Out
  phase,    \* "build", "delete" or "done"
  hashed,   \* edges: the callers, sites and callees of all edges
  visit,    \* the nodes to delete that the iteration has not come to
  cur,      \* the node being inlined, or NoFunc
  ins,      \* the edges of cur.In that are left
  eIn,      \* the edge of the outer loop
  outs,     \* the edges of cur.Out that are left for it
  missing,  \* an edge was not found where it should be: the code panics
  before    \* history: the edges when the deletion began

vars == <<nodes, in, out, phase, hashed, visit, cur, ins, eIn, outs, missing, before>>
loopVars == <<visit, cur, ins, eIn, outs>>

Link == [caller : Funcs, site : Sites, callee : Funcs]
Edge == [copy : Nat, link : Link]
Links(E) == {e.link : e \in E}
AllEdges == UNION {out[f] : f \in Funcs}

Kept(f) == f = Root \/ f \notin Synthetic \/ f \in Inits

NoLoop == visit = {} /\ cur = NoFunc /\ ins = {} /\ eIn = {} /\ outs = {}

Init ==
  /\ nodes = {Root}
  /\ in = [f \in Funcs |-> {}]
  /\ out = [f \in Funcs |-> {}]
  /\ phase = "build"
  /\ hashed = {}
  /\ NoLoop
  /\ missing = FALSE
  /\ before = {}

-----------------------------------------------------------------------------
CreateNode(f) ==
  /\ phase = "build"
  /\ f \notin nodes
  /\ nodes' = nodes \cup {f}
  /\ UNCHANGED <<in, out, phase, hashed, loopVars, missing, before>>

(* AddEdge allocates an edge and enters it at both of its ends.            *)
AddEdge(l) ==
  LET e == [copy |-> Cardinality({d \in out[l.caller] : d.link = l}), link |-> l] IN
  /\ in' = [in EXCEPT ![l.callee] = @ \cup {e}]
  /\ out' = [out EXCEPT ![l.caller] = @ \cup {e}]

Build(l) ==
  /\ phase = "build"
  /\ Cardinality(AllEdges) < MaxEdges
  /\ l.caller \in nodes /\ l.callee \in nodes /\ l.site \in SitesIn[l.caller]
  /\ AddEdge(l)
  /\ UNCHANGED <<nodes, phase, hashed, loopVars, missing, before>>

(* DeleteSyntheticNodes: hash the edges, begin to iterate over the nodes,  *)
(* of which the root, source functions and initializers are skipped.       *)
HashEdges ==
  /\ phase = "build"
  /\ phase' = "delete"
  /\ hashed' = Links(AllEdges)
  /\ visit' = {f \in nodes : ~Kept(f)}
  /\ before' = Links(AllEdges)
  /\ UNCHANGED <<nodes, in, out, cur, ins, eIn, outs, missing>>

(* The map iteration comes to a node, in any order.                        *)
BeginInline(f) ==
  /\ phase = "delete" /\ cur = NoFunc
  /\ f \in visit
  /\ visit' = visit \ {f}
  /\ cur' = f
  /\ ins' = in[f]
  /\ UNCHANGED <<nodes, in, out, phase, hashed, eIn, outs, missing, before>>

(* The next edge of the outer loop; the inner loop reads cgn.Out anew.     *)
NextIn(e) ==
  /\ cur # NoFunc
  /\ outs = {}
  /\ e \in ins
  /\ ins' = ins \ {e}
  /\ eIn' = {e}
  /\ outs' = out[cur]
  /\ UNCHANGED <<nodes, in, out, phase, hashed, visit, cur, missing, before>>

(* Bug: the new edge has the site of the call in the wrapper.              *)
InlinedAtCallee(e, g) == [caller |-> e.link.caller, site |-> g.link.site, callee |-> g.link.callee]

(* The call of eIn, with the callee of eOut.                               *)
Inlined(e, g) == [caller |-> e.link.caller, site |-> e.link.site, callee |-> g.link.callee]

(* Bug: the hash only has the edges that were there at first.              *)
NextOutHashesNot(g) ==
  /\ cur # NoFunc
  /\ g \in outs
  /\ outs' = outs \ {g}
  /\ \E e \in eIn :
        \/ Inlined(e, g) \in hashed /\ UNCHANGED <<in, out>>
        \/ Inlined(e, g) \notin hashed /\ AddEdge(Inlined(e, g))
  /\ UNCHANGED <<nodes, phase, hashed, visit, cur, ins, eIn, missing, before>>

(* One turn of the inner loop.                                             *)
NextOut(g) ==
  /\ cur # NoFunc
  /\ g \in outs
  /\ outs' = outs \ {g}
  /\ \E e \in eIn :
        \/ /\ Inlined(e, g) \in hashed
           /\ UNCHANGED <<in, out, hashed>>
        \/ /\ Inlined(e, g) \notin hashed
           /\ AddEdge(Inlined(e, g))
           /\ hashed' = hashed \cup {Inlined(e, g)}
  /\ UNCHANGED <<nodes, phase, visit, cur, ins, eIn, missing, before>>

(* Bug: deleteIns uses the edges of n.In that deleteOuts already removed.  *)
DeleteNodeOutsFirst ==
  LET n == cur
      i == [f \in Funcs |-> in[f] \ out[n]]
      o == [out EXCEPT ![n] = {}]
  IN
  /\ cur # NoFunc /\ ins = {} /\ outs = {}
  /\ missing' = (missing \/ (\E e \in in[n] : e \notin o[e.link.caller]))
  /\ out' = [f \in Funcs |-> o[f] \ in[n]]
  /\ in' = [i EXCEPT ![n] = {}]
  /\ nodes' = nodes \ {n}
  /\ cur' = NoFunc /\ eIn' = {}
  /\ UNCHANGED <<phase, hashed, visit, ins, outs, before>>

(* DeleteNode: deleteIns takes n's incoming edges out of their callers,    *)
(* and empties n.In; deleteOuts then takes what is left of n.Out out of    *)
(* its callees.  removeOutEdge and removeInEdge panic if the edge is not   *)
(* there.                                                                  *)
DeleteNode ==
  LET n == cur
      o == [f \in Funcs |-> out[f] \ in[n]]
      i == [in EXCEPT ![n] = {}]
  IN
  /\ cur # NoFunc /\ ins = {} /\ outs = {}
  /\ missing' = (missing \/ (\E e \in in[n] : e \notin out[e.link.caller])
                         \/ (\E e \in o[n] : e \notin i[e.link.callee]))
  /\ out' = [o EXCEPT ![n] = {}]
  /\ in' = [f \in Funcs |-> i[f] \ o[n]]
  /\ nodes' = nodes \ {n}
  /\ cur' = NoFunc /\ eIn' = {}
  /\ UNCHANGED <<phase, hashed, visit, ins, outs, before>>

Done ==
  /\ phase = "delete" /\ cur = NoFunc /\ visit = {}
  /\ phase' = "done"
  /\ hashed' = {}
  /\ UNCHANGED <<nodes, in, out, loopVars, missing, before>>

Delete ==
  \/ \E f \in visit : BeginInline(f)
  \/ \E e \in ins : NextIn(e)
  \/ \E g \in outs : NextOut(g)
  \/ DeleteNode
  \/ Done

Next ==
  \/ \E f \in Funcs : CreateNode(f)
  \/ \E l \in Link : Build(l)
  \/ HashEdges
  \/ Delete
  \/ phase = "done" /\ UNCHANGED vars

Spec == Init /\ [][Next]_vars

-----------------------------------------------------------------------------
(***************************************************************************)
(* An edge is in the Out of its caller exactly if it is in the In of its   *)
(* callee, both are nodes of the graph, and so DeleteNode finds the edges  *)
(* it removes.                                                             *)
(***************************************************************************)
EdgesAreDual ==
  /\ ~missing
  /\ \A f \in Funcs : \A e \in in[f] : e.link.callee = f /\ e \in out[e.link.caller]
  /\ \A f \in Funcs : \A e \in out[f] : e.link.caller = f /\ e \in in[e.link.callee]
  /\ \A f \in Funcs \ nodes : in[f] = {} /\ out[f] = {}

(***************************************************************************)
(* What a call site of a kept function reached through deleted nodes.      *)
(***************************************************************************)
Through(l, L) ==
  {f \in Funcs :
     \A S \in SUBSET Funcs :
        /\ l.callee \in S
        /\ \A m \in L : m.caller \in S /\ ~Kept(m.caller) => m.callee \in S
        => f \in S}

(***************************************************************************)
(* The deletion preserves the topology: afterwards a site of a kept node   *)
(* has an edge to a kept node exactly if, before, it had one, or a path to *)
(* it through nodes that are deleted.                                      *)
(***************************************************************************)
TopologyPreserved ==
  phase = "done" =>
    Links(AllEdges) =
      {m \in Link :
         /\ Kept(m.caller) /\ Kept(m.callee)
         /\ \E l \in before :
               l.caller = m.caller /\ l.site = m.site /\ m.callee \in Through(l, before)}

(***************************************************************************)
(* The deletion never adds an edge beside one with the same caller, site   *)
(* and callee, although one call can reach one function through several    *)
(* nodes that are deleted, and although the hash of edges is made before   *)
(* the deletion and is never cleared of the edges that it removes.         *)
(***************************************************************************)
AddsNoDuplicate == \A e \in AllEdges' \ AllEdges : e.link \notin Links(AllEdges)
NoDuplicates == [][phase = "delete" => AddsNoDuplicate]_vars
=============================================================================
