-------------------------------- MODULE Scc --------------------------------
(***************************************************************************)
(* Graph.FindSCCs (staticcheck/vrp/vrp.go): Tarjan's algorithm on the      *)
(* constraint graph, whose components Solve then takes in the order of     *)
(* their numbers.  Vertices come in the order of a Go map and successors   *)
(* in the order in which phis list their operands, which is again that of  *)
(* a map, so both are chosen freely here.                                  *)
(***************************************************************************)
EXTENDS Integers, Sequences, FiniteSets, SequencesExt

CONSTANTS
  Vertices,   \* the vertices, without their values
  Graphs      \* the functions from a vertex to its successors

ASSUME GraphsAssumption == Graphs \subseteq [Vertices -> SUBSET Vertices]

VARIABLES
  succs,      \* Vertex.Succs
  index,      \* the smallest unused index
  indexOf,    \* Vertex.index, 0 before the visit
  lowlink,    \* Vertex.lowlink
  s,          \* the stack of vertices that have no component yet
  scc,        \* the number of components found
  SCC,        \* Vertex.SCC, -1 before it is set
  calls,      \* the active calls of strongconnect, each with its edges left
  done        \* the components are numbered

vars == <<succs, index, indexOf, lowlink, s, scc, SCC, calls, done>>

Least(a, b) == IF a < b THEN a ELSE b

Init ==
  /\ succs \in Graphs
  /\ index = 1
  /\ indexOf = [v \in Vertices |-> 0]
  /\ lowlink = [v \in Vertices |-> 0]
  /\ s = <<>>
  /\ scc = 0
  /\ SCC = [v \in Vertices |-> -1]
  /\ calls = <<>>
  /\ done = FALSE

Top == Last(calls)
Enter(v, cs) == Append(cs, [v |-> v, left |-> succs[v]])

(* The head of strongconnect.                                              *)
Visit(v, cs) ==
  /\ indexOf' = [indexOf EXCEPT ![v] = index]
  /\ lowlink' = [lowlink EXCEPT ![v] = index]
  /\ index' = index + 1
  /\ s' = Append(s, v)
  /\ calls' = Enter(v, cs)
  /\ UNCHANGED <<succs, scc, SCC, done>>

(* The loop over Vertices calls strongconnect for what is not visited yet. *)
Root(v) ==
  /\ calls = <<>> /\ indexOf[v] = 0
  /\ Visit(v, calls)

(* The last of the calls cs is done with its edge to w.                    *)
LeaveOut(cs, w) == [cs EXCEPT ![Len(cs)] = [v |-> @.v, left |-> @.left \ {w}]]

(* An edge to a vertex that is not visited yet; it stays in left until the *)
(* call returns.                                                           *)
Descend(w) ==
  /\ calls # <<>> /\ w \in Top.left /\ indexOf[w] = 0
  /\ Visit(w, calls)

(* Bug: an edge to a finished component counts, too.                       *)
LookAnywhere(w) ==
  /\ calls # <<>> /\ w \in Top.left /\ indexOf[w] # 0
  /\ lowlink' = [lowlink EXCEPT ![Top.v] = Least(@, indexOf[w])]
  /\ calls' = LeaveOut(calls, w)
  /\ UNCHANGED <<succs, index, indexOf, s, scc, SCC, done>>

(* An edge to a vertex that is on the stack, or in a finished component.   *)
Look(w) ==
  /\ calls # <<>> /\ w \in Top.left /\ indexOf[w] # 0
  /\ lowlink' = IF w \in Range(s) THEN [lowlink EXCEPT ![Top.v] = Least(@, indexOf[w])]
                ELSE lowlink
  /\ calls' = LeaveOut(calls, w)
  /\ UNCHANGED <<succs, index, indexOf, s, scc, SCC, done>>

(* Taking the component of v off the stack.                                *)
PopComponent(v) ==
  LET at == CHOOSE i \in DOMAIN s : s[i] = v
  IN /\ SCC' = [w \in Vertices |-> IF \E i \in at..Len(s) : s[i] = w THEN scc ELSE SCC[w]]
     /\ s' = SubSeq(s, 1, at - 1)
     /\ scc' = scc + 1

(* The end of strongconnect: a root takes its component off the stack, and *)
(* the caller, if there is one, goes on with the lowlink of its callee.    *)
Return ==
  LET v == Top.v
      caller == Len(calls) - 1
  IN /\ calls # <<>> /\ Top.left = {}
     /\ IF lowlink[v] = indexOf[v] THEN PopComponent(v) ELSE UNCHANGED <<SCC, s, scc>>
     /\ IF caller = 0 THEN calls' = <<>> /\ UNCHANGED lowlink
        ELSE /\ calls' = LeaveOut(Front(calls), v)
             /\ lowlink' = [lowlink EXCEPT ![calls[caller].v] = Least(@, lowlink[v])]
     /\ UNCHANGED <<succs, index, indexOf, done>>

(* Components were found from the last to the first.                       *)
Number ==
  /\ ~done /\ calls = <<>> /\ \A v \in Vertices : indexOf[v] # 0
  /\ SCC' = [v \in Vertices |-> scc - SCC[v] - 1]
  /\ done' = TRUE
  /\ UNCHANGED <<succs, index, indexOf, lowlink, s, scc, calls>>

Next ==
  \/ \E v \in Vertices : Root(v) \/ Descend(v) \/ Look(v)
  \/ Return
  \/ Number
  \/ done /\ UNCHANGED vars

Spec == Init /\ [][Next]_vars

-----------------------------------------------------------------------------
(* A path leads from v to w: w is in every set that v cannot leave.        *)
Closed(G, S) == \A v \in S : G[v] \subseteq S
Reaches(G, v, w) == \A S \in SUBSET Vertices : v \in S /\ Closed(G, S) => w \in S

(***************************************************************************)
(* Two vertices get the same number exactly if each reaches the other, and *)
(* Solve, which takes the components in the order of their numbers, finds  *)
(* no edge to an earlier one and a vertex for every number up to the last. *)
(***************************************************************************)
ComponentsAreOrdered ==
  done =>
    /\ \A v, w \in Vertices :
          SCC[v] = SCC[w] <=> Reaches(succs, v, w) /\ Reaches(succs, w, v)
    /\ \A v \in Vertices : \A w \in succs[v] : SCC[v] <= SCC[w]
    /\ {SCC[v] : v \in Vertices} = 0..(scc - 1)
=============================================================================
