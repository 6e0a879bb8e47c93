---------------------------- MODULE GraphSearch ----------------------------
(***************************************************************************)
(* What callgraph.PathSearch promises its callers: whoever asks for a way  *)
(* from a node to one of a set of nodes gets one answer, at some time, and *)
(* it is nil exactly if there is no way.  The graph is the caller's until  *)
(* it asks.                                                                *)
(***************************************************************************)
EXTENDS Naturals, Sequences

CONSTANTS
  Nodes,    \* the nodes of the call graph
  Sites     \* the call instructions

VARIABLES
  graph,    \* the edges of the call graph
  start,    \* the node to start from
  end,      \* the nodes that isEnd accepts
  answer    \* Idle, Asked, or what PathSearch returned

vars == <<graph, start, end, answer>>

Idle == [is |-> "idle", path |-> <<>>]
Asked == [is |-> "asked", path |-> <<>>]
Nil == [is |-> "nil", path |-> <<>>]
Path(p) == [is |-> "path", path |-> p]

Reaches(n) ==
  \A S \in SUBSET Nodes :
     start \in S /\ (\A e \in graph : e[1] \in S => e[3] \in S) => n \in S

(* The edges of p lead from start to a node that isEnd accepts.            *)
Leads(p) ==
  /\ \A i \in 1 .. Len(p) : p[i] \in graph
  /\ \A i \in 1 .. Len(p) - 1 : p[i][3] = p[i + 1][1]
  /\ IF p = <<>> THEN start \in end ELSE p[1][1] = start /\ p[Len(p)][3] \in end

Init == answer \in {Idle, Asked}

Ask == answer = Idle /\ answer' \in {Idle, Asked}

Answer ==
  /\ answer = Asked
  /\ \/ answer' = Nil /\ \A n \in end : ~Reaches(n)
     \/ answer'.is = "path" /\ answer' = Path(answer'.path) /\ Leads(answer'.path)
  /\ UNCHANGED <<graph, start, end>>

Next == Ask \/ Answer

Spec == Init /\ [][Next]_vars /\ (answer = Asked ~> answer # Asked)
=============================================================================
