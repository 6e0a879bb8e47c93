----------------------------- MODULE PathSearch -----------------------------
(***************************************************************************)
(* callgraph.PathSearch: a depth-first search, written as a recursive      *)
(* closure, for a path of edges from one node to a node that isEnd         *)
(* accepts.  functions.IsPure relies on it: a nil answer has to mean that  *)
(* no path exists, or two jobs can wait for each other.                    *)
(*                                                                         *)
(* An edge is a triple of caller, site and callee.  The slice n.Out is     *)
(* documented as an unordered set, so a loop over it takes any edge that   *)
(* is left.                                                                *)
(***************************************************************************)
EXTENDS Naturals, Sequences

CONSTANTS
  Nodes,    \* the nodes of the call graph
  Sites,    \* the call instructions
  NoNode    \* no call of search is being entered

ASSUME NoNodeAssumption == NoNode \notin Nodes

Edge == Nodes \X Sites \X Nodes
Caller(e) == e[1]
Callee(e) == e[3]

VARIABLES
  graph,    \* the edges of the call graph
  start,    \* the node to start from
  end,      \* the nodes that isEnd accepts
  stack,    \* the edges on the way to the current node
  seen,     \* the nodes that have been entered
  calls,    \* the calls of search that are in their loop: node and edges left
  arg,      \* the node search is being called for, or NoNode
  result    \* "none", then "nil" or "path"

vars == <<graph, start, end, stack, seen, calls, arg, result>>

Out(n) == {e \in graph : Caller(e) = n}

TypeOK ==
  /\ graph \subseteq Edge
  /\ start \in Nodes
  /\ end \subseteq Nodes
  /\ stack \in Seq(Edge)
  /\ seen \subseteq Nodes
  /\ calls \in Seq([node : Nodes, left : SUBSET Edge])
  /\ \A i \in 1 .. Len(calls) : calls[i].left \subseteq Out(calls[i].node)
  /\ arg \in Nodes \cup {NoNode}
  /\ result \in {"none", "nil", "path"}

Init ==
  /\ graph \in SUBSET Edge
  /\ start \in Nodes
  /\ end \in SUBSET Nodes
  /\ stack = <<>>
  /\ seen = {}
  /\ calls = <<>>
  /\ arg = start
  /\ result = "none"

Depth == Len(calls)
Front(s) == SubSeq(s, 1, Len(s) - 1)

-----------------------------------------------------------------------------
(* search(n) for a node that isEnd accepts: every call returns the stack.  *)
Found ==
  /\ arg \in Nodes \ seen
  /\ arg \in end
  /\ seen' = seen \cup {arg}
  /\ result' = "path"
  /\ arg' = NoNode
  /\ UNCHANGED <<graph, start, end, stack, calls>>

(* Bug: isEnd is not asked of the first node.                              *)
EnterStart ==
  /\ arg \in Nodes \ seen
  /\ arg \in end => arg = start
  /\ seen' = seen \cup {arg}
  /\ calls' = Append(calls, [node |-> arg, left |-> Out(arg)])
  /\ arg' = NoNode
  /\ UNCHANGED <<graph, start, end, stack, result>>

(* search(n) for another new node: begin the loop over n.Out.              *)
Enter ==
  /\ arg \in Nodes \ (seen \cup end)
  /\ seen' = seen \cup {arg}
  /\ calls' = Append(calls, [node |-> arg, left |-> Out(arg)])
  /\ arg' = NoNode
  /\ UNCHANGED <<graph, start, end, stack, result>>

(* search(n) for a node that was seen returns nil; the caller pops.        *)
Seen ==
  /\ arg \in seen
  /\ stack' = Front(stack)
  /\ arg' = NoNode
  /\ UNCHANGED <<graph, start, end, seen, calls, result>>

(* Bug: the edge is taken from the node, not from what is left of it.      *)
PushAgain ==
  /\ arg = NoNode /\ result = "none" /\ Depth > 0
  /\ \E e \in Out(calls[Depth].node) :
        /\ stack' = Append(stack, e)
        /\ arg' = Callee(e)
  /\ UNCHANGED <<graph, start, end, seen, calls, result>>

(* The next edge: push it, and search its callee.                          *)
Push ==
  /\ arg = NoNode /\ result = "none" /\ Depth > 0
  /\ \E e \in calls[Depth].left :
        /\ calls' = [calls EXCEPT ![Depth].left = @ \ {e}]
        /\ stack' = Append(stack, e)
        /\ arg' = Callee(e)
  /\ UNCHANGED <<graph, start, end, seen, result>>

(* No edge left: search returns nil, and its caller pops and goes on.      *)
Return ==
  /\ arg = NoNode /\ result = "none" /\ Depth > 0
  /\ calls[Depth].left = {}
  /\ calls' = Front(calls)
  /\ \/ Depth > 1 /\ stack' = Front(stack) /\ UNCHANGED result
     \/ Depth = 1 /\ result' = "nil" /\ UNCHANGED stack
  /\ UNCHANGED <<graph, start, end, seen, arg>>

Step == Found \/ Enter \/ Seen \/ Push \/ Return

Returned == result # "none" /\ UNCHANGED vars

Next == Step \/ Returned

Spec == Init /\ [][Next]_vars /\ WF_vars(Step)

-----------------------------------------------------------------------------
(* n can be reached: it is in every set that has start and is closed.      *)
ClosedUnder(S, G) == \A e \in G : Caller(e) \in S => Callee(e) \in S
Reachable(n) == \A S \in SUBSET Nodes : start \in S /\ ClosedUnder(S, graph) => n \in S

IsPath(s) ==
  /\ \A i \in 1 .. Len(s) : s[i] \in graph
  /\ s # <<>> => Caller(s[1]) = start
  /\ \A i \in 1 .. Len(s) - 1 : Callee(s[i]) = Caller(s[i + 1])

EndOf(s) == IF s = <<>> THEN start ELSE Callee(s[Len(s)])

(***************************************************************************)
(* The answer is nil exactly if no node that isEnd accepts can be reached, *)
(* and otherwise the stack is a path of edges of the graph from start to   *)
(* such a node, whatever the order of the edges.                           *)
(***************************************************************************)
SearchIsRight ==
  /\ result = "nil" => \A n \in end : ~Reachable(n)
  /\ result = "path" => IsPath(stack) /\ EndOf(stack) \in end

(***************************************************************************)
(* The depth of the recursion and the length of the stack stay in step,    *)
(* and the stack is always a path to the node being searched, so that what *)
(* is popped is the edge that was pushed.                                  *)
(***************************************************************************)
StackInStep ==
  result = "none" =>
    /\ IsPath(stack)
    /\ IF arg = NoNode THEN Depth = Len(stack) + 1 ELSE Depth = Len(stack)
    /\ \A i \in 1 .. Depth : calls[i].node = (IF i = 1 THEN start ELSE Callee(stack[i - 1]))

(***************************************************************************)
(* PathSearch as its callers see it: the question is put at once, and the  *)
(* answer is given in one step.                                            *)
(***************************************************************************)
Promise ==
  INSTANCE GraphSearch WITH
    answer <- [is |-> CASE result = "none" -> "asked" [] result = "nil" -> "nil" [] result = "path" -> "path"
                        [] OTHER -> "idle",
               path |-> IF result = "path" THEN stack ELSE <<>>]
=============================================================================
