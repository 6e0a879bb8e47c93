----------------------------- MODULE Dominators -----------------------------
(***************************************************************************)
(* The dominator tree of a function (ssa/dom.go), the dominance frontier   *)
(* that lifting uses (ssa/lift.go) and the natural loops that              *)
(* functions.findLoops reads off the tree.                                 *)
(*                                                                         *)
(* buildDomTree is the algorithm of Lengauer and Tarjan without path       *)
(* compression and with buckets threaded through one array: bucket[k]      *)
(* holds the first block whose semidominator has number k, or the block    *)
(* with number k itself when there is none; the bucket of that block's     *)
(* own number holds the next.  Before numberDomTree the field pre has the  *)
(* numbers of the depth-first search, after it those of the tree.          *)
(***************************************************************************)
EXTENDS Naturals, Sequences, FiniteSets, SequencesExt

CONSTANTS
  N,        \* the number of blocks
  NoBlock,  \* nil
  Graphs    \* the functions: the successors of each block and Recover

Blocks == 0 .. N - 1
Root == 0

(* What the builder and optimizeBlocks leave: up to two different          *)
(* successors, no way back to the entry, a Recover block without edges,    *)
(* and no block that cannot be reached.                                    *)
Graph == [succs : [Blocks -> Seq(Blocks)], recover : Blocks \cup {NoBlock}]

ConstantsOK ==
  /\ N \in Nat \ {0} /\ NoBlock \notin Blocks
  /\ \A g \in Graphs :
       /\ g \in Graph
       /\ \A b \in Blocks : IsInjective(g.succs[b]) /\ {Root, g.recover} \cap ToSet(g.succs[b]) = {}
       /\ g.recover # NoBlock => g.succs[g.recover] = <<>>

VARIABLES
  graph,     \* the function
  phase,     \* what buildDomTree, buildDomFrontier or findLoops does next
  i,         \* the loop variable of the reverse preorder
  order,     \* preorder, the blocks as the search met them
  pre, post, \* domInfo.pre and post
  parent,    \* ltState.parent: in the spanning tree
  sdom,      \* ltState.sdom
  ancestor,  \* ltState.ancestor
  bucket,    \* buckets, by number
  idom,      \* domInfo.idom
  children,  \* domInfo.children
  frontier,  \* domFrontier: a sequence of blocks for each block
  loops      \* what findLoops returns

search == <<order, parent>>
work == <<sdom, ancestor, bucket>>
tree == <<idom, children>>
vars == <<graph, phase, i, search, pre, post, work, tree, frontier, loops>>

succs == graph.succs
recover == graph.recover
Preds(b) == {p \in Blocks : b \in ToSet(succs[p])}
Roots == {Root, recover} \ {NoBlock}
NoBlocks == [b \in Blocks |-> NoBlock]

Init ==
  /\ phase = "search" /\ i = N - 1
  /\ order = <<>>
  /\ pre = [b \in Blocks |-> 0] /\ post = [b \in Blocks |-> 0]
  /\ parent = NoBlocks /\ sdom = NoBlocks /\ ancestor = NoBlocks
  /\ bucket = NoBlocks
  /\ idom = NoBlocks
  /\ children = [b \in Blocks |-> <<>>]
  /\ frontier = [b \in Blocks |-> <<>>]
  /\ loops = <<>>

-----------------------------------------------------------------------------
(* ltState.dfs, on a record of what it changes.                            *)
RECURSIVE Dfs(_, _)
Dfs(v, st) ==
  LET Visit(s, w) == IF s.sdom[w] = NoBlock THEN Dfs(w, [s EXCEPT !.parent[w] = v]) ELSE s
  IN FoldLeft(Visit, [st EXCEPT !.order = Append(@, v), !.sdom[v] = v], succs[v])

(* Step 1: the entry and then Recover.                                     *)
Search ==
  LET fromRoot == Dfs(Root, [order |-> order, sdom |-> sdom, parent |-> parent])
      st == IF recover = NoBlock THEN fromRoot ELSE Dfs(recover, fromRoot)
  IN
  /\ phase = "search"
  /\ order' = st.order /\ sdom' = st.sdom /\ parent' = st.parent
  /\ pre' = [b \in Blocks |-> CHOOSE k \in Blocks : st.order[k + 1] = b]
  /\ bucket' = [k \in Blocks |-> st.order[k + 1]]
  /\ phase' = IF N > 1 THEN "reverse" ELSE "explicit"
  /\ UNCHANGED <<graph, i, post, ancestor, tree, frontier, loops>>

(* ltState.eval: the block with the least semidominator on the way up to   *)
(* the root of the forest, the root left out.                              *)
RECURSIVE Climb(_, _)
Climb(v, u) ==
  IF ancestor[v] = NoBlock THEN u
  ELSE Climb(ancestor[v], IF pre[sdom[v]] < pre[sdom[u]] THEN v ELSE u)

Eval(v) == Climb(v, v)

(* The blocks of a bucket that ends with w.                                *)
RECURSIVE Chain(_, _)
Chain(v, w) == IF v = w THEN {} ELSE {v} \cup Chain(bucket[pre[v]], w)

(* Step 2: the least of the parent and the predecessors' semidominators.   *)
Semi(w) ==
  LET candidates == {parent[w]} \cup {sdom[Eval(v)] : v \in Preds(w)}
  IN CHOOSE s \in candidates : s = NoBlock \/ \A t \in candidates : pre[s] <= pre[t]

(* Step 3: the blocks with semidominator w get an implicit dominator.      *)
ImplicitIdom(w) ==
  [v \in Blocks |->
     IF v \notin Chain(bucket[i], w) THEN idom[v]
     ELSE LET u == Eval(v) IN IF pre[sdom[u]] < i THEN u ELSE w]

(* One turn of the loop in reverse preorder: steps 3 and 2, link, bucket.  *)
ReverseTurn ==
  LET w == order[i + 1]
      s == Semi(w)
      k == pre[s]
      implicit == ImplicitIdom(w)
  IN
  /\ phase = "reverse"
  /\ sdom' = [sdom EXCEPT ![w] = s]
  /\ ancestor' = [ancestor EXCEPT ![w] = parent[w]]
  /\ \/ /\ s = parent[w]
        /\ idom' = [implicit EXCEPT ![w] = s]
        /\ UNCHANGED bucket
     \/ /\ s # parent[w]
        /\ idom' = implicit
        /\ bucket' = [bucket EXCEPT ![i] = bucket[k], ![k] = w]
  /\ i' = i - 1
  /\ phase' = IF i = 1 THEN "explicit" ELSE "reverse"
  /\ UNCHANGED <<graph, search, pre, post, children, frontier, loops>>

(* Bug: the dominators are made explicit in an order that does not help.   *)
ExplicitIdomUnordered(from) ==
  [w \in Blocks |-> IF w \in Roots THEN NoBlock ELSE IF from[w] = sdom[w] THEN from[w] ELSE from[from[w]]]

(* Step 4, in preorder.                                                    *)
ExplicitIdom(from) ==
  LET Set(d, w) ==
        IF w \in Roots THEN [d EXCEPT ![w] = NoBlock]
        ELSE IF d[w] = sdom[w] THEN d ELSE [d EXCEPT ![w] = d[d[w]]]
  IN FoldLeft(Set, from, Tail(order))

(* The last step 3, for the bucket of the root, then step 4 and children.  *)
Explicit ==
  LET first == Chain(bucket[0], Root)
      d == ExplicitIdom([v \in Blocks |-> IF v \in first THEN Root ELSE idom[v]])
  IN
  /\ phase = "explicit"
  /\ idom' = d
  /\ children' = [b \in Blocks |-> SelectSeq(order, LAMBDA w : d[w] = b)]
  /\ phase' = "number"
  /\ UNCHANGED <<graph, i, search, pre, post, work, frontier, loops>>

(* numberDomTree, on a record of what it changes.                          *)
RECURSIVE NumberDomTree(_, _)
NumberDomTree(v, st) ==
  LET entered == [st EXCEPT !.pre[v] = st.in, !.in = @ + 1]
      Child(s, w) == NumberDomTree(w, s)
      left == FoldLeft(Child, entered, children[v])
  IN [left EXCEPT !.post[v] = left.out, !.out = @ + 1]

(* Both trees, numbered from the counters of st on.                        *)
NumberTrees(st) ==
  LET one == NumberDomTree(Root, st)
  IN IF recover = NoBlock THEN one ELSE NumberDomTree(recover, one)

Renumber(st) ==
  /\ phase = "number"
  /\ pre' = st.pre /\ post' = st.post
  /\ phase' = "frontier"
  /\ UNCHANGED <<graph, i, search, work, tree, frontier, loops>>

(* numberDomTree for the entry and for Recover.                            *)
Number == Renumber(NumberTrees([pre |-> pre, post |-> post, in |-> 0, out |-> 0]))

(* BasicBlock.Dominates                                                    *)
Dominates(b, c) == pre[b] <= pre[c] /\ post[c] <= post[b]

(* Function.DomPreorder                                                    *)
DomPreorder == SetToSortSeq(Blocks, LAMBDA b, c : pre[b] < pre[c])

(* Bug: what the children leave is not filtered.                           *)
RECURSIVE FrontierUnfiltered(_, _)
FrontierUnfiltered(u, df) ==
  LET Child(d, w) == FrontierUnfiltered(w, d)
      below == FoldLeft(Child, df, children[u])
      local == SelectSeq(succs[u], LAMBDA v : idom[v] # u)
      up == FlattenSeq([k \in DOMAIN children[u] |-> below[children[u][k]]])
  IN [below EXCEPT ![u] = @ \o local \o up]

(* domFrontier.build: the subtrees, then u from its successors and them.   *)
RECURSIVE Frontier(_, _)
Frontier(u, df) ==
  LET Child(d, w) == Frontier(w, d)
      below == FoldLeft(Child, df, children[u])
      Outside(s) == SelectSeq(s, LAMBDA v : idom[v] # u)
      up == FlattenSeq([k \in DOMAIN children[u] |-> Outside(below[children[u][k]])])
  IN [below EXCEPT ![u] = @ \o Outside(succs[u]) \o up]

BuildDomFrontier ==
  LET one == Frontier(Root, frontier) IN
  /\ phase = "frontier"
  /\ frontier' = IF recover = NoBlock THEN one ELSE Frontier(recover, one)
  /\ phase' = "loops"
  /\ UNCHANGED <<graph, i, search, pre, post, work, tree, loops>>

(* allPredsBut: the list, extended by what leads to b without passing but. *)
RECURSIVE AllPredsBut(_, _, _)
AllPredsBut(b, but, list) ==
  LET Pred(s, p) == IF p = but \/ p \in ToSet(s) THEN s ELSE AllPredsBut(p, but, Append(s, p))
  IN FoldLeft(Pred, list, SetToSeq(Preds(b)))

(* Bug: every edge to a block that the search met earlier closes a loop.   *)
LoopsOfRetreating(h) ==
  LET tails == SetToSeq({n \in Preds(h) : pre[h] <= pre[n]})
  IN [k \in DOMAIN tails |->
        LET n == tails[k] IN IF n = h THEN {h} ELSE {h, n} \cup ToSet(AllPredsBut(n, h, <<>>))]

(* The loops with the header h.                                            *)
LoopsOf(h) ==
  LET tails == SetToSeq({n \in Preds(h) : Dominates(h, n)})
  IN [k \in DOMAIN tails |->
        LET n == tails[k] IN IF n = h THEN {h} ELSE {h, n} \cup ToSet(AllPredsBut(n, h, <<>>))]

FindLoops ==
  /\ phase = "loops"
  /\ loops' = FlattenSeq([k \in 1 .. N |-> LoopsOf(DomPreorder[k])])
  /\ phase' = "done"
  /\ UNCHANGED <<graph, i, search, pre, post, work, tree, frontier>>

Done == phase = "done"

Next == Search \/ ReverseTurn \/ Explicit \/ Number \/ BuildDomFrontier \/ FindLoops

-----------------------------------------------------------------------------
(* The blocks of W that can be reached from S inside W.                    *)
Reachable(S, W) ==
  LET near[n \in 0 .. N] ==
        IF n = 0 THEN S \cap W
        ELSE LET X == near[n - 1] IN X \cup {w \in W : \E v \in X : w \in ToSet(succs[v])}
  IN near[N]

(* The definition: every way to c passes b.                                *)
IsDominator(b, c) == b = c \/ c \notin Reachable(Roots \ {b}, Blocks \ {b})

(* sanityCheckDomTree: dominators as the greatest solution of the data     *)
(* flow equations, where Recover counts as a root like the entry.          *)
Kildall ==
  LET start == [b \in Blocks |-> IF b \in Roots THEN {Root} ELSE Blocks]
      Meet(d, b) == {c \in Blocks : c = b \/ \A p \in Preds(b) : c \in d[p]}
      Sweep(d) == FoldLeft(LAMBDA e, b : IF b \in Roots THEN e ELSE [e EXCEPT ![b] = Meet(e, b)],
                           d, [k \in 1 .. N |-> k - 1])
      sweeps[n \in 0 .. N] == IF n = 0 THEN start ELSE Sweep(sweeps[n - 1])
  IN sweeps[N]

SanityCheckDomTree ==
  LET D == Kildall IN
  /\ \A b \in Blocks : \A c \in Blocks \ {recover} : Dominates(b, c) <=> b \in D[c]
  /\ \A b \in Blocks : DomPreorder[pre[b] + 1] = b

(***************************************************************************)
(* Dominates answers by the numbers of the tree what the paths of the      *)
(* graph say, whatever the shape of the graph, and Idom is the closest     *)
(* strict dominator.  The panics of sanityCheckDomTree, which compares the *)
(* tree with another algorithm and its numbers with the preorder, are      *)
(* never reached.                                                          *)
(***************************************************************************)
DominatesIsRight ==
  phase = "frontier" =>
    /\ SanityCheckDomTree
    /\ \A b, c \in Blocks : Dominates(b, c) <=> IsDominator(b, c)
    /\ \A c \in Blocks \ Roots : \A b \in Blocks \ {c} : IsDominator(b, c) => IsDominator(b, idom[c])

(***************************************************************************)
(* The frontier of u holds the blocks where the dominance of u ends.       *)
(***************************************************************************)
FrontierIsRight ==
  phase = "loops" =>
    \A u \in Blocks :
      ToSet(frontier[u]) =
        {v \in Blocks : ~(u # v /\ IsDominator(u, v)) /\ \E p \in Preds(v) : IsDominator(u, p)}

(***************************************************************************)
(* findLoops finds each natural loop once: the edges back to a block that  *)
(* dominates their source, with what leads there without passing the       *)
(* header.                                                                 *)
(***************************************************************************)
LoopsAreNatural ==
  LET back == {e \in Blocks \X Blocks : e[1] \in Preds(e[2]) /\ IsDominator(e[2], e[1])}
      Natural(e) == {e[2]} \cup {b \in Blocks \ {e[2]} : e[1] \in Reachable({b}, Blocks \ {e[2]})}
  IN Done => /\ ToSet(loops) = {Natural(e) : e \in back}
             /\ Len(loops) = Cardinality(back)
=============================================================================
