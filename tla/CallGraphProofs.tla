--------------------------- MODULE CallGraphProofs ---------------------------
(***************************************************************************)
(* For every call graph, deleting the synthetic nodes keeps In and Out     *)
(* dual and preserves what the remaining call sites reach; and for every   *)
(* call graph, start node and set of end nodes, PathSearch answers nil     *)
(* exactly if no end node can be reached.                                  *)
(***************************************************************************)
EXTENDS CallGraphSearch, FiniteSetTheorems, SequenceTheorems, TLAPS

Edges == Graph!Links(Graph!AllEdges)

(* The calls from the site s of the function c lead to the functions of    *)
(* Reach(c, s, L), directly or through nodes that are to be deleted.       *)
Reach(c, s, L) ==
  {f \in Nodes : \E m \in L : m.caller = c /\ m.site = s /\ f \in Graph!Through(m, L)}

GraphTypeOK ==
  /\ nodes \subseteq Nodes
  /\ in \in [Nodes -> SUBSET Graph!Edge]
  /\ out \in [Nodes -> SUBSET Graph!Edge]
  /\ \A f \in Nodes : IsFiniteSet(out[f])
  /\ phase \in {"build", "delete", "done", "search"}
  /\ hashed \subseteq Graph!Link
  /\ before \subseteq Graph!Link
  /\ missing \in BOOLEAN

(* Where the three loops are.  The nodes of wrappers that are left are     *)
(* still to be visited, or are being inlined.                              *)
LoopInv ==
  /\ visit \subseteq {f \in nodes : ~Graph!Kept(f)}
  /\ phase # "delete" => visit = {} /\ cur = NoNode
  /\ phase = "delete" => \A f \in nodes : Graph!Kept(f) \/ f \in visit \/ f = cur
  /\ cur = NoNode => ins = {} /\ eIn = {} /\ outs = {}
  /\ cur # NoNode =>
       /\ cur \in nodes \ visit /\ ~Graph!Kept(cur)
       /\ ins \subseteq in[cur] /\ eIn \subseteq in[cur] /\ outs \subseteq out[cur]
  /\ \A e, d \in eIn : e = d

(* The hash has all edges, and of the links between nodes that are left no *)
(* others: what it remembers of deleted nodes can not be asked for.        *)
HashInv ==
  phase = "delete" =>
    /\ Edges \subseteq hashed
    /\ \A l \in hashed : l.caller \in nodes /\ l.callee \in nodes => l \in Edges

(* The pairs of the loops that are done have their edge.  An edge that is  *)
(* added to the Out of the node being inlined has the callee of another    *)
(* one that is there already, and none is added to its In.                 *)
InlineInv ==
  cur # NoNode =>
    \A e \in in[cur] \ ins : \A g \in out[cur] :
       \/ Graph!Inlined(e, g) \in hashed
       \/ e \in eIn /\ \E h \in outs : h.link.callee = g.link.callee

(* No edge is made up ...                                                  *)
SoundInv ==
  phase = "delete" => \A m \in Edges : m.callee \in Reach(m.caller, m.site, before)

(* ... and between the nodes that are left nothing is lost.                *)
CompleteInv ==
  phase = "delete" =>
    \A c, f \in nodes : \A s \in Sites : f \in Reach(c, s, before) => f \in Reach(c, s, Edges)

(* The ends of the first edges that are kept are still there.              *)
KeptInv ==
  phase = "delete" =>
    \A l \in before :
      /\ Graph!Kept(l.caller) => l.caller \in nodes
      /\ Graph!Kept(l.callee) => l.callee \in nodes

GraphInv ==
  /\ GraphTypeOK /\ EdgesAreDual /\ LoopInv /\ HashInv /\ InlineInv
  /\ SoundInv /\ CompleteInv /\ KeptInv /\ TopologyPreserved

-----------------------------------------------------------------------------
(* What Through and Reach give, whatever the edges.                        *)

LEMMA ThroughHas ==
  ASSUME NEW L \in SUBSET Graph!Link, NEW l \in Graph!Link
  PROVE  /\ Graph!Through(l, L) \subseteq Nodes
         /\ l.callee \in Graph!Through(l, L)
         /\ \A m \in L : m.caller \in Graph!Through(l, L) /\ ~Graph!Kept(m.caller)
                           => m.callee \in Graph!Through(l, L)
BY DEF Graph!Through, Graph!Link

LEMMA ThroughLeast ==
  ASSUME NEW L \in SUBSET Graph!Link, NEW l \in Graph!Link, NEW S \in SUBSET Nodes,
         l.callee \in S,
         \A m \in L : m.caller \in S /\ ~Graph!Kept(m.caller) => m.callee \in S
  PROVE  Graph!Through(l, L) \subseteq S
BY DEF Graph!Through

LEMMA ThroughMonotonic ==
  ASSUME NEW M \in SUBSET Graph!Link, NEW L \in SUBSET M, NEW l \in Graph!Link
  PROVE  Graph!Through(l, L) \subseteq Graph!Through(l, M)
<1>1. L \in SUBSET Graph!Link
  OBVIOUS
<1>. DEFINE S == Graph!Through(l, M)
<1>2. S \in SUBSET Nodes /\ l.callee \in S
  BY ThroughHas
<1>3. \A m \in L : m.caller \in S /\ ~Graph!Kept(m.caller) => m.callee \in S
  BY ThroughHas
<1>. HIDE DEF S
<1>4. Graph!Through(l, L) \subseteq S
  BY <1>1, <1>2, <1>3, ThroughLeast
<1>. QED  BY <1>4 DEF S

LEMMA ReachMonotonic ==
  ASSUME NEW M \in SUBSET Graph!Link, NEW L \in SUBSET M, NEW c, NEW s
  PROVE  Reach(c, s, L) \subseteq Reach(c, s, M)
<1>. SUFFICES ASSUME NEW f \in Reach(c, s, L) PROVE f \in Reach(c, s, M)
  OBVIOUS
<1>1. PICK m \in L : m.caller = c /\ m.site = s /\ f \in Graph!Through(m, L)
  BY DEF Reach
<1>2. m \in Graph!Link /\ m \in M /\ f \in Nodes
  BY DEF Reach
<1>3. f \in Graph!Through(m, M)
  BY <1>1, <1>2, ThroughMonotonic
<1>. QED  BY <1>1, <1>2, <1>3 DEF Reach

LEMMA ReachHas ==
  ASSUME NEW L \in SUBSET Graph!Link, NEW c, NEW s
  PROVE  /\ \A m \in L : m.caller = c /\ m.site = s => m.callee \in Reach(c, s, L)
         /\ \A m \in L : m.caller \in Reach(c, s, L) /\ ~Graph!Kept(m.caller)
                           => m.callee \in Reach(c, s, L)
<1>1. ASSUME NEW m \in L, m.caller = c, m.site = s PROVE m.callee \in Reach(c, s, L)
  <2>1. m \in Graph!Link /\ m.callee \in Nodes
    BY DEF Graph!Link
  <2>2. m.callee \in Graph!Through(m, L)
    BY <2>1, ThroughHas
  <2>. QED  BY <1>1, <2>1, <2>2 DEF Reach
<1>2. ASSUME NEW m \in L, m.caller \in Reach(c, s, L), ~Graph!Kept(m.caller)
      PROVE  m.callee \in Reach(c, s, L)
  <2>1. PICK k \in L : k.caller = c /\ k.site = s /\ m.caller \in Graph!Through(k, L)
    BY <1>2 DEF Reach
  <2>2. k \in Graph!Link /\ m.callee \in Nodes
    BY DEF Graph!Link
  <2>3. m.callee \in Graph!Through(k, L)
    BY <1>2, <2>1, <2>2, ThroughHas
  <2>. QED  BY <2>1, <2>2, <2>3 DEF Reach
<1>. QED  BY <1>1, <1>2

(* A path through the node n goes on with what n reaches.                  *)
LEMMA ReachTransitive ==
  ASSUME NEW L \in SUBSET Graph!Link, NEW c, NEW s, NEW n, NEW t,
         n \in Reach(c, s, L), ~Graph!Kept(n)
  PROVE  Reach(n, t, L) \subseteq Reach(c, s, L)
<1>. SUFFICES ASSUME NEW f \in Reach(n, t, L) PROVE f \in Reach(c, s, L)
  OBVIOUS
<1>. DEFINE S == Reach(c, s, L)
<1>1. PICK m \in L : m.caller = n /\ m.site = t /\ f \in Graph!Through(m, L)
  BY DEF Reach
<1>2. m \in Graph!Link /\ S \in SUBSET Nodes
  BY DEF Reach
<1>3. m.callee \in S /\ \A k \in L : k.caller \in S /\ ~Graph!Kept(k.caller) => k.callee \in S
  BY <1>1, ReachHas
<1>. HIDE DEF S
<1>4. Graph!Through(m, L) \subseteq S
  BY <1>2, <1>3, ThroughLeast
<1>. QED  BY <1>1, <1>4 DEF S

(* Once the edges into n have been joined with those out of n, the node    *)
(* and its edges can be taken out without a loss for the others.           *)
LEMMA ReachWithout ==
  ASSUME NEW L \in SUBSET Graph!Link, NEW n,
         \A e, g \in L : e.callee = n /\ g.caller = n =>
            [caller |-> e.caller, site |-> e.site, callee |-> g.callee] \in L,
         NEW c, NEW s, c # n, NEW f \in Reach(c, s, L), f # n
  PROVE  f \in Reach(c, s, {m \in L : m.caller # n /\ m.callee # n})
<1>. DEFINE L2 == {m \in L : m.caller # n /\ m.callee # n}
            R == Reach(c, s, L2)
            Enters == \E e \in L : e.callee = n /\ ((e.caller = c /\ e.site = s) \/ (e.caller \in R /\ ~Graph!Kept(e.caller)))
            S == R \cup {x \in {n} : n \in Nodes /\ Enters}
<1>1. PICK m \in L : m.caller = c /\ m.site = s /\ f \in Graph!Through(m, L)
  BY DEF Reach
<1>2. /\ L2 \in SUBSET Graph!Link /\ R \in SUBSET Nodes /\ m \in Graph!Link
      /\ \A k \in L : k.caller \in Nodes /\ k.callee \in Nodes
  BY DEF Reach, Graph!Link
<1>3. /\ \A k \in L2 : k.caller = c /\ k.site = s => k.callee \in R
      /\ \A k \in L2 : k.caller \in R /\ ~Graph!Kept(k.caller) => k.callee \in R
  BY <1>2, ReachHas
<1>4. n \notin R
  <2>1. SUFFICES ASSUME n \in R PROVE FALSE
    OBVIOUS
  <2>2. PICK k \in L2 : n \in Graph!Through(k, L2)
    BY <2>1 DEF Reach
  <2>. DEFINE T == Nodes \ {n}
  <2>3. k \in Graph!Link /\ T \in SUBSET Nodes /\ k.callee \in T
    BY <1>2
  <2>4. \A j \in L2 : j.caller \in T /\ ~Graph!Kept(j.caller) => j.callee \in T
    BY <1>2
  <2>. HIDE DEF L2, T
  <2>5. Graph!Through(k, L2) \subseteq T
    BY <1>2, <2>3, <2>4, ThroughLeast
  <2>. QED  BY <2>2, <2>5 DEF T
<1>. HIDE DEF R
<1>5. m.callee \in S
  <2>1. CASE m.callee = n
    BY <1>1, <1>2, <2>1
  <2>2. CASE m.callee # n
    BY <1>1, <1>3, <2>2
  <2>. QED  BY <2>1, <2>2
<1>6. ASSUME NEW k \in L, k.caller \in S, ~Graph!Kept(k.caller) PROVE k.callee \in S
  <2>1. CASE k.caller = n /\ k.callee # n
    <3>1. PICK e \in L : e.callee = n /\ ((e.caller = c /\ e.site = s) \/ (e.caller \in R /\ ~Graph!Kept(e.caller)))
      BY <1>4, <1>6, <2>1
    <3>. DEFINE x == [caller |-> e.caller, site |-> e.site, callee |-> k.callee]
    <3>2. x \in L
      BY <2>1, <3>1
    <3>3. x.caller = e.caller /\ x.site = e.site /\ x.callee = k.callee /\ e.caller # n
      BY <1>4, <3>1
    <3>. HIDE DEF x
    <3>4. x \in L2
      BY <2>1, <3>2, <3>3
    <3>5. k.callee \in R
      BY <1>3, <3>1, <3>3, <3>4
    <3>. QED  BY <3>5
  <2>2. CASE k.caller = n /\ k.callee = n
    BY <1>6, <2>2
  <2>3. CASE k.caller # n /\ k.callee = n
    BY <1>2, <1>6, <2>3
  <2>4. CASE k.caller # n /\ k.callee # n
    BY <1>3, <1>6, <2>4
  <2>. QED  BY <2>1, <2>2, <2>3, <2>4
<1>7. S \in SUBSET Nodes
  BY <1>2
<1>. HIDE DEF S, L2
<1>8. Graph!Through(m, L) \subseteq S
  BY <1>2, <1>5, <1>6, <1>7, ThroughLeast
<1>. QED  BY <1>1, <1>8 DEF S, R, L2

-----------------------------------------------------------------------------
(* What the operations on edges give.                                      *)

LEMMA EdgesFact ==
  ASSUME GraphTypeOK, EdgesAreDual
  PROVE  /\ Edges \subseteq Graph!Link
         /\ \A m \in Edges : m.caller \in nodes /\ m.callee \in nodes
         /\ \A f \in Nodes : \A e \in in[f] \cup out[f] : e.link \in Edges
         /\ \A m \in Edges : \E e \in out[m.caller] : e.link = m
<1>1. \A f \in Nodes : \A e \in in[f] \cup out[f] : e \in Graph!Edge /\ e.link \in Graph!Link
  BY DEF GraphTypeOK, Graph!Edge
<1>2. \A m \in Graph!Link : m.caller \in Nodes /\ m.callee \in Nodes
  BY DEF Graph!Link
<1>3. \A m \in Edges : \E f \in Nodes : \E e \in out[f] : e.link = m
  BY DEF Edges, Graph!Links, Graph!AllEdges
<1>4. \A f \in Nodes : \A e \in out[f] : e.link \in Edges
  BY DEF Edges, Graph!Links, Graph!AllEdges
<1>5. \A f \in Nodes : \A e \in in[f] : e \in out[e.link.caller] /\ e.link.caller \in Nodes
  BY <1>1, <1>2 DEF EdgesAreDual, Graph!EdgesAreDual
<1>6. \A f \in Nodes : \A e \in out[f] : e.link.caller = f /\ f \in nodes /\ e.link.callee \in nodes
  BY <1>1, <1>2 DEF EdgesAreDual, Graph!EdgesAreDual
<1>. QED  BY <1>1, <1>3, <1>4, <1>5, <1>6

(* The Cardinality that the instance of CallGraph has.                     *)
LEMMA SameCardinality == ASSUME NEW S PROVE Graph!Cardinality(S) = Cardinality(S)
BY DEF Graph!Cardinality, Cardinality

(* AddEdge enters one edge at both ends.                                   *)
LEMMA AddEdgeFact ==
  ASSUME GraphTypeOK, EdgesAreDual, NEW l \in Graph!Link,
         l.caller \in nodes, l.callee \in nodes, Graph!AddEdge(l),
         UNCHANGED <<nodes, missing>>
  PROVE  /\ in' \in [Nodes -> SUBSET Graph!Edge] /\ out' \in [Nodes -> SUBSET Graph!Edge]
         /\ \A f \in Nodes : IsFiniteSet(out'[f])
         /\ EdgesAreDual'
         /\ Edges' = Edges \cup {l}
         /\ \A f \in Nodes : in[f] \subseteq in'[f] /\ out[f] \subseteq out'[f]
         /\ \A f \in Nodes : \A e \in in'[f] \ in[f] : e.link = l /\ f = l.callee
         /\ \A f \in Nodes : \A e \in out'[f] \ out[f] : e.link = l /\ f = l.caller
<1>. DEFINE same == {d \in out[l.caller] : d.link = l}
            e == [copy |-> Graph!Cardinality(same), link |-> l]
<1>1. l.caller \in Nodes /\ l.callee \in Nodes
  BY DEF Graph!Link
<1>2. IsFiniteSet(out[l.caller])
  BY <1>1 DEF GraphTypeOK
<1>3. IsFiniteSet(same) /\ Graph!Cardinality(same) \in Nat
  BY <1>2, FS_Subset, FS_CardinalityType, SameCardinality
<1>4. e \in Graph!Edge /\ e.link = l
  BY <1>3 DEF Graph!Edge
<1>5. in' = [in EXCEPT ![l.callee] = @ \cup {e}] /\ out' = [out EXCEPT ![l.caller] = @ \cup {e}]
  BY DEF Graph!AddEdge
<1>. HIDE DEF same, e
<1>6. in' \in [Nodes -> SUBSET Graph!Edge] /\ out' \in [Nodes -> SUBSET Graph!Edge]
  BY <1>4, <1>5 DEF GraphTypeOK
<1>7. /\ \A f \in Nodes : in'[f] = IF f = l.callee THEN in[f] \cup {e} ELSE in[f]
      /\ \A f \in Nodes : out'[f] = IF f = l.caller THEN out[f] \cup {e} ELSE out[f]
  BY <1>5 DEF GraphTypeOK
<1>7a. /\ \A f \in Nodes : in[f] \subseteq in'[f] /\ out[f] \subseteq out'[f]
       /\ \A f \in Nodes : \A d \in in'[f] \ in[f] : d = e /\ f = l.callee
       /\ \A f \in Nodes : \A d \in out'[f] \ out[f] : d = e /\ f = l.caller
       /\ e \in in'[l.callee] /\ e \in out'[l.caller]
  <2>1. \A f \in Nodes : in[f] \subseteq in'[f] /\ \A d \in in'[f] \ in[f] : d = e /\ f = l.callee
    BY <1>7
  <2>2. \A f \in Nodes : out[f] \subseteq out'[f] /\ \A d \in out'[f] \ out[f] : d = e /\ f = l.caller
    BY <1>7
  <2>. QED  BY <1>1, <1>7, <2>1, <2>2
<1>8. IsFiniteSet(out[l.caller] \cup {e})
  BY <1>2, FS_AddElement
<1>9. \A f \in Nodes : IsFiniteSet(out'[f])
  BY <1>7, <1>8 DEF GraphTypeOK
<1>10. EdgesAreDual'
  <2>1. \A f \in Nodes : \A d \in in[f] \cup out[f] : d.link.caller \in Nodes /\ d.link.callee \in Nodes
    BY DEF GraphTypeOK, Graph!Edge, Graph!Link
  <2>2. /\ \A f \in Nodes : \A d \in in[f] : d.link.callee = f /\ d \in out[d.link.caller]
        /\ \A f \in Nodes : \A d \in out[f] : d.link.caller = f /\ d \in in[d.link.callee]
        /\ \A f \in Nodes \ nodes : in[f] = {} /\ out[f] = {}
        /\ ~missing
    BY DEF EdgesAreDual, Graph!EdgesAreDual
  <2>3. ASSUME NEW f \in Nodes, NEW d \in in'[f] PROVE d.link.callee = f /\ d \in out'[d.link.caller]
    <3>1. CASE d \in in[f]
      BY <1>7a, <2>1, <2>2, <3>1
    <3>2. CASE d \notin in[f]
      BY <1>4, <1>7a, <3>2
    <3>. QED  BY <3>1, <3>2
  <2>4. ASSUME NEW f \in Nodes, NEW d \in out'[f] PROVE d.link.caller = f /\ d \in in'[d.link.callee]
    <3>1. CASE d \in out[f]
      BY <1>7a, <2>1, <2>2, <3>1
    <3>2. CASE d \notin out[f]
      BY <1>4, <1>7a, <3>2
    <3>. QED  BY <3>1, <3>2
  <2>5. \A f \in Nodes \ nodes' : in'[f] = {} /\ out'[f] = {}
    BY <1>7a, <2>2
  <2>. QED  BY <2>2, <2>3, <2>4, <2>5 DEF EdgesAreDual, Graph!EdgesAreDual
<1>11. Edges' = Edges \cup {l}
  <2>1. ASSUME NEW m PROVE m \in Edges <=> \E f \in Nodes : \E d \in out[f] : m = d.link
    BY DEF Edges, Graph!Links, Graph!AllEdges
  <2>2. ASSUME NEW m PROVE m \in Edges' <=> \E f \in Nodes : \E d \in out'[f] : m = d.link
    BY DEF Edges, Graph!Links, Graph!AllEdges
  <2>3. ASSUME NEW m PROVE m \in Edges' <=> m \in Edges \/ m = l
    BY <1>1, <1>4, <1>7a, <2>1, <2>2
  <2>. QED  BY <2>3
<1>. QED  BY <1>4, <1>6, <1>7a, <1>9, <1>10, <1>11

(* DeleteNode takes out the edges at both ends, and finds them all.        *)
LEMMA DeleteNodeFact ==
  ASSUME GraphTypeOK, EdgesAreDual, cur \in nodes, Graph!DeleteNode
  PROVE  /\ in' \in [Nodes -> SUBSET Graph!Edge] /\ out' \in [Nodes -> SUBSET Graph!Edge]
         /\ \A f \in Nodes : IsFiniteSet(out'[f])
         /\ EdgesAreDual'
         /\ Edges' = {m \in Edges : m.caller # cur /\ m.callee # cur}
<1>0. cur \in Nodes
  BY DEF GraphTypeOK
<1>1. \A f \in Nodes : \A d \in in[f] \cup out[f] : d.link.caller \in Nodes /\ d.link.callee \in Nodes
  BY DEF GraphTypeOK, Graph!Edge, Graph!Link
<1>2. /\ \A f \in Nodes : \A d \in in[f] : d.link.callee = f /\ d \in out[d.link.caller]
      /\ \A f \in Nodes : \A d \in out[f] : d.link.caller = f /\ d \in in[d.link.callee]
      /\ \A f \in Nodes \ nodes : in[f] = {} /\ out[f] = {}
      /\ ~missing
  BY DEF EdgesAreDual, Graph!EdgesAreDual
<1>. DEFINE o == [f \in Nodes |-> out[f] \ in[cur]]
            i == [in EXCEPT ![cur] = {}]
<1>3. /\ missing' = (missing \/ (\E d \in in[cur] : d \notin out[d.link.caller])
                             \/ (\E d \in o[cur] : d \notin i[d.link.callee]))
      /\ out' = [o EXCEPT ![cur] = {}]
      /\ in' = [f \in Nodes |-> i[f] \ o[cur]]
      /\ nodes' = nodes \ {cur}
  BY DEF Graph!DeleteNode
<1>4. /\ i = [f \in Nodes |-> IF f = cur THEN {} ELSE in[f]]
      /\ o[cur] = out[cur] \ in[cur]
  BY <1>0 DEF GraphTypeOK
<1>5. /\ in' = [f \in Nodes |-> IF f = cur THEN {} ELSE in[f] \ (out[cur] \ in[cur])]
      /\ out' = [f \in Nodes |-> IF f = cur THEN {} ELSE out[f] \ in[cur]]
  BY <1>0, <1>3, <1>4
<1>6. \A d \in o[cur] : d \in i[d.link.callee]
  BY <1>0, <1>1, <1>2, <1>4
<1>7. missing' = FALSE
  BY <1>0, <1>2, <1>3, <1>6
<1>. HIDE DEF o, i
<1>8. in' \in [Nodes -> SUBSET Graph!Edge] /\ out' \in [Nodes -> SUBSET Graph!Edge]
  BY <1>5 DEF GraphTypeOK
<1>9. \A f \in Nodes : IsFiniteSet(out'[f])
  <2>1. ASSUME NEW f \in Nodes PROVE out'[f] \subseteq out[f]
    BY <1>5
  <2>. QED  BY <2>1, FS_Subset DEF GraphTypeOK
<1>10. \A f \in Nodes : \A d \in in'[f] : d \in in[f] /\ d.link.callee # cur /\ d.link.caller # cur
  BY <1>0, <1>1, <1>2, <1>5
<1>11. \A f \in Nodes : \A d \in out'[f] : d \in out[f] /\ d.link.callee # cur /\ d.link.caller # cur
  BY <1>0, <1>1, <1>2, <1>5
<1>12. \A f \in Nodes : \A d \in in[f] : d.link.callee # cur /\ d.link.caller # cur => d \in in'[f]
  BY <1>0, <1>1, <1>2, <1>5
<1>13. \A f \in Nodes : \A d \in out[f] : d.link.callee # cur /\ d.link.caller # cur => d \in out'[f]
  BY <1>0, <1>1, <1>2, <1>5
<1>14. EdgesAreDual'
  <2>1. \A f \in Nodes : \A d \in in'[f] : d.link.callee = f /\ d \in out'[d.link.caller]
    BY <1>1, <1>2, <1>10, <1>13
  <2>2. \A f \in Nodes : \A d \in out'[f] : d.link.caller = f /\ d \in in'[d.link.callee]
    BY <1>1, <1>2, <1>11, <1>12
  <2>3. \A f \in Nodes \ nodes' : in'[f] = {} /\ out'[f] = {}
    BY <1>2, <1>3, <1>5
  <2>. QED  BY <1>7, <2>1, <2>2, <2>3 DEF EdgesAreDual, Graph!EdgesAreDual
<1>15. Edges' = {m \in Edges : m.caller # cur /\ m.callee # cur}
  <2>1. ASSUME NEW m PROVE m \in Edges <=> \E f \in Nodes : \E d \in out[f] : m = d.link
    BY DEF Edges, Graph!Links, Graph!AllEdges
  <2>2. ASSUME NEW m PROVE m \in Edges' <=> \E f \in Nodes : \E d \in out'[f] : m = d.link
    BY DEF Edges, Graph!Links, Graph!AllEdges
  <2>3. ASSUME NEW m PROVE m \in Edges' <=> m \in Edges /\ m.caller # cur /\ m.callee # cur
    BY <1>11, <1>13, <2>1, <2>2
  <2>. QED  BY <2>3
<1>. QED  BY <1>8, <1>9, <1>14, <1>15

-----------------------------------------------------------------------------
(* The invariant holds at first, and every step preserves it.              *)

LEMMA InitGraphInv == SearchInit => GraphInv
<1>. SUFFICES ASSUME SearchInit PROVE GraphInv
  OBVIOUS
<1>. USE GraphAssumption DEF SearchInit, Graph!Init, Graph!NoLoop
<1>1. GraphTypeOK
  BY FS_EmptySet DEF GraphTypeOK, Graph!ConstantsOK
<1>2. EdgesAreDual
  BY DEF EdgesAreDual, Graph!EdgesAreDual
<1>3. LoopInv
  BY DEF LoopInv
<1>. QED
  BY <1>1, <1>2, <1>3
     DEF GraphInv, HashInv, InlineInv, SoundInv, CompleteInv, KeptInv, TopologyPreserved, Graph!TopologyPreserved

(* Nothing to do when the graph is left alone.                             *)
LEMMA StutterGraphInv == GraphInv /\ UNCHANGED graphVars => GraphInv'
<1>. SUFFICES ASSUME GraphInv, UNCHANGED graphVars PROVE GraphInv'
  OBVIOUS
<1>. USE DEF GraphInv, graphVars
<1>1. Edges' = Edges
  BY DEF Edges, Graph!AllEdges
<1>2. GraphTypeOK' /\ LoopInv'
  BY DEF GraphTypeOK, LoopInv
<1>3. EdgesAreDual'
  BY DEF EdgesAreDual, Graph!EdgesAreDual
<1>4. HashInv' /\ InlineInv' /\ KeptInv'
  BY <1>1 DEF HashInv, InlineInv, KeptInv
<1>5. SoundInv' /\ CompleteInv'
  BY <1>1 DEF SoundInv, CompleteInv
<1>6. TopologyPreserved'
  BY <1>1 DEF TopologyPreserved, Graph!TopologyPreserved, Edges
<1>. QED  BY <1>2, <1>3, <1>4, <1>5, <1>6

(* What is said of the deletion alone does not matter before or after it.  *)
LEMMA OutsideGraphInv ==
  ASSUME GraphTypeOK', EdgesAreDual', LoopInv', phase' \in {"build", "search"}
  PROVE  GraphInv'
<1>1. cur' = NoNode /\ phase' # "delete" /\ phase' # "done"
  BY DEF LoopInv
<1>. QED
  BY <1>1 DEF GraphInv, HashInv, InlineInv, SoundInv, CompleteInv, KeptInv,
              TopologyPreserved, Graph!TopologyPreserved

LEMMA CreateNodeInv == ASSUME GraphInv, NEW f \in Nodes, Graph!CreateNode(f) PROVE GraphInv'
<1>. USE DEF GraphInv, Graph!CreateNode, Graph!loopVars
<1>1. GraphTypeOK'
  BY DEF GraphTypeOK
<1>2. EdgesAreDual'
  BY DEF EdgesAreDual, Graph!EdgesAreDual
<1>3. LoopInv'
  BY DEF LoopInv
<1>. QED  BY <1>1, <1>2, <1>3, OutsideGraphInv

LEMMA BuildInv == ASSUME GraphInv, NEW l \in Graph!Link, Graph!Build(l) PROVE GraphInv'
<1>1. UNCHANGED <<nodes, missing>> /\ Graph!AddEdge(l) /\ l.caller \in nodes /\ l.callee \in nodes
  BY DEF Graph!Build
<1>2. /\ in' \in [Nodes -> SUBSET Graph!Edge] /\ out' \in [Nodes -> SUBSET Graph!Edge]
      /\ \A f \in Nodes : IsFiniteSet(out'[f])
      /\ EdgesAreDual'
  BY <1>1, AddEdgeFact DEF GraphInv
<1>. USE DEF GraphInv, Graph!Build, Graph!loopVars
<1>3. GraphTypeOK'
  BY <1>2 DEF GraphTypeOK
<1>4. LoopInv'
  BY DEF LoopInv
<1>. QED  BY <1>2, <1>3, <1>4, OutsideGraphInv

LEMMA AskInv == ASSUME GraphInv, NEW n, NEW S, Ask(n, S) PROVE GraphInv'
<1>. USE DEF GraphInv, Ask
<1>1. GraphTypeOK'
  BY FS_EmptySet DEF GraphTypeOK
<1>2. EdgesAreDual'
  BY DEF EdgesAreDual, Graph!EdgesAreDual
<1>3. LoopInv'
  BY DEF LoopInv
<1>. QED  BY <1>1, <1>2, <1>3, OutsideGraphInv

LEMMA HashEdgesInv == GraphInv /\ Graph!HashEdges => GraphInv'
<1>. SUFFICES ASSUME GraphInv, Graph!HashEdges PROVE GraphInv'
  OBVIOUS
<1>. USE DEF GraphInv, Graph!HashEdges
<1>1. Edges' = Edges /\ hashed' = Edges /\ before' = Edges
  BY DEF Edges, Graph!AllEdges
<1>2. Edges \subseteq Graph!Link /\ \A m \in Edges : m.caller \in nodes /\ m.callee \in nodes
  BY EdgesFact
<1>3. GraphTypeOK'
  BY <1>1, <1>2 DEF GraphTypeOK
<1>4. EdgesAreDual'
  BY DEF EdgesAreDual, Graph!EdgesAreDual
<1>5. LoopInv'
  BY DEF LoopInv
<1>6. HashInv' /\ InlineInv' /\ KeptInv'
  BY <1>1, <1>2, <1>5 DEF HashInv, InlineInv, KeptInv, LoopInv
<1>7. SoundInv'
  <2>1. \A m \in Edges : m.callee \in Reach(m.caller, m.site, Edges)
    BY <1>2, ReachHas
  <2>. QED  BY <1>1, <2>1 DEF SoundInv
<1>8. CompleteInv'
  BY <1>1 DEF CompleteInv
<1>9. TopologyPreserved'
  BY DEF TopologyPreserved, Graph!TopologyPreserved
<1>. QED  BY <1>3, <1>4, <1>5, <1>6, <1>7, <1>8, <1>9

(* The loops move on and the graph stays.                                  *)
LEMMA SameGraphInv ==
  ASSUME GraphInv, UNCHANGED <<nodes, in, out, phase, hashed, missing, before>>, phase = "delete",
         LoopInv', InlineInv'
  PROVE  GraphInv'
<1>. USE DEF GraphInv
<1>1. Edges' = Edges
  BY DEF Edges, Graph!AllEdges
<1>2. GraphTypeOK' /\ EdgesAreDual'
  BY DEF GraphTypeOK, EdgesAreDual, Graph!EdgesAreDual
<1>3. HashInv' /\ SoundInv' /\ CompleteInv' /\ KeptInv'
  BY <1>1 DEF HashInv, SoundInv, CompleteInv, KeptInv
<1>4. TopologyPreserved'
  BY DEF TopologyPreserved, Graph!TopologyPreserved
<1>. QED  BY <1>2, <1>3, <1>4

LEMMA BeginInlineInv == ASSUME GraphInv, NEW f \in visit, Graph!BeginInline(f) PROVE GraphInv'
<1>. USE NoNodeAssumption DEF GraphInv, Graph!BeginInline
<1>1. f \in nodes /\ f \in Nodes /\ f # NoNode /\ ~Graph!Kept(f)
  BY DEF LoopInv, GraphTypeOK
<1>2. eIn' = {} /\ outs' = {} /\ ins' = in'[f] /\ cur' = f /\ phase' = "delete" /\ nodes' = nodes
  BY DEF LoopInv
<1>3. /\ visit' \subseteq {g \in nodes' : ~Graph!Kept(g)}
      /\ \A g \in nodes' : Graph!Kept(g) \/ g \in visit' \/ g = cur'
      /\ f \in nodes' \ visit'
  <2>1. visit \subseteq {g \in nodes : ~Graph!Kept(g)} /\ \A g \in nodes : Graph!Kept(g) \/ g \in visit
    <3>1. NoNode \notin nodes
      BY DEF GraphTypeOK
    <3>. QED  BY <1>1, <3>1 DEF LoopInv
  <2>2. visit' = visit \ {f}
    OBVIOUS
  <2>. QED  BY <1>1, <1>2, <2>1, <2>2
<1>4. LoopInv'
  BY <1>1, <1>2, <1>3 DEF LoopInv
<1>5. InlineInv'
  BY DEF InlineInv
<1>. QED  BY <1>4, <1>5, SameGraphInv

LEMMA NextInInv == ASSUME GraphInv, NEW e \in ins, Graph!NextIn(e) PROVE GraphInv'
<1>. USE DEF GraphInv, Graph!NextIn
<1>1. cur # NoNode /\ e \in in[cur] /\ phase = "delete"
  BY DEF LoopInv
<1>2. LoopInv'
  BY <1>1 DEF LoopInv
<1>3. InlineInv'
  BY <1>1 DEF InlineInv
<1>. QED  BY <1>1, <1>2, <1>3, SameGraphInv

LEMMA NextOutInv == ASSUME GraphInv, NEW g \in outs, Graph!NextOut(g) PROVE GraphInv'
<1>. USE DEF GraphInv
<1>1. PICK e \in eIn :
        \/ Graph!Inlined(e, g) \in hashed /\ UNCHANGED <<in, out, hashed>>
        \/ /\ Graph!Inlined(e, g) \notin hashed
           /\ Graph!AddEdge(Graph!Inlined(e, g))
           /\ hashed' = hashed \cup {Graph!Inlined(e, g)}
  BY DEF Graph!NextOut
<1>2. /\ UNCHANGED <<nodes, phase, visit, cur, ins, eIn, missing, before>>
      /\ outs' = outs \ {g} /\ cur # NoNode
  BY DEF Graph!NextOut
<1>. DEFINE l == Graph!Inlined(e, g)
<1>3. /\ phase = "delete" /\ cur \in nodes /\ cur \in Nodes /\ ~Graph!Kept(cur)
      /\ ins \subseteq in[cur] /\ eIn \subseteq in[cur] /\ outs \subseteq out[cur]
      /\ \A d \in eIn : d = e
  BY <1>2 DEF LoopInv, GraphTypeOK
<1>4. /\ e \in in[cur] /\ g \in out[cur] /\ e.link \in Edges /\ g.link \in Edges
      /\ e.link.callee = cur /\ g.link.caller = cur
  BY <1>3, EdgesFact DEF EdgesAreDual, Graph!EdgesAreDual
<1>5. Edges \subseteq Graph!Link /\ \A m \in Edges : m.caller \in nodes /\ m.callee \in nodes
  BY EdgesFact
<1>6. e.link.caller \in nodes /\ g.link.callee \in nodes /\ e.link.site \in Sites
  BY <1>4, <1>5 DEF Graph!Link
<1>7. l \in Graph!Link /\ l.caller = e.link.caller /\ l.site = e.link.site /\ l.callee = g.link.callee
  BY <1>4, <1>5 DEF Graph!Inlined, Graph!Link
<1>8. l \in hashed \/ l.callee # cur
  \* The edge that would be added to the In of cur is e itself.
  <2>1. CASE l.callee = cur
    <3>1. l = e.link
      BY <1>4, <1>5, <1>7, <2>1 DEF Graph!Link
    <3>. QED  BY <1>3, <1>4, <3>1 DEF HashInv
  <2>. QED  BY <2>1
<1>. HIDE DEF l
<1>9. /\ in' \in [Nodes -> SUBSET Graph!Edge] /\ out' \in [Nodes -> SUBSET Graph!Edge]
      /\ \A f \in Nodes : IsFiniteSet(out'[f])
      /\ EdgesAreDual'
      /\ Edges' = Edges \cup {x \in {l} : l \notin hashed}
      /\ \A f \in Nodes : in[f] \subseteq in'[f] /\ out[f] \subseteq out'[f]
      /\ \A f \in Nodes : \A d \in in'[f] \ in[f] : d.link = l /\ f = l.callee /\ l \notin hashed
      /\ \A f \in Nodes : \A d \in out'[f] \ out[f] : d.link = l /\ f = l.caller
      /\ hashed' = hashed \cup {l}
  <2>1. CASE l \in hashed
    <3>1. UNCHANGED <<in, out, hashed>>
      BY <1>1, <2>1 DEF l
    <3>2. Edges' = Edges
      BY <3>1 DEF Edges, Graph!AllEdges
    <3>3. EdgesAreDual'
      BY <1>2, <3>1 DEF EdgesAreDual, Graph!EdgesAreDual
    <3>. QED  BY <2>1, <3>1, <3>2, <3>3 DEF GraphTypeOK
  <2>2. CASE l \notin hashed
    <3>1. Graph!AddEdge(l) /\ hashed' = hashed \cup {l}
      BY <1>1, <2>2 DEF l
    <3>. QED  BY <1>2, <1>6, <1>7, <2>2, <3>1, AddEdgeFact
  <2>. QED  BY <2>1, <2>2
<1>10. GraphTypeOK'
  BY <1>2, <1>7, <1>9 DEF GraphTypeOK
<1>11. LoopInv'
  <2>1. in[cur] \subseteq in'[cur] /\ out[cur] \subseteq out'[cur]
    BY <1>3, <1>9
  <2>2. ins' \subseteq in'[cur'] /\ eIn' \subseteq in'[cur'] /\ outs' \subseteq out'[cur']
    BY <1>2, <1>3, <2>1
  <2>. QED  BY <1>2, <2>2 DEF LoopInv
<1>12. HashInv'
  <2>1. l \in Edges'
    BY <1>3, <1>6, <1>7, <1>9 DEF HashInv
  <2>. QED  BY <1>2, <1>3, <1>9, <2>1 DEF HashInv
<1>13. InlineInv'
  <2>. SUFFICES ASSUME NEW d \in in'[cur] \ ins, NEW h \in out'[cur]
                PROVE  \/ Graph!Inlined(d, h) \in hashed'
                       \/ d \in eIn /\ \E k \in outs \ {g} : k.link.callee = h.link.callee
    BY <1>2 DEF InlineInv
  <2>1. d \in in[cur] \ ins
    BY <1>3, <1>8, <1>9
  <2>2. PICK b \in out[cur] : b.link.callee = h.link.callee
    \* A new edge has the callee of g.
    <3>1. CASE h \in out[cur]
      BY <3>1
    <3>2. CASE h \notin out[cur]
      BY <1>3, <1>4, <1>7, <1>9, <3>2
    <3>. QED  BY <3>1, <3>2
  <2>3. Graph!Inlined(d, h) = Graph!Inlined(d, b)
    BY <2>2 DEF Graph!Inlined
  <2>4. CASE Graph!Inlined(d, b) \in hashed
    BY <1>9, <2>3, <2>4
  <2>5. CASE Graph!Inlined(d, b) \notin hashed
    <3>1. d \in eIn /\ \E k \in outs : k.link.callee = b.link.callee
      BY <1>2, <2>1, <2>5 DEF InlineInv
    <3>2. CASE g.link.callee = h.link.callee
      <4>1. Graph!Inlined(d, h) = l
        BY <1>3, <3>1, <3>2 DEF l, Graph!Inlined
      <4>. QED  BY <1>9, <4>1
    <3>3. CASE g.link.callee # h.link.callee
      BY <2>2, <3>1, <3>3
    <3>. QED  BY <3>2, <3>3
  <2>. QED  BY <2>4, <2>5
<1>14. SoundInv'
  <2>1. before \subseteq Graph!Link
    BY DEF GraphTypeOK
  <2>2. cur \in Reach(l.caller, l.site, before) /\ l.callee \in Reach(cur, g.link.site, before)
    BY <1>3, <1>4, <1>7 DEF SoundInv
  <2>3. l.callee \in Reach(l.caller, l.site, before)
    BY <1>3, <2>1, <2>2, ReachTransitive
  <2>. QED  BY <1>2, <1>9, <2>3 DEF SoundInv
<1>15. CompleteInv'
  <2>1. Edges' \in SUBSET Graph!Link /\ Edges \in SUBSET Edges'
    BY <1>5, <1>7, <1>9
  <2>2. \A c, s : Reach(c, s, Edges) \subseteq Reach(c, s, Edges')
    BY <2>1, ReachMonotonic
  <2>. QED  BY <1>2, <2>2 DEF CompleteInv
<1>16. KeptInv' /\ TopologyPreserved'
  BY <1>2, <1>3 DEF KeptInv, TopologyPreserved, Graph!TopologyPreserved
<1>. QED  BY <1>9, <1>10, <1>11, <1>12, <1>13, <1>14, <1>15, <1>16

LEMMA DeleteNodeInv == GraphInv /\ Graph!DeleteNode => GraphInv'
<1>. SUFFICES ASSUME GraphInv, Graph!DeleteNode PROVE GraphInv'
  OBVIOUS
<1>. USE DEF GraphInv
<1>1. /\ cur # NoNode /\ ins = {} /\ outs = {}
      /\ nodes' = nodes \ {cur} /\ cur' = NoNode /\ eIn' = {}
      /\ UNCHANGED <<phase, hashed, visit, ins, outs, before>>
  BY DEF Graph!DeleteNode
<1>2. phase = "delete" /\ cur \in nodes /\ cur \in Nodes /\ ~Graph!Kept(cur) /\ cur \notin visit
  BY <1>1 DEF LoopInv, GraphTypeOK
<1>3. /\ in' \in [Nodes -> SUBSET Graph!Edge] /\ out' \in [Nodes -> SUBSET Graph!Edge]
      /\ \A f \in Nodes : IsFiniteSet(out'[f])
      /\ EdgesAreDual'
      /\ Edges' = {m \in Edges : m.caller # cur /\ m.callee # cur}
  BY <1>2, DeleteNodeFact
<1>4. missing' = FALSE
  BY <1>3 DEF EdgesAreDual, Graph!EdgesAreDual, Graph!DeleteNode
<1>5. GraphTypeOK'
  BY <1>1, <1>3, <1>4 DEF GraphTypeOK
<1>6. LoopInv'
  BY <1>1, <1>2 DEF LoopInv
<1>7. HashInv'
  BY <1>1, <1>2, <1>3 DEF HashInv
<1>8. SoundInv' /\ InlineInv'
  BY <1>1, <1>3 DEF SoundInv, InlineInv
<1>9. KeptInv'
  BY <1>1, <1>2 DEF KeptInv
<1>10. CompleteInv'
  <2>1. Edges \subseteq Graph!Link /\ \A m \in Edges : m.caller \in nodes /\ m.callee \in nodes
    BY EdgesFact
  <2>2. ASSUME NEW d \in Edges, NEW k \in Edges, d.callee = cur, k.caller = cur
        PROVE  [caller |-> d.caller, site |-> d.site, callee |-> k.callee] \in Edges
    <3>1. PICK e \in in[cur] : e.link = d
      BY <1>2, <2>1, <2>2, EdgesFact DEF EdgesAreDual, Graph!EdgesAreDual, Graph!Link, GraphTypeOK
    <3>2. PICK g \in out[cur] : g.link = k
      BY <2>2, EdgesFact
    <3>3. Graph!Inlined(e, g) \in hashed
      BY <1>1, <3>1, <3>2 DEF InlineInv
    <3>. QED  BY <1>2, <2>1, <3>1, <3>2, <3>3 DEF HashInv, Graph!Inlined
  <2>3. ASSUME NEW c \in nodes', NEW f \in nodes', NEW s \in Sites, f \in Reach(c, s, before)
        PROVE  f \in Reach(c, s, Edges')
    <3>1. c \in nodes /\ f \in nodes /\ c # cur /\ f # cur
      BY <1>1
    <3>2. f \in Reach(c, s, Edges)
      BY <1>2, <2>3, <3>1 DEF CompleteInv
    <3>. QED  BY <1>3, <2>1, <2>2, <3>1, <3>2, ReachWithout
  <2>. QED  BY <1>1, <2>3 DEF CompleteInv
<1>11. TopologyPreserved'
  BY <1>1, <1>2 DEF TopologyPreserved, Graph!TopologyPreserved
<1>. QED  BY <1>3, <1>5, <1>6, <1>7, <1>8, <1>9, <1>10, <1>11

(* At the end only kept nodes are left, so that nothing is passed through. *)
LEMMA DoneInv == GraphInv /\ Graph!Done => GraphInv'
<1>. SUFFICES ASSUME GraphInv, Graph!Done PROVE GraphInv'
  OBVIOUS
<1>. USE DEF GraphInv
<1>1. /\ phase = "delete" /\ cur = NoNode /\ visit = {} /\ phase' = "done" /\ hashed' = {}
      /\ UNCHANGED <<nodes, in, out, visit, cur, ins, eIn, outs, missing, before>>
  BY DEF Graph!Done, Graph!loopVars
<1>2. Edges' = Edges
  BY <1>1 DEF Edges, Graph!AllEdges
<1>3. \A f \in nodes : Graph!Kept(f)
  <2>1. NoNode \notin nodes
    BY NoNodeAssumption DEF GraphTypeOK
  <2>. QED  BY <1>1, <2>1 DEF LoopInv
<1>4. /\ Edges \subseteq Graph!Link /\ before \subseteq Graph!Link
      /\ \A m \in Edges : m.caller \in nodes /\ m.callee \in nodes
  BY EdgesFact DEF GraphTypeOK
<1>5. GraphTypeOK' /\ EdgesAreDual'
  BY <1>1 DEF GraphTypeOK, EdgesAreDual, Graph!EdgesAreDual
<1>6. LoopInv'
  BY <1>1 DEF LoopInv
<1>7. HashInv' /\ InlineInv' /\ SoundInv' /\ CompleteInv' /\ KeptInv'
  BY <1>1 DEF HashInv, InlineInv, SoundInv, CompleteInv, KeptInv
<1>. DEFINE Wanted(m) ==
       /\ Graph!Kept(m.caller) /\ Graph!Kept(m.callee)
       /\ \E l \in before : l.caller = m.caller /\ l.site = m.site /\ m.callee \in Graph!Through(l, before)
<1>8. ASSUME NEW m \in Edges PROVE Wanted(m)
  <2>1. m.callee \in Reach(m.caller, m.site, before)
    BY <1>1 DEF SoundInv
  <2>. QED  BY <1>3, <1>4, <2>1 DEF Reach
<1>9. ASSUME NEW m \in Graph!Link, Wanted(m) PROVE m \in Edges
  <2>1. PICK l \in before : l.caller = m.caller /\ l.site = m.site /\ m.callee \in Graph!Through(l, before)
    BY <1>9
  <2>2. m.callee \in nodes
    <3>. DEFINE S == {f \in Nodes : Graph!Kept(f) => f \in nodes}
    <3>1. l \in Graph!Link /\ S \in SUBSET Nodes
      BY <1>4
    <3>2. l.callee \in S /\ \A k \in before : k.caller \in S /\ ~Graph!Kept(k.caller) => k.callee \in S
      BY <1>1, <1>4, <3>1 DEF KeptInv, Graph!Link
    <3>. HIDE DEF S
    <3>3. Graph!Through(l, before) \subseteq S
      BY <1>4, <3>1, <3>2, ThroughLeast
    <3>. QED  BY <1>9, <2>1, <3>3 DEF S
  <2>3. m.caller \in nodes /\ m.site \in Sites
    BY <1>1, <1>9, <2>1 DEF KeptInv, Graph!Link
  <2>4. m.callee \in Reach(m.caller, m.site, before)
    BY <2>1 DEF Reach, Graph!Link
  <2>5. m.callee \in Reach(m.caller, m.site, Edges)
    BY <1>1, <2>2, <2>3, <2>4 DEF CompleteInv
  <2>6. PICK k \in Edges : k.caller = m.caller /\ k.site = m.site /\ m.callee \in Graph!Through(k, Edges)
    BY <2>5 DEF Reach
  <2>7. Graph!Through(k, Edges) \subseteq {k.callee}
    <3>1. k \in Graph!Link /\ {k.callee} \in SUBSET Nodes
      BY <1>4 DEF Graph!Link
    <3>. QED  BY <1>3, <1>4, <3>1, ThroughLeast
  <2>8. m = k
    BY <1>4, <2>6, <2>7 DEF Graph!Link
  <2>. QED  BY <2>8
<1>10. Edges = {m \in Graph!Link : Wanted(m)}
  BY <1>4, <1>8, <1>9
<1>11. TopologyPreserved'
  BY <1>1, <1>2, <1>10 DEF TopologyPreserved, Graph!TopologyPreserved, Edges
<1>. QED  BY <1>5, <1>6, <1>7, <1>11

LEMMA NextGraphInv == GraphInv /\ [SearchNext]_allVars => GraphInv'
<1>. SUFFICES ASSUME GraphInv, [SearchNext]_allVars PROVE GraphInv'
  OBVIOUS
<1>1. CASE Graph!Next
  <2>1. CASE \E f \in Nodes : Graph!CreateNode(f)
    BY <2>1, CreateNodeInv
  <2>2. CASE \E l \in Graph!Link : Graph!Build(l)
    BY <2>2, BuildInv
  <2>3. CASE Graph!HashEdges
    BY <2>3, HashEdgesInv
  <2>4. CASE Graph!Delete
    BY <2>4, BeginInlineInv, NextInInv, NextOutInv, DeleteNodeInv, DoneInv DEF Graph!Delete
  <2>5. CASE UNCHANGED Graph!vars
    BY <2>5, StutterGraphInv DEF Graph!vars, graphVars
  <2>. QED  BY <1>1, <2>1, <2>2, <2>3, <2>4, <2>5 DEF Graph!Next
<1>2. CASE \E n \in nodes, e \in nodes : Ask(n, {e})
  BY <1>2, AskInv
<1>3. CASE SearchStep
  BY <1>3, StutterGraphInv DEF SearchStep
<1>4. CASE UNCHANGED allVars
  BY <1>4, StutterGraphInv DEF allVars
<1>. QED  BY <1>1, <1>2, <1>3, <1>4 DEF SearchNext

LEMMA GraphInvHolds == SearchSpec => []GraphInv
<1>. QED  BY InitGraphInv, NextGraphInv, PTL DEF SearchSpec

-----------------------------------------------------------------------------
(***************************************************************************)
(* For every call graph, however it was built and whatever the order in    *)
(* which DeleteSyntheticNodes comes to nodes and edges: an edge is in the  *)
(* Out of its caller exactly if it is in the In of its callee, and         *)
(* DeleteNode never misses the edge that it removes.                       *)
(***************************************************************************)
THEOREM EdgesAreDualHolds == SearchSpec => []EdgesAreDual
BY GraphInvHolds, PTL DEF GraphInv

(***************************************************************************)
(* For every call graph DeleteSyntheticNodes keeps exactly what the call   *)
(* sites of kept nodes reached, directly or through the deleted nodes.     *)
(***************************************************************************)
THEOREM TopologyPreservedHolds == SearchSpec => []TopologyPreserved
BY GraphInvHolds, PTL DEF GraphInv

(* A step of the deletion adds no edge, or one that is not in the hash.    *)
LEMMA AddedIsNew ==
  ASSUME GraphInv, [SearchNext]_allVars, phase = "delete"
  PROVE  \A d \in Graph!AllEdges' \ Graph!AllEdges : d.link \notin Edges
<1>. USE DEF GraphInv
<1>1. CASE \E g \in outs : Graph!NextOut(g)
  <2>1. PICK g \in outs, e \in eIn :
          \/ UNCHANGED out
          \/ /\ Graph!Inlined(e, g) \notin hashed
             /\ Graph!AddEdge(Graph!Inlined(e, g))
    BY <1>1 DEF Graph!NextOut
  <2>2. CASE UNCHANGED out
    BY <2>2 DEF Graph!AllEdges
  <2>. DEFINE l == Graph!Inlined(e, g)
  <2>3. CASE l \notin hashed /\ Graph!AddEdge(l)
    <3>. HIDE DEF l
    <3>1. PICK x : x.link = l /\ out' = [out EXCEPT ![l.caller] = @ \cup {x}]
      BY <2>3 DEF Graph!AddEdge
    <3>2. \A f \in Nodes : out'[f] \subseteq out[f] \cup {x}
      BY <3>1 DEF GraphTypeOK
    <3>3. Graph!AllEdges' \subseteq Graph!AllEdges \cup {x}
      BY <3>2 DEF Graph!AllEdges
    <3>. QED  BY <2>3, <3>1, <3>3 DEF HashInv
  <2>. QED  BY <2>1, <2>2, <2>3
<1>2. CASE Graph!DeleteNode
  <2>1. \A f \in Nodes : out'[f] \subseteq out[f]
    BY <1>2 DEF Graph!DeleteNode, GraphTypeOK
  <2>. QED  BY <2>1 DEF Graph!AllEdges
<1>3. CASE UNCHANGED out
  BY <1>3 DEF Graph!AllEdges
<1>4. CASE Graph!Next
  <2>1. UNCHANGED out \/ Graph!DeleteNode \/ \E g \in outs : Graph!NextOut(g)
    BY <1>4 DEF Graph!Next, Graph!CreateNode, Graph!Build, Graph!HashEdges, Graph!Delete, Graph!BeginInline,
                Graph!NextIn, Graph!Done, Graph!vars
  <2>. QED  BY <1>1, <1>2, <1>3, <2>1
<1>5. CASE ~Graph!Next
  <2>1. UNCHANGED out
    BY <1>5 DEF SearchNext, Ask, SearchStep, allVars, graphVars
  <2>. QED  BY <1>3, <2>1
<1>. QED  BY <1>4, <1>5

(***************************************************************************)
(* For every call graph and every order of the deletion, the hash of edges *)
(* that DeleteSyntheticNodes makes before it deletes, and only adds to, is *)
(* enough to never add an edge beside one that has the same ends and site. *)
(***************************************************************************)
THEOREM NoDuplicatesHolds == SearchSpec => NoDuplicates
<1>1. ASSUME GraphInv, [SearchNext]_allVars
      PROVE  [phase = "delete" => Graph!AddsNoDuplicate]_(Graph!vars)
  BY <1>1, AddedIsNew DEF Edges, Graph!AddsNoDuplicate
<1>. QED  BY <1>1, GraphInvHolds, PTL DEF SearchSpec, NoDuplicates, Graph!NoDuplicates

------------------------------------------------------------------------------
(* PathSearch, on a graph that is given.                                   *)
(* The loops that are under way have not lost an edge: the callee of every *)
(* edge of a seen node is seen, about to be searched, or still to come.    *)
Pending(e) ==
  \/ Callee(e) \in seen
  \/ arg = Callee(e)
  \/ \E i \in 1 .. Depth : e \in calls[i].left

CoverInv ==
  result # "path" =>
    /\ seen \cap end = {}
    /\ start \in seen \/ arg = start
    /\ \A e \in graph : Caller(e) \in seen => Pending(e)

(* Where a call that is being entered comes from.                          *)
ArgInv ==
  /\ result # "none" => arg = NoNode
  /\ arg # NoNode => arg = EndOf(stack)
  /\ arg # NoNode /\ stack = <<>> => seen = {}
  /\ result = "nil" => calls = <<>>

PathInv == result = "path" => IsPath(stack) /\ EndOf(stack) \in end

Inv == TypeOK /\ StackInStep /\ ArgInv /\ CoverInv /\ PathInv

(* What the operations on the two stacks give.                             *)
LEMMA FrontFact ==
  ASSUME NEW S, NEW s \in Seq(S), s # <<>>
  PROVE  /\ Front(s) \in Seq(S)
         /\ Len(Front(s)) = Len(s) - 1
         /\ \A i \in 1 .. Len(s) - 1 : Front(s)[i] = s[i]
<1>1. Len(s) \in Nat \ {0}
  OBVIOUS
<1> DEFINE n == Len(s) - 1
<1>2. n \in Int /\ 1 \in Int /\ \A i \in 1 .. n : s[i] \in S
  BY <1>1
<1>3. /\ SubSeq(s, 1, n) \in Seq(S)
      /\ Len(SubSeq(s, 1, n)) = IF 1 <= n THEN n - 1 + 1 ELSE 0
      /\ \A i \in 1 .. n - 1 + 1 : SubSeq(s, 1, n)[i] = s[1 + i - 1]
  BY <1>2, SubSeqProperties
<1>4. Front(s) = SubSeq(s, 1, n)
  BY DEF Front
<1>5. \A i \in 1 .. n : i \in 1 .. n - 1 + 1 /\ 1 + i - 1 = i
  BY <1>1
<1>6. Len(Front(s)) = n
  <2>1. n \in Nat
    BY <1>1
  <2>. HIDE DEF n
  <2>2. (IF 1 <= n THEN n - 1 + 1 ELSE 0) = n
    BY <2>1
  <2>. QED  BY <2>2, <1>3, <1>4
<1>. QED  BY <1>3, <1>4, <1>5, <1>6

LEMMA AppendFact ==
  ASSUME NEW S, NEW s \in Seq(S), NEW x \in S
  PROVE  /\ Append(s, x) \in Seq(S)
         /\ Append(s, x) # <<>>
         /\ Len(Append(s, x)) = Len(s) + 1
         /\ \A i \in 1 .. Len(s) : Append(s, x)[i] = s[i]
         /\ Append(s, x)[Len(s) + 1] = x
OBVIOUS

LEMMA EmptyFact ==
  ASSUME NEW S, NEW s \in Seq(S)
  PROVE  Len(s) \in Nat /\ (s = <<>> <=> Len(s) = 0)
OBVIOUS

LEMMA InitInv == Init => Inv
<1>. SUFFICES ASSUME Init PROVE Inv
  OBVIOUS
<1>. USE NoNodeAssumption DEF Init
<1>1. TypeOK
  BY DEF TypeOK
<1>2. StackInStep
  BY DEF StackInStep, IsPath, Depth
<1>3. ArgInv
  BY DEF ArgInv, EndOf
<1>4. CoverInv /\ PathInv
  BY DEF CoverInv, PathInv
<1>. QED  BY <1>1, <1>2, <1>3, <1>4 DEF Inv

(* Nothing to do when no step is taken.                                    *)
LEMMA StutterInv == Inv /\ UNCHANGED vars => Inv'
BY DEF Inv, vars, TypeOK, Out, StackInStep, IsPath, EndOf, Depth, ArgInv, CoverInv, Pending, PathInv

LEMMA FoundInv == Inv /\ Found => Inv'
<1>. SUFFICES ASSUME Inv, Found PROVE Inv'
  OBVIOUS
<1>. USE NoNodeAssumption DEF Inv, Found
<1>1. TypeOK'
  BY DEF TypeOK, Out
<1>2. result = "none" /\ IsPath(stack) /\ arg = EndOf(stack)
  BY DEF ArgInv, StackInStep, TypeOK
<1>3. PathInv'
  BY <1>2 DEF PathInv, IsPath, EndOf
<1>. QED  BY <1>1, <1>2, <1>3 DEF StackInStep, ArgInv, CoverInv

LEMMA EnterInv == Inv /\ Enter => Inv'
<1>. SUFFICES ASSUME Inv, Enter PROVE Inv'
  OBVIOUS
<1>. USE NoNodeAssumption DEF Inv, Enter
<1> DEFINE c == [node |-> arg, left |-> Out(arg)]
<1>1. result = "none" /\ arg \in Nodes /\ arg # NoNode /\ graph \subseteq Edge
  BY DEF ArgInv, TypeOK
<1>2. c \in [node : Nodes, left : SUBSET Edge]
  BY <1>1 DEF Out
<1>3. /\ calls \in Seq([node : Nodes, left : SUBSET Edge])
      /\ calls' \in Seq([node : Nodes, left : SUBSET Edge])
      /\ Len(calls') = Len(calls) + 1
      /\ \A i \in 1 .. Len(calls) : calls'[i] = calls[i]
      /\ calls'[Len(calls) + 1] = c
  BY <1>2, AppendFact DEF TypeOK
<1>4. Len(calls) \in Nat
  BY <1>3
<1>. HIDE DEF c
<1>5. c.node = arg /\ c.left = Out(arg)
  BY DEF c
<1>6. \A i \in 1 .. Len(calls') : calls'[i].left \subseteq Out(calls'[i].node)
  BY <1>3, <1>4, <1>5 DEF TypeOK
<1>7. TypeOK'
  BY <1>1, <1>3, <1>6 DEF TypeOK, Out
<1>8. IsPath(stack) /\ Depth = Len(stack) /\ arg = EndOf(stack)
  BY <1>1 DEF StackInStep, ArgInv
<1>9. StackInStep'
  <2>1. IsPath(stack)'
    BY <1>8 DEF IsPath
  <2>2. Depth' = Len(stack) + 1
    BY <1>3, <1>8 DEF Depth
  <2>3. ASSUME NEW i \in 1 .. Depth'
        PROVE  calls'[i].node = (IF i = 1 THEN start ELSE Callee(stack[i - 1]))
    <3>1. CASE i = Len(calls) + 1
      BY <3>1, <1>3, <1>4, <1>5, <1>8, EmptyFact DEF EndOf, Depth, TypeOK
    <3>2. CASE i \in 1 .. Len(calls)
      BY <3>2, <1>1, <1>3 DEF StackInStep, Depth
    <3>. QED  BY <3>1, <3>2, <2>2, <1>4, <1>8 DEF Depth
  <2>. QED  BY <2>1, <2>2, <2>3 DEF StackInStep
<1>10. ArgInv'
  BY <1>1 DEF ArgInv
<1>11. CoverInv'
  <2>1. seen' \cap end = {} /\ start \in seen'
    BY <1>1 DEF CoverInv
  <2>2. ASSUME NEW e \in graph, Caller(e) \in seen'
        PROVE  Pending(e)'
    <3>1. CASE Caller(e) \in seen
      <4>1. Pending(e)
        BY <3>1, <1>1 DEF CoverInv
      <4>2. CASE Callee(e) \in seen \/ arg = Callee(e)
        BY <4>2 DEF Pending
      <4>3. CASE \E i \in 1 .. Depth : e \in calls[i].left
        BY <4>3, <1>3, <1>4 DEF Pending, Depth
      <4>. QED  BY <4>1, <4>2, <4>3 DEF Pending
    <3>2. CASE Caller(e) = arg
      <4>1. e \in calls'[Len(calls) + 1].left
        BY <3>2, <1>3, <1>5 DEF Out
      <4>. QED  BY <4>1, <1>3, <1>4 DEF Pending, Depth
    <3>. QED  BY <2>2, <3>1, <3>2
  <2>. QED  BY <2>1, <2>2 DEF CoverInv
<1>12. PathInv'
  BY <1>1 DEF PathInv
<1>. QED  BY <1>7, <1>9, <1>10, <1>11, <1>12

LEMMA SeenInv == Inv /\ Seen => Inv'
<1>. SUFFICES ASSUME Inv, Seen PROVE Inv'
  OBVIOUS
<1>. USE NoNodeAssumption DEF Inv, Seen
<1>1. result = "none" /\ arg \in Nodes /\ arg # NoNode /\ stack \in Seq(Edge)
  BY DEF ArgInv, TypeOK
<1>2. stack # <<>>
  BY <1>1 DEF ArgInv
<1>3. /\ stack' \in Seq(Edge)
      /\ Len(stack') = Len(stack) - 1
      /\ \A i \in 1 .. Len(stack) - 1 : stack'[i] = stack[i]
  BY <1>1, <1>2, FrontFact
<1>4. Len(stack) \in Nat \ {0}
  BY <1>1, <1>2
<1>5. TypeOK'
  BY <1>3 DEF TypeOK, Out
<1>6. IsPath(stack) /\ Depth = Len(stack)
  BY <1>1 DEF StackInStep
<1>7. StackInStep'
  <2>1. IsPath(stack)'
    <3>1. \A i \in 1 .. Len(stack') : stack'[i] \in graph'
      BY <1>3, <1>4, <1>6 DEF IsPath
    <3>2. stack' # <<>> => Caller(stack'[1]) = start'
      BY <1>2, <1>3, <1>4, <1>6, EmptyFact DEF IsPath
    <3>3. \A i \in 1 .. Len(stack') - 1 : Callee(stack'[i]) = Caller(stack'[i + 1])
      BY <1>3, <1>4, <1>6 DEF IsPath
    <3>. QED  BY <3>1, <3>2, <3>3 DEF IsPath
  <2>2. Depth' = Len(stack') + 1
    BY <1>3, <1>4, <1>6 DEF Depth
  <2>3. \A i \in 1 .. Depth' : calls'[i].node = (IF i = 1 THEN start' ELSE Callee(stack'[i - 1]))
    BY <1>1, <1>3, <1>4, <1>6 DEF Depth, StackInStep
  <2>. QED  BY <2>1, <2>2, <2>3 DEF StackInStep
<1>8. ArgInv'
  BY <1>1 DEF ArgInv
<1>9. CoverInv'
  BY <1>1 DEF CoverInv, Pending, Depth
<1>10. PathInv'
  BY <1>1 DEF PathInv
<1>. QED  BY <1>5, <1>7, <1>8, <1>9, <1>10

LEMMA PushInv == Inv /\ Push => Inv'
<1>. SUFFICES ASSUME Inv, Push PROVE Inv'
  OBVIOUS
<1>. USE NoNodeAssumption DEF Inv
<1>1. PICK e \in calls[Depth].left :
         /\ calls' = [calls EXCEPT ![Depth].left = @ \ {e}]
         /\ stack' = Append(stack, e)
         /\ arg' = Callee(e)
  BY DEF Push
<1>2. /\ arg = NoNode /\ result = "none" /\ Depth > 0
      /\ UNCHANGED <<graph, start, end, seen, result>>
  BY DEF Push
<1> DEFINE C == [node : Nodes, left : SUBSET Edge]
<1>3. /\ calls \in Seq(C) /\ stack \in Seq(Edge) /\ graph \subseteq Edge
      /\ Depth = Len(calls) /\ Len(calls) \in Nat /\ Depth \in 1 .. Len(calls)
      /\ Len(stack) \in Nat
  BY <1>2 DEF TypeOK, Depth
<1>. HIDE DEF C
<1>4. calls[Depth] \in C
  BY <1>3
<1>5. e \in graph /\ Caller(e) = calls[Depth].node /\ e \in Edge
  BY <1>1, <1>3 DEF TypeOK, Out
<1>6. /\ calls' \in Seq(C) /\ Len(calls') = Len(calls)
      /\ \A i \in 1 .. Len(calls) : calls'[i].node = calls[i].node
      /\ \A i \in 1 .. Len(calls) :
            calls'[i].left = IF i = Depth THEN calls[i].left \ {e} ELSE calls[i].left
  <2> DEFINE d == [calls[Depth] EXCEPT !.left = @ \ {e}]
  <2>1. calls' = [calls EXCEPT ![Depth] = d]
    BY <1>1
  <2>2. d \in C /\ d.node = calls[Depth].node /\ d.left = calls[Depth].left \ {e}
    BY <1>4 DEF C
  <2>. HIDE DEF d
  <2>3. calls' \in Seq(C) /\ Len(calls') = Len(calls)
    BY <2>1, <2>2, <1>3
  <2>4. \A i \in 1 .. Len(calls) : calls'[i] = IF i = Depth THEN d ELSE calls[i]
    BY <2>1, <1>3
  <2>. QED  BY <2>2, <2>3, <2>4
<1>7. /\ stack' \in Seq(Edge) /\ stack' # <<>> /\ Len(stack') = Len(stack) + 1
      /\ \A i \in 1 .. Len(stack) : stack'[i] = stack[i]
      /\ stack'[Len(stack) + 1] = e
  BY <1>1, <1>3, <1>5, AppendFact
<1>8. Callee(e) \in Nodes
  BY <1>5 DEF Callee, Edge
<1>9. TypeOK'
  <2>1. ASSUME NEW i \in 1 .. Len(calls') PROVE calls'[i].left \subseteq Out(calls'[i].node)
    BY <1>6 DEF TypeOK
  <2>2. (\A i \in 1 .. Len(calls) : calls[i].left \subseteq Out(calls[i].node))'
    BY <2>1, <1>2 DEF Out
  <2>. QED  BY <2>2, <1>1, <1>2, <1>6, <1>7, <1>8 DEF TypeOK, C
<1>10. IsPath(stack) /\ Depth = Len(stack) + 1
       /\ calls[Depth].node = (IF Depth = 1 THEN start ELSE Callee(stack[Depth - 1]))
  BY <1>2, <1>3 DEF StackInStep
<1>11. StackInStep'
  <2>1. \A i \in 1 .. Len(stack') : stack'[i] \in graph'
    BY <1>2, <1>3, <1>5, <1>7, <1>10 DEF IsPath
  <2>2. Caller(stack'[1]) = start'
    <3>1. CASE Len(stack) = 0
      BY <3>1, <1>2, <1>5, <1>7, <1>10
    <3>2. CASE Len(stack) > 0
      BY <3>2, <1>2, <1>3, <1>7, <1>10, EmptyFact DEF IsPath
    <3>. QED  BY <3>1, <3>2, <1>3
  <2>3. ASSUME NEW i \in 1 .. Len(stack') - 1
        PROVE  Callee(stack'[i]) = Caller(stack'[i + 1])
    <3>1. CASE i = Len(stack)
      BY <3>1, <1>3, <1>5, <1>7, <1>10
    <3>2. CASE i \in 1 .. Len(stack) - 1
      BY <3>2, <1>3, <1>7, <1>10 DEF IsPath
    <3>. QED  BY <3>1, <3>2, <1>3, <1>7
  <2>4. IsPath(stack)'
    BY <2>1, <2>2, <2>3 DEF IsPath
  <2>5. Depth' = Len(stack') /\ arg' # NoNode
    BY <1>1, <1>3, <1>6, <1>7, <1>8, <1>10 DEF Depth
  <2>6. ASSUME NEW i \in 1 .. Depth'
        PROVE  calls'[i].node = (IF i = 1 THEN start' ELSE Callee(stack'[i - 1]))
    <3>1. i \in 1 .. Depth
      BY <1>3, <1>6 DEF Depth
    <3>2. calls'[i].node = (IF i = 1 THEN start ELSE Callee(stack[i - 1]))
      BY <3>1, <1>2, <1>3, <1>6 DEF StackInStep
    <3>3. i # 1 => stack'[i - 1] = stack[i - 1]
      BY <3>1, <1>3, <1>7, <1>10
    <3>. QED  BY <3>2, <3>3, <1>2
  <2>. QED  BY <2>4, <2>5, <2>6 DEF StackInStep
<1>12. ArgInv'
  BY <1>1, <1>2, <1>3, <1>7 DEF ArgInv, EndOf
<1>13. CoverInv'
  <2>1. seen' \cap end' = {} /\ start' \in seen'
    BY <1>2, <1>3 DEF CoverInv, TypeOK
  <2>2. ASSUME NEW g \in graph, Caller(g) \in seen
        PROVE  Pending(g)'
    <3>1. Pending(g)
      BY <2>2, <1>2 DEF CoverInv
    <3>2. CASE Callee(g) \in seen
      BY <3>2, <1>2 DEF Pending
    <3>3. CASE g = e
      BY <3>3, <1>1 DEF Pending
    <3>4. CASE g # e /\ \E i \in 1 .. Depth : g \in calls[i].left
      BY <3>4, <1>3, <1>6 DEF Pending, Depth
    <3>5. arg # Callee(g)
      BY <1>2, <1>3 DEF Callee, Edge
    <3>. QED  BY <3>1, <3>2, <3>3, <3>4, <3>5 DEF Pending
  <2>. QED  BY <2>1, <2>2, <1>2 DEF CoverInv
<1>14. PathInv'
  BY <1>2 DEF PathInv
<1>. QED  BY <1>9, <1>11, <1>12, <1>13, <1>14

LEMMA ReturnInv == Inv /\ Return => Inv'
<1>. SUFFICES ASSUME Inv, Return PROVE Inv'
  OBVIOUS
<1>. USE NoNodeAssumption DEF Inv
<1> DEFINE C == [node : Nodes, left : SUBSET Edge]
<1>1. /\ arg = NoNode /\ result = "none" /\ Depth > 0 /\ calls[Depth].left = {}
      /\ calls' = Front(calls)
      /\ UNCHANGED <<graph, start, end, seen, arg>>
  BY DEF Return
<1>2. /\ calls \in Seq(C) /\ stack \in Seq(Edge) /\ graph \subseteq Edge
      /\ Depth = Len(calls) /\ Len(calls) \in Nat /\ Depth \in 1 .. Len(calls)
      /\ Len(stack) \in Nat /\ calls # <<>>
  BY <1>1 DEF TypeOK, Depth
<1>. HIDE DEF C
<1>3. /\ calls' \in Seq(C) /\ Len(calls') = Len(calls) - 1
      /\ \A i \in 1 .. Len(calls) - 1 : calls'[i] = calls[i]
  BY <1>1, <1>2, FrontFact
<1>4. IsPath(stack) /\ Depth = Len(stack) + 1
  BY <1>1 DEF StackInStep
<1>5. CoverInv'
  <2>1. seen \cap end = {} /\ start \in seen
    BY <1>1, <1>2 DEF CoverInv, TypeOK
  <2>2. ASSUME NEW e \in graph, Caller(e) \in seen
        PROVE  Pending(e)'
    <3>1. Pending(e)
      BY <2>2, <1>1 DEF CoverInv
    <3>2. CASE Callee(e) \in seen \/ arg = Callee(e)
      BY <3>2, <1>1 DEF Pending
    <3>3. CASE \E i \in 1 .. Depth : e \in calls[i].left
      <4>1. PICK i \in 1 .. Depth : e \in calls[i].left
        BY <3>3
      <4>2. i \in 1 .. Len(calls) - 1
        BY <4>1, <1>1, <1>2
      <4>. QED  BY <4>1, <4>2, <1>2, <1>3 DEF Pending, Depth
    <3>. QED  BY <3>1, <3>2, <3>3 DEF Pending
  <2>. QED  BY <2>1, <2>2, <1>1 DEF CoverInv
<1>6. (\A i \in 1 .. Len(calls) : calls[i].left \subseteq Out(calls[i].node))'
  <2>1. \A i \in 1 .. Len(calls') : calls'[i].left \subseteq Out(calls'[i].node)
    BY <1>2, <1>3 DEF TypeOK
  <2>. QED  BY <2>1, <1>1 DEF Out
<1>7. CASE Depth = 1 /\ result' = "nil" /\ UNCHANGED stack
  <2>1. calls' = <<>>
    BY <1>7, <1>2, <1>3, EmptyFact
  <2>2. TypeOK'
    BY <1>1, <1>3, <1>6, <1>7 DEF TypeOK, C
  <2>3. StackInStep' /\ ArgInv' /\ PathInv'
    BY <2>1, <1>1, <1>7 DEF StackInStep, ArgInv, PathInv
  <2>. QED  BY <2>2, <2>3, <1>5
<1>8. CASE Depth > 1 /\ stack' = Front(stack) /\ UNCHANGED result
  <2>1. stack # <<>> /\ Len(stack) \in Nat \ {0}
    BY <1>8, <1>2, <1>4, EmptyFact
  <2>2. /\ stack' \in Seq(Edge)
        /\ Len(stack') = Len(stack) - 1
        /\ \A i \in 1 .. Len(stack) - 1 : stack'[i] = stack[i]
    BY <2>1, <1>2, <1>8, FrontFact
  <2>3. TypeOK'
    BY <2>2, <1>1, <1>3, <1>6, <1>8 DEF TypeOK, C
  <2>4. StackInStep'
    <3>1. \A i \in 1 .. Len(stack') : stack'[i] \in graph'
      BY <2>1, <2>2, <1>1, <1>4 DEF IsPath
    <3>2. stack' # <<>> => Caller(stack'[1]) = start'
      BY <2>1, <2>2, <1>1, <1>4, EmptyFact DEF IsPath
    <3>3. \A i \in 1 .. Len(stack') - 1 : Callee(stack'[i]) = Caller(stack'[i + 1])
      BY <2>1, <2>2, <1>4 DEF IsPath
    <3>4. IsPath(stack)'
      BY <3>1, <3>2, <3>3 DEF IsPath
    <3>5. Depth' = Len(stack') + 1
      BY <2>1, <2>2, <1>2, <1>3, <1>4 DEF Depth
    <3>6. ASSUME NEW i \in 1 .. Depth'
          PROVE  calls'[i].node = (IF i = 1 THEN start' ELSE Callee(stack'[i - 1]))
      <4>1. i \in 1 .. Len(calls) - 1
        BY <1>2, <1>3 DEF Depth
      <4>2. calls'[i].node = (IF i = 1 THEN start ELSE Callee(stack[i - 1]))
        BY <4>1, <1>1, <1>2, <1>3 DEF StackInStep
      <4>3. i # 1 => stack'[i - 1] = stack[i - 1]
        BY <4>1, <2>1, <2>2, <1>2, <1>4
      <4>. QED  BY <4>2, <4>3, <1>1
    <3>. QED  BY <3>4, <3>5, <3>6, <1>1 DEF StackInStep
  <2>5. ArgInv' /\ PathInv'
    BY <1>1, <1>8 DEF ArgInv, PathInv
  <2>. QED  BY <2>3, <2>4, <2>5, <1>5
<1>. QED  BY <1>7, <1>8 DEF Return

(* What the invariant says of the answer.                                  *)
LEMMA InvIsRight == Inv => SearchIsRight
<1>. SUFFICES ASSUME Inv PROVE SearchIsRight
  OBVIOUS
<1>1. ASSUME result = "nil", NEW n \in end PROVE ~Reachable(n)
  <2>1. calls = <<>> /\ arg = NoNode /\ Len(calls) = 0
    BY <1>1 DEF Inv, ArgInv
  <2>2. seen \cap end = {} /\ start \in seen /\ seen \in SUBSET Nodes /\ graph \subseteq Edge
    BY <1>1, <2>1, NoNodeAssumption DEF Inv, CoverInv, TypeOK
  <2>3. ASSUME NEW e \in graph, Caller(e) \in seen PROVE Callee(e) \in seen
    <3>1. Pending(e)
      BY <2>3, <1>1 DEF Inv, CoverInv
    <3>2. Callee(e) \in Nodes
      BY <2>2 DEF Callee, Edge
    <3>3. ~\E i \in 1 .. Depth : e \in calls[i].left
      BY <2>1 DEF Depth
    <3>. QED  BY <3>1, <3>2, <3>3, <2>1, NoNodeAssumption DEF Pending
  <2>4. ClosedUnder(seen, graph)
    BY <2>3 DEF ClosedUnder
  <2>. QED  BY <2>2, <2>4 DEF Reachable
<1>. QED  BY <1>1 DEF SearchIsRight, Inv, PathInv

LEMMA NextInv == Inv /\ [Next]_vars => Inv'
BY FoundInv, EnterInv, SeenInv, PushInv, ReturnInv, StutterInv DEF Next, Step, Returned

(***************************************************************************)
(* The three stacks of the search keep their types, and a loop only holds  *)
(* edges of its own node.                                                  *)
(***************************************************************************)
THEOREM TypeCorrect == Spec => []TypeOK
<1>1. Inv => TypeOK
  BY DEF Inv
<1>. QED  BY <1>1, InitInv, NextInv, PTL DEF Spec

(***************************************************************************)
(* For every graph, start and set of ends: nil exactly if no end can be    *)
(* reached, and otherwise a path to one.                                   *)
(***************************************************************************)
THEOREM SearchIsRightHolds == Spec => []SearchIsRight
BY InvIsRight, InitInv, NextInv, PTL DEF Spec

(***************************************************************************)
(* The recursion and the shared stack of edges never get out of step.      *)
(***************************************************************************)
THEOREM StackInStepHolds == Spec => []StackInStep
<1>1. Inv => StackInStep
  BY DEF Inv
<1>. QED  BY <1>1, InitInv, NextInv, PTL DEF Spec

(* A path in the sense of PathSearch is one in the sense of GraphSearch.   *)
LEMMA LeadsFact == IsPath(stack) /\ EndOf(stack) \in end => Promise!Leads(stack)
BY DEF Promise!Leads, IsPath, EndOf, Caller, Callee

(* So is a node that can be reached.                                       *)
LEMMA ReachesFact == \A n : Reachable(n) <=> Promise!Reaches(n)
BY DEF Promise!Reaches, Reachable, ClosedUnder, Caller, Callee

(* A step changes nothing that a caller sees, or it gives the answer.      *)
LEMMA StepKeepsPromise ==
  ASSUME Inv, Step, SearchIsRight'
  PROVE  Promise!Answer \/ UNCHANGED Promise!vars
<1>1. CASE Found
  <2>1. result = "none" /\ result' = "path" /\ stack' = stack /\ UNCHANGED <<graph, start, end>>
    BY <1>1, NoNodeAssumption DEF Found, Inv, ArgInv, TypeOK
  <2>2. IsPath(stack) /\ EndOf(stack) \in end
    BY <2>1 DEF SearchIsRight, IsPath, EndOf
  <2>. QED  BY <2>1, <2>2, LeadsFact DEF Promise!Answer, Promise!Asked, Promise!Path
<1>2. CASE Return /\ Depth = 1
  <2>1. result = "none" /\ result' = "nil" /\ UNCHANGED <<graph, start, end>>
    BY <1>2 DEF Return
  <2>2. \A n \in end : ~Reachable(n)
    BY <2>1 DEF SearchIsRight, Reachable, ClosedUnder
  <2>. QED  BY <2>1, <2>2, ReachesFact DEF Promise!Answer, Promise!Asked, Promise!Nil
<1>3. CASE Enter \/ Seen \/ Push \/ (Return /\ Depth # 1)
  <2>1. result = "none" /\ UNCHANGED <<graph, start, end, result>>
    BY <1>3, NoNodeAssumption DEF Enter, Seen, Push, Return, Inv, ArgInv, TypeOK
  <2>. QED  BY <2>1 DEF Promise!vars
<1>. QED  BY <1>1, <1>2, <1>3 DEF Step

(***************************************************************************)
(* PathSearch implements GraphSearch, as far as safety goes: on every call *)
(* graph it gives its callers one answer, and the right one.               *)
(***************************************************************************)
THEOREM PromiseHolds == Spec => Promise!Init /\ [][Promise!Next]_Promise!vars
<1>1. Init => Promise!Init
  BY DEF Init, Promise!Init, Promise!Asked
<1>2. Inv /\ SearchIsRight' /\ [Next]_vars => [Promise!Next]_Promise!vars
  <2>1. Returned \/ UNCHANGED vars => UNCHANGED Promise!vars
    BY DEF Returned, vars, Promise!vars
  <2>. QED  BY <2>1, StepKeepsPromise DEF Next, Promise!Next
<1>. QED  BY <1>1, <1>2, InvIsRight, InitInv, NextInv, PTL DEF Spec
==============================================================================
