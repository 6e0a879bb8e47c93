----------------------------- MODULE SccProofs -----------------------------
(***************************************************************************)
(* Tarjan's algorithm, as Graph.FindSCCs has it, is right for every graph  *)
(* and every order of vertices and successors.                             *)
(*                                                                         *)
(* The argument.  A vertex is unvisited, on the stack, or finished.  An    *)
(* active vertex (one with a call of strongconnect) reaches everything     *)
(* that came onto the stack after it, and everything on the stack reaches  *)
(* an active vertex that came before it: so what is taken off the stack    *)
(* together is mutually reachable.  The lowlink of the active vertices     *)
(* bounds where edges of the stack may lead: so when a vertex has its own  *)
(* index as lowlink, no edge leaves what is taken off for what stays, and  *)
(* the finished vertices remain closed.                                    *)
(***************************************************************************)
EXTENDS Scc, TLAPS

Frame == [v : Vertices, left : SUBSET Vertices]

TypeInv ==
  /\ succs \in [Vertices -> SUBSET Vertices]
  /\ index \in Nat
  /\ indexOf \in [Vertices -> Nat]
  /\ lowlink \in [Vertices -> Nat]
  /\ s \in Seq(Vertices)
  /\ scc \in Nat
  /\ SCC \in [Vertices -> Int]
  /\ calls \in Seq(Frame)
  /\ done \in BOOLEAN

On == Range(s)
Depth == Len(calls)

(* Indices are given out in order.                                         *)
IndexInv ==
  /\ index > 0 /\ \A v \in Vertices : indexOf[v] < index
  /\ \A v, w \in Vertices : indexOf[v] = indexOf[w] /\ indexOf[v] # 0 => v = w

(* The stack has what is visited and not finished, in the order of visits. *)
StackInv ==
  /\ \A i, j \in 1 .. Len(s) : i < j => indexOf[s[i]] < indexOf[s[j]]
  /\ \A v \in Vertices : v \in On <=> indexOf[v] # 0 /\ SCC[v] = -1
  /\ \A v \in Vertices : indexOf[v] = 0 => SCC[v] = -1

(* The active vertices are on the stack, in the order of the calls.        *)
CallInv ==
  /\ \A i, j \in 1 .. Depth : i < j => indexOf[calls[i].v] < indexOf[calls[j].v]
  /\ \A i \in 1 .. Depth : calls[i].v \in On /\ calls[i].left \subseteq succs[calls[i].v]

(* The edges of v that strongconnect is done with lead to visited vertices.*)
Passed(v) == {w \in succs[v] : \A i \in 1 .. Depth : calls[i].v = v => w \notin calls[i].left}
EdgeInv == \A v \in Vertices : indexOf[v] # 0 => \A w \in Passed(v) : indexOf[w] # 0

(* Paths between the stack and the active vertices.                        *)
ReachInv ==
  /\ \A i \in 1 .. Depth : \A x \in On :
       indexOf[calls[i].v] <= indexOf[x] => Reaches(succs, calls[i].v, x)
  /\ \A x \in On : \E i \in 1 .. Depth :
       indexOf[calls[i].v] <= indexOf[x] /\ Reaches(succs, x, calls[i].v)

(* A lowlink is the index of something on the stack that can be reached;   *)
(* and where an edge crosses an active vertex backwards, the lowlink of    *)
(* that vertex or of one after it tells.                                   *)
LowInv ==
  /\ \A v \in On : /\ lowlink[v] <= indexOf[v]
                   /\ \E u \in On : indexOf[u] = lowlink[v] /\ Reaches(succs, v, u)
  /\ \A x \in On : \A w \in Passed(x) \cap On : \A i \in 1 .. Depth :
       indexOf[w] < indexOf[calls[i].v] /\ indexOf[calls[i].v] <= indexOf[x] =>
         \E j \in i .. Depth : lowlink[calls[j].v] <= indexOf[w]

(* The components found so far, the last one first.                        *)
Finished == {v \in Vertices : SCC[v] # -1}
ComponentInv ==
  /\ \A v \in Finished : SCC[v] \in 0 .. scc - 1
  /\ \A v \in Finished : \A w \in succs[v] : w \in Finished /\ SCC[w] <= SCC[v]
  /\ \A v, w \in Finished : SCC[v] = SCC[w] <=> Reaches(succs, v, w) /\ Reaches(succs, w, v)
  /\ \A k \in 0 .. scc - 1 : \E v \in Finished : SCC[v] = k

SearchInv == IndexInv /\ StackInv /\ CallInv /\ EdgeInv /\ ReachInv /\ LowInv /\ ComponentInv

DoneInv == calls = <<>> /\ (\A v \in Vertices : indexOf[v] # 0) /\ ComponentsAreOrdered

SccInv == TypeInv /\ (~done => SearchInv) /\ (done => DoneInv)

-----------------------------------------------------------------------------
(* Paths.                                                                  *)
LEMMA ReachSelf == \A G, v : Reaches(G, v, v)
BY DEF Reaches

LEMMA ReachEdge ==
  ASSUME NEW G \in [Vertices -> SUBSET Vertices], NEW u \in Vertices, NEW v \in Vertices, NEW w \in G[v],
         Reaches(G, u, v)
  PROVE  Reaches(G, u, w)
BY DEF Reaches, Closed

LEMMA ReachTrans ==
  ASSUME NEW G, NEW u, NEW v, NEW w, Reaches(G, u, v), Reaches(G, v, w)
  PROVE  Reaches(G, u, w)
BY DEF Reaches

LEMMA ReachClosed ==
  ASSUME NEW G, NEW S \in SUBSET Vertices, Closed(G, S), NEW v \in S, NEW w, Reaches(G, v, w)
  PROVE  w \in S
BY DEF Reaches

-----------------------------------------------------------------------------
(* Sequences: what is on a stack.                                          *)
LEMMA OnFact ==
  ASSUME TypeInv
  PROVE  /\ Len(s) \in Nat /\ Depth \in Nat
         /\ \A x : x \in On <=> \E i \in 1 .. Len(s) : s[i] = x
         /\ On \subseteq Vertices
         /\ \A i \in 1 .. Len(s) : s[i] \in Vertices /\ s[i] \in On
         /\ \A i \in 1 .. Depth : /\ calls[i] \in Frame /\ calls[i].v \in Vertices
                                  /\ calls[i].left \subseteq Vertices
<1>1. s \in Seq(Vertices) /\ calls \in Seq(Frame) BY DEF TypeInv
<1>2. Len(s) \in Nat /\ Len(calls) \in Nat /\ DOMAIN s = 1 .. Len(s) BY <1>1
<1>3. \A i \in 1 .. Len(s) : s[i] \in Vertices BY <1>1
<1>4. \A i \in 1 .. Len(calls) : calls[i] \in Frame BY <1>1
<1>. QED  BY <1>2, <1>3, <1>4 DEF On, Range, Depth, Frame

(* The vertex whose call is at the top has the largest index of all active *)
(* vertices.                                                               *)
LEMMA TopFact ==
  ASSUME TypeInv, CallInv, calls # <<>>
  PROVE  /\ Depth \in 1 .. Depth /\ Depth > 0 /\ Top = calls[Depth]
         /\ \A i \in 1 .. Depth : indexOf[calls[i].v] <= indexOf[calls[Depth].v]
         /\ \A i \in 1 .. Depth : calls[i].v = calls[Depth].v => i = Depth
<1>1. calls \in Seq(Frame) BY DEF TypeInv
<1>2. Depth \in Nat /\ Depth > 0 BY <1>1 DEF Depth
<1>3. Top = calls[Depth] BY DEF Top, Last, Depth
<1>4. \A i \in 1 .. Depth : indexOf[calls[i].v] \in Nat BY OnFact DEF TypeInv
<1>5. \A i \in 1 .. Depth : i = Depth \/ indexOf[calls[i].v] < indexOf[calls[Depth].v]
  BY <1>2 DEF CallInv
<1>. QED  BY <1>2, <1>3, <1>4, <1>5

-----------------------------------------------------------------------------
(* The head of strongconnect.                                              *)
LEMMA VisitStep ==
  ASSUME TypeInv, ~done, SearchInv, NEW w \in Vertices, indexOf[w] = 0, Visit(w, calls),
         calls = <<>> \/ w \in succs[Top.v]
  PROVE  TypeInv' /\ ~done' /\ SearchInv'
<1>. USE DEF SearchInv
<1>1. /\ \A x \in Vertices : indexOf'[x] = IF x = w THEN index ELSE indexOf[x]
      /\ \A x \in Vertices : lowlink'[x] = IF x = w THEN index ELSE lowlink[x]
      /\ index' = index + 1 /\ succs' = succs /\ scc' = scc /\ SCC' = SCC /\ done' = done
      /\ s' = Append(s, w) /\ calls' = Append(calls, [v |-> w, left |-> succs[w]])
  BY DEF Visit, Enter, TypeInv
<1>2. [v |-> w, left |-> succs[w]] \in Frame BY DEF Frame, TypeInv
<1>3. TypeInv'
  <2>1. s' \in Seq(Vertices) BY <1>1 DEF TypeInv
  <2>2. calls' \in Seq(Frame) BY <1>1, <1>2 DEF TypeInv
  <2>3. indexOf' \in [Vertices -> Nat] /\ lowlink' \in [Vertices -> Nat] /\ index' \in Nat
    BY DEF Visit, TypeInv
  <2>. QED  BY <1>1, <2>1, <2>2, <2>3 DEF TypeInv
<1>4. /\ Len(s') = Len(s) + 1 /\ s'[Len(s) + 1] = w
      /\ \A i \in 1 .. Len(s) : s'[i] = s[i]
  BY <1>1 DEF TypeInv
<1>5. /\ Depth' = Depth + 1 /\ calls'[Depth + 1] = [v |-> w, left |-> succs[w]]
      /\ \A i \in 1 .. Depth : calls'[i] = calls[i]
  BY <1>1, <1>2 DEF TypeInv, Depth
<1>6. calls'[Depth + 1].v = w /\ calls'[Depth + 1].left = succs[w]
  BY <1>5
<1>7. /\ Len(s) \in Nat /\ Depth \in Nat /\ On \subseteq Vertices
      /\ \A x : x \in On <=> \E i \in 1 .. Len(s) : s[i] = x
      /\ \A i \in 1 .. Len(s) : s[i] \in Vertices /\ s[i] \in On
      /\ \A i \in 1 .. Depth : calls[i].v \in Vertices
  BY OnFact
<1>8. /\ index \in Nat /\ index > 0 /\ \A x \in Vertices : indexOf[x] \in Nat /\ indexOf[x] < index
      /\ \A x \in Vertices : lowlink[x] \in Nat
  BY DEF TypeInv, IndexInv
<1>9. w \notin On BY DEF StackInv
<1>10. On' = On \cup {w}
  <2>1. \A x : x \in On' <=> \E i \in 1 .. Len(s') : s'[i] = x
    <3>1. s' \in Seq(Vertices) BY <1>3 DEF TypeInv
    <3>. QED  BY <3>1 DEF On, Range
  <2>2. ASSUME NEW x \in On PROVE x \in On'
    <3>1. PICK i \in 1 .. Len(s) : s[i] = x BY <1>7
    <3>2. i \in 1 .. Len(s') /\ s'[i] = x BY <1>4, <1>7, <3>1
    <3>. QED  BY <2>1, <3>2
  <2>3. w \in On'
    <3>1. Len(s) + 1 \in 1 .. Len(s') BY <1>4, <1>7
    <3>. QED  BY <1>4, <2>1, <3>1
  <2>4. ASSUME NEW x \in On' PROVE x \in On \/ x = w
    <3>1. PICK i \in 1 .. Len(s') : s'[i] = x BY <2>1
    <3>2. i \in 1 .. Len(s) \/ i = Len(s) + 1 BY <1>4, <1>7
    <3>. QED  BY <1>4, <1>7, <3>1, <3>2
  <2>. QED  BY <2>2, <2>3, <2>4
<1>11. IndexInv'
  BY <1>1, <1>8 DEF IndexInv
<1>12. StackInv'
  <2>1. ASSUME NEW i \in 1 .. Len(s'), NEW j \in 1 .. Len(s'), i < j
        PROVE  indexOf'[s'[i]] < indexOf'[s'[j]]
    <3>1. i \in 1 .. Len(s) /\ s'[i] = s[i] /\ s[i] \in On BY <1>4, <1>7, <2>1
    <3>2. s[i] \in Vertices /\ indexOf'[s[i]] = indexOf[s[i]] BY <1>1, <1>7, <1>9, <3>1
    <3>3. CASE j \in 1 .. Len(s)
      <4>1. s'[j] = s[j] /\ s[j] \in On BY <1>4, <1>7, <3>3
      <4>2. indexOf'[s[j]] = indexOf[s[j]] BY <1>1, <1>7, <1>9, <4>1
      <4>. QED  BY <2>1, <3>1, <3>2, <3>3, <4>1, <4>2 DEF StackInv
    <3>4. CASE j = Len(s) + 1 BY <1>1, <1>4, <1>8, <3>1, <3>2, <3>4
    <3>. QED  BY <1>4, <1>7, <3>3, <3>4
  <2>2. \A v \in Vertices : v \in On' <=> indexOf'[v] # 0 /\ SCC'[v] = -1
    BY <1>1, <1>8, <1>10 DEF StackInv
  <2>3. \A v \in Vertices : indexOf'[v] = 0 => SCC'[v] = -1
    BY <1>1, <1>8 DEF StackInv
  <2>. QED  BY <2>1, <2>2, <2>3 DEF StackInv
(* The calls that were there before.                                       *)
<1>13. \A i \in 1 .. Depth : /\ calls[i].v \in On /\ calls[i].v # w
                            /\ indexOf'[calls[i].v] = indexOf[calls[i].v] /\ lowlink'[calls[i].v] = lowlink[calls[i].v]
                            /\ calls'[i] = calls[i]
  BY <1>1, <1>5, <1>7, <1>9 DEF CallInv
<1>14. \A i \in 1 .. Depth' : i \in 1 .. Depth \/ i = Depth + 1
  BY <1>5, <1>7
<1>15. CallInv'
  <2>1. ASSUME NEW i \in 1 .. Depth', NEW j \in 1 .. Depth', i < j
        PROVE  indexOf'[calls'[i].v] < indexOf'[calls'[j].v]
    <3>1. i \in 1 .. Depth BY <1>5, <1>7, <2>1
    <3>2. CASE j \in 1 .. Depth
      <4>1. indexOf[calls[i].v] < indexOf[calls[j].v] BY <2>1, <3>1, <3>2 DEF CallInv
      <4>. QED  BY <1>13, <3>1, <3>2, <4>1
    <3>3. CASE j = Depth + 1
      <4>1. indexOf'[calls'[j].v] = index BY <1>1, <1>6, <3>3
      <4>2. indexOf'[calls'[i].v] = indexOf[calls[i].v] BY <1>13, <3>1
      <4>3. indexOf[calls[i].v] < index BY <1>7, <1>8, <3>1
      <4>. QED  BY <4>1, <4>2, <4>3
    <3>. QED  BY <1>14, <3>2, <3>3
  <2>2. \A i \in 1 .. Depth' : calls'[i].v \in On' /\ calls'[i].left \subseteq succs'[calls'[i].v]
    <3>1. ASSUME NEW i \in 1 .. Depth
          PROVE  calls'[i].v \in On' /\ calls'[i].left \subseteq succs'[calls'[i].v]
      <4>1. calls[i].left \subseteq succs[calls[i].v] BY DEF CallInv
      <4>. QED  BY <1>1, <1>10, <1>13, <4>1
    <3>2. calls'[Depth + 1].v \in On' /\ calls'[Depth + 1].left \subseteq succs'[calls'[Depth + 1].v]
      BY <1>1, <1>6, <1>10
    <3>. QED  BY <1>14, <3>1, <3>2
  <2>. QED  BY <2>1, <2>2 DEF CallInv
<1>16. Passed(w)' = {} /\ \A x \in Vertices \ {w} : Passed(x)' = Passed(x)
  <2>1. Depth + 1 \in 1 .. Depth' BY <1>5, <1>7
  <2>2. Passed(w)' = {} BY <1>1, <1>6, <2>1 DEF Passed
  <2>3. ASSUME NEW x \in Vertices \ {w} PROVE Passed(x)' = Passed(x)
    <3>1. \A i \in 1 .. Depth : i \in 1 .. Depth' BY <1>5, <1>7
    <3>2. \A y : (\A i \in 1 .. Depth' : calls'[i].v = x => y \notin calls'[i].left)
                   <=> (\A i \in 1 .. Depth : calls[i].v = x => y \notin calls[i].left)
      BY <1>6, <1>13, <1>14, <3>1
    <3>. QED  BY <1>1, <3>2 DEF Passed
  <2>. QED  BY <2>2, <2>3
<1>17. EdgeInv'
  <2>1. \A x \in Vertices : succs[x] \subseteq Vertices BY DEF TypeInv
  <2>2. \A x \in Vertices : Passed(x) \subseteq Vertices BY <2>1 DEF Passed
  <2>. QED  BY <1>1, <1>8, <1>16, <2>2 DEF EdgeInv
<1>18. ASSUME NEW i \in 1 .. Depth PROVE Reaches(succs, calls[i].v, w)
  <2>1. calls # <<>> /\ Depth \in 1 .. Depth BY <1>7, <1>18 DEF Depth
  <2>2. Top = calls[Depth] /\ indexOf[calls[i].v] <= indexOf[calls[Depth].v] BY <2>1, TopFact
  <2>3. Reaches(succs, calls[i].v, calls[Depth].v) BY <1>13, <2>1, <2>2 DEF ReachInv
  <2>4. w \in succs[calls[Depth].v] BY <2>1, <2>2
  <2>. QED  BY <1>7, <2>1, <2>3, <2>4, ReachEdge DEF TypeInv
<1>19. ReachInv'
  <2>1. ASSUME NEW i \in 1 .. Depth', NEW x \in On', indexOf'[calls'[i].v] <= indexOf'[x]
        PROVE  Reaches(succs, calls'[i].v, x)
    <3>1. CASE i \in 1 .. Depth /\ x \in On
      BY <1>1, <1>7, <1>9, <1>13, <2>1, <3>1 DEF ReachInv
    <3>2. CASE i \in 1 .. Depth /\ x = w BY <1>13, <1>18, <3>2
    <3>3. CASE i = Depth + 1 /\ x = w BY <1>6, <3>3, ReachSelf
    <3>4. CASE i = Depth + 1 /\ x \in On
      <4>1. indexOf'[x] = indexOf[x] /\ indexOf[x] < index /\ indexOf'[calls'[i].v] = index
        BY <1>1, <1>6, <1>7, <1>8, <1>9, <3>4
      <4>. QED  BY <1>7, <1>8, <2>1, <3>4, <4>1
    <3>. QED  BY <1>10, <1>14, <3>1, <3>2, <3>3, <3>4
  <2>2. ASSUME NEW x \in On'
        PROVE  \E i \in 1 .. Depth' : indexOf'[calls'[i].v] <= indexOf'[x] /\ Reaches(succs, x, calls'[i].v)
    <3>1. CASE x \in On
      <4>1. PICK i \in 1 .. Depth : indexOf[calls[i].v] <= indexOf[x] /\ Reaches(succs, x, calls[i].v)
        BY <3>1 DEF ReachInv
      <4>2. i \in 1 .. Depth' BY <1>5, <1>7
      <4>3. indexOf'[x] = indexOf[x] BY <1>1, <1>7, <1>9, <3>1
      <4>. QED  BY <1>13, <4>1, <4>2, <4>3
    <3>2. CASE x = w
      <4>1. Depth + 1 \in 1 .. Depth' BY <1>5, <1>7
      <4>2. indexOf'[w] \in Nat BY <1>1, <1>8
      <4>. QED  BY <1>6, <3>2, <4>1, <4>2, ReachSelf
    <3>. QED  BY <1>10, <3>1, <3>2
  <2>. QED  BY <1>1, <2>1, <2>2 DEF ReachInv
<1>20. LowInv'
  <2>1. ASSUME NEW v \in On'
        PROVE  /\ lowlink'[v] <= indexOf'[v]
               /\ \E u \in On' : indexOf'[u] = lowlink'[v] /\ Reaches(succs, v, u)
    <3>1. CASE v = w BY <1>1, <1>8, <1>10, <3>1, ReachSelf
    <3>2. CASE v \in On
      <4>1. PICK u \in On : indexOf[u] = lowlink[v] /\ Reaches(succs, v, u) BY <3>2 DEF LowInv
      <4>2. indexOf'[u] = indexOf[u] /\ indexOf'[v] = indexOf[v] /\ lowlink'[v] = lowlink[v]
        BY <1>1, <1>7, <1>9, <3>2
      <4>. QED  BY <1>10, <3>2, <4>1, <4>2 DEF LowInv
    <3>. QED  BY <1>10, <3>1, <3>2
  <2>2. ASSUME NEW x \in On', NEW y \in Passed(x)' \cap On', NEW i \in 1 .. Depth',
               indexOf'[y] < indexOf'[calls'[i].v], indexOf'[calls'[i].v] <= indexOf'[x]
        PROVE  \E j \in i .. Depth' : lowlink'[calls'[j].v] <= indexOf'[y]
    <3>1. x \in Vertices /\ x # w /\ x \in On /\ y \in Passed(x) BY <1>7, <1>10, <1>16
    <3>2. indexOf[x] # 0 BY <3>1 DEF StackInv
    <3>3. y # w BY <3>1, <3>2 DEF EdgeInv
    <3>4. y \in On /\ indexOf'[y] = indexOf[y] /\ indexOf'[x] = indexOf[x] BY <1>1, <1>7, <1>10, <3>1, <3>3
    <3>5. i \in 1 .. Depth
      <4>1. indexOf'[x] < index BY <1>7, <1>8, <3>1, <3>4
      <4>2. indexOf'[calls'[Depth + 1].v] = index BY <1>1, <1>6
      <4>3. indexOf'[x] \in Nat BY <1>7, <1>8, <3>1, <3>4
      <4>. QED  BY <1>8, <1>14, <2>2, <4>1, <4>2, <4>3
    <3>6. PICK j \in i .. Depth : lowlink[calls[j].v] <= indexOf[y]
      BY <1>13, <2>2, <3>1, <3>4, <3>5 DEF LowInv
    <3>7. j \in 1 .. Depth /\ j \in i .. Depth' BY <1>5, <1>7, <3>5
    <3>. QED  BY <1>13, <3>4, <3>6, <3>7
  <2>. QED  BY <1>1, <2>1, <2>2 DEF LowInv
<1>21. ComponentInv'
  BY <1>1 DEF ComponentInv, Finished
<1>. QED  BY <1>1, <1>3, <1>11, <1>12, <1>15, <1>17, <1>19, <1>20, <1>21

-----------------------------------------------------------------------------
(* A call that is done with an edge.                                       *)
DoneWith(q, w, r) ==
  /\ r \in Seq(Frame) /\ Len(r) = Len(q)
  /\ \A i \in 1 .. Len(q) : r[i].v = q[i].v
  /\ \A i \in 1 .. Len(q) : r[i].left = IF i = Len(q) THEN q[i].left \ {w} ELSE q[i].left

LEMMA LeaveOutFact ==
  ASSUME NEW q \in Seq(Frame), q # <<>>, NEW w
  PROVE  DoneWith(q, w, LeaveOut(q, w))
<1>1. Len(q) \in 1 .. Len(q) OBVIOUS
<1>2. PICK g \in Frame : g = q[Len(q)] BY <1>1
<1>3. PICK f : f = [v |-> g.v, left |-> g.left \ {w}] OBVIOUS
<1>4. f.v = g.v /\ f.left = g.left \ {w} /\ f \in Frame BY <1>3 DEF Frame
<1>5. PICK r : r = [q EXCEPT ![Len(q)] = f] OBVIOUS
<1>6. LeaveOut(q, w) = r BY <1>2, <1>3, <1>5 DEF LeaveOut
<1>7. /\ r \in Seq(Frame) /\ Len(r) = Len(q)
      /\ \A i \in 1 .. Len(q) : r[i] = IF i = Len(q) THEN f ELSE q[i]
  BY <1>1, <1>4, <1>5
<1>8. DoneWith(q, w, r) BY <1>2, <1>4, <1>7 DEF DoneWith
<1>. QED  BY <1>6, <1>8

-----------------------------------------------------------------------------
(* An edge to a vertex that has been visited.                              *)
LEMMA LookStep ==
  ASSUME TypeInv, ~done, SearchInv, NEW w \in Vertices, Look(w)
  PROVE  TypeInv' /\ ~done' /\ SearchInv'
<1>. USE DEF SearchInv
<1>1. /\ Depth \in 1 .. Depth /\ Depth > 0 /\ Top = calls[Depth]
      /\ \A i \in 1 .. Depth : indexOf[calls[i].v] <= indexOf[calls[Depth].v]
      /\ \A i \in 1 .. Depth : calls[i].v = calls[Depth].v => i = Depth
  BY TopFact DEF Look
<1>2. /\ Depth \in Nat /\ On \subseteq Vertices
      /\ \A i \in 1 .. Depth : calls[i] \in Frame /\ calls[i].v \in Vertices
  BY OnFact
<1>3. PICK v \in Vertices : v = calls[Depth].v BY <1>1, <1>2
<1>4. w \in calls[Depth].left /\ indexOf[w] # 0 /\ w \in succs[v]
  BY <1>1, <1>3 DEF Look, CallInv
<1>5. /\ UNCHANGED <<succs, index, indexOf, s, scc, SCC, done>>
      /\ \A x \in Vertices : lowlink'[x] = IF x = v /\ w \in On THEN Least(lowlink[v], indexOf[w]) ELSE lowlink[x]
      /\ lowlink' \in [Vertices -> Nat]
  BY <1>1, <1>3 DEF Look, On, TypeInv, Least
<1>6. /\ calls' \in Seq(Frame) /\ Depth' = Depth
      /\ \A i \in 1 .. Depth : calls'[i].v = calls[i].v
      /\ \A i \in 1 .. Depth : calls'[i].left = IF i = Depth THEN calls[i].left \ {w} ELSE calls[i].left
  <2>1. calls \in Seq(Frame) BY DEF TypeInv
  <2>2. calls' = LeaveOut(calls, w) /\ calls # <<>> BY DEF Look
  <2>3. DoneWith(calls, w, calls') BY <2>1, <2>2, LeaveOutFact
  <2>. QED  BY <2>3 DEF DoneWith, Depth
<1>7. TypeInv'
  BY <1>5, <1>6 DEF TypeInv
<1>8. On' = On /\ Finished' = Finished
  BY <1>5 DEF On, Finished
<1>9. IndexInv' /\ StackInv' /\ ComponentInv'
  BY <1>5, <1>8 DEF IndexInv, StackInv, ComponentInv
<1>10. CallInv'
  <2>1. \A i \in 1 .. Depth : calls'[i].left \subseteq calls[i].left BY <1>6
  <2>2. \A i \in 1 .. Depth : calls'[i].left \subseteq succs[calls[i].v] BY <2>1 DEF CallInv
  <2>. QED  BY <1>5, <1>6, <1>8, <2>2 DEF CallInv
<1>11. ASSUME NEW x \in Vertices, NEW y \in Passed(x)' PROVE y \in Passed(x) \/ (x = v /\ y = w)
  <2>1. y \in succs[x] /\ \A i \in 1 .. Depth : calls[i].v = x => y \notin calls'[i].left
    BY <1>5, <1>6, <1>11 DEF Passed
  <2>2. CASE x # v BY <1>3, <1>6, <2>1, <2>2 DEF Passed
  <2>3. CASE y # w BY <1>6, <2>1, <2>3 DEF Passed
  <2>. QED  BY <2>2, <2>3
<1>12. EdgeInv'
  BY <1>4, <1>5, <1>11 DEF EdgeInv
<1>13. ReachInv'
  BY <1>5, <1>6, <1>8 DEF ReachInv
<1>14. \A x \in Vertices : indexOf[x] \in Nat /\ lowlink[x] \in Nat
  BY DEF TypeInv
<1>15. \A x \in Vertices : lowlink'[x] <= lowlink[x] /\ lowlink'[x] \in Nat
  BY <1>2, <1>4, <1>5, <1>14 DEF Least
<1>16. LowInv'
  <2>1. ASSUME NEW x \in On
        PROVE  lowlink'[x] <= indexOf[x] /\ \E u \in On : indexOf[u] = lowlink'[x] /\ Reaches(succs, x, u)
    <3>1. x \in Vertices /\ lowlink[x] <= indexOf[x] BY <1>2 DEF LowInv
    <3>2. PICK u \in On : indexOf[u] = lowlink[x] /\ Reaches(succs, x, u) BY DEF LowInv
    <3>3. lowlink'[x] <= indexOf[x] BY <1>14, <1>15, <3>1
    <3>4. CASE lowlink'[x] = lowlink[x] BY <3>2, <3>3, <3>4
    <3>5. CASE lowlink'[x] # lowlink[x]
      <4>1. x = v /\ w \in On /\ lowlink'[x] = indexOf[w] BY <1>5, <3>1, <3>5 DEF Least
      <4>2. Reaches(succs, v, v) BY ReachSelf
      <4>3. succs \in [Vertices -> SUBSET Vertices] BY DEF TypeInv
      <4>4. Reaches(succs, v, w) BY <1>4, <4>2, <4>3, ReachEdge
      <4>. QED  BY <3>3, <4>1, <4>4
    <3>. QED  BY <3>4, <3>5
  <2>2. ASSUME NEW x \in On, NEW y \in Passed(x)' \cap On, NEW i \in 1 .. Depth,
               indexOf[y] < indexOf[calls[i].v], indexOf[calls[i].v] <= indexOf[x]
        PROVE  \E j \in i .. Depth : lowlink'[calls[j].v] <= indexOf[y]
    <3>1. CASE y \in Passed(x)
      <4>1. PICK j \in i .. Depth : lowlink[calls[j].v] <= indexOf[y] BY <2>2, <3>1 DEF LowInv
      <4>2. j \in 1 .. Depth BY <1>2
      <4>3. calls[j].v \in Vertices /\ y \in Vertices BY <1>2, <4>2
      <4>. QED  BY <1>14, <1>15, <4>1, <4>3
    <3>2. CASE x = v /\ y = w
      <4>1. lowlink'[v] = Least(lowlink[v], indexOf[w]) BY <1>5, <3>2
      <4>2. lowlink'[v] <= indexOf[w] BY <1>4, <1>14, <4>1 DEF Least
      <4>3. Depth \in i .. Depth BY <1>2
      <4>. QED  BY <1>3, <3>2, <4>2, <4>3
    <3>3. x \in Vertices /\ y \in Passed(x)' BY <1>2
    <3>. QED  BY <1>11, <3>1, <3>2, <3>3
  <2>3. ASSUME NEW x \in On', NEW y \in Passed(x)' \cap On', NEW i \in 1 .. Depth',
               indexOf'[y] < indexOf'[calls'[i].v], indexOf'[calls'[i].v] <= indexOf'[x]
        PROVE  \E j \in i .. Depth' : lowlink'[calls'[j].v] <= indexOf'[y]
    <3>1. PICK j \in i .. Depth : lowlink'[calls[j].v] <= indexOf[y] BY <1>5, <1>6, <1>8, <2>2, <2>3
    <3>2. j \in 1 .. Depth BY <1>2, <1>6
    <3>. QED  BY <1>5, <1>6, <3>1, <3>2
  <2>4. \A x \in On' : /\ lowlink'[x] <= indexOf'[x]
                       /\ \E u \in On' : indexOf'[u] = lowlink'[x] /\ Reaches(succs', x, u)
    BY <1>5, <1>8, <2>1
  <2>. QED  BY <2>3, <2>4 DEF LowInv
<1>. QED  BY <1>5, <1>7, <1>9, <1>10, <1>12, <1>13, <1>16


-----------------------------------------------------------------------------
(* The end of strongconnect: what it does to the calls.                    *)
LEMMA FrontFact ==
  ASSUME NEW q \in Seq(Frame), q # <<>>
  PROVE  /\ Front(q) \in Seq(Frame) /\ Len(Front(q)) = Len(q) - 1
         /\ \A i \in 1 .. Len(q) - 1 : Front(q)[i] = q[i]
<1>1. PICK n \in Nat : Len(q) = n + 1 /\ n = Len(q) - 1
  <2>1. Len(q) \in Nat /\ Len(q) # 0 OBVIOUS
  <2>2. Len(q) - 1 \in Nat BY <2>1
  <2>. QED  BY <2>1, <2>2
<1>2. Front(q) = SubSeq(q, 1, n) BY <1>1 DEF Front
<1>3. \A i \in 1 .. n : q[i] \in Frame BY <1>1
<1>4. SubSeq(q, 1, n) = [i \in 1 .. n |-> q[i]] BY <1>1
<1>. QED  BY <1>1, <1>2, <1>3, <1>4

LEMMA ReturnCalls ==
  ASSUME TypeInv, CallInv, Return
  PROVE  /\ calls' \in Seq(Frame) /\ Depth' = Depth - 1
         /\ \A i \in 1 .. Depth - 1 : calls'[i].v = calls[i].v
         /\ \A i \in 1 .. Depth - 1 :
              calls'[i].left = IF i = Depth - 1 THEN calls[i].left \ {calls[Depth].v} ELSE calls[i].left
<1>1. calls \in Seq(Frame) /\ calls # <<>> BY DEF TypeInv, Return
<1>2. Depth \in Nat /\ Depth > 0 BY <1>1 DEF Depth
<1>3. CASE Depth = 1
  <2>1. calls' = <<>> BY <1>3 DEF Return, Depth
  <2>. QED  BY <1>3, <2>1 DEF Depth
<1>4. CASE Depth # 1
  <2>1. Top = calls[Depth] BY DEF Top, Last, Depth
  <2>2. PICK w : w = calls[Depth].v OBVIOUS
  <2>3. calls' = LeaveOut(Front(calls), w) BY <1>2, <1>4, <2>1, <2>2 DEF Return, Depth
  <2>4. PICK p \in Seq(Frame) : p = Front(calls) BY <1>1, FrontFact
  <2>5. Len(p) = Depth - 1 /\ \A i \in 1 .. Depth - 1 : p[i] = calls[i] BY <1>1, <2>4, FrontFact DEF Depth
  <2>6. p # <<>> BY <1>2, <1>4, <2>5
  <2>7. DoneWith(p, w, calls') BY <2>3, <2>4, <2>6, LeaveOutFact
  <2>8. Depth' = Depth - 1 BY <2>5, <2>7 DEF DoneWith, Depth
  <2>. QED  BY <2>2, <2>5, <2>7, <2>8 DEF DoneWith
<1>. QED  BY <1>3, <1>4

(* What a root takes off the stack: what came there with it or after it.   *)
LEMMA PopFact ==
  ASSUME TypeInv, StackInv, NEW v \in On, PopComponent(v)
  PROVE  /\ s' \in Seq(Vertices) /\ scc' = scc + 1
         /\ \A i, j \in 1 .. Len(s') : i < j => indexOf[s'[i]] < indexOf[s'[j]]
         /\ \A x : x \in On' <=> x \in On /\ indexOf[x] < indexOf[v]
         /\ SCC' \in [Vertices -> Int]
         /\ \A x \in Vertices : SCC'[x] = IF x \in On /\ indexOf[v] <= indexOf[x] THEN scc ELSE SCC[x]
<1>. DEFINE k == CHOOSE i \in DOMAIN s : s[i] = v
<1>1. /\ s \in Seq(Vertices) /\ Len(s) \in Nat /\ DOMAIN s = 1 .. Len(s)
      /\ \A x : x \in On <=> \E i \in 1 .. Len(s) : s[i] = x
      /\ \A i \in 1 .. Len(s) : s[i] \in Vertices /\ s[i] \in On
      /\ \A x \in Vertices : indexOf[x] \in Nat
  <2>1. s \in Seq(Vertices) /\ \A x \in Vertices : indexOf[x] \in Nat BY DEF TypeInv
  <2>2. Len(s) \in Nat /\ DOMAIN s = 1 .. Len(s) BY <2>1
  <2>. QED  BY <2>1, <2>2, OnFact
<1>2. k \in 1 .. Len(s) /\ s[k] = v BY <1>1
<1>3. PICK at \in 1 .. Len(s) : at = k /\ s[at] = v BY <1>2
<1>4. /\ SCC' = [w \in Vertices |-> IF \E i \in at .. Len(s) : s[i] = w THEN scc ELSE SCC[w]]
      /\ s' = SubSeq(s, 1, at - 1)
      /\ scc' = scc + 1
  BY <1>3 DEF PopComponent
<1>. HIDE DEF k
<1>5. /\ s' \in Seq(Vertices) /\ Len(s') = at - 1 /\ \A i \in 1 .. at - 1 : s'[i] = s[i]
  BY <1>1, <1>4
<1>6. \A i \in 1 .. Len(s) : i < at <=> indexOf[s[i]] < indexOf[v]
  <2>1. \A i \in 1 .. Len(s) : i < at => indexOf[s[i]] < indexOf[v] BY <1>3 DEF StackInv
  <2>2. \A i \in 1 .. Len(s) : at < i => indexOf[v] < indexOf[s[i]] BY <1>3 DEF StackInv
  <2>3. \A i \in 1 .. Len(s) : indexOf[s[i]] \in Nat /\ indexOf[v] \in Nat BY <1>1, <1>3
  <2>4. \A i \in 1 .. Len(s) : i < at \/ i = at \/ at < i BY <1>1
  <2>. QED  BY <1>3, <2>1, <2>2, <2>3, <2>4
<1>7. \A i, j \in 1 .. Len(s') : i < j => indexOf[s'[i]] < indexOf[s'[j]]
  <2>1. ASSUME NEW i \in 1 .. Len(s'), NEW j \in 1 .. Len(s'), i < j
        PROVE  indexOf[s'[i]] < indexOf[s'[j]]
    <3>1. i \in 1 .. Len(s) /\ j \in 1 .. Len(s) BY <1>1, <1>5
    <3>2. s'[i] = s[i] /\ s'[j] = s[j] BY <1>5
    <3>. QED  BY <2>1, <3>1, <3>2 DEF StackInv
  <2>. QED  BY <2>1
<1>8. \A x : x \in On' <=> \E i \in 1 .. at - 1 : s[i] = x
  <2>1. \A x : x \in On' <=> \E i \in 1 .. Len(s') : s'[i] = x BY <1>5 DEF On, Range
  <2>. QED  BY <1>5, <2>1
<1>9. \A x : x \in On' <=> x \in On /\ indexOf[x] < indexOf[v]
  <2>1. ASSUME NEW x \in On' PROVE x \in On /\ indexOf[x] < indexOf[v]
    <3>1. PICK i \in 1 .. at - 1 : s[i] = x BY <1>8
    <3>2. i \in 1 .. Len(s) /\ i < at BY <1>1
    <3>. QED  BY <1>1, <1>6, <3>1, <3>2
  <2>2. ASSUME NEW x \in On, indexOf[x] < indexOf[v] PROVE x \in On'
    <3>1. PICK i \in 1 .. Len(s) : s[i] = x BY <1>1
    <3>2. i \in 1 .. at - 1 BY <1>1, <1>6, <2>2, <3>1
    <3>. QED  BY <1>8, <3>1, <3>2
  <2>. QED  BY <2>1, <2>2
<1>10. SCC' \in [Vertices -> Int] BY <1>4 DEF TypeInv
<1>11. ASSUME NEW x \in Vertices
       PROVE  (\E i \in at .. Len(s) : s[i] = x) <=> x \in On /\ indexOf[v] <= indexOf[x]
  <2>0. v \in Vertices BY <1>1, <1>3
  <2>1. ASSUME NEW i \in at .. Len(s), s[i] = x PROVE x \in On /\ indexOf[v] <= indexOf[x]
    <3>1. i \in 1 .. Len(s) /\ ~(i < at) BY <1>1
    <3>. QED  BY <1>1, <1>6, <2>0, <2>1, <3>1
  <2>2. ASSUME x \in On, indexOf[v] <= indexOf[x] PROVE \E i \in at .. Len(s) : s[i] = x
    <3>1. PICK i \in 1 .. Len(s) : s[i] = x BY <1>1, <2>2
    <3>2. ~(i < at) BY <1>1, <1>6, <2>0, <2>2, <3>1
    <3>3. i \in at .. Len(s) BY <1>1, <3>2
    <3>. QED  BY <3>1, <3>3
  <2>. QED  BY <2>1, <2>2
<1>. QED  BY <1>4, <1>5, <1>7, <1>9, <1>10, <1>11

(* The end of strongconnect keeps the invariant, whether the vertex is the *)
(* root of a component (IsRoot) or not.                                    *)
LEMMA ReturnStep ==
  ASSUME TypeInv, ~done, SearchInv, Return
  PROVE  TypeInv' /\ ~done' /\ SearchInv'
<1>. USE DEF SearchInv
<1>1. /\ Depth \in 1 .. Depth /\ Depth > 0 /\ Top = calls[Depth]
      /\ \A i \in 1 .. Depth : indexOf[calls[i].v] <= indexOf[calls[Depth].v]
      /\ \A i \in 1 .. Depth : calls[i].v = calls[Depth].v => i = Depth
  BY TopFact DEF Return
<1>2. /\ Depth \in Nat /\ On \subseteq Vertices
      /\ \A i \in 1 .. Depth : calls[i] \in Frame /\ calls[i].v \in Vertices
  BY OnFact
<1>3. PICK v \in Vertices : v = calls[Depth].v BY <1>1, <1>2
<1>4. v \in On /\ calls[Depth].left = {} BY <1>1, <1>3 DEF CallInv, Return
<1>5. /\ calls' \in Seq(Frame) /\ Depth' = Depth - 1
      /\ \A i \in 1 .. Depth - 1 : calls'[i].v = calls[i].v
      /\ \A i \in 1 .. Depth - 1 : calls'[i].left = IF i = Depth - 1 THEN calls[i].left \ {v} ELSE calls[i].left
  BY <1>3, ReturnCalls
<1>6. \A x \in Vertices : indexOf[x] \in Nat /\ lowlink[x] \in Nat /\ succs[x] \subseteq Vertices
  BY DEF TypeInv
<1>7. \A i \in 1 .. Depth - 1 :
        i \in 1 .. Depth /\ calls[i].v \in Vertices /\ calls[i].v \in On /\ indexOf[calls[i].v] < indexOf[v]
  <2>1. \A i \in 1 .. Depth - 1 : i \in 1 .. Depth /\ i < Depth BY <1>2
  <2>. QED  BY <1>1, <1>2, <1>3, <2>1 DEF CallInv
<1>8. UNCHANGED <<succs, index, indexOf, done>> BY DEF Return
<1>9. /\ lowlink' \in [Vertices -> Nat]
      /\ \A x \in Vertices : lowlink'[x] = IF Depth > 1 /\ x = calls[Depth - 1].v
                                           THEN Least(lowlink[x], lowlink[v]) ELSE lowlink[x]
  <2>1. CASE Depth = 1 BY <2>1 DEF Return, Depth, TypeInv
  <2>2. CASE Depth # 1
    <3>1. Depth > 1 BY <1>1, <1>2, <2>2
    <3>2. lowlink' = [lowlink EXCEPT ![calls[Depth - 1].v] = Least(@, lowlink[v])]
      BY <1>1, <1>2, <1>3, <2>2 DEF Return, Depth
    <3>3. Depth - 1 \in 1 .. Depth - 1 BY <1>2, <3>1
    <3>4. PICK c \in Vertices : c = calls[Depth - 1].v BY <1>7, <3>3
    <3>5. lowlink' = [lowlink EXCEPT ![c] = Least(lowlink[c], lowlink[v])] BY <3>2, <3>4
    <3>6. Least(lowlink[c], lowlink[v]) \in Nat BY <1>6 DEF Least
    <3>7. lowlink \in [Vertices -> Nat] BY DEF TypeInv
    <3>8. /\ lowlink' \in [Vertices -> Nat]
          /\ \A x \in Vertices : lowlink'[x] = IF x = c THEN Least(lowlink[x], lowlink[v]) ELSE lowlink[x]
      BY <3>5, <3>6, <3>7
    <3>. QED  BY <3>1, <3>4, <3>8
  <2>. QED  BY <2>1, <2>2
<1>10. \A x \in Vertices : lowlink'[x] <= lowlink[x] /\ lowlink'[x] \in Nat
  BY <1>6, <1>9 DEF Least
<1>. DEFINE IsRoot == lowlink[v] = indexOf[v]
<1>12. ~IsRoot => UNCHANGED <<SCC, s, scc>> BY <1>1, <1>3 DEF Return
<1>13. IsRoot =>
         /\ s' \in Seq(Vertices) /\ scc' = scc + 1
         /\ \A i, j \in 1 .. Len(s') : i < j => indexOf[s'[i]] < indexOf[s'[j]]
         /\ \A x : x \in On' <=> x \in On /\ indexOf[x] < indexOf[v]
         /\ SCC' \in [Vertices -> Int]
         /\ \A x \in Vertices : SCC'[x] = IF x \in On /\ indexOf[v] <= indexOf[x] THEN scc ELSE SCC[x]
  <2>1. IsRoot => PopComponent(v) BY <1>1, <1>3 DEF Return
  <2>. QED  BY <1>4, <2>1, PopFact
<1>14. lowlink[v] <= indexOf[v] BY <1>4 DEF LowInv
<1>15. ~IsRoot => On' = On /\ lowlink[v] < indexOf[v]
  BY <1>6, <1>12, <1>14 DEF On
<1>16. /\ \A x \in On' : x \in On /\ x \in Vertices
       /\ \A x \in On : indexOf[x] < indexOf[v] => x \in On'
  BY <1>2, <1>13, <1>15
<1>17. TypeInv'
  <2>1. CASE IsRoot
    <3>1. scc' \in Nat BY <1>13, <2>1 DEF TypeInv
    <3>. QED  BY <1>5, <1>8, <1>9, <1>13, <2>1, <3>1 DEF TypeInv
  <2>2. CASE ~IsRoot
    BY <1>5, <1>8, <1>9, <1>12, <2>2 DEF TypeInv
  <2>. QED  BY <2>1, <2>2
<1>18. IndexInv' BY <1>8 DEF IndexInv
<1>19. StackInv'
  <2>1. CASE ~IsRoot BY <1>8, <1>12, <1>15, <2>1 DEF StackInv
  <2>2. CASE IsRoot
    <3>1. \A i, j \in 1 .. Len(s') : i < j => indexOf'[s'[i]] < indexOf'[s'[j]] BY <1>8, <1>13, <2>2
    <3>2. scc # -1 BY DEF TypeInv
    <3>3. \A x \in Vertices : x \in On <=> indexOf[x] # 0 /\ SCC[x] = -1 BY DEF StackInv
    <3>4. \A x \in Vertices : indexOf[x] < indexOf[v] <=> ~(indexOf[v] <= indexOf[x]) BY <1>6
    <3>5. \A x \in Vertices : x \in On' <=> indexOf'[x] # 0 /\ SCC'[x] = -1
      BY <1>8, <1>13, <2>2, <3>2, <3>3, <3>4
    <3>6. \A x \in Vertices : indexOf'[x] = 0 => SCC'[x] = -1
      BY <1>8, <1>13, <2>2, <3>3 DEF StackInv
    <3>. QED  BY <3>1, <3>5, <3>6 DEF StackInv
  <2>. QED  BY <2>1, <2>2
<1>20. CallInv'
  <2>1. ASSUME NEW i \in 1 .. Depth', NEW j \in 1 .. Depth', i < j
        PROVE  indexOf'[calls'[i].v] < indexOf'[calls'[j].v]
    <3>1. i \in 1 .. Depth - 1 /\ j \in 1 .. Depth - 1 BY <1>5
    <3>2. indexOf[calls[i].v] < indexOf[calls[j].v] BY <1>7, <2>1, <3>1 DEF CallInv
    <3>. QED  BY <1>5, <1>8, <3>1, <3>2
  <2>2. ASSUME NEW i \in 1 .. Depth'
        PROVE  calls'[i].v \in On' /\ calls'[i].left \subseteq succs'[calls'[i].v]
    <3>1. i \in 1 .. Depth - 1 /\ i \in 1 .. Depth BY <1>5, <1>7
    <3>2. calls[i].v \in On' BY <1>7, <1>16, <3>1
    <3>3. calls'[i].left \subseteq calls[i].left BY <1>5, <3>1
    <3>4. calls[i].left \subseteq succs[calls[i].v] BY <3>1 DEF CallInv
    <3>. QED  BY <1>5, <1>8, <3>1, <3>2, <3>3, <3>4
  <2>. QED  BY <2>1, <2>2 DEF CallInv
<1>21. ASSUME NEW x \in Vertices, NEW y \in Passed(x)'
       PROVE  y \in Passed(x) \/ (y = v /\ Depth > 1 /\ x = calls[Depth - 1].v)
  <2>1. y \in succs[x] BY <1>8 DEF Passed
  <2>2. \A i \in 1 .. Depth - 1 : calls[i].v = x => y \notin calls'[i].left
    BY <1>5 DEF Passed
  <2>3. \A i \in 1 .. Depth : i \in 1 .. Depth - 1 \/ i = Depth BY <1>2
  <2>4. CASE y # v
    <3>1. \A i \in 1 .. Depth : calls[i].v = x => y \notin calls[i].left BY <1>4, <1>5, <2>2, <2>3, <2>4
    <3>. QED  BY <2>1, <3>1 DEF Passed
  <2>5. CASE ~(Depth > 1 /\ x = calls[Depth - 1].v)
    <3>1. \A i \in 1 .. Depth - 1 : i = Depth - 1 => Depth > 1 BY <1>2
    <3>2. \A i \in 1 .. Depth : calls[i].v = x => y \notin calls[i].left
      BY <1>4, <1>5, <2>2, <2>3, <2>5, <3>1
    <3>. QED  BY <2>1, <3>2 DEF Passed
  <2>. QED  BY <2>4, <2>5
<1>22. EdgeInv'
  <2>1. indexOf[v] # 0 BY <1>4 DEF StackInv
  <2>. QED  BY <1>8, <1>21, <2>1 DEF EdgeInv
<1>23. ReachInv'
  <2>1. ASSUME NEW i \in 1 .. Depth', NEW x \in On', indexOf'[calls'[i].v] <= indexOf'[x]
        PROVE  Reaches(succs', calls'[i].v, x)
    <3>1. i \in 1 .. Depth - 1 /\ i \in 1 .. Depth /\ x \in On BY <1>5, <1>7, <1>16
    <3>2. indexOf[calls[i].v] <= indexOf[x] BY <1>5, <1>8, <2>1, <3>1
    <3>3. Reaches(succs, calls[i].v, x) BY <3>1, <3>2 DEF ReachInv
    <3>. QED  BY <1>5, <1>8, <3>1, <3>3
  <2>2. ASSUME NEW x \in On'
        PROVE  \E i \in 1 .. Depth - 1 : indexOf[calls[i].v] <= indexOf[x] /\ Reaches(succs, x, calls[i].v)
    <3>1. x \in On /\ x \in Vertices BY <1>16
    <3>2. PICK i \in 1 .. Depth : indexOf[calls[i].v] <= indexOf[x] /\ Reaches(succs, x, calls[i].v)
      BY <3>1 DEF ReachInv
    <3>3. CASE i # Depth
      <4>1. i \in 1 .. Depth - 1 BY <1>2, <3>3
      <4>. QED  BY <3>2, <4>1
    <3>4. CASE i = Depth
      <4>1. indexOf[v] <= indexOf[x] /\ Reaches(succs, x, v) BY <1>3, <3>2, <3>4
      <4>2. ~IsRoot BY <1>6, <1>13, <3>1, <4>1
      <4>3. PICK u \in On : indexOf[u] = lowlink[v] /\ Reaches(succs, v, u) BY <1>4 DEF LowInv
      <4>4. PICK k \in 1 .. Depth : indexOf[calls[k].v] <= indexOf[u] /\ Reaches(succs, u, calls[k].v)
        BY DEF ReachInv
      <4>5. lowlink[v] < indexOf[v] BY <1>15, <4>2
      <4>6. calls[k].v \in Vertices /\ u \in Vertices BY <1>2
      <4>7. indexOf[calls[k].v] < indexOf[v] /\ indexOf[calls[k].v] <= indexOf[x]
        BY <1>6, <3>1, <4>1, <4>3, <4>4, <4>5, <4>6
      <4>8. k # Depth BY <1>3, <1>6, <4>7
      <4>9. k \in 1 .. Depth - 1 BY <1>2, <4>8
      <4>10. Reaches(succs, x, u) BY <4>1, <4>3, ReachTrans
      <4>11. Reaches(succs, x, calls[k].v) BY <4>4, <4>10, ReachTrans
      <4>. QED  BY <4>7, <4>9, <4>11
    <3>. QED  BY <3>3, <3>4
  <2>3. ASSUME NEW x \in On'
        PROVE  \E i \in 1 .. Depth' : indexOf'[calls'[i].v] <= indexOf'[x] /\ Reaches(succs', x, calls'[i].v)
    <3>1. PICK i \in 1 .. Depth - 1 : indexOf[calls[i].v] <= indexOf[x] /\ Reaches(succs, x, calls[i].v)
      BY <2>2
    <3>. QED  BY <1>5, <1>8, <3>1
  <2>. QED  BY <2>1, <2>3 DEF ReachInv
<1>24. LowInv'
  <2>1. ASSUME NEW x \in On'
        PROVE  lowlink'[x] <= indexOf[x] /\ \E u \in On' : indexOf[u] = lowlink'[x] /\ Reaches(succs, x, u)
    <3>1. x \in On /\ x \in Vertices /\ lowlink[x] <= indexOf[x] BY <1>16 DEF LowInv
    <3>2. lowlink'[x] <= indexOf[x] BY <1>6, <1>10, <3>1
    <3>3. CASE lowlink'[x] = lowlink[x]
      <4>1. PICK u \in On : indexOf[u] = lowlink[x] /\ Reaches(succs, x, u) BY <3>1 DEF LowInv
      <4>2. CASE ~IsRoot BY <1>15, <3>2, <3>3, <4>1, <4>2
      <4>3. CASE IsRoot
        <5>1. u \in Vertices /\ indexOf[x] < indexOf[v] BY <1>2, <1>13, <4>3
        <5>2. indexOf[u] < indexOf[v] BY <1>6, <3>1, <4>1, <5>1
        <5>3. u \in On' BY <1>16, <5>2
        <5>. QED  BY <3>2, <3>3, <4>1, <5>3
      <4>. QED  BY <4>2, <4>3
    <3>4. CASE lowlink'[x] # lowlink[x]
      <4>1. Depth > 1 /\ x = calls[Depth - 1].v /\ lowlink'[x] = lowlink[v] /\ lowlink[v] < lowlink[x]
        <5>1. Depth > 1 /\ x = calls[Depth - 1].v BY <1>9, <3>1, <3>4
        <5>2. lowlink'[x] = Least(lowlink[x], lowlink[v]) BY <1>9, <3>1, <5>1
        <5>. QED  BY <1>6, <3>1, <3>4, <5>1, <5>2 DEF Least
      <4>2. Depth - 1 \in 1 .. Depth - 1 BY <1>2, <4>1
      <4>3. indexOf[x] < indexOf[v] BY <1>7, <4>1, <4>2
      <4>4. ~IsRoot BY <1>6, <3>1, <4>1, <4>3
      <4>5. PICK u \in On : indexOf[u] = lowlink[v] /\ Reaches(succs, v, u) BY <1>4 DEF LowInv
      <4>6. indexOf[x] <= indexOf[v] /\ Depth - 1 \in 1 .. Depth BY <1>6, <1>7, <3>1, <4>2, <4>3
      <4>7. Reaches(succs, x, v) BY <1>4, <4>1, <4>6 DEF ReachInv
      <4>8. Reaches(succs, x, u) BY <4>5, <4>7, ReachTrans
      <4>. QED  BY <1>15, <3>2, <4>1, <4>4, <4>5, <4>8
    <3>. QED  BY <3>3, <3>4
  <2>2. \A x \in On' : /\ lowlink'[x] <= indexOf'[x]
                       /\ \E u \in On' : indexOf'[u] = lowlink'[x] /\ Reaches(succs', x, u)
    BY <1>8, <2>1
  <2>3. ASSUME NEW x \in On', NEW y \in Passed(x)' \cap On', NEW i \in 1 .. Depth',
               indexOf'[y] < indexOf'[calls'[i].v], indexOf'[calls'[i].v] <= indexOf'[x]
        PROVE  \E j \in i .. Depth' : lowlink'[calls'[j].v] <= indexOf'[y]
    <3>1. i \in 1 .. Depth - 1 /\ i \in 1 .. Depth /\ calls[i].v \in Vertices /\ indexOf[calls[i].v] < indexOf[v]
      BY <1>5, <1>7
    <3>2. indexOf[y] < indexOf[calls[i].v] /\ indexOf[calls[i].v] <= indexOf[x] BY <1>5, <1>8, <2>3, <3>1
    <3>3. x \in On /\ x \in Vertices /\ y \in On /\ y \in Vertices BY <1>16
    <3>4. y # v BY <1>6, <3>1, <3>2
    <3>5. y \in Passed(x) BY <1>21, <3>3, <3>4
    <3>6. PICK j \in i .. Depth : lowlink[calls[j].v] <= indexOf[y]
      BY <3>1, <3>2, <3>3, <3>5 DEF LowInv
    <3>7. \E k \in i .. Depth - 1 : lowlink'[calls[k].v] <= indexOf[y]
      <4>1. CASE j # Depth
        <5>1. j \in i .. Depth - 1 /\ j \in 1 .. Depth - 1 BY <1>2, <3>1, <4>1
        <5>2. calls[j].v \in Vertices BY <1>7, <5>1
        <5>. QED  BY <1>6, <1>10, <3>3, <3>6, <5>1, <5>2
      <4>2. CASE j = Depth
        <5>1. lowlink[v] <= indexOf[y] BY <1>3, <3>6, <4>2
        <5>2. Depth > 1 /\ Depth - 1 \in i .. Depth - 1 /\ Depth - 1 \in 1 .. Depth - 1 BY <1>2, <3>1
        <5>3. PICK c \in Vertices : c = calls[Depth - 1].v BY <1>7, <5>2
        <5>4. lowlink'[c] = Least(lowlink[c], lowlink[v]) BY <1>9, <5>2, <5>3
        <5>5. lowlink'[c] <= indexOf[y] BY <1>6, <3>3, <5>1, <5>4 DEF Least
        <5>. QED  BY <5>2, <5>3, <5>5
      <4>. QED  BY <4>1, <4>2
    <3>8. PICK k \in i .. Depth - 1 : lowlink'[calls[k].v] <= indexOf[y] BY <3>7
    <3>9. k \in 1 .. Depth - 1 BY <1>2, <3>1
    <3>. QED  BY <1>5, <1>8, <3>8, <3>9
  <2>. QED  BY <2>2, <2>3 DEF LowInv
<1>25. ComponentInv'
  <2>1. CASE ~IsRoot BY <1>8, <1>12, <2>1 DEF ComponentInv, Finished
  <2>2. CASE IsRoot
    <3>. DEFINE P == {x \in On : indexOf[v] <= indexOf[x]}
    <3>1. scc \in Nat /\ scc' = scc + 1 /\ succs \in [Vertices -> SUBSET Vertices] BY <1>13, <2>2 DEF TypeInv
    <3>2. \A x \in P : x \in Vertices /\ x \in On /\ indexOf[v] <= indexOf[x] /\ x \notin Finished
      BY <1>2 DEF StackInv, Finished
    <3>3. /\ \A x \in P : SCC'[x] = scc
          /\ \A x \in Vertices \ P : SCC'[x] = SCC[x]
      BY <1>13, <2>2, <3>2
    <3>4. Finished' = Finished \cup P
      BY <3>1, <3>2, <3>3 DEF Finished
    <3>5. \A x \in Finished : x \in Vertices \ P /\ SCC'[x] = SCC[x] /\ SCC[x] \in 0 .. scc - 1
      BY <3>2, <3>3 DEF Finished, ComponentInv
    <3>6. v \in P BY <1>4, <1>6
    <3>7. ASSUME NEW x \in P, NEW w \in succs[x] PROVE w \in Finished \/ w \in P
      <4>1. x \in Vertices /\ w \in Vertices /\ x \in On BY <1>6, <3>2
      <4>2. w \in Passed(x)
        <5>1. ASSUME NEW i \in 1 .. Depth, calls[i].v = x PROVE w \notin calls[i].left
          <6>1. i \notin 1 .. Depth - 1 BY <1>6, <1>7, <3>2, <4>1, <5>1
          <6>2. i = Depth BY <1>2, <6>1
          <6>. QED  BY <1>4, <6>2
        <5>. QED  BY <5>1 DEF Passed
      <4>3. indexOf[x] # 0 /\ indexOf[w] # 0 BY <4>1, <4>2 DEF EdgeInv, StackInv
      <4>4. CASE w \notin On BY <4>1, <4>3, <4>4 DEF StackInv, Finished
      <4>5. CASE w \in On /\ ~(indexOf[v] <= indexOf[w])
        <5>1. indexOf[w] < indexOf[calls[Depth].v] BY <1>3, <1>6, <4>1, <4>5
        <5>2. PICK j \in Depth .. Depth : lowlink[calls[j].v] <= indexOf[w]
          BY <1>1, <1>3, <3>2, <4>1, <4>2, <4>5, <5>1 DEF LowInv
        <5>3. j = Depth BY <1>2
        <5>4. lowlink[v] <= indexOf[w] BY <1>3, <5>2, <5>3
        <5>. QED  BY <1>3, <1>6, <2>2, <4>1, <5>1, <5>4
      <4>. QED  BY <4>4, <4>5
    <3>8. ASSUME NEW x \in P, NEW y \in P PROVE Reaches(succs, x, y)
      <4>1. PICK i \in 1 .. Depth : indexOf[calls[i].v] <= indexOf[x] /\ Reaches(succs, x, calls[i].v)
        BY <3>2 DEF ReachInv
      <4>2. indexOf[calls[i].v] <= indexOf[v] BY <1>1, <1>3
      <4>3. Reaches(succs, calls[i].v, v) BY <1>4, <4>2 DEF ReachInv
      <4>4. Reaches(succs, v, y) BY <1>1, <1>3, <3>2 DEF ReachInv
      <4>5. Reaches(succs, x, v) BY <4>1, <4>3, ReachTrans
      <4>. QED  BY <4>4, <4>5, ReachTrans
    <3>9. ASSUME NEW x \in Finished, NEW y \in P PROVE ~Reaches(succs, x, y)
      <4>1. Finished \in SUBSET Vertices BY DEF Finished
      <4>2. Closed(succs, Finished) BY DEF Closed, ComponentInv
      <4>. QED  BY <3>2, <4>1, <4>2, ReachClosed
    <3>. HIDE DEF P
    <3>10. \A x \in Finished' : SCC'[x] \in 0 .. scc' - 1 BY <3>1, <3>3, <3>4, <3>5
    <3>11. ASSUME NEW x \in Finished', NEW w \in succs[x] PROVE w \in Finished' /\ SCC'[w] <= SCC'[x]
      <4>1. CASE x \in Finished
        <5>1. w \in Finished /\ SCC[w] <= SCC[x] BY <4>1 DEF ComponentInv
        <5>. QED  BY <3>4, <3>5, <4>1, <5>1
      <4>2. CASE x \in P
        <5>1. CASE w \in Finished BY <3>1, <3>3, <3>4, <3>5, <4>2, <5>1
        <5>2. CASE w \in P BY <3>1, <3>3, <3>4, <4>2, <5>2
        <5>. QED  BY <3>7, <4>2, <5>1, <5>2
      <4>. QED  BY <3>4, <4>1, <4>2
    <3>12. ASSUME NEW x \in Finished', NEW y \in Finished'
           PROVE  SCC'[x] = SCC'[y] <=> Reaches(succs, x, y) /\ Reaches(succs, y, x)
      <4>1. CASE x \in Finished /\ y \in Finished BY <3>5, <4>1 DEF ComponentInv
      <4>2. CASE x \in Finished /\ y \in P BY <3>1, <3>3, <3>5, <3>9, <4>2
      <4>3. CASE x \in P /\ y \in Finished BY <3>1, <3>3, <3>5, <3>9, <4>3
      <4>4. CASE x \in P /\ y \in P BY <3>3, <3>8, <4>4
      <4>. QED  BY <3>4, <4>1, <4>2, <4>3, <4>4
    <3>13. ASSUME NEW k \in 0 .. scc' - 1 PROVE \E x \in Finished' : SCC'[x] = k
      <4>1. CASE k = scc BY <3>3, <3>4, <3>6, <4>1
      <4>2. CASE k # scc
        <5>1. k \in 0 .. scc - 1 BY <3>1, <4>2
        <5>2. PICK x \in Finished : SCC[x] = k BY <5>1 DEF ComponentInv
        <5>. QED  BY <3>4, <3>5, <5>2
      <4>. QED  BY <4>1, <4>2
    <3>. QED  BY <1>8, <3>10, <3>11, <3>12, <3>13 DEF ComponentInv
  <2>. QED  BY <2>1, <2>2
<1>. QED  BY <1>8, <1>17, <1>18, <1>19, <1>20, <1>22, <1>23, <1>24, <1>25

-----------------------------------------------------------------------------
(* The end of FindSCCs.                                                    *)
LEMMA NumberStep ==
  ASSUME TypeInv, SearchInv, Number
  PROVE  TypeInv' /\ done' /\ DoneInv'
<1>. USE DEF SearchInv
<1>1. /\ calls = <<>> /\ (\A v \in Vertices : indexOf[v] # 0) /\ done' = TRUE
      /\ UNCHANGED <<succs, index, indexOf, lowlink, s, scc, calls>>
      /\ SCC' = [v \in Vertices |-> scc - SCC[v] - 1]
  BY DEF Number
<1>2. scc \in Nat /\ SCC \in [Vertices -> Int] /\ succs \in [Vertices -> SUBSET Vertices] BY DEF TypeInv
<1>3. TypeInv' BY <1>1, <1>2 DEF TypeInv
<1>4. Depth = 0 BY <1>1 DEF Depth
<1>5. On = {} BY <1>4 DEF ReachInv
<1>6. Finished = Vertices BY <1>1, <1>5 DEF StackInv, Finished
<1>7. \A v \in Vertices : SCC[v] \in 0 .. scc - 1 /\ SCC'[v] = scc - SCC[v] - 1
  BY <1>1, <1>6 DEF ComponentInv
<1>8. \A v, w \in Vertices : SCC'[v] = SCC'[w] <=> Reaches(succs, v, w) /\ Reaches(succs, w, v)
  <2>1. \A v, w \in Vertices : SCC'[v] = SCC'[w] <=> SCC[v] = SCC[w] BY <1>2, <1>7
  <2>. QED  BY <1>6, <2>1 DEF ComponentInv
<1>9. \A v \in Vertices : \A w \in succs[v] : SCC'[v] <= SCC'[w]
  <2>1. \A v \in Vertices : \A w \in succs[v] : w \in Vertices /\ SCC[w] <= SCC[v]
    BY <1>6 DEF ComponentInv
  <2>. QED  BY <1>2, <1>7, <2>1
<1>10. {SCC'[v] : v \in Vertices} = 0 .. (scc - 1)
  <2>1. \A v \in Vertices : SCC'[v] \in 0 .. (scc - 1) BY <1>2, <1>7
  <2>2. ASSUME NEW k \in 0 .. (scc - 1) PROVE \E v \in Vertices : SCC'[v] = k
    <3>1. scc - k - 1 \in 0 .. scc - 1 BY <1>2
    <3>2. PICK v \in Vertices : SCC[v] = scc - k - 1 BY <1>6, <3>1 DEF ComponentInv
    <3>3. SCC'[v] = k BY <1>2, <1>7, <3>2
    <3>. QED  BY <3>3
  <2>. QED  BY <2>1, <2>2
<1>11. ComponentsAreOrdered' BY <1>1, <1>8, <1>9, <1>10 DEF ComponentsAreOrdered
<1>. QED  BY <1>1, <1>3, <1>11 DEF DoneInv

(* At every point of the search the stack, the calls and the lowlinks are  *)
(* as Tarjan's argument needs them; after it the components are in order.  *)
THEOREM SccInvHolds == Spec => []SccInv
<1>1. Init => SccInv
  <2>. SUFFICES ASSUME Init PROVE SccInv
    OBVIOUS
  <2>1. TypeInv
    <3>1. succs \in [Vertices -> SUBSET Vertices] BY GraphsAssumption DEF Init
    <3>2. s = <<>> /\ calls = <<>> BY DEF Init
    <3>3. s \in Seq(Vertices) /\ calls \in Seq(Frame) BY <3>2
    <3>4. indexOf \in [Vertices -> Nat] /\ lowlink \in [Vertices -> Nat] /\ SCC \in [Vertices -> Int]
      BY DEF Init
    <3>. QED  BY <3>1, <3>3, <3>4 DEF Init, TypeInv
  <2>2. On = {} /\ Depth = 0 BY DEF Init, On, Range, Depth
  <2>3. Finished = {} BY DEF Init, Finished
  <2>4. IndexInv BY DEF Init, IndexInv
  <2>5. StackInv
    <3>1. Len(s) = 0 /\ \A v \in Vertices : indexOf[v] = 0 /\ SCC[v] = -1 BY DEF Init
    <3>. QED  BY <2>2, <3>1 DEF StackInv
  <2>6. EdgeInv BY DEF Init, EdgeInv
  <2>7. CallInv /\ ReachInv /\ LowInv BY <2>2 DEF CallInv, ReachInv, LowInv
  <2>8. scc = 0 /\ done = FALSE BY DEF Init
  <2>9. ComponentInv BY <2>3, <2>8 DEF ComponentInv
  <2>. QED  BY <2>1, <2>4, <2>5, <2>6, <2>7, <2>8, <2>9 DEF SccInv, SearchInv
<1>2. SccInv /\ [Next]_vars => SccInv'
  <2>. SUFFICES ASSUME SccInv, [Next]_vars PROVE SccInv'
    OBVIOUS
  <2>1. TypeInv /\ (~done => SearchInv) /\ (done => DoneInv) BY DEF SccInv
  <2>2. CASE UNCHANGED vars
    <3>1. /\ succs' = succs /\ index' = index /\ indexOf' = indexOf /\ lowlink' = lowlink /\ s' = s
          /\ scc' = scc /\ SCC' = SCC /\ calls' = calls /\ done' = done
      BY <2>2 DEF vars
    <3>2. On' = On /\ Depth' = Depth /\ Finished' = Finished /\ \A v : Passed(v)' = Passed(v)
      BY <3>1 DEF On, Depth, Finished, Passed
    <3>3. TypeInv' BY <2>1, <3>1 DEF TypeInv
    <3>4. IndexInv' = IndexInv /\ StackInv' = StackInv BY <3>1, <3>2 DEF IndexInv, StackInv
    <3>5. CallInv' = CallInv /\ EdgeInv' = EdgeInv BY <3>1, <3>2 DEF CallInv, EdgeInv
    <3>6. ReachInv' = ReachInv BY <3>1, <3>2 DEF ReachInv
    <3>7. LowInv => LowInv' BY <3>1, <3>2 DEF LowInv
    <3>8. ComponentInv' = ComponentInv BY <3>1, <3>2 DEF ComponentInv
    <3>9. DoneInv' = DoneInv BY <3>1 DEF DoneInv, ComponentsAreOrdered
    <3>. QED  BY <2>1, <3>1, <3>3, <3>4, <3>5, <3>6, <3>7, <3>8, <3>9 DEF SccInv, SearchInv
  <2>3. CASE done
    BY <2>1, <2>2, <2>3 DEF DoneInv, Next, Root, Descend, Look, Return, Number
  <2>4. ASSUME ~done, NEW v \in Vertices, Root(v) PROVE SccInv'
    BY <2>1, <2>4, VisitStep DEF Root, SccInv
  <2>5. ASSUME ~done, NEW v \in Vertices, Descend(v) PROVE SccInv'
    <3>1. TypeInv /\ SearchInv BY <2>1, <2>5
    <3>2. calls # <<>> /\ v \in Top.left /\ indexOf[v] = 0 /\ Visit(v, calls) BY <2>5 DEF Descend
    <3>3. Top = calls[Depth] /\ Depth \in 1 .. Depth BY <3>1, <3>2, TopFact DEF SearchInv
    <3>4. v \in succs[Top.v] BY <3>1, <3>2, <3>3 DEF SearchInv, CallInv
    <3>. QED  BY <2>5, <3>1, <3>2, <3>4, VisitStep DEF SccInv
  <2>6. ASSUME ~done, NEW v \in Vertices, Look(v) PROVE SccInv'
    BY <2>1, <2>6, LookStep DEF SccInv
  <2>7. ASSUME ~done, Return PROVE SccInv'
    BY <2>1, <2>7, ReturnStep DEF SccInv
  <2>8. ASSUME ~done, Number PROVE SccInv'
    BY <2>1, <2>8, NumberStep DEF SccInv
  <2>. QED  BY <2>2, <2>3, <2>4, <2>5, <2>6, <2>7, <2>8 DEF Next
<1>. QED  BY <1>1, <1>2, PTL DEF Spec

(* FindSCCs, for every graph and every order in which it meets vertices    *)
(* and edges, gives two vertices the same number exactly if they reach one *)
(* another, numbers no edge backwards and leaves no number out.            *)
THEOREM ComponentsAreOrderedHolds == Spec => []ComponentsAreOrdered
<1>1. SccInv => ComponentsAreOrdered BY DEF SccInv, DoneInv, ComponentsAreOrdered
<1>. QED  BY <1>1, SccInvHolds, PTL
=============================================================================
