------------------------------ MODULE BlockOpt ------------------------------
(***************************************************************************)
(* ssa.OptimizeBlocks on the control-flow graph of one function: dead      *)
(* block elimination, block fusion and jump threading, with the helpers of *)
(* ssa/func.go that keep the lists of predecessors, successors and         *)
(* phi-edges in step.  finishBody runs it on a function the builder has    *)
(* just emitted, and then builds the dominator tree; staticcheck runs it   *)
(* again after applyStdlibKnowledge has cut edges, and keeps the tree.     *)
(*                                                                         *)
(* Of the instructions of a block only these matter: the body of each      *)
(* original block that it holds, its terminator (and the original block    *)
(* the terminator comes from), and one phi that stands for all.  An edge   *)
(* of a phi is the original block whose value it carries.  Indices start   *)
(* at 1.                                                                   *)
(***************************************************************************)
EXTENDS Naturals, Sequences, FiniteSets, SequencesExt

CONSTANTS
  N,         \* how many blocks the builder makes
  Nil,       \* a deleted element of f.Blocks
  Functions, \* what the builder emits: a plan and the blocks with a phi
  MaxCuts    \* bound: how many branches applyStdlibKnowledge removes

Block == 1 .. N
Entry == 1

VARIABLES
  f,         \* the function
  recover,   \* f.Recover, or Nil
  phis,      \* the blocks that begin with a phi
  cuts,      \* how many branches have been removed
  phase,     \* "built", "sweep" or "done"
  next,      \* the index that the loop over f.Blocks comes to
  changed,   \* the flag of optimizeBlocks
  dom,       \* the dominator tree: the pairs of a block and one it dominates
  orig       \* history: the function that optimizeBlocks was given

vars == <<f, recover, phis, cuts, phase, next, changed, dom, orig>>

Terminator == [kind : {"Return", "Jump", "If"}, of : Block]

-----------------------------------------------------------------------------
(* What the builder emits.  A plan for a block is its terminator, its      *)
(* distinct targets, and whether anything comes before the terminator.     *)
(* Nothing jumps to the entry block.                                       *)
Plans ==
  {[kind |-> "Return", to |-> <<>>, body |-> FALSE]}
  \cup {[kind |-> "Jump", to |-> <<b>>, body |-> x] : b \in Block \ {Entry}, x \in BOOLEAN}
  \cup {[kind |-> "If", to |-> <<b, c>>, body |-> FALSE] :
           <<b, c>> \in {p \in (Block \ {Entry}) \X (Block \ {Entry}) : p[1] # p[2]}}

(* addEdge for each target, block after block.                             *)
PredsOf(plan, b) == SelectSeq([i \in Block |-> i], LAMBDA a : b \in ToSet(plan[a].to))

Emitted(plan, P) ==
  [blocks |-> [i \in Block |-> i],
   index  |-> [b \in Block |-> b],
   succs  |-> [b \in Block |-> plan[b].to],
   preds  |-> [b \in Block |-> PredsOf(plan, b)],
   phi    |-> [b \in Block |-> IF b \in P THEN PredsOf(plan, b) ELSE <<>>],
   body   |-> [b \in Block |-> IF plan[b].body THEN <<b>> ELSE <<>>],
   term   |-> [b \in Block |-> [kind |-> plan[b].kind, of |-> b]]]

ASSUME ConstantsAssumption ==
  /\ N \in Nat \ {0} /\ Nil \notin Block /\ MaxCuts \in Nat
  /\ \A fn \in Functions :
       /\ fn.plan \in [Block -> Plans] /\ fn.phis \subseteq Block \ {Entry}
       /\ \A b \in fn.phis : PredsOf(fn.plan, b) # <<>>

Init ==
  \E fn \in Functions :
     /\ f = Emitted(fn.plan, fn.phis)
     /\ recover \in {Nil} \cup {b \in Block \ {Entry} : fn.plan[b].kind = "Return" /\ PredsOf(fn.plan, b) = <<>>}
     /\ phis = fn.phis
     /\ cuts = 0
     /\ phase = "built" /\ next = 1 /\ changed = FALSE
     /\ dom = {}
     /\ orig = f

-----------------------------------------------------------------------------
Present(g) == ToSet(g.blocks) \ {Nil}

(* replacePred and replaceSucc                                             *)
Replace(s, p, q) == [i \in DOMAIN s |-> IF s[i] = p THEN q ELSE s[i]]

(* The elements of s at the places where t has not p.                      *)
Strike(s, t, p) ==
  LET places == SelectSeq([i \in 1 .. Len(t) |-> i], LAMBDA i : t[i] # p)
  IN  [k \in 1 .. Len(places) |-> s[places[k]]]

(* Bug: removePred forgets the phis.                                       *)
RemovePredOnly(g, b, p) == [g EXCEPT !.preds[b] = Strike(@, @, p)]

RemovePred(g, b, p) ==
  [g EXCEPT !.preds[b] = Strike(@, @, p),
            !.phi[b] = IF b \in phis THEN Strike(@, g.preds[b], p) ELSE @]

HasPhi(b) == b \in phis

(* What S leads to inside the blocks W.                                    *)
LeadsTo(g, S, W) ==
  LET closed(T) == \A b \in T : ToSet(g.succs[b]) \cap W \subseteq T
  IN  {b \in W : \A T \in SUBSET W : S \cap W \subseteq T /\ closed(T) => b \in T}

(* markReachable, from the entry and from f.Recover                        *)
Roots(g) == {g.blocks[1]} \cup ({recover} \ {Nil})
Reachable(g) == LeadsTo(g, Roots(g), Block)

(* What buildDomTree finds: every way to c passes b.                       *)
DomTree(g) ==
  {p \in Present(g) \X Present(g) :
     p[1] = p[2] \/ p[2] \notin LeadsTo(g, Roots(g) \ {p[1]}, Block \ {p[1]})}

(* Bug: the tree goes by the places in f.Blocks.                           *)
DominatesByIndex(b, c) == <<f.index[b], f.index[c]>> \in dom

(* BasicBlock.Dominates                                                    *)
Dominates(b, c) == <<b, c>> \in dom

RemoveNilBlocks(g) ==
  LET bs == SelectSeq(g.blocks, LAMBDA b : b # Nil)
  IN  [g EXCEPT !.blocks = bs,
                !.index = [b \in Block |-> IF b \in ToSet(bs)
                                           THEN CHOOSE i \in 1 .. Len(bs) : bs[i] = b
                                           ELSE g.index[b]]]

(* One block that is not reachable: its edges to reachable ones go.        *)
DeleteWhite(g, b, black) ==
  LET out == SelectSeq(g.succs[b], LAMBDA c : c \in black)
      h == FoldLeft(LAMBDA acc, c : RemovePred(acc, c, b), g, out)
  IN  [h EXCEPT !.blocks = Replace(@, b, Nil)]

DeleteUnreachableBlocks(g) ==
  LET black == Reachable(g)
      white == SelectSeq(g.blocks, LAMBDA b : b \notin black)
  IN  RemoveNilBlocks(FoldLeft(LAMBDA acc, b : DeleteWhite(acc, b, black), g, white))

(* Bug: the last instruction is looked at, not the first.                  *)
CanThreadLast(g, b) ==
  /\ g.index[b] # 1
  /\ ~HasPhi(b) /\ g.term[b].kind = "Jump"
  /\ g.succs[b][1] # b
  /\ ~HasPhi(g.succs[b][1])

(* b is not the entry, is just a jump, not to itself, nor to a phi.        *)
CanThread(g, b) ==
  /\ g.index[b] # 1
  /\ ~HasPhi(b) /\ g.body[b] = <<>> /\ g.term[b].kind = "Jump"
  /\ g.succs[b][1] # b
  /\ ~HasPhi(g.succs[b][1])

(* The j-th predecessor a of b is made to jump to c.                       *)
ThreadPred(g, j, b, c) ==
  LET a == g.preds[b][j]
      h == [g EXCEPT !.succs[a] = Replace(@, b, c)]
  IN  IF h.succs[a] = <<c, c>>
      THEN RemovePred([h EXCEPT !.term[a].kind = "Jump", !.succs[a] = <<c>>], c, b)
      ELSE IF j = 1 THEN [h EXCEPT !.preds[c] = Replace(@, b, a)]
                    ELSE [h EXCEPT !.preds[c] = Append(@, a)]

JumpThreading(g, b) ==
  LET c == g.succs[b][1]
      h == FoldLeft(LAMBDA acc, j : ThreadPred(acc, j, b, c), g, [j \in 1 .. Len(g.preds[b]) |-> j])
  IN  [h EXCEPT !.blocks[g.index[b]] = Nil]

(* b is the only successor of a, a its only predecessor, and b has no phi. *)
CanFuse(g, a) ==
  /\ Len(g.succs[a]) = 1
  /\ Len(g.preds[g.succs[a][1]]) = 1
  /\ ~HasPhi(g.succs[a][1])

FuseBlocks(g, a) ==
  LET b == g.succs[a][1]
      h == [g EXCEPT !.body[a] = @ \o g.body[b],
                     !.term[a] = g.term[b],
                     !.succs[a] = g.succs[b],
                     !.blocks[g.index[b]] = Nil]
  IN  [h EXCEPT !.preds = [c \in Block |-> IF c \in ToSet(g.succs[b]) THEN Replace(@[c], b, a) ELSE @[c]]]

-----------------------------------------------------------------------------
(* applyStdlibKnowledge: the If of a receive that is always ok becomes a   *)
(* Jump to its first successor.  The function has been finished before.    *)
ApplyStdlibKnowledge(b) ==
  /\ phase = "done" \/ (phase = "built" /\ cuts > 0)
  /\ cuts < MaxCuts
  /\ b \in Present(f) /\ Len(f.succs[b]) = 2
  /\ f' = RemovePred([f EXCEPT !.term[b].kind = "Jump", !.succs[b] = <<@[1]>>], f.succs[b][2], b)
  /\ orig' = f'
  /\ cuts' = cuts + 1
  /\ phase' = "built"
  /\ UNCHANGED <<recover, phis, next, changed, dom>>

OptimizeBlocks ==
  /\ phase = "built"
  /\ f' = DeleteUnreachableBlocks(f)
  /\ phase' = "sweep" /\ next' = 1 /\ changed' = FALSE
  /\ UNCHANGED <<recover, phis, cuts, dom, orig>>

(* One turn of the loop: fuse the block, then thread jumps over it.        *)
Visit ==
  /\ phase = "sweep"
  /\ next <= Len(f.blocks)
  /\ next' = next + 1
  /\ LET b == f.blocks[next]
         fuse == b # Nil /\ CanFuse(f, b)
         g == IF fuse THEN FuseBlocks(f, b) ELSE f
         thread == b # Nil /\ CanThread(g, b)
     IN  /\ f' = IF thread THEN JumpThreading(g, b) ELSE g
         /\ changed' = (changed \/ fuse \/ thread)
  /\ UNCHANGED <<recover, phis, cuts, phase, dom, orig>>

(* Bug: changed is not reset.                                              *)
NextSweepNoReset ==
  /\ changed
  /\ next' = 1
  /\ UNCHANGED <<f, phase, changed, dom>>

NextSweep ==
  /\ changed
  /\ next' = 1 /\ changed' = FALSE
  /\ UNCHANGED <<f, phase, dom>>

(* The end of a sweep: another one, or removeNilBlocks and, in finishBody, *)
(* buildDomTree.                                                           *)
EndSweep ==
  /\ phase = "sweep"
  /\ next > Len(f.blocks)
  /\ \/ NextSweep
     \/ /\ ~changed
        /\ phase' = "done"
        /\ f' = RemoveNilBlocks(f)
        /\ dom' = IF cuts = 0 THEN DomTree(f') ELSE dom
        /\ UNCHANGED <<next, changed>>
  /\ UNCHANGED <<recover, phis, cuts, orig>>

Optimize == OptimizeBlocks \/ Visit \/ EndSweep

Next ==
  \/ \E b \in Block : ApplyStdlibKnowledge(b)
  \/ Optimize
  \/ phase = "done" /\ UNCHANGED vars

Spec == Init /\ [][Next]_vars /\ WF_vars(Optimize)

-----------------------------------------------------------------------------
Count(s, x) == Cardinality({i \in DOMAIN s : s[i] = x})

(***************************************************************************)
(* Predecessors and successors are dual, counted with multiplicity, among  *)
(* the blocks that are left, and successors are as many as the terminator  *)
(* needs; Index is right; the edges of a phi belong to the predecessors at *)
(* their places.  It holds after every single optimization, so that any    *)
(* mix of them can follow (ssa/sanity.go checks the same at the end,       *)
(* without the multiplicity).                                              *)
(***************************************************************************)
GraphIsConsistent ==
  \A b \in Present(f) :
    /\ f.blocks[f.index[b]] = b
    /\ f.term[b] \in Terminator
    /\ Len(f.succs[b]) = (CASE f.term[b].kind = "Return" -> 0
                            [] f.term[b].kind = "Jump" -> 1
                            [] f.term[b].kind = "If" -> 2)
    /\ \A a \in Block :
          Count(f.preds[b], a) = IF a \in Present(f) THEN Count(f.succs[a], b) ELSE 0
    /\ ToSet(f.succs[b]) \subseteq Present(f)
    /\ b \in phis => f.phi[b] = [i \in DOMAIN f.preds[b] |-> f.term[f.preds[b][i]].of]

(***************************************************************************)
(* The tree that finishBody built still speaks of the function whose edges *)
(* applyStdlibKnowledge cut and whose blocks optimizeBlocks fused, deleted *)
(* and renumbered: a block that dominated another one still does.  (The    *)
(* converse fails: the tree does not learn of the dominance that a cut     *)
(* brings about.)                                                          *)
(***************************************************************************)
StaleTreeIsSound ==
  phase = "done" => \A b, c \in Present(f) : Dominates(b, c) => <<b, c>> \in DomTree(f)

(* What a run of the function does: the bodies, branches and returns that  *)
(* it comes to.                                                            *)
Items(g, b) ==
  [i \in 1 .. Len(g.body[b]) |-> <<g.body[b][i], "body">>]
    \o (IF g.term[b].kind = "Jump" THEN <<>> ELSE <<<<g.term[b].of, g.term[b].kind>>>>)

AllItems(g, B) == UNION {ToSet(Items(g, b)) : b \in B}

(* The first of the items K that a run comes to from the blocks B.         *)
First(g, B, K) ==
  LET silent(b) == ToSet(Items(g, b)) \cap K = {}
      from(S) == {b \in Block :
                    \A T \in SUBSET Block :
                       S \subseteq T /\ (\A c \in T : silent(c) => ToSet(g.succs[c]) \subseteq T)
                         => b \in T}
  IN  {SelectSeq(Items(g, b), LAMBDA x : x \in K)[1] : b \in {c \in from(B) : ~silent(c)}}
        \cup {"diverges" : b \in {c \in from(B) : silent(c) /\ c \in from(ToSet(g.succs[c]))}}

(* What comes after the item x, if its branch, when it is an If, is taken  *)
(* to the given side.                                                      *)
After(g, x, side, K) ==
  LET b == CHOOSE c \in Present(g) : x \in ToSet(Items(g, c))
      all == SelectSeq(Items(g, b), LAMBDA y : y \in K)
      i == CHOOSE j \in 1 .. Len(all) : all[j] = x
  IN  IF i < Len(all) THEN {all[i + 1]}
      ELSE IF x[2] = "If" THEN First(g, {g.succs[b][side]}, K)
      ELSE First(g, ToSet(g.succs[b]), K)

(***************************************************************************)
(* The optimizations do not change what the function does.  Only branches  *)
(* whose two sides agree may disappear; from every body, branch and return *)
(* that is left, and from the entry and the recover block, a run comes to  *)
(* the same next one as in the function that was given.                    *)
(***************************************************************************)
BehaviourPreserved ==
  LET K == AllItems(f, Present(f))
      roots == {Entry} \cup ({recover} \ {Nil})
  IN
  phase = "done" =>
  /\ \A x \in AllItems(orig, Reachable(orig)) \ K : x[2] = "If"
  /\ \A b \in roots : b \in Present(f) /\ First(f, {b}, K) = First(orig, {b}, K)
  /\ \A x \in K : \A side \in {1, 2} : After(f, x, side, K) = After(orig, x, side, K)

(* No nil, no unreachable block, no If with two equal targets, no pair to  *)
(* fuse, no jump to thread.                                                *)
NothingLeft ==
  /\ Present(f) = ToSet(f.blocks) /\ Present(f) = Reachable(f)
  /\ \A b \in Present(f) :
        /\ ~(f.term[b].kind = "If" /\ f.succs[b][1] = f.succs[b][2])
        /\ ~CanFuse(f, b) /\ ~CanThread(f, b)

(* optimizeBlocks returns, after any number of sweeps, and then there is   *)
(* nothing left to optimize.                                               *)
Terminates == phase = "built" ~> (phase = "done" /\ NothingLeft)
=============================================================================
