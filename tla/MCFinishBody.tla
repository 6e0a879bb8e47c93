---------------------------- MODULE MCFinishBody ----------------------------
(***************************************************************************)
(* Graphs for the dominator tree and functions to lift.                    *)
(*                                                                         *)
(* The blocks of a graph are numbered as the search meets them, which      *)
(* leaves out nothing but renumberings: functions of five blocks of which  *)
(* two may branch, or three if the last one returns, and functions of four *)
(* blocks with a Recover block besides.                                    *)
(***************************************************************************)
EXTENDS FinishBody

Others == Blocks \ {0}
Ifs == {p \in Others \X Others : p[1] # p[2]}
Lists == {<<>>} \cup {<<a>> : a \in Others} \cup Ifs

(* Block b has the successors t[b + 1]; the entry's first is block 1.      *)
Tuples == {l \in Lists : l # <<>> /\ l[1] = 1} \X Lists \X Lists \X Lists \X Lists
BranchesOf(t) == {k \in 1 .. N : t[k] \in Ifs}

(* The order in which a search meets the blocks is that of their numbers:  *)
(* a stack of pairs of a block and the successors that are left.           *)
RECURSIVE SearchOrder(_, _, _)
SearchOrder(f, stack, met) ==
  IF stack = <<>> THEN met
  ELSE LET top == Head(stack) IN
       IF top \in ToSet(met) THEN SearchOrder(f, Tail(stack), met)
       ELSE SearchOrder(f, f[top + 1] \o Tail(stack), Append(met, top))

InSearchOrder(t, n) == SearchOrder(t, <<0>>, <<>>) = [k \in 1 .. n |-> k - 1]

Small(t) == Cardinality(BranchesOf(t)) <= 2 \/ (t[N] = <<>> /\ Cardinality(BranchesOf(t)) = 3)
Trees == {t \in Tuples : Small(t) /\ InSearchOrder(t, N)}
Recovering == {t \in Tuples : t[N] = <<>> /\ InSearchOrder(t, N - 1)}

FunctionOf(t, r) ==
  [succs |-> [b \in Blocks |-> t[b + 1]], recover |-> r, fixed |-> {}, naive |-> TRUE, code |-> [b \in Blocks |-> <<>>]]
Naive == {FunctionOf(t, NoBlock) : t \in Trees} \cup {FunctionOf(t, N - 1) : t \in Recovering}

(***************************************************************************)
(* Two cells and four blocks: a branch, a loop, a loop that is left in the *)
(* middle, and two blocks that jump to each other and are both entered     *)
(* from outside; the fifth block returns, or it is the Recover block.  A   *)
(* block stores, loads, copies one cell to the other, exchanges the two,   *)
(* or refers to one for debugging.                                         *)
(***************************************************************************)
Shapes ==
  {<<<<1, 2>>, <<3>>, <<3>>, <<4>>, <<>>>>,
   <<<<1>>, <<2, 3>>, <<1>>, <<4>>, <<>>>>,
   <<<<1>>, <<2>>, <<1, 3>>, <<4>>, <<>>>>,
   <<<<1, 2>>, <<2>>, <<1, 3>>, <<4>>, <<>>>>}

Bodies(b) ==
  {<<>>,
   <<Store(1, Const(3))>>,
   <<Load(1), Use(Reg(b, 1))>>,
   <<Def, Store(1, Reg(b, 1))>>,
   <<Load(1), Load(2), Store(1, Reg(b, 2)), Store(2, Reg(b, 1))>>,
   <<Load(1), Store(2, Reg(b, 1))>>,
   <<Load(2), Use(Reg(b, 1)), RunDefers>>}

Entries == {<<Alloc(1), Alloc(2)>>, <<Alloc(1), Alloc(2), Def, Store(1, Reg(0, 3))>>}

ProgramOf(shape, c0, c1, c2, c3) ==
  [succs |-> [b \in Blocks |-> shape[b + 1]], recover |-> NoBlock, fixed |-> {}, naive |-> FALSE,
   code |-> [b \in Blocks |-> <<c0, c1, c2, c3, <<>>>>[b + 1]]]

(* A store in the last block would not be seen by anyone.                  *)
Endings == {<<Load(1), Use(Reg(3, 1))>>, <<Load(2), Use(Reg(3, 1)), RunDefers>>}

Plain == {ProgramOf(s, c0, c1, c2, c3) : s \in Shapes, c0 \in Entries, c1 \in Bodies(1), c2 \in Bodies(2),
                                         c3 \in Endings}

(* Cells that cannot be lifted, cells that are allocated in a loop, debug  *)
(* references, deferred calls, and a phi of the builder.                   *)
Branch == <<<<1, 2>>, <<3>>, <<3>>, <<4>>, <<>>>>
Loop == <<<<1>>, <<2, 3>>, <<1>>, <<4>>, <<>>>>
Special ==
  {[p EXCEPT !.fixed = {1}] : p \in {ProgramOf(Loop, <<Alloc(1), Alloc(2)>>, <<Load(1), Store(2, Reg(1, 1))>>,
                                               <<Def, Store(1, Reg(2, 1))>>, <<Load(2), Use(Reg(3, 1))>>)}}
    \cup
  {ProgramOf(Loop, <<Alloc(2)>>, <<Load(2), Use(Reg(1, 1))>>, <<Alloc(1), Load(1), x, Def, Store(1, Reg(2, 4)), Store(2, Reg(2, 2))>>, <<>>) :
     x \in {Escape(1), DebugRef(1, TRUE), DebugRef(1, FALSE), Use(Reg(2, 2))}}
    \cup
  {ProgramOf(Branch, <<Alloc(1), Alloc(2), Def, Store(1, Reg(0, 3)), x>>, <<Load(1), Store(2, Reg(1, 1))>>,
             <<Load(1), Def>>,
             <<Merge(<<Reg(1, 1), Reg(2, 2)>>), DebugRef(2, TRUE), Store(1, Reg(3, 1)), Load(1), Use(Reg(3, 4)), RunDefers>>) :
     x \in {Defer, Use(Reg(0, 3))}}

(* A function that recovers: cell 1 is its named result.                   *)
Recovers ==
  {[p EXCEPT !.succs[3] = <<>>, !.recover = 4, !.fixed = {1}, !.code[4] = <<Load(1), Use(Reg(4, 1))>>] :
     p \in {ProgramOf(s, <<Alloc(1), Alloc(2)>>, c1, c2, <<Load(2), Store(1, Reg(3, 1)), RunDefers>>) :
              s \in {Branch, Loop}, c1 \in Bodies(1), c2 \in Bodies(2)}}

MCPrograms == Recovers \cup Naive \cup Plain \cup Special
=============================================================================
