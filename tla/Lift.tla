-------------------------------- MODULE Lift --------------------------------
(***************************************************************************)
(* lift (ssa/lift.go) turns the cells of a function into registers: it     *)
(* places phis in the iterated dominance frontier of the definitions,      *)
(* renames in a walk over the dominator tree, deletes phis that nothing    *)
(* needs, and closes the gaps.  The tree and the frontiers are given to    *)
(* it; module Dominators is about how they are computed, and FinishBody    *)
(* puts the two together.                                                  *)
(*                                                                         *)
(* A cell stands for its Alloc instruction.  An instruction is known by    *)
(* its place, and so is the register it defines; the phi that lifting may  *)
(* place for a cell in a block is known by the two.  Instructions other    *)
(* than allocs, loads, stores, phis and debug references are a use of a    *)
(* value, a definition of one, or a use of the address of a cell.  When    *)
(* lifting is done the two functions are executed side by side.            *)
(***************************************************************************)
EXTENDS Naturals, Sequences, FiniteSets, SequencesExt

CONSTANTS
  N,         \* the number of blocks
  Cells,     \* the cells, numbers
  Programs,  \* the functions: code of each block, successors, Recover, fixed cells
  NoBlock,   \* nil
  MaxLen,    \* bound: how many instructions a block has
  Data       \* what an execution may compute

Blocks == 0 .. N - 1

(* Values: constants, among them zero, registers, new phis, and nil.       *)
Const(c) == <<"const", 0, c>>
Zero == Const(0)
Reg(b, k) == <<"reg", b, k>>
Phi(b, a) == <<"phi", b, a>>
Nil == <<"nil", 0, 0>>

Regs == {Reg(b, k) : b \in Blocks, k \in 1 .. MaxLen}
NewPhis == {Phi(b, a) : b \in Blocks, a \in Cells}
Places == Regs \cup NewPhis
HasReferrers(v) == v[1] \in {"reg", "phi"}

Instr(op, a, vals) == [op |-> op, cell |-> a, vals |-> vals]
Alloc(a) == Instr("alloc", a, <<>>)
Store(a, v) == Instr("store", a, <<v>>)
Load(a) == Instr("load", a, <<>>)
Use(v) == Instr("use", 0, <<v>>)
Def == Instr("def", 0, <<>>)
Escape(a) == Instr("escape", a, <<>>)
DebugRef(a, isAddr) == Instr(IF isAddr THEN "debugaddr" ELSE "debugval", a, <<>>)
Merge(vals) == Instr("phi", 0, vals)
Defer == Instr("defer", 0, <<>>)
RunDefers == Instr("rundefers", 0, <<>>)
Gone == Instr("gone", 0, <<>>)

ASSUME ConstantsAssumption ==
  /\ N \in Nat \ {0} /\ NoBlock \notin Blocks /\ 0 \notin Cells /\ Cells \subseteq Nat
  /\ \A p \in Programs :
       /\ p.fixed \subseteq Cells
       /\ DOMAIN p.code = Blocks /\ \A b \in Blocks : Len(p.code[b]) <= MaxLen
       /\ p.succs \in [Blocks -> Seq(Blocks)] /\ p.recover \in Blocks \cup {NoBlock}

VARIABLES
  program,    \* the function before lifting
  children,   \* domInfo.children
  frontier,   \* domFrontier
  phase,      \* what lift does next
  allocs,     \* the Alloc instructions it has yet to come to
  lifted,     \* the cells it lifts: index >= 0
  cell,       \* liftAlloc: the cell
  W, worked, hasAlready, \* liftAlloc: blocks to do, blocks seen, blocks with a phi
  code,       \* the instructions, by place
  referrers,  \* of registers and new phis
  gaps,       \* BasicBlock.gaps
  pending,    \* rename: the calls its recursion has yet to make
  body,       \* BasicBlock.Instrs after lifting, as places
  run         \* the execution of both functions

given == <<program, children, frontier>>
placing == <<cell, W, worked, hasAlready>>
vars == <<given, phase, allocs, lifted, placing, code, referrers, gaps, pending, body, run>>

-----------------------------------------------------------------------------
(* The control flow graph.                                                 *)
succs == program.succs
Preds(b) == SetToSortSeq({p \in Blocks : b \in ToSet(succs[p])}, <)
PredIndex(b, p) == CHOOSE k \in DOMAIN Preds(b) : Preds(b)[k] = p

(* The instructions of the function before lifting.                        *)
Exists(r) == r \in Regs /\ r[3] <= Len(program.code[r[2]])
At(r) == program.code[r[2]][r[3]]
PlacesOf(b) == [k \in DOMAIN program.code[b] |-> Reg(b, k)]
Uses(c, v) == {r \in DOMAIN c : v \in ToSet(c[r].vals)}
AllocsOf(p) == SelectSeq(FlattenSeq([b \in 1 .. N |-> p.code[b - 1]]), LAMBDA x : x.op = "alloc")

NotRunning == [at |-> 0]

Init ==
  /\ program \in Programs
  /\ phase = "tree"
  /\ allocs = [k \in DOMAIN AllocsOf(program) |-> AllocsOf(program)[k].cell]
  /\ lifted = {} /\ cell = 0 /\ W = {} /\ worked = {} /\ hasAlready = {}
  /\ code = [r \in Places |-> IF Exists(r) THEN At(r) ELSE Gone]
  /\ referrers = [v \in Places |-> IF Exists(v) THEN SetToSeq(Uses(code, v)) ELSE <<>>]
  /\ gaps = [b \in Blocks |-> 0]
  /\ pending = <<>>
  /\ body = [b \in Blocks |-> <<>>]
  /\ run = NotRunning

-----------------------------------------------------------------------------
(* liftAlloc: what makes a cell impossible to lift.                        *)
Liftable(a) ==
  /\ a \notin program.fixed
  /\ \A r \in Regs : ~(code[r].op = "escape" /\ code[r].cell = a)

(* The blocks with a definition of the cell.                               *)
DefBlocks(a) == {b \in Blocks : \E x \in ToSet(program.code[b]) : x.op \in {"store", "alloc"} /\ x.cell = a}

(* The loop of lift comes to an Alloc.                                     *)
LiftAlloc ==
  LET a == Head(allocs) IN
  /\ phase = "place" /\ W = {} /\ allocs # <<>>
  /\ allocs' = Tail(allocs)
  /\ \/ /\ Liftable(a)
        /\ lifted' = lifted \cup {a}
        /\ cell' = a /\ W' = DefBlocks(a) /\ worked' = DefBlocks(a) /\ hasAlready' = {}
     \/ /\ ~Liftable(a)
        /\ UNCHANGED <<lifted, placing>>
  /\ UNCHANGED <<given, phase, code, referrers, gaps, pending, body, run>>

(* One turn of the loop over W: phis in the frontier of a block.           *)
PlacePhis ==
  LET u == CHOOSE b \in W : \A c \in W : b <= c
      fresh == ToSet(frontier[u]) \ hasAlready
  IN
  /\ phase = "place" /\ W # {}
  /\ code' = [r \in Places |-> IF r \in NewPhis /\ r[2] \in fresh /\ r[3] = cell
                               THEN Merge([k \in DOMAIN Preds(r[2]) |-> Nil]) ELSE code[r]]
  /\ hasAlready' = hasAlready \cup fresh
  /\ W' = (W \ {u}) \cup (fresh \ worked)
  /\ worked' = worked \cup fresh
  /\ UNCHANGED <<given, phase, allocs, lifted, cell, referrers, gaps, pending, body, run>>

StartRename ==
  /\ phase = "place" /\ W = {} /\ allocs = <<>>
  /\ phase' = "rename"
  /\ pending' = <<[block |-> 0, names |-> [a \in Cells |-> Zero]]>>
  /\ UNCHANGED <<given, allocs, lifted, placing, code, referrers, gaps, body, run>>

-----------------------------------------------------------------------------
(* Lists of referrers: removeInstr, and append for a value that has them.  *)
RemoveInstr(refs, v, r) ==
  IF HasReferrers(v) THEN [refs EXCEPT ![v] = SelectSeq(@, LAMBDA x : x # r)] ELSE refs

AddReferrer(refs, v, r) == IF HasReferrers(v) THEN [refs EXCEPT ![v] = Append(@, r)] ELSE refs

(* Bug: the new value does not learn of the old one's referrers.           *)
ReplaceUsesForgets(st, x, y) ==
  [st EXCEPT !.code = [r \in DOMAIN @ |-> IF r \in ToSet(st.refs[x])
                                          THEN [@[r] EXCEPT !.vals = ReplaceAll(@, x, y)] ELSE @[r]],
             !.refs = [@ EXCEPT ![x] = <<>>]]

(* replaceAll, on the state of rename.                                     *)
ReplaceUses(st, x, y) ==
  LET refs == IF HasReferrers(y) THEN [st.refs EXCEPT ![y] = @ \o st.refs[x]] ELSE st.refs IN
  [st EXCEPT !.code = [r \in DOMAIN @ |-> IF r \in ToSet(st.refs[x])
                                          THEN [@[r] EXCEPT !.vals = ReplaceAll(@, x, y)] ELSE @[r]],
             !.refs = [refs EXCEPT ![x] = <<>>]]

(* u.Instrs[i] = nil; u.gaps++                                             *)
Delete(st, r) == [st EXCEPT !.code[r] = Gone, !.gaps[r[2]] = @ + 1]

(* rename: the case of an instruction of the block.                        *)
RenameInstr(st, r) ==
  LET x == st.code[r]
      a == x.cell
  IN CASE a \notin lifted -> st
       [] x.op = "alloc" -> Delete([st EXCEPT !.names[a] = Zero], r)
       [] x.op = "store" -> Delete([st EXCEPT !.names[a] = x.vals[1], !.refs = RemoveInstr(@, x.vals[1], r)], r)
       [] x.op = "load" -> Delete(ReplaceUses(st, r, st.names[a]), r)
       [] x.op = "debugaddr" -> [st EXCEPT !.code[r] = Instr("debug", 0, <<st.names[a]>>),
                                           !.refs = AddReferrer(@, st.names[a], r)]
       [] x.op = "debugval" -> Delete(st, r)

(* rename: the edges from u of the phis in its successors.                 *)
RenameEdges(st, u) ==
  LET phis == {Phi(v, a) : v \in ToSet(succs[u]), a \in lifted}
      Edge(s, p) ==
        IF s.code[p].op # "phi" THEN s
        ELSE [s EXCEPT !.code[p].vals[PredIndex(p[2], u)] = s.names[p[3]],
                       !.refs = AddReferrer(@, s.names[p[3]], p)]
  IN FoldLeft(Edge, st, SetToSeq(phis))

(* What rename does to a block before it goes on to the dominees.          *)
RenameBlock(u, names) ==
  LET entered == [names |-> [a \in Cells |-> IF code[Phi(u, a)].op = "phi" THEN Phi(u, a) ELSE names[a]],
                  code |-> code, refs |-> referrers, gaps |-> gaps]
  IN RenameEdges(FoldLeft(RenameInstr, entered, PlacesOf(u)), u)

(* Bug: the subtrees share one map of names.                               *)
RenameShared ==
  LET u == Head(pending).block
      st == RenameBlock(u, Head(pending).names)
      calls == [k \in DOMAIN children[u] |-> [block |-> children[u][k], names |-> st.names]]
  IN
  /\ phase = "rename" /\ pending # <<>>
  /\ code' = st.code /\ referrers' = st.refs /\ gaps' = st.gaps
  /\ pending' = calls \o [k \in DOMAIN Tail(pending) |-> [Tail(pending)[k] EXCEPT !.names = st.names]]
  /\ UNCHANGED <<given, phase, allocs, lifted, placing, body, run>>

(* A call of rename; each of its recursive calls gets the names as they    *)
(* are after the block, in a copy or, for the last one, as they are.       *)
Rename ==
  LET u == Head(pending).block
      st == RenameBlock(u, Head(pending).names)
      calls == [k \in DOMAIN children[u] |-> [block |-> children[u][k], names |-> st.names]]
  IN
  /\ phase = "rename" /\ pending # <<>>
  /\ code' = st.code /\ referrers' = st.refs /\ gaps' = st.gaps
  /\ pending' = calls \o Tail(pending)
  /\ UNCHANGED <<given, phase, allocs, lifted, placing, body, run>>

-----------------------------------------------------------------------------
IsPhi(r) == code[r].op = "phi"

(* phiHasDirectReferrer                                                    *)
HasDirectReferrer(p) == \E r \in ToSet(referrers[p]) : ~IsPhi(r)

(* removeDeadPhis, first pass: the phis that have a referrer which is not  *)
(* a phi, those that were there before, and what they refer to.            *)
LivePhis ==
  LET roots == {p \in Places : IsPhi(p) /\ (p \in Regs \/ HasDirectReferrer(p))}
      live[n \in 0 .. Cardinality(NewPhis)] ==
        IF n = 0 THEN roots
        ELSE LET X == live[n - 1]
             IN X \cup {q \in NewPhis : IsPhi(q) /\ \E p \in X : q \in ToSet(code[p].vals)}
  IN live[Cardinality(NewPhis)]

(* removeDeadPhis, second pass: a dead phi leaves its operands' referrers. *)
RemoveDeadPhis ==
  LET live == LivePhis
      dead == {p \in NewPhis : IsPhi(p) /\ p \notin live}
      Discarded(v, r) == r \in dead /\ v \in ToSet(code[r].vals)
  IN
  /\ phase = "rename" /\ pending = <<>>
  /\ referrers' = [v \in Places |-> SelectSeq(referrers[v], LAMBDA r : ~Discarded(v, r))]
  /\ code' = [r \in Places |-> IF r \in dead THEN Gone ELSE code[r]]
  /\ phase' = "compact"
  /\ UNCHANGED <<given, allocs, lifted, placing, gaps, pending, body, run>>

UsesDefer == \E r \in Regs : code[r].op = "defer"
Kills(b) == IF UsesDefer THEN {} ELSE {k \in DOMAIN program.code[b] : program.code[b][k].op = "rundefers"}

(* The phis left in a block.                                               *)
PhisOf(b) == SetToSeq({p \in NewPhis : p[2] = b /\ IsPhi(p)})

(* Phis first, then the instructions that are left.                        *)
Compact ==
  /\ phase = "compact"
  /\ body' = [b \in Blocks |->
                PhisOf(b) \o SelectSeq(PlacesOf(b), LAMBDA r : code[r].op # "gone" /\ r[3] \notin Kills(b))]
  /\ phase' = "run"
  /\ run' = [at |-> 0, from |-> 0, old |-> [r \in Places |-> 0], new |-> [r \in Places |-> 0],
             cellsOld |-> [a \in Cells |-> 0], cellsNew |-> [a \in Cells |-> 0], seenOld |-> <<>>, seenNew |-> <<>>]
  /\ UNCHANGED <<given, allocs, lifted, placing, code, referrers, gaps, pending>>

-----------------------------------------------------------------------------
(* Execution: the meaning of the instructions, external to lift.           *)
ValueOf(v, regs) == IF v[1] = "const" THEN v[3] ELSE regs[v]

(* All phis of a block at once, coming from another block.                 *)
EnterBlock(c, b, from, regs) ==
  [r \in Places |-> IF r \in DOMAIN c /\ r[2] = b /\ c[r].op = "phi"
                    THEN ValueOf(c[r].vals[PredIndex(b, from)], regs) ELSE regs[r]]

Execute(c, places, st, d) ==
  LET Step(s, r) ==
        LET x == c[r] IN
        CASE x.op = "alloc" -> [s EXCEPT !.cells[x.cell] = 0]
          [] x.op = "store" -> [s EXCEPT !.cells[x.cell] = ValueOf(x.vals[1], s.regs)]
          [] x.op = "load"  -> [s EXCEPT !.regs[r] = s.cells[x.cell]]
          [] x.op = "def"   -> [s EXCEPT !.regs[r] = d]
          [] x.op \in {"use", "debug"} -> [s EXCEPT !.seen = Append(@, ValueOf(x.vals[1], s.regs))]
          [] x.op \in {"escape", "debugaddr"} -> [s EXCEPT !.seen = Append(@, s.cells[x.cell])]
          [] OTHER -> s
  IN FoldLeft(Step, st, places)

(* Both functions execute a block and go on to the same successor, or to   *)
(* Recover if a panic ends the block; a block without successors returns.  *)
Following(b) == ToSet(succs[b]) \cup ({program.recover} \ {NoBlock, b})
Returns(b, next) == succs[b] = <<>> /\ next = b

RunBlock ==
  LET b == run.at
      c0 == [r \in {r \in Places : Exists(r)} |-> At(r)]
  IN
  /\ phase = "run"
  /\ \E d \in Data :
       LET old == Execute(c0, PlacesOf(b), [regs |-> EnterBlock(c0, b, run.from, run.old),
                                            cells |-> run.cellsOld, seen |-> <<>>], d)
           new == Execute(code, body[b], [regs |-> EnterBlock(code, b, run.from, run.new),
                                          cells |-> run.cellsNew, seen |-> <<>>], d)
       IN \E next \in Blocks :
            /\ next \in Following(b) \/ Returns(b, next)
            /\ run' = [at |-> next, from |-> b, old |-> old.regs, new |-> new.regs, cellsOld |-> old.cells,
                       cellsNew |-> new.cells, seenOld |-> old.seen, seenNew |-> new.seen]
            /\ phase' = IF Returns(b, next) THEN "done" ELSE "run"
  /\ UNCHANGED <<given, allocs, lifted, placing, code, referrers, gaps, pending, body>>

Next == LiftAlloc \/ PlacePhis \/ StartRename \/ Rename \/ RemoveDeadPhis \/ Compact \/ RunBlock

-----------------------------------------------------------------------------
(* lift has returned, and the functions have not run yet: no block leads   *)
(* to the entry.                                                           *)
Compacted == phase = "run" /\ run.at = 0

(***************************************************************************)
(* Along every path the lifted function sees the values that the original  *)
(* one does: each load gets the store that reaches it, also around loops,  *)
(* when cells exchange their values, and in irreducible graphs.            *)
(***************************************************************************)
ValuesPreserved == phase \in {"run", "done"} => run.seenOld = run.seenNew

(***************************************************************************)
(* What lift maintains by hand is right in the end.  The referrers that    *)
(* rename, replaceAll and removeDeadPhis keep are exactly the instructions *)
(* that use the value: none is missing, and none that was deleted is left  *)
(* (duplicates are allowed).  The new list of instructions has the length  *)
(* that gaps, phis and rundefers account for, so that no nil is left in it *)
(* and no write is out of range, and every phi has a value for each edge.  *)
(***************************************************************************)
BookkeepingIsExact ==
  Compacted =>
    /\ \A v \in Places : code[v].op # "gone" => ToSet(referrers[v]) = Uses(code, v)
    /\ \A b \in Blocks :
         Len(body[b]) = Len(program.code[b]) + Len(PhisOf(b)) - gaps[b] - Cardinality(Kills(b))
    /\ \A p \in NewPhis : Nil \notin ToSet(code[p].vals)
=============================================================================
