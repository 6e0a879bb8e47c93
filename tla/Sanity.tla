-------------------------------- MODULE Sanity --------------------------------
(***************************************************************************)
(* The checks that src/ssa/sanity.go makes of a built function, on what    *)
(* deleteUnreachableBlocks leaves of it, and the one that sanity.go has as *)
(* a TODO: the definition of a register dominates its uses.  Each operator *)
(* holds when the check of that name reports no error.                     *)
(***************************************************************************)
EXTENDS SsaEmit

RECURSIVE Reach(_, _, _)
Reach(f, S, avoid) ==
  LET next == (S \cup UNION {Range(f.blocks[b].succs) : b \in S}) \ {avoid}
  IN IF next = S THEN S ELSE Reach(f, next, avoid)

Roots(f) == {1, f.recover} \ {0}
Live(f)  == Reach(f, Roots(f), 0)

\* Without the dead blocks, and without the phi edges that come from them.
deleteUnreachableBlocks(f) ==
  LET live == Live(f)
      keep(b) == SelectSeq([i \in DOMAIN f.blocks[b].preds |-> i], LAMBDA i : f.blocks[b].preds[i] \in live)
      pick(s, is) == [j \in DOMAIN is |-> s[is[j]]]
      trim(b, ins) == IF ins.op = "phi" THEN [ins EXCEPT !.a = pick(@, keep(b))] ELSE ins
      block(b) == [f.blocks[b] EXCEPT !.preds = pick(@, keep(b)),
                                      !.instrs = [i \in DOMAIN @ |-> trim(b, @[i])]]
  IN [f EXCEPT !.blocks = [b \in live |-> block(b)]]

hasDuplicate(s) == \E i, j \in DOMAIN s : i < j /\ s[i] = s[j]

checkInstr(f, b, idx) ==
  LET blk == f.blocks[b]
      ins == blk.instrs[idx]
      basic(t) == isBasic(t)
  IN CASE ins.op \in {"if", "jump", "return", "panic"} -> FALSE
       [] ins.op = "phi" ->
            /\ IF idx = 1 THEN ~hasDuplicate(blk.preds) ELSE blk.instrs[idx - 1].op = "phi"
            /\ Len(ins.a) = Len(blk.preds)
            /\ \A i \in DOMAIN ins.a : ins.a[i] # NoValue
       [] ins.op = "alloc" -> ins.x.heap \/ <<b, idx>> \in Range(f.locals)
       [] ins.op = "convert" -> basic(ins.a[1].t) \/ basic(ins.t)
       [] ins.op = "makeclosure" -> f.anon[ins.x].free = Len(ins.a)
       [] OTHER -> ins.t # tUntypedNil

checkFinalInstr(f, b) ==
  LET blk == f.blocks[b]
      ins == Last(blk.instrs)
      n   == Len(blk.succs)
  IN CASE ins.op = "if"     -> n = 2 /\ blk.succs[1] # blk.succs[2]
       [] ins.op = "jump"   -> n = 1
       [] ins.op = "return" -> n = 0 /\ Len(ins.a) = Len(f.rs)
       [] ins.op = "panic"  -> n = 0
       [] OTHER -> FALSE

\* Block a dominates block b.
Dominates(f, a, b) == a = b \/ b \notin Reach(f, {1} \ {a}, a)

\* The registers that instruction i of block b uses are of this function, and
\* their definitions come first on every path; a phi uses them at its edges.
checkOperands(f, b, i) ==
  LET ins == f.blocks[b].instrs[i]
      defined(r) == r[1] \in DOMAIN f.blocks /\ r[2] \in DOMAIN f.blocks[r[1]].instrs
      before(r)  == IF r[1] = b THEN r[2] < i ELSE Dominates(f, r[1], b) \/ b = f.recover
  IN \A j \in DOMAIN ins.a :
       /\ ins.a[j].k # "const" => ins.a[j].t # tUntypedNil \/ ins.a[j] = NoValue
       /\ ins.a[j].k = "reg" =>
            /\ defined(ins.a[j].r)
            /\ IF ins.op = "phi" THEN Dominates(f, ins.a[j].r[1], f.blocks[b].preds[j]) ELSE before(ins.a[j].r)

checkBlock(f, b) ==
  LET blk == f.blocks[b]
      n   == Len(blk.instrs)
  IN /\ \A a \in Range(blk.preds) : b \in Range(f.blocks[a].succs)
     /\ \A c \in Range(blk.succs) : b \in Range(f.blocks[c].preds)
     /\ n > 0
     /\ \A i \in 1..n : (IF i < n THEN checkInstr(f, b, i) ELSE checkFinalInstr(f, b)) /\ checkOperands(f, b, i)

RECURSIVE checkFunction(_)
checkFunction(fn) ==
  LET f == deleteUnreachableBlocks(fn)
  IN /\ \A i \in DOMAIN f.locals :
          LET r == f.locals[i] IN r[1] \in DOMAIN f.blocks => ~f.blocks[r[1]].instrs[r[2]].x.heap
     /\ \A b \in DOMAIN f.blocks : checkBlock(f, b)
     /\ f.recover # 0 => f.recover \in DOMAIN f.blocks
     /\ \A i \in DOMAIN f.anon : checkFunction(f.anon[i])
=============================================================================
