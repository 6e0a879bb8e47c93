------------------------------- MODULE SsaEmit -------------------------------
(***************************************************************************)
(* The helpers of the SSA builder: src/ssa/emit.go (instructions), func.go *)
(* (functions and basic blocks) and lvalue.go (locations).                 *)
(*                                                                         *)
(* fn is the Function under construction.  Every operator takes the fn of  *)
(* its caller and returns the fn it leaves; the Value the Go function      *)
(* returns is fn.val, the lvalue is fn.lv and the storebuf is fn.sb.  A    *)
(* block is its index in fn.blocks, 0 is nil; a register is the place      *)
(* <<block, index>> of the instruction that defines it.  An instruction    *)
(* keeps its operands in a, the rest of its fields in x and its type in t. *)
(***************************************************************************)
EXTENDS GoSyntax

Reg(b, i, t) == [k |-> "reg", r |-> <<b, i>>, t |-> t]
NoValue      == [k |-> "nil", t |-> tUntypedNil]
Instr(op, a, x, t) == [op |-> op, a |-> a, x |-> x, t |-> t]
Void         == Tuple(<<>>)

intConst(n)  == Const(IntV(n), tInt)
nilConst(t)  == Const(NilV, t)
vTrue        == Const(BoolV(TRUE), tBool)

\* ------------------------------------------------- functions, blocks, edges

NoFunction == [k |-> "no function"]
newFunction(rs, parent) ==
  [blocks |-> <<>>, cur |-> 0, val |-> NoValue, lv |-> [k |-> "blank"], sb |-> <<>>,
   vals |-> <<>>, targets |-> <<>>, lblocks |-> <<>>, objects |-> <<>>,
   named |-> <<>>, recover |-> 0, anon |-> <<>>, free |-> <<>>, params |-> <<>>,
   locals |-> <<>>, rs |-> rs, built |-> <<>>, parent |-> parent]

newBasicBlock(fn) ==
  [fn EXCEPT !.blocks = Append(@, [instrs |-> <<>>, preds |-> <<>>, succs |-> <<>>])]
Newest(fn) == Len(fn.blocks)
At(fn, b)  == [fn EXCEPT !.cur = b]

addEdge(fn, from, to) ==
  [fn EXCEPT !.blocks[from].succs = Append(@, to), !.blocks[to].preds = Append(@, from)]

emit(fn, instr) ==
  LET b == fn.cur
  IN [fn EXCEPT !.blocks[b].instrs = Append(@, instr),
                !.val = Reg(b, Len(fn.blocks[b].instrs) + 1, instr.t)]

startBody(fn) == LET g == newBasicBlock(fn) IN At(g, Newest(g))

emitJump(fn, target) ==
  At(addEdge(emit(fn, Instr("jump", <<>>, <<>>, Void)), fn.cur, target), 0)

emitIf(fn, cond, t, f) ==
  At(addEdge(addEdge(emit(fn, Instr("if", <<cond>>, <<>>, Void)), fn.cur, t), fn.cur, f), 0)

emitNew(fn, t)     == emit(fn, Instr("alloc", <<>>, [heap |-> TRUE], Ptr(t)))
emitLoad(fn, addr) == emit(fn, Instr("load", <<addr>>, <<>>, deref(addr.t)))
emitExtract(fn, tuple, i) == emit(fn, Instr("extract", <<tuple>>, i, tuple.t.ts[i]))
emitTypeAssert(fn, x, t) == emit(fn, Instr("typeassert", <<x>>, [t |-> t, ok |-> FALSE], t))
emitTypeTest(fn, x, t) ==
  emit(fn, Instr("typeassert", <<x>>, [t |-> t, ok |-> TRUE], Tuple(<<t, tBool>>)))

addLocal(fn, t) ==
  LET g == emit(fn, Instr("alloc", <<>>, [heap |-> FALSE], Ptr(t)))
  IN [g EXCEPT !.locals = Append(@, g.val.r)]

Bind(fn, n, v) == [fn EXCEPT !.objects = [m \in DOMAIN @ \cup {n} |-> IF m = n THEN v ELSE @[m]]]
addNamedLocal(fn, obj) ==
  LET g == addLocal(fn, obj.t) IN Bind(g, obj.n, g.val)

addSpilledParam(fn, obj) ==
  LET p == [k |-> "param", n |-> obj.n, t |-> obj.t]
      g == addNamedLocal([fn EXCEPT !.params = Append(@, obj.n)], obj)
  IN emit(g, Instr("store", <<g.val, p>>, <<>>, Void))

\* An alloc that a potentially escaping expression refers to moves to the heap.
RECURSIVE lookup(_, _, _)
lookup(fn, n, escaping) ==
  IF n \in DOMAIN fn.objects
  THEN LET v == fn.objects[n]
           g == IF v.k = "reg" /\ escaping
                THEN [fn EXCEPT !.blocks[v.r[1]].instrs[v.r[2]].x = [heap |-> TRUE]] ELSE fn
       IN [g EXCEPT !.val = v]
  ELSE LET up == lookup(fn.parent, n, TRUE)
           v  == [k |-> "free", i |-> Len(fn.free) + 1, t |-> up.val.t]
       IN [Bind(fn, n, v) EXCEPT !.parent = up, !.free = Append(@, up.val), !.val = v]

\* ----------------------------------------------------------- implicit code

isValuePreserving(src, dst) ==
  \/ Underlying(src) = Underlying(dst)
  \/ src.k = "chan" /\ dst.k = "chan"
  \/ src.k = "ptr" /\ dst.k = "ptr"

emitConv(fn, val, t) ==
  LET as(op)    == emit(fn, Instr(op, <<val>>, <<>>, t))
      result(v) == [fn EXCEPT !.val = v]
  IN IF val.t = t THEN result(val)
     ELSE IF isValuePreserving(val.t, t) THEN as("changetype")
     ELSE IF isInterface(t)
     THEN IF isInterface(val.t) THEN as("changeinterface")
          ELSE IF val.t = tUntypedNil THEN result(nilConst(t))
          ELSE as("makeinterface")
     ELSE IF val.k = "const" /\ (isBasic(t) \/ val.v = NilV) THEN result(Const(val.v, t))
     ELSE as("convert")

emitStore(fn, addr, val) ==
  LET g == emitConv(fn, val, deref(addr.t))
  IN emit(g, Instr("store", <<addr, g.val>>, <<>>, Void))

emitArith(fn, op, x, y, t) ==
  LET g == emitConv(fn, x, t)
      h == emitConv(g, y, t)
  IN emit(h, Instr("binop", <<g.val, h.val>>, op, t))

\* switch { case e: } compares e with true, which is e itself.
emitCompare(fn, op, x, y) ==
  IF x = vTrue /\ op = "==" /\ Underlying(y.t) = tBool THEN [fn EXCEPT !.val = y]
  ELSE LET cx == emitConv(fn, x, y.t)
           cy == emitConv(fn, y, x.t)
           compare(g, v, w) == emit(g, Instr("binop", <<v, w>>, op, tBool))
       IN IF Underlying(x.t) = Underlying(y.t) THEN compare(fn, x, y)
          ELSE IF isInterface(x.t) THEN compare(cy, x, cy.val)
          ELSE IF isInterface(y.t) \/ x.k = "const" THEN compare(cx, cx.val, y)
          ELSE IF y.k = "const" THEN compare(cy, x, cy.val)
          ELSE compare(fn, x, y)

\* Fields crossed on the way to a selection; a pointer field is loaded.
RECURSIVE emitImplicitSelections(_, _, _)
emitImplicitSelections(fn, v, path) ==
  IF path = <<>> THEN [fn EXCEPT !.val = v]
  ELSE LET ft == deref(v.t).fs[Head(path)]
           g  == IF isPointer(v.t) THEN emit(fn, Instr("fieldaddr", <<v>>, Head(path), Ptr(ft)))
                                   ELSE emit(fn, Instr("field", <<v>>, Head(path), ft))
           h  == IF isPointer(v.t) /\ isPointer(ft) THEN emitLoad(g, g.val) ELSE g
       IN emitImplicitSelections(h, h.val, Tail(path))

emitFieldSelection(fn, v, i, wantAddr) ==
  LET ft == deref(v.t).fs[i]
  IN IF isPointer(v.t)
     THEN LET g == emit(fn, Instr("fieldaddr", <<v>>, i, Ptr(ft)))
          IN IF wantAddr THEN g ELSE emitLoad(g, g.val)
     ELSE emit(fn, Instr("field", <<v>>, i, ft))

zeroValue(fn, t) ==
  IF t.k \in {"struct", "array"}
  THEN LET g == addLocal(fn, t) IN emitLoad(g, g.val)
  ELSE [fn EXCEPT !.val = Const(Zero(t), t)]

\* The code that returns after a recovered panic; built once.
createRecoverBlock(fn) ==
  IF fn.recover # 0 THEN fn
  ELSE LET g == newBasicBlock(fn)
           one(h, r) ==
             LET l == IF fn.named # <<>> THEN emitLoad(h, r) ELSE zeroValue(h, r)
             IN [l EXCEPT !.vals = Append(h.vals, l.val)]
           e == FoldLeft(one, At([g EXCEPT !.recover = Newest(g), !.vals = <<>>], Newest(g)),
                         IF fn.named # <<>> THEN fn.named ELSE fn.rs)
       IN At(emit(e, Instr("return", e.vals, <<>>, Void)), fn.cur)

\* ------------------------------------------------------------------ lvalues

Address(v)      == [k |-> "address", addr |-> v]
Element(m, kx, t) == [k |-> "element", m |-> m, kx |-> kx, t |-> t]
BlankLv         == [k |-> "blank"]
typ(lv)         == IF lv.k = "address" THEN deref(lv.addr.t) ELSE lv.t

load(fn, lv) ==
  IF lv.k = "address" THEN emitLoad(fn, lv.addr)
  ELSE emit(fn, Instr("lookup", <<lv.m, lv.kx>>, [ok |-> FALSE], lv.t))

store(fn, lv, v) ==
  CASE lv.k = "address" -> emitStore(fn, lv.addr, v)
    [] lv.k = "element" -> LET g == emitConv(fn, v, lv.t)
                           IN emit(g, Instr("mapupdate", <<lv.m, lv.kx, g.val>>, <<>>, Void))
    [] lv.k = "blank"   -> emit(fn, Instr("blankstore", <<v>>, <<>>, Void))

storebufEmit(fn) == FoldLeft(LAMBDA g, s : store(g, s.lhs, s.rhs), fn, fn.sb)
=============================================================================
