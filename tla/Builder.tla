------------------------------- MODULE Builder -------------------------------
(***************************************************************************)
(* The translation of function bodies to SSA form, src/ssa/builder.go: one *)
(* operator for each method of builder, with the name of the method.  The  *)
(* conventions are those of SsaEmit.                                       *)
(***************************************************************************)
EXTENDS SsaEmit

RECURSIVE cond(_, _, _, _), expr(_, _), exprN(_, _), addr(_, _, _)
RECURSIVE assign(_, _, _, _, _), compLit(_, _, _, _), stmt(_, _, _), buildFunction(_, _)

WithVal(fn, v) == [fn EXCEPT !.val = v]
WithLv(fn, lv) == [fn EXCEPT !.lv = lv]

\* The values of a list of expressions, in fn.vals.
exprs(fn, es) ==
  FoldLeft(LAMBDA g, e : LET h == expr(g, e) IN [h EXCEPT !.vals = Append(g.vals, h.val)],
           [fn EXCEPT !.vals = <<>>], es)

\* ------------------------------------------------------ boolean conditions

cond(fn, e, t, f) ==
  CASE e.k = "paren" -> cond(fn, e.x, t, f)
    [] e.k = "bin" /\ e.op = "&&" ->
         LET g == newBasicBlock(fn)
         IN cond(At(cond(g, e.x, Newest(g), f), Newest(g)), e.y, t, f)
    [] e.k = "bin" /\ e.op = "||" ->
         LET g == newBasicBlock(fn)
         IN cond(At(cond(g, e.x, t, Newest(g)), Newest(g)), e.y, t, f)
    [] e.k = "un" /\ e.op = "!" -> cond(fn, e.x, f, t)
    [] OTHER -> LET g == expr(fn, e) IN emitIf(g, g.val, t, f)

logicalBinop(fn, e) ==
  LET g    == newBasicBlock(newBasicBlock(fn))
      rhs  == Newest(g) - 1
      done == Newest(g)
      h    == IF e.op = "&&" THEN cond(g, e.x, rhs, done) ELSE cond(g, e.x, done, rhs)
      short == Const(BoolV(e.op = "||"), tBool)
      y    == expr(At(h, rhs), e.y)
      edges == Append([i \in DOMAIN h.blocks[done].preds |-> short], y.val)
  IN CASE h.blocks[rhs].preds = <<>> -> WithVal(At(h, done), short)
       [] h.blocks[rhs].preds # <<>> /\ h.blocks[done].preds = <<>> -> y
       [] OTHER -> emit(At(emitJump(y, done), done), Instr("phi", edges, <<>>, tBool))

\* ------------------------------------------------------------------- calls

\* go/types.Selection.Indirect: a pointer is crossed on the way.
RECURSIVE Indirect(_, _)
Indirect(t, path) ==
  isPointer(t) \/ (path # <<>> /\ Indirect(deref(t).fs[Head(path)], Tail(path)))

receiver(fn, e, path, wantAddr, escaping) ==
  LET g == IF wantAddr /\ ~Indirect(TypeOf(e), path)
           THEN LET h == addr(fn, e, escaping) IN WithVal(h, h.lv.addr)
           ELSE expr(fn, e)
      v == emitImplicitSelections(g, g.val, path)
  IN IF ~wantAddr /\ isPointer(v.val.t) THEN emitLoad(v, v.val) ELSE v

\* The function part of a call: fn.val is its operand, fn.vals starts the arguments.
setCallFunc(fn, e) ==
  LET f == unparen(e.fun)
  IN IF f.k = "method"
     THEN LET g == receiver(fn, f.x, f.path, isPointer(f.recv), TRUE)
          IN IF isInterface(f.recv)
             THEN [g EXCEPT !.vals = <<>>]                                \* invoke mode
             ELSE [g EXCEPT !.vals = <<g.val>>, !.val = [k |-> "func", n |-> f.fun.n, t |-> tFunc]]
     ELSE [expr(fn, e.fun) EXCEPT !.vals = <<>>]

\* The formal parameter types of what e calls.
params(e) == CASE e.fun.k = "func" -> e.fun.ps
               [] e.fun.k = "method" -> e.fun.fun.ps
               [] e.fun.k = "funclit" -> [i \in DOMAIN e.fun.ps |-> e.fun.ps[i].t]
               [] e.fun.k = "builtin" /\ e.fun.n = "panic" -> <<tEface>>
               [] e.fun.k = "builtin" /\ e.fun.n = "append" -> <<TypeOf(e.args[1]), TypeOf(e.args[1])>>
               [] OTHER -> [i \in DOMAIN e.args |-> TypeOf(e.args[i])]
variadic(e) == \/ e.fun.k = "func" /\ e.fun.variadic
               \/ e.fun.k = "method" /\ e.fun.fun.variadic
               \/ e.fun = Builtin("append")

emitConvs(fn, from, ps) ==
  FoldLeft(LAMBDA g, i : LET h == emitConv(g, g.vals[i], ps[i - from])
                         IN [h EXCEPT !.vals[i] = h.val],
           fn, [i \in 1..Len(ps) |-> from + i])

\* f(g()): the results of a multi-valued g become arguments of f.
arg(fn, e) ==
  LET g == expr(fn, e)
  IN IF g.val.t.k = "tuple"
     THEN FoldLeft(LAMBDA h, i : LET x == emitExtract(h, g.val, i)
                                 IN [x EXCEPT !.vals = Append(h.vals, x.val)],
                   [g EXCEPT !.vals = fn.vals], [i \in DOMAIN g.val.t.ts |-> i])
     ELSE [g EXCEPT !.vals = Append(fn.vals, g.val)]

emitCallArgs(fn, e) ==
  LET ps     == params(e)
      offset == Len(fn.vals)
      evaled == FoldLeft(arg, fn, e.args)
      np     == IF variadic(e) THEN Len(ps) - 1 ELSE Len(ps)
      normal == emitConvs(evaled, offset, SubSeq(ps, 1, np))
      vt     == ps[Len(ps)].e
      extra  == SubSeq(normal.vals, offset + np + 1, Len(normal.vals))
      array  == emitNew(normal, Array(Len(extra), vt))
      put(g, i) == LET a == emit(g, Instr("indexaddr", <<array.val, intConst(i - 1)>>, <<>>, Ptr(vt)))
                   IN emitStore(a, a.val, extra[i])
      filled == FoldLeft(put, array, [i \in DOMAIN extra |-> i])
      slice  == emit(filled, Instr("slice", <<array.val>>, [lo |-> 0, hi |-> 0, max |-> 0], Slice(vt)))
      kept   == SubSeq(normal.vals, 1, offset + np)
  IN CASE e.dots -> emitConvs(evaled, offset, ps)
       [] ~e.dots /\ ~variadic(e) -> normal
       [] ~e.dots /\ variadic(e) /\ extra = <<>> ->
            [normal EXCEPT !.vals = Append(@, nilConst(Slice(vt)))]
       [] OTHER -> [slice EXCEPT !.vals = Append(kept, slice.val)]

\* Emits the call, deferred call or goroutine op for e.
setCall(fn, e, op) ==
  LET g == setCallFunc(fn, e)
      h == emitCallArgs(g, e)
      m == IF e.fun.k = "method" THEN e.fun.fun ELSE e.fun
  IN emit(h, Instr(op, <<g.val>> \o h.vals, m, IF op = "call" THEN TypeOf(e) ELSE Void))

builtin(fn, e) ==
  LET t == TypeOf(e)
      x == expr(fn, e.args[1])
      n == IF e.fun.n = "make" /\ Len(e.args) > 1 THEN expr(fn, e.args[2]) ELSE fn
      m == IF e.fun.n = "make" /\ Len(e.args) = 3 THEN expr(n, e.args[3]) ELSE n
      size == IF Len(e.args) > 1 THEN n.val ELSE intConst(0)
  IN CASE e.fun.n = "make" /\ t.k = "slice" ->
            IF m.val.k = "const"
            THEN LET a == emitNew(m, Array(m.val.v[2], t.e))
                 IN emit(a, Instr("slice", <<a.val, n.val>>, [lo |-> 0, hi |-> 2, max |-> 0], t))
            ELSE emit(m, Instr("makeslice", <<n.val, m.val>>, <<>>, t))
       [] e.fun.n = "make" /\ t.k \in {"map", "chan"} -> emit(n, Instr("make", <<size>>, t.k, t))
       [] e.fun.n = "new" -> emitNew(fn, t.e)
       [] e.fun.n \in {"len", "cap"} /\ deref(TypeOf(e.args[1])).k = "array" ->
            WithVal(x, intConst(deref(TypeOf(e.args[1])).n))
       [] e.fun.n = "panic" ->
            LET v == emitConv(x, x.val, tEface)
                p == newBasicBlock(emit(v, Instr("panic", <<v.val>>, <<>>, Void)))
            IN WithVal(At(p, Newest(p)), vTrue)
       [] OTHER -> setCall(fn, e, "call")

\* -------------------------------------------------------------- expressions

\* go/types.TypeAndValue.Addressable
RECURSIVE Addressable(_)
Addressable(e) ==
  CASE e.k \in {"id", "star"} -> TRUE
    [] e.k = "paren" -> Addressable(e.x)
    [] e.k = "sel"   -> Addressable(e.x) \/ Indirect(TypeOf(e.x), Front(e.path))
    [] e.k = "index" -> \/ TypeOf(e.x).k \in {"slice", "ptr"}
                        \/ TypeOf(e.x).k = "array" /\ Addressable(e.x)
    [] OTHER -> FALSE

\* x and then the index, converted to t.
indexed(fn, x, i, t) ==
  LET g == expr(fn, i)
      h == emitConv(g, g.val, t)
  IN [h EXCEPT !.vals = <<x, h.val>>]

addr(fn, e, escaping) ==
  CASE e.k = "id" ->
         IF isBlankIdent(e) THEN WithLv(fn, BlankLv)
         ELSE IF e.g THEN WithLv(fn, Address([k |-> "global", n |-> e.n, t |-> Ptr(e.t)]))
         ELSE LET g == lookup(fn, e.n, escaping) IN WithLv(g, Address(g.val))
    [] e.k = "complit" ->
         LET t == deref(e.t)
             v == IF escaping THEN emitNew(fn, t) ELSE addLocal(fn, t)
             g == compLit([v EXCEPT !.sb = <<>>], v.val, e, TRUE)
         IN WithLv([storebufEmit(g) EXCEPT !.sb = fn.sb], Address(v.val))
    [] e.k = "paren" -> addr(fn, e.x, escaping)
    [] e.k = "sel" ->
         LET v == receiver(fn, e.x, Front(e.path), TRUE, escaping)
             g == emitFieldSelection(v, v.val, Last(e.path), TRUE)
         IN WithLv(g, Address(g.val))
    [] e.k = "index" ->
         LET t == TypeOf(e.x)
             a == addr(fn, e.x, escaping)
             x == IF t.k = "array" THEN WithVal(a, a.lv.addr) ELSE expr(fn, e.x)
             i == indexed(x, x.val, e.i, tInt)
             g == emit(i, Instr("indexaddr", i.vals, <<>>, Ptr(deref(t).e)))
         IN IF t.k = "map" THEN WithLv(i, Element(i.vals[1], i.vals[2], t.e))
            ELSE WithLv(g, Address(g.val))
    [] e.k = "star" -> LET g == expr(fn, e.x) IN WithLv(g, Address(g.val))

exprN(fn, e) ==
  LET x == expr(fn, e.x)
      i == indexed(x, x.val, e.i, tInt)
  IN CASE e.k = "paren"  -> exprN(fn, e.x)
       [] e.k = "call"   -> setCall(fn, e, "call")
       [] e.k = "index"  -> emit(i, Instr("lookup", i.vals, [ok |-> TRUE], Tuple(<<TypeOf(e), tBool>>)))
       [] e.k = "assert" -> emitTypeTest(x, x.val, e.t)
       [] e.k = "un"     -> emit(x, Instr("recv", <<x.val>>, [ok |-> TRUE], Tuple(<<TypeOf(e), tBool>>)))

funcLit(fn, e) ==
  LET fn2 == buildFunction(newFunction(e.rs, fn), e)
      up  == [fn2.parent EXCEPT !.anon = Append(@, fn2.built)]
      i   == Len(up.anon)
  IN IF fn2.free = <<>> THEN WithVal(up, [k |-> "anon", i |-> i, t |-> tFunc])
     ELSE emit(up, Instr("makeclosure", fn2.free, i, tFunc))

callExpr(fn, e) ==
  CASE e.fun.k = "type" -> LET x == expr(fn, e.args[1]) IN emitConv(x, x.val, e.fun.t)
    [] e.fun.k = "builtin" -> builtin(fn, e)
    [] OTHER -> setCall(fn, e, "call")

unaryExpr(fn, e) ==
  LET a == addr(fn, e.x, TRUE)
      x == expr(fn, e.x)
  IN CASE e.op = "&" -> WithVal(IF unparen(e.x).k = "star" THEN load(a, a.lv) ELSE a, a.lv.addr)
       [] e.op = "+" -> x
       [] e.op = "<-" -> emit(x, Instr("recv", <<x.val>>, [ok |-> FALSE], TypeOf(e)))
       [] OTHER -> emit(x, Instr("unop", <<x.val>>, e.op, TypeOf(e)))

binaryExpr(fn, e) ==
  LET x == expr(fn, e.x)
      y == expr(x, e.y)
  IN CASE e.op \in {"&&", "||"} -> logicalBinop(fn, e)
       [] e.op \in {"+", "-"} -> emitArith(y, e.op, x.val, y.val, TypeOf(e))
       [] OTHER -> emitCompare(y, e.op, x.val, y.val)

\* The high bound is evaluated before the low one.
sliceExpr(fn, e) ==
  LET a  == addr(fn, e.x, TRUE)
      x  == IF TypeOf(e.x).k = "array" THEN WithVal(a, a.lv.addr) ELSE expr(fn, e.x)
      bound(g, b) == IF b = None THEN g
                     ELSE LET h == expr(g, b) IN [h EXCEPT !.vals = Append(g.vals, h.val)]
      hi == bound([x EXCEPT !.vals = <<x.val>>], e.hi)
      lo == bound(hi, e.lo)
      mx == bound(lo, e.max)
      at(b, g) == IF b = None THEN 0 ELSE Len(g.vals)
  IN emit(mx, Instr("slice", mx.vals, [lo |-> at(e.lo, lo), hi |-> at(e.hi, hi), max |-> at(e.max, mx)],
                    TypeOf(e)))

\* A method value: a closure over the receiver.
methodVal(fn, e) ==
  LET v == receiver(fn, e.x, e.path, isPointer(e.recv), TRUE)
      g == IF isInterface(e.recv) THEN emitTypeAssert(v, v.val, e.recv) ELSE v
  IN emit(g, Instr("bound", <<v.val>>, e.fun, tFunc))

indexExpr(fn, e) ==
  LET x == expr(fn, e.x)
      i == indexed(x, x.val, e.i, tInt)
      a == addr(fn, e, FALSE)
  IN CASE TypeOf(e.x).k = "array" -> emit(i, Instr("index", i.vals, <<>>, TypeOf(e)))
       [] TypeOf(e.x).k = "map"   -> emit(i, Instr("lookup", i.vals, [ok |-> FALSE], TypeOf(e)))
       [] OTHER -> load(a, a.lv)

fieldVal(fn, e) ==
  LET x == expr(fn, e.x)
      v == emitImplicitSelections(x, x.val, Front(e.path))
  IN emitFieldSelection(v, v.val, Last(e.path), FALSE)

expr(fn, e0) ==
  LET e == unparen(e0)
      a == addr(fn, e, FALSE)
      x == expr(fn, e.x)
  IN CASE e.k = "const"   -> WithVal(fn, e)
       [] Addressable(e)  -> load(a, a.lv)
       [] e.k \in {"func", "builtin"} -> WithVal(fn, [k |-> "func", n |-> e.n, t |-> tFunc])
       [] e.k = "funclit" -> funcLit(fn, e)
       [] e.k = "assert"  -> emitTypeAssert(x, x.val, e.t)
       [] e.k = "call"    -> callExpr(fn, e)
       [] e.k = "un"      -> unaryExpr(fn, e)
       [] e.k = "bin"     -> binaryExpr(fn, e)
       [] e.k = "slicing" -> sliceExpr(fn, e)
       [] e.k = "method"  -> methodVal(fn, e)
       [] e.k = "sel" /\ ~Addressable(e)   -> fieldVal(fn, e)
       [] e.k = "index" /\ ~Addressable(e) -> indexExpr(fn, e)
       [] e.k = "complit" -> load(a, a.lv)

\* -------------------------------------------------------------- assignments

\* Bug: the stores of a parallel assignment are not kept back.
storeAtOnce(fn, loc, v, buffered) == store(fn, loc, v)

\* Stores now, or later with the storebuf.
storeOrBuffer(fn, loc, v, buffered) ==
  IF buffered THEN [fn EXCEPT !.sb = Append(@, [lhs |-> loc, rhs |-> v])] ELSE store(fn, loc, v)

assign(fn, loc, e0, isZero, buffered) ==
  LET e == unparen(e0)
      p == addr(fn, e, TRUE)
      v == expr(fn, e)
      c == compLit(IF buffered THEN fn ELSE [fn EXCEPT !.sb = <<>>], loc.addr, e, isZero)
  IN IF e.k = "complit" /\ loc.k # "blank" /\ isPointer(typ(loc))
     THEN storeOrBuffer(p, loc, p.lv.addr, buffered)                 \* &T{...} is implied
     ELSE IF e.k = "complit" /\ loc.k = "address" /\ ~isInterface(typ(loc))
     THEN IF buffered THEN c ELSE [storebufEmit(c) EXCEPT !.sb = fn.sb]
     ELSE storeOrBuffer(v, loc, v.val, buffered)

arrayLen(es) ==
  LET step(acc, x) == LET i == IF x.key = None THEN acc.i + 1 ELSE x.key.v[2]
                      IN [i |-> i, max |-> IF i > acc.max THEN i ELSE acc.max]
  IN FoldLeft(step, [i |-> -1, max |-> -1], es).max + 1

memclear(fn, a, t) ==
  LET z == zeroValue(fn, t)
  IN [z EXCEPT !.sb = Append(@, [lhs |-> Address(a), rhs |-> z.val])]

structLit(fn, a, e, isZero) ==
  LET t     == deref(e.t)
      clear == ~isZero /\ Len(e.es) # Len(t.fs)
      field(g, i) ==
        LET x == e.es[i]
            f == IF x.key = None THEN i ELSE x.key.v[2]
            h == emit(g, Instr("fieldaddr", <<a>>, f, Ptr(t.fs[f])))
        IN assign(h, Address(h.val), x.v, isZero \/ clear, TRUE)
  IN FoldLeft(field, IF clear THEN memclear(fn, a, t) ELSE fn, [i \in DOMAIN e.es |-> i])

\* The index each element of an array or slice literal goes to.
RECURSIVE indices(_, _)
indices(es, prev) ==
  IF es = <<>> THEN <<>>
  ELSE LET i == IF Head(es).key = None THEN prev + 1 ELSE Head(es).key.v[2]
       IN <<i>> \o indices(Tail(es), i)

arrayLit(fn, a, e, isZero) ==
  LET t     == deref(e.t)
      slice == t.k = "slice"
      new   == emitNew(fn, Array(arrayLen(e.es), t.e))
      array == IF slice THEN new.val ELSE a
      start == CASE slice -> new
                 [] ~slice /\ ~isZero /\ Len(e.es) # t.n -> memclear(fn, a, t)
                 [] OTHER -> fn
      at    == indices(e.es, -1)
      elem(g, i) ==
        LET h == emit(g, Instr("indexaddr", <<array, intConst(at[i])>>, <<>>, Ptr(t.e)))
        IN assign(h, Address(h.val), e.es[i].v, TRUE, ~slice)
      all   == FoldLeft(elem, start, [i \in DOMAIN e.es |-> i])
      s     == emit(all, Instr("slice", <<array>>, [lo |-> 0, hi |-> 0, max |-> 0], t))
  IN IF slice THEN [s EXCEPT !.sb = Append(@, [lhs |-> Address(a), rhs |-> s.val])] ELSE all

mapLit(fn, a, e) ==
  LET m == emit(fn, Instr("make", <<intConst(Len(e.es))>>, "map", e.t))
      entry(g, x) == LET kx == expr(g, x.key)
                     IN assign(kx, Element(m.val, kx.val, e.t.e), x.v, TRUE, FALSE)
  IN [FoldLeft(entry, m, e.es) EXCEPT !.sb = Append(@, [lhs |-> Address(a), rhs |-> m.val])]

compLit(fn, a, e, isZero) ==
  CASE deref(e.t).k = "struct" -> structLit(fn, a, e, isZero)
    [] deref(e.t).k \in {"array", "slice"} -> arrayLit(fn, a, e, isZero)
    [] deref(e.t).k = "map" -> mapLit(fn, a, e)

assignOp(fn, loc, incr, op) ==
  LET old == load(fn, loc)
      c   == emitConv(old, incr, old.val.t)
      new == emitArith(c, op, old.val, c.val, typ(loc))
  IN store(new, loc, new.val)

declare(fn, id) == IF isBlankIdent(id) THEN fn ELSE addNamedLocal(fn, id)

\* Stores the components of tuple to the locations.
storeTuple(fn, tuple, lvs) ==
  FoldLeft(LAMBDA g, i : LET x == emitExtract(g, tuple, i) IN store(x, lvs[i], x.val),
           fn, [i \in DOMAIN lvs |-> i])

localValueSpec(fn, s) ==
  LET n == [i \in DOMAIN s.names |-> i]
      one(g, i) == LET l == addr(declare(g, s.names[i]), s.names[i], FALSE)
                   IN assign(l, l.lv, s.vals[i], TRUE, FALSE)
      tuple == exprN(fn, s.vals[1])
      part(g, i) ==
        IF isBlankIdent(s.names[i]) THEN g
        ELSE LET l == addr(declare(g, s.names[i]), s.names[i], FALSE)
                 x == emitExtract(l, tuple.val, i)
             IN store(x, l.lv, x.val)
  IN CASE Len(s.vals) = Len(s.names) -> FoldLeft(one, fn, n)
       [] s.vals = <<>> -> FoldLeft(declare, fn, s.names)
       [] OTHER -> FoldLeft(part, tuple, n)

assignStmt(fn, s) ==
  LET new(l) == s.def /\ ~isBlankIdent(l) /\ l.n \in s.new
      left(acc, l) ==
        LET g == IF new(l) THEN addNamedLocal(acc.fn, l) ELSE acc.fn
            h == addr(g, l, FALSE)
        IN [fn |-> h, lvs |-> Append(acc.lvs, h.lv)]
      ls   == FoldLeft(left, [fn |-> fn, lvs |-> <<>>], s.lhs)
      right(g, i) == assign(g, ls.lvs[i], s.rhs[i], new(s.lhs[i]), TRUE)
      all  == FoldLeft(right, [ls.fn EXCEPT !.sb = <<>>], [i \in DOMAIN s.rhs |-> i])
      tuple == exprN(ls.fn, s.rhs[1])
  IN IF Len(s.lhs) = Len(s.rhs) THEN [storebufEmit(all) EXCEPT !.sb = fn.sb]
     ELSE storeTuple(tuple, tuple.val, ls.lvs)

\* -------------------------------------------------------------- branch targets

Push(fn, brk, cont, fall) ==
  [fn EXCEPT !.targets = <<[_break |-> brk, _continue |-> cont, _fallthrough |-> fall]>> \o @]
Pop(fn) == [fn EXCEPT !.targets = Tail(@)]

\* The innermost enclosing target of a kind; 0 if there is none.
innermost(fn, kind) ==
  LET some == SelectSeq(fn.targets, LAMBDA t : t[kind] # 0)
  IN IF some = <<>> THEN 0 ELSE Head(some)[kind]

labelledBlock(fn, l) ==
  IF l \in DOMAIN fn.lblocks THEN fn
  ELSE LET g  == newBasicBlock(fn)
           lb == [_goto |-> Newest(g), _break |-> 0, _continue |-> 0]
       IN [g EXCEPT !.lblocks = [m \in DOMAIN @ \cup {l} |-> IF m = l THEN lb ELSE @[m]]]

\* A statement labelled l ("" if it has no label) sets its targets.
setLabel(fn, l, brk, cont) ==
  IF l = "" THEN fn ELSE [fn EXCEPT !.lblocks[l]._break = brk, !.lblocks[l]._continue = cont]

\* Without a current block nothing can be emitted.
RECURSIVE stmtList(_, _)
stmtList(fn, list) ==
  IF list = <<>> \/ fn.cur = 0 THEN fn ELSE stmtList(stmt(fn, Head(list), ""), Tail(list))

opt(fn, s) == IF s = None THEN fn ELSE stmt(fn, s, "")

branchStmt(fn, s) ==
  LET g == labelledBlock(fn, s.l)
      kind == CASE s.tok = "break" -> "_break"
                [] s.tok = "continue" -> "_continue"
                [] s.tok = "fallthrough" -> "_fallthrough"
                [] s.tok = "goto" -> "_goto"
      j == IF s.l = "" THEN emitJump(fn, innermost(fn, kind)) ELSE emitJump(g, g.lblocks[s.l][kind])
      u == newBasicBlock(j)
  IN At(u, Newest(u))

\* ------------------------------------------------------------------ returns

returnStmt(fn, s) ==
  LET mrv    == Len(s.xs) = 1 /\ Len(fn.rs) > 1
      tuple  == exprN(fn, s.xs[1])
      part(g, i) == LET x == emitExtract(g, tuple.val, i)
                        c == emitConv(x, x.val, fn.rs[i])
                    IN [c EXCEPT !.vals = Append(g.vals, c.val)]
      result(g, i) == LET x == expr(g, s.xs[i])
                          c == emitConv(x, x.val, fn.rs[i])
                      IN [c EXCEPT !.vals = Append(g.vals, c.val)]
      rs     == IF mrv THEN FoldLeft(part, [tuple EXCEPT !.vals = <<>>], [i \in DOMAIN fn.rs |-> i])
                ELSE FoldLeft(result, [fn EXCEPT !.vals = <<>>], [i \in DOMAIN s.xs |-> i])
      stored == IF fn.named = <<>> THEN rs
                ELSE FoldLeft(LAMBDA g, i : emitStore(g, fn.named[i], rs.vals[i]), rs,
                              [i \in DOMAIN rs.vals |-> i])
      ran    == emit(stored, Instr("rundefers", <<>>, <<>>, Void))
      again(g, a) == LET l == emitLoad(g, a) IN [l EXCEPT !.vals = Append(g.vals, l.val)]
      out    == IF fn.named = <<>> THEN ran ELSE FoldLeft(again, [ran EXCEPT !.vals = <<>>], fn.named)
      u      == newBasicBlock(emit(out, Instr("return", out.vals, <<>>, Void)))
  IN At(u, Newest(u))

\* -------------------------------------------------------- switches and select

\* The body of clause c, with the targets of its statement, and the jump to done.
clauseBody(fn, body, done, fall) ==
  emitJump(Pop(stmtList(Push(fn, done, 0, fall), body)), done)

switchStmt(fn, s, label) ==
  LET init == opt(fn, s.init)
      t    == IF s.tag = None THEN WithVal(init, vTrue) ELSE expr(init, s.tag)
      d    == newBasicBlock(t)
      done == Newest(d)
      n    == Len(s.cs)
      compare(g, e) ==
        LET b == newBasicBlock(g.fn)
            y == expr(b, e)
            c == emitCompare(y, "==", t.val, y.val)
        IN [g EXCEPT !.fn = At(emitIf(c, c.val, g.body, Newest(b)), Newest(b))]
      clause(acc, i) ==
        LET c    == s.cs[i]
            b    == IF acc.fallthru # 0 THEN acc.fn ELSE newBasicBlock(acc.fn)
            body == IF acc.fallthru # 0 THEN acc.fallthru ELSE Newest(b)
            f    == IF i < n THEN newBasicBlock(b) ELSE b
            fall == IF i < n THEN Newest(f) ELSE done
            chain == FoldLeft(compare, [fn |-> f, body |-> body], c.list).fn
            next == chain.cur
        IN IF c.dflt THEN [fn |-> f, fallthru |-> fall,
                           dflt |-> [body |-> c.body, fall |-> fall, block |-> body]]
           ELSE [acc EXCEPT !.fn = At(clauseBody(At(chain, body), c.body, done, fall), next),
                            !.fallthru = fall]
      all  == FoldLeft(clause, [fn |-> setLabel(d, label, done, 0), fallthru |-> 0, dflt |-> [block |-> 0]],
                       [i \in 1..n |-> i])
      dflt == all.dflt
  IN IF dflt.block = 0 THEN At(emitJump(all.fn, done), done)
     ELSE At(clauseBody(At(emitJump(all.fn, dflt.block), dflt.block), dflt.body, done, dflt.fall), done)

typeCaseBody(fn, c, x, done) ==
  LET g == addNamedLocal(fn, c.obj)
  IN clauseBody(IF c.obj = None THEN fn ELSE emitStore(g, g.val, x), c.body, done, 0)

typeSwitchStmt(fn, s, label) ==
  LET x    == expr(opt(fn, s.init), s.x)
      d    == newBasicBlock(x)
      done == Newest(d)
      test(acc, ct) ==
        LET b   == newBasicBlock(acc.fn)
            nil == emitCompare(b, "==", x.val, nilConst(x.val.t))
            yok == emitTypeTest(b, x.val, ct)
            v   == emitExtract(yok, yok.val, 1)
            ok  == emitExtract(v, yok.val, 2)
            c   == IF ct = tUntypedNil THEN nil ELSE ok
        IN [acc EXCEPT !.fn = At(emitIf(c, c.val, acc.body, Newest(b)), Newest(b)),
                       !.ti = IF ct = tUntypedNil THEN x.val ELSE v.val]
      clause(g, c) ==
        LET b     == newBasicBlock(g)
            chain == FoldLeft(test, [fn |-> b, body |-> Newest(b), ti |-> NoValue], c.list)
            ti    == IF Len(c.list) = 1 THEN chain.ti ELSE x.val
        IN IF c.dflt THEN g
           ELSE At(typeCaseBody(At(chain.fn, Newest(b)), c, ti, done), chain.fn.cur)
      all  == FoldLeft(clause, setLabel(d, label, done, 0), s.cs)
      dflt == SelectSeq(s.cs, LAMBDA c : c.dflt)
  IN At(IF dflt = <<>> THEN emitJump(all, done) ELSE typeCaseBody(all, dflt[1], x.val, done), done)

\* The channel, and the value of a send, of one clause.
isRecv(comm) == comm.k # "send"
recvOf(comm) == unparen(IF comm.k = "expr" THEN comm.x ELSE comm.rhs[1])
selectState(fn, c) ==
  LET ch == expr(fn, IF isRecv(c.comm) THEN recvOf(c.comm).x ELSE c.comm.c)
      v  == expr(ch, c.comm.x)
      cv == emitConv(v, v.val, ch.val.t.e)
  IN CASE c.comm = None -> fn
       [] isRecv(c.comm) -> [ch EXCEPT !.vals = Append(fn.vals, [ch |-> ch.val, send |-> NoValue])]
       [] OTHER -> [cv EXCEPT !.vals = Append(fn.vals, [ch |-> ch.val, send |-> cv.val])]

\* What a matched clause receives: component r of sel, and whether it is a value.
received(fn, comm, sel, r) ==
  LET to(g, l, i) ==
        LET a == addr(IF comm.def THEN declare(g, l) ELSE g, l, FALSE)
            v == emitExtract(a, sel, i)
        IN store(v, a.lv, v.val)
  IN CASE comm.k # "assign" -> fn
       [] comm.k = "assign" /\ Len(comm.lhs) = 1 -> to(fn, comm.lhs[1], r)
       [] OTHER -> to(to(fn, comm.lhs[1], r), comm.lhs[2], 2)

selectOne(fn, c, label) ==
  LET d == newBasicBlock(stmt(fn, c.comm, ""))
  IN At(clauseBody(setLabel(d, label, Newest(d), 0), c.body, Newest(d), 0), Newest(d))

selectMany(fn, s, label) ==
  LET sts   == FoldLeft(selectState, [fn EXCEPT !.vals = <<>>], s.cs)
      dflt  == SelectSeq(s.cs, LAMBDA c : c.comm = None)
      elems == LET rs == SelectSeq(sts.vals, LAMBDA st : st.send = NoValue)
               IN [i \in DOMAIN rs |-> rs[i].ch.t.e]
      rands == FlattenSeq([i \in DOMAIN sts.vals |-> <<sts.vals[i].ch, sts.vals[i].send>>])
      sel   == emit(sts, Instr("select", rands, [blocking |-> dflt = <<>>], Tuple(<<tInt, tBool>> \o elems)))
      idx   == emitExtract(sel, sel.val, 1)
      d     == newBasicBlock(idx)
      done  == Newest(d)
      clause(acc, c) ==
        LET b    == newBasicBlock(newBasicBlock(acc.fn))
            body == Newest(b) - 1
            next == Newest(b)
            eq   == emitCompare(b, "==", idx.val, intConst(acc.state))
            in   == received(At(emitIf(eq, eq.val, body, next), body), c.comm, sel.val, acc.r)
        IN IF c.comm = None THEN acc
           ELSE [fn |-> At(clauseBody(in, c.body, done, 0), next),
                 state |-> acc.state + 1, r |-> IF isRecv(c.comm) THEN acc.r + 1 ELSE acc.r]
      all   == FoldLeft(clause, [fn |-> setLabel(d, label, done, 0), state |-> 0, r |-> 3], s.cs).fn
      msg   == emitConv(all, Const(<<"blocking select matched no case">>, tMyInt), tEface)
      p     == newBasicBlock(emit(msg, Instr("panic", <<msg.val>>, <<>>, Void)))
  IN At(IF dflt # <<>> THEN clauseBody(all, dflt[1].body, done, 0)
        ELSE emitJump(At(p, Newest(p)), done), done)

selectStmt(fn, s, label) ==
  IF Len(s.cs) = 1 /\ s.cs[1].comm # None THEN selectOne(fn, s.cs[1], label) ELSE selectMany(fn, s, label)

\* -------------------------------------------------------------------- loops

forStmt(fn, s, label) ==
  LET g    == newBasicBlock(newBasicBlock(opt(fn, s.init)))
      body == Newest(g) - 1
      done == Newest(g)
      h    == IF s.cond = None THEN g ELSE newBasicBlock(g)
      loop == IF s.cond = None THEN body ELSE Newest(h)
      i    == IF s.post = None THEN h ELSE newBasicBlock(h)
      cont == IF s.post = None THEN loop ELSE Newest(i)
      top  == At(emitJump(setLabel(i, label, done, cont), loop), loop)
      in   == IF s.cond = None THEN top ELSE At(cond(top, s.cond, body, done), body)
      out  == emitJump(Pop(stmt(Push(in, done, cont, 0), s.body, "")), cont)
  IN At(IF s.post = None THEN out ELSE emitJump(stmt(At(out, cont), s.post, ""), loop), done)

\* The three headers of a range loop leave k and v in fn.vals, and the loop
\* and done blocks with them.
Header(fn, k, v, loop, done) == [fn |-> fn, k |-> k, v |-> v, loop |-> loop, done |-> done]
TwoBlocks(fn) == newBasicBlock(newBasicBlock(fn))

rangeIndexed(fn, x, wantV) ==
  LET xt     == x.t
      at     == deref(xt)
      len    == emit(fn, Instr("call", <<[k |-> "func", n |-> "len", t |-> tFunc], x>>, Builtin("len"), tInt))
      l      == IF at.k = "array" THEN WithVal(fn, intConst(at.n)) ELSE len
      ix     == addLocal(l, tInt)
      init   == newBasicBlock(emitStore(ix, ix.val, intConst(-1)))
      loop   == Newest(init)
      old    == emitLoad(At(emitJump(init, loop), loop), ix.val)
      incr   == emit(old, Instr("binop", <<old.val, intConst(1)>>, "+", tInt))
      b      == TwoBlocks(emitStore(incr, ix.val, incr.val))
      body   == Newest(b) - 1
      less   == emitCompare(b, "<", incr.val, l.val)
      k      == emitLoad(At(emitIf(less, less.val, body, Newest(b)), body), ix.val)
      a      == emit(k, Instr("indexaddr", <<x, k.val>>, <<>>, Ptr(at.e)))
      v      == CASE ~wantV -> k
                  [] wantV /\ xt.k = "array" -> emit(k, Instr("index", <<x, k.val>>, <<>>, at.e))
                  [] OTHER -> emitLoad(a, a.val)
  IN Header(v, k.val, v.val, loop, Newest(b))

rangeIter(fn, x, wantK, wantV) ==
  LET it   == newBasicBlock(emit(fn, Instr("range", <<x>>, <<>>, tRangeIter)))
      loop == Newest(it)
      okv  == emit(At(emitJump(it, loop), loop),
                   Instr("next", <<it.val>>, <<>>, Tuple(<<tBool, tInt, x.t.e>>)))
      b    == TwoBlocks(okv)
      ok   == emitExtract(b, okv.val, 1)
      in   == At(emitIf(ok, ok.val, Newest(b) - 1, Newest(b)), Newest(b) - 1)
      k    == IF wantK THEN emitExtract(in, okv.val, 2) ELSE in
      v    == IF wantV THEN emitExtract(k, okv.val, 3) ELSE k
  IN Header(v, k.val, v.val, loop, Newest(b))

rangeChan(fn, x, wantK) ==
  LET l    == newBasicBlock(fn)
      loop == Newest(l)
      ko   == emit(At(emitJump(l, loop), loop),
                   Instr("recv", <<x>>, [ok |-> TRUE], Tuple(<<x.t.e, tBool>>)))
      b    == TwoBlocks(ko)
      ok   == emitExtract(b, ko.val, 2)
      in   == At(emitIf(ok, ok.val, Newest(b) - 1, Newest(b)), Newest(b) - 1)
      k    == IF wantK THEN emitExtract(in, ko.val, 1) ELSE in
  IN Header(k, k.val, NoValue, loop, Newest(b))

rangeStmt(fn, s, label) ==
  LET wantK == s.key # None /\ ~isBlankIdent(s.key)
      wantV == s.val # None /\ ~isBlankIdent(s.val)
      dk    == IF s.def /\ wantK THEN addNamedLocal(fn, s.key) ELSE fn
      dv    == IF s.def /\ wantV THEN addNamedLocal(dk, s.val) ELSE dk
      x     == expr(dv, s.x)
      h     == CASE x.val.t.k \in {"slice", "array", "ptr"} -> rangeIndexed(x, x.val, wantV)
                 [] x.val.t.k = "chan" -> rangeChan(x, x.val, wantK)
                 [] x.val.t.k = "map"  -> rangeIter(x, x.val, wantK, wantV)
      kl    == IF wantK THEN addr(h.fn, s.key, FALSE) ELSE h.fn
      vl    == IF wantV THEN addr(kl, s.val, FALSE) ELSE kl
      ks    == IF wantK THEN store(vl, kl.lv, h.k) ELSE vl
      vs    == IF wantV THEN store(ks, vl.lv, h.v) ELSE ks
      in    == Push(setLabel(vs, label, h.done, h.loop), h.done, h.loop, 0)
  IN At(emitJump(Pop(stmt(in, s.body, "")), h.loop), h.done)

\* --------------------------------------------------------------- statements

ifStmt(fn, s) ==
  LET b    == TwoBlocks(opt(fn, s.init))
      then == Newest(b) - 1
      done == Newest(b)
      e    == IF s.els = None THEN b ELSE newBasicBlock(b)
      els  == IF s.els = None THEN done ELSE Newest(e)
      t    == emitJump(stmt(At(cond(e, s.cond, then, els), then), s.then, ""), done)
  IN At(IF s.els = None THEN t ELSE emitJump(stmt(At(t, els), s.els, ""), done), done)

labeledStmt(fn, s) ==
  LET l == labelledBlock(fn, s.l)
      b == l.lblocks[s.l]._goto
  IN stmt(At(emitJump(l, b), b), s.s, s.l)

sendStmt(fn, s) ==
  LET ch == expr(fn, s.c)
      x  == expr(ch, s.x)
      c  == emitConv(x, x.val, TypeOf(s.c).e)
  IN emit(c, Instr("send", <<ch.val, c.val>>, <<>>, Void))

incDecStmt(fn, s) ==
  LET l == addr(fn, s.x, FALSE) IN assignOp(l, l.lv, Const(IntV(1), typ(l.lv)), s.op)

opAssignStmt(fn, s) ==
  LET l == addr(fn, s.x, FALSE)
      y == expr(l, s.y)
  IN assignOp(y, l.lv, y.val, s.op)

stmt(fn, s, label) ==
  CASE s.k = "none"       -> fn
    [] s.k = "var"        -> localValueSpec(fn, s)
    [] s.k = "label"      -> labeledStmt(fn, s)
    [] s.k = "expr"       -> expr(fn, s.x)
    [] s.k = "send"       -> sendStmt(fn, s)
    [] s.k = "incdec"     -> incDecStmt(fn, s)
    [] s.k = "assign"     -> assignStmt(fn, s)
    [] s.k = "opassign"   -> opAssignStmt(fn, s)
    [] s.k = "go"         -> setCall(fn, s.c, "go")
    [] s.k = "defer"      -> createRecoverBlock(setCall(fn, s.c, "defer"))
    [] s.k = "return"     -> returnStmt(fn, s)
    [] s.k = "branch"     -> branchStmt(fn, s)
    [] s.k = "block"      -> stmtList(fn, s.list)
    [] s.k = "if"         -> ifStmt(fn, s)
    [] s.k = "switch"     -> switchStmt(fn, s, label)
    [] s.k = "typeswitch" -> typeSwitchStmt(fn, s, label)
    [] s.k = "select"     -> selectStmt(fn, s, label)
    [] s.k = "for"        -> forStmt(fn, s, label)
    [] s.k = "range"      -> rangeStmt(fn, s, label)

\* ---------------------------------------------------------------- functions

createSyntacticParams(fn, e) ==
  LET named(g, id) == LET l == addNamedLocal(g, id) IN [l EXCEPT !.named = Append(@, l.val)]
  IN FoldLeft(named, FoldLeft(addSpilledParam, fn, e.ps), e.named)

\* Bug: Locals keeps the variables that escape.
finishBodyAllLocals(fn) ==
  [fn EXCEPT !.built = [blocks |-> fn.blocks, recover |-> fn.recover, anon |-> fn.anon,
                        free |-> Len(fn.free), params |-> fn.params, rs |-> fn.rs, locals |-> fn.locals]]

\* What is left of the function once it is built; Locals that escape are dropped.
finishBody(fn) ==
  LET stays(r) == ~fn.blocks[r[1]].instrs[r[2]].x.heap
  IN [fn EXCEPT !.built = [blocks |-> fn.blocks, recover |-> fn.recover, anon |-> fn.anon,
                           free |-> Len(fn.free), params |-> fn.params, rs |-> fn.rs,
                           locals |-> SelectSeq(fn.locals, stays)]]

\* Control that falls off the end of the body returns.
buildFunction(fn, e) ==
  LET b  == stmt(createSyntacticParams(startBody(fn), e), e.body, "")
      cb == b.cur
      end == emit(emit(b, Instr("rundefers", <<>>, <<>>, Void)), Instr("return", <<>>, <<>>, Void))
  IN finishBody(IF cb # 0 /\ (cb = 1 \/ cb = b.recover \/ b.blocks[cb].preds # <<>>) THEN end ELSE b)

BuildFunction(e) == buildFunction(newFunction(e.rs, NoFunction), e).built

\* The init function of package p: [imports, vars, decls].
initCall(fn, n) == emit(fn, Instr("call", <<[k |-> "func", n |-> n, t |-> tFunc]>>, Func(n, <<>>, <<>>), Void))

varInit(fn, v) ==
  LET loc(id) == addr(fn, id, FALSE).lv
      tuple   == exprN(fn, v.rhs)
      part(g, i) == IF isBlankIdent(v.lhs[i]) THEN g
                    ELSE LET x == emitExtract(g, tuple.val, i) IN store(x, loc(v.lhs[i]), x.val)
  IN IF Len(v.lhs) = 1 THEN assign(fn, loc(v.lhs[1]), v.rhs, TRUE, FALSE)
     ELSE FoldLeft(part, tuple, [i \in DOMAIN v.lhs |-> i])

buildFuncDecl(fn, decl) == IF decl.init THEN initCall(fn, decl.n) ELSE fn

BuildPackage(p) ==
  LET guard == [k |-> "global", n |-> "init$guard", t |-> Ptr(tBool)]
      b     == TwoBlocks(startBody(newFunction(<<>>, NoFunction)))
      doinit == Newest(b) - 1
      done  == Newest(b)
      g     == emitLoad(b, guard)
      start == emitStore(At(emitIf(g, g.val, done, doinit), doinit), guard, vTrue)
      inits == FoldLeft(varInit, FoldLeft(initCall, start, p.imports), p.vars)
      decls == FoldLeft(buildFuncDecl, inits, p.decls)
  IN finishBody(emit(At(emitJump(decls, done), done), Instr("return", <<>>, <<>>, Void))).built
=============================================================================
