---------------------------- MODULE GoSemantics ----------------------------
(***************************************************************************)
(* What a Go function does, by the structure of its source: the reference  *)
(* for the SSA builder.  Statements and expressions take a state to a      *)
(* state; st.ctl says how control leaves them.  The answers of the         *)
(* environment are read from st.in, and when they are used up the function *)
(* stops where it is.  Nothing here knows of basic blocks.                 *)
(***************************************************************************)
EXTENDS GoSyntax

CONSTANT MaxLoops          \* iterations and backward gotos before giving up

ASSUME MaxLoopsAssumption == MaxLoops \in Nat \ {0}

Go   == <<"next">>
Stop == <<"stop">>
Init0(globals, heap, in) ==
  [env |-> globals, heap |-> heap, in |-> in, out |-> <<>>, ctl |-> Go, val |-> NilV,
   vals |-> <<>>, loc |-> [k |-> "blank"], defers |-> <<>>, pan |-> <<>>,
   results |-> <<>>, named |-> <<>>, rs |-> <<>>, loops |-> 0]

Leaves(st, ctl)  == [st EXCEPT !.ctl = ctl]
Yields(st, v)    == [st EXCEPT !.val = v]
Crash(st)        == Leaves(st, <<"panic", RuntimeError>>)
Occurs(st, ev)   == [st EXCEPT !.out = Append(@, ev)]
Content(st, p)   == Get(st.heap[p[2]], p[3])
ShowAll(st, vs)  == [i \in DOMAIN vs |-> Show(vs[i], st.heap)]

\* An event whose outcome the environment chooses; st.vals are its results.
Asks(st, ev, answers) ==
  LET s == Occurs(st, ev)
  IN IF answers = {} \/ st.in = <<>> THEN Leaves(s, Stop)
     ELSE LET t == [s EXCEPT !.in = Tail(@)]
          IN IF Head(st.in) = Panics THEN Crash(t)
             ELSE [t EXCEPT !.vals = Head(st.in)[2],
                            !.val = IF Len(Head(st.in)[2]) > 0 THEN Head(st.in)[2][1] ELSE NilV]

New(st, v) == [st EXCEPT !.heap = Append(@, v), !.val = PtrV(Len(st.heap) + 1, <<>>)]
Declare(st, id, v) ==
  IF isBlankIdent(id) THEN st
  ELSE LET s == New(st, v)
       IN [s EXCEPT !.env = [n \in DOMAIN @ \cup {id.n} |-> IF n = id.n THEN Len(s.heap) ELSE @[n]]]

\* Assignment of a value of type t to a location.
Store(st, loc, v, t) ==
  IF st.ctl # Go THEN st
  ELSE CASE loc.k = "blank" -> st
         [] loc.k = "cell"  -> [st EXCEPT !.heap[loc.p[2]] = Put(@, loc.p[3], Convert(v, t, loc.t))]
         [] loc.k = "elem"  -> Occurs(st, <<"update", ShowAll(st, <<loc.m, loc.key, Convert(v, t, loc.t)>>)>>)
Load(st, loc) ==
  IF st.ctl # Go THEN st
  ELSE IF loc.k = "cell" THEN Yields(st, Content(st, loc.p))
  ELSE Asks(st, <<"lookup", <<loc.m, loc.key>>>>, CommaOk(loc.t))

RECURSIVE Eval(_, _), Loc(_, _), Exec(_, _, _), ExecList(_, _, _), Invokes(_, _, _, _, _)

\* The values of a list of expressions of given types.
EvalAll(st, es, ts) ==
  FoldLeft(LAMBDA s, i : LET v == Eval(s, es[i])
                         IN IF v.ctl # Go THEN v
                            ELSE [v EXCEPT !.vals = Append(s.vals, Convert(v.val, TypeOf(es[i]), ts[i]))],
           [st EXCEPT !.vals = <<>>], [i \in DOMAIN es |-> i])

\* A multi-valued expression: its components in st.vals.
EvalN(st, e0) ==
  LET e == unparen(e0)
      x == Eval(st, e.x)
      i == Eval(x, e.i)
  IN CASE e.k = "call" -> Eval(st, e)
       [] e.k = "index" -> IF i.ctl # Go THEN i ELSE Asks(i, <<"lookup", <<x.val, i.val>>>>, CommaOk(TypeOf(e)))
       [] e.k = "un" -> IF x.ctl # Go THEN x ELSE Asks(x, <<"recv", <<x.val>>>>, CommaOk(TypeOf(e)))
       [] e.k = "assert" ->
            [x EXCEPT !.vals = IF x.ctl = Go /\ Holds(x.val, e.t) THEN <<Unbox(x.val, e.t), BoolV(TRUE)>>
                               ELSE <<Zero(e.t), BoolV(FALSE)>>]
tupleTypes(e0) == LET e == unparen(e0)
                  IN IF e.k = "call" THEN TypeOf(e).ts ELSE <<TypeOf(e), tBool>>

\* The location a path of fields leads to; pointers on the way are followed.
RECURSIVE Fields(_, _, _, _)
Fields(st, p, t, path) ==
  CASE t.k = "ptr" /\ path # <<>> ->
         IF Content(st, p) = NilV THEN Crash(st) ELSE Fields(st, Content(st, p), t.e, path)
    [] t.k # "ptr" /\ path # <<>> ->
         Fields(st, PtrV(p[2], Append(p[3], Head(path))), t.fs[Head(path)], Tail(path))
    [] OTHER -> [st EXCEPT !.loc = [k |-> "cell", p |-> p, t |-> t]]

\* The location of element i of the slice or array pointer v.
ElementOf(st, v, i, t) ==
  LET arr == IF v[1] = "slice" THEN v[2] ELSE v
      off == IF v[1] = "slice" THEN v[3] ELSE 0
      n   == IF v[1] = "slice" THEN LenV(v) ELSE Len(Content(st, v)[2])
  IN IF v = NilV \/ i \notin 0..(n - 1) THEN Crash(st)
     ELSE [st EXCEPT !.loc = [k |-> "cell", p |-> PtrV(arr[2], Append(arr[3], off + i + 1)), t |-> t]]

\* Whether e denotes a variable rather than a value.
RECURSIVE IsVariable(_)
IsVariable(e) == CASE e.k \in {"id", "star"} -> TRUE
                   [] e.k = "paren" -> IsVariable(e.x)
                   [] e.k = "sel"   -> IsVariable(e.x) \/ TypeOf(e.x).k = "ptr"
                   [] e.k = "index" -> TypeOf(e.x).k \in {"slice", "ptr"} \/ (TypeOf(e.x).k = "array" /\ IsVariable(e.x))
                   [] OTHER -> FALSE

\* The variable e denotes, or a new one that holds its value.
Loc(st, e) ==
  LET x == Loc(st, e.x)
      v == Eval(st, e.x)
      t == TypeOf(e)
      base == IF TypeOf(e.x).k = "array" THEN x ELSE v
      i == Eval(base, e.i)
      w == Eval(st, e)
      n == New(w, w.val)
  IN CASE st.ctl # Go -> st
       [] st.ctl = Go /\ e.k = "id" ->
            IF isBlankIdent(e) THEN [st EXCEPT !.loc = [k |-> "blank"]]
            ELSE [st EXCEPT !.loc = [k |-> "cell", p |-> PtrV(st.env[e.n], <<>>), t |-> e.t]]
       [] st.ctl = Go /\ e.k = "paren" -> x
       [] st.ctl = Go /\ e.k = "star" ->
            IF v.ctl # Go THEN v ELSE IF v.val = NilV THEN Crash(v)
            ELSE [v EXCEPT !.loc = [k |-> "cell", p |-> v.val, t |-> t]]
       [] st.ctl = Go /\ e.k = "sel" -> IF x.ctl # Go THEN x ELSE Fields(x, x.loc.p, x.loc.t, e.path)
       [] st.ctl = Go /\ e.k = "index" /\ TypeOf(e.x).k = "map" ->
            [i EXCEPT !.loc = [k |-> "elem", m |-> v.val, key |-> i.val, t |-> t]]
       [] st.ctl = Go /\ e.k = "index" /\ TypeOf(e.x).k # "map" ->
            IF i.ctl # Go THEN i
            ELSE ElementOf(i, IF TypeOf(e.x).k = "array" THEN x.loc.p ELSE v.val, i.val[2], t)
       [] OTHER -> IF w.ctl # Go THEN w ELSE [n EXCEPT !.loc = [k |-> "cell", p |-> n.val, t |-> t]]

\* ------------------------------------------------------------------ literals

LitIndex(es, i) ==
  LET keyed == {j \in 1..i : es[j].key # None}
  IN IF keyed = {} THEN i
     ELSE LET j == CHOOSE j \in keyed : \A q \in keyed : q <= j IN es[j].key.v[2] + 1 + (i - j)

Literal(st, e) ==
  LET t  == deref(e.t)
      et(i) == IF t.k = "struct" THEN t.fs[IF e.es[i].key = None THEN i ELSE e.es[i].key.v[2]] ELSE t.e
      to(i) == IF t.k = "struct" THEN IF e.es[i].key = None THEN i ELSE e.es[i].key.v[2] ELSE LitIndex(e.es, i)
      max   == IF e.es = <<>> THEN 0 ELSE CHOOSE n \in {to(i) : i \in DOMAIN e.es} :
                                             \A i \in DOMAIN e.es : to(i) <= n
      zero  == IF t.k = "slice" THEN Zero(Array(max, t.e)) ELSE Zero(t)
      all   == EvalAll(st, [i \in DOMAIN e.es |-> e.es[i].v], [i \in DOMAIN e.es |-> et(i)])
      agg   == FoldLeft(LAMBDA v, i : Put(v, <<to(i)>>, all.vals[i]), zero, [i \in DOMAIN e.es |-> i])
      back  == New(all, agg)
      map   == [Occurs(st, <<"make", "map", <<IntV(Len(e.es))>>>>) EXCEPT !.val = <<"obj", Len(st.out) + 10>>]
      entry(s, x) ==
        LET k == Eval(s, x.key)
            v == Eval(k, x.v)
        IN Store(v, [k |-> "elem", m |-> map.val, key |-> k.val, t |-> t.e], v.val, TypeOf(x.v))
      lit   == CASE t.k # "map" /\ all.ctl # Go -> all
                 [] t.k = "map" -> Yields(FoldLeft(entry, map, e.es), map.val)
                 [] t.k = "slice" /\ all.ctl = Go -> Yields(back, SliceV(back.val, 0, max))
                 [] OTHER -> Yields(all, agg)
  IN IF lit.ctl = Go /\ e.t.k = "ptr" THEN New(lit, lit.val) ELSE lit

\* --------------------------------------------------------------------- calls

formals(f) == CASE f.k = "func" -> f.ps
                [] f.k = "method" -> f.fun.ps
                [] f.k = "funclit" -> [i \in DOMAIN f.ps |-> f.ps[i].t]
callee(f)  == IF f.k = "method" THEN f.fun ELSE f

\* The receiver of x.m(): m takes a value or a pointer.
Receiver(st, f) ==
  LET v == IF IsVariable(f.x) \/ TypeOf(f.x).k # "ptr" THEN Loc(st, f.x) ELSE Eval(st, f.x)
      l == IF IsVariable(f.x) \/ TypeOf(f.x).k # "ptr" THEN v
           ELSE [v EXCEPT !.loc = [k |-> "cell", p |-> v.val, t |-> TypeOf(f.x).e]]
      at == IF l.ctl # Go THEN l ELSE Fields(l, l.loc.p, l.loc.t, f.path)
      \* what the path leads to is the receiver, a pointer to it, or holds it
      c  == Content(at, at.loc.p)
  IN IF at.ctl # Go THEN at
     ELSE IF isInterface(f.recv) THEN Yields(at, c)
     ELSE IF isPointer(f.recv) THEN Yields(at, IF isPointer(at.loc.t) THEN c ELSE at.loc.p)
     ELSE IF ~isPointer(at.loc.t) THEN Yields(at, c)
     ELSE IF c = NilV THEN Crash(at) ELSE Yields(at, Content(at, c))

\* Evaluated arguments: several results of one call are spread, the extra ones
\* of a variadic call are gathered in a new slice.
Arguments(st, e) ==
  LET ps   == formals(e.fun)
      one(s, x) ==
        LET v == IF TypeOf(x).k = "tuple" THEN EvalN(s, x) ELSE Eval(s, x)
            got == IF TypeOf(x).k = "tuple"
                   THEN [i \in DOMAIN TypeOf(x).ts |-> [v |-> v.vals[i], t |-> TypeOf(x).ts[i]]]
                   ELSE <<[v |-> v.val, t |-> TypeOf(x)]>>
        IN IF v.ctl # Go THEN v ELSE [v EXCEPT !.vals = s.vals \o got]
      all  == FoldLeft(one, [st EXCEPT !.vals = <<>>], e.args)
      vs   == all.vals
      spread == callee(e.fun).k = "func" /\ callee(e.fun).variadic /\ ~e.dots
      np   == IF spread THEN Len(ps) - 1 ELSE Len(ps)
      norm == [i \in 1..np |-> Convert(vs[i].v, vs[i].t, ps[i])]
      vt   == ps[Len(ps)].e
      back == New(all, AggV([i \in 1..(Len(vs) - np) |-> Convert(vs[np + i].v, vs[np + i].t, vt)]))
  IN CASE all.ctl # Go -> all
       [] all.ctl = Go /\ ~spread -> [all EXCEPT !.vals = norm]
       [] all.ctl = Go /\ spread /\ Len(vs) = np -> [all EXCEPT !.vals = Append(norm, NilV)]
       [] OTHER -> [back EXCEPT !.vals = Append(norm, SliceV(back.val, 0, Len(vs) - np))]

\* Function operand or receiver, then the arguments: st.val and st.vals.
CallParts(st, e) ==
  LET f == e.fun
      r == IF f.k = "method" THEN Receiver(st, f) ELSE Eval(st, f)
      a == IF f.k = "id" THEN [r EXCEPT !.vals = <<>>] ELSE Arguments(r, e)
  IN IF a.ctl # Go THEN a
     ELSE IF f.k = "method"
     THEN IF isInterface(f.recv) /\ r.val = NilV THEN Crash(a)
          ELSE [a EXCEPT !.val = <<"ext", f.fun.n>>, !.vals = <<r.val>> \o a.vals]
     ELSE Yields(a, r.val)

\* Runs the deferred calls of the function whose body has ended, last first.
RECURSIVE RunDefers(_)
RunDefers(st) ==
  LET d  == Last(st.defers)
      s  == [st EXCEPT !.defers = Front(@), !.ctl = Go, !.pan = IF st.ctl[1] = "panic" THEN <<st.ctl[2]>> ELSE <<>>]
      r  == IF d.g.k = "builtin" THEN Leaves(s, <<"panic", d.args[1]>>) ELSE Invokes(s, d.f, d.g, d.args, TRUE)
  IN CASE st.ctl = Stop \/ st.defers = <<>> -> st
       [] st.ctl # Stop /\ st.defers # <<>> ->
            RunDefers(CASE r.ctl # Go -> [r EXCEPT !.pan = st.pan]
                        [] r.ctl = Go /\ st.ctl[1] = "panic" /\ r.pan = <<>> ->
                             [r EXCEPT !.ctl = <<"return">>, !.pan = st.pan,
                                       !.results = [i \in DOMAIN st.rs |-> Zero(st.rs[i])]]
                        [] OTHER -> [r EXCEPT !.ctl = st.ctl, !.pan = st.pan])

\* Calls the function literal lit in environment env.
CallLit(st, lit, env, args, deferred) ==
  LET in  == [st EXCEPT !.env = env, !.defers = <<>>, !.named = lit.named, !.rs = lit.rs, !.results = <<>>,
                        !.pan = IF deferred THEN @ ELSE <<>>]
      ps  == FoldLeft(LAMBDA s, i : Declare(s, lit.ps[i], args[i]), in, [i \in DOMAIN lit.ps |-> i])
      ns  == FoldLeft(LAMBDA s, id : Declare(s, id, Zero(id.t)), ps, lit.named)
      end == RunDefers(Exec(ns, lit.body, ""))
      res == IF lit.named = <<>> THEN end.results
             ELSE [i \in DOMAIN lit.named |-> end.heap[ns.env[lit.named[i].n]]]
  IN [end EXCEPT !.env = st.env, !.defers = st.defers, !.named = st.named, !.rs = st.rs, !.results = st.results,
                 !.pan = IF deferred THEN @ ELSE st.pan,
                 !.ctl = IF @ \in {<<"return">>, Go} THEN Go ELSE @,
                 !.vals = res, !.val = IF Len(res) = 1 THEN res[1] ELSE TupV(res)]

Invokes(st, f, g, args, deferred) ==
  CASE f = NilV -> Crash(st)
    [] f[1] = "lit" -> CallLit(st, f[2], f[3], args, deferred)
    [] f[1] = "bound" -> Asks(st, <<"call", f[2].n, ShowAll(st, <<f[3]>> \o args)>>, CallAnswers(f[2]))
    [] f[1] = "ext" -> Asks(st, <<"call", g.n, ShowAll(st, args)>>, CallAnswers(g))

\* copy(x, y): as many elements as both have, read before any is written.
Copy(st, e) ==
  LET x == Eval(st, e.args[1])
      y == Eval(x, e.args[2])
      n == IF LenV(x.val) < LenV(y.val) THEN LenV(x.val) ELSE LenV(y.val)
      t == TypeOf(e.args[1]).e
      put(s, i) == LET from == ElementOf(y, y.val, i - 1, t)
                   IN Store(s, ElementOf(s, x.val, i - 1, t).loc, Content(y, from.loc.p), t)
  IN IF y.ctl # Go THEN y ELSE FoldLeft(put, y, [i \in 1..n |-> i])

\* append(x, v1, v2, ...) and append(x, y...)
AppendCall(st, e) ==
  LET t == TypeOf(e.args[1])
      a == EvalAll(st, e.args, [i \in DOMAIN e.args |-> IF i = 1 \/ e.dots THEN t ELSE t.e])
      r == Appended(a.heap, a.vals[1], IF e.dots THEN Elements(a.heap, a.vals[2]) ELSE Tail(a.vals))
  IN IF a.ctl # Go THEN a ELSE [a EXCEPT !.heap = r.heap, !.val = r.val]

BuiltinCall(st, e) ==
  LET x == Eval(st, e.args[1])
      n == IF Len(e.args) > 1 THEN Eval(st, e.args[2]) ELSE Yields(st, IntV(0))
      c == IF Len(e.args) > 2 THEN Eval(n, e.args[3]) ELSE n
      t == TypeOf(e)
      back == New(c, AggV([i \in 1..c.val[2] |-> Zero(t.e)]))
      at == deref(TypeOf(e.args[1]))
  IN CASE e.fun.n = "panic" -> IF x.ctl # Go THEN x
                               ELSE Leaves(x, <<"panic", Convert(x.val, TypeOf(e.args[1]), tEface)>>)
       [] e.fun.n = "recover" -> IF st.pan = <<>> THEN Yields(st, NilV)
                                 ELSE [st EXCEPT !.val = st.pan[1], !.pan = <<>>]
       [] e.fun.n \in {"len", "cap"} -> IF x.ctl # Go THEN x
                                        ELSE Yields(x, IntV(IF at.k = "array" THEN at.n ELSE LenV(x.val)))
       [] e.fun.n = "copy" -> Copy(st, e)
       [] e.fun.n = "append" -> AppendCall(st, e)
       [] e.fun.n = "new" -> New(st, Zero(t.e))
       [] e.fun.n = "make" /\ t.k = "slice" ->
            IF c.ctl # Go THEN c
            ELSE IF n.val[2] > c.val[2] THEN Crash(c) ELSE Yields(back, SliceV(back.val, 0, n.val[2]))
       [] e.fun.n = "make" /\ t.k # "slice" ->
            IF n.ctl # Go THEN n
            ELSE Yields(Occurs(n, <<"make", t.k, <<n.val>>>>), <<"obj", Len(n.out) + 10>>)

EvalCall(st, e) ==
  LET p == CallParts(st, e)
  IN CASE e.fun.k = "type" -> LET x == Eval(st, e.args[1])
                              IN IF x.ctl # Go THEN x ELSE Yields(x, Convert(x.val, TypeOf(e.args[1]), e.fun.t))
       [] e.fun.k = "builtin" -> BuiltinCall(st, e)
       [] OTHER -> IF p.ctl # Go THEN p ELSE Invokes(p, p.val, callee(e.fun), p.vals, FALSE)

\* --------------------------------------------------------------- expressions

Binary(st, e) ==
  LET x == Eval(st, e.x)
      y == Eval(x, e.y)
      tx == TypeOf(e.x)
      ty == TypeOf(e.y)
  IN IF x.ctl # Go THEN x
     ELSE IF e.op \in {"&&", "||"} THEN IF x.val = BoolV(e.op = "||") THEN x ELSE y
     ELSE IF y.ctl # Go THEN y
     ELSE IF e.op \in {"+", "-"} THEN Yields(y, Arith(e.op, x.val, y.val, TypeOf(e)))
     ELSE Yields(y, Compare(e.op, Convert(x.val, tx, ty), Convert(y.val, ty, tx)))

Unary(st, e) ==
  LET x == Eval(st, e.x)
      l == Loc(st, e.x)
  IN CASE e.op = "&" -> IF l.ctl # Go THEN l ELSE Yields(l, l.loc.p)
       [] e.op # "&" /\ x.ctl # Go -> x
       [] e.op = "<-" /\ x.ctl = Go -> Asks(x, <<"recv", <<x.val>>>>, CommaOk(TypeOf(e)))
       [] e.op = "!" /\ x.ctl = Go -> Yields(x, BoolV(~x.val[2]))
       [] e.op = "-" /\ x.ctl = Go -> Yields(x, IntV(-x.val[2]))
       [] OTHER -> x

\* x[lo:hi:max]: operands from left to right.
EvalSlice(st, e) ==
  LET arr == TypeOf(e.x).k = "array"
      x   == IF arr THEN Loc(st, e.x) ELSE Eval(st, e.x)
      v   == IF arr THEN x.loc.p ELSE x.val
      lo  == IF e.lo = None THEN Yields(x, IntV(0)) ELSE Eval(x, e.lo)
      hi  == IF e.hi = None THEN lo ELSE Eval(lo, e.hi)
      max == IF e.max = None THEN hi ELSE Eval(hi, e.max)
      off == IF v[1] = "slice" THEN v[3] ELSE 0
      n   == IF v[1] = "slice" THEN LenV(v) ELSE Len(Content(st, v)[2])
  IN IF max.ctl # Go THEN max
     ELSE IF v = NilV THEN Yields(max, NilV)
     ELSE Yields(max, SliceV(IF v[1] = "slice" THEN v[2] ELSE v, off + lo.val[2],
                             off + (IF e.hi = None THEN n ELSE hi.val[2])))

Eval(st, e) ==
  LET l == Loc(st, e)
      x == Eval(st, e.x)
      i == Eval(x, e.i)
      r == Receiver(st, e)
  IN CASE st.ctl # Go -> st
       [] st.ctl = Go /\ e.k = "const" -> Yields(st, e.v)
       [] st.ctl = Go /\ e.k = "paren" -> x
       [] st.ctl = Go /\ e.k \in {"id", "star", "sel"} -> Load(l, l.loc)
       [] st.ctl = Go /\ e.k = "index" /\ TypeOf(e.x).k \in {"slice", "ptr", "map"} -> Load(l, l.loc)
       [] st.ctl = Go /\ e.k = "index" /\ TypeOf(e.x).k = "array" ->
            IF i.ctl # Go THEN i ELSE Yields(i, x.val[2][i.val[2] + 1])
       [] st.ctl = Go /\ e.k = "bin" -> Binary(st, e)
       [] st.ctl = Go /\ e.k = "un" -> Unary(st, e)
       [] st.ctl = Go /\ e.k = "slicing" -> EvalSlice(st, e)
       [] st.ctl = Go /\ e.k = "assert" ->
            IF x.ctl # Go THEN x ELSE IF Holds(x.val, e.t) THEN Yields(x, Unbox(x.val, e.t)) ELSE Crash(x)
       [] st.ctl = Go /\ e.k = "complit" -> Literal(st, e)
       [] st.ctl = Go /\ e.k = "funclit" -> Yields(st, <<"lit", e, st.env>>)
       [] st.ctl = Go /\ e.k \in {"func", "builtin"} -> Yields(st, <<"ext", e.n>>)
       [] st.ctl = Go /\ e.k = "method" ->
            IF r.ctl # Go THEN r ELSE IF r.val = NilV THEN Crash(r) ELSE Yields(r, <<"bound", e.fun, r.val>>)
       [] st.ctl = Go /\ e.k = "call" -> EvalCall(st, e)

\* --------------------------------------------------------------- assignments

\* Operands on the left, then the right sides, then the stores.
ExecAssign(st, s) ==
  LET lefts == FoldLeft(LAMBDA acc, l :
                          LET d == IF s.def /\ l.n \in s.new THEN Declare(acc.st, l, Zero(l.t)) ELSE acc.st
                              a == Loc(d, l)
                          IN [st |-> a, locs |-> Append(acc.locs, a.loc)],
                        [st |-> st, locs |-> <<>>], s.lhs)
      n    == Len(s.lhs)
      many == Len(s.rhs) < n
      ts   == IF many THEN tupleTypes(s.rhs[1]) ELSE [i \in 1..n |-> TypeOf(s.rhs[i])]
      vs   == IF many THEN EvalN(lefts.st, s.rhs[1]) ELSE EvalAll(lefts.st, s.rhs, ts)
  IN IF lefts.st.ctl # Go THEN lefts.st ELSE IF vs.ctl # Go THEN vs
     ELSE FoldLeft(LAMBDA q, i : Store(q, lefts.locs[i], vs.vals[i], ts[i]), vs, [i \in 1..n |-> i])

ExecVar(st, s) ==
  LET n    == Len(s.names)
      many == EvalN(st, s.vals[1])
      ts   == tupleTypes(s.vals[1])
      one(q, i) == LET v == Eval(q, s.vals[i])
                   IN IF v.ctl # Go THEN v
                      ELSE Declare(v, s.names[i], Convert(v.val, TypeOf(s.vals[i]), s.names[i].t))
  IN IF s.vals = <<>> THEN FoldLeft(LAMBDA q, id : Declare(q, id, Zero(id.t)), st, s.names)
     ELSE IF Len(s.vals) = n THEN FoldLeft(one, st, [i \in 1..n |-> i])
     ELSE IF many.ctl # Go THEN many
     ELSE FoldLeft(LAMBDA q, i : Declare(q, s.names[i], Convert(many.vals[i], ts[i], s.names[i].t)),
                   many, [i \in 1..n |-> i])

\* x op= y, x++ and x--
Update(st, x, op, y) ==
  LET l == Loc(st, x)
      v == Eval(l, y)
      o == Load(v, l.loc)
  IN IF o.ctl # Go THEN o ELSE Store(o, l.loc, Arith(op, o.val, v.val, TypeOf(x)), TypeOf(x))

ExecReturn(st, s) ==
  LET many == Len(s.xs) = 1 /\ Len(st.rs) > 1
      r    == IF many THEN EvalN(st, s.xs[1]) ELSE EvalAll(st, s.xs, st.rs)
      ts   == tupleTypes(s.xs[1])
      vs   == IF many THEN [i \in DOMAIN st.rs |-> Convert(r.vals[i], ts[i], st.rs[i])] ELSE r.vals
      set(q, i) == [q EXCEPT !.heap[q.env[st.named[i].n]] = vs[i]]
  IN CASE r.ctl # Go -> r
       [] r.ctl = Go /\ st.named # <<>> /\ s.xs # <<>> ->
            Leaves(FoldLeft(set, r, [i \in DOMAIN st.named |-> i]), <<"return">>)
       [] OTHER -> [r EXCEPT !.results = vs, !.ctl = <<"return">>]

\* ------------------------------------------------------------ control flow

\* Control that leaves a statement labelled l by break is past it.
Breaks(st, l) == IF st.ctl \in {<<"break", "">>, <<"break", l>>} THEN Leaves(st, Go) ELSE st
Continues(st, l) == st.ctl \in {Go, <<"continue", "">>, <<"continue", l>>}
Again(st) == IF st.loops = MaxLoops THEN Leaves(Occurs(st, <<"diverges">>), Stop)
             ELSE [st EXCEPT !.loops = @ + 1]

RECURSIVE ForLoop(_, _, _)
ForLoop(st, s, l) ==
  LET c == IF s.cond = None THEN Yields(st, BoolV(TRUE)) ELSE Eval(st, s.cond)
      b == Exec(c, s.body, "")
      p == Exec(Leaves(b, Go), s.post, "")
  IN IF c.ctl # Go \/ ~c.val[2] THEN c
     ELSE IF ~Continues(b, l) THEN Breaks(b, l)
     ELSE IF p.ctl # Go THEN p ELSE ForLoop(Again(p), s, l)

\* One round of a range loop with key k and value v (of types kt and vt).
RangeBody(st, s, l, k, v, vt) ==
  LET kl == IF s.key = None THEN st ELSE Loc(st, s.key)
      vl == IF s.val = None THEN kl ELSE Loc(kl, s.val)
      ks == IF s.key = None THEN vl ELSE Store(vl, kl.loc, k.v, k.t)
      vs == IF s.val = None THEN ks ELSE Store(ks, vl.loc, v, vt)
  IN Exec(vs, s.body, "")

\* A slice, array or array pointer: n rounds, fixed at the start.
RECURSIVE RangeIndex(_, _, _, _, _, _)
RangeIndex(st, s, l, x, i, n) ==
  LET t == deref(TypeOf(s.x)).e
      e == ElementOf(st, x, i, t)
      v == IF s.val = None \/ isBlankIdent(s.val) THEN Yields(st, NilV)
           ELSE IF x[1] = "agg" THEN Yields(st, x[2][i + 1]) ELSE Load(e, e.loc)
      b == RangeBody(v, s, l, [v |-> IntV(i), t |-> tInt], v.val, t)
  IN IF st.ctl # Go \/ i = n THEN st
     ELSE IF v.ctl # Go THEN v
     ELSE IF ~Continues(b, l) THEN Breaks(b, l)
     ELSE RangeIndex(Again(Leaves(b, Go)), s, l, x, i + 1, n)

\* A channel or a map: the environment says when it ends.
RECURSIVE RangeAsk(_, _, _, _)
RangeAsk(st, s, l, x) ==
  LET t  == TypeOf(s.x).e
      ch == TypeOf(s.x).k = "chan"
      a  == IF ch THEN Asks(st, <<"recv", <<x>>>>, CommaOk(t)) ELSE Asks(st, <<"next", x>>, NextAnswers(t))
      ok == IF ch THEN a.vals[2][2] ELSE a.vals[1][2]
      b  == IF ch THEN RangeBody(a, s, l, [v |-> a.vals[1], t |-> t], NilV, t)
            ELSE RangeBody(a, s, l, [v |-> a.vals[2], t |-> tInt], a.vals[3], t)
  IN IF st.ctl # Go THEN st
     ELSE IF a.ctl # Go \/ ~ok THEN a
     ELSE IF ~Continues(b, l) THEN Breaks(b, l)
     ELSE RangeAsk(Again(Leaves(b, Go)), s, l, x)

ExecRange(st, s, l) ==
  LET d == FoldLeft(LAMBDA q, id : IF s.def /\ id # None THEN Declare(q, id, Zero(id.t)) ELSE q, st, <<s.key, s.val>>)
      x == Eval(d, s.x)
      t == TypeOf(s.x)
      n == CASE deref(t).k = "array" -> deref(t).n
             [] t.k = "slice" -> LenV(x.val)
  IN IF x.ctl # Go THEN x
     ELSE IF t.k \in {"chan", "map"} THEN RangeAsk(x, s, l, x.val)
     ELSE RangeIndex(x, s, l, x.val, 0, n)

\* The clauses from k on: a clause that falls through goes on with the next.
RECURSIVE Clauses(_, _, _)
Clauses(st, cs, k) ==
  LET b == ExecList(st, cs[k].body, 1)
  IN IF b.ctl = <<"fallthrough", "">> THEN Clauses(Leaves(b, Go), cs, k + 1) ELSE b

\* The first clause with a matching expression; st.hit is its number.
RECURSIVE Match(_, _, _, _, _)
Match(st, s, tag, k, j) ==
  LET e == s.cs[k].list[j]
      v == Eval(st, e)
      tt == IF s.tag = None THEN tBool ELSE TypeOf(s.tag)
      eq == Convert(tag, tt, TypeOf(e)) = Convert(v.val, TypeOf(e), tt)
  IN CASE k > Len(s.cs) -> [st |-> st, k |-> 0]
       [] k <= Len(s.cs) /\ j > Len(s.cs[k].list) -> Match(st, s, tag, k + 1, 1)
       [] OTHER -> IF v.ctl # Go THEN [st |-> v, k |-> 0]
                   ELSE IF eq THEN [st |-> v, k |-> k] ELSE Match(v, s, tag, k, j + 1)
DefaultOf(cs) == IF \E k \in DOMAIN cs : cs[k].dflt THEN CHOOSE k \in DOMAIN cs : cs[k].dflt ELSE 0

ExecSwitch(st, s, l) ==
  LET i == Exec(st, s.init, "")
      t == IF s.tag = None THEN Yields(i, BoolV(TRUE)) ELSE Eval(i, s.tag)
      m == Match(t, s, t.val, 1, 1)
      k == IF m.k # 0 THEN m.k ELSE DefaultOf(s.cs)
  IN IF t.ctl # Go THEN t ELSE IF m.st.ctl # Go THEN m.st
     ELSE IF k = 0 THEN m.st ELSE Breaks(Clauses(m.st, s.cs, k), l)

ExecTypeSwitch(st, s, l) ==
  LET x    == Eval(Exec(st, s.init, ""), s.x)
      is(t) == IF t = tUntypedNil THEN x.val = NilV ELSE Holds(x.val, t)
      hits == {k \in DOMAIN s.cs : \E j \in DOMAIN s.cs[k].list : is(s.cs[k].list[j])}
      k    == IF hits = {} THEN DefaultOf(s.cs) ELSE CHOOSE k \in hits : \A h \in hits : k <= h
      c    == s.cs[k]
      v    == IF Len(c.list) = 1 /\ c.list[1] # tUntypedNil THEN Unbox(x.val, c.list[1]) ELSE x.val
  IN IF x.ctl # Go THEN x ELSE IF k = 0 THEN x
     ELSE Breaks(ExecList(IF c.obj = None THEN x ELSE Declare(x, c.obj, v), c.body, 1), l)

\* Channels and values to send first, then one case proceeds.  A select with a
\* single case is that communication.
ExecSelect(st, s, l) ==
  LET cs   == SelectSeq(s.cs, LAMBDA c : c.comm # None)
      dflt == SelectSeq(s.cs, LAMBDA c : c.comm = None)
      send(c) == c.comm.k = "send"
      recv(c) == unparen(IF c.comm.k = "expr" THEN c.comm.x ELSE c.comm.rhs[1])
      one(q, c) ==
        LET ch == Eval(q, IF send(c) THEN c.comm.c ELSE recv(c).x)
            v  == IF send(c) THEN Eval(ch, c.comm.x) ELSE Yields(ch, NilV)
        IN IF v.ctl # Go THEN v ELSE [v EXCEPT !.vals = q.vals \o <<ch.val, v.val>>]
      all  == FoldLeft(one, [st EXCEPT !.vals = <<>>], cs)
      dirs == [i \in DOMAIN cs |-> IF send(cs[i]) THEN "send" ELSE "recv"]
      elems == [i \in DOMAIN cs |-> TypeOf(IF send(cs[i]) THEN cs[i].comm.c ELSE recv(cs[i]).x).e]
      a    == Asks(all, <<"select", dirs, ShowAll(all, all.vals), dflt = <<>>>>, SelectAnswers(dirs, elems, dflt = <<>>))
      k    == a.vals[1][2] + 1
      c    == cs[k]
      to(q, i, v, t) ==
        LET d == IF c.comm.def THEN Declare(q, c.comm.lhs[i], Zero(t)) ELSE q
            p == Loc(d, c.comm.lhs[i])
        IN Store(p, p.loc, v, t)
      got  == IF c.comm.k # "assign" THEN a
              ELSE IF Len(c.comm.lhs) = 1 THEN to(a, 1, a.vals[3], elems[k])
              ELSE to(to(a, 1, a.vals[3], elems[k]), 2, a.vals[2], tBool)
      single == Exec(st, s.cs[1].comm, "")
  IN IF Len(s.cs) = 1 /\ cs # <<>>
     THEN IF single.ctl # Go THEN single ELSE Breaks(ExecList(single, s.cs[1].body, 1), l)
     ELSE IF all.ctl # Go THEN all ELSE IF a.ctl # Go THEN a
     ELSE Breaks(IF k = 0 THEN ExecList(a, dflt[1].body, 1) ELSE ExecList(got, c.body, 1), l)

\* A list from its i-th statement on; goto finds its label in the list or
\* leaves it.
RECURSIVE Labels(_)
Labels(s) == IF s.k = "label" THEN {s.l} \cup Labels(s.s) ELSE {}
ExecList(st, list, i) ==
  LET s    == Exec(st, list[i], "")
      here == {j \in DOMAIN list : s.ctl[1] = "goto" /\ s.ctl[2] \in Labels(list[j])}
  IN IF st.ctl # Go \/ i > Len(list) THEN st
     ELSE IF here # {} THEN ExecList(Again(Leaves(s, Go)), list, CHOOSE j \in here : TRUE)
     ELSE ExecList(s, list, i + 1)

ExecIf(st, s) ==
  LET c == Eval(Exec(st, s.init, ""), s.cond)
  IN IF c.ctl # Go THEN c ELSE IF c.val[2] THEN Exec(c, s.then, "") ELSE Exec(c, s.els, "")

ExecSend(st, s) ==
  LET c == Eval(st, s.c)
      x == Eval(c, s.x)
  IN IF x.ctl # Go THEN x
     ELSE Occurs(x, <<"send", ShowAll(x, <<c.val, Convert(x.val, TypeOf(s.x), TypeOf(s.c).e)>>)>>)

ExecDefer(st, s) ==
  LET p == IF s.c.fun.k = "builtin" THEN EvalAll(st, s.c.args, <<tEface>>) ELSE CallParts(st, s.c)
  IN IF p.ctl # Go THEN p
     ELSE [p EXCEPT !.defers = Append(@, [f |-> p.val, g |-> callee(s.c.fun), args |-> p.vals])]

ExecGo(st, s) ==
  LET p == CallParts(st, s.c)
  IN IF p.ctl # Go THEN p ELSE Occurs(p, <<"go", s.c.fun.n, ShowAll(p, p.vals)>>)

Exec(st, s, l) ==
  LET f == Exec(st, s.init, "")
  IN CASE st.ctl # Go \/ s.k = "none" -> st
       [] st.ctl = Go /\ s.k # "none" ->
     CASE s.k = "expr"     -> Eval(st, s.x)
       [] s.k = "send"     -> ExecSend(st, s)
       [] s.k = "incdec"   -> Update(st, s.x, s.op, Const(IntV(1), TypeOf(s.x)))
       [] s.k = "opassign" -> Update(st, s.x, s.op, s.y)
       [] s.k = "assign"   -> ExecAssign(st, s)
       [] s.k = "var"      -> ExecVar(st, s)
       [] s.k = "go"       -> ExecGo(st, s)
       [] s.k = "defer"    -> ExecDefer(st, s)
       [] s.k = "return"   -> ExecReturn(st, s)
       [] s.k = "branch"   -> Leaves(st, <<s.tok, s.l>>)
       [] s.k = "block"    -> ExecList(st, s.list, 1)
       [] s.k = "if"       -> ExecIf(st, s)
       [] s.k = "switch"   -> ExecSwitch(st, s, l)
       [] s.k = "typeswitch" -> ExecTypeSwitch(st, s, l)
       [] s.k = "select"   -> ExecSelect(st, s, l)
       [] s.k = "for"      -> IF f.ctl # Go THEN f ELSE ForLoop(f, s, l)
       [] s.k = "range"    -> ExecRange(st, s, l)
       [] s.k = "label"    -> Exec(st, s.s, s.l)

\* --------------------------------------------------------- whole programs

\* What is seen of a call of the function literal e.
Behaviour(e, in) ==
  LET end == CallLit(Init0(<<>>, <<>>, in), e, <<>>, <<>>, FALSE)
  IN IF end.ctl = Stop THEN end.out
     ELSE IF end.ctl[1] = "panic" THEN Append(end.out, <<"panic", Show(end.ctl[2], end.heap)>>)
     ELSE Append(end.out, <<"return", ShowAll(end, end.vals)>>)

\* What is seen of initializing package p, twice: the second time nothing is done.
InitBehaviour(p, in) ==
  LET call(st, n) == IF st.ctl # Go THEN st ELSE Asks(st, <<"call", n, <<>>>>, CallAnswers(Func(n, <<>>, <<>>)))
      var(st, v)  == ExecAssign(st, Assign(v.lhs, <<v.rhs>>))
      decl(st, d) == IF d.init THEN call(st, d.n) ELSE st
      ids == UNION {{p.vars[i].lhs[j] : j \in DOMAIN p.vars[i].lhs} : i \in DOMAIN p.vars}
      gs  == SetToSeq({x \in ids : ~isBlankIdent(x)})
      st0 == FoldLeft(LAMBDA q, x : Declare(q, x, Zero(x.t)), Init0(<<>>, <<>>, in), gs)
      vars == FoldLeft(LAMBDA q, v : IF q.ctl # Go THEN q ELSE var(q, v), FoldLeft(call, st0, p.imports), p.vars)
      end == FoldLeft(decl, vars, p.decls)
  IN IF end.ctl = Stop THEN end.out
     ELSE IF end.ctl[1] = "panic" THEN Append(end.out, <<"panic", Show(end.ctl[2], end.heap)>>)
     ELSE Append(end.out, <<"return", <<>>>>)
=============================================================================
