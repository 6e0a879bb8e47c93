------------------------------ MODULE GoSyntax ------------------------------
(***************************************************************************)
(* The part of Go that the SSA builder translates: types, syntax trees and *)
(* the values of running programs.  go/ast, go/types and the Go language   *)
(* are outside the repository; these are the trees, types and values as    *)
(* src/ssa/builder.go takes them apart.  Identifiers are resolved already  *)
(* (go/types.Info): a name stands for one object and carries its type.     *)
(***************************************************************************)
EXTENDS Integers, Sequences, SequencesExt, FiniteSets

\* ------------------------------------------------------------------ types

tInt       == [k |-> "int"]
tByte     == [k |-> "uint8"]
tBool      == [k |-> "bool"]
tUntypedNil   == [k |-> "untyped nil"]
tMyInt     == [k |-> "myint"]            \* type MyInt int
tEface       == [k |-> "any"]              \* interface{}
tError       == [k |-> "error"]            \* another interface type
tFunc     == [k |-> "func"]
tRangeIter     == [k |-> "iter"]
Ptr(t)    == [k |-> "ptr", e |-> t]
Struct(fs) == [k |-> "struct", fs |-> fs]
NamedStruct(n, fs) == [k |-> "struct", n |-> n, fs |-> fs]     \* type n struct {fs}
Array(n, t) == [k |-> "array", n |-> n, e |-> t]
Slice(t)  == [k |-> "slice", e |-> t]
Map(t)    == [k |-> "map", e |-> t]     \* keys are ints
Chan(t)   == [k |-> "chan", e |-> t]
Tuple(ts) == [k |-> "tuple", ts |-> ts]

deref(t)       == IF t.k = "ptr" THEN t.e ELSE t
isNamedStruct(t) == t.k = "struct" /\ "n" \in DOMAIN t
Underlying(t)  == CASE t = tMyInt -> tInt
                    [] isNamedStruct(t) -> Struct(t.fs)
                    [] OTHER -> t
isInterface(t) == t \in {tEface, tError}
isPointer(t)   == t.k = "ptr"
isBasic(t)     == Underlying(t).k \in {"int", "uint8", "bool", "untyped nil"}

\* ------------------------------------------------------------------- syntax

None == [k |-> "none"]                  \* an absent expression or statement

Const(v, t)      == [k |-> "const", v |-> v, t |-> t]
Id(n, t)         == [k |-> "id", n |-> n, t |-> t, g |-> FALSE]
Global(n, t)     == [k |-> "id", n |-> n, t |-> t, g |-> TRUE]
Blank            == [k |-> "id", n |-> "_", t |-> tUntypedNil, g |-> FALSE]
Paren(x)         == [k |-> "paren", x |-> x]
Bin(op, x, y)    == [k |-> "bin", op |-> op, x |-> x, y |-> y]
Un(op, x)        == [k |-> "un", op |-> op, x |-> x]
Star(x)          == [k |-> "star", x |-> x]
Sel(x, path)     == [k |-> "sel", x |-> x, path |-> path]
Index(x, i)      == [k |-> "index", x |-> x, i |-> i]
SliceX(x, lo, hi, max) == [k |-> "slicing", x |-> x, lo |-> lo, hi |-> hi, max |-> max]
TypeAssert(x, t) == [k |-> "assert", x |-> x, t |-> t]
Elem(key, v)     == [key |-> key, v |-> v]
CompLit(t, es)   == [k |-> "complit", t |-> t, es |-> es]
FuncLit(ps, named, rs, body) ==
  [k |-> "funclit", ps |-> ps, named |-> named, rs |-> rs, body |-> body]
\* A declared function of the environment.  variadic: the last parameter takes
\* the remaining arguments; panics: a call may panic instead of returning.
Func(n, ps, rs)  == [k |-> "func", n |-> n, ps |-> ps, rs |-> rs, variadic |-> FALSE, panics |-> FALSE]
Builtin(n)       == [k |-> "builtin", n |-> n]
TypeName(t)      == [k |-> "type", t |-> t]
\* x.m(...): recv is the type m is declared on, path the embedded fields crossed.
Method(x, path, recv, fun) == [k |-> "method", x |-> x, path |-> path, recv |-> recv, fun |-> fun]
Call(fun, args)  == [k |-> "call", fun |-> fun, args |-> args, dots |-> FALSE]

ExprStmt(x)      == [k |-> "expr", x |-> x]
Send(c, x)       == [k |-> "send", c |-> c, x |-> x]
IncDec(x, op)    == [k |-> "incdec", x |-> x, op |-> op]
\* new: the names a := statement declares (go/types.Info.Defs); it may reuse others.
Assign(l, r)     == [k |-> "assign", lhs |-> l, rhs |-> r, def |-> FALSE, new |-> {}]
Define(l, r)     == [k |-> "assign", lhs |-> l, rhs |-> r, def |-> TRUE,
                     new |-> {l[i].n : i \in DOMAIN l} \ {"_"}]
OpAssign(x, op, y) == [k |-> "opassign", x |-> x, op |-> op, y |-> y]
VarDecl(ns, vs)  == [k |-> "var", names |-> ns, vals |-> vs]
GoStmt(c)        == [k |-> "go", c |-> c]
Defer(c)         == [k |-> "defer", c |-> c]
Return(xs)       == [k |-> "return", xs |-> xs]
Branch(tok, l)   == [k |-> "branch", tok |-> tok, l |-> l]
Block(list)      == [k |-> "block", list |-> list]
If(init, c, t, e) == [k |-> "if", init |-> init, cond |-> c, then |-> t, els |-> e]
Clause(list, dflt, obj, body) == [list |-> list, dflt |-> dflt, obj |-> obj, body |-> body]
Switch(init, tag, cs)  == [k |-> "switch", init |-> init, tag |-> tag, cs |-> cs]
TypeSwitch(init, x, cs) == [k |-> "typeswitch", init |-> init, x |-> x, cs |-> cs]
Comm(comm, body) == [comm |-> comm, body |-> body]
Select(cs)       == [k |-> "select", cs |-> cs]
For(init, c, post, body) == [k |-> "for", init |-> init, cond |-> c, post |-> post, body |-> body]
RangeStmt(key, val, def, x, body) ==
  [k |-> "range", key |-> key, val |-> val, def |-> def, x |-> x, body |-> body]
Label(l, s)      == [k |-> "label", l |-> l, s |-> s]

isBlankIdent(e)  == e.k = "id" /\ e.n = "_"

RECURSIVE unparen(_)
unparen(e) == IF e.k = "paren" THEN unparen(e.x) ELSE e

\* The type of the field that a path of field indices leads to; an embedded
\* pointer is crossed implicitly.
RECURSIVE fieldType(_, _)
fieldType(t, path) ==
  IF path = <<>> THEN t ELSE fieldType(deref(t).fs[Head(path)], Tail(path))

resultType(rs) == IF Len(rs) = 1 THEN rs[1] ELSE Tuple(rs)

\* go/types.Info.TypeOf
RECURSIVE TypeOf(_)
TypeOf(e) ==
  CASE e.k \in {"const", "id", "assert", "complit", "type"} -> e.t
    [] e.k = "paren"   -> TypeOf(e.x)
    [] e.k = "bin"     -> IF e.op \in {"+", "-"} THEN TypeOf(e.x) ELSE tBool
    [] e.k = "un"      -> CASE e.op = "!" -> tBool
                            [] e.op = "&" -> Ptr(TypeOf(e.x))
                            [] e.op = "<-" -> TypeOf(e.x).e
                            [] OTHER -> TypeOf(e.x)
    [] e.k = "star"    -> TypeOf(e.x).e
    [] e.k = "sel"     -> fieldType(TypeOf(e.x), e.path)
    [] e.k = "index"   -> deref(TypeOf(e.x)).e
    [] e.k = "slicing"   -> IF deref(TypeOf(e.x)).k = "array" THEN Slice(deref(TypeOf(e.x)).e) ELSE TypeOf(e.x)
    [] e.k \in {"funclit", "func", "method"} -> tFunc
    [] e.k = "call"    ->
         CASE e.fun.k = "type" -> e.fun.t
           [] e.fun.k = "method" -> resultType(e.fun.fun.rs)
           [] e.fun.k = "builtin" -> CASE e.fun.n \in {"len", "cap"} -> tInt
                                       [] e.fun.n = "new" -> Ptr(e.args[1].t)
                                       [] e.fun.n = "make" -> e.args[1].t
                                       [] e.fun.n = "recover" -> tEface
                                       [] e.fun.n = "append" -> TypeOf(e.args[1])
                                       [] OTHER -> Tuple(<<>>)
           [] e.fun.k = "id" -> Tuple(<<>>)        \* only func() variables
           [] OTHER -> resultType(e.fun.rs)

\* ------------------------------------------------------------------- values
\* Every value is a tuple that starts with its kind.

IntV(n)    == <<"int", n>>
BoolV(b)   == <<"bool", b>>
NilV       == <<"nil">>
AggV(s)    == <<"agg", s>>              \* struct or array
PtrV(c, path) == <<"ptr", c, path>>     \* cell of the store and a path inside it
SliceV(p, lo, hi) == <<"slice", p, lo, hi>>
BoxV(t, v) == <<"box", t.k, v>>         \* interface value: dynamic type, value
TupV(s)    == <<"tup", s>>

RECURSIVE Zero(_)
Zero(t) == CASE Underlying(t) \in {tInt, tByte} -> IntV(0)
             [] t = tBool -> BoolV(FALSE)
             [] t.k = "struct" -> AggV([i \in DOMAIN t.fs |-> Zero(t.fs[i])])
             [] t.k = "array"  -> AggV([i \in 1..t.n |-> Zero(t.e)])
             [] OTHER -> NilV

\* Reading and writing inside an aggregate.
RECURSIVE Get(_, _)
Get(v, path) == IF path = <<>> THEN v ELSE Get(v[2][Head(path)], Tail(path))

RECURSIVE Put(_, _, _)
Put(v, path, w) ==
  IF path = <<>> THEN w
  ELSE AggV([v[2] EXCEPT ![Head(path)] = Put(@, Tail(path), w)])

Arith(op, x, y, t) ==
  LET n == IF op = "+" THEN x[2] + y[2] ELSE x[2] - y[2]
  IN IntV(IF t = tByte THEN n % 256 ELSE n)

Compare(op, x, y) ==
  BoolV(CASE op = "==" -> x = y
          [] op = "!=" -> x # y
          [] op = "<"  -> x[2] < y[2]
          [] op = "<=" -> x[2] <= y[2]
          [] op = ">"  -> x[2] > y[2]
          [] op = ">=" -> x[2] >= y[2])

\* Conversion of a value of type from to type to.
Convert(v, from, to) ==
  CASE isInterface(to) /\ ~isInterface(from) /\ from # tUntypedNil -> BoxV(from, v)
    [] to = tByte /\ from # tByte -> IntV(v[2] % 256)
    [] OTHER -> v

\* Whether an interface value holds type t.
Holds(v, t) == v # NilV /\ (isInterface(t) \/ v[2] = t.k)
Unbox(v, t) == IF isInterface(t) THEN v ELSE v[3]

\* What an observer sees of a value: pointers and slices by their contents.
RECURSIVE Show(_, _)
Show(v, heap) ==
  CASE v[1] = "ptr"   -> <<"ptr", Show(Get(heap[v[2]], v[3]), heap)>>
    [] v[1] = "slice" -> <<"slice", [i \in 1..(v[4] - v[3]) |->
                            Show(Get(heap[v[2][2]], v[2][3])[2][v[3] + i], heap)]>>
    [] v[1] = "agg"   -> <<"agg", [i \in DOMAIN v[2] |-> Show(v[2][i], heap)]>>
    [] v[1] = "box"   -> <<"box", v[2], Show(v[3], heap)>>
    [] v[1] \in {"fun", "lit"} -> <<"fun">>
    [] OTHER -> v

\* -------------------------------------------------------------- environment
\* What the functions, channels and maps outside the program answer: a value
\* for each result, or a panic.

Answers(t) ==
  CASE t = tBool -> {BoolV(TRUE), BoolV(FALSE)}
    [] Underlying(t) = tInt -> {IntV(0), IntV(1)}
    [] t = tByte -> {IntV(0)}
    [] isInterface(t) -> {NilV, BoxV(tInt, IntV(0)), BoxV(tMyInt, IntV(0))}
    [] OTHER -> {<<"obj", 1>>}

Ok(s)   == <<"ok", s>>
Panics  == <<"panics">>
RuntimeError == <<"runtime error">>

CallAnswers(f) ==
  {Ok(r) : r \in {q \in [DOMAIN f.rs -> UNION {Answers(f.rs[i]) : i \in DOMAIN f.rs}] :
                    \A i \in DOMAIN f.rs : q[i] \in Answers(f.rs[i])}}
    \cup (IF f.panics THEN {Panics} ELSE {})
\* A received or looked-up value and whether there is one.
CommaOk(t)     == {Ok(<<v, BoolV(TRUE)>>) : v \in Answers(t)} \cup {Ok(<<Zero(t), BoolV(FALSE)>>)}
NextAnswers(t) == {Ok(<<BoolV(FALSE), IntV(0), Zero(t)>>)} \cup {Ok(<<BoolV(TRUE), IntV(1), v>>) : v \in Answers(t)}
\* The case that proceeds, -1 for default; a receive gives a value or a zero.
SelectAnswers(dirs, elems, blocking) ==
  UNION {IF dirs[i] = "recv" THEN {Ok(<<IntV(i - 1)>> \o a[2]) : a \in CommaOk(elems[i])}
         ELSE {Ok(<<IntV(i - 1), BoolV(FALSE), BoolV(FALSE)>>)} : i \in DOMAIN dirs}
    \cup (IF blocking THEN {} ELSE {Ok(<<IntV(-1), BoolV(FALSE), BoolV(FALSE)>>)})

\* len of a slice value; a nil slice is empty.
LenV(v) == IF v = NilV THEN 0 ELSE v[4] - v[3]

\* The elements of a slice value.
Elements(heap, x) == [i \in 1..LenV(x) |-> Get(heap[x[2][2]], x[2][3])[2][x[3] + i]]

\* The slice x with the elements vs appended, and the store afterwards.  They go
\* into the array of x if it has room behind x, or else into a new array, which
\* gets no room to spare (how much there is Go leaves open).
Appended(heap, x, vs) ==
  LET array == Get(heap[x[2][2]], x[2][3])[2]
      fits  == x # NilV /\ x[4] + Len(vs) <= Len(array)
      grown == [i \in DOMAIN array |-> IF i - x[4] \in DOMAIN vs THEN vs[i - x[4]] ELSE array[i]]
      all   == Elements(heap, x) \o vs
  IN CASE vs = <<>> -> [heap |-> heap, val |-> x]
       [] vs # <<>> /\ fits -> [heap |-> [heap EXCEPT ![x[2][2]] = Put(@, x[2][3], AggV(grown))],
                               val |-> SliceV(x[2], x[3], x[4] + Len(vs))]
       [] OTHER -> [heap |-> Append(heap, AggV(all)), val |-> SliceV(PtrV(Len(heap) + 1, <<>>), 0, Len(all))]
=============================================================================
