------------------------------ MODULE MCBuilder ------------------------------
(***************************************************************************)
(* The programs that BuilderRun builds and runs.                           *)
(***************************************************************************)
EXTENDS BuilderRun, Builder, GoSemantics

MCTranslation(p) ==
  LET built == IF isPackage(p) THEN BuildPackage(p) ELSE BuildFunction(p) IN built
MCMeaning(p, answers) ==
  LET seen == IF isPackage(p) THEN InitBehaviour(p, answers) ELSE Behaviour(p, answers) IN seen

N(n)   == Const(IntV(n), tInt)
True   == Const(BoolV(TRUE), tBool)
c      == Call(Func("c", <<>>, <<tBool>>), <<>>)
i      == Call(Func("i", <<>>, <<tInt>>), <<>>)
f(x)   == GoStmt(Call(Func("f", <<tInt>>, <<>>), <<x>>))      \* an event, no answer
Maybe(s) == If(None, c, Block(<<s>>), None)
Int2   == CompLit(Slice(tInt), <<Elem(None, N(1)), Elem(None, N(2))>>)
Main(body) == FuncLit(<<>>, <<>>, <<>>, Block(body))
Case(ns, body) == Clause(ns, FALSE, None, body)
Default(body)  == Clause(<<>>, TRUE, None, body)
mkChan == Call(Builtin("make"), <<TypeName(Chan(tInt))>>)

\* A statement of each kind around body.
Loops    == {"for", "loop", "slice", "chan"}
Breakers == Loops \cup {"switch", "default first", "select", "typeswitch"}
Around(kind, body) ==
  CASE kind = "for"    -> For(None, c, f(N(9)), Block(body))
    [] kind = "loop"   -> For(None, None, None, Block(Append(body, Maybe(Branch("break", "")))))
    [] kind = "slice"  -> RangeStmt(None, None, FALSE, Int2, Block(body))
    [] kind = "chan"   -> RangeStmt(Id("k", tInt), None, TRUE, mkChan, Block(<<f(Id("k", tInt))>> \o body))
    [] kind = "switch" -> Switch(None, i, <<Case(<<N(1)>>, body), Case(<<N(2), N(0)>>, <<f(N(8))>>)>>)
    [] kind = "default first" -> Switch(None, i, <<Default(body), Case(<<N(1), i>>, <<f(N(8))>>)>>)
    [] kind = "select" -> Select(<<Comm(ExprStmt(Un("<-", mkChan)), body), Comm(None, <<f(N(8))>>)>>)
    [] kind = "typeswitch" ->
         TypeSwitch(None, Call(Func("e", <<>>, <<tEface>>), <<>>),
                    <<Clause(<<tInt, tBool>>, FALSE, None, body), Clause(<<>>, TRUE, None, <<f(N(8))>>)>>)

Branches(outer, inner) ==
  {Branch("break", ""), Branch("break", "L"), Branch("goto", "M"), Return(<<>>), f(N(7))}
    \cup (IF outer \in Loops THEN {Branch("continue", "L")} ELSE {})
    \cup (IF {outer, inner} \cap Loops # {} THEN {Branch("continue", "")} ELSE {})
Nest(o, n) ==
  {Main(<<Label("L", Around(o, <<Around(n, <<f(N(1)), Maybe(b), f(N(2))>>), f(N(3))>>)),
          f(N(4)), Label("M", f(N(5)))>>) : b \in Branches(o, n)}
AllNested == UNION {Nest(o, n) : o \in Breakers, n \in Breakers}

\* ------------------------------------------------- values and assignments

V(n)   == Id(n, tInt)
S      == Struct(<<tInt, tInt>>)
see(x) == GoStmt(Call(Func("see", <<TypeOf(x)>>, <<>>), <<x>>))
Plain(x, y) == CompLit(S, <<Elem(None, x), Elem(None, y)>>)
Field(x, n) == Sel(x, <<n>>)
vS     == Id("s", S)
vP     == Id("p", Ptr(S))
Arr2   == Array(2, tInt)
vA     == Id("a", Arr2)
ArrLit(x, y) == CompLit(Arr2, <<Elem(None, x), Elem(None, y)>>)
Set(x, y)   == Assign(<<x>>, <<y>>)
Def(x, y)   == Define(<<x>>, <<y>>)
two    == Call(Func("two", <<>>, <<tInt, tInt>>), <<>>)

Literals ==
  {Main(<<Def(vS, Plain(N(1), N(2))), x, see(vS)>>) : x \in
     {Set(vS, Plain(Field(vS, 2), Field(vS, 1))),                    \* s = S{s.b, s.a}
      Set(vS, CompLit(S, <<Elem(N(2), Field(vS, 1))>>)),                \* s = S{b: s.a}
      Set(vS, CompLit(S, <<>>)),
      Assign(<<vS, Field(vS, 1)>>, <<Plain(N(3), Field(vS, 1)), Field(vS, 2)>>),
      Block(<<Def(vP, Un("&", vS)), Set(Field(vP, 1), N(5)), Set(Star(vP), Plain(Field(vP, 2), Field(vS, 1)))>>),
      Block(<<Def(vP, Un("&", Plain(i, N(6)))), Set(vS, Star(vP)), Set(Field(vP, 1), N(8))>>),
      Block(<<Def(Id("t", Struct(<<S, Ptr(S)>>)), CompLit(Struct(<<S, Ptr(S)>>),
                 <<Elem(N(1), Plain(N(4), i)), Elem(N(2), CompLit(Ptr(S), <<Elem(N(1), i)>>))>>)),
              Set(Field(Sel(Id("t", Struct(<<S, Ptr(S)>>)), <<2>>), 2), N(7)),
              Set(vS, Plain(Sel(Id("t", Struct(<<S, Ptr(S)>>)), <<1, 2>>), Sel(Id("t", Struct(<<S, Ptr(S)>>)), <<2, 2>>)))>>)}}
  \cup
  {Main(<<Def(vA, ArrLit(N(1), N(2))), Def(V("k"), N(0)), x, see(vA), see(V("k"))>>) : x \in
     {Set(vA, CompLit(Arr2, <<Elem(N(1), Index(vA, N(0)))>>)),
      Set(vA, ArrLit(Index(vA, N(1)), Index(vA, V("k")))),
      Assign(<<V("k"), Index(vA, V("k"))>>, <<N(1), N(7)>>),          \* the index is read first
      Assign(<<Index(vA, N(0)), Index(vA, N(1))>>, <<Index(vA, N(1)), Index(vA, N(0))>>),
      Assign(<<Index(vA, i), V("k")>>, <<two>>),
      Assign(<<Blank, V("k")>>, <<i, Index(vA, i)>>),
      OpAssign(Index(vA, i), "+", i),
      IncDec(Index(vA, i), "-"),
      RangeStmt(V("k"), None, FALSE, vA, Block(<<f(V("k"))>>)),
      Block(<<VarDecl(<<V("v")>>, <<>>),
              RangeStmt(V("k"), V("v"), FALSE, vA, Block(<<Set(Index(vA, N(1)), N(9)), f(V("v"))>>))>>),
      RangeStmt(V("j"), V("v"), TRUE, Un("&", vA), Block(<<Set(Index(vA, N(1)), N(9)), f(V("v"))>>)),
      Block(<<Def(Id("q", Slice(tInt)), SliceX(vA, N(1), None, None)), Set(Index(Id("q", Slice(tInt)), N(0)), i),
              RangeStmt(Blank, V("v"), TRUE, Id("q", Slice(tInt)), Block(<<f(V("v"))>>))>>)}}

\* --------------------------------- closures, deferred calls and recovery

vF       == Id("fv", tFunc)
Thunk(body) == FuncLit(<<>>, <<>>, <<>>, Block(body))
CallFv   == ExprStmt(Call(vF, <<>>))
Recovers == Call(Builtin("recover"), <<>>)
Panic(x) == ExprStmt(Call(Builtin("panic"), <<x>>))
DeferLit(body) == Defer(Call(Thunk(body), <<>>))
risky    == [Func("risky", <<>>, <<tInt>>) EXCEPT !.panics = TRUE]

Closures ==
  {Main(<<Def(V("k"), N(0)), VarDecl(<<vF>>, <<>>), x, see(V("k"))>>) : x \in
     {Block(<<Set(vF, Thunk(<<IncDec(V("k"), "+")>>)), CallFv, CallFv>>),
      Block(<<RangeStmt(V("j"), V("v"), TRUE, Int2, Block(<<Maybe(Set(vF, Thunk(<<f(V("v")), Set(V("v"), N(9)), Set(V("k"), V("j"))>>)))>>)),
              CallFv>>),
      Block(<<For(None, c, None, Block(<<VarDecl(<<V("x")>>, <<>>), f(V("x")), Set(V("x"), N(1)),
                                         Maybe(Set(vF, Thunk(<<IncDec(V("x"), "+"), f(V("x"))>>)))>>)),
              CallFv>>),
      ExprStmt(Call(FuncLit(<<V("x"), V("y")>>, <<>>, <<>>,
                 Block(<<ExprStmt(Call(Thunk(<<Set(V("k"), Bin("+", V("x"), V("y")))>>), <<>>))>>)), <<i, N(3)>>)),
      Def(V("r"), Call(FuncLit(<<>>, <<>>, <<tInt>>, Block(<<Maybe(Return(<<V("k")>>)), Return(<<i>>)>>)), <<>>)),
      Block(<<Def(Id("p", Ptr(tInt)), Un("&", V("k"))), Set(Star(Id("p", Ptr(tInt))), i)>>)}}

\* A function with result r (named or not) that defers, panics and recovers.
Result(r, body) == FuncLit(<<>>, r, <<tInt>>, Block(body))
Bodies(named) ==
  {<<DeferLit(d), x, Return(<<i>>)>> : d \in
     {<<ExprStmt(Recovers)>>, <<f(N(1))>>, <<Panic(N(2))>>, <<DeferLit(<<ExprStmt(Recovers)>>), Panic(N(3))>>,
      <<ExprStmt(Call(Thunk(<<ExprStmt(Recovers)>>), <<>>))>>,
      IF named THEN <<If(None, Bin("!=", Recovers, Const(NilV, tUntypedNil)), Block(<<Set(V("r"), N(5))>>),
                         Block(<<IncDec(V("r"), "+")>>))>> ELSE <<f(N(2))>>},
     x \in {ExprStmt(Call(risky, <<>>)), Maybe(Panic(i)), Maybe(DeferLit(<<f(N(4))>>)), ExprStmt(Recovers)}}
Defers ==
  {Main(<<Def(V("k"), Call(l, <<>>)), see(V("k"))>>) : l \in
     {Result(<<V("r")>>, b) : b \in Bodies(TRUE)} \cup {Result(<<>>, b) : b \in Bodies(FALSE)}}
  \cup {Main(<<Def(V("k"), N(1)), Defer(Call(Func("g", <<tInt>>, <<>>), <<V("k")>>)), Set(V("k"), N(2)),
               For(None, c, None, Block(<<Defer(Call(FuncLit(<<V("x")>>, <<>>, <<>>, Block(<<f(V("x")), f(V("k"))>>)), <<V("k")>>)),
                                          IncDec(V("k"), "+")>>)), x>>) :
         x \in {f(N(0)), Panic(N(7)), Defer(Call(Builtin("panic"), <<N(6)>>))}}
  \cup {FuncLit(<<>>, <<V("r"), V("q")>>, <<tInt, tInt>>,
                Block(<<DeferLit(<<Set(V("q"), V("r"))>>), Maybe(Return(<<two>>)), Set(V("r"), N(4)), Return(x)>>)) :
         x \in {<<>>, <<V("q"), V("r")>>, <<i, N(3)>>}}

\* ------------------------------------------- calls, methods and interfaces

Do(fun, args) == ExprStmt(Call(fun, args))
vari   == [Func("vari", <<tInt, Slice(tEface)>>, <<>>) EXCEPT !.variadic = TRUE]
vE     == Id("e", tEface)
vErr   == Id("err", tError)
anyOf  == Call(Func("any", <<>>, <<tEface>>), <<>>)
Inner  == Struct(<<S, Ptr(S)>>)
vT     == Id("t", Inner)
Meth(n, rs) == Func(n, <<tEface>>, rs)
Nil    == Const(NilV, tUntypedNil)

Calls ==
  {Main(<<Def(V("k"), i), Def(vS, Plain(N(1), N(2))), VarDecl(<<vT>>, <<>>), Set(Sel(vT, <<2>>), Un("&", vS)), x>>) : x \in
     {Do(vari, <<V("k")>>), Do(vari, <<V("k"), N(2), True>>), Do(vari, <<two>>),
      ExprStmt([Call(vari, <<V("k"), CompLit(Slice(tEface), <<Elem(None, i)>>)>>) EXCEPT !.dots = TRUE]),
      Do(Func("h", <<tEface, tInt>>, <<>>), <<two>>), Do(Func("h", <<tEface, tInt>>, <<>>), <<Paren(V("k")), i>>)}
     \cup {Do(Method(r[1], r[2], r[3], Meth("m", <<>>)), <<i>>) : r \in
             {<<vS, <<>>, S>>, <<vS, <<>>, Ptr(S)>>, <<Un("&", vS), <<>>, S>>, <<vT, <<1>>, S>>, <<vT, <<1>>, Ptr(S)>>,
              <<vT, <<2>>, S>>, <<vT, <<2>>, Ptr(S)>>, <<anyOf, <<>>, tEface>>, <<Plain(i, N(4)), <<>>, S>>,
              <<Un("&", vT), <<1>>, Ptr(S)>>, <<Un("&", vT), <<2>>, S>>}}
     \cup {Block(<<Def(vF, Method(r[1], <<>>, r[2], Func("m", <<>>, <<>>))), Set(Field(vS, 1), N(8)), CallFv>>) :
             r \in {<<vS, S>>, <<vS, Ptr(S)>>, <<anyOf, tEface>>}}
     \cup {Defer(Call(Method(vS, <<>>, Ptr(S), Meth("m", <<>>)), <<V("k")>>)),
           GoStmt(Call(Func("h", <<tEface>>, <<>>), <<V("k")>>))}}

Interfaces ==
  {Main(<<Def(vE, anyOf), x>>) : x \in
     {Define(<<V("k"), Id("ok", tBool)>>, <<TypeAssert(vE, tInt)>>),
      Def(V("k"), TypeAssert(vE, tInt)),
      Block(<<Define(<<V("k"), Id("ok", tBool)>>, <<Paren(TypeAssert(vE, tInt))>>), see(V("k")), see(Id("ok", tBool))>>),
      Block(<<VarDecl(<<vErr>>, <<TypeAssert(vE, tError)>>), see(vErr), Set(vE, vErr)>>),
      Block(<<Set(vE, N(1)), see(Bin("==", vE, N(1))), see(Bin("!=", vE, Nil))>>),
      Block(<<Set(vE, Nil), see(Bin("==", Nil, vE))>>),
      Block(<<Set(vE, Call(TypeName(tMyInt), <<i>>)), see(Bin("==", i, vE))>>),
      Switch(None, vE, <<Case(<<N(0)>>, <<f(N(1))>>), Case(<<Call(TypeName(tMyInt), <<i>>), Nil>>, <<f(N(2))>>)>>)}
     \cup {TypeSwitch(None, vE, cs) : cs \in
             {<<Clause(<<tInt>>, FALSE, V("v"), <<f(V("v"))>>), Clause(<<tMyInt, tUntypedNil>>, FALSE, Id("w", tEface), <<see(Id("w", tEface))>>),
                Clause(<<>>, TRUE, Id("z", tEface), <<see(Id("z", tEface))>>)>>,
              <<Clause(<<>>, TRUE, None, <<f(N(1))>>), Clause(<<tUntypedNil>>, FALSE, Id("w", tEface), <<see(Id("w", tEface))>>),
                Clause(<<tError>>, FALSE, vErr, <<see(vErr), Branch("break", ""), f(N(2))>>)>>,
              <<Clause(<<tMyInt>>, FALSE, Id("v", tMyInt), <<see(Bin("+", Id("v", tMyInt), Const(IntV(2), tMyInt)))>>)>>}}}

\* ------------------------------------------- conditions, switches, numbers

BoolExprs == LET a1 == {c, True, Un("!", c)}
                 b1 == {Bin(op, x, y) : op \in {"&&", "||"}, x \in a1, y \in a1}
             IN b1 \cup {Bin(op, Paren(x), y) : op \in {"&&", "||"}, x \in {Bin("||", c, Un("!", c)), Un("!", Paren(Bin("&&", c, c)))}, y \in {c, True}}
Conditions ==
  {Main(<<see(x)>>) : x \in BoolExprs}
  \cup {Main(<<If(None, x, Block(<<f(N(1))>>), Block(<<f(N(2))>>))>>) : x \in BoolExprs}
  \cup {Main(<<For(None, x, None, Block(<<f(N(1)), Maybe(Branch("break", ""))>>))>>) : x \in {Bin("&&", c, Un("!", c)), Bin("||", c, c)}}

Fall == Branch("fallthrough", "")
Marked(n, falls) == IF falls THEN <<f(N(n)), Fall>> ELSE <<f(N(n))>>
\* Clauses for 0, 1 and default (in every order), each of which may fall through.
Switches ==
  {Main(<<Switch(Def(V("k"), N(0)), i,
            [j \in 1..3 |-> IF at[j] = 2 THEN Default(Marked(2, j < 3 /\ 2 \in fs))
                            ELSE Case(<<N(at[j]), N(5)>>, Marked(at[j], j < 3 /\ at[j] \in fs))]), f(N(9))>>) :
     at \in {q \in [1..3 -> 0..2] : \A x, y \in 1..3 : q[x] = q[y] => x = y}, fs \in SUBSET (0..2)}
  \cup {Main(<<Switch(None, None, <<Case(<<c, Bin("&&", c, c)>>, <<Maybe(Branch("break", "")), f(N(1))>>), Case(<<True>>, <<f(N(2))>>)>>)>>),
        Main(<<Switch(None, i, <<>>), f(N(1))>>)}

vB == Id("b", tByte)
Numbers ==
  {Main(<<VarDecl(<<vB>>, <<Const(IntV(255), tByte)>>), x, see(vB)>>) : x \in
     {IncDec(vB, "+"), OpAssign(vB, "+", Call(TypeName(tByte), <<i>>)), Set(vB, Bin("-", Const(IntV(0), tByte), vB)),
      Block(<<Def(V("k"), Bin("+", Call(TypeName(tInt), <<vB>>), i)), see(V("k")), Set(vB, Call(TypeName(tByte), <<V("k")>>))>>),
      Block(<<see(Un("-", i)), see(Bin("<", i, N(1))), see(Bin(">=", N(1), i))>>),
      Label("L", Block(<<Set(vB, Bin("-", vB, Const(IntV(250), tByte))), f(N(1)), Maybe(Branch("goto", "L"))>>))}}

\* ---------------------------------------- maps, channels, slices, packages

vM     == Id("mm", Map(tInt))
vC     == Id("ch", Chan(tInt))
vQ     == Id("q", Slice(tInt))
vOk    == Id("ok", tBool)
mk(t, args) == Call(Builtin("make"), <<TypeName(t)>> \o args)
recv   == Un("<-", vC)

Containers ==
  {Main(<<Def(vM, CompLit(Map(tInt), <<Elem(N(1), i), Elem(i, N(2))>>)), VarDecl(<<V("k"), V("v")>>, <<>>), x, see(V("k")), see(V("v"))>>) : x \in
     {Set(V("k"), Index(vM, i)), OpAssign(Index(vM, N(1)), "+", i), IncDec(Index(vM, i), "+"), Set(Index(vM, i), i),
      Define(<<V("x"), vOk>>, <<Index(vM, N(1))>>),
      Assign(<<Index(vM, N(3)), V("k")>>, <<two>>),
      RangeStmt(V("k"), V("v"), FALSE, vM, Block(<<Maybe(Branch("continue", "")), f(N(1))>>)),
      RangeStmt(V("x"), Blank, TRUE, vM, Block(<<f(V("x"))>>)),
      Set(vM, mk(Map(tInt), <<i>>))}}
  \cup
  {Main(<<Def(vC, mk(Chan(tInt), <<N(1)>>)), VarDecl(<<V("k"), vOk>>, <<>>), x, see(V("k")), see(vOk)>>) : x \in
     {Set(V("k"), recv), Assign(<<V("k"), vOk>>, <<recv>>), Send(vC, i),
      Block(<<Def(Id("ce", Chan(tEface)), mk(Chan(tEface), <<>>)), Send(Id("ce", Chan(tEface)), i)>>),
      Select(<<Comm(Assign(<<V("k"), vOk>>, <<recv>>), <<f(N(1))>>), Comm(Send(vC, i), <<f(N(2))>>),
               Comm(Define(<<V("x")>>, <<recv>>), <<f(V("x"))>>)>>),
      Select(<<Comm(None, <<f(N(1))>>), Comm(Define(<<V("x"), Id("o", tBool)>>, <<Paren(recv)>>), <<see(Id("o", tBool)), Set(V("k"), V("x"))>>),
               Comm(Set(Index(mk(Map(tInt), <<>>), N(0)), recv), <<f(N(3))>>)>>),
      Select(<<Comm(Assign(<<V("k"), vOk>>, <<recv>>), <<Maybe(Branch("break", "")), f(N(1))>>)>>),
      Select(<<Comm(Send(vC, i), <<>>)>>), Select(<<Comm(None, <<f(N(1))>>)>>), Select(<<>>),
      RangeStmt(V("k"), None, FALSE, vC, Block(<<f(V("k"))>>)), RangeStmt(None, None, FALSE, vC, Block(<<f(N(1))>>))}}
  \cup
  {Main(<<Def(vQ, x), see(vQ), see(Call(Builtin("len"), <<vQ>>)), y>>) :
     x \in {mk(Slice(tInt), <<N(1), N(2)>>), mk(Slice(tInt), <<i>>), mk(Slice(tInt), <<N(0), i>>),
            CompLit(Slice(tInt), <<Elem(N(2), i), Elem(None, N(3)), Elem(N(0), N(4))>>), SliceX(Int2, N(1), N(2), None),
            SliceX(Un("&", ArrLit(N(5), N(6))), None, N(1), N(2)), Call(TypeName(Slice(tInt)), <<Nil>>)},
     y \in {f(N(1)), Block(<<VarDecl(<<Id("n", Ptr(tInt)), V("z")>>, <<Call(Builtin("new"), <<TypeName(tInt)>>), i>>),
                             Set(Star(Paren(Id("n", Ptr(tInt)))), V("z")), see(Star(Id("n", Ptr(tInt)))), see(Un("&", Star(Id("n", Ptr(tInt)))))>>),
            Block(<<VarDecl(<<V("y"), Blank>>, <<two>>), see(V("y")), VarDecl(<<Blank>>, <<i>>),
                    see(CompLit(Slice(Ptr(S)), <<Elem(None, CompLit(Ptr(S), <<Elem(N(2), V("y"))>>))>>)),
                    see(Call(Builtin("len"), <<ArrLit(N(1), N(2))>>))>>)}}

G(n)   == Global(n, tInt)
Pkg(imports, vs, ds) == [k |-> "package", imports |-> imports, vars |-> vs, decls |-> ds]
Packages ==
  {Pkg(imp, <<[lhs |-> <<G("a")>>, rhs |-> i], [lhs |-> <<G("b"), bb>>, rhs |-> two],
              [lhs |-> <<Blank>>, rhs |-> Call(Func("h", <<tInt>>, <<tInt>>), <<Bin("+", G("a"), G("b"))>>)],
              [lhs |-> <<Global("s", S)>>, rhs |-> Plain(G("b"), G("a"))]>>,
       <<[n |-> "main", init |-> FALSE], [n |-> "init#1", init |-> TRUE], [n |-> "init#2", init |-> TRUE]>>) :
     imp \in {<<>>, <<"p.init", "q.init">>}, bb \in {Blank, G("c")}}

\* ----------------------------------- what simple/lint.go would write otherwise

vX == Id("x", tBool)
lenQ == Call(Builtin("len"), <<vQ>>)
\* A slice that may be nil, empty or not.
SomeSlice == <<VarDecl(<<vQ>>, <<>>), Maybe(Set(vQ, Int2)), Maybe(Set(vQ, SliceX(vQ, N(0), N(0), None)))>>
Bang(n, x) == CASE n = 0 -> x [] n = 1 -> Un("!", x) [] n = 2 -> Un("!", Un("!", x)) [] n = 3 -> Un("!", Un("!", Un("!", x)))
BoolFun(body) == FuncLit(<<>>, <<>>, <<tBool>>, Block(body))
False == Const(BoolV(FALSE), tBool)

Slide(init) == For(init, Bin("<", V("j"), V("n")), IncDec(V("j"), "+"),
                   Block(<<Set(Index(vQ, V("j")), Index(vQ, Bin("+", V("o"), V("j"))))>>))

Idioms ==
  {Main(SomeSlice \o <<x>>) : x \in
     {If(None, Bin(ops[1], Bin(ops[2], vQ, Nil), Bin(op, lenQ, N(n))), Block(<<f(N(1))>>), Block(<<f(N(2))>>)) :
        ops \in {<<"||", "==">>, <<"&&", "!=">>}, op \in {"==", "!=", ">", ">="}, n \in {0, 1}}
     \cup {If(None, Bin("!=", vQ, Nil), Block(<<RangeStmt(Blank, V("v"), TRUE, vQ, Block(<<f(V("v"))>>))>>), None),
           see(SliceX(vQ, N(0), lenQ, None)),
           Block(<<Def(Id("d", Slice(tInt)), mk(Slice(tInt), <<N(2), N(2)>>)),
                   RangeStmt(V("k"), V("v"), TRUE, vQ, Block(<<Set(Index(Id("d", Slice(tInt)), V("k")), V("v"))>>)),
                   see(Id("d", Slice(tInt)))>>),
           Block(<<Def(Id("d", Slice(tInt)), mk(Slice(tInt), <<N(2)>>)),
                   RangeStmt(V("k"), None, TRUE, vQ, Block(<<Set(Index(Id("d", Slice(tInt)), V("k")), Index(vQ, V("k")))>>)),
                   see(Id("d", Slice(tInt)))>>),
           RangeStmt(V("k"), Blank, TRUE, vQ, Block(<<f(V("k"))>>)),
           RangeStmt(Blank, Blank, FALSE, vQ, Block(<<f(N(1))>>)), RangeStmt(Blank, None, FALSE, vQ, Block(<<f(N(1))>>))}}
  \cup {Main(<<Def(vQ, CompLit(Slice(tInt), <<Elem(None, N(1)), Elem(None, i), Elem(None, N(3))>>)),
               Def(V("n"), N(2)), Def(V("o"), i),
               Slide(Def(V("j"), N(0))), see(vQ)>>)}
  \cup {Main(<<Def(vX, c), see(Bin(op, Bang(n, y), b))>>) :
          op \in {"==", "!="}, n \in 0..3, y \in {vX, c, Paren(Bin("||", c, vX))}, b \in {True, False}}
  \cup {Main(<<see(Bin(op, True, Bin("==", Bang(n, c), c)))>>) : op \in {"==", "!="}, n \in 0..1}
  \cup {Main(<<see(Call(BoolFun(<<f(N(0)), If(None, x, Block(<<Return(<<b>>)>>), None), Return(<<IF b = True THEN False ELSE True>>)>>), <<>>))>>) :
          x \in {c, Un("!", c), Bin("<", i, N(1)), Bin("!=", c, c), Paren(Bin("&&", c, c))}, b \in {True, False}}
  \cup {Main(<<see(Call(BoolFun(<<If(None, c, Block(<<Return(<<True>>)>>), None), If(None, c, Block(<<Return(<<True>>)>>), None),
                                 Return(<<False>>)>>), <<>>))>>)}
  \cup {Main(<<For(None, True, None, Block(<<f(N(1)), Maybe(Branch("break", "")), Maybe(Branch("continue", "")), f(N(2))>>))>>),
        Main(<<Def(vE, anyOf), If(Define(<<Blank, vOk>>, <<TypeAssert(vE, tInt)>>), Bin("&&", vOk, Bin("!=", vE, Nil)), Block(<<f(N(1))>>), Block(<<f(N(2))>>)),
               If(Define(<<Blank, vOk>>, <<TypeAssert(vE, tError)>>), Bin("&&", Bin("!=", vE, Nil), vOk), Block(<<f(N(3))>>), None)>>),
        Main(<<Def(V("k"), i), VarDecl(<<V("y")>>, <<>>), Set(V("y"), Bin("+", V("k"), i)),
               VarDecl(<<vE>>, <<>>), Set(vE, V("y")), see(vE),
               VarDecl(<<V("z")>>, <<>>), Set(V("z"), Bin("+", V("z"), i)), see(V("z"))>>),
        Main(<<Switch(None, i, <<Case(<<N(0)>>, <<f(N(1)), Branch("break", "")>>), Case(<<N(1)>>, <<Maybe(Branch("break", "")), f(N(2)), Branch("break", "")>>)>>),
               Return(<<>>)>>),
        Main(<<For(None, c, None, Block(<<Switch(None, i, <<Default(<<f(N(1)), Maybe(Branch("continue", "")), Branch("break", "")>>)>>), f(N(2))>>))>>),
        Main(<<Def(vM, CompLit(Map(tInt), <<>>)), Def(vC, mk(Chan(tInt), <<N(0)>>)), VarDecl(<<V("k")>>, <<>>),
               Assign(<<V("k"), Blank>>, <<Index(vM, i)>>), Define(<<V("y"), Blank>>, <<recv>>), Assign(<<Blank>>, <<recv>>),
               Assign(<<Blank, V("y")>>, <<recv, i>>), see(V("k")), see(V("y"))>>),
        Main(<<Def(vC, mk(Chan(tInt), <<>>)), For(None, c, None, Block(<<Select(<<Comm(Send(vC, i), <<f(N(1))>>)>>)>>)),
               Select(<<Comm(Define(<<V("y")>>, <<recv>>), <<f(V("y"))>>)>>)>>)}

\* Loops that append, literals that copy, and what the checks overlook.
vD    == Id("d", Slice(tInt))
DeclD == <<VarDecl(<<vD>>, <<>>), Maybe(Set(vD, mk(Slice(tInt), <<N(0), N(3)>>))), Maybe(Set(vD, SliceX(Int2, N(0), N(1), None)))>>
Append1(x, y)   == Call(Builtin("append"), <<x, y>>)
Spread(x, y)    == [Append1(x, y) EXCEPT !.dots = TRUE]
AppendLoop(val, def, x) == RangeStmt(Blank, val, def, x, Block(<<Set(vD, Append1(vD, val))>>))
CopyLoop(val, def, from) == RangeStmt(V("k"), val, def, vQ, Block(<<Set(Index(vD, V("k")), from)>>))
T1 == NamedStruct("T1", <<tInt, tInt>>)
T2 == NamedStruct("T2", <<tInt, tInt>>)
v1 == Id("x1", T1)
v2 == Id("x2", T2)
Fld(j, key) == Elem(IF key THEN N(j) ELSE None, Field(v2, j))
nilCheck(init, els) == If(init, Bin("!=", vQ, Nil), Block(<<RangeStmt(Blank, V("v"), TRUE, vQ, Block(<<f(V("v"))>>))>>), els)

Rewritten ==
  {Main(SomeSlice \o DeclD \o <<VarDecl(<<V("v"), V("k")>>, <<>>), x, see(vD), see(V("v")), see(V("k"))>>) : x \in
     {AppendLoop(V("w"), TRUE, vQ), AppendLoop(V("v"), FALSE, vQ), AppendLoop(V("w"), TRUE, vD),
      CopyLoop(None, TRUE, Index(vQ, V("k"))), CopyLoop(V("w"), TRUE, V("w")),
      Block(<<AppendLoop(V("w"), TRUE, Int2), Set(vQ, Append1(vD, i)), Set(vD, Spread(vD, vQ)), see(vQ)>>)}}
  \cup {Main(SomeSlice \o <<Def(vD, mk(Slice(tInt), <<N(2)>>)), VarDecl(<<V("v"), V("k")>>, <<>>), x, see(vD), see(V("v")), see(V("k"))>>) : x \in
          {CopyLoop(V("v"), FALSE, V("v")), CopyLoop(None, TRUE, Index(vD, V("k")))}}
  \cup {Main(<<Def(v2, CompLit(T2, <<Elem(None, i), Elem(None, N(4))>>)), Def(v1, x), Set(Field(v2, 1), N(7)), see(v1), see(v2)>>) : x \in
          {CompLit(T1, <<Fld(1, FALSE), Fld(2, FALSE)>>), CompLit(T1, <<Fld(2, TRUE), Fld(1, TRUE)>>),
           CompLit(T1, <<Elem(None, Field(v2, 2)), Elem(None, Field(v2, 1))>>), CompLit(T1, <<Fld(2, TRUE)>>),
           CompLit(T1, <<Fld(1, FALSE), Elem(None, i)>>), Call(TypeName(T1), <<v2>>),
           Star(Paren(Un("&", CompLit(T1, <<Fld(1, FALSE), Fld(2, FALSE)>>))))}}
  \cup {Main(SomeSlice \o <<nilCheck(init, els)>>) : init \in {None, Set(vQ, Int2)}, els \in {None, Block(<<f(N(2))>>)}}
  \cup {Main(SomeSlice \o <<If(None, Bin("&&", Bin("!=", vQ, Nil), Bin(op, lenQ, N(-1))), Block(<<f(N(1))>>), None)>>) : op \in {"==", ">=", ">"}}
  \cup {Main(<<see(Bin("==", Bin("<", i, N(1)), b))>>) : b \in {True, False}}
  \cup {Main(<<see(Call(BoolFun(<<If(None, c, Block(<<Return(<<b>>)>>), None), Return(<<b>>)>>), <<>>))>>) : b \in {True, False}}
  \cup {Main(<<Def(V("j"), N(0)), Def(vQ, Int2), Def(V("n"), N(1)), Def(V("o"), i), Slide(Set(V("j"), N(0))), see(V("j")), see(vQ)>>)}
  \cup {Main(<<see(mk(Slice(tInt), <<x, x>>))>>) : x \in {i, N(1)}}
  \cup {Main(<<Def(vC, mk(Chan(tInt), <<>>)), VarDecl(<<V("y")>>, <<>>), x, see(V("y"))>>) : x \in
          {Assign(<<V("y"), Blank>>, <<i, recv>>), Assign(<<Blank, V("y")>>, <<recv, i>>),
           For(None, None, None, Block(<<Select(<<Comm(Set(V("y"), recv), <<f(V("y")), Maybe(Return(<<>>))>>)>>)>>))}}

MCPrograms == AllNested \cup Literals \cup Closures \cup Defers \cup Calls \cup Interfaces \cup Conditions \cup Switches \cup Numbers
                \cup Containers \cup Packages \cup Idioms \cup Rewritten
=============================================================================
