------------------------------- MODULE Simple -------------------------------
(***************************************************************************)
(* The checks of src/simple/lint.go that ask for another way to write a    *)
(* statement or an expression.  A check takes a node of a syntax tree to   *)
(* what the message it reports asks for: a set, empty when the check says  *)
(* nothing of the node.  Variants applies each check at every node, as     *)
(* ast.Inspect does; two checks do not descend into some of the nodes they *)
(* turn down, which is left out.                                           *)
(*                                                                         *)
(* Overlooked names what the checks do not look at; there a suggestion may *)
(* change the program.  Of the checks of Checker.Funcs those are left out  *)
(* that look for calls of library functions, and S1029, which is about     *)
(* strings.                                                                *)
(***************************************************************************)
EXTENDS GoSyntax

\* ------------------------------------------------------- lint/lintdsl helpers

IsIdent(e)     == e.k = "id"
IsBlank(e)     == IsIdent(e) /\ e.n = "_"
IsZero(e)      == e.k = "const" /\ e.v = IntV(0)
IsNil(e)       == e.k = "const" /\ e.v = NilV
IsBoolConst(e) == e.k = "const" /\ e.t = tBool
BoolConst(e)   == e.v[2]

\* The same object (go/types.Info.ObjectOf): names are resolved.
SameObj(x, y)  == IsIdent(x) /\ IsIdent(y) /\ x.n = y.n
IsCallOf(e, n) == e.k = "call" /\ e.fun = Builtin(n)
IsBin(e, ops)  == e.k = "bin" /\ e.op \in ops
\* An assignment of one value by a token in {=} or {=, :=}.
IsSet(s)       == s.k = "assign" /\ Len(s.lhs) = 1 /\ Len(s.rhs) = 1

\* --------------------------------------------------------------- node fields

NodeFields == {"x", "y", "i", "lo", "hi", "max", "fun", "cond", "init", "then", "els", "post",
               "s", "c", "comm", "tag", "key", "val"}
ListFields == {"list", "lhs", "rhs", "args", "cs", "xs", "vals", "es"}
\* The children of n, by the field they are in and their place in it (0: no list).
isClause(n) == "k" \notin DOMAIN n
Kids(n) ==
  {<<f, 0>> : f \in DOMAIN n \cap NodeFields}
    \cup UNION {{<<f, j>> : j \in DOMAIN n[f]} : f \in DOMAIN n \cap ListFields}
    \cup (IF isClause(n) /\ "v" \in DOMAIN n THEN {<<"v", 0>>} ELSE {})
    \cup (IF "body" \notin DOMAIN n THEN {}
          ELSE IF isClause(n) THEN {<<"body", j>> : j \in DOMAIN n.body} ELSE {<<"body", 0>>})
Kid(n, f) == IF f[2] = 0 THEN n[f[1]] ELSE n[f[1]][f[2]]
WithKid(n, f, c) == IF f[2] = 0 THEN [n EXCEPT ![f[1]] = c] ELSE [n EXCEPT ![f[1]][f[2]] = c]

RECURSIVE refersTo(_, _)
refersTo(e, ident) == IF ~isClause(e) /\ SameObj(e, ident) THEN TRUE
                      ELSE \E f \in Kids(e) : refersTo(Kid(e, f), ident)

\* ------------------------------------------------------------------ the checks

\* for { select { one receive } } is to range over the channel, any other select
\* with one case is to be that communication.
isSingleSelect(n) == n.k = "select" /\ Len(n.cs) = 1
isSelectLoop(n) == /\ n.k = "for" /\ Len(n.body.list) = 1 /\ isSingleSelect(n.body.list[1])
                   /\ n.body.list[1].cs[1].comm.k # "send"
LintSingleCaseSelect(n, seen) ==
  LET case == n.body.list[1].cs[1]
      recv == unparen(IF case.comm.k = "expr" THEN case.comm.x ELSE case.comm.rhs[1])
      to   == IF case.comm.k = "expr" THEN None ELSE case.comm.lhs[1]
  IN CASE isSelectLoop(n) -> {RangeStmt(to, None, to # None /\ case.comm.def, recv.x, Block(case.body))}
       [] isSingleSelect(n) /\ n \notin seen -> {Block(<<n.cs[1].comm>> \o n.cs[1].body)}
       [] OTHER -> {}

\* for k, v := range y { x[k] = v } copies y.
LintLoopCopy(n) ==
  IF /\ n.k = "range" /\ n.key # None
     /\ Len(n.body.list) = 1 /\ IsSet(n.body.list[1]) /\ ~n.body.list[1].def
     /\ LET l == n.body.list[1].lhs[1]
            r == n.body.list[1].rhs[1]
        IN /\ l.k = "index" /\ TypeOf(l.x).k = "slice"
           /\ SameObj(l.i, n.key)
           /\ TypeOf(l) = TypeOf(r) /\ TypeOf(n.x).k = "slice"
           /\ \/ r.k = "index" /\ IsIdent(r.x) /\ SameObj(r.i, n.key)
              \/ IsIdent(r) /\ SameObj(r, n.val)
  THEN {ExprStmt(Call(Builtin("copy"), <<n.body.list[1].lhs[1].x, n.x>>))} ELSE {}

\* The text of an expression with its leading ! dropped, and how many there were;
\* the leading ! of an operation is one of its left operand.
RECURSIVE TrimNots(_)
TrimNots(e) ==
  CASE e.k = "un" /\ e.op = "!" -> [TrimNots(e.x) EXCEPT !.n = @ + 1]
    [] e.k = "bin" -> [e |-> [e EXCEPT !.x = TrimNots(e.x).e], n |-> TrimNots(e.x).n]
    [] OTHER -> [e |-> e, n |-> 0]
RECURSIVE WithNot(_)
WithNot(e) == IF e.k = "bin" THEN [e EXCEPT !.x = WithNot(e.x)] ELSE Un("!", e)

LintIfBoolCmp(n) ==
  IF IsBin(n, {"==", "!="}) /\ (IsBoolConst(n.x) \/ IsBoolConst(n.y))
  THEN LET val   == IF IsBoolConst(n.x) THEN BoolConst(n.x) ELSE BoolConst(n.y)
           other == IF IsBoolConst(n.x) THEN n.y ELSE n.x
           bang  == IF (n.op = "==") # val THEN 1 ELSE 0
           r     == TrimNots(other)
       IN IF TypeOf(other) # tBool THEN {}
          ELSE {IF (bang + r.n) % 2 = 1 THEN WithNot(r.e) ELSE r.e}
  ELSE {}

LintForTrue(n) ==
  IF n.k = "for" /\ n.init = None /\ n.post = None /\ IsBoolConst(n.cond) /\ BoolConst(n.cond)
  THEN {[n EXCEPT !.cond = None]} ELSE {}

\* The last two statements of a block: if c { return b1 }; return b2
LintIfReturn(n) ==
  LET l   == Len(n.list)
      ifs == n.list[l - 1]
      ret == ifs.then.list[1]
      returnsBool(s) == s.k = "return" /\ Len(s.xs) = 1 /\ IsBoolConst(s.xs[1])
  IN IF /\ n.k = "block" /\ l >= 2
        /\ l >= 3 => n.list[l - 2].k # "if"
        /\ ifs.k = "if" /\ ifs.els = None /\ ifs.init = None /\ Len(ifs.then.list) = 1
        /\ ifs.cond.k = "bin" => ifs.cond.op \in {"==", "<", ">", "!=", "<=", ">="}
        /\ returnsBool(ret) /\ returnsBool(n.list[l])
     THEN {[n EXCEPT !.list = Append(SubSeq(@, 1, l - 2),
              Return(<<IF BoolConst(ret.xs[1]) THEN ifs.cond ELSE Un("!", Paren(ifs.cond))>>))]}
     ELSE {}

\* Bug: len(x) may be compared with zero in any way.
LintRedundantNilCheckWithLenAny(n) ==
  LET eqNil == n.op = "||"
  IN IF /\ IsBin(n, {"||", "&&"})
        /\ IsBin(n.x, IF eqNil THEN {"=="} ELSE {"!="}) /\ IsIdent(n.x.x) /\ IsNil(n.x.y)
        /\ n.y.k = "bin" /\ (eqNil => n.y.op = "==")
        /\ IsCallOf(n.y.x, "len") /\ SameObj(n.y.x.args[1], n.x.x)
        /\ IF eqNil THEN IsZero(n.y.y) ELSE n.y.y.k = "const" /\ n.y.op \in {"==", ">=", "!=", ">"}
        /\ TypeOf(n.x.x).k \in {"slice", "map", "chan"}
     THEN {n.y} ELSE {}

\* x == nil || len(x) == 0, x != nil && len(x) > N and the like.
LintRedundantNilCheckWithLen(n) ==
  LET eqNil == n.op = "||"
  IN IF /\ IsBin(n, {"||", "&&"})
        /\ IsBin(n.x, IF eqNil THEN {"=="} ELSE {"!="}) /\ IsIdent(n.x.x) /\ IsNil(n.x.y)
        /\ n.y.k = "bin"
        /\ eqNil => n.y.op = "=="
        /\ IsCallOf(n.y.x, "len") /\ SameObj(n.y.x.args[1], n.x.x)
        /\ eqNil => IsZero(n.y.y)
        /\ ~eqNil => /\ n.y.y.k = "const"
                     /\ \/ n.y.op \in {"==", ">="} /\ ~IsZero(n.y.y)
                        \/ n.y.op = "!=" /\ IsZero(n.y.y)
                        \/ n.y.op = ">"
        /\ TypeOf(n.x.x).k \in {"slice", "map", "chan"}
     THEN {n.y} ELSE {}

\* s[a:len(s)]
LintSlicing(n) ==
  IF /\ n.k = "slicing" /\ n.max = None /\ IsIdent(n.x)
     /\ IsCallOf(n.hi, "len") /\ SameObj(n.hi.args[1], n.x)
  THEN {[n EXCEPT !.hi = None]} ELSE {}

\* for _, v := range y { x = append(x, v) } appends y.
LintLoopAppend(n) ==
  IF /\ n.k = "range" /\ IsBlank(n.key) /\ IsIdent(n.val)
     /\ Len(n.body.list) = 1 /\ IsSet(n.body.list[1]) /\ ~n.body.list[1].def
     /\ LET lhs  == n.body.list[1].lhs[1]
            call == n.body.list[1].rhs[1]
        IN /\ ~refersTo(lhs, n.val)
           /\ IsCallOf(call, "append") /\ Len(call.args) = 2 /\ ~call.dots
           /\ TypeOf(n.x) = TypeOf(call.args[1])
           /\ lhs = call.args[1]
           /\ SameObj(n.val, call.args[2])
  THEN LET lhs == n.body.list[1].lhs[1]
       IN {Assign(<<lhs>>, <<[Call(Builtin("append"), <<lhs, n.x>>) EXCEPT !.dots = TRUE]>>)}
  ELSE {}

\* T1{x.a, x.b} and T1{a: x.a, b: x.b} convert x, whose type T2 has T1's fields.
\* A field goes by its number here.
LintSimplerStructConversion(n) ==
  IF n.k # "complit" \/ ~isNamedStruct(n.t) \/ n.es = <<>> \/ Len(n.es) # Len(n.t.fs) \/ n.es[1].v.k # "sel"
  THEN {}
  ELSE LET id == n.es[1].v.x
           copies(j) == /\ n.es[j].v.k = "sel" /\ SameObj(n.es[j].v.x, id)
                        /\ n.es[j].v.path = <<IF n.es[j].key = None THEN j ELSE n.es[j].key.v[2]>>
       IN IF /\ \A j \in DOMAIN n.es : copies(j)
             /\ isNamedStruct(TypeOf(id)) /\ TypeOf(id) # n.t /\ TypeOf(id).fs = n.t.fs
          THEN {Call(TypeName(n.t), <<id>>)} ELSE {}

\* x, _ = m[k]; _ = <-ch; for x, _ = range; for _ = range
LintUnnecessaryBlank(n) ==
  LET recv(e) == e.k = "un" /\ e.op = "<-"
  IN (IF /\ n.k = "assign" /\ Len(n.lhs) = 2 /\ Len(n.rhs) = 1 /\ IsBlank(n.lhs[2])
         /\ (n.rhs[1].k = "index" /\ TypeOf(n.rhs[1].x).k = "map") \/ recv(n.rhs[1])
      THEN {[n EXCEPT !.lhs = <<@[1]>>]} ELSE {})
     \cup (IF n.k = "assign" /\ Len(n.lhs) = Len(n.rhs)
           THEN {LET rest == [n EXCEPT !.lhs = RemoveAt(@, j), !.rhs = RemoveAt(@, j)]
                 IN Block(<<ExprStmt(n.rhs[j])>> \o (IF rest.lhs = <<>> THEN <<>> ELSE <<rest>>)) :
                   j \in {q \in DOMAIN n.lhs : IsBlank(n.lhs[q]) /\ recv(n.rhs[q])}}
           ELSE {})
     \cup (IF n.k = "range" /\ ~IsBlank(n.key) /\ IsBlank(n.val) THEN {[n EXCEPT !.val = None]} ELSE {})
     \cup (IF n.k = "range" /\ IsBlank(n.key) /\ (IsBlank(n.val) \/ n.val = None)
           THEN {[n EXCEPT !.key = None, !.val = None]} ELSE {})

\* for i := 0; i < n; i++ { bs[i] = bs[off+i] }
LintLoopSlide(n) ==
  IF /\ n.k = "for" /\ Len(n.body.list) = 1 /\ n.init # None /\ n.cond # None /\ n.post # None
     /\ IsSet(n.init) /\ IsZero(n.init.rhs[1]) /\ IsIdent(n.init.lhs[1])
     /\ n.post.k = "incdec" /\ n.post.op = "+" /\ SameObj(n.post.x, n.init.lhs[1])
     /\ IsBin(n.cond, {"<"}) /\ SameObj(n.cond.x, n.init.lhs[1]) /\ IsIdent(n.cond.y)
     /\ LET s   == n.body.list[1]
            lhs == s.lhs[1]
            rhs == s.rhs[1]
        IN /\ IsSet(s) /\ ~s.def /\ lhs.k = "index" /\ rhs.k = "index"
           /\ SameObj(lhs.x, rhs.x) /\ TypeOf(lhs.x).k = "slice"
           /\ SameObj(lhs.i, n.init.lhs[1])
           /\ IsBin(rhs.i, {"+"}) /\ IsIdent(rhs.i.x) /\ SameObj(rhs.i.y, n.init.lhs[1])
  THEN LET bs == n.body.list[1].lhs[1].x
       IN {ExprStmt(Call(Builtin("copy"), <<SliceX(bs, None, n.cond.y, None),
                                            SliceX(bs, n.body.list[1].rhs[1].i.x, None, None)>>))}
  ELSE {}

LintMakeLenCap(n) ==
  IF ~IsCallOf(n, "make") THEN {}
  ELSE CASE Len(n.args) = 2 /\ TypeOf(n.args[1]).k # "slice" /\ IsZero(n.args[2]) -> {[n EXCEPT !.args = <<@[1]>>]}
         [] Len(n.args) = 3 /\ n.args[2] = n.args[3] -> {[n EXCEPT !.args = <<@[1], @[2]>>]}
         [] OTHER -> {}

\* if _, ok := x.(T); ok && x != nil
LintAssertNotNil(n) ==
  IF /\ n.k = "if" /\ n.init.k = "assign" /\ Len(n.init.lhs) = 2 /\ Len(n.init.rhs) = 1
     /\ IsBlank(n.init.lhs[1]) /\ n.init.rhs[1].k = "assert"
     /\ IsBin(n.cond, {"&&"}) /\ IsIdent(n.init.rhs[1].x) /\ IsIdent(n.init.lhs[2])
  THEN LET isNilCheck(e) == IsBin(e, {"!="}) /\ SameObj(e.x, n.init.rhs[1].x) /\ IsNil(e.y)
           isOKCheck(e)  == SameObj(e, n.init.lhs[2])
       IN IF \/ isNilCheck(n.cond.x) /\ isOKCheck(n.cond.y)
             \/ isNilCheck(n.cond.y) /\ isOKCheck(n.cond.x)
          THEN {[n EXCEPT !.cond = n.init.lhs[2]]} ELSE {}
  ELSE {}

\* var x T; x = e
LintDeclareAssign(n) ==
  IF n.k # "block" THEN {}
  ELSE {[n EXCEPT !.list = SubSeq(@, 1, j - 1) \o <<VarDecl(@[j].names, @[j + 1].rhs)>> \o SubSeq(@, j + 2, Len(@))] :
          j \in {q \in 1..(Len(n.list) - 1) :
                   LET decl   == n.list[q]
                       assign == n.list[q + 1]
                   IN /\ decl.k = "var" /\ Len(decl.names) = 1 /\ decl.vals = <<>>
                      /\ IsSet(assign) /\ ~assign.def
                      /\ SameObj(decl.names[1], assign.lhs[1])
                      /\ ~refersTo(assign.rhs[1], decl.names[1])}}

\* A break that ends a clause, a return that ends a function without results.
LintRedundantBreak(n) ==
  IF isClause(n)
  THEN IF "dflt" \in DOMAIN n /\ Len(n.body) >= 2 /\ Last(n.body) = Branch("break", "")
       THEN {[n EXCEPT !.body = Front(@)]} ELSE {}
  ELSE IF n.k = "funclit" /\ n.rs = <<>> /\ n.body.list # <<>> /\ Last(n.body.list).k = "return"
       THEN {[n EXCEPT !.body.list = Front(@)]} ELSE {}

\* if x != nil { for range x {} }
LintNilCheckAroundRange(n) ==
  IF /\ n.k = "if" /\ IsBin(n.cond, {"!="}) /\ IsNil(n.cond.y) /\ Len(n.then.list) = 1
     /\ n.then.list[1].k = "range" /\ SameObj(n.cond.x, n.then.list[1].x)
     /\ TypeOf(n.then.list[1].x).k \in {"slice", "map"}
  THEN {n.then.list[1]} ELSE {}

\* ------------------------------------------------------------ whole programs

\* seen: the nodes that a check has decided on with the node above.
Suggested(n, seen) ==
  IF isClause(n) THEN LintRedundantBreak(n)
  ELSE LintSingleCaseSelect(n, seen) \cup LintLoopCopy(n) \cup LintIfBoolCmp(n) \cup LintForTrue(n)
         \cup LintIfReturn(n) \cup LintRedundantNilCheckWithLen(n) \cup LintSlicing(n)
         \cup LintUnnecessaryBlank(n) \cup LintLoopSlide(n) \cup LintMakeLenCap(n)
         \cup LintAssertNotNil(n) \cup LintDeclareAssign(n) \cup LintRedundantBreak(n)
         \cup LintNilCheckAroundRange(n) \cup LintLoopAppend(n)
         \cup (IF n \in seen THEN {} ELSE LintSimplerStructConversion(n))

\* An expression without calls, receives and look-ups in maps.
RECURSIVE Quiet(_)
Quiet(e) == /\ \/ isClause(e)
               \/ /\ e.k \notin {"call", "funclit"}
                  /\ e.k = "un" => e.op # "<-"
                  /\ e.k = "index" => TypeOf(e.x).k # "map"
            /\ \A f \in Kids(e) : Quiet(Kid(e, f))
RECURSIVE HasBreak(_)
HasBreak(n) == \/ ~isClause(n) /\ n.k = "branch" /\ n.tok = "break"
               \/ \E f \in Kids(n) : HasBreak(Kid(n, f))
\* The operand that the first ! of the text of e is for.
RECURSIVE Leftmost(_)
Leftmost(e) == IF e.k = "bin" \/ (e.k = "un" /\ e.op = "!") THEN Leftmost(e.x) ELSE e

(***************************************************************************)
(* What the checks do not look at although the program may depend on it:   *)
(* for each check, the nodes it reports in spite of it.                    *)
(***************************************************************************)
Overlooked(n) ==
  LET s   == n.body.list[1]
      lhs == s.lhs[1]
      val == s.rhs[1]
  IN CASE isClause(n) -> FALSE
       \* a closed channel ends a range loop only; a break leaves the select;
       \* with default alone there is nothing to send or receive
       [] ~isClause(n) /\ n.k = "for" /\ isSelectLoop(n) -> TRUE
       [] ~isClause(n) /\ isSingleSelect(n) -> n.cs[1].comm = None \/ HasBreak(n)
       \* the loop variables are used later, the indexed slice is not the one
       \* ranged over, the destination is evaluated when there is nothing to copy
       [] ~isClause(n) /\ LintLoopCopy(n) # {} ->
            \/ ~n.def \/ ~IsIdent(lhs.x) \/ ~Quiet(n.x)
            \/ val.k = "index" /\ val.x # n.x
       [] ~isClause(n) /\ LintLoopAppend(n) # {} -> ~n.def \/ ~IsIdent(lhs) \/ ~Quiet(n.x)
       [] ~isClause(n) /\ LintLoopSlide(n) # {} -> ~n.init.def
       \* !x < y is not !(x < y)
       [] ~isClause(n) /\ LintIfBoolCmp(n) # {} ->
            \E e \in LintIfBoolCmp(n) : TypeOf(Leftmost(e)) # tBool
       \* both return the same
       [] ~isClause(n) /\ LintIfReturn(n) # {} ->
            Last(n.list).xs = n.list[Len(n.list) - 1].then.list[1].xs
       \* len(x) > N holds of nil if N is negative
       [] ~isClause(n) /\ LintRedundantNilCheckWithLen(n) # {} -> n.y.y.v[2] < 0
       \* a[i:len(a)] where i changes a
       [] ~isClause(n) /\ LintSlicing(n) # {} -> n.lo # None /\ ~Quiet(n.lo)
       \* make(T, f(), f()) calls f twice
       [] ~isClause(n) /\ n.k = "call" /\ LintMakeLenCap(n) # {} -> Len(n.args) = 3 /\ ~Quiet(n.args[2])
       \* a, _ = f(), <-ch: the receive moves before what is left of it
       [] ~isClause(n) /\ n.k = "assign" /\ LintUnnecessaryBlank(n) # {} /\ Len(n.lhs) = Len(n.rhs) ->
            \/ \E j \in DOMAIN n.lhs : ~Quiet(n.lhs[j])
            \/ \E j \in 2..Len(n.lhs) : IsBlank(n.lhs[j])
       \* the else branch and the init statement
       [] ~isClause(n) /\ n.k = "if" /\ LintNilCheckAroundRange(n) # {} -> n.els # None \/ n.init # None
       [] OTHER -> FALSE

\* The trees that differ from n by one suggestion, anywhere inside n, and whether
\* it overlooks something.  A select that is reported with the loop around it is
\* not reported again; a literal of which the address is taken is not converted.
RECURSIVE VariantsOf(_, _)
VariantsOf(n, seen) ==
  LET below == CASE isClause(n) -> {}
                 [] ~isClause(n) /\ isSelectLoop(n) -> {n.body.list[1]}
                 [] ~isClause(n) /\ n.k = "un" /\ n.op = "&" /\ n.x.k = "complit" -> {n.x}
                 [] OTHER -> {}
  IN {[text |-> x, careless |-> Overlooked(n)] : x \in Suggested(n, seen)}
       \cup UNION {{[v EXCEPT !.text = WithKid(n, f, @)] : v \in VariantsOf(Kid(n, f), seen \cup below)} : f \in Kids(n)}
Variants(n) == VariantsOf(n, {})
=============================================================================
