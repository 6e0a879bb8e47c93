----------------------------- MODULE SsaMachine -----------------------------
(***************************************************************************)
(* How functions in SSA form run: the meaning of the instructions as       *)
(* src/ssa/ssa.go documents them.  A machine has a stack of frames (the    *)
(* last is running), a store of cells, and the events seen so far.  It     *)
(* runs by itself to the next point where the environment has a choice.    *)
(***************************************************************************)
EXTENDS GoSyntax

CONSTANT MaxQuiet          \* 2^MaxQuiet instructions run without a choice before giving up

ASSUME MaxQuietAssumption == MaxQuiet \in Nat \ {0}

Frame(path, params, free, kind) ==
  [path |-> path, b |-> 1, i |-> 1, prev |-> 0, regs |-> <<>>, params |-> params,
   free |-> free, defers |-> <<>>, unwinding |-> FALSE, pan |-> <<>>, kind |-> kind]

RECURSIVE FunctionAt(_, _)
FunctionAt(fn, path) == IF path = <<>> THEN fn ELSE FunctionAt(fn.anon[Head(path)], Tail(path))

Top(m)         == Last(m.frames)
SetTop(m, fr)  == [m EXCEPT !.frames = Append(Front(@), fr)]
CurInstr(fn, fr) == FunctionAt(fn, fr.path).blocks[fr.b].instrs[fr.i]
See(m, ev)     == [m EXCEPT !.out = Append(@, ev)]
Shown(m, vs)   == [i \in DOMAIN vs |-> Show(vs[i], m.heap)]

\* The value of operand v in the running frame.
Operand(m, v) ==
  LET fr == Top(m)
  IN CASE v.k = "const"  -> v.v
       [] v.k = "reg"    -> fr.regs[v.r]
       [] v.k = "param"  -> fr.params[v.n]
       [] v.k = "free"   -> fr.free[v.i]
       [] v.k = "global" -> PtrV(m.globals[v.n], <<>>)
       [] v.k = "func"   -> <<"ext", v.n>>
       [] v.k = "anon"   -> <<"fun", Append(fr.path, v.i), <<>>>>
       [] v.k = "nil"    -> NilV
Operands(m, ins) == [i \in DOMAIN ins.a |-> Operand(m, ins.a[i])]

\* The running instruction defines v; control passes to the next one.
Defines(m, v) ==
  LET fr == Top(m)
      r  == <<fr.b, fr.i>>
  IN SetTop(m, [fr EXCEPT !.i = @ + 1, !.regs = [q \in DOMAIN @ \cup {r} |-> IF q = r THEN v ELSE @[q]]])

Goto(m, b) == LET fr == Top(m) IN SetTop(m, [fr EXCEPT !.prev = fr.b, !.b = b, !.i = 1])

Raise(m, v) == SetTop(m, [Top(m) EXCEPT !.unwinding = TRUE, !.pan = <<v>>])

\* A cell; a local that is allocated again is the same variable, zeroed.
Allocate(m, ins) ==
  LET fr == Top(m)
      r  == <<fr.b, fr.i>>
      z  == Zero(deref(ins.t))
  IN IF ~ins.x.heap /\ r \in DOMAIN fr.regs
     THEN Defines([m EXCEPT !.heap[fr.regs[r][2]] = z], fr.regs[r])
     ELSE Defines([m EXCEPT !.heap = Append(@, z)], PtrV(Len(m.heap) + 1, <<>>))

\* The slice x[lo:hi] of a slice or of the array that x points to.
SliceOf(m, ins, vs) ==
  LET x    == vs[1]
      base == IF x[1] = "slice" THEN x[3] ELSE 0
      arr  == IF x[1] = "slice" THEN x[2] ELSE x
      end  == IF x[1] = "slice" THEN x[4] ELSE Len(Get(m.heap[x[2]], x[3])[2])
      lo   == IF ins.x.lo = 0 THEN 0 ELSE vs[ins.x.lo][2]
      hi   == IF ins.x.hi = 0 THEN end ELSE base + vs[ins.x.hi][2]
  IN IF x = NilV THEN NilV ELSE SliceV(arr, base + lo, hi)

\* The address x[i], for a slice or a pointer to an array.
ElementAddr(vs) ==
  LET x == vs[1]
  IN IF x[1] = "slice" THEN PtrV(x[2][2], Append(x[2][3], x[3] + vs[2][2] + 1))
     ELSE PtrV(x[2], Append(x[3], vs[2][2] + 1))
OutOfRange(m, vs) ==
  \/ vs[1] = NilV
  \/ vs[1][1] = "slice" /\ vs[2][2] \notin 0..(LenV(vs[1]) - 1)
  \/ vs[1][1] = "ptr" /\ vs[2][2] \notin 0..(Len(Get(m.heap[vs[1][2]], vs[1][3])[2]) - 1)

\* Instructions that only compute a value.
Computes == {"binop", "unop", "extract", "changetype", "changeinterface", "makeinterface",
             "convert", "field", "index", "slice", "makeclosure", "bound", "phi", "range"}
Compute(m, fn, ins) ==
  LET vs == Operands(m, ins)
      fr == Top(m)
      preds == FunctionAt(fn, fr.path).blocks[fr.b].preds
  IN CASE ins.op = "binop" -> IF ins.x \in {"+", "-"} THEN Arith(ins.x, vs[1], vs[2], ins.t)
                              ELSE Compare(ins.x, vs[1], vs[2])
       [] ins.op = "unop"  -> IF ins.x = "!" THEN BoolV(~vs[1][2]) ELSE IntV(-vs[1][2])
       [] ins.op = "extract" -> vs[1][2][ins.x]
       [] ins.op \in {"changetype", "changeinterface"} -> vs[1]
       [] ins.op = "makeinterface" -> BoxV(ins.a[1].t, vs[1])
       [] ins.op = "convert" -> Convert(vs[1], ins.a[1].t, ins.t)
       [] ins.op = "field" -> vs[1][2][ins.x]
       [] ins.op = "index" -> vs[1][2][vs[2][2] + 1]
       [] ins.op = "slice" -> SliceOf(m, ins, vs)
       [] ins.op = "makeclosure" -> <<"fun", Append(fr.path, ins.x), vs>>
       [] ins.op = "bound" -> <<"bound", ins.x, vs[1]>>
       [] ins.op = "phi"   -> Operand(m, ins.a[CHOOSE i \in DOMAIN preds : preds[i] = fr.prev])
       [] ins.op = "range" -> <<"iter", vs[1]>>

\* The environment is asked, and the machine waits for one of the answers.
Ask(m, ev, answers) == [See(m, ev) EXCEPT !.wait = answers, !.st = "wait"]
\* The environment has nothing to choose.
Tell(m, ev, v) == Defines(See(m, ev), v)

\* Entering the function value f of a call, a deferred call or a goroutine.
\* g is what is called in the syntax: it says what the environment may answer.
Invoke(m, fn, f, g, args, kind) ==
  IF f[1] = "fun"
  THEN LET callee == FunctionAt(fn, f[2])
       IN [m EXCEPT !.frames = Append(@, Frame(f[2],
             [n \in {callee.params[i] : i \in DOMAIN callee.params} |->
                args[CHOOSE i \in DOMAIN args : callee.params[i] = n]], f[3], kind))]
  ELSE LET q  == IF f[1] = "bound" THEN f[2] ELSE g
           ev == <<"call", q.n, Shown(m, (IF f[1] = "ext" THEN <<>> ELSE IF f[1] = "bound" THEN <<f[3]>> ELSE <<f>>) \o args)>>
       IN Ask([m EXCEPT !.kind = kind], ev, CallAnswers(q))

\* recover() stops the panic of the frame that runs the calling frame as deferred.
Recover(m) ==
  LET n == Len(m.frames)
      c == m.frames[n - 1]
  IN IF n > 1 /\ Top(m).kind = "defer" /\ c.unwinding /\ c.pan # <<>>
     THEN Defines([m EXCEPT !.frames[n - 1].pan = <<>>], c.pan[1])
     ELSE Defines(m, NilV)

CallInstr(m, fn, ins) ==
  LET vs == Operands(m, ins)
      longer == Appended(m.heap, vs[2], Elements(m.heap, vs[3]))
  IN CASE ins.x.k = "builtin" /\ ins.x.n = "append" -> Defines([m EXCEPT !.heap = longer.heap], longer.val)
       [] ins.x.k = "builtin" /\ ins.x.n \in {"len", "cap"} -> Defines(m, IntV(LenV(vs[2])))
       [] ins.x.k = "builtin" /\ ins.x.n = "recover" -> Recover(m)
       [] vs[1] = NilV -> Raise(m, RuntimeError)
       [] OTHER -> Invoke(m, fn, vs[1], ins.x, Tail(vs), "call")

\* The last deferred call runs; a deferred panic(x) panics.
RunDeferred(m, fn) ==
  LET fr == Top(m)
      d  == Last(fr.defers)
      n  == SetTop(m, [fr EXCEPT !.defers = Front(@)])
  IN IF d.g.k = "builtin" THEN Raise(n, d.args[1]) ELSE Invoke(n, fn, d.f, d.g, d.args, "defer")

\* The running frame ends with results rs.
Leave(m, rs) ==
  LET below == [m EXCEPT !.frames = Front(@)]
  IN CASE Len(m.frames) = 1 /\ m.todo = 0 -> [See(below, <<"return", Shown(m, rs)>>) EXCEPT !.st = "done"]
       [] Len(m.frames) = 1 /\ m.todo > 0 ->
            [m EXCEPT !.frames = <<Frame(<<>>, <<>>, <<>>, "call")>>, !.todo = @ - 1]
       [] Len(m.frames) > 1 /\ Top(m).kind = "call" -> Defines(below, IF Len(rs) = 1 THEN rs[1] ELSE TupV(rs))
       [] OTHER -> below

\* A panicking frame runs its deferred calls; unless one of them has recovered,
\* the panic goes on in the caller.
Unwind(m, fn) ==
  LET fr == Top(m)
      f  == FunctionAt(fn, fr.path)
      below == [m EXCEPT !.frames = Front(@)]
  IN CASE fr.defers # <<>> -> RunDeferred(m, fn)
       [] fr.defers = <<>> /\ fr.pan = <<>> -> Goto(SetTop(m, [fr EXCEPT !.unwinding = FALSE]), f.recover)
       [] fr.defers = <<>> /\ fr.pan # <<>> /\ Len(m.frames) = 1 ->
            [See(below, <<"panic", Show(fr.pan[1], m.heap)>>) EXCEPT !.st = "done"]
       [] OTHER -> Raise(below, fr.pan[1])

Step(m, fn) ==
  LET fr  == Top(m)
      ins == CurInstr(fn, fr)
      vs  == Operands(m, ins)
      succs == FunctionAt(fn, fr.path).blocks[fr.b].succs
      next(q) == SetTop(q, [Top(q) EXCEPT !.i = @ + 1])
      states == [i \in 1..(Len(vs) \div 2) |-> IF ins.a[2 * i].k = "nil" THEN "recv" ELSE "send"]
  IN CASE fr.unwinding -> Unwind(m, fn)
       [] ~fr.unwinding /\ ins.op \in Computes -> Defines(m, Compute(m, fn, ins))
       [] ~fr.unwinding /\ ins.op \notin Computes ->
     CASE ins.op = "alloc" -> Allocate(m, ins)
       [] ins.op = "load"  -> IF vs[1] = NilV THEN Raise(m, RuntimeError)
                              ELSE Defines(m, Get(m.heap[vs[1][2]], vs[1][3]))
       [] ins.op = "store" -> IF vs[1] = NilV THEN Raise(m, RuntimeError)
                              ELSE next([m EXCEPT !.heap[vs[1][2]] = Put(@, vs[1][3], vs[2])])
       [] ins.op = "blankstore" -> next(m)
       [] ins.op = "fieldaddr" -> IF vs[1] = NilV THEN Raise(m, RuntimeError)
                                  ELSE Defines(m, PtrV(vs[1][2], Append(vs[1][3], ins.x)))
       [] ins.op = "indexaddr" -> IF OutOfRange(m, vs) THEN Raise(m, RuntimeError)
                                  ELSE Defines(m, ElementAddr(vs))
       [] ins.op = "typeassert" ->
            IF ins.x.ok THEN Defines(m, TupV(IF Holds(vs[1], ins.x.t) THEN <<Unbox(vs[1], ins.x.t), BoolV(TRUE)>>
                                             ELSE <<Zero(ins.x.t), BoolV(FALSE)>>))
            ELSE IF Holds(vs[1], ins.x.t) THEN Defines(m, Unbox(vs[1], ins.x.t)) ELSE Raise(m, RuntimeError)
       [] ins.op = "makeslice" ->
            IF vs[1][2] > vs[2][2] THEN Raise(m, RuntimeError)
            ELSE Defines([m EXCEPT !.heap = Append(@, AggV([i \in 1..vs[2][2] |-> Zero(ins.t.e)]))],
                         SliceV(PtrV(Len(m.heap) + 1, <<>>), 0, vs[1][2]))
       [] ins.op = "jump" -> Goto(m, succs[1])
       [] ins.op = "if"   -> Goto(m, IF vs[1][2] THEN succs[1] ELSE succs[2])
       [] ins.op = "panic" -> Raise(m, vs[1])
       [] ins.op = "return" -> Leave(m, vs)
       [] ins.op = "rundefers" -> IF fr.defers = <<>> THEN next(m) ELSE RunDeferred(m, fn)
       [] ins.op = "defer" ->
            next(SetTop(m, [fr EXCEPT !.defers = Append(@, [f |-> vs[1], g |-> ins.x, args |-> Tail(vs)])]))
       [] ins.op = "go"   -> Tell(m, <<"go", ins.x.n, Shown(m, Tail(vs))>>, NilV)
       [] ins.op = "make" -> Tell(m, <<"make", ins.x, vs>>, <<"obj", Len(m.out) + 10>>)
       [] ins.op = "mapupdate" -> Tell(m, <<"update", Shown(m, vs)>>, NilV)
       [] ins.op = "send" -> Tell(m, <<"send", Shown(m, vs)>>, NilV)
       [] ins.op = "call" -> CallInstr(m, fn, ins)
       [] ins.op = "lookup" -> Ask(m, <<"lookup", vs>>, CommaOk(IF ins.x.ok THEN ins.t.ts[1] ELSE ins.t))
       [] ins.op = "recv" -> Ask(m, <<"recv", vs>>, CommaOk(IF ins.x.ok THEN ins.t.ts[1] ELSE ins.t))
       [] ins.op = "next" -> Ask(m, <<"next", vs[1][2]>>, NextAnswers(ins.t.ts[3]))
       [] ins.op = "select" ->
            Ask(m, <<"select", states, Shown(m, vs), ins.x.blocking>>,
                SelectAnswers(states, [i \in DOMAIN states |-> ins.a[2 * i - 1].t.e], ins.x.blocking))

\* The answer of the environment is what the waiting instruction defines.
Resume(m, fn, answer) ==
  LET n   == [m EXCEPT !.st = "run", !.wait = {}, !.kind = "call"]
      ins == CurInstr(fn, Top(m))
      s   == answer[2]
      one == IF Len(s) = 1 THEN s[1] ELSE TupV(s)
      recvs == SelectSeq([i \in 1..(Len(ins.a) \div 2) |-> i], LAMBDA i : ins.a[2 * i].k = "nil")
      got == [j \in DOMAIN recvs |-> IF recvs[j] - 1 = s[1][2] THEN s[3] ELSE Zero(ins.a[2 * recvs[j] - 1].t.e)]
  IN CASE answer = Panics -> Raise(n, RuntimeError)
       [] answer # Panics /\ m.kind = "defer" -> n
       [] answer # Panics /\ m.kind # "defer" ->
            CASE ins.op = "select" -> Defines(n, TupV(<<s[1], s[2]>> \o got))
              [] ins.op \in {"lookup", "recv"} /\ ~ins.x.ok -> Defines(n, s[1])
              [] ins.op \in {"lookup", "recv"} /\ ins.x.ok -> Defines(n, TupV(s))
              [] OTHER -> Defines(n, one)

\* Up to 2^k instructions.
RECURSIVE Steps(_, _, _)
Steps(m, fn, k) ==
  LET half == Steps(m, fn, k - 1)
  IN IF m.st # "run" THEN m
     ELSE IF k = 0 THEN Step(m, fn)
     ELSE IF half.st # "run" THEN half ELSE Steps(half, fn, k - 1)

Run(m, fn) ==
  LET end == Steps(m, fn, MaxQuiet)
  IN IF end.st = "run" THEN [See(end, <<"diverges">>) EXCEPT !.st = "done"] ELSE end

\* A machine about to call the function times times.
Start(times, globals, heap) ==
  [st |-> "run", frames |-> <<Frame(<<>>, <<>>, <<>>, "call")>>, heap |-> heap, globals |-> globals,
   out |-> <<>>, wait |-> {}, kind |-> "call", todo |-> times - 1]
=============================================================================
