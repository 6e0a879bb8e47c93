-------------------------------- MODULE Vrp --------------------------------
(***************************************************************************)
(* Value range propagation (staticcheck/vrp): BuildGraph turns the         *)
(* instructions of a function into constraints, Solve takes the strongly   *)
(* connected components of the constraint graph in topological order and   *)
(* gives every value an interval, the ones on a cycle by widening and then *)
(* narrowing.  Afterwards the module runs the function, so that the        *)
(* properties compare what Solve promises with what the values become.     *)
(*                                                                         *)
(* A function is a loop: values 1..entry are computed once, the next heads *)
(* values are the phis of the loop's head, the others are its body, in the *)
(* order of the instructions.  The value of a string or a slice (type      *)
(* "seq") is its length, that of a channel the size of its buffer, as in   *)
(* the ranges.  Integers have IntBits bits, the small ones SmallBits.      *)
(***************************************************************************)
EXTENDS Intervals, Sequences, FiniteSets, SequencesExt

CONSTANTS
  Programs,    \* the functions that BuildGraph may be given
  IntBits,     \* the size of int and uint
  SmallBits,   \* the size of the smaller integer types
  Inputs,      \* the values that parameters and unknown calls may have
  NotYet       \* the value of what has not been computed yet

(* The last conjunct is a law of arithmetic that the provers do not know.  *)
ASSUME BitsAssumption ==
  IntBits \in Nat /\ SmallBits \in 1..(IntBits - 1) /\ 2 ^ (SmallBits - 1) <= 2 ^ SmallBits

ASSUME InputsAssumption == Inputs \subseteq Int /\ NotYet \notin Int

IntTypes == {"int", "uint", "small", "usmall"}

(* A function: operands come before the instruction that reads them, except *)
(* the second operand of a phi at the head of the loop.  An operand of 0   *)
(* is a bound that a slice expression leaves out.                          *)
Arity(op) ==
  CASE op \in {"param", "const", "call"} -> {0}
    [] op \in {"len", "copy", "make", "convert"} -> {1}
    [] op \in {"add", "sub", "mul", "append", "arrayslice"} -> {2}
    [] op = "slice" -> {3}
    [] op = "phi" -> Nat \ {0}

Optional(op) == CASE op = "slice" -> {2, 3} [] op = "arrayslice" -> {1, 2} [] OTHER -> {}

Instructions ==
  [op : {"param", "const", "call", "len", "copy", "make", "convert", "add", "sub", "mul", "append",
         "slice", "arrayslice", "phi"},
   type : IntTypes \cup {"seq", "chan"}, args : Seq(Nat), k : Int]

WellFormed(p) ==
  /\ p.entry \in Nat /\ p.heads \in Nat /\ p.entry + p.heads <= Len(p.ins)
  /\ p.ins \in Seq(Instructions)
  /\ \A v \in DOMAIN p.ins :
       LET i == p.ins[v]
       IN /\ Len(i.args) \in Arity(i.op)
          /\ \A n \in DOMAIN i.args : i.args[n] = 0 => n \in Optional(i.op)
          /\ i.op = "make" => i.type \notin IntTypes
          /\ i.op = "phi" => \A n \in DOMAIN i.args : p.ins[i.args[n]].type = i.type
          /\ IF v \in (p.entry + 1)..(p.entry + p.heads)
             THEN i.op = "phi" /\ Len(i.args) = 2 /\ i.args[1] \in 1..p.entry /\ i.args[2] \in DOMAIN p.ins
             ELSE \A n \in DOMAIN i.args : i.args[n] < v

ASSUME ProgramsAssumption == \A p \in Programs : WellFormed(p)

VARIABLES
  prog,     \* the function
  scc,      \* the cycle that a value is on, {} for none (FindSCCs)
  ranges,   \* Graph.ranges; Unknown also stands for no entry
  consts,   \* the constants that widening may stop at
  solved,   \* the vertices of the components that Solve has passed
  phase,    \* where Solve is; "run" when it has returned
  comp,     \* the values of the component being solved
  work,     \* entries or actives, a stack
  uses,     \* the constraints that are still to be evaluated for a value
  env,      \* the run: the value of each value, NotYet before its first
  pc        \* the run: the instruction to execute

vars == <<prog, scc, consts, ranges, solved, phase, comp, work, uses, env, pc>>

Values == DOMAIN prog.ins
Op(v) == prog.ins[v].op
Type(v) == prog.ins[v].type
Args(v) == prog.ins[v].args

Unsigned(t) == t \in {"uint", "usmall"}
Bits(t) == IF t \in {"small", "usmall"} THEN SmallBits ELSE IntBits
MinOf(t) == IF t \in {"int", "small"} THEN - (2 ^ (Bits(t) - 1)) ELSE 0
MaxOf(t) == IF t \in {"int", "small"} THEN 2 ^ (Bits(t) - 1) - 1 ELSE 2 ^ Bits(t) - 1

-----------------------------------------------------------------------------
(* The graph.  Vertices are the values and the constraints, here -v for   *)
(* the constraint that defines v; parameters have none.                    *)
Operands(v) == {u \in Range(Args(v)) : u # 0}
HasConstraint(v) == Op(v) # "param"

Vertices == Values \cup {-v : v \in {w \in Values : HasConstraint(w)}}

(* FindSCCs; a value that is not on a cycle is a component by itself, and  *)
(* so is its constraint.  A value leads to what every set contains that    *)
(* holds its users and theirs.                                             *)
Cycles(p) ==
  LET V == DOMAIN p.ins
      users == {x \in V \X V : x[1] \in Range(p.ins[x[2]].args)}
      closed == {S \in SUBSET V : \A x \in users : x[1] \in S => x[2] \in S}
      around(v) == {S \in closed : \A x \in users : x[1] = v => x[2] \in S}
      paths == UNION {{v} \X (V \ UNION {V \ S : S \in around(v)}) : v \in V}
  IN [v \in V |-> {w \in V : <<v, w>> \in paths /\ <<w, v>> \in paths}]

-----------------------------------------------------------------------------
(* The constraints' Eval.                                                  *)
Just(k) == NewIntInterval(Fin(k), Fin(k))
AtLeastZero == NewIntInterval(Fin(0), PInfinity)
InfinityFor(t) == IF Unsigned(t) THEN AtLeastZero ELSE NewIntInterval(NInfinity, PInfinity)

(* What Solve gives to a value without a known range.                      *)
Default(v) == IF Type(v) \in IntTypes THEN InfinityFor(Type(v)) ELSE AtLeastZero

(* IntConversionConstraint, whose value depends on the range that the      *)
(* result has so far.                                                      *)
Conversion(fromI, toI, fromT, toT) ==
  LET n == Fin(2 ^ Bits(fromT) - 1)
      larger == Bits(toT) > Bits(fromT)
  IN IF ~fromI.known THEN toI
     ELSE IF ~toI.known THEN fromI
     ELSE IF Unsigned(fromT) /\ larger
          THEN NewIntInterval(MaxZ(Fin(0), fromI.lower), MinZ(n, toI.upper))
     ELSE IF ~Unsigned(fromT) /\ ~Unsigned(toT) /\ larger
          THEN NewIntInterval(MaxZ(NInfinity, fromI.lower), MinZ(n, toI.upper))
     ELSE fromI

(* StringSliceConstraint, SliceSliceConstraint and ArraySliceConstraint,   *)
(* where the operand is an array of length k.                              *)
AtZero(z) == IF Sign(z) = -1 THEN Fin(0) ELSE z

Slice(lr, ur) ==
  LET a == AtZero(SubZ(ur.lower, lr.lower))
      b == AtZero(SubZ(ur.upper, lr.lower))
      c == AtZero(SubZ(ur.lower, lr.upper))
      d == AtZero(SubZ(ur.upper, lr.upper))
  IN IF lr.known /\ ur.known THEN NewIntInterval(MinZ4(a, b, c, d), MaxZ4(a, b, c, d))
     ELSE Unknown

(* MakeSliceConstraint and MakeChannelConstraint.                          *)
Make(i) == IF Sign(i.lower) = -1 THEN [i EXCEPT !.lower = Fin(0)] ELSE i

Arithmetic(op, i1, i2) ==
  IF ~i1.known \/ ~i2.known THEN Unknown
  ELSE CASE op \in {"add", "append"} -> Add(i1, i2)
         [] op = "sub" -> Sub(i1, i2)
         [] op = "mul" -> Mul(i1, i2)

(* PhiConstraint; the order of the operands makes no difference, nor does  *)
(* one that occurs twice.                                                  *)
Joined(a, r) ==
  LET upTo[n \in 0..Len(a)] == IF n = 0 THEN EmptyIntInterval ELSE Union(r[a[n]], upTo[n - 1])
  IN upTo[Len(a)]

Eval(v, r) ==
  LET a == Args(v)
  IN CASE Op(v) = "const" -> Just(prog.ins[v].k)
       [] Op(v) = "call" -> NewIntInterval(Fin(prog.ins[v].k), PInfinity)
       [] Op(v) = "phi" -> Joined(a, r)
       [] Op(v) \in {"add", "sub", "mul", "append"} -> Arithmetic(Op(v), r[a[1]], r[a[2]])
       [] Op(v) = "len" -> IF r[a[1]].known THEN r[a[1]] ELSE AtLeastZero
       [] Op(v) = "copy" -> r[a[1]]
       [] Op(v) = "make" -> Make(r[a[1]])
       [] Op(v) = "slice" -> Slice(IF a[2] = 0 THEN Just(0) ELSE r[a[2]],
                                   IF a[3] = 0 THEN r[a[1]] ELSE r[a[3]])
       [] Op(v) = "arrayslice" -> Slice(IF a[1] = 0 THEN Just(0) ELSE r[a[1]],
                                        IF a[2] = 0 THEN Just(prog.ins[v].k) ELSE r[a[2]])
       [] Op(v) = "convert" -> Conversion(r[a[1]], r[v], Type(a[1]), Type(v))

(* The constants of Solve, each with its neighbours.                       *)
Consts ==
  LET ks == {prog.ins[v].k : v \in {w \in Values : Op(w) = "const" /\ Type(w) \in IntTypes}}
  IN UNION {{Fin(k - 1), Fin(k), Fin(k + 1)} : k \in ks}

-----------------------------------------------------------------------------
(* The constraints that read the values in S, and the first of those that  *)
(* are left, in the order of Graph.Edges.                                  *)
UsesOf(S, here) == {w \in Values : Operands(w) \cap S # {} /\ (w \in comp <=> here)}

Use == CHOOSE w \in uses : \A x \in uses : w <= x

(* Bug: what is unknown stays unknown.                                     *)
FillNothing(S, r) == r

Fill(S, r) == [v \in Values |-> IF v \in S /\ ~r[v].known THEN Default(v) ELSE r[v]]

-----------------------------------------------------------------------------
Init ==
  /\ prog \in Programs
  /\ scc = Cycles(prog)
  /\ consts = Consts
  /\ ranges = [v \in Values |-> Unknown]
  /\ solved = {}
  /\ phase = "pick"
  /\ comp = {}
  /\ work = <<>>
  /\ uses = {}
  /\ env = [v \in Values |-> NotYet]
  /\ pc = 1

(* A component of one vertex: a constraint whose operands are solved ...   *)
SolveConstraint(v) ==
  /\ phase = "pick" /\ scc[v] = {} /\ HasConstraint(v)
  /\ -v \notin solved /\ Operands(v) \subseteq solved
  /\ ranges' = [ranges EXCEPT ![v] = Eval(v, ranges)]
  /\ solved' = solved \cup {-v}
  /\ UNCHANGED <<prog, scc, consts, phase, comp, work, uses, env, pc>>

(* ... or a value whose constraint is.                                     *)
SolveValue(v) ==
  /\ phase = "pick" /\ scc[v] = {}
  /\ v \notin solved /\ (HasConstraint(v) => -v \in solved)
  /\ ranges' = Fill({v}, ranges)
  /\ solved' = solved \cup {v}
  /\ phase' = "propagate"
  /\ uses' = UsesOf({v}, FALSE)
  /\ UNCHANGED <<prog, scc, consts, comp, work, env, pc>>

(* The end of an iteration of Solve: what reads the component's values     *)
(* from outside is evaluated.                                              *)
Propagate ==
  /\ phase = "propagate" /\ uses # {}
  /\ ranges' = [ranges EXCEPT ![Use] = Eval(Use, ranges)]
  /\ uses' = uses \ {Use}
  /\ UNCHANGED <<prog, scc, consts, solved, phase, comp, work, env, pc>>

EndPropagate ==
  /\ phase = "propagate" /\ uses = {}
  /\ phase' = "pick"
  /\ comp' = {}
  /\ UNCHANGED <<prog, scc, consts, ranges, solved, work, uses, env, pc>>

(* A component with a cycle: entries, in the order of a Go map.            *)
StartComponent(v) ==
  /\ phase = "pick" /\ scc[v] # {} /\ v \notin solved
  /\ \A w \in scc[v] : Operands(w) \subseteq solved \cup scc[v]
  /\ comp' = scc[v]
  /\ phase' = "widen"
  /\ work' \in SetToSeqs({w \in scc[v] : ranges[w].known})
  /\ UNCHANGED <<prog, scc, consts, ranges, solved, uses, env, pc>>

(* Both loops take a value from the stack ...                              *)
Pop ==
  /\ phase \in {"widen", "narrow"} /\ uses = {} /\ work # <<>>
  /\ work' = Front(work)
  /\ uses' = UsesOf({Last(work)}, TRUE)
  /\ UNCHANGED <<prog, scc, consts, ranges, solved, phase, comp, env, pc>>

(* ... and put back what a use of it changes.  Channels never change.      *)
Change(p, w, changes, new) ==
  /\ phase = p /\ uses # {}
  /\ IF Type(w) # "chan" /\ changes
     THEN ranges' = [ranges EXCEPT ![w] = new] /\ work' = Append(work, w)
     ELSE UNCHANGED <<ranges, work>>
  /\ uses' = uses \ {w}
  /\ UNCHANGED <<prog, scc, consts, solved, phase, comp, env, pc>>

Widen ==
  LET w == Use
      ni == Eval(w, ranges)
  IN Change("widen", w, WidenChanges(ranges[w], ni), WidenInterval(consts, ranges[w], ni))

Narrow ==
  LET w == Use
      ni == Eval(w, ranges)
  IN Change("narrow", w, NarrowChanges(ranges[w], ni), NarrowInterval(ranges[w], ni))

(* The integers that are still unknown are filled, and everything in the   *)
(* component becomes active.                                               *)
EndWiden ==
  /\ phase = "widen" /\ uses = {} /\ work = <<>>
  /\ ranges' = Fill({v \in comp : Type(v) \in IntTypes}, ranges)
  /\ phase' = "narrow"
  /\ work' \in SetToSeqs(comp)
  /\ UNCHANGED <<prog, scc, consts, solved, comp, uses, env, pc>>

EndComponent ==
  /\ phase = "narrow" /\ uses = {} /\ work = <<>>
  /\ solved' = solved \cup comp \cup {-v : v \in comp}
  /\ phase' = "propagate"
  /\ uses' = UsesOf(comp, FALSE)
  /\ UNCHANGED <<prog, scc, consts, ranges, comp, work, env, pc>>

(* The end of Solve: a signed integer whose range leaves its type may have *)
(* wrapped around.                                                         *)
Wraps(t, i) ==
  /\ t \in IntTypes /\ ~Unsigned(t) /\ i.upper # PInfinity
  /\ Cmp(i.upper, Fin(MaxOf(t))) = 1 \/ Cmp(i.lower, Fin(MinOf(t))) = -1

Return ==
  /\ phase = "pick" /\ solved = Vertices
  /\ ranges' = [v \in Values |-> IF Wraps(Type(v), ranges[v])
                                 THEN NewIntInterval(NInfinity, PInfinity) ELSE ranges[v]]
  /\ phase' = "run"
  /\ UNCHANGED <<prog, scc, consts, solved, comp, work, uses, env, pc>>

-----------------------------------------------------------------------------
(* Running the function.  A run ends where an operation panics or where a  *)
(* result does not fit its type.                                           *)
Fits(t, x) == IF t \in IntTypes THEN x \in MinOf(t)..MaxOf(t) ELSE x \in 0..MaxOf("int")

Results(v, e) ==
  LET x == e[Args(v)[1]]
      y == e[Args(v)[2]]
      bound(i, default) == IF Args(v)[i] = 0 THEN default ELSE e[Args(v)[i]]
      length(lo, hi) == IF 0 <= lo /\ lo <= hi THEN {hi - lo} ELSE {}
  IN CASE Op(v) = "const" -> {prog.ins[v].k}
       [] Op(v) = "param" -> Inputs
       [] Op(v) = "call" -> {i \in Inputs : i >= prog.ins[v].k}
       [] Op(v) = "phi" -> {e[u] : u \in Operands(v)} \ {NotYet}
       [] Op(v) \in {"add", "append"} -> {x + y}
       [] Op(v) = "sub" -> {x - y}
       [] Op(v) = "mul" -> {x * y}
       [] Op(v) \in {"len", "copy", "convert", "make"} -> {x}
       [] Op(v) = "slice" -> length(bound(2, 0), bound(3, x))
       [] Op(v) = "arrayslice" -> IF bound(2, 0) > prog.ins[v].k THEN {}
                                  ELSE length(bound(1, 0), bound(2, prog.ins[v].k))

Heads == (prog.entry + 1)..(prog.entry + prog.heads)

(* The phis of the head take their values at once, the first time those    *)
(* from outside of the loop.                                               *)
EnterHead ==
  /\ phase = "run" /\ pc = prog.entry + 1
  /\ env' = [v \in Values |-> IF v \notin Heads THEN env[v]
                              ELSE env[Args(v)[IF env[v] = NotYet THEN 1 ELSE 2]]]
  /\ pc' = pc + prog.heads
  /\ UNCHANGED <<prog, scc, consts, ranges, solved, phase, comp, work, uses>>

Execute ==
  /\ phase = "run" /\ pc \notin Heads /\ pc \in Values
  /\ \E x \in Results(pc, env) : Fits(Type(pc), x) /\ env' = [env EXCEPT ![pc] = x]
  /\ pc' = IF pc = Len(prog.ins) THEN prog.entry + 1 ELSE pc + 1
  /\ UNCHANGED <<prog, scc, consts, ranges, solved, phase, comp, work, uses>>

Solve ==
  \/ \E v \in Values : SolveConstraint(v) \/ SolveValue(v) \/ StartComponent(v)
  \/ Pop \/ Widen \/ EndWiden \/ Narrow \/ EndComponent
  \/ Propagate \/ EndPropagate \/ Return

(* The run is over: the operation panics, or its result does not fit.       *)
Halted ==
  /\ phase = "run" /\ pc \notin Heads
  /\ pc \in Values => \A x \in Results(pc, env) : ~Fits(Type(pc), x)

Next == Solve \/ EnterHead \/ Execute \/ (Halted /\ UNCHANGED vars)

Spec == Init /\ [][Next]_vars

-----------------------------------------------------------------------------
(* What Solve returns holds when the function runs: no value of any        *)
(* iteration of the loop lies outside of the range that vrp.go derived for *)
(* it, as long as no operation wraps around.                               *)
RangesHold ==
  phase = "run" => \A v \in Values : env[v] # NotYet => Includes(ranges[v], env[v])

(* The bounds of an unknown interval are nil pointers.  Whatever is popped *)
(* from a worklist or has been solved is known, and widening leaves        *)
(* nothing unknown behind, so that Make, narrow and the loop at the end of *)
(* Solve never read one.                                                   *)
NilBoundsNeverRead ==
  /\ \A v \in Values : v \in solved => ranges[v].known
  /\ \A i \in DOMAIN work : ranges[work[i]].known
  /\ phase = "widen" /\ uses = {} /\ work = <<>> => \A v \in comp : ranges[v].known

(* A value that widen puts back on the worklist has a larger range than    *)
(* before, one that narrow puts back a smaller one (narrowIntInterval      *)
(* would also move a bound outwards).  Widening stops at finitely many     *)
(* constants, narrowing has finitely many bounds to bring in from          *)
(* infinity, so this is what makes the two loops end.  It holds as long as *)
(* no range is empty; MakeSliceConstraint makes one of a negative size.    *)
Progress ==
  phase = phase' /\ phase \in {"widen", "narrow"}
  => /\ \A v \in comp : IF phase = "widen"
                        THEN ranges[v].known => Within(ranges[v], ranges'[v])
                        ELSE Within(ranges'[v], ranges[v])
     /\ Len(work') > Len(work) => ranges' # ranges

(* Every step of the two loops of Solve makes such progress.               *)
LoopsMakeProgress == [][Progress]_vars

(* A channel that UnbufferedChannel (staticcheck/rules.go) takes for       *)
(* unbuffered never has a buffer.                                          *)
UnbufferedIsUnbuffered ==
  phase = "run" =>
    \A v \in Values :
      Type(v) = "chan" /\ ranges[v].known /\ ranges[v].lower = Fin(0) /\ ranges[v].upper = Fin(0)
      => env[v] \in {0, NotYet}
=============================================================================
