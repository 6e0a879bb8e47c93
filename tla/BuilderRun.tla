----------------------------- MODULE BuilderRun -----------------------------
(***************************************************************************)
(* A program is built, the SSA form runs (SsaMachine) against an           *)
(* environment that answers calls, receives, lookups and selects as it     *)
(* likes, and what it does is compared with what its source says.  The     *)
(* translation and the meaning of a program are parameters: Builder and    *)
(* GoSemantics give them.                                                  *)
(***************************************************************************)
EXTENDS Sanity, SsaMachine, Simple

CONSTANTS Translation(_),  \* what builder.go makes of a program
          Meaning(_, _),   \* what a program does when the environment answers so
          Programs,        \* function literals and packages
          MaxAnswers       \* answers of the environment in one run

ASSUME MaxAnswersAssumption == MaxAnswers \in Nat

VARIABLES prog,            \* the program
          fn,              \* the Function that is built from it
          alts,            \* what simple/lint.go would have prog changed to
          m,               \* the machine that runs fn
          in               \* what the environment has answered

vars == <<prog, fn, alts, m, in>>

isPackage(p) == p.k = "package"

\* The globals of a package, as cells of the store; the guard is the last.
GlobalIds(p) ==
  SetToSeq({x \in UNION {{v.lhs[j] : j \in DOMAIN v.lhs} : v \in Range(p.vars)} : ~isBlankIdent(x)})
StartOf(p) ==
  IF ~isPackage(p) THEN Start(1, <<>>, <<>>)
  ELSE LET gs == GlobalIds(p)
           n  == Len(gs)
       IN Start(2, [x \in {gs[i].n : i \in 1..n} \cup {"init$guard"} |->
                      IF x = "init$guard" THEN n + 1 ELSE CHOOSE i \in 1..n : gs[i].n = x],
                [i \in 1..(n + 1) |-> IF i > n THEN BoolV(FALSE) ELSE Zero(gs[i].t)])

Init == prog \in Programs /\ fn = NoFunction /\ alts = {} /\ m = Start(1, <<>>, <<>>) /\ in = <<>>

Build ==
  /\ fn = NoFunction
  /\ fn' = Translation(prog)
  /\ alts' = IF isPackage(prog) THEN {} ELSE Variants(prog)
  /\ m' = Run(StartOf(prog), fn')
  /\ UNCHANGED <<prog, in>>

Answer ==
  /\ m.st = "wait" /\ Len(in) < MaxAnswers
  /\ \E a \in m.wait : in' = Append(in, a) /\ m' = Run(Resume(m, fn, a), fn)
  /\ UNCHANGED <<prog, fn, alts>>

Next == Build \/ Answer
Spec == Init /\ [][Next]_vars

-----------------------------------------------------------------------------
(***************************************************************************)
(* builder.go translates faithfully: whatever the environment answers, the *)
(* SSA form makes the calls, sends and receives of the source, in the same *)
(* order and with the same operands, and ends as the source does.          *)
(***************************************************************************)
BuiltCodeIsTheSource == fn # NoFunction => m.out = Meaning(prog, in)

(***************************************************************************)
(* What the builder leaves passes sanity.go: the blocks are linked both    *)
(* ways and end in a control instruction, phis have an edge for each       *)
(* predecessor, Locals has exactly the variables that do not escape, and   *)
(* a register is defined on every path to its uses.                        *)
(***************************************************************************)
BuiltCodeIsSane == fn # NoFunction => checkFunction(fn)

(***************************************************************************)
(* A suggestion of simple/lint.go changes what a program does only where   *)
(* its check overlooks something (Overlooked names what): wherever else in *)
(* a program it is made, and whatever the environment answers, the text it *)
(* asks for makes the calls, sends and receives of the program in the same *)
(* order and with the same operands, and ends the same.  Where the program *)
(* fails with a run-time error the text may go on: copy does not fail      *)
(* where the loop it replaces does.                                        *)
(***************************************************************************)
Fails(out) == out # <<>> /\ Last(out) = <<"panic", RuntimeError>>
SuggestionsKeepBehaviour ==
  \A v \in {w \in alts : ~w.careless} :
    LET is    == Meaning(prog, in)
        would == Meaning(v.text, in)
    IN would = is \/ (Fails(is) /\ IsPrefix(Front(is), would))
=============================================================================
