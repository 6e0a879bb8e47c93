----------------------------- MODULE FinishBody -----------------------------
(***************************************************************************)
(* The end of Function.finishBody (ssa/func.go): the dominator tree is     *)
(* built (Dominators) and, unless the program is built in naive form, the  *)
(* function is lifted with it (Lift).                                      *)
(***************************************************************************)
EXTENDS Lift

VARIABLES domPhase, i, order, pre, post, parent, sdom, ancestor, bucket, idom, loops

domVars == <<domPhase, i, order, pre, post, parent, sdom, ancestor, bucket, idom, loops>>
liftVars == <<program, phase, allocs, lifted, placing, code, referrers, gaps, pending, body, run>>
allVars == <<vars, domVars>>

GraphOf(p) == [succs |-> p.succs, recover |-> p.recover]

Dom == INSTANCE Dominators WITH
  graph <- GraphOf(program), phase <- domPhase, Graphs <- {GraphOf(p) : p \in Programs}

ASSUME GraphsAssumption == Dom!ConstantsOK

FinishInit == Init /\ Dom!Init

BuildDomTree == UNCHANGED liftVars /\ Dom!Next

(* With mode NaiveForm lift is not called.                                 *)
StartLift ==
  /\ phase = "tree" /\ domPhase = "done" /\ ~program.naive
  /\ phase' = "place"
  /\ UNCHANGED <<given, allocs, lifted, placing, code, referrers, gaps, pending, body, run, domVars>>

LiftStep == Next /\ UNCHANGED domVars

Finished == phase = "done" \/ (program.naive /\ domPhase = "done")

FinishNext ==
  \/ BuildDomTree
  \/ StartLift
  \/ LiftStep
  \/ Finished /\ UNCHANGED allVars

FinishSpec == FinishInit /\ [][FinishNext]_allVars

-----------------------------------------------------------------------------
(* buildDomTree finds the dominators of every graph (Dominators).          *)
DominatesIsRight == Dom!DominatesIsRight

(* buildDomFrontier finds where the dominance of a block ends (Dominators).*)
FrontierIsRight == Dom!FrontierIsRight

(* findLoops finds each natural loop, once (Dominators).                   *)
LoopsAreNatural == Dom!LoopsAreNatural
=============================================================================
