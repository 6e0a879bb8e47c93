------------------------- MODULE DescriptionsProofs -------------------------
(***************************************************************************)
(* Proofs about Descriptions, for every program, every number of jobs and  *)
(* every bound on the number of calls.                                     *)
(***************************************************************************)
EXTENDS Descriptions, TLAPS, SequenceTheorems

(***************************************************************************)
(* Reachability is reflexive and transitive and contains the edges.        *)
(***************************************************************************)
LEMMA ReachesReflexive ==
  ASSUME NEW next, NEW f PROVE Reaches(next, f, f)
BY DEF Reaches

LEMMA ReachesEdge ==
  ASSUME NEW next, NEW f, NEW g \in next[f] PROVE Reaches(next, f, g)
BY DEF Reaches, ClosedUnder

LEMMA ReachesTransitive ==
  ASSUME NEW next, NEW f, NEW g, NEW h, Reaches(next, f, g), Reaches(next, g, h)
  PROVE  Reaches(next, f, h)
BY DEF Reaches

(***************************************************************************)
(* Whatever f reaches other than itself it reaches through a successor     *)
(* other than itself.                                                      *)
(***************************************************************************)
LEMMA ReachesUnfold ==
  ASSUME NEW next \in [Funcs -> SUBSET Funcs], NEW f \in Funcs, NEW g \in Funcs,
         Reaches(next, f, g), g # f
  PROVE  \E h \in next[f] \ {f} : Reaches(next, h, g)
<1> DEFINE S == {f} \cup {x \in Funcs : \E h \in next[f] \ {f} : Reaches(next, h, x)}
<1>1. S \in SUBSET Funcs
  OBVIOUS
<1>2. ASSUME NEW x \in S, NEW y \in next[x] PROVE y \in S
  <2>1. y \in Funcs
    BY <1>1
  <2>2. CASE x = f
    BY <2>1, <2>2, ReachesReflexive
  <2>3. CASE x # f
    <3>1. PICK h \in next[f] \ {f} : Reaches(next, h, x)
      BY <2>3
    <3>2. Reaches(next, h, y)
      BY <3>1, ReachesEdge, ReachesTransitive
    <3> QED
      BY <2>1, <3>2
  <2> QED
    BY <2>2, <2>3
<1>3. ClosedUnder(S, next)
  BY <1>2 DEF ClosedUnder
<1>4. g \in S
  BY <1>1, <1>3 DEF Reaches
<1> QED
  BY <1>4

-----------------------------------------------------------------------------
(***************************************************************************)
(* What the stack operations do.                                           *)
(***************************************************************************)
LEMMA PushStack ==
  ASSUME TypeOK, NEW t \in Jobs, NEW f \in Funcs, Push(t, f)
  PROVE  /\ stack' \in [Jobs -> Seq(Frame)]
         /\ \A u \in Jobs \ {t} : stack'[u] = stack[u]
         /\ Len(stack'[t]) = Len(stack[t]) + 1
         /\ \A i \in 1 .. Len(stack[t]) : stack'[t][i] = stack[t][i]
         /\ stack'[t][Len(stack[t]) + 1] = [fn |-> f, pos |-> 1]
<1> DEFINE fr == [fn |-> f, pos |-> 1]
<1>1. fr \in Frame
  BY DEF Frame
<1>2. stack \in [Jobs -> Seq(Frame)] /\ stack[t] \in Seq(Frame)
  BY DEF TypeOK
<1>3. stack' = [stack EXCEPT ![t] = Append(stack[t], fr)]
  BY DEF Push
<1> HIDE DEF fr
<1>4. /\ Append(stack[t], fr) \in Seq(Frame)
      /\ Len(Append(stack[t], fr)) = Len(stack[t]) + 1
      /\ \A i \in 1 .. Len(stack[t]) : Append(stack[t], fr)[i] = stack[t][i]
      /\ Append(stack[t], fr)[Len(stack[t]) + 1] = fr
  BY <1>1, <1>2, AppendProperties
<1> QED
  BY <1>2, <1>3, <1>4 DEF fr

LEMMA PopStack ==
  ASSUME TypeOK, NEW t \in Jobs, stack[t] # <<>>, Pop(t)
  PROVE  /\ stack' \in [Jobs -> Seq(Frame)]
         /\ \A u \in Jobs \ {t} : stack'[u] = stack[u]
         /\ Len(stack'[t]) = Len(stack[t]) - 1
         /\ \A i \in 1 .. Len(stack[t]) - 1 : stack'[t][i] = stack[t][i]
<1>1. stack \in [Jobs -> Seq(Frame)] /\ stack[t] \in Seq(Frame)
  BY DEF TypeOK
<1>2. Len(stack[t]) \in Nat \ {0}
  BY <1>1, EmptySeq
<1>3. /\ SubSeq(stack[t], 1, Len(stack[t]) - 1) \in Seq(Frame)
      /\ Len(SubSeq(stack[t], 1, Len(stack[t]) - 1)) = Len(stack[t]) - 1
      /\ \A i \in 1 .. Len(stack[t]) - 1 : SubSeq(stack[t], 1, Len(stack[t]) - 1)[i] = stack[t][i]
  <2>1. \A i \in 1 .. Len(stack[t]) - 1 : stack[t][i] \in Frame
    BY <1>1, <1>2
  <2>2. 1 \in Int /\ Len(stack[t]) - 1 \in Int
    BY <1>2
  <2> QED
    BY <1>2, <2>1, <2>2, SubSeqProperties
<1>4. stack' = [stack EXCEPT ![t] = SubSeq(stack[t], 1, Len(stack[t]) - 1)]
  BY DEF Pop
<1> QED
  BY <1>1, <1>3, <1>4

LEMMA AdvanceStack ==
  ASSUME TypeOK, NEW t \in Jobs, stack[t] # <<>>, Advance(t)
  PROVE  /\ stack' \in [Jobs -> Seq(Frame)]
         /\ \A u \in Jobs \ {t} : stack'[u] = stack[u]
         /\ Len(stack'[t]) = Len(stack[t])
         /\ \A i \in 1 .. Len(stack[t]) - 1 : stack'[t][i] = stack[t][i]
         /\ stack'[t][Len(stack[t])] =
              [fn |-> stack[t][Len(stack[t])].fn, pos |-> stack[t][Len(stack[t])].pos + 1]
<1>1. stack \in [Jobs -> Seq(Frame)] /\ stack[t] \in Seq(Frame)
  BY DEF TypeOK
<1>2. Len(stack[t]) \in Nat \ {0}
  BY <1>1, EmptySeq
<1> DEFINE n == Len(stack[t])
           fr == [stack[t][n] EXCEPT !.pos = stack[t][n].pos + 1]
<1>3. stack[t][n] \in Frame
  BY <1>1, <1>2
<1>4. fr \in Frame /\ fr = [fn |-> stack[t][n].fn, pos |-> stack[t][n].pos + 1]
  BY <1>3 DEF Frame
<1>5. stack' = [stack EXCEPT ![t] = [stack[t] EXCEPT ![n] = fr]]
  BY DEF Advance
<1> HIDE DEF fr
<1>6. /\ [stack[t] EXCEPT ![n] = fr] \in Seq(Frame)
      /\ Len([stack[t] EXCEPT ![n] = fr]) = Len(stack[t])
      /\ \A i \in 1 .. n - 1 : [stack[t] EXCEPT ![n] = fr][i] = stack[t][i]
      /\ [stack[t] EXCEPT ![n] = fr][n] = fr
  BY <1>1, <1>2, <1>4, ExceptSeq
<1> QED
  BY <1>1, <1>4, <1>5, <1>6

-----------------------------------------------------------------------------
(***************************************************************************)
(* A job has an unfinished computation exactly where it needs one.         *)
(***************************************************************************)
StackShape ==
  \A t \in Jobs :
     /\ pc[t] \in {"body", "rest", "close"} => stack[t] # <<>>
     /\ pc[t] = "idle" => stack[t] = <<>>

TypeInv == TypeOK /\ StackShape

LEMMA TopType ==
  ASSUME TypeOK, NEW t \in Jobs, stack[t] # <<>>
  PROVE  Top(t) \in Frame /\ Top(t).fn \in Funcs /\ Len(stack[t]) \in Nat \ {0}
<1>1. stack[t] \in Seq(Frame)
  BY DEF TypeOK
<1>2. Len(stack[t]) \in Nat \ {0}
  BY <1>1, EmptySeq
<1>3. stack[t][Len(stack[t])] \in Frame
  BY <1>1, <1>2
<1> QED
  BY <1>2, <1>3 DEF Top, Frame

LEMMA ResultType ==
  ASSUME NEW r \in [Funcs -> Description], NEW f \in Funcs, NEW b \in BOOLEAN
  PROVE  /\ [r EXCEPT ![f].pure = @ \/ b] \in [Funcs -> Description]
         /\ [r EXCEPT ![f].rest = TRUE] \in [Funcs -> Description]
BY DEF Description

LEMMA TypeInit == Init => TypeInv
<1> SUFFICES ASSUME Init PROVE TypeInv
  OBVIOUS
<1>1. (CHOOSE f \in Funcs : TRUE) \in Funcs
  BY ConstantsAssumption
<1>2. nodes \subseteq Funcs
  <2>1. prog \in Program
    BY ProgramsAssumption DEF Init
  <2> QED
    BY <2>1 DEF Init, Program, StaticNodes, AllFunctions
<1>3. <<>> \in Seq(Frame)
  OBVIOUS
<1>4. NoDescription \in Description
  BY DEF NoDescription, Description
<1> QED
  <2>1. TypeOK
    <3>1. prog \in Programs /\ nodes \subseteq Funcs /\ mu \in Jobs \cup {NoJob}
      BY <1>2 DEF Init
    <3>2. cache \subseteq Funcs /\ ready \subseteq Funcs /\ result \in [Funcs -> Description]
      BY <1>4 DEF Init
    <3>3. pc \in [Jobs -> Locations] /\ want \in [Jobs -> Funcs]
      BY <1>1 DEF Init, Locations
    <3>4. stack \in [Jobs -> Seq(Frame)] /\ ret \in [Jobs -> Description]
      BY <1>3, <1>4 DEF Init
    <3>5. gets \in [Jobs -> 0 .. MaxGets]
      BY ConstantsAssumption DEF Init
    <3> QED
      BY <3>1, <3>2, <3>3, <3>4, <3>5 DEF TypeOK
  <2>2. StackShape
    BY DEF Init, StackShape
  <2> QED
    BY <2>1, <2>2 DEF TypeInv

LEMMA TypeNext == TypeInv /\ [Next]_vars => TypeInv'
<1> SUFFICES ASSUME TypeInv, [Next]_vars PROVE TypeInv'
  OBVIOUS
<1> USE DEF TypeInv
<1>1. ASSUME NEW t \in Jobs, CallGet(t) PROVE TypeInv'
  <2>1. \E f \in Funcs : want' = [want EXCEPT ![t] = f]
    BY <1>1 DEF CallGet, AllFunctions
  <2>2. gets' \in [Jobs -> 0 .. MaxGets]
    BY <1>1, ConstantsAssumption DEF CallGet, TypeOK
  <2> QED
    BY <1>1, <2>1, <2>2 DEF CallGet, Goto, TypeOK, StackShape, Locations
<1>2. ASSUME NEW t \in Jobs, Lock(t) \/ Miss(t) \/ Hit(t) PROVE TypeInv'
  BY <1>2 DEF Lock, Miss, Hit, Goto, TypeOK, StackShape, Locations
<1>3. ASSUME NEW t \in Jobs, Insert(t) PROVE TypeInv'
  <2>1. want[t] \in Funcs /\ Push(t, want[t])
    BY <1>3 DEF Insert, TypeOK
  <2>2. stack' \in [Jobs -> Seq(Frame)] /\ (\A u \in Jobs \ {t} : stack'[u] = stack[u])
        /\ Len(stack'[t]) = Len(stack[t]) + 1
    BY <2>1, PushStack
  <2>3. stack'[t] # <<>>
    BY <2>2, LenProperties DEF TypeOK
  <2>4. result' \in [Funcs -> Description]
    BY <1>3 DEF Insert, TypeOK, Description
  <2>5. TypeOK'
    BY <1>3, <2>1, <2>2, <2>4 DEF Insert, Goto, TypeOK, Locations
  <2>6. StackShape'
    BY <1>3, <2>2, <2>3 DEF Insert, Goto, TypeOK, StackShape
  <2> QED
    BY <2>5, <2>6
<1>4. ASSUME NEW t \in Jobs, Wait(t) PROVE TypeInv'
  BY <1>4 DEF Wait, Goto, TypeOK, StackShape, Locations
<1>5. ASSUME NEW t \in Jobs, PureEnd(t) \/ PureEffect(t) PROVE TypeInv'
  <2>1. PICK b \in BOOLEAN : FinishPure(t, b)
    BY <1>5 DEF PureEnd, PureEffect
  <2>2. pc[t] = "body" /\ stack[t] # <<>> /\ Top(t).fn \in Funcs
    BY <2>1, TopType DEF FinishPure, Goto, StackShape
  <2>3. result' \in [Funcs -> Description]
    BY <2>1, <2>2, ResultType DEF FinishPure, TypeOK
  <2>4. UNCHANGED <<prog, nodes, mu, cache, ready, want, stack, ret, gets>>
    BY <1>5 DEF PureEnd, PureEffect
  <2> QED
    BY <2>1, <2>2, <2>3, <2>4 DEF FinishPure, Goto, TypeOK, StackShape, Locations
<1>6. ASSUME NEW t \in Jobs, PureSelfCall(t) PROVE TypeInv'
  <2>1. pc[t] = "body" /\ stack[t] # <<>>
    BY <1>6 DEF PureSelfCall, AtInstr, StackShape
  <2>2. stack' \in [Jobs -> Seq(Frame)] /\ (\A u \in Jobs \ {t} : stack'[u] = stack[u])
        /\ Len(stack'[t]) = Len(stack[t])
    BY <1>6, <2>1, AdvanceStack DEF PureSelfCall
  <2>3. stack'[t] # <<>>
    BY <2>1, <2>2, TopType, LenProperties DEF TypeOK
  <2> QED
    BY <1>6, <2>1, <2>2, <2>3 DEF PureSelfCall, TypeOK, StackShape, Locations
<1>7. ASSUME NEW t \in Jobs, PureCall(t) PROVE TypeInv'
  <2>1. pc[t] = "body" /\ stack[t] # <<>> /\ Top(t).fn \in Funcs
    BY <1>7, TopType DEF PureCall, StackShape
  <2>2. PICK g \in Funcs :
          /\ nodes' = nodes \cup {g}
          /\ \/ FinishPure(t, FALSE) /\ UNCHANGED want
             \/ Goto(t, "body", "lock") /\ want' = [want EXCEPT ![t] = g] /\ UNCHANGED result
    BY <1>7 DEF PureCall
  <2>3. UNCHANGED <<prog, mu, cache, ready, stack, ret, gets>>
    BY <1>7 DEF PureCall
  <2>4. CASE FinishPure(t, FALSE) /\ UNCHANGED want
    <3>1. result' \in [Funcs -> Description]
      BY <2>1, <2>4, ResultType DEF FinishPure, TypeOK
    <3> QED
      BY <2>1, <2>2, <2>3, <2>4, <3>1 DEF FinishPure, Goto, TypeOK, StackShape, Locations
  <2>5. CASE Goto(t, "body", "lock") /\ want' = [want EXCEPT ![t] = g] /\ UNCHANGED result
    BY <2>1, <2>2, <2>3, <2>5 DEF Goto, TypeOK, StackShape, Locations
  <2> QED
    BY <2>2, <2>4, <2>5
<1>8. ASSUME NEW t \in Jobs, ComputeRest(t) PROVE TypeInv'
  <2>1. pc[t] = "rest" /\ Top(t).fn \in Funcs
    BY <1>8, TopType DEF ComputeRest, Goto, StackShape
  <2>2. result' \in [Funcs -> Description]
    BY <1>8, <2>1, ResultType DEF ComputeRest, TypeOK
  <2> QED
    BY <1>8, <2>1, <2>2 DEF ComputeRest, Goto, TypeOK, StackShape, Locations
<1>9. ASSUME NEW t \in Jobs, ReturnToCheck(t) PROVE TypeInv'
  BY <1>9 DEF ReturnToCheck, Goto, TypeOK, StackShape, Locations
<1>10. ASSUME NEW t \in Jobs, ReturnToPure(t) PROVE TypeInv'
  <2>1. stack[t] # <<>> /\ Top(t).fn \in Funcs /\ ret[t].pure \in BOOLEAN
    BY <1>10, TopType DEF ReturnToPure, TypeOK, Description
  <2>2. CASE Advance(t) /\ UNCHANGED result
    <3>1. stack' \in [Jobs -> Seq(Frame)] /\ (\A u \in Jobs \ {t} : stack'[u] = stack[u])
          /\ Len(stack'[t]) = Len(stack[t])
      BY <2>1, <2>2, AdvanceStack
    <3>2. stack'[t] # <<>>
      BY <2>1, <3>1, TopType, LenProperties DEF TypeOK
    <3> QED
      BY <1>10, <2>2, <3>1, <3>2 DEF ReturnToPure, Goto, TypeOK, StackShape, Locations
  <2>3. CASE result' = [result EXCEPT ![Top(t).fn].pure = @ \/ ret[t].pure] /\ UNCHANGED stack
    <3>1. result' \in [Funcs -> Description]
      BY <2>1, <2>3, ResultType DEF TypeOK
    <3> QED
      BY <1>10, <2>1, <2>3, <3>1 DEF ReturnToPure, Goto, TypeOK, StackShape, Locations
  <2> QED
    BY <1>10, <2>2, <2>3 DEF ReturnToPure
<1>11. ASSUME NEW t \in Jobs, Close(t) PROVE TypeInv'
  <2>1. pc[t] = "close" /\ stack[t] # <<>> /\ Top(t).fn \in Funcs
    BY <1>11, TopType DEF Close, Goto, StackShape
  <2>2. stack' \in [Jobs -> Seq(Frame)] /\ (\A u \in Jobs \ {t} : stack'[u] = stack[u])
    BY <1>11, <2>1, PopStack DEF Close
  <2> QED
    BY <1>11, <2>1, <2>2 DEF Close, Goto, TypeOK, StackShape, Locations
<1>12. CASE UNCHANGED vars
  BY <1>12 DEF vars, TypeOK, StackShape
<1> QED
  BY <1>1, <1>2, <1>3, <1>4, <1>5, <1>6, <1>7, <1>8, <1>9, <1>10, <1>11, <1>12
     DEF Next, Step, Finished

(* The variables always have their types, and a job that computes a        *)
(* description has its frame on the stack.                                 *)
THEOREM TypeCorrect == Spec => []TypeOK
<1>1. Spec => []TypeInv
  BY TypeInit, TypeNext, PTL DEF Spec
<1> QED
  BY <1>1, PTL DEF TypeInv

-----------------------------------------------------------------------------
(***************************************************************************)
(* Only Insert and Close change the functions on a stack, the cache and    *)
(* the closed channels.                                                    *)
(***************************************************************************)
SameFns ==
  \A u \in Jobs :
     /\ Len(stack'[u]) = Len(stack[u])
     /\ \A i \in 1 .. Len(stack[u]) : stack'[u][i].fn = stack[u][i].fn

QuietStep(t) ==
  \/ CallGet(t) \/ Lock(t) \/ Miss(t) \/ Hit(t) \/ Wait(t)
  \/ PureEnd(t) \/ PureEffect(t) \/ PureSelfCall(t) \/ PureCall(t)
  \/ ComputeRest(t) \/ ReturnToCheck(t) \/ ReturnToPure(t)

LEMMA NextKinds ==
  ASSUME [Next]_vars
  PROVE  \/ \E t \in Jobs : QuietStep(t) \/ Insert(t) \/ Close(t)
         \/ UNCHANGED vars
BY DEF Next, Step, Finished, QuietStep

LEMMA AdvanceSameFns ==
  ASSUME TypeOK, NEW t \in Jobs, stack[t] # <<>>, Advance(t)
  PROVE  SameFns
<1>1. Len(stack[t]) \in Nat \ {0}
  BY TopType
<1>2. /\ \A u \in Jobs \ {t} : stack'[u] = stack[u]
      /\ Len(stack'[t]) = Len(stack[t])
      /\ \A i \in 1 .. Len(stack[t]) - 1 : stack'[t][i] = stack[t][i]
      /\ stack'[t][Len(stack[t])].fn = stack[t][Len(stack[t])].fn
  <2>1. stack'[t][Len(stack[t])] =
          [fn |-> stack[t][Len(stack[t])].fn, pos |-> stack[t][Len(stack[t])].pos + 1]
    BY AdvanceStack
  <2>2. stack'[t][Len(stack[t])].fn = stack[t][Len(stack[t])].fn
    BY <2>1
  <2> QED
    BY <2>2, AdvanceStack
<1>3. \A i \in 1 .. Len(stack[t]) : i \in 1 .. Len(stack[t]) - 1 \/ i = Len(stack[t])
  BY <1>1
<1> QED
  BY <1>2, <1>3 DEF SameFns

LEMMA QuietIsQuiet ==
  ASSUME TypeInv, NEW t \in Jobs, QuietStep(t)
  PROVE  SameFns /\ UNCHANGED <<prog, cache, ready>>
<1>1. UNCHANGED <<prog, cache, ready>>
  BY DEF QuietStep, CallGet, Lock, Miss, Hit, Wait, PureEnd, PureEffect, PureSelfCall,
         PureCall, ComputeRest, ReturnToCheck, ReturnToPure
<1>2. UNCHANGED stack \/ (stack[t] # <<>> /\ Advance(t))
  BY DEF QuietStep, CallGet, Lock, Miss, Hit, Wait, PureEnd, PureEffect, PureSelfCall,
         PureCall, ComputeRest, ReturnToCheck, ReturnToPure, AtInstr, TypeInv, StackShape
<1>3. UNCHANGED stack => SameFns
  BY DEF SameFns
<1> QED
  BY <1>1, <1>2, <1>3, AdvanceSameFns DEF TypeInv

(***************************************************************************)
(* The mutex covers the lookup and the insertion, so the entry a job found *)
(* missing is still missing when it inserts one.                           *)
(***************************************************************************)
Mutex == \A t \in Jobs : pc[t] \in {"lookup", "insert"} => mu = t
StillMissing == \A t \in Jobs : pc[t] = "insert" => want[t] \notin cache
WriterInv == Mutex /\ StillMissing /\ SingleWriter

LEMMA WriterInit == Init => WriterInv
BY DEF Init, WriterInv, Mutex, StillMissing, SingleWriter, OnStack

LEMMA Unique ==
  ASSUME SingleWriter, NEW u \in Jobs, NEW v \in Jobs, NEW i \in 1 .. Len(stack[u]),
         NEW j \in 1 .. Len(stack[v]), stack[u][i].fn = stack[v][j].fn
  PROVE  u = v /\ i = j
BY DEF SingleWriter

LEMMA WriterNext == TypeInv /\ TypeInv' /\ WriterInv /\ [Next]_vars => WriterInv'
<1> SUFFICES ASSUME TypeInv, TypeInv', WriterInv, [Next]_vars PROVE WriterInv'
  OBVIOUS
<1>1. ASSUME NEW t \in Jobs, QuietStep(t) PROVE WriterInv'
  <2>1. SameFns /\ UNCHANGED <<prog, cache, ready>>
    BY <1>1, QuietIsQuiet
  <2>2. SingleWriter'
    <3>1. \A u \in Jobs, f \in Funcs : OnStack(u, f)' <=> OnStack(u, f)
      BY <2>1 DEF SameFns, OnStack
    <3> QED
      BY <2>1, <3>1 DEF SameFns, SingleWriter, WriterInv
  <2>3. Mutex' /\ StillMissing'
    <3> USE <2>1, ConstantsAssumption
            DEF Goto, WriterInv, Mutex, StillMissing, TypeInv, TypeOK
    <3>1. CASE CallGet(t) \/ Lock(t) \/ Miss(t) \/ Hit(t)
      BY <3>1 DEF CallGet, Lock, Miss, Hit
    <3>2. CASE Wait(t) \/ ReturnToCheck(t) \/ ComputeRest(t)
      BY <3>2 DEF Wait, ReturnToCheck, ComputeRest
    <3>3. CASE PureEnd(t) \/ PureEffect(t) \/ PureSelfCall(t)
      BY <3>3 DEF PureEnd, PureEffect, PureSelfCall, FinishPure
    <3>4. CASE PureCall(t)
      <4>1. /\ UNCHANGED <<mu, cache>>
            /\ pc[t] = "body" /\ \E q \in {"rest", "lock"} : pc' = [pc EXCEPT ![t] = q]
            /\ \A u \in Jobs \ {t} : want'[u] = want[u]
        BY <3>4 DEF PureCall, FinishPure
      <4> QED
        BY <4>1
    <3>5. CASE ReturnToPure(t)
      BY <3>5 DEF ReturnToPure
    <3> QED
      BY <1>1, <3>1, <3>2, <3>3, <3>4, <3>5 DEF QuietStep
  <2> QED
    BY <2>2, <2>3 DEF WriterInv
<1>2. ASSUME NEW t \in Jobs, Insert(t) PROVE WriterInv'
  <2> DEFINE f == want[t]
             n == Len(stack[t])
  <2>1. f \in Funcs /\ f \notin cache /\ mu = t /\ n \in Nat
    BY <1>2 DEF Insert, Goto, WriterInv, StillMissing, Mutex, TypeInv, TypeOK
  <2>2. /\ \A u \in Jobs \ {t} : stack'[u] = stack[u]
        /\ Len(stack'[t]) = n + 1
        /\ \A i \in 1 .. n : stack'[t][i] = stack[t][i]
        /\ stack'[t][n + 1].fn = f
    <3>1. Push(t, f)
      BY <1>2 DEF Insert
    <3>2. stack'[t][n + 1] = [fn |-> f, pos |-> 1]
      BY <2>1, <3>1, PushStack DEF TypeInv
    <3>3. stack'[t][n + 1].fn = f
      BY <3>2
    <3> QED
      BY <2>1, <3>1, <3>3, PushStack DEF TypeInv
  <2>3. cache' = cache \cup {f} /\ ready' = ready /\ f \notin ready
    BY <1>2, <2>1 DEF Insert, WriterInv, SingleWriter
  <2>4. \A u \in Jobs : \A i \in 1 .. Len(stack[u]) : stack[u][i].fn # f
    BY <2>1 DEF WriterInv, SingleWriter, OnStack
  <2>5. \A u \in Jobs : \A i \in 1 .. Len(stack'[u]) :
           (i \in 1 .. Len(stack[u]) /\ stack'[u][i] = stack[u][i]) \/ (u = t /\ i = n + 1)
    BY <2>1, <2>2
  <2>6. \A u \in Jobs, g \in Funcs : OnStack(u, g)' <=> OnStack(u, g) \/ (u = t /\ g = f)
    <3>1. ASSUME NEW u \in Jobs, NEW g \in Funcs, OnStack(u, g)'
          PROVE  OnStack(u, g) \/ (u = t /\ g = f)
      BY <2>2, <2>5, <3>1 DEF OnStack
    <3>2. ASSUME NEW u \in Jobs, NEW g \in Funcs, OnStack(u, g)
          PROVE  OnStack(u, g)'
      <4>1. PICK i \in 1 .. Len(stack[u]) : stack[u][i].fn = g
        BY <3>2 DEF OnStack
      <4>2. i \in 1 .. Len(stack'[u]) /\ stack'[u][i].fn = g
        BY <2>1, <2>2, <4>1
      <4> QED
        BY <4>2 DEF OnStack
    <3>3. ASSUME NEW g \in Funcs, g = f
          PROVE  OnStack(t, g)'
      <4>1. n + 1 \in 1 .. Len(stack'[t]) /\ stack'[t][n + 1].fn = g
        BY <2>1, <2>2, <3>3
      <4> QED
        BY <4>1 DEF OnStack
    <3> QED
      BY <3>1, <3>2, <3>3
  <2>7. SingleWriter'
    <3>1. ready' \subseteq cache'
      BY <2>3 DEF WriterInv, SingleWriter
    <3>2. \A g \in Funcs : g \in cache' \ ready' <=> \E u \in Jobs : OnStack(u, g)'
      BY <2>3, <2>6 DEF WriterInv, SingleWriter
    <3>3. ASSUME NEW u \in Jobs, NEW v \in Jobs, NEW i \in 1 .. Len(stack'[u]),
                 NEW j \in 1 .. Len(stack'[v]), stack'[u][i].fn = stack'[v][j].fn
          PROVE  u = v /\ i = j
      <4>1. CASE u = t /\ i = n + 1
        BY <2>2, <2>4, <2>5, <3>3, <4>1
      <4>2. CASE v = t /\ j = n + 1
        BY <2>2, <2>4, <2>5, <3>3, <4>2
      <4>3. CASE ~(u = t /\ i = n + 1) /\ ~(v = t /\ j = n + 1)
        <5>1. i \in 1 .. Len(stack[u]) /\ j \in 1 .. Len(stack[v])
              /\ stack[u][i].fn = stack[v][j].fn
          BY <2>5, <3>3, <4>3
        <5> QED
          BY <5>1, Unique DEF WriterInv
      <4> QED
        BY <4>1, <4>2, <4>3
    <3> QED
      BY <3>1, <3>2, <3>3 DEF SingleWriter
  <2>8. Mutex' /\ StillMissing'
    BY <1>2, <2>1, ConstantsAssumption DEF Insert, Goto, WriterInv, Mutex, StillMissing, TypeInv, TypeOK
  <2> QED
    BY <2>7, <2>8 DEF WriterInv
<1>3. ASSUME NEW t \in Jobs, Close(t) PROVE WriterInv'
  <2> DEFINE f == Top(t).fn
             n == Len(stack[t])
  <2>1. stack[t] # <<>> /\ f \in Funcs /\ n \in Nat \ {0} /\ stack[t][n].fn = f
    BY <1>3, TopType DEF Close, Goto, TypeInv, StackShape, Top
  <2>2. /\ \A u \in Jobs \ {t} : stack'[u] = stack[u]
        /\ Len(stack'[t]) = n - 1
        /\ \A i \in 1 .. n - 1 : stack'[t][i] = stack[t][i]
    BY <1>3, <2>1, PopStack DEF Close, TypeInv
  <2>3. cache' = cache /\ ready' = ready \cup {f}
    BY <1>3 DEF Close
  <2>4. f \in cache \ ready
    BY <2>1 DEF WriterInv, SingleWriter, OnStack
  <2>5. \A u \in Jobs : \A i \in 1 .. Len(stack'[u]) :
           i \in 1 .. Len(stack[u]) /\ stack'[u][i] = stack[u][i] /\ (u = t => i # n)
    BY <2>1, <2>2
  <2>6. \A u \in Jobs : \A i \in 1 .. Len(stack[u]) :
           (u = t /\ i = n) \/ (i \in 1 .. Len(stack'[u]) /\ stack'[u][i] = stack[u][i])
    BY <2>1, <2>2
  <2>7. \A u \in Jobs : \A i \in 1 .. Len(stack[u]) : stack[u][i].fn = f => u = t /\ i = n
    BY <2>1 DEF WriterInv, SingleWriter
  <2>8. \A u \in Jobs, g \in Funcs : OnStack(u, g)' <=> OnStack(u, g) /\ g # f
    BY <2>1, <2>5, <2>6, <2>7 DEF OnStack
  <2>9. SingleWriter'
    <3>1. ready' \subseteq cache'
      BY <2>3, <2>4 DEF WriterInv, SingleWriter
    <3>2. \A g \in Funcs : g \in cache' \ ready' <=> \E u \in Jobs : OnStack(u, g)'
      BY <2>3, <2>8 DEF WriterInv, SingleWriter
    <3>3. ASSUME NEW u \in Jobs, NEW v \in Jobs, NEW i \in 1 .. Len(stack'[u]),
                 NEW j \in 1 .. Len(stack'[v]), stack'[u][i].fn = stack'[v][j].fn
          PROVE  u = v /\ i = j
      <4>1. i \in 1 .. Len(stack[u]) /\ j \in 1 .. Len(stack[v])
            /\ stack[u][i].fn = stack[v][j].fn
        BY <2>5, <3>3
      <4> QED
        BY <4>1, Unique DEF WriterInv
    <3> QED
      BY <3>1, <3>2, <3>3 DEF SingleWriter
  <2>10. Mutex' /\ StillMissing'
    BY <1>3 DEF Close, Goto, WriterInv, Mutex, StillMissing, TypeInv, TypeOK
  <2> QED
    BY <2>9, <2>10 DEF WriterInv
<1>4. CASE UNCHANGED vars
  BY <1>4 DEF vars, WriterInv, Mutex, StillMissing, SingleWriter, OnStack
<1> QED
  BY <1>1, <1>2, <1>3, <1>4, NextKinds

(* No two calls of Get ever compute the same function, and no entry is     *)
(* left open without a call that will close it.                            *)
THEOREM SingleWriterHolds == Spec => []SingleWriter
<1>1. Spec => []TypeInv
  BY TypeInit, TypeNext, PTL DEF Spec
<1>2. Spec => []WriterInv
  BY <1>1, WriterInit, WriterNext, PTL DEF Spec
<1> QED
  BY <1>2, PTL DEF WriterInv

-----------------------------------------------------------------------------
(***************************************************************************)
(* Published descriptions are final: Insert writes to a function without   *)
(* an entry, every other step to the function on top of its own stack, and *)
(* neither is published.                                                   *)
(***************************************************************************)
LEMMA WritesOwn ==
  ASSUME TypeInv, WriterInv, NEW t \in Jobs, QuietStep(t), NEW f \in ready
  PROVE  result'[f] = result[f]
<1>1. UNCHANGED result \/ \E b \in BOOLEAN :
          stack[t] # <<>> /\ (\/ result' = [result EXCEPT ![Top(t).fn].pure = @ \/ b]
                              \/ result' = [result EXCEPT ![Top(t).fn].rest = TRUE])
  <2>1. CASE CallGet(t) \/ Lock(t) \/ Miss(t) \/ Hit(t) \/ Wait(t) \/ PureSelfCall(t) \/ ReturnToCheck(t)
    BY <2>1 DEF CallGet, Lock, Miss, Hit, Wait, PureSelfCall, ReturnToCheck
  <2>2. CASE PureEnd(t) \/ PureEffect(t)
    BY <2>2 DEF PureEnd, PureEffect, FinishPure, Goto, TypeInv, StackShape
  <2>3. CASE PureCall(t)
    BY <2>3 DEF PureCall, FinishPure, TypeInv, StackShape
  <2>4. CASE ComputeRest(t)
    BY <2>4 DEF ComputeRest, Goto, TypeInv, StackShape
  <2>5. CASE ReturnToPure(t)
    <3>1. ret[t].pure \in BOOLEAN
      BY DEF TypeInv, TypeOK, Description
    <3> QED
      BY <2>5, <3>1 DEF ReturnToPure
  <2> QED
    BY <2>1, <2>2, <2>3, <2>4, <2>5 DEF QuietStep
<1>2. ASSUME stack[t] # <<>> PROVE Top(t).fn \notin ready
  <2>1. Top(t).fn \in Funcs /\ Len(stack[t]) \in Nat \ {0}
    BY <1>2, TopType DEF TypeInv
  <2>2. OnStack(t, Top(t).fn)
    BY <2>1 DEF OnStack, Top
  <2> QED
    BY <2>1, <2>2 DEF WriterInv, SingleWriter
<1>3. f \in Funcs /\ result \in [Funcs -> Description]
  BY DEF TypeInv, TypeOK
<1> QED
  BY <1>1, <1>2, <1>3

LEMMA FinalStep ==
  TypeInv /\ WriterInv /\ [Next]_vars
     => \A f \in ready : f \in ready' /\ result'[f] = result[f]
<1> SUFFICES ASSUME TypeInv, WriterInv, [Next]_vars, NEW f \in ready
             PROVE  f \in ready' /\ result'[f] = result[f]
  OBVIOUS
<1>1. ASSUME NEW t \in Jobs, QuietStep(t) PROVE f \in ready' /\ result'[f] = result[f]
  BY <1>1, QuietIsQuiet, WritesOwn
<1>2. ASSUME NEW t \in Jobs, Insert(t) PROVE f \in ready' /\ result'[f] = result[f]
  BY <1>2 DEF Insert, Goto, WriterInv, StillMissing, SingleWriter, TypeInv, TypeOK
<1>3. ASSUME NEW t \in Jobs, Close(t) PROVE f \in ready' /\ result'[f] = result[f]
  BY <1>3 DEF Close
<1>4. CASE UNCHANGED vars
  BY <1>4 DEF vars
<1> QED
  BY <1>1, <1>2, <1>3, <1>4, NextKinds

(* A closed channel stays closed and the description behind it never       *)
(* changes, so reading it needs no lock.                                   *)
THEOREM PublishedIsFinalHolds == Spec => PublishedIsFinal
<1>1. Spec => []TypeInv
  BY TypeInit, TypeNext, PTL DEF Spec
<1>2. Spec => []WriterInv
  BY <1>1, WriterInit, WriterNext, PTL DEF Spec
<1>3. TypeInv /\ WriterInv /\ [Next]_vars
         => [\A f \in ready : f \in ready' /\ result'[f] = result[f]]_<<ready, result>>
  BY FinalStep
<1> QED
  BY <1>1, <1>2, <1>3, PTL DEF Spec, PublishedIsFinal

-----------------------------------------------------------------------------
(***************************************************************************)
(* The functions on a stack descend strictly in the call graph, and the    *)
(* function a nested call asks for is below them all.                      *)
(***************************************************************************)
StackDescends ==
  \A t \in Jobs : \A i, j \in 1 .. Len(stack[t]) :
     i < j => Below(stack[t][i].fn, stack[t][j].fn)

DescendInv == StackDescends /\ WaitsDescend

LEMMA BelowTransitive ==
  ASSUME NEW f, NEW g, NEW h, Below(f, g), Below(g, h)
  PROVE  Below(f, h)
BY ReachesTransitive DEF Below

LEMMA DescendInit == Init => DescendInv
BY DEF Init, DescendInv, StackDescends, WaitsDescend, InGet

(* The call that IsPure makes is an edge of the call graph.                *)
LEMMA CallIsEdge ==
  ASSUME TypeOK, NEW t \in Jobs, stack[t] # <<>>, NEW g \in Funcs, AtInstr(t, g)
  PROVE  g \in prog.succ[Top(t).fn]
<1>1. Top(t).fn \in Funcs /\ Top(t).pos \in Nat \ {0}
  BY TopType DEF Frame
<1>2. CallsAreEdges(prog) /\ prog.body[Top(t).fn] \in Seq(Funcs \cup {Effect})
  BY <1>1, ProgramsAssumption DEF TypeOK, Program
<1>3. Top(t).pos \in 1 .. Len(prog.body[Top(t).fn])
  BY <1>1, <1>2 DEF AtInstr
<1> QED
  BY <1>1, <1>2, <1>3, ConstantsAssumption DEF AtInstr, CallsAreEdges

LEMMA DescendNext == TypeInv /\ TypeInv' /\ DescendInv /\ [Next]_vars => DescendInv'
<1> SUFFICES ASSUME TypeInv, TypeInv', DescendInv, [Next]_vars PROVE DescendInv'
  OBVIOUS
<1>1. ASSUME SameFns, prog' = prog PROVE StackDescends'
  BY <1>1 DEF SameFns, StackDescends, DescendInv, Below
<1>2. ASSUME SameFns, prog' = prog, NEW u \in Jobs, want'[u] = want[u], InGet(u)
      PROVE  \A i \in 1 .. Len(stack'[u]) : Below(stack[u][i].fn, want[u])'
  BY <1>2 DEF SameFns, DescendInv, WaitsDescend, Below
<1>3. ASSUME NEW t \in Jobs, PureCall(t) PROVE DescendInv'
  <2>1. pc[t] = "body" /\ stack[t] # <<>> /\ Len(stack[t]) \in Nat \ {0}
    BY <1>3, TopType DEF PureCall, TypeInv, StackShape
  <2>2. SameFns /\ prog' = prog
    BY <1>3, QuietIsQuiet DEF QuietStep
  <2>3. ASSUME NEW u \in Jobs, InGet(u)', NEW i \in 1 .. Len(stack'[u])
        PROVE  Below(stack[u][i].fn, want[u])'
    <3>1. CASE u # t
      <4>1. InGet(u) /\ want'[u] = want[u]
        BY <1>3, <2>3, <3>1 DEF PureCall, FinishPure, Goto, InGet, TypeInv, TypeOK
      <4> QED
        BY <1>2, <2>2, <4>1
    <3>2. CASE u = t
      <4>1. PICK g \in Funcs : /\ AtInstr(t, g)
                               /\ ~PathSearch(prog, g, Top(t).fn)
                               /\ want' = [want EXCEPT ![t] = g]
        BY <1>3, <2>3, <3>2 DEF PureCall, FinishPure, Goto, InGet, TypeInv, TypeOK
      <4>2. Below(Top(t).fn, g)
        BY <2>1, <4>1, CallIsEdge, ReachesEdge DEF Below, PathSearch, TypeInv
      <4>3. UNCHANGED stack /\ i \in 1 .. Len(stack[t])
        BY <1>3, <2>3, <3>2 DEF PureCall
      <4>4. Below(stack[t][i].fn, g)
        <5>1. CASE i = Len(stack[t])
          BY <4>2, <5>1 DEF Top
        <5>2. CASE i < Len(stack[t])
          <6>1. Below(stack[t][i].fn, Top(t).fn)
            BY <2>1, <4>3, <5>2 DEF DescendInv, StackDescends, Top
          <6> QED
            BY <4>2, <6>1, BelowTransitive
        <5> QED
          BY <2>1, <4>3, <5>1, <5>2
      <4>5. want'[t] = g
        BY <4>1 DEF TypeInv, TypeOK
      <4> QED
        BY <2>2, <3>2, <4>3, <4>4, <4>5 DEF Below
    <3> QED
      BY <3>1, <3>2
  <2> QED
    BY <1>1, <2>2, <2>3 DEF DescendInv, WaitsDescend
<1>4. ASSUME NEW t \in Jobs, QuietStep(t), ~PureCall(t) PROVE DescendInv'
  <2>1. SameFns /\ prog' = prog
    BY <1>4, QuietIsQuiet
  <2>2. ASSUME NEW u \in Jobs, InGet(u)' PROVE (InGet(u) /\ want'[u] = want[u]) \/ stack'[u] = <<>>
    <3> USE DEF Goto, InGet, TypeInv, TypeOK
    <3>1. CASE CallGet(t)
      BY <2>2, <3>1 DEF CallGet, StackShape
    <3>2. CASE Lock(t) \/ Miss(t) \/ Hit(t) \/ Wait(t)
      BY <2>2, <3>2 DEF Lock, Miss, Hit, Wait
    <3>3. CASE PureEnd(t) \/ PureEffect(t) \/ PureSelfCall(t)
      BY <2>2, <3>3 DEF PureEnd, PureEffect, PureSelfCall, FinishPure
    <3>4. CASE ComputeRest(t) \/ ReturnToCheck(t) \/ ReturnToPure(t)
      BY <2>2, <3>4 DEF ComputeRest, ReturnToCheck, ReturnToPure
    <3> QED
      BY <1>4, <3>1, <3>2, <3>3, <3>4 DEF QuietStep
  <2>3. ASSUME NEW u \in Jobs, InGet(u)', NEW i \in 1 .. Len(stack'[u])
        PROVE  Below(stack[u][i].fn, want[u])'
    <3>1. stack'[u] # <<>>
      BY <2>3, EmptySeq
    <3> QED
      BY <1>2, <2>1, <2>2, <2>3, <3>1
  <2> QED
    BY <1>1, <2>1, <2>3 DEF DescendInv, WaitsDescend
<1>5. ASSUME NEW t \in Jobs, Insert(t) PROVE DescendInv'
  <2> DEFINE n == Len(stack[t])
  <2>1. want[t] \in Funcs /\ n \in Nat /\ InGet(t) /\ Push(t, want[t]) /\ prog' = prog
    BY <1>5 DEF Insert, Goto, InGet, TypeInv, TypeOK
  <2>2. /\ \A u \in Jobs \ {t} : stack'[u] = stack[u]
        /\ Len(stack'[t]) = n + 1
        /\ \A i \in 1 .. n : stack'[t][i] = stack[t][i]
        /\ stack'[t][n + 1] = [fn |-> want[t], pos |-> 1]
    BY <2>1, PushStack DEF TypeInv
  <2>3. stack'[t][n + 1].fn = want[t]
    BY <2>2
  <2>4. ASSUME NEW u \in Jobs, NEW i \in 1 .. Len(stack'[u]), NEW j \in 1 .. Len(stack'[u]), i < j
        PROVE  Below(stack'[u][i].fn, stack'[u][j].fn)
    <3>1. CASE u # t
      BY <2>2, <2>4, <3>1 DEF DescendInv, StackDescends
    <3>2. CASE u = t /\ j # n + 1
      <4>1. i \in 1 .. n /\ j \in 1 .. n
        BY <2>1, <2>2, <2>4, <3>2
      <4> QED
        BY <2>2, <2>4, <3>2, <4>1 DEF DescendInv, StackDescends
    <3>3. CASE u = t /\ j = n + 1
      <4>1. i \in 1 .. n
        BY <2>1, <2>2, <2>4, <3>3
      <4> QED
        BY <2>1, <2>2, <2>3, <3>3, <4>1 DEF DescendInv, WaitsDescend
    <3> QED
      BY <3>1, <3>2, <3>3
  <2>5. StackDescends'
    BY <2>1, <2>4 DEF StackDescends, Below
  <2>6. WaitsDescend'
    BY <1>5, <2>1, <2>2 DEF Insert, Goto, InGet, DescendInv, WaitsDescend, Below, TypeInv, TypeOK
  <2> QED
    BY <2>5, <2>6 DEF DescendInv
<1>6. ASSUME NEW t \in Jobs, Close(t) PROVE DescendInv'
  <2>1. stack[t] # <<>> /\ Len(stack[t]) \in Nat \ {0} /\ prog' = prog
    BY <1>6, TopType DEF Close, Goto, TypeInv, StackShape
  <2>2. /\ \A u \in Jobs \ {t} : stack'[u] = stack[u]
        /\ Len(stack'[t]) = Len(stack[t]) - 1
        /\ \A i \in 1 .. Len(stack[t]) - 1 : stack'[t][i] = stack[t][i]
    BY <1>6, <2>1, PopStack DEF Close, TypeInv
  <2>3. \A u \in Jobs : \A i \in 1 .. Len(stack'[u]) : i \in 1 .. Len(stack[u]) /\ stack'[u][i] = stack[u][i]
    BY <2>1, <2>2
  <2>4. StackDescends'
    BY <2>1, <2>3 DEF DescendInv, StackDescends, Below
  <2>5. WaitsDescend'
    BY <1>6, <2>1, <2>2 DEF Close, Goto, InGet, DescendInv, WaitsDescend, Below, TypeInv, TypeOK
  <2> QED
    BY <2>4, <2>5 DEF DescendInv
<1>7. CASE UNCHANGED vars
  BY <1>7 DEF vars, DescendInv, StackDescends, WaitsDescend, InGet, Below
<1> QED
  BY <1>3, <1>4, <1>5, <1>6, <1>7, NextKinds

(* A nested call of Get only ever asks for a function that lies strictly   *)
(* below everything its job has begun, so no chain of waits closes.        *)
THEOREM WaitsDescendHolds == Spec => []WaitsDescend
<1>1. Spec => []TypeInv
  BY TypeInit, TypeNext, PTL DEF Spec
<1>2. Spec => []DescendInv
  BY <1>1, DescendInit, DescendNext, PTL DEF Spec
<1> QED
  BY <1>2, PTL DEF DescendInv

-----------------------------------------------------------------------------
(***************************************************************************)
(* Everything a job asks for or computes is in AllFunctions, and the call  *)
(* graph has the nodes it was built with, so CreateNode always finds one.  *)
(***************************************************************************)
GraphInv ==
  /\ nodes = StaticNodes(prog)
  /\ \A t \in Jobs :
        /\ InGet(t) => want[t] \in AllFunctions(prog)
        /\ \A i \in 1 .. Len(stack[t]) : stack[t][i].fn \in AllFunctions(prog)

LEMMA CalleeInAllFunctions ==
  ASSUME NEW p \in Programs, NEW f \in AllFunctions(p), NEW g \in p.succ[f]
  PROVE  g \in AllFunctions(p) /\ g \in StaticNodes(p)
<1>1. p \in Program /\ CalleesAreMentioned(p)
  BY ProgramsAssumption
<1>2. f \in Funcs /\ g \in Funcs /\ g \in p.mentions[f]
  BY <1>1 DEF AllFunctions, Program, CalleesAreMentioned
<1>3. PICK m \in p.members : Reaches(p.mentions, m, f)
  BY DEF AllFunctions
<1>4. Reaches(p.mentions, m, g)
  BY <1>2, <1>3, ReachesEdge, ReachesTransitive
<1> QED
  BY <1>2, <1>4 DEF AllFunctions, StaticNodes

LEMMA GraphInit == Init => GraphInv
BY DEF Init, GraphInv, InGet

LEMMA GraphNext == TypeInv /\ GraphInv /\ [Next]_vars => GraphInv'
<1> SUFFICES ASSUME TypeInv, GraphInv, [Next]_vars PROVE GraphInv'
  OBVIOUS
<1>1. ASSUME NEW t \in Jobs, PureCall(t) PROVE GraphInv'
  <2>1. stack[t] # <<>> /\ Len(stack[t]) \in Nat \ {0} /\ prog' = prog /\ UNCHANGED stack
    BY <1>1, TopType DEF PureCall, TypeInv, StackShape
  <2>2. Top(t).fn \in AllFunctions(prog) /\ prog \in Programs
    BY <2>1 DEF GraphInv, Top, TypeInv, TypeOK
  <2>3. PICK g \in Funcs : /\ AtInstr(t, g) /\ nodes' = nodes \cup {g}
                           /\ \/ want' = want /\ pc' = [pc EXCEPT ![t] = "rest"]
                              \/ want' = [want EXCEPT ![t] = g]
    BY <1>1 DEF PureCall, FinishPure, Goto
  <2>4. g \in AllFunctions(prog) /\ g \in StaticNodes(prog)
    BY <2>1, <2>2, <2>3, CallIsEdge, CalleeInAllFunctions DEF TypeInv
  <2>5. nodes' = nodes
    BY <2>3, <2>4 DEF GraphInv
  <2>6. \A u \in Jobs \ {t} : pc'[u] = pc[u]
    BY <1>1 DEF PureCall, FinishPure, Goto, TypeInv, TypeOK
  <2> QED
    BY <2>1, <2>3, <2>4, <2>5, <2>6 DEF GraphInv, InGet, TypeInv, TypeOK
<1>2. ASSUME NEW t \in Jobs, QuietStep(t), ~PureCall(t) PROVE GraphInv'
  <2>1. SameFns /\ prog' = prog
    BY <1>2, QuietIsQuiet
  <2>2. \A u \in Jobs : \A i \in 1 .. Len(stack'[u]) : stack'[u][i].fn \in AllFunctions(prog)
    BY <2>1 DEF SameFns, GraphInv
  <2>3. nodes' = nodes /\ \A u \in Jobs : InGet(u)' => want'[u] \in AllFunctions(prog)
    <3> USE DEF Goto, InGet, TypeInv, TypeOK, GraphInv
    <3>1. CASE CallGet(t)
      BY <3>1 DEF CallGet
    <3>2. CASE Lock(t) \/ Miss(t) \/ Hit(t) \/ Wait(t)
      BY <3>2 DEF Lock, Miss, Hit, Wait
    <3>3. CASE PureEnd(t) \/ PureEffect(t) \/ PureSelfCall(t)
      BY <3>3 DEF PureEnd, PureEffect, PureSelfCall, FinishPure
    <3>4. CASE ComputeRest(t) \/ ReturnToCheck(t) \/ ReturnToPure(t)
      BY <3>4 DEF ComputeRest, ReturnToCheck, ReturnToPure
    <3> QED
      BY <1>2, <3>1, <3>2, <3>3, <3>4 DEF QuietStep
  <2> QED
    BY <2>1, <2>2, <2>3 DEF GraphInv
<1>3. ASSUME NEW t \in Jobs, Insert(t) PROVE GraphInv'
  <2>1. want[t] \in Funcs /\ want[t] \in AllFunctions(prog) /\ Push(t, want[t])
        /\ Len(stack[t]) \in Nat /\ UNCHANGED <<prog, nodes, want>>
    BY <1>3 DEF Insert, Goto, InGet, TypeInv, TypeOK, GraphInv
  <2>2. /\ \A u \in Jobs \ {t} : stack'[u] = stack[u]
        /\ Len(stack'[t]) = Len(stack[t]) + 1
        /\ \A i \in 1 .. Len(stack[t]) : stack'[t][i] = stack[t][i]
        /\ stack'[t][Len(stack[t]) + 1] = [fn |-> want[t], pos |-> 1]
    BY <2>1, PushStack DEF TypeInv
  <2>3. stack'[t][Len(stack[t]) + 1].fn = want[t]
    BY <2>2
  <2>4. \A u \in Jobs : \A i \in 1 .. Len(stack'[u]) : stack'[u][i].fn \in AllFunctions(prog)
    BY <2>1, <2>2, <2>3 DEF GraphInv
  <2> QED
    BY <1>3, <2>1, <2>4 DEF Insert, Goto, InGet, GraphInv, TypeInv, TypeOK
<1>4. ASSUME NEW t \in Jobs, Close(t) PROVE GraphInv'
  <2>1. stack[t] # <<>> /\ Len(stack[t]) \in Nat \ {0} /\ UNCHANGED <<prog, nodes>>
    BY <1>4, TopType DEF Close, Goto, TypeInv, StackShape
  <2>2. /\ \A u \in Jobs \ {t} : stack'[u] = stack[u]
        /\ Len(stack'[t]) = Len(stack[t]) - 1
        /\ \A i \in 1 .. Len(stack[t]) - 1 : stack'[t][i] = stack[t][i]
    BY <1>4, <2>1, PopStack DEF Close, TypeInv
  <2>3. \A u \in Jobs : \A i \in 1 .. Len(stack'[u]) : stack'[u][i].fn \in AllFunctions(prog)
    BY <2>1, <2>2 DEF GraphInv
  <2> QED
    BY <1>4, <2>1, <2>3 DEF Close, Goto, InGet, GraphInv, TypeInv, TypeOK
<1>5. CASE UNCHANGED vars
  BY <1>5 DEF vars, GraphInv, InGet
<1> QED
  BY <1>1, <1>2, <1>3, <1>4, <1>5, NextKinds

(* IsPure never adds a node to the call graph that all jobs share.         *)
THEOREM CallGraphFrozenHolds == Spec => CallGraphFrozen
<1>1. Spec => []TypeInv
  BY TypeInit, TypeNext, PTL DEF Spec
<1>2. Spec => []GraphInv
  BY <1>1, GraphInit, GraphNext, PTL DEF Spec
<1>3. [Next]_vars => prog' = prog
  BY DEF Next, Step, Finished, vars, CallGet, Lock, Miss, Insert, Hit, Wait, PureEnd, PureEffect,
         PureSelfCall, PureCall, ComputeRest, Close, ReturnToCheck, ReturnToPure
<1>4. GraphInv /\ GraphInv' /\ [Next]_vars => [nodes' = nodes]_nodes
  BY <1>3 DEF GraphInv
<1> QED
  BY <1>2, <1>4, PTL DEF Spec, CallGraphFrozen

-----------------------------------------------------------------------------
(***************************************************************************)
(* PureRef is what IsPure computes from the purity of the callees.         *)
(***************************************************************************)
GoodCallee(p, f, g) == g = f \/ (~Reaches(p.succ, g, f) /\ PureRef(p, g))

LEMMA KnownIsPure ==
  ASSUME NEW p \in Programs, NEW f \in Funcs, f \in p.known
  PROVE  PureRef(p, f)
<1> DEFINE opens == [h \in Funcs |-> Opens(p, h)]
<1>1. opens \in [Funcs -> SUBSET Funcs] /\ opens[f] = {}
  BY DEF Opens, Callees
<1> HIDE DEF opens
<1>2. \A g \in Funcs : Reaches(opens, f, g) => g = f
  BY <1>1, ReachesUnfold
<1> QED
  BY <1>2 DEF PureRef, opens

LEMMA PureUnfold ==
  ASSUME NEW p \in Programs, NEW f \in Funcs, f \notin p.known
  PROVE  PureRef(p, f) <=> ~HasEffect(p, f) /\ \A g \in Callees(p, f) : GoodCallee(p, f, g)
<1> DEFINE opens == [h \in Funcs |-> Opens(p, h)]
           Clean(g) == ~HasEffect(p, g) /\ \A h \in Callees(p, g) \ {g} : ~Reaches(p.succ, h, g)
<1>1. opens \in [Funcs -> SUBSET Funcs] /\ opens[f] = Callees(p, f)
  BY DEF Opens, Callees
<1>2. \A k \in Funcs : PureRef(p, k) <=>
         \A g \in Funcs : Reaches(opens, k, g) /\ g \notin p.known => Clean(g)
  BY DEF PureRef
<1>3. \A g \in Callees(p, f) : g \in Funcs
  BY DEF Callees
<1> HIDE DEF opens
<1>4. ASSUME PureRef(p, f) PROVE ~HasEffect(p, f) /\ \A g \in Callees(p, f) : GoodCallee(p, f, g)
  <2>1. Clean(f)
    BY <1>2, <1>4, ReachesReflexive
  <2>2. ASSUME NEW g \in Callees(p, f), g # f PROVE ~Reaches(p.succ, g, f) /\ PureRef(p, g)
    <3>1. \A k \in Funcs : Reaches(opens, g, k) => Reaches(opens, f, k)
      BY <1>1, ReachesEdge, ReachesTransitive
    <3>2. PureRef(p, g)
      BY <1>2, <1>3, <1>4, <3>1
    <3> QED
      BY <2>1, <2>2, <3>2
  <2> QED
    BY <2>1, <2>2 DEF GoodCallee
<1>5. ASSUME ~HasEffect(p, f), \A g \in Callees(p, f) : GoodCallee(p, f, g) PROVE PureRef(p, f)
  <2>1. Clean(f)
    BY <1>5 DEF GoodCallee
  <2>2. ASSUME NEW g \in Funcs, Reaches(opens, f, g), g \notin p.known, g # f PROVE Clean(g)
    <3>1. PICK h \in Callees(p, f) \ {f} : Reaches(opens, h, g)
      BY <1>1, <2>2, ReachesUnfold
    <3>2. h \in Funcs /\ PureRef(p, h)
      BY <1>3, <1>5, <3>1 DEF GoodCallee
    <3> QED
      BY <1>2, <2>2, <3>1, <3>2
  <2> QED
    BY <1>2, <2>1, <2>2
<1> QED
  BY <1>4, <1>5

(***************************************************************************)
(* The walk of IsPure over f has passed the instructions before n and met  *)
(* nothing that makes f impure; it waits for g at n.                       *)
(***************************************************************************)
Passed(p, f, n) ==
  /\ f \notin p.known
  /\ n <= Len(p.body[f]) + 1
  /\ \A k \in 1 .. n - 1 : p.body[f][k] # Effect /\ GoodCallee(p, f, p.body[f][k])

Asked(p, f, n, g) ==
  /\ n <= Len(p.body[f])
  /\ p.body[f][n] = g
  /\ g # f
  /\ ~Reaches(p.succ, g, f)

Full(p, f) == [pure |-> PureRef(p, f), rest |-> TRUE]

LEMMA BodyType ==
  ASSUME NEW p \in Programs, NEW f \in Funcs
  PROVE  /\ p.body[f] \in Seq(Funcs \cup {Effect})
         /\ Len(p.body[f]) \in Nat
         /\ \A k \in 1 .. Len(p.body[f]) : p.body[f][k] \in Funcs \cup {Effect}
<1>1. p.body[f] \in Seq(Funcs \cup {Effect})
  BY ProgramsAssumption DEF Program
<1> QED
  BY <1>1

(* The walk reached the end: f is pure.                                    *)
LEMMA WalkEnds ==
  ASSUME NEW p \in Programs, NEW f \in Funcs, NEW n \in Nat, Passed(p, f, n), n > Len(p.body[f])
  PROVE  PureRef(p, f)
<1>1. Len(p.body[f]) \in Nat /\ n = Len(p.body[f]) + 1
  BY BodyType DEF Passed
<1>2. \A k \in 1 .. Len(p.body[f]) : p.body[f][k] # Effect /\ GoodCallee(p, f, p.body[f][k])
  BY <1>1 DEF Passed
<1>3. ~HasEffect(p, f) /\ \A g \in Callees(p, f) : GoodCallee(p, f, g)
  BY <1>2 DEF HasEffect, Callees
<1> QED
  BY <1>3, PureUnfold DEF Passed

(* The walk goes on past a good instruction.                               *)
LEMMA WalkAdvances ==
  ASSUME NEW p \in Programs, NEW f \in Funcs, NEW n \in Nat \ {0}, Passed(p, f, n),
         n <= Len(p.body[f]), p.body[f][n] # Effect, GoodCallee(p, f, p.body[f][n])
  PROVE  Passed(p, f, n + 1)
<1>1. Len(p.body[f]) \in Nat
  BY BodyType
<1>2. \A k \in 1 .. n + 1 - 1 : k \in 1 .. n - 1 \/ k = n
  OBVIOUS
<1> QED
  BY <1>1, <1>2 DEF Passed

(* The walk stops at a bad instruction: f is not pure.                     *)
LEMMA WalkStops ==
  ASSUME NEW p \in Programs, NEW f \in Funcs, NEW n \in Nat \ {0}, Passed(p, f, n),
         n <= Len(p.body[f]), p.body[f][n] = Effect \/ ~GoodCallee(p, f, p.body[f][n])
  PROVE  ~PureRef(p, f)
<1>1. n \in 1 .. Len(p.body[f]) /\ p.body[f][n] \in Funcs \cup {Effect}
  BY BodyType
<1>2. p.body[f][n] = Effect => HasEffect(p, f)
  BY <1>1 DEF HasEffect
<1>3. p.body[f][n] # Effect => p.body[f][n] \in Callees(p, f)
  BY <1>1 DEF Callees
<1> QED
  BY <1>2, <1>3, PureUnfold DEF Passed

(***************************************************************************)
(* The inductive invariant behind GetIsDeterministic: what is published is *)
(* complete and right, and every computation in progress has come as far   *)
(* as its position says.                                                   *)
(***************************************************************************)
Walking(fr) == Passed(prog, fr.fn, fr.pos) /\ result[fr.fn] = NoDescription

JobOK(t) ==
  /\ \A i \in 1 .. Len(stack[t]) - 1 :
        Walking(stack[t][i]) /\ Asked(prog, stack[t][i].fn, stack[t][i].pos, stack[t][i + 1].fn)
  /\ stack[t] # <<>> =>
        /\ pc[t] = "body" => Walking(Top(t))
        /\ InGet(t) \/ pc[t] = "return" =>
              Walking(Top(t)) /\ Asked(prog, Top(t).fn, Top(t).pos, want[t])
        /\ pc[t] = "rest" => result[Top(t).fn] = [pure |-> PureRef(prog, Top(t).fn), rest |-> FALSE]
        /\ pc[t] = "close" => result[Top(t).fn] = Full(prog, Top(t).fn)
  /\ pc[t] = "return" => ret[t] = Full(prog, want[t])

WalkInv ==
  /\ \A f \in ready : result[f] = Full(prog, f)
  /\ \A t \in Jobs : JobOK(t)

LEMMA WalkInit == Init => WalkInv
BY DEF Init, WalkInv, JobOK

LEMMA SetPure ==
  ASSUME TypeOK, NEW f \in Funcs, NEW b \in BOOLEAN, result[f] = NoDescription,
         result' = [result EXCEPT ![f].pure = @ \/ b]
  PROVE  result'[f] = [pure |-> b, rest |-> FALSE] /\ \A g \in Funcs \ {f} : result'[g] = result[g]
<1>1. result \in [Funcs -> Description]
  BY DEF TypeOK
<1>2. \A g \in Funcs \ {f} : result'[g] = result[g]
  BY <1>1
<1>3. result'[f] = [result[f] EXCEPT !.pure = result[f].pure \/ b]
  BY <1>1
<1>4. result[f] = [pure |-> FALSE, rest |-> FALSE]
  BY DEF NoDescription
<1>5. result[f].pure \/ b <=> b
  BY <1>4
<1>6. result[f] \in Description /\ result[f].rest = FALSE
  <2>1. result[f] \in Description
    BY <1>1
  <2>2. result[f].rest = FALSE
    BY <1>4
  <2> QED
    BY <2>1, <2>2
<1>7. [result[f] EXCEPT !.pure = b] = [pure |-> b, rest |-> result[f].rest]
  BY <1>6 DEF Description
<1>8. result'[f] = [result[f] EXCEPT !.pure = b]
  <2>1. (result[f].pure \/ b) = b
    BY <1>5
  <2> QED
    BY <1>3, <2>1, Zenon
<1> QED
  BY <1>2, <1>6, <1>7, <1>8

LEMMA SetRest ==
  ASSUME TypeOK, NEW f \in Funcs, NEW b \in BOOLEAN, result[f] = [pure |-> b, rest |-> FALSE],
         result' = [result EXCEPT ![f].rest = TRUE]
  PROVE  result'[f] = [pure |-> b, rest |-> TRUE] /\ \A g \in Funcs \ {f} : result'[g] = result[g]
<1>1. result \in [Funcs -> Description]
  BY DEF TypeOK
<1>2. \A g \in Funcs \ {f} : result'[g] = result[g]
  BY <1>1
<1>3. result'[f] = [result[f] EXCEPT !.rest = TRUE]
  BY <1>1
<1>4. result[f] \in Description /\ result[f].pure = b
  <2>1. result[f] \in Description
    BY <1>1
  <2>2. result[f].pure = b
    OBVIOUS
  <2> QED
    BY <2>1, <2>2
<1>5. [result[f] EXCEPT !.rest = TRUE] = [pure |-> result[f].pure, rest |-> TRUE]
  <2>1. ASSUME NEW c \in BOOLEAN
        PROVE  [result[f] EXCEPT !.rest = c] = [pure |-> result[f].pure, rest |-> c]
    BY <1>4 DEF Description
  <2> QED
    BY <2>1
<1> QED
  BY <1>2, <1>3, <1>4, <1>5

(* A step leaves the jobs alone whose frames it does not write.            *)
LEMMA OtherJobs ==
  ASSUME TypeInv, NEW u \in Jobs, JobOK(u), prog' = prog,
         pc'[u] = pc[u], want'[u] = want[u], ret'[u] = ret[u], stack'[u] = stack[u],
         \A i \in 1 .. Len(stack[u]) : result'[stack[u][i].fn] = result[stack[u][i].fn]
  PROVE  JobOK(u)'
<1>1. Len(stack[u]) \in Nat /\ (stack[u] # <<>> => Len(stack[u]) \in Nat \ {0})
  BY TopType DEF TypeInv, TypeOK
<1>2. \A i \in 1 .. Len(stack[u]) - 1 : result'[stack[u][i].fn] = result[stack[u][i].fn]
  BY <1>1
<1>3. stack[u] # <<>> => result'[Top(u).fn] = result[Top(u).fn]
  BY <1>1 DEF Top
<1>4. Top(u)' = Top(u) /\ InGet(u)' = InGet(u)
  BY DEF Top, InGet
<1> QED
  BY <1>2, <1>3, <1>4 DEF JobOK, Walking

(* A write to the top of t's stack touches no other frame.                 *)
LEMMA OtherFrames ==
  ASSUME TypeInv, SingleWriter, NEW t \in Jobs, stack[t] # <<>>,
         \A g \in Funcs \ {Top(t).fn} : result'[g] = result[g]
  PROVE  /\ \A u \in Jobs \ {t} : \A i \in 1 .. Len(stack[u]) :
               result'[stack[u][i].fn] = result[stack[u][i].fn]
         /\ \A i \in 1 .. Len(stack[t]) - 1 : result'[stack[t][i].fn] = result[stack[t][i].fn]
<1>1. Len(stack[t]) \in Nat \ {0}
  BY TopType DEF TypeInv
<1>2. \A u \in Jobs : \A i \in 1 .. Len(stack[u]) : stack[u][i].fn \in Funcs
  <2>1. \A u \in Jobs : stack[u] \in Seq(Frame)
    BY DEF TypeInv, TypeOK
  <2>2. \A u \in Jobs : \A i \in 1 .. Len(stack[u]) : stack[u][i] \in Frame
    BY <2>1
  <2> QED
    BY <2>2 DEF Frame
<1>3. \A u \in Jobs \ {t} : \A i \in 1 .. Len(stack[u]) : stack[u][i].fn # Top(t).fn
  BY <1>1, Unique DEF Top
<1>4. \A i \in 1 .. Len(stack[t]) - 1 : i \in 1 .. Len(stack[t]) /\ stack[t][i].fn # Top(t).fn
  BY <1>1, Unique DEF Top
<1> QED
  BY <1>2, <1>3, <1>4

(* A step that writes nothing and moves only pc, want and ret of t.        *)
LEMMA PassiveStep ==
  ASSUME TypeInv, WalkInv, NEW t \in Jobs, UNCHANGED <<prog, ready, result, stack>>,
         \A u \in Jobs \ {t} : pc'[u] = pc[u] /\ want'[u] = want[u] /\ ret'[u] = ret[u],
         JobOK(t)'
  PROVE  WalkInv'
<1>1. \A u \in Jobs \ {t} : JobOK(u)'
  BY OtherJobs DEF WalkInv
<1> QED
  BY <1>1 DEF WalkInv

(* A step that writes the description of the function on top of t's stack. *)
LEMMA WritingStep ==
  ASSUME TypeInv, WriterInv, WalkInv, NEW t \in Jobs, stack[t] # <<>>,
         UNCHANGED <<prog, ready, stack>>,
         \A u \in Jobs \ {t} : pc'[u] = pc[u] /\ want'[u] = want[u] /\ ret'[u] = ret[u],
         \A g \in Funcs \ {Top(t).fn} : result'[g] = result[g],
         \/ /\ pc'[t] = "rest"
            /\ result'[Top(t).fn] = [pure |-> PureRef(prog, Top(t).fn), rest |-> FALSE]
         \/ /\ pc'[t] = "close"
            /\ result'[Top(t).fn] = Full(prog, Top(t).fn)
  PROVE  WalkInv'
<1>1. SingleWriter
  BY DEF WriterInv
<1>2. \A u \in Jobs \ {t} : JobOK(u)'
  BY <1>1, OtherFrames, OtherJobs DEF WalkInv
<1>3. \A f \in ready' : result'[f] = Full(prog, f)
  <2>1. Top(t).fn \in Funcs /\ Len(stack[t]) \in Nat \ {0}
    BY TopType DEF TypeInv
  <2>2. OnStack(t, Top(t).fn)
    BY <2>1 DEF OnStack, Top
  <2>3. Top(t).fn \notin ready
    BY <1>1, <2>1, <2>2 DEF SingleWriter
  <2> QED
    BY <2>3 DEF WalkInv, TypeInv, TypeOK
<1>4. JobOK(t)'
  <2>1. JobOK(t)
    BY DEF WalkInv
  <2>2. \A i \in 1 .. Len(stack[t]) - 1 : result'[stack[t][i].fn] = result[stack[t][i].fn]
    BY <1>1, OtherFrames
  <2>3. Top(t)' = Top(t)
    BY DEF Top
  <2> QED
    BY <2>1, <2>2, <2>3 DEF JobOK, Walking, InGet
<1> QED
  BY <1>2, <1>3, <1>4 DEF WalkInv

LEMMA WalkNext == TypeInv /\ TypeInv' /\ WriterInv /\ WalkInv /\ [Next]_vars => WalkInv'
<1> SUFFICES ASSUME TypeInv, TypeInv', WriterInv, WalkInv, [Next]_vars PROVE WalkInv'
  OBVIOUS
<1>0. \A t \in Jobs : JobOK(t)
  BY DEF WalkInv
<1>1. ASSUME NEW t \in Jobs, CallGet(t) PROVE WalkInv'
  <2>1. stack[t] = <<>> /\ pc[t] = "idle" /\ pc'[t] = "lock"
    BY <1>1 DEF CallGet, Goto, TypeInv, TypeOK, StackShape
  <2>2. JobOK(t)'
    BY <1>1, <2>1 DEF CallGet, JobOK
  <2>3. UNCHANGED <<prog, ready, result, stack>>
        /\ \A u \in Jobs \ {t} : pc'[u] = pc[u] /\ want'[u] = want[u] /\ ret'[u] = ret[u]
    BY <1>1 DEF CallGet, Goto, TypeInv, TypeOK
  <2> QED
    BY <2>2, <2>3, PassiveStep
<1>2. ASSUME NEW t \in Jobs, Lock(t) \/ Miss(t) \/ Hit(t) PROVE WalkInv'
  <2>1. /\ InGet(t) /\ InGet(t)' /\ UNCHANGED <<prog, ready, result, stack, want, ret>>
        /\ pc'[t] \notin {"body", "rest", "close", "return"}
        /\ \A u \in Jobs \ {t} : pc'[u] = pc[u]
    BY <1>2 DEF Lock, Miss, Hit, Goto, InGet, TypeInv, TypeOK
  <2>2. JobOK(t)'
    BY <1>0, <2>1 DEF JobOK, Walking, Top
  <2> QED
    BY <2>1, <2>2, PassiveStep
<1>3. ASSUME NEW t \in Jobs, Wait(t) PROVE WalkInv'
  <2>1. /\ InGet(t) /\ UNCHANGED <<prog, ready, result, stack, want>>
        /\ pc'[t] = "return" /\ want[t] \in ready /\ ret'[t] = result[want[t]]
        /\ \A u \in Jobs \ {t} : pc'[u] = pc[u] /\ ret'[u] = ret[u]
    BY <1>3 DEF Wait, Goto, InGet, TypeInv, TypeOK
  <2>2. ret'[t] = Full(prog, want[t])
    BY <2>1 DEF WalkInv
  <2>3. JobOK(t)'
    BY <1>0, <2>1, <2>2 DEF JobOK, Walking, Top
  <2> QED
    BY <2>1, <2>3, PassiveStep
<1>4. ASSUME NEW t \in Jobs, NEW b \in BOOLEAN, FinishPure(t, b), b = PureRef(prog, Top(t).fn),
             UNCHANGED <<prog, ready, want, stack, ret>>
      PROVE  WalkInv'
  <2>1. pc[t] = "body" /\ pc'[t] = "rest" /\ stack[t] # <<>> /\ \A u \in Jobs \ {t} : pc'[u] = pc[u]
    BY <1>4 DEF FinishPure, Goto, TypeInv, TypeOK, StackShape
  <2>2. Top(t).fn \in Funcs /\ result[Top(t).fn] = NoDescription
    BY <1>0, <2>1, TopType DEF JobOK, Walking, TypeInv
  <2>3. result'[Top(t).fn] = [pure |-> b, rest |-> FALSE]
        /\ \A g \in Funcs \ {Top(t).fn} : result'[g] = result[g]
    BY <1>4, <2>2, SetPure DEF FinishPure, TypeInv
  <2>4. result'[Top(t).fn] = [pure |-> PureRef(prog, Top(t).fn), rest |-> FALSE]
    BY <1>4, <2>3
  <2> QED
    BY <1>4, <2>1, <2>3, <2>4, WritingStep
<1>5. ASSUME NEW t \in Jobs, PureEnd(t) PROVE WalkInv'
  <2>1. pc[t] = "body" /\ stack[t] # <<>> /\ Walking(Top(t))
    BY <1>0, <1>5 DEF PureEnd, TypeInv, StackShape, JobOK
  <2>2. Top(t).fn \in Funcs /\ Top(t).pos \in Nat /\ prog \in Programs
    BY <2>1, TopType DEF Frame, TypeInv, TypeOK
  <2>3. PureRef(prog, Top(t).fn)
    BY <1>5, <2>1, <2>2, WalkEnds DEF PureEnd, Walking
  <2>4. PureRef(prog, Top(t).fn) = TRUE
    BY <2>3 DEF PureRef
  <2> QED
    BY <1>4, <1>5, <2>4 DEF PureEnd
<1>6. ASSUME NEW t \in Jobs, pc[t] = "body"
      PROVE  /\ stack[t] # <<>> /\ Walking(Top(t)) /\ Passed(prog, Top(t).fn, Top(t).pos)
             /\ Top(t).fn \in Funcs /\ Top(t).pos \in Nat \ {0} /\ prog \in Programs
  <2>1. stack[t] # <<>> /\ Walking(Top(t))
    BY <1>0, <1>6 DEF TypeInv, StackShape, JobOK
  <2> QED
    BY <2>1, TopType DEF Frame, TypeInv, TypeOK, Walking
<1>7. ASSUME NEW t \in Jobs, PureEffect(t) PROVE WalkInv'
  <2>1. ~PureRef(prog, Top(t).fn)
    BY <1>6, <1>7, WalkStops DEF PureEffect, AtInstr
  <2>2. PureRef(prog, Top(t).fn) = FALSE
    BY <2>1 DEF PureRef
  <2> QED
    BY <1>4, <1>7, <2>2 DEF PureEffect
<1>8. ASSUME NEW t \in Jobs, stack[t] # <<>>, Advance(t), UNCHANGED <<prog, ready, result, want, ret>>,
             pc'[t] = "body", \A u \in Jobs \ {t} : pc'[u] = pc[u],
             Walking(Top(t)), Passed(prog, Top(t).fn, Top(t).pos + 1)
      PROVE  WalkInv'
  <2>1. Len(stack[t]) \in Nat \ {0}
    BY <1>8, TopType DEF TypeInv
  <2>2. /\ \A u \in Jobs \ {t} : stack'[u] = stack[u]
        /\ Len(stack'[t]) = Len(stack[t])
        /\ \A i \in 1 .. Len(stack[t]) - 1 : stack'[t][i] = stack[t][i]
        /\ stack'[t][Len(stack[t])] = [fn |-> Top(t).fn, pos |-> Top(t).pos + 1]
    BY <1>8, AdvanceStack DEF TypeInv, Top
  <2>3. Top(t)' = [fn |-> Top(t).fn, pos |-> Top(t).pos + 1]
    BY <2>2 DEF Top
  <2>4. Top(t)'.fn = Top(t).fn /\ Top(t)'.pos = Top(t).pos + 1
    BY <2>3
  <2>5. \A i \in 1 .. Len(stack'[t]) - 1 : stack'[t][i + 1].fn = stack[t][i + 1].fn
    <3>1. SameFns
      BY <1>8, AdvanceSameFns DEF TypeInv
    <3> QED
      BY <2>1, <2>2, <3>1 DEF SameFns
  <2>6. JobOK(t)'
    <3>1. \A i \in 1 .. Len(stack'[t]) - 1 :
            /\ Passed(prog, stack'[t][i].fn, stack'[t][i].pos) /\ result'[stack'[t][i].fn] = NoDescription
            /\ Asked(prog, stack'[t][i].fn, stack'[t][i].pos, stack'[t][i + 1].fn)
      <4>1. \A i \in 1 .. Len(stack[t]) - 1 :
              Walking(stack[t][i]) /\ Asked(prog, stack[t][i].fn, stack[t][i].pos, stack[t][i + 1].fn)
        BY <1>0 DEF JobOK
      <4>2. \A i \in 1 .. Len(stack[t]) - 1 :
              stack'[t][i] = stack[t][i] /\ stack'[t][i + 1].fn = stack[t][i + 1].fn
        BY <2>2, <2>5
      <4> QED
        BY <1>8, <2>2, <4>1, <4>2 DEF Walking
    <3>2. Passed(prog, Top(t)'.fn, Top(t)'.pos) /\ result'[Top(t)'.fn] = NoDescription
      BY <1>8, <2>4 DEF Walking
    <3> QED
      BY <1>8, <3>1, <3>2 DEF JobOK, Walking, InGet
  <2>7. \A u \in Jobs \ {t} : JobOK(u)'
    BY <1>0, <1>8, <2>2, OtherJobs
  <2> QED
    BY <1>8, <2>6, <2>7 DEF WalkInv
<1>9. ASSUME NEW t \in Jobs, PureSelfCall(t) PROVE WalkInv'
  <2>1. pc[t] = "body"
    BY <1>9 DEF PureSelfCall, AtInstr
  <2>2. Passed(prog, Top(t).fn, Top(t).pos + 1)
    BY <1>6, <1>9, <2>1, WalkAdvances, ConstantsAssumption DEF PureSelfCall, AtInstr, GoodCallee
  <2> QED
    BY <1>6, <1>8, <1>9, <2>1, <2>2 DEF PureSelfCall
<1>10. ASSUME NEW t \in Jobs, PureCall(t) PROVE WalkInv'
  <2>1. pc[t] = "body"
    BY <1>10 DEF PureCall
  <2>2. PICK g \in Funcs \ {Top(t).fn} :
          /\ AtInstr(t, g)
          /\ \/ PathSearch(prog, g, Top(t).fn) /\ FinishPure(t, FALSE) /\ UNCHANGED want
             \/ /\ ~PathSearch(prog, g, Top(t).fn) /\ Goto(t, "body", "lock")
                /\ want' = [want EXCEPT ![t] = g] /\ UNCHANGED result
    BY <1>10 DEF PureCall
  <2>3. UNCHANGED <<prog, ready, stack, ret>>
    BY <1>10 DEF PureCall
  <2>4. CASE PathSearch(prog, g, Top(t).fn) /\ FinishPure(t, FALSE) /\ UNCHANGED want
    <3>1. ~PureRef(prog, Top(t).fn)
      BY <1>6, <2>1, <2>2, <2>4, WalkStops DEF AtInstr, GoodCallee, PathSearch
    <3>2. PureRef(prog, Top(t).fn) = FALSE
      BY <3>1 DEF PureRef
    <3> QED
      BY <1>4, <2>3, <2>4, <3>2
  <2>5. CASE /\ ~PathSearch(prog, g, Top(t).fn) /\ Goto(t, "body", "lock")
             /\ want' = [want EXCEPT ![t] = g] /\ UNCHANGED result
    <3>1. pc'[t] = "lock" /\ want'[t] = g
          /\ \A u \in Jobs \ {t} : pc'[u] = pc[u] /\ want'[u] = want[u]
      BY <2>5 DEF Goto, TypeInv, TypeOK
    <3>2. Asked(prog, Top(t).fn, Top(t).pos, g)
      BY <2>2, <2>5 DEF AtInstr, Asked, PathSearch
    <3>3. Top(t)' = Top(t)
      BY <2>3 DEF Top
    <3>4. JobOK(t)'
      BY <1>0, <1>6, <2>1, <2>3, <2>5, <3>1, <3>2, <3>3 DEF JobOK, Walking
    <3> QED
      BY <2>3, <2>5, <3>1, <3>4, PassiveStep
  <2> QED
    BY <2>2, <2>4, <2>5
<1>11. ASSUME NEW t \in Jobs, ComputeRest(t) PROVE WalkInv'
  <2>1. pc[t] = "rest" /\ pc'[t] = "close" /\ stack[t] # <<>>
        /\ (\A u \in Jobs \ {t} : pc'[u] = pc[u]) /\ UNCHANGED <<prog, ready, want, stack, ret>>
    BY <1>11 DEF ComputeRest, Goto, TypeInv, TypeOK, StackShape
  <2>2. Top(t).fn \in Funcs
        /\ result[Top(t).fn] = [pure |-> PureRef(prog, Top(t).fn), rest |-> FALSE]
    BY <1>0, <2>1, TopType DEF JobOK, TypeInv
  <2>3. PureRef(prog, Top(t).fn) \in BOOLEAN
    BY DEF PureRef
  <2>4. result'[Top(t).fn] = Full(prog, Top(t).fn)
        /\ \A g \in Funcs \ {Top(t).fn} : result'[g] = result[g]
    BY <1>11, <2>2, <2>3, SetRest DEF ComputeRest, TypeInv, Full
  <2> QED
    BY <2>1, <2>4, WritingStep
<1>12. ASSUME NEW t \in Jobs, ReturnToCheck(t) PROVE WalkInv'
  <2>1. /\ stack[t] = <<>> /\ UNCHANGED <<prog, ready, result, stack, want, ret>> /\ pc'[t] = "idle"
        /\ \A u \in Jobs \ {t} : pc'[u] = pc[u]
    BY <1>12 DEF ReturnToCheck, Goto, TypeInv, TypeOK
  <2>2. JobOK(t)'
    BY <2>1 DEF JobOK
  <2> QED
    BY <2>1, <2>2, PassiveStep
<1>13. ASSUME NEW t \in Jobs, ReturnToPure(t) PROVE WalkInv'
  <2> DEFINE f == Top(t).fn
             n == Top(t).pos
  <2>1. /\ stack[t] # <<>> /\ pc[t] = "return" /\ prog \in Programs
        /\ UNCHANGED <<prog, ready, want, ret>>
    BY <1>13 DEF ReturnToPure, Goto, TypeInv, TypeOK
  <2>2. f \in Funcs /\ n \in Nat \ {0}
    BY <2>1, TopType DEF Frame, TypeInv
  <2>3. /\ Walking(Top(t)) /\ Passed(prog, f, n) /\ Asked(prog, f, n, want[t])
        /\ ret[t] = Full(prog, want[t])
    BY <1>0, <2>1 DEF JobOK, Walking
  <2>4. ret[t].pure = PureRef(prog, want[t]) /\ want[t] \in Funcs
    BY <2>3 DEF Full, TypeInv, TypeOK
  <2>5. n <= Len(prog.body[f]) /\ prog.body[f][n] = want[t] /\ want[t] # Effect
    BY <2>3, <2>4, ConstantsAssumption DEF Asked
  <2>6. CASE ret[t].pure /\ Goto(t, "return", "body") /\ Advance(t) /\ UNCHANGED result
    <3>1. GoodCallee(prog, f, want[t])
      BY <2>3, <2>4, <2>6 DEF GoodCallee, Asked
    <3>2. Passed(prog, f, n + 1)
      BY <2>1, <2>2, <2>3, <2>5, <3>1, WalkAdvances
    <3>3. pc'[t] = "body" /\ \A u \in Jobs \ {t} : pc'[u] = pc[u]
      BY <2>6 DEF Goto, TypeInv, TypeOK
    <3> QED
      BY <1>8, <2>1, <2>3, <2>6, <3>2, <3>3
  <2>7. CASE /\ ~ret[t].pure /\ Goto(t, "return", "rest") /\ UNCHANGED stack
             /\ result' = [result EXCEPT ![Top(t).fn].pure = @ \/ ret[t].pure]
    <3>1. ~GoodCallee(prog, f, want[t])
      BY <2>3, <2>4, <2>7 DEF GoodCallee, Asked
    <3>2. ~PureRef(prog, f)
      BY <2>1, <2>2, <2>3, <2>5, <3>1, WalkStops
    <3>3. ret[t].pure \in BOOLEAN /\ ret[t].pure = PureRef(prog, f)
      <4>1. ret[t].pure \in BOOLEAN
        BY <2>4 DEF PureRef
      <4>2. PureRef(prog, f) \in BOOLEAN
        BY DEF PureRef
      <4> QED
        BY <2>7, <3>2, <4>1, <4>2
    <3>4. result[f] = NoDescription
      BY <2>3 DEF Walking
    <3>5. result'[f] = [pure |-> ret[t].pure, rest |-> FALSE] /\ \A g \in Funcs \ {f} : result'[g] = result[g]
      BY <2>2, <2>7, <3>3, <3>4, SetPure DEF TypeInv
    <3>6. pc'[t] = "rest" /\ \A u \in Jobs \ {t} : pc'[u] = pc[u]
      BY <2>7 DEF Goto, TypeInv, TypeOK
    <3>7. result'[f] = [pure |-> PureRef(prog, f), rest |-> FALSE]
      BY <3>3, <3>5
    <3> QED
      BY <2>1, <2>7, <3>5, <3>6, <3>7, WritingStep
  <2> QED
    BY <1>13, <2>6, <2>7 DEF ReturnToPure
<1>14. ASSUME NEW t \in Jobs, Insert(t) PROVE WalkInv'
  <2> DEFINE f == want[t]
             n == Len(stack[t])
  <2>1. /\ f \in Funcs /\ n \in Nat /\ InGet(t) /\ Push(t, f) /\ f \notin cache
        /\ (stack[t] # <<>> => n \in Nat \ {0}) /\ UNCHANGED <<prog, ready, want, ret>>
        /\ prog \in Programs
    BY <1>14, TopType DEF Insert, Goto, InGet, WriterInv, StillMissing, TypeInv, TypeOK
  <2>2. /\ \A u \in Jobs \ {t} : stack'[u] = stack[u]
        /\ Len(stack'[t]) = n + 1
        /\ \A i \in 1 .. n : stack'[t][i] = stack[t][i]
        /\ stack'[t][n + 1] = [fn |-> f, pos |-> 1]
    BY <2>1, PushStack DEF TypeInv
  <2>3. Top(t)' = [fn |-> f, pos |-> 1]
    BY <2>2 DEF Top
  <2>4. Top(t)'.fn = f /\ Top(t)'.pos = 1 /\ stack'[t][n + 1].fn = f
    BY <2>2, <2>3
  <2>5. \A u \in Jobs : \A i \in 1 .. Len(stack[u]) : stack[u][i].fn \in Funcs \ {f}
    <3>1. \A u \in Jobs : \A i \in 1 .. Len(stack[u]) : stack[u][i] \in Frame
      BY DEF TypeInv, TypeOK
    <3>2. \A u \in Jobs : ~OnStack(u, f)
      BY <2>1 DEF WriterInv, SingleWriter
    <3> QED
      BY <3>1, <3>2 DEF OnStack, Frame
  <2>6. /\ result'[f] = [pure |-> f \in prog.known, rest |-> FALSE]
        /\ \A g \in Funcs \ {f} : result'[g] = result[g]
    BY <1>14, <2>1 DEF Insert, TypeInv, TypeOK
  <2>7. f \notin ready
    BY <2>1 DEF WriterInv, SingleWriter
  <2>8. pc'[t] = (IF f \in prog.known THEN "rest" ELSE "body") /\ \A u \in Jobs \ {t} : pc'[u] = pc[u]
    BY <1>14 DEF Insert, Goto, TypeInv, TypeOK
  <2>9. \A u \in Jobs \ {t} : JobOK(u)'
    BY <1>0, <2>1, <2>2, <2>5, <2>6, <2>8, OtherJobs
  <2>10. \A i \in 1 .. Len(stack'[t]) - 1 :
            /\ Passed(prog, stack'[t][i].fn, stack'[t][i].pos) /\ result'[stack'[t][i].fn] = NoDescription
            /\ Asked(prog, stack'[t][i].fn, stack'[t][i].pos, stack'[t][i + 1].fn)
    <3> SUFFICES ASSUME NEW i \in 1 .. n
                 PROVE  /\ Passed(prog, stack[t][i].fn, stack[t][i].pos)
                        /\ result[stack[t][i].fn] = NoDescription
                        /\ Asked(prog, stack[t][i].fn, stack[t][i].pos, stack'[t][i + 1].fn)
      <4>1. Len(stack'[t]) - 1 = n
        BY <2>1, <2>2
      <4>2. \A i \in 1 .. n : stack'[t][i] = stack[t][i] /\ result'[stack[t][i].fn] = result[stack[t][i].fn]
        BY <2>2, <2>5, <2>6
      <4> QED
        BY <4>1, <4>2
    <3>1. CASE i = n
      <4>1. stack[t] # <<>>
        BY <2>1, <3>1, EmptySeq
      <4>2. Walking(Top(t)) /\ Asked(prog, Top(t).fn, Top(t).pos, f)
        BY <1>0, <2>1, <4>1 DEF JobOK
      <4> QED
        BY <2>4, <3>1, <4>2 DEF Walking, Top
    <3>2. CASE i # n
      <4>1. i \in 1 .. n - 1 /\ i + 1 \in 1 .. n
        BY <2>1, <3>2
      <4> QED
        BY <1>0, <2>2, <4>1 DEF JobOK, Walking
    <3> QED
      BY <3>1, <3>2
  <2>11. f \in prog.known => result'[f] = [pure |-> PureRef(prog, f), rest |-> FALSE]
    <3> SUFFICES ASSUME f \in prog.known PROVE result'[f] = [pure |-> PureRef(prog, f), rest |-> FALSE]
      OBVIOUS
    <3>1. PureRef(prog, f) = TRUE /\ (f \in prog.known) = TRUE
      BY <2>1, KnownIsPure DEF PureRef
    <3> QED
      BY <2>6, <3>1
  <2>12. f \notin prog.known => Passed(prog, f, 1) /\ result'[f] = NoDescription
    <3> SUFFICES ASSUME f \notin prog.known PROVE Passed(prog, f, 1) /\ result'[f] = NoDescription
      OBVIOUS
    <3>1. (f \in prog.known) = FALSE
      OBVIOUS
    <3>2. result'[f] = NoDescription
      BY <2>6, <3>1 DEF NoDescription
    <3>3. Passed(prog, f, 1)
      BY <2>1, BodyType DEF Passed
    <3> QED
      BY <3>2, <3>3
  <2>13. JobOK(t)'
    BY <2>1, <2>4, <2>8, <2>10, <2>11, <2>12 DEF JobOK, Walking, InGet
  <2>14. \A g \in ready' : result'[g] = Full(prog, g)
    BY <2>1, <2>6, <2>7 DEF WalkInv, TypeInv, TypeOK
  <2> QED
    BY <2>1, <2>9, <2>13, <2>14 DEF WalkInv
<1>15. ASSUME NEW t \in Jobs, Close(t) PROVE WalkInv'
  <2> DEFINE f == Top(t).fn
             n == Len(stack[t])
  <2>1. /\ stack[t] # <<>> /\ n \in Nat \ {0} /\ f \in Funcs /\ pc[t] = "close" /\ Pop(t)
        /\ UNCHANGED <<prog, result>> /\ ready' = ready \cup {f}
    BY <1>15, TopType DEF Close, Goto, TypeInv, StackShape
  <2>2. /\ pc'[t] = "return" /\ want'[t] = f /\ ret'[t] = result[f]
        /\ \A u \in Jobs \ {t} : pc'[u] = pc[u] /\ want'[u] = want[u] /\ ret'[u] = ret[u]
    BY <1>15 DEF Close, Goto, TypeInv, TypeOK
  <2>3. /\ \A u \in Jobs \ {t} : stack'[u] = stack[u]
        /\ Len(stack'[t]) = n - 1
        /\ \A i \in 1 .. n - 1 : stack'[t][i] = stack[t][i]
    BY <2>1, PopStack DEF TypeInv
  <2>4. result[f] = Full(prog, f)
    BY <1>0, <2>1 DEF JobOK
  <2>5. \A u \in Jobs \ {t} : JobOK(u)'
    BY <1>0, <2>1, <2>2, <2>3, OtherJobs
  <2>6. \A i \in 1 .. n - 1 :
          Walking(stack[t][i]) /\ Asked(prog, stack[t][i].fn, stack[t][i].pos, stack[t][i + 1].fn)
    BY <1>0 DEF JobOK
  <2>7. \A i \in 1 .. Len(stack'[t]) - 1 :
            /\ Passed(prog, stack'[t][i].fn, stack'[t][i].pos) /\ result[stack'[t][i].fn] = NoDescription
            /\ Asked(prog, stack'[t][i].fn, stack'[t][i].pos, stack'[t][i + 1].fn)
    <3> SUFFICES ASSUME NEW i \in 1 .. n - 2
                 PROVE  /\ Passed(prog, stack'[t][i].fn, stack'[t][i].pos)
                        /\ result[stack'[t][i].fn] = NoDescription
                        /\ Asked(prog, stack'[t][i].fn, stack'[t][i].pos, stack'[t][i + 1].fn)
      BY <2>1, <2>3
    <3>1. i \in 1 .. n - 1 /\ i + 1 \in 1 .. n - 1
      BY <2>1
    <3> QED
      BY <2>3, <2>6, <3>1 DEF Walking
  <2>8. ASSUME stack'[t] # <<>>
        PROVE  /\ Passed(prog, Top(t)'.fn, Top(t)'.pos) /\ result[Top(t)'.fn] = NoDescription
               /\ Asked(prog, Top(t)'.fn, Top(t)'.pos, f)
    <3>1. Len(stack'[t]) \in Nat \ {0}
      BY <2>8, EmptySeq DEF TypeInv, TypeOK
    <3>0. n - 1 \in Nat \ {0}
      BY <2>3, <3>1
    <3>2. n - 1 \in 1 .. n - 1 /\ n - 1 + 1 = n
      <4>1. \A k \in Nat : k - 1 \in Nat \ {0} => k - 1 \in 1 .. k - 1 /\ k - 1 + 1 = k
        OBVIOUS
      <4>2. n \in Nat
        BY <2>1
      <4> QED
        BY <3>0, <4>1, <4>2
    <3>3. Top(t)' = stack[t][n - 1]
      BY <2>3, <3>2 DEF Top
    <3>4. stack[t][n - 1 + 1].fn = f
      BY <3>2 DEF Top
    <3> QED
      BY <2>6, <3>2, <3>3, <3>4 DEF Walking
  <2>9. JobOK(t)'
    BY <2>1, <2>2, <2>4, <2>7, <2>8 DEF JobOK, Walking
  <2>10. \A g \in ready' : result'[g] = Full(prog, g)
    BY <2>1, <2>4 DEF WalkInv
  <2> QED
    BY <2>1, <2>5, <2>9, <2>10 DEF WalkInv
<1>16. CASE UNCHANGED vars
  BY <1>16 DEF vars, WalkInv, JobOK, Walking, Top, InGet
<1> QED
  BY <1>1, <1>2, <1>3, <1>5, <1>7, <1>9, <1>10, <1>11, <1>12, <1>13, <1>14, <1>15, <1>16,
     NextKinds DEF QuietStep

(* Whatever the interleaving, Get returns a complete description whose     *)
(* purity is the one the program determines.                               *)
THEOREM GetIsDeterministicHolds == Spec => []GetIsDeterministic
<1>1. Spec => []TypeInv
  BY TypeInit, TypeNext, PTL DEF Spec
<1>2. Spec => []WriterInv
  BY <1>1, WriterInit, WriterNext, PTL DEF Spec
<1>3. Spec => []WalkInv
  BY <1>1, <1>2, WalkInit, WalkNext, PTL DEF Spec
<1>4. WalkInv => GetIsDeterministic
  BY DEF WalkInv, JobOK, GetIsDeterministic, Full
<1> QED
  BY <1>3, <1>4, PTL
=============================================================================
