---------------------------- MODULE Descriptions ----------------------------
(***************************************************************************)
(* The memoised function descriptions of package functions.                *)
(*                                                                         *)
(* The checks of a linter run as concurrent jobs and ask for descriptions  *)
(* of functions with Descriptions.Get.  The first job to ask for fn        *)
(* inserts an entry with an open channel "ready" into the cache, computes  *)
(* the description without holding the mutex and closes the channel; later *)
(* jobs wait on the channel.  Computing a description may itself call Get, *)
(* through IsPure, for the functions fn calls statically.  A job is        *)
(* therefore a stack of unfinished Get calls, and a wait on a channel may  *)
(* close a cycle: only the PathSearch in IsPure prevents it.               *)
(*                                                                         *)
(* Everything of a function's body that IsPure does not look at is left    *)
(* out: body[f] lists, in instruction order, the statically called         *)
(* functions and, as Effect, whatever makes IsPure give up without         *)
(* calling Get (a store, a send, a dynamic call, a builtin other than      *)
(* len/cap/make/new, no results, a parameter of a non-basic type, no       *)
(* body).  The components of a Description other than Pure are one bit,    *)
(* which says whether they have been computed.                             *)
(***************************************************************************)
EXTENDS Naturals, Sequences

CONSTANTS
  Funcs,      \* the functions that occur in some program
  Jobs,       \* the goroutines that run checks
  NoJob,      \* no job holds the mutex
  Effect,     \* an instruction that makes a function impure
  Programs,   \* the programs that may be analysed
  MaxGets     \* bound: how many descriptions each job asks for

(***************************************************************************)
(* A program.  body: the instructions IsPure sees, after applyStdlib-      *)
(* Knowledge and OptimizeBlocks.  succ: the edges of the static call graph,*)
(* built before these two run, so that calls they delete are still edges.  *)
(* mentions: the functions that are operands of some instruction.          *)
(* members: the functions that are package members.  known: the functions  *)
(* that stdlibDescs lists as pure.                                         *)
(***************************************************************************)
Program ==
  [body     : [Funcs -> Seq(Funcs \cup {Effect})],
   succ     : [Funcs -> SUBSET Funcs],
   mentions : [Funcs -> SUBSET Funcs],
   members  : SUBSET Funcs,
   known    : SUBSET Funcs]

CallsAreEdges(p) ==
  \A f \in Funcs : \A i \in 1 .. Len(p.body[f]) :
     p.body[f][i] # Effect => p.body[f][i] \in p.succ[f]

CalleesAreMentioned(p) == \A f \in Funcs : p.succ[f] \subseteq p.mentions[f]

ASSUME ProgramsAssumption ==
  \A p \in Programs : p \in Program /\ CallsAreEdges(p) /\ CalleesAreMentioned(p)

ASSUME ConstantsAssumption ==
  NoJob \notin Jobs /\ Effect \notin Funcs /\ Funcs # {} /\ MaxGets \in Nat

(***************************************************************************)
(* Reachability in a graph given by successor sets: f is in every set that *)
(* contains the start and is closed under successors.                      *)
(***************************************************************************)
ClosedUnder(S, next) == \A x \in S : next[x] \subseteq S

Reaches(next, g, f) ==
  \A S \in SUBSET Funcs : g \in S /\ ClosedUnder(S, next) => f \in S

(* Mutant: the members, without what they mention.                         *)
AllFunctionsShallow(p) == p.members

(* ssautil.AllFunctions: the members and all they mention, transitively.   *)
AllFunctions(p) == {f \in Funcs : \E m \in p.members : Reaches(p.mentions, m, f)}

(* static.CallGraph: a node for every such function and for its callees.   *)
StaticNodes(p) ==
  AllFunctions(p) \cup UNION {p.succ[f] : f \in AllFunctions(p)}

(* Mutants: no search, and a search that does not follow the edges.        *)
PathSearchNever(p, g, f) == FALSE
PathSearchShallow(p, g, f) == f \in p.succ[g]

(* callgraph.PathSearch from g for the node of f.                          *)
PathSearch(p, g, f) == Reaches(p.succ, g, f)

-----------------------------------------------------------------------------
VARIABLES
  prog,     \* the program under analysis
  nodes,    \* the keys of CallGraph.Nodes
  mu,       \* the job that holds Descriptions.mu, or NoJob
  cache,    \* the keys of Descriptions.cache
  ready,    \* the functions whose entry's ready channel is closed
  result,   \* the result field of the entries
  pc,       \* where each job is
  want,     \* the argument of each job's current call of Get
  stack,    \* each job's unfinished computations, innermost last
  ret,      \* the description the job's last call of Get returned
  gets      \* how many descriptions the job has asked for

jobVars == <<pc, want, stack, ret, gets>>
vars == <<prog, nodes, mu, cache, ready, result, pc, want, stack, ret, gets>>

Description == [pure : BOOLEAN, rest : BOOLEAN]
Frame == [fn : Funcs, pos : Nat \ {0}]
Locations == {"idle", "lock", "lookup", "insert", "wait",
              "body", "rest", "close", "return"}

TypeOK ==
  /\ prog \in Programs
  /\ nodes \subseteq Funcs
  /\ mu \in Jobs \cup {NoJob}
  /\ cache \subseteq Funcs
  /\ ready \subseteq Funcs
  /\ result \in [Funcs -> Description]
  /\ pc \in [Jobs -> Locations]
  /\ want \in [Jobs -> Funcs]
  /\ stack \in [Jobs -> Seq(Frame)]
  /\ ret \in [Jobs -> Description]
  /\ gets \in [Jobs -> 0 .. MaxGets]

NoDescription == [pure |-> FALSE, rest |-> FALSE]

Init ==
  /\ prog \in Programs
  /\ nodes = StaticNodes(prog)
  /\ mu = NoJob
  /\ cache = {}
  /\ ready = {}
  /\ result = [f \in Funcs |-> NoDescription]
  /\ pc = [t \in Jobs |-> "idle"]
  /\ want = [t \in Jobs |-> CHOOSE f \in Funcs : TRUE]
  /\ stack = [t \in Jobs |-> <<>>]
  /\ ret = [t \in Jobs |-> NoDescription]
  /\ gets = [t \in Jobs |-> 0]

Goto(t, from, to) == pc[t] = from /\ pc' = [pc EXCEPT ![t] = to]

Top(t) == stack[t][Len(stack[t])]
Push(t, f) == stack' = [stack EXCEPT ![t] = Append(@, [fn |-> f, pos |-> 1])]
Pop(t) == stack' = [stack EXCEPT ![t] = SubSeq(@, 1, Len(@) - 1)]
Advance(t) == stack' = [stack EXCEPT ![t][Len(stack[t])].pos = @ + 1]

(* A check asks for the description of a function of the program.          *)
CallGet(t) ==
  /\ Goto(t, "idle", "lock")
  /\ gets[t] < MaxGets
  /\ \E f \in AllFunctions(prog) : want' = [want EXCEPT ![t] = f]
  /\ gets' = [gets EXCEPT ![t] = @ + 1]
  /\ UNCHANGED <<prog, nodes, mu, cache, ready, result, stack, ret>>

(* Mutant: the lookup and the insertion are not under the mutex.           *)
LockUnguarded(t) ==
  /\ Goto(t, "lock", "lookup")
  /\ mu' = t
  /\ UNCHANGED <<prog, nodes, cache, ready, result, want, stack, ret, gets>>

(* d.mu.Lock()                                                             *)
Lock(t) ==
  /\ Goto(t, "lock", "lookup")
  /\ mu = NoJob
  /\ mu' = t
  /\ UNCHANGED <<prog, nodes, cache, ready, result, want, stack, ret, gets>>

(* fd := d.cache[fn] is nil                                                *)
Miss(t) ==
  /\ want[t] \notin cache
  /\ Goto(t, "lookup", "insert")
  /\ UNCHANGED <<prog, nodes, mu, cache, ready, result, want, stack, ret, gets>>

(* Insert an entry, unlock, take over what stdlibDescs says of the         *)
(* function and, unless that is that it is pure, start IsPure.             *)
Insert(t) ==
  LET f == want[t] IN
  /\ Goto(t, "insert", IF f \in prog.known THEN "rest" ELSE "body")
  /\ cache' = cache \cup {f}
  /\ mu' = NoJob
  /\ result' = [result EXCEPT ![f] = [pure |-> f \in prog.known, rest |-> FALSE]]
  /\ Push(t, f)
  /\ UNCHANGED <<prog, nodes, ready, want, ret, gets>>

(* There is an entry: unlock and wait for it.                              *)
Hit(t) ==
  /\ want[t] \in cache
  /\ Goto(t, "lookup", "wait")
  /\ mu' = NoJob
  /\ UNCHANGED <<prog, nodes, cache, ready, result, want, stack, ret, gets>>

(* Mutant: the result of an entry is returned without waiting for it.      *)
WaitNot(t) ==
  /\ Goto(t, "wait", "return")
  /\ ret' = [ret EXCEPT ![t] = result[want[t]]]
  /\ UNCHANGED <<prog, nodes, mu, cache, ready, result, want, stack, gets>>

(* <-fd.ready, and return fd.result                                        *)
Wait(t) ==
  /\ Goto(t, "wait", "return")
  /\ want[t] \in ready
  /\ ret' = [ret EXCEPT ![t] = result[want[t]]]
  /\ UNCHANGED <<prog, nodes, mu, cache, ready, result, want, stack, gets>>

(* IsPure has its answer b; Get records it and goes on to the other parts  *)
(* of the description.                                                     *)
FinishPure(t, b) ==
  /\ Goto(t, "body", "rest")
  /\ result' = [result EXCEPT ![Top(t).fn].pure = @ \/ b]

(* Mutant: the entry is published as soon as purity is known.              *)
PureEndAndClose(t) ==
  /\ pc[t] = "body"
  /\ Top(t).pos > Len(prog.body[Top(t).fn])
  /\ FinishPure(t, TRUE)
  /\ ready' = ready \cup {Top(t).fn}
  /\ UNCHANGED <<prog, nodes, mu, cache, want, stack, ret, gets>>

(* IsPure has seen every instruction.                                      *)
PureEnd(t) ==
  /\ pc[t] = "body"
  /\ Top(t).pos > Len(prog.body[Top(t).fn])
  /\ FinishPure(t, TRUE)
  /\ UNCHANGED <<prog, nodes, mu, cache, ready, want, stack, ret, gets>>

(* The instruction of the body that IsPure has reached.                    *)
AtInstr(t, ins) ==
  /\ pc[t] = "body"
  /\ Top(t).pos <= Len(prog.body[Top(t).fn])
  /\ prog.body[Top(t).fn][Top(t).pos] = ins

PureEffect(t) ==
  /\ AtInstr(t, Effect)
  /\ FinishPure(t, FALSE)
  /\ UNCHANGED <<prog, nodes, mu, cache, ready, want, stack, ret, gets>>

(* A direct recursive call is skipped.                                     *)
PureSelfCall(t) ==
  /\ AtInstr(t, Top(t).fn)
  /\ Advance(t)
  /\ UNCHANGED <<prog, nodes, mu, cache, ready, result, pc, want, ret, gets>>

(* A call of another function g: CreateNode for g, then PathSearch.  A     *)
(* path back to the function itself makes it impure; without one, Get is   *)
(* called for g.                                                           *)
PureCall(t) ==
  /\ pc[t] = "body"
  /\ \E g \in Funcs \ {Top(t).fn} :
        /\ AtInstr(t, g)
        /\ nodes' = nodes \cup {g}
        /\ \/ /\ PathSearch(prog, g, Top(t).fn)
              /\ FinishPure(t, FALSE)
              /\ UNCHANGED want
           \/ /\ ~PathSearch(prog, g, Top(t).fn)
              /\ Goto(t, "body", "lock")
              /\ want' = [want EXCEPT ![t] = g]
              /\ UNCHANGED result
        /\ UNCHANGED <<prog, mu, cache, ready, stack, ret, gets>>

(* IsStub, terminates, BuildGraph.Solve, findLoops, IsNilError and         *)
(* concreteReturnTypes: none calls Get.                                    *)
ComputeRest(t) ==
  /\ Goto(t, "rest", "close")
  /\ result' = [result EXCEPT ![Top(t).fn].rest = TRUE]
  /\ UNCHANGED <<prog, nodes, mu, cache, ready, want, stack, ret, gets>>

(* close(fd.ready), and return fd.result                                   *)
Close(t) ==
  LET f == Top(t).fn IN
  /\ Goto(t, "close", "return")
  /\ ready' = ready \cup {f}
  /\ ret' = [ret EXCEPT ![t] = result[f]]
  /\ want' = [want EXCEPT ![t] = f]
  /\ Pop(t)
  /\ UNCHANGED <<prog, nodes, mu, cache, result, gets>>

(* Get returns to the check, or to the IsPure that called it.              *)
ReturnToCheck(t) ==
  /\ stack[t] = <<>>
  /\ Goto(t, "return", "idle")
  /\ UNCHANGED <<prog, nodes, mu, cache, ready, result, want, stack, ret, gets>>

ReturnToPure(t) ==
  /\ stack[t] # <<>>
  /\ \/ /\ ret[t].pure
        /\ Goto(t, "return", "body")
        /\ Advance(t)
        /\ UNCHANGED result
     \/ /\ ~ret[t].pure
        /\ Goto(t, "return", "rest")
        /\ result' = [result EXCEPT ![Top(t).fn].pure = @ \/ ret[t].pure]
        /\ UNCHANGED stack
  /\ UNCHANGED <<prog, nodes, mu, cache, ready, want, ret, gets>>

(* What a job does inside Get.                                             *)
Step(t) ==
  \/ Lock(t) \/ Miss(t) \/ Insert(t) \/ Hit(t) \/ Wait(t)
  \/ PureEnd(t) \/ PureEffect(t) \/ PureSelfCall(t) \/ PureCall(t)
  \/ ComputeRest(t) \/ Close(t) \/ ReturnToCheck(t) \/ ReturnToPure(t)

(* Every job has asked for all it wants: the linter's WaitGroup is done.   *)
Finished ==
  /\ \A t \in Jobs : pc[t] = "idle" /\ gets[t] = MaxGets
  /\ UNCHANGED vars

Next == (\E t \in Jobs : CallGet(t) \/ Step(t)) \/ Finished

(* Runnable goroutines run, and sync.Mutex does not starve a waiter.  A    *)
(* check need not call Get.                                                *)
Fairness == \A t \in Jobs : WF_vars(Step(t)) /\ SF_vars(Lock(t))

Spec == Init /\ [][Next]_vars /\ Fairness

-----------------------------------------------------------------------------
InGet(t) == pc[t] \in {"lock", "lookup", "insert", "wait"}
OnStack(t, f) == \E i \in 1 .. Len(stack[t]) : stack[t][i].fn = f

(***************************************************************************)
(* Every unfinished entry is being computed by one call of Get: no two     *)
(* jobs, and no two frames of one job, compute the same function, and no   *)
(* entry is abandoned.                                                     *)
(***************************************************************************)
SingleWriter ==
  /\ ready \subseteq cache
  /\ \A f \in Funcs : f \in cache \ ready <=> \E t \in Jobs : OnStack(t, f)
  /\ \A t, u \in Jobs : \A i \in 1 .. Len(stack[t]), j \in 1 .. Len(stack[u]) :
        stack[t][i].fn = stack[u][j].fn => t = u /\ i = j

(***************************************************************************)
(* A nested call of Get asks only for functions strictly below every       *)
(* unfinished one of the same job: those reach it, it reaches none of      *)
(* them.  Chains of waiting jobs therefore descend, so they end: neither a *)
(* job waits for itself, nor do several wait for each other.               *)
(***************************************************************************)
Below(f, g) == Reaches(prog.succ, f, g) /\ ~Reaches(prog.succ, g, f)

WaitsDescend ==
  \A t \in Jobs : InGet(t) =>
     \A i \in 1 .. Len(stack[t]) : Below(stack[t][i].fn, want[t])

(***************************************************************************)
(* What Get returns depends on the program alone, whichever job computed   *)
(* it and however the jobs interleaved: a function is pure if it is known  *)
(* to be, or if no function that IsPure opens on its behalf has an effect  *)
(* or calls another function that calls it back.                           *)
(***************************************************************************)
Callees(p, f) == {g \in Funcs : \E i \in 1 .. Len(p.body[f]) : p.body[f][i] = g}
HasEffect(p, f) == \E i \in 1 .. Len(p.body[f]) : p.body[f][i] = Effect
Opens(p, f) == IF f \in p.known THEN {} ELSE Callees(p, f)

PureRef(p, f) ==
  \A g \in Funcs :
     Reaches([h \in Funcs |-> Opens(p, h)], f, g) /\ g \notin p.known =>
        /\ ~HasEffect(p, g)
        /\ \A h \in Callees(p, g) \ {g} : ~Reaches(p.succ, h, g)

GetIsDeterministic ==
  \A t \in Jobs : pc[t] = "return" =>
     ret[t] = [pure |-> PureRef(prog, want[t]), rest |-> TRUE]

(***************************************************************************)
(* IsPure runs outside the mutex, so its CreateNode must find every node   *)
(* in place: an insertion into CallGraph.Nodes here would be a data race   *)
(* with the other jobs' PathSearch and CreateNode.                         *)
(***************************************************************************)
CallGraphFrozen == [][nodes' = nodes]_nodes

(***************************************************************************)
(* Once the channel is closed the description is read without a lock, so   *)
(* it must never be written again.                                         *)
(***************************************************************************)
PublishedIsFinal ==
  [][\A f \in ready : f \in ready' /\ result'[f] = result[f]]_<<ready, result>>

(* Every call of Get that a check makes returns.                           *)
GetReturns == \A t \in Jobs : pc[t] # "idle" ~> pc[t] = "idle"
=============================================================================
