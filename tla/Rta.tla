-------------------------------- MODULE Rta --------------------------------
(***************************************************************************)
(* rta.Analyze, Rapid Type Analysis, and cha.CallGraph.                    *)
(*                                                                         *)
(* RTA visits the functions it finds reachable.  Functions, call sites,    *)
(* types and interfaces turn up in the order in which the worklist and the *)
(* iterations over maps happen to bring them, and two cross products have  *)
(* to be completed on the way: address-taken functions with dynamic calls  *)
(* of their signature, and concrete types with invocations of an interface *)
(* they implement.                                                         *)
(*                                                                         *)
(* An instruction is a call (static, dynamic or through an interface), a   *)
(* MakeInterface, or a mention of a function that is not a call.  A site   *)
(* is a function and the index of an instruction.  As in ProgramBuild a    *)
(* type is given by its methods and its parts: the calls of addRuntimeType *)
(* that its case of the type switch makes, none for built-in named types.  *)
(***************************************************************************)
EXTENDS Naturals, Sequences, FiniteSets, Bags, SequencesExt

CONSTANTS
  Funcs,        \* the functions, methods and wrappers
  Roots,        \* the root functions, in order
  Sigs,         \* the signatures
  SigOf,        \* Function.Signature
  Types,        \* the types
  Interfaces,   \* the interfaces
  Implements,   \* types.Implements: pairs of a type and an interface
  Methods,      \* the names of methods
  MethodsOf,    \* the method set of each type
  Exported,     \* the names that are exported
  FuncOf,       \* Program.MethodValue: of a concrete type and a method
  Parts,        \* for each type the sequence of its parts and skip values
  Programs,     \* the programs: the instructions of each function
  AllFunctions, \* ssautil.AllFunctions
  Inits,        \* the package initializers
  MaxInstrs     \* bound: how many instructions a function has

Concrete == Types \ Interfaces
Sites == Funcs \X (1 .. MaxInstrs)
Pairs == Sites \X Funcs

Static(g) == [kind |-> "static", to |-> g]
Dynamic(S) == [kind |-> "dynamic", sig |-> S]
Invoke(I, m) == [kind |-> "invoke", iface |-> I, method |-> m]
MakeInterface(T) == [kind |-> "make", type |-> T]
Mention(g) == [kind |-> "mention", to |-> g]

IsMethod(g) == \E C \in Concrete : \E m \in MethodsOf[C] : g = FuncOf[<<C, m>>]

(* A method is mentioned through its thunk or its bound method only.       *)
Instr ==
  {Static(g) : g \in Funcs} \cup {Dynamic(S) : S \in Sigs}
    \cup {Mention(g) : g \in {f \in Funcs \ Inits : ~IsMethod(f)}}
    \cup (UNION {{Invoke(I, m) : m \in MethodsOf[I]} : I \in Interfaces})
    \cup {MakeInterface(T) : T \in Types}

Part == Types \X BOOLEAN

ASSUME ConstantsAssumption ==
  /\ IsFiniteSet(Funcs) /\ IsFiniteSet(Types)
  /\ Roots \in Seq(Funcs) /\ AllFunctions \subseteq Funcs /\ MaxInstrs \in Nat
  /\ Inits \subseteq Funcs
  /\ SigOf \in [Funcs -> Sigs]
  /\ Interfaces \subseteq Types /\ Implements \subseteq Concrete \X Interfaces
  /\ MethodsOf \in [Types -> SUBSET Methods]
  /\ \A T \in Concrete : \A m \in MethodsOf[T] : FuncOf[<<T, m>>] \in Funcs
  /\ \A T, U \in Concrete : \A m \in MethodsOf[T] \cap MethodsOf[U] : FuncOf[<<T, m>>] = FuncOf[<<U, m>>] => T = U
  /\ \A x \in Implements : MethodsOf[x[2]] \subseteq MethodsOf[x[1]]
  /\ \A T \in Types : Parts[T] \in Seq(Part)
  /\ \A p \in Programs : \A f \in Funcs : p[f] \in Seq(Instr) /\ Len(p[f]) <= MaxInstrs

VARIABLES
  program,         \* the instructions of each function
  worklist,        \* the functions to visit in the next round
  shadow,          \* the functions left to visit in this round
  at,              \* how many instructions of the first of them are done
  pending,         \* addRuntimeType: the calls its recursion has yet to make
  reachable,       \* the keys of Result.Reachable
  addrTaken,       \* those whose value is true
  runtimeTypes,    \* Result.RuntimeTypes: "no", "false" or "true"
  addrTakenFuncs,  \* addrTakenFuncsBySig, all signatures together
  dynCallSites,    \* for each signature the bag of its sites
  invokeSites,     \* for each interface the bag of its sites
  concreteTypes,   \* for each concrete type seen its interfaces
  interfaceTypes,  \* for each interface invoked its concrete types
  edges            \* the bag of edges: site and callee

found == <<reachable, addrTaken, worklist, edges>>
tables == <<addrTakenFuncs, dynCallSites, invokeSites, concreteTypes, interfaceTypes>>
vars == <<program, shadow, at, pending, runtimeTypes, found, tables>>

Init ==
  /\ program \in Programs
  /\ worklist = Roots
  /\ shadow = <<>> /\ at = 0 /\ pending = <<>>
  /\ reachable = {} /\ addrTaken = {}
  /\ runtimeTypes = [T \in Types |-> "no"]
  /\ addrTakenFuncs = {}
  /\ dynCallSites = [S \in Sigs |-> EmptyBag]
  /\ invokeSites = [I \in Interfaces |-> EmptyBag]
  /\ concreteTypes = <<>> /\ interfaceTypes = <<>>
  /\ edges = EmptyBag

-----------------------------------------------------------------------------
(* addReachable for the functions of F, in any order.                      *)
AddReachable(F, taken) ==
  /\ reachable' = reachable \cup F
  /\ addrTaken' = IF taken THEN addrTaken \cup F ELSE addrTaken
  /\ \E s \in SetToSeqs(F \ reachable) : worklist' = worklist \o s

(* addEdge for each of a bag of sites and callees.                         *)
AddEdges(B, taken) ==
  /\ AddReachable({x[2] : x \in BagToSet(B)}, taken)
  /\ edges' = edges (+) B

Once(x) == SetToBag({x})

(* The instruction of a site.                                              *)
At(s) == program[s[1]][s[2]]

Idle == shadow = <<>>
Here == <<Head(shadow), at + 1>>

(* The next instruction of the function that is visited.                   *)
Fetch(kind) ==
  /\ ~Idle /\ pending = <<>>
  /\ at < Len(program[Head(shadow)])
  /\ program[Head(shadow)][at + 1].kind = kind
  /\ at' = at + 1

TheInstr == program[Head(shadow)][at + 1]

(* shadow, r.worklist = r.worklist, shadow[:0]                             *)
NextRound ==
  /\ Idle /\ worklist # <<>>
  /\ shadow' = worklist /\ worklist' = <<>>
  /\ at' = 0
  /\ UNCHANGED <<program, pending, runtimeTypes, reachable, addrTaken, edges, tables>>

(* visitFunc returns.                                                      *)
EndVisit ==
  /\ ~Idle /\ pending = <<>>
  /\ at = Len(program[Head(shadow)])
  /\ shadow' = Tail(shadow) /\ at' = 0
  /\ UNCHANGED <<program, pending, runtimeTypes, found, tables>>

VisitStatic ==
  /\ Fetch("static")
  /\ AddEdges(Once(<<Here, TheInstr.to>>), FALSE)
  /\ UNCHANGED <<program, shadow, pending, runtimeTypes, tables>>

(* Bug: the site is not recorded.                                          *)
VisitDynCallUnrecorded ==
  /\ Fetch("dynamic")
  /\ AddEdges(SetToBag({Here} \X {f \in addrTakenFuncs : SigOf[f] = TheInstr.sig}), TRUE)
  /\ UNCHANGED <<program, shadow, pending, runtimeTypes, tables>>

(* visitDynCall                                                            *)
VisitDynCall ==
  LET S == TheInstr.sig IN
  /\ Fetch("dynamic")
  /\ dynCallSites' = [dynCallSites EXCEPT ![S] = @ (+) Once(Here)]
  /\ AddEdges(SetToBag({Here} \X {f \in addrTakenFuncs : SigOf[f] = S}), TRUE)
  /\ UNCHANGED <<program, shadow, pending, runtimeTypes, addrTakenFuncs, invokeSites, concreteTypes, interfaceTypes>>

(* The edges from the dynamic calls seen so far, for the new function g.   *)
CallsOf(g) ==
  LET sites == dynCallSites[SigOf[g]] IN [x \in (DOMAIN sites) \X {g} |-> sites[x[1]]]

(* visitAddrTakenFunc                                                      *)
VisitAddrTakenFunc ==
  LET g == TheInstr.to IN
  /\ Fetch("mention")
  /\ addrTakenFuncs' = addrTakenFuncs \cup {g}
  /\ IF g \in addrTakenFuncs THEN UNCHANGED found ELSE AddEdges(CallsOf(g), TRUE)
  /\ UNCHANGED <<program, shadow, pending, runtimeTypes, dynCallSites, invokeSites, concreteTypes, interfaceTypes>>

(* implementations(I): the table, or, for a new interface, a search among  *)
(* the concrete types that adds I to theirs.                               *)
Implementations(I) ==
  IF I \in DOMAIN interfaceTypes THEN interfaceTypes[I]
  ELSE {C \in DOMAIN concreteTypes : <<C, I>> \in Implements}

(* visitInvoke                                                             *)
VisitInvoke ==
  LET I == TheInstr.iface
      Cs == Implementations(I)
  IN
  /\ Fetch("invoke")
  /\ invokeSites' = [invokeSites EXCEPT ![I] = @ (+) Once(Here)]
  /\ interfaceTypes' = [J \in DOMAIN interfaceTypes \cup {I} |-> IF J = I THEN Cs ELSE interfaceTypes[J]]
  /\ concreteTypes' = [C \in DOMAIN concreteTypes |-> concreteTypes[C] \cup {J \in {I} : C \in Cs}]
  /\ AddEdges(SetToBag({Here} \X {FuncOf[<<C, TheInstr.method>>] : C \in Cs}), TRUE)
  /\ UNCHANGED <<program, shadow, pending, runtimeTypes, addrTakenFuncs, dynCallSites>>

(* MakeInterface calls addRuntimeType(T, false).                           *)
VisitMakeInterface ==
  /\ Fetch("make")
  /\ pending' = <<<<TheInstr.type, FALSE>>>>
  /\ UNCHANGED <<program, shadow, runtimeTypes, found, tables>>

(* addRuntimeType for a type that is known: skip may be set, never reset.  *)
OldRuntimeType ==
  LET T == pending[1][1] IN
  /\ pending # <<>>
  /\ runtimeTypes[T] # "no"
  /\ runtimeTypes' = [runtimeTypes EXCEPT ![T] = IF pending[1][2] THEN "true" ELSE @]
  /\ pending' = Tail(pending)
  /\ UNCHANGED <<program, shadow, at, found, tables>>

(* Bug: the interfaces that were invoked already do not learn of T.        *)
InterfacesForgotten(T) ==
  LET Is == {I \in DOMAIN interfaceTypes : <<T, I>> \in Implements} IN
  /\ concreteTypes' = [C \in DOMAIN concreteTypes \cup {T} |-> IF C = T THEN Is ELSE concreteTypes[C]]
  /\ UNCHANGED interfaceTypes

(* interfaces(T) updates the relation on both sides.                       *)
InterfacesOf(T) ==
  LET Is == {I \in DOMAIN interfaceTypes : <<T, I>> \in Implements} IN
  /\ concreteTypes' = [C \in DOMAIN concreteTypes \cup {T} |-> IF C = T THEN Is ELSE concreteTypes[C]]
  /\ interfaceTypes' = [I \in DOMAIN interfaceTypes |-> interfaceTypes[I] \cup {C \in {T} : I \in Is}]

(* The edges from the invocations seen so far, for the new type T.         *)
InvokeEdges(T) ==
  LET sites == UNION {DOMAIN invokeSites[I] : I \in {J \in DOMAIN interfaceTypes : <<T, J>> \in Implements}} IN
  [x \in {<<s, FuncOf[<<T, At(s).method>>]>> : s \in sites} |-> invokeSites[At(x[1]).iface][x[1]]]

(* addRuntimeType for a new type; its recursion follows.                   *)
NewRuntimeType ==
  LET T == pending[1][1]
      skip == pending[1][2]
      new == {FuncOf[<<T, m>>] : m \in MethodsOf[T] \cap Exported}
      invoked == InvokeEdges(T)
  IN
  /\ pending # <<>>
  /\ runtimeTypes[T] = "no"
  /\ runtimeTypes' = [runtimeTypes EXCEPT ![T] = IF skip THEN "true" ELSE "false"]
  /\ pending' = Parts[T] \o Tail(pending)
  /\ \/ T \in Interfaces /\ UNCHANGED <<found, concreteTypes, interfaceTypes>>
     \/ /\ T \in Concrete
        /\ InterfacesOf(T)
        /\ AddReachable(new \cup {x[2] : x \in BagToSet(invoked)}, TRUE)
        /\ edges' = edges (+) invoked
  /\ UNCHANGED <<program, shadow, at, addrTakenFuncs, dynCallSites, invokeSites>>

Done == Idle /\ worklist = <<>>

Analyze ==
  \/ NextRound \/ EndVisit
  \/ VisitStatic \/ VisitDynCall \/ VisitInvoke \/ VisitMakeInterface \/ VisitAddrTakenFunc
  \/ OldRuntimeType \/ NewRuntimeType

Next == Analyze \/ (Done /\ UNCHANGED vars)

Spec == Init /\ [][Next]_vars

-----------------------------------------------------------------------------
(* The sites of the functions F of a program p.            *)
SitesIn(p, F) == UNION {{f} \X DOMAIN p[f] : f \in F}

MethodsNamed(I, m, Ts) == {FuncOf[<<C, m>>] : C \in {T \in Ts : <<T, I>> \in Implements}}

(* Bug: functions are indexed by name only, so dynamic calls find none.    *)
ChaCalleesNoDynamic(i) ==
  CASE i.kind = "static"  -> {i.to}
    [] i.kind = "dynamic" -> {}
    [] i.kind = "invoke"  -> AllFunctions \cap MethodsNamed(i.iface, i.method, Concrete)
    [] OTHER -> {}

(* The callees that cha.CallGraph gives an instruction: a call of a        *)
(* signature may reach every function that has it and no receiver, an      *)
(* invocation every method of its name whose receiver implements the       *)
(* interface.                                                              *)
ChaCallees(i) ==
  CASE i.kind = "static"  -> {i.to}
    [] i.kind = "dynamic" -> {g \in AllFunctions \ Inits : SigOf[g] = i.sig /\ ~IsMethod(g)}
    [] i.kind = "invoke"  -> AllFunctions \cap MethodsNamed(i.iface, i.method, Concrete)
    [] OTHER -> {}

(* cha.CallGraph.                                                          *)
ChaEdges(p) == UNION {{s} \X ChaCallees(p[s[1]][s[2]]) : s \in SitesIn(p, AllFunctions)}

-----------------------------------------------------------------------------
(* The reference: what follows from visiting the functions of X, having    *)
(* taken the address of others and made some types into interfaces.        *)
Instrs(X) == SitesIn(program, X.funcs)
Of(X, kind) == {At(s) : s \in {t \in Instrs(X) : At(t).kind = kind}}

Callees(X, i) ==
  CASE i.kind = "static"  -> {i.to}
    [] i.kind = "dynamic" -> {g \in X.taken : SigOf[g] = i.sig}
    [] i.kind = "invoke"  -> MethodsNamed(i.iface, i.method, X.types)
    [] OTHER -> {}

EdgesOf(X) == UNION {{s} \X Callees(X, At(s)) : s \in Instrs(X)}

ByReflection(X) == UNION {{FuncOf[<<C, m>>] : m \in MethodsOf[C] \cap Exported} : C \in X.types \cap Concrete}

Grow(X) ==
  [funcs |-> X.funcs \cup {x[2] : x \in EdgesOf(X)} \cup ByReflection(X),
   taken |-> X.taken \cup {i.to : i \in Of(X, "mention")},
   types |-> X.types \cup {i.type : i \in Of(X, "make")}
               \cup UNION {{x[1] : x \in ToSet(Parts[U])} : U \in X.types}]

(* Grow repeated as often as it can find something new.                    *)
Grown[n \in Nat] ==
  IF n = 0 THEN [funcs |-> ToSet(Roots), taken |-> {}, types |-> {}] ELSE Grow(Grown[n - 1])

Fixpoint ==
  LET most == Cardinality(Funcs) + Cardinality(Funcs) + Cardinality(Types) IN
  Grown[CHOOSE n \in 0 .. most : Grown[n] = Grown[n + 1]]

(* The roots that Analyze visits more than once: those that are called,    *)
(* and those that its caller gives twice.                                  *)
Repeated == {f \in ToSet(Roots) : \E i, j \in DOMAIN Roots : i # j /\ Roots[i] = f /\ Roots[j] = f}
VisitedTwice == (ToSet(Roots) \cap reachable) \cup Repeated

(***************************************************************************)
(* In whatever order functions, sites and types are found, the analysis    *)
(* ends with the least fixed point: no call edge is lost because one half  *)
(* of a pair came before the other, and none is made up.  At every moment  *)
(* a site and a callee are joined by one edge, however often they have     *)
(* been brought together; except in a root that is itself called, which    *)
(* Analyze visits a second time because it is not in Reachable, or one     *)
(* that the caller gave twice.                                             *)
(***************************************************************************)
AnalysisIsExact ==
  /\ \A x \in DOMAIN edges : edges[x] = 1 \/ x[1][1] \in VisitedTwice
  /\ Done =>
       LET X == Fixpoint IN
         /\ reachable \cup ToSet(Roots) = X.funcs
         /\ DOMAIN edges = EdgesOf(X)
         /\ {T \in Types : runtimeTypes[T] # "no"} = X.types
         /\ reachable = {x[2] : x \in EdgesOf(X)} \cup ByReflection(X)
         /\ addrTaken = {x[2] : x \in {y \in EdgesOf(X) : At(y[1]).kind # "static"}} \cup ByReflection(X)

(***************************************************************************)
(* The two maps of the relation "implements" agree, and hold exactly the   *)
(* pairs of a concrete type and an interface that have both been seen.     *)
(***************************************************************************)
ImplementsIsExact ==
  \A C \in DOMAIN concreteTypes : \A I \in DOMAIN interfaceTypes :
     /\ C \in interfaceTypes[I] <=> <<C, I>> \in Implements
     /\ I \in concreteTypes[C] <=> <<C, I>> \in Implements

(***************************************************************************)
(* Class Hierarchy Analysis has every edge of Rapid Type Analysis between  *)
(* functions that AllFunctions knows.                                      *)
(***************************************************************************)
ChaCoversRta ==
  Done => \A x \in DOMAIN edges :
             x[1][1] \in AllFunctions /\ x[2] \in AllFunctions => x \in ChaEdges(program)
=============================================================================
