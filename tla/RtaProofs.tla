----------------------------- MODULE RtaProofs -----------------------------
(***************************************************************************)
(* Proofs about Rta: for every program, and in whatever order functions,   *)
(* sites and types turn up, Rapid Type Analysis ends with the least fixed  *)
(* point, joins a site and a callee once, keeps its two maps of the        *)
(* relation "implements" in agreement, and stays below Class Hierarchy     *)
(* Analysis.                                                               *)
(*                                                                         *)
(* The inductive invariant says of every moment which halves of the two    *)
(* cross products have been found, that their pairs are edges, and that    *)
(* what has been found but not followed up is in a worklist or pending.    *)
(***************************************************************************)
EXTENDS Rta, FiniteSetTheorems, FunctionTheorems, WellFoundedInduction, TLAPS

Known == {T \in Types : runtimeTypes[T] # "no"}
PendingTypes == {pending[i][1] : i \in 1 .. Len(pending)}

(* The result so far, to be compared with solutions.                       *)
Result == [funcs |-> reachable \cup ToSet(Roots), taken |-> addrTakenFuncs, types |-> Known]

Solutions == [funcs : SUBSET Funcs, taken : SUBSET Funcs, types : SUBSET Types]

TypeOK ==
  /\ program \in Programs
  /\ worklist \in Seq(Funcs) /\ shadow \in Seq(Funcs) /\ at \in Nat
  /\ pending \in Seq(Part) /\ (Idle => pending = <<>>)
  /\ reachable \subseteq Funcs
  /\ runtimeTypes \in [Types -> {"no", "false", "true"}]
  /\ addrTakenFuncs \subseteq {f \in Funcs \ Inits : ~IsMethod(f)}
  /\ dynCallSites = [S \in Sigs |-> dynCallSites[S]]
  /\ invokeSites = [I \in Interfaces |-> invokeSites[I]]
  /\ DOMAIN interfaceTypes \subseteq Interfaces
  /\ DOMAIN concreteTypes = Known \cap Concrete

(* Everything that is recorded belongs to a function that was found.       *)
SiteInv ==
  /\ \A i \in 1 .. Len(worklist) : worklist[i] \in Result.funcs
  /\ \A i \in 1 .. Len(shadow) : shadow[i] \in Result.funcs
  /\ \A S \in Sigs : \A s \in DOMAIN dynCallSites[S] :
        s \in Instrs(Result) /\ At(s).kind = "dynamic" /\ At(s).sig = S
  /\ \A I \in Interfaces : \A s \in DOMAIN invokeSites[I] :
        s \in Instrs(Result) /\ At(s).kind = "invoke" /\ At(s).iface = I /\ I \in DOMAIN interfaceTypes

(* The two maps of the relation "implements".                              *)
TableInv ==
  /\ ImplementsIsExact
  /\ \A I \in DOMAIN interfaceTypes : interfaceTypes[I] \subseteq DOMAIN concreteTypes
  /\ \A C \in DOMAIN concreteTypes : concreteTypes[C] \subseteq DOMAIN interfaceTypes

(* Why there is an edge from s to g.                                       *)
Joined(s, g) ==
  /\ s \in Instrs(Result)
  /\ \/ At(s).kind = "static" /\ g = At(s).to
     \/ /\ At(s).kind = "dynamic" /\ s \in DOMAIN dynCallSites[At(s).sig]
        /\ g \in addrTakenFuncs /\ SigOf[g] = At(s).sig
     \/ /\ At(s).kind = "invoke" /\ s \in DOMAIN invokeSites[At(s).iface]
        /\ \E C \in DOMAIN concreteTypes :
              <<C, At(s).iface>> \in Implements /\ g = FuncOf[<<C, At(s).method>>]

(* The edges are the pairs of the two cross products, and static calls.    *)
EdgeInv ==
  /\ \A x \in DOMAIN edges : x = <<x[1], x[2]>> /\ Joined(x[1], x[2])
  /\ \A S \in Sigs : \A s \in DOMAIN dynCallSites[S] : \A g \in addrTakenFuncs :
        SigOf[g] = S => <<s, g>> \in DOMAIN edges
  /\ \A I \in Interfaces : \A s \in DOMAIN invokeSites[I] : \A C \in DOMAIN concreteTypes :
        <<C, I>> \in Implements => <<s, FuncOf[<<C, At(s).method>>]>> \in DOMAIN edges

(* What is reachable, and what is address-taken.                           *)
ReachInv ==
  /\ reachable = {x[2] : x \in DOMAIN edges} \cup ByReflection(Result)
  /\ addrTaken = {x[2] : x \in {y \in DOMAIN edges : At(y[1]).kind # "static"}} \cup ByReflection(Result)

Processed(s) ==
  LET i == At(s) IN
  /\ i.kind = "static" => <<s, i.to>> \in DOMAIN edges
  /\ i.kind = "dynamic" => s \in DOMAIN dynCallSites[i.sig]
  /\ i.kind = "invoke" => s \in DOMAIN invokeSites[i.iface]
  /\ i.kind = "mention" => i.to \in addrTakenFuncs
  /\ i.kind = "make" => i.type \in Known \cup PendingTypes

(* A function that is to be visited, from instruction i on.                *)
Scheduled(f, i) ==
  \/ \E n \in 1 .. Len(worklist) : worklist[n] = f
  \/ \E n \in 2 .. Len(shadow) : shadow[n] = f
  \/ ~Idle /\ shadow[1] = f /\ i > at

(* What has been found but not followed up is scheduled or pending.        *)
TodoInv ==
  /\ \A f \in Result.funcs : \A i \in DOMAIN program[f] : Processed(<<f, i>>) \/ Scheduled(f, i)
  /\ \A T \in Known : \A n \in 1 .. Len(Parts[T]) : Parts[T][n][1] \in Known \cup PendingTypes

(* Nothing comes from instruction i of f yet.                              *)
Untouched(s) ==
  /\ \A S \in Sigs : s \notin DOMAIN dynCallSites[S]
  /\ \A I \in Interfaces : s \notin DOMAIN invokeSites[I]
  /\ \A x \in DOMAIN edges : x[1] # s

(* f is in line for one visit, and nothing comes from what is left of it. *)
InLineOnce(f) ==
  /\ \A i, j \in 1 .. Len(worklist) : worklist[i] = f /\ worklist[j] = f => i = j
  /\ \A i, j \in 1 .. Len(shadow) : shadow[i] = f /\ shadow[j] = f => i = j
  /\ \A i \in 1 .. Len(worklist), j \in 1 .. Len(shadow) : worklist[i] = f => shadow[j] # f
  /\ \A i \in DOMAIN program[f] : Scheduled(f, i) => Untouched(<<f, i>>)

(* The sites of f and their edges are recorded once.                       *)
RecordedOnce(f) ==
  /\ \A S \in Sigs : \A s \in DOMAIN dynCallSites[S] : s[1] = f => dynCallSites[S][s] = 1
  /\ \A I \in Interfaces : \A s \in DOMAIN invokeSites[I] : s[1] = f => invokeSites[I][s] = 1
  /\ \A x \in DOMAIN edges : x[1][1] = f => edges[x] = 1

(* Every function is visited once, except the roots named above.           *)
OnceInv == \A f \in Funcs \ VisitedTwice : InLineOnce(f) /\ RecordedOnce(f)

Closed(X) == ToSet(Roots) \subseteq X.funcs /\ Grow(X) = X

(* What has been found is in every solution.                               *)
SoundInv ==
  \A X \in Solutions : Closed(X) =>
    /\ Result.funcs \subseteq X.funcs /\ Result.taken \subseteq X.taken
    /\ Known \cup PendingTypes \subseteq X.types

RtaInv ==
  TypeOK /\ SiteInv /\ TableInv /\ EdgeInv /\ ReachInv /\ TodoInv /\ OnceInv /\ SoundInv

-----------------------------------------------------------------------------
(* Instructions and sites.                                                 *)
LEMMA InstrFact ==
  ASSUME NEW i \in Instr
  PROVE  /\ i.kind \in {"static", "dynamic", "mention", "invoke", "make"}
         /\ i.kind = "static" => i.to \in Funcs
         /\ i.kind = "dynamic" => i.sig \in Sigs
         /\ i.kind = "mention" => i.to \in {f \in Funcs \ Inits : ~IsMethod(f)}
         /\ i.kind = "invoke" => i.iface \in Interfaces /\ i.method \in MethodsOf[i.iface]
         /\ i.kind = "make" => i.type \in Types
<1>1. \/ \E g \in Funcs : i = Static(g)
      \/ \E S \in Sigs : i = Dynamic(S)
      \/ \E g \in {f \in Funcs \ Inits : ~IsMethod(f)} : i = Mention(g)
      \/ \E I \in Interfaces : \E m \in MethodsOf[I] : i = Invoke(I, m)
      \/ \E T \in Types : i = MakeInterface(T)
  <2>1. \/ i \in {Static(g) : g \in Funcs}
        \/ i \in {Dynamic(S) : S \in Sigs}
        \/ i \in {Mention(g) : g \in {f \in Funcs \ Inits : ~IsMethod(f)}}
        \/ i \in UNION {{Invoke(I, m) : m \in MethodsOf[I]} : I \in Interfaces}
        \/ i \in {MakeInterface(T) : T \in Types}
    BY DEF Instr
  <2>2. CASE i \in UNION {{Invoke(I, m) : m \in MethodsOf[I]} : I \in Interfaces}
    <3>1. PICK I \in Interfaces : i \in {Invoke(I, m) : m \in MethodsOf[I]}
      BY <2>2
    <3>. QED  BY <3>1
  <2>3. CASE i \in {Mention(g) : g \in {f \in Funcs \ Inits : ~IsMethod(f)}}
    BY <2>3
  <2>. QED  BY <2>1, <2>2, <2>3
<1>. QED  BY <1>1 DEF Static, Dynamic, Mention, Invoke, MakeInterface

LEMMA ProgramFact ==
  ASSUME TypeOK, NEW f \in Funcs
  PROVE  /\ program[f] \in Seq(Instr) /\ Len(program[f]) \in Nat
         /\ DOMAIN program[f] = 1 .. Len(program[f])
         /\ \A i \in DOMAIN program[f] : program[f][i] \in Instr
<1>1. program[f] \in Seq(Instr)
  BY ConstantsAssumption DEF TypeOK
<1>. QED  BY <1>1

LEMMA SitesFact ==
  \A X, s : s \in Instrs(X) <=> \E f \in X.funcs : \E i \in DOMAIN program[f] : s = <<f, i>>
  BY DEF Instrs, SitesIn

LEMMA ResultFact ==
  /\ Result.funcs = reachable \cup ToSet(Roots) /\ Result.taken = addrTakenFuncs /\ Result.types = Known
  /\ ToSet(Roots) \subseteq Funcs /\ ToSet(Roots) = {Roots[i] : i \in 1 .. Len(Roots)}
  BY ConstantsAssumption DEF Result, ToSet

LEMMA SiteInstrFact ==
  ASSUME TypeOK, NEW s \in Instrs(Result)
  PROVE  /\ At(s) \in Instr /\ s = <<s[1], s[2]>>
         /\ s[1] \in Result.funcs /\ s[1] \in Funcs /\ s[2] \in DOMAIN program[s[1]]
<1>1. PICK f \in Result.funcs : \E i \in DOMAIN program[f] : s = <<f, i>>
  BY SitesFact
<1>2. PICK i \in DOMAIN program[f] : s = <<f, i>>
  BY <1>1
<1>3. f \in Funcs
  BY ResultFact DEF TypeOK
<1>. QED  BY <1>2, <1>3, ProgramFact DEF At

(* The edges of a solution.                                                *)
LEMMA EdgesFact ==
  \A X, x : x \in EdgesOf(X) <=> \E s \in Instrs(X) : \E g \in Callees(X, At(s)) : x = <<s, g>>
  BY DEF EdgesOf

LEMMA CalleesFact ==
  ASSUME NEW X, NEW i, i.kind \in {"static", "dynamic", "mention", "invoke", "make"}
  PROVE  /\ i.kind = "static" => Callees(X, i) = {i.to}
         /\ i.kind = "dynamic" => Callees(X, i) = {g \in X.taken : SigOf[g] = i.sig}
         /\ i.kind = "invoke" => Callees(X, i) = MethodsNamed(i.iface, i.method, X.types)
         /\ i.kind \in {"mention", "make"} => Callees(X, i) = {}
<1>1. CASE i.kind = "static"
  BY <1>1 DEF Callees
<1>2. CASE i.kind = "dynamic"
  BY <1>2 DEF Callees
<1>3. CASE i.kind = "invoke"
  BY <1>3 DEF Callees
<1>4. CASE i.kind \in {"mention", "make"}
  BY <1>4 DEF Callees
<1>. QED  BY <1>1, <1>2, <1>3, <1>4

LEMMA NamedFact ==
  \A I, m, Ts, g : g \in MethodsNamed(I, m, Ts) <=> \E C \in Ts : <<C, I>> \in Implements /\ g = FuncOf[<<C, m>>]
  BY DEF MethodsNamed

LEMMA ImplementsFact ==
  ASSUME NEW C, NEW I, <<C, I>> \in Implements
  PROVE  C \in Concrete /\ I \in Interfaces /\ \A m \in MethodsOf[I] : m \in MethodsOf[C] /\ FuncOf[<<C, m>>] \in Funcs
<1>1. C \in Concrete /\ I \in Interfaces
  BY ConstantsAssumption
<1>2. MethodsOf[I] \subseteq MethodsOf[C]
  <2>1. <<C, I>>[1] = C /\ <<C, I>>[2] = I
    OBVIOUS
  <2>. QED  BY <2>1, ConstantsAssumption
<1>. QED  BY <1>1, <1>2, ConstantsAssumption


(* A set of functions that is added in some order.                         *)
LEMMA SetToSeqsFact ==
  ASSUME NEW S, IsFiniteSet(S), NEW s \in SetToSeqs(S)
  PROVE  /\ s \in Seq(S)
         /\ \A i, j \in 1 .. Len(s) : s[i] = s[j] => i = j
         /\ \A x \in S : \E i \in 1 .. Len(s) : s[i] = x
<1>1. Cardinality(S) \in Nat
  BY FS_CardinalityType
<1>2. /\ s \in [1 .. Cardinality(S) -> S]
      /\ \A i, j \in 1 .. Cardinality(S) : i # j => s[i] # s[j]
  BY DEF SetToSeqs
<1>3. s \in Seq(S) /\ Len(s) = Cardinality(S)
  BY <1>1, <1>2
<1>4. s \in Injection(1 .. Cardinality(S), S)
  BY <1>2 DEF Injection, IsInjective
<1>5. IsFiniteSet(1 .. Cardinality(S)) /\ Cardinality(1 .. Cardinality(S)) = Cardinality(S)
  BY <1>1, FS_Interval
<1>6. s \in Surjection(1 .. Cardinality(S), S)
  BY <1>4, <1>5, FS_Injection
<1>. QED  BY <1>2, <1>3, <1>6 DEF Surjection

(* The worklist grows by the functions that have become reachable.         *)
QueueGrows ==
  /\ reachable \subseteq reachable' /\ reachable' \subseteq Funcs
  /\ worklist' \in Seq(Funcs) /\ Len(worklist) <= Len(worklist')
  /\ \A i \in 1 .. Len(worklist) : worklist'[i] = worklist[i]
  /\ \A i \in Len(worklist) + 1 .. Len(worklist') : worklist'[i] \in reachable' \ reachable
  /\ \A i, j \in Len(worklist) + 1 .. Len(worklist') : worklist'[i] = worklist'[j] => i = j
  /\ \A f \in reachable' \ reachable : \E i \in Len(worklist) + 1 .. Len(worklist') : worklist'[i] = f

LEMMA AddReachableFact ==
  ASSUME TypeOK, NEW F \in SUBSET Funcs, NEW taken \in BOOLEAN, AddReachable(F, taken)
  PROVE  /\ QueueGrows
         /\ reachable' = reachable \cup F
         /\ addrTaken' = IF taken THEN addrTaken \cup F ELSE addrTaken
<1>1. /\ reachable' = reachable \cup F
      /\ addrTaken' = IF taken THEN addrTaken \cup F ELSE addrTaken
  BY DEF AddReachable
<1> DEFINE New == F \ reachable
<1>2. PICK s \in SetToSeqs(New) : worklist' = worklist \o s
  BY DEF AddReachable
<1>3. IsFiniteSet(New) /\ New \subseteq Funcs
  BY ConstantsAssumption, FS_Subset
<1>9. reachable' \ reachable = New /\ reachable' \subseteq Funcs
  BY <1>1 DEF TypeOK
<1> HIDE DEF New
<1>4. /\ s \in Seq(New)
      /\ \A i, j \in 1 .. Len(s) : s[i] = s[j] => i = j
      /\ \A x \in New : \E i \in 1 .. Len(s) : s[i] = x
  BY <1>2, <1>3, SetToSeqsFact
<1>5. s \in Seq(Funcs) /\ worklist \in Seq(Funcs) /\ Len(s) \in Nat /\ Len(worklist) \in Nat
  BY <1>3, <1>4 DEF TypeOK
<1>6. worklist' \in Seq(Funcs) /\ Len(worklist') = Len(worklist) + Len(s)
  BY <1>2, <1>5
<1>7. \A i \in 1 .. Len(worklist) : worklist'[i] = worklist[i]
  BY <1>2, <1>5
<1>8. \A i \in Len(worklist) + 1 .. Len(worklist') : worklist'[i] = s[i - Len(worklist)] /\ i - Len(worklist) \in 1 .. Len(s)
  BY <1>2, <1>5, <1>6
<1>10. \A i \in 1 .. Len(s) : s[i] \in New
  BY <1>4
<1>11. \A i \in Len(worklist) + 1 .. Len(worklist') : worklist'[i] \in reachable' \ reachable
  BY <1>8, <1>9, <1>10
<1>12. \A i, j \in Len(worklist) + 1 .. Len(worklist') : worklist'[i] = worklist'[j] => i = j
  <2> SUFFICES ASSUME NEW i \in Len(worklist) + 1 .. Len(worklist'), NEW j \in Len(worklist) + 1 .. Len(worklist'),
                      worklist'[i] = worklist'[j]
               PROVE  i = j
    OBVIOUS
  <2>1. /\ i - Len(worklist) \in 1 .. Len(s) /\ j - Len(worklist) \in 1 .. Len(s)
        /\ s[i - Len(worklist)] = s[j - Len(worklist)]
    BY <1>8
  <2>2. i - Len(worklist) = j - Len(worklist)
    BY <1>4, <2>1
  <2>. QED  BY <1>5, <1>6, <2>2
<1>13. ASSUME NEW f \in reachable' \ reachable
       PROVE  \E i \in Len(worklist) + 1 .. Len(worklist') : worklist'[i] = f
  <2>1. PICK i \in 1 .. Len(s) : s[i] = f
    BY <1>4, <1>9
  <2>2. i + Len(worklist) \in Len(worklist) + 1 .. Len(worklist') /\ (i + Len(worklist)) - Len(worklist) = i
    BY <1>5, <1>6
  <2>. QED  BY <1>8, <2>1, <2>2
<1>. QED  BY <1>1, <1>5, <1>6, <1>7, <1>9, <1>11, <1>12, <1>13 DEF QueueGrows

LEMMA QueueStands ==
  ASSUME TypeOK, UNCHANGED <<reachable, worklist>>
  PROVE  QueueGrows
  BY DEF QueueGrows, TypeOK

(* The union of bags.                                                      *)
LEMMA BagUnionFact ==
  ASSUME NEW A, NEW B
  PROVE  /\ DOMAIN (A (+) B) = DOMAIN A \cup DOMAIN B
         /\ \A x \in DOMAIN A \ DOMAIN B : A[x] = 1 => (A (+) B)[x] = 1
         /\ \A x \in DOMAIN B \ DOMAIN A : B[x] = 1 => (A (+) B)[x] = 1
  BY DEF (+)

LEMMA SetToBagFact ==
  ASSUME NEW S
  PROVE  DOMAIN SetToBag(S) = S /\ BagToSet(SetToBag(S)) = S /\ \A x \in S : SetToBag(S)[x] = 1
  BY DEF SetToBag, BagToSet

(* What the equation Grow(X) = X says.                                     *)
LEMMA ClosedFact ==
  ASSUME TypeOK, NEW X \in Solutions, Closed(X)
  PROVE  /\ ToSet(Roots) \subseteq X.funcs
         /\ \A s \in Instrs(X) : At(s) \in Instr
         /\ \A s \in Instrs(X) : At(s).kind = "static" => At(s).to \in X.funcs
         /\ \A s \in Instrs(X) : At(s).kind = "dynamic" =>
               \A g \in X.taken : SigOf[g] = At(s).sig => g \in X.funcs
         /\ \A s \in Instrs(X) : At(s).kind = "invoke" =>
               \A C \in X.types : <<C, At(s).iface>> \in Implements => FuncOf[<<C, At(s).method>>] \in X.funcs
         /\ \A s \in Instrs(X) : At(s).kind = "mention" => At(s).to \in X.taken
         /\ \A s \in Instrs(X) : At(s).kind = "make" => At(s).type \in X.types
         /\ \A C \in X.types \cap Concrete : \A m \in MethodsOf[C] \cap Exported : FuncOf[<<C, m>>] \in X.funcs
         /\ \A U \in X.types : \A n \in 1 .. Len(Parts[U]) : Parts[U][n][1] \in X.types
<1>1. /\ X.funcs = X.funcs \cup {x[2] : x \in EdgesOf(X)} \cup ByReflection(X)
      /\ X.taken = X.taken \cup {i.to : i \in Of(X, "mention")}
      /\ X.types = X.types \cup {i.type : i \in Of(X, "make")}
               \cup UNION {{x[1] : x \in ToSet(Parts[U])} : U \in X.types}
  BY DEF Closed, Grow
<1>2. X.funcs \subseteq Funcs /\ X.types \subseteq Types /\ X.taken \subseteq Funcs
  BY DEF Solutions
<1>3. ASSUME NEW s \in Instrs(X)
      PROVE  At(s) \in Instr
  <2>1. PICK f \in X.funcs : \E i \in DOMAIN program[f] : s = <<f, i>>
    BY SitesFact
  <2>. QED  BY <1>2, <2>1, ProgramFact DEF At
<1>4. \A s \in Instrs(X) : \A g \in Callees(X, At(s)) : g \in X.funcs
  <2>1. ASSUME NEW s \in Instrs(X), NEW g \in Callees(X, At(s))
        PROVE  g \in X.funcs
    <3>1. <<s, g>> \in EdgesOf(X)
      BY EdgesFact
    <3>2. <<s, g>>[2] = g
      OBVIOUS
    <3>. QED  BY <1>1, <3>1, <3>2
  <2>. QED  BY <2>1
<1>5. ASSUME NEW s \in Instrs(X)
      PROVE  /\ At(s).kind = "static" => At(s).to \in X.funcs
             /\ At(s).kind = "dynamic" => \A g \in X.taken : SigOf[g] = At(s).sig => g \in X.funcs
             /\ At(s).kind = "invoke" =>
                  \A C \in X.types : <<C, At(s).iface>> \in Implements => FuncOf[<<C, At(s).method>>] \in X.funcs
  <2>1. At(s).kind \in {"static", "dynamic", "mention", "invoke", "make"}
    BY <1>3, InstrFact
  <2>2. CASE At(s).kind = "static"
    BY <1>4, <2>1, <2>2, CalleesFact
  <2>3. CASE At(s).kind = "dynamic"
    BY <1>4, <2>1, <2>3, CalleesFact
  <2>4. CASE At(s).kind = "invoke"
    <3>1. Callees(X, At(s)) = MethodsNamed(At(s).iface, At(s).method, X.types)
      BY <2>1, <2>4, CalleesFact
    <3>2. ASSUME NEW C \in X.types, <<C, At(s).iface>> \in Implements
          PROVE  FuncOf[<<C, At(s).method>>] \in Callees(X, At(s))
      BY <3>1, <3>2 DEF MethodsNamed
    <3>. QED  BY <1>4, <2>4, <3>2
  <2>. QED  BY <2>1, <2>2, <2>3, <2>4
<1>6. \A s \in Instrs(X) : At(s).kind = "mention" => At(s).to \in X.taken
  BY <1>1 DEF Of
<1>7. \A s \in Instrs(X) : At(s).kind = "make" => At(s).type \in X.types
  BY <1>1 DEF Of
<1>8. \A C \in X.types \cap Concrete : \A m \in MethodsOf[C] \cap Exported : FuncOf[<<C, m>>] \in X.funcs
  <2>1. ASSUME NEW C \in X.types \cap Concrete, NEW m \in MethodsOf[C] \cap Exported
        PROVE  FuncOf[<<C, m>>] \in ByReflection(X)
    BY DEF ByReflection
  <2>. QED  BY <1>1, <2>1
<1>9. ASSUME NEW U \in X.types, NEW n \in 1 .. Len(Parts[U])
      PROVE  Parts[U][n][1] \in X.types
  <2>1. Parts[U] \in Seq(Part)
    BY <1>2, ConstantsAssumption
  <2>2. Parts[U][n] \in ToSet(Parts[U])
    BY <2>1 DEF ToSet
  <2>. QED  BY <1>1, <2>2
<1>. QED  BY <1>3, <1>5, <1>6, <1>7, <1>8, <1>9 DEF Closed

-----------------------------------------------------------------------------
(* What a step of a visit never undoes.                                    *)
Grows ==
  /\ program' = program /\ shadow' = shadow
  /\ DOMAIN edges \subseteq DOMAIN edges'
  /\ \A S \in Sigs : DOMAIN dynCallSites[S] \subseteq DOMAIN dynCallSites'[S]
  /\ \A I \in Interfaces : DOMAIN invokeSites[I] \subseteq DOMAIN invokeSites'[I]
  /\ addrTakenFuncs \subseteq addrTakenFuncs'
  /\ Known \subseteq Known' /\ Known \cup PendingTypes \subseteq Known' \cup PendingTypes'
  /\ DOMAIN concreteTypes \subseteq DOMAIN concreteTypes'

(* It takes the next instruction, or none.                                 *)
Advances == ~Idle /\ at < Len(program[shadow[1]]) /\ at' = at + 1

(* It follows up what it takes, ...                                        *)
FollowsUp ==
  \/ at' = at
  \/ Advances /\ \E s : s = Here /\ Processed(s)'

(* ... and records nothing of other sites.                                 *)
Touches == \A s : Untouched(s) => Untouched(s)' \/ (Advances /\ s = Here)

LEMMA ShadowFact ==
  ASSUME TypeOK
  PROVE  /\ Len(shadow) \in Nat /\ Len(worklist) \in Nat /\ at \in Nat
         /\ Idle <=> Len(shadow) = 0
         /\ ~Idle => shadow[1] = Head(shadow) /\ shadow[1] \in Funcs
         /\ \A i \in 1 .. Len(shadow) : shadow[i] \in Funcs
  BY DEF TypeOK, Idle

LEMMA HereFact == Here = <<Head(shadow), at + 1>> /\ Here[1] = Head(shadow) /\ Here[2] = at + 1
  BY DEF Here

LEMMA InstrsGrow ==
  ASSUME Grows, QueueGrows
  PROVE  /\ Instrs(Result) \subseteq Instrs(Result)' /\ Result.funcs \subseteq Result.funcs'
         /\ \A s : At(s)' = At(s)
<1>1. Result.funcs \subseteq Result.funcs'
  BY DEF QueueGrows, Result
<1>. QED  BY <1>1 DEF Instrs, SitesIn, Grows, At

LEMMA ProcessedStays ==
  ASSUME TypeOK, Grows, NEW s, At(s) \in Instr, Processed(s)
  PROVE  Processed(s)'
<1>1. At(s)' = At(s)
  BY DEF At, Grows
<1>2. /\ At(s).kind = "dynamic" => At(s).sig \in Sigs
      /\ At(s).kind = "invoke" => At(s).iface \in Interfaces
  BY InstrFact
<1>. QED  BY <1>1, <1>2 DEF Processed, Grows

LEMMA TodoStep ==
  ASSUME RtaInv, Grows, QueueGrows, FollowsUp,
         NEW f \in Result.funcs', NEW i \in DOMAIN program'[f]
  PROVE  Processed(<<f, i>>)' \/ Scheduled(f, i)'
<1>. USE DEF RtaInv
<1>1. program' = program /\ shadow' = shadow /\ f \in Funcs
  BY ResultFact DEF Grows, QueueGrows, Result
<1>2. CASE f \in Result.funcs
  <2>1. Processed(<<f, i>>) \/ Scheduled(f, i)
    BY <1>1, <1>2 DEF TodoInv
  <2>2. CASE Processed(<<f, i>>)
    <3>1. At(<<f, i>>) \in Instr
      BY <1>1, ProgramFact DEF At
    <3>. QED  BY <2>2, <3>1, ProcessedStays
  <2>3. CASE \E n \in 1 .. Len(worklist) : worklist[n] = f
    <3>1. \E n \in 1 .. Len(worklist') : worklist'[n] = f
      BY <2>3, ShadowFact DEF QueueGrows
    <3>. QED  BY <3>1 DEF Scheduled
  <2>4. CASE \E n \in 2 .. Len(shadow) : shadow[n] = f
    BY <1>1, <2>4 DEF Scheduled
  <2>5. CASE ~Idle /\ shadow[1] = f /\ i > at
    <3>1. CASE i > at'
      BY <1>1, <2>5, <3>1 DEF Scheduled, Idle
    <3>2. CASE ~(i > at')
      <4>1. i \in Nat
        BY <1>1, ProgramFact
      <4>2. at' # at /\ at' = at + 1 /\ i = at + 1
        BY <2>5, <3>2, <4>1, ShadowFact DEF FollowsUp, Advances
      <4>3. PICK s : s = Here /\ Processed(s)'
        BY <4>2 DEF FollowsUp
      <4>4. s = <<f, i>>
        BY <2>5, <4>2, <4>3, ShadowFact, HereFact
      <4>. QED  BY <4>3, <4>4
    <3>. QED  BY <3>1, <3>2
  <2>. QED  BY <2>1, <2>2, <2>3, <2>4, <2>5 DEF Scheduled
<1>3. CASE f \notin Result.funcs
  <2>1. f \in reachable' \ reachable
    BY <1>3 DEF Result
  <2>2. \E n \in 1 .. Len(worklist') : worklist'[n] = f
    BY <2>1, ShadowFact DEF QueueGrows
  <2>. QED  BY <2>2 DEF Scheduled
<1>. QED  BY <1>2, <1>3

(* The worklist and the shadow hold functions that were found.             *)
LEMMA QueueStep ==
  ASSUME RtaInv, Grows, QueueGrows
  PROVE  /\ \A i \in 1 .. Len(worklist') : worklist'[i] \in Result.funcs'
         /\ \A i \in 1 .. Len(shadow') : shadow'[i] \in Result.funcs'
<1>1. Result.funcs' = reachable' \cup ToSet(Roots) /\ Result.funcs = reachable \cup ToSet(Roots)
  BY DEF Result
<1>2. Len(worklist) \in Nat /\ Len(worklist') \in Nat
  BY DEF QueueGrows, RtaInv, TypeOK
<1>3. \A i \in 1 .. Len(worklist') : i \in 1 .. Len(worklist) \/ i \in Len(worklist) + 1 .. Len(worklist')
  BY <1>2
<1>. QED  BY <1>1, <1>3 DEF RtaInv, SiteInv, QueueGrows, Grows

(* Nothing was recorded of a function that was not found.                  *)
LEMMA UnfoundUntouched ==
  ASSUME RtaInv, NEW f, f \notin Result.funcs, NEW i
  PROVE  Untouched(<<f, i>>)
<1>1. \A s \in Instrs(Result) : s[1] \in Result.funcs
  BY SitesFact
<1>2. <<f, i>>[1] = f
  OBVIOUS
<1>. QED  BY <1>1, <1>2 DEF Untouched, RtaInv, SiteInv, EdgeInv, Joined

LEMMA OnceStep ==
  ASSUME RtaInv, Grows, QueueGrows, Touches, at' = at \/ Advances,
         NEW f \in Funcs \ VisitedTwice'
  PROVE  InLineOnce(f)'
<1>. USE DEF RtaInv
<1>1. /\ program' = program /\ shadow' = shadow /\ f \notin VisitedTwice
      /\ \A i \in 1 .. Len(worklist) : worklist'[i] = worklist[i]
      /\ \A i, j \in Len(worklist) + 1 .. Len(worklist') : worklist'[i] = worklist'[j] => i = j
      /\ Len(worklist) \in Nat /\ Len(worklist') \in Nat /\ Len(worklist) <= Len(worklist')
  BY DEF Grows, QueueGrows, VisitedTwice, TypeOK
<1>2. InLineOnce(f)
  BY <1>1 DEF OnceInv
<1>3. \A i \in 1 .. Len(worklist') : i \in 1 .. Len(worklist) \/ i \in Len(worklist) + 1 .. Len(worklist')
  BY <1>1
<1>4. ASSUME NEW i \in Len(worklist) + 1 .. Len(worklist'), worklist'[i] = f
      PROVE  f \notin Result.funcs
  BY <1>4 DEF QueueGrows, VisitedTwice, Result
<1>5. /\ \A i \in 1 .. Len(worklist) : worklist[i] = f => f \in Result.funcs
      /\ \A i \in 1 .. Len(shadow) : shadow[i] = f => f \in Result.funcs
  BY DEF SiteInv
<1>6. \A i, j \in 1 .. Len(worklist') : worklist'[i] = f /\ worklist'[j] = f => i = j
  BY <1>1, <1>2, <1>3, <1>4, <1>5 DEF InLineOnce
<1>7. \A i \in 1 .. Len(worklist'), j \in 1 .. Len(shadow') : worklist'[i] = f => shadow'[j] # f
  BY <1>1, <1>2, <1>3, <1>4, <1>5 DEF InLineOnce
<1>8. \A i, j \in 1 .. Len(shadow') : shadow'[i] = f /\ shadow'[j] = f => i = j
  BY <1>1, <1>2 DEF InLineOnce
<1>9. ASSUME NEW i \in DOMAIN program'[f], Scheduled(f, i)'
      PROVE  Untouched(<<f, i>>)'
  <2>1. i \in DOMAIN program[f] /\ i \in Nat
    BY <1>1, ProgramFact
  <2>2. Untouched(<<f, i>>)
    <3>1. CASE f \notin Result.funcs
      BY <3>1, UnfoundUntouched
    <3>2. CASE f \in Result.funcs
      <4>1. Scheduled(f, i)
        <5>1. at <= at'
          BY ShadowFact DEF Advances
        <5>2. i > at' => i > at
          BY <2>1, <5>1, ShadowFact DEF Advances
        <5>. QED  BY <1>1, <1>3, <1>4, <1>9, <3>2, <5>2 DEF Scheduled, Idle
      <4>. QED  BY <1>2, <2>1, <4>1 DEF InLineOnce
    <3>. QED  BY <3>1, <3>2
  <2>3. ~(Advances /\ <<f, i>> = Here)
    <3>. SUFFICES ASSUME Advances, <<f, i>> = Here
                  PROVE  FALSE
      OBVIOUS
    <3>1. f = shadow[1] /\ i = at + 1 /\ 1 \in 1 .. Len(shadow) /\ at' = at + 1 /\ at \in Nat
      BY ShadowFact, HereFact DEF Advances
    <3>2. ~(i > at')
      BY <3>1
    <3>3. \A n \in 1 .. Len(worklist') : worklist'[n] # f
      BY <1>1, <1>7, <3>1
    <3>4. \A n \in 2 .. Len(shadow) : shadow[n] # f
      BY <1>1, <1>8, <3>1, ShadowFact
    <3>. QED  BY <1>1, <1>9, <3>2, <3>3, <3>4 DEF Scheduled
  <2>. QED  BY <2>2, <2>3 DEF Touches
<1>. QED  BY <1>6, <1>7, <1>8, <1>9 DEF InLineOnce

-----------------------------------------------------------------------------
(* Facts that the steps of a visit share.                                  *)
LEMMA FetchFact ==
  ASSUME TypeOK, SiteInv, NEW k, Fetch(k)
  PROVE  /\ Advances /\ pending = <<>> /\ Head(shadow) = shadow[1]
         /\ Head(shadow) \in Funcs /\ Head(shadow) \in Result.funcs
         /\ Here \in Instrs(Result) /\ At(Here) = TheInstr /\ TheInstr \in Instr /\ TheInstr.kind = k
         /\ at + 1 \in DOMAIN program[Head(shadow)]
<1>1. ~Idle /\ pending = <<>> /\ at < Len(program[Head(shadow)]) /\ TheInstr.kind = k /\ at' = at + 1
  BY DEF Fetch, TheInstr
<1>2. /\ Head(shadow) = shadow[1] /\ Head(shadow) \in Funcs /\ 1 \in 1 .. Len(shadow) /\ at \in Nat
  BY <1>1, ShadowFact
<1>3. Head(shadow) \in Result.funcs
  BY <1>2 DEF SiteInv
<1>4. at + 1 \in DOMAIN program[Head(shadow)] /\ TheInstr \in Instr
  BY <1>1, <1>2, ProgramFact DEF TheInstr
<1>5. At(Here) = TheInstr
  BY HereFact DEF At, TheInstr
<1>6. Here \in Instrs(Result)
  BY <1>3, <1>4, HereFact, SitesFact
<1>. QED  BY <1>1, <1>2, <1>3, <1>4, <1>5, <1>6 DEF Advances

(* An instruction that is taken for the first time.                        *)
LEMMA HereUntouched ==
  ASSUME RtaInv, NEW k, Fetch(k), Here[1] \notin VisitedTwice
  PROVE  Untouched(Here)
<1>1. /\ ~Idle /\ Head(shadow) = shadow[1] /\ Head(shadow) \in Funcs /\ at + 1 \in DOMAIN program[Head(shadow)]
      /\ at \in Nat
  BY FetchFact, ShadowFact DEF RtaInv, Advances
<1>2. Scheduled(Head(shadow), at + 1)
  BY <1>1 DEF Scheduled
<1>3. InLineOnce(Head(shadow))
  BY <1>1, HereFact DEF RtaInv, OnceInv
<1>. QED  BY <1>1, <1>2, <1>3, HereFact DEF InLineOnce

LEMMA AddEdgesFact ==
  ASSUME TypeOK, NEW B, \A x \in DOMAIN B : x[2] \in Funcs, NEW taken \in BOOLEAN, AddEdges(B, taken)
  PROVE  /\ QueueGrows
         /\ reachable' = reachable \cup {x[2] : x \in DOMAIN B}
         /\ addrTaken' = IF taken THEN addrTaken \cup {x[2] : x \in DOMAIN B} ELSE addrTaken
         /\ edges' = edges (+) B /\ DOMAIN edges' = DOMAIN edges \cup DOMAIN B
<1> DEFINE F == {x[2] : x \in DOMAIN B}
<1>1. AddReachable(F, taken) /\ edges' = edges (+) B
  BY DEF AddEdges, BagToSet
<1>2. F \in SUBSET Funcs
  OBVIOUS
<1>3. DOMAIN edges' = DOMAIN edges \cup DOMAIN B
  BY <1>1, BagUnionFact
<1> HIDE DEF F
<1>4. /\ QueueGrows /\ reachable' = reachable \cup F
      /\ addrTaken' = IF taken THEN addrTaken \cup F ELSE addrTaken
  BY <1>1, <1>2, AddReachableFact
<1>. QED  BY <1>1, <1>3, <1>4 DEF F

LEMMA ReachStep ==
  ASSUME ReachInv, program' = program, Known' = Known, NEW D, DOMAIN edges' = DOMAIN edges \cup D,
         reachable' = reachable \cup {x[2] : x \in D},
         \/ /\ addrTaken' = addrTaken \cup {x[2] : x \in D}
            /\ \A x \in D : At(x[1]).kind # "static"
         \/ /\ addrTaken' = addrTaken
            /\ \A x \in D : At(x[1]).kind = "static"
  PROVE  ReachInv'
<1>1. ByReflection(Result)' = ByReflection(Result)
  BY DEF ByReflection, Result
<1>2. \A s : At(s)' = At(s)
  BY DEF At
<1>3. reachable' = {x[2] : x \in DOMAIN edges'} \cup ByReflection(Result)'
  BY <1>1 DEF ReachInv
<1>4. addrTaken' = {x[2] : x \in {y \in DOMAIN edges' : At(y[1])'.kind # "static"}} \cup ByReflection(Result)'
  <2>1. addrTaken = {x[2] : x \in {y \in DOMAIN edges : At(y[1]).kind # "static"}} \cup ByReflection(Result)
    BY DEF ReachInv
  <2>2. CASE addrTaken' = addrTaken \cup {x[2] : x \in D} /\ \A x \in D : At(x[1]).kind # "static"
    BY <1>1, <1>2, <2>1, <2>2
  <2>3. CASE addrTaken' = addrTaken /\ \A x \in D : At(x[1]).kind = "static"
    BY <1>1, <1>2, <2>1, <2>3
  <2>. QED  BY <2>2, <2>3
<1>. QED  BY <1>3, <1>4 DEF ReachInv

LEMMA ReachStands ==
  ASSUME ReachInv, Known' = Known, UNCHANGED <<program, reachable, addrTaken, edges>>
  PROVE  ReachInv'
<1>1. ByReflection(Result)' = ByReflection(Result)
  BY DEF ByReflection, Result
<1>. QED  BY <1>1 DEF ReachInv, At

LEMMA JoinedStays ==
  ASSUME RtaInv, Grows, QueueGrows, NEW s, NEW g, Joined(s, g)
  PROVE  Joined(s, g)'
<1>1. s \in Instrs(Result) /\ s \in Instrs(Result)' /\ At(s)' = At(s)
  BY InstrsGrow DEF Joined
<1>2. At(s) \in Instr
  BY <1>1, SiteInstrFact DEF RtaInv
<1>3. CASE At(s).kind = "static" /\ g = At(s).to
  BY <1>1, <1>3 DEF Joined
<1>4. CASE /\ At(s).kind = "dynamic" /\ s \in DOMAIN dynCallSites[At(s).sig]
           /\ g \in addrTakenFuncs /\ SigOf[g] = At(s).sig
  BY <1>1, <1>2, <1>4, InstrFact DEF Joined, Grows
<1>5. CASE /\ At(s).kind = "invoke" /\ s \in DOMAIN invokeSites[At(s).iface]
           /\ \E C \in DOMAIN concreteTypes : <<C, At(s).iface>> \in Implements /\ g = FuncOf[<<C, At(s).method>>]
  <2>1. s \in DOMAIN invokeSites'[At(s).iface]
    BY <1>2, <1>5, InstrFact DEF Grows
  <2>2. \E C \in DOMAIN concreteTypes' : <<C, At(s).iface>> \in Implements /\ g = FuncOf[<<C, At(s).method>>]
    BY <1>5 DEF Grows
  <2>. QED  BY <1>1, <1>5, <2>1, <2>2 DEF Joined
<1>. QED  BY <1>3, <1>4, <1>5 DEF Joined

(* New edges that are joined for the first time.                           *)
LEMMA EdgesOnce ==
  ASSUME RtaInv, QueueGrows, NEW B, edges' = edges (+) B,
         \A x \in DOMAIN B : x[1][1] \notin VisitedTwice => x \notin DOMAIN edges /\ B[x] = 1,
         NEW f \in Funcs \ VisitedTwice', NEW x \in DOMAIN edges', x[1][1] = f
  PROVE  edges'[x] = 1
<1>1. f \notin VisitedTwice
  BY DEF QueueGrows, VisitedTwice
<1>2. x \in DOMAIN edges => edges[x] = 1
  BY <1>1 DEF RtaInv, OnceInv, RecordedOnce
<1>3. x \in DOMAIN edges \/ x \in DOMAIN B
  BY BagUnionFact
<1>4. x \in DOMAIN B => x \notin DOMAIN edges /\ B[x] = 1
  BY <1>1
<1>. QED  BY <1>2, <1>3, <1>4, BagUnionFact

LEMMA ClosedStays ==
  ASSUME program' = program, NEW X
  PROVE  Closed(X)' <=> Closed(X)
<1>1. Instrs(X)' = Instrs(X) /\ \A s : At(s)' = At(s)
  BY DEF Instrs, At, SitesIn
<1>2. Of(X, "mention")' = Of(X, "mention") /\ Of(X, "make")' = Of(X, "make")
  BY <1>1 DEF Of
<1>3. EdgesOf(X)' = EdgesOf(X)
  BY <1>1 DEF EdgesOf
<1>4. Grow(X)' = Grow(X)
  BY <1>2, <1>3 DEF Grow
<1>. QED  BY <1>4 DEF Closed

LEMMA InSolution ==
  ASSUME RtaInv, NEW X \in Solutions, Closed(X)
  PROVE  /\ Result.funcs \subseteq X.funcs /\ addrTakenFuncs \subseteq X.taken
         /\ Known \subseteq X.types /\ PendingTypes \subseteq X.types
         /\ Instrs(Result) \subseteq Instrs(X)
<1>1. Result.funcs \subseteq X.funcs /\ addrTakenFuncs \subseteq X.taken
  BY DEF RtaInv, SoundInv, Result
<1>2. Known \subseteq X.types /\ PendingTypes \subseteq X.types
  BY DEF RtaInv, SoundInv
<1>. QED  BY <1>1, <1>2 DEF Instrs, SitesIn

LEMMA SoundStep ==
  ASSUME RtaInv, program' = program,
         \A X \in Solutions : Closed(X) =>
            /\ reachable' \subseteq X.funcs \cup Result.funcs /\ addrTakenFuncs' \subseteq X.taken
            /\ Known' \cup PendingTypes' \subseteq X.types
  PROVE  SoundInv'
<1>1. ASSUME NEW X \in Solutions, Closed(X)'
      PROVE  /\ Result.funcs' \subseteq X.funcs /\ Result.taken' \subseteq X.taken
             /\ Known' \cup PendingTypes' \subseteq X.types
  <2>1. Closed(X)
    BY <1>1, ClosedStays
  <2>2. Result.funcs \subseteq X.funcs
    BY <2>1, InSolution
  <2>3. Result.funcs' = reachable' \cup ToSet(Roots) /\ Result.taken' = addrTakenFuncs' /\ ToSet(Roots) \subseteq X.funcs
    BY <2>1 DEF Result, Closed
  <2>. QED  BY <2>1, <2>2, <2>3
<1>. QED  BY <1>1 DEF SoundInv, Solutions

(* The parts of the invariant that a step of a visit need not show.        *)
LEMMA VisitStep ==
  ASSUME RtaInv, Grows, QueueGrows, FollowsUp, Touches, at' = at \/ Advances,
         TypeOK', TableInv', EdgeInv', ReachInv', SoundInv',
         \A S \in Sigs : \A s \in DOMAIN dynCallSites'[S] :
            s \in Instrs(Result) /\ At(s).kind = "dynamic" /\ At(s).sig = S,
         \A I \in Interfaces : \A s \in DOMAIN invokeSites'[I] :
            s \in Instrs(Result) /\ At(s).kind = "invoke" /\ At(s).iface = I /\ I \in DOMAIN interfaceTypes',
         \A T \in Known' : \A n \in 1 .. Len(Parts[T]) : Parts[T][n][1] \in Known' \cup PendingTypes',
         \A f \in Funcs \ VisitedTwice' : RecordedOnce(f)'
  PROVE  RtaInv'
<1>1. SiteInv'
  <2>1. Instrs(Result) \subseteq Instrs(Result)' /\ \A s : At(s)' = At(s)
    BY InstrsGrow
  <2>2. /\ \A S \in Sigs : \A s \in DOMAIN dynCallSites'[S] :
              s \in Instrs(Result)' /\ At(s)'.kind = "dynamic" /\ At(s)'.sig = S
        /\ \A I \in Interfaces : \A s \in DOMAIN invokeSites'[I] :
              s \in Instrs(Result)' /\ At(s)'.kind = "invoke" /\ At(s)'.iface = I /\ I \in DOMAIN interfaceTypes'
    BY <2>1
  <2>. QED  BY <2>2, QueueStep DEF SiteInv
<1>2. TodoInv'
  BY TodoStep DEF TodoInv
<1>3. OnceInv'
  BY OnceStep DEF OnceInv
<1>. QED  BY <1>1, <1>2, <1>3 DEF RtaInv

-----------------------------------------------------------------------------
(* The steps of a visit.                                                   *)
LEMMA TypesStay ==
  /\ UNCHANGED runtimeTypes => Known' = Known
  /\ UNCHANGED pending => PendingTypes' = PendingTypes
  BY DEF Known, PendingTypes

LEMMA VisitStaticKeeps ==
  ASSUME RtaInv, VisitStatic
  PROVE  RtaInv'
<1> DEFINE B == Once(<<Here, TheInstr.to>>)
<1>1. /\ Fetch("static") /\ AddEdges(B, FALSE)
      /\ UNCHANGED <<program, shadow, pending, runtimeTypes>> /\ UNCHANGED tables
  BY DEF VisitStatic
<1>2. UNCHANGED <<addrTakenFuncs, dynCallSites, invokeSites, concreteTypes, interfaceTypes>>
  BY <1>1 DEF tables
<1>3. TypeOK /\ SiteInv
  BY DEF RtaInv
<1>4. /\ Advances /\ Here \in Instrs(Result) /\ At(Here) = TheInstr /\ TheInstr.kind = "static" /\ TheInstr \in Instr
      /\ Here[1] \in Funcs /\ pending = <<>>
  BY <1>1, <1>3, FetchFact, HereFact
<1>5. PICK h, g : h = Here /\ g = TheInstr.to
  OBVIOUS
<1>6. g \in Funcs /\ h \in Instrs(Result) /\ At(h).kind = "static" /\ At(h).to = g
  BY <1>4, <1>5, InstrFact
<1>7. DOMAIN B = {<<h, g>>} /\ B[<<h, g>>] = 1
  BY <1>5, SetToBagFact DEF Once
<1> HIDE DEF B
<1>8. /\ QueueGrows /\ reachable' = reachable \cup {x[2] : x \in DOMAIN B} /\ addrTaken' = addrTaken
      /\ edges' = edges (+) B /\ DOMAIN edges' = DOMAIN edges \cup DOMAIN B
  <2>1. \A x \in DOMAIN B : x[2] \in Funcs
    BY <1>6, <1>7
  <2>. QED  BY <1>1, <1>3, <2>1, AddEdgesFact
<1>9. Known' = Known /\ PendingTypes' = PendingTypes /\ at' = at + 1 /\ at \in Nat
  BY <1>1, <1>3, <1>4, TypesStay, ShadowFact DEF Advances
<1>10. Grows
  BY <1>1, <1>2, <1>8, <1>9 DEF Grows
<1>11. \A s : At(s)' = At(s)
  BY <1>1 DEF At
<1>12. FollowsUp
  <2>1. Processed(h)'
    BY <1>6, <1>7, <1>8, <1>11 DEF Processed
  <2>. QED  BY <1>4, <1>5, <2>1 DEF FollowsUp
<1>13. Touches
  BY <1>2, <1>4, <1>5, <1>7, <1>8 DEF Touches, Untouched
<1>14. TypeOK'
  BY <1>1, <1>2, <1>3, <1>8, <1>9 DEF TypeOK, QueueGrows, Idle
<1>15. TableInv'
  BY <1>2 DEF RtaInv, TableInv, ImplementsIsExact
<1>16. EdgeInv'
  <2>1. Joined(h, g)'
    BY <1>6, <1>10, <1>8, <1>11, InstrsGrow DEF Joined
  <2>2. \A x \in DOMAIN edges' : x = <<x[1], x[2]>> /\ Joined(x[1], x[2])'
    BY <1>7, <1>8, <1>10, <2>1, JoinedStays DEF RtaInv, EdgeInv
  <2>. QED  BY <1>2, <1>8, <1>11, <2>2 DEF RtaInv, EdgeInv
<1>17. ReachInv'
  <2>1. \A x \in DOMAIN B : At(x[1]).kind = "static"
    BY <1>6, <1>7
  <2>. QED  BY <1>1, <1>8, <1>9, <2>1, ReachStep DEF RtaInv
<1>18. SoundInv'
  <2>1. ASSUME NEW X \in Solutions, Closed(X)
        PROVE  g \in X.funcs
    BY <1>3, <1>6, <2>1, InSolution, ClosedFact
  <2>2. reachable' \subseteq Result.funcs \cup {g}
    BY <1>7, <1>8 DEF Result
  <2>. QED  BY <1>1, <1>2, <1>9, <2>1, <2>2, InSolution, SoundStep
<1>19. \A f \in Funcs \ VisitedTwice' : RecordedOnce(f)'
  <2>1. \A x \in DOMAIN B : x[1][1] \notin VisitedTwice => x \notin DOMAIN edges /\ B[x] = 1
    BY <1>1, <1>5, <1>7, HereUntouched DEF Untouched
  <2>2. \A f \in Funcs \ VisitedTwice' : f \in Funcs \ VisitedTwice
    BY <1>8 DEF VisitedTwice, QueueGrows
  <2>. QED  BY <1>2, <1>8, <2>1, <2>2, EdgesOnce DEF RecordedOnce, RtaInv, OnceInv
<1>20. /\ \A S \in Sigs : \A s \in DOMAIN dynCallSites'[S] :
             s \in Instrs(Result) /\ At(s).kind = "dynamic" /\ At(s).sig = S
       /\ \A I \in Interfaces : \A s \in DOMAIN invokeSites'[I] :
             s \in Instrs(Result) /\ At(s).kind = "invoke" /\ At(s).iface = I /\ I \in DOMAIN interfaceTypes'
       /\ \A T \in Known' : \A n \in 1 .. Len(Parts[T]) : Parts[T][n][1] \in Known' \cup PendingTypes'
  BY <1>2, <1>3, <1>9 DEF SiteInv, RtaInv, TodoInv
<1>. QED  BY <1>4, <1>8, <1>10, <1>12, <1>13, <1>14, <1>15, <1>16, <1>17, <1>18, <1>19, <1>20, VisitStep

LEMMA VisitMakeInterfaceKeeps ==
  ASSUME RtaInv, VisitMakeInterface
  PROVE  RtaInv'
<1>1. /\ Fetch("make") /\ pending' = <<<<TheInstr.type, FALSE>>>>
      /\ UNCHANGED <<program, shadow, runtimeTypes>> /\ UNCHANGED found /\ UNCHANGED tables
  BY DEF VisitMakeInterface
<1>2. /\ UNCHANGED <<addrTakenFuncs, dynCallSites, invokeSites, concreteTypes, interfaceTypes>>
      /\ UNCHANGED <<reachable, addrTaken, worklist, edges>>
  BY <1>1 DEF tables, found
<1>3. TypeOK /\ SiteInv
  BY DEF RtaInv
<1>4. /\ Advances /\ Here \in Instrs(Result) /\ At(Here) = TheInstr /\ TheInstr.kind = "make" /\ TheInstr \in Instr
      /\ pending = <<>>
  BY <1>1, <1>3, FetchFact
<1>5. PICK h, T : h = Here /\ T = TheInstr.type
  OBVIOUS
<1>6. T \in Types /\ h \in Instrs(Result) /\ At(h).kind = "make" /\ At(h).type = T
  BY <1>4, <1>5, InstrFact
<1>7. /\ pending' \in Seq(Part) /\ Len(pending') = 1 /\ pending'[1][1] = T
  <2>1. <<T, FALSE>> \in Part
    BY <1>6 DEF Part
  <2>. QED  BY <1>1, <1>5, <2>1
<1>8. PendingTypes' = {T} /\ PendingTypes = {} /\ Known' = Known
  BY <1>1, <1>4, <1>7, TypesStay DEF PendingTypes
<1>9. QueueGrows
  BY <1>2, <1>3, QueueStands
<1>10. Grows
  BY <1>1, <1>2, <1>8 DEF Grows
<1>11. \A s : At(s)' = At(s)
  BY <1>1 DEF At
<1>12. FollowsUp
  <2>1. Processed(h)'
    BY <1>6, <1>8, <1>11 DEF Processed
  <2>. QED  BY <1>4, <1>5, <2>1 DEF FollowsUp
<1>13. Touches
  BY <1>2 DEF Touches, Untouched
<1>14. TypeOK'
  BY <1>1, <1>2, <1>3, <1>4, <1>7, <1>8, ShadowFact DEF TypeOK, Idle, Advances
<1>15. TableInv'
  BY <1>2 DEF RtaInv, TableInv, ImplementsIsExact
<1>16. EdgeInv'
  <2>1. \A x \in DOMAIN edges' : x = <<x[1], x[2]>> /\ Joined(x[1], x[2])'
    BY <1>2, <1>9, <1>10, JoinedStays DEF RtaInv, EdgeInv
  <2>. QED  BY <1>2, <1>11, <2>1 DEF RtaInv, EdgeInv
<1>17. ReachInv'
  BY <1>1, <1>2, <1>8, ReachStands DEF RtaInv
<1>18. SoundInv'
  <2>1. ASSUME NEW X \in Solutions, Closed(X)
        PROVE  T \in X.types
    BY <1>3, <1>6, <2>1, InSolution, ClosedFact
  <2>2. reachable' \subseteq Result.funcs
    BY <1>2 DEF Result
  <2>. QED  BY <1>1, <1>2, <1>8, <2>1, <2>2, InSolution, SoundStep
<1>19. \A f \in Funcs \ VisitedTwice' : RecordedOnce(f)'
  BY <1>2 DEF RecordedOnce, RtaInv, OnceInv, VisitedTwice
<1>20. /\ \A S \in Sigs : \A s \in DOMAIN dynCallSites'[S] :
             s \in Instrs(Result) /\ At(s).kind = "dynamic" /\ At(s).sig = S
       /\ \A I \in Interfaces : \A s \in DOMAIN invokeSites'[I] :
             s \in Instrs(Result) /\ At(s).kind = "invoke" /\ At(s).iface = I /\ I \in DOMAIN interfaceTypes'
       /\ \A U \in Known' : \A n \in 1 .. Len(Parts[U]) : Parts[U][n][1] \in Known' \cup PendingTypes'
  BY <1>2, <1>3, <1>8 DEF SiteInv, RtaInv, TodoInv
<1>. QED  BY <1>4, <1>9, <1>10, <1>12, <1>13, <1>14, <1>15, <1>16, <1>17, <1>18, <1>19, <1>20, VisitStep

LEMMA VisitDynCallKeeps ==
  ASSUME RtaInv, VisitDynCall
  PROVE  RtaInv'
<1> DEFINE Fs == {f \in addrTakenFuncs : SigOf[f] = TheInstr.sig}
           B == SetToBag({Here} \X Fs)
<1>1. /\ Fetch("dynamic") /\ AddEdges(B, TRUE)
      /\ dynCallSites' = [dynCallSites EXCEPT ![TheInstr.sig] = @ (+) Once(Here)]
      /\ UNCHANGED <<program, shadow, pending, runtimeTypes, addrTakenFuncs, invokeSites, concreteTypes, interfaceTypes>>
  BY DEF VisitDynCall
<1>3. TypeOK /\ SiteInv
  BY DEF RtaInv
<1>4. /\ Advances /\ Here \in Instrs(Result) /\ At(Here) = TheInstr /\ TheInstr.kind = "dynamic" /\ TheInstr \in Instr
      /\ Here[1] \in Funcs /\ pending = <<>>
  BY <1>1, <1>3, FetchFact, HereFact
<1>5. PICK h, S : h = Here /\ S = TheInstr.sig
  OBVIOUS
<1>6. S \in Sigs /\ h \in Instrs(Result) /\ At(h).kind = "dynamic" /\ At(h).sig = S
  BY <1>4, <1>5, InstrFact
<1>7. /\ \A x : x \in DOMAIN B <=> \E g \in addrTakenFuncs : SigOf[g] = S /\ x = <<h, g>>
      /\ \A x \in DOMAIN B : B[x] = 1
  BY <1>5, SetToBagFact
<1> HIDE DEF B
<1>8. /\ QueueGrows /\ reachable' = reachable \cup {x[2] : x \in DOMAIN B}
      /\ addrTaken' = addrTaken \cup {x[2] : x \in DOMAIN B}
      /\ edges' = edges (+) B /\ DOMAIN edges' = DOMAIN edges \cup DOMAIN B
  <2>1. \A x \in DOMAIN B : x[2] \in Funcs
    BY <1>3, <1>7 DEF TypeOK
  <2>. QED  BY <1>1, <1>3, <2>1, AddEdgesFact
<1>9. Known' = Known /\ PendingTypes' = PendingTypes /\ at' = at + 1 /\ at \in Nat
  BY <1>1, <1>3, <1>4, TypesStay, ShadowFact DEF Advances
<1>2. /\ dynCallSites' = [R \in Sigs |-> dynCallSites'[R]]
      /\ \A R \in Sigs \ {S} : dynCallSites'[R] = dynCallSites[R]
      /\ dynCallSites'[S] = dynCallSites[S] (+) Once(h)
      /\ DOMAIN dynCallSites'[S] = DOMAIN dynCallSites[S] \cup {h}
  <2>1. dynCallSites = [R \in Sigs |-> dynCallSites[R]]
    BY <1>3 DEF TypeOK
  <2>2. /\ dynCallSites' = [R \in Sigs |-> dynCallSites'[R]]
        /\ \A R \in Sigs \ {S} : dynCallSites'[R] = dynCallSites[R]
        /\ dynCallSites'[S] = dynCallSites[S] (+) Once(h)
    BY <1>1, <1>5, <1>6, <2>1
  <2>3. DOMAIN Once(h) = {h}
    BY SetToBagFact DEF Once
  <2>4. DOMAIN (dynCallSites[S] (+) Once(h)) = DOMAIN dynCallSites[S] \cup DOMAIN Once(h)
    BY BagUnionFact
  <2>. QED  BY <2>2, <2>3, <2>4
<1>10. Grows
  BY <1>1, <1>2, <1>8, <1>9 DEF Grows
<1>11. \A s : At(s)' = At(s)
  BY <1>1 DEF At
<1>12. FollowsUp
  <2>1. Processed(h)'
    BY <1>2, <1>6, <1>11 DEF Processed
  <2>. QED  BY <1>4, <1>5, <2>1 DEF FollowsUp
<1>13. Touches
  BY <1>1, <1>2, <1>4, <1>5, <1>7, <1>8 DEF Touches, Untouched
<1>14. TypeOK'
  BY <1>1, <1>2, <1>3, <1>8, <1>9 DEF TypeOK, QueueGrows, Idle
<1>15. TableInv'
  BY <1>1 DEF RtaInv, TableInv, ImplementsIsExact
<1>16. EdgeInv'
  <2>1. ASSUME NEW x \in DOMAIN B
        PROVE  x = <<x[1], x[2]>> /\ Joined(x[1], x[2])'
    BY <1>1, <1>2, <1>6, <1>7, <1>8, <1>10, <1>11, InstrsGrow DEF Joined
  <2>2. \A x \in DOMAIN edges' : x = <<x[1], x[2]>> /\ Joined(x[1], x[2])'
    BY <1>8, <1>10, <2>1, JoinedStays DEF RtaInv, EdgeInv
  <2>3. ASSUME NEW R \in Sigs, NEW s \in DOMAIN dynCallSites'[R], NEW g \in addrTakenFuncs, SigOf[g] = R
        PROVE  <<s, g>> \in DOMAIN edges'
    <3>1. CASE s \in DOMAIN dynCallSites[R]
      BY <1>8, <2>3, <3>1 DEF RtaInv, EdgeInv
    <3>2. CASE s \notin DOMAIN dynCallSites[R]
      BY <1>2, <1>7, <1>8, <2>3, <3>2
    <3>. QED  BY <3>1, <3>2
  <2>. QED  BY <1>1, <1>8, <1>11, <2>2, <2>3 DEF RtaInv, EdgeInv
<1>17. ReachInv'
  <2>1. \A x \in DOMAIN B : At(x[1]).kind # "static"
    BY <1>6, <1>7
  <2>. QED  BY <1>1, <1>8, <1>9, <2>1, ReachStep DEF RtaInv
<1>18. SoundInv'
  <2>1. ASSUME NEW X \in Solutions, Closed(X), NEW g \in addrTakenFuncs, SigOf[g] = S
        PROVE  g \in X.funcs
    BY <1>3, <1>6, <2>1, InSolution, ClosedFact
  <2>2. \A g \in reachable' : g \in Result.funcs \/ (g \in addrTakenFuncs /\ SigOf[g] = S)
    BY <1>7, <1>8 DEF Result
  <2>. QED  BY <1>1, <1>9, <2>1, <2>2, InSolution, SoundStep
<1>19. ASSUME NEW f \in Funcs \ VisitedTwice'
       PROVE  RecordedOnce(f)'
  <2>1. ASSUME NEW x \in DOMAIN B, x[1][1] \notin VisitedTwice
        PROVE  x \notin DOMAIN edges /\ B[x] = 1
    <3>1. x[1] = h
      BY <1>7
    <3>. QED  BY <1>1, <1>5, <1>7, <2>1, <3>1, HereUntouched DEF Untouched
  <2>2. f \in Funcs \ VisitedTwice /\ RecordedOnce(f)
    BY <1>8 DEF VisitedTwice, QueueGrows, RtaInv, OnceInv
  <2>3. ASSUME NEW R \in Sigs, NEW s \in DOMAIN dynCallSites'[R], s[1] = f
        PROVE  dynCallSites'[R][s] = 1
    <3>1. CASE R # S
      BY <1>2, <2>2, <2>3, <3>1 DEF RecordedOnce
    <3>2. CASE R = S /\ s # h
      <4>1. s \in DOMAIN dynCallSites[S] \ DOMAIN Once(h) /\ dynCallSites[S][s] = 1
        BY <1>2, <1>6, <2>2, <2>3, <3>2, SetToBagFact DEF RecordedOnce, Once
      <4>2. (dynCallSites[S] (+) Once(h))[s] = 1
        BY <4>1 DEF (+)
      <4>. QED  BY <1>2, <3>2, <4>2
    <3>3. CASE R = S /\ s = h
      <4>1. s \notin DOMAIN dynCallSites[S]
        BY <1>1, <1>5, <1>6, <2>2, <2>3, <3>3, HereUntouched DEF Untouched
      <4>2. s \in DOMAIN Once(h) /\ Once(h)[s] = 1
        BY <3>3, SetToBagFact DEF Once
      <4>3. (dynCallSites[S] (+) Once(h))[s] = 1
        BY <4>1, <4>2 DEF (+)
      <4>. QED  BY <1>2, <3>3, <4>3
    <3>. QED  BY <3>1, <3>2, <3>3
  <2>4. \A x \in DOMAIN edges' : x[1][1] = f => edges'[x] = 1
    BY <1>8, <2>1, EdgesOnce
  <2>. QED  BY <1>1, <2>2, <2>3, <2>4 DEF RecordedOnce
<1>20. /\ \A R \in Sigs : \A s \in DOMAIN dynCallSites'[R] :
             s \in Instrs(Result) /\ At(s).kind = "dynamic" /\ At(s).sig = R
       /\ \A I \in Interfaces : \A s \in DOMAIN invokeSites'[I] :
             s \in Instrs(Result) /\ At(s).kind = "invoke" /\ At(s).iface = I /\ I \in DOMAIN interfaceTypes'
       /\ \A T \in Known' : \A n \in 1 .. Len(Parts[T]) : Parts[T][n][1] \in Known' \cup PendingTypes'
  BY <1>1, <1>2, <1>3, <1>6, <1>9 DEF SiteInv, RtaInv, TodoInv
<1>. QED  BY <1>4, <1>8, <1>10, <1>12, <1>13, <1>14, <1>15, <1>16, <1>17, <1>18, <1>19, <1>20, VisitStep

(* A function whose address is taken for the second time.                  *)
LEMMA OldAddrTakenKeeps ==
  ASSUME RtaInv, VisitAddrTakenFunc, TheInstr.to \in addrTakenFuncs
  PROVE  RtaInv'
<1>1. /\ Fetch("mention") /\ addrTakenFuncs' = addrTakenFuncs
      /\ UNCHANGED <<program, shadow, pending, runtimeTypes, dynCallSites, invokeSites, concreteTypes, interfaceTypes>>
      /\ UNCHANGED found
  BY DEF VisitAddrTakenFunc
<1>2. UNCHANGED <<reachable, addrTaken, worklist, edges>>
  BY <1>1 DEF found
<1>3. TypeOK /\ SiteInv
  BY DEF RtaInv
<1>4. /\ Advances /\ Here \in Instrs(Result) /\ At(Here) = TheInstr /\ TheInstr.kind = "mention" /\ TheInstr \in Instr
  BY <1>1, <1>3, FetchFact
<1>9. Known' = Known /\ PendingTypes' = PendingTypes /\ at' = at + 1 /\ at \in Nat /\ QueueGrows
  BY <1>1, <1>2, <1>3, <1>4, TypesStay, ShadowFact, QueueStands DEF Advances
<1>10. Grows
  BY <1>1, <1>2, <1>9 DEF Grows
<1>11. \A s : At(s)' = At(s)
  BY <1>1 DEF At
<1>12. FollowsUp
  <2>1. PICK h : h = Here
    OBVIOUS
  <2>2. Processed(h)'
    BY <1>1, <1>4, <1>11, <2>1 DEF Processed
  <2>. QED  BY <1>4, <2>1, <2>2 DEF FollowsUp
<1>13. Touches
  BY <1>1, <1>2 DEF Touches, Untouched
<1>14. TypeOK'
  BY <1>1, <1>2, <1>3, <1>9 DEF TypeOK, Idle
<1>15. TableInv'
  BY <1>1 DEF RtaInv, TableInv, ImplementsIsExact
<1>16. EdgeInv'
  <2>1. \A x \in DOMAIN edges' : x = <<x[1], x[2]>> /\ Joined(x[1], x[2])'
    BY <1>2, <1>9, <1>10, JoinedStays DEF RtaInv, EdgeInv
  <2>. QED  BY <1>1, <1>2, <1>11, <2>1 DEF RtaInv, EdgeInv
<1>17. ReachInv'
  BY <1>1, <1>2, <1>9, ReachStands DEF RtaInv
<1>18. SoundInv'
  <2>1. reachable' \subseteq Result.funcs
    BY <1>2 DEF Result
  <2>. QED  BY <1>1, <1>9, <2>1, InSolution, SoundStep
<1>19. \A f \in Funcs \ VisitedTwice' : RecordedOnce(f)'
  BY <1>1, <1>2 DEF RecordedOnce, RtaInv, OnceInv, VisitedTwice
<1>20. /\ \A S \in Sigs : \A s \in DOMAIN dynCallSites'[S] :
             s \in Instrs(Result) /\ At(s).kind = "dynamic" /\ At(s).sig = S
       /\ \A I \in Interfaces : \A s \in DOMAIN invokeSites'[I] :
             s \in Instrs(Result) /\ At(s).kind = "invoke" /\ At(s).iface = I /\ I \in DOMAIN interfaceTypes'
       /\ \A T \in Known' : \A n \in 1 .. Len(Parts[T]) : Parts[T][n][1] \in Known' \cup PendingTypes'
  BY <1>1, <1>3, <1>9 DEF SiteInv, RtaInv, TodoInv
<1>. QED  BY <1>4, <1>9, <1>10, <1>12, <1>13, <1>14, <1>15, <1>16, <1>17, <1>18, <1>19, <1>20, VisitStep

(* A function whose address is taken for the first time.                   *)
LEMMA NewAddrTakenKeeps ==
  ASSUME RtaInv, VisitAddrTakenFunc, TheInstr.to \notin addrTakenFuncs
  PROVE  RtaInv'
<1> DEFINE B == CallsOf(TheInstr.to)
<1>1. /\ Fetch("mention") /\ AddEdges(B, TRUE) /\ addrTakenFuncs' = addrTakenFuncs \cup {TheInstr.to}
      /\ UNCHANGED <<program, shadow, pending, runtimeTypes, dynCallSites, invokeSites, concreteTypes, interfaceTypes>>
  BY DEF VisitAddrTakenFunc
<1>3. TypeOK /\ SiteInv
  BY DEF RtaInv
<1>4. /\ Advances /\ Here \in Instrs(Result) /\ At(Here) = TheInstr /\ TheInstr.kind = "mention" /\ TheInstr \in Instr
  BY <1>1, <1>3, FetchFact
<1>5. PICK h, g : h = Here /\ g = TheInstr.to
  OBVIOUS
<1>6. /\ g \in {f \in Funcs \ Inits : ~IsMethod(f)} /\ g \in Funcs /\ h \in Instrs(Result)
      /\ At(h).kind = "mention" /\ At(h).to = g /\ SigOf[g] \in Sigs /\ g \notin addrTakenFuncs
  BY <1>4, <1>5, InstrFact, ConstantsAssumption
<1>7. /\ \A x : x \in DOMAIN B <=> \E s \in DOMAIN dynCallSites[SigOf[g]] : x = <<s, g>>
      /\ \A x \in DOMAIN B : B[x] = dynCallSites[SigOf[g]][x[1]]
  BY <1>5 DEF CallsOf
<1> HIDE DEF B
<1>8. /\ QueueGrows /\ reachable' = reachable \cup {x[2] : x \in DOMAIN B}
      /\ addrTaken' = addrTaken \cup {x[2] : x \in DOMAIN B}
      /\ edges' = edges (+) B /\ DOMAIN edges' = DOMAIN edges \cup DOMAIN B
  <2>1. \A x \in DOMAIN B : x[2] \in Funcs
    BY <1>6, <1>7
  <2>. QED  BY <1>1, <1>3, <2>1, AddEdgesFact
<1>9. Known' = Known /\ PendingTypes' = PendingTypes /\ at' = at + 1 /\ at \in Nat
  BY <1>1, <1>3, <1>4, TypesStay, ShadowFact DEF Advances
<1>10. Grows
  BY <1>1, <1>8, <1>9 DEF Grows
<1>11. \A s : At(s)' = At(s)
  BY <1>1 DEF At
<1>12. FollowsUp
  <2>1. Processed(h)'
    BY <1>1, <1>5, <1>6, <1>11 DEF Processed
  <2>. QED  BY <1>4, <1>5, <2>1 DEF FollowsUp
<1>2. ASSUME NEW x \in DOMAIN B
      PROVE  /\ x = <<x[1], g>> /\ x[1] \in DOMAIN dynCallSites[SigOf[g]] /\ x[1] \in Instrs(Result)
             /\ At(x[1]).kind = "dynamic" /\ At(x[1]).sig = SigOf[g] /\ x[1][1] \in Funcs
             /\ x \notin DOMAIN edges
  <2>1. PICK s \in DOMAIN dynCallSites[SigOf[g]] : x = <<s, g>>
    BY <1>7
  <2>2. s \in Instrs(Result) /\ At(s).kind = "dynamic" /\ At(s).sig = SigOf[g]
    BY <1>3, <1>6 DEF SiteInv
  <2>3. s[1] \in Funcs
    BY <1>3, <2>2, SiteInstrFact
  <2>4. x \notin DOMAIN edges
    BY <1>6, <2>1, <2>2 DEF RtaInv, EdgeInv, Joined
  <2>. QED  BY <2>1, <2>2, <2>3, <2>4
<1>13. Touches
  BY <1>1, <1>2, <1>6, <1>8 DEF Touches, Untouched
<1>14. TypeOK'
  BY <1>1, <1>3, <1>5, <1>6, <1>8, <1>9 DEF TypeOK, QueueGrows, Idle
<1>15. TableInv'
  BY <1>1 DEF RtaInv, TableInv, ImplementsIsExact
<1>16. EdgeInv'
  <2>1. ASSUME NEW x \in DOMAIN B
        PROVE  x = <<x[1], x[2]>> /\ Joined(x[1], x[2])'
    <3>1. /\ x = <<x[1], g>> /\ x[1] \in DOMAIN dynCallSites[SigOf[g]] /\ x[1] \in Instrs(Result)'
          /\ At(x[1])'.kind = "dynamic" /\ At(x[1])'.sig = SigOf[g]
      BY <1>2, <1>8, <1>10, <1>11, InstrsGrow
    <3>. QED  BY <1>1, <1>5, <3>1 DEF Joined
  <2>2. \A x \in DOMAIN edges' : x = <<x[1], x[2]>> /\ Joined(x[1], x[2])'
    BY <1>8, <1>10, <2>1, JoinedStays DEF RtaInv, EdgeInv
  <2>3. ASSUME NEW R \in Sigs, NEW s \in DOMAIN dynCallSites[R], NEW k \in addrTakenFuncs', SigOf[k] = R
        PROVE  <<s, k>> \in DOMAIN edges'
    <3>1. CASE k \in addrTakenFuncs
      BY <1>8, <2>3, <3>1 DEF RtaInv, EdgeInv
    <3>2. CASE k = g
      BY <1>7, <1>8, <2>3, <3>2
    <3>. QED  BY <1>1, <1>5, <3>1, <3>2
  <2>. QED  BY <1>1, <1>8, <1>11, <2>2, <2>3 DEF RtaInv, EdgeInv
<1>17. ReachInv'
  <2>1. \A x \in DOMAIN B : At(x[1]).kind # "static"
    BY <1>2
  <2>. QED  BY <1>1, <1>8, <1>9, <2>1, ReachStep DEF RtaInv
<1>18. SoundInv'
  <2>1. ASSUME NEW X \in Solutions, Closed(X)
        PROVE  g \in X.taken /\ \A x \in DOMAIN B : x[2] \in X.funcs
    <3>1. g \in X.taken
      BY <1>3, <1>6, <2>1, InSolution, ClosedFact
    <3>2. ASSUME NEW x \in DOMAIN B
          PROVE  x[2] \in X.funcs
      <4>1. x[2] = g /\ x[1] \in Instrs(X) /\ At(x[1]).kind = "dynamic" /\ At(x[1]).sig = SigOf[g]
        BY <1>2, <2>1, InSolution
      <4>. QED  BY <1>3, <2>1, <3>1, <4>1, ClosedFact
    <3>. QED  BY <3>1, <3>2
  <2>2. reachable' \subseteq Result.funcs \cup {x[2] : x \in DOMAIN B}
    BY <1>8 DEF Result
  <2>3. addrTakenFuncs' = addrTakenFuncs \cup {g}
    BY <1>1, <1>5
  <2>. QED  BY <1>1, <1>9, <2>1, <2>2, <2>3, InSolution, SoundStep
<1>19. ASSUME NEW f \in Funcs \ VisitedTwice'
       PROVE  RecordedOnce(f)'
  <2>1. ASSUME NEW x \in DOMAIN B, x[1][1] \notin VisitedTwice
        PROVE  x \notin DOMAIN edges /\ B[x] = 1
    <3>1. RecordedOnce(x[1][1])
      BY <1>2, <2>1 DEF RtaInv, OnceInv
    <3>2. dynCallSites[SigOf[g]][x[1]] = 1
      BY <1>2, <1>6, <3>1 DEF RecordedOnce
    <3>. QED  BY <1>2, <1>7, <3>2
  <2>2. f \in Funcs \ VisitedTwice /\ RecordedOnce(f)
    BY <1>8 DEF VisitedTwice, QueueGrows, RtaInv, OnceInv
  <2>3. \A x \in DOMAIN edges' : x[1][1] = f => edges'[x] = 1
    BY <1>8, <2>1, EdgesOnce
  <2>. QED  BY <1>1, <2>2, <2>3 DEF RecordedOnce
<1>20. /\ \A S \in Sigs : \A s \in DOMAIN dynCallSites'[S] :
             s \in Instrs(Result) /\ At(s).kind = "dynamic" /\ At(s).sig = S
       /\ \A I \in Interfaces : \A s \in DOMAIN invokeSites'[I] :
             s \in Instrs(Result) /\ At(s).kind = "invoke" /\ At(s).iface = I /\ I \in DOMAIN interfaceTypes'
       /\ \A T \in Known' : \A n \in 1 .. Len(Parts[T]) : Parts[T][n][1] \in Known' \cup PendingTypes'
  BY <1>1, <1>3, <1>9 DEF SiteInv, RtaInv, TodoInv
<1>. QED  BY <1>4, <1>8, <1>10, <1>12, <1>13, <1>14, <1>15, <1>16, <1>17, <1>18, <1>19, <1>20, VisitStep

LEMMA VisitInvokeKeeps ==
  ASSUME RtaInv, VisitInvoke
  PROVE  RtaInv'
<1> DEFINE Cs == Implementations(TheInstr.iface)
           B == SetToBag({Here} \X {FuncOf[<<C, TheInstr.method>>] : C \in Cs})
<1>1. /\ Fetch("invoke") /\ AddEdges(B, TRUE)
      /\ invokeSites' = [invokeSites EXCEPT ![TheInstr.iface] = @ (+) Once(Here)]
      /\ interfaceTypes' = [J \in DOMAIN interfaceTypes \cup {TheInstr.iface} |->
                               IF J = TheInstr.iface THEN Cs ELSE interfaceTypes[J]]
      /\ concreteTypes' = [C \in DOMAIN concreteTypes |-> concreteTypes[C] \cup {J \in {TheInstr.iface} : C \in Cs}]
      /\ UNCHANGED <<program, shadow, pending, runtimeTypes, addrTakenFuncs, dynCallSites>>
  BY DEF VisitInvoke
<1>3. TypeOK /\ SiteInv /\ TableInv
  BY DEF RtaInv
<1>4. /\ Advances /\ Here \in Instrs(Result) /\ At(Here) = TheInstr /\ TheInstr.kind = "invoke" /\ TheInstr \in Instr
  BY <1>1, <1>3, FetchFact
<1>5. PICK h, I, m : h = Here /\ I = TheInstr.iface /\ m = TheInstr.method
  OBVIOUS
<1>6. /\ I \in Interfaces /\ h \in Instrs(Result) /\ m \in MethodsOf[I]
      /\ At(h).kind = "invoke" /\ At(h).iface = I /\ At(h).method = m
  BY <1>4, <1>5, InstrFact
<1>21. \A C : C \in Cs <=> C \in DOMAIN concreteTypes /\ <<C, I>> \in Implements
  BY <1>3, <1>5 DEF TableInv, ImplementsIsExact, Implementations
<1> HIDE DEF Cs
<1>7. /\ \A x : x \in DOMAIN B <=> \E C \in Cs : x = <<h, FuncOf[<<C, m>>]>>
      /\ \A x \in DOMAIN B : B[x] = 1 /\ x[1] = h
  <2> DEFINE Fs == {FuncOf[<<C, m>>] : C \in Cs}
  <2>1. B = SetToBag({h} \X Fs)
    BY <1>5
  <2>2. DOMAIN B = {h} \X Fs /\ \A x \in DOMAIN B : B[x] = 1
    BY <2>1, SetToBagFact
  <2>3. \A g : g \in Fs <=> \E C \in Cs : g = FuncOf[<<C, m>>]
    OBVIOUS
  <2> HIDE DEF Fs, B
  <2>4. \A x : x \in DOMAIN B <=> \E g \in Fs : x = <<h, g>>
    BY <2>2
  <2>5. \A x \in DOMAIN B : x[1] = h
    BY <2>2
  <2>6. ASSUME NEW x, x \in DOMAIN B
        PROVE  \E C \in Cs : x = <<h, FuncOf[<<C, m>>]>>
    BY <2>3, <2>4, <2>6
  <2>7. ASSUME NEW x, NEW C \in Cs, x = <<h, FuncOf[<<C, m>>]>>
        PROVE  x \in DOMAIN B
    <3>1. FuncOf[<<C, m>>] \in Fs
      BY <2>3
    <3>. QED  BY <2>4, <2>7, <3>1
  <2>. QED  BY <2>2, <2>5, <2>6, <2>7
<1> HIDE DEF B
<1>8. /\ QueueGrows /\ reachable' = reachable \cup {x[2] : x \in DOMAIN B}
      /\ addrTaken' = addrTaken \cup {x[2] : x \in DOMAIN B}
      /\ edges' = edges (+) B /\ DOMAIN edges' = DOMAIN edges \cup DOMAIN B
  <2>1. ASSUME NEW x \in DOMAIN B
        PROVE  x[2] \in Funcs
    <3>1. PICK C \in Cs : x = <<h, FuncOf[<<C, m>>]>>
      BY <1>7
    <3>. QED  BY <1>6, <1>21, <3>1, ImplementsFact
  <2>. QED  BY <1>1, <1>3, <2>1, AddEdgesFact
<1>9. Known' = Known /\ PendingTypes' = PendingTypes /\ at' = at + 1 /\ at \in Nat
  BY <1>1, <1>3, <1>4, TypesStay, ShadowFact DEF Advances
<1>2. /\ invokeSites' = [J \in Interfaces |-> invokeSites'[J]]
      /\ \A J \in Interfaces \ {I} : invokeSites'[J] = invokeSites[J]
      /\ invokeSites'[I] = invokeSites[I] (+) Once(h)
      /\ DOMAIN invokeSites'[I] = DOMAIN invokeSites[I] \cup {h}
  <2>1. invokeSites = [J \in Interfaces |-> invokeSites[J]]
    BY <1>3 DEF TypeOK
  <2>2. /\ invokeSites' = [J \in Interfaces |-> invokeSites'[J]]
        /\ \A J \in Interfaces \ {I} : invokeSites'[J] = invokeSites[J]
        /\ invokeSites'[I] = invokeSites[I] (+) Once(h)
    BY <1>1, <1>5, <1>6, <2>1
  <2>3. DOMAIN Once(h) = {h}
    BY SetToBagFact DEF Once
  <2>4. DOMAIN (invokeSites[I] (+) Once(h)) = DOMAIN invokeSites[I] \cup DOMAIN Once(h)
    BY BagUnionFact
  <2>. QED  BY <2>2, <2>3, <2>4
<1>22. /\ DOMAIN concreteTypes' = DOMAIN concreteTypes
       /\ DOMAIN interfaceTypes' = DOMAIN interfaceTypes \cup {I}
       /\ interfaceTypes'[I] = Cs
       /\ \A J \in DOMAIN interfaceTypes \ {I} : interfaceTypes'[J] = interfaceTypes[J]
       /\ \A C \in DOMAIN concreteTypes : concreteTypes'[C] = concreteTypes[C] \cup {J \in {I} : C \in Cs}
  BY <1>1, <1>5
<1>10. Grows
  BY <1>1, <1>2, <1>8, <1>9, <1>22 DEF Grows
<1>11. \A s : At(s)' = At(s)
  BY <1>1 DEF At
<1>12. FollowsUp
  <2>1. Processed(h)'
    BY <1>2, <1>6, <1>11 DEF Processed
  <2>. QED  BY <1>4, <1>5, <2>1 DEF FollowsUp
<1>13. Touches
  BY <1>1, <1>2, <1>4, <1>5, <1>7, <1>8 DEF Touches, Untouched
<1>14. TypeOK'
  BY <1>1, <1>2, <1>3, <1>6, <1>8, <1>9, <1>22 DEF TypeOK, QueueGrows, Idle
<1>15. TableInv'
  <2>1. ASSUME NEW C \in DOMAIN concreteTypes', NEW J \in DOMAIN interfaceTypes'
        PROVE  /\ C \in interfaceTypes'[J] <=> <<C, J>> \in Implements
               /\ J \in concreteTypes'[C] <=> <<C, J>> \in Implements
    <3>1. CASE J = I /\ I \in DOMAIN interfaceTypes
      BY <1>3, <1>21, <1>22, <3>1 DEF TableInv, ImplementsIsExact
    <3>2. CASE J = I /\ I \notin DOMAIN interfaceTypes
      <4>1. I \notin concreteTypes[C]
        BY <1>3, <1>22, <3>2 DEF TableInv
      <4>. QED  BY <1>21, <1>22, <3>2, <4>1
    <3>3. CASE J # I
      BY <1>3, <1>22, <3>3 DEF TableInv, ImplementsIsExact
    <3>. QED  BY <3>1, <3>2, <3>3
  <2>2. \A J \in DOMAIN interfaceTypes' : interfaceTypes'[J] \subseteq DOMAIN concreteTypes'
    BY <1>3, <1>21, <1>22 DEF TableInv
  <2>3. \A C \in DOMAIN concreteTypes' : concreteTypes'[C] \subseteq DOMAIN interfaceTypes'
    BY <1>3, <1>22 DEF TableInv
  <2>. QED  BY <2>1, <2>2, <2>3 DEF TableInv, ImplementsIsExact
<1>16. EdgeInv'
  <2>1. ASSUME NEW x \in DOMAIN B
        PROVE  x = <<x[1], x[2]>> /\ Joined(x[1], x[2])'
    <3>1. PICK C \in Cs : x = <<h, FuncOf[<<C, m>>]>>
      BY <1>7
    <3>2. h \in Instrs(Result)' /\ At(h)'.kind = "invoke" /\ At(h)'.iface = I /\ At(h)'.method = m
      BY <1>6, <1>8, <1>10, <1>11, InstrsGrow
    <3>3. C \in DOMAIN concreteTypes' /\ <<C, I>> \in Implements /\ h \in DOMAIN invokeSites'[I]
      BY <1>2, <1>21, <1>22
    <3>. QED  BY <3>1, <3>2, <3>3 DEF Joined
  <2>2. \A x \in DOMAIN edges' : x = <<x[1], x[2]>> /\ Joined(x[1], x[2])'
    BY <1>8, <1>10, <2>1, JoinedStays DEF RtaInv, EdgeInv
  <2>3. ASSUME NEW J \in Interfaces, NEW s \in DOMAIN invokeSites'[J], NEW C \in DOMAIN concreteTypes',
               <<C, J>> \in Implements
        PROVE  <<s, FuncOf[<<C, At(s)'.method>>]>> \in DOMAIN edges'
    <3>1. CASE s \in DOMAIN invokeSites[J]
      BY <1>8, <1>11, <1>22, <2>3, <3>1 DEF RtaInv, EdgeInv
    <3>2. CASE s \notin DOMAIN invokeSites[J]
      <4>1. J = I /\ s = h /\ C \in Cs
        BY <1>2, <1>21, <1>22, <2>3, <3>2
      <4>. QED  BY <1>6, <1>7, <1>8, <1>11, <4>1
    <3>. QED  BY <3>1, <3>2
  <2>. QED  BY <1>1, <1>8, <2>2, <2>3 DEF RtaInv, EdgeInv
<1>17. ReachInv'
  <2>1. \A x \in DOMAIN B : At(x[1]).kind # "static"
    BY <1>6, <1>7
  <2>. QED  BY <1>1, <1>8, <1>9, <2>1, ReachStep DEF RtaInv
<1>18. SoundInv'
  <2>1. ASSUME NEW X \in Solutions, Closed(X), NEW x \in DOMAIN B
        PROVE  x[2] \in X.funcs
    <3>1. PICK C \in Cs : x = <<h, FuncOf[<<C, m>>]>>
      BY <1>7
    <3>2. C \in Known
      BY <1>3, <1>21 DEF TypeOK
    <3>3. C \in X.types /\ h \in Instrs(X)
      BY <1>6, <2>1, <3>2, InSolution
    <3>. QED  BY <1>3, <1>6, <1>21, <2>1, <3>1, <3>3, ClosedFact
  <2>2. reachable' \subseteq Result.funcs \cup {x[2] : x \in DOMAIN B}
    BY <1>8 DEF Result
  <2>. QED  BY <1>1, <1>9, <2>1, <2>2, InSolution, SoundStep
<1>19. ASSUME NEW f \in Funcs \ VisitedTwice'
       PROVE  RecordedOnce(f)'
  <2>1. ASSUME NEW x \in DOMAIN B, x[1][1] \notin VisitedTwice
        PROVE  x \notin DOMAIN edges /\ B[x] = 1
    <3>1. x[1] = h
      BY <1>7
    <3>. QED  BY <1>1, <1>5, <1>7, <2>1, <3>1, HereUntouched DEF Untouched
  <2>2. f \in Funcs \ VisitedTwice /\ RecordedOnce(f)
    BY <1>8 DEF VisitedTwice, QueueGrows, RtaInv, OnceInv
  <2>3. ASSUME NEW J \in Interfaces, NEW s \in DOMAIN invokeSites'[J], s[1] = f
        PROVE  invokeSites'[J][s] = 1
    <3>1. CASE J # I
      BY <1>2, <2>2, <2>3, <3>1 DEF RecordedOnce
    <3>2. CASE J = I /\ s # h
      <4>1. s \in DOMAIN invokeSites[I] \ DOMAIN Once(h) /\ invokeSites[I][s] = 1
        BY <1>2, <1>6, <2>2, <2>3, <3>2, SetToBagFact DEF RecordedOnce, Once
      <4>2. (invokeSites[I] (+) Once(h))[s] = 1
        BY <4>1 DEF (+)
      <4>. QED  BY <1>2, <3>2, <4>2
    <3>3. CASE J = I /\ s = h
      <4>1. s \notin DOMAIN invokeSites[I]
        BY <1>1, <1>5, <1>6, <2>2, <2>3, <3>3, HereUntouched DEF Untouched
      <4>2. s \in DOMAIN Once(h) /\ Once(h)[s] = 1
        BY <3>3, SetToBagFact DEF Once
      <4>3. (invokeSites[I] (+) Once(h))[s] = 1
        BY <4>1, <4>2 DEF (+)
      <4>. QED  BY <1>2, <3>3, <4>3
    <3>. QED  BY <3>1, <3>2, <3>3
  <2>4. \A x \in DOMAIN edges' : x[1][1] = f => edges'[x] = 1
    BY <1>8, <2>1, EdgesOnce
  <2>. QED  BY <1>1, <2>2, <2>3, <2>4 DEF RecordedOnce
<1>20. /\ \A R \in Sigs : \A s \in DOMAIN dynCallSites'[R] :
             s \in Instrs(Result) /\ At(s).kind = "dynamic" /\ At(s).sig = R
       /\ \A J \in Interfaces : \A s \in DOMAIN invokeSites'[J] :
             s \in Instrs(Result) /\ At(s).kind = "invoke" /\ At(s).iface = J /\ J \in DOMAIN interfaceTypes'
       /\ \A T \in Known' : \A n \in 1 .. Len(Parts[T]) : Parts[T][n][1] \in Known' \cup PendingTypes'
  BY <1>1, <1>2, <1>3, <1>6, <1>9, <1>22 DEF SiteInv, RtaInv, TodoInv
<1>. QED  BY <1>4, <1>8, <1>10, <1>12, <1>13, <1>14, <1>15, <1>16, <1>17, <1>18, <1>19, <1>20, VisitStep

LEMMA OldRuntimeTypeKeeps ==
  ASSUME RtaInv, OldRuntimeType
  PROVE  RtaInv'
<1>1. /\ pending # <<>> /\ runtimeTypes[pending[1][1]] # "no" /\ pending' = Tail(pending)
      /\ runtimeTypes' = [runtimeTypes EXCEPT ![pending[1][1]] = IF pending[1][2] THEN "true" ELSE @]
      /\ UNCHANGED <<program, shadow, at>> /\ UNCHANGED found /\ UNCHANGED tables
  BY DEF OldRuntimeType
<1>2. /\ UNCHANGED <<addrTakenFuncs, dynCallSites, invokeSites, concreteTypes, interfaceTypes>>
      /\ UNCHANGED <<reachable, addrTaken, worklist, edges>>
  BY <1>1 DEF tables, found
<1>3. TypeOK /\ SiteInv
  BY DEF RtaInv
<1>4. /\ pending \in Seq(Part) /\ Len(pending) \in Nat /\ Len(pending) >= 1 /\ pending[1] \in Part
      /\ pending' \in Seq(Part) /\ Len(pending') = Len(pending) - 1
      /\ \A i \in 1 .. Len(pending') : pending'[i] = pending[i + 1]
  BY <1>1, <1>3 DEF TypeOK
<1>5. PICK T : T = pending[1][1]
  OBVIOUS
<1>6. T \in Types /\ T \in Known
  BY <1>1, <1>4, <1>5 DEF Part, Known
<1>7. Known' = Known /\ runtimeTypes' \in [Types -> {"no", "false", "true"}]
  <2>1. runtimeTypes \in [Types -> {"no", "false", "true"}]
    BY <1>3 DEF TypeOK
  <2>2. runtimeTypes' \in [Types -> {"no", "false", "true"}] /\ \A U \in Types : runtimeTypes'[U] = "no" <=> runtimeTypes[U] = "no"
    BY <1>1, <1>5, <1>6, <2>1
  <2>. QED  BY <2>2 DEF Known
<1>8. PendingTypes' \subseteq PendingTypes /\ Known \cup PendingTypes \subseteq Known' \cup PendingTypes'
  <2>1. \A i \in 1 .. Len(pending') : i + 1 \in 1 .. Len(pending)
    BY <1>4
  <2>2. PendingTypes' \subseteq PendingTypes
    BY <1>4, <2>1 DEF PendingTypes
  <2>3. ASSUME NEW i \in 1 .. Len(pending)
        PROVE  pending[i][1] \in Known' \cup PendingTypes'
    <3>1. CASE i = 1
      BY <1>5, <1>6, <1>7, <3>1
    <3>2. CASE i # 1
      <4>1. i - 1 \in 1 .. Len(pending') /\ (i - 1) + 1 = i
        BY <1>4, <3>2
      <4>2. pending'[i - 1] = pending[i]
        BY <1>4, <4>1
      <4>. QED  BY <4>1, <4>2 DEF PendingTypes
    <3>. QED  BY <3>1, <3>2
  <2>. QED  BY <1>7, <2>2, <2>3 DEF PendingTypes
<1>9. QueueGrows
  BY <1>2, <1>3, QueueStands
<1>10. Grows
  BY <1>1, <1>2, <1>7, <1>8 DEF Grows
<1>11. \A s : At(s)' = At(s)
  BY <1>1 DEF At
<1>12. FollowsUp /\ at' = at
  BY <1>1 DEF FollowsUp
<1>13. Touches
  BY <1>2 DEF Touches, Untouched
<1>14. TypeOK'
  BY <1>1, <1>2, <1>3, <1>4, <1>7 DEF TypeOK, Idle
<1>15. TableInv'
  BY <1>2 DEF RtaInv, TableInv, ImplementsIsExact
<1>16. EdgeInv'
  <2>1. \A x \in DOMAIN edges' : x = <<x[1], x[2]>> /\ Joined(x[1], x[2])'
    BY <1>2, <1>9, <1>10, JoinedStays DEF RtaInv, EdgeInv
  <2>. QED  BY <1>2, <1>11, <2>1 DEF RtaInv, EdgeInv
<1>17. ReachInv'
  BY <1>1, <1>2, <1>7, ReachStands DEF RtaInv
<1>18. SoundInv'
  <2>1. reachable' \subseteq Result.funcs
    BY <1>2 DEF Result
  <2>. QED  BY <1>1, <1>2, <1>7, <1>8, <2>1, InSolution, SoundStep
<1>19. \A f \in Funcs \ VisitedTwice' : RecordedOnce(f)'
  BY <1>2 DEF RecordedOnce, RtaInv, OnceInv, VisitedTwice
<1>20. /\ \A S \in Sigs : \A s \in DOMAIN dynCallSites'[S] :
             s \in Instrs(Result) /\ At(s).kind = "dynamic" /\ At(s).sig = S
       /\ \A I \in Interfaces : \A s \in DOMAIN invokeSites'[I] :
             s \in Instrs(Result) /\ At(s).kind = "invoke" /\ At(s).iface = I /\ I \in DOMAIN interfaceTypes'
       /\ \A U \in Known' : \A n \in 1 .. Len(Parts[U]) : Parts[U][n][1] \in Known' \cup PendingTypes'
  <2>1. \A U \in Known' : \A n \in 1 .. Len(Parts[U]) : Parts[U][n][1] \in Known' \cup PendingTypes'
    BY <1>7, <1>8 DEF RtaInv, TodoInv
  <2>. QED  BY <1>2, <1>3, <2>1 DEF SiteInv
<1>. QED  BY <1>9, <1>10, <1>12, <1>13, <1>14, <1>15, <1>16, <1>17, <1>18, <1>19, <1>20, VisitStep

(* A new runtime type: what its parts do to the types.                     *)
LEMMA NewTypeFact ==
  ASSUME RtaInv, NewRuntimeType, NEW T, T = pending[1][1]
  PROVE  /\ T \in Types /\ T \notin Known /\ T \in PendingTypes
         /\ UNCHANGED <<program, shadow, at, addrTakenFuncs, dynCallSites, invokeSites>>
         /\ ~Idle
         /\ Known' = Known \cup {T} /\ runtimeTypes' \in [Types -> {"no", "false", "true"}]
         /\ pending' \in Seq(Part)
         /\ \A U \in PendingTypes' : U \in PendingTypes \/ \E n \in 1 .. Len(Parts[T]) : U = Parts[T][n][1]
         /\ Known \cup PendingTypes \subseteq Known' \cup PendingTypes'
         /\ \A n \in 1 .. Len(Parts[T]) : Parts[T][n][1] \in PendingTypes'
<1>1. /\ pending # <<>> /\ runtimeTypes[pending[1][1]] = "no" /\ pending' = Parts[T] \o Tail(pending)
      /\ runtimeTypes' = [runtimeTypes EXCEPT ![pending[1][1]] = IF pending[1][2] THEN "true" ELSE "false"]
      /\ UNCHANGED <<program, shadow, at, addrTakenFuncs, dynCallSites, invokeSites>>
  BY DEF NewRuntimeType
<1>2. TypeOK
  BY DEF RtaInv
<1>3. /\ pending \in Seq(Part) /\ Len(pending) \in Nat /\ Len(pending) >= 1 /\ pending[1] \in Part
      /\ Tail(pending) \in Seq(Part) /\ Len(Tail(pending)) = Len(pending) - 1
      /\ \A i \in 1 .. Len(pending) - 1 : Tail(pending)[i] = pending[i + 1]
  BY <1>1, <1>2 DEF TypeOK
<1>4. T \in Types /\ T \notin Known
  BY <1>1, <1>3 DEF Part, Known
<1>5. T \in PendingTypes
  BY <1>3 DEF PendingTypes
<1>6. Known' = Known \cup {T} /\ runtimeTypes' \in [Types -> {"no", "false", "true"}]
  <2>1. runtimeTypes \in [Types -> {"no", "false", "true"}]
    BY <1>2 DEF TypeOK
  <2>2. /\ runtimeTypes' \in [Types -> {"no", "false", "true"}]
        /\ \A U \in Types : runtimeTypes'[U] = "no" <=> (runtimeTypes[U] = "no" /\ U # T)
    BY <1>1, <1>4, <2>1
  <2>. QED  BY <1>4, <2>2 DEF Known
<1>7. Parts[T] \in Seq(Part) /\ Len(Parts[T]) \in Nat
  BY <1>4, ConstantsAssumption
<1>8. /\ pending' \in Seq(Part) /\ Len(pending') = Len(Parts[T]) + (Len(pending) - 1)
      /\ \A i \in 1 .. Len(Parts[T]) : pending'[i] = Parts[T][i]
      /\ \A i \in Len(Parts[T]) + 1 .. Len(pending') : pending'[i] = Tail(pending)[i - Len(Parts[T])]
  BY <1>1, <1>3, <1>7
<1>9. \A n \in 1 .. Len(Parts[T]) : n \in 1 .. Len(pending') /\ pending'[n] = Parts[T][n]
  BY <1>3, <1>7, <1>8
<1>10. ASSUME NEW i \in 2 .. Len(pending)
       PROVE  \E j \in 1 .. Len(pending') : pending'[j] = pending[i]
  <2>1. /\ (i - 1) + Len(Parts[T]) \in Len(Parts[T]) + 1 .. Len(pending') /\ ((i - 1) + Len(Parts[T])) - Len(Parts[T]) = i - 1
        /\ i - 1 \in 1 .. Len(pending) - 1 /\ (i - 1) + 1 = i /\ (i - 1) + Len(Parts[T]) \in 1 .. Len(pending')
    BY <1>3, <1>7, <1>8
  <2>. QED  BY <1>3, <1>8, <2>1
<1>11. ASSUME NEW i \in 1 .. Len(pending'), i > Len(Parts[T])
       PROVE  \E j \in 1 .. Len(pending) : pending'[i] = pending[j]
  <2>1. /\ i \in Len(Parts[T]) + 1 .. Len(pending') /\ i - Len(Parts[T]) \in 1 .. Len(pending) - 1
        /\ (i - Len(Parts[T])) + 1 \in 1 .. Len(pending)
    BY <1>3, <1>7, <1>8, <1>11
  <2>. QED  BY <1>3, <1>8, <2>1
<1>12. \A U \in PendingTypes' : U \in PendingTypes \/ \E n \in 1 .. Len(Parts[T]) : U = Parts[T][n][1]
  <2>1. ASSUME NEW i \in 1 .. Len(pending')
        PROVE  pending'[i][1] \in PendingTypes \/ \E n \in 1 .. Len(Parts[T]) : pending'[i][1] = Parts[T][n][1]
    <3>1. CASE i > Len(Parts[T])
      BY <1>11, <3>1 DEF PendingTypes
    <3>2. CASE ~(i > Len(Parts[T]))
      BY <1>7, <1>9, <3>2
    <3>. QED  BY <3>1, <3>2
  <2>2. ASSUME NEW U \in PendingTypes'
        PROVE  \E i \in 1 .. Len(pending') : U = pending'[i][1]
    BY DEF PendingTypes
  <2>. QED  BY <2>1, <2>2
<1>13. Known \cup PendingTypes \subseteq Known' \cup PendingTypes'
  <2>1. ASSUME NEW i \in 1 .. Len(pending)
        PROVE  pending[i][1] \in Known' \cup PendingTypes'
    <3>1. CASE i = 1
      BY <1>6, <3>1
    <3>2. CASE i # 1
      <4>1. i \in 2 .. Len(pending)
        BY <1>3, <3>2
      <4>. QED  BY <1>10, <4>1 DEF PendingTypes
    <3>. QED  BY <3>1, <3>2
  <2>. QED  BY <1>6, <2>1 DEF PendingTypes
<1>14. \A n \in 1 .. Len(Parts[T]) : Parts[T][n][1] \in PendingTypes'
  BY <1>9 DEF PendingTypes
<1>15. ~Idle
  BY <1>1, <1>2 DEF TypeOK
<1>. QED  BY <1>1, <1>4, <1>5, <1>6, <1>8, <1>12, <1>13, <1>14, <1>15

LEMMA NewInterfaceKeeps ==
  ASSUME RtaInv, NewRuntimeType, UNCHANGED <<found, concreteTypes, interfaceTypes>>, pending[1][1] \in Interfaces
  PROVE  RtaInv'
<1>1. PICK T : T = pending[1][1]
  OBVIOUS
<1>2. /\ T \in Types /\ T \in PendingTypes /\ ~Idle
      /\ UNCHANGED <<program, shadow, at, addrTakenFuncs, dynCallSites, invokeSites>>
      /\ Known' = Known \cup {T} /\ runtimeTypes' \in [Types -> {"no", "false", "true"}]
      /\ pending' \in Seq(Part)
      /\ \A U \in PendingTypes' : U \in PendingTypes \/ \E n \in 1 .. Len(Parts[T]) : U = Parts[T][n][1]
      /\ Known \cup PendingTypes \subseteq Known' \cup PendingTypes'
      /\ \A n \in 1 .. Len(Parts[T]) : Parts[T][n][1] \in PendingTypes'
  BY <1>1, NewTypeFact
<1>3. TypeOK /\ SiteInv
  BY DEF RtaInv
<1>4. UNCHANGED <<reachable, addrTaken, worklist, edges>> /\ UNCHANGED <<concreteTypes, interfaceTypes>>
  BY DEF found
<1>5. T \notin Concrete
  BY <1>1 DEF Concrete
<1>9. QueueGrows
  BY <1>3, <1>4, QueueStands
<1>10. Grows
  BY <1>2, <1>4 DEF Grows
<1>11. \A s : At(s)' = At(s)
  BY <1>2 DEF At
<1>12. FollowsUp /\ at' = at
  BY <1>2 DEF FollowsUp
<1>13. Touches
  BY <1>2, <1>4 DEF Touches, Untouched
<1>14. TypeOK'
  BY <1>2, <1>3, <1>4, <1>5 DEF TypeOK, Idle
<1>15. TableInv'
  BY <1>4 DEF RtaInv, TableInv, ImplementsIsExact
<1>16. EdgeInv'
  <2>1. \A x \in DOMAIN edges' : x = <<x[1], x[2]>> /\ Joined(x[1], x[2])'
    BY <1>4, <1>9, <1>10, JoinedStays DEF RtaInv, EdgeInv
  <2>. QED  BY <1>2, <1>4, <1>11, <2>1 DEF RtaInv, EdgeInv
<1>17. ReachInv'
  <2>1. Result.types' \cap Concrete = Result.types \cap Concrete
    BY <1>2, <1>5 DEF Result
  <2>2. ByReflection(Result)' = ByReflection(Result)
    BY <2>1 DEF ByReflection
  <2>. QED  BY <1>2, <1>4, <2>2 DEF RtaInv, ReachInv, At
<1>18. SoundInv'
  <2>1. reachable' \subseteq Result.funcs
    BY <1>4 DEF Result
  <2>2. ASSUME NEW X \in Solutions, Closed(X)
        PROVE  Known' \cup PendingTypes' \subseteq X.types
    <3>1. T \in X.types /\ Known \subseteq X.types /\ PendingTypes \subseteq X.types
      BY <1>2, <2>2, InSolution
    <3>2. \A n \in 1 .. Len(Parts[T]) : Parts[T][n][1] \in X.types
      BY <1>3, <2>2, <3>1, ClosedFact
    <3>. QED  BY <1>2, <3>1, <3>2
  <2>. QED  BY <1>2, <2>1, <2>2, InSolution, SoundStep
<1>19. \A f \in Funcs \ VisitedTwice' : RecordedOnce(f)'
  BY <1>2, <1>4 DEF RecordedOnce, RtaInv, OnceInv, VisitedTwice
<1>20. /\ \A S \in Sigs : \A s \in DOMAIN dynCallSites'[S] :
             s \in Instrs(Result) /\ At(s).kind = "dynamic" /\ At(s).sig = S
       /\ \A I \in Interfaces : \A s \in DOMAIN invokeSites'[I] :
             s \in Instrs(Result) /\ At(s).kind = "invoke" /\ At(s).iface = I /\ I \in DOMAIN interfaceTypes'
       /\ \A U \in Known' : \A n \in 1 .. Len(Parts[U]) : Parts[U][n][1] \in Known' \cup PendingTypes'
  <2>1. \A U \in Known' : \A n \in 1 .. Len(Parts[U]) : Parts[U][n][1] \in Known' \cup PendingTypes'
    BY <1>2 DEF RtaInv, TodoInv
  <2>. QED  BY <1>2, <1>3, <1>4, <2>1 DEF SiteInv
<1>. QED  BY <1>9, <1>10, <1>12, <1>13, <1>14, <1>15, <1>16, <1>17, <1>18, <1>19, <1>20, VisitStep

(* The edges to the methods of a new type.                                 *)
LEMMA InvokeEdgesFact ==
  ASSUME RtaInv, NEW T \in Concrete, T \notin Known
  PROVE  /\ \A x \in DOMAIN InvokeEdges(T) :
               /\ x = <<x[1], x[2]>> /\ x[2] = FuncOf[<<T, At(x[1]).method>>] /\ x[2] \in Funcs
               /\ x[1] \in Instrs(Result) /\ x[1][1] \in Funcs /\ At(x[1]).kind = "invoke"
               /\ At(x[1]).iface \in Interfaces /\ <<T, At(x[1]).iface>> \in Implements
               /\ x[1] \in DOMAIN invokeSites[At(x[1]).iface]
               /\ x \notin DOMAIN edges
               /\ InvokeEdges(T)[x] = invokeSites[At(x[1]).iface][x[1]]
         /\ \A J \in Interfaces : \A s \in DOMAIN invokeSites[J] :
               <<T, J>> \in Implements => <<s, FuncOf[<<T, At(s).method>>]>> \in DOMAIN InvokeEdges(T)
<1> DEFINE S == UNION {DOMAIN invokeSites[I] : I \in {J \in DOMAIN interfaceTypes : <<T, J>> \in Implements}}
<1>1. InvokeEdges(T) = [x \in {<<s, FuncOf[<<T, At(s).method>>]>> : s \in S} |-> invokeSites[At(x[1]).iface][x[1]]]
  BY DEF InvokeEdges
<1>2. \A s : s \in S <=> \E J \in DOMAIN interfaceTypes : <<T, J>> \in Implements /\ s \in DOMAIN invokeSites[J]
  OBVIOUS
<1> HIDE DEF S
<1>3. TypeOK /\ SiteInv
  BY DEF RtaInv
<1>4. \A x : x \in DOMAIN InvokeEdges(T) <=> \E s \in S : x = <<s, FuncOf[<<T, At(s).method>>]>>
  BY <1>1
<1>5. \A x \in DOMAIN InvokeEdges(T) : InvokeEdges(T)[x] = invokeSites[At(x[1]).iface][x[1]]
  BY <1>1
<1>6. ASSUME NEW x \in DOMAIN InvokeEdges(T)
      PROVE  /\ x = <<x[1], x[2]>> /\ x[2] = FuncOf[<<T, At(x[1]).method>>] /\ x[2] \in Funcs
             /\ x[1] \in Instrs(Result) /\ x[1][1] \in Funcs /\ At(x[1]).kind = "invoke"
             /\ At(x[1]).iface \in Interfaces /\ <<T, At(x[1]).iface>> \in Implements
             /\ x[1] \in DOMAIN invokeSites[At(x[1]).iface]
             /\ x \notin DOMAIN edges
  <2>1. PICK s \in S : x = <<s, FuncOf[<<T, At(s).method>>]>>
    BY <1>4
  <2>2. PICK J \in DOMAIN interfaceTypes : <<T, J>> \in Implements /\ s \in DOMAIN invokeSites[J]
    BY <1>2
  <2>3. J \in Interfaces
    BY <1>3 DEF TypeOK
  <2>4. s \in Instrs(Result) /\ At(s).kind = "invoke" /\ At(s).iface = J
    BY <1>3, <2>2, <2>3 DEF SiteInv
  <2>5. At(s) \in Instr /\ s[1] \in Funcs
    BY <1>3, <2>4, SiteInstrFact
  <2>6. At(s).method \in MethodsOf[J]
    BY <2>4, <2>5, InstrFact
  <2>7. At(s).method \in MethodsOf[T] /\ FuncOf[<<T, At(s).method>>] \in Funcs
    BY <2>2, <2>6, ImplementsFact
  <2>8. ASSUME x \in DOMAIN edges
        PROVE  FALSE
    <3>1. Joined(s, FuncOf[<<T, At(s).method>>])
      BY <2>1, <2>8 DEF RtaInv, EdgeInv
    <3>2. PICK C \in DOMAIN concreteTypes :
             <<C, J>> \in Implements /\ FuncOf[<<T, At(s).method>>] = FuncOf[<<C, At(s).method>>]
      BY <2>4, <3>1 DEF Joined
    <3>3. C \in Known /\ C \in Concrete
      BY <1>3 DEF TypeOK
    <3>4. At(s).method \in MethodsOf[C]
      BY <2>6, <3>2, ImplementsFact
    <3>5. C = T
      BY <2>7, <3>2, <3>3, <3>4, ConstantsAssumption
    <3>. QED  BY <3>3, <3>5
  <2>. QED  BY <2>1, <2>2, <2>3, <2>4, <2>5, <2>7, <2>8
<1>7. ASSUME NEW J \in Interfaces, NEW s \in DOMAIN invokeSites[J], <<T, J>> \in Implements
      PROVE  <<s, FuncOf[<<T, At(s).method>>]>> \in DOMAIN InvokeEdges(T)
  <2>1. J \in DOMAIN interfaceTypes
    BY <1>3 DEF SiteInv
  <2>2. s \in S
    BY <1>2, <1>7, <2>1
  <2>. QED  BY <1>4, <2>2
<1>. QED  BY <1>5, <1>6, <1>7

LEMMA NewConcreteKeeps ==
  ASSUME RtaInv, NewRuntimeType, NEW T, T = pending[1][1], T \in Concrete
  PROVE  RtaInv'
<1> DEFINE New == {FuncOf[<<T, m>>] : m \in MethodsOf[T] \cap Exported}
           B == InvokeEdges(T)
           F == New \cup {x[2] : x \in DOMAIN B}
<1>1. InterfacesOf(T) /\ AddReachable(F, TRUE) /\ edges' = edges (+) B
  <2>1. T \notin Interfaces
    BY DEF Concrete
  <2>. QED  BY <2>1 DEF NewRuntimeType, BagToSet
<1>2. /\ T \in Types /\ T \notin Known /\ T \in PendingTypes /\ ~Idle
      /\ UNCHANGED <<program, shadow, at, addrTakenFuncs, dynCallSites, invokeSites>>
      /\ Known' = Known \cup {T} /\ runtimeTypes' \in [Types -> {"no", "false", "true"}]
      /\ pending' \in Seq(Part)
      /\ \A U \in PendingTypes' : U \in PendingTypes \/ \E n \in 1 .. Len(Parts[T]) : U = Parts[T][n][1]
      /\ Known \cup PendingTypes \subseteq Known' \cup PendingTypes'
      /\ \A n \in 1 .. Len(Parts[T]) : Parts[T][n][1] \in PendingTypes'
  BY NewTypeFact
<1>3. TypeOK /\ SiteInv /\ TableInv
  BY DEF RtaInv
<1>4. \A x \in DOMAIN B :
         /\ x = <<x[1], x[2]>> /\ x[2] = FuncOf[<<T, At(x[1]).method>>] /\ x[2] \in Funcs
         /\ x[1] \in Instrs(Result) /\ x[1][1] \in Funcs /\ At(x[1]).kind = "invoke"
         /\ At(x[1]).iface \in Interfaces /\ <<T, At(x[1]).iface>> \in Implements
         /\ x[1] \in DOMAIN invokeSites[At(x[1]).iface]
         /\ x \notin DOMAIN edges
         /\ B[x] = invokeSites[At(x[1]).iface][x[1]]
  BY <1>2, InvokeEdgesFact
<1>5. \A J \in Interfaces : \A s \in DOMAIN invokeSites[J] :
         <<T, J>> \in Implements => <<s, FuncOf[<<T, At(s).method>>]>> \in DOMAIN B
  BY <1>2, InvokeEdgesFact
<1>6. New \subseteq Funcs
  <2>1. \A m \in MethodsOf[T] : FuncOf[<<T, m>>] \in Funcs
    BY ConstantsAssumption
  <2>. QED  BY <2>1
<1>7. \A g : g \in New <=> \E m \in MethodsOf[T] \cap Exported : g = FuncOf[<<T, m>>]
  OBVIOUS
<1> HIDE DEF B, New
<1>8. QueueGrows /\ reachable' = reachable \cup F /\ addrTaken' = addrTaken \cup F
  <2>1. F \in SUBSET Funcs
    <3>1. \A x \in DOMAIN B : x[2] \in Funcs
      BY <1>4
    <3>. QED  BY <1>6, <3>1
  <2> HIDE DEF F
  <2>. QED  BY <1>1, <1>3, <2>1, AddReachableFact
<1>9. DOMAIN edges' = DOMAIN edges \cup DOMAIN B
  BY <1>1, BagUnionFact
<1>22. /\ DOMAIN concreteTypes' = DOMAIN concreteTypes \cup {T}
       /\ DOMAIN interfaceTypes' = DOMAIN interfaceTypes
       /\ concreteTypes'[T] = {I \in DOMAIN interfaceTypes : <<T, I>> \in Implements}
       /\ \A C \in DOMAIN concreteTypes : C # T => concreteTypes'[C] = concreteTypes[C]
       /\ \A I \in DOMAIN interfaceTypes :
             interfaceTypes'[I] = interfaceTypes[I] \cup {C \in {T} : <<T, I>> \in Implements}
  BY <1>1 DEF InterfacesOf
<1>23. T \notin DOMAIN concreteTypes
  BY <1>2, <1>3 DEF TypeOK
<1>10. Grows
  BY <1>2, <1>9, <1>22 DEF Grows
<1>11. \A s : At(s)' = At(s)
  BY <1>2 DEF At
<1>12. FollowsUp /\ at' = at
  BY <1>2 DEF FollowsUp
<1>13. Touches
  <2>1. \A x \in DOMAIN B : At(x[1]).iface \in Interfaces /\ x[1] \in DOMAIN invokeSites[At(x[1]).iface]
    BY <1>4
  <2>. QED  BY <1>2, <1>9, <2>1 DEF Touches, Untouched
<1>14. TypeOK'
  BY <1>2, <1>3, <1>8, <1>22 DEF TypeOK, QueueGrows, Idle
<1>15. TableInv'
  <2>1. ASSUME NEW C \in DOMAIN concreteTypes', NEW J \in DOMAIN interfaceTypes'
        PROVE  /\ C \in interfaceTypes'[J] <=> <<C, J>> \in Implements
               /\ J \in concreteTypes'[C] <=> <<C, J>> \in Implements
    <3>1. CASE C = T
      <4>1. T \notin interfaceTypes[J]
        BY <1>3, <1>22, <1>23 DEF TableInv
      <4>. QED  BY <1>22, <3>1, <4>1
    <3>2. CASE C # T
      <4>1. C \in DOMAIN concreteTypes /\ J \in DOMAIN interfaceTypes /\ concreteTypes'[C] = concreteTypes[C]
        BY <1>22, <3>2
      <4>2. C \in interfaceTypes'[J] <=> C \in interfaceTypes[J]
        BY <1>22, <3>2, <4>1
      <4>. QED  BY <1>3, <4>1, <4>2 DEF TableInv, ImplementsIsExact
    <3>. QED  BY <3>1, <3>2
  <2>2. \A J \in DOMAIN interfaceTypes' : interfaceTypes'[J] \subseteq DOMAIN concreteTypes'
    BY <1>3, <1>22 DEF TableInv
  <2>3. ASSUME NEW C \in DOMAIN concreteTypes'
        PROVE  concreteTypes'[C] \subseteq DOMAIN interfaceTypes'
    <3>1. CASE C = T
      BY <1>22, <3>1
    <3>2. CASE C # T
      BY <1>3, <1>22, <3>2 DEF TableInv
    <3>. QED  BY <3>1, <3>2
  <2>. QED  BY <2>1, <2>2, <2>3 DEF TableInv, ImplementsIsExact
<1>16. EdgeInv'
  <2>1. ASSUME NEW x \in DOMAIN B
        PROVE  x = <<x[1], x[2]>> /\ Joined(x[1], x[2])'
    <3>1. x[1] \in Instrs(Result)' /\ At(x[1])' = At(x[1])
      BY <1>4, <1>8, <1>10, InstrsGrow
    <3>2. /\ x = <<x[1], x[2]>> /\ At(x[1]).kind = "invoke" /\ x[1] \in DOMAIN invokeSites'[At(x[1]).iface]
          /\ <<T, At(x[1]).iface>> \in Implements /\ x[2] = FuncOf[<<T, At(x[1]).method>>]
      BY <1>2, <1>4
    <3>3. T \in DOMAIN concreteTypes'
      BY <1>22
    <3>. QED  BY <3>1, <3>2, <3>3 DEF Joined
  <2>2. \A x \in DOMAIN edges' : x = <<x[1], x[2]>> /\ Joined(x[1], x[2])'
    BY <1>8, <1>9, <1>10, <2>1, JoinedStays DEF RtaInv, EdgeInv
  <2>3. ASSUME NEW J \in Interfaces, NEW s \in DOMAIN invokeSites'[J], NEW C \in DOMAIN concreteTypes',
               <<C, J>> \in Implements
        PROVE  <<s, FuncOf[<<C, At(s)'.method>>]>> \in DOMAIN edges'
    <3>1. CASE C = T
      BY <1>2, <1>5, <1>9, <1>11, <2>3, <3>1
    <3>2. CASE C # T
      <4>1. C \in DOMAIN concreteTypes /\ s \in DOMAIN invokeSites[J]
        BY <1>2, <1>22, <3>2
      <4>. QED  BY <1>9, <1>11, <2>3, <4>1 DEF RtaInv, EdgeInv
    <3>. QED  BY <3>1, <3>2
  <2>. QED  BY <1>2, <1>9, <2>2, <2>3 DEF RtaInv, EdgeInv
<1>17. ReachInv'
  <2>1. ByReflection(Result)' = ByReflection(Result) \cup New
    <3>1. Result.types' \cap Concrete = (Result.types \cap Concrete) \cup {T}
      BY <1>2 DEF Result
    <3>2. ASSUME NEW g
          PROVE  g \in ByReflection(Result)' <=> g \in ByReflection(Result) \cup New
      <4>1. ASSUME g \in ByReflection(Result)'
            PROVE  g \in ByReflection(Result) \cup New
        <5>1. PICK C \in Result.types' \cap Concrete : g \in {FuncOf[<<C, m>>] : m \in MethodsOf[C] \cap Exported}
          BY <4>1 DEF ByReflection
        <5>2. CASE C = T
          BY <5>1, <5>2 DEF New
        <5>3. CASE C # T
          <6>1. C \in Result.types \cap Concrete
            BY <3>1, <5>3
          <6>. QED  BY <5>1, <6>1 DEF ByReflection
        <5>. QED  BY <5>2, <5>3
      <4>2. ASSUME g \in ByReflection(Result)
            PROVE  g \in ByReflection(Result)'
        <5>1. PICK C \in Result.types \cap Concrete : g \in {FuncOf[<<C, m>>] : m \in MethodsOf[C] \cap Exported}
          BY <4>2 DEF ByReflection
        <5>2. C \in Result.types' \cap Concrete
          BY <3>1
        <5>. QED  BY <5>1, <5>2 DEF ByReflection
      <4>3. ASSUME g \in New
            PROVE  g \in ByReflection(Result)'
        <5>1. T \in Result.types' \cap Concrete
          BY <3>1
        <5>2. g \in {FuncOf[<<T, m>>] : m \in MethodsOf[T] \cap Exported}
          BY <4>3 DEF New
        <5>3. PICK C \in Result.types' \cap Concrete : C = T
          BY <5>1
        <5>4. g \in {FuncOf[<<C, m>>] : m \in MethodsOf[C] \cap Exported}
          BY <5>2, <5>3
        <5>. QED  BY <5>4 DEF ByReflection
      <4>. QED  BY <4>1, <4>2, <4>3
    <3>. QED  BY <3>2
  <2>2. reachable' = {x[2] : x \in DOMAIN edges'} \cup ByReflection(Result)'
    BY <1>8, <1>9, <2>1 DEF RtaInv, ReachInv
  <2>3. addrTaken' = {x[2] : x \in {y \in DOMAIN edges' : At(y[1])'.kind # "static"}} \cup ByReflection(Result)'
    <3>1. \A x \in DOMAIN B : At(x[1]).kind # "static"
      BY <1>4
    <3>. QED  BY <1>8, <1>9, <1>11, <2>1, <3>1 DEF RtaInv, ReachInv
  <2>. QED  BY <2>2, <2>3 DEF ReachInv
<1>18. SoundInv'
  <2>2. ASSUME NEW X \in Solutions, Closed(X)
        PROVE  Known' \cup PendingTypes' \subseteq X.types /\ F \subseteq X.funcs
    <3>1. T \in X.types /\ Known \subseteq X.types /\ PendingTypes \subseteq X.types
      BY <1>2, <2>2, InSolution
    <3>2. \A n \in 1 .. Len(Parts[T]) : Parts[T][n][1] \in X.types
      BY <1>3, <2>2, <3>1, ClosedFact
    <3>3. New \subseteq X.funcs
      <4>1. T \in X.types \cap Concrete
        BY <3>1
      <4>2. \A m \in MethodsOf[T] \cap Exported : FuncOf[<<T, m>>] \in X.funcs
        BY <1>3, <2>2, <4>1, ClosedFact
      <4>3. ASSUME NEW g \in New
            PROVE  g \in X.funcs
        <5>1. PICK m \in MethodsOf[T] \cap Exported : g = FuncOf[<<T, m>>]
          BY <1>7
        <5>. QED  BY <4>2, <5>1
      <4>. QED  BY <4>3
    <3>4. ASSUME NEW x \in DOMAIN B
          PROVE  x[2] \in X.funcs
      <4>1. x[1] \in Instrs(X)
        BY <1>4, <2>2, InSolution
      <4>2. /\ At(x[1]).kind = "invoke" /\ <<T, At(x[1]).iface>> \in Implements
            /\ x[2] = FuncOf[<<T, At(x[1]).method>>]
        BY <1>4
      <4>3. FuncOf[<<T, At(x[1]).method>>] \in X.funcs
        BY <1>3, <2>2, <3>1, <4>1, <4>2, ClosedFact
      <4>. QED  BY <4>2, <4>3
    <3>. QED  BY <1>2, <3>1, <3>2, <3>3, <3>4
  <2> HIDE DEF F
  <2>1. reachable' \subseteq Result.funcs \cup F
    BY <1>8 DEF Result
  <2>. QED  BY <1>2, <2>1, <2>2, InSolution, SoundStep
<1>19. ASSUME NEW f \in Funcs \ VisitedTwice'
       PROVE  RecordedOnce(f)'
  <2>1. ASSUME NEW x \in DOMAIN B, x[1][1] \notin VisitedTwice
        PROVE  x \notin DOMAIN edges /\ B[x] = 1
    <3>1. RecordedOnce(x[1][1])
      BY <1>4, <2>1 DEF RtaInv, OnceInv
    <3>2. invokeSites[At(x[1]).iface][x[1]] = 1
      BY <1>4, <3>1 DEF RecordedOnce
    <3>. QED  BY <1>4, <3>2
  <2>2. f \in Funcs \ VisitedTwice /\ RecordedOnce(f)
    BY <1>8 DEF VisitedTwice, QueueGrows, RtaInv, OnceInv
  <2>3. \A x \in DOMAIN edges' : x[1][1] = f => edges'[x] = 1
    BY <1>1, <1>8, <2>1, EdgesOnce
  <2>. QED  BY <1>2, <2>2, <2>3 DEF RecordedOnce
<1>20. /\ \A S \in Sigs : \A s \in DOMAIN dynCallSites'[S] :
             s \in Instrs(Result) /\ At(s).kind = "dynamic" /\ At(s).sig = S
       /\ \A I \in Interfaces : \A s \in DOMAIN invokeSites'[I] :
             s \in Instrs(Result) /\ At(s).kind = "invoke" /\ At(s).iface = I /\ I \in DOMAIN interfaceTypes'
       /\ \A U \in Known' : \A n \in 1 .. Len(Parts[U]) : Parts[U][n][1] \in Known' \cup PendingTypes'
  <2>1. \A U \in Known' : \A n \in 1 .. Len(Parts[U]) : Parts[U][n][1] \in Known' \cup PendingTypes'
    BY <1>2 DEF RtaInv, TodoInv
  <2>. QED  BY <1>2, <1>3, <1>22, <2>1 DEF SiteInv
<1>. QED  BY <1>8, <1>10, <1>12, <1>13, <1>14, <1>15, <1>16, <1>17, <1>18, <1>19, <1>20, VisitStep

-----------------------------------------------------------------------------
(* The steps between visits.                                               *)
LEMMA RequeueKeeps ==
  ASSUME RtaInv, UNCHANGED <<program, pending, runtimeTypes, reachable, addrTaken, edges>>, UNCHANGED tables,
         pending = <<>>, worklist' \in Seq(Funcs), shadow' \in Seq(Funcs), at' = 0,
         \A i \in 1 .. Len(worklist') : worklist'[i] \in Result.funcs,
         \A i \in 1 .. Len(shadow') : shadow'[i] \in Result.funcs,
         \A f \in Funcs : \A i \in DOMAIN program[f] : Scheduled(f, i)' <=> Scheduled(f, i),
         \A f \in Funcs \ VisitedTwice :
           /\ \A i, j \in 1 .. Len(worklist') : worklist'[i] = f /\ worklist'[j] = f => i = j
           /\ \A i, j \in 1 .. Len(shadow') : shadow'[i] = f /\ shadow'[j] = f => i = j
           /\ \A i \in 1 .. Len(worklist'), j \in 1 .. Len(shadow') : worklist'[i] = f => shadow'[j] # f
  PROVE  RtaInv'
<1>1. UNCHANGED <<addrTakenFuncs, dynCallSites, invokeSites, concreteTypes, interfaceTypes>>
  BY DEF tables
<1>2. Known' = Known /\ PendingTypes' = PendingTypes /\ Result' = Result /\ VisitedTwice' = VisitedTwice
  BY <1>1 DEF Known, PendingTypes, Result, VisitedTwice
<1>3. Instrs(Result)' = Instrs(Result) /\ \A s : At(s)' = At(s)
  BY <1>2 DEF Instrs, SitesIn, At
<1>4. TypeOK'
  BY <1>1, <1>2 DEF RtaInv, TypeOK, Idle
<1>5. SiteInv'
  BY <1>1, <1>2, <1>3 DEF RtaInv, SiteInv
<1>6. TableInv'
  BY <1>1 DEF RtaInv, TableInv, ImplementsIsExact
<1>7. \A s, g : Joined(s, g) => Joined(s, g)'
  BY <1>1, <1>3 DEF Joined
<1>8. EdgeInv'
  BY <1>1, <1>3, <1>7 DEF RtaInv, EdgeInv
<1>9. ReachInv'
  BY <1>2, ReachStands DEF RtaInv
<1>10. \A s : Processed(s) => Processed(s)'
  BY <1>1, <1>2, <1>3 DEF Processed
<1>11. TodoInv'
  <2>1. Result.funcs \subseteq Funcs
    BY ResultFact DEF RtaInv, TypeOK
  <2>. QED  BY <1>2, <1>10, <2>1 DEF RtaInv, TodoInv
<1>12. \A s : Untouched(s) => Untouched(s)'
  BY <1>1 DEF Untouched
<1>13. OnceInv'
  <2>1. ASSUME NEW f \in Funcs \ VisitedTwice
        PROVE  InLineOnce(f)' /\ RecordedOnce(f)'
    <3>1. InLineOnce(f) /\ RecordedOnce(f)
      BY DEF RtaInv, OnceInv
    <3>2. RecordedOnce(f)'
      BY <1>1, <3>1 DEF RecordedOnce
    <3>3. \A i \in DOMAIN program'[f] : Scheduled(f, i)' => Untouched(<<f, i>>)'
      BY <1>12, <3>1 DEF InLineOnce
    <3>. QED  BY <3>2, <3>3 DEF InLineOnce
  <2>. QED  BY <1>2, <2>1 DEF OnceInv
<1>14. SoundInv'
  <2>1. reachable' \subseteq Result.funcs
    BY DEF Result
  <2>. QED  BY <1>1, <1>2, <2>1, InSolution, SoundStep
<1>. QED  BY <1>4, <1>5, <1>6, <1>8, <1>9, <1>11, <1>13, <1>14 DEF RtaInv

LEMMA NextRoundKeeps ==
  ASSUME RtaInv, NextRound
  PROVE  RtaInv'
<1>1. /\ shadow = <<>> /\ worklist # <<>> /\ shadow' = worklist /\ worklist' = <<>> /\ at' = 0
      /\ UNCHANGED <<program, pending, runtimeTypes, reachable, addrTaken, edges>> /\ UNCHANGED tables
  BY DEF NextRound, Idle
<1>2. pending = <<>> /\ worklist \in Seq(Funcs) /\ Len(worklist) \in Nat /\ Len(worklist) >= 1
  BY <1>1 DEF RtaInv, TypeOK, Idle
<1>3. ASSUME NEW f \in Funcs, NEW i \in DOMAIN program[f]
      PROVE  Scheduled(f, i)' <=> Scheduled(f, i)
  <2>1. i \in Nat /\ i > 0
    BY ProgramFact DEF RtaInv
  <2>2. Scheduled(f, i) <=> \E n \in 1 .. Len(worklist) : worklist[n] = f
    BY <1>1 DEF Scheduled, Idle
  <2>3. Scheduled(f, i)' <=> \/ \E n \in 2 .. Len(worklist) : worklist[n] = f
                             \/ worklist[1] = f
    BY <1>1, <2>1 DEF Scheduled, Idle
  <2>. QED  BY <1>2, <2>2, <2>3
<1>4. \A f \in Funcs \ VisitedTwice : InLineOnce(f)
  BY DEF RtaInv, OnceInv
<1>5. /\ worklist' \in Seq(Funcs) /\ shadow' \in Seq(Funcs) /\ Len(worklist') = 0
      /\ \A i \in 1 .. Len(shadow') : shadow'[i] \in Result.funcs
  BY <1>1, <1>2 DEF RtaInv, SiteInv
<1>6. \A f \in Funcs \ VisitedTwice :
        /\ \A i, j \in 1 .. Len(worklist') : worklist'[i] = f /\ worklist'[j] = f => i = j
        /\ \A i, j \in 1 .. Len(shadow') : shadow'[i] = f /\ shadow'[j] = f => i = j
        /\ \A i \in 1 .. Len(worklist'), j \in 1 .. Len(shadow') : worklist'[i] = f => shadow'[j] # f
  BY <1>1, <1>4, <1>5 DEF InLineOnce
<1>7. \A i \in 1 .. Len(worklist') : worklist'[i] \in Result.funcs
  BY <1>5
<1>. QED  BY <1>1, <1>2, <1>3, <1>5, <1>6, <1>7, RequeueKeeps

LEMMA EndVisitKeeps ==
  ASSUME RtaInv, EndVisit
  PROVE  RtaInv'
<1>1. /\ shadow # <<>> /\ pending = <<>> /\ at = Len(program[Head(shadow)]) /\ shadow' = Tail(shadow) /\ at' = 0
      /\ UNCHANGED <<program, pending, runtimeTypes>> /\ UNCHANGED <<reachable, addrTaken, edges, worklist>>
      /\ UNCHANGED tables
  BY DEF EndVisit, Idle, found
<1>2. /\ shadow \in Seq(Funcs) /\ worklist \in Seq(Funcs) /\ Len(shadow) \in Nat /\ Len(shadow) >= 1
      /\ shadow' \in Seq(Funcs) /\ Len(shadow') = Len(shadow) - 1 /\ Head(shadow) = shadow[1] /\ shadow[1] \in Funcs
      /\ \A n \in 1 .. Len(shadow) - 1 : shadow'[n] = shadow[n + 1]
  BY <1>1 DEF RtaInv, TypeOK
<1>8. \A n \in 1 .. Len(shadow') : n + 1 \in 1 .. Len(shadow) /\ shadow'[n] = shadow[n + 1]
  BY <1>2
<1>9. \A n \in 2 .. Len(shadow) : n - 1 \in 1 .. Len(shadow') /\ shadow'[n - 1] = shadow[n] /\ (n - 1 > 1 => n - 1 \in 2 .. Len(shadow'))
  <2>1. ASSUME NEW n \in 2 .. Len(shadow)
        PROVE  n - 1 \in 1 .. Len(shadow) - 1 /\ (n - 1) + 1 = n /\ (n - 1 > 1 => n - 1 \in 2 .. Len(shadow'))
    BY <1>2
  <2>. QED  BY <1>2, <2>1
<1>3. ASSUME NEW f \in Funcs, NEW i \in DOMAIN program[f]
      PROVE  Scheduled(f, i)' <=> Scheduled(f, i)
  <2>1. i \in Nat /\ i > 0 /\ i <= Len(program[f])
    BY ProgramFact DEF RtaInv
  <2>2. ~(shadow[1] = f /\ i > at)
    BY <1>1, <1>2, <2>1, ProgramFact DEF RtaInv
  <2>3. (\E n \in 2 .. Len(shadow) : shadow[n] = f) <=>
           \/ \E n \in 2 .. Len(shadow') : shadow'[n] = f
           \/ shadow' # <<>> /\ shadow'[1] = f
    <3>1. ASSUME NEW n \in 2 .. Len(shadow), shadow[n] = f
          PROVE  \/ \E k \in 2 .. Len(shadow') : shadow'[k] = f
                 \/ shadow' # <<>> /\ shadow'[1] = f
      <4>1. CASE n = 2
        <5>1. 1 \in 1 .. Len(shadow') /\ shadow'[1] = f
          BY <1>9, <3>1, <4>1
        <5>2. shadow' # <<>>
          BY <1>2, <5>1
        <5>. QED  BY <5>1, <5>2
      <4>2. CASE n # 2
        <5>1. n - 1 > 1
          BY <4>2
        <5>. QED  BY <1>9, <3>1, <5>1
      <4>. QED  BY <4>1, <4>2
    <3>2. ASSUME NEW n \in 1 .. Len(shadow'), shadow'[n] = f
          PROVE  \E k \in 2 .. Len(shadow) : shadow[k] = f
      <4>1. n + 1 \in 2 .. Len(shadow)
        BY <1>2
      <4>. QED  BY <1>8, <3>2, <4>1
    <3>3. shadow' # <<>> => 1 \in 1 .. Len(shadow')
      BY <1>2
    <3>4. \A n \in 2 .. Len(shadow') : n \in 1 .. Len(shadow')
      BY <1>2
    <3>. QED  BY <3>1, <3>2, <3>3, <3>4
  <2>. QED  BY <1>1, <2>1, <2>2, <2>3 DEF Scheduled, Idle
<1>4. \A f \in Funcs \ VisitedTwice : InLineOnce(f)
  BY DEF RtaInv, OnceInv
<1>5. \A i \in 1 .. Len(shadow') : shadow'[i] \in Result.funcs
  BY <1>8 DEF RtaInv, SiteInv
<1>7. \A i \in 1 .. Len(worklist') : worklist'[i] \in Result.funcs
  BY <1>1 DEF RtaInv, SiteInv
<1>6. ASSUME NEW f \in Funcs \ VisitedTwice
      PROVE  /\ \A i, j \in 1 .. Len(worklist') : worklist'[i] = f /\ worklist'[j] = f => i = j
             /\ \A i, j \in 1 .. Len(shadow') : shadow'[i] = f /\ shadow'[j] = f => i = j
             /\ \A i \in 1 .. Len(worklist'), j \in 1 .. Len(shadow') : worklist'[i] = f => shadow'[j] # f
  <2>1. InLineOnce(f)
    BY <1>4
  <2>2. ASSUME NEW i \in 1 .. Len(shadow'), NEW j \in 1 .. Len(shadow'), shadow'[i] = f, shadow'[j] = f
        PROVE  i = j
    <3>1. i + 1 = j + 1
      BY <1>8, <2>1, <2>2 DEF InLineOnce
    <3>. QED  BY <3>1
  <2>. QED  BY <1>1, <1>8, <2>1, <2>2 DEF InLineOnce
<1>10. worklist' \in Seq(Funcs) /\ shadow' \in Seq(Funcs)
  BY <1>1, <1>2
<1>. QED  BY <1>1, <1>3, <1>5, <1>6, <1>7, <1>10, RequeueKeeps

-----------------------------------------------------------------------------
LEMMA InitHolds ==
  ASSUME Init
  PROVE  RtaInv
<1>1. /\ program \in Programs /\ worklist = Roots /\ shadow = <<>> /\ at = 0 /\ pending = <<>>
      /\ reachable = {} /\ addrTaken = {} /\ runtimeTypes = [T \in Types |-> "no"] /\ addrTakenFuncs = {}
      /\ dynCallSites = [S \in Sigs |-> EmptyBag] /\ invokeSites = [I \in Interfaces |-> EmptyBag]
      /\ concreteTypes = <<>> /\ interfaceTypes = <<>> /\ edges = EmptyBag
  BY DEF Init
<1>2. DOMAIN EmptyBag = {}
  BY DEF EmptyBag, SetToBag
<1>3. /\ \A S \in Sigs : DOMAIN dynCallSites[S] = {}
      /\ \A I \in Interfaces : DOMAIN invokeSites[I] = {}
      /\ DOMAIN edges = {} /\ DOMAIN concreteTypes = {} /\ DOMAIN interfaceTypes = {}
  BY <1>1, <1>2
<1>4. Known = {} /\ PendingTypes = {}
  BY <1>1 DEF Known, PendingTypes
<1>5. /\ Roots \in Seq(Funcs) /\ Len(Roots) \in Nat /\ DOMAIN Roots = 1 .. Len(Roots)
      /\ \A f \in Funcs \ VisitedTwice : \A i, j \in 1 .. Len(Roots) : Roots[i] = f /\ Roots[j] = f => i = j
      /\ Result.funcs = {Roots[i] : i \in 1 .. Len(Roots)}
  BY <1>1, ConstantsAssumption, ResultFact DEF VisitedTwice, Repeated, ToSet
<1>6. TypeOK
  BY <1>1, <1>3, <1>4, <1>5 DEF TypeOK
<1>7. SiteInv
  BY <1>1, <1>3, <1>5 DEF SiteInv
<1>8. TableInv
  BY <1>3 DEF TableInv, ImplementsIsExact
<1>9. EdgeInv
  BY <1>3 DEF EdgeInv
<1>10. ReachInv
  <2>1. ByReflection(Result) = {}
    BY <1>4 DEF ByReflection, Result
  <2>. QED  BY <1>1, <1>3, <2>1 DEF ReachInv
<1>11. TodoInv
  <2>1. ASSUME NEW f \in Result.funcs, NEW i \in DOMAIN program[f]
        PROVE  Scheduled(f, i)
    BY <1>1, <1>5 DEF Scheduled
  <2>. QED  BY <1>4, <2>1 DEF TodoInv
<1>12. OnceInv
  <2>1. \A s : Untouched(s)
    BY <1>3 DEF Untouched
  <2>. QED  BY <1>1, <1>3, <1>5, <2>1 DEF OnceInv, InLineOnce, RecordedOnce
<1>13. SoundInv
  BY <1>1, <1>4 DEF SoundInv, Result, Closed
<1>. QED  BY <1>6, <1>7, <1>8, <1>9, <1>10, <1>11, <1>12, <1>13 DEF RtaInv

LEMMA StutterKeeps ==
  ASSUME RtaInv, UNCHANGED vars
  PROVE  RtaInv'
<1>1. /\ UNCHANGED <<program, shadow, at, pending, runtimeTypes>>
      /\ UNCHANGED <<reachable, addrTaken, worklist, edges>> /\ UNCHANGED tables
      /\ UNCHANGED <<addrTakenFuncs, dynCallSites, invokeSites, concreteTypes, interfaceTypes>>
  BY DEF vars, found, tables
<1>2. TypeOK'
  BY <1>1 DEF RtaInv, TypeOK, Idle, Known
<1>3. SiteInv'
  BY <1>1 DEF RtaInv, SiteInv, Result, Known, Instrs, SitesIn, At
<1>4. TableInv'
  BY <1>1 DEF RtaInv, TableInv, ImplementsIsExact
<1>5. EdgeInv'
  <2>1. Grows /\ QueueGrows
    BY <1>1, TypesStay, QueueStands DEF Grows, RtaInv
  <2>2. \A x \in DOMAIN edges' : x = <<x[1], x[2]>> /\ Joined(x[1], x[2])'
    BY <1>1, <2>1, JoinedStays DEF RtaInv, EdgeInv
  <2>. QED  BY <1>1, <2>2 DEF RtaInv, EdgeInv, At
<1>6. ReachInv'
  BY <1>1, TypesStay, ReachStands DEF RtaInv
<1>7. TodoInv'
  <2>1. Result' = Result /\ Known' = Known /\ PendingTypes' = PendingTypes
    BY <1>1 DEF Result, Known, PendingTypes
  <2>2. /\ \A s : Processed(s) => Processed(s)'
        /\ \A f, i : Scheduled(f, i) => Scheduled(f, i)'
    BY <1>1, <2>1 DEF Processed, Scheduled, Idle, At
  <2>. QED  BY <1>1, <2>1, <2>2 DEF RtaInv, TodoInv
<1>8. OnceInv'
  BY <1>1 DEF RtaInv, OnceInv, InLineOnce, RecordedOnce, Scheduled, Idle, Untouched, VisitedTwice
<1>9. SoundInv'
  <2>1. reachable' \subseteq Result.funcs /\ Known' = Known /\ PendingTypes' = PendingTypes
    BY <1>1, TypesStay DEF Result
  <2>. QED  BY <1>1, <2>1, InSolution, SoundStep
<1>. QED  BY <1>2, <1>3, <1>4, <1>5, <1>6, <1>7, <1>8, <1>9 DEF RtaInv

(* The invariant is inductive: every step of the analysis keeps it.        *)
THEOREM RtaInvHolds == Spec => []RtaInv
<1>1. Init => RtaInv
  BY InitHolds
<1>2. RtaInv /\ [Next]_vars => RtaInv'
  <2> SUFFICES ASSUME RtaInv, [Next]_vars
               PROVE  RtaInv'
    OBVIOUS
  <2>1. CASE NextRound
    BY <2>1, NextRoundKeeps
  <2>2. CASE EndVisit
    BY <2>2, EndVisitKeeps
  <2>3. CASE VisitStatic
    BY <2>3, VisitStaticKeeps
  <2>4. CASE VisitDynCall
    BY <2>4, VisitDynCallKeeps
  <2>5. CASE VisitInvoke
    BY <2>5, VisitInvokeKeeps
  <2>6. CASE VisitMakeInterface
    BY <2>6, VisitMakeInterfaceKeeps
  <2>7. CASE VisitAddrTakenFunc
    BY <2>7, OldAddrTakenKeeps, NewAddrTakenKeeps
  <2>8. CASE OldRuntimeType
    BY <2>8, OldRuntimeTypeKeeps
  <2>9. CASE NewRuntimeType
    <3>1. CASE pending[1][1] \in Concrete
      BY <2>9, <3>1, NewConcreteKeeps
    <3>2. CASE pending[1][1] \notin Concrete
      <4>1. pending[1][1] \in Interfaces /\ UNCHANGED <<found, concreteTypes, interfaceTypes>>
        BY <2>9, <3>2 DEF NewRuntimeType
      <4>. QED  BY <2>9, <4>1, NewInterfaceKeeps
    <3>. QED  BY <3>1, <3>2
  <2>10. CASE UNCHANGED vars
    BY <2>10, StutterKeeps
  <2>. QED  BY <2>1, <2>2, <2>3, <2>4, <2>5, <2>6, <2>7, <2>8, <2>9, <2>10 DEF Next, Analyze
<1>. QED  BY <1>1, <1>2, PTL DEF Spec

(***************************************************************************)
(* ImplementsIsExact: the two maps of addRuntimeType and visitInvoke stay  *)
(* in agreement, whichever half of a pair comes first.                     *)
(***************************************************************************)
THEOREM ImplementsIsExactHolds == Spec => []ImplementsIsExact
<1>1. RtaInv => ImplementsIsExact
  BY DEF RtaInv, TableInv
<1>. QED  BY <1>1, RtaInvHolds, PTL

-----------------------------------------------------------------------------
(* Induction over a set of numbers.                                        *)
LEMMA SetInduction ==
  ASSUME NEW S, 0 \in S, \A n \in Nat : n \in S => n + 1 \in S
  PROVE  \A n \in Nat : n \in S
<1> DEFINE R == {x \in Nat \X Nat : x[1] < x[2]}
           T == Nat \ S
<1>1. IsWellFoundedOn(R, Nat)
  BY NatLessThanWellFounded DEF OpToRel
<1>2. \A i, j \in Nat : i < j => <<i, j>> \in R
  OBVIOUS
<1> SUFFICES ASSUME T # {}
             PROVE  FALSE
  OBVIOUS
<1>3. T \subseteq Nat
  OBVIOUS
<1>4. PICK x \in T : \A y \in T : ~(<<y, x>> \in R)
  <2> HIDE DEF T, R
  <2>. QED  BY <1>1, <1>3, WFMin
<1>5. x # 0 /\ x - 1 \in Nat /\ x - 1 < x /\ (x - 1) + 1 = x
  OBVIOUS
<1>6. x - 1 \in T
  BY <1>5
<1>. QED  BY <1>2, <1>4, <1>5, <1>6

(* Grown is what its recursive definition says.                            *)
Base == [funcs |-> ToSet(Roots), taken |-> {}, types |-> {}]

GrownTo(g, n) == \A k \in 0 .. n : g[k] = IF k = 0 THEN Base ELSE Grow(g[k - 1])

LEMMA GrownToExists == \A n \in Nat : \E g : GrownTo(g, n)
<1> DEFINE S == {n \in Nat : \E g : GrownTo(g, n)}
<1>1. 0 \in S
  <2> DEFINE g == [k \in {0} |-> Base]
  <2>1. GrownTo(g, 0)
    BY DEF GrownTo
  <2>. QED  BY <2>1
<1>2. ASSUME NEW n \in Nat, n \in S
      PROVE  n + 1 \in S
  <2>1. PICK g : GrownTo(g, n)
    BY <1>2
  <2> DEFINE h == [k \in 0 .. n + 1 |-> IF k = n + 1 THEN Grow(g[n]) ELSE g[k]]
  <2>2. ASSUME NEW k \in 0 .. n + 1
        PROVE  h[k] = IF k = 0 THEN Base ELSE Grow(h[k - 1])
    <3>1. CASE k = n + 1
      <4>1. k # 0 /\ k - 1 = n /\ n \in 0 .. n + 1 /\ n # n + 1
        BY <3>1
      <4>. QED  BY <3>1, <4>1
    <3>2. CASE k # n + 1 /\ k # 0
      <4>1. k \in 0 .. n /\ k - 1 \in 0 .. n + 1 /\ k - 1 # n + 1
        BY <3>2
      <4>. QED  BY <2>1, <3>2, <4>1 DEF GrownTo
    <3>3. CASE k = 0
      BY <2>1, <3>3 DEF GrownTo
    <3>. QED  BY <3>1, <3>2, <3>3
  <2> HIDE DEF h
  <2>3. GrownTo(h, n + 1)
    BY <2>2 DEF GrownTo
  <2>. QED  BY <2>3
<1> HIDE DEF S
<1>3. \A n \in Nat : n \in S
  BY <1>1, <1>2, SetInduction
<1>. QED  BY <1>3 DEF S

LEMMA GrownToUnique ==
  ASSUME NEW n \in Nat, NEW m \in Nat, NEW g, NEW h, GrownTo(g, n), GrownTo(h, m)
  PROVE  \A k \in Nat : k <= n /\ k <= m => g[k] = h[k]
<1> DEFINE S == {k \in Nat : k <= n /\ k <= m => g[k] = h[k]}
<1>1. 0 \in S
  BY DEF GrownTo
<1>2. ASSUME NEW k \in Nat, k \in S
      PROVE  k + 1 \in S
  <2>1. CASE k + 1 <= n /\ k + 1 <= m
    <3>1. k + 1 \in 0 .. n /\ k + 1 \in 0 .. m /\ k + 1 # 0 /\ (k + 1) - 1 = k /\ k <= n /\ k <= m
      BY <2>1
    <3>2. g[k + 1] = Grow(g[k]) /\ h[k + 1] = Grow(h[k])
      BY <3>1 DEF GrownTo
    <3>. QED  BY <1>2, <3>1, <3>2
  <2>2. CASE ~(k + 1 <= n /\ k + 1 <= m)
    BY <2>2
  <2>. QED  BY <2>1, <2>2
<1> HIDE DEF S
<1>3. \A k \in Nat : k \in S
  BY <1>1, <1>2, SetInduction
<1>. QED  BY <1>3 DEF S

LEMMA GrownFact == Grown[0] = Base /\ \A n \in Nat : Grown[n + 1] = Grow(Grown[n])
<1> DEFINE G(n) == CHOOSE g : GrownTo(g, n)
           F == [n \in Nat |-> G(n)[n]]
<1>1. \A n \in Nat : GrownTo(G(n), n)
  BY GrownToExists
<1>2. ASSUME NEW n \in Nat
      PROVE  F[n] = IF n = 0 THEN Base ELSE Grow(F[n - 1])
  <2>1. G(n)[n] = IF n = 0 THEN Base ELSE Grow(G(n)[n - 1])
    <3>1. n \in 0 .. n
      OBVIOUS
    <3>2. GrownTo(G(n), n)
      BY <1>1
    <3> HIDE DEF G
    <3>. QED  BY <3>1, <3>2 DEF GrownTo
  <2>2. CASE n = 0
    BY <2>1, <2>2
  <2>3. CASE n # 0
    <3>1. n - 1 \in Nat /\ n - 1 <= n
      BY <2>3
    <3>2. GrownTo(G(n), n) /\ GrownTo(G(n - 1), n - 1)
      BY <1>1, <3>1
    <3> HIDE DEF G
    <3>3. G(n)[n - 1] = G(n - 1)[n - 1]
      BY <3>1, <3>2, GrownToUnique
    <3>4. F[n] = G(n)[n] /\ F[n - 1] = G(n - 1)[n - 1]
      BY <3>1
    <3>. QED  BY <2>1, <2>3, <3>3, <3>4
  <2>. QED  BY <2>2, <2>3
<1>3. F = [n \in Nat |-> IF n = 0 THEN Base ELSE Grow(F[n - 1])]
  <2>1. F = [n \in Nat |-> F[n]]
    OBVIOUS
  <2> HIDE DEF F
  <2>. QED  BY <1>2, <2>1
<1> HIDE DEF F
<1>4. \E f : f = [n \in Nat |-> IF n = 0 THEN Base ELSE Grow(f[n - 1])]
  BY <1>3
<1>5. Grown = [n \in Nat |-> IF n = 0 THEN Base ELSE Grow(Grown[n - 1])]
  BY <1>4, Zenon DEF Grown, Base
<1>6. ASSUME NEW n \in Nat
      PROVE  Grown[n] = IF n = 0 THEN Base ELSE Grow(Grown[n - 1])
  BY <1>5
<1>7. ASSUME NEW n \in Nat
      PROVE  Grown[n + 1] = Grow(Grown[n])
  <2>1. n + 1 \in Nat /\ n + 1 # 0 /\ (n + 1) - 1 = n
    OBVIOUS
  <2>. QED  BY <1>6, <2>1
<1>. QED  BY <1>6, <1>7

-----------------------------------------------------------------------------
(* One solution is part of another.                                        *)
PartOf(X, Y) == X.funcs \subseteq Y.funcs /\ X.taken \subseteq Y.taken /\ X.types \subseteq Y.types

LEMMA GrowFact ==
  ASSUME NEW X
  PROVE  /\ Grow(X).funcs = X.funcs \cup {x[2] : x \in EdgesOf(X)} \cup ByReflection(X)
         /\ Grow(X).taken = X.taken \cup {i.to : i \in Of(X, "mention")}
         /\ Grow(X).types = X.types \cup {i.type : i \in Of(X, "make")}
               \cup UNION {{x[1] : x \in ToSet(Parts[U])} : U \in X.types}
         /\ Grow(X) = [funcs |-> Grow(X).funcs, taken |-> Grow(X).taken, types |-> Grow(X).types]
         /\ PartOf(X, Grow(X))
  BY DEF Grow, PartOf

LEMMA SolutionSites ==
  ASSUME TypeOK, NEW X \in Solutions, NEW s \in Instrs(X)
  PROVE  At(s) \in Instr /\ At(s).kind \in {"static", "dynamic", "mention", "invoke", "make"}
<1>1. PICK f \in X.funcs : \E i \in DOMAIN program[f] : s = <<f, i>>
  BY SitesFact
<1>2. f \in Funcs
  BY DEF Solutions
<1>3. At(s) \in Instr
  BY <1>1, <1>2, ProgramFact DEF At
<1>. QED  BY <1>3, InstrFact

LEMMA CalleesAreFuncs ==
  ASSUME TypeOK, NEW X \in Solutions, NEW s \in Instrs(X), NEW g \in Callees(X, At(s))
  PROVE  g \in Funcs
<1>1. At(s) \in Instr /\ At(s).kind \in {"static", "dynamic", "mention", "invoke", "make"}
  BY SolutionSites
<1>2. CASE At(s).kind = "static"
  BY <1>1, <1>2, CalleesFact, InstrFact
<1>3. CASE At(s).kind = "dynamic"
  BY <1>1, <1>3, CalleesFact DEF Solutions
<1>4. CASE At(s).kind = "invoke"
  <2>1. g \in MethodsNamed(At(s).iface, At(s).method, X.types)
    BY <1>1, <1>4, CalleesFact
  <2>2. PICK C \in X.types : <<C, At(s).iface>> \in Implements /\ g = FuncOf[<<C, At(s).method>>]
    BY <2>1 DEF MethodsNamed
  <2>3. At(s).method \in MethodsOf[At(s).iface]
    BY <1>1, <1>4, InstrFact
  <2>. QED  BY <2>2, <2>3, ImplementsFact
<1>5. CASE At(s).kind \in {"mention", "make"}
  BY <1>1, <1>5, CalleesFact
<1>. QED  BY <1>1, <1>2, <1>3, <1>4, <1>5

LEMMA GrowType ==
  ASSUME TypeOK, NEW X \in Solutions
  PROVE  Grow(X) \in Solutions
<1>1. X.funcs \subseteq Funcs /\ X.taken \subseteq Funcs /\ X.types \subseteq Types
  BY DEF Solutions
<1>2. {x[2] : x \in EdgesOf(X)} \subseteq Funcs
  <2>1. ASSUME NEW x \in EdgesOf(X)
        PROVE  x[2] \in Funcs
    <3>1. PICK s \in Instrs(X) : \E g \in Callees(X, At(s)) : x = <<s, g>>
      BY EdgesFact
    <3>2. PICK g \in Callees(X, At(s)) : x = <<s, g>>
      BY <3>1
    <3>. QED  BY <3>2, CalleesAreFuncs
  <2>. QED  BY <2>1
<1>3. ByReflection(X) \subseteq Funcs
  <2>1. ASSUME NEW C \in X.types \cap Concrete
        PROVE  {FuncOf[<<C, m>>] : m \in MethodsOf[C] \cap Exported} \subseteq Funcs
    <3>1. \A m \in MethodsOf[C] : FuncOf[<<C, m>>] \in Funcs
      BY ConstantsAssumption
    <3>. QED  BY <3>1
  <2>. QED  BY <2>1 DEF ByReflection
<1>4. {i.to : i \in Of(X, "mention")} \subseteq Funcs
  <2>1. ASSUME NEW s \in Instrs(X), At(s).kind = "mention"
        PROVE  At(s).to \in Funcs
    BY <2>1, SolutionSites, InstrFact
  <2>. QED  BY <2>1 DEF Of
<1>5. {i.type : i \in Of(X, "make")} \subseteq Types
  <2>1. ASSUME NEW s \in Instrs(X), At(s).kind = "make"
        PROVE  At(s).type \in Types
    BY <2>1, SolutionSites, InstrFact
  <2>. QED  BY <2>1 DEF Of
<1>6. UNION {{x[1] : x \in ToSet(Parts[U])} : U \in X.types} \subseteq Types
  <2>1. ASSUME NEW U \in X.types
        PROVE  {x[1] : x \in ToSet(Parts[U])} \subseteq Types
    <3>1. Parts[U] \in Seq(Part)
      BY <1>1, ConstantsAssumption
    <3>2. ToSet(Parts[U]) \subseteq Part
      BY <3>1 DEF ToSet
    <3>. QED  BY <3>2 DEF Part
  <2>. QED  BY <2>1
<1>7. Grow(X).funcs \subseteq Funcs /\ Grow(X).taken \subseteq Funcs /\ Grow(X).types \subseteq Types
  BY <1>1, <1>2, <1>3, <1>4, <1>5, <1>6, GrowFact
<1>. QED  BY <1>7, GrowFact DEF Solutions

LEMMA GrowMonotone ==
  ASSUME TypeOK, NEW X \in Solutions, NEW Y \in Solutions, PartOf(X, Y)
  PROVE  PartOf(Grow(X), Grow(Y))
<1>1. X.funcs \subseteq Y.funcs /\ X.taken \subseteq Y.taken /\ X.types \subseteq Y.types
  BY DEF PartOf
<1>2. Instrs(X) \subseteq Instrs(Y)
  BY <1>1 DEF Instrs, SitesIn
<1>3. ASSUME NEW s \in Instrs(X), NEW g \in Callees(X, At(s))
      PROVE  g \in Callees(Y, At(s))
  <2>1. At(s) \in Instr /\ At(s).kind \in {"static", "dynamic", "mention", "invoke", "make"}
    BY SolutionSites
  <2>2. CASE At(s).kind = "static"
    BY <2>1, <2>2, CalleesFact
  <2>3. CASE At(s).kind = "dynamic"
    BY <1>1, <2>1, <2>3, CalleesFact
  <2>4. CASE At(s).kind = "invoke"
    <3>1. Callees(X, At(s)) = MethodsNamed(At(s).iface, At(s).method, X.types)
      BY <2>1, <2>4, CalleesFact
    <3>2. Callees(Y, At(s)) = MethodsNamed(At(s).iface, At(s).method, Y.types)
      BY <2>1, <2>4, CalleesFact
    <3>3. PICK C \in X.types : <<C, At(s).iface>> \in Implements /\ g = FuncOf[<<C, At(s).method>>]
      BY <3>1 DEF MethodsNamed
    <3>. QED  BY <1>1, <3>2, <3>3 DEF MethodsNamed
  <2>5. CASE At(s).kind \in {"mention", "make"}
    BY <2>1, <2>5, CalleesFact
  <2>. QED  BY <2>1, <2>2, <2>3, <2>4, <2>5
<1>4. EdgesOf(X) \subseteq EdgesOf(Y)
  BY <1>2, <1>3, EdgesFact
<1>5. ByReflection(X) \subseteq ByReflection(Y)
  BY <1>1 DEF ByReflection
<1>6. Of(X, "mention") \subseteq Of(Y, "mention") /\ Of(X, "make") \subseteq Of(Y, "make")
  BY <1>2 DEF Of
<1>7. UNION {{x[1] : x \in ToSet(Parts[U])} : U \in X.types} \subseteq UNION {{x[1] : x \in ToSet(Parts[U])} : U \in Y.types}
  BY <1>1
<1>8. Grow(X).funcs \subseteq Grow(Y).funcs
  BY <1>1, <1>4, <1>5, GrowFact
<1>9. Grow(X).taken \subseteq Grow(Y).taken
  BY <1>1, <1>6, GrowFact
<1>10. Grow(X).types \subseteq Grow(Y).types
  BY <1>1, <1>6, <1>7, GrowFact
<1>. QED  BY <1>8, <1>9, <1>10 DEF PartOf

-----------------------------------------------------------------------------
(* The repetition of Grow stops, and where it stops is the least solution. *)
LEMMA GrownType ==
  ASSUME TypeOK
  PROVE  \A n \in Nat : Grown[n] \in Solutions /\ PartOf(Grown[n], Grown[n + 1]) /\ PartOf(Base, Grown[n])
<1> DEFINE S == {n \in Nat : Grown[n] \in Solutions /\ PartOf(Base, Grown[n])}
<1>1. 0 \in S
  <2>1. Base \in Solutions /\ PartOf(Base, Base)
    BY ResultFact DEF Base, Solutions, PartOf
  <2>. QED  BY <2>1, GrownFact
<1>2. ASSUME NEW n \in Nat, n \in S
      PROVE  n + 1 \in S
  <2>1. Grown[n] \in Solutions /\ PartOf(Base, Grown[n])
    BY <1>2
  <2>2. Grown[n + 1] = Grow(Grown[n])
    BY GrownFact
  <2>3. Grown[n + 1] \in Solutions
    BY <2>1, <2>2, GrowType
  <2>4. PartOf(Grown[n], Grown[n + 1])
    BY <2>2, GrowFact
  <2>5. PartOf(Base, Grown[n + 1])
    BY <2>1, <2>4 DEF PartOf
  <2>. QED  BY <2>3, <2>5
<1> HIDE DEF S
<1>3. \A n \in Nat : n \in S
  BY <1>1, <1>2, SetInduction
<1>4. ASSUME NEW n \in Nat
      PROVE  PartOf(Grown[n], Grown[n + 1])
  <2>1. Grown[n + 1] = Grow(Grown[n])
    BY GrownFact
  <2>. QED  BY <2>1, GrowFact
<1>. QED  BY <1>3, <1>4 DEF S

Size(X) == Cardinality(X.funcs) + Cardinality(X.taken) + Cardinality(X.types)
Most == Cardinality(Funcs) + Cardinality(Funcs) + Cardinality(Types)

LEMMA SizeFact ==
  ASSUME NEW X \in Solutions
  PROVE  Size(X) \in Nat /\ Most \in Nat /\ Size(X) <= Most
<1>1. IsFiniteSet(Funcs) /\ IsFiniteSet(Types)
  BY ConstantsAssumption
<1>2. X.funcs \in SUBSET Funcs /\ X.taken \in SUBSET Funcs /\ X.types \in SUBSET Types
  BY DEF Solutions
<1>3. /\ IsFiniteSet(X.funcs) /\ Cardinality(X.funcs) <= Cardinality(Funcs)
      /\ IsFiniteSet(X.taken) /\ Cardinality(X.taken) <= Cardinality(Funcs)
      /\ IsFiniteSet(X.types) /\ Cardinality(X.types) <= Cardinality(Types)
  BY <1>1, <1>2, FS_Subset
<1>4. /\ Cardinality(X.funcs) \in Nat /\ Cardinality(X.taken) \in Nat /\ Cardinality(X.types) \in Nat
      /\ Cardinality(Funcs) \in Nat /\ Cardinality(Types) \in Nat
  BY <1>1, <1>3, FS_CardinalityType
<1>. QED  BY <1>3, <1>4 DEF Size, Most

LEMMA SizeGrows ==
  ASSUME NEW X \in Solutions, NEW Y \in Solutions, PartOf(X, Y), X # Y
  PROVE  Size(X) + 1 <= Size(Y)
<1>1. IsFiniteSet(Y.funcs) /\ IsFiniteSet(Y.taken) /\ IsFiniteSet(Y.types)
  <2>1. Y.funcs \in SUBSET Funcs /\ Y.taken \in SUBSET Funcs /\ Y.types \in SUBSET Types
    BY DEF Solutions
  <2>. QED  BY <2>1, ConstantsAssumption, FS_Subset
<1>2. X.funcs \in SUBSET Y.funcs /\ X.taken \in SUBSET Y.taken /\ X.types \in SUBSET Y.types
  BY DEF PartOf
<1>3. /\ Cardinality(X.funcs) <= Cardinality(Y.funcs) /\ (Cardinality(Y.funcs) = Cardinality(X.funcs) => Y.funcs = X.funcs)
      /\ Cardinality(X.taken) <= Cardinality(Y.taken) /\ (Cardinality(Y.taken) = Cardinality(X.taken) => Y.taken = X.taken)
      /\ Cardinality(X.types) <= Cardinality(Y.types) /\ (Cardinality(Y.types) = Cardinality(X.types) => Y.types = X.types)
      /\ IsFiniteSet(X.funcs) /\ IsFiniteSet(X.taken) /\ IsFiniteSet(X.types)
  BY <1>1, <1>2, FS_Subset
<1>4. /\ Cardinality(X.funcs) \in Nat /\ Cardinality(X.taken) \in Nat /\ Cardinality(X.types) \in Nat
      /\ Cardinality(Y.funcs) \in Nat /\ Cardinality(Y.taken) \in Nat /\ Cardinality(Y.types) \in Nat
  BY <1>1, <1>3, FS_CardinalityType
<1>5. X.funcs # Y.funcs \/ X.taken # Y.taken \/ X.types # Y.types
  <2>1. /\ X = [funcs |-> X.funcs, taken |-> X.taken, types |-> X.types]
        /\ Y = [funcs |-> Y.funcs, taken |-> Y.taken, types |-> Y.types]
    BY DEF Solutions
  <2>. QED  BY <2>1
<1>. QED  BY <1>3, <1>4, <1>5 DEF Size

LEMMA GrownStops ==
  ASSUME TypeOK
  PROVE  \E n \in 0 .. Most : Grown[n] = Grown[n + 1]
<1>. SUFFICES ASSUME \A n \in 0 .. Most : Grown[n] # Grown[n + 1]
              PROVE  FALSE
  OBVIOUS
<1> DEFINE S == {n \in Nat : n <= Most + 1 => n <= Size(Grown[n])}
<1>1. \A n \in Nat : Grown[n] \in Solutions /\ PartOf(Grown[n], Grown[n + 1])
  BY GrownType
<1>2. \A n \in Nat : Size(Grown[n]) \in Nat /\ Most \in Nat /\ Size(Grown[n]) <= Most
  BY <1>1, SizeFact
<1>3. 0 \in S
  BY <1>2
<1>4. ASSUME NEW n \in Nat, n \in S
      PROVE  n + 1 \in S
  <2>1. CASE n + 1 <= Most + 1
    <3>1. n \in 0 .. Most /\ n <= Size(Grown[n]) /\ n + 1 \in Nat
      BY <1>2, <1>4, <2>1
    <3>2. Size(Grown[n]) + 1 <= Size(Grown[n + 1])
      BY <1>1, <3>1, SizeGrows
    <3>3. Size(Grown[n]) \in Nat /\ Size(Grown[n + 1]) \in Nat
      BY <1>2, <3>1
    <3>. QED  BY <3>1, <3>2, <3>3
  <2>2. CASE ~(n + 1 <= Most + 1)
    BY <2>2
  <2>. QED  BY <2>1, <2>2
<1> HIDE DEF S
<1>5. \A n \in Nat : n \in S
  BY <1>3, <1>4, SetInduction
<1>6. Most \in Nat /\ Most + 1 \in Nat
  BY <1>2
<1>7. Most + 1 <= Size(Grown[Most + 1])
  BY <1>5, <1>6 DEF S
<1>. QED  BY <1>2, <1>6, <1>7

LEMMA FixpointFact ==
  ASSUME TypeOK
  PROVE  /\ Fixpoint \in Solutions /\ Closed(Fixpoint)
         /\ \A X \in Solutions : Closed(X) => PartOf(Fixpoint, X)
<1> DEFINE N == CHOOSE n \in 0 .. Most : Grown[n] = Grown[n + 1]
<1>1. N \in 0 .. Most /\ Grown[N] = Grown[N + 1] /\ Fixpoint = Grown[N]
  <2>1. N \in 0 .. Most /\ Grown[N] = Grown[N + 1]
    BY GrownStops
  <2>. QED  BY <2>1 DEF Fixpoint, Most
<1> HIDE DEF N
<1>2. N \in Nat
  BY <1>1, GrownType, SizeFact
<1>3. Fixpoint \in Solutions /\ PartOf(Base, Fixpoint)
  BY <1>1, <1>2, GrownType
<1>4. Grow(Fixpoint) = Fixpoint
  BY <1>1, <1>2, GrownFact
<1>5. Closed(Fixpoint)
  BY <1>3, <1>4 DEF Closed, PartOf, Base
<1>6. ASSUME NEW X \in Solutions, Closed(X)
      PROVE  PartOf(Fixpoint, X)
  <2> DEFINE S == {n \in Nat : PartOf(Grown[n], X)}
  <2>1. 0 \in S
    <3>1. PartOf(Base, X)
      BY <1>6 DEF Base, PartOf, Closed
    <3>. QED  BY <3>1, GrownFact
  <2>2. ASSUME NEW n \in Nat, n \in S
        PROVE  n + 1 \in S
    <3>1. PartOf(Grown[n], X) /\ Grown[n] \in Solutions
      BY <2>2, GrownType
    <3>2. PartOf(Grow(Grown[n]), Grow(X))
      BY <3>1, GrowMonotone
    <3>3. Grow(X) = X /\ Grown[n + 1] = Grow(Grown[n])
      BY <1>6, GrownFact DEF Closed
    <3>. QED  BY <3>2, <3>3
  <2> HIDE DEF S
  <2>3. \A n \in Nat : n \in S
    BY <2>1, <2>2, SetInduction
  <2>. QED  BY <1>1, <1>2, <2>3 DEF S
<1>. QED  BY <1>3, <1>5, <1>6

-----------------------------------------------------------------------------
(* When nothing is left to visit, the edges are those of the result, ...   *)
LEMMA DoneEdges ==
  ASSUME RtaInv, Done
  PROVE  DOMAIN edges = EdgesOf(Result)
<1>1. TypeOK /\ SiteInv /\ EdgeInv /\ TodoInv
  BY DEF RtaInv
<1>2. shadow = <<>> /\ worklist = <<>> /\ pending = <<>>
  BY <1>1 DEF Done, TypeOK, Idle
<1>3. \A s \in Instrs(Result) : Processed(s)
  <2>1. \A f, i : ~Scheduled(f, i)
    BY <1>2 DEF Scheduled, Idle
  <2>2. \A f \in Result.funcs : \A i \in DOMAIN program[f] : Processed(<<f, i>>)
    BY <1>1, <2>1 DEF TodoInv
  <2>. QED  BY <2>2, SitesFact
<1>4. ASSUME NEW s \in Instrs(Result), NEW g \in Callees(Result, At(s))
      PROVE  <<s, g>> \in DOMAIN edges
  <2>1. At(s) \in Instr /\ At(s).kind \in {"static", "dynamic", "mention", "invoke", "make"} /\ Processed(s)
    BY <1>1, <1>3, SiteInstrFact, InstrFact
  <2>2. CASE At(s).kind = "static"
    BY <2>1, <2>2, CalleesFact DEF Processed
  <2>3. CASE At(s).kind = "dynamic"
    <3>1. g \in addrTakenFuncs /\ SigOf[g] = At(s).sig
      BY <2>1, <2>3, CalleesFact, ResultFact
    <3>2. At(s).sig \in Sigs /\ s \in DOMAIN dynCallSites[At(s).sig]
      BY <2>1, <2>3, InstrFact DEF Processed
    <3>. QED  BY <1>1, <3>1, <3>2 DEF EdgeInv
  <2>4. CASE At(s).kind = "invoke"
    <3>1. g \in MethodsNamed(At(s).iface, At(s).method, Known)
      BY <2>1, <2>4, CalleesFact, ResultFact
    <3>2. PICK C \in Known : <<C, At(s).iface>> \in Implements /\ g = FuncOf[<<C, At(s).method>>]
      BY <3>1 DEF MethodsNamed
    <3>3. C \in DOMAIN concreteTypes
      BY <1>1, <3>2, ImplementsFact DEF TypeOK
    <3>4. At(s).iface \in Interfaces /\ s \in DOMAIN invokeSites[At(s).iface]
      BY <2>1, <2>4, InstrFact DEF Processed
    <3>. QED  BY <1>1, <3>2, <3>3, <3>4 DEF EdgeInv
  <2>5. CASE At(s).kind \in {"mention", "make"}
    BY <2>1, <2>5, CalleesFact
  <2>. QED  BY <2>1, <2>2, <2>3, <2>4, <2>5
<1>5. ASSUME NEW s, NEW g, Joined(s, g)
      PROVE  s \in Instrs(Result) /\ g \in Callees(Result, At(s))
  <2>1. s \in Instrs(Result) /\ At(s).kind \in {"static", "dynamic", "mention", "invoke", "make"}
    BY <1>1, <1>5, SiteInstrFact, InstrFact DEF Joined
  <2>2. CASE At(s).kind = "static"
    BY <1>5, <2>1, <2>2, CalleesFact DEF Joined
  <2>3. CASE At(s).kind = "dynamic"
    <3>1. g \in addrTakenFuncs /\ SigOf[g] = At(s).sig
      BY <1>5, <2>3 DEF Joined
    <3>. QED  BY <2>1, <2>3, <3>1, CalleesFact, ResultFact
  <2>4. CASE At(s).kind = "invoke"
    <3>1. PICK C \in DOMAIN concreteTypes : <<C, At(s).iface>> \in Implements /\ g = FuncOf[<<C, At(s).method>>]
      BY <1>5, <2>4 DEF Joined
    <3>2. C \in Known
      BY <1>1 DEF TypeOK
    <3>3. Callees(Result, At(s)) = MethodsNamed(At(s).iface, At(s).method, Known)
      BY <2>1, <2>4, CalleesFact, ResultFact
    <3>. QED  BY <2>1, <3>1, <3>2, <3>3 DEF MethodsNamed
  <2>5. CASE At(s).kind \in {"mention", "make"}
    BY <1>5, <2>5 DEF Joined
  <2>. QED  BY <2>1, <2>2, <2>3, <2>4, <2>5
<1>6. DOMAIN edges \subseteq EdgesOf(Result)
  <2>1. ASSUME NEW x \in DOMAIN edges
        PROVE  x \in EdgesOf(Result)
    <3>1. x = <<x[1], x[2]>> /\ Joined(x[1], x[2])
      BY <1>1 DEF EdgeInv
    <3>. QED  BY <1>5, <3>1, EdgesFact
  <2>. QED  BY <2>1
<1>7. EdgesOf(Result) \subseteq DOMAIN edges
  BY <1>4, EdgesFact
<1>. QED  BY <1>6, <1>7

(* ... and the result is a solution.                                       *)
LEMMA DoneClosed ==
  ASSUME RtaInv, Done
  PROVE  Result \in Solutions /\ Closed(Result)
<1>1. TypeOK /\ SiteInv /\ EdgeInv /\ TodoInv /\ ReachInv
  BY DEF RtaInv
<1>2. shadow = <<>> /\ worklist = <<>> /\ pending = <<>>
  BY <1>1 DEF Done, TypeOK, Idle
<1>3. Result \in Solutions
  BY <1>1, ResultFact DEF Result, Solutions, TypeOK, Known
<1>4. \A s \in Instrs(Result) : Processed(s)
  <2>1. \A f, i : ~Scheduled(f, i)
    BY <1>2 DEF Scheduled, Idle
  <2>2. \A f \in Result.funcs : \A i \in DOMAIN program[f] : Processed(<<f, i>>)
    BY <1>1, <2>1 DEF TodoInv
  <2>. QED  BY <2>2, SitesFact
<1>5. PendingTypes = {}
  BY <1>2 DEF PendingTypes
<1>6. {x[2] : x \in EdgesOf(Result)} \cup ByReflection(Result) \subseteq Result.funcs
  BY <1>1, DoneEdges, ResultFact DEF ReachInv
<1>7. {i.to : i \in Of(Result, "mention")} \subseteq Result.taken
  <2>1. ASSUME NEW s \in Instrs(Result), At(s).kind = "mention"
        PROVE  At(s).to \in addrTakenFuncs
    BY <1>4, <2>1 DEF Processed
  <2>. QED  BY <2>1, ResultFact DEF Of
<1>8. {i.type : i \in Of(Result, "make")} \subseteq Result.types
  <2>1. ASSUME NEW s \in Instrs(Result), At(s).kind = "make"
        PROVE  At(s).type \in Known
    BY <1>4, <1>5, <2>1 DEF Processed
  <2>. QED  BY <2>1, ResultFact DEF Of
<1>9. UNION {{x[1] : x \in ToSet(Parts[U])} : U \in Result.types} \subseteq Result.types
  <2>1. ASSUME NEW U \in Known
        PROVE  {x[1] : x \in ToSet(Parts[U])} \subseteq Known
    <3>1. Parts[U] \in Seq(Part)
      BY ConstantsAssumption DEF Known
    <3>2. \A x \in ToSet(Parts[U]) : \E n \in 1 .. Len(Parts[U]) : x = Parts[U][n]
      BY <3>1 DEF ToSet
    <3>. QED  BY <1>1, <1>5, <3>2 DEF TodoInv
  <2>. QED  BY <2>1, ResultFact
<1>10. Grow(Result).funcs = Result.funcs /\ Grow(Result).taken = Result.taken /\ Grow(Result).types = Result.types
  <2>1. Grow(Result).funcs = Result.funcs
    <3>1. Grow(Result).funcs = Result.funcs \cup {x[2] : x \in EdgesOf(Result)} \cup ByReflection(Result)
      BY GrowFact
    <3>. QED  BY <1>6, <3>1
  <2>2. Grow(Result).taken = Result.taken
    BY <1>7, GrowFact
  <2>3. Grow(Result).types = Result.types
    BY <1>8, <1>9, GrowFact
  <2>. QED  BY <2>1, <2>2, <2>3
<1>11. Grow(Result) = Result
  <2>1. Result = [funcs |-> Result.funcs, taken |-> Result.taken, types |-> Result.types]
    BY DEF Result
  <2>. QED  BY <1>10, <2>1, GrowFact
<1>. QED  BY <1>3, <1>11, ResultFact DEF Closed

LEMMA DoneIsFixpoint ==
  ASSUME RtaInv, Done
  PROVE  Fixpoint = Result
<1>1. TypeOK
  BY DEF RtaInv
<1>2. Fixpoint \in Solutions /\ Closed(Fixpoint) /\ PartOf(Fixpoint, Result)
  BY <1>1, FixpointFact, DoneClosed
<1>3. PartOf(Result, Fixpoint)
  BY <1>2, InSolution, ResultFact DEF PartOf
<1>4. Result.funcs = Fixpoint.funcs /\ Result.taken = Fixpoint.taken /\ Result.types = Fixpoint.types
  BY <1>2, <1>3 DEF PartOf
<1>5. /\ Fixpoint = [funcs |-> Fixpoint.funcs, taken |-> Fixpoint.taken, types |-> Fixpoint.types]
      /\ Result = [funcs |-> Result.funcs, taken |-> Result.taken, types |-> Result.types]
  BY <1>2, DoneClosed DEF Solutions
<1>. QED  BY <1>4, <1>5

(***************************************************************************)
(* AnalysisIsExact: for every program and every set of types, Analyze ends *)
(* with the least fixed point, and every pair of a site and a callee is    *)
(* joined by one edge, except those of a root that is visited twice.       *)
(***************************************************************************)
THEOREM AnalysisIsExactHolds == Spec => []AnalysisIsExact
<1>1. RtaInv => AnalysisIsExact
  <2> SUFFICES ASSUME RtaInv
               PROVE  AnalysisIsExact
    OBVIOUS
  <2>1. ASSUME NEW x \in DOMAIN edges
        PROVE  edges[x] = 1 \/ x[1][1] \in VisitedTwice
    <3>1. x[1] \in Instrs(Result)
      BY DEF RtaInv, EdgeInv, Joined
    <3>2. x[1][1] \in Funcs
      BY <3>1, SiteInstrFact DEF RtaInv
    <3>. QED  BY <3>2 DEF RtaInv, OnceInv, RecordedOnce, VisitedTwice
  <2>2. ASSUME Done
        PROVE  /\ reachable \cup ToSet(Roots) = Fixpoint.funcs
               /\ DOMAIN edges = EdgesOf(Fixpoint)
               /\ {T \in Types : runtimeTypes[T] # "no"} = Fixpoint.types
               /\ reachable = {x[2] : x \in EdgesOf(Fixpoint)} \cup ByReflection(Fixpoint)
               /\ addrTaken = {x[2] : x \in {y \in EdgesOf(Fixpoint) : At(y[1]).kind # "static"}} \cup ByReflection(Fixpoint)
    <3>1. Fixpoint = Result /\ DOMAIN edges = EdgesOf(Result)
      BY <2>2, DoneIsFixpoint, DoneEdges
    <3>2. reachable \cup ToSet(Roots) = Result.funcs /\ {T \in Types : runtimeTypes[T] # "no"} = Result.types
      BY ResultFact DEF Known
    <3>3. /\ reachable = {x[2] : x \in DOMAIN edges} \cup ByReflection(Result)
          /\ addrTaken = {x[2] : x \in {y \in DOMAIN edges : At(y[1]).kind # "static"}} \cup ByReflection(Result)
      BY DEF RtaInv, ReachInv
    <3>. QED  BY <3>1, <3>2, <3>3
  <2>. QED  BY <2>1, <2>2 DEF AnalysisIsExact
<1>. QED  BY <1>1, RtaInvHolds, PTL

(***************************************************************************)
(* ChaCoversRta: cha.CallGraph has every edge of rta.Analyze between       *)
(* functions that AllFunctions knows, for every program.                   *)
(***************************************************************************)
THEOREM ChaCoversRtaHolds == Spec => []ChaCoversRta
<1>1. RtaInv => ChaCoversRta
  <2> SUFFICES ASSUME RtaInv, NEW x \in DOMAIN edges, x[1][1] \in AllFunctions, x[2] \in AllFunctions
               PROVE  x \in ChaEdges(program)
    BY DEF ChaCoversRta
  <2>1. PICK s, g : s = x[1] /\ g = x[2]
    OBVIOUS
  <2>2. x = <<s, g>> /\ Joined(s, g)
    BY <2>1 DEF RtaInv, EdgeInv
  <2>3. s \in Instrs(Result) /\ TypeOK
    BY <2>2 DEF Joined, RtaInv
  <2>4. /\ At(s) \in Instr /\ s = <<s[1], s[2]>> /\ s[2] \in DOMAIN program[s[1]]
        /\ At(s).kind \in {"static", "dynamic", "mention", "invoke", "make"}
    BY <2>3, SiteInstrFact, InstrFact
  <2>5. s \in SitesIn(program, AllFunctions)
    BY <2>1, <2>4 DEF SitesIn
  <2>6. g \in ChaCallees(At(s))
    <3>1. CASE At(s).kind = "static"
      BY <2>2, <3>1 DEF Joined, ChaCallees
    <3>2. CASE At(s).kind = "dynamic"
      <4>1. g \in addrTakenFuncs /\ SigOf[g] = At(s).sig
        BY <2>2, <3>2 DEF Joined
      <4>2. g \in AllFunctions \ Inits /\ ~IsMethod(g)
        BY <2>1, <2>3, <4>1 DEF TypeOK
      <4>. QED  BY <3>2, <4>1, <4>2 DEF ChaCallees
    <3>3. CASE At(s).kind = "invoke"
      <4>1. PICK C \in DOMAIN concreteTypes : <<C, At(s).iface>> \in Implements /\ g = FuncOf[<<C, At(s).method>>]
        BY <2>2, <3>3 DEF Joined
      <4>2. C \in Concrete
        BY <2>3 DEF TypeOK
      <4>3. g \in MethodsNamed(At(s).iface, At(s).method, Concrete)
        BY <4>1, <4>2 DEF MethodsNamed
      <4>. QED  BY <2>1, <3>3, <4>3 DEF ChaCallees
    <3>4. CASE At(s).kind \in {"mention", "make"}
      BY <2>2, <3>4 DEF Joined
    <3>. QED  BY <2>4, <3>1, <3>2, <3>3, <3>4
  <2>7. program[s[1]][s[2]] = At(s)
    BY DEF At
  <2>. QED  BY <2>2, <2>5, <2>6, <2>7 DEF ChaEdges
<1>. QED  BY <1>1, RtaInvHolds, PTL
=============================================================================
