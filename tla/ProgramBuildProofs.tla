------------------------- MODULE ProgramBuildProofs -------------------------
(***************************************************************************)
(* For every program, every number of packages and of callers:             *)
(*   - no method, bound method or thunk ever gets two Functions;           *)
(*   - Program.Build returns only when every package has been built, and   *)
(*     no two goroutines build the same one;                               *)
(*   - what RuntimeTypes returns is the least set that the requests lead   *)
(*     to, whichever goroutine comes first to a type.                      *)
(***************************************************************************)
EXTENDS ProgramBuild, Integers, FiniteSetTheorems, TLAPS

Keys == (Types \X Methods) \cup Delegates

(* TypeOK with an unbounded WaitGroup counter: its bounds need WgInv.      *)
TypeInv ==
  /\ pc \in [Actors -> {"spawn", "client", "none", "once", "members", "code", "finish", "done"}]
  /\ wg \in [Callers -> Int]
  /\ once \in [Packages -> {"new", "running", "done"}]
  /\ members \in [Packages -> SUBSET Types]
  /\ \A p \in Packages : uses[p] \in 0 .. Len(Uses[p])
  /\ uses \in [Packages -> Nat]
  /\ request \in [Actors -> Requests \cup {NoRequest}]
  /\ mu \in Actors \cup {NoOne}
  /\ stage \in [Actors -> {"idle", "held", "missing"}]
  /\ pending \in [Actors -> Seq(Part)]
  /\ runtimeTypes \in [Types -> {"unseen", "skip", "full"}]
  /\ mapping \in [Types -> SUBSET Methods]
  /\ complete \subseteq Types
  /\ delegates \subseteq Delegates
  /\ made \in [Keys -> Nat]
  /\ asked \in [Callers -> 0 .. MaxClient]
  /\ answers \subseteq SUBSET Types

(* Whoever answers a request holds methodsMu.                              *)
MuInv == \A a \in Actors : stage[a] # "idle" => mu = a /\ request[a] # NoRequest

(* A lookup that found nothing is still right.                             *)
MissInv ==
  \A a \in Actors : stage[a] = "missing" =>
     request[a].kind \in {"delegate", "value"} /\ ~Found(request[a])

(* Exactly the methods and keys in the tables have had a Function made.    *)
MadeInv ==
  /\ \A T \in Types : \A m \in Methods : made[<<T, m>>] = IF m \in mapping[T] THEN 1 ELSE 0
  /\ \A k \in Delegates : made[k] = IF k \in delegates THEN 1 ELSE 0

TablesInv == TypeInv /\ MuInv /\ MissInv /\ MadeInv

Building == {"members", "code", "finish"}

(* The states of a package and of the goroutines that are to build it.     *)
OnceInv ==
  /\ \A c \in Callers : pc[c] \in {"spawn", "client"}
  /\ \A g \in Goroutines :
       /\ pc[g] \notin {"spawn", "client"}
       /\ pc[g] = "done" => once[PackageOf(g)] = "done"
       /\ pc[g] \in Building => once[PackageOf(g)] = "running"
       /\ \A h \in Goroutines :
            pc[g] \in Building /\ pc[h] \in Building /\ PackageOf(g) = PackageOf(h) => g = h

(* A WaitGroup counts the goroutines that have yet to call Done.           *)
Running(c) == {p \in Packages : pc[<<c, p>>] \notin {"none", "done"}}
WgInv == \A c \in Callers : wg[c] = Cardinality(Running(c))

(* A caller that has returned left no goroutine behind.                    *)
ClientInv == \A c \in Callers : pc[c] = "client" => \A p \in Packages : pc[<<c, p>>] = "done"

BarrierInv == OnceInv /\ WgInv /\ ClientInv

(* A part of a type that needMethods has seen, ...                         *)
Seen(x) == AlreadySeen(x[1], x[2])

(* ... that its recursion has still to come to, ...                        *)
InLine(x) == \E a \in Actors : \E i \in 1 .. Len(pending[a]) : pending[a][i] = x

(* ... or that somebody is waiting to ask for.                             *)
Ahead(x) ==
  \/ Seen(x) \/ InLine(x)
  \/ \E a \in Actors, T \in Types : stage[a] = "idle" /\ request[a] = Need(T) /\ x = <<T, FALSE>>

(* Who may ask for what: a client does not build, and builders do not ask  *)
(* for RuntimeTypes.                                                       *)
AskInv ==
  /\ \A c \in Callers : request[c] # NoRequest => pc[c] = "client" /\ request[c].kind \in {"types", "value"}
  /\ \A g \in Goroutines : request[g] # NoRequest =>
       /\ pc[g] \in {"members", "code"} /\ request[g].kind # "types"
       /\ request[g].kind = "need" => <<request[g].type, FALSE>> \in Needed

(* How far a package has come.                                             *)
ProgressInv ==
  /\ \A g \in Goroutines :
       LET p == PackageOf(g) IN
       /\ pc[g] \in {"members", "code"} => p \notin NoInfo
       /\ pc[g] \in {"code", "finish"} => members[p] = {}
       /\ pc[g] = "finish" /\ p \notin NoInfo => uses[p] = Len(Uses[p])
  /\ \A p \in Packages \ NoInfo :
       /\ members[p] \subseteq Exported[p]
       /\ once[p] = "done" => members[p] = {} /\ uses[p] = Len(Uses[p])

(* Nothing that a package has come to is forgotten.                        *)
RootsInv ==
  \A p \in Packages \ NoInfo : \A T \in Types :
    /\ once[p] # "new" /\ T \in Exported[p] => T \in members[p] \/ Ahead(<<T, FALSE>>)
    /\ \A i \in 1 .. uses[p] : Uses[p][i] = Need(T) => Ahead(<<T, FALSE>>)

(* needMethods is called for what is needed only, by a holder of the mutex.*)
PendingInv ==
  \A a \in Actors :
    /\ pending[a] # <<>> => stage[a] = "held" /\ request[a].kind = "need"
    /\ \A i \in 1 .. Len(pending[a]) : pending[a][i] \in Needed

(* What has been seen is needed, and its parts are seen or in line.        *)
SeenInv ==
  /\ \A T \in Types : runtimeTypes[T] = "full" => <<T, FALSE>> \in Needed
  /\ \A T \in Types : runtimeTypes[T] # "unseen" =>
       /\ <<T, FALSE>> \in Needed \/ <<T, TRUE>> \in Needed
       /\ \A i \in 1 .. Len(Parts[T]) : Seen(Parts[T][i]) \/ InLine(Parts[T][i])

(* The types seen without skip have complete method sets.                  *)
CompleteInv ==
  complete = {T \in Types : runtimeTypes[T] = "full" /\ T \notin Interfaces /\ MethodsOf[T] # {}}

RuntimeInv ==
  AskInv /\ ProgressInv /\ RootsInv /\ PendingInv /\ SeenInv /\ CompleteInv /\ RuntimeTypesExact

-----------------------------------------------------------------------------
(* What the requests are.                                                  *)
LEMMA RequestShape ==
  \A r \in Requests :
    /\ r.kind \in {"need", "delegate", "value", "types"}
    /\ r.kind = "need" => r.type \in Types
    /\ r.kind = "delegate" => r.key \in Delegates
    /\ r.kind = "value" => r.type \in Types /\ r.method \in Methods
BY DEF Requests, Need, Delegate, MethodValue, RuntimeTypes

(* A step of Program.Build or Package.build, or a client's call.           *)
BuildStep ==
  \/ \E c \in Callers : \E p \in Packages : Spawn(c, p)
  \/ \E c \in Callers : Wait(c) \/ ClientCalls(c)
  \/ \E g \in Goroutines : Build(g)

(* Every step is one of these, or answers a request, or changes nothing.   *)
LEMMA Steps ==
  ASSUME [Next]_vars
  PROVE  BuildStep \/ (\E a \in Actors : Work(a)) \/ UNCHANGED vars
BY DEF Next, BuildStep

(* The variables keep their types: initially, ...                          *)
LEMMA TypeInit == Init => TypeInv
<1> SUFFICES ASSUME Init PROVE TypeInv
  OBVIOUS
<1>1. pc \in [Actors -> {"spawn", "client", "none", "once", "members", "code", "finish", "done"}]
  BY DEF Init
<1>2. \A p \in Packages : uses[p] \in 0 .. Len(Uses[p])
  <2> SUFFICES ASSUME NEW p \in Packages PROVE uses[p] \in 0 .. Len(Uses[p])
    OBVIOUS
  <2>1. Uses[p] \in Seq(Requests) BY ConstantsAssumption
  <2>2. Len(Uses[p]) \in Nat BY <2>1
  <2> QED BY <2>2 DEF Init
<1>3. asked \in [Callers -> 0 .. MaxClient] BY ConstantsAssumption DEF Init
<1> QED BY <1>1, <1>2, <1>3 DEF Init, TypeInv, Keys

(* ... in the steps of Program.Build and Package.build, ...                *)
LEMMA TypeBuild ==
  ASSUME TypeInv, BuildStep
  PROVE  TypeInv'
<1> USE DEF Goto, tables, lock
<1>0. /\ \A c \in Callers : c \in Actors /\ \A p \in Packages : <<c, p>> \in Actors
      /\ \A g \in Goroutines : g \in Actors /\ PackageOf(g) \in Packages /\ g[1] \in Callers
  BY DEF Actors, Goroutines, PackageOf
<1>1. ASSUME NEW c \in Callers, NEW p \in Packages, Spawn(c, p) PROVE TypeInv'
  BY <1>0, <1>1 DEF Spawn, TypeInv
<1>2. ASSUME NEW c \in Callers, Wait(c) PROVE TypeInv'
  BY <1>0, <1>2 DEF Wait, TypeInv
<1>3. ASSUME NEW c \in Callers, ClientCalls(c) PROVE TypeInv'
  <2>1. request' \in [Actors -> Requests \cup {NoRequest}]
    <3>1. RuntimeTypes \in Requests BY DEF Requests
    <3>2. \A T \in Types \ Interfaces : \A m \in MethodsOf[T] : MethodValue(T, m) \in Requests
      BY ConstantsAssumption DEF Requests
    <3>3. PICK r \in Requests : request' = [request EXCEPT ![c] = r]
      BY <1>3, <3>1, <3>2 DEF ClientCalls
    <3> QED BY <1>0, <3>3 DEF TypeInv
  <2> QED BY <1>0, <1>3, <2>1, ConstantsAssumption DEF ClientCalls, TypeInv
<1>4. ASSUME NEW g \in Goroutines, BeginBuild(g) PROVE TypeInv'
  BY <1>0, <1>4, ConstantsAssumption DEF BeginBuild, TypeInv
<1>5. ASSUME NEW g \in Goroutines, Built(g) PROVE TypeInv'
  BY <1>0, <1>5 DEF Built, TypeInv
<1>6. ASSUME NEW g \in Goroutines, NEW T \in Types, NextMember(g, T) PROVE TypeInv'
  <2>1. Need(T) \in Requests BY DEF Requests
  <2> QED BY <1>0, <1>6, <2>1 DEF NextMember, TypeInv
<1>7. ASSUME NEW g \in Goroutines, MembersDone(g) PROVE TypeInv'
  BY <1>0, <1>7 DEF MembersDone, TypeInv
<1>8. ASSUME NEW g \in Goroutines, NextUse(g) PROVE TypeInv'
  <2>1. Uses[PackageOf(g)] \in Seq(Requests) BY <1>0, ConstantsAssumption
  <2>2. Uses[PackageOf(g)][uses[PackageOf(g)] + 1] \in Requests
    BY <1>0, <1>8, <2>1 DEF NextUse, TypeInv
  <2>3. \A q \in Packages : uses'[q] \in 0 .. Len(Uses[q])
    BY <1>0, <1>8, <2>1 DEF NextUse, TypeInv
  <2>4. request' \in [Actors -> Requests \cup {NoRequest}]
    BY <1>0, <1>8, <2>2 DEF NextUse, TypeInv
  <2>5. uses' \in [Packages -> Nat]
    BY <1>0, <1>8 DEF NextUse, TypeInv
  <2> QED BY <1>8, <2>3, <2>4, <2>5 DEF NextUse, TypeInv
<1>9. ASSUME NEW g \in Goroutines, CodeDone(g) PROVE TypeInv'
  BY <1>0, <1>9 DEF CodeDone, TypeInv
<1>10. ASSUME NEW g \in Goroutines, FinishBuild(g) PROVE TypeInv'
  BY <1>0, <1>10 DEF FinishBuild, TypeInv
<1> QED BY <1>1, <1>2, <1>3, <1>4, <1>5, <1>6, <1>7, <1>8, <1>9, <1>10 DEF BuildStep, Build

(* ... and while a request is answered.                                    *)
LEMMA TypeWork ==
  ASSUME TypeInv, NEW a \in Actors, Work(a), MuInv
  PROVE  TypeInv'
<1> USE DEF tables
<1>0. request[a] \in Requests
  <2>1. request[a] # NoRequest BY DEF Work, Lock, NeedMethods, NeedMethodsDone, LookUp, MakeDelegate, MakeMethod, GetRuntimeTypes, Asks, MuInv
  <2> QED BY <2>1 DEF TypeInv
<1>1. CASE Lock(a)
  <2>1. request[a].kind = "need" => <<<<request[a].type, FALSE>>>> \in Seq(Part)
    <3>1. request[a].kind = "need" => <<request[a].type, FALSE>> \in Part
      BY <1>0, RequestShape DEF Part
    <3> QED BY <3>1
  <2>2. pending' \in [Actors -> Seq(Part)]
    BY <1>1, <2>1 DEF Lock, TypeInv
  <2> QED BY <1>1, <2>2 DEF Lock, TypeInv
<1>2. CASE NeedMethods(a)
  <2>0. pending[a] \in Seq(Part) /\ pending[a] # <<>> BY <1>2 DEF NeedMethods, TypeInv
  <2>1. pending[a][1] \in Part /\ Tail(pending[a]) \in Seq(Part) BY <2>0
  <2>2. pending[a][1][1] \in Types /\ pending[a][1][2] \in BOOLEAN BY <2>1 DEF Part
  <2>3. Parts[pending[a][1][1]] \o Tail(pending[a]) \in Seq(Part) BY <2>1, <2>2, ConstantsAssumption
  <2>4. pending' \in [Actors -> Seq(Part)]
    BY <1>2, <2>1, <2>3 DEF NeedMethods, TypeInv
  <2>5. made' \in [Keys -> Nat] /\ mapping' \in [Types -> SUBSET Methods]
    <3>1. \/ UNCHANGED <<mapping, made>>
          \/ AddMethods(pending[a][1][1], MethodsOf[pending[a][1][1]])
      BY <1>2 DEF NeedMethods
    <3>2. MethodsOf[pending[a][1][1]] \subseteq Methods
      BY <2>2, ConstantsAssumption
    <3>3. CASE UNCHANGED <<mapping, made>> BY <3>3 DEF TypeInv
    <3>4. CASE AddMethods(pending[a][1][1], MethodsOf[pending[a][1][1]])
      <4>1. mapping' \in [Types -> SUBSET Methods] BY <2>2, <3>2, <3>4 DEF AddMethods, TypeInv
      <4>2. DOMAIN made = Keys /\ \A x \in Keys : made[x] \in Nat /\ made[x] + 1 \in Nat BY DEF TypeInv
      <4>3. made' \in [Keys -> Nat] BY <3>4, <4>2 DEF AddMethods
      <4> QED BY <4>1, <4>3
    <3> QED BY <3>1, <3>3, <3>4
  <2>6. runtimeTypes' \in [Types -> {"unseen", "skip", "full"}] /\ complete' \subseteq Types /\ delegates' \subseteq Delegates
    BY <1>2, <2>2 DEF NeedMethods, TypeInv
  <2> QED BY <1>2, <2>4, <2>5, <2>6 DEF NeedMethods, TypeInv
<1>3. CASE NeedMethodsDone(a)
  BY <1>3 DEF NeedMethodsDone, Unlock, TypeInv
<1>4. CASE LookUp(a)
  BY <1>4 DEF LookUp, Unlock, TypeInv
<1>5. CASE MakeDelegate(a)
  <2>1. request[a].key \in Delegates BY <1>0, <1>5, RequestShape DEF MakeDelegate, Asks
  <2> QED BY <1>5, <2>1 DEF MakeDelegate, Unlock, TypeInv, Keys
<1>6. CASE MakeMethod(a)
  <2>1. request[a].type \in Types /\ request[a].method \in Methods
    BY <1>0, <1>6, RequestShape DEF MakeMethod, Asks
  <2> QED BY <1>6, <2>1 DEF MakeMethod, Unlock, TypeInv, Keys
<1>7. CASE GetRuntimeTypes(a)
  BY <1>7 DEF GetRuntimeTypes, Unlock, TypeInv
<1> QED BY <1>1, <1>2, <1>3, <1>4, <1>5, <1>6, <1>7 DEF Work

-----------------------------------------------------------------------------
(* Steps of Build leave the tables and the mutex alone, and give a new     *)
(* request only to an actor that has none.                                 *)
LEMMA TablesBuild ==
  ASSUME TypeInv, MuInv, MissInv, MadeInv, BuildStep
  PROVE  MuInv' /\ MissInv' /\ MadeInv'
<1>1. UNCHANGED <<lock, tables>>
  BY DEF BuildStep, Spawn, Wait, Build, ClientCalls, BeginBuild, Built, NextMember, MembersDone, NextUse, CodeDone, FinishBuild
<1>2. \A a \in Actors : request[a] = NoRequest \/ request'[a] = request[a]
  <2>1. Callers \subseteq Actors /\ Goroutines \subseteq Actors BY DEF Actors
  <2>2. \/ UNCHANGED request
        \/ \E c \in Callers : request[c] = NoRequest /\ \E r : request' = [request EXCEPT ![c] = r]
        \/ \E g \in Goroutines : request[g] = NoRequest /\ \E r : request' = [request EXCEPT ![g] = r]
    BY DEF BuildStep, Spawn, Wait, Build, ClientCalls, BeginBuild, Built, NextMember, MembersDone, NextUse, CodeDone, FinishBuild
  <2> QED BY <2>1, <2>2 DEF TypeInv
<1>3. \A a \in Actors : stage[a] # "idle" => request'[a] = request[a]
  BY <1>2 DEF MuInv
<1>4. MuInv'
  BY <1>1, <1>3 DEF MuInv, lock
<1>5. MissInv'
  <2> SUFFICES ASSUME NEW a \in Actors, stage'[a] = "missing"
               PROVE  request'[a].kind \in {"delegate", "value"} /\ ~Found(request[a])'
    BY DEF MissInv
  <2>1. stage[a] = "missing" /\ request'[a] = request[a]
    BY <1>1, <1>3 DEF lock
  <2> QED BY <1>1, <2>1 DEF MissInv, Found, tables
<1>6. MadeInv'
  BY <1>1 DEF MadeInv, tables
<1> QED BY <1>4, <1>5, <1>6

(* A request is answered by the holder of methodsMu.                       *)
LEMMA TablesWork ==
  ASSUME TypeInv, MuInv, MissInv, MadeInv, NEW a \in Actors, Work(a)
  PROVE  MuInv' /\ MissInv' /\ MadeInv'
<1> USE DEF tables
<1>0. request[a] \in Requests
  <2>1. request[a] # NoRequest
    BY DEF Work, Lock, NeedMethods, NeedMethodsDone, LookUp, MakeDelegate, MakeMethod, GetRuntimeTypes, Asks, MuInv
  <2> QED BY <2>1 DEF TypeInv
<1>1. CASE Lock(a)
  <2>0. NoOne \notin Actors BY ConstantsAssumption DEF Actors, Goroutines
  <2>1. \A b \in Actors : stage[b] = "idle" BY <1>1, <2>0 DEF Lock, MuInv
  <2>2. MuInv' BY <1>1, <2>1 DEF Lock, MuInv, TypeInv
  <2>3. MissInv' BY <1>1, <2>1 DEF Lock, MissInv, TypeInv
  <2>4. MadeInv' BY <1>1 DEF Lock, MadeInv
  <2> QED BY <2>2, <2>3, <2>4
<1> DEFINE Alone == \A b \in Actors \ {a} : stage[b] = "idle"
<1>2. ~Lock(a) => Alone
  BY DEF Work, NeedMethods, NeedMethodsDone, LookUp, MakeDelegate, MakeMethod, GetRuntimeTypes, Asks, MuInv
<1>3. ASSUME Unlock(a), Alone PROVE MuInv' /\ MissInv'
  <2>1. \A b \in Actors : stage'[b] = "idle" BY <1>3 DEF Unlock, TypeInv
  <2> QED BY <2>1 DEF MuInv, MissInv
<1>4. CASE NeedMethods(a)
  <2>1. Alone /\ UNCHANGED <<mu, stage, request>>
    BY <1>4, <1>2 DEF NeedMethods, Lock
  <2>2. MuInv' BY <2>1 DEF MuInv
  <2>3. \A b \in Actors : stage[b] # "missing" BY <1>4, <2>1 DEF NeedMethods
  <2>4. MissInv' BY <2>1, <2>3 DEF MissInv
  <2>5. MadeInv'
    <3> DEFINE T == pending[a][1][1]
    <3>1. T \in Types
      <4>1. pending[a] # <<>> BY <1>4 DEF NeedMethods
      <4>2. pending[a] \in Seq(Part) BY DEF TypeInv
      <4>3. pending[a][1] \in Part BY <4>1, <4>2
      <4> QED BY <4>3 DEF Part
    <3>2. UNCHANGED delegates /\ (UNCHANGED <<mapping, made>> \/ AddMethods(T, MethodsOf[T]))
      BY <1>4 DEF NeedMethods
    <3>3. CASE UNCHANGED <<mapping, made>>
      BY <3>2, <3>3 DEF MadeInv
    <3>4. CASE AddMethods(T, MethodsOf[T])
      <4> DEFINE S == MethodsOf[T]
      <4>1. S \subseteq Methods BY <3>1, ConstantsAssumption
      <4>2. \A U \in Types : mapping'[U] = IF U = T THEN mapping[U] \cup S ELSE mapping[U]
        BY <3>1, <3>4 DEF AddMethods, TypeInv
      <4>3. \A x \in Keys : made'[x] = IF x \in {T} \X (S \ mapping[T]) THEN made[x] + 1 ELSE made[x]
        BY <3>4 DEF AddMethods, TypeInv
      <4> HIDE DEF T, S
      <4>4. \A U \in Types : \A m \in Methods : made'[<<U, m>>] = IF m \in mapping'[U] THEN 1 ELSE 0
        <5> SUFFICES ASSUME NEW U \in Types, NEW m \in Methods
                     PROVE  made'[<<U, m>>] = IF m \in mapping'[U] THEN 1 ELSE 0
          OBVIOUS
        <5>1. <<U, m>> \in Keys BY DEF Keys
        <5>2. made[<<U, m>>] = IF m \in mapping[U] THEN 1 ELSE 0 BY DEF MadeInv
        <5>3. <<U, m>> \in {T} \X (S \ mapping[T]) <=> U = T /\ m \in S /\ m \notin mapping[T] OBVIOUS
        <5>4. made'[<<U, m>>] = IF U = T /\ m \in S /\ m \notin mapping[T] THEN made[<<U, m>>] + 1 ELSE made[<<U, m>>]
          BY <4>3, <5>1, <5>3
        <5>5. m \in mapping'[U] <=> m \in mapping[U] \/ (U = T /\ m \in S) BY <4>2
        <5>6. CASE U = T BY <5>2, <5>4, <5>5, <5>6
        <5>7. CASE U # T BY <5>2, <5>4, <5>5, <5>7
        <5> QED BY <5>6, <5>7
      <4>5. \A k \in Delegates : made'[k] = made[k]
        BY <3>1, <4>1, <4>3, ConstantsAssumption DEF Keys
      <4> QED BY <3>2, <4>4, <4>5 DEF MadeInv
    <3> QED BY <3>2, <3>3, <3>4
  <2> QED BY <2>2, <2>4, <2>5
<1>5. CASE NeedMethodsDone(a)
  BY <1>5, <1>3, <1>2 DEF NeedMethodsDone, MadeInv, Lock, Asks
<1>6. CASE LookUp(a)
  <2>1. Alone /\ MadeInv' BY <1>6, <1>2 DEF LookUp, Lock, MadeInv
  <2>2. CASE Unlock(a) BY <1>3, <2>1, <2>2
  <2>3. CASE /\ ~Found(request[a])
             /\ stage' = [stage EXCEPT ![a] = "missing"]
             /\ UNCHANGED <<mu, pending, request>>
    <3>1. MuInv' BY <1>6, <2>3 DEF LookUp, MuInv, TypeInv
    <3>2. MissInv'
      BY <1>6, <2>1, <2>3 DEF LookUp, MissInv, TypeInv, Asks, Found
    <3> QED BY <2>1, <3>1, <3>2
  <2> QED BY <1>6, <2>2, <2>3 DEF LookUp
<1>7. CASE MakeDelegate(a)
  <2>1. MuInv' /\ MissInv' BY <1>7, <1>3, <1>2 DEF MakeDelegate, Lock
  <2> DEFINE k == request[a].key
  <2>2. k \in Delegates /\ k \notin delegates
    BY <1>7, <1>0, RequestShape DEF MakeDelegate, Asks, MissInv, Found
  <2>3. \A x \in Keys : made'[x] = IF x = k THEN made[x] + 1 ELSE made[x]
    BY <1>7, <2>2 DEF MakeDelegate, TypeInv, Keys
  <2>4. delegates' = delegates \cup {k} /\ UNCHANGED mapping
    BY <1>7 DEF MakeDelegate
  <2> HIDE DEF k
  <2>5. \A T \in Types : \A m \in Methods : <<T, m>> \in Keys /\ <<T, m>> # k
    BY <2>2, ConstantsAssumption DEF Keys
  <2>6. \A x \in Delegates : x \in Keys BY DEF Keys
  <2>7. MadeInv' BY <2>2, <2>3, <2>4, <2>5, <2>6 DEF MadeInv
  <2> QED BY <2>1, <2>7
<1>8. CASE MakeMethod(a)
  <2>1. MuInv' /\ MissInv' BY <1>8, <1>3, <1>2 DEF MakeMethod, Lock
  <2> DEFINE T == request[a].type
             m == request[a].method
  <2>2. T \in Types /\ m \in Methods /\ m \notin mapping[T]
    BY <1>8, <1>0, RequestShape DEF MakeMethod, Asks, MissInv, Found
  <2>3. \A x \in Keys : made'[x] = IF x = <<T, m>> THEN made[x] + 1 ELSE made[x]
    BY <1>8, <2>2 DEF MakeMethod, TypeInv, Keys
  <2>4. UNCHANGED delegates /\ \A U \in Types : mapping'[U] = IF U = T THEN mapping[U] \cup {m} ELSE mapping[U]
    BY <1>8, <2>2 DEF MakeMethod, TypeInv
  <2> HIDE DEF T, m
  <2>5. \A k \in Delegates : k \in Keys /\ k # <<T, m>>
    BY <2>2, ConstantsAssumption DEF Keys
  <2>6. \A U \in Types : \A n \in Methods : <<U, n>> \in Keys BY DEF Keys
  <2>7. \A U \in Types : \A n \in Methods :
          made'[<<U, n>>] = IF U = T /\ n = m THEN made[<<U, n>>] + 1 ELSE made[<<U, n>>]
    BY <2>3, <2>6
  <2>8. \A U \in Types : \A n \in Methods : made'[<<U, n>>] = IF n \in mapping'[U] THEN 1 ELSE 0
    <3> SUFFICES ASSUME NEW U \in Types, NEW n \in Methods
                 PROVE  made'[<<U, n>>] = IF n \in mapping'[U] THEN 1 ELSE 0
      OBVIOUS
    <3>1. made[<<U, n>>] = IF n \in mapping[U] THEN 1 ELSE 0 BY DEF MadeInv
    <3>2. n \in mapping'[U] <=> n \in mapping[U] \/ (U = T /\ n = m) BY <2>4
    <3>3. made'[<<U, n>>] = IF U = T /\ n = m THEN made[<<U, n>>] + 1 ELSE made[<<U, n>>] BY <2>7
    <3>4. CASE U = T /\ n = m BY <2>2, <3>1, <3>2, <3>3, <3>4
    <3>5. CASE ~(U = T /\ n = m) BY <3>1, <3>2, <3>3, <3>5
    <3> QED BY <3>4, <3>5
  <2>9. \A k \in Delegates : made'[k] = IF k \in delegates' THEN 1 ELSE 0
    BY <2>3, <2>4, <2>5 DEF MadeInv
  <2>10. MadeInv' BY <2>8, <2>9 DEF MadeInv
  <2> QED BY <2>1, <2>10
<1>9. CASE GetRuntimeTypes(a)
  BY <1>9, <1>3, <1>2 DEF GetRuntimeTypes, MadeInv, Lock, Asks
<1> QED BY <1>1, <1>4, <1>5, <1>6, <1>7, <1>8, <1>9 DEF Work

(* The tables are right in every reachable state.                          *)
LEMMA TablesCorrect == Spec => []TablesInv
<1>1. Init => TablesInv
  <2> SUFFICES ASSUME Init PROVE TablesInv
    OBVIOUS
  <2>1. MuInv /\ MissInv BY DEF Init, MuInv, MissInv
  <2>2. MadeInv BY DEF Init, MadeInv
  <2> QED BY <2>1, <2>2, TypeInit DEF TablesInv
<1>2. TablesInv /\ [Next]_vars => TablesInv'
  <2> SUFFICES ASSUME TablesInv, [Next]_vars PROVE TablesInv'
    OBVIOUS
  <2>1. CASE BuildStep BY <2>1, TypeBuild, TablesBuild DEF TablesInv
  <2>2. ASSUME NEW a \in Actors, Work(a) PROVE TablesInv'
    BY <2>2, TypeWork, TablesWork DEF TablesInv
  <2>3. CASE UNCHANGED vars
    BY <2>3 DEF vars, tables, lock, TablesInv, TypeInv, MuInv, MissInv, Found, MadeInv
  <2> QED BY <2>1, <2>2, <2>3, Steps
<1> QED BY <1>1, <1>2, PTL DEF Spec

(***************************************************************************)
(* For each method, bound method and thunk at most one Function is ever    *)
(* made, however many packages are built at once: lookup and insertion     *)
(* are not separated, because methodsMu is held over both.                 *)
(***************************************************************************)
THEOREM OneFunctionEachHolds == Spec => []OneFunctionEach
<1>1. TablesInv => OneFunctionEach
  <2> SUFFICES ASSUME TablesInv, NEW x \in DOMAIN made PROVE made[x] <= 1
    BY DEF OneFunctionEach
  <2>1. x \in Keys BY DEF TablesInv, TypeInv
  <2>2. CASE x \in Delegates BY <2>2 DEF TablesInv, MadeInv
  <2>3. CASE x \in Types \X Methods BY <2>3 DEF TablesInv, MadeInv
  <2> QED BY <2>1, <2>2, <2>3 DEF Keys
<1> QED BY <1>1, TablesCorrect, PTL

-----------------------------------------------------------------------------
(* Answering a request moves no goroutine.                                 *)
LEMMA WorkKeepsPc ==
  ASSUME NEW a \in Actors, Work(a)
  PROVE  UNCHANGED <<pc, wg, once>>
BY DEF Work, Lock, NeedMethods, NeedMethodsDone, LookUp, MakeDelegate, MakeMethod, GetRuntimeTypes

(* The goroutines and their packages.                                      *)
LEMMA Names ==
  /\ \A c \in Callers : c \in Actors /\ c \notin Goroutines
  /\ \A g \in Goroutines : /\ g \in Actors /\ g \notin Callers
                          /\ PackageOf(g) \in Packages /\ g[1] \in Callers /\ g = <<g[1], PackageOf(g)>>
  /\ \A c \in Callers : \A p \in Packages : <<c, p>> \in Goroutines /\ PackageOf(<<c, p>>) = p
BY ConstantsAssumption DEF Actors, Goroutines, PackageOf

(* sync.Once: the goroutines that are to build a package agree with its    *)
(* state.                                                                  *)
LEMMA OnceStep ==
  ASSUME TypeInv, OnceInv, BuildStep
  PROVE  OnceInv'
<1> USE Names DEF Goto, Building
<1>1. ASSUME NEW c \in Callers, NEW p \in Packages, Spawn(c, p) PROVE OnceInv'
  BY <1>1 DEF Spawn, OnceInv, TypeInv
<1>2. ASSUME NEW c \in Callers, Wait(c) PROVE OnceInv'
  BY <1>2 DEF Wait, OnceInv, TypeInv
<1>3. ASSUME NEW c \in Callers, ClientCalls(c) PROVE OnceInv'
  BY <1>3 DEF ClientCalls, OnceInv
<1>4. ASSUME NEW g \in Goroutines, BeginBuild(g) PROVE OnceInv'
  BY <1>4 DEF BeginBuild, OnceInv, TypeInv
<1>5. ASSUME NEW g \in Goroutines, Built(g) PROVE OnceInv'
  BY <1>5 DEF Built, OnceInv, TypeInv
<1>6. ASSUME NEW g \in Goroutines, NEW T \in Types, NextMember(g, T) PROVE OnceInv'
  BY <1>6 DEF NextMember, OnceInv
<1>7. ASSUME NEW g \in Goroutines, MembersDone(g) PROVE OnceInv'
  BY <1>7 DEF MembersDone, OnceInv, TypeInv
<1>8. ASSUME NEW g \in Goroutines, NextUse(g) PROVE OnceInv'
  BY <1>8 DEF NextUse, OnceInv
<1>9. ASSUME NEW g \in Goroutines, CodeDone(g) PROVE OnceInv'
  BY <1>9 DEF CodeDone, OnceInv, TypeInv
<1>10. ASSUME NEW g \in Goroutines, FinishBuild(g) PROVE OnceInv'
  BY <1>10 DEF FinishBuild, OnceInv, TypeInv
<1> QED BY <1>1, <1>2, <1>3, <1>4, <1>5, <1>6, <1>7, <1>8, <1>9, <1>10 DEF BuildStep, Build

(* sync.WaitGroup: Add and Done keep the counter equal to the number of    *)
(* goroutines that are still running, so Wait passes only when all have    *)
(* ended.                                                                  *)
LEMMA WgStep ==
  ASSUME TypeInv, WgInv, ClientInv, OnceInv, BuildStep
  PROVE  WgInv' /\ ClientInv'
<1> USE Names DEF Goto
<1>0. \A c \in Callers : IsFiniteSet(Running(c)) /\ Cardinality(Running(c)) \in Nat
  <2> SUFFICES ASSUME NEW c \in Callers PROVE IsFiniteSet(Running(c)) /\ Cardinality(Running(c)) \in Nat
    OBVIOUS
  <2>1. Running(c) \subseteq Packages BY DEF Running
  <2> QED BY <2>1, FS_Subset, FS_CardinalityType, ConstantsAssumption
<1>1. ASSUME UNCHANGED wg,
             \A c \in Callers : \A p \in Packages :
                pc'[<<c, p>>] \in {"none", "done"} <=> pc[<<c, p>>] \in {"none", "done"}
      PROVE  WgInv'
  <2>1. \A c \in Callers : Running(c)' = Running(c) BY <1>1 DEF Running
  <2> QED BY <1>1, <2>1 DEF WgInv
<1>2. ASSUME NEW c \in Callers, NEW p \in Packages, Spawn(c, p) PROVE WgInv' /\ ClientInv'
  <2>1. Running(c)' = Running(c) \cup {p} /\ p \notin Running(c)
    BY <1>2 DEF Spawn, Running, TypeInv
  <2>2. \A d \in Callers \ {c} : Running(d)' = Running(d)
    BY <1>2 DEF Spawn, Running, TypeInv
  <2>3. Cardinality(Running(c)') = Cardinality(Running(c)) + 1
    BY <1>0, <2>1, FS_AddElement
  <2>4. WgInv'
    BY <1>2, <2>2, <2>3 DEF WgInv, Spawn, TypeInv
  <2>5. ClientInv'
    BY <1>2 DEF Spawn, ClientInv, TypeInv
  <2> QED BY <2>4, <2>5
<1>3. ASSUME NEW c \in Callers, Wait(c) PROVE WgInv' /\ ClientInv'
  <2>1. WgInv' BY <1>1, <1>3 DEF Wait, TypeInv
  <2>2. Running(c) = {} BY <1>0, <1>3, FS_EmptySet DEF Wait, WgInv
  <2>3. \A p \in Packages : pc[<<c, p>>] = "done" BY <1>3, <2>2 DEF Wait, Running
  <2>4. ClientInv' BY <1>3, <2>3 DEF Wait, ClientInv, TypeInv
  <2> QED BY <2>1, <2>4
<1>4. ASSUME NEW g \in Goroutines, pc[g] \notin {"none", "done"}, Goto(g, "done"),
             wg' = [wg EXCEPT ![g[1]] = @ - 1]
      PROVE  WgInv' /\ ClientInv'
  <2> DEFINE c == g[1]
             p == PackageOf(g)
  <2>0. c \in Callers /\ p \in Packages /\ g = <<c, p>> OBVIOUS
  <2> HIDE DEF c, p
  <2>1. Running(c)' = Running(c) \ {p} /\ p \in Running(c)
    BY <1>4, <2>0 DEF Running, TypeInv
  <2>2. \A d \in Callers \ {c} : Running(d)' = Running(d)
    BY <1>4, <2>0 DEF Running, TypeInv
  <2>3. Cardinality(Running(c)') = Cardinality(Running(c)) - 1
    BY <1>0, <2>0, <2>1, FS_RemoveElement
  <2>4. WgInv'
    BY <1>4, <2>0, <2>2, <2>3 DEF WgInv, TypeInv, c
  <2>5. ClientInv'
    BY <1>4, <2>0 DEF ClientInv, TypeInv
  <2> QED BY <2>4, <2>5
<1>5. ASSUME NEW g \in Goroutines, pc[g] \notin {"none", "done"}, UNCHANGED wg,
             UNCHANGED pc \/ \E l \in Building : Goto(g, l)
      PROVE  WgInv' /\ ClientInv'
  <2>1. WgInv' BY <1>1, <1>5 DEF TypeInv, Building
  <2>2. ClientInv' BY <1>5 DEF ClientInv, TypeInv
  <2> QED BY <2>1, <2>2
<1>6. ASSUME NEW c \in Callers, ClientCalls(c) PROVE WgInv' /\ ClientInv'
  <2>1. UNCHANGED <<pc, wg>> BY <1>6 DEF ClientCalls
  <2> QED BY <1>1, <2>1 DEF ClientInv
<1>7. ASSUME NEW g \in Goroutines, Build(g) PROVE WgInv' /\ ClientInv'
  <2>1. CASE BeginBuild(g)
    <3>1. pc[g] \notin {"none", "done"} /\ UNCHANGED wg /\ \E l \in Building : Goto(g, l)
      BY <2>1 DEF BeginBuild, Building
    <3> QED BY <1>5, <3>1
  <2>2. CASE Built(g) BY <1>4, <2>2 DEF Built
  <2>3. ASSUME NEW T \in Types, NextMember(g, T) PROVE WgInv' /\ ClientInv'
    <3>1. pc[g] = "members" /\ UNCHANGED <<pc, wg>> BY <2>3 DEF NextMember
    <3> QED BY <1>5, <3>1
  <2>4. CASE MembersDone(g)
    <3>1. pc[g] \notin {"none", "done"} /\ UNCHANGED wg /\ \E l \in Building : Goto(g, l)
      BY <2>4 DEF MembersDone, Building
    <3> QED BY <1>5, <3>1
  <2>5. CASE NextUse(g)
    <3>1. pc[g] = "code" /\ UNCHANGED <<pc, wg>> BY <2>5 DEF NextUse
    <3> QED BY <1>5, <3>1
  <2>6. CASE CodeDone(g)
    <3>1. pc[g] \notin {"none", "done"} /\ UNCHANGED wg /\ \E l \in Building : Goto(g, l)
      BY <2>6 DEF CodeDone, Building
    <3> QED BY <1>5, <3>1
  <2>7. CASE FinishBuild(g) BY <1>4, <2>7 DEF FinishBuild
  <2> QED BY <1>7, <2>1, <2>2, <2>3, <2>4, <2>5, <2>6, <2>7 DEF Build
<1> QED BY <1>2, <1>3, <1>6, <1>7 DEF BuildStep

(* sync.Once and sync.WaitGroup do their work in every reachable state.    *)
LEMMA BarrierCorrect == Spec => []BarrierInv
<1>1. Init => BarrierInv
  <2> SUFFICES ASSUME Init PROVE BarrierInv
    OBVIOUS
  <2>1. OnceInv BY Names DEF Init, OnceInv, Building
  <2>2. \A c \in Callers : Running(c) = {} BY Names DEF Init, Running
  <2>3. WgInv BY <2>2, FS_EmptySet DEF Init, WgInv
  <2>4. ClientInv BY Names DEF Init, ClientInv
  <2> QED BY <2>1, <2>3, <2>4 DEF BarrierInv
<1>2. BarrierInv /\ TablesInv /\ [Next]_vars => BarrierInv'
  <2> SUFFICES ASSUME BarrierInv, TablesInv, [Next]_vars PROVE BarrierInv'
    OBVIOUS
  <2>1. CASE BuildStep BY <2>1, OnceStep, WgStep DEF BarrierInv, TablesInv
  <2>2. CASE UNCHANGED <<pc, wg, once>>
    BY <2>2 DEF BarrierInv, OnceInv, WgInv, Running, ClientInv
  <2>3. ASSUME NEW a \in Actors, Work(a) PROVE BarrierInv'
    BY <2>2, <2>3, WorkKeepsPc
  <2>4. CASE UNCHANGED vars
    BY <2>2, <2>4 DEF vars
  <2> QED BY <2>1, <2>3, <2>4, Steps
<1> QED BY <1>1, <1>2, TablesCorrect, PTL DEF Spec

(***************************************************************************)
(* Program.Build is a barrier for each of its callers, whether it built    *)
(* the packages itself or found them being built by another: it returns    *)
(* only when all are built, and no package is built twice at a time.       *)
(***************************************************************************)
THEOREM BuildIsBarrierHolds == Spec => []BuildIsBarrier
<1>1. BarrierInv => BuildIsBarrier
  <2> SUFFICES ASSUME BarrierInv PROVE BuildIsBarrier
    OBVIOUS
  <2>1. ASSUME NEW c \in Callers, pc[c] = "client", NEW p \in Packages PROVE once[p] = "done"
    <3>1. pc[<<c, p>>] = "done" BY <2>1 DEF BarrierInv, ClientInv
    <3>2. <<c, p>> \in Goroutines /\ PackageOf(<<c, p>>) = p BY Names
    <3> QED BY <3>1, <3>2 DEF BarrierInv, OnceInv
  <2>2. ASSUME NEW g \in Goroutines, NEW h \in Goroutines, PackageOf(g) = PackageOf(h),
               pc[g] \in Building, pc[h] \in Building
        PROVE  g = h
    BY <2>2 DEF BarrierInv, OnceInv
  <2> QED BY <2>1, <2>2 DEF BuildIsBarrier, Building
<1> QED BY <1>1, BarrierCorrect, PTL

(***************************************************************************)
(* The type invariant; in it, the WaitGroup counter of Program.Build never *)
(* goes below zero, where wg.Done would panic.                             *)
(***************************************************************************)
THEOREM TypeCorrect == Spec => []TypeOK
<1>1. TablesInv /\ BarrierInv => TypeOK
  <2> SUFFICES ASSUME TablesInv, BarrierInv PROVE TypeOK
    OBVIOUS
  <2>1. \A c \in Callers : wg[c] \in 0 .. Cardinality(Packages)
    <3> SUFFICES ASSUME NEW c \in Callers PROVE wg[c] \in 0 .. Cardinality(Packages)
      OBVIOUS
    <3>1. Running(c) \subseteq Packages BY DEF Running
    <3>2. /\ Cardinality(Running(c)) \in Nat /\ Cardinality(Packages) \in Nat
          /\ Cardinality(Running(c)) <= Cardinality(Packages)
      BY <3>1, FS_Subset, FS_CardinalityType, ConstantsAssumption
    <3> QED BY <3>2 DEF BarrierInv, WgInv
  <2>2. wg \in [Callers -> 0 .. Cardinality(Packages)] BY <2>1 DEF TablesInv, TypeInv
  <2> QED BY <2>2 DEF TablesInv, TypeInv, TypeOK, Keys
<1> QED BY <1>1, TablesCorrect, BarrierCorrect, PTL
-----------------------------------------------------------------------------
(* Needed is the least set with the roots that is closed under parts.      *)
LEMMA NeededIsClosed ==
  /\ Needed \subseteq Part
  /\ Roots \subseteq Needed
  /\ \A x \in Needed : \A i \in 1 .. Len(Parts[x[1]]) : Parts[x[1]][i] \in Needed
<1>1. \A x \in Part : x[1] \in Types BY DEF Part
<1>2. \A T \in Types : \A i \in 1 .. Len(Parts[T]) : Parts[T][i] \in Part
  <2> SUFFICES ASSUME NEW T \in Types, NEW i \in 1 .. Len(Parts[T]) PROVE Parts[T][i] \in Part
    OBVIOUS
  <2>1. Parts[T] \in Seq(Part) BY ConstantsAssumption
  <2> QED BY <2>1
<1>3. Roots \subseteq Part
  <2> SUFFICES ASSUME NEW x \in Roots PROVE x \in Part
    OBVIOUS
  <2>1. \A p \in Packages : Exported[p] \subseteq Types BY ConstantsAssumption
  <2>2. PICK T \in Types : x = <<T, FALSE>> BY <2>1 DEF Roots
  <2> QED BY <2>2 DEF Part
<1> QED BY <1>1, <1>2, <1>3 DEF Needed

LEMMA NeededIsLeast ==
  ASSUME NEW S \in SUBSET Part, Roots \subseteq S,
         \A y \in S : \A i \in 1 .. Len(Parts[y[1]]) : Parts[y[1]][i] \in S
  PROVE  Needed \subseteq S
BY DEF Needed

(* What a package asks for is a root.                                      *)
LEMMA RootFact ==
  ASSUME NEW p \in Packages \ NoInfo, NEW T \in Types,
         T \in Exported[p] \/ \E i \in 1 .. Len(Uses[p]) : Uses[p][i] = Need(T)
  PROVE  <<T, FALSE>> \in Needed
<1>1. <<T, FALSE>> \in Roots
  BY DEF Roots
<1> QED BY <1>1, NeededIsClosed

(* A request that is Need(T) is not NoRequest.                             *)
LEMMA NeedFact ==
  /\ \A T \in Types : Need(T) # NoRequest /\ Need(T).kind = "need" /\ Need(T).type = T
  /\ \A r \in Requests : r.kind = "need" => r = Need(r.type)
<1>1. \A T \in Types : Need(T) \in Requests BY DEF Requests
<1> QED BY <1>1, ConstantsAssumption DEF Need, Requests, Delegate, MethodValue, RuntimeTypes

-----------------------------------------------------------------------------
(* A part that is seen or ahead remains so: steps of Build neither touch   *)
(* the tables nor take a request back, ...                                 *)
LEMMA AheadBuild ==
  ASSUME TypeInv, MuInv, BuildStep
  PROVE  /\ \A x : Seen(x)' <=> Seen(x)
         /\ \A x : InLine(x)' <=> InLine(x)
         /\ \A x \in Part : Ahead(x) => Ahead(x)'
         /\ UNCHANGED <<lock, tables, answers>>
         /\ \A a \in Actors : request[a] # NoRequest => request'[a] = request[a]
<1>1. UNCHANGED <<lock, tables, answers>>
  BY DEF BuildStep, Spawn, Wait, Build, ClientCalls, BeginBuild, Built, NextMember, MembersDone, NextUse, CodeDone, FinishBuild
<1>2. \A a \in Actors : request[a] = NoRequest \/ request'[a] = request[a]
  <2>1. Callers \subseteq Actors /\ Goroutines \subseteq Actors BY DEF Actors
  <2>2. \/ UNCHANGED request
        \/ \E c \in Callers : request[c] = NoRequest /\ \E r : request' = [request EXCEPT ![c] = r]
        \/ \E g \in Goroutines : request[g] = NoRequest /\ \E r : request' = [request EXCEPT ![g] = r]
    BY DEF BuildStep, Spawn, Wait, Build, ClientCalls, BeginBuild, Built, NextMember, MembersDone, NextUse, CodeDone, FinishBuild
  <2> QED BY <2>1, <2>2 DEF TypeInv
<1>3. \A x : Seen(x)' <=> Seen(x)
  BY <1>1 DEF Seen, AlreadySeen, tables
<1>4. \A x : InLine(x)' <=> InLine(x)
  BY <1>1 DEF InLine, lock
<1>5. \A x \in Part : Ahead(x) => Ahead(x)'
  <2>2. \A a \in Actors : \A T \in Types : request[a] = Need(T) => request'[a] = Need(T)
    BY <1>2, NeedFact
  <2> QED BY <1>1, <1>3, <1>4, <2>2 DEF Ahead, lock
<1> QED BY <1>1, <1>2, <1>3, <1>4, <1>5

(* ... and answering a request takes it from one list to the next.         *)
LEMMA AheadWork ==
  ASSUME TypeInv, MuInv, PendingInv, NEW a \in Actors, Work(a)
  PROVE  /\ \A x \in Part : Seen(x) => Seen(x)'
         /\ \A x \in Part : InLine(x) => InLine(x)' \/ Seen(x)'
         /\ \A x \in Part : Ahead(x) => Ahead(x)'
<1> USE DEF tables
<1>1. CASE Lock(a)
  <2>1. UNCHANGED tables /\ UNCHANGED request BY <1>1 DEF Lock
  <2>2. pending[a] = <<>> BY <1>1 DEF Lock, PendingInv
  <2>3. \A b \in Actors \ {a} : pending'[b] = pending[b] /\ stage'[b] = stage[b]
    BY <1>1 DEF Lock, TypeInv
  <2>4. \A x : InLine(x) => InLine(x)'
    BY <2>2, <2>3 DEF InLine
  <2>5. ASSUME NEW T \in Types, request[a] = Need(T) PROVE InLine(<<T, FALSE>>)'
    <3>0. PICK x : x = <<T, FALSE>> OBVIOUS
    <3>1. pending'[a] = <<x>>
      BY <1>1, <2>5, <3>0, NeedFact DEF Lock, TypeInv
    <3>2. <<x>>[1] = x /\ Len(<<x>>) = 1 /\ 1 \in 1 .. 1 OBVIOUS
    <3>3. InLine(x)' BY <3>1, <3>2 DEF InLine
    <3> QED BY <3>0, <3>3 DEF InLine
  <2>7. \A x : Seen(x) => Seen(x)' BY <2>1 DEF Seen, AlreadySeen
  <2>8. \A x \in Part : Ahead(x) => Ahead(x)'
    BY <1>1, <2>1, <2>3, <2>4, <2>5, <2>7 DEF Ahead
  <2> QED BY <2>4, <2>7, <2>8
<1>2. CASE NeedMethods(a)
  <2>1. pending[a] \in Seq(Part) /\ pending[a] # <<>> BY <1>2 DEF NeedMethods, TypeInv
  <2>0. pending[a][1] \in Part BY <2>1
  <2>2. PICK rest \in Seq(Part) :
          /\ rest = Tail(pending[a]) /\ Len(rest) = Len(pending[a]) - 1
          /\ \A i \in 1 .. Len(pending[a]) : i = 1 \/ pending[a][i] = rest[i - 1]
    <3>1. Tail(pending[a]) \in Seq(Part) /\ Len(Tail(pending[a])) = Len(pending[a]) - 1 BY <2>1
    <3>2. ASSUME NEW i \in 1 .. Len(pending[a]), i # 1 PROVE pending[a][i] = Tail(pending[a])[i - 1]
      <4>1. Len(pending[a]) \in Nat BY <2>1
      <4>2. i - 1 \in 1 .. Len(Tail(pending[a])) /\ (i - 1) + 1 = i BY <3>1, <3>2, <4>1
      <4> QED BY <2>1, <4>2
    <3> QED BY <3>1, <3>2
  <2>3. PICK T \in Types, skip \in BOOLEAN :
          pending[a][1] = <<T, skip>> /\ pending[a][1][1] = T /\ pending[a][1][2] = skip
    BY <2>0 DEF Part
  <2>4. Parts[T] \in Seq(Part) BY <2>3, ConstantsAssumption
  <2>5. \A b \in Actors \ {a} : pending'[b] = pending[b]
    BY <1>2 DEF NeedMethods, TypeInv
  <2>6. \/ AlreadySeen(T, skip) /\ pending'[a] = rest /\ UNCHANGED runtimeTypes
        \/ /\ ~AlreadySeen(T, skip) /\ pending'[a] = Parts[T] \o rest
           /\ runtimeTypes' = [runtimeTypes EXCEPT ![T] = IF skip THEN "skip" ELSE "full"]
    BY <1>2, <2>2, <2>3 DEF NeedMethods, TypeInv
  <2>7. Seen(<<T, skip>>)'
    BY <2>3, <2>6 DEF Seen, AlreadySeen, TypeInv
  <2>8. ASSUME NEW x \in Part, Seen(x) PROVE Seen(x)'
    <3>1. x[1] \in Types /\ x[2] \in BOOLEAN BY DEF Part
    <3> QED BY <2>3, <2>6, <2>8, <3>1 DEF Seen, AlreadySeen, TypeInv
  <2>9. ASSUME NEW x \in Part, InLine(x) PROVE InLine(x)' \/ Seen(x)'
    <3>1. PICK b \in Actors : \E i \in 1 .. Len(pending[b]) : pending[b][i] = x
      BY <2>9 DEF InLine
    <3>2. PICK i \in 1 .. Len(pending[b]) : pending[b][i] = x BY <3>1
    <3>3. CASE b # a BY <2>5, <3>2, <3>3 DEF InLine
    <3>4. CASE b = a /\ i = 1 BY <2>3, <2>7, <3>2, <3>4
    <3>5. CASE b = a /\ i # 1
      <4>1. PICK k \in 1 .. Len(rest) : rest[k] = x
        <5>1. i - 1 \in 1 .. Len(rest) /\ rest[i - 1] = x
          BY <2>1, <2>2, <3>2, <3>5
        <5> QED BY <5>1
      <4>2. CASE pending'[a] = rest BY <4>1, <4>2 DEF InLine
      <4>3. CASE pending'[a] = Parts[T] \o rest
        <5>0. rest \in Seq(Part) BY <2>2
        <5>1. Len(Parts[T]) \in Nat /\ Len(rest) \in Nat BY <2>4, <5>0
        <5>2. PICK j \in Nat : j = Len(Parts[T]) + k BY <5>1
        <5>3. Len(pending'[a]) = Len(Parts[T]) + Len(rest) /\ pending'[a][j] = rest[k]
          BY <2>4, <4>1, <4>3, <5>1, <5>2
        <5>4. j \in 1 .. Len(pending'[a]) BY <4>1, <5>1, <5>2, <5>3
        <5> QED BY <4>1, <5>3, <5>4 DEF InLine
      <4> QED BY <2>6, <4>2, <4>3
    <3> QED BY <3>3, <3>4, <3>5
  <2>10. UNCHANGED <<stage, request>> BY <1>2 DEF NeedMethods
  <2> QED BY <2>8, <2>9, <2>10 DEF Ahead
<1>3. ASSUME UNCHANGED <<runtimeTypes, pending>>, stage[a] # "idle",
             \A b \in Actors \ {a} : stage'[b] = stage[b] /\ request'[b] = request[b]
      PROVE  /\ \A x \in Part : Seen(x) => Seen(x)'
             /\ \A x \in Part : InLine(x) => InLine(x)' \/ Seen(x)'
             /\ \A x \in Part : Ahead(x) => Ahead(x)'
  <2>1. \A x \in Part : Seen(x) => Seen(x)' BY <1>3 DEF Seen, AlreadySeen
  <2>2. \A x \in Part : InLine(x) => InLine(x)' BY <1>3 DEF InLine
  <2>3. \A x \in Part : Ahead(x) => Ahead(x)' BY <1>3, <2>1, <2>2 DEF Ahead
  <2> QED BY <2>1, <2>2, <2>3
<1>4. CASE NeedMethodsDone(a)
  BY <1>3, <1>4 DEF NeedMethodsDone, Unlock, Asks, TypeInv
<1>5. CASE LookUp(a)
  BY <1>3, <1>5 DEF LookUp, Unlock, Asks, TypeInv
<1>6. CASE MakeDelegate(a)
  BY <1>3, <1>6 DEF MakeDelegate, Unlock, Asks, TypeInv
<1>7. CASE MakeMethod(a)
  BY <1>3, <1>7 DEF MakeMethod, Unlock, Asks, TypeInv
<1>8. CASE GetRuntimeTypes(a)
  BY <1>3, <1>8 DEF GetRuntimeTypes, Unlock, Asks, TypeInv
<1> QED BY <1>1, <1>2, <1>4, <1>5, <1>6, <1>7, <1>8 DEF Work

-----------------------------------------------------------------------------
(* A step of Build.  The package that it is about goes on, ...             *)
LEMMA AskBuild ==
  ASSUME TypeInv, OnceInv, AskInv, ProgressInv, BuildStep
  PROVE  AskInv'
<1> USE Names DEF Goto
<1>1. ASSUME NEW c \in Callers, NEW p \in Packages, Spawn(c, p) PROVE AskInv'
  BY <1>1 DEF Spawn, AskInv, TypeInv
<1>2. ASSUME NEW c \in Callers, Wait(c) PROVE AskInv'
  BY <1>2 DEF Wait, AskInv, TypeInv
<1>3. ASSUME NEW c \in Callers, ClientCalls(c) PROVE AskInv'
  <2>1. RuntimeTypes.kind = "types" /\ \A T \in Types : \A m \in MethodsOf[T] : MethodValue(T, m).kind = "value"
    BY DEF RuntimeTypes, MethodValue
  <2>2. PICK r : request' = [request EXCEPT ![c] = r] /\ r.kind \in {"types", "value"}
    BY <1>3, <2>1 DEF ClientCalls
  <2>3. \A a \in Actors : request'[a] = IF a = c THEN r ELSE request[a]
    BY <2>2 DEF TypeInv
  <2>4. UNCHANGED pc /\ pc[c] = "client" BY <1>3 DEF ClientCalls
  <2>5. ASSUME NEW d \in Callers, request'[d] # NoRequest
        PROVE  pc'[d] = "client" /\ request'[d].kind \in {"types", "value"}
    <3>1. CASE d = c BY <2>2, <2>3, <2>4, <3>1
    <3>2. CASE d # c BY <2>3, <2>4, <2>5, <3>2 DEF AskInv
    <3> QED BY <3>1, <3>2
  <2>6. \A g \in Goroutines : request'[g] = request[g]
    BY <2>3
  <2> QED BY <2>4, <2>5, <2>6 DEF AskInv
<1>4. ASSUME NEW g \in Goroutines, BeginBuild(g) PROVE AskInv'
  BY <1>4 DEF BeginBuild, AskInv, TypeInv
<1>5. ASSUME NEW g \in Goroutines, Built(g) PROVE AskInv'
  BY <1>5 DEF Built, AskInv, TypeInv
<1>6. ASSUME NEW g \in Goroutines, NEW T \in Types, NextMember(g, T) PROVE AskInv'
  <2>1. <<T, FALSE>> \in Needed
    BY <1>6, RootFact DEF NextMember, ProgressInv
  <2>2. request' = [request EXCEPT ![g] = Need(T)] /\ UNCHANGED pc /\ pc[g] = "members"
    BY <1>6 DEF NextMember
  <2>3. \A a \in Actors : request'[a] = IF a = g THEN Need(T) ELSE request[a]
    BY <2>2 DEF TypeInv
  <2>4. PICK r : r = Need(T) /\ r.kind = "need" /\ r.type = T BY NeedFact
  <2>5. \A c \in Callers : request'[c] = request[c]
    BY <2>3
  <2>6. ASSUME NEW h \in Goroutines, request'[h] # NoRequest
        PROVE  /\ pc'[h] \in {"members", "code"} /\ request'[h].kind # "types"
               /\ request'[h].kind = "need" => <<request'[h].type, FALSE>> \in Needed
    <3>1. CASE h = g
      <4>1. request'[h] = r /\ pc'[h] = "members" BY <2>2, <2>3, <2>4, <3>1
      <4>2. <<r.type, FALSE>> \in Needed BY <2>1, <2>4
      <4>3. r.kind # "types" BY <2>4
      <4> QED BY <4>1, <4>2, <4>3
    <3>2. CASE h # g
      <4>1. request'[h] = request[h] /\ pc'[h] = pc[h] BY <2>2, <2>3, <3>2
      <4>2. /\ pc[h] \in {"members", "code"} /\ request[h].kind # "types"
            /\ request[h].kind = "need" => <<request[h].type, FALSE>> \in Needed
        BY <2>6, <4>1 DEF AskInv
      <4> QED BY <4>1, <4>2
    <3> QED BY <3>1, <3>2
  <2> QED BY <2>2, <2>5, <2>6 DEF AskInv
<1>7. ASSUME NEW g \in Goroutines, MembersDone(g) PROVE AskInv'
  BY <1>7 DEF MembersDone, AskInv, TypeInv
<1>8. ASSUME NEW g \in Goroutines, NextUse(g) PROVE AskInv'
  <2> DEFINE p == PackageOf(g)
  <2>1. p \in Packages \ NoInfo BY <1>8 DEF NextUse, ProgressInv
  <2>2. Uses[p] \in Seq(Requests \ {RuntimeTypes}) BY <2>1, ConstantsAssumption
  <2>3. uses[p] + 1 \in 1 .. Len(Uses[p]) BY <1>8, <2>1, <2>2 DEF NextUse, TypeInv
  <2>4. PICK r \in Requests \ {RuntimeTypes} : r = Uses[p][uses[p] + 1] BY <2>2, <2>3
  <2>5. r.kind # "types"
    BY DEF Requests, Need, Delegate, MethodValue, RuntimeTypes
  <2>6. r.kind = "need" => <<r.type, FALSE>> \in Needed
    <3> SUFFICES ASSUME r.kind = "need" PROVE <<r.type, FALSE>> \in Needed
      OBVIOUS
    <3>1. r.type \in Types /\ r = Need(r.type) BY RequestShape, NeedFact
    <3> QED BY <2>1, <2>3, <2>4, <3>1, RootFact
  <2>7. request' = [request EXCEPT ![g] = r] /\ UNCHANGED pc /\ pc[g] = "code"
    BY <1>8, <2>4 DEF NextUse
  <2> QED BY <2>5, <2>6, <2>7 DEF AskInv, TypeInv
<1>9. ASSUME NEW g \in Goroutines, CodeDone(g) PROVE AskInv'
  BY <1>9 DEF CodeDone, AskInv, TypeInv
<1>10. ASSUME NEW g \in Goroutines, FinishBuild(g) PROVE AskInv'
  BY <1>10 DEF FinishBuild, AskInv, TypeInv
<1> QED BY <1>1, <1>2, <1>3, <1>4, <1>5, <1>6, <1>7, <1>8, <1>9, <1>10 DEF BuildStep, Build

(* ... alone in building it, ...                                           *)
LEMMA ProgressBuild ==
  ASSUME TypeInv, OnceInv, ProgressInv, BuildStep
  PROVE  ProgressInv'
<1> USE Names DEF Goto, Building
<1>1. ASSUME NEW c \in Callers, NEW p \in Packages, Spawn(c, p) PROVE ProgressInv'
  BY <1>1 DEF Spawn, ProgressInv, TypeInv
<1>2. ASSUME NEW c \in Callers, Wait(c) PROVE ProgressInv'
  BY <1>2 DEF Wait, ProgressInv, TypeInv
<1>3. ASSUME NEW c \in Callers, ClientCalls(c) PROVE ProgressInv'
  BY <1>3 DEF ClientCalls, ProgressInv
<1>4. ASSUME NEW g \in Goroutines, BeginBuild(g) PROVE ProgressInv'
  <2>1. \A h \in Goroutines : PackageOf(h) = PackageOf(g) => pc[h] \notin Building
    BY <1>4 DEF BeginBuild, OnceInv
  <2> QED BY <1>4, <2>1 DEF BeginBuild, ProgressInv, TypeInv
<1>5. ASSUME NEW g \in Goroutines, Built(g) PROVE ProgressInv'
  BY <1>5 DEF Built, ProgressInv, TypeInv
<1>6. ASSUME NEW g \in Goroutines, NEW T \in Types, NextMember(g, T) PROVE ProgressInv'
  <2>1. once[PackageOf(g)] = "running" BY <1>6 DEF NextMember, OnceInv
  <2> QED BY <1>6, <2>1 DEF NextMember, ProgressInv, TypeInv
<1>7. ASSUME NEW g \in Goroutines, MembersDone(g) PROVE ProgressInv'
  BY <1>7 DEF MembersDone, ProgressInv, TypeInv
<1>8. ASSUME NEW g \in Goroutines, NextUse(g) PROVE ProgressInv'
  <2>1. once[PackageOf(g)] = "running" BY <1>8 DEF NextUse, OnceInv
  <2>2. \A h \in Goroutines : PackageOf(h) = PackageOf(g) => pc[h] # "finish"
    BY <1>8 DEF NextUse, OnceInv
  <2> QED BY <1>8, <2>1, <2>2 DEF NextUse, ProgressInv, TypeInv
<1>9. ASSUME NEW g \in Goroutines, CodeDone(g) PROVE ProgressInv'
  BY <1>9 DEF CodeDone, ProgressInv, TypeInv
<1>10. ASSUME NEW g \in Goroutines, FinishBuild(g) PROVE ProgressInv'
  BY <1>10 DEF FinishBuild, ProgressInv, TypeInv
<1> QED BY <1>1, <1>2, <1>3, <1>4, <1>5, <1>6, <1>7, <1>8, <1>9, <1>10 DEF BuildStep, Build

(* ... and forgets nothing.                                                *)
LEMMA RootsBuild ==
  ASSUME TypeInv, MuInv, OnceInv, RootsInv, BuildStep
  PROVE  RootsInv'
<1> USE Names DEF Goto
<1>0. \A T \in Types : Ahead(<<T, FALSE>>) => Ahead(<<T, FALSE>>)'
  BY AheadBuild DEF Part
<1>1. ASSUME UNCHANGED <<once, members, uses>> PROVE RootsInv'
  BY <1>0, <1>1 DEF RootsInv
<1>2. ASSUME NEW g \in Goroutines, BeginBuild(g) PROVE RootsInv'
  <2>1. \A p \in Packages \ NoInfo :
          /\ uses'[p] = uses[p]
          /\ once'[p] # "new" => \/ once[p] # "new" /\ members'[p] = members[p]
                                 \/ members'[p] = Exported[p]
    BY <1>2 DEF BeginBuild, TypeInv
  <2> QED BY <1>0, <2>1 DEF RootsInv
<1>3. ASSUME NEW g \in Goroutines, NEW T \in Types, NextMember(g, T) PROVE RootsInv'
  <2>1. Ahead(<<T, FALSE>>)'
    <3>1. request'[g] = Need(T) /\ stage'[g] = "idle"
      BY <1>3 DEF NextMember, MuInv, TypeInv, lock
    <3> QED BY <3>1 DEF Ahead
  <2>2. \A p \in Packages : /\ uses'[p] = uses[p] /\ once'[p] = once[p]
                            /\ members[p] \subseteq members'[p] \cup {T}
    BY <1>3 DEF NextMember, TypeInv
  <2>3. ASSUME NEW p \in Packages \ NoInfo, NEW U \in Types, once'[p] # "new", U \in Exported[p]
        PROVE  U \in members'[p] \/ Ahead(<<U, FALSE>>)'
    <3>1. U \in members[p] \/ Ahead(<<U, FALSE>>) BY <2>2, <2>3 DEF RootsInv
    <3>2. CASE U = T BY <2>1, <3>2
    <3> QED BY <1>0, <2>2, <3>1, <3>2
  <2>4. \A p \in Packages \ NoInfo : \A U \in Types : \A i \in 1 .. uses'[p] :
          Uses[p][i] = Need(U) => Ahead(<<U, FALSE>>)'
    BY <1>0, <2>2 DEF RootsInv
  <2> QED BY <2>3, <2>4 DEF RootsInv
<1>4. ASSUME NEW g \in Goroutines, NextUse(g) PROVE RootsInv'
  <2> DEFINE p == PackageOf(g)
  <2>1. UNCHANGED <<once, members>> /\ uses[p] \in Nat /\ p \in Packages BY <1>4 DEF NextUse, TypeInv
  <2>2. \A q \in Packages : uses'[q] = IF q = p THEN uses[q] + 1 ELSE uses[q]
    BY <1>4 DEF NextUse, TypeInv
  <2>3. ASSUME NEW T \in Types, Uses[p][uses[p] + 1] = Need(T) PROVE Ahead(<<T, FALSE>>)'
    <3>1. request'[g] = Need(T) /\ stage'[g] = "idle"
      BY <1>4, <2>3 DEF NextUse, MuInv, TypeInv, lock
    <3> QED BY <3>1 DEF Ahead
  <2>4. ASSUME NEW q \in Packages \ NoInfo, NEW T \in Types, NEW i \in 1 .. uses'[q], Uses[q][i] = Need(T)
        PROVE  Ahead(<<T, FALSE>>)'
    <3>1. CASE i \in 1 .. uses[q] BY <1>0, <2>4, <3>1 DEF RootsInv
    <3>2. CASE q = p /\ i = uses[p] + 1 BY <2>3, <2>4, <3>2
    <3> QED BY <2>1, <2>2, <3>1, <3>2
  <2>5. \A q \in Packages \ NoInfo : \A T \in Types :
          once'[q] # "new" /\ T \in Exported[q] => T \in members'[q] \/ Ahead(<<T, FALSE>>)'
    BY <1>0, <2>1 DEF RootsInv
  <2> QED BY <2>4, <2>5 DEF RootsInv
<1>5. ASSUME NEW g \in Goroutines, FinishBuild(g) PROVE RootsInv'
  <2>1. once[PackageOf(g)] = "running" BY <1>5 DEF FinishBuild, OnceInv, Building
  <2>2. UNCHANGED <<members, uses>> /\ \A p \in Packages : once'[p] # "new" => once[p] # "new"
    BY <1>5, <2>1 DEF FinishBuild, TypeInv
  <2> QED BY <1>0, <2>2 DEF RootsInv
<1>6. ASSUME NEW g \in Goroutines, Build(g) PROVE RootsInv'
  <2>1. CASE Built(g) \/ MembersDone(g) \/ CodeDone(g)
    BY <1>1, <2>1 DEF Built, MembersDone, CodeDone
  <2> QED BY <1>2, <1>3, <1>4, <1>5, <1>6, <2>1 DEF Build
<1>7. ASSUME NEW c \in Callers, (\E p \in Packages : Spawn(c, p)) \/ Wait(c) \/ ClientCalls(c) PROVE RootsInv'
  BY <1>1, <1>7 DEF Spawn, Wait, ClientCalls
<1> QED BY <1>6, <1>7 DEF BuildStep

(* The rest depends on the tables and on the requests being answered.      *)
LEMMA RuntimeBuild ==
  ASSUME TypeInv, MuInv, OnceInv, RuntimeInv, BuildStep
  PROVE  RuntimeInv'
<1>1. AskInv' /\ ProgressInv' /\ RootsInv'
  BY AskBuild, ProgressBuild, RootsBuild DEF RuntimeInv
<1>2. UNCHANGED <<mu, stage, pending, runtimeTypes, complete, answers>>
  BY AheadBuild DEF lock, tables
<1>3. \A a \in Actors : stage[a] # "idle" => request'[a] = request[a]
  BY AheadBuild DEF MuInv
<1>4. PendingInv'
  BY <1>2, <1>3 DEF PendingInv, RuntimeInv
<1>5. SeenInv'
  BY <1>2, AheadBuild DEF SeenInv, RuntimeInv
<1>6. CompleteInv' /\ RuntimeTypesExact'
  BY <1>2 DEF CompleteInv, RuntimeTypesExact, RuntimeInv, NeedsMethods
<1> QED BY <1>1, <1>4, <1>5, <1>6 DEF RuntimeInv

-----------------------------------------------------------------------------
(* Answering a request.  First what needMethods does to the parts in line. *)
LEMMA NeedMethodsStep ==
  ASSUME TypeInv, MuInv, RuntimeInv, NEW a \in Actors, NeedMethods(a)
  PROVE  PendingInv' /\ SeenInv' /\ CompleteInv'
<1> USE DEF tables
<1>1. pending[a] \in Seq(Part) /\ pending[a] # <<>> BY DEF NeedMethods, TypeInv
<1>2. pending[a][1] \in Part /\ 1 \in 1 .. Len(pending[a]) BY <1>1
<1>3. PICK T \in Types, skip \in BOOLEAN :
        pending[a][1] = <<T, skip>> /\ pending[a][1][1] = T /\ pending[a][1][2] = skip
  BY <1>2 DEF Part
<1>4. <<T, skip>> \in Needed BY <1>2, <1>3 DEF RuntimeInv, PendingInv
<1>5. Parts[T] \in Seq(Part) BY ConstantsAssumption
<1>6. /\ Tail(pending[a]) \in Seq(Part)
      /\ \A i \in 1 .. Len(Tail(pending[a])) : Tail(pending[a])[i] \in Needed
  <2>1. /\ Tail(pending[a]) \in Seq(Part) /\ Len(Tail(pending[a])) = Len(pending[a]) - 1 /\ Len(pending[a]) \in Nat
        /\ \A i \in 1 .. Len(Tail(pending[a])) : Tail(pending[a])[i] = pending[a][i + 1]
    BY <1>1
  <2>2. ASSUME NEW i \in 1 .. Len(Tail(pending[a])) PROVE Tail(pending[a])[i] \in Needed
    <3>1. i + 1 \in 1 .. Len(pending[a]) BY <2>1
    <3> QED BY <2>1, <3>1 DEF RuntimeInv, PendingInv
  <2> QED BY <2>1, <2>2
<1>7. PICK rest \in Seq(Part) : rest = Tail(pending[a]) /\ \A i \in 1 .. Len(rest) : rest[i] \in Needed
  BY <1>6
<1>8. \A i \in 1 .. Len(Parts[T]) : Parts[T][i] \in Needed
  <2>1. PICK x \in Needed : x[1] = T BY <1>3, <1>4
  <2> QED BY <2>1, NeededIsClosed
<1>9. /\ UNCHANGED <<stage, request>> /\ stage[a] = "held"
      /\ \A b \in Actors \ {a} : pending'[b] = pending[b]
  BY DEF NeedMethods, TypeInv
<1>10. request[a].kind = "need" BY <1>1 DEF RuntimeInv, PendingInv
<1>11. ASSUME \A i \in 1 .. Len(pending'[a]) : pending'[a][i] \in Needed PROVE PendingInv'
  BY <1>9, <1>10, <1>11 DEF RuntimeInv, PendingInv
<1>12. \A x \in Part : (Seen(x) => Seen(x)') /\ (InLine(x) => InLine(x)' \/ Seen(x)')
  BY AheadWork DEF RuntimeInv, Work
<1>13. ASSUME NEW U \in Types, runtimeTypes[U] # "unseen"
       PROVE  \A i \in 1 .. Len(Parts[U]) : Seen(Parts[U][i])' \/ InLine(Parts[U][i])'
  <2> SUFFICES ASSUME NEW i \in 1 .. Len(Parts[U]) PROVE Seen(Parts[U][i])' \/ InLine(Parts[U][i])'
    OBVIOUS
  <2>1. Parts[U] \in Seq(Part) BY ConstantsAssumption
  <2>2. PICK x \in Part : x = Parts[U][i] BY <2>1
  <2>3. Seen(x) \/ InLine(x) BY <1>13, <2>2 DEF RuntimeInv, SeenInv
  <2>4. Seen(x)' \/ InLine(x)' BY <1>12, <2>3
  <2> QED BY <2>2, <2>4 DEF Seen, InLine
<1>14. CASE AlreadySeen(T, skip) /\ pending' = [pending EXCEPT ![a] = rest] /\ UNCHANGED tables
  <2>1. pending'[a] = rest BY <1>14 DEF TypeInv
  <2>2. PendingInv' BY <1>7, <1>11, <2>1
  <2>3. SeenInv' BY <1>13, <1>14 DEF RuntimeInv, SeenInv
  <2>4. CompleteInv' BY <1>14 DEF RuntimeInv, CompleteInv
  <2> QED BY <2>2, <2>3, <2>4
<1>15. CASE /\ ~AlreadySeen(T, skip)
            /\ runtimeTypes' = [runtimeTypes EXCEPT ![T] = IF skip THEN "skip" ELSE "full"]
            /\ pending' = [pending EXCEPT ![a] = Parts[T] \o rest]
  <2>1. pending'[a] = Parts[T] \o rest BY <1>15 DEF TypeInv
  <2>2. /\ Len(Parts[T]) \in Nat /\ Len(rest) \in Nat
        /\ Len(Parts[T] \o rest) = Len(Parts[T]) + Len(rest)
        /\ \A i \in 1 .. Len(Parts[T]) : (Parts[T] \o rest)[i] = Parts[T][i]
    BY <1>5
  <2>3. \A i \in 1 .. Len(Parts[T] \o rest) : (Parts[T] \o rest)[i] \in Needed
    <3> SUFFICES ASSUME NEW i \in 1 .. Len(Parts[T] \o rest) PROVE (Parts[T] \o rest)[i] \in Needed
      OBVIOUS
    <3>1. CASE i <= Len(Parts[T]) BY <1>8, <2>2, <3>1
    <3>2. CASE i > Len(Parts[T])
      <4>1. i - Len(Parts[T]) \in 1 .. Len(rest) BY <2>2, <3>2
      <4>2. (Parts[T] \o rest)[i] = rest[i - Len(Parts[T])] BY <1>5, <2>2, <3>2
      <4> QED BY <1>7, <4>1, <4>2
    <3> QED BY <2>2, <3>1, <3>2
  <2>4. PendingInv' BY <1>11, <2>1, <2>3
  <2>5. \A U \in Types : runtimeTypes'[U] = IF U = T THEN IF skip THEN "skip" ELSE "full" ELSE runtimeTypes[U]
    BY <1>15 DEF TypeInv
  <2>6. ASSUME NEW i \in 1 .. Len(Parts[T]) PROVE InLine(Parts[T][i])'
    <3>1. PICK x : x = Parts[T][i] OBVIOUS
    <3>2. i \in 1 .. Len(pending'[a]) /\ pending'[a][i] = x BY <2>1, <2>2, <3>1
    <3>3. InLine(x)' BY <3>2 DEF InLine
    <3> QED BY <3>1, <3>3 DEF InLine
  <2>7. SeenInv'
    <3>1. ASSUME NEW U \in Types, runtimeTypes'[U] = "full" PROVE <<U, FALSE>> \in Needed
      <4>1. CASE U # T BY <2>5, <3>1, <4>1 DEF RuntimeInv, SeenInv
      <4>2. CASE U = T
        <5>1. skip = FALSE BY <2>5, <3>1, <4>2
        <5> QED BY <1>4, <4>2, <5>1
      <4> QED BY <4>1, <4>2
    <3>2. ASSUME NEW U \in Types, runtimeTypes'[U] # "unseen"
          PROVE  <<U, FALSE>> \in Needed \/ <<U, TRUE>> \in Needed
      <4>1. CASE U # T BY <2>5, <3>2, <4>1 DEF RuntimeInv, SeenInv
      <4>2. CASE U = T BY <1>4, <4>2
      <4> QED BY <4>1, <4>2
    <3>3. ASSUME NEW U \in Types, runtimeTypes'[U] # "unseen"
          PROVE  \A i \in 1 .. Len(Parts[U]) : Seen(Parts[U][i])' \/ InLine(Parts[U][i])'
      <4>1. CASE U # T BY <1>13, <2>5, <3>3, <4>1
      <4>2. CASE U = T BY <2>6, <4>2
      <4> QED BY <4>1, <4>2
    <3> QED BY <3>1, <3>2, <3>3 DEF SeenInv
  <2>8. CompleteInv'
    <3>1. \/ /\ ~skip /\ T \notin Interfaces /\ MethodsOf[T] # {} /\ T \notin complete
             /\ complete' = complete \cup {T}
          \/ /\ skip \/ T \in Interfaces \/ MethodsOf[T] = {} \/ T \in complete
             /\ UNCHANGED complete
      BY <1>3, <1>15 DEF NeedMethods
    <3>2. runtimeTypes[T] # "full" BY <1>15 DEF AlreadySeen
    <3>3. complete = {U \in Types : runtimeTypes[U] = "full" /\ U \notin Interfaces /\ MethodsOf[U] # {}}
      BY DEF RuntimeInv, CompleteInv
    <3>4. complete' = {U \in Types : runtimeTypes'[U] = "full" /\ U \notin Interfaces /\ MethodsOf[U] # {}}
      BY <2>5, <3>1, <3>2, <3>3
    <3> QED BY <3>4 DEF CompleteInv
  <2> QED BY <2>4, <2>7, <2>8
<1> QED BY <1>3, <1>7, <1>14, <1>15 DEF NeedMethods

(* When a client asks, every package is built, nothing is in line, and so  *)
(* what has been seen is what is needed.                                   *)
LEMMA AnswerIsExact ==
  ASSUME TypeInv, MuInv, BarrierInv, RuntimeInv, NEW c \in Callers, pc[c] = "client"
  PROVE  complete = {T \in Types : NeedsMethods(T)}
<1>1. \A p \in Packages : once[p] = "done"
  <2> SUFFICES ASSUME NEW p \in Packages PROVE once[p] = "done"
    OBVIOUS
  <2>1. pc[<<c, p>>] = "done" BY DEF BarrierInv, ClientInv
  <2>2. <<c, p>> \in Goroutines /\ PackageOf(<<c, p>>) = p BY Names
  <2> QED BY <2>1, <2>2 DEF BarrierInv, OnceInv
<1>2. \A g \in Goroutines : request[g] = NoRequest
  BY <1>1, Names DEF BarrierInv, OnceInv, Building, RuntimeInv, AskInv
<1>3. \A a \in Actors : request[a] = NoRequest \/ request[a].kind # "need"
  BY <1>2 DEF RuntimeInv, AskInv, Actors
<1>4. \A a \in Actors : pending[a] = <<>>
  BY <1>3 DEF RuntimeInv, PendingInv, MuInv
<1>5. \A x : ~InLine(x)
  BY <1>4 DEF InLine
<1>6. \A x \in Part : Ahead(x) => Seen(x)
  BY <1>3, <1>5, NeedFact DEF Ahead
<1> DEFINE S == {x \in Part : Seen(x)}
<1>7. Roots \subseteq S
  <2> SUFFICES ASSUME NEW x \in Roots PROVE x \in S
    OBVIOUS
  <2>1. PICK T \in Types, p \in Packages \ NoInfo :
          /\ x = <<T, FALSE>>
          /\ T \in Exported[p] \/ \E i \in 1 .. Len(Uses[p]) : Uses[p][i] = Need(T)
    <3>1. \A p \in Packages : Exported[p] \subseteq Types BY ConstantsAssumption
    <3>2. \/ \E T \in UNION {Exported[p] : p \in Packages \ NoInfo} : x = <<T, FALSE>>
          \/ \E T \in {U \in Types : \E p \in Packages \ NoInfo :
                           \E i \in 1 .. Len(Uses[p]) : Uses[p][i] = Need(U)} : x = <<T, FALSE>>
      BY DEF Roots
    <3>3. CASE \E T \in UNION {Exported[p] : p \in Packages \ NoInfo} : x = <<T, FALSE>>
      BY <3>1, <3>3
    <3>4. CASE \E T \in {U \in Types : \E p \in Packages \ NoInfo :
                           \E i \in 1 .. Len(Uses[p]) : Uses[p][i] = Need(U)} : x = <<T, FALSE>>
      BY <3>4
    <3> QED BY <3>2, <3>3, <3>4
  <2>2. members[p] = {} /\ uses[p] = Len(Uses[p]) BY <1>1 DEF RuntimeInv, ProgressInv
  <2>3. Ahead(<<T, FALSE>>) BY <1>1, <2>1, <2>2 DEF RuntimeInv, RootsInv
  <2>4. <<T, FALSE>> \in Part BY DEF Part
  <2> QED BY <1>6, <2>1, <2>3, <2>4
<1>8. \A y \in S : \A i \in 1 .. Len(Parts[y[1]]) : Parts[y[1]][i] \in S
  <2> SUFFICES ASSUME NEW y \in Part, Seen(y), NEW i \in 1 .. Len(Parts[y[1]])
               PROVE  Parts[y[1]][i] \in S
    OBVIOUS
  <2>1. y[1] \in Types BY DEF Part
  <2>2. Parts[y[1]] \in Seq(Part) BY <2>1, ConstantsAssumption
  <2>3. runtimeTypes[y[1]] # "unseen" BY DEF Seen, AlreadySeen
  <2>4. Seen(Parts[y[1]][i]) BY <1>5, <2>1, <2>3 DEF RuntimeInv, SeenInv
  <2> QED BY <2>2, <2>4
<1> HIDE DEF S
<1>9. Needed \subseteq S
  <2>1. S \in SUBSET Part BY DEF S
  <2> QED BY <1>7, <1>8, <2>1, NeededIsLeast
<1>10. \A T \in Types : <<T, FALSE>> \in Needed <=> runtimeTypes[T] = "full"
  <2>1. ASSUME NEW T \in Types, <<T, FALSE>> \in Needed PROVE runtimeTypes[T] = "full"
    <3>1. Seen(<<T, FALSE>>) BY <1>9, <2>1 DEF S
    <3> QED BY <3>1 DEF Seen, AlreadySeen
  <2> QED BY <2>1 DEF RuntimeInv, SeenInv
<1> QED BY <1>10 DEF RuntimeInv, CompleteInv, NeedsMethods

LEMMA RuntimeWork ==
  ASSUME TypeInv, MuInv, BarrierInv, RuntimeInv, NEW a \in Actors, Work(a)
  PROVE  RuntimeInv'
<1> USE DEF tables
<1>0. request[a] \in Requests
  <2>1. request[a] # NoRequest
    BY DEF Work, Lock, NeedMethods, NeedMethodsDone, LookUp, MakeDelegate, MakeMethod, GetRuntimeTypes, Asks, MuInv
  <2> QED BY <2>1 DEF TypeInv
<1>1. UNCHANGED <<pc, once, members, uses>>
  BY DEF Work, Lock, NeedMethods, NeedMethodsDone, LookUp, MakeDelegate, MakeMethod, GetRuntimeTypes
<1>2. UNCHANGED request \/ request' = [request EXCEPT ![a] = NoRequest]
  BY DEF Work, Lock, NeedMethods, NeedMethodsDone, LookUp, MakeDelegate, MakeMethod, GetRuntimeTypes, Unlock
<1>3. AskInv'
  <2>1. \A b \in Actors : request'[b] = request[b] \/ request'[b] = NoRequest
    BY <1>2 DEF TypeInv
  <2> QED BY <1>1, <2>1, Names DEF RuntimeInv, AskInv
<1>4. ProgressInv' BY <1>1 DEF RuntimeInv, ProgressInv
<1>5. RootsInv'
  <2>1. \A T \in Types : Ahead(<<T, FALSE>>) => Ahead(<<T, FALSE>>)'
    BY AheadWork DEF Part, RuntimeInv
  <2> QED BY <1>1, <2>1 DEF RuntimeInv, RootsInv
<1>6. PendingInv' /\ SeenInv' /\ CompleteInv'
  <2>1. CASE NeedMethods(a) BY <2>1, NeedMethodsStep
  <2>2. ASSUME UNCHANGED <<runtimeTypes, complete, pending>> PROVE SeenInv' /\ CompleteInv'
    <3>1. \A x : (Seen(x)' <=> Seen(x)) /\ (InLine(x)' <=> InLine(x))
      BY <2>2 DEF Seen, AlreadySeen, InLine
    <3> QED BY <2>2, <3>1 DEF RuntimeInv, SeenInv, CompleteInv
  <2>3. ASSUME UNCHANGED pending, pending[a] = <<>>,
               \A b \in Actors \ {a} : stage'[b] = stage[b] /\ request'[b] = request[b]
        PROVE  PendingInv'
    BY <2>3 DEF RuntimeInv, PendingInv
  <2>4. CASE Lock(a)
    <3>1. /\ UNCHANGED <<runtimeTypes, complete, request>> /\ pending[a] = <<>> /\ stage'[a] = "held"
          /\ \A b \in Actors \ {a} : pending'[b] = pending[b] /\ stage'[b] = stage[b]
      BY <2>4 DEF Lock, TypeInv, RuntimeInv, PendingInv
    <3>2. \A x \in Part : (Seen(x) => Seen(x)') /\ (InLine(x) => InLine(x)' \/ Seen(x)')
      BY AheadWork DEF RuntimeInv
    <3>3. ASSUME request[a].kind = "need" PROVE PendingInv'
      <4>1. PICK T \in Types : request[a].type = T /\ request[a] = Need(T)
        BY <1>0, <3>3, RequestShape, NeedFact
      <4>2. <<T, FALSE>> \in Needed
        BY <1>0, <3>3, <4>1, ConstantsAssumption DEF RuntimeInv, AskInv, Actors
      <4>3. PICK x \in Needed : x = <<T, FALSE>> BY <4>2
      <4>4. pending'[a] = <<x>> BY <2>4, <3>3, <4>1, <4>3 DEF Lock, TypeInv
      <4>5. \A i \in 1 .. Len(pending'[a]) : pending'[a][i] \in Needed BY <4>4
      <4> QED BY <3>1, <3>3, <4>5 DEF RuntimeInv, PendingInv
    <3>4. ASSUME request[a].kind # "need" PROVE PendingInv'
      <4>1. pending'[a] = <<>> BY <2>4, <3>4 DEF Lock, TypeInv
      <4> QED BY <3>1, <4>1 DEF RuntimeInv, PendingInv
    <3>5. SeenInv'
      <4>1. ASSUME NEW U \in Types, runtimeTypes[U] # "unseen", NEW i \in 1 .. Len(Parts[U])
            PROVE  Seen(Parts[U][i])' \/ InLine(Parts[U][i])'
        <5>1. Parts[U] \in Seq(Part) BY ConstantsAssumption
        <5>2. PICK x \in Part : x = Parts[U][i] BY <5>1
        <5>3. Seen(x) \/ InLine(x) BY <4>1, <5>2 DEF RuntimeInv, SeenInv
        <5>4. Seen(x)' \/ InLine(x)' BY <3>2, <5>3
        <5> QED BY <5>2, <5>4 DEF Seen, InLine
      <4> QED BY <3>1, <4>1 DEF RuntimeInv, SeenInv
    <3>6. CompleteInv' BY <3>1 DEF RuntimeInv, CompleteInv
    <3> QED BY <3>3, <3>4, <3>5, <3>6
  <2>5. CASE NeedMethodsDone(a)
    BY <2>2, <2>3, <2>5 DEF NeedMethodsDone, Unlock, TypeInv
  <2>6. ASSUME Asks(a, "delegate") \/ Asks(a, "value") \/ Asks(a, "types") PROVE pending[a] = <<>>
    BY <2>6 DEF Asks, RuntimeInv, PendingInv
  <2>7. CASE LookUp(a)
    BY <2>2, <2>3, <2>6, <2>7 DEF LookUp, Unlock, TypeInv
  <2>8. CASE MakeDelegate(a)
    BY <2>2, <2>3, <2>6, <2>8 DEF MakeDelegate, Unlock, TypeInv
  <2>9. CASE MakeMethod(a)
    BY <2>2, <2>3, <2>6, <2>9 DEF MakeMethod, Unlock, TypeInv
  <2>10. CASE GetRuntimeTypes(a)
    BY <2>2, <2>3, <2>6, <2>10 DEF GetRuntimeTypes, Unlock, TypeInv
  <2> QED BY <2>1, <2>4, <2>5, <2>7, <2>8, <2>9, <2>10 DEF Work
<1>7. RuntimeTypesExact'
  <2>1. CASE GetRuntimeTypes(a)
    <3>1. request[a].kind = "types" BY <2>1 DEF GetRuntimeTypes, Asks
    <3>2. a \in Callers /\ pc[a] = "client"
      BY <1>0, <3>1, ConstantsAssumption DEF RuntimeInv, AskInv, Actors
    <3>3. complete = {T \in Types : NeedsMethods(T)} BY <3>2, AnswerIsExact
    <3>4. answers' = answers \cup {complete} BY <2>1 DEF GetRuntimeTypes
    <3> QED BY <3>3, <3>4 DEF RuntimeInv, RuntimeTypesExact
  <2>2. ~GetRuntimeTypes(a) => UNCHANGED answers
    BY DEF Work, Lock, NeedMethods, NeedMethodsDone, LookUp, MakeDelegate, MakeMethod
  <2> QED BY <2>1, <2>2 DEF RuntimeInv, RuntimeTypesExact
<1> QED BY <1>3, <1>4, <1>5, <1>6, <1>7 DEF RuntimeInv

(* The method tables hold what the packages need, as far as they have come.*)
LEMMA RuntimeCorrect == Spec => []RuntimeInv
<1>1. Init => RuntimeInv
  <2> SUFFICES ASSUME Init PROVE RuntimeInv
    OBVIOUS
  <2>1. \A a \in Actors : request[a] = NoRequest /\ pending[a] = <<>> BY DEF Init
  <2>2. AskInv BY <2>1, Names DEF AskInv
  <2>3. ProgressInv BY Names DEF Init, ProgressInv
  <2>4. RootsInv BY DEF Init, RootsInv
  <2>5. PendingInv BY <2>1 DEF PendingInv
  <2>6. SeenInv /\ CompleteInv BY DEF Init, SeenInv, CompleteInv
  <2>7. RuntimeTypesExact BY DEF Init, RuntimeTypesExact
  <2> QED BY <2>2, <2>3, <2>4, <2>5, <2>6, <2>7 DEF RuntimeInv
<1>2. RuntimeInv /\ TablesInv /\ BarrierInv /\ [Next]_vars => RuntimeInv'
  <2> SUFFICES ASSUME RuntimeInv, TablesInv, BarrierInv, [Next]_vars PROVE RuntimeInv'
    OBVIOUS
  <2>1. CASE BuildStep BY <2>1, RuntimeBuild DEF BarrierInv, TablesInv
  <2>2. ASSUME NEW a \in Actors, Work(a) PROVE RuntimeInv'
    BY <2>2, RuntimeWork DEF TablesInv
  <2>3. CASE UNCHANGED vars
    <3>1. \A x : (Seen(x)' <=> Seen(x)) /\ (InLine(x)' <=> InLine(x)) /\ (Ahead(x)' <=> Ahead(x))
      BY <2>3 DEF vars, lock, tables, Ahead, Seen, AlreadySeen, InLine
    <3>2. AskInv' /\ ProgressInv' /\ RootsInv' /\ PendingInv'
      BY <2>3, <3>1 DEF vars, lock, RuntimeInv, AskInv, ProgressInv, RootsInv, PendingInv
    <3>3. SeenInv' /\ CompleteInv' /\ RuntimeTypesExact'
      BY <2>3, <3>1 DEF vars, tables, RuntimeInv, SeenInv, CompleteInv, RuntimeTypesExact
    <3> QED BY <3>2, <3>3 DEF RuntimeInv
  <2> QED BY <2>1, <2>2, <2>3, Steps
<1> QED BY <1>1, <1>2, TablesCorrect, BarrierCorrect, PTL DEF Spec

(***************************************************************************)
(* Program.RuntimeTypes gives a client exactly the types that the packages *)
(* lead to, in whatever order needMethods met them, with and without skip. *)
(***************************************************************************)
THEOREM RuntimeTypesExactHolds == Spec => []RuntimeTypesExact
<1>1. RuntimeInv => RuntimeTypesExact BY DEF RuntimeInv
<1> QED BY <1>1, RuntimeCorrect, PTL
=============================================================================
