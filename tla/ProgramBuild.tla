---------------------------- MODULE ProgramBuild ----------------------------
(***************************************************************************)
(* ssa.Program.Build, and the tables of methods that the packages built in *)
(* parallel share: runtimeTypes, methodSets, bounds and thunks, all behind *)
(* Program.methodsMu.                                                      *)
(*                                                                         *)
(* Several callers may call Build; each starts a goroutine per package,    *)
(* and Package.Build goes through a sync.Once.  What a package needs of    *)
(* the tables while it is built is given as requests, in the order its     *)
(* code makes them.  After Build a caller is a client: it asks for         *)
(* MethodValue or RuntimeTypes.                                            *)
(*                                                                         *)
(* A type is known by its method set and by its parts: the types           *)
(* needMethods goes on to, in order, with the value of skip.               *)
(***************************************************************************)
EXTENDS Naturals, Sequences, FiniteSets

CONSTANTS
  Callers,     \* the goroutines that call Program.Build
  Packages,    \* prog.packages
  NoInfo,      \* the packages without type information: synthetic ones
  Serially,    \* the BuildSerially mode
  Types,       \* the types
  Interfaces,  \* the types that are interfaces
  Methods,     \* the names of methods
  MethodsOf,   \* the method set of each type
  Parts,       \* for each type the sequence of its parts and skip values
  Exported,    \* for each package the types of its exported members
  Uses,        \* for each package the requests of its functions, in order
  Delegates,   \* the keys of bounds and thunks
  NoRequest,   \* a goroutine that asks for nothing
  NoOne,       \* nobody holds the mutex
  MaxClient    \* bound: how many calls each client makes

Need(T) == [kind |-> "need", type |-> T]
Delegate(k) == [kind |-> "delegate", key |-> k]
MethodValue(T, m) == [kind |-> "value", type |-> T, method |-> m]
RuntimeTypes == [kind |-> "types"]

Requests ==
  {Need(T) : T \in Types} \cup {Delegate(k) : k \in Delegates}
    \cup {MethodValue(T, m) : T \in Types, m \in Methods} \cup {RuntimeTypes}

Part == Types \X BOOLEAN

ASSUME ConstantsAssumption ==
  /\ NoInfo \subseteq Packages /\ Serially \in BOOLEAN /\ MaxClient \in Nat
  /\ Interfaces \subseteq Types
  /\ MethodsOf \in [Types -> SUBSET Methods]
  /\ Parts \in [Types -> Seq(Part)]
  /\ Exported \in [Packages -> SUBSET Types]
  /\ Uses \in [Packages -> Seq(Requests \ {RuntimeTypes})]
  /\ NoRequest \notin Requests
  /\ NoOne \notin Callers \cup (Callers \X Packages)
  /\ IsFiniteSet(Packages) /\ Callers \cap (Callers \X Packages) = {}
  /\ Delegates \cap (Types \X Methods) = {}

(* The goroutine that a caller starts for a package.                       *)
Goroutines == Callers \X Packages
Actors == Callers \cup Goroutines
PackageOf(g) == g[2]

VARIABLES
  pc,            \* of callers: "spawn", "client"; of goroutines: see below
  wg,            \* the WaitGroup of each call of Program.Build
  once,          \* Package.buildOnce: "new", "running" or "done"
  members,       \* the exported members build has not come to
  uses,          \* how many requests of its code a package has made
  request,       \* what an actor is asking of the tables
  mu,            \* the holder of methodsMu
  stage,         \* of a request: "idle", "held" (the mutex), "missing"
  pending,       \* needMethods: the calls its recursion has yet to make
  runtimeTypes,  \* "unseen", "skip" or "full"
  mapping,       \* methodSet.mapping: the methods that have a Function
  complete,      \* the types whose method set is complete
  delegates,     \* the keys of bounds and thunks that have a Function
  made,          \* history: how many Functions were made for each method
  asked,         \* how many calls a client has made
  answers        \* history: what RuntimeTypes returned

lock == <<mu, stage, pending>>
tables == <<runtimeTypes, mapping, complete, delegates, made>>
vars == <<pc, wg, once, members, uses, request, lock, tables, asked, answers>>

Init ==
  /\ pc = [a \in Actors |-> IF a \in Callers THEN "spawn" ELSE "none"]
  /\ wg = [c \in Callers |-> 0]
  /\ once = [p \in Packages |-> "new"]
  /\ members = [p \in Packages |-> {}]
  /\ uses = [p \in Packages |-> 0]
  /\ request = [a \in Actors |-> NoRequest]
  /\ mu = NoOne
  /\ stage = [a \in Actors |-> "idle"]
  /\ pending = [a \in Actors |-> <<>>]
  /\ runtimeTypes = [T \in Types |-> "unseen"]
  /\ mapping = [T \in Types |-> {}]
  /\ complete = {}
  /\ delegates = {}
  /\ made = [x \in (Types \X Methods) \cup Delegates |-> 0]
  /\ asked = [c \in Callers |-> 0]
  /\ answers = {}

Goto(a, l) == pc' = [pc EXCEPT ![a] = l]

-----------------------------------------------------------------------------
(* Program.Build: wg.Add(1) and a goroutine for the next package, or, when *)
(* building serially, a call of p.Build.                                   *)
Spawn(c, p) ==
  /\ pc[c] = "spawn"
  /\ pc[<<c, p>>] = "none"
  /\ Serially => wg[c] = 0
  /\ wg' = [wg EXCEPT ![c] = @ + 1]
  /\ Goto(<<c, p>>, "once")
  /\ UNCHANGED <<once, members, uses, request, lock, tables, asked, answers>>

(* All packages have been started; wg.Wait().                              *)
Wait(c) ==
  /\ pc[c] = "spawn"
  /\ \A p \in Packages : pc[<<c, p>>] # "none"
  /\ wg[c] = 0
  /\ Goto(c, "client")
  /\ UNCHANGED <<wg, once, members, uses, request, lock, tables, asked, answers>>

(* buildOnce.Do runs build for the first caller.                           *)
BeginBuild(g) ==
  LET p == PackageOf(g) IN
  /\ pc[g] = "once"
  /\ once[p] = "new"
  /\ once' = [once EXCEPT ![p] = "running"]
  /\ members' = [members EXCEPT ![p] = IF p \in NoInfo THEN {} ELSE Exported[p]]
  /\ Goto(g, IF p \in NoInfo THEN "finish" ELSE "members")
  /\ UNCHANGED <<wg, uses, request, lock, tables, asked, answers>>

(* Bug: Do returns while the first call still runs.                        *)
BuiltSoon(g) ==
  /\ pc[g] = "once"
  /\ once[PackageOf(g)] # "new"
  /\ wg' = [wg EXCEPT ![g[1]] = @ - 1]
  /\ Goto(g, "done")
  /\ UNCHANGED <<once, members, uses, request, lock, tables, asked, answers>>

(* For the others it returns when that build has: wg.Done().               *)
Built(g) ==
  /\ pc[g] = "once"
  /\ once[PackageOf(g)] = "done"
  /\ wg' = [wg EXCEPT ![g[1]] = @ - 1]
  /\ Goto(g, "done")
  /\ UNCHANGED <<once, members, uses, request, lock, tables, asked, answers>>

(* build: the exported members, in the order of a map.                     *)
NextMember(g, T) ==
  LET p == PackageOf(g) IN
  /\ pc[g] = "members" /\ request[g] = NoRequest
  /\ T \in members[p]
  /\ members' = [members EXCEPT ![p] = @ \ {T}]
  /\ request' = [request EXCEPT ![g] = Need(T)]
  /\ UNCHANGED <<pc, wg, once, uses, lock, tables, asked, answers>>

MembersDone(g) ==
  /\ pc[g] = "members" /\ request[g] = NoRequest
  /\ members[PackageOf(g)] = {}
  /\ Goto(g, "code")
  /\ UNCHANGED <<wg, once, members, uses, request, lock, tables, asked, answers>>

(* build: initializers and functions.                                      *)
NextUse(g) ==
  LET p == PackageOf(g) IN
  /\ pc[g] = "code" /\ request[g] = NoRequest
  /\ uses[p] < Len(Uses[p])
  /\ uses' = [uses EXCEPT ![p] = @ + 1]
  /\ request' = [request EXCEPT ![g] = Uses[p][uses[p] + 1]]
  /\ UNCHANGED <<pc, wg, once, members, lock, tables, asked, answers>>

CodeDone(g) ==
  /\ pc[g] = "code" /\ request[g] = NoRequest
  /\ uses[PackageOf(g)] = Len(Uses[PackageOf(g)])
  /\ Goto(g, "finish")
  /\ UNCHANGED <<wg, once, members, uses, request, lock, tables, asked, answers>>

(* build returns, Do returns; wg.Done().                                   *)
FinishBuild(g) ==
  /\ pc[g] = "finish"
  /\ once' = [once EXCEPT ![PackageOf(g)] = "done"]
  /\ wg' = [wg EXCEPT ![g[1]] = @ - 1]
  /\ Goto(g, "done")
  /\ UNCHANGED <<members, uses, request, lock, tables, asked, answers>>

-----------------------------------------------------------------------------
(* Bug: methodsMu is not locked.                                           *)
LockNot(a) ==
  /\ request[a] # NoRequest /\ stage[a] = "idle"
  /\ mu' = a
  /\ stage' = [stage EXCEPT ![a] = "held"]
  /\ pending' = [pending EXCEPT ![a] =
                   IF request[a].kind = "need" THEN <<<<request[a].type, FALSE>>>> ELSE <<>>]
  /\ UNCHANGED <<pc, wg, once, members, uses, request, tables, asked, answers>>

(* methodsMu.Lock(); needMethods(T, false) is called.                      *)
Lock(a) ==
  /\ request[a] # NoRequest /\ stage[a] = "idle"
  /\ mu = NoOne
  /\ mu' = a
  /\ stage' = [stage EXCEPT ![a] = "held"]
  /\ pending' = [pending EXCEPT ![a] =
                   IF request[a].kind = "need" THEN <<<<request[a].type, FALSE>>>> ELSE <<>>]
  /\ UNCHANGED <<pc, wg, once, members, uses, request, tables, asked, answers>>

(* methodsMu.Unlock(), and the call returns.                               *)
Unlock(a) ==
  /\ mu' = NoOne
  /\ stage' = [stage EXCEPT ![a] = "idle"]
  /\ request' = [request EXCEPT ![a] = NoRequest]
  /\ UNCHANGED pending

(* The request that is being answered is of this kind.                     *)
Asks(a, kind) == stage[a] # "idle" /\ request[a].kind = kind

(* addMethod for the methods S of T: a Function for those without one.     *)
AddMethods(T, S) ==
  /\ mapping' = [mapping EXCEPT ![T] = @ \cup S]
  /\ made' = [x \in DOMAIN made |->
                IF x \in {T} \X (S \ mapping[T]) THEN made[x] + 1 ELSE made[x]]

(* Bug: a type that was visited with skip is not visited again.            *)
AlreadySeenSkip(T, skip) == runtimeTypes[T] # "unseen"

AlreadySeen(T, skip) == runtimeTypes[T] = "full" \/ (runtimeTypes[T] = "skip" /\ skip)

(* The next call of needMethods.                                           *)
NeedMethods(a) ==
  LET T == pending[a][1][1]
      skip == pending[a][1][2]
      rest == Tail(pending[a])
  IN
  /\ stage[a] = "held" /\ pending[a] # <<>>
  /\ \/ /\ AlreadySeen(T, skip)
        /\ pending' = [pending EXCEPT ![a] = rest]
        /\ UNCHANGED tables
     \/ /\ ~AlreadySeen(T, skip)
        /\ runtimeTypes' = [runtimeTypes EXCEPT ![T] = IF skip THEN "skip" ELSE "full"]
        /\ pending' = [pending EXCEPT ![a] = Parts[T] \o rest]
        /\ \/ /\ ~skip /\ T \notin Interfaces /\ MethodsOf[T] # {} /\ T \notin complete
              /\ complete' = complete \cup {T}
              /\ AddMethods(T, MethodsOf[T])
           \/ /\ skip \/ T \in Interfaces \/ MethodsOf[T] = {} \/ T \in complete
              /\ UNCHANGED <<mapping, complete, made>>
        /\ UNCHANGED delegates
  /\ UNCHANGED <<pc, wg, once, members, uses, request, mu, stage, asked, answers>>

(* needMethodsOf unlocks and returns.                                      *)
NeedMethodsDone(a) ==
  /\ Asks(a, "need") /\ pending[a] = <<>>
  /\ Unlock(a)
  /\ UNCHANGED <<pc, wg, once, members, uses, tables, asked, answers>>

(* MethodValue, makeBound and makeThunk look in their table first.         *)
Found(r) == IF r.kind = "delegate" THEN r.key \in delegates ELSE r.method \in mapping[r.type]

LookUp(a) ==
  /\ stage[a] = "held" /\ (Asks(a, "delegate") \/ Asks(a, "value"))
  /\ \/ Found(request[a]) /\ Unlock(a)
     \/ /\ ~Found(request[a])
        /\ stage' = [stage EXCEPT ![a] = "missing"]
        /\ UNCHANGED <<mu, pending, request>>
  /\ UNCHANGED <<pc, wg, once, members, uses, tables, asked, answers>>

(* makeBound and makeThunk: a new Function                                 *)
MakeDelegate(a) ==
  LET k == request[a].key IN
  /\ stage[a] = "missing" /\ Asks(a, "delegate")
  /\ delegates' = delegates \cup {k}
  /\ made' = [made EXCEPT ![k] = @ + 1]
  /\ Unlock(a)
  /\ UNCHANGED <<pc, wg, once, members, uses, runtimeTypes, mapping, complete, asked, answers>>

(* MethodValue: the method's own Function or a new wrapper                 *)
MakeMethod(a) ==
  LET T == request[a].type
      m == request[a].method
  IN
  /\ stage[a] = "missing" /\ Asks(a, "value")
  /\ mapping' = [mapping EXCEPT ![T] = @ \cup {m}]
  /\ made' = [made EXCEPT ![<<T, m>>] = @ + 1]
  /\ Unlock(a)
  /\ UNCHANGED <<pc, wg, once, members, uses, runtimeTypes, complete, delegates, asked, answers>>

(* Bug: RuntimeTypes returns with the mutex held.                          *)
GetRuntimeTypesLocked(a) ==
  /\ Asks(a, "types")
  /\ answers' = answers \cup {complete}
  /\ request' = [request EXCEPT ![a] = NoRequest]
  /\ stage' = [stage EXCEPT ![a] = "idle"]
  /\ UNCHANGED <<pc, wg, once, members, uses, mu, pending, tables, asked>>

(* RuntimeTypes: the types whose method set is complete                    *)
GetRuntimeTypes(a) ==
  /\ Asks(a, "types")
  /\ answers' = answers \cup {complete}
  /\ Unlock(a)
  /\ UNCHANGED <<pc, wg, once, members, uses, tables, asked>>

(* A client calls RuntimeTypes, or MethodValue for a concrete type; for an *)
(* interface MethodValue returns nil without the mutex.                    *)
ClientCalls(c) ==
  /\ pc[c] = "client" /\ request[c] = NoRequest
  /\ asked[c] < MaxClient
  /\ \/ request' = [request EXCEPT ![c] = RuntimeTypes]
     \/ \E T \in Types \ Interfaces : \E m \in MethodsOf[T] :
           request' = [request EXCEPT ![c] = MethodValue(T, m)]
  /\ asked' = [asked EXCEPT ![c] = @ + 1]
  /\ UNCHANGED <<pc, wg, once, members, uses, lock, tables, answers>>

Work(a) ==
  Lock(a) \/ NeedMethods(a) \/ NeedMethodsDone(a) \/ LookUp(a)
    \/ MakeDelegate(a) \/ MakeMethod(a) \/ GetRuntimeTypes(a)

Build(g) ==
  \/ BeginBuild(g) \/ Built(g) \/ (\E T \in Types : NextMember(g, T)) \/ MembersDone(g)
  \/ NextUse(g) \/ CodeDone(g) \/ FinishBuild(g)

Returned == \A c \in Callers : pc[c] = "client"
Quiet == \A a \in Actors : request[a] = NoRequest

Next ==
  \/ \E c \in Callers : (\E p \in Packages : Spawn(c, p)) \/ Wait(c) \/ ClientCalls(c)
  \/ \E g \in Goroutines : Build(g)
  \/ \E a \in Actors : Work(a)
  \/ Returned /\ Quiet /\ UNCHANGED vars

(* Runnable goroutines run, and the mutex starves no one.                  *)
Fairness ==
  /\ \A c \in Callers : WF_vars((\E p \in Packages : Spawn(c, p)) \/ Wait(c))
  /\ \A g \in Goroutines : WF_vars(Build(g))
  /\ \A a \in Actors : WF_vars(Work(a)) /\ SF_vars(Lock(a))

Spec == Init /\ [][Next]_vars /\ Fairness

-----------------------------------------------------------------------------
(* The types of the variables; the WaitGroup counter never goes negative   *)
(* (that would panic) nor beyond the number of packages.                   *)
TypeOK ==
  /\ pc \in [Actors -> {"spawn", "client", "none", "once", "members", "code", "finish", "done"}]
  /\ wg \in [Callers -> 0 .. Cardinality(Packages)]
  /\ once \in [Packages -> {"new", "running", "done"}]
  /\ members \in [Packages -> SUBSET Types]
  /\ \A p \in Packages : uses[p] \in 0 .. Len(Uses[p])
  /\ request \in [Actors -> Requests \cup {NoRequest}]
  /\ mu \in Actors \cup {NoOne}
  /\ stage \in [Actors -> {"idle", "held", "missing"}]
  /\ pending \in [Actors -> Seq(Part)]
  /\ runtimeTypes \in [Types -> {"unseen", "skip", "full"}]
  /\ mapping \in [Types -> SUBSET Methods]
  /\ complete \subseteq Types
  /\ delegates \subseteq Delegates
  /\ made \in [(Types \X Methods) \cup Delegates -> Nat]
  /\ asked \in [Callers -> 0 .. MaxClient]
  /\ answers \subseteq SUBSET Types

(***************************************************************************)
(* For each method of each type, and for each bound or thunk, at most one  *)
(* Function is ever made, whichever packages ask for it: everyone who gets *)
(* one gets the same pointer.                                              *)
(***************************************************************************)
OneFunctionEach == \A x \in DOMAIN made : made[x] <= 1

(* The parts a program needs: what is asked for, and all it leads to.      *)
Roots ==
  {<<T, FALSE>> : T \in UNION {Exported[p] : p \in Packages \ NoInfo}}
    \cup {<<T, FALSE>> : T \in {U \in Types : \E p \in Packages \ NoInfo :
                                  \E i \in 1 .. Len(Uses[p]) : Uses[p][i] = Need(U)}}

Needed ==
  {x \in Part :
     \A S \in SUBSET Part :
        Roots \subseteq S /\ (\A y \in S : \A i \in 1 .. Len(Parts[y[1]]) : Parts[y[1]][i] \in S)
          => x \in S}

NeedsMethods(T) == <<T, FALSE>> \in Needed /\ T \notin Interfaces /\ MethodsOf[T] # {}

(***************************************************************************)
(* What RuntimeTypes returns to a client, once Build has returned to it,   *)
(* is exactly the set of types whose values can be in an interface or be   *)
(* reached from one, whatever the order in which the packages were built   *)
(* and types were first seen with skip.                                    *)
(***************************************************************************)
RuntimeTypesExact == \A S \in answers : S = {T \in Types : NeedsMethods(T)}

(***************************************************************************)
(* Build returns only when every package has been built, and no two        *)
(* goroutines build the same package.                                      *)
(***************************************************************************)
BuildIsBarrier ==
  /\ \A c \in Callers : pc[c] = "client" => \A p \in Packages : once[p] = "done"
  /\ \A g, h \in Goroutines :
        PackageOf(g) = PackageOf(h) /\ g # h =>
           ~(pc[g] \in {"members", "code", "finish"} /\ pc[h] \in {"members", "code", "finish"})

(***************************************************************************)
(* Every call of Program.Build returns, for wg.Wait and buildOnce.Do wait  *)
(* for goroutines that in turn wait for nobody but the holder of           *)
(* methodsMu; and whoever asks for methodsMu gets what it asked for, for   *)
(* needMethods ends although types are recursive, and every holder         *)
(* unlocks.                                                                *)
(***************************************************************************)
EverybodyReturns ==
  /\ <>Returned
  /\ \A a \in Actors : request[a] # NoRequest ~> request[a] = NoRequest
=============================================================================
