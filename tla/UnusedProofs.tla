---------------------------- MODULE UnusedProofs ----------------------------
(***************************************************************************)
(* For every program, unused reports exactly what the roots do not lead    *)
(* to, that was asked for and is not part of something larger that they do *)
(* not lead to either, whatever the order of packages and nodes.           *)
(***************************************************************************)
EXTENDS Unused, TLAPS

Passes == {"defs", "uses", "types", "selections", "ast"}
Phases == Passes \cup {"next", "mark", "quiet", "done"}

Functions == FunctionsOf(program) \cap Declared(program)

(* A scope other than that of a package has one kind of user: the function *)
(* that it is the topmost scope of.                                        *)
ScopeOf(a, b) == \E f \in Functions : b = Obj(f) /\ a = Scope(TopmostScope(objs[f].scope))
UsedAsScope(a, b) == a[1] = "scope" => a[2] \in PackageNames \/ ScopeOf(a, b)

PhaseInv ==
  /\ program \in Programs
  /\ phase \in Phases
  /\ todo \subseteq program.initial
  /\ phase \in Passes => cur \in program.initial
  /\ phase \in {"mark", "quiet", "done"} => todo = {}
  /\ phase \in {"quiet", "done"} => NextUsed \subseteq used
  /\ phase \notin {"mark", "quiet", "done"} => used = {}

IsNode(n) == n = <<n[1], n[2]>>

(* The edges are between nodes, and so what is used is a node.             *)
GraphInv ==
  /\ \A n \in nodes : IsNode(n)
  /\ uses \subseteq nodes \X nodes
  /\ roots \subseteq nodes
  /\ used \subseteq nodes

(* The scope of a function is used only if the function is.                *)
ScopeInv ==
  /\ \A r \in roots : r[1] = "obj"
  /\ \A q \in uses : UsedAsScope(q[2], q[1])
  /\ \A n \in used : n[1] = "scope" => n[2] \in PackageNames \/ \E b \in used : ScopeOf(n, b)

(* What processDefs has left behind for an object.                         *)
Entered(x) ==
  /\ Obj(x) \in nodes
  /\ objs[x].kind = "pkgname" => Obj(x) \in roots
  /\ objs[x].kind # "pkgname" /\ IsBlank(x) => Obj(x) \in quiet
  /\ objs[x].kind = "func" => Scope(TopmostScope(objs[x].scope)) \in nodes
DefsInv ==
  \A p \in program.initial :
    p \in todo \/ (phase = "defs" /\ p = cur) \/ \A x \in program.pkgs[p].defs : Entered(x)

(* Until markNodesQuiet begins only what is blank is quiet.  Then the      *)
(* nodes at which it has nothing left to do are those it has come to.      *)
QuietInv ==
  /\ phase \notin {"quiet", "done"} => \A n \in quiet : \E x \in Declared(program) : n = Obj(x) /\ IsBlank(x)
  /\ phase \in {"quiet", "done"} =>
       /\ left \subseteq nodes \ used
       /\ Unchecked \ used \subseteq quiet
       /\ \A n \in nodes \ used : n[1] \in {"type", "scope"} => n \in left \/ QuietAt(n) \subseteq quiet
  /\ phase = "done" => left = {}

(* Nothing else is quiet than what is blank, was not asked for, or is part *)
(* of something larger that is not used.                                   *)
SoundInv ==
  phase \in {"quiet", "done"} /\ FunctionsAtTop(program) =>
    \A x \in Declared(program) : Obj(x) \in quiet => IsBlank(x) \/ ~CheckFlags(x) \/ InsideUnused(x)

ReportInv ==
  phase = "done" =>
    reported = {x \in DOMAIN objs : Obj(x) \in nodes \ (used \cup quiet) /\ Reportable(x)}

(* What every set holds that the roots are in and the edges do not leave.  *)
LeastInv ==
  \A C : roots \subseteq C /\ (\A q \in uses : q[1] \in C => q[2] \in C) => used \subseteq C

Inv == PhaseInv /\ GraphInv /\ ScopeInv /\ DefsInv /\ QuietInv /\ SoundInv /\ ReportInv

-----------------------------------------------------------------------------
(* Everything that is read of the program stays as it is.                  *)
LEMMA SameProgram ==
  ASSUME program' = program
  PROVE  /\ objs' = objs /\ types' = types /\ PackageNames' = PackageNames
         /\ \A s : TopmostScope(s)' = TopmostScope(s)
         /\ \A s : ScopeNames(s)' = ScopeNames(s)
         /\ \A x : CheckFlags(x)' = CheckFlags(x) /\ IsBlank(x)' = IsBlank(x) /\ Reportable(x)' = Reportable(x)
         /\ \A n : MethodsOf(n)' = MethodsOf(n)
         /\ Functions' = Functions /\ Declared(program)' = Declared(program)
         /\ FunctionsAtTop(program)' = FunctionsAtTop(program)
<1>1. objs' = objs /\ types' = types /\ PackageNames' = PackageNames
  BY DEF objs, types, PackageNames
<1>2. Outer' = Outer
  BY DEF Outer, IsTopmost, PackageNames
<1>3. \A s : TopmostScope(s)' = TopmostScope(s)
  BY <1>1, <1>2 DEF TopmostScope, IsTopmost
<1>4. \A s : ScopeNames(s)' = ScopeNames(s)
  BY <1>1 DEF ScopeNames
<1>5. \A x : CheckFlags(x)' = CheckFlags(x) /\ IsBlank(x)' = IsBlank(x) /\ Reportable(x)' = Reportable(x)
  BY <1>1 DEF CheckFlags, IsBlank, Reportable
<1>6. \A n : MethodsOf(n)' = MethodsOf(n)
  BY <1>1 DEF MethodsOf, KindOf
<1>7. Functions' = Functions /\ Declared(program)' = Declared(program)
  BY DEF Functions
<1>8. FunctionsAtTop(program)' = FunctionsAtTop(program)
  OBVIOUS
<1>. QED  BY <1>1, <1>3, <1>4, <1>5, <1>6, <1>7, <1>8

LEMMA SameScopes ==
  ASSUME program' = program
  PROVE  /\ \A a, b : ScopeOf(a, b)' = ScopeOf(a, b)
         /\ \A a, b : UsedAsScope(a, b)' = UsedAsScope(a, b)
  BY SameProgram DEF ScopeOf, UsedAsScope

-----------------------------------------------------------------------------
(* The links of markUsedBy.                                                *)
NoScope(L) == \A l \in L : IsNode(l[1]) /\ IsNode(l[2]) /\ l[1][1] # "scope"

LEMMA UseLinksFact == \A u : NoScope(UseLinks(u))
  BY DEF NoScope, IsNode, UseLinks, Obj, Type, Scope

LEMMA NoCopyFact == \A t : NoScope(UseNoCopyFields(t)) /\ NoScope(UseExportedFields(t)) /\ NoScope(UseExportedMethods(t)) /\ NoScope(MarkFields(t))
<1>1. \A t : NoScope(UseNoCopyFields(t))
  BY DEF NoScope, IsNode, UseNoCopyFields, Obj, Type
<1>2. \A t : NoScope(UseExportedFields(t))
  BY DEF NoScope, IsNode, UseExportedFields, Obj, Type
<1>3. \A t : NoScope(UseExportedMethods(t))
  BY DEF NoScope, IsNode, UseExportedMethods, Obj, Type
<1>4. \A t : NoScope(MarkFields(t))
  BY DEF NoScope, IsNode, MarkFields, Obj, Type
<1>. QED  BY <1>1, <1>2, <1>3, <1>4

LEMMA TypeLinksFact == \A t, p : NoScope(TypeLinks(t, p))
<1>. SUFFICES ASSUME NEW t, NEW p PROVE NoScope(TypeLinks(t, p))
  OBVIOUS
<1>1. CASE KindOf(t) \in {"elem", "pointer"}
  BY <1>1 DEF TypeLinks, NoScope, IsNode, Type
<1>2. CASE KindOf(t) = "named"
  BY <1>2 DEF TypeLinks, NoScope, IsNode, Type
<1>3. CASE KindOf(t) = "struct"
  BY <1>3, NoCopyFact DEF TypeLinks, NoScope, IsNode
<1>4. CASE KindOf(t) \notin {"elem", "pointer", "named", "struct"}
  BY <1>4 DEF TypeLinks, NoScope, IsNode
<1>. QED  BY <1>1, <1>2, <1>3, <1>4

LEMMA ImplementLinksFact == \A t, i : NoScope(ImplementLinks(t, i))
  BY DEF NoScope, IsNode, ImplementLinks, Obj, Type

LEMMA SelectionLinksFact == \A s : NoScope(SelectionLinks(s))
  BY DEF NoScope, IsNode, SelectionLinks, Obj, Expr, Scope

LEMMA AstLinksFact ==
  ASSUME NEW a, a.op \in Syntaxes
  PROVE  NoScope(AstLinks(a))
<1>1. CASE a.op = "conversion"
  BY <1>1 DEF AstLinks, NoScope, IsNode, Obj, Type
<1>2. CASE a.op = "unsafe"
  BY <1>2, NoCopyFact DEF AstLinks
<1>3. CASE a.op = "literal"
  BY <1>3, NoCopyFact DEF AstLinks, NoScope, IsNode
<1>4. CASE a.op = "value"
  BY <1>4 DEF AstLinks, NoScope, IsNode, Obj, Type
<1>5. CASE a.op = "array"
  BY <1>5 DEF AstLinks, NoScope, IsNode, Obj, Type
<1>6. CASE a.op = "register"
  BY <1>6 DEF AstLinks, NoScope, IsNode, Obj, Type
<1>7. CASE a.op = "cgo"
  BY <1>7 DEF AstLinks, NoScope, IsNode
<1>. QED  BY <1>1, <1>2, <1>3, <1>4, <1>5, <1>6, <1>7 DEF Syntaxes

Good(l) == IsNode(l[1]) /\ IsNode(l[2]) /\ UsedAsScope(l[1], l[2])

(* Those of processDefs: the scope of a function is used by the function,  *)
(* that of a package by the name of an import.                             *)
LEMMA DefLinksFact ==
  ASSUME NEW x \in Declared(program), program \in Programs
  PROVE  \A l \in DefLinks(x) : Good(l)
<1>1. x \in DOMAIN objs /\ objs[x].pkg \in PackageNames
  BY ProgramsAssumption DEF WellFormed, Declared, objs, PackageNames
<1>2. objs[x].kind = "func" => UsedAsScope(Scope(TopmostScope(objs[x].scope)), Obj(x))
  BY <1>1 DEF UsedAsScope, ScopeOf, Functions, FunctionsOf, objs
<1>3. UsedAsScope(Scope(objs[x].pkg), Obj(x))
  BY <1>1 DEF UsedAsScope, Scope
<1>4. \A a, b : UsedAsScope(Obj(a), b) /\ UsedAsScope(Type(a), b) /\ IsNode(Obj(a)) /\ IsNode(Type(a)) /\ IsNode(Scope(a))
  BY DEF UsedAsScope, IsNode, Obj, Type, Scope
<1>5. \A l \in UseExportedFields(objs[x].type) \cup UseExportedMethods(objs[x].type) : Good(l)
  BY NoCopyFact DEF NoScope, UsedAsScope, Good
<1>. DEFINE o == objs[x]
            t == Type(o.type)
            out == TopmostScope(o.at)
            L1 == IF o.kind # "type" THEN {}
                  ELSE {<<Type(Underlying(o.type)), t>>, <<t, Obj(x)>>, <<Obj(x), t>>}
                         \cup (IF ~program.whole \/ program.reflect THEN UseExportedFields(o.type) ELSE {})
                         \cup (IF ~program.whole THEN UseExportedMethods(o.type) ELSE {})
            L2 == IF o.kind # "pkgname" /\ o.exported THEN {<<t, Obj(x)>>} ELSE {}
            L3 == IF o.kind # "pkgname" /\ IsBlank(x) /\ out # o.pkg THEN {<<Obj(x), Scope(out)>>} ELSE {}
            L4 == IF o.kind = "var" /\ ~IsBlank(x) /\ ~IsPkgScope(x)
                  THEN {<<Obj(x), Scope(TopmostScope(o.parent))>>, <<t, Obj(x)>>} ELSE {}
            L5 == IF o.kind # "func" THEN {}
                  ELSE {<<Obj(x), t>>, <<Scope(TopmostScope(o.scope)), Obj(x)>>}
                         \cup {<<Type(r), Obj(x)>> : r \in types[o.type].results}
            L6 == IF o.kind = "pkgname" THEN {<<Scope(o.pkg), Obj(x)>>} ELSE {}
<1>6. DefLinks(x) = L1 \cup L2 \cup L3 \cup L4 \cup L5 \cup L6
  BY DEF DefLinks
<1>7. \A l \in L1 : Good(l)
  BY <1>4, <1>5 DEF Good
<1>8. \A l \in L2 \cup L3 \cup L4 : Good(l)
  BY <1>4 DEF Good
<1>9. \A l \in L5 : Good(l)
  BY <1>2, <1>4 DEF Good
<1>10. \A l \in L6 : Good(l)
  BY <1>3, <1>4 DEF Good
<1>. HIDE DEF L1, L2, L3, L4, L5, L6
<1>. QED  BY <1>6, <1>7, <1>8, <1>9, <1>10

(* A function uses its scope as soon as it is defined.                     *)
LEMMA DefLinksScope ==
  ASSUME NEW x, objs[x].kind = "func"
  PROVE  <<Scope(TopmostScope(objs[x].scope)), Obj(x)>> \in DefLinks(x)
  BY DEF DefLinks

LEMMA NodeOfFact ==
  /\ \A x : NodeOf(Obj(x)) = Obj(x) /\ NodeOf(Scope(x)) = Scope(x)
  /\ \A n : NodeOf(n)[1] = n[1]
  /\ \A n : n[1] # "type" => NodeOf(n) = n
  BY DEF NodeOf, Obj, Scope, Type

(* What markUsedBy does to the graph.                                      *)
LEMMA MarkFact ==
  ASSUME NEW L, MarkUsedBy(L), uses \subseteq nodes \X nodes, \A l \in L : IsNode(l[1]) /\ IsNode(l[2]),
         \A n \in nodes : IsNode(n)
  PROVE  /\ \A n \in nodes' : IsNode(n)
         /\ nodes \subseteq nodes' /\ uses \subseteq uses'
         /\ uses' \subseteq nodes' \X nodes'
         /\ \A l \in L : NodeOf(l[1]) \in nodes' /\ NodeOf(l[2]) \in nodes'
         /\ \A q \in uses' : \/ q \in uses
                             \/ q[2][1] = "type"
                             \/ \E l \in L : q = <<NodeOf(l[2]), NodeOf(l[1])>>
<1>. DEFINE pairs == {<<NodeOf(l[2]), NodeOf(l[1])>> : l \in L}
            ends == {p[1] : p \in pairs} \cup {p[2] : p \in pairs}
            links == UNION {FieldLinks(n) : n \in ends}
<1>1. /\ nodes' = nodes \cup ends \cup {l[1] : l \in links}
      /\ uses' = uses \cup links \cup {p \in pairs : p[1] # p[2]}
  BY DEF MarkUsedBy
<1>2. \A l \in L : NodeOf(l[1]) \in ends /\ NodeOf(l[2]) \in ends
  <2>. TAKE l \in L
  <2>1. <<NodeOf(l[2]), NodeOf(l[1])>> \in pairs
    OBVIOUS
  <2>. DEFINE p == <<NodeOf(l[2]), NodeOf(l[1])>>
  <2>2. p[1] \in ends /\ p[2] \in ends
    BY <2>1
  <2>. QED  BY <2>2
<1>3. \A k \in links : k = <<k[1], k[2]>> /\ k[2] \in ends /\ k[2][1] = "type"
  BY DEF FieldLinks
<1>4. \A p \in pairs : p \in ends \X ends
  BY <1>2
<1>5. \A p \in pairs : \E l \in L : p = <<NodeOf(l[2]), NodeOf(l[1])>>
  OBVIOUS
<1>8. \A p \in pairs : IsNode(p[1]) /\ IsNode(p[2])
  BY DEF NodeOf, IsNode, Type
<1>9. \A n \in ends : IsNode(n)
  BY <1>8
<1>10. \A k \in links : IsNode(k[1])
  BY DEF FieldLinks, IsNode, Obj
<1>. HIDE DEF pairs, ends, links
<1>6. links \subseteq nodes' \X nodes'
  BY <1>1, <1>3
<1>7. uses' \subseteq nodes' \X nodes'
  BY <1>1, <1>4, <1>6
<1>11. \A n \in nodes' : IsNode(n)
  BY <1>1, <1>9, <1>10
<1>. QED  BY <1>1, <1>2, <1>3, <1>5, <1>7, <1>11

(* The scopes stay with their functions.                                   *)
LEMMA MarkScopes ==
  ASSUME NEW L, MarkUsedBy(L), uses \subseteq nodes \X nodes, program' = program,
         \A n \in nodes : IsNode(n),
         \A l \in L : Good(l),
         \A q \in uses : UsedAsScope(q[2], q[1])
  PROVE  (\A q \in uses : UsedAsScope(q[2], q[1]))'
<1>. SUFFICES ASSUME NEW q \in uses' PROVE UsedAsScope(q[2], q[1])
  BY SameScopes
<1>1. CASE q \in uses
  BY <1>1
<1>2. CASE q[2][1] = "type"
  BY <1>2 DEF UsedAsScope
<1>3. ASSUME NEW l \in L, q = <<NodeOf(l[2]), NodeOf(l[1])>> PROVE UsedAsScope(q[2], q[1])
  <2>1. q[2] = NodeOf(l[1]) /\ q[1] = NodeOf(l[2])
    BY <1>3
  <2>. SUFFICES ASSUME q[2][1] = "scope", q[2][2] \notin PackageNames PROVE ScopeOf(q[2], q[1])
    BY DEF UsedAsScope
  <2>2. q[2] = l[1]
    BY <2>1, NodeOfFact
  <2>3. ScopeOf(l[1], l[2])
    BY <2>2 DEF UsedAsScope, Good
  <2>4. NodeOf(l[2]) = l[2]
    BY <2>3, NodeOfFact DEF ScopeOf
  <2>. QED  BY <2>1, <2>2, <2>3, <2>4
<1>4. \A l \in L : IsNode(l[1]) /\ IsNode(l[2])
  BY DEF Good
<1>. QED  BY <1>1, <1>2, <1>3, <1>4, MarkFact

-----------------------------------------------------------------------------
Pass == ProcessDefs \/ ProcessUses \/ ProcessTypes \/ ProcessSelections \/ ProcessAST

LEMMA PackageFact ==
  ASSUME PhaseInv, phase \in Passes
  PROVE  /\ cur \in DOMAIN program.pkgs /\ Package.defs \subseteq Declared(program)
         /\ \A a \in Package.ast : a.op \in Syntaxes
<1>1. cur \in program.initial /\ program \in Programs
  BY DEF PhaseInv
<1>. QED  BY <1>1, ProgramsAssumption DEF WellFormed, Package, Declared

LEMMA GoodLinks ==
  /\ \A L : NoScope(L) => \A l \in L : Good(l)
  /\ \A x : Good(<<Obj(x), Obj(x)>>)
  BY DEF NoScope, Good, UsedAsScope, IsNode, Obj

(* What the five passes over a package have in common.                     *)
LEMMA PassFact ==
  ASSUME PhaseInv, Pass
  PROVE  /\ phase \in Passes /\ phase' \in (Passes \ {"defs"}) \cup {"next"}
         /\ UNCHANGED <<program, todo, cur, used, left, reported>>
         /\ roots \subseteq roots' /\ quiet \subseteq quiet'
         /\ \A n \in quiet' \ quiet : \E x \in Declared(program) : n = Obj(x) /\ IsBlank(x)
         /\ \E L : /\ MarkUsedBy(L)
                   /\ \A l \in L : Good(l)
                   /\ \A r \in roots' \ roots : \E x : r = Obj(x) /\ <<Obj(x), Obj(x)>> \in L
<1>1. CASE ProcessDefs
  <2>. DEFINE A == UNION {DefLinks(x) : x \in Package.defs}
              B == {<<Obj(x), Obj(x)>> : x \in Package.defs}
              L == B \cup A
  <2>1. /\ phase = "defs" /\ phase' = "uses" /\ MarkUsedBy(L)
        /\ roots' = roots \cup {Obj(x) : x \in {y \in Package.defs : DefRoots(y)}}
        /\ quiet' = quiet \cup {Obj(x) : x \in {y \in Package.defs : objs[y].kind # "pkgname" /\ IsBlank(y)}}
        /\ UNCHANGED <<program, todo, cur, used, left, reported>>
    BY <1>1 DEF ProcessDefs
  <2>2. Package.defs \subseteq Declared(program)
    BY <2>1, PackageFact DEF Passes
  <2>3. \A l \in A : Good(l)
    BY <2>2, DefLinksFact DEF PhaseInv
  <2>4. \A l \in B : Good(l)
    BY GoodLinks
  <2>5. \A x \in Package.defs : <<Obj(x), Obj(x)>> \in B
    OBVIOUS
  <2>. HIDE DEF A, B
  <2>6. \A r \in roots' \ roots : \E x : r = Obj(x) /\ <<Obj(x), Obj(x)>> \in L
    BY <2>1, <2>5
  <2>7. \A l \in L : Good(l)
    BY <2>3, <2>4
  <2>. HIDE DEF L
  <2>. QED  BY <2>1, <2>2, <2>6, <2>7 DEF Passes
<1>2. CASE ProcessUses
  <2>. DEFINE L == UNION {UseLinks(u) : u \in Package.uses}
  <2>1. /\ phase = "uses" /\ phase' = "types" /\ MarkUsedBy(L)
        /\ UNCHANGED <<program, todo, cur, roots, used, quiet, left, reported>>
    BY <1>2 DEF ProcessUses
  <2>2. \A l \in L : Good(l)
    BY UseLinksFact, GoodLinks
  <2>. HIDE DEF L
  <2>. QED  BY <2>1, <2>2 DEF Passes
<1>3. CASE ProcessTypes
  <2>. DEFINE A == UNION {TypeLinks(t, Package) : t \in Package.types}
              B == UNION {ImplementLinks(t, i) : t \in {u \in Package.types : KindOf(u) = "named"},
                                                 i \in InterfacesIn(Package.types) \cup Interfaces}
              L == A \cup B
  <2>1. /\ phase = "types" /\ phase' = "selections" /\ MarkUsedBy(L)
        /\ UNCHANGED <<program, todo, cur, roots, used, quiet, left, reported>>
    BY <1>3 DEF ProcessTypes
  <2>3. \A l \in A : Good(l)
    BY TypeLinksFact, GoodLinks
  <2>4. \A l \in B : Good(l)
    BY ImplementLinksFact, GoodLinks
  <2>. HIDE DEF A, B
  <2>2. \A l \in L : Good(l)
    BY <2>3, <2>4
  <2>. HIDE DEF L
  <2>. QED  BY <2>1, <2>2 DEF Passes
<1>4. CASE ProcessSelections
  <2>. DEFINE L == UNION {SelectionLinks(s) : s \in Package.selections}
  <2>1. /\ phase = "selections" /\ phase' = "ast" /\ MarkUsedBy(L)
        /\ UNCHANGED <<program, todo, cur, roots, used, quiet, left, reported>>
    BY <1>4 DEF ProcessSelections
  <2>2. \A l \in L : Good(l)
    BY SelectionLinksFact, GoodLinks
  <2>. HIDE DEF L
  <2>. QED  BY <2>1, <2>2 DEF Passes
<1>5. CASE ProcessAST
  <2>. DEFINE exports == {Obj(a.func) : a \in {b \in Package.ast : b.op = "cgo"}}
              A == UNION {AstLinks(a) : a \in Package.ast}
              B == {<<x, x>> : x \in exports}
              L == B \cup A
  <2>1. /\ phase = "ast" /\ phase' = "next" /\ MarkUsedBy(L) /\ roots' = roots \cup exports
        /\ UNCHANGED <<program, todo, cur, used, quiet, left, reported>>
    BY <1>5 DEF ProcessAST
  <2>2. \A l \in A : Good(l)
    BY <2>1, PackageFact, AstLinksFact, GoodLinks DEF Passes
  <2>3. \A x \in exports : \E f : x = Obj(f)
    OBVIOUS
  <2>4. \A l \in B : Good(l)
    BY <2>3, GoodLinks
  <2>7. \A x \in exports : <<x, x>> \in B
    OBVIOUS
  <2>. HIDE DEF A, B, exports
  <2>5. \A r \in roots' \ roots : \E x : r = Obj(x) /\ <<Obj(x), Obj(x)>> \in L
    BY <2>1, <2>3, <2>7
  <2>6. \A l \in L : Good(l)
    BY <2>2, <2>4
  <2>. HIDE DEF L
  <2>. QED  BY <2>1, <2>5, <2>6 DEF Passes
<1>. QED  BY <1>1, <1>2, <1>3, <1>4, <1>5 DEF Pass

-----------------------------------------------------------------------------
LEMMA PhaseStep ==
  ASSUME PhaseInv, [Next]_vars
  PROVE  PhaseInv'
<1>1. CASE UNCHANGED vars
  BY <1>1 DEF PhaseInv, NextUsed, vars
<1>2. ASSUME NEW p \in todo, NextPackage(p) PROVE PhaseInv'
  BY <1>2 DEF PhaseInv, NextPackage, Passes, Phases
<1>3. CASE Pass
  <2>1. /\ phase \in Passes /\ phase' \in (Passes \ {"defs"}) \cup {"next"}
        /\ UNCHANGED <<program, todo, cur, used, left, reported>>
    BY <1>3, PassFact
  <2>. QED  BY <2>1 DEF PhaseInv, Passes, Phases
<1>4. CASE LinkTypes
  BY <1>4 DEF LinkTypes, PhaseInv, Passes, Phases
<1>5. CASE MarkNodesUsed
  BY <1>5 DEF MarkNodesUsed, PhaseInv, Passes, Phases
<1>6. CASE MarkUsed
  BY <1>6 DEF MarkUsed, PhaseInv, Passes, Phases, NextUsed, graph
<1>7. ASSUME NEW n \in left, MarkQuiet(n) PROVE PhaseInv'
  BY <1>7 DEF MarkQuiet, PhaseInv, Passes, Phases, NextUsed
<1>8. CASE Report
  BY <1>8 DEF Report, PhaseInv, Passes, Phases, NextUsed, graph
<1>. QED  BY <1>1, <1>2, <1>3, <1>4, <1>5, <1>6, <1>7, <1>8 DEF Next, Pass

LEMMA QuietAtFact ==
  ASSUME NEW n
  PROVE  /\ \A k \in QuietAt(n) : \E x : k = Obj(x)
         /\ n[1] = "scope" => QuietAt(n) = ScopeNames(n[2]) \cap nodes
         /\ n[1] = "type" /\ KindOf(n[2]) = "named" =>
              QuietAt(n) = UNION {{Obj(m)} \cup (ScopeNames(objs[m].scope) \cap nodes) : m \in types[n[2]].methods}
         /\ n[1] = "type" /\ KindOf(n[2]) = "struct" => QuietAt(n) = {Obj(f) : f \in ToSet(types[n[2]].fields)}
         /\ n[1] = "type" /\ KindOf(n[2]) \notin {"named", "struct"} => QuietAt(n) = {}
         /\ n[1] = "obj" /\ n[2] \in FunctionsOf(program) => QuietAt(n) \subseteq ScopeNames(objs[n[2]].scope) \cap nodes
         /\ n[1] = "obj" /\ n[2] \notin FunctionsOf(program) => QuietAt(n) = {}
         /\ n[1] \notin {"obj", "type", "scope"} => QuietAt(n) = {}
<1>1. \A s : \A k \in ScopeNames(s) : \E x : k = Obj(x)
  BY DEF ScopeNames
<1>2. CASE n[1] = "scope"
  BY <1>1, <1>2 DEF QuietAt
<1>3. CASE n[1] = "type" /\ KindOf(n[2]) = "named"
  BY <1>1, <1>3 DEF QuietAt
<1>4. CASE n[1] = "type" /\ KindOf(n[2]) = "struct"
  <2>1. Fields(n[2]) = types[n[2]].fields
    BY <1>4 DEF Fields, Underlying
  <2>. QED  BY <2>1, <1>4 DEF QuietAt
<1>5. CASE n[1] = "type" /\ KindOf(n[2]) \notin {"named", "struct"}
  BY <1>5 DEF QuietAt
<1>6. CASE n[1] = "obj"
  BY <1>1, <1>6 DEF QuietAt
<1>7. CASE n[1] \notin {"obj", "type", "scope"}
  BY <1>7 DEF QuietAt
<1>. QED  BY <1>2, <1>3, <1>4, <1>5, <1>6, <1>7

LEMMA GraphStep ==
  ASSUME PhaseInv, GraphInv, [Next]_vars
  PROVE  GraphInv' /\ nodes \subseteq nodes' /\ uses \subseteq uses' /\ roots \subseteq roots' /\ program' = program
<1>1. CASE UNCHANGED vars
  BY <1>1 DEF GraphInv, vars
<1>2. ASSUME NEW p \in todo, NextPackage(p) PROVE GraphInv' /\ UNCHANGED <<nodes, uses, roots, program>>
  BY <1>2 DEF GraphInv, NextPackage, graph
<1>3. CASE Pass
  <2>1. PICK L : /\ MarkUsedBy(L)
                 /\ \A l \in L : Good(l)
                 /\ \A r \in roots' \ roots : \E x : r = Obj(x) /\ <<Obj(x), Obj(x)>> \in L
    BY <1>3, PassFact
  <2>2. /\ used' = used /\ roots \subseteq roots' /\ program' = program
    BY <1>3, PassFact
  <2>3. \A l \in L : IsNode(l[1]) /\ IsNode(l[2])
    BY <2>1 DEF Good
  <2>4. /\ \A n \in nodes' : IsNode(n)
        /\ nodes \subseteq nodes' /\ uses \subseteq uses' /\ uses' \subseteq nodes' \X nodes'
        /\ \A l \in L : NodeOf(l[1]) \in nodes'
    BY <2>1, <2>3, MarkFact DEF GraphInv
  <2>5. \A r \in roots' \ roots : r \in nodes'
    <3>. SUFFICES ASSUME NEW r \in roots' \ roots PROVE r \in nodes'
      OBVIOUS
    <3>1. PICK x : r = Obj(x) /\ <<Obj(x), Obj(x)>> \in L
      BY <2>1
    <3>. DEFINE l == <<Obj(x), Obj(x)>>
    <3>2. NodeOf(l[1]) \in nodes'
      BY <2>4, <3>1
    <3>. QED  BY <3>1, <3>2, NodeOfFact
  <2>. QED  BY <2>2, <2>4, <2>5 DEF GraphInv
<1>4. CASE LinkTypes
  <2>1. /\ nodes' = nodes /\ roots' = roots /\ used' = used /\ program' = program /\ uses \subseteq uses'
        /\ \A q \in uses' \ uses : \E n \in nodes : q = <<n, Type(objs[n[2]].type)>> /\ Type(objs[n[2]].type) \in nodes
    BY <1>4 DEF LinkTypes
  <2>2. uses' \subseteq nodes \X nodes
    BY <2>1 DEF GraphInv
  <2>. QED  BY <2>1, <2>2 DEF GraphInv
<1>5. CASE MarkNodesUsed
  <2>1. /\ UNCHANGED <<nodes, uses, roots, program>> /\ used' = used \cup NextUsed
    BY <1>5 DEF MarkNodesUsed, graph
  <2>2. NextUsed \subseteq nodes
    BY DEF GraphInv, NextUsed
  <2>. QED  BY <2>1, <2>2 DEF GraphInv
<1>6. CASE MarkUsed
  BY <1>6 DEF MarkUsed, GraphInv, graph
<1>7. ASSUME NEW n \in left, MarkQuiet(n) PROVE GraphInv' /\ nodes \subseteq nodes' /\ UNCHANGED <<uses, roots, program>>
  <2>1. /\ nodes' = nodes \cup QuietAt(n) /\ UNCHANGED <<uses, roots, used, program>>
    BY <1>7 DEF MarkQuiet
  <2>2. \A k \in QuietAt(n) : IsNode(k)
    BY QuietAtFact DEF IsNode, Obj
  <2>. QED  BY <2>1, <2>2 DEF GraphInv
<1>8. CASE Report
  BY <1>8 DEF Report, GraphInv, graph
<1>. QED  BY <1>1, <1>2, <1>3, <1>4, <1>5, <1>6, <1>7, <1>8 DEF Next, Pass

LEMMA SameScopeInv ==
  ASSUME ScopeInv, UNCHANGED <<program, uses, roots, used>>
  PROVE  ScopeInv'
  BY SameProgram, SameScopes DEF ScopeInv

LEMMA ScopeStep ==
  ASSUME PhaseInv, GraphInv, ScopeInv, [Next]_vars
  PROVE  ScopeInv'
<1>1. CASE UNCHANGED vars
  BY <1>1, SameScopeInv DEF vars
<1>2. ASSUME NEW p \in todo, NextPackage(p) PROVE ScopeInv'
  BY <1>2, SameScopeInv DEF NextPackage, graph
<1>3. CASE Pass
  <2>1. PICK L : /\ MarkUsedBy(L)
                 /\ \A l \in L : Good(l)
                 /\ \A r \in roots' \ roots : \E x : r = Obj(x) /\ <<Obj(x), Obj(x)>> \in L
    BY <1>3, PassFact
  <2>2. used' = used /\ program' = program /\ phase \in Passes
    BY <1>3, PassFact
  <2>3. used' = {}
    BY <2>2 DEF PhaseInv, Passes
  <2>4. \A r \in roots' : r[1] = "obj"
    <3>1. \A x : Obj(x)[1] = "obj"
      BY DEF Obj
    <3>2. \A r \in roots' \ roots : r[1] = "obj"
      BY <2>1, <3>1
    <3>. QED  BY <3>2 DEF ScopeInv
  <2>5. (\A q \in uses : UsedAsScope(q[2], q[1]))'
    BY <2>1, <2>2, MarkScopes DEF GraphInv, ScopeInv
  <2>. QED  BY <2>3, <2>4, <2>5 DEF ScopeInv
<1>4. CASE LinkTypes
  <2>1. /\ roots' = roots /\ used' = used /\ program' = program
        /\ \A q \in uses' \ uses : \E n \in nodes : q = <<n, Type(objs[n[2]].type)>>
    BY <1>4 DEF LinkTypes
  <2>2. \A q \in uses' : UsedAsScope(q[2], q[1])
    BY <2>1 DEF ScopeInv, UsedAsScope, Type
  <2>. QED  BY <2>1, <2>2, SameProgram, SameScopes DEF ScopeInv
<1>5. CASE MarkNodesUsed
  <2>1. /\ UNCHANGED <<uses, roots, program>> /\ used' = used \cup NextUsed
    BY <1>5 DEF MarkNodesUsed, graph
  <2>2. ASSUME NEW n \in used', n[1] = "scope", n[2] \notin PackageNames PROVE \E b \in used' : ScopeOf(n, b)
    <3>1. CASE n \in used
      BY <2>1, <2>2, <3>1 DEF ScopeInv
    <3>2. CASE n \in roots
      BY <2>2, <3>2 DEF ScopeInv
    <3>3. CASE n \notin used /\ n \notin roots
      <4>1. PICK q \in uses : q[1] \in used /\ n = q[2]
        BY <2>1, <3>3 DEF NextUsed
      <4>2. UsedAsScope(n, q[1])
        BY <4>1 DEF ScopeInv
      <4>. QED  BY <2>1, <2>2, <4>1, <4>2 DEF UsedAsScope
    <3>. QED  BY <3>1, <3>2, <3>3
  <2>3. \A n \in used' : n[1] = "scope" => n[2] \in PackageNames' \/ \E b \in used' : ScopeOf(n, b)'
    BY <2>1, <2>2, SameProgram, SameScopes
  <2>. QED  BY <2>1, <2>3, SameScopes DEF ScopeInv
<1>6. CASE MarkUsed
  BY <1>6, SameScopeInv DEF MarkUsed, graph
<1>7. ASSUME NEW n \in left, MarkQuiet(n) PROVE ScopeInv'
  BY <1>7, SameScopeInv DEF MarkQuiet
<1>8. CASE Report
  BY <1>8, SameScopeInv DEF Report, graph
<1>. QED  BY <1>1, <1>2, <1>3, <1>4, <1>5, <1>6, <1>7, <1>8 DEF Next, Pass

(* What is entered stays entered.                                          *)
LEMMA EnteredStays ==
  ASSUME program' = program, nodes \subseteq nodes', roots \subseteq roots', quiet \subseteq quiet', NEW x, Entered(x)
  PROVE  Entered(x)'
  BY SameProgram DEF Entered

LEMMA QuietGrows ==
  ASSUME PhaseInv, [Next]_vars
  PROVE  quiet \subseteq quiet'
<1>1. CASE Pass
  BY <1>1, PassFact
<1>2. CASE MarkUsed \/ \E n \in left : MarkQuiet(n)
  BY <1>2 DEF MarkUsed, MarkQuiet
<1>3. CASE ~Pass /\ ~MarkUsed /\ ~(\E n \in left : MarkQuiet(n))
  BY <1>3 DEF Next, Pass, NextPackage, LinkTypes, MarkNodesUsed, Report, vars
<1>. QED  BY <1>1, <1>2, <1>3

LEMMA DefsStep ==
  ASSUME PhaseInv, GraphInv, DefsInv, [Next]_vars
  PROVE  DefsInv'
<1>1. nodes \subseteq nodes' /\ roots \subseteq roots' /\ quiet \subseteq quiet' /\ program' = program
  BY GraphStep, QuietGrows
<1>2. \A x : Entered(x) => Entered(x)'
  BY <1>1, EnteredStays
<1>. SUFFICES ASSUME NEW p \in program.initial, p \notin todo', ~(phase' = "defs" /\ p = cur'),
                     NEW x \in program.pkgs[p].defs
              PROVE  Entered(x)'
  BY <1>1 DEF DefsInv
<1>3. CASE p \notin todo /\ ~(phase = "defs" /\ p = cur)
  BY <1>2, <1>3 DEF DefsInv
<1>4. CASE p \in todo
  <2>1. ASSUME NEW q \in todo, NextPackage(q) PROVE FALSE
    BY <1>4, <2>1 DEF NextPackage
  <2>2. ~Pass
    BY <1>4, PassFact
  <2>3. ~LinkTypes /\ ~MarkNodesUsed /\ ~MarkUsed /\ ~(\E n \in left : MarkQuiet(n)) /\ ~Report
    BY <1>4 DEF LinkTypes, MarkNodesUsed, MarkUsed, MarkQuiet, Report
  <2>4. ~UNCHANGED vars
    BY <1>4 DEF vars
  <2>. QED  BY <2>1, <2>2, <2>3, <2>4 DEF Next, Pass
<1>5. CASE phase = "defs" /\ p = cur
  <2>1. ProcessDefs
    <3>1. ~UNCHANGED vars
      BY <1>5 DEF vars
    <3>. QED
      BY <1>5, <3>1 DEF Next, NextPackage, ProcessUses, ProcessTypes, ProcessSelections, ProcessAST, LinkTypes,
         MarkNodesUsed, MarkUsed, MarkQuiet, Report
  <2>. DEFINE A == UNION {DefLinks(y) : y \in Package.defs}
              B == {<<Obj(y), Obj(y)>> : y \in Package.defs}
              L == B \cup A
  <2>2. /\ MarkUsedBy(L)
        /\ roots' = roots \cup {Obj(y) : y \in {z \in Package.defs : DefRoots(z)}}
        /\ quiet' = quiet \cup {Obj(y) : y \in {z \in Package.defs : objs[z].kind # "pkgname" /\ IsBlank(z)}}
    BY <2>1 DEF ProcessDefs
  <2>3. x \in Package.defs
    BY <1>5 DEF Package
  <2>4. \A l \in L : Good(l)
    <3>1. \A l \in A : Good(l)
      BY <1>5, PackageFact, DefLinksFact DEF PhaseInv, Passes
    <3>2. \A l \in B : Good(l)
      BY GoodLinks
    <3>. HIDE DEF A, B
    <3>. QED  BY <3>1, <3>2
  <2>5. <<Obj(x), Obj(x)>> \in L
    BY <2>3
  <2>6. objs[x].kind = "func" => <<Scope(TopmostScope(objs[x].scope)), Obj(x)>> \in L
    BY <2>3, DefLinksScope
  <2>. HIDE DEF L
  <2>7. \A l \in L : NodeOf(l[1]) \in nodes'
    BY <2>2, <2>4, MarkFact DEF Good, GraphInv
  <2>8. NodeOf(Obj(x)) \in nodes'
    <3>. DEFINE l == <<Obj(x), Obj(x)>>
    <3>1. NodeOf(l[1]) \in nodes'
      BY <2>5, <2>7
    <3>. QED  BY <3>1
  <2>9. objs[x].kind = "func" => NodeOf(Scope(TopmostScope(objs[x].scope))) \in nodes'
    <3>. DEFINE l == <<Scope(TopmostScope(objs[x].scope)), Obj(x)>>
    <3>1. objs[x].kind = "func" => NodeOf(l[1]) \in nodes'
      BY <2>6, <2>7
    <3>. QED  BY <3>1
  <2>10. objs[x].kind = "pkgname" => DefRoots(x)
    BY DEF DefRoots, IsRoot
  <2>. QED  BY <1>1, <2>2, <2>3, <2>8, <2>9, <2>10, NodeOfFact, SameProgram DEF Entered
<1>. QED  BY <1>3, <1>4, <1>5

(* The nodes that are added while the nodes are iterated over are quiet.   *)
LEMMA QuietAtStays ==
  ASSUME program' = program, nodes \subseteq nodes', NEW n
  PROVE  QuietAt(n)' \subseteq QuietAt(n) \cup (nodes' \ nodes)
<1>1. /\ types' = types /\ objs' = objs /\ KindOf(n[2])' = KindOf(n[2])
      /\ CheckFlags(n[2])' = CheckFlags(n[2])
      /\ \A s : ScopeNames(s)' = ScopeNames(s)
      /\ Fields(n[2])' = Fields(n[2])
  BY SameProgram DEF KindOf, Fields, Underlying
<1>2. CASE n[1] = "scope"
  BY <1>1, <1>2 DEF QuietAt
<1>3. CASE n[1] = "type" /\ KindOf(n[2]) = "named"
  BY <1>1, <1>3 DEF QuietAt
<1>4. CASE n[1] = "type" /\ KindOf(n[2]) = "struct"
  BY <1>1, <1>4 DEF QuietAt
<1>5. CASE n[1] = "type" /\ KindOf(n[2]) \notin {"named", "struct"}
  BY <1>1, <1>5 DEF QuietAt
<1>6. CASE n[1] = "obj"
  BY <1>1, <1>6 DEF QuietAt
<1>7. CASE n[1] \notin {"obj", "type", "scope"}
  BY <1>1, <1>7 DEF QuietAt
<1>. QED  BY <1>2, <1>3, <1>4, <1>5, <1>6, <1>7

LEMMA QuietAtSame ==
  ASSUME program' = program, nodes' = nodes
  PROVE  /\ \A n : QuietAt(n)' = QuietAt(n)
         /\ Unchecked' = Unchecked
<1>1. /\ types' = types /\ objs' = objs /\ \A t : KindOf(t)' = KindOf(t) /\ Fields(t)' = Fields(t)
      /\ \A x : CheckFlags(x)' = CheckFlags(x)
      /\ \A s : ScopeNames(s)' = ScopeNames(s)
  BY SameProgram DEF KindOf, Fields, Underlying
<1>2. Unchecked' = Unchecked
  BY <1>1 DEF Unchecked
<1>3. \A n : QuietAt(n)' = QuietAt(n)
  BY <1>1 DEF QuietAt
<1>. QED  BY <1>2, <1>3

LEMMA QuietStep ==
  ASSUME PhaseInv, GraphInv, QuietInv, [Next]_vars
  PROVE  QuietInv'
<1>1. CASE UNCHANGED vars
  <2>1. UNCHANGED <<program, phase, nodes, used, quiet, left>>
    BY <1>1 DEF vars
  <2>. QED  BY <2>1, QuietAtSame, SameProgram DEF QuietInv
<1>2. ASSUME NEW p \in todo, NextPackage(p) PROVE QuietInv'
  BY <1>2, SameProgram DEF QuietInv, NextPackage
<1>3. CASE Pass
  BY <1>3, PassFact, SameProgram DEF QuietInv, Passes
<1>4. CASE LinkTypes
  BY <1>4, SameProgram DEF QuietInv, LinkTypes
<1>5. CASE MarkNodesUsed
  BY <1>5, SameProgram DEF QuietInv, MarkNodesUsed
<1>6. CASE MarkUsed
  <2>1. /\ phase' = "quiet" /\ UNCHANGED <<program, nodes, used>>
        /\ quiet' = quiet \cup (Unchecked \ used)
        /\ left' = {n \in nodes \ used : ~(QuietAt(n) \subseteq quiet')}
    BY <1>6 DEF MarkUsed, graph
  <2>2. Unchecked' \ used' \subseteq quiet'
    BY <2>1, QuietAtSame
  <2>3. \A n \in nodes' \ used' : n \in left' \/ QuietAt(n)' \subseteq quiet'
    BY <2>1, QuietAtSame
  <2>4. left' \subseteq nodes' \ used'
    BY <2>1
  <2>. QED  BY <2>1, <2>2, <2>3, <2>4 DEF QuietInv
<1>7. ASSUME NEW n \in left, MarkQuiet(n) PROVE QuietInv'
  <2>1. PICK seen \in SUBSET (nodes' \ nodes) : left' = {m \in left \cup seen : ~(QuietAt(m) \subseteq quiet')}
    BY <1>7 DEF MarkQuiet
  <2>2. /\ phase = "quiet" /\ phase' = "quiet" /\ UNCHANGED <<program, used>>
        /\ quiet' = quiet \cup QuietAt(n) /\ nodes' = nodes \cup QuietAt(n)
    BY <1>7 DEF MarkQuiet
  <2>3. /\ left \subseteq nodes \ used
        /\ Unchecked \ used \subseteq quiet
        /\ \A m \in nodes \ used : m[1] \in {"type", "scope"} => m \in left \/ QuietAt(m) \subseteq quiet
    BY <2>2 DEF QuietInv
  <2>4. left' \subseteq nodes' \ used'
    BY <2>1, <2>2, <2>3 DEF GraphInv
  <2>5. Unchecked' \ used' \subseteq quiet'
    BY <2>2, <2>3, SameProgram DEF Unchecked
  <2>6. ASSUME NEW m \in nodes' \ used', m[1] \in {"type", "scope"} PROVE m \in left' \/ QuietAt(m)' \subseteq quiet'
    <3>1. \A k \in QuietAt(n) : k[1] = "obj"
      BY QuietAtFact DEF Obj
    <3>2. m \in nodes \ used
      BY <2>2, <2>6, <3>1
    <3>3. m \in left' \/ QuietAt(m) \subseteq quiet'
      BY <2>1, <2>2, <2>3, <2>6, <3>2
    <3>4. QuietAt(m)' \subseteq QuietAt(m) \cup (nodes' \ nodes)
      BY <2>2, QuietAtStays
    <3>. QED  BY <2>2, <3>3, <3>4
  <2>. QED  BY <2>2, <2>4, <2>5, <2>6 DEF QuietInv
<1>8. CASE Report
  <2>1. UNCHANGED <<program, nodes, used, quiet, left>> /\ phase = "quiet" /\ phase' = "done" /\ left = {}
    BY <1>8 DEF Report, graph
  <2>. QED  BY <2>1, QuietAtSame, SameProgram DEF QuietInv
<1>. QED  BY <1>1, <1>2, <1>3, <1>4, <1>5, <1>6, <1>7, <1>8 DEF Next, Pass

-----------------------------------------------------------------------------
LEMMA TopScope ==
  ASSUME program \in Programs, FunctionsAtTop(program), NEW f \in Functions
  PROVE  TopmostScope(objs[f].scope) = objs[f].scope /\ objs[f].scope \notin PackageNames
<1>1. WellFormed(program)
  BY ProgramsAssumption
<1>. QED  BY <1>1 DEF FunctionsAtTop, Functions, TopmostScope, IsTopmost, PackageNames, objs, WellFormed

(* The scope of a function that is not used is a node that is not used.    *)
LEMMA UnusedScope ==
  ASSUME PhaseInv, GraphInv, ScopeInv, DefsInv, phase \in {"quiet", "done"}, FunctionsAtTop(program),
         NEW f \in Functions, Obj(f) \notin used
  PROVE  Scope(objs[f].scope) \in nodes \ used
<1>1. program \in Programs /\ todo = {} /\ phase # "defs"
  BY DEF PhaseInv
<1>2. f \in DOMAIN objs /\ objs[f].kind = "func"
  BY DEF Functions, FunctionsOf, objs
<1>3. PICK p \in program.initial : f \in program.pkgs[p].defs
  BY DEF Functions, Declared
<1>4. Entered(f)
  BY <1>1, <1>3 DEF DefsInv
<1>5. Scope(objs[f].scope) \in nodes
  BY <1>1, <1>2, <1>4, TopScope DEF Entered
<1>6. ASSUME Scope(objs[f].scope) \in used PROVE FALSE
  <2>1. Scope(objs[f].scope)[1] = "scope" /\ Scope(objs[f].scope)[2] = objs[f].scope
    BY DEF Scope
  <2>2. PICK b \in used : ScopeOf(Scope(objs[f].scope), b)
    BY <1>1, <1>6, <2>1, TopScope DEF ScopeInv
  <2>3. PICK g \in Functions : b = Obj(g) /\ Scope(objs[f].scope) = Scope(TopmostScope(objs[g].scope))
    BY <2>2 DEF ScopeOf
  <2>4. objs[f].scope = objs[g].scope
    BY <1>1, <2>3, TopScope DEF Scope
  <2>5. WellFormed(program)
    BY <1>1, ProgramsAssumption
  <2>6. g = f
    BY <2>4, <2>5 DEF WellFormed, Functions, objs
  <2>. QED  BY <2>2, <2>3, <2>6
<1>. QED  BY <1>5, <1>6

LEMMA InsideStays ==
  ASSUME program' = program, nodes \subseteq nodes', used' = used, NEW x, InsideUnused(x)
  PROVE  InsideUnused(x)'
<1>1. /\ types' = types /\ objs' = objs /\ \A t : KindOf(t)' = KindOf(t)
      /\ \A n : MethodsOf(n)' = MethodsOf(n) /\ \A s : ScopeNames(s)' = ScopeNames(s)
  BY SameProgram DEF KindOf
<1>. QED  BY <1>1 DEF InsideUnused

(* What becomes quiet at a node that is not used is part of something      *)
(* larger that is not used.                                                *)
LEMMA QuietIsInside ==
  ASSUME PhaseInv, GraphInv, ScopeInv, DefsInv, phase \in {"quiet", "done"}, FunctionsAtTop(program),
         NEW n \in nodes \ used, NEW x \in Declared(program), Obj(x) \in QuietAt(n)
  PROVE  InsideUnused(x)
<1>0. \A a, b : Obj(a) = Obj(b) => a = b
  BY DEF Obj
<1>1. CASE n[1] = "scope"
  BY <1>1, QuietAtFact DEF InsideUnused
<1>2. CASE n[1] = "type" /\ KindOf(n[2]) = "named"
  <2>1. PICK m \in types[n[2]].methods : Obj(x) = Obj(m) \/ Obj(x) \in ScopeNames(objs[m].scope)
    BY <1>2, QuietAtFact
  <2>2. MethodsOf(n) = types[n[2]].methods
    BY <1>2 DEF MethodsOf
  <2>. QED  BY <1>0, <2>1, <2>2 DEF InsideUnused
<1>3. CASE n[1] = "type" /\ KindOf(n[2]) = "struct"
  BY <1>0, <1>3, QuietAtFact DEF InsideUnused
<1>4. CASE n[1] = "obj" /\ n[2] \in FunctionsOf(program)
  <2>. DEFINE f == n[2]
  <2>1. n = Obj(f)
    BY <1>4 DEF GraphInv, IsNode, Obj
  <2>2. Obj(x) \in ScopeNames(objs[f].scope)
    BY <1>4, QuietAtFact
  <2>3. IsLocal(program, x) /\ Inside(program, objs[x].parent, objs[f].scope)
    BY <1>0, <2>2 DEF ScopeNames
  <2>4. f \in Functions
    <3>1. WellFormed(program)
      BY ProgramsAssumption DEF PhaseInv
    <3>. QED  BY <1>4, <2>3, <3>1 DEF WellFormed, Functions, objs
  <2>. HIDE DEF f
  <2>5. Scope(objs[f].scope) \in nodes \ used
    BY <2>1, <2>4, UnusedScope
  <2>6. Scope(objs[f].scope)[1] = "scope" /\ Scope(objs[f].scope)[2] = objs[f].scope
    BY DEF Scope
  <2>. QED  BY <2>2, <2>5, <2>6 DEF InsideUnused
<1>. QED  BY <1>1, <1>2, <1>3, <1>4, QuietAtFact

LEMMA SoundStep ==
  ASSUME PhaseInv, GraphInv, ScopeInv, DefsInv, QuietInv, SoundInv, [Next]_vars
  PROVE  SoundInv'
<1>0. \A a, b : Obj(a) = Obj(b) => a = b
  BY DEF Obj
<1>1. program' = program /\ nodes \subseteq nodes'
  BY GraphStep
<1>. SUFFICES ASSUME phase' \in {"quiet", "done"}, FunctionsAtTop(program), NEW x \in Declared(program), Obj(x) \in quiet'
              PROVE  IsBlank(x) \/ ~CheckFlags(x) \/ InsideUnused(x)'
  BY <1>1, SameProgram DEF SoundInv
<1>2. ASSUME UNCHANGED <<used, quiet>>, phase \in {"quiet", "done"}
      PROVE  IsBlank(x) \/ ~CheckFlags(x) \/ InsideUnused(x)'
  BY <1>1, <1>2, InsideStays DEF SoundInv
<1>3. CASE MarkUsed
  <2>1. phase = "mark" /\ quiet' = quiet \cup (Unchecked \ used)
    BY <1>3 DEF MarkUsed
  <2>2. CASE Obj(x) \in quiet
    BY <1>0, <2>1, <2>2 DEF QuietInv
  <2>3. CASE Obj(x) \in Unchecked
    <3>1. Obj(x)[2] = x
      BY DEF Obj
    <3>. QED  BY <2>3, <3>1 DEF Unchecked
  <2>. QED  BY <2>1, <2>2, <2>3
<1>4. ASSUME NEW n \in left, MarkQuiet(n) PROVE IsBlank(x) \/ ~CheckFlags(x) \/ InsideUnused(x)'
  <2>1. phase = "quiet" /\ quiet' = quiet \cup QuietAt(n) /\ used' = used
    BY <1>4 DEF MarkQuiet
  <2>2. CASE Obj(x) \in quiet
    BY <1>1, <2>1, <2>2, InsideStays DEF SoundInv
  <2>3. CASE Obj(x) \in QuietAt(n)
    <3>1. n \in nodes \ used
      BY <2>1 DEF QuietInv
    <3>2. InsideUnused(x)
      BY <2>1, <2>3, <3>1, QuietIsInside
    <3>. QED  BY <1>1, <2>1, <3>2, InsideStays
  <2>. QED  BY <2>1, <2>2, <2>3
<1>5. CASE UNCHANGED vars \/ Report
  BY <1>2, <1>5 DEF vars, Report
<1>6. CASE Pass
  BY <1>6, PassFact DEF Passes
<1>7. CASE (\E p \in todo : NextPackage(p)) \/ LinkTypes \/ MarkNodesUsed
  BY <1>7 DEF NextPackage, LinkTypes, MarkNodesUsed
<1>. QED  BY <1>3, <1>4, <1>5, <1>6, <1>7 DEF Next, Pass

LEMMA ReportStep ==
  ASSUME PhaseInv, ReportInv, [Next]_vars
  PROVE  ReportInv'
<1>1. CASE UNCHANGED vars
  <2>1. UNCHANGED <<program, phase, nodes, used, quiet, reported>>
    BY <1>1 DEF vars
  <2>. QED  BY <2>1, SameProgram DEF ReportInv
<1>2. CASE Report
  <2>1. /\ UNCHANGED <<program, nodes, used, quiet>>
        /\ reported' = {x \in DOMAIN objs : Obj(x) \in nodes \ (used \cup quiet) /\ Reportable(x)}
    BY <1>2 DEF Report, graph
  <2>. QED  BY <2>1, SameProgram DEF ReportInv
<1>3. CASE Pass
  BY <1>3, PassFact DEF ReportInv, Passes
<1>4. ASSUME NEW p \in todo, NextPackage(p) PROVE ReportInv'
  BY <1>4 DEF NextPackage, ReportInv
<1>5. ASSUME NEW n \in left, MarkQuiet(n) PROVE ReportInv'
  BY <1>5 DEF MarkQuiet, ReportInv
<1>6. CASE LinkTypes \/ MarkNodesUsed \/ MarkUsed
  BY <1>6 DEF LinkTypes, MarkNodesUsed, MarkUsed, ReportInv
<1>. QED  BY <1>1, <1>2, <1>3, <1>4, <1>5, <1>6 DEF Next, Pass

-----------------------------------------------------------------------------
LEMMA InvInit == Init => Inv
<1>. SUFFICES ASSUME Init PROVE Inv
  OBVIOUS
<1>1. PhaseInv
  BY DEF Init, PhaseInv, Phases, Passes
<1>2. GraphInv /\ ScopeInv /\ DefsInv /\ QuietInv /\ SoundInv /\ ReportInv
  BY DEF Init, GraphInv, ScopeInv, DefsInv, QuietInv, SoundInv, ReportInv
<1>. QED  BY <1>1, <1>2 DEF Inv

LEMMA InvNext == Inv /\ [Next]_vars => Inv'
<1>. SUFFICES ASSUME Inv, [Next]_vars PROVE Inv'
  OBVIOUS
<1>1. PhaseInv /\ GraphInv /\ ScopeInv /\ DefsInv /\ QuietInv /\ SoundInv /\ ReportInv
  BY DEF Inv
<1>. QED  BY <1>1, PhaseStep, GraphStep, ScopeStep, DefsStep, QuietStep, SoundStep, ReportStep DEF Inv

(* At the end everything that is part of something unused is quiet.        *)
LEMMA InsideIsQuiet ==
  ASSUME Inv, phase = "done", NEW x, Obj(x) \in nodes, InsideUnused(x)
  PROVE  Obj(x) \in quiet
<1>1. \A n \in nodes \ used : n[1] \in {"type", "scope"} => QuietAt(n) \subseteq quiet
  BY DEF Inv, QuietInv
<1>2. PICK n \in nodes \ used :
        \/ x \in MethodsOf(n)
        \/ \E m \in MethodsOf(n) : Obj(x) \in ScopeNames(objs[m].scope)
        \/ n[1] = "type" /\ KindOf(n[2]) = "struct" /\ x \in ToSet(types[n[2]].fields)
        \/ n[1] = "scope" /\ Obj(x) \in ScopeNames(n[2])
  BY DEF InsideUnused
<1>3. ASSUME NEW m \in MethodsOf(n), x = m \/ Obj(x) \in ScopeNames(objs[m].scope) PROVE Obj(x) \in quiet
  <2>1. n[1] = "type" /\ KindOf(n[2]) = "named" /\ m \in types[n[2]].methods
    BY DEF MethodsOf
  <2>2. Obj(x) \in QuietAt(n)
    BY <1>3, <2>1, QuietAtFact
  <2>. QED  BY <1>1, <2>1, <2>2
<1>4. CASE n[1] = "type" /\ KindOf(n[2]) = "struct" /\ x \in ToSet(types[n[2]].fields)
  BY <1>1, <1>4, QuietAtFact
<1>5. CASE n[1] = "scope" /\ Obj(x) \in ScopeNames(n[2])
  BY <1>1, <1>5, QuietAtFact
<1>. QED  BY <1>2, <1>3, <1>4, <1>5

LEMMA InvReport == Inv /\ FunctionsAtTop(program) => ReportIsExact
<1>. SUFFICES ASSUME Inv, FunctionsAtTop(program), phase = "done"
              PROVE  reported = {x \in Declared(program) :
                                   /\ Reportable(x) /\ CheckFlags(x) /\ objs[x].kind # "pkgname" /\ ~IsBlank(x)
                                   /\ Obj(x) \notin used
                                   /\ ~InsideUnused(x)}
  BY DEF ReportIsExact
<1>1. /\ program \in Programs /\ todo = {} /\ NextUsed \subseteq used
  BY DEF Inv, PhaseInv
<1>2. WellFormed(program)
  BY <1>1, ProgramsAssumption
<1>3. \A x \in Declared(program) : x \in DOMAIN objs /\ Entered(x)
  <2>1. \A p \in program.initial : \A x \in program.pkgs[p].defs : Entered(x)
    BY <1>1 DEF Inv, DefsInv
  <2>. QED  BY <1>2, <2>1 DEF Declared, WellFormed, objs
<1>4. \A x \in DOMAIN objs : Reportable(x) => x \in Declared(program)
  BY <1>2 DEF WellFormed, Reportable, objs
<1>5. reported = {x \in DOMAIN objs : Obj(x) \in nodes \ (used \cup quiet) /\ Reportable(x)}
  BY DEF Inv, ReportInv
<1>6. ASSUME NEW x \in Declared(program), Obj(x) \notin used, Obj(x) \notin quiet
      PROVE  CheckFlags(x) /\ objs[x].kind # "pkgname" /\ ~IsBlank(x) /\ ~InsideUnused(x)
  <2>1. Entered(x)
    BY <1>3
  <2>2. objs[x].kind # "pkgname"
    BY <1>1, <1>6, <2>1 DEF Entered, NextUsed
  <2>3. ~IsBlank(x)
    BY <1>6, <2>1, <2>2 DEF Entered
  <2>4. Obj(x)[1] = "obj" /\ Obj(x)[2] = x
    BY DEF Obj
  <2>5. CheckFlags(x)
    BY <1>6, <2>1, <2>4 DEF Inv, QuietInv, Unchecked, Entered
  <2>6. ~InsideUnused(x)
    BY <1>6, <2>1, InsideIsQuiet DEF Entered
  <2>. QED  BY <2>2, <2>3, <2>5, <2>6
<1>7. ASSUME NEW x \in Declared(program), CheckFlags(x), ~IsBlank(x), ~InsideUnused(x)
      PROVE  Obj(x) \notin quiet /\ Obj(x) \in nodes
  BY <1>3, <1>7 DEF Inv, SoundInv, Entered
<1>. QED  BY <1>3, <1>4, <1>5, <1>6, <1>7

(***************************************************************************)
(* For every program in which no interface with methods is declared inside *)
(* a function: Check reports exactly the declarations that the roots do    *)
(* not lead to, that were asked for and are not part of something larger   *)
(* that is not used, in whatever order it comes to packages and nodes and  *)
(* whether or not its iteration comes to the nodes that it adds.           *)
(***************************************************************************)
THEOREM UnusedReportIsExact == Spec => [](FunctionsAtTop(program) => ReportIsExact)
<1>. QED  BY InvInit, InvNext, InvReport, PTL DEF Spec

-----------------------------------------------------------------------------
LEMMA LeastStep ==
  ASSUME PhaseInv, GraphInv, LeastInv, [Next]_vars
  PROVE  LeastInv'
<1>1. CASE UNCHANGED <<uses, roots, used>>
  BY <1>1 DEF LeastInv
<1>2. CASE used' = {}
  BY <1>2 DEF LeastInv
<1>3. CASE MarkNodesUsed
  <2>1. UNCHANGED <<uses, roots>> /\ used' = used \cup NextUsed
    BY <1>3 DEF MarkNodesUsed, graph
  <2>. SUFFICES ASSUME NEW C, roots \subseteq C, \A q \in uses : q[1] \in C => q[2] \in C
                PROVE  used' \subseteq C
    BY <2>1 DEF LeastInv
  <2>2. used \subseteq C
    BY DEF LeastInv
  <2>. QED  BY <2>1, <2>2 DEF NextUsed
<1>4. CASE Pass
  <2>1. used' = {}
    BY <1>4, PassFact DEF PhaseInv, Passes
  <2>. QED  BY <1>2, <2>1
<1>5. CASE LinkTypes
  <2>1. used' = {}
    BY <1>5 DEF LinkTypes, PhaseInv
  <2>. QED  BY <1>2, <2>1
<1>6. CASE UNCHANGED vars \/ (\E p \in todo : NextPackage(p)) \/ MarkUsed \/ (\E n \in left : MarkQuiet(n)) \/ Report
  BY <1>1, <1>6 DEF vars, NextPackage, MarkUsed, MarkQuiet, Report, graph
<1>. QED  BY <1>3, <1>4, <1>5, <1>6 DEF Next, Pass

(* What is used when markNodesQuiet looks at it is what the roots reach,   *)
(* all of it and nothing else: every set that has the roots in it and that *)
(* the edges do not leave holds it, and it is such a set itself.           *)
UsedIsReached ==
  phase \in {"quiet", "done"} =>
    /\ roots \subseteq used /\ \A q \in uses : q[1] \in used => q[2] \in used
    /\ \A C \in SUBSET nodes :
         roots \subseteq C /\ (\A q \in uses : q[1] \in C => q[2] \in C) => used \subseteq C

(***************************************************************************)
(* For every program, the nodes that markNodesUsed has marked when it is   *)
(* done are exactly those that can be reached from the roots.              *)
(***************************************************************************)
THEOREM UnusedMarksTheReached == Spec => []UsedIsReached
<1>1. Init => LeastInv
  BY DEF Init, LeastInv
<1>2. Inv /\ LeastInv /\ [Next]_vars => LeastInv'
  BY LeastStep DEF Inv
<1>3. Inv /\ LeastInv => UsedIsReached
  BY DEF Inv, PhaseInv, LeastInv, UsedIsReached, NextUsed
<1>. QED  BY <1>1, <1>2, <1>3, InvInit, InvNext, PTL DEF Spec

=============================================================================
