------------------------------- MODULE Unused -------------------------------
(***************************************************************************)
(* unused.Checker: a graph of what uses what, over objects, types, scopes  *)
(* and operands; what the roots do not reach is reported, unless it is     *)
(* part of something larger that they do not reach either.                 *)
(*                                                                         *)
(* A program is what go/types says of it: its objects and types, and for   *)
(* each package the objects it defines, the identifiers it uses, the types *)
(* of its expressions, its selections, and what processAST looks for in    *)
(* the syntax.  A package stands for its scope, and the scopes of files    *)
(* are left out.  The passes over the maps of a package only add to sets   *)
(* and each is one step; the iteration over the nodes that adds nodes is   *)
(* taken node by node.                                                     *)
(***************************************************************************)
EXTENDS Naturals, Sequences, FiniteSets, SequencesExt

CONSTANTS
  Programs,  \* the programs and the flags of the checker
  None       \* nil

(* The scope s of the program P is t or inside it.                         *)
Inside(P, s, t) ==
  LET within[u \in DOMAIN P.scopes \cup DOMAIN P.pkgs] ==
        u = t \/ (u \notin DOMAIN P.pkgs /\ within[P.scopes[u]])
  IN within[s]

Syntaxes == {"conversion", "unsafe", "literal", "value", "array", "register", "cgo"}
FunctionsOf(P) == {x \in DOMAIN P.objs : P.objs[x].kind = "func"}
Declared(P) == UNION {P.pkgs[p].defs : p \in P.initial}
IsLocal(P, x) == P.objs[x].parent \in DOMAIN P.scopes

(* go/types: what a package declares is an object of that package, and an  *)
(* object with a place in its files is declared by it.  The names of       *)
(* imports that the source does not give are left out.  A function that is *)
(* declared has a scope of its own, and is declared with the names in it.  *)
WellFormed(P) ==
  /\ P.initial \subseteq DOMAIN P.pkgs
  /\ \A p \in DOMAIN P.pkgs :
       /\ \A x \in P.pkgs[p].defs : x \in DOMAIN P.objs /\ P.objs[x].pkg = p
       /\ \A a \in P.pkgs[p].ast : a.op \in Syntaxes
  /\ \A x \in DOMAIN P.objs :
       P.objs[x].pkg \in P.initial /\ P.objs[x].file \notin {"none", "C", "generated"} => x \in Declared(P)
  /\ \A f \in FunctionsOf(P) \cap Declared(P) :
       /\ P.objs[f].scope \notin DOMAIN P.pkgs
       /\ \A g \in FunctionsOf(P) \cap Declared(P) : P.objs[g].scope = P.objs[f].scope => g = f
  /\ \A x \in {y \in Declared(P) : IsLocal(P, y)}, f \in FunctionsOf(P) :
       Inside(P, P.objs[x].parent, P.objs[f].scope) => f \in Declared(P)
ASSUME ProgramsAssumption == \A P \in Programs : WellFormed(P)

VARIABLES
  program,   \* the program
  phase,     \* what Check does next
  todo,      \* the packages that it has yet to come to
  cur,       \* the package it is at
  nodes,     \* the keys of graph.nodes
  uses,      \* pairs of a node and one that it uses
  roots,     \* graph.roots
  used,      \* the nodes with used
  quiet,     \* the nodes with quiet
  left,      \* markNodesQuiet: the nodes that the iteration will come to
  reported   \* what Check returns

vars == <<program, phase, todo, cur, nodes, uses, roots, used, quiet, left, reported>>
graph == <<nodes, uses>>

(* Keys of nodes.                                                          *)
Obj(x) == <<"obj", x>>
Type(t) == <<"type", t>>
Scope(s) == <<"scope", s>>
Expr(e) == <<"expr", e>>

objs == program.objs
types == program.types
KindOf(t) == types[t].kind
PackageNames == DOMAIN program.pkgs

Init ==
  /\ program \in Programs
  /\ phase = "next" /\ todo = program.initial /\ cur = None
  /\ nodes = {} /\ uses = {} /\ roots = {}
  /\ used = {} /\ quiet = {} /\ left = {} /\ reported = {}

-----------------------------------------------------------------------------
(* What go/types knows of a type.                                          *)
Strip[t \in DOMAIN types] == IF KindOf(t) = "pointer" THEN Strip[types[t].elem] ELSE t

Underlying(t) == IF KindOf(t) = "named" THEN types[t].elem ELSE t
Fields(t) == IF KindOf(Underlying(t)) = "struct" THEN types[Underlying(t)].fields ELSE <<>>

(* IntuitiveMethodSet: the methods of t and *t, each with the embedded     *)
(* fields on the way to it.                                                *)
MethodSet[t \in DOMAIN types] ==
  LET n == Strip[t]
      own == types[n].methods \cup types[Underlying(n)].methods
      Promoted(f) == {[obj |-> m.obj, path |-> <<f>> \o m.path] : m \in MethodSet[objs[f].type]}
  IN {[obj |-> m, path |-> <<>>] : m \in own}
       \cup UNION {Promoted(f) : f \in {g \in ToSet(Fields(n)) : objs[g].embedded}}

NamesOf(M) == {objs[m].name : m \in M}
Implements(t, i) == NamesOf(types[i].methods) \subseteq NamesOf({m.obj : m \in MethodSet[t]})

(* topmostScope                                                            *)
IsTopmost(s) == s \in PackageNames \/ program.scopes[s] \in PackageNames
Outer[s \in DOMAIN program.scopes] ==
  IF IsTopmost(program.scopes[s]) THEN program.scopes[s] ELSE Outer[program.scopes[s]]
TopmostScope(s) == IF IsTopmost(s) THEN s ELSE Outer[s]

-----------------------------------------------------------------------------
(* getNode takes a pointer for what it points to.                          *)
NodeOf(n) == IF n[1] = "type" THEN Type(Strip[n[2]]) ELSE n

(* addObj: the fields of a struct use it.                                  *)
FieldLinks(n) ==
  IF n[1] = "type" /\ KindOf(n[2]) = "struct" THEN {<<Obj(f), n>> : f \in ToSet(types[n[2]].fields)} ELSE {}

(* markUsedBy for each pair of a node and the one that it is used by.      *)
MarkUsedBy(L) ==
  LET pairs == {<<NodeOf(l[2]), NodeOf(l[1])>> : l \in L}
      ends == {p[1] : p \in pairs} \cup {p[2] : p \in pairs}
      links == UNION {FieldLinks(n) : n \in ends}
  IN /\ nodes' = nodes \cup ends \cup {l[1] : l \in links}
     /\ uses' = uses \cup links \cup {p \in pairs : p[1] # p[2]}

-----------------------------------------------------------------------------
IsNoCopyType(t) ==
  /\ KindOf(t) = "named" /\ KindOf(Underlying(t)) = "struct" /\ Fields(t) = <<>>
  /\ NamesOf(types[t].methods) = {"Lock"}
  /\ \A m \in types[t].methods : types[objs[m].type].results = {} /\ types[objs[m].type].params = {}

UseNoCopyFields(t) ==
  UNION {{<<Obj(f), Type(t)>>} \cup {<<Obj(m), Type(objs[f].type)>> : m \in types[objs[f].type].methods} :
           f \in {g \in ToSet(Fields(t)) : IsNoCopyType(objs[g].type)}}

UseExportedFields(t) == {<<Obj(f), Type(t)>> : f \in {g \in ToSet(Fields(t)) : objs[g].exported}}

ExportedMethods(t) == {m \in {x.obj : x \in MethodSet[t]} : objs[m].exported}

UseExportedMethods(t) ==
  {<<Obj(x), Type(t)>> :
     x \in ExportedMethods(t) \cup {f \in ToSet(Fields(t)) : objs[f].embedded /\ ExportedMethods(objs[f].type) # {}}}

(* markFields                                                              *)
MarkFields(t) == {<<Obj(f), Type(t)>> : f \in ToSet(Fields(t))}

IsBlank(x) == objs[x].name = "_"
IsMethod(x) == objs[x].recv # None
IsPkgScope(x) == objs[x].parent = objs[x].pkg
IsMain(x) ==
  program.pkgs[objs[x].pkg].main /\ objs[x].name = "main" /\ IsPkgScope(x) /\ objs[x].kind = "func" /\ ~IsMethod(x)

(* isRoot; the names of tests, benchmarks and examples are "Test".         *)
IsRoot(x) ==
  LET o == objs[x] IN
  \/ o.kind = "pkgname"
  \/ IsMain(x) \/ (o.kind = "func" /\ ~IsMethod(x) /\ o.name = "init")
  \/ o.exported /\ IF o.file = "test" THEN o.name = "Test"
                   ELSE IsPkgScope(x) /\ ~program.pkgs[o.pkg].main /\ ~program.whole

(* processDefs: what it marks for an object.                               *)
DefLinks(x) ==
  LET o == objs[x]
      t == Type(o.type)
      outer == TopmostScope(o.at)
  IN (IF o.kind # "type" THEN {}
      ELSE {<<Type(Underlying(o.type)), t>>, <<t, Obj(x)>>, <<Obj(x), t>>}
             \cup (IF ~program.whole \/ program.reflect THEN UseExportedFields(o.type) ELSE {})
             \cup (IF ~program.whole THEN UseExportedMethods(o.type) ELSE {}))
     \cup (IF o.kind # "pkgname" /\ o.exported THEN {<<t, Obj(x)>>} ELSE {})
     \cup (IF o.kind # "pkgname" /\ IsBlank(x) /\ outer # o.pkg THEN {<<Obj(x), Scope(outer)>>} ELSE {})
     \cup (IF o.kind = "var" /\ ~IsBlank(x) /\ ~IsPkgScope(x)
           THEN {<<Obj(x), Scope(TopmostScope(o.parent))>>, <<t, Obj(x)>>} ELSE {})
     \cup (IF o.kind # "func" THEN {}
           ELSE {<<Obj(x), t>>, <<Scope(TopmostScope(o.scope)), Obj(x)>>}
                  \cup {<<Type(r), Obj(x)>> : r \in types[o.type].results})
     \cup (IF o.kind = "pkgname" THEN {<<Scope(o.pkg), Obj(x)>>} ELSE {})

DefRoots(x) == IsRoot(x) \/ (IsBlank(x) /\ TopmostScope(objs[x].at) = objs[x].pkg)

(* processUses: an identifier.                                             *)
UseLinks(u) ==
  LET o == objs[u.obj]
      scope == TopmostScope(u.scope)
  IN IF o.kind = "pkgname" THEN {}
     ELSE (IF scope \notin PackageNames THEN {<<Obj(u.obj), Scope(scope)>>} ELSE {})
            \cup (IF o.kind \in {"var", "field", "const"} THEN {<<Type(o.type), Obj(u.obj)>>} ELSE {})

(* processTypes: the type of an expression.                                *)
TypeLinks(t, pkg) ==
  CASE KindOf(t) \in {"elem", "pointer"} -> {<<Type(types[t].elem), Type(t)>>}
    [] KindOf(t) = "named" -> {<<Type(t), Type(Underlying(t))>>, <<Type(Underlying(t)), Type(t)>>}
    [] KindOf(t) = "struct" -> UseNoCopyFields(t) \cup (IF ~pkg.main /\ ~program.whole THEN UseExportedFields(t) ELSE {})
    [] OTHER -> {}

InterfacesIn(T) == {t \in T : KindOf(t) = "interface" /\ types[t].methods # {}}

(* findExportedInterfaces                                                  *)
Interfaces ==
  IF program.whole THEN {"error"} \cup InterfacesIn(UNION {program.pkgs[q].types : q \in PackageNames}) ELSE {}

(* processTypes: a named type is meant to implement an interface.          *)
ImplementLinks(t, i) ==
  IF ~Implements(t, i) THEN {}
  ELSE UNION {{<<Type(objs[m.obj].recv), Type(t)>>, <<Obj(m.obj), Type(t)>>}
                \cup (IF m.path # <<>> THEN {<<Obj(m.path[1]), Type(t)>>} ELSE {}) :
                m \in {x \in MethodSet[t] : objs[x.obj].name \in NamesOf(types[i].methods)}}

(* Bug: the embedded fields on the way to a method are left out.           *)
SelectionLinksNoPath(s) == {<<Expr(s.x), Scope(TopmostScope(s.scope))>>, <<Obj(s.obj), Expr(s.x)>>}

(* processSelections: a field or method, by way of embedded fields.        *)
SelectionLinks(s) ==
  {<<Expr(s.x), Scope(TopmostScope(s.scope))>>, <<Obj(s.obj), Expr(s.x)>>}
    \cup {<<Obj(f), Expr(s.x)>> : f \in ToSet(s.path)}

(* processAST: conversions between structs, composite literals, values of  *)
(* declarations, lengths of arrays, and what net/rpc calls.                *)
AstLinks(a) ==
  CASE a.op = "conversion" ->
         LET dst == Fields(Strip[a.dst])
             src == Fields(Strip[a.src])
         IN UNION {{<<Obj(dst[k]), Obj(src[k])>>, <<Obj(src[k]), Obj(dst[k])>>} : k \in DOMAIN dst}
    [] a.op = "unsafe" -> MarkFields(Underlying(Strip[a.dst]))
    [] a.op = "literal" -> IF a.keyed THEN {} ELSE MarkFields(Underlying(a.type))
    [] a.op = "value" -> {<<Obj(x), Obj(a.name)>> : x \in {y \in a.idents : objs[y].kind # "pkgname"}}
    [] a.op = "array" -> {<<Obj(a.len), Type(a.type)>>}
    [] a.op = "register" -> {<<Obj(m.obj), Type(a.type)>> : m \in MethodSet[a.type]}
    [] a.op = "cgo" -> {}

-----------------------------------------------------------------------------
Package == program.pkgs[cur]

NextPackage(p) ==
  /\ phase = "next" /\ p \in todo
  /\ cur' = p /\ todo' = todo \ {p} /\ phase' = "defs"
  /\ UNCHANGED <<program, graph, roots, used, quiet, left, reported>>

ProcessDefs ==
  /\ phase = "defs" /\ phase' = "uses"
  /\ MarkUsedBy({<<Obj(x), Obj(x)>> : x \in Package.defs} \cup UNION {DefLinks(x) : x \in Package.defs})
  /\ roots' = roots \cup {Obj(x) : x \in {y \in Package.defs : DefRoots(y)}}
  /\ quiet' = quiet \cup {Obj(x) : x \in {y \in Package.defs : objs[y].kind # "pkgname" /\ IsBlank(y)}}
  /\ UNCHANGED <<program, todo, cur, used, left, reported>>

ProcessUses ==
  /\ phase = "uses" /\ phase' = "types"
  /\ MarkUsedBy(UNION {UseLinks(u) : u \in Package.uses})
  /\ UNCHANGED <<program, todo, cur, roots, used, quiet, left, reported>>

ProcessTypes ==
  LET named == {t \in Package.types : KindOf(t) = "named"} IN
  /\ phase = "types" /\ phase' = "selections"
  /\ MarkUsedBy((UNION {TypeLinks(t, Package) : t \in Package.types})
                  \cup UNION {ImplementLinks(t, i) : t \in named, i \in InterfacesIn(Package.types) \cup Interfaces})
  /\ UNCHANGED <<program, todo, cur, roots, used, quiet, left, reported>>

ProcessSelections ==
  /\ phase = "selections" /\ phase' = "ast"
  /\ MarkUsedBy(UNION {SelectionLinks(s) : s \in Package.selections})
  /\ UNCHANGED <<program, todo, cur, roots, used, quiet, left, reported>>

(* processAST; a function that is exported to cgo is a root.               *)
ProcessAST ==
  LET exports == {Obj(a.func) : a \in {b \in Package.ast : b.op = "cgo"}} IN
  /\ phase = "ast" /\ phase' = "next"
  /\ MarkUsedBy({<<x, x>> : x \in exports} \cup UNION {AstLinks(a) : a \in Package.ast})
  /\ roots' = roots \cup exports
  /\ UNCHANGED <<program, todo, cur, used, quiet, left, reported>>

(* Every object uses its type, if that has a node.                         *)
LinkTypes ==
  /\ phase = "next" /\ todo = {} /\ phase' = "mark"
  /\ uses' = uses \cup {<<n, Type(objs[n[2]].type)>> :
                          n \in {m \in nodes : m[1] = "obj" /\ Type(objs[m[2]].type) \in nodes}}
  /\ UNCHANGED <<program, todo, cur, nodes, roots, used, quiet, left, reported>>

(* markNodesUsed, for every root: what is used next.                       *)
NextUsed == roots \cup {p[2] : p \in {q \in uses : q[1] \in used}}

(* The calls that are one edge further from the roots.                     *)
MarkNodesUsed ==
  /\ phase = "mark" /\ ~(NextUsed \subseteq used)
  /\ used' = used \cup NextUsed
  /\ UNCHANGED <<program, phase, todo, cur, graph, roots, quiet, left, reported>>

(* checkFlags; a field is a variable too.                                  *)
CheckFlags(x) ==
  /\ objs[x].kind \in {"func", "const", "type"} => objs[x].kind \in program.mode
  /\ objs[x].kind = "var" => "var" \in program.mode
  /\ objs[x].kind = "field" => {"var", "field"} \subseteq program.mode

(* markObjQuiet: the names of a scope and of the scopes inside it.         *)
ScopeNames(s) ==
  IF s \in PackageNames THEN {}
  ELSE {Obj(x) : x \in {y \in DOMAIN objs : IsLocal(program, y) /\ Inside(program, objs[y].parent, s)}}

(* Bug: the fields of a struct that is not used do not become quiet.       *)
QuietAtNoFields(n) ==
  CASE n[1] = "obj" /\ n[2] \in FunctionsOf(program) /\ CheckFlags(n[2]) -> ScopeNames(objs[n[2]].scope) \cap nodes
    [] n[1] = "scope" -> ScopeNames(n[2]) \cap nodes
    [] n[1] = "type" /\ KindOf(n[2]) = "named" ->
         UNION {{Obj(m)} \cup (ScopeNames(objs[m].scope) \cap nodes) : m \in types[n[2]].methods}
    [] OTHER -> {}

(* markNodesQuiet at a node: the nodes that become quiet, those of methods *)
(* even if they did not exist.                                             *)
QuietAt(n) ==
  CASE n[1] = "obj" /\ n[2] \in FunctionsOf(program) /\ CheckFlags(n[2]) -> ScopeNames(objs[n[2]].scope) \cap nodes
    [] n[1] = "scope" -> ScopeNames(n[2]) \cap nodes
    [] n[1] = "type" /\ KindOf(n[2]) = "named" ->
         UNION {{Obj(m)} \cup (ScopeNames(objs[m].scope) \cap nodes) : m \in types[n[2]].methods}
    [] n[1] = "type" /\ KindOf(n[2]) = "struct" -> {Obj(f) : f \in ToSet(Fields(n[2]))}
    [] OTHER -> {}

(* The nodes that were not asked for, which only become quiet themselves.  *)
Unchecked == {n \in nodes : n[1] = "obj" /\ ~CheckFlags(n[2])}

(* The last call of markNodesUsed has returned, and markNodesQuiet begins: *)
(* the iteration will come to the nodes that are not used.  Those at which *)
(* it changes nothing or only the node itself are left out.                *)
MarkUsed ==
  /\ phase = "mark" /\ NextUsed \subseteq used /\ phase' = "quiet"
  /\ quiet' = quiet \cup (Unchecked \ used)
  /\ left' = {n \in nodes \ used : ~(QuietAt(n) \subseteq quiet')}
  /\ UNCHANGED <<program, todo, cur, graph, roots, used, reported>>

(* One turn of the iteration, which may come to the nodes that it adds.    *)
MarkQuiet(n) ==
  /\ phase = "quiet" /\ n \in left
  /\ quiet' = quiet \cup QuietAt(n)
  /\ nodes' = nodes \cup QuietAt(n)
  /\ \E seen \in SUBSET (nodes' \ nodes) : left' = {m \in left \cup seen : ~(QuietAt(m) \subseteq quiet')}
  /\ UNCHANGED <<program, phase, todo, cur, uses, roots, used, reported>>

(* The last loop of Check.                                                 *)
Reportable(x) == objs[x].pkg \in program.initial /\ objs[x].file \notin {"none", "C", "generated"}

Report ==
  /\ phase = "quiet" /\ left = {}
  /\ phase' = "done"
  /\ reported' = {x \in DOMAIN objs : Obj(x) \in nodes \ (used \cup quiet) /\ Reportable(x)}
  /\ UNCHANGED <<program, todo, cur, graph, roots, used, quiet, left>>

Next ==
  \/ \E p \in todo : NextPackage(p)
  \/ ProcessDefs \/ ProcessUses \/ ProcessTypes \/ ProcessSelections \/ ProcessAST
  \/ LinkTypes \/ MarkNodesUsed \/ MarkUsed
  \/ \E n \in left : MarkQuiet(n)
  \/ Report
  \/ phase = "done" /\ UNCHANGED vars

Spec == Init /\ [][Next]_vars

-----------------------------------------------------------------------------
(* Something larger that nothing needs: a named type for its methods and   *)
(* what they declare, a struct for its fields, a function for what it      *)
(* declares.  The methods of an interface are not part of it.              *)
MethodsOf(n) == IF n[1] = "type" /\ KindOf(n[2]) = "named" THEN types[n[2]].methods ELSE {}

InsideUnused(x) ==
  \E n \in nodes \ used :
    \/ x \in MethodsOf(n)
    \/ \E m \in MethodsOf(n) : Obj(x) \in ScopeNames(objs[m].scope)
    \/ n[1] = "type" /\ KindOf(n[2]) = "struct" /\ x \in ToSet(types[n[2]].fields)
    \/ n[1] = "scope" /\ Obj(x) \in ScopeNames(n[2])

(* No interface with methods is declared inside a function: the scope of   *)
(* such a method would be in that of the function.                         *)
FunctionsAtTop(P) ==
  \A f \in FunctionsOf(P) \cap Declared(P) : P.scopes[P.objs[f].scope] \in DOMAIN P.pkgs

(***************************************************************************)
(* Whatever the order of the packages and of the nodes, which are added to *)
(* the map while it is iterated over, exactly those declarations are       *)
(* reported that the roots do not lead to, that are of a kind that was     *)
(* asked for, and that are not part of something larger that is not used.  *)
(***************************************************************************)
ReportIsExact ==
  phase = "done" =>
    reported =
      {x \in Declared(program) :
         /\ Reportable(x) /\ CheckFlags(x) /\ objs[x].kind # "pkgname" /\ ~IsBlank(x)
         /\ Obj(x) \notin used
         /\ ~InsideUnused(x)}

(* The declaration is deleted, by itself or with what it is a part of.     *)
Gone[x \in DOMAIN objs] == x \in reported \/ (objs[x].owner # None /\ Gone[objs[x].owner])

(* All kinds are asked for and no file is generated.                       *)
EverythingIsChecked ==
  /\ program.mode = {"func", "const", "type", "var", "field"}
  /\ \A x \in DOMAIN objs : objs[x].file \in {"src", "test"}

(***************************************************************************)
(* What is reported can be deleted: what stays in the program mentions     *)
(* nothing that is gone, by name, by a promoted field or method, by the    *)
(* position of a field in a literal, by a conversion that needs equal      *)
(* structs, or by an assignment that needs the methods of an interface.    *)
(* For that, everything that is not used has to be reported.               *)
(***************************************************************************)
ReportedCanGo ==
  phase = "done" /\ EverythingIsChecked =>
  \A p \in program.initial :
    LET Stays(u) == ~Gone[u.in]
        syntax == {a \in program.pkgs[p].ast : a.op \in {"literal", "conversion"} /\ Stays(a)}
    IN
    /\ \A u \in program.pkgs[p].uses : Stays(u) => ~Gone[u.obj]
    /\ \A s \in program.pkgs[p].selections : Stays(s) => \A f \in ToSet(s.path) : ~Gone[f]
    /\ \A a \in syntax :
         IF a.op = "literal" THEN a.keyed \/ \A f \in ToSet(Fields(a.type)) : ~Gone[f]
         ELSE \A k \in DOMAIN Fields(a.dst) : Gone[Fields(a.dst)[k]] <=> Gone[Fields(a.src)[k]]
    /\ \A a \in {b \in program.pkgs[p].assigns : Stays(b)} :
         \A m \in MethodSet[a.type] :
           objs[m.obj].name \in NamesOf(types[a.iface].methods) =>
             ~Gone[m.obj] /\ \A f \in ToSet(m.path) : ~Gone[f]
=============================================================================
