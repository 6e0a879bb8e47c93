------------------------------ MODULE MCUnused ------------------------------
(***************************************************************************)
(* One package in many variants:                                           *)
(*                                                                         *)
(*   type E struct{}                      type I interface{ m() }          *)
(*   func (E) m() { k }; func (E) o()     const c = d; const d             *)
(*   type T struct{ a int; E; Lock nc }   type A [c]T                      *)
(*   func (t *T) n() { ... }              var v T                          *)
(*   type U struct{ b int; E; Lock nc }   type nc struct{}                 *)
(*   func init() { ... }                  func (nc) Lock()                 *)
(*   func g() { const k; { var l T }; ...}                                 *)
(*   func h() *T                          func X(p *U) { ... }             *)
(*   var w = ...                          var _ int                        *)
(*                                                                         *)
(* The bodies of init, g, n and X and the value of w are made of items.    *)
(***************************************************************************)
EXTENDS Unused, TLC

Object(kind, name, type) ==
  [kind |-> kind, name |-> name, type |-> type, exported |-> FALSE, embedded |-> FALSE, parent |-> "p", at |-> "p",
   pkg |-> "p", file |-> "src", recv |-> None, scope |-> None, owner |-> None]
Function(name, type) == [Object("func", name, type) EXCEPT !.scope = name]
Method(name, type, scope, recv, owner) ==
  [Function(name, type) EXCEPT !.parent = None, !.recv = recv, !.scope = scope, !.owner = owner]
Field(name, type, owner) == [Object("field", name, type) EXCEPT !.parent = None, !.owner = owner]
Local(o, scope, owner) == [o EXCEPT !.parent = scope, !.at = scope, !.owner = owner]

AType(kind, elem) ==
  [kind |-> kind, elem |-> elem, fields |-> <<>>, methods |-> {}, results |-> {}, params |-> {}]
Struct(fields) == [AType("struct", None) EXCEPT !.fields = fields]
Named(under, methods) == [AType("named", under) EXCEPT !.methods = methods]

TypeTable ==
  [int |-> AType("basic", None), E |-> Named("sE", {"E.m", "E.o"}), sE |-> Struct(<<>>),
   T |-> Named("sT", {"T.n"}), sT |-> Struct(<<"T.a", "T.E", "T.nc">>),
   U |-> Named("sU", {}), sU |-> Struct(<<"U.b", "U.E", "U.nc">>),
   nc |-> Named("snc", {"nc.Lock"}), snc |-> Struct(<<>>),
   I |-> Named("iI", {}), iI |-> [AType("interface", None) EXCEPT !.methods = {"I.m"}],
   A |-> Named("aT", {}), aT |-> AType("elem", "T"),
   pT |-> AType("pointer", "T"), pU |-> AType("pointer", "U"),
   sig |-> AType("sig", None), sigg |-> AType("sig", None), sigh |-> [AType("sig", None) EXCEPT !.results = {"pT"}],
   sigm |-> AType("sig", None), sigo |-> AType("sig", None), sign |-> AType("sig", None), sigLock |-> AType("sig", None),
   sigIm |-> AType("sig", None), sigX |-> [AType("sig", None) EXCEPT !.params = {"pU"}],
   Q |-> Named("sQ", {"Q.z"}), sQ |-> Struct(<<>>), sigz |-> AType("sig", None),
   iQ |-> [AType("interface", None) EXCEPT !.methods = {"Q.z"}],
   error |-> [AType("interface", None) EXCEPT !.methods = {"error.Error"}]]

(* Q and its method are in another package.                                *)
ObjectTable ==
  "init" :> Function("init", "sig") @@ "g" :> Function("g", "sigg")
    @@ "h" :> Function("h", "sigh") @@ "X" :> Function("X", "sigX")
    @@ "E" :> Object("type", "E", "E") @@ "T" :> Object("type", "T", "T") @@ "U" :> Object("type", "U", "U")
    @@ "I" :> Object("type", "I", "I") @@ "A" :> Object("type", "A", "A") @@ "nc" :> Object("type", "nc", "nc")
    @@ "E.m" :> Method("m", "sigm", "sm", "E", "E") @@ "E.o" :> Method("o", "sigo", "so", "E", "E") @@ "T.n" :> Method("n", "sign", "sn", "pT", "T")
    @@ "nc.Lock" :> Method("Lock", "sigLock", "sLock", "nc", "nc")
    @@ "I.m" :> Method("m", "sigIm", "sIm", "I", "I")
    @@ "T.a" :> Field("a", "int", "T") @@ "T.E" :> [Field("E", "E", "T") EXCEPT !.embedded = TRUE]
    @@ "T.nc" :> Field("x", "nc", "T")
    @@ "U.b" :> Field("b", "int", "U") @@ "U.E" :> [Field("E", "E", "U") EXCEPT !.embedded = TRUE]
    @@ "U.nc" :> Field("x", "nc", "U")
    @@ "v" :> Object("var", "v", "T") @@ "w" :> Object("var", "w", "int") @@ "_" :> Object("var", "_", "int")
    @@ "c" :> Object("const", "c", "int") @@ "d" :> Object("const", "d", "int")
    @@ "k" :> Local(Object("const", "k", "int"), "sm", "E.m")
    @@ "j" :> Local(Object("const", "j", "int"), "g.1", "g")
    @@ "l" :> Local(Object("var", "l", "T"), "g.1", "g")
    @@ "t" :> [Local(Object("var", "t", "pT"), "sn", "T.n") EXCEPT !.at = "p"]
    @@ "p" :> [Local(Object("var", "p", "pU"), "X", "X") EXCEPT !.at = "p"]
    @@ "q" :> [Object("pkgname", "q", "int") EXCEPT !.parent = None]
    @@ "Q" :> [Object("type", "Q", "Q") EXCEPT !.pkg = "q", !.parent = "q"]
    @@ "Q.z" :> [Method("z", "sigz", "sz", "Q", "Q") EXCEPT !.pkg = "q"]
    @@ "error.Error" :> [Method("Error", "sigz", "sz", "error", None) EXCEPT !.pkg = None]

Scopes ==
  [s \in {"init", "g", "h", "X", "sm", "so", "sn", "sLock", "sIm"} |-> "p"] @@ "g.1" :> "g" @@ "sz" :> "q"

-----------------------------------------------------------------------------
(* An item of a body: the identifiers in it, the types of its expressions, *)
(* a selection, an entry for processAST, an assignment.                    *)
Item(idents, types_) == [idents |-> idents, types |-> types_, sel |-> {}, ast |-> {}, assigns |-> {}]
Sel(i, obj, path) == [i EXCEPT !.sel = {[obj |-> obj, path |-> path]}]
Syntax(i, a) == [i EXCEPT !.ast = {a}]

Items ==
  [g |-> Item({"g"}, {"sigg"}),                                          \* g()
   h |-> Item({"h"}, {"sigh", "pT"}),                                   \* h()
   v |-> Item({"v"}, {"T"}),                                            \* v
   w |-> Item({"w"}, {"int"}),                                          \* w
   d |-> Item({"d"}, {"int"}),                                          \* d
   field |-> Sel(Item({"v", "T.a"}, {"T", "int"}), "T.a", <<>>),        \* v.a
   method |-> Sel(Item({"v", "T.n"}, {"T", "sign"}), "T.n", <<>>),      \* v.n()
   promoted |-> Sel(Item({"v", "E.o"}, {"T", "sigo"}), "E.o", <<"T.E">>), \* v.o()
   keyed |-> Syntax(Item({"U", "U.b"}, {"U", "int"}), [op |-> "literal", type |-> "U", keyed |-> TRUE]),
   plain |-> Syntax(Item({"T", "E", "nc"}, {"T", "E", "nc"}), [op |-> "literal", type |-> "T", keyed |-> FALSE]),
   convert |-> Syntax(Item({"U", "v"}, {"U", "T"}), [op |-> "conversion", dst |-> "U", src |-> "T"]),
   unsafe |-> Syntax(Item({"U"}, {"U", "pU"}), [op |-> "unsafe", dst |-> "pU"]),
   register |-> Syntax(Item({"v"}, {"pT"}), [op |-> "register", type |-> "pT"]),
   iface |-> [Item({"I", "v"}, {"I", "T"}) EXCEPT !.assigns = {[type |-> "T", iface |-> "iI"]}], \* var _ I = v
   array |-> Item({"A"}, {"A"}),                                        \* A{}
   other |-> Item({"q", "Q"}, {"Q"})]                                   \* q.Q{}

(* A body in a scope: the items of a declaration.                          *)
Placed(f, scope, S) ==
  [uses |-> {[in |-> f, scope |-> scope, obj |-> x] : x \in UNION {Items[i].idents : i \in S}},
   types |-> UNION {Items[i].types : i \in S},
   selections |-> {[in |-> f, scope |-> scope, x |-> <<f, i>>, obj |-> s.obj, path |-> s.path] :
                     <<i, s>> \in {y \in S \X UNION {Items[i].sel : i \in S} : y[2] \in Items[y[1]].sel}},
   ast |-> {[in |-> f] @@ a : a \in UNION {Items[i].ast : i \in S}},
   assigns |-> {[in |-> f] @@ a : a \in UNION {Items[i].assigns : i \in S}}]

(* The text outside of the bodies.                                         *)
Texts == {<<"E.m", "E">>, <<"E.o", "E">>, <<"T.n", "T">>, <<"nc.Lock", "nc">>, <<"h", "T">>, <<"p", "U">>, <<"T.E", "E">>, <<"U.E", "E">>,
          <<"T.nc", "nc">>, <<"U.nc", "nc">>, <<"v", "T">>, <<"A", "T">>, <<"A", "c">>, <<"c", "d">>}
Outside ==
  [uses |-> {[in |-> x[1], scope |-> "p", obj |-> x[2]] : x \in Texts}
              \cup {[in |-> "E.m", scope |-> "sm", obj |-> "k"], [in |-> "g", scope |-> "g.1", obj |-> "T"]},
   types |-> {"sE", "sT", "sU", "snc", "aT", "int", "E", "T", "U", "nc", "pT", "pU"},
   selections |-> {},
   ast |-> {[op |-> "array", len |-> "c", type |-> "aT"], [op |-> "value", name |-> "c", idents |-> {"d"}]},
   assigns |-> {}]

Joined(parts) ==
  [main |-> FALSE, defs |-> {},
   uses |-> UNION {b.uses : b \in parts}, types |-> UNION {b.types : b \in parts},
   selections |-> UNION {b.selections : b \in parts}, ast |-> UNION {b.ast : b \in parts},
   assigns |-> UNION {b.assigns : b \in parts}]

Elsewhere == [Joined({}) EXCEPT !.defs = {"Q", "Q.z"}, !.types = {"sQ", "Q", "iQ"}]

(* The value of w is at package level.                                     *)
Value(S) ==
  [Placed("w", "p", S) EXCEPT
     !.ast = @ \cup {[op |-> "value", name |-> "w", idents |-> UNION {Items[i].idents : i \in S}]}]

(* Without the interface, unless an item needs it.                         *)
Lacks(bodies) == IF \E b \in bodies : b.assigns # {} THEN {} ELSE {"I", "I.m"}

AllKinds == {"func", "const", "type", "var", "field"}

(* The flags of the checker, and what else may differ: the file of w, the  *)
(* names that are exported, an import with a name, a function for cgo.     *)
Plain == [file |-> "src", main |-> FALSE, initial |-> {"p"}, whole |-> FALSE, reflect |-> FALSE, mode |-> AllKinds,
          exported |-> {"X"}, import |-> {}, cgo |-> {}]
Variants ==
  {[Plain EXCEPT !.file = x] : x \in {"test", "generated", "C"}}
    \cup {[Plain EXCEPT !.main = TRUE], [Plain EXCEPT !.initial = {"p", "q"}], [Plain EXCEPT !.import = {"q"}],
          [Plain EXCEPT !.cgo = {[op |-> "cgo", func |-> "g"]}]}
    \cup {[Plain EXCEPT !.whole = TRUE, !.reflect = r, !.exported = {"X", "U.b", "T.n", "E.o"}] : r \in BOOLEAN}
    \cup {[Plain EXCEPT !.exported = x] : x \in {{"U.b"}, {"E.m"}, {"T.n", "w"}}}
    \cup {[Plain EXCEPT !.mode = x] : x \in {{"const"}, {"field"}, {"field", "var"}, AllKinds \ {"func"}, AllKinds \ {"type"}}}

Objects(flags, lacks) ==
  [x \in DOMAIN ObjectTable \ lacks |->
     [ObjectTable[x] EXCEPT !.exported = x \in flags.exported \cup {"Q", "nc.Lock", "error.Error"},
                            !.name = IF flags.whole /\ x = "E.o" THEN "Error" ELSE @,
                            !.file = IF x = "w" THEN flags.file ELSE @]]

(* An import without a name of its own declares nothing.                   *)
Without(b, lacks) ==
  [b EXCEPT !.uses = {u \in @ : u.obj \notin lacks},
            !.ast = {IF a.op = "value" THEN [a EXCEPT !.idents = @ \ lacks] ELSE a : a \in @}]

ProgramOf(bodies, flags) ==
  LET lacks == Lacks(bodies) \cup ({"q"} \ flags.import) IN
  [objs |-> Objects(flags, lacks), types |-> TypeTable, scopes |-> Scopes,
   pkgs |-> [p |-> [Without(Joined(bodies \cup {Outside}), lacks) EXCEPT
                      !.defs = DOMAIN ObjectTable \ ({"Q", "Q.z", "error.Error"} \cup lacks),
                      !.types = IF Lacks(bodies) = {} THEN @ \cup {"iI"} ELSE @,
                      !.ast = @ \cup flags.cgo,
                      !.main = flags.main],
             q |-> Elsewhere],
   initial |-> flags.initial, whole |-> flags.whole, reflect |-> flags.reflect, mode |-> flags.mode]

Few(S, n) == {X \in SUBSET S : Cardinality(X) <= n}
ItemNames == DOMAIN Items

Bodies ==
  {{Placed("init", "init", a), Placed("g", "g", b), Placed("T.n", "sn", c)} :
     a \in Few(ItemNames, 2), b \in {{}, {"h"}, {"promoted"}, {"convert"}}, c \in {{}, {"field"}}}

(* No promoted method is selected at package level.                        *)
WithValue ==
  {{Placed("init", "init", a), Value(b)} : a \in Few(ItemNames, 1), b \in Few(ItemNames \ {"w", "promoted"}, 1)}

Small == {{Placed("init", "init", a), Placed("g", "g", {"promoted"})} : a \in Few(ItemNames, 1)}

MCPrograms ==
  {ProgramOf(b, Plain) : b \in Bodies \cup WithValue} \cup {ProgramOf(b, f) : b \in Small, f \in Variants}

ASSUME AllAtTop == \A P \in MCPrograms : FunctionsAtTop(P)
=============================================================================
