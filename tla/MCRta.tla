------------------------------- MODULE MCRta -------------------------------
(***************************************************************************)
(* type B int has the unexported method n; type A struct{ B } has it by    *)
(* promotion, and an exported method m of its own; sB is struct{ B }, the  *)
(* underlying type of A, pA and pB are pointers, tup is the empty tuple of *)
(* parameters and results of m.  I is an interface with the method n, J    *)
(* one with both.                                                          *)
(* init and main are the roots; f and g have the same signature.           *)
(***************************************************************************)
EXTENDS Rta, TLC

MCTypes == {"A", "pA", "sB", "B", "pB", "I", "J", "int", "tup"}
MCMethodsOf ==
  [A |-> {"n", "m"}, pA |-> {"n", "m"}, sB |-> {"n"}, B |-> {"n"}, pB |-> {"n"}, I |-> {"n"}, J |-> {"n", "m"},
   int |-> {}, tup |-> {}]
Tup == <<"tup", TRUE>>
MCParts ==
  [A   |-> <<Tup, Tup, <<"pA", FALSE>>, <<"sB", TRUE>>>>,
   pA  |-> <<Tup, Tup, <<"A", FALSE>>>>,
   sB  |-> <<<<"B", FALSE>>>>,
   B   |-> <<<<"pB", FALSE>>, <<"int", TRUE>>>>,
   pB  |-> <<<<"B", FALSE>>>>,
   I   |-> <<>>,
   J   |-> <<Tup, Tup>>,
   int |-> <<>>,
   tup |-> <<>>]
MCImplements == {<<T, "I">> : T \in {"A", "pA", "sB", "B", "pB"}} \cup {<<"A", "J">>, <<"pA", "J">>}
MCFuncOf ==
  <<"A", "n">> :> "A.n" @@ <<"A", "m">> :> "A.m" @@ <<"pA", "n">> :> "pA.n" @@ <<"pA", "m">> :> "pA.m"
    @@ <<"sB", "n">> :> "sB.n" @@ <<"B", "n">> :> "B.n" @@ <<"pB", "n">> :> "pB.n"
Plain == {"init", "main", "f", "g"}
MCFuncs == Plain \cup {MCFuncOf[x] : x \in DOMAIN MCFuncOf}
MCSigOf == [x \in MCFuncs |-> IF x \in {"f", "g"} THEN "func(int)" ELSE "func()"]
MCAllFunctions == MCFuncs \ {"sB.n"}
MCRoots == <<"init", "main">>

(* Wrappers call the method they promote; B.n calls a function value.      *)
BodyOf(x) ==
  CASE x \in {"A.n", "pA.n", "sB.n", "pB.n"} -> <<Static("B.n")>>
    [] x = "B.n" -> <<Dynamic("func(int)")>>
    [] x \in {"A.m", "init"} -> <<>>
    [] x = "pA.m" -> <<Static("A.m")>>

ProgramOf(main, f, g) ==
  [x \in MCFuncs |-> CASE x = "main" -> main [] x = "f" -> f [] x = "g" -> g [] OTHER -> BodyOf(x)]

MCPrograms ==
  {ProgramOf(x, y, z) :
     x \in {<<Mention("f"), Invoke("I", "n"), Mention("g")>>, <<Static("f"), Static("g")>>,
            <<Dynamic("func(int)"), Mention("g"), Static("f")>>,
            <<MakeInterface("sB"), Mention("f"), Invoke("I", "n")>>,
            <<Invoke("J", "m"), Static("g"), Mention("f")>>,
            <<Dynamic("func()"), Invoke("I", "n"), Dynamic("func(int)")>>},
     y \in {<<MakeInterface("A")>>, <<Mention("g"), MakeInterface("B")>>, <<Static("main"), MakeInterface("I")>>,
            <<Static("f"), Invoke("J", "m")>>, <<Mention("main"), MakeInterface("pB")>>},
     z \in {<<Invoke("I", "n"), Mention("f")>>, <<Dynamic("func(int)")>>, <<MakeInterface("sB"), Static("g")>>,
            <<Mention("main"), Dynamic("func()")>>, <<Static("f"), MakeInterface("pA")>>}}

=============================================================================
