--------------------------- MODULE MCProgramBuild ---------------------------
(***************************************************************************)
(* type E has a method; type N struct{ E } has a method of its own and     *)
(* the promoted one.  SE is struct{ E }, the underlying type of N, which   *)
(* has the promoted method too.  I is an interface.  Values of U are never *)
(* in an interface.  Package p exports N;                                  *)
(* package q converts a struct{ E } to an interface and uses a bound       *)
(* method that p uses as well.                                             *)
(***************************************************************************)
EXTENDS ProgramBuild

MCTypes == {"N", "pN", "SE", "E", "pE", "I", "U"}
MCMethodsOf ==
  [N |-> {"m", "e"}, pN |-> {"m", "e"}, SE |-> {"e"}, E |-> {"e"}, pE |-> {"e"}, I |-> {"e"},
   U |-> {"m"}]
MCParts ==
  [N  |-> <<<<"I", FALSE>>, <<"pN", FALSE>>, <<"SE", TRUE>>>>,
   pN |-> <<<<"I", FALSE>>, <<"N", FALSE>>>>,
   SE |-> <<<<"E", FALSE>>>>,
   E  |-> <<<<"pE", FALSE>>>>,
   pE |-> <<<<"E", FALSE>>>>,
   I  |-> <<>>,
   U  |-> <<>>]
MCExported == [p |-> {"N", "I"}, q |-> {}]
Bound == <<"E", "e$bound">>
Thunk == <<"E", "e$thunk">>
MCDelegates == {Bound, Thunk}
MCUses ==
  [p |-> <<Delegate(Bound)>>,
   q |-> <<Need("SE"), Delegate(Bound), Delegate(Thunk)>>]
=============================================================================
