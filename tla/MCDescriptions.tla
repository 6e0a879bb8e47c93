--------------------------- MODULE MCDescriptions ---------------------------
(***************************************************************************)
(* Descriptions for families of programs over three functions.  a is the   *)
(* only package member and calls the others; b and c range over leaves,    *)
(* functions with an effect, and every way to call each other, themselves  *)
(* and a.                                                                  *)
(***************************************************************************)
EXTENDS Descriptions

CONSTANTS a, b, c

CalledIn(body) == {x \in Funcs : \E i \in 1 .. Len(body) : body[i] = x}

(* deleted[f] are callees of f whose calls were removed after the call     *)
(* graph was built.                                                        *)
ProgramOf(x, y, z, known, deleted) ==
  LET body == [f \in Funcs |-> CASE f = a -> x [] f = b -> y [] f = c -> z]
      succ == [f \in Funcs |-> CalledIn(body[f]) \cup deleted[f]]
  IN [body |-> body, succ |-> succ, mentions |-> succ, members |-> {a}, known |-> known]

NoneDeleted == [f \in Funcs |-> {}]

MCPrograms ==
  {ProgramOf(x, y, z, v[1], v[2]) :
     x \in {<<b>>, <<a, c, b>>},
     y \in {<<>>, <<Effect>>, <<a>>, <<c>>, <<b, c>>, <<c, Effect>>},
     z \in {<<>>, <<Effect>>, <<a>>, <<b>>},
     v \in {<<{}, NoneDeleted>>, <<{b}, NoneDeleted>>,
            <<{}, [NoneDeleted EXCEPT ![c] = {a}]>>}}
=============================================================================
