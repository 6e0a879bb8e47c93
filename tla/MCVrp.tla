------------------------------- MODULE MCVrp -------------------------------
(***************************************************************************)
(* Functions for Vrp: one loop over integers, one over a string or a       *)
(* slice, conversions, and channels.                                       *)
(***************************************************************************)
EXTENDS Vrp

Ins(o, t, a) == [op |-> o, type |-> t, args |-> a, k |-> 0]
Con(t, c) == [op |-> "const", type |-> t, args |-> <<>>, k |-> c]
Loop(e, h, s) == [entry |-> e, heads |-> h, ins |-> s]

(* Two variables of a loop that are updated from each other.               *)
IntLoops ==
  {Loop(3, 2, <<Con(t, 0), Con(t, k), Ins("param", t, <<>>),
                Ins("phi", t, <<1, x>>), Ins("phi", t, <<e, y>>),
                Ins(o1, t, <<4, u>>), Ins(o2, t, <<5, w>>)>>) :
     t \in {"int", "uint"}, k \in {1, 2}, x \in {6, 7}, y \in {5, 7}, e \in {2, 3},
     o1 \in {"add", "sub", "mul"}, o2 \in {"add", "sub"}, u \in {2, 3, 5}, w \in {2, 4}}

(* A string or slice that each iteration replaces.                         *)
SeqLoops ==
  {Loop(3, 1, <<Con("int", 1), [Ins("call", "int", <<>>) EXCEPT !.k = -1], Con("seq", 2),
                Ins("phi", "seq", <<3, x>>), Ins("len", "int", <<4>>), Ins("add", "int", <<5, 1>>),
                change, Ins("phi", "seq", <<4, 7>>)>>) :
     x \in {7, 8},
     change \in {Ins("append", "seq", <<4, 3>>), Ins("append", "seq", <<4, 4>>),
                 Ins("slice", "seq", <<4, 1, 0>>), Ins("slice", "seq", <<4, 0, 2>>),
                 Ins("slice", "seq", <<3, 5, 0>>), Ins("slice", "seq", <<3, 0, 6>>),
                 Ins("slice", "seq", <<3, 1, 6>>), Ins("make", "seq", <<6>>),
                 [Ins("arrayslice", "seq", <<5, 0>>) EXCEPT !.k = 3],
                 [Ins("arrayslice", "seq", <<0, 6>>) EXCEPT !.k = 4],
                 Ins("make", "seq", <<2>>), Ins("copy", "seq", <<4>>)}}

(* Conversions of what a loop counts.                                      *)
Conversions ==
  {Loop(2, 1, <<Con(from, 0), Con(from, 1), Ins("phi", from, <<1, 4>>), Ins("add", from, <<3, 2>>),
                Ins("convert", to, <<3>>)>>) :
     from \in IntTypes, to \in IntTypes}

(* A channel that is made with a buffer on one of two ways.                *)
Channels ==
  {Loop(4, 1, <<Con("int", 0), Con("int", 1), Ins("make", "chan", <<1>>), Ins("make", "chan", <<2>>),
                Ins("phi", "chan", <<3, 3>>), Ins("phi", "chan", <<5, 4>>)>>)}

(* The same, where the way with the buffer is taken in a loop.             *)
ChannelLoops ==
  {Loop(4, 1, <<Con("int", 0), Con("int", 1), Ins("make", "chan", <<1>>), Ins("make", "chan", <<2>>),
                Ins("phi", "chan", <<a, 6>>), Ins("phi", "chan", <<5, b>>)>>) :
     a \in {3, 4}, b \in {3, 4}}

MCPrograms == IntLoops \cup SeqLoops \cup Conversions \cup Channels

MCInputs == -1..2
=============================================================================
