------------------------------ MODULE MCLinter ------------------------------
(***************************************************************************)
(* megacheck in small: staticcheck with two checks and a nil one, unused   *)
(* with one.  Places 1, 2 and 3 are in one file, 2 and 3 on one line; 4 is *)
(* in another file.                                                        *)
(***************************************************************************)
EXTENDS Linter

MCCheckerSeq == <<"staticcheck", "unused">>
MCChecksOf == [staticcheck |-> <<"SA1", "SA2", "SA3">>, unused |-> <<"U1">>]
MCFileOf == <<"f", "f", "f", "g">>
MCLineOf == <<1, 2, 2, 1>>
MCMaxProblems == [SA1 |-> 2, SA2 |-> 1, SA3 |-> 1, U1 |-> 1]
MCMatchedBy ==
  [sa1 |-> {"SA1"}, sa |-> {"SA1", "SA2", "SA3"}, sa2 |-> {"SA2"}, u1 |-> {"U1"}]
MCPrefixOf == [sa1 |-> "SA", sa |-> "none", sa2 |-> "SA", u1 |-> "U"]
MCPrefix == [staticcheck |-> "SA", unused |-> "U"]

Line(at, node, checks) ==
  [cmd |-> "ignore", reason |-> TRUE, at |-> at, node |-> node, checks |-> checks]
File(at, checks) ==
  [cmd |-> "file-ignore", reason |-> TRUE, at |-> at, node |-> at, checks |-> checks]
Malformed(at) ==
  [cmd |-> "ignore", reason |-> FALSE, at |-> at, node |-> at, checks |-> <<>>]
Unknown(at) ==
  [cmd |-> "unknown", reason |-> TRUE, at |-> at, node |-> at, checks |-> <<>>]

MCSources ==
  {{}, {Line(1, 2, <<"sa1", "sa2">>), File(2, <<"sa">>), Malformed(4)},
   {Line(1, 2, <<"sa">>), Line(2, 2, <<"sa1">>), Unknown(4)},
   {Line(1, 1, <<"u1">>), File(4, <<"u1">>)}}

NoGlobs == {}
SomeGlobs == {[files |-> {"g"}, checks |-> <<"sa1">>]}
MCGlobs == {NoGlobs, SomeGlobs}

Command(version, ignore, valid, show, format, sa, un, loads) ==
  [version |-> version, ignore |-> ignore, valid |-> valid, showIgnored |-> show, format |-> format,
   exitNonZero |-> [staticcheck |-> sa, unused |-> un], loads |-> loads]

MCCommands ==
  {Command(FALSE, NoGlobs, TRUE, FALSE, "text", TRUE, FALSE, TRUE),
   Command(FALSE, SomeGlobs, TRUE, TRUE, "json", FALSE, TRUE, TRUE),
   Command(FALSE, SomeGlobs, TRUE, FALSE, "other", TRUE, TRUE, TRUE),
   Command(TRUE, NoGlobs, TRUE, FALSE, "text", TRUE, TRUE, TRUE),
   Command(FALSE, NoGlobs, FALSE, FALSE, "text", TRUE, TRUE, TRUE),
   Command(FALSE, NoGlobs, TRUE, FALSE, "text", TRUE, TRUE, FALSE)}
=============================================================================
