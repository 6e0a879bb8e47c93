------------------------------- MODULE Linter -------------------------------
(***************************************************************************)
(* A run of a linter command: lintutil.ProcessFlagSet, lintutil.Lint and   *)
(* Linter.Lint.  The checkers of the command run one after the other over  *)
(* the same loaded program.  For each, Lint collects the //lint:           *)
(* directives, runs the checks as goroutines behind a WaitGroup, drops the *)
(* problems that an ignore matches, reports line directives that matched   *)
(* nothing, and sorts.  The exit code comes last.                          *)
(*                                                                         *)
(* A position is a place: its file, and its rank in the order by file,     *)
(* line and column.  Texts are the kind of problem.  A pattern of a        *)
(* directive is given by the checks it matches and by the prefix before    *)
(* its first digit.                                                        *)
(***************************************************************************)
EXTENDS Naturals, Sequences, FiniteSets, SequencesExt

CONSTANTS
  CheckerSeq,   \* the checkers of the command, in order
  ChecksOf,     \* for each checker, the names of its checks, sorted
  NilChecks,    \* the checks whose function is nil
  Places,       \* the places a problem or a directive can be at: naturals
  FileOf,       \* the file of a place
  LineOf,       \* the line of a place: several columns may share one
  Patterns,     \* what a directive or -ignore may list
  MatchedBy,    \* the checks a pattern matches
  PrefixOf,     \* what a pattern has before its first digit, if any
  Prefix,       \* Checker.Prefix
  NoCheck,      \* the empty check name
  Sources,      \* the possible sets of directives in the source
  Globs,        \* the possible values of -ignore: sets of glob ignores
  Commands,     \* the possible command lines
  MaxProblems   \* bound: how many problems each check reports

Checkers == ToSet(CheckerSeq)
Checks == UNION {ToSet(ChecksOf[c]) : c \in Checkers}

(* A comment that starts with //lint:.  reason: it has the two arguments   *)
(* that are required.  at: the comment itself, node: what it is about.     *)
Directive ==
  [cmd : {"ignore", "file-ignore", "unknown"}, reason : BOOLEAN,
   at : Places, node : Places, checks : Seq(Patterns)]

GlobIgnore == [files : SUBSET {FileOf[p] : p \in Places}, checks : Seq(Patterns)]

(* A command line.  valid: parseIgnore accepts -ignore.  loads: the        *)
(* packages it names can be loaded.                                        *)
Options ==
  [version : BOOLEAN, ignore : Globs, valid : BOOLEAN, showIgnored : BOOLEAN,
   format : {"text", "json", "other"}, exitNonZero : [Checkers -> BOOLEAN],
   loads : BOOLEAN]

ASSUME ConstantsAssumption ==
  /\ Places \subseteq Nat
  /\ CheckerSeq \in Seq(Checkers) /\ IsInjective(CheckerSeq)
  /\ MaxProblems \in [Checks -> Nat]
  /\ ChecksOf \in [Checkers -> Seq(Checks)]
  /\ \A c \in Checkers : IsInjective(ChecksOf[c])
  /\ MatchedBy \in [Patterns -> SUBSET Checks]
  /\ \A s \in Sources : s \subseteq Directive /\ IsFiniteSet(s)
  /\ \A g \in Globs : g \subseteq GlobIgnore
  /\ Commands \subseteq Options
  /\ \A c, e \in Checkers : c # e => ToSet(ChecksOf[c]) \cap ToSet(ChecksOf[e]) = {}

VARIABLES
  source,      \* the directives of the program
  options,     \* the flags of the command
  phase,       \* where the main goroutine is
  cur,         \* the index of the current checker
  toScan,      \* the directives Lint has not come to
  ignores,     \* l.automaticIgnores
  matched,     \* the line ignores with matched set
  spawned,     \* how many jobs have been started
  wg,          \* the counter of the WaitGroup
  running,     \* the jobs whose goroutine runs
  problems,    \* Job.problems, for the jobs of all checkers
  handled,     \* how many jobs, then ignores, the main goroutine has handled
  seen,        \* how many problems, then checks, of the next one it has handled
  out,         \* the problems to return
  results,     \* pss: what Lint returned for the checkers so far
  exit         \* the exit code, once there is one

jobVars == <<spawned, wg, running, problems>>
vars == <<source, options, phase, cur, toScan, ignores, matched, spawned, wg,
          running, problems, handled, seen, out, results, exit>>

NotExited == 99

NoProblems == [k \in Checks |-> <<>>]

Init ==
  /\ source \in Sources
  /\ options \in Commands
  /\ phase = "flags"
  /\ cur = 0
  /\ toScan = {} /\ ignores = <<>> /\ matched = {}
  /\ spawned = 0 /\ wg = 0 /\ running = {} /\ problems = NoProblems
  /\ handled = 0 /\ seen = 0
  /\ out = <<>> /\ results = <<>>
  /\ exit = NotExited

Checker == CheckerSeq[cur]
JobSeq == ChecksOf[Checker]

Exit(code) == phase' = "exit" /\ exit' = code

-----------------------------------------------------------------------------
(* ProcessFlagSet: -version, and the errors of Lint before any checker.    *)
ProcessFlags ==
  /\ phase = "flags"
  /\ \/ options.version /\ Exit(0)
     \/ /\ ~options.version
        /\ ~options.valid \/ ~options.loads
        /\ Exit(1)
     \/ /\ ~options.version
        /\ options.valid /\ options.loads
        /\ phase' = "checker" /\ UNCHANGED exit
  /\ UNCHANGED <<source, options, cur, toScan, ignores, matched, jobVars, handled, seen, out, results>>

(* runner.lint: a new Linter for the next checker; l.automaticIgnores and  *)
(* out are empty.                                                          *)
NextChecker ==
  /\ phase = "checker"
  /\ cur < Len(CheckerSeq)
  /\ cur' = cur + 1
  /\ phase' = "scan"
  /\ toScan' = source
  /\ ignores' = <<>> /\ matched' = {}
  /\ spawned' = 0 /\ wg' = 0
  /\ handled' = 0 /\ seen' = 0
  /\ out' = <<>>
  /\ UNCHANGED <<source, options, running, problems, results, exit>>

AllChecked ==
  /\ phase = "checker"
  /\ cur = Len(CheckerSeq)
  /\ phase' = "output"
  /\ UNCHANGED <<source, options, cur, toScan, ignores, matched, jobVars, handled, seen, out, results, exit>>

Message(text, at) ==
  [at |-> at, text |-> text, check |-> NoCheck, checker |-> Checker, ignored |-> FALSE]

(* One directive; the comment map hands them out in any order.             *)
Scan(d) ==
  /\ phase = "scan"
  /\ d \in toScan
  /\ toScan' = toScan \ {d}
  /\ \/ /\ d.cmd = "unknown"
        /\ UNCHANGED <<ignores, out>>
     \/ /\ d.cmd # "unknown" /\ ~d.reason
        /\ out' = Append(out, Message("malformed", d.at))
        /\ UNCHANGED ignores
     \/ /\ d.cmd # "unknown" /\ d.reason
        /\ ignores' = Append(ignores, d)
        /\ UNCHANGED out
  /\ UNCHANGED <<source, options, phase, cur, matched, jobVars, handled, seen, results, exit>>

(* All directives seen: Checker.Init, and the jobs are made.               *)
ScanDone ==
  /\ phase = "scan"
  /\ toScan = {}
  /\ phase' = "spawn"
  /\ UNCHANGED <<source, options, cur, toScan, ignores, matched, jobVars, handled, seen, out, results, exit>>

(* wg.Add(1); go func(j) ...                                               *)
Spawn ==
  /\ phase = "spawn"
  /\ spawned < Len(JobSeq)
  /\ spawned' = spawned + 1
  /\ wg' = wg + 1
  /\ running' = running \cup {JobSeq[spawned + 1]}
  /\ UNCHANGED <<source, options, phase, cur, toScan, ignores, matched, problems, handled, seen, out, results, exit>>

SpawnDone ==
  /\ phase = "spawn"
  /\ spawned = Len(JobSeq)
  /\ phase' = "wait"
  /\ UNCHANGED <<source, options, cur, toScan, ignores, matched, jobVars, handled, seen, out, results, exit>>

(* Job.Errorf                                                              *)
Errorf(k, p) ==
  /\ k \in running \ NilChecks
  /\ Len(problems[k]) < MaxProblems[k]
  /\ problems' = [problems EXCEPT ![k] = Append(@, p)]
  /\ UNCHANGED <<source, options, phase, cur, toScan, ignores, matched, spawned, wg, running,
                 handled, seen, out, results, exit>>

(* Bug: Done is not deferred, and is skipped when the function is nil.     *)
JobDoneUnlessNil(k) ==
  /\ k \in running
  /\ running' = running \ {k}
  /\ wg' = IF k \in NilChecks THEN wg ELSE wg - 1
  /\ UNCHANGED <<source, options, phase, cur, toScan, ignores, matched, spawned, problems,
                 handled, seen, out, results, exit>>

(* The check returns, or its function is nil; wg.Done()                    *)
JobDone(k) ==
  /\ k \in running
  /\ running' = running \ {k}
  /\ wg' = wg - 1
  /\ UNCHANGED <<source, options, phase, cur, toScan, ignores, matched, spawned, problems,
                 handled, seen, out, results, exit>>

(* Bug: the main goroutine does not wait.                                  *)
WaitNot ==
  /\ phase = "wait"
  /\ phase' = "filter"
  /\ UNCHANGED <<source, options, cur, toScan, ignores, matched, jobVars, handled, seen, out, results, exit>>

(* wg.Wait()                                                               *)
Wait ==
  /\ phase = "wait"
  /\ wg = 0
  /\ phase' = "filter"
  /\ UNCHANGED <<source, options, cur, toScan, ignores, matched, jobVars, handled, seen, out, results, exit>>

ListsCheck(checks, k) == \E i \in 1 .. Len(checks) : k \in MatchedBy[checks[i]]

(* LineIgnore.Match and FileIgnore.Match                                   *)
Match(d, k, p) ==
  /\ FileOf[p] = FileOf[d.node]
  /\ d.cmd = "ignore" => LineOf[p] = LineOf[d.node]
  /\ ListsCheck(d.checks, k)

(* GlobIgnore.Match for the ignores of the command line                    *)
GlobMatch(k, p) == \E g \in options.ignore : FileOf[p] \in g.files /\ ListsCheck(g.checks, k)

(* Bug: l.ignore stops at the first automatic ignore that matches.         *)
MatchingFirst(k, p) ==
  LET hits == {i \in 1 .. Len(ignores) : Match(ignores[i], k, p)} IN
  {ignores[i] : i \in {j \in hits : \A h \in hits : j <= h}}

(* The automatic ignores that l.ignore runs for a problem: all of them.    *)
Matching(k, p) == {d \in ToSet(ignores) : Match(d, k, p)}

Ignored(k, p) == Matching(k, p) # {} \/ GlobMatch(k, p)

Reported(k, p) ==
  [at |-> p, text |-> "problem", check |-> k, checker |-> Checker, ignored |-> Ignored(k, p)]

Kept(q) == options.showIgnored \/ ~q.ignored

(* The next problem of the next job goes through l.ignore.                 *)
Filter ==
  LET k == JobSeq[handled + 1]
      q == Reported(k, problems[k][seen + 1])
  IN
  /\ phase = "filter"
  /\ handled < Len(JobSeq)
  /\ seen < Len(problems[k])
  /\ seen' = seen + 1
  /\ matched' = matched \cup Matching(k, q.at)
  /\ out' = IF Kept(q) THEN Append(out, q) ELSE out
  /\ UNCHANGED <<source, options, phase, cur, toScan, ignores, jobVars, handled, results, exit>>

FilterNext ==
  /\ phase = "filter"
  /\ handled < Len(JobSeq)
  /\ seen = Len(problems[JobSeq[handled + 1]])
  /\ handled' = handled + 1
  /\ seen' = 0
  /\ UNCHANGED <<source, options, phase, cur, toScan, ignores, matched, jobVars, out, results, exit>>

FilterDone ==
  /\ phase = "filter"
  /\ handled = Len(JobSeq)
  /\ phase' = "unmatched"
  /\ handled' = 0
  /\ UNCHANGED <<source, options, cur, toScan, ignores, matched, jobVars, seen, out, results, exit>>

(* The next automatic ignore is a line ignore that did not match: a        *)
(* problem for its next check, if that has the prefix of this checker.     *)
Unmatched ==
  LET d == ignores[handled + 1] IN
  /\ phase = "unmatched"
  /\ handled < Len(ignores)
  /\ d.cmd = "ignore" /\ d \notin matched
  /\ seen < Len(d.checks)
  /\ seen' = seen + 1
  /\ out' = IF PrefixOf[d.checks[seen + 1]] = Prefix[Checker]
            THEN Append(out, Message("unmatched", d.at)) ELSE out
  /\ UNCHANGED <<source, options, phase, cur, toScan, ignores, matched, jobVars, handled, results, exit>>

UnmatchedNext ==
  LET d == ignores[handled + 1] IN
  /\ phase = "unmatched"
  /\ handled < Len(ignores)
  /\ d.cmd # "ignore" \/ d \in matched \/ seen = Len(d.checks)
  /\ handled' = handled + 1
  /\ seen' = 0
  /\ UNCHANGED <<source, options, phase, cur, toScan, ignores, matched, jobVars, out, results, exit>>

UnmatchedDone ==
  /\ phase = "unmatched"
  /\ handled = Len(ignores)
  /\ phase' = "sort"
  /\ UNCHANGED <<source, options, cur, toScan, ignores, matched, jobVars, handled, seen, out, results, exit>>

(* byPosition.Less: file, line and column, then text.  The texts of checks *)
(* stand between the two fixed ones.                                       *)
TextRank == [malformed |-> 1, problem |-> 2, unmatched |-> 3]
Less(p, q) == p.at < q.at \/ (p.at = q.at /\ TextRank[p.text] < TextRank[q.text])

(* sort.Sort, which orders equal elements as it likes; Lint returns.       *)
SortAndReturn ==
  /\ phase = "sort"
  /\ \E f \in Bijection(1 .. Len(out), 1 .. Len(out)) :
        LET s == [i \in 1 .. Len(out) |-> out[f[i]]] IN
        /\ \A i \in 1 .. Len(out) - 1 : ~Less(s[i + 1], s[i])
        /\ results' = Append(results, s)
  /\ phase' = "checker"
  /\ UNCHANGED <<source, options, cur, toScan, ignores, matched, jobVars, handled, seen, out, exit>>

(* Bug: only the last checker decides the exit code.                       *)
OutputLast ==
  /\ phase = "output"
  /\ \/ options.format = "other" /\ Exit(2)
     \/ /\ options.format # "other"
        /\ Exit(IF Last(results) # <<>> /\ options.exitNonZero[Last(CheckerSeq)] THEN 1 ELSE 0)
  /\ UNCHANGED <<source, options, cur, toScan, ignores, matched, jobVars, handled, seen, out, results>>

(* ProcessFlagSet: print, and exit.                                        *)
Output ==
  /\ phase = "output"
  /\ \/ options.format = "other" /\ Exit(2)
     \/ /\ options.format # "other"
        /\ Exit(IF \E i \in 1 .. Len(results) :
                     results[i] # <<>> /\ options.exitNonZero[CheckerSeq[i]]
                THEN 1 ELSE 0)
  /\ UNCHANGED <<source, options, cur, toScan, ignores, matched, jobVars, handled, seen, out, results>>

Job(k) == JobDone(k) \/ \E p \in Places : Errorf(k, p)

Main ==
  \/ ProcessFlags \/ NextChecker \/ AllChecked \/ (\E d \in toScan : Scan(d)) \/ ScanDone
  \/ Spawn \/ SpawnDone \/ Wait \/ Filter \/ FilterNext \/ FilterDone
  \/ Unmatched \/ UnmatchedNext \/ UnmatchedDone \/ SortAndReturn \/ Output

Exited == phase = "exit" /\ UNCHANGED vars

Next == Main \/ (\E k \in Checks : Job(k)) \/ Exited

(* The main goroutine runs, and every check comes to an end.               *)
Fairness == WF_vars(Main) /\ \A k \in Checks : WF_vars(JobDone(k))

Spec == Init /\ [][Next]_vars /\ Fairness

-----------------------------------------------------------------------------
Occurrences(s, x) == Cardinality({i \in 1 .. Len(s) : s[i] = x})
Valid(d) == d.cmd # "unknown" /\ d.reason
Suppressed(k, p) == GlobMatch(k, p) \/ \E d \in source : Valid(d) /\ Match(d, k, p)
Matches(d, ks) == \E k \in ks : \E p \in ToSet(problems[k]) : Match(d, k, p)

(* A line directive that suppressed nothing of a checker.                  *)
Useless(d, c) == Valid(d) /\ d.cmd = "ignore" /\ ~Matches(d, ToSet(ChecksOf[c]))

(* The checks of directives at p to complain about: <<directive, index>>.  *)
Due(p) ==
  {e \in UNION {{d} \X (1 .. Len(d.checks)) : d \in source} :
     LET d == e[1] IN
     /\ d.at = p /\ Useless(d, Checker)
     /\ PrefixOf[d.checks[e[2]]] = Prefix[Checker]}

(***************************************************************************)
(* What Lint is about to return for a checker is determined by what its    *)
(* checks found and by the source, whatever the order in which directives  *)
(* were seen and jobs ran: every problem, as often as it was found, with   *)
(* the right Ignored flag and dropped only if it is suppressed; every      *)
(* malformed directive once; and for a line directive that suppressed      *)
(* nothing of this checker one message for each of its checks that belongs *)
(* to the checker.                                                         *)
(***************************************************************************)
LintIsExact ==
  phase = "sort" =>
    LET ks == ToSet(JobSeq) IN
    /\ \A q \in ToSet(out) : q.checker = Checker
    /\ \A k \in ks, p \in Places, b \in BOOLEAN :
          LET q == [at |-> p, text |-> "problem", check |-> k, checker |-> Checker, ignored |-> b] IN
          Occurrences(out, q) =
             IF b = Suppressed(k, p) /\ (b => options.showIgnored)
             THEN Occurrences(problems[k], p) ELSE 0
    /\ \A p \in Places :
          /\ Occurrences(out, Message("malformed", p)) =
                Cardinality({d \in source : d.at = p /\ d.cmd # "unknown" /\ ~d.reason})
          /\ Occurrences(out, Message("unmatched", p)) =
                Cardinality(Due(p))

(***************************************************************************)
(* The WaitGroup is a barrier: a job only appends to its problems before   *)
(* the main goroutine starts to read them.                                 *)
(***************************************************************************)
WaitIsBarrier == [][phase = "spawn" \/ phase = "wait"]_problems

(***************************************************************************)
(* Exit code 0 of a run that linted means, of every checker that exits     *)
(* non-zero: each problem it found is suppressed, no directive is          *)
(* malformed, and no line directive that suppressed nothing of it lists a  *)
(* check of it.                                                            *)
(***************************************************************************)
CleanExit ==
  phase = "exit" /\ exit = 0 /\ ~options.version =>
    \A c \in Checkers : options.exitNonZero[c] =>
       /\ \A k \in ToSet(ChecksOf[c]) : \A p \in ToSet(problems[k]) :
             Suppressed(k, p) /\ ~options.showIgnored
       /\ \A d \in source :
             /\ d.cmd = "unknown" \/ d.reason
             /\ Useless(d, c) => \A i \in 1 .. Len(d.checks) : PrefixOf[d.checks[i]] # Prefix[c]

(* The command exits, provided that the checks return.                     *)
Terminates == <>(phase = "exit")
=============================================================================
