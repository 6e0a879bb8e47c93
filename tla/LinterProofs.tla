---------------------------- MODULE LinterProofs ----------------------------
(***************************************************************************)
(* Proofs about Linter: the WaitGroup is a barrier, Lint returns exactly   *)
(* what its checks found, and exit code 0 means that there was nothing to  *)
(* complain about, for any checkers, checks, directives and command lines  *)
(* and for any schedule of the goroutines.                                 *)
(*                                                                         *)
(* The inductive invariant says of every moment in the loops of Lint how   *)
(* often a problem is in out: as often as in the part of the jobs, of the  *)
(* directives or of the checks of a directive that the loops have handled. *)
(***************************************************************************)
EXTENDS Linter, FiniteSetTheorems, SequenceTheorems, TLAPS

LintPhases == {"scan", "spawn", "wait", "filter", "unmatched", "sort"}
Phases == LintPhases \cup {"flags", "checker", "output", "exit"}

Problem ==
  [at : Places, text : {"malformed", "problem", "unmatched"}, check : Checks \cup {NoCheck},
   checker : Checkers, ignored : BOOLEAN]

TypeOK ==
  /\ source \in Sources /\ options \in Commands
  /\ phase \in Phases
  /\ cur \in 0 .. Len(CheckerSeq)
  /\ phase \in LintPhases => cur >= 1
  /\ toScan \subseteq source /\ ignores \in Seq(source) /\ matched \subseteq source
  /\ spawned \in Nat /\ wg \in Nat /\ running \subseteq Checks
  /\ problems \in [Checks -> Seq(Places)]
  /\ handled \in Nat /\ seen \in Nat
  /\ out \in Seq(Problem) /\ results \in Seq(Seq(Problem))
  /\ exit \in {0, 1, 2, NotExited}

(* The counter of the WaitGroup is the number of goroutines that run, and  *)
(* they are jobs of the current checker, between Spawn and Wait only.      *)
JobInv ==
  /\ phase \notin {"spawn", "wait"} => running = {}
  /\ phase = "scan" => spawned = 0 /\ wg = 0
  /\ phase \in {"spawn", "wait"} =>
       /\ spawned \in 0 .. Len(JobSeq)
       /\ running \subseteq {JobSeq[i] : i \in 1 .. spawned}
       /\ IsFiniteSet(running) /\ wg = Cardinality(running)

(* Where the loops of Lint are.                                            *)
LoopInv ==
  /\ phase \in {"scan", "spawn", "wait"} => handled = 0 /\ seen = 0 /\ matched = {}
  /\ phase \in LintPhases \ {"scan"} => toScan = {}
  /\ phase = "filter" =>
       /\ handled \in 0 .. Len(JobSeq)
       /\ handled < Len(JobSeq) => seen \in 0 .. Len(problems[JobSeq[handled + 1]])
       /\ handled = Len(JobSeq) => seen = 0
  /\ phase = "unmatched" =>
       /\ handled \in 0 .. Len(ignores)
       /\ handled < Len(ignores) => seen \in 0 .. Len(ignores[handled + 1].checks)
       /\ handled = Len(ignores) => seen = 0

(* The directives that have been seen are in ignores, once each.           *)
IgnoresInv ==
  phase \in LintPhases =>
    /\ \A i, j \in 1 .. Len(ignores) : ignores[i] = ignores[j] => i = j
    /\ \A i \in 1 .. Len(ignores) : ignores[i] \in source \ toScan /\ Valid(ignores[i])
    /\ \A d \in source \ toScan : Valid(d) => \E i \in 1 .. Len(ignores) : ignores[i] = d

(* How many problems of a job have gone through l.ignore.                  *)
Handled(n) ==
  IF phase \in {"scan", "spawn", "wait"} THEN 0
  ELSE IF phase = "filter" /\ n > handled THEN (IF n = handled + 1 THEN seen ELSE 0)
  ELSE Len(problems[JobSeq[n]])

MatchedInv ==
  phase \in LintPhases =>
    \A d \in source :
      d \in matched <=>
        /\ \E i \in 1 .. Len(ignores) : ignores[i] = d
        /\ \E n \in 1 .. Len(JobSeq) : \E i \in 1 .. Handled(n) :
              Match(d, JobSeq[n], problems[JobSeq[n]][i])

Found(k, p, b) ==
  [at |-> p, text |-> "problem", check |-> k, checker |-> Checker, ignored |-> b]

CountTo(s, m, y) == Cardinality({i \in 1 .. m : s[i] = y})

(* Problems of jobs in out.                                                *)
FoundInv ==
  phase \in LintPhases =>
    \A n \in 1 .. Len(JobSeq), p \in Places, b \in BOOLEAN :
       Occurrences(out, Found(JobSeq[n], p, b)) =
         IF b = Suppressed(JobSeq[n], p) /\ (b => options.showIgnored)
         THEN CountTo(problems[JobSeq[n]], Handled(n), p) ELSE 0

BadAt(p) == {d \in source : d.at = p /\ d.cmd # "unknown" /\ ~d.reason}

(* Malformed directives in out.                                            *)
MalformedInv ==
  phase \in LintPhases =>
    \A p \in Places : Occurrences(out, Message("malformed", p)) = Cardinality(BadAt(p) \ toScan)

(* The loop over the ignores has come past a check of a directive.         *)
Passed(d, i) ==
  CASE phase \in {"scan", "spawn", "wait", "filter"} -> FALSE
    [] phase = "unmatched" ->
         \E n \in 1 .. Len(ignores) : ignores[n] = d /\ (n <= handled \/ (n = handled + 1 /\ i <= seen))
    [] OTHER -> TRUE

(* Directives that did not match in out.                                   *)
UnmatchedInv ==
  phase \in LintPhases =>
    \A p \in Places :
       Occurrences(out, Message("unmatched", p)) = Cardinality({e \in Due(p) : Passed(e[1], e[2])})

OwnInv == phase \in LintPhases => \A i \in 1 .. Len(out) : out[i].checker = Checker

(* A checker with an empty result.                                         *)
Clean(c) ==
  /\ \A k \in ToSet(ChecksOf[c]) : \A i \in 1 .. Len(problems[k]) :
        Suppressed(k, problems[k][i]) /\ ~options.showIgnored
  /\ \A d \in source :
        /\ d.cmd = "unknown" \/ d.reason
        /\ Useless(d, c) => \A i \in 1 .. Len(d.checks) : PrefixOf[d.checks[i]] # Prefix[c]

(* The results, one for each checker that is done.                         *)
ResultsInv ==
  /\ Len(results) = IF phase \in LintPhases THEN cur - 1 ELSE cur
  /\ \A i \in 1 .. Len(results) : results[i] = <<>> => Clean(CheckerSeq[i])
  /\ phase = "output" => cur = Len(CheckerSeq)
  /\ phase = "exit" /\ exit = 0 /\ ~options.version =>
       /\ cur = Len(CheckerSeq)
       /\ \A i \in 1 .. Len(results) : options.exitNonZero[CheckerSeq[i]] => results[i] = <<>>

LinterInv ==
  /\ TypeOK /\ JobInv /\ LoopInv /\ IgnoresInv /\ MatchedInv /\ FoundInv
  /\ MalformedInv /\ UnmatchedInv /\ OwnInv /\ ResultsInv

-----------------------------------------------------------------------------
LEMMA SomeOfInterval ==
  ASSUME NEW n \in Nat, NEW T, T \subseteq 1 .. n
  PROVE  IsFiniteSet(T) /\ Cardinality(T) \in Nat
<1>1. IsFiniteSet(1 .. n)
  BY FS_Interval
<1>2. IsFiniteSet(T)
  BY <1>1, FS_Subset
<1>. QED  BY <1>2, FS_CardinalityType

(* Counting in a sequence that grows.                                      *)
LEMMA OccurrencesEmpty == \A x : Occurrences(<<>>, x) = 0
<1>. SUFFICES ASSUME NEW x PROVE Occurrences(<<>>, x) = 0
  OBVIOUS
<1>1. {i \in 1 .. Len(<<>>) : <<>>[i] = x} = {}
  OBVIOUS
<1>. QED  BY <1>1, FS_EmptySet DEF Occurrences

LEMMA OccurrencesAppend ==
  ASSUME NEW S, NEW s \in Seq(S), NEW x \in S, NEW y
  PROVE  /\ Occurrences(s, y) \in Nat
         /\ Occurrences(Append(s, x), y) = Occurrences(s, y) + (IF x = y THEN 1 ELSE 0)
<1>. DEFINE T == {i \in 1 .. Len(s) : s[i] = y}
            n == Len(s) + 1
            U == {i \in 1 .. Len(Append(s, x)) : Append(s, x)[i] = y}
<1>1. IsFiniteSet(T) /\ Cardinality(T) \in Nat
  BY SomeOfInterval, Len(s) \in Nat, T \subseteq 1 .. Len(s)
<1>2. Occurrences(s, y) = Cardinality(T) /\ Occurrences(Append(s, x), y) = Cardinality(U)
  BY DEF Occurrences
<1>3. CASE x = y
  <2>1. U = T \cup {n} /\ n \notin T
    BY <1>3
  <2>. HIDE DEF T, U
  <2>. QED  BY <1>1, <1>2, <1>3, <2>1, FS_AddElement
<1>4. CASE x # y
  <2>1. U = T
    BY <1>4
  <2>. HIDE DEF T, U
  <2>. QED  BY <1>1, <1>2, <1>4, <2>1
<1>. QED  BY <1>3, <1>4

(* Counting in one more element of a prefix.                               *)
LEMMA PrefixCount ==
  ASSUME NEW s, NEW m \in Nat, NEW y
  PROVE  /\ CountTo(s, m, y) \in Nat
         /\ CountTo(s, m + 1, y) = CountTo(s, m, y) + (IF s[m + 1] = y THEN 1 ELSE 0)
<1>. DEFINE T == {i \in 1 .. m : s[i] = y}
            U == {i \in 1 .. m + 1 : s[i] = y}
<1>1. IsFiniteSet(T) /\ Cardinality(T) \in Nat
  BY SomeOfInterval, T \subseteq 1 .. m
<1>2. CountTo(s, m, y) = Cardinality(T) /\ CountTo(s, m + 1, y) = Cardinality(U)
  BY DEF CountTo
<1>3. CASE s[m + 1] = y
  <2>1. U = T \cup {m + 1} /\ m + 1 \notin T
    BY <1>3
  <2>. HIDE DEF T, U
  <2>. QED  BY <1>1, <1>2, <1>3, <2>1, FS_AddElement
<1>4. CASE s[m + 1] # y
  <2>1. U = T
    BY <1>4
  <2>. HIDE DEF T, U
  <2>. QED  BY <1>1, <1>2, <1>4, <2>1
<1>. QED  BY <1>3, <1>4

LEMMA NoneCounted == \A s, y : CountTo(s, 0, y) = 0
<1>1. \A s, y : {i \in 1 .. 0 : s[i] = y} = {}
  OBVIOUS
<1>. QED  BY <1>1, FS_EmptySet DEF CountTo

LEMMA OccurrencesPositive ==
  ASSUME NEW S, NEW s \in Seq(S), NEW i \in 1 .. Len(s)
  PROVE  Occurrences(s, s[i]) # 0
<1>. DEFINE T == {j \in 1 .. Len(s) : s[j] = s[i]}
<1>1. IsFiniteSet(T)
  BY SomeOfInterval, Len(s) \in Nat, T \subseteq 1 .. Len(s)
<1>2. T # {}
  OBVIOUS
<1>. QED  BY <1>1, <1>2, FS_EmptySet DEF Occurrences

LEMMA ToSetFact ==
  ASSUME NEW S, NEW s \in Seq(S)
  PROVE  ToSet(s) = {s[i] : i \in 1 .. Len(s)} /\ ToSet(s) \subseteq S
  BY DEF ToSet

(* The current checker and its jobs.                                       *)
LEMMA CheckerFact ==
  ASSUME TypeOK, phase \in LintPhases
  PROVE  /\ cur \in 1 .. Len(CheckerSeq) /\ Checker \in Checkers
         /\ JobSeq \in Seq(Checks) /\ Len(JobSeq) \in Nat
         /\ \A n \in 1 .. Len(JobSeq) : JobSeq[n] \in Checks /\ JobSeq[n] \in ToSet(JobSeq)
         /\ \A i, j \in 1 .. Len(JobSeq) : JobSeq[i] = JobSeq[j] => i = j
         /\ ToSet(JobSeq) = {JobSeq[n] : n \in 1 .. Len(JobSeq)}
<1>1. cur \in 1 .. Len(CheckerSeq) /\ CheckerSeq \in Seq(Checkers)
  BY ConstantsAssumption DEF TypeOK
<1>2. Checker \in Checkers
  BY <1>1 DEF Checker
<1>3. JobSeq \in Seq(Checks) /\ IsInjective(JobSeq)
  BY <1>2, ConstantsAssumption DEF JobSeq
<1>4. ToSet(JobSeq) = {JobSeq[n] : n \in 1 .. Len(JobSeq)}
  BY <1>3, ToSetFact
<1>5. \A i, j \in 1 .. Len(JobSeq) : JobSeq[i] = JobSeq[j] => i = j
  BY <1>3 DEF IsInjective
<1>6. \A n \in 1 .. Len(JobSeq) : JobSeq[n] \in Checks /\ JobSeq[n] \in ToSet(JobSeq)
  BY <1>3, <1>4
<1>. QED  BY <1>1, <1>2, <1>3, <1>4, <1>5, <1>6

(* What does not depend on where Lint is.                                  *)
LEMMA FrameFact ==
  ASSUME UNCHANGED <<source, options, cur>>
  PROVE  /\ Checker' = Checker /\ JobSeq' = JobSeq
         /\ \A k, p : Suppressed(k, p)' = Suppressed(k, p)
         /\ \A k, p, b : Found(k, p, b)' = Found(k, p, b)
         /\ \A t, p : Message(t, p)' = Message(t, p)
         /\ \A p : BadAt(p)' = BadAt(p)
<1>1. Checker' = Checker /\ JobSeq' = JobSeq
  BY DEF Checker, JobSeq
<1>2. \A k, p : Suppressed(k, p)' = Suppressed(k, p)
  BY DEF Suppressed, GlobMatch
<1>3. /\ \A k, p, b : Found(k, p, b)' = Found(k, p, b)
      /\ \A t, p : Message(t, p)' = Message(t, p)
      /\ \A p : BadAt(p)' = BadAt(p)
  BY <1>1 DEF Found, Message, BadAt
<1>. QED  BY <1>1, <1>2, <1>3

LEMMA DueFact ==
  ASSUME UNCHANGED <<source, options, cur, problems>>
  PROVE  \A p : Due(p)' = Due(p)
<1>1. Checker' = Checker /\ JobSeq' = JobSeq
  BY FrameFact
<1>2. \A d, ks : Matches(d, ks)' = Matches(d, ks)
  BY DEF Matches
<1>. QED  BY <1>1, <1>2 DEF Due, Useless

(* A step that leaves out and what it depends on alone.                    *)
OutInv == IgnoresInv /\ MatchedInv /\ FoundInv /\ MalformedInv /\ UnmatchedInv /\ OwnInv

LEMMA SameOut ==
  ASSUME phase \in LintPhases, phase' \in LintPhases, OutInv,
         UNCHANGED <<source, options, cur, toScan, ignores, matched, problems, out>>,
         \A n \in 1 .. Len(JobSeq) : Handled(n)' = Handled(n),
         \A p \in Places : \A e \in Due(p) : Passed(e[1], e[2])' <=> Passed(e[1], e[2])
  PROVE  OutInv'
<1>. USE DEF OutInv
<1>1. /\ Checker' = Checker /\ JobSeq' = JobSeq
      /\ \A k, p : Suppressed(k, p)' = Suppressed(k, p)
      /\ \A k, p, b : Found(k, p, b)' = Found(k, p, b)
      /\ \A t, p : Message(t, p)' = Message(t, p)
      /\ \A p : BadAt(p)' = BadAt(p) /\ Due(p)' = Due(p)
  BY FrameFact, DueFact
<1>2. IgnoresInv'
  BY DEF IgnoresInv
<1>3. MatchedInv'
  BY <1>1 DEF MatchedInv
<1>4. FoundInv'
  <2>. SUFFICES ASSUME NEW n \in 1 .. Len(JobSeq), NEW p \in Places, NEW b \in BOOLEAN
               PROVE  Occurrences(out, Found(JobSeq[n], p, b)) =
                 IF b = Suppressed(JobSeq[n], p) /\ (b => options.showIgnored)
                 THEN CountTo(problems[JobSeq[n]], Handled(n), p) ELSE 0
    BY <1>1 DEF FoundInv
  <2>. QED  BY DEF FoundInv
<1>5. MalformedInv'
  BY <1>1 DEF MalformedInv
<1>6. UnmatchedInv'
  <2>1. \A p \in Places : {e \in Due(p) : Passed(e[1], e[2])}' = {e \in Due(p) : Passed(e[1], e[2])}
    BY <1>1
  <2>. QED  BY <1>1, <2>1 DEF UnmatchedInv
<1>7. OwnInv'
  BY <1>1 DEF OwnInv
<1>. QED  BY <1>2, <1>3, <1>4, <1>5, <1>6, <1>7

LEMMA SameClean ==
  ASSUME UNCHANGED <<source, options, problems>>
  PROVE  \A c : Clean(c)' = Clean(c)
<1>1. \A k, p : Suppressed(k, p)' = Suppressed(k, p)
  BY DEF Suppressed, GlobMatch
<1>2. \A d, c : Useless(d, c)' = Useless(d, c)
  BY DEF Useless, Matches
<1>. QED  BY <1>1, <1>2 DEF Clean

LEMMA SameResults ==
  ASSUME UNCHANGED <<source, options, problems, cur, results>>, ResultsInv,
         phase \in LintPhases, phase' \in LintPhases
  PROVE  ResultsInv'
  BY SameClean DEF ResultsInv, LintPhases

LEMMA InitInv == Init => LinterInv
<1>. SUFFICES ASSUME Init PROVE LinterInv
  OBVIOUS
<1>. USE DEF Init
<1>1. phase = "flags" /\ phase \notin LintPhases
  BY DEF LintPhases
<1>2. TypeOK
  <2>1. Len(CheckerSeq) \in Nat
    BY ConstantsAssumption
  <2>2. problems \in [Checks -> Seq(Places)]
    BY DEF NoProblems
  <2>. QED  BY <1>1, <2>1, <2>2 DEF TypeOK, Phases, LintPhases, NotExited
<1>3. JobInv /\ LoopInv /\ IgnoresInv /\ MatchedInv /\ FoundInv /\ MalformedInv /\ UnmatchedInv /\ OwnInv
  BY <1>1 DEF JobInv, LoopInv, IgnoresInv, MatchedInv, FoundInv, MalformedInv, UnmatchedInv, OwnInv, LintPhases
<1>4. ResultsInv
  BY <1>1 DEF ResultsInv, NotExited
<1>. QED  BY <1>2, <1>3, <1>4 DEF LinterInv

LEMMA StutterInv == ASSUME LinterInv, UNCHANGED vars PROVE LinterInv'
<1>. USE DEF vars, jobVars, LinterInv
<1>1. TypeOK' /\ JobInv' /\ LoopInv'
  BY FrameFact DEF TypeOK, JobInv, LoopInv
<1>2. ResultsInv'
  BY SameClean DEF ResultsInv
<1>3. \A n : Handled(n)' = Handled(n)
  BY FrameFact DEF Handled
<1>4. \A d, i : Passed(d, i)' <=> Passed(d, i)
  BY DEF Passed
<1>5. CASE phase \in LintPhases
  BY <1>1, <1>2, <1>3, <1>4, <1>5, SameOut DEF OutInv
<1>6. CASE phase \notin LintPhases
  BY <1>1, <1>2, <1>6 DEF IgnoresInv, MatchedInv, FoundInv, MalformedInv, UnmatchedInv, OwnInv
<1>. QED  BY <1>5, <1>6

LEMMA OutsideInv == ASSUME phase' \notin LintPhases PROVE OutInv'
  BY DEF OutInv, IgnoresInv, MatchedInv, FoundInv, MalformedInv, UnmatchedInv, OwnInv

LEMMA ProcessFlagsInv == ASSUME LinterInv, ProcessFlags PROVE LinterInv'
<1>. USE DEF LinterInv, ProcessFlags, jobVars, Exit
<1>1. phase = "flags" /\ phase' \in {"exit", "checker"} /\ phase' \notin LintPhases /\ phase \notin LintPhases
  BY DEF LintPhases
<1>2. TypeOK'
  BY <1>1 DEF TypeOK, Phases
<1>3. JobInv' /\ LoopInv'
  BY <1>1 DEF JobInv, LoopInv
<1>4. ResultsInv'
  BY <1>1, SameClean DEF ResultsInv, NotExited, TypeOK
<1>. QED  BY <1>1, <1>2, <1>3, <1>4, OutsideInv DEF OutInv

LEMMA AllCheckedInv == ASSUME LinterInv, AllChecked PROVE LinterInv'
<1>. USE DEF LinterInv, AllChecked, jobVars
<1>1. phase = "checker" /\ phase' = "output" /\ phase' \notin LintPhases /\ phase \notin LintPhases
  BY DEF LintPhases
<1>2. TypeOK'
  BY <1>1 DEF TypeOK, Phases
<1>3. JobInv' /\ LoopInv'
  BY <1>1 DEF JobInv, LoopInv
<1>4. ResultsInv'
  BY <1>1, SameClean DEF ResultsInv
<1>. QED  BY <1>1, <1>2, <1>3, <1>4, OutsideInv DEF OutInv

LEMMA OutputInv == ASSUME LinterInv, Output PROVE LinterInv'
<1>. USE DEF LinterInv, Output, jobVars, Exit
<1>1. phase = "output" /\ phase' = "exit" /\ phase' \notin LintPhases /\ phase \notin LintPhases
  BY DEF LintPhases
<1>2. TypeOK'
  BY <1>1 DEF TypeOK, Phases
<1>3. JobInv' /\ LoopInv'
  BY <1>1 DEF JobInv, LoopInv
<1>4. ResultsInv'
  BY <1>1, SameClean DEF ResultsInv
<1>. QED  BY <1>1, <1>2, <1>3, <1>4, OutsideInv DEF OutInv

LEMMA NextCheckerInv == ASSUME LinterInv, NextChecker PROVE LinterInv'
<1>. USE DEF LinterInv, NextChecker
<1>1. phase = "checker" /\ phase' = "scan" /\ phase' \in LintPhases /\ phase \notin LintPhases
  BY DEF LintPhases
<1>2. TypeOK'
  BY <1>1 DEF TypeOK, Phases
<1>3. JobInv' /\ LoopInv'
  BY <1>1 DEF JobInv, LoopInv, LintPhases
<1>4. ResultsInv'
  <2>1. cur \in Nat /\ cur' = cur + 1
    BY DEF TypeOK
  <2>. QED  BY <1>1, <2>1, SameClean DEF ResultsInv
<1>5. IgnoresInv'
  BY DEF IgnoresInv
<1>6. \A n : Handled(n)' = 0
  BY <1>1 DEF Handled
<1>7. MatchedInv'
  BY <1>6 DEF MatchedInv
<1>8. FoundInv'
  <2>. SUFFICES ASSUME NEW n \in 1 .. Len(JobSeq'), NEW p \in Places, NEW b \in BOOLEAN
               PROVE  Occurrences(out, Found(JobSeq[n], p, b))' =
                 IF b = Suppressed(JobSeq[n], p)' /\ (b => options'.showIgnored)
                 THEN CountTo(problems[JobSeq[n]], Handled(n), p)' ELSE 0
    BY DEF FoundInv
  <2>1. CountTo(problems[JobSeq[n]], Handled(n), p)' = 0
    BY <1>6, NoneCounted
  <2>2. \A x : Occurrences(out', x) = 0
    BY OccurrencesEmpty
  <2>. QED  BY <2>1, <2>2
<1>9. MalformedInv'
  <2>1. \A p : BadAt(p)' \ toScan' = {}
    BY DEF BadAt
  <2>2. Cardinality({}) = 0
    BY FS_EmptySet
  <2>3. \A x : Occurrences(out', x) = 0
    BY OccurrencesEmpty
  <2>. QED  BY <2>1, <2>2, <2>3 DEF MalformedInv
<1>10. UnmatchedInv'
  <2>1. \A p : {e \in Due(p) : Passed(e[1], e[2])}' = {}
    BY <1>1 DEF Passed
  <2>2. Cardinality({}) = 0
    BY FS_EmptySet
  <2>3. \A x : Occurrences(out', x) = 0
    BY OccurrencesEmpty
  <2>. QED  BY <2>1, <2>2, <2>3 DEF UnmatchedInv
<1>11. OwnInv'
  BY DEF OwnInv
<1>. QED  BY <1>2, <1>3, <1>4, <1>5, <1>7, <1>8, <1>9, <1>10, <1>11

(* The steps before the barrier: nothing has been handled.                 *)
LEMMA BeforeInv ==
  ASSUME LinterInv, UNCHANGED <<source, options, cur, toScan, ignores, matched, problems, out, results>>,
         phase \in {"scan", "spawn", "wait"}, phase' \in {"scan", "spawn", "wait"}
  PROVE  OutInv' /\ ResultsInv'
<1>. USE DEF LinterInv
<1>1. phase \in LintPhases /\ phase' \in LintPhases
  BY DEF LintPhases
<1>2. \A n \in 1 .. Len(JobSeq) : Handled(n)' = Handled(n)
  BY DEF Handled
<1>3. \A p \in Places : \A e \in Due(p) : Passed(e[1], e[2])' <=> Passed(e[1], e[2])
  BY DEF Passed
<1>4. OutInv'
  BY <1>1, <1>2, <1>3, SameOut DEF OutInv
<1>. QED  BY <1>1, <1>4, SameResults

LEMMA ScanDoneInv == ASSUME LinterInv, ScanDone PROVE LinterInv'
<1>. USE DEF LinterInv, ScanDone, jobVars
<1>1. OutInv' /\ ResultsInv'
  BY BeforeInv
<1>2. TypeOK'
  BY DEF TypeOK, Phases, LintPhases
<1>3. LoopInv'
  BY DEF LoopInv, LintPhases
<1>4. JobInv'
  <2>1. Len(JobSeq) \in Nat /\ JobSeq' = JobSeq
    BY CheckerFact, FrameFact DEF LintPhases
  <2>2. running = {} /\ wg = 0 /\ spawned = 0
    BY DEF JobInv
  <2>3. IsFiniteSet({}) /\ Cardinality({}) = 0
    BY FS_EmptySet
  <2>. QED  BY <2>1, <2>2, <2>3 DEF JobInv
<1>. QED  BY <1>1, <1>2, <1>3, <1>4 DEF OutInv

LEMMA SpawnInv == ASSUME LinterInv, Spawn PROVE LinterInv'
<1>. USE DEF LinterInv, Spawn
<1>1. OutInv' /\ ResultsInv'
  BY BeforeInv
<1>2. /\ JobSeq' = JobSeq /\ Len(JobSeq) \in Nat /\ spawned \in 0 .. Len(JobSeq)
      /\ spawned + 1 \in 1 .. Len(JobSeq)
      /\ JobSeq[spawned + 1] \in Checks
      /\ \A i \in 1 .. spawned : JobSeq[i] # JobSeq[spawned + 1]
  <2>1. JobSeq' = JobSeq /\ Len(JobSeq) \in Nat
    BY CheckerFact, FrameFact DEF LintPhases
  <2>2. spawned \in 0 .. Len(JobSeq) /\ spawned + 1 \in 1 .. Len(JobSeq)
    BY <2>1 DEF JobInv
  <2>3. \A i \in 1 .. Len(JobSeq) : JobSeq[i] \in Checks /\ (JobSeq[i] = JobSeq[spawned + 1] => i = spawned + 1)
    BY <2>2, CheckerFact DEF LintPhases
  <2>. QED  BY <2>1, <2>2, <2>3
<1>3. TypeOK'
  BY <1>2 DEF TypeOK
<1>4. LoopInv'
  BY DEF LoopInv
<1>5. JobInv'
  <2>1. /\ running \subseteq {JobSeq[i] : i \in 1 .. spawned}
        /\ IsFiniteSet(running) /\ wg = Cardinality(running)
    BY DEF JobInv
  <2>2. JobSeq[spawned + 1] \notin running
    BY <1>2, <2>1
  <2>3. IsFiniteSet(running') /\ wg' = Cardinality(running')
    BY <2>1, <2>2, FS_AddElement
  <2>4. spawned' \in 0 .. Len(JobSeq') /\ running' \subseteq {JobSeq'[i] : i \in 1 .. spawned'}
    BY <1>2, <2>1
  <2>. QED  BY <2>3, <2>4 DEF JobInv
<1>. QED  BY <1>1, <1>3, <1>4, <1>5 DEF OutInv

LEMMA SpawnDoneInv == ASSUME LinterInv, SpawnDone PROVE LinterInv'
<1>. USE DEF LinterInv, SpawnDone, jobVars
<1>1. OutInv' /\ ResultsInv'
  BY BeforeInv
<1>2. TypeOK'
  BY DEF TypeOK, Phases, LintPhases
<1>3. LoopInv'
  BY DEF LoopInv, LintPhases
<1>4. JobInv'
  BY FrameFact DEF JobInv
<1>. QED  BY <1>1, <1>2, <1>3, <1>4 DEF OutInv

LEMMA JobDoneInv == ASSUME LinterInv, NEW k, JobDone(k) PROVE LinterInv'
<1>. USE DEF LinterInv, JobDone
<1>1. phase \in {"spawn", "wait"}
  BY DEF JobInv
<1>2. OutInv' /\ ResultsInv'
  BY <1>1, BeforeInv
<1>3. IsFiniteSet(running') /\ wg' = Cardinality(running') /\ wg' \in Nat
  <2>1. IsFiniteSet(running) /\ wg = Cardinality(running)
    BY <1>1 DEF JobInv
  <2>2. IsFiniteSet(running') /\ Cardinality(running') = Cardinality(running) - 1
    BY <2>1, FS_RemoveElement
  <2>. QED  BY <2>1, <2>2, FS_CardinalityType
<1>4. TypeOK'
  BY <1>3 DEF TypeOK
<1>5. LoopInv'
  BY <1>1, FrameFact DEF LoopInv, LintPhases
<1>6. JobInv'
  <2>. QED  BY <1>1, <1>3, FrameFact DEF JobInv
<1>. QED  BY <1>2, <1>4, <1>5, <1>6 DEF OutInv

LEMMA ErrorfInv == ASSUME LinterInv, NEW k, NEW p \in Places, Errorf(k, p) PROVE LinterInv'
<1>. USE DEF LinterInv, Errorf
<1>1. phase \in {"spawn", "wait"} /\ phase' = phase /\ phase \in LintPhases
  BY DEF JobInv, LintPhases
<1>2. k \in Checks /\ k \in ToSet(JobSeq)
  BY <1>1, CheckerFact DEF JobInv, TypeOK
<1>3. TypeOK'
  BY <1>2 DEF TypeOK
<1>4. /\ JobSeq' = JobSeq
      /\ \A j, q : Suppressed(j, q)' = Suppressed(j, q)
      /\ \A j, q, b : Found(j, q, b)' = Found(j, q, b)
      /\ \A t, q : Message(t, q)' = Message(t, q)
      /\ \A q : BadAt(q)' = BadAt(q)
  BY FrameFact
<1>5. LoopInv' /\ JobInv'
  BY <1>1, <1>4 DEF LoopInv, JobInv
<1>6. \A n : Handled(n) = 0 /\ Handled(n)' = 0
  BY <1>1 DEF Handled
<1>7. IgnoresInv' /\ OwnInv'
  BY <1>1, FrameFact DEF IgnoresInv, OwnInv
<1>8. MatchedInv'
  <2>1. matched = {}
    BY <1>1 DEF LoopInv
  <2>. QED  BY <2>1, <1>6 DEF MatchedInv
<1>9. FoundInv'
  <2>. SUFFICES ASSUME NEW n \in 1 .. Len(JobSeq), NEW q \in Places, NEW b \in BOOLEAN
               PROVE  Occurrences(out, Found(JobSeq[n], q, b)) =
                 IF b = Suppressed(JobSeq[n], q) /\ (b => options.showIgnored)
                 THEN CountTo(problems[JobSeq[n]], Handled(n), q)' ELSE 0
    BY <1>4 DEF FoundInv
  <2>1. CountTo(problems[JobSeq[n]], Handled(n), q)' = CountTo(problems[JobSeq[n]], Handled(n), q)
    BY <1>6, NoneCounted
  <2>. QED  BY <1>1, <2>1 DEF FoundInv
<1>10. MalformedInv'
  BY <1>1, <1>4 DEF MalformedInv
<1>11. UnmatchedInv'
  <2>1. \A q : {e \in Due(q) : Passed(e[1], e[2])}' = {e \in Due(q) : Passed(e[1], e[2])}
    BY <1>1 DEF Passed
  <2>. QED  BY <1>1, <1>4, <2>1 DEF UnmatchedInv
<1>12. ResultsInv'
  <2>1. Len(results) = cur - 1 /\ cur \in 1 .. Len(CheckerSeq)
    BY <1>1, CheckerFact DEF ResultsInv
  <2>2. \A i \in 1 .. Len(results) : Clean(CheckerSeq[i]) => Clean(CheckerSeq[i])'
    <3>. SUFFICES ASSUME NEW i \in 1 .. Len(results), Clean(CheckerSeq[i]) PROVE Clean(CheckerSeq[i])'
      OBVIOUS
    <3>1. CheckerSeq[i] \in Checkers /\ CheckerSeq[i] # Checker /\ Checker \in Checkers
      <4>1. i \in DOMAIN CheckerSeq /\ cur \in DOMAIN CheckerSeq /\ i # cur
        BY <2>1, ConstantsAssumption
      <4>2. CheckerSeq[i] # Checker
        BY <4>1, ConstantsAssumption DEF Checker, IsInjective
      <4>. QED  BY <1>1, <4>1, <4>2, ConstantsAssumption, CheckerFact
    <3>2. k \notin ToSet(ChecksOf[CheckerSeq[i]])
      BY <1>2, <3>1, ConstantsAssumption DEF JobSeq
    <3>3. \A j \in ToSet(ChecksOf[CheckerSeq[i]]) : problems'[j] = problems[j]
      BY <3>2 DEF TypeOK
    <3>4. \A d : Useless(d, CheckerSeq[i])' = Useless(d, CheckerSeq[i])
      BY <3>3 DEF Useless, Matches
    <3>. QED  BY <1>4, <3>3, <3>4 DEF Clean
  <2>. QED  BY <1>1, <2>2 DEF ResultsInv
<1>. QED  BY <1>3, <1>5, <1>7, <1>8, <1>9, <1>10, <1>11, <1>12

LEMMA WaitInv == ASSUME LinterInv, Wait PROVE LinterInv'
<1>. USE DEF LinterInv, Wait, jobVars
<1>1. phase = "wait" /\ phase' = "filter" /\ phase \in LintPhases /\ phase' \in LintPhases
  BY DEF LintPhases
<1>2. running = {}
  BY FS_EmptySet DEF JobInv
<1>3. JobSeq' = JobSeq /\ Len(JobSeq) \in Nat /\ \A n \in 1 .. Len(JobSeq) : JobSeq[n] \in Checks
  BY <1>1, CheckerFact, FrameFact
<1>4. handled = 0 /\ seen = 0 /\ toScan = {}
  BY DEF LoopInv, LintPhases
<1>5. TypeOK' /\ JobInv'
  BY <1>1, <1>2 DEF TypeOK, Phases, JobInv
<1>6. LoopInv'
  <2>1. 0 < Len(JobSeq) => Len(problems[JobSeq[1]]) \in Nat
    BY <1>3 DEF TypeOK
  <2>. QED  BY <1>1, <1>3, <1>4, <2>1 DEF LoopInv
<1>7. \A n \in 1 .. Len(JobSeq) : Handled(n)' = Handled(n)
  BY <1>1, <1>4 DEF Handled
<1>8. \A p \in Places : \A e \in Due(p) : Passed(e[1], e[2])' <=> Passed(e[1], e[2])
  BY <1>1 DEF Passed
<1>9. OutInv'
  BY <1>1, <1>7, <1>8, SameOut DEF OutInv
<1>. QED  BY <1>1, <1>5, <1>6, <1>9, SameResults DEF OutInv

LEMMA FilterNextInv == ASSUME LinterInv, FilterNext PROVE LinterInv'
<1>. USE DEF LinterInv, FilterNext, jobVars
<1>1. phase = "filter" /\ phase' = "filter" /\ phase \in LintPhases
  BY DEF LintPhases
<1>2. JobSeq' = JobSeq /\ Len(JobSeq) \in Nat /\ \A n \in 1 .. Len(JobSeq) : JobSeq[n] \in Checks
  BY <1>1, CheckerFact, FrameFact
<1>3. handled \in 0 .. Len(JobSeq)
  BY <1>1 DEF LoopInv
<1>4. TypeOK' /\ JobInv'
  BY <1>1 DEF TypeOK, JobInv
<1>5. LoopInv'
  <2>1. handled' < Len(JobSeq) => Len(problems[JobSeq[handled' + 1]]) \in Nat
    BY <1>2, <1>3 DEF TypeOK
  <2>. QED  BY <1>1, <1>2, <1>3, <2>1 DEF LoopInv
<1>6. \A n \in 1 .. Len(JobSeq) : Handled(n)' = Handled(n)
  BY <1>1, <1>2, <1>3 DEF Handled
<1>7. \A p \in Places : \A e \in Due(p) : Passed(e[1], e[2])' <=> Passed(e[1], e[2])
  BY <1>1 DEF Passed
<1>8. OutInv'
  BY <1>1, <1>6, <1>7, SameOut DEF OutInv
<1>. QED  BY <1>1, <1>4, <1>5, <1>8, SameResults DEF OutInv

LEMMA FilterDoneInv == ASSUME LinterInv, FilterDone PROVE LinterInv'
<1>. USE DEF LinterInv, FilterDone, jobVars
<1>1. phase = "filter" /\ phase' = "unmatched" /\ phase \in LintPhases /\ phase' \in LintPhases
  BY DEF LintPhases
<1>2. JobSeq' = JobSeq /\ Len(JobSeq) \in Nat
  BY <1>1, CheckerFact, FrameFact
<1>3. handled = Len(JobSeq) /\ seen = 0 /\ toScan = {}
  BY <1>1 DEF LoopInv
<1>4. TypeOK' /\ JobInv'
  BY <1>1 DEF TypeOK, Phases, JobInv
<1>5. LoopInv'
  <2>1. Len(ignores) \in Nat
    BY DEF TypeOK
  <2>2. 0 < Len(ignores) => ignores[1].checks \in Seq(Patterns)
    BY <2>1, ConstantsAssumption DEF TypeOK, Directive
  <2>. QED  BY <1>1, <1>3, <2>1, <2>2 DEF LoopInv
<1>6. \A n \in 1 .. Len(JobSeq) : Handled(n)' = Handled(n)
  BY <1>1, <1>2, <1>3 DEF Handled
<1>7. \A p \in Places : \A e \in Due(p) : Passed(e[1], e[2])' <=> Passed(e[1], e[2])
  <2>1. \A p \in Places : \A e \in Due(p) : e[2] \in Nat /\ e[2] >= 1
    BY ConstantsAssumption DEF Due, Directive, TypeOK
  <2>. QED  BY <1>1, <1>3, <2>1 DEF Passed
<1>8. OutInv'
  BY <1>1, <1>6, <1>7, SameOut DEF OutInv
<1>. QED  BY <1>1, <1>4, <1>5, <1>8, SameResults DEF OutInv

(* After the filter the ignores that matched are known.                    *)
LEMMA MatchedFact ==
  ASSUME LinterInv, phase \in {"unmatched", "sort"}, NEW d \in source, Valid(d)
  PROVE  d \in matched <=> Matches(d, ToSet(JobSeq))
<1>. USE DEF LinterInv
<1>1. phase \in LintPhases /\ toScan = {} /\ \A n : Handled(n) = Len(problems[JobSeq[n]])
  BY DEF LintPhases, LoopInv, Handled
<1>2. \E i \in 1 .. Len(ignores) : ignores[i] = d
  BY <1>1 DEF IgnoresInv
<1>3. d \in matched <=> \E n \in 1 .. Len(JobSeq) : \E i \in 1 .. Len(problems[JobSeq[n]]) :
                          Match(d, JobSeq[n], problems[JobSeq[n]][i])
  BY <1>1, <1>2 DEF MatchedInv
<1>4. ToSet(JobSeq) = {JobSeq[n] : n \in 1 .. Len(JobSeq)} /\ \A n \in 1 .. Len(JobSeq) : JobSeq[n] \in Checks
  BY <1>1, CheckerFact
<1>5. \A n \in 1 .. Len(JobSeq) :
         ToSet(problems[JobSeq[n]]) = {problems[JobSeq[n]][i] : i \in 1 .. Len(problems[JobSeq[n]])}
  BY <1>4, ToSetFact DEF TypeOK
<1>6. Matches(d, ToSet(JobSeq)) <=>
        \E n \in 1 .. Len(JobSeq) : \E q \in ToSet(problems[JobSeq[n]]) : Match(d, JobSeq[n], q)
  BY <1>4 DEF Matches
<1>7. \A n \in 1 .. Len(JobSeq) :
        (\E q \in ToSet(problems[JobSeq[n]]) : Match(d, JobSeq[n], q)) <=>
        \E i \in 1 .. Len(problems[JobSeq[n]]) : Match(d, JobSeq[n], problems[JobSeq[n]][i])
  BY <1>5
<1>. QED  BY <1>3, <1>6, <1>7

LEMMA UnmatchedNextInv == ASSUME LinterInv, UnmatchedNext PROVE LinterInv'
<1>. USE DEF LinterInv, UnmatchedNext, jobVars
<1>1. phase = "unmatched" /\ phase' = "unmatched" /\ phase \in LintPhases
  BY DEF LintPhases
<1>2. JobSeq' = JobSeq
  BY <1>1, FrameFact
<1>3. handled \in 0 .. Len(ignores) /\ Len(ignores) \in Nat /\ toScan = {}
      /\ seen \in 0 .. Len(ignores[handled + 1].checks)
  BY <1>1 DEF LoopInv, TypeOK, LintPhases
<1>4. \A n \in 1 .. Len(ignores) : ignores[n].checks \in Seq(Patterns) /\ ignores[n] \in source /\ Valid(ignores[n])
  BY <1>1, ConstantsAssumption DEF TypeOK, Directive, IgnoresInv
<1>5. TypeOK' /\ JobInv'
  BY <1>1 DEF TypeOK, JobInv
<1>6. LoopInv'
  BY <1>1, <1>3, <1>4 DEF LoopInv
<1>7. \A n \in 1 .. Len(JobSeq) : Handled(n)' = Handled(n)
  BY <1>1, <1>2 DEF Handled
<1>8. \A p \in Places : \A e \in Due(p) : Passed(e[1], e[2])' <=> Passed(e[1], e[2])
  <2>. SUFFICES ASSUME NEW p \in Places, NEW e \in Due(p) PROVE Passed(e[1], e[2])' <=> Passed(e[1], e[2])
    OBVIOUS
  <2>. DEFINE d == e[1]
  <2>1. d \in source /\ e[2] \in 1 .. Len(d.checks) /\ d.cmd = "ignore" /\ Valid(d) /\ ~Matches(d, ToSet(JobSeq))
    BY DEF Due, Useless, JobSeq
  <2>2. d \notin matched
    BY <1>1, <2>1, MatchedFact
  <2>3. d.checks \in Seq(Patterns)
    BY <2>1, ConstantsAssumption DEF TypeOK, Directive
  <2>4. ignores[handled + 1] = d => seen = Len(d.checks)
    BY <2>1, <2>2
  <2>5. \A n \in 1 .. Len(ignores) : ignores[n] = d =>
          (n <= handled \/ (n = handled + 1 /\ e[2] <= seen) <=> n <= handled + 1 \/ (n = handled + 2 /\ e[2] <= 0))
    BY <1>3, <2>1, <2>3, <2>4
  <2>. QED  BY <1>1, <1>3, <2>5 DEF Passed
<1>9. OutInv'
  BY <1>1, <1>7, <1>8, SameOut DEF OutInv
<1>. QED  BY <1>1, <1>5, <1>6, <1>9, SameResults DEF OutInv

LEMMA UnmatchedDoneInv == ASSUME LinterInv, UnmatchedDone PROVE LinterInv'
<1>. USE DEF LinterInv, UnmatchedDone, jobVars
<1>1. phase = "unmatched" /\ phase' = "sort" /\ phase \in LintPhases /\ phase' \in LintPhases
  BY DEF LintPhases
<1>2. JobSeq' = JobSeq /\ Len(ignores) \in Nat /\ toScan = {}
  BY <1>1, FrameFact DEF TypeOK, LoopInv, LintPhases
<1>3. TypeOK' /\ JobInv' /\ LoopInv'
  BY <1>1, <1>2 DEF TypeOK, Phases, JobInv, LoopInv
<1>4. \A n \in 1 .. Len(JobSeq) : Handled(n)' = Handled(n)
  BY <1>1, <1>2 DEF Handled
<1>5. \A p \in Places : \A e \in Due(p) : Passed(e[1], e[2])' <=> Passed(e[1], e[2])
  <2>. SUFFICES ASSUME NEW p \in Places, NEW e \in Due(p) PROVE Passed(e[1], e[2]) /\ Passed(e[1], e[2])'
    OBVIOUS
  <2>1. e[1] \in source /\ Valid(e[1])
    BY DEF Due, Useless
  <2>2. \E n \in 1 .. Len(ignores) : ignores[n] = e[1]
    BY <1>1, <1>2, <2>1 DEF IgnoresInv
  <2>. QED  BY <1>1, <1>2, <2>2 DEF Passed
<1>6. OutInv'
  BY <1>1, <1>4, <1>5, SameOut DEF OutInv
<1>. QED  BY <1>1, <1>3, <1>6, SameResults DEF OutInv

(* Problems are told apart by what they say, where and of which check.     *)
LEMMA RecordFact ==
  /\ \A k, p, b, t, q : t # "problem" => Found(k, p, b) # Message(t, q)
  /\ \A t, p, u, q : Message(t, p) = Message(u, q) => t = u /\ p = q
  /\ \A k, p, b, j, q, c : Found(k, p, b) = Found(j, q, c) => k = j /\ p = q /\ b = c
<1>1. \A k, p, b, t, q : t # "problem" => Found(k, p, b) # Message(t, q)
  <2>1. \A k, p, b, t, q : Found(k, p, b).text = "problem" /\ Message(t, q).text = t
    BY DEF Found, Message
  <2>. QED  BY <2>1
<1>2. \A t, p, u, q : Message(t, p) = Message(u, q) => t = u /\ p = q
  <2>1. \A t, q : Message(t, q).text = t /\ Message(t, q).at = q
    BY DEF Message
  <2>. QED  BY <2>1
<1>3. \A k, p, b, j, q, c : Found(k, p, b) = Found(j, q, c) => k = j /\ p = q /\ b = c
  <2>1. \A k, p, b : Found(k, p, b).check = k /\ Found(k, p, b).at = p /\ Found(k, p, b).ignored = b
    BY DEF Found
  <2>. QED  BY <2>1
<1>. QED  BY <1>1, <1>2, <1>3

LEMMA BadAtFact == ASSUME TypeOK, NEW p, NEW T PROVE IsFiniteSet(BadAt(p) \ T)
<1>1. IsFiniteSet(source)
  BY ConstantsAssumption DEF TypeOK
<1>. QED  BY <1>1, FS_Subset, BadAt(p) \ T \subseteq source DEF BadAt

LEMMA ScanInv == ASSUME LinterInv, NEW d \in toScan, Scan(d) PROVE LinterInv'
<1>. USE DEF LinterInv
<1>1. phase = "scan" /\ phase' = "scan" /\ phase \in LintPhases
  BY DEF LintPhases, Scan
<1>2. /\ UNCHANGED <<source, options, cur, matched, spawned, wg, running, problems, handled, seen, results, exit>>
      /\ toScan' = toScan \ {d}
  BY DEF Scan, jobVars
<1>3. d \in source /\ d \in Directive /\ source \subseteq Directive
  BY ConstantsAssumption DEF TypeOK
<1>4. /\ JobSeq' = JobSeq /\ Checker' = Checker /\ Checker \in Checkers
      /\ \A k, p : Suppressed(k, p)' = Suppressed(k, p)
      /\ \A k, p, b : Found(k, p, b)' = Found(k, p, b)
      /\ \A t, p : Message(t, p)' = Message(t, p)
      /\ \A p : BadAt(p)' = BadAt(p)
  BY <1>1, <1>2, FrameFact, CheckerFact
<1>5. d.at \in Places /\ Message("malformed", d.at) \in Problem /\ Message("malformed", d.at).checker = Checker
  <2>1. d.at \in Places
    BY <1>3 DEF Directive
  <2>. QED  BY <1>4, <2>1 DEF Message, Problem
<1>6. \/ d.cmd = "unknown" /\ UNCHANGED <<ignores, out>>
      \/ d.cmd # "unknown" /\ ~d.reason /\ out' = Append(out, Message("malformed", d.at)) /\ UNCHANGED ignores
      \/ Valid(d) /\ ignores' = Append(ignores, d) /\ UNCHANGED out
  BY DEF Scan, Valid
<1>7. TypeOK'
  <2>1. ignores' \in Seq(source) /\ out' \in Seq(Problem)
    <3>1. ignores \in Seq(source) /\ out \in Seq(Problem)
      BY DEF TypeOK
    <3>2. Append(ignores, d) \in Seq(source)
      BY <1>3, <3>1, AppendProperties
    <3>3. Append(out, Message("malformed", d.at)) \in Seq(Problem)
      BY <1>5, <3>1, AppendProperties
    <3>. QED  BY <1>6, <3>1, <3>2, <3>3
  <2>. QED  BY <1>1, <1>2, <2>1 DEF TypeOK
<1>8. JobInv' /\ LoopInv'
  BY <1>1, <1>2, <1>4 DEF JobInv, LoopInv
<1>9. IgnoresInv'
  <2>1. ignores \in Seq(source) /\ Len(ignores) \in Nat
    BY DEF TypeOK
  <2>2. /\ \A i, j \in 1 .. Len(ignores) : ignores[i] = ignores[j] => i = j
        /\ \A i \in 1 .. Len(ignores) : ignores[i] \in source \ toScan /\ Valid(ignores[i])
        /\ \A c \in source \ toScan : Valid(c) => \E i \in 1 .. Len(ignores) : ignores[i] = c
    BY <1>1 DEF IgnoresInv
  <2>3. CASE ~Valid(d) /\ ignores' = ignores
    BY <1>2, <2>2, <2>3 DEF IgnoresInv
  <2>4. CASE Valid(d) /\ ignores' = Append(ignores, d)
    <3>1. /\ Len(ignores') = Len(ignores) + 1 /\ ignores'[Len(ignores) + 1] = d
          /\ \A i \in 1 .. Len(ignores) : ignores'[i] = ignores[i] /\ ignores[i] # d
      BY <1>3, <2>1, <2>2, <2>4
    <3>2. \A i, j \in 1 .. Len(ignores') : ignores'[i] = ignores'[j] => i = j
      BY <2>1, <2>2, <3>1
    <3>3. \A i \in 1 .. Len(ignores') : ignores'[i] \in source \ toScan' /\ Valid(ignores'[i])
      BY <1>2, <1>3, <2>1, <2>2, <2>4, <3>1
    <3>4. \A c \in source \ toScan' : Valid(c) => \E i \in 1 .. Len(ignores') : ignores'[i] = c
      BY <1>2, <2>1, <2>2, <3>1
    <3>. QED  BY <1>2, <3>2, <3>3, <3>4 DEF IgnoresInv
  <2>. QED  BY <1>6, <2>3, <2>4 DEF Valid
<1>10. \A n : Handled(n) = 0 /\ Handled(n)' = 0
  BY <1>1 DEF Handled
<1>11. MatchedInv'
  <2>1. matched = {}
    BY <1>1 DEF LoopInv
  <2>. QED  BY <1>2, <1>10, <2>1 DEF MatchedInv
<1>12. \A x : /\ Occurrences(out, x) \in Nat
              /\ Occurrences(out', x) = Occurrences(out, x) \/ x = Message("malformed", d.at)
  <2>. SUFFICES ASSUME NEW x
               PROVE  /\ Occurrences(out, x) \in Nat
                      /\ Occurrences(out', x) = Occurrences(out, x) \/ x = Message("malformed", d.at)
    OBVIOUS
  <2>1. out \in Seq(Problem)
    BY DEF TypeOK
  <2>2. /\ Occurrences(out, x) \in Nat
        /\ x # Message("malformed", d.at) =>
             Occurrences(Append(out, Message("malformed", d.at)), x) = Occurrences(out, x)
    BY <1>5, <2>1, OccurrencesAppend
  <2>. QED  BY <1>6, <2>2
<1>13. FoundInv'
  <2>. SUFFICES ASSUME NEW n \in 1 .. Len(JobSeq), NEW p \in Places, NEW b \in BOOLEAN
               PROVE  Occurrences(out', Found(JobSeq[n], p, b)) =
                 IF b = Suppressed(JobSeq[n], p) /\ (b => options.showIgnored)
                 THEN CountTo(problems[JobSeq[n]], Handled(n), p)' ELSE 0
    BY <1>2, <1>4 DEF FoundInv
  <2>1. CountTo(problems[JobSeq[n]], Handled(n), p)' = CountTo(problems[JobSeq[n]], Handled(n), p)
    BY <1>10, NoneCounted
  <2>2. Occurrences(out', Found(JobSeq[n], p, b)) = Occurrences(out, Found(JobSeq[n], p, b))
    BY <1>12, RecordFact
  <2>. QED  BY <1>1, <2>1, <2>2 DEF FoundInv
<1>14. MalformedInv'
  <2>. SUFFICES ASSUME NEW p \in Places
               PROVE  Occurrences(out', Message("malformed", p)) = Cardinality(BadAt(p) \ toScan')
    BY <1>4 DEF MalformedInv
  <2>1. Occurrences(out, Message("malformed", p)) = Cardinality(BadAt(p) \ toScan)
    BY <1>1 DEF MalformedInv
  <2>2. CASE d \in BadAt(p)
    <3>1. BadAt(p) \ toScan' = (BadAt(p) \ toScan) \cup {d} /\ d \notin BadAt(p) \ toScan
      BY <1>2, <2>2
    <3>2. Cardinality(BadAt(p) \ toScan') = Cardinality(BadAt(p) \ toScan) + 1
      BY <3>1, BadAtFact, FS_AddElement
    <3>3. d.at = p /\ out' = Append(out, Message("malformed", d.at))
      BY <1>6, <2>2 DEF BadAt, Valid
    <3>4. Occurrences(out', Message("malformed", p)) = Occurrences(out, Message("malformed", p)) + 1
      BY <1>5, <3>3, OccurrencesAppend DEF TypeOK
    <3>. QED  BY <2>1, <3>2, <3>4
  <2>3. CASE d \notin BadAt(p)
    <3>1. BadAt(p) \ toScan' = BadAt(p) \ toScan
      BY <1>2, <2>3
    <3>2. out' = out \/ (d.at # p /\ out' = Append(out, Message("malformed", d.at)))
      BY <1>3, <1>6, <2>3 DEF BadAt
    <3>3. Occurrences(out', Message("malformed", p)) = Occurrences(out, Message("malformed", p))
      BY <1>12, <3>2, RecordFact
    <3>. QED  BY <2>1, <3>1, <3>3
  <2>. QED  BY <2>2, <2>3
<1>15. UnmatchedInv'
  <2>1. \A p : {e \in Due(p) : Passed(e[1], e[2])}' = {e \in Due(p) : Passed(e[1], e[2])}
    BY <1>1 DEF Passed
  <2>2. \A p : Occurrences(out', Message("unmatched", p)) = Occurrences(out, Message("unmatched", p))
    BY <1>12, RecordFact
  <2>. QED  BY <1>1, <1>4, <2>1, <2>2 DEF UnmatchedInv
<1>16. OwnInv'
  <2>1. out \in Seq(Problem) /\ \A i \in 1 .. Len(out) : out[i].checker = Checker
    BY <1>1 DEF OwnInv, TypeOK
  <2>2. \A i \in 1 .. Len(out') : out'[i].checker = Checker
    <3>1. CASE out' = out
      BY <2>1, <3>1
    <3>2. CASE out' = Append(out, Message("malformed", d.at))
      BY <1>5, <2>1, <3>2
    <3>. QED  BY <1>6, <3>1, <3>2
  <2>. QED  BY <1>4, <2>2 DEF OwnInv
<1>17. ResultsInv'
  BY <1>1, <1>2, SameResults
<1>. QED  BY <1>7, <1>8, <1>9, <1>11, <1>13, <1>14, <1>15, <1>16, <1>17

(* Once the directives have been scanned, l.ignore finds what suppresses a *)
(* problem.                                                                *)
LEMMA IgnoredFact ==
  ASSUME TypeOK, IgnoresInv, phase \in LintPhases, toScan = {}, NEW k, NEW p
  PROVE  Ignored(k, p) <=> Suppressed(k, p)
<1>1. ToSet(ignores) = {ignores[i] : i \in 1 .. Len(ignores)}
  BY ToSetFact DEF TypeOK
<1>2. \A d : d \in ToSet(ignores) <=> d \in source /\ Valid(d)
  BY <1>1 DEF IgnoresInv
<1>. QED  BY <1>2 DEF Ignored, Matching, Suppressed

LEMMA FilterInv == ASSUME LinterInv, Filter PROVE LinterInv'
<1>. USE DEF LinterInv
<1>. DEFINE h == handled + 1
            k == JobSeq[h]
            x == problems[k][seen + 1]
            g == Ignored(k, x)
            q == Found(k, x, g)
<1>1. /\ phase = "filter" /\ phase' = "filter" /\ phase \in LintPhases
      /\ UNCHANGED <<source, options, cur, toScan, ignores, spawned, wg, running, problems, handled, results, exit>>
      /\ handled < Len(JobSeq) /\ seen < Len(problems[k]) /\ seen' = seen + 1
  BY DEF LintPhases, Filter, jobVars
<1>2. /\ Checker \in Checkers /\ Len(JobSeq) \in Nat
      /\ \A n \in 1 .. Len(JobSeq) : JobSeq[n] \in Checks
      /\ \A i, j \in 1 .. Len(JobSeq) : JobSeq[i] = JobSeq[j] => i = j
  BY <1>1, CheckerFact
<1>3. /\ h \in 1 .. Len(JobSeq) /\ k \in Checks /\ seen \in Nat /\ problems[k] \in Seq(Places)
      /\ x \in Places /\ toScan = {} /\ g \in BOOLEAN
  <2>1. handled \in Nat /\ seen \in Nat /\ toScan = {}
    BY <1>1 DEF TypeOK, LoopInv, LintPhases
  <2>2. h \in 1 .. Len(JobSeq) /\ k \in Checks
    BY <1>1, <1>2, <2>1
  <2>3. problems[k] \in Seq(Places)
    BY <2>2 DEF TypeOK
  <2>4. x \in Places
    BY <1>1, <2>1, <2>3
  <2>. QED  BY <2>1, <2>2, <2>3, <2>4 DEF Ignored
<1>4. g <=> Suppressed(k, x)
  BY <1>1, <1>3, IgnoredFact
<1>5. q \in Problem /\ q.checker = Checker /\ q.ignored = g /\ q.at = x
  BY <1>2, <1>3 DEF Found, Problem
<1>6. /\ matched' = matched \cup Matching(k, x)
      /\ \/ (options.showIgnored \/ ~g) /\ out' = Append(out, q)
         \/ ~(options.showIgnored \/ ~g) /\ out' = out
  <2>1. Reported(k, x) = q
    BY DEF Reported, Found
  <2>. QED  BY <1>5, <2>1 DEF Filter, Kept
<1>7. /\ JobSeq' = JobSeq /\ Checker' = Checker
      /\ \A j, p : Suppressed(j, p)' = Suppressed(j, p)
      /\ \A j, p, b : Found(j, p, b)' = Found(j, p, b)
      /\ \A t, p : Message(t, p)' = Message(t, p)
      /\ \A p : BadAt(p)' = BadAt(p) /\ Due(p)' = Due(p)
  BY <1>1, FrameFact, DueFact
<1>8. out \in Seq(Problem) /\ out' \in Seq(Problem)
  <2>1. out \in Seq(Problem)
    BY DEF TypeOK
  <2>2. Append(out, q) \in Seq(Problem)
    BY <1>5, <2>1, AppendProperties
  <2>. QED  BY <1>6, <2>1, <2>2
<1>. HIDE DEF q, g
<1>9. \A y : /\ Occurrences(out, y) \in Nat
             /\ Occurrences(out', y) =
                  Occurrences(out, y) + (IF y = q /\ (options.showIgnored \/ ~g) THEN 1 ELSE 0)
  <2>. SUFFICES ASSUME NEW y
               PROVE  /\ Occurrences(out, y) \in Nat
                      /\ Occurrences(out', y) =
                           Occurrences(out, y) + (IF y = q /\ (options.showIgnored \/ ~g) THEN 1 ELSE 0)
    OBVIOUS
  <2>1. /\ Occurrences(out, y) \in Nat
        /\ Occurrences(Append(out, q), y) = Occurrences(out, y) + (IF q = y THEN 1 ELSE 0)
    BY <1>5, <1>8, OccurrencesAppend
  <2>2. CASE options.showIgnored \/ ~g
    BY <1>6, <2>1, <2>2
  <2>3. CASE ~(options.showIgnored \/ ~g)
    BY <1>6, <2>1, <2>3
  <2>. QED  BY <2>2, <2>3
<1>10. TypeOK'
  <2>1. Matching(k, x) \subseteq source
    BY ToSetFact DEF TypeOK, Matching
  <2>. QED  BY <1>1, <1>3, <1>6, <1>8, <2>1 DEF TypeOK
<1>11. JobInv' /\ LoopInv'
  BY <1>1, <1>3, <1>7 DEF JobInv, LoopInv
<1>12. IgnoresInv'
  BY <1>1 DEF IgnoresInv
<1>13. /\ Handled(h) = seen /\ Handled(h)' = seen + 1
       /\ \A n \in 1 .. Len(JobSeq) : n # h => Handled(n)' = Handled(n)
  BY <1>1, <1>3, <1>7 DEF Handled, TypeOK
<1>14. MatchedInv'
  <2>. SUFFICES ASSUME NEW d \in source
               PROVE  d \in matched' <=>
                        /\ \E i \in 1 .. Len(ignores) : ignores[i] = d
                        /\ \E n \in 1 .. Len(JobSeq) : \E i \in 1 .. Handled(n)' :
                              Match(d, JobSeq[n], problems[JobSeq[n]][i])
    BY <1>1, <1>7 DEF MatchedInv
  <2>1. d \in matched <=>
          /\ \E i \in 1 .. Len(ignores) : ignores[i] = d
          /\ \E n \in 1 .. Len(JobSeq) : \E i \in 1 .. Handled(n) :
                Match(d, JobSeq[n], problems[JobSeq[n]][i])
    BY <1>1 DEF MatchedInv
  <2>2. d \in Matching(k, x) <=> (\E i \in 1 .. Len(ignores) : ignores[i] = d) /\ Match(d, k, x)
    <3>1. ToSet(ignores) = {ignores[i] : i \in 1 .. Len(ignores)}
      BY ToSetFact DEF TypeOK
    <3>. QED  BY <3>1 DEF Matching
  <2>3. (\E n \in 1 .. Len(JobSeq) : \E i \in 1 .. Handled(n)' : Match(d, JobSeq[n], problems[JobSeq[n]][i]))
        <=> \/ \E n \in 1 .. Len(JobSeq) : \E i \in 1 .. Handled(n) : Match(d, JobSeq[n], problems[JobSeq[n]][i])
            \/ Match(d, k, x)
    <3>. DEFINE A(n) == \E i \in 1 .. Handled(n)' : Match(d, JobSeq[n], problems[JobSeq[n]][i])
                B(n) == \E i \in 1 .. Handled(n) : Match(d, JobSeq[n], problems[JobSeq[n]][i])
    <3>1. \A n \in 1 .. Len(JobSeq) : n # h => (A(n) <=> B(n))
      BY <1>13
    <3>2. (\E i \in 1 .. seen + 1 : Match(d, k, problems[k][i])) <=>
          (\E i \in 1 .. seen : Match(d, k, problems[k][i])) \/ Match(d, k, x)
      BY <1>3
    <3>3. A(h) <=> B(h) \/ Match(d, k, x)
      BY <1>13, <3>2
    <3>4. (\E n \in 1 .. Len(JobSeq) : A(n)) <=> (\E n \in 1 .. Len(JobSeq) : B(n)) \/ Match(d, k, x)
      <4>. HIDE DEF A, B, k, x, h
      <4>. QED  BY <1>3, <3>1, <3>3
    <3>. QED  BY <3>4
  <2>. QED  BY <1>6, <2>1, <2>2, <2>3
<1>15. FoundInv'
  <2>. SUFFICES ASSUME NEW n \in 1 .. Len(JobSeq), NEW p \in Places, NEW b \in BOOLEAN
               PROVE  Occurrences(out', Found(JobSeq[n], p, b)) =
                 IF b = Suppressed(JobSeq[n], p) /\ (b => options.showIgnored)
                 THEN CountTo(problems[JobSeq[n]], Handled(n)', p) ELSE 0
    BY <1>1, <1>7 DEF FoundInv
  <2>1. Occurrences(out, Found(JobSeq[n], p, b)) =
          IF b = Suppressed(JobSeq[n], p) /\ (b => options.showIgnored)
          THEN CountTo(problems[JobSeq[n]], Handled(n), p) ELSE 0
    BY <1>1 DEF FoundInv
  <2>2. CASE n # h
    <3>1. Found(JobSeq[n], p, b) # q
      BY <1>2, <1>3, <2>2, RecordFact DEF q
    <3>. QED  BY <1>9, <1>13, <2>1, <2>2, <3>1
  <2>3. CASE n = h
    <3>1. /\ CountTo(problems[k], seen, p) \in Nat
          /\ CountTo(problems[k], seen + 1, p) = CountTo(problems[k], seen, p) + (IF x = p THEN 1 ELSE 0)
      BY <1>3, PrefixCount
    <3>2. Found(k, p, b) = q <=> p = x /\ b = g
      BY RecordFact DEF q
    <3>3. Suppressed(k, p) \in BOOLEAN /\ g \in BOOLEAN
      BY <1>3 DEF Suppressed
    <3>4. Occurrences(out', Found(k, p, b)) =
            Occurrences(out, Found(k, p, b)) + (IF p = x /\ b = g /\ (options.showIgnored \/ ~b) THEN 1 ELSE 0)
      BY <1>9, <3>2
    <3>5. CASE b = Suppressed(k, p) /\ (b => options.showIgnored)
      <4>1. p = x => b = g
        BY <1>4, <3>3, <3>5
      <4>2. Occurrences(out, Found(k, p, b)) = CountTo(problems[k], seen, p)
        BY <1>13, <2>1, <2>3, <3>5
      <4>3. Occurrences(out', Found(k, p, b)) = CountTo(problems[k], seen + 1, p)
        <5>1. CASE p = x
          BY <3>1, <3>4, <3>5, <4>1, <4>2, <5>1
        <5>2. CASE p # x
          BY <3>1, <3>4, <4>2, <5>2
        <5>. QED  BY <5>1, <5>2
      <4>4. JobSeq[n] = k /\ Handled(n)' = seen + 1
        BY <1>1, <1>13, <2>3
      <4>. HIDE DEF k
      <4>. QED  BY <3>5, <4>3, <4>4
    <3>6. CASE ~(b = Suppressed(k, p) /\ (b => options.showIgnored))
      <4>1. ~(p = x /\ b = g /\ (options.showIgnored \/ ~b))
        BY <1>4, <3>3, <3>6
      <4>. QED  BY <2>1, <2>3, <3>4, <3>6, <4>1
    <3>. QED  BY <3>5, <3>6
  <2>. QED  BY <2>2, <2>3
<1>16. \A t, p : t # "problem" => Occurrences(out', Message(t, p)) = Occurrences(out, Message(t, p))
  BY <1>9, RecordFact DEF q
<1>17. MalformedInv'
  BY <1>1, <1>7, <1>16 DEF MalformedInv
<1>18. UnmatchedInv'
  <2>1. \A p : {e \in Due(p) : Passed(e[1], e[2])}' = {e \in Due(p) : Passed(e[1], e[2])}
    BY <1>1, <1>7 DEF Passed
  <2>. QED  BY <1>1, <1>7, <1>16, <2>1 DEF UnmatchedInv
<1>19. OwnInv'
  <2>1. \A i \in 1 .. Len(out) : out[i].checker = Checker
    BY <1>1 DEF OwnInv
  <2>2. \A i \in 1 .. Len(out') : out'[i].checker = Checker
    <3>1. CASE out' = out
      BY <2>1, <3>1
    <3>2. CASE out' = Append(out, q)
      BY <1>5, <1>8, <2>1, <3>2
    <3>. QED  BY <1>6, <3>1, <3>2
  <2>. QED  BY <1>7, <2>2 DEF OwnInv
<1>20. ResultsInv'
  BY <1>1, SameResults
<1>. QED  BY <1>10, <1>11, <1>12, <1>14, <1>15, <1>17, <1>18, <1>19, <1>20

LEMMA DueFinite == ASSUME TypeOK, NEW p, NEW T, T \subseteq Due(p) PROVE IsFiniteSet(T)
<1>. DEFINE All == {{d} \X (1 .. Len(d.checks)) : d \in source}
            f == [d \in source |-> {d} \X (1 .. Len(d.checks))]
<1>1. IsFiniteSet(source)
  BY ConstantsAssumption DEF TypeOK
<1>2. f \in Surjection(source, All)
  BY DEF Surjection
<1>3. IsFiniteSet(All)
  BY <1>1, <1>2, FS_Surjection
<1>4. \A s \in All : IsFiniteSet(s)
  <2>. SUFFICES ASSUME NEW d \in source PROVE IsFiniteSet({d} \X (1 .. Len(d.checks)))
    OBVIOUS
  <2>1. Len(d.checks) \in Nat
    BY ConstantsAssumption DEF TypeOK, Directive
  <2>2. IsFiniteSet(1 .. Len(d.checks))
    BY <2>1, FS_Interval
  <2>3. IsFiniteSet({d})
    BY FS_Singleton
  <2>. QED  BY <2>2, <2>3, FS_Product
<1>5. IsFiniteSet(UNION All)
  BY <1>3, <1>4, FS_UNION
<1>6. T \subseteq UNION All
  BY DEF Due
<1>. QED  BY <1>5, <1>6, FS_Subset

LEMMA UnmatchedStepInv == ASSUME LinterInv, Unmatched PROVE LinterInv'
<1>. USE DEF LinterInv
<1>. DEFINE h == handled + 1
            d == ignores[h]
            q == Message("unmatched", d.at)
            own == PrefixOf[d.checks[seen + 1]] = Prefix[Checker]
            e0 == <<d, seen + 1>>
<1>1. /\ phase = "unmatched" /\ phase' = "unmatched" /\ phase \in LintPhases
      /\ UNCHANGED <<source, options, cur, toScan, ignores, matched, spawned, wg, running, problems,
                     handled, results, exit>>
      /\ handled < Len(ignores) /\ d.cmd = "ignore" /\ d \notin matched
      /\ seen < Len(d.checks) /\ seen' = seen + 1
      /\ out' = IF own THEN Append(out, q) ELSE out
  BY DEF LintPhases, Unmatched, jobVars
<1>2. handled \in Nat /\ seen \in Nat /\ toScan = {} /\ Len(ignores) \in Nat /\ h \in 1 .. Len(ignores)
  BY <1>1 DEF TypeOK, LoopInv, LintPhases
<1>3. d \in source /\ Valid(d) /\ d \in Directive
  BY <1>1, <1>2, ConstantsAssumption DEF TypeOK, IgnoresInv
<1>4. d.at \in Places /\ d.checks \in Seq(Patterns)
  BY <1>3 DEF Directive
<1>5. Checker \in Checkers
  BY <1>1, CheckerFact
<1>6. q \in Problem /\ q.checker = Checker
  BY <1>4, <1>5 DEF Message, Problem
<1>7. /\ JobSeq' = JobSeq /\ Checker' = Checker
      /\ \A j, p : Suppressed(j, p)' = Suppressed(j, p)
      /\ \A j, p, b : Found(j, p, b)' = Found(j, p, b)
      /\ \A t, p : Message(t, p)' = Message(t, p)
      /\ \A p : BadAt(p)' = BadAt(p) /\ Due(p)' = Due(p)
  BY <1>1, FrameFact, DueFact
<1>8. out \in Seq(Problem) /\ out' \in Seq(Problem)
  <2>1. out \in Seq(Problem)
    BY DEF TypeOK
  <2>2. Append(out, q) \in Seq(Problem)
    BY <1>6, <2>1, AppendProperties
  <2>. QED  BY <1>1, <2>1, <2>2
<1>. HIDE DEF q
<1>9. \A y : /\ Occurrences(out, y) \in Nat
             /\ Occurrences(out', y) = Occurrences(out, y) + (IF y = q /\ own THEN 1 ELSE 0)
  <2>. SUFFICES ASSUME NEW y
               PROVE  /\ Occurrences(out, y) \in Nat
                      /\ Occurrences(out', y) = Occurrences(out, y) + (IF y = q /\ own THEN 1 ELSE 0)
    OBVIOUS
  <2>1. /\ Occurrences(out, y) \in Nat
        /\ Occurrences(Append(out, q), y) = Occurrences(out, y) + (IF q = y THEN 1 ELSE 0)
    BY <1>6, <1>8, OccurrencesAppend
  <2>2. CASE own
    BY <1>1, <2>1, <2>2
  <2>3. CASE ~own
    BY <1>1, <2>1, <2>3
  <2>. QED  BY <2>2, <2>3
<1>10. TypeOK' /\ JobInv'
  BY <1>1, <1>2, <1>8 DEF TypeOK, JobInv
<1>11. LoopInv'
  BY <1>1, <1>2, <1>4 DEF LoopInv
<1>12. \A n \in 1 .. Len(JobSeq) : Handled(n)' = Handled(n)
  BY <1>1, <1>7 DEF Handled
<1>13. IgnoresInv'
  BY <1>1 DEF IgnoresInv
<1>14. MatchedInv'
  BY <1>1, <1>7, <1>12 DEF MatchedInv
<1>15. \A k, p, b : Occurrences(out', Found(k, p, b)) = Occurrences(out, Found(k, p, b))
  BY <1>9, RecordFact DEF q
<1>16. FoundInv'
  <2>. SUFFICES ASSUME NEW n \in 1 .. Len(JobSeq), NEW p \in Places, NEW b \in BOOLEAN
               PROVE  Occurrences(out, Found(JobSeq[n], p, b)) =
                 IF b = Suppressed(JobSeq[n], p) /\ (b => options.showIgnored)
                 THEN CountTo(problems[JobSeq[n]], Handled(n), p) ELSE 0
    BY <1>1, <1>7, <1>12, <1>15 DEF FoundInv
  <2>. QED  BY <1>1 DEF FoundInv
<1>17. \A p : Occurrences(out', Message("malformed", p)) = Occurrences(out, Message("malformed", p))
  BY <1>9, RecordFact DEF q
<1>18. MalformedInv'
  BY <1>1, <1>7, <1>17 DEF MalformedInv
<1>19. ~Matches(d, ToSet(JobSeq))
  BY <1>1, <1>3, MatchedFact
<1>20. \A c, i : Passed(c, i) <=>
          \E n \in 1 .. Len(ignores) : ignores[n] = c /\ (n <= handled \/ (n = h /\ i <= seen))
  BY <1>1 DEF Passed
<1>21. \A c, i : Passed(c, i)' <=>
          \E n \in 1 .. Len(ignores) : ignores[n] = c /\ (n <= handled \/ (n = h /\ i <= seen + 1))
  BY <1>1 DEF Passed
<1>22. \A n \in 1 .. Len(ignores) : ignores[n] = d => n = h
  BY <1>1, <1>2 DEF IgnoresInv
<1>23. ~Passed(d, seen + 1)
  BY <1>2, <1>20, <1>22
<1>24. \A p : \A e \in Due(p) : Passed(e[1], e[2])' <=> Passed(e[1], e[2]) \/ e = e0
  <2>. SUFFICES ASSUME NEW p, NEW e \in Due(p)
               PROVE  Passed(e[1], e[2])' <=> Passed(e[1], e[2]) \/ e = e0
    OBVIOUS
  <2>1. e = <<e[1], e[2]>> /\ e[2] \in Int
    BY DEF Due
  <2>2. CASE e[1] = d
    <3>1. Passed(e[1], e[2]) <=> e[2] <= seen
      BY <1>2, <1>20, <1>22, <2>2
    <3>2. Passed(e[1], e[2])' <=> e[2] <= seen + 1
      BY <1>2, <1>21, <1>22, <2>2
    <3>3. e = e0 <=> e[2] = seen + 1
      BY <2>1, <2>2
    <3>. QED  BY <1>2, <2>1, <3>1, <3>2, <3>3
  <2>3. CASE e[1] # d
    <3>1. e # e0
      BY <2>3
    <3>2. \A n \in 1 .. Len(ignores) : ignores[n] = e[1] => n # h
      BY <2>3
    <3>. QED  BY <1>20, <1>21, <3>1, <3>2
  <2>. QED  BY <2>2, <2>3
<1>25. \A p : e0 \in Due(p) <=> d.at = p /\ own
  <2>. SUFFICES ASSUME NEW p PROVE e0 \in Due(p) <=> d.at = p /\ own
    OBVIOUS
  <2>1. seen + 1 \in 1 .. Len(d.checks)
    BY <1>1, <1>2, <1>4
  <2>2. e0 \in UNION {{c} \X (1 .. Len(c.checks)) : c \in source}
    <3>1. e0 \in {d} \X (1 .. Len(d.checks))
      BY <2>1
    <3>. QED  BY <1>3, <3>1
  <2>3. e0[1] = d /\ e0[2] = seen + 1
    OBVIOUS
  <2>. HIDE DEF e0, d
  <2>. QED  BY <1>1, <1>3, <1>19, <2>2, <2>3 DEF Due, Useless, JobSeq
<1>26. UnmatchedInv'
  <2>. SUFFICES ASSUME NEW p \in Places
               PROVE  Occurrences(out', Message("unmatched", p)) =
                        Cardinality({e \in Due(p) : Passed(e[1], e[2])'})
    BY <1>1, <1>7 DEF UnmatchedInv
  <2>. DEFINE T == {e \in Due(p) : Passed(e[1], e[2])}
              U == {e \in Due(p) : Passed(e[1], e[2])'}
  <2>1. Occurrences(out, Message("unmatched", p)) = Cardinality(T)
    BY <1>1 DEF UnmatchedInv
  <2>2. IsFiniteSet(T) /\ Cardinality(T) \in Nat
    BY DueFinite, FS_CardinalityType, T \subseteq Due(p)
  <2>3. Message("unmatched", p) = q <=> d.at = p
    BY RecordFact DEF q
  <2>4. CASE d.at = p /\ own
    <3>1. U = T \cup {e0} /\ e0 \notin T
      BY <1>23, <1>24, <1>25, <2>4
    <3>2. Cardinality(U) = Cardinality(T) + 1
      <4>. HIDE DEF T, U, e0
      <4>. QED  BY <2>2, <3>1, FS_AddElement
    <3>. QED  BY <1>9, <2>1, <2>3, <2>4, <3>2
  <2>5. CASE ~(d.at = p /\ own)
    <3>1. U = T
      BY <1>24, <1>25, <2>5
    <3>2. Occurrences(out', Message("unmatched", p)) = Occurrences(out, Message("unmatched", p))
      <4>1. ~(Message("unmatched", p) = q /\ own)
        BY <2>3, <2>5
      <4>. QED  BY <1>9, <4>1
    <3>. QED  BY <2>1, <3>1, <3>2
  <2>. QED  BY <2>4, <2>5
<1>27. OwnInv'
  <2>1. \A i \in 1 .. Len(out) : out[i].checker = Checker
    BY <1>1 DEF OwnInv
  <2>2. \A i \in 1 .. Len(out') : out'[i].checker = Checker
    <3>1. CASE out' = out
      BY <2>1, <3>1
    <3>2. CASE out' = Append(out, q)
      BY <1>6, <1>8, <2>1, <3>2
    <3>. QED  BY <1>1, <3>1, <3>2
  <2>. QED  BY <1>7, <2>2 DEF OwnInv
<1>28. ResultsInv'
  BY <1>1, SameResults
<1>. QED  BY <1>10, <1>11, <1>13, <1>14, <1>16, <1>18, <1>26, <1>27, <1>28

(***************************************************************************)
(* In the state before sort.Sort the invariant says what Lint has found.   *)
(***************************************************************************)
LEMMA SortFact ==
  ASSUME LinterInv, phase = "sort"
  PROVE  /\ \A k \in ToSet(JobSeq), p \in Places, b \in BOOLEAN :
              Occurrences(out, Found(k, p, b)) =
                 IF b = Suppressed(k, p) /\ (b => options.showIgnored)
                 THEN Occurrences(problems[k], p) ELSE 0
         /\ \A p \in Places :
              /\ Occurrences(out, Message("malformed", p)) = Cardinality(BadAt(p))
              /\ Occurrences(out, Message("unmatched", p)) = Cardinality(Due(p))
<1>. USE DEF LinterInv
<1>1. phase \in LintPhases /\ toScan = {}
  BY DEF LintPhases, LoopInv
<1>2. ToSet(JobSeq) = {JobSeq[n] : n \in 1 .. Len(JobSeq)}
  BY <1>1, CheckerFact
<1>3. \A k \in ToSet(JobSeq), p \in Places, b \in BOOLEAN :
         Occurrences(out, Found(k, p, b)) =
            IF b = Suppressed(k, p) /\ (b => options.showIgnored)
            THEN Occurrences(problems[k], p) ELSE 0
  <2>. SUFFICES ASSUME NEW n \in 1 .. Len(JobSeq), NEW p \in Places, NEW b \in BOOLEAN
               PROVE  Occurrences(out, Found(JobSeq[n], p, b)) =
                        IF b = Suppressed(JobSeq[n], p) /\ (b => options.showIgnored)
                        THEN Occurrences(problems[JobSeq[n]], p) ELSE 0
    BY <1>2
  <2>1. CountTo(problems[JobSeq[n]], Handled(n), p) = Occurrences(problems[JobSeq[n]], p)
    BY DEF Handled, CountTo, Occurrences
  <2>. QED  BY <1>1, <2>1 DEF FoundInv
<1>4. \A p \in Places : Occurrences(out, Message("malformed", p)) = Cardinality(BadAt(p))
  <2>1. \A p : BadAt(p) \ toScan = BadAt(p)
    BY <1>1
  <2>. QED  BY <1>1, <2>1 DEF MalformedInv
<1>5. \A p \in Places : Occurrences(out, Message("unmatched", p)) = Cardinality(Due(p))
  <2>1. \A p : {e \in Due(p) : Passed(e[1], e[2])} = Due(p)
    BY DEF Passed
  <2>. QED  BY <1>1, <2>1 DEF UnmatchedInv
<1>. QED  BY <1>3, <1>4, <1>5

(* Nothing to return: nothing to suppress or to complain about was left.   *)
LEMMA EmptyIsClean == ASSUME LinterInv, phase = "sort", out = <<>> PROVE Clean(Checker)
<1>. USE DEF LinterInv
<1>1. phase \in LintPhases /\ \A x : Occurrences(out, x) = 0
  BY OccurrencesEmpty DEF LintPhases
<1>2. \A k \in ToSet(JobSeq) : \A i \in 1 .. Len(problems[k]) :
         Suppressed(k, problems[k][i]) /\ ~options.showIgnored
  <2>. SUFFICES ASSUME NEW k \in ToSet(JobSeq), NEW i \in 1 .. Len(problems[k])
               PROVE  Suppressed(k, problems[k][i]) /\ ~options.showIgnored
    OBVIOUS
  <2>. DEFINE p == problems[k][i]
  <2>1. problems[k] \in Seq(Places)
    BY <1>1, CheckerFact DEF TypeOK
  <2>2. p \in Places /\ Occurrences(problems[k], p) # 0
    BY <2>1, OccurrencesPositive
  <2>3. Suppressed(k, p) \in BOOLEAN
    BY DEF Suppressed
  <2>. HIDE DEF p
  <2>4. ~(Suppressed(k, p) => options.showIgnored)
    BY <1>1, <2>2, <2>3, SortFact
  <2>. QED  BY <2>4 DEF p
<1>3. \A d \in source : d.cmd = "unknown" \/ d.reason
  <2>. SUFFICES ASSUME NEW d \in source, d.cmd # "unknown", ~d.reason PROVE FALSE
    OBVIOUS
  <2>1. d.at \in Places /\ d \in BadAt(d.at)
    BY ConstantsAssumption DEF TypeOK, Directive, BadAt
  <2>2. Cardinality(BadAt(d.at)) = 0
    BY <1>1, <2>1, SortFact
  <2>3. IsFiniteSet(BadAt(d.at))
    <3>1. BadAt(d.at) \ {} = BadAt(d.at)
      OBVIOUS
    <3>. QED  BY <3>1, BadAtFact
  <2>. QED  BY <2>1, <2>2, <2>3, FS_EmptySet
<1>4. \A d \in source : Useless(d, Checker) => \A i \in 1 .. Len(d.checks) : PrefixOf[d.checks[i]] # Prefix[Checker]
  <2>. SUFFICES ASSUME NEW d \in source, Useless(d, Checker), NEW i \in 1 .. Len(d.checks),
                      PrefixOf[d.checks[i]] = Prefix[Checker]
               PROVE  FALSE
    OBVIOUS
  <2>1. d.at \in Places
    BY ConstantsAssumption DEF TypeOK, Directive
  <2>2. <<d, i>> \in Due(d.at)
    BY DEF Due
  <2>3. Cardinality(Due(d.at)) = 0
    BY <1>1, <2>1, SortFact
  <2>. QED  BY <2>2, <2>3, DueFinite, FS_EmptySet
<1>. QED  BY <1>2, <1>3, <1>4 DEF Clean, JobSeq

LEMMA SortAndReturnInv == ASSUME LinterInv, SortAndReturn PROVE LinterInv'
<1>. USE DEF LinterInv
<1>1. /\ phase = "sort" /\ phase' = "checker" /\ phase \in LintPhases /\ phase' \notin LintPhases
      /\ UNCHANGED <<source, options, cur, toScan, ignores, matched, spawned, wg, running, problems,
                     handled, seen, out, exit>>
  BY DEF LintPhases, SortAndReturn, jobVars
<1>2. PICK f \in Bijection(1 .. Len(out), 1 .. Len(out)) :
        results' = Append(results, [i \in 1 .. Len(out) |-> out[f[i]]])
  BY DEF SortAndReturn
<1>. DEFINE s == [i \in 1 .. Len(out) |-> out[f[i]]]
<1>3. out \in Seq(Problem) /\ results \in Seq(Seq(Problem)) /\ Len(out) \in Nat
  BY DEF TypeOK
<1>4. s \in Seq(Problem)
  <2>1. f \in [1 .. Len(out) -> 1 .. Len(out)]
    BY DEF Bijection, Injection
  <2>. QED  BY <1>3, <2>1
<1>5. results' \in Seq(Seq(Problem)) /\ Len(results') = Len(results) + 1 /\ results'[Len(results) + 1] = s
      /\ \A i \in 1 .. Len(results) : results'[i] = results[i]
  <2>. HIDE DEF s
  <2>. QED  BY <1>2, <1>3, <1>4, AppendProperties DEF s
<1>6. s = <<>> => out = <<>>
  BY <1>3
<1>7. TypeOK'
  BY <1>1, <1>5 DEF TypeOK, Phases
<1>8. JobInv' /\ LoopInv'
  BY <1>1 DEF JobInv, LoopInv
<1>9. ResultsInv'
  <2>1. Len(results) = cur - 1 /\ cur \in Nat /\ Len(results') = cur
    BY <1>1, <1>5 DEF ResultsInv, TypeOK
  <2>2. s = <<>> => Clean(CheckerSeq[cur])
    BY <1>1, <1>6, EmptyIsClean DEF Checker
  <2>3. \A i \in 1 .. Len(results') : results'[i] = <<>> => Clean(CheckerSeq[i])
    <3>. SUFFICES ASSUME NEW i \in 1 .. Len(results'), results'[i] = <<>> PROVE Clean(CheckerSeq[i])
      OBVIOUS
    <3>1. CASE i = cur
      BY <1>5, <2>1, <2>2, <3>1
    <3>2. CASE i # cur
      <4>1. i \in 1 .. Len(results)
        BY <2>1, <3>2
      <4>. QED  BY <1>5, <4>1 DEF ResultsInv
    <3>. QED  BY <3>1, <3>2
  <2>. QED  BY <1>1, <2>1, <2>3, SameClean DEF ResultsInv
<1>. QED  BY <1>1, <1>7, <1>8, <1>9, OutsideInv DEF OutInv

LEMMA NextInv == ASSUME LinterInv, [Next]_vars PROVE LinterInv'
<1>1. CASE UNCHANGED vars
  BY <1>1, StutterInv
<1>2. CASE Main
  <2>1. CASE ProcessFlags \/ NextChecker \/ AllChecked \/ ScanDone \/ Output
    BY <2>1, ProcessFlagsInv, NextCheckerInv, AllCheckedInv, ScanDoneInv, OutputInv
  <2>2. CASE \E d \in toScan : Scan(d)
    BY <2>2, ScanInv
  <2>3. CASE Spawn \/ SpawnDone \/ Wait
    BY <2>3, SpawnInv, SpawnDoneInv, WaitInv
  <2>4. CASE Filter \/ FilterNext \/ FilterDone
    BY <2>4, FilterInv, FilterNextInv, FilterDoneInv
  <2>5. CASE Unmatched \/ UnmatchedNext \/ UnmatchedDone \/ SortAndReturn
    BY <2>5, UnmatchedStepInv, UnmatchedNextInv, UnmatchedDoneInv, SortAndReturnInv
  <2>. QED  BY <1>2, <2>1, <2>2, <2>3, <2>4, <2>5 DEF Main
<1>3. CASE \E k \in Checks : Job(k)
  BY <1>3, JobDoneInv, ErrorfInv DEF Job
<1>4. CASE Exited
  BY <1>4, StutterInv DEF Exited
<1>. QED  BY <1>1, <1>2, <1>3, <1>4 DEF Next

(***************************************************************************)
(* The inductive invariant holds in every state of every run of a linter   *)
(* command: in particular the type invariant.                              *)
(***************************************************************************)
THEOREM LinterInvHolds == Spec => []LinterInv
<1>. QED  BY InitInv, NextInv, PTL DEF Spec

(***************************************************************************)
(* WaitGroup in Linter.Lint: no goroutine appends to the problems of its   *)
(* job once the main goroutine has come past wg.Wait() and reads them, for *)
(* any number of checks, nil ones included, and any schedule.              *)
(***************************************************************************)
THEOREM WaitIsBarrierHolds == Spec => WaitIsBarrier
<1>1. ASSUME LinterInv, [Next]_vars PROVE [phase = "spawn" \/ phase = "wait"]_problems
  <2>1. CASE UNCHANGED vars
    BY <2>1 DEF vars, jobVars
  <2>2. CASE Main
    BY <2>2 DEF Main, ProcessFlags, NextChecker, AllChecked, Scan, ScanDone, Spawn, SpawnDone, Wait, Filter,
         FilterNext, FilterDone, Unmatched, UnmatchedNext, UnmatchedDone, SortAndReturn, Output, jobVars
  <2>3. ASSUME NEW k \in Checks, Job(k) PROVE [phase = "spawn" \/ phase = "wait"]_problems
    <3>1. CASE JobDone(k)
      BY <3>1 DEF JobDone
    <3>2. CASE \E p \in Places : Errorf(k, p)
      <4>1. running # {}
        BY <3>2 DEF Errorf
      <4>. QED  BY <1>1, <4>1 DEF LinterInv, JobInv
    <3>. QED  BY <2>3, <3>1, <3>2 DEF Job
  <2>4. CASE Exited
    BY <2>4 DEF Exited, vars, jobVars
  <2>. QED  BY <1>1, <2>1, <2>2, <2>3, <2>4 DEF Next
<1>. QED  BY <1>1, LinterInvHolds, PTL DEF Spec, WaitIsBarrier

(***************************************************************************)
(* Linter.Lint: what a checker is about to return is determined by what    *)
(* its checks found and by the directives of the source.  No problem is    *)
(* lost, doubled or flagged wrongly, whatever the order in which comments  *)
(* are visited and goroutines run.                                         *)
(***************************************************************************)
THEOREM LintIsExactHolds == Spec => []LintIsExact
<1>1. LinterInv => LintIsExact
  <2>. SUFFICES ASSUME LinterInv, phase = "sort" PROVE LintIsExact
    BY DEF LintIsExact
  <2>1. phase \in LintPhases /\ out \in Seq(Problem)
    BY DEF LintPhases, LinterInv, TypeOK
  <2>2. \A q \in ToSet(out) : q.checker = Checker
    BY <2>1, ToSetFact DEF LinterInv, OwnInv
  <2>. QED  BY <2>2, SortFact DEF LintIsExact, Found, BadAt
<1>. QED  BY <1>1, LinterInvHolds, PTL

(***************************************************************************)
(* ProcessFlagSet: exit code 0 of a command that linted means that no      *)
(* checker that exits non-zero has found a problem that is not suppressed, *)
(* a malformed directive, or a line directive that suppressed nothing of   *)
(* the checker and lists one of its checks.                                *)
(***************************************************************************)
THEOREM CleanExitHolds == Spec => []CleanExit
<1>1. LinterInv => CleanExit
  <2>. SUFFICES ASSUME LinterInv, phase = "exit", exit = 0, ~options.version,
                      NEW c \in Checkers, options.exitNonZero[c]
               PROVE  /\ \A k \in ToSet(ChecksOf[c]) : \A p \in ToSet(problems[k]) :
                            Suppressed(k, p) /\ ~options.showIgnored
                      /\ \A d \in source :
                            /\ d.cmd = "unknown" \/ d.reason
                            /\ Useless(d, c) => \A i \in 1 .. Len(d.checks) : PrefixOf[d.checks[i]] # Prefix[c]
    BY DEF CleanExit
  <2>. USE DEF LinterInv
  <2>1. PICK i \in 1 .. Len(CheckerSeq) : CheckerSeq[i] = c
    BY ConstantsAssumption DEF Checkers, ToSet
  <2>2. Len(results) = Len(CheckerSeq) /\ results[i] = <<>>
    BY <2>1 DEF ResultsInv, LintPhases
  <2>3. Clean(c)
    BY <2>1, <2>2 DEF ResultsInv
  <2>4. \A k \in ToSet(ChecksOf[c]) : problems[k] \in Seq(Places)
    BY ToSetFact, ConstantsAssumption DEF TypeOK
  <2>5. \A k \in ToSet(ChecksOf[c]) : ToSet(problems[k]) = {problems[k][j] : j \in 1 .. Len(problems[k])}
    BY <2>4, ToSetFact
  <2>. QED  BY <2>3, <2>5 DEF Clean
<1>. QED  BY <1>1, LinterInvHolds, PTL
=============================================================================
