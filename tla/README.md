# TLA+ models of go-tools

The repository is a family of Go linters (`staticcheck`, `gosimple`, `unused`,
`stylecheck`, `errcheck-ng`, and `megacheck`, which runs several) on top of its
own copy of the SSA form of Go.  A command loads packages, builds SSA for all of
them, hands the program to one checker after the other, and each checker runs its
checks as concurrent goroutines that share caches, call graphs and tables.  This
directory holds TLA+ models of the parts where the order of steps matters,
the TLC configurations that check them on small instances, and TLAPS proofs of
the properties that matter most for instances of any size.

```
tlc -config MCLinter.cfg MCLinter          # any run of the table below
tlapm DescriptionsProofs.tla               # any module *Proofs
```

## 1. Inventory

| Part | State it keeps | Operations | Interacts with | What is hard, and what makes it correct |
|---|---|---|---|---|
| `functions` | cache of descriptions, mutex, a channel per entry | `Get`, `IsPure`, `findLoops`, `terminates`, `concreteReturnTypes` | called by all checks at once; reads the shared call graph | concurrent computation, nested waits, publication without a lock: each description is computed once, is the one the program determines, and nobody waits for ever |
| `lint`, `lint/lintutil`, `cmd/megacheck` | directives with a matched flag, problems per job, exit code | `Lint`, `Job.Errorf`, `ignore`, `ProcessFlagSet` | runs the checks of `staticcheck`, `simple`, `unused`, ... | a barrier of goroutines, directives shared by checks, several checkers: exactly the right problems are reported and the exit code tells |
| `callgraph` | nodes with `In` and `Out` lists | `CreateNode`, `AddEdge`, `PathSearch`, `DeleteSyntheticNodes`, `DeleteNode` | built by `static`, `cha`, `rta`; used by `functions` | two lists per edge, deletion during iteration, recursion over cycles |
| `callgraph/static`, `cha`, `rta` | worklists, tables of types and sites | `CallGraph`, `Analyze` | `ssa`, `callgraph` | `rta` finds functions, types and calls in any order and must meet the same fixed point |
| `ssa` control flow (`func.go`, `blockopt.go`) | blocks with predecessor, successor and phi lists | edge helpers, unreachable removal, fusion, jump threading | run by the builder and again by `staticcheck` | three redundant lists changed together; the function must still mean the same |
| `ssa` program (`builder.go`, `methods.go`, `wrappers.go`) | `buildOnce`, `methodsMu` and the maps behind it | `Build`, `needMethods`, `MethodValue`, `makeBound`, `makeThunk` | builders of all packages share the maps | lookups and insertions of several goroutines, order of first visits, waiting for another's build |
| `ssa` dominators and lifting | dominator tree, frontiers, phis, lists of referrers | `buildDomTree`, `buildDomFrontier`, `lift` | reads the block lists, writes instructions; `functions.findLoops` reads the tree | buckets threaded through one array, lists of referrers kept by hand, names copied down a tree; the tree becomes stale when blocks change later |
| `ssa` builder (`builder.go`, `emit.go`, `lvalue.go`, `func.go`) | the function being built: current block, targets of branches, labels, objects, buffered stores | one method per statement and expression, `finishBody`, `Package.build` | reads `go/types`, feeds `blockopt.go`, `dom.go`, `lift.go` | order of evaluation, branch targets across nested statements, captured variables, deferred calls and recovery: the SSA form does what the source says |
| `ssa` sanity checker, printer | none | `checkFunction`, printing | run on built functions | what the builder leaves passes it |
| `staticcheck/vrp` | intervals per value, constraint graph | `BuildGraph`, `FindSCCs`, `Solve`, `widen`, `narrow` | `functions.Get` calls it, some checks of `staticcheck` read the ranges | order of Go's maps, termination of the two fixed points, nil bounds, infinite bounds, overflow |
| `unused` | graph of uses | `Check`, `markNodesUsed`, `markNodesQuiet` | a checker of `lint` | nodes are added to the map that is iterated over; a missing link makes it ask for the deletion of something needed |
| `simple` | none | 27 checks that ask for another program text | jobs of `lint` | a suggestion must not change what the program does |
| `staticcheck`, `stylecheck`, `errcheck` | none beyond the program | about a hundred checks | jobs of `lint` | patterns on syntax and SSA |
| `gcsizes`, `structlayout*` | none | sizes, offsets, optimal order of fields | commands | arithmetic of alignment |
| commands, `lintdsl`, `testutil`, `version`, `deprecated` | none | flags, helpers, tables | | input and output |

`PROJECT.json` lists every part with its status, and under `hazards` the places
in the code where something can go wrong that a test would hardly reach.

## 2. The modules

Each component has a module, or several that build on each other; each question has an `MC` module with the
instances and a configuration (Vrp has two); what is proved is in a `Proofs` module.  In the
component modules a definition whose comment begins with *Bug* or *Mutant* is a
plausible mistake in the code (a dropped guard, a missing reset); substituted for
the definition that follows it, it makes TLC report the property it is
meant for.  They are no part of the specifications.

### Descriptions (`functions/functions.go`, `functions/pure.go`)

State: the mutex, the cache (per function: absent, being computed, ready), the
fields of each description, the nodes of the call graph, and per job the stack of
unfinished `Get` calls, because `Get` computes, `IsPure` calls `Get` for
each static callee, and so on.  Actions: a job calls `Get`; `Lock`; the lookup
that either finds an entry and unlocks or inserts one; `Wait` on the entry's
channel; the steps of `IsPure` (known to be pure, one instruction after the
other, a call that is part of a cycle and is skipped, a nested `Get`); the
write of the field; the other fields; closing the channel.  A program is given
by the instructions `IsPure` sees, by the call graph, which was built *before*
`applyStdlibKnowledge` and `OptimizeBlocks` removed instructions, and by
what `AllFunctions` can reach.

The interesting property is that there is no deadlock: a job waits for a channel
that another job will close, and that job may be waiting too.  What prevents a
cycle is that `IsPure` does not call `Get` for a callee from which the function can be
reached (`PathSearch`).  `WaitsDescend` says that nested calls strictly
descend in the call graph, across jobs as well.  `GetIsDeterministic` says that every
caller, whatever the interleaving, gets the value that the program alone determines.

### GraphSearch, PathSearch and CallGraphSearch (`callgraph/util.go`)

GraphSearch is the abstract specification: whoever asks for a path gets one
answer, at some time; it is nil exactly if no path exists, and otherwise a path
from the start to an accepted node.  It has no stack and no marks.  PathSearch is
the code: the recursive closure as a stack of loops over edges, with the shared
`stack` and `seen` variables.  It instantiates GraphSearch as `Promise`, with
`answer` a function of its result and stack.  CallGraphSearch composes it with
CallGraph below: a graph is built, its synthetic nodes may be deleted, and then someone
searches it.  `KeepsPromise` is the refinement, `Promise!Spec` with its
liveness; `SearchIsRight` is the invariant that its safety part rests on.
The operator `PathSearch` of Descriptions assumes exactly this.

### Linter (`lint/lint.go`, `lint/lintutil/util.go`, `cmd/megacheck`)

One run of a command: flags, and for each checker the scan of the `//lint:`
directives, the start of a goroutine per check, the checks reporting
problems, `wg.Wait`, the filtering with its recording of matches (one problem a step), the report of
directives that matched nothing (one check of a directive a step), the sort, the output and the exit code.
`LintIsExact` compares the problems returned with what the directives and the
reports determine, `WaitIsBarrier` says that no problem list changes once the
main goroutine reads them.  `CleanExit` says what exit code 0 means, of every checker that
exits non-zero: its problems are suppressed, no directive is malformed, and no line
directive that suppressed nothing of the checker lists one of its checks.

### CallGraph (`callgraph/callgraph.go`, `callgraph/util.go`)

Nodes with `In` and `Out`, the build as `static.CallGraph` does it, and
`DeleteSyntheticNodes` loop by loop: the iteration over the map of nodes in any
order, the two nested loops that add edges, and `DeleteNode`.  `EdgesAreDual`: an
edge is in its caller's `Out` exactly when it is in its callee's `In`, and no
removal fails to find its edge (the code panics then).  `TopologyPreserved`: the
edges left at the end are exactly the paths of the original graph through deleted nodes.
`NoDuplicates`: no edge is added beside one with the same caller, site and callee, although one call
may reach a function through several wrappers; it depends on the hash of edges, which is made
before the deletion and kept up by hand.

### BlockOpt (`ssa/blockopt.go`, `ssa/func.go`)

The block lists of a function as the builder emits them; `applyStdlibKnowledge`
may cut branches of a finished function; `OptimizeBlocks` deletes unreachable blocks and then sweeps,
fusing blocks and threading jumps until nothing changes, once in `finishBody` and again after the cuts.  `GraphIsConsistent`
is the part of `ssa/sanity.go` about predecessors, successors, phi edges and indices.
`BehaviourPreserved` follows the original and the optimised function side by
side: they execute the same bodies, take the same branches and get the same
values from phis.  The dominator tree is built between
the two optimisations, and nobody builds it again: `StaleTreeIsSound` says that what the
checks read off it afterwards is still true.  (They miss the dominance that a cut brings
about: the tree is sound, not complete.)  `Terminates` also says that no optimisation applies at the end.

### ProgramBuild (`ssa/builder.go`, `ssa/methods.go`, `ssa/wrappers.go`)

Several callers of `Program.Build`, each with a `WaitGroup` and a goroutine per package;
`Package.Build` behind a `sync.Once`; what a package asks of the shared maps while
it is built, as a sequence of requests.  A request locks `methodsMu`; `needMethods`
then works through its recursion one call at a time, while `MethodValue`, `makeBound`
and `makeThunk` look up, make and insert in separate steps, so that
only the mutex keeps two goroutines from making two Functions for one
method.  After `Build` a caller is a client.  `RuntimeTypesExact` compares what
clients get with the least set of types that the packages' requests lead to: the point is the
`skip` flag, under which a type may be visited twice, in either order.

### Rta (`callgraph/rta/rta.go`, `callgraph/cha/cha.go`)

The worklist of reachable functions, the two tables of dynamic calls and
address-taken functions, the two tables of interfaces and concrete types, and the
run-time types with their `skip` value.  An action takes one function from the
worklist and visits its instructions in order; maps are iterated in any
order.  `AnalysisIsExact` compares functions, types, calls and edges at the end with
a least fixed point of the rules of the analysis, which has no order; it also says
that a site gets one edge to a callee, except for the sites of roots that are called
or given twice, which the code visits twice.
`ImplementsIsExact` says at every moment that the two tables about
implementation, each filled from the other's side, agree with what is known so far.
`ChaCoversRta` relates the result
to Class Hierarchy Analysis, which is an operator here.

### Dominators (`ssa/dom.go`, `ssa/lift.go`, `functions/loops.go`)

Lengauer and Tarjan's algorithm as `buildDomTree` has it (no path compression, buckets
threaded through one array), the numbering of the tree, the dominance frontier,
and the loops that `findLoops` reads off the tree.  The turns of the
loop in reverse preorder are actions; the recursive walks are operators.  `DominatesIsRight`,
`FrontierIsRight` and `LoopsAreNatural` compare what comes out with definitions by
paths of the graph; the first also says that `sanityCheckDomTree`, which is an operator
here, does not panic.

### FinishBody (`ssa/func.go`)

The end of `finishBody`: Dominators and then, unless the mode is `NaiveForm`, Lift, which
takes the tree and the frontiers that Dominators computed.  Both have their
properties in this composition.

### Lift (`ssa/lift.go`)

Cells become registers.  State: the instructions, the list of
referrers of each value, the lifted cells, the work of placing phis,
the pending calls of `rename` with their maps of names, the counters of gaps.
Actions: choosing the cells, placing the phis of one cell, one call of `rename`,
the removal of dead phis, the compaction.  After lifting, original and lifted
function run side by side: `ValuesPreserved` says that every use sees the same
value on every path.  `BookkeepingIsExact` says that the lists of referrers, on which each
replacement depends, are what the instructions say, and that the lengths that the
compaction computes from counters are right.

### Intervals and Vrp (`staticcheck/vrp`)

Intervals has the numbers with two infinities, the interval operations, and the operators
of widening and narrowing, as pure operators.
Vrp has the constraint graph of a function, `Solve` with one step for each value
taken from a worklist and each constraint evaluated, and then a run of the
function.  `RangesHold` says that no value of any iteration leaves its range.
`NilBoundsNeverRead`: an unknown interval has nil bounds, and nothing that is read
is unknown.  A function is a loop whose operands come before their uses, but for
the second operand of a phi at its head (`WellFormed`, an assumption on the
constant `Programs`).  The uses of a value are a set, of which the least is next: they are evaluated in the
order of the instructions.  The constants are a set, too: the code sorts them and takes the
first that fits, which is the least one.  `LoopsMakeProgress`: what widening puts back on its worklist has grown, what
narrowing puts back has shrunk; nothing in the code of narrowing forces that, it
follows from where widening stopped, and only while no range is empty: a loop that makes a slice of a
size whose range is all negative can have `narrowIntInterval` report a change that it does not make.  The functions
of the run are not like that; section 4 says which are not.  Sigmas and futures are left out: nothing in
the repository creates a `Sigma`.

### Scc (`staticcheck/vrp/vrp.go`)

`FindSCCs`, Tarjan's algorithm: the stack of calls with the successors that are
left, the stack of vertices, indices, low links.  Vertices and
successors come in any order.  `ComponentsAreOrdered` is what Vrp
assumes of the components that `Solve` takes one after the other; that a vertex
reaches another one means there that no set closed under edges separates them.

### Unused (`unused/unused.go`)

A program is what `go/types` says of it: objects, types, scopes and, for each
package, its definitions, uses, types of expressions, selections and the syntax
that `processAST` looks for.  State: the nodes and links of the graph, its roots, the
marks `used` and `quiet`, what the iteration will still come to, and the
report.  The passes over a package only add to sets; each is an action.  The recursion of
`markNodesUsed` is taken one edge further at a time; nothing looks at the marks before it is done.
`MarkQuiet` takes one node at a time, because `markObjQuiet` adds nodes to the map that is
being iterated over, and Go says that such a node may or may not be visited.
`ReportIsExact`: in every order the report is what the roots do not lead to, less what
is part of something larger that they do not lead to either.  `ReportedCanGo`: when
what is reported is deleted, what stays mentions nothing that is gone, by name, by
promotion, by position in a literal, by a conversion between structs or by an assignment
to an interface.

### Builder (`ssa/builder.go`, `ssa/emit.go`, `ssa/lvalue.go`, `ssa/func.go`)

The translation of Go into SSA, in modules that build on each other:

* *GoSyntax*: types, resolved syntax trees and values, as `go/ast`, `go/types` and the
  language have them (external to the repository).
* *SsaEmit*: the function being built (blocks, current block, targets, labels, objects,
  free variables, the buffer of stores), and the emitters of `emit.go`, `lvalue.go` and `func.go`.
* *Builder*: one operator for each method of `builder`: conditions, expressions, addresses,
  assignments, literals, calls, every statement, function declarations, `finishBody` and the
  package initializer with its guard.
* *Sanity*: `checkFunction` of `sanity.go`.
* *SsaMachine*: the execution of SSA instructions, with a heap, frames, deferred calls,
  panics and recovery.  What the program asks of its environment (results of unknown functions,
  receives, lookups, selects) suspends the machine until an answer is chosen.
* *GoSemantics*: the meaning of a syntax tree, by recursion over the tree and without blocks,
  registers or targets, given the same answers.
* *Simple*: the checks of `simple/lint.go` that ask for another text, as functions from a
  node to what they ask for.
* *BuilderRun*: a program is built and run.  The translation and the meaning of a program
  are parameters, which *MCBuilder* takes from Builder and GoSemantics.

`BuiltCodeIsTheSource`: whatever the environment answers, the SSA form makes the same
calls, sends and receives in the same order with the same operands and ends the same way as
the source.  `BuiltCodeIsSane`: it passes `sanity.go`.  `SuggestionsKeepBehaviour`:
a program that a suggestion leads to behaves like the one it was made for, unless the check
overlooks one of the things that `Overlooked` (in Simple) names check by check; and a program that fails with a
run-time error may go on instead, because `copy` does not fail where the loop that it replaces does.
The programs include what is overlooked, so that the property says where each check is right and where it is not:
without a clause of `Overlooked` TLC finds a program that the suggestion changes.  (Three clauses have no such program:
that the low bound of a slice, the destination of a loop's copies or appends, or the left sides around a blank
may call something, which the suggestion then does in another order or another number of times.)

### How they fit together

`ProgramBuild` describes how the program that all checks share comes to be;
`Builder` describes the functions it consists of; `BlockOpt`, `Dominators` and `Lift` are the three passes that `finishBody` makes over
each function, in this order, the last two composed in `FinishBody`.
`CallGraph` and `PathSearch` are about the graph over the program, `Rta` about another
way to build it; `CallGraphSearch` composes the first two.  `Descriptions` uses that graph from concurrent jobs, and takes from
`PathSearch` exactly the theorem `SearchIsRightHolds`; the other fields of a
description are the loops of `Dominators` and the ranges of `Vrp`, which takes its
components as `Scc` finds them.  `Linter` runs those jobs, of which `Unused` and
the checks of `Simple` are two in detail, and reports what they
find.

## 3. What the runs check

| Run | Configuration | Instance | Shows |
|---|---|---|---|
| `descriptions` | MCDescriptions.cfg | 2 jobs, 3 functions, 132 programs | computed once, nested waits descend, deterministic, published descriptions are final, call graph not written, no deadlock, every `Get` returns |
| `linter` | MCLinter.cfg | 2 checkers, 4 checks (one nil), 4 places, several sets of directives and command lines | exact reports, barrier, exit code, termination |
| `callgraph` | MCCallGraph.cfg | CallGraphSearch: every multigraph of up to 4 edges over 4 nodes, 2 of them wrappers; every search before and after the deletion | dual edges, paths preserved, no edge added twice; the search is right and implements GraphSearch |
| `block_opt` | MCBlockOpt.cfg | graphs of 4 blocks with up to 2 branches, graphs of 3 blocks with up to 2 phis; 1 cut between two optimisations | consistent, behaviour preserved, the old dominator tree sound, termination with nothing left to do |
| `programbuild` | MCProgramBuild.cfg | 2 callers, 2 packages, 7 types | barrier, one Function each, exact run-time types, `Build` returns, requests are answered |
| `rta` | MCRta.cfg | 150 programs over 11 functions and 9 types | least fixed point in every order, tables agree, edges once, below CHA |
| `finish_body` | MCFinishBody.cfg | graphs of 5 blocks with up to 2 branches (3 if the last block returns), graphs of 4 blocks with a Recover block; 889 functions of 2 cells to lift | dominators, frontiers and loops are those of the definitions; same values on every path, exact referrers, no gap |
| `vrp` | MCVrp.cfg | 1193 loops over integers, strings, slices and channels, 5-bit integers | ranges hold when the function runs, nil bounds are not read, both worklist loops make progress |
| `vrp_channel` | MCVrpChan.cfg | a channel that gets its buffer in a loop | a disagreement: see below |
| `scc` | MCScc.cfg | every graph of 4 vertices | the components, in topological order |
| `unused` | MCUnused.cfg | 1592 variants of a package and its flags | the report is exact in every order, and can be acted on |
| `builder` | MCBuilder.cfg | 769 programs | SSA form and source do the same, sanity, suggestions keep the behaviour but for what the checks overlook |

`vrp_channel` is expected to fail.  `widen` and `narrow` do nothing to a
`ChannelInterval` (`staticcheck/vrp/vrp.go:776`), so a phi on a cycle keeps the
range of the operands that were solved first, and a channel that gets a buffer later
in the loop is taken for unbuffered.  The test
`staticcheck/testdata/CheckUnbufferedSignalChan.go:20` says that a channel that is
buffered on one of two ways is not reported.

More disagreements, met while modelling.  The models
have the code's side; no run is devoted to them, and the programs of the passing runs stay clear of them,
but for the suggestions of `simple/lint.go`, which the run `builder` has.
Between code and comments:

* `lint/lint.go:462` says that a directive "didn't match anything", but
  whether it matched is recorded per checker: under `megacheck` a directive that
  suppresses a problem of one checker and also names a check of another is
  reported by the other.
* `callgraph/rta/rta.go:78` says that the value of a run-time type "indicates whether the
  type is inaccessible to reflection", but a type that is met first without and
  later with `skip` gets the value true.
* `ssa/lift.go:270` says that phis not needed by a "non-Phi, non-DebugRef
  instruction" are removed, but a `DebugRef` keeps a phi (`ssa/lift.go:337`).
* A conversion to a larger type is bounded by the range its own result has so far
  (`staticcheck/vrp/int.go:402`), so on a cycle the bound of the first
  iteration stays.  `RangesHold` is checked for functions without such a cycle.
* `unused/unused.go:443` says that a function uses its signature; the link goes the
  other way.

Between the builder and the language:

* The high bound of a slice expression is evaluated before the low one (`ssa/builder.go:643`).
* `arrayLit` tells its elements that they are zero, although the array is cleared only when
  elements are missing (`ssa/builder.go:1134`): `x = [1]T{{a: 1}}` leaves the old `x[0].b`.

Suggestions of `simple/lint.go` that can change a program; `Overlooked` has them, and the run `builder` has programs for them:

* `for { select { one receive } }` as a range (98) differs when the channel is closed, and drops the loop's own parts; a single
  `select` (87) may have only a default, or be left by `break`.
* `LintNilCheckAroundRange` (1615) does not look at `else` or the init statement.
* `LintLoopCopy`, `LintLoopAppend` and `LintLoopSlide` may have variables that are used afterwards; `LintLoopCopy` does not ask
  whether the slice that is indexed is the one ranged over.
* `LintIfBoolCmp` negates `x < y` as `!x < y`.
* `LintIfReturn` may see two returns of the same constant.
* `LintRedundantNilCheckWithLen` takes a negative named constant for one that no length is below (620).
* `LintMakeLenCap` drops one of two calls; `LintUnnecessaryBlank` moves a receive before other operands.

Left out of the instance: loops that copy within one array (the parts of `copy` overlap), or whose bounds
are negative or too large; a struct literal of globals of other files, of which `ident.Obj` is nil, so that
`LintSimplerStructConversion` (999) takes two variables for one; `&(T{...})` with parentheses.  `append` to a full
slice makes an array without room to spare, one of the choices that Go leaves open.

Reports of `unused/unused.go` that cannot be acted on: with `var a, b = f()` and only b used, f is reported
(720-746); a method that a package-level variable calls through an embedded field leaves the field reported,
because the link starts at the scope of the package (597); keys of map types, unnamed parameters and
constants repeated implicitly are not marked as used.  What is unused in a generated file, or of
a kind that is not asked for, still makes what only it uses reported; `ReportedCanGo` is stated
for the case where everything is checked.

### Bounds, and why they are enough

* *Descriptions.* Two jobs are what a cycle of waits needs, and three functions
  give self-recursion, mutual recursion, a cycle entered at two places and
  a diamond.  `MaxGets`, here 1, limits the calls of a job; a finished job holds
  nothing, and the other job already meets the entries it has left.  The
  theorems have no bound on either.
* *Linter.* Two checkers show what survives from one to the next; two places
  on one line separate line matching from position; `MaxProblems` problems
  per check give two matches of one directive and none of another.
* *CallGraph.* Two wrappers are needed for a path through two deleted nodes and for
  mutual recursion; four edges for a cycle of wrappers with a way in and out.  Four nodes give a search a
  cycle with a way out of its middle; the theorems about PathSearch cover all graphs.
* *BlockOpt.* Four blocks contain every pattern that the optimisations look at (a
  block, its predecessor, its successor and an alternative) and sequences of
  two optimisations; one block may be more than a jump, which is what threading
  tells apart.  Phis are checked with three blocks.
* *ProgramBuild.* Two callers compete for one `sync.Once`; the seven types have one that is
  reached with and without `skip`, a recursive pair, an interface and one that
  is never needed.
* *Rta.* Each of the two cross products has two members on each side, found in
  either order, by the roots or by functions that are only found themselves.
* *Dominators.* Five blocks are needed for a bucket of two and for dominators that
  are made explicit through two steps.  Blocks are numbered as the search
  meets them: other numbers rename the same search.  The entry has no
  predecessors and Recover no edges, as the builder leaves them.
* *Lift.* Two cells can be exchanged; four blocks give a branch, a loop, a loop left in
  the middle and a cycle with two entries.
* *Vrp.* Integers of five bits, small ones of three; the loops have two variables
  at most, updated from each other.  A run of the function ends where a result
  does not fit its type, because ranges say nothing after a wrap-around.
* *Scc.* Four vertices give two components of two, joined in either direction.
* *Unused.* Two named structs that embed a third, an interface, a type with `Lock`, constants as
  array lengths, an import; the bodies of three functions, a method and a variable vary.  Each rule of the
  checker has programs where it alone keeps something alive.
* *Builder.* Every pair of nested statements that can be left by a branch, with each branch; every
  order of two cases and a default with and without fallthrough; deferred functions that recover, panic or change
  results in functions with named and unnamed results; literals and assignments that read what they
  write; closures over parameters and loop variables; methods through embedded fields and pointers;
  packages whose initializers depend on each other.  `MaxAnswers` (6) limits the answers of the environment, enough
  for two turns of nested loops; `MaxQuiet` (2^8 instructions between two answers) and `MaxLoops` (20 turns of a loop
  in GoSemantics) are reached only by programs
  that go round without asking anything, and both sides then say that they diverge.

### Fairness

Every fairness assumption is of one of three kinds.  A goroutine that can run
runs: weak fairness of its steps, which the Go scheduler gives.  A mutex starves
no one: strong fairness of `Lock`, which `sync.Mutex` gives by its starvation
mode.  A check ends: weak fairness of `JobDone`, an assumption about the
hundred checks that are abstract here.  The sequential algorithms (PathSearch,
BlockOpt) have weak fairness of their steps: the function runs.  What GraphSearch promises to happen is
therefore implemented by weak fairness of the search's steps.  A client's calls and a job's decision to ask for another
description have no fairness.  Deadlock is checked in every run but `builder`, where a program that has ended has no step: in the others the only states
without a step other than stuttering are those where the program has ended, in Vrp also those
where the run of the analysed function would panic or wrap around.

## 4. What is proved

All theorems hold for every value of the constants that satisfies the `ASSUME`s
of the component's module (which say that programs are well formed, for
example that the call graph has an edge for every call, that packages are
finitely many, that two checkers have no check in common, that an interface has
only methods that the types implementing it have, and that "nobody" is not the name of
somebody).

**DescriptionsProofs.** `TypeCorrect`, `SingleWriterHolds`,
`PublishedIsFinalHolds`, `WaitsDescendHolds`, `CallGraphFrozenHolds`,
`GetIsDeterministicHolds`.  The invariants build on each other.  *TypeInv* gives the
types.  *WriterInv* says that an entry being computed is on exactly one
stack of one job, which is needed because the mutex is not held while
computing.  *DescendInv* says that each call on a stack was made for a callee from
which its caller is not reachable; with the meaning of reachability (a node is reachable if it is in every
closed set around the start, which needs no induction) this gives
`WaitsDescend`.  *GraphInv* says that every function on a stack already has a
node, so that `CreateNode` never writes.  *WalkInv* says how far `IsPure` has come:
all instructions before the current one are harmless.  Together with an
unfolding lemma for the reference definition of purity it gives `GetIsDeterministic`.

**LinterProofs.** `WaitIsBarrierHolds`, `LintIsExactHolds`, `CleanExitHolds`, from `LinterInvHolds`.
What `Lint` returns is a bag, so the invariant counts.  At every moment of its loops a problem is in
`out` as often as in the part of the job that has gone through `ignore` (*FoundInv*), a
malformed directive as often as it has been scanned (*MalformedInv*), a complaint about an unmatched directive
once for each of its checks that the loop has passed (*UnmatchedInv*); *MatchedInv* says that a directive is
marked exactly if a problem handled so far matches it, which makes the flag complete only
because filtering ends before the directives are gone through.  *JobInv* ties the
`WaitGroup` to the running goroutines and gives the barrier.  *ResultsInv* carries to the
exit code what an empty result of an earlier checker meant: no problem, no malformed directive, and none
that was useless to it.

**CallGraphProofs.** `EdgesAreDualHolds`, `TopologyPreservedHolds`, `NoDuplicatesHolds`, for every multigraph and every order in which
`DeleteSyntheticNodes` meets nodes and edges.  While nodes disappear, what a call site
reaches through wrappers among the nodes that are left does not change: nothing is made up (*SoundInv*)
and nothing lost (*CompleteInv*).  The second needs *InlineInv*: the loops
run over copies of lists to which they add edges, and an edge added to the `Out` of the node being
inlined has a callee that the loop has in hand already.  *HashInv* says that what the set of
known edges remembers of deleted nodes is never asked for, and that it has every edge there is, so that what is
added is new.  Reaching is membership in every closed
set, as in Descriptions.

Also in CallGraphProofs, of the search: `TypeCorrect`, `SearchIsRightHolds`, `StackInStepHolds`, `PromiseHolds`.
The inductive invariant has, besides the types, that the edge stack is in step with
the stack of calls, that the nodes entered and left are closed under
edges except for those still in a loop (*CoverInv*: it makes the nil answer
complete although nodes are marked before they are finished), and that the stack is
a path (*PathInv*).  `PromiseHolds` is the refinement: every step of the search is a step of GraphSearch or leaves its
variables alone, from the same invariant; GraphSearch's liveness is left to the run.

**RtaProofs.** `AnalysisIsExactHolds`, `ImplementsIsExactHolds`, `ChaCoversRtaHolds`, from `RtaInvHolds`.
*TodoInv*: what has been found but not followed up is in the worklist, in the part of
the function being visited, or pending; so at the end what was found is a solution of the
rules.  *SoundInv*: it is in every solution.  *EdgeInv* and *TableInv* say that the two cross products, and the
two tables of implementations, have all pairs of the halves found so far, from whichever
side the last one came; *OnceInv* that no function is visited twice, except
the roots that `AnalysisIsExact` excepts, so that every edge is added once.  The reference is an iteration; that it
is a least solution is an induction over its steps, which the proofs make
with sets of numbers and the well-foundedness of the natural numbers, and its end within
the bound is a count of what each step adds.

**SccProofs.** `ComponentsAreOrderedHolds`, from `SccInvHolds`: Tarjan's algorithm is right for every graph.
An active vertex reaches everything that came onto the stack after it, and everything on the
stack reaches an active vertex that came before it (*ReachInv*), so that what is
taken off together is mutually reachable.  *LowInv*: a low link is the index of something reachable on the stack, and where
an edge crosses an active vertex backwards, the low link of that vertex or a later one tells; so a vertex
whose low link is its own index has no edge from its part of the stack to the rest.  *ComponentInv*: what is
finished is closed under edges, and therefore never joined with what comes later.

**ProgramBuildProofs.** `OneFunctionEachHolds`, `BuildIsBarrierHolds`, `RuntimeTypesExactHolds`,
`TypeCorrect`.  For the first: whoever answers a request holds the mutex
(*MuInv*), therefore a lookup that found nothing is still right when the Function is
inserted (*MissInv*), therefore exactly the entries of the tables have had one Function
made (*MadeInv*).  For the second: the states of goroutines agree with those of
`sync.Once` (*OnceInv*), the `WaitGroup` counts the goroutines that have not ended
(*WgInv*, with the cardinality theorems of the library), and a caller that has
returned left none behind (*ClientInv*).  `TypeCorrect` needs *WgInv* too: the
counter never becomes negative.  For `RuntimeTypesExact`: nothing that a package has come to is
forgotten (*RootsInv*), the parts of what was seen are seen or in line (*SeenInv*, where "seen" counts
a visit with `skip` only for those who ask with `skip`), nothing is in line or seen that is not needed (*PendingInv*),
and a client asks only after all packages are built and the mutex is free, when nothing is in line.

**VrpProofs.** `RangesAlwaysHold`, `NilBoundsAreNeverRead`, `UnbufferedOffCycles`, `LoopsAlwaysMakeProgress`,
`TameLoopsMakeProgress`, `VrpTypes`, for every function of the
shape of section 2, every order of components and worklists, integers of every size, all inputs and runs of any
length.  Two hypotheses exclude the disagreements of section 3, and only them: `ChannelsOffCycles` (no channel is on a
cycle) for the nil bounds, `ProperCycles` (nor is a conversion to a larger type) for the ranges.  All
programs of the run `vrp` satisfy both; without the first, `vrp_channel` is a counterexample.

The argument has four layers.  *Operations*: `AddIsSound`, `SubIsSound`, `MulIsSound`, `UnionIsSound`,
`IntersectionIsSound`, `WidenIsSound`, `NarrowIsSound` say that the computed interval includes the result for all
members of the operands.  They are proved by cases over the infinities, with lemmas that reduce
membership in `NewIntInterval` to two comparisons; for products, that multiplication by a fixed number is
monotone or antitone, so that a product lies between two corners (*MulBoundLeft*, *MulBoundRight*), and that the
bounds are the extremes of the four corners (*MinMax4*); for widening, a least constant exists by
well-foundedness.  *Constraints*: `Eval` of sound operands is sound (*EvalIsSound*), the
conversion only if the range that its result had was unknown or sound, or it is not to a larger type.
*Values*: `Actual` is the least family of sets that the instructions do not lead out of, defined
without induction as the intersection of all such families; a run only computes members of it (*RunInv*).
*Solve*: the ranges of what is solved are sound, and those on the cycle being widened satisfy
*CycleIsCovered*: each constraint on the cycle has an operand on the worklist, is about to be evaluated, or makes
nothing of what the ranges admit that its own range leaves out (`Covers`).  A cycle whose constraints are all
covered is sound as a whole, because what the ranges admit is then a closed family (*CoveredIsSound*):
this is where widening is used as a fixed point, not step by step.  Narrowing only has to keep soundness, in any
order.  *OrderInv* says that a component is a whole cycle and that what it reads from outside is
solved.  *KnownInv* says that an unknown value of the cycle lacks an operand, a phi all of them
(*UnknownIsStarved*); at the end of widening the first unknown value would lack one that comes before it, so there is
none.  So in functions of this shape the loop at `staticcheck/vrp/vrp.go:544`, which fills in integers after widening
and of which its comment says that it "seems to be necessary, but shouldn't be", does nothing.

`LoopsAlwaysMakeProgress` proves `LoopsMakeProgress` as long as no range is empty (`RangesAreProper`) and no channel is
on a cycle.  The invariant is *ProgressInv*: while a cycle is widened, a constraint is about to be evaluated, has an operand on
the worklist, or is *Settled*, which means that evaluating it again does not lead out of its range; so at the end of widening all are, and narrowing
keeps them so.  The last step needs that `Eval` of smaller ranges is smaller (*EvalShrinks*, from the
monotonicity of every operation: *AddShrinks*, *SubShrinks*, *MulShrinks*, *SliceShrinks*, *JoinedShrinks*,
*MakeShrinks*, *ConversionShrinks*), which is false of empty ranges.  `TameLoopsMakeProgress` replaces the hypothesis
on ranges by one on the function: it is `Tame` if no channel is on a cycle, the size of a make is a parameter, a call or a
constant that is not negative, and no conversion to a larger type clips its operand.  Then no range becomes empty
(*EvalProper*, *WidenProper*, *NarrowProper*).  Of the 1193 functions of the run `vrp`, 1188 are tame.  That the
loops therefore end, a measure over sets of ranges, is not proved.

**UnusedProofs.** `UnusedReportIsExact` and `UnusedMarksTheReached`, for every program, set of flags and order of
packages and nodes.  From go/types it is assumed only that a package declares its own objects, that what has a place in its
files is declared, and that a declared function has a scope of its own (`WellFormed`).  `UnusedReportIsExact` has one
hypothesis on the program, `FunctionsAtTop`: no interface with methods is declared inside a function.  The method of such an
interface would use the scope of the function around it, in place of that function, and names that it declares
would be quiet although their scope is used; all programs of the run satisfy it.  The
invariant: whatever processDefs has come to has its node, a root or quiet mark and the node of its
scope (*DefsInv*); the scope of a function is used by that function only, so that it is used only if the function
is (*ScopeInv*, which goes through every kind of link); a type or scope that is not used is still to be come to, or
everything in it is quiet (*QuietInv*, for which nodes added during the iteration do no harm because they are made quiet
as they are added); and nothing else is quiet than what is blank, was not asked for, or is in
something that is not used (*SoundInv*).  What method sets and pointers resolve to plays no part in it.

**Only model-checked.** All liveness properties: the prover has no rules for
fairness or `ENABLED`.  The invariants of BlockOpt (the optimisations are folds over
lists of blocks), of Dominators and Lift (recursive walks of the tree) and of the builder (its translation and the meaning of a
program are recursive): what a fold or a recursive operator computes for every input is an induction over data,
which the provers do not have.  `ReportedCanGo` of Unused: which declarations go with which, and what a
method set holds, are recursions over the program.

## 5. What is not modelled

The contents of the checks of `staticcheck`, `stylecheck` and `errcheck`, and of those of `simple` that
match calls of the standard library or conversions of strings (patterns on syntax: a model would repeat the
pattern, and there is no second text to compare with).  Of the builder: floating point, complex and string
operands, method expressions, the order of the bounds of a slice and what `arrayLit` tells its elements where they differ from the language (section 3), debug references, positions; the creation of packages and members.  Types and
their method sets are given as constants.  Printing, flags,
loading of packages, the standard library.  Of `functions`, `terminates` and
`concreteReturnTypes`; of `vrp`, sigmas and futures, which nothing creates.  Glob patterns and regular expressions are abstracted
to what they match.  `GraphVisitEdges`, which only tests call, and `CalleesOf`, which nothing calls.

## 6. Plan

Done: all modules of section 2, with the theorems above.  Next, in this order:

1. **Layout** (`gcsizes`, `structlayout-optimize`): sizes, alignment and padding.
2. **Wrappers** (`ssa/wrappers.go`): the bodies of wrappers, bounds and thunks in BuilderRun.
3. **ssautil/switch**: the recognition of switches, against the run of the function.
4. Builder, BlockOpt and FinishBody composed: what is built, optimised and lifted still does
   what the source says.

Abstract specifications worth stating: a cache that computes each value once,
implemented by Descriptions and by the method tables; the least fixed point
implemented by Rta (GraphSearch is the one stated so far).  Theorems worth proving next: that the loops of Vrp end, from `LoopsAlwaysMakeProgress`, and, with one block removed or threaded per step, `GraphIsConsistent` of BlockOpt.
