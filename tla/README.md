# A verification development for the JIT/AOT compiler IR

The repository is a small SSA compiler in C++: a control flow graph of basic
blocks, an intermediate representation of instructions with def-use edges,
analyses (DFS, reverse post order, dominator tree, loops) and optimisations
(peepholes, constant folding, check elimination).  This directory holds TLA+
models of it, configurations for TLC, and theorems whose proofs TLAPS checks.
`PROJECT.json` lists the components, the runs, the mutants that show that every
property can fail, the source lines behind every definition, the hazards, the
findings and the theorems.  Paths below are relative to `src/`.

The program is sequential and persists nothing: there are no threads, messages,
crashes or timeouts to model.  What is hard in it is state that lives on
between calls (marks and results on the blocks, users of instructions),
recursion over cyclic graphs, lists that are changed while they are walked, and
passes that rely on what others have left behind.

## Inventory

| Component | State | Operations | Correct when |
| --- | --- | --- | --- |
| Markers (`ir/marker.h`, `ir/basic_block.cpp`) | index counter, four colours in use; per block and colour the index of the last mark | create and erase a marker; set, erase, test and clear marks | a marker is a set of blocks, empty when handed out, that nobody else changes |
| Graph and blocks (`ir/graph.*`, `ir/basic_block.*`) | blocks, successors, predecessors, RPO vector | add blocks and edges, run RPO | at most two successors; input of the analyses |
| DFS (`analysis/dfs.*`) | result vector, marks | `Run` | finds what can be reached around the marked blocks, each block once |
| RPO (`analysis/rpo.*`) | vector with a slot per block, count of free slots | `Run` | reachable blocks each have one slot; an edge backwards closes a cycle |
| Dominator tree (`analysis/dominator_tree.*`) | blocks dominated and immediate dominator in every block; map of dominators | `Build` | dominance as defined, after every build |
| Loop analyzer (`analysis/loop_analyzer.*`, `loop.h`) | two markers, the loop of each block, latches, inner and outer loops | `Run` | natural loops, nested correctly; irreducible loops kept apart |
| Instruction list (`ir/basic_block.*`) | first and last pointer, next and prev | push, insert, remove, enumerate | pointers agree; an enumeration visits everything once whatever its callback does |
| Def-use edges (`ir/instruction.*`, `ir/inputs.*`, `ir/instructions.h`) | inputs, users, dependencies of phis | constructors, `ResolveDependency`, `ReplaceInputsForUsers`, `RemoveUsers`, `SetInput`, `SwapInputs` | users are the inverse of inputs; nothing uses what was removed |
| IR builder (`ir/ir_builder*`) | current block | one `Create...` per instruction | instructions end up in block, graph and users |
| Peepholes (`optimizations/peepholes.*`) | none of its own | `VisitMul`, `VisitAshr`, `VisitOr` | def-use stays consistent, values unchanged |
| Constant folding (`optimizations/constant_folding.*`) | none of its own | one fold per operation, with a cast per type | the constant is what the operation computes in the type of its operands |
| Check elimination (`optimizations/check_elimination.*`) | the check that remains, iterators | `OptimizeDominatedChecks` | what was checked is still checked, before it is used |
| Instruction set, types, dump, utilities, inlining stub, tests | | | see `PROJECT.json` |

The components meet in shared state, not in messages.  The builder makes blocks
and instructions.  `DominatorTree::Build` runs `Graph::RunRpo`, then one DFS for
every block with that block marked; all of them take markers from the one
manager of the graph and leave their marks on the blocks.  The loop analyzer
builds the dominator tree and takes two markers at a time itself.  Every pass
builds the tree anew on the same graph.  The optimisations enumerate the
instructions of a block and, from the callback, insert and remove instructions
of that block and redirect users, while they iterate lists of users.

What is hard to test is listed line by line under "hazards" of `PROJECT.json`,
each with the properties that would catch it.

## Modules

| Module | Models | Built on |
| --- | --- | --- |
| `MarkerBits` | how a `Marker` packs index and colour; the marks of the blocks | |
| `MarkerSets` | abstract: a marker is a set of blocks, at most four exist | |
| `Markers` | `MarkerManager` and its clients; implements `MarkerSets` | `MarkerBits` |
| `Cfg` | graphs, reachability, activations of recursive visits | `MarkerBits` |
| `Traversal` | what the two walks have in common: the graph, the marks, the stack of activations | `Cfg` |
| `Dfs`, `Rpo` | the two walks, their recursion as a stack | `Traversal` |
| `DominatorTree` | `Build`, repeated on a graph that may grow in between | instances of `Markers`, `Rpo`, `Dfs` |
| `LoopAnalyzer` | `Run`, from the dominator tree to the loop tree | instances of `Markers`, `DominatorTree` |
| `InsnList` | the list of a block and an enumeration in progress | |
| `Users` | entering instructions into lists of users and taking them out | |
| `DefUse` | constructors, phis, `ReplaceInputsForUsers` step by step, removal | `Users` |
| `CheckElimination` | the search for dominated checks over a whole program | `Users` |
| `ConstantFolding` | constants, the three folds, and what the operations compute | |
| `Peepholes` | `Run` over a program: every pattern of the three visits, with its edits | `ConstantFolding`, `Users` |
| `MC*`, `MCCfgs` | values of constants, sets of small graphs, symmetry | the module each is named after |
| `UsersProofs` | lemmas: counting the entries of a list of users, lists that grow or are replaced, powers of two | `Users` |
| `InstructionProofs` | the theorems about the instruction list and about def-use edges | `InsnList`, `DefUse`, `UsersProofs` |
| `PeepholesProofs` | the theorems about the peepholes | `Peepholes`, `UsersProofs` |
| `CheckEliminationProofs` | the theorems about check elimination | `CheckElimination`, `UsersProofs` |
| `TraversalProofs` | the theorems about the walks | `Dfs`, `Rpo` |
| `DominatorTreeProofs` | dominance as a relation; the theorems about `Build` | `DominatorTree`, instances of `MarkersProofs`, `TraversalProofs` |
| `LoopAnalyzerProofs` | the theorems about markers, latches and loops of the loop analysis | `LoopAnalyzer`, instances of `MarkersProofs`, `DominatorTreeProofs` |
| other `*Proofs` | the theorems | the module each is named after |

How the code became state and actions:

* **Recursion** (`DFSImpl`, `RPO::DFS`, `SearchLatchDFS`) is a variable `stack`
  of activations `[block, next]`; an action is one iteration of the loop over
  the successors (`DfsVisit`, `DfsSkip`) or the return (`DfsReturn`,
  `RpoFinish`).  Marks are set where the code sets them, on entry.  Only
  `LoopSearchDFS`, which does nothing after its recursive calls and whose effect
  on a block does not depend on the order, is a set `pending` of outstanding
  calls.
* **Marks** are kept as the code keeps them: one index per colour and block,
  never cleaned when a marker is given back.  The index counter runs into its
  assertion (`outcome = "assert"`), the colours into `UNREACHABLE()`
  (`"unreachable"`).
* **Undefined behaviour** is a choice.  Where `Build` executes `UNREACHABLE()`,
  the program may end or carry on as if the branch were not there; both are
  actions.  A null dereference ends the program with an outcome of its own.  A
  null check read as a bounds check compares as it may (`MayRemove`,
  `MayKeep`).  A folded shift by the width or more gives any constant
  (`FoldAshr`).  Where `VisitMul` reads behind the only input of a phi or a call,
  the program ends (`MulByOneOutOfBounds`) or carries on with whatever it has
  read (`MulByOne`).
* **Iterators** over lists that shrink are positions: after an erasure the
  position stands on the successor, as the iterator saved with `userIt++` does.
* **Edges in one action**: a visit of `Peepholes` edits inputs and users many
  times.  Each edit is an operator from edges to edges (a record of inputs and
  users), and the action applies them in the order of the code.
* **Numbers** in `ConstantFolding` are bit patterns below 2^`WIDTH`; casts,
  signed readings and wrapping products are what C++ makes of them at that
  width.  Floats hold small integral values, exactly, as doubles do.  Read as a
  float, the bits of a small integer, or of a float of the other kind, are a
  number next to zero, and the model takes zero (`GetAsFloat`).
* **History variables** (`live`, `removed`, `order`, `pending` of `InsnList`,
  `meant`, `given`, `substitute`, `meaning`, `asked`) record what callers asked
  for, so that properties can relate the structures to it; the code has no
  counterpart. `meaning` is the value an instruction was built to compute, for
  each value the phi may have; an instruction that takes the place of another
  inherits it.
* **Abstracted**: opcodes and values except where a property tells them apart
  (three ways to keep inputs in `DefUse`; references, checks and others in
  `CheckElimination`, the opcodes a visit asks for in `Peepholes`), the order of
  the blocks of one phi value, the numbering of blocks and instructions, text
  output, ownership of memory.

Definitions marked "Mutant:" are not part of a model: each is the form a
plausible bug would give the definition it stands before, and is used to show
that a property would notice.  The correctness of the models against the code is
a matter of reading; the lines to read are in `map`.

## Runs

| Run | Explores | Shows |
| --- | --- | --- |
| `markers` | two interchangeable blocks, six index values | types; no two markers in use share a colour; a new marker is found on no block although stale marks stay; at most four; `Markers` implements `MarkerSets` |
| `walks` | every graph of four blocks up to renaming, up to two blocks taken out; DFS on stale marks, then RPO on the marks DFS has left | each block found once, exactly the reachable ones; slots filled from the end; the assertion on `blockCount` holds; reachable blocks exactly; backward edges close cycles |
| `dominators` | every graph of four blocks with at most six edges, three builds, edges added in between | dominance and immediate dominators by definition; dominators first in RPO; markers given back; only an unreachable block breaks `Build`; it ends |
| `loops` | connected graphs of four blocks with at most seven edges and no double edge, irreducible ones included | latches cut every cycle; natural loops and their nesting on reducible graphs; two markers are enough; the analysis ends |
| `list` | four instructions, any pushes, inserts and removals, also from the callback of an enumeration | pointers agree with the order; the enumeration is on track and ends; only the sole instruction cannot be removed |
| `def_use` | four instructions, one phi, calls with two arguments, any replacements | inputs and dependencies are what was asked for; no removed input; users match inputs; a phi finds its dependency |
| `checks` | five instructions in three blocks, branch or chain, two references | the program stays well formed; references stay checked; no check is missed in the shrinking list; the saved next instruction stays |
| `peepholes` | chains of three operations over a phi and two constants, a call or phi that uses a result, nine starts (types, opcodes, constants), the pass run twice | no value changes but the three exempted below; no operand is missing, and but for the phi and joined distances all stand in front of their use; which users get lost; one pass leaves nothing to simplify; each visit leaves fewer to come |
| `unreachable` | violation, see below | `Build` executes `UNREACHABLE()` |
| `loops_inner` | violation, see below | a loop becomes the inner loop of its own inner loop |
| `bounds_checks` | violation, see below | indexes of bounds checks are not compared |
| `joined_distance` | violation, see below | the joined distance of two shifts stands behind its use |

### Bounds

* `INDEX_VALUES` stands for the 2^30 indexes a `Marker` can hold and
  `MAX_MARKER_INDEX` for the limit the code asserts.  With six, the marker run
  hands out more markers than there are colours, reuses freed colours and
  reaches the assertion.  In `dominators` twelve is enough for two builds of a
  graph of four blocks and lets the third run into the assertion.  In `loops`
  sixteen is more than one run can take.
* Graphs.  `CanonicalCfgs` has one graph for each class of graphs that differ
  in names only; `Cfg` knows a block by nothing but its edges.  Three or four
  blocks are enough for diamonds, self loops, double edges, nested and
  overlapping loops, two-entry loops and unreachable blocks.  `MAX_EDGES` keeps
  the runs of `DominatorTree` and `LoopAnalyzer` small (eight edges is the
  most four blocks can have) and leaves a block without successors for
  `ExtendGraph`.  `MAX_BUILDS` is three: a build on a fresh graph, one on the
  marks and results another has left, of the same graph or of one with a branch
  or jump more, and one that meets the limit of the index.
* `DefUse`: four instructions give an instruction a double input, a phi two
  values that become one, and two replacements in a row; `MAX_INPUTS` two gives
  a call the same input twice.  Blocks are interchangeable.
* `CheckElimination`: `MAX_INSNS` five, `MAX_REFS` two and `MAX_OTHERS` one give
  three checks of one reference with a use of one of them, or two references
  with checks each.  Chains of three blocks and forks give every relation
  between the blocks of two checks.  Two index values are interchangeable; the
  violation takes three.

* `Peepholes`: `WIDTH` four and `HALF_WIDTH` two stand for 64 and 32 bits.  They
  are enough for a product that wraps, a sign bit in either width, a value that
  changes in a cast to the narrow type and a sum of distances that reaches the
  width.  `MAX_OPERATIONS` three gives every pair of patterns on one value with
  an operation behind them (a product by one whose user gives way later, a shift
  of a shift of a shift, a folded constant as the operand of the next fold).
  `MAX_USES` one is one call or one value of the phi, `MAX_ARGUMENTS` three a
  call with an argument behind the two a visit looks at.  `MAX_RUNS` two runs the
  pass on what it has left itself.  The two `Environments` differ in sign and in
  their low bits.  Products of floats take floats of either kind and integers,
  as in `tests/optimizations/peepholes_test.cpp:173-177`.
* The graphs of `unreachable` are the connected ones of two blocks, so that a
  null pointer cannot end `Build` before the root is looked up.

CHECK_DEADLOCK is off where the program ends: a walk is over, a pass is done,
an assertion has failed or a bound is reached.  In `peepholes` it is on: there
`Stopped` names the states in which the optimiser may stop, so that a visit in
which no pattern applies and none is skipped would be found.

### Fairness

The liveness properties (`BuildTerminates`, in which RPO and the DFS walks run,
`AnalysisEnds` and `EnumerationEnds`) assume weak fairness of the steps of the
function that runs, and nothing else.  Each is an ordinary function call in a
single thread: once called it keeps executing.  No fairness is assumed of
callers: nobody has to start an analysis, extend the graph or build again.  What
the properties then say is that the recursion over a cyclic graph or the loop
over a changing list does not go on forever.  `Peepholes` needs no fairness for
that: `VisitsAdvance` is the variant, operations yet to visit only get fewer, and
the deadlock check says that there always is a visit.

## Findings

* `unreachable`: `Build` asks `dominatorsMap_` for every block that a block
  dominates, and the root is in its own `dominatedBlocks_` but never in the map.
  So `CalculateImmediateDominators` executes `UNREACHABLE()` in every build of a
  connected graph (on others, `Build` dereferences a null pointer before that).  In
  a build that gives up there, nothing works; where the compiler takes the
  branch for impossible, the results are right, which `dominators` shows.
* `loops_inner`: each latch overwrites what the last one said about
  reducibility.  A header with a latch it does not dominate and a later one it
  does is searched like a natural loop; the search escapes through the other
  entry and makes the loop around it its inner loop.
* `bounds_checks`: `GetIdxToCheck` returns the limit instead of the index, so a
  bounds check of another index against the same limit is removed.
* `joined_distance`: the comments draw the constant that joins two distances in
  front of the shift that takes it (`optimizations/peepholes.cpp:119-120`,
  `tests/optimizations/peepholes_test.cpp:349-350`); the code puts it behind, and
  the assertions of that test expect it there.

### Exempted from the properties

These the code does, and the properties say so where they leave them out:

* `VisitMul` turns `x * 2` into a sum of type F64 whatever `x` is
  (`RetypedSum`); for integers that is another value.
* A shift by the width or more has no meaning in C++, and nothing says what the
  IR means by it.  Programs are built without one, but two joined distances may
  add up to one: no value is asked of such a shift (`ShiftsTooFar`).
* Factors of a float product that are constants of another kind are misread, so
  that the folded product is zero: no value is asked of it (`MisreadProduct`).
  What uses it is still held to the value that it stands for.
* `OperandsInPlace` allows one operand behind its use, the joined distance of
  `joined_distance`, and no other place for that.

These end the program, and the model with it:

* The assertion at `optimizations/peepholes.cpp:130` compares the type of a sum
  of distances, always signed, with that of a distance.  It fails for unsigned
  distances, which a folded disjunction makes, too (`AshrAssertFails`); so the
  u64 constants in the comment above it are never joined.
* A product of two 32-bit constants is `UNREACHABLE()`
  (`optimizations/constant_folding.cpp:38`, `FoldUnreachable`).
* Of a user with vector inputs `VisitMul` looks at the first two and can replace
  none (`SetInput` does nothing there).  In a vector of one it reads past the end
  (`optimizations/peepholes.cpp:59`).  If that does not end it, the entry is
  dropped whatever it has read, for the one input is the product.

## Theorems

All are proved for every value of the constants that satisfies the named
assumptions (`StartAssumption`, `CfgsAssumption`, `IndexValuesAssumption`,
`InitialMarksAssumption`, `RpoAssumption`, `DominatorTreeAssumption`,
`LoopAnalyzerAssumption`, `ProgramAssumption`, ...): finite graphs of any size,
any number of instructions, any number of indexes.  `PeepholesAssumption` says
what programs begin with: integers of any value, but in programs of floats small
ones, of which `GetAsFloat` knows what they are when they are misread.

* **Markers** (`MarkersProofs`).  The inductive invariant `MarkersInv` adds to
  the types and to `LiveColorsDistinct` that no mark and no marker in use has an
  index that was not handed out yet (`NoFutureMarks`): without it a stale mark
  could be that of the next marker.  From it follow `FreshMarkerUnseen`,
  `AtMostFourLive` (markers inject into colours) and that every step is a step
  of `MarkerSets` or leaves it unchanged (`Refinement`).  The arithmetic of
  packing is `MarkerParts`, the locality of a mark `MarkingIsLocal`.
* **DFS** (first part of `TraversalProofs`).  `DfsInv` says that the marks are
  exactly the blocks found and taken out, that the stack is a path, and that
  every edge out of a block found leads to a block found or taken out, or is
  still ahead of some activation (`FoundProgress`).  When the stack is empty
  nothing is ahead, so the blocks found are closed under edges and hence, being
  reachable, exactly the reachable ones (`DfsFindsReachable`).
* **RPO** (the rest of `TraversalProofs`).  `RpoInv` adds that the slots taken
  and the stack together are the marked blocks, each once, so that a slot is
  left for everything on the stack (`RpoAssertion`), that deeper activations are
  reachable from those above, and that an edge to a slot in front closes a cycle
  (`EdgesOrdered`), from which `RpoOrders` follows. `CallersInv` says who called
  whom: the activations are a path from the start block, and every finished
  block but that one was called for from a block that is still being visited or
  has a slot further in front.  `RpoListsBlocks` puts both together for whoever
  reads the vector.
* **Dominance** (first part of `DominatorTreeProofs`).  `DominatorTree` defines
  dominance by simple paths; DFS takes a block out and looks at what can still
  be reached. `DominatesUnreachable` shows that they are the same, by cutting
  and joining paths at the least position of a block (there is no induction in
  it).  Then dominance is reflexive and transitive, and dominators of one block
  are comparable.
* **Dominator tree** (`DominatorTreeProofs`).  `BuildInv` is composed of the
  invariants of the three modules `Build` calls, each at the places of `Build`
  where it is at work: `MP!MarkersInv` always, `TP!RpoInv` and `TP!CallersInv`
  while RPO runs, `TP!DfsInv` with the block at `pos` taken out while DFS runs;
  between them it keeps what a walk has left (`VectorDone`, `Results`).  A fresh
  marker is on no block (`MarkersInv`), which is what the walks' initial states
  ask for.  `NoDominatorBehind`: no block dominates one in front of it, because
  the first block that was dominated by one behind it would have its caller, in
  front of it, dominated as well.
  So dominance is antisymmetric, and the last strict dominator in the order of
  RPO is the immediate one (`ImmediateExists`), unique, and the one that claims
  the block.  From the invariant follow: markers are given back, `Build` fails
  only on graphs with blocks that cannot be reached or out of indexes, the blocks
  dominated, their order and the immediate dominators are right, after the first
  build and after any later one on a graph that has grown.
* **Loop analyzer** (`LoopAnalyzerProofs`).  The analysis calls `Build` first, so
  `AnalyzerInv` is `BuildInv` while that runs (a step of the instance is a step
  of `DominatorTree`, `SameBuildStep`), and keeps of it what the walk needs: a
  connected graph, an empty stack, and markers that are on no block when they
  are created.  Two markers are on the same blocks then; they stay apart because
  their colours differ and giving a mark back writes an index nobody has
  (`TwoMarkers`, `EnterMarks`, `ReturnMarks`).  Hence the gray blocks are those
  on the stack, each once, and each can be reached from those below it
  (`GrayOnStack`): a gray successor is a header whose cycle the block closes.
  `EdgesFollowed` says of every edge out of a black block that it is still ahead,
  is being followed, led to a finished block, or made a latch.  When a block is
  finished, an edge to it from a finished block can only be the last (it was not
  finished when the edge was done with), so a set of finished blocks still has a
  member all of whose edges into the set make it a latch (`LatchReturnInv`).
  When the stack is empty the black blocks are closed under edges and all
  finished, and that is `LatchesCutCycles`.  `TwoMarkersSuffice` is read off
  `MarkersHeld` and `ColorsInUse`.

  `LoopsFound` says that the loops are the natural ones (`LoopsAreNatural`), by a
  second invariant, `NaturalInv`, on top of the first.  Of what `Build` computes
  it keeps that dominance is a partial order whose predecessors of a block are
  comparable, and that the vector lists dominators first (`TreeSound`,
  `OrderSound`).  During the walk the dominators of a block lie below it on the
  stack (`DominatorsBelow`), so a back edge is seen while its header is gray and
  makes a latch (`BackEdgesFollowed`): when every latch is dominated by its
  header, the latches are the sources of the back edges.  `PopulateLoops` goes
  from the last header to the first, and two natural loops are disjoint or
  nested (`LoopsNest`), hence after each header the loops behind it are filled:
  every block is in the innermost of them around it, and so is every loop
  (`Filled`).  In between, `SearchOf` says that what is black or pending lies in
  the natural loop and that a path into it leads through something pending, so
  an empty `pending` means the whole loop was seen; `Searched` says what the
  blocks and loops seen so far have become.  The order of the calls of
  `LoopSearchDFS` does not matter (`pending` is a set), and a block whose loop
  has its outer loop already is passed over only because that loop is nearer.
  `BuildLoopTree` then turns what is left into children of the root
  (`NaturalTree`).
* **Def-use edges** (`UsersProofs`, `InstructionProofs`).  `UsersProofs` counts: how
  often an instruction is in a list (`Count`), and what `AddUser`, `RemoveUser`,
  `ReplaceAll` and the folds over all inputs do to that number.  The folds are
  unrolled into chains of single steps (`FoldSteps`), by the well-founded order
  of finite sets and without induction over data.  `DefUseInv` is the inductive
  invariant.  Counts are needed because the constructors differ: an instruction
  that takes an input twice is entered in its users once (default inputs) or
  twice (a vector), and a replacement changes how often.  `EnteredIn` says that
  `i` is a user of each input `d`, and is among the users of `d` at most as often
  as `d` is among its inputs; `RemoveUsers` takes one entry out for each input,
  so nothing of `i` is left (`UsersMatchInputs`).  Inside the loop of
  `ReplaceInputsForUsers`, where the list it walks loses an entry in every
  iteration, `StillAhead` says that whoever still uses the old instruction has
  an entry at or after the iterator (the entry that goes is never behind it,
  `ReplaceUserLists`), and `AsMeant` that replacing the rest as well gives what
  was asked for.  `PhiKeys`, that the keys of a phi's dependencies are its
  inputs, gives `DependencyFound`.
* **Check elimination** (`CheckEliminationProofs`, with `UsersProofs`).
  `CheckInv` is the inductive invariant.  `UsesDominated` by itself is not: a
  check may go only if the list of users the loop walks names all who use it, so
  `Entered` ties users to inputs, by counts as for def-use edges.  That what
  takes the place of a check comes before all of its users is the transitivity of
  `Before` (`DominatedOver`, and the order within a block, `CodeInOrder`).
  `Substituted` says that a check that has gone still has one of its reference
  before it; when that one goes as well, the one it gives way to comes before
  both.  `Passed` says of every user behind the iterator why it was kept; the
  entry that `Remove` erases is the one the iterator stands on, or one it has
  passed, so none is skipped (`LoopMissesNoCheck`).  `Walk` keeps the saved
  instruction next to the current one in its block: were it the check that is
  removed, the check that remains would have to lie between the two
  (`SavedInsnStays`).  The one assumption about dominance is that it is a strict
  partial order on the blocks.  That is what dominance is: the lemmas of
  `DominatorTreeProofs` show transitivity and antisymmetry of the relation that,
  by its theorems, `Build` computes.
* **Instruction list** (`InstructionProofs`).  `ListInv` ties the four kinds of
  pointers to the history variable `order`, and the saved `nextInsn` to a place
  behind the current instruction.  That the pointers follow the order, that the
  enumeration visits what is left, and that only the sole instruction makes
  `Remove` dereference null are consequences.

* **Peepholes** (`PeepholesProofs`, with `UsersProofs`).  `CodeInv` says that the
  code is a list of distinct instructions and that `Run` is at an operation of it.
  A visit takes that operation out, replaces it by one that is no operation, or
  puts such a one behind it; the rest keeps its order (`EditedCode`), so what is
  still to be visited only shrinks (`TurnsPass`).  `EdgesInv` is the inductive
  invariant about the edges.  `OperandsInPlace` by itself is not inductive: an
  operation may be taken out only if its users are known, and `VisitMul` makes
  users get lost.  `Known` and `Truthful` say how far inputs and users disagree,
  `OnceAhead` that an operation that is not yet visited has each operation among
  its users once (so one pass of the loop of `VisitMul` takes them all out), and
  `Ordered` that a settled shift may have its own new distance behind it.  The
  main step is `TurnFacts`: no settled operation uses the one `Run` is at, hence
  no settled product with one explains a user that it lacks, hence
  `ReplaceInputsForUsers` reaches all who use it.  Each edit is then proved for
  edges, code and settled operations given as arguments (`OneGivesWay`,
  `OneMore`, `OneJoined`, `OneRedirected`), and the code is shown to make these
  edits, loop by loop (`CodeGivesWay`, `CodeRedirects`) and visit by visit.
  `DoneInv` adds that nothing is left to simplify at a settled operation (`Done`);
  a visit of another one keeps that because the inputs of settled operations stay
  as they are and because what has users with fixed inputs after the visit had
  such before (`Follows`).  The one thing a visit leaves undone is a joined
  distance that is zero, which `Done` therefore allows when the distance is
  behind its shift and the type narrow.  In a type of the full width it cannot be:
  there `ValueInv`, below, makes it the sum of the two distances, of which that
  of the shift is not zero (`JoinedNotZero`).

  `OperandsStayInPlace`, `LostUsersAreExplained` and `OnePassLeavesNothing` reach
  up to the end of the first run, and the last of them supposes that in a narrow
  type no joined distance is zero.  Beyond that the statements are not true of
  every value of the constants: distances of more bits than a narrow type has, of
  which it takes the low ones only, may add up to zero in the 64 bits of a
  constant.  The first run then leaves a shift by zero, which a second one takes
  out, and an instruction that the first run has dropped from its users keeps it
  as an input.  In the instance there is no such program, and TLC checks all runs.

* **Values** (the rest of `PeepholesProofs`).  `VisitsPreserveValues` says that in
  every run every instruction computes what the one it stands for was built to
  compute.  `ValueInv` is its invariant: each instruction, with the inputs it has,
  computes its `meaning` (`InsnMeans`, in `Sound`); whatever takes its place is
  given the same `meaning`, and users are moved only between instructions of one
  value (`Exchanged`).  That by itself is not inductive, because of joined shifts:
  `x >> a >> b` is `x >> (a + b)` only while `a + b` is not cut off by the type,
  and distances that were joined are joined again.  So the invariant gives every
  instruction a weight, which is at least that of its operands and, for a shift,
  what it shifts and its distance together.  A visit never adds weight, no weight
  is more than `Limit`, one distance for every operation built, and that fits the
  type.  The assumption it takes is that there are fewer operations than
  distances of one less than the width need to add up to 2^width: in the code 138
  million for 32 bits.  The three exceptions of the property are exceptions of `InsnMeans`
  as well (`Excepted`, `Fresh`).

  That one of them is not folded, which would give it any value, takes more:
  `FoldsDefined`.  In the first run it follows from `Fresh`, which says that
  shifts not yet visited are by less than the width (`FirstFoldsDefined`).  In
  later runs nothing is folded at all (`AllFoldsDefined`).  `StableInv` sorts the
  instructions, once the first run is over: constants; values, which include all
  operations of the code and the phi; and the dead, which are in the code no
  more.  The operands of an operation that is a value are not dead and not both
  constants (`Lasting`), which `DoneInv` says of the program the first run
  leaves; and a visit that exchanges operands exchanges them for such of the same
  kind (`ExchangedStable`), so no operation has two constants again.  `DoneInv`
  needs of `ValueInv` that a joined distance is not zero, `ValueInv` needs that
  folds are defined, and `StableInv` starts from `DoneInv`: the three are proved
  by one induction, of `AllInv` (`AllInvariance`).

  Below that is arithmetic, which the provers do only
  step by step: powers of two double (`PowersDouble`, by counting subsets, since
  there is no induction) and add, quotients and rests are unique, every set of
  bits below the width is that of one pattern (`SameBits`, `BitsMake`), so that a
  disjunction is what its bits say and may be cut to a narrower type before or
  after (`BitOrCut`); from these, that each of the three folds gives what the
  operation computes in its type (`FoldMulComputes`, `FoldOrComputes`,
  `FoldAshrComputes`), what is neutral (`Neutral`), and that shifts join
  (`ShiftsJoin`, `SumInType`).

Every safety property that a run checks is a theorem.  Only model-checked is
liveness (`BuildTerminates`, `AnalysisEnds`, `EnumerationEnds`), which is out of
reach of the prover, as is what recursive definitions compute for every input; so
no module under proof declares a RECURSIVE operator (reachability in `Cfg` is the
intersection of the closed sets, and the only RECURSIVE operator is in `MCCfgs`,
for the graphs of the instances).  Theorems with a condition in the place of a
run's instance: `LoopsFound` and what is stated up to the end of the first run.

## Not modelled

* A second `LoopAnalyzer::Run` on one graph: it finds the loops of the first one
  in the blocks, and the root loop of the first, which it replaces, behind some of
  them as their outer loop.
* Checks that take their reference twice: the saved iterator may stand on an
  erased node.  The assertions allow it; nothing in the repository builds one.
* `BasicBlock` phis (`firstPhi_` is never set), inlining (an empty stub), dump
  (text only), memory ownership (`unique_ptr`), macros and tests.

* Operations of different types in one program (`Peepholes` gives all operations
  and operands one), floats beyond small integral values, and branches between
  the blocks of a chain: no visit looks at any of them.

## Plan

Done, in this order: markers with their abstract specification and proofs; the
walks with proofs; dominator tree; loops; instruction list with proofs; def-use
edges; check elimination; constant folding and peepholes; the proofs of the
dominator tree, of the def-use edges, of check elimination, of the latches and
the natural loops, and of the peepholes' edges, values and what one pass leaves.
Open:

1. `CheckElimination`: the two questions its hazards leave open, whether only
   unredundant checks remain, and whether null and bounds checks may stand in
   for each other.  Stale operand fields once a pass that replaces indexes can
   come before it, as a composition with `Peepholes`.
2. A second analysis of one graph, as a composition of passes that share blocks.
