# entttree in TLA+

Models, model-checking runs and machine-checked proofs for entttree, a C++
library that keeps ordered trees of EnTT entities, with transforms and
bounding boxes on top. The modules are read beside the source: every
definition that models code is mapped to its lines in `PROJECT.json`.

- `tlc -config X.cfg M` checks one run, `tlapm M.tla` the proofs of a module.

## The system

| Part | Source | State | Operations |
|---|---|---|---|
| `Position` | `position.h`, `position.cpp` | a string of 8-bit symbols (14 inline, more on the heap), a 16-bit size | `Position()`, `after`, `before`, `between`, `<=>`, `from_bytes`, copy and move |
| `HierarchySystem` | `hierarchy.h`, `hierarchy_types.h` | one `ParentConnection` (parent, position) per child in the registry; `_children`, a sorted vector of (position, entity) per parent | `set_parent`, `unparent`, `set_child_position`, `order_child_before`; queries and generators; signals `on_added`, `on_removed`, `on_changed` |
| `TransformSystem` | `transform_hierarchy.h` | one `LocalTransform` per entity in the registry | `set_transform`, `remove_transform`, with three signals; `object_to_world`, `xf_between`, augmented traversal |
| `BoundsSystem` | `bounding_hierarchy.h` | `IntrinsicBounds` components, `_dirty`, `_computed` | `set_intrinsic_bounds`, `remove_intrinsic_bounds`, `get_computed_bounds`; six signal handlers; point and ray search |
| traversals | `traverse.h` | stacks and queues of generators inside coroutines | `dfs`, `bfs`, adaptors (`map_nodes`, `exclude_if`, ...) |
| generators | `generator.h` | the handle of a coroutine that holds the value yielded last; `_ret`, `_count` | `++`, `*`, `bool`, `count`, moves, destructor |
| helpers | `defs.h` | none | map wrappers, type aliases |

How they interact. `HierarchySystem` calls `Position` for every new place among
siblings and writes each fact twice: to the component and to the list of the
parent. All of its lookups in a list bisect, so they find the right entry only
if the list is sorted and says what the component says. After each mutation it
publishes a signal; EnTT calls the handlers before `publish` returns.
`BoundsSystem` has no other way to know of a change: its handlers, and those it
connects to `TransformSystem`, mark entities dirty from the edited one towards
the root. Queries recompute lazily and recursively through dirty children.

There are no threads, no files and no network: what is hard here is long
sequences of legal calls, two copies of the same fact, caches that are
invalidated by rules, and arithmetic on digit strings.

What makes each part correct:

- `Position`: the order of the strings agrees with the numbers they denote;
  `after` and `before` never wrap and never reach zero; `between` is the exact
  mean and separates any two different numbers.
- `HierarchySystem`: lists and components agree after every call, lists are
  strictly sorted, there is no cycle, a child ends up where the call asked, no
  call disturbs the order of the others, and listeners know the tree.
- `TransformSystem`: all the ways from one node to another are the same motion.
- `BoundsSystem`: whatever is not dirty has the exact box of its subtree, whoever
  else listens to the signals, and every query ends.
- Searches: what contains the point, or meets the ray, is found, however stale the
  boxes were when the search began; nothing else is.
- Walks: each node the filters leave is given once, in the order the walk is named
  for, whatever the client takes out behind it; every walk ends.
- Generators: every coroutine has one owner, and gives its items to that owner
  once and in order, however often it was moved.

## Modules

- `Position`: the operations as operators on sequences of symbols, in a number
  system with `Base` symbols (256 in the code) and sizes modulo `SizeMod`
  (65536). A digit is computed from the digits and carries it depends on
  instead of in a loop over a buffer. `Below` is the order of the numbers:
  the strings `<<1>>` and `<<1, 0>>` are different positions for one number.
- `PositionWalk`: a client that holds two positions and steps one of them, or
  restores one that it had saved (`from_bytes`), so that the properties range over
  the positions a program can build.
- `Hierarchy`: `connection` is the component of each entity (`NoPC` for none),
  `children` is `_children` (the empty list for no entry), `heard` is the tree
  as a listener of the three signals knows it. One action per operation; of
  `set_parent` there are two bodies, `Adopt` for a new parent and `Resettle`
  for the one the child has, because the code deduplicates the position at
  different moments in the two. Positions are a parameter: a set with two
  orders and the ways to make a new one.
- `OrderedForest`: the promise. The state is only the children of each entity in
  order; a step takes one node out of the forest or puts it at one place.
- `MCHierarchy`: `Hierarchy` with the positions of `Position`, as tables.
- `HierarchyProofs`, `PositionProofs`: the proofs about these modules.
- `ListLemmas`: what all proofs use of lists, of lists of lists and of numbers, and induction
  and recursion as statements about sets and functions.
- `Bounds`: the hierarchy only as `parent`, which is what the signals carry
  (`ListenerKnowsParents` is what entitles the model to that); transforms,
  intrinsic bounds, `dirty`, `computed`, and the calls of `_recompute` under way
  as a stack of frames. A box is the set of its points. `Marked` is
  `_dirty_ancestors`: the least set that holds the old marks and the entity,
  and with each newly marked entity its parent.
- `MCBounds`: four points, the corners of a square, with a quarter turn: the
  smallest plane in which a hull adds points and a transform moves all.
- `Reentry`: `Bounds` with each operation cut at its `publish`. What is published and
  not yet heard by `BoundsSystem` is the stack `pending`; between `Begin...` and
  `Deliver` a handler of the client that was connected earlier may edit and query,
  and its own signals are delivered first. `Deliver` is the handler of
  `BoundsSystem`, with the parents the signal carries and the hierarchy as it then is.
- `MCReentry`: two points and the transform that swaps them.
- `BoundsProofs`: the proofs about `Bounds` and `Reentry`.
- `Transforms`: `path`, `ancestors`, `is_ancestor_of`, `deepest_common_ancestor`,
  `object_to_world`, `xf_between` and the transforms that
  `augment_with_transforms` accumulates, as functions of `parent` and `xf`. Each
  climbs in its own way in the code, and does so here; the properties compare
  them with each other and with a definition by closed sets of parents. `x * y`
  does `y` first and then `x`; `x / y` does `x` first and then undoes `y`, as geomc
  defines them.
  Transforms are any group (`GroupAssumption`): what a singular matrix does
  (`node_to_root` divides by it) is outside the model.
- `MCTransforms`: the group of the eight symmetries of a square.
- `TransformsProofs`: the proofs about `Transforms`.
- `Search`: `dfs` over `map_nodes`, `augment_with_transforms`, `augment_with_bounds` and
  `exclude_if`, for a point or a ray, on top of `Bounds`. A level of the stack is
  one chain of generators: it has read one admitted child ahead and keeps copies of
  its boxes and transform (`frames`). Reading a child whose box is dirty pushes a
  recomputation on the stack of `Bounds` and waits for it. Between two results
  the client edits bounds and queries. `steady` and `ever` record which nodes
  were to be found all the time, and at some time.
- `MCSearch`: all trees of `N` nodes in the plane of `MCBounds`.
- `SearchProofs`: the proofs about `Search`.
- `Walk`: `dfs` and `bfs` over the children generators of a hierarchy. `stack` and
  `queue` are those of the walkers; a generator is the slots it will still read
  and the item it has read ahead, so that it goes wrong as iterators do when
  entries move. One action per turn of a loop, `Yield` where the code has
  `co_yield`, `Resume` for the client's `++`, and `Unparent` for a client that
  takes nodes out of the tree between two values. A filter may throw: the
  successor generator that called it then ends early (`Throws`), and `Admitted` is what
  it lets pass. `PreOrder`, `PostOrder` and `LevelOrder` are what the walks should give
  of a finite tree (`NodeAssumption`, `TreesAssumption`: the library makes no cycles).
- `MCWalk`: all ordered trees of five nodes.
- `WalkProofs`: the proofs about `Walk`.
- `Generators`: the objects of `generator.h`, with the frames of the coroutines they
  own. `frame` says of each frame what the coroutine will still give; an object has
  its handle, `_ret` and `_count`, and a `MaybeGenerator` whether its optional is
  engaged. One action per constructor, assignment, `next` and destructor.
- `Stream`: the promise: an object is a stream of items; moves hand it over whole.
- `MCGenerators`, `GeneratorsProofs`: the instance and the proofs.

Definitions marked `mutant` are plausible mistakes in the definition that
follows; replacing one by the other makes TLC find a property violated, which
shows that the property depends on that line of the code.

## Runs

| Run | What it asks | Result |
|---|---|---|
| `position_walk` | all positions built by walks, two at a time | the arithmetic is exact and the order follows it |
| `hierarchy` | all operations, positions passed are free | holds, implements `OrderedForest`; the listener loses a position only by `set_parent` to the same parent |
| `hierarchy_reuse` | `set_parent` with an occupied position | no: component and list disagree |
| `bounds_exact` | edits and partial queries in any order | what is clean is exact, under the discipline below |
| `bounds_moves` | the same without the discipline on moves | no: a clean parent misses a dirty child moved below it |
| `bounds_leaves` | the same without the discipline on leaves | no: an outdated cache entry survives |
| `reentry` | handlers that edit and query inside `publish` | when the outermost call returns, marks reach the root and what is clean is exact |
| `search` | point and ray searches while the client edits and queries | everything that was there is found, nothing else, and the search ends |
| `transforms` | the loops that climb the parents, in all forests | they agree; all ways to compose transforms are the same motion |
| `walk_orders` | every walker, sibling order and filter, on all small trees, while the client removes nodes it was given | the walks give exactly what their order says, and end |
| `walk_removals` | may any child be removed during backward iteration, as hierarchy.h:347 says? | no: one removed before it is given makes another be given twice |
| `generators` | objects made, advanced, moved and destroyed in any order | every frame has one owner; each object gives one coroutine's items in order, once |

The constants `Reuse`, `Resettling`, `DirtyMoves`, `DirtyLeaves`, `RemoveUnseen`,
`EditsRemoved` and `ReuseFinished` say which calls clients make. The passing runs
leave out just the calls that break the property, so that passing and violated runs
together delimit what the code promises:

- `Reuse = FALSE`: positions passed to `set_parent` and `set_child_position` are free. With
  occupied ones the first leaves the component wrong (`hierarchy_reuse`); the second does not
  deduplicate at all (hierarchy.h:203) and puts the child before the sibling whatever their ids,
  so that a later `unparent` of the sibling, which bisects with the ids, can erase the wrong entry.
- `DirtyMoves = DirtyLeaves = FALSE`: a child is reparented only if it is clean or its
  new parent is dirty, and a dirty leaf without bounds is unparented only if it
  has no cache entry (`bounds_moves`, `bounds_leaves`). A client keeps this
  discipline by asking for the bounds of the child first.
- `RemoveUnseen = FALSE`: only nodes given already are taken out (`walk_removals`).
- `EditsRemoved = FALSE`: a handler of `on_removed` does not edit the entity that is
  just being unparented. If it parents it again and removes its bounds, `_on_child_removed` of
  the outer call erases the mark and keeps the box, as in `bounds_leaves`.
- `ReuseFinished = FALSE`: nobody assigns to a finished generator. `operator=` replaces
  the handle and leaves `_ret` and `_count` (generator.h:92-98), so that such a generator
  says `is_finished()` (148) and goes on giving values.

`walk_removals` is a violation of what a doc promises to all clients. Where a doc and the code
differ and no run shows it, the properties beside it do not take the side of the code:
`QueriesAgree` says that `ancestors` omits nobody who has a parent and leaves open whether the
root is given; `MeanSeparates` is the doc of `between` for different numbers; `MissesNothing`
counts the loss by an exception in, and says only that nothing more is lost.

Beyond the listed findings, reading the code against its comments showed:

- A default position is 1/512 and not the midpoint (position.h:25, 63).
- `between` of two strings that differ by trailing zeros is not strictly between them
  (position.h:84): of `<<0, 128>>` and `<<0, 128, 0>>` it sorts after both.
- `between` grows the string at every call, because the test at position.cpp:188 is always
  true on promoted integers (position.h:22, 85); at 65536 symbols the size wraps, although
  digits are said to be unlimited (position.h:16).
- `set_parent` to the same parent publishes and returns the position passed and not the
  deduplicated one (hierarchy.h:72, 152, 161); `order_child_before` returns the current
  position when nothing changes (hierarchy.h:230, 257).
- `ancestors` ends with the child of the root and never yields the root with a null parent
  (hierarchy.h:374-377, 383; roots have no `ParentConnection`, 28).
- `search_along_ray` also yields nodes without a box, which the doc of `traverse_along_ray`
  (bounding_hierarchy.h:278-280) allows and its own (306) does not mention.
- `Generator::count` counts resumptions and not values, and `is_finished` of an empty
  generator is false until it is resumed (generator.h:145-149).
- An exception in a coroutine is swallowed (generator.h:65), so that a filter that throws on
  one child hides the siblings after it, although `exclude_if` visits all that it admits
  (traverse.h:258). The promise then has no return value, from which `_maybe_finish` moves all
  the same (104): of the empty type that generators return here nothing is read, and it is
  modelled as finishing.
- The move of a `FixedItemGenerator` is a copy.

### Bounds, and why they are enough

- Positions: `Base = 4`, `SizeMod = 5`. Four symbols are the fewest in which a
  symbol has a middle, a bit shifted out and a carry that differ from each other;
  strings that operations grow from up to three symbols (`MaxBytes`) have carries and borrows
  through several symbols and operands of all length differences. Where the wrapped size leaves
  the empty string the walk ends, hence `CHECK_DEADLOCK FALSE`.
- Hierarchy: four entities, one-bit symbols, at most three of them; an operation
  whose new position would need more is disabled, and the proofs do not depend
  on that bound. Three siblings give a first, a middle and a last; four
  entities give a chain deep enough for a cycle that a shallow test misses.
  No symmetry: entity ids break ties.
- Bounds: three entities (a chain, or two siblings, or a tree and a node to move),
  one box, one transform; entities are symmetric.
- Reentry: three entities on a line of two points, one transform at a time
  (`MaxTurned`), an operation within the signal of another (`MaxPending = 2`). Deeper
  nesting would repeat this step, since inner signals are delivered first; it is not checked.
- Search: all trees of three nodes, four points and one ray in the corners of a
  square, two edits by the client (`MaxEdits`), any number of its queries. Three nodes
  give a dirty box below a dirty box, and a sibling that was read before the edit. The
  search ends, hence `CHECK_DEADLOCK FALSE`. The trees are numbered: no symmetry.
- Transforms: five entities, enough for two branches of unequal length below a
  common ancestor that is not the root, and an unrelated node. The symmetries of a square
  do not commute and are not all their own inverses, so order and direction show.
- Walks: five nodes, of which one may be filtered, or make the filter throw. That is
  enough for a node with siblings on both sides whose own children have siblings. The walk ends, hence `CHECK_DEADLOCK FALSE`.
- Generators: three objects and frames, so that a move can have a source, a target
  that owns a frame and a bystander; coroutines of up to three of two items, so that
  order and multiplicity show; `_count` up to two (`MaxCount`), which lets each
  coroutine come to its last item. Objects, frames and items are symmetric.

### Fairness

`Walk` and `Search` have weak fairness: of the turns of a coroutine that was resumed,
and of the steps of a recomputation that has begun. The code runs both in one thread
and waits for nothing, so the next step is always taken. Nothing obliges clients to
call anything, edits and queries included; `WalksEnd` and `SearchesEnd` are stated for
clients that always ask for the next node. That a recomputation ends is part of
`SearchesEnd`: a search waits for those it causes. `Reentry` and `Generators` have safety
properties only.

## Proofs

What TLC shows on small instances the theorems show for any set of entities and
any positions, boxes and transforms that satisfy the named assumptions of the modules.

Forests and digit strings have any depth and length, so most of these theorems need
induction, or say what a recursive function computes. `ListLemmas` states both
without an operator as a parameter, which the provers could not instantiate:
`NumbersBySteps` is induction over a set of numbers; `Grounded` says of a relation that every
nonempty set has a member with nothing of the set before it; and `RecursionHasSolution`,
that a definition which looks only at what comes before (`LooksDown`) has a solution. A
lemma named `...Equation` then derives from it that a `LET f[x \in S] == ...` of a model
satisfies its own equation.

`HierarchyProofs`:

- `TypeCorrect`. `TypeOK` is inductive; most of the work is that bisection returns
  an index in range (`FirstIndex` of `ListLemmas`) and that insertion, removal and
  rotation keep a list of entries a list of entries.
- `ListenerInformed`. Every operation publishes the parent it stores, whatever it
  does with the position.
- `NoCycles`. Ancestors are characterised by the sets closed under taking
  parents, which avoids induction over paths: a set that shows that `p` does not
  climb to `c` is still closed after `c` was put under `p`.
- `CacheStaysCoherent` and `ListsStaySorted`, for clients that pass free positions
  (`Reuse = FALSE`). Neither is inductive alone: bisection finds the entry
  of a child only in a sorted list that says what the component says, and the
  list stays sorted only if the right entry was moved. The inductive invariant
  (`SafeInv`) is their conjunction with the type and with "a child is listed once"; each
  action has a step of its own, which shows that the entries around the
  insertion point leave room for the new position.
- `SeenAsForest`, for the same clients: `Hierarchy` implements `OrderedForest`. The lists
  before and after a call are compared with the child taken out of both (`Bare`); with that
  and the place where it then is, each call is one step of the forest or none.
- `ChildrenPlacedAsAsked` and `LosesOnlyByResettling`, action properties from the same
  invariant: at the end a new position is above all others because `after` of the last
  one is, and before a sibling because `between` lands in the gap that bisection finds.

`PositionProofs`, for any even base and any width of the size:

- `PositionTypeCorrect` and `NumbersArePositive`. The invariant is that both positions held
  are strings of symbols whose size fits, with a digit that is not zero.
- `AfterIsNext`, `BeforeIsNext`, `BetweenIsMean`, `BetweenSeparates`, `OrderIsSound`: what
  carries, borrows and halvings do to each digit is summed up to the number of the string, by
  induction over the digits.
- `PositionsOrderSiblings`: the operations satisfy what `OrderAssumption` and
  `StepAssumption` say of positions, on which `HierarchyProofs` rests. The set of positions
  must not contain one of the maximal size: there the 16 bits of the size wrap.

`BoundsProofs`:

- `TypeCorrect`. `TypeOK` is inductive together with "intrinsic bounds are boxes".
- `DirtinessReachesRoot` and `CacheFits`, for clients that keep the discipline
  (`DirtyMoves = DirtyLeaves = FALSE`; the violations show that each half is
  needed). A recomputation stores a right box only if its frame was right all
  along, so the invariant says of every call under way that its entity is dirty,
  that the children it is done with are clean, and that its box is the box over
  them. That survives a return one level down because no two calls work on one
  entity: the recursion descends, and the invariant carries a set of ancestors of
  the query's entity, closed under parents, that no call is in. The set comes from
  the acyclicity of the hierarchy, by the same argument as in `HierarchyProofs`.
  Of `_dirty_ancestors` only this is used: it marks the entity it is given, and with
  every entity it marks anew also the parent.
- `CacheIsExact`, for the same clients: caches that fit those of the children are right all
  the way down. Needed for that: every set of entities has one without a child in it
  (`BottomedOut`), which every operation keeps although it moves whole subtrees.

`HullAssumption` is what the proofs take of boxes: the box around a box and a set
is the box around the points of both. TLC evaluates it for the plane of `MCBounds`.

Also in `BoundsProofs`, about `Reentry`: `ReentryTypeCorrect`, and for handlers that keep the discipline
(`EditsRemoved = FALSE` besides the two above) `ReentryDirtiness` and `ReentryExact`. While
signals are under way neither holds, so the invariant says where it may fail: a mark
is missing only above an entity where a pending signal will start to mark (`Awaited`), and a
box is outdated only there or where a child was just moved to (`MovedUnder`). Delivery order
matters in one place, the mark that an unparenting drops: what was unparented is left alone
by all signals published since (`CutsStay`).

`GeneratorsProofs`:

- `TypeCorrect` and `OneOwner`. Neither is inductive alone: that a frame that is
  resumed holds items needs that no owner has a destroyed frame; and that moves hand
  over one handle needs that a `MaybeGenerator` without a generator has none
  (`Tidy`). The proof maps every step to one of three moves of ownership: a free
  frame is taken, a frame is destroyed while its owner gets that of another object
  (or none), or nothing changes hands. Each has a lemma over arbitrary functions.
- `Finality`, from the same invariant, for clients that do not assign to finished
  generators (`ReuseFinished = FALSE`).
- `GivesEachOnce`: `Generators` implements `Stream`, because the items of an object are
  those of the frame that only it owns.

`TransformsProofs`. Clients make no cycles, so every set of entities has one whose
parent is outside (`Climbs`); this is inductive, since those of the set that are not below the
child that is moved have such a one already. From it follow induction from the roots down
(`FromRootsDown`) and the equations of the loops:

- `TransformsTypeCorrect`, `LoopsSeeTheSameNodes`.
- `DeepestIsDeepest`: the beginning of a path up to a node is the path of that node
  (`PathOfNode`), so that paths with a node in common agree up to there.
- `BetweenIsOverTheWorld` and `TraversalFindsBetween`, for any group of transforms: the product
  along a path can be taken in two parts (`ChainSplits`), and the part that two paths share
  cancels.

`SearchProofs`: `SearchTypeCorrect`, `SearchFindsAll` and `SearchFindsOnly`, for finite forests
without cycles (`EntitiesAssumption`, `ForestsAssumption`), any points, boxes and transforms, and
any number of edits. The invariant (`SearchInv`) says three things.

- The bounds (`Ground`): nobody moves entities, so what is clean is exact for every client, whatever
  `DirtyMoves` and `DirtyLeaves` are. Then a box that is not touched has nothing below it to be found
  (`NothingBelow`): whoever touches the box of a subtree touches that of the subtree around it,
  seen from there.
- The copies (`Judged`): each that the stack holds would let its node through if that still is to be
  found, and lets through no node that never was. Edits shrink `steady` and let `ever` grow, so
  copies made before them stay right.
- The stack (`Complete`): what is to be found and was not yet is below a child that some frame has not
  read, below the item of one, or is the own node of one that will still be given (`Due`). A child
  that a filter drops takes nothing along, by the first two.

`WalkProofs`, for all finite trees, whatever the filters admit, explore and throw on:

- `WalkTypeCorrect`, for all clients.
- `WalkKeepsItsPlaces` and `WalkGivesNoneTwice`, for clients that remove only what they were
  given (`RemoveUnseen = FALSE`; `walk_removals` shows that they need to). The invariant (`Shape`)
  says of `dfs` what its path looks like (`DepthOf`): each generator is at one place of the line
  of its node's children, as the tree had them when the walk began, and its slots are the rest of
  that line; nothing in that rest was come to (`AheadIsNew`), no node was come to before its
  parent, and a node not come to has all its children. So a removed child stands in the list
  behind all that a backward generator will read, and a new generator finds a whole list. Of `bfs`
  it says that no node is given or queued twice, and none before its parent is given (`BreadthOf`).
- `WalkYieldsInOrder` and `WalkMissesNothing`, for the same clients. What `dfs` gave, with
  what the generators of its path still have (`Coming`) and all below that, is always the whole
  order (`DepthOrder`); what `bfs` gave and queued is the root and the successors of what it gave,
  and any list of which the same is true goes on from there (`BreadthOrder`). `PreOrder` and
  `PostOrder` satisfy their equations because the tree is grounded (`RecursionHasSolution`), and
  `LevelOrder` its own because there are no more levels than nodes (`LevelsEnd`): a set of
  nodes with `k` generations below them loses a member with each `k`.

Every safety property of the runs that pass is proved. Left to TLC is liveness (`WalksEnd`,
`SearchesEnd`), which is out of the prover's reach: it needs ENABLED. Model-checked only are
also the properties of the four runs that end in a violation, where they fail.

## Not modelled

- The storage of positions (inline or heap), memory safety at a wrapped size, hashing,
  `from_bytes` of strings that denote no number between 0 and 1.
- What a handler that changes a list does to the iterators that `set_parent` and
  `order_child_before` hold into it: memory safety. Entities destroyed in the
  registry without `unparent`: the library does not handle them.
- Transforms edited, and nodes moved, during a search; additions during a walk, which
  the code excludes.
- Several systems on one registry: they share no state but the components of
  their own tags.
- Floating point: boxes and transforms are exact here.
- `inductive_transform`, which no other part uses. `defs.h` has no state, and the build
  files no behaviour.

## Plan

1. Done: all modules above, and the theorems above.
2. Left: `inductive_transform`; transforms edited, and nodes moved, during a search.
