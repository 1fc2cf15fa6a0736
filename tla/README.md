# EverydayTools: specifications, model checking and proofs

`edt` is a header-only C++ library: everything lives in
`src/modules/edt/code/public/edt/`, the unit tests in
`src/modules/edt_tests/code/private/`. This directory holds TLA+ models of the
parts that keep state or compute something delicate, the TLC configurations that
check them, and TLAPS proofs about the most important ones.

    tlc -config pool.cfg BatchThreadPool        # model-check one run
    tlapm BatchThreadPoolProofs.tla             # check the proofs of one module

`PROJECT.json` relates every definition to the lines it models, every property to
a mutant of the model that breaks it, and every hazard to the properties about it.

## 1. Inventory

The library is a set of components that hardly refer to one another; only the
bitsets share code, flag sets use the lists of values, `GUID` uses two text helpers,
and matrices are used by the geometry. What interacts is each component with its client: threads that run
through it, callbacks that call back into it, objects it points to and does not
own.

| Component (file) | State | Operations | What is hard | What makes it correct |
|---|---|---|---|---|
| `BatchThreadPool` (threading) | a `std::barrier`, a vector of `jthread`s with their stop sources, two plain fields | constructor, `RunBatch`, destructor, `ThreadEntry` | threads over one barrier used for two purposes, unsynchronised fields, shutdown, a spawn that fails | fork-join: each worker runs each batch once and `RunBatch` waits for all of them; no race; shutdown terminates |
| `Observable` | a sorted vector of pointers | `Subscribe`, `Unsubscribe`, `ForEachListener` | callbacks that change the vector being walked, failing calls | a set of listeners; every event reaches each member once |
| `IntrusivePtr` (pointer) | a raw pointer; a count in each object | constructors, assignments, `reset`, `swap`, destructor | releases that cascade through objects holding pointers, destructors that call pointer operations themselves, aliasing of source and target | count = number of pointers; no use after destruction; only cycles leak |
| `GetTypeId`, `TaggedIdentifier` (template) | an atomic counter per tag, a guarded static per type | `GetTypeId` | threads racing to the first call, wrap-around | one stable, valid id per type |
| `BitsetAdapter`, `IntIf`, `SwapIf` (bitset, branchless) | words it views | `Get`, `Set`, `SetRange` and its derivatives, `ForEachBit` | masks and shifts at word boundaries; callbacks that change the bits under the walk | the words are one flat bitset; the walk is in order, without repetition or omission |
| `BitIterator` | a pointer to a word, the bits reported | `Next` | the word changes between calls | as above |
| `DynamicBitset` | words and a size | `Resize`, `Clear`, `Set`, `SetRange` | stale bits behind the end, failing allocation | a vector of Booleans |
| `FixedBitset` | an array of words of a computed type | `Set`, `SetRange`, `Fill` | choice of the type; slack in the last word | no waste; slack stays zero |
| `OnScopeLeave` (functional) | a callback and a flag | creation, move, destruction | guards moved around | the callback runs exactly once, in reverse order of creation |
| `Delegate` | an object pointer and a thunk | `Bind`, `Reset`, `Invoke`, copies | re-entrance; an erased type | a call runs the target bound last, on an object of its class |
| `CallAndRethrow`, `PrintException`, `ThrowIfFailed` (exception) | the exceptions nested in flight | calls nested in one another | failure at any depth | the whole context is printed, once and in order |
| Flag sets (`enum_bitset`, `bitset_utilities`) | a value of an enumeration | bitwise operators, `FlagIsSet`, `FlagsToBitset`, filters | promotion to `int`, the sign bit | operations of sets |
| Compile-time lists (`TypesList`, `ValuesList`) | none | filter, map, search, append, indexing | searches that fail, an empty list | they decompose a set of flags and put it together again |
| `Signature`, `WorstQualifiers`, `WorstReference` (template) | none | what a pointer to function or member is; the worst of a pack | inheritance of members, order of specializations | the type computed says what was written |
| `StaticFor`, `CallForEachArg`, `WrapFunction`, `MeasureTime`, `ArrayIndices2d` | none | they call a function | a call that throws, sizes whose product wraps | as many calls as asked for, in order |
| `GUID` with `ToLower`, `HexToDec` | two 64-bit parts | `ToCharArray`, `Create` | two hand-written tables, texts of the wrong length | formatting and parsing are inverse |
| `Matrix` (math) | row-major elements | constructors, arithmetic, products, rows and columns | aliased operands, shapes, unsigned wrap-around | algebraic laws |
| `CheckedCast`, `ClampToAnotherTypeBounds`, `IntRange`, `IntRange2D` | a range | conversion, `Split`, extents | signs, widths, overflow | no value is changed, lost or doubled |
| `FloatRange`, `FloatRange2D`, `AlmostEqual` | a closed rectangle | movement, enlargement, `Clamp`, `Uniform` | extents that overflow to infinity, NaN | what is clamped is the nearest contained point |
| `Math`, `Rotator`, `Transform` (math) | angles, translation, scale | `SinCos`, matrices of transforms, complex powers | folding of angles, products written out by hand | order of composition; rotations keep lengths and handedness |
| Points of `Math` and `surface_points` | a vector that is reused | curves, spirals, spheres, hearts | counts, rounding of a root, ends of segments | as many points as asked for, through the control points |
| `FrameRateCounter` | a ring of ticks and its sum | `CalcAverageTick`, `SetDesiredFps` | an incremental sum, re-sizing | the average of the last window |
| `BubbleSort`, `InsertionSort` (algorithm/sort) | loop indices | - | bounds of the inner loops | a stable sort by adjacent swaps that terminates |
| Aliases, sizes, macros, other template helpers | none | - | - | not modelled; see section 7 |

## 2. Modules

**Core.**

- `ForkJoin` - what the pool promises: open a batch, every worker runs it, return.
  `BatchThreadPool` - the code: a step is one access to a shared field or one
  arrival at or wake-up from the barrier (`FirstArrive`/`FirstWake`, `StartArrive`/
  `StartWake`, ...). The barrier is the set of threads that have arrived in its
  current phase. The constructor's spawns, their failure and the unwinding of
  the members, the loop of stop requests and the joins are separate steps.
- `SubscriberSet` - the set of listeners. `Observable` - a buffer with a capacity,
  a size and what is left behind the size, so that iterators of a walk can be
  inside it, past the vector's new end, or dangling after a reallocation
  (`event = "invalid"`). Calls from callbacks interleave with the walk.
- `IntrusivePtr` - pointers of the client and one inside each object. An operation
  that can release is a list of parts in `todo` (`Release`, `Copy`, `Move`,
  `SetToNull`, `Gone`, `Free`), in the order of the statements of `ReleaseReference`,
  `CopyFrom` and `MoveFrom`; destroying an object puts the release of its own
  pointer in front. With `Reentrant`, the destructor of a client's object has a body
  first (`Do("body")`, until `BodyReturns`), which may call any operation on a pointer that is
  not in the middle of one, the client's obligations being `SourceSurvives` and
  `KeepsOperands`: nothing takes over the reference an operation in progress is about
  to release, nor rebinds what it works on.
- `TaggedTypeId` - the guard of the function-local static (`EnterInitialiser`,
  `SkipInitialiser`), `fetch_add` on a counter that wraps, and the store.

**Bitsets.** `BitWords` has the functions on words: a word is the set of positions
of its one-bits, shifts mask their amount and discard as the code does. On top of
it `BitsetAdapter` (with the walk), `BitIterator`, `FixedBitset`, and `DynamicBitset`,
which implements `BitVector`. `FlagSets` has the enumerations that are sets of
flags, as numbers in two's complement which are promoted and cast back; the filters and
maps it applies are those of `TypesList`, where lists of types and of values are
sequences. `Bitsets` composes them.

**Callables.** `OnScopeLeave`, `Delegate` (implementing `BoundTarget`, which also records the requests) and
`NestedExceptions`; `Signature`, where a pointer is a record of how it was declared and a
specialization the set of pointers it matches and the members it declares or inherits;
`WorstReference`, where a type is what it decays to, its qualifiers and its reference; and
`CallHelpers`, whose calls return or throw and take time. They are composed in `Callables`
(constants for TLC in `MCCallables`).

**Values.** `Guid` (formatted, put in braces, its case changed, cut short and parsed),
`IntTypes` (bounds and conversions of integer types), `IntegerConversions`, `IntRange`,
`FloatRange`, `Matrix`, `Transforms`, `PointSequences`, `FrameRateCounter`, `BubbleSort` and
`InsertionSort` (both implementing `AdjacentSort`), composed in `Values`
(constants for TLC in `MCValues`).

Floating-point numbers are abstracted by what each module asks of them. In `FloatRange`
they are whole numbers, two infinities and NaN, so that overflow and comparison
are those of IEEE 754. In `Transforms` they are residues modulo 17, where 3 squared is one
half: sines and cosines of multiples of 45 degrees exist there, satisfy every
algebraic law the real ones satisfy, and are exact; a wrong sign, order or fold
shows, an error of approximation does not. In `PointSequences` points of a curve are
numerators over a common denominator, and points of a surface are what distinguishes them
from one another - on a heart, where the first point of every row is the top, the
row and the place in it elsewhere.

Each composition chooses its component in the initial state: the components have
no state in common, so nothing is learnt from interleaving them, and the product
of their states would hide how small each one is.

**Proofs.** `BatchThreadPoolProofs`, `ObservableProofs`, `IntrusivePtrProofs`, `TaggedTypeIdProofs`;
`BitWordsProofs`, the functions on words, under `BitsetProofs`; `CallablesProofs` and `ValuesProofs`.

Mutants - definitions named `<definition>_<what is wrong>` just before the definition
they vary - are plausible mistakes. Nothing uses them but the check that each
property notices one.

## 3. Runs

| Run | Question | Bounds |
|---|---|---|
| `pool` | Is the pool a fork-join service, and free of races? Do `RunBatch` and the destructor return? | 3 workers, 3 batches, spawns may fail; 3146 states |
| `pool_spawn_failure` | Does every worker that is asked to stop leave? **No** (finding 1). | 2 workers |
| `observable` | Is the vector a set, and does each event reach each member once? | 4 listeners: the vector grows three times |
| `observable_reentrant` | What survives callbacks that subscribe and unsubscribe? The order and the bounds of the walk do. | 3 listeners |
| `observable_reentrant_event` | Does each event still reach each member once? **No** (finding 2). | 3 listeners |
| `intrusive_ptr` | Are counts right at every step, is nothing used after its destruction, do only cycles leak, does every cascade end? | 3 objects, 2 pointers of the client: chains, shared tails and cycles of each length to 3; destructors with bodies; 254 918 states |
| `intrusive_ptr_aliasing` | Also when the source is in the object released? **No** (finding 3). | 2 objects |
| `on_scope_leave_moved_again` | May a guard be moved from twice? **No** (finding 4). | 1 callback |
| `type_id` | Does every type get one valid id of its own, and does every call return? | 3 threads, 2 types, exactly one value more than needed |
| `bitsets` | Do words behave as flat bits, under every range and under walks? Does growing after shrinking read right? Are flags sets? | see below; 21 467 states |
| `callables` | Do callbacks run once, in order, on their own objects, are failures reported whole, types read back, and do helpers call what they were asked to? | 3 callbacks in 4 guards; 2 delegates, 2 classes, calls 2 deep; 4 nested calls; every pointer to a member of 2 classes; packs of 3 types; loops over 6 pairs; 32 999 states |
| `values` | Do conversions, tables, products, transforms, generated points, averages and sorts agree with independent definitions? | every value of types of 2, 3 and 5 bits; every nibble of a GUID; 3 shapes; all multiples of 45 degrees about each axis; curves of 5 points; up to 60 points on a surface; windows of 1, 3 and 4; every array of 4 elements with 3 keys; 36 190 states |

Why these bounds are enough:

- *Pool.* A phase of the barrier can overlap with the next one only, and a worker can
  be at most one rendezvous behind the owner; three batches make every pair of
  neighbouring phases happen in every position (first, middle, last before the
  destructor). Three workers allow one to be last, one to be late to wake and one to be
  in between. The proofs hold for any number of both.
- *Observable.* Four insertions go through the capacities 1, 2 and 4, with and
  without reallocation; three listeners are enough to have one before, at and behind
  the position of a walk.
- *IntrusivePtr.* A release can destroy, cascade, stop at a shared object, and meet a cycle; a
  destructor's body can release a second object whose destructor has a body too, and a third.
- *Bitsets.* Two bits per word make a range begin and end at every offset, and four words
  let it be inside one word, across two, and over words between its ends; the walk needs
  a word behind it and one ahead. `FixedBitset` has eleven bits in words of four, so
  slack, and `SlackStaysZero` also evaluates the choice of the part's type for all bit counts
  up to twice the widest word. Enumerations of three and four bits, where `int` has four, are
  of both kinds: promoted, and as wide as `int`.
- *Callables.* The helpers' sizes have eight values, so that products of three by three wrap
  and smaller ones do not; zero is among them.
- *Values.* A width of 2 against 5 has every relation of the bounds of two types. With
  a type as wide as `int`, overflow is undefined and every outcome is explored; with
  a narrower one it wraps. Each nibble of a GUID is its own row of a table, so one varying
  nibble at a time, on two backgrounds, tells all rows apart; the lengths are the ends of the texts
  the code treats differently. Angles beyond a full turn, on either side, are reached by
  adding; sixty points pass seven square numbers and both ways to round a root next to them.

Deadlock is checked in `observable`, `intrusive_ptr`, `type_id` and `bitsets`. It is
not in `pool`, where the destroyed pool has no next step and the failed constructor
hangs; in `callables` and `values`, where callbacks are used up and functions return;
nor in the runs that reach undefined behaviour, where the model stops.

Properties are stated where a reader of the code would look for trouble, and not as
restatements of the steps. `ImplementsForkJoin`, `ImplementsSubscriberSet`,
`ImplementsBitVector`, `HoldsOneTarget` and `SortsByAdjacentSwaps` are refinements: the mapping is
in the module of the implementation. The ghost variables they and other properties
need are `executed` and `batch` (pool), `audience` and `heard` (observable),
`steady`, `ever` and `visited` (walk), `kept` and `returned` (iterator), `context` (exceptions), `made` (call helpers),
`stage` (GUID), `whole` (ranges) and `fed` (frame rates).

Several properties state one promise in parts. `CallsReturn` says of the pool that `RunBatch` and the
destructor both come to an end; `GuardsUndoOnce` that guards run once and last first, with a mutant for each;
`TransformsCompose` has `RotatesInOrder`, `ScalesRotatesMoves` and `PowersRotate`; `RoundTrip` compares with a
layout of the text written down independently of both tables, too.

## 4. Fairness

- `BatchThreadPool!Fairness`: weak fairness of each thread's next step. It stands for the
  operating system scheduling every thread, for the barrier waking those it has
  released, and for callbacks that return. The choice to run another batch or to destroy
  the pool is the client's and is not fair.
- `IntrusivePtr`: an operation that has begun goes on, and the body of a destructor returns;
  clients may stop calling.
- `TaggedTypeId`: a thread inside `GetTypeId` runs; calling it is not fair.
- `Values`: the loops of the sorting functions go on, since nothing in them waits.

## 5. Proofs

All of them are about every value of the constants, from the assumptions named.

**`BatchThreadPoolProofs`** (from `PoolAssumption`: the thread count fits `int32_t`
after adding one). `IndInv` cuts time in three: `Gathering`, when threads arrive for the first
rendezvous of an iteration; `SecondHalf`, from the completion of the first to that of the
second; and `Leaving`, after the destructor's arrival completed the last one. In each part
it says which of its statements a thread can be at, whether it has arrived, and how
many batches it has completed. The safety properties alone are not inductive: that a worker
which has just woken from the first rendezvous may be behind the owner, but never by a whole
iteration, is visible only in the set of arrivals. `ArriveEffect`
and `LastArrival` reduce the barrier's counting to "everyone but me has arrived", after which
each action preserves the part it is in or completes it. From the
invariant follow `CallsAreOfTheOpenBatch`, `BatchesAreJoined`, `FieldsDoNotRace`,
`StopIsSeenAfterArrival`, `DestroyedLast` and, step by step, `PoolImplementsForkJoin`
(for the safety part of both specifications).

**`ObservableProofs`** (from `ObservableAssumption`). The inductive invariant is that the
vector is a strictly sorted sequence of listeners and that a walk whose buffer is still
the vector's stays inside it. `LowerBoundSplits` proves by cardinalities that
`lower_bound` separates smaller from other elements; `InsertKeepsOrder` and
`EraseKeepsOrder` use it. `AlwaysSorted` holds with re-entrant callbacks too. For callbacks that
leave the vector alone (`Reentrant = FALSE`; run `observable_reentrant_event` shows that
the others break it) `Undisturbed` adds that the walk is over the vector it started on and
that those who heard are its first elements. It is not in `IndInv`, because it is exactly
what an insertion from a callback destroys. From it follow `EveryoneHearsOnce` and,
with `InsertAdds`, `EraseRemoves` and `CallsTheNext` for the steps, `ObservableImplementsSet`.

**`IntrusivePtrProofs`** (from `PtrAssumption`: finitely many objects and pointers, and `Aliasing = FALSE`,
without which `intrusive_ptr_aliasing` refutes the results). That counts are right does not
survive a step by itself: in the middle of an operation some addresses are still in pointers whose
reference is gone, and an operation may begin in the destructor of an object that another operation
destroys. The invariant therefore has three layers. `Ordered` and `Apart` say how
operations nest in `todo`: which part follows which, and that no pointer is named by two of them, but by an
operation and the destructor that called it. `Counted` is `CountsPointers` for `View`, the pointers that exist
and are not spent, and says which objects may have a count of zero: those being
destroyed. `OperandsStay` and `OthersStay` are what the client's obligations come to: without the target of the
innermost operation, its operands are still held by something, and so is whatever the operations around it
will go on with. The last two are stated with reachability, which `IntrusivePtr` defines as a least fixed
point (`Reach`: in every closed set), so that what holds of it needs no recursion (`HeldStep`, `HeldAgree`,
`HeldMore`, `HeldWithoutOwn`). `Good` takes the state as parameters: a lemma about it (`GoodRelease`, `GoodDestroy`,
`GoodMove`, ...) is about values, and each action is one of them with the next state filled in.
`CountsAreExact` and `NothingDestroyedIsUsed` follow; `MovedReferenceIsCounted` is the property finding 3
violates, which holds when the client keeps its side. `LeaksAreCycles` adds a counting argument
(`PointedToBySome`): if each of finitely many objects is pointed to by one of them, each of them points to
one of them.

**`TaggedTypeIdProofs`** (from `EnoughIds`: more values than types). One thread at most
initialises a type's static, ids drawn are distinct and below the counter,
and the counter is the number of types that have drawn one, hence it has not wrapped:
`TypesHaveTheirOwnIds`.

**`BitWordsProofs`** (from `WordAssumption`: words have a bit). For all word widths,
numbers of words and ranges, `WordRangeAssigns` and `RangesAssignFlatly` show that
the masks, shifts and loops of `SetRange` assign exactly the bits of the range, by
comparing positions as pairs of word and bit (`PlaceOrder`).

**`BitsetProofs`** (from `BitsetsAssumption`). One part for each bitset in `Bitsets`:

- *The view.* `EveryRangeIsFlat`: `Set` is the range of one bit (`SetIsRange`), a mask of the first word is a
  set of flat bits as it is (`MaskAssigns`), the rest are ranges inside the words (`WideEnds`).
- *The iterator.* `EveryBitOnce`, whatever is written to the word between the calls: the bits
  behind the iterator are those up to the last one returned, and no bit that stayed set is
  among them without having been returned (`IndInv` of `BitIterator`). That a set of naturals has a least
  member is from the library's theorem on well-founded relations.
- *The walk.* `WalksVisitTheSetBits`, whatever the callback does to any word: `WalkInv` follows the position and
  the copy of the word the walk took when it came to it. A bit that was set all along is behind the position and
  visited, in the rest of the copy, or in a word ahead; a bit in the copy was set at some time,
  though it may not be any more.
- *The vector.* `DynamicImplementsVector`: every operation, failed allocations included, is one of
  `BitVector`'s. The words hold the size (`DynamicInv`) and say nothing of the bits behind it, which may be stale:
  growing reads right because it overwrites them (`ResizedReads`).
- *The slack.* `NoOperationSetsTheSlack`: the part chosen is the widest of those that waste no byte
  (`BestPart`, `CeilDivIsLeast`), so the bits fit into the words and no range of them reaches the slack
  (`FixedRange`). The lemmas on words are those of `BitWordsProofs` again, for the width that was chosen.
- *Flags.* `EnumerationsAreSets`, for any width of `int` and of the underlying types, signed or not. A number is
  the sum of the powers at its ones (`ValuesFromDigits`) and its ones can be read off it, whatever
  turns of two to the width a conversion has added (`DigitsOfTurns`); so the `CHOOSE` that inverts `Ones` has
  one candidate. Promotion extends the sign (`SignIsExtended`), the operators work on the promoted ones, and
  casting back cuts them: what is left is the operation on sets (`FlagInv`). The filters list the chosen in the
  order of the list (`Filtered`), and `IndexOfIs` and `FlagsToBitsetIs` put together what they took apart.
  `FlagsAssumption` says of each power of two that it is twice the one before, as that of `Conversions` does.

**`CallablesProofs`** (from `CallablesAssumption`). The components are parts of `Callables`, where one moves and
the others rest.

- *Guards* (`MoveAgain = FALSE`: none is moved from twice; `on_scope_leave_moved_again` shows what happens
  otherwise). Counting is replaced by uniqueness: no two armed guards hold the same callback, none holds one
  that has run, and what a moved-from guard gave away is still held or has run (`PassedOn`). The last is
  what a count of one cannot tell from a count of none. `GuardsUndo` follows for any stack.
- *Delegates.* `ThunksMatch` is inductive as it stands: each bind writes both fields and
  a copy takes both. `DelegatesHoldOneTarget` is the refinement of `BoundTarget`, each step of which is that of
  the same `request` with its arguments: a bind to this target, a copy of that delegate. It needs besides that
  what a delegate holds is a target or none at all (`HoldsTarget`).
- *Exceptions.* `PrintsEveryLevel` says nothing of the time before something is printed, so the invariant
  follows the context all the way: while the exception is on its way, the frames it has not left and the levels it
  has got make up the context (`InFlight`); while it is printed, the lines printed and the levels left do
  (`InPrint`). Only the last level can be no `std::exception`, so the printing that it ends has come to
  the end: `EveryLevelIsPrinted`.
- *Call helpers.* `HelpersCallAsAsked`: the calls made and the calls pending are, one after the
  other, what was asked for (`CalledInOrder`), an exception ends both (`OneThrow`), the wrapper comes after its target
  (`WrapperLast`) and the clock is read around the call (`Clocked`). That the pairs of `ArrayIndices2d` are the whole
  table, when its size does not wrap, is a bijection between pairs and their numbers row by row (`RowByRow`).

**`ValuesProofs`** (from `ValuesAssumption`). Again one component moves and the others rest.

- *Conversions.* `ValuesAreKept`, for any set of widths. The prover knows nothing of powers, so the assumption says of
  each width that two to its power is twice the one before; TLC evaluates it. All else is
  linear in the bounds of the two types (`BoundsOfAType`).
- *Rectangles.* `NearestIsContained`, for any largest number: sums and differences are taken apart by the kinds
  of their operands - finite, either infinity, NaN (`KindsOfFloats`, `Sums`, `Differences`) - and the rectangle stays
  one of floats (`RectangleInv`), empty, reversed or NaN as it may be.
- *Sorting.* `BubbleInv`: the passes done have brought the greatest to their places, and the one in
  progress carries the greatest so far. `InsertionInv`: what comes before `i` is sorted but for the element that
  sinks. The functions return only when the whole array is sorted, and swap only neighbours out of order:
  `SortsSwapNeighbours`, the safety part of `SortsByAdjacentSwaps`. `SortsStably` says what that
  comes to: nothing is lost or doubled, equal keys keep their order.
- *Sums.* The folds of the community modules are recursive functions on subsets, in the order `CHOOSE` takes elements.
  In place of an induction, the smallest counterexample: such a function exists (`SumsExist`), and
  its value is that of any one element and the sum of the rest (`SumTakesOne`), whence sums of
  prefixes, of tails and of bounded values.
- *Ranges.* `SplitsLoseNothing`, for any widths of `T` and `int`. `RangesInv`: the pieces are in order, without gaps, from
  end to end. A split keeps that (`SplitKeeps`) though `left_side_size` may not fit in `T`, because what it is
  converted to is off by whole turns, and the sum is converted back (`SplitsWhereAsked`). What
  `FlattenSeq` makes of such pieces is the whole (`Flattened`), and their extents telescope.
- *Frame rates.* `AveragesTheWindow`, for any rates, ticks and `RepSize`. `FrameRateInv`: the ring holds the latest ticks,
  the oldest where it is written next, and `tick_sum_` is their sum. The rest is `DividedSums`: an unsigned division is
  exact of sums that are not negative, and of the others exceeds every tick. Both hold as
  long as the sum of a window stays half a unit per tick clear of overflow, which `CounterAssumption` asks
  for: with 64 bits of nanoseconds and the default rate, ticks of up to three years. Beyond it, signed addition
  overflows.
- *Matrices*, of any shape over unsigned integers of any width. `MatrixInv`: the operands stay matrices of their
  shapes. A loop of a compound operator goes through the elements in turn (`Looped`); what a reference reads is
  the old value, unless it is to an element of the target whose turn has been (`ReadAt`, `DoneInTurn`). The
  original stays as it is while the copy changes, `m @= m` reads each element before it is assigned, and `m @=
  m[k]` reads `m[k]` changed once it is past `k`: `AliasedOperandsCombine`. For `ProductsAndElements`, a product
  of matrices is a sum modulo two to the width (`ProductIs`), sums of congruent terms are congruent (`SameMod`),
  and the identities of dot and cross products hold of integers before they are reduced.
- *GUIDs.* `TextOf` is what a text can have become: the written digits, bare or in braces, each in either
  case, cut anywhere. Every operation keeps it, so a text `Create` takes has all digits in place and is
  parsed back (`CreateRestores`), or lost one. The two tables name the same nibbles (`TablesAgree`). A braced text
  cut to 36 characters is read one place off, and two of its nibbles then tell that it
  is another GUID (`BracedReadsOtherwise`; the samples are chosen so). The layout, a recursive function over groups and
  places, is unrolled (`LaidOutAsWritten`). `GuidsAreRestored` is about the sampled GUIDs of the run;
  `EveryGuidIsRestored` about all of them, in any mixture of cases, with braces and without.

Only model-checked:

- Liveness: that `RunBatch`, the destructor, `GetTypeId`, the operations of pointers and the sorts come to an end.
  Fairness and `ENABLED` are beyond the prover.
- `TransformsCompose`: products of several matrices of sines and cosines, hence identities of high degree,
  modulo a number; the prover's arithmetic does not find such, and without the modulus there is no root of one
  half. The run tries every multiple of 45 degrees in the field of seventeen residues.
- `PointsAsAsked`: curves are polynomials in a number of samples, with powers of it, and the number of points, rows
  and tops of a heart is about quotients and square roots. The run tries every number up to its bounds.
- `TypesReadBack`: a table of the code against rules written down independently. TLC tries every row, and
  there is no parameter to generalise over.

## 6. What the runs show that the code's documentation does not expect

1. **A failing spawn hangs the constructor** (`pool_spawn_failure`). When `std::jthread`'s
   constructor throws after another thread was started, `~BatchThreadPool` does not
   run; each started worker waits at a barrier that counts `threads_count + 1` arrivals,
   `~jthread` asks it to stop and joins it, forever.
2. **Callbacks that unsubscribe make others miss the event** (`observable_reentrant_event`).
   `ForEachListener` walks the live vector; an erase under it skips the next listener and
   reads a slot past the end, an insert may reallocate the buffer under it.
3. **Assignment reads its source after the release** (`intrusive_ptr_aliasing`).
   `a = std::move(a->next)` destroys the node, whose destructor releases the
   reference that `a` then takes over. `intrusive_ptr` shows that everything is right under
   the obligations `SourceSurvives` and, of destructors that call back, `KeepsOperands`: while an
   object is destroyed, `reset` and `operator=` still hold its address in `p_`.
4. **A guard moved from twice arms two guards** (`on_scope_leave_moved_again`). The move
   constructor leaves its own `empty_` false instead of taking over the source's.

Other observations, which the properties describe as they are: `FrameRateCounter` divides
negative sums as huge unsigned numbers, and by zero for a rate of zero (a precondition);
`m @= m[k]` of `Matrix` uses what `m[k]` has become (`CombineOwnElement`), unlike `m @ m[k]`, and
`AliasedOperands` says so; a heart passes its top to the consumer once a row, as the first point of each;
`GUID::Create` takes every length but 36 for the braced spelling, so that a shorter text is read past its
end and a braced one cut to 36 characters is another GUID; a method with a C ellipsis has no
specialization of `Signature` and passes for a data member; a spiral of one point has no
radius (0 / 0); the overload of `ComplexPower` for a complex exponent has no power of zero, where the
other has it for positive ones; `ArrayIndices2d` leaves pairs out when the product of
its sizes wraps; and the discarding branch of the shifts in `BitsetAdapter` is reached only for
empty or full ranges of a word.

## 7. Not modelled

- Rounding and approximation: of the minimax polynomials of `SinCos`, and wherever floats are added
  or multiplied. What holds of exact numbers is checked; how far the code is from it is not.
- `GetRainbowColors`, `Sqr`, and the coordinates of the heart and of the sphere: formulas
  with nothing to compare them to but themselves.
- Of `Matrix`: signed and floating-point elements, reference tuples, `Length` and `Normalize`.
- Of `GUID`: hashing, order, streams and `std::format`, which print `ToCharArray`. Of the exceptions: the
  text of messages.
- Aliases, sizes, macros, `BitCountToType`, forward declarations, `IsSpecialization`, `MemberOffset`,
  `Overload`, `StringLiteral` and the `Callable` concept: names and single expressions.
- Memory models: the fields of the pool are shown never to be accessed at once, so weak orderings
  cannot be seen; the atomic counter of `GetTypeId` is one atomic step.

## 8. Plan

In this order:

1. *Proofs about geometry*: `TransformsCompose` for any modulus, one rotation at a time with the lemmas on residues of
   `ValuesProofs`, and that curves pass their control points for any number of samples.
2. *Deeper models*: two pools or a pool whose owner changes; a delegate held by listeners of an
   observable; signed elements in `Matrix`; hash and order of `GUID`.
3. *Error bounds*: the largest difference between the polynomials of `SinCos` and the functions they stand for,
   in fixed-point numbers.
