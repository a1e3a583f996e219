# JerryScript in TLA+

A specification of the parts of JerryScript whose correctness depends on the order
of things: the heap allocator, the garbage collector with weak references, promises
with their job queue, async functions and generators, the Promise combinators, ES
modules, and the property storage with its two caches. TLC checks the specifications on
small instances; TLAPS proves the safety properties of all of them, but for the layout of
one buffer, for every size of the instance.

The engine is a single thread. What makes it hard is not parallelism but
re-entrancy. An allocation may collect, a collection may call native code, native
code may allocate and collect again; resolving a promise may call a getter, which may
resolve the same promise, or run the job queue. In all these places a function
goes on with what it knew before the call. The models put a step boundary exactly
there and let the called code do anything it may do.

## 1. The system

| Component | State it keeps | Operations | Interacts with | What makes it correct |
|---|---|---|---|---|
| jmem heap (`jerry-core/jmem/jmem-heap.c`) | free list in the area itself, skip pointer, allocated size, limit | alloc (two failure modes), free, realloc | starts the collector through `ecma_free_unused_memory`; the collector frees blocks | blocks disjoint, list sorted, merged and complete, accounting exact, fails only when full |
| jmem pools (`jmem-poolman.c`) | free chunks of 8 and 16 bytes | alloc, free, collect empty | takes chunks from the heap, gives them back at high pressure | no chunk twice, no chunk lost |
| garbage collector (`ecma/base/ecma-gc.c`, `ecma-init-finalize.c`) | object list, reference counts that are colours during a collection | ref, deref, mark, sweep, finalize | started by the heap and the API; calls free callbacks of native pointers | frees exactly what is unreachable, restores the counts, leaves nothing behind |
| weak containers, WeakRef (`ecma-container-object.c`, `ecma-builtin-weakref.c`, `ecma-objects.c`) | entries, and back references in the keys | set, delete, construct, deref | the collector marks values through keys and cuts links in the sweep | both ends of a weak reference agree, values live as long as key and map |
| promises and job queue (`ecma-promise-object.c`, `ecma-jobqueue.c`) | flags, result, reactions; a linked list of jobs | create, resolve, reject, then, run jobs, cleanup | call getters, executors, handlers, promise callback | settled once, each reaction once and in order |
| async functions (`vm.c`, `opcodes.c`) | a suspended frame and its promise | call, await, resume, exit | reactions of promises; settle their promise without the check | only the exit settles the promise |
| Promise combinators (`ecma-builtin-promise.c`) | results and a counter of open elements | all, allSettled, any, race | element functions called by jobs or by a `then` | the count settles the result once, when every element has reported |
| async generators (`ecma-async-generator-object.c`) | a queue of requests, an await state | next, return, throw, run | jobs, promises, the iterator of a `yield*` | one continuation at a time, each request answered |
| ES modules (`ecma-module.c`) | a state per module, resolved requests, bindings | link, evaluate, import, namespace | the host's resolver and callbacks, module bodies | a cycle is linked as a whole and evaluated once, an error leaves no module in between, a name finds its binding |
| handle scopes (`jerry-ext/handle-scope`) | a stack of scopes with handles | open, close, escape, add | references of the API | every handle released once |
| property hashmap, lookup cache (`ecma-property-hashmap.c`, `ecma-lcache.c`, `ecma-helpers.c`) | copies of what the property list says | create, find, delete | every allocation may drop hashmaps | never an answer the list would not give |
| debugger (`debugger.c`, `jerry-ext/debugger`) | breakpoints, a message buffer | messages of a client | the virtual machine's loop | protocol state machine |
| parser, RegExp, virtual machine, builtins, conversions, snapshots, ports | | | | sequential code over text, numbers and byte code |

Hard behaviours, by kind (the list with lines is `hazards` in `PROJECT.json`):

* code of others in the middle of a call: collections inside an allocation, free
  callbacks inside a sweep, getters and callbacks inside a settlement, the queue run
  inside a job, a `then` that reports while the combinator still walks its iterator, a
  resolve callback inside a link;
* values read before such a call and used after it: the predecessor of a block, the
  skip pointer, the pending state of a promise, the hashmap in front of a property list,
  a cached address of a property, the await state of a generator;
* limits: the recursion limit of the marker, the reference count field whose last
  value means something else, the pressure that bounds retries, the allocation limit
  that moves in steps, the NULL entries that end a hashmap search;
* order: of a map and its key in marking and in sweeping, of reactions and jobs, of
  module bodies in a cyclic graph;
* partial failure: a job that throws, a link that fails deep in the graph, a hashmap that
  cannot be rebuilt, a finalization that releases more objects;
* termination: list loops, marking passes, retries, the queue, the requests of a generator.

## 2. Modules

| Module | Models | Lines of TLA+ are about |
|---|---|---|
| `JmemHeap` | `jmem-heap.c` | the free list, one step per loop iteration and per collection |
| `HeapPromise` | what a client of the heap relies on | three atomic operations on blocks |
| `JmemHeapProofs` | | the theorems about `JmemHeap` |
| `EcmaGC` | `ecma-gc.c`, weak references, `ecma_finalize` | marking, passes, sweep, callbacks |
| `EcmaPromise` | promises, jobs, async functions | a stack of calls that wait for user code |
| `EcmaPromiseReactions` | the reactions of a promise as they lie in memory | two writers and two readers of a tagged buffer |
| `EcmaPromiseAll` | `all`, `allSettled`, `any`, `race` | the count of open elements |
| `EcmaAsyncGenerator` | async generators | the request queue, the await states |
| `EcmaModule` | link, evaluate, import | depth-first search over a cyclic graph, with callbacks |
| `EcmaModuleExports` | export resolution, namespace objects | two stack loops against a reachability definition |
| `EcmaProperty` | property list, hashmap, lookup cache | two copies kept equal to the list |
| `Ecma...Proofs` | | the theorems about the module of that name: `EcmaGC`, `EcmaPromise`, `EcmaPromiseAll`, `EcmaAsyncGenerator`, `EcmaModule` (with `EcmaModuleExports`), `EcmaProperty` |
| `SequenceFacts` | | lemmas about stacks and queues that several proofs use |
| `MC...` | | symmetry and constants of the instances TLC checks |

In each module one action is one function, or the part of one between two calls of
foreign code. Names are those of the source. Definitions called "Faulty variant" are
wrong versions of the definition that follows them; no specification uses them. They
show, substituted for the right one, that a property notices the mistake.

### JmemHeap

Offsets and sizes are in units of `JMEM_ALIGNMENT`; all functions of the file round to
it first. `next_offset` and `size` are the headers that live in free memory, `blocks`
is what the client owns, which the code does not store. `pc`, `phase`, `req`, `prev` and
the like are the locals of the call in progress. Calls do not overlap, except that the
collection in the middle of one (`pc = "gc"`) frees any blocks but the one being
reallocated. The first-fit loop (`WalkNext`, `WalkFit`, `WalkFail`) and
`jmem_heap_find_prev` (`FindPrev`, `FindNext`, and the continuation named by `why`) go
step by step. `realloc` shrinks (`ShrinkCall`), grows into the region behind
(`ExtendEnd`) or in front (`ExtendFront`, `ExtendFrontExact`), or moves (`GrowMove`, an
allocation, `MoveDone`). `fatal` is `jerry_fatal (ERR_OUT_OF_MEMORY)`.

The list head is at offset -1 with size 0. A header whose memory was handed out has size
0 in the model, so that following a stale pointer shows.

### EcmaGC

`refs[o]` is every object that `ecma_gc_mark` visits for `o`, whatever its type.
`handles` counts references held outside the graph (stack, API); the code has only the
sum in the count field, `count`, which a collection overwrites with `NonVisited` and
gives back. `ecma_gc_mark` is recursive: `stack` has its activations, `strong`,
`entries` and `holders` what each has left to do. An object met at the recursion limit
turns gray and is left to a pass over the white-gray list (`StartPass`, `PassVisited`,
`PassWhite`). The sweep frees objects one by one; the free callback of a native pointer
gives control back to the program (`CallFreeCallback`), which may do everything it may do
elsewhere, a collection included; `sweep` is the stack of interrupted sweeps. Lists are
sets, since the order of the objects is that of their allocation and any order is
possible. `ContainerSet` leaves `pending` set until `SetWeak`: an allocation in between
may collect. Free callbacks of that collection act only after `SetWeak` has run: a
callback that changes the very container being set is not explored.

`CanRead` and `CanDeref` say where the program can copy a reference from; the first is a
variable, a property or a WeakMap, the second `deref`. They are told apart because a free
callback in the middle of a sweep may `deref` an object that is still to be swept
(section 6).

`Reachable` is the reference definition: the least set with the held objects that is
closed under references and under "map and key give value". It shares no definition with
the marker.

### EcmaPromise

`frames` has the calls of the engine that wait for user code, innermost last:
`fulfill` and `reject` (inside `ecma_fulfill_promise` and `ecma_reject_promise`, after
their first assertion and before the state changes), `executor` (an executor or the
`then` of a thenable), `handler`, `custom` (a capability function of a foreign
constructor), `body` (of an async function), `jobs` (the loop of
`ecma_process_all_enqueued_jobs`). Whenever the top frame is not `jobs`, user code may
do any of the `User` actions: create promises, call resolving functions it was given, use
the API, add reactions, call async functions, run the queue.

A pair of resolving functions is a number: the first belongs to the creation, every
thenable job makes one more. The code has one `ECMA_PROMISE_ALREADY_RESOLVED` flag for
all of them. `source` and `ran` are history: to which promise the n-th reaction was added
and in which order jobs of reactions were taken. A failed assertion stops the model
(`phase = "assert"`), so the assertions of the source are the invariant `SettledOnce`.

The first await of an async function queues the resumption before the promise of the
function exists, and the promise callback runs in between (`CreateAndAwait`, frame
`create`). If it runs the queue there, the body goes on without its promise and makes
another one (`BodyAwaitsAnew`, `BodyExitsAnew`); the first is then an `orphan`, and
`AsyncKept` says what that means: it is pending and nothing will settle it. Of the
settlement of the other one, which nobody can get at, only the user code is kept.

Values are promises, thenables and plain values. A thenable's `then` may turn out
callable, not callable, or throw when read. A promise keeps the `then` of its prototype
(one that overrides it is a thenable for this purpose). A capability nobody else can get
at is `None`, and await of a plain value makes such a promise; await of a thenable is
left to the program, which can make the promise and await that.

### EcmaPromiseReactions

`EcmaPromise` has a reaction as a record with both handlers. The code has a flat buffer:
a pointer with tag bits, then a slot for each handler that is not a default, and one
tagged slot for the continuation of an async function. `Buffer` has these slots, as
`ecma_promise_do_then` and `ecma_promise_async_then` append them. `TriggerReactions` is the loop that queues jobs at the settlement,
`MarkReactions` the loop of the collector over the same buffer. `ReactionsDecoded`
compares both with the records: whatever reactions follow one another, each loop meets a
tagged pointer where it expects one, and `Job` is the job the code queues.

### EcmaPromiseAll

One call of a combinator. `pc` follows `ecma_builtin_promise_perform` and its helper from
one call of user code to the next; `remaining` is the number object that the element
functions share, `spent` the functions whose index is 0, `values` which function of an
element wrote its place. An element is an index whose `then` was called; from then on its
functions may be called at any time and again. The capability is one of `Promise`: only
its first settlement counts, `counted` says how often the count reached zero. `race` has
no count and hands out the functions of the capability.

### EcmaAsyncGenerator

One generator with its flags, the await state in the upper bits of the flags (changed by
exclusive or, as in the code), the queue of tasks, and everything that may continue it: a
call in progress (`calls`), a job (`jobs`), a reaction at a pending promise (`waiting`).
The body and the iterator of a `yield*` choose freely. A place in `calls` is one where
the program has control, so that more requests may arrive. `delegate` stands for the
iterator in `block_result` and its next method on the stack.

### EcmaModule

`imports` is any graph. `ecma_module_link` is Tarjan's search with an explicit stack:
an item per module, its ancestor index, the node it looks at. `calls` has the functions in
progress, innermost last; a link waits for the resolve callback or the callback for state
changes, an evaluation for a body. Whatever a name resolution decides is a free choice of
`EvaluateFails` here.

### EcmaModuleExports

One call of `ecma_module_resolve_export`, or one of
`ecma_module_create_namespace_object` with the resolutions it makes, over any table of
local, indirect and star exports. `Bindings` is the reference definition: the local names
that the recursive lookup of the standard reaches, where `Reachable` is the least set of
pairs of module and name that is closed under the lookup. `Init` admits the tables that
linking accepts: every indirect export has exactly one binding.

### EcmaProperty

`list` and `names` are the property list, pairs at addresses that are used again. A
`hashmap` has its entries with their bits, so that a NULL, a deleted entry and the two
properties of a pair are told apart as in the code; collisions come from `Hash`. An
allocation chooses how much pressure it takes (`none`, `low`, `high`); high pressure
throws all hashmaps away. The lookup cache goes by the address of a string, so that a
search may miss a cached property: both searches are possible then.

The loops of the code over a list (filling a table, doubling its size until it is large
enough, deleting properties, converting a fast array) go pair by pair; `work` is the loop
in progress with its locals. The engine runs nothing else in between, so an operation
begins only when `work` is `Idle`, and the two properties are stated there. An allocation
inside a loop still takes its pressure, and may throw away the tables of all objects.

## 3. What TLC checks

| Run | Instance | Shows |
|---|---|---|
| `heap` | 6 units, limit 2 | list sorted, merged and complete, disjointness, no leak, accounting, failures only when full; `JmemHeap` implements `HeapPromise`; every call returns or ends the engine |
| `gc_safety` | 3 objects (native pointers, WeakMaps and WeakRefs, which have properties like any object), 3 references, one collection inside a callback of another | frees exactly the unreachable, nothing twice, restores counts, weak links whole; what the program gets at is live, in free callbacks too |
| `gc_recursion_limit` | 4 plain objects, 3 references, recursion limit 1 | chains and cycles past the limit survive, and a collection ends |
| `gc_finalize` | 2 objects with native pointers | violation: finalization leaves an object (section 6) |
| `promise_safety` | 2 promises, plain or async, a thenable, 2 reactions, 2 pairs, 3 frames | settled once, one settlement in flight, no reaction lost or doubled, the buffer of reactions read as it was written, unhandled flag exact, what becomes of the promise of an async function |
| `promise_jobs` | 1 promise, a thenable, foreign constructors whose functions throw, the API, 3 reactions, 4 frames | reactions once and in order although the queue stops at an error and is run inside jobs; reactions of settled promises run in the end |
| `combinators` | the four routines, up to 4 elements | the count settles the promise once, when the walk is over and all have reported, with every place filled by its own element |
| `generators` | 5 requests, 3 suspensions of the body | one continuation, consistent await states, every request answered |
| `modules` | 3 modules, 2 requests each, calls nested 3 deep | linked modules are closed under requests, nothing is left half linked, bodies once and in order |
| `exports` | 3 modules, 2 names, 2 star exports, no renaming, no circular indirect export | the stack loop finds what the recursive definition gives; namespace objects are complete |
| `properties` | 2 objects, 4 names, 3 pairs, tables of 4 entries, a cache of one row | hashmap and cache answer as the list does, searches end, counters exact |
| `module_resolve` | 3 modules, an indirect export that renames | violation: an export is not found (section 6) |

`gc_finalize` and `module_resolve` end in a violation: the code disagrees with an
assertion, the documentation or a comment.

### Bounds

Heap: six units hold three blocks with gaps, so that a free or a realloc meets every
combination of neighbours (free or not, on either side, exact or larger), and a request
of five units crosses two steps of the limit. The proofs remove the bound.

Collector: three objects make a map, a key and a value, or a chain longer than the
recursion limit; a WeakMap without entries is a plain object. `MaxRef` = 1 leaves the
count field three values, none, one and `ECMA_OBJECT_NON_VISITED`, so its limit is reached
at once. `LoopLimit` = 2 lets a finalization repeat, and ends in the code's fatal error
when it would go on. `MaxNest` = 2 is one collection inside a callback of another.
`gc_finalize` needs no more than the two objects of its counterexample.

Promises: two promises make adoption of one by the other, mutual adoption included;
`MaxPairs` 2 is the smallest with an old and a new pair; three frames are a job, its
handler, and a settlement inside it. `MaxThens` 2 gives two reactions of one promise, or
one on each, in all combinations of handlers. `promise_safety` has no foreign capability,
so no job fails there, and three frames do not hold a queue run inside a job: these are
for `promise_jobs`, with four frames (the queue, a handler, the queue again, a job) and
three reactions, so that an error or an inner run leaves jobs before and behind it.

Combinators: `IndexLimit` stands for `UINT32_MAX - 1`; four elements are more than two
reports in any order, and the limit itself is reached. `OneOutcome`: a promise calls one
of its two functions (see section 6 for a hand-made `then` that calls both).

Generators: five requests make a queue that is never empty for several answers and goes
on after completion; three suspensions let a `yield*`, a plain await and a `for await`
follow each other. `CreateCallbacks` is off: the promise callback of a creation does not
use the generator (section 6).

Modules: three modules make every strongly connected component up to three, one hanging
off another, and diamonds. `LinkCallbacks` is off: a callback of a link may fail but does
not link or evaluate (section 6). In `exports` a name may be local, forwarded or absent in
each module, and "default" is among the names; an indirect export neither renames
(`Renames`) nor leads back to itself (`Circular`, section 6).

Properties: with a minimum table of 4 instead of 32 entries and a NULL limit of a half
instead of an eighth, four properties fill, outgrow, rebuild and empty a table; three of
four names collide. One cache row of two entries overflows at once. The second object
has one name, which is enough for two objects to compete for pairs and cache entries.
The scale matters for one mistake: a table that is given up one property too late
(`MostlyUnusedBefore`) is empty before that at 4 entries, while at 32 several properties
are left.

Symmetry is over objects, promises, modules and pairs, which no definition tells
apart; the runs with liveness do without it.

### Fairness

`heap`: weak fairness of the steps of a call. The engine is one thread and a
call that has begun goes on; the client may stop calling. Collections free a finite number
of blocks, which is what bounds them in the code, too.

`gc_recursion_limit`: weak fairness of the steps of marking, sweep and finalization, for the same
reason. Free callbacks are not part of this instance: a callback is native code of the
embedder and the engine cannot make it return.

`promise_jobs`: user code returns, whatever it calls before it does: strong fairness
of the returns and job steps at each depth of the stack, since a call of user code
disables the return of the frame below it for a while; and the host runs the queue again
and again (`jerry-main/main-jerry.c` does, and nothing runs otherwise).

`generators`: weak fairness of the body and of the iterators (code that was called
returns or suspends), of the engine's steps, jobs included, and of the settlement of
awaited promises. Without the last one a generator may wait for ever, rightly.

## 4. What TLAPS proves

Every theorem has the form "the specification always satisfies this", for all values of
the constants that meet the assumptions in the module (bounds are natural numbers, sets
that are counted are finite, markers are not members) and the hypotheses named
below. Every hypothesis is one that the passing runs make as well, and the theorem is
false without it: section 6 says what happens then.

All proofs have the same shape: definitions of the invariant, lemmas about the data
structure, one lemma per action (or group of alike actions) that shows the invariant
preserved, `NextInv` or its like that combines them, and short theorems that derive the
properties from the invariant. The properties alone are not inductive, except
`LinkedClosed` and `WeakLinks`, which are conjuncts of an invariant that supports them.

### JmemHeapProofs: any number of units, any limit

| Theorem | Says |
|---|---|
| `HeapInvariant` | the inductive invariant `HeapInv` |
| `HeapTypes` | every pointer is a unit, the head, or the end marker |
| `HeapFreeList`, `HeapCoalesced` | the free list is sorted and complete; no two regions touch |
| `HeapSkipPointer` | the skip pointer points into the list |
| `HeapNoOverlap`, `HeapNoLeak` | every unit has exactly one owner |
| `HeapAccounting`, `HeapLimit` | the allocated size is exact, and the limit follows it, assertions of the free included |
| `HeapFailsOnlyWhenFull` | an allocation fails only when no such run of units is free |
| `HeapKeepsPromise` | `JmemHeap` implements `HeapPromise` (same `blocks`, the rest hidden) |

`HeapInv` joins:

* `TypeOK` and `SkipPointerValid`: every pointer the next step follows is one it may
  follow; a stale skip pointer would start a lookup inside a block;
* `ListOK`: headers typed, list sorted and complete, and each region ends strictly
  before the next begins. Strictness is merging: without it a free would leave two
  touching regions and the failure theorem would be false;
* `BlocksOK` and `Partition`: blocks disjoint, free units = area minus used units. The
  free list must be tied to the blocks, or a free could link memory that is already free;
* `Control`: what a call knows at each control point. `FindOK`: the lookup stands on a
  header before its argument, and its argument is still what the caller passed, whatever
  a collection freed meanwhile. `WalkOK`: all regions passed so far are too small;
* `AllocatedSizeExact` and `LimitOK`: the accounting, with the block being moved as the
  one exception.

There are lemmas for the surgery on the list (`CarveList`, `InsertList`, `TrimList`),
on the blocks (`GrantBlock`, `CutBlock`, `ExtendBlock`) and on their cardinality, joined
in `TakeUnits`, `GiveBack` and `ExtendUnits`. The refinement is step by step
(`StepPromise`) under `HeapInv`: a grant takes free units only because the partition
holds.

### EcmaGCProofs: any objects and references, any depth of nested collections

| Theorem | Says |
|---|---|
| `GCInvariant`, `GCTypes` | `GCInv`; count fields stay in their bit field |
| `GCReachableKept` | no reachable object is freed |
| `GCFreesExactly` | what marking leaves white is exactly what is unreachable |
| `GCCountsRestored` | between collections a count is the number of references held |
| `GCCallbackSafe` | collections inside callbacks free nothing twice and lose nothing |
| `GCWeakLinks` | both ends of a weak reference agree |
| `GCObtainedAreLive` | what the program copies a reference from gives a live object; `deref` in a callback may also give one that waits to be swept, with a full count field |

All assume `MarkLimit` # 0. The invariant says where each object is (`PlacesOK`: in one
list or one interrupted sweep), what its count field means there (`CountsOK`), what the
activations of `ecma_gc_mark` still have to do (`WorkOK`), and the colours
(`ColoursOK`): whatever a visited object refers to is visited, or still in the work of an
activation, or the object is gray and a pass will come. The same holds for a value whose
map and key are visited: the work may be left to either of the two, and which one is
decided by the order they were met in. When a pass over the white list
has found nothing, no work is left anywhere, so the visited objects are closed under
`Reachable`; conversely only reachable objects were visited (`ColoursOK`, too). `KeptOK`:
what the program holds is in the object list, and nothing there refers to an object of an
interrupted sweep, so a callback cannot get at those again, except through a WeakRef.
Such an object has `NonVisited` in its count field (`CountsOK`), hence `ecma_ref_object`
gives no reference, and that is enough to keep the rest of the invariant.

### EcmaPromiseProofs: any promises, reactions, values, nested calls

| Theorem | Says |
|---|---|
| `ReactionInvariant` | the places of reactions (`PlacesOK`) |
| `PromiseRunsOnce`, `PromiseInOrder` | a reaction waits, is queued, or was taken, exactly one of these; those of one promise in order |
| `PromiseUnhandled` | the flag for unhandled rejections is exact |
| `SettlementInvariant` | the tokens of settlements (`SettleOK`) |
| `PromiseTypes`, `PromiseSettledOnce` | types; no assertion of a settlement fails |
| `PromiseOneInFlight` | one settlement of a promise under way at most |
| `PromiseAsyncKept` | a pending promise of an async function has exactly one continuation, a settled one none; a lost one is pending and has none |

The first group has no hypothesis. `PlacesOK` puts the reactions of a promise in one line:
those taken, then those queued, then those that wait, each part in the order of addition.
A settlement moves all that wait to the end of the queue at once, which keeps the line.

The second group assumes that the API does not settle promises of async functions
("async" not in `ApiKinds`). A promise has at most one token, which is something that
will settle it whatever its flag says: a settlement in progress, a thenable job, the body
of its async function, or a job or reaction that leads to the latter. While a plain
promise has a token its flag is set, so that resolving functions have no effect.
Counting tokens over frames, jobs and reactions would need sums; the invariant says
instead that any two places with a token of one promise are the same place. The promise
of a function that went on too early gives its token away with the body (`AsyncOpen`,
`OrphanOpen`).

### EcmaPromiseAllProofs: lists of any length

`CombinatorInvariant` and `CombinatorSettles` (`SettlesExactly`), if an element of
`allSettled` calls only one of its two functions (`OneAnswer`). The invariant is an
equation: `remaining` is the number of elements that have not counted themselves off, plus
one while the walk goes on. That plus one is why an element that answers inside its
`then` cannot settle the result early.

### EcmaAsyncGeneratorProofs: any number of requests and awaits

`GeneratorInvariant`, `GeneratorContinues` (`OneContinuation`) and `GeneratorStates`
(`AwaitStates`), without `CreateCallbacks`. `Single` is an equation too: the calls, jobs
and reactions that work on the first task are one if there is a task, none otherwise.
`StatesOK` says which state bits each of these may meet, so the exclusive ors of the code
lead to the state they are meant for.

### EcmaModuleProofs: any graph of modules

`ModuleInvariant`, `ModuleLinkedClosed`, `ModuleLinkingOnStack`, `ModuleBodiesInOrder`,
without `LinkCallbacks`. The link is Tarjan's search. The invariant (`LinkOK`) has the
stack with its indexes in order (`StackOK`), the path from the current item to the first
(`Path`), and what the search knows (`SearchOK`): an import that was looked at is not
unlinked, and if it is on the stack its index bounds the ancestor index of its importer; an
item off the path is finished, and the item of the path below it has no higher ancestor
index. Hence, when an item that is its own ancestor is finished, the imports of everything
above it on the stack are above it too, or linked, and the component may be linked as a
whole. Evaluation (`EvaluateOK`) relates
the states of modules to the calls that wait for them.

#### Exports: any finite set of modules and names

`ExportsInvariant`, `ExportsSatisfied` (`ExportSatisfied`) and `NamespacesComplete`
(`NamespaceComplete`), without `Renames` and `Circular`. The stack loop is a depth-first
search. As long as nothing is found it has no gaps (`NoGap`): where a pair that was met
leads was met or is on the stack, and then everything above it on the stack was reached
from that pair. An empty stack with nothing found therefore means that all of `Reachable`
was met and has no binding; a record that is found is a binding, and an ambiguous one
stands for two (`FoundOK`). The delicate case is an indirect export that is
on top of the stack again with nothing found: the code goes on to the star exports. For
an export that is not circular this cannot happen (`IndirectFinds`), since its one
binding would have been found. The namespace object has, at each step, the names of the
modules visited whose resolution gave one record (`SpaceOK`, `NamesOK`).

### EcmaPropertyProofs: any objects, names and pairs, any hash function, table and cache sizes

| Theorem | Says |
|---|---|
| `PropertyInvariant` | the inductive invariant `Inv` |
| `PropertyLookupExact` | hashmap and cache answer what the list answers, and a search of a hashmap ends |
| `PropertyTablesExact` | counters are those of the entries, a NULL is always left, a flagged property has its one cache entry |

From `SizeAssumption`: the smallest table is a power of two (up to 64; 32 in the code), and
the NULL limit of the smallest table is at least two entries (four in the code: 32 >> 3).
With a limit of one, an insert that is allowed could take the last NULL and a search would
not end.

The argument has three layers.

* Probing. A table size is a power of two and every step is odd, hence the multiples of the
  step reach every entry (`GoodSize`, `Doubled`, `ProbeAll`; the doubling of the size is the
  induction step). So an insertion finds a free entry if there is one, and a search that
  meets no match meets the NULL.
* One table. `Holds` says that a table holds exactly a given set of properties, each at one
  entry, and that the probe of its name reaches that entry without a NULL before it. `Put`
  keeps this (the entry was the first without a pair), and so does `Without`, since the bit
  of the entry it empties is set; the faulty `WithoutClearing` clears it, and a probe that
  passed over the entry would stop there. `Counted` says that the two counters count NULLs and free entries. From
  `Holds` and a NULL, `FindExact` gives the answer of the list.
* The engine. `Inv` joins `Typed`; `PairsApart`, no pair twice on a list or on two lists;
  `NamesApart`, no name twice on a list, without which "the property with that name" would
  mean nothing; `CacheOK`, every entry has its flagged property and every flagged property
  its one entry, in the row of its name; `WorkOK`, what each loop knows; and `HashmapsOK`,
  what each table holds. During a fill it is the properties on the pairs before the
  current one. During a deletion it is the properties left, until one of them answers
  RECREATE: the table is stale from there on, but nothing looks at it before it is freed.

A loop that is a fold over a list could not be proved about; as one step per pair, the
induction is that of the invariant. The proof also met two conditions that overlapped in
`CASE`s of the model, where the order of the tests in the code decides; both are `IF`s now.

### Only model checked

Liveness: `CallsReturn`, `CollectionEnds`, `ReactionsRun` and `Served` need fairness and
`ENABLED`, which the proof system does not reason about. `ReactionsDecoded`: the loops over
the buffer are recursive functions, and what they compute for every buffer needs an
induction over data.

## 5. Not modelled

`PROJECT.json` lists every component. Parser, RegExp, the virtual machine's
instructions, builtins and conversions are sequential functions over text, numbers and
byte code: their state space is their input, and tests over inputs serve them better.
Ports, the shell and the math library are I/O or third-party code. Within the modelled
parts: the allocator for `JERRY_SYSTEM_ALLOCATOR`, statistics and Valgrind support; the
mark function of each object type (one set of references instead); Map, Set and
iterators; `finally`; species constructors (a foreign capability stands for their
result); values and frames of generators, and synchronous generators; the exports of
native modules and the import callback of the host (`import ()` goes through
`jerry_port_module_resolve`). Of the events of the promise callback, those of a
settlement and of the creation of an async function's promise are modelled. Most others
come before or after a step that is atomic, where user code can do no more than before or
after the call itself. One does not: an await of an unhandled rejection queues the
resumption, tells the callback that a handler was added
(`ecma-promise-object.c:1287-1299`), and only then is the function suspended, or the state
of a generator changed (`ecma-async-generator-object.c:223`, `vm.c:2666`). A callback that
runs the job queue there would resume a function that still runs; the models of await
leave that event out. Pools and handle scopes have no call in the middle of an operation;
they are small data structures that unit tests reach.

## 6. Findings

`gc_finalize`: `ecma_finalize` repeats the collection while `ecma_gc_new_objects` is not 0
(`ecma-init-finalize.c:89`), which only the creation of an object raises. A free callback
that releases the last reference to another object during the last collection leaves that
object allocated: it was marked already. This is against the assertion of an empty heap
(`jmem-heap.c:107`) and against `docs/02.API-REFERENCE.md:421`, "At this point, all values
in the VM have been cleaned up"; and line 9179 allows such a callback.

`module_resolve`: with `export {x as y} from b` and, in b, `export * from a`,
`ecma_module_resolve_export` searches the star exports for `y`, the name asked of the
root, instead of `x` (`ecma-module.c:345`). In the run the export is reported as not found
although a exports x; if a exports y as well, that one is taken. The comment on the
function promises, if no error occurs, a record that satisfies the export, and refers to
section 15.2.1.16.3 of the standard, which goes on with the import name of an indirect
export. The run `exports` keeps names unchanged; for tables that also have no circular
indirect export, the proof of `ExportsSatisfied` shows that there is no other mistake of
this kind.

Things that changing a constant of a model, or a definition of it, shows. For some the
repository has a text that says otherwise, which is named; they are no runs of their own
because a constant excludes them from a run whose other cases matter, and the
counterexample is as short as the description here.

* `MarkLimit` = 0 (`JERRY_GC_MARK_LIMIT` 0, accepted by `config.h`): the passes move gray
  objects to the black list without marking what they refer to; `ReachableKept` fails.
* A free callback that dereferences a live WeakRef in the middle of a sweep may get an
  object that is about to be freed, and taking a reference ends the engine with the
  reference count limit error. `ObtainedAreLive` states this exception. The documentation
  (`docs/02.API-REFERENCE.md:9179`) allows API functions in a free callback and does not
  mention it.
* `ApiKinds` with async promises: `jerry_resolve_or_reject_promise` on the promise of an
  async function, which settles it again on exit, against the assertions that the promise
  is still pending (`ecma-promise-object.c:195` and `:251`).
* A thenable job clears the flag that all resolving functions of a promise share, so that
  a function of the old pair takes effect again; the promise is still settled once.
* The promise callback that runs the queue while an async function gets its promise: the
  function settles another promise, the one its caller has stays pending.
* `LinkCallbacks` = TRUE: a resolve callback that links or evaluates modules of the graph
  being linked finds modules that are still linking, and `LinkedClosed` fails; so does the
  assertion that a module which is evaluated is linked (`ecma-module.c:395`).
* `CreateCallbacks` = TRUE: a promise callback that sends a request while the promise of
  another one is created makes the generator start twice; `OneContinuation` fails.
* `Circular` = TRUE with four modules: a has `export * from b` and `export * from c`, b and
  d have a local x, c has `export {x} from a` and `export * from d`. To resolve x of a, the
  code follows the indirect export of c back to a, which was met already. It then goes on
  with the star exports of c (`ecma-module.c:307-348`), where the standard's lookup ends
  this branch, and finds the x of d. With the x of b found as well the name is
  reported as ambiguous, although the x of b is its only binding; in another order the x
  of d is the answer. `ExportSatisfied` fails, and with it the comment on
  `ecma_module_resolve_export` (`ecma-module.c:206`). The attempt to prove it without this
  assumption led here: three modules do not show it.
* `OneOutcome` = {}: the two element functions of `allSettled` have an index each, so a
  `then` that calls both counts its element off twice; `SettlesExactly` fails.

Seen while modelling: after `ecma_op_get_iterator` fails, the helper of the combinators
iterates the promise that the error path returned, and rejects a second time without
effect; a failed link keeps a request resolved to a module in error state;
`ecma_module_create_namespace_object` stores the object before it is filled; several
bindings of one name, reached through indirect exports, are reported as ambiguous or not
depending on their order (`ExportSatisfied` accepts both, since a wrong record is excluded
in either case).

## 7. Plan

Done: the heap with its proofs; collector; promises, async functions, combinators and
async generators; modules; property storage.

Left to model: the exports of native modules, synchronous generators (their running
state during a `yield*`), Map and Set iteration while entries are deleted, pools and
handle scopes. None of these shares a hazard with what is checked.

Proved: every safety property of a passing run but `ReactionsDecoded` (section 4).

Left to prove: abstract specifications in the style of `HeapPromise` for the others, with
their refinement: a promise as a register written once, the collector as "frees any set of
unreachable objects".
