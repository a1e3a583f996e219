------------------------------- MODULE EcmaGC -------------------------------
(***************************************************************************)
(* The garbage collector of jerry-core/ecma/base/ecma-gc.c with the weak   *)
(* containers of ecma-container-object.c and WeakRef, and the last         *)
(* collections of ecma-init-finalize.c.                                    *)
(*                                                                         *)
(* An object is what the collector sees of it: the objects it refers to    *)
(* (`refs': properties, prototype, scope, elements, reactions, whatever    *)
(* ecma_gc_mark visits for its type), what it holds weakly, and the        *)
(* reference count field, which counts the references of the rest of the   *)
(* engine outside a collection and is the colour of the object during one. *)
(*                                                                         *)
(* The engine is one thread, but a free callback of a native pointer runs  *)
(* in the middle of a sweep, may use the API, and may start another        *)
(* collection; `sweep' is the stack of the runs this interrupts.  The      *)
(* singly linked lists of ecma_gc_run are sets: the order of the objects   *)
(* is the order of their allocation, which may be any.                     *)
(***************************************************************************)
EXTENDS Integers, Sequences, FiniteSets

CONSTANTS Obj,         \* addresses of objects; a freed one is used again
          None,        \* a value that is not an object
          Kinds,       \* the kinds of objects the program creates
          MaxRef,      \* ECMA_OBJECT_MAX_REF
          MarkLimit,   \* JERRY_GC_MARK_LIMIT
          LoopLimit,   \* JERRY_GC_LOOP_LIMIT
          MaxLinks,    \* bound: strong and weak references in the heap
          MaxNest      \* bound: collections inside free callbacks

ASSUME ObjAssumption == None \notin Obj
ASSUME KindsAssumption ==
  Kinds \subseteq {"plain", "native", "weakmap", "weakset", "weakref"}
ASSUME MaxRefAssumption == MaxRef \in Nat \ {0}
ASSUME MarkLimitAssumption == MarkLimit \in Nat

VARIABLES
  list,        \* ecma_gc_objects_cp; the black list while a collection marks
  kind,        \* the object's type, "free" where no object lives
  refs,        \* the objects it refers to
  weak,        \* keys of a weak container, target of a WeakRef
  value,       \* value of a WeakMap entry
  weak_refs,   \* its WEAK_REFS property: the holders of weak references to it
  count,       \* reference count field of type_flags_refs
  handles,     \* references to it on the stack, in the API user's hands, ...
  new_objects, \* ecma_gc_new_objects is not 0
  pending,     \* holder and key of a weak reference whose set_weak has yet to run
  phase,       \* what the engine is doing
  white,       \* the white-gray list of the collection that marks
  todo,        \* objects the current pass over a list has yet to see
  marked,      \* marked_anything_during_current_iteration
  stack,       \* the activations of ecma_gc_mark, the innermost last
  strong,      \* what each activation has yet to visit: references,
  entries,     \*   entries of a WeakMap (by key),
  holders,     \*   and holders in WEAK_REFS
  sweep,       \* collections in their sweep: objects left, object being freed
  runs         \* collections ecma_finalize has started, 0 before it

graphVars == <<refs, weak, value, weak_refs>>
countVars == <<count, handles>>
markVars == <<white, todo, marked, stack, strong, entries, holders>>
vars == <<list, kind, graphVars, countVars, new_objects, pending, phase,
          markVars, sweep, runs>>

NonVisited == MaxRef + 1      \* ECMA_OBJECT_NON_VISITED: all bits of the field set
Visited(o) == count[o] # NonVisited
Allocated == {o \in Obj : kind[o] # "free"}
Nothing == [o \in Obj |-> {}]

Init ==
  /\ list = {}
  /\ kind = [o \in Obj |-> "free"]
  /\ refs = Nothing
  /\ weak = Nothing
  /\ value = [o \in Obj |-> [k \in Obj |-> None]]
  /\ weak_refs = Nothing
  /\ count = [o \in Obj |-> 0]
  /\ handles = [o \in Obj |-> 0]
  /\ new_objects = FALSE
  /\ pending = <<>>
  /\ phase = "run"
  /\ white = {}
  /\ todo = {}
  /\ marked = FALSE
  /\ stack = <<>>
  /\ strong = Nothing
  /\ entries = Nothing
  /\ holders = Nothing
  /\ sweep = <<>>
  /\ runs = 0

-----------------------------------------------------------------------------
(***************************************************************************)
(* The program: JavaScript, the API user, or a free callback.  It works on *)
(* objects it holds a counted reference to.                                *)
(***************************************************************************)
Running == phase = "run" /\ pending = <<>>
Held(o) == handles[o] > 0

\* Bound on the size of the graph.
RoomForLink ==
  Cardinality({l \in Obj \X Obj : l[2] \in refs[l[1]]})
    + Cardinality({l \in Obj \X Obj : l[2] \in weak[l[1]]}) < MaxLinks

UNCHANGED_GC == UNCHANGED <<markVars, sweep, runs>>

\* ecma_init_gc_info: the object is in the list and its creator holds it.
InitGcInfo(o) ==
  /\ list' = list \cup {o}
  /\ count' = [count EXCEPT ![o] = 1]
  /\ handles' = [handles EXCEPT ![o] = 1]
  /\ new_objects' = TRUE

\* ecma_create_object.
Create(o, k) ==
  /\ Running
  /\ kind[o] = "free"
  /\ k \in Kinds \ {"weakref"}
  /\ kind' = [kind EXCEPT ![o] = k]
  /\ InitGcInfo(o)
  /\ UNCHANGED <<graphVars, pending, phase>>
  /\ UNCHANGED_GC

\* new WeakRef (t): the reference back is not there yet, and making room for it
\* may start a collection.
CreateWeakRef(o, t) ==
  /\ Running
  /\ kind[o] = "free"
  /\ "weakref" \in Kinds
  /\ Held(t)
  /\ RoomForLink
  /\ kind' = [kind EXCEPT ![o] = "weakref"]
  /\ InitGcInfo(o)
  /\ weak' = [weak EXCEPT ![o] = {t}]
  /\ pending' = <<o, t>>
  /\ UNCHANGED <<refs, value, weak_refs, phase>>
  /\ UNCHANGED_GC

\* Where a reference can be copied from: a variable, a property of an object at
\* hand, WeakMap.prototype.get,
CanRead(o) ==
  \/ Held(o)
  \/ \E p \in Obj : Held(p) /\ o \in refs[p]
  \/ \E m, k \in Obj : Held(m) /\ Held(k) /\ k \in weak[m] /\ value[m][k] = o

\* and WeakRef.prototype.deref.
CanDeref(o) == \E w \in Obj : Held(w) /\ kind[w] = "weakref" /\ o \in weak[w]

CanGet(o) == CanRead(o) \/ CanDeref(o)

\* Faulty variant of RefObject: the limit is off by one.
RefObjectOnePastLimit(o) ==
  /\ Running
  /\ CanGet(o)
  /\ count[o] <= MaxRef
  /\ count' = [count EXCEPT ![o] = @ + 1]
  /\ handles' = [handles EXCEPT ![o] = @ + 1]
  /\ UNCHANGED <<list, kind, graphVars, new_objects, pending, phase>>
  /\ UNCHANGED_GC

\* ecma_ref_object.
RefObject(o) ==
  /\ Running
  /\ CanGet(o)
  /\ IF count[o] < MaxRef
       THEN /\ count' = [count EXCEPT ![o] = @ + 1]
            /\ handles' = [handles EXCEPT ![o] = @ + 1]
            /\ UNCHANGED phase
       ELSE /\ phase' = "fatal_ref"      \* ERR_REF_COUNT_LIMIT
            /\ UNCHANGED countVars
  /\ UNCHANGED <<list, kind, graphVars, new_objects, pending>>
  /\ UNCHANGED_GC

\* ecma_deref_object.
DerefObject(o) ==
  /\ Running
  /\ Held(o)
  /\ count' = [count EXCEPT ![o] = @ - 1]
  /\ handles' = [handles EXCEPT ![o] = @ - 1]
  /\ UNCHANGED <<list, kind, graphVars, new_objects, pending, phase>>
  /\ UNCHANGED_GC

\* A property, a prototype, a scope... is set or removed.
SetReference(p, c) ==
  /\ Running
  /\ Held(p) /\ Held(c)
  /\ c \notin refs[p]
  /\ RoomForLink
  /\ refs' = [refs EXCEPT ![p] = @ \cup {c}]
  /\ UNCHANGED <<list, kind, weak, value, weak_refs, countVars, new_objects,
                 pending, phase>>
  /\ UNCHANGED_GC

DeleteReference(p, c) ==
  /\ Running
  /\ Held(p)
  /\ c \in refs[p]
  /\ refs' = [refs EXCEPT ![p] = @ \ {c}]
  /\ UNCHANGED <<list, kind, weak, value, weak_refs, countVars, new_objects,
                 pending, phase>>
  /\ UNCHANGED_GC

\* ecma_op_container_set on a weak container: a new entry is appended, an old one
\* updated.  A WeakSet stores no value, and a WeakMap with a value that is not an
\* object is like one.
ContainerSet(m, k, v) ==
  /\ Running
  /\ kind[m] \in {"weakmap", "weakset"}
  /\ Held(m) /\ Held(k)
  /\ IF kind[m] = "weakmap" THEN v # None /\ Held(v) ELSE v = None
  /\ k \in weak[m] \/ RoomForLink
  /\ weak' = [weak EXCEPT ![m] = @ \cup {k}]
  /\ value' = [value EXCEPT ![m][k] = v]
  /\ pending' = IF k \in weak[m] THEN <<>> ELSE <<m, k>>
  /\ UNCHANGED <<list, kind, refs, weak_refs, countVars, new_objects, phase>>
  /\ UNCHANGED_GC

\* ecma_op_object_set_weak, which may allocate before it adds the holder.
SetWeak ==
  /\ phase = "run"
  /\ pending # <<>>
  /\ weak_refs' = [weak_refs EXCEPT ![pending[2]] = @ \cup {pending[1]}]
  /\ pending' = <<>>
  /\ UNCHANGED <<list, kind, refs, weak, value, countVars, new_objects, phase>>
  /\ UNCHANGED_GC

\* ecma_op_container_delete_weak.
ContainerDelete(m, k) ==
  /\ Running
  /\ kind[m] \in {"weakmap", "weakset"}
  /\ Held(m) /\ Held(k)
  /\ k \in weak[m]
  /\ weak' = [weak EXCEPT ![m] = @ \ {k}]
  /\ value' = [value EXCEPT ![m][k] = None]
  /\ weak_refs' = [weak_refs EXCEPT ![k] = @ \ {m}]
  /\ UNCHANGED <<list, kind, refs, countVars, new_objects, pending, phase>>
  /\ UNCHANGED_GC

-----------------------------------------------------------------------------
(***************************************************************************)
(* Marking.                                                                *)
(***************************************************************************)

\* The first loop of ecma_gc_run: objects with references are roots and move to
\* the black list, the others become white.
StartRun ==
  LET roots == {o \in list : count[o] > 0}
  IN /\ new_objects' = FALSE
     /\ list' = roots
     /\ white' = list \ roots
     /\ count' = [o \in Obj |-> IF o \in list \ roots THEN NonVisited ELSE count[o]]
     /\ phase' = "roots"
     /\ todo' = roots
     /\ UNCHANGED <<marked, stack, strong, entries, holders>>

\* A collection starts where the program allocates or asks for one.
GcRun ==
  /\ phase = "run"
  /\ Len(sweep) < MaxNest
  /\ StartRun
  /\ UNCHANGED <<kind, graphVars, handles, pending, sweep, runs>>

\* ecma_gc_mark (o) is entered, with s, e, h as the work of the other activations.
Enter(o, s, e, h) ==
  /\ stack' = Append(stack, o)
  /\ strong' = [s EXCEPT ![o] = refs[o]]
  /\ entries' = [e EXCEPT ![o] = IF kind[o] = "weakmap" THEN weak[o] ELSE {}]
  /\ holders' = [h EXCEPT ![o] = weak_refs[o]]

\* ecma_gc_set_object_visited (c), with s, e, h as the work left.
SetObjectVisited(c, s, e, h) ==
  IF Visited(c)
    THEN /\ strong' = s /\ entries' = e /\ holders' = h
         /\ UNCHANGED <<count, stack>>
    ELSE IF MarkLimit = 0
    THEN /\ count' = [count EXCEPT ![c] = 0]
         /\ strong' = s /\ entries' = e /\ holders' = h
         /\ UNCHANGED stack
    ELSE IF Len(stack) <= MarkLimit
    THEN /\ count' = [count EXCEPT ![c] = 0]
         /\ Enter(c, s, e, h)
    ELSE /\ count' = [count EXCEPT ![c] = 1]      \* gray, not marked
         /\ strong' = s /\ entries' = e /\ holders' = h
         /\ UNCHANGED stack

Top == stack[Len(stack)]
Marking == phase \in {"roots", "pass"} /\ stack # <<>>

MarkUnchanged ==
  UNCHANGED <<list, kind, graphVars, handles, new_objects, pending, phase, white,
              todo, marked, sweep, runs>>

MarkReference(c) ==
  /\ Marking
  /\ c \in strong[Top]
  /\ SetObjectVisited(c, [strong EXCEPT ![Top] = @ \ {c}], entries, holders)
  /\ MarkUnchanged

\* Faulty variant of MarkEntry: the value counts whether the key is alive or not.
MarkEntryStrong(k) ==
  LET rest == [entries EXCEPT ![Top] = @ \ {k}]
  IN /\ Marking
     /\ k \in entries[Top]
     /\ IF value[Top][k] # None
          THEN SetObjectVisited(value[Top][k], strong, rest, holders)
          ELSE entries' = rest /\ UNCHANGED <<count, stack, strong, holders>>
     /\ MarkUnchanged

\* ecma_gc_mark_weakmap_object: the value counts only if the key is alive.
MarkEntry(k) ==
  LET rest == [entries EXCEPT ![Top] = @ \ {k}]
  IN /\ Marking
     /\ k \in entries[Top]
     /\ IF value[Top][k] # None /\ Visited(k)
          THEN SetObjectVisited(value[Top][k], strong, rest, holders)
          ELSE entries' = rest /\ UNCHANGED <<count, stack, strong, holders>>
     /\ MarkUnchanged

\* The WEAK_REFS case of ecma_gc_mark_properties: the values stored under the
\* object in the WeakMaps that are alive.
MarkHolder(m) ==
  LET rest == [holders EXCEPT ![Top] = @ \ {m}]
  IN /\ Marking
     /\ m \in holders[Top]
     /\ IF kind[m] = "weakmap" /\ Visited(m) /\ value[m][Top] # None
          THEN SetObjectVisited(value[m][Top], strong, entries, rest)
          ELSE holders' = rest /\ UNCHANGED <<count, stack, strong, entries>>
     /\ MarkUnchanged

MarkReturn ==
  /\ Marking
  /\ strong[Top] = {} /\ entries[Top] = {} /\ holders[Top] = {}
  /\ stack' = SubSeq(stack, 1, Len(stack) - 1)
  /\ UNCHANGED <<count, strong, entries, holders>>
  /\ MarkUnchanged

\* The second loop: roots are marked.
MarkRoot(o) ==
  /\ phase = "roots"
  /\ stack = <<>>
  /\ o \in todo
  /\ todo' = todo \ {o}
  /\ Enter(o, strong, entries, holders)
  /\ UNCHANGED <<list, kind, graphVars, countVars, new_objects, pending, phase,
                 white, marked, sweep, runs>>

\* Faulty variant of StartPass: the flag is not reset.
StartPassKeepsFlag ==
  /\ stack = <<>>
  /\ todo = {}
  /\ phase = "roots" \/ (phase = "pass" /\ marked)
  /\ phase' = "pass"
  /\ todo' = white
  /\ UNCHANGED <<list, kind, graphVars, countVars, new_objects, pending, white,
                 marked, stack, strong, entries, holders, sweep, runs>>

\* A pass over the white-gray list starts.
StartPass ==
  /\ stack = <<>>
  /\ todo = {}
  /\ phase = "roots" \/ (phase = "pass" /\ marked)
  /\ phase' = "pass"
  /\ todo' = white
  /\ marked' = FALSE
  /\ UNCHANGED <<list, kind, graphVars, countVars, new_objects, pending, white,
                 stack, strong, entries, holders, sweep, runs>>

\* Faulty variants of PassVisited: a gray object keeps the count 1 that made it
\* gray; a gray object is taken for a marked one.
PassVisitedKeepsCount(o) ==
  /\ phase = "pass"
  /\ stack = <<>>
  /\ o \in todo
  /\ Visited(o)
  /\ todo' = todo \ {o}
  /\ white' = white \ {o}
  /\ list' = list \cup {o}
  /\ IF MarkLimit # 0 /\ count[o] > 0
       THEN Enter(o, strong, entries, holders) /\ marked' = TRUE
       ELSE UNCHANGED <<marked, stack, strong, entries, holders>>
  /\ UNCHANGED <<kind, graphVars, countVars, new_objects, pending, phase, sweep, runs>>

PassVisitedNeverMarks(o) ==
  /\ phase = "pass"
  /\ stack = <<>>
  /\ o \in todo
  /\ Visited(o)
  /\ todo' = todo \ {o}
  /\ white' = white \ {o}
  /\ list' = list \cup {o}
  /\ count' = [count EXCEPT ![o] = 0]
  /\ marked' = TRUE
  /\ UNCHANGED <<kind, graphVars, handles, new_objects, pending, phase, stack,
                 strong, entries, holders, sweep, runs>>

\* One iteration of the pass: an object that was visited moves to the black list,
\* and is marked now if the recursion limit had left it gray.
PassVisited(o) ==
  /\ phase = "pass"
  /\ stack = <<>>
  /\ o \in todo
  /\ Visited(o)
  /\ todo' = todo \ {o}
  /\ white' = white \ {o}
  /\ list' = list \cup {o}
  /\ IF MarkLimit # 0 /\ count[o] > 0
       THEN /\ count' = [count EXCEPT ![o] = 0]
            /\ Enter(o, strong, entries, holders)
            /\ marked' = TRUE
       ELSE /\ marked' = (marked \/ MarkLimit = 0)
            /\ UNCHANGED <<count, stack, strong, entries, holders>>
  /\ UNCHANGED <<kind, graphVars, handles, new_objects, pending, phase, sweep, runs>>

PassWhite(o) ==
  /\ phase = "pass"
  /\ stack = <<>>
  /\ o \in todo
  /\ ~Visited(o)
  /\ todo' = todo \ {o}
  /\ UNCHANGED <<list, kind, graphVars, countVars, new_objects, pending, phase,
                 white, marked, stack, strong, entries, holders, sweep, runs>>

\* Nothing was marked in the last pass: what is still in the list is garbage.
MarkingDone == phase = "pass" /\ stack = <<>> /\ todo = {} /\ ~marked

StartSweep ==
  /\ MarkingDone
  /\ phase' = "sweep"
  /\ sweep' = Append(sweep, [white |-> white, obj |-> None])
  /\ white' = {}
  /\ UNCHANGED <<list, kind, graphVars, countVars, new_objects, pending, todo,
                 marked, stack, strong, entries, holders, runs>>

-----------------------------------------------------------------------------
(***************************************************************************)
(* Sweep.                                                                  *)
(***************************************************************************)
Frame == sweep[Len(sweep)]

\* Faulty variant of LeaveKeys: the keys of a freed container still list it.
LeaveKeysForgotten(o) == weak_refs' = [weak_refs EXCEPT ![o] = {}]

\* o is freed and leaves, as a holder, the WEAK_REFS of its keys
\* (ecma_op_container_free_entries, the WeakRef case of ecma_gc_free_object).
LeaveKeys(o) ==
  weak_refs' = [k \in Obj |-> IF k = o THEN {}
                             ELSE IF k \in weak[o] THEN weak_refs[k] \ {o}
                             ELSE weak_refs[k]]

\* Faulty variant of LeaveHolders: the holders of a freed key still hold it.
LeaveHoldersForgotten(o) ==
  /\ weak' = [weak EXCEPT ![o] = {}]
  /\ value' = [value EXCEPT ![o] = [k \in Obj |-> None]]

\* As a key, o leaves the containers and WeakRefs that hold it (the WEAK_REFS case
\* of ecma_gc_free_property, ecma_op_container_remove_weak_entry).
LeaveHolders(o) ==
  LET held(h, k) == h = o \/ (k = o /\ h \in weak_refs[o])
  IN /\ weak' = [h \in Obj |-> {k \in weak[h] : ~held(h, k)}]
     /\ value' = [h \in Obj |-> [k \in Obj |-> IF held(h, k) THEN None ELSE value[h][k]]]

Unlink(o) == LeaveKeys(o) /\ LeaveHolders(o)

\* ecma_dealloc_object: the memory is free again.
Dealloc(o) ==
  /\ kind' = [kind EXCEPT ![o] = "free"]
  /\ refs' = [refs EXCEPT ![o] = {}]
  /\ count' = [count EXCEPT ![o] = 0]

\* ecma_gc_free_object of an object without a free callback.
FreeObject(o) ==
  /\ phase = "sweep"
  /\ o \in Frame.white
  /\ kind[o] # "native"
  /\ Unlink(o)
  /\ Dealloc(o)
  /\ sweep' = [sweep EXCEPT ![Len(sweep)].white = @ \ {o}]
  /\ UNCHANGED <<list, handles, new_objects, pending, phase, markVars, runs>>

\* Faulty variant of CallFreeCallback: the object stays in the list of the sweep.
CallFreeCallbackKeepsObject(o) ==
  /\ phase = "sweep"
  /\ o \in Frame.white
  /\ kind[o] = "native"
  /\ sweep' = [sweep EXCEPT ![Len(sweep)].obj = o]
  /\ phase' = "run"
  /\ UNCHANGED <<list, kind, graphVars, countVars, new_objects, pending, markVars, runs>>

\* ecma_gc_free_native_pointer calls the free callback, before or after the
\* WEAK_REFS property of the object is freed.
CallFreeCallback(o) ==
  /\ phase = "sweep"
  /\ o \in Frame.white
  /\ kind[o] = "native"
  /\ sweep' = [sweep EXCEPT ![Len(sweep)] = [white |-> @.white \ {o}, obj |-> o]]
  /\ phase' = "run"
  /\ Unlink(o) \/ UNCHANGED <<weak, value, weak_refs>>
  /\ UNCHANGED <<list, kind, refs, countVars, new_objects, pending, markVars, runs>>

\* The callback returns, and the rest of the object is freed.
FreeCallbackReturns ==
  /\ Running
  /\ sweep # <<>>
  /\ phase' = "sweep"
  /\ Unlink(Frame.obj)
  /\ Dealloc(Frame.obj)
  /\ sweep' = [sweep EXCEPT ![Len(sweep)].obj = None]
  /\ UNCHANGED <<list, handles, new_objects, pending, markVars, runs>>

\* The collection returns to the program, to the callback it was called from, or
\* to ecma_finalize.
EndRun ==
  /\ phase = "sweep"
  /\ Frame.white = {}
  /\ sweep' = SubSeq(sweep, 1, Len(sweep) - 1)
  /\ phase' = IF sweep' = <<>> /\ runs > 0 THEN "finalize" ELSE "run"
  /\ UNCHANGED <<list, kind, graphVars, countVars, new_objects, pending, markVars, runs>>

-----------------------------------------------------------------------------
(***************************************************************************)
(* ecma_finalize: collect until no new objects appear.                     *)
(***************************************************************************)
Finalize ==
  /\ Running
  /\ sweep = <<>>
  /\ runs' = 1
  /\ StartRun
  /\ UNCHANGED <<kind, graphVars, handles, pending, sweep>>

FinalizeAgain ==
  /\ phase = "finalize"
  /\ runs < LoopLimit
  /\ new_objects
  /\ runs' = runs + 1
  /\ StartRun
  /\ UNCHANGED <<kind, graphVars, handles, pending, sweep>>

FinalizeDone ==
  /\ phase = "finalize"
  /\ runs >= LoopLimit \/ ~new_objects
  /\ phase' = IF runs >= LoopLimit THEN "fatal_loops"    \* ERR_UNTERMINATED_GC_LOOPS
                                   ELSE "finalized"
  /\ UNCHANGED <<list, kind, graphVars, countVars, new_objects, pending, markVars,
                 sweep, runs>>

Stopped == {"fatal_ref", "fatal_loops", "finalized"}
Terminated == phase \in Stopped /\ UNCHANGED vars

-----------------------------------------------------------------------------
Program ==
  \/ \E o \in Obj : \/ \E k \in Kinds : Create(o, k)
                    \/ \E t \in Obj : CreateWeakRef(o, t)
                    \/ RefObject(o)
                    \/ DerefObject(o)
  \/ \E p, c \in Obj : SetReference(p, c) \/ DeleteReference(p, c)
  \/ \E m, k \in Obj, v \in Obj \cup {None} : ContainerSet(m, k, v)
  \/ \E m, k \in Obj : ContainerDelete(m, k)
  \/ SetWeak
  \/ GcRun
  \/ Finalize

MarkStep ==
  \/ \E o \in Obj : MarkReference(o) \/ MarkEntry(o) \/ MarkHolder(o) \/ MarkRoot(o)
  \/ MarkReturn
  \/ StartPass
  \/ \E o \in Obj : PassVisited(o) \/ PassWhite(o)
  \/ StartSweep

SweepStep ==
  \/ \E o \in Obj : FreeObject(o) \/ CallFreeCallback(o)
  \/ EndRun

FinalizeStep == FinalizeAgain \/ FinalizeDone

Next == Program \/ MarkStep \/ SweepStep \/ FreeCallbackReturns \/ FinalizeStep \/ Terminated

Spec == Init /\ [][Next]_vars

\* A collection that was started runs: nothing else does until it returns or calls
\* a free callback.
FairSpec == Spec /\ WF_vars(MarkStep \/ SweepStep \/ FinalizeStep)

-----------------------------------------------------------------------------
(***************************************************************************)
(* Properties.                                                             *)
(***************************************************************************)
Sets == [Obj -> SUBSET Obj]

\* Every variable has a value the C declarations allow: a count field never leaves
\* its bits, and no more references are counted than the field can hold.
TypeOK ==
  /\ list \subseteq Obj
  /\ kind \in [Obj -> Kinds \cup {"free"}]
  /\ refs \in Sets
  /\ weak \in Sets
  /\ value \in [Obj -> [Obj -> Obj \cup {None}]]
  /\ weak_refs \in Sets
  /\ count \in [Obj -> 0..NonVisited]
  /\ handles \in [Obj -> 0..MaxRef]
  /\ new_objects \in BOOLEAN
  /\ pending \in {<<>>} \cup (Obj \X Obj)
  /\ phase \in {"run", "roots", "pass", "sweep", "finalize"} \cup Stopped
  /\ white \subseteq Obj
  /\ todo \subseteq Obj
  /\ marked \in BOOLEAN
  /\ stack \in Seq(Obj)
  /\ strong \in Sets
  /\ entries \in Sets
  /\ holders \in Sets
  /\ sweep \in Seq([white : SUBSET Obj, obj : Obj \cup {None}])
  /\ runs \in Nat

\* S is closed: with an object it has what the object refers to, and with a
\* WeakMap and one of its keys, the value.
Closed(S) ==
  /\ \A o \in S : refs[o] \subseteq S
  /\ \A m, k \in S : kind[m] = "weakmap" /\ k \in weak[m] /\ value[m][k] # None
                       => value[m][k] \in S

\* What the program can still get at.
Reachable ==
  {o \in Obj : \A S \in SUBSET Obj :
                 (\A r \in Obj : Held(r) => r \in S) /\ Closed(S) => o \in S}

\* No object the program can get at is freed: whenever the program or a callback
\* runs, and all through the sweep, it is in the list of live objects.
ReachableKept ==
  phase \in {"run", "sweep", "finalize"} => Reachable \subseteq list

\* A collection frees exactly what the program cannot get at: nothing reachable,
\* in whatever order a WeakMap and its keys are marked, and when marking is over
\* the list has nothing else (a WeakMap keeps no value whose key is dead).
FreesExactly ==
  /\ ReachableKept
  /\ MarkingDone => list \subseteq Reachable

\* A collection gives the reference count fields back: outside of one each field
\* is the number of references the engine holds.
CountsRestored == phase = "run" => \A o \in list : count[o] = handles[o]

\* Every object is in one place: in the list of live objects, in the white-gray
\* list, left to sweep in one of the collections under way, or being freed by one.
\* A callback that creates objects and collects them leaves the interrupted sweep
\* what it has to free, and nothing is freed twice or lost.
OnePlace ==
  LET places == {list, white} \cup {sweep[i].white : i \in DOMAIN sweep}
      freed == {sweep[i].obj : i \in DOMAIN sweep} \ {None}
  IN /\ Allocated = (UNION places) \cup freed
     /\ \A S \in places : S \cap freed = {}
     /\ \A S, T \in places : S = T \/ S \cap T = {}

\* What a free callback may do in the middle of a sweep, to create, link and
\* release objects and to collect once more, leaves the interrupted sweep its
\* objects, the program its own and the count fields exact.
CallbackSafe == OnePlace /\ ReachableKept /\ CountsRestored

\* Both ends of a weak reference know each other, whichever of the two is freed
\* first; only a collection inside set_weak may see one end alone.  A sweep
\* follows these links into other objects, which must not be freed before.
WeakLinks ==
  \A h, k \in Obj :
    /\ k \in weak[h] => /\ kind[h] # "free" /\ kind[k] # "free"
                        /\ h \in weak_refs[k] \/ pending = <<h, k>>
    /\ h \in weak_refs[k] => k \in weak[h]

\* Whatever the program copies a reference from, also in a free callback in the
\* middle of a sweep, it gets a live object, with one exception: what a WeakRef
\* gives a callback may be an object that is still to be swept.  It is not freed yet
\* and its count field is full, so that ecma_ref_object ends the engine and gives no
\* reference to it.
ObtainedAreLive ==
  Running =>
    \A o \in Obj :
      /\ CanRead(o) => o \in list
      /\ CanDeref(o) =>
           \/ o \in list
           \/ o \in Allocated /\ sweep # <<>> /\ count[o] >= MaxRef

\* After ecma_finalize no object is left that nobody holds: the assertion of
\* jmem_heap_finalize, and what the documentation tells finalize callbacks.
FinalizedEmpty ==
  phase = "finalized" /\ (\A o \in Obj : ~Held(o)) => Allocated = {}

\* Every collection comes to its end.
CollectionEnds ==
  phase \in {"roots", "pass", "sweep", "finalize"} ~> phase \in {"run"} \cup Stopped
=============================================================================
