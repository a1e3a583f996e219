---------------------------- MODULE EcmaGCProofs ----------------------------
(***************************************************************************)
(* The collector, for every heap, every number of objects and every        *)
(* nesting of collections in free callbacks, if the marking may recurse at *)
(* all (MarkLimit # 0; without it a gray object is never marked and the    *)
(* properties are false).                                                  *)
(***************************************************************************)
EXTENDS EcmaGC, SequenceFacts, TLAPS

-----------------------------------------------------------------------------
(* The inductive invariant.                                                *)

InFrame(f, o) == o \in f.white \/ o = f.obj
Swept(o) == \E i \in 1 .. Len(sweep) : InFrame(sweep[i], o)
Here == list \cup white
InMark == phase \in {"roots", "pass"}

\* An object is in one of the lists, or in one frame of the sweeps, once.
PlacesOK ==
  /\ list \cap white = {}
  /\ \A o \in Obj : kind[o] # "free" <=> o \in Here \/ Swept(o)
  /\ \A o \in Here : ~Swept(o)
  /\ \A i, j \in 1 .. Len(sweep) : \A o \in Obj :
       InFrame(sweep[i], o) /\ InFrame(sweep[j], o) => i = j
  /\ \A i \in 1 .. Len(sweep) : sweep[i].obj \notin sweep[i].white

\* What a count field means, by the place of the object.
CountsOK ==
  \A o \in Obj :
    /\ Swept(o) => handles[o] = 0 /\ count[o] = NonVisited
    /\ o \in white => handles[o] = 0 /\ count[o] \in {0, 1, NonVisited}
    /\ o \notin white /\ ~Swept(o) => count[o] = handles[o]

\* The frame that sweeps frees no object; the interrupted ones are in a callback.
SweepOK ==
  /\ \A i \in 1 .. Len(sweep) :
       IF i = Len(sweep) /\ phase = "sweep"
         THEN sweep[i].obj = None
         ELSE sweep[i].obj \in Obj /\ kind[sweep[i].obj] = "native"
  /\ phase = "sweep" => sweep # <<>>
  /\ phase \in {"finalize", "finalized"} => sweep = <<>> /\ runs > 0
  /\ phase = "run" /\ runs > 0 => sweep # <<>>

\* Only activations have work left, and it is part of what their object has.
WorkOK ==
  /\ InMark \/ (white = {} /\ todo = {} /\ stack = <<>>)
  /\ \A x \in Obj : strong[x] # {} \/ entries[x] # {} \/ holders[x] # {} =>
       \E i \in 1 .. Len(stack) : stack[i] = x
  /\ \A i \in 1 .. Len(stack) : stack[i] \in Here /\ Visited(stack[i])
  /\ \A x \in Obj : /\ strong[x] \subseteq refs[x]
                    /\ \A k \in entries[x] : k \in weak[x]
                    /\ holders[x] \subseteq weak_refs[x]
  /\ phase = "roots" => todo \subseteq list
  /\ phase = "pass" => todo \subseteq white

\* Memory that is free has no references; a weak reference whose other end is
\* missing is in the hands of the program.
GraphOK ==
  /\ WeakLinks
  /\ \A o \in Obj : kind[o] = "free" => refs[o] = {}
  /\ \A m, k \in Obj : value[m][k] # None => k \in weak[m] /\ kind[m] = "weakmap"
  /\ pending # <<>> => /\ Held(pending[1]) /\ Held(pending[2])
                        /\ pending[2] \in weak[pending[1]]

\* What the program holds is alive, and what is alive or not yet decided refers to
\* such objects only.
KeptOK ==
  /\ \A o \in Obj : Held(o) => o \in list
  /\ Closed(Here)

\* Visited, and still to be marked.
Waiting(x) == (phase = "roots" /\ x \in todo) \/ (x \in white /\ count[x] = 1)

\* The references of x are visited, or will be.
RefsSeen(x) == \A c \in refs[x] : Visited(c) \/ c \in strong[x] \/ Waiting(x)

\* The value under the key k of the map m is visited, or will be: m still has the
\* entry to look at, or k still has the holder.
ValueSeen(m, k) ==
  k \in weak[m] /\ value[m][k] # None =>
    \/ Visited(value[m][k])
    \/ k \in entries[m] \/ Waiting(m)
    \/ m \in holders[k] \/ (Waiting(k) /\ m \in weak_refs[k])

\* Marking: what is visited is reachable, and nothing visited is forgotten.  A pass
\* that has marked nothing has left no visited object behind.
ColoursOK ==
  InMark =>
    /\ \A x \in Here : Visited(x) => x \in Reachable
    /\ \A x \in Here : Visited(x) => RefsSeen(x)
    /\ \A m, k \in Here : Visited(m) /\ Visited(k) => ValueSeen(m, k)
    /\ phase = "pass" /\ ~marked =>
         /\ stack = <<>>
         /\ \A x \in white : x \in todo \/ ~Visited(x)

GCInv == /\ TypeOK /\ PlacesOK /\ CountsOK /\ SweepOK /\ WorkOK
         /\ GraphOK /\ KeptOK /\ ColoursOK

-----------------------------------------------------------------------------
(* Reachability.                                                           *)

LEMMA ReachableIn ==
  ASSUME NEW S \in SUBSET Obj, \A r \in Obj : Held(r) => r \in S, Closed(S)
  PROVE  Reachable \subseteq S
  BY DEF Reachable

LEMMA ReachableHeld ==
  ASSUME NEW r \in Obj, Held(r)
  PROVE  r \in Reachable
  BY DEF Reachable

LEMMA ReachableRefs ==
  ASSUME TypeOK, NEW x \in Reachable, NEW c \in refs[x]
  PROVE  c \in Reachable
<1>1. x \in Obj /\ c \in Obj
  BY DEF Reachable, TypeOK, Sets
<1>2. ASSUME NEW S \in SUBSET Obj, \A r \in Obj : Held(r) => r \in S, Closed(S)
      PROVE  c \in S
  <2>1. x \in S
    BY <1>2, ReachableIn
  <2> QED BY <1>2, <2>1 DEF Closed
<1> QED BY <1>1, <1>2 DEF Reachable

LEMMA ReachableValue ==
  ASSUME TypeOK, NEW m \in Reachable, NEW k \in Reachable,
         kind[m] = "weakmap", k \in weak[m], value[m][k] # None
  PROVE  value[m][k] \in Reachable
<1>1. m \in Obj /\ k \in Obj /\ value[m][k] \in Obj
  BY DEF Reachable, TypeOK
<1>2. ASSUME NEW S \in SUBSET Obj, \A r \in Obj : Held(r) => r \in S, Closed(S)
      PROVE  value[m][k] \in S
  <2>1. m \in S /\ k \in S
    BY <1>2, ReachableIn
  <2> QED BY <1>2, <2>1 DEF Closed
<1> QED BY <1>1, <1>2 DEF Reachable

LEMMA ReachableSame ==
  ASSUME kind' = kind, refs' = refs, weak' = weak, value' = value, handles' = handles
  PROVE  Reachable' = Reachable
  BY DEF Reachable, Closed, Held

-----------------------------------------------------------------------------
(* Parts of the invariant that a step leaves alone.                        *)

LEMMA PlacesSame ==
  ASSUME PlacesOK, list' = list, white' = white, kind' = kind, sweep' = sweep
  PROVE  PlacesOK'
  BY DEF PlacesOK, Here, Swept, InFrame

LEMMA CountsSame ==
  ASSUME CountsOK, count' = count, handles' = handles, white' = white, sweep' = sweep
  PROVE  CountsOK'
  BY DEF CountsOK, Swept, InFrame

LEMMA GraphSame ==
  ASSUME GraphOK, kind' = kind, refs' = refs, weak' = weak, value' = value,
         weak_refs' = weak_refs, pending' = pending, handles' = handles
  PROVE  GraphOK'
  BY DEF GraphOK, WeakLinks, Held

LEMMA KeptSame ==
  ASSUME KeptOK, kind' = kind, refs' = refs, weak' = weak, value' = value,
         handles' = handles, Here' = Here, \A o \in Obj : Held(o) => o \in list'
  PROVE  KeptOK'
  BY DEF KeptOK, Closed, Held

LEMMA SweepSame ==
  ASSUME SweepOK, sweep' = sweep, runs' = runs, phase # "sweep",
         phase' \in {"run", "roots", "pass", "fatal_ref", "fatal_loops"},
         phase' = "run" => phase = "run",
         \A o \in Obj : kind[o] = "native" => kind'[o] = "native"
  PROVE  SweepOK'
  BY DEF SweepOK

LEMMA Numbers ==
  NonVisited \in Nat /\ NonVisited = MaxRef + 1 /\ MaxRef \in Nat /\ MaxRef >= 1
  BY MaxRefAssumption DEF NonVisited

-----------------------------------------------------------------------------
LEMMA InitInv ==
  ASSUME Init
  PROVE  GCInv
<1>1. Len(sweep) = 0 /\ Len(stack) = 0
  BY EmptySeq DEF Init
<1>2. \A i \in 1 .. Len(sweep) : FALSE
  BY <1>1
<1>3. \A i \in 1 .. Len(stack) : FALSE
  BY <1>1
<1>4. TypeOK
  <2>1. stack \in Seq(Obj) /\ sweep \in Seq([white : SUBSET Obj, obj : Obj \cup {None}])
    BY EmptySeq DEF Init
  <2>2. /\ kind \in [Obj -> Kinds \cup {"free"}]
        /\ count \in [Obj -> 0 .. NonVisited]
        /\ handles \in [Obj -> 0 .. MaxRef]
        /\ value \in [Obj -> [Obj -> Obj \cup {None}]]
    BY Numbers DEF Init
  <2>3. Nothing \in Sets
    BY DEF Nothing, Sets
  <2> QED BY <2>1, <2>2, <2>3 DEF Init, TypeOK
<1>5. PlacesOK /\ CountsOK /\ SweepOK
  BY <1>2 DEF Init, PlacesOK, CountsOK, SweepOK, Here, Swept
<1>6. WorkOK
  BY <1>3 DEF Init, WorkOK, Nothing
<1>7. GraphOK
  BY DEF Init, GraphOK, WeakLinks, Nothing
<1>8. KeptOK /\ ColoursOK
  BY DEF Init, KeptOK, ColoursOK, Closed, Here, Held, InMark
<1> QED BY <1>4, <1>5, <1>6, <1>7, <1>8 DEF GCInv

-----------------------------------------------------------------------------
(* The program.                                                            *)

\* A step of the program leaves the collector's own state alone.
LEMMA ProgramRest ==
  ASSUME GCInv, phase = "run", phase' \in {"run", "fatal_ref"},
         UNCHANGED markVars, sweep' = sweep, runs' = runs,
         \A o \in Obj : kind[o] = "native" => kind'[o] = "native"
  PROVE  WorkOK' /\ SweepOK' /\ ColoursOK' /\ white = {}
<1>1. /\ white' = white /\ todo' = todo /\ stack' = stack /\ strong' = strong
      /\ entries' = entries /\ holders' = holders /\ marked' = marked
  BY DEF markVars
<1>2. white = {} /\ todo = {} /\ stack = <<>>
  BY DEF GCInv, WorkOK, InMark
<1>3. \A i \in 1 .. Len(stack) : FALSE
  BY <1>2, EmptySeq
<1>4. \A x \in Obj : strong[x] = {} /\ entries[x] = {} /\ holders[x] = {}
  BY <1>3 DEF GCInv, WorkOK
<1>5. WorkOK'
  BY <1>1, <1>2, <1>3, <1>4 DEF WorkOK, InMark
<1>6. SweepOK'
  BY SweepSame DEF GCInv
<1>7. ColoursOK'
  BY DEF ColoursOK, InMark
<1> QED BY <1>2, <1>5, <1>6, <1>7

LEMMA NewObject ==
  ASSUME GCInv, white = {}, NEW o \in Obj, kind[o] = "free", NEW k \in Kinds,
         kind' = [kind EXCEPT ![o] = k], InitGcInfo(o), white' = white, sweep' = sweep
  PROVE  /\ PlacesOK' /\ CountsOK'
         /\ kind' \in [Obj -> Kinds \cup {"free"}] /\ list' \subseteq Obj
         /\ count' \in [Obj -> 0 .. NonVisited] /\ handles' \in [Obj -> 0 .. MaxRef]
         /\ kind'[o] = k /\ kind'[o] # "free"
         /\ \A x \in Obj : x # o => kind'[x] = kind[x] /\ handles'[x] = handles[x]
<1>1. k # "free"
  BY KindsAssumption
<1>2. /\ list' = list \cup {o} /\ count' = [count EXCEPT ![o] = 1]
      /\ handles' = [handles EXCEPT ![o] = 1]
  BY DEF InitGcInfo
<1>3. /\ kind \in [Obj -> Kinds \cup {"free"}] /\ list \subseteq Obj
      /\ count \in [Obj -> 0 .. NonVisited] /\ handles \in [Obj -> 0 .. MaxRef]
  BY DEF GCInv, TypeOK
<1>4. /\ kind'[o] = k /\ count'[o] = 1 /\ handles'[o] = 1
      /\ \A x \in Obj : x # o => /\ kind'[x] = kind[x] /\ count'[x] = count[x]
                                 /\ handles'[x] = handles[x]
  BY <1>2, <1>3
<1>5. /\ kind' \in [Obj -> Kinds \cup {"free"}] /\ list' \subseteq Obj
      /\ count' \in [Obj -> 0 .. NonVisited] /\ handles' \in [Obj -> 0 .. MaxRef]
  BY <1>2, <1>3, Numbers
<1>6. \A x \in Obj : Swept(x)' <=> Swept(x)
  BY DEF Swept, InFrame
<1>7. ~Swept(o)
  BY DEF GCInv, PlacesOK
<1>8. Here' = list \cup {o} /\ Here = list
  BY <1>2 DEF Here
<1>9. PlacesOK'
  <2>1. \A x \in Obj : (kind'[x] # "free") <=> (x \in Here' \/ Swept(x)')
    BY <1>1, <1>4, <1>6, <1>7, <1>8 DEF GCInv, PlacesOK
  <2>2. \A x \in Here' : ~Swept(x)'
    BY <1>3, <1>6, <1>7, <1>8 DEF GCInv, PlacesOK
  <2>3. /\ \A i, j \in 1 .. Len(sweep) : \A x \in Obj :
             InFrame(sweep[i], x) /\ InFrame(sweep[j], x) => i = j
        /\ \A i \in 1 .. Len(sweep) : sweep[i].obj \notin sweep[i].white
    BY DEF GCInv, PlacesOK
  <2> QED BY <2>1, <2>2, <2>3 DEF PlacesOK, InFrame
<1>10. CountsOK'
  BY <1>4, <1>6, <1>7 DEF CountsOK, GCInv
<1> QED BY <1>1, <1>4, <1>5, <1>9, <1>10

LEMMA CreateInv ==
  ASSUME GCInv, NEW o \in Obj, NEW k \in Kinds, Create(o, k)
  PROVE  GCInv'
<1>1. /\ phase = "run" /\ pending = <<>> /\ kind[o] = "free" /\ k # "weakref"
      /\ kind' = [kind EXCEPT ![o] = k] /\ InitGcInfo(o)
      /\ refs' = refs /\ weak' = weak /\ value' = value /\ weak_refs' = weak_refs
      /\ pending' = pending /\ phase' = phase /\ UNCHANGED markVars
      /\ sweep' = sweep /\ runs' = runs /\ white' = white
  BY DEF Create, Running, UNCHANGED_GC, graphVars, markVars
<1>2. list' = list \cup {o} /\ new_objects' = TRUE /\ handles'[o] = 1
  BY <1>1 DEF InitGcInfo, GCInv, TypeOK
<1>3. \A x \in Obj : kind[x] = "native" => kind'[x] = "native"
  BY <1>1 DEF GCInv, TypeOK
<1>4. WorkOK' /\ SweepOK' /\ ColoursOK' /\ white = {}
  BY <1>1, <1>3, ProgramRest
<1>5. /\ PlacesOK' /\ CountsOK'
      /\ kind' \in [Obj -> Kinds \cup {"free"}] /\ list' \subseteq Obj
      /\ count' \in [Obj -> 0 .. NonVisited] /\ handles' \in [Obj -> 0 .. MaxRef]
      /\ kind'[o] = k /\ kind'[o] # "free"
      /\ \A x \in Obj : x # o => kind'[x] = kind[x] /\ handles'[x] = handles[x]
  BY <1>1, <1>4, NewObject
<1>6. TypeOK'
  BY <1>1, <1>2, <1>5 DEF GCInv, TypeOK, markVars
<1>7. GraphOK'
  <2>1. WeakLinks'
    BY <1>1, <1>5 DEF GCInv, GraphOK, WeakLinks
  <2>2. \A x \in Obj : kind'[x] = "free" => refs'[x] = {}
    BY <1>1, <1>5 DEF GCInv, GraphOK
  <2>3. \A m, j \in Obj : value'[m][j] # None => j \in weak'[m] /\ kind'[m] = "weakmap"
    BY <1>1, <1>5 DEF GCInv, GraphOK
  <2> QED BY <1>1, <2>1, <2>2, <2>3 DEF GraphOK
<1>8. KeptOK'
  <2>1. \A x \in Obj : Held(x)' => x \in list'
    BY <1>2, <1>5 DEF GCInv, KeptOK, Held
  <2>2. Here' = list \cup {o} /\ Here = list /\ list \subseteq Obj
    BY <1>1, <1>2, <1>4 DEF Here, GCInv, TypeOK
  <2>3. refs[o] = {} /\ \A m \in Obj : value[o][m] = None /\ o \notin weak[m]
    BY <1>1 DEF GCInv, GraphOK, WeakLinks
  <2>4. Closed(list)
    BY <2>2 DEF GCInv, KeptOK
  <2>5. Closed(Here)'
    BY <1>1, <1>5, <2>2, <2>3, <2>4 DEF Closed
  <2> QED BY <2>1, <2>5 DEF KeptOK
<1> QED BY <1>4, <1>5, <1>6, <1>7, <1>8 DEF GCInv

LEMMA CreateWeakRefInv ==
  ASSUME GCInv, NEW o \in Obj, NEW t \in Obj, CreateWeakRef(o, t)
  PROVE  GCInv'
<1>1. /\ phase = "run" /\ pending = <<>> /\ kind[o] = "free" /\ "weakref" \in Kinds
      /\ Held(t) /\ kind' = [kind EXCEPT ![o] = "weakref"] /\ InitGcInfo(o)
      /\ refs' = refs /\ weak' = [weak EXCEPT ![o] = {t}] /\ value' = value
      /\ weak_refs' = weak_refs
      /\ pending' = <<o, t>> /\ phase' = phase /\ UNCHANGED markVars
      /\ sweep' = sweep /\ runs' = runs /\ white' = white
  BY DEF CreateWeakRef, Running, UNCHANGED_GC, markVars
<1>2. list' = list \cup {o} /\ new_objects' = TRUE /\ handles'[o] = 1
  BY <1>1 DEF InitGcInfo, GCInv, TypeOK
<1>3. \A x \in Obj : kind[x] = "native" => kind'[x] = "native"
  BY <1>1 DEF GCInv, TypeOK
<1>4. WorkOK' /\ SweepOK' /\ ColoursOK' /\ white = {}
  BY <1>1, <1>3, ProgramRest
<1>5. /\ PlacesOK' /\ CountsOK'
      /\ kind' \in [Obj -> Kinds \cup {"free"}] /\ list' \subseteq Obj
      /\ count' \in [Obj -> 0 .. NonVisited] /\ handles' \in [Obj -> 0 .. MaxRef]
      /\ kind'[o] = "weakref" /\ kind'[o] # "free"
      /\ \A x \in Obj : x # o => kind'[x] = kind[x] /\ handles'[x] = handles[x]
  BY <1>1, <1>4, NewObject
<1>6. weak' \in Sets /\ weak'[o] = {t} /\ \A x \in Obj : x # o => weak'[x] = weak[x]
  BY <1>1 DEF GCInv, TypeOK, Sets
<1>7. TypeOK'
  BY <1>1, <1>2, <1>5, <1>6 DEF GCInv, TypeOK, markVars
<1>8. t \in list /\ kind[t] # "free" /\ t # o
  BY <1>1 DEF GCInv, KeptOK, PlacesOK, Here
<1>9. refs[o] = {} /\ \A m \in Obj : value[o][m] = None /\ o \notin weak[m] /\ m \notin weak_refs[o]
                                     /\ o \notin weak_refs[m]
  BY <1>1 DEF GCInv, GraphOK, WeakLinks
<1>10. GraphOK'
  <2>1. WeakLinks'
    <3> SUFFICES ASSUME NEW h \in Obj, NEW k \in Obj
                 PROVE  /\ k \in weak'[h] => /\ kind'[h] # "free" /\ kind'[k] # "free"
                                             /\ h \in weak_refs'[k] \/ pending' = <<h, k>>
                        /\ h \in weak_refs'[k] => k \in weak'[h]
      BY DEF WeakLinks
    <3>1. CASE h = o
      BY <1>1, <1>5, <1>6, <1>8, <1>9, <3>1
    <3>2. CASE h # o
      BY <1>1, <1>5, <1>6, <3>2 DEF GCInv, GraphOK, WeakLinks
    <3> QED BY <3>1, <3>2
  <2>2. \A x \in Obj : kind'[x] = "free" => refs'[x] = {}
    BY <1>1, <1>5 DEF GCInv, GraphOK
  <2>3. \A m, j \in Obj : value'[m][j] # None => j \in weak'[m] /\ kind'[m] = "weakmap"
    BY <1>1, <1>5, <1>6, <1>9 DEF GCInv, GraphOK
  <2>4. pending'[1] = o /\ pending'[2] = t
    BY <1>1
  <2>5. Held(o)' /\ Held(t)' /\ t \in weak'[o]
    BY <1>1, <1>2, <1>5, <1>6, <1>8 DEF Held
  <2> QED BY <2>1, <2>2, <2>3, <2>4, <2>5 DEF GraphOK
<1>11. KeptOK'
  <2>1. \A x \in Obj : Held(x)' => x \in list'
    BY <1>2, <1>5 DEF GCInv, KeptOK, Held
  <2>2. Here' = list \cup {o} /\ Here = list /\ list \subseteq Obj
    BY <1>1, <1>2, <1>4 DEF Here, GCInv, TypeOK
  <2>4. Closed(list)
    BY <2>2 DEF GCInv, KeptOK
  <2>5. Closed(Here)'
    BY <1>1, <1>5, <1>6, <1>9, <2>2, <2>4 DEF Closed
  <2> QED BY <2>1, <2>5 DEF KeptOK
<1> QED BY <1>4, <1>5, <1>7, <1>10, <1>11 DEF GCInv

\* Whatever a reference is copied from, it is one to an object that is not freed.
LEMMA GetAllocated ==
  ASSUME GCInv, white = {}, NEW o \in Obj, CanGet(o)
  PROVE  o \in list \/ Swept(o)
<1>1. \A x \in Obj : Held(x) => x \in list
  BY DEF GCInv, KeptOK
<1>2. CASE Held(o)
  BY <1>1, <1>2
<1>3. CASE \E p \in Obj : Held(p) /\ o \in refs[p]
  BY <1>1, <1>3 DEF GCInv, KeptOK, Closed, Here
<1>4. CASE \E w \in Obj : Held(w) /\ kind[w] = "weakref" /\ o \in weak[w]
  BY <1>4 DEF GCInv, GraphOK, WeakLinks, PlacesOK, Here
<1>5. CASE \E m, k \in Obj : Held(m) /\ Held(k) /\ k \in weak[m] /\ value[m][k] = o
  <2>1. PICK m, k \in Obj : Held(m) /\ Held(k) /\ k \in weak[m] /\ value[m][k] = o
    BY <1>5
  <2>2. value[m][k] # None /\ kind[m] = "weakmap"
    BY <2>1, ObjAssumption DEF GCInv, GraphOK
  <2> QED BY <1>1, <2>1, <2>2 DEF GCInv, KeptOK, Closed, Here
<1> QED BY <1>2, <1>3, <1>4, <1>5 DEF CanGet, CanRead, CanDeref

\* A reference count changes by one, of an object in the list.
LEMMA CountStep ==
  ASSUME GCInv, white = {}, NEW o \in Obj, NEW n \in 0 .. MaxRef, o \in list, pending = <<>>,
         count' = [count EXCEPT ![o] = n], handles' = [handles EXCEPT ![o] = n],
         list' = list, kind' = kind, refs' = refs, weak' = weak, value' = value,
         weak_refs' = weak_refs, pending' = pending, white' = white, sweep' = sweep
  PROVE  /\ PlacesOK' /\ CountsOK' /\ GraphOK' /\ KeptOK'
         /\ count' \in [Obj -> 0 .. NonVisited] /\ handles' \in [Obj -> 0 .. MaxRef]
<1>1. count \in [Obj -> 0 .. NonVisited] /\ handles \in [Obj -> 0 .. MaxRef]
  BY DEF GCInv, TypeOK
<1>2. count' \in [Obj -> 0 .. NonVisited] /\ handles' \in [Obj -> 0 .. MaxRef]
  BY <1>1, Numbers
<1>3. /\ count'[o] = n /\ handles'[o] = n
      /\ \A x \in Obj : x # o => count'[x] = count[x] /\ handles'[x] = handles[x]
  BY <1>1
<1>4. PlacesOK'
  BY PlacesSame DEF GCInv
<1>5. ~Swept(o) /\ \A x \in Obj : Swept(x)' <=> Swept(x)
  BY DEF GCInv, PlacesOK, Here, Swept, InFrame
<1>6. CountsOK'
  BY <1>3, <1>5 DEF GCInv, CountsOK
<1>7. GraphOK'
  BY DEF GCInv, GraphOK, WeakLinks
<1>8. KeptOK'
  <2>1. \A x \in Obj : Held(x)' => x \in list'
    BY <1>3 DEF GCInv, KeptOK, Held
  <2> QED BY <2>1 DEF GCInv, KeptOK, Closed, Here
<1> QED BY <1>2, <1>4, <1>6, <1>7, <1>8

LEMMA RefObjectInv ==
  ASSUME GCInv, NEW o \in Obj, RefObject(o)
  PROVE  GCInv'
<1>1. /\ phase = "run" /\ pending = <<>> /\ CanGet(o)
      /\ list' = list /\ kind' = kind /\ refs' = refs /\ weak' = weak /\ value' = value
      /\ weak_refs' = weak_refs /\ new_objects' = new_objects /\ pending' = pending
      /\ UNCHANGED markVars /\ sweep' = sweep /\ runs' = runs /\ white' = white
  BY DEF RefObject, Running, UNCHANGED_GC, graphVars, markVars
<1>2. \/ /\ count[o] < MaxRef /\ phase' = phase
         /\ count' = [count EXCEPT ![o] = @ + 1] /\ handles' = [handles EXCEPT ![o] = @ + 1]
      \/ phase' = "fatal_ref" /\ count' = count /\ handles' = handles
  BY DEF RefObject, countVars
<1>3. WorkOK' /\ SweepOK' /\ ColoursOK' /\ white = {}
  BY <1>1, <1>2, ProgramRest
<1>4. CASE phase' = phase /\ count[o] < MaxRef /\ count' = [count EXCEPT ![o] = @ + 1]
           /\ handles' = [handles EXCEPT ![o] = @ + 1]
  <2>1. ~Swept(o)
    BY <1>4, Numbers DEF GCInv, CountsOK
  <2>2. o \in list
    BY <1>1, <1>3, <2>1, GetAllocated
  <2>3. count[o] = handles[o] /\ count[o] \in Nat
    BY <1>3, <2>1 DEF GCInv, CountsOK, TypeOK
  <2>4. PICK n \in 0 .. MaxRef : n = count[o] + 1
    BY <1>4, <2>3, Numbers
  <2>5. count' = [count EXCEPT ![o] = n] /\ handles' = [handles EXCEPT ![o] = n]
    BY <1>4, <2>3, <2>4
  <2>6. /\ PlacesOK' /\ CountsOK' /\ GraphOK' /\ KeptOK'
        /\ count' \in [Obj -> 0 .. NonVisited] /\ handles' \in [Obj -> 0 .. MaxRef]
    BY <1>1, <1>3, <2>2, <2>5, CountStep
  <2>7. TypeOK'
    BY <1>1, <1>4, <2>6 DEF GCInv, TypeOK, markVars
  <2> QED BY <1>3, <2>6, <2>7 DEF GCInv
<1>5. CASE phase' = "fatal_ref" /\ count' = count /\ handles' = handles
  <2>1. TypeOK'
    BY <1>1, <1>5 DEF GCInv, TypeOK, markVars, Stopped
  <2>2. PlacesOK' /\ CountsOK' /\ GraphOK'
    BY <1>1, <1>5, PlacesSame, CountsSame, GraphSame DEF GCInv
  <2>3. KeptOK'
    BY <1>1, <1>5 DEF GCInv, KeptOK, Closed, Here, Held
  <2> QED BY <1>3, <2>1, <2>2, <2>3 DEF GCInv
<1> QED BY <1>2, <1>4, <1>5

LEMMA DerefObjectInv ==
  ASSUME GCInv, NEW o \in Obj, DerefObject(o)
  PROVE  GCInv'
<1>1. /\ phase = "run" /\ pending = <<>> /\ Held(o) /\ phase' = phase
      /\ list' = list /\ kind' = kind /\ refs' = refs /\ weak' = weak /\ value' = value
      /\ weak_refs' = weak_refs /\ new_objects' = new_objects /\ pending' = pending
      /\ UNCHANGED markVars /\ sweep' = sweep /\ runs' = runs /\ white' = white
      /\ count' = [count EXCEPT ![o] = @ - 1] /\ handles' = [handles EXCEPT ![o] = @ - 1]
  BY DEF DerefObject, Running, UNCHANGED_GC, graphVars, markVars
<1>2. WorkOK' /\ SweepOK' /\ ColoursOK' /\ white = {}
  BY <1>1, ProgramRest
<1>3. o \in list /\ ~Swept(o)
  BY <1>1 DEF GCInv, KeptOK, PlacesOK, Here
<1>4. count[o] = handles[o] /\ handles[o] \in 0 .. MaxRef /\ handles[o] > 0
  BY <1>1, <1>2, <1>3 DEF GCInv, CountsOK, TypeOK, Held
<1>5. PICK n \in 0 .. MaxRef : n = count[o] - 1
  BY <1>4, Numbers
<1>6. count' = [count EXCEPT ![o] = n] /\ handles' = [handles EXCEPT ![o] = n]
  BY <1>1, <1>4, <1>5
<1>7. /\ PlacesOK' /\ CountsOK' /\ GraphOK' /\ KeptOK'
      /\ count' \in [Obj -> 0 .. NonVisited] /\ handles' \in [Obj -> 0 .. MaxRef]
  BY <1>1, <1>2, <1>3, <1>6, CountStep
<1>8. TypeOK'
  BY <1>1, <1>7 DEF GCInv, TypeOK, markVars
<1> QED BY <1>2, <1>7, <1>8 DEF GCInv

\* A step that changes the graph and nothing else.
GraphStep ==
  /\ phase = "run" /\ phase' = phase /\ list' = list /\ kind' = kind
  /\ count' = count /\ handles' = handles /\ new_objects' = new_objects
  /\ UNCHANGED markVars /\ sweep' = sweep /\ runs' = runs

LEMMA GraphStepInv ==
  ASSUME GCInv, GraphStep, GraphOK', Closed(list)',
         refs' \in Sets, weak' \in Sets, weak_refs' \in Sets,
         value' \in [Obj -> [Obj -> Obj \cup {None}]],
         pending' \in {<<>>} \cup (Obj \X Obj)
  PROVE  GCInv'
<1>1. /\ phase = "run" /\ phase' = phase /\ list' = list /\ kind' = kind
      /\ count' = count /\ handles' = handles /\ new_objects' = new_objects
      /\ UNCHANGED markVars /\ sweep' = sweep /\ runs' = runs /\ white' = white
  BY DEF GraphStep, markVars
<1>2. WorkOK' /\ SweepOK' /\ ColoursOK' /\ white = {}
  BY <1>1, ProgramRest
<1>3. TypeOK'
  BY <1>1 DEF GCInv, TypeOK, markVars
<1>4. PlacesOK' /\ CountsOK'
  BY <1>1, PlacesSame, CountsSame DEF GCInv
<1>5. KeptOK'
  <2>1. Here' = list'
    BY <1>1, <1>2 DEF Here
  <2>2. \A x \in Obj : Held(x)' => x \in list'
    BY <1>1 DEF GCInv, KeptOK, Held
  <2> QED BY <2>1, <2>2 DEF KeptOK, Closed
<1> QED BY <1>2, <1>3, <1>4, <1>5 DEF GCInv

LEMMA ListClosed ==
  ASSUME GCInv, phase = "run"
  PROVE  /\ Closed(list) /\ list \subseteq Obj
         /\ \A o \in Obj : Held(o) => o \in list /\ kind[o] # "free"
<1>1. white = {}
  BY DEF GCInv, WorkOK, InMark
<1>2. Here = list
  BY <1>1 DEF Here
<1> QED BY <1>2 DEF GCInv, KeptOK, TypeOK, PlacesOK

LEMMA SetReferenceInv ==
  ASSUME GCInv, NEW p \in Obj, NEW c \in Obj, SetReference(p, c)
  PROVE  GCInv'
<1>1. /\ GraphStep /\ phase = "run" /\ Held(p) /\ Held(c)
      /\ refs' = [refs EXCEPT ![p] = @ \cup {c}]
      /\ weak' = weak /\ value' = value /\ weak_refs' = weak_refs /\ pending' = pending
      /\ kind' = kind /\ handles' = handles /\ list' = list
  BY DEF SetReference, Running, UNCHANGED_GC, countVars, GraphStep
<1>2. refs' \in Sets /\ \A x \in Obj : refs'[x] = IF x = p THEN refs[p] \cup {c} ELSE refs[x]
  BY <1>1 DEF GCInv, TypeOK, Sets
<1>3. GraphOK'
  BY <1>1, <1>2, ListClosed DEF GCInv, GraphOK, WeakLinks, Held
<1>4. Closed(list)'
  BY <1>1, <1>2, ListClosed DEF Closed
<1> QED BY <1>1, <1>2, <1>3, <1>4, GraphStepInv DEF GCInv, TypeOK

LEMMA DeleteReferenceInv ==
  ASSUME GCInv, NEW p \in Obj, NEW c \in Obj, DeleteReference(p, c)
  PROVE  GCInv'
<1>1. /\ GraphStep /\ phase = "run"
      /\ refs' = [refs EXCEPT ![p] = @ \ {c}]
      /\ weak' = weak /\ value' = value /\ weak_refs' = weak_refs /\ pending' = pending
      /\ kind' = kind /\ handles' = handles /\ list' = list
  BY DEF DeleteReference, Running, UNCHANGED_GC, countVars, GraphStep
<1>2. refs' \in Sets /\ \A x \in Obj : refs'[x] \subseteq refs[x]
  BY <1>1 DEF GCInv, TypeOK, Sets
<1>3. GraphOK'
  BY <1>1, <1>2 DEF GCInv, GraphOK, WeakLinks, Held
<1>4. Closed(list)'
  BY <1>1, <1>2, ListClosed DEF Closed
<1> QED BY <1>1, <1>2, <1>3, <1>4, GraphStepInv DEF GCInv, TypeOK

LEMMA ContainerSetInv ==
  ASSUME GCInv, NEW m \in Obj, NEW k \in Obj, NEW v \in Obj \cup {None}, ContainerSet(m, k, v)
  PROVE  GCInv'
<1>1. /\ GraphStep /\ phase = "run" /\ pending = <<>> /\ Held(m) /\ Held(k)
      /\ kind[m] = "weakmap" => v # None /\ Held(v)
      /\ kind[m] # "weakmap" => v = None
      /\ weak' = [weak EXCEPT ![m] = @ \cup {k}] /\ value' = [value EXCEPT ![m][k] = v]
      /\ pending' = IF k \in weak[m] THEN <<>> ELSE <<m, k>>
      /\ refs' = refs /\ weak_refs' = weak_refs
      /\ kind' = kind /\ handles' = handles /\ list' = list
  BY DEF ContainerSet, Running, UNCHANGED_GC, countVars, GraphStep
<1>2. /\ weak' \in Sets
      /\ \A x \in Obj : weak'[x] = IF x = m THEN weak[m] \cup {k} ELSE weak[x]
  BY <1>1 DEF GCInv, TypeOK, Sets
<1>3. /\ value' \in [Obj -> [Obj -> Obj \cup {None}]]
      /\ \A x, y \in Obj : value'[x][y] = IF x = m /\ y = k THEN v ELSE value[x][y]
  BY <1>1 DEF GCInv, TypeOK
<1>4. m \in list /\ k \in list /\ kind[m] # "free" /\ kind[k] # "free"
  BY <1>1, ListClosed
<1>5. WeakLinks'
  <2> SUFFICES ASSUME NEW h \in Obj, NEW j \in Obj
               PROVE  /\ j \in weak'[h] => /\ kind'[h] # "free" /\ kind'[j] # "free"
                                           /\ h \in weak_refs'[j] \/ pending' = <<h, j>>
                      /\ h \in weak_refs'[j] => j \in weak'[h]
    BY DEF WeakLinks
  <2>1. /\ j \in weak[h] => kind[h] # "free" /\ kind[j] # "free" /\ h \in weak_refs[j]
        /\ h \in weak_refs[j] => j \in weak[h]
    BY <1>1 DEF GCInv, GraphOK, WeakLinks
  <2>2. CASE h = m /\ j = k
    BY <1>1, <1>2, <1>4, <2>1, <2>2
  <2>3. CASE ~(h = m /\ j = k)
    BY <1>1, <1>2, <2>1, <2>3
  <2> QED BY <2>2, <2>3
<1>6. GraphOK'
  <2>1. \A x, y \in Obj : value'[x][y] # None => y \in weak'[x] /\ kind'[x] = "weakmap"
    <3> SUFFICES ASSUME NEW x \in Obj, NEW y \in Obj, value'[x][y] # None
                 PROVE  y \in weak'[x] /\ kind[x] = "weakmap"
      BY <1>1
    <3>1. CASE x = m /\ y = k
      BY <1>1, <1>2, <1>3, <3>1
    <3>2. CASE ~(x = m /\ y = k)
      BY <1>1, <1>2, <1>3, <3>2 DEF GCInv, GraphOK
    <3> QED BY <3>1, <3>2
  <2>2. (pending # <<>> => /\ Held(pending[1]) /\ Held(pending[2])
                           /\ pending[2] \in weak[pending[1]])'
    <3>1. Held(m)' /\ Held(k)' /\ k \in weak'[m]
      BY <1>1, <1>2 DEF Held
    <3>2. CASE k \in weak[m]
      BY <1>1, <3>2
    <3>3. CASE k \notin weak[m]
      <4>1. pending'[1] = m /\ pending'[2] = k
        BY <1>1, <3>3
      <4> QED BY <3>1, <4>1 DEF Held
    <3> QED BY <3>2, <3>3
  <2> QED BY <1>1, <1>5, <2>1, <2>2 DEF GCInv, GraphOK, Held
<1>7. Closed(list)'
  <2>1. v # None => v \in list
    BY <1>1, ListClosed
  <2>2. Closed(list) /\ list \subseteq Obj
    BY <1>1, ListClosed
  <2>3. \A x \in list : refs'[x] \subseteq list
    BY <1>1, <2>2 DEF Closed
  <2>4. \A x, y \in list : kind[x] = "weakmap" /\ y \in weak'[x] /\ value'[x][y] # None
                            => value'[x][y] \in list
    <3> SUFFICES ASSUME NEW x \in list, NEW y \in list, kind[x] = "weakmap", value'[x][y] # None
                 PROVE  value'[x][y] \in list
      OBVIOUS
    <3>1. CASE x = m /\ y = k
      BY <1>3, <2>1, <3>1
    <3>2. CASE ~(x = m /\ y = k)
      <4>1. value'[x][y] = value[x][y] /\ x \in Obj /\ y \in Obj
        BY <1>3, <2>2, <3>2
      <4>2. y \in weak[x]
        BY <4>1 DEF GCInv, GraphOK
      <4> QED BY <2>2, <4>1, <4>2 DEF Closed
    <3> QED BY <3>1, <3>2
  <2> QED BY <1>1, <2>3, <2>4 DEF Closed
<1>8. pending' \in {<<>>} \cup (Obj \X Obj)
  BY <1>1
<1>9. refs' \in Sets /\ weak_refs' \in Sets
  BY <1>1 DEF GCInv, TypeOK
<1> QED BY <1>1, <1>2, <1>3, <1>6, <1>7, <1>8, <1>9, GraphStepInv

LEMMA SetWeakInv ==
  ASSUME GCInv, SetWeak
  PROVE  GCInv'
<1>1. /\ GraphStep /\ phase = "run" /\ pending # <<>> /\ pending' = <<>>
      /\ weak_refs' = [weak_refs EXCEPT ![pending[2]] = @ \cup {pending[1]}]
      /\ refs' = refs /\ weak' = weak /\ value' = value
      /\ kind' = kind /\ handles' = handles /\ list' = list
  BY DEF SetWeak, UNCHANGED_GC, countVars, GraphStep
<1>2. PICK h, k \in Obj : pending = <<h, k>>
  BY <1>1 DEF GCInv, TypeOK
<1>3. pending[1] = h /\ pending[2] = k
  BY <1>2
<1>4. /\ weak_refs' \in Sets
      /\ \A x \in Obj : weak_refs'[x] = IF x = k THEN weak_refs[k] \cup {h} ELSE weak_refs[x]
  BY <1>1, <1>3 DEF GCInv, TypeOK, Sets
<1>5. k \in weak[h]
  BY <1>1, <1>3 DEF GCInv, GraphOK
<1>6. WeakLinks'
  <2> SUFFICES ASSUME NEW x \in Obj, NEW j \in Obj
               PROVE  /\ j \in weak'[x] => /\ kind'[x] # "free" /\ kind'[j] # "free"
                                           /\ x \in weak_refs'[j] \/ pending' = <<x, j>>
                      /\ x \in weak_refs'[j] => j \in weak'[x]
    BY DEF WeakLinks
  <2>1. /\ j \in weak[x] => /\ kind[x] # "free" /\ kind[j] # "free"
                            /\ x \in weak_refs[j] \/ pending = <<x, j>>
        /\ x \in weak_refs[j] => j \in weak[x]
    BY DEF GCInv, GraphOK, WeakLinks
  <2>2. pending = <<x, j>> => x = h /\ j = k
    BY <1>2
  <2> QED BY <1>1, <1>4, <1>5, <2>1, <2>2
<1>7. GraphOK'
  BY <1>1, <1>6 DEF GCInv, GraphOK
<1>8. Closed(list)'
  BY <1>1, ListClosed DEF Closed
<1>9. /\ refs' \in Sets /\ weak' \in Sets /\ value' \in [Obj -> [Obj -> Obj \cup {None}]]
      /\ pending' \in {<<>>} \cup (Obj \X Obj)
  BY <1>1 DEF GCInv, TypeOK
<1> QED BY <1>1, <1>4, <1>7, <1>8, <1>9, GraphStepInv

LEMMA ContainerDeleteInv ==
  ASSUME GCInv, NEW m \in Obj, NEW k \in Obj, ContainerDelete(m, k)
  PROVE  GCInv'
<1>1. /\ GraphStep /\ phase = "run" /\ pending = <<>> /\ pending' = pending
      /\ weak' = [weak EXCEPT ![m] = @ \ {k}] /\ value' = [value EXCEPT ![m][k] = None]
      /\ weak_refs' = [weak_refs EXCEPT ![k] = @ \ {m}] /\ refs' = refs
      /\ kind' = kind /\ handles' = handles /\ list' = list
  BY DEF ContainerDelete, Running, UNCHANGED_GC, countVars, GraphStep
<1>2. /\ weak' \in Sets /\ weak_refs' \in Sets
      /\ \A x, y \in Obj : /\ y \in weak'[x] <=> y \in weak[x] /\ ~(x = m /\ y = k)
                           /\ x \in weak_refs'[y] <=> x \in weak_refs[y] /\ ~(x = m /\ y = k)
  BY <1>1 DEF GCInv, TypeOK, Sets
<1>3. /\ value' \in [Obj -> [Obj -> Obj \cup {None}]]
      /\ \A x, y \in Obj : value'[x][y] = IF x = m /\ y = k THEN None ELSE value[x][y]
  BY <1>1 DEF GCInv, TypeOK
<1>4. WeakLinks'
  BY <1>1, <1>2 DEF GCInv, GraphOK, WeakLinks
<1>5. GraphOK'
  BY <1>1, <1>2, <1>3, <1>4 DEF GCInv, GraphOK
<1>6. Closed(list)'
  <2>1. Closed(list) /\ list \subseteq Obj
    BY <1>1, ListClosed
  <2> QED BY <1>1, <1>2, <1>3, <2>1 DEF Closed
<1>7. refs' \in Sets /\ pending' \in {<<>>} \cup (Obj \X Obj)
  BY <1>1 DEF GCInv, TypeOK
<1> QED BY <1>1, <1>2, <1>3, <1>5, <1>6, <1>7, GraphStepInv

-----------------------------------------------------------------------------
(* A collection starts.                                                    *)

LEMMA StartRunInv ==
  ASSUME GCInv, phase \in {"run", "finalize"}, StartRun,
         kind' = kind, refs' = refs, weak' = weak, value' = value, weak_refs' = weak_refs,
         handles' = handles, pending' = pending, sweep' = sweep, runs' \in Nat
  PROVE  GCInv'
<1>1. PICK roots : roots = {o \in list : count[o] > 0}
  OBVIOUS
<1>2. /\ new_objects' = FALSE /\ list' = roots /\ white' = list \ roots /\ phase' = "roots"
      /\ count' = [o \in Obj |-> IF o \in list \ roots THEN NonVisited ELSE count[o]]
      /\ todo' = roots /\ marked' = marked /\ stack' = stack /\ strong' = strong
      /\ entries' = entries /\ holders' = holders
  BY <1>1 DEF StartRun
<1>3. white = {} /\ todo = {} /\ stack = <<>> /\ list \subseteq Obj
  BY DEF GCInv, WorkOK, InMark, TypeOK
<1>4. Here' = Here /\ Here = list
  BY <1>1, <1>2, <1>3 DEF Here
<1>5. \A x \in Obj : Swept(x)' <=> Swept(x)
  BY DEF Swept, InFrame
<1>6. count \in [Obj -> 0 .. NonVisited] /\ handles \in [Obj -> 0 .. MaxRef]
  BY DEF GCInv, TypeOK
<1>7. \A o \in list : /\ count[o] = handles[o] /\ ~Swept(o)
                      /\ o \in roots <=> Held(o)
                      /\ o \notin roots => handles[o] = 0
  BY <1>1, <1>3, <1>4, <1>6 DEF GCInv, CountsOK, PlacesOK, Held
<1>8. TypeOK'
  <2>1. count' \in [Obj -> 0 .. NonVisited]
    BY <1>2, <1>6, Numbers
  <2>2. list' \subseteq Obj /\ white' \subseteq Obj /\ todo' \subseteq Obj
    BY <1>1, <1>2, <1>3
  <2> QED BY <1>2, <2>1, <2>2 DEF GCInv, TypeOK
<1>9. PlacesOK'
  <2>1. list' \cap white' = {}
    BY <1>2
  <2>2. \A x \in Here : x \in Obj
    BY <1>3, <1>4
  <2>3. /\ \A o \in Obj : (kind'[o] # "free") <=> (o \in Here' \/ Swept(o)')
        /\ \A o \in Here' : ~Swept(o)'
    BY <1>4, <1>5, <2>2 DEF GCInv, PlacesOK
  <2> QED BY <2>1, <2>3 DEF GCInv, PlacesOK, InFrame
<1>10. CountsOK'
  BY <1>1, <1>2, <1>3, <1>5, <1>6, <1>7 DEF GCInv, CountsOK
<1>11. SweepOK'
  BY <1>2 DEF GCInv, SweepOK
<1>12. GraphOK'
  BY GraphSame DEF GCInv
<1>13. \A o \in Obj : Held(o) => o \in list'
  BY <1>2, <1>7 DEF GCInv, KeptOK
<1>14. KeptOK'
  BY <1>4, <1>13, KeptSame DEF GCInv
<1>15. \A i \in 1 .. Len(stack) : FALSE
  BY <1>3, EmptySeq
<1>16. WorkOK'
  BY <1>2, <1>15 DEF GCInv, WorkOK, InMark
<1>17. \A x \in Here' : Visited(x)' => x \in roots
  BY <1>1, <1>2, <1>3, <1>4 DEF Visited, NonVisited
<1>18. ColoursOK'
  <2>1. \A x \in roots : x \in Reachable /\ Waiting(x)'
    BY <1>1, <1>2, <1>3, <1>7, ReachableHeld DEF Waiting
  <2>2. Reachable' = Reachable
    BY ReachableSame
  <2>3. \A x \in Here' : Visited(x)' => x \in Reachable' /\ RefsSeen(x)'
    BY <1>17, <2>1, <2>2 DEF RefsSeen
  <2>4. \A m, k \in Here' : Visited(m)' /\ Visited(k)' => ValueSeen(m, k)'
    BY <1>17, <2>1 DEF ValueSeen
  <2> QED BY <1>2, <2>3, <2>4 DEF ColoursOK
<1> QED BY <1>8, <1>9, <1>10, <1>11, <1>12, <1>14, <1>16, <1>18 DEF GCInv

LEMMA StartInv ==
  ASSUME GCInv, GcRun \/ Finalize \/ FinalizeAgain
  PROVE  GCInv'
<1>1. /\ phase \in {"run", "finalize"} /\ StartRun
      /\ kind' = kind /\ refs' = refs /\ weak' = weak /\ value' = value
      /\ weak_refs' = weak_refs /\ handles' = handles /\ pending' = pending /\ sweep' = sweep
  BY DEF GcRun, Finalize, FinalizeAgain, Running, graphVars
<1>2. runs' \in Nat
  BY DEF GcRun, Finalize, FinalizeAgain, GCInv, TypeOK
<1> QED BY <1>1, <1>2, StartRunInv

-----------------------------------------------------------------------------
(* Marking.                                                                *)

\* What an activation has done with is visited or does not matter.
Settled ==
  /\ \A x \in Obj : \A y \in strong[x] : y \in strong'[x] \/ Visited(y)'
  /\ \A x \in Obj : \A y \in entries[x] :
       y \in entries'[x] \/ value[x][y] = None \/ ~Visited(y)' \/ Visited(value[x][y])'
  /\ \A x \in Obj : \A y \in holders[x] :
       y \in holders'[x] \/ value[y][x] = None \/ ~Visited(y)' \/ Visited(value[y][x])'

\* The marking of c has begun, with everything to look at.
Entered(c) ==
  /\ refs[c] \subseteq strong'[c]
  /\ kind[c] = "weakmap" => weak[c] \subseteq entries'[c]
  /\ weak_refs[c] \subseteq holders'[c]

LEMMA ListVisited ==
  ASSUME GCInv, NEW x \in list
  PROVE  Visited(x) /\ x \in Obj /\ x \notin white
<1>1. x \in Obj /\ x \notin white /\ ~Swept(x)
  BY DEF GCInv, TypeOK, PlacesOK, Here
<1>2. count[x] = handles[x] /\ handles[x] \in 0 .. MaxRef
  BY <1>1 DEF GCInv, TypeOK, CountsOK
<1> QED BY <1>1, <1>2, Numbers DEF Visited

\* Only c is visited by the step, or only c is entered.
ColourStep(c) ==
  /\ InMark /\ phase' = phase /\ Here' = Here
  /\ kind' = kind /\ refs' = refs /\ weak' = weak /\ value' = value
  /\ weak_refs' = weak_refs /\ handles' = handles
  /\ \A x \in Obj : Visited(x)' <=> Visited(x) \/ x = c
  /\ \A x \in Here : x # c /\ Visited(x) /\ Waiting(x) => Waiting(x)'
  /\ Settled
  /\ \/ Visited(c) /\ (Waiting(c) => Waiting(c)')
     \/ Waiting(c)'
     \/ Entered(c)

LEMMA ColourStepOK ==
  ASSUME GCInv, NEW c \in Here, c \in Reachable, ColourStep(c),
         phase = "pass" /\ ~marked' =>
           stack' = <<>> /\ \A x \in white' : x \in todo' \/ ~Visited(x)'
  PROVE  ColoursOK'
<1>1. /\ InMark /\ phase' = phase /\ Here' = Here
      /\ kind' = kind /\ refs' = refs /\ weak' = weak /\ value' = value
      /\ weak_refs' = weak_refs /\ handles' = handles
      /\ \A x \in Obj : Visited(x)' <=> Visited(x) \/ x = c
      /\ \A x \in Here : x # c /\ Visited(x) /\ Waiting(x) => Waiting(x)'
      /\ \/ Visited(c) /\ (Waiting(c) => Waiting(c)')
         \/ Waiting(c)'
         \/ Entered(c)
  BY DEF ColourStep
<1>2. Settled
  BY DEF ColourStep
<1>3. Here \subseteq Obj /\ c \in Obj
  BY DEF GCInv, TypeOK, Here
<1>4. Reachable' = Reachable
  BY <1>1, ReachableSame
<1>5. /\ \A x \in Here : Visited(x) => x \in Reachable
      /\ \A x \in Here : Visited(x) => RefsSeen(x)
      /\ \A m, k \in Here : Visited(m) /\ Visited(k) => ValueSeen(m, k)
  BY <1>1 DEF GCInv, ColoursOK
<1>6. \A x \in Here' : Visited(x)' => x \in Reachable'
  BY <1>1, <1>3, <1>4, <1>5
<1>7. ASSUME NEW x \in Here, Visited(x)'
      PROVE  RefsSeen(x)'
  <2> SUFFICES ASSUME NEW d \in refs[x], ~Waiting(x)'
               PROVE  Visited(d)' \/ d \in strong'[x]
    BY <1>1 DEF RefsSeen
  <2>0. x \in Obj /\ d \in Obj
    BY <1>3 DEF GCInv, TypeOK, Sets
  <2>1. CASE x = c /\ Entered(c)
    BY <2>1 DEF Entered
  <2>2. CASE ~(x = c /\ Entered(c))
    <3>1. Visited(x) /\ ~Waiting(x)
      BY <1>1, <1>7, <2>0, <2>2
    <3>2. Visited(d) \/ d \in strong[x]
      BY <1>5, <3>1 DEF RefsSeen
    <3> QED BY <1>1, <1>2, <2>0, <3>2 DEF Settled
  <2> QED BY <2>1, <2>2
<1>8. ASSUME NEW m \in Here, NEW k \in Here, Visited(m)', Visited(k)'
      PROVE  ValueSeen(m, k)'
  <2> SUFFICES ASSUME k \in weak[m], value[m][k] # None, ~Waiting(m)',
                      ~(Waiting(k)' /\ m \in weak_refs[k])
               PROVE  Visited(value[m][k])' \/ k \in entries'[m] \/ m \in holders'[k]
    BY <1>1 DEF ValueSeen
  <2>0. /\ m \in Obj /\ k \in Obj /\ value[m][k] \in Obj /\ kind[m] = "weakmap"
        /\ m \in weak_refs[k] \/ pending = <<m, k>>
    BY <1>3 DEF GCInv, TypeOK, GraphOK, WeakLinks
  <2>1. CASE m = c /\ Entered(c)
    BY <2>0, <2>1 DEF Entered
  <2>2. CASE m # c \/ ~Entered(c)
    <3>1. Visited(m) /\ ~Waiting(m)
      BY <1>1, <1>8, <2>0, <2>2
    <3>2. CASE Visited(k)
      <4>1. \/ Visited(value[m][k]) \/ k \in entries[m] \/ m \in holders[k]
            \/ (Waiting(k) /\ m \in weak_refs[k])
        BY <1>5, <3>1, <3>2 DEF ValueSeen
      <4>2. CASE Visited(value[m][k])
        BY <1>1, <2>0, <4>2
      <4>3. CASE k \in entries[m] \/ m \in holders[k]
        BY <1>2, <1>8, <2>0, <4>3 DEF Settled
      <4>4. CASE Waiting(k) /\ m \in weak_refs[k]
        <5>1. k = c /\ Entered(c)
          BY <1>1, <3>2, <4>4
        <5> QED BY <4>4, <5>1 DEF Entered
      <4> QED BY <4>1, <4>2, <4>3, <4>4
    <3>3. CASE ~Visited(k)
      <4>1. k = c /\ (Waiting(c)' \/ Entered(c))
        BY <1>1, <1>8, <2>0, <3>3
      <4>2. pending # <<m, k>>
        <5>1. Held(k) => k \in list
          BY <2>0 DEF GCInv, KeptOK
        <5>2. ~Held(k)
          BY <3>3, <5>1, ListVisited
        <5>3. pending = <<m, k>> => pending # <<>> /\ pending[2] = k
          OBVIOUS
        <5> QED BY <5>2, <5>3 DEF GCInv, GraphOK
      <4>3. m \in weak_refs[k]
        BY <2>0, <4>2
      <4> QED BY <4>1, <4>3 DEF Entered
    <3> QED BY <3>2, <3>3
  <2> QED BY <2>1, <2>2
<1> QED BY <1>1, <1>6, <1>7, <1>8 DEF ColoursOK

OnStack(x) == \E i \in 1 .. Len(stack) : stack[i] = x

LEMMA EnterFacts ==
  ASSUME TypeOK, NEW o \in Obj, NEW s \in Sets, NEW e \in Sets, NEW h \in Sets,
         Enter(o, s, e, h)
  PROVE  /\ stack' \in Seq(Obj) /\ strong' \in Sets /\ entries' \in Sets /\ holders' \in Sets
         /\ Entered(o)
         /\ strong'[o] = refs[o] /\ entries'[o] \subseteq weak[o] /\ holders'[o] = weak_refs[o]
         /\ \A x \in Obj : x # o =>
              strong'[x] = s[x] /\ entries'[x] = e[x] /\ holders'[x] = h[x]
         /\ \A x \in Obj : OnStack(x)' <=> OnStack(x) \/ x = o
<1>1. /\ stack' = Append(stack, o) /\ strong' = [s EXCEPT ![o] = refs[o]]
      /\ entries' = [e EXCEPT ![o] = IF kind[o] = "weakmap" THEN weak[o] ELSE {}]
      /\ holders' = [h EXCEPT ![o] = weak_refs[o]]
  BY DEF Enter
<1>2. stack \in Seq(Obj) /\ refs \in Sets /\ weak \in Sets /\ weak_refs \in Sets
  BY DEF TypeOK
<1>3. /\ stack' \in Seq(Obj) /\ Len(stack') = Len(stack) + 1 /\ Len(stack) \in Nat
      /\ \A i \in 1 .. Len(stack) : stack'[i] = stack[i]
      /\ stack'[Len(stack) + 1] = o
  BY <1>1, <1>2, AppendFacts, EmptyLen
<1>4. /\ strong' \in Sets /\ entries' \in Sets /\ holders' \in Sets
      /\ strong'[o] = refs[o] /\ holders'[o] = weak_refs[o]
      /\ entries'[o] = IF kind[o] = "weakmap" THEN weak[o] ELSE {}
      /\ \A x \in Obj : x # o =>
           strong'[x] = s[x] /\ entries'[x] = e[x] /\ holders'[x] = h[x]
  BY <1>1, <1>2 DEF Sets
<1>5. \A x \in Obj : OnStack(x)' <=> OnStack(x) \/ x = o
  <2> SUFFICES ASSUME NEW x \in Obj
               PROVE  OnStack(x)' <=> OnStack(x) \/ x = o
    OBVIOUS
  <2>1. ASSUME OnStack(x)' PROVE OnStack(x) \/ x = o
    <3>1. PICK i \in 1 .. Len(stack') : stack'[i] = x
      BY <2>1 DEF OnStack
    <3>2. i \in 1 .. Len(stack) \/ i = Len(stack) + 1
      BY <1>3
    <3> QED BY <1>3, <3>1, <3>2 DEF OnStack
  <2>2. ASSUME OnStack(x) PROVE OnStack(x)'
    <3>1. PICK i \in 1 .. Len(stack) : stack[i] = x
      BY <2>2 DEF OnStack
    <3>2. i \in 1 .. Len(stack')
      BY <1>3
    <3> QED BY <1>3, <3>1, <3>2 DEF OnStack
  <2>3. ASSUME x = o PROVE OnStack(x)'
    <3>1. Len(stack) + 1 \in 1 .. Len(stack')
      BY <1>3
    <3> QED BY <1>3, <2>3, <3>1 DEF OnStack
  <2> QED BY <2>1, <2>2, <2>3
<1> QED BY <1>3, <1>4, <1>5 DEF Entered

\* WorkOK, by membership.
LEMMA WorkStep ==
  ASSUME phase' \in {"roots", "pass"},
         \A x \in Obj : (strong'[x] # {} \/ entries'[x] # {} \/ holders'[x] # {}) => OnStack(x)',
         stack' \in Seq(Obj), \A x \in Obj : OnStack(x)' => x \in Here' /\ Visited(x)',
         \A x \in Obj : /\ strong'[x] \subseteq refs'[x] /\ entries'[x] \subseteq weak'[x]
                        /\ holders'[x] \subseteq weak_refs'[x],
         phase' = "roots" => todo' \subseteq list',
         phase' = "pass" => todo' \subseteq white'
  PROVE  WorkOK'
<1>1. \A i \in 1 .. Len(stack') : stack'[i] \in Obj
  BY ElementOfSeq
<1>2. (\A i \in 1 .. Len(stack) : stack[i] \in Here /\ Visited(stack[i]))'
  <2> SUFFICES ASSUME NEW i \in 1 .. Len(stack')
               PROVE  (stack[i] \in Here /\ Visited(stack[i]))'
    OBVIOUS
  <2>1. PICK x \in Obj : x = stack'[i]
    BY <1>1
  <2>2. x \in Here' /\ Visited(x)'
    BY <2>1 DEF OnStack
  <2> QED BY <2>1, <2>2 DEF Visited
<1>3. \A x \in Obj : (strong'[x] # {} \/ entries'[x] # {} \/ holders'[x] # {}) =>
        \E i \in 1 .. Len(stack') : stack'[i] = x
  BY DEF OnStack
<1> QED BY <1>2, <1>3 DEF WorkOK, InMark

LEMMA WorkFacts ==
  ASSUME GCInv
  PROVE  /\ \A x \in Obj : strong[x] # {} \/ entries[x] # {} \/ holders[x] # {} => OnStack(x)
         /\ \A x \in Obj : OnStack(x) => x \in Here /\ Visited(x)
         /\ \A x \in Obj : /\ strong[x] \subseteq refs[x] /\ entries[x] \subseteq weak[x]
                           /\ holders[x] \subseteq weak_refs[x]
         /\ stack = <<>> => \A x \in Obj : ~OnStack(x)
<1>1. stack = <<>> => \A x \in Obj : ~OnStack(x)
  <2>1. stack = <<>> => Len(stack) = 0
    BY EmptySeq
  <2>2. stack = <<>> => \A i \in 1 .. Len(stack) : FALSE
    BY <2>1
  <2> QED BY <2>2 DEF OnStack
<1> QED BY <1>1 DEF GCInv, WorkOK, OnStack

\* A step of an activation leaves the lists and the graph alone.
LEMMA MarkRest ==
  ASSUME GCInv, InMark, MarkUnchanged
  PROVE  /\ PlacesOK' /\ SweepOK' /\ GraphOK' /\ KeptOK'
         /\ InMark' /\ Here' = Here /\ Reachable' = Reachable
         /\ \A x \in Obj : Swept(x)' <=> Swept(x)
<1>1. /\ list' = list /\ kind' = kind /\ refs' = refs /\ weak' = weak /\ value' = value
      /\ weak_refs' = weak_refs /\ handles' = handles /\ pending' = pending
      /\ phase' = phase /\ white' = white /\ sweep' = sweep /\ runs' = runs
  BY DEF MarkUnchanged, graphVars
<1>2. InMark' /\ Here' = Here /\ \A x \in Obj : Swept(x)' <=> Swept(x)
  BY <1>1 DEF InMark, Here, Swept, InFrame
<1>3. PlacesOK' /\ GraphOK' /\ Reachable' = Reachable
  BY <1>1, PlacesSame, GraphSame, ReachableSame DEF GCInv
<1>4. KeptOK'
  <2>1. \A o \in Obj : Held(o) => o \in list'
    BY <1>1 DEF GCInv, KeptOK
  <2> QED BY <1>1, <1>2, <2>1, KeptSame DEF GCInv
<1>5. SweepOK'
  BY <1>1 DEF GCInv, SweepOK, InMark
<1> QED BY <1>2, <1>3, <1>4, <1>5

\* The activations after the step.
StackAfter ==
  /\ stack' \in Seq(Obj) /\ strong' \in Sets /\ entries' \in Sets /\ holders' \in Sets
  /\ \A x \in Obj : (strong'[x] # {} \/ entries'[x] # {} \/ holders'[x] # {}) => OnStack(x)'
  /\ \A x \in Obj : OnStack(x)' => x \in Here' /\ Visited(x)'
  /\ \A x \in Obj : /\ strong'[x] \subseteq refs'[x] /\ entries'[x] \subseteq weak'[x]
                    /\ holders'[x] \subseteq weak_refs'[x]

\* The step visits c at most.
LEMMA ActivationStep ==
  ASSUME GCInv, Marking, MarkUnchanged, NEW c \in Here, c \in Reachable,
         count' \in [Obj -> 0 .. NonVisited],
         \A x \in Obj : x # c => count'[x] = count[x],
         Visited(c) => count'[c] = count[c],
         ~Visited(c) => count'[c] = 1 \/ (count'[c] = 0 /\ Entered(c)),
         Settled, StackAfter
  PROVE  GCInv'
<1>1. /\ list' = list /\ kind' = kind /\ refs' = refs /\ weak' = weak /\ value' = value
      /\ weak_refs' = weak_refs /\ handles' = handles /\ pending' = pending
      /\ phase' = phase /\ white' = white /\ sweep' = sweep /\ runs' = runs
      /\ todo' = todo /\ marked' = marked /\ new_objects' = new_objects
  BY DEF MarkUnchanged, graphVars
<1>2. InMark /\ phase \in {"roots", "pass"} /\ stack # <<>>
  BY DEF Marking, InMark
<1>3. /\ PlacesOK' /\ SweepOK' /\ GraphOK' /\ KeptOK'
      /\ InMark' /\ Here' = Here /\ Reachable' = Reachable
      /\ \A x \in Obj : Swept(x)' <=> Swept(x)
  BY <1>2, MarkRest
<1>4. Here \subseteq Obj /\ c \in Obj /\ count \in [Obj -> 0 .. NonVisited]
  BY DEF GCInv, TypeOK, Here
<1>6. ~Visited(c) => c \in white /\ c \notin list
  BY ListVisited DEF Here
<1>8. \A x \in Obj : Visited(x)' <=> Visited(x) \/ x = c
  BY <1>4, Numbers DEF Visited
<1>9. CountsOK'
  <2>1. ~Swept(c)
    BY DEF GCInv, PlacesOK
  <2> QED BY <1>1, <1>3, <1>4, <1>6, <2>1 DEF GCInv, CountsOK
<1>10. WorkOK'
  <2>1. /\ phase' = "roots" => todo' \subseteq list'
        /\ phase' = "pass" => todo' \subseteq white'
        /\ phase' \in {"roots", "pass"}
    BY <1>1, <1>2 DEF GCInv, WorkOK
  <2>2. /\ \A x \in Obj : (strong'[x] # {} \/ entries'[x] # {} \/ holders'[x] # {}) => OnStack(x)'
        /\ stack' \in Seq(Obj) /\ \A x \in Obj : OnStack(x)' => x \in Here' /\ Visited(x)'
        /\ \A x \in Obj : /\ strong'[x] \subseteq refs'[x] /\ entries'[x] \subseteq weak'[x]
                          /\ holders'[x] \subseteq weak_refs'[x]
    BY DEF StackAfter
  <2> QED BY <2>1, <2>2, WorkStep
<1>11. ColourStep(c)
  <2>1. \A x \in Here : x # c /\ Waiting(x) => Waiting(x)'
    BY <1>1, <1>4 DEF Waiting
  <2>2. \/ Visited(c) /\ (Waiting(c) => Waiting(c)')
        \/ Waiting(c)'
        \/ Entered(c)
    BY <1>1, <1>6 DEF Waiting
  <2> QED BY <1>1, <1>2, <1>3, <1>8, <2>1, <2>2 DEF ColourStep
<1>12. phase = "pass" => marked
  BY <1>2 DEF GCInv, ColoursOK
<1>13. ColoursOK'
  BY <1>1, <1>11, <1>12, ColourStepOK
<1>14. TypeOK'
  BY <1>1 DEF GCInv, TypeOK, StackAfter
<1> QED BY <1>3, <1>9, <1>10, <1>13, <1>14 DEF GCInv

\* s, e, h is the work of the activations, less what is done once c is visited.
LessWork(c, s, e, h) ==
  \A x \in Obj :
    /\ s[x] \subseteq strong[x] /\ e[x] \subseteq entries[x] /\ h[x] \subseteq holders[x]
    /\ \A y \in strong[x] : y \in s[x] \/ y = c
    /\ \A y \in entries[x] : y \in e[x] \/ value[x][y] = c
    /\ \A y \in holders[x] : y \in h[x] \/ value[y][x] = c

LEMMA SetObjectVisitedInv ==
  ASSUME GCInv, MarkLimit # 0, Marking, MarkUnchanged,
         NEW c \in Here, c \in Reachable, NEW s \in Sets, NEW e \in Sets, NEW h \in Sets,
         LessWork(c, s, e, h), SetObjectVisited(c, s, e, h)
  PROVE  GCInv'
<1>1. /\ refs' = refs /\ weak' = weak /\ value' = value /\ weak_refs' = weak_refs
      /\ Here' = Here
  BY DEF MarkUnchanged, graphVars, Here
<1>4. /\ Here \subseteq Obj /\ c \in Obj /\ count \in [Obj -> 0 .. NonVisited]
      /\ stack \in Seq(Obj)
  BY DEF GCInv, TypeOK, Here
<1>5. \/ /\ Visited(c) /\ count' = count /\ stack' = stack
         /\ strong' = s /\ entries' = e /\ holders' = h
      \/ ~Visited(c) /\ count' = [count EXCEPT ![c] = 0] /\ Enter(c, s, e, h)
      \/ /\ ~Visited(c) /\ count' = [count EXCEPT ![c] = 1] /\ stack' = stack
         /\ strong' = s /\ entries' = e /\ holders' = h
  BY DEF SetObjectVisited
<1>7. /\ count' \in [Obj -> 0 .. NonVisited]
      /\ \A x \in Obj : x # c => count'[x] = count[x]
      /\ Visited(c) => count'[c] = count[c]
  BY <1>4, <1>5, Numbers
<1>8. \A x \in Obj : Visited(x)' <=> Visited(x) \/ x = c
  BY <1>4, <1>5, Numbers DEF Visited
<1>9. count'[c] # NonVisited
  BY <1>4, <1>8 DEF Visited
<1>10. /\ \A x \in Obj : strong[x] # {} \/ entries[x] # {} \/ holders[x] # {} => OnStack(x)
       /\ \A x \in Obj : OnStack(x) => x \in Here /\ Visited(x)
       /\ \A x \in Obj : /\ strong[x] \subseteq refs[x] /\ entries[x] \subseteq weak[x]
                         /\ holders[x] \subseteq weak_refs[x]
  BY WorkFacts
<1>11. CASE ~Visited(c) /\ count' = [count EXCEPT ![c] = 0] /\ Enter(c, s, e, h)
  <2>1. /\ stack' \in Seq(Obj) /\ strong' \in Sets /\ entries' \in Sets /\ holders' \in Sets
        /\ Entered(c)
        /\ strong'[c] = refs[c] /\ entries'[c] \subseteq weak[c] /\ holders'[c] = weak_refs[c]
        /\ \A x \in Obj : x # c =>
             strong'[x] = s[x] /\ entries'[x] = e[x] /\ holders'[x] = h[x]
        /\ \A x \in Obj : OnStack(x)' <=> OnStack(x) \/ x = c
    BY <1>4, <1>11, EnterFacts DEF GCInv
  <2>2. strong[c] = {} /\ entries[c] = {} /\ holders[c] = {}
    BY <1>4, <1>10, <1>11
  <2>3. Settled
    BY <1>1, <1>9, <2>1, <2>2 DEF Settled, LessWork, Visited
  <2>4. \A x \in Obj : (strong'[x] # {} \/ entries'[x] # {} \/ holders'[x] # {}) => OnStack(x)'
    BY <1>10, <2>1 DEF LessWork
  <2>5. \A x \in Obj : OnStack(x)' => x \in Here' /\ Visited(x)'
    BY <1>1, <1>8, <1>10, <2>1
  <2>6. \A x \in Obj : /\ strong'[x] \subseteq refs'[x] /\ entries'[x] \subseteq weak'[x]
                       /\ holders'[x] \subseteq weak_refs'[x]
    BY <1>1, <1>10, <2>1 DEF LessWork
  <2>7. StackAfter
    BY <2>1, <2>4, <2>5, <2>6 DEF StackAfter
  <2>8. count'[c] = 0
    BY <1>4, <1>11
  <2> QED BY <1>7, <2>1, <2>3, <2>7, <2>8, ActivationStep
<1>12. CASE stack' = stack /\ strong' = s /\ entries' = e /\ holders' = h
            /\ (Visited(c) \/ count' = [count EXCEPT ![c] = 1])
  <2>1. Settled
    BY <1>1, <1>9, <1>12 DEF Settled, LessWork, Visited
  <2>2. \A x \in Obj : OnStack(x)' <=> OnStack(x)
    BY <1>12 DEF OnStack
  <2>3. StackAfter
    BY <1>1, <1>4, <1>8, <1>10, <1>12, <2>2 DEF StackAfter, LessWork
  <2>4. ~Visited(c) => count'[c] = 1
    BY <1>4, <1>12
  <2> QED BY <1>7, <2>1, <2>3, <2>4, ActivationStep
<1> QED BY <1>5, <1>11, <1>12

\* The activation at the top.
LEMMA TopFacts ==
  ASSUME GCInv, Marking
  PROVE  /\ Top \in Here /\ Top \in Obj /\ Visited(Top) /\ Top \in Reachable /\ InMark
         /\ OnStack(Top)
         /\ strong \in Sets /\ entries \in Sets /\ holders \in Sets
<1>1. stack \in Seq(Obj) /\ stack # <<>> /\ InMark
  BY DEF GCInv, TypeOK, Marking, InMark
<1>2. Len(stack) \in 1 .. Len(stack)
  BY <1>1, EmptyLen
<1>3. Top \in Here /\ Visited(Top) /\ OnStack(Top)
  BY <1>2 DEF Top, OnStack, GCInv, WorkOK
<1>4. Top \in Obj
  BY <1>3 DEF GCInv, TypeOK, Here
<1> QED BY <1>1, <1>3, <1>4 DEF GCInv, ColoursOK, TypeOK

LEMMA MarkReferenceInv ==
  ASSUME GCInv, MarkLimit # 0, NEW c \in Obj, MarkReference(c)
  PROVE  GCInv'
<1>1. PICK s : s = [strong EXCEPT ![Top] = @ \ {c}]
  OBVIOUS
<1>2. /\ Marking /\ MarkUnchanged /\ c \in strong[Top]
      /\ SetObjectVisited(c, s, entries, holders)
  BY <1>1 DEF MarkReference
<1>3. /\ Top \in Here /\ Top \in Obj /\ Visited(Top) /\ Top \in Reachable /\ InMark
      /\ strong \in Sets /\ entries \in Sets /\ holders \in Sets
  BY <1>2, TopFacts
<1>4. c \in refs[Top]
  BY <1>2, <1>3, WorkFacts
<1>5. c \in Here /\ c \in Reachable
  BY <1>3, <1>4, ReachableRefs DEF GCInv, KeptOK, Closed
<1>6. s \in Sets /\ LessWork(c, s, entries, holders)
  BY <1>1, <1>3 DEF Sets, LessWork
<1> QED BY <1>2, <1>3, <1>5, <1>6, SetObjectVisitedInv

\* The activation is done with an entry or a holder that does not count.
LEMMA SkipInv ==
  ASSUME GCInv, Marking, MarkUnchanged, count' = count, stack' = stack, strong' = strong,
         entries' \in Sets, holders' \in Sets,
         \A y \in Obj : entries'[y] \subseteq entries[y] /\ holders'[y] \subseteq holders[y],
         \A y \in Obj : \A z \in entries[y] :
           z \in entries'[y] \/ value[y][z] = None \/ ~Visited(z),
         \A y \in Obj : \A z \in holders[y] :
           z \in holders'[y] \/ value[z][y] = None \/ ~Visited(z)
  PROVE  GCInv'
<1>1. /\ refs' = refs /\ weak' = weak /\ value' = value /\ weak_refs' = weak_refs
      /\ Here' = Here
  BY DEF MarkUnchanged, graphVars, Here
<1>2. /\ Top \in Here /\ Top \in Obj /\ Visited(Top) /\ Top \in Reachable /\ InMark
      /\ strong \in Sets
  BY TopFacts
<1>3. PICK c \in Here : c = Top
  BY <1>2
<1>4. Settled
  BY <1>1 DEF Settled, Visited
<1>5. \A y \in Obj : OnStack(y)' <=> OnStack(y)
  BY DEF OnStack
<1>6. stack \in Seq(Obj) /\ count \in [Obj -> 0 .. NonVisited]
  BY DEF GCInv, TypeOK
<1>7. \A y \in Obj : Visited(y)' <=> Visited(y)
  BY DEF Visited
<1>8. StackAfter
  BY <1>1, <1>2, <1>5, <1>6, <1>7, WorkFacts DEF StackAfter
<1> QED BY <1>2, <1>3, <1>4, <1>6, <1>8, ActivationStep

LEMMA MarkEntryInv ==
  ASSUME GCInv, MarkLimit # 0, NEW k \in Obj, MarkEntry(k)
  PROVE  GCInv'
<1>1. PICK e : e = [entries EXCEPT ![Top] = @ \ {k}]
  OBVIOUS
<1>2. /\ Marking /\ MarkUnchanged /\ k \in entries[Top]
      /\ IF value[Top][k] # None /\ Visited(k)
           THEN SetObjectVisited(value[Top][k], strong, e, holders)
           ELSE entries' = e /\ UNCHANGED <<count, stack, strong, holders>>
  BY <1>1 DEF MarkEntry
<1>3. /\ Top \in Here /\ Top \in Obj /\ Visited(Top) /\ Top \in Reachable /\ InMark
      /\ strong \in Sets /\ entries \in Sets /\ holders \in Sets
  BY <1>2, TopFacts
<1>4. k \in weak[Top]
  BY <1>2, <1>3, WorkFacts
<1>5. /\ e \in Sets /\ \A y \in Obj : e[y] \subseteq entries[y]
      /\ \A y \in Obj : \A z \in entries[y] : z \in e[y] \/ (y = Top /\ z = k)
  BY <1>1, <1>3 DEF Sets
<1>6. CASE value[Top][k] # None /\ Visited(k)
  <2>1. PICK v \in Obj : v = value[Top][k]
    BY <1>3, <1>6 DEF GCInv, TypeOK
  <2>2. kind[Top] = "weakmap"
    BY <1>3, <1>6 DEF GCInv, GraphOK
  <2>3. k \in Here
    <3>1. kind[k] # "free"
      BY <1>3, <1>4 DEF GCInv, GraphOK, WeakLinks
    <3>2. ~Swept(k)
      BY <1>6 DEF Visited, GCInv, CountsOK
    <3> QED BY <3>1, <3>2 DEF GCInv, PlacesOK
  <2>4. k \in Reachable
    BY <1>3, <1>6, <2>3 DEF GCInv, ColoursOK
  <2>5. v \in Reachable /\ v \in Here
    BY <1>3, <1>4, <1>6, <2>1, <2>2, <2>3, <2>4, ReachableValue DEF GCInv, KeptOK, Closed
  <2>6. LessWork(v, strong, e, holders)
    BY <1>5, <2>1 DEF LessWork
  <2>7. SetObjectVisited(v, strong, e, holders)
    BY <1>2, <1>6, <2>1
  <2> QED BY <1>2, <1>3, <1>5, <2>5, <2>6, <2>7, SetObjectVisitedInv
<1>7. CASE ~(value[Top][k] # None /\ Visited(k))
  <2>1. entries' = e /\ count' = count /\ stack' = stack /\ strong' = strong /\ holders' = holders
    BY <1>2, <1>7
  <2> QED BY <1>2, <1>3, <1>5, <1>7, <2>1, SkipInv
<1> QED BY <1>6, <1>7

LEMMA MarkHolderInv ==
  ASSUME GCInv, MarkLimit # 0, NEW m \in Obj, MarkHolder(m)
  PROVE  GCInv'
<1>1. PICK h : h = [holders EXCEPT ![Top] = @ \ {m}]
  OBVIOUS
<1>2. /\ Marking /\ MarkUnchanged /\ m \in holders[Top]
      /\ IF kind[m] = "weakmap" /\ Visited(m) /\ value[m][Top] # None
           THEN SetObjectVisited(value[m][Top], strong, entries, h)
           ELSE holders' = h /\ UNCHANGED <<count, stack, strong, entries>>
  BY <1>1 DEF MarkHolder
<1>3. /\ Top \in Here /\ Top \in Obj /\ Visited(Top) /\ Top \in Reachable /\ InMark
      /\ strong \in Sets /\ entries \in Sets /\ holders \in Sets
  BY <1>2, TopFacts
<1>4. m \in weak_refs[Top] /\ Top \in weak[m]
  <2>1. m \in weak_refs[Top]
    BY <1>2, <1>3, WorkFacts
  <2> QED BY <1>3, <2>1 DEF GCInv, GraphOK, WeakLinks
<1>5. /\ h \in Sets /\ \A y \in Obj : h[y] \subseteq holders[y]
      /\ \A y \in Obj : \A z \in holders[y] : z \in h[y] \/ (y = Top /\ z = m)
  BY <1>1, <1>3 DEF Sets
<1>6. CASE kind[m] = "weakmap" /\ Visited(m) /\ value[m][Top] # None
  <2>1. PICK v \in Obj : v = value[m][Top]
    BY <1>3, <1>6 DEF GCInv, TypeOK
  <2>3. m \in Here
    <3>1. kind[m] # "free"
      BY <1>6
    <3>2. ~Swept(m)
      BY <1>6 DEF Visited, GCInv, CountsOK
    <3> QED BY <3>1, <3>2 DEF GCInv, PlacesOK
  <2>4. m \in Reachable
    BY <1>3, <1>6, <2>3 DEF GCInv, ColoursOK
  <2>5. v \in Reachable /\ v \in Here
    BY <1>3, <1>4, <1>6, <2>1, <2>3, <2>4, ReachableValue DEF GCInv, KeptOK, Closed
  <2>6. LessWork(v, strong, entries, h)
    BY <1>5, <2>1 DEF LessWork
  <2>7. SetObjectVisited(v, strong, entries, h)
    BY <1>2, <1>6, <2>1
  <2> QED BY <1>2, <1>3, <1>5, <2>5, <2>6, <2>7, SetObjectVisitedInv
<1>7. CASE ~(kind[m] = "weakmap" /\ Visited(m) /\ value[m][Top] # None)
  <2>1. holders' = h /\ count' = count /\ stack' = stack /\ strong' = strong /\ entries' = entries
    BY <1>2, <1>7
  <2>2. value[m][Top] = None \/ ~Visited(m)
    BY <1>3, <1>7 DEF GCInv, GraphOK
  <2> QED BY <1>2, <1>3, <1>5, <2>1, <2>2, SkipInv
<1> QED BY <1>6, <1>7

LEMMA MarkReturnInv ==
  ASSUME GCInv, MarkReturn
  PROVE  GCInv'
<1>1. /\ Marking /\ MarkUnchanged /\ strong[Top] = {} /\ entries[Top] = {} /\ holders[Top] = {}
      /\ stack' = SubSeq(stack, 1, Len(stack) - 1)
      /\ count' = count /\ strong' = strong /\ entries' = entries /\ holders' = holders
  BY DEF MarkReturn
<1>2. /\ Top \in Here /\ Top \in Obj /\ Visited(Top) /\ Top \in Reachable /\ InMark
      /\ strong \in Sets /\ entries \in Sets /\ holders \in Sets
  BY <1>1, TopFacts
<1>3. stack \in Seq(Obj) /\ stack # <<>> /\ count \in [Obj -> 0 .. NonVisited]
  BY <1>1 DEF GCInv, TypeOK, Marking
<1>4. /\ stack' \in Seq(Obj) /\ Len(stack') = Len(stack) - 1 /\ Len(stack) \in Nat
      /\ \A i \in 1 .. Len(stack) - 1 : stack'[i] = stack[i]
  BY <1>1, <1>3, FrontProperties, EmptyLen
<1>5. ASSUME NEW x \in Obj
      PROVE  /\ OnStack(x)' => OnStack(x)
             /\ OnStack(x) => OnStack(x)' \/ x = Top
  <2>1. ASSUME OnStack(x)' PROVE OnStack(x)
    <3>1. PICK i \in 1 .. Len(stack') : stack'[i] = x
      BY <2>1 DEF OnStack
    <3>2. i \in 1 .. Len(stack) - 1 /\ i \in 1 .. Len(stack)
      BY <1>4
    <3> QED BY <1>4, <3>1, <3>2 DEF OnStack
  <2>2. ASSUME OnStack(x), x # Top PROVE OnStack(x)'
    <3>1. PICK i \in 1 .. Len(stack) : stack[i] = x
      BY <2>2 DEF OnStack
    <3>2. i # Len(stack)
      BY <2>2, <3>1 DEF Top
    <3>3. i \in 1 .. Len(stack) - 1 /\ i \in 1 .. Len(stack')
      BY <1>4, <3>2
    <3> QED BY <1>4, <3>1, <3>3 DEF OnStack
  <2> QED BY <2>1, <2>2
<1>6. PICK c \in Here : c = Top
  BY <1>2
<1>7. Settled
  BY <1>1 DEF Settled
<1>8. /\ refs' = refs /\ weak' = weak /\ weak_refs' = weak_refs /\ Here' = Here
      /\ \A x \in Obj : Visited(x)' <=> Visited(x)
  BY <1>1 DEF MarkUnchanged, graphVars, Here, Visited
<1>9. StackAfter
  BY <1>1, <1>2, <1>4, <1>5, <1>8, WorkFacts DEF StackAfter
<1> QED BY <1>1, <1>2, <1>3, <1>6, <1>7, <1>9, ActivationStep

LEMMA MarkRootInv ==
  ASSUME GCInv, NEW o \in Obj, MarkRoot(o)
  PROVE  GCInv'
<1>1. /\ phase = "roots" /\ stack = <<>> /\ o \in todo /\ todo' = todo \ {o}
      /\ Enter(o, strong, entries, holders)
      /\ list' = list /\ kind' = kind /\ refs' = refs /\ weak' = weak /\ value' = value
      /\ weak_refs' = weak_refs /\ count' = count /\ handles' = handles /\ pending' = pending
      /\ phase' = phase /\ white' = white /\ sweep' = sweep /\ runs' = runs
      /\ marked' = marked /\ new_objects' = new_objects
  BY DEF MarkRoot, graphVars, countVars
<1>2. o \in list /\ Visited(o) /\ o \in Here /\ todo \subseteq list
  BY <1>1, ListVisited DEF GCInv, WorkOK, Here
<1>3. strong \in Sets /\ entries \in Sets /\ holders \in Sets
  BY DEF GCInv, TypeOK
<1>4. /\ stack' \in Seq(Obj) /\ strong' \in Sets /\ entries' \in Sets /\ holders' \in Sets
      /\ Entered(o)
      /\ strong'[o] = refs[o] /\ entries'[o] \subseteq weak[o] /\ holders'[o] = weak_refs[o]
      /\ \A x \in Obj : x # o =>
           strong'[x] = strong[x] /\ entries'[x] = entries[x] /\ holders'[x] = holders[x]
      /\ \A x \in Obj : OnStack(x)' <=> OnStack(x) \/ x = o
  BY <1>1, <1>3, EnterFacts DEF GCInv
<1>5. \A x \in Obj : /\ strong[x] = {} /\ entries[x] = {} /\ holders[x] = {} /\ ~OnStack(x)
  BY <1>1, WorkFacts
<1>6. TypeOK'
  BY <1>1, <1>4 DEF GCInv, TypeOK
<1>7. PlacesOK' /\ CountsOK' /\ GraphOK'
  BY <1>1, PlacesSame, CountsSame, GraphSame DEF GCInv
<1>8. Here' = Here /\ \A x \in Obj : Visited(x)' <=> Visited(x)
  BY <1>1 DEF Here, Visited
<1>9. KeptOK'
  <2>1. \A x \in Obj : Held(x) => x \in list'
    BY <1>1 DEF GCInv, KeptOK
  <2> QED BY <1>1, <1>8, <2>1, KeptSame DEF GCInv
<1>10. SweepOK'
  BY <1>1 DEF GCInv, SweepOK
<1>11. WorkOK'
  <2>1. /\ phase' \in {"roots", "pass"}
        /\ phase' = "roots" => todo' \subseteq list'
        /\ phase' = "pass" => todo' \subseteq white'
    BY <1>1, <1>2
  <2>2. \A x \in Obj : (strong'[x] # {} \/ entries'[x] # {} \/ holders'[x] # {}) => OnStack(x)'
    BY <1>4, <1>5
  <2>3. \A x \in Obj : OnStack(x)' => x \in Here' /\ Visited(x)'
    BY <1>2, <1>4, <1>5, <1>8
  <2>4. \A x \in Obj : /\ strong'[x] \subseteq refs'[x] /\ entries'[x] \subseteq weak'[x]
                       /\ holders'[x] \subseteq weak_refs'[x]
    BY <1>1, <1>4, <1>5
  <2> QED BY <1>4, <2>1, <2>2, <2>3, <2>4, WorkStep
<1>12. ColoursOK'
  <2>1. Settled
    BY <1>5 DEF Settled
  <2>2. \A x \in Here : x # o /\ Waiting(x) => Waiting(x)'
    BY <1>1 DEF Waiting
  <2>3. InMark
    BY <1>1 DEF InMark
  <2>4. ColourStep(o)
    BY <1>1, <1>2, <1>4, <1>8, <2>1, <2>2, <2>3 DEF ColourStep
  <2>5. o \in Reachable
    BY <1>2, <2>3 DEF GCInv, ColoursOK
  <2> QED BY <1>1, <1>2, <2>4, <2>5, ColourStepOK
<1> QED BY <1>6, <1>7, <1>9, <1>10, <1>11, <1>12 DEF GCInv

LEMMA StartPassInv ==
  ASSUME GCInv, StartPass
  PROVE  GCInv'
<1>1. /\ stack = <<>> /\ todo = {} /\ phase \in {"roots", "pass"} /\ phase' = "pass"
      /\ todo' = white /\ marked' = FALSE
      /\ list' = list /\ kind' = kind /\ refs' = refs /\ weak' = weak /\ value' = value
      /\ weak_refs' = weak_refs /\ count' = count /\ handles' = handles /\ pending' = pending
      /\ white' = white /\ sweep' = sweep /\ runs' = runs /\ new_objects' = new_objects
      /\ stack' = stack /\ strong' = strong /\ entries' = entries /\ holders' = holders
  BY DEF StartPass, graphVars, countVars
<1>2. TypeOK'
  BY <1>1 DEF GCInv, TypeOK
<1>3. PlacesOK' /\ CountsOK' /\ GraphOK'
  BY <1>1, PlacesSame, CountsSame, GraphSame DEF GCInv
<1>4. Here' = Here /\ InMark
  BY <1>1 DEF Here, InMark
<1>5. KeptOK'
  <2>1. \A x \in Obj : Held(x) => x \in list'
    BY <1>1 DEF GCInv, KeptOK
  <2> QED BY <1>1, <1>4, <2>1, KeptSame DEF GCInv
<1>6. SweepOK'
  BY <1>1 DEF GCInv, SweepOK
<1>7. WorkOK'
  BY <1>1, <1>4 DEF GCInv, WorkOK, InMark, Visited
<1>8. ColoursOK'
  <2>1. \A x \in Obj : (Waiting(x)' <=> Waiting(x)) /\ (Visited(x)' <=> Visited(x))
    BY <1>1 DEF Waiting, Visited
  <2>2. Reachable' = Reachable /\ Here \subseteq Obj
    BY <1>1, ReachableSame DEF Here, GCInv, TypeOK
  <2>3. \A x \in Here : RefsSeen(x)' <=> RefsSeen(x)
    BY <1>1, <2>1, <2>2 DEF RefsSeen, Visited
  <2>4. \A m, k \in Here : ValueSeen(m, k)' <=> ValueSeen(m, k)
    BY <1>1, <2>1, <2>2 DEF ValueSeen, Visited
  <2> QED BY <1>1, <1>4, <2>1, <2>2, <2>3, <2>4 DEF GCInv, ColoursOK
<1> QED BY <1>2, <1>3, <1>5, <1>6, <1>7, <1>8 DEF GCInv

LEMMA PassWhiteInv ==
  ASSUME GCInv, NEW o \in Obj, PassWhite(o)
  PROVE  GCInv'
<1>1. /\ stack = <<>> /\ o \in todo /\ ~Visited(o) /\ phase = "pass" /\ phase' = phase
      /\ todo' = todo \ {o} /\ marked' = marked
      /\ list' = list /\ kind' = kind /\ refs' = refs /\ weak' = weak /\ value' = value
      /\ weak_refs' = weak_refs /\ count' = count /\ handles' = handles /\ pending' = pending
      /\ white' = white /\ sweep' = sweep /\ runs' = runs /\ new_objects' = new_objects
      /\ stack' = stack /\ strong' = strong /\ entries' = entries /\ holders' = holders
  BY DEF PassWhite, graphVars, countVars
<1>2. TypeOK'
  BY <1>1 DEF GCInv, TypeOK
<1>3. PlacesOK' /\ CountsOK' /\ GraphOK'
  BY <1>1, PlacesSame, CountsSame, GraphSame DEF GCInv
<1>4. Here' = Here /\ InMark
  BY <1>1 DEF Here, InMark
<1>5. KeptOK'
  <2>1. \A x \in Obj : Held(x) => x \in list'
    BY <1>1 DEF GCInv, KeptOK
  <2> QED BY <1>1, <1>4, <2>1, KeptSame DEF GCInv
<1>6. SweepOK'
  BY <1>1 DEF GCInv, SweepOK
<1>7. WorkOK'
  BY <1>1, <1>4 DEF GCInv, WorkOK, InMark, Visited
<1>8. ColoursOK'
  <2>1. \A x \in Obj : (Waiting(x)' <=> Waiting(x)) /\ (Visited(x)' <=> Visited(x))
    BY <1>1 DEF Waiting, Visited
  <2>2. Reachable' = Reachable /\ Here \subseteq Obj
    BY <1>1, ReachableSame DEF Here, GCInv, TypeOK
  <2>3. \A x \in Here : RefsSeen(x)' <=> RefsSeen(x)
    BY <1>1, <2>1, <2>2 DEF RefsSeen, Visited
  <2>4. \A m, k \in Here : ValueSeen(m, k)' <=> ValueSeen(m, k)
    BY <1>1, <2>1, <2>2 DEF ValueSeen, Visited
  <2>5. ~marked => \A x \in white : x \in todo \ {o} \/ ~Visited(x)
    BY <1>1, <1>4 DEF GCInv, ColoursOK
  <2>6. white \subseteq Obj
    BY DEF GCInv, TypeOK
  <2> QED BY <1>1, <1>4, <2>1, <2>2, <2>3, <2>4, <2>5, <2>6 DEF GCInv, ColoursOK
<1> QED BY <1>2, <1>3, <1>5, <1>6, <1>7, <1>8 DEF GCInv

LEMMA PassVisitedInv ==
  ASSUME GCInv, MarkLimit # 0, NEW o \in Obj, PassVisited(o)
  PROVE  GCInv'
<1>1. /\ stack = <<>> /\ o \in todo /\ Visited(o) /\ phase = "pass" /\ phase' = phase
      /\ todo' = todo \ {o} /\ white' = white \ {o} /\ list' = list \cup {o}
      /\ kind' = kind /\ refs' = refs /\ weak' = weak /\ value' = value
      /\ weak_refs' = weak_refs /\ handles' = handles /\ pending' = pending
      /\ sweep' = sweep /\ runs' = runs /\ new_objects' = new_objects
  BY DEF PassVisited, graphVars
<1>2. \/ /\ count[o] > 0 /\ count' = [count EXCEPT ![o] = 0] /\ marked' = TRUE
         /\ Enter(o, strong, entries, holders)
      \/ /\ ~(count[o] > 0) /\ marked' = (marked \/ FALSE) /\ count' = count /\ stack' = stack
         /\ strong' = strong /\ entries' = entries /\ holders' = holders
  BY DEF PassVisited
<1>3. /\ o \in white /\ o \in Here /\ Here' = Here /\ InMark /\ todo \subseteq white
      /\ Here \subseteq Obj /\ white \subseteq Obj
  BY <1>1 DEF GCInv, WorkOK, Here, InMark, TypeOK
<1>4. /\ count \in [Obj -> 0 .. NonVisited] /\ count[o] \in {0, 1} /\ handles[o] = 0
      /\ strong \in Sets /\ entries \in Sets /\ holders \in Sets
  BY <1>1, <1>3 DEF GCInv, TypeOK, CountsOK, Visited
<1>5. /\ count' \in [Obj -> 0 .. NonVisited] /\ count'[o] = 0
      /\ \A x \in Obj : x # o => count'[x] = count[x]
  BY <1>2, <1>4, Numbers
<1>6. \A x \in Obj : Visited(x)' <=> Visited(x) \/ x = o
  BY <1>1, <1>5, Numbers DEF Visited
<1>7. \A x \in Obj : Swept(x)' <=> Swept(x)
  BY <1>1 DEF Swept, InFrame
<1>8. PlacesOK'
  <2>1. list' \cap white' = {}
    BY <1>1 DEF GCInv, PlacesOK
  <2>2. /\ \A x \in Obj : (kind'[x] # "free") <=> (x \in Here' \/ Swept(x)')
        /\ \A x \in Here' : ~Swept(x)'
    BY <1>1, <1>3, <1>7 DEF GCInv, PlacesOK
  <2> QED BY <1>1, <2>1, <2>2 DEF GCInv, PlacesOK, InFrame
<1>9. CountsOK'
  <2>1. ~Swept(o)
    BY <1>3 DEF GCInv, PlacesOK
  <2> QED BY <1>1, <1>4, <1>5, <1>7, <2>1 DEF GCInv, CountsOK
<1>10. GraphOK'
  BY <1>1, GraphSame DEF GCInv
<1>11. KeptOK'
  <2>1. \A x \in Obj : Held(x) => x \in list'
    BY <1>1 DEF GCInv, KeptOK
  <2> QED BY <1>1, <1>3, <2>1, KeptSame DEF GCInv
<1>12. SweepOK'
  BY <1>1 DEF GCInv, SweepOK
<1>13. \A x \in Obj : /\ strong[x] = {} /\ entries[x] = {} /\ holders[x] = {} /\ ~OnStack(x)
  BY <1>1, WorkFacts
<1>14. Settled
  BY <1>13 DEF Settled
<1>15. \A x \in Here : x # o /\ Waiting(x) => Waiting(x)'
  BY <1>1, <1>3, <1>5 DEF Waiting
<1>16. o \in Reachable
  BY <1>1, <1>3 DEF GCInv, ColoursOK
<1>17. /\ phase' \in {"roots", "pass"} /\ phase' # "roots"
       /\ phase' = "pass" => todo' \subseteq white'
  BY <1>1, <1>3
<1>18. CASE count[o] > 0 /\ marked' = TRUE /\ Enter(o, strong, entries, holders)
  <2>1. /\ stack' \in Seq(Obj) /\ strong' \in Sets /\ entries' \in Sets /\ holders' \in Sets
        /\ Entered(o)
        /\ strong'[o] = refs[o] /\ entries'[o] \subseteq weak[o] /\ holders'[o] = weak_refs[o]
        /\ \A x \in Obj : x # o =>
             strong'[x] = strong[x] /\ entries'[x] = entries[x] /\ holders'[x] = holders[x]
        /\ \A x \in Obj : OnStack(x)' <=> OnStack(x) \/ x = o
    BY <1>4, <1>18, EnterFacts DEF GCInv
  <2>2. TypeOK'
    BY <1>1, <1>5, <1>18, <2>1 DEF GCInv, TypeOK
  <2>3. \A x \in Obj : (strong'[x] # {} \/ entries'[x] # {} \/ holders'[x] # {}) => OnStack(x)'
    BY <1>13, <2>1
  <2>4. \A x \in Obj : OnStack(x)' => x \in Here' /\ Visited(x)'
    BY <1>3, <1>6, <1>13, <2>1
  <2>5. \A x \in Obj : /\ strong'[x] \subseteq refs'[x] /\ entries'[x] \subseteq weak'[x]
                       /\ holders'[x] \subseteq weak_refs'[x]
    BY <1>1, <1>13, <2>1
  <2>6. WorkOK'
    BY <1>17, <2>1, <2>3, <2>4, <2>5, WorkStep
  <2>7. ColourStep(o)
    BY <1>1, <1>3, <1>6, <1>14, <1>15, <2>1 DEF ColourStep
  <2>8. ColoursOK'
    BY <1>3, <1>16, <1>18, <2>7, ColourStepOK
  <2> QED BY <1>8, <1>9, <1>10, <1>11, <1>12, <2>2, <2>6, <2>8 DEF GCInv
<1>19. CASE ~(count[o] > 0) /\ marked' = (marked \/ FALSE) /\ count' = count /\ stack' = stack
            /\ strong' = strong /\ entries' = entries /\ holders' = holders
  <2>0. marked' = marked /\ marked \in BOOLEAN
    BY <1>19 DEF GCInv, TypeOK
  <2>1. TypeOK'
    BY <1>1, <1>5, <1>19, <2>0 DEF GCInv, TypeOK
  <2>2. WorkOK'
    <3>1. \A x \in Obj : ~OnStack(x)'
      BY <1>13, <1>19 DEF OnStack
    <3>2. stack' \in Seq(Obj)
      BY <1>19 DEF GCInv, TypeOK
    <3>3. \A x \in Obj : /\ strong'[x] = {} /\ entries'[x] = {} /\ holders'[x] = {}
      BY <1>13, <1>19
    <3> QED BY <1>17, <3>1, <3>2, <3>3, WorkStep
  <2>3. ~Waiting(o)
    BY <1>1, <1>4, <1>19 DEF Waiting
  <2>4. ColourStep(o)
    BY <1>1, <1>3, <1>6, <1>14, <1>15, <2>3 DEF ColourStep
  <2>5. ~marked => \A x \in white : x \in todo \/ ~Visited(x)
    BY <1>1, <1>3 DEF GCInv, ColoursOK
  <2>6. ~marked' => stack' = <<>> /\ \A x \in white' : x \in todo' \/ ~Visited(x)'
    BY <1>1, <1>3, <1>6, <1>19, <2>0, <2>5
  <2>7. ColoursOK'
    BY <1>3, <1>16, <2>4, <2>6, ColourStepOK
  <2> QED BY <1>8, <1>9, <1>10, <1>11, <1>12, <2>1, <2>2, <2>7 DEF GCInv
<1> QED BY <1>2, <1>18, <1>19

-----------------------------------------------------------------------------
(* Sweep.                                                                  *)

FrameSet == [white : SUBSET Obj, obj : Obj \cup {None}]

\* When a pass has marked nothing, the list is what the program can get at.
LEMMA MarkedExactly ==
  ASSUME GCInv, MarkingDone
  PROVE  /\ list = Reachable /\ Closed(list)
         /\ \A x \in white : ~Visited(x)
<1>1. phase = "pass" /\ InMark /\ stack = <<>> /\ todo = {} /\ ~marked
  BY DEF MarkingDone, InMark
<1>2. \A x \in white : ~Visited(x)
  BY <1>1 DEF GCInv, ColoursOK
<1>3. \A x \in list : Visited(x) /\ x \in Obj /\ x \in Here
  BY ListVisited DEF Here
<1>4. \A x \in Obj : strong[x] = {} /\ entries[x] = {} /\ holders[x] = {}
  BY <1>1, WorkFacts
<1>5. \A x \in Here : ~Waiting(x)
  BY <1>1, <1>2, Numbers DEF Waiting, Visited
<1>6. \A x \in Here : Visited(x) => x \in list
  BY <1>2 DEF Here
<1>7. ASSUME NEW x \in list, NEW c \in refs[x] PROVE c \in list
  <2>1. RefsSeen(x) /\ ~Waiting(x) /\ c \in Here
    BY <1>1, <1>3, <1>5 DEF GCInv, ColoursOK, KeptOK, Closed
  <2> QED BY <1>3, <1>4, <1>6, <2>1 DEF RefsSeen
<1>8. ASSUME NEW m \in list, NEW k \in list, kind[m] = "weakmap", k \in weak[m], value[m][k] # None
      PROVE  value[m][k] \in list
  <2>1. ValueSeen(m, k) /\ ~Waiting(m) /\ ~Waiting(k) /\ value[m][k] \in Here
    BY <1>1, <1>3, <1>5, <1>8 DEF GCInv, ColoursOK, KeptOK, Closed
  <2> QED BY <1>3, <1>4, <1>6, <1>8, <2>1 DEF ValueSeen
<1>9. Closed(list)
  BY <1>7, <1>8 DEF Closed
<1>10. list \in SUBSET Obj /\ \A r \in Obj : Held(r) => r \in list
  BY DEF GCInv, TypeOK, KeptOK
<1>11. Reachable \subseteq list
  BY <1>9, <1>10, ReachableIn
<1>12. list \subseteq Reachable
  BY <1>1, <1>3 DEF GCInv, ColoursOK
<1> QED BY <1>2, <1>9, <1>11, <1>12

LEMMA StartSweepInv ==
  ASSUME GCInv, StartSweep
  PROVE  GCInv'
<1>1. PICK f : f = [white |-> white, obj |-> None]
  OBVIOUS
<1>2. /\ MarkingDone /\ phase' = "sweep" /\ sweep' = Append(sweep, f) /\ white' = {}
      /\ list' = list /\ kind' = kind /\ refs' = refs /\ weak' = weak /\ value' = value
      /\ weak_refs' = weak_refs /\ count' = count /\ handles' = handles /\ pending' = pending
      /\ runs' = runs /\ new_objects' = new_objects /\ todo' = todo /\ marked' = marked
      /\ stack' = stack /\ strong' = strong /\ entries' = entries /\ holders' = holders
  BY <1>1 DEF StartSweep, graphVars, countVars
<1>3. phase = "pass" /\ stack = <<>> /\ todo = {}
  BY <1>2 DEF MarkingDone
<1>4. f.white = white /\ f.obj = None /\ f \in FrameSet
  BY <1>1 DEF FrameSet, GCInv, TypeOK
<1>5. sweep \in Seq(FrameSet)
  BY DEF FrameSet, GCInv, TypeOK
<1>6. PICK n \in Nat : n = Len(sweep)
  BY <1>5, EmptyLen
<1>7. /\ sweep' \in Seq(FrameSet) /\ sweep' # <<>> /\ Len(sweep') = n + 1
      /\ \A i \in 1 .. n : sweep'[i] = sweep[i]
      /\ sweep'[n + 1] = f
  BY <1>2, <1>4, <1>5, <1>6, AppendFacts
<1>8. \A i \in 1 .. n + 1 : i \in 1 .. n \/ i = n + 1
  OBVIOUS
<1>9. ASSUME NEW x \in Obj PROVE Swept(x)' <=> Swept(x) \/ x \in white
  <2>1. InFrame(f, x) <=> x \in white
    BY <1>4, ObjAssumption DEF InFrame
  <2>2. ASSUME Swept(x)' PROVE Swept(x) \/ x \in white
    <3>1. PICK i \in 1 .. n + 1 : InFrame(sweep'[i], x)
      BY <1>7, <2>2 DEF Swept, InFrame
    <3> QED BY <1>6, <1>7, <1>8, <2>1, <3>1 DEF Swept
  <2>3. ASSUME Swept(x) PROVE Swept(x)'
    <3>1. PICK i \in 1 .. n : InFrame(sweep[i], x)
      BY <1>6, <2>3 DEF Swept
    <3>2. i \in 1 .. n + 1 /\ InFrame(sweep'[i], x)
      BY <1>7, <3>1
    <3> QED BY <1>7, <3>2 DEF Swept, InFrame
  <2>4. ASSUME x \in white PROVE Swept(x)'
    <3>1. n + 1 \in 1 .. n + 1 /\ InFrame(sweep'[n + 1], x)
      BY <1>7, <2>1, <2>4
    <3> QED BY <1>7, <3>1 DEF Swept, InFrame
  <2> QED BY <2>2, <2>3, <2>4
<1>10. /\ list = Reachable /\ Closed(list)
       /\ \A x \in white : ~Visited(x)
  BY <1>2, MarkedExactly
<1>11. Here' = list /\ Here = list \cup white /\ white \subseteq Obj /\ list \subseteq Obj
       /\ list \cap white = {}
  BY <1>2 DEF Here, GCInv, TypeOK, PlacesOK
<1>12. TypeOK'
  <2>1. sweep' \in Seq([white : SUBSET Obj, obj : Obj \cup {None}])
    BY <1>7 DEF FrameSet
  <2> HIDE DEF FrameSet
  <2> QED BY <1>2, <2>1 DEF GCInv, TypeOK
<1>13. PlacesOK'
  <2>1. \A x \in Obj : (kind'[x] # "free") <=> (x \in Here' \/ Swept(x)')
    BY <1>2, <1>9, <1>11 DEF GCInv, PlacesOK
  <2>2. \A x \in Here' : ~Swept(x)'
    BY <1>9, <1>11 DEF GCInv, PlacesOK
  <2>3. \A i, j \in 1 .. n + 1 : \A x \in Obj :
          InFrame(sweep'[i], x) /\ InFrame(sweep'[j], x) => i = j
    <3> SUFFICES ASSUME NEW i \in 1 .. n + 1, NEW j \in 1 .. n + 1, NEW x \in Obj,
                        InFrame(sweep'[i], x), InFrame(sweep'[j], x)
                 PROVE  i = j
      OBVIOUS
    <3>1. InFrame(f, x) => x \in white /\ ~Swept(x)
      BY <1>4, <1>11, ObjAssumption DEF InFrame, GCInv, PlacesOK
    <3>2. \A l \in 1 .. n : InFrame(sweep[l], x) => Swept(x)
      BY <1>6 DEF Swept
    <3>3. CASE i = n + 1 \/ j = n + 1
      BY <1>7, <1>8, <3>1, <3>2, <3>3
    <3>4. CASE i \in 1 .. n /\ j \in 1 .. n
      BY <1>6, <1>7, <3>4 DEF GCInv, PlacesOK
    <3> QED BY <1>8, <3>3, <3>4
  <2>4. \A i \in 1 .. n + 1 : sweep'[i].obj \notin sweep'[i].white
    <3>1. f.obj \notin f.white
      BY <1>4, <1>11, ObjAssumption
    <3>2. \A i \in 1 .. n : sweep[i].obj \notin sweep[i].white
      BY <1>6 DEF GCInv, PlacesOK
    <3> QED BY <1>7, <1>8, <3>1, <3>2
  <2> QED BY <1>2, <1>7, <2>1, <2>2, <2>3, <2>4 DEF PlacesOK, InFrame
<1>14. CountsOK'
  BY <1>2, <1>9, <1>10, <1>11 DEF GCInv, CountsOK, Visited
<1>15. SweepOK'
  <2>1. \A i \in 1 .. n : sweep[i].obj \in Obj /\ kind[sweep[i].obj] = "native"
    BY <1>3, <1>6 DEF GCInv, SweepOK
  <2>2. \A i \in 1 .. n : i # n + 1
    OBVIOUS
  <2> QED BY <1>2, <1>4, <1>7, <1>8, <2>1, <2>2 DEF SweepOK
<1>16. WorkOK'
  <2>1. \A i \in 1 .. Len(stack) : FALSE
    BY <1>3, EmptySeq
  <2> QED BY <1>2, <1>3, <2>1 DEF GCInv, WorkOK
<1>17. GraphOK'
  BY <1>2, GraphSame DEF GCInv
<1>18. KeptOK'
  BY <1>2, <1>10, <1>11 DEF GCInv, KeptOK, Closed, Held
<1>19. ColoursOK'
  BY <1>2 DEF ColoursOK, InMark
<1> QED BY <1>12, <1>13, <1>14, <1>15, <1>16, <1>17, <1>18, <1>19 DEF GCInv

\* The frame at the top is replaced.
LEMMA TopReplaced ==
  ASSUME GCInv, NEW n \in Nat, n = Len(sweep), n > 0, NEW f \in FrameSet,
         sweep' = [sweep EXCEPT ![n] = f]
  PROVE  /\ sweep' \in Seq(FrameSet) /\ Len(sweep') = n /\ sweep' # <<>>
         /\ sweep'[n] = f
         /\ \A i \in 1 .. n : i # n => sweep'[i] = sweep[i]
<1>1. sweep \in Seq(FrameSet)
  BY DEF FrameSet, GCInv, TypeOK
<1>2. sweep' \in Seq(FrameSet) /\ Len(sweep') = n
      /\ \A i \in 1 .. n : sweep'[i] = IF i = n THEN f ELSE sweep[i]
  BY <1>1, ExceptSeq
<1>3. sweep' # <<>>
  BY <1>2, EmptyLen
<1>4. n \in 1 .. n
  OBVIOUS
<1> QED BY <1>2, <1>3, <1>4

LEMMA TopFrame ==
  ASSUME GCInv, sweep # <<>>
  PROVE  /\ Len(sweep) \in Nat /\ Len(sweep) > 0 /\ Frame = sweep[Len(sweep)]
         /\ Frame \in FrameSet /\ Frame.white \subseteq Obj /\ Frame.obj \in Obj \cup {None}
         /\ \A x \in Obj : InFrame(Frame, x) => Swept(x)
<1>1. sweep \in Seq(FrameSet)
  BY DEF FrameSet, GCInv, TypeOK
<1>2. Len(sweep) \in Nat /\ Len(sweep) > 0 /\ Len(sweep) \in 1 .. Len(sweep)
  BY <1>1, EmptyLen
<1>3. Frame = sweep[Len(sweep)] /\ Frame \in FrameSet
  BY <1>1, <1>2, ElementOfSeq DEF Frame
<1>4. Frame.white \subseteq Obj /\ Frame.obj \in Obj \cup {None}
  BY <1>3 DEF FrameSet
<1> QED BY <1>2, <1>3, <1>4 DEF Swept

\* o, which nobody holds, is unlinked: both ends of its weak references go.
LEMMA UnlinkFacts ==
  ASSUME GCInv, NEW o \in Obj, ~Held(o), Unlink(o)
  PROVE  /\ weak' \in Sets /\ weak_refs' \in Sets
         /\ value' \in [Obj -> [Obj -> Obj \cup {None}]]
         /\ \A h, k \in Obj : /\ k \in weak'[h] <=> k \in weak[h] /\ h # o /\ k # o
                              /\ h \in weak_refs'[k] <=> h \in weak_refs[k] /\ h # o /\ k # o
                              /\ value'[h][k] # None =>
                                   value'[h][k] = value[h][k] /\ k \in weak'[h]
<1>1. weak_refs' = [k \in Obj |-> IF k = o THEN {}
                                  ELSE IF k \in weak[o] THEN weak_refs[k] \ {o}
                                  ELSE weak_refs[k]]
  BY DEF Unlink, LeaveKeys
<1>2. /\ weak' = [h \in Obj |-> {k \in weak[h] : ~(h = o \/ (k = o /\ h \in weak_refs[o]))}]
      /\ value' = [h \in Obj |-> [k \in Obj |->
                     IF h = o \/ (k = o /\ h \in weak_refs[o]) THEN None ELSE value[h][k]]]
  BY DEF Unlink, LeaveHolders
<1>3. weak \in Sets /\ weak_refs \in Sets /\ value \in [Obj -> [Obj -> Obj \cup {None}]]
  BY DEF GCInv, TypeOK
<1>4. weak' \in Sets /\ weak_refs' \in Sets /\ value' \in [Obj -> [Obj -> Obj \cup {None}]]
  BY <1>1, <1>2, <1>3 DEF Sets
<1>5. ASSUME NEW h \in Obj, NEW k \in Obj
      PROVE  /\ k \in weak'[h] <=> k \in weak[h] /\ h # o /\ k # o
             /\ h \in weak_refs'[k] <=> h \in weak_refs[k] /\ h # o /\ k # o
             /\ value'[h][k] # None => value'[h][k] = value[h][k] /\ k \in weak'[h]
  <2>1. /\ k \in weak[h] => h \in weak_refs[k] \/ pending = <<h, k>>
        /\ h \in weak_refs[k] => k \in weak[h]
    BY DEF GCInv, GraphOK, WeakLinks
  <2>2. k = o => pending # <<h, k>>
    <3>1. pending = <<h, k>> => pending # <<>> /\ pending[2] = k
      OBVIOUS
    <3> QED BY <3>1 DEF GCInv, GraphOK
  <2>3. k \in weak'[h] <=> k \in weak[h] /\ ~(h = o \/ (k = o /\ h \in weak_refs[o]))
    BY <1>2
  <2>4. k \in weak'[h] <=> k \in weak[h] /\ h # o /\ k # o
    BY <2>1, <2>2, <2>3
  <2>5. h \in weak_refs'[k] <=> k # o /\ h \in weak_refs[k] /\ ~(h = o /\ k \in weak[o])
    BY <1>1
  <2>6. h \in weak_refs'[k] <=> h \in weak_refs[k] /\ h # o /\ k # o
    BY <2>1, <2>5
  <2>7. value'[h][k] = IF h = o \/ (k = o /\ h \in weak_refs[o]) THEN None ELSE value[h][k]
    BY <1>2
  <2>8. value[h][k] # None => k \in weak[h]
    BY DEF GCInv, GraphOK
  <2> QED BY <2>3, <2>4, <2>6, <2>7, <2>8
<1> QED BY <1>4, <1>5

\* The parts about the graph, after o was unlinked.
LEMMA UnlinkedGraph ==
  ASSUME GCInv, NEW o \in Obj, ~Held(o), o \notin list, white = {}, Unlink(o),
         \A x \in Obj : x # o => kind'[x] = kind[x] /\ refs'[x] = refs[x],
         kind'[o] = "free" => refs'[o] = {},
         list' = list, white' = white, handles' = handles, pending' = pending
  PROVE  GraphOK' /\ KeptOK'
<1>1. /\ \A h, k \in Obj : /\ k \in weak'[h] <=> k \in weak[h] /\ h # o /\ k # o
                           /\ h \in weak_refs'[k] <=> h \in weak_refs[k] /\ h # o /\ k # o
                           /\ value'[h][k] # None =>
                                value'[h][k] = value[h][k] /\ k \in weak'[h]
  BY UnlinkFacts
<1>2. WeakLinks'
  BY <1>1 DEF GCInv, GraphOK, WeakLinks
<1>3. \A m, k \in Obj : value'[m][k] # None => k \in weak'[m] /\ kind'[m] = "weakmap"
  BY <1>1 DEF GCInv, GraphOK
<1>4. \A x \in Obj : kind'[x] = "free" => refs'[x] = {}
  BY DEF GCInv, GraphOK
<1>5. (pending # <<>> => /\ Held(pending[1]) /\ Held(pending[2])
                         /\ pending[2] \in weak[pending[1]])'
  <2>1. CASE pending = <<>>
    BY <2>1
  <2>2. CASE pending # <<>>
    <3>1. PICK h, k \in Obj : pending = <<h, k>>
      BY <2>2 DEF GCInv, TypeOK
    <3>2. pending[1] = h /\ pending[2] = k
      BY <3>1
    <3>3. Held(h) /\ Held(k) /\ k \in weak[h]
      BY <2>2, <3>2 DEF GCInv, GraphOK
    <3>4. k \in weak'[h]
      BY <1>1, <3>3
    <3> QED BY <3>2, <3>3, <3>4 DEF Held
  <2> QED BY <2>1, <2>2
<1>6. GraphOK'
  BY <1>2, <1>3, <1>4, <1>5 DEF GraphOK
<1>7. Here' = list /\ Here = list /\ list \subseteq Obj /\ Closed(list)
  BY DEF Here, GCInv, TypeOK, KeptOK
<1>8. Closed(Here)'
  <2>1. \A x \in list : refs'[x] \subseteq list
    BY <1>7 DEF Closed
  <2>2. \A m, k \in list : kind'[m] = "weakmap" /\ k \in weak'[m] /\ value'[m][k] # None
                             => value'[m][k] \in list
    BY <1>1, <1>7 DEF Closed
  <2> QED BY <1>7, <2>1, <2>2 DEF Closed
<1>9. \A x \in Obj : Held(x)' => x \in list'
  BY DEF GCInv, KeptOK, Held
<1> QED BY <1>6, <1>8, <1>9 DEF KeptOK

\* What a step of a sweep leaves alone.
SweepUnchanged ==
  /\ list' = list /\ handles' = handles /\ new_objects' = new_objects /\ pending' = pending
  /\ UNCHANGED markVars /\ runs' = runs

LEMMA SweepRest ==
  ASSUME GCInv, ~InMark, ~InMark', UNCHANGED markVars
  PROVE  WorkOK' /\ ColoursOK' /\ white = {} /\ white' = white /\ todo' = todo
         /\ marked' = marked /\ stack' = stack /\ strong' = strong /\ entries' = entries
         /\ holders' = holders
<1>1. /\ white' = white /\ todo' = todo /\ stack' = stack /\ strong' = strong
      /\ entries' = entries /\ holders' = holders /\ marked' = marked
  BY DEF markVars
<1>2. white = {} /\ todo = {} /\ stack = <<>>
  BY DEF GCInv, WorkOK
<1>3. \A i \in 1 .. Len(stack) : FALSE
  BY <1>2, EmptySeq
<1>4. \A x \in Obj : strong[x] = {} /\ entries[x] = {} /\ holders[x] = {}
  BY <1>3 DEF GCInv, WorkOK
<1>5. WorkOK'
  BY <1>1, <1>2, <1>3, <1>4 DEF WorkOK, InMark
<1> QED BY <1>1, <1>2, <1>5 DEF ColoursOK

\* o is freed, by the frame at the top, which becomes f.
LEMMA FreedInv ==
  ASSUME GCInv, NEW o \in Obj, sweep # <<>>, phase \in {"sweep", "run"}, phase' = "sweep",
         InFrame(Frame, o), Unlink(o), Dealloc(o), SweepUnchanged,
         NEW f \in FrameSet, sweep' = [sweep EXCEPT ![Len(sweep)] = f],
         f.obj = None, f.white = Frame.white \ {o},
         phase = "sweep" \/ o = Frame.obj,
         phase = "sweep" => Frame.obj = None
  PROVE  GCInv'
<1>1. /\ list' = list /\ handles' = handles /\ new_objects' = new_objects
      /\ pending' = pending /\ UNCHANGED markVars /\ runs' = runs
  BY DEF SweepUnchanged
<1>2. PICK n \in Nat : n = Len(sweep) /\ n > 0 /\ n \in 1 .. n
  BY TopFrame
<1>3. /\ Frame = sweep[n] /\ Frame.white \subseteq Obj /\ Swept(o)
  BY <1>2, TopFrame
<1>4. /\ sweep' \in Seq(FrameSet) /\ Len(sweep') = n /\ sweep' # <<>>
      /\ sweep'[n] = f
      /\ \A i \in 1 .. n : i # n => sweep'[i] = sweep[i]
  BY <1>2, TopReplaced
<1>5. ~InMark /\ ~InMark'
  BY DEF InMark
<1>6. WorkOK' /\ ColoursOK' /\ white = {} /\ white' = white /\ todo' = todo
      /\ marked' = marked /\ stack' = stack /\ strong' = strong /\ entries' = entries
      /\ holders' = holders
  BY <1>1, <1>5, SweepRest
<1>7. o \notin list /\ ~Held(o) /\ handles[o] = 0
  BY <1>3 DEF GCInv, PlacesOK, CountsOK, Held, Here
<1>8. /\ kind' = [kind EXCEPT ![o] = "free"] /\ refs' = [refs EXCEPT ![o] = {}]
      /\ count' = [count EXCEPT ![o] = 0]
  BY DEF Dealloc
<1>9. /\ kind' \in [Obj -> Kinds \cup {"free"}] /\ refs' \in Sets
      /\ count' \in [Obj -> 0 .. NonVisited]
      /\ kind'[o] = "free" /\ refs'[o] = {} /\ count'[o] = 0
      /\ \A x \in Obj : x # o => kind'[x] = kind[x] /\ refs'[x] = refs[x] /\ count'[x] = count[x]
  BY <1>8, Numbers DEF GCInv, TypeOK, Sets
<1>10. GraphOK' /\ KeptOK'
  BY <1>1, <1>6, <1>7, <1>9, UnlinkedGraph
<1>11. TypeOK'
  <2>1. sweep' \in Seq([white : SUBSET Obj, obj : Obj \cup {None}])
    BY <1>4 DEF FrameSet
  <2>2. /\ weak' \in Sets /\ weak_refs' \in Sets
        /\ value' \in [Obj -> [Obj -> Obj \cup {None}]]
    BY <1>7, UnlinkFacts
  <2> HIDE DEF FrameSet
  <2> QED BY <1>1, <1>6, <1>9, <2>1, <2>2 DEF GCInv, TypeOK
<1>12. \A x \in Obj : \A i \in 1 .. n : InFrame(sweep'[i], x) <=> InFrame(sweep[i], x) /\ x # o
  <2> SUFFICES ASSUME NEW x \in Obj, NEW i \in 1 .. n
               PROVE  InFrame(sweep'[i], x) <=> InFrame(sweep[i], x) /\ x # o
    OBVIOUS
  <2>1. CASE i = n
    <3>1. InFrame(f, x) <=> x \in Frame.white /\ x # o
      BY ObjAssumption DEF InFrame
    <3>2. InFrame(Frame, x) /\ x # o => x \in Frame.white
      BY ObjAssumption DEF InFrame
    <3>3. x \in Frame.white => InFrame(Frame, x)
      BY DEF InFrame
    <3> QED BY <1>3, <1>4, <2>1, <3>1, <3>2, <3>3
  <2>2. CASE i # n
    <3>1. InFrame(sweep[i], o) => i = n
      BY <1>2, <1>3 DEF GCInv, PlacesOK
    <3> QED BY <1>4, <2>2, <3>1
  <2> QED BY <2>1, <2>2
<1>13. \A x \in Obj : Swept(x)' <=> Swept(x) /\ x # o
  <2> SUFFICES ASSUME NEW x \in Obj PROVE Swept(x)' <=> Swept(x) /\ x # o
    OBVIOUS
  <2>1. Swept(x)' <=> \E i \in 1 .. n : InFrame(sweep'[i], x)
    BY <1>4 DEF Swept, InFrame
  <2>2. Swept(x) <=> \E i \in 1 .. n : InFrame(sweep[i], x)
    BY <1>2 DEF Swept
  <2> QED BY <1>12, <2>1, <2>2
<1>14. Here' = Here /\ Here = list /\ list \subseteq Obj
  BY <1>1, <1>6 DEF Here, GCInv, TypeOK
<1>15. PlacesOK'
  <2>1. \A x \in Obj : (kind'[x] # "free") <=> (x \in Here' \/ Swept(x)')
    BY <1>7, <1>9, <1>13, <1>14 DEF GCInv, PlacesOK
  <2>2. \A x \in Here' : ~Swept(x)'
    BY <1>13, <1>14 DEF GCInv, PlacesOK
  <2>3. \A i, j \in 1 .. n : \A x \in Obj :
          InFrame(sweep'[i], x) /\ InFrame(sweep'[j], x) => i = j
    BY <1>2, <1>12 DEF GCInv, PlacesOK
  <2>4. \A i \in 1 .. n : sweep'[i].obj \notin sweep'[i].white
    <3>1. f.obj \notin f.white
      BY <1>3, ObjAssumption
    <3>2. \A i \in 1 .. n : sweep[i].obj \notin sweep[i].white
      BY <1>2 DEF GCInv, PlacesOK
    <3> QED BY <1>4, <3>1, <3>2
  <2>5. list' \cap white' = {}
    BY <1>6
  <2> QED BY <1>4, <2>1, <2>2, <2>3, <2>4, <2>5 DEF PlacesOK, InFrame
<1>16. CountsOK'
  BY <1>1, <1>6, <1>7, <1>9, <1>13 DEF GCInv, CountsOK
<1>17. SweepOK'
  <2>1. \A i \in 1 .. n : i # n => sweep[i].obj \in Obj /\ kind[sweep[i].obj] = "native"
    BY <1>2 DEF GCInv, SweepOK
  <2>2. \A i \in 1 .. n : i # n => sweep[i].obj # o
    <3>1. \A i \in 1 .. n : InFrame(sweep[i], o) => i = n
      BY <1>2, <1>3 DEF GCInv, PlacesOK
    <3> QED BY <3>1 DEF InFrame
  <2>3. \A i \in 1 .. n : i # n => sweep'[i].obj \in Obj /\ kind'[sweep'[i].obj] = "native"
    BY <1>4, <1>9, <2>1, <2>2
  <2> QED BY <1>4, <2>3 DEF SweepOK
<1> QED BY <1>6, <1>10, <1>11, <1>15, <1>16, <1>17 DEF GCInv

LEMMA FreeObjectInv ==
  ASSUME GCInv, NEW o \in Obj, FreeObject(o)
  PROVE  GCInv'
<1>1. /\ phase = "sweep" /\ phase' = phase /\ o \in Frame.white /\ Unlink(o) /\ Dealloc(o)
      /\ SweepUnchanged /\ sweep # <<>>
      /\ sweep' = [sweep EXCEPT ![Len(sweep)].white = @ \ {o}]
  BY DEF FreeObject, SweepUnchanged, GCInv, SweepOK
<1>2. PICK n \in Nat : n = Len(sweep) /\ n \in 1 .. n
  BY <1>1, TopFrame
<1>3. Frame = sweep[n] /\ Frame \in FrameSet
  BY <1>1, <1>2, TopFrame
<1>4. Frame.obj = None
  BY <1>1, <1>2, <1>3 DEF GCInv, SweepOK
<1>5. PICK f : f = [Frame EXCEPT !.white = @ \ {o}]
  OBVIOUS
<1>6. f \in FrameSet /\ f.white = Frame.white \ {o} /\ f.obj = None
  BY <1>3, <1>4, <1>5 DEF FrameSet
<1>7. sweep' = [sweep EXCEPT ![Len(sweep)] = f]
  BY <1>1, <1>2, <1>3, <1>5
<1> QED BY <1>1, <1>4, <1>6, <1>7, FreedInv DEF InFrame

LEMMA FreeCallbackReturnsInv ==
  ASSUME GCInv, FreeCallbackReturns
  PROVE  GCInv'
<1>1. /\ phase = "run" /\ phase' = "sweep" /\ Unlink(Frame.obj) /\ Dealloc(Frame.obj)
      /\ SweepUnchanged /\ sweep # <<>>
      /\ sweep' = [sweep EXCEPT ![Len(sweep)].obj = None]
  BY DEF FreeCallbackReturns, SweepUnchanged, Running
<1>2. PICK n \in Nat : n = Len(sweep) /\ n \in 1 .. n
  BY <1>1, TopFrame
<1>3. Frame = sweep[n] /\ Frame \in FrameSet
  BY <1>1, <1>2, TopFrame
<1>4. PICK o \in Obj : o = Frame.obj
  BY <1>1, <1>2, <1>3 DEF GCInv, SweepOK
<1>5. o \notin Frame.white
  BY <1>2, <1>3, <1>4 DEF GCInv, PlacesOK
<1>6. PICK f : f = [Frame EXCEPT !.obj = None]
  OBVIOUS
<1>7. f \in FrameSet /\ f.white = Frame.white \ {o} /\ f.obj = None
  BY <1>3, <1>5, <1>6 DEF FrameSet
<1>8. sweep' = [sweep EXCEPT ![Len(sweep)] = f]
  BY <1>1, <1>2, <1>3, <1>6
<1>9. InFrame(Frame, o)
  BY <1>4 DEF InFrame
<1> QED BY <1>1, <1>4, <1>7, <1>8, <1>9, FreedInv

LEMMA CallFreeCallbackInv ==
  ASSUME GCInv, NEW o \in Obj, CallFreeCallback(o)
  PROVE  GCInv'
<1>1. /\ phase = "sweep" /\ phase' = "run" /\ o \in Frame.white /\ kind[o] = "native"
      /\ sweep' = [sweep EXCEPT ![Len(sweep)] = [white |-> @.white \ {o}, obj |-> o]]
      /\ Unlink(o) \/ (weak' = weak /\ value' = value /\ weak_refs' = weak_refs)
      /\ list' = list /\ kind' = kind /\ refs' = refs /\ count' = count /\ handles' = handles
      /\ new_objects' = new_objects /\ pending' = pending /\ UNCHANGED markVars /\ runs' = runs
  BY DEF CallFreeCallback, countVars
<1>2. sweep # <<>>
  BY <1>1 DEF GCInv, SweepOK
<1>3. PICK n \in Nat : n = Len(sweep) /\ n > 0 /\ n \in 1 .. n
  BY <1>2, TopFrame
<1>4. Frame = sweep[n] /\ Frame.white \subseteq Obj /\ \A x \in Obj : InFrame(Frame, x) => Swept(x)
  BY <1>2, <1>3, TopFrame
<1>5. Frame.obj = None
  BY <1>1, <1>3, <1>4 DEF GCInv, SweepOK
<1>6. PICK f : f = [white |-> Frame.white \ {o}, obj |-> o]
  OBVIOUS
<1>7. f \in FrameSet /\ f.white = Frame.white \ {o} /\ f.obj = o
  BY <1>4, <1>6 DEF FrameSet
<1>8. sweep' = [sweep EXCEPT ![n] = f]
  BY <1>1, <1>3, <1>4, <1>6
<1>9. /\ sweep' \in Seq(FrameSet) /\ Len(sweep') = n /\ sweep' # <<>>
      /\ sweep'[n] = f
      /\ \A i \in 1 .. n : i # n => sweep'[i] = sweep[i]
  BY <1>3, <1>7, <1>8, TopReplaced
<1>10. ~InMark /\ ~InMark'
  BY <1>1 DEF InMark
<1>11. WorkOK' /\ ColoursOK' /\ white = {} /\ white' = white /\ todo' = todo
       /\ marked' = marked /\ stack' = stack /\ strong' = strong /\ entries' = entries
       /\ holders' = holders
  BY <1>1, <1>10, SweepRest
<1>12. o \notin list /\ ~Held(o)
  <2>1. Swept(o)
    BY <1>1, <1>4 DEF InFrame
  <2> QED BY <2>1 DEF GCInv, PlacesOK, CountsOK, Held, Here
<1>13. GraphOK' /\ KeptOK' /\ weak' \in Sets /\ weak_refs' \in Sets
       /\ value' \in [Obj -> [Obj -> Obj \cup {None}]]
  <2>1. CASE Unlink(o)
    BY <1>1, <1>11, <1>12, <2>1, UnlinkFacts, UnlinkedGraph
  <2>2. CASE weak' = weak /\ value' = value /\ weak_refs' = weak_refs
    <3>1. GraphOK'
      BY <1>1, <2>2, GraphSame DEF GCInv
    <3>2. Here' = Here
      BY <1>1, <1>11 DEF Here
    <3>3. \A x \in Obj : Held(x) => x \in list'
      BY <1>1 DEF GCInv, KeptOK
    <3>4. KeptOK'
      BY <1>1, <2>2, <3>2, <3>3, KeptSame DEF GCInv
    <3> QED BY <2>2, <3>1, <3>4 DEF GCInv, TypeOK
  <2> QED BY <1>1, <2>1, <2>2
<1>14. TypeOK'
  <2>1. sweep' \in Seq([white : SUBSET Obj, obj : Obj \cup {None}])
    BY <1>9 DEF FrameSet
  <2> HIDE DEF FrameSet
  <2> QED BY <1>1, <1>11, <1>13, <2>1 DEF GCInv, TypeOK
<1>15. \A x \in Obj : \A i \in 1 .. n : InFrame(sweep'[i], x) <=> InFrame(sweep[i], x)
  <2> SUFFICES ASSUME NEW x \in Obj, NEW i \in 1 .. n
               PROVE  InFrame(sweep'[i], x) <=> InFrame(sweep[i], x)
    OBVIOUS
  <2>1. CASE i = n
    <3>1. InFrame(f, x) <=> InFrame(Frame, x)
      BY <1>1, <1>5, <1>7, ObjAssumption DEF InFrame
    <3> QED BY <1>4, <1>9, <2>1, <3>1
  <2>2. CASE i # n
    BY <1>9, <2>2
  <2> QED BY <2>1, <2>2
<1>16. \A x \in Obj : Swept(x)' <=> Swept(x)
  <2> SUFFICES ASSUME NEW x \in Obj PROVE Swept(x)' <=> Swept(x)
    OBVIOUS
  <2>1. Swept(x)' <=> \E i \in 1 .. n : InFrame(sweep'[i], x)
    BY <1>9 DEF Swept, InFrame
  <2>2. Swept(x) <=> \E i \in 1 .. n : InFrame(sweep[i], x)
    BY <1>3 DEF Swept
  <2> QED BY <1>15, <2>1, <2>2
<1>17. Here' = Here /\ Here \subseteq Obj
  BY <1>1, <1>11 DEF Here, GCInv, TypeOK
<1>18. PlacesOK'
  <2>1. /\ \A x \in Obj : (kind'[x] # "free") <=> (x \in Here' \/ Swept(x)')
        /\ \A x \in Here' : ~Swept(x)'
    BY <1>1, <1>16, <1>17 DEF GCInv, PlacesOK
  <2>3. \A i, j \in 1 .. n : \A x \in Obj :
          InFrame(sweep'[i], x) /\ InFrame(sweep'[j], x) => i = j
    BY <1>3, <1>15 DEF GCInv, PlacesOK
  <2>4. \A i \in 1 .. n : sweep'[i].obj \notin sweep'[i].white
    <3>1. f.obj \notin f.white
      BY <1>7
    <3>2. \A i \in 1 .. n : sweep[i].obj \notin sweep[i].white
      BY <1>3 DEF GCInv, PlacesOK
    <3> QED BY <1>9, <3>1, <3>2
  <2>5. list' \cap white' = {}
    BY <1>11
  <2> QED BY <1>9, <2>1, <2>3, <2>4, <2>5 DEF PlacesOK, InFrame
<1>19. CountsOK'
  BY <1>1, <1>11, <1>16 DEF GCInv, CountsOK
<1>20. SweepOK'
  <2>1. \A i \in 1 .. n : i # n => sweep[i].obj \in Obj /\ kind[sweep[i].obj] = "native"
    BY <1>3 DEF GCInv, SweepOK
  <2>2. \A i \in 1 .. n : sweep'[i].obj \in Obj /\ kind'[sweep'[i].obj] = "native"
    BY <1>1, <1>7, <1>9, <2>1
  <2> QED BY <1>1, <1>9, <2>2 DEF SweepOK
<1> QED BY <1>11, <1>13, <1>14, <1>18, <1>19, <1>20 DEF GCInv

LEMMA EndRunInv ==
  ASSUME GCInv, EndRun
  PROVE  GCInv'
<1>1. /\ phase = "sweep" /\ Frame.white = {} /\ sweep' = SubSeq(sweep, 1, Len(sweep) - 1)
      /\ phase' = IF sweep' = <<>> /\ runs > 0 THEN "finalize" ELSE "run"
      /\ list' = list /\ kind' = kind /\ refs' = refs /\ weak' = weak /\ value' = value
      /\ weak_refs' = weak_refs /\ count' = count /\ handles' = handles
      /\ new_objects' = new_objects /\ pending' = pending /\ UNCHANGED markVars /\ runs' = runs
  BY DEF EndRun, countVars, graphVars
<1>2. sweep # <<>> /\ sweep \in Seq(FrameSet)
  BY <1>1 DEF GCInv, SweepOK, TypeOK, FrameSet
<1>3. PICK n \in Nat : n = Len(sweep) /\ n > 0 /\ n \in 1 .. n
  BY <1>2, TopFrame
<1>4. Frame = sweep[n] /\ Frame.obj = None
  BY <1>1, <1>2, <1>3, TopFrame DEF GCInv, SweepOK
<1>5. /\ sweep' \in Seq(FrameSet) /\ Len(sweep') = n - 1
      /\ \A i \in 1 .. n - 1 : sweep'[i] = sweep[i]
  BY <1>1, <1>2, <1>3, FrontProperties
<1>6. \A i \in 1 .. n - 1 : i \in 1 .. n /\ i # n
  BY <1>3
<1>7. \A i \in 1 .. n : i \in 1 .. n - 1 \/ i = n
  BY <1>3
<1>8. ~InMark /\ ~InMark'
  BY <1>1 DEF InMark
<1>9. WorkOK' /\ ColoursOK' /\ white = {} /\ white' = white /\ todo' = todo
      /\ marked' = marked /\ stack' = stack /\ strong' = strong /\ entries' = entries
      /\ holders' = holders
  BY <1>1, <1>8, SweepRest
<1>10. GraphOK'
  BY <1>1, GraphSame DEF GCInv
<1>11. Here' = Here /\ Here \subseteq Obj
  BY <1>1, <1>9 DEF Here, GCInv, TypeOK
<1>12. KeptOK'
  <2>1. \A x \in Obj : Held(x) => x \in list'
    BY <1>1 DEF GCInv, KeptOK
  <2> QED BY <1>1, <1>11, <2>1, KeptSame DEF GCInv
<1>13. TypeOK'
  <2>1. sweep' \in Seq([white : SUBSET Obj, obj : Obj \cup {None}])
    BY <1>5 DEF FrameSet
  <2> HIDE DEF FrameSet
  <2> QED BY <1>1, <1>9, <2>1 DEF GCInv, TypeOK
<1>14. \A x \in Obj : ~InFrame(sweep[n], x)
  BY <1>1, <1>4, ObjAssumption DEF InFrame
<1>15. \A x \in Obj : Swept(x)' <=> Swept(x)
  <2> SUFFICES ASSUME NEW x \in Obj PROVE Swept(x)' <=> Swept(x)
    OBVIOUS
  <2>1. Swept(x)' <=> \E i \in 1 .. n - 1 : InFrame(sweep'[i], x)
    BY <1>5 DEF Swept, InFrame
  <2>2. Swept(x) <=> \E i \in 1 .. n : InFrame(sweep[i], x)
    BY <1>3 DEF Swept
  <2> QED BY <1>5, <1>6, <1>7, <1>14, <2>1, <2>2
<1>16. PlacesOK'
  <2>1. /\ \A x \in Obj : (kind'[x] # "free") <=> (x \in Here' \/ Swept(x)')
        /\ \A x \in Here' : ~Swept(x)'
    BY <1>1, <1>11, <1>15 DEF GCInv, PlacesOK
  <2>3. \A i, j \in 1 .. n - 1 : \A x \in Obj :
          InFrame(sweep'[i], x) /\ InFrame(sweep'[j], x) => i = j
    BY <1>3, <1>5, <1>6 DEF GCInv, PlacesOK
  <2>4. \A i \in 1 .. n - 1 : sweep'[i].obj \notin sweep'[i].white
    BY <1>3, <1>5, <1>6 DEF GCInv, PlacesOK
  <2>5. list' \cap white' = {}
    BY <1>9
  <2> QED BY <1>5, <2>1, <2>3, <2>4, <2>5 DEF PlacesOK, InFrame
<1>17. CountsOK'
  BY <1>1, <1>9, <1>15 DEF GCInv, CountsOK
<1>18. SweepOK'
  <2>1. \A i \in 1 .. n - 1 : sweep[i].obj \in Obj /\ kind[sweep[i].obj] = "native"
    BY <1>3, <1>6 DEF GCInv, SweepOK
  <2>2. \A i \in 1 .. n - 1 : sweep'[i].obj \in Obj /\ kind'[sweep'[i].obj] = "native"
    BY <1>1, <1>5, <2>1
  <2> QED BY <1>1, <1>5, <2>2 DEF SweepOK
<1> QED BY <1>9, <1>10, <1>12, <1>13, <1>16, <1>17, <1>18 DEF GCInv

\* The engine stops, or stutters.
LEMMA StopInv ==
  ASSUME GCInv,
         (phase = "finalize" /\ phase' \in {"finalized", "fatal_loops"}) \/ phase' = phase,
         list' = list, kind' = kind, refs' = refs, weak' = weak, value' = value,
         weak_refs' = weak_refs, count' = count, handles' = handles,
         new_objects' = new_objects, pending' = pending, white' = white, todo' = todo,
         marked' = marked, stack' = stack, strong' = strong, entries' = entries,
         holders' = holders, sweep' = sweep, runs' = runs
  PROVE  GCInv'
<1>1. TypeOK'
  BY DEF GCInv, TypeOK, Stopped
<1>2. PlacesOK' /\ CountsOK' /\ GraphOK'
  BY PlacesSame, CountsSame, GraphSame DEF GCInv
<1>3. KeptOK'
  BY DEF GCInv, KeptOK, Closed, Here, Held
<1>4. CASE phase' = phase
  BY <1>1, <1>2, <1>3, <1>4
    DEF GCInv, SweepOK, WorkOK, ColoursOK, InMark, Here, Visited, RefsSeen, ValueSeen,
        Waiting, Reachable, Closed, Held
<1>5. CASE phase = "finalize" /\ phase' \in {"finalized", "fatal_loops"}
  <2>1. SweepOK' /\ ColoursOK'
    BY <1>5 DEF GCInv, SweepOK, ColoursOK, InMark, Held
  <2>2. WorkOK'
    BY <1>5 DEF GCInv, WorkOK, InMark, Here, Visited
  <2> QED BY <1>1, <1>2, <1>3, <2>1, <2>2 DEF GCInv
<1> QED BY <1>4, <1>5

LEMMA NextInv ==
  ASSUME MarkLimit # 0, GCInv, [Next]_vars
  PROVE  GCInv'
<1>1. CASE Program
  <2>1. ASSUME NEW o \in Obj, \/ \E k \in Kinds : Create(o, k)
                              \/ \E t \in Obj : CreateWeakRef(o, t)
                              \/ RefObject(o) \/ DerefObject(o)
        PROVE  GCInv'
    BY <2>1, CreateInv, CreateWeakRefInv, RefObjectInv, DerefObjectInv
  <2>2. ASSUME NEW p \in Obj, NEW c \in Obj, SetReference(p, c) \/ DeleteReference(p, c)
        PROVE  GCInv'
    BY <2>2, SetReferenceInv, DeleteReferenceInv
  <2>3. ASSUME NEW m \in Obj, NEW k \in Obj, NEW v \in Obj \cup {None}, ContainerSet(m, k, v)
        PROVE  GCInv'
    BY <2>3, ContainerSetInv
  <2>4. ASSUME NEW m \in Obj, NEW k \in Obj, ContainerDelete(m, k)
        PROVE  GCInv'
    BY <2>4, ContainerDeleteInv
  <2>5. CASE SetWeak \/ GcRun \/ Finalize
    BY <2>5, SetWeakInv, StartInv
  <2> QED BY <1>1, <2>1, <2>2, <2>3, <2>4, <2>5 DEF Program
<1>2. CASE MarkStep
  <2>1. ASSUME NEW o \in Obj, MarkReference(o) \/ MarkEntry(o) \/ MarkHolder(o) \/ MarkRoot(o)
        PROVE  GCInv'
    BY <2>1, MarkReferenceInv, MarkEntryInv, MarkHolderInv, MarkRootInv
  <2>2. ASSUME NEW o \in Obj, PassVisited(o) \/ PassWhite(o)
        PROVE  GCInv'
    BY <2>2, PassVisitedInv, PassWhiteInv
  <2>3. CASE MarkReturn \/ StartPass \/ StartSweep
    BY <2>3, MarkReturnInv, StartPassInv, StartSweepInv
  <2> QED BY <1>2, <2>1, <2>2, <2>3 DEF MarkStep
<1>3. CASE SweepStep
  BY <1>3, FreeObjectInv, CallFreeCallbackInv, EndRunInv DEF SweepStep
<1>4. CASE FreeCallbackReturns \/ FinalizeAgain
  BY <1>4, FreeCallbackReturnsInv, StartInv
<1>5. CASE FinalizeDone
  <2>1. phase = "finalize" /\ phase' \in {"finalized", "fatal_loops"}
    BY <1>5 DEF FinalizeDone
  <2>2. /\ list' = list /\ kind' = kind /\ refs' = refs /\ weak' = weak /\ value' = value
        /\ weak_refs' = weak_refs /\ count' = count /\ handles' = handles
        /\ new_objects' = new_objects /\ pending' = pending /\ white' = white /\ todo' = todo
        /\ marked' = marked /\ stack' = stack /\ strong' = strong /\ entries' = entries
        /\ holders' = holders /\ sweep' = sweep /\ runs' = runs
    BY <1>5 DEF FinalizeDone, graphVars, countVars, markVars
  <2> QED BY <2>1, <2>2, StopInv
<1>6. CASE UNCHANGED vars
  <2>1. /\ list' = list /\ kind' = kind /\ refs' = refs /\ weak' = weak /\ value' = value
        /\ weak_refs' = weak_refs /\ count' = count /\ handles' = handles
        /\ new_objects' = new_objects /\ pending' = pending /\ white' = white /\ todo' = todo
        /\ marked' = marked /\ stack' = stack /\ strong' = strong /\ entries' = entries
        /\ holders' = holders /\ sweep' = sweep /\ runs' = runs /\ phase' = phase
    BY <1>6 DEF vars, graphVars, countVars, markVars
  <2> QED BY <2>1, StopInv
<1> QED BY <1>1, <1>2, <1>3, <1>4, <1>5, <1>6 DEF Next, FinalizeStep, Terminated

-----------------------------------------------------------------------------
(* The theorems.                                                           *)

\* The invariant of the collector holds in every reachable state: one place for
\* each object, what its count field means there, whole weak links, and the
\* colours of a marking.
THEOREM GCInvariant ==
  ASSUME MarkLimit # 0
  PROVE  Spec => []GCInv
<1>1. Init => GCInv
  BY InitInv
<1>2. GCInv /\ [Next]_vars => GCInv'
  BY NextInv
<1> QED BY <1>1, <1>2, PTL DEF Spec

\* Every variable keeps its type; a count field never leaves its bits, although
\* one field is the reference count and the colour.
THEOREM GCTypes ==
  ASSUME MarkLimit # 0
  PROVE  Spec => []TypeOK
<1>1. GCInv => TypeOK
  BY DEF GCInv
<1> QED BY <1>1, GCInvariant, PTL

\* ReachableKept: no object that the program can get at is freed, whatever the
\* recursion limit leaves gray and whatever the free callbacks do.
THEOREM GCReachableKept ==
  ASSUME MarkLimit # 0
  PROVE  Spec => []ReachableKept
<1>1. ASSUME GCInv PROVE ReachableKept
  <2> SUFFICES ASSUME phase \in {"run", "sweep", "finalize"} PROVE Reachable \subseteq list
    BY DEF ReachableKept
  <2>1. Here = list
    BY <1>1 DEF GCInv, WorkOK, InMark, Here
  <2> QED BY <1>1, <2>1, ReachableIn DEF GCInv, KeptOK, TypeOK
<1>2. GCInv => ReachableKept
  BY <1>1
<1> QED BY <1>2, GCInvariant, PTL

\* FreesExactly: a collection frees what the program cannot get at, and nothing
\* else: ephemerons included, in whatever order maps and keys are marked.
THEOREM GCFreesExactly ==
  ASSUME MarkLimit # 0
  PROVE  Spec => []FreesExactly
<1>1. GCInv /\ ReachableKept => FreesExactly
  BY MarkedExactly DEF FreesExactly
<1> QED BY <1>1, GCInvariant, GCReachableKept, PTL

\* CountsRestored: after a collection the count fields are reference counts again.
THEOREM GCCountsRestored ==
  ASSUME MarkLimit # 0
  PROVE  Spec => []CountsRestored
<1>1. ASSUME GCInv PROVE CountsRestored
  <2> SUFFICES ASSUME NEW o \in list, phase = "run" PROVE count[o] = handles[o]
    BY DEF CountsRestored
  <2>1. o \in Obj /\ o \notin white /\ ~Swept(o)
    BY <1>1 DEF GCInv, TypeOK, PlacesOK, Here
  <2> QED BY <1>1, <2>1 DEF GCInv, CountsOK
<1>2. GCInv => CountsRestored
  BY <1>1
<1> QED BY <1>2, GCInvariant, PTL

\* CallbackSafe: with free callbacks that create, link, release and collect in the
\* middle of a sweep, every object is still in one place, and nothing reachable is
\* freed.
THEOREM GCCallbackSafe ==
  ASSUME MarkLimit # 0
  PROVE  Spec => []CallbackSafe
<1>1. ASSUME GCInv PROVE OnePlace
  <2> DEFINE places == {list, white} \cup {sweep[i].white : i \in DOMAIN sweep}
             freed == {sweep[i].obj : i \in DOMAIN sweep} \ {None}
  <2>1. DOMAIN sweep = 1 .. Len(sweep) /\ \A i \in 1 .. Len(sweep) : sweep[i] \in FrameSet
    <3>1. sweep \in Seq(FrameSet)
      BY <1>1 DEF GCInv, TypeOK, FrameSet
    <3> HIDE DEF FrameSet
    <3> QED BY <3>1, LenProperties, ElementOfSeq
  <2>2. \A i \in 1 .. Len(sweep) : sweep[i].white \subseteq Obj /\ sweep[i].obj \in Obj \cup {None}
    BY <2>1 DEF FrameSet
  <2>3. list \subseteq Obj /\ white \subseteq Obj
    BY <1>1 DEF GCInv, TypeOK
  <2>4. \A x \in Obj : Swept(x) <=> \E i \in DOMAIN sweep : x \in sweep[i].white \/ x = sweep[i].obj
    BY <2>1 DEF Swept, InFrame
  <2>5. Allocated = (UNION places) \cup freed
    <3>1. \A x \in Obj : x \in Allocated <=> x \in list \/ x \in white \/ Swept(x)
      BY <1>1 DEF Allocated, GCInv, PlacesOK, Here
    <3>a. \A x : x \in UNION places <=>
            x \in list \/ x \in white \/ \E i \in DOMAIN sweep : x \in sweep[i].white
      <4>1. \A x : x \in UNION places <=> \E S \in places : x \in S
        OBVIOUS
      <4>2. \A S : S \in places <=> S = list \/ S = white \/ \E i \in DOMAIN sweep : S = sweep[i].white
        OBVIOUS
      <4> HIDE DEF places
      <4> QED BY <4>1, <4>2
    <3>b. \A x : x \in freed <=> x # None /\ \E i \in DOMAIN sweep : x = sweep[i].obj
      OBVIOUS
    <3>2. \A x \in Obj : x \in (UNION places) \cup freed <=> x \in list \/ x \in white \/ Swept(x)
      <4>1. \A x \in Obj : x # None
        BY ObjAssumption
      <4> HIDE DEF places, freed
      <4> QED BY <2>4, <3>a, <3>b, <4>1
    <3>3. \A x \in (UNION places) \cup freed : x \in Obj
      <4> HIDE DEF places, freed
      <4> QED BY <2>1, <2>2, <2>3, <3>a, <3>b
    <3>4. Allocated \subseteq Obj
      BY DEF Allocated
    <3> HIDE DEF places, freed
    <3> QED BY <3>1, <3>2, <3>3, <3>4
  <2>6. \A S \in places : S \cap freed = {}
    <3> SUFFICES ASSUME NEW S \in places, NEW x \in S, x \in freed PROVE FALSE
      OBVIOUS
    <3>1. PICK i \in 1 .. Len(sweep) : x = sweep[i].obj /\ x \in Obj
      BY <2>1, <2>2
    <3>2. InFrame(sweep[i], x) /\ Swept(x)
      BY <3>1 DEF InFrame, Swept
    <3>3. CASE S = list \/ S = white
      BY <1>1, <3>2, <3>3 DEF GCInv, PlacesOK, Here
    <3>4. CASE \E j \in 1 .. Len(sweep) : S = sweep[j].white
      <4>1. PICK j \in 1 .. Len(sweep) : S = sweep[j].white
        BY <3>4
      <4>2. i = j
        BY <1>1, <3>1, <3>2, <4>1 DEF GCInv, PlacesOK, InFrame
      <4> QED BY <1>1, <3>1, <4>1, <4>2 DEF GCInv, PlacesOK
    <3> QED BY <2>1, <3>3, <3>4
  <2>7. \A S, T \in places : S = T \/ S \cap T = {}
    <3> SUFFICES ASSUME NEW S \in places, NEW T \in places, NEW x \in S, x \in T PROVE S = T
      OBVIOUS
    <3>0. x \in Obj
      BY <2>1, <2>2, <2>3
    <3>1. S \in {list, white} \/ \E i \in 1 .. Len(sweep) : S = sweep[i].white
      BY <2>1
    <3>2. T \in {list, white} \/ \E i \in 1 .. Len(sweep) : T = sweep[i].white
      BY <2>1
    <3>3. \A i \in 1 .. Len(sweep) : x \in sweep[i].white => InFrame(sweep[i], x) /\ Swept(x)
      BY DEF InFrame, Swept
    <3>4. ~(x \in list /\ x \in white) /\ (x \in list \/ x \in white => ~Swept(x))
      BY <1>1 DEF GCInv, PlacesOK, Here
    <3>5. CASE S \in {list, white} \/ T \in {list, white}
      BY <3>1, <3>2, <3>3, <3>4, <3>5
    <3>6. CASE (\E i \in 1 .. Len(sweep) : S = sweep[i].white)
               /\ (\E i \in 1 .. Len(sweep) : T = sweep[i].white)
      <4>1. PICK i \in 1 .. Len(sweep) : S = sweep[i].white
        BY <3>6
      <4>2. PICK j \in 1 .. Len(sweep) : T = sweep[j].white
        BY <3>6
      <4>3. i = j
        BY <1>1, <3>0, <3>3, <4>1, <4>2 DEF GCInv, PlacesOK
      <4> QED BY <4>1, <4>2, <4>3
    <3> QED BY <3>1, <3>2, <3>5, <3>6
  <2> QED BY <2>5, <2>6, <2>7 DEF OnePlace
<1>2. GCInv /\ ReachableKept /\ CountsRestored => CallbackSafe
  BY <1>1 DEF CallbackSafe
<1> QED BY <1>2, GCInvariant, GCReachableKept, GCCountsRestored, PTL

\* WeakLinks: both ends of a weak reference know each other, so that the sweep never
\* follows one into freed memory.
THEOREM GCWeakLinks ==
  ASSUME MarkLimit # 0
  PROVE  Spec => []WeakLinks
<1>1. GCInv => WeakLinks
  BY DEF GCInv, GraphOK
<1> QED BY <1>1, GCInvariant, PTL

\* ObtainedAreLive: whenever the program runs, in free callbacks too, a reference
\* copied from a variable, a property or a WeakMap is one to a live object, and so
\* is one a WeakRef gives, unless a sweep is under way and the object waits for it:
\* then its count field lets ecma_ref_object give no reference.
THEOREM GCObtainedAreLive ==
  ASSUME MarkLimit # 0
  PROVE  Spec => []ObtainedAreLive
<1>1. ASSUME GCInv PROVE ObtainedAreLive
  <2> SUFFICES ASSUME phase = "run", NEW o \in Obj
               PROVE  /\ CanRead(o) => o \in list
                      /\ CanDeref(o) =>
                           \/ o \in list
                           \/ o \in Allocated /\ sweep # <<>> /\ count[o] >= MaxRef
    BY DEF ObtainedAreLive, Running
  <2>1. ASSUME CanRead(o) PROVE o \in list
    <3>1. \A x \in Obj : Held(x) => x \in list
      BY <1>1 DEF GCInv, KeptOK
    <3>2. Closed(list)
      BY <1>1, ListClosed
    <3>3. CASE Held(o)
      BY <3>1, <3>3
    <3>4. CASE \E p \in Obj : Held(p) /\ o \in refs[p]
      BY <3>1, <3>2, <3>4 DEF Closed
    <3>5. CASE \E m, k \in Obj : Held(m) /\ Held(k) /\ k \in weak[m] /\ value[m][k] = o
      <4>1. PICK m, k \in Obj : Held(m) /\ Held(k) /\ k \in weak[m] /\ value[m][k] = o
        BY <3>5
      <4>2. value[m][k] # None /\ kind[m] = "weakmap"
        BY <1>1, <4>1, ObjAssumption DEF GCInv, GraphOK
      <4> QED BY <3>1, <3>2, <4>1, <4>2 DEF Closed
    <3> QED BY <2>1, <3>3, <3>4, <3>5 DEF CanRead
  <2>2. ASSUME CanDeref(o), o \notin list
       PROVE  o \in Allocated /\ sweep # <<>> /\ count[o] >= MaxRef
    <3>1. white = {}
      BY <1>1 DEF GCInv, WorkOK, InMark
    <3>2. Swept(o)
      BY <1>1, <2>2, <3>1, GetAllocated DEF CanGet
    <3>3. sweep # <<>>
      BY <3>2, EmptySeq DEF Swept
    <3>4. count[o] = NonVisited
      BY <1>1, <3>2 DEF GCInv, CountsOK
    <3>5. o \in Allocated
      BY <1>1, <3>2 DEF GCInv, PlacesOK, Allocated
    <3> QED BY <3>3, <3>4, <3>5, Numbers
  <2> QED BY <2>1, <2>2
<1>2. GCInv => ObtainedAreLive
  BY <1>1
<1> QED BY <1>2, GCInvariant, PTL
=============================================================================
