------------------------ MODULE EcmaPromiseAllProofs ------------------------
(***************************************************************************)
(* The count of open elements is right for every number of elements, in    *)
(* whatever order their functions are called, also from inside the walk.   *)
(***************************************************************************)
EXTENDS EcmaPromiseAll, FiniteSetTheorems, TLAPS

\* An element of Promise.allSettled calls only one of its two functions, as a
\* promise does.  (With a `then' that calls both the element is counted off twice.)
OneAnswer == "allSettled" \in Routines => "allSettled" \in OneOutcome

-----------------------------------------------------------------------------
(* The inductive invariant.                                                *)

Places == {"start", "step", "resolve", "then", "close", "failed", "returned"}
Written == {"none", "undefined"} \cup Outcome

TypeOK ==
  /\ routine \in Routines
  /\ pc \in Places
  /\ idx \in 0 .. IndexLimit
  /\ remaining \in Int
  /\ spent \subseteq Element \X Outcome
  /\ calls \in [Element -> SUBSET Outcome]
  /\ values \in [1 .. IndexLimit + 1 -> Written]
  /\ counted \in Nat

\* The elements that are not counted off, and whether the walk itself still counts.
OpenElements == {i \in 1 .. idx : calls[i] \cap Counting = {}}
WalkOpen == IF pc = "returned" THEN 0 ELSE 1

\* Only elements that got their functions have called one, and a function of an
\* element is spent exactly if it was called.
SpentExact ==
  /\ \A i \in Element : i > idx => calls[i] = {}
  /\ \A i \in Element, f \in Outcome : <<i, f>> \in spent <=> f \in calls[i] \cap Counting

\* At most one function of an element counts it off.
CountsOnce == \A i \in Element : \A f, g \in calls[i] : routine \in OneOutcome => f = g

\* The number object is the number of those who may still settle the promise.
RemainingExact ==
  /\ remaining = Cardinality(OpenElements) + WalkOpen
  /\ counted = IF pc = "returned" /\ OpenElements = {} THEN 1 ELSE 0

ValuesFilled ==
  \A i \in 1 .. idx : calls[i] \cap Counting # {} => values[i] \in calls[i]

Inv ==
  /\ TypeOK
  /\ SpentExact
  /\ CountsOnce
  /\ routine # "race" => RemainingExact /\ ValuesFilled

-----------------------------------------------------------------------------
(* Lemmas.                                                                 *)

LEMMA CountingType == TypeOK => Counting \subseteq Outcome
  BY LimitAssumption DEF TypeOK, Counting, Outcome

\* The open elements are a finite set.
LEMMA OpenFinite ==
  ASSUME TypeOK
  PROVE  /\ IsFiniteSet(OpenElements)
         /\ Cardinality(OpenElements) \in Nat
         /\ Cardinality(OpenElements) = 0 <=> OpenElements = {}
<1>1. IsFiniteSet(1 .. idx)
  BY FS_Interval, LimitAssumption DEF TypeOK
<1>2. OpenElements \subseteq 1 .. idx
  BY DEF OpenElements
<1>3. IsFiniteSet(OpenElements)
  BY <1>1, <1>2, FS_Subset
<1> QED BY <1>3, FS_CardinalityType, FS_EmptySet

\* A counting function of an element that is called for the first time finds its
\* element open.
LEMMA FirstCallOpens ==
  ASSUME OneAnswer, Inv, NEW i \in Element, NEW f \in Outcome,
         MayCall(i, f), f \in Counting, <<i, f>> \notin spent
  PROVE  i \in OpenElements
<1>1. f \notin calls[i]
  BY DEF Inv, SpentExact
<1>2. calls[i] \subseteq Outcome
  BY DEF Inv, TypeOK
<1>3. CASE routine = "allSettled"
  BY <1>1, <1>3 DEF OneAnswer, MayCall, Inv, TypeOK, OpenElements
<1>4. CASE routine # "allSettled"
  <2>1. Counting = {f}
    BY <1>4, LimitAssumption DEF Counting, Inv, TypeOK
  <2> QED BY <1>1, <2>1 DEF OpenElements, MayCall
<1> QED BY <1>3, <1>4

-----------------------------------------------------------------------------
(* One lemma for the steps of the walk that count nothing, one for each of *)
(* the others.                                                             *)

LEMMA InitInv == Init => Inv
<1> SUFFICES ASSUME Init PROVE Inv
  OBVIOUS
<1> USE LimitAssumption
<1>1. TypeOK
  BY DEF Init, TypeOK, Places, Written, Element, Outcome
<1>2. SpentExact /\ CountsOnce
  BY DEF Init, SpentExact, CountsOnce
<1>3. OpenElements = {}
  BY DEF Init, OpenElements
<1>4. RemainingExact /\ ValuesFilled
  BY <1>3, <1>1, OpenFinite DEF Init, RemainingExact, ValuesFilled, WalkOpen
<1> QED BY <1>1, <1>2, <1>4 DEF Inv

\* The place in the walk changes, and perhaps the promise or a place that no
\* element has yet.
LEMMA WalkInv ==
  ASSUME Inv, pc' \in Places \ {"returned"}, pc # "returned",
         UNCHANGED <<routine, idx, remaining, spent, calls, counted>>,
         values' \in [1 .. IndexLimit + 1 -> Written],
         \A i \in 1 .. idx : values'[i] = values[i]
  PROVE  Inv'
<1>1. TypeOK'
  BY DEF Inv, TypeOK
<1>2. SpentExact' /\ CountsOnce'
  BY DEF Inv, SpentExact, CountsOnce, Counting
<1>3. ASSUME routine' # "race" PROVE RemainingExact' /\ ValuesFilled'
  BY <1>3 DEF Inv, RemainingExact, ValuesFilled, WalkOpen, OpenElements, Counting
<1> QED BY <1>1, <1>2, <1>3 DEF Inv

\* The iterator is at its end.
LEMMA StepEndsInv == ASSUME Inv, StepEnds PROVE Inv'
<1>1. TypeOK'
  BY DEF Inv, TypeOK, StepEnds, Places, SettleWithValues
<1>2. SpentExact' /\ CountsOnce'
  BY DEF Inv, SpentExact, CountsOnce, StepEnds, Counting
<1>3. ASSUME routine' # "race" PROVE RemainingExact' /\ ValuesFilled'
  <2>1. OpenElements' = OpenElements /\ WalkOpen = 1 /\ WalkOpen' = 0
    BY DEF StepEnds, OpenElements, WalkOpen, Counting
  <2>2. remaining = Cardinality(OpenElements) + 1 /\ counted = 0
    BY <1>3, <2>1 DEF Inv, RemainingExact, StepEnds
  <2>3. remaining' = Cardinality(OpenElements)
    BY <1>3, <2>2, OpenFinite DEF StepEnds, Inv
  <2>4. counted' = IF OpenElements = {} THEN 1 ELSE 0
    BY <1>3, <2>2, <2>3, OpenFinite DEF StepEnds, SettleWithValues, Inv
  <2>5. RemainingExact'
    BY <2>1, <2>3, <2>4, OpenFinite DEF RemainingExact, StepEnds, Inv
  <2>6. ValuesFilled'
    BY <1>3 DEF Inv, ValuesFilled, StepEnds, Counting
  <2> QED BY <2>5, <2>6
<1> QED BY <1>1, <1>2, <1>3 DEF Inv

\* A new element is open, as its functions are new.
LEMMA CallThenInv == ASSUME Inv, CallThen PROVE Inv'
<1> USE LimitAssumption
<1>1. TypeOK'
  BY DEF Inv, TypeOK, CallThen, Places
<1>2. SpentExact' /\ CountsOnce'
  BY DEF Inv, TypeOK, SpentExact, CountsOnce, CallThen, Counting, Element
<1>3. ASSUME routine' # "race" PROVE RemainingExact' /\ ValuesFilled'
  <2>1. idx + 1 \in Element /\ calls[idx + 1] = {}
    BY DEF Inv, TypeOK, SpentExact, CallThen, Element
  <2>2. OpenElements' = OpenElements \cup {idx + 1} /\ idx + 1 \notin OpenElements
    <3>1. 1 .. idx + 1 = (1 .. idx) \cup {idx + 1}
      BY DEF Inv, TypeOK
    <3>2. Counting' = Counting /\ calls' = calls /\ idx' = idx + 1
      BY DEF CallThen, Counting
    <3>3. idx + 1 \notin 1 .. idx
      BY DEF Inv, TypeOK
    <3> QED BY <2>1, <3>1, <3>2, <3>3 DEF OpenElements
  <2>3. Cardinality(OpenElements') = Cardinality(OpenElements) + 1
    BY <2>2, FS_AddElement, OpenFinite DEF Inv
  <2>4. WalkOpen' = 1 /\ WalkOpen = 1
    BY DEF WalkOpen, CallThen
  <2>5. RemainingExact'
    BY <1>3, <2>3, <2>4, OpenFinite DEF Inv, TypeOK, RemainingExact, CallThen
  <2>6. ValuesFilled'
    <3> SUFFICES ASSUME NEW i \in 1 .. idx', (calls[i] \cap Counting # {})'
                 PROVE  (values[i] \in calls[i])'
      BY DEF ValuesFilled
    <3>1. i # idx + 1
      BY <2>1 DEF CallThen, Counting
    <3>2. i \in 1 .. idx
      BY <3>1 DEF CallThen, Inv, TypeOK
    <3> QED BY <1>3, <3>2 DEF Inv, ValuesFilled, CallThen, Counting
  <2> QED BY <2>5, <2>6
<1> QED BY <1>1, <1>2, <1>3 DEF Inv

\* A function of the capability counts nothing.
LEMMA CallCapabilityInv ==
  ASSUME Inv, NEW i \in Element, NEW f \in Outcome, CallCapability(i, f)
  PROVE  Inv'
<1>1. TypeOK'
  BY DEF Inv, TypeOK, CallCapability
<1>2. /\ \A j \in Element : calls'[j] \cap Counting = calls[j] \cap Counting
      /\ \A j \in Element : calls[j] \subseteq calls'[j]
      /\ Counting' = Counting
  BY DEF Inv, TypeOK, CallCapability, Counting
<1>3. SpentExact'
  BY <1>2 DEF Inv, TypeOK, SpentExact, CallCapability, MayCall, Element
<1>4. CountsOnce'
  BY DEF Inv, TypeOK, CountsOnce, CallCapability, MayCall
<1>5. ASSUME routine' # "race" PROVE RemainingExact' /\ ValuesFilled'
  <2>1. 1 .. idx \subseteq Element
    BY LimitAssumption DEF Inv, TypeOK, Element
  <2>2. OpenElements' = OpenElements
    BY <1>2, <2>1 DEF OpenElements, CallCapability
  <2>3. RemainingExact'
    BY <1>5, <2>2 DEF Inv, RemainingExact, CallCapability, WalkOpen
  <2>4. ValuesFilled'
    BY <1>5, <1>2, <2>1 DEF Inv, ValuesFilled, CallCapability
  <2> QED BY <2>3, <2>4
<1> QED BY <1>1, <1>3, <1>4, <1>5 DEF Inv

\* A counting function that was called before has no effect; the first call closes
\* its element.
LEMMA CallElementInv ==
  ASSUME OneAnswer, Inv, NEW i \in Element, NEW f \in Outcome, CallElement(i, f)
  PROVE  Inv'
<1> USE LimitAssumption
<1>1. TypeOK'
  BY DEF Inv, TypeOK, CallElement, SettleWithValues, Element, Written
<1>2. CountsOnce'
  BY DEF Inv, TypeOK, CountsOnce, CallElement, MayCall
<1>3. Counting' = Counting /\ UNCHANGED <<routine, pc, idx>> /\ i \in 1 .. idx
  BY DEF CallElement, Counting, MayCall
<1>4. CASE <<i, f>> \in spent
  <2>1. calls' = calls
    BY <1>4 DEF Inv, TypeOK, SpentExact, CallElement
  <2>2. UNCHANGED <<remaining, spent, values, counted>>
    BY <1>4 DEF CallElement
  <2> QED BY <1>1, <1>2, <1>3, <2>1, <2>2
          DEF Inv, SpentExact, RemainingExact, ValuesFilled, OpenElements, WalkOpen
<1>5. CASE <<i, f>> \notin spent
  <2>1. /\ i \in OpenElements /\ f \in Counting
        /\ calls' = [calls EXCEPT ![i] = @ \cup {f}]
        /\ values' = [values EXCEPT ![i] = f]
        /\ spent' = spent \cup {<<i, f>>}
        /\ remaining' = remaining - 1
        /\ IF remaining' = 0 THEN counted' = counted + 1 ELSE counted' = counted
    BY <1>5, FirstCallOpens DEF CallElement, SettleWithValues
  <2>2. SpentExact'
    BY <2>1, <1>3 DEF Inv, TypeOK, SpentExact, Element
  <2>3. ASSUME routine' # "race" PROVE RemainingExact' /\ ValuesFilled'
    <3>1. OpenElements' = OpenElements \ {i}
      BY <2>1, <1>3 DEF Inv, TypeOK, OpenElements, Element
    <3>2. Cardinality(OpenElements') = Cardinality(OpenElements) - 1
      BY <2>1, <3>1, FS_RemoveElement, OpenFinite DEF Inv
    <3>3. WalkOpen' = WalkOpen /\ WalkOpen \in Nat
      BY <1>3 DEF WalkOpen
    <3>4. remaining' = Cardinality(OpenElements') + WalkOpen'
      BY <1>3, <2>1, <2>3, <3>2, <3>3, OpenFinite DEF Inv, RemainingExact
    <3>5. counted = 0
      BY <1>3, <2>1, <2>3 DEF Inv, RemainingExact
    <3>6. /\ Cardinality(OpenElements') \in Nat
          /\ Cardinality(OpenElements') = 0 <=> OpenElements' = {}
      <4>1. IsFiniteSet(OpenElements')
        BY <3>1, OpenFinite, FS_Subset DEF Inv
      <4> QED BY <4>1, FS_CardinalityType, FS_EmptySet
    <3>7. remaining' = 0 <=> pc' = "returned" /\ OpenElements' = {}
      BY <3>4, <3>6 DEF WalkOpen
    <3>8. RemainingExact'
      BY <2>1, <3>4, <3>5, <3>7 DEF RemainingExact
    <3>9. ValuesFilled'
      <4> SUFFICES ASSUME NEW j \in 1 .. idx, calls'[j] \cap Counting # {}
                   PROVE  values'[j] \in calls'[j]
        BY <1>3 DEF ValuesFilled
      <4>1. j \in Element /\ j \in 1 .. IndexLimit + 1
        BY DEF Inv, TypeOK, Element
      <4>2. CASE j = i
        BY <2>1, <4>1, <4>2 DEF Inv, TypeOK
      <4>3. CASE j # i
        BY <1>3, <2>1, <2>3, <4>1, <4>3 DEF Inv, TypeOK, ValuesFilled
      <4> QED BY <4>2, <4>3
    <3> QED BY <3>8, <3>9
  <2> QED BY <1>1, <1>2, <2>2, <2>3 DEF Inv
<1> QED BY <1>4, <1>5

LEMMA NextInv == ASSUME OneAnswer, Inv, [Next]_vars PROVE Inv'
<1> USE DEF Places
<1>1. CASE NoResolve
  BY <1>1, WalkInv DEF NoResolve, Inv, TypeOK
<1>2. CASE GetIterator \/ GetIteratorFails
  BY <1>2, WalkInv DEF GetIterator, GetIteratorFails, Inv, TypeOK
<1>3. CASE StepEnds
  BY <1>3, StepEndsInv
<1>4. CASE StepFails
  BY <1>4, WalkInv DEF StepFails, Inv, TypeOK
<1>5. CASE StepValue
  <2>1. idx + 1 \in 1 .. IndexLimit + 1 /\ \A i \in 1 .. idx : i # idx + 1
    BY LimitAssumption DEF Inv, TypeOK
  <2>2. values' \in [1 .. IndexLimit + 1 -> Written]
    BY <1>5, <2>1 DEF StepValue, Inv, TypeOK, Written
  <2>3. \A i \in 1 .. idx : values'[i] = values[i]
    BY <1>5, <2>1, LimitAssumption DEF StepValue, Inv, TypeOK
  <2> QED BY <1>5, <2>2, <2>3, WalkInv DEF StepValue
<1>6. CASE ResolveFails \/ ThenReturns \/ ThenFails \/ Close
  BY <1>6, WalkInv DEF ResolveFails, ThenReturns, ThenFails, Close, Inv, TypeOK
<1>7. CASE CallThen
  BY <1>7, CallThenInv
<1>8. CASE \E i \in Element, f \in Outcome : CallCapability(i, f) \/ CallElement(i, f)
  BY <1>8, CallCapabilityInv, CallElementInv
<1>9. CASE UNCHANGED vars
  BY <1>9 DEF vars, Inv, TypeOK, SpentExact, CountsOnce, RemainingExact, ValuesFilled,
              OpenElements, WalkOpen, Counting
<1> QED BY <1>1, <1>2, <1>3, <1>4, <1>5, <1>6, <1>7, <1>8, <1>9 DEF Next

-----------------------------------------------------------------------------
\* The count of a call of Promise.all, allSettled and any is exact at all times.
THEOREM CombinatorInvariant == ASSUME OneAnswer PROVE Spec => []Inv
<1>1. Init => Inv
  BY InitInv
<1>2. Inv /\ [Next]_vars => Inv'
  BY NextInv
<1> QED BY <1>1, <1>2, PTL DEF Spec

\* For every number of elements the count settles the promise once, exactly when the
\* walk has ended and every element was counted off, and then all places of
\* values_array are filled by their own elements.
THEOREM CombinatorSettles == ASSUME OneAnswer PROVE Spec => []SettlesExactly
<1>1. Inv => SettlesExactly
  <2> SUFFICES ASSUME Inv, routine # "race"
               PROVE  /\ counted = IF pc = "returned"
                                       /\ (\A i \in 1 .. idx : calls[i] \cap Counting # {})
                                   THEN 1 ELSE 0
                      /\ counted = 1 => \A i \in 1 .. idx : values[i] \in calls[i]
    BY DEF SettlesExactly
  <2>1. OpenElements = {} <=> \A i \in 1 .. idx : calls[i] \cap Counting # {}
    BY DEF OpenElements
  <2> QED BY <2>1 DEF Inv, RemainingExact, ValuesFilled
<1> QED BY <1>1, CombinatorInvariant, PTL
=============================================================================
