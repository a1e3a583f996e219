--------------------------- MODULE EcmaPromiseAll ---------------------------
(***************************************************************************)
(* Promise.all, Promise.allSettled, Promise.any and Promise.race           *)
(* (ecma-builtin-promise.c, the element functions of                       *)
(* ecma-promise-object.c): one call walks an iterator, gives the `then' of *)
(* every element two functions, and counts the elements that are still     *)
(* open, so that whichever of them comes last settles the promise of the   *)
(* call.                                                                   *)
(*                                                                         *)
(* The iterator, the resolve function of the constructor and `then' are    *)
(* user code; they may fail, and while they run, or at any later time, any *)
(* function handed out so far may be called, repeatedly.  Values are left  *)
(* out: values records which function of an element wrote its place.  The  *)
(* functions of the capability are those of a Promise.                     *)
(***************************************************************************)
EXTENDS Integers, FiniteSets

CONSTANTS
  Routines,     \* the routines in the model
  IndexLimit,   \* UINT32_MAX - 1 in the code
  OneOutcome    \* the routines whose elements call only one of their two
                \* functions, as promises do; a hand-made `then' may call both

ASSUME LimitAssumption ==
  /\ Routines \subseteq {"all", "allSettled", "any", "race"}
  /\ IndexLimit \in Nat \ {0} /\ OneOutcome \subseteq Routines

VARIABLES
  routine,      \* builtin_routine_id
  pc,           \* what the call of the routine is doing
  has_next,     \* the iterator has a callable next method
  idx,          \* the number of elements whose `then' was called
  remaining,    \* the number object that the element functions share
  spent,        \* the element functions whose index is 0
  calls,        \* the functions every element has called
  values,       \* values_array
  capability,   \* the promise of the call, as its first settlement left it
  counted       \* how often the count of open elements settled the promise

vars == <<routine, pc, has_next, idx, remaining, spent, calls, values,
          capability, counted>>

Element == 1 .. IndexLimit
Outcome == {"resolve", "reject"}

\* Which functions of an element count it off: for the others `then' gets
\* the functions of the capability themselves.
Counting ==
  CASE routine = "all"        -> {"resolve"}
    [] routine = "allSettled" -> {"resolve", "reject"}
    [] routine = "any"        -> {"reject"}
    [] routine = "race"       -> {}

-----------------------------------------------------------------------------
\* The resolving functions of a promise: only the first call has an effect.
Settle(how) == capability' = IF capability = "pending" THEN how ELSE capability

\* What the last open element does: fulfill with the values, or reject with
\* an aggregate error of them.
SettleWithValues ==
  /\ counted' = counted + 1
  /\ Settle(IF routine = "any" THEN "errors" ELSE "values")

\* ecma_builtin_promise_reject_abrupt after an error
RejectAbrupt == Settle("error")

-----------------------------------------------------------------------------
(* ecma_builtin_promise_helper                                             *)

\* The resolve property is missing or no function: nothing is iterated.
NoResolve ==
  /\ pc = "start" /\ pc' = "failed"
  /\ RejectAbrupt
  /\ UNCHANGED <<routine, has_next, idx, remaining, spent, calls, values, counted>>

GetIterator ==
  /\ pc = "start" /\ pc' = "step"
  /\ has_next' \in BOOLEAN
  /\ UNCHANGED <<routine, idx, remaining, spent, calls, values,
                 capability, counted>>

\* After a failure reject_abrupt returns the promise, not an error, and the
\* promise is iterated in place of the iterator, without a next method.
GetIteratorFails ==
  /\ pc = "start" /\ pc' = "step"
  /\ has_next' = FALSE
  /\ RejectAbrupt
  /\ UNCHANGED <<routine, idx, remaining, spent, calls, values, counted>>

-----------------------------------------------------------------------------
(* ecma_builtin_promise_perform and, without the counting,                 *)
(* ecma_builtin_promise_perform_race                                       *)

\* The iterator is at its end: the call itself no longer counts as open.
StepEnds ==
  /\ pc = "step" /\ has_next /\ pc' = "returned"
  /\ IF routine = "race"
     THEN UNCHANGED <<remaining, capability, counted>>
     ELSE /\ remaining' = remaining - 1
          /\ IF remaining' = 0 THEN SettleWithValues
             ELSE UNCHANGED <<capability, counted>>
  /\ UNCHANGED <<routine, has_next, idx, spent, calls, values>>

\* A next, done or value that fails leaves the iterator done: no closing.
StepFails ==
  /\ pc = "step" /\ pc' = "failed"
  /\ RejectAbrupt
  /\ UNCHANGED <<routine, has_next, idx, remaining, spent, calls, values, counted>>

\* The next element gets its place before the resolve function is called.
StepValue ==
  /\ pc = "step" /\ has_next /\ pc' = "resolve"
  /\ values' = IF routine = "race" THEN values
               ELSE [values EXCEPT ![idx + 1] = "undefined"]
  /\ UNCHANGED <<routine, has_next, idx, remaining, spent, calls, capability,
                 counted>>

\* The resolve function fails, or the limit of elements is reached.
ResolveFails ==
  /\ pc = "resolve" /\ pc' = "close"
  /\ UNCHANGED <<routine, has_next, idx, remaining, spent, calls, values,
                 capability, counted>>

\* Faulty variant of CallThen: an element is not counted.
CallThenUncounted ==
  /\ pc = "resolve" /\ idx < IndexLimit /\ pc' = "then"
  /\ idx' = idx + 1
  /\ UNCHANGED <<routine, has_next, remaining, spent, calls, values, capability,
                 counted>>

\* The element is counted before `then' is called, which may call back.
CallThen ==
  /\ pc = "resolve" /\ idx < IndexLimit /\ pc' = "then"
  /\ idx' = idx + 1
  /\ remaining' = IF routine = "race" THEN remaining ELSE remaining + 1
  /\ UNCHANGED <<routine, has_next, spent, calls, values, capability, counted>>

ThenReturns ==
  /\ pc = "then" /\ pc' = "step"
  /\ UNCHANGED <<routine, has_next, idx, remaining, spent, calls, values,
                 capability, counted>>

ThenFails ==
  /\ pc = "then" /\ pc' = "close"
  /\ UNCHANGED <<routine, has_next, idx, remaining, spent, calls, values,
                 capability, counted>>

\* ecma_op_iterator_close keeps the error or has its own.
Close ==
  /\ pc = "close" /\ pc' = "failed"
  /\ RejectAbrupt
  /\ UNCHANGED <<routine, has_next, idx, remaining, spent, calls, values, counted>>

-----------------------------------------------------------------------------
(* The functions of the elements.                                          *)

MayCall(i, f) ==
  /\ i \in 1 .. idx
  /\ routine \in OneOutcome => calls[i] \subseteq {f}

\* `then' got a function of the capability.
CallCapability(i, f) ==
  /\ MayCall(i, f) /\ f \notin Counting
  /\ calls' = [calls EXCEPT ![i] = @ \cup {f}]
  /\ Settle(f)
  /\ UNCHANGED <<routine, pc, has_next, idx, remaining, spent, values, counted>>

\* ecma_promise_all_or_all_settled_handler_cb
CallElement(i, f) ==
  /\ MayCall(i, f) /\ f \in Counting
  /\ calls' = [calls EXCEPT ![i] = @ \cup {f}]
  /\ IF <<i, f>> \in spent
     THEN UNCHANGED <<remaining, spent, values, capability, counted>>
     ELSE /\ values' = [values EXCEPT ![i] = f]
          /\ spent' = spent \cup {<<i, f>>}
          /\ remaining' = remaining - 1
          /\ IF remaining' = 0 THEN SettleWithValues
             ELSE UNCHANGED <<capability, counted>>
  /\ UNCHANGED <<routine, pc, has_next, idx>>

-----------------------------------------------------------------------------
Init ==
  /\ routine \in Routines
  /\ pc = "start" /\ has_next = TRUE
  /\ idx = 0 /\ remaining = 1
  /\ spent = {} /\ calls = [i \in Element |-> {}]
  /\ values = [i \in 1 .. IndexLimit + 1 |-> "none"]
  /\ capability = "pending" /\ counted = 0

Next ==
  \/ NoResolve \/ GetIterator \/ GetIteratorFails
  \/ StepEnds \/ StepFails \/ StepValue
  \/ ResolveFails \/ CallThen \/ ThenReturns \/ ThenFails \/ Close
  \/ \E i \in Element, f \in Outcome : CallCapability(i, f) \/ CallElement(i, f)

Spec == Init /\ [][Next]_vars

-----------------------------------------------------------------------------
\* The count settles the promise of a call exactly once, when the iterator
\* came to its end and every element has called a function that counts it
\* off, in whatever order: never before, never after an error, and never
\* with a place of values_array that its own element has not filled.
SettlesExactly ==
  LET Open(i) == calls[i] \cap Counting = {}
  IN  routine # "race" =>
        /\ counted = IF pc = "returned" /\ (\A i \in 1 .. idx : ~Open(i))
                     THEN 1 ELSE 0
        /\ counted = 1 => \A i \in 1 .. idx : values[i] \in calls[i]
=============================================================================
