------------------------- MODULE EcmaAsyncGenerator -------------------------
(***************************************************************************)
(* Async generators: the queue of requests (next, throw and return) of a   *)
(* generator, its suspended execution, and the states of yield* and of     *)
(* for-await-of (jerry-core/ecma/operations/ecma-async-generator-object.c, *)
(* ecma-jobqueue.c and jerry-core/vm).                                     *)
(*                                                                         *)
(* One generator.  Its body and the iterators it delegates to are code of  *)
(* the program: what they return, throw or await is a free choice, and     *)
(* while they run they may send further requests to the generator.         *)
(* Promises are in EcmaPromise; here an await registers one reaction that  *)
(* comes back as a job, fulfilled or rejected.                             *)
(***************************************************************************)
EXTENDS Integers, Sequences, FiniteSets

CONSTANTS MaxRequests,      \* bound: requests
          MaxAwaits,        \* bound: awaits, yield* and for-await-of steps of the body
          CreateCallbacks   \* whether the host's callback for created promises
                            \* uses the generator

ASSUME BoundsAssumption == MaxRequests \in Nat /\ MaxAwaits \in Nat
ASSUME CreateCallbacksAssumption == CreateCallbacks \in BOOLEAN

Operations == {"next", "throw", "return"}
Requests == 1..MaxRequests

\* ecma_await_states_t.
YieldNext == 0
YieldNextReturn == 1
YieldReturn == 2
YieldNextValue == 3
YieldOperation == 4
YieldClose == 5
YieldEnd == YieldClose
ForClose == 6
ForNext == 7

VARIABLES
  completed, running, called,   \* flags of the executable object
  doAwait,    \* flag ECMA_EXECUTABLE_OBJECT_DO_AWAIT_OR_YIELD
  state,      \* the await state, in the upper bits of the flags
  delegate,   \* block_result holds the iterator of a yield*, and the stack its
              \* next method
  tasks,      \* the task queue; `taken': operation_value is undefined
  promise,    \* of each request: "none", "pending" or "settled"
  jobs,       \* its jobs in the job queue
  waiting,    \* its reactions at promises that are pending
  awaits,     \* the suspensions of the body so far
  calls       \* where the engine waits for the program, the innermost last

flagVars == <<completed, running, called>>
stateVars == <<doAwait, state, delegate>>
awaitVars == <<jobs, waiting>>
vars == <<flagVars, stateVars, tasks, promise, awaitVars, awaits, calls>>

Init ==
  /\ completed = FALSE
  /\ running = FALSE
  /\ called = FALSE
  /\ doAwait = FALSE
  /\ state = 0
  /\ delegate = FALSE
  /\ tasks = <<>>
  /\ promise = [r \in Requests |-> "none"]
  /\ jobs = <<>>
  /\ waiting = 0
  /\ awaits = 0
  /\ calls = <<>>

-----------------------------------------------------------------------------
(***************************************************************************)
(* Helpers.                                                                *)
(***************************************************************************)
Top == calls[Len(calls)]
Below == SubSeq(calls, 1, Len(calls) - 1)
At(place) == calls # <<>> /\ Top.at = place
Enter(fs, place) == Append(fs, [at |-> place, id |-> 0, op |-> "none"])
Goto(place) == Enter(Below, place)

\* The state bits.
Xor(a, b) ==
  LET bit(i) == (((a \div 2^i) % 2) + ((b \div 2^i) % 2)) % 2
  IN bit(0) + 2 * bit(1) + 4 * bit(2)

Or(a, b) ==
  LET bit(i) == IF (a \div 2^i) % 2 = 1 \/ (b \div 2^i) % 2 = 1 THEN 1 ELSE 0
  IN bit(0) + 2 * bit(1) + 4 * bit(2)

\* ECMA_AWAIT_CHANGE_STATE.
ChangeState(from, to) == state' = Xor(state, Xor(from, to))

\* ECMA_AWAIT_CLEAR_MASK.
ClearState == doAwait' = FALSE /\ state' = 0

\* ecma_promise_async_await: the promise is pending or settled.  The promise callback
\* that ecma_promise_async_then calls at its end, for a handler added to an unhandled
\* rejection, is left out: the job is queued there and the state not changed yet.
Await ==
  \/ waiting' = waiting + 1 /\ UNCHANGED jobs
  \/ \E r \in {"fulfilled", "rejected"} : jobs' = Append(jobs, r) /\ UNCHANGED waiting

Taken == [tasks EXCEPT ![1].taken = TRUE]
Settle(id) == promise' = [promise EXCEPT ![id] = "settled"]

\* opfunc_resume_executable_object: the body runs.
Resume(fs) == running' = TRUE /\ calls' = Enter(fs, "body")

-----------------------------------------------------------------------------
(***************************************************************************)
(* Requests.                                                               *)
(***************************************************************************)

\* ecma_async_generator_run with the tasks ts: in a yield* the operation goes to
\* the iterator, otherwise its value is taken and the body runs.
Run(fs, ts) ==
  IF doAwait
    THEN /\ calls' = Enter(fs, ts[1].op)
         /\ tasks' = ts
         /\ UNCHANGED running
    ELSE /\ tasks' = [ts EXCEPT ![1].taken = TRUE]
         /\ Resume(fs)

\* next (), throw () and return () of a program that has control.  A completed
\* generator answers at once; otherwise the promise of the request is created.
Request(op, id) ==
  /\ promise[id] = "none"
  /\ \A r \in Requests : r < id => promise[r] # "none"
  /\ CreateCallbacks \/ ~At("create")
  /\ IF completed
       THEN Settle(id) /\ UNCHANGED calls
       ELSE /\ promise' = [promise EXCEPT ![id] = "pending"]
            /\ calls' = Append(calls, [at |-> "create", id |-> id, op |-> op])
  /\ UNCHANGED <<flagVars, stateVars, tasks, awaitVars, awaits>>

\* Faulty variant of Enqueue: a job is added for every request.
EnqueueAlwaysJob ==
  /\ At("create")
  /\ tasks' = Append(tasks, [op |-> Top.op, id |-> Top.id, taken |-> FALSE])
  /\ called' = TRUE
  /\ jobs' = Append(jobs, "generator")
  /\ calls' = Below
  /\ UNCHANGED <<completed, running, stateVars, promise, waiting, awaits>>

\* ecma_async_generator_enqueue: the first task of an empty queue is run, by a job
\* unless it is the first one of the generator.
Enqueue ==
  LET ts == Append(tasks, [op |-> Top.op, id |-> Top.id, taken |-> FALSE])
  IN /\ At("create")
     /\ called' = TRUE
     /\ IF tasks = <<>> /\ ~called
          THEN Run(Below, ts) /\ UNCHANGED jobs
          ELSE /\ tasks' = ts
               /\ jobs' = IF tasks = <<>> THEN Append(jobs, "generator") ELSE jobs
               /\ calls' = Below
               /\ UNCHANGED running
     /\ UNCHANGED <<completed, stateVars, promise, waiting, awaits>>

-----------------------------------------------------------------------------
(***************************************************************************)
(* ecma_async_generator_run in a yield*: the iterator was called for a     *)
(* task, and its answer awaited.                                           *)
(***************************************************************************)

\* The next state; without a throw method an iterator is closed instead.
Delegated(op) ==
  CASE op = "next" -> {YieldNext}
    [] op = "throw" -> {YieldNext, YieldClose}
    [] op = "return" -> {YieldReturn}

RunDelegates ==
  /\ \E op \in Operations : At(op)
  /\ tasks' = Taken
  /\ Await
  /\ \E to \in Delegated(Top.at) : ChangeState(YieldOperation, to)
  /\ calls' = Below
  /\ UNCHANGED <<flagVars, doAwait, delegate, promise, awaits>>

\* An exception ends the yield* and is thrown into the body.
RunThrows ==
  /\ \E op \in Operations : At(op)
  /\ tasks' = Taken
  /\ ClearState
  /\ delegate' = FALSE
  /\ Resume(Below)
  /\ UNCHANGED <<completed, called, promise, awaitVars, awaits>>

-----------------------------------------------------------------------------
(***************************************************************************)
(* The body.                                                               *)
(***************************************************************************)

\* opfunc_async_generator_yield: the promise of the first task is fulfilled, which
\* the host may be told of,
Yield(fs) == Settle(tasks[1].id) /\ calls' = Enter(fs, "yield")

\* and the task is removed; a job runs the next one.  The body is suspended.
YieldReturns ==
  /\ At("yield")
  /\ tasks' = Tail(tasks)
  /\ jobs' = IF Tail(tasks) # <<>> THEN Append(jobs, "generator") ELSE jobs
  /\ running' = FALSE
  /\ calls' = Below
  /\ UNCHANGED <<completed, called, stateVars, promise, waiting, awaits>>

\* VM_OC_ASYNC_YIELD.
BodyYields ==
  /\ At("body")
  /\ Yield(Below)
  /\ UNCHANGED <<flagVars, stateVars, tasks, awaitVars, awaits>>

\* The body awaits and is suspended.
Suspend ==
  /\ At("body")
  /\ awaits < MaxAwaits
  /\ awaits' = awaits + 1
  /\ Await
  /\ running' = FALSE
  /\ calls' = Below
  /\ UNCHANGED <<completed, called, tasks, promise>>

\* VM_OC_GENERATOR_AWAIT.
BodyAwaits == Suspend /\ UNCHANGED stateVars

\* VM_OC_ASYNC_YIELD_ITERATOR: the state is YieldNext, which is zero.
BodyDelegates ==
  /\ Suspend
  /\ doAwait' = TRUE
  /\ delegate' = TRUE
  /\ UNCHANGED state

\* A for-await-of asks for the next value (VM_OC_FOR_AWAIT_OF_INIT and HAS_NEXT), or
\* closes its iterator (vm_stack_find_finally).  The bits are added to the state.
BodyForAwait(s) ==
  /\ Suspend
  /\ doAwait' = TRUE
  /\ state' = Or(state, s)
  /\ UNCHANGED delegate

\* The body returns or throws.  ecma_async_generator_finalize settles the promise of
\* the first task,
BodyEnds ==
  /\ At("body")
  /\ completed' = TRUE
  /\ running' = FALSE
  /\ Settle(tasks[1].id)
  /\ calls' = Goto("finalize")
  /\ UNCHANGED <<called, stateVars, tasks, awaitVars, awaits>>

\* Faulty variant of Finalize: the other tasks are dropped.
FinalizeFirst ==
  /\ At("finalize")
  /\ tasks' = <<>>
  /\ calls' = Below
  /\ UNCHANGED <<flagVars, stateVars, promise, awaitVars, awaits>>

\* and removes it; the promises of the other tasks follow.
Finalize ==
  /\ At("finalize")
  /\ tasks' = Tail(tasks)
  /\ IF Tail(tasks) # <<>>
       THEN Settle(tasks[2].id) /\ UNCHANGED calls
       ELSE calls' = Below /\ UNCHANGED promise
  /\ UNCHANGED <<flagVars, stateVars, awaitVars, awaits>>

-----------------------------------------------------------------------------
(***************************************************************************)
(* Jobs.                                                                   *)
(***************************************************************************)

\* A promise that was awaited is settled.
AwaitSettles ==
  /\ waiting > 0
  /\ waiting' = waiting - 1
  /\ \E r \in {"fulfilled", "rejected"} : jobs' = Append(jobs, r)
  /\ UNCHANGED <<flagVars, stateVars, tasks, promise, awaits, calls>>

NextJob(j) ==
  /\ calls = <<>>
  /\ jobs # <<>>
  /\ Head(jobs) = j
  /\ jobs' = Tail(jobs)
  /\ UNCHANGED <<completed, called, waiting, awaits>>

\* ecma_process_promise_async_generator_job.
GeneratorJob ==
  /\ NextJob("generator")
  /\ Run(<<>>, tasks)
  /\ UNCHANGED <<stateVars, promise>>

\* The iterator of a yield* is dropped, the state is cleared and the body runs.
EndDelegation(fs) ==
  /\ delegate' = IF state <= YieldEnd THEN FALSE ELSE delegate
  /\ ClearState
  /\ Resume(fs)

\* ecma_process_promise_async_reaction_job: a plain await goes back to the body.
AwaitJob ==
  /\ \E r \in {"fulfilled", "rejected"} : NextJob(r)
  /\ ~doAwait
  /\ Resume(<<>>)
  /\ UNCHANGED <<stateVars, tasks, promise>>

\* Faulty variant of RejectedJob: the iterator of a yield* is not dropped.
RejectedJobKeepsIterator ==
  /\ NextJob("rejected")
  /\ doAwait
  /\ IF state = YieldReturn
       THEN /\ ChangeState(YieldReturn, YieldOperation)
            /\ calls' = Enter(<<>>, "operation")
            /\ UNCHANGED <<doAwait, delegate, running>>
       ELSE ClearState /\ Resume(<<>>) /\ UNCHANGED delegate
  /\ UNCHANGED <<tasks, promise>>

\* A rejection is thrown into the body; the argument of return () is thrown into the
\* iterator of a yield*.
RejectedJob ==
  /\ NextJob("rejected")
  /\ doAwait
  /\ IF state = YieldReturn
       THEN /\ ChangeState(YieldReturn, YieldOperation)
            /\ calls' = Enter(<<>>, "operation")
            /\ UNCHANGED <<doAwait, delegate, running>>
       ELSE EndDelegation(<<>>)
  /\ UNCHANGED <<tasks, promise>>

(***************************************************************************)
(* ecma_await_continue.                                                    *)
(***************************************************************************)

\* The states in which properties of the result, or of the iterator, are read or
\* called first.
Place ==
  [s \in {YieldNext, YieldNextReturn, YieldReturn, YieldOperation, ForNext} |->
     CASE s \in {YieldNext, YieldNextReturn} -> "result"
       [] s = YieldReturn -> "close"
       [] s = YieldOperation -> "operation"
       [] s = ForNext -> "forNext"]

ContinueJob ==
  /\ NextJob("fulfilled")
  /\ doAwait
  /\ state \in DOMAIN Place
  /\ calls' = Enter(<<>>, Place[state])
  /\ UNCHANGED <<running, stateVars, tasks, promise>>

\* The value of an iterator result is yielded.
YieldValueJob ==
  /\ NextJob("fulfilled")
  /\ doAwait
  /\ state = YieldNextValue
  /\ ChangeState(YieldNextValue, YieldOperation)
  /\ Yield(<<>>)
  /\ UNCHANGED <<running, doAwait, delegate, tasks>>

\* A closed iterator: the body goes on, with an exception after a yield*.
ClosedJob ==
  /\ NextJob("fulfilled")
  /\ doAwait
  /\ state \in {YieldClose, ForClose}
  /\ EndDelegation(<<>>)
  /\ UNCHANGED <<tasks, promise>>

\* An iterator result that is not done: its value is awaited.
ResultNotDone ==
  /\ At("result")
  /\ state' = YieldNextValue
  /\ calls' = Goto("value")
  /\ UNCHANGED <<flagVars, doAwait, delegate, tasks, promise, awaitVars, awaits>>

\* A value, or what the iterator returned, is awaited.
Awaited(place) ==
  CASE place = "value" -> {YieldNextValue}
    [] place = "close" -> {YieldNextReturn}
    [] place = "operation" -> {YieldNext, YieldClose}

ContinueAwaits ==
  /\ \E place \in {"value", "close", "operation"} : At(place)
  /\ Await
  /\ \E to \in Awaited(Top.at) :
       ChangeState(CASE Top.at = "value" -> YieldNextValue
                     [] Top.at = "close" -> YieldReturn
                     [] Top.at = "operation" -> YieldOperation, to)
  /\ calls' = Below
  /\ UNCHANGED <<flagVars, doAwait, delegate, tasks, promise, awaits>>

\* An exception, a result that is done, an iterator without return method, or the
\* next value of a for-await-of: the body goes on.
ContinueResumes ==
  /\ \E place \in {"result", "value", "close", "operation", "forNext"} : At(place)
  /\ EndDelegation(Below)
  /\ UNCHANGED <<completed, called, tasks, promise, awaitVars, awaits>>

-----------------------------------------------------------------------------
Program == \E op \in Operations, id \in Requests : Request(op, id)

Body ==
  \/ BodyYields
  \/ BodyAwaits
  \/ BodyDelegates
  \/ \E s \in {ForClose, ForNext} : BodyForAwait(s)
  \/ BodyEnds

Engine ==
  \/ Enqueue
  \/ RunDelegates
  \/ RunThrows
  \/ YieldReturns
  \/ Finalize
  \/ GeneratorJob
  \/ AwaitJob
  \/ RejectedJob
  \/ ContinueJob
  \/ YieldValueJob
  \/ ClosedJob
  \/ ResultNotDone
  \/ ContinueAwaits
  \/ ContinueResumes

Next == Program \/ Body \/ Engine \/ AwaitSettles

Spec == Init /\ [][Next]_vars

\* Code that was called returns, jobs are run, and awaited promises are settled.
FairSpec == Spec /\ WF_vars(Body) /\ WF_vars(Engine) /\ WF_vars(AwaitSettles)

-----------------------------------------------------------------------------
(***************************************************************************)
(* Properties.                                                             *)
(***************************************************************************)

\* The calls that work on the first task; "create" only adds a task.
Working == {i \in DOMAIN calls : calls[i].at # "create"}

\* The first task of the queue is always being worked on, in one place: by a call in
\* progress, a job, or a reaction at a promise.  An idle generator has none, so that
\* the next request starts it (ecma_async_generator_enqueue, run and yield).  The body
\* is resumed only if it is suspended.
OneContinuation ==
  /\ Cardinality(Working) + Len(jobs) + waiting = IF tasks = <<>> THEN 0 ELSE 1
  /\ running => ~completed

\* The state says what the generator waits for: the changes of the state bits, which
\* are exclusive ors, and the additions find the state they expect; there is an
\* iterator exactly in the states of yield*; the value of the first task is taken
\* unless it is still to be run.
AwaitStates ==
  /\ doAwait \/ state = 0
  /\ delegate <=> doAwait /\ state <= YieldEnd
  /\ running => ~doAwait
  /\ \A i \in DOMAIN jobs : doAwait => (jobs[i] = "generator" <=> state = YieldOperation)
  /\ waiting > 0 => state # YieldOperation
  /\ \A op \in Operations : At(op) => doAwait /\ state = YieldOperation
  /\ At("close") => state = YieldReturn
  /\ At("operation") => state = YieldOperation
  /\ ~completed => \A i \in DOMAIN tasks :
       tasks[i].taken <=>
         /\ i = 1
         /\ \A j \in DOMAIN jobs : jobs[j] # "generator"
         /\ \A c \in Working : calls[c].at \notin Operations

\* Every request gets an answer.
Served == \A r \in Requests : (promise[r] = "pending") ~> (promise[r] = "settled")
=============================================================================
