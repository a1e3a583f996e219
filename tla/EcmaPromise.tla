----------------------------- MODULE EcmaPromise -----------------------------
(***************************************************************************)
(* Promises and their jobs: jerry-core/ecma/operations/ecma-promise-object.c *)
(* and ecma-jobqueue.c, with the await and the exit of async functions.    *)
(*                                                                         *)
(* The engine is one thread, but its functions call the user's code in the *)
(* middle of their work: the `then' getter of a value, the promise         *)
(* callback, executors, handlers, bodies of async functions.  `frames' are *)
(* the calls that wait for user code to return, the innermost last; user   *)
(* code may do anything there, and also run the job queue again.           *)
(*                                                                         *)
(* A value is a promise, another object with a `then' (Thenable), or a     *)
(* plain value.  Promises keep the `then' of their prototype; constructors *)
(* other than Promise appear as Custom.                                    *)
(***************************************************************************)
EXTENDS Integers, Sequences, FiniteSets

CONSTANTS Promise,     \* promise objects
          Thenable,    \* objects of the user with a `then' property
          Plain,       \* values that are not objects
          None,        \* no value, no promise
          Custom,      \* a capability whose functions are the user's
          Foreign,     \* {Custom} if the user has such constructors, {} otherwise
          Kinds,       \* the kinds of promises the program makes
          ApiKinds,    \* those jerry_resolve_or_reject_promise is used on
          MaxThens,    \* bound: reactions that are added
          MaxPairs,    \* bound: pairs of resolving functions of a promise
          MaxFrames    \* bound: nested calls

ASSUME ValuesAssumption ==
  /\ None \notin Promise \cup Thenable \cup Plain
  /\ Custom \notin Promise \cup {None}
  /\ Promise \cap (Thenable \cup Plain) = {}
  /\ Thenable \cap Plain = {}
ASSUME KindsAssumption ==
  /\ Foreign \subseteq {Custom}
  /\ Kinds \subseteq {"plain", "async"}
  /\ ApiKinds \subseteq Kinds
ASSUME BoundsAssumption == MaxThens \in Nat /\ MaxPairs \in Nat \ {0} /\ MaxFrames \in Nat

VARIABLES
  kind,      \* "unborn", "plain", "async" for the promise of an async function, or
             \* "orphan" if the function went on before it knew its promise
  state,     \* ECMA_PROMISE_IS_PENDING and ECMA_PROMISE_IS_FULFILLED
  already,   \* ECMA_PROMISE_ALREADY_RESOLVED
  unhandled, \* ECMA_PROMISE_UNHANDLED_REJECT
  result,    \* the result of the promise
  reactions, \* the reactions of the promise, in the order they were added
  queue,     \* the job queue, head first
  frames,    \* calls in progress
  pairs,     \* pairs of resolving functions made for the promise
  handed,    \* the pairs that user code was given
  source,    \* history: the promise each reaction was added to
  ran,       \* history: reactions whose jobs were taken, in order
  phase      \* "run", "cleanup" after jerry_cleanup, "assert" after a failed one

promiseVars == <<kind, state, already, unhandled, result, reactions>>
resolverVars == <<pairs, handed>>
history == <<source, ran>>
vars == <<promiseVars, queue, frames, resolverVars, history, phase>>

Values == Promise \cup Thenable \cup Plain
Born == {p \in Promise : kind[p] # "unborn"}

Init ==
  /\ kind = [p \in Promise |-> "unborn"]
  /\ state = [p \in Promise |-> "pending"]
  /\ already = [p \in Promise |-> FALSE]
  /\ unhandled = [p \in Promise |-> FALSE]
  /\ result = [p \in Promise |-> None]
  /\ reactions = [p \in Promise |-> <<>>]
  /\ queue = <<>>
  /\ frames = <<>>
  /\ pairs = [p \in Promise |-> 0]
  /\ handed = [p \in Promise |-> {}]
  /\ source = <<>>
  /\ ran = <<>>
  /\ phase = "run"

-----------------------------------------------------------------------------
(***************************************************************************)
(* Frames.                                                                 *)
(***************************************************************************)
Frame(op, p, v) == [op |-> op, p |-> p, v |-> v]
Top == frames[Len(frames)]
Below == SubSeq(frames, 1, Len(frames) - 1)

In(op) == phase = "run" /\ frames # <<>> /\ Top.op = op

\* User code has control: in no call of the engine, or in one that waits for it.
UserRuns == phase = "run" /\ (frames # <<>> => Top.op # "jobs")
MayCall == UserRuns /\ Len(frames) < MaxFrames

\* User code passes v to something that resolves p.  Values of any kind come up,
\* those that are born; a further pair of functions may be needed.
Passable(p, v) ==
  /\ v \in Born \cup Thenable \cup Plain
  /\ v \in Promise \cup Thenable /\ p \in Promise => pairs[p] < MaxPairs

(***************************************************************************)
(* ecma_fulfill_promise and ecma_reject_promise are entered with the calls *)
(* fs around them.  Both assert that the promise is pending.               *)
(***************************************************************************)
Enter(fs, op, p, v) ==
  IF state[p] = "pending"
    THEN frames' = Append(fs, Frame(op, p, v)) /\ UNCHANGED phase
    ELSE phase' = "assert" /\ frames' = fs

\* Faulty variant of EnterWithChecks: the flag is tested but not set.
EnterWithChecksNoFlag(fs, op, p, v) ==
  /\ UNCHANGED already
  /\ IF already[p] THEN frames' = fs /\ UNCHANGED phase ELSE Enter(fs, op, p, v)

\* ecma_fulfill_promise_with_checks and ecma_reject_promise_with_checks.
EnterWithChecks(fs, op, p, v) ==
  IF already[p]
    THEN frames' = fs /\ UNCHANGED <<already, phase>>
    ELSE /\ already' = [already EXCEPT ![p] = TRUE]
         /\ Enter(fs, op, p, v)

\* The resolve or reject function of a capability is called.  None is the
\* capability of a promise nobody can get at; the functions of Custom are the
\* user's.
CallCapability(fs, op, c, v) ==
  IF c \in Promise THEN EnterWithChecks(fs, op, c, v)
  ELSE /\ frames' = IF c = Custom THEN Append(fs, Frame("custom", None, v)) ELSE fs
       /\ UNCHANGED <<already, phase>>

(***************************************************************************)
(* The settlement itself.                                                  *)
(***************************************************************************)

\* The job of reaction r for a promise that is settled as s with the value v.  How
\* reactions lie in the buffer of the promise is in EcmaPromiseReactions.
Job(r, s, v) ==
  [id |-> r.id, to |-> r.to, v |-> v,
   handler |-> IF s = "fulfilled" THEN r.onFulfilled ELSE r.onRejected]

\* Faulty variants of Settle: the reactions get the result from before it is set;
\* they are not cleared; they are queued last first.
SettleTriggersFirst(p, s, v) ==
  /\ state' = [state EXCEPT ![p] = s]
  /\ result' = [result EXCEPT ![p] = v]
  /\ queue' = queue \o [i \in DOMAIN reactions[p] |-> Job(reactions[p][i], s, result[p])]
  /\ unhandled' = [unhandled EXCEPT ![p] = (s = "rejected" /\ reactions[p] = <<>>)]
  /\ reactions' = [reactions EXCEPT ![p] = <<>>]

SettleKeepsReactions(p, s, v) ==
  /\ state' = [state EXCEPT ![p] = s]
  /\ result' = [result EXCEPT ![p] = v]
  /\ queue' = queue \o [i \in DOMAIN reactions[p] |-> Job(reactions[p][i], s, v)]
  /\ unhandled' = [unhandled EXCEPT ![p] = (s = "rejected" /\ reactions[p] = <<>>)]
  /\ UNCHANGED reactions

SettleReversed(p, s, v) ==
  LET rs == reactions[p]
  IN /\ state' = [state EXCEPT ![p] = s]
     /\ result' = [result EXCEPT ![p] = v]
     /\ queue' = queue \o [i \in DOMAIN rs |-> Job(rs[Len(rs) + 1 - i], s, v)]
     /\ unhandled' = [unhandled EXCEPT ![p] = (s = "rejected" /\ rs = <<>>)]
     /\ reactions' = [reactions EXCEPT ![p] = <<>>]

\* ecma_promise_set_state, ecma_promise_set_result, ecma_promise_trigger_reactions.
Settle(p, s, v) ==
  /\ state' = [state EXCEPT ![p] = s]
  /\ result' = [result EXCEPT ![p] = v]
  /\ queue' = queue \o [i \in DOMAIN reactions[p] |-> Job(reactions[p][i], s, v)]
  /\ unhandled' = [unhandled EXCEPT ![p] = (s = "rejected" /\ reactions[p] = <<>>)]
  /\ reactions' = [reactions EXCEPT ![p] = <<>>]

\* The rest of ecma_fulfill_promise or ecma_reject_promise (p, v) once the promise
\* callback has returned: ecma_promise_set_state asserts again.
SettleTop(s) ==
  /\ frames' = Below
  /\ IF state[Top.p] = "pending"
       THEN Settle(Top.p, s, Top.v) /\ UNCHANGED phase
       ELSE /\ phase' = "assert"
            /\ UNCHANGED <<state, result, queue, unhandled, reactions>>
  /\ UNCHANGED <<kind, already, resolverVars, history>>

RejectReturns == In("reject") /\ SettleTop("rejected")

\* A value without a callable `then'; that of an object may be anything.
FulfillPlain ==
  /\ In("fulfill")
  /\ Top.v \in Plain \cup Thenable
  /\ SettleTop("fulfilled")

\* The promise itself, or a value whose `then' getter throws e.
FulfillRejects(e) ==
  /\ In("fulfill")
  /\ Top.v = Top.p \/ Top.v \in Thenable
  /\ Enter(Below, "reject", Top.p, e)
  /\ UNCHANGED <<promiseVars, queue, resolverVars, history>>

\* ecma_enqueue_promise_resolve_thenable_job.
FulfillThenable ==
  /\ In("fulfill")
  /\ Top.v # Top.p
  /\ Top.v \in Promise \cup Thenable
  /\ pairs[Top.p] < MaxPairs
  /\ queue' = Append(queue, [id |-> 0, to |-> Top.p, v |-> Top.v,
                             handler |-> "thenable"])
  /\ frames' = Below
  /\ UNCHANGED <<promiseVars, resolverVars, history, phase>>

-----------------------------------------------------------------------------
(***************************************************************************)
(* What user code does.                                                    *)
(***************************************************************************)

\* new Promise (executor): the executor runs with the first pair.
CreatePromise(p) ==
  /\ MayCall
  /\ "plain" \in Kinds
  /\ kind[p] = "unborn"
  /\ kind' = [kind EXCEPT ![p] = "plain"]
  /\ pairs' = [pairs EXCEPT ![p] = 1]
  /\ handed' = [handed EXCEPT ![p] = {1}]
  /\ frames' = Append(frames, Frame("executor", p, None))
  /\ UNCHANGED <<state, already, unhandled, result, reactions, queue, history,
                 phase>>

\* jerry_create_promise.
ApiCreatePromise(p) ==
  /\ UserRuns
  /\ "plain" \in ApiKinds
  /\ kind[p] = "unborn"
  /\ kind' = [kind EXCEPT ![p] = "plain"]
  /\ UNCHANGED <<state, already, unhandled, result, reactions, queue, frames,
                 resolverVars, history, phase>>

\* The executor, or the `then' of a thenable, returns or throws.
ExecutorReturns ==
  /\ In("executor")
  /\ frames' = Below
  /\ UNCHANGED <<promiseVars, queue, resolverVars, history, phase>>

ExecutorThrows(e) ==
  /\ In("executor")
  /\ EnterWithChecks(Below, "reject", Top.p, e)
  /\ UNCHANGED <<kind, state, unhandled, result, reactions, queue, resolverVars,
                 history>>

\* ecma_promise_resolve_handler and ecma_promise_reject_handler: a function of the
\* g-th pair of p is called.
CallResolver(p, g, op, v) ==
  /\ MayCall
  /\ g \in handed[p]
  /\ Passable(p, v)
  /\ EnterWithChecks(frames, op, p, v)
  /\ UNCHANGED <<kind, state, unhandled, result, reactions, queue, resolverVars,
                 history>>

\* jerry_resolve_or_reject_promise.
ApiSettle(p, op, v) ==
  /\ MayCall
  /\ kind[p] \in ApiKinds
  /\ Passable(p, v)
  /\ EnterWithChecks(frames, op, p, v)
  /\ UNCHANGED <<kind, state, unhandled, result, reactions, queue, resolverVars,
                 history>>

\* Faulty variant of AddReaction: a late handler leaves the rejection unhandled.
AddReactionStillUnhandled(jobs, p, r) ==
  /\ source' = Append(source, p)
  /\ IF state[p] = "pending"
       THEN /\ reactions' = [reactions EXCEPT ![p] = Append(@, r)]
            /\ queue' = jobs
       ELSE /\ queue' = Append(jobs, Job(r, state[p], result[p]))
            /\ UNCHANGED reactions
  /\ UNCHANGED unhandled

\* The end of ecma_promise_do_then and of ecma_promise_async_then, with jobs in
\* the queue: the reaction waits, or its job is queued at once.
AddReaction(jobs, p, r) ==
  /\ source' = Append(source, p)
  /\ IF state[p] = "pending"
       THEN /\ reactions' = [reactions EXCEPT ![p] = Append(@, r)]
            /\ queue' = jobs
            /\ UNCHANGED unhandled
       ELSE /\ queue' = Append(jobs, Job(r, state[p], result[p]))
            /\ unhandled' = [unhandled EXCEPT ![p] = FALSE]
            /\ UNCHANGED reactions

NextId == Len(source) + 1
RoomForThen == Len(source) < MaxThens

\* ecma_promise_then: f and r are the handlers, or the defaults where the
\* arguments are not callable; c is the capability of the new promise.
Then(p, f, r, c) ==
  /\ UserRuns
  /\ RoomForThen
  /\ p \in Born
  /\ c \in Promise => kind[c] = "unborn"
  /\ kind' = IF c \in Promise THEN [kind EXCEPT ![c] = "plain"] ELSE kind
  /\ pairs' = IF c \in Promise THEN [pairs EXCEPT ![c] = 1] ELSE pairs
  /\ AddReaction(queue, p, [id |-> NextId, to |-> c,
                            onFulfilled |-> f, onRejected |-> r])
  /\ UNCHANGED <<state, already, result, frames, handed, ran, phase>>

\* The async function of promise a awaits v.  The promise that
\* ecma_promise_reject_or_resolve makes for a plain v is fulfilled at once and
\* nobody else can get at it.  The promise callback for a handler added to an
\* unhandled rejection, at the end of ecma_promise_async_then, is left out: the
\* resumption is queued there and the function not suspended yet.
Await(a, v) ==
  LET r == [id |-> NextId, to |-> a,
            onFulfilled |-> "resume", onRejected |-> "resume_throw"]
  IN /\ RoomForThen
     /\ v \in Born \cup Plain
     /\ IF v \in Promise
          THEN AddReaction(queue, v, r)
          ELSE /\ queue' = Append(queue, Job(r, "fulfilled", v))
               /\ source' = Append(source, None)
               /\ UNCHANGED <<reactions, unhandled>>

\* opfunc_async_create_and_await: the await comes first, then promise a is made,
\* and the promise callback runs before the function knows of a (block_result).
CreateAndAwait(fs, a, v) ==
  /\ Await(a, v)
  /\ frames' = Append(fs, Frame("create", a, None))
  /\ UNCHANGED <<state, already, result, resolverVars, ran, phase>>

\* An async function is called, and runs to its first await.
AsyncCall(a, v) ==
  /\ MayCall
  /\ "async" \in Kinds
  /\ kind[a] = "unborn"
  /\ kind' = [kind EXCEPT ![a] = "async"]
  /\ CreateAndAwait(frames, a, v)

CreateReturns ==
  /\ In("create")
  /\ frames' = Below
  /\ UNCHANGED <<promiseVars, queue, resolverVars, history, phase>>

\* One that never awaits makes its promise when it exits.
AsyncCallExits(a, op, v) ==
  /\ MayCall
  /\ "async" \in Kinds
  /\ kind[a] = "unborn"
  /\ Passable(a, v)
  /\ kind' = [kind EXCEPT ![a] = "async"]
  /\ Enter(frames, op, a, v)
  /\ UNCHANGED <<state, already, unhandled, result, reactions, queue, resolverVars,
                 history>>

\* The function whose body runs knows its promise p already.
Known(p) == \A i \in DOMAIN frames : ~(frames[i].op = "create" /\ frames[i].p = p)

\* Faulty variant of BodyAwaits: every await makes a promise, not the first alone.
BodyAwaitsAlwaysAnew(v) ==
  /\ In("body")
  /\ CreateAndAwait(Below, None, v)
  /\ UNCHANGED kind

\* The body goes on and awaits again,
BodyAwaits(v) ==
  /\ In("body")
  /\ Known(Top.p)
  /\ Await(Top.p, v)
  /\ frames' = Below
  /\ UNCHANGED <<kind, state, already, result, resolverVars, ran, phase>>

\* or returns or throws (VM_OC_ASYNC_EXIT): its promise is settled without checks.
BodyExits(op, v) ==
  /\ In("body")
  /\ Known(Top.p) /\ Top.p # None
  /\ Passable(Top.p, v)
  /\ Enter(Below, op, Top.p, v)
  /\ UNCHANGED <<promiseVars, queue, resolverVars, history>>

\* The promise callback may have run the queue before the function knew its
\* promise: then the body makes another one, which nobody (None) gets.
Orphan == IF Top.p = None THEN kind ELSE [kind EXCEPT ![Top.p] = "orphan"]

BodyAwaitsAnew(v) ==
  /\ In("body")
  /\ ~Known(Top.p)
  /\ kind' = Orphan
  /\ CreateAndAwait(Below, None, v)

\* The promise it makes when it exits has no reactions and nobody can add one: of
\* its settlement only the user code is left, the promise callback and a `then'
\* getter (and the `then' that a thenable job of it would call, which is left out).
BodyExitsAnew ==
  /\ In("body")
  /\ ~Known(Top.p) \/ Top.p = None
  /\ kind' = Orphan
  /\ frames' = Append(Below, Frame("create", None, None))
  /\ UNCHANGED <<state, already, unhandled, result, reactions, queue, resolverVars,
                 history, phase>>

-----------------------------------------------------------------------------
(***************************************************************************)
(* The job queue.                                                          *)
(***************************************************************************)

\* jerry_run_all_enqueued_jobs.
RunJobs ==
  /\ UserRuns
  /\ Len(frames) + 1 < MaxFrames      \* a job needs a frame
  /\ frames' = Append(frames, Frame("jobs", None, None))
  /\ UNCHANGED <<promiseVars, queue, resolverVars, history, phase>>

JobsDone ==
  /\ In("jobs")
  /\ queue = <<>>
  /\ frames' = Below
  /\ UNCHANGED <<promiseVars, queue, resolverVars, history, phase>>

\* The next job leaves the queue before it is processed.
TakeJob(handlers) ==
  /\ In("jobs")
  /\ queue # <<>>
  /\ Head(queue).handler \in handlers
  /\ ran' = IF Head(queue).id = 0 THEN ran ELSE Append(ran, Head(queue).id)

\* A reaction job with a default handler settles the capability's promise at once,
DefaultReactionJob ==
  LET job == Head(queue)
      op == IF job.handler = "identity" THEN "fulfill" ELSE "reject"
  IN /\ TakeJob({"identity", "thrower"})
     /\ CallCapability(frames, op, job.to, job.v)
     /\ queue' = Tail(queue)
     /\ UNCHANGED <<kind, state, unhandled, result, reactions, resolverVars, source>>

\* one with a handler of the user calls it first,
UserReactionJob ==
  /\ TakeJob({"user"})
  /\ frames' = Append(frames, Frame("handler", Head(queue).to, None))
  /\ queue' = Tail(queue)
  /\ UNCHANGED <<promiseVars, resolverVars, source, phase>>

HandlerReturns(op, v) ==
  /\ In("handler")
  /\ Passable(Top.p, v)
  /\ CallCapability(Below, op, Top.p, v)
  /\ UNCHANGED <<kind, state, unhandled, result, reactions, queue, resolverVars,
                 history>>

\* and in one made by a thenable job the handler is a resolving function.
ResolverReactionJob ==
  LET job == Head(queue)
      op == IF job.handler = "resolve" THEN "fulfill" ELSE "reject"
  IN /\ TakeJob({"resolve", "reject"})
     /\ EnterWithChecks(frames, op, job.to, job.v)
     /\ queue' = Tail(queue)
     /\ UNCHANGED <<kind, state, unhandled, result, reactions, resolverVars, source>>

\* Faulty variant of CustomThrows: the other jobs are dropped.
CustomThrowsDropsQueue ==
  /\ In("custom")
  /\ frames' = SubSeq(frames, 1, Len(frames) - 2)
  /\ queue' = <<>>
  /\ UNCHANGED <<promiseVars, resolverVars, history, phase>>

\* The function of a foreign capability returns or throws; an error ends the
\* processing, and the jobs that are left stay in the queue.
CustomReturns ==
  /\ In("custom")
  /\ frames' = Below
  /\ UNCHANGED <<promiseVars, queue, resolverVars, history, phase>>

CustomThrows ==
  /\ In("custom")
  /\ frames' = SubSeq(frames, 1, Len(frames) - 2)
  /\ UNCHANGED <<promiseVars, queue, resolverVars, history, phase>>

\* ecma_process_promise_async_reaction_job: the body goes on.
AsyncReactionJob ==
  /\ TakeJob({"resume", "resume_throw"})
  /\ frames' = Append(frames, Frame("body", Head(queue).to, None))
  /\ queue' = Tail(queue)
  /\ UNCHANGED <<promiseVars, resolverVars, source, phase>>

\* ecma_process_promise_resolve_thenable_job: a new pair is made for the promise
\* and its flag is reset.  The `then' of a thenable runs with the pair,
ThenableJob ==
  LET p == Head(queue).to
  IN /\ TakeJob({"thenable"})
     /\ Head(queue).v \in Thenable
     /\ already' = [already EXCEPT ![p] = FALSE]
     /\ pairs' = [pairs EXCEPT ![p] = @ + 1]
     /\ handed' = [handed EXCEPT ![p] = @ \cup {pairs[p] + 1}]
     /\ frames' = Append(frames, Frame("executor", p, None))
     /\ queue' = Tail(queue)
     /\ UNCHANGED <<kind, state, unhandled, result, reactions, source, phase>>

\* and that of a promise is Promise.prototype.then, which adds the pair as a
\* reaction.
AdoptJob ==
  LET p == Head(queue).to
      q == Head(queue).v
  IN /\ TakeJob({"thenable"})
     /\ q \in Promise
     /\ already' = [already EXCEPT ![p] = FALSE]
     /\ pairs' = [pairs EXCEPT ![p] = @ + 1]
     /\ AddReaction(Tail(queue), q,
                    [id |-> NextId, to |-> p,
                     onFulfilled |-> "resolve", onRejected |-> "reject"])
     /\ UNCHANGED <<kind, state, result, frames, handed, phase>>

\* jerry_cleanup: ecma_free_all_enqueued_jobs.
Cleanup ==
  /\ phase = "run"
  /\ frames = <<>>
  /\ queue' = <<>>
  /\ phase' = "cleanup"
  /\ UNCHANGED <<promiseVars, frames, resolverVars, history>>

Terminated == phase # "run" /\ UNCHANGED vars

-----------------------------------------------------------------------------
Handlers(default) == {default, "user"}
Errors == Plain
Outcome == {"fulfill", "reject"}

User ==
  \/ \E p \in Promise : \/ CreatePromise(p)
                        \/ ApiCreatePromise(p)
                        \/ \E v \in Values : AsyncCall(p, v)
  \/ \E p \in Promise, op \in Outcome, v \in Values :
       \/ ApiSettle(p, op, v)
       \/ AsyncCallExits(p, op, v)
       \/ \E g \in 1..MaxPairs : CallResolver(p, g, op, v)
  \/ \E p \in Promise, f \in Handlers("identity"), r \in Handlers("thrower"),
        c \in Promise \cup {None} \cup Foreign : Then(p, f, r, c)
  \/ RunJobs
  \/ Cleanup

\* A call of the engine goes on after the user code it waited for.
Return ==
  \/ RejectReturns
  \/ FulfillPlain
  \/ FulfillThenable
  \/ \E e \in Errors : FulfillRejects(e) \/ ExecutorThrows(e)
  \/ ExecutorReturns
  \/ CreateReturns
  \/ \E v \in Values : \/ BodyAwaits(v)
                     \/ BodyAwaitsAnew(v)
  \/ BodyExitsAnew
  \/ \E op \in Outcome, v \in Values : BodyExits(op, v) \/ HandlerReturns(op, v)
  \/ CustomReturns
  \/ CustomThrows

\* The loop of ecma_process_all_enqueued_jobs.
JobStep ==
  \/ DefaultReactionJob
  \/ UserReactionJob
  \/ ResolverReactionJob
  \/ AsyncReactionJob
  \/ ThenableJob
  \/ AdoptJob
  \/ JobsDone

Next == User \/ Return \/ JobStep \/ Terminated

Spec == Init /\ [][Next]_vars

\* User code returns, whatever it calls in between, and the host runs the queue
\* again and again, as the loop of jerry-main does.
FairSpec ==
  /\ Spec
  /\ \A d \in 1..MaxFrames : SF_vars(Len(frames) = d /\ (Return \/ JobStep))
  /\ SF_vars(frames = <<>> /\ RunJobs)

-----------------------------------------------------------------------------
(***************************************************************************)
(* Properties.                                                             *)
(***************************************************************************)
Reaction ==
  [id : Nat, to : Promise \cup {None, Custom},
   onFulfilled : {"identity", "user", "resolve", "resume"},
   onRejected : {"thrower", "user", "reject", "resume_throw"}]

Jobs ==
  [id : Nat, to : Promise \cup {None, Custom}, v : Values,
   handler : {"identity", "user", "resolve", "resume", "thrower", "reject",
              "resume_throw", "thenable"}]

Calls ==
  [op : {"fulfill", "reject", "executor", "handler", "custom", "body",
         "create", "jobs"},
   p : Promise \cup {None, Custom}, v : Values \cup {None}]

\* Every variable has a value the C declarations allow; a promise never has more
\* resolving functions than were made for it.
TypeOK ==
  /\ kind \in [Promise -> {"unborn", "plain", "async", "orphan"}]
  /\ state \in [Promise -> {"pending", "fulfilled", "rejected"}]
  /\ already \in [Promise -> BOOLEAN]
  /\ unhandled \in [Promise -> BOOLEAN]
  /\ result \in [Promise -> Values \cup {None}]
  /\ reactions \in [Promise -> Seq(Reaction)]
  /\ queue \in Seq(Jobs)
  /\ frames \in Seq(Calls)
  /\ pairs \in [Promise -> 0..MaxPairs]
  /\ \A p \in Promise : handed[p] \subseteq 1..pairs[p]
  /\ source \in Seq(Promise \cup {None})
  /\ ran \in Seq(Nat)
  /\ phase \in {"run", "cleanup", "assert"}

\* No promise is settled twice: the assertions that a promise is pending hold when
\* ecma_fulfill_promise and ecma_reject_promise are entered, and still hold after
\* the user code they call.
SettledOnce == phase # "assert"

\* At most one settlement of a promise is under way, in a call or as a thenable
\* job, the promise is pending, and its one flag keeps all its resolving functions
\* out; only the exit of an async function works without the flag, and there no
\* resolving functions exist yet.
OneInFlight ==
  \A p \in Promise :
    LET calls == {i \in DOMAIN frames : frames[i].op \in Outcome /\ frames[i].p = p}
        jobs == {i \in DOMAIN queue : queue[i].handler = "thenable" /\ queue[i].to = p}
    IN /\ Cardinality(calls) + Cardinality(jobs) <= 1
       /\ calls # {} \/ jobs # {} =>
            /\ state[p] = "pending"
            /\ already[p] \/ (kind[p] = "async" /\ pairs[p] = 0)

\* Every reaction is in one place: it waits at the promise it was added to, which
\* is pending, or its job is in the queue, or its job was taken.  None is lost or
\* runs twice, also when processing stops at an error or runs inside a job.
RunsOnce ==
  phase = "run" =>
    /\ \A i \in DOMAIN source :
         Cardinality({w \in Promise \X DOMAIN source :
                        w[2] \in DOMAIN reactions[w[1]] /\ reactions[w[1]][w[2]].id = i})
         + Cardinality({k \in DOMAIN queue : queue[k].id = i})
         + Cardinality({k \in DOMAIN ran : ran[k] = i}) = 1
    /\ \A p \in Promise : \A k \in DOMAIN reactions[p] :
         source[reactions[p][k].id] = p /\ state[p] = "pending"

\* The reactions of one promise run in the order they were added, those added
\* after it was settled included.
InOrder ==
  \A l \in DOMAIN ran : \A i \in 1..(ran[l] - 1) :
    source[i] = source[ran[l]] /\ source[i] # None
      => \E k \in 1..(l - 1) : ran[k] = i

\* ECMA_PROMISE_UNHANDLED_REJECT is exact: set on a rejected promise to which no
\* reaction was ever added, before or after the rejection.
UnhandledExact ==
  \A p \in Promise :
    unhandled[p] <=> state[p] = "rejected" /\ \A i \in DOMAIN source : source[i] # p

\* How many things are under way that lead to promise p: settlements and bodies
\* among the calls, jobs, and reactions that wait at other promises.
Open(p) ==
  LET calls == {i \in DOMAIN frames :
                  frames[i].p = p /\ frames[i].op \in Outcome \cup {"body"}}
      jobs == {i \in DOMAIN queue : queue[i].to = p}
      waiting == {w \in Promise \X DOMAIN source :
                    w[2] \in DOMAIN reactions[w[1]] /\ reactions[w[1]][w[2]].to = p}
  IN Cardinality(calls) + Cardinality(jobs) + Cardinality(waiting)

\* As long as the promise of an async function is pending exactly one thing is
\* under way that will settle it, and afterwards nothing is.  A function that went
\* on in the promise callback, before it knew its promise, has lost it: that
\* promise ("orphan") is pending and nothing will settle it.
AsyncKept ==
  phase = "run" =>
    \A p \in Promise :
      /\ kind[p] = "async" /\ handed[p] = {}
           => Open(p) = IF state[p] = "pending" THEN 1 ELSE 0
      /\ kind[p] = "orphan"
           => Open(p) = 0 /\ state[p] = "pending" /\ handed[p] = {}

\* Every reaction of a settled promise runs in the end.
ReactionsRun ==
  \A i \in 1..(MaxThens + Cardinality(Promise) * MaxPairs) :
    (i \in DOMAIN source /\ (source[i] = None \/ state[source[i]] # "pending"))
      ~> (phase # "run" \/ \E k \in DOMAIN ran : ran[k] = i)
=============================================================================
