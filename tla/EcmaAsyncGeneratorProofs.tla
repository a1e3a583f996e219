---------------------- MODULE EcmaAsyncGeneratorProofs ----------------------
(***************************************************************************)
(* The task queue of an async generator has one continuation, and the      *)
(* state bits say what it waits for, for any number of requests and        *)
(* awaits.                                                                 *)
(***************************************************************************)
EXTENDS EcmaAsyncGenerator, FiniteSetTheorems, SequenceFacts, TLAPS

-----------------------------------------------------------------------------
(* The inductive invariant.                                                *)

Places == Operations \cup {"create", "body", "yield", "finalize", "result", "value",
                           "close", "operation", "forNext"}
Frame == [at : Places, id : 0 .. MaxRequests, op : Operations \cup {"none"}]
Task == [op : Operations, id : Requests, taken : BOOLEAN]
Job == {"generator", "fulfilled", "rejected"}

TypeOK ==
  /\ completed \in BOOLEAN /\ running \in BOOLEAN /\ called \in BOOLEAN
  /\ doAwait \in BOOLEAN /\ delegate \in BOOLEAN
  /\ state \in 0 .. 7
  /\ tasks \in Seq(Task)
  /\ promise \in [Requests -> {"none", "pending", "settled"}]
  /\ jobs \in Seq(Job)
  /\ waiting \in Nat
  /\ awaits \in Nat
  /\ calls \in Seq(Frame)

\* At most one call works on the first task; it was called by a job or a request and
\* is the outermost one.  Above it the promise of a further request may be being
\* created, for a generator that is not completed.
CallsOK ==
  /\ Len(calls) <= 2
  /\ \A i \in 1 .. Len(calls) :
       /\ calls[i].at # "create" => i = 1
       /\ calls[i].at = "create" => /\ i = Len(calls)
                                   /\ calls[i].id \in Requests
                                   /\ calls[i].op \in Operations
                                   /\ ~completed

\* What the call that works on the first task is doing.
Doing == IF calls = <<>> \/ calls[1].at = "create" THEN "none" ELSE calls[1].at

\* The first task has one continuation.
Single ==
  (IF Doing = "none" THEN 0 ELSE 1) + Len(jobs) + waiting = IF tasks = <<>> THEN 0 ELSE 1

FlagsOK ==
  /\ running => Doing \in {"body", "yield"} /\ ~completed /\ ~doAwait
  /\ Doing = "body" => running
  /\ Doing = "finalize" <=> completed /\ tasks # <<>>
  /\ ~called => tasks = <<>> /\ ~doAwait
  /\ completed => ~doAwait

\* What each place knows of the state.
StatesOK ==
  /\ ~doAwait => state = 0
  /\ delegate <=> doAwait /\ state <= YieldEnd
  /\ \A i \in 1 .. Len(jobs) : doAwait => (jobs[i] = "generator" <=> state = YieldOperation)
  /\ waiting > 0 => state # YieldOperation
  /\ Doing \in Operations \cup {"operation"} => doAwait /\ state = YieldOperation
  /\ Doing = "result" => doAwait /\ state \in {YieldNext, YieldNextReturn}
  /\ Doing = "value" => doAwait /\ state = YieldNextValue
  /\ Doing = "close" => doAwait /\ state = YieldReturn
  /\ Doing = "forNext" => doAwait /\ state = ForNext
  /\ Doing = "yield" \/ tasks = <<>> => (doAwait => state = YieldOperation)

\* The first task is still to be run: by a job, or by the iterator of a yield*.
ToRun == Doing \in Operations \/ \E i \in 1 .. Len(jobs) : jobs[i] = "generator"

TakenOK ==
  ~completed => \A i \in 1 .. Len(tasks) : tasks[i].taken <=> i = 1 /\ ~ToRun

Inv == TypeOK /\ CallsOK /\ Single /\ FlagsOK /\ StatesOK /\ TakenOK

-----------------------------------------------------------------------------
(* Lemmas about the calls, the tasks and the jobs.                         *)

\* The call of a place is the only one.
LEMMA AtWork ==
  ASSUME TypeOK, CallsOK, NEW p \in Places \ {"create"}, At(p)
  PROVE  /\ Doing = p /\ Doing # "none"
         /\ Below = <<>>
         /\ Top.at = p
<1>1. PICK n \in Nat : n = Len(calls) /\ n > 0
  BY EmptyLen DEF TypeOK, At
<1>2. n = 1
  BY <1>1 DEF CallsOK, At, Top
<1>3. SubSeq(calls, 1, 0) = <<>>
  BY SubSeqEmpty
<1>4. p # "none"
  BY DEF Places, Operations
<1> QED BY <1>1, <1>2, <1>3, <1>4 DEF Doing, Below, Top, At

\* Without the promise that is being created the call that works stays.
LEMMA AtCreate ==
  ASSUME TypeOK, CallsOK, At("create")
  PROVE  /\ Below \in Seq(Frame)
         /\ Top.id \in Requests /\ Top.op \in Operations /\ ~completed
         /\ Len(Below) <= 1
         /\ \A i \in 1 .. Len(Below) : Below[i].at # "create"
         /\ Doing = IF Below = <<>> THEN "none" ELSE Below[1].at
<1>1. PICK n \in Nat : n = Len(calls) /\ n > 0
  BY EmptyLen DEF TypeOK, At
<1>2. Top.id \in Requests /\ Top.op \in Operations /\ ~completed
  BY <1>1 DEF CallsOK, At, Top
<1>3. /\ Below \in Seq(Frame) /\ Len(Below) = n - 1
      /\ Below = <<>> <=> n = 1
      /\ \A i \in 1 .. n - 1 : Below[i] = calls[i]
  BY <1>1, FrontProperties DEF TypeOK, At, Below
<1>4. \A i \in 1 .. n - 1 : calls[i].at # "create"
  BY <1>1 DEF CallsOK
<1>5. Doing = IF Below = <<>> THEN "none" ELSE Below[1].at
  <2>1. CASE n = 1
    BY <1>1, <1>3, <2>1 DEF Doing, At, Top
  <2>2. CASE n # 1
    <3>1. 1 \in 1 .. n - 1
      BY <1>1, <2>2
    <3> QED BY <1>3, <1>4, <2>2, <3>1 DEF Doing, At
  <2> QED BY <2>1, <2>2
<1> QED BY <1>1, <1>2, <1>3, <1>4, <1>5 DEF CallsOK

LEMMA FrameType ==
  ASSUME NEW p \in Places
  PROVE  [at |-> p, id |-> 0, op |-> "none"] \in Frame
  BY BoundsAssumption DEF Frame

\* A call that starts where none was.
LEMMA Entered ==
  ASSUME NEW p \in Places \ {"create"}, calls' = Enter(<<>>, p)
  PROVE  /\ calls' \in Seq(Frame)
         /\ CallsOK' /\ Doing' = p
<1> DEFINE e == [at |-> p, id |-> 0, op |-> "none"]
<1>1. e \in Frame /\ e.at = p
  BY FrameType
<1>2. calls' = Append(<<>>, e)
  BY DEF Enter
<1> HIDE DEF e
<1>3. calls' \in Seq(Frame) /\ calls' # <<>> /\ Len(calls') = 1 /\ calls'[1] = e
  BY <1>1, <1>2, OneElement
<1>4. CallsOK'
  BY <1>1, <1>3 DEF CallsOK
<1>5. Doing' = p
  BY <1>1, <1>3 DEF Doing
<1> QED BY <1>3, <1>4, <1>5

LEMMA Left ==
  ASSUME calls' = <<>>
  PROVE  /\ calls' \in Seq(Frame)
         /\ CallsOK' /\ Doing' = "none"
<1>1. calls' \in Seq(Frame) /\ Len(calls') = 0
  BY EmptySeq
<1> QED BY <1>1 DEF CallsOK, Doing

\* While a call works on the first task nothing else does.
LEMMA Alone ==
  ASSUME TypeOK, Single, Doing # "none"
  PROVE  jobs = <<>> /\ Len(jobs) = 0 /\ waiting = 0 /\ tasks # <<>>
<1>1. Len(jobs) \in Nat
  BY LenProperties DEF TypeOK
<1> QED BY <1>1, EmptySeq DEF TypeOK, Single

\* Nor does anything else while a job is to work on it.
LEMMA JobAlone ==
  ASSUME TypeOK, Single, jobs # <<>>
  PROVE  /\ Len(jobs) = 1 /\ Head(jobs) = jobs[1] /\ Tail(jobs) = <<>>
         /\ waiting = 0 /\ Doing = "none" /\ tasks # <<>>
<1>1. PICK n \in Nat : n = Len(jobs) /\ n > 0
  BY EmptyLen DEF TypeOK
<1>2. n = 1
  BY <1>1 DEF TypeOK, Single
<1>3. Tail(jobs) = <<>> /\ Head(jobs) = jobs[1]
  BY <1>1, <1>2, TailProperties DEF TypeOK
<1> QED BY <1>1, <1>2, <1>3 DEF TypeOK, Single

\* An await leaves one reaction, or a job of a promise.
LEMMA Awaiting ==
  ASSUME jobs = <<>>, waiting = 0, Await
  PROVE  /\ jobs' \in Seq(Job) /\ waiting' \in Nat
         /\ Len(jobs') + waiting' = 1
         /\ \A i \in 1 .. Len(jobs') : jobs'[i] \in {"fulfilled", "rejected"}
<1>1. ASSUME NEW r \in {"fulfilled", "rejected"}, jobs' = Append(jobs, r), UNCHANGED waiting
      PROVE  /\ jobs' \in Seq(Job) /\ waiting' = 0
             /\ Len(jobs') = 1 /\ jobs'[1] = r
  BY <1>1, OneElement DEF Job
<1>2. jobs \in Seq(Job) /\ Len(jobs) = 0
  BY EmptySeq
<1>3. CASE waiting' = waiting + 1 /\ UNCHANGED jobs
  BY <1>2, <1>3
<1>4. CASE \E r \in {"fulfilled", "rejected"} : jobs' = Append(jobs, r) /\ UNCHANGED waiting
  BY <1>1, <1>4
<1> QED BY <1>3, <1>4 DEF Await

\* The value of the first task is taken.
LEMMA Taking ==
  ASSUME NEW ts \in Seq(Task), ts # <<>>
  PROVE  LET us == [ts EXCEPT ![1].taken = TRUE]
         IN /\ us \in Seq(Task) /\ us # <<>> /\ Len(us) = Len(ts)
            /\ us[1].taken
            /\ \A i \in 2 .. Len(ts) : us[i].taken = ts[i].taken
<1>1. PICK n \in Nat : n = Len(ts) /\ n > 0
  BY EmptyLen
<1>2. ts[1] \in Task
  BY <1>1, ElementOfSeq
<1> DEFINE e == [ts[1] EXCEPT !.taken = TRUE]
<1> DEFINE us == [ts EXCEPT ![1] = e]
<1>3. e \in Task /\ e.taken
  BY <1>2 DEF Task
<1>4. [ts EXCEPT ![1].taken = TRUE] = us
  OBVIOUS
<1> HIDE DEF e
<1>5. /\ us \in Seq(Task) /\ Len(us) = Len(ts)
      /\ \A j \in 1 .. Len(ts) : us[j] = IF j = 1 THEN e ELSE ts[j]
  <2>1. 1 \in 1 .. Len(ts)
    BY <1>1
  <2> QED BY <1>3, <2>1, ExceptSeq
<1> HIDE DEF us
<1>6. us[1].taken
  BY <1>1, <1>3, <1>5
<1>7. us # <<>>
  BY <1>1, <1>5, EmptyLen
<1>8. \A i \in 2 .. Len(ts) : us[i].taken = ts[i].taken
  BY <1>1, <1>5
<1> QED BY <1>4, <1>5, <1>6, <1>7, <1>8

LEMMA FirstTask ==
  ASSUME TypeOK, tasks # <<>>
  PROVE  /\ Len(tasks) \in Nat /\ Len(tasks) > 0
         /\ tasks[1].id \in Requests /\ tasks[1].op \in Operations
<1>1. Len(tasks) \in Nat /\ Len(tasks) > 0
  BY EmptyLen DEF TypeOK
<1>2. tasks[1] \in Task
  BY <1>1, ElementOfSeq DEF TypeOK
<1> QED BY <1>1, <1>2 DEF Task

\* The state bits.
LEMMA XorChange == \A from, to \in 0 .. 7 : Xor(from, Xor(from, to)) = to
  BY DEF Xor

LEMMA OrZero == \A s \in 0 .. 7 : Or(0, s) = s
  BY DEF Or

\* Only the value of the first task is taken.
FirstTaken(ts) == \A i \in 1 .. Len(ts) : ts[i].taken <=> i = 1

LEMMA TasksTaken ==
  ASSUME Inv, tasks # <<>>, ~completed
  PROVE  /\ Taken \in Seq(Task) /\ Taken # <<>> /\ FirstTaken(Taken)
         /\ ~ToRun => FirstTaken(tasks)
<1>1. PICK n \in Nat : n = Len(tasks) /\ n > 0
  BY EmptyLen DEF Inv, TypeOK
<1>2. \A i \in 2 .. n : ~tasks[i].taken
  BY <1>1 DEF Inv, TakenOK
<1>3. /\ Taken \in Seq(Task) /\ Taken # <<>> /\ Len(Taken) = n
      /\ Taken[1].taken
      /\ \A i \in 2 .. n : Taken[i].taken = tasks[i].taken
  BY <1>1, Taking DEF Inv, TypeOK, Taken
<1>4. FirstTaken(Taken)
  BY <1>1, <1>2, <1>3 DEF FirstTaken
<1>5. ~ToRun => FirstTaken(tasks)
  BY DEF Inv, TakenOK, FirstTaken
<1> QED BY <1>3, <1>4, <1>5

-----------------------------------------------------------------------------
(* How a step may leave the generator.                                     *)

\* The variables that most steps change little of have their types.
Kept ==
  /\ completed' = completed /\ called' = called
  /\ promise' = promise /\ awaits' \in Nat

\* It awaits a promise, and the first task is taken.
LEMMA Waits ==
  ASSUME Inv, Kept, tasks # <<>>, ~completed, jobs = <<>>, waiting = 0, Await,
         calls' = <<>>, running' = FALSE,
         tasks' \in Seq(Task), tasks' # <<>>, FirstTaken(tasks'),
         doAwait' \in BOOLEAN, delegate' \in BOOLEAN, state' \in 0 .. 7,
         ~doAwait' => state' = 0,
         delegate' <=> doAwait' /\ state' <= YieldEnd,
         state' # YieldOperation
  PROVE  Inv'
<1>1. CallsOK' /\ Doing' = "none" /\ calls' \in Seq(Frame)
  BY Left
<1>2. /\ jobs' \in Seq(Job) /\ waiting' \in Nat
      /\ Len(jobs') + waiting' = 1
      /\ \A i \in 1 .. Len(jobs') : jobs'[i] \in {"fulfilled", "rejected"}
  BY Awaiting
<1>3. TypeOK'
  BY <1>1, <1>2 DEF Inv, TypeOK, Kept
<1>4. Single'
  <2>1. PICK n \in Nat : n = Len(jobs')
    BY <1>2, EmptyLen
  <2> QED BY <1>1, <1>2, <2>1 DEF Single
<1>5. FlagsOK'
  BY <1>1 DEF Inv, FlagsOK, Kept
<1>6. StatesOK'
  BY <1>1, <1>2 DEF StatesOK, Operations
<1>7. TakenOK'
  BY <1>1, <1>2 DEF TakenOK, ToRun, FirstTaken, Operations
<1> QED BY <1>1, <1>3, <1>4, <1>5, <1>6, <1>7 DEF Inv

\* The body runs, outside of any yield* and for-await-of.
LEMMA Resumes ==
  ASSUME Inv, completed' = completed, ~completed,
         called' = TRUE, promise' = promise, awaits' \in Nat,
         Resume(<<>>),
         tasks' \in Seq(Task), tasks' # <<>>, FirstTaken(tasks'),
         jobs' = <<>>, waiting' = 0,
         doAwait' = FALSE, delegate' = FALSE, state' = 0
  PROVE  Inv'
<1>1. CallsOK' /\ Doing' = "body" /\ calls' \in Seq(Frame)
  BY Entered DEF Resume, Places
<1>2. running' = TRUE
  BY DEF Resume
<1>3. jobs' \in Seq(Job) /\ Len(jobs') = 0
  BY EmptySeq
<1>4. TypeOK'
  <2>1. /\ completed' \in BOOLEAN /\ running' \in BOOLEAN /\ called' \in BOOLEAN
        /\ doAwait' \in BOOLEAN /\ delegate' \in BOOLEAN
    BY <1>2, Zenon DEF Inv, TypeOK
  <2> QED BY <1>1, <1>3, <2>1 DEF Inv, TypeOK
<1>5. Single'
  BY <1>1, <1>3 DEF Single
<1>6. FlagsOK'
  BY <1>1, <1>2 DEF FlagsOK
<1>7. StatesOK'
  BY <1>1, <1>3 DEF StatesOK, Operations
<1>8. TakenOK'
  BY <1>1, <1>3 DEF TakenOK, ToRun, FirstTaken, Operations
<1> QED BY <1>1, <1>4, <1>5, <1>6, <1>7, <1>8 DEF Inv

\* A step of a yield* or a for-await-of calls the program, at a place that the state
\* says.
LEMMA Consults ==
  ASSUME Inv, Kept, ~completed, called, running' = running, ~running,
         NEW p \in Operations \cup {"result", "value", "close", "operation", "forNext"},
         calls' = Enter(<<>>, p),
         tasks' \in Seq(Task), tasks' # <<>>,
         IF p \in Operations THEN \A i \in 1 .. Len(tasks') : ~tasks'[i].taken
                             ELSE FirstTaken(tasks'),
         jobs' = <<>>, waiting' = 0,
         doAwait' = TRUE, state' \in 0 .. 7, delegate' \in BOOLEAN,
         delegate' <=> state' <= YieldEnd,
         p \in Operations \cup {"operation"} => state' = YieldOperation,
         p = "result" => state' \in {YieldNext, YieldNextReturn},
         p = "value" => state' = YieldNextValue,
         p = "close" => state' = YieldReturn,
         p = "forNext" => state' = ForNext
  PROVE  Inv'
<1>1. p \in Places \ {"create", "body", "yield", "finalize"}
  BY DEF Places, Operations
<1>2. CallsOK' /\ Doing' = p /\ calls' \in Seq(Frame)
  BY <1>1, Entered
<1>3. jobs' \in Seq(Job) /\ Len(jobs') = 0
  BY EmptySeq
<1>4. TypeOK'
  BY <1>2, <1>3 DEF Inv, TypeOK, Kept
<1>5. p # "none"
  BY DEF Operations
<1>6. Single'
  BY <1>2, <1>3, <1>5 DEF Single
<1>7. FlagsOK'
  BY <1>1, <1>2 DEF Inv, FlagsOK, Kept
<1>8. StatesOK'
  BY <1>1, <1>2, <1>3 DEF StatesOK
<1>9. TakenOK'
  BY <1>2, <1>3 DEF TakenOK, ToRun, FirstTaken
<1> QED BY <1>2, <1>4, <1>6, <1>7, <1>8, <1>9 DEF Inv

-----------------------------------------------------------------------------
(* The steps.                                                              *)

LEMMA InitInv == Init => Inv
<1> SUFFICES ASSUME Init PROVE Inv
  OBVIOUS
<1>1. /\ tasks = <<>> /\ jobs = <<>> /\ calls = <<>>
      /\ Len(tasks) = 0 /\ Len(jobs) = 0 /\ Len(calls) = 0
      /\ tasks \in Seq(Task) /\ jobs \in Seq(Job) /\ calls \in Seq(Frame)
  BY EmptySeq DEF Init
<1>2. Doing = "none"
  BY <1>1 DEF Doing
<1>3. TypeOK
  <2>1. /\ completed \in BOOLEAN /\ running \in BOOLEAN /\ called \in BOOLEAN
        /\ doAwait \in BOOLEAN /\ delegate \in BOOLEAN
    BY Zenon DEF Init
  <2> QED BY <1>1, <2>1 DEF Init, TypeOK
<1> QED BY <1>1, <1>2, <1>3
        DEF Init, Inv, CallsOK, Single, FlagsOK, StatesOK, TakenOK, Operations

\* A call in progress is alone, and its generator is not completed unless it is
\* finalized.
LEMMA InCall ==
  ASSUME Inv, NEW p \in Places \ {"create"}, At(p)
  PROVE  /\ Doing = p /\ Doing # "none" /\ Below = <<>> /\ Top.at = p
         /\ jobs = <<>> /\ Len(jobs) = 0 /\ waiting = 0 /\ tasks # <<>>
         /\ called = TRUE
         /\ p # "finalize" => completed = FALSE
<1>1. Doing = p /\ Doing # "none" /\ Below = <<>> /\ Top.at = p
  BY AtWork DEF Inv
<1>2. jobs = <<>> /\ Len(jobs) = 0 /\ waiting = 0 /\ tasks # <<>>
  BY <1>1, Alone DEF Inv
<1> QED BY <1>1, <1>2 DEF Inv, TypeOK, FlagsOK

\* The same for a job.
LEMMA InJob ==
  ASSUME Inv, NEW j \in Job, NextJob(j)
  PROVE  /\ Len(jobs) = 1 /\ jobs[1] = j /\ jobs' = <<>> /\ waiting' = 0
         /\ Doing = "none" /\ tasks # <<>>
         /\ called = TRUE /\ completed = FALSE /\ running = FALSE
         /\ ToRun <=> j = "generator"
         /\ UNCHANGED <<completed, called, awaits>>
<1>1. /\ Len(jobs) = 1 /\ jobs[1] = j /\ Tail(jobs) = <<>>
      /\ waiting = 0 /\ Doing = "none" /\ tasks # <<>>
  BY JobAlone DEF Inv, NextJob
<1>2. called = TRUE /\ completed = FALSE /\ running = FALSE
  BY <1>1 DEF Inv, TypeOK, FlagsOK
<1>3. ToRun <=> j = "generator"
  BY <1>1 DEF ToRun, Operations
<1> QED BY <1>1, <1>2, <1>3 DEF NextJob

\* A request of a completed generator is answered; otherwise its promise is created.
LEMMA RequestInv ==
  ASSUME Inv, ~CreateCallbacks, NEW op \in Operations, NEW id \in Requests, Request(op, id)
  PROVE  Inv'
<1>1. CASE completed
  <2>1. UNCHANGED <<flagVars, stateVars, tasks, jobs, waiting, awaits, calls>>
    BY <1>1 DEF Request, awaitVars
  <2>2. promise' \in [Requests -> {"none", "pending", "settled"}]
    BY <1>1 DEF Request, Settle, Inv, TypeOK
  <2>3. Doing' = Doing /\ ToRun' = ToRun
    BY <2>1 DEF Doing, ToRun
  <2> QED BY <2>1, <2>2, <2>3 DEF Inv, TypeOK, CallsOK, Single, FlagsOK, StatesOK, TakenOK,
                                  flagVars, stateVars
<1>2. CASE ~completed
  <2> DEFINE e == [at |-> "create", id |-> id, op |-> op]
  <2>1. /\ UNCHANGED <<flagVars, stateVars, tasks, jobs, waiting, awaits>>
        /\ calls' = Append(calls, e) /\ ~At("create")
        /\ promise' \in [Requests -> {"none", "pending", "settled"}]
    BY <1>2 DEF Request, Inv, TypeOK, awaitVars
  <2>2. e \in Frame /\ e.at = "create" /\ e.id = id /\ e.op = op
    BY BoundsAssumption DEF Frame, Places, Requests
  <2> HIDE DEF e
  <2>3. PICK n \in Nat : n = Len(calls) /\ (calls = <<>> <=> n = 0)
    BY EmptyLen DEF Inv, TypeOK
  <2>4. /\ calls' \in Seq(Frame) /\ calls' # <<>> /\ Len(calls') = n + 1
        /\ \A i \in 1 .. n : calls'[i] = calls[i]
        /\ calls'[n + 1] = e
    BY <2>1, <2>2, <2>3, AppendProperties DEF Inv, TypeOK
  <2>5. n <= 1 /\ \A i \in 1 .. n : calls[i].at # "create"
    <3>1. n # 0 => calls[n].at # "create"
      BY <2>1, <2>3 DEF At, Top
    <3> QED BY <2>3, <3>1 DEF Inv, CallsOK
  <2>6. CallsOK'
    <3> SUFFICES ASSUME NEW i \in 1 .. n + 1
                 PROVE  /\ calls'[i].at # "create" => i = 1
                        /\ calls'[i].at = "create" => /\ i = n + 1
                                                      /\ calls'[i].id \in Requests
                                                      /\ calls'[i].op \in Operations
                                                      /\ ~completed'
      BY <2>4, <2>5 DEF CallsOK
    <3>1. CASE i = n + 1
      BY <1>2, <2>1, <2>2, <2>4, <3>1 DEF flagVars
    <3>2. CASE i # n + 1
      BY <2>4, <2>5, <3>2
    <3> QED BY <3>1, <3>2
  <2>7. Doing' = Doing
    <3>1. CASE n = 0
      BY <2>2, <2>3, <2>4, <3>1 DEF Doing
    <3>2. CASE n # 0
      BY <2>3, <2>4, <3>2 DEF Doing
    <3> QED BY <3>1, <3>2
  <2>8. ToRun' = ToRun
    BY <2>1, <2>7 DEF ToRun
  <2> QED BY <2>1, <2>4, <2>6, <2>7, <2>8
          DEF Inv, TypeOK, Single, FlagsOK, StatesOK, TakenOK, flagVars, stateVars
<1> QED BY <1>1, <1>2

\* The first task of an idle generator is run or gets a job; other tasks wait.
LEMMA EnqueueInv == ASSUME Inv, Enqueue PROVE Inv'
<1> DEFINE e == [op |-> Top.op, id |-> Top.id, taken |-> FALSE]
<1> DEFINE ts == Append(tasks, e)
<1>1. /\ Below \in Seq(Frame)
      /\ Top.id \in Requests /\ Top.op \in Operations /\ ~completed
      /\ Len(Below) <= 1
      /\ \A i \in 1 .. Len(Below) : Below[i].at # "create"
      /\ Doing = IF Below = <<>> THEN "none" ELSE Below[1].at
  BY AtCreate DEF Inv, Enqueue
<1>2. e \in Task /\ ~e.taken /\ e.op \in Operations
  BY <1>1 DEF Task
<1>3. /\ UNCHANGED <<completed, stateVars, promise, waiting, awaits>> /\ called' = TRUE
      /\ IF tasks = <<>> /\ ~called
          THEN Run(Below, ts) /\ UNCHANGED jobs
          ELSE /\ tasks' = ts
               /\ jobs' = IF tasks = <<>> THEN Append(jobs, "generator") ELSE jobs
               /\ calls' = Below
               /\ UNCHANGED running
  BY DEF Enqueue
<1>4. PICK n \in Nat : n = Len(tasks) /\ (tasks = <<>> <=> n = 0)
  BY EmptyLen DEF Inv, TypeOK
<1>5. /\ ts \in Seq(Task) /\ ts # <<>> /\ Len(ts) = n + 1
      /\ \A i \in 1 .. n : ts[i] = tasks[i]
      /\ ts[n + 1] = e
  <2> HIDE DEF e
  <2> QED BY <1>2, <1>4, AppendProperties DEF Inv, TypeOK
<1> HIDE DEF e, ts
<1>6. PICK m \in Nat : m = Len(jobs)
  BY EmptyLen DEF Inv, TypeOK
<1>7. tasks = <<>> => Doing = "none" /\ m = 0 /\ jobs = <<>> /\ waiting = 0
  BY <1>6, EmptyLen DEF Inv, TypeOK, Single
<1>8. CASE tasks = <<>> /\ ~called
  <2>1. Below = <<>>
    <3>1. Below # <<>> => Below[1].at # "none"
      <4>1. ASSUME Below # <<>> PROVE Below[1] \in Frame
        BY <1>1, <4>1, EmptyLen, ElementOfSeq
      <4> QED BY <4>1 DEF Frame, Places, Operations
    <3> QED BY <1>1, <1>7, <1>8, <3>1
  <2>2. doAwait = FALSE /\ delegate = FALSE /\ state = 0 /\ completed = FALSE
    BY <1>1, <1>8 DEF Inv, TypeOK, FlagsOK, StatesOK
  <2>3. tasks' = [ts EXCEPT ![1].taken = TRUE] /\ Resume(<<>>) /\ jobs' = jobs
    BY <1>3, <1>8, <2>1, <2>2 DEF Run
  <2>4. tasks' \in Seq(Task) /\ tasks' # <<>> /\ Len(tasks') = 1 /\ tasks'[1].taken
    <3>1. Len(ts) = 1
      BY <1>4, <1>5, <1>8
    <3> QED BY <1>5, <2>3, <3>1, Taking
  <2>5. FirstTaken(tasks')
    BY <2>4 DEF FirstTaken
  <2> QED BY <1>3, <1>7, <1>8, <2>2, <2>3, <2>4, <2>5, Resumes DEF stateVars, Inv, TypeOK
<1>9. CASE ~(tasks = <<>> /\ ~called)
  <2>1. /\ tasks' = ts /\ calls' = Below /\ UNCHANGED running
        /\ jobs' = IF tasks = <<>> THEN Append(jobs, "generator") ELSE jobs
    BY <1>3, <1>9
  <2>2. /\ CallsOK' /\ calls' \in Seq(Frame) /\ Doing' = Doing
    <3>1. \A i \in 1 .. Len(Below) : i = 1
      <4>1. PICK k \in Nat : k = Len(Below)
        BY <1>1, EmptyLen
      <4> QED BY <1>1, <4>1
    <3>2. CallsOK'
      BY <1>1, <2>1, <3>1 DEF CallsOK
    <3>3. Doing' = Doing
      <4>1. CASE Below = <<>>
        BY <1>1, <2>1, <4>1 DEF Doing
      <4>2. CASE Below # <<>>
        <5>1. 1 \in 1 .. Len(Below)
          BY <1>1, <4>2, EmptyLen
        <5> QED BY <1>1, <2>1, <4>2, <5>1 DEF Doing
      <4> QED BY <4>1, <4>2
    <3> QED BY <1>1, <2>1, <3>2, <3>3
  <2>3. /\ jobs' \in Seq(Job) /\ tasks' # <<>>
        /\ tasks = <<>> => Len(jobs') = 1 /\ jobs'[1] = "generator"
        /\ tasks # <<>> => jobs' = jobs
    BY <1>5, <1>7, <2>1, OneElement DEF Inv, TypeOK, Job
  <2>4. TypeOK'
    <3>1. called' \in BOOLEAN /\ running' \in BOOLEAN
      BY <1>3, <2>1, Zenon DEF Inv, TypeOK
    <3> QED BY <1>3, <1>5, <2>1, <2>2, <2>3, <3>1 DEF Inv, TypeOK, stateVars
  <2>5. Single'
    <3>1. CASE tasks = <<>>
      BY <1>3, <1>7, <2>2, <2>3, <3>1 DEF Single
    <3>2. CASE tasks # <<>>
      BY <1>3, <2>2, <2>3, <3>2 DEF Inv, Single
    <3> QED BY <3>1, <3>2
  <2>6. FlagsOK'
    BY <1>1, <1>3, <2>1, <2>2, <2>3 DEF Inv, FlagsOK, stateVars
  <2>7. StatesOK'
    <3>1. CASE tasks = <<>>
      <4>1. waiting' = 0 /\ Doing' = "none" /\ UNCHANGED stateVars
        BY <1>3, <1>7, <2>2, <3>1
      <4>2. doAwait => state = YieldOperation
        BY <3>1 DEF Inv, StatesOK
      <4>3. \A i \in 1 .. Len(jobs') : jobs'[i] = "generator"
        <5>1. Len(jobs') = 1 /\ jobs'[1] = "generator"
          BY <2>3, <3>1
        <5> QED BY <5>1
      <4>4. (~doAwait => state = 0)' /\ (delegate <=> doAwait /\ state <= YieldEnd)'
        BY <4>1 DEF Inv, StatesOK, stateVars
      <4>5. (doAwait => state = YieldOperation)'
        BY <4>1, <4>2 DEF stateVars
      <4> QED BY <4>1, <4>3, <4>4, <4>5 DEF StatesOK, Operations
    <3>2. CASE tasks # <<>>
      BY <1>3, <2>2, <2>3, <3>2 DEF Inv, StatesOK, stateVars
    <3> QED BY <3>1, <3>2
  <2>8. TakenOK'
    <3>1. CASE tasks = <<>>
      <4>1. ToRun' /\ Len(tasks') = 1 /\ ~tasks'[1].taken
        BY <1>2, <1>4, <1>5, <2>1, <2>3, <3>1 DEF ToRun
      <4> QED BY <4>1 DEF TakenOK
    <3>2. CASE tasks # <<>>
      <4>1. ToRun' = ToRun
        BY <2>2, <2>3, <3>2 DEF ToRun
      <4>2. \A i \in 1 .. n + 1 : tasks'[i].taken <=> i = 1 /\ ~ToRun
        <5> SUFFICES ASSUME NEW i \in 1 .. n + 1
                     PROVE  ts[i].taken <=> i = 1 /\ ~ToRun
          BY <2>1
        <5>1. CASE i = n + 1
          BY <1>2, <1>4, <1>5, <3>2, <5>1
        <5>2. CASE i # n + 1
          BY <1>1, <1>4, <1>5, <5>2 DEF Inv, TakenOK
        <5> QED BY <5>1, <5>2
      <4> QED BY <1>5, <2>1, <4>1, <4>2 DEF TakenOK
    <3> QED BY <3>1, <3>2
  <2> QED BY <2>2, <2>4, <2>5, <2>6, <2>7, <2>8 DEF Inv
<1> QED BY <1>8, <1>9

\* The iterator of a yield* was called for the first task.
LEMMA RunDelegatesInv == ASSUME Inv, RunDelegates PROVE Inv'
<1>1. PICK op \in Operations : At(op)
  BY DEF RunDelegates
<1>2. /\ Doing = op /\ Below = <<>> /\ Top.at = op
      /\ jobs = <<>> /\ waiting = 0 /\ tasks # <<>> /\ completed = FALSE
  BY <1>1, InCall DEF Places, Operations
<1>3. doAwait = TRUE /\ state = YieldOperation /\ delegate = TRUE /\ running = FALSE
  BY <1>2 DEF Inv, TypeOK, StatesOK, FlagsOK, Operations, YieldOperation, YieldEnd, YieldClose
<1>4. PICK to \in {YieldNext, YieldClose, YieldReturn} : state' = Xor(state, Xor(YieldOperation, to))
  BY <1>2 DEF RunDelegates, Delegated, ChangeState, Operations
<1>5. state' = to
  BY <1>3, <1>4, XorChange DEF YieldOperation, YieldNext, YieldClose, YieldReturn
<1>6. tasks' \in Seq(Task) /\ tasks' # <<>> /\ FirstTaken(tasks')
  BY <1>2, TasksTaken DEF RunDelegates
<1>7. Kept /\ Await /\ calls' = <<>> /\ running' = FALSE /\ doAwait' = TRUE /\ delegate' = TRUE
  BY <1>2, <1>3 DEF RunDelegates, Kept, flagVars, Inv, TypeOK
<1>8. state' \in 0 .. 7 /\ state' <= YieldEnd /\ state' # YieldOperation
  BY <1>5 DEF YieldNext, YieldClose, YieldReturn, YieldOperation, YieldEnd
<1>9. doAwait' \in BOOLEAN /\ delegate' \in BOOLEAN
  BY <1>7, Zenon
<1> QED BY <1>2, <1>6, <1>7, <1>8, <1>9, Waits

\* An exception ends the yield*.
LEMMA RunThrowsInv == ASSUME Inv, RunThrows PROVE Inv'
<1>1. PICK op \in Operations : At(op)
  BY DEF RunThrows
<1>2. /\ Below = <<>> /\ jobs = <<>> /\ waiting = 0 /\ tasks # <<>>
      /\ completed = FALSE /\ called = TRUE
  BY <1>1, InCall DEF Places, Operations
<1>3. tasks' \in Seq(Task) /\ tasks' # <<>> /\ FirstTaken(tasks')
  BY <1>2, TasksTaken DEF RunThrows
<1> QED BY <1>2, <1>3, Resumes DEF RunThrows, ClearState, awaitVars, Inv, TypeOK

\* The promise of the first task is settled.
LEMMA SettleFirst ==
  ASSUME Inv, tasks # <<>>, Settle(tasks[1].id)
  PROVE  promise' \in [Requests -> {"none", "pending", "settled"}]
  BY FirstTask DEF Inv, TypeOK, Settle

\* A value is yielded: by the body, or for the iterator of a yield*.
LEMMA YieldInv ==
  ASSUME Inv, tasks # <<>>, Yield(<<>>), completed = FALSE, called = TRUE,
         UNCHANGED <<completed, running, called, doAwait, delegate, tasks, awaits>>,
         jobs' = <<>>, waiting' = 0, FirstTaken(tasks),
         state' = IF doAwait THEN YieldOperation ELSE 0,
         delegate <=> doAwait
  PROVE  Inv'
<1>1. CallsOK' /\ Doing' = "yield" /\ calls' \in Seq(Frame)
  BY Entered DEF Yield, Places
<1>2. promise' \in [Requests -> {"none", "pending", "settled"}]
  BY SettleFirst DEF Yield
<1>3. jobs' \in Seq(Job) /\ Len(jobs') = 0
  BY EmptySeq
<1>4. TypeOK'
  BY <1>1, <1>2, <1>3 DEF Inv, TypeOK, YieldOperation
<1>5. Single'
  BY <1>1, <1>3 DEF Single
<1>6. FlagsOK'
  BY <1>1 DEF Inv, FlagsOK
<1>7. StatesOK'
  BY <1>1, <1>3, <1>4 DEF TypeOK, StatesOK, Operations, YieldOperation, YieldEnd, YieldClose
<1>8. TakenOK'
  BY <1>1, <1>3 DEF TakenOK, ToRun, FirstTaken, Operations
<1> QED BY <1>1, <1>4, <1>5, <1>6, <1>7, <1>8 DEF Inv

\* The task of a yield is removed, and the next one gets a job.
LEMMA YieldReturnsInv == ASSUME Inv, YieldReturns PROVE Inv'
<1>1. /\ Doing = "yield" /\ Below = <<>>
      /\ jobs = <<>> /\ waiting = 0 /\ tasks # <<>> /\ completed = FALSE /\ called = TRUE
  <2>1. "yield" \in Places \ {"create"} /\ At("yield")
    BY DEF YieldReturns, Places
  <2> QED BY <2>1, InCall
<1>2. CallsOK' /\ Doing' = "none" /\ calls' \in Seq(Frame)
  BY <1>1, Left DEF YieldReturns
<1>3. PICK n \in Nat : n = Len(tasks) /\ n > 0
  BY <1>1, EmptyLen DEF Inv, TypeOK
<1>4. /\ tasks' \in Seq(Task) /\ Len(tasks') = n - 1
      /\ tasks' = <<>> <=> n = 1
      /\ \A i \in 1 .. n - 1 : tasks'[i] = tasks[i + 1]
  BY <1>1, <1>3, TailProperties DEF YieldReturns, Inv, TypeOK
<1>5. /\ jobs' \in Seq(Job)
      /\ tasks' = <<>> => jobs' = <<>> /\ Len(jobs') = 0
      /\ tasks' # <<>> => Len(jobs') = 1 /\ jobs'[1] = "generator"
  BY <1>1, EmptySeq, OneElement DEF YieldReturns, Job
<1>6. UNCHANGED <<completed, called, stateVars, promise, waiting, awaits>> /\ running' = FALSE
  BY DEF YieldReturns
<1>7. TypeOK'
  <2>1. running' \in BOOLEAN
    BY <1>6, Zenon
  <2> QED BY <1>2, <1>4, <1>5, <1>6, <2>1 DEF Inv, TypeOK, stateVars
<1>8. Single'
  BY <1>1, <1>2, <1>5, <1>6 DEF Single
<1>9. FlagsOK'
  BY <1>1, <1>2, <1>6 DEF Inv, FlagsOK, stateVars
<1>10. StatesOK'
  <2>1. waiting' = 0 /\ (doAwait => state = YieldOperation)
    BY <1>1, <1>6 DEF Inv, StatesOK
  <2> QED BY <1>2, <1>5, <1>6, <2>1 DEF Inv, StatesOK, stateVars, Operations
<1>11. TakenOK'
  <2>1. \A i \in 1 .. n - 1 : ~tasks'[i].taken
    BY <1>1, <1>3, <1>4 DEF Inv, TakenOK
  <2>2. tasks' # <<>> => ToRun'
    BY <1>5 DEF ToRun
  <2> QED BY <1>3, <1>4, <2>1, <2>2 DEF TakenOK
<1> QED BY <1>2, <1>7, <1>8, <1>9, <1>10, <1>11 DEF Inv

\* The body yields.
LEMMA BodyYieldsInv == ASSUME Inv, BodyYields PROVE Inv'
<1>1. "body" \in Places \ {"create"} /\ At("body")
  BY DEF BodyYields, Places
<1>2. /\ Doing = "body" /\ Below = <<>> /\ jobs = <<>> /\ Len(jobs) = 0 /\ waiting = 0
      /\ tasks # <<>> /\ completed = FALSE /\ called = TRUE
  BY <1>1, InCall
<1>3. doAwait = FALSE /\ delegate = FALSE /\ state = 0
  BY <1>2 DEF Inv, TypeOK, FlagsOK, StatesOK
<1>4. FirstTaken(tasks)
  <2>1. ~ToRun
    BY <1>2 DEF ToRun, Operations
  <2> QED BY <1>2, <2>1, TasksTaken
<1>5. /\ Yield(<<>>)
      /\ UNCHANGED <<completed, running, called, doAwait, delegate, tasks, awaits>>
      /\ jobs' = <<>> /\ waiting' = 0 /\ state' = 0
  BY <1>2, <1>3 DEF BodyYields, flagVars, stateVars, awaitVars
<1>6. (delegate <=> doAwait) /\ state' = IF doAwait THEN YieldOperation ELSE 0
  BY <1>3, <1>5
<1> QED BY <1>2, <1>4, <1>5, <1>6, YieldInv

\* The body is suspended, with the state s.
LEMMA SuspendInv ==
  ASSUME Inv, Suspend, NEW s \in 0 .. 7, s # YieldOperation,
         \/ doAwait' = doAwait /\ delegate' = delegate /\ state' = state
         \/ doAwait' = TRUE /\ delegate' = (s <= YieldEnd) /\ state' = s
  PROVE  Inv'
<1>1. "body" \in Places \ {"create"} /\ At("body")
  BY DEF Suspend, Places
<1>2. /\ Doing = "body" /\ Below = <<>> /\ jobs = <<>> /\ Len(jobs) = 0 /\ waiting = 0
      /\ tasks # <<>> /\ completed = FALSE /\ called = TRUE
  BY <1>1, InCall
<1>3. doAwait = FALSE /\ delegate = FALSE /\ state = 0
  BY <1>2 DEF Inv, TypeOK, FlagsOK, StatesOK
<1>4. FirstTaken(tasks)
  <2>1. ~ToRun
    BY <1>2 DEF ToRun, Operations
  <2> QED BY <1>2, <2>1, TasksTaken
<1>5. /\ Kept /\ Await /\ calls' = <<>> /\ running' = FALSE
      /\ tasks' = tasks /\ tasks' \in Seq(Task)
  BY <1>2 DEF Suspend, Kept, Inv, TypeOK
<1>6. CASE doAwait' = doAwait /\ delegate' = delegate /\ state' = state
  <2>1. doAwait' = FALSE /\ delegate' = FALSE /\ state' = 0
    BY <1>3, <1>6
  <2>2. doAwait' \in BOOLEAN /\ delegate' \in BOOLEAN
    BY <2>1, Zenon
  <2>3. state' \in 0 .. 7 /\ state' # YieldOperation
    BY <2>1 DEF YieldOperation
  <2> QED BY <1>2, <1>4, <1>5, <2>1, <2>2, <2>3, Waits
<1>7. CASE doAwait' = TRUE /\ delegate' = (s <= YieldEnd) /\ state' = s
  <2>1. doAwait' \in BOOLEAN
    BY <1>7, Zenon
  <2>2. delegate' \in BOOLEAN
    BY <1>7
  <2>3. delegate' <=> doAwait' /\ state' <= YieldEnd
    BY <1>7
  <2> QED BY <1>2, <1>4, <1>5, <1>7, <2>1, <2>2, <2>3, Waits
<1> QED BY <1>6, <1>7

LEMMA BodySuspendsInv ==
  ASSUME Inv, BodyAwaits \/ BodyDelegates \/ \E s \in {ForClose, ForNext} : BodyForAwait(s)
  PROVE  Inv'
<1>1. CASE BodyAwaits
  <2>1. 0 \in 0 .. 7 /\ 0 # YieldOperation
    BY DEF YieldOperation
  <2> QED BY <1>1, <2>1, SuspendInv DEF BodyAwaits, stateVars
<1>2. ASSUME At("body") PROVE doAwait = FALSE /\ delegate = FALSE /\ state = 0
  <2>1. "body" \in Places \ {"create"}
    BY DEF Places
  <2>2. Doing = "body"
    BY <1>2, <2>1, InCall
  <2> QED BY <2>2 DEF Inv, TypeOK, FlagsOK, StatesOK
<1>3. CASE BodyDelegates
  <2>1. 0 \in 0 .. 7 /\ 0 # YieldOperation /\ (0 <= YieldEnd) = TRUE
    BY DEF YieldOperation, YieldEnd, YieldClose
  <2>2. Suspend /\ doAwait' = TRUE /\ delegate' = TRUE /\ state' = 0
    BY <1>2, <1>3 DEF BodyDelegates, Suspend
  <2> QED BY <2>1, <2>2, SuspendInv
<1>4. ASSUME NEW s \in {ForClose, ForNext}, BodyForAwait(s) PROVE Inv'
  <2>1. s \in 0 .. 7 /\ s # YieldOperation /\ (s <= YieldEnd) = FALSE
    BY DEF YieldOperation, YieldEnd, YieldClose, ForClose, ForNext
  <2>2. Suspend /\ doAwait' = TRUE /\ delegate' = FALSE /\ state' = s
    BY <1>2, <1>4, <2>1, OrZero DEF BodyForAwait, Suspend
  <2> QED BY <2>1, <2>2, SuspendInv
<1> QED BY <1>1, <1>3, <1>4

\* The body ends: the generator is finalized.
LEMMA BodyEndsInv == ASSUME Inv, BodyEnds PROVE Inv'
<1>1. "body" \in Places \ {"create"} /\ At("body")
  BY DEF BodyEnds, Places
<1>2. /\ Doing = "body" /\ Below = <<>> /\ jobs = <<>> /\ Len(jobs) = 0 /\ waiting = 0
      /\ tasks # <<>> /\ completed = FALSE /\ called = TRUE
  BY <1>1, InCall
<1>3. doAwait = FALSE /\ delegate = FALSE /\ state = 0
  BY <1>2 DEF Inv, TypeOK, FlagsOK, StatesOK
<1>4. CallsOK' /\ Doing' = "finalize" /\ calls' \in Seq(Frame)
  BY <1>2, Entered DEF BodyEnds, Goto, Places
<1>5. promise' \in [Requests -> {"none", "pending", "settled"}]
  BY <1>2, SettleFirst DEF BodyEnds
<1>6. /\ completed' = TRUE /\ running' = FALSE
      /\ UNCHANGED <<called, stateVars, tasks, jobs, waiting, awaits>>
  BY DEF BodyEnds, awaitVars
<1>7. TypeOK'
  <2>1. completed' \in BOOLEAN /\ running' \in BOOLEAN
    BY <1>6, Zenon
  <2> QED BY <1>4, <1>5, <1>6, <2>1 DEF Inv, TypeOK, stateVars
<1>8. Single'
  BY <1>2, <1>4, <1>6 DEF Single
<1>9. FlagsOK'
  BY <1>2, <1>3, <1>4, <1>6 DEF FlagsOK, stateVars
<1>10. StatesOK'
  <2>1. doAwait' = FALSE /\ delegate' = FALSE /\ state' = 0 /\ Len(jobs') = 0 /\ waiting' = 0
    BY <1>2, <1>3, <1>6 DEF stateVars
  <2> QED BY <1>4, <2>1 DEF StatesOK, Operations
<1>11. TakenOK'
  BY <1>6 DEF TakenOK
<1> QED BY <1>4, <1>7, <1>8, <1>9, <1>10, <1>11 DEF Inv

\* One task more is answered.
LEMMA FinalizeInv == ASSUME Inv, Finalize PROVE Inv'
<1>1. "finalize" \in Places \ {"create"} /\ At("finalize")
  BY DEF Finalize, Places
<1>2. /\ Doing = "finalize" /\ Below = <<>> /\ jobs = <<>> /\ Len(jobs) = 0 /\ waiting = 0
      /\ tasks # <<>> /\ called = TRUE
  BY <1>1, InCall
<1>3. completed = TRUE /\ running = FALSE
  BY <1>2 DEF Inv, TypeOK, FlagsOK
<1>4. PICK n \in Nat : n = Len(tasks) /\ n > 0
  BY <1>2, EmptyLen DEF Inv, TypeOK
<1>5. tasks' \in Seq(Task) /\ (tasks' = <<>> <=> n = 1) /\ tasks' = Tail(tasks)
  BY <1>2, <1>4, TailProperties DEF Finalize, Inv, TypeOK
<1>6. promise' \in [Requests -> {"none", "pending", "settled"}]
  <2>1. CASE Tail(tasks) # <<>>
    <3>1. tasks[2] \in Task
      BY <1>4, <1>5, <2>1, ElementOfSeq DEF Inv, TypeOK
    <3> QED BY <2>1, <3>1 DEF Finalize, Settle, Inv, TypeOK, Task
  <2>2. CASE Tail(tasks) = <<>>
    BY <2>2 DEF Finalize, Inv, TypeOK
  <2> QED BY <2>1, <2>2
<1>7. /\ CallsOK' /\ calls' \in Seq(Frame)
      /\ Doing' = IF tasks' = <<>> THEN "none" ELSE "finalize"
  <2>1. CASE tasks' = <<>>
    <3>1. calls' = <<>>
      BY <1>2, <1>5, <2>1 DEF Finalize
    <3> QED BY <2>1, <3>1, Left
  <2>2. CASE tasks' # <<>>
    <3>1. calls' = calls /\ completed' = completed
      BY <1>5, <2>2 DEF Finalize, flagVars
    <3> QED BY <1>2, <2>2, <3>1 DEF Inv, TypeOK, CallsOK, Doing
  <2> QED BY <2>1, <2>2
<1>8. UNCHANGED <<flagVars, stateVars, jobs, waiting, awaits>>
  BY DEF Finalize, awaitVars
<1>9. TypeOK'
  BY <1>5, <1>6, <1>7, <1>8 DEF Inv, TypeOK, flagVars, stateVars
<1>10. Single'
  BY <1>2, <1>7, <1>8 DEF Single
<1>11. FlagsOK'
  BY <1>2, <1>3, <1>7, <1>8 DEF Inv, FlagsOK, flagVars, stateVars
<1>12. StatesOK'
  <2>1. doAwait => state = YieldOperation
    BY <1>2, <1>3 DEF Inv, FlagsOK, StatesOK
  <2> QED BY <1>2, <1>7, <1>8, <2>1 DEF Inv, StatesOK, stateVars, Operations
<1>13. TakenOK'
  BY <1>3, <1>8 DEF TakenOK, flagVars
<1> QED BY <1>7, <1>9, <1>10, <1>11, <1>12, <1>13 DEF Inv

\* An awaited promise is settled.
LEMMA AwaitSettlesInv == ASSUME Inv, AwaitSettles PROVE Inv'
<1>1. PICK n \in Nat : n = Len(jobs) /\ (jobs = <<>> <=> n = 0)
  BY EmptyLen DEF Inv, TypeOK
<1>2. Doing = "none" /\ n = 0 /\ jobs = <<>> /\ waiting = 1 /\ tasks # <<>>
  BY <1>1 DEF Inv, TypeOK, Single, AwaitSettles
<1>3. PICK r \in {"fulfilled", "rejected"} : jobs' = Append(jobs, r)
  BY DEF AwaitSettles
<1>4. jobs' \in Seq(Job) /\ Len(jobs') = 1 /\ jobs'[1] = r
  BY <1>2, <1>3, OneElement DEF Job
<1>5. /\ UNCHANGED <<flagVars, stateVars, tasks, promise, awaits, calls>> /\ waiting' = 0
      /\ Doing' = Doing
  BY <1>2 DEF AwaitSettles, Doing
<1>6. TypeOK'
  BY <1>4, <1>5 DEF Inv, TypeOK, flagVars, stateVars
<1>7. CallsOK' /\ FlagsOK'
  BY <1>5 DEF Inv, CallsOK, FlagsOK, flagVars, stateVars
<1>8. Single'
  BY <1>2, <1>4, <1>5 DEF Single
<1>9. StatesOK'
  <2>1. state # YieldOperation
    BY <1>2 DEF Inv, StatesOK
  <2>2. \A i \in 1 .. Len(jobs') : jobs'[i] # "generator"
    BY <1>4
  <2> QED BY <1>2, <1>5, <2>1, <2>2 DEF Inv, StatesOK, stateVars, Operations
<1>10. TakenOK'
  <2>1. ToRun = FALSE /\ ToRun' = FALSE
    BY <1>1, <1>2, <1>4, <1>5 DEF ToRun, Operations
  <2> QED BY <1>5, <2>1 DEF Inv, TakenOK, flagVars
<1> QED BY <1>6, <1>7, <1>8, <1>9, <1>10 DEF Inv

\* The first task is run by a job.
LEMMA GeneratorJobInv == ASSUME Inv, GeneratorJob PROVE Inv'
<1>1. "generator" \in Job /\ NextJob("generator")
  BY DEF GeneratorJob, Job
<1>2. /\ Len(jobs) = 1 /\ jobs[1] = "generator" /\ jobs' = <<>> /\ waiting' = 0
      /\ tasks # <<>> /\ called = TRUE /\ completed = FALSE /\ running = FALSE
      /\ ToRun /\ UNCHANGED <<completed, called, awaits>>
  BY <1>1, InJob
<1>3. Run(<<>>, tasks) /\ UNCHANGED <<stateVars, promise>>
  BY DEF GeneratorJob
<1>4. Kept
  BY <1>2, <1>3 DEF Kept, Inv, TypeOK
<1>5. CASE doAwait
  <2>1. state = YieldOperation /\ delegate = TRUE /\ doAwait = TRUE
    BY <1>2, <1>5 DEF Inv, TypeOK, StatesOK, YieldOperation, YieldEnd, YieldClose
  <2>2. calls' = Enter(<<>>, tasks[1].op) /\ tasks' = tasks /\ running' = running
    BY <1>3, <1>5 DEF Run
  <2>3. tasks[1].op \in Operations
    BY <1>2, FirstTask DEF Inv
  <2>4. \A i \in 1 .. Len(tasks') : ~tasks'[i].taken
    BY <1>2, <2>2 DEF Inv, TakenOK
  <2>5. doAwait' = TRUE /\ state' = YieldOperation /\ delegate' = TRUE
    BY <1>3, <2>1 DEF stateVars
  <2>6. delegate' \in BOOLEAN
    BY <2>5, Zenon
  <2>7. state' \in 0 .. 7 /\ state' <= YieldEnd
    BY <2>5 DEF YieldOperation, YieldEnd, YieldClose
  <2>8. tasks' \in Seq(Task) /\ tasks' # <<>>
    BY <1>2, <2>2 DEF Inv, TypeOK
  <2>9. ~(tasks[1].op \in {"operation", "result", "value", "close", "forNext"})
    BY <2>3 DEF Operations
  <2> QED BY <1>2, <1>4, <2>2, <2>3, <2>4, <2>5, <2>6, <2>7, <2>8, <2>9, Consults
<1>6. CASE ~doAwait
  <2>1. doAwait' = FALSE /\ delegate' = FALSE /\ state' = 0
    BY <1>3, <1>6 DEF Inv, TypeOK, StatesOK, stateVars
  <2>2. Resume(<<>>) /\ tasks' = Taken
    BY <1>3, <1>6 DEF Run, Taken
  <2>3. tasks' \in Seq(Task) /\ tasks' # <<>> /\ FirstTaken(tasks')
    BY <1>2, <2>2, TasksTaken
  <2>4. called' = TRUE /\ awaits' \in Nat /\ promise' = promise
    BY <1>2, <1>3 DEF Inv, TypeOK
  <2> QED BY <1>2, <2>1, <2>2, <2>3, <2>4, Resumes
<1> QED BY <1>5, <1>6

\* What the jobs of awaited promises find.
LEMMA InReaction ==
  ASSUME Inv, NEW r \in {"fulfilled", "rejected"}, NextJob(r)
  PROVE  /\ jobs' = <<>> /\ waiting' = 0
         /\ tasks # <<>> /\ tasks \in Seq(Task) /\ FirstTaken(tasks)
         /\ called = TRUE /\ called' = TRUE
         /\ completed = FALSE /\ completed' = completed
         /\ running = FALSE /\ awaits' \in Nat
         /\ doAwait => state # YieldOperation
<1>1. r \in Job /\ r # "generator"
  BY DEF Job
<1>2. /\ Len(jobs) = 1 /\ jobs[1] = r /\ jobs' = <<>> /\ waiting' = 0
      /\ tasks # <<>> /\ called = TRUE /\ completed = FALSE /\ running = FALSE
      /\ ~ToRun /\ UNCHANGED <<completed, called, awaits>>
  BY <1>1, InJob
<1>3. FirstTaken(tasks)
  BY <1>2, TasksTaken
<1>4. doAwait => state # YieldOperation
  BY <1>1, <1>2 DEF Inv, StatesOK
<1> QED BY <1>2, <1>3, <1>4 DEF Inv, TypeOK

\* The end of a yield* or of a step of a for-await-of leaves no state.
LEMMA EndsDelegation ==
  ASSUME Inv, EndDelegation(<<>>), doAwait
  PROVE  doAwait' = FALSE /\ delegate' = FALSE /\ state' = 0 /\ Resume(<<>>)
  BY DEF EndDelegation, ClearState, Inv, TypeOK, StatesOK

LEMMA AwaitJobInv == ASSUME Inv, AwaitJob PROVE Inv'
<1>1. PICK r \in {"fulfilled", "rejected"} : NextJob(r)
  BY DEF AwaitJob
<1>2. doAwait' = FALSE /\ delegate' = FALSE /\ state' = 0
  BY DEF AwaitJob, stateVars, Inv, TypeOK, StatesOK
<1> QED BY <1>1, <1>2, InReaction, Resumes DEF AwaitJob

LEMMA RejectedJobInv == ASSUME Inv, RejectedJob PROVE Inv'
<1> DEFINE r == "rejected"
<1>1. r \in {"fulfilled", "rejected"} /\ NextJob(r) /\ doAwait
  BY DEF RejectedJob
<1> HIDE DEF r
<1>2. UNCHANGED <<tasks, promise>>
  BY DEF RejectedJob
<1>3. CASE state = YieldReturn
  <2>1. /\ state' = Xor(YieldReturn, Xor(YieldReturn, YieldOperation))
        /\ calls' = Enter(<<>>, "operation")
        /\ UNCHANGED <<doAwait, delegate, running>>
    BY <1>3 DEF RejectedJob, ChangeState
  <2>2. state' = YieldOperation
    BY <2>1, XorChange DEF YieldReturn, YieldOperation
  <2>3. doAwait' = TRUE /\ delegate' = TRUE
    BY <1>1, <1>3, <2>1 DEF Inv, TypeOK, StatesOK, YieldReturn, YieldEnd, YieldClose
  <2>4. delegate' \in BOOLEAN
    BY <2>3, Zenon
  <2>5. state' \in 0 .. 7 /\ state' <= YieldEnd
    BY <2>2 DEF YieldOperation, YieldEnd, YieldClose
  <2>6. "operation" \notin Operations
    BY DEF Operations
  <2> QED BY <1>1, <1>2, <2>1, <2>2, <2>3, <2>4, <2>5, <2>6, InReaction, Consults DEF Kept
<1>4. CASE state # YieldReturn
  <2>1. EndDelegation(<<>>)
    BY <1>4 DEF RejectedJob
  <2> QED BY <1>1, <1>2, <2>1, EndsDelegation, InReaction, Resumes
<1> QED BY <1>3, <1>4

LEMMA ContinueJobInv == ASSUME Inv, ContinueJob PROVE Inv'
<1> DEFINE r == "fulfilled"
<1>1. r \in {"fulfilled", "rejected"} /\ NextJob(r) /\ doAwait
  BY DEF ContinueJob
<1> HIDE DEF r
<1>2. /\ UNCHANGED <<running, stateVars, tasks, promise>>
      /\ calls' = Enter(<<>>, Place[state])
      /\ state \in {YieldNext, YieldNextReturn, YieldReturn, ForNext}
  BY <1>1, InReaction DEF ContinueJob, Place
<1>3. /\ state \in {YieldNext, YieldNextReturn} => Place[state] = "result"
      /\ state = YieldReturn => Place[state] = "close"
      /\ state = ForNext => Place[state] = "forNext"
  BY DEF Place, YieldNext, YieldNextReturn, YieldReturn, YieldOperation, ForNext
<1>4. doAwait' = TRUE /\ state' = state /\ delegate' = delegate
  BY <1>1, <1>2 DEF stateVars, Inv, TypeOK
<1>5. state \in 0 .. 7 /\ delegate \in BOOLEAN /\ (delegate <=> state <= YieldEnd)
  BY <1>1 DEF Inv, TypeOK, StatesOK
<1> DEFINE p == Place[state]
<1>6. /\ p \in {"result", "close", "forNext"} /\ p \notin Operations
      /\ p = "result" => state \in {YieldNext, YieldNextReturn}
      /\ p = "close" => state = YieldReturn
      /\ p = "forNext" => state = ForNext
  BY <1>2, <1>3 DEF Operations
<1> HIDE DEF p
<1> QED BY <1>1, <1>2, <1>4, <1>5, <1>6, InReaction, Consults DEF Kept, p

LEMMA YieldValueJobInv == ASSUME Inv, YieldValueJob PROVE Inv'
<1> DEFINE r == "fulfilled"
<1>1. r \in {"fulfilled", "rejected"} /\ NextJob(r) /\ doAwait /\ state = YieldNextValue
  BY DEF YieldValueJob
<1> HIDE DEF r
<1>2. state' = YieldOperation
  BY XorChange DEF YieldValueJob, ChangeState, YieldNextValue, YieldOperation
<1>3. Yield(<<>>) /\ UNCHANGED <<running, doAwait, delegate, tasks>>
  BY DEF YieldValueJob
<1>4. (delegate <=> doAwait) /\ state' = IF doAwait THEN YieldOperation ELSE 0
  BY <1>1, <1>2 DEF Inv, StatesOK, YieldNextValue, YieldEnd, YieldClose
<1>5. UNCHANGED <<completed, called, awaits>>
  BY <1>1 DEF NextJob
<1> QED BY <1>1, <1>3, <1>4, <1>5, InReaction, YieldInv

LEMMA ClosedJobInv == ASSUME Inv, ClosedJob PROVE Inv'
<1> DEFINE r == "fulfilled"
<1>1. r \in {"fulfilled", "rejected"} /\ NextJob(r) /\ doAwait
  BY DEF ClosedJob
<1> HIDE DEF r
<1>2. UNCHANGED <<tasks, promise>> /\ EndDelegation(<<>>)
  BY DEF ClosedJob
<1> QED BY <1>1, <1>2, EndsDelegation, InReaction, Resumes

\* What the calls of ecma_await_continue find.
LEMMA InContinue ==
  ASSUME Inv, NEW p \in {"result", "value", "close", "operation", "forNext"}, At(p)
  PROVE  /\ Doing = p /\ Below = <<>> /\ Top.at = p
         /\ jobs = <<>> /\ waiting = 0
         /\ tasks # <<>> /\ tasks \in Seq(Task) /\ FirstTaken(tasks)
         /\ called = TRUE /\ completed = FALSE /\ running = FALSE
         /\ doAwait = TRUE
         /\ p = "value" => state = YieldNextValue
         /\ p = "close" => state = YieldReturn
         /\ p = "operation" => state = YieldOperation
<1>1. p \in Places \ {"create"} /\ p \notin Operations \cup {"body", "yield", "finalize"}
  BY DEF Places, Operations
<1>2. /\ Doing = p /\ Below = <<>> /\ Top.at = p
      /\ jobs = <<>> /\ Len(jobs) = 0 /\ waiting = 0 /\ tasks # <<>>
      /\ called = TRUE /\ completed = FALSE
  BY <1>1, InCall
<1>3. FirstTaken(tasks)
  <2>1. ~ToRun
    BY <1>1, <1>2 DEF ToRun
  <2> QED BY <1>2, <2>1, TasksTaken
<1>4. running = FALSE
  BY <1>1, <1>2 DEF Inv, TypeOK, FlagsOK
<1>5. /\ doAwait = TRUE
      /\ p = "value" => state = YieldNextValue
      /\ p = "close" => state = YieldReturn
      /\ p = "operation" => state = YieldOperation
  BY <1>2 DEF Inv, TypeOK, StatesOK
<1> QED BY <1>2, <1>3, <1>4, <1>5 DEF Inv, TypeOK

LEMMA ResultNotDoneInv == ASSUME Inv, ResultNotDone PROVE Inv'
<1> DEFINE p == "result"
<1>1. p \in {"result", "value", "close", "operation", "forNext"} /\ At(p)
  BY DEF ResultNotDone
<1> HIDE DEF p
<1>2. /\ Below = <<>> /\ jobs = <<>> /\ waiting = 0
      /\ tasks # <<>> /\ tasks \in Seq(Task) /\ FirstTaken(tasks)
      /\ called = TRUE /\ completed = FALSE /\ running = FALSE /\ doAwait = TRUE
      /\ Doing = p
  BY <1>1, InContinue
<1>3. delegate = TRUE
  BY <1>2 DEF p, Inv, TypeOK, StatesOK, YieldNext, YieldNextReturn, YieldEnd, YieldClose
<1> DEFINE q == "value"
<1>4. /\ q \in Operations \cup {"result", "value", "close", "operation", "forNext"}
      /\ q \notin Operations /\ q = "value"
  BY DEF Operations
<1> HIDE DEF q
<1>5. /\ state' = YieldNextValue /\ calls' = Enter(<<>>, q)
      /\ UNCHANGED <<flagVars, doAwait, delegate, tasks, promise, jobs, waiting, awaits>>
  BY <1>2 DEF ResultNotDone, Goto, awaitVars, q
<1>6. delegate' = TRUE /\ delegate' \in BOOLEAN /\ doAwait' = TRUE
  BY <1>2, <1>3, <1>5, Zenon DEF Inv, TypeOK
<1>7. state' \in 0 .. 7 /\ state' <= YieldEnd
  BY <1>5 DEF YieldNextValue, YieldEnd, YieldClose
<1>8. Kept /\ running' = running
  BY <1>5 DEF Kept, flagVars, Inv, TypeOK
<1> QED BY <1>2, <1>4, <1>5, <1>6, <1>7, <1>8, Consults

LEMMA ContinueAwaitsInv == ASSUME Inv, ContinueAwaits PROVE Inv'
<1>1. PICK p \in {"value", "close", "operation"} : At(p)
  BY DEF ContinueAwaits
<1>2. /\ Below = <<>> /\ Top.at = p /\ jobs = <<>> /\ waiting = 0
      /\ tasks # <<>> /\ tasks \in Seq(Task) /\ FirstTaken(tasks)
      /\ called = TRUE /\ completed = FALSE /\ running = FALSE /\ doAwait = TRUE
      /\ p = "value" => state = YieldNextValue
      /\ p = "close" => state = YieldReturn
      /\ p = "operation" => state = YieldOperation
  BY <1>1, InContinue
<1>3. delegate = TRUE
  BY <1>1, <1>2 DEF Inv, TypeOK, StatesOK, YieldNextValue, YieldReturn, YieldOperation,
                    YieldEnd, YieldClose
<1>4. PICK to \in {YieldNextValue, YieldNextReturn, YieldNext, YieldClose} :
        state' = Xor(state, Xor(state, to))
  <2>1. CASE p = "value"
    BY <1>2, <2>1 DEF ContinueAwaits, Awaited, ChangeState
  <2>2. CASE p = "close"
    BY <1>2, <2>2 DEF ContinueAwaits, Awaited, ChangeState
  <2>3. CASE p = "operation"
    BY <1>2, <2>3 DEF ContinueAwaits, Awaited, ChangeState
  <2> QED BY <2>1, <2>2, <2>3
<1>5. state' = to
  BY <1>4, XorChange DEF Inv, TypeOK, YieldNextValue, YieldNextReturn, YieldNext, YieldClose
<1>6. state' \in 0 .. 7 /\ state' <= YieldEnd /\ state' # YieldOperation
  BY <1>5 DEF YieldNextValue, YieldNextReturn, YieldNext, YieldClose, YieldEnd, YieldOperation
<1>7. /\ Kept /\ Await /\ calls' = <<>> /\ running' = FALSE
      /\ doAwait' = TRUE /\ delegate' = TRUE /\ tasks' = tasks
  BY <1>2, <1>3 DEF ContinueAwaits, Kept, flagVars, Inv, TypeOK
<1>8. doAwait' \in BOOLEAN /\ delegate' \in BOOLEAN
  BY <1>7, Zenon
<1> QED BY <1>2, <1>6, <1>7, <1>8, Waits

LEMMA ContinueResumesInv == ASSUME Inv, ContinueResumes PROVE Inv'
<1>1. PICK p \in {"result", "value", "close", "operation", "forNext"} : At(p)
  BY DEF ContinueResumes
<1>2. /\ Below = <<>> /\ jobs = <<>> /\ waiting = 0
      /\ tasks # <<>> /\ tasks \in Seq(Task) /\ FirstTaken(tasks)
      /\ called = TRUE /\ completed = FALSE /\ doAwait = TRUE
  BY <1>1, InContinue
<1>3. EndDelegation(<<>>) /\ UNCHANGED <<completed, called, tasks, promise, jobs, waiting, awaits>>
  BY <1>2 DEF ContinueResumes, awaitVars
<1>4. awaits' \in Nat
  BY <1>3 DEF Inv, TypeOK
<1> QED BY <1>2, <1>3, <1>4, EndsDelegation, Resumes

LEMMA NextInv == ASSUME ~CreateCallbacks, Inv, [Next]_vars PROVE Inv'
<1>1. CASE Program
  BY <1>1, RequestInv DEF Program
<1>2. CASE Body
  BY <1>2, BodyYieldsInv, BodySuspendsInv, BodyEndsInv DEF Body
<1>3. CASE Engine
  BY <1>3, EnqueueInv, RunDelegatesInv, RunThrowsInv, YieldReturnsInv, FinalizeInv,
     GeneratorJobInv, AwaitJobInv, RejectedJobInv, ContinueJobInv, YieldValueJobInv,
     ClosedJobInv, ResultNotDoneInv, ContinueAwaitsInv, ContinueResumesInv DEF Engine
<1>4. CASE AwaitSettles
  BY <1>4, AwaitSettlesInv
<1>5. CASE UNCHANGED vars
  <2>1. Doing' = Doing /\ ToRun' = ToRun
    BY <1>5 DEF vars, awaitVars, Doing, ToRun
  <2> QED BY <1>5, <2>1 DEF vars, flagVars, stateVars, awaitVars, Inv, TypeOK, CallsOK,
                            Single, FlagsOK, StatesOK, TakenOK
<1> QED BY <1>1, <1>2, <1>3, <1>4, <1>5 DEF Next

-----------------------------------------------------------------------------
\* The invariant of a generator, if the host's callback for created promises leaves
\* the generator alone.
THEOREM GeneratorInvariant == ASSUME ~CreateCallbacks PROVE Spec => []Inv
<1>1. Init => Inv
  BY InitInv
<1>2. Inv /\ [Next]_vars => Inv'
  BY NextInv
<1> QED BY <1>1, <1>2, PTL DEF Spec

\* For any number of requests, however they arrive while the body runs, is suspended
\* or delegates, the first task has exactly one continuation.
THEOREM GeneratorContinues == ASSUME ~CreateCallbacks PROVE Spec => []OneContinuation
<1>1. Inv => OneContinuation
  <2> SUFFICES ASSUME Inv PROVE OneContinuation
    OBVIOUS
  <2>1. PICK n \in Nat : n = Len(calls) /\ (calls = <<>> <=> n = 0) /\ DOMAIN calls = 1 .. n
    BY EmptyLen, LenProperties DEF Inv, TypeOK
  <2>2. Cardinality(Working) = IF Doing = "none" THEN 0 ELSE 1
    <3>1. CASE Doing = "none"
      <4>1. \A i \in 1 .. n : calls[i].at = "create"
        <5>1. n # 0 => calls[1].at = "create"
          <6>1. n # 0 => calls[1] \in Frame
            BY <2>1, ElementOfSeq DEF Inv, TypeOK
          <6>2. n # 0 => calls[1].at # "none"
            BY <6>1 DEF Frame, Places, Operations
          <6> QED BY <2>1, <3>1, <6>2 DEF Doing
        <5> QED BY <2>1, <5>1 DEF Inv, CallsOK
      <4>2. Working = {}
        BY <2>1, <4>1 DEF Working
      <4> QED BY <3>1, <4>2, FS_EmptySet
    <3>2. CASE Doing # "none"
      <4>1. n # 0 /\ calls[1].at # "create"
        BY <2>1, <3>2 DEF Doing
      <4>2. Working = {1}
        BY <2>1, <4>1 DEF Working, Inv, CallsOK
      <4> QED BY <3>2, <4>2, FS_Singleton
    <3> QED BY <3>1, <3>2
  <2> QED BY <2>2 DEF Inv, Single, FlagsOK, OneContinuation
<1> QED BY <1>1, GeneratorInvariant, PTL

\* For any number of requests the state bits say what the generator waits for, so
\* that every change of them by an exclusive or finds the state it expects.
THEOREM GeneratorStates == ASSUME ~CreateCallbacks PROVE Spec => []AwaitStates
<1>1. Inv => AwaitStates
  <2> SUFFICES ASSUME Inv PROVE AwaitStates
    OBVIOUS
  <2>1. DOMAIN jobs = 1 .. Len(jobs) /\ DOMAIN tasks = 1 .. Len(tasks)
    BY LenProperties DEF Inv, TypeOK
  <2>2. /\ doAwait \/ state = 0
        /\ delegate <=> doAwait /\ state <= YieldEnd
        /\ running => ~doAwait
        /\ \A i \in DOMAIN jobs : doAwait => (jobs[i] = "generator" <=> state = YieldOperation)
        /\ waiting > 0 => state # YieldOperation
    BY <2>1 DEF Inv, StatesOK, FlagsOK
  <2>3. /\ \A op \in Operations : At(op) => doAwait /\ state = YieldOperation
        /\ At("close") => state = YieldReturn
        /\ At("operation") => state = YieldOperation
    <3>1. \A p \in Operations \cup {"close", "operation"} : At(p) => Doing = p
      <4>1. Operations \cup {"close", "operation"} \subseteq Places \ {"create"}
        BY DEF Places, Operations
      <4> QED BY <4>1, AtWork DEF Inv
    <3> QED BY <3>1 DEF Inv, StatesOK
  <2>4. (\A c \in Working : calls[c].at \notin Operations) <=> Doing \notin Operations
    <3>1. PICK n \in Nat : n = Len(calls) /\ (calls = <<>> <=> n = 0) /\ DOMAIN calls = 1 .. n
      BY EmptyLen, LenProperties DEF Inv, TypeOK
    <3>2. Working \subseteq {1}
      BY <3>1 DEF Working, Inv, CallsOK
    <3>3. CASE Working = {}
      <4>1. Doing = "none"
        BY <3>1, <3>3 DEF Working, Doing
      <4> QED BY <3>3, <4>1 DEF Operations
    <3>4. CASE Working # {}
      <4>1. 1 \in Working /\ Doing = calls[1].at
        BY <3>1, <3>2, <3>4 DEF Working, Doing
      <4> QED BY <3>2, <4>1
    <3> QED BY <3>3, <3>4
  <2>5. ~completed => \A i \in DOMAIN tasks :
          tasks[i].taken <=>
            /\ i = 1
            /\ \A j \in DOMAIN jobs : jobs[j] # "generator"
            /\ \A c \in Working : calls[c].at \notin Operations
    BY <2>1, <2>4 DEF Inv, TakenOK, ToRun
  <2> QED BY <2>2, <2>3, <2>5 DEF AwaitStates
<1> QED BY <1>1, GeneratorInvariant, PTL
=============================================================================
