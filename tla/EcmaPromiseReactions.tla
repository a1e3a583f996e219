------------------------ MODULE EcmaPromiseReactions ------------------------
(***************************************************************************)
(* The buffer in which a pending promise keeps its reactions               *)
(* (ecma_promise_object_t.reactions): the reactions of EcmaPromise as they *)
(* lie in memory.                                                          *)
(*                                                                         *)
(* A reaction is one slot with a tagged pointer and, as the tag says, up   *)
(* to two slots with handlers; nothing marks where a reaction begins.  Two *)
(* functions write the buffer and two loops read it: one queues the jobs   *)
(* when the promise is settled, the other marks what the buffer refers to  *)
(* in a collection.  A reader that is off by one slot takes a handler for  *)
(* a tagged pointer.                                                       *)
(***************************************************************************)
EXTENDS EcmaPromise
LOCAL INSTANCE SequencesExt

\* A slot: a pointer to the capability or the function of reaction id, with its
\* tag bits, or a handler.
Tagged(r, tag) == [id |-> r.id, to |-> r.to, tag |-> tag]
Handler(h) == [id |-> 0, to |-> h, tag |-> {}]

-----------------------------------------------------------------------------
(***************************************************************************)
(* The writers.                                                            *)
(***************************************************************************)

\* ecma_promise_do_then: a default handler takes no slot.
DoThenSlots(r) ==
  LET hasFulfilled == r.onFulfilled # "identity"
      hasRejected == r.onRejected # "thrower"
      tag == (IF hasFulfilled THEN {"first"} ELSE {})
               \cup (IF hasRejected THEN {"second"} ELSE {})
  IN <<Tagged(r, tag)>>
       \o (IF hasFulfilled THEN <<Handler(r.onFulfilled)>> ELSE <<>>)
       \o (IF hasRejected THEN <<Handler(r.onRejected)>> ELSE <<>>)

\* ecma_promise_async_then.
AsyncThenSlots(r) == <<Tagged(r, {"third"})>>

Slots(r) == IF r.onFulfilled = "resume" THEN AsyncThenSlots(r) ELSE DoThenSlots(r)

\* The slots of the collection: each reaction is appended, and the settlement makes
\* a new collection.
Buffer(p) == FoldLeft(LAMBDA b, r : b \o Slots(r), <<>>, reactions[p])

-----------------------------------------------------------------------------
(***************************************************************************)
(* The readers, loops with a position in the buffer b.                     *)
(***************************************************************************)

Has(b, i, bit) == bit \in b[i].tag
Width(b, i, bit) == IF Has(b, i, bit) THEN 1 ELSE 0

\* Faulty variant of PastFulfilled: a rejection does not skip the other handler.
PastFulfilledNoSkip(b, i, s) == i + 1 + IF s = "fulfilled" THEN Width(b, i, "first") ELSE 0

\* The position after the handler for fulfilment, which is read or skipped.
PastFulfilled(b, i, s) == i + 1 + Width(b, i, "first")

\* The handler of the job: the default is ECMA_VALUE_TRUE or ECMA_VALUE_FALSE, and
\* an async reaction job gets the outcome itself.
HandlerAt(b, i, s) ==
  CASE Has(b, i, "third") /\ s = "fulfilled" -> "resume"
    [] Has(b, i, "third") /\ s = "rejected" -> "resume_throw"
    [] ~Has(b, i, "third") /\ s = "fulfilled" ->
         IF Has(b, i, "first") THEN b[i + 1].to ELSE "identity"
    [] ~Has(b, i, "third") /\ s = "rejected" ->
         IF Has(b, i, "second") THEN b[PastFulfilled(b, i, s)].to ELSE "thrower"

\* ecma_promise_trigger_reactions: the jobs, in the order they are queued.
TriggerReactions(b, s, v) ==
  LET jobs[i \in 1..(Len(b) + 3)] ==
        IF i > Len(b) THEN <<>>
        ELSE <<[id |-> b[i].id, to |-> b[i].to, v |-> v, handler |-> HandlerAt(b, i, s)]>>
               \o jobs[IF Has(b, i, "third") THEN i + 1
                       ELSE PastFulfilled(b, i, s) + Width(b, i, "second")]
  IN jobs[1]

\* ecma_gc_mark_promise_object: the objects that are marked.  This loop does not
\* look at the third bit.
MarkReactions(b) ==
  LET marked[i \in 1..(Len(b) + 3)] ==
        IF i > Len(b) THEN {}
        ELSE LET next == i + 1 + Width(b, i, "first") + Width(b, i, "second")
             IN {<<b[j].id, b[j].to>> : j \in i..(next - 1)} \cup marked[next]
  IN marked[1]

-----------------------------------------------------------------------------
\* However the reactions of a promise follow one another, with one, both or no
\* handler and of async functions, the loop that queues their jobs finds each with
\* its capability and the handler for the way the promise is settled, in order, and
\* the loop of the collector marks the capabilities and handlers and nothing else.
ReactionsDecoded ==
  \A p \in Promise :
    LET rs == reactions[p]
        handlers == {rs[i].onFulfilled : i \in DOMAIN rs}
                      \cup {rs[i].onRejected : i \in DOMAIN rs}
    IN /\ \A s \in {"fulfilled", "rejected"}, v \in Plain :
            TriggerReactions(Buffer(p), s, v) = [i \in DOMAIN rs |-> Job(rs[i], s, v)]
       /\ MarkReactions(Buffer(p))
            = {<<rs[i].id, rs[i].to>> : i \in DOMAIN rs}
                \cup {<<0, h>> : h \in handlers \ {"identity", "thrower",
                                                   "resume", "resume_throw"}}
=============================================================================
