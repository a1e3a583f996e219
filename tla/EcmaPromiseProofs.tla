-------------------------- MODULE EcmaPromiseProofs --------------------------
(***************************************************************************)
(* Promises and their jobs, for any number of promises, reactions, nested  *)
(* calls and values.  The first half follows the reactions: each is in one *)
(* place, and runs once, in order and with the result of its promise.  The *)
(* second half follows the settlements: no promise is settled twice.       *)
(***************************************************************************)
EXTENDS EcmaPromise, FiniteSetTheorems, SequenceFacts, TLAPS

-----------------------------------------------------------------------------
(* Where reactions are.  The invariant is stated for any values of the     *)
(* variables: states st, results res, flags unh, waiting reactions rs, the *)
(* queue q, sources src and taken jobs rn.                                 *)

\* The reaction i is due: its promise is settled, or it was an await of a plain value.
Due(st, src, i) == src[i] = None \/ st[src[i]] # "pending"

\* Reactions wait at their pending promises, in the order they were added.
Waits(st, rs, src) ==
  \A p \in Promise :
    /\ Len(rs[p]) <= Len(src)
    /\ \A k \in 1 .. Len(rs[p]) : /\ rs[p][k].id \in 1 .. Len(src)
                                  /\ src[rs[p][k].id] = p
                                  /\ st[p] = "pending"

Increasing(rs) ==
  \A p \in Promise : \A j, k \in 1 .. Len(rs[p]) : j < k => rs[p][j].id < rs[p][k].id

\* The queue holds jobs of reactions that are due, with what their promises tell them,
Queued(st, q, src) ==
  \A k \in 1 .. Len(q) :
    /\ q[k].id = 0 <=> q[k].handler = "thenable"
    /\ q[k].id # 0 => q[k].id \in 1 .. Len(src) /\ Due(st, src, q[k].id)

Matches(st, res, q, src) ==
  \A k \in 1 .. Len(q) : q[k].id # 0 /\ src[q[k].id] # None =>
    /\ q[k].v = res[src[q[k].id]]
    /\ st[src[q[k].id]] = "fulfilled" => q[k].handler \notin {"thrower", "reject", "resume_throw"}
    /\ st[src[q[k].id]] = "rejected" => q[k].handler \notin {"identity", "resolve", "resume"}

\* each once, those of one promise in their order,
QueueOrder(q, src) ==
  \A j, k \in 1 .. Len(q) : j < k /\ q[j].id # 0 /\ q[k].id # 0 =>
    /\ q[j].id # q[k].id
    /\ src[q[j].id] = src[q[k].id] /\ src[q[j].id] # None => q[j].id < q[k].id

\* and after those that were taken.
Taken(st, src, rn) ==
  \A l \in 1 .. Len(rn) : rn[l] \in 1 .. Len(src) /\ Due(st, src, rn[l])

TakenOnce(rn) == \A l, m \in 1 .. Len(rn) : rn[l] = rn[m] => l = m

TakenFirst(q, src, rn) ==
  \A k \in 1 .. Len(q), l \in 1 .. Len(rn) : q[k].id # 0 =>
    /\ q[k].id # rn[l]
    /\ src[q[k].id] = src[rn[l]] /\ src[rn[l]] # None => rn[l] < q[k].id

Ordered(src, rn) ==
  \A l \in 1 .. Len(rn) : \A i \in 1 .. rn[l] - 1 :
    src[i] = src[rn[l]] /\ src[i] # None => \E k \in 1 .. l - 1 : rn[k] = i

\* Nothing is lost.
Kept(rs, q, src, rn) ==
  \A i \in 1 .. Len(src) :
    \/ \E p \in Promise : \E k \in 1 .. Len(rs[p]) : rs[p][k].id = i
    \/ \E k \in 1 .. Len(q) : q[k].id = i
    \/ \E l \in 1 .. Len(rn) : rn[l] = i

Exact(st, unh, src) ==
  \A p \in Promise :
    unh[p] <=> st[p] = "rejected" /\ \A i \in 1 .. Len(src) : src[i] # p

Places(st, res, unh, rs, q, src, rn) ==
  /\ Waits(st, rs, src) /\ Increasing(rs)
  /\ Queued(st, q, src) /\ Matches(st, res, q, src) /\ QueueOrder(q, src)
  /\ Taken(st, src, rn) /\ TakenOnce(rn) /\ TakenFirst(q, src, rn) /\ Ordered(src, rn)
  /\ Exact(st, unh, src)

\* What the types say about lengths and numbers.
Sizes(rs, q, src, rn) ==
  /\ Len(q) \in Nat /\ Len(src) \in Nat /\ Len(rn) \in Nat
  /\ \A p \in Promise : Len(rs[p]) \in Nat /\ \A k \in 1 .. Len(rs[p]) : rs[p][k].id \in Nat
  /\ \A k \in 1 .. Len(q) : q[k].id \in Nat
  /\ \A i \in 1 .. Len(src) : src[i] \in Promise \cup {None}
  /\ \A l \in 1 .. Len(rn) : rn[l] \in Nat

-----------------------------------------------------------------------------
(* The types.                                                              *)

\* What a call in progress works on: its promise and its value.
CallOK(fs, i) ==
  /\ fs[i].op \in Outcome => fs[i].p \in Promise /\ fs[i].v \in Values
  /\ fs[i].op = "executor" => fs[i].p \in Promise
  /\ fs[i].op \in {"body", "create"} => fs[i].p \in Promise \cup {None}
  /\ fs[i].op \in {"handler", "custom"} => i > 1 /\ fs[i - 1].op = "jobs"

CallsTyped(fs) == fs \in Seq(Calls) /\ \A i \in 1 .. Len(fs) : CallOK(fs, i)

\* What a job leads to, and the reaction it comes from.
JobOK(j) ==
  /\ j.handler \in {"thenable", "resolve", "reject"} => j.to \in Promise
  /\ j.handler = "thenable" => j.v \in Promise \cup Thenable
  /\ j.handler \in {"resume", "resume_throw"} => j.to \in Promise \cup {None}

ReactionOK(r) ==
  \/ r.onFulfilled = "resolve" /\ r.onRejected = "reject" /\ r.to \in Promise
  \/ r.onFulfilled = "resume" /\ r.onRejected = "resume_throw" /\ r.to \in Promise \cup {None}
  \/ r.onFulfilled \in {"identity", "user"} /\ r.onRejected \in {"thrower", "user"}

ReactionsTyped(rs) ==
  /\ rs \in [Promise -> Seq(Reaction)]
  /\ \A p \in Promise : \A k \in 1 .. Len(rs[p]) : ReactionOK(rs[p][k])

QueueTyped(q) == q \in Seq(Jobs) /\ \A k \in 1 .. Len(q) : JobOK(q[k])

HistoryTyped(src, rn) == src \in Seq(Promise \cup {None}) /\ rn \in Seq(Nat)

\* The states and the results of promises.
StatesTyped(st, res) ==
  /\ st \in [Promise -> {"pending", "fulfilled", "rejected"}]
  /\ res \in [Promise -> Values \cup {None}]
  /\ \A p \in Promise : st[p] # "pending" => res[p] \in Values

FlagsTyped(kd, al, unh) ==
  /\ kd \in [Promise -> {"unborn", "plain", "async", "orphan"}]
  /\ al \in [Promise -> BOOLEAN] /\ unh \in [Promise -> BOOLEAN]

PairsTyped(prs, hd) == prs \in [Promise -> Nat] /\ hd \in [Promise -> SUBSET Nat]

Phases == {"run", "cleanup", "assert"}

\* The types; what bounds the resolving functions comes later.
Typed ==
  /\ CallsTyped(frames) /\ QueueTyped(queue) /\ ReactionsTyped(reactions)
  /\ HistoryTyped(source, ran) /\ StatesTyped(state, result)
  /\ FlagsTyped(kind, already, unhandled) /\ PairsTyped(pairs, handed)
  /\ phase \in Phases

PlacesOK ==
  /\ Places(state, result, unhandled, reactions, queue, source, ran)
  /\ phase = "run" => Kept(reactions, queue, source, ran)

-----------------------------------------------------------------------------
(* Reactions: the ways the queue and the sets of reactions change.         *)

\* A reaction gets the next number: the source t is s with e at the end.
Extends(s, t, e) ==
  /\ Len(t) = Len(s) + 1
  /\ \A i \in 1 .. Len(s) : t[i] = s[i]
  /\ t[Len(s) + 1] = e

LEMMA ExtendsFacts ==
  ASSUME NEW s, NEW t, NEW e, NEW n \in Nat, Len(s) = n, Extends(s, t, e)
  PROVE  /\ Len(t) = n + 1 /\ t[n + 1] = e /\ n + 1 \in 1 .. n + 1
         /\ \A i \in 1 .. n : t[i] = s[i] /\ i \in 1 .. n + 1
         /\ \A i \in 1 .. n + 1 : i \in 1 .. n \/ i = n + 1
  BY DEF Extends

\* Jobs are compared by numbers; a job without a reaction changes nothing.
LEMMA QueueThenable ==
  ASSUME NEW st, NEW res, NEW unh, NEW rs, NEW q, NEW src, NEW rn,
         Places(st, res, unh, rs, q, src, rn), Sizes(rs, q, src, rn),
         NEW u, NEW j, Extends(q, u, j), j.id = 0, j.handler = "thenable"
  PROVE  /\ Places(st, res, unh, rs, u, src, rn)
         /\ Kept(rs, q, src, rn) => Kept(rs, u, src, rn)
<1>0. PICK n \in Nat : /\ n = Len(q) /\ Len(u) = n + 1 /\ \A k \in 1 .. n : u[k] = q[k]
                       /\ u[n + 1].id = 0 /\ u[n + 1].handler = "thenable"
  BY DEF Sizes, Extends
<1> USE <1>0
<1>1. \A k \in 1 .. n + 1 : k \in 1 .. n \/ k = n + 1
  OBVIOUS
<1>2. Queued(st, u, src)
  BY <1>1 DEF Places, Queued
<1>3. Matches(st, res, u, src)
  BY <1>1 DEF Places, Matches
<1>4. QueueOrder(u, src)
  BY <1>1 DEF Places, QueueOrder
<1>5. TakenFirst(u, src, rn)
  BY <1>1 DEF Places, TakenFirst
<1>6. Kept(rs, q, src, rn) => Kept(rs, u, src, rn)
  BY DEF Kept
<1> QED BY <1>2, <1>3, <1>4, <1>5, <1>6 DEF Places

\* The queue u is q without its first job, and x is rn with the reaction of that job.
Takes(q, rn, u, x) ==
  /\ Len(u) \in Nat /\ Len(q) = Len(u) + 1 /\ \A k \in 1 .. Len(u) : u[k] = q[k + 1]
  /\ IF q[1].id = 0 THEN x = rn ELSE Extends(rn, x, q[1].id)

\* The first job is taken, and its reaction recorded.
LEMMA TakeFirst ==
  ASSUME NEW st, NEW res, NEW unh, NEW rs, NEW q, NEW src, NEW rn,
         Places(st, res, unh, rs, q, src, rn), Sizes(rs, q, src, rn),
         Kept(rs, q, src, rn), NEW u, NEW x, Takes(q, rn, u, x)
  PROVE  Places(st, res, unh, rs, u, src, x) /\ Kept(rs, u, src, x)
<1> DEFINE i == q[1].id
<1>0. PICK n \in Nat, l \in Nat :
        /\ Len(q) = n + 1 /\ Len(u) = n /\ l = Len(rn)
        /\ \A k \in 1 .. n : u[k] = q[k + 1]
        /\ i = 0 => x = rn
        /\ i # 0 => Len(x) = l + 1 /\ (\A k \in 1 .. l : x[k] = rn[k]) /\ x[l + 1] = i
  BY DEF Sizes, Extends, Takes
<1> USE <1>0
<1>1. /\ 1 \in 1 .. n + 1 /\ \A k \in 1 .. n : k + 1 \in 1 .. n + 1 /\ 1 < k + 1
      /\ \A k \in 1 .. n + 1 : k = 1 \/ \E j \in 1 .. n : k = j + 1
  <2>1. ASSUME NEW k \in 1 .. n + 1, k # 1 PROVE \E j \in 1 .. n : k = j + 1
    <3>1. k - 1 \in 1 .. n /\ k = (k - 1) + 1
      BY <2>1
    <3> QED BY <3>1
  <2> QED BY <2>1
<1>2. i \in Nat
  BY <1>1 DEF Sizes
<1>3. Queued(st, u, src)
  BY <1>1 DEF Places, Queued
<1>4. Matches(st, res, u, src)
  <2> SUFFICES ASSUME NEW k \in 1 .. n, u[k].id # 0, src[u[k].id] # None
               PROVE  /\ u[k].v = res[src[u[k].id]]
                      /\ st[src[u[k].id]] = "fulfilled" =>
                           u[k].handler \notin {"thrower", "reject", "resume_throw"}
                      /\ st[src[u[k].id]] = "rejected" =>
                           u[k].handler \notin {"identity", "resolve", "resume"}
    BY DEF Matches
  <2>1. PICK a \in 1 .. Len(q) : u[k] = q[a]
    BY <1>1
  <2> QED BY <2>1 DEF Places, Matches
<1>5. QueueOrder(u, src)
  <2> SUFFICES ASSUME NEW j \in 1 .. n, NEW k \in 1 .. n, j < k, u[j].id # 0, u[k].id # 0
               PROVE  /\ u[j].id # u[k].id
                      /\ src[u[j].id] = src[u[k].id] /\ src[u[j].id] # None => u[j].id < u[k].id
    BY DEF QueueOrder
  <2>1. PICK a \in 1 .. n + 1, b \in 1 .. n + 1 : a < b /\ u[j] = q[a] /\ u[k] = q[b]
    <3>1. j + 1 < k + 1 /\ j + 1 \in 1 .. n + 1 /\ k + 1 \in 1 .. n + 1
      OBVIOUS
    <3> QED BY <3>1
  <2> QED BY <2>1 DEF Places, QueueOrder
<1>6. CASE i = 0
  <2>1. TakenFirst(u, src, x)
    BY <1>1, <1>6 DEF Places, TakenFirst
  <2>2. ASSUME Kept(rs, q, src, rn) PROVE Kept(rs, u, src, x)
    <3> SUFFICES ASSUME NEW m \in 1 .. Len(src)
                 PROVE  \/ \E p \in Promise : \E k \in 1 .. Len(rs[p]) : rs[p][k].id = m
                        \/ \E k \in 1 .. n : u[k].id = m
                        \/ \E k \in 1 .. Len(x) : x[k] = m
      BY DEF Kept
    <3>1. ASSUME NEW k \in 1 .. n + 1, q[k].id = m PROVE \E j \in 1 .. n : u[j].id = m
      <4>1. m # 0
        BY DEF Sizes
      <4>2. k # 1
        BY <1>6, <3>1, <4>1
      <4> QED BY <1>1, <3>1, <4>2
    <3> QED BY <1>6, <2>2, <3>1 DEF Kept
  <2> QED BY <1>3, <1>4, <1>5, <1>6, <2>1, <2>2 DEF Places
<1>7. CASE i # 0
  <2>1. /\ Len(x) = l + 1 /\ \A k \in 1 .. l : x[k] = rn[k] /\ k \in 1 .. l + 1
        /\ x[l + 1] = i /\ \A k \in 1 .. l + 1 : k \in 1 .. l \/ k = l + 1
    BY <1>7
  <2>2. i \in 1 .. Len(src) /\ Due(st, src, i)
    BY <1>1, <1>7 DEF Places, Queued
  <2>3. Taken(st, src, x)
    BY <2>1, <2>2 DEF Places, Taken
  <2>4. \A k \in 1 .. l : rn[k] # i /\ (src[i] = src[rn[k]] /\ src[i] # None => rn[k] < i)
    BY <1>1, <1>7 DEF Places, TakenFirst
  <2>5. TakenOnce(x)
    <3> SUFFICES ASSUME NEW a \in 1 .. l + 1, NEW b \in 1 .. l + 1, x[a] = x[b] PROVE a = b
      BY <2>1 DEF TakenOnce
    <3>1. CASE a \in 1 .. l /\ b \in 1 .. l
      <4>1. a \in 1 .. Len(rn) /\ b \in 1 .. Len(rn) /\ rn[a] = rn[b]
        BY <2>1, <3>1
      <4>2. TakenOnce(rn)
        BY DEF Places
      <4> QED BY <4>1, <4>2 DEF TakenOnce
    <3>2. CASE a = l + 1 \/ b = l + 1
      BY <2>1, <2>4, <3>2
    <3> QED BY <2>1, <3>1, <3>2
  <2>6. TakenFirst(u, src, x)
    <3> SUFFICES ASSUME NEW k \in 1 .. n, NEW m \in 1 .. l + 1, u[k].id # 0
                 PROVE  /\ u[k].id # x[m]
                        /\ src[u[k].id] = src[x[m]] /\ src[x[m]] # None => x[m] < u[k].id
      BY <2>1 DEF TakenFirst
    <3>1. k + 1 \in 1 .. n + 1 /\ u[k] = q[k + 1] /\ 1 < k + 1
      BY <1>1
    <3>2. CASE m \in 1 .. l
      <4>1. k + 1 \in 1 .. Len(q) /\ m \in 1 .. Len(rn) /\ x[m] = rn[m] /\ u[k] = q[k + 1]
        BY <2>1, <3>1, <3>2
      <4>2. TakenFirst(q, src, rn) /\ q[k + 1].id # 0
        BY <4>1 DEF Places
      <4>3. /\ q[k + 1].id # rn[m]
            /\ src[q[k + 1].id] = src[rn[m]] /\ src[rn[m]] # None => rn[m] < q[k + 1].id
        BY <4>1, <4>2 DEF TakenFirst
      <4> QED BY <4>1, <4>3
    <3>3. CASE m = l + 1
      <4>1. /\ 1 \in 1 .. Len(q) /\ k + 1 \in 1 .. Len(q) /\ 1 < k + 1 /\ x[m] = q[1].id
            /\ u[k] = q[k + 1]
        BY <1>1, <2>1, <3>1, <3>3
      <4>2. QueueOrder(q, src) /\ q[k + 1].id # 0 /\ q[1].id # 0
        BY <1>7, <4>1 DEF Places
      <4>3. /\ q[1].id # q[k + 1].id
            /\ src[q[1].id] = src[q[k + 1].id] /\ src[q[1].id] # None => q[1].id < q[k + 1].id
        BY <4>1, <4>2 DEF QueueOrder
      <4> QED BY <4>1, <4>3
    <3> QED BY <2>1, <3>2, <3>3
  <2>7. Ordered(src, x)
    <3> SUFFICES ASSUME NEW m \in 1 .. l + 1, NEW j \in 1 .. x[m] - 1, src[j] = src[x[m]], src[j] # None
                 PROVE  \E k \in 1 .. m - 1 : x[k] = j
      BY <2>1 DEF Ordered
    <3>1. CASE m \in 1 .. l
      <4>1. \E k \in 1 .. m - 1 : rn[k] = j
        <5>1. x[m] = rn[m] /\ m \in 1 .. Len(rn)
          BY <2>1, <3>1
        <5>2. j \in 1 .. rn[m] - 1 /\ src[j] = src[rn[m]]
          BY <5>1
        <5> QED BY <5>1, <5>2 DEF Places, Ordered
      <4>2. \A k \in 1 .. m - 1 : k \in 1 .. l
        BY <3>1
      <4> QED BY <2>1, <4>1, <4>2
    <3>2. CASE m = l + 1
      <4>1. j \in 1 .. Len(src) /\ j < i /\ j # i /\ src[j] = src[i] /\ Len(src) \in Nat
        BY <2>1, <2>2, <3>2 DEF Sizes
      <4>2. st[src[j]] # "pending"
        BY <2>2, <4>1 DEF Due
      <4>3. \A p \in Promise : \A k \in 1 .. Len(rs[p]) : rs[p][k].id # j
        BY <4>2 DEF Places, Waits
      <4>4. \A k \in 1 .. n + 1 : q[k].id # j
        <5> SUFFICES ASSUME NEW k \in 1 .. n + 1, q[k].id = j PROVE FALSE
          OBVIOUS
        <5>1. k # 1 /\ 1 < k
          BY <4>1
        <5>2. q[k].id # 0 /\ q[1].id # 0 /\ src[q[1].id] = src[q[k].id] /\ src[q[1].id] # None
          BY <1>7, <4>1
        <5>3. q[1].id < q[k].id
          BY <1>1, <5>1, <5>2 DEF Places, QueueOrder
        <5> QED BY <1>2, <4>1, <5>3
      <4>5. \E k \in 1 .. l : rn[k] = j
        BY <1>7, <4>1, <4>3, <4>4 DEF Kept
      <4>6. m - 1 = l
        BY <3>2
      <4> QED BY <2>1, <4>5, <4>6
    <3> QED BY <2>1, <3>1, <3>2
  <2>8. Kept(rs, u, src, x)
    <3> SUFFICES ASSUME NEW m \in 1 .. Len(src)
                 PROVE  \/ \E p \in Promise : \E k \in 1 .. Len(rs[p]) : rs[p][k].id = m
                        \/ \E k \in 1 .. n : u[k].id = m
                        \/ \E k \in 1 .. l + 1 : x[k] = m
      BY <2>1 DEF Kept
    <3>1. ASSUME NEW k \in 1 .. n + 1, q[k].id = m
          PROVE  (\E j \in 1 .. n : u[j].id = m) \/ (\E j \in 1 .. l + 1 : x[j] = m)
      <4>1. CASE k = 1
        <5>1. l + 1 \in 1 .. l + 1
          OBVIOUS
        <5> QED BY <2>1, <3>1, <4>1, <5>1
      <4>2. CASE k # 1
        BY <1>1, <3>1, <4>2
      <4> QED BY <4>1, <4>2
    <3>2. ASSUME NEW k \in 1 .. l, rn[k] = m PROVE \E j \in 1 .. l + 1 : x[j] = m
      BY <2>1, <3>2
    <3>3. \/ \E p \in Promise : \E k \in 1 .. Len(rs[p]) : rs[p][k].id = m
          \/ \E k \in 1 .. n + 1 : q[k].id = m
          \/ \E k \in 1 .. l : rn[k] = m
      BY DEF Kept
    <3> QED BY <3>1, <3>2, <3>3
  <2> QED BY <1>3, <1>4, <1>5, <2>3, <2>5, <2>6, <2>7, <2>8 DEF Places
<1> QED BY <1>6, <1>7

\* A new reaction keeps what is known of the old ones.
LEMMA NewSource ==
  ASSUME NEW st, NEW res, NEW unh, NEW rs, NEW q, NEW src, NEW rn,
         Places(st, res, unh, rs, q, src, rn), Sizes(rs, q, src, rn),
         NEW t, NEW e, Extends(src, t, e)
  PROVE  /\ Waits(st, rs, t) /\ Queued(st, q, t) /\ Matches(st, res, q, t) /\ QueueOrder(q, t)
         /\ Taken(st, t, rn) /\ TakenFirst(q, t, rn) /\ Ordered(t, rn)
<1>1. PICK n \in Nat : n = Len(src)
  BY DEF Sizes
<1>2. /\ Len(t) = n + 1 /\ t[n + 1] = e
      /\ \A i \in 1 .. n : t[i] = src[i] /\ i \in 1 .. n + 1
  BY <1>1, ExtendsFacts
<1>3. Waits(st, rs, t)
  BY <1>1, <1>2 DEF Places, Waits, Sizes
<1>4. \A k \in 1 .. Len(q) : q[k].id # 0 => q[k].id \in 1 .. n /\ t[q[k].id] = src[q[k].id]
  BY <1>1, <1>2 DEF Places, Queued
<1>5. \A l \in 1 .. Len(rn) : rn[l] \in 1 .. n /\ t[rn[l]] = src[rn[l]]
  BY <1>1, <1>2 DEF Places, Taken
<1>6. Queued(st, q, t)
  BY <1>2, <1>4 DEF Places, Queued, Due
<1>7. Matches(st, res, q, t)
  BY <1>4 DEF Places, Matches
<1>8. QueueOrder(q, t)
  BY <1>4 DEF Places, QueueOrder
<1>9. Taken(st, t, rn)
  BY <1>2, <1>5 DEF Places, Taken, Due
<1>10. TakenFirst(q, t, rn)
  BY <1>4, <1>5 DEF Places, TakenFirst
<1>11. Ordered(t, rn)
  <2> SUFFICES ASSUME NEW l \in 1 .. Len(rn), NEW i \in 1 .. rn[l] - 1,
                      t[i] = t[rn[l]], t[i] # None
               PROVE  \E k \in 1 .. l - 1 : rn[k] = i
    BY DEF Ordered
  <2>1. PICK y \in 1 .. n : y = rn[l]
    BY <1>5
  <2>2. i \in 1 .. n
    BY <2>1
  <2>3. src[i] = src[rn[l]] /\ src[i] # None
    BY <1>2, <1>5, <2>2
  <2> QED BY <2>3 DEF Places, Ordered
<1> QED BY <1>3, <1>6, <1>7, <1>8, <1>9, <1>10, <1>11

\* The job j answers the new reaction, which was added to e.
Answers(st, res, src, e, j) ==
  /\ j.id = Len(src) + 1 /\ j.handler # "thenable"
  /\ e # None => /\ j.v = res[e]
                 /\ st[e] = "fulfilled" => j.handler \notin {"thrower", "reject", "resume_throw"}
                 /\ st[e] = "rejected" => j.handler \notin {"identity", "resolve", "resume"}

\* A reaction of a settled promise, or an await of a plain value: its job is queued.
LEMMA NewQueued ==
  ASSUME NEW st, NEW res, NEW unh, NEW rs, NEW q, NEW src, NEW rn,
         Places(st, res, unh, rs, q, src, rn), Sizes(rs, q, src, rn),
         NEW t, NEW e \in Promise \cup {None}, Extends(src, t, e),
         e = None \/ st[e] # "pending",
         NEW u, NEW j, Extends(q, u, j), Answers(st, res, src, e, j),
         NEW f, \A p \in Promise : f[p] <=> unh[p] /\ p # e
  PROVE  /\ Places(st, res, f, rs, u, t, rn)
         /\ Kept(rs, q, src, rn) => Kept(rs, u, t, rn)
<1>0. PICK m \in Nat : /\ m = Len(q) /\ Len(u) = m + 1 /\ \A k \in 1 .. m : u[k] = q[k]
                       /\ u[m + 1] = j
  BY DEF Extends, Sizes
<1>a. /\ j.id = Len(src) + 1 /\ j.handler # "thenable"
      /\ e # None => /\ j.v = res[e]
                     /\ st[e] = "fulfilled" => j.handler \notin {"thrower", "reject", "resume_throw"}
                     /\ st[e] = "rejected" => j.handler \notin {"identity", "resolve", "resume"}
  BY DEF Answers
<1> USE <1>0, <1>a
<1>1. PICK n \in Nat : n = Len(src)
  BY DEF Sizes
<1>2. /\ Len(t) = n + 1 /\ t[n + 1] = e /\ n + 1 \in 1 .. n + 1
      /\ \A i \in 1 .. n : t[i] = src[i] /\ i \in 1 .. n + 1
      /\ \A i \in 1 .. n + 1 : i \in 1 .. n \/ i = n + 1
  BY <1>1, ExtendsFacts
<1>3. \A k \in 1 .. m + 1 : k \in 1 .. m \/ k = m + 1
  OBVIOUS
<1>4. /\ Waits(st, rs, t) /\ Queued(st, q, t) /\ Matches(st, res, q, t) /\ QueueOrder(q, t)
      /\ Taken(st, t, rn) /\ TakenFirst(q, t, rn) /\ Ordered(t, rn)
  BY NewSource
<1>5. j.id = n + 1 /\ j.id # 0 /\ j.id \in 1 .. n + 1
  BY <1>1, <1>2
<1>6. Queued(st, u, t)
  BY <1>2, <1>3, <1>4, <1>5 DEF Queued, Due
<1>7. Matches(st, res, u, t)
  <2> SUFFICES ASSUME NEW k \in 1 .. m + 1, u[k].id # 0, t[u[k].id] # None
               PROVE  /\ u[k].v = res[t[u[k].id]]
                      /\ st[t[u[k].id]] = "fulfilled" =>
                           u[k].handler \notin {"thrower", "reject", "resume_throw"}
                      /\ st[t[u[k].id]] = "rejected" =>
                           u[k].handler \notin {"identity", "resolve", "resume"}
    BY DEF Matches
  <2>1. CASE k \in 1 .. m
    <3>1. u[k] = q[k]
      BY <2>1
    <3> QED BY <1>4, <2>1, <3>1 DEF Matches
  <2>2. CASE k = m + 1
    <3>1. u[k] = j /\ t[j.id] = e
      BY <1>2, <1>5, <2>2
    <3> QED BY <3>1
  <2> QED BY <1>3, <2>1, <2>2
<1>8. QueueOrder(u, t)
  <2>1. \A k \in 1 .. m : q[k].id \in Nat /\ (q[k].id # 0 => q[k].id < n + 1)
    BY <1>1 DEF Places, Queued, Sizes
  <2> SUFFICES ASSUME NEW i \in 1 .. m + 1, NEW k \in 1 .. m + 1, i < k, u[i].id # 0, u[k].id # 0
               PROVE  /\ u[i].id # u[k].id
                      /\ t[u[i].id] = t[u[k].id] /\ t[u[i].id] # None => u[i].id < u[k].id
    BY DEF QueueOrder
  <2>2. CASE k \in 1 .. m
    <3>1. i \in 1 .. m /\ u[i] = q[i] /\ u[k] = q[k]
      BY <2>2
    <3> QED BY <1>4, <2>2, <3>1 DEF QueueOrder
  <2>3. CASE k = m + 1
    <3>1. i \in 1 .. m /\ u[i] = q[i] /\ u[k] = j
      BY <2>3
    <3> QED BY <1>5, <2>1, <3>1
  <2> QED BY <1>3, <2>2, <2>3
<1>9. TakenFirst(u, t, rn)
  <2> SUFFICES ASSUME NEW k \in 1 .. m + 1, NEW l \in 1 .. Len(rn), u[k].id # 0
               PROVE  /\ u[k].id # rn[l]
                      /\ t[u[k].id] = t[rn[l]] /\ t[rn[l]] # None => rn[l] < u[k].id
    BY DEF TakenFirst
  <2>1. CASE k \in 1 .. m
    <3>1. u[k] = q[k]
      BY <2>1
    <3> QED BY <1>4, <2>1, <3>1 DEF TakenFirst
  <2>2. CASE k = m + 1
    <3>1. u[k] = j
      BY <2>2
    <3>2. PICK y \in 1 .. n : y = rn[l]
      BY <1>1 DEF Places, Taken
    <3> QED BY <1>5, <3>1, <3>2
  <2> QED BY <1>3, <2>1, <2>2
<1>10. Exact(st, f, t)
  <2> SUFFICES ASSUME NEW p \in Promise
               PROVE  f[p] <=> st[p] = "rejected" /\ \A i \in 1 .. n + 1 : t[i] # p
    BY <1>2 DEF Exact
  <2>1. unh[p] <=> st[p] = "rejected" /\ \A i \in 1 .. n : src[i] # p
    BY <1>1 DEF Places, Exact
  <2>2. (\A i \in 1 .. n + 1 : t[i] # p) <=> (\A i \in 1 .. n : src[i] # p) /\ p # e
    BY <1>2
  <2> QED BY <2>1, <2>2
<1>11. Kept(rs, q, src, rn) => Kept(rs, u, t, rn)
  <2> SUFFICES ASSUME Kept(rs, q, src, rn), NEW i \in 1 .. n + 1
               PROVE  \/ \E p \in Promise : \E k \in 1 .. Len(rs[p]) : rs[p][k].id = i
                      \/ \E k \in 1 .. m + 1 : u[k].id = i
                      \/ \E l \in 1 .. Len(rn) : rn[l] = i
    BY <1>2 DEF Kept
  <2>1. CASE i \in 1 .. n
    <3>1. ASSUME NEW k \in 1 .. m, q[k].id = i PROVE \E a \in 1 .. m + 1 : u[a].id = i
      BY <3>1
    <3> QED BY <1>1, <2>1, <3>1 DEF Kept
  <2>2. CASE i = n + 1
    <3>1. m + 1 \in 1 .. m + 1
      OBVIOUS
    <3> QED BY <1>5, <2>2, <3>1
  <2> QED BY <1>2, <2>1, <2>2
<1> QED BY <1>4, <1>6, <1>7, <1>8, <1>9, <1>10, <1>11 DEF Places

\* A reaction of a pending promise waits.
LEMMA NewWaiting ==
  ASSUME NEW st, NEW res, NEW unh, NEW rs, NEW q, NEW src, NEW rn,
         Places(st, res, unh, rs, q, src, rn), Sizes(rs, q, src, rn),
         NEW t, NEW e \in Promise, e # None, Extends(src, t, e), st[e] = "pending",
         NEW w, NEW r, r.id = Len(src) + 1, Extends(rs[e], w[e], r),
         \A p \in Promise : p # e => w[p] = rs[p]
  PROVE  /\ Places(st, res, unh, w, q, t, rn)
         /\ Kept(rs, q, src, rn) => Kept(w, q, t, rn)
<1>0. PICK m \in Nat : /\ m = Len(rs[e]) /\ Len(w[e]) = m + 1
                       /\ \A k \in 1 .. m : w[e][k] = rs[e][k]
                       /\ w[e][m + 1].id = Len(src) + 1
  BY DEF Extends, Sizes
<1> USE <1>0
<1>1. PICK n \in Nat : n = Len(src)
  BY DEF Sizes
<1>2. /\ Len(t) = n + 1 /\ t[n + 1] = e /\ n + 1 \in 1 .. n + 1
      /\ \A i \in 1 .. n : t[i] = src[i] /\ i \in 1 .. n + 1
      /\ \A i \in 1 .. n + 1 : i \in 1 .. n \/ i = n + 1
  BY <1>1, ExtendsFacts
<1>3. \A k \in 1 .. m + 1 : k \in 1 .. m \/ k = m + 1
  OBVIOUS
<1>4. /\ Waits(st, rs, t) /\ Queued(st, q, t) /\ Matches(st, res, q, t) /\ QueueOrder(q, t)
      /\ Taken(st, t, rn) /\ TakenFirst(q, t, rn) /\ Ordered(t, rn)
  BY NewSource
<1>5. \A k \in 1 .. m : rs[e][k].id \in 1 .. n
  BY <1>1 DEF Places, Waits
<1>6. m <= n
  BY <1>1 DEF Places, Waits
<1>7. Waits(st, w, t)
  <2> SUFFICES ASSUME NEW p \in Promise
               PROVE  /\ Len(w[p]) <= Len(t)
                      /\ \A k \in 1 .. Len(w[p]) : /\ w[p][k].id \in 1 .. Len(t)
                                                   /\ t[w[p][k].id] = p
                                                   /\ st[p] = "pending"
    BY DEF Waits
  <2>1. CASE p # e
    BY <1>4, <2>1 DEF Waits
  <2>2. CASE p = e
    <3>1. Len(w[p]) <= Len(t)
      BY <1>2, <1>6, <2>2
    <3>2. ASSUME NEW k \in 1 .. m + 1
          PROVE  w[e][k].id \in 1 .. Len(t) /\ t[w[e][k].id] = e
      <4>1. CASE k \in 1 .. m
        BY <1>4, <4>1 DEF Waits
      <4>2. CASE k = m + 1
        BY <1>1, <1>2, <4>2
      <4> QED BY <1>3, <4>1, <4>2
    <3> QED BY <2>2, <3>1, <3>2
  <2> QED BY <2>1, <2>2
<1>8. Increasing(w)
  <2> SUFFICES ASSUME NEW p \in Promise, NEW j \in 1 .. Len(w[p]), NEW k \in 1 .. Len(w[p]), j < k
               PROVE  w[p][j].id < w[p][k].id
    BY DEF Increasing
  <2>1. CASE p # e
    BY <2>1 DEF Places, Increasing
  <2>2. CASE p = e /\ k \in 1 .. m
    <3>1. j \in 1 .. m /\ w[p][j] = rs[e][j] /\ w[p][k] = rs[e][k]
      BY <2>2
    <3> QED BY <2>2, <3>1 DEF Places, Increasing
  <2>3. CASE p = e /\ k = m + 1
    <3>1. j \in 1 .. m /\ w[p][j] = rs[e][j] /\ w[p][k].id = n + 1
      BY <1>1, <2>3
    <3>2. PICK y \in 1 .. n : y = rs[e][j].id
      BY <1>5, <3>1
    <3> QED BY <3>1, <3>2
  <2> QED BY <1>3, <2>1, <2>2, <2>3
<1>9. Exact(st, unh, t)
  <2> SUFFICES ASSUME NEW p \in Promise
               PROVE  unh[p] <=> st[p] = "rejected" /\ \A i \in 1 .. n + 1 : t[i] # p
    BY <1>2 DEF Exact
  <2>1. unh[p] <=> st[p] = "rejected" /\ \A i \in 1 .. n : src[i] # p
    BY <1>1 DEF Places, Exact
  <2>2. (\A i \in 1 .. n + 1 : t[i] # p) <=> (\A i \in 1 .. n : src[i] # p) /\ p # e
    BY <1>2
  <2> QED BY <2>1, <2>2
<1>10. Kept(rs, q, src, rn) => Kept(w, q, t, rn)
  <2> SUFFICES ASSUME Kept(rs, q, src, rn), NEW i \in 1 .. n + 1
               PROVE  \/ \E p \in Promise : \E k \in 1 .. Len(w[p]) : w[p][k].id = i
                      \/ \E k \in 1 .. Len(q) : q[k].id = i
                      \/ \E l \in 1 .. Len(rn) : rn[l] = i
    BY <1>2 DEF Kept
  <2>1. CASE i \in 1 .. n
    <3>1. ASSUME NEW p \in Promise, NEW k \in 1 .. Len(rs[p]), rs[p][k].id = i
          PROVE  \E a \in 1 .. Len(w[p]) : w[p][a].id = i
      <4>1. CASE p # e
        BY <3>1, <4>1
      <4>2. CASE p = e
        <5>1. k \in 1 .. m /\ k \in 1 .. m + 1
          BY <4>2
        <5> QED BY <3>1, <4>2, <5>1
      <4> QED BY <4>1, <4>2
    <3> QED BY <1>1, <2>1, <3>1 DEF Kept
  <2>2. CASE i = n + 1
    <3>1. m + 1 \in 1 .. m + 1
      OBVIOUS
    <3> QED BY <1>1, <2>2, <3>1
  <2> QED BY <1>2, <2>1, <2>2
<1> QED BY <1>4, <1>7, <1>8, <1>9, <1>10 DEF Places

\* The promise e is settled as s with v: the queue u is q with the jobs of its reactions.
Settles(st, res, unh, rs, q, e, s, v, tt, x, f, w, u) ==
  /\ st[e] = "pending" /\ s \in {"fulfilled", "rejected"}
  /\ tt[e] = s /\ x[e] = v /\ Len(w[e]) = 0
  /\ f[e] <=> s = "rejected" /\ Len(rs[e]) = 0
  /\ \A p \in Promise : p # e => tt[p] = st[p] /\ x[p] = res[p] /\ w[p] = rs[p] /\ f[p] = unh[p]
  /\ Len(u) = Len(q) + Len(rs[e])
  /\ \A k \in 1 .. Len(q) : u[k] = q[k]
  /\ \A k \in 1 .. Len(rs[e]) :
       LET j == u[Len(q) + k]
       IN /\ j.id = rs[e][k].id /\ j.v = v /\ j.handler # "thenable"
          /\ s = "fulfilled" => j.handler \notin {"thrower", "reject", "resume_throw"}
          /\ s = "rejected" => j.handler \notin {"identity", "resolve", "resume"}

LEMMA SettleJobs ==
  ASSUME NEW st, NEW res, NEW unh, NEW rs, NEW q, NEW src, NEW rn,
         Places(st, res, unh, rs, q, src, rn), Sizes(rs, q, src, rn), Kept(rs, q, src, rn),
         NEW e \in Promise, e # None, NEW s, NEW v, NEW tt, NEW x, NEW f, NEW w, NEW u,
         Settles(st, res, unh, rs, q, e, s, v, tt, x, f, w, u)
  PROVE  Places(tt, x, f, w, u, src, rn) /\ Kept(w, u, src, rn)
<1>0. PICK m \in Nat, r \in Nat, n \in Nat : m = Len(q) /\ r = Len(rs[e]) /\ n = Len(src)
  BY DEF Sizes
<1>1. /\ st[e] = "pending" /\ s \in {"fulfilled", "rejected"}
      /\ tt[e] = s /\ x[e] = v /\ Len(w[e]) = 0
      /\ f[e] <=> s = "rejected" /\ r = 0
      /\ \A p \in Promise : p # e => tt[p] = st[p] /\ x[p] = res[p] /\ w[p] = rs[p] /\ f[p] = unh[p]
      /\ Len(u) = m + r
      /\ \A k \in 1 .. m : u[k] = q[k]
      /\ \A k \in 1 .. r :
           /\ u[m + k].id = rs[e][k].id /\ u[m + k].v = v /\ u[m + k].handler # "thenable"
           /\ s = "fulfilled" => u[m + k].handler \notin {"thrower", "reject", "resume_throw"}
           /\ s = "rejected" => u[m + k].handler \notin {"identity", "resolve", "resume"}
  BY <1>0 DEF Settles
<1>2. \A k \in 1 .. m + r : k \in 1 .. m \/ \E a \in 1 .. r : k = m + a
  <2> SUFFICES ASSUME NEW k \in 1 .. m + r, k \notin 1 .. m PROVE \E a \in 1 .. r : k = m + a
    OBVIOUS
  <2>1. k - m \in 1 .. r /\ k = m + (k - m)
    OBVIOUS
  <2> QED BY <2>1
<1>3. \A k \in 1 .. r : /\ rs[e][k].id \in 1 .. n /\ src[rs[e][k].id] = e
                        /\ u[m + k].id = rs[e][k].id /\ u[m + k].id # 0
  BY <1>0, <1>1 DEF Places, Waits
<1>4. \A k \in 1 .. m : q[k].id # 0 => /\ q[k].id \in 1 .. n /\ src[q[k].id] # e
                                       /\ tt[src[q[k].id]] = st[src[q[k].id]]
                                          \/ src[q[k].id] = None
  BY <1>0, <1>1 DEF Places, Queued, Due, Sizes
<1>5. \A l \in 1 .. Len(rn) : /\ rn[l] \in 1 .. n /\ src[rn[l]] # e
                              /\ tt[src[rn[l]]] = st[src[rn[l]]] \/ src[rn[l]] = None
  BY <1>0, <1>1 DEF Places, Taken, Due, Sizes
<1>6. Waits(tt, w, src)
  <2> SUFFICES ASSUME NEW p \in Promise
               PROVE  /\ Len(w[p]) <= Len(src)
                      /\ \A k \in 1 .. Len(w[p]) : /\ w[p][k].id \in 1 .. Len(src)
                                                   /\ src[w[p][k].id] = p
                                                   /\ tt[p] = "pending"
    BY DEF Waits
  <2>1. CASE p = e
    BY <1>0, <1>1, <2>1
  <2>2. CASE p # e
    BY <1>1, <2>2 DEF Places, Waits
  <2> QED BY <2>1, <2>2
<1>7. Increasing(w)
  <2> SUFFICES ASSUME NEW p \in Promise, NEW j \in 1 .. Len(w[p]), NEW k \in 1 .. Len(w[p]), j < k
               PROVE  w[p][j].id < w[p][k].id
    BY DEF Increasing
  <2>1. p # e
    BY <1>1
  <2> QED BY <1>1, <2>1 DEF Places, Increasing
<1>8. Queued(tt, u, src)
  <2> SUFFICES ASSUME NEW k \in 1 .. m + r
               PROVE  /\ u[k].id = 0 <=> u[k].handler = "thenable"
                      /\ u[k].id # 0 => u[k].id \in 1 .. n /\ Due(tt, src, u[k].id)
    BY <1>0, <1>1 DEF Queued
  <2>1. CASE k \in 1 .. m
    BY <1>0, <1>1, <1>4, <2>1 DEF Places, Queued, Due
  <2>2. ASSUME NEW a \in 1 .. r, k = m + a
        PROVE  /\ u[k].id = 0 <=> u[k].handler = "thenable"
               /\ u[k].id # 0 => u[k].id \in 1 .. n /\ Due(tt, src, u[k].id)
    BY <1>1, <1>3, <2>2 DEF Due
  <2> QED BY <1>2, <2>1, <2>2
<1>9. Matches(tt, x, u, src)
  <2> SUFFICES ASSUME NEW k \in 1 .. m + r, u[k].id # 0, src[u[k].id] # None
               PROVE  /\ u[k].v = x[src[u[k].id]]
                      /\ tt[src[u[k].id]] = "fulfilled" =>
                           u[k].handler \notin {"thrower", "reject", "resume_throw"}
                      /\ tt[src[u[k].id]] = "rejected" =>
                           u[k].handler \notin {"identity", "resolve", "resume"}
    BY <1>1 DEF Matches
  <2>1. CASE k \in 1 .. m
    <3>0. PICK j : j = q[k] /\ j = u[k] /\ j.id # 0 /\ j.id \in 1 .. n
      BY <1>1, <1>4, <2>1
    <3>1. PICK p \in Promise : /\ j = q[k] /\ j = u[k] /\ j.id # 0 /\ p = src[j.id] /\ p # e
                               /\ tt[p] = st[p] /\ x[p] = res[p] /\ p # None
      <4>1. src[j.id] \in Promise /\ src[j.id] # e
        BY <1>0, <1>4, <2>1, <3>0 DEF Sizes
      <4> QED BY <1>1, <3>0, <4>1
    <3>2. /\ j.v = res[p]
          /\ st[p] = "fulfilled" => j.handler \notin {"thrower", "reject", "resume_throw"}
          /\ st[p] = "rejected" => j.handler \notin {"identity", "resolve", "resume"}
      BY <1>0, <2>1, <3>1 DEF Places, Matches
    <3> QED BY <3>1, <3>2
  <2>2. ASSUME NEW a \in 1 .. r, k = m + a
        PROVE  /\ u[k].v = x[src[u[k].id]]
               /\ tt[src[u[k].id]] = "fulfilled" =>
                    u[k].handler \notin {"thrower", "reject", "resume_throw"}
               /\ tt[src[u[k].id]] = "rejected" =>
                    u[k].handler \notin {"identity", "resolve", "resume"}
    <3>1. src[u[k].id] = e
      BY <1>3, <2>2
    <3> QED BY <1>1, <2>2, <3>1
  <2> QED BY <1>2, <2>1, <2>2
<1>10. QueueOrder(u, src)
  <2> SUFFICES ASSUME NEW j \in 1 .. m + r, NEW k \in 1 .. m + r, j < k, u[j].id # 0, u[k].id # 0
               PROVE  /\ u[j].id # u[k].id
                      /\ src[u[j].id] = src[u[k].id] /\ src[u[j].id] # None => u[j].id < u[k].id
    BY <1>1 DEF QueueOrder
  <2>1. CASE j \in 1 .. m /\ k \in 1 .. m
    BY <1>0, <1>1, <2>1 DEF Places, QueueOrder
  <2>2. ASSUME j \in 1 .. m, NEW b \in 1 .. r, k = m + b
        PROVE  src[u[j].id] # src[u[k].id]
    <3>1. u[j] = q[j] /\ q[j].id # 0
      BY <1>1, <2>2
    <3>2. src[q[j].id] # e
      BY <1>4, <2>2, <3>1
    <3>3. src[u[k].id] = e
      BY <1>3, <2>2
    <3> QED BY <3>1, <3>2, <3>3
  <2>3. ASSUME NEW a \in 1 .. r, j = m + a, k \in 1 .. m PROVE FALSE
    BY <2>3
  <2>4. ASSUME NEW a \in 1 .. r, j = m + a, NEW b \in 1 .. r, k = m + b
        PROVE  u[j].id # u[k].id /\ u[j].id < u[k].id
    <3>1. a < b
      BY <2>4
    <3>2. rs[e][a].id < rs[e][b].id
      BY <1>0, <3>1 DEF Places, Increasing
    <3>3. u[j].id = rs[e][a].id /\ u[k].id = rs[e][b].id /\ rs[e][a].id \in Nat /\ rs[e][b].id \in Nat
      BY <1>0, <1>3, <2>4 DEF Sizes
    <3> QED BY <3>2, <3>3
  <2> QED BY <1>2, <2>1, <2>2, <2>3, <2>4
<1>11. Taken(tt, src, rn)
  BY <1>0, <1>5 DEF Places, Taken, Due
<1>12. TakenFirst(u, src, rn)
  <2> SUFFICES ASSUME NEW k \in 1 .. m + r, NEW l \in 1 .. Len(rn), u[k].id # 0
               PROVE  /\ u[k].id # rn[l]
                      /\ src[u[k].id] = src[rn[l]] /\ src[rn[l]] # None => rn[l] < u[k].id
    BY <1>1 DEF TakenFirst
  <2>1. CASE k \in 1 .. m
    BY <1>0, <1>1, <2>1 DEF Places, TakenFirst
  <2>2. ASSUME NEW a \in 1 .. r, k = m + a PROVE src[u[k].id] # src[rn[l]]
    BY <1>3, <1>5, <2>2
  <2> QED BY <1>2, <2>1, <2>2
<1>13. Exact(tt, f, src)
  <2> SUFFICES ASSUME NEW p \in Promise
               PROVE  f[p] <=> tt[p] = "rejected" /\ \A i \in 1 .. n : src[i] # p
    BY <1>0 DEF Exact
  <2>1. CASE p # e
    BY <1>0, <1>1, <2>1 DEF Places, Exact
  <2>2. CASE p = e
    <3>1. ASSUME r = 0, NEW i \in 1 .. n, src[i] = e PROVE FALSE
      <4>1. \A y \in Promise : \A k \in 1 .. Len(rs[y]) : rs[y][k].id # i
        <5> SUFFICES ASSUME NEW y \in Promise, NEW k \in 1 .. Len(rs[y]), rs[y][k].id = i PROVE FALSE
          OBVIOUS
        <5>1. src[rs[y][k].id] = y
          BY DEF Places, Waits
        <5>2. y = e
          BY <3>1, <5>1
        <5>3. Len(rs[y]) = 0
          BY <1>0, <3>1, <5>2
        <5> QED BY <5>3
      <4>2. \A k \in 1 .. m : q[k].id # i
        BY <1>4, <3>1
      <4>3. \A l \in 1 .. Len(rn) : rn[l] # i
        BY <1>5, <3>1
      <4> QED BY <1>0, <4>1, <4>2, <4>3 DEF Kept
    <3>2. ASSUME r # 0 PROVE \E i \in 1 .. n : src[i] = e
      <4>1. 1 \in 1 .. r
        BY <3>2
      <4> QED BY <1>3, <4>1
    <3> QED BY <1>1, <2>2, <3>1, <3>2
  <2> QED BY <2>1, <2>2
<1>14. Kept(w, u, src, rn)
  <2> SUFFICES ASSUME NEW i \in 1 .. n
               PROVE  \/ \E p \in Promise : \E k \in 1 .. Len(w[p]) : w[p][k].id = i
                      \/ \E k \in 1 .. m + r : u[k].id = i
                      \/ \E l \in 1 .. Len(rn) : rn[l] = i
    BY <1>0, <1>1 DEF Kept
  <2>1. ASSUME NEW p \in Promise, NEW k \in 1 .. Len(rs[p]), rs[p][k].id = i
        PROVE  \/ \E a \in 1 .. Len(w[p]) : w[p][a].id = i
               \/ \E a \in 1 .. m + r : u[a].id = i
    <3>1. CASE p # e
      BY <1>1, <2>1, <3>1
    <3>2. CASE p = e
      <4>1. k \in 1 .. r /\ m + k \in 1 .. m + r
        BY <1>0, <3>2
      <4> QED BY <1>3, <2>1, <3>2, <4>1
    <3> QED BY <3>1, <3>2
  <2>2. ASSUME NEW k \in 1 .. m, q[k].id = i PROVE \E a \in 1 .. m + r : u[a].id = i
    <3>1. k \in 1 .. m + r
      OBVIOUS
    <3> QED BY <1>1, <2>2, <3>1
  <2> QED BY <1>0, <2>1, <2>2 DEF Kept
<1>15. TakenOnce(rn) /\ Ordered(src, rn)
  BY DEF Places
<1> QED BY <1>6, <1>7, <1>8, <1>9, <1>10, <1>11, <1>12, <1>13, <1>14, <1>15 DEF Places


-----------------------------------------------------------------------------
(* Calls: what entering and leaving them does to the types.                *)

LEMMA PromiseValues == /\ None \notin Promise /\ Custom \notin Promise /\ None # Custom
                       /\ Promise \subseteq Values /\ Plain \subseteq Values
                       /\ Thenable \subseteq Values /\ None \notin Values
  BY ValuesAssumption DEF Values

LEMMA CallsPrefix ==
  ASSUME NEW fs, CallsTyped(fs), NEW n \in Nat, NEW t, t \in Seq(Calls), Len(t) = n,
         n <= Len(fs), \A i \in 1 .. n : t[i] = fs[i]
  PROVE  CallsTyped(t)
<1>1. Len(fs) \in Nat
  BY EmptyLen DEF CallsTyped
<1>2. ASSUME NEW i \in 1 .. n PROVE CallOK(t, i)
  <2>1. i \in 1 .. Len(fs) /\ t[i] = fs[i] /\ (i > 1 => i - 1 \in 1 .. n)
    BY <1>1
  <2> QED BY <2>1 DEF CallsTyped, CallOK
<1> QED BY <1>2 DEF CallsTyped

\* A call returns.
LEMMA CallsBelow ==
  ASSUME CallsTyped(frames), frames # <<>>
  PROVE  /\ CallsTyped(Below) /\ Len(frames) \in Nat \ {0}
         /\ Len(Below) = Len(frames) - 1 /\ Top \in Calls /\ CallOK(frames, Len(frames))
         /\ \A i \in 1 .. Len(frames) - 1 : Below[i] = frames[i]
<1>1. frames \in Seq(Calls) /\ Len(frames) \in Nat \ {0}
  BY EmptyLen DEF CallsTyped
<1>2. /\ Below \in Seq(Calls) /\ Len(Below) = Len(frames) - 1
      /\ \A i \in 1 .. Len(frames) - 1 : Below[i] = frames[i]
  BY <1>1, FrontProperties DEF Below
<1>3. Len(frames) - 1 \in Nat /\ Len(frames) - 1 <= Len(frames) /\ Len(frames) \in 1 .. Len(frames)
  BY <1>1
<1>4. CallsTyped(Below)
  BY <1>2, <1>3, CallsPrefix
<1>5. Top \in Calls
  BY <1>1, <1>3, ElementOfSeq DEF Top
<1>6. CallOK(frames, Len(frames))
  BY <1>3 DEF CallsTyped
<1> QED BY <1>1, <1>2, <1>4, <1>5, <1>6

\* A call begins; a handler or a function of the user is called from the queue.
LEMMA CallsAppend ==
  ASSUME NEW fs, CallsTyped(fs), NEW op, NEW p, NEW v, Frame(op, p, v) \in Calls,
         op \in Outcome => p \in Promise /\ v \in Values,
         op = "executor" => p \in Promise,
         op \in {"body", "create"} => p \in Promise \cup {None},
         op \in {"handler", "custom"} => Len(fs) > 0 /\ fs[Len(fs)].op = "jobs"
  PROVE  CallsTyped(Append(fs, Frame(op, p, v)))
<1> DEFINE t == Append(fs, Frame(op, p, v))
<1>0. fs \in Seq(Calls) /\ Len(fs) \in Nat
  BY EmptyLen DEF CallsTyped
<1>1. /\ t \in Seq(Calls) /\ Len(t) = Len(fs) + 1 /\ t[Len(fs) + 1] = Frame(op, p, v)
      /\ \A i \in 1 .. Len(fs) : t[i] = fs[i]
  BY <1>0, AppendFacts
<1>2. Frame(op, p, v).op = op /\ Frame(op, p, v).p = p /\ Frame(op, p, v).v = v
  BY DEF Frame
<1> HIDE DEF t
<1>3. ASSUME NEW i \in 1 .. Len(fs) PROVE CallOK(t, i)
  <2>1. t[i] = fs[i] /\ (i > 1 => i - 1 \in 1 .. Len(fs))
    BY <1>0, <1>1
  <2>2. i > 1 => t[i - 1] = fs[i - 1]
    BY <1>1, <2>1
  <2> QED BY <2>1, <2>2 DEF CallsTyped, CallOK
<1>4. CallOK(t, Len(fs) + 1)
  <2>1. Len(fs) > 0 => Len(fs) + 1 > 1 /\ (Len(fs) + 1) - 1 = Len(fs) /\ t[Len(fs)] = fs[Len(fs)]
    BY <1>0, <1>1
  <2> QED BY <1>1, <1>2, <2>1 DEF CallOK
<1>5. \A i \in 1 .. Len(t) : i \in 1 .. Len(fs) \/ i = Len(fs) + 1
  BY <1>0, <1>1
<1> QED BY <1>1, <1>3, <1>4, <1>5 DEF CallsTyped, t

\* ecma_fulfill_promise and ecma_reject_promise,
LEMMA EnterTyped ==
  ASSUME NEW fs, CallsTyped(fs), phase = "run", NEW op \in Outcome, NEW p \in Promise,
         NEW v \in Values, Enter(fs, op, p, v)
  PROVE  CallsTyped(frames') /\ phase' \in Phases
<1>1. Frame(op, p, v) \in Calls
  BY DEF Frame, Calls, Outcome
<1>2. CallsTyped(Append(fs, Frame(op, p, v)))
  BY <1>1, CallsAppend DEF Outcome
<1> QED BY <1>2 DEF Enter, Phases

\* the same with the flag,
LEMMA EnterWithChecksTyped ==
  ASSUME NEW fs, CallsTyped(fs), phase = "run", NEW op \in Outcome, NEW p \in Promise,
         NEW v \in Values, EnterWithChecks(fs, op, p, v), already \in [Promise -> BOOLEAN]
  PROVE  CallsTyped(frames') /\ phase' \in Phases /\ already' \in [Promise -> BOOLEAN]
<1>1. CASE already[p]
  BY <1>1 DEF EnterWithChecks, Phases
<1>2. CASE ~already[p]
  BY <1>2, EnterTyped DEF EnterWithChecks
<1> QED BY <1>1, <1>2

\* and the functions of a capability.
LEMMA CallCapabilityTyped ==
  ASSUME NEW fs, CallsTyped(fs), phase = "run", NEW op \in Outcome,
         NEW c \in Promise \cup {None, Custom}, NEW v \in Values,
         Len(fs) > 0, fs[Len(fs)].op = "jobs",
         CallCapability(fs, op, c, v), already \in [Promise -> BOOLEAN]
  PROVE  CallsTyped(frames') /\ phase' \in Phases /\ already' \in [Promise -> BOOLEAN]
<1>1. CASE c \in Promise
  BY <1>1, EnterWithChecksTyped DEF CallCapability
<1>2. CASE c \notin Promise
  <2>1. Frame("custom", None, v) \in Calls
    BY DEF Frame, Calls
  <2>2. CallsTyped(Append(fs, Frame("custom", None, v)))
    BY <2>1, CallsAppend DEF Outcome
  <2> QED BY <1>2, <2>2 DEF CallCapability, Phases
<1> QED BY <1>1, <1>2

-----------------------------------------------------------------------------
(* Jobs and reactions: the types.                                          *)

LEMMA QueueTail ==
  ASSUME NEW q, QueueTyped(q), q # <<>>
  PROVE  /\ QueueTyped(Tail(q)) /\ Head(q) = q[1] /\ Head(q) \in Jobs /\ JobOK(Head(q))
         /\ Len(q) \in Nat \ {0} /\ Len(Tail(q)) = Len(q) - 1
         /\ \A i \in 1 .. Len(q) - 1 : Tail(q)[i] = q[i + 1]
<1>1. q \in Seq(Jobs) /\ Len(q) \in Nat \ {0}
  BY EmptyLen DEF QueueTyped
<1>2. /\ Tail(q) \in Seq(Jobs) /\ Head(q) = q[1] /\ Len(Tail(q)) = Len(q) - 1
      /\ \A i \in 1 .. Len(q) - 1 : Tail(q)[i] = q[i + 1]
  BY <1>1, TailProperties
<1>3. 1 \in 1 .. Len(q) /\ \A i \in 1 .. Len(q) - 1 : i + 1 \in 1 .. Len(q)
  BY <1>1
<1>4. Head(q) \in Jobs /\ JobOK(Head(q))
  BY <1>1, <1>2, <1>3, ElementOfSeq DEF QueueTyped
<1>5. \A i \in 1 .. Len(q) - 1 : JobOK(Tail(q)[i])
  BY <1>2, <1>3 DEF QueueTyped
<1> QED BY <1>1, <1>2, <1>4, <1>5 DEF QueueTyped

LEMMA QueueAppend ==
  ASSUME NEW q, QueueTyped(q), NEW j \in Jobs, JobOK(j)
  PROVE  LET u == Append(q, j)
         IN QueueTyped(u) /\ Extends(q, u, j)
<1> DEFINE u == Append(q, j)
<1>1. q \in Seq(Jobs) /\ Len(q) \in Nat
  BY EmptyLen DEF QueueTyped
<1>2. /\ u \in Seq(Jobs) /\ Len(u) = Len(q) + 1 /\ u[Len(q) + 1] = j
      /\ \A i \in 1 .. Len(q) : u[i] = q[i]
  BY <1>1, AppendFacts
<1> HIDE DEF u
<1>3. \A i \in 1 .. Len(q) + 1 : i \in 1 .. Len(q) \/ i = Len(q) + 1
  BY <1>1
<1>4. \A i \in 1 .. Len(u) : JobOK(u[i])
  BY <1>2, <1>3 DEF QueueTyped
<1> QED BY <1>1, <1>2, <1>4 DEF QueueTyped, Extends, u

\* The job of a reaction.
LEMMA JobFacts ==
  ASSUME NEW r \in Reaction, ReactionOK(r), NEW s \in {"fulfilled", "rejected"}, NEW v \in Values
  PROVE  LET j == Job(r, s, v)
         IN /\ j \in Jobs /\ JobOK(j) /\ j.id = r.id /\ j.to = r.to /\ j.v = v
            /\ j.handler = IF s = "fulfilled" THEN r.onFulfilled ELSE r.onRejected
            /\ j.handler # "thenable"
            /\ s = "fulfilled" => j.handler \notin {"thrower", "reject", "resume_throw"}
            /\ s = "rejected" => j.handler \notin {"identity", "resolve", "resume"}
<1> DEFINE j == Job(r, s, v)
<1>1. /\ j.id = r.id /\ j.to = r.to /\ j.v = v
      /\ j.handler = IF s = "fulfilled" THEN r.onFulfilled ELSE r.onRejected
  BY DEF Job
<1>2. /\ r.id \in Nat /\ r.to \in Promise \cup {None, Custom}
      /\ r.onFulfilled \in {"identity", "user", "resolve", "resume"}
      /\ r.onRejected \in {"thrower", "user", "reject", "resume_throw"}
  BY DEF Reaction
<1>3. j \in Jobs
  BY <1>2 DEF Job, Jobs
<1> HIDE DEF j
<1>4. JobOK(j)
  BY <1>1, <1>2 DEF JobOK, ReactionOK
<1>5. /\ j.handler # "thenable"
      /\ s = "fulfilled" => j.handler \notin {"thrower", "reject", "resume_throw"}
      /\ s = "rejected" => j.handler \notin {"identity", "resolve", "resume"}
  BY <1>1, <1>2
<1> QED BY <1>1, <1>3, <1>4, <1>5 DEF j

LEMMA ReactionsAppend ==
  ASSUME NEW rs, ReactionsTyped(rs), NEW p \in Promise, NEW r \in Reaction, ReactionOK(r)
  PROVE  LET w == [rs EXCEPT ![p] = Append(@, r)]
         IN /\ ReactionsTyped(w) /\ \A y \in Promise : y # p => w[y] = rs[y]
            /\ Extends(rs[p], w[p], r)
<1> DEFINE w == [rs EXCEPT ![p] = Append(@, r)]
<1>0. rs \in [Promise -> Seq(Reaction)]
  BY DEF ReactionsTyped
<1>1. rs[p] \in Seq(Reaction) /\ Len(rs[p]) \in Nat
  BY <1>0, EmptyLen
<1>2. /\ w[p] = Append(rs[p], r) /\ \A y \in Promise : y # p => w[y] = rs[y]
      /\ w \in [Promise -> Seq(Reaction)]
  BY <1>0, <1>1, AppendFacts
<1> HIDE DEF w
<1>3. /\ Len(w[p]) = Len(rs[p]) + 1 /\ w[p][Len(rs[p]) + 1] = r
      /\ \A i \in 1 .. Len(rs[p]) : w[p][i] = rs[p][i]
  BY <1>1, <1>2, AppendFacts
<1>4. \A i \in 1 .. Len(rs[p]) + 1 : i \in 1 .. Len(rs[p]) \/ i = Len(rs[p]) + 1
  BY <1>1
<1>5. \A i \in 1 .. Len(w[p]) : ReactionOK(w[p][i])
  BY <1>3, <1>4 DEF ReactionsTyped
<1>6. \A y \in Promise : \A i \in 1 .. Len(w[y]) : ReactionOK(w[y][i])
  BY <1>2, <1>5 DEF ReactionsTyped
<1> QED BY <1>1, <1>2, <1>3, <1>6 DEF ReactionsTyped, Extends, w

\* ecma_promise_do_then and ecma_promise_async_then.
LEMMA AddReactionTyped ==
  ASSUME NEW q, QueueTyped(q), ReactionsTyped(reactions), StatesTyped(state, result),
         source \in Seq(Promise \cup {None}), unhandled \in [Promise -> BOOLEAN],
         NEW p \in Promise, NEW r \in Reaction, ReactionOK(r), AddReaction(q, p, r)
  PROVE  /\ QueueTyped(queue') /\ ReactionsTyped(reactions')
         /\ source' \in Seq(Promise \cup {None}) /\ unhandled' \in [Promise -> BOOLEAN]
<1>1. source' \in Seq(Promise \cup {None})
  BY AppendFacts DEF AddReaction
<1>2. CASE state[p] = "pending"
  BY <1>1, <1>2, ReactionsAppend DEF AddReaction
<1>3. CASE state[p] # "pending"
  <2>1. state[p] \in {"fulfilled", "rejected"} /\ result[p] \in Values
    BY <1>3 DEF StatesTyped
  <2>2. Job(r, state[p], result[p]) \in Jobs /\ JobOK(Job(r, state[p], result[p]))
    BY <2>1, JobFacts
  <2>3. QueueTyped(Append(q, Job(r, state[p], result[p])))
    BY <2>2, QueueAppend
  <2> QED BY <1>1, <1>3, <2>3 DEF AddReaction
<1> QED BY <1>2, <1>3

\* ecma_promise_set_state, ecma_promise_set_result and ecma_promise_trigger_reactions.
LEMMA SettleFacts ==
  ASSUME Typed, NEW p \in Promise, NEW s \in {"fulfilled", "rejected"}, NEW v \in Values,
         state[p] = "pending", Settle(p, s, v)
  PROVE  /\ Settles(state, result, unhandled, reactions, queue, p, s, v,
                    state', result', unhandled', reactions', queue')
         /\ QueueTyped(queue') /\ ReactionsTyped(reactions') /\ StatesTyped(state', result')
         /\ unhandled' \in [Promise -> BOOLEAN]
         /\ \A k \in 1 .. Len(reactions[p]) :
              queue'[Len(queue) + k] = Job(reactions[p][k], s, v)
<1> DEFINE rs == reactions[p]
           js == [i \in DOMAIN reactions[p] |-> Job(reactions[p][i], s, v)]
<1>1. /\ rs \in Seq(Reaction) /\ Len(rs) \in Nat /\ DOMAIN rs = 1 .. Len(rs)
      /\ \A k \in 1 .. Len(rs) : rs[k] \in Reaction /\ ReactionOK(rs[k])
  <2>1. rs \in Seq(Reaction)
    BY DEF Typed, ReactionsTyped
  <2>2. \A k \in 1 .. Len(rs) : rs[k] \in Reaction
    BY <2>1, ElementOfSeq
  <2> QED BY <2>1, <2>2, EmptyLen, LenProperties DEF Typed, ReactionsTyped
<1>2. /\ state' = [state EXCEPT ![p] = s] /\ result' = [result EXCEPT ![p] = v]
      /\ queue' = queue \o js
      /\ unhandled' = [unhandled EXCEPT ![p] = (s = "rejected" /\ rs = <<>>)]
      /\ reactions' = [reactions EXCEPT ![p] = <<>>]
  BY DEF Settle
<1> HIDE DEF rs
<1>3. js \in Seq(Jobs) /\ Len(js) = Len(rs) /\ \A k \in 1 .. Len(rs) : js[k] = Job(rs[k], s, v)
  <2>1. \A k \in 1 .. Len(rs) : Job(rs[k], s, v) \in Jobs
    BY <1>1, JobFacts
  <2>2. js = [i \in 1 .. Len(rs) |-> Job(rs[i], s, v)]
    BY <1>1 DEF rs
  <2>3. js \in [1 .. Len(rs) -> Jobs]
    BY <2>1, <2>2
  <2> HIDE DEF js
  <2>4. js \in Seq(Jobs) /\ Len(js) = Len(rs)
    BY <1>1, <2>3, FunctionSeq
  <2> QED BY <2>2, <2>4
<1> HIDE DEF js
<1>4. queue \in Seq(Jobs) /\ Len(queue) \in Nat
  BY EmptyLen DEF Typed, QueueTyped
<1>5. /\ queue' \in Seq(Jobs) /\ Len(queue') = Len(queue) + Len(rs)
      /\ \A k \in 1 .. Len(queue) : queue'[k] = queue[k]
      /\ \A k \in 1 .. Len(rs) : queue'[Len(queue) + k] = Job(rs[k], s, v)
  <2>1. js \in Seq(Jobs) /\ queue \in Seq(Jobs)
    BY <1>3, <1>4
  <2>2. LET u == queue \o js
        IN /\ u \in Seq(Jobs) /\ Len(u) = Len(queue) + Len(js)
           /\ \A i \in 1 .. Len(queue) : u[i] = queue[i]
           /\ \A i \in 1 .. Len(js) : u[Len(queue) + i] = js[i]
    BY <2>1, ConcatFacts
  <2>3. queue' = queue \o js /\ Len(js) = Len(rs) /\ \A k \in 1 .. Len(rs) : js[k] = Job(rs[k], s, v)
    BY <1>2, <1>3
  <2> QED BY <2>2, <2>3
<1>6. \A k \in 1 .. Len(queue) + Len(rs) :
        k \in 1 .. Len(queue) \/ \E a \in 1 .. Len(rs) : k = Len(queue) + a
  <2> SUFFICES ASSUME NEW k \in 1 .. Len(queue) + Len(rs), k \notin 1 .. Len(queue)
               PROVE  \E a \in 1 .. Len(rs) : k = Len(queue) + a
    OBVIOUS
  <2>1. k - Len(queue) \in 1 .. Len(rs) /\ k = Len(queue) + (k - Len(queue))
    BY <1>1, <1>4
  <2> QED BY <2>1
<1>7. QueueTyped(queue')
  <2>1. \A k \in 1 .. Len(queue) : JobOK(queue'[k])
    BY <1>5 DEF Typed, QueueTyped
  <2>2. \A k \in 1 .. Len(rs) : JobOK(queue'[Len(queue) + k])
    BY <1>1, <1>5, JobFacts
  <2> QED BY <1>5, <1>6, <2>1, <2>2 DEF QueueTyped
<1>8. /\ state'[p] = s /\ result'[p] = v /\ reactions'[p] = <<>>
      /\ \A y \in Promise : y # p => /\ state'[y] = state[y] /\ result'[y] = result[y]
                                     /\ reactions'[y] = reactions[y]
      /\ state' \in [Promise -> {"pending", "fulfilled", "rejected"}]
      /\ result' \in [Promise -> Values \cup {None}]
      /\ reactions' \in [Promise -> Seq(Reaction)]
  BY <1>2, EmptySeq DEF Typed, StatesTyped, ReactionsTyped
<1>9. /\ unhandled' \in [Promise -> BOOLEAN] /\ unhandled'[p] = (s = "rejected" /\ rs = <<>>)
      /\ \A y \in Promise : y # p => unhandled'[y] = unhandled[y]
  BY <1>2 DEF Typed, FlagsTyped
<1>10. StatesTyped(state', result')
  BY <1>8 DEF Typed, StatesTyped
<1>11. Len(<<>>) = 0
  OBVIOUS
<1>12. ReactionsTyped(reactions')
  BY <1>8, <1>11 DEF Typed, ReactionsTyped
<1>13. rs = <<>> <=> Len(rs) = 0
  BY <1>1, EmptyLen
<1>14. \A k \in 1 .. Len(rs) :
         LET j == queue'[Len(queue) + k]
         IN /\ j.id = rs[k].id /\ j.v = v /\ j.handler # "thenable"
            /\ s = "fulfilled" => j.handler \notin {"thrower", "reject", "resume_throw"}
            /\ s = "rejected" => j.handler \notin {"identity", "resolve", "resume"}
  BY <1>1, <1>5, JobFacts
<1>15. unhandled'[p] <=> s = "rejected" /\ Len(rs) = 0
  BY <1>9, <1>13
<1>16. Settles(state, result, unhandled, reactions, queue, p, s, v,
               state', result', unhandled', reactions', queue')
  BY <1>5, <1>8, <1>9, <1>11, <1>14, <1>15 DEF Settles, rs
<1> QED BY <1>5, <1>7, <1>9, <1>10, <1>12, <1>16 DEF rs

\* The reactions of an async function and of a thenable job.
LEMMA AwaitReaction ==
  ASSUME NEW i \in Nat, NEW a \in Promise \cup {None}
  PROVE  LET r == [id |-> i, to |-> a, onFulfilled |-> "resume", onRejected |-> "resume_throw"]
         IN r \in Reaction /\ ReactionOK(r) /\ r.id = i
  BY DEF Reaction, ReactionOK

LEMMA AdoptReaction ==
  ASSUME NEW i \in Nat, NEW a \in Promise
  PROVE  LET r == [id |-> i, to |-> a, onFulfilled |-> "resolve", onRejected |-> "reject"]
         IN r \in Reaction /\ ReactionOK(r) /\ r.id = i
  BY DEF Reaction, ReactionOK

LEMMA ThenReaction ==
  ASSUME NEW i \in Nat, NEW a \in Promise \cup {None, Custom},
         NEW f \in Handlers("identity"), NEW g \in Handlers("thrower")
  PROVE  LET r == [id |-> i, to |-> a, onFulfilled |-> f, onRejected |-> g]
         IN r \in Reaction /\ ReactionOK(r) /\ r.id = i
  BY DEF Reaction, ReactionOK, Handlers

\* An await.
LEMMA AwaitTyped ==
  ASSUME Typed, NEW a \in Promise \cup {None}, NEW v \in Values, Await(a, v)
  PROVE  /\ QueueTyped(queue') /\ ReactionsTyped(reactions')
         /\ source' \in Seq(Promise \cup {None}) /\ unhandled' \in [Promise -> BOOLEAN]
<1> DEFINE r == [id |-> NextId, to |-> a, onFulfilled |-> "resume", onRejected |-> "resume_throw"]
<1>1. NextId \in Nat
  BY EmptyLen DEF NextId, Typed, HistoryTyped
<1>2. r \in Reaction /\ ReactionOK(r)
  BY <1>1, AwaitReaction
<1>3. CASE v \in Promise
  <2>1. AddReaction(queue, v, r)
    BY <1>3 DEF Await
  <2> HIDE DEF r
  <2> QED BY <1>2, <1>3, <2>1, AddReactionTyped DEF Typed, HistoryTyped, FlagsTyped
<1>4. CASE v \notin Promise
  <2>1. /\ queue' = Append(queue, Job(r, "fulfilled", v)) /\ source' = Append(source, None)
        /\ reactions' = reactions /\ unhandled' = unhandled
    BY <1>4 DEF Await
  <2> HIDE DEF r
  <2>2. Job(r, "fulfilled", v) \in Jobs /\ JobOK(Job(r, "fulfilled", v))
    BY <1>2, JobFacts
  <2> QED BY <2>1, <2>2, QueueAppend, AppendFacts DEF Typed, HistoryTyped, FlagsTyped
<1> QED BY <1>3, <1>4

\* The innermost call.
LEMMA TopFacts ==
  ASSUME Typed, NEW op, In(op)
  PROVE  /\ phase = "run" /\ frames # <<>> /\ CallsTyped(Below) /\ Top \in Calls /\ Top.op = op
         /\ op \in Outcome => Top.p \in Promise /\ Top.v \in Values
         /\ op = "executor" => Top.p \in Promise
         /\ op \in {"body", "create"} => Top.p \in Promise \cup {None}
         /\ op = "handler" => Top.p \in Promise \cup {None, Custom}
         /\ op \in {"handler", "custom"} => Len(Below) > 0 /\ Below[Len(Below)].op = "jobs"
<1>1. phase = "run" /\ frames # <<>> /\ Top.op = op
  BY DEF In
<1>2. /\ CallsTyped(Below) /\ Len(frames) \in Nat \ {0} /\ Len(Below) = Len(frames) - 1
      /\ Top \in Calls /\ CallOK(frames, Len(frames))
      /\ \A i \in 1 .. Len(frames) - 1 : Below[i] = frames[i]
  BY <1>1, CallsBelow DEF Typed
<1>3. Top.p \in Promise \cup {None, Custom}
  BY <1>2 DEF Calls
<1>4. /\ op \in Outcome => Top.p \in Promise /\ Top.v \in Values
      /\ op = "executor" => Top.p \in Promise
      /\ op \in {"body", "create"} => Top.p \in Promise \cup {None}
      /\ op \in {"handler", "custom"} => Len(frames) > 1 /\ frames[Len(frames) - 1].op = "jobs"
  BY <1>1, <1>2 DEF CallOK, Top
<1>5. Len(frames) > 1 => Len(frames) - 1 \in 1 .. Len(frames) - 1 /\ Len(Below) > 0
  BY <1>2
<1> QED BY <1>1, <1>2, <1>3, <1>4, <1>5

\* The first job.
LEMMA TakeFacts ==
  ASSUME Typed, NEW hs, TakeJob(hs)
  PROVE  /\ phase = "run" /\ frames # <<>> /\ Top.op = "jobs" /\ Len(frames) > 0
         /\ frames[Len(frames)].op = "jobs"
         /\ queue # <<>> /\ QueueTyped(Tail(queue)) /\ Head(queue) \in Jobs /\ JobOK(Head(queue))
         /\ Head(queue).handler \in hs /\ Head(queue) = queue[1]
         /\ ran' = IF Head(queue).id = 0 THEN ran ELSE Append(ran, Head(queue).id)
         /\ ran' \in Seq(Nat)
<1>1. /\ In("jobs") /\ queue # <<>> /\ Head(queue).handler \in hs
      /\ ran' = IF Head(queue).id = 0 THEN ran ELSE Append(ran, Head(queue).id)
  BY DEF TakeJob
<1>2. QueueTyped(Tail(queue)) /\ Head(queue) \in Jobs /\ JobOK(Head(queue)) /\ Head(queue) = queue[1]
  BY <1>1, QueueTail DEF Typed
<1>3. Head(queue).id \in Nat
  BY <1>2 DEF Jobs
<1>4. ran' \in Seq(Nat)
  BY <1>1, <1>3, AppendFacts DEF Typed, HistoryTyped
<1>5. phase = "run" /\ frames # <<>> /\ Top.op = "jobs" /\ Len(frames) > 0
  BY <1>1, EmptyLen DEF Typed, CallsTyped, In
<1>6. frames[Len(frames)].op = "jobs"
  BY <1>5 DEF Top
<1> QED BY <1>1, <1>2, <1>4, <1>5, <1>6

LEMMA InitTyped == Init => Typed
<1> SUFFICES ASSUME Init PROVE Typed
  OBVIOUS
<1>1. /\ <<>> \in Seq(Calls) /\ <<>> \in Seq(Jobs) /\ <<>> \in Seq(Reaction)
      /\ <<>> \in Seq(Promise \cup {None}) /\ <<>> \in Seq(Nat) /\ Len(<<>>) = 0
  BY EmptySeq
<1>2. CallsTyped(frames) /\ QueueTyped(queue)
  BY <1>1 DEF CallsTyped, QueueTyped, Init
<1>3. ReactionsTyped(reactions) /\ HistoryTyped(source, ran) 
  BY <1>1 DEF ReactionsTyped, HistoryTyped, Init
<1>4. StatesTyped(state, result) /\ FlagsTyped(kind, already, unhandled)
  BY DEF StatesTyped, FlagsTyped, Init
<1>5. PairsTyped(pairs, handed)
  BY DEF PairsTyped, Init
<1> QED BY <1>2, <1>3, <1>4, <1>5 DEF Typed, Phases, Init

\* The types, after what user code does,
LEMMA UserTyped ==
  ASSUME Typed, User
  PROVE  Typed'
<1>0. /\ CallsTyped(frames) /\ QueueTyped(queue) /\ ReactionsTyped(reactions)
      /\ HistoryTyped(source, ran) /\ StatesTyped(state, result)
      /\ FlagsTyped(kind, already, unhandled) /\ PairsTyped(pairs, handed)
      /\ phase \in Phases /\ already \in [Promise -> BOOLEAN]
  BY DEF Typed, FlagsTyped
<1>1. \A p \in Promise, op \in {"executor", "create"} : CallsTyped(Append(frames, Frame(op, p, None)))
  <2> SUFFICES ASSUME NEW p \in Promise, NEW op \in {"executor", "create"}
               PROVE  CallsTyped(Append(frames, Frame(op, p, None)))
    OBVIOUS
  <2>1. Frame(op, p, None) \in Calls
    BY DEF Frame, Calls
  <2> QED BY <1>0, <2>1, CallsAppend DEF Outcome
<1>2. \A p \in Promise, k \in {"plain", "async"}, al \in [Promise -> BOOLEAN] :
        FlagsTyped([kind EXCEPT ![p] = k], al, unhandled)
  BY <1>0 DEF FlagsTyped
<1>3. ASSUME NEW p \in Promise, CreatePromise(p) PROVE Typed'
  <2>1. /\ kind' = [kind EXCEPT ![p] = "plain"] /\ frames' = Append(frames, Frame("executor", p, None))
        /\ pairs' = [pairs EXCEPT ![p] = 1] /\ handed' = [handed EXCEPT ![p] = {1}]
        /\ UNCHANGED <<state, already, unhandled, result, reactions, queue, history, phase>>
    BY <1>3 DEF CreatePromise
  <2>3. PairsTyped(pairs', handed')
    BY <1>0, <2>1 DEF PairsTyped
  <2> QED BY <1>0, <1>1, <1>2, <2>1, <2>3 DEF Typed, history
<1>4. ASSUME NEW p \in Promise, ApiCreatePromise(p) PROVE Typed'
  BY <1>0, <1>2, <1>4 DEF ApiCreatePromise, Typed, history, resolverVars
<1>5. ASSUME NEW p \in Promise, NEW v \in Values, AsyncCall(p, v) PROVE Typed'
  <2>1. /\ kind' = [kind EXCEPT ![p] = "async"] /\ Await(p, v)
        /\ frames' = Append(frames, Frame("create", p, None))
        /\ UNCHANGED <<state, already, result, resolverVars, ran, phase>>
    BY <1>5 DEF AsyncCall, CreateAndAwait
  <2>2. /\ QueueTyped(queue') /\ ReactionsTyped(reactions')
        /\ source' \in Seq(Promise \cup {None}) /\ unhandled' \in [Promise -> BOOLEAN]
    BY <2>1, AwaitTyped
  <2>3. FlagsTyped(kind', already', unhandled')
    BY <1>0, <2>1, <2>2 DEF FlagsTyped
  <2>4. HistoryTyped(source', ran')
    BY <1>0, <2>1, <2>2 DEF HistoryTyped
  <2> QED BY <1>0, <1>1, <2>1, <2>2, <2>3, <2>4 DEF Typed, resolverVars
<1>6. ASSUME NEW p \in Promise, NEW op \in Outcome, NEW v \in Values, ApiSettle(p, op, v)
      PROVE  Typed'
  <2>1. /\ phase = "run" /\ EnterWithChecks(frames, op, p, v)
        /\ UNCHANGED <<kind, state, unhandled, result, reactions, queue, resolverVars, history>>
    BY <1>6 DEF ApiSettle, MayCall, UserRuns
  <2>2. CallsTyped(frames') /\ phase' \in Phases /\ already' \in [Promise -> BOOLEAN]
    BY <1>0, <2>1, EnterWithChecksTyped
  <2>3. FlagsTyped(kind', already', unhandled')
    BY <1>0, <2>1, <2>2 DEF FlagsTyped
  <2> QED BY <1>0, <2>1, <2>2, <2>3 DEF Typed, resolverVars, history
<1>7. ASSUME NEW p \in Promise, NEW op \in Outcome, NEW v \in Values, AsyncCallExits(p, op, v)
      PROVE  Typed'
  <2>1. /\ phase = "run" /\ Enter(frames, op, p, v) /\ kind' = [kind EXCEPT ![p] = "async"]
        /\ UNCHANGED <<state, already, unhandled, result, reactions, queue, resolverVars, history>>
    BY <1>7 DEF AsyncCallExits, MayCall, UserRuns
  <2>2. CallsTyped(frames') /\ phase' \in Phases
    BY <1>0, <2>1, EnterTyped
  <2> QED BY <1>0, <1>2, <2>1, <2>2 DEF Typed, resolverVars, history
<1>8. ASSUME NEW p \in Promise, NEW op \in Outcome, NEW v \in Values, NEW g, CallResolver(p, g, op, v)
      PROVE  Typed'
  <2>1. /\ phase = "run" /\ EnterWithChecks(frames, op, p, v)
        /\ UNCHANGED <<kind, state, unhandled, result, reactions, queue, resolverVars, history>>
    BY <1>8 DEF CallResolver, MayCall, UserRuns
  <2>2. CallsTyped(frames') /\ phase' \in Phases /\ already' \in [Promise -> BOOLEAN]
    BY <1>0, <2>1, EnterWithChecksTyped
  <2>3. FlagsTyped(kind', already', unhandled')
    BY <1>0, <2>1, <2>2 DEF FlagsTyped
  <2> QED BY <1>0, <2>1, <2>2, <2>3 DEF Typed, resolverVars, history
<1>9. ASSUME NEW p \in Promise, NEW f \in Handlers("identity"), NEW r \in Handlers("thrower"),
             NEW c \in Promise \cup {None} \cup Foreign, Then(p, f, r, c)
      PROVE  Typed'
  <2> DEFINE x == [id |-> NextId, to |-> c, onFulfilled |-> f, onRejected |-> r]
  <2>1. /\ kind' = IF c \in Promise THEN [kind EXCEPT ![c] = "plain"] ELSE kind
        /\ pairs' = IF c \in Promise THEN [pairs EXCEPT ![c] = 1] ELSE pairs
        /\ c \in Promise => kind[c] = "unborn"
        /\ AddReaction(queue, p, x)
        /\ UNCHANGED <<state, already, result, frames, handed, ran, phase>>
    BY <1>9 DEF Then
  <2>2. NextId \in Nat /\ c \in Promise \cup {None, Custom}
    BY <1>0, EmptyLen, KindsAssumption DEF NextId, HistoryTyped
  <2>3. x \in Reaction /\ ReactionOK(x)
    BY <2>2, ThenReaction
  <2> HIDE DEF x
  <2>4. /\ QueueTyped(queue') /\ ReactionsTyped(reactions')
        /\ source' \in Seq(Promise \cup {None}) /\ unhandled' \in [Promise -> BOOLEAN]
    BY <1>0, <2>1, <2>3, AddReactionTyped DEF FlagsTyped, HistoryTyped
  <2>5. FlagsTyped(kind', already', unhandled')
    BY <1>0, <2>1, <2>4 DEF FlagsTyped
  <2>6. HistoryTyped(source', ran')
    BY <1>0, <2>1, <2>4 DEF HistoryTyped
  <2>7. PairsTyped(pairs', handed')
    BY <1>0, <2>1 DEF PairsTyped
  <2> QED BY <1>0, <2>1, <2>4, <2>5, <2>6, <2>7 DEF Typed
<1>10. ASSUME RunJobs PROVE Typed'
  <2>1. Frame("jobs", None, None) \in Calls
    BY DEF Frame, Calls
  <2>2. CallsTyped(Append(frames, Frame("jobs", None, None)))
    BY <1>0, <2>1, CallsAppend DEF Outcome
  <2> QED BY <1>0, <1>10, <2>2 DEF Typed, RunJobs, promiseVars, resolverVars, history
<1>11. ASSUME Cleanup PROVE Typed'
  <2>1. QueueTyped(<<>>)
    BY EmptySeq DEF QueueTyped
  <2> QED BY <1>0, <1>11, <2>1 DEF Typed, Cleanup, promiseVars, resolverVars, history, Phases
<1> QED BY <1>3, <1>4, <1>5, <1>6, <1>7, <1>8, <1>9, <1>10, <1>11 DEF User

\* after calls go on,
LEMMA ReturnTyped ==
  ASSUME Typed, Return
  PROVE  Typed'
<1>0. /\ CallsTyped(frames) /\ QueueTyped(queue) /\ ReactionsTyped(reactions)
      /\ HistoryTyped(source, ran) /\ StatesTyped(state, result)
      /\ FlagsTyped(kind, already, unhandled) /\ PairsTyped(pairs, handed)
      /\ phase \in Phases /\ already \in [Promise -> BOOLEAN]
  BY DEF Typed, FlagsTyped
<1>1. ASSUME NEW s \in {"fulfilled", "rejected"}, NEW op \in Outcome, In(op), SettleTop(s) PROVE Typed'
  <2>1. phase = "run" /\ CallsTyped(Below) /\ Top.p \in Promise /\ Top.v \in Values
    BY <1>1, TopFacts
  <2>2. frames' = Below /\ UNCHANGED <<kind, already, resolverVars, history>>
    BY <1>1 DEF SettleTop
  <2>3. CASE state[Top.p] = "pending"
    <3>1. Settle(Top.p, s, Top.v) /\ phase' = phase
      BY <1>1, <2>3 DEF SettleTop
    <3>2. /\ QueueTyped(queue') /\ ReactionsTyped(reactions') /\ StatesTyped(state', result')
          /\ unhandled' \in [Promise -> BOOLEAN]
      BY <2>1, <2>3, <3>1, SettleFacts
    <3>3. FlagsTyped(kind', already', unhandled')
      BY <1>0, <2>2, <3>2 DEF FlagsTyped
    <3> QED BY <1>0, <2>1, <2>2, <3>1, <3>2, <3>3 DEF Typed, resolverVars, history
  <2>4. CASE state[Top.p] # "pending"
    <3>1. phase' = "assert" /\ UNCHANGED <<state, result, queue, unhandled, reactions>>
      BY <1>1, <2>4 DEF SettleTop
    <3> QED BY <1>0, <2>1, <2>2, <3>1 DEF Typed, resolverVars, history, Phases
  <2> QED BY <2>3, <2>4
<1>2. ASSUME RejectReturns PROVE Typed'
  BY <1>1, <1>2 DEF RejectReturns, Outcome
<1>3. ASSUME FulfillPlain PROVE Typed'
  BY <1>1, <1>3 DEF FulfillPlain, Outcome
<1>4. ASSUME FulfillThenable PROVE Typed'
  <2>1. In("fulfill") /\ "fulfill" \in Outcome
    BY <1>4 DEF FulfillThenable, Outcome
  <2>2. phase = "run" /\ CallsTyped(Below) /\ Top.p \in Promise /\ Top.v \in Values
    BY <2>1, TopFacts
  <2> DEFINE j == [id |-> 0, to |-> Top.p, v |-> Top.v, handler |-> "thenable"]
  <2>3. /\ queue' = Append(queue, j) /\ frames' = Below /\ Top.v \in Promise \cup Thenable
        /\ UNCHANGED <<promiseVars, resolverVars, history, phase>>
    BY <1>4 DEF FulfillThenable
  <2>4. j \in Jobs /\ JobOK(j)
    BY <2>2, <2>3 DEF Jobs, JobOK
  <2> HIDE DEF j
  <2>5. QueueTyped(queue')
    BY <1>0, <2>3, <2>4, QueueAppend
  <2> QED BY <1>0, <2>2, <2>3, <2>5 DEF Typed, promiseVars, resolverVars, history
<1>5. ASSUME NEW e \in Errors, FulfillRejects(e) PROVE Typed'
  <2>1. In("fulfill") /\ "fulfill" \in Outcome /\ "reject" \in Outcome /\ e \in Values
    BY <1>5, PromiseValues DEF FulfillRejects, Outcome, Errors
  <2>2. phase = "run" /\ CallsTyped(Below) /\ Top.p \in Promise
    BY <2>1, TopFacts
  <2>3. /\ Enter(Below, "reject", Top.p, e)
        /\ UNCHANGED <<promiseVars, queue, resolverVars, history>>
    BY <1>5 DEF FulfillRejects
  <2>4. CallsTyped(frames') /\ phase' \in Phases
    BY <2>1, <2>2, <2>3, EnterTyped
  <2> QED BY <1>0, <2>3, <2>4 DEF Typed, promiseVars, resolverVars, history
<1>6. ASSUME NEW e \in Errors, ExecutorThrows(e) PROVE Typed'
  <2>1. In("executor") /\ "reject" \in Outcome /\ e \in Values
    BY <1>6, PromiseValues DEF ExecutorThrows, Outcome, Errors
  <2>2. phase = "run" /\ CallsTyped(Below) /\ Top.p \in Promise
    BY <2>1, TopFacts
  <2>3. /\ EnterWithChecks(Below, "reject", Top.p, e)
        /\ UNCHANGED <<kind, state, unhandled, result, reactions, queue, resolverVars, history>>
    BY <1>6 DEF ExecutorThrows
  <2>4. CallsTyped(frames') /\ phase' \in Phases /\ already' \in [Promise -> BOOLEAN]
    BY <1>0, <2>1, <2>2, <2>3, EnterWithChecksTyped
  <2>5. FlagsTyped(kind', already', unhandled')
    BY <1>0, <2>3, <2>4 DEF FlagsTyped
  <2> QED BY <1>0, <2>3, <2>4, <2>5 DEF Typed, resolverVars, history
<1>7. ASSUME NEW op, In(op), frames' = Below, UNCHANGED <<promiseVars, queue, resolverVars, history, phase>>
      PROVE  Typed'
  BY <1>0, <1>7, TopFacts DEF Typed, promiseVars, resolverVars, history
<1>8. ASSUME ExecutorReturns \/ CreateReturns \/ CustomReturns PROVE Typed'
  BY <1>7, <1>8 DEF ExecutorReturns, CreateReturns, CustomReturns
<1>9. \A p \in Promise : FlagsTyped([kind EXCEPT ![p] = "orphan"], already, unhandled)
  BY <1>0 DEF FlagsTyped
<1>10. ASSUME In("body") PROVE FlagsTyped(Orphan, already, unhandled)
  <2>1. Top.p \in Promise \cup {None}
    BY <1>10, TopFacts
  <2> QED BY <1>0, <1>9, <2>1 DEF Orphan
<1>11. ASSUME NEW v \in Values, BodyAwaits(v) PROVE Typed'
  <2>1. /\ In("body") /\ Await(Top.p, v) /\ frames' = Below
        /\ UNCHANGED <<kind, state, already, result, resolverVars, ran, phase>>
    BY <1>11 DEF BodyAwaits
  <2>2. phase = "run" /\ CallsTyped(Below) /\ Top.p \in Promise \cup {None}
    BY <2>1, TopFacts
  <2>3. /\ QueueTyped(queue') /\ ReactionsTyped(reactions')
        /\ source' \in Seq(Promise \cup {None}) /\ unhandled' \in [Promise -> BOOLEAN]
    BY <2>1, <2>2, AwaitTyped
  <2>4. FlagsTyped(kind', already', unhandled') /\ HistoryTyped(source', ran')
    BY <1>0, <2>1, <2>3 DEF FlagsTyped, HistoryTyped
  <2> QED BY <1>0, <2>1, <2>2, <2>3, <2>4 DEF Typed, resolverVars
<1>12. ASSUME NEW v \in Values, BodyAwaitsAnew(v) PROVE Typed'
  <2>1. /\ In("body") /\ Await(None, v) /\ frames' = Append(Below, Frame("create", None, None))
        /\ kind' = Orphan
        /\ UNCHANGED <<state, already, result, resolverVars, ran, phase>>
    BY <1>12 DEF BodyAwaitsAnew, CreateAndAwait
  <2>2. phase = "run" /\ CallsTyped(Below)
    BY <2>1, TopFacts
  <2>3. /\ QueueTyped(queue') /\ ReactionsTyped(reactions')
        /\ source' \in Seq(Promise \cup {None}) /\ unhandled' \in [Promise -> BOOLEAN]
    BY <2>1, AwaitTyped
  <2>4. FlagsTyped(kind', already', unhandled') /\ HistoryTyped(source', ran')
    BY <1>0, <1>10, <2>1, <2>3 DEF FlagsTyped, HistoryTyped
  <2>5. Frame("create", None, None) \in Calls
    BY DEF Frame, Calls
  <2>6. CallsTyped(frames')
    BY <2>1, <2>2, <2>5, CallsAppend DEF Outcome
  <2> QED BY <1>0, <2>1, <2>3, <2>4, <2>6 DEF Typed, resolverVars
<1>13. ASSUME BodyExitsAnew PROVE Typed'
  <2>1. /\ In("body") /\ frames' = Append(Below, Frame("create", None, None)) /\ kind' = Orphan
        /\ UNCHANGED <<state, already, unhandled, result, reactions, queue, resolverVars, history, phase>>
    BY <1>13 DEF BodyExitsAnew
  <2>2. CallsTyped(Below)
    BY <2>1, TopFacts
  <2>3. Frame("create", None, None) \in Calls
    BY DEF Frame, Calls
  <2>4. CallsTyped(frames')
    BY <2>1, <2>2, <2>3, CallsAppend DEF Outcome
  <2> QED BY <1>0, <1>10, <2>1, <2>4 DEF Typed, resolverVars, history
<1>14. ASSUME NEW op \in Outcome, NEW v \in Values, BodyExits(op, v) PROVE Typed'
  <2>1. /\ In("body") /\ Top.p # None /\ Enter(Below, op, Top.p, v)
        /\ UNCHANGED <<promiseVars, queue, resolverVars, history>>
    BY <1>14 DEF BodyExits
  <2>2. phase = "run" /\ CallsTyped(Below) /\ Top.p \in Promise
    BY <2>1, TopFacts
  <2>3. CallsTyped(frames') /\ phase' \in Phases
    BY <2>1, <2>2, EnterTyped
  <2> QED BY <1>0, <2>1, <2>3 DEF Typed, promiseVars, resolverVars, history
<1>15. ASSUME NEW op \in Outcome, NEW v \in Values, HandlerReturns(op, v) PROVE Typed'
  <2>1. /\ In("handler") /\ CallCapability(Below, op, Top.p, v)
        /\ UNCHANGED <<kind, state, unhandled, result, reactions, queue, resolverVars, history>>
    BY <1>15 DEF HandlerReturns
  <2>2. /\ phase = "run" /\ CallsTyped(Below) /\ Top.p \in Promise \cup {None, Custom}
        /\ Len(Below) > 0 /\ Below[Len(Below)].op = "jobs"
    BY <2>1, TopFacts
  <2>3. CallsTyped(frames') /\ phase' \in Phases /\ already' \in [Promise -> BOOLEAN]
    BY <1>0, <2>1, <2>2, CallCapabilityTyped
  <2>4. FlagsTyped(kind', already', unhandled')
    BY <1>0, <2>1, <2>3 DEF FlagsTyped
  <2> QED BY <1>0, <2>1, <2>3, <2>4 DEF Typed, resolverVars, history
<1>16. ASSUME CustomThrows PROVE Typed'
  <2>1. /\ In("custom") /\ frames' = SubSeq(frames, 1, Len(frames) - 2)
        /\ UNCHANGED <<promiseVars, queue, resolverVars, history, phase>>
    BY <1>16 DEF CustomThrows
  <2>2. CallsTyped(Below) /\ Len(Below) > 0 /\ frames # <<>>
    BY <2>1, TopFacts
  <2>3. /\ Len(frames) \in Nat \ {0} /\ Len(Below) = Len(frames) - 1
        /\ frames \in Seq(Calls)
    <3>1. frames \in Seq(Calls)
      BY <1>0 DEF CallsTyped
    <3> QED BY <1>0, <2>2, <3>1, CallsBelow
  <2>4. PICK n \in Nat : n = Len(frames) - 2 /\ n <= Len(frames) /\ n + 2 = Len(frames)
    <3>1. PICK l \in Nat \ {0} : l = Len(frames) /\ l - 1 > 0
      BY <2>2, <2>3
    <3>2. l - 2 \in Nat /\ l - 2 <= l /\ (l - 2) + 2 = l
      BY <3>1
    <3> QED BY <3>1, <3>2
  <2>5. /\ frames' \in Seq(Calls) /\ Len(frames') = n
        /\ \A i \in 1 .. n : frames'[i] = frames[i]
    <3>1. \A i \in 1 .. n : frames[i] \in Calls
      BY <2>3, <2>4, ElementOfSeq
    <3>2. /\ SubSeq(frames, 1, n) \in Seq(Calls)
          /\ Len(SubSeq(frames, 1, n)) = IF 1 <= n THEN n - 1 + 1 ELSE 0
          /\ \A i \in 1 .. n - 1 + 1 : SubSeq(frames, 1, n)[i] = frames[1 + i - 1]
      BY <2>3, <3>1, SubSeqProperties
    <3> QED BY <2>1, <2>4, <3>2
  <2>6. CallsTyped(frames')
    BY <1>0, <2>4, <2>5, CallsPrefix
  <2> QED BY <1>0, <2>1, <2>6 DEF Typed, promiseVars, resolverVars, history
<1> QED BY <1>2, <1>3, <1>4, <1>5, <1>6, <1>8, <1>11, <1>12, <1>13, <1>14, <1>15, <1>16 DEF Return

\* and after jobs.
LEMMA JobTyped ==
  ASSUME Typed, JobStep
  PROVE  Typed'
<1>0. /\ CallsTyped(frames) /\ QueueTyped(queue) /\ ReactionsTyped(reactions)
      /\ HistoryTyped(source, ran) /\ StatesTyped(state, result)
      /\ FlagsTyped(kind, already, unhandled) /\ PairsTyped(pairs, handed)
      /\ phase \in Phases /\ already \in [Promise -> BOOLEAN]
  BY DEF Typed, FlagsTyped
<1>1. ASSUME DefaultReactionJob PROVE Typed'
  <2> DEFINE op == IF Head(queue).handler = "identity" THEN "fulfill" ELSE "reject"
  <2>1. /\ TakeJob({"identity", "thrower"}) /\ queue' = Tail(queue)
        /\ CallCapability(frames, op, Head(queue).to, Head(queue).v)
        /\ UNCHANGED <<kind, state, unhandled, result, reactions, resolverVars, source>>
    BY <1>1 DEF DefaultReactionJob
  <2>2. op \in Outcome
    BY DEF Outcome
  <2> HIDE DEF op
  <2>3. /\ phase = "run" /\ Len(frames) > 0 /\ frames[Len(frames)].op = "jobs"
        /\ QueueTyped(Tail(queue)) /\ Head(queue) \in Jobs /\ ran' \in Seq(Nat)
    BY <2>1, TakeFacts
  <2>4. Head(queue).to \in Promise \cup {None, Custom} /\ Head(queue).v \in Values
    BY <2>3 DEF Jobs
  <2>5. CallsTyped(frames') /\ phase' \in Phases /\ already' \in [Promise -> BOOLEAN]
    BY <1>0, <2>1, <2>2, <2>3, <2>4, CallCapabilityTyped
  <2>6. FlagsTyped(kind', already', unhandled') /\ HistoryTyped(source', ran')
    BY <1>0, <2>1, <2>3, <2>5 DEF FlagsTyped, HistoryTyped
  <2> QED BY <1>0, <2>1, <2>3, <2>5, <2>6 DEF Typed, resolverVars
<1>2. ASSUME UserReactionJob PROVE Typed'
  <2>1. /\ TakeJob({"user"}) /\ queue' = Tail(queue)
        /\ frames' = Append(frames, Frame("handler", Head(queue).to, None))
        /\ UNCHANGED <<promiseVars, resolverVars, source, phase>>
    BY <1>2 DEF UserReactionJob
  <2>2. /\ Len(frames) > 0 /\ frames[Len(frames)].op = "jobs"
        /\ QueueTyped(Tail(queue)) /\ Head(queue) \in Jobs /\ ran' \in Seq(Nat)
    BY <2>1, TakeFacts
  <2>3. Frame("handler", Head(queue).to, None) \in Calls
    BY <2>2 DEF Frame, Calls, Jobs
  <2>4. CallsTyped(frames')
    BY <1>0, <2>1, <2>2, <2>3, CallsAppend DEF Outcome
  <2>5. HistoryTyped(source', ran')
    BY <1>0, <2>1, <2>2 DEF HistoryTyped
  <2> QED BY <1>0, <2>1, <2>2, <2>4, <2>5 DEF Typed, promiseVars, resolverVars
<1>3. ASSUME ResolverReactionJob PROVE Typed'
  <2> DEFINE op == IF Head(queue).handler = "resolve" THEN "fulfill" ELSE "reject"
  <2>1. /\ TakeJob({"resolve", "reject"}) /\ queue' = Tail(queue)
        /\ EnterWithChecks(frames, op, Head(queue).to, Head(queue).v)
        /\ UNCHANGED <<kind, state, unhandled, result, reactions, resolverVars, source>>
    BY <1>3 DEF ResolverReactionJob
  <2>2. op \in Outcome
    BY DEF Outcome
  <2> HIDE DEF op
  <2>3. /\ phase = "run" /\ Head(queue).handler \in {"resolve", "reject"} /\ JobOK(Head(queue))
        /\ QueueTyped(Tail(queue)) /\ Head(queue) \in Jobs /\ ran' \in Seq(Nat)
    BY <2>1, TakeFacts
  <2>4. Head(queue).to \in Promise /\ Head(queue).v \in Values
    BY <2>3 DEF Jobs, JobOK
  <2>5. CallsTyped(frames') /\ phase' \in Phases /\ already' \in [Promise -> BOOLEAN]
    BY <1>0, <2>1, <2>2, <2>3, <2>4, EnterWithChecksTyped
  <2>6. FlagsTyped(kind', already', unhandled') /\ HistoryTyped(source', ran')
    BY <1>0, <2>1, <2>3, <2>5 DEF FlagsTyped, HistoryTyped
  <2> QED BY <1>0, <2>1, <2>3, <2>5, <2>6 DEF Typed, resolverVars
<1>4. ASSUME AsyncReactionJob PROVE Typed'
  <2>1. /\ TakeJob({"resume", "resume_throw"}) /\ queue' = Tail(queue)
        /\ frames' = Append(frames, Frame("body", Head(queue).to, None))
        /\ UNCHANGED <<promiseVars, resolverVars, source, phase>>
    BY <1>4 DEF AsyncReactionJob
  <2>2. /\ Head(queue).handler \in {"resume", "resume_throw"} /\ JobOK(Head(queue))
        /\ QueueTyped(Tail(queue)) /\ Head(queue) \in Jobs /\ ran' \in Seq(Nat)
    BY <2>1, TakeFacts
  <2>3. Frame("body", Head(queue).to, None) \in Calls /\ Head(queue).to \in Promise \cup {None}
    BY <2>2 DEF Frame, Calls, Jobs, JobOK
  <2>4. CallsTyped(frames')
    BY <1>0, <2>1, <2>3, CallsAppend DEF Outcome
  <2>5. HistoryTyped(source', ran')
    BY <1>0, <2>1, <2>2 DEF HistoryTyped
  <2> QED BY <1>0, <2>1, <2>2, <2>4, <2>5 DEF Typed, promiseVars, resolverVars
<1>5. ASSUME ThenableJob PROVE Typed'
  <2> DEFINE p == Head(queue).to
  <2>1. /\ TakeJob({"thenable"}) /\ queue' = Tail(queue)
        /\ already' = [already EXCEPT ![p] = FALSE] /\ pairs' = [pairs EXCEPT ![p] = @ + 1]
        /\ handed' = [handed EXCEPT ![p] = @ \cup {pairs[p] + 1}]
        /\ frames' = Append(frames, Frame("executor", p, None))
        /\ UNCHANGED <<kind, state, unhandled, result, reactions, source, phase>>
    BY <1>5 DEF ThenableJob
  <2>2. /\ Head(queue).handler \in {"thenable"} /\ JobOK(Head(queue))
        /\ QueueTyped(Tail(queue)) /\ Head(queue) \in Jobs /\ ran' \in Seq(Nat)
    BY <2>1, TakeFacts
  <2>3. Frame("executor", p, None) \in Calls /\ p \in Promise
    BY <2>2 DEF Frame, Calls, Jobs, JobOK
  <2> HIDE DEF p
  <2>4. CallsTyped(frames')
    BY <1>0, <2>1, <2>3, CallsAppend DEF Outcome
  <2>5. FlagsTyped(kind', already', unhandled') /\ HistoryTyped(source', ran')
    BY <1>0, <2>1, <2>2 DEF FlagsTyped, HistoryTyped
  <2>6. PairsTyped(pairs', handed')
    BY <1>0, <2>1, <2>3 DEF PairsTyped
  <2> QED BY <1>0, <2>1, <2>2, <2>4, <2>5, <2>6 DEF Typed
<1>6. ASSUME AdoptJob PROVE Typed'
  <2> DEFINE p == Head(queue).to
             x == [id |-> NextId, to |-> p, onFulfilled |-> "resolve", onRejected |-> "reject"]
  <2>1. /\ TakeJob({"thenable"}) /\ Head(queue).v \in Promise
        /\ already' = [already EXCEPT ![p] = FALSE] /\ pairs' = [pairs EXCEPT ![p] = @ + 1]
        /\ AddReaction(Tail(queue), Head(queue).v, x)
        /\ UNCHANGED <<kind, state, result, frames, handed, phase>>
    BY <1>6 DEF AdoptJob
  <2>2. /\ Head(queue).handler \in {"thenable"} /\ JobOK(Head(queue))
        /\ QueueTyped(Tail(queue)) /\ Head(queue) \in Jobs /\ ran' \in Seq(Nat)
    BY <2>1, TakeFacts
  <2>3. p \in Promise /\ NextId \in Nat
    BY <1>0, <2>2, EmptyLen DEF JobOK, NextId, HistoryTyped
  <2>4. x \in Reaction /\ ReactionOK(x)
    BY <2>3, AdoptReaction
  <2> HIDE DEF p, x
  <2>5. /\ QueueTyped(queue') /\ ReactionsTyped(reactions')
        /\ source' \in Seq(Promise \cup {None}) /\ unhandled' \in [Promise -> BOOLEAN]
    BY <1>0, <2>1, <2>2, <2>4, AddReactionTyped DEF FlagsTyped, HistoryTyped
  <2>6. FlagsTyped(kind', already', unhandled') /\ HistoryTyped(source', ran')
    BY <1>0, <2>1, <2>2, <2>5 DEF FlagsTyped, HistoryTyped
  <2>7. PairsTyped(pairs', handed')
    BY <1>0, <2>1, <2>3 DEF PairsTyped
  <2> QED BY <1>0, <2>1, <2>5, <2>6, <2>7 DEF Typed
<1>7. ASSUME JobsDone PROVE Typed'
  BY <1>0, <1>7, TopFacts DEF JobsDone, Typed, promiseVars, resolverVars, history
<1> QED BY <1>1, <1>2, <1>3, <1>4, <1>5, <1>6, <1>7 DEF JobStep

LEMMA StepTyped == Typed /\ [Next]_vars => Typed'
<1>1. Typed /\ UNCHANGED vars => Typed'
  BY DEF Typed, vars, promiseVars, resolverVars, history
<1> QED BY <1>1, UserTyped, ReturnTyped, JobTyped DEF Next, Terminated

-----------------------------------------------------------------------------
(* Where reactions are, step by step.                                      *)

LEMMA Sized ==
  ASSUME NEW rs, NEW q, NEW src, NEW rn, ReactionsTyped(rs), QueueTyped(q), HistoryTyped(src, rn)
  PROVE  Sizes(rs, q, src, rn)
<1>1. /\ rs \in [Promise -> Seq(Reaction)] /\ q \in Seq(Jobs)
      /\ src \in Seq(Promise \cup {None}) /\ rn \in Seq(Nat)
  BY DEF ReactionsTyped, QueueTyped, HistoryTyped
<1>2. Len(q) \in Nat /\ Len(src) \in Nat /\ Len(rn) \in Nat
  BY <1>1, EmptyLen
<1>3. \A k \in 1 .. Len(q) : q[k].id \in Nat
  <2>1. \A k \in 1 .. Len(q) : q[k] \in Jobs
    BY <1>1, ElementOfSeq
  <2> QED BY <2>1 DEF Jobs
<1>4. ASSUME NEW p \in Promise
      PROVE  Len(rs[p]) \in Nat /\ \A k \in 1 .. Len(rs[p]) : rs[p][k].id \in Nat
  <2>1. rs[p] \in Seq(Reaction)
    BY <1>1
  <2>2. Len(rs[p]) \in Nat /\ \A k \in 1 .. Len(rs[p]) : rs[p][k] \in Reaction
    BY <2>1, EmptyLen, ElementOfSeq
  <2> QED BY <2>2 DEF Reaction
<1>5. \A i \in 1 .. Len(src) : src[i] \in Promise \cup {None}
  BY <1>1, ElementOfSeq
<1>6. \A l \in 1 .. Len(rn) : rn[l] \in Nat
  BY <1>1, ElementOfSeq
<1> QED BY <1>2, <1>3, <1>4, <1>5, <1>6 DEF Sizes

\* Steps that leave promises, reactions and the queue alone.
LEMMA PlacesSame ==
  ASSUME PlacesOK, UNCHANGED <<state, result, unhandled, reactions, queue, source, ran>>,
         phase' = "run" => phase = "run"
  PROVE  PlacesOK'
  BY DEF PlacesOK

\* A reaction is added while jobs q are in the queue.
LEMMA AddReactionPlaces ==
  ASSUME NEW q, NEW rn, QueueTyped(q), ReactionsTyped(reactions), StatesTyped(state, result),
         HistoryTyped(source, rn), unhandled \in [Promise -> BOOLEAN],
         Places(state, result, unhandled, reactions, q, source, rn),
         NEW p \in Promise, NEW r \in Reaction, ReactionOK(r), r.id = NextId, AddReaction(q, p, r)
  PROVE  /\ Places(state, result, unhandled', reactions', queue', source', rn)
         /\ Kept(reactions, q, source, rn) => Kept(reactions', queue', source', rn)
<1>0. Sizes(reactions, q, source, rn) /\ p # None
  BY Sized, PromiseValues
<1>1. Extends(source, source', p)
  BY AppendFacts DEF AddReaction, HistoryTyped, Extends
<1>2. CASE state[p] = "pending"
  <2>1. reactions' = [reactions EXCEPT ![p] = Append(@, r)] /\ queue' = q /\ unhandled' = unhandled
    BY <1>2 DEF AddReaction
  <2>2. /\ \A y \in Promise : y # p => reactions'[y] = reactions[y]
        /\ Extends(reactions[p], reactions'[p], r)
    BY <2>1, ReactionsAppend
  <2>3. r.id = Len(source) + 1
    BY DEF NextId
  <2>4. /\ Places(state, result, unhandled, reactions', q, source', rn)
        /\ Kept(reactions, q, source, rn) => Kept(reactions', q, source', rn)
    BY <1>0, <1>1, <1>2, <2>2, <2>3, NewWaiting
  <2> QED BY <2>1, <2>4
<1>3. CASE state[p] # "pending"
  <2> DEFINE j == Job(r, state[p], result[p])
  <2>1. /\ queue' = Append(q, j) /\ reactions' = reactions
        /\ unhandled' = [unhandled EXCEPT ![p] = FALSE]
    BY <1>3 DEF AddReaction
  <2>2. state[p] \in {"fulfilled", "rejected"} /\ result[p] \in Values
    BY <1>3 DEF StatesTyped
  <2>3. /\ j \in Jobs /\ JobOK(j) /\ j.id = r.id /\ j.v = result[p] /\ j.handler # "thenable"
        /\ state[p] = "fulfilled" => j.handler \notin {"thrower", "reject", "resume_throw"}
        /\ state[p] = "rejected" => j.handler \notin {"identity", "resolve", "resume"}
    BY <2>2, JobFacts
  <2> HIDE DEF j
  <2>4. Extends(q, queue', j)
    BY <2>1, <2>3, QueueAppend
  <2>5. \A y \in Promise : unhandled'[y] <=> unhandled[y] /\ y # p
    BY <2>1, Zenon
  <2>6. Answers(state, result, source, p, j)
    BY <2>3 DEF Answers, NextId
  <2>7. /\ Places(state, result, unhandled', reactions, queue', source', rn)
        /\ Kept(reactions, q, source, rn) => Kept(reactions, queue', source', rn)
    BY <1>0, <1>1, <1>3, <2>4, <2>5, <2>6, NewQueued
  <2> QED BY <2>1, <2>7
<1> QED BY <1>2, <1>3

LEMMA AwaitPlaces ==
  ASSUME Typed, PlacesOK, phase = "run", NEW a \in Promise \cup {None}, NEW v \in Values,
         Await(a, v), UNCHANGED <<state, result, ran, phase>>
  PROVE  PlacesOK'
<1> DEFINE r == [id |-> NextId, to |-> a, onFulfilled |-> "resume", onRejected |-> "resume_throw"]
<1>0. /\ QueueTyped(queue) /\ ReactionsTyped(reactions) /\ StatesTyped(state, result)
      /\ HistoryTyped(source, ran) /\ unhandled \in [Promise -> BOOLEAN]
      /\ Places(state, result, unhandled, reactions, queue, source, ran)
      /\ Kept(reactions, queue, source, ran)
  BY DEF Typed, FlagsTyped, PlacesOK
<1>1. NextId \in Nat
  BY <1>0, EmptyLen DEF NextId, HistoryTyped
<1>2. r \in Reaction /\ ReactionOK(r) /\ r.id = NextId
  BY <1>1, AwaitReaction
<1>3. CASE v \in Promise
  <2>1. AddReaction(queue, v, r)
    BY <1>3 DEF Await
  <2> HIDE DEF r
  <2>2. /\ Places(state, result, unhandled', reactions', queue', source', ran)
        /\ Kept(reactions', queue', source', ran)
    BY <1>0, <1>2, <1>3, <2>1, AddReactionPlaces
  <2> QED BY <2>2 DEF PlacesOK
<1>4. CASE v \notin Promise
  <2> DEFINE j == Job(r, "fulfilled", v)
  <2>1. /\ queue' = Append(queue, j) /\ source' = Append(source, None)
        /\ reactions' = reactions /\ unhandled' = unhandled
    BY <1>4 DEF Await
  <2> HIDE DEF r
  <2>2. j \in Jobs /\ JobOK(j) /\ j.id = r.id /\ j.handler # "thenable"
    BY <1>2, JobFacts
  <2> HIDE DEF j
  <2>3. Extends(queue, queue', j)
    BY <1>0, <2>1, <2>2, QueueAppend
  <2>4. Extends(source, source', None)
    BY <1>0, <2>1, AppendFacts DEF HistoryTyped, Extends
  <2>5. \A y \in Promise : unhandled[y] <=> unhandled[y] /\ y # None
    BY PromiseValues, Zenon
  <2>6. Answers(state, result, source, None, j)
    BY <1>2, <2>2 DEF Answers, NextId
  <2>7. Sizes(reactions, queue, source, ran)
    BY <1>0, Sized
  <2>8. /\ Places(state, result, unhandled, reactions, queue', source', ran)
        /\ Kept(reactions, queue', source', ran)
    BY <1>0, <2>2, <2>3, <2>4, <2>5, <2>6, <2>7, NewQueued
  <2> QED BY <2>1, <2>8 DEF PlacesOK
<1> QED BY <1>3, <1>4

\* A job is taken.
LEMMA TakePlaces ==
  ASSUME Typed, PlacesOK, NEW hs, TakeJob(hs)
  PROVE  /\ Places(state, result, unhandled, reactions, Tail(queue), source, ran')
         /\ Kept(reactions, Tail(queue), source, ran')
<1>0. /\ QueueTyped(queue) /\ ReactionsTyped(reactions) /\ HistoryTyped(source, ran)
      /\ Places(state, result, unhandled, reactions, queue, source, ran)
      /\ Sizes(reactions, queue, source, ran) /\ ran \in Seq(Nat)
  BY Sized DEF Typed, PlacesOK, HistoryTyped
<1>1. /\ phase = "run" /\ queue # <<>> /\ Head(queue) = queue[1]
      /\ ran' = IF Head(queue).id = 0 THEN ran ELSE Append(ran, Head(queue).id)
  BY TakeFacts
<1>2. Kept(reactions, queue, source, ran)
  BY <1>1 DEF PlacesOK
<1>3. /\ Len(queue) \in Nat \ {0} /\ Len(Tail(queue)) = Len(queue) - 1
      /\ \A i \in 1 .. Len(queue) - 1 : Tail(queue)[i] = queue[i + 1]
      /\ Head(queue) \in Jobs
  BY <1>0, <1>1, QueueTail
<1>4. /\ Len(Tail(queue)) \in Nat /\ Len(queue) = Len(Tail(queue)) + 1
      /\ \A k \in 1 .. Len(Tail(queue)) : Tail(queue)[k] = queue[k + 1]
  BY <1>3
<1>5. PICK i \in Nat : i = queue[1].id
  BY <1>1, <1>3 DEF Jobs
<1>6. i # 0 => Extends(ran, ran', i)
  BY <1>0, <1>1, <1>5, AppendFacts DEF Extends
<1>7. i = 0 => ran' = ran
  BY <1>1, <1>5
<1>8. Takes(queue, ran, Tail(queue), ran')
  BY <1>4, <1>5, <1>6, <1>7 DEF Takes
<1> QED BY <1>0, <1>2, <1>8, TakeFirst

LEMMA InitPlaces == Init => PlacesOK
<1> SUFFICES ASSUME Init PROVE PlacesOK
  OBVIOUS
<1>1. /\ queue = <<>> /\ source = <<>> /\ ran = <<>> /\ Len(<<>>) = 0
      /\ \A p \in Promise : reactions[p] = <<>> /\ state[p] = "pending" /\ ~unhandled[p]
  BY DEF Init
<1>2. Waits(state, reactions, source) /\ Increasing(reactions)
  BY <1>1 DEF Waits, Increasing
<1>3. Queued(state, queue, source) /\ Matches(state, result, queue, source) /\ QueueOrder(queue, source)
  BY <1>1 DEF Queued, Matches, QueueOrder
<1>4. /\ Taken(state, source, ran) /\ TakenOnce(ran) /\ TakenFirst(queue, source, ran)
      /\ Ordered(source, ran) /\ Kept(reactions, queue, source, ran)
  BY <1>1 DEF Taken, TakenOnce, TakenFirst, Ordered, Kept
<1>5. Exact(state, unhandled, source)
  BY <1>1 DEF Exact
<1> QED BY <1>2, <1>3, <1>4, <1>5 DEF PlacesOK, Places

LEMMA UserPlaces ==
  ASSUME Typed, PlacesOK, User
  PROVE  PlacesOK'
<1>1. ASSUME NEW p \in Promise, CreatePromise(p) PROVE PlacesOK'
  BY <1>1, PlacesSame DEF CreatePromise, history
<1>2. ASSUME NEW p \in Promise, ApiCreatePromise(p) PROVE PlacesOK'
  BY <1>2, PlacesSame DEF ApiCreatePromise, history
<1>3. ASSUME NEW p \in Promise, NEW v \in Values, AsyncCall(p, v) PROVE PlacesOK'
  <2>1. Await(p, v) /\ phase = "run" /\ UNCHANGED <<state, result, ran, phase>>
    BY <1>3 DEF AsyncCall, CreateAndAwait, MayCall, UserRuns
  <2> QED BY <2>1, AwaitPlaces
<1>4. ASSUME NEW p \in Promise, NEW op \in Outcome, NEW v \in Values, ApiSettle(p, op, v)
      PROVE  PlacesOK'
  BY <1>4, PlacesSame DEF ApiSettle, MayCall, UserRuns, history
<1>5. ASSUME NEW p \in Promise, NEW op \in Outcome, NEW v \in Values, AsyncCallExits(p, op, v)
      PROVE  PlacesOK'
  BY <1>5, PlacesSame DEF AsyncCallExits, MayCall, UserRuns, history
<1>6. ASSUME NEW p \in Promise, NEW op \in Outcome, NEW v \in Values, NEW g, CallResolver(p, g, op, v)
      PROVE  PlacesOK'
  BY <1>6, PlacesSame DEF CallResolver, MayCall, UserRuns, history
<1>7. ASSUME NEW p \in Promise, NEW f \in Handlers("identity"), NEW r \in Handlers("thrower"),
             NEW c \in Promise \cup {None} \cup Foreign, Then(p, f, r, c)
      PROVE  PlacesOK'
  <2> DEFINE x == [id |-> NextId, to |-> c, onFulfilled |-> f, onRejected |-> r]
  <2>1. AddReaction(queue, p, x) /\ phase = "run" /\ UNCHANGED <<state, result, ran, phase>>
    BY <1>7 DEF Then, UserRuns
  <2>2. NextId \in Nat /\ c \in Promise \cup {None, Custom}
    BY EmptyLen, KindsAssumption DEF NextId, Typed, HistoryTyped
  <2>3. x \in Reaction /\ ReactionOK(x) /\ x.id = NextId
    BY <2>2, ThenReaction
  <2> HIDE DEF x
  <2>4. /\ QueueTyped(queue) /\ ReactionsTyped(reactions) /\ StatesTyped(state, result)
        /\ HistoryTyped(source, ran) /\ unhandled \in [Promise -> BOOLEAN]
        /\ Places(state, result, unhandled, reactions, queue, source, ran)
        /\ Kept(reactions, queue, source, ran)
    BY <2>1 DEF Typed, FlagsTyped, PlacesOK
  <2>5. /\ Places(state, result, unhandled', reactions', queue', source', ran)
        /\ Kept(reactions', queue', source', ran)
    BY <2>1, <2>3, <2>4, AddReactionPlaces
  <2> QED BY <2>1, <2>5 DEF PlacesOK
<1>8. ASSUME RunJobs PROVE PlacesOK'
  BY <1>8, PlacesSame DEF RunJobs, promiseVars, history
<1>9. ASSUME Cleanup PROVE PlacesOK'
  <2>1. /\ queue' = <<>> /\ phase' = "cleanup" /\ Len(<<>>) = 0
        /\ UNCHANGED <<state, result, unhandled, reactions, source, ran>>
    BY <1>9 DEF Cleanup, promiseVars, history
  <2>2. /\ Queued(state, queue', source) /\ Matches(state, result, queue', source)
        /\ QueueOrder(queue', source) /\ TakenFirst(queue', source, ran)
    BY <2>1 DEF Queued, Matches, QueueOrder, TakenFirst
  <2>3. Places(state, result, unhandled, reactions, queue', source, ran)
    BY <2>2 DEF PlacesOK, Places
  <2> QED BY <2>1, <2>3 DEF PlacesOK
<1> QED BY <1>1, <1>2, <1>3, <1>4, <1>5, <1>6, <1>7, <1>8, <1>9 DEF User

LEMMA ReturnPlaces ==
  ASSUME Typed, PlacesOK, Return
  PROVE  PlacesOK'
<1>1. ASSUME NEW s \in {"fulfilled", "rejected"}, NEW op \in Outcome, In(op), SettleTop(s)
      PROVE  PlacesOK'
  <2>1. phase = "run" /\ Top.p \in Promise /\ Top.v \in Values
    BY <1>1, TopFacts
  <2>2. CASE state[Top.p] = "pending"
    <3>1. Settle(Top.p, s, Top.v) /\ phase' = phase /\ source' = source /\ ran' = ran
      BY <1>1, <2>2 DEF SettleTop, history
    <3>2. Settles(state, result, unhandled, reactions, queue, Top.p, s, Top.v,
                  state', result', unhandled', reactions', queue')
      BY <2>1, <2>2, <3>1, SettleFacts
    <3>3. /\ Places(state, result, unhandled, reactions, queue, source, ran)
          /\ Kept(reactions, queue, source, ran) /\ Sizes(reactions, queue, source, ran)
      BY <2>1, Sized DEF PlacesOK, Typed
    <3>4. /\ Places(state', result', unhandled', reactions', queue', source, ran)
          /\ Kept(reactions', queue', source, ran)
      BY <2>1, <3>2, <3>3, SettleJobs, PromiseValues
    <3> QED BY <3>1, <3>4 DEF PlacesOK
  <2>3. CASE state[Top.p] # "pending"
    <3>1. /\ phase' = "assert"
          /\ UNCHANGED <<state, result, queue, unhandled, reactions, source, ran>>
      BY <1>1, <2>3 DEF SettleTop, history
    <3> QED BY <3>1, PlacesSame
  <2> QED BY <2>2, <2>3
<1>2. ASSUME RejectReturns PROVE PlacesOK'
  BY <1>1, <1>2 DEF RejectReturns, Outcome
<1>3. ASSUME FulfillPlain PROVE PlacesOK'
  BY <1>1, <1>3 DEF FulfillPlain, Outcome
<1>4. ASSUME FulfillThenable PROVE PlacesOK'
  <2>1. In("fulfill") /\ "fulfill" \in Outcome
    BY <1>4 DEF FulfillThenable, Outcome
  <2>2. phase = "run" /\ Top.p \in Promise /\ Top.v \in Values
    BY <2>1, TopFacts
  <2> DEFINE j == [id |-> 0, to |-> Top.p, v |-> Top.v, handler |-> "thenable"]
  <2>3. /\ queue' = Append(queue, j) /\ Top.v \in Promise \cup Thenable /\ phase' = phase
        /\ UNCHANGED <<state, result, unhandled, reactions, source, ran>>
    BY <1>4 DEF FulfillThenable, promiseVars, history
  <2>4. j \in Jobs /\ JobOK(j) /\ j.id = 0 /\ j.handler = "thenable"
    BY <2>2, <2>3 DEF Jobs, JobOK
  <2> HIDE DEF j
  <2>5. Extends(queue, queue', j)
    BY <2>3, <2>4, QueueAppend DEF Typed
  <2>6. /\ Places(state, result, unhandled, reactions, queue, source, ran)
        /\ Kept(reactions, queue, source, ran) /\ Sizes(reactions, queue, source, ran)
    BY <2>2, Sized DEF PlacesOK, Typed
  <2>7. /\ Places(state, result, unhandled, reactions, queue', source, ran)
        /\ Kept(reactions, queue', source, ran)
    BY <2>4, <2>5, <2>6, QueueThenable
  <2> QED BY <2>3, <2>7 DEF PlacesOK
<1>5. ASSUME NEW e \in Errors, FulfillRejects(e) \/ ExecutorThrows(e) PROVE PlacesOK'
  BY <1>5, PlacesSame DEF FulfillRejects, ExecutorThrows, In, promiseVars, history
<1>6. ASSUME ExecutorReturns \/ CreateReturns \/ CustomReturns \/ CustomThrows \/ BodyExitsAnew
      PROVE  PlacesOK'
  BY <1>6, PlacesSame
     DEF ExecutorReturns, CreateReturns, CustomReturns, CustomThrows, BodyExitsAnew, promiseVars, history
<1>7. ASSUME NEW v \in Values, BodyAwaits(v) PROVE PlacesOK'
  <2>1. In("body") /\ Await(Top.p, v) /\ UNCHANGED <<state, result, ran, phase>>
    BY <1>7 DEF BodyAwaits
  <2>2. phase = "run" /\ Top.p \in Promise \cup {None}
    BY <2>1, TopFacts
  <2> QED BY <2>1, <2>2, AwaitPlaces
<1>8. ASSUME NEW v \in Values, BodyAwaitsAnew(v) PROVE PlacesOK'
  <2>1. phase = "run" /\ Await(None, v) /\ UNCHANGED <<state, result, ran, phase>>
    BY <1>8 DEF BodyAwaitsAnew, CreateAndAwait, In
  <2> QED BY <2>1, AwaitPlaces
<1>9. ASSUME NEW op \in Outcome, NEW v \in Values, BodyExits(op, v) \/ HandlerReturns(op, v)
      PROVE  PlacesOK'
  BY <1>9, PlacesSame DEF BodyExits, HandlerReturns, In, promiseVars, history
<1> QED BY <1>2, <1>3, <1>4, <1>5, <1>6, <1>7, <1>8, <1>9 DEF Return

LEMMA JobPlaces ==
  ASSUME Typed, PlacesOK, JobStep
  PROVE  PlacesOK'
<1>1. ASSUME NEW hs, TakeJob(hs), queue' = Tail(queue),
             UNCHANGED <<state, result, unhandled, reactions, source>>
      PROVE  PlacesOK'
  BY <1>1, TakePlaces DEF PlacesOK
<1>2. ASSUME DefaultReactionJob \/ ResolverReactionJob \/ UserReactionJob \/ AsyncReactionJob \/ ThenableJob
      PROVE  PlacesOK'
  BY <1>1, <1>2 DEF DefaultReactionJob, ResolverReactionJob, UserReactionJob, AsyncReactionJob,
                    ThenableJob, promiseVars
<1>3. ASSUME AdoptJob PROVE PlacesOK'
  <2> DEFINE p == Head(queue).to
             x == [id |-> NextId, to |-> p, onFulfilled |-> "resolve", onRejected |-> "reject"]
  <2>1. /\ TakeJob({"thenable"}) /\ Head(queue).v \in Promise
        /\ AddReaction(Tail(queue), Head(queue).v, x)
        /\ UNCHANGED <<state, result, phase>>
    BY <1>3 DEF AdoptJob
  <2>2. /\ Head(queue).handler \in {"thenable"} /\ JobOK(Head(queue))
        /\ QueueTyped(Tail(queue)) /\ ran' \in Seq(Nat)
    BY <2>1, TakeFacts
  <2>3. p \in Promise /\ NextId \in Nat
    BY <2>2, EmptyLen DEF JobOK, NextId, Typed, HistoryTyped
  <2>4. x \in Reaction /\ ReactionOK(x) /\ x.id = NextId
    BY <2>3, AdoptReaction
  <2> HIDE DEF p, x
  <2>5. /\ Places(state, result, unhandled, reactions, Tail(queue), source, ran')
        /\ Kept(reactions, Tail(queue), source, ran')
    BY <2>1, TakePlaces
  <2>6. /\ ReactionsTyped(reactions) /\ StatesTyped(state, result)
        /\ HistoryTyped(source, ran') /\ unhandled \in [Promise -> BOOLEAN]
    BY <2>2 DEF Typed, FlagsTyped, HistoryTyped
  <2>7. /\ Places(state, result, unhandled', reactions', queue', source', ran')
        /\ Kept(reactions', queue', source', ran')
    BY <2>1, <2>2, <2>4, <2>5, <2>6, AddReactionPlaces
  <2> QED BY <2>1, <2>7 DEF PlacesOK
<1>4. ASSUME JobsDone PROVE PlacesOK'
  BY <1>4, PlacesSame DEF JobsDone, promiseVars, history
<1> QED BY <1>2, <1>3, <1>4 DEF JobStep

LEMMA StepPlaces == Typed /\ PlacesOK /\ [Next]_vars => PlacesOK'
<1>1. PlacesOK /\ UNCHANGED vars => PlacesOK'
  BY PlacesSame DEF vars, promiseVars, history
<1> QED BY <1>1, UserPlaces, ReturnPlaces, JobPlaces DEF Next, Terminated

-----------------------------------------------------------------------------
(* What follows for reactions.                                             *)

LEMMA Domains ==
  ASSUME Typed
  PROVE  /\ DOMAIN queue = 1 .. Len(queue) /\ DOMAIN source = 1 .. Len(source)
         /\ DOMAIN ran = 1 .. Len(ran) /\ DOMAIN frames = 1 .. Len(frames)
         /\ Len(queue) \in Nat /\ Len(source) \in Nat /\ Len(ran) \in Nat /\ Len(frames) \in Nat
         /\ \A p \in Promise : DOMAIN reactions[p] = 1 .. Len(reactions[p]) /\ Len(reactions[p]) \in Nat
<1>1. /\ queue \in Seq(Jobs) /\ source \in Seq(Promise \cup {None}) /\ ran \in Seq(Nat)
      /\ frames \in Seq(Calls) /\ \A p \in Promise : reactions[p] \in Seq(Reaction)
  BY DEF Typed, QueueTyped, HistoryTyped, CallsTyped, ReactionsTyped
<1> QED BY <1>1, LenProperties

\* A set with one element, and one with none.
LEMMA CountOne == ASSUME NEW S, NEW x, S = {x} PROVE Cardinality(S) = 1
  BY FS_Singleton
LEMMA CountNone == ASSUME NEW S, S = {} PROVE Cardinality(S) = 0
  BY FS_EmptySet

LEMMA PlacesRunsOnce ==
  ASSUME Typed, PlacesOK
  PROVE  RunsOnce
<1> SUFFICES ASSUME phase = "run"
             PROVE  /\ \A i \in DOMAIN source :
                         Cardinality({w \in Promise \X DOMAIN source :
                                        w[2] \in DOMAIN reactions[w[1]] /\ reactions[w[1]][w[2]].id = i})
                         + Cardinality({k \in DOMAIN queue : queue[k].id = i})
                         + Cardinality({k \in DOMAIN ran : ran[k] = i}) = 1
                    /\ \A p \in Promise : \A k \in DOMAIN reactions[p] :
                         source[reactions[p][k].id] = p /\ state[p] = "pending"
  BY DEF RunsOnce
<1>0. /\ DOMAIN queue = 1 .. Len(queue) /\ DOMAIN source = 1 .. Len(source)
      /\ DOMAIN ran = 1 .. Len(ran)
      /\ Len(queue) \in Nat /\ Len(source) \in Nat /\ Len(ran) \in Nat
      /\ \A p \in Promise : DOMAIN reactions[p] = 1 .. Len(reactions[p]) /\ Len(reactions[p]) \in Nat
  BY Domains
<1>1. /\ Waits(state, reactions, source) /\ Increasing(reactions) /\ Queued(state, queue, source)
      /\ QueueOrder(queue, source) /\ Taken(state, source, ran) /\ TakenOnce(ran)
      /\ TakenFirst(queue, source, ran) /\ Kept(reactions, queue, source, ran)
  BY DEF PlacesOK, Places
<1>2. \A p \in Promise : \A k \in DOMAIN reactions[p] :
        /\ source[reactions[p][k].id] = p /\ state[p] = "pending" /\ k \in 1 .. Len(source)
        /\ k \in 1 .. Len(reactions[p])
  <2> SUFFICES ASSUME NEW p \in Promise, NEW k \in 1 .. Len(reactions[p])
               PROVE  source[reactions[p][k].id] = p /\ state[p] = "pending" /\ k \in 1 .. Len(source)
    BY <1>0
  <2>1. Len(reactions[p]) <= Len(source) /\ source[reactions[p][k].id] = p /\ state[p] = "pending"
    BY <1>1 DEF Waits
  <2> QED BY <1>0, <2>1
<1>3. ASSUME NEW i \in DOMAIN source
      PROVE  Cardinality({w \in Promise \X DOMAIN source :
                            w[2] \in DOMAIN reactions[w[1]] /\ reactions[w[1]][w[2]].id = i})
             + Cardinality({k \in DOMAIN queue : queue[k].id = i})
             + Cardinality({k \in DOMAIN ran : ran[k] = i}) = 1
  <2> DEFINE W == {w \in Promise \X DOMAIN source :
                     w[2] \in DOMAIN reactions[w[1]] /\ reactions[w[1]][w[2]].id = i}
             Q == {k \in DOMAIN queue : queue[k].id = i}
             R == {k \in DOMAIN ran : ran[k] = i}
  <2>0. i \in 1 .. Len(source) /\ i # 0
    BY <1>0
  <2>1. \A w \in W : /\ w = <<w[1], w[2]>> /\ w[1] \in Promise /\ w[2] \in DOMAIN reactions[w[1]]
                     /\ reactions[w[1]][w[2]].id = i /\ source[i] = w[1] /\ state[w[1]] = "pending"
    <3> SUFFICES ASSUME NEW w \in W
                 PROVE  /\ w = <<w[1], w[2]>> /\ w[1] \in Promise /\ w[2] \in DOMAIN reactions[w[1]]
                        /\ reactions[w[1]][w[2]].id = i /\ source[i] = w[1] /\ state[w[1]] = "pending"
      OBVIOUS
    <3>1. /\ w \in Promise \X DOMAIN source /\ w[2] \in DOMAIN reactions[w[1]]
          /\ reactions[w[1]][w[2]].id = i
      OBVIOUS
    <3>2. w = <<w[1], w[2]>> /\ w[1] \in Promise
      BY <3>1
    <3> QED BY <1>2, <3>1, <3>2
  <2>2. \A k \in Q : k \in 1 .. Len(queue) /\ queue[k].id = i
    BY <1>0
  <2>3. \A k \in R : k \in 1 .. Len(ran) /\ ran[k] = i
    BY <1>0
  <2>4. \A p \in Promise : \A k \in 1 .. Len(reactions[p]) : reactions[p][k].id = i => <<p, k>> \in W
    <3> SUFFICES ASSUME NEW p \in Promise, NEW k \in 1 .. Len(reactions[p]), reactions[p][k].id = i
                 PROVE  <<p, k>> \in W
      OBVIOUS
    <3>1. k \in DOMAIN reactions[p] /\ k \in DOMAIN source
      BY <1>0, <1>2
    <3>2. <<p, k>> \in Promise \X DOMAIN source /\ <<p, k>>[1] = p /\ <<p, k>>[2] = k
      BY <3>1
    <3> QED BY <3>1, <3>2
  <2>5. \A k \in 1 .. Len(queue) : queue[k].id = i => k \in Q
    BY <1>0
  <2>6. \A k \in 1 .. Len(ran) : ran[k] = i => k \in R
    BY <1>0
  <2> HIDE DEF W, Q, R
  <2>7. \A w, x \in W : w = x
    <3> SUFFICES ASSUME NEW w \in W, NEW x \in W PROVE w = x
      OBVIOUS
    <3>1. PICK p \in Promise : w[1] = p /\ x[1] = p
      BY <2>1
    <3>2. PICK a \in 1 .. Len(reactions[p]) : a = w[2] /\ reactions[p][a].id = i
      BY <1>0, <2>1, <3>1
    <3>3. PICK b \in 1 .. Len(reactions[p]) : b = x[2] /\ reactions[p][b].id = i
      BY <1>0, <2>1, <3>1
    <3>4. ~(a < b) /\ ~(b < a)
      BY <1>1, <2>0, <3>2, <3>3 DEF Increasing
    <3>5. a = b
      BY <1>0, <3>4
    <3> QED BY <2>1, <3>1, <3>2, <3>3, <3>5
  <2>8. \A k, l \in Q : k = l
    <3> SUFFICES ASSUME NEW k \in Q, NEW l \in Q PROVE k = l
      OBVIOUS
    <3>1. k \in 1 .. Len(queue) /\ l \in 1 .. Len(queue) /\ queue[k].id = i /\ queue[l].id = i
      BY <2>2
    <3>2. ~(k < l) /\ ~(l < k)
      BY <1>1, <2>0, <3>1 DEF QueueOrder
    <3> QED BY <1>0, <3>1, <3>2
  <2>9. \A k, l \in R : k = l
    BY <1>1, <2>3 DEF TakenOnce
  <2>10. W = {} \/ (Q = {} /\ R = {})
    <3>1. ASSUME NEW w \in W PROVE ~Due(state, source, i)
      BY <2>1, <3>1, PromiseValues DEF Due
    <3>2. ASSUME NEW k \in Q PROVE Due(state, source, i)
      BY <1>1, <2>0, <2>2, <3>2 DEF Queued
    <3>3. ASSUME NEW k \in R PROVE Due(state, source, i)
      BY <1>1, <2>3, <3>3 DEF Taken
    <3> QED BY <3>1, <3>2, <3>3
  <2>11. Q = {} \/ R = {}
    BY <1>1, <2>0, <2>2, <2>3 DEF TakenFirst
  <2>12. W # {} \/ Q # {} \/ R # {}
    BY <1>1, <2>0, <2>4, <2>5, <2>6 DEF Kept
  <2>13. ASSUME W # {} PROVE Cardinality(W) = 1
    <3>1. PICK w \in W : TRUE
      BY <2>13
    <3>2. W = {w}
      BY <2>7, <3>1
    <3> QED BY <3>2, CountOne
  <2>14. ASSUME Q # {} PROVE Cardinality(Q) = 1
    <3>1. PICK w \in Q : TRUE
      BY <2>14
    <3>2. Q = {w}
      BY <2>8, <3>1
    <3> QED BY <3>2, CountOne
  <2>15. ASSUME R # {} PROVE Cardinality(R) = 1
    <3>1. PICK w \in R : TRUE
      BY <2>15
    <3>2. R = {w}
      BY <2>9, <3>1
    <3> QED BY <3>2, CountOne
  <2>16. /\ W = {} => Cardinality(W) = 0
         /\ Q = {} => Cardinality(Q) = 0
         /\ R = {} => Cardinality(R) = 0
    BY CountNone
  <2>17. Cardinality(W) + Cardinality(Q) + Cardinality(R) = 1
    BY <2>10, <2>11, <2>12, <2>13, <2>14, <2>15, <2>16
  <2> QED BY <2>17 DEF W, Q, R
<1> QED BY <1>2, <1>3

\* The places of reactions are an invariant.
THEOREM ReactionInvariant == Spec => [](Typed /\ PlacesOK)
<1>1. Init => Typed /\ PlacesOK
  BY InitTyped, InitPlaces
<1>2. Typed /\ PlacesOK /\ [Next]_vars => Typed' /\ PlacesOK'
  BY StepTyped, StepPlaces
<1> QED BY <1>1, <1>2, PTL DEF Spec

\* Every reaction is in one place, whatever calls are in progress when it is added or its
\* promise is settled: it waits at its pending promise, or its job is queued, or was taken.
THEOREM PromiseRunsOnce == Spec => []RunsOnce
<1>1. Typed /\ PlacesOK => RunsOnce
  BY PlacesRunsOnce
<1> QED BY <1>1, ReactionInvariant, PTL

\* The reactions of one promise run in the order they were added.
THEOREM PromiseInOrder == Spec => []InOrder
<1>1. Typed /\ PlacesOK => InOrder
  BY Domains DEF PlacesOK, Places, Ordered, InOrder
<1> QED BY <1>1, ReactionInvariant, PTL

\* The flag of unhandled rejections is exact.
THEOREM PromiseUnhandled == Spec => []UnhandledExact
<1>1. Typed /\ PlacesOK => UnhandledExact
  BY Domains DEF PlacesOK, Places, Exact, UnhandledExact
<1> QED BY <1>1, ReactionInvariant, PTL

-----------------------------------------------------------------------------
(* Settlements.  The argument is about tokens: a token of a promise is     *)
(* something that will settle it, a settlement or the body of its async    *)
(* function among the calls fs, a thenable job in the queue q, and, for    *)
(* the promise of an async function (the set A), any job or reaction that  *)
(* leads to it.  No promise has two.  vw is what the engine knows of the   *)
(* promises.                                                               *)

View == [p \in Promise |-> [kind |-> kind[p], state |-> state[p], already |-> already[p],
                            pairs |-> pairs[p], handed |-> handed[p]]]

\* The promises of async functions that no resolving function was handed out for.
Async(vw) == {p \in Promise : vw[p].kind = "async" /\ vw[p].handed = {}}

FrameToken(f, p) == f.p = p /\ f.op \in {"fulfill", "reject", "body"}
JobToken(j, A, p) == j.to = p /\ (j.handler = "thenable" \/ p \in A)
WaitToken(r, A, p) == r.to = p /\ p \in A

FramesSingle(fs) ==
  \A p \in Promise : \A i, j \in 1 .. Len(fs) :
    FrameToken(fs[i], p) /\ FrameToken(fs[j], p) => i = j
JobsSingle(q, A) ==
  \A p \in Promise : \A i, j \in 1 .. Len(q) :
    JobToken(q[i], A, p) /\ JobToken(q[j], A, p) => i = j
WaitsSingle(rs, A) ==
  \A p \in Promise : \A r, s \in Promise : \A i \in 1 .. Len(rs[r]), j \in 1 .. Len(rs[s]) :
    WaitToken(rs[r][i], A, p) /\ WaitToken(rs[s][j], A, p) => r = s /\ i = j
FrameOrJob(fs, q, A) ==
  \A p \in Promise : \A i \in 1 .. Len(fs), j \in 1 .. Len(q) :
    ~(FrameToken(fs[i], p) /\ JobToken(q[j], A, p))
FrameOrWait(fs, rs, A) ==
  \A p \in Promise : \A r \in Promise : \A i \in 1 .. Len(fs), j \in 1 .. Len(rs[r]) :
    ~(FrameToken(fs[i], p) /\ WaitToken(rs[r][j], A, p))
JobOrWait(q, rs, A) ==
  \A p \in Promise : \A r \in Promise : \A i \in 1 .. Len(q), j \in 1 .. Len(rs[r]) :
    ~(JobToken(q[i], A, p) /\ WaitToken(rs[r][j], A, p))

\* A promise has one token at most.
Single(fs, q, rs, A) ==
  /\ FramesSingle(fs) /\ JobsSingle(q, A) /\ WaitsSingle(rs, A)
  /\ FrameOrJob(fs, q, A) /\ FrameOrWait(fs, rs, A) /\ JobOrWait(q, rs, A)

Busy(fs, q, rs, A, p) ==
  \/ \E i \in 1 .. Len(fs) : FrameToken(fs[i], p)
  \/ \E i \in 1 .. Len(q) : JobToken(q[i], A, p)
  \/ \E r \in Promise : \E i \in 1 .. Len(rs[r]) : WaitToken(rs[r][i], A, p)

\* ECMA_PROMISE_ALREADY_RESOLVED guards the promise with the view v: it has functions
\* that settle it.
Flagged(v) == v.kind = "plain" \/ v.pairs > 0

\* The promise is in settlement.
Pending(v) ==
  v.kind \in {"plain", "async"} /\ v.state = "pending" /\ (Flagged(v) => v.already)

\* What calls, jobs and reactions say about the promise they lead to.
FrameFits(v, f) ==
  /\ f.op \in {"fulfill", "reject"} => Pending(v)
  /\ f.op = "body" => v.kind = "async" /\ v.pairs = 0
  /\ f.op = "executor" => v.handed # {}
  /\ f.op = "handler" => v.kind = "plain"
  /\ v.kind # "unborn"

JobFits(v, j) ==
  /\ j.handler = "thenable" => Pending(v) /\ v.pairs < MaxPairs
  /\ j.handler \in {"resume", "resume_throw"} => v.kind = "async" /\ v.pairs = 0
  /\ j.handler \in {"resolve", "reject"} =>
       v.pairs > 0 /\ (v.kind = "async" /\ v.handed = {} => ~v.already)
  /\ j.handler \in {"identity", "user", "thrower"} => v.kind = "plain"
  /\ v.kind # "unborn"

WaitFits(v, r) ==
  /\ r.onFulfilled = "resume" => v.kind = "async" /\ v.pairs = 0
  /\ r.onFulfilled = "resolve" =>
       v.pairs > 0 /\ (v.kind = "async" /\ v.handed = {} => ~v.already)
  /\ r.onFulfilled \in {"identity", "user"} => v.kind = "plain"
  /\ v.kind # "unborn"

FramesFit(fs, vw) == \A i \in 1 .. Len(fs) : fs[i].p \in Promise => FrameFits(vw[fs[i].p], fs[i])
JobsFit(q, vw) == \A k \in 1 .. Len(q) : q[k].to \in Promise => JobFits(vw[q[k].to], q[k])
WaitsFit(rs, vw) ==
  \A r \in Promise : \A k \in 1 .. Len(rs[r]) :
    rs[r][k].to \in Promise => WaitFits(vw[rs[r][k].to], rs[r][k])

\* A settled promise keeps its functions out, a promise that does not exist yet has none, nor
\* has one whose function did not know it, and user code has no functions that were not made.
ViewOK(v) ==
  /\ Flagged(v) /\ v.state # "pending" => v.already
  /\ v.kind = "unborn" => v.state = "pending" /\ v.pairs = 0
  /\ v.kind = "orphan" => v.state = "pending" /\ v.pairs = 0
  /\ v.pairs \in 0 .. MaxPairs /\ v.handed \subseteq 1 .. v.pairs

Core(fs, q, rs, vw) ==
  /\ Single(fs, q, rs, Async(vw))
  /\ FramesFit(fs, vw) /\ JobsFit(q, vw) /\ WaitsFit(rs, vw)
  /\ \A p \in Promise : ViewOK(vw[p])

\* An async function goes on as long as its promise is pending.  The step in progress
\* holds the token of x, if x is a promise.
Alive(fs, q, rs, vw, x) ==
  /\ \A p \in Async(vw) : p # x => (Busy(fs, q, rs, Async(vw), p) <=> vw[p].state = "pending")
  /\ x \in Promise => ~Busy(fs, q, rs, Async(vw), x)

Held(fs, q, rs, vw, x) == Core(fs, q, rs, vw) /\ Alive(fs, q, rs, vw, x)

SettleOK ==
  /\ phase # "assert" /\ Core(frames, queue, reactions, View)
  /\ phase = "run" => Alive(frames, queue, reactions, View, None)

\* The lengths are numbers.
Lengths(fs, q, rs) == Len(fs) \in Nat /\ Len(q) \in Nat /\ \A r \in Promise : Len(rs[r]) \in Nat

\* Whoever holds the token of a promise holds the only one: the calls.
LEMMA FrameGone ==
  ASSUME NEW fs, NEW q, NEW rs, NEW vw, NEW x, Lengths(fs, q, rs), Held(fs, q, rs, vw, x),
         NEW t, NEW f, Extends(t, fs, f), Len(t) \in Nat
  PROVE  /\ Core(t, q, rs, vw)
         /\ \A p \in Promise : Busy(t, q, rs, Async(vw), p)
                                 <=> Busy(fs, q, rs, Async(vw), p) /\ ~FrameToken(f, p)
<1> DEFINE A == Async(vw)
<1> HIDE DEF A
<1>1. PICK n \in Nat : /\ Len(t) = n /\ Len(fs) = n + 1 /\ fs[n + 1] = f /\ n + 1 \in 1 .. n + 1
                       /\ \A i \in 1 .. n : fs[i] = t[i] /\ i \in 1 .. n + 1 /\ i # n + 1
                       /\ \A i \in 1 .. n + 1 : i \in 1 .. n \/ i = n + 1
  BY DEF Extends
<1>2. Single(fs, q, rs, A) /\ FramesFit(fs, vw)
  BY DEF Held, Core, A
<1>3. FramesSingle(t)
  BY <1>1, <1>2 DEF Single, FramesSingle
<1>4. FrameOrJob(t, q, A)
  BY <1>1, <1>2 DEF Single, FrameOrJob
<1>5. FrameOrWait(t, rs, A)
  BY <1>1, <1>2 DEF Single, FrameOrWait
<1>6. FramesFit(t, vw)
  BY <1>1, <1>2 DEF FramesFit
<1>7. ASSUME NEW p \in Promise
      PROVE  Busy(t, q, rs, A, p) <=> Busy(fs, q, rs, A, p) /\ ~FrameToken(f, p)
  <2>1. Busy(t, q, rs, A, p) => Busy(fs, q, rs, A, p)
    BY <1>1 DEF Busy
  <2>2. ASSUME FrameToken(f, p) PROVE ~Busy(t, q, rs, A, p)
    <3>1. \A i \in 1 .. n : ~FrameToken(t[i], p)
      BY <1>1, <1>2, <2>2 DEF Single, FramesSingle
    <3>2. \A i \in 1 .. Len(q) : ~JobToken(q[i], A, p)
      BY <1>1, <1>2, <2>2 DEF Single, FrameOrJob
    <3>3. \A r \in Promise : \A i \in 1 .. Len(rs[r]) : ~WaitToken(rs[r][i], A, p)
      BY <1>1, <1>2, <2>2 DEF Single, FrameOrWait
    <3> QED BY <1>1, <3>1, <3>2, <3>3 DEF Busy
  <2>3. ASSUME ~FrameToken(f, p), Busy(fs, q, rs, A, p) PROVE Busy(t, q, rs, A, p)
    BY <1>1, <2>3 DEF Busy
  <2> QED BY <2>1, <2>2, <2>3
<1> QED BY <1>2, <1>3, <1>4, <1>5, <1>6, <1>7 DEF Held, Core, Single, A

\* A settlement or a body leaves the calls: its token is held,
LEMMA PopToken ==
  ASSUME NEW fs, NEW q, NEW rs, NEW vw, Lengths(fs, q, rs), Held(fs, q, rs, vw, None),
         NEW t, NEW f, Extends(t, fs, f), Len(t) \in Nat, NEW p \in Promise, FrameToken(f, p)
  PROVE  Held(t, q, rs, vw, p)
<1>1. /\ Core(t, q, rs, vw)
      /\ \A y \in Promise : Busy(t, q, rs, Async(vw), y)
                              <=> Busy(fs, q, rs, Async(vw), y) /\ ~FrameToken(f, y)
  BY FrameGone
<1>2. \A y \in Promise : y # p => ~FrameToken(f, y)
  BY DEF FrameToken
<1>3. \A y \in Async(vw) : y \in Promise /\ y # None
  BY PromiseValues DEF Async
<1> QED BY <1>1, <1>2, <1>3 DEF Held, Alive

\* or another call leaves.
LEMMA PopOther ==
  ASSUME NEW fs, NEW q, NEW rs, NEW vw, NEW x, Lengths(fs, q, rs), Held(fs, q, rs, vw, x),
         NEW t, NEW f, Extends(t, fs, f), Len(t) \in Nat, \A p \in Promise : ~FrameToken(f, p)
  PROVE  Held(t, q, rs, vw, x)
<1>1. /\ Core(t, q, rs, vw)
      /\ \A y \in Promise : Busy(t, q, rs, Async(vw), y)
                              <=> Busy(fs, q, rs, Async(vw), y) /\ ~FrameToken(f, y)
  BY FrameGone
<1>2. \A y \in Async(vw) : y \in Promise
  BY DEF Async
<1> QED BY <1>1, <1>2 DEF Held, Alive

LEMMA FrameNew ==
  ASSUME NEW fs, NEW q, NEW rs, NEW vw, NEW x, Lengths(fs, q, rs), Held(fs, q, rs, vw, x),
         NEW t, NEW f, Extends(fs, t, f), f.p \in Promise => FrameFits(vw[f.p], f),
         \A p \in Promise : FrameToken(f, p) => x = p
  PROVE  /\ Core(t, q, rs, vw)
         /\ \A p \in Promise : Busy(t, q, rs, Async(vw), p)
                                 <=> Busy(fs, q, rs, Async(vw), p) \/ FrameToken(f, p)
<1> DEFINE A == Async(vw)
<1> HIDE DEF A
<1>1. PICK n \in Nat : /\ Len(fs) = n /\ Len(t) = n + 1 /\ t[n + 1] = f /\ n + 1 \in 1 .. n + 1
                       /\ \A i \in 1 .. n : t[i] = fs[i] /\ i \in 1 .. n + 1
                       /\ \A i \in 1 .. n + 1 : i \in 1 .. n \/ i = n + 1
  BY DEF Extends, Lengths
<1>2. Single(fs, q, rs, A) /\ FramesFit(fs, vw)
  BY DEF Held, Core, A
<1>3. ASSUME NEW p \in Promise, FrameToken(f, p)
      PROVE  /\ \A i \in 1 .. n : ~FrameToken(fs[i], p)
             /\ \A i \in 1 .. Len(q) : ~JobToken(q[i], A, p)
             /\ \A r \in Promise : \A i \in 1 .. Len(rs[r]) : ~WaitToken(rs[r][i], A, p)
  BY <1>1, <1>3 DEF Held, Alive, Busy, A
<1>4. FramesSingle(t)
  BY <1>1, <1>2, <1>3 DEF Single, FramesSingle
<1>5. FrameOrJob(t, q, A)
  BY <1>1, <1>2, <1>3 DEF Single, FrameOrJob
<1>6. FrameOrWait(t, rs, A)
  BY <1>1, <1>2, <1>3 DEF Single, FrameOrWait
<1>7. FramesFit(t, vw)
  BY <1>1, <1>2 DEF FramesFit
<1>8. ASSUME NEW p \in Promise
      PROVE  Busy(t, q, rs, A, p) <=> Busy(fs, q, rs, A, p) \/ FrameToken(f, p)
  <2>1. Busy(fs, q, rs, A, p) => Busy(t, q, rs, A, p)
    BY <1>1 DEF Busy
  <2>2. FrameToken(f, p) => Busy(t, q, rs, A, p)
    BY <1>1 DEF Busy
  <2>3. ASSUME ~FrameToken(f, p), Busy(t, q, rs, A, p) PROVE Busy(fs, q, rs, A, p)
    BY <1>1, <2>3 DEF Busy
  <2> QED BY <2>1, <2>2, <2>3
<1> QED BY <1>2, <1>4, <1>5, <1>6, <1>7, <1>8 DEF Held, Core, Single, A

\* The token that is held goes into a new call,
LEMMA PushToken ==
  ASSUME NEW fs, NEW q, NEW rs, NEW vw, NEW p \in Promise, Lengths(fs, q, rs),
         Held(fs, q, rs, vw, p), NEW t, NEW f, Extends(fs, t, f), FrameToken(f, p),
         FrameFits(vw[p], f), vw[p].state = "pending"
  PROVE  Held(t, q, rs, vw, None)
<1>1. f.p = p /\ \A y \in Promise : FrameToken(f, y) => p = y
  BY DEF FrameToken
<1>2. /\ Core(t, q, rs, vw)
      /\ \A y \in Promise : Busy(t, q, rs, Async(vw), y)
                              <=> Busy(fs, q, rs, Async(vw), y) \/ FrameToken(f, y)
  BY <1>1, FrameNew
<1>3. \A y \in Async(vw) : y \in Promise
  BY DEF Async
<1> QED BY <1>1, <1>2, <1>3, PromiseValues DEF Held, Alive

\* or another call begins.
LEMMA PushOther ==
  ASSUME NEW fs, NEW q, NEW rs, NEW vw, NEW x, Lengths(fs, q, rs), Held(fs, q, rs, vw, x),
         NEW t, NEW f, Extends(fs, t, f), \A p \in Promise : ~FrameToken(f, p),
         f.p \in Promise => FrameFits(vw[f.p], f)
  PROVE  Held(t, q, rs, vw, x)
<1>1. /\ Core(t, q, rs, vw)
      /\ \A y \in Promise : Busy(t, q, rs, Async(vw), y)
                              <=> Busy(fs, q, rs, Async(vw), y) \/ FrameToken(f, y)
  BY FrameNew
<1>2. \A y \in Async(vw) : y \in Promise
  BY DEF Async
<1> QED BY <1>1, <1>2 DEF Held, Alive

\* The queue u is q without its first job.
Drops(q, u) == Len(u) \in Nat /\ Len(q) = Len(u) + 1 /\ \A k \in 1 .. Len(u) : u[k] = q[k + 1]

\* The same for jobs,
LEMMA JobGone ==
  ASSUME NEW fs, NEW q, NEW rs, NEW vw, NEW x, Lengths(fs, q, rs), Held(fs, q, rs, vw, x),
         NEW u, Drops(q, u)
  PROVE  /\ Core(fs, u, rs, vw)
         /\ \A p \in Promise : Busy(fs, u, rs, Async(vw), p)
                                 <=> Busy(fs, q, rs, Async(vw), p) /\ ~JobToken(q[1], Async(vw), p)
<1> DEFINE A == Async(vw)
<1> HIDE DEF A
<1>1. PICK n \in Nat : /\ Len(u) = n /\ Len(q) = n + 1 /\ 1 \in 1 .. n + 1
                       /\ \A i \in 1 .. n : u[i] = q[i + 1] /\ i + 1 \in 1 .. n + 1 /\ i + 1 # 1
  BY DEF Drops
<1>2. \A k \in 1 .. n + 1 : k = 1 \/ \E i \in 1 .. n : k = i + 1
  <2> SUFFICES ASSUME NEW k \in 1 .. n + 1, k # 1 PROVE \E i \in 1 .. n : k = i + 1
    OBVIOUS
  <2>1. k - 1 \in 1 .. n /\ k = (k - 1) + 1
    OBVIOUS
  <2> QED BY <2>1
<1>3. Single(fs, q, rs, A) /\ JobsFit(q, vw)
  BY DEF Held, Core, A
<1>4. JobsSingle(u, A)
  <2> SUFFICES ASSUME NEW p \in Promise, NEW i \in 1 .. n, NEW j \in 1 .. n,
                      JobToken(u[i], A, p), JobToken(u[j], A, p)
               PROVE  i = j
    BY <1>1 DEF JobsSingle
  <2>1. i + 1 = j + 1
    BY <1>1, <1>3 DEF Single, JobsSingle
  <2> QED BY <2>1
<1>5. FrameOrJob(fs, u, A)
  BY <1>1, <1>3 DEF Single, FrameOrJob
<1>6. JobOrWait(u, rs, A)
  BY <1>1, <1>3 DEF Single, JobOrWait
<1>7. JobsFit(u, vw)
  BY <1>1, <1>3 DEF JobsFit
<1>8. ASSUME NEW p \in Promise
      PROVE  Busy(fs, u, rs, A, p) <=> Busy(fs, q, rs, A, p) /\ ~JobToken(q[1], A, p)
  <2>1. Busy(fs, u, rs, A, p) => Busy(fs, q, rs, A, p)
    BY <1>1 DEF Busy
  <2>2. ASSUME JobToken(q[1], A, p) PROVE ~Busy(fs, u, rs, A, p)
    <3>1. \A i \in 1 .. n : ~JobToken(u[i], A, p)
      BY <1>1, <1>3, <2>2 DEF Single, JobsSingle
    <3>2. \A i \in 1 .. Len(fs) : ~FrameToken(fs[i], p)
      BY <1>1, <1>3, <2>2 DEF Single, FrameOrJob
    <3>3. \A r \in Promise : \A i \in 1 .. Len(rs[r]) : ~WaitToken(rs[r][i], A, p)
      BY <1>1, <1>3, <2>2 DEF Single, JobOrWait
    <3> QED BY <1>1, <3>1, <3>2, <3>3 DEF Busy
  <2>3. ASSUME ~JobToken(q[1], A, p), Busy(fs, q, rs, A, p) PROVE Busy(fs, u, rs, A, p)
    <3>1. ASSUME NEW k \in 1 .. Len(q), JobToken(q[k], A, p)
          PROVE  \E i \in 1 .. Len(u) : JobToken(u[i], A, p)
      BY <1>1, <1>2, <2>3, <3>1
    <3> QED BY <2>3, <3>1 DEF Busy
  <2> QED BY <2>1, <2>2, <2>3
<1> QED BY <1>3, <1>4, <1>5, <1>6, <1>7, <1>8 DEF Held, Core, Single, A

LEMMA TakeToken ==
  ASSUME NEW fs, NEW q, NEW rs, NEW vw, Lengths(fs, q, rs), Held(fs, q, rs, vw, None),
         NEW u, Drops(q, u), NEW p \in Promise, JobToken(q[1], Async(vw), p)
  PROVE  Held(fs, u, rs, vw, p)
<1>1. /\ Core(fs, u, rs, vw)
      /\ \A y \in Promise : Busy(fs, u, rs, Async(vw), y)
                              <=> Busy(fs, q, rs, Async(vw), y) /\ ~JobToken(q[1], Async(vw), y)
  BY JobGone
<1>2. \A y \in Promise : y # p => ~JobToken(q[1], Async(vw), y)
  BY DEF JobToken
<1>3. \A y \in Async(vw) : y \in Promise /\ y # None
  BY PromiseValues DEF Async
<1> QED BY <1>1, <1>2, <1>3 DEF Held, Alive

LEMMA TakeOther ==
  ASSUME NEW fs, NEW q, NEW rs, NEW vw, NEW x, Lengths(fs, q, rs), Held(fs, q, rs, vw, x),
         NEW u, Drops(q, u), \A p \in Promise : ~JobToken(q[1], Async(vw), p)
  PROVE  Held(fs, u, rs, vw, x)
<1>1. /\ Core(fs, u, rs, vw)
      /\ \A y \in Promise : Busy(fs, u, rs, Async(vw), y)
                              <=> Busy(fs, q, rs, Async(vw), y) /\ ~JobToken(q[1], Async(vw), y)
  BY JobGone
<1>2. \A y \in Async(vw) : y \in Promise
  BY DEF Async
<1> QED BY <1>1, <1>2 DEF Held, Alive

LEMMA JobNew ==
  ASSUME NEW fs, NEW q, NEW rs, NEW vw, NEW x, Lengths(fs, q, rs), Held(fs, q, rs, vw, x),
         NEW u, NEW j, Extends(q, u, j), j.to \in Promise => JobFits(vw[j.to], j),
         \A p \in Promise : JobToken(j, Async(vw), p) => x = p
  PROVE  /\ Core(fs, u, rs, vw)
         /\ \A p \in Promise : Busy(fs, u, rs, Async(vw), p)
                                 <=> Busy(fs, q, rs, Async(vw), p) \/ JobToken(j, Async(vw), p)
<1> DEFINE A == Async(vw)
<1>0. \A p \in Promise : JobToken(j, A, p) => x = p
  OBVIOUS
<1> HIDE DEF A
<1>1. PICK n \in Nat : /\ Len(q) = n /\ Len(u) = n + 1 /\ u[n + 1] = j /\ n + 1 \in 1 .. n + 1
                       /\ \A i \in 1 .. n : u[i] = q[i] /\ i \in 1 .. n + 1
                       /\ \A i \in 1 .. n + 1 : i \in 1 .. n \/ i = n + 1
  BY DEF Extends, Lengths
<1>2. Single(fs, q, rs, A) /\ JobsFit(q, vw)
  BY DEF Held, Core, A
<1>3. ASSUME NEW p \in Promise, JobToken(j, A, p)
      PROVE  /\ \A i \in 1 .. Len(fs) : ~FrameToken(fs[i], p)
             /\ \A i \in 1 .. n : ~JobToken(q[i], A, p)
             /\ \A r \in Promise : \A i \in 1 .. Len(rs[r]) : ~WaitToken(rs[r][i], A, p)
  BY <1>0, <1>1, <1>3 DEF Held, Alive, Busy, A
<1>4. JobsSingle(u, A)
  BY <1>1, <1>2, <1>3 DEF Single, JobsSingle
<1>5. FrameOrJob(fs, u, A)
  BY <1>1, <1>2, <1>3 DEF Single, FrameOrJob
<1>6. JobOrWait(u, rs, A)
  BY <1>1, <1>2, <1>3 DEF Single, JobOrWait
<1>7. JobsFit(u, vw)
  BY <1>1, <1>2 DEF JobsFit
<1>8. ASSUME NEW p \in Promise
      PROVE  Busy(fs, u, rs, A, p) <=> Busy(fs, q, rs, A, p) \/ JobToken(j, A, p)
  <2>1. Busy(fs, q, rs, A, p) => Busy(fs, u, rs, A, p)
    BY <1>1 DEF Busy
  <2>2. JobToken(j, A, p) => Busy(fs, u, rs, A, p)
    BY <1>1 DEF Busy
  <2>3. ASSUME ~JobToken(j, A, p), Busy(fs, u, rs, A, p) PROVE Busy(fs, q, rs, A, p)
    BY <1>1, <2>3 DEF Busy
  <2> QED BY <2>1, <2>2, <2>3
<1> QED BY <1>2, <1>4, <1>5, <1>6, <1>7, <1>8 DEF Held, Core, Single, A

LEMMA PutToken ==
  ASSUME NEW fs, NEW q, NEW rs, NEW vw, NEW p \in Promise, Lengths(fs, q, rs),
         Held(fs, q, rs, vw, p), NEW u, NEW j, Extends(q, u, j), JobToken(j, Async(vw), p),
         JobFits(vw[p], j), vw[p].state = "pending"
  PROVE  Held(fs, u, rs, vw, None)
<1>1. j.to = p /\ \A y \in Promise : JobToken(j, Async(vw), y) => p = y
  BY DEF JobToken
<1>2. /\ Core(fs, u, rs, vw)
      /\ \A y \in Promise : Busy(fs, u, rs, Async(vw), y)
                              <=> Busy(fs, q, rs, Async(vw), y) \/ JobToken(j, Async(vw), y)
  BY <1>1, JobNew
<1>3. \A y \in Async(vw) : y \in Promise
  BY DEF Async
<1> QED BY <1>1, <1>2, <1>3, PromiseValues DEF Held, Alive

LEMMA PutOther ==
  ASSUME NEW fs, NEW q, NEW rs, NEW vw, NEW x, Lengths(fs, q, rs), Held(fs, q, rs, vw, x),
         NEW u, NEW j, Extends(q, u, j), \A p \in Promise : ~JobToken(j, Async(vw), p),
         j.to \in Promise => JobFits(vw[j.to], j)
  PROVE  Held(fs, u, rs, vw, x)
<1>1. /\ Core(fs, u, rs, vw)
      /\ \A y \in Promise : Busy(fs, u, rs, Async(vw), y)
                              <=> Busy(fs, q, rs, Async(vw), y) \/ JobToken(j, Async(vw), y)
  BY JobNew
<1>2. \A y \in Async(vw) : y \in Promise
  BY DEF Async
<1> QED BY <1>1, <1>2 DEF Held, Alive

\* and for reactions that wait.
WaitsMore(rs, w, e, r) == Extends(rs[e], w[e], r) /\ \A y \in Promise : y # e => w[y] = rs[y]

LEMMA WaitNew ==
  ASSUME NEW fs, NEW q, NEW rs, NEW vw, NEW x, Lengths(fs, q, rs), Held(fs, q, rs, vw, x),
         NEW w, NEW e \in Promise, NEW r, WaitsMore(rs, w, e, r),
         r.to \in Promise => WaitFits(vw[r.to], r),
         \A p \in Promise : WaitToken(r, Async(vw), p) => x = p
  PROVE  /\ Core(fs, q, w, vw)
         /\ \A p \in Promise : Busy(fs, q, w, Async(vw), p)
                                 <=> Busy(fs, q, rs, Async(vw), p) \/ WaitToken(r, Async(vw), p)
<1> DEFINE A == Async(vw)
<1>0. \A p \in Promise : WaitToken(r, A, p) => x = p
  OBVIOUS
<1> HIDE DEF A
<1>1. PICK n \in Nat : /\ Len(rs[e]) = n /\ Len(w[e]) = n + 1 /\ w[e][n + 1] = r
                       /\ n + 1 \in 1 .. n + 1
                       /\ \A i \in 1 .. n : w[e][i] = rs[e][i] /\ i \in 1 .. n + 1
                       /\ \A i \in 1 .. n + 1 : i \in 1 .. n \/ i = n + 1
  BY DEF Extends, Lengths, WaitsMore
<1>2. \A y \in Promise : y # e => w[y] = rs[y]
  BY DEF WaitsMore
<1>3. Single(fs, q, rs, A) /\ WaitsFit(rs, vw)
  BY DEF Held, Core, A
<1>4. ASSUME NEW p \in Promise, WaitToken(r, A, p)
      PROVE  /\ \A i \in 1 .. Len(fs) : ~FrameToken(fs[i], p)
             /\ \A i \in 1 .. Len(q) : ~JobToken(q[i], A, p)
             /\ \A s \in Promise : \A i \in 1 .. Len(rs[s]) : ~WaitToken(rs[s][i], A, p)
  BY <1>0, <1>4 DEF Held, Alive, Busy, A
\* A reaction of w is the new one or an old one.
<1>5. ASSUME NEW s \in Promise, NEW i \in 1 .. Len(w[s])
      PROVE  \/ s = e /\ i = n + 1 /\ w[s][i] = r
             \/ i \in 1 .. Len(rs[s]) /\ w[s][i] = rs[s][i]
  <2>1. CASE s = e
    BY <1>1, <2>1
  <2>2. CASE s # e
    BY <1>2, <2>2
  <2> QED BY <2>1, <2>2
<1>6. WaitsSingle(w, A)
  <2> SUFFICES ASSUME NEW p \in Promise, NEW a \in Promise, NEW b \in Promise,
                      NEW i \in 1 .. Len(w[a]), NEW j \in 1 .. Len(w[b]),
                      WaitToken(w[a][i], A, p), WaitToken(w[b][j], A, p)
               PROVE  a = b /\ i = j
    BY DEF WaitsSingle
  <2>1. CASE i \in 1 .. Len(rs[a]) /\ w[a][i] = rs[a][i] /\ j \in 1 .. Len(rs[b]) /\ w[b][j] = rs[b][j]
    BY <1>3, <2>1 DEF Single, WaitsSingle
  <2>2. CASE a = e /\ i = n + 1 /\ w[a][i] = r
    BY <1>4, <1>5, <2>2
  <2>3. CASE b = e /\ j = n + 1 /\ w[b][j] = r
    BY <1>4, <1>5, <2>3
  <2> QED BY <1>5, <2>1, <2>2, <2>3
<1>7. FrameOrWait(fs, w, A)
  BY <1>3, <1>4, <1>5 DEF Single, FrameOrWait
<1>8. JobOrWait(q, w, A)
  BY <1>3, <1>4, <1>5 DEF Single, JobOrWait
<1>9. WaitsFit(w, vw)
  BY <1>3, <1>5 DEF WaitsFit
<1>10. ASSUME NEW p \in Promise
       PROVE  Busy(fs, q, w, A, p) <=> Busy(fs, q, rs, A, p) \/ WaitToken(r, A, p)
  <2>1. ASSUME NEW s \in Promise, NEW i \in 1 .. Len(rs[s])
        PROVE  i \in 1 .. Len(w[s]) /\ w[s][i] = rs[s][i]
    BY <1>1, <1>2
  <2>2. Busy(fs, q, rs, A, p) => Busy(fs, q, w, A, p)
    BY <2>1 DEF Busy
  <2>3. WaitToken(r, A, p) => Busy(fs, q, w, A, p)
    BY <1>1 DEF Busy
  <2>4. ASSUME ~WaitToken(r, A, p), Busy(fs, q, w, A, p) PROVE Busy(fs, q, rs, A, p)
    BY <1>5, <2>4 DEF Busy
  <2> QED BY <2>2, <2>3, <2>4
<1> QED BY <1>3, <1>6, <1>7, <1>8, <1>9, <1>10 DEF Held, Core, Single, A

LEMMA WaitWithToken ==
  ASSUME NEW fs, NEW q, NEW rs, NEW vw, NEW p \in Promise, Lengths(fs, q, rs),
         Held(fs, q, rs, vw, p), NEW w, NEW e \in Promise, NEW r, WaitsMore(rs, w, e, r),
         WaitToken(r, Async(vw), p), WaitFits(vw[p], r), vw[p].state = "pending"
  PROVE  Held(fs, q, w, vw, None)
<1>1. r.to = p /\ \A y \in Promise : WaitToken(r, Async(vw), y) => p = y
  BY DEF WaitToken
<1>2. /\ Core(fs, q, w, vw)
      /\ \A y \in Promise : Busy(fs, q, w, Async(vw), y)
                              <=> Busy(fs, q, rs, Async(vw), y) \/ WaitToken(r, Async(vw), y)
  BY <1>1, WaitNew
<1>3. \A y \in Async(vw) : y \in Promise
  BY DEF Async
<1> QED BY <1>1, <1>2, <1>3, PromiseValues DEF Held, Alive

LEMMA WaitOther ==
  ASSUME NEW fs, NEW q, NEW rs, NEW vw, NEW x, Lengths(fs, q, rs), Held(fs, q, rs, vw, x),
         NEW w, NEW e \in Promise, NEW r, WaitsMore(rs, w, e, r),
         \A p \in Promise : ~WaitToken(r, Async(vw), p), r.to \in Promise => WaitFits(vw[r.to], r)
  PROVE  Held(fs, q, w, vw, x)
<1>1. /\ Core(fs, q, w, vw)
      /\ \A y \in Promise : Busy(fs, q, w, Async(vw), y)
                              <=> Busy(fs, q, rs, Async(vw), y) \/ WaitToken(r, Async(vw), y)
  BY WaitNew
<1>2. \A y \in Async(vw) : y \in Promise
  BY DEF Async
<1> QED BY <1>1, <1>2 DEF Held, Alive

\* What is known of a promise advances while its token is held: it keeps its functions and
\* what it is, or its function does not know it any more.
Later(v, w) ==
  /\ v.handed \subseteq w.handed /\ v.pairs <= w.pairs
  /\ w.kind = v.kind \/ (v.kind = "async" /\ v.pairs = 0 /\ w.kind = "orphan")

Elsewhere(vw, wv, p) == \A y \in Promise : y # p => wv[y] = vw[y]

LEMMA Advance ==
  ASSUME NEW fs, NEW q, NEW rs, NEW vw, NEW p \in Promise, Held(fs, q, rs, vw, p),
         NEW wv, Elsewhere(vw, wv, p), Later(vw[p], wv[p]), ViewOK(wv[p])
  PROVE  Held(fs, q, rs, wv, p)
<1> DEFINE A == Async(vw)
           B == Async(wv)
<1>1. B \subseteq A /\ \A y \in Promise : y # p => (y \in A <=> y \in B)
  BY DEF Async, Elsewhere, Later
<1>2. Single(fs, q, rs, A) /\ ~Busy(fs, q, rs, A, p) /\ ViewOK(vw[p])
  BY DEF Held, Core, Alive
<1>3. vw[p].kind = "async" /\ vw[p].pairs = 0 => p \in A
  BY <1>2 DEF ViewOK, Async
<1>a. A = Async(vw) /\ B = Async(wv)
  OBVIOUS
<1> HIDE DEF A, B
<1>4. /\ \A j, y : JobToken(j, B, y) => JobToken(j, A, y)
      /\ \A j : \A y \in Promise : y # p => (JobToken(j, B, y) <=> JobToken(j, A, y))
  BY <1>1 DEF JobToken
<1>5. /\ \A r, y : WaitToken(r, B, y) => WaitToken(r, A, y)
      /\ \A r : \A y \in Promise : y # p => (WaitToken(r, B, y) <=> WaitToken(r, A, y))
  BY <1>1 DEF WaitToken
<1>6. Single(fs, q, rs, B)
  BY <1>2, <1>4, <1>5
     DEF Single, JobsSingle, WaitsSingle, FrameOrJob, FrameOrWait, JobOrWait
<1>7. ~Busy(fs, q, rs, B, p)
  BY <1>2, <1>4, <1>5 DEF Busy
<1>8. \A y \in Promise : y # p => (Busy(fs, q, rs, B, y) <=> Busy(fs, q, rs, A, y))
  BY <1>4, <1>5 DEF Busy
<1>9. FramesFit(fs, wv)
  <2> SUFFICES ASSUME NEW i \in 1 .. Len(fs), fs[i].p \in Promise PROVE FrameFits(wv[fs[i].p], fs[i])
    BY DEF FramesFit
  <2>1. FrameFits(vw[fs[i].p], fs[i])
    BY DEF Held, Core, FramesFit
  <2>2. CASE fs[i].p # p
    BY <2>1, <2>2 DEF Elsewhere
  <2>3. CASE fs[i].p = p
    <3>1. fs[i].op \notin {"fulfill", "reject", "body"}
      BY <1>2, <2>3 DEF Busy, FrameToken
    <3> QED BY <2>1, <2>3, <3>1 DEF FrameFits, Later
  <2> QED BY <2>2, <2>3
<1>10. JobsFit(q, wv)
  <2> SUFFICES ASSUME NEW i \in 1 .. Len(q), q[i].to \in Promise PROVE JobFits(wv[q[i].to], q[i])
    BY DEF JobsFit
  <2>1. JobFits(vw[q[i].to], q[i])
    BY DEF Held, Core, JobsFit
  <2>2. CASE q[i].to # p
    BY <2>1, <2>2 DEF Elsewhere
  <2>3. CASE q[i].to = p
    <3>1. q[i].handler # "thenable" /\ p \notin A
      BY <1>2, <2>3 DEF Busy, JobToken
    <3>2. q[i].handler \notin {"resume", "resume_throw"}
      BY <1>3, <2>1, <2>3, <3>1 DEF JobFits
    <3>3. /\ wv[p].kind = vw[p].kind /\ (vw[p].pairs > 0 => wv[p].pairs > 0)
          /\ ~(wv[p].kind = "async" /\ wv[p].handed = {})
      BY <1>a, <1>1, <1>2, <1>3, <3>1 DEF Later, ViewOK, Async
    <3> QED BY <2>1, <2>3, <3>1, <3>2, <3>3 DEF JobFits
  <2> QED BY <2>2, <2>3
<1>11. WaitsFit(rs, wv)
  <2> SUFFICES ASSUME NEW s \in Promise, NEW i \in 1 .. Len(rs[s]), rs[s][i].to \in Promise
               PROVE  WaitFits(wv[rs[s][i].to], rs[s][i])
    BY DEF WaitsFit
  <2>1. WaitFits(vw[rs[s][i].to], rs[s][i])
    BY DEF Held, Core, WaitsFit
  <2>2. CASE rs[s][i].to # p
    BY <2>1, <2>2 DEF Elsewhere
  <2>3. CASE rs[s][i].to = p
    <3>1. p \notin A
      BY <1>2, <2>3 DEF Busy, WaitToken
    <3>2. rs[s][i].onFulfilled # "resume"
      BY <1>3, <2>1, <2>3, <3>1 DEF WaitFits
    <3>3. /\ wv[p].kind = vw[p].kind /\ (vw[p].pairs > 0 => wv[p].pairs > 0)
          /\ ~(wv[p].kind = "async" /\ wv[p].handed = {})
      BY <1>a, <1>1, <1>2, <1>3, <3>1 DEF Later, ViewOK, Async
    <3> QED BY <2>1, <2>3, <3>1, <3>2, <3>3 DEF WaitFits
  <2> QED BY <2>2, <2>3
<1>12. \A y \in Promise : ViewOK(wv[y])
  BY DEF Held, Core, Elsewhere
<1>13. Core(fs, q, rs, wv)
  BY <1>a, <1>6, <1>9, <1>10, <1>11, <1>12 DEF Core
<1>14. ASSUME NEW y \in B, y # p PROVE Busy(fs, q, rs, B, y) <=> wv[y].state = "pending"
  <2>1. y \in Promise /\ y \in A /\ wv[y] = vw[y]
    BY <1>a, <1>1, <1>14 DEF Async, Elsewhere
  <2>2. Busy(fs, q, rs, A, y) <=> vw[y].state = "pending"
    BY <1>a, <1>14, <2>1 DEF Held, Alive
  <2> QED BY <1>8, <1>14, <2>1, <2>2
<1> QED BY <1>a, <1>7, <1>13, <1>14 DEF Held, Alive

\* A promise is made: nothing leads to it yet.
LEMMA Birth ==
  ASSUME NEW fs, NEW q, NEW rs, NEW vw, Held(fs, q, rs, vw, None), NEW p \in Promise,
         vw[p].kind = "unborn", NEW wv, Elsewhere(vw, wv, p), ViewOK(wv[p])
  PROVE  Held(fs, q, rs, wv, p)
<1> DEFINE A == Async(vw)
           B == Async(wv)
<1>1. \A y \in Promise : y # p => (y \in A <=> y \in B)
  BY DEF Async, Elsewhere
<1>2. /\ \A i \in 1 .. Len(fs) : fs[i].p # p
      /\ \A i \in 1 .. Len(q) : q[i].to # p
      /\ \A s \in Promise : \A i \in 1 .. Len(rs[s]) : rs[s][i].to # p
  BY DEF Held, Core, FramesFit, JobsFit, WaitsFit, FrameFits, JobFits, WaitFits
<1>3. Single(fs, q, rs, A)
  BY DEF Held, Core
<1>a. A = Async(vw) /\ B = Async(wv)
  OBVIOUS
<1> HIDE DEF A, B
<1>4. /\ \A i \in 1 .. Len(q) : \A y \in Promise : JobToken(q[i], B, y) <=> JobToken(q[i], A, y)
      /\ \A i \in 1 .. Len(q) : ~JobToken(q[i], B, p)
      /\ \A i \in 1 .. Len(fs) : ~FrameToken(fs[i], p)
  BY <1>1, <1>2 DEF JobToken, FrameToken
<1>5. \A s \in Promise : \A i \in 1 .. Len(rs[s]) :
        /\ \A y \in Promise : WaitToken(rs[s][i], B, y) <=> WaitToken(rs[s][i], A, y)
        /\ ~WaitToken(rs[s][i], B, p)
  BY <1>1, <1>2 DEF WaitToken
<1>6. Single(fs, q, rs, B)
  <2>1. FramesSingle(fs) /\ JobsSingle(q, B)
    BY <1>3, <1>4 DEF Single, JobsSingle
  <2>2. WaitsSingle(rs, B)
    BY <1>3, <1>5 DEF Single, WaitsSingle
  <2>3. FrameOrJob(fs, q, B)
    BY <1>3, <1>4 DEF Single, FrameOrJob
  <2>4. FrameOrWait(fs, rs, B)
    BY <1>3, <1>5 DEF Single, FrameOrWait
  <2>5. JobOrWait(q, rs, B)
    BY <1>3, <1>4, <1>5 DEF Single, JobOrWait
  <2> QED BY <2>1, <2>2, <2>3, <2>4, <2>5 DEF Single
<1>7. ~Busy(fs, q, rs, B, p)
  BY <1>4, <1>5 DEF Busy
<1>8. \A y \in Promise : Busy(fs, q, rs, B, y) <=> Busy(fs, q, rs, A, y)
  BY <1>4, <1>5 DEF Busy
<1>9. FramesFit(fs, wv) /\ JobsFit(q, wv) /\ WaitsFit(rs, wv)
  BY <1>2 DEF Held, Core, FramesFit, JobsFit, WaitsFit, Elsewhere
<1>10. \A y \in Promise : ViewOK(wv[y])
  BY DEF Held, Core, Elsewhere
<1>11. Core(fs, q, rs, wv)
  BY <1>a, <1>6, <1>9, <1>10 DEF Core
<1>12. ASSUME NEW y \in B, y # p PROVE Busy(fs, q, rs, B, y) <=> wv[y].state = "pending"
  <2>1. y \in Promise /\ y \in A /\ wv[y] = vw[y] /\ y # None
    BY <1>a, <1>1, <1>12, PromiseValues DEF Async, Elsewhere
  <2>2. Busy(fs, q, rs, A, y) <=> vw[y].state = "pending"
    BY <1>a, <2>1 DEF Held, Alive
  <2> QED BY <1>8, <2>1, <2>2
<1> QED BY <1>a, <1>7, <1>11, <1>12 DEF Held, Alive

\* The token is not needed any more: the promise is settled, or is not that of an async
\* function.
LEMMA PutDown ==
  ASSUME NEW fs, NEW q, NEW rs, NEW vw, NEW p \in Promise, Held(fs, q, rs, vw, p),
         p \notin Async(vw) \/ vw[p].state # "pending"
  PROVE  Held(fs, q, rs, vw, None)
  BY PromiseValues DEF Held, Alive

\* A promise whose flag is not set has no token, if it is not that of an async function:
\* a call of its functions gets one.
LEMMA PickUp ==
  ASSUME NEW fs, NEW q, NEW rs, NEW vw, NEW p \in Promise, Held(fs, q, rs, vw, None),
         Flagged(vw[p]), ~vw[p].already, p \notin Async(vw), vw[p].pairs \in Nat
  PROVE  Held(fs, q, rs, vw, p)
<1>1. \A i \in 1 .. Len(fs) : ~FrameToken(fs[i], p)
  <2> SUFFICES ASSUME NEW i \in 1 .. Len(fs), FrameToken(fs[i], p) PROVE FALSE
    OBVIOUS
  <2>1. fs[i].p = p /\ fs[i].op \in {"fulfill", "reject", "body"} /\ FrameFits(vw[p], fs[i])
    BY DEF FrameToken, Held, Core, FramesFit
  <2> QED BY <2>1 DEF FrameFits, Pending, Flagged
<1>2. \A i \in 1 .. Len(q) : ~JobToken(q[i], Async(vw), p)
  <2> SUFFICES ASSUME NEW i \in 1 .. Len(q), JobToken(q[i], Async(vw), p) PROVE FALSE
    OBVIOUS
  <2>1. q[i].to = p /\ q[i].handler = "thenable" /\ JobFits(vw[p], q[i])
    BY DEF JobToken, Held, Core, JobsFit
  <2> QED BY <2>1 DEF JobFits, Pending
<1>3. \A s \in Promise : \A i \in 1 .. Len(rs[s]) : ~WaitToken(rs[s][i], Async(vw), p)
  BY DEF WaitToken
<1>4. ~Busy(fs, q, rs, Async(vw), p)
  BY <1>1, <1>2, <1>3 DEF Busy
<1>5. \A y \in Async(vw) : y # None
  BY PromiseValues DEF Async
<1> QED BY <1>4, <1>5 DEF Held, Alive

\* The reactions of a settled promise become jobs, and their tokens with them.
JobFollows(r, j) ==
  /\ j.to = r.to
  /\ \/ r.onFulfilled = "resolve" /\ j.handler \in {"resolve", "reject"}
     \/ r.onFulfilled = "resume" /\ j.handler \in {"resume", "resume_throw"}
     \/ r.onFulfilled \in {"identity", "user"} /\ j.handler \in {"identity", "user", "thrower"}

Moves(q, rs, e, w, u) ==
  /\ Len(w[e]) = 0 /\ \A y \in Promise : y # e => w[y] = rs[y]
  /\ Len(u) = Len(q) + Len(rs[e]) /\ \A k \in 1 .. Len(q) : u[k] = q[k]
  /\ \A k \in 1 .. Len(rs[e]) : JobFollows(rs[e][k], u[Len(q) + k])

LEMMA MoveJobs ==
  ASSUME NEW fs, NEW q, NEW rs, NEW vw, NEW x, Lengths(fs, q, rs), Held(fs, q, rs, vw, x),
         NEW e \in Promise, NEW w, NEW u, Moves(q, rs, e, w, u)
  PROVE  Held(fs, u, w, vw, x)
<1> DEFINE A == Async(vw)
<1>0. Single(fs, q, rs, A) /\ A = Async(vw)
  BY DEF Held, Core
<1> HIDE DEF A
<1>1. PICK m \in Nat, n \in Nat : m = Len(q) /\ n = Len(rs[e]) /\ Len(u) = m + n
  BY DEF Lengths, Moves
<1>2. /\ Len(w[e]) = 0 /\ \A y \in Promise : y # e => w[y] = rs[y]
      /\ \A k \in 1 .. m : u[k] = q[k] /\ k \in 1 .. m + n
      /\ \A k \in 1 .. n : JobFollows(rs[e][k], u[m + k]) /\ m + k \in 1 .. m + n
  BY <1>1 DEF Moves
<1>3. ASSUME NEW k \in 1 .. m + n
      PROVE  k \in 1 .. m \/ \E a \in 1 .. n : k = m + a
  <2>1. k \notin 1 .. m => k - m \in 1 .. n /\ k = m + (k - m)
    OBVIOUS
  <2> QED BY <2>1
<1>4. ASSUME NEW s \in Promise, NEW i \in 1 .. Len(w[s])
      PROVE  s # e /\ i \in 1 .. Len(rs[s]) /\ w[s][i] = rs[s][i]
  BY <1>2
<1>5. \A k \in 1 .. n : \A p \in Promise :
        JobToken(u[m + k], A, p) <=> WaitToken(rs[e][k], A, p)
  BY <1>2 DEF JobFollows, JobToken, WaitToken
<1>6. JobsSingle(u, A)
  <2> SUFFICES ASSUME NEW p \in Promise, NEW i \in 1 .. m + n, NEW j \in 1 .. m + n,
                      JobToken(u[i], A, p), JobToken(u[j], A, p)
               PROVE  i = j
    BY <1>1 DEF JobsSingle
  <2>1. CASE i \in 1 .. m /\ j \in 1 .. m
    BY <1>0, <1>1, <1>2, <2>1 DEF Single, JobsSingle
  <2>2. ASSUME NEW a \in 1 .. n, i = m + a, j \in 1 .. m PROVE FALSE
    BY <1>0, <1>1, <1>2, <1>5, <2>2 DEF Single, JobOrWait
  <2>3. ASSUME NEW a \in 1 .. n, j = m + a, i \in 1 .. m PROVE FALSE
    BY <1>0, <1>1, <1>2, <1>5, <2>3 DEF Single, JobOrWait
  <2>4. ASSUME NEW a \in 1 .. n, i = m + a, NEW b \in 1 .. n, j = m + b PROVE i = j
    <3>1. a = b
      BY <1>0, <1>1, <1>5, <2>4 DEF Single, WaitsSingle
    <3> QED BY <2>4, <3>1
  <2> QED BY <1>3, <2>1, <2>2, <2>3, <2>4
<1>7. WaitsSingle(w, A)
  BY <1>0, <1>4 DEF Single, WaitsSingle
<1>8. FrameOrJob(fs, u, A)
  <2> SUFFICES ASSUME NEW p \in Promise, NEW i \in 1 .. Len(fs), NEW j \in 1 .. m + n,
                      FrameToken(fs[i], p), JobToken(u[j], A, p)
               PROVE  FALSE
    BY <1>1 DEF FrameOrJob
  <2>1. CASE j \in 1 .. m
    BY <1>0, <1>1, <1>2, <2>1 DEF Single, FrameOrJob
  <2>2. ASSUME NEW a \in 1 .. n, j = m + a PROVE FALSE
    BY <1>0, <1>1, <1>5, <2>2 DEF Single, FrameOrWait
  <2> QED BY <1>3, <2>1, <2>2
<1>9. FrameOrWait(fs, w, A)
  BY <1>0, <1>4 DEF Single, FrameOrWait
<1>10. JobOrWait(u, w, A)
  <2> SUFFICES ASSUME NEW p \in Promise, NEW s \in Promise, NEW i \in 1 .. m + n,
                      NEW j \in 1 .. Len(w[s]), JobToken(u[i], A, p), WaitToken(w[s][j], A, p)
               PROVE  FALSE
    BY <1>1 DEF JobOrWait
  <2>0. s # e /\ j \in 1 .. Len(rs[s]) /\ WaitToken(rs[s][j], A, p)
    BY <1>4
  <2>1. CASE i \in 1 .. m
    BY <1>0, <1>1, <1>2, <2>0, <2>1 DEF Single, JobOrWait
  <2>2. ASSUME NEW a \in 1 .. n, i = m + a PROVE FALSE
    BY <1>0, <1>1, <1>5, <2>0, <2>2 DEF Single, WaitsSingle
  <2> QED BY <1>3, <2>1, <2>2
<1>11. JobsFit(u, vw)
  <2> SUFFICES ASSUME NEW k \in 1 .. m + n, u[k].to \in Promise PROVE JobFits(vw[u[k].to], u[k])
    BY <1>1 DEF JobsFit
  <2>1. CASE k \in 1 .. m
    BY <1>1, <1>2, <2>1 DEF Held, Core, JobsFit
  <2>2. ASSUME NEW a \in 1 .. n, k = m + a PROVE JobFits(vw[u[k].to], u[k])
    <3>1. JobFollows(rs[e][a], u[k])
      BY <1>2, <2>2
    <3>2. rs[e][a].to \in Promise /\ u[k].to = rs[e][a].to
      BY <3>1 DEF JobFollows
    <3>3. WaitFits(vw[u[k].to], rs[e][a])
      BY <1>1, <3>2 DEF Held, Core, WaitsFit
    <3> QED BY <3>1, <3>3 DEF JobFollows, WaitFits, JobFits
  <2> QED BY <1>3, <2>1, <2>2
<1>12. WaitsFit(w, vw)
  BY <1>4 DEF Held, Core, WaitsFit
<1>13. ASSUME NEW p \in Promise PROVE Busy(fs, u, w, A, p) <=> Busy(fs, q, rs, A, p)
  <2>1. ASSUME NEW k \in 1 .. Len(q), JobToken(q[k], A, p) PROVE Busy(fs, u, w, A, p)
    <3>1. k \in 1 .. Len(u) /\ u[k] = q[k]
      BY <1>1, <1>2
    <3> QED BY <2>1, <3>1 DEF Busy
  <2>2. ASSUME NEW s \in Promise, NEW k \in 1 .. Len(rs[s]), WaitToken(rs[s][k], A, p)
        PROVE  Busy(fs, u, w, A, p)
    <3>1. CASE s = e
      <4>1. m + k \in 1 .. Len(u) /\ JobToken(u[m + k], A, p)
        BY <1>1, <1>2, <1>5, <2>2, <3>1
      <4> QED BY <4>1 DEF Busy
    <3>2. CASE s # e
      <4>1. k \in 1 .. Len(w[s]) /\ w[s][k] = rs[s][k]
        BY <1>2, <3>2
      <4> QED BY <2>2, <4>1 DEF Busy
    <3> QED BY <3>1, <3>2
  <2>3. Busy(fs, q, rs, A, p) => Busy(fs, u, w, A, p)
    <3>1. ASSUME NEW i \in 1 .. Len(fs), FrameToken(fs[i], p) PROVE Busy(fs, u, w, A, p)
      BY <3>1 DEF Busy
    <3> QED BY <2>1, <2>2, <3>1 DEF Busy
  <2>4. ASSUME NEW k \in 1 .. m + n, JobToken(u[k], A, p) PROVE Busy(fs, q, rs, A, p)
    <3>1. CASE k \in 1 .. m
      BY <1>1, <1>2, <2>4, <3>1 DEF Busy
    <3>2. ASSUME NEW a \in 1 .. n, k = m + a PROVE Busy(fs, q, rs, A, p)
      <4>1. WaitToken(rs[e][a], A, p) /\ a \in 1 .. Len(rs[e])
        BY <1>1, <1>5, <2>4, <3>2
      <4> QED BY <4>1 DEF Busy
    <3> QED BY <1>3, <3>1, <3>2
  <2>5. ASSUME NEW s \in Promise, NEW k \in 1 .. Len(w[s]), WaitToken(w[s][k], A, p)
        PROVE  Busy(fs, q, rs, A, p)
    BY <1>4, <2>5 DEF Busy
  <2>6. Busy(fs, u, w, A, p) => Busy(fs, q, rs, A, p)
    <3>1. ASSUME NEW i \in 1 .. Len(fs), FrameToken(fs[i], p) PROVE Busy(fs, q, rs, A, p)
      BY <3>1 DEF Busy
    <3> QED BY <1>1, <2>4, <2>5, <3>1 DEF Busy
  <2> QED BY <2>3, <2>6
<1>14. Core(fs, u, w, vw)
  BY <1>0, <1>6, <1>7, <1>8, <1>9, <1>10, <1>11, <1>12 DEF Held, Core, Single
<1>15. \A y \in A : y \in Promise
  BY <1>0 DEF Async
<1> QED BY <1>0, <1>13, <1>14, <1>15 DEF Held, Alive

-----------------------------------------------------------------------------
(* Settlements, step by step.                                              *)

LEMMA ViewFacts ==
  ASSUME NEW p \in Promise
  PROVE  /\ View[p].kind = kind[p] /\ View[p].state = state[p] /\ View[p].already = already[p]
         /\ View[p].pairs = pairs[p] /\ View[p].handed = handed[p]
         /\ View'[p].kind = kind'[p] /\ View'[p].state = state'[p] /\ View'[p].already = already'[p]
         /\ View'[p].pairs = pairs'[p] /\ View'[p].handed = handed'[p]
         /\ (p \in Async(View) <=> kind[p] = "async" /\ handed[p] = {})
         /\ (p \in Async(View') <=> kind'[p] = "async" /\ handed'[p] = {})
<1>1. /\ View[p] = [kind |-> kind[p], state |-> state[p], already |-> already[p],
                    pairs |-> pairs[p], handed |-> handed[p]]
      /\ View'[p] = [kind |-> kind'[p], state |-> state'[p], already |-> already'[p],
                     pairs |-> pairs'[p], handed |-> handed'[p]]
  BY DEF View
<1>2. /\ View[p].kind = kind[p] /\ View[p].state = state[p] /\ View[p].already = already[p]
      /\ View[p].pairs = pairs[p] /\ View[p].handed = handed[p]
      /\ View'[p].kind = kind'[p] /\ View'[p].state = state'[p] /\ View'[p].already = already'[p]
      /\ View'[p].pairs = pairs'[p] /\ View'[p].handed = handed'[p]
  BY <1>1
<1> QED BY <1>2 DEF Async

LEMMA ViewSame ==
  ASSUME UNCHANGED <<kind, state, already, pairs, handed>>
  PROVE  View' = View
  BY DEF View

LEMMA ViewElsewhere ==
  ASSUME NEW p \in Promise,
         \A y \in Promise : y # p => /\ kind'[y] = kind[y] /\ state'[y] = state[y]
                                     /\ already'[y] = already[y] /\ pairs'[y] = pairs[y]
                                     /\ handed'[y] = handed[y]
  PROVE  Elsewhere(View, View', p)
  BY DEF Elsewhere, View

LEMMA FrameFields ==
  ASSUME NEW op, NEW p, NEW v
  PROVE  Frame(op, p, v).op = op /\ Frame(op, p, v).p = p
  BY DEF Frame

\* A settlement is entered with the token.
LEMMA EnterHeld ==
  ASSUME NEW fs, NEW q, NEW rs, NEW vw, Lengths(fs, q, rs), CallsTyped(fs), NEW op \in Outcome,
         NEW p \in Promise, NEW v \in Values, Held(fs, q, rs, vw, p), Pending(vw[p]),
         state[p] = "pending", Enter(fs, op, p, v)
  PROVE  Held(frames', q, rs, vw, None) /\ phase' = phase
<1> DEFINE f == Frame(op, p, v)
<1>1. frames' = Append(fs, f) /\ phase' = phase
  BY DEF Enter
<1>2. f \in Calls /\ fs \in Seq(Calls)
  BY DEF Frame, Calls, Outcome, CallsTyped
<1>3. f.op = op /\ f.p = p
  BY FrameFields
<1> HIDE DEF f
<1>4. Extends(fs, frames', f)
  BY <1>1, <1>2, AppendFacts DEF Extends
<1>5. FrameToken(f, p) /\ FrameFits(vw[p], f) /\ vw[p].state = "pending"
  BY <1>3 DEF FrameToken, FrameFits, Outcome, Pending
<1>6. Held(frames', q, rs, vw, None)
  BY <1>4, <1>5, PushToken
<1> QED BY <1>1, <1>6

\* The flag decides: it is set with the token in hand,
LEMMA FlagHeld ==
  ASSUME NEW fs, NEW q, NEW rs, Lengths(fs, q, rs), CallsTyped(fs), NEW op \in Outcome,
         NEW p \in Promise, NEW v \in Values, Held(fs, q, rs, View, p), Typed,
         kind[p] \in {"plain", "async"}, Flagged(View[p]), ~already[p],
         UNCHANGED <<kind, state, pairs, handed>>, EnterWithChecks(fs, op, p, v)
  PROVE  Held(frames', q, rs, View', None) /\ phase' = phase
<1>1. already' = [already EXCEPT ![p] = TRUE] /\ Enter(fs, op, p, v)
  BY DEF EnterWithChecks
<1>2. already'[p] /\ \A y \in Promise : y # p => already'[y] = already[y]
  BY <1>1, Zenon DEF Typed, FlagsTyped
<1>3. Elsewhere(View, View', p)
  BY <1>2, ViewElsewhere
<1>4. ViewOK(View[p]) /\ state[p] = "pending"
  BY ViewFacts DEF Held, Core, ViewOK
<1>5. Later(View[p], View'[p]) /\ ViewOK(View'[p]) /\ Pending(View'[p])
  <2>1. pairs[p] \in Nat
    BY DEF Typed, PairsTyped
  <2>2. Later(View[p], View'[p])
    BY <2>1, ViewFacts DEF Later
  <2>3. ViewOK(View'[p]) /\ Pending(View'[p])
    BY <1>2, <1>4, ViewFacts DEF ViewOK, Pending
  <2> QED BY <2>2, <2>3
<1>6. Held(fs, q, rs, View', p)
  BY <1>3, <1>5, Advance
<1> QED BY <1>1, <1>4, <1>5, <1>6, EnterHeld

\* which a function of a promise gets if the flag was not set.
LEMMA ChecksHeld ==
  ASSUME NEW fs, NEW q, NEW rs, Lengths(fs, q, rs), CallsTyped(fs), NEW op \in Outcome,
         NEW p \in Promise, NEW v \in Values, Held(fs, q, rs, View, None), Typed,
         kind[p] \in {"plain", "async"}, Flagged(View[p]), p \notin Async(View),
         UNCHANGED <<kind, state, pairs, handed>>, EnterWithChecks(fs, op, p, v)
  PROVE  Held(frames', q, rs, View', None) /\ phase' = phase
<1>1. CASE already[p]
  <2>1. frames' = fs /\ already' = already /\ phase' = phase
    BY <1>1 DEF EnterWithChecks
  <2>2. View' = View
    BY <2>1, ViewSame
  <2> QED BY <2>1, <2>2
<1>2. CASE ~already[p]
  <2>1. ~View[p].already /\ View[p].pairs \in Nat
    BY <1>2, ViewFacts DEF Typed, PairsTyped
  <2>2. Held(fs, q, rs, View, p)
    BY <2>1, PickUp
  <2> QED BY <1>2, <2>2, FlagHeld
<1> QED BY <1>1, <1>2

LEMMA CapabilityHeld ==
  ASSUME NEW fs, NEW q, NEW rs, Lengths(fs, q, rs), CallsTyped(fs), NEW op \in Outcome,
         NEW c \in Promise \cup {None, Custom}, NEW v \in Values, Held(fs, q, rs, View, None), Typed,
         c \in Promise => kind[c] = "plain",
         UNCHANGED <<kind, state, pairs, handed>>, CallCapability(fs, op, c, v)
  PROVE  Held(frames', q, rs, View', None) /\ phase' = phase
<1>1. CASE c \in Promise
  <2>1. kind[c] \in {"plain", "async"} /\ Flagged(View[c]) /\ c \notin Async(View)
    BY <1>1, ViewFacts DEF Flagged
  <2>2. EnterWithChecks(fs, op, c, v)
    BY <1>1 DEF CallCapability
  <2> QED BY <1>1, <2>1, <2>2, ChecksHeld
<1>2. CASE c \notin Promise
  <2>1. /\ frames' = IF c = Custom THEN Append(fs, Frame("custom", None, v)) ELSE fs
        /\ already' = already /\ phase' = phase
    BY <1>2 DEF CallCapability
  <2>2. View' = View
    BY <2>1, ViewSame
  <2>3. Frame("custom", None, v) \in Calls /\ fs \in Seq(Calls)
    BY DEF Frame, Calls, CallsTyped
  <2>4. Extends(fs, Append(fs, Frame("custom", None, v)), Frame("custom", None, v))
    BY <2>3, AppendFacts DEF Extends
  <2>5. /\ Frame("custom", None, v).p \notin Promise
        /\ \A p \in Promise : ~FrameToken(Frame("custom", None, v), p)
    BY FrameFields, PromiseValues DEF FrameToken
  <2>6. Held(Append(fs, Frame("custom", None, v)), q, rs, View, None)
    BY <2>4, <2>5, PushOther
  <2> QED BY <2>1, <2>2, <2>6
<1> QED BY <1>1, <1>2

LEMMA FollowsFacts ==
  ASSUME NEW r \in Reaction, ReactionOK(r), NEW s \in {"fulfilled", "rejected"}, NEW v \in Values
  PROVE  JobFollows(r, Job(r, s, v))
<1>1. /\ Job(r, s, v).to = r.to
      /\ Job(r, s, v).handler = IF s = "fulfilled" THEN r.onFulfilled ELSE r.onRejected
  BY DEF Job
<1> QED BY <1>1 DEF JobFollows, ReactionOK

LEMMA FollowsFit ==
  ASSUME NEW r, NEW j, JobFollows(r, j), NEW v, WaitFits(v, r)
  PROVE  JobFits(v, j)
  BY DEF JobFollows, WaitFits, JobFits

\* A reaction is added with the token of an async function,
LEMMA AddToken ==
  ASSUME NEW fs, NEW q, NEW vw, Lengths(fs, q, reactions), QueueTyped(q), ReactionsTyped(reactions),
         StatesTyped(state, result), NEW p \in Promise, NEW r \in Reaction, ReactionOK(r),
         AddReaction(q, p, r), NEW a \in Promise, r.to = a, a \in Async(vw),
         vw[a].state = "pending", WaitFits(vw[a], r), Held(fs, q, reactions, vw, a)
  PROVE  Held(fs, queue', reactions', vw, None)
<1>1. CASE state[p] = "pending"
  <2>1. reactions' = [reactions EXCEPT ![p] = Append(@, r)] /\ queue' = q
    BY <1>1 DEF AddReaction
  <2>2. WaitsMore(reactions, reactions', p, r)
    BY <2>1, ReactionsAppend DEF WaitsMore
  <2>3. WaitToken(r, Async(vw), a)
    BY DEF WaitToken
  <2>4. Held(fs, q, reactions', vw, None)
    BY <2>2, <2>3, WaitWithToken
  <2> QED BY <2>1, <2>4
<1>2. CASE state[p] # "pending"
  <2> DEFINE j == Job(r, state[p], result[p])
  <2>1. queue' = Append(q, j) /\ reactions' = reactions
    BY <1>2 DEF AddReaction
  <2>2. state[p] \in {"fulfilled", "rejected"} /\ result[p] \in Values
    BY <1>2 DEF StatesTyped
  <2>3. j \in Jobs /\ JobOK(j) /\ JobFollows(r, j)
    BY <2>2, JobFacts, FollowsFacts
  <2> HIDE DEF j
  <2>4. Extends(q, queue', j)
    BY <2>1, <2>3, QueueAppend
  <2>5. JobToken(j, Async(vw), a) /\ JobFits(vw[a], j)
    BY <2>3, FollowsFit DEF JobToken, JobFollows
  <2>6. Held(fs, queue', reactions, vw, None)
    BY <2>4, <2>5, PutToken
  <2> QED BY <2>1, <2>6
<1> QED BY <1>1, <1>2

\* or without one.
LEMMA AddOther ==
  ASSUME NEW fs, NEW q, NEW vw, NEW x, Lengths(fs, q, reactions), QueueTyped(q),
         ReactionsTyped(reactions), StatesTyped(state, result), NEW p \in Promise,
         NEW r \in Reaction, ReactionOK(r), AddReaction(q, p, r), r.to \notin Async(vw),
         r.to \in Promise => WaitFits(vw[r.to], r), Held(fs, q, reactions, vw, x)
  PROVE  Held(fs, queue', reactions', vw, x)
<1>1. CASE state[p] = "pending"
  <2>1. reactions' = [reactions EXCEPT ![p] = Append(@, r)] /\ queue' = q
    BY <1>1 DEF AddReaction
  <2>2. WaitsMore(reactions, reactions', p, r)
    BY <2>1, ReactionsAppend DEF WaitsMore
  <2>3. \A y \in Promise : ~WaitToken(r, Async(vw), y)
    BY DEF WaitToken
  <2>4. Held(fs, q, reactions', vw, x)
    BY <2>2, <2>3, WaitOther
  <2> QED BY <2>1, <2>4
<1>2. CASE state[p] # "pending"
  <2> DEFINE j == Job(r, state[p], result[p])
  <2>1. queue' = Append(q, j) /\ reactions' = reactions
    BY <1>2 DEF AddReaction
  <2>2. state[p] \in {"fulfilled", "rejected"} /\ result[p] \in Values
    BY <1>2 DEF StatesTyped
  <2>3. j \in Jobs /\ JobOK(j) /\ JobFollows(r, j)
    BY <2>2, JobFacts, FollowsFacts
  <2> HIDE DEF j
  <2>4. Extends(q, queue', j)
    BY <2>1, <2>3, QueueAppend
  <2>5. j.to = r.to /\ j.handler # "thenable"
    BY <2>3 DEF JobFollows
  <2>6. \A y \in Promise : ~JobToken(j, Async(vw), y)
    BY <2>5 DEF JobToken
  <2>7. j.to \in Promise => JobFits(vw[j.to], j)
    BY <2>3, <2>5, FollowsFit
  <2>8. Held(fs, queue', reactions, vw, x)
    BY <2>4, <2>6, <2>7, PutOther
  <2> QED BY <2>1, <2>8
<1> QED BY <1>1, <1>2

\* An await takes the token of its function, where that has one.
LEMMA AwaitHeld ==
  ASSUME NEW fs, NEW vw, Lengths(fs, queue, reactions), Typed, NEW a \in Promise \cup {None},
         NEW v \in Values, Await(a, v), Held(fs, queue, reactions, vw, a),
         a \in Promise => a \in Async(vw) /\ vw[a].state = "pending" /\ vw[a].pairs = 0
  PROVE  Held(fs, queue', reactions', vw, None)
<1> DEFINE r == [id |-> NextId, to |-> a, onFulfilled |-> "resume", onRejected |-> "resume_throw"]
<1>0. QueueTyped(queue) /\ ReactionsTyped(reactions) /\ StatesTyped(state, result) /\ NextId \in Nat
  BY EmptyLen DEF Typed, NextId, HistoryTyped
<1>1. r \in Reaction /\ ReactionOK(r)
  BY <1>0, AwaitReaction
<1>2. /\ r.to = a
      /\ a \in Promise => WaitFits(vw[a], r)
  BY DEF WaitFits, Async
<1>3. None \notin Async(vw) /\ None \notin Promise
  BY PromiseValues DEF Async
<1>4. CASE v \in Promise
  <2>1. AddReaction(queue, v, r)
    BY <1>4 DEF Await
  <2> HIDE DEF r
  <2>2. CASE a \in Promise
    BY <1>0, <1>1, <1>2, <1>4, <2>1, <2>2, AddToken
  <2>3. CASE a = None
    BY <1>0, <1>1, <1>2, <1>3, <1>4, <2>1, <2>3, AddOther
  <2> QED BY <2>2, <2>3
<1>5. CASE v \notin Promise
  <2> DEFINE j == Job(r, "fulfilled", v)
  <2>1. queue' = Append(queue, j) /\ reactions' = reactions
    BY <1>5 DEF Await
  <2> HIDE DEF r
  <2>2. j \in Jobs /\ JobOK(j) /\ JobFollows(r, j)
    BY <1>1, JobFacts, FollowsFacts
  <2> HIDE DEF j
  <2>3. Extends(queue, queue', j) /\ j.to = a
    BY <1>0, <1>2, <2>1, <2>2, QueueAppend DEF JobFollows
  <2>4. CASE a \in Promise
    <3>1. JobToken(j, Async(vw), a) /\ JobFits(vw[a], j)
      BY <1>2, <2>2, <2>3, <2>4, FollowsFit DEF JobToken
    <3>2. Held(fs, queue', reactions, vw, None)
      BY <2>3, <2>4, <3>1, PutToken
    <3> QED BY <2>1, <3>2
  <2>5. CASE a = None
    <3>1. \A y \in Promise : ~JobToken(j, Async(vw), y)
      BY <1>3, <2>3, <2>5 DEF JobToken
    <3>2. Held(fs, queue', reactions, vw, None)
      BY <1>3, <2>3, <2>5, <3>1, PutOther
    <3> QED BY <2>1, <3>2
  <2> QED BY <2>4, <2>5
<1> QED BY <1>4, <1>5

\* What holds before a step of the engine,
LEMMA RunFacts ==
  ASSUME Typed, SettleOK, phase = "run"
  PROVE  /\ Held(frames, queue, reactions, View, None) /\ Lengths(frames, queue, reactions)
         /\ CallsTyped(frames) /\ \A p \in Promise : ViewOK(View[p]) /\ pairs[p] \in Nat
<1>1. Held(frames, queue, reactions, View, None)
  BY DEF SettleOK, Held
<1>2. Lengths(frames, queue, reactions)
  BY Domains DEF Lengths
<1> QED BY <1>1, <1>2 DEF Held, Core, Typed, PairsTyped

\* where a call leaves,
LEMMA LeaveFacts ==
  ASSUME Typed, frames # <<>>
  PROVE  /\ Extends(Below, frames, Top) /\ Len(Below) \in Nat /\ CallsTyped(Below)
         /\ Lengths(Below, queue, reactions)
<1>1. /\ CallsTyped(Below) /\ Len(frames) \in Nat \ {0} /\ Len(Below) = Len(frames) - 1
      /\ \A i \in 1 .. Len(frames) - 1 : Below[i] = frames[i]
  BY CallsBelow DEF Typed
<1>2. Len(Below) \in Nat /\ Len(frames) = Len(Below) + 1
  BY <1>1
<1>3. Extends(Below, frames, Top)
  BY <1>1, <1>2 DEF Extends, Top
<1> QED BY <1>1, <1>2, <1>3, Domains DEF Lengths

\* and where a job is taken.
LEMMA DropFacts ==
  ASSUME Typed, NEW hs, TakeJob(hs)
  PROVE  Drops(queue, Tail(queue)) /\ Lengths(frames, Tail(queue), reactions)
<1>1. queue # <<>>
  BY TakeFacts
<1>2. /\ Len(queue) \in Nat \ {0} /\ Len(Tail(queue)) = Len(queue) - 1
      /\ \A i \in 1 .. Len(queue) - 1 : Tail(queue)[i] = queue[i + 1]
  BY <1>1, QueueTail DEF Typed
<1> QED BY <1>2, Domains DEF Drops, Lengths

\* and after it.
LEMMA Holds ==
  ASSUME phase = "run", Held(frames', queue', reactions', View', None), phase' = phase
  PROVE  SettleOK'
  BY DEF SettleOK, Held

\* At first.
LEMMA InitSettle == Init => SettleOK
<1> SUFFICES ASSUME Init PROVE SettleOK
  OBVIOUS
<1>1. Len(frames) = 0 /\ Len(queue) = 0 /\ phase = "run"
  BY DEF Init
<1>2. \A p \in Promise : Len(reactions[p]) = 0
  BY DEF Init
<1>3. \A i \in 1 .. 0 : FALSE
  OBVIOUS
<1>4. ASSUME NEW p \in Promise PROVE ViewOK(View[p]) /\ p \notin Async(View)
  <2>1. /\ kind[p] = "unborn" /\ state[p] = "pending" /\ ~already[p] /\ pairs[p] = 0
        /\ handed[p] = {}
    BY DEF Init
  <2>2. 0 \in 0 .. MaxPairs
    BY BoundsAssumption
  <2> QED BY <2>1, <2>2, ViewFacts DEF ViewOK, Flagged
<1>5. Async(View) = {}
  BY <1>4 DEF Async
<1>6. Single(frames, queue, reactions, {})
  BY <1>1, <1>2, <1>3 DEF Single, FramesSingle, JobsSingle, WaitsSingle, FrameOrJob, FrameOrWait,
                          JobOrWait
<1>7. FramesFit(frames, View) /\ JobsFit(queue, View) /\ WaitsFit(reactions, View)
  BY <1>1, <1>2, <1>3 DEF FramesFit, JobsFit, WaitsFit
<1>8. Core(frames, queue, reactions, View)
  BY <1>4, <1>5, <1>6, <1>7 DEF Core
<1>9. Alive(frames, queue, reactions, View, None)
  BY <1>5, PromiseValues DEF Alive
<1> QED BY <1>1, <1>8, <1>9 DEF SettleOK

\* A call is made that settles nothing.
LEMMA CallHeld ==
  ASSUME NEW fs, NEW q, NEW rs, NEW vw, NEW x, Lengths(fs, q, rs), CallsTyped(fs),
         Held(fs, q, rs, vw, x), NEW op \in {"executor", "handler", "custom", "create", "jobs"},
         NEW p \in Promise \cup {None, Custom},
         p \in Promise => /\ op = "executor" => vw[p].handed # {}
                          /\ op = "handler" => vw[p].kind = "plain"
                          /\ vw[p].kind # "unborn"
  PROVE  Held(Append(fs, Frame(op, p, None)), q, rs, vw, x)
<1> DEFINE f == Frame(op, p, None)
<1>1. f \in Calls /\ fs \in Seq(Calls) /\ f.op = op /\ f.p = p
  BY FrameFields DEF Frame, Calls, CallsTyped
<1> HIDE DEF f
<1>2. Extends(fs, Append(fs, f), f)
  BY <1>1, AppendFacts DEF Extends
<1>3. \A y \in Promise : ~FrameToken(f, y)
  BY <1>1 DEF FrameToken
<1>4. f.p \in Promise => FrameFits(vw[f.p], f)
  BY <1>1 DEF FrameFits
<1>5. Held(Append(fs, f), q, rs, vw, x)
  BY <1>2, <1>3, <1>4, PushOther
<1> QED BY <1>5 DEF f

\* A promise is made, with an executor
LEMMA CreateSettle ==
  ASSUME Typed, SettleOK, NEW p \in Promise, CreatePromise(p)
  PROVE  SettleOK'
<1>1. /\ phase = "run" /\ kind[p] = "unborn" /\ kind' = [kind EXCEPT ![p] = "plain"]
      /\ pairs' = [pairs EXCEPT ![p] = 1] /\ handed' = [handed EXCEPT ![p] = {1}]
      /\ frames' = Append(frames, Frame("executor", p, None))
      /\ UNCHANGED <<state, already, reactions, queue, phase>>
  BY DEF CreatePromise, MayCall, UserRuns
<1>2. /\ kind'[p] = "plain" /\ pairs'[p] = 1 /\ handed'[p] = {1}
      /\ \A y \in Promise : y # p => /\ kind'[y] = kind[y] /\ pairs'[y] = pairs[y]
                                     /\ handed'[y] = handed[y]
  BY <1>1 DEF Typed, FlagsTyped, PairsTyped
<1>3. /\ Held(frames, queue, reactions, View, None) /\ Lengths(frames, queue, reactions)
      /\ CallsTyped(frames) /\ ViewOK(View[p])
  BY <1>1, RunFacts
<1>4. Elsewhere(View, View', p)
  BY <1>1, <1>2, ViewElsewhere
<1>5. ViewOK(View'[p]) /\ p \notin Async(View') /\ View[p].kind = "unborn"
  <2>1. state'[p] = "pending" /\ 1 \in 0 .. MaxPairs /\ {1} \subseteq 1 .. 1
    BY <1>1, <1>3, BoundsAssumption, ViewFacts DEF ViewOK
  <2> QED BY <1>1, <1>2, <2>1, ViewFacts DEF ViewOK
<1>6. Held(frames, queue, reactions, View', p)
  BY <1>3, <1>4, <1>5, Birth
<1>7. Held(frames, queue, reactions, View', None)
  BY <1>5, <1>6, PutDown
<1>8. View'[p].handed # {} /\ View'[p].kind # "unborn"
  BY <1>2, ViewFacts
<1>9. Held(Append(frames, Frame("executor", p, None)), queue, reactions, View', None)
  BY <1>3, <1>7, <1>8, CallHeld
<1> QED BY <1>1, <1>9, Holds

\* or without one.
LEMMA ApiCreateSettle ==
  ASSUME Typed, SettleOK, NEW p \in Promise, ApiCreatePromise(p)
  PROVE  SettleOK'
<1>1. /\ phase = "run" /\ kind[p] = "unborn" /\ kind' = [kind EXCEPT ![p] = "plain"]
      /\ UNCHANGED <<state, already, reactions, queue, frames, pairs, handed, phase>>
  BY DEF ApiCreatePromise, UserRuns, resolverVars
<1>2. kind'[p] = "plain" /\ \A y \in Promise : y # p => kind'[y] = kind[y]
  BY <1>1 DEF Typed, FlagsTyped
<1>3. Held(frames, queue, reactions, View, None) /\ ViewOK(View[p])
  BY <1>1, RunFacts
<1>4. Elsewhere(View, View', p)
  BY <1>1, <1>2, ViewElsewhere
<1>5. ViewOK(View'[p]) /\ p \notin Async(View') /\ View[p].kind = "unborn"
  BY <1>1, <1>2, <1>3, ViewFacts DEF ViewOK
<1>6. Held(frames, queue, reactions, View', p)
  BY <1>3, <1>4, <1>5, Birth
<1>7. Held(frames, queue, reactions, View', None)
  BY <1>5, <1>6, PutDown
<1> QED BY <1>1, <1>7, Holds

\* An async function is called: its promise is born with a token, which the await takes,
LEMMA AsyncCallSettle ==
  ASSUME Typed, SettleOK, NEW a \in Promise, NEW v \in Values, AsyncCall(a, v)
  PROVE  SettleOK'
<1>1. /\ phase = "run" /\ kind[a] = "unborn" /\ kind' = [kind EXCEPT ![a] = "async"]
      /\ Await(a, v) /\ frames' = Append(frames, Frame("create", a, None))
      /\ UNCHANGED <<state, already, pairs, handed, phase>>
  BY DEF AsyncCall, CreateAndAwait, MayCall, UserRuns, resolverVars
<1>2. kind'[a] = "async" /\ \A y \in Promise : y # a => kind'[y] = kind[y]
  BY <1>1 DEF Typed, FlagsTyped
<1>3. /\ Held(frames, queue, reactions, View, None) /\ Lengths(frames, queue, reactions)
      /\ CallsTyped(frames) /\ ViewOK(View[a])
  BY <1>1, RunFacts
<1>4. Elsewhere(View, View', a)
  BY <1>1, <1>2, ViewElsewhere
<1>5. pairs[a] = 0 /\ state[a] = "pending" /\ handed[a] = {} /\ View[a].kind = "unborn"
  <2>1. pairs[a] = 0 /\ state[a] = "pending" /\ handed[a] \subseteq 1 .. pairs[a]
    BY <1>1, <1>3, ViewFacts DEF ViewOK
  <2> QED BY <1>1, <2>1, ViewFacts
<1>6. /\ ViewOK(View'[a]) /\ a \in Async(View') /\ View'[a].state = "pending" /\ View'[a].pairs = 0
      /\ View'[a].kind # "unborn"
  BY <1>1, <1>2, <1>5, BoundsAssumption, ViewFacts DEF ViewOK
<1>7. Held(frames, queue, reactions, View', a)
  BY <1>3, <1>4, <1>5, <1>6, Birth
<1>8. Held(frames, queue', reactions', View', None)
  BY <1>1, <1>3, <1>6, <1>7, AwaitHeld
<1>9. Lengths(frames, queue', reactions')
  BY <1>1, <1>3, AwaitTyped, EmptyLen DEF Lengths, QueueTyped, ReactionsTyped
<1>10. Held(Append(frames, Frame("create", a, None)), queue', reactions', View', None)
  BY <1>3, <1>6, <1>8, <1>9, CallHeld
<1> QED BY <1>1, <1>10, Holds

\* or the exit.
LEMMA AsyncExitSettle ==
  ASSUME Typed, SettleOK, NEW a \in Promise, NEW op \in Outcome, NEW v \in Values,
         AsyncCallExits(a, op, v)
  PROVE  SettleOK'
<1>1. /\ phase = "run" /\ kind[a] = "unborn" /\ kind' = [kind EXCEPT ![a] = "async"]
      /\ Enter(frames, op, a, v)
      /\ UNCHANGED <<state, already, reactions, queue, pairs, handed>>
  BY DEF AsyncCallExits, MayCall, UserRuns, resolverVars
<1>2. kind'[a] = "async" /\ \A y \in Promise : y # a => kind'[y] = kind[y]
  BY <1>1 DEF Typed, FlagsTyped
<1>3. /\ Held(frames, queue, reactions, View, None) /\ Lengths(frames, queue, reactions)
      /\ CallsTyped(frames) /\ ViewOK(View[a])
  BY <1>1, RunFacts
<1>4. Elsewhere(View, View', a)
  BY <1>1, <1>2, ViewElsewhere
<1>5. /\ pairs[a] = 0 /\ state[a] = "pending" /\ handed[a] \subseteq 1 .. pairs[a]
      /\ View[a].kind = "unborn"
  BY <1>1, <1>3, ViewFacts DEF ViewOK
<1>6. ViewOK(View'[a]) /\ Pending(View'[a])
  BY <1>1, <1>2, <1>5, BoundsAssumption, ViewFacts DEF ViewOK, Pending, Flagged
<1>7. Held(frames, queue, reactions, View', a)
  BY <1>3, <1>4, <1>5, <1>6, Birth
<1>8. Held(frames', queue, reactions, View', None) /\ phase' = phase
  BY <1>1, <1>3, <1>5, <1>6, <1>7, EnterHeld
<1> QED BY <1>1, <1>8, Holds

\* A function that settles is called: user code has no functions of promises that async
\* functions still settle,
LEMMA ResolverSettle ==
  ASSUME Typed, SettleOK, NEW p \in Promise, NEW g, NEW op \in Outcome, NEW v \in Values,
         CallResolver(p, g, op, v)
  PROVE  SettleOK'
<1>1. /\ phase = "run" /\ g \in handed[p] /\ EnterWithChecks(frames, op, p, v)
      /\ UNCHANGED <<kind, state, reactions, queue, pairs, handed>>
  BY DEF CallResolver, MayCall, UserRuns, resolverVars
<1>2. /\ Held(frames, queue, reactions, View, None) /\ Lengths(frames, queue, reactions)
      /\ CallsTyped(frames) /\ ViewOK(View[p])
  BY <1>1, RunFacts
<1>3. pairs[p] \in Nat /\ pairs[p] # 0 /\ kind[p] \notin {"unborn", "orphan"}
  <2>1. pairs[p] \in Nat /\ g \in 1 .. pairs[p]
    BY <1>1, <1>2, ViewFacts DEF ViewOK, Typed, PairsTyped
  <2>2. pairs[p] # 0
    BY <2>1
  <2> QED BY <1>2, <2>1, <2>2, ViewFacts DEF ViewOK
<1>4. kind[p] \in {"plain", "async"} /\ Flagged(View[p]) /\ p \notin Async(View)
  BY <1>1, <1>3, ViewFacts DEF Flagged, Typed, FlagsTyped
<1>5. Held(frames', queue, reactions, View', None) /\ phase' = phase
  BY <1>1, <1>2, <1>4, ChecksHeld
<1> QED BY <1>1, <1>5, Holds

\* nor does the API settle them.
LEMMA ApiSettleSettle ==
  ASSUME Typed, SettleOK, "async" \notin ApiKinds, NEW p \in Promise, NEW op \in Outcome,
         NEW v \in Values, ApiSettle(p, op, v)
  PROVE  SettleOK'
<1>1. /\ phase = "run" /\ kind[p] \in ApiKinds /\ EnterWithChecks(frames, op, p, v)
      /\ UNCHANGED <<kind, state, reactions, queue, pairs, handed>>
  BY DEF ApiSettle, MayCall, UserRuns, resolverVars
<1>2. /\ Held(frames, queue, reactions, View, None) /\ Lengths(frames, queue, reactions)
      /\ CallsTyped(frames)
  BY <1>1, RunFacts
<1>3. kind[p] = "plain"
  BY <1>1, KindsAssumption
<1>4. kind[p] \in {"plain", "async"} /\ Flagged(View[p]) /\ p \notin Async(View)
  BY <1>3, ViewFacts DEF Flagged
<1>5. Held(frames', queue, reactions, View', None) /\ phase' = phase
  BY <1>1, <1>2, <1>4, ChecksHeld
<1> QED BY <1>1, <1>5, Holds

\* The promise of a then is born with the reaction that leads to it.
LEMMA ThenSettle ==
  ASSUME Typed, SettleOK, NEW p \in Promise, NEW f \in Handlers("identity"),
         NEW g \in Handlers("thrower"), NEW c \in Promise \cup {None, Custom}, Then(p, f, g, c)
  PROVE  SettleOK'
<1> DEFINE r == [id |-> NextId, to |-> c, onFulfilled |-> f, onRejected |-> g]
<1>1. /\ phase = "run"
      /\ c \in Promise => kind[c] = "unborn"
      /\ kind' = IF c \in Promise THEN [kind EXCEPT ![c] = "plain"] ELSE kind
      /\ pairs' = IF c \in Promise THEN [pairs EXCEPT ![c] = 1] ELSE pairs
      /\ AddReaction(queue, p, r)
      /\ UNCHANGED <<state, already, handed, frames, phase>>
  BY DEF Then, UserRuns
<1>2. /\ QueueTyped(queue) /\ ReactionsTyped(reactions) /\ StatesTyped(state, result)
      /\ NextId \in Nat
  BY EmptyLen DEF Typed, NextId, HistoryTyped
<1>3. r \in Reaction /\ ReactionOK(r)
  BY <1>2, ThenReaction
<1>4. r.to = c /\ r.onFulfilled \in {"identity", "user"}
  BY DEF Handlers
<1> HIDE DEF r
<1>5. /\ Held(frames, queue, reactions, View, None) /\ Lengths(frames, queue, reactions)
      /\ \A y \in Promise : ViewOK(View[y])
  BY <1>1, RunFacts
<1>6. CASE c \in Promise
  <2>1. /\ kind'[c] = "plain" /\ pairs'[c] = 1
        /\ \A y \in Promise : y # c => kind'[y] = kind[y] /\ pairs'[y] = pairs[y]
    BY <1>1, <1>6 DEF Typed, FlagsTyped, PairsTyped
  <2>2. Elsewhere(View, View', c)
    BY <1>1, <1>6, <2>1, ViewElsewhere
  <2>3. ViewOK(View'[c]) /\ c \notin Async(View') /\ View[c].kind = "unborn" /\ View'[c].kind = "plain"
    <3>1. state[c] = "pending" /\ handed[c] \subseteq 1 .. 0
      BY <1>1, <1>5, <1>6, ViewFacts DEF ViewOK
    <3>2. 1 \in 0 .. MaxPairs /\ handed'[c] \subseteq 1 .. 1 /\ state'[c] = "pending"
      BY <1>1, <3>1, BoundsAssumption
    <3> QED BY <1>1, <1>6, <2>1, <3>2, ViewFacts DEF ViewOK
  <2>4. Held(frames, queue, reactions, View', c)
    BY <1>5, <1>6, <2>2, <2>3, Birth
  <2>5. Held(frames, queue, reactions, View', None)
    BY <1>6, <2>3, <2>4, PutDown
  <2>6. r.to \notin Async(View') /\ WaitFits(View'[c], r)
    BY <1>4, <2>3 DEF WaitFits
  <2>7. Held(frames, queue', reactions', View', None)
    BY <1>1, <1>2, <1>3, <1>4, <1>5, <2>5, <2>6, AddOther
  <2> QED BY <1>1, <2>7, Holds
<1>7. CASE c \notin Promise
  <2>1. View' = View
    BY <1>1, <1>7, ViewSame
  <2>2. r.to \notin Promise /\ r.to \notin Async(View)
    BY <1>4, <1>7 DEF Async
  <2>3. Held(frames, queue', reactions', View, None)
    BY <1>1, <1>2, <1>3, <1>5, <2>2, AddOther
  <2> QED BY <1>1, <2>1, <2>3, Holds
<1> QED BY <1>6, <1>7

LEMMA RunJobsSettle ==
  ASSUME Typed, SettleOK, RunJobs
  PROVE  SettleOK'
<1>1. /\ phase = "run" /\ frames' = Append(frames, Frame("jobs", None, None))
      /\ UNCHANGED <<kind, state, already, pairs, handed, reactions, queue, phase>>
  BY DEF RunJobs, UserRuns, promiseVars, resolverVars
<1>2. /\ Held(frames, queue, reactions, View, None) /\ Lengths(frames, queue, reactions)
      /\ CallsTyped(frames)
  BY <1>1, RunFacts
<1>3. Held(Append(frames, Frame("jobs", None, None)), queue, reactions, View, None)
  BY <1>2, PromiseValues, CallHeld
<1> QED BY <1>1, <1>3, ViewSame, Holds

\* After jerry_cleanup nothing is left in the queue.
LEMMA CleanupSettle ==
  ASSUME Typed, SettleOK, Cleanup
  PROVE  SettleOK'
<1>1. /\ queue' = <<>> /\ phase' = "cleanup"
      /\ UNCHANGED <<kind, state, already, pairs, handed, reactions, frames>>
  BY DEF Cleanup, promiseVars, resolverVars
<1>2. View' = View
  BY <1>1, ViewSame
<1>3. Core(frames, queue, reactions, View)
  BY DEF SettleOK
<1>4. Len(queue') = 0 /\ \A i \in 1 .. 0 : FALSE
  BY <1>1
<1>5. JobsFit(queue', View) /\ JobsSingle(queue', Async(View))
  BY <1>4 DEF JobsFit, JobsSingle
<1>6. FrameOrJob(frames, queue', Async(View)) /\ JobOrWait(queue', reactions, Async(View))
  BY <1>4 DEF FrameOrJob, JobOrWait
<1>7. Core(frames, queue', reactions, View)
  BY <1>3, <1>5, <1>6 DEF Core, Single
<1> QED BY <1>1, <1>2, <1>7 DEF SettleOK

LEMMA UserSettle ==
  ASSUME Typed, SettleOK, "async" \notin ApiKinds, User
  PROVE  SettleOK'
<1>1. ASSUME NEW p \in Promise, CreatePromise(p) \/ ApiCreatePromise(p) PROVE SettleOK'
  BY <1>1, CreateSettle, ApiCreateSettle
<1>2. ASSUME NEW p \in Promise, NEW v \in Values, AsyncCall(p, v) PROVE SettleOK'
  BY <1>2, AsyncCallSettle
<1>3. ASSUME NEW p \in Promise, NEW op \in Outcome, NEW v \in Values,
             ApiSettle(p, op, v) \/ AsyncCallExits(p, op, v)
      PROVE  SettleOK'
  BY <1>3, ApiSettleSettle, AsyncExitSettle
<1>4. ASSUME NEW p \in Promise, NEW op \in Outcome, NEW v \in Values, NEW g \in 1 .. MaxPairs,
             CallResolver(p, g, op, v)
      PROVE  SettleOK'
  BY <1>4, ResolverSettle
<1>5. ASSUME NEW p \in Promise, NEW f \in Handlers("identity"), NEW g \in Handlers("thrower"),
             NEW c \in Promise \cup {None} \cup Foreign, Then(p, f, g, c)
      PROVE  SettleOK'
  <2>1. c \in Promise \cup {None, Custom}
    BY KindsAssumption
  <2> QED BY <1>5, <2>1, ThenSettle
<1> QED BY <1>1, <1>2, <1>3, <1>4, <1>5, RunJobsSettle, CleanupSettle DEF User

\* The innermost call fits its promise, and its token is the only one.
LEMMA TopHeld ==
  ASSUME Typed, SettleOK, NEW op, In(op), Top.p \in Promise
  PROVE  /\ FrameFits(View[Top.p], Top)
         /\ op \in {"fulfill", "reject", "body"} => Held(Below, queue, reactions, View, Top.p)
<1>1. phase = "run" /\ frames # <<>> /\ Top.op = op
  BY DEF In
<1>2. /\ Held(frames, queue, reactions, View, None) /\ Lengths(frames, queue, reactions)
      /\ Extends(Below, frames, Top) /\ Len(Below) \in Nat
  BY <1>1, RunFacts, LeaveFacts
<1>3. Len(frames) \in 1 .. Len(frames)
  BY <1>2 DEF Extends
<1>4. FrameFits(View[Top.p], Top)
  BY <1>2, <1>3 DEF Held, Core, FramesFit, Top
<1>5. ASSUME op \in {"fulfill", "reject", "body"} PROVE Held(Below, queue, reactions, View, Top.p)
  <2>1. FrameToken(Top, Top.p)
    BY <1>1, <1>5 DEF FrameToken
  <2> QED BY <1>2, <2>1, PopToken
<1> QED BY <1>4, <1>5

\* A call that settles nothing returns.
LEMMA ReturnHeld ==
  ASSUME Typed, SettleOK, NEW op, In(op),
         op \in {"executor", "handler", "custom", "create", "jobs"} \/ Top.p \notin Promise
  PROVE  Held(Below, queue, reactions, View, None)
<1>1. phase = "run" /\ frames # <<>> /\ Top.op = op
  BY DEF In
<1>2. /\ Held(frames, queue, reactions, View, None) /\ Lengths(frames, queue, reactions)
      /\ Extends(Below, frames, Top) /\ Len(Below) \in Nat
  BY <1>1, RunFacts, LeaveFacts
<1>3. \A p \in Promise : ~FrameToken(Top, p)
  BY <1>1 DEF FrameToken
<1> QED BY <1>2, <1>3, PopOther

\* The rest of a settlement: the promise is still pending, and the reactions move.
LEMMA TopSettle ==
  ASSUME Typed, SettleOK, NEW op \in Outcome, In(op), NEW s \in {"fulfilled", "rejected"},
         SettleTop(s)
  PROVE  SettleOK'
<1> DEFINE p == Top.p
<1>1. /\ p \in Promise /\ Top.v \in Values /\ Top.op = op /\ phase = "run" /\ frames # <<>>
      /\ op \in {"fulfill", "reject"}
  BY TopFacts DEF Outcome
<1>2. /\ FrameFits(View[p], Top) /\ Held(Below, queue, reactions, View, p)
      /\ Lengths(Below, queue, reactions) /\ ViewOK(View[p]) /\ pairs[p] \in Nat
  BY <1>1, TopHeld, LeaveFacts, RunFacts
<1>3. Pending(View[p]) /\ state[p] = "pending"
  BY <1>1, <1>2, ViewFacts DEF FrameFits, Pending
<1>4. /\ frames' = Below /\ Settle(p, s, Top.v) /\ phase' = phase
      /\ UNCHANGED <<kind, already, pairs, handed>>
  BY <1>3 DEF SettleTop, resolverVars
<1> HIDE DEF p
<1>5. /\ Settles(state, result, unhandled, reactions, queue, p, s, Top.v,
                 state', result', unhandled', reactions', queue')
      /\ \A k \in 1 .. Len(reactions[p]) :
           queue'[Len(queue) + k] = Job(reactions[p][k], s, Top.v)
  BY <1>1, <1>3, <1>4, SettleFacts
<1>6. state'[p] = s /\ \A y \in Promise : y # p => state'[y] = state[y]
  BY <1>5 DEF Settles
<1>7. Elsewhere(View, View', p)
  BY <1>1, <1>4, <1>6, ViewElsewhere
<1>8. Later(View[p], View'[p]) /\ ViewOK(View'[p]) /\ View'[p].state # "pending"
  <2>1. Later(View[p], View'[p])
    BY <1>1, <1>2, <1>4, ViewFacts DEF Later
  <2>2. Flagged(View'[p]) => View'[p].already
    BY <1>1, <1>3, <1>4, ViewFacts DEF Pending, Flagged
  <2>3. View'[p].kind \in {"plain", "async"}
    BY <1>1, <1>3, <1>4, ViewFacts DEF Pending
  <2> QED BY <1>1, <1>2, <1>4, <1>6, <2>1, <2>2, <2>3, ViewFacts DEF ViewOK
<1>9. Held(Below, queue, reactions, View', p)
  BY <1>1, <1>2, <1>7, <1>8, Advance
<1>10. Moves(queue, reactions, p, reactions', queue')
  <2>1. \A k \in 1 .. Len(reactions[p]) : reactions[p][k] \in Reaction /\ ReactionOK(reactions[p][k])
    BY <1>1, ElementOfSeq DEF Typed, ReactionsTyped
  <2>2. \A k \in 1 .. Len(reactions[p]) : JobFollows(reactions[p][k], queue'[Len(queue) + k])
    BY <1>1, <1>5, <2>1, FollowsFacts
  <2> QED BY <1>5, <2>2 DEF Moves, Settles
<1>11. Held(Below, queue', reactions', View', p)
  BY <1>1, <1>2, <1>9, <1>10, MoveJobs
<1>12. Held(Below, queue', reactions', View', None)
  BY <1>1, <1>8, <1>11, PutDown
<1> QED BY <1>1, <1>4, <1>12, Holds

\* The value is not acceptable, and the promise is rejected,
LEMMA RejectsSettle ==
  ASSUME Typed, SettleOK, NEW e \in Errors, FulfillRejects(e)
  PROVE  SettleOK'
<1> DEFINE p == Top.p
<1>1. /\ In("fulfill") /\ Enter(Below, "reject", p, e)
      /\ UNCHANGED <<kind, state, already, reactions, queue, pairs, handed>>
  BY DEF FulfillRejects, promiseVars, resolverVars
<1>2. p \in Promise /\ Top.op = "fulfill" /\ phase = "run" /\ frames # <<>> /\ e \in Values
  BY <1>1, TopFacts, PromiseValues DEF Outcome, Errors
<1>3. /\ FrameFits(View[p], Top) /\ Held(Below, queue, reactions, View, p)
      /\ Lengths(Below, queue, reactions) /\ CallsTyped(Below)
  BY <1>1, <1>2, TopHeld, LeaveFacts
<1>4. Pending(View[p]) /\ state[p] = "pending" /\ View' = View
  BY <1>1, <1>2, <1>3, ViewFacts, ViewSame DEF FrameFits, Pending
<1> HIDE DEF p
<1>5. Held(frames', queue, reactions, View, None) /\ phase' = phase
  BY <1>1, <1>2, <1>3, <1>4, EnterHeld DEF Outcome
<1> QED BY <1>1, <1>2, <1>4, <1>5, Holds

\* or the settlement goes on in a thenable job.
LEMMA ThenableSettle ==
  ASSUME Typed, SettleOK, FulfillThenable
  PROVE  SettleOK'
<1> DEFINE p == Top.p
           j == [id |-> 0, to |-> p, v |-> Top.v, handler |-> "thenable"]
<1>1. /\ In("fulfill") /\ pairs[p] < MaxPairs /\ queue' = Append(queue, j) /\ frames' = Below
      /\ Top.v \in Promise \cup Thenable
      /\ UNCHANGED <<kind, state, already, reactions, pairs, handed, phase>>
  BY DEF FulfillThenable, promiseVars, resolverVars
<1>2. p \in Promise /\ Top.v \in Values /\ Top.op = "fulfill" /\ phase = "run" /\ frames # <<>>
  BY <1>1, TopFacts DEF Outcome
<1>3. /\ FrameFits(View[p], Top) /\ Held(Below, queue, reactions, View, p)
      /\ Lengths(Below, queue, reactions)
  BY <1>1, <1>2, TopHeld, LeaveFacts
<1>4. j \in Jobs /\ JobOK(j) /\ j.to = p /\ j.handler = "thenable"
  BY <1>1, <1>2 DEF Jobs, JobOK
<1> HIDE DEF p, j
<1>5. Pending(View[p]) /\ View[p].state = "pending" /\ View' = View
  BY <1>1, <1>2, <1>3, ViewSame DEF FrameFits, Pending
<1>6. JobToken(j, Async(View), p) /\ JobFits(View[p], j)
  BY <1>1, <1>2, <1>4, <1>5, ViewFacts DEF JobToken, JobFits, Pending
<1>7. Extends(queue, queue', j)
  BY <1>1, <1>4, QueueAppend DEF Typed
<1>8. Held(Below, queue', reactions, View, None)
  BY <1>2, <1>3, <1>5, <1>6, <1>7, PutToken
<1> QED BY <1>1, <1>2, <1>5, <1>8, Holds

\* The calls that only return.
LEMMA LeaveSettle ==
  ASSUME Typed, SettleOK, NEW op \in {"executor", "custom", "create", "jobs"}, In(op),
         frames' = Below, UNCHANGED <<kind, state, already, reactions, queue, pairs, handed, phase>>
  PROVE  SettleOK'
<1>1. Held(Below, queue, reactions, View, None) /\ phase = "run"
  BY ReturnHeld, TopFacts
<1> QED BY <1>1, ViewSame, Holds

\* An error of the user's function also ends the processing of the queue.
LEMMA CustomThrowsSettle ==
  ASSUME Typed, SettleOK, CustomThrows
  PROVE  SettleOK'
<1> DEFINE n == Len(frames)
           fs == SubSeq(frames, 1, n - 2)
           f == frames[n - 1]
<1>1. /\ In("custom") /\ frames' = fs
      /\ UNCHANGED <<kind, state, already, reactions, queue, pairs, handed, phase>>
  BY DEF CustomThrows, promiseVars, resolverVars
<1>2. /\ phase = "run" /\ frames # <<>> /\ CallsTyped(Below)
      /\ Len(Below) > 0 /\ Below[Len(Below)].op = "jobs"
  BY <1>1, TopFacts
<1>3. /\ Held(Below, queue, reactions, View, None) /\ Lengths(Below, queue, reactions)
      /\ n \in Nat \ {0} /\ Len(Below) = n - 1
      /\ \A i \in 1 .. n - 1 : Below[i] = frames[i]
  BY <1>1, <1>2, ReturnHeld, LeaveFacts, CallsBelow DEF Typed
<1>4. frames \in Seq(Calls) /\ 1 \in 1 .. n + 1 /\ n - 2 \in 0 .. n /\ n - 1 \in 1 .. n - 1
  BY <1>2, <1>3 DEF Typed, CallsTyped
<1>5. Len(fs) = n - 2 /\ \A i \in 1 .. n - 2 : fs[i] = frames[i]
  <2>1. PICK m \in Nat : m = n - 2 /\ m <= n
    <3>1. n - 2 \in Nat /\ n - 2 <= n
      BY <1>3, <1>4
    <3> QED BY <3>1
  <2>2. \A i \in 1 .. m : frames[i] \in Calls
    <3>1. \A i \in 1 .. m : i \in 1 .. n
      BY <1>3, <2>1
    <3> QED BY <1>4, <3>1, ElementOfSeq
  <2>3. /\ Len(SubSeq(frames, 1, m)) = IF 1 <= m THEN m - 1 + 1 ELSE 0
        /\ \A i \in 1 .. m - 1 + 1 : SubSeq(frames, 1, m)[i] = frames[1 + i - 1]
    BY <2>2, SubSeqProperties
  <2> QED BY <2>1, <2>3
<1>6. Extends(fs, Below, f) /\ Len(fs) \in Nat /\ f.op = "jobs"
  <2>1. Len(fs) + 1 = n - 1 /\ Len(fs) \in Nat
    BY <1>3, <1>4, <1>5
  <2>2. \A i \in 1 .. n - 2 : i \in 1 .. n - 1
    BY <1>3
  <2> HIDE DEF n, fs
  <2> QED BY <1>2, <1>3, <1>4, <1>5, <2>1, <2>2 DEF Extends
<1>7. \A p \in Promise : ~FrameToken(f, p)
  BY <1>6 DEF FrameToken
<1> HIDE DEF n, fs, f
<1>8. Held(fs, queue, reactions, View, None)
  BY <1>3, <1>6, <1>7, PopOther
<1> QED BY <1>1, <1>2, <1>8, ViewSame, Holds

\* The executor throws: its functions may have been called.
LEMMA ExecutorThrowsSettle ==
  ASSUME Typed, SettleOK, NEW e \in Errors, ExecutorThrows(e)
  PROVE  SettleOK'
<1> DEFINE p == Top.p
<1>1. /\ In("executor") /\ EnterWithChecks(Below, "reject", p, e)
      /\ UNCHANGED <<kind, state, reactions, queue, pairs, handed>>
  BY DEF ExecutorThrows, resolverVars
<1>2. p \in Promise /\ Top.op = "executor" /\ phase = "run" /\ frames # <<>> /\ e \in Values
  BY <1>1, TopFacts, PromiseValues DEF Outcome, Errors
<1>3. /\ FrameFits(View[p], Top) /\ Held(Below, queue, reactions, View, None)
      /\ Lengths(Below, queue, reactions) /\ CallsTyped(Below) /\ ViewOK(View[p])
  BY <1>1, <1>2, TopHeld, ReturnHeld, LeaveFacts, RunFacts
<1> HIDE DEF p
<1>4. handed[p] # {} /\ handed[p] \subseteq 1 .. pairs[p] /\ pairs[p] \in Nat
  BY <1>2, <1>3, ViewFacts DEF FrameFits, ViewOK, Typed, PairsTyped
<1>5. pairs[p] # 0 /\ kind[p] \notin {"unborn", "orphan"}
  <2>1. pairs[p] # 0
    BY <1>4
  <2> QED BY <1>2, <1>3, <2>1, ViewFacts DEF ViewOK
<1>6. kind[p] \in {"plain", "async"} /\ Flagged(View[p]) /\ p \notin Async(View)
  BY <1>2, <1>4, <1>5, ViewFacts DEF Flagged, Typed, FlagsTyped
<1>7. Held(frames', queue, reactions, View', None) /\ phase' = phase
  BY <1>1, <1>2, <1>3, <1>6, ChecksHeld DEF Outcome
<1> QED BY <1>1, <1>2, <1>7, Holds

\* A handler returns, and the promise of its then is settled.
LEMMA HandlerSettle ==
  ASSUME Typed, SettleOK, NEW op \in Outcome, NEW v \in Values, HandlerReturns(op, v)
  PROVE  SettleOK'
<1> DEFINE c == Top.p
<1>1. /\ In("handler") /\ CallCapability(Below, op, c, v)
      /\ UNCHANGED <<kind, state, reactions, queue, pairs, handed>>
  BY DEF HandlerReturns, resolverVars
<1>2. c \in Promise \cup {None, Custom} /\ Top.op = "handler" /\ phase = "run" /\ frames # <<>>
  BY <1>1, TopFacts
<1>3. /\ Held(Below, queue, reactions, View, None)
      /\ Lengths(Below, queue, reactions) /\ CallsTyped(Below)
  BY <1>1, <1>2, ReturnHeld, LeaveFacts
<1>4. c \in Promise => kind[c] = "plain"
  BY <1>1, <1>2, TopHeld, ViewFacts DEF FrameFits
<1> HIDE DEF c
<1>5. Held(frames', queue, reactions, View', None) /\ phase' = phase
  BY <1>1, <1>2, <1>3, <1>4, CapabilityHeld
<1> QED BY <1>1, <1>2, <1>5, Holds

\* The body of an async function has the token of its promise.
LEMMA BodyHeld ==
  ASSUME Typed, SettleOK, In("body"), Top.p \in Promise
  PROVE  /\ Held(Below, queue, reactions, View, Top.p) /\ Top.p \in Async(View)
         /\ View[Top.p].state = "pending" /\ View[Top.p].pairs = 0 /\ View[Top.p].kind = "async"
<1> DEFINE p == Top.p
<1>1. phase = "run" /\ frames # <<>> /\ Top.op = "body"
  BY DEF In
<1>2. /\ FrameFits(View[p], Top) /\ Held(Below, queue, reactions, View, p) /\ ViewOK(View[p])
      /\ Held(frames, queue, reactions, View, None) /\ Extends(Below, frames, Top)
      /\ Len(Below) \in Nat
  BY <1>1, TopHeld, RunFacts, LeaveFacts
<1>3. View[p].kind = "async" /\ View[p].pairs = 0 /\ View[p].handed \subseteq 1 .. 0
  BY <1>1, <1>2 DEF FrameFits, ViewOK
<1>4. p \in Async(View)
  BY <1>3 DEF Async
<1>5. Busy(frames, queue, reactions, Async(View), p)
  <2>1. Len(frames) \in 1 .. Len(frames) /\ FrameToken(frames[Len(frames)], p)
    BY <1>1, <1>2 DEF Extends, FrameToken, Top
  <2> QED BY <2>1 DEF Busy
<1>6. View[p].state = "pending"
  BY <1>2, <1>4, <1>5, PromiseValues DEF Held, Alive
<1> QED BY <1>2, <1>3, <1>4, <1>6

\* It awaits again,
LEMMA BodyAwaitsSettle ==
  ASSUME Typed, SettleOK, NEW v \in Values, BodyAwaits(v)
  PROVE  SettleOK'
<1>1. /\ In("body") /\ Await(Top.p, v) /\ frames' = Below
      /\ UNCHANGED <<kind, state, already, pairs, handed, phase>>
  BY DEF BodyAwaits, resolverVars
<1>2. Top.p \in Promise \cup {None} /\ phase = "run" /\ frames # <<>> /\ View' = View
  BY <1>1, TopFacts, ViewSame
<1>3. Lengths(Below, queue, reactions)
  BY <1>2, LeaveFacts
<1>4. CASE Top.p \in Promise
  <2>1. /\ Held(Below, queue, reactions, View, Top.p) /\ Top.p \in Async(View)
        /\ View[Top.p].state = "pending" /\ View[Top.p].pairs = 0
    BY <1>1, <1>4, BodyHeld
  <2>2. Held(Below, queue', reactions', View, None)
    BY <1>1, <1>2, <1>3, <2>1, AwaitHeld
  <2> QED BY <1>1, <1>2, <2>2, Holds
<1>5. CASE Top.p = None
  <2>1. Held(Below, queue, reactions, View, Top.p) /\ Top.p \notin Promise
    BY <1>1, <1>5, PromiseValues, ReturnHeld
  <2>2. Held(Below, queue', reactions', View, None)
    BY <1>1, <1>2, <1>3, <2>1, AwaitHeld
  <2> QED BY <1>1, <1>2, <2>2, Holds
<1> QED BY <1>2, <1>4, <1>5

\* or exits,
LEMMA BodyExitsSettle ==
  ASSUME Typed, SettleOK, NEW op \in Outcome, NEW v \in Values, BodyExits(op, v)
  PROVE  SettleOK'
<1> DEFINE p == Top.p
<1>1. /\ In("body") /\ p # None /\ Enter(Below, op, p, v)
      /\ UNCHANGED <<kind, state, already, reactions, queue, pairs, handed>>
  BY DEF BodyExits, promiseVars, resolverVars
<1>2. p \in Promise /\ phase = "run" /\ frames # <<>> /\ View' = View
  BY <1>1, TopFacts, ViewSame
<1>3. /\ Held(Below, queue, reactions, View, p) /\ Lengths(Below, queue, reactions)
      /\ CallsTyped(Below)
      /\ View[p].state = "pending" /\ View[p].pairs = 0 /\ View[p].kind = "async"
  BY <1>1, <1>2, BodyHeld, LeaveFacts
<1> HIDE DEF p
<1>4. Pending(View[p]) /\ state[p] = "pending"
  BY <1>2, <1>3, ViewFacts DEF Pending, Flagged
<1>5. Held(frames', queue, reactions, View, None) /\ phase' = phase
  BY <1>1, <1>2, <1>3, <1>4, EnterHeld
<1> QED BY <1>1, <1>2, <1>5, Holds

\* or goes on without a promise it does not know.
LEMMA OrphanHeld ==
  ASSUME Typed, SettleOK, In("body"), kind' = Orphan,
         UNCHANGED <<state, already, pairs, handed>>
  PROVE  Held(Below, queue, reactions, View', None)
<1> DEFINE p == Top.p
<1>1. p \in Promise \cup {None} /\ phase = "run"
  BY TopFacts
<1>2. CASE p = None
  <2>1. kind' = kind /\ p \notin Promise
    BY <1>2, PromiseValues DEF Orphan
  <2>2. Held(Below, queue, reactions, View, None)
    BY <2>1, ReturnHeld
  <2> QED BY <2>1, <2>2, ViewSame
<1>3. CASE p \in Promise
  <2>1. /\ Held(Below, queue, reactions, View, p)
        /\ View[p].state = "pending" /\ View[p].pairs = 0 /\ View[p].kind = "async"
        /\ ViewOK(View[p])
    BY <1>1, <1>3, BodyHeld, RunFacts
  <2>2. kind' = [kind EXCEPT ![p] = "orphan"]
    BY <1>3, PromiseValues DEF Orphan
  <2> HIDE DEF p
  <2>3. kind'[p] = "orphan" /\ \A y \in Promise : y # p => kind'[y] = kind[y]
    BY <1>3, <2>2 DEF Typed, FlagsTyped
  <2>4. Elsewhere(View, View', p)
    BY <1>3, <2>3, ViewElsewhere
  <2>5. pairs[p] = 0 /\ state[p] = "pending" /\ kind[p] = "async" /\ handed[p] \subseteq 1 .. 0
    BY <1>3, <2>1, ViewFacts DEF ViewOK
  <2>6. Later(View[p], View'[p]) /\ ViewOK(View'[p]) /\ p \notin Async(View')
    BY <1>3, <2>3, <2>5, ViewFacts, BoundsAssumption DEF Later, ViewOK
  <2>7. Held(Below, queue, reactions, View', p)
    BY <1>3, <2>1, <2>4, <2>6, Advance
  <2> QED BY <1>3, <2>6, <2>7, PutDown
<1> QED BY <1>1, <1>2, <1>3

LEMMA AwaitsAnewSettle ==
  ASSUME Typed, SettleOK, NEW v \in Values, BodyAwaitsAnew(v)
  PROVE  SettleOK'
<1>1. /\ In("body") /\ kind' = Orphan /\ Await(None, v)
      /\ frames' = Append(Below, Frame("create", None, None))
      /\ UNCHANGED <<state, already, pairs, handed, phase>>
  BY DEF BodyAwaitsAnew, CreateAndAwait, resolverVars
<1>2. phase = "run" /\ frames # <<>> /\ None \notin Promise
  BY <1>1, TopFacts, PromiseValues
<1>3. /\ Held(Below, queue, reactions, View', None) /\ Lengths(Below, queue, reactions)
      /\ CallsTyped(Below)
  BY <1>1, <1>2, OrphanHeld, LeaveFacts
<1>4. Held(Below, queue', reactions', View', None)
  BY <1>1, <1>2, <1>3, AwaitHeld
<1>5. Lengths(Below, queue', reactions')
  BY <1>1, <1>3, AwaitTyped, EmptyLen DEF Lengths, QueueTyped, ReactionsTyped
<1>6. Held(Append(Below, Frame("create", None, None)), queue', reactions', View', None)
  BY <1>2, <1>3, <1>4, <1>5, CallHeld
<1> QED BY <1>1, <1>2, <1>6, Holds

LEMMA ExitsAnewSettle ==
  ASSUME Typed, SettleOK, BodyExitsAnew
  PROVE  SettleOK'
<1>1. /\ In("body") /\ kind' = Orphan /\ frames' = Append(Below, Frame("create", None, None))
      /\ UNCHANGED <<state, already, reactions, queue, pairs, handed, phase>>
  BY DEF BodyExitsAnew, resolverVars
<1>2. phase = "run" /\ frames # <<>> /\ None \notin Promise
  BY <1>1, TopFacts, PromiseValues
<1>3. /\ Held(Below, queue, reactions, View', None) /\ Lengths(Below, queue, reactions)
      /\ CallsTyped(Below)
  BY <1>1, <1>2, OrphanHeld, LeaveFacts
<1>4. Held(Append(Below, Frame("create", None, None)), queue, reactions, View', None)
  BY <1>2, <1>3, CallHeld
<1> QED BY <1>1, <1>2, <1>4, Holds

LEMMA ReturnSettle ==
  ASSUME Typed, SettleOK, Return
  PROVE  SettleOK'
<1>1. CASE RejectReturns
  BY <1>1, TopSettle DEF RejectReturns, Outcome
<1>2. CASE FulfillPlain
  BY <1>2, TopSettle DEF FulfillPlain, Outcome
<1>3. ASSUME NEW e \in Errors, FulfillRejects(e) \/ ExecutorThrows(e) PROVE SettleOK'
  BY <1>3, RejectsSettle, ExecutorThrowsSettle
<1>4. CASE ExecutorReturns \/ CreateReturns \/ CustomReturns
  BY <1>4, LeaveSettle DEF ExecutorReturns, CreateReturns, CustomReturns, promiseVars, resolverVars
<1>5. ASSUME NEW v \in Values, BodyAwaits(v) \/ BodyAwaitsAnew(v) PROVE SettleOK'
  BY <1>5, BodyAwaitsSettle, AwaitsAnewSettle
<1>6. ASSUME NEW op \in Outcome, NEW v \in Values, BodyExits(op, v) \/ HandlerReturns(op, v)
      PROVE  SettleOK'
  BY <1>6, BodyExitsSettle, HandlerSettle
<1> QED BY <1>1, <1>2, <1>3, <1>4, <1>5, <1>6, ThenableSettle, ExitsAnewSettle, CustomThrowsSettle
        DEF Return

\* The first job fits its promise.
LEMMA HeadFits ==
  ASSUME Typed, SettleOK, NEW hs, TakeJob(hs)
  PROVE  /\ phase = "run" /\ Held(frames, queue, reactions, View, None)
         /\ Lengths(frames, queue, reactions) /\ CallsTyped(frames)
         /\ Drops(queue, Tail(queue)) /\ Lengths(frames, Tail(queue), reactions)
         /\ Head(queue) = queue[1] /\ Head(queue).handler \in hs /\ QueueTyped(Tail(queue))
         /\ Head(queue) \in Jobs /\ JobOK(Head(queue))
         /\ Head(queue).to \in Promise => JobFits(View[Head(queue).to], Head(queue))
<1>1. /\ phase = "run" /\ Head(queue) = queue[1] /\ Head(queue).handler \in hs
      /\ QueueTyped(Tail(queue)) /\ Head(queue) \in Jobs /\ JobOK(Head(queue))
  BY TakeFacts
<1>2. /\ Held(frames, queue, reactions, View, None) /\ Lengths(frames, queue, reactions)
      /\ CallsTyped(frames) /\ Drops(queue, Tail(queue))
      /\ Lengths(frames, Tail(queue), reactions)
  BY <1>1, RunFacts, DropFacts
<1>3. 1 \in 1 .. Len(queue)
  BY <1>2 DEF Drops
<1>4. Head(queue).to \in Promise => JobFits(View[Head(queue).to], Head(queue))
  BY <1>1, <1>2, <1>3 DEF Held, Core, JobsFit
<1> QED BY <1>1, <1>2, <1>4

\* A reaction of a then,
LEMMA ThenJobHeld ==
  ASSUME Typed, SettleOK, NEW hs, hs \subseteq {"identity", "thrower", "user"}, TakeJob(hs)
  PROVE  /\ Held(frames, Tail(queue), reactions, View, None)
         /\ Head(queue).to \in Promise => kind[Head(queue).to] = "plain"
<1> DEFINE j == Head(queue)
<1>1. /\ Held(frames, queue, reactions, View, None) /\ Lengths(frames, queue, reactions)
      /\ Drops(queue, Tail(queue)) /\ j = queue[1] /\ j.handler \in {"identity", "thrower", "user"}
      /\ j.to \in Promise => JobFits(View[j.to], j)
  BY HeadFits
<1> HIDE DEF j
<1>2. j.to \in Promise => kind[j.to] = "plain"
  BY <1>1, ViewFacts DEF JobFits
<1>3. \A p \in Promise : ~JobToken(j, Async(View), p)
  BY <1>1, <1>2, ViewFacts DEF JobToken
<1>4. Held(frames, Tail(queue), reactions, View, None)
  BY <1>1, <1>3, TakeOther
<1> QED BY <1>2, <1>4 DEF j

LEMMA DefaultJobSettle ==
  ASSUME Typed, SettleOK, DefaultReactionJob
  PROVE  SettleOK'
<1> DEFINE j == Head(queue)
           op == IF j.handler = "identity" THEN "fulfill" ELSE "reject"
<1>1. /\ TakeJob({"identity", "thrower"}) /\ CallCapability(frames, op, j.to, j.v)
      /\ queue' = Tail(queue) /\ UNCHANGED <<kind, state, reactions, pairs, handed>>
  BY DEF DefaultReactionJob, resolverVars
<1>2. /\ phase = "run" /\ CallsTyped(frames) /\ Lengths(frames, Tail(queue), reactions)
      /\ j \in Jobs /\ op \in Outcome
  BY <1>1, HeadFits DEF Outcome
<1>3. j.to \in Promise \cup {None, Custom} /\ j.v \in Values
  BY <1>2 DEF Jobs
<1>4. Held(frames, Tail(queue), reactions, View, None) /\ (j.to \in Promise => kind[j.to] = "plain")
  BY <1>1, ThenJobHeld
<1> HIDE DEF j, op
<1>5. Held(frames', Tail(queue), reactions, View', None) /\ phase' = phase
  BY <1>1, <1>2, <1>3, <1>4, CapabilityHeld
<1> QED BY <1>1, <1>2, <1>5, Holds

LEMMA UserJobSettle ==
  ASSUME Typed, SettleOK, UserReactionJob
  PROVE  SettleOK'
<1> DEFINE j == Head(queue)
<1>1. /\ TakeJob({"user"}) /\ frames' = Append(frames, Frame("handler", j.to, None))
      /\ queue' = Tail(queue) /\ UNCHANGED <<kind, state, already, reactions, pairs, handed, phase>>
  BY DEF UserReactionJob, promiseVars, resolverVars
<1>2. /\ phase = "run" /\ CallsTyped(frames) /\ Lengths(frames, Tail(queue), reactions)
      /\ j \in Jobs
  BY <1>1, HeadFits
<1>3. j.to \in Promise \cup {None, Custom}
  BY <1>2 DEF Jobs
<1>4. Held(frames, Tail(queue), reactions, View, None) /\ (j.to \in Promise => kind[j.to] = "plain")
  BY <1>1, ThenJobHeld
<1> HIDE DEF j
<1>5. j.to \in Promise => View[j.to].kind = "plain" /\ View[j.to].kind # "unborn"
  BY <1>4, ViewFacts
<1>6. Held(Append(frames, Frame("handler", j.to, None)), Tail(queue), reactions, View, None)
  BY <1>2, <1>3, <1>4, <1>5, CallHeld
<1> QED BY <1>1, <1>2, <1>6, ViewSame, Holds

\* one of a thenable job: it has the token of the promise of an async function,
LEMMA ResolverJobSettle ==
  ASSUME Typed, SettleOK, ResolverReactionJob
  PROVE  SettleOK'
<1> DEFINE j == Head(queue)
           p == j.to
           op == IF j.handler = "resolve" THEN "fulfill" ELSE "reject"
<1>1. /\ TakeJob({"resolve", "reject"}) /\ EnterWithChecks(frames, op, p, j.v)
      /\ queue' = Tail(queue) /\ UNCHANGED <<kind, state, reactions, pairs, handed>>
  BY DEF ResolverReactionJob, resolverVars
<1>2. /\ phase = "run" /\ Held(frames, queue, reactions, View, None)
      /\ Lengths(frames, queue, reactions) /\ CallsTyped(frames)
      /\ Drops(queue, Tail(queue)) /\ Lengths(frames, Tail(queue), reactions)
      /\ j = queue[1] /\ j.handler \in {"resolve", "reject"} /\ j \in Jobs /\ JobOK(j)
      /\ (p \in Promise => JobFits(View[p], j)) /\ op \in Outcome
  BY <1>1, HeadFits DEF Outcome
<1>3. p \in Promise /\ j.v \in Values /\ p = j.to
  BY <1>2 DEF Jobs, JobOK
<1> HIDE DEF j, p, op
<1>4. ViewOK(View[p]) /\ JobFits(View[p], j)
  BY <1>2, <1>3 DEF Held, Core
<1>5. /\ kind[p] \in {"plain", "async"} /\ Flagged(View[p])
      /\ p \in Async(View) => ~already[p]
  <2>1. pairs[p] > 0 /\ (p \in Async(View) => ~already[p])
    BY <1>2, <1>3, <1>4, ViewFacts DEF JobFits
  <2>2. kind[p] \notin {"unborn", "orphan"}
    BY <1>3, <1>4, <2>1, ViewFacts DEF ViewOK
  <2> QED BY <1>3, <2>1, <2>2, ViewFacts DEF Flagged, Typed, FlagsTyped
<1>6. CASE p \in Async(View)
  <2>1. JobToken(queue[1], Async(View), p)
    BY <1>2, <1>3, <1>6 DEF JobToken
  <2>2. Held(frames, Tail(queue), reactions, View, p)
    BY <1>2, <1>3, <2>1, TakeToken
  <2>3. Held(frames', Tail(queue), reactions, View', None) /\ phase' = phase
    BY <1>1, <1>2, <1>3, <1>5, <1>6, <2>2, FlagHeld
  <2> QED BY <1>1, <1>2, <2>3, Holds
<1>7. CASE p \notin Async(View)
  <2>1. \A y \in Promise : ~JobToken(queue[1], Async(View), y)
    BY <1>2, <1>3, <1>7 DEF JobToken
  <2>2. Held(frames, Tail(queue), reactions, View, None)
    BY <1>2, <2>1, TakeOther
  <2>3. Held(frames', Tail(queue), reactions, View', None) /\ phase' = phase
    BY <1>1, <1>2, <1>3, <1>5, <1>7, <2>2, ChecksHeld
  <2> QED BY <1>1, <1>2, <2>3, Holds
<1> QED BY <1>6, <1>7

\* one of an await: the body goes on,
LEMMA AsyncJobSettle ==
  ASSUME Typed, SettleOK, AsyncReactionJob
  PROVE  SettleOK'
<1> DEFINE j == Head(queue)
           p == j.to
           f == Frame("body", p, None)
<1>1. /\ TakeJob({"resume", "resume_throw"}) /\ frames' = Append(frames, f)
      /\ queue' = Tail(queue) /\ UNCHANGED <<kind, state, already, reactions, pairs, handed, phase>>
  BY DEF AsyncReactionJob, promiseVars, resolverVars
<1>2. /\ phase = "run" /\ Held(frames, queue, reactions, View, None)
      /\ Lengths(frames, queue, reactions) /\ CallsTyped(frames)
      /\ Drops(queue, Tail(queue)) /\ Lengths(frames, Tail(queue), reactions)
      /\ j = queue[1] /\ j.handler \in {"resume", "resume_throw"} /\ JobOK(j)
      /\ (p \in Promise => JobFits(View[p], j))
  BY <1>1, HeadFits
<1>3. p \in Promise \cup {None} /\ p = j.to
  BY <1>2 DEF JobOK
<1>4. f \in Calls /\ f.op = "body" /\ f.p = p
  BY <1>3, FrameFields DEF Frame, Calls
<1> HIDE DEF j, p, f
<1>5. Extends(frames, frames', f)
  BY <1>1, <1>2, <1>4, AppendFacts DEF Extends, CallsTyped
<1>6. CASE p \in Promise
  <2>1. View[p].kind = "async" /\ View[p].pairs = 0 /\ View[p].handed \subseteq 1 .. 0
    BY <1>2, <1>6 DEF JobFits, Held, Core, ViewOK
  <2>2. p \in Async(View) /\ p # None
    BY <1>6, <2>1, PromiseValues DEF Async
  <2>3. JobToken(queue[1], Async(View), p) /\ 1 \in 1 .. Len(queue)
    BY <1>2, <1>3, <1>6, <2>2 DEF JobToken, Drops
  <2>4. View[p].state = "pending"
    BY <1>2, <2>2, <2>3 DEF Held, Alive, Busy
  <2>5. Held(frames, Tail(queue), reactions, View, p)
    BY <1>2, <1>6, <2>3, TakeToken
  <2>6. FrameToken(f, p) /\ FrameFits(View[p], f)
    BY <1>4, <2>1 DEF FrameToken, FrameFits
  <2>7. Held(frames', Tail(queue), reactions, View, None)
    BY <1>2, <1>5, <1>6, <2>4, <2>5, <2>6, PushToken
  <2> QED BY <1>1, <1>2, <2>7, ViewSame, Holds
<1>7. CASE p = None
  <2>1. /\ \A y \in Promise : ~JobToken(queue[1], Async(View), y) /\ ~FrameToken(f, y)
        /\ f.p \notin Promise
    BY <1>2, <1>3, <1>4, <1>7, PromiseValues DEF JobToken, FrameToken
  <2>2. Held(frames, Tail(queue), reactions, View, None)
    BY <1>2, <2>1, TakeOther
  <2>3. Held(frames', Tail(queue), reactions, View, None)
    BY <1>2, <1>5, <2>1, <2>2, PushOther
  <2> QED BY <1>1, <1>2, <2>3, ViewSame, Holds
<1> QED BY <1>3, <1>6, <1>7

\* A thenable job has the token of its promise, and resets the flag of the promise,
LEMMA ResetHeld ==
  ASSUME Typed, SettleOK, TakeJob({"thenable"}), NEW p, p = Head(queue).to,
         already' = [already EXCEPT ![p] = FALSE], pairs' = [pairs EXCEPT ![p] = @ + 1],
         NEW S, S \subseteq {pairs[p] + 1}, handed' = [handed EXCEPT ![p] = @ \cup S],
         UNCHANGED <<kind, state>>
  PROVE  /\ p \in Promise /\ Held(frames, Tail(queue), reactions, View', p)
         /\ ~View'[p].already /\ View'[p].pairs > 0 /\ View'[p].state = "pending"
         /\ View'[p].kind # "unborn" /\ handed'[p] = handed[p] \cup S
<1> DEFINE j == Head(queue)
<1>1. /\ Held(frames, queue, reactions, View, None) /\ Lengths(frames, queue, reactions)
      /\ Drops(queue, Tail(queue)) /\ j = queue[1] /\ j.handler = "thenable" /\ JobOK(j)
      /\ (p \in Promise => JobFits(View[p], j))
  BY HeadFits
<1> HIDE DEF j
<1>2. p \in Promise /\ j.to = p
  BY <1>1 DEF JobOK, j
<1>3. JobToken(queue[1], Async(View), p)
  BY <1>1, <1>2 DEF JobToken
<1>4. Held(frames, Tail(queue), reactions, View, p)
  BY <1>1, <1>2, <1>3, TakeToken
<1>5. Pending(View[p]) /\ View[p].pairs < MaxPairs /\ ViewOK(View[p])
  BY <1>1, <1>2 DEF JobFits, Held, Core
<1>6. /\ pairs[p] \in Nat /\ pairs[p] < MaxPairs /\ handed[p] \subseteq 1 .. pairs[p]
      /\ state[p] = "pending" /\ kind[p] \in {"plain", "async"}
  BY <1>2, <1>5, ViewFacts DEF Pending, ViewOK, Typed, PairsTyped
<1>7. /\ pairs'[p] = pairs[p] + 1 /\ handed'[p] = handed[p] \cup S
      /\ \A y \in Promise : y # p => pairs'[y] = pairs[y] /\ handed'[y] = handed[y]
  BY <1>2 DEF Typed, PairsTyped
<1>8. ~already'[p] /\ \A y \in Promise : y # p => already'[y] = already[y]
  BY <1>2, Zenon DEF Typed, FlagsTyped
<1>9. Elsewhere(View, View', p)
  BY <1>2, <1>7, <1>8, ViewElsewhere
<1>10. /\ pairs'[p] \in 0 .. MaxPairs /\ pairs'[p] > 0 /\ pairs[p] <= pairs'[p]
       /\ handed'[p] \subseteq 1 .. pairs'[p]
  <2>1. PICK n \in Nat : n = pairs[p] /\ n < MaxPairs /\ pairs'[p] = n + 1
    BY <1>6, <1>7
  <2>2. n + 1 \in 0 .. MaxPairs /\ n + 1 > 0 /\ n <= n + 1 /\ n + 1 \in 1 .. n + 1
    BY <2>1, BoundsAssumption
  <2>3. \A g \in 1 .. n : g \in 1 .. n + 1
    OBVIOUS
  <2>4. handed'[p] \subseteq 1 .. n + 1
    BY <1>6, <1>7, <2>1, <2>2, <2>3
  <2> QED BY <2>1, <2>2, <2>4
<1>11. Later(View[p], View'[p])
  BY <1>2, <1>7, <1>10, ViewFacts DEF Later
<1>12. ViewOK(View'[p])
  BY <1>2, <1>6, <1>10, ViewFacts DEF ViewOK
<1>13. Held(frames, Tail(queue), reactions, View', p)
  BY <1>2, <1>4, <1>9, <1>11, <1>12, Advance
<1> QED BY <1>2, <1>6, <1>7, <1>8, <1>10, <1>13, ViewFacts

\* whose functions the `then' of a thenable gets,
LEMMA ThenableJobSettle ==
  ASSUME Typed, SettleOK, ThenableJob
  PROVE  SettleOK'
<1> DEFINE p == Head(queue).to
<1>1. /\ TakeJob({"thenable"}) /\ already' = [already EXCEPT ![p] = FALSE]
      /\ pairs' = [pairs EXCEPT ![p] = @ + 1]
      /\ handed' = [handed EXCEPT ![p] = @ \cup {pairs[p] + 1}]
      /\ frames' = Append(frames, Frame("executor", p, None)) /\ queue' = Tail(queue)
      /\ UNCHANGED <<kind, state, reactions, phase>>
  BY DEF ThenableJob
<1>2. p = Head(queue).to
  OBVIOUS
<1> HIDE DEF p
<1>3. /\ p \in Promise /\ Held(frames, Tail(queue), reactions, View', p)
      /\ View'[p].kind # "unborn" /\ handed'[p] = handed[p] \cup {pairs[p] + 1}
  BY <1>1, <1>2, ResetHeld
<1>4. phase = "run" /\ CallsTyped(frames) /\ Lengths(frames, Tail(queue), reactions)
  BY <1>1, HeadFits
<1>5. View'[p].handed # {} /\ p \notin Async(View')
  BY <1>3, ViewFacts
<1>6. Held(frames, Tail(queue), reactions, View', None)
  BY <1>3, <1>5, PutDown
<1>7. Held(Append(frames, Frame("executor", p, None)), Tail(queue), reactions, View', None)
  BY <1>3, <1>4, <1>5, <1>6, CallHeld
<1> QED BY <1>1, <1>4, <1>7, Holds

\* and which are a reaction of a promise.
LEMMA AdoptJobSettle ==
  ASSUME Typed, SettleOK, AdoptJob
  PROVE  SettleOK'
<1> DEFINE p == Head(queue).to
           q == Head(queue).v
           r == [id |-> NextId, to |-> p, onFulfilled |-> "resolve", onRejected |-> "reject"]
<1>1. /\ TakeJob({"thenable"}) /\ q \in Promise /\ already' = [already EXCEPT ![p] = FALSE]
      /\ pairs' = [pairs EXCEPT ![p] = @ + 1] /\ AddReaction(Tail(queue), q, r)
      /\ UNCHANGED <<kind, state, frames, handed, phase>>
  BY DEF AdoptJob
<1>2. p = Head(queue).to /\ r.to = p /\ r.onFulfilled = "resolve"
  OBVIOUS
<1>3. /\ QueueTyped(Tail(queue)) /\ ReactionsTyped(reactions) /\ StatesTyped(state, result)
      /\ NextId \in Nat /\ phase = "run" /\ Lengths(frames, Tail(queue), reactions)
  BY <1>1, HeadFits, EmptyLen DEF Typed, NextId, HistoryTyped
<1>4. handed' = [handed EXCEPT ![p] = @ \cup {}]
  BY <1>1 DEF Typed, PairsTyped
<1>5. p \in Promise => r \in Reaction /\ ReactionOK(r)
  BY <1>3, AdoptReaction
<1> HIDE DEF p, q, r
<1>6. /\ p \in Promise /\ Held(frames, Tail(queue), reactions, View', p)
      /\ ~View'[p].already /\ View'[p].pairs > 0 /\ View'[p].state = "pending"
      /\ View'[p].kind # "unborn"
  BY <1>1, <1>2, <1>4, ResetHeld
<1>7. WaitFits(View'[p], r)
  BY <1>2, <1>6 DEF WaitFits
<1>8. CASE p \in Async(View')
  <2>1. Held(frames, queue', reactions', View', None)
    BY <1>1, <1>2, <1>3, <1>5, <1>6, <1>7, <1>8, AddToken
  <2> QED BY <1>1, <1>3, <2>1, Holds
<1>9. CASE p \notin Async(View')
  <2>1. Held(frames, Tail(queue), reactions, View', None)
    BY <1>6, <1>9, PutDown
  <2>2. Held(frames, queue', reactions', View', None)
    BY <1>1, <1>2, <1>3, <1>5, <1>6, <1>7, <1>9, <2>1, AddOther
  <2> QED BY <1>1, <1>3, <2>2, Holds
<1> QED BY <1>8, <1>9

LEMMA JobSettle ==
  ASSUME Typed, SettleOK, JobStep
  PROVE  SettleOK'
<1>1. CASE JobsDone
  BY <1>1, LeaveSettle DEF JobsDone, promiseVars, resolverVars
<1> QED BY <1>1, DefaultJobSettle, UserJobSettle, ResolverJobSettle, AsyncJobSettle,
           ThenableJobSettle, AdoptJobSettle DEF JobStep

LEMMA StepSettle ==
  ASSUME "async" \notin ApiKinds
  PROVE  Typed /\ SettleOK /\ [Next]_vars => SettleOK'
<1> SUFFICES ASSUME Typed, SettleOK, [Next]_vars PROVE SettleOK'
  OBVIOUS
<1>1. CASE UNCHANGED vars
  <2>1. /\ UNCHANGED <<kind, state, already, pairs, handed>>
        /\ UNCHANGED <<frames, queue, reactions, phase>>
    BY <1>1 DEF vars, promiseVars, resolverVars
  <2>2. View' = View
    BY <2>1, ViewSame
  <2> QED BY <2>1, <2>2 DEF SettleOK
<1> QED BY <1>1, UserSettle, ReturnSettle, JobSettle DEF Next, Terminated

-----------------------------------------------------------------------------
(* What follows for settlements.                                           *)

\* A set of which all elements are equal.
LEMMA CountFew ==
  ASSUME NEW S, \A x, y \in S : x = y
  PROVE  /\ S = {} => Cardinality(S) = 0
         /\ S # {} => Cardinality(S) = 1
<1>1. ASSUME S # {} PROVE Cardinality(S) = 1
  <2>1. PICK x \in S : TRUE
    BY <1>1
  <2>2. S = {x}
    BY <2>1
  <2> QED BY <2>2, CountOne
<1> QED BY <1>1, CountNone

LEMMA SettleOneInFlight ==
  ASSUME Typed, SettleOK
  PROVE  OneInFlight
<1>0. /\ DOMAIN queue = 1 .. Len(queue) /\ DOMAIN frames = 1 .. Len(frames)
      /\ \A p \in Promise : pairs[p] \in Nat
  BY Domains DEF Typed, PairsTyped
<1>1. /\ FramesSingle(frames) /\ JobsSingle(queue, Async(View))
      /\ FrameOrJob(frames, queue, Async(View))
      /\ FramesFit(frames, View) /\ JobsFit(queue, View)
  BY DEF SettleOK, Core, Single
<1> SUFFICES ASSUME NEW p \in Promise
             PROVE  LET calls == {i \in DOMAIN frames : frames[i].op \in Outcome /\ frames[i].p = p}
                        jobs == {i \in DOMAIN queue : queue[i].handler = "thenable" /\ queue[i].to = p}
                    IN /\ Cardinality(calls) + Cardinality(jobs) <= 1
                       /\ calls # {} \/ jobs # {} =>
                            /\ state[p] = "pending"
                            /\ already[p] \/ (kind[p] = "async" /\ pairs[p] = 0)
  BY DEF OneInFlight
<1> DEFINE calls == {i \in DOMAIN frames : frames[i].op \in Outcome /\ frames[i].p = p}
           jobs == {i \in DOMAIN queue : queue[i].handler = "thenable" /\ queue[i].to = p}
<1>2. \A i \in calls : i \in 1 .. Len(frames) /\ FrameToken(frames[i], p) /\ Pending(View[p])
  <2> SUFFICES ASSUME NEW i \in calls
               PROVE  i \in 1 .. Len(frames) /\ FrameToken(frames[i], p) /\ Pending(View[p])
    OBVIOUS
  <2>1. i \in 1 .. Len(frames) /\ frames[i].op \in {"fulfill", "reject"} /\ frames[i].p = p
    BY <1>0 DEF Outcome
  <2> QED BY <1>1, <2>1 DEF FrameToken, FramesFit, FrameFits
<1>3. \A i \in jobs : i \in 1 .. Len(queue) /\ JobToken(queue[i], Async(View), p) /\ Pending(View[p])
  <2> SUFFICES ASSUME NEW i \in jobs
               PROVE  /\ i \in 1 .. Len(queue) /\ JobToken(queue[i], Async(View), p)
                      /\ Pending(View[p])
    OBVIOUS
  <2>1. i \in 1 .. Len(queue) /\ queue[i].handler = "thenable" /\ queue[i].to = p
    BY <1>0
  <2> QED BY <1>1, <2>1 DEF JobToken, JobsFit, JobFits
<1> HIDE DEF calls, jobs
<1>4. (\A i, j \in calls : i = j) /\ (\A i, j \in jobs : i = j) /\ (calls = {} \/ jobs = {})
  BY <1>1, <1>2, <1>3 DEF FramesSingle, JobsSingle, FrameOrJob
<1>5. /\ (calls = {} => Cardinality(calls) = 0) /\ (calls # {} => Cardinality(calls) = 1)
      /\ (jobs = {} => Cardinality(jobs) = 0) /\ (jobs # {} => Cardinality(jobs) = 1)
  BY <1>4, CountFew
<1>6. Cardinality(calls) + Cardinality(jobs) <= 1
  BY <1>4, <1>5
<1>7. ASSUME calls # {} \/ jobs # {}
      PROVE  state[p] = "pending" /\ (already[p] \/ (kind[p] = "async" /\ pairs[p] = 0))
  <2>1. Pending(View[p])
    BY <1>2, <1>3, <1>7
  <2> QED BY <1>0, <2>1, ViewFacts DEF Pending, Flagged
<1> QED BY <1>6, <1>7 DEF calls, jobs

LEMMA AsyncOpen ==
  ASSUME Typed, PlacesOK, SettleOK, phase = "run",
         NEW p \in Promise, kind[p] = "async", handed[p] = {}
  PROVE  Open(p) = IF state[p] = "pending" THEN 1 ELSE 0
<1>0. /\ DOMAIN queue = 1 .. Len(queue) /\ DOMAIN frames = 1 .. Len(frames)
      /\ DOMAIN source = 1 .. Len(source) /\ Len(source) \in Nat
      /\ \A r \in Promise : DOMAIN reactions[r] = 1 .. Len(reactions[r]) /\ Len(reactions[r]) \in Nat
  BY Domains
<1> DEFINE A == Async(View)
<1>1. Single(frames, queue, reactions, A)
  BY DEF SettleOK, Core
<1> DEFINE calls == {i \in DOMAIN frames : frames[i].p = p /\ frames[i].op \in Outcome \cup {"body"}}
           jobs == {i \in DOMAIN queue : queue[i].to = p}
           waiting == {w \in Promise \X DOMAIN source :
                         w[2] \in DOMAIN reactions[w[1]] /\ reactions[w[1]][w[2]].to = p}
<1>2. p \in A /\ p # None
  BY ViewFacts, PromiseValues
<1>3. Busy(frames, queue, reactions, A, p) <=> state[p] = "pending"
  BY <1>2, ViewFacts DEF SettleOK, Alive
<1> HIDE DEF A
<1>4. \A i \in 1 .. Len(frames) : FrameToken(frames[i], p) <=> i \in calls
  BY <1>0 DEF FrameToken, Outcome
<1>5. \A i \in 1 .. Len(queue) : JobToken(queue[i], A, p) <=> i \in jobs
  BY <1>0, <1>2 DEF JobToken
<1>6. \A w \in waiting : /\ w = <<w[1], w[2]>> /\ w[1] \in Promise
                         /\ w[2] \in 1 .. Len(reactions[w[1]])
                         /\ WaitToken(reactions[w[1]][w[2]], A, p)
  <2> SUFFICES ASSUME NEW w \in waiting
               PROVE  /\ w = <<w[1], w[2]>> /\ w[1] \in Promise
                      /\ w[2] \in 1 .. Len(reactions[w[1]])
                      /\ WaitToken(reactions[w[1]][w[2]], A, p)
    OBVIOUS
  <2>1. /\ w \in Promise \X DOMAIN source /\ w[2] \in DOMAIN reactions[w[1]]
        /\ reactions[w[1]][w[2]].to = p
    OBVIOUS
  <2>2. w = <<w[1], w[2]>> /\ w[1] \in Promise
    BY <2>1
  <2> QED BY <1>0, <1>2, <2>1, <2>2 DEF WaitToken
<1>7. ASSUME NEW r \in Promise, NEW k \in 1 .. Len(reactions[r]), WaitToken(reactions[r][k], A, p)
      PROVE  <<r, k>> \in waiting
  <2>1. Len(reactions[r]) <= Len(source)
    BY <1>7 DEF PlacesOK, Places, Waits
  <2>2. k \in DOMAIN reactions[r] /\ k \in DOMAIN source
    BY <1>0, <2>1
  <2>3. <<r, k>> \in Promise \X DOMAIN source /\ <<r, k>>[1] = r /\ <<r, k>>[2] = k
    BY <2>2
  <2> QED BY <1>7, <2>2, <2>3 DEF WaitToken
<1>8. (\A i \in calls : i \in 1 .. Len(frames)) /\ (\A i \in jobs : i \in 1 .. Len(queue))
  BY <1>0
<1> HIDE DEF calls, jobs, waiting
<1>9. (\A i, j \in calls : i = j) /\ (\A i, j \in jobs : i = j) /\ (calls = {} \/ jobs = {})
  BY <1>1, <1>4, <1>5, <1>8 DEF Single, FramesSingle, JobsSingle, FrameOrJob
<1>10. \A w, x \in waiting : w = x
  <2> SUFFICES ASSUME NEW w \in waiting, NEW x \in waiting PROVE w = x
    OBVIOUS
  <2>1. w[1] = x[1] /\ w[2] = x[2]
    BY <1>1, <1>6 DEF Single, WaitsSingle
  <2> QED BY <1>6, <2>1
<1>11. (calls = {} \/ waiting = {}) /\ (jobs = {} \/ waiting = {})
  BY <1>1, <1>4, <1>5, <1>6, <1>8 DEF Single, FrameOrWait, JobOrWait
<1>12. Busy(frames, queue, reactions, A, p) <=> calls # {} \/ jobs # {} \/ waiting # {}
  <2>1. ASSUME Busy(frames, queue, reactions, A, p) PROVE calls # {} \/ jobs # {} \/ waiting # {}
    BY <1>4, <1>5, <1>7, <2>1 DEF Busy
  <2>2. ASSUME calls # {} \/ jobs # {} \/ waiting # {} PROVE Busy(frames, queue, reactions, A, p)
    BY <1>4, <1>5, <1>6, <1>8, <2>2 DEF Busy
  <2> QED BY <2>1, <2>2
<1>13. /\ (calls = {} => Cardinality(calls) = 0) /\ (calls # {} => Cardinality(calls) = 1)
       /\ (jobs = {} => Cardinality(jobs) = 0) /\ (jobs # {} => Cardinality(jobs) = 1)
       /\ (waiting = {} => Cardinality(waiting) = 0) /\ (waiting # {} => Cardinality(waiting) = 1)
  BY <1>9, <1>10, CountFew
<1>14. Cardinality(calls) + Cardinality(jobs) + Cardinality(waiting)
         = IF state[p] = "pending" THEN 1 ELSE 0
  BY <1>3, <1>9, <1>11, <1>12, <1>13
<1> QED BY <1>14 DEF calls, jobs, waiting, Open

\* Nothing leads to a promise its function did not know.
LEMMA OrphanOpen ==
  ASSUME Typed, PlacesOK, SettleOK, NEW p \in Promise, kind[p] = "orphan"
  PROVE  Open(p) = 0 /\ state[p] = "pending" /\ handed[p] = {}
<1> DEFINE calls == {i \in DOMAIN frames : frames[i].p = p /\ frames[i].op \in Outcome \cup {"body"}}
           jobs == {i \in DOMAIN queue : queue[i].to = p}
           waiting == {w \in Promise \X DOMAIN source :
                         w[2] \in DOMAIN reactions[w[1]] /\ reactions[w[1]][w[2]].to = p}
<1>1. /\ DOMAIN queue = 1 .. Len(queue) /\ DOMAIN frames = 1 .. Len(frames)
      /\ \A r \in Promise : DOMAIN reactions[r] = 1 .. Len(reactions[r])
  BY Domains
<1>2. /\ FramesFit(frames, View) /\ JobsFit(queue, View) /\ WaitsFit(reactions, View)
      /\ ViewOK(View[p]) /\ View[p].kind = "orphan"
  BY ViewFacts DEF SettleOK, Core
<1>3. View[p].pairs = 0 /\ View[p].state = "pending" /\ View[p].handed \subseteq 1 .. 0
  BY <1>2 DEF ViewOK
<1>4. calls = {}
  <2> SUFFICES ASSUME NEW i \in calls PROVE FALSE
    OBVIOUS
  <2>1. /\ i \in 1 .. Len(frames) /\ frames[i].p = p
        /\ frames[i].op \in {"fulfill", "reject", "body"}
    BY <1>1 DEF Outcome
  <2>2. FrameFits(View[p], frames[i])
    BY <1>2, <2>1 DEF FramesFit
  <2> QED BY <1>2, <2>1, <2>2 DEF FrameFits, Pending
<1>5. jobs = {}
  <2> SUFFICES ASSUME NEW i \in jobs PROVE FALSE
    OBVIOUS
  <2>1. i \in 1 .. Len(queue) /\ queue[i].to = p
    BY <1>1
  <2>2. JobFits(View[p], queue[i])
    BY <1>2, <2>1 DEF JobsFit
  <2>3. queue[i] \in Jobs
    BY <2>1, ElementOfSeq DEF Typed, QueueTyped
  <2>4. queue[i].handler \in {"identity", "user", "resolve", "resume", "thrower", "reject",
                              "resume_throw", "thenable"}
    BY <2>3 DEF Jobs
  <2> QED BY <1>2, <1>3, <2>2, <2>4 DEF JobFits, Pending
<1>6. waiting = {}
  <2> SUFFICES ASSUME NEW w \in waiting PROVE FALSE
    OBVIOUS
  <2>1. /\ w[1] \in Promise /\ w[2] \in 1 .. Len(reactions[w[1]])
        /\ reactions[w[1]][w[2]].to = p
    BY <1>1
  <2>2. WaitFits(View[p], reactions[w[1]][w[2]])
    BY <1>2, <2>1 DEF WaitsFit
  <2>3. reactions[w[1]][w[2]] \in Reaction
    BY <2>1, ElementOfSeq DEF Typed, ReactionsTyped
  <2>4. reactions[w[1]][w[2]].onFulfilled \in {"identity", "user", "resolve", "resume"}
    BY <2>3 DEF Reaction
  <2> QED BY <1>2, <1>3, <2>2, <2>4 DEF WaitFits
<1> HIDE DEF calls, jobs, waiting
<1>7. Cardinality(calls) + Cardinality(jobs) + Cardinality(waiting) = 0
  BY <1>4, <1>5, <1>6, CountNone
<1>8. Open(p) = 0
  BY <1>7 DEF Open, calls, jobs, waiting
<1> QED BY <1>3, <1>8, ViewFacts

LEMMA SettleAsyncKept ==
  ASSUME Typed, PlacesOK, SettleOK
  PROVE  AsyncKept
  BY AsyncOpen, OrphanOpen DEF AsyncKept

\* The tokens are an invariant, where the API does not settle the promises of async
\* functions: with "async" in ApiKinds the assertions do fail.
THEOREM SettlementInvariant ==
  ASSUME "async" \notin ApiKinds
  PROVE  Spec => [](Typed /\ SettleOK)
<1>1. Init => Typed /\ SettleOK
  BY InitTyped, InitSettle
<1>2. Typed /\ SettleOK /\ [Next]_vars => Typed' /\ SettleOK'
  BY StepTyped, StepSettle
<1> QED BY <1>1, <1>2, PTL DEF Spec

\* Every variable has its type, and no promise has resolving functions that were not made.
THEOREM PromiseTypes ==
  ASSUME "async" \notin ApiKinds
  PROVE  Spec => []TypeOK
<1>1. Typed /\ SettleOK => TypeOK
  <2> SUFFICES ASSUME Typed, SettleOK PROVE TypeOK
    OBVIOUS
  <2>1. ASSUME NEW p \in Promise PROVE pairs[p] \in 0 .. MaxPairs /\ handed[p] \subseteq 1 .. pairs[p]
    BY ViewFacts DEF SettleOK, Core, ViewOK
  <2>2. pairs \in [Promise -> 0 .. MaxPairs]
    BY <2>1 DEF Typed, PairsTyped
  <2>3. frames \in Seq(Calls) /\ queue \in Seq(Jobs) /\ reactions \in [Promise -> Seq(Reaction)]
    BY DEF Typed, CallsTyped, QueueTyped, ReactionsTyped
  <2> QED BY <2>1, <2>2, <2>3 DEF Typed, TypeOK, HistoryTyped, StatesTyped, FlagsTyped, Phases
<1> QED BY <1>1, SettlementInvariant, PTL

\* The assertions of ecma_fulfill_promise, ecma_reject_promise and ecma_promise_set_state that
\* the promise is pending hold, whatever user code does in the calls that surround them.
THEOREM PromiseSettledOnce ==
  ASSUME "async" \notin ApiKinds
  PROVE  Spec => []SettledOnce
<1>1. Typed /\ SettleOK => SettledOnce
  BY DEF SettleOK, SettledOnce
<1> QED BY <1>1, SettlementInvariant, PTL

\* One settlement of a promise is under way at most, and the flag of the promise keeps its
\* resolving functions out.
THEOREM PromiseOneInFlight ==
  ASSUME "async" \notin ApiKinds
  PROVE  Spec => []OneInFlight
<1>1. Typed /\ SettleOK => OneInFlight
  BY SettleOneInFlight
<1> QED BY <1>1, SettlementInvariant, PTL

\* One thing is under way that will settle the promise of an async function, as long as that is
\* pending, except if the function went on before it knew its promise: then the promise stays
\* pending and nothing is.
THEOREM PromiseAsyncKept ==
  ASSUME "async" \notin ApiKinds
  PROVE  Spec => []AsyncKept
<1>1. Typed /\ PlacesOK /\ SettleOK => AsyncKept
  BY SettleAsyncKept
<1> QED BY <1>1, ReactionInvariant, SettlementInvariant, PTL

=============================================================================
