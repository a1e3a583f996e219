------------------------- MODULE EcmaPropertyProofs -------------------------
(***************************************************************************)
(* LookupExact and TablesExact of EcmaProperty, for every value of the     *)
(* constants.                                                              *)
(*                                                                         *)
(* The argument has three layers.  The sizes of a table are such that the  *)
(* probe sequence of every name visits every entry.  A table then keeps,   *)
(* through Put and Without, that every property it holds is reached by the *)
(* probe sequence of its name without a NULL before it.  The invariant     *)
(* Inv says of which properties this holds at each point of the loops,     *)
(* and that the entries of the cache are properties of the lists.          *)
(***************************************************************************)
EXTENDS EcmaProperty, FiniteSetTheorems, WellFoundedInduction, SequenceFacts, TLAPS

StepSet == {3, 5, 7, 11, 13, 17, 19, 23}

HasInverse(s, m) == \E x \in Nat, c \in Nat : s * x = 1 + c * m

\* Every step has an inverse modulo the size m.
Coprime(m) == \A s \in StepSet : HasInverse(s, m)

\* The sizes of tables.
GoodSize(m) == m \in Nat /\ m >= MinimumSize /\ Coprime(m)

Property == Pair \X {0, 1}

NameTable == [Pair -> [{0, 1} -> Name \cup {Deleted}]]

TableOf(m) ==
  [max : {m}, null : Int, unused : Int,
   pair : [0 .. m - 1 -> Pair \cup {NoPair}], bit : [0 .. m - 1 -> BOOLEAN]]

Free(t) == {e \in 0 .. t.max - 1 : t.pair[e] = NoPair}

Nulls(t) == {e \in 0 .. t.max - 1 : IsNull(t, e)}

\* The search for the name n reaches the property q.
Reaches(t, n, q) ==
  \E k \in Visits(t) :
    /\ t.pair[Entry(t, n, k)] # NoPair
    /\ PropertyAt(t, Entry(t, n, k)) = q
    /\ \A j \in 0 .. k - 1 : ~IsNull(t, Entry(t, n, j))

\* The entries of t are the properties S, whose names are those of nm, and
\* each is where a search for its name finds it.
Holds(t, S, nm) ==
  /\ S \subseteq Property
  /\ \A e \in 0 .. t.max - 1 : t.pair[e] # NoPair => PropertyAt(t, e) \in S
  /\ \A e, f \in 0 .. t.max - 1 :
       t.pair[e] # NoPair /\ PropertyAt(t, e) = PropertyAt(t, f) => e = f
  /\ \A q \in S : NameIn(nm, q) \in Name /\ Reaches(t, NameIn(nm, q), q)

Added(S, q) == S \cup {q}

Removed(S, q) == S \ {q}

\* A table of a good size that holds S and has room for the rest.
Table(t, S, nm) ==
  /\ t \in TableOf(t.max) /\ GoodSize(t.max)
  /\ Holds(t, S, nm)
  /\ IsFiniteSet(S) /\ Cardinality(Free(t)) + Cardinality(S) = t.max

\* The counters between two operations.
Counted(t) ==
  /\ t.null = Cardinality(Nulls(t)) /\ t.null > 0
  /\ t.unused = Cardinality(Free(t)) /\ t.unused < t.max

\* The counters while the table is filled, for count properties.
Expected(t, count) ==
  /\ t.null = t.max - count /\ t.unused = t.max - count /\ 0 < count /\ count < t.max
  /\ Free(t) = Nulls(t)

-----------------------------------------------------------------------------
(* The inductive invariant.                                                *)

CacheEntry == {NoEntry} \cup (Object \X Name \X Property)

Typed ==
  /\ list \in [Object -> Seq(Pair)]
  /\ names \in NameTable
  /\ DOMAIN hashmap = Object
  /\ lcache \in [0 .. Rows - 1 -> [1 .. RowLength -> CacheEntry]]
  /\ lcached \subseteq Property
  /\ memory \in [alloc : Nat, high : BOOLEAN]

\* No pair is on a list twice, or on two lists.
PairsApart ==
  \A o, p \in Object : \A i \in 1 .. Len(list[o]), j \in 1 .. Len(list[p]) :
    list[o][i] = list[p][j] => o = p /\ i = j

\* The properties of an object have different names.
NamesApart ==
  \A o \in Object : \A q, s \in PropertySet(o) : NameOf(q) = NameOf(s) => q = s

\* The entries of the cache are cached properties, each in its row.
CacheSound ==
  \A r \in 0 .. Rows - 1, k \in 1 .. RowLength :
    lcache[r][k] # NoEntry =>
      LET entry == lcache[r][k]
      IN  /\ r = RowIndex(entry[1], entry[2])
          /\ entry[3] \in PropertySet(entry[1]) /\ NameOf(entry[3]) = entry[2]
          /\ entry[3] \in lcached

CacheSingle ==
  \A r, x \in 0 .. Rows - 1 : \A k, y \in 1 .. RowLength :
    /\ lcache[r][k] # NoEntry /\ lcache[x][y] # NoEntry
    /\ lcache[r][k][3] = lcache[x][y][3]
    => r = x /\ k = y

CacheComplete ==
  \A q \in lcached : \E r \in 0 .. Rows - 1, k \in 1 .. RowLength :
    lcache[r][k] # NoEntry /\ lcache[r][k][3] = q

CacheOK == CacheSound /\ CacheSingle /\ CacheComplete

\* What a loop knows.
AtMostOne(found, o) ==
  found \subseteq PropertySet(o) /\ \A q, s \in found : q = s

SizeOK ==
  /\ work \in [op : {"size"}, obj : Object, max : Nat, found : SUBSET Property]
  /\ GoodSize(work.max) /\ hashmap[work.obj] = NoMap
  /\ Cardinality(PropertySet(work.obj)) >= MinimumSize \div 2
  /\ AtMostOne(work.found, work.obj)

FillOK ==
  /\ work \in [op : {"fill"}, obj : Object, at : Nat \ {0}, found : SUBSET Property]
  /\ hashmap[work.obj] # NoMap
  /\ AtMostOne(work.found, work.obj)

ConvertOK ==
  /\ work \in [op : {"convert"}, obj : Object, left : SUBSET Name, prop_index : {0, 1}]
  /\ hashmap[work.obj] = NoMap
  /\ \A q \in PropertySet(work.obj) : NameOf(q) \notin work.left
  /\ work.prop_index = 0 => FirstIsDeleted(work.obj)

DeleteOK ==
  /\ work \in [op : {"delete"}, obj : Object, at : Nat \ {0}, props : SUBSET Property,
               recreate : BOOLEAN]
  /\ \A i \in 1 .. Len(list[work.obj]), j \in {0, 1} :
       i >= work.at /\ <<list[work.obj][i], j>> \in work.props =>
         names[list[work.obj][i]][j] # Deleted

WorkOK == work = Idle \/ SizeOK \/ FillOK \/ ConvertOK \/ DeleteOK

Filling(o) == work.op = "fill" /\ work.obj = o

Abandoned(o) == work.op = "delete" /\ work.obj = o /\ work.recreate

\* The properties of o in the pairs before the k-th.
Before(o, k) ==
  {q \in PropertySet(o) : \E i \in 1 .. Len(list[o]) : i < k /\ list[o][i] = q[1]}

TableOK(o) ==
  /\ Filling(o) =>
       /\ Table(hashmap[o], Before(o, work.at), names)
       /\ Expected(hashmap[o], Cardinality(PropertySet(o)))
  /\ ~Filling(o) /\ ~Abandoned(o) =>
       Table(hashmap[o], PropertySet(o), names) /\ Counted(hashmap[o])

HashmapsOK == \A o \in Object : hashmap[o] # NoMap => TableOK(o)

Inv ==
  Typed /\ PairsApart /\ NamesApart /\ CacheOK /\ WorkOK /\ HashmapsOK

-----------------------------------------------------------------------------
(* Arithmetic: the sizes of tables and the probe sequence.                 *)

\* A set of natural numbers has a least element.
LEMMA Least ==
  ASSUME NEW T \in SUBSET Nat, T # {}
  PROVE  \E x \in T : \A y \in T : x <= y
<1> DEFINE R == {p \in Nat \X Nat : p[1] < p[2]}
<1>1. R = OpToRel(<, Nat)
  BY DEF OpToRel
<1>2. IsWellFoundedOn(R, Nat)
  BY <1>1, NatLessThanWellFounded
<1> HIDE DEF R
<1>3. PICK x \in T : \A y \in T : ~(<<y, x>> \in R)
  BY <1>2, WFMin
<1>4. \A y \in T : x <= y
  <2> SUFFICES ASSUME NEW y \in T, ~(x <= y) PROVE FALSE
    OBVIOUS
  <2>1. <<y, x>> \in Nat \X Nat /\ y < x
    OBVIOUS
  <2>2. <<y, x>> \in R
    BY <2>1 DEF R
  <2> QED BY <2>2, <1>3
<1> QED BY <1>4

LEMMA EvenOdd ==
  ASSUME NEW c \in Nat
  PROVE  \E d \in Nat : c = 2 * d \/ c = 2 * d + 1
<1>1. c = 2 * (c \div 2) \/ c = 2 * (c \div 2) + 1
  OBVIOUS
<1>2. c \div 2 \in Nat
  OBVIOUS
<1> QED BY <1>1, <1>2

\* An odd step with an inverse modulo m has one modulo 2 * m.
LEMMA DoubleStep ==
  ASSUME NEW s \in Nat, NEW h \in Nat, s = 2 * h + 1, NEW m \in Nat, HasInverse(s, m)
  PROVE  HasInverse(s, 2 * m)
<1> SUFFICES \E y \in Nat, d \in Nat : s * y = 1 + d * (2 * m)
  BY DEF HasInverse
<1>0. PICK x \in Nat, c \in Nat : s * x = 1 + c * m
  BY DEF HasInverse
<1>1. PICK d \in Nat : c = 2 * d \/ c = 2 * d + 1
  BY EvenOdd
<1>2. CASE c = 2 * d
  <2>1. s * x = 1 + d * (2 * m)
    BY <1>0, <1>2
  <2> QED BY <2>1
<1>3. CASE c = 2 * d + 1
  <2>1. s * (x + m) = s * x + s * m
    OBVIOUS
  <2>2. s * m = (2 * h + 1) * m
    OBVIOUS
  <2>3. s * (x + m) = 1 + (2 * d + 1) * m + (2 * h + 1) * m
    BY <1>0, <2>1, <2>2, <1>3
  <2>4. (2 * d + 1) * m + (2 * h + 1) * m = (d + h + 1) * (2 * m)
    OBVIOUS
  <2>5. s * (x + m) = 1 + (d + h + 1) * (2 * m)
    BY <2>3, <2>4
  <2>6. x + m \in Nat /\ d + h + 1 \in Nat
    OBVIOUS
  <2> HIDE <1>3
  <2> WITNESS x + m \in Nat, d + h + 1 \in Nat
  <2> QED BY <2>5
<1> QED BY <1>1, <1>2, <1>3

LEMMA StepOdd == \A s \in StepSet : s \in Nat /\ \E h \in Nat : s = 2 * h + 1
<1>1. /\ 3 = 2 * 1 + 1 /\ 5 = 2 * 2 + 1 /\ 7 = 2 * 3 + 1 /\ 11 = 2 * 5 + 1
      /\ 13 = 2 * 6 + 1 /\ 17 = 2 * 8 + 1 /\ 19 = 2 * 9 + 1 /\ 23 = 2 * 11 + 1
  OBVIOUS
<1> QED BY <1>1 DEF StepSet

LEMMA Doubled ==
  ASSUME NEW m \in Nat, Coprime(m)
  PROVE  Coprime(2 * m)
<1> SUFFICES ASSUME NEW s \in StepSet PROVE HasInverse(s, 2 * m)
  BY DEF Coprime
<1>1. s \in Nat /\ \E h \in Nat : s = 2 * h + 1
  BY StepOdd
<1>2. HasInverse(s, m)
  BY DEF Coprime
<1> QED BY <1>1, <1>2, DoubleStep

LEMMA MinimumGood == GoodSize(MinimumSize)
<1>1. Coprime(2)
  <2> SUFFICES ASSUME NEW s \in StepSet
               PROVE  \E x \in Nat, c \in Nat : s * x = 1 + c * 2
    BY DEF Coprime, HasInverse
  <2>1. PICK h \in Nat : s = 2 * h + 1
    BY StepOdd
  <2>2. s * 1 = 1 + h * 2
    BY <2>1
  <2> QED BY <2>2
<1>2. Coprime(4)
  BY <1>1, Doubled, 4 = 2 * 2
<1>3. Coprime(8)
  BY <1>2, Doubled, 8 = 2 * 4
<1>4. Coprime(16)
  BY <1>3, Doubled, 16 = 2 * 8
<1>5. Coprime(32)
  BY <1>4, Doubled, 32 = 2 * 16
<1>6. Coprime(64)
  BY <1>5, Doubled, 64 = 2 * 32
<1>7. Coprime(MinimumSize)
  BY <1>1, <1>2, <1>3, <1>4, <1>5, <1>6, SizeAssumption
<1> QED BY <1>7, SizeAssumption DEF GoodSize

LEMMA DoubledGood ==
  ASSUME NEW m, GoodSize(m)
  PROVE  GoodSize(2 * m)
<1>1. m \in Nat /\ m >= MinimumSize /\ Coprime(m) /\ MinimumSize \in Nat
  BY SizeAssumption DEF GoodSize
<1>2. Coprime(2 * m)
  BY <1>1, Doubled
<1> QED BY <1>1, <1>2 DEF GoodSize

\* A number below m that differs from x by a multiple of m is x modulo m.
LEMMA ModUnique ==
  ASSUME NEW m \in Nat \ {0}, NEW e \in 0 .. m - 1, NEW x \in Nat, NEW z \in Int,
         x = e + m * z
  PROVE  x % m = e
<1> DEFINE q == x \div m
           r == x % m
<1>1. q \in Int /\ r \in 0 .. m - 1 /\ x = m * q + r
  OBVIOUS
<1>2. m * (q - z) = e - r
  BY <1>1
<1>3. q = z
  <2>1. CASE q - z >= 1
    <3>1. m * (q - z) >= m
      BY <2>1, <1>1
    <3> QED BY <3>1, <1>2, <1>1
  <2>2. CASE q - z <= -1
    <3>1. m * (q - z) <= -m
      BY <2>2, <1>1
    <3> QED BY <3>1, <1>2, <1>1
  <2> QED BY <2>1, <2>2, <1>1
<1> QED BY <1>1, <1>2, <1>3

LEMMA DivMono ==
  ASSUME NEW n \in Nat \ {0}, NEW a \in Nat, NEW b \in Nat, a <= b
  PROVE  a \div n <= b \div n
<1> DEFINE p == a \div n
           q == b \div n
<1>1. p \in Nat /\ q \in Nat /\ a >= n * p /\ b < n * q + n
  OBVIOUS
<1>2. ASSUME p >= q + 1 PROVE FALSE
  <2>1. n * p >= n * (q + 1)
    BY <1>2, <1>1
  <2>2. n * (q + 1) = n * q + n
    BY <1>1
  <2> QED BY <2>1, <2>2, <1>1
<1> QED BY <1>1, <1>2

LEMMA DivMod ==
  ASSUME NEW m \in Nat \ {0}, NEW h \in Nat
  PROVE  \E a \in Nat, r \in 0 .. m - 1 : h = m * a + r
<1>1. h \div m \in Nat /\ h % m \in 0 .. m - 1 /\ h = m * (h \div m) + (h % m)
  OBVIOUS
<1> QED BY <1>1

\* The probe sequence that starts at h visits the entry e.
LEMMA Visited ==
  ASSUME NEW m \in Nat \ {0}, NEW e \in 0 .. m - 1, NEW h \in Nat, NEW s \in Nat,
         HasInverse(s, m)
  PROVE  \E k \in 0 .. m - 1 : (h + k * s) % m = e
<1>0. PICK x \in Nat, c \in Nat : s * x = 1 + c * m
  BY DEF HasInverse
<1>1. PICK a \in Nat, r \in 0 .. m - 1 : h = m * a + r
  BY DivMod
<1> DEFINE d == e + m - r
<1>2. d \in Nat
  OBVIOUS
<1>3. PICK b \in Nat, k \in 0 .. m - 1 : d * x = m * b + k
  <2>1. d * x \in Nat
    BY <1>2
  <2>2. PICK y \in Nat : y = d * x
    BY <2>1
  <2>3. PICK b \in Nat, k \in 0 .. m - 1 : y = m * b + k
    BY DivMod
  <2> QED BY <2>2, <2>3
<1> HIDE DEF d
<1>4. h + k * s = e + m * (1 + a + d * c - b * s)
  <2>1. k = d * x - m * b
    BY <1>3, <1>2
  <2>2. k * s = d * (s * x) - m * (b * s)
    BY <2>1, <1>2
  <2>3. d * (s * x) = d + d * (c * m)
    BY <1>0, <1>2
  <2>4. d * (c * m) = m * (d * c)
    BY <1>2
  <2>5. h + k * s = m * a + r + d + m * (d * c) - m * (b * s)
    BY <2>2, <2>3, <2>4, <1>1, <1>2
  <2>6. r + d = e + m
    BY DEF d
  <2>7. h + k * s = e + m + m * a + m * (d * c) - m * (b * s)
    BY <2>5, <2>6, <1>2
  <2> QED BY <2>7, <1>2
<1>5. h + k * s \in Nat /\ 1 + a + d * c - b * s \in Int
  BY <1>2
<1>6. (h + k * s) % m = e
  BY <1>4, <1>5, ModUnique
<1> QED BY <1>6

-----------------------------------------------------------------------------
(* What a table holds.                                                     *)

LEMMA StepOf ==
  ASSUME NEW n \in Name
  PROVE  Hash[n] \in Nat /\ Steps[(Hash[n] % 8) + 1] \in StepSet
<1>1. Hash[n] \in Nat
  BY SizeAssumption
<1>2. Hash[n] % 8 \in 0 .. 7
  BY <1>1
<1>3. Hash[n] % 8 \in {0, 1, 2, 3, 4, 5, 6, 7}
  BY <1>2
<1>4. (Hash[n] % 8) + 1 \in {1, 2, 3, 4, 5, 6, 7, 8}
  BY <1>3
<1> QED BY <1>1, <1>4 DEF Steps, StepSet

LEMMA SizePositive ==
  ASSUME NEW m, GoodSize(m)
  PROVE  m \in Nat \ {0} /\ m >= 2 /\ m >= MinimumSize
  BY SizeAssumption DEF GoodSize

LEMMA EntryType ==
  ASSUME NEW t, GoodSize(t.max), NEW n \in Name, NEW k \in Nat
  PROVE  Entry(t, n, k) \in 0 .. t.max - 1
<1>1. PICK h \in Nat, s \in Nat, m \in Nat \ {0} :
        h = Hash[n] /\ s = Steps[(Hash[n] % 8) + 1] /\ m = t.max
  BY StepOf, StepOdd, SizePositive
<1>2. h + k * s \in Nat
  BY <1>1
<1>3. (h + k * s) % m \in 0 .. m - 1
  BY <1>2
<1> QED BY <1>1, <1>3 DEF Entry

\* A search that does not stop visits every entry.
LEMMA ProbeAll ==
  ASSUME NEW t, GoodSize(t.max), NEW n \in Name, NEW e \in 0 .. t.max - 1
  PROVE  \E k \in Visits(t) : Entry(t, n, k) = e
<1>1. PICK h \in Nat, s \in Nat, m \in Nat \ {0} :
        h = Hash[n] /\ s = Steps[(Hash[n] % 8) + 1] /\ m = t.max
  BY StepOf, StepOdd, SizePositive
<1>2. HasInverse(s, m)
  BY <1>1, StepOf DEF GoodSize, Coprime
<1>3. e \in 0 .. m - 1
  BY <1>1
<1>4. \E k \in 0 .. m - 1 : (h + k * s) % m = e
  BY <1>2, <1>3, Visited, ZenonT(40)
<1> QED BY <1>1, <1>4 DEF Entry, Visits

\* Where an insertion ends.
LEMMA FreeEntryFirst ==
  ASSUME NEW t, GoodSize(t.max), NEW n \in Name, Free(t) # {}
  PROVE  \E k \in Visits(t) :
           /\ FreeEntry(t, n) = Entry(t, n, k) /\ FreeEntry(t, n) \in Free(t)
           /\ \A j \in 0 .. k - 1 : t.pair[Entry(t, n, j)] # NoPair
<1> DEFINE ks == {k \in Visits(t) : t.pair[Entry(t, n, k)] = NoPair}
           c == CHOOSE k \in ks : \A j \in ks : k <= j
<1>1. t.max \in Nat \ {0}
  BY SizePositive
<1>2. PICK e \in 0 .. t.max - 1 : t.pair[e] = NoPair
  BY DEF Free
<1>3. ks # {}
  BY <1>2, ProbeAll
<1>4. ks \in SUBSET Nat
  BY <1>1 DEF Visits
<1> HIDE DEF ks
<1>5. \E k \in ks : \A j \in ks : k <= j
  BY <1>3, <1>4, Least
<1>6. c \in ks /\ \A j \in ks : c <= j
  BY <1>5
<1> HIDE DEF c
<1>7. c \in Visits(t) /\ c \in Nat /\ t.pair[Entry(t, n, c)] = NoPair
  BY <1>6, <1>1 DEF ks, Visits
<1>8. \A j \in 0 .. c - 1 : t.pair[Entry(t, n, j)] # NoPair
  BY <1>6, <1>7, <1>1 DEF ks, Visits
<1>9. FreeEntry(t, n) = Entry(t, n, c)
  BY DEF FreeEntry, c, ks
<1>10. Entry(t, n, c) \in 0 .. t.max - 1
  BY <1>7, EntryType
<1> QED BY <1>7, <1>8, <1>9, <1>10 DEF Free

LEMMA SameEntries ==
  ASSUME NEW t, NEW u, t.max = u.max
  PROVE  /\ \A n, k : Entry(t, n, k) = Entry(u, n, k)
         /\ Visits(t) = Visits(u)
  BY DEF Entry, Visits

LEMMA PropertyAtIs ==
  ASSUME NEW m, NEW t \in TableOf(m), NEW e \in 0 .. m - 1, NEW q \in Property
  PROVE  PropertyAt(t, e) = q <=> t.pair[e] = q[1] /\ (t.bit[e] <=> q[2] = 1)
<1>1. t.bit[e] \in BOOLEAN
  BY DEF TableOf
<1>2. PICK b \in Pair, i \in {0, 1} : q = <<b, i>>
  BY DEF Property
<1>3. CASE t.bit[e]
  BY <1>2, <1>3 DEF PropertyAt
<1>4. CASE ~t.bit[e]
  BY <1>2, <1>4 DEF PropertyAt
<1> QED BY <1>1, <1>3, <1>4

\* A property enters a table: what an insertion needs, and what it leaves.
LEMMA PutHolds ==
  ASSUME NEW t, NEW S, NEW nm, NEW q \in Property, NameIn(nm, q) \in Name,
         Table(t, S, nm), Free(t) # {}, q \notin S
  PROVE  LET n == NameIn(nm, q)
             u == Put(t, n, q)
             e == FreeEntry(t, n)
         IN  /\ Table(u, Added(S, q), nm)
             /\ u.max = t.max /\ u.null = t.null /\ u.unused = t.unused
             /\ Cardinality(Free(u)) = Cardinality(Free(t)) - 1
             /\ t.bit[e] => Cardinality(Nulls(u)) = Cardinality(Nulls(t))
             /\ ~t.bit[e] => Cardinality(Nulls(u)) = Cardinality(Nulls(t)) - 1
             /\ Free(t) = Nulls(t) => Free(u) = Nulls(u)
<1> DEFINE m == t.max
           n == NameIn(nm, q)
           u == Put(t, n, q)
           e == FreeEntry(t, n)
           T == Added(S, q)
<1>1. PICK k \in Visits(t) :
        /\ e = Entry(t, n, k) /\ e \in Free(t)
        /\ \A j \in 0 .. k - 1 : t.pair[Entry(t, n, j)] # NoPair
  BY FreeEntryFirst DEF Table
<1>2. m \in Nat \ {0} /\ t \in TableOf(m) /\ GoodSize(m)
  BY SizePositive DEF Table
<1>3. e \in 0 .. m - 1 /\ t.pair[e] = NoPair
  BY <1>1 DEF Free
<1>4. q[1] \in Pair /\ (q[2] = 1) \in BOOLEAN /\ q[1] # NoPair
  BY SizeAssumption DEF Property
<1> HIDE DEF e, T
<1>5. u = [t EXCEPT !.pair[e] = q[1], !.bit[e] = (q[2] = 1)]
  BY DEF Put, e
<1>0. n \in Name
  OBVIOUS
<1> HIDE DEF m, u, n
<1>6. /\ u \in TableOf(m) /\ t.max = m /\ u.max = m
      /\ u.null = t.null /\ u.unused = t.unused
      /\ u.pair[e] = q[1] /\ (u.bit[e] <=> q[2] = 1)
      /\ \A f \in 0 .. m - 1 : f # e => u.pair[f] = t.pair[f] /\ u.bit[f] = t.bit[f]
  BY <1>2, <1>3, <1>4, <1>5 DEF TableOf
<1>7. PropertyAt(u, e) = q
  BY <1>3, <1>6, PropertyAtIs
<1>8. \A f \in 0 .. m - 1 :
        f # e => PropertyAt(u, f) = PropertyAt(t, f) /\ (IsNull(u, f) <=> IsNull(t, f))
  BY <1>6 DEF PropertyAt, IsNull
<1>9. ~IsNull(u, e)
  BY <1>4, <1>6 DEF IsNull
<1>10. Free(u) = Free(t) \ {e} /\ Nulls(u) = Nulls(t) \ {e}
  BY <1>3, <1>4, <1>6, <1>8, <1>9 DEF Free, Nulls
<1>11. \A f \in 0 .. m - 1 : f # e /\ t.pair[f] # NoPair => PropertyAt(t, f) \in S
  BY <1>6 DEF Table, Holds
<1>12. \A f \in 0 .. m - 1 : u.pair[f] # NoPair => PropertyAt(u, f) \in S \cup {q}
  BY <1>6, <1>7, <1>8, <1>11
<1>13. \A f, g \in 0 .. m - 1 :
         u.pair[f] # NoPair /\ PropertyAt(u, f) = PropertyAt(u, g) => f = g
  <2> SUFFICES ASSUME NEW f \in 0 .. m - 1, NEW g \in 0 .. m - 1, u.pair[f] # NoPair,
                      PropertyAt(u, f) = PropertyAt(u, g), f # g
               PROVE  FALSE
    OBVIOUS
  <2>1. u.pair[g] # NoPair
    BY DEF PropertyAt
  <2>2. CASE f = e
    BY <2>1, <2>2, <1>6, <1>7, <1>8, <1>11
  <2>3. CASE g = e
    BY <2>1, <2>3, <1>6, <1>7, <1>8, <1>11
  <2>4. CASE f # e /\ g # e
    <3>1. t.pair[f] # NoPair /\ PropertyAt(t, f) = PropertyAt(t, g)
      BY <2>4, <1>6, <1>8
    <3> QED BY <3>1, <1>6 DEF Table, Holds
  <2> QED BY <2>2, <2>3, <2>4
<1>14. (\A x, j : Entry(u, x, j) = Entry(t, x, j)) /\ Visits(u) = Visits(t)
  BY <1>6, SameEntries
<1>15. Reaches(u, n, q)
  <2>1. \A j \in 0 .. k - 1 : ~IsNull(u, Entry(u, n, j))
    <3> SUFFICES ASSUME NEW j \in 0 .. k - 1 PROVE ~IsNull(u, Entry(t, n, j))
      BY <1>14
    <3>1. j \in Nat
      BY <1>2 DEF Visits
    <3>2. Entry(t, n, j) \in 0 .. m - 1
      BY <3>1, <1>0, <1>2, <1>6, EntryType
    <3>3. t.pair[Entry(t, n, j)] # NoPair
      BY <1>1
    <3> QED BY <3>2, <3>3, <1>3, <1>6 DEF IsNull
  <2> QED BY <2>1, <1>1, <1>4, <1>6, <1>7, <1>14 DEF Reaches
<1>16. ASSUME NEW s \in S PROVE Reaches(u, NameIn(nm, s), s)
  <2> DEFINE x == NameIn(nm, s)
  <2>0. x \in Name
    BY DEF Table, Holds
  <2> HIDE DEF x
  <2>1. PICK i \in Visits(t) :
          /\ t.pair[Entry(t, x, i)] # NoPair
          /\ PropertyAt(t, Entry(t, x, i)) = s
          /\ \A j \in 0 .. i - 1 : ~IsNull(t, Entry(t, x, j))
    BY DEF Table, Holds, Reaches, x
  <2>2. i \in Nat /\ \A j \in Nat : Entry(t, x, j) \in 0 .. m - 1
    BY <2>0, <1>2, <1>6, EntryType DEF Visits
  <2>3. \A j \in 0 .. i - 1 : ~IsNull(u, Entry(u, x, j))
    BY <2>1, <2>2, <1>8, <1>9, <1>14
  <2>4. u.pair[Entry(u, x, i)] # NoPair /\ PropertyAt(u, Entry(u, x, i)) = s
    BY <2>1, <2>2, <1>3, <1>6, <1>8, <1>14
  <2>5. Reaches(u, x, s)
    BY <2>1, <2>3, <2>4, <1>14 DEF Reaches
  <2> QED BY <2>5 DEF x
<1>17. Holds(u, T, nm)
  <2>1. \A s \in S : NameIn(nm, s) \in Name /\ s \in Property
    BY DEF Table, Holds
  <2> QED BY <2>1, <1>0, <1>6, <1>12, <1>13, <1>15, <1>16 DEF Holds, T, Added, n
<1>18. /\ IsFiniteSet(T) /\ Cardinality(T) = Cardinality(S) + 1
       /\ Cardinality(S) \in Nat
  BY FS_AddElement, FS_CardinalityType DEF Table, T, Added
<1>19. IsFiniteSet(Free(t))
  <2>1. IsFiniteSet(0 .. m - 1)
    BY <1>2, FS_Interval
  <2> QED BY <2>1, <1>6, FS_Subset DEF Free
<1>20. Cardinality(Free(u)) = Cardinality(Free(t)) - 1 /\ Cardinality(Free(t)) \in Nat
  BY <1>1, <1>10, <1>19, FS_RemoveElement, FS_CardinalityType
<1>21. Cardinality(Free(u)) + Cardinality(T) = u.max
  BY <1>6, <1>18, <1>20 DEF Table
<1>22. Table(u, T, nm)
  BY <1>2, <1>6, <1>17, <1>18, <1>21 DEF Table
<1>23. t.bit[e] => Nulls(u) = Nulls(t)
  BY <1>10 DEF Nulls, IsNull
<1>24. ~t.bit[e] => Cardinality(Nulls(u)) = Cardinality(Nulls(t)) - 1
  <2> SUFFICES ASSUME ~t.bit[e]
               PROVE  Cardinality(Nulls(t) \ {e}) = Cardinality(Nulls(t)) - 1
    BY <1>10
  <2>1. e \in Nulls(t)
    BY <1>3, <1>6 DEF Nulls, IsNull
  <2>2. IsFiniteSet(Nulls(t))
    <3>1. Nulls(t) \subseteq Free(t)
      BY DEF Nulls, Free, IsNull
    <3> QED BY <3>1, <1>19, FS_Subset
  <2> HIDE DEF Nulls
  <2> QED BY <2>1, <2>2, FS_RemoveElement
<1>25. Free(t) = Nulls(t) => Free(u) = Nulls(u)
  BY <1>10
<1> QED BY <1>6, <1>20, <1>22, <1>23, <1>24, <1>25 DEF u, e, m, n, T

\* The counters of a table do not matter for what it holds.
LEMMA SameHolds ==
  ASSUME NEW t, NEW u, NEW S, NEW nm, Table(t, S, nm), u \in TableOf(t.max),
         u.max = t.max, u.pair = t.pair, u.bit = t.bit
  PROVE  Table(u, S, nm) /\ Free(u) = Free(t) /\ Nulls(u) = Nulls(t)
<1>1. Free(u) = Free(t) /\ Nulls(u) = Nulls(t)
  BY DEF Free, Nulls, IsNull
<1>2. \A e : PropertyAt(u, e) = PropertyAt(t, e) /\ (IsNull(u, e) <=> IsNull(t, e))
  BY DEF PropertyAt, IsNull
<1>3. (\A n, k : Entry(u, n, k) = Entry(t, n, k)) /\ Visits(u) = Visits(t)
  BY SameEntries
<1>4. \A n, q : Reaches(t, n, q) => Reaches(u, n, q)
  BY <1>2, <1>3 DEF Reaches
<1>5. Holds(u, S, nm)
  BY <1>2, <1>4 DEF Table, Holds
<1> QED BY <1>1, <1>5 DEF Table

\* Nor do the names of other properties.
LEMMA SameNames ==
  ASSUME NEW t, NEW S, NEW nm, NEW mm, Table(t, S, nm),
         \A q \in S : NameIn(nm, q) = NameIn(mm, q)
  PROVE  Table(t, S, mm)
  BY DEF Table, Holds

\* The free entries and those that end a search.
LEMMA FreeCount ==
  ASSUME NEW t, GoodSize(t.max)
  PROVE  /\ IsFiniteSet(Free(t)) /\ Cardinality(Free(t)) \in Nat
         /\ IsFiniteSet(Nulls(t)) /\ Cardinality(Nulls(t)) \in Nat
         /\ Nulls(t) \subseteq Free(t) /\ Cardinality(Nulls(t)) <= Cardinality(Free(t))
         /\ Cardinality(Free(t)) > 0 => Free(t) # {}
         /\ Cardinality(Nulls(t)) > 0 => Nulls(t) # {}
<1>1. IsFiniteSet(0 .. t.max - 1)
  BY SizePositive, FS_Interval
<1>2. IsFiniteSet(Free(t)) /\ Cardinality(Free(t)) \in Nat
  BY <1>1, FS_Subset, FS_CardinalityType DEF Free
<1>3. Nulls(t) \subseteq Free(t)
  BY DEF Nulls, Free, IsNull
<1>4. /\ IsFiniteSet(Nulls(t)) /\ Cardinality(Nulls(t)) \in Nat
      /\ Cardinality(Nulls(t)) <= Cardinality(Free(t))
  BY <1>2, <1>3, FS_Subset, FS_CardinalityType
<1>5. Cardinality({}) = 0
  BY FS_EmptySet
<1> QED BY <1>2, <1>3, <1>4, <1>5

Recount(t, null, unused) == [t EXCEPT !.null = null, !.unused = unused]

LEMMA CountersChanged ==
  ASSUME NEW p, NEW T, NEW nm, Table(p, T, nm), NEW a \in Int, NEW b \in Int
  PROVE  LET u == Recount(p, a, b)
         IN  /\ Table(u, T, nm) /\ Free(u) = Free(p) /\ Nulls(u) = Nulls(p)
             /\ u.max = p.max /\ u.null = a /\ u.unused = b
<1> DEFINE u == Recount(p, a, b)
<1>1. p \in TableOf(p.max)
  BY DEF Table
<1>2. /\ u \in TableOf(p.max) /\ u.max = p.max /\ u.null = a /\ u.unused = b
      /\ u.pair = p.pair /\ u.bit = p.bit
  BY <1>1 DEF TableOf, Recount
<1> HIDE DEF u
<1>3. Table(u, T, nm) /\ Free(u) = Free(p) /\ Nulls(u) = Nulls(p)
  BY <1>2, SameHolds
<1> QED BY <1>2, <1>3 DEF u

\* An insertion keeps the counters, a NULL included.
LEMMA InsertCounted ==
  ASSUME NEW t, NEW S, NEW nm, NEW q \in Property, NameIn(nm, q) \in Name,
         Table(t, S, nm), Counted(t), t.null >= 2, q \notin S
  PROVE  LET u == With(t, NameIn(nm, q), q)
         IN  Table(u, Added(S, q), nm) /\ Counted(u) /\ u.max > 0
<1> DEFINE n == NameIn(nm, q)
           p == Put(t, n, q)
           e == FreeEntry(t, n)
           a == IF t.bit[e] THEN p.null ELSE p.null - 1
           b == p.unused - 1
           u == Recount(p, a, b)
           T == Added(S, q)
<1>1. GoodSize(t.max) /\ t.max > 0
  BY SizePositive DEF Table
<1>2. /\ Cardinality(Free(t)) \in Nat /\ Cardinality(Nulls(t)) \in Nat
      /\ Cardinality(Nulls(t)) <= Cardinality(Free(t))
      /\ Cardinality(Free(t)) > 0 => Free(t) # {}
  BY <1>1, FreeCount
<1>3. Free(t) # {} /\ t.null \in Nat /\ t.unused \in Nat /\ t.max \in Nat
  BY <1>1, <1>2, SizePositive DEF Counted
<1>4. /\ Table(p, T, nm)
      /\ p.max = t.max /\ p.null = t.null /\ p.unused = t.unused
      /\ Cardinality(Free(p)) = Cardinality(Free(t)) - 1
      /\ t.bit[e] => Cardinality(Nulls(p)) = Cardinality(Nulls(t))
      /\ ~t.bit[e] => Cardinality(Nulls(p)) = Cardinality(Nulls(t)) - 1
  BY <1>3, PutHolds
<1>5. With(t, n, q) = u
  BY DEF With, Recount
<1> HIDE DEF p, e, n, T
<1>6. a \in Int /\ b \in Int
  BY <1>3, <1>4
<1>7. a = Cardinality(Nulls(p)) /\ a > 0
  BY <1>3, <1>4 DEF Counted
<1>8. b = Cardinality(Free(p)) /\ b < t.max
  BY <1>3, <1>4 DEF Counted
<1> HIDE DEF a, b
<1>9. /\ Table(u, T, nm) /\ Free(u) = Free(p) /\ Nulls(u) = Nulls(p)
      /\ u.max = p.max /\ u.null = a /\ u.unused = b
  BY <1>4, <1>6, CountersChanged
<1> HIDE DEF u
<1>10. Table(u, T, nm) /\ Counted(u) /\ u.max > 0
  BY <1>1, <1>4, <1>7, <1>8, <1>9 DEF Counted
<1> QED BY <1>5, <1>10 DEF n, T

\* A deletion leaves an entry over which searches pass.
LEMMA WithoutHolds ==
  ASSUME NEW t, NEW S, NEW nm, NEW q \in S, Table(t, S, nm)
  PROVE  LET u == Without(t, q)
         IN  /\ Table(u, Removed(S, q), nm)
             /\ u.max = t.max /\ u.null = t.null /\ u.unused = t.unused + 1
             /\ Cardinality(Free(u)) = Cardinality(Free(t)) + 1
             /\ Nulls(u) = Nulls(t)
<1> DEFINE m == t.max
           u == Without(t, q)
           e == CHOOSE f \in 0 .. t.max - 1 : PropertyAt(t, f) = q
           x == NameIn(nm, q)
<1>1. m \in Nat \ {0} /\ t \in TableOf(m) /\ GoodSize(m)
  BY SizePositive DEF Table
<1>2. q \in Property /\ x \in Name /\ Reaches(t, x, q)
  BY DEF Table, Holds
<1>3. q[1] \in Pair /\ q[1] # NoPair
  BY <1>2, SizeAssumption DEF Property
<1> HIDE DEF x
<1>4. \E f \in 0 .. t.max - 1 : PropertyAt(t, f) = q
  <2>1. PICK k \in Visits(t) : PropertyAt(t, Entry(t, x, k)) = q
    BY <1>2 DEF Reaches
  <2>2. k \in Nat
    BY <1>1 DEF Visits
  <2> QED BY <2>1, <2>2, <1>1, <1>2, EntryType
<1>5. e \in 0 .. m - 1 /\ PropertyAt(t, e) = q
  BY <1>4
<1>0. u = [t EXCEPT !.unused = @ + 1, !.pair[e] = NoPair, !.bit[e] = TRUE]
  BY DEF Without
<1> HIDE DEF m, u, e
<1>6. u = [max |-> m, null |-> t.null, unused |-> t.unused + 1,
           pair |-> [t.pair EXCEPT ![e] = NoPair], bit |-> [t.bit EXCEPT ![e] = TRUE]]
  BY <1>0, <1>1 DEF TableOf
<1>7. t.pair[e] # NoPair
  BY <1>1, <1>2, <1>3, <1>5, PropertyAtIs
<1>8. /\ u \in TableOf(m) /\ t.max = m /\ u.max = m
      /\ u.null = t.null /\ u.unused = t.unused + 1
      /\ u.pair[e] = NoPair /\ u.bit[e]
      /\ \A f \in 0 .. m - 1 : f # e => u.pair[f] = t.pair[f] /\ u.bit[f] = t.bit[f]
  <2>1. t.max = m
    BY DEF m
  <2> QED BY <2>1, <1>1, <1>5, <1>6 DEF TableOf
<1>9. \A f \in 0 .. m - 1 :
        f # e => PropertyAt(u, f) = PropertyAt(t, f) /\ (IsNull(u, f) <=> IsNull(t, f))
  BY <1>8 DEF PropertyAt, IsNull
<1>10. ~IsNull(u, e) /\ ~IsNull(t, e)
  BY <1>7, <1>8 DEF IsNull
<1>11. Free(u) = Free(t) \cup {e} /\ e \notin Free(t) /\ Nulls(u) = Nulls(t)
  BY <1>5, <1>7, <1>8, <1>9, <1>10 DEF Free, Nulls
<1>12. \A f, g \in 0 .. m - 1 :
         t.pair[f] # NoPair /\ PropertyAt(t, f) = PropertyAt(t, g) => f = g
  BY <1>8 DEF Table, Holds
<1>13. \A f \in 0 .. m - 1 : t.pair[f] # NoPair => PropertyAt(t, f) \in S
  BY <1>8 DEF Table, Holds
<1>14. \A f \in 0 .. m - 1 : u.pair[f] # NoPair => PropertyAt(u, f) \in S \ {q}
  BY <1>5, <1>8, <1>9, <1>12, <1>13
<1>15. \A f, g \in 0 .. m - 1 :
         u.pair[f] # NoPair /\ PropertyAt(u, f) = PropertyAt(u, g) => f = g
  <2> SUFFICES ASSUME NEW f \in 0 .. m - 1, NEW g \in 0 .. m - 1, u.pair[f] # NoPair,
                      PropertyAt(u, f) = PropertyAt(u, g)
               PROVE  f = g
    OBVIOUS
  <2>1. u.pair[g] # NoPair
    BY DEF PropertyAt
  <2>2. f # e /\ g # e
    BY <2>1, <1>8
  <2> QED BY <2>2, <1>8, <1>9, <1>12
<1>16. (\A z, j : Entry(u, z, j) = Entry(t, z, j)) /\ Visits(u) = Visits(t)
  BY <1>8, SameEntries
<1>17. ASSUME NEW s \in S \ {q}
       PROVE  NameIn(nm, s) \in Name /\ Reaches(u, NameIn(nm, s), s)
  <2> DEFINE z == NameIn(nm, s)
  <2>0. z \in Name /\ Reaches(t, z, s)
    BY DEF Table, Holds
  <2> HIDE DEF z
  <2>1. PICK i \in Visits(t) :
          /\ t.pair[Entry(t, z, i)] # NoPair
          /\ PropertyAt(t, Entry(t, z, i)) = s
          /\ \A j \in 0 .. i - 1 : ~IsNull(t, Entry(t, z, j))
    BY <2>0 DEF Reaches
  <2>2. i \in Nat /\ \A j \in Nat : Entry(t, z, j) \in 0 .. m - 1
    BY <2>0, <1>1, <1>8, EntryType DEF Visits
  <2>3. \A j \in 0 .. i - 1 : ~IsNull(u, Entry(u, z, j))
    BY <2>1, <2>2, <1>9, <1>10, <1>16
  <2>4. u.pair[Entry(u, z, i)] # NoPair /\ PropertyAt(u, Entry(u, z, i)) = s
    BY <2>1, <2>2, <1>5, <1>8, <1>9, <1>16
  <2>5. Reaches(u, z, s)
    BY <2>1, <2>3, <2>4, <1>16 DEF Reaches
  <2> QED BY <2>0, <2>5 DEF z
<1>18. Holds(u, S \ {q}, nm)
  <2>1. S \ {q} \subseteq Property
    BY DEF Table, Holds
  <2> QED BY <2>1, <1>8, <1>14, <1>15, <1>17 DEF Holds
<1>19. /\ IsFiniteSet(S \ {q}) /\ Cardinality(S \ {q}) = Cardinality(S) - 1
       /\ Cardinality(S) \in Nat
  BY FS_RemoveElement, FS_CardinalityType DEF Table
<1>20. Cardinality(Free(u)) = Cardinality(Free(t)) + 1 /\ Cardinality(Free(t)) \in Nat
  <2>1. IsFiniteSet(Free(t)) /\ Cardinality(Free(t)) \in Nat
    BY <1>1, <1>8, FreeCount
  <2> QED BY <2>1, <1>11, FS_AddElement
<1>21. Cardinality(Free(u)) + Cardinality(S \ {q}) = u.max
  BY <1>8, <1>19, <1>20 DEF Table
<1>22. Table(u, Removed(S, q), nm)
  BY <1>1, <1>8, <1>18, <1>19, <1>21 DEF Table, Removed
<1> QED BY <1>8, <1>11, <1>20, <1>22 DEF u, m

\* A deletion that does not ask for a new table keeps the counters.
LEMMA DeleteCounted ==
  ASSUME NEW t, NEW S, NEW nm, NEW q \in S, Table(t, S, nm), Counted(t), ~MostlyUnused(t)
  PROVE  LET u == Without(t, q)
         IN  Table(u, Removed(S, q), nm) /\ Counted(u) /\ u.max > 0
<1> DEFINE u == Without(t, q)
<1>1. /\ Table(u, Removed(S, q), nm)
      /\ u.max = t.max /\ u.null = t.null /\ u.unused = t.unused + 1
      /\ Cardinality(Free(u)) = Cardinality(Free(t)) + 1
      /\ Nulls(u) = Nulls(t)
  BY WithoutHolds
<1> HIDE DEF u
<1>2. GoodSize(t.max)
  BY DEF Table
<1>3. t.max \in Nat \ {0} /\ t.max >= 2 /\ Cardinality(Free(t)) \in Nat
  BY <1>2, SizePositive, FreeCount
<1>4. t.unused + 1 <= (3 * t.max) \div 4 /\ t.unused \in Nat
  BY <1>3 DEF MostlyUnused, Counted
<1>5. (3 * t.max) \div 4 < t.max
  BY <1>3
<1>6. u.unused < u.max
  BY <1>1, <1>3, <1>4, <1>5
<1>7. Counted(u)
  BY <1>1, <1>6 DEF Counted
<1> QED BY <1>1, <1>3, <1>7 DEF u

\* A new table.
LEMMA EmptyHolds ==
  ASSUME NEW m, GoodSize(m), NEW c \in Nat, 0 < c, c < m, NEW nm
  PROVE  LET t == EmptyTable(m, c)
         IN  Table(t, {}, nm) /\ Expected(t, c) /\ t.max > 0
<1> DEFINE t == EmptyTable(m, c)
<1>1. m \in Nat \ {0}
  BY SizePositive
<1>2. /\ t.max = m /\ t.null = m - c /\ t.unused = m - c
      /\ \A e \in 0 .. m - 1 : t.pair[e] = NoPair /\ ~t.bit[e]
  BY DEF EmptyTable
<1>3. t \in TableOf(m)
  BY <1>1 DEF TableOf, EmptyTable
<1> HIDE DEF t
<1>4. Free(t) = 0 .. m - 1 /\ Nulls(t) = 0 .. m - 1
  BY <1>2 DEF Free, Nulls, IsNull
<1>5. Cardinality(Free(t)) = m
  BY <1>1, <1>4, FS_Interval
<1>6. IsFiniteSet({}) /\ Cardinality({}) = 0
  BY FS_EmptySet
<1>7. Holds(t, {}, nm)
  <2>1. \A e, f \in 0 .. t.max - 1 :
          t.pair[e] # NoPair /\ PropertyAt(t, e) = PropertyAt(t, f) => e = f
    BY <1>2
  <2>2. \A e \in 0 .. t.max - 1 : t.pair[e] # NoPair => PropertyAt(t, e) \in {}
    BY <1>2
  <2> QED BY <2>1, <2>2 DEF Holds
<1>8. Table(t, {}, nm)
  BY <1>1, <1>2, <1>3, <1>5, <1>6, <1>7 DEF Table
<1>9. Expected(t, c)
  BY <1>2, <1>4 DEF Expected
<1> QED BY <1>1, <1>2, <1>8, <1>9 DEF t

\* A search of a table finds what the table holds, and ends.
LEMMA FindExact ==
  ASSUME NEW t, NEW S, Table(t, S, names), Nulls(t) # {}, NEW n \in Name,
         \A q, s \in S : NameOf(q) = NameOf(s) => q = s
  PROVE  HashmapFind(t, n) = {q \in S : NameOf(q) = n}
<1> DEFINE At(k) == Entry(t, n, k)
           Stop(k) == \/ IsNull(t, At(k))
                      \/ t.pair[At(k)] # NoPair /\ NameOf(PropertyAt(t, At(k))) = n
           stops == {k \in Visits(t) : Stop(k)}
           c == CHOOSE k \in stops : \A j \in stops : k <= j
           e == Entry(t, n, c)
<1>1. t.max \in Nat \ {0} /\ GoodSize(t.max) /\ Holds(t, S, names)
  BY SizePositive DEF Table
<1>2. stops \in SUBSET Nat
  BY <1>1 DEF Visits
<1>3. stops # {}
  <2>1. PICK f \in 0 .. t.max - 1 : IsNull(t, f)
    BY DEF Nulls
  <2>2. PICK k \in Visits(t) : Entry(t, n, k) = f
    BY <1>1, ProbeAll
  <2> QED BY <2>1, <2>2
<1>4. HashmapFind(t, n) = IF stops = {} THEN {<<NoPair, 0>>}
                          ELSE IF IsNull(t, e) THEN {} ELSE {PropertyAt(t, e)}
  BY DEF HashmapFind
<1>5. \A k \in Visits(t) : k \in stops <=> Stop(k)
  OBVIOUS
<1> HIDE DEF stops
<1>6. \E k \in stops : \A j \in stops : k <= j
  BY <1>2, <1>3, Least
<1>7. c \in stops /\ \A j \in stops : c <= j
  BY <1>6
<1> HIDE DEF c
<1>8. c \in Visits(t) /\ c \in Nat /\ Stop(c)
  BY <1>7, <1>1 DEF stops, Visits
<1>9. e \in 0 .. t.max - 1
  BY <1>8, <1>1, EntryType
<1> HIDE DEF e
<1>10. CASE IsNull(t, e)
  <2>1. HashmapFind(t, n) = {}
    BY <1>3, <1>4, <1>10
  <2>2. ASSUME NEW q \in S, NameOf(q) = n PROVE FALSE
    <3>1. Reaches(t, n, q)
      BY <1>1, <2>2 DEF Holds, NameOf
    <3>2. PICK k \in Visits(t) :
            /\ t.pair[Entry(t, n, k)] # NoPair
            /\ PropertyAt(t, Entry(t, n, k)) = q
            /\ \A j \in 0 .. k - 1 : ~IsNull(t, Entry(t, n, j))
      BY <3>1 DEF Reaches
    <3>3. k \in stops
      BY <3>2, <2>2, <1>5
    <3>4. c <= k /\ k \in Nat
      BY <3>3, <1>1, <1>7 DEF Visits
    <3>5. c # k
      BY <3>2, <1>10 DEF IsNull, e
    <3>6. c \in 0 .. k - 1
      BY <3>4, <3>5, <1>8
    <3> QED BY <3>2, <3>6, <1>10 DEF e
  <2> QED BY <2>1, <2>2
<1>11. CASE ~IsNull(t, e)
  <2>1. HashmapFind(t, n) = {PropertyAt(t, e)}
    BY <1>3, <1>4, <1>11
  <2>2. t.pair[e] # NoPair /\ NameOf(PropertyAt(t, e)) = n
    BY <1>8, <1>11 DEF e
  <2>3. PropertyAt(t, e) \in S
    BY <2>2, <1>1, <1>9 DEF Holds
  <2> HIDE DEF Stop, At
  <2> QED BY <2>1, <2>2, <2>3
<1> QED BY <1>10, <1>11

-----------------------------------------------------------------------------
(* The properties of a list.                                               *)

LEMMA NameNotDeleted == \A n \in Name : n # Deleted
  BY SizeAssumption DEF Deleted

LEMMA MembersOf ==
  ASSUME NEW l \in Seq(Pair)
  PROVE  /\ Members(l) \subseteq Pair /\ IsFiniteSet(Members(l))
         /\ \A b : b \in Members(l) <=> \E i \in 1 .. Len(l) : l[i] = b
         /\ \A i \in 1 .. Len(l) : l[i] \in Members(l)
<1>1. Len(l) \in Nat /\ DOMAIN l = 1 .. Len(l) /\ \A i \in 1 .. Len(l) : l[i] \in Pair
  BY LenProperties, ElementOfSeq
<1>2. \A b : b \in Members(l) <=> \E i \in 1 .. Len(l) : l[i] = b
  BY <1>1 DEF Members
<1>3. Members(l) \subseteq Pair
  BY <1>1, <1>2
<1>4. IsFiniteSet(1 .. Len(l))
  BY <1>1, FS_Interval
<1>5. l \in Surjection(1 .. Len(l), Members(l))
  <2>1. l \in [1 .. Len(l) -> Members(l)]
    BY <1>1, <1>2
  <2> QED BY <2>1, <1>2 DEF Surjection
<1>6. IsFiniteSet(Members(l))
  BY <1>4, <1>5, FS_Surjection
<1> QED BY <1>2, <1>3, <1>6

LEMMA PropertiesOf ==
  ASSUME NEW l \in Seq(Pair), NEW nm \in NameTable
  PROVE  /\ Properties(l, nm) \subseteq Property /\ IsFiniteSet(Properties(l, nm))
         /\ Cardinality(Properties(l, nm)) \in Nat
         /\ \A q \in Properties(l, nm) : NameIn(nm, q) \in Name /\ q[1] \in Members(l)
         /\ \A q \in Property :
              q \in Properties(l, nm) <=> q[1] \in Members(l) /\ NameIn(nm, q) # Deleted
<1>1. Members(l) \subseteq Pair /\ IsFiniteSet(Members(l))
  BY MembersOf
<1>2. \A q \in Property : NameIn(nm, q) \in Name \cup {Deleted}
  BY DEF Property, NameTable, NameIn
<1>3. Properties(l, nm) \subseteq Property
  BY <1>1 DEF Properties, Property
<1>4. \A q \in Property :
        q \in Properties(l, nm) <=> q[1] \in Members(l) /\ NameIn(nm, q) # Deleted
  BY DEF Properties, Property
<1>5. IsFiniteSet(Properties(l, nm))
  <2>1. IsFiniteSet({0, 1})
    <3>1. IsFiniteSet({1})
      BY FS_Singleton
    <3>2. IsFiniteSet({1} \cup {0})
      BY <3>1, FS_AddElement
    <3>3. {0, 1} = {1} \cup {0}
      OBVIOUS
    <3> QED BY <3>2, <3>3
  <2>2. IsFiniteSet(Members(l) \X {0, 1})
    BY <1>1, <2>1, FS_Product
  <2> QED BY <2>2, FS_Subset DEF Properties
<1>6. \A q \in Properties(l, nm) : NameIn(nm, q) \in Name /\ q[1] \in Members(l)
  BY <1>2, <1>3, <1>4
<1> QED BY <1>3, <1>4, <1>5, <1>6, FS_CardinalityType

\* A pair goes to the front of a list.
LEMMA MembersFront ==
  ASSUME NEW l \in Seq(Pair), NEW b \in Pair
  PROVE  LET f == <<b>> \o l
         IN  /\ f \in Seq(Pair) /\ f # <<>> /\ Head(f) = b /\ Len(f) = Len(l) + 1
             /\ f[1] = b /\ \A i \in 1 .. Len(l) : f[i + 1] = l[i]
             /\ Members(f) = Members(l) \cup {b}
<1> DEFINE f == <<b>> \o l
<1>1. <<b>> \in Seq(Pair) /\ Len(<<b>>) = 1 /\ <<b>>[1] = b
  OBVIOUS
<1>2. /\ f \in Seq(Pair) /\ Len(f) = 1 + Len(l)
      /\ \A i \in 1 .. 1 + Len(l) : f[i] = IF i <= 1 THEN <<b>>[i] ELSE l[i - 1]
  BY <1>1, ConcatProperties
<1>3. Len(l) \in Nat
  BY LenProperties
<1> HIDE DEF f
<1>4. f[1] = b /\ \A i \in 1 .. Len(l) : f[i + 1] = l[i]
  BY <1>1, <1>2, <1>3
<1>5. f # <<>> /\ Head(f) = f[1]
  BY <1>2, <1>3, EmptyLen
<1>6. Members(f) = Members(l) \cup {b}
  <2>1. ASSUME NEW x \in Members(f) PROVE x \in Members(l) \cup {b}
    <3>1. PICK i \in 1 .. Len(l) + 1 : f[i] = x
      BY <1>2, <1>3, MembersOf
    <3>2. CASE i = 1
      BY <3>1, <3>2, <1>4
    <3>3. CASE i # 1
      <4>1. i - 1 \in 1 .. Len(l) /\ f[(i - 1) + 1] = l[i - 1]
        BY <3>3, <1>3, <1>4
      <4>2. f[i] = l[i - 1]
        BY <4>1, <1>3
      <4> QED BY <4>1, <4>2, <3>1, MembersOf
    <3> QED BY <3>2, <3>3
  <2>2. b \in Members(f)
    <3>1. 1 \in 1 .. Len(f)
      BY <1>2, <1>3
    <3> QED BY <3>1, <1>2, <1>4, MembersOf
  <2>3. ASSUME NEW x \in Members(l) PROVE x \in Members(f)
    <3>1. PICK i \in 1 .. Len(l) : l[i] = x
      BY MembersOf
    <3>2. i + 1 \in 1 .. Len(f) /\ f[i + 1] = x
      BY <3>1, <1>2, <1>3, <1>4
    <3> QED BY <3>2, <1>2, MembersOf
  <2> QED BY <2>1, <2>2, <2>3
<1> QED BY <1>2, <1>3, <1>4, <1>5, <1>6 DEF f

\* A pair leaves a list on which it is once.
LEMMA MembersUnlink ==
  ASSUME NEW l \in Seq(Pair), NEW k \in 1 .. Len(l),
         \A i, j \in 1 .. Len(l) : l[i] = l[j] => i = j
  PROVE  LET u == Unlink(l, k)
         IN  /\ u \in Seq(Pair) /\ Len(u) = Len(l) - 1
             /\ \A i \in 1 .. Len(u) : u[i] = IF i < k THEN l[i] ELSE l[i + 1]
             /\ Members(u) = Members(l) \ {l[k]}
<1> DEFINE u == Unlink(l, k)
           n == Len(l)
<1>1. n \in Nat /\ n > 0 /\ \A i \in 1 .. n : l[i] \in Pair
  BY LenProperties, ElementOfSeq
<1> HIDE DEF n
<1>0. n = Len(l)
  BY DEF n
<1>2. u = [j \in 1 .. n - 1 |-> IF j < k THEN l[j] ELSE l[j + 1]]
  BY <1>0 DEF Unlink
<1> HIDE DEF u
<1>3. \A j \in 1 .. n - 1 : u[j] \in Pair
  BY <1>0, <1>1, <1>2
<1>4. u \in Seq(Pair) /\ Len(u) = n - 1
  <2>1. n - 1 \in Nat /\ DOMAIN u = 1 .. n - 1
    BY <1>1, <1>2
  <2>2. u \in [1 .. n - 1 -> Pair]
    BY <1>2, <1>3
  <2> QED BY <2>1, <2>2, IsASeq
<1>5. \A i \in 1 .. Len(u) : u[i] = IF i < k THEN l[i] ELSE l[i + 1]
  BY <1>2, <1>4
<1>6. Members(u) = Members(l) \ {l[k]}
  <2>1. ASSUME NEW x \in Members(u) PROVE x \in Members(l) \ {l[k]}
    <3>1. PICK i \in 1 .. n - 1 : u[i] = x
      BY <1>4, MembersOf
    <3>2. PICK j \in 1 .. n : j # k /\ l[j] = x
      <4>1. i \in 1 .. n /\ i + 1 \in 1 .. n /\ u[i] = IF i < k THEN l[i] ELSE l[i + 1]
        BY <1>1, <1>4, <1>5
      <4>2. CASE i < k
        BY <4>1, <4>2, <3>1
      <4>3. CASE ~(i < k)
        BY <4>1, <4>3, <3>1
      <4> QED BY <4>2, <4>3
    <3> QED BY <3>2, <1>0, MembersOf
  <2>2. ASSUME NEW x \in Members(l), x # l[k] PROVE x \in Members(u)
    <3>1. PICK i \in 1 .. n : l[i] = x
      BY <1>0, MembersOf
    <3>2. i # k
      BY <2>2, <3>1
    <3>3. \E j \in 1 .. n - 1 : u[j] = x
      <4>1. CASE i < k
        BY <4>1, <3>1, <1>0, <1>1, <1>4, <1>5
      <4>2. CASE i > k
        <5>1. i - 1 \in 1 .. n - 1 /\ ~(i - 1 < k) /\ (i - 1) + 1 = i
          BY <4>2, <1>0, <1>1
        <5> QED BY <5>1, <3>1, <1>4, <1>5
      <4> QED BY <4>1, <4>2, <3>2, <1>0, <1>1
    <3> QED BY <3>3, <1>4, MembersOf
  <2> QED BY <2>1, <2>2
<1> QED BY <1>0, <1>4, <1>5, <1>6 DEF u

\* The properties of a list when one gets a name, or some lose theirs.
Given(nm, q, n) == [nm EXCEPT ![q[1]][q[2]] = n]

LEMMA NameGiven ==
  ASSUME NEW l \in Seq(Pair), NEW nm \in NameTable, NEW q \in Property,
         q[1] \in Members(l), NameIn(nm, q) = Deleted, NEW n \in Name
  PROVE  LET mm == Given(nm, q, n)
         IN  /\ mm \in NameTable /\ NameIn(mm, q) = n
             /\ \A s \in Property : s # q => NameIn(mm, s) = NameIn(nm, s)
             /\ q \notin Properties(l, nm)
             /\ Properties(l, mm) = Added(Properties(l, nm), q)
<1> DEFINE mm == Given(nm, q, n)
<1>1. PICK b \in Pair, i \in {0, 1} : q = <<b, i>>
  BY DEF Property
<1>2. mm = [nm EXCEPT ![b][i] = n]
  BY <1>1 DEF Given
<1> HIDE DEF mm
<1>3. mm \in NameTable
  BY <1>2 DEF NameTable
<1>4. NameIn(mm, q) = n
  BY <1>1, <1>2 DEF NameTable, NameIn
<1>5. \A s \in Property : s # q => NameIn(mm, s) = NameIn(nm, s)
  <2> SUFFICES ASSUME NEW c \in Pair, NEW j \in {0, 1}, <<c, j>> # q
               PROVE  mm[c][j] = nm[c][j]
    BY DEF Property, NameIn
  <2> QED BY <1>1, <1>2 DEF NameTable
<1>6. n # Deleted
  BY NameNotDeleted
<1>7. Properties(l, nm) \subseteq Property /\ Properties(l, mm) \subseteq Property
  BY <1>3, PropertiesOf
<1>8. q \notin Properties(l, nm)
  BY PropertiesOf
<1>9. q \in Properties(l, mm)
  BY <1>3, <1>4, <1>6, PropertiesOf
<1>10. \A s \in Property : s # q => (s \in Properties(l, mm) <=> s \in Properties(l, nm))
  BY <1>3, <1>5, PropertiesOf
<1>11. Properties(l, mm) = Added(Properties(l, nm), q)
  BY <1>7, <1>9, <1>10 DEF Added
<1> QED BY <1>3, <1>4, <1>5, <1>8, <1>11 DEF mm

GivenPair(nm, b, n) == [nm EXCEPT ![b] = [FreePair EXCEPT ![1] = n]]

Front(b, l) == <<b>> \o l

LEMMA PairAdded ==
  ASSUME NEW l \in Seq(Pair), NEW nm \in NameTable, NEW b \in Pair, b \notin Members(l),
         NEW n \in Name
  PROVE  LET mm == GivenPair(nm, b, n)
             f == Front(b, l)
         IN  /\ mm \in NameTable /\ <<b, 1>> \in Property /\ NameIn(mm, <<b, 1>>) = n
             /\ mm[b][0] = Deleted
             /\ \A q \in Property : q[1] # b => NameIn(mm, q) = NameIn(nm, q)
             /\ <<b, 1>> \notin Properties(l, nm)
             /\ Properties(f, mm) = Added(Properties(l, nm), <<b, 1>>)
<1> DEFINE mm == GivenPair(nm, b, n)
           f == Front(b, l)
           q0 == <<b, 1>>
<1>1. q0 \in Property /\ q0[1] = b /\ q0[2] = 1
  BY DEF Property
<1>2. mm \in NameTable /\ mm[b][0] = Deleted /\ mm[b][1] = n
  BY DEF NameTable, FreePair, GivenPair
<1>3. NameIn(mm, q0) = n
  BY <1>1, <1>2 DEF NameIn
<1>4. \A q \in Property : q[1] # b => NameIn(mm, q) = NameIn(nm, q)
  BY DEF Property, NameIn, NameTable, GivenPair
<1>5. n # Deleted
  BY NameNotDeleted
<1>6. f \in Seq(Pair) /\ Members(f) = Members(l) \cup {b}
  BY MembersFront DEF Front
<1>7. \A q \in Property : q[1] = b => q = q0 \/ NameIn(mm, q) = Deleted
  <2> SUFFICES ASSUME NEW j \in {0, 1}, j # 1 PROVE mm[b][j] = Deleted
    BY DEF Property, NameIn
  <2> QED BY <1>2
<1> HIDE DEF mm, q0, f
<1>8. Properties(l, nm) \subseteq Property /\ Properties(f, mm) \subseteq Property
  BY <1>2, <1>6, PropertiesOf
<1>9. q0 \notin Properties(l, nm)
  BY <1>1, PropertiesOf
<1>10. q0 \in Properties(f, mm)
  BY <1>1, <1>2, <1>3, <1>5, <1>6, PropertiesOf
<1>11. \A q \in Property : q # q0 => (q \in Properties(f, mm) <=> q \in Properties(l, nm))
  <2> SUFFICES ASSUME NEW q \in Property, q # q0
               PROVE  q \in Properties(f, mm) <=> q \in Properties(l, nm)
    OBVIOUS
  <2>1. q \in Properties(l, nm) <=> q[1] \in Members(l) /\ NameIn(nm, q) # Deleted
    BY PropertiesOf
  <2>2. q \in Properties(f, mm) <=> q[1] \in Members(f) /\ NameIn(mm, q) # Deleted
    BY <1>2, <1>6, PropertiesOf
  <2>3. CASE q[1] = b
    BY <2>1, <2>2, <2>3, <1>7
  <2>4. CASE q[1] # b
    BY <2>1, <2>2, <2>4, <1>4, <1>6
  <2> QED BY <2>3, <2>4
<1>12. Properties(f, mm) = Added(Properties(l, nm), q0)
  BY <1>1, <1>8, <1>10, <1>11 DEF Added
<1> QED BY <1>1, <1>2, <1>3, <1>4, <1>9, <1>12 DEF mm, q0, f

LEMMA NamesLost ==
  ASSUME names \in NameTable, NEW props \in SUBSET Property, NEW l \in Seq(Pair)
  PROVE  LET mm == NamesWithout(props)
         IN  /\ mm \in NameTable
             /\ \A q \in props : NameIn(mm, q) = Deleted
             /\ \A q \in Property \ props : NameIn(mm, q) = NameOf(q)
             /\ Properties(l, mm) = Properties(l, names) \ props
<1> DEFINE mm == NamesWithout(props)
<1>1. mm \in NameTable
  BY DEF NamesWithout, NameTable
<1>2. \A b \in Pair, i \in {0, 1} :
        mm[b][i] = IF <<b, i>> \in props THEN Deleted ELSE names[b][i]
  BY DEF NamesWithout
<1> HIDE DEF mm
<1>3. \A q \in Property : NameIn(mm, q) = IF q \in props THEN Deleted ELSE NameOf(q)
  <2> SUFFICES ASSUME NEW q \in Property
               PROVE  NameIn(mm, q) = IF q \in props THEN Deleted ELSE NameOf(q)
    OBVIOUS
  <2>1. q[1] \in Pair /\ q[2] \in {0, 1} /\ q = <<q[1], q[2]>>
    BY DEF Property
  <2> QED BY <2>1, <1>2 DEF NameIn, NameOf
<1>4. \A q \in Property : q \in Properties(l, mm) <=> q \in Properties(l, names) /\ q \notin props
  BY <1>1, <1>3, PropertiesOf DEF NameOf
<1>5. Properties(l, mm) \subseteq Property /\ Properties(l, names) \subseteq Property
  BY <1>1, PropertiesOf
<1> QED BY <1>1, <1>3, <1>4, <1>5 DEF mm

\* A pair without properties leaves a list.
LEMMA UnlinkProperties ==
  ASSUME NEW l \in Seq(Pair), NEW nm \in NameTable, NEW k \in 1 .. Len(l),
         \A i, j \in 1 .. Len(l) : l[i] = l[j] => i = j,
         nm[l[k]] = FreePair
  PROVE  Properties(Unlink(l, k), nm) = Properties(l, nm)
<1> DEFINE u == Unlink(l, k)
<1>1. u \in Seq(Pair) /\ Members(u) = Members(l) \ {l[k]}
  BY MembersUnlink
<1> HIDE DEF u
<1>2. \A q \in Property : q[1] = l[k] => NameIn(nm, q) = Deleted
  BY DEF Property, NameIn, FreePair
<1>3. \A q \in Property : q \in Properties(u, nm) <=> q \in Properties(l, nm)
  BY <1>1, <1>2, PropertiesOf
<1>4. Properties(u, nm) \subseteq Property /\ Properties(l, nm) \subseteq Property
  BY <1>1, PropertiesOf
<1> QED BY <1>3, <1>4 DEF u

-----------------------------------------------------------------------------
(* What the invariant gives.                                               *)

LEMMA SetOf ==
  ASSUME Typed, NEW o \in Object
  PROVE  /\ PropertySet(o) \subseteq Property /\ IsFiniteSet(PropertySet(o))
         /\ Cardinality(PropertySet(o)) \in Nat
         /\ list[o] \in Seq(Pair)
         /\ \A q \in PropertySet(o) : NameOf(q) \in Name /\ q[1] \in Members(list[o])
         /\ \A q \in Property :
              q \in PropertySet(o) <=> q[1] \in Members(list[o]) /\ NameOf(q) # Deleted
<1>1. list[o] \in Seq(Pair) /\ names \in NameTable
  BY DEF Typed
<1> QED BY <1>1, PropertiesOf DEF PropertySet, NameOf

\* A pair is on one list.
LEMMA OneList ==
  ASSUME Typed, PairsApart, NEW o \in Object, NEW p \in Object, NEW b,
         b \in Members(list[o]), b \in Members(list[p])
  PROVE  o = p
<1>1. list[o] \in Seq(Pair) /\ list[p] \in Seq(Pair)
  BY DEF Typed
<1>2. PICK i \in 1 .. Len(list[o]) : list[o][i] = b
  BY <1>1, MembersOf
<1>3. PICK j \in 1 .. Len(list[p]) : list[p][j] = b
  BY <1>1, MembersOf
<1> QED BY <1>2, <1>3 DEF PairsApart

LEMMA OneOwner ==
  ASSUME Typed, PairsApart, NEW o \in Object, NEW p \in Object, NEW q,
         q \in PropertySet(o), q \in PropertySet(p)
  PROVE  o = p
  BY SetOf, OneList

LEMMA RowType ==
  ASSUME NEW o \in Object, NEW n \in Name
  PROVE  RowIndex(o, n) \in 0 .. Rows - 1
<1>1. PICK a \in Nat, r \in Nat \ {0} : a = o + n /\ r = Rows
  BY SizeAssumption
<1>2. a % r \in 0 .. r - 1
  OBVIOUS
<1> QED BY <1>1, <1>2 DEF RowIndex

LEMMA EntryTyped ==
  ASSUME Typed, NEW r \in 0 .. Rows - 1, NEW k \in 1 .. RowLength, lcache[r][k] # NoEntry
  PROVE  lcache[r][k][1] \in Object /\ lcache[r][k][2] \in Name /\ lcache[r][k][3] \in Property
<1>1. lcache[r][k] \in CacheEntry
  <2>1. lcache \in [0 .. Rows - 1 -> [1 .. RowLength -> CacheEntry]]
    BY DEF Typed
  <2>2. lcache[r] \in [1 .. RowLength -> CacheEntry]
    BY <2>1
  <2> QED BY <2>2
<1>2. lcache[r][k] \in Object \X Name \X Property
  BY <1>1 DEF CacheEntry
<1> QED BY <1>2

LEMMA InvImplies ==
  ASSUME Inv
  PROVE  LookupExact /\ TablesExact
<1> USE DEF Inv, CacheOK
<1>1. SUFFICES ASSUME work = Idle PROVE LookupExact /\ TablesExact
  BY DEF LookupExact, TablesExact
<1>2. ASSUME NEW o \in Object, hashmap[o] # NoMap
      PROVE  Table(hashmap[o], PropertySet(o), names) /\ Counted(hashmap[o])
  <2>1. TableOK(o)
    BY <1>2 DEF HashmapsOK
  <2>2. ~Filling(o) /\ ~Abandoned(o)
    BY <1>1 DEF Filling, Abandoned, Idle
  <2> QED BY <2>1, <2>2 DEF TableOK
<1>3. ASSUME NEW o \in Object, NEW n \in Name PROVE LcacheLookup(o, n) \subseteq OnList(o, n)
  <2> SUFFICES ASSUME NEW k \in 1 .. RowLength,
                      lcache[RowIndex(o, n)][k] # NoEntry,
                      lcache[RowIndex(o, n)][k][1] = o, lcache[RowIndex(o, n)][k][2] = n
               PROVE  lcache[RowIndex(o, n)][k][3] \in OnList(o, n)
    BY DEF LcacheLookup
  <2>1. RowIndex(o, n) \in 0 .. Rows - 1
    BY RowType
  <2> QED BY <2>1 DEF CacheSound, OnList
<1>4. ASSUME NEW o \in Object, hashmap[o] # NoMap, NEW n \in Name
      PROVE  HashmapFind(hashmap[o], n) = OnList(o, n)
  <2>1. Table(hashmap[o], PropertySet(o), names) /\ Counted(hashmap[o])
    BY <1>2, <1>4
  <2>2. Nulls(hashmap[o]) # {}
    BY <2>1, FreeCount DEF Table, Counted
  <2>3. \A q, s \in PropertySet(o) : NameOf(q) = NameOf(s) => q = s
    BY DEF NamesApart
  <2> QED BY <2>1, <2>2, <2>3, FindExact DEF OnList
<1>5. LookupExact
  BY <1>3, <1>4 DEF LookupExact
<1>6. ASSUME NEW o \in Object, hashmap[o] # NoMap PROVE CountersExact(o)
  <2>1. Table(hashmap[o], PropertySet(o), names) /\ Counted(hashmap[o])
    BY <1>2, <1>6
  <2>2. Cardinality(PropertySet(o)) \in Nat /\ PropertySet(o) \subseteq Property
    BY SetOf
  <2>3. Cardinality(Free(hashmap[o])) \in Nat /\ hashmap[o].max \in Nat
    BY <2>1, FreeCount, SizePositive DEF Table
  <2>4. Cardinality(PropertySet(o)) > 0
    BY <2>1, <2>2, <2>3 DEF Table, Counted
  <2>5. PropertySet(o) # {}
    BY <2>4, FS_EmptySet
  <2>6. list[o] # <<>>
    <3>1. PICK q \in PropertySet(o) : q[1] \in Members(list[o])
      BY <2>5, SetOf
    <3>2. PICK i \in 1 .. Len(list[o]) : list[o][i] = q[1]
      BY <3>1, SetOf, MembersOf
    <3>3. Len(list[o]) # 0
      BY <3>2
    <3> QED BY <3>3, SetOf, EmptyLen
  <2> QED BY <2>1, <2>2, <2>3, <2>6 DEF Table, Counted, CountersExact, Nulls, Free
<1>7. \A q \in lcached : \E o \in Object : q \in PropertySet(o)
  <2> SUFFICES ASSUME NEW q \in lcached PROVE \E o \in Object : q \in PropertySet(o)
    OBVIOUS
  <2>1. PICK r \in 0 .. Rows - 1, k \in 1 .. RowLength :
          lcache[r][k] # NoEntry /\ lcache[r][k][3] = q
    BY DEF CacheComplete
  <2>2. q \in PropertySet(lcache[r][k][1])
    BY <2>1 DEF CacheSound
  <2>3. lcache[r][k][1] \in Object
    BY <2>1, EntryTyped
  <2> QED BY <2>2, <2>3
<1>8. ASSUME NEW o \in Object, NEW q \in PropertySet(o)
      PROVE  Cardinality(CacheEntries(o, q)) = IF q \in lcached THEN 1 ELSE 0
  <2> DEFINE r == RowIndex(o, NameOf(q))
  <2>1. r \in 0 .. Rows - 1
    BY SetOf, RowType
  <2>2. \A k : k \in CacheEntries(o, q) <=>
                 k \in 1 .. RowLength /\ lcache[r][k] # NoEntry /\ lcache[r][k][3] = q
    BY DEF CacheEntries
  <2>3. CASE q \notin lcached
    <3>1. CacheEntries(o, q) = {}
      BY <2>1, <2>2, <2>3 DEF CacheSound
    <3> QED BY <2>3, <3>1, FS_EmptySet
  <2>4. CASE q \in lcached
    <3>1. PICK x \in 0 .. Rows - 1, y \in 1 .. RowLength :
            lcache[x][y] # NoEntry /\ lcache[x][y][3] = q
      BY <2>4 DEF CacheComplete
    <3>2. lcache[x][y][1] \in Object
      BY <3>1, EntryTyped
    <3>3. /\ x = RowIndex(lcache[x][y][1], lcache[x][y][2])
          /\ q \in PropertySet(lcache[x][y][1]) /\ NameOf(q) = lcache[x][y][2]
      BY <3>1 DEF CacheSound
    <3>4. lcache[x][y][1] = o
      BY <3>2, <3>3, OneOwner
    <3>5. x = r
      BY <3>3, <3>4
    <3>6. y \in CacheEntries(o, q)
      BY <3>1, <3>5, <2>2
    <3>7. \A k \in CacheEntries(o, q) : k = y
      BY <3>1, <3>5, <2>1, <2>2 DEF CacheSingle
    <3>8. CacheEntries(o, q) = {y}
      BY <3>6, <3>7
    <3> QED BY <2>4, <3>8, FS_Singleton
  <2> QED BY <2>3, <2>4
<1>9. TablesExact
  BY <1>6, <1>7, <1>8 DEF TablesExact
<1> QED BY <1>5, <1>9

-----------------------------------------------------------------------------
(* The cache.                                                              *)

CacheTyped ==
  lcache \in [0 .. Rows - 1 -> [1 .. RowLength -> CacheEntry]] /\ lcached \subseteq Property

\* The cache stays when no property that it may hold goes.
LEMMA CacheKept ==
  ASSUME Typed, CacheOK, UNCHANGED <<lcache, lcached>>,
         \A p \in Object : \A q \in PropertySet(p) :
           q \in PropertySet(p)' /\ NameOf(q)' = NameOf(q)
  PROVE  CacheOK' /\ CacheTyped'
<1>1. CacheSound'
  <2> SUFFICES ASSUME NEW r \in 0 .. Rows - 1, NEW k \in 1 .. RowLength,
                      lcache[r][k] # NoEntry
               PROVE  LET entry == lcache[r][k]
                      IN  /\ r = RowIndex(entry[1], entry[2])
                          /\ entry[3] \in PropertySet(entry[1])'
                          /\ NameOf(entry[3])' = entry[2] /\ entry[3] \in lcached
    BY DEF CacheSound, RowIndex
  <2>1. lcache[r][k][1] \in Object
    BY EntryTyped
  <2> QED BY <2>1 DEF CacheOK, CacheSound
<1>2. CacheSingle' /\ CacheComplete'
  BY DEF CacheOK, CacheSingle, CacheComplete
<1> QED BY <1>1, <1>2 DEF CacheOK, CacheTyped, Typed

\* A new entry of the cache.
LEMMA NewEntry ==
  ASSUME NEW o \in Object, NEW n \in Name, NEW q \in Property
  PROVE  LET new == <<o, n, q>>
         IN new \in CacheEntry /\ new # NoEntry /\ new[1] = o /\ new[2] = n /\ new[3] = q
  BY DEF CacheEntry, NoEntry

LEMMA CacheInserted ==
  ASSUME Typed, CacheOK, NEW o \in Object, NEW q \in PropertySet(o), q \notin lcached,
         LcacheInsert(o, NameOf(q), q), UNCHANGED <<list, names>>
  PROVE  CacheOK' /\ CacheTyped'
<1> DEFINE n == NameOf(q)
           r == RowIndex(o, n)
           new == <<o, n, q>>
           free == {k \in 1 .. RowLength : lcache[r][k] = NoEntry}
           c == CHOOSE k \in free : \A j \in free : k <= j
<1>1. q \in Property /\ n \in Name /\ r \in 0 .. Rows - 1 /\ RowLength \in Nat \ {0}
  BY SetOf, RowType, SizeAssumption
<1>2. new \in CacheEntry /\ new # NoEntry /\ new[1] = o /\ new[2] = n /\ new[3] = q
  BY <1>1, NewEntry
<1>3. /\ lcache \in [0 .. Rows - 1 -> [1 .. RowLength -> CacheEntry]]
      /\ lcached \subseteq Property
      /\ CacheSound /\ CacheSingle /\ CacheComplete
  BY DEF Typed, CacheOK
<1>4. \A p : PropertySet(p)' = PropertySet(p) /\ NameOf(p)' = NameOf(p)
  BY DEF PropertySet, NameOf
<1>5. IF free # {}
      THEN /\ lcache' = [lcache EXCEPT ![r][c] = new]
           /\ lcached' = lcached \cup {q}
      ELSE /\ lcache' = [lcache EXCEPT ![r] = [j \in 1 .. RowLength |->
                                           IF j = 1 THEN new ELSE lcache[r][j - 1]]]
           /\ lcached' = (lcached \ {lcache[r][RowLength][3]}) \cup {q}
  BY DEF LcacheInsert
<1>6. \A x \in 0 .. Rows - 1, y \in 1 .. RowLength :
        lcache[x][y] # NoEntry => lcache[x][y][3] \in lcached /\ lcache[x][y][3] # q
  BY <1>3 DEF CacheSound
<1>7. CASE free # {}
  <2>1. c \in free
    <3>1. free \in SUBSET Nat
      BY <1>1
    <3> HIDE DEF free
    <3>2. \E k \in free : \A j \in free : k <= j
      BY <3>1, <1>7, Least
    <3> QED BY <3>2
  <2>2. c \in 1 .. RowLength /\ lcache[r][c] = NoEntry
    BY <2>1
  <2>3. lcache' = [lcache EXCEPT ![r][c] = new] /\ lcached' = lcached \cup {q}
    BY <1>5, <1>7
  <2> HIDE DEF free, c, new, r, n
  <2>4. /\ lcache'[r][c] = new
        /\ \A x \in 0 .. Rows - 1, y \in 1 .. RowLength :
             ~(x = r /\ y = c) => lcache'[x][y] = lcache[x][y]
    BY <2>2, <2>3, <1>1, <1>3
  <2>5. CacheTyped'
    BY <2>2, <2>3, <1>1, <1>2, <1>3 DEF CacheTyped
  <2>6. CacheSound'
    <3> SUFFICES ASSUME NEW x \in 0 .. Rows - 1, NEW y \in 1 .. RowLength,
                        lcache'[x][y] # NoEntry
                 PROVE  LET entry == lcache'[x][y]
                        IN  /\ x = RowIndex(entry[1], entry[2])
                            /\ entry[3] \in PropertySet(entry[1])
                            /\ NameOf(entry[3]) = entry[2] /\ entry[3] \in lcached'
      BY <1>4 DEF CacheSound, RowIndex
    <3>1. CASE x = r /\ y = c
      BY <3>1, <2>3, <2>4, <1>2 DEF r, n
    <3>2. CASE ~(x = r /\ y = c)
      BY <3>2, <2>3, <2>4, <1>3 DEF CacheSound
    <3> QED BY <3>1, <3>2
  <2>7. CacheSingle'
    BY <2>4, <1>2, <1>3, <1>6 DEF CacheSingle
  <2>8. CacheComplete'
    <3> SUFFICES ASSUME NEW z \in lcached'
                 PROVE  \E x \in 0 .. Rows - 1, y \in 1 .. RowLength :
                          lcache'[x][y] # NoEntry /\ lcache'[x][y][3] = z
      BY DEF CacheComplete
    <3>1. CASE z = q
      BY <3>1, <2>2, <2>4, <1>1, <1>2
    <3>2. CASE z # q
      <4>1. z \in lcached
        BY <3>2, <2>3
      <4>2. PICK x \in 0 .. Rows - 1, y \in 1 .. RowLength :
              lcache[x][y] # NoEntry /\ lcache[x][y][3] = z
        BY <4>1, <1>3 DEF CacheComplete
      <4> QED BY <4>2, <2>2, <2>4
    <3> QED BY <3>1, <3>2
  <2> QED BY <2>5, <2>6, <2>7, <2>8 DEF CacheOK
<1>8. CASE free = {}
  <2> DEFINE d == lcache[r][RowLength][3]
  <2>1. \A y \in 1 .. RowLength : lcache[r][y] # NoEntry
    BY <1>8
  <2>2. /\ lcache' = [lcache EXCEPT ![r] = [j \in 1 .. RowLength |->
                                        IF j = 1 THEN new ELSE lcache[r][j - 1]]]
        /\ lcached' = (lcached \ {d}) \cup {q}
    BY <1>5, <1>8
  <2> HIDE DEF free, c, new, r, n
  <2>3. /\ lcache'[r][1] = new
        /\ \A y \in 2 .. RowLength : lcache'[r][y] = lcache[r][y - 1]
        /\ \A x \in 0 .. Rows - 1 : x # r => lcache'[x] = lcache[x]
    BY <2>2, <1>1, <1>3
  <2>4. CacheTyped'
    <3>1. \A j \in 1 .. RowLength : (IF j = 1 THEN new ELSE lcache[r][j - 1]) \in CacheEntry
      <4> SUFFICES ASSUME NEW j \in 1 .. RowLength, j # 1
                   PROVE  lcache[r][j - 1] \in CacheEntry
        BY <1>2
      <4>1. j - 1 \in 1 .. RowLength
        BY <1>1
      <4> QED BY <4>1, <1>1, <1>3
    <3> QED BY <3>1, <2>2, <1>1, <1>3 DEF CacheTyped
  <2>5. RowLength \in 1 .. RowLength
    BY <1>1
  <2>6. \A x \in 0 .. Rows - 1, y \in 1 .. RowLength :
          lcache[x][y] # NoEntry /\ lcache[x][y][3] = d => x = r /\ y = RowLength
    BY <2>1, <2>5, <1>1, <1>3 DEF CacheSingle
  <2> HIDE DEF d
  <2>7. ASSUME NEW x \in 0 .. Rows - 1, NEW y \in 1 .. RowLength
        PROVE  \/ x = r /\ y = 1 /\ lcache'[x][y] = new
               \/ x = r /\ y - 1 \in 1 .. RowLength - 1 /\ lcache'[x][y] = lcache[x][y - 1]
               \/ x # r /\ lcache'[x][y] = lcache[x][y]
    <3>1. CASE x # r
      BY <3>1, <2>3
    <3>2. CASE x = r /\ y = 1
      BY <3>2, <2>3
    <3>3. CASE x = r /\ y # 1
      <4>1. y \in 2 .. RowLength /\ y - 1 \in 1 .. RowLength - 1
        BY <3>3, <1>1
      <4> QED BY <3>3, <4>1, <2>3
    <3> QED BY <3>1, <3>2, <3>3
  <2>8. 1 .. RowLength - 1 \subseteq 1 .. RowLength /\ RowLength \notin 1 .. RowLength - 1
    BY <1>1
  <2>9. CacheSound'
    <3> SUFFICES ASSUME NEW x \in 0 .. Rows - 1, NEW y \in 1 .. RowLength,
                        lcache'[x][y] # NoEntry
                 PROVE  LET entry == lcache'[x][y]
                        IN  /\ x = RowIndex(entry[1], entry[2])
                            /\ entry[3] \in PropertySet(entry[1])
                            /\ NameOf(entry[3]) = entry[2] /\ entry[3] \in lcached'
      BY <1>4 DEF CacheSound, RowIndex
    <3>1. CASE x = r /\ y = 1 /\ lcache'[x][y] = new
      BY <3>1, <2>2, <1>2 DEF r, n
    <3>2. CASE x = r /\ y - 1 \in 1 .. RowLength - 1 /\ lcache'[x][y] = lcache[x][y - 1]
      <4>1. y - 1 \in 1 .. RowLength /\ y - 1 # RowLength
        BY <3>2, <2>8
      <4>2. lcache[x][y - 1][3] # d
        BY <4>1, <3>2, <2>1, <2>6
      <4> QED BY <4>1, <4>2, <3>2, <2>2, <1>3 DEF CacheSound
    <3>3. CASE x # r /\ lcache'[x][y] = lcache[x][y]
      <4>1. lcache[x][y][3] # d
        BY <3>3, <2>6
      <4> QED BY <4>1, <3>3, <2>2, <1>3 DEF CacheSound
    <3> QED BY <3>1, <3>2, <3>3, <2>7
  <2>10. CacheSingle'
    <3> SUFFICES ASSUME NEW x \in 0 .. Rows - 1, NEW y \in 1 .. RowLength,
                        NEW u \in 0 .. Rows - 1, NEW v \in 1 .. RowLength,
                        lcache'[x][y] # NoEntry, lcache'[u][v] # NoEntry,
                        lcache'[x][y][3] = lcache'[u][v][3]
                 PROVE  x = u /\ y = v
      BY DEF CacheSingle
    <3>1. \A i, j \in 0 .. Rows - 1 : \A f, g \in 1 .. RowLength :
            /\ lcache[i][f] # NoEntry /\ lcache[j][g] # NoEntry
            /\ lcache[i][f][3] = lcache[j][g][3]
            => i = j /\ f = g
      BY <1>3 DEF CacheSingle
    <3>2. CASE x = r /\ y = 1 /\ lcache'[x][y] = new
      BY <3>2, <2>7, <2>8, <1>2, <1>6
    <3>3. CASE u = r /\ v = 1 /\ lcache'[u][v] = new
      BY <3>3, <2>7, <2>8, <1>2, <1>6
    <3>4. CASE x = r /\ y - 1 \in 1 .. RowLength - 1 /\ lcache'[x][y] = lcache[x][y - 1]
      <4>1. y - 1 \in 1 .. RowLength
        BY <3>4, <2>8
      <4>2. CASE u = r /\ v - 1 \in 1 .. RowLength - 1 /\ lcache'[u][v] = lcache[u][v - 1]
        <5>1. v - 1 \in 1 .. RowLength
          BY <4>2, <2>8
        <5>2. y - 1 = v - 1
          BY <4>1, <5>1, <4>2, <3>1, <3>4
        <5> QED BY <5>2, <4>2, <3>4
      <4>3. CASE u # r /\ lcache'[u][v] = lcache[u][v]
        BY <4>1, <4>3, <3>1, <3>4
      <4> QED BY <4>2, <4>3, <3>3, <2>7
    <3>5. CASE x # r /\ lcache'[x][y] = lcache[x][y]
      <4>1. CASE u = r /\ v - 1 \in 1 .. RowLength - 1 /\ lcache'[u][v] = lcache[u][v - 1]
        BY <4>1, <3>1, <3>5, <2>8
      <4>2. CASE u # r /\ lcache'[u][v] = lcache[u][v]
        BY <4>2, <3>1, <3>5
      <4> QED BY <4>1, <4>2, <3>3, <2>7
    <3> QED BY <3>2, <3>4, <3>5, <2>7
  <2>11. CacheComplete'
    <3> SUFFICES ASSUME NEW z \in lcached'
                 PROVE  \E x \in 0 .. Rows - 1, y \in 1 .. RowLength :
                          lcache'[x][y] # NoEntry /\ lcache'[x][y][3] = z
      BY DEF CacheComplete
    <3>1. CASE z = q
      <4>1. 1 \in 1 .. RowLength
        BY <1>1
      <4> QED BY <3>1, <4>1, <2>3, <1>1, <1>2
    <3>2. CASE z # q
      <4>1. z \in lcached /\ z # d
        BY <3>2, <2>2
      <4>2. PICK x \in 0 .. Rows - 1, y \in 1 .. RowLength :
              lcache[x][y] # NoEntry /\ lcache[x][y][3] = z
        BY <4>1, <1>3 DEF CacheComplete
      <4>3. CASE x # r
        BY <4>2, <4>3, <2>3
      <4>4. CASE x = r
        <5>1. y # RowLength
          BY <4>1, <4>2, <4>4 DEF d
        <5>2. y + 1 \in 2 .. RowLength /\ y + 1 \in 1 .. RowLength /\ (y + 1) - 1 = y
          BY <5>1, <1>1
        <5>3. lcache'[r][y + 1] = lcache[r][y]
          BY <5>2, <2>3
        <5> QED BY <5>2, <5>3, <4>2, <4>4
      <4> QED BY <4>3, <4>4
    <3> QED BY <3>1, <3>2
  <2> QED BY <2>4, <2>9, <2>10, <2>11 DEF CacheOK
<1> QED BY <1>7, <1>8

\* A found property is remembered.
LEMMA CacheRemembered ==
  ASSUME Typed, CacheOK, NEW o \in Object, NEW found, AtMostOne(found, o),
         Remember(o, found), UNCHANGED <<list, names>>
  PROVE  CacheOK' /\ CacheTyped'
<1>1. CASE found \subseteq lcached
  <2>1. UNCHANGED <<lcache, lcached>>
    BY <1>1 DEF Remember
  <2>2. \A p : PropertySet(p)' = PropertySet(p) /\ NameOf(p)' = NameOf(p)
    BY DEF PropertySet, NameOf
  <2> QED BY <2>1, <2>2, CacheKept
<1>2. CASE ~(found \subseteq lcached)
  <2> DEFINE q == CHOOSE s \in found : TRUE
  <2>1. q \in found /\ LcacheInsert(o, NameOf(q), q)
    BY <1>2 DEF Remember
  <2> HIDE DEF q
  <2>2. q \in PropertySet(o) /\ q \notin lcached
    BY <2>1, <1>2 DEF AtMostOne
  <2> QED BY <2>1, <2>2, CacheInserted
<1> QED BY <1>1, <1>2

\* Properties of an object leave the cache.
LEMMA CacheInvalidated ==
  ASSUME Typed, PairsApart, CacheOK, NEW o \in Object, NEW props,
         props \subseteq PropertySet(o), LcacheInvalidate(o, props),
         \A p \in Object : \A q \in PropertySet(p) :
           q \notin props => q \in PropertySet(p)' /\ NameOf(q)' = NameOf(q)
  PROVE  CacheOK' /\ CacheTyped'
<1>1. /\ lcache \in [0 .. Rows - 1 -> [1 .. RowLength -> CacheEntry]]
      /\ lcached \subseteq Property
      /\ CacheSound /\ CacheSingle /\ CacheComplete
  BY DEF Typed, CacheOK
<1>2. lcached' = lcached \ props
  BY DEF LcacheInvalidate
<1>3. \A r \in 0 .. Rows - 1, k \in 1 .. RowLength :
        lcache'[r][k] = IF lcache[r][k] # NoEntry /\ lcache[r][k][3] \in props
                        THEN NoEntry ELSE lcache[r][k]
  <2> SUFFICES ASSUME NEW r \in 0 .. Rows - 1, NEW k \in 1 .. RowLength
               PROVE  lcache'[r][k] = IF lcache[r][k] # NoEntry /\ lcache[r][k][3] \in props
                                      THEN NoEntry ELSE lcache[r][k]
    OBVIOUS
  <2> DEFINE Hit == \E q \in props \cap lcached :
                      /\ r = RowIndex(o, NameOf(q))
                      /\ lcache[r][k] # NoEntry /\ lcache[r][k][3] = q
  <2>1. lcache'[r][k] = IF Hit THEN NoEntry ELSE lcache[r][k]
    BY DEF LcacheInvalidate
  <2>2. Hit <=> lcache[r][k] # NoEntry /\ lcache[r][k][3] \in props
    <3>1. ASSUME lcache[r][k] # NoEntry, lcache[r][k][3] \in props PROVE Hit
      <4>1. lcache[r][k][1] \in Object
        BY <3>1, EntryTyped
      <4>2. /\ r = RowIndex(lcache[r][k][1], lcache[r][k][2])
            /\ lcache[r][k][3] \in PropertySet(lcache[r][k][1])
            /\ NameOf(lcache[r][k][3]) = lcache[r][k][2]
            /\ lcache[r][k][3] \in lcached
        BY <3>1, <1>1 DEF CacheSound
      <4>3. lcache[r][k][1] = o
        BY <3>1, <4>1, <4>2, OneOwner
      <4> QED BY <3>1, <4>2, <4>3
    <3> QED BY <3>1
  <2> HIDE DEF Hit
  <2> QED BY <2>1, <2>2
<1>4. CacheTyped'
  <2>1. NoEntry \in CacheEntry
    BY DEF CacheEntry
  <2>2. \A r \in 0 .. Rows - 1, k \in 1 .. RowLength : lcache'[r][k] \in CacheEntry
    BY <2>1, <1>1, <1>3
  <2>3. lcache' = [r \in 0 .. Rows - 1 |-> [k \in 1 .. RowLength |-> lcache'[r][k]]]
    BY DEF LcacheInvalidate
  <2>4. lcache' \in [0 .. Rows - 1 -> [1 .. RowLength -> CacheEntry]]
    BY <2>2, <2>3
  <2> QED BY <2>4, <1>1, <1>2 DEF CacheTyped
<1>5. CacheSound'
  <2> SUFFICES ASSUME NEW r \in 0 .. Rows - 1, NEW k \in 1 .. RowLength,
                      lcache'[r][k] # NoEntry
               PROVE  LET entry == lcache'[r][k]
                      IN  /\ r = RowIndex(entry[1], entry[2])
                          /\ entry[3] \in Properties(list'[entry[1]], names')
                          /\ NameIn(names', entry[3]) = entry[2] /\ entry[3] \in lcached'
    BY DEF CacheSound, RowIndex, PropertySet, NameOf
  <2>1. lcache'[r][k] = lcache[r][k] /\ lcache[r][k] # NoEntry /\ lcache[r][k][3] \notin props
    BY <1>3
  <2>2. lcache[r][k][1] \in Object
    BY <2>1, EntryTyped
  <2>3. PICK e : e = lcache[r][k]
    OBVIOUS
  <2>4. /\ r = RowIndex(e[1], e[2]) /\ e[1] \in Object
        /\ e[3] \in PropertySet(e[1]) /\ NameOf(e[3]) = e[2] /\ e[3] \in lcached
    BY <2>1, <2>2, <2>3, <1>1 DEF CacheSound
  <2>5. e[3] \in PropertySet(e[1])' /\ NameOf(e[3])' = NameOf(e[3])
    BY <2>1, <2>3, <2>4
  <2> QED BY <2>1, <2>3, <2>4, <2>5, <1>2 DEF PropertySet, NameOf
<1>6. CacheSingle'
  BY <1>1, <1>3 DEF CacheSingle
<1>7. CacheComplete'
  <2> SUFFICES ASSUME NEW z \in lcached'
               PROVE  \E x \in 0 .. Rows - 1, y \in 1 .. RowLength :
                        lcache'[x][y] # NoEntry /\ lcache'[x][y][3] = z
    BY DEF CacheComplete
  <2>1. z \in lcached /\ z \notin props
    BY <1>2
  <2>2. PICK x \in 0 .. Rows - 1, y \in 1 .. RowLength :
          lcache[x][y] # NoEntry /\ lcache[x][y][3] = z
    BY <2>1, <1>1 DEF CacheComplete
  <2> QED BY <2>1, <2>2, <1>3
<1> QED BY <1>4, <1>5, <1>6, <1>7 DEF CacheOK

-----------------------------------------------------------------------------
(* What the steps have in common.                                          *)

\* No table is being filled, and none waits to be replaced.
Quiet == work.op # "fill" /\ ~(work.op = "delete" /\ work.recreate)

LEMMA PressureTypes ==
  ASSUME memory \in [alloc : Nat, high : BOOLEAN], NEW p \in Pressure
  PROVE  /\ MemoryAfter(memory, p) \in [alloc : Nat, high : BOOLEAN]
         /\ HighPressure(memory) \in [alloc : Nat, high : BOOLEAN]
<1>1. \A m \in [alloc : Nat, high : BOOLEAN] :
        /\ LowPressure(m) \in [alloc : Nat, high : BOOLEAN]
        /\ HighPressure(m) \in [alloc : Nat, high : BOOLEAN]
  BY SizeAssumption DEF LowPressure, HighPressure
<1>2. p \in {"none", "low", "high"}
  BY DEF Pressure
<1> QED BY <1>1, <1>2 DEF MemoryAfter

LEMMA SomeHashmaps ==
  ASSUME NEW h, DOMAIN h = Object, NEW p
  PROVE  LET g == HashmapsAfter(h, p)
         IN  DOMAIN g = Object /\ \A o \in Object : g[o] = NoMap \/ g[o] = h[o]
  BY DEF HashmapsAfter

\* A table of an object to which nothing happens, or that is freed.
LEMMA OtherTable ==
  ASSUME NEW p \in Object, HashmapsOK, ~Filling(p), ~Abandoned(p),
         ~Filling(p)', ~Abandoned(p)',
         hashmap'[p] = NoMap \/ hashmap'[p] = hashmap[p], PropertySet(p)' = PropertySet(p),
         \A q \in PropertySet(p) : NameOf(q)' = NameOf(q), hashmap'[p] # NoMap
  PROVE  TableOK(p)'
<1>1. hashmap'[p] = hashmap[p] /\ TableOK(p)
  BY DEF HashmapsOK
<1>2. Table(hashmap[p], PropertySet(p), names) /\ Counted(hashmap[p])
  BY <1>1 DEF TableOK
<1>3. \A q \in PropertySet(p) : NameIn(names, q) = NameIn(names', q)
  BY DEF NameOf
<1>4. PICK S : S = PropertySet(p)
  OBVIOUS
<1>5. Table(hashmap[p], S, names')
  BY <1>2, <1>3, <1>4, SameNames
<1> QED BY <1>1, <1>2, <1>4, <1>5 DEF TableOK

LEMMA QuietTables ==
  ASSUME Quiet
  PROVE  \A p : ~Filling(p) /\ ~Abandoned(p)
  BY DEF Quiet, Filling, Abandoned

\* Two name tables that agree on the pairs of a list.
LEMMA SameProperties ==
  ASSUME NEW l \in Seq(Pair), NEW nm \in NameTable, NEW mm \in NameTable,
         \A q \in Property : q[1] \in Members(l) => NameIn(mm, q) = NameIn(nm, q)
  PROVE  Properties(l, mm) = Properties(l, nm)
<1>1. \A q \in Property : q \in Properties(l, mm) <=> q \in Properties(l, nm)
  BY PropertiesOf
<1>2. Properties(l, mm) \subseteq Property /\ Properties(l, nm) \subseteq Property
  BY PropertiesOf
<1> QED BY <1>1, <1>2

\* When the lists and the names stay, so do the properties.
LEMMA SameLists ==
  ASSUME UNCHANGED <<list, names>>
  PROVE  /\ \A p : PropertySet(p)' = PropertySet(p) /\ NameOf(p)' = NameOf(p)
         /\ PairsApart => PairsApart'
         /\ NamesApart => NamesApart'
         /\ \A f, o : AtMostOne(f, o) => AtMostOne(f, o)'
<1>1. \A p : PropertySet(p)' = PropertySet(p) /\ NameOf(p)' = NameOf(p)
  BY DEF PropertySet, NameOf
<1> QED BY <1>1 DEF PairsApart, NamesApart, AtMostOne

\* An object with a table has properties.
LEMMA TableNotEmpty ==
  ASSUME NEW t, NEW S, NEW nm, Table(t, S, nm), Counted(t)
  PROVE  S # {}
<1>1. Cardinality(S) \in Nat
  BY FS_CardinalityType DEF Table
<1>2. Cardinality(Free(t)) \in Nat /\ t.max \in Nat
  BY FreeCount, SizePositive DEF Table
<1>3. Cardinality(S) > 0
  BY <1>1, <1>2 DEF Table, Counted
<1> QED BY <1>3, FS_EmptySet

\* ecma_property_hashmap_create starts, or does not.
LEMMA CreateStep ==
  ASSUME NEW o \in Object, NEW l \in Seq(Pair), NEW nm \in NameTable, NEW m, NEW found,
         HashmapCreate(o, l, nm, m, found), list'[o] = l, names' = nm,
         hashmap'[o] = NoMap, AtMostOne(found, o)'
  PROVE  WorkOK' /\ Quiet' /\ (Remember(o, found) \/ UNCHANGED <<lcache, lcached>>)
<1>1. CASE work' = Idle /\ Remember(o, found)
  BY <1>1 DEF WorkOK, Quiet, Idle
<1>2. CASE /\ work' = [op |-> "size", obj |-> o, max |-> MinimumSize, found |-> found]
           /\ UNCHANGED <<lcache, lcached>>
           /\ ~(Cardinality(Properties(l, nm)) < MinimumSize \div 2)
  <2>1. Cardinality(Properties(l, nm)) \in Nat /\ Properties(l, nm) \subseteq Property
    BY PropertiesOf
  <2>2. PropertySet(o)' = Properties(l, nm)
    BY DEF PropertySet
  <2>3. found \subseteq Property
    BY <2>1, <2>2 DEF AtMostOne
  <2>4. MinimumSize \in Nat /\ MinimumSize \div 2 \in Nat
    BY SizeAssumption
  <2>5. SizeOK'
    BY <1>2, <2>1, <2>2, <2>3, <2>4, MinimumGood DEF SizeOK
  <2> QED BY <1>2, <2>5 DEF WorkOK, Quiet
<1> QED BY <1>1, <1>2 DEF HashmapCreate

-----------------------------------------------------------------------------
(* The steps that change no list.                                          *)

LEMMA MemoryStep ==
  ASSUME Inv, work = Idle, NEW h, DOMAIN h = Object,
         \A o \in Object : h[o] = NoMap \/ h[o] = hashmap[o],
         hashmap' = h, memory' \in [alloc : Nat, high : BOOLEAN],
         UNCHANGED <<list, names, lcache, lcached, work>>
  PROVE  Inv'
<1>1. Quiet /\ Quiet' /\ WorkOK'
  BY DEF Quiet, Idle, WorkOK
<1>2. \A p : ~Filling(p) /\ ~Abandoned(p) /\ ~Filling(p)' /\ ~Abandoned(p)'
  BY <1>1 DEF Quiet, Filling, Abandoned
<1>3. Typed'
  BY DEF Inv, Typed
<1>4. PairsApart' /\ NamesApart' /\ CacheOK'
  BY SameLists, CacheKept DEF Inv
<1>5. HashmapsOK'
  <2> SUFFICES ASSUME NEW p \in Object, hashmap'[p] # NoMap PROVE TableOK(p)'
    BY DEF HashmapsOK
  <2> QED BY <1>2, SameLists, OtherTable DEF Inv
<1> QED BY <1>1, <1>3, <1>4, <1>5 DEF Inv

LEMMA AllocateElsewhereInv ==
  ASSUME Inv, work = Idle, NEW a \in {"low", "high"}, AllocateElsewhere(a)
  PROVE  Inv'
<1>1. a \in Pressure /\ DOMAIN hashmap = Object /\ memory \in [alloc : Nat, high : BOOLEAN]
  BY DEF Pressure, Inv, Typed
<1>2. memory' \in [alloc : Nat, high : BOOLEAN]
  BY <1>1, PressureTypes DEF AllocateElsewhere
<1>3. PICK h : h = hashmap'
  OBVIOUS
<1>4. DOMAIN h = Object /\ \A o \in Object : h[o] = NoMap \/ h[o] = hashmap[o]
  BY <1>1, <1>3, SomeHashmaps DEF AllocateElsewhere
<1> QED BY <1>2, <1>3, <1>4, MemoryStep DEF AllocateElsewhere

LEMMA ApiGCInv ==
  ASSUME Inv, work = Idle, ApiGC
  PROVE  Inv'
<1>1. DOMAIN hashmap = Object /\ memory \in [alloc : Nat, high : BOOLEAN]
  BY DEF Inv, Typed
<1>2. memory' \in [alloc : Nat, high : BOOLEAN]
  BY <1>1, PressureTypes DEF ApiGC, Pressure
<1>3. PICK h : h = hashmap'
  OBVIOUS
<1>4. DOMAIN h = Object /\ \A o \in Object : h[o] = NoMap \/ h[o] = hashmap[o]
  BY <1>1, <1>3, SomeHashmaps DEF ApiGC
<1> QED BY <1>2, <1>3, <1>4, MemoryStep DEF ApiGC

\* A step that changes only the cache and the work.
LEMMA CacheStep ==
  ASSUME Inv, Quiet, UNCHANGED <<list, names, hashmap, memory>>,
         CacheOK', CacheTyped', WorkOK', Quiet'
  PROVE  Inv'
<1>1. \A p : ~Filling(p) /\ ~Abandoned(p) /\ ~Filling(p)' /\ ~Abandoned(p)'
  BY DEF Quiet, Filling, Abandoned
<1>2. Typed'
  BY DEF Inv, Typed, CacheTyped
<1>3. PairsApart' /\ NamesApart'
  BY SameLists DEF Inv
<1>4. HashmapsOK'
  <2> SUFFICES ASSUME NEW p \in Object, hashmap'[p] # NoMap PROVE TableOK(p)'
    BY DEF HashmapsOK
  <2> QED BY <1>1, SameLists, OtherTable DEF Inv
<1> QED BY <1>2, <1>3, <1>4 DEF Inv

LEMMA OnListOne ==
  ASSUME Inv, NEW o \in Object, NEW n \in Name
  PROVE  AtMostOne(OnList(o, n), o)
  BY DEF Inv, NamesApart, AtMostOne, OnList

LEMMA FindInHashmapInv ==
  ASSUME Inv, work = Idle, NEW o \in Object, NEW n \in Name, FindInHashmap(o, n)
  PROVE  Inv'
<1>1. HashmapFind(hashmap[o], n) = OnList(o, n)
  BY InvImplies DEF LookupExact, FindInHashmap
<1>2. PICK f : f = OnList(o, n)
  OBVIOUS
<1>3. AtMostOne(f, o) /\ Remember(o, f) /\ UNCHANGED <<list, names, hashmap, memory, work>>
  BY <1>1, <1>2, OnListOne DEF FindInHashmap
<1>4. CacheOK' /\ CacheTyped'
  BY <1>3, CacheRemembered DEF Inv
<1>5. Quiet /\ Quiet' /\ WorkOK'
  BY <1>3 DEF Quiet, Idle, WorkOK
<1> QED BY <1>3, <1>4, <1>5, CacheStep

LEMMA FindOnListInv ==
  ASSUME Inv, work = Idle, NEW o \in Object, NEW n \in Name, FindOnList(o, n)
  PROVE  Inv'
<1>1. PICK f, l, nm, m : f = OnList(o, n) /\ l = list[o] /\ nm = names /\ m = memory
  OBVIOUS
<1>2. UNCHANGED <<list, names, hashmap, memory>> /\ hashmap[o] = NoMap
  BY DEF FindOnList
<1>3. AtMostOne(f, o) /\ AtMostOne(f, o)' /\ l \in Seq(Pair) /\ nm \in NameTable
  BY <1>1, <1>2, OnListOne, SameLists DEF Inv, Typed
<1>4. Quiet
  BY DEF Quiet, Idle
<1>5. WorkOK' /\ Quiet' /\ (Remember(o, f) \/ UNCHANGED <<lcache, lcached>>)
  <2>1. CASE HashmapCreate(o, l, nm, m, f)
    BY <2>1, <1>1, <1>2, <1>3, CreateStep
  <2>2. CASE Remember(o, f) /\ UNCHANGED work
    BY <2>2 DEF Quiet, Idle, WorkOK
  <2> QED BY <2>1, <2>2, <1>1 DEF FindOnList
<1>6. CacheOK' /\ CacheTyped'
  <2>1. CASE Remember(o, f)
    BY <2>1, <1>2, <1>3, CacheRemembered DEF Inv
  <2>2. CASE UNCHANGED <<lcache, lcached>>
    BY <2>2, <1>2, SameLists, CacheKept DEF Inv
  <2> QED BY <2>1, <2>2, <1>5
<1> QED BY <1>2, <1>4, <1>5, <1>6, CacheStep

\* A deletion begins.
LEMMA DeleteAllInv ==
  ASSUME Inv, work = Idle, NEW o \in Object, NEW props, props \subseteq PropertySet(o),
         DeleteAll(o, props)
  PROVE  Inv'
<1>1. /\ UNCHANGED <<list, names, hashmap, lcache, lcached, memory>>
      /\ work' = [op |-> "delete", obj |-> o, at |-> 1, props |-> props, recreate |-> FALSE]
  BY DEF DeleteAll
<1>2. Quiet /\ Quiet'
  BY <1>1 DEF Quiet, Idle
<1>3. props \subseteq Property /\ \A q \in props : NameOf(q) # Deleted
  BY SetOf DEF Inv
<1>4. DeleteOK'
  <2>1. ASSUME NEW i, NEW j, <<list[o][i], j>> \in props PROVE names[list[o][i]][j] # Deleted
    BY <1>3, <2>1 DEF NameOf, NameIn
  <2> QED BY <1>1, <1>3, <2>1 DEF DeleteOK
<1>5. WorkOK'
  BY <1>4 DEF WorkOK
<1>6. CacheOK' /\ CacheTyped'
  BY <1>1, SameLists, CacheKept DEF Inv
<1> QED BY <1>1, <1>2, <1>5, <1>6, CacheStep

LEMMA DeleteInv ==
  ASSUME Inv, work = Idle, NEW o \in Object, NEW n \in Name,
         Delete(o, n) \/ DeleteArrayProperties(o, n)
  PROVE  Inv'
<1>1. CASE Delete(o, n)
  <2>1. PICK props : props = OnList(o, n)
    OBVIOUS
  <2>2. props \subseteq PropertySet(o) /\ DeleteAll(o, props)
    BY <1>1, <2>1 DEF Delete, OnList
  <2> QED BY <2>2, DeleteAllInv
<1>2. CASE DeleteArrayProperties(o, n)
  <2>1. PICK props : props = {q \in PropertySet(o) : NameOf(q) >= n}
    OBVIOUS
  <2>2. props \subseteq PropertySet(o) /\ DeleteAll(o, props)
    BY <1>2, <2>1 DEF DeleteArrayProperties
  <2> QED BY <2>2, DeleteAllInv
<1> QED BY <1>1, <1>2

\* The conversion of a fast array begins.
LEMMA ConvertFastArrayInv ==
  ASSUME Inv, work = Idle, NEW o \in Object, NEW elements \in SUBSET Name,
         ConvertFastArray(o, elements)
  PROVE  Inv'
<1>1. /\ UNCHANGED <<list, names, hashmap, lcache, lcached, memory>>
      /\ work' = [op |-> "convert", obj |-> o, left |-> elements, prop_index |-> 1]
      /\ list[o] = <<>>
  BY DEF ConvertFastArray
<1>2. Quiet /\ Quiet'
  BY <1>1 DEF Quiet, Idle
<1>3. PropertySet(o) = {}
  <2>1. Members(<<>>) = {}
    BY DEF Members
  <2> QED BY <2>1, <1>1 DEF PropertySet, Properties
<1>4. hashmap[o] = NoMap
  <2> SUFFICES ASSUME hashmap[o] # NoMap PROVE FALSE
    OBVIOUS
  <2>1. Table(hashmap[o], PropertySet(o), names) /\ Counted(hashmap[o])
    BY <1>2, QuietTables DEF Inv, HashmapsOK, TableOK
  <2> QED BY <2>1, <1>3, TableNotEmpty
<1>5. ConvertOK'
  BY <1>1, <1>3, <1>4, SameLists DEF ConvertOK
<1>6. WorkOK'
  BY <1>5 DEF WorkOK
<1>7. CacheOK' /\ CacheTyped'
  BY <1>1, SameLists, CacheKept DEF Inv
<1> QED BY <1>1, <1>2, <1>6, <1>7, CacheStep

-----------------------------------------------------------------------------
(* The steps of the loops over a list that stays.                          *)

LEMMA WorkCases ==
  ASSUME WorkOK
  PROVE  /\ work.op = "size" => SizeOK /\ work.obj \in Object
         /\ work.op = "fill" => FillOK /\ work.obj \in Object
         /\ work.op = "convert" => ConvertOK /\ work.obj \in Object
         /\ work.op = "delete" => DeleteOK /\ work.obj \in Object
<1>1. CASE work = Idle
  BY <1>1 DEF Idle
<1>2. CASE SizeOK
  <2>1. work \in [op : {"size"}, obj : Object, max : Nat, found : SUBSET Property]
    BY <1>2 DEF SizeOK
  <2> QED BY <1>2, <2>1
<1>3. CASE FillOK
  <2>1. work \in [op : {"fill"}, obj : Object, at : Nat \ {0}, found : SUBSET Property]
    BY <1>3 DEF FillOK
  <2> QED BY <1>3, <2>1
<1>4. CASE ConvertOK
  <2>1. work \in [op : {"convert"}, obj : Object, left : SUBSET Name, prop_index : {0, 1}]
    BY <1>4 DEF ConvertOK
  <2> QED BY <1>4, <2>1
<1>5. CASE DeleteOK
  <2>1. work \in [op : {"delete"}, obj : Object, at : Nat \ {0}, props : SUBSET Property,
                  recreate : BOOLEAN]
    BY <1>5 DEF DeleteOK
  <2> QED BY <1>5, <2>1
<1> QED BY <1>1, <1>2, <1>3, <1>4, <1>5 DEF WorkOK

LEMMA ListsKept ==
  ASSUME Inv, UNCHANGED <<list, names>>, CacheOK', CacheTyped', DOMAIN hashmap' = Object,
         memory' \in [alloc : Nat, high : BOOLEAN], WorkOK', HashmapsOK'
  PROVE  Inv'
<1>1. Typed'
  BY DEF Inv, Typed, CacheTyped
<1>2. PairsApart' /\ NamesApart'
  BY SameLists DEF Inv
<1> QED BY <1>1, <1>2 DEF Inv

LEMMA HashmapDoubleInv ==
  ASSUME Inv, HashmapDouble
  PROVE  Inv'
<1>1. work.op = "size" /\ work' = [work EXCEPT !.max = 2 * @]
      /\ UNCHANGED <<list, names, hashmap, lcache, lcached, memory>>
  BY DEF HashmapDouble
<1>2. SizeOK
  BY <1>1, WorkCases DEF Inv
<1>3. work \in [op : {"size"}, obj : Object, max : Nat, found : SUBSET Property]
  BY <1>2 DEF SizeOK
<1>4. work' = [op |-> "size", obj |-> work.obj, max |-> 2 * work.max, found |-> work.found]
  BY <1>1, <1>3
<1>5. GoodSize(2 * work.max) /\ 2 * work.max \in Nat
  BY <1>2, <1>3, DoubledGood DEF SizeOK
<1>6. SizeOK'
  <2>1. PICK o, f : o = work.obj /\ f = work.found
    OBVIOUS
  <2>2. work'.obj = o /\ work'.found = f /\ work'.max = 2 * work.max
    BY <1>4, <2>1
  <2>3. /\ Cardinality(PropertySet(o)') >= MinimumSize \div 2
        /\ AtMostOne(f, o)' /\ hashmap'[o] = NoMap
    BY <1>1, <1>2, <2>1, SameLists DEF SizeOK
  <2>4. work' \in [op : {"size"}, obj : Object, max : Nat, found : SUBSET Property]
    BY <1>3, <1>4, <1>5
  <2>5. PropertySet(work.obj)' = PropertySet(o)' /\ (AtMostOne(work.found, work.obj)' <=> AtMostOne(f, o)')
    BY <2>2 DEF PropertySet, AtMostOne
  <2> QED BY <1>5, <2>2, <2>3, <2>4, <2>5 DEF SizeOK
<1>7. WorkOK' /\ Quiet /\ Quiet'
  BY <1>1, <1>4, <1>6 DEF WorkOK, Quiet
<1>8. CacheOK' /\ CacheTyped'
  BY <1>1, SameLists, CacheKept DEF Inv
<1> QED BY <1>1, <1>7, <1>8, CacheStep

\* The size leaves room.
LEMMA SizeLeavesRoom ==
  ASSUME NEW m, GoodSize(m), NEW c \in Nat, c >= MinimumSize \div 2, ~(m < c + c \div 2)
  PROVE  0 < c /\ c < m
<1>1. m \in Nat /\ m >= 2 /\ MinimumSize \div 2 \in Nat /\ MinimumSize \div 2 >= 1
  BY SizePositive, SizeAssumption
<1>2. c >= 1
  BY <1>1
<1>3. CASE c = 1
  BY <1>1, <1>3
<1>4. CASE c >= 2
  <2>1. c \div 2 >= 1
    BY <1>4
  <2> QED BY <2>1, <1>1, <1>4
<1> QED BY <1>2, <1>3, <1>4

LEMMA HashmapAllocateInv ==
  ASSUME Inv, NEW a \in Pressure, NEW success \in BOOLEAN, HashmapAllocate(a, success)
  PROVE  Inv'
<1>1. work.op = "size" /\ ~TooSmall /\ memory' = MemoryAfter(memory, a)
      /\ UNCHANGED <<list, names>>
  BY DEF HashmapAllocate
<1>2. SizeOK
  BY <1>1, WorkCases DEF Inv
<1>3. PICK o, f, h, m : o = work.obj /\ f = work.found /\ h = HashmapsAfter(hashmap, a) /\ m = work.max
  OBVIOUS
<1>4. o \in Object /\ f \in SUBSET Property /\ AtMostOne(f, o) /\ GoodSize(m)
  BY <1>2, <1>3 DEF SizeOK
<1>5. DOMAIN h = Object /\ \A p \in Object : h[p] = NoMap \/ h[p] = hashmap[p]
  BY <1>3, SomeHashmaps DEF Inv, Typed
<1>6. memory' \in [alloc : Nat, high : BOOLEAN]
  BY <1>1, PressureTypes DEF Inv, Typed
<1>7. \A p : ~Filling(p) /\ ~Abandoned(p)
  BY <1>1 DEF Filling, Abandoned
<1>8. CASE ~success
  <2>1. hashmap' = h /\ work' = Idle /\ Remember(o, f)
    BY <1>8, <1>3 DEF HashmapAllocate
  <2>2. CacheOK' /\ CacheTyped'
    BY <2>1, <1>1, <1>4, CacheRemembered DEF Inv
  <2>3. HashmapsOK'
    <3> SUFFICES ASSUME NEW p \in Object, hashmap'[p] # NoMap PROVE TableOK(p)'
      BY DEF HashmapsOK
    <3>1. ~Filling(p)' /\ ~Abandoned(p)'
      BY <2>1 DEF Filling, Abandoned, Idle
    <3> QED BY <3>1, <2>1, <1>1, <1>5, <1>7, SameLists, OtherTable DEF Inv
  <2>4. WorkOK'
    BY <2>1 DEF WorkOK
  <2> QED BY <2>1, <2>2, <2>3, <2>4, <1>1, <1>5, <1>6, ListsKept
<1>9. CASE success
  <2> DEFINE c == Cardinality(PropertySet(o))
  <2>1. /\ hashmap' = [h EXCEPT ![o] = EmptyTable(m, c)]
        /\ work' = [op |-> "fill", obj |-> o, at |-> 1, found |-> f]
        /\ UNCHANGED <<lcache, lcached>>
    BY <1>9, <1>3 DEF HashmapAllocate
  <2>2. c \in Nat /\ c >= MinimumSize \div 2 /\ ~(m < c + c \div 2)
    BY <1>1, <1>2, <1>3, <1>4, SetOf DEF SizeOK, TooSmall, Inv
  <2>3. c' = c
    BY <1>1 DEF PropertySet
  <2> HIDE DEF c
  <2>4. 0 < c /\ c < m
    BY <2>2, <1>4, SizeLeavesRoom
  <2>5. PICK t : t = EmptyTable(m, c)
    OBVIOUS
  <2>6. Table(t, {}, names) /\ Expected(t, c) /\ t.max > 0
    BY <2>2, <2>4, <2>5, <1>4, EmptyHolds
  <2>7. hashmap'[o] = t /\ DOMAIN hashmap' = Object /\ \A p \in Object : p # o => hashmap'[p] = h[p]
    BY <2>1, <2>5, <1>4, <1>5
  <2>8. TableOK(o)'
    <3>1. Filling(o)' /\ work'.at = 1
      BY <2>1 DEF Filling
    <3>2. Before(o, work.at)' = {}
      BY <3>1 DEF Before
    <3>3. Table(hashmap[o], Before(o, work.at), names)'
      BY <3>2, <2>6, <2>7, <1>1
    <3>4. Expected(hashmap[o], Cardinality(PropertySet(o)))'
      BY <2>3, <2>6, <2>7 DEF c
    <3> QED BY <3>1, <3>3, <3>4 DEF TableOK
  <2>9. HashmapsOK'
    <3> SUFFICES ASSUME NEW p \in Object, hashmap'[p] # NoMap, p # o PROVE TableOK(p)'
      BY <2>8 DEF HashmapsOK
    <3>1. ~Filling(p)' /\ ~Abandoned(p)'
      BY <2>1 DEF Filling, Abandoned
    <3> QED BY <3>1, <2>7, <1>1, <1>5, <1>7, SameLists, OtherTable DEF Inv
  <2>10. WorkOK'
    <3>1. hashmap'[o] # NoMap
      BY <2>6, <2>7 DEF NoMap
    <3>2. AtMostOne(f, o)'
      BY <1>1, <1>4, SameLists
    <3>3. AtMostOne(work.found, work.obj)'
      BY <3>2, <2>1 DEF AtMostOne, PropertySet
    <3>4. FillOK'
      BY <3>1, <3>3, <2>1, <1>4 DEF FillOK
    <3> QED BY <3>4 DEF WorkOK
  <2>11. CacheOK' /\ CacheTyped'
    BY <2>1, <1>1, SameLists, CacheKept DEF Inv
  <2> QED BY <2>7, <2>9, <2>10, <2>11, <1>1, <1>6, ListsKept
<1> QED BY <1>8, <1>9

\* A property enters the table that is filled.
LEMMA FillOne ==
  ASSUME NEW t, NEW S, NEW T, IsFiniteSet(T), S \subseteq T, T \subseteq Property,
         Table(t, S, names), Expected(t, Cardinality(T)), NEW q \in T, q \notin S,
         NameIn(names, q) \in Name
  PROVE  LET u == Put(t, NameIn(names, q), q)
         IN  Table(u, Added(S, q), names) /\ Expected(u, Cardinality(T)) /\ u.max = t.max
<1> DEFINE u == Put(t, NameIn(names, q), q)
<1>1. Cardinality(S) <= Cardinality(T) /\ Cardinality(S) \in Nat /\ Cardinality(T) \in Nat
  BY FS_Subset, FS_CardinalityType DEF Table
<1>2. Cardinality(Free(t)) \in Nat /\ t.max \in Nat /\ (Cardinality(Free(t)) > 0 => Free(t) # {})
  BY FreeCount, SizePositive DEF Table
<1>3. Cardinality(Free(t)) + Cardinality(S) = t.max /\ Cardinality(T) < t.max
  BY DEF Table, Expected
<1>4. Free(t) # {}
  BY <1>1, <1>2, <1>3
<1>5. /\ Table(u, Added(S, q), names)
      /\ u.max = t.max /\ u.null = t.null /\ u.unused = t.unused
      /\ Free(t) = Nulls(t) => Free(u) = Nulls(u)
  BY <1>4, PutHolds
<1> HIDE DEF u
<1> QED BY <1>5 DEF Expected, u

LEMMA HashmapFillInv ==
  ASSUME Inv, HashmapFill
  PROVE  Inv'
<1>1. PICK o, k, b : o = work.obj /\ k = work.at /\ b = list[o][k]
  OBVIOUS
<1> DEFINE Add(t, q) == IF NameOf(q) = Deleted THEN t ELSE Put(t, NameOf(q), q)
           q0 == <<b, 0>>
           q1 == <<b, 1>>
           S == Before(o, k)
           S0 == IF NameOf(q0) = Deleted THEN S ELSE Added(S, q0)
           S1 == IF NameOf(q1) = Deleted THEN S0 ELSE Added(S0, q1)
           T == PropertySet(o)
           c == Cardinality(T)
           t0 == hashmap[o]
<1>2. /\ work.op = "fill" /\ k <= Len(list[o])
      /\ hashmap' = [hashmap EXCEPT ![o] = Add(Add(t0, q0), q1)]
      /\ work' = [work EXCEPT !.at = k + 1]
      /\ UNCHANGED <<list, names, lcache, lcached, memory>>
  BY <1>1 DEF HashmapFill
<1>3. FillOK /\ o \in Object
  BY <1>1, <1>2, WorkCases DEF Inv
<1>4. PICK f : f = work.found
  OBVIOUS
<1>5. /\ work = [op |-> "fill", obj |-> o, at |-> k, found |-> f]
      /\ k \in Nat \ {0} /\ f \in SUBSET Property /\ AtMostOne(f, o) /\ hashmap[o] # NoMap
  BY <1>1, <1>3, <1>4 DEF FillOK
<1>6. work' = [op |-> "fill", obj |-> o, at |-> k + 1, found |-> f]
  BY <1>2, <1>5
<1>7. /\ list[o] \in Seq(Pair) /\ Len(list[o]) \in Nat /\ k \in 1 .. Len(list[o])
      /\ b \in Pair /\ b \in Members(list[o])
  <2>1. list[o] \in Seq(Pair)
    BY <1>3 DEF Inv, Typed
  <2>2. Len(list[o]) \in Nat
    BY <2>1, LenProperties
  <2>3. k \in 1 .. Len(list[o])
    BY <2>2, <1>2, <1>5
  <2> QED BY <2>1, <2>2, <2>3, <1>1, MembersOf, ElementOfSeq
<1>8. Table(t0, S, names) /\ Expected(t0, c)
  <2>1. Filling(o) /\ work.at = k
    BY <1>5 DEF Filling
  <2>2. TableOK(o)
    BY <1>3, <1>5 DEF Inv, HashmapsOK
  <2> QED BY <2>1, <2>2, <1>1 DEF TableOK
<1>9. /\ T \subseteq Property /\ IsFiniteSet(T) /\ \A q \in T : NameOf(q) \in Name
      /\ q0 \in Property /\ q1 \in Property /\ q0 # q1
      /\ q0 \in T <=> NameOf(q0) # Deleted
      /\ q1 \in T <=> NameOf(q1) # Deleted
  <2>1. q0 \in Property /\ q1 \in Property /\ q0 # q1 /\ q0[1] = b /\ q1[1] = b
    BY <1>7 DEF Property
  <2> QED BY <2>1, <1>3, <1>7, SetOf DEF Inv
<1>10. S \subseteq T /\ q0 \notin S /\ q1 \notin S
  <2>1. S \subseteq T
    BY DEF Before
  <2>2. ASSUME NEW q \in S, q[1] = b PROVE FALSE
    <3>1. PICK i \in 1 .. Len(list[o]) : i < k /\ list[o][i] = b
      BY <2>2 DEF Before
    <3>2. i = k
      BY <3>1, <1>1, <1>3, <1>7 DEF Inv, PairsApart
    <3> QED BY <3>1, <3>2, <1>7
  <2>3. q0[1] = b /\ q1[1] = b
    OBVIOUS
  <2> QED BY <2>1, <2>2, <2>3
<1>11. S1 = Before(o, k + 1)
  <2>1. ASSUME NEW q \in S1 PROVE q \in Before(o, k + 1)
    <3>1. CASE q \in S
      <4>1. PICK i \in 1 .. Len(list[o]) : i < k /\ list[o][i] = q[1]
        BY <3>1 DEF Before
      <4>2. i < k + 1
        BY <4>1, <1>7
      <4> QED BY <4>1, <4>2, <3>1 DEF Before
    <3>2. CASE q \notin S
      <4>1. q \in T /\ q[1] = b
        BY <2>1, <3>2, <1>9 DEF Added
      <4>2. k < k + 1
        BY <1>7
      <4> QED BY <4>1, <4>2, <1>1, <1>7 DEF Before
    <3> QED BY <3>1, <3>2
  <2>2. ASSUME NEW q \in Before(o, k + 1) PROVE q \in S1
    <3>1. PICK i \in 1 .. Len(list[o]) : i < k + 1 /\ list[o][i] = q[1]
      BY DEF Before
    <3>2. q \in T /\ q \in Property
      BY <1>9 DEF Before
    <3>3. CASE i < k
      <4>1. q \in S
        BY <3>1, <3>2, <3>3 DEF Before
      <4> QED BY <4>1 DEF Added
    <3>4. CASE i = k
      <4>1. q = q0 \/ q = q1
        BY <3>1, <3>2, <3>4, <1>1 DEF Property
      <4> QED BY <4>1, <3>2, <1>9 DEF Added
    <3> QED BY <3>1, <3>3, <3>4, <1>7
  <2> QED BY <2>1, <2>2
<1>12. PICK u, v : u = Add(t0, q0) /\ v = Add(u, q1)
  OBVIOUS
<1>13. t0.max > 0
  BY <1>8, SizePositive DEF Table
<1> HIDE DEF q0, q1, S, T, t0, c
<1>14. S0 \subseteq T /\ q1 \notin S0
  BY <1>9, <1>10 DEF Added
<1>15. Table(u, S0, names) /\ Expected(u, c) /\ u.max > 0
  <2>1. CASE NameOf(q0) = Deleted
    BY <2>1, <1>8, <1>12, <1>13
  <2>2. CASE NameOf(q0) # Deleted
    <3>1. u = Put(t0, NameIn(names, q0), q0) /\ S0 = Added(S, q0)
      BY <2>2, <1>12 DEF NameOf
    <3>2. q0 \in T /\ NameIn(names, q0) \in Name
      BY <2>2, <1>9 DEF NameOf
    <3> QED BY <3>1, <3>2, <1>8, <1>9, <1>10, <1>13, FillOne DEF c
  <2> QED BY <2>1, <2>2
<1> HIDE DEF S0
<1>16. Table(v, S1, names) /\ Expected(v, c) /\ v.max > 0
  <2>1. CASE NameOf(q1) = Deleted
    BY <2>1, <1>12, <1>15
  <2>2. CASE NameOf(q1) # Deleted
    <3>1. v = Put(u, NameIn(names, q1), q1) /\ S1 = Added(S0, q1)
      BY <2>2, <1>12 DEF NameOf
    <3>2. q1 \in T /\ NameIn(names, q1) \in Name
      BY <2>2, <1>9 DEF NameOf
    <3> QED BY <3>1, <3>2, <1>9, <1>14, <1>15, FillOne DEF c
  <2> QED BY <2>1, <2>2
<1>17. DOMAIN hashmap = Object /\ hashmap'[o] = v /\ DOMAIN hashmap' = Object
       /\ \A p \in Object : p # o => hashmap'[p] = hashmap[p]
  BY <1>2, <1>3, <1>12 DEF Inv, Typed
<1>18. TableOK(o)'
  <2>1. Filling(o)' /\ work'.at = k + 1
    BY <1>6 DEF Filling
  <2>2. Before(o, work.at)' = Before(o, k + 1)
    BY <2>1, <1>2 DEF Before, PropertySet, Properties, NameIn
  <2>3. Table(hashmap[o], Before(o, work.at), names)'
    BY <2>2, <1>2, <1>11, <1>16, <1>17
  <2>4. Expected(hashmap[o], Cardinality(PropertySet(o)))'
    BY <1>2, <1>16, <1>17, SameLists DEF c, T
  <2> QED BY <2>1, <2>3, <2>4 DEF TableOK
<1>19. HashmapsOK'
  <2> SUFFICES ASSUME NEW p \in Object, hashmap'[p] # NoMap, p # o PROVE TableOK(p)'
    BY <1>18 DEF HashmapsOK
  <2>1. ~Filling(p) /\ ~Abandoned(p) /\ ~Filling(p)' /\ ~Abandoned(p)'
    BY <1>5, <1>6 DEF Filling, Abandoned
  <2> QED BY <2>1, <1>2, <1>17, SameLists, OtherTable DEF Inv
<1>20. WorkOK'
  <2>1. hashmap'[o] # NoMap
    BY <1>16, <1>17 DEF NoMap
  <2>2. AtMostOne(f, o)'
    BY <1>2, <1>5, SameLists
  <2>3. AtMostOne(work.found, work.obj)'
    BY <2>2, <1>6 DEF AtMostOne, PropertySet
  <2>4. FillOK'
    BY <2>1, <2>3, <1>3, <1>5, <1>6 DEF FillOK
  <2> QED BY <2>4 DEF WorkOK
<1>21. CacheOK' /\ CacheTyped' /\ memory' \in [alloc : Nat, high : BOOLEAN]
  BY <1>2, SameLists, CacheKept DEF Inv, Typed
<1> QED BY <1>2, <1>17, <1>19, <1>20, <1>21, ListsKept

LEMMA HashmapFilledInv ==
  ASSUME Inv, HashmapFilled
  PROVE  Inv'
<1>1. PICK o, k, f : o = work.obj /\ k = work.at /\ f = work.found
  OBVIOUS
<1>2. /\ work.op = "fill" /\ k > Len(list[o]) /\ work' = Idle /\ Remember(o, f)
      /\ UNCHANGED <<list, names, hashmap, memory>>
  BY <1>1 DEF HashmapFilled
<1>3. FillOK /\ o \in Object
  BY <1>1, <1>2, WorkCases DEF Inv
<1>4. AtMostOne(f, o) /\ hashmap[o] # NoMap /\ k \in Nat
  BY <1>1, <1>3 DEF FillOK
<1>5. CacheOK' /\ CacheTyped'
  BY <1>2, <1>3, <1>4, CacheRemembered DEF Inv
<1>6. PropertySet(o) = Before(o, k)
  <2>1. ASSUME NEW q \in PropertySet(o) PROVE q \in Before(o, k)
    <3>1. list[o] \in Seq(Pair) /\ q[1] \in Members(list[o])
      BY <1>3, SetOf DEF Inv
    <3>2. PICK i \in 1 .. Len(list[o]) : list[o][i] = q[1]
      BY <3>1, MembersOf
    <3>3. i < k
      BY <3>1, <1>2, <1>4, LenProperties
    <3> QED BY <3>2, <3>3 DEF Before
  <2> QED BY <2>1 DEF Before
<1>7. Table(hashmap[o], PropertySet(o), names) /\ Counted(hashmap[o])
  <2>1. Filling(o) /\ TableOK(o)
    BY <1>1, <1>2, <1>3, <1>4 DEF Filling, Inv, HashmapsOK
  <2>2. /\ Table(hashmap[o], PropertySet(o), names)
        /\ Expected(hashmap[o], Cardinality(PropertySet(o)))
    BY <2>1, <1>1, <1>6 DEF TableOK
  <2>3. Cardinality(PropertySet(o)) \in Nat
    BY <1>3, SetOf DEF Inv
  <2>4. Cardinality(Free(hashmap[o])) \in Nat /\ hashmap[o].max \in Nat
    BY <2>2, FreeCount, SizePositive DEF Table
  <2>5. Cardinality(Free(hashmap[o])) = hashmap[o].max - Cardinality(PropertySet(o))
    BY <2>2, <2>3, <2>4 DEF Table
  <2> QED BY <2>2, <2>3, <2>4, <2>5 DEF Expected, Counted
<1>8. \A p : ~Filling(p)' /\ ~Abandoned(p)'
  BY <1>2 DEF Filling, Abandoned, Idle
<1>9. TableOK(o)'
  BY <1>2, <1>7, <1>8, SameLists DEF TableOK
<1>10. HashmapsOK'
  <2> SUFFICES ASSUME NEW p \in Object, hashmap'[p] # NoMap, p # o PROVE TableOK(p)'
    BY <1>9 DEF HashmapsOK
  <2>1. ~Filling(p) /\ ~Abandoned(p)
    BY <1>1, <1>2 DEF Filling, Abandoned
  <2> QED BY <2>1, <1>2, <1>8, SameLists, OtherTable DEF Inv
<1>11. WorkOK'
  BY <1>2 DEF WorkOK
<1>12. DOMAIN hashmap' = Object /\ memory' \in [alloc : Nat, high : BOOLEAN]
  BY <1>2 DEF Inv, Typed
<1> QED BY <1>2, <1>5, <1>10, <1>11, <1>12, ListsKept

LEMMA DeleteEndsInv ==
  ASSUME Inv, DeleteEnds
  PROVE  Inv'
<1>1. PICK o, l, nm, m : o = work.obj /\ l = list[o] /\ nm = names /\ m = memory
  OBVIOUS
<1>2. /\ work.op = "delete" /\ UNCHANGED <<list, names, memory>>
      /\ IF work.recreate
         THEN hashmap' = [hashmap EXCEPT ![o] = NoMap] /\ HashmapCreate(o, l, nm, m, {})
         ELSE work' = Idle /\ UNCHANGED <<hashmap, lcache, lcached>>
  BY <1>1 DEF DeleteEnds
<1>3. o \in Object /\ l \in Seq(Pair) /\ nm \in NameTable /\ DOMAIN hashmap = Object
  BY <1>1, <1>2, WorkCases DEF Inv, Typed
<1>4. AtMostOne({}, o)'
  BY DEF AtMostOne
<1>5. WorkOK' /\ Quiet' /\ UNCHANGED <<lcache, lcached>>
  <2>1. CASE work.recreate
    <3>1. hashmap'[o] = NoMap /\ HashmapCreate(o, l, nm, m, {}) /\ list'[o] = l /\ names' = nm
      BY <2>1, <1>1, <1>2, <1>3
    <3>2. WorkOK' /\ Quiet' /\ (Remember(o, {}) \/ UNCHANGED <<lcache, lcached>>)
      BY <3>1, <1>3, <1>4, CreateStep
    <3> QED BY <3>2 DEF Remember
  <2>2. CASE ~work.recreate
    BY <2>2, <1>2 DEF WorkOK, Quiet, Idle
  <2> QED BY <2>1, <2>2
<1>6. DOMAIN hashmap' = Object /\ \A p \in Object : hashmap'[p] = NoMap \/ hashmap'[p] = hashmap[p]
  <2>1. CASE work.recreate
    BY <2>1, <1>2, <1>3
  <2>2. CASE ~work.recreate
    BY <2>2, <1>2, <1>3
  <2> QED BY <2>1, <2>2
<1>7. HashmapsOK'
  <2> SUFFICES ASSUME NEW p \in Object, hashmap'[p] # NoMap PROVE TableOK(p)'
    BY DEF HashmapsOK
  <2>1. ~Filling(p)' /\ ~Abandoned(p)'
    BY <1>5 DEF Quiet, Filling, Abandoned
  <2>2. ~Filling(p)
    BY <1>2 DEF Filling
  <2>3. ~Abandoned(p)
    <3> SUFFICES ASSUME Abandoned(p) PROVE FALSE
      OBVIOUS
    <3>1. work.recreate /\ p = o
      BY <1>1 DEF Abandoned
    <3> QED BY <3>1, <1>2, <1>3
  <2> QED BY <2>1, <2>2, <2>3, <1>2, <1>6, SameLists, OtherTable DEF Inv
<1>8. CacheOK' /\ CacheTyped' /\ memory' \in [alloc : Nat, high : BOOLEAN]
  BY <1>2, <1>5, SameLists, CacheKept DEF Inv, Typed
<1> QED BY <1>2, <1>5, <1>6, <1>7, <1>8, ListsKept

-----------------------------------------------------------------------------
(* A property is added.                                                    *)

\* The property q with the name n is added to the object o, and nothing
\* else happens to the lists.
Adds(o, q, n) ==
  /\ list' \in [Object -> Seq(Pair)] /\ names' \in NameTable
  /\ q \in Property /\ q \notin PropertySet(o)
  /\ PropertySet(o)' = Added(PropertySet(o), q) /\ NameIn(names', q) = n
  /\ \A p \in Object : p # o => PropertySet(p)' = PropertySet(p)
  /\ \A p \in Object : \A s \in PropertySet(p) : NameIn(names', s) = NameIn(names, s)

LEMMA AddsNames ==
  ASSUME Inv, NEW o \in Object, NEW q, NEW n \in Name, Adds(o, q, n), OnList(o, n) = {}
  PROVE  NamesApart'
<1> SUFFICES ASSUME NEW p \in Object, NEW s \in PropertySet(p)', NEW z \in PropertySet(p)',
                    NameIn(names', s) = NameIn(names', z)
             PROVE  s = z
  BY DEF NamesApart, NameOf
<1>1. \A x, y \in PropertySet(p) : NameIn(names, x) = NameIn(names, y) => x = y
  BY DEF Inv, NamesApart, NameOf
<1>2. CASE p # o
  BY <1>1, <1>2 DEF Adds
<1>3. CASE p = o
  <2>1. \A x \in PropertySet(o) : NameIn(names', x) # n
    BY DEF Adds, OnList, NameOf
  <2>2. s \in PropertySet(o) \cup {q} /\ z \in PropertySet(o) \cup {q} /\ NameIn(names', q) = n
    BY <1>3 DEF Adds, Added
  <2>3. \A x \in PropertySet(o) : NameIn(names', x) = NameIn(names, x)
    BY DEF Adds
  <2> QED BY <2>1, <2>2, <2>3, <1>1, <1>3
<1> QED BY <1>2, <1>3

LEMMA AddsCache ==
  ASSUME Inv, NEW o \in Object, NEW q, NEW n \in Name, Adds(o, q, n),
         UNCHANGED <<lcache, lcached>>
  PROVE  CacheOK' /\ CacheTyped'
<1>1. \A p \in Object : \A s \in PropertySet(p) :
        s \in PropertySet(p)' /\ NameIn(names', s) = NameIn(names, s)
  BY DEF Adds, Added
<1>2. \A p \in Object : \A s \in PropertySet(p) :
        s \in PropertySet(p)' /\ NameOf(s)' = NameOf(s)
  BY <1>1 DEF NameOf
<1> QED BY <1>2, CacheKept DEF Inv

\* The tables of the other objects.
LEMMA AddsOthers ==
  ASSUME Inv, Quiet, Quiet', NEW o \in Object, NEW q, NEW n \in Name, Adds(o, q, n),
         \A p \in Object : p # o => hashmap'[p] = NoMap \/ hashmap'[p] = hashmap[p],
         hashmap'[o] # NoMap => TableOK(o)'
  PROVE  HashmapsOK'
<1> SUFFICES ASSUME NEW p \in Object, hashmap'[p] # NoMap, p # o PROVE TableOK(p)'
  BY DEF HashmapsOK
<1>1. ~Filling(p) /\ ~Abandoned(p) /\ ~Filling(p)' /\ ~Abandoned(p)'
  BY DEF Quiet, Filling, Abandoned
<1>2. PropertySet(p)' = PropertySet(p) /\ \A s \in PropertySet(p) : NameOf(s)' = NameOf(s)
  BY DEF Adds, NameOf
<1> QED BY <1>1, <1>2, OtherTable DEF Inv

\* ecma_property_hashmap_insert after the property was added.
LEMMA AddsInsert ==
  ASSUME Inv, work = Idle, NEW o \in Object, NEW q, NEW n \in Name, Adds(o, q, n),
         NEW h, DOMAIN h = Object, \A p \in Object : h[p] = NoMap \/ h[p] = hashmap[p],
         NEW l, l = list'[o], NEW nm, nm = names', NEW m,
         IF h[o] # NoMap THEN HashmapInsert(o, l, nm, q, h, m)
         ELSE hashmap' = h /\ UNCHANGED <<lcache, lcached, work>>
  PROVE  /\ WorkOK' /\ HashmapsOK' /\ UNCHANGED <<lcache, lcached>>
         /\ DOMAIN hashmap' = Object
<1>1. Quiet /\ ~Filling(o) /\ ~Abandoned(o)
  BY DEF Quiet, Filling, Abandoned, Idle
<1>2. CASE h[o] = NoMap
  <2>1. hashmap' = h /\ UNCHANGED <<lcache, lcached, work>>
    BY <1>2
  <2>2. WorkOK' /\ Quiet'
    BY <2>1 DEF WorkOK, Quiet, Idle
  <2>3. HashmapsOK'
    BY <1>1, <1>2, <2>1, <2>2, AddsOthers
  <2> QED BY <2>1, <2>2, <2>3
<1>3. CASE h[o] # NoMap
  <2>1. HashmapInsert(o, l, nm, q, h, m) /\ h[o] = hashmap[o] /\ hashmap[o] # NoMap
    BY <1>3
  <2>2. Table(h[o], PropertySet(o), names) /\ Counted(h[o])
    BY <1>1, <2>1 DEF Inv, HashmapsOK, TableOK
  <2>3. CASE h[o].null < h[o].max \div NullPart
    <3>1. hashmap' = [h EXCEPT ![o] = NoMap] /\ HashmapCreate(o, l, nm, m, {})
      BY <2>1, <2>3 DEF HashmapInsert
    <3>2. hashmap'[o] = NoMap /\ DOMAIN hashmap' = Object
          /\ \A p \in Object : p # o => hashmap'[p] = NoMap \/ hashmap'[p] = hashmap[p]
      BY <3>1
    <3>3. l \in Seq(Pair) /\ nm \in NameTable /\ AtMostOne({}, o)'
      BY DEF Adds, AtMostOne
    <3>4. WorkOK' /\ Quiet' /\ (Remember(o, {}) \/ UNCHANGED <<lcache, lcached>>)
      BY <3>1, <3>2, <3>3, CreateStep
    <3>5. UNCHANGED <<lcache, lcached>>
      BY <3>4 DEF Remember
    <3>6. HashmapsOK'
      BY <3>2, <3>4, <1>1, AddsOthers
    <3> QED BY <3>2, <3>4, <3>5, <3>6
  <2>4. CASE ~(h[o].null < h[o].max \div NullPart)
    <3>1. PICK t, u, S : t = h[o] /\ u = With(t, NameIn(nm, q), q) /\ S = PropertySet(o)
      OBVIOUS
    <3>2. hashmap' = [h EXCEPT ![o] = u] /\ UNCHANGED <<lcache, lcached, work>>
      BY <2>1, <2>4, <3>1 DEF HashmapInsert
    <3>3. hashmap'[o] = u /\ DOMAIN hashmap' = Object
          /\ \A p \in Object : p # o => hashmap'[p] = NoMap \/ hashmap'[p] = hashmap[p]
      BY <3>2
    <3>4. t.null >= 2
      <4>1. t.max \in Nat /\ MinimumSize \in Nat /\ t.max >= MinimumSize /\ NullPart \in Nat \ {0}
        BY <2>2, <3>1, SizePositive, SizeAssumption DEF Table
      <4>2. MinimumSize \div NullPart <= t.max \div NullPart /\ MinimumSize \div NullPart >= 2
        BY <4>1, DivMono, SizeAssumption
      <4>3. MinimumSize \div NullPart \in Nat /\ t.max \div NullPart \in Nat
        BY <4>1
      <4>4. t.null \in Nat
        BY <2>2, <3>1, FreeCount DEF Table, Counted
      <4> QED BY <4>2, <4>3, <4>4, <2>4, <3>1
    <3>5. Table(t, S, nm)
      <4>1. \A s \in S : NameIn(names, s) = NameIn(nm, s)
        BY <3>1 DEF Adds
      <4> QED BY <4>1, <2>2, <3>1, SameNames
    <3>6. NameIn(nm, q) = n /\ q \in Property /\ q \notin S /\ PropertySet(o)' = Added(S, q)
      BY <3>1 DEF Adds
    <3>7. Table(u, Added(S, q), nm) /\ Counted(u)
      BY <2>2, <3>1, <3>4, <3>5, <3>6, InsertCounted
    <3>8. WorkOK' /\ Quiet'
      BY <3>2 DEF WorkOK, Quiet, Idle
    <3>9. TableOK(o)'
      <4>1. ~Filling(o)' /\ ~Abandoned(o)'
        BY <3>8 DEF Quiet, Filling, Abandoned
      <4> QED BY <4>1, <3>3, <3>6, <3>7 DEF TableOK
    <3>10. HashmapsOK'
      BY <3>3, <3>8, <3>9, <1>1, AddsOthers
    <3> QED BY <3>2, <3>3, <3>8, <3>10
  <2> QED BY <2>3, <2>4
<1> QED BY <1>2, <1>3

\* The first property of the first pair gets a name.
LEMMA FirstGiven ==
  ASSUME Inv, NEW o \in Object, FirstIsDeleted(o), NEW n \in Name, NEW b, b = Head(list[o]),
         list' = list, names' = [names EXCEPT ![b][0] = n]
  PROVE  Adds(o, <<b, 0>>, n)
<1>1. list \in [Object -> Seq(Pair)] /\ names \in NameTable /\ list[o] \in Seq(Pair)
  BY DEF Inv, Typed
<1>2. list[o] # <<>> /\ names[b][0] = Deleted
  BY DEF FirstIsDeleted
<1>3. b \in Members(list[o])
  <2>1. b = list[o][1] /\ 1 \in 1 .. Len(list[o])
    BY <1>1, <1>2, TailProperties, EmptyLen
  <2> QED BY <2>1, <1>1, MembersOf
<1>4. PICK mm, q : mm = [names EXCEPT ![b][0] = n] /\ q = <<b, 0>>
  OBVIOUS
<1>5. /\ mm \in NameTable /\ q \in Property /\ NameIn(mm, q) = n
      /\ \A s \in Property : s # q => NameIn(mm, s) = NameIn(names, s)
      /\ q \notin Properties(list[o], names)
      /\ Properties(list[o], mm) = Added(Properties(list[o], names), q)
  <2>1. PICK l \in Seq(Pair) : l = list[o]
    BY <1>1
  <2>2. q \in Property /\ q[1] \in Members(l) /\ NameIn(names, q) = Deleted
    BY <2>1, <1>1, <1>2, <1>3, <1>4, MembersOf DEF Property, NameIn
  <2>3. LET nm == Given(names, q, n)
        IN  /\ nm \in NameTable /\ NameIn(nm, q) = n
            /\ \A s \in Property : s # q => NameIn(nm, s) = NameIn(names, s)
            /\ q \notin Properties(l, names)
            /\ Properties(l, nm) = Added(Properties(l, names), q)
    BY <2>2, <1>1, NameGiven
  <2>4. mm = Given(names, q, n)
    BY <1>4 DEF Given
  <2> QED BY <2>1, <2>2, <2>3, <2>4
<1>6. \A p \in Object : q \notin PropertySet(p)
  <2>1. NameOf(q) = Deleted
    BY <1>2, <1>4 DEF NameOf, NameIn
  <2> QED BY <2>1, <1>5, SetOf DEF Inv
<1>7. \A p \in Object : \A s \in PropertySet(p) : NameIn(mm, s) = NameIn(names, s)
  BY <1>5, <1>6, SetOf DEF Inv
<1>8. ASSUME NEW p \in Object, p # o PROVE Properties(list[p], mm) = Properties(list[p], names)
  <2>1. list[p] \in Seq(Pair)
    BY <1>1
  <2>2. b \notin Members(list[p])
    BY <1>3, <1>8, OneList DEF Inv
  <2>3. \A s \in Property : s[1] \in Members(list[p]) => NameIn(mm, s) = NameIn(names, s)
    <3>1. q[1] = b
      BY <1>4
    <3>2. \A s : s[1] \in Members(list[p]) => s # q
      BY <3>1, <2>2, Zenon
    <3> QED BY <3>2, <1>5, Zenon
  <2> QED BY <2>1, <2>3, <1>1, <1>5, SameProperties
<1>9. names' = mm
  BY <1>4
<1> QED BY <1>1, <1>4, <1>5, <1>7, <1>8, <1>9 DEF Adds, PropertySet

\* A new pair with one property goes to the front of a list.
LEMMA FrontGiven ==
  ASSUME Inv, NEW o \in Object, NEW n \in Name, NEW b \in Pair \ UsedPairs,
         list' = [list EXCEPT ![o] = <<b>> \o list[o]],
         names' = [names EXCEPT ![b] = [FreePair EXCEPT ![1] = n]]
  PROVE  /\ Adds(o, <<b, 1>>, n) /\ PairsApart'
         /\ list'[o] # <<>> /\ Head(list'[o]) = b /\ names'[b][0] = Deleted
<1>1. list \in [Object -> Seq(Pair)] /\ names \in NameTable
  BY DEF Inv, Typed
<1>2. \A p \in Object : list[p] \in Seq(Pair) /\ b \notin Members(list[p])
  BY <1>1 DEF UsedPairs
<1>3. PICK l, f : l = list[o] /\ f = <<b>> \o l
  OBVIOUS
<1>4. /\ f \in Seq(Pair) /\ f # <<>> /\ Head(f) = b /\ Len(f) = Len(l) + 1
      /\ f[1] = b /\ \A i \in 1 .. Len(l) : f[i + 1] = l[i]
  BY <1>2, <1>3, MembersFront
<1>5. PICK mm, q : mm = [names EXCEPT ![b] = [FreePair EXCEPT ![1] = n]] /\ q = <<b, 1>>
  OBVIOUS
<1>6. /\ mm \in NameTable /\ q \in Property /\ NameIn(mm, q) = n /\ mm[b][0] = Deleted
      /\ \A s \in Property : s[1] # b => NameIn(mm, s) = NameIn(names, s)
      /\ q \notin Properties(l, names)
      /\ Properties(f, mm) = Added(Properties(l, names), q)
  <2>1. l \in Seq(Pair) /\ b \in Pair /\ b \notin Members(l)
    BY <1>2, <1>3
  <2>2. LET nm == GivenPair(names, b, n)
        IN  /\ nm \in NameTable /\ <<b, 1>> \in Property /\ NameIn(nm, <<b, 1>>) = n
            /\ nm[b][0] = Deleted
            /\ \A s \in Property : s[1] # b => NameIn(nm, s) = NameIn(names, s)
            /\ <<b, 1>> \notin Properties(l, names)
            /\ Properties(Front(b, l), nm) = Added(Properties(l, names), <<b, 1>>)
    BY <2>1, <1>1, PairAdded
  <2> QED BY <2>2, <1>3, <1>5 DEF GivenPair, Front
<1>7. list'[o] = f /\ list' \in [Object -> Seq(Pair)] /\ \A p \in Object : p # o => list'[p] = list[p]
  BY <1>1, <1>3, <1>4
<1>8. \A p \in Object : \A s \in PropertySet(p) : NameIn(mm, s) = NameIn(names, s)
  <2> SUFFICES ASSUME NEW p \in Object, NEW s \in PropertySet(p)
               PROVE  NameIn(mm, s) = NameIn(names, s)
    OBVIOUS
  <2>1. s \in Property /\ s[1] \in Members(list[p])
    BY SetOf DEF Inv
  <2> QED BY <2>1, <1>2, <1>6
<1>9. ASSUME NEW p \in Object, p # o PROVE Properties(list[p], mm) = Properties(list[p], names)
  <2>1. \A s \in Property : s[1] \in Members(list[p]) => NameIn(mm, s) = NameIn(names, s)
    BY <1>2, <1>6
  <2> QED BY <2>1, <1>1, <1>2, <1>6, SameProperties
<1>10. names' = mm
  BY <1>5
<1>11. Adds(o, q, n)
  BY <1>3, <1>6, <1>7, <1>8, <1>9, <1>10 DEF Adds, PropertySet
<1>12. PairsApart'
  <2>1. Len(l) \in Nat
    BY <1>2, <1>3, LenProperties
  <2>2. \A i \in 1 .. Len(f) : (f[i] = b /\ i = 1) \/ (i - 1 \in 1 .. Len(l) /\ f[i] = l[i - 1])
    <3> SUFFICES ASSUME NEW i \in 1 .. Len(f), i # 1
                 PROVE  i - 1 \in 1 .. Len(l) /\ f[i] = l[i - 1]
      BY <1>4
    <3>1. i - 1 \in 1 .. Len(l) /\ (i - 1) + 1 = i
      BY <2>1, <1>4
    <3> QED BY <3>1, <1>4
  <2>3. \A p \in Object : \A i \in 1 .. Len(list[p]) : list[p][i] # b
    BY <1>2, MembersOf
  <2>4. \A p, r \in Object : \A i \in 1 .. Len(list[p]), j \in 1 .. Len(list[r]) :
          list[p][i] = list[r][j] => p = r /\ i = j
    BY DEF Inv, PairsApart
  <2> SUFFICES ASSUME NEW p \in Object, NEW r \in Object, NEW i \in 1 .. Len(list'[p]),
                      NEW j \in 1 .. Len(list'[r]), list'[p][i] = list'[r][j]
               PROVE  p = r /\ i = j
    BY DEF PairsApart
  <2>5. CASE p = o /\ r = o
    <3>1. i \in 1 .. Len(f) /\ j \in 1 .. Len(f) /\ f[i] = f[j]
      BY <2>5, <1>7
    <3>2. CASE i = 1
      BY <3>1, <3>2, <2>2, <2>3, <1>3, <2>5
    <3>3. CASE j = 1
      BY <3>1, <3>3, <2>2, <2>3, <1>3, <2>5
    <3>4. CASE i # 1 /\ j # 1
      <4>1. i - 1 \in 1 .. Len(l) /\ j - 1 \in 1 .. Len(l) /\ l[i - 1] = l[j - 1]
        BY <3>1, <3>4, <2>2
      <4>2. i - 1 = j - 1
        <5>1. \A x, y \in 1 .. Len(l) : l[x] = l[y] => x = y
          BY <2>4, <1>3
        <5> QED BY <5>1, <4>1, Zenon
      <4>3. i \in Int /\ j \in Int
        BY <3>1
      <4> QED BY <4>2, <4>3, <2>5
    <3> QED BY <3>2, <3>3, <3>4
  <2>6. CASE p = o /\ r # o
    <3>1. i \in 1 .. Len(f) /\ j \in 1 .. Len(list[r]) /\ f[i] = list[r][j]
      BY <2>6, <1>7
    <3>2. i - 1 \in 1 .. Len(l) /\ l[i - 1] = list[r][j]
      BY <3>1, <2>2, <2>3
    <3> QED BY <3>1, <3>2, <2>4, <2>6, <1>3
  <2>7. CASE p # o /\ r = o
    <3>1. j \in 1 .. Len(f) /\ i \in 1 .. Len(list[p]) /\ f[j] = list[p][i]
      BY <2>7, <1>7
    <3>2. j - 1 \in 1 .. Len(l) /\ l[j - 1] = list[p][i]
      BY <3>1, <2>2, <2>3
    <3> QED BY <3>1, <3>2, <2>4, <2>7, <1>3
  <2>8. CASE p # o /\ r # o
    BY <2>4, <2>8, <1>7
  <2> QED BY <2>5, <2>6, <2>7, <2>8
<1> QED BY <1>4, <1>5, <1>6, <1>7, <1>10, <1>11, <1>12

LEMMA CreateReusesFirstInv ==
  ASSUME Inv, work = Idle, NEW o \in Object, NEW n \in Name, CreateReusesFirst(o, n)
  PROVE  Inv'
<1>1. PICK b, l, nm, h, m :
        b = Head(list[o]) /\ l = list[o] /\ nm = [names EXCEPT ![b][0] = n]
        /\ h = hashmap /\ m = memory
  OBVIOUS
<1>2. /\ OnList(o, n) = {} /\ FirstIsDeleted(o) /\ names' = nm /\ UNCHANGED <<list, memory>>
      /\ IF h[o] # NoMap THEN HashmapInsert(o, l, nm, <<b, 0>>, h, m)
         ELSE hashmap' = h /\ UNCHANGED <<lcache, lcached, work>>
  BY <1>1 DEF CreateReusesFirst, MayCreate
<1>3. PICK q : q = <<b, 0>>
  OBVIOUS
<1>4. Adds(o, q, n)
  BY <1>1, <1>2, <1>3, FirstGiven
<1>5. DOMAIN h = Object /\ memory' \in [alloc : Nat, high : BOOLEAN]
  BY <1>1, <1>2 DEF Inv, Typed
<1>6. /\ WorkOK' /\ HashmapsOK' /\ UNCHANGED <<lcache, lcached>>
      /\ DOMAIN hashmap' = Object
  <2>1. l = list'[o] /\ nm = names' /\ \A p \in Object : h[p] = NoMap \/ h[p] = hashmap[p]
    BY <1>1, <1>2
  <2>2. IF h[o] # NoMap THEN HashmapInsert(o, l, nm, q, h, m)
        ELSE hashmap' = h /\ UNCHANGED <<lcache, lcached, work>>
    BY <1>2, <1>3
  <2> QED BY <2>1, <2>2, <1>4, <1>5, AddsInsert
<1>7. NamesApart' /\ CacheOK' /\ CacheTyped'
  BY <1>2, <1>4, <1>6, AddsNames, AddsCache
<1>8. PairsApart'
  BY <1>2 DEF Inv, PairsApart
<1>9. Typed'
  BY <1>4, <1>5, <1>6, <1>7 DEF Typed, CacheTyped, Adds
<1> QED BY <1>6, <1>7, <1>8, <1>9 DEF Inv

LEMMA CreateAllocatesInv ==
  ASSUME Inv, work = Idle, NEW o \in Object, NEW n \in Name, NEW a \in Pressure,
         CreateAllocates(o, n, a)
  PROVE  Inv'
<1>1. PICK h, m : h = HashmapsAfter(hashmap, a) /\ m = MemoryAfter(memory, a)
  OBVIOUS
<1>2. OnList(o, n) = {} /\ memory' = m
  BY <1>1 DEF CreateAllocates, MayCreate
<1>3. PICK b \in Pair \ UsedPairs :
        LET l  == <<b>> \o list[o]
            nm == [names EXCEPT ![b] = [FreePair EXCEPT ![1] = n]]
        IN  /\ list' = [list EXCEPT ![o] = l]
            /\ names' = nm
            /\ IF h[o] # NoMap
               THEN HashmapInsert(o, l, nm, <<b, 1>>, h, m)
               ELSE hashmap' = h /\ UNCHANGED <<lcache, lcached, work>>
  BY <1>1 DEF CreateAllocates
<1>4. PICK l, nm, q : l = <<b>> \o list[o] /\ q = <<b, 1>>
                      /\ nm = [names EXCEPT ![b] = [FreePair EXCEPT ![1] = n]]
  OBVIOUS
<1>5. /\ list' = [list EXCEPT ![o] = l] /\ names' = nm
      /\ IF h[o] # NoMap THEN HashmapInsert(o, l, nm, q, h, m)
         ELSE hashmap' = h /\ UNCHANGED <<lcache, lcached, work>>
  BY <1>3, <1>4
<1>6. Adds(o, q, n) /\ PairsApart'
  BY <1>4, <1>5, FrontGiven
<1>7. /\ DOMAIN h = Object /\ memory' \in [alloc : Nat, high : BOOLEAN]
      /\ \A p \in Object : h[p] = NoMap \/ h[p] = hashmap[p]
  BY <1>1, <1>2, SomeHashmaps, PressureTypes DEF Inv, Typed
<1>8. l = list'[o] /\ nm = names'
  BY <1>5 DEF Inv, Typed
<1>9. /\ WorkOK' /\ HashmapsOK' /\ UNCHANGED <<lcache, lcached>>
      /\ DOMAIN hashmap' = Object
  BY <1>5, <1>6, <1>7, <1>8, AddsInsert
<1>10. NamesApart' /\ CacheOK' /\ CacheTyped'
  BY <1>2, <1>6, <1>9, AddsNames, AddsCache
<1>11. Typed'
  BY <1>6, <1>7, <1>9, <1>10 DEF Typed, CacheTyped, Adds
<1> QED BY <1>6, <1>9, <1>10, <1>11 DEF Inv

\* An element of a fast array becomes a property.
LEMMA ConvertElementInv ==
  ASSUME Inv, NEW e \in Name, NEW a \in Pressure, ConvertElement(e, a)
  PROVE  Inv'
<1>1. PICK o, left, i, h : o = work.obj /\ left = work.left /\ i = work.prop_index
                           /\ h = HashmapsAfter(hashmap, a)
  OBVIOUS
<1>2. /\ work.op = "convert" /\ e \in left /\ UNCHANGED <<lcache, lcached>>
      /\ IF i = 1
         THEN /\ \E b \in Pair \ UsedPairs :
                   /\ list' = [list EXCEPT ![o] = <<b>> \o list[o]]
                   /\ names' = [names EXCEPT ![b] = [FreePair EXCEPT ![1] = e]]
              /\ hashmap' = h
              /\ memory' = MemoryAfter(memory, a)
         ELSE /\ names' = [names EXCEPT ![Head(list[o])][0] = e]
              /\ UNCHANGED <<list, hashmap, memory>>
      /\ work' = IF left = {e} THEN Idle
                 ELSE [work EXCEPT !.left = left \ {e}, !.prop_index = 1 - i]
  BY <1>1 DEF ConvertElement
<1>3. ConvertOK /\ o \in Object
  BY <1>1, <1>2, WorkCases DEF Inv
<1>4. /\ work = [op |-> "convert", obj |-> o, left |-> left, prop_index |-> i]
      /\ left \subseteq Name /\ i \in {0, 1} /\ hashmap[o] = NoMap
      /\ \A q \in PropertySet(o) : NameOf(q) \notin left
      /\ i = 0 => FirstIsDeleted(o)
  BY <1>1, <1>3 DEF ConvertOK
<1>5. OnList(o, e) = {}
  BY <1>2, <1>4 DEF OnList
<1>6. /\ DOMAIN h = Object /\ \A p \in Object : h[p] = NoMap \/ h[p] = hashmap[p]
      /\ MemoryAfter(memory, a) \in [alloc : Nat, high : BOOLEAN] /\ DOMAIN hashmap = Object
      /\ memory \in [alloc : Nat, high : BOOLEAN]
  BY <1>1, SomeHashmaps, PressureTypes DEF Inv, Typed
<1>7. PICK q : Adds(o, q, e) /\ PairsApart' /\ (i = 1 => FirstIsDeleted(o)')
  <2>1. CASE i = 1
    <3>1. PICK b \in Pair \ UsedPairs :
            /\ list' = [list EXCEPT ![o] = <<b>> \o list[o]]
            /\ names' = [names EXCEPT ![b] = [FreePair EXCEPT ![1] = e]]
      BY <1>2, <2>1
    <3>2. /\ Adds(o, <<b, 1>>, e) /\ PairsApart'
          /\ list'[o] # <<>> /\ Head(list'[o]) = b /\ names'[b][0] = Deleted
      BY <3>1, <1>2, <1>3, FrontGiven
    <3> QED BY <3>2 DEF FirstIsDeleted
  <2>2. CASE i = 0
    <3>1. PICK b : b = Head(list[o])
      OBVIOUS
    <3>2. list' = list /\ names' = [names EXCEPT ![b][0] = e] /\ FirstIsDeleted(o)
      BY <3>1, <2>2, <1>2, <1>4
    <3>3. Adds(o, <<b, 0>>, e)
      BY <3>1, <3>2, <1>3, FirstGiven
    <3>4. PairsApart'
      BY <3>2 DEF Inv, PairsApart
    <3> QED BY <3>3, <3>4, <2>2
  <2> QED BY <2>1, <2>2, <1>4
<1>8. /\ DOMAIN hashmap' = Object /\ memory' \in [alloc : Nat, high : BOOLEAN]
      /\ \A p \in Object : hashmap'[p] = NoMap \/ hashmap'[p] = hashmap[p]
      /\ hashmap'[o] = NoMap
  <2>1. CASE i = 1
    BY <2>1, <1>2, <1>3, <1>4, <1>6
  <2>2. CASE i = 0
    BY <2>2, <1>2, <1>4, <1>6
  <2> QED BY <2>1, <2>2, <1>4
<1>9. WorkOK' /\ Quiet'
  <2>1. CASE left = {e}
    BY <2>1, <1>2 DEF WorkOK, Quiet, Idle
  <2>2. CASE left # {e}
    <3>1. work' = [op |-> "convert", obj |-> o, left |-> left \ {e}, prop_index |-> 1 - i]
      BY <2>2, <1>2, <1>4
    <3>2. 1 - i \in {0, 1} /\ (1 - i = 0 => i = 1)
      BY <1>4
    <3>3. \A s \in PropertySet(o)' : NameIn(names', s) \notin left \ {e}
      <4>1. \A s \in PropertySet(o) : NameIn(names', s) \notin left
        BY <1>3, <1>4, <1>7 DEF Adds, NameOf
      <4>2. NameIn(names', q) = e /\ PropertySet(o)' = Added(PropertySet(o), q)
        BY <1>7 DEF Adds
      <4> QED BY <4>1, <4>2 DEF Added
    <3>4. \A s \in PropertySet(work.obj)' : NameOf(s)' \notin work'.left
      BY <3>1, <3>3 DEF PropertySet, NameOf
    <3>5. work'.prop_index = 0 => FirstIsDeleted(work.obj)'
      BY <3>1, <3>2, <1>7 DEF FirstIsDeleted
    <3>6. ConvertOK'
      BY <3>1, <3>2, <3>4, <3>5, <1>3, <1>4, <1>8 DEF ConvertOK
    <3> QED BY <3>1, <3>6 DEF WorkOK, Quiet
  <2> QED BY <2>1, <2>2
<1>10. Quiet
  BY <1>2 DEF Quiet
<1>11. HashmapsOK'
  BY <1>3, <1>7, <1>8, <1>9, <1>10, AddsOthers
<1>12. NamesApart' /\ CacheOK' /\ CacheTyped'
  BY <1>2, <1>3, <1>5, <1>7, AddsNames, AddsCache
<1>13. Typed'
  BY <1>7, <1>8, <1>12 DEF Typed, CacheTyped, Adds
<1> QED BY <1>7, <1>9, <1>11, <1>12, <1>13 DEF Inv

-----------------------------------------------------------------------------
(* Properties are removed.                                                 *)

\* The properties gone leave the object o, and nothing else happens to the
\* lists.
Removes(o, gone) ==
  /\ list' \in [Object -> Seq(Pair)] /\ names' \in NameTable
  /\ gone \subseteq PropertySet(o)
  /\ PropertySet(o)' = PropertySet(o) \ gone
  /\ \A p \in Object : p # o => PropertySet(p)' = PropertySet(p)
  /\ \A p \in Object : \A s \in PropertySet(p) : s \notin gone => NameIn(names', s) = NameIn(names, s)

LEMMA RemovesAll ==
  ASSUME Inv, NEW o \in Object, NEW gone, gone \subseteq PropertySet(o),
         names' = NamesWithout(gone), list' \in [Object -> Seq(Pair)],
         \A p \in Object : p # o => list'[p] = list[p],
         Properties(list'[o], names') = PropertySet(o) \ gone
  PROVE  Removes(o, gone)
<1>1. Typed /\ PairsApart /\ names \in NameTable /\ list \in [Object -> Seq(Pair)]
  BY DEF Inv, Typed
<1>2. gone \in SUBSET Property
  BY <1>1, SetOf
<1>3. PICK mm : mm = NamesWithout(gone)
  OBVIOUS
<1>4. ASSUME NEW l \in Seq(Pair)
      PROVE  /\ mm \in NameTable
             /\ \A q \in Property \ gone : NameIn(mm, q) = NameOf(q)
             /\ Properties(l, mm) = Properties(l, names) \ gone
  BY <1>1, <1>2, <1>3, NamesLost
<1>5. /\ mm \in NameTable
      /\ \A q \in Property \ gone : NameIn(mm, q) = NameIn(names, q)
  BY <1>1, <1>4 DEF NameOf
<1>6. ASSUME NEW p \in Object, p # o PROVE Properties(list[p], mm) = Properties(list[p], names)
  <2>1. Properties(list[p], mm) = Properties(list[p], names) \ gone
    BY <1>1, <1>4
  <2>2. ASSUME NEW q \in gone PROVE q \notin PropertySet(p)
    BY <2>2, <1>1, <1>6, OneOwner
  <2> QED BY <2>1, <2>2 DEF PropertySet
<1>7. \A p \in Object : PropertySet(p) \subseteq Property
  BY <1>1, SetOf
<1>8. names' = mm
  BY <1>3
<1>9. \A p \in Object : p # o => PropertySet(p)' = PropertySet(p)
  BY <1>6, <1>8 DEF PropertySet
<1>10. PropertySet(o)' = PropertySet(o) \ gone
  BY DEF PropertySet
<1> QED BY <1>5, <1>7, <1>8, <1>9, <1>10 DEF Removes

LEMMA RemovesStep ==
  ASSUME Inv, NEW o \in Object, NEW gone, Removes(o, gone), LcacheInvalidate(o, gone)
  PROVE  NamesApart' /\ CacheOK' /\ CacheTyped'
<1>1. Typed /\ PairsApart /\ NamesApart /\ CacheOK
  BY DEF Inv
<1>2. \A p \in Object : \A q \in PropertySet(p) :
        q \notin gone => q \in PropertySet(p)' /\ NameIn(names', q) = NameIn(names, q)
  BY DEF Removes
<1>3. \A p \in Object : \A q \in PropertySet(p)' : q \in PropertySet(p) /\ q \notin gone
  <2> SUFFICES ASSUME NEW p \in Object, NEW q \in PropertySet(p)'
               PROVE  q \in PropertySet(p) /\ q \notin gone
    OBVIOUS
  <2>1. CASE p = o
    BY <2>1 DEF Removes
  <2>2. CASE p # o
    <3>1. q \in PropertySet(p)
      BY <2>2 DEF Removes
    <3>2. q \in gone => q \in PropertySet(o)
      BY DEF Removes
    <3> QED BY <3>1, <3>2, <2>2, <1>1, OneOwner
  <2> QED BY <2>1, <2>2
<1>4. NamesApart'
  <2> SUFFICES ASSUME NEW p \in Object, NEW q \in PropertySet(p)', NEW s \in PropertySet(p)',
                      NameIn(names', q) = NameIn(names', s)
               PROVE  q = s
    BY DEF NamesApart, NameOf
  <2>1. /\ q \in PropertySet(p) /\ s \in PropertySet(p)
        /\ NameIn(names, q) = NameIn(names, s)
    BY <1>2, <1>3
  <2> QED BY <2>1, <1>1 DEF NamesApart, NameOf
<1>5. \A p \in Object : \A q \in PropertySet(p) :
        q \notin gone => q \in PropertySet(p)' /\ NameOf(q)' = NameOf(q)
  BY <1>2 DEF NameOf
<1>6. gone \subseteq PropertySet(o)
  BY DEF Removes
<1> QED BY <1>1, <1>4, <1>5, <1>6, CacheInvalidated

\* The tables of the other objects.
LEMMA RemovesOthers ==
  ASSUME Inv, NEW o \in Object, NEW gone, Removes(o, gone), NEW p \in Object, p # o,
         ~Filling(p), ~Abandoned(p), ~Filling(p)', ~Abandoned(p)',
         hashmap'[p] = hashmap[p], hashmap'[p] # NoMap
  PROVE  TableOK(p)'
<1>1. PropertySet(p)' = PropertySet(p)
  BY DEF Removes
<1>2. \A q \in PropertySet(p) : NameOf(q)' = NameOf(q)
  <2>1. \A q \in PropertySet(p) : q \notin gone
    BY OneOwner DEF Inv, Removes
  <2> QED BY <2>1 DEF Removes, NameOf
<1> QED BY <1>1, <1>2, OtherTable DEF Inv

LEMMA FreeObjectInv ==
  ASSUME Inv, work = Idle, NEW o \in Object, FreeObject(o)
  PROVE  Inv'
<1>1. PICK gone : gone = PropertySet(o)
  OBVIOUS
<1>2. /\ list' = [list EXCEPT ![o] = <<>>] /\ names' = NamesWithout(gone)
      /\ hashmap' = [hashmap EXCEPT ![o] = NoMap]
      /\ LcacheInvalidate(o, gone) /\ UNCHANGED <<memory, work>>
  BY <1>1 DEF FreeObject
<1>3. /\ list \in [Object -> Seq(Pair)] /\ DOMAIN hashmap = Object
      /\ memory' \in [alloc : Nat, high : BOOLEAN]
  BY <1>2 DEF Inv, Typed
<1>4. /\ list' \in [Object -> Seq(Pair)] /\ list'[o] = <<>>
      /\ \A p \in Object : p # o => list'[p] = list[p]
  BY <1>2, <1>3
<1>5. Removes(o, gone)
  <2>1. Members(<<>>) = {}
    BY DEF Members
  <2>2. Properties(list'[o], names') = {}
    BY <2>1, <1>4 DEF Properties
  <2>3. gone \subseteq PropertySet(o) /\ PropertySet(o) \ gone = {}
    BY <1>1
  <2>4. Properties(list'[o], names') = PropertySet(o) \ gone
    BY <2>2, <2>3
  <2> QED BY <2>3, <2>4, <1>2, <1>4, RemovesAll
<1>6. NamesApart' /\ CacheOK' /\ CacheTyped'
  BY <1>2, <1>5, RemovesStep
<1>7. PairsApart'
  <2>1. Len(<<>>) = 0
    OBVIOUS
  <2> SUFFICES ASSUME NEW p \in Object, NEW r \in Object, NEW i \in 1 .. Len(list'[p]),
                      NEW j \in 1 .. Len(list'[r]), list'[p][i] = list'[r][j]
               PROVE  p = r /\ i = j
    BY DEF PairsApart
  <2>2. p # o /\ r # o
    BY <2>1, <1>4
  <2> QED BY <2>2, <1>4 DEF Inv, PairsApart
<1>8. DOMAIN hashmap' = Object /\ \A p \in Object : p # o => hashmap'[p] = hashmap[p]
  BY <1>2, <1>3
<1>9. hashmap'[o] = NoMap
  BY <1>2, <1>3
<1>10. WorkOK' /\ \A p : ~Filling(p) /\ ~Abandoned(p) /\ ~Filling(p)' /\ ~Abandoned(p)'
  BY <1>2 DEF WorkOK, Idle, Filling, Abandoned
<1>11. HashmapsOK'
  <2> SUFFICES ASSUME NEW p \in Object, hashmap'[p] # NoMap PROVE TableOK(p)'
    BY DEF HashmapsOK
  <2>1. p # o
    BY <1>9
  <2> QED BY <2>1, <1>5, <1>8, <1>10, RemovesOthers
<1>12. Typed'
  BY <1>3, <1>5, <1>6, <1>8 DEF Typed, CacheTyped, Removes
<1> QED BY <1>6, <1>7, <1>10, <1>11, <1>12 DEF Inv

\* A table and the RECREATE answer: without it the table holds S.
StateFor(s, S, nm) ==
  \E u : \E x \in BOOLEAN :
    /\ s = [table |-> u, recreate |-> x]
    /\ u # NoMap /\ ~x => Table(u, S, nm) /\ Counted(u)

\* A property leaves a table, or asks for a new one.
LEMMA TakeOne ==
  ASSUME NEW s, NEW S, NEW nm, NEW q, StateFor(s, S, nm), q \in work.props => q \in S
  PROVE  StateFor(Take(s, q), S \ (work.props \cap {q}), nm)
<1>1. PICK t, r : /\ s = [table |-> t, recreate |-> r] /\ r \in BOOLEAN
                  /\ t # NoMap /\ ~r => Table(t, S, nm) /\ Counted(t)
  BY DEF StateFor
<1>6. s.table = t /\ (s.recreate <=> r)
  BY <1>1
<1>2. CASE q \notin work.props
  <2>1. Take(s, q) = s
    BY <1>2, Zenon DEF Take
  <2>2. S \ (work.props \cap {q}) = S
    BY <1>2
  <2> QED BY <2>1, <2>2
<1>3. CASE t = NoMap \/ r
  <2>1. Take(s, q) = s
    BY <1>3, <1>6 DEF Take
  <2> QED BY <2>1, <1>1, <1>3 DEF StateFor
<1>4. CASE q \in work.props /\ t # NoMap /\ ~r /\ MostlyUnused(t)
  <2>1. Take(s, q) = [s EXCEPT !.recreate = TRUE]
    BY <1>4, <1>6 DEF Take
  <2>2. Take(s, q) = [table |-> t, recreate |-> TRUE]
    BY <2>1, <1>1
  <2> QED BY <2>2 DEF StateFor
<1>5. CASE q \in work.props /\ t # NoMap /\ ~r /\ ~MostlyUnused(t)
  <2>1. Take(s, q) = [s EXCEPT !.table = Without(@, q)]
    BY <1>5, <1>6 DEF Take
  <2>2. Take(s, q) = [table |-> Without(t, q), recreate |-> r]
    BY <2>1, <1>1
  <2>3. Table(Without(t, q), Removed(S, q), nm) /\ Counted(Without(t, q))
    BY <1>1, <1>5, DeleteCounted
  <2>4. Removed(S, q) = S \ (work.props \cap {q})
    BY <1>5 DEF Removed
  <2> QED BY <2>2, <2>3, <2>4, <1>1 DEF StateFor
<1> QED BY <1>2, <1>3, <1>4, <1>5

LEMMA TakeBoth ==
  ASSUME NEW s, NEW S, NEW nm, NEW b, StateFor(s, S, nm),
         \A i \in {0, 1} : <<b, i>> \in work.props => <<b, i>> \in S
  PROVE  StateFor(Take(Take(s, <<b, 0>>), <<b, 1>>),
                  S \ (work.props \cap {<<b, 0>>, <<b, 1>>}), nm)
<1>1. PICK p, q : p = <<b, 0>> /\ q = <<b, 1>>
  OBVIOUS
<1>2. p # q /\ (p \in work.props => p \in S) /\ (q \in work.props => q \in S)
  BY <1>1
<1>3. StateFor(Take(s, p), S \ (work.props \cap {p}), nm)
  BY <1>2, TakeOne
<1>4. q \in work.props => q \in S \ (work.props \cap {p})
  BY <1>2
<1>5. StateFor(Take(Take(s, p), q), (S \ (work.props \cap {p})) \ (work.props \cap {q}), nm)
  BY <1>3, <1>4, TakeOne
<1>6. (S \ (work.props \cap {p})) \ (work.props \cap {q}) = S \ (work.props \cap {p, q})
  OBVIOUS
<1> QED BY <1>1, <1>5, <1>6

\* A list without its k-th pair.
LEMMA PairsUnlinked ==
  ASSUME Inv, NEW o \in Object, NEW k \in 1 .. Len(list[o]),
         list' = [list EXCEPT ![o] = Unlink(list[o], k)]
  PROVE  /\ PairsApart' /\ list' \in [Object -> Seq(Pair)]
         /\ list'[o] = Unlink(list[o], k)
         /\ \A p \in Object : p # o => list'[p] = list[p]
         /\ \A i \in 1 .. Len(list'[o]) : i >= k =>
              i + 1 \in 1 .. Len(list[o]) /\ list'[o][i] = list[o][i + 1]
<1>1. list \in [Object -> Seq(Pair)]
  BY DEF Inv, Typed
<1>2. PICK l, u : l = list[o] /\ u = Unlink(l, k)
  OBVIOUS
<1>3. l \in Seq(Pair) /\ k \in 1 .. Len(l) /\ Len(l) \in Nat
  BY <1>1, <1>2, LenProperties
<1>4. \A p, r \in Object : \A i \in 1 .. Len(list[p]), j \in 1 .. Len(list[r]) :
        list[p][i] = list[r][j] => p = r /\ i = j
  BY DEF Inv, PairsApart
<1>5. \A i, j \in 1 .. Len(l) : l[i] = l[j] => i = j
  BY <1>2, <1>4
<1>6. /\ u \in Seq(Pair) /\ Len(u) = Len(l) - 1
      /\ \A i \in 1 .. Len(l) - 1 : u[i] = IF i < k THEN l[i] ELSE l[i + 1]
  <2>1. LET w == Unlink(l, k)
        IN  /\ w \in Seq(Pair) /\ Len(w) = Len(l) - 1
            /\ \A i \in 1 .. Len(l) - 1 : w[i] = IF i < k THEN l[i] ELSE l[i + 1]
            /\ Members(w) = Members(l) \ {l[k]}
    BY <1>3, <1>5, MembersUnlink
  <2> QED BY <2>1, <1>2
<1>7. /\ list' \in [Object -> Seq(Pair)] /\ list'[o] = u
      /\ \A p \in Object : p # o => list'[p] = list[p]
  BY <1>1, <1>2, <1>6
<1>8. \A i \in 1 .. Len(u) : \E x \in 1 .. Len(l) :
        u[i] = l[x] /\ x = IF i < k THEN i ELSE i + 1
  <2> SUFFICES ASSUME NEW i \in 1 .. Len(u)
               PROVE  \E x \in 1 .. Len(l) : u[i] = l[x] /\ x = IF i < k THEN i ELSE i + 1
    OBVIOUS
  <2>1. PICK x : x = IF i < k THEN i ELSE i + 1
    OBVIOUS
  <2>2. x \in 1 .. Len(l) /\ i \in 1 .. Len(l) - 1
    BY <2>1, <1>3, <1>6
  <2> QED BY <2>1, <2>2, <1>6
<1>9. PairsApart'
  <2> SUFFICES ASSUME NEW p \in Object, NEW r \in Object, NEW i \in 1 .. Len(list'[p]),
                      NEW j \in 1 .. Len(list'[r]), list'[p][i] = list'[r][j]
               PROVE  p = r /\ i = j
    BY DEF PairsApart
  <2>1. PICK x : x \in 1 .. Len(list[p]) /\ list'[p][i] = list[p][x]
                 /\ x = IF p = o /\ ~(i < k) THEN i + 1 ELSE i
    <3>1. CASE p = o
      BY <3>1, <1>2, <1>7, <1>8
    <3>2. CASE p # o
      BY <3>2, <1>7
    <3> QED BY <3>1, <3>2
  <2>2. PICK y : y \in 1 .. Len(list[r]) /\ list'[r][j] = list[r][y]
                 /\ y = IF r = o /\ ~(j < k) THEN j + 1 ELSE j
    <3>1. CASE r = o
      BY <3>1, <1>2, <1>7, <1>8
    <3>2. CASE r # o
      BY <3>2, <1>7
    <3> QED BY <3>1, <3>2
  <2>3. p = r /\ x = y
    <3>1. x \in 1 .. Len(list[p]) /\ y \in 1 .. Len(list[r]) /\ list[p][x] = list[r][y]
      BY <2>1, <2>2
    <3> QED BY <3>1, <1>4
  <2>4. i \in Int /\ j \in Int /\ k \in Int
    BY <1>3
  <2> QED BY <2>1, <2>2, <2>3, <2>4
<1>10. \A i \in 1 .. Len(u) : i >= k => i + 1 \in 1 .. Len(l) /\ u[i] = l[i + 1]
  BY <1>3, <1>6
<1> QED BY <1>2, <1>7, <1>9, <1>10

\* What a step of the walk takes from its pair.
LEMMA GoneProperties ==
  ASSUME Inv, work.op = "delete", NEW o, o = work.obj, NEW k, k = work.at, k <= Len(list[o]),
         NEW b, b = list[o][k]
  PROVE  /\ DeleteOK /\ o \in Object /\ k \in 1 .. Len(list[o])
         /\ b \in Pair /\ b \in Members(list[o])
         /\ \A i \in {0, 1} : <<b, i>> \in work.props => <<b, i>> \in PropertySet(o)
<1>1. DeleteOK /\ o \in Object
  BY WorkCases DEF Inv
<1>2. work \in [op : {"delete"}, obj : Object, at : Nat \ {0}, props : SUBSET Property,
                recreate : BOOLEAN]
  BY <1>1 DEF DeleteOK
<1>3. list[o] \in Seq(Pair)
  BY <1>1, SetOf DEF Inv
<1>4. k \in 1 .. Len(list[o]) /\ k >= k
  BY <1>2, <1>3, LenProperties
<1>5. b \in Pair /\ b \in Members(list[o])
  BY <1>3, <1>4, MembersOf
<1>6. \A i \in {0, 1} : <<b, i>> \in work.props => names[b][i] # Deleted
  BY <1>1, <1>4 DEF DeleteOK
<1>7. ASSUME NEW i \in {0, 1}, <<b, i>> \in work.props PROVE <<b, i>> \in PropertySet(o)
  <2>1. PICK q : q = <<b, i>>
    OBVIOUS
  <2>2. q \in Property /\ q[1] \in Members(list[o]) /\ NameOf(q) # Deleted
    BY <2>1, <1>5, <1>6, <1>7 DEF Property, NameOf, NameIn
  <2>3. q \in PropertySet(o)
    BY <2>2, <1>1, SetOf DEF Inv
  <2> QED BY <2>1, <2>3
<1> QED BY <1>1, <1>4, <1>5, <1>7

LEMMA DeletePairInv ==
  ASSUME Inv, DeletePair
  PROVE  Inv'
<1>1. PICK o, k, b, gone, r : o = work.obj /\ k = work.at /\ b = list[o][k] /\ r = work.recreate
                              /\ gone = work.props \cap {<<b, 0>>, <<b, 1>>}
  OBVIOUS
<1>2. PICK after : after = Take(Take([table |-> hashmap[o], recreate |-> r], <<b, 0>>), <<b, 1>>)
  OBVIOUS
<1>3. PICK mm : mm = NamesWithout(gone)
  OBVIOUS
<1>4. /\ work.op = "delete" /\ k <= Len(list[o]) /\ names' = mm
      /\ hashmap' = [hashmap EXCEPT ![o] = after.table]
      /\ LcacheInvalidate(o, gone) /\ memory' = memory
      /\ IF mm[b] = FreePair
         THEN /\ list' = [list EXCEPT ![o] = Unlink(list[o], k)]
              /\ work' = [work EXCEPT !.recreate = after.recreate]
         ELSE /\ work' = [work EXCEPT !.recreate = after.recreate, !.at = k + 1]
              /\ list' = list
  BY <1>1, <1>2, <1>3 DEF DeletePair
<1>5. /\ DeleteOK /\ o \in Object /\ k \in 1 .. Len(list[o])
      /\ b \in Pair /\ b \in Members(list[o])
      /\ \A i \in {0, 1} : <<b, i>> \in work.props => <<b, i>> \in PropertySet(o)
  BY <1>1, <1>4, GoneProperties
<1>6. work \in [op : {"delete"}, obj : Object, at : Nat \ {0}, props : SUBSET Property,
                recreate : BOOLEAN]
  BY <1>5 DEF DeleteOK
<1>7. /\ list \in [Object -> Seq(Pair)] /\ names \in NameTable /\ DOMAIN hashmap = Object
      /\ memory' \in [alloc : Nat, high : BOOLEAN] /\ list[o] \in Seq(Pair)
  BY <1>4, <1>5 DEF Inv, Typed
<1>8. gone \subseteq PropertySet(o) /\ gone \in SUBSET Property
  <2>1. gone \subseteq PropertySet(o)
    BY <1>1, <1>5
  <2> QED BY <2>1, <1>5, SetOf DEF Inv
<1>9. /\ mm \in NameTable
      /\ \A q \in Property \ gone : NameIn(mm, q) = NameOf(q)
      /\ Properties(list[o], mm) = Properties(list[o], names) \ gone
  BY <1>3, <1>7, <1>8, NamesLost
<1>10. \A i, j \in 1 .. Len(list[o]) : list[o][i] = list[o][j] => i = j
  BY <1>5 DEF Inv, PairsApart
<1>11. /\ PairsApart' /\ list' \in [Object -> Seq(Pair)]
       /\ \A p \in Object : p # o => list'[p] = list[p]
       /\ Properties(list'[o], mm) = PropertySet(o) \ gone
  <2>1. CASE mm[b] = FreePair
    <3>1. /\ PairsApart' /\ list' \in [Object -> Seq(Pair)]
          /\ list'[o] = Unlink(list[o], k)
          /\ \A p \in Object : p # o => list'[p] = list[p]
      BY <2>1, <1>4, <1>5, PairsUnlinked
    <3>2. PICK l : l = list[o]
      OBVIOUS
    <3>3. l \in Seq(Pair) /\ k \in 1 .. Len(l) /\ mm[l[k]] = FreePair
          /\ \A i, j \in 1 .. Len(l) : l[i] = l[j] => i = j
      BY <3>2, <2>1, <1>1, <1>5, <1>7, <1>10
    <3>4. Properties(Unlink(l, k), mm) = Properties(l, mm)
      BY <3>3, <1>9, UnlinkProperties
    <3> QED BY <3>1, <3>2, <3>4, <1>9 DEF PropertySet
  <2>2. CASE mm[b] # FreePair
    <3>1. list' = list
      BY <2>2, <1>4
    <3>2. PairsApart'
      BY <3>1 DEF Inv, PairsApart
    <3> QED BY <3>1, <3>2, <1>7, <1>9 DEF PropertySet
  <2> QED BY <2>1, <2>2
<1>12. Removes(o, gone)
  <2>1. Properties(list'[o], names') = PropertySet(o) \ gone
    BY <1>4, <1>11
  <2> QED BY <2>1, <1>3, <1>4, <1>5, <1>8, <1>11, RemovesAll
<1>13. NamesApart' /\ CacheOK' /\ CacheTyped'
  BY <1>4, <1>5, <1>12, RemovesStep
<1>14. PICK u, x : /\ x \in BOOLEAN /\ after = [table |-> u, recreate |-> x]
                   /\ u # NoMap /\ ~x => Table(u, PropertySet(o) \ gone, names) /\ Counted(u)
  <2>1. PICK t, S : t = hashmap[o] /\ S = PropertySet(o)
    OBVIOUS
  <2>2. t # NoMap /\ ~r => Table(t, S, names) /\ Counted(t)
    <3>1. t # NoMap => TableOK(o)
      BY <2>1, <1>5 DEF Inv, HashmapsOK
    <3>2. ~Filling(o) /\ (~r => ~Abandoned(o))
      BY <1>1, <1>4 DEF Filling, Abandoned
    <3> QED BY <3>1, <3>2, <2>1 DEF TableOK
  <2>3. r \in BOOLEAN
    BY <1>1, <1>6
  <2>4. \A i \in {0, 1} : <<b, i>> \in work.props => <<b, i>> \in S
    BY <2>1, <1>5
  <2>5. StateFor([table |-> t, recreate |-> r], S, names)
    BY <2>2, <2>3 DEF StateFor
  <2>6. StateFor(after, S \ gone, names)
    BY <2>1, <2>4, <2>5, <1>1, <1>2, TakeBoth
  <2> QED BY <2>1, <2>6 DEF StateFor
<1>15. /\ DOMAIN hashmap' = Object /\ hashmap'[o] = u
       /\ \A p \in Object : p # o => hashmap'[p] = hashmap[p]
  <2>1. after.table = u
    BY <1>14
  <2> QED BY <2>1, <1>4, <1>5, <1>7
<1>16. /\ work' = [work EXCEPT !.recreate = x, !.at = IF mm[b] = FreePair THEN k ELSE k + 1]
  <2>1. after.recreate = x
    BY <1>14
  <2>2. CASE mm[b] = FreePair
    <3>1. work' = [work EXCEPT !.recreate = x]
      BY <2>1, <2>2, <1>4
    <3> QED BY <3>1, <2>2, <1>1, <1>6
  <2>3. CASE mm[b] # FreePair
    BY <2>1, <2>3, <1>4
  <2> QED BY <2>2, <2>3
<1>17. PICK at : at = IF mm[b] = FreePair THEN k ELSE k + 1
  OBVIOUS
<1>18. /\ work' \in [op : {"delete"}, obj : Object, at : Nat \ {0}, props : SUBSET Property,
                     recreate : BOOLEAN]
       /\ work'.op = "delete" /\ work'.obj = o /\ work'.at = at /\ work'.props = work.props
       /\ work'.recreate = x
  <2>1. at \in Nat \ {0} /\ x \in BOOLEAN
    BY <1>1, <1>6, <1>14, <1>17
  <2>2. work' = [work EXCEPT !.recreate = x, !.at = at]
    BY <1>16, <1>17
  <2> QED BY <2>1, <2>2, <1>1, <1>6
<1>19. WorkOK'
  <2>1. ASSUME NEW i \in 1 .. Len(list'[o]), NEW j \in {0, 1}, i >= at,
               <<list'[o][i], j>> \in work.props
        PROVE  mm[list'[o][i]][j] # Deleted
    <3>1. PICK y \in 1 .. Len(list[o]) : y > k /\ list'[o][i] = list[o][y]
      <4>1. CASE mm[b] = FreePair
        <5>1. \A z \in 1 .. Len(list'[o]) : z >= k =>
                z + 1 \in 1 .. Len(list[o]) /\ list'[o][z] = list[o][z + 1]
          BY <4>1, <1>4, <1>5, PairsUnlinked
        <5>2. i >= k /\ i \in Int /\ k \in Int
          BY <2>1, <4>1, <1>5, <1>17
        <5>3. i + 1 \in 1 .. Len(list[o]) /\ list'[o][i] = list[o][i + 1] /\ i + 1 > k
          BY <5>1, <5>2, <2>1
        <5> QED BY <5>3
      <4>2. CASE mm[b] # FreePair
        <5>1. list' = list /\ i >= k + 1 /\ i \in Int /\ k \in Int
          BY <2>1, <4>2, <1>4, <1>5, <1>17
        <5> QED BY <5>1
      <4> QED BY <4>1, <4>2
    <3>2. PICK c, q : c = list[o][y] /\ q = <<c, j>>
      OBVIOUS
    <3>3. c # b
      BY <3>1, <3>2, <1>1, <1>5, <1>10
    <3>4. c \in Pair
      BY <3>2, <1>7, MembersOf
    <3>5. q \in Property /\ q \notin gone /\ NameIn(mm, q) = mm[c][j] /\ NameOf(q) = names[c][j]
      BY <3>2, <3>3, <3>4, <1>1 DEF Property, NameIn, NameOf
    <3>6. y >= work.at /\ <<list[o][y], j>> \in work.props
      <4>1. y >= k
        BY <3>1, <1>5
      <4> QED BY <4>1, <3>1, <2>1, <1>1
    <3>7. names[c][j] # Deleted
      BY <3>2, <3>6, <1>1, <1>5 DEF DeleteOK
    <3>8. mm[c][j] # Deleted
      BY <3>5, <3>7, <1>9
    <3> QED BY <3>1, <3>2, <3>8
  <2>2. \A i \in 1 .. Len(list'[work'.obj]), j \in {0, 1} :
          i >= work'.at /\ <<list'[work'.obj][i], j>> \in work'.props =>
            names'[list'[work'.obj][i]][j] # Deleted
    BY <2>1, <1>4, <1>18
  <2>3. DeleteOK'
    BY <2>2, <1>18 DEF DeleteOK
  <2> QED BY <2>3 DEF WorkOK
<1>20. HashmapsOK'
  <2> SUFFICES ASSUME NEW p \in Object, hashmap'[p] # NoMap PROVE TableOK(p)'
    BY DEF HashmapsOK
  <2>1. CASE p = o
    <3>1. ~Filling(o)' /\ (~Abandoned(o)' => ~x)
      BY <1>18 DEF Filling, Abandoned
    <3>2. ASSUME ~Abandoned(o)' PROVE Table(hashmap'[o], PropertySet(o)', names') /\ Counted(hashmap'[o])
      <4>1. Table(u, PropertySet(o) \ gone, names) /\ Counted(u)
        BY <3>1, <3>2, <2>1, <1>14, <1>15
      <4>2. PICK S : S = PropertySet(o) \ gone
        OBVIOUS
      <4>3. \A q \in S : NameIn(names, q) = NameIn(mm, q)
        BY <4>2, <1>4, <1>5, <1>12 DEF Removes
      <4>4. Table(u, S, mm)
        BY <4>1, <4>2, <4>3, SameNames
      <4>5. PropertySet(o)' = S
        BY <4>2, <1>12 DEF Removes
      <4> QED BY <4>1, <4>4, <4>5, <1>4, <1>15
    <3> QED BY <3>1, <3>2, <2>1 DEF TableOK
  <2>2. CASE p # o
    <3>1. ~Filling(p) /\ ~Abandoned(p) /\ ~Filling(p)' /\ ~Abandoned(p)'
      BY <2>2, <1>1, <1>4, <1>18 DEF Filling, Abandoned
    <3> QED BY <3>1, <2>2, <1>5, <1>12, <1>15, RemovesOthers
  <2> QED BY <2>1, <2>2
<1>21. Typed'
  BY <1>7, <1>12, <1>13, <1>15 DEF Typed, CacheTyped, Removes
<1> QED BY <1>11, <1>13, <1>19, <1>20, <1>21 DEF Inv

-----------------------------------------------------------------------------
(* The invariant.                                                          *)

LEMMA InitInv ==
  ASSUME Init
  PROVE  Inv
<1>1. Len(<<>>) = 0 /\ <<>> \in Seq(Pair)
  OBVIOUS
<1>2. Typed
  <2>1. FreePair \in [{0, 1} -> Name \cup {Deleted}] /\ NoEntry \in CacheEntry
    BY DEF FreePair, CacheEntry
  <2> QED BY <2>1, <1>1 DEF Init, Typed, NameTable
<1>3. PairsApart
  BY <1>1 DEF Init, PairsApart
<1>4. \A o \in Object : PropertySet(o) = {}
  <2>1. Members(<<>>) = {}
    BY DEF Members
  <2> QED BY <2>1 DEF Init, PropertySet, Properties
<1>5. NamesApart
  BY <1>4 DEF NamesApart
<1>6. \A r \in 0 .. Rows - 1, k \in 1 .. RowLength : lcache[r][k] = NoEntry
  BY DEF Init
<1>7. CacheOK
  <2>1. lcached = {}
    BY DEF Init
  <2> QED BY <2>1, <1>6 DEF CacheOK, CacheSound, CacheSingle, CacheComplete
<1>8. WorkOK
  BY DEF Init, WorkOK
<1>9. HashmapsOK
  BY DEF Init, HashmapsOK
<1> QED BY <1>2, <1>3, <1>5, <1>7, <1>8, <1>9 DEF Inv

LEMMA StutterInv ==
  ASSUME Inv, UNCHANGED vars
  PROVE  Inv'
<1>1. UNCHANGED <<list, names, hashmap, lcache, lcached, memory, work>>
  BY DEF vars
<1>2. \A o : PropertySet(o)' = PropertySet(o) /\ NameOf(o)' = NameOf(o)
  BY <1>1, SameLists
<1>3. CacheOK' /\ CacheTyped'
  BY <1>1, <1>2, CacheKept DEF Inv
<1>4. WorkOK'
  <2>1. SizeOK => SizeOK'
    BY <1>1, <1>2 DEF SizeOK, AtMostOne
  <2>2. FillOK => FillOK'
    BY <1>1, <1>2 DEF FillOK, AtMostOne
  <2>3. ConvertOK => ConvertOK'
    BY <1>1, <1>2 DEF ConvertOK, FirstIsDeleted
  <2>4. DeleteOK => DeleteOK'
    BY <1>1 DEF DeleteOK
  <2> QED BY <1>1, <2>1, <2>2, <2>3, <2>4 DEF Inv, WorkOK
<1>5. HashmapsOK'
  <2>1. \A o : Before(o, work.at)' = Before(o, work.at)
    BY <1>1, <1>2 DEF Before
  <2>2. \A o : (Filling(o)' <=> Filling(o)) /\ (Abandoned(o)' <=> Abandoned(o))
    BY <1>1 DEF Filling, Abandoned
  <2>3. \A o : TableOK(o) => TableOK(o)'
    BY <1>1, <1>2, <2>1, <2>2 DEF TableOK
  <2> QED BY <1>1, <2>3 DEF Inv, HashmapsOK
<1>6. Typed
  BY DEF Inv
<1> QED BY <1>1, <1>3, <1>4, <1>5, ListsKept DEF Inv, Typed

LEMMA BeginInv ==
  ASSUME Inv, work = Idle, Begin
  PROVE  Inv'
<1>1. CASE \E o \in Object, n \in Name : CreateReusesFirst(o, n)
  BY <1>1, CreateReusesFirstInv
<1>2. CASE \E o \in Object, n \in Name, a \in Pressure : CreateAllocates(o, n, a)
  BY <1>2, CreateAllocatesInv
<1>3. CASE \E o \in Object, n \in Name : FindInHashmap(o, n)
  BY <1>3, FindInHashmapInv
<1>4. CASE \E o \in Object, n \in Name : FindOnList(o, n)
  BY <1>4, FindOnListInv
<1>5. CASE \E o \in Object, n \in Name : Delete(o, n) \/ DeleteArrayProperties(o, n)
  BY <1>5, DeleteInv
<1>6. CASE \E o \in Object, elements \in SUBSET Name : ConvertFastArray(o, elements)
  BY <1>6, ConvertFastArrayInv
<1>7. CASE \E o \in Object : FreeObject(o)
  BY <1>7, FreeObjectInv
<1>8. CASE \E a \in {"low", "high"} : AllocateElsewhere(a)
  BY <1>8, AllocateElsewhereInv DEF Pressure
<1>9. CASE ApiGC
  BY <1>9, ApiGCInv
<1> QED BY <1>1, <1>2, <1>3, <1>4, <1>5, <1>6, <1>7, <1>8, <1>9 DEF Begin

LEMMA ContinueInv ==
  ASSUME Inv, Continue
  PROVE  Inv'
<1>1. CASE HashmapDouble
  BY <1>1, HashmapDoubleInv
<1>2. CASE HashmapFill
  BY <1>2, HashmapFillInv
<1>3. CASE HashmapFilled
  BY <1>3, HashmapFilledInv
<1>4. CASE \E p \in Pressure, success \in BOOLEAN : HashmapAllocate(p, success)
  BY <1>4, HashmapAllocateInv
<1>5. CASE \E e \in Name, a \in Pressure : ConvertElement(e, a)
  BY <1>5, ConvertElementInv
<1>6. CASE DeletePair
  BY <1>6, DeletePairInv
<1>7. CASE DeleteEnds
  BY <1>7, DeleteEndsInv
<1>8. "high" \in Pressure /\ TRUE \in BOOLEAN /\ FALSE \in BOOLEAN
  BY DEF Pressure
<1> QED BY <1>1, <1>2, <1>3, <1>4, <1>5, <1>6, <1>7, <1>8 DEF Continue

\* Every reachable state of the lists, the tables, the cache and the loops
\* over them satisfies the inductive invariant.
THEOREM PropertyInvariant == Spec => []Inv
<1>1. Init => Inv
  BY InitInv
<1>2. Inv /\ [Next]_vars => Inv'
  BY StutterInv, BeginInv, ContinueInv DEF Next
<1> QED BY <1>1, <1>2, PTL DEF Spec

\* A lookup by the cache or by the hashmap answers what a search of the
\* list answers, and ends: for every number of objects, names and pairs,
\* every hash function and every size of the tables.
THEOREM PropertyLookupExact == Spec => []LookupExact
<1>1. Inv => LookupExact
  BY InvImplies
<1> QED BY <1>1, PropertyInvariant, PTL

\* The counters of every hashmap are those of its entries, with a NULL left
\* to end a search, the list behind it is not empty, and every property with
\* the LCACHED flag has its one entry in its row.
THEOREM PropertyTablesExact == Spec => []TablesExact
<1>1. Inv => TablesExact
  BY InvImplies
<1> QED BY <1>1, PropertyInvariant, PTL

=============================================================================
