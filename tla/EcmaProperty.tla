---------------------------- MODULE EcmaProperty ----------------------------
(***************************************************************************)
(* How an ecma object keeps its named properties: a linked list of         *)
(* property pairs (ecma-helpers.c), an optional hash table in front of it  *)
(* (ecma-property-hashmap.c) and a small global lookup cache               *)
(* (ecma-lcache.c).  The list is the truth; the other two are copies of    *)
(* it that every creation, deletion, garbage collection and reuse of an    *)
(* address must keep up to date.                                           *)
(*                                                                         *)
(* A property is a pair and an index 0 or 1 in it, the way the C code      *)
(* points to it (property_pair_p->header.types + i).  Values and the       *)
(* attribute bits of a property are left out, LCACHED excepted.  A name    *)
(* stands for the contents of a string and is the array index it spells.   *)
(*                                                                         *)
(* The loops over a list go pair by pair.  Nothing of the engine runs in   *)
(* between, so that an operation begins only when no loop is in progress.  *)
(***************************************************************************)
EXTENDS Integers, Sequences, FiniteSets

CONSTANTS
  Object,       \* addresses of objects
  Name,         \* property names
  Pair,         \* blocks of the heap that can hold a property pair
  NoPair,       \* ECMA_NULL_POINTER
  Hash,         \* ecma_string_hash of every name
  MinimumSize,  \* ECMA_PROPERTY_HASMAP_MINIMUM_SIZE, 32 in the code
  NullPart,     \* the NULL limit of insert is this part of the table: >> 3, or
                \* 8, in the code
  AllocMax,     \* ECMA_PROP_HASHMAP_ALLOC_MAX, 4 in the code
  Rows,         \* ECMA_LCACHE_HASH_ROWS_COUNT, 128 in the code
  RowLength,    \* ECMA_LCACHE_HASH_ROW_LENGTH, 2 in the code
  NamesOf       \* bound: the names an object may get

\* The sizes are powers of two, and a table that was not recreated keeps a
\* NULL after an insert: 32 >> 3 = 4 in the code.
ASSUME SizeAssumption ==
  /\ Object \subseteq Nat /\ Name \subseteq Nat /\ NoPair \notin Pair
  /\ Hash \in [Name -> Nat]
  /\ MinimumSize \in {2, 4, 8, 16, 32, 64}
  /\ NullPart \in Nat \ {0} /\ MinimumSize \div NullPart >= 2
  /\ NamesOf \in [Object -> SUBSET Name]
  /\ AllocMax \in Nat \ {0} /\ Rows \in Nat \ {0} /\ RowLength \in Nat \ {0}

VARIABLES
  list,      \* u1.property_list_cp of every object, the hashmap left out
  names,     \* names_cp and types of every pair: a name or Deleted
  hashmap,   \* the property hashmap in front of the list, or NoMap
  lcache,    \* JERRY_CONTEXT (lcache)
  lcached,   \* the properties with ECMA_PROPERTY_FLAG_LCACHED
  memory,    \* ecma_prop_hashmap_alloc_state and ECMA_STATUS_HIGH_PRESSURE_GC
  work       \* the loop in progress with its locals, or Idle

vars == <<list, names, hashmap, lcache, lcached, memory, work>>

Deleted == -1                          \* ECMA_PROPERTY_TYPE_DELETED
NoMap   == [max |-> 0]                 \* no hashmap in front of the list
NoEntry == <<>>                        \* an lcache entry whose id is 0
Idle    == [op |-> "idle"]
FreePair == [i \in {0, 1} |-> Deleted]
Pressure == {"none", "low", "high"}    \* how hard an allocation has to try

-----------------------------------------------------------------------------
(* The property list.                                                      *)

\* The properties on a list.
Members(l) == {l[k] : k \in DOMAIN l}

NameIn(nm, q) == nm[q[1]][q[2]]

Properties(l, nm) == {q \in Members(l) \X {0, 1} : NameIn(nm, q) # Deleted}

NameOf(q) == NameIn(names, q)

PropertySet(o) == Properties(list[o], names)

\* The property of the list with the name n, as a set of at most one.
OnList(o, n) == {q \in PropertySet(o) : NameOf(q) = n}

UsedPairs == UNION {Members(list[o]) : o \in Object}

-----------------------------------------------------------------------------
(* Memory pressure: jmem_heap_gc_and_alloc_block runs                      *)
(* ecma_free_unused_memory with LOW and then with HIGH until it has its    *)
(* block.  HIGH throws every hashmap away and keeps new ones from being    *)
(* made until enough LOW calls have passed.  What the collector itself     *)
(* frees is FreeObject.                                                    *)

LowPressure(m) ==
  [alloc |-> IF m.alloc > 0 THEN m.alloc - 1 ELSE 0, high |-> FALSE]

HighPressure(m) ==
  CASE m.high -> [m EXCEPT !.alloc = AllocMax]
    [] ~m.high /\ m.alloc < AllocMax -> [alloc |-> m.alloc + 1, high |-> TRUE]
    [] OTHER -> m

MemoryAfter(m, p) ==
  CASE p = "none" -> m
    [] p = "low"  -> LowPressure(m)
    [] p = "high" -> HighPressure(LowPressure(m))

HashmapsAfter(h, p) == IF p = "high" THEN [o \in Object |-> NoMap] ELSE h

-----------------------------------------------------------------------------
(* The lookup cache.                                                       *)

RowIndex(o, n) == (o + n) % Rows       \* the xor of two addresses, masked

\* ecma_lcache_insert: into the first free entry of the row, or in front of
\* the others, the last of which is dropped.
LcacheInsert(o, n, q) ==
  LET r    == RowIndex(o, n)
      row  == lcache[r]
      free == {k \in 1 .. RowLength : row[k] = NoEntry}
      new  == <<o, n, q>>
  IN  IF free # {}
      THEN LET k == CHOOSE k \in free : \A j \in free : k <= j
           IN  /\ lcache' = [lcache EXCEPT ![r][k] = new]
               /\ lcached' = lcached \cup {q}
      ELSE /\ lcache' = [lcache EXCEPT ![r] = [j \in 1 .. RowLength |->
                                            IF j = 1 THEN new ELSE row[j - 1]]]
           /\ lcached' = (lcached \ {row[RowLength][3]}) \cup {q}

\* ecma_lcache_lookup: by the address of the name and the object.
LcacheLookup(o, n) ==
  LET row == lcache[RowIndex(o, n)]
  IN  {row[k][3] : k \in {j \in 1 .. RowLength :
                            row[j] # NoEntry /\ row[j][1] = o /\ row[j][2] = n}}

\* ecma_lcache_invalidate, by ecma_gc_free_property, of the properties of an
\* object that have the flag: their entries are looked for in their rows.
LcacheInvalidate(o, props) ==
  /\ lcache' = [r \in 0 .. Rows - 1 |->
                 [k \in 1 .. RowLength |->
                   IF \E q \in props \cap lcached :
                        /\ r = RowIndex(o, NameOf(q))
                        /\ lcache[r][k] # NoEntry /\ lcache[r][k][3] = q
                   THEN NoEntry ELSE lcache[r][k]]]
  /\ lcached' = lcached \ props

-----------------------------------------------------------------------------
(* The property hashmap: open addressing over a power of two of entries,   *)
(* with a step that depends on the hash.  An entry without a pair is NULL  *)
(* when its bit is clear and deleted when it is set; with a pair the bit   *)
(* is the index of the property in it.                                     *)

Steps == <<3, 5, 7, 11, 13, 17, 19, 23>>

\* The k-th entry that the search for a name visits.
Entry(h, n, k) == (Hash[n] + k * Steps[(Hash[n] % 8) + 1]) % h.max

\* The entries a search visits before it is back at its start.
Visits(h) == 0 .. h.max - 1

IsNull(h, e) == h.pair[e] = NoPair /\ ~h.bit[e]

PropertyAt(h, e) == <<h.pair[e], IF h.bit[e] THEN 1 ELSE 0>>

\* The first visited entry without a pair, where an insertion ends.
FreeEntry(h, n) ==
  LET ks == {k \in Visits(h) : h.pair[Entry(h, n, k)] = NoPair}
  IN  Entry(h, n, CHOOSE k \in ks : \A j \in ks : k <= j)

Put(h, n, q) ==
  LET e == FreeEntry(h, n)
  IN  [h EXCEPT !.pair[e] = q[1], !.bit[e] = (q[2] = 1)]

\* A table without entries in which count of them are going to be used.
EmptyTable(max, count) ==
  [max |-> max, null |-> max - count, unused |-> max - count,
   pair |-> [e \in 0 .. max - 1 |-> NoPair],
   bit  |-> [e \in 0 .. max - 1 |-> FALSE]]

\* A found property enters the cache unless it is there already.
Remember(o, found) ==
  IF found \subseteq lcached
  THEN UNCHANGED <<lcache, lcached>>
  ELSE LET q == CHOOSE q \in found : TRUE IN LcacheInsert(o, NameOf(q), q)

\* ecma_property_hashmap_create for the object o whose list is l: not while
\* memory is short, not for few properties.  The properties in found are
\* remembered afterwards, by the caller.
HashmapCreate(o, l, nm, m, found) ==
  IF m.alloc # 0 \/ Cardinality(Properties(l, nm)) < MinimumSize \div 2
  THEN work' = Idle /\ Remember(o, found)
  ELSE /\ work' = [op |-> "size", obj |-> o, max |-> MinimumSize, found |-> found]
       /\ UNCHANGED <<lcache, lcached>>

\* Its size is doubled until 1/3 is left unused.
TooSmall ==
  LET count == Cardinality(PropertySet(work.obj))
  IN  work.max < count + count \div 2

HashmapDouble ==
  /\ work.op = "size" /\ TooSmall
  /\ work' = [work EXCEPT !.max = 2 * @]
  /\ UNCHANGED <<list, names, hashmap, lcache, lcached, memory>>

\* The allocation may take pressure, and fail.
HashmapAllocate(p, success) ==
  LET o == work.obj
      h == HashmapsAfter(hashmap, p)
  IN  /\ work.op = "size" /\ ~TooSmall
      /\ memory' = MemoryAfter(memory, p)
      /\ IF success
         THEN /\ hashmap' = [h EXCEPT ![o] =
                               EmptyTable(work.max, Cardinality(PropertySet(o)))]
              /\ work' = [op |-> "fill", obj |-> o, at |-> 1, found |-> work.found]
              /\ UNCHANGED <<lcache, lcached>>
         ELSE /\ hashmap' = h
              /\ work' = Idle
              /\ Remember(o, work.found)
      /\ UNCHANGED <<list, names>>

\* Then the properties enter it in the order of the list.
HashmapFill ==
  LET o == work.obj
      b == list[o][work.at]
      Add(t, q) == IF NameOf(q) = Deleted THEN t ELSE Put(t, NameOf(q), q)
  IN  /\ work.op = "fill" /\ work.at <= Len(list[o])
      /\ hashmap' = [hashmap EXCEPT ![o] = Add(Add(@, <<b, 0>>), <<b, 1>>)]
      /\ work' = [work EXCEPT !.at = @ + 1]
      /\ UNCHANGED <<list, names, lcache, lcached, memory>>

HashmapFilled ==
  /\ work.op = "fill" /\ work.at > Len(list[work.obj])
  /\ work' = Idle
  /\ Remember(work.obj, work.found)
  /\ UNCHANGED <<list, names, hashmap, memory>>

\* ecma_property_hashmap_insert of the property q, already on the list l:
\* into the table, or into a new one when few entries are NULL.
With(t, n, q) ==
  [Put(t, n, q) EXCEPT !.null = IF t.bit[FreeEntry(t, n)] THEN @ ELSE @ - 1,
                       !.unused = @ - 1]

HashmapInsert(o, l, nm, q, h, m) ==
  IF h[o].null < h[o].max \div NullPart
  THEN /\ hashmap' = [h EXCEPT ![o] = NoMap]
       /\ HashmapCreate(o, l, nm, m, {})
  ELSE /\ hashmap' = [h EXCEPT ![o] = With(@, NameIn(nm, q), q)]
       /\ UNCHANGED <<lcache, lcached, work>>

\* Faulty variant of Without: the emptied entry is an ordinary NULL.
WithoutClearing(t, q) ==
  LET e == CHOOSE e \in 0 .. t.max - 1 : PropertyAt(t, e) = q
  IN  [t EXCEPT !.unused = @ + 1, !.pair[e] = NoPair, !.bit[e] = FALSE]

\* ecma_property_hashmap_delete: the table without the property q.  The
\* bit of the entry is set, so that a search does not stop there.
Without(t, q) ==
  LET e == CHOOSE e \in 0 .. t.max - 1 : PropertyAt(t, e) = q
  IN  [t EXCEPT !.unused = @ + 1, !.pair[e] = NoPair, !.bit[e] = TRUE]

\* Faulty variant of MostlyUnused: the limit is compared before the count is raised.
MostlyUnusedBefore(t) == t.unused > (3 * t.max) \div 4

\* Its RECREATE answer: more than 3/4 of the table would be unused.
MostlyUnused(t) == t.unused + 1 > (3 * t.max) \div 4

\* ecma_property_hashmap_find: the property with the name n or nothing; a
\* search that comes back to its start would never end.
HashmapFind(t, n) ==
  LET stops == {k \in Visits(t) :
                  LET e == Entry(t, n, k)
                  IN  \/ IsNull(t, e)
                      \/ t.pair[e] # NoPair /\ NameOf(PropertyAt(t, e)) = n}
      e     == Entry(t, n, CHOOSE k \in stops : \A j \in stops : k <= j)
  IN  IF stops = {} THEN {<<NoPair, 0>>}
      ELSE IF IsNull(t, e) THEN {} ELSE {PropertyAt(t, e)}

-----------------------------------------------------------------------------
(* Creating a property.  The callers have looked for the name before.      *)

MayCreate(o, n) == OnList(o, n) = {} /\ n \in NamesOf[o]

FirstIsDeleted(o) == list[o] # <<>> /\ names[Head(list[o])][0] = Deleted

\* The first pair of the list has a deleted first property: it is reused.
CreateReusesFirst(o, n) ==
  LET first == Head(list[o])
      nm    == [names EXCEPT ![first][0] = n]
  IN  /\ MayCreate(o, n)
      /\ FirstIsDeleted(o)
      /\ names' = nm
      /\ IF hashmap[o] # NoMap
         THEN HashmapInsert(o, list[o], nm, <<first, 0>>, hashmap, memory)
         ELSE UNCHANGED <<hashmap, lcache, lcached, work>>
      /\ UNCHANGED <<list, memory>>

\* Otherwise a new pair goes to the front of the list.  Its allocation may
\* free the hashmap, which is why the code looks for it only afterwards.
CreateAllocates(o, n, a) ==
  LET hm == HashmapsAfter(hashmap, a)
      me == MemoryAfter(memory, a)
  IN  /\ MayCreate(o, n)
      /\ ~FirstIsDeleted(o)
      /\ memory' = me
      /\ \E b \in Pair \ UsedPairs :
           LET l  == <<b>> \o list[o]
               nm == [names EXCEPT ![b] = [FreePair EXCEPT ![1] = n]]
           IN  /\ list' = [list EXCEPT ![o] = l]
               /\ names' = nm
               /\ IF hm[o] # NoMap
                  THEN HashmapInsert(o, l, nm, <<b, 1>>, hm, me)
                  ELSE hashmap' = hm /\ UNCHANGED <<lcache, lcached, work>>

\* ecma_fast_array_convert_to_normal: the elements of a fast array become
\* properties, from the last to the first, two to a pair.  The chain of pairs
\* is the list already here; the code attaches it at the end.  There are enough
\* pairs: the engine ends otherwise.
ConvertFastArray(o, elements) ==
  /\ list[o] = <<>> /\ elements # {} /\ elements \subseteq NamesOf[o]
  /\ 2 * Cardinality(Pair \ UsedPairs) >= Cardinality(elements)
  /\ work' = [op |-> "convert", obj |-> o, left |-> elements, prop_index |-> 1]
  /\ UNCHANGED <<list, names, hashmap, lcache, lcached, memory>>

\* The last element that is left: in a new pair, or in the pair that has room.
ConvertElement(e, a) ==
  LET o == work.obj
  IN  /\ work.op = "convert"
      /\ e \in work.left /\ \A f \in work.left : f <= e
      /\ IF work.prop_index = 1
         THEN /\ \E b \in Pair \ UsedPairs :
                   /\ list' = [list EXCEPT ![o] = <<b>> \o @]
                   /\ names' = [names EXCEPT ![b] = [FreePair EXCEPT ![1] = e]]
              /\ hashmap' = HashmapsAfter(hashmap, a)
              /\ memory' = MemoryAfter(memory, a)
         ELSE /\ a = "none"
              /\ names' = [names EXCEPT ![Head(list[o])][0] = e]
              /\ UNCHANGED <<list, hashmap, memory>>
      /\ work' = IF work.left = {e} THEN Idle
                 ELSE [work EXCEPT !.left = @ \ {e}, !.prop_index = 1 - @]
      /\ UNCHANGED <<lcache, lcached>>

-----------------------------------------------------------------------------
(* Finding a property.                                                     *)

\* The pairs a search of the list passes over.
StepsOf(o, n) ==
  IF OnList(o, n) = {} THEN Len(list[o])
  ELSE LET q == CHOOSE q \in OnList(o, n) : TRUE
       IN  (CHOOSE k \in DOMAIN list[o] : list[o][k] = q[1]) - 1

\* The cache goes by the address of the string: it may miss a property it
\* has when the name is another string with the same contents, so that the
\* two searches below happen whether or not the property is cached.  A hit
\* changes nothing.
FindInHashmap(o, n) ==
  /\ hashmap[o] # NoMap
  /\ Remember(o, HashmapFind(hashmap[o], n))
  /\ UNCHANGED <<list, names, hashmap, memory, work>>

\* A long search makes a hashmap.
FindOnList(o, n) ==
  /\ hashmap[o] = NoMap
  /\ IF StepsOf(o, n) >= MinimumSize \div 2
     THEN HashmapCreate(o, list[o], names, memory, OnList(o, n))
     ELSE Remember(o, OnList(o, n)) /\ UNCHANGED work
  /\ UNCHANGED <<list, names, hashmap, memory>>

-----------------------------------------------------------------------------
(* Deleting properties.                                                    *)

NamesWithout(props) ==
  [b \in Pair |-> [i \in {0, 1} |->
     IF <<b, i>> \in props THEN Deleted ELSE names[b][i]]]

\* The list without its k-th pair.
Unlink(l, k) ==
  [j \in 1 .. Len(l) - 1 |-> IF j < k THEN l[j] ELSE l[j + 1]]

\* A walk along the list, on which the properties props are going to go.
DeleteAll(o, props) ==
  /\ work' = [op |-> "delete", obj |-> o, at |-> 1, props |-> props,
              recreate |-> FALSE]
  /\ UNCHANGED <<list, names, hashmap, lcache, lcached, memory>>

\* ecma_property_hashmap_delete until one property asks for a new table.
Take(s, q) ==
  IF q \notin work.props \/ s.table = NoMap \/ s.recreate THEN s
  ELSE IF MostlyUnused(s.table) THEN [s EXCEPT !.recreate = TRUE]
  ELSE [s EXCEPT !.table = Without(@, q)]

\* The properties of a pair leave the table, the cache and the pair, and a
\* pair without properties leaves the list.
DeletePair ==
  LET o     == work.obj
      b     == list[o][work.at]
      gone  == work.props \cap {<<b, 0>>, <<b, 1>>}
      nm    == NamesWithout(gone)
      after == Take(Take([table |-> hashmap[o], recreate |-> work.recreate],
                         <<b, 0>>), <<b, 1>>)
  IN  /\ work.op = "delete" /\ work.at <= Len(list[o])
      /\ names' = nm
      /\ hashmap' = [hashmap EXCEPT ![o] = after.table]
      /\ LcacheInvalidate(o, gone)
      /\ IF nm[b] = FreePair
         THEN /\ list' = [list EXCEPT ![o] = Unlink(@, work.at)]
              /\ work' = [work EXCEPT !.recreate = after.recreate]
         ELSE /\ work' = [work EXCEPT !.recreate = after.recreate, !.at = @ + 1]
              /\ UNCHANGED list
      /\ UNCHANGED memory

\* The new table is made when all are gone.
DeleteEnds ==
  LET o == work.obj
  IN  /\ work.op = "delete" /\ work.at > Len(list[o])
      /\ IF work.recreate
         THEN /\ hashmap' = [hashmap EXCEPT ![o] = NoMap]
              /\ HashmapCreate(o, list[o], names, memory, {})
         ELSE work' = Idle /\ UNCHANGED <<hashmap, lcache, lcached>>
      /\ UNCHANGED <<list, names, memory>>

\* ecma_delete_property
Delete(o, n) == OnList(o, n) # {} /\ DeleteAll(o, OnList(o, n))

\* ecma_delete_array_properties: the elements from the new length on.  The first
\* pass of the code raises the new length over elements that are not configurable,
\* and no element is past the old length: what is left is another new length.
DeleteArrayProperties(o, new_length) ==
  LET props == {q \in PropertySet(o) : NameOf(q) >= new_length}
  IN  props # {} /\ DeleteAll(o, props)

\* ecma_gc_free_properties of a dead object; the address is free again.  A native
\* free callback may run in the middle, but nothing leads it to this object.
FreeObject(o) ==
  /\ list[o] # <<>>
  /\ list' = [list EXCEPT ![o] = <<>>]
  /\ names' = NamesWithout(PropertySet(o))
  /\ hashmap' = [hashmap EXCEPT ![o] = NoMap]
  /\ LcacheInvalidate(o, PropertySet(o))
  /\ UNCHANGED <<memory, work>>

\* An allocation elsewhere in the engine.
AllocateElsewhere(a) ==
  /\ hashmap' = HashmapsAfter(hashmap, a)
  /\ memory' = MemoryAfter(memory, a)
  /\ UNCHANGED <<list, names, lcache, lcached, work>>

\* jerry_gc with JERRY_GC_PRESSURE_HIGH
ApiGC ==
  /\ hashmap' = HashmapsAfter(hashmap, "high")
  /\ memory' = HighPressure(memory)
  /\ UNCHANGED <<list, names, lcache, lcached, work>>

-----------------------------------------------------------------------------
Init ==
  /\ list = [o \in Object |-> <<>>]
  /\ names = [b \in Pair |-> FreePair]
  /\ hashmap = [o \in Object |-> NoMap]
  /\ lcache = [r \in 0 .. Rows - 1 |-> [k \in 1 .. RowLength |-> NoEntry]]
  /\ lcached = {}
  /\ memory = [alloc |-> 0, high |-> FALSE]
  /\ work = Idle

Begin ==
  \/ \E o \in Object, n \in Name :
       \/ CreateReusesFirst(o, n)
       \/ \E a \in Pressure : CreateAllocates(o, n, a)
       \/ FindInHashmap(o, n)
       \/ FindOnList(o, n)
       \/ Delete(o, n)
       \/ DeleteArrayProperties(o, n)
  \/ \E o \in Object, elements \in SUBSET Name : ConvertFastArray(o, elements)
  \/ \E o \in Object : FreeObject(o)
  \/ \E a \in {"low", "high"} : AllocateElsewhere(a)
  \/ ApiGC

Continue ==
  \/ HashmapDouble \/ HashmapFill \/ HashmapFilled
  \/ \E p \in Pressure : HashmapAllocate(p, TRUE)
  \/ HashmapAllocate("high", FALSE)
  \/ \E e \in Name, a \in Pressure : ConvertElement(e, a)
  \/ DeletePair \/ DeleteEnds

Next == (work = Idle /\ Begin) \/ Continue

Spec == Init /\ [][Next]_vars

-----------------------------------------------------------------------------
(* Properties.                                                             *)

\* ecma_find_named_property tells the truth whichever way it goes: what the
\* cache or the hashmap of an object answers for a name is what a search of
\* its list answers, and the search of a hashmap always ends.
LookupExact ==
  work = Idle =>
    \A o \in Object, n \in Name :
      /\ LcacheLookup(o, n) \subseteq OnList(o, n)
      /\ hashmap[o] # NoMap => HashmapFind(hashmap[o], n) = OnList(o, n)

\* What the next operation of the code relies on: the counters of a hashmap
\* are those of its entries, a NULL is left to end a search, the list behind
\* it is not empty (ecma_create_property follows its head unasked); and
\* every property with the LCACHED flag has its one entry, in its row.
CountersExact(o) ==
  LET t == hashmap[o]
      entries == 0 .. t.max - 1
  IN  /\ list[o] # <<>>
      /\ t.null = Cardinality({e \in entries : IsNull(t, e)}) /\ t.null > 0
      /\ t.unused = Cardinality({e \in entries : t.pair[e] = NoPair})
      /\ t.max - t.unused = Cardinality(PropertySet(o))

CacheEntries(o, q) ==
  {k \in 1 .. RowLength :
     LET entry == lcache[RowIndex(o, NameOf(q))][k]
     IN  entry # NoEntry /\ entry[3] = q}

TablesExact ==
  work = Idle =>
    /\ \A o \in Object : hashmap[o] # NoMap => CountersExact(o)
    /\ \A q \in lcached : \E o \in Object : q \in PropertySet(o)
    /\ \A o \in Object : \A q \in PropertySet(o) :
         Cardinality(CacheEntries(o, q)) = IF q \in lcached THEN 1 ELSE 0

=============================================================================
