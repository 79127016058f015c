----------------------------- MODULE RadixHeap -----------------------------
(***************************************************************************)
(* pair_radix_heap (util/graph/radix_heap.h), the queue of EDijkstra.      *)
(* Keys are signed and encoded as unsigned numbers of Bits bits in the     *)
(* same order; an item lies in the bucket of the highest bit in which its  *)
(* key differs from last_.  Nothing is compared but within one bucket.     *)
(***************************************************************************)
EXTENDS Integers, Sequences, SequencesExt, FiniteSets, FiniteSetsExt

CONSTANTS Bits,           \* digits of the unsigned key type
          HeapVals,
          HeapBound       \* bound: items in the heap

ASSUME BitsAssumption == Bits \in Nat \ {0}
ASSUME HeapBoundAssumption == HeapBound \in Nat

VARIABLES last,           \* last_
          buckets,        \* buckets_: number -> sequence of [x, val]
          bmin,           \* buckets_min_
          size            \* size_

heapVars == <<last, buckets, bmin, size>>

\* Power[n] is 1 << n, Shifted(x)[n] is x >> n.
Power[n \in 0..Bits] == IF n = 0 THEN 1 ELSE 2 * Power[n - 1]
Shifted(x) ==
  LET s[n \in 0..Bits] == IF n = 0 THEN x ELSE s[n - 1] \div 2
  IN s

HalfWord == Power[Bits - 1]
MaxWord  == Power[Bits] - 1
Keys     == -HalfWord .. HalfWord - 1
Words    == 0..MaxWord

\* encode and decode of encoder_impl_integer<KeyType, true>: the sign bit is
\* flipped.
Encode(k) == k + HalfWord
Decode(x) == x - HalfWord

\* Mutant: the number of the highest differing bit, not one more.
FindBucketLow(x, l) ==
  Min({k \in 0..Bits : Shifted(x)[k] \div 2 = Shifted(l)[k] \div 2})

\* find_bucket: 0 if x = l, else 32 - __builtin_clz(x ^ l).
FindBucket(x, l) == Min({k \in 0..Bits : Shifted(x)[k] = Shifted(l)[k]})

\* The places of the heap that are taken, and what is there.
Spots == UNION {{k} \X (1..Len(buckets[k])) : k \in 0..Bits}
At(p) == buckets[p[1]][p[2]]

\* empty() looks at size_ alone.
HeapTypeOK ==
  /\ last \in Words
  /\ DOMAIN buckets = 0..Bits
  /\ \A k \in 0..Bits : buckets[k] \in Seq([x : Words, val : HeapVals])
  /\ bmin \in [0..Bits -> Words]
  /\ size = Cardinality(Spots)

HeapInit ==
  /\ last = 0
  /\ buckets = [k \in 0..Bits |-> <<>>]
  /\ bmin = [k \in 0..Bits |-> MaxWord]
  /\ size = 0

-----------------------------------------------------------------------------
\* A key below last_ is taken for last_.
Clamp(x) == IF last > x THEN last ELSE x

\* The heap h with one more item, in the bucket of its key as seen from l.
EnterBucket(h, it, l) ==
  LET k == FindBucket(it.x, l)
  IN [buckets |-> [h.buckets EXCEPT ![k] = Append(@, it)],
      bmin |-> [h.bmin EXCEPT ![k] = IF it.x < @ THEN it.x ELSE @]]

Push(key, v) ==
  /\ size < HeapBound
  /\ LET h == EnterBucket([buckets |-> buckets, bmin |-> bmin],
                          [x |-> Clamp(Encode(key)), val |-> v], last)
     IN buckets' = h.buckets /\ bmin' = h.bmin
  /\ size' = size + 1
  /\ UNCHANGED last

\* The first n items of bucket i, entered as seen from the least of them.
Spread(i, n) ==
  LET h[j \in 0..n] ==
        IF j = 0 THEN [buckets |-> buckets, bmin |-> bmin]
        ELSE EnterBucket(h[j - 1], buckets[i][j], bmin[i])
  IN h[n]

\* The first non-empty bucket i is spread over those below it.
Pulled(i) ==
  LET h == Spread(i, Len(buckets[i]))
  IN [last |-> bmin[i],
      buckets |-> [h.buckets EXCEPT ![i] = <<>>],
      bmin |-> [h.bmin EXCEPT ![i] = MaxWord]]

\* pull(), for a heap that is not empty (it asserts this).
Pull ==
  IF buckets[0] # <<>> THEN [last |-> last, buckets |-> buckets, bmin |-> bmin]
  ELSE Pulled(Min({i \in 1..Bits : buckets[i] # <<>>}))

\* topKey and topVal.
Look ==
  /\ size > 0
  /\ last' = Pull.last /\ buckets' = Pull.buckets /\ bmin' = Pull.bmin
  /\ UNCHANGED size

Pop ==
  /\ size > 0
  /\ last' = Pull.last /\ bmin' = Pull.bmin
  /\ buckets' = [Pull.buckets EXCEPT ![0] = Front(@)]
  /\ size' = size - 1

Clear ==
  /\ size' = 0
  /\ last' = 0
  /\ buckets' = [k \in 0..Bits |-> <<>>]
  /\ bmin' = [k \in 0..Bits |-> MaxWord]

HeapNext == (\E key \in Keys, v \in HeapVals : Push(key, v)) \/ Look \/ Pop \/ Clear

HeapSpec == HeapInit /\ [][HeapNext]_heapVars

-----------------------------------------------------------------------------
\* What push and pull rely on: each item is in the bucket of its key, no key
\* is below last_, and the minimum of every bucket that pull may choose is
\* right.  The minimum of bucket 0 is never reset and never read.
BucketsExact ==
  /\ \A k \in 0..Bits : \A it \in ToSet(buckets[k]) :
       it.x >= last /\ FindBucket(it.x, last) = k
  /\ \A k \in 1..Bits : bmin[k] = Min({MaxWord} \cup {it.x : it \in ToSet(buckets[k])})

ItemOf(it) == [key |-> Decode(it.x), val |-> it.val]

HeapItems ==
  [i \in {ItemOf(At(p)) : p \in Spots} |-> Cardinality({p \in Spots : ItemOf(At(p)) = i})]

Queue == INSTANCE MonotoneQueue WITH
           QKeys <- Keys, QVals <- HeapVals,
           items <- HeapItems, low <- Decode(last)

\* The heap is a monotone queue: what pop takes is a smallest key, and all
\* that was pushed comes out again, with the key it was given or the one it
\* was raised to (EDijkstra settles edges in the order of topKey).  Its buckets
\* and their minima are exact at every call (radix_heap::push, pull).
HeapIsQueue == Queue!QSpec /\ [](HeapTypeOK /\ BucketsExact)
=============================================================================
