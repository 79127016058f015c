--------------------------- MODULE MonotoneQueue ---------------------------
(***************************************************************************)
(* What the searches of util/graph expect of their queue: a bag of keyed   *)
(* values that hands out a smallest key, and that raises a key pushed      *)
(* below the last one looked at to that one.  The actions are those of     *)
(* util/PriorityQueue.tpp; radix_heap.h, which does not compare, is shown  *)
(* to be such a queue in RadixHeap.                                        *)
(***************************************************************************)
EXTENDS Integers, Bags, FiniteSetsExt

CONSTANTS QKeys, QVals

VARIABLES items,          \* a bag of [key, val]
          low             \* _last

qvars == <<items, low>>

LowestKey == Min(QKeys)
TopKey == Min({i.key : i \in BagToSet(items)})

QInit == items = EmptyBag /\ low = LowestKey

QPush(k, v) ==
  /\ items' = items (+) SetToBag({[key |-> IF k < low THEN low ELSE k, val |-> v]})
  /\ UNCHANGED low

\* topKey and topVal.
QLook ==
  /\ items # EmptyBag
  /\ low' = TopKey
  /\ UNCHANGED items

\* pop of one of the smallest; only the radix heap notes its key.
QPop ==
  /\ items # EmptyBag
  /\ \E i \in BagToSet(items) : /\ i.key = TopKey
                                /\ items' = items (-) SetToBag({i})
  /\ low' \in {low, TopKey}

QClear == items' = EmptyBag /\ low' = LowestKey

QNext == (\E k \in QKeys, v \in QVals : QPush(k, v)) \/ QLook \/ QPop \/ QClear

QSpec == QInit /\ [][QNext]_qvars
=============================================================================
