----------------------------- MODULE OrderedSet -----------------------------
(***************************************************************************)
(* The containers of keypool.py that are read both by membership and by    *)
(* age: the ring `_buf` (a deque) and the insertion-ordered dict           *)
(* `_withdrawn`.  A value is a record of its elements and of the strict    *)
(* order in which they were added, so every operator is a set expression.  *)
(***************************************************************************)
EXTENDS Naturals, FiniteSets

\* Deques and insertion-ordered dicts over the elements of S.
OrderedSetOf(S) ==
  {q \in [elems : SUBSET S, before : SUBSET (S \X S)] :
     q.before \subseteq q.elems \X q.elems}

Empty == [elems |-> {}, before |-> {}]

\* q restricted to the elements in S, in their old order.
Keep(q, S) == [elems |-> q.elems \cap S, before |-> q.before \cap (S \X S)]

\* q after the elements in S have been removed.
Without(q, S) == Keep(q, q.elems \ S)

\* r appended to q; elements q already has keep their place, as a dict does.
Concat(q, r) ==
  LET new == Without(r, q.elems)
  IN [elems  |-> q.elems \cup new.elems,
      before |-> q.before \cup new.before \cup (q.elems \X new.elems)]

Append1(q, x) == Concat(q, [elems |-> {x}, before |-> {}])

\* The n elements that were added first, and the n that were added last.
Oldest(q, n) ==
  {x \in q.elems : Cardinality({y \in q.elems : <<y, x>> \in q.before}) < n}

Newest(q, n) ==
  {x \in q.elems : Cardinality({y \in q.elems : <<x, y>> \in q.before}) < n}
=============================================================================
