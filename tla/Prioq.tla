------------------------------- MODULE Prioq --------------------------------
(***************************************************************************)
(* prioq.c, the heap behind pqchan, pqdone, pqfail and the cleanup list of *)
(* qmail-send.  Element k of the sequence p is p[k - 1] of the code, so    *)
(* the parent of k is k \div 2 and its children are 2 * k and 2 * k + 1.   *)
(***************************************************************************)
EXTENDS Naturals, Sequences

(* prioq_insert: the hole rises from the end of the array. *)
Insert(q, e) ==
  LET up[j \in 1 .. Len(q) + 1] ==
        IF j = 1 \/ q[j \div 2].dt <= e.dt
          THEN [Append(q, e) EXCEPT ![j] = e]
          ELSE [up[j \div 2] EXCEPT ![j] = q[j \div 2]]
  IN  up[Len(q) + 1]

OffEnd(j, n) == j >= n                    \* mutation: the last element has no say
PastEnd(j, n) == j > n

Unfilled(q, i, n) == q                    \* mutation: p[i] = p[n] left out
Filled(q, i, n) == [q EXCEPT ![i] = q[n]]

(* prioq_delmin: the hole sinks until the last element, q[n], fits. *)
Delmin(q) ==
  LET n == Len(q)
      lesser(j) == IF q[j - 1].dt <= q[j].dt THEN j - 1 ELSE j
      down[i \in 1 .. n] ==
        IF PastEnd(2 * i + 1, n) \/ q[n].dt <= q[lesser(2 * i + 1)].dt
          THEN Filled(q, i, n)
          ELSE [down[lesser(2 * i + 1)] EXCEPT ![i] = q[lesser(2 * i + 1)]]
  IN  SubSeq(down[1], 1, n - 1)
=============================================================================
