----------------------------- MODULE NodeLists -----------------------------
(***************************************************************************)
(* Singly linked lists of heap nodes: `next` maps every node to its _next, *)
(* and what is not in its domain is the null pointer.                      *)
(***************************************************************************)
EXTENDS Naturals, FiniteSets, SequencesExt

\* The nodes met from p along next, in order; at most one more than there are
\* nodes, so that a cycle shows as a sequence that repeats a node.
NodesFrom(p, next) ==
  LET isNode(q)    == q \in DOMAIN next
      at[i \in Nat] == IF i = 0 THEN p
                       ELSE LET q == at[i - 1] IN IF isNode(q) THEN next[q] ELSE q
      met          == {i \in 0..Cardinality(DOMAIN next) : isNode(at[i])}
  IN  [i \in 1..Cardinality(met) |-> at[i - 1]]

\* The list visits each node of S once, and no other node.
Exactly(path, S) == IsInjective(path) /\ ToSet(path) = S
=============================================================================
