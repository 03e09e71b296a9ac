---------------------------- MODULE FactorCount ----------------------------
(***************************************************************************)
(* GetFactorNum: the number of ways to write a as a product of factors     *)
(* greater than 1 in ascending order, by recursion and by filling a table. *)
(* main compares the two for one number after the other.                   *)
(* (algorithm/code_sort/GetFactorNum.cpp)                                  *)
(***************************************************************************)
EXTENDS Integers, FiniteSetsExt, SequencesExt

CONSTANT MaxA  \* bounds the run: the largest number main tries

VARIABLES a,   \* the number, i of main
          col, \* j of get_factor_num_non: the next column of the table
          dp

factorVars == <<a, col, dp>>

Factors_BelowRoot(start, num) == {k \in start..num : k * k < num /\ num % k = 0}

\* The turns of a loop from `start` to sqrt(num) that find a factor.
Factors(start, num) == {k \in start..num : k * k <= num /\ num % k = 0}

\* get_factor_num
FactorNum[start \in Nat, num \in Nat] ==
  1 + MapThenSumSet(LAMBDA k : FactorNum[k, num \div k], Factors(start, num))

Ones(num) == [row \in 0..num |-> [c \in 0..num |-> 1]]

FactorInit == a = 2 /\ col = 2 /\ dp = Ones(2)

\* A turn of the loop over j, with the loops over i and k: the rows below the
\* diagonal keep their 1.
FillColumn == /\ col <= a
              /\ dp' = [row \in 0..a |-> [dp[row] EXCEPT ![col] =
                          IF row \in 2..col - 1
                          THEN @ + MapThenSumSet(LAMBDA k : dp[k][col \div k], Factors(row, col))
                          ELSE @]]
              /\ col' = col + 1
              /\ a' = a

NextNumber == /\ col > a /\ a < MaxA
              /\ a' = a + 1
              /\ col' = 2
              /\ dp' = Ones(a + 1)

FactorNext == FillColumn \/ NextNumber

FactorDone == a = MaxA /\ col > a

-----------------------------------------------------------------------------
\* What the program's comment asks for: the ways to write num = a1 * a2 * ... * an
\* with a1 <= a2 <= ... <= an.
Factorisations(num) ==
  LET divisors == {d \in 2..num : num % d = 0}
      longest  == CHOOSE m \in 1..num : 2^m <= num /\ num < 2^(m + 1)
  IN  {s \in BoundedSeq(divisors, longest) :
         /\ FoldSeq(LAMBDA x, y : x * y, 1, s) = num
         /\ \A k, m \in DOMAIN s : k < m => s[k] <= s[m]}

\* When the table is full, its answer, that of the recursion and the definition
\* agree: each column is filled from columns that are final.
CountsAgree ==
  col > a => /\ dp[2][a] = Cardinality(Factorisations(a))
             /\ FactorNum[2, a] = Cardinality(Factorisations(a))
=============================================================================
