------------------------------- MODULE Folding -------------------------------
(* The loops and sorts of the pure functions.  The step of a fold is a         *)
(* function and the order of a sort a set of pairs: values, of which a theorem *)
(* can be stated once and used for every loop.                                 *)
EXTENDS Integers, Sequences, FiniteSets, SequencesExt

\* for (const x of seq) a = step[a][x], from a = base.
Fold(step, base, seq) == FoldLeft(LAMBDA a, x : step[a][x], base, seq)

\* The same from the last element to the first.
FoldBack(step, base, seq) == FoldRight(LAMBDA x, a : step[a][x], seq, base)

\* The elements of S, where <<i, j>> \in before puts i before j.
Sorted(S, before) ==
    [n \in 1..Cardinality(S) |->
        CHOOSE i \in S : Cardinality({j \in S : <<j, i>> \in before}) = n - 1]
===============================================================================
