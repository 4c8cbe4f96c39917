------------------------------- MODULE ListOps -------------------------------
(***************************************************************************)
(* What Python's comprehensions, dictionaries and sorted() make of a list, *)
(* as recursive functions, which can be reasoned about.                    *)
(***************************************************************************)
EXTENDS Integers, SequencesExt

\* The items of s that are in S: SelectSeq, in a form to reason about.
Keep(s, S) ==
  LET kept[i \in 0..Len(s)] ==
        IF i = 0 THEN << >>
        ELSE IF s[i] \in S THEN Append(kept[i - 1], s[i]) ELSE kept[i - 1]
  IN kept[Len(s)]

\* The items whose key no item before them has.
Firsts(s, key) ==
  LET first == Keep([i \in 1..Len(s) |-> i],
                    {i \in 1..Len(s) : \A j \in 1..(i - 1) : key[s[j]] # key[s[i]]})
  IN [k \in 1..Len(first) |-> s[first[k]]]

\* Every item where it comes first: the keys of a dictionary.
Once(s) == Firsts(s, [x \in ToSet(s) |-> x])

\* x put into a sorted list behind the items whose keys are not greater.
Insert(s, x, key) ==
  LET later == {y \in ToSet(s) : key[y] > key[x]}
  IN Keep(s, ToSet(s) \ later) \o <<x>> \o Keep(s, later)

\* sorted(): the items of s by their keys, ties in the order of s.
Sorted(s, key) ==
  LET sorted[i \in 0..Len(s)] ==
        IF i = 0 THEN << >> ELSE Insert(sorted[i - 1], s[i], key)
  IN sorted[Len(s)]
=============================================================================
