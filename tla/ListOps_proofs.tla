--------------------------- MODULE ListOps_proofs ---------------------------
(* What the operations on lists return, for every list.                    *)
EXTENDS ListOps, SequenceTheorems, WellFoundedInduction, TLAPS

-----------------------------------------------------------------------------
(* Induction over the length of a list.                                    *)

\* A set of natural numbers has a least one.
LEMMA Least ==
  ASSUME NEW T, T \subseteq Nat, T # {}
  PROVE  \E x \in T : \A y \in T : x <= y
<1> DEFINE below == {p \in Nat \X Nat : p[1] < p[2]}
<1>1. IsWellFoundedOn(below, Nat)
  BY NatLessThanWellFounded DEF OpToRel
<1>2. PICK x \in T : \A y \in T : ~ (<<y, x>> \in below)
  <2> HIDE DEF below
  <2> QED
    BY <1>1, WFMin, Zenon
<1>3. ASSUME NEW y \in T PROVE x <= y
  <2>1. x \in Nat /\ y \in Nat
    OBVIOUS
  <2>2. y < x => <<y, x>> \in below
    BY <2>1
  <2> QED
    BY <1>2, <2>1, <2>2
<1> QED
  BY <1>3

\* What holds of 0, and of n + 1 if of n, holds of all: S is the set of those
\* it holds of.
LEMMA Induction ==
  ASSUME NEW S, 0 \in S, \A n \in Nat : n \in S => n + 1 \in S
  PROVE  Nat \subseteq S
<1> DEFINE T == Nat \ S
<1>1. SUFFICES ASSUME T # {} PROVE FALSE
  OBVIOUS
<1>2. PICK x \in T : \A y \in T : x <= y
  BY <1>1, Least
<1>3. x - 1 \in Nat /\ x - 1 \notin T
  BY <1>2
<1> QED
  BY <1>2, <1>3

\* Induction over a list: S is the set of the lists that it holds of.
LEMMA ListInduction ==
  ASSUME NEW R, NEW S, << >> \in S,
         \A s \in Seq(R), e \in R : s \in S => Append(s, e) \in S
  PROVE  Seq(R) \subseteq S
<1> DEFINE T == {n \in Nat : \A s \in Seq(R) : Len(s) = n => s \in S}
<1>1. 0 \in T
  <2>1. \A s \in Seq(R) : Len(s) = 0 => s = << >>
    BY EmptySeq
  <2> QED
    BY <2>1
<1>2. ASSUME NEW n \in Nat, n \in T PROVE n + 1 \in T
  <2> SUFFICES ASSUME NEW s \in Seq(R), Len(s) = n + 1 PROVE s \in S
    OBVIOUS
  <2>1. s # << >>
    BY EmptySeq
  <2>2. PICK t \in Seq(R), e \in R : s = Append(t, e)
    BY <2>1, SequenceEmptyOrAppend
  <2>3. Len(t) = n
    <3>1. Len(t) \in Nat /\ Len(s) = Len(t) + 1
      BY <2>2, AppendProperties, LenProperties
    <3> QED
      BY <3>1
  <2> QED
    BY <1>2, <2>2, <2>3
<1>3. Nat \subseteq T
  <2> HIDE DEF T
  <2> QED
    BY <1>1, <1>2, Induction
<1> SUFFICES ASSUME NEW s \in Seq(R) PROVE s \in S
  OBVIOUS
<1>4. Len(s) \in Nat
  OBVIOUS
<1> QED
  BY <1>3, <1>4

\* A function computed from the list in front of an item and the item: F[i] is
\* its value for the first i items.
Recursive(F, s, b, step) ==
  /\ F[0] = b
  /\ \A i \in 1..Len(s) : F[i] = step[<<F[i - 1], s[i]>>]

\* It exists, and all of its values are of the type of a step.
LEMMA Recursion ==
  ASSUME NEW R, NEW s \in Seq(R), NEW V, NEW b \in V, NEW step \in [V \X R -> V]
  PROVE  \E F \in [0..Len(s) -> V] : Recursive(F, s, b, step)
<1> DEFINE m == Len(s)
           Good(F, n) == /\ F[0] = b
                         /\ \A i \in 1..n : i <= m => F[i] = step[<<F[i - 1], s[i]>>]
           T == {n \in Nat : n <= m => \E F \in [0..n -> V] : Good(F, n)}
<1>1. m \in Nat /\ \A i \in 1..m : s[i] \in R
  OBVIOUS
<1> HIDE DEF m
<1>2. 0 \in T
  <2> DEFINE F == [i \in 0..0 |-> b]
  <2>1. F \in [0..0 -> V] /\ F[0] = b
    OBVIOUS
  <2>2. Good(F, 0)
    BY <2>1
  <2> HIDE DEF F, Good
  <2> QED
    BY <2>1, <2>2
<1>3. ASSUME NEW n \in Nat, n \in T PROVE n + 1 \in T
  <2> SUFFICES ASSUME n + 1 <= m
               PROVE  \E F \in [0..(n + 1) -> V] : Good(F, n + 1)
    OBVIOUS
  <2>1. PICK F \in [0..n -> V] : Good(F, n)
    <3> HIDE DEF Good
    <3> QED
      BY <1>1, <1>3
  <2> DEFINE G == [i \in 0..(n + 1) |-> IF i <= n THEN F[i] ELSE step[<<F[n], s[n + 1]>>]]
  <2>2. s[n + 1] \in R /\ F[n] \in V
    BY <1>1
  <2>3. step[<<F[n], s[n + 1]>>] \in V
    BY <2>2
  <2>4. G \in [0..(n + 1) -> V]
    BY <2>3
  <2>5. (\A i \in 0..n : G[i] = F[i]) /\ G[n + 1] = step[<<F[n], s[n + 1]>>]
    OBVIOUS
  <2> HIDE DEF G
  <2>6. G[0] = b
    BY <2>1, <2>5
  <2>7. ASSUME NEW i \in 1..(n + 1), i <= m
        PROVE  G[i] = step[<<G[i - 1], s[i]>>]
    <3>1. CASE i = n + 1
      <4>1. i - 1 = n /\ n \in 0..n
        BY <3>1
      <4> QED
        BY <2>5, <3>1, <4>1
    <3>2. CASE i <= n
      <4>1. i \in 1..n /\ i \in 0..n /\ i - 1 \in 0..n
        BY <3>2
      <4> QED
        BY <2>1, <2>5, <2>7, <4>1
    <3> QED
      BY <3>1, <3>2
  <2>8. Good(G, n + 1)
    BY <2>6, <2>7
  <2> HIDE DEF Good
  <2> QED
    BY <2>4, <2>8
<1>4. m \in T
  <2> HIDE DEF T
  <2> QED
    BY <1>1, <1>2, <1>3, Induction
<1>5. PICK F \in [0..m -> V] : Good(F, m)
  <2> HIDE DEF Good
  <2> QED
    BY <1>1, <1>4
<1>6. Recursive(F, s, b, step)
  BY <1>1, <1>5 DEF Recursive, m
<1> QED
  BY <1>6 DEF m

\* There is only one: what it is for the first items does not depend on more.
LEMMA RecursionUnique ==
  ASSUME NEW R, NEW s \in Seq(R), NEW e \in R, NEW b, NEW step,
         NEW F, Recursive(F, s, b, step), NEW G, Recursive(G, Append(s, e), b, step)
  PROVE  G[Len(s) + 1] = step[<<F[Len(s)], e>>]
<1> DEFINE n == Len(s)
           t == Append(s, e)
           T == {i \in Nat : i <= n => G[i] = F[i]}
<1>1. /\ n \in Nat /\ Len(t) = n + 1 /\ t[n + 1] = e
      /\ \A i \in 1..n : t[i] = s[i]
  BY AppendProperties, LenProperties
<1>2. /\ F[0] = b /\ G[0] = b
      /\ \A i \in 1..n : F[i] = step[<<F[i - 1], s[i]>>]
      /\ \A i \in 1..Len(t) : G[i] = step[<<G[i - 1], t[i]>>]
  BY DEF Recursive
<1> HIDE DEF n, t
<1>3. 0 \in T
  BY <1>2
<1>4. ASSUME NEW i \in Nat, i \in T PROVE i + 1 \in T
  <2> SUFFICES ASSUME i + 1 <= n PROVE G[i + 1] = F[i + 1]
    OBVIOUS
  <2>1. i + 1 \in 1..n /\ i + 1 \in 1..Len(t) /\ (i + 1) - 1 = i /\ i <= n
    BY <1>1
  <2>2. t[i + 1] = s[i + 1] /\ G[i] = F[i]
    BY <1>1, <1>4, <2>1
  <2> QED
    BY <1>2, <2>1, <2>2
<1>5. n \in T
  <2> HIDE DEF T
  <2> QED
    BY <1>1, <1>3, <1>4, Induction
<1>6. G[n] = F[n] /\ n + 1 \in 1..Len(t) /\ (n + 1) - 1 = n
  BY <1>1, <1>5
<1> QED
  BY <1>1, <1>2, <1>6 DEF n

\* G takes the same steps as long as its values are in V.
Follows(G, s, V, b, step) ==
  /\ G[0] = b
  /\ \A i \in 1..Len(s) : G[i - 1] \in V => G[i] = step[<<G[i - 1], s[i]>>]

\* A function with the same steps has the same values.
LEMMA RecursionReaches ==
  ASSUME NEW R, NEW s \in Seq(R), NEW V, NEW b, NEW step,
         NEW F \in [0..Len(s) -> V], Recursive(F, s, b, step),
         NEW G, Follows(G, s, V, b, step)
  PROVE  G[Len(s)] = F[Len(s)]
<1> DEFINE n == Len(s)
           T == {i \in Nat : i <= n => G[i] = F[i]}
<1>1. n \in Nat
  OBVIOUS
<1>2. /\ F[0] = b /\ \A i \in 0..n : F[i] \in V
      /\ \A i \in 1..n : F[i] = step[<<F[i - 1], s[i]>>]
  BY DEF Recursive
<1>3. /\ G[0] = b
      /\ \A i \in 1..n : G[i - 1] \in V => G[i] = step[<<G[i - 1], s[i]>>]
  BY DEF Follows
<1> HIDE DEF n
<1>4. 0 \in T
  BY <1>2, <1>3
<1>5. ASSUME NEW i \in Nat, i \in T PROVE i + 1 \in T
  <2> SUFFICES ASSUME i + 1 <= n PROVE G[i + 1] = F[i + 1]
    OBVIOUS
  <2>1. i + 1 \in 1..n /\ (i + 1) - 1 = i /\ i <= n /\ i \in 0..n
    BY <1>1
  <2>2. G[i] = F[i] /\ F[i] \in V
    BY <1>2, <1>5, <2>1
  <2> QED
    BY <1>2, <1>3, <2>1, <2>2
<1>6. n \in T
  <2> HIDE DEF T
  <2> QED
    BY <1>1, <1>4, <1>5, Induction
<1> QED
  BY <1>1, <1>6 DEF n

\* F[i] is what is kept of the first i items.
KeptBy(F, s, S) ==
  /\ Keep(s, S) = F[Len(s)] /\ F[0] = << >>
  /\ \A i \in 1..Len(s) :
       F[i] = IF s[i] \in S THEN Append(F[i - 1], s[i]) ELSE F[i - 1]

\* The function Keep declares exists.
LEMMA KeepSteps ==
  ASSUME NEW R, NEW s \in Seq(R), NEW S
  PROVE  \E F : KeptBy(F, s, S)
<1> DEFINE At(F, i) == IF i = 0 THEN << >>
                       ELSE IF s[i] \in S THEN Append(F[i - 1], s[i]) ELSE F[i - 1]
           Upto(F, n) == [i \in 0..n |-> At(F, i)]
           T == {n \in Nat : \E F : F = Upto(F, n)}
           C == CHOOSE F : F = Upto(F, Len(s))
<1>1. 0 \in T
  <2> DEFINE F == [i \in 0..0 |-> << >>]
  <2>1. F = Upto(F, 0)
    OBVIOUS
  <2> QED
    BY <2>1
<1>2. ASSUME NEW n \in Nat, n \in T PROVE n + 1 \in T
  <2>1. PICK F : F = Upto(F, n)
    BY <1>2
  <2> DEFINE G == [i \in 0..(n + 1) |-> IF i <= n THEN F[i] ELSE At(F, i)]
  <2>2. ASSUME NEW i \in 0..n PROVE F[i] = At(F, i)
    <3> DEFINE E == Upto(F, n)
    <3>1. E[i] = At(F, i) /\ F = E
      BY <2>1
    <3> HIDE DEF E, At
    <3> QED
      BY <3>1
  <2>3. ASSUME NEW i \in 0..(n + 1) PROVE G[i] = At(G, i)
    <3>1. i # 0 => i - 1 \in 0..n /\ G[i - 1] = F[i - 1]
      OBVIOUS
    <3>2. At(G, i) = At(F, i)
      BY <3>1
    <3>3. G[i] = IF i <= n THEN F[i] ELSE At(F, i)
      OBVIOUS
    <3>4. i <= n => i \in 0..n
      OBVIOUS
    <3> HIDE DEF G, At
    <3> QED
      BY <2>2, <3>2, <3>3, <3>4
  <2>4. G = Upto(G, n + 1) /\ n + 1 \in Nat
    BY <2>3
  <2> HIDE DEF Upto, G
  <2> QED
    BY <2>4
<1>3. Nat \subseteq T
  <2> HIDE DEF T
  <2> QED
    BY <1>1, <1>2, Induction
<1>4. Len(s) \in Nat
  OBVIOUS
<1>5. C = Upto(C, Len(s))
  <2>1. \E F : F = Upto(F, Len(s))
    BY <1>3, <1>4
  <2> HIDE DEF Upto
  <2> QED
    BY <2>1, Zenon
<1>6. Keep(s, S) = C[Len(s)]
  BY DEF Keep
<1>7. ASSUME NEW i \in 0..Len(s) PROVE C[i] = At(C, i)
  <2> DEFINE E == Upto(C, Len(s))
  <2>1. E[i] = At(C, i)
    OBVIOUS
  <2>2. C = E
    BY <1>5
  <2> HIDE DEF E, At, C
  <2> QED
    BY <2>1, <2>2
<1> HIDE DEF C
<1> QED
  BY <1>4, <1>6, <1>7 DEF KeptBy

\* A list with one more item has one more member.
LEMMA AppendItems ==
  ASSUME NEW R, NEW s \in Seq(R), NEW e \in R
  PROVE  /\ Append(s, e) \in Seq(R) /\ Append(s, e) # << >>
         /\ ToSet(Append(s, e)) = ToSet(s) \cup {e}
         /\ IsInjective(s) /\ e \notin ToSet(s) => IsInjective(Append(s, e))
<1> DEFINE t == Append(s, e)
           n == Len(s)
<1>1. /\ n \in Nat /\ t \in Seq(R) /\ Len(t) = n + 1 /\ t[n + 1] = e
      /\ \A i \in 1..n : t[i] = s[i]
      /\ DOMAIN s = 1..n /\ DOMAIN t = 1..(n + 1)
  BY AppendProperties
<1> HIDE DEF t, n
<1>2. t # << >>
  BY <1>1
<1>3. ToSet(t) = ToSet(s) \cup {e}
  <2>1. ASSUME NEW x \in ToSet(t) PROVE x \in ToSet(s) \cup {e}
    <3>1. PICK i \in 1..(n + 1) : x = t[i]
      BY <1>1, <2>1 DEF ToSet
    <3>2. i \in 1..n \/ i = n + 1
      BY <1>1
    <3> QED
      BY <1>1, <3>1, <3>2 DEF ToSet
  <2>2. ASSUME NEW x \in ToSet(s) PROVE x \in ToSet(t)
    <3>1. PICK i \in 1..n : x = s[i]
      BY <1>1, <2>2 DEF ToSet
    <3>2. i \in 1..(n + 1)
      BY <1>1
    <3> QED
      BY <1>1, <3>1, <3>2 DEF ToSet
  <2>3. e \in ToSet(t)
    <3>1. n + 1 \in 1..(n + 1)
      BY <1>1
    <3> QED
      BY <1>1, <3>1 DEF ToSet
  <2> QED
    BY <2>1, <2>2, <2>3
<1>4. ASSUME IsInjective(s), e \notin ToSet(s) PROVE IsInjective(t)
  <2>1. SUFFICES ASSUME NEW i \in 1..(n + 1), NEW j \in 1..(n + 1), t[i] = t[j]
                 PROVE  i = j
    BY <1>1 DEF IsInjective
  <2>2. /\ i \in 1..n \/ i = n + 1
        /\ j \in 1..n \/ j = n + 1
    BY <1>1
  <2>3. \A k \in 1..n : s[k] # e
    BY <1>1, <1>4 DEF ToSet
  <2>4. CASE i \in 1..n /\ j \in 1..n
    BY <1>1, <1>4, <2>1, <2>4 DEF IsInjective
  <2> QED
    BY <1>1, <2>1, <2>2, <2>3, <2>4
<1> QED
  BY <1>1, <1>2, <1>3, <1>4 DEF t

\* What Keep returns: of the members those in S, none twice that is there once.
LEMMA KeepIs ==
  ASSUME NEW R, NEW s \in Seq(R), NEW S
  PROVE  /\ Keep(s, S) \in Seq(R)
         /\ ToSet(Keep(s, S)) = ToSet(s) \cap S
         /\ IsInjective(s) => IsInjective(Keep(s, S))
<1> DEFINE n == Len(s)
           Of(i) == {x \in S : \E j \in 1..i : s[j] = x}
           Good(i, f) == /\ f \in Seq(R) /\ ToSet(f) = Of(i)
                         /\ IsInjective(s) => IsInjective(f)
<1>1. n \in Nat /\ DOMAIN s = 1..n /\ \A i \in 1..n : s[i] \in R
  OBVIOUS
<1> HIDE DEF n
<1>2. PICK F : /\ Keep(s, S) = F[n] /\ F[0] = << >>
               /\ \A i \in 1..n :
                    F[i] = IF s[i] \in S THEN Append(F[i - 1], s[i]) ELSE F[i - 1]
  <2>1. PICK F : KeptBy(F, s, S)
    BY KeepSteps, Zenon
  <2> QED
    BY <2>1 DEF KeptBy, n
<1> DEFINE T == {i \in Nat : i <= n => Good(i, F[i])}
<1>3. 0 \in T
  <2>1. << >> \in Seq(R) /\ ToSet(<< >>) = {} /\ IsInjective(<< >>)
    BY DEF ToSet, IsInjective
  <2>2. Of(0) = {}
    OBVIOUS
  <2> QED
    BY <1>2, <2>1, <2>2
<1>4. ASSUME NEW i \in Nat, i \in T PROVE i + 1 \in T
  <2> SUFFICES ASSUME i + 1 <= n PROVE Good(i + 1, F[i + 1])
    OBVIOUS
  <2> DEFINE e == s[i + 1]
             f == F[i]
             g == F[i + 1]
  <2>1. /\ i + 1 \in 1..n /\ (i + 1) - 1 = i /\ i <= n
    BY <1>1
  <2>2. Good(i, f) /\ e \in R
    BY <1>1, <1>4, <2>1
  <2>3. g = IF e \in S THEN Append(f, e) ELSE f
    BY <1>2, <2>1
  <2>4. Of(i + 1) = IF e \in S THEN Of(i) \cup {e} ELSE Of(i)
    <3>1. \A j \in 1..(i + 1) : j \in 1..i \/ j = i + 1
      OBVIOUS
    <3>2. \A j \in 1..i : j \in 1..(i + 1)
      OBVIOUS
    <3>3. i + 1 \in 1..(i + 1)
      OBVIOUS
    <3> QED
      BY <3>1, <3>2, <3>3
  <2>5. IsInjective(s) => e \notin Of(i)
    <3>1. \A j \in 1..i : j \in 1..n /\ j # i + 1
      BY <1>1, <2>1
    <3> QED
      BY <1>1, <2>1, <3>1 DEF IsInjective
  <2> HIDE DEF e, f, g, Of
  <2>6. CASE e \in S
    <3>1. /\ Append(f, e) \in Seq(R) /\ ToSet(Append(f, e)) = ToSet(f) \cup {e}
          /\ IsInjective(f) /\ e \notin ToSet(f) => IsInjective(Append(f, e))
      BY <2>2, AppendItems
    <3> QED
      BY <2>2, <2>3, <2>4, <2>5, <2>6, <3>1 DEF g
  <2>7. CASE e \notin S
    BY <2>2, <2>3, <2>4, <2>7 DEF g
  <2> QED
    BY <2>6, <2>7
<1>5. n \in T
  <2> HIDE DEF T
  <2> QED
    BY <1>1, <1>3, <1>4, Induction
<1>6. Good(n, Keep(s, S))
  BY <1>1, <1>2, <1>5
<1>7. Of(n) = ToSet(s) \cap S
  BY <1>1 DEF ToSet
<1> QED
  BY <1>6, <1>7

\* And of a list with one more item.
LEMMA KeepAppends ==
  ASSUME NEW R, NEW s \in Seq(R), NEW e \in R, NEW S
  PROVE  Keep(Append(s, e), S) = IF e \in S THEN Append(Keep(s, S), e) ELSE Keep(s, S)
<1> DEFINE n == Len(s)
           t == Append(s, e)
<1>1. /\ n \in Nat /\ t \in Seq(R) /\ Len(t) = n + 1 /\ t[n + 1] = e
      /\ \A i \in 1..n : t[i] = s[i]
  BY AppendProperties
<1> HIDE DEF n, t
<1>2. PICK F : /\ Keep(s, S) = F[n] /\ F[0] = << >>
               /\ \A i \in 1..n :
                    F[i] = IF s[i] \in S THEN Append(F[i - 1], s[i]) ELSE F[i - 1]
  <2>1. PICK F : KeptBy(F, s, S)
    BY KeepSteps, Zenon
  <2> QED
    BY <2>1 DEF KeptBy, n
<1>3. PICK G : /\ Keep(t, S) = G[Len(t)] /\ G[0] = << >>
               /\ \A i \in 1..Len(t) :
                    G[i] = IF t[i] \in S THEN Append(G[i - 1], t[i]) ELSE G[i - 1]
  <2>1. t \in Seq(R)
    BY <1>1
  <2>2. PICK G : KeptBy(G, t, S)
    BY <2>1, KeepSteps, Zenon
  <2> QED
    BY <2>2 DEF KeptBy
<1> DEFINE T == {i \in Nat : i <= n => G[i] = F[i]}
<1>4. 0 \in T
  BY <1>2, <1>3
<1>5. ASSUME NEW i \in Nat, i \in T PROVE i + 1 \in T
  <2> SUFFICES ASSUME i + 1 <= n PROVE G[i + 1] = F[i + 1]
    OBVIOUS
  <2>1. /\ i + 1 \in 1..n /\ i + 1 \in 1..Len(t) /\ (i + 1) - 1 = i /\ i <= n
    BY <1>1
  <2>2. t[i + 1] = s[i + 1] /\ G[i] = F[i]
    BY <1>1, <1>5, <2>1
  <2> QED
    BY <1>2, <1>3, <2>1, <2>2
<1>6. G[n] = F[n]
  <2>1. n \in T
    <3> HIDE DEF T
    <3> QED
      BY <1>1, <1>4, <1>5, Induction
  <2> QED
    BY <1>1, <2>1
<1>7. Keep(t, S) = IF e \in S THEN Append(G[n], e) ELSE G[n]
  <2>1. n + 1 \in 1..Len(t) /\ (n + 1) - 1 = n
    BY <1>1
  <2> QED
    BY <1>1, <1>3, <2>1
<1> QED
  BY <1>2, <1>6, <1>7 DEF t

\* The members of two lists, one behind the other.
LEMMA ConcatItems ==
  ASSUME NEW R, NEW s \in Seq(R), NEW t \in Seq(R)
  PROVE  /\ s \o t \in Seq(R)
         /\ ToSet(s \o t) = ToSet(s) \cup ToSet(t)
         /\ IsInjective(s) /\ IsInjective(t) /\ ToSet(s) \cap ToSet(t) = {}
              => IsInjective(s \o t)
<1> DEFINE m == Len(s)
           n == Len(t)
           u == s \o t
<1>1. /\ m \in Nat /\ n \in Nat /\ DOMAIN s = 1..m /\ DOMAIN t = 1..n
      /\ u \in Seq(R) /\ DOMAIN u = 1..(m + n)
      /\ \A i \in 1..(m + n) : u[i] = IF i <= m THEN s[i] ELSE t[i - m]
  BY ConcatProperties
<1> HIDE DEF m, n, u
<1>2. \A i \in 1..(m + n) : i <= m => i \in 1..m /\ u[i] = s[i]
  BY <1>1
<1>3. \A i \in 1..(m + n) : ~(i <= m) => i - m \in 1..n /\ u[i] = t[i - m]
  BY <1>1
<1>4. ToSet(u) \subseteq ToSet(s) \cup ToSet(t)
  BY <1>1, <1>2, <1>3 DEF ToSet
<1>5. ToSet(s) \subseteq ToSet(u)
  <2>1. \A i \in 1..m : i \in 1..(m + n) /\ u[i] = s[i]
    BY <1>1
  <2> QED
    BY <1>1, <2>1 DEF ToSet
<1>6. ToSet(t) \subseteq ToSet(u)
  <2>1. \A i \in 1..n : m + i \in 1..(m + n) /\ ~(m + i <= m) /\ (m + i) - m = i
    BY <1>1
  <2>2. \A i \in 1..n : m + i \in DOMAIN u /\ u[m + i] = t[i]
    BY <1>1, <2>1
  <2>3. \A i \in DOMAIN t : t[i] \in ToSet(u)
    BY <1>1, <2>2 DEF ToSet
  <2> QED
    BY <2>3 DEF ToSet
<1>7. ASSUME IsInjective(s), IsInjective(t), ToSet(s) \cap ToSet(t) = {}
      PROVE  IsInjective(u)
  <2> SUFFICES ASSUME NEW i \in 1..(m + n), NEW j \in 1..(m + n), u[i] = u[j]
               PROVE  i = j
    BY <1>1 DEF IsInjective
  <2>1. CASE i <= m /\ j <= m
    BY <1>1, <1>2, <1>7, <2>1 DEF IsInjective
  <2>2. CASE ~(i <= m) /\ ~(j <= m)
    <3>1. i - m \in 1..n /\ j - m \in 1..n /\ t[i - m] = t[j - m]
      BY <1>3, <2>2
    <3>2. i - m = j - m
      BY <1>1, <1>7, <3>1 DEF IsInjective
    <3> QED
      BY <1>1, <3>2
  <2>3. \A a \in 1..m, b \in 1..n : s[a] # t[b]
    BY <1>1, <1>7 DEF ToSet
  <2> QED
    BY <1>2, <1>3, <2>1, <2>2, <2>3
<1> QED
  BY <1>1, <1>4, <1>5, <1>6, <1>7 DEF u


-----------------------------------------------------------------------------
(* Order.  P is a set of pairs.                                            *)

Ordered(s, P) == \A i, j \in 1..Len(s) : i < j => <<s[i], s[j]>> \in P

\* An item is put behind those it may follow.
LEMMA AppendOrder ==
  ASSUME NEW R, NEW s \in Seq(R), NEW e \in R, NEW P, Ordered(s, P),
         \A x \in ToSet(s) : <<x, e>> \in P
  PROVE  Ordered(Append(s, e), P)
<1> DEFINE t == Append(s, e)
           n == Len(s)
<1>1. /\ n \in Nat /\ Len(t) = n + 1 /\ t[n + 1] = e /\ DOMAIN s = 1..n
      /\ \A i \in 1..n : t[i] = s[i]
  BY AppendProperties
<1> HIDE DEF t, n
<1>2. SUFFICES ASSUME NEW i \in 1..(n + 1), NEW j \in 1..(n + 1), i < j
               PROVE  <<t[i], t[j]>> \in P
  BY <1>1 DEF Ordered, t
<1>3. i \in 1..n /\ t[i] = s[i] /\ s[i] \in ToSet(s)
  <2>1. i \in 1..n
    BY <1>1, <1>2
  <2> QED
    BY <1>1, <2>1 DEF ToSet
<1>4. CASE j \in 1..n
  BY <1>1, <1>2, <1>3, <1>4 DEF Ordered, n
<1>5. CASE j = n + 1
  BY <1>1, <1>3, <1>5
<1> QED
  BY <1>1, <1>4, <1>5

\* What is kept of an ordered list is ordered.
LEMMA KeepOrder ==
  ASSUME NEW R, NEW s \in Seq(R), NEW S, NEW P, Ordered(s, P)
  PROVE  Ordered(Keep(s, S), P)
<1> DEFINE n == Len(s)
           Of(i) == {s[j] : j \in 1..i}
           Good(i, f) == f \in Seq(R) /\ ToSet(f) \subseteq Of(i) /\ Ordered(f, P)
<1>1. n \in Nat /\ DOMAIN s = 1..n /\ \A i \in 1..n : s[i] \in R
  OBVIOUS
<1>2. \A i, j \in 1..n : i < j => <<s[i], s[j]>> \in P
  BY DEF Ordered
<1> HIDE DEF n
<1>3. PICK F : /\ Keep(s, S) = F[n] /\ F[0] = << >>
               /\ \A i \in 1..n :
                    F[i] = IF s[i] \in S THEN Append(F[i - 1], s[i]) ELSE F[i - 1]
  <2>1. PICK F : KeptBy(F, s, S)
    BY KeepSteps, Zenon
  <2> QED
    BY <2>1 DEF KeptBy, n
<1> DEFINE T == {i \in Nat : i <= n => Good(i, F[i])}
<1>4. 0 \in T
  <2>1. << >> \in Seq(R) /\ ToSet(<< >>) = {} /\ Ordered(<< >>, P)
    BY DEF ToSet, Ordered
  <2> QED
    BY <1>3, <2>1
<1>5. ASSUME NEW i \in Nat, i \in T PROVE i + 1 \in T
  <2> SUFFICES ASSUME i + 1 <= n PROVE Good(i + 1, F[i + 1])
    OBVIOUS
  <2> DEFINE e == s[i + 1]
             f == F[i]
             g == F[i + 1]
  <2>1. i + 1 \in 1..n /\ (i + 1) - 1 = i /\ i <= n
    BY <1>1
  <2>2. Good(i, f) /\ e \in R
    BY <1>1, <1>5, <2>1
  <2>3. g = IF e \in S THEN Append(f, e) ELSE f
    BY <1>3, <2>1
  <2>4. Of(i) \subseteq Of(i + 1) /\ e \in Of(i + 1)
    OBVIOUS
  <2>5. \A x \in Of(i) : <<x, e>> \in P
    <3>1. \A j \in 1..i : j \in 1..n /\ j < i + 1
      BY <1>1, <2>1
    <3> QED
      BY <1>2, <2>1, <3>1
  <2> HIDE DEF e, f, g, Of
  <2>6. CASE e \in S
    <3>1. Append(f, e) \in Seq(R) /\ ToSet(Append(f, e)) = ToSet(f) \cup {e}
      BY <2>2, AppendItems
    <3>2. Ordered(Append(f, e), P)
      BY <2>2, <2>5, AppendOrder
    <3> QED
      BY <2>2, <2>3, <2>4, <2>6, <3>1, <3>2 DEF g
  <2>7. CASE e \notin S
    BY <2>2, <2>3, <2>4, <2>7 DEF g
  <2> QED
    BY <2>6, <2>7
<1>6. n \in T
  <2> HIDE DEF T
  <2> QED
    BY <1>1, <1>4, <1>5, Induction
<1> QED
  BY <1>1, <1>3, <1>6

\* If everything is to be kept, it is the same list.
LEMMA KeepAll ==
  ASSUME NEW R, NEW s \in Seq(R), NEW S, ToSet(s) \subseteq S
  PROVE  Keep(s, S) = s
<1> DEFINE n == Len(s)
           Good(i, f) == f \in Seq(R) /\ Len(f) = i /\ \A j \in 1..i : f[j] = s[j]
<1>1. /\ n \in Nat /\ DOMAIN s = 1..n
      /\ \A i \in 1..n : s[i] \in R /\ s[i] \in S
  BY DEF ToSet
<1> HIDE DEF n
<1>2. PICK F : /\ Keep(s, S) = F[n] /\ F[0] = << >>
               /\ \A i \in 1..n :
                    F[i] = IF s[i] \in S THEN Append(F[i - 1], s[i]) ELSE F[i - 1]
  <2>1. PICK F : KeptBy(F, s, S)
    BY KeepSteps, Zenon
  <2> QED
    BY <2>1 DEF KeptBy, n
<1> DEFINE T == {i \in Nat : i <= n => Good(i, F[i])}
<1>3. 0 \in T
  <2>1. Good(0, << >>)
    OBVIOUS
  <2>2. F[0] = << >>
    BY <1>2
  <2> HIDE DEF Good
  <2> QED
    BY <2>1, <2>2
<1>4. ASSUME NEW i \in Nat, i \in T PROVE i + 1 \in T
  <2> SUFFICES ASSUME i + 1 <= n PROVE Good(i + 1, F[i + 1])
    OBVIOUS
  <2> DEFINE f == F[i]
             e == s[i + 1]
             g == Append(f, e)
  <2>1. i + 1 \in 1..n /\ (i + 1) - 1 = i /\ i <= n
    BY <1>1
  <2>2. Good(i, f) /\ e \in R
    BY <1>1, <1>4, <2>1
  <2>3. F[i + 1] = g
    BY <1>1, <1>2, <2>1
  <2> HIDE DEF f, e
  <2>4. g \in Seq(R) /\ Len(g) = i + 1 /\ g[i + 1] = e /\ \A j \in 1..i : g[j] = f[j]
    BY <2>2, AppendProperties
  <2> HIDE DEF g
  <2>5. \A j \in 1..(i + 1) : j \in 1..i \/ j = i + 1
    OBVIOUS
  <2>6. \A j \in 1..(i + 1) : g[j] = s[j]
    BY <2>2, <2>4, <2>5 DEF e
  <2> QED
    BY <2>3, <2>4, <2>6
<1>5. n \in T
  <2> HIDE DEF T
  <2> QED
    BY <1>1, <1>3, <1>4, Induction
<1>6. F[n] \in Seq(R) /\ Len(F[n]) = n /\ \A j \in 1..n : F[n][j] = s[j]
  BY <1>1, <1>5
<1> DEFINE f == F[n]
<1> HIDE DEF f
<1>7. f = s
  <2>1. f \in Seq(R) /\ s \in Seq(R) /\ Len(f) = Len(s) /\ \A j \in 1..Len(f) : f[j] = s[j]
    BY <1>6 DEF f, n
  <2> QED
    BY <2>1, SeqEqual
<1> QED
  BY <1>2, <1>7 DEF f

\* A list behind another whose items may precede its own.
LEMMA ConcatOrder ==
  ASSUME NEW R, NEW s \in Seq(R), NEW t \in Seq(R), NEW P,
         Ordered(s, P), Ordered(t, P),
         \A x \in ToSet(s), y \in ToSet(t) : <<x, y>> \in P
  PROVE  Ordered(s \o t, P)
<1> DEFINE m == Len(s)
           n == Len(t)
           u == s \o t
<1>1. /\ m \in Nat /\ n \in Nat /\ DOMAIN s = 1..m /\ DOMAIN t = 1..n
      /\ Len(u) = m + n
      /\ \A i \in 1..(m + n) : u[i] = IF i <= m THEN s[i] ELSE t[i - m]
  BY ConcatProperties
<1>2. /\ \A i, j \in 1..m : i < j => <<s[i], s[j]>> \in P
      /\ \A i, j \in 1..n : i < j => <<t[i], t[j]>> \in P
      /\ \A i \in 1..m, j \in 1..n : <<s[i], t[j]>> \in P
  BY <1>1 DEF Ordered, ToSet
<1> HIDE DEF m, n, u
<1>3. SUFFICES ASSUME NEW i \in 1..(m + n), NEW j \in 1..(m + n), i < j
               PROVE  <<u[i], u[j]>> \in P
  BY <1>1 DEF Ordered, u
<1>4. CASE j <= m
  <2>1. i \in 1..m /\ j \in 1..m /\ u[i] = s[i] /\ u[j] = s[j]
    BY <1>1, <1>3, <1>4
  <2> QED
    BY <1>2, <1>3, <2>1
<1>5. CASE i <= m /\ ~(j <= m)
  <2>1. i \in 1..m /\ j - m \in 1..n /\ u[i] = s[i] /\ u[j] = t[j - m]
    BY <1>1, <1>5
  <2> QED
    BY <1>2, <2>1
<1>6. CASE ~(i <= m)
  <2>1. /\ i - m \in 1..n /\ j - m \in 1..n /\ i - m < j - m
        /\ u[i] = t[i - m] /\ u[j] = t[j - m]
    BY <1>1, <1>3, <1>6
  <2> QED
    BY <1>2, <2>1
<1> QED
  BY <1>4, <1>5, <1>6

-----------------------------------------------------------------------------
(* Sorting.                                                                *)

\* F[n] is the first n items, sorted.
SortedBy(F, s, key) ==
  /\ Sorted(s, key) = F[Len(s)] /\ F[0] = << >>
  /\ \A n \in 1..Len(s) : F[n] = Insert(F[n - 1], s[n], key)

\* The function Sorted declares exists.
LEMMA SortSteps ==
  ASSUME NEW R, NEW s \in Seq(R), NEW key
  PROVE  \E F : SortedBy(F, s, key)
<1> DEFINE At(F, n) == IF n = 0 THEN << >> ELSE Insert(F[n - 1], s[n], key)
           Upto(F, n) == [i \in 0..n |-> At(F, i)]
           T == {n \in Nat : \E F : F = Upto(F, n)}
           N == Len(s)
           C == CHOOSE F : F = Upto(F, N)
<1>1. 0 \in T
  <2> DEFINE F == [i \in 0..0 |-> << >>]
  <2>1. F = Upto(F, 0)
    OBVIOUS
  <2> QED
    BY <2>1
<1>2. ASSUME NEW n \in Nat, n \in T PROVE n + 1 \in T
  <2>1. PICK F : F = Upto(F, n)
    BY <1>2
  <2> DEFINE G == [i \in 0..(n + 1) |-> IF i <= n THEN F[i] ELSE At(F, i)]
  <2>2. ASSUME NEW i \in 0..n PROVE F[i] = At(F, i)
    <3> DEFINE E == Upto(F, n)
    <3> HIDE DEF At
    <3>1. E[i] = At(F, i) /\ F = E
      BY <2>1
    <3> HIDE DEF E
    <3> QED
      BY <3>1
  <2>3. ASSUME NEW i \in 0..(n + 1) PROVE G[i] = At(G, i)
    <3>1. i # 0 => G[i - 1] = F[i - 1]
      <4> HIDE DEF At
      <4> QED
        OBVIOUS
    <3> HIDE DEF G
    <3>2. At(G, i) = At(F, i)
      BY <3>1
    <3>3. G[i] = IF i <= n THEN F[i] ELSE At(F, i)
      <4> HIDE DEF At
      <4> QED
        BY DEF G
    <3>4. i <= n => i \in 0..n
      OBVIOUS
    <3> HIDE DEF At
    <3> QED
      BY <2>2, <3>2, <3>3, <3>4
  <2>4. G = Upto(G, n + 1) /\ n + 1 \in Nat
    <3> HIDE DEF At
    <3> QED
      BY <2>3
  <2> HIDE DEF Upto, G
  <2> QED
    BY <2>4
<1>3. N \in Nat
  OBVIOUS
<1>4. \E F : F = Upto(F, N)
  <2>1. N \in T
    <3> HIDE DEF T, N
    <3> QED
      BY <1>1, <1>2, <1>3, Induction
  <2> HIDE DEF Upto
  <2> QED
    BY <2>1
<1>5. C = Upto(C, N)
  <2> HIDE DEF Upto
  <2> QED
    BY <1>4, Zenon
<1>6. Sorted(s, key) = C[N]
  BY DEF Sorted
<1>7. ASSUME NEW n \in 0..N PROVE C[n] = At(C, n)
  <2> DEFINE E == Upto(C, N)
  <2> HIDE DEF At
  <2>1. E[n] = At(C, n)
    OBVIOUS
  <2>2. C = E
    BY <1>5
  <2> HIDE DEF E, C
  <2> QED
    BY <2>1, <2>2
<1> HIDE DEF N, C
<1>8. 0 \in 0..N /\ \A n \in 1..N : n \in 0..N /\ n # 0
  BY <1>3
<1>9. C[0] = << >> /\ \A n \in 1..N : C[n] = Insert(C[n - 1], s[n], key)
  BY <1>7, <1>8
<1> QED
  BY <1>6, <1>9 DEF N, SortedBy

\* Inserting adds the item and keeps the order of the keys.
LEMMA InsertIs ==
  ASSUME NEW R, NEW key, \A x \in R : key[x] \in Int, NEW P,
         P = {p \in R \X R : key[p[1]] <= key[p[2]]},
         NEW f \in Seq(R), NEW e \in R, Ordered(f, P)
  PROVE  /\ Insert(f, e, key) \in Seq(R)
         /\ ToSet(Insert(f, e, key)) = ToSet(f) \cup {e}
         /\ Ordered(Insert(f, e, key), P)
<1> DEFINE one == <<e>>
           later == {y \in ToSet(f) : key[y] > key[e]}
           a == Keep(f, ToSet(f) \ later)
           b == Keep(f, later)
           c == a \o one
<1>1. ToSet(f) \subseteq R
  BY DEF ToSet
<1>2. /\ \A x \in ToSet(f) \ later : <<x, e>> \in P
      /\ \A x \in ToSet(f) \ later, y \in later : <<x, y>> \in P
      /\ \A y \in later : <<e, y>> \in P
  <2>1. \A x, y \in R : key[x] \in Int /\ (<<x, y>> \in P <=> key[x] <= key[y])
    OBVIOUS
  <2> QED
    BY <1>1, <2>1
<1>3. one \in Seq(R) /\ ToSet(one) = {e} /\ Ordered(one, P)
  <2>1. one \in Seq(R) /\ DOMAIN one = {1} /\ one[1] = e /\ Len(one) = 1
    OBVIOUS
  <2> HIDE DEF one
  <2>2. \A j, k \in 1..Len(one) : ~(j < k)
    BY <2>1
  <2> QED
    BY <2>1, <2>2 DEF ToSet, Ordered
<1>4. Insert(f, e, key) = c \o b
  BY DEF Insert
<1>5. later \subseteq ToSet(f)
  OBVIOUS
<1> HIDE DEF one, later
<1>6. /\ a \in Seq(R) /\ ToSet(a) = ToSet(f) \cap (ToSet(f) \ later) /\ Ordered(a, P)
      /\ b \in Seq(R) /\ ToSet(b) = ToSet(f) \cap later /\ Ordered(b, P)
  BY KeepIs, KeepOrder
<1> HIDE DEF a, b
<1>7. c \in Seq(R) /\ ToSet(c) = ToSet(a) \cup {e} /\ Ordered(c, P)
  <2>1. \A x \in ToSet(a), y \in ToSet(one) : <<x, y>> \in P
    BY <1>2, <1>3, <1>6
  <2>2. Ordered(c, P)
    BY <1>3, <1>6, <2>1, ConcatOrder
  <2> QED
    BY <1>3, <1>6, <2>2, ConcatItems
<1> HIDE DEF c
<1>8. c \o b \in Seq(R) /\ ToSet(c \o b) = ToSet(c) \cup ToSet(b) /\ Ordered(c \o b, P)
  <2>1. \A x \in ToSet(c), y \in ToSet(b) : <<x, y>> \in P
    BY <1>2, <1>6, <1>7
  <2>2. Ordered(c \o b, P)
    BY <1>6, <1>7, <2>1, ConcatOrder
  <2> QED
    BY <1>6, <1>7, <2>2, ConcatItems
<1> QED
  BY <1>4, <1>5, <1>6, <1>7, <1>8

\* Sorting keeps every item and puts none before one with a smaller key.
LEMMA SortedIs ==
  ASSUME NEW R, NEW s \in Seq(R), NEW key, \A x \in R : key[x] \in Int
  PROVE  /\ Sorted(s, key) \in Seq(R)
         /\ ToSet(Sorted(s, key)) = ToSet(s)
         /\ Ordered(Sorted(s, key), {p \in R \X R : key[p[1]] <= key[p[2]]})
<1> DEFINE N == Len(s)
           P == {p \in R \X R : key[p[1]] <= key[p[2]]}
           Of(i) == {s[j] : j \in 1..i}
           Good(i, f) == f \in Seq(R) /\ ToSet(f) = Of(i) /\ Ordered(f, P)
<1>1. N \in Nat /\ DOMAIN s = 1..N /\ \A i \in 1..N : s[i] \in R
  OBVIOUS
<1>2. PICK F : /\ Sorted(s, key) = F[N] /\ F[0] = << >>
               /\ \A n \in 1..N : F[n] = Insert(F[n - 1], s[n], key)
  <2>1. PICK F : SortedBy(F, s, key)
    BY SortSteps, Zenon
  <2> QED
    BY <2>1 DEF SortedBy
<1>3. \A f \in Seq(R), e \in R :
        Ordered(f, P) => /\ Insert(f, e, key) \in Seq(R)
                         /\ ToSet(Insert(f, e, key)) = ToSet(f) \cup {e}
                         /\ Ordered(Insert(f, e, key), P)
  BY InsertIs
<1> HIDE DEF N, P
<1> DEFINE T == {i \in Nat : i <= N => Good(i, F[i])}
<1>4. 0 \in T
  <2>1. << >> \in Seq(R) /\ ToSet(<< >>) = {} /\ Ordered(<< >>, P)
    BY DEF ToSet, Ordered
  <2>2. Of(0) = {}
    OBVIOUS
  <2> QED
    BY <1>2, <2>1, <2>2
<1>5. ASSUME NEW i \in Nat, i \in T PROVE i + 1 \in T
  <2> SUFFICES ASSUME i + 1 <= N PROVE Good(i + 1, F[i + 1])
    OBVIOUS
  <2> DEFINE f == F[i]
             e == s[i + 1]
  <2>1. i + 1 \in 1..N /\ (i + 1) - 1 = i /\ i <= N
    BY <1>1
  <2>2. Good(i, f) /\ e \in R
    BY <1>1, <1>5, <2>1
  <2>3. F[i + 1] = Insert(f, e, key)
    BY <1>2, <2>1
  <2>4. Of(i + 1) = Of(i) \cup {e}
    <3>1. \A j \in 1..(i + 1) : j \in 1..i \/ j = i + 1
      OBVIOUS
    <3>2. i + 1 \in 1..(i + 1) /\ \A j \in 1..i : j \in 1..(i + 1)
      OBVIOUS
    <3> QED
      BY <3>1, <3>2
  <2> HIDE DEF f, e, Of
  <2> QED
    BY <1>3, <2>2, <2>3, <2>4
<1>6. Good(N, F[N])
  <2>1. N \in T
    <3> HIDE DEF T
    <3> QED
      BY <1>1, <1>4, <1>5, Induction
  <2> HIDE DEF Good
  <2> QED
    BY <1>1, <2>1
<1>7. Of(N) = ToSet(s)
  BY <1>1 DEF ToSet
<1> QED
  BY <1>2, <1>6, <1>7 DEF P

-----------------------------------------------------------------------------
(* Repetitions.                                                            *)

\* Where the items stand that Firsts takes: at the places where a key comes
\* first, from left to right.
Places(s, key, first) ==
  LET n      == Len(s)
      m      == Len(first)
      firsts == {i \in 1..n : \A j \in 1..(i - 1) : key[s[j]] # key[s[i]]}
  IN /\ Firsts(s, key) = [k \in 1..m |-> s[first[k]]]
     /\ \A k \in 1..m : first[k] \in firsts
     /\ \A i \in firsts : \E k \in 1..m : first[k] = i
     /\ \A k, l \in 1..m : k < l => first[k] < first[l]

\* There is a list of those places: the one Firsts goes by.
LEMMA FirstPlaces ==
  ASSUME NEW R, NEW s \in Seq(R), NEW key
  PROVE  \E first \in Seq(1..Len(s)) : Places(s, key, first)
<1> DEFINE n == Len(s)
           indices == [i \in 1..n |-> i]
           firsts == {i \in 1..n : \A j \in 1..(i - 1) : key[s[j]] # key[s[i]]}
           first == Keep(indices, firsts)
           m == Len(first)
           less == {p \in (1..n) \X (1..n) : p[1] < p[2]}
<1>1. n \in Nat
  OBVIOUS
<1>2. indices \in Seq(1..n) /\ ToSet(indices) = 1..n /\ Len(indices) = n
  BY <1>1 DEF ToSet
<1>3. Ordered(indices, less)
  BY <1>2 DEF Ordered
<1>4. first \in Seq(1..n) /\ ToSet(first) = 1..n \cap firsts
  <2> HIDE DEF indices, firsts
  <2> QED
    BY <1>2, KeepIs
<1>5. Ordered(first, less)
  <2> HIDE DEF indices, firsts, less
  <2> QED
    BY <1>2, <1>3, KeepOrder
<1>6. Firsts(s, key) = [k \in 1..m |-> s[first[k]]]
  BY DEF Firsts
<1>7. m \in Nat /\ DOMAIN first = 1..m
  <2> HIDE DEF first
  <2> QED
    BY <1>4
<1>8. \A k, l \in 1..m : k < l => first[k] < first[l]
  BY <1>5 DEF Ordered
<1> HIDE DEF first, m, indices
<1>9. ToSet(first) = firsts
  BY <1>4
<1>10. \A k \in 1..m : first[k] \in firsts
  <2> HIDE DEF firsts
  <2> QED
    BY <1>7, <1>9 DEF ToSet
<1>11. \A i \in firsts : \E k \in 1..m : first[k] = i
  <2> HIDE DEF firsts
  <2> QED
    BY <1>7, <1>9 DEF ToSet
<1>12. Places(s, key, first)
  BY <1>6, <1>8, <1>10, <1>11 DEF Places, m, n
<1> QED
  BY <1>4, <1>12

\* Of the items with the same key the first is left.
LEMMA FirstsIs ==
  ASSUME NEW R, NEW s \in Seq(R), NEW key
  PROVE  /\ Firsts(s, key) \in Seq(R)
         /\ ToSet(Firsts(s, key)) \subseteq ToSet(s)
         /\ \A x \in ToSet(s) : \E y \in ToSet(Firsts(s, key)) : key[y] = key[x]
         /\ \A k, l \in 1..Len(Firsts(s, key)) :
              key[Firsts(s, key)[k]] = key[Firsts(s, key)[l]] => k = l
         /\ \A P : Ordered(s, P) => Ordered(Firsts(s, key), P)
<1> DEFINE n == Len(s)
           firsts == {i \in 1..n : \A j \in 1..(i - 1) : key[s[j]] # key[s[i]]}
           f == Firsts(s, key)
<1>1. n \in Nat /\ DOMAIN s = 1..n /\ \A i \in 1..n : s[i] \in R
  OBVIOUS
<1>2. PICK first \in Seq(1..Len(s)) : Places(s, key, first)
  BY FirstPlaces
<1> DEFINE m == Len(first)
<1>3. m \in Nat
  OBVIOUS
<1>4. /\ f = [k \in 1..m |-> s[first[k]]]
      /\ \A k \in 1..m : first[k] \in firsts
      /\ \A i \in firsts : \E k \in 1..m : first[k] = i
      /\ \A k, l \in 1..m : k < l => first[k] < first[l]
  BY <1>2 DEF Places
<1> HIDE DEF f, n, m
<1>5. f \in Seq(R) /\ Len(f) = m /\ DOMAIN f = 1..m /\ \A k \in 1..m : f[k] = s[first[k]]
  <2>1. \A k \in 1..m : s[first[k]] \in R
    BY <1>1, <1>4
  <2> HIDE DEF firsts
  <2> QED
    BY <1>3, <1>4, <2>1
<1>6. ToSet(f) \subseteq ToSet(s)
  BY <1>1, <1>4, <1>5 DEF ToSet
<1>7. ASSUME NEW x \in ToSet(s) PROVE \E y \in ToSet(f) : key[y] = key[x]
  <2> DEFINE T == {i \in 1..n : key[s[i]] = key[x]}
  <2>1. PICK i \in T : \A j \in T : i <= j
    <3>1. T # {} /\ T \subseteq Nat
      BY <1>1, <1>7 DEF ToSet
    <3> HIDE DEF T
    <3> QED
      BY <3>1, Least
  <2>2. i \in firsts
    BY <1>1, <2>1
  <2>3. PICK k \in 1..m : first[k] = i
    BY <1>4, <2>2
  <2>4. f[k] \in ToSet(f) /\ f[k] = s[i]
    BY <1>5, <2>3 DEF ToSet
  <2> QED
    BY <2>1, <2>4
<1>8. ASSUME NEW k \in 1..m, NEW l \in 1..m, key[f[k]] = key[f[l]] PROVE k = l
  <2>1. first[k] \in 1..n /\ first[l] \in 1..n /\ key[s[first[k]]] = key[s[first[l]]]
    BY <1>4, <1>5, <1>8
  <2>2. ~(first[k] < first[l])
    <3>1. first[k] < first[l] => first[k] \in 1..(first[l] - 1)
      BY <1>1, <2>1
    <3> QED
      BY <1>4, <2>1, <3>1
  <2>3. ~(first[l] < first[k])
    <3>1. first[l] < first[k] => first[l] \in 1..(first[k] - 1)
      BY <1>1, <2>1
    <3> QED
      BY <1>4, <2>1, <3>1
  <2>4. k < l \/ l < k \/ k = l
    OBVIOUS
  <2> HIDE DEF firsts
  <2> QED
    BY <1>4, <2>2, <2>3, <2>4
<1>9. ASSUME NEW P, Ordered(s, P) PROVE Ordered(f, P)
  <2>1. SUFFICES ASSUME NEW k \in 1..m, NEW l \in 1..m, k < l
                 PROVE  <<f[k], f[l]>> \in P
    BY <1>5 DEF Ordered
  <2>2. first[k] < first[l] /\ first[k] \in 1..n /\ first[l] \in 1..n
    BY <1>4, <2>1
  <2>3. \A i, j \in 1..n : i < j => <<s[i], s[j]>> \in P
    BY <1>9 DEF Ordered, n
  <2> QED
    BY <1>5, <2>2, <2>3
<1> QED
  BY <1>5, <1>6, <1>7, <1>8, <1>9 DEF f

\* A list without its later repetitions.
LEMMA OnceIs ==
  ASSUME NEW R, NEW s \in Seq(R)
  PROVE  Once(s) \in Seq(R) /\ IsInjective(Once(s)) /\ ToSet(Once(s)) = ToSet(s)
<1> DEFINE key == [x \in ToSet(s) |-> x]
           f == Firsts(s, key)
<1>1. /\ f \in Seq(R) /\ ToSet(f) \subseteq ToSet(s)
      /\ \A x \in ToSet(s) : \E y \in ToSet(f) : key[y] = key[x]
      /\ \A k, l \in 1..Len(f) : key[f[k]] = key[f[l]] => k = l
  <2> HIDE DEF key
  <2> QED
    BY FirstsIs
<1>2. \A x \in ToSet(s) : key[x] = x
  OBVIOUS
<1>3. Once(s) = f
  BY DEF Once
<1> HIDE DEF key, f
<1>4. DOMAIN f = 1..Len(f) /\ \A k \in 1..Len(f) : f[k] \in ToSet(f)
  BY <1>1 DEF ToSet
<1>5. IsInjective(f)
  BY <1>1, <1>4 DEF IsInjective
<1>6. ToSet(s) \subseteq ToSet(f)
  BY <1>1, <1>2
<1> QED
  BY <1>1, <1>3, <1>5, <1>6

\* An append and what is in front of it.
LEMMA AppendParts ==
  ASSUME NEW R, NEW s \in Seq(R), NEW e \in R
  PROVE  Front(Append(s, e)) = s /\ Last(Append(s, e)) = e
<1> DEFINE n == Len(s)
           t == Append(s, e)
<1>1. /\ n \in Nat /\ t \in Seq(R) /\ Len(t) = n + 1 /\ t[n + 1] = e
      /\ \A i \in 1..n : t[i] = s[i]
  BY AppendProperties, LenProperties
<1> HIDE DEF n, t
<1>2. Last(t) = e
  BY <1>1 DEF Last
<1>3. Front(t) = s
  <2> DEFINE u == SubSeq(t, 1, n)
  <2>1. \A i \in 1..n : t[i] \in R
    BY <1>1
  <2>2. /\ u \in Seq(R) /\ Len(u) = IF 1 <= n THEN n - 1 + 1 ELSE 0
        /\ \A i \in 1..(n - 1 + 1) : u[i] = t[1 + i - 1]
    BY <1>1, <2>1, SubSeqProperties
  <2>3. Len(u) = Len(s) /\ \A i \in 1..Len(u) : u[i] = s[i]
    <3>1. n - 1 + 1 = n /\ \A i \in 1..n : 1 + i - 1 = i
      BY <1>1
    <3>2. Len(u) = n
      BY <1>1, <2>2
    <3> HIDE DEF u
    <3> QED
      BY <1>1, <2>2, <3>1, <3>2 DEF n
  <2>4. u = s
    <3> HIDE DEF u
    <3> QED
      BY <2>2, <2>3, SeqEqual
  <2>5. Front(t) = u
    <3>1. Len(t) - 1 = n
      BY <1>1
    <3> QED
      BY <3>1 DEF Front
  <2> QED
    BY <2>4, <2>5
<1> QED
  BY <1>2, <1>3 DEF t

\* Appending to two lists, one behind the other.
LEMMA ConcatAppend ==
  ASSUME NEW R, NEW s \in Seq(R), NEW t \in Seq(R), NEW e \in R
  PROVE  /\ s \o t \in Seq(R)
         /\ s \o Append(t, e) = Append(s \o t, e)
         /\ s \o << >> = s /\ << >> \o s = s
<1>1. /\ Append(t, e) = t \o <<e>> /\ s \o t \in Seq(R) /\ <<e>> \in Seq(R)
      /\ Append(s \o t, e) = (s \o t) \o <<e>>
  BY AppendIsConcat, ConcatProperties
<1> QED
  BY <1>1, ConcatAssociative, ConcatEmptySeq

\* Nothing of a list is kept if none of its items is.
LEMMA KeepNone ==
  ASSUME NEW R, NEW s \in Seq(R), NEW S, ToSet(s) \cap S = {}
  PROVE  Keep(s, S) = << >>
<1> DEFINE k == Keep(s, S)
<1>1. k \in Seq(R) /\ ToSet(k) = {}
  BY KeepIs
<1> HIDE DEF k
<1>2. \A i \in 1..Len(k) : k[i] \in ToSet(k)
  BY <1>1 DEF ToSet
<1>3. Len(k) = 0
  BY <1>1, <1>2
<1>4. k = << >>
  BY <1>1, <1>3, EmptySeq
<1> QED
  BY <1>4 DEF k

\* Nothing is kept of nothing.
LEMMA KeepNothing ==
  ASSUME NEW S
  PROVE  Keep(<< >>, S) = << >>
<1>1. << >> \in Seq({}) /\ ToSet(<< >>) = {}
  BY EmptySeq DEF ToSet
<1> QED
  BY <1>1, KeepNone

\* What is kept of a list depends on its items alone.
LEMMA KeepSame ==
  ASSUME NEW R, NEW s \in Seq(R), NEW S, NEW T, S \cap R = T \cap R
  PROVE  Keep(s, S) = Keep(s, T)
<1> DEFINE U == {t \in Seq(R) : Keep(t, S) = Keep(t, T)}
<1>1. << >> \in U
  <2>1. << >> \in Seq(R)
    BY EmptySeq
  <2>2. Keep(<< >>, S) = << >> /\ Keep(<< >>, T) = << >>
    BY KeepNothing
  <2> QED
    BY <2>1, <2>2
<1>2. ASSUME NEW t \in Seq(R), NEW e \in R, t \in U PROVE Append(t, e) \in U
  <2>1. /\ Keep(Append(t, e), S) = IF e \in S THEN Append(Keep(t, S), e) ELSE Keep(t, S)
        /\ Keep(Append(t, e), T) = IF e \in T THEN Append(Keep(t, T), e) ELSE Keep(t, T)
    BY KeepAppends
  <2>2. Keep(t, S) = Keep(t, T) /\ (e \in S <=> e \in T)
    BY <1>2
  <2>3. Append(t, e) \in Seq(R)
    BY AppendItems
  <2> QED
    BY <2>1, <2>2, <2>3
<1> HIDE DEF U
<1>3. Seq(R) \subseteq U
  BY <1>1, <1>2, ListInduction, Zenon
<1> QED
  BY <1>3 DEF U

\* What is kept of two lists, one behind the other.
LEMMA KeepConcat ==
  ASSUME NEW R, NEW s \in Seq(R), NEW t \in Seq(R), NEW S
  PROVE  Keep(s \o t, S) = Keep(s, S) \o Keep(t, S)
<1> DEFINE U == {u \in Seq(R) : Keep(s \o u, S) = Keep(s, S) \o Keep(u, S)}
           k == Keep(s, S)
<1>1. k \in Seq(R)
  BY KeepIs
<1>2. << >> \in U
  <2>1. << >> \in Seq(R) /\ Keep(<< >>, S) = << >> /\ s \o << >> = s
    BY EmptySeq, KeepNothing, ConcatEmptySeq
  <2>2. k \o << >> = k
    <3> HIDE DEF k
    <3> QED
      BY <1>1, ConcatEmptySeq
  <2> QED
    BY <2>1, <2>2
<1>3. ASSUME NEW u \in Seq(R), NEW e \in R, u \in U PROVE Append(u, e) \in U
  <2> DEFINE j == Keep(u, S)
  <2>1. Keep(s \o u, S) = k \o j
    BY <1>3
  <2>2. j \in Seq(R) /\ s \o u \in Seq(R) /\ Append(u, e) \in Seq(R)
    BY KeepIs, ConcatProperties, AppendItems
  <2>3. Keep(Append(u, e), S) = IF e \in S THEN Append(j, e) ELSE j
    BY KeepAppends
  <2> HIDE DEF j, U, k
  <2>4. s \o Append(u, e) = Append(s \o u, e)
    BY ConcatAppend
  <2>5. Keep(Append(s \o u, e), S) =
          IF e \in S THEN Append(k \o j, e) ELSE k \o j
    BY <2>1, <2>2, KeepAppends
  <2>6. k \o Append(j, e) = Append(k \o j, e)
    BY <1>1, <2>2, ConcatAppend
  <2>7. Keep(s \o Append(u, e), S) = k \o Keep(Append(u, e), S)
    BY <2>3, <2>4, <2>5, <2>6
  <2> QED
    BY <2>2, <2>7 DEF U, k
<1> HIDE DEF U
<1>4. Seq(R) \subseteq U
  BY <1>2, <1>3, ListInduction, Zenon
<1> QED
  BY <1>4 DEF U

\* The least and the greatest of a set of numbers, once one is at hand.
LEMMA MinMaxAre ==
  ASSUME NEW I, I \subseteq Nat, NEW x \in I
  PROVE  /\ (\A y \in I : x <= y) => Min(I) = x
         /\ (\A y \in I : x >= y) => Max(I) = x
<1>1. ASSUME \A y \in I : x <= y PROVE Min(I) = x
  <2>1. Min(I) \in I /\ \A y \in I : Min(I) <= y
    BY <1>1 DEF Min
  <2>2. Min(I) <= x /\ x <= Min(I) /\ x \in Nat /\ Min(I) \in Nat
    BY <1>1, <2>1
  <2> QED
    BY <2>2
<1>2. ASSUME \A y \in I : x >= y PROVE Max(I) = x
  <2>1. Max(I) \in I /\ \A y \in I : Max(I) >= y
    BY <1>2 DEF Max
  <2>2. Max(I) >= x /\ x >= Max(I) /\ x \in Nat /\ Max(I) \in Nat
    BY <1>2, <2>1
  <2> QED
    BY <2>2
<1> QED
  BY <1>1, <1>2
=============================================================================
