----------------------- MODULE ProfileVerifier_proofs -----------------------
(* Theorems about ProfileVerifier: the screen is taken apart rightly, so   *)
(* that a result holds the output of its command and success is true.      *)
EXTENDS ProfileVerifier, ListOps_proofs

-----------------------------------------------------------------------------
(* The text on the screen and its lines.  A is the set of atoms.           *)

\* A letter is put behind the last line, or a new one begins.
LEMMA TypingIs ==
  ASSUME NEW A, NEW ls \in Seq(Seq(A)), NEW l \in Seq(A), NEW a \in A
  PROVE  Typing(Append(ls, l), a) =
           IF a = Nl THEN Append(Append(ls, l), << >>) ELSE Append(ls, Append(l, a))
BY AppendParts DEF Typing

\* What a text is split into: at least one line.
LinesOf(A) == Seq(Seq(A)) \ {<< >>}

\* Lines stay lines.
LEMMA TypingKeeps ==
  ASSUME NEW A, NEW ls \in LinesOf(A), NEW a \in A
  PROVE  Typing(ls, a) \in LinesOf(A)
<1> DEFINE L == Seq(A)
<1>1. PICK t \in Seq(L), l \in L : ls = Append(t, l)
  BY SequenceEmptyOrAppend DEF LinesOf
<1>2. << >> \in L /\ Append(l, a) \in L
  BY EmptySeq, AppendProperties
<1>3. Typing(ls, a) = IF a = Nl THEN Append(ls, << >>) ELSE Append(t, Append(l, a))
  BY <1>1, TypingIs
<1> HIDE DEF L
<1>4. Append(ls, << >>) \in Seq(L) /\ Append(ls, << >>) # << >>
  <2>1. ls \in Seq(L)
    BY DEF L, LinesOf
  <2> QED
    BY <1>2, <2>1, AppendItems, Zenon
<1>5. Append(t, Append(l, a)) \in Seq(L) /\ Append(t, Append(l, a)) # << >>
  BY <1>1, <1>2, AppendItems, Zenon
<1>6. Typing(ls, a) \in Seq(L) /\ Typing(ls, a) # << >>
  BY <1>3, <1>4, <1>5
<1> QED
  BY <1>6 DEF L, LinesOf

TypingStep(A) == [p \in LinesOf(A) \X A |-> Typing(p[1], p[2])]

\* Split goes through the text.
LEMMA SplitSteps ==
  ASSUME NEW A, NEW s \in Seq(A)
  PROVE  \E F \in [0..Len(s) -> LinesOf(A)] :
           Split(s) = F[Len(s)] /\ Recursive(F, s, << << >> >>, TypingStep(A))
<1> DEFINE V == LinesOf(A)
           step == TypingStep(A)
<1>1. << << >> >> \in V
  <2>1. << >> \in Seq(A) /\ << << >> >> # << >>
    BY EmptySeq
  <2> QED
    BY <2>1 DEF LinesOf
<1>2. step \in [V \X A -> V]
  BY TypingKeeps DEF TypingStep
<1>13. \A ls \in V, a \in A : step[<<ls, a>>] = Typing(ls, a)
  BY DEF TypingStep
<1> HIDE DEF V, step
<1>3. PICK F \in [0..Len(s) -> V] : Recursive(F, s, << << >> >>, step)
  BY <1>1, <1>2, Recursion, Zenon
<1> DEFINE n == Len(s)
           Upto(G) == [i \in 0..n |-> IF i = 0 THEN << << >> >> ELSE Typing(G[i - 1], s[i])]
           C == CHOOSE G : G = Upto(G)
<1>4. n \in Nat
  OBVIOUS
<1>5. ASSUME NEW i \in 1..n PROVE F[i] = Typing(F[i - 1], s[i])
  <2>1. i - 1 \in 0..n /\ s[i] \in A
    BY <1>4
  <2>2. F[i - 1] \in V
    BY <2>1
  <2>4. step[<<F[i - 1], s[i]>>] = Typing(F[i - 1], s[i])
    BY <1>13, <2>1, <2>2
  <2> QED
    BY <1>3, <2>4 DEF Recursive
<1>6. F = Upto(F)
  <2>1. ASSUME NEW i \in 0..n
        PROVE  F[i] = IF i = 0 THEN << << >> >> ELSE Typing(F[i - 1], s[i])
    <3>1. i # 0 => i \in 1..n
      OBVIOUS
    <3>2. F[0] = << << >> >>
      BY <1>3 DEF Recursive
    <3> QED
      BY <1>5, <3>1, <3>2
  <2> QED
    BY <2>1
<1>7. C = Upto(C)
  <2> HIDE DEF Upto
  <2> QED
    BY <1>6, Zenon
<1>8. Split(s) = C[n]
  BY DEF Split
<1>9. ASSUME NEW i \in 0..n
      PROVE  C[i] = IF i = 0 THEN << << >> >> ELSE Typing(C[i - 1], s[i])
  <2> DEFINE E == Upto(C)
  <2>1. E[i] = IF i = 0 THEN << << >> >> ELSE Typing(C[i - 1], s[i])
    OBVIOUS
  <2>2. C = E
    BY <1>7
  <2> HIDE DEF E, C
  <2> QED
    BY <2>1, <2>2
<1> HIDE DEF C
<1>10. C[0] = << << >> >>
  BY <1>4, <1>9
<1>11. ASSUME NEW i \in 1..n, C[i - 1] \in V PROVE C[i] = step[<<C[i - 1], s[i]>>]
  <2>1. i \in 0..n /\ i # 0 /\ s[i] \in A
    BY <1>4
  <2>3. step[<<C[i - 1], s[i]>>] = Typing(C[i - 1], s[i])
    BY <1>11, <1>13, <2>1
  <2>4. C[i] = Typing(C[i - 1], s[i])
    BY <1>9, <2>1
  <2> QED
    BY <2>3, <2>4
<1>12. C[n] = F[n]
  <2> HIDE DEF n
  <2>1. \A i \in 1..n : C[i - 1] \in V => C[i] = step[<<C[i - 1], s[i]>>]
    BY <1>11
  <2> DEFINE b == << << >> >>
  <2>3. Recursive(F, s, b, step) /\ Follows(C, s, V, b, step)
    BY <1>3, <1>10, <2>1 DEF Follows, n
  <2> HIDE DEF b
  <2>2. C[Len(s)] = F[Len(s)]
    BY <2>3, RecursionReaches
  <2> QED
    BY <2>2 DEF n
<1> QED
  BY <1>3, <1>8, <1>12 DEF V, step

\* The lines of a text, one atom after the other.
LEMMA SplitAppends ==
  ASSUME NEW A, NEW s \in Seq(A), NEW a \in A
  PROVE  /\ Split(<< >>) = << << >> >>
         /\ Split(s) \in LinesOf(A)
         /\ Split(Append(s, a)) = Typing(Split(s), a)
<1> DEFINE V == LinesOf(A)
           step == TypingStep(A)
           t == Append(s, a)
<1>1. t \in Seq(A) /\ << >> \in Seq(A) /\ Len(t) = Len(s) + 1 /\ Len(s) \in Nat
  BY AppendProperties, LenProperties, EmptySeq
<1> HIDE DEF t
<1>2. PICK F \in [0..Len(s) -> V] :
        Split(s) = F[Len(s)] /\ Recursive(F, s, << << >> >>, step)
  BY SplitSteps, Zenon
<1>3. PICK G \in [0..Len(t) -> V] :
        Split(t) = G[Len(t)] /\ Recursive(G, t, << << >> >>, step)
  BY <1>1, SplitSteps, Zenon
<1>4. PICK E \in [0..Len(<< >>) -> V] :
        Split(<< >>) = E[Len(<< >>)] /\ Recursive(E, << >>, << << >> >>, step)
  BY <1>1, SplitSteps, Zenon
<1>5. Split(<< >>) = << << >> >>
  BY <1>4, EmptySeq DEF Recursive
<1>6. Split(s) \in V
  <2>1. Len(s) \in 0..Len(s)
    BY <1>1
  <2> HIDE DEF V
  <2> QED
    BY <1>2, <2>1
<1>7. G[Len(s) + 1] = step[<<F[Len(s)], a>>]
  <2> HIDE DEF step, V
  <2> DEFINE b == << << >> >>
  <2>1. Recursive(F, s, b, step) /\ Recursive(G, Append(s, a), b, step)
    BY <1>2, <1>3 DEF t
  <2> HIDE DEF b
  <2> QED
    BY <2>1, RecursionUnique, ZenonT(40)
<1>8. step[<<Split(s), a>>] = Typing(Split(s), a)
  BY <1>6 DEF TypingStep
<1>9. Split(t) = Typing(Split(s), a)
  <2> HIDE DEF step, V
  <2> QED
    BY <1>1, <1>2, <1>3, <1>7, <1>8
<1> QED
  BY <1>5, <1>6, <1>9 DEF t
\* An end of line behind each line.
Put(text, l) == text \o l \o <<Nl>>
JoinStep(A) == [p \in Seq(A) \X Seq(A) |-> Put(p[1], p[2])]

\* A text stays a text.
LEMMA PutKeeps ==
  ASSUME NEW A, Nl \in A, NEW t \in Seq(A), NEW l \in Seq(A)
  PROVE  Put(t, l) \in Seq(A)
<1>1. t \o l \in Seq(A) /\ <<Nl>> \in Seq(A)
  BY ConcatProperties
<1> QED
  BY <1>1, ConcatProperties DEF Put

\* Joined goes through the lines.
LEMMA JoinedSteps ==
  ASSUME NEW A, Nl \in A, NEW s \in Seq(Seq(A))
  PROVE  \E F \in [0..Len(s) -> Seq(A)] :
           Joined(s) = F[Len(s)] /\ Recursive(F, s, << >>, JoinStep(A))
<1> DEFINE V == Seq(A)
           step == JoinStep(A)
<1>1. << >> \in V
  BY EmptySeq
<1>2. step \in [V \X V -> V]
  BY PutKeeps DEF JoinStep
<1>13. \A ls \in V, a \in V : step[<<ls, a>>] = Put(ls, a)
  BY DEF JoinStep
<1> HIDE DEF V, step
<1>3. PICK F \in [0..Len(s) -> V] : Recursive(F, s, << >>, step)
  <2>1. s \in Seq(V)
    BY DEF V
  <2> QED
    BY <1>1, <1>2, <2>1, Recursion, Zenon
<1> DEFINE n == Len(s)
           Upto(G) == [i \in 0..n |-> IF i = 0 THEN << >> ELSE Put(G[i - 1], s[i])]
           C == CHOOSE G : G = Upto(G)
<1>4. n \in Nat /\ s \in Seq(V)
  BY DEF V
<1>5. ASSUME NEW i \in 1..n PROVE F[i] = Put(F[i - 1], s[i])
  <2>1. i - 1 \in 0..n /\ s[i] \in V
    BY <1>4
  <2>2. F[i - 1] \in V
    BY <2>1
  <2>4. step[<<F[i - 1], s[i]>>] = Put(F[i - 1], s[i])
    BY <1>13, <2>1, <2>2
  <2> QED
    BY <1>3, <2>4 DEF Recursive
<1>6. F = Upto(F)
  <2>1. ASSUME NEW i \in 0..n
        PROVE  F[i] = IF i = 0 THEN << >> ELSE Put(F[i - 1], s[i])
    <3>1. i # 0 => i \in 1..n
      OBVIOUS
    <3>2. F[0] = << >>
      BY <1>3 DEF Recursive
    <3> QED
      BY <1>5, <3>1, <3>2
  <2> QED
    BY <2>1
<1>7. C = Upto(C)
  <2> HIDE DEF Upto
  <2> QED
    BY <1>6, Zenon
<1>8. Joined(s) = C[n]
  BY DEF Joined, Put
<1>9. ASSUME NEW i \in 0..n
      PROVE  C[i] = IF i = 0 THEN << >> ELSE Put(C[i - 1], s[i])
  <2> DEFINE E == Upto(C)
  <2>1. E[i] = IF i = 0 THEN << >> ELSE Put(C[i - 1], s[i])
    OBVIOUS
  <2>2. C = E
    BY <1>7
  <2> HIDE DEF E, C
  <2> QED
    BY <2>1, <2>2
<1> HIDE DEF C
<1>10. C[0] = << >>
  BY <1>4, <1>9
<1>11. ASSUME NEW i \in 1..n, C[i - 1] \in V PROVE C[i] = step[<<C[i - 1], s[i]>>]
  <2>1. i \in 0..n /\ i # 0 /\ s[i] \in V
    BY <1>4
  <2>3. step[<<C[i - 1], s[i]>>] = Put(C[i - 1], s[i])
    BY <1>11, <1>13, <2>1
  <2>4. C[i] = Put(C[i - 1], s[i])
    BY <1>9, <2>1
  <2> QED
    BY <2>3, <2>4
<1>12. C[n] = F[n]
  <2> HIDE DEF n
  <2>1. \A i \in 1..n : C[i - 1] \in V => C[i] = step[<<C[i - 1], s[i]>>]
    BY <1>11
  <2> DEFINE b == << >>
  <2>3. Recursive(F, s, b, step) /\ Follows(C, s, V, b, step)
    BY <1>3, <1>10, <2>1 DEF Follows, n
  <2> HIDE DEF b
  <2>2. C[Len(s)] = F[Len(s)]
    BY <2>3, RecursionReaches
  <2> QED
    BY <2>2 DEF n
<1> QED
  BY <1>3, <1>8, <1>12 DEF V, step

\* The text of lines, one line after the other.
LEMMA JoinedAppends ==
  ASSUME NEW A, Nl \in A, NEW s \in Seq(Seq(A)), NEW a \in Seq(A)
  PROVE  /\ Joined(<< >>) = << >>
         /\ Joined(s) \in Seq(A)
         /\ Joined(Append(s, a)) = Put(Joined(s), a)
<1> DEFINE V == Seq(A)
           step == JoinStep(A)
           t == Append(s, a)
<1>1. t \in Seq(V) /\ << >> \in Seq(V) /\ Len(t) = Len(s) + 1 /\ Len(s) \in Nat
  BY AppendProperties, LenProperties, EmptySeq
<1> HIDE DEF t
<1>2. PICK F \in [0..Len(s) -> V] :
        Joined(s) = F[Len(s)] /\ Recursive(F, s, << >>, step)
  BY JoinedSteps, Zenon
<1>3. PICK G \in [0..Len(t) -> V] :
        Joined(t) = G[Len(t)] /\ Recursive(G, t, << >>, step)
  BY <1>1, JoinedSteps, Zenon
<1>4. PICK E \in [0..Len(<< >>) -> V] :
        Joined(<< >>) = E[Len(<< >>)] /\ Recursive(E, << >>, << >>, step)
  BY <1>1, JoinedSteps, Zenon
<1>5. Joined(<< >>) = << >>
  BY <1>4, EmptySeq DEF Recursive
<1>6. Joined(s) \in V
  <2>1. Len(s) \in 0..Len(s)
    BY <1>1
  <2> HIDE DEF V
  <2> QED
    BY <1>2, <2>1
<1>7. G[Len(s) + 1] = step[<<F[Len(s)], a>>]
  <2> HIDE DEF step, V
  <2> DEFINE b == << >>
  <2>1. Recursive(F, s, b, step) /\ Recursive(G, Append(s, a), b, step)
    BY <1>2, <1>3 DEF t
  <2> HIDE DEF b
  <2> QED
    BY <2>1, RecursionUnique, ZenonT(40)
<1>8. step[<<Joined(s), a>>] = Put(Joined(s), a)
  BY <1>6 DEF JoinStep
<1>9. Joined(t) = Put(Joined(s), a)
  <2> HIDE DEF step, V
  <2> QED
    BY <1>1, <1>2, <1>3, <1>7, <1>8
<1> QED
  BY <1>5, <1>6, <1>9 DEF t

\* The text s is the lines P and, at last, the line l.
Splits(A, s, P, l) ==
  /\ s \in Seq(A) /\ P \in Seq(Seq(A)) /\ l \in Seq(A)
  /\ Split(s) = Append(P, l)

\* A letter goes to the last line, an end of line begins a new one.
LEMMA SplitLetter ==
  ASSUME NEW A, NEW s, NEW P, NEW l, Splits(A, s, P, l), NEW a \in A
  PROVE  /\ a # Nl => Splits(A, Append(s, a), P, Append(l, a))
         /\ a = Nl => Splits(A, Append(s, a), Append(P, l), << >>)
<1>1. /\ s \in Seq(A) /\ P \in Seq(Seq(A)) /\ l \in Seq(A) /\ << >> \in Seq(A)
      /\ Split(s) = Append(P, l)
  BY EmptySeq DEF Splits
<1>2. Append(s, a) \in Seq(A) /\ Append(l, a) \in Seq(A) /\ Append(P, l) \in Seq(Seq(A))
  <2>1. Append(P, l) \in Seq(Seq(A))
    BY <1>1, AppendItems, Zenon
  <2> QED
    BY <1>1, <2>1, AppendItems, Zenon
<1>3. Split(Append(s, a)) = Typing(Append(P, l), a)
  <2>1. Split(Append(s, a)) = Typing(Split(s), a)
    BY <1>1, SplitAppends
  <2> QED
    BY <1>1, <2>1
<1>4. Typing(Append(P, l), a) =
        IF a = Nl THEN Append(Append(P, l), << >>) ELSE Append(P, Append(l, a))
  BY <1>1, TypingIs
<1> QED
  BY <1>1, <1>2, <1>3, <1>4 DEF Splits

\* So do words.
LEMMA SplitWords ==
  ASSUME NEW A, NEW s, NEW P, NEW l, Splits(A, s, P, l), NEW w \in Seq(A \ {Nl})
  PROVE  Splits(A, s \o w, P, l \o w)
<1> DEFINE W == A \ {Nl}
           S == {t \in Seq(W) : Splits(A, s \o t, P, l \o t)}
<1>1. s \in Seq(A) /\ l \in Seq(A)
  BY DEF Splits
<1>2. << >> \in S
  <2>1. << >> \in Seq(W) /\ s \o << >> = s /\ l \o << >> = l
    BY <1>1, EmptySeq, ConcatEmptySeq
  <2> QED
    BY <2>1
<1>3. ASSUME NEW t \in Seq(W), NEW a \in W, t \in S PROVE Append(t, a) \in S
  <2>1. t \in Seq(A) /\ a \in A /\ a # Nl
    BY SeqMonotonic
  <2>2. Append(t, a) \in Seq(W)
    BY AppendItems
  <2>3. Splits(A, s \o t, P, l \o t)
    BY <1>3
  <2> HIDE DEF S, W
  <2>4. Splits(A, Append(s \o t, a), P, Append(l \o t, a))
    BY <2>1, <2>3, SplitLetter, Zenon
  <2>5. s \o Append(t, a) = Append(s \o t, a) /\ l \o Append(t, a) = Append(l \o t, a)
    BY <1>1, <2>1, ConcatAppend, SMTT(30)
  <2> QED
    BY <2>2, <2>4, <2>5 DEF S
<1>4. Seq(W) \subseteq S
  <2> HIDE DEF S, W
  <2> QED
    BY <1>2, <1>3, ListInduction, Zenon
<1> QED
  BY <1>4

\* A line that is put behind a text.
LEMMA PutBehind ==
  ASSUME NEW A, NEW s \in Seq(A), NEW t \in Seq(A), NEW l \in Seq(A), Nl \in A
  PROVE  /\ s \o Put(t, l) = Append((s \o t) \o l, Nl)
         /\ s \o Put(t, l) \in Seq(A)
<1>1. t \o l \in Seq(A) /\ s \o (t \o l) = (s \o t) \o l
  BY ConcatProperties, ConcatAssociative, SMTT(30)
<1> DEFINE u == t \o l
           v == (s \o t) \o l
<1>2. Put(t, l) = u \o <<Nl>> /\ u \in Seq(A) /\ s \o u = v
  BY <1>1 DEF Put
<1> HIDE DEF u, v
<1>3. Put(t, l) = Append(u, Nl) /\ Append(u, Nl) \in Seq(A)
  BY <1>2, AppendIsConcat, AppendProperties
<1>4. s \o Append(u, Nl) = Append(v, Nl) /\ v \in Seq(A)
  <2>1. s \o Append(u, Nl) = Append(s \o u, Nl) /\ s \o u \in Seq(A)
    <3>1. u \in Seq(A)
      BY <1>2
    <3> QED
      BY <3>1, ConcatAppend
  <2> QED
    BY <1>2, <2>1
<1>5. Append(v, Nl) \in Seq(A)
  BY <1>4, AppendProperties
<1> QED
  BY <1>3, <1>4, <1>5 DEF v

\* It is split into one line more.
LEMMA SplitPut ==
  ASSUME NEW A, NEW s, NEW P, Splits(A, s, P, << >>), NEW l \in Seq(A \ {Nl}), Nl \in A
  PROVE  Splits(A, Append(s \o l, Nl), Append(P, l), << >>)
<1>1. l \in Seq(A)
  BY SeqMonotonic
<1>2. Splits(A, s \o l, P, << >> \o l)
  BY SplitWords, Zenon
<1>3. << >> \o l = l
  BY <1>1, ConcatEmptySeq
<1>4. Splits(A, s \o l, P, l)
  BY <1>2, <1>3
<1> QED
  BY <1>4, SplitLetter, Zenon

\* What is printed line by line is split into these lines.
LEMMA SplitJoined ==
  ASSUME NEW A, Nl \in A, NEW s, NEW P, Splits(A, s, P, << >>),
         NEW ls \in Seq(Seq(A \ {Nl}))
  PROVE  Splits(A, s \o Joined(ls), P \o ls, << >>)
<1> DEFINE L == Seq(A)
           M == Seq(A \ {Nl})
           S == {t \in Seq(M) : Splits(A, s \o Joined(t), P \o t, << >>)}
<1>1. << >> \in L /\ M \subseteq L /\ P \in Seq(L) /\ s \in Seq(A)
  BY EmptySeq, SeqMonotonic DEF Splits
<1>2. << >> \in S
  <2>1. << >> \in Seq(M) /\ << >> \in Seq(L)
    BY EmptySeq
  <2>2. Joined(<< >>) = << >> /\ s \o << >> = s
    BY <2>1, <1>1, JoinedAppends, ConcatEmptySeq
  <2>3. P \o << >> = P
    BY <1>1, ConcatEmptySeq
  <2> QED
    BY <1>1, <2>1, <2>2, <2>3
<1>3. ASSUME NEW t \in Seq(M), NEW l \in M, t \in S PROVE Append(t, l) \in S
  <2> DEFINE J == Joined(t)
  <2>1. Splits(A, s \o J, P \o t, << >>)
    BY <1>3
  <2>2. Append(t, l) \in Seq(M) /\ t \in Seq(L) /\ l \in L
    BY <1>1, AppendItems, SeqMonotonic
  <2> HIDE DEF S
  <2>3. Joined(Append(t, l)) = Put(J, l) /\ J \in Seq(A)
    BY <2>2, JoinedAppends
  <2> HIDE DEF J
  <2>4. s \o Put(J, l) = Append((s \o J) \o l, Nl)
    BY <1>1, <2>2, <2>3, PutBehind, SMTT(30)
  <2>5. Splits(A, Append((s \o J) \o l, Nl), Append(P \o t, l), << >>)
    BY <2>1, SplitPut, Zenon
  <2> HIDE DEF L, M
  <2>6. P \o Append(t, l) = Append(P \o t, l)
    BY <1>1, <2>2, ConcatAppend
  <2>7. Splits(A, s \o Joined(Append(t, l)), P \o Append(t, l), << >>)
    BY <2>3, <2>4, <2>5, <2>6
  <2> QED
    BY <2>2, <2>7 DEF S
<1>4. Seq(M) \subseteq S
  <2> HIDE DEF S, M
  <2> QED
    BY <1>2, <1>3, ListInduction, Zenon
<1> QED
  BY <1>4

\* The output of a command is its lines ls and, where the last one is not ended,
\* the words w in front of the prompt.
Printing(out, ls, w) == \/ w = << >> /\ out.lines = ls
                        \/ ~out.ended /\ out.lines = Append(ls, w)

\* An output on the screen.
LEMMA SplitScreen ==
  ASSUME NEW A, Nl \in A, NEW s, NEW P, Splits(A, s, P, << >>),
         NEW W, W \subseteq A \ {Nl}, NEW out, out.lines \in Seq(Seq(W))
  PROVE  \E ls \in Seq(Seq(W)), w \in Seq(W) :
           Splits(A, s \o Screen(out), P \o ls, w) /\ Printing(out, ls, w)
<1> DEFINE M == Seq(W)
           N == Seq(A \ {Nl})
           all == out.lines
<1>1. /\ all \in Seq(M) /\ << >> \in M /\ s \in Seq(A)
      /\ M \subseteq Seq(A) /\ M \subseteq N
  BY EmptySeq, SeqMonotonic DEF Splits
<1>2. CASE out.ended \/ all = << >>
  <2>1. Screen(out) = Joined(all)
    BY <1>2 DEF Screen
  <2>2. Splits(A, s \o Screen(out), P \o all, << >>) /\ Printing(out, all, << >>)
    <3>1. all \in Seq(N)
      BY <1>1, SeqMonotonic
    <3>2. Splits(A, s \o Joined(all), P \o all, << >>)
      BY <3>1, SplitJoined, Zenon
    <3> QED
      BY <2>1, <3>2 DEF Printing
  <2> HIDE DEF M, all
  <2> QED
    BY <1>1, <2>2 DEF M
<1>3. CASE ~out.ended /\ all # << >>
  <2>1. PICK ls \in Seq(M), w \in M : all = Append(ls, w)
    <3> HIDE DEF M, all
    <3> QED
      BY <1>1, <1>3, SequenceEmptyOrAppend
  <2> DEFINE J == Joined(ls)
  <2>2. ls \in Seq(Seq(A)) /\ w \in Seq(A)
    BY <1>1, SeqMonotonic
  <2>3. J \in Seq(A) /\ Joined(all) = Put(J, w)
    BY <2>1, <2>2, JoinedAppends
  <2>4. Splits(A, s \o J, P \o ls, << >>)
    <3>1. ls \in Seq(N)
      BY <1>1, <2>1, SeqMonotonic
    <3> HIDE DEF M
    <3> QED
      BY <3>1, SplitJoined, Zenon
  <2> HIDE DEF J
  <2>5. Front(Put(J, w)) = J \o w /\ s \o (J \o w) = (s \o J) \o w
    <3>1. J \o w \in Seq(A) /\ s \o (J \o w) = (s \o J) \o w
      <4>1. s \in Seq(A) /\ J \in Seq(A) /\ w \in Seq(A)
        BY <1>1, <2>2, <2>3
      <4>2. J \o w \in Seq(A)
        BY <4>1, ConcatProperties
      <4>3. s \o (J \o w) = (s \o J) \o w
        BY <4>1, ConcatAssociative, SMTT(30)
      <4> QED
        BY <4>2, <4>3
    <3>2. Put(J, w) = Append(J \o w, Nl)
      BY <3>1, AppendIsConcat DEF Put
    <3> QED
      BY <3>1, <3>2, AppendParts
  <2>6. Splits(A, (s \o J) \o w, P \o ls, << >> \o w)
    <3>1. w \in N
      BY <1>1, <2>1
    <3> QED
      BY <2>4, <3>1, SplitWords, Zenon
  <2>7. << >> \o w = w
    BY <2>2, ConcatEmptySeq
  <2>8. Screen(out) = J \o w
    BY <1>3, <2>3, <2>5 DEF Screen
  <2>9. Splits(A, s \o Screen(out), P \o ls, w)
    BY <2>5, <2>6, <2>7, <2>8
  <2>10. Printing(out, ls, w)
    BY <1>3, <2>1 DEF Printing
  <2> HIDE DEF all, M
  <2> QED
    BY <2>9, <2>10 DEF M
<1> QED
  BY <1>2, <1>3

\* The lines begin with X.
Begins(A, X, lines) == \E more \in Seq(Seq(A)) : lines = X \o more

\* Further lines do not touch those that are ended.
LEMMA SplitRest ==
  ASSUME NEW A, Nl \in A, NEW s, NEW P, NEW l, Splits(A, s, P, l), NEW r \in Seq(A)
  PROVE  Begins(A, Append(P, l), SplitLines(Append(s, Nl) \o r))
<1> DEFINE L == Seq(A)
           X == Append(P, l)
           t == Append(s, Nl)
           S == {u \in Seq(A) : \E Q \in Seq(L), k \in L : Splits(A, t \o u, X \o Q, k)}
<1>1. /\ s \in Seq(A) /\ t \in Seq(A) /\ P \in Seq(L) /\ l \in L /\ X \in Seq(L)
      /\ << >> \in L /\ << >> \in Seq(L)
  BY AppendItems, EmptySeq DEF Splits
<1>2. << >> \in S
  <2>1. Splits(A, t, X, << >>)
    BY SplitLetter
  <2>2. t \o << >> = t
    BY <1>1, ConcatEmptySeq
  <2> HIDE DEF t, X
  <2>3. X \o << >> = X
    BY <1>1, ConcatEmptySeq
  <2>4. Splits(A, t \o << >>, X \o << >>, << >>)
    BY <2>1, <2>2, <2>3
  <2> HIDE DEF L
  <2>5. \E Q \in Seq(L), k \in L : Splits(A, t \o << >>, X \o Q, k)
    BY <1>1, <2>4, Zenon
  <2>6. << >> \in Seq(A)
    BY EmptySeq
  <2> QED
    BY <2>5, <2>6
<1> HIDE DEF t, X
<1>3. ASSUME NEW u \in Seq(A), NEW a \in A, u \in S PROVE Append(u, a) \in S
  <2>1. PICK Q \in Seq(L), k \in L : Splits(A, t \o u, X \o Q, k)
    BY <1>3
  <2> HIDE DEF S
  <2>2. t \o Append(u, a) = Append(t \o u, a)
    BY <1>1, ConcatAppend, SMTT(30)
  <2>3. /\ a # Nl => Splits(A, Append(t \o u, a), X \o Q, Append(k, a))
        /\ a = Nl => Splits(A, Append(t \o u, a), Append(X \o Q, k), << >>)
    BY <2>1, SplitLetter, Zenon
  <2>4. Append(k, a) \in L /\ Append(u, a) \in Seq(A)
    BY AppendItems
  <2> HIDE DEF L
  <2>5. Append(X \o Q, k) = X \o Append(Q, k) /\ Append(Q, k) \in Seq(L)
    <3>1. X \in Seq(L) /\ Q \in Seq(L) /\ k \in L
      BY <1>1
    <3>2. X \o Append(Q, k) = Append(X \o Q, k)
      BY <3>1, ConcatAppend
    <3> QED
      BY <3>1, <3>2, AppendItems
  <2>6. CASE a # Nl
    BY <2>2, <2>3, <2>4, <2>6 DEF S
  <2>7. CASE a = Nl
    <3>1. Splits(A, t \o Append(u, a), X \o Append(Q, k), << >>)
      BY <2>2, <2>3, <2>5, <2>7
    <3> QED
      BY <1>1, <2>4, <2>5, <3>1 DEF S
  <2> QED
    BY <2>6, <2>7
<1>4. Seq(A) \subseteq S
  <2> HIDE DEF S
  <2> QED
    BY <1>2, <1>3, ListInduction, Zenon
<1>5. PICK Q \in Seq(L), k \in L : Splits(A, t \o r, X \o Q, k)
  BY <1>4
<1> HIDE DEF S
<1>6. Split(t \o r) = Append(X \o Q, k)
  BY <1>5 DEF Splits
<1> HIDE DEF L
<1>7. X \o Q \in Seq(L) /\ Append(X \o Q, k) = X \o Append(Q, k) /\ Append(Q, k) \in Seq(L)
  <2>1. X \in Seq(L) /\ Q \in Seq(L) /\ k \in L
    BY <1>1
  <2>2. X \o Q \in Seq(L) /\ X \o Append(Q, k) = Append(X \o Q, k)
    BY <2>1, ConcatAppend
  <2> QED
    BY <2>1, <2>2, AppendItems
<1>8. Front(Append(X \o Q, k)) = X \o Q
  BY <1>7, AppendParts
<1>9. SplitLines(t \o r) \in {X \o Q, X \o Append(Q, k)}
  BY <1>6, <1>7, <1>8 DEF SplitLines
<1>10. \E more \in Seq(L) : SplitLines(t \o r) = X \o more
  BY <1>7, <1>9
<1> QED
  BY <1>10 DEF t, X, L, Begins

-----------------------------------------------------------------------------
(* Blank lines at the ends.  R is a set of lines.                          *)

\* The lines from the first that is not blank to the last one.
Filled(lines, f, t) ==
  /\ f \in 1..Len(lines) /\ t \in f..Len(lines)
  /\ lines[f] # << >> /\ lines[t] # << >>
  /\ \A i \in 1..Len(lines) : lines[i] # << >> => f <= i /\ i <= t

Blank(lines) == \A i \in 1..Len(lines) : lines[i] = << >>

\* Either all the lines are blank, or some are the first and the last that are not.
LEMMA FilledOrBlank ==
  ASSUME NEW R, NEW ls \in Seq(R)
  PROVE  Blank(ls) \/ \E f, t \in Nat : Filled(ls, f, t)
<1> DEFINE n == Len(ls)
           I == {i \in 1..n : ls[i] # << >>}
           J == {n - i : i \in I}
<1>1. n \in Nat
  OBVIOUS
<1> HIDE DEF n
<1>2. SUFFICES ASSUME I # {} PROVE \E f, t \in Nat : Filled(ls, f, t)
  BY DEF Blank, n
<1>3. I \subseteq Nat /\ J \subseteq Nat /\ J # {}
  BY <1>1, <1>2
<1>4. PICK f \in I : \A i \in I : f <= i
  BY <1>2, <1>3, Least
<1>5. PICK j \in J : \A i \in J : j <= i
  BY <1>3, Least
<1>6. PICK t \in I : j = n - t
  OBVIOUS
<1>7. ASSUME NEW i \in I PROVE i <= t
  <2>1. n - t <= n - i
    BY <1>5, <1>6
  <2>2. n \in Nat /\ t \in Nat /\ i \in Nat
    BY <1>1, <1>3
  <2> QED
    BY <2>1, <2>2
<1>8. f <= t
  BY <1>4
<1>9. Filled(ls, f, t)
  <2>1. f \in 1..n /\ t \in f..n /\ ls[f] # << >> /\ ls[t] # << >>
    BY <1>8
  <2>2. \A i \in 1..n : ls[i] # << >> => f <= i /\ i <= t
    BY <1>4, <1>7
  <2> HIDE DEF I, J
  <2> QED
    BY <2>1, <2>2 DEF Filled, n
<1>10. f \in Nat /\ t \in Nat
  BY <1>3
<1> QED
  BY <1>9, <1>10

\* What StripLines leaves.
LEMMA StripLinesIs ==
  ASSUME NEW R, NEW ls \in Seq(R)
  PROVE  /\ Blank(ls) => StripLines(ls) = << >>
         /\ \A f, t \in Nat : Filled(ls, f, t) => StripLines(ls) = SubSeq(ls, f, t)
<1> DEFINE n == Len(ls)
           I == {i \in 1..n : ls[i] # << >>}
<1>1. n \in Nat
  OBVIOUS
<1> HIDE DEF n
<1>2. /\ SelectInSeq(ls, LAMBDA l : l # << >>) = IF I # {} THEN Min(I) ELSE 0
      /\ SelectLastInSeq(ls, LAMBDA l : l # << >>) = IF I # {} THEN Max(I) ELSE 0
  BY DEF SelectInSeq, SelectLastInSeq, n
<1>3. StripLines(ls) = IF I = {} THEN << >> ELSE SubSeq(ls, Min(I), Max(I))
  <2>1. CASE I = {}
    BY <1>2, <2>1 DEF StripLines
  <2>2. CASE I # {}
    <3>1. Min(I) # 0
      <4>1. I \subseteq Nat
        BY <1>1
      <4>2. PICK x \in I : \A y \in I : x <= y
        BY <2>2, <4>1, Least
      <4>3. Min(I) = x
        BY <4>1, <4>2, MinMaxAre
      <4> QED
        BY <1>1, <4>3
    <3> QED
      BY <1>2, <2>2, <3>1 DEF StripLines
  <2> QED
    BY <2>1, <2>2
<1>4. ASSUME Blank(ls) PROVE StripLines(ls) = << >>
  <2>1. I = {}
    BY <1>4 DEF Blank, n
  <2> QED
    BY <1>3, <2>1
<1>5. ASSUME NEW f \in Nat, NEW t \in Nat, Filled(ls, f, t)
      PROVE  StripLines(ls) = SubSeq(ls, f, t)
  <2>1. f \in I /\ t \in I /\ \A i \in I : f <= i /\ i <= t
    BY <1>1, <1>5 DEF Filled, n
  <2>2. I \subseteq Nat
    BY <1>1
  <2> HIDE DEF I
  <2>3. \A i \in I : t >= i
    BY <2>1, <2>2
  <2>4. Min(I) = f /\ Max(I) = t
    BY <2>1, <2>2, <2>3, MinMaxAre
  <2> QED
    BY <1>3, <2>1, <2>4
<1> QED
  BY <1>4, <1>5

\* What is left has no blank line at either end, and stays as it is.
LEMMA Stripped ==
  ASSUME NEW R, NEW ls \in Seq(R)
  PROVE  /\ StripLines(ls) \in Seq(R)
         /\ StripLines(ls) # << >> => /\ StripLines(ls)[1] # << >>
                                      /\ Last(StripLines(ls)) # << >>
<1>1. CASE Blank(ls)
  BY <1>1, StripLinesIs, EmptySeq
<1>2. ASSUME NEW f \in Nat, NEW t \in Nat, Filled(ls, f, t)
      PROVE  /\ StripLines(ls) \in Seq(R)
             /\ StripLines(ls)[1] # << >> /\ Last(StripLines(ls)) # << >>
  <2> DEFINE u == SubSeq(ls, f, t)
  <2>1. StripLines(ls) = u
    BY <1>2, StripLinesIs
  <2>2. /\ f \in 1..Len(ls) /\ t \in f..Len(ls) /\ Len(ls) \in Nat
        /\ ls[f] # << >> /\ ls[t] # << >>
    BY <1>2 DEF Filled
  <2>3. \A i \in f..t : ls[i] \in R
    BY <2>2
  <2>4. /\ u \in Seq(R) /\ Len(u) = IF f <= t THEN t - f + 1 ELSE 0
        /\ \A i \in 1..(t - f + 1) : u[i] = ls[f + i - 1]
    BY <2>2, <2>3, SubSeqProperties
  <2>5. /\ f <= t /\ 1 \in 1..(t - f + 1) /\ t - f + 1 \in 1..(t - f + 1)
        /\ f + 1 - 1 = f /\ f + (t - f + 1) - 1 = t
    BY <2>2
  <2> HIDE DEF u
  <2>6. u[1] = ls[f]
    BY <2>4, <2>5
  <2>7. u[Len(u)] = ls[t]
    BY <2>4, <2>5
  <2> QED
    BY <2>1, <2>2, <2>4, <2>6, <2>7 DEF Last
<1> QED
  BY <1>1, <1>2, FilledOrBlank

\* A blank line at the end goes.
LEMMA StripBlank ==
  ASSUME NEW R, << >> \in R, NEW ls \in Seq(R)
  PROVE  StripLines(Append(ls, << >>)) = StripLines(ls)
<1> DEFINE n == Len(ls)
           u == Append(ls, << >>)
<1>1. /\ n \in Nat /\ u \in Seq(R) /\ Len(u) = n + 1 /\ u[n + 1] = << >>
      /\ \A i \in 1..n : u[i] = ls[i]
  BY AppendProperties, LenProperties
<1> HIDE DEF n, u
<1>2. ASSUME NEW i \in 1..(n + 1), u[i] # << >> PROVE i \in 1..n
  BY <1>1, <1>2
<1>3. CASE Blank(ls)
  <2>1. Blank(u)
    BY <1>1, <1>2, <1>3 DEF Blank, n
  <2> QED
    BY <1>1, <1>3, <2>1, StripLinesIs DEF u
<1>4. ASSUME NEW f \in Nat, NEW t \in Nat, Filled(ls, f, t)
      PROVE  StripLines(u) = StripLines(ls)
  <2>1. /\ f \in 1..n /\ t \in f..n /\ ls[f] # << >> /\ ls[t] # << >>
        /\ \A i \in 1..n : ls[i] # << >> => f <= i /\ i <= t
    BY <1>4 DEF Filled, n
  <2>2. f \in 1..(n + 1) /\ t \in f..(n + 1) /\ u[f] # << >> /\ u[t] # << >>
    BY <1>1, <2>1
  <2>3. \A i \in 1..(n + 1) : u[i] # << >> => f <= i /\ i <= t
    BY <1>1, <1>2, <2>1
  <2>4. Filled(u, f, t)
    BY <1>1, <2>2, <2>3 DEF Filled
  <2>5. StripLines(u) = SubSeq(u, f, t) /\ StripLines(ls) = SubSeq(ls, f, t)
    BY <1>1, <1>4, <2>4, StripLinesIs
  <2>6. u = ls \o << << >> >> /\ << << >> >> \in Seq(R)
    BY AppendIsConcat DEF u
  <2>7. SubSeq(ls \o << << >> >>, f, t) = SubSeq(ls, f, t)
    <3> DEFINE v == << << >> >>
    <3>1. v \in Seq(R) /\ f \in 1..Len(ls) /\ t \in 1..Len(ls)
      BY <2>1, <2>6, <1>1 DEF n
    <3> HIDE DEF v
    <3>2. SubSeq(ls \o v, f, t) = SubSeq(ls, f, t)
      BY <3>1, SubSeqOfConcat1
    <3> QED
      BY <3>2 DEF v
  <2> QED
    BY <2>5, <2>6, <2>7
<1> QED
  BY <1>3, <1>4, FilledOrBlank DEF u

\* stray is left of the lines above, when they are put before others.
StrayOf(stray, above) ==
  /\ ToSet(stray) \subseteq ToSet(above) \cup {<< >>}
  /\ \A l \in ToSet(above) : l # << >> => l \in ToSet(stray)

\* It comes before what is left of the lines ls.
StrayFirst(R, above, ls) ==
  \E stray \in Seq(R) : /\ StrayOf(stray, above)
                        /\ StripLines(above \o ls) = stray \o StripLines(ls)

\* Lines put before others only add to what is left of these.
LEMMA StripBehind ==
  ASSUME NEW R, NEW above \in Seq(R), NEW ls \in Seq(R)
  PROVE  StrayFirst(R, above, ls)
<1> DEFINE m == Len(above)
           n == Len(ls)
           u == above \o ls
<1>1. /\ m \in Nat /\ n \in Nat /\ u \in Seq(R) /\ Len(u) = m + n
      /\ DOMAIN above = 1..m /\ << >> \in Seq(R)
      /\ \A i \in 1..(m + n) : u[i] = IF i <= m THEN above[i] ELSE ls[i - m]
  BY ConcatProperties, EmptySeq
<1>2. \A i \in 1..m : i \in 1..(m + n) /\ u[i] = above[i]
  BY <1>1
<1>3. \A i \in 1..n : m + i \in 1..(m + n) /\ u[m + i] = ls[i]
  <2>1. \A i \in 1..n : m + i \in 1..(m + n) /\ ~(m + i <= m) /\ (m + i) - m = i
    BY <1>1
  <2> QED
    BY <1>1, <2>1
<1>4. \A i \in 1..(m + n) : i \in 1..m \/ (i - m \in 1..n /\ i = m + (i - m))
  BY <1>1
<1>5. ToSet(above) = {above[i] : i \in 1..m}
  BY <1>1 DEF ToSet
<1> HIDE DEF u
<1>6. SUFFICES ASSUME \A stray \in Seq(R) : StrayOf(stray, above) =>
                        StripLines(u) # stray \o StripLines(ls)
               PROVE  FALSE
  BY DEF u, StrayFirst
<1>7. CASE Blank(above)
  <2>1. \A i \in 1..m : above[i] = << >>
    BY <1>7 DEF Blank
  <2>2. StrayOf(<< >>, above)
    BY <1>5, <2>1 DEF StrayOf, ToSet
  <2>3. StripLines(u) = StripLines(ls)
    <3>1. CASE Blank(ls)
      <4>1. \A i \in 1..n : ls[i] = << >>
        BY <3>1 DEF Blank
      <4>2. Blank(u)
        <5> HIDE DEF m, n
        <5> QED
          BY <1>1, <1>2, <1>3, <1>4, <2>1, <4>1 DEF Blank
      <4> QED
        BY <1>1, <3>1, <4>2, StripLinesIs
    <3>2. ASSUME NEW f \in Nat, NEW t \in Nat, Filled(ls, f, t)
          PROVE  StripLines(u) = StripLines(ls)
      <4>1. /\ f \in 1..n /\ t \in f..n /\ ls[f] # << >> /\ ls[t] # << >>
            /\ \A i \in 1..n : ls[i] # << >> => f <= i /\ i <= t
        BY <3>2 DEF Filled
      <4>2. ASSUME NEW i \in 1..(m + n), u[i] # << >> PROVE m + f <= i /\ i <= m + t
        <5>1. i \notin 1..m
          BY <1>2, <2>1, <4>2
        <5> DEFINE j == i - m
        <5>2. j \in 1..n /\ i = m + j
          BY <1>4, <5>1
        <5> HIDE DEF j
        <5>3. ls[j] # << >>
          BY <1>3, <4>2, <5>2
        <5>4. f <= j /\ j <= t
          BY <4>1, <5>2, <5>3
        <5> HIDE DEF m, n
        <5> QED
          BY <1>1, <4>1, <5>2, <5>4
      <4>3. /\ m + f \in 1..(m + n) /\ m + t \in (m + f)..(m + n)
            /\ u[m + f] = ls[f] /\ u[m + t] = ls[t]
        <5>1. t \in 1..n
          BY <1>1, <4>1
        <5>2. u[m + f] = ls[f] /\ u[m + t] = ls[t]
          BY <1>3, <4>1, <5>1
        <5> HIDE DEF m, n
        <5> QED
          BY <1>1, <4>1, <5>2
      <4>4. Filled(u, m + f, m + t)
        <5> HIDE DEF m, n
        <5> QED
          BY <1>1, <4>1, <4>2, <4>3 DEF Filled
      <4>5. StripLines(u) = SubSeq(u, m + f, m + t) /\ StripLines(ls) = SubSeq(ls, f, t)
        <5>1. m + f \in Nat /\ m + t \in Nat
          BY <1>1
        <5> QED
          BY <1>1, <3>2, <4>4, <5>1, StripLinesIs
      <4>6. SubSeq(above \o ls, m + f, m + t) = SubSeq(ls, f, t)
        <5> DEFINE a == m + f
                   b == m + t
        <5>1. a \in m+1..m+n /\ b \in m+1..m+n /\ a - m = f /\ b - m = t
          BY <1>1, <4>1
        <5> HIDE DEF a, b
        <5>2. SubSeq(above \o ls, a, b) = SubSeq(ls, a - m, b - m)
          BY <5>1, SubSeqOfConcat2
        <5> QED
          BY <5>1, <5>2 DEF a, b
      <4> QED
        BY <4>5, <4>6 DEF u
    <3> QED
      BY <3>1, <3>2, FilledOrBlank
  <2>4. StripLines(ls) \in Seq(R)
    BY Stripped
  <2>5. << >> \o StripLines(ls) = StripLines(ls)
    BY <2>4, ConcatEmptySeq
  <2> QED
    BY <1>1, <1>6, <2>2, <2>3, <2>5
<1>8. ASSUME NEW g \in Nat, NEW h \in Nat, Filled(above, g, h) PROVE FALSE
  <2>1. /\ g \in 1..m /\ h \in g..m /\ above[g] # << >> /\ above[h] # << >>
        /\ \A i \in 1..m : above[i] # << >> => g <= i /\ i <= h
    BY <1>8 DEF Filled
  <2> HIDE DEF m, n
  \* What is left of the lines above, up to the line e of all.
  <2>2. ASSUME NEW e \in h..(m + n), \A i \in 1..n : m + i <= e => ls[i] = << >>
        PROVE  SubSeq(u, g, e) \in Seq(R) /\ StrayOf(SubSeq(u, g, e), above)
    <3> DEFINE v == SubSeq(u, g, e)
    <3>1. g \in 1..e /\ e \in Nat /\ \A i \in g..e : i \in 1..(m + n)
      BY <1>1, <2>1
    <3>2. \A i \in g..e : u[i] \in R
      BY <1>1, <3>1
    <3>3. /\ v \in Seq(R) /\ Len(v) = IF g <= e THEN e - g + 1 ELSE 0
          /\ \A i \in 1..(e - g + 1) : v[i] = u[g + i - 1]
      BY <3>1, <3>2, SubSeqProperties
    <3>4. Len(v) = e - g + 1 /\ DOMAIN v = 1..(e - g + 1)
      BY <3>1, <3>3
    <3> HIDE DEF v
    <3>5. ToSet(v) = {u[g + i - 1] : i \in 1..(e - g + 1)}
      BY <3>3, <3>4 DEF ToSet
    <3>6. ASSUME NEW i \in g..e PROVE u[i] \in ToSet(above) \cup {<< >>}
      <4>1. i \in 1..(m + n)
        BY <3>1
      <4>2. CASE i \in 1..m
        BY <1>2, <1>5, <4>2
      <4>3. CASE i \notin 1..m
        <5> DEFINE j == i - m
        <5>1. j \in 1..n /\ i = m + j
          BY <1>4, <4>1, <4>3
        <5> HIDE DEF j
        <5>2. m + j <= e
          BY <5>1, <3>1
        <5>3. u[i] = ls[j] /\ ls[j] = << >>
          BY <1>3, <2>2, <5>1, <5>2
        <5> QED
          BY <5>3
      <4> QED
        BY <4>2, <4>3
    <3>7. ToSet(v) \subseteq ToSet(above) \cup {<< >>}
      <4>1. \A i \in 1..(e - g + 1) : g + i - 1 \in g..e
        BY <3>1
      <4> QED
        BY <3>5, <3>6, <4>1
    <3>8. ASSUME NEW l \in ToSet(above), l # << >> PROVE l \in ToSet(v)
      <4>1. PICK i \in 1..m : l = above[i]
        BY <1>5
      <4>2. g <= i /\ i <= h
        BY <2>1, <3>8, <4>1
      <4>3. (i - g) + 1 \in 1..(e - g + 1) /\ g + ((i - g) + 1) - 1 = i
        BY <1>1, <2>1, <3>1, <4>2
      <4>4. u[i] = l
        BY <1>2, <4>1
      <4> QED
        BY <3>5, <4>3, <4>4
    <3>9. StrayOf(v, above)
      BY <3>7, <3>8 DEF StrayOf
    <3> QED
      BY <3>3, <3>9 DEF v
  <2>3. CASE Blank(ls)
    <3>1. \A i \in 1..n : ls[i] = << >>
      BY <2>3 DEF Blank, n
    <3>2. ASSUME NEW i \in 1..(m + n), u[i] # << >> PROVE g <= i /\ i <= h
      <4>1. i \in 1..m
        BY <1>3, <1>4, <3>1, <3>2
      <4> QED
        BY <1>2, <2>1, <3>2, <4>1
    <3>3. /\ g \in 1..(m + n) /\ h \in g..(m + n) /\ h \in h..(m + n)
          /\ g \in 1..m /\ h \in 1..m
      BY <1>1, <2>1
    <3>4. u[g] # << >> /\ u[h] # << >>
      BY <1>2, <2>1, <3>3
    <3>5. Filled(u, g, h)
      BY <1>1, <3>2, <3>3, <3>4 DEF Filled
    <3>6. StripLines(u) = SubSeq(u, g, h) /\ StripLines(ls) = << >>
      BY <1>1, <2>3, <3>5, StripLinesIs
    <3> DEFINE v == SubSeq(u, g, h)
    <3>7. v \in Seq(R) /\ StrayOf(v, above)
      BY <2>2, <3>1, <3>3
    <3> HIDE DEF v
    <3>8. v \o << >> = v
      BY <3>7, ConcatEmptySeq
    <3> QED
      BY <1>6, <3>6, <3>7, <3>8 DEF v
  <2>4. ASSUME NEW f \in Nat, NEW t \in Nat, Filled(ls, f, t) PROVE FALSE
    <3>1. /\ f \in 1..n /\ t \in f..n /\ ls[f] # << >> /\ ls[t] # << >>
          /\ \A i \in 1..n : ls[i] # << >> => f <= i /\ i <= t
      BY <2>4 DEF Filled, n
    <3>2. ASSUME NEW i \in 1..(m + n), u[i] # << >> PROVE g <= i /\ i <= m + t
      <4>1. CASE i \in 1..m
        <5>1. g <= i
          BY <1>2, <2>1, <3>2, <4>1
        <5> QED
          BY <1>1, <3>1, <4>1, <5>1
      <4>2. CASE i \notin 1..m
        <5> DEFINE j == i - m
        <5>1. j \in 1..n /\ i = m + j
          BY <1>4, <4>2
        <5> HIDE DEF j
        <5>2. j <= t
          BY <1>3, <3>1, <3>2, <5>1
        <5> QED
          BY <1>1, <2>1, <3>1, <5>1, <5>2
      <4> QED
        BY <4>1, <4>2
    <3>3. /\ g \in 1..(m + n) /\ m + t \in g..(m + n) /\ t \in 1..n
          /\ m + t \in Nat /\ g \in 1..m
      BY <1>1, <2>1, <3>1
    <3>4. u[g] # << >> /\ u[m + t] # << >>
      BY <1>2, <1>3, <2>1, <3>1, <3>3
    <3>5. Filled(u, g, m + t)
      BY <1>1, <3>2, <3>3, <3>4 DEF Filled
    <3>6. StripLines(u) = SubSeq(u, g, m + t) /\ StripLines(ls) = SubSeq(ls, f, t)
      BY <1>1, <2>4, <3>3, <3>5, StripLinesIs
    <3> DEFINE e == (m + f) - 1
               v == SubSeq(u, g, e)
    <3>7. e \in h..(m + n)
      BY <1>1, <2>1, <3>1
    <3>8. ASSUME NEW i \in 1..n, m + i <= e PROVE ls[i] = << >>
      <4>1. i < f
        BY <1>1, <3>1, <3>8
      <4> QED
        BY <3>1, <4>1
    <3>9. v \in Seq(R) /\ StrayOf(v, above)
      <4> HIDE DEF e
      <4> QED
        BY <2>2, <3>7, <3>8
    <3> DEFINE a == m + f
               b == m + t
    <3>10. SubSeq(u, g, b) = v \o SubSeq(u, a, b)
      <4>1. /\ g \in 1..Len(u) + 1 /\ e \in g - 1..Len(u) /\ b \in e..Len(u)
            /\ e + 1 = a
        BY <1>1, <2>1, <3>1
      <4> HIDE DEF e, a, b
      <4>2. SubSeq(u, g, e) \o SubSeq(u, e + 1, b) = SubSeq(u, g, b)
        BY <1>1, <4>1, ConcatAdjacentSubSeq
      <4> QED
        BY <4>1, <4>2
    <3>11. SubSeq(u, a, b) = SubSeq(ls, f, t)
      <4>1. a \in m+1..m+n /\ b \in m+1..m+n /\ a - m = f /\ b - m = t
        BY <1>1, <3>1
      <4> HIDE DEF a, b
      <4>2. SubSeq(above \o ls, a, b) = SubSeq(ls, a - m, b - m)
        BY <4>1, SubSeqOfConcat2 DEF m, n
      <4> QED
        BY <4>1, <4>2 DEF u
    <3> HIDE DEF v, e
    <3> QED
      BY <1>6, <3>6, <3>9, <3>10, <3>11
  <2> QED
    BY <2>3, <2>4, FilledOrBlank
<1> QED
  BY <1>7, <1>8, FilledOrBlank

\* The second of two lists, one behind the other, ends both; what is in front of
\* it is the first.
LEMMA SuffixIs ==
  ASSUME NEW R, NEW s \in Seq(R), NEW t \in Seq(R)
  PROVE  IsSuffix(t, s \o t) /\ SubSeq(s \o t, 1, Len(s \o t) - Len(t)) = s
<1> DEFINE m == Len(s)
           n == Len(t)
           u == s \o t
<1>1. /\ m \in Nat /\ n \in Nat /\ u \in Seq(R) /\ Len(u) = m + n
      /\ \A i \in 1..(m + n) : u[i] = IF i <= m THEN s[i] ELSE t[i - m]
      /\ \A i \in 1..m : s[i] \in R
      /\ \A i \in 1..n : t[i] \in R
  BY ConcatProperties
<1> HIDE DEF m, n, u
<1>2. IsSuffix(t, u)
  <2> DEFINE p == Reverse(t)
             q == Reverse(u)
             k == m + n
  <2>1. k \in Nat /\ n <= k /\ Len(u) = k
    BY <1>1
  <2>2. p = [i \in 1..n |-> t[(n - i) + 1]] /\ q = [i \in 1..k |-> u[(k - i) + 1]]
    BY <2>1 DEF Reverse, n
  <2>3. \A i \in 1..k : (k - i) + 1 \in 1..k
    BY <2>1
  <2>4. \A i \in 1..n : (n - i) + 1 \in 1..n
    BY <1>1
  <2>5. \A i \in 1..n : i \in 1..k /\ u[(k - i) + 1] = t[(n - i) + 1]
    <3>1. \A i \in 1..n : /\ i \in 1..k /\ (k - i) + 1 \in 1..k
                          /\ ~((k - i) + 1 <= m) /\ ((k - i) + 1) - m = (n - i) + 1
      BY <1>1, <2>1
    <3> QED
      BY <1>1, <3>1
  <2>6. \A i \in 1..k : u[i] \in R
    BY <1>1, <2>1, ElementOfSeq
  <2>7. p \in [1..n -> R] /\ q \in [1..k -> R]
    BY <1>1, <2>2, <2>3, <2>4, <2>6
  <2>8. \A i \in 1..n : p[i] = q[i]
    BY <2>2, <2>5
  <2> HIDE DEF p, q, k
  <2>9. p \in Seq(R) /\ q \in Seq(R) /\ Len(p) = n /\ Len(q) = k
    BY <1>1, <2>1, <2>7
  <2>10. SubSeq(p, 1, n) = p
    BY <2>9, SubSeqFull
  <2>11. SubSeq(q, 1, n) = p
    <3> DEFINE v == SubSeq(q, 1, n)
    <3>1. \A i \in 1..n : q[i] \in R /\ 1 + i - 1 = i
      BY <1>1, <2>1, <2>7
    <3>2. /\ v \in Seq(R) /\ Len(v) = IF 1 <= n THEN n - 1 + 1 ELSE 0
          /\ \A i \in 1..(n - 1 + 1) : v[i] = q[1 + i - 1]
      BY <1>1, <3>1, SubSeqProperties
    <3>3. n - 1 + 1 = n /\ (IF 1 <= n THEN n ELSE 0) = n
      BY <1>1
    <3> HIDE DEF v
    <3>4. Len(v) = Len(p) /\ \A i \in 1..Len(v) : v[i] = p[i]
      BY <2>8, <2>9, <3>1, <3>2, <3>3
    <3> QED
      BY <2>9, <3>2, <3>4, SeqEqual DEF v
  <2>12. IsPrefix(p, q)
    BY <2>1, <2>9, <2>10, <2>11 DEF IsPrefix
  <2> QED
    BY <2>12 DEF IsSuffix, p, q
<1>3. SubSeq(u, 1, Len(u) - n) = s
  <2>1. Len(u) - n = m
    BY <1>1
  <2> DEFINE v == SubSeq(u, 1, m)
  <2>2. \A i \in 1..m : u[i] \in R /\ 1 + i - 1 = i /\ u[i] = s[i]
    BY <1>1
  <2>3. /\ v \in Seq(R) /\ Len(v) = IF 1 <= m THEN m - 1 + 1 ELSE 0
        /\ \A i \in 1..(m - 1 + 1) : v[i] = u[1 + i - 1]
    BY <1>1, <2>2, SubSeqProperties
  <2>4. m - 1 + 1 = m /\ (IF 1 <= m THEN m ELSE 0) = m
    BY <1>1
  <2> HIDE DEF v
  <2>5. Len(v) = Len(s) /\ \A i \in 1..Len(v) : v[i] = s[i]
    BY <2>2, <2>3, <2>4 DEF m
  <2>6. v = s
    BY <2>3, <2>5, SeqEqual
  <2> QED
    BY <2>1, <2>6 DEF v
<1> QED
  BY <1>2, <1>3 DEF u, n

-----------------------------------------------------------------------------
(* The echoed command and the marker.                                      *)

\* The command that is echoed on a line of its own at the top is dropped.
LEMMA WithoutEchoIs ==
  ASSUME NEW R, NEW c, NEW s \in Seq(R), s # << >>, s[1] # <<Word(c)>>,
         <<Word(c)>> \in R
  PROVE  /\ WithoutEcho(c, s) = s
         /\ WithoutEcho(c, << <<Word(c)>> >> \o s) = s
<1> DEFINE d == <<Word(c)>>
           n == Len(s)
<1>1. n \in Nat /\ 1 \in 1..n
  BY EmptySeq
<1>2. WithoutEcho(c, s) = s
  <2> DEFINE I == {i \in 1..n : s[i] # d}
  <2>1. 1 \in I /\ I \subseteq Nat /\ \A i \in I : 1 <= i
    BY <1>1
  <2>2. WithoutEcho(c, s) = IF Min(I) = 0 THEN << >> ELSE SubSeq(s, Min(I), Len(s))
    BY <2>1 DEF SelectInSeq, WithoutEcho
  <2> HIDE DEF I
  <2>3. Min(I) = 1
    BY <2>1, MinMaxAre
  <2>4. WithoutEcho(c, s) = SubSeq(s, 1, Len(s))
    BY <2>2, <2>3
  <2> QED
    BY <2>4, SubSeqFull
<1>3. WithoutEcho(c, <<d>> \o s) = s
  <2> DEFINE e == <<d>>
             u == e \o s
             I == {i \in 1..Len(u) : u[i] # d}
  <2>1. e \in Seq(R) /\ Len(e) = 1 /\ e[1] = d
    OBVIOUS
  <2> HIDE DEF e
  <2>2. /\ u \in Seq(R) /\ Len(u) = 1 + n
        /\ \A i \in 1..(1 + n) : u[i] = IF i <= 1 THEN e[i] ELSE s[i - 1]
    <3>1. e \in Seq(R) /\ s \in Seq(R) /\ n = Len(s) /\ Len(e) = 1
      BY <2>1
    <3> HIDE DEF n
    <3>2. /\ u \in Seq(R) /\ Len(u) = Len(e) + Len(s)
          /\ \A i \in 1..Len(e) + Len(s) : u[i] = IF i <= Len(e) THEN e[i] ELSE s[i - Len(e)]
      BY <3>1, ConcatProperties
    <3> HIDE DEF u
    <3> QED
      BY <3>1, <3>2
  <2> HIDE DEF u
  <2>3. u[1] = d /\ u[2] = s[1] /\ 2 \in 1..Len(u)
    <3> HIDE DEF d, n
    <3>1. 1 \in 1..(1 + n) /\ 2 \in 1..(1 + n) /\ 2 - 1 = 1
      BY <1>1
    <3> QED
      BY <2>1, <2>2, <3>1
  <2>4. 2 \in I /\ I \subseteq Nat /\ \A i \in I : 2 <= i
    <3>1. \A i \in 1..Len(u) : i = 1 \/ 2 <= i
      BY <1>1, <2>2
    <3> QED
      BY <2>2, <2>3, <3>1
  <2>5. WithoutEcho(c, u) = IF Min(I) = 0 THEN << >> ELSE SubSeq(u, Min(I), Len(u))
    BY <2>4 DEF SelectInSeq, WithoutEcho
  <2> HIDE DEF I
  <2>6. Min(I) = 2
    BY <2>4, MinMaxAre
  <2>7. WithoutEcho(c, u) = SubSeq(u, 2, Len(u))
    BY <2>5, <2>6
  <2>8. SubSeq(e \o s, 2, 1 + n) = SubSeq(s, 1, n)
    <3> DEFINE a == 2
               b == 1 + n
    <3>1. a \in Len(e)+1..Len(e)+Len(s) /\ b \in Len(e)+1..Len(e)+Len(s)
      BY <1>1, <2>1
    <3>2. a - Len(e) = 1 /\ b - Len(e) = n
      BY <1>1, <2>1
    <3> HIDE DEF a, b, n
    <3>3. SubSeq(e \o s, a, b) = SubSeq(s, a - Len(e), b - Len(e))
      BY <2>1, <3>1, SubSeqOfConcat2
    <3> QED
      BY <3>2, <3>3 DEF a, b
  <2>9. SubSeq(s, 1, n) = s
    BY SubSeqFull
  <2> QED
    BY <2>2, <2>7, <2>8, <2>9 DEF u, e
<1> QED
  BY <1>2, <1>3

\* In front of the prompt stand the words that it is glued to.
LEMMA StripPromptIs ==
  ASSUME NEW A, Prompt \in A, NEW w \in Seq(A), anchored \/ w = << >>
  PROVE  StripPromptSuffix(Append(w, Prompt)) = w
<1> DEFINE n == Len(w)
           u == Append(w, Prompt)
           I == {i \in 1..Len(u) : u[i] = Prompt}
<1>1. n \in Nat /\ u \in Seq(A) /\ Len(u) = n + 1 /\ u[n + 1] = Prompt
  BY AppendProperties, LenProperties
<1>2. w = << >> => n = 0
  BY EmptySeq
<1>3. Front(u) = w
  BY AppendParts
<1> HIDE DEF n, u
<1>4. n + 1 \in I /\ I \subseteq Nat /\ \A i \in I : n + 1 >= i
  BY <1>1
<1>5. StripPromptSuffix(u) = IF Max(I) = 0 THEN u
                             ELSE IF anchored \/ Max(I) = 1 THEN SubSeq(u, 1, Max(I) - 1)
                             ELSE SubSeq(u, 1, Max(I) - 2)
  BY <1>4 DEF StripPromptSuffix, SelectLastInSeq
<1> HIDE DEF I
<1>6. Max(I) = n + 1
  BY <1>4, MinMaxAre
<1>7. n + 1 # 0 /\ (n + 1) - 1 = n /\ (anchored \/ n + 1 = 1) /\ Len(u) - 1 = n
  BY <1>1, <1>2
<1>8. StripPromptSuffix(u) = SubSeq(u, 1, n)
  BY <1>5, <1>6, <1>7
<1> QED
  BY <1>3, <1>7, <1>8 DEF Front, u

\* What is on the line of the marker in front of it.
LEMMA TypedIs ==
  ASSUME NEW A, NEW e \in A, NEW s \in Seq(A \ {e})
  PROVE  SubSeq(Append(s, e), 1, SelectInSeq(Append(s, e), LAMBDA a : a = e) - 1) = s
<1> DEFINE n == Len(s)
           u == Append(s, e)
           I == {i \in 1..Len(u) : u[i] = e}
<1>1. s \in Seq(A)
  BY SeqMonotonic
<1>2. /\ n \in Nat /\ u \in Seq(A) /\ Len(u) = n + 1 /\ u[n + 1] = e
      /\ \A i \in 1..n : u[i] = s[i]
  BY <1>1, AppendProperties, LenProperties
<1>3. \A i \in 1..n : s[i] # e
  BY ElementOfSeq
<1>4. Front(u) = s
  BY <1>1, AppendParts
<1> HIDE DEF n, u
<1>5. n + 1 \in I /\ I \subseteq Nat /\ \A i \in I : n + 1 <= i
  <2>1. ASSUME NEW i \in I PROVE i = n + 1
    <3>1. i \notin 1..n
      BY <1>2, <1>3
    <3> QED
      BY <1>2, <3>1
  <2> QED
    BY <1>2, <2>1
<1>6. SelectInSeq(u, LAMBDA a : a = e) = Min(I)
  BY <1>5 DEF SelectInSeq
<1> HIDE DEF I
<1>7. Min(I) = n + 1 /\ (n + 1) - 1 = Len(u) - 1
  BY <1>2, <1>5, MinMaxAre
<1> QED
  BY <1>4, <1>6, <1>7 DEF Front, u

\* An equation, in a form in which it is cited as it stands.
Same(x, y) == x = y

\* The lines X that are above the one of the marker are kept, and the words w that
\* its prompt is glued to.
LEMMA UptoMarkerIs ==
  ASSUME NEW A, Prompt \in A, NEW m, EchoOf(m) \in A,
         NEW X \in Seq(Seq(A \ {EchoOf(m)})), NEW w \in Seq(A \ {EchoOf(m)}),
         \A l \in ToSet(X) : ~LooksLikePrompt(l),
         anchored \/ w = << >>, NEW more \in Seq(Seq(A))
  PROVE  Same(UptoMarker(m, Append(X, Append(Append(w, Prompt), EchoOf(m))) \o more),
              IF w = << >> THEN X ELSE Append(X, w))
<1> DEFINE E == EchoOf(m)
           M == Seq(A \ {E})
           L == Seq(A)
           v == Append(w, Prompt)
           e == Append(v, E)
           n == Len(X)
           u == Append(X, e) \o more
<1>1. Prompt # E
  BY DEF Prompt, EchoOf
<1>2. v \in M /\ M \subseteq L /\ e \in L /\ E \in ToSet(e)
  <2>1. v \in M
    BY <1>1, AppendItems
  <2>2. v \in L
    BY <2>1, SeqMonotonic
  <2>3. e \in L /\ ToSet(e) = ToSet(v) \cup {E}
    <3>1. v \in Seq(A) /\ E \in A
      BY <2>2
    <3> HIDE DEF v, E
    <3>2. Append(v, E) \in Seq(A) /\ ToSet(Append(v, E)) = ToSet(v) \cup {E}
      BY <3>1, AppendItems
    <3> QED
      BY <3>2
  <2> QED
    BY <2>1, <2>3, SeqMonotonic
<1>3. \A l \in M : E \notin ToSet(l)
  <2>1. ASSUME NEW l \in M, NEW i \in DOMAIN l PROVE l[i] # E
    BY <2>1, LenProperties
  <2> QED
    BY <2>1 DEF ToSet
<1>4. X \in Seq(L)
  BY <1>2, SeqMonotonic
<1> HIDE DEF e, L
<1>5. Append(X, e) \in Seq(L) /\ Append(X, e) = X \o <<e>> /\ <<e>> \in Seq(L)
  BY <1>2, <1>4, AppendProperties, AppendIsConcat
<1>6. u = X \o (<<e>> \o more) /\ <<e>> \o more \in Seq(L) /\ u \in Seq(L)
  <2> DEFINE one == <<e>>
  <2>1. one \in Seq(L) /\ more \in Seq(L) /\ X \in Seq(L)
    BY <1>4, <1>5 DEF L
  <2> HIDE DEF one
  <2>2. (X \o one) \o more = X \o (one \o more)
    BY <2>1, ConcatAssociative, SMTT(30)
  <2>3. one \o more \in Seq(L)
    BY <2>1, ConcatProperties
  <2>4. X \o (one \o more) \in Seq(L)
    BY <2>1, <2>3, ConcatProperties
  <2> QED
    BY <1>5, <2>2, <2>3, <2>4 DEF one
<1>7. /\ n \in Nat /\ Len(u) \in Nat /\ n + 1 \in 1..Len(u) /\ u[n + 1] = e
      /\ \A i \in 1..n : i \in 1..Len(u) /\ u[i] = X[i]
      /\ SubSeq(u, 1, n) = X
  <2> DEFINE t == Append(X, e)
  <2>1. n \in Nat /\ Len(t) = n + 1 /\ t[n + 1] = e /\ \A i \in 1..n : t[i] = X[i]
    <3>1. X \in Seq(L) /\ e \in L
      BY <1>2, <1>4 DEF L
    <3> QED
      BY <3>1, AppendProperties, LenProperties
  <2>2. t \in Seq(L) /\ more \in Seq(L)
    BY <1>5 DEF L
  <2> HIDE DEF t, n
  <2>3. /\ Len(t \o more) = Len(t) + Len(more)
        /\ \A i \in 1..Len(t) + Len(more) :
             (t \o more)[i] = IF i <= Len(t) THEN t[i] ELSE more[i - Len(t)]
    BY <2>2, ConcatProperties
  <2>4. Len(more) \in Nat
    BY <2>2, LenProperties
  <2>5. u = t \o more
    BY DEF t
  <2> HIDE DEF u
  <2>6. /\ Len(u) \in Nat /\ n + 1 \in 1..Len(u) /\ u[n + 1] = e
        /\ \A i \in 1..n : i \in 1..Len(u) /\ u[i] = X[i]
    BY <2>1, <2>3, <2>4, <2>5
  <2>7. SubSeq(u, 1, n) = X
    <3>1. \A i \in 1..n : u[i] = X[i] /\ u[i] \in L /\ 1 + i - 1 = i
      BY <1>4, <2>1, <2>6, ElementOfSeq DEF n
    <3> DEFINE z == SubSeq(u, 1, n)
    <3>2. /\ z \in Seq(L) /\ Len(z) = IF 1 <= n THEN n - 1 + 1 ELSE 0
          /\ \A i \in 1..(n - 1 + 1) : z[i] = u[1 + i - 1]
      BY <2>1, <3>1, SubSeqProperties
    <3>3. n - 1 + 1 = n /\ (IF 1 <= n THEN n ELSE 0) = n
      BY <2>1
    <3> HIDE DEF z
    <3>4. Len(z) = Len(X) /\ \A i \in 1..Len(z) : z[i] = X[i]
      BY <3>1, <3>2, <3>3 DEF n
    <3>5. z = X
      BY <1>4, <3>2, <3>4, SeqEqual
    <3> QED
      BY <3>5 DEF z
  <2> QED
    BY <2>1, <2>6, <2>7
<1>8. SelectInSeq(u, LAMBDA l : EchoOf(m) \in ToSet(l)) = n + 1
  <2> DEFINE I == {i \in 1..Len(u) : E \in ToSet(u[i])}
  <2>1. \A i \in 1..n : E \notin ToSet(u[i])
    <3>1. \A i \in 1..n : u[i] \in M
      BY <1>7, ElementOfSeq
    <3> QED
      BY <1>3, <3>1
  <2>2. n + 1 \in I
    BY <1>2, <1>7
  <2>3. I \subseteq Nat /\ \A i \in I : n + 1 <= i
    BY <1>7, <2>1
  <2>4. SelectInSeq(u, LAMBDA l : EchoOf(m) \in ToSet(l)) = Min(I)
    BY <2>2 DEF SelectInSeq
  <2> HIDE DEF I
  <2>5. Min(I) = n + 1
    BY <2>2, <2>3, MinMaxAre
  <2> QED
    BY <2>4, <2>5
<1>9. ToSet(X) \subseteq ToSet(u)
  <2>1. DOMAIN X = 1..n /\ DOMAIN u = 1..Len(u)
    BY <1>4, <1>6, LenProperties
  <2> HIDE DEF n, u
  <2> QED
    BY <1>7, <2>1 DEF ToSet
<1>10. Keep(X, {l \in ToSet(u) : ~LooksLikePrompt(l)}) = X
  <2> DEFINE S == {l \in ToSet(u) : ~LooksLikePrompt(l)}
  <2>1. ToSet(X) \subseteq S
    BY <1>9
  <2> HIDE DEF S
  <2>2. Keep(X, S) = X
    BY <1>4, <2>1, KeepAll
  <2> QED
    BY <2>2 DEF S
<1>11. SubSeq(e, 1, SelectInSeq(e, LAMBDA a : a = EchoOf(m)) - 1) = v
  <2> HIDE DEF v
  <2> QED
    BY <1>2, TypedIs DEF e
<1>12. StripPromptSuffix(v) = w
  <2>1. w \in Seq(A)
    BY SeqMonotonic
  <2> QED
    BY <2>1, StripPromptIs
<1>13. n + 1 # 0 /\ (n + 1) - 1 = n
  BY <1>7
<1> HIDE DEF n, u, v, M
<1>14. UptoMarker(m, u) = IF w = << >> THEN X ELSE Append(X, w)
  BY <1>7, <1>8, <1>10, <1>11, <1>12, <1>13 DEF UptoMarker
<1> QED
  BY <1>14 DEF u, e, v, Same

-----------------------------------------------------------------------------
(* The screen of a run.                                                    *)

\* What can be on the screen during run i, of the command c.
Atoms(c, i) == Printed \cup {Word(c), Word("motd"), Prompt, Nl,
                             Marker(i - 1), EchoOf(i), Marker(i)}

\* Words, prompts, ends of lines, typed lines and markers are told apart.
LEMMA AtomsDiffer ==
  ASSUME NEW c, NEW i \in Nat \ {0}
  PROVE  /\ Nl \notin Printed \cup {Word(c), Word("motd"), Prompt,
                                    Marker(i - 1), EchoOf(i), Marker(i)}
         /\ EchoOf(i) \notin Printed \cup {Word(c), Word("motd"), Prompt, Nl,
                                           Marker(i - 1), Marker(i)}
         /\ Marker(i) \notin Printed \cup {Word(c), Word("motd"), Prompt, Nl,
                                           Marker(i - 1), EchoOf(i)}
         /\ Prompt \notin Printed \cup {Word(c), Word("motd"), Marker(i - 1)}
         /\ Marker(i - 1) \notin Printed
<1>1. /\ \A v : Word(v).k = "word"
      /\ Prompt.k = "prompt" /\ Nl.k = "nl" /\ EchoOf(i).k = "echo"
      /\ Marker(i).k = "marker" /\ Marker(i - 1).k = "marker"
      /\ Marker(i).v = i /\ Marker(i - 1).v = i - 1 /\ i # i - 1
  BY DEF Word, Prompt, Nl, EchoOf, Marker
<1>2. \A a \in Printed : a.k \in {"word", "complaint", "quoted", "exported"}
  BY OutputsAssumption
<1> QED
  BY <1>1, <1>2

\* What is ahead of the last prompt when a command is typed, and its lines: the end
\* of the run before, or the banner.
Heads(i) == {<< >>, <<Nl>>, <<Marker(i - 1), Nl>>, <<Nl, Marker(i - 1), Nl>>}
              \cup IF i = 1 THEN {<<Word("motd"), Nl>>} ELSE {}
HeadLines(i) == {<< >>, << << >> >>, << <<Marker(i - 1)>> >>,
                 << << >>, <<Marker(i - 1)>> >>}
                  \cup IF i = 1 THEN {<< <<Word("motd")>> >>} ELSE {}

\* Short lists.
LEMMA Tuples ==
  ASSUME NEW x, NEW y, NEW z
  PROVE  /\ Append(<< >>, x) = <<x>> /\ Append(<<x>>, y) = <<x, y>>
         /\ Append(<<x, y>>, z) = <<x, y, z>>
<1> DEFINE R == {x, y, z}
<1>1. /\ <<x>> \in Seq(R) /\ <<x, y>> \in Seq(R) /\ <<x, y, z>> \in Seq(R)
      /\ x \in R /\ y \in R /\ z \in R /\ << >> \in Seq(R)
  OBVIOUS
<1> HIDE DEF R
<1>2. Append(<< >>, x) = <<x>>
  OBVIOUS
<1>3. Append(<<x>>, y) = <<x, y>>
  <2> DEFINE s == <<x>>
             t == <<x, y>>
             u == Append(s, y)
  <2>1. Len(s) = 1 /\ s[1] = x /\ s \in Seq(R)
    BY <1>1
  <2>2. Len(t) = 2 /\ t[1] = x /\ t[2] = y /\ t \in Seq(R)
    BY <1>1
  <2> HIDE DEF s, t
  <2>3. u \in Seq(R) /\ Len(u) = 2 /\ u[1] = x /\ u[2] = y
    <3>1. s \in Seq(R) /\ y \in R
      BY <1>1, <2>1
    <3>2. /\ u \in Seq(R) /\ Len(u) = Len(s) + 1 /\ u[Len(s) + 1] = y
          /\ \A j \in 1..Len(s) : u[j] = s[j]
      BY <3>1, AppendProperties
    <3> HIDE DEF u
    <3> QED
      BY <2>1, <3>2
  <2> HIDE DEF u
  <2>4. Len(u) = Len(t) /\ \A i \in 1..Len(u) : u[i] = t[i]
    <3>1. \A i \in 1..2 : i = 1 \/ i = 2
      OBVIOUS
    <3> QED
      BY <2>2, <2>3, <3>1
  <2> QED
    BY <2>2, <2>3, <2>4, SeqEqual DEF s, t, u
<1>4. Append(<<x, y>>, z) = <<x, y, z>>
  <2> DEFINE s == <<x, y>>
             t == <<x, y, z>>
             u == Append(s, z)
  <2>1. Len(s) = 2 /\ s[1] = x /\ s[2] = y /\ s \in Seq(R)
    BY <1>1
  <2>2. Len(t) = 3 /\ t[1] = x /\ t[2] = y /\ t[3] = z /\ t \in Seq(R)
    BY <1>1
  <2> HIDE DEF s, t
  <2>3. u \in Seq(R) /\ Len(u) = 3 /\ u[1] = x /\ u[2] = y /\ u[3] = z
    <3>1. s \in Seq(R) /\ z \in R
      BY <1>1, <2>1
    <3>2. /\ u \in Seq(R) /\ Len(u) = Len(s) + 1 /\ u[Len(s) + 1] = z
          /\ \A j \in 1..Len(s) : u[j] = s[j]
      BY <3>1, AppendProperties
    <3> HIDE DEF u
    <3> QED
      BY <2>1, <3>2
  <2> HIDE DEF u
  <2>4. Len(u) = Len(t) /\ \A i \in 1..Len(u) : u[i] = t[i]
    <3>1. \A i \in 1..3 : i = 1 \/ i = 2 \/ i = 3
      OBVIOUS
    <3> QED
      BY <2>2, <2>3, <3>1
  <2> QED
    BY <2>2, <2>3, <2>4, SeqEqual DEF s, t, u
<1> QED
  BY <1>2, <1>3, <1>4

\* One item more.
LEMMA FourTuple ==
  ASSUME NEW x, NEW y, NEW z, NEW w
  PROVE  Append(<<x, y, z>>, w) = <<x, y, z, w>>
<1> DEFINE R == {x, y, z, w}
           s == <<x, y, z>>
           t == <<x, y, z, w>>
           u == Append(s, w)
<1>1. x \in R /\ y \in R /\ z \in R /\ w \in R
  OBVIOUS
<1> HIDE DEF R
<1>2. Len(s) = 3 /\ s[1] = x /\ s[2] = y /\ s[3] = z /\ s \in Seq(R)
  BY <1>1
<1>3. Len(t) = 4 /\ t[1] = x /\ t[2] = y /\ t[3] = z /\ t[4] = w /\ t \in Seq(R)
  BY <1>1
<1> HIDE DEF s, t
<1>4. /\ u \in Seq(R) /\ Len(u) = Len(s) + 1 /\ u[Len(s) + 1] = w
      /\ \A j \in 1..Len(s) : u[j] = s[j]
  <2>1. s \in Seq(R) /\ w \in R
    BY <1>1, <1>2
  <2> QED
    BY <2>1, AppendProperties
<1> HIDE DEF u
<1>5. Len(u) = 4 /\ u[1] = x /\ u[2] = y /\ u[3] = z /\ u[4] = w
  BY <1>2, <1>4
<1>6. Len(u) = Len(t) /\ \A j \in 1..Len(u) : u[j] = t[j]
  <2>1. \A j \in 1..4 : j = 1 \/ j = 2 \/ j = 3 \/ j = 4
    OBVIOUS
  <2> QED
    BY <1>3, <1>5, <2>1
<1> QED
  BY <1>3, <1>4, <1>6, SeqEqual DEF s, t, u

\* What is ahead of the prompt is split into its lines.
LEMMA HeadSplits ==
  ASSUME NEW c, NEW i \in Nat \ {0}, NEW h \in Heads(i)
  PROVE  \E P \in HeadLines(i) : Splits(Atoms(c, i), h, P, << >>)
<1> DEFINE A == Atoms(c, i)
           M == Marker(i - 1)
           Motd == Word("motd")
<1>1. Nl \in A /\ M \in A /\ Motd \in A /\ M # Nl /\ Motd # Nl
  BY AtomsDiffer DEF Atoms
<1>2. Heads(i) \subseteq {<< >>, <<Nl>>, <<M, Nl>>, <<Nl, M, Nl>>, <<Motd, Nl>>}
  BY DEF Heads
<1>20. h = <<Motd, Nl>> => i = 1 \/ h \in {<< >>, <<Nl>>, <<M, Nl>>, <<Nl, M, Nl>>}
  BY DEF Heads
<1>3. /\ {<< >>, << << >> >>, << <<M>> >>, << << >>, <<M>> >>} \subseteq HeadLines(i)
      /\ i = 1 => << <<Motd>> >> \in HeadLines(i)
  BY DEF HeadLines
<1> HIDE DEF A, M, Motd
<1>4. Splits(A, << >>, << >>, << >>)
  <2>1. << >> \in Seq(A) /\ << >> \in Seq(Seq(A)) /\ Append(<< >>, << >>) = << << >> >>
    BY EmptySeq
  <2>2. Split(<< >>) = << << >> >>
    BY <1>1, <2>1, SplitAppends
  <2> QED
    BY <2>1, <2>2 DEF Splits
\* An end of line, behind words or not.
<1>5. Splits(A, <<Nl>>, << << >> >>, << >>)
  <2>1. Splits(A, Append(<< >>, Nl), Append(<< >>, << >>), << >>)
    BY <1>1, <1>4, SplitLetter, Zenon
  <2>2. Append(<< >>, Nl) = <<Nl>> /\ Append(<< >>, << >>) = << << >> >>
    OBVIOUS
  <2> QED
    BY <2>1, <2>2
<1>6. ASSUME NEW a \in A, a # Nl PROVE Splits(A, <<a, Nl>>, << <<a>> >>, << >>)
  <2>1. Splits(A, Append(<< >>, a), << >>, Append(<< >>, a))
    BY <1>4, <1>6, SplitLetter, Zenon
  <2>2. Splits(A, Append(Append(<< >>, a), Nl), Append(<< >>, Append(<< >>, a)), << >>)
    BY <1>1, <2>1, SplitLetter, Zenon
  <2>3. /\ Append(Append(<< >>, a), Nl) = <<a, Nl>>
        /\ Append(<< >>, Append(<< >>, a)) = << <<a>> >>
    BY Tuples
  <2> QED
    BY <2>2, <2>3
<1>7. Splits(A, <<Nl, M, Nl>>, << << >>, <<M>> >>, << >>)
  <2>1. Splits(A, Append(<<Nl>>, M), << << >> >>, Append(<< >>, M))
    BY <1>1, <1>5, SplitLetter, Zenon
  <2>2. Splits(A, Append(Append(<<Nl>>, M), Nl), Append(<< << >> >>, Append(<< >>, M)), << >>)
    BY <1>1, <2>1, SplitLetter, Zenon
  <2>3. /\ Append(Append(<<Nl>>, M), Nl) = <<Nl, M, Nl>>
        /\ Append(<< << >> >>, Append(<< >>, M)) = << << >>, <<M>> >>
    BY Tuples
  <2> QED
    BY <2>2, <2>3
<1>8. Splits(A, <<M, Nl>>, << <<M>> >>, << >>) /\ Splits(A, <<Motd, Nl>>, << <<Motd>> >>, << >>)
  BY <1>1, <1>6
<1>9. CASE h = << >>
  BY <1>3, <1>4, <1>9 DEF A
<1>10. CASE h = <<Nl>>
  BY <1>3, <1>5, <1>10 DEF A
<1>11. CASE h = <<M, Nl>>
  BY <1>3, <1>8, <1>11 DEF A
<1>12. CASE h = <<Nl, M, Nl>>
  BY <1>3, <1>7, <1>12 DEF A
<1>13. CASE i = 1 /\ h = <<Motd, Nl>>
  BY <1>3, <1>8, <1>13 DEF A
<1> QED
  BY <1>2, <1>20, <1>9, <1>10, <1>11, <1>12, <1>13

\* Two letters behind a text.
LEMMA ConcatTwo ==
  ASSUME NEW R, NEW s \in Seq(R), NEW x \in R, NEW y \in R
  PROVE  /\ s \o <<x, y>> = Append(Append(s, x), y)
         /\ s \o <<x, y>> \in Seq(R)
<1>1. <<x>> \in Seq(R)
  OBVIOUS
<1>5. Append(<<x>>, y) = <<x, y>>
  BY Tuples
<1> DEFINE t == <<x>>
           u == Append(s, x)
<1>2. s \o t = u /\ u \in Seq(R) /\ t \in Seq(R)
  BY <1>1, AppendIsConcat, AppendProperties
<1> HIDE DEF t, u
<1>3. s \o Append(t, y) = Append(u, y)
  <2>1. s \o Append(t, y) = Append(s \o t, y)
    BY <1>2, ConcatAppend
  <2> QED
    BY <1>2, <2>1
<1>4. Append(u, y) \in Seq(R)
  BY <1>2, AppendProperties
<1> QED
  BY <1>3, <1>4, <1>5 DEF t, u

\* What of the screen has not been received when a command is typed.
Leftover(i) == {<< >>} \cup {Append(h, Prompt) : h \in Heads(i)}

\* The lines above the output of the command c, but for its echo.
Above(c, i) == {<< >>} \cup {Append(P, <<Prompt, Word(c)>>) : P \in HeadLines(i)}

\* The lines up to the typed command: its echo, if it is at the top, and others.
LEMMA TopIs ==
  ASSUME NEW c, NEW i \in Nat \ {0}, NEW left \in Leftover(i)
  PROVE  \E pre \in {<< >>, << <<Word(c)>> >>}, above \in Above(c, i) :
           /\ Splits(Atoms(c, i), left \o <<Word(c), Nl>>, pre \o above, << >>)
           /\ above # << >> => above[1] # <<Word(c)>>
<1> DEFINE A == Atoms(c, i)
           W == Word(c)
           d == <<W>>
           l == <<Prompt, W>>
<1>1. Nl \in A /\ Prompt \in A /\ W \in A /\ W # Nl /\ Prompt # Nl
  BY AtomsDiffer DEF Atoms
<1>2. d \in Seq(A) /\ l \in Seq(A) /\ << >> \in Seq(A) /\ Append(<<Prompt>>, W) = l
  <2>1. d \in Seq(A) /\ l \in Seq(A) /\ << >> \in Seq(A)
    <3> HIDE DEF A, W
    <3> QED
      BY <1>1
  <2>2. Append(<<Prompt>>, W) = l
    BY Tuples
  <2> QED
    BY <2>1, <2>2
<1>3. l # d /\ << >> # d
  <2>1. Len(l) = 2 /\ Len(d) = 1 /\ Len(<< >>) = 0
    OBVIOUS
  <2> QED
    BY <2>1
<1>30. l # << >>
  <2>1. Len(l) = 2 /\ Len(<< >>) = 0
    OBVIOUS
  <2> QED
    BY <2>1
<1> HIDE DEF A
<1>4. CASE left = << >>
  <2>1. HeadLines(i) # {} /\ << >> \in Heads(i)
    BY DEF HeadLines, Heads
  <2>2. Splits(A, << >>, << >>, << >>)
    <3>1. << >> \in Seq(A) /\ << >> \in Seq(Seq(A)) /\ Append(<< >>, << >>) = << << >> >>
      BY EmptySeq
    <3>2. Split(<< >>) = << << >> >>
      BY <1>1, <3>1, SplitAppends
    <3> QED
      BY <3>1, <3>2 DEF Splits
  <2>3. Splits(A, Append(<< >>, W), << >>, Append(<< >>, W))
    BY <1>1, <2>2, SplitLetter, Zenon
  <2>4. Splits(A, Append(Append(<< >>, W), Nl), Append(<< >>, Append(<< >>, W)), << >>)
    BY <1>1, <2>3, SplitLetter, Zenon
  <2>5. /\ Append(Append(<< >>, W), Nl) = <<W, Nl>>
        /\ Append(<< >>, Append(<< >>, W)) = << <<W>> >>
    BY Tuples
  <2>6. << >> \o <<W, Nl>> = <<W, Nl>>
    <3>1. << >> \o <<W, Nl>> = Append(Append(<< >>, W), Nl)
      BY <1>1, <1>2, ConcatTwo
    <3> QED
      BY <2>5, <3>1
  <2>7. <<d>> \o << >> = <<d>>
    <3>1. <<d>> \in Seq(Seq(A))
      BY <1>2
    <3> QED
      BY <3>1, ConcatEmptySeq
  <2>8. Splits(A, left \o <<W, Nl>>, <<d>> \o << >>, << >>)
    BY <1>4, <2>4, <2>5, <2>6, <2>7
  <2>9. << >> \in Above(c, i)
    BY DEF Above
  <2> QED
    BY <2>8, <2>9 DEF A
<1>5. ASSUME NEW h \in Heads(i), left = Append(h, Prompt)
      PROVE  \E pre \in {<< >>, <<d>>}, above \in Above(c, i) :
               /\ Splits(A, left \o <<W, Nl>>, pre \o above, << >>)
               /\ above # << >> => above[1] # d
  <2>1. PICK P \in HeadLines(i) : Splits(A, h, P, << >>)
    BY HeadSplits DEF A
  <2>2. Splits(A, left, P, Append(<< >>, Prompt))
    BY <1>1, <1>5, <2>1, SplitLetter, Zenon
  <2>3. Append(<< >>, Prompt) = <<Prompt>>
    BY Tuples
  <2>4. Splits(A, Append(left, W), P, l)
    <3>1. Splits(A, left, P, <<Prompt>>)
      BY <2>2, <2>3
    <3>2. Splits(A, Append(left, W), P, Append(<<Prompt>>, W))
      BY <1>1, <3>1, SplitLetter, Zenon
    <3> HIDE DEF l
    <3> QED
      BY <1>2, <3>2
  <2>5. Splits(A, Append(Append(left, W), Nl), Append(P, l), << >>)
    <3> HIDE DEF l
    <3> QED
      BY <1>1, <2>4, SplitLetter, Zenon
  <2>6. left \o <<W, Nl>> = Append(Append(left, W), Nl)
    <3>1. left \in Seq(A)
      BY <2>2 DEF Splits
    <3> QED
      BY <1>1, <3>1, ConcatTwo
  <2> DEFINE X == Append(P, l)
  <2>7. Splits(A, left \o <<W, Nl>>, X, << >>)
    BY <2>5, <2>6
  <2>8. P \in Seq(Seq(A)) /\ l \in Seq(A) /\ X \in Seq(Seq(A)) /\ X \in Above(c, i)
    <3>1. P \in Seq(Seq(A)) /\ X \in Above(c, i)
      BY <2>1 DEF Splits, Above
    <3>2. l \in Seq(A)
      BY <1>2
    <3> HIDE DEF l
    <3>3. Append(P, l) \in Seq(Seq(A))
      BY <3>1, <3>2, AppendItems, Zenon
    <3> QED
      BY <3>1, <3>2, <3>3
  <2>9. << >> \o X = X
    <3>1. X \in Seq(Seq(A))
      BY <2>8
    <3> HIDE DEF X
    <3> QED
      BY <3>1, ConcatEmptySeq
  \* The top line is not the command, but where the banner is.
  <2>10. CASE P = << >>
    <3>1. X = <<l>>
      BY <2>10, Tuples
    <3>2. X[1] = l
      BY <3>1
    <3> HIDE DEF X, l, d
    <3> QED
      BY <1>3, <2>7, <2>8, <2>9, <3>2
  <2>11. CASE P # << >> /\ P[1] # d
    <3>1. X[1] = P[1]
      <4>1. Len(P) \in Nat \ {0}
        BY <2>8, <2>11, EmptySeq
      <4>2. P \in Seq(Seq(A)) /\ l \in Seq(A) /\ 1 \in 1..Len(P)
        BY <2>8, <4>1
      <4> HIDE DEF l
      <4> QED
        BY <4>2, AppendProperties
    <3> HIDE DEF X, l, d
    <3> QED
      BY <2>7, <2>8, <2>9, <2>11, <3>1
  <2>12. CASE P # << >> /\ P[1] = d
    <3>1. P = <<d>>
      <4>1. Marker(i - 1) # W
        BY DEF Marker, Word
      <4> DEFINE M == Marker(i - 1)
      <4>2. P \in {<< >>, << << >> >>, << <<M>> >>, << << >>, <<M>> >>, << <<Word("motd")>> >>}
        BY <2>1 DEF HeadLines
      <4>3. << << >> >>[1] # d /\ << <<M>> >>[1] # d /\ << << >>, <<M>> >>[1] # d
        BY <1>3, <4>1
      <4>4. P = << <<Word("motd")>> >>
        BY <2>12, <4>2, <4>3
      <4>5. <<Word("motd")>> = d
        BY <2>12, <4>4
      <4> QED
        BY <4>4, <4>5
    <3>2. X = <<d>> \o <<l>>
      <4>1. P \in Seq(Seq(A)) /\ l \in Seq(A)
        BY <2>8
      <4> HIDE DEF l, d
      <4>2. Append(P, l) = P \o <<l>>
        BY <4>1, AppendIsConcat
      <4> QED
        BY <3>1, <4>2
    <3>3. <<l>> \in Above(c, i) /\ <<l>>[1] # d
      <4>1. << >> \in HeadLines(i)
        BY DEF HeadLines
      <4>2. Append(<< >>, l) = <<l>>
        BY Tuples
      <4>3. <<l>> \in Above(c, i)
        BY <4>1, <4>2 DEF Above
      <4>4. <<l>>[1] = l
        OBVIOUS
      <4> QED
        BY <1>3, <4>3, <4>4
    <3> HIDE DEF X, l, d
    <3> QED
      BY <2>7, <3>2, <3>3
  <2> QED
    BY <2>10, <2>11, <2>12
<1> QED
  BY <1>4, <1>5 DEF Leftover, A

\* The lines above an output, one by one.
AboveLines(c, i) == {<< >>, <<Marker(i - 1)>>, <<Prompt, Word(c)>>}
                      \cup IF i = 1 THEN {<<Word("motd")>>} ELSE {}

LEMMA AboveIs ==
  ASSUME NEW c, NEW i \in Nat \ {0}, NEW above \in Above(c, i)
  PROVE  /\ above \in Seq(AboveLines(c, i))
         /\ above # << >> => <<Prompt, Word(c)>> \in ToSet(above)
<1> DEFINE l == <<Prompt, Word(c)>>
           M == <<Marker(i - 1)>>
           Motd == <<Word("motd")>>
           nil == << >>
           R == AboveLines(c, i)
<1>1. nil \in R /\ M \in R /\ l \in R /\ (i = 1 => Motd \in R)
  BY DEF AboveLines
<1>2. ASSUME NEW P \in HeadLines(i) PROVE P \in Seq(R)
  <2>1. P \in {<< >>, <<nil>>, <<M>>, <<nil, M>>} \/ (i = 1 /\ P = <<Motd>>)
    BY DEF HeadLines
  <2> HIDE DEF nil, M, Motd, R
  <2>2. << >> \in Seq(R) /\ <<nil>> \in Seq(R) /\ <<M>> \in Seq(R) /\ <<nil, M>> \in Seq(R)
    BY <1>1
  <2>3. i = 1 => <<Motd>> \in Seq(R)
    BY <1>1
  <2> QED
    BY <2>1, <2>2, <2>3
<1>3. above = << >> \/ \E P \in HeadLines(i) : above = Append(P, l)
  BY DEF Above
<1>4. CASE above = << >>
  BY <1>4, EmptySeq
<1>5. ASSUME NEW P \in HeadLines(i), above = Append(P, l)
      PROVE  above \in Seq(R) /\ l \in ToSet(above)
  <2>1. P \in Seq(R)
    BY <1>2
  <2> HIDE DEF l, R
  <2>2. Append(P, l) \in Seq(R) /\ ToSet(Append(P, l)) = ToSet(P) \cup {l}
    BY <1>1, <2>1, AppendItems
  <2> QED
    BY <1>5, <2>2
<1> QED
  BY <1>3, <1>4, <1>5

\* None of them has a marker typed, or looks like a prompt.
LEMMA AboveLine ==
  ASSUME NEW c, NEW i \in Nat \ {0}, NEW l \in AboveLines(c, i)
  PROVE  l \in Seq(Atoms(c, i) \ {EchoOf(i)}) /\ ~LooksLikePrompt(l)
<1> DEFINE A == Atoms(c, i) \ {EchoOf(i)}
           M == Marker(i - 1)
           W == Word(c)
           V == Word("motd")
<1>1. /\ M \in A /\ Prompt \in A /\ W \in A /\ V \in A
      /\ M # Prompt /\ W # Prompt /\ V # Prompt
  BY AtomsDiffer DEF Atoms
<1>2. l = << >> \/ l = <<M>> \/ l = <<Prompt, W>> \/ l = <<V>>
  BY DEF AboveLines
<1> HIDE DEF A, M, W, V
<1>3. ASSUME NEW a \in A, a # Prompt PROVE <<a>> \in Seq(A) /\ ~LooksLikePrompt(<<a>>)
  <2>1. <<a>> \in Seq(A) /\ <<a>>[1] = a /\ Len(<<a>>) = 1
    OBVIOUS
  <2> QED
    BY <1>3, <2>1 DEF LooksLikePrompt, Last
<1>4. <<Prompt, W>> \in Seq(A) /\ ~LooksLikePrompt(<<Prompt, W>>)
  <2>1. <<Prompt, W>>[2] = W /\ Len(<<Prompt, W>>) = 2
    OBVIOUS
  <2> QED
    BY <1>1, <2>1 DEF LooksLikePrompt, Last
<1>5. << >> \in Seq(A) /\ ~LooksLikePrompt(<< >>)
  BY EmptySeq DEF LooksLikePrompt
<1>6. <<M>> \in Seq(A) /\ ~LooksLikePrompt(<<M>>) /\ <<V>> \in Seq(A) /\ ~LooksLikePrompt(<<V>>)
  BY <1>1, <1>3
<1>7. l \in Seq(A) /\ ~LooksLikePrompt(l)
  BY <1>2, <1>4, <1>5, <1>6
<1> QED
  BY <1>7 DEF A

\* Nor does a line of words.
LEMMA PrintedLine ==
  ASSUME NEW c, NEW i \in Nat \ {0}, NEW l \in Seq(Printed)
  PROVE  l \in Seq(Atoms(c, i) \ {EchoOf(i)}) /\ ~LooksLikePrompt(l)
<1> DEFINE A == Atoms(c, i) \ {EchoOf(i)}
<1>1. Printed \subseteq A /\ Prompt \notin Printed
  BY AtomsDiffer DEF Atoms
<1>2. l \in Seq(A)
  BY <1>1, SeqMonotonic
<1>3. l # << >> => Last(l) \in Printed
  <2>1. l # << >> => Len(l) \in 1..Len(l)
    BY EmptySeq
  <2> QED
    BY <2>1, ElementOfSeq DEF Last
<1> QED
  BY <1>1, <1>2, <1>3 DEF LooksLikePrompt

\* The screen up to the typed marker, and what can come behind it.
Typed(left, c, i, out) ==
  Append(Append((left \o <<Word(c), Nl>>) \o Screen(out), Prompt), EchoOf(i))
Received(A, s, text) == text = s \/ \E r \in Seq(A) : text = Append(s, Nl) \o r

\* The lines at the top, those of the output, and that of the marker.
LaidOut(c, i, out, lines) ==
  \E pre \in {<< >>, << <<Word(c)>> >>}, above \in Above(c, i),
     ls \in Seq(Seq(Printed)), w \in Seq(Printed), more \in Seq(Seq(Atoms(c, i))) :
    /\ above # << >> => above[1] # <<Word(c)>>
    /\ Printing(out, ls, w)
    /\ lines = Append((pre \o above) \o ls, Append(Append(w, Prompt), EchoOf(i))) \o more

\* The screen is split into these.
LEMMA LinesOfScreen ==
  ASSUME NEW c, NEW i \in Nat \ {0}, NEW left \in Leftover(i),
         NEW out, out.lines \in Seq(Seq(Printed)),
         NEW text, Received(Atoms(c, i), Typed(left, c, i, out), text)
  PROVE  LaidOut(c, i, out, SplitLines(text))
<1> DEFINE A == Atoms(c, i)
           E == EchoOf(i)
           top == left \o <<Word(c), Nl>>
           shown == top \o Screen(out)
           s == Typed(left, c, i, out)
<1>1. /\ Nl \in A /\ Prompt \in A /\ E \in A /\ Printed \subseteq A \ {Nl}
      /\ Prompt # Nl /\ E # Nl
  BY AtomsDiffer DEF Atoms
<1>2. PICK pre \in {<< >>, << <<Word(c)>> >>}, above \in Above(c, i) :
        /\ Splits(A, top, pre \o above, << >>)
        /\ above # << >> => above[1] # <<Word(c)>>
  BY TopIs
<1> HIDE DEF A, top
<1>3. PICK ls \in Seq(Seq(Printed)), w \in Seq(Printed) :
        Splits(A, shown, (pre \o above) \o ls, w) /\ Printing(out, ls, w)
  BY <1>1, <1>2, SplitScreen, Zenon
<1> DEFINE P == (pre \o above) \o ls
           e == Append(Append(w, Prompt), E)
<1>4. Splits(A, s, P, e)
  <2> HIDE DEF P, E, shown
  <2>1. Splits(A, shown, P, w)
    BY <1>3 DEF P
  <2>2. Splits(A, Append(shown, Prompt), P, Append(w, Prompt))
    BY <1>1, <2>1, SplitLetter, Zenon
  <2>3. Splits(A, Append(Append(shown, Prompt), E), P, Append(Append(w, Prompt), E))
    BY <1>1, <2>2, SplitLetter, Zenon
  <2> QED
    BY <2>3 DEF Typed, shown, top, E
<1> HIDE DEF P, s
<1>5. \E more \in Seq(Seq(A)) : SplitLines(text) = Append(P, e) \o more
  <2>1. CASE text = s
    <3>1. /\ Split(s) = Append(P, e) /\ P \in Seq(Seq(A)) /\ e \in Seq(A)
          /\ << >> \in Seq(Seq(A))
      BY <1>4, EmptySeq DEF Splits
    <3>2. e # << >>
      <4>1. w \in Seq(A)
        BY <1>1, SeqMonotonic
      <4> HIDE DEF E
      <4>2. Append(w, Prompt) \in Seq(A)
        BY <1>1, <4>1, AppendItems
      <4> QED
        BY <1>1, <4>2, AppendItems
    <3> HIDE DEF e
    <3>3. Append(P, e) \in Seq(Seq(A))
      BY <3>1, AppendItems, Zenon
    <3> DEFINE L == Seq(A)
    <3>4. Last(Append(P, e)) = e
      <4>1. P \in Seq(L) /\ e \in L
        BY <3>1
      <4> HIDE DEF L
      <4> QED
        BY <4>1, AppendParts
    <3>5. SplitLines(text) = Append(P, e)
      BY <2>1, <3>1, <3>2, <3>4 DEF SplitLines
    <3>6. Append(P, e) \o << >> = Append(P, e)
      <4>1. Append(P, e) \in Seq(L)
        BY <3>3
      <4> HIDE DEF L
      <4> QED
        BY <4>1, ConcatEmptySeq
    <3>7. SplitLines(text) = Append(P, e) \o << >>
      BY <3>5, <3>6
    <3> QED
      BY <3>1, <3>7
  <2>2. ASSUME NEW r \in Seq(A), text = Append(s, Nl) \o r
        PROVE  \E more \in Seq(Seq(A)) : SplitLines(text) = Append(P, e) \o more
    <3> HIDE DEF e
    <3>0. Nl \in A /\ Splits(A, s, P, e) /\ r \in Seq(A)
      BY <1>1, <1>4
    <3>1. Begins(A, Append(P, e), SplitLines(Append(s, Nl) \o r))
      BY <3>0, SplitRest, Zenon
    <3> QED
      BY <2>2, <3>1 DEF Begins
  <2> QED
    BY <2>1, <2>2 DEF Received, s, A
<1>6. PICK more \in Seq(Seq(A)) : SplitLines(text) = Append(P, e) \o more
  BY <1>5
<1>7. more \in Seq(Seq(Atoms(c, i)))
  BY DEF A
<1> QED
  BY <1>2, <1>3, <1>6, <1>7 DEF P, LaidOut

\* Lines in front of lines.
LEMMA PutTogether ==
  ASSUME NEW L, NEW s \in Seq(L), NEW t \in Seq(L), NEW u \in Seq(L), NEW e \in L
  PROVE  Same(Append(s \o t, e) \o u, s \o (Append(t, e) \o u))
<1>1. Append(s \o t, e) = s \o Append(t, e)
  <2> DEFINE one == <<e>>
  <2>1. s \o t \in Seq(L) /\ one \in Seq(L) /\ Append(t, e) = t \o one
    BY ConcatProperties, AppendIsConcat
  <2>2. Append(s \o t, e) = (s \o t) \o one
    BY <2>1, AppendIsConcat
  <2> HIDE DEF one
  <2>3. (s \o t) \o one = s \o (t \o one)
    BY <2>1, ConcatAssociative, SMTT(30)
  <2> QED
    BY <2>1, <2>2, <2>3
<1>2. (s \o Append(t, e)) \o u = s \o (Append(t, e) \o u)
  <2> DEFINE v == Append(t, e)
  <2>1. v \in Seq(L)
    BY AppendProperties
  <2> HIDE DEF v
  <2>2. (s \o v) \o u = s \o (v \o u)
    BY <2>1, ConcatAssociative
  <2> QED
    BY <2>2 DEF v
<1> QED
  BY <1>1, <1>2 DEF Same

\* What is found is the output of the command c, and what of the lines above it is
\* not blank.
WithAbove(c, i, out, found) ==
  \E above \in Above(c, i) : found = StripLines(above \o out.lines)

LEMMA FoundIs ==
  ASSUME NEW c, NEW i \in Nat \ {0}, NEW left \in Leftover(i),
         NEW out, out.lines \in Seq(Seq(Printed)), anchored \/ out.ended,
         <<Word(c)>> \notin ToSet(out.lines),
         NEW text, Received(Atoms(c, i), Typed(left, c, i, out), text)
  PROVE  WithAbove(c, i, out, FindOutput(c, i, text))
<1> DEFINE A == Atoms(c, i)
           E == EchoOf(i)
           L == Seq(A)
           M == Seq(A \ {E})
           d == <<Word(c)>>
<1>1. PICK pre, above, ls, w, more :
        /\ pre \in {<< >>, <<d>>} /\ above \in Above(c, i)
        /\ ls \in Seq(Seq(Printed)) /\ w \in Seq(Printed) /\ more \in Seq(Seq(A))
        /\ above # << >> => above[1] # d
        /\ Printing(out, ls, w)
        /\ SplitLines(text) =
             Append((pre \o above) \o ls, Append(Append(w, Prompt), E)) \o more
  <2>1. LaidOut(c, i, out, SplitLines(text))
    BY LinesOfScreen, Zenon
  <2> QED
    BY <2>1 DEF LaidOut
<1> DEFINE e == Append(Append(w, Prompt), E)
           X == above \o ls
           Y == Append(X, e) \o more
           v == Append(w, Prompt)
<1>2. /\ Prompt \in A /\ E \in A /\ Word(c) \in A /\ Printed \subseteq A \ {E}
      /\ d \in L /\ M \subseteq L
  <2>1. Prompt \in A /\ E \in A /\ Word(c) \in A /\ Printed \subseteq A \ {E}
    BY AtomsDiffer DEF Atoms
  <2> HIDE DEF A, E
  <2> QED
    BY <2>1, SeqMonotonic
<1>3. e \in L /\ e # d /\ e # << >>
  <2>1. w \in Seq(A)
    BY <1>1, <1>2, SeqMonotonic
  <2> HIDE DEF A, E
  <2>2. v \in Seq(A) /\ Len(v) = Len(w) + 1 /\ Len(w) \in Nat
    BY <1>2, <2>1, AppendProperties, LenProperties
  <2> HIDE DEF v
  <2>3. Append(v, E) \in Seq(A) /\ Len(Append(v, E)) = Len(v) + 1
    BY <1>2, <2>2, AppendProperties
  <2>4. Len(d) = 1 /\ Len(<< >>) = 0 /\ Len(Append(v, E)) >= 2
    BY <2>2, <2>3
  <2> HIDE DEF d
  <2>5. Append(v, E) \in L /\ Append(v, E) # d /\ Append(v, E) # << >>
    BY <2>3, <2>4
  <2> QED
    BY <2>5 DEF v
<1>4. /\ above \in Seq(M) /\ ls \in Seq(M)
      /\ \A l \in ToSet(above) \cup ToSet(ls) : ~LooksLikePrompt(l)
  <2>1. above \in Seq(AboveLines(c, i)) /\ \A l \in ToSet(above) : l \in AboveLines(c, i)
    <3>1. above \in Seq(AboveLines(c, i))
      BY <1>1, AboveIs
    <3> QED
      BY <3>1, LenProperties DEF ToSet
  <2>2. \A l \in AboveLines(c, i) : l \in M /\ ~LooksLikePrompt(l)
    BY AboveLine
  <2>3. \A l \in ToSet(ls) : l \in Seq(Printed)
    <3>1. ls \in Seq(Seq(Printed))
      BY <1>1
    <3> QED
      BY <3>1, LenProperties DEF ToSet
  <2>4. \A l \in Seq(Printed) : l \in M /\ ~LooksLikePrompt(l)
    BY PrintedLine
  <2> HIDE DEF M
  <2>5. above \in Seq(M) /\ ls \in Seq(M)
    <3>1. AboveLines(c, i) \subseteq M /\ Seq(Printed) \subseteq M
      BY <2>2, <2>4
    <3> QED
      BY <1>1, <2>1, <3>1, SeqMonotonic
  <2> QED
    BY <2>1, <2>2, <2>3, <2>4, <2>5
<1>5. above \in Seq(L) /\ ls \in Seq(L) /\ pre \in Seq(L) /\ more \in Seq(L)
  <2>1. more \in Seq(L) /\ pre \in {<< >>, <<d>>}
    BY <1>1
  <2> HIDE DEF L, M, d
  <2>2. above \in Seq(L) /\ ls \in Seq(L)
    BY <1>2, <1>4, SeqMonotonic
  <2>3. << >> \in Seq(L) /\ <<d>> \in Seq(L)
    BY <1>2, EmptySeq
  <2> QED
    BY <2>1, <2>2, <2>3
<1>6. X \in Seq(L) /\ Y \in Seq(L) /\ Append(X, e) \in Seq(L)
  <2> HIDE DEF L, e
  <2>1. above \o ls \in Seq(L)
    BY <1>5, ConcatProperties
  <2>2. Append(X, e) \in Seq(L)
    BY <1>3, <2>1, AppendProperties
  <2>3. more \in Seq(L)
    BY <1>5
  <2> HIDE DEF X
  <2>4. Append(X, e) \o more \in Seq(L)
    BY <2>2, <2>3, ConcatProperties
  <2> QED
    BY <2>1, <2>2, <2>4 DEF X
\* The echo of the command is ahead of the rest.
<1>7. SplitLines(text) = pre \o Y
  <2> HIDE DEF L, e
  <2>1. (pre \o above) \o ls = pre \o X
    BY <1>5, ConcatAssociative
  <2>2. SplitLines(text) = Append(pre \o X, e) \o more
    BY <1>1, <2>1 DEF e
  <2> HIDE DEF X
  <2>3. Same(Append(pre \o X, e) \o more, pre \o (Append(X, e) \o more))
    <3>1. pre \in Seq(L) /\ X \in Seq(L) /\ e \in L /\ more \in Seq(L)
      BY <1>3, <1>5, <1>6
    <3> QED
      BY <3>1, PutTogether, Zenon
  <2> QED
    BY <2>2, <2>3 DEF Same
<1>8. Y # << >> /\ Y[1] # d
  <2> HIDE DEF L, e, d
  <2>1. /\ Append(X, e) \in Seq(L) /\ more \in Seq(L) /\ X \in Seq(L)
        /\ above \in Seq(L) /\ ls \in Seq(L)
    BY <1>5, <1>6
  <2> DEFINE t == Append(X, e)
             k == Len(X)
  <2>2. /\ k \in Nat /\ Len(t) = k + 1 /\ t[k + 1] = e
        /\ \A j \in 1..k : t[j] = X[j]
    <3> HIDE DEF X
    <3> QED
      BY <1>3, <2>1, AppendProperties, LenProperties
  <2>3. t[1] # d
    <3>1. CASE above # << >>
      <4>1. /\ Len(X) = Len(above) + Len(ls)
            /\ \A j \in 1..Len(above) + Len(ls) :
                 X[j] = IF j <= Len(above) THEN above[j] ELSE ls[j - Len(above)]
        BY <2>1, ConcatProperties
      <4>2. Len(above) \in Nat \ {0} /\ Len(ls) \in Nat
        BY <2>1, <3>1, EmptySeq, LenProperties
      <4> HIDE DEF X, t
      <4>3. 1 \in 1..k /\ X[1] = above[1]
        BY <4>1, <4>2
      <4> QED
        BY <1>1, <2>2, <3>1, <4>3
    <3>2. CASE above = << >>
      <4>1. X = ls
        BY <2>1, <3>2, ConcatEmptySeq
      <4>2. CASE ls = << >>
        <5>1. k = 0
          BY <4>1, <4>2, EmptySeq
        <5> HIDE DEF X, t, k
        <5> QED
          BY <1>3, <2>2, <5>1
      <4>3. CASE ls # << >>
        <5>1. Len(ls) \in Nat \ {0}
          BY <2>1, <4>3, EmptySeq
        <5>2. ls[1] \in ToSet(ls)
          BY <2>1, <5>1, LenProperties DEF ToSet
        <5>3. ToSet(ls) \subseteq ToSet(out.lines)
          <6>1. CASE out.lines = ls
            BY <6>1
          <6>2. CASE out.lines = Append(ls, w)
            <7> DEFINE W == Seq(Printed)
            <7>1. ls \in Seq(W) /\ w \in W
              BY <1>1
            <7> HIDE DEF W
            <7>2. ToSet(Append(ls, w)) = ToSet(ls) \cup {w}
              BY <7>1, AppendItems
            <7> QED
              BY <6>2, <7>2
          <6> QED
            BY <1>1, <6>1, <6>2 DEF Printing
        <5>4. ls[1] # d
          BY <5>2, <5>3 DEF d
        <5>5. 1 \in 1..k
          BY <4>1, <5>1
        <5> HIDE DEF X, t, k
        <5> QED
          BY <2>2, <4>1, <5>4, <5>5
      <4> QED
        BY <4>2, <4>3
    <3> QED
      BY <3>1, <3>2
  <2> HIDE DEF t, X, k
  <2>4. /\ Len(t \o more) = Len(t) + Len(more) /\ t \o more \in Seq(L)
        /\ \A j \in 1..Len(t) + Len(more) :
             (t \o more)[j] = IF j <= Len(t) THEN t[j] ELSE more[j - Len(t)]
    <3>1. t \in Seq(L)
      BY <2>1 DEF t
    <3> QED
      BY <2>1, <3>1, ConcatProperties
  <2>5. Len(more) \in Nat
    BY <2>1, LenProperties
  <2>6. Y = t \o more
    BY DEF t
  <2> HIDE DEF Y
  <2>7. Y[1] = t[1] /\ Len(Y) # 0
    BY <2>2, <2>4, <2>5, <2>6
  <2> QED
    BY <2>3, <2>7, EmptySeq
<1>9. WithoutEcho(c, SplitLines(text)) = Y
  <2> HIDE DEF L, Y
  <2>1. WithoutEcho(c, Y) = Y /\ WithoutEcho(c, <<d>> \o Y) = Y
    BY <1>2, <1>6, <1>8, WithoutEchoIs
  <2>2. << >> \o Y = Y
    BY <1>6, ConcatEmptySeq
  <2> QED
    BY <1>1, <1>7, <2>1, <2>2
<1>10. UptoMarker(i, Y) = IF w = << >> THEN X ELSE Append(X, w)
  <2>1. X \in Seq(M)
    <3> HIDE DEF M
    <3> QED
      BY <1>4, ConcatProperties
  <2>2. \A l \in ToSet(X) : ~LooksLikePrompt(l)
    <3> HIDE DEF L
    <3>1. ToSet(X) = ToSet(above) \cup ToSet(ls)
      BY <1>5, ConcatItems
    <3> QED
      BY <1>4, <3>1
  <2>3. w \in Seq(A \ {E}) /\ (anchored \/ w = << >>)
    <3>1. w \in Seq(A \ {E})
      BY <1>1, <1>2, SeqMonotonic
    <3> QED
      BY <1>1, <3>1 DEF Printing
  <2>4. more \in Seq(Seq(A)) /\ Prompt \in A /\ EchoOf(i) \in A
    BY <1>1, <1>2
  <2> HIDE DEF X, A
  <2>5. X \in Seq(Seq(A \ {EchoOf(i)})) /\ w \in Seq(A \ {EchoOf(i)})
    BY <2>1, <2>3
  <2>6. \A l \in ToSet(X) : ~LooksLikePrompt(l)
    BY <2>2
  <2>7. anchored \/ w = << >>
    BY <2>3
  <2>8. Same(UptoMarker(i, Append(X, Append(Append(w, Prompt), EchoOf(i))) \o more),
             IF w = << >> THEN X ELSE Append(X, w))
    BY <2>4, <2>5, <2>6, <2>7, UptoMarkerIs, Zenon
  <2> QED
    BY <2>8 DEF Same
<1>11. FindOutput(c, i, text) = StripLines(IF w = << >> THEN X ELSE Append(X, w))
  BY <1>9, <1>10 DEF FindOutput
\* A blank line at the end, in front of the prompt, does not count.
<1>12. StripLines(IF w = << >> THEN X ELSE Append(X, w)) = StripLines(above \o out.lines)
  <2>1. CASE out.lines = ls /\ w = << >>
    BY <2>1
  <2>2. CASE out.lines = Append(ls, w)
    <3>1. w \in L
      BY <1>1, <1>2, SeqMonotonic
    <3> HIDE DEF L
    <3>2. above \o Append(ls, w) = Append(X, w)
      BY <1>5, <3>1, ConcatAppend
    <3> HIDE DEF X
    <3>3. w = << >> => StripLines(Append(X, w)) = StripLines(X)
      BY <1>6, <3>1, StripBlank
    <3> QED
      BY <2>2, <3>2, <3>3
  <2> QED
    BY <1>1, <2>1, <2>2 DEF Printing
<1> QED
  BY <1>1, <1>11, <1>12 DEF WithAbove

-----------------------------------------------------------------------------
(* What run() finds is a list of lines, whatever the screen.               *)

\* A part of a list.
LEMMA PartOf ==
  ASSUME NEW R, NEW s \in Seq(R), NEW k \in Nat \ {0}, NEW n \in Int, n <= Len(s)
  PROVE  SubSeq(s, k, n) \in Seq(R)
<1>1. \A j \in k..n : j \in 1..Len(s)
  OBVIOUS
<1>2. \A j \in k..n : s[j] \in R
  BY <1>1, ElementOfSeq
<1> QED
  BY <1>2, SubSeqProperties

\* The first or last index, or 0.
LEMMA Indices ==
  ASSUME NEW n \in Nat, NEW I, I \subseteq 1..n
  PROVE  /\ (IF I # {} THEN Min(I) ELSE 0) \in 0..n
         /\ (IF I # {} THEN Max(I) ELSE 0) \in 0..n
<1>1. SUFFICES ASSUME I # {} PROVE Min(I) \in 0..n /\ Max(I) \in 0..n
  <2>1. 0 \in 0..n
    OBVIOUS
  <2> QED
    BY <2>1, Zenon
<1> DEFINE J == {n - j : j \in I}
<1>2. I \subseteq Nat /\ J \subseteq Nat /\ J # {}
  <2>1. I \subseteq Nat /\ \A j \in I : n - j \in Nat
    OBVIOUS
  <2>2. PICK j : j \in I
    BY <1>1
  <2>3. n - j \in J
    BY <2>2
  <2> QED
    BY <2>1, <2>3
<1>3. PICK x \in I : \A y \in I : x <= y
  BY <1>1, <1>2, Least
<1>4. PICK j \in J : \A y \in J : j <= y
  BY <1>2, Least
<1>5. PICK z \in I : j = n - z
  OBVIOUS
<1>6. ASSUME NEW y \in I PROVE z >= y
  <2>1. n - z <= n - y /\ z \in Nat /\ y \in Nat
    BY <1>2, <1>4, <1>5
  <2> QED
    BY <2>1
<1>7. Min(I) = x /\ Max(I) = z
  <2> HIDE DEF J
  <2> QED
    BY <1>2, <1>3, <1>6, MinMaxAre
<1> QED
  BY <1>7

\* Parts of lists of lines.
LEMMA ShorterLists ==
  ASSUME NEW A, NEW c, NEW lines \in Seq(Seq(A))
  PROVE  WithoutEcho(c, lines) \in Seq(Seq(A))
<1> DEFINE I == {i \in 1..Len(lines) : lines[i] # <<Word(c)>>}
           k == IF I # {} THEN Min(I) ELSE 0
<1>1. WithoutEcho(c, lines) = IF k = 0 THEN << >> ELSE SubSeq(lines, k, Len(lines))
  BY DEF WithoutEcho, SelectInSeq
<1>2. Len(lines) \in Nat /\ k \in 0..Len(lines)
  <2>1. Len(lines) \in Nat /\ I \subseteq 1..Len(lines)
    OBVIOUS
  <2> HIDE DEF I
  <2> QED
    BY <2>1, Indices
<1> DEFINE L == Seq(A)
<1>3. lines \in Seq(L)
  OBVIOUS
<1> HIDE DEF k, L
<1>4. k # 0 => SubSeq(lines, k, Len(lines)) \in Seq(L)
  <2>1. k # 0 => k \in Nat \ {0} /\ Len(lines) \in Int /\ Len(lines) <= Len(lines)
    BY <1>2
  <2> QED
    BY <1>3, <2>1, PartOf
<1> QED
  BY <1>1, <1>4, EmptySeq DEF L

\* What is in front of the prompt.
LEMMA PromptStripped ==
  ASSUME NEW A, NEW text \in Seq(A)
  PROVE  StripPromptSuffix(text) \in Seq(A)
<1> DEFINE I == {i \in 1..Len(text) : text[i] = Prompt}
           k == IF I # {} THEN Max(I) ELSE 0
<1>1. StripPromptSuffix(text) \in {text, SubSeq(text, 1, k - 1), SubSeq(text, 1, k - 2)}
  BY DEF StripPromptSuffix, SelectLastInSeq
<1>2. Len(text) \in Nat /\ k \in 0..Len(text)
  <2>1. Len(text) \in Nat /\ I \subseteq 1..Len(text)
    OBVIOUS
  <2> HIDE DEF I
  <2> QED
    BY <2>1, Indices
<1> HIDE DEF k
<1>3. SubSeq(text, 1, k - 1) \in Seq(A) /\ SubSeq(text, 1, k - 2) \in Seq(A)
  <2>1. /\ 1 \in Nat \ {0} /\ k - 1 \in Int /\ k - 2 \in Int
        /\ k - 1 <= Len(text) /\ k - 2 <= Len(text)
    BY <1>2
  <2> QED
    BY <2>1, PartOf
<1> QED
  BY <1>1, <1>3

\* The lines up to the marker.
LEMMA UptoLines ==
  ASSUME NEW A, NEW m, NEW lines \in Seq(Seq(A))
  PROVE  UptoMarker(m, lines) \in Seq(Seq(A))
<1> DEFINE L == Seq(A)
           I == {i \in 1..Len(lines) : EchoOf(m) \in ToSet(lines[i])}
           k == IF I # {} THEN Min(I) ELSE 0
           part == SubSeq(lines, 1, IF k = 0 THEN Len(lines) ELSE k - 1)
           kept == Keep(part, {l \in ToSet(lines) : ~LooksLikePrompt(l)})
           Of(l) == {j \in 1..Len(l) : l[j] = EchoOf(m)}
           At(l) == IF Of(l) # {} THEN Min(Of(l)) ELSE 0
           prefix == IF k = 0 THEN << >>
                     ELSE StripPromptSuffix(SubSeq(lines[k], 1, At(lines[k]) - 1))
<1>1. UptoMarker(m, lines) = IF prefix = << >> THEN kept ELSE Append(kept, prefix)
  BY DEF UptoMarker, SelectInSeq
<1>2. Len(lines) \in Nat /\ k \in 0..Len(lines)
  <2>1. Len(lines) \in Nat /\ I \subseteq 1..Len(lines)
    OBVIOUS
  <2> HIDE DEF I
  <2> QED
    BY <2>1, Indices
<1>3. lines \in Seq(L)
  OBVIOUS
<1> HIDE DEF k
<1>4. kept \in Seq(L)
  <2>1. part \in Seq(L)
    <3> DEFINE e == IF k = 0 THEN Len(lines) ELSE k - 1
    <3>1. 1 \in Nat \ {0} /\ e \in Int /\ e <= Len(lines)
      BY <1>2
    <3> HIDE DEF e, L
    <3>2. SubSeq(lines, 1, e) \in Seq(L)
      BY <1>3, <3>1, PartOf
    <3> QED
      BY <3>2 DEF e
  <2> HIDE DEF part, L
  <2> QED
    BY <2>1, KeepIs
<1>5. prefix \in L
  <2>1. CASE k = 0
    BY <2>1, EmptySeq
  <2>2. CASE k # 0
    <3> DEFINE l == lines[k]
               z == At(l)
    <3>1. k \in 1..Len(lines)
      BY <1>2, <2>2
    <3>2. l \in Seq(A)
      BY <3>1, ElementOfSeq
    <3>3. Len(l) \in Nat /\ z \in 0..Len(l)
      <4> HIDE DEF l
      <4>1. Len(l) \in Nat /\ Of(l) \subseteq 1..Len(l)
        BY <3>2
      <4> DEFINE J == Of(l)
      <4> HIDE DEF J
      <4>2. J \subseteq 1..Len(l)
        BY <4>1 DEF J
      <4>3. (IF J # {} THEN Min(J) ELSE 0) \in 0..Len(l)
        BY <4>1, <4>2, Indices
      <4> QED
        BY <4>1, <4>3 DEF J
    <3> HIDE DEF z, l
    <3>4. SubSeq(l, 1, z - 1) \in Seq(A)
      <4>1. 1 \in Nat \ {0} /\ z - 1 \in Int /\ z - 1 <= Len(l)
        BY <3>3
      <4> QED
        BY <3>2, <4>1, PartOf
    <3>5. StripPromptSuffix(SubSeq(l, 1, z - 1)) \in Seq(A)
      BY <3>4, PromptStripped
    <3> QED
      BY <2>2, <3>5 DEF z, l
  <2> QED
    BY <2>1, <2>2
<1> HIDE DEF kept, prefix, L
<1>6. Append(kept, prefix) \in Seq(L)
  BY <1>4, <1>5, AppendProperties
<1> QED
  BY <1>1, <1>4, <1>6 DEF L

\* The lines that are found have no blank one at either end.
Ends(ls) == ls # << >> => ls[1] # << >> /\ Last(ls) # << >>

LEMMA FoundLines ==
  ASSUME NEW A, Nl \in A, NEW c, NEW m, NEW text \in Seq(A)
  PROVE  Ends(FindOutput(c, m, text))
<1> DEFINE L == Seq(A)
<1>1. Split(text) \in LinesOf(A)
  BY SplitAppends
<1>2. SplitLines(text) \in Seq(L)
  <2> DEFINE all == Split(text)
  <2>1. all \in Seq(L) /\ all # << >>
    BY <1>1 DEF LinesOf
  <2> HIDE DEF all, L
  <2>2. Front(all) \in Seq(L)
    <3>1. PICK s \in Seq(L), e \in L : all = Append(s, e)
      BY <2>1, SequenceEmptyOrAppend
    <3>2. Front(Append(s, e)) = s
      BY AppendParts
    <3> QED
      BY <3>1, <3>2
  <2> QED
    BY <2>1, <2>2 DEF SplitLines, all
<1>3. WithoutEcho(c, SplitLines(text)) \in Seq(Seq(A))
  BY <1>2, ShorterLists
<1>4. UptoMarker(m, WithoutEcho(c, SplitLines(text))) \in Seq(Seq(A))
  BY <1>3, UptoLines
<1> DEFINE u == UptoMarker(m, WithoutEcho(c, SplitLines(text)))
<1>5. u \in Seq(L)
  BY <1>4
<1> HIDE DEF u, L
<1>6. StripLines(u) # << >> => StripLines(u)[1] # << >> /\ Last(StripLines(u)) # << >>
  BY <1>5, Stripped
<1> QED
  BY <1>6 DEF Ends, FindOutput, u

-----------------------------------------------------------------------------
(* What is received, and what is left on the way.                          *)

\* What is on the screen ahead of the marker of run i, of the command c.
Before(c, i) == Printed \cup {Word(c), Word("motd"), Prompt, Nl, Marker(i - 1)}

LEMMA BeforeIs ==
  ASSUME NEW c, NEW i \in Nat \ {0}
  PROVE  /\ Before(c, i) \subseteq Atoms(c, i)
         /\ EchoOf(i) \notin Before(c, i) /\ Marker(i) \notin Before(c, i)
BY AtomsDiffer DEF Before, Atoms

\* A tail of a list of four.
Tails(x, y, z, u) == {<<x, y, z, u>>, <<y, z, u>>, <<z, u>>, <<u>>, << >>}

LEMMA TailIs ==
  ASSUME NEW R, NEW s \in Seq(R), NEW x, NEW y, NEW z, NEW u, NEW k \in 0..4,
         Len(s) = 4 - k, \A j \in 1..(4 - k) : s[j] = <<x, y, z, u>>[k + j]
  PROVE  s \in Tails(x, y, z, u)
<1> DEFINE S == R \cup {x, y, z, u}
           a == <<x, y, z, u>>
           b == <<y, z, u>>
           d == <<z, u>>
           e == <<u>>
<1>1. s \in Seq(S)
  BY SeqMonotonic
<1>2. a[1] = x /\ a[2] = y /\ a[3] = z /\ a[4] = u
  OBVIOUS
<1>3. /\ a \in Seq(S) /\ Len(a) = 4
      /\ b \in Seq(S) /\ Len(b) = 3 /\ b[1] = y /\ b[2] = z /\ b[3] = u
      /\ d \in Seq(S) /\ Len(d) = 2 /\ d[1] = z /\ d[2] = u
      /\ e \in Seq(S) /\ Len(e) = 1 /\ e[1] = u
  <2>1. x \in S /\ y \in S /\ z \in S /\ u \in S
    OBVIOUS
  <2> HIDE DEF S
  <2>2. a \in Seq(S) /\ Len(a) = 4
    BY <2>1
  <2>3. b \in Seq(S) /\ Len(b) = 3 /\ b[1] = y /\ b[2] = z /\ b[3] = u
    BY <2>1
  <2>4. d \in Seq(S) /\ Len(d) = 2 /\ d[1] = z /\ d[2] = u
    BY <2>1
  <2>5. e \in Seq(S) /\ Len(e) = 1 /\ e[1] = u
    BY <2>1
  <2> QED
    BY <2>2, <2>3, <2>4, <2>5
<1>4. Len(s) = 4 - k /\ \A j \in 1..(4 - k) : s[j] = a[k + j]
  OBVIOUS
<1> HIDE DEF S, a, b, d, e
<1>5. CASE k = 0
  <2>1. Len(s) = Len(a) /\ \A j \in 1..Len(s) : s[j] = a[j]
    BY <1>3, <1>4, <1>5
  <2>2. s = a
    BY <1>1, <1>3, <2>1, SeqEqual
  <2> QED
    BY <2>2 DEF Tails, a
<1>6. CASE k = 1
  <2>1. Len(s) = 3 /\ s[1] = y /\ s[2] = z /\ s[3] = u
    BY <1>2, <1>4, <1>6
  <2>2. Len(s) = Len(b) /\ \A j \in 1..Len(s) : s[j] = b[j]
    <3>1. \A j \in 1..3 : j = 1 \/ j = 2 \/ j = 3
      OBVIOUS
    <3> QED
      BY <1>3, <2>1, <3>1
  <2>3. s = b
    BY <1>1, <1>3, <2>2, SeqEqual
  <2> QED
    BY <2>3 DEF Tails, b
<1>7. CASE k = 2
  <2>1. Len(s) = 2 /\ s[1] = z /\ s[2] = u
    BY <1>2, <1>4, <1>7
  <2>2. Len(s) = Len(d) /\ \A j \in 1..Len(s) : s[j] = d[j]
    <3>1. \A j \in 1..2 : j = 1 \/ j = 2
      OBVIOUS
    <3> QED
      BY <1>3, <2>1, <3>1
  <2>3. s = d
    BY <1>1, <1>3, <2>2, SeqEqual
  <2> QED
    BY <2>3 DEF Tails, d
<1>8. CASE k = 3
  <2>1. Len(s) = 1 /\ s[1] = u
    BY <1>2, <1>4, <1>8
  <2>2. Len(s) = Len(e) /\ \A j \in 1..Len(s) : s[j] = e[j]
    <3>1. \A j \in 1..1 : j = 1
      OBVIOUS
    <3> QED
      BY <1>3, <2>1, <3>1
  <2>3. s = e
    BY <1>1, <1>3, <2>2, SeqEqual
  <2> QED
    BY <2>3 DEF Tails, e
<1>9. CASE k = 4
  <2>1. s = << >>
    BY <1>1, <1>4, <1>9, EmptySeq
  <2> QED
    BY <2>1 DEF Tails
<1> QED
  BY <1>5, <1>6, <1>7, <1>8, <1>9

\* What is left is of these atoms, and these are its forms.
LEMMA LeftoverIs ==
  ASSUME NEW c, NEW i \in Nat \ {0}
  PROVE  /\ Leftover(i) \subseteq Seq(Before(c, i))
         /\ Tails(Nl, Marker(i), Nl, Prompt) \subseteq Leftover(i + 1)
         /\ Tails(Nl, Word("motd"), Nl, Prompt) \ {<<Nl, Word("motd"), Nl, Prompt>>}
              \subseteq Leftover(1)
<1> DEFINE R == Before(c, i)
           M == Marker(i - 1)
           Motd == Word("motd")
<1>1. Nl \in R /\ M \in R /\ Motd \in R /\ Prompt \in R
  BY DEF Before
<1>2. Leftover(i) \subseteq Seq(R)
  <2>1. Heads(i) \subseteq {<< >>, <<Nl>>, <<M, Nl>>, <<Nl, M, Nl>>, <<Motd, Nl>>}
    BY DEF Heads
  <2> HIDE DEF R, M, Motd
  <2>2. /\ << >> \in Seq(R) /\ <<Nl>> \in Seq(R) /\ <<M, Nl>> \in Seq(R)
        /\ <<Nl, M, Nl>> \in Seq(R) /\ <<Motd, Nl>> \in Seq(R)
    BY <1>1
  <2>3. \A h \in Heads(i) : h \in Seq(R)
    BY <2>1, <2>2
  <2>4. \A h \in Heads(i) : Append(h, Prompt) \in Seq(R)
    BY <1>1, <2>3, AppendProperties
  <2> QED
    BY <2>2, <2>4 DEF Leftover
<1>3. /\ Append(<< >>, Prompt) = <<Prompt>> /\ Append(<<Nl>>, Prompt) = <<Nl, Prompt>>
      /\ \A x : Append(<<x, Nl>>, Prompt) = <<x, Nl, Prompt>>
      /\ \A x : Append(<<Nl, x, Nl>>, Prompt) = <<Nl, x, Nl, Prompt>>
  <2>1. \A x : Append(<<Nl, x, Nl>>, Prompt) = <<Nl, x, Nl, Prompt>>
    BY FourTuple
  <2>2. \A x : Append(<<x, Nl>>, Prompt) = <<x, Nl, Prompt>>
    BY Tuples
  <2>3. Append(<< >>, Prompt) = <<Prompt>> /\ Append(<<Nl>>, Prompt) = <<Nl, Prompt>>
    BY Tuples
  <2> QED
    BY <2>1, <2>2, <2>3
<1>4. Tails(Nl, Marker(i), Nl, Prompt) \subseteq Leftover(i + 1)
  <2>1. (i + 1) - 1 = i
    OBVIOUS
  <2> DEFINE N == Marker(i)
  <2>2. {<< >>, <<Nl>>, <<N, Nl>>, <<Nl, N, Nl>>} \subseteq Heads(i + 1)
    BY <2>1 DEF Heads
  <2> HIDE DEF N
  <2>3. {<< >>, <<Prompt>>, <<Nl, Prompt>>, <<N, Nl, Prompt>>, <<Nl, N, Nl, Prompt>>}
          \subseteq Leftover(i + 1)
    BY <1>3, <2>2 DEF Leftover
  <2> QED
    BY <2>3 DEF Tails, N
<1>5. Tails(Nl, Motd, Nl, Prompt) \ {<<Nl, Motd, Nl, Prompt>>} \subseteq Leftover(1)
  <2>1. {<< >>, <<Nl>>, <<Motd, Nl>>} \subseteq Heads(1)
    BY DEF Heads
  <2> HIDE DEF Motd
  <2>2. {<< >>, <<Prompt>>, <<Nl, Prompt>>, <<Motd, Nl, Prompt>>} \subseteq Leftover(1)
    BY <1>3, <2>1 DEF Leftover
  <2> QED
    BY <2>2 DEF Tails
<1> QED
  BY <1>2, <1>4, <1>5

\* An output on the screen is of words and ends of lines.
LEMMA ScreenIs ==
  ASSUME NEW B, Nl \in B, Printed \subseteq B, NEW out, out.lines \in Seq(Seq(Printed))
  PROVE  Screen(out) \in Seq(B)
<1> DEFINE L == Seq(B)
           J == Joined(out.lines)
<1>1. Seq(Printed) \subseteq L
  BY SeqMonotonic
<1>2. out.lines \in Seq(L)
  <2> HIDE DEF L
  <2> QED
    BY <1>1, SeqMonotonic
<1>3. J \in Seq(B)
  <2>1. << >> \in Seq(B)
    BY EmptySeq
  <2> QED
    BY <1>2, <2>1, JoinedAppends
<1> HIDE DEF J
<1>4. Front(J) \in Seq(B)
  <2>1. 1 \in Nat \ {0} /\ Len(J) - 1 \in Int /\ Len(J) - 1 <= Len(J)
    BY <1>3, LenProperties
  <2> QED
    BY <1>3, <2>1, PartOf DEF Front
<1> QED
  BY <1>3, <1>4 DEF Screen, J

\* The end of an answer, behind the typed marker.
Rest(i) == <<Nl, Marker(i), Nl, Prompt>>

\* Three lists, one behind the other.
LEMMA ThreeParts ==
  ASSUME NEW R, NEW s \in Seq(R), NEW t \in Seq(R), NEW u \in Seq(R)
  PROVE  Same((s \o t) \o u, s \o (t \o u))
BY ConcatAssociative DEF Same

\* Five lists, one behind the other.
LEMMA FiveParts ==
  ASSUME NEW R, NEW a \in Seq(R), NEW b \in Seq(R), NEW s \in Seq(R),
         NEW p \in Seq(R), NEW z \in Seq(R)
  PROVE  Same(a \o ((b \o s) \o (p \o z)), (((a \o b) \o s) \o p) \o z)
<1> DEFINE bs == b \o s
           pz == p \o z
           ab == a \o b
           abs == ab \o s
<1>1. bs \in Seq(R) /\ pz \in Seq(R) /\ ab \in Seq(R)
  BY ConcatProperties
<1>2. abs \in Seq(R)
  <2> HIDE DEF ab
  <2> QED
    BY <1>1, ConcatProperties
<1>3. Same(abs, a \o bs)
  BY ThreeParts, Zenon
<1>4. Same((a \o bs) \o pz, a \o (bs \o pz))
  <2> HIDE DEF bs, pz
  <2> QED
    BY <1>1, ThreeParts, Zenon
<1>5. Same((abs \o p) \o z, abs \o (p \o z))
  <2> HIDE DEF abs
  <2> QED
    BY <1>2, ThreeParts, Zenon
<1> QED
  BY <1>3, <1>4, <1>5 DEF Same

\* What was left and the answer are the screen up to the typed marker and the end.
LEMMA WholeIs ==
  ASSUME NEW c, NEW i \in Nat \ {0}, NEW left \in Leftover(i),
         NEW out, out.lines \in Seq(Seq(Printed))
  PROVE  /\ Same(left \o Answer(c, out, i), Typed(left, c, i, out) \o Rest(i))
         /\ left \o Answer(c, out, i) \in Seq(Atoms(c, i))
         /\ Answer(c, out, i) \in Seq(Atoms(c, i)) /\ left \in Seq(Atoms(c, i))
         /\ Rest(i) \in Seq(Atoms(c, i))
         /\ \E b \in Seq(Before(c, i)) : Typed(left, c, i, out) = Append(b, EchoOf(i))
<1> DEFINE A == Atoms(c, i)
           B == Before(c, i)
           S == Screen(out)
           W == <<Word(c), Nl>>
           E == EchoOf(i)
           T == <<Prompt, E, Nl, Marker(i), Nl, Prompt>>
           PE == <<Prompt, E>>
           Z == Rest(i)
           top == left \o W
<1>1. /\ Nl \in B /\ Printed \subseteq B /\ Word(c) \in B /\ Prompt \in B
      /\ B \subseteq A /\ E \in A /\ Marker(i) \in A
  BY DEF Before, Atoms
<1>2. left \in Seq(B) /\ S \in Seq(B)
  BY <1>1, LeftoverIs, ScreenIs
<1>3. W \in Seq(B)
  <2> HIDE DEF B
  <2> QED
    BY <1>1
<1>4. /\ left \in Seq(A) /\ S \in Seq(A) /\ W \in Seq(A)
  <2> HIDE DEF A, B, S, W
  <2> QED
    BY <1>1, <1>2, <1>3, SeqMonotonic
<1>5. /\ T \in Seq(A) /\ PE \in Seq(A) /\ Z \in Seq(A)
  <2>1. Prompt \in A /\ E \in A /\ Nl \in A /\ Marker(i) \in A
    BY <1>1
  <2> HIDE DEF A, B, E
  <2> QED
    BY <2>1 DEF Rest
<1>6. T = PE \o Z
  <2>1. Len(PE) = 2 /\ Len(Z) = 4 /\ Len(T) = 6
    BY DEF Rest
  <2>2. /\ PE[1] = Prompt /\ PE[2] = E
        /\ Z[1] = Nl /\ Z[2] = Marker(i) /\ Z[3] = Nl /\ Z[4] = Prompt
        /\ T[1] = Prompt /\ T[2] = E /\ T[3] = Nl /\ T[4] = Marker(i) /\ T[5] = Nl
        /\ T[6] = Prompt
    BY DEF Rest
  <2> HIDE DEF PE, Z, T, A, E
  <2> DEFINE u == PE \o Z
  <2>3. /\ u \in Seq(A) /\ Len(u) = Len(PE) + Len(Z)
        /\ \A j \in 1..Len(PE) + Len(Z) : u[j] = IF j <= Len(PE) THEN PE[j] ELSE Z[j - Len(PE)]
    BY <1>5, ConcatProperties
  <2> HIDE DEF u
  <2>4. Len(u) = 6 /\ u[1] = PE[1] /\ u[2] = PE[2] /\ u[3] = Z[1] /\ u[4] = Z[2]
        /\ u[5] = Z[3] /\ u[6] = Z[4]
    BY <2>1, <2>3
  <2>5. Len(u) = Len(T) /\ \A j \in 1..Len(u) : u[j] = T[j]
    <3>1. \A j \in 1..6 : j = 1 \/ j = 2 \/ j = 3 \/ j = 4 \/ j = 5 \/ j = 6
      OBVIOUS
    <3> QED
      BY <2>1, <2>2, <2>4, <3>1
  <2>6. u = T
    BY <1>5, <2>3, <2>5, SeqEqual
  <2> QED
    BY <2>6 DEF u
<1>7. top \in Seq(B) /\ top \o S \in Seq(B)
  <2> HIDE DEF B, S, W
  <2>1. top \in Seq(B)
    BY <1>2, <1>3, ConcatProperties
  <2> HIDE DEF top
  <2> QED
    BY <1>2, <2>1, ConcatProperties
<1>8. top \o S \in Seq(A)
  <2> HIDE DEF A, B, S, top
  <2> QED
    BY <1>1, <1>7, SeqMonotonic
<1>9. Typed(left, c, i, out) = (top \o S) \o PE
  <2> DEFINE v == top \o S
  <2>1. v \in Seq(A) /\ Prompt \in A /\ E \in A
    BY <1>1, <1>8
  <2>2. Typed(left, c, i, out) = Append(Append(v, Prompt), E)
    BY DEF Typed
  <2> HIDE DEF v, A, E
  <2>3. v \o <<Prompt, E>> = Append(Append(v, Prompt), E)
    BY <2>1, ConcatTwo
  <2> QED
    BY <2>2, <2>3 DEF v
<1>10. \E b \in Seq(B) : Typed(left, c, i, out) = Append(b, E)
  <2> DEFINE v == top \o S
  <2>1. v \in Seq(B) /\ Prompt \in B
    BY <1>1, <1>7
  <2>2. Typed(left, c, i, out) = Append(Append(v, Prompt), E)
    BY DEF Typed
  <2> HIDE DEF v, B, E
  <2>3. Append(v, Prompt) \in Seq(B)
    BY <2>1, AppendProperties
  <2> QED
    BY <2>2, <2>3
<1>11. Answer(c, out, i) = (W \o S) \o T
  BY DEF Answer
<1> HIDE DEF A, B, S, W, E, T, PE, Z
<1>12. /\ W \o S \in Seq(A) /\ (W \o S) \o T \in Seq(A)
       /\ left \o ((W \o S) \o T) \in Seq(A)
  <2>1. W \o S \in Seq(A)
    BY <1>4, ConcatProperties
  <2>2. (W \o S) \o T \in Seq(A)
    BY <1>5, <2>1, ConcatProperties
  <2> QED
    BY <1>4, <2>1, <2>2, ConcatProperties
<1>13. Same(left \o ((W \o S) \o (PE \o Z)), ((top \o S) \o PE) \o Z)
  <2>1. Same(left \o ((W \o S) \o (PE \o Z)), (((left \o W) \o S) \o PE) \o Z)
    BY <1>4, <1>5, FiveParts, Zenon
  <2> QED
    BY <2>1 DEF top, W
<1> QED
  BY <1>4, <1>5, <1>6, <1>9, <1>10, <1>11, <1>12, <1>13 DEF Same, A, B, E, Z

\* What is behind the cut is the end of the second list, and in front of it
\* stand the first list and the rest of the second.
CutOff(s, t, u, v) ==
  \E k \in 0..Len(v) : /\ Len(t) = Len(v) - k
                       /\ \A j \in 1..Len(t) : t[j] = v[k + j]
                       /\ s = u \o SubSeq(v, 1, k)

\* One text cut in two ways.
LEMMA Cut ==
  ASSUME NEW R, NEW s \in Seq(R), NEW t \in Seq(R), NEW u \in Seq(R), NEW v \in Seq(R),
         s \o t = u \o v, Len(u) <= Len(s)
  PROVE  CutOff(s, t, u, v)
<1> DEFINE a == Len(s)
           b == Len(t)
           c == Len(u)
           d == Len(v)
           w == s \o t
           x == u \o v
           k == a - c
<1>1. /\ a \in Nat /\ b \in Nat /\ c \in Nat /\ d \in Nat /\ c <= a
      /\ \A j \in 1..a : s[j] \in R
  BY ElementOfSeq
<1>2. /\ Len(w) = a + b /\ Len(x) = c + d /\ x = w
      /\ \A j \in 1..(a + b) : w[j] = IF j <= a THEN s[j] ELSE t[j - a]
      /\ \A j \in 1..(c + d) : x[j] = IF j <= c THEN u[j] ELSE v[j - c]
  <2>1. /\ Len(w) = a + b
        /\ \A j \in 1..a + b : w[j] = IF j <= a THEN s[j] ELSE t[j - a]
    BY ConcatProperties
  <2>2. /\ Len(x) = c + d
        /\ \A j \in 1..c + d : x[j] = IF j <= c THEN u[j] ELSE v[j - c]
    BY ConcatProperties
  <2> QED
    BY <2>1, <2>2
<1> HIDE DEF a, b, c, d, w, x
<1>3. a + b = c + d
  BY <1>2
<1>4. k \in 0..d /\ b = d - k /\ k \in Nat /\ c + k = a
  BY <1>1, <1>3
<1> HIDE DEF k
<1>5. ASSUME NEW j \in 1..b PROVE t[j] = v[k + j]
  <2> DEFINE n == a + j
  <2>1. n \in 1..(a + b) /\ n \in 1..(c + d) /\ ~(n <= a) /\ ~(n <= c)
        /\ n - a = j /\ n - c = k + j
    BY <1>1, <1>3, <1>4
  <2> HIDE DEF n
  <2> QED
    BY <1>2, <2>1
<1>6. s = u \o SubSeq(v, 1, k)
  <2> DEFINE p == SubSeq(v, 1, k)
             q == u \o p
  <2>1. p \in Seq(R) /\ Len(p) = k /\ \A j \in 1..k : p[j] = v[j]
    <3>1. \A j \in 1..k : v[j] \in R /\ 1 + j - 1 = j
      BY <1>1, <1>4, ElementOfSeq DEF d
    <3>2. /\ p \in Seq(R) /\ Len(p) = IF 1 <= k THEN k - 1 + 1 ELSE 0
          /\ \A j \in 1..(k - 1 + 1) : p[j] = v[1 + j - 1]
      BY <1>4, <3>1, SubSeqProperties
    <3>3. k - 1 + 1 = k /\ (IF 1 <= k THEN k ELSE 0) = k
      BY <1>4
    <3> HIDE DEF p
    <3> QED
      BY <3>1, <3>2, <3>3
  <2> HIDE DEF p
  <2>2. /\ q \in Seq(R) /\ Len(q) = c + k
        /\ \A j \in 1..(c + k) : q[j] = IF j <= c THEN u[j] ELSE p[j - c]
    <3>1. /\ q \in Seq(R) /\ Len(q) = Len(u) + Len(p)
          /\ \A j \in 1..Len(u) + Len(p) :
               q[j] = IF j <= Len(u) THEN u[j] ELSE p[j - Len(u)]
      BY <2>1, ConcatProperties
    <3> HIDE DEF q
    <3> QED
      BY <2>1, <3>1 DEF c
  <2> HIDE DEF q
  <2>3. ASSUME NEW j \in 1..a PROVE s[j] = q[j]
    <3>1. j \in 1..(a + b) /\ j \in 1..(c + d) /\ j \in 1..(c + k) /\ j <= a
      BY <1>1, <1>3, <1>4
    <3>2. ~(j <= c) => j - c \in 1..k
      BY <1>1, <1>4
    <3>3. s[j] = IF j <= c THEN u[j] ELSE v[j - c]
      BY <1>2, <3>1
    <3>4. q[j] = IF j <= c THEN u[j] ELSE v[j - c]
      BY <2>1, <2>2, <3>1, <3>2
    <3> QED
      BY <3>3, <3>4
  <2>4. Len(s) = Len(q) /\ \A j \in 1..Len(s) : s[j] = q[j]
    BY <1>4, <2>2, <2>3 DEF a
  <2>5. s = q
    BY <2>2, <2>4, SeqEqual
  <2> QED
    BY <2>5 DEF q, p
<1> QED
  BY <1>4, <1>5, <1>6 DEF CutOff, b, d

\* Once the marker is received, all that was ahead of it is, and what is left on
\* the way is ahead of the next command.
LEMMA CutAtMarker ==
  ASSUME NEW c, NEW i \in Nat \ {0}, NEW left \in Leftover(i),
         NEW out, out.lines \in Seq(Seq(Printed)),
         NEW text \in Seq(Atoms(c, i)), NEW rest \in Seq(Atoms(c, i)),
         text \o rest = left \o Answer(c, out, i),
         {EchoOf(i), Marker(i)} \cap ToSet(text) # {}
  PROVE  /\ Received(Atoms(c, i), Typed(left, c, i, out), text)
         /\ rest \in Leftover(i + 1)
<1> DEFINE A == Atoms(c, i)
           T == Typed(left, c, i, out)
           Z == Rest(i)
           E == EchoOf(i)
<1>1. /\ Same(left \o Answer(c, out, i), T \o Z) /\ Z \in Seq(A)
      /\ \E b \in Seq(Before(c, i)) : T = Append(b, E)
  <2>1. /\ Same(left \o Answer(c, out, i), Typed(left, c, i, out) \o Rest(i))
        /\ Rest(i) \in Seq(Atoms(c, i))
        /\ \E b \in Seq(Before(c, i)) : Typed(left, c, i, out) = Append(b, EchoOf(i))
    BY WholeIs, Zenon
  <2> QED
    BY <2>1
<1>2. PICK b \in Seq(Before(c, i)) : T = Append(b, E)
  BY <1>1
<1>3. text \o rest = T \o Z
  BY <1>1 DEF Same
<1>4. /\ b \in Seq(A) /\ E \in A /\ Nl \in A
  <2>1. Before(c, i) \subseteq A
    BY BeforeIs
  <2>2. E \in A /\ Nl \in A
    BY DEF Atoms
  <2> HIDE DEF A
  <2> QED
    BY <2>1, <2>2, SeqMonotonic
<1> DEFINE m == Len(b)
           n == Len(text)
<1>5. /\ T \in Seq(A) /\ Len(T) = m + 1 /\ m \in Nat /\ n \in Nat
      /\ \A j \in 1..m : T[j] = b[j]
  <2>1. Append(b, E) \in Seq(A) /\ Len(Append(b, E)) = m + 1 /\ m \in Nat
        /\ \A j \in 1..m : Append(b, E)[j] = b[j]
    <3> HIDE DEF A, E
    <3> QED
      BY <1>4, AppendProperties, LenProperties
  <2>2. n \in Nat
    BY LenProperties
  <2> HIDE DEF T, A, E
  <2> QED
    BY <1>2, <2>1, <2>2
<1> HIDE DEF A, T, Z, m, n
<1>6. text \in Seq(A) /\ rest \in Seq(A)
  BY DEF A
\* Nothing of what is ahead is a marker.
<1>7. Len(T) <= Len(text)
  <2>1. SUFFICES ASSUME n <= m PROVE FALSE
    BY <1>5 DEF n
  <2>2. PICK x \in {EchoOf(i), Marker(i)} : x \in ToSet(text)
    OBVIOUS
  <2>3. PICK j \in 1..n : text[j] = x
    <3>1. DOMAIN text = 1..n
      BY LenProperties DEF n
    <3> QED
      BY <2>2, <3>1 DEF ToSet
  <2>4. (text \o rest)[j] = text[j]
    <3>1. Len(rest) \in Nat /\ j \in 1..n + Len(rest) /\ j <= n
      BY <1>5, <1>6, LenProperties
    <3>2. \A l \in 1..n + Len(rest) :
            (text \o rest)[l] = IF l <= n THEN text[l] ELSE rest[l - n]
      BY <1>6, ConcatProperties DEF n
    <3> QED
      BY <3>1, <3>2
  <2>5. (T \o Z)[j] = T[j]
    <3>1. Len(Z) \in Nat /\ j \in 1..Len(T) + Len(Z) /\ j <= Len(T)
      BY <1>1, <1>5, <2>1, LenProperties DEF A
    <3>2. Z \in Seq(A)
      BY <1>1
    <3>3. \A l \in 1..Len(T) + Len(Z) :
            (T \o Z)[l] = IF l <= Len(T) THEN T[l] ELSE Z[l - Len(T)]
      BY <1>5, <3>2, ConcatProperties
    <3> QED
      BY <3>1, <3>3
  <2>6. j \in 1..m /\ T[j] = b[j]
    BY <1>5, <2>1
  <2>7. b[j] \in Before(c, i)
    BY <2>6, ElementOfSeq DEF m
  <2>8. x \in Before(c, i)
    BY <1>3, <2>3, <2>4, <2>5, <2>6, <2>7
  <2> QED
    BY <2>8, BeforeIs
<1>8. Z \in Seq(A) /\ Len(Z) = 4 /\ Z[1] = Nl
  <2>1. Len(Rest(i)) = 4 /\ Rest(i)[1] = Nl
    BY DEF Rest
  <2> QED
    BY <1>1, <2>1 DEF Z
<1>9. PICK k \in 0..Len(Z) : /\ Len(rest) = Len(Z) - k
                             /\ \A j \in 1..Len(rest) : rest[j] = Z[k + j]
                             /\ text = T \o SubSeq(Z, 1, k)
  <2>1. CutOff(text, rest, T, Z)
    BY <1>3, <1>5, <1>6, <1>7, <1>8, Cut, Zenon
  <2> QED
    BY <2>1 DEF CutOff
<1>10. k \in 0..4 /\ Len(rest) = 4 - k /\ \A j \in 1..(4 - k) : rest[j] = Z[k + j]
  BY <1>8, <1>9
<1>11. rest \in Leftover(i + 1)
  <2>1. \A j \in 1..(4 - k) : rest[j] = <<Nl, Marker(i), Nl, Prompt>>[k + j]
    BY <1>10 DEF Z, Rest
  <2>2. rest \in Tails(Nl, Marker(i), Nl, Prompt)
    BY <1>6, <1>10, <2>1, TailIs
  <2> QED
    BY <2>2, LeftoverIs
<1>12. Received(A, T, text)
  <2>1. CASE k = 0
    <3>1. SubSeq(Z, 1, k) = << >>
      BY <2>1, SubSeqEmpty
    <3>2. T \o << >> = T
      BY <1>5, ConcatEmptySeq
    <3> QED
      BY <1>9, <3>1, <3>2 DEF Received
  <2>2. CASE k # 0
    <3> DEFINE r == SubSeq(Z, 2, k)
               nl == <<Nl>>
    <3>1. SubSeq(Z, 1, k) = <<Z[1]>> \o SubSeq(Z, 1 + 1, k)
      <4>1. 1 \in 1..Len(Z) /\ k \in 1..Len(Z)
        BY <1>8, <1>10, <2>2
      <4> QED
        BY <1>8, <4>1, SubSeqRecursiveFirst
    <3>2. SubSeq(Z, 1, k) = nl \o r
      BY <1>8, <3>1
    <3>3. r \in Seq(A)
      <4>1. 2 \in Nat \ {0} /\ k \in Int /\ k <= Len(Z)
        BY <1>8, <1>10
      <4> QED
        BY <1>8, <4>1, PartOf
    <3>4. nl \in Seq(A)
      BY <1>4
    <3>5. Append(T, Nl) = T \o nl
      BY <1>4, <1>5, AppendIsConcat
    <3> HIDE DEF r, nl
    <3>6. Same((T \o nl) \o r, T \o (nl \o r))
      BY <1>5, <3>3, <3>4, ThreeParts, Zenon
    <3>7. text = Append(T, Nl) \o r
      BY <1>9, <3>2, <3>5, <3>6 DEF Same
    <3> QED
      BY <3>3, <3>7 DEF Received
  <2> QED
    BY <2>1, <2>2
<1> QED
  BY <1>11, <1>12 DEF A, T

-----------------------------------------------------------------------------
(* The steps of a run.                                                     *)

\* A list of whatever items.
IsList(s) == s \in Seq(ToSet(s))

\* It stays one when an item is appended.
LEMMA AppendList ==
  ASSUME NEW s, IsList(s), NEW e
  PROVE  /\ IsList(Append(s, e)) /\ Len(s) \in Nat /\ Len(Append(s, e)) = Len(s) + 1
         /\ \A j \in 1..Len(s) : Append(s, e)[j] = s[j]
         /\ Append(s, e)[Len(s) + 1] = e
<1> DEFINE R == ToSet(s) \cup {e}
<1>1. s \in Seq(R) /\ e \in R
  BY SeqMonotonic DEF IsList
<1> HIDE DEF R
<1>2. Append(s, e) \in Seq(R) /\ ToSet(Append(s, e)) = ToSet(s) \cup {e}
  BY <1>1, AppendItems
<1>3. IsList(Append(s, e))
  BY <1>2 DEF IsList, R
<1> QED
  BY <1>1, <1>3, AppendProperties, LenProperties

\* The commands of the notes are a list.
LEMMA ExtractIs ==
  ASSUME NEW notes \in Notes
  PROVE  IsList(Extract(notes))
<1> DEFINE N == 1..Len(notes)
           places == [i \in N |-> i]
           Texts(k) == [i \in DOMAIN k |-> notes[k[i]].text]
<1>1. Len(notes) \in Nat
  <2>1. notes \in Seq(ToSet(notes))
    BY NotesAssumption
  <2> QED
    BY <2>1, LenProperties
<1>2. places \in Seq(N)
  BY <1>1, IsASeq
<1>3. ASSUME NEW S PROVE IsList(Texts(Keep(places, S)))
  <2> DEFINE k == Keep(places, S)
             t == Texts(k)
  <2>1. k \in Seq(N)
    <3> HIDE DEF N, places
    <3> QED
      BY <1>2, KeepIs
  <2>2. Len(k) \in Nat /\ DOMAIN k = 1..Len(k)
    BY <2>1, LenProperties
  <2> HIDE DEF k
  <2>3. DOMAIN t = 1..Len(k) /\ \A i \in 1..Len(k) : t[i] \in ToSet(t)
    BY <2>2 DEF ToSet
  <2>4. t = [i \in 1..Len(k) |-> t[i]]
    BY <2>2
  <2> HIDE DEF t
  <2>5. [i \in 1..Len(k) |-> t[i]] \in Seq(ToSet(t))
    BY <2>2, <2>3, IsASeq
  <2>6. IsList(t)
    BY <2>4, <2>5 DEF IsList
  <2> QED
    BY <2>6 DEF t, k
<1> QED
  BY <1>3 DEF Extract

\* What of the answer to the command c, the output out, is received (b) and on the
\* way (w) in run i: no marker is received yet.
OnTheWay(c, i, out, b, w) ==
  \E left \in Leftover(i) :
    /\ b \in Seq(Atoms(c, i)) /\ w \in Seq(Atoms(c, i))
    /\ b \o w = left \o Answer(c, out, i)
    /\ {EchoOf(i), Marker(i)} \cap ToSet(b) = {}

\* So it is when the command has been answered.
LEMMA Answered ==
  ASSUME NEW c, NEW i \in Nat \ {0}, NEW left \in Leftover(i),
         NEW out, out.lines \in Seq(Seq(Printed))
  PROVE  OnTheWay(c, i, out, << >>, left \o Answer(c, out, i))
<1> DEFINE A == Atoms(c, i)
           w == left \o Answer(c, out, i)
<1>1. w \in Seq(A)
  BY WholeIs
<1>2. << >> \in Seq(A) /\ ToSet(<< >>) = {}
  BY EmptySeq DEF ToSet
<1>3. << >> \o w = w
  BY <1>1, ConcatAppend
<1> QED
  BY <1>1, <1>2, <1>3 DEF OnTheWay

\* What of the banner has not been received at the start is ahead of the first
\* command.
LEMMA BannerLeft ==
  ASSUME NEW n \in 0..Len(Banner)
  PROVE  SubSeq(Banner, n + 1, Len(Banner)) \in Leftover(1)
<1> DEFINE A == {Word("motd"), Nl, Prompt}
           b == Banner
           w == SubSeq(b, n + 1, 3)
           k == n + 1
<1>1. b \in Seq(A) /\ Len(b) = 3 /\ n \in 0..3
  BY DEF Banner
<1>2. w \in Seq(A) /\ Len(w) = 3 - n /\ \A j \in 1..(3 - n) : w[j] = b[n + j]
  <2>1. \A j \in 1..3 : b[j] \in A
    BY <1>1, SMTT(30)
  <2> HIDE DEF A, b
  <2>2. /\ w \in Seq(A) /\ Len(w) = IF n + 1 <= 3 THEN 3 - (n + 1) + 1 ELSE 0
        /\ \A j \in 1..(3 - (n + 1) + 1) : w[j] = b[n + 1 + j - 1]
    BY <1>1, <2>1, SubSeqProperties
  <2> HIDE DEF w
  <2> QED
    BY <1>1, <2>2
<1>3. \A j \in 1..(3 - n) : b[n + j] = <<Nl, Word("motd"), Nl, Prompt>>[k + j]
  BY <1>1 DEF Banner
<1> HIDE DEF A, b, w
<1>4. k \in 0..4 /\ 4 - k = 3 - n
  BY <1>1
<1>5. w \in Tails(Nl, Word("motd"), Nl, Prompt)
  <2>1. Len(w) = 4 - k /\ \A j \in 1..(4 - k) : w[j] = <<Nl, Word("motd"), Nl, Prompt>>[k + j]
    BY <1>2, <1>3, <1>4
  <2> HIDE DEF k
  <2> QED
    BY <1>2, <1>4, <2>1, TailIs
<1>6. w # <<Nl, Word("motd"), Nl, Prompt>>
  <2>1. Len(w) # 4
    BY <1>1, <1>2
  <2>2. Len(<<Nl, Word("motd"), Nl, Prompt>>) = 4
    OBVIOUS
  <2> QED
    BY <2>1, <2>2
<1>7. w \in Leftover(1)
  BY <1>5, <1>6, LeftoverIs
<1> QED
  BY <1>1, <1>7 DEF w, b

\* What is received moves from one to the other.
LEMMA Moves ==
  ASSUME NEW A, NEW b \in Seq(A), NEW w \in Seq(A), NEW n \in 1..Len(w)
  PROVE  /\ Same((b \o SubSeq(w, 1, n)) \o SubSeq(w, n + 1, Len(w)), b \o w)
         /\ b \o SubSeq(w, 1, n) \in Seq(A) /\ SubSeq(w, n + 1, Len(w)) \in Seq(A)
<1> DEFINE m == Len(w)
           x == SubSeq(w, 1, n)
           y == SubSeq(w, n + 1, m)
<1>1. m \in Nat /\ n \in 1..m
  BY LenProperties
<1>2. x \in Seq(A) /\ y \in Seq(A)
  <2>1. /\ 1 \in Nat \ {0} /\ n + 1 \in Nat \ {0}
        /\ n \in Int /\ m \in Int /\ n <= m /\ m <= m
    BY <1>1
  <2> QED
    BY <2>1, PartOf
<1>3. x \o y = w
  <2>1. x \o y = SubSeq(w, 1, m)
    <3>1. 1 \in 1..(m + 1) /\ n \in (1 - 1)..m /\ m \in n..m
      BY <1>1
    <3> QED
      BY <3>1, ConcatAdjacentSubSeq
  <2>2. SubSeq(w, 1, m) = w
    BY SubSeqFull
  <2> QED
    BY <2>1, <2>2
<1> HIDE DEF x, y
<1>4. Same((b \o x) \o y, b \o (x \o y))
  BY <1>2, ThreeParts, Zenon
<1>5. b \o x \in Seq(A)
  BY <1>2, ConcatProperties
<1> QED
  BY <1>2, <1>3, <1>4, <1>5 DEF Same, x, y, m

\* What run i finds in text, for the command c whose output is out.
HoldsOutput(c, i, out, found) ==
  /\ Ends(found)
  /\ (anchored \/ out.ended) /\ <<Word(c)>> \notin ToSet(out.lines) =>
       WithAbove(c, i, out, found)

\* With the marker the output is received, and the rest of the answer is ahead of
\* the next command; without it the run goes on.
LEMMA Arrives ==
  ASSUME NEW c, NEW i \in Nat \ {0}, NEW out, out.lines \in Seq(Seq(Printed)),
         NEW b, NEW w, OnTheWay(c, i, out, b, w), NEW n \in 1..Len(w),
         NEW text, text = b \o SubSeq(w, 1, n),
         NEW rest, rest = SubSeq(w, n + 1, Len(w))
  PROVE  IF {EchoOf(i), Marker(i)} \cap ToSet(text) = {}
         THEN OnTheWay(c, i, out, text, rest)
         ELSE rest \in Leftover(i + 1) /\ HoldsOutput(c, i, out, FindOutput(c, i, text))
<1> DEFINE A == Atoms(c, i)
           P(left) == /\ left \in Leftover(i)
                      /\ b \in Seq(A) /\ w \in Seq(A)
                      /\ b \o w = left \o Answer(c, out, i)
<1>1. PICK left : P(left)
  BY DEF OnTheWay
<1>2. /\ text \in Seq(A) /\ rest \in Seq(A)
      /\ text \o rest = left \o Answer(c, out, i)
  <2>1. b \in Seq(A) /\ w \in Seq(A) /\ b \o w = left \o Answer(c, out, i)
    BY <1>1
  <2> HIDE DEF A
  <2>2. /\ Same((b \o SubSeq(w, 1, n)) \o SubSeq(w, n + 1, Len(w)), b \o w)
        /\ b \o SubSeq(w, 1, n) \in Seq(A) /\ SubSeq(w, n + 1, Len(w)) \in Seq(A)
    BY <2>1, Moves, Zenon
  <2> QED
    BY <2>1, <2>2 DEF Same
<1>3. left \in Leftover(i)
  BY <1>1
<1>4. CASE {EchoOf(i), Marker(i)} \cap ToSet(text) = {}
  BY <1>2, <1>3, <1>4 DEF OnTheWay
<1>5. CASE {EchoOf(i), Marker(i)} \cap ToSet(text) # {}
  <2>1. /\ Received(A, Typed(left, c, i, out), text)
        /\ rest \in Leftover(i + 1)
    BY <1>2, <1>3, <1>5, CutAtMarker, Zenon
  <2>2. Ends(FindOutput(c, i, text))
    <3>1. Nl \in A
      BY DEF Atoms
    <3> HIDE DEF A
    <3> QED
      BY <1>2, <3>1, FoundLines
  <2>3. ASSUME anchored \/ out.ended, <<Word(c)>> \notin ToSet(out.lines)
        PROVE  WithAbove(c, i, out, FindOutput(c, i, text))
    BY <1>3, <2>1, <2>3, FoundIs, Zenon
  <2> QED
    BY <1>5, <2>1, <2>2, <2>3 DEF HoldsOutput
<1> QED
  BY <1>4, <1>5

-----------------------------------------------------------------------------
(* The invariant.                                                          *)

\* A result is of the output of its command, and the verdict is the comparison's.
Holds(r, i) ==
  /\ r.ok = Matches(commands[i], outputs[i].real.lines, r.lines)
  /\ HoldsOutput(commands[i], i, outputs[i].pot, r.lines)

\* Commands and results are lists, there is a result for each of the first commands.
Lists ==
  /\ IsList(commands) /\ IsList(results) /\ Len(results) <= Len(commands)
  /\ outputs \in [DOMAIN commands -> Outputs]
  /\ phase \in {"start", "ready", "waiting", "exit 0", "exit 1", "raised"}
  /\ anchored \in BOOLEAN /\ late \in BOOLEAN

\* Between two runs nothing is received, and what is on the way is left of the run
\* before; during a run the way holds what is left and the answer.
Way ==
  /\ phase = "start" => results = << >> /\ buffer = << >>
  /\ phase = "ready" => buffer = << >> /\ wire \in Leftover(Index)
  /\ phase = "waiting" =>
       /\ Index <= Len(commands)
       /\ OnTheWay(commands[Index], Index, outputs[Index].pot, buffer, wire)

\* Every result is right, and success is only reported when all are there.
Right ==
  /\ \A i \in 1..Len(results) : Holds(results[i], i)
  /\ phase = "exit 0" => /\ Len(results) = Len(commands)
                         /\ \A i \in 1..Len(results) : results[i].ok

Inv == Lists /\ Way /\ Right

\* What the commands print are lists of lines of words.
LEMMA OutputIs ==
  ASSUME NEW o \in Outputs
  PROVE  /\ o.pot.lines \in Seq(Seq(Printed)) /\ o.real.lines \in Seq(Seq(Printed))
         /\ \A a \in Printed : a.k \in {"word", "complaint", "quoted", "exported"}
<1>1. /\ o.pot.lines \in Seq(Printable) /\ o.real.lines \in Seq(Printable)
      /\ Printable \subseteq Seq(Printed) /\ \A a \in Printed : a.k \in {"word", "complaint", "quoted", "exported"}
  BY OutputsAssumption
<1> QED
  BY <1>1, SeqMonotonic

\* At the start nothing is on the way and nothing was run.
LEMMA InitInv ==
  ASSUME Init
  PROVE  Inv
<1>1. IsList(commands)
  BY ExtractIs DEF Init
<1>2. Len(commands) \in Nat
  BY <1>1, LenProperties DEF IsList
<1>3. IsList(results) /\ Len(results) = 0
  BY EmptySeq DEF Init, IsList, ToSet
<1>4. Lists
  <2>1. outputs \in [DOMAIN commands -> Outputs]
    BY DEF Init
  <2>2. phase = "start" /\ anchored = FALSE /\ late = FALSE
    BY DEF Init
  <2>3. Len(results) <= Len(commands)
    BY <1>2, <1>3
  <2> QED
    BY <1>1, <1>3, <2>1, <2>2, <2>3 DEF Lists
<1>5. Way
  BY DEF Init, Way
<1>6. Right
  BY <1>3 DEF Init, Right
<1> QED
  BY <1>4, <1>5, <1>6 DEF Inv

\* Nothing is right or wrong of what does not change.
LEMMA RightStays ==
  ASSUME Right, UNCHANGED <<commands, outputs, anchored, results>>, phase' # "exit 0"
  PROVE  Right'
BY DEF Right, Holds, HoldsOutput, WithAbove

\* The shell is opened.
LEMMA OpenInv ==
  ASSUME Inv, Open
  PROVE  Inv'
<1>1. results' = << >> /\ Len(results') = 0
  BY DEF Inv, Way, Open
<1>2. Lists'
  BY DEF Inv, Lists, Open
<1>3. CASE phase' = "raised"
  <2>1. Way'
    BY <1>3 DEF Way
  <2>2. Right'
    BY <1>1, <1>3 DEF Right
  <2> QED
    BY <1>2, <2>1, <2>2 DEF Inv
<1>4. CASE phase' # "raised"
  <2>1. PICK n \in 0..Len(Banner) : wire' = SubSeq(Banner, n + 1, Len(Banner))
    BY <1>4 DEF Open
  <2>2. wire' \in Leftover(1)
    BY <2>1, BannerLeft
  <2>3. phase' = "ready" /\ buffer' = << >>
    BY <1>4 DEF Open, Inv, Way
  <2>4. Index' = 1
    BY <1>1 DEF Index
  <2>5. Way'
    BY <2>2, <2>3, <2>4 DEF Way
  <2>6. Right'
    BY <1>1, <2>3 DEF Right
  <2> QED
    BY <1>2, <2>5, <2>6 DEF Inv
<1> QED
  BY <1>3, <1>4

\* A command is typed.
LEMMA RunInv ==
  ASSUME Inv, Run
  PROVE  Inv'
<1> DEFINE i == Index
           c == commands[i]
           out == outputs[i].pot
<1>1. Len(results) \in Nat /\ Len(commands) \in Nat /\ DOMAIN commands = 1..Len(commands)
  BY LenProperties DEF Inv, Lists, IsList
<1>2. i \in Nat \ {0} /\ i \in DOMAIN commands
  BY <1>1 DEF Index, Run
<1>3. out.lines \in Seq(Seq(Printed))
  BY <1>2, OutputIs DEF Inv, Lists
<1>4. wire \in Leftover(i) /\ buffer = << >>
  BY DEF Run, Inv, Way
<1> HIDE DEF i, c, out
<1>5. OnTheWay(c, i, out, << >>, wire \o Answer(c, out, i))
  BY <1>2, <1>3, <1>4, Answered
<1>6. /\ Index' = i /\ commands' = commands /\ outputs' = outputs /\ buffer' = buffer
      /\ results' = results /\ phase' = "waiting" /\ anchored' = anchored /\ late' = FALSE
      /\ wire' = wire \o Answer(c, out, i) /\ i <= Len(commands)
  BY DEF Run, Index, MarkerOf, i, c, out
<1>7. Lists'
  BY <1>6 DEF Inv, Lists
<1>8. Way'
  BY <1>4, <1>5, <1>6 DEF Way, c, out
<1>9. Right'
  BY <1>6, RightStays DEF Inv
<1> QED
  BY <1>7, <1>8, <1>9 DEF Inv

\* What comes is received, and with the marker the output is compared.
LEMMA ReceiveInv ==
  ASSUME Inv, Receive
  PROVE  Inv'
<1> DEFINE i == Index
           c == commands[i]
           out == outputs[i].pot
<1>1. Len(results) \in Nat /\ Len(commands) \in Nat /\ DOMAIN commands = 1..Len(commands)
  BY LenProperties DEF Inv, Lists, IsList
<1>2. i \in Nat \ {0} /\ i <= Len(commands) /\ i \in DOMAIN commands
  BY <1>1 DEF Index, Receive, Inv, Way
<1>3. out.lines \in Seq(Seq(Printed))
  BY <1>2, OutputIs DEF Inv, Lists
<1>4. OnTheWay(c, i, out, buffer, wire)
  BY DEF Receive, Inv, Way
<1>5. /\ commands' = commands /\ outputs' = outputs /\ anchored' = anchored /\ late' = late
  BY DEF Receive
<1> DEFINE Marked(t) == {EchoOf(i), Marker(i)} \cap ToSet(t) # {}
           Text(n) == buffer \o SubSeq(wire, 1, n)
           Rest2(n) == SubSeq(wire, n + 1, Len(wire))
           Found(t) == FindOutput(c, i, t)
           Result(t) == [lines |-> Found(t), ok |-> Matches(c, outputs[i].real.lines, Found(t))]
<1>6. PICK n \in 1..Len(wire) :
        /\ wire' = Rest2(n)
        /\ IF Marked(Text(n)) THEN Compared(Text(n))
           ELSE buffer' = Text(n) /\ UNCHANGED <<results, phase>>
  BY DEF Receive, MarkerOf
<1> DEFINE text == Text(n)
           rest == Rest2(n)
           new == Result(text)
<1>7. /\ wire' = rest
      /\ Marked(text) => /\ results' = Append(results, new)
                         /\ phase' = "ready" /\ buffer' = << >>
      /\ ~Marked(text) => buffer' = text /\ results' = results /\ phase' = phase
  BY <1>6 DEF Compared, MarkerOf
<1>8. phase = "waiting"
  BY DEF Receive
<1>9. IF ~Marked(text) THEN OnTheWay(c, i, out, text, rest)
      ELSE rest \in Leftover(i + 1) /\ HoldsOutput(c, i, out, FindOutput(c, i, text))
  <2> DEFINE t == text
             r == rest
  <2>1. n \in 1..Len(wire) /\ t = buffer \o SubSeq(wire, 1, n)
        /\ r = SubSeq(wire, n + 1, Len(wire))
    BY <1>6
  <2> HIDE DEF i, c, out, text, rest, t, r
  <2>2. IF {EchoOf(i), Marker(i)} \cap ToSet(t) = {}
        THEN OnTheWay(c, i, out, t, r)
        ELSE r \in Leftover(i + 1) /\ HoldsOutput(c, i, out, FindOutput(c, i, t))
    BY <1>2, <1>3, <1>4, <2>1, Arrives, Zenon
  <2> QED
    BY <2>2 DEF t, r
<1>10. CASE ~Marked(text)
  <2>1. /\ Index' = i /\ phase' = "waiting" /\ buffer' = text /\ results' = results
        /\ OnTheWay(c, i, out, text, rest)
    BY <1>7, <1>8, <1>9, <1>10 DEF Index
  <2>2. Lists'
    BY <1>5, <2>1 DEF Inv, Lists
  <2>3. Way'
    <3> HIDE DEF text, rest
    <3> QED
      BY <1>2, <1>5, <1>7, <2>1 DEF Way
  <2>4. Right'
    BY <1>5, <2>1, RightStays DEF Inv
  <2> QED
    BY <2>2, <2>3, <2>4 DEF Inv
<1>11. CASE Marked(text)
  <2>1. /\ results' = Append(results, new) /\ phase' = "ready" /\ buffer' = << >>
        /\ rest \in Leftover(i + 1) /\ HoldsOutput(c, i, out, new.lines)
        /\ new.ok = Matches(c, outputs[i].real.lines, new.lines)
    BY <1>7, <1>9, <1>11
  <2> HIDE DEF new, rest, text, Marked
  <2>2. IsList(results)
    BY DEF Inv, Lists
  <2>3. /\ IsList(Append(results, new))
        /\ Len(Append(results, new)) = Len(results) + 1
        /\ \A j \in 1..Len(results) : Append(results, new)[j] = results[j]
        /\ Append(results, new)[Len(results) + 1] = new
    BY <2>2, AppendList
  <2>4. /\ IsList(results') /\ Len(results') = i /\ Index' = i + 1
        /\ \A j \in 1..Len(results) : results'[j] = results[j]
        /\ results'[i] = new /\ i = Len(results) + 1
    BY <2>1, <2>3 DEF Index
  <2> HIDE DEF i, c, out
  <2>5. Lists'
    BY <1>2, <1>5, <2>1, <2>4 DEF Inv, Lists
  <2>6. Way'
    BY <1>7, <2>1, <2>4 DEF Way
  <2>7. ASSUME NEW j \in 1..Len(results') PROVE Holds(results[j], j)'
    <3>1. CASE j = i
      BY <1>5, <2>1, <2>4, <3>1 DEF Holds, HoldsOutput, WithAbove, c, out
    <3>2. CASE j # i
      <4>1. j \in 1..Len(results)
        BY <1>1, <2>4, <3>2
      <4>2. Holds(results[j], j)
        BY <4>1 DEF Inv, Right
      <4> QED
        BY <1>5, <2>4, <4>1, <4>2 DEF Holds, HoldsOutput, WithAbove
    <3> QED
      BY <3>1, <3>2
  <2>8. Right'
    BY <2>1, <2>7 DEF Right
  <2> QED
    BY <2>5, <2>6, <2>8 DEF Inv
<1> QED
  BY <1>10, <1>11

\* The program ends, all of its results right or not.
LEMMA FinishInv ==
  ASSUME Inv, Finish
  PROVE  Inv'
<1>1. Len(results) \in Nat /\ Len(commands) \in Nat /\ DOMAIN results = 1..Len(results)
  BY LenProperties DEF Inv, Lists, IsList
<1>2. Len(results) = Len(commands)
  <2>1. Len(results) <= Len(commands)
    BY DEF Inv, Lists
  <2>2. Len(results) + 1 > Len(commands)
    BY DEF Finish, Index
  <2> DEFINE m == Len(results)
             n == Len(commands)
  <2>3. m \in Nat /\ n \in Nat /\ m <= n /\ m + 1 > n
    BY <1>1, <2>1, <2>2
  <2> HIDE DEF m, n
  <2>4. m = n
    BY <2>3
  <2> QED
    BY <2>4 DEF m, n
<1>3. Lists'
  <2>1. /\ phase' \in {"exit 0", "exit 1"}
        /\ UNCHANGED <<commands, outputs, anchored, wire, buffer, late, results>>
    BY DEF Finish
  <2> QED
    BY <2>1 DEF Inv, Lists
<1>4. Way'
  BY DEF Finish, Way
<1>5. \A j \in 1..Len(results') : Holds(results[j], j)'
  BY DEF Inv, Right, Holds, HoldsOutput, WithAbove, Finish
<1>6. phase' = "exit 0" => \A j \in 1..Len(results) : results[j].ok
  BY <1>1 DEF Finish
<1>7. Right'
  BY <1>2, <1>5, <1>6 DEF Right, Finish
<1> QED
  BY <1>3, <1>4, <1>7 DEF Inv

\* Time passes.
LEMMA OverInv ==
  ASSUME Inv, Deadline \/ TimedOut \/ UNCHANGED vars
  PROVE  Inv'
<1>1. CASE Deadline
  <2>1. Lists'
    BY <1>1 DEF Inv, Lists, Deadline
  <2>2. Way'
    BY <1>1 DEF Inv, Way, Deadline, Index
  <2>3. Right'
    BY <1>1, RightStays DEF Inv, Deadline
  <2> QED
    BY <2>1, <2>2, <2>3 DEF Inv
<1>2. CASE TimedOut
  <2>1. Lists'
    BY <1>2 DEF Inv, Lists, TimedOut, GiveUp
  <2>2. Way'
    BY <1>2 DEF Inv, Way, TimedOut, GiveUp
  <2>3. Right'
    BY <1>2, RightStays DEF Inv, TimedOut, GiveUp
  <2> QED
    BY <2>1, <2>2, <2>3 DEF Inv
<1>3. CASE UNCHANGED vars
  BY <1>3 DEF Inv, Lists, Way, Right, Holds, HoldsOutput, WithAbove, Index, vars
<1> QED
  BY <1>1, <1>2, <1>3

\* The invariant holds throughout.
LEMMA InvHolds == Spec => []Inv
<1>1. Init => Inv
  BY InitInv
<1>2. Inv /\ [Next]_vars => Inv'
  BY OpenInv, RunInv, ReceiveInv, FinishInv, OverInv DEF Next
<1> QED
  BY <1>1, <1>2, PTL DEF Spec

-----------------------------------------------------------------------------
(* What is found.                                                          *)

\* stray, what is left of the lines above, is in front of the output; if there is
\* any of it, it has the typed command behind its prompt.
Behind(c, i, out, found, stray) ==
  /\ stray \in Seq(AboveLines(c, i)) /\ found = stray \o StripLines(out.lines)
  /\ stray # << >> => <<Prompt, Word(c)>> \in ToSet(stray)

LEMMA FoundHas ==
  ASSUME NEW c, NEW i \in Nat \ {0}, NEW out, out.lines \in Seq(Seq(Printed)),
         NEW found, WithAbove(c, i, out, found)
  PROVE  \E stray : Behind(c, i, out, found, stray)
<1> DEFINE ls == out.lines
           R == AboveLines(c, i) \cup Seq(Printed)
           p == <<Prompt, Word(c)>>
<1>1. PICK above : above \in Above(c, i) /\ found = StripLines(above \o ls)
  BY DEF WithAbove
<1>2. /\ above \in Seq(AboveLines(c, i))
      /\ above # << >> => p \in ToSet(above)
      /\ ToSet(above) \subseteq AboveLines(c, i) /\ << >> \in AboveLines(c, i)
  <2>1. /\ above \in Seq(AboveLines(c, i))
        /\ above # << >> => p \in ToSet(above)
    BY <1>1, AboveIs
  <2>2. << >> \in AboveLines(c, i)
    BY DEF AboveLines
  <2>3. ToSet(above) \subseteq AboveLines(c, i)
    <3>1. DOMAIN above = 1..Len(above) /\ \A j \in 1..Len(above) : above[j] \in AboveLines(c, i)
      BY <2>1, ElementOfSeq, LenProperties
    <3> QED
      BY <3>1 DEF ToSet
  <2> QED
    BY <2>1, <2>2, <2>3
<1>3. above \in Seq(R) /\ ls \in Seq(R)
  BY <1>2, SeqMonotonic
<1>4. CASE above = << >>
  <2>1. above \o ls = ls
    BY <1>3, <1>4, ConcatAppend
  <2>2. StripLines(ls) \in Seq(R)
    BY <1>3, Stripped
  <2> HIDE DEF R
  <2>3. << >> \o StripLines(ls) = StripLines(ls)
    BY <2>2, ConcatAppend
  <2>4. << >> \in Seq(AboveLines(c, i))
    BY EmptySeq
  <2>5. Behind(c, i, out, found, << >>)
    BY <1>1, <2>1, <2>3, <2>4 DEF Behind
  <2> QED
    BY <2>5
<1>5. CASE above # << >>
  <2> HIDE DEF R, ls, p
  <2>1. PICK stray : /\ stray \in Seq(R) /\ StrayOf(stray, above)
                     /\ StripLines(above \o ls) = stray \o StripLines(ls)
    <3>1. StrayFirst(R, above, ls)
      BY <1>3, StripBehind, Zenon
    <3> QED
      BY <3>1 DEF StrayFirst
  <2>2. ToSet(stray) \subseteq AboveLines(c, i)
    BY <1>2, <2>1 DEF StrayOf
  <2>3. stray \in Seq(AboveLines(c, i))
    <3>1. Len(stray) \in Nat /\ \A j \in 1..Len(stray) : stray[j] \in ToSet(stray)
      BY <2>1, LenProperties DEF ToSet
    <3>2. stray = [j \in 1..Len(stray) |-> stray[j]]
      BY <2>1, LenProperties
    <3>3. \A j \in 1..Len(stray) : stray[j] \in AboveLines(c, i)
      BY <2>2, <3>1
    <3>4. [j \in 1..Len(stray) |-> stray[j]] \in Seq(AboveLines(c, i))
      BY <3>1, <3>3, IsASeq
    <3> QED
      BY <3>2, <3>4
  <2>4. p # << >>
    BY DEF p
  <2>5. p \in ToSet(stray)
    BY <1>2, <1>5, <2>1, <2>4 DEF StrayOf
  <2>6. Behind(c, i, out, found, stray)
    BY <1>1, <2>1, <2>3, <2>5 DEF Behind, p, ls
  <2> QED
    BY <2>6
<1> QED
  BY <1>4, <1>5

\* The letters of the lines above.
LEMMA AboveLetters ==
  ASSUME NEW c, NEW i \in Nat \ {0}, NEW l \in AboveLines(c, i)
  PROVE  ToSet(l) \subseteq {Marker(i - 1), Prompt, Word(c)}
                              \cup IF i = 1 THEN ToSet(Banner) ELSE {}
<1>1. /\ ToSet(<< >>) = {} /\ ToSet(<<Marker(i - 1)>>) = {Marker(i - 1)}
      /\ ToSet(<<Prompt, Word(c)>>) = {Prompt, Word(c)}
      /\ ToSet(<<Word("motd")>>) = {Word("motd")}
  <2>1. \A x, y : ToSet(<<x>>) = {x} /\ ToSet(<<x, y>>) = {x, y}
    BY DEF ToSet
  <2>2. ToSet(<< >>) = {}
    BY DEF ToSet
  <2> QED
    BY <2>1, <2>2
<1>2. Word("motd") \in ToSet(Banner)
  <2>1. Banner[1] = Word("motd") /\ 1 \in DOMAIN Banner
    BY DEF Banner
  <2> QED
    BY <2>1 DEF ToSet
<1> QED
  BY <1>1, <1>2 DEF AboveLines

\* Every variable has a value the code can give it; what was found has no blank
\* line at either end (run() strips it, whatever the screen).
THEOREM TypesRight == Spec => []TypeOK
<1>1. Inv => TypeOK
  <2> SUFFICES ASSUME Inv PROVE TypeOK
    OBVIOUS
  <2>1. /\ IsList(results) /\ Len(results) <= Len(commands)
        /\ outputs \in [DOMAIN commands -> Outputs]
        /\ phase \in {"start", "ready", "waiting", "exit 0", "exit 1", "raised"}
        /\ anchored \in BOOLEAN /\ late \in BOOLEAN
    BY DEF Inv, Lists
  <2>2. DOMAIN results = 1..Len(results)
    BY <2>1, LenProperties DEF IsList
  <2>3. \A i \in 1..Len(results) : results[i].ok \in BOOLEAN /\ Ends(results[i].lines)
    BY DEF Inv, Right, Holds, HoldsOutput, Matches
  <2> QED
    BY <2>1, <2>2, <2>3 DEF TypeOK, Ends
<1> QED
  BY <1>1, InvHolds, PTL

\* What is known of a result whose output can be told from the screen.
LEMMA ResultIs ==
  ASSUME Inv, NEW i \in DOMAIN results,
         anchored \/ outputs[i].pot.ended, Distinct(i)
  PROVE  /\ i \in Nat \ {0} /\ i \in 1..Len(results) /\ outputs[i] \in Outputs
         /\ Ends(results[i].lines)
         /\ results[i].ok = Matches(commands[i], outputs[i].real.lines, results[i].lines)
         /\ \E stray : Behind(commands[i], i, outputs[i].pot, results[i].lines, stray)
<1>1. /\ DOMAIN results = 1..Len(results) /\ DOMAIN commands = 1..Len(commands)
      /\ Len(results) \in Nat /\ Len(commands) \in Nat
  BY LenProperties DEF Inv, Lists, IsList
<1>2. i \in Nat \ {0} /\ i \in 1..Len(results) /\ i \in DOMAIN commands
  <2> DEFINE m == Len(results)
             n == Len(commands)
  <2>1. m \in Nat /\ n \in Nat /\ m <= n /\ i \in 1..m
    BY <1>1 DEF Inv, Lists
  <2> HIDE DEF m, n
  <2>2. i \in Nat \ {0} /\ i \in 1..m /\ i \in 1..n
    BY <2>1
  <2> QED
    BY <1>1, <2>2 DEF m, n
<1>3. Holds(results[i], i)
  BY <1>2 DEF Inv, Right
<1> DEFINE c == commands[i]
           out == outputs[i].pot
           found == results[i].lines
<1>4. /\ Ends(found) /\ WithAbove(c, i, out, found)
      /\ results[i].ok = Matches(c, outputs[i].real.lines, found)
  BY <1>3 DEF Holds, HoldsOutput, Distinct
<1>5. outputs[i] \in Outputs
  BY <1>2 DEF Inv, Lists
<1>6. out.lines \in Seq(Seq(Printed))
  BY <1>5, OutputIs
<1> HIDE DEF c, out, found
<1>7. \E stray : Behind(c, i, out, found, stray)
  BY <1>2, <1>4, <1>6, FoundHas, Zenon
<1> QED
  BY <1>2, <1>4, <1>5, <1>7 DEF c, out, found

\* Each command is given the output it had, all of it, and nothing of another's:
\* what run() cuts off the screen ends with it, and begins with no more than the
\* shell's own lines.
THEOREM ResultsHold == Spec => []ResultHoldsOutput
<1>1. Inv => ResultHoldsOutput
  <2> SUFFICES ASSUME Inv, NEW i \in DOMAIN results,
                      anchored \/ outputs[i].pot.ended, Distinct(i)
               PROVE  LET found == results[i].lines
                          out   == StripLines(outputs[i].pot.lines)
                          stray == SubSeq(found, 1, Len(found) - Len(out))
                          before == {Marker(i - 1), Prompt, Word(commands[i])}
                                      \cup IF i = 1 THEN ToSet(Banner) ELSE {}
                      IN IsSuffix(out, found) /\ \A l \in ToSet(stray) : ToSet(l) \subseteq before
    BY DEF ResultHoldsOutput
  <2> DEFINE c == commands[i]
             pot == outputs[i].pot
             found == results[i].lines
             out == StripLines(pot.lines)
             R == AboveLines(c, i) \cup Seq(Printed)
             before == {Marker(i - 1), Prompt, Word(c)}
                         \cup IF i = 1 THEN ToSet(Banner) ELSE {}
  <2>1. i \in Nat \ {0} /\ outputs[i] \in Outputs /\ \E stray : Behind(c, i, pot, found, stray)
    BY ResultIs
  <2>2. PICK stray : Behind(c, i, pot, found, stray)
    BY <2>1
  <2>3. stray \in Seq(AboveLines(c, i)) /\ found = stray \o out
    BY <2>2 DEF Behind
  <2>4. stray \in Seq(R) /\ out \in Seq(R)
    <3>1. pot.lines \in Seq(R)
      BY <2>1, OutputIs, SeqMonotonic
    <3> HIDE DEF R
    <3>2. out \in Seq(R)
      BY <3>1, Stripped
    <3> QED
      BY <2>3, <3>2, SeqMonotonic DEF R
  <2> HIDE DEF R, out, found, pot, c, before
  <2>5. IsSuffix(out, found) /\ SubSeq(found, 1, Len(found) - Len(out)) = stray
    BY <2>3, <2>4, SuffixIs
  <2>6. ASSUME NEW l \in ToSet(stray) PROVE ToSet(l) \subseteq before
    <3>1. l \in AboveLines(c, i)
      BY <2>3, ElementOfSeq, LenProperties DEF ToSet
    <3> QED
      BY <2>1, <3>1, AboveLetters DEF before
  <2> QED
    BY <2>5, <2>6 DEF out, found, pot, c, before
<1> QED
  BY <1>1, InvHolds, PTL

-----------------------------------------------------------------------------
(* The comparison.                                                         *)

\* Without blank lines at the end an output is as it was.
LEMMA NormalizeIs ==
  ASSUME NEW R, NEW ls \in Seq(R)
  PROVE  /\ NormalizeOutput(ls) \in Seq(R)
         /\ Ends(ls) => NormalizeOutput(ls) = ls
<1> DEFINE n == Len(ls)
           I == {j \in 1..n : ls[j] # << >>}
           last == IF I # {} THEN Max(I) ELSE 0
<1>1. n \in Nat /\ I \subseteq 1..n /\ I \subseteq Nat
  BY LenProperties
<1>2. SelectLastInSeq(ls, LAMBDA l : l # << >>) = last
  BY DEF SelectLastInSeq
<1>3. NormalizeOutput(ls) = SubSeq(ls, 1, last)
  BY <1>2 DEF NormalizeOutput
<1>4. last \in 0..n
  <2> HIDE DEF I, n
  <2> QED
    BY <1>1, Indices
<1>5. SubSeq(ls, 1, last) \in Seq(R)
  <2>1. 1 \in Nat \ {0} /\ last \in Int /\ last <= Len(ls)
    BY <1>1, <1>4
  <2> HIDE DEF last
  <2> QED
    BY <2>1, PartOf
<1>6. ASSUME Ends(ls) PROVE last = n
  <2>1. CASE ls = << >>
    <3>1. n = 0 /\ I = {}
      BY <2>1
    <3> QED
      BY <3>1
  <2>2. CASE ls # << >>
    <3>1. n \in 1..n /\ ls[n] # << >>
      <4>1. n # 0
        BY <2>2, EmptySeq
      <4> QED
        BY <1>1, <1>6, <2>2, <4>1 DEF Ends, Last
    <3>2. n \in I /\ \A y \in I : n >= y
      BY <1>1, <3>1
    <3> HIDE DEF I, n
    <3> QED
      BY <1>1, <3>2, MinMaxAre
  <2> QED
    BY <2>1, <2>2
<1>7. SubSeq(ls, 1, n) = ls
  BY SubSeqFull
<1> HIDE DEF last
<1> QED
  BY <1>3, <1>5, <1>6, <1>7

\* Lines about the syntax, these as they are compared, and another line.
Complaints(t) == {l \in ToSet(t) : Complains(l) \/ Quotes(l)}
Bared(s) == [j \in DOMAIN s |-> Bare(s[j])]
MaskedAs(kind, l) == IF l # << >> /\ l[1].k = "word" /\ l[1].v \in VolatileKeys(kind)
                     THEN <<l[1], Word("<volatile>")>> ELSE l

LEMMA NormalizedIs ==
  ASSUME NEW c, NEW ls
  PROVE  /\ Kind[c] = "probe" => NormalizeForCommand(c, ls) =
              Bared(Keep(NormalizeOutput(ls), Complaints(NormalizeOutput(ls))))
         /\ Kind[c] # "probe" => NormalizeForCommand(c, ls) =
              [j \in DOMAIN NormalizeOutput(ls) |-> MaskedAs(Kind[c], NormalizeOutput(ls)[j])]
BY DEF NormalizeForCommand, Complaints, Bared, MaskedAs

\* No command prints a prompt, and none is left by the masks.
LEMMA NoPrompt ==
  ASSUME NEW c, NEW l \in Seq(Printed), NEW kind
  PROVE  l # <<Prompt, Word(c)>> /\ MaskedAs(kind, l) # <<Prompt, Word(c)>>
<1> DEFINE p == <<Prompt, Word(c)>>
<1>1. Prompt \notin Printed
  BY OutputsAssumption DEF Prompt, Word
<1>2. p # << >> /\ p[1] = Prompt
  OBVIOUS
<1>3. l # p
  <2>1. SUFFICES ASSUME l = p PROVE FALSE
    OBVIOUS
  <2>2. Len(l) = 2 /\ l[1] = Prompt
    BY <2>1
  <2>3. l[1] \in Printed
    BY <2>2, ElementOfSeq
  <2> QED
    BY <1>1, <2>2, <2>3
<1>4. ASSUME l # << >>, l[1].k = "word" PROVE <<l[1], Word("<volatile>")>> # p
  <2>1. l[1] # Prompt
    <3>1. Prompt.k # "word"
      BY DEF Prompt
    <3> QED
      BY <1>4, <3>1
  <2>2. <<l[1], Word("<volatile>")>>[1] = l[1]
    OBVIOUS
  <2> QED
    BY <1>2, <2>1, <2>2
<1> QED
  BY <1>3, <1>4 DEF MaskedAs

\* Nothing that stands above an output is bash's complaint of the probe.
LEMMA AboveQuiet ==
  ASSUME NEW c, NEW i \in Nat \ {0}, NEW l \in AboveLines(c, i)
  PROVE  ~Complains(l) /\ ~Quotes(l)
<1>1. \A a \in ToSet(l) : a.k \in {"marker", "prompt", "word", "nl"}
  <2>1. ToSet(l) \subseteq {Marker(i - 1), Prompt, Word(c), Word("motd"), Nl}
    BY AboveLetters DEF Banner, ToSet
  <2>2. /\ Marker(i - 1).k = "marker" /\ Prompt.k = "prompt" /\ Word(c).k = "word"
        /\ Word("motd").k = "word" /\ Nl.k = "nl"
    BY DEF Marker, Prompt, Word, Nl
  <2> QED
    BY <2>1, <2>2
<1>2. ~Complains(l)
  BY <1>1 DEF Complains, Complaint
<1>3. l # << >> => Last(l) \in ToSet(l)
  BY DEF AboveLines, Last, ToSet
<1> QED
  BY <1>1, <1>2, <1>3 DEF Quotes

\* If the comparison finds no difference, nothing but the output was found: what
\* is left of the lines above it would show the prompt.
LEMMA StrayTells ==
  ASSUME NEW c, NEW i \in Nat \ {0}, NEW o \in Outputs, NEW found, Ends(found),
         NEW stray, Behind(c, i, o.pot, found, stray),
         Matches(c, o.real.lines, found)
  PROVE  Matches(c, o.real.lines, StripLines(o.pot.lines))
<1> DEFINE real == o.real.lines
           out == StripLines(o.pot.lines)
           W == Seq(Printed)
           R == AboveLines(c, i) \cup W
           p == <<Prompt, Word(c)>>
           t == NormalizeOutput(real)
           kind == Kind[c]
<1>1. /\ stray \in Seq(AboveLines(c, i)) /\ found = stray \o out
      /\ stray # << >> => p \in ToSet(stray)
  BY DEF Behind
<1>2. real \in Seq(W) /\ o.pot.lines \in Seq(W)
  BY OutputIs
<1>3. out \in Seq(W) /\ Ends(out) /\ t \in Seq(W)
  <2> HIDE DEF W, real
  <2> QED
    BY <1>2, Stripped, NormalizeIs DEF Ends
<1>4. stray \in Seq(R) /\ out \in Seq(R) /\ found \in Seq(R)
      /\ ToSet(found) = ToSet(stray) \cup ToSet(out)
  <2>1. stray \in Seq(R) /\ out \in Seq(R)
    <3> HIDE DEF out, W
    <3> QED
      BY <1>1, <1>3, SeqMonotonic
  <2> HIDE DEF R, out
  <2> QED
    BY <1>1, <2>1, ConcatItems
<1>5. NormalizeOutput(found) = found /\ NormalizeOutput(out) = out
  <2> HIDE DEF R, out, W
  <2> QED
    BY <1>3, <1>4, NormalizeIs
<1>6. \A l \in ToSet(t) : l # p /\ MaskedAs(kind, l) # p
  <2>1. \A l \in ToSet(t) : l \in W
    <3> HIDE DEF W, t
    <3> QED
      BY <1>3, ElementOfSeq, LenProperties DEF ToSet
  <2> QED
    BY <2>1, NoPrompt
<1>7. NormalizeForCommand(c, real) = NormalizeForCommand(c, found)
  BY DEF Matches
<1> HIDE DEF real, out, W, R, t, kind
<1>8. CASE stray = << >>
  <2>1. found = out
    BY <1>1, <1>4, <1>8, ConcatAppend
  <2> QED
    BY <2>1 DEF out
<1>9. CASE stray # << >> /\ kind # "probe"
  <2>1. p \in ToSet(found)
    BY <1>1, <1>4, <1>9
  <2>2. PICK j \in DOMAIN found : found[j] = p
    BY <2>1 DEF ToSet
  <2>3. MaskedAs(kind, p) = p
    <3>1. p[1] = Prompt /\ Prompt.k # "word"
      BY DEF Prompt
    <3> QED
      BY <3>1 DEF MaskedAs
  <2>4. /\ NormalizeForCommand(c, found) = [k \in DOMAIN found |-> MaskedAs(kind, found[k])]
        /\ NormalizeForCommand(c, real) = [k \in DOMAIN t |-> MaskedAs(kind, t[k])]
    BY <1>5, <1>9, NormalizedIs DEF kind, t
  <2> DEFINE f == [k \in DOMAIN found |-> MaskedAs(kind, found[k])]
             g == [k \in DOMAIN t |-> MaskedAs(kind, t[k])]
  <2>5. f = g
    BY <1>7, <2>4
  <2>6. DOMAIN f = DOMAIN found /\ DOMAIN g = DOMAIN t
    OBVIOUS
  <2>7. f[j] = MaskedAs(kind, found[j]) /\ \A k \in DOMAIN t : g[k] = MaskedAs(kind, t[k])
    BY <2>2
  <2> HIDE DEF f, g
  <2>8. j \in DOMAIN t /\ MaskedAs(kind, t[j]) = p
    BY <2>2, <2>3, <2>5, <2>6, <2>7
  <2>9. t[j] \in ToSet(t)
    BY <2>8 DEF ToSet
  <2> QED
    BY <1>6, <2>8, <2>9
<1>10. CASE stray # << >> /\ kind = "probe"
  <2> DEFINE S == Complaints(found)
  <2>1. /\ NormalizeForCommand(c, found) = Bared(Keep(found, S))
        /\ NormalizeForCommand(c, out) = Bared(Keep(out, Complaints(out)))
    BY <1>5, <1>10, NormalizedIs DEF kind
  <2>2. \A l \in AboveLines(c, i) : ~Complains(l) /\ ~Quotes(l)
    BY AboveQuiet
  <2>3. ToSet(stray) \cap S = {}
    <3>1. \A l \in ToSet(stray) : l \in AboveLines(c, i)
      BY <1>1, ElementOfSeq, LenProperties DEF ToSet
    <3> QED
      BY <2>2, <3>1 DEF Complaints
  <2>4. Keep(stray, S) = << >>
    BY <1>4, <2>3, KeepNone
  <2>5. Keep(out, S) = Keep(out, Complaints(out))
    <3> DEFINE L == ToSet(out)
    <3>1. out \in Seq(L)
      <4>1. Len(out) \in Nat /\ out = [j \in 1..Len(out) |-> out[j]]
            /\ \A j \in 1..Len(out) : out[j] \in L
        BY <1>3, LenProperties DEF ToSet
      <4>2. [j \in 1..Len(out) |-> out[j]] \in Seq(L)
        BY <4>1, IsASeq
      <4> QED
        BY <4>1, <4>2
    <3>2. S \cap L = Complaints(out) \cap L
      BY <1>4 DEF Complaints
    <3> HIDE DEF L, S
    <3> QED
      BY <3>1, <3>2, KeepSame
  <2>6. Keep(found, S) = Keep(stray, S) \o Keep(out, S)
    <3> HIDE DEF S
    <3> QED
      BY <1>1, <1>4, KeepConcat
  <2>7. Keep(out, S) \in Seq(R)
    <3> HIDE DEF S
    <3> QED
      BY <1>4, KeepIs
  <2> HIDE DEF S
  <2>8. Keep(found, S) = Keep(out, S)
    BY <2>4, <2>6, <2>7, ConcatAppend
  <2>9. NormalizeForCommand(c, real) = NormalizeForCommand(c, out)
    BY <1>7, <2>1, <2>5, <2>8
  <2> QED
    BY <2>9 DEF Matches, real, out
<1> QED
  BY <1>8, <1>9, <1>10

\* "All commands matched" is true: the program exits with 0 only if every command
\* of the notes was run on both sides and the outputs are the same, but for what
\* the comparison leaves out.
THEOREM SuccessIsRight == Spec => []SuccessIsTrue
<1>1. Inv => SuccessIsTrue
  <2> SUFFICES ASSUME Inv, phase = "exit 0", NEW i \in DOMAIN commands,
                      anchored \/ outputs[i].pot.ended, Distinct(i)
               PROVE  Matches(commands[i], outputs[i].real.lines,
                              StripLines(outputs[i].pot.lines))
    BY DEF SuccessIsTrue
  <2>1. /\ Len(results) = Len(commands) /\ \A j \in 1..Len(results) : results[j].ok
    BY DEF Inv, Right
  <2>2. DOMAIN results = 1..Len(results) /\ DOMAIN commands = 1..Len(commands)
    BY LenProperties DEF Inv, Lists, IsList
  <2>3. i \in DOMAIN results /\ results[i].ok
    BY <2>1, <2>2
  <2> DEFINE c == commands[i]
             o == outputs[i]
             found == results[i].lines
  <2>4. /\ i \in Nat \ {0} /\ o \in Outputs /\ Ends(found)
        /\ results[i].ok = Matches(c, o.real.lines, found)
        /\ \E stray : Behind(c, i, o.pot, found, stray)
    BY <2>3, ResultIs
  <2>5. Matches(c, o.real.lines, found)
    BY <2>3, <2>4
  <2> HIDE DEF c, o, found
  <2>6. PICK stray : Behind(c, i, o.pot, found, stray)
    BY <2>4
  <2>7. Matches(c, o.real.lines, StripLines(o.pot.lines))
    BY <2>4, <2>5, <2>6, StrayTells
  <2> QED
    BY <2>7 DEF c, o
<1> QED
  BY <1>1, InvHolds, PTL
=============================================================================
