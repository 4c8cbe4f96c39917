------------------------ MODULE ShellOverrides_proofs ------------------------
(* Theorems about ShellOverrides: prompts, types, groups and the picture   *)
(* the device gives of itself.                                             *)
EXTENDS ShellOverrides, ListOps_proofs, FiniteSetTheorems

-----------------------------------------------------------------------------
(* Prompts.                                                                *)

\* Before the first prompt nothing was typed; after it OnePrompt counts.  A
\* command that waits is one that was started.
PromptInv ==
  /\ lines \in Nat /\ prompts \in Nat
  /\ pipeline \in Seq(Stage)
  /\ prompts = 0 => pipeline = << >> /\ lines = 0
  /\ waiting => pipeline # << >>
  /\ OnePrompt

\* What is left of a pipeline when its first stage has run.
LEMMA StageRuns ==
  ASSUME NEW s \in Seq(Stage), s # << >>
  PROVE  Tail(s) \in Seq(Stage) /\ (Tail(s) = << >> <=> Len(s) = 1) /\ Len(s) \in Nat \ {0}
<1>1. Len(s) \in Nat /\ Len(s) # 0
  OBVIOUS
<1>2. Tail(s) \in Seq(Stage) /\ Len(Tail(s)) = Len(s) - 1
  OBVIOUS
<1>3. Tail(s) = << >> <=> Len(Tail(s)) = 0
  BY <1>2, EmptySeq
<1> QED
  BY <1>1, <1>2, <1>3

\* A line that is typed is answered at once, with a prompt, or has a pipeline.
LEMMA TypedPrompt ==
  ASSUME PromptInv, NEW line \in Typed, LineReceived(line)
  PROVE  PromptInv'
<1>1. /\ prompts > 0 /\ pipeline = << >> /\ lines' = lines + 1
      /\ pipeline' = PassedOn(line) /\ waiting' = waiting
      /\ IF line.probe = "none" THEN prompts' = prompts ELSE prompts' = prompts + 1
  BY DEF LineReceived
<1>2. lines \in Nat /\ prompts \in Nat /\ prompts = lines + 1 /\ ~waiting
  BY <1>1 DEF PromptInv, OnePrompt
<1>3. line.stages \in Seq(Stage) /\ line.stages # << >>
  BY TypedAssumption
<1>4. CASE line.probe = "none"
  <2>1. pipeline' \in Seq(Stage) /\ pipeline' # << >> /\ prompts' = prompts
    BY <1>1, <1>3, <1>4 DEF PassedOn
  <2> QED
    BY <1>1, <1>2, <2>1 DEF PromptInv, OnePrompt
<1>5. CASE line.probe # "none"
  <2>1. pipeline' = << >> /\ prompts' = prompts + 1
    BY <1>1, <1>5 DEF PassedOn
  <2>2. pipeline' \in Seq(Stage)
    BY <2>1
  <2> QED
    BY <1>1, <1>2, <2>1, <2>2 DEF PromptInv, OnePrompt
<1> QED
  BY <1>4, <1>5

\* A command that exits takes its stage along, and the last one prompts.
LEMMA ExitPrompt ==
  ASSUME PromptInv, pipeline # << >>, NEW printed, Exit(printed), UNCHANGED lines
  PROVE  PromptInv'
<1>1. /\ pipeline' = Tail(pipeline) /\ lines' = lines /\ ~waiting'
      /\ IF Len(pipeline) > 1 THEN prompts' = prompts ELSE prompts' = prompts + 1
  BY DEF Exit
<1>2. /\ lines \in Nat /\ prompts \in Nat /\ prompts > 0 /\ prompts + 1 = lines + 1
      /\ pipeline \in Seq(Stage) /\ pipeline # << >>
  BY DEF PromptInv, OnePrompt
<1>3. /\ pipeline' \in Seq(Stage) /\ (pipeline' = << >> <=> Len(pipeline) = 1)
      /\ Len(pipeline) \in Nat \ {0}
  BY <1>1, <1>2, StageRuns
<1>4. CASE Len(pipeline) > 1
  <2>1. pipeline' # << >> /\ prompts' = prompts
    BY <1>1, <1>3, <1>4
  <2> QED
    BY <1>1, <1>2, <1>3, <2>1 DEF PromptInv, OnePrompt
<1>5. CASE ~(Len(pipeline) > 1)
  <2>1. pipeline' = << >> /\ prompts' = prompts + 1
    BY <1>1, <1>3, <1>5
  <2> QED
    BY <1>1, <1>2, <1>3, <2>1 DEF PromptInv, OnePrompt
<1> QED
  BY <1>4, <1>5

\* What the commands of a pipeline do: one exits, or one waits and nothing else
\* happens.  Only a pipeline can wait.
LEMMA RunOrExit ==
  ASSUME RunStage \/ EndOfInput, waiting => pipeline # << >>
  PROVE  /\ pipeline # << >> /\ UNCHANGED <<accounts, user, imported, registry, lines>>
         /\ \/ \E printed : Exit(printed)
            \/ waiting' = TRUE /\ UNCHANGED <<pipeline, piped, data, prompts>>
<1>1. CASE RunStage
  <2> DEFINE started == Start(Head(pipeline), data)
  <2>1. /\ pipeline # << >> /\ UNCHANGED <<accounts, user, imported, registry, lines>>
        /\ \/ /\ started.exits
              /\ Exit(Keep(started.out, ToSet(started.out)
                                          \ {a \in ToSet(started.out) : a.q = "error"}))
           \/ waiting' = TRUE /\ UNCHANGED <<pipeline, piped, data, prompts>>
    BY <1>1, Zenon DEF RunStage
  <2> HIDE DEF started
  <2> QED
    BY <2>1
<1>2. CASE EndOfInput
  BY <1>2 DEF EndOfInput
<1> QED
  BY <1>1, <1>2

\* The last stage, and no other, prompts.
LEMMA StagePrompt ==
  ASSUME PromptInv, RunStage \/ EndOfInput
  PROVE  PromptInv'
<1>1. waiting => pipeline # << >>
  BY DEF PromptInv
<1>2. /\ pipeline # << >> /\ UNCHANGED lines
      /\ \/ \E printed : Exit(printed)
         \/ waiting' = TRUE /\ UNCHANGED <<pipeline, piped, data, prompts>>
  BY <1>1, RunOrExit, Zenon
<1>3. CASE \E printed : Exit(printed)
  BY <1>2, <1>3, ExitPrompt
<1>4. CASE waiting' = TRUE /\ UNCHANGED <<pipeline, piped, data, prompts>>
  BY <1>2, <1>4 DEF PromptInv, OnePrompt
<1> QED
  BY <1>2, <1>3, <1>4

LEMMA PromptInvariant == Spec => []PromptInv
<1>1. Init => PromptInv
  <2> SUFFICES ASSUME Init PROVE PromptInv
    OBVIOUS
  <2>1. pipeline = << >> /\ ~waiting /\ lines = 0 /\ prompts = 0
    BY DEF Init
  <2> QED
    BY <2>1 DEF PromptInv, OnePrompt
<1>2. PromptInv /\ [Next]_vars => PromptInv'
  <2> SUFFICES ASSUME PromptInv, [Next]_vars PROVE PromptInv'
    OBVIOUS
  <2>1. CASE Import \/ UNCHANGED vars
    <3>1. UNCHANGED <<pipeline, waiting, lines, prompts>>
      BY <2>1 DEF Import, vars, running
    <3> QED
      BY <3>1 DEF PromptInv, OnePrompt
  <2>2. CASE Login
    <3>1. prompts = 0 /\ prompts' = 1 /\ UNCHANGED <<pipeline, waiting, lines>>
      BY <2>2 DEF Login, running
    <3> QED
      BY <3>1 DEF PromptInv, OnePrompt
  <2>3. ASSUME NEW line \in Typed, LineReceived(line) PROVE PromptInv'
    BY <2>3, TypedPrompt
  <2>4. CASE RunStage \/ EndOfInput
    BY <2>4, StagePrompt
  <2> QED
    BY <2>1, <2>2, <2>3, <2>4 DEF Next
<1> QED
  BY <1>1, <1>2, PTL DEF Spec

\* Each line gets one prompt, whatever lines are typed and whatever the
\* commands print: a probe prompts itself and hands nothing to the shell, of a
\* pipeline only the last stage prompts (_patched_line_received, call, exit).
THEOREM OnePromptPerLine == Spec => []OnePrompt
<1>1. PromptInv => OnePrompt
  BY DEF PromptInv
<1> QED
  BY <1>1, PromptInvariant, PTL

-----------------------------------------------------------------------------
(* Types, but for the answers.                                             *)

\* A suffix, item by item.
LEMMA SuffixIs ==
  ASSUME NEW R, NEW s \in Seq(R), NEW t \in Seq(R)
  PROVE  IsSuffix(s, t) <=>
           Len(s) <= Len(t) /\ \A i \in 1..Len(s) : s[i] = t[Len(t) - Len(s) + i]
<1> DEFINE m == Len(s)
           n == Len(t)
           u == Reverse(s)
           v == Reverse(t)
<1>1. m \in Nat /\ n \in Nat
  OBVIOUS
<1>2. u = [i \in 1..m |-> s[(m - i) + 1]] /\ v = [i \in 1..n |-> t[(n - i) + 1]]
  BY DEF Reverse
<1>3. \A i \in 1..m : (m - i) + 1 \in 1..m /\ s[i] \in R
  OBVIOUS
<1>4. \A i \in 1..n : (n - i) + 1 \in 1..n /\ t[i] \in R
  OBVIOUS
<1> HIDE DEF u, v, m, n
<1>5. /\ u \in Seq(R) /\ Len(u) = m /\ \A i \in 1..m : u[i] = s[(m - i) + 1]
      /\ v \in Seq(R) /\ Len(v) = n /\ \A i \in 1..n : v[i] = t[(n - i) + 1]
  <2>1. \A i \in 1..m : s[(m - i) + 1] \in R
    BY <1>3
  <2>2. \A i \in 1..n : t[(n - i) + 1] \in R
    BY <1>4
  <2>3. u \in Seq(R) /\ Len(u) = m /\ \A i \in 1..m : u[i] = s[(m - i) + 1]
    BY <1>1, <1>2, <2>1
  <2>4. v \in Seq(R) /\ Len(v) = n /\ \A i \in 1..n : v[i] = t[(n - i) + 1]
    BY <1>1, <1>2, <2>2
  <2> QED
    BY <2>3, <2>4
<1>6. IsSuffix(s, t) <=> m <= n /\ SubSeq(u, 1, m) = SubSeq(v, 1, m)
  BY <1>5 DEF IsSuffix, IsPrefix, u, v
<1>7. SUFFICES ASSUME m <= n
               PROVE  SubSeq(u, 1, m) = SubSeq(v, 1, m)
                        <=> \A i \in 1..m : s[i] = t[n - m + i]
  BY <1>6 DEF m, n
<1> DEFINE a == SubSeq(u, 1, m)
           b == SubSeq(v, 1, m)
<1>8. /\ a \in Seq(R) /\ Len(a) = m /\ \A i \in 1..m : a[i] = u[i]
      /\ b \in Seq(R) /\ Len(b) = m /\ \A i \in 1..m : b[i] = v[i]
  <2>1. \A i \in 1..m : u[i] \in R
    BY <1>5
  <2>2. \A i \in 1..m : v[i] \in R
    BY <1>1, <1>5, <1>7
  <2>3. 1 \in Int /\ m \in Int /\ (m - 1) + 1 = m /\ (1 <= m \/ m = 0)
        /\ \A i \in 1..m : (1 + i) - 1 = i
    BY <1>1
  <2>4. a \in Seq(R) /\ Len(a) = m /\ \A i \in 1..m : a[i] = u[i]
    BY <2>1, <2>3, SubSeqProperties
  <2>5. b \in Seq(R) /\ Len(b) = m /\ \A i \in 1..m : b[i] = v[i]
    BY <2>2, <2>3, SubSeqProperties
  <2> QED
    BY <2>4, <2>5
<1> HIDE DEF a, b
<1>9. a = b <=> \A i \in 1..m : u[i] = v[i]
  BY <1>1, <1>8
<1>10. ASSUME \A i \in 1..m : u[i] = v[i], NEW i \in 1..m PROVE s[i] = t[n - m + i]
  <2> DEFINE k == (m - i) + 1
  <2>1. k \in 1..m /\ k \in 1..n /\ (m - k) + 1 = i /\ (n - k) + 1 = n - m + i
    BY <1>1, <1>7
  <2>2. u[k] = s[i] /\ v[k] = t[n - m + i]
    BY <1>5, <2>1
  <2> QED
    BY <1>10, <2>1, <2>2
<1>11. ASSUME \A i \in 1..m : s[i] = t[n - m + i], NEW i \in 1..m PROVE u[i] = v[i]
  <2> DEFINE k == (m - i) + 1
  <2>1. k \in 1..m /\ i \in 1..n /\ (n - i) + 1 = n - m + k
    BY <1>1, <1>7
  <2>2. u[i] = s[k] /\ v[i] = t[n - m + k]
    BY <1>5, <2>1
  <2> QED
    BY <1>11, <2>1, <2>2
<1> QED
  BY <1>9, <1>10, <1>11 DEF a, b

\* A list is a suffix of itself.
LEMMA WholeSuffix ==
  ASSUME NEW R, NEW s \in Seq(R)
  PROVE  IsSuffix(s, s)
<1> DEFINE n == Len(s)
<1>1. n \in Nat /\ n - n = 0 /\ \A i \in 1..n : 0 + i = i
  OBVIOUS
<1>2. n <= n /\ \A i \in 1..n : s[i] = s[n - n + i]
  BY <1>1
<1> QED
  BY <1>2, SuffixIs

\* The stages behind the first of what is left are what is left next.
LEMMA TailSuffix ==
  ASSUME NEW R, NEW s \in Seq(R), NEW t \in Seq(R), s # << >>, IsSuffix(s, t)
  PROVE  IsSuffix(Tail(s), t)
<1> DEFINE m == Len(s)
           n == Len(t)
           u == Tail(s)
           l == Len(u)
<1>1. /\ m \in Nat /\ n \in Nat /\ m # 0
      /\ u \in Seq(R) /\ l = m - 1 /\ \A i \in 1..l : u[i] = s[i + 1]
  BY HeadTailProperties, EmptySeq
<1>2. m <= n /\ \A i \in 1..m : s[i] = t[n - m + i]
  BY SuffixIs
<1> HIDE DEF m, n, u, l
<1>3. l <= n
  BY <1>1, <1>2
<1>4. ASSUME NEW i \in 1..l PROVE u[i] = t[n - l + i]
  <2>1. i + 1 \in 1..m /\ n - m + (i + 1) = n - l + i
    BY <1>1
  <2> QED
    BY <1>1, <1>2, <2>1
<1> QED
  BY <1>1, <1>3, <1>4, SuffixIs DEF n, u, l

\* The parts of TypeOK that need not be derived from the number of prompts.
ShellTypes ==
  /\ accounts \in Accounts /\ user \in Users
  /\ imported \in 0..Len(All) /\ lines \in 0..MaxLines
  /\ piped \in BOOLEAN /\ waiting \in BOOLEAN
  /\ pipeline # << >> => \E line \in Typed : IsSuffix(pipeline, line.stages)
  /\ imported = Len(All) => \A name \in Overrides : registry[name] = "rpi4_overrides"

\* The last module of __all__ is the one with the overrides, and it registers
\* all of them.
LEMMA ImportTypes ==
  ASSUME ShellTypes, Import
  PROVE  ShellTypes'
<1>1. /\ imported < Len(All) /\ imported' = imported + 1
      /\ registry' = [name \in DOMAIN registry \cup Defines(All[imported + 1]) |->
                       IF name \in Defines(All[imported + 1]) THEN All[imported + 1]
                       ELSE registry[name]]
      /\ UNCHANGED <<accounts, user, pipeline, piped, waiting, lines>>
  BY DEF Import, running
<1>2. Len(All) = 8 /\ All[8] = "rpi4_overrides"
  BY DEF All
<1>3. imported \in 0..8 /\ imported' \in 0..8
  BY <1>1, <1>2 DEF ShellTypes
<1>4. ASSUME imported' = 8, NEW name \in Overrides PROVE registry'[name] = "rpi4_overrides"
  <2>1. imported + 1 = 8
    BY <1>1, <1>3, <1>4
  <2>2. name \in Defines(All[imported + 1])
    BY <1>2, <2>1 DEF Defines
  <2> QED
    BY <1>1, <1>2, <2>1, <2>2
<1> QED
  BY <1>1, <1>2, <1>3, <1>4 DEF ShellTypes

\* The stages of a line, all or some of them, are in the pipeline.
LEMMA TypedTypes ==
  ASSUME ShellTypes, NEW line \in Typed, LineReceived(line)
  PROVE  ShellTypes'
<1>1. /\ lines < MaxLines /\ lines' = lines + 1 /\ pipeline' = PassedOn(line)
      /\ UNCHANGED <<accounts, user, imported, registry, piped, waiting>>
  BY DEF LineReceived
<1>2. lines' \in 0..MaxLines
  BY <1>1, BoundAssumption DEF ShellTypes
<1>3. pipeline' # << >> => \E l \in Typed : IsSuffix(pipeline', l.stages)
  <2>1. pipeline' # << >> => pipeline' = line.stages
    BY <1>1 DEF PassedOn
  <2>2. IsSuffix(line.stages, line.stages)
    BY TypedAssumption, WholeSuffix
  <2> QED
    BY <2>1, <2>2
<1> QED
  BY <1>1, <1>2, <1>3 DEF ShellTypes

\* A stage that ran leaves a suffix of the same line.
LEMMA StageTypes ==
  ASSUME ShellTypes, PromptInv, RunStage \/ EndOfInput
  PROVE  ShellTypes'
<1>1. /\ pipeline # << >> /\ UNCHANGED <<accounts, user, imported, registry, lines>>
      /\ \/ \E printed : Exit(printed)
         \/ waiting' = TRUE /\ UNCHANGED <<pipeline, piped, data, prompts>>
  <2>1. waiting => pipeline # << >>
    BY DEF PromptInv
  <2> QED
    BY <2>1, RunOrExit, Zenon
<1>2. PICK line \in Typed : IsSuffix(pipeline, line.stages)
  BY <1>1 DEF ShellTypes
<1>3. pipeline \in Seq(Stage) /\ line.stages \in Seq(Stage)
  BY TypedAssumption DEF PromptInv
<1>4. CASE \E printed : Exit(printed)
  <2>1. /\ pipeline' = Tail(pipeline) /\ waiting' = FALSE /\ piped' \in BOOLEAN
    BY <1>4 DEF Exit
  <2>2. IsSuffix(pipeline', line.stages)
    BY <1>1, <1>2, <1>3, <2>1, TailSuffix
  <2> QED
    BY <1>1, <2>1, <2>2 DEF ShellTypes
<1>5. CASE waiting' = TRUE /\ UNCHANGED <<pipeline, piped, data, prompts>>
  BY <1>1, <1>5 DEF ShellTypes
<1> QED
  BY <1>1, <1>4, <1>5

LEMMA ShellInvariant == Spec => [](PromptInv /\ ShellTypes)
<1>1. Init => ShellTypes
  <2> SUFFICES ASSUME Init PROVE ShellTypes
    OBVIOUS
  <2>1. /\ accounts \in Accounts /\ user \in Users /\ imported = 0 /\ lines = 0
        /\ pipeline = << >> /\ piped = FALSE /\ waiting = FALSE
    BY DEF Init
  <2>2. imported \in 0..Len(All) /\ imported # Len(All) /\ lines \in 0..MaxLines
    BY <2>1, BoundAssumption DEF All
  <2>3. piped \in BOOLEAN /\ waiting \in BOOLEAN
    BY <2>1
  <2> QED
    BY <2>1, <2>2, <2>3, Zenon DEF ShellTypes
<1>2. ShellTypes /\ PromptInv /\ [Next]_vars => ShellTypes'
  <2> SUFFICES ASSUME ShellTypes, PromptInv, [Next]_vars PROVE ShellTypes'
    OBVIOUS
  <2>1. CASE Login \/ UNCHANGED vars
    <3>1. UNCHANGED <<accounts, user, imported, registry, pipeline, piped, waiting, lines>>
      BY <2>1 DEF Login, vars, running
    <3> QED
      BY <3>1 DEF ShellTypes
  <2>2. CASE Import
    BY <2>2, ImportTypes
  <2>3. ASSUME NEW line \in Typed, LineReceived(line) PROVE ShellTypes'
    BY <2>3, TypedTypes
  <2>4. CASE RunStage \/ EndOfInput
    BY <2>4, StageTypes
  <2> QED
    BY <2>1, <2>2, <2>3, <2>4 DEF Next
<1> QED
  BY <1>1, <1>2, PromptInvariant, PTL DEF Spec

-----------------------------------------------------------------------------
(* The groups of a user.                                                   *)

\* The primary group has the user's number, under some group's or his own name.
LEMMA PrimaryIs ==
  ASSUME NEW db \in Accounts, NEW u \in DOMAIN db.passwd
  PROVE  LET p == Primary(db, u, db.passwd[u])
         IN p.gid = db.passwd[u] /\ p.gid \in Int /\ p.name # Nul
<1> DEFINE R == ToSet(db.group)
           gid == db.passwd[u]
           S == {g \in R : g.gid = gid}
           with == Keep(db.group, S)
<1>1. /\ db.group \in Seq(R) /\ gid \in Int /\ u # Nul
      /\ \A g \in R : g.gid \in Int /\ g.name # Nul
  BY AccountsAssumption
<1> HIDE DEF R
<1>2. with \in Seq(R) /\ ToSet(with) = R \cap S
  <2>1. ToSet(db.group) = R
    BY DEF R
  <2> HIDE DEF S
  <2> QED
    BY <1>1, <2>1, KeepIs
<1>3. Primary(db, u, gid) = IF with = << >> THEN [name |-> u, gid |-> gid, members |-> {}]
                            ELSE with[1]
  BY DEF Primary, R
<1> HIDE DEF with, gid
<1>4. CASE with = << >>
  BY <1>1, <1>3, <1>4 DEF gid
<1>5. CASE with # << >>
  <2>1. 1 \in DOMAIN with
    BY <1>2, <1>5
  <2>2. with[1] \in R /\ with[1].gid = gid
    BY <1>2, <2>1 DEF ToSet
  <2> QED
    BY <1>1, <1>3, <1>5, <2>2 DEF gid
<1> QED
  BY <1>4, <1>5

\* The other groups: every number the user is a member of, in ascending order.
LEMMA SupplementaryIs ==
  ASSUME NEW db \in Accounts, NEW u, NEW seen
  PROVE  LET s == Supplementary(db, u, seen)
             R == ToSet(db.group)
         IN /\ s \in Seq(R)
            /\ {g.gid : g \in ToSet(s)} = {g.gid : g \in {g \in R : u \in g.members}} \ seen
            /\ \A i, j \in 1..Len(s) : i < j => s[i].gid < s[j].gid
<1> DEFINE R == ToSet(db.group)
           gid == [g \in R |-> g.gid]
           listed == {g \in R : u \in g.members /\ g.gid \notin seen}
           sorted == Sorted(db.group, gid)
           kept == Keep(sorted, listed)
           s == Firsts(kept, gid)
           P == {p \in R \X R : gid[p[1]] <= gid[p[2]]}
<1>1. /\ db.group \in Seq(R) /\ \A g \in R : gid[g] = g.gid /\ g.gid \in Int
      /\ ToSet(db.group) = R
  BY AccountsAssumption
<1>2. s = Supplementary(db, u, seen)
  BY DEF Supplementary
<1>3. listed \subseteq R
  OBVIOUS
<1> HIDE DEF R
<1>4. sorted \in Seq(R) /\ ToSet(sorted) = R /\ Ordered(sorted, P)
  <2>1. \A g \in R : gid[g] \in Int
    BY <1>1
  <2> HIDE DEF gid
  <2> QED
    BY <1>1, <2>1, SortedIs
<1> HIDE DEF sorted, P, listed, gid
<1>5. kept \in Seq(R) /\ ToSet(kept) = listed
  <2>1. kept \in Seq(R) /\ ToSet(kept) = ToSet(sorted) \cap listed
    BY <1>4, KeepIs
  <2> HIDE DEF kept
  <2> QED
    BY <1>3, <1>4, <2>1
<1>6. Ordered(kept, P)
  BY <1>4, KeepOrder
<1> HIDE DEF kept
<1>7. /\ s \in Seq(R) /\ ToSet(s) \subseteq listed
      /\ \A x \in listed : \E y \in ToSet(s) : gid[y] = gid[x]
      /\ \A k, l \in 1..Len(s) : gid[s[k]] = gid[s[l]] => k = l
      /\ Ordered(s, P)
  <2>1. /\ s \in Seq(R) /\ ToSet(s) \subseteq ToSet(kept)
        /\ \A x \in ToSet(kept) : \E y \in ToSet(s) : gid[y] = gid[x]
        /\ \A k, l \in 1..Len(s) : gid[s[k]] = gid[s[l]] => k = l
        /\ \A Q : Ordered(kept, Q) => Ordered(s, Q)
    BY <1>5, FirstsIs
  <2> QED
    BY <1>5, <1>6, <2>1
<1> HIDE DEF s
<1>8. {g.gid : g \in ToSet(s)} = {g.gid : g \in {g \in R : u \in g.members}} \ seen
  <2>1. {g.gid : g \in ToSet(s)} = {g.gid : g \in listed}
    BY <1>1, <1>3, <1>7
  <2>2. {g.gid : g \in listed} = {g.gid : g \in {g \in R : u \in g.members}} \ seen
    BY DEF listed
  <2> QED
    BY <2>1, <2>2
<1>9. ASSUME NEW i \in 1..Len(s), NEW j \in 1..Len(s), i < j
      PROVE  s[i].gid < s[j].gid
  <2>1. s[i] \in R /\ s[j] \in R /\ i # j
    BY <1>7, <1>9
  <2>2. gid[s[i]] <= gid[s[j]]
    BY <1>7, <1>9 DEF Ordered, P
  <2> QED
    BY <1>1, <1>7, <2>1, <2>2
<1> QED
  BY <1>2, <1>7, <1>8, <1>9 DEF R

\* The numbers of the groups that list a user.
GroupsOf(db, u) == {g.gid : g \in {g \in ToSet(db.group) : u \in g.members}}

\* What is printed of a user: the numbers Linux prints, in its order, and names.
LEMMA MembershipIs ==
  ASSUME NEW db \in Accounts, NEW u \in DOMAIN db.passwd
  PROVE  LET m == Membership[db][u]
         IN /\ m.gids \in Seq(Int) /\ m.gids[1] = db.passwd[u]
            /\ ToSet(m.gids) = {db.passwd[u]} \cup GroupsOf(db, u)
            /\ ToSet(Tail(m.gids)) = GroupsOf(db, u) \ {m.gids[1]}
            /\ \A i, j \in 2..Len(m.gids) : i < j => m.gids[i] < m.gids[j]
            /\ m.names \in Seq(ToSet(m.names)) /\ Nul \notin ToSet(m.names)
<1> DEFINE gid == db.passwd[u]
           R == ToSet(db.group)
           p == Primary(db, u, gid)
           s == Supplementary(db, u, {gid})
           n == Len(s)
           e == <<p>> \o s
           m == Membership[db][u]
<1>1. p.gid = gid /\ gid \in Int /\ p.name # Nul
  BY PrimaryIs
<1>2. /\ s \in Seq(R)
      /\ {g.gid : g \in ToSet(s)} = GroupsOf(db, u) \ {gid}
      /\ \A i, j \in 1..n : i < j => s[i].gid < s[j].gid
  BY SupplementaryIs DEF GroupsOf
<1>3. \A g \in R : g.gid \in Int /\ g.name # Nul
  BY AccountsAssumption
<1>4. m = [names |-> [i \in DOMAIN e |-> e[i].name], gids |-> [i \in DOMAIN e |-> e[i].gid]]
  BY DEF Membership, GroupEntries
<1> HIDE DEF p, s, R, m, gid
<1>5. /\ n \in Nat /\ DOMAIN s = 1..n /\ \A i \in 1..n : s[i] \in R /\ s[i] \in ToSet(s)
  BY <1>2 DEF ToSet
<1>6. DOMAIN e = 1..(n + 1) /\ e[1] = p /\ \A i \in 1..n : e[i + 1] = s[i]
  <2> DEFINE T == R \cup {p}
  <2>1. <<p>> \in Seq(T) /\ s \in Seq(T) /\ Len(<<p>>) = 1 /\ <<p>>[1] = p
    BY <1>2
  <2> HIDE DEF T, n
  <2>2. /\ e \in Seq(T) /\ Len(e) = 1 + n
        /\ \A i \in 1..(1 + n) : e[i] = IF i <= 1 THEN <<p>>[i] ELSE s[i - 1]
    BY <2>1, ConcatProperties DEF n
  <2>3. DOMAIN e = 1..(n + 1) /\ 1 \in 1..(1 + n)
    BY <1>5, <2>2
  <2>4. \A i \in 1..n : i + 1 \in 1..(1 + n) /\ ~(i + 1 <= 1) /\ (i + 1) - 1 = i
    BY <1>5
  <2> HIDE DEF e
  <2> QED
    BY <2>1, <2>2, <2>3, <2>4
<1> HIDE DEF e, n
<1> DEFINE v == m.gids
           w == m.names
<1>7. v = [i \in 1..(n + 1) |-> e[i].gid] /\ w = [i \in 1..(n + 1) |-> e[i].name]
  BY <1>4, <1>6
<1>8. \A i \in 1..(n + 1) : i # 1 => i - 1 \in 1..n /\ e[i] = s[i - 1]
  <2> SUFFICES ASSUME NEW i \in 1..(n + 1), i # 1 PROVE i - 1 \in 1..n /\ e[i] = s[i - 1]
    OBVIOUS
  <2>1. i - 1 \in 1..n /\ (i - 1) + 1 = i
    BY <1>5
  <2>2. e[(i - 1) + 1] = s[i - 1]
    BY <1>6, <2>1
  <2> QED
    BY <2>1, <2>2
<1>9. \A i \in 1..(n + 1) : e[i].gid \in Int /\ e[i].name # Nul
  BY <1>1, <1>3, <1>5, <1>6, <1>8
<1> HIDE DEF v, w
<1>10. v \in Seq(Int) /\ Len(v) = n + 1 /\ v # << >> /\ v[1] = gid
  <2>1. v \in Seq(Int) /\ Len(v) = n + 1 /\ 1 \in 1..(n + 1)
    BY <1>5, <1>7, <1>9
  <2>2. v[1] = e[1].gid
    BY <1>7, <2>1
  <2>3. v # << >>
    BY <1>5, <2>1
  <2> QED
    BY <1>1, <1>6, <2>1, <2>2, <2>3
<1>11. w \in Seq(ToSet(w)) /\ Nul \notin ToSet(w)
  <2>1. DOMAIN w = 1..(n + 1) /\ \A i \in 1..(n + 1) : w[i] = e[i].name
    BY <1>7
  <2>2. \A i \in 1..(n + 1) : w[i] \in ToSet(w) /\ w[i] # Nul
    BY <1>9, <2>1 DEF ToSet
  <2>3. Nul \notin ToSet(w)
    BY <2>1, <2>2 DEF ToSet
  <2>4. w = [i \in 1..(n + 1) |-> w[i]]
    BY <1>7, <2>1
  <2>5. n + 1 \in Nat /\ [i \in 1..(n + 1) |-> w[i]] \in Seq(ToSet(w))
    BY <1>5, <2>2
  <2> QED
    BY <2>3, <2>4, <2>5, Zenon
<1>12. \A i \in 1..n : v[i + 1] = s[i].gid
  <2>1. \A i \in 1..n : i + 1 \in 1..(n + 1)
    BY <1>5
  <2> QED
    BY <1>6, <1>7, <2>1
<1>13. ToSet(Tail(v)) = {g.gid : g \in ToSet(s)}
  <2> DEFINE t == Tail(v)
  <2>1. t \in Seq(Int) /\ Len(t) = n /\ \A i \in 1..n : t[i] = v[i + 1]
    BY <1>5, <1>10, HeadTailProperties
  <2> HIDE DEF t
  <2>2. DOMAIN t = 1..n
    BY <2>1
  <2>3. \A i \in 1..n : t[i] = s[i].gid
    BY <1>12, <2>1
  <2> QED
    BY <1>5, <2>2, <2>3 DEF ToSet, t
<1>14. ToSet(v) = {gid} \cup {g.gid : g \in ToSet(s)}
  <2>1. DOMAIN v = 1..(n + 1) /\ 1 \in 1..(n + 1) /\ \A i \in 1..n : i + 1 \in 1..(n + 1)
    BY <1>5, <1>7
  <2>2. \A i \in 1..(n + 1) : i # 1 => i - 1 \in 1..n /\ v[i] = s[i - 1].gid
    BY <1>7, <1>8
  <2>3. ToSet(v) \subseteq {gid} \cup {g.gid : g \in ToSet(s)}
    <3>1. SUFFICES ASSUME NEW i \in 1..(n + 1)
                   PROVE  v[i] \in {gid} \cup {g.gid : g \in ToSet(s)}
      BY <2>1 DEF ToSet
    <3>2. CASE i = 1
      BY <1>10, <3>2
    <3>3. CASE i # 1
      <4>1. s[i - 1] \in ToSet(s) /\ v[i] = s[i - 1].gid
        BY <1>5, <2>2, <3>3
      <4> QED
        BY <4>1
    <3> QED
      BY <3>2, <3>3
  <2>4. \A i \in 1..n : s[i].gid \in ToSet(v)
    BY <1>12, <2>1 DEF ToSet
  <2>5. gid \in ToSet(v)
    BY <1>10, <2>1 DEF ToSet
  <2>6. \A g \in ToSet(s) : \E i \in 1..n : g = s[i]
    BY <1>5 DEF ToSet
  <2> QED
    BY <2>3, <2>4, <2>5, <2>6
<1>15. \A i, j \in 2..(n + 1) : i < j => v[i] < v[j]
  <2> SUFFICES ASSUME NEW i \in 2..(n + 1), NEW j \in 2..(n + 1), i < j
               PROVE  v[i] < v[j]
    OBVIOUS
  <2>1. i - 1 \in 1..n /\ j - 1 \in 1..n /\ i - 1 < j - 1 /\ (i - 1) + 1 = i /\ (j - 1) + 1 = j
    BY <1>5
  <2>2. s[i - 1].gid < s[j - 1].gid
    BY <1>2, <2>1 DEF n
  <2>3. v[i] = s[i - 1].gid /\ v[j] = s[j - 1].gid
    BY <1>12, <2>1
  <2> QED
    BY <2>2, <2>3
<1>16. ToSet(v) = {gid} \cup GroupsOf(db, u) /\ ToSet(Tail(v)) = GroupsOf(db, u) \ {v[1]}
  BY <1>2, <1>10, <1>13, <1>14
<1> QED
  BY <1>10, <1>11, <1>15, <1>16 DEF v, w, m, gid

-----------------------------------------------------------------------------
(* What the answers are.                                                   *)

\* Everything the honeypot says of itself and of the users of a database.
Facts(db) ==
  { Answer("model", Device, Append(Model, Nul)), Answer("model", Device, Model),
    Answer("system", Device, <<"Raspbian", "10">>), Answer("cpus", Device, <<"4">>),
    Answer("memory", Device, <<"3.7Gi">>), Answer("swap", Device, <<"99Mi">>),
    Answer("apt", Device, <<"/usr/bin/apt">>),
    Answer("hostname", Device, <<"raspberrypi">>), Status[1] }
  \cup {Answer("gids", u, Membership[db][u].gids) : u \in DOMAIN db.passwd}
  \cup {Answer("names", u, Membership[db][u].names) : u \in DOMAIN db.passwd}

\* What tr -d leaves of an answer.
WithoutNul(a) == Answer(a.q, a.of, Keep(a.v, ToSet(a.v) \ {Nul}))

Truths(db) == Facts(db) \cup {WithoutNul(a) : a \in Facts(db)}

\* What a command prints instead of an answer.
Complaints ==
  { Answer("error", Device, <<text>>) :
      text \in {"no such user", "invalid option", "no such command",
                "invalid number of lines", "cannot open", "command not found",
                "syntax error"} }

\* Of the characters of an answer tr is asked to delete at most the one that
\* ends the strings of the device tree.
DeletesOnlyNul ==
  \A stage \in Stage :
    stage.name = "tr" /\ Deletes(stage.args) => Expand(stage.args[2]) \subseteq {Nul}

\* tr makes of the answers in T, in the lines that can be typed, answers in T.
Closed(T) ==
  \A stage \in Stage, a \in T :
    stage.name = "tr" /\ Deletes(stage.args)
      => [a EXCEPT !.v = Left(a.v, Expand(stage.args[2]))] \in T

\* Answers to which the commands add none: the facts are among them, and what
\* tr makes of them; a complaint is not.
Sound(T, db) == Facts(db) \subseteq T /\ Closed(T) /\ \A a \in T : a.q # "error"

\* A list is a list of its members.
LEMMA OwnMembers ==
  ASSUME NEW R, NEW v \in Seq(R)
  PROVE  v \in Seq(ToSet(v))
<1> DEFINE n == Len(v)
<1>1. n \in Nat /\ DOMAIN v = 1..n /\ \A i \in 1..n : v[i] \in ToSet(v)
  BY DEF ToSet
<1>2. v = [i \in 1..n |-> v[i]]
  OBVIOUS
<1> HIDE DEF n
<1>3. [i \in 1..n |-> v[i]] \in Seq(ToSet(v))
  BY <1>1
<1> QED
  BY <1>2, <1>3, Zenon

\* A fact is an answer, not a complaint, and its value a list.
LEMMA FactsAre ==
  ASSUME NEW db \in Accounts, NEW a \in Facts(db)
  PROVE  /\ a = Answer(a.q, a.of, a.v) /\ a.v \in Seq(ToSet(a.v))
         /\ a.q \in Questions \ {"error"}
         /\ a.of \in {Device, "pi"} \cup DOMAIN db.passwd
<1>1. \A q, of, v : LET b == Answer(q, of, v) IN b.q = q /\ b.of = of /\ b.v = v
  BY DEF Answer
<1>2. ASSUME NEW u \in DOMAIN db.passwd
      PROVE  /\ Membership[db][u].gids \in Seq(ToSet(Membership[db][u].gids))
             /\ Membership[db][u].names \in Seq(ToSet(Membership[db][u].names))
  BY MembershipIs, OwnMembers
<1>3. /\ Model \in Seq(ToSet(Model))
      /\ Append(Model, Nul) \in Seq(ToSet(Append(Model, Nul)))
      /\ <<"Raspbian", "10">> \in Seq(ToSet(<<"Raspbian", "10">>))
  <2> DEFINE R == {"Raspberry", "Pi", "4", "Model", "B", "Rev", "1.2", "Raspbian", "10", Nul}
  <2>1. Model \in Seq(R) /\ <<"Raspbian", "10">> \in Seq(R) /\ Nul \in R
    BY DEF Model
  <2> HIDE DEF R
  <2>2. Append(Model, Nul) \in Seq(R)
    BY <2>1
  <2> QED
    BY <2>1, <2>2, OwnMembers
<1>4. \A x : <<x>> \in Seq(ToSet(<<x>>))
  <2> TAKE x
  <2>1. <<x>> \in Seq({x})
    OBVIOUS
  <2> QED
    BY <2>1, OwnMembers
<1>5. Status[1].v \in Seq(ToSet(Status[1].v)) /\ Status[1] = Answer("gids", "pi", Status[1].v)
  <2> DEFINE v == <<4, 20, 24, 27, 29, 44, 46, 60, 100, 105, 109, 117, 994, 997, 998,
                    999, 1000>>
  <2>1. v \in Seq(Int)
    OBVIOUS
  <2>2. Status[1] = Answer("gids", "pi", v)
    BY DEF Status
  <2> HIDE DEF v
  <2>3. Status[1].v = v
    BY <1>1, <2>2
  <2> QED
    BY <2>1, <2>2, <2>3, OwnMembers
<1>6. PICK q \in {"model", "system", "cpus", "memory", "swap", "apt", "hostname", "gids",
                  "names"} :
        \E of \in {Device, "pi"} \cup DOMAIN db.passwd : \E v :
          a = Answer(q, of, v) /\ v \in Seq(ToSet(v))
  BY <1>2, <1>3, <1>4, <1>5 DEF Facts
<1>7. PICK of \in {Device, "pi"} \cup DOMAIN db.passwd :
        \E v : a = Answer(q, of, v) /\ v \in Seq(ToSet(v))
  BY <1>6
<1>8. PICK v : a = Answer(q, of, v) /\ v \in Seq(ToSet(v))
  BY <1>7
<1> QED
  BY <1>1, <1>8 DEF Questions

\* Once the byte is gone, deleting it again changes nothing.
LEMMA TwiceWithoutNul ==
  ASSUME NEW db \in Accounts, NEW a \in Facts(db)
  PROVE  WithoutNul(WithoutNul(a)) = WithoutNul(a)
<1> DEFINE v == a.v
           w == Keep(v, ToSet(v) \ {Nul})
<1>1. v \in Seq(ToSet(v))
  BY FactsAre
<1> HIDE DEF v
<1>2. w \in Seq(ToSet(v)) /\ ToSet(w) = ToSet(v) \cap (ToSet(v) \ {Nul})
  BY <1>1, KeepIs
<1> HIDE DEF w
<1>3. Keep(w, ToSet(w) \ {Nul}) = w
  <2>1. ToSet(w) \subseteq ToSet(w) \ {Nul}
    BY <1>2
  <2> QED
    BY <1>2, <2>1, KeepAll
<1>4. WithoutNul(a) = Answer(a.q, a.of, w)
  BY DEF WithoutNul, v, w
<1> QED
  BY <1>3, <1>4 DEF WithoutNul, Answer

\* And so for what can be told.
LEMMA TruthsAre ==
  ASSUME NEW db \in Accounts, NEW a \in Truths(db)
  PROVE  /\ a = Answer(a.q, a.of, a.v) /\ a.q # "error"
         /\ WithoutNul(a) \in Truths(db)
<1>1. CASE a \in Facts(db)
  BY <1>1, FactsAre DEF Truths, Questions
<1>2. CASE \E f \in Facts(db) : a = WithoutNul(f)
  <2>1. PICK f \in Facts(db) : a = WithoutNul(f)
    BY <1>2
  <2>2. WithoutNul(a) = a
    BY <2>1, TwiceWithoutNul
  <2>3. a.q = f.q /\ a = Answer(a.q, a.of, a.v)
    BY <2>1 DEF WithoutNul, Answer
  <2> QED
    BY <2>1, <2>2, <2>3, FactsAre DEF Questions
<1> QED
  BY <1>1, <1>2 DEF Truths

\* Where the byte that ends strings is all that is deleted, words stay words.
LEMMA LeftNul ==
  ASSUME NEW R, NEW v \in Seq(R), NEW del, del \subseteq {Nul}
  PROVE  Left(v, del) = v \/ Left(v, del) = Keep(v, ToSet(v) \ {Nul})
<1> DEFINE S == {w \in ToSet(v) : Letters(w) \cap del = {} \/ Letters(w) \ del # {}}
           kept == Keep(v, S)
           n == Len(kept)
<1>1. \A w : (w = Nul => Letters(w) = {Nul}) /\ (w # Nul => Nul \notin Letters(w))
  BY DEF Letters
<1>2. \A w \in S : Letters(w) \cap del = {}
  BY <1>1
<1>3. S = ToSet(v) \/ S = ToSet(v) \ {Nul}
  BY <1>1
<1>4. kept \in Seq(R) /\ ToSet(kept) \subseteq S
  <2> HIDE DEF S
  <2> QED
    BY KeepIs
<1>5. Left(v, del) = [i \in 1..n |->
                       IF Letters(kept[i]) \cap del = {} THEN kept[i] ELSE Garbled]
  BY Zenon DEF Left
<1>6. kept = v \/ kept = Keep(v, ToSet(v) \ {Nul})
  <2>1. CASE S = ToSet(v)
    <3> HIDE DEF S
    <3> QED
      BY <2>1, KeepAll
  <2>2. CASE S = ToSet(v) \ {Nul}
    <3> HIDE DEF S
    <3> QED
      BY <2>2
  <2> QED
    BY <1>3, <2>1, <2>2
<1> HIDE DEF kept, S
<1>7. /\ n \in Nat /\ DOMAIN kept = 1..n /\ kept = [i \in 1..n |-> kept[i]]
  BY <1>4
<1>8. \A i \in 1..n : Letters(kept[i]) \cap del = {}
  BY <1>2, <1>4, <1>7 DEF ToSet
<1> HIDE DEF n
<1>9. Left(v, del) = kept
  BY <1>5, <1>7, <1>8
<1> QED
  BY <1>6, <1>9

\* Whatever is deleted, words are left, those nobody meant among them.
LEMMA LeftIs ==
  ASSUME NEW R, NEW v \in Seq(R), NEW del
  PROVE  Left(v, del) \in Seq(R \cup {Garbled})
<1> DEFINE S == {w \in ToSet(v) : Letters(w) \cap del = {} \/ Letters(w) \ del # {}}
           kept == Keep(v, S)
           n == Len(kept)
<1>1. kept \in Seq(R)
  <2> HIDE DEF S
  <2> QED
    BY KeepIs
<1>2. Left(v, del) = [i \in 1..n |->
                       IF Letters(kept[i]) \cap del = {} THEN kept[i] ELSE Garbled]
  BY Zenon DEF Left
<1> HIDE DEF kept
<1>3. n \in Nat /\ \A i \in 1..n : kept[i] \in R
  BY <1>1
<1> HIDE DEF n
<1> QED
  BY <1>2, <1>3

\* What is true stays true in tr's hands.
LEMMA TruthsSound ==
  ASSUME DeletesOnlyNul, NEW db \in Accounts
  PROVE  Sound(Truths(db), db)
<1> DEFINE T == Truths(db)
<1>1. Facts(db) \subseteq T /\ \A a \in T : a.q # "error"
  BY TruthsAre DEF Truths
<1>2. ASSUME NEW stage \in Stage, NEW a \in T, stage.name = "tr", Deletes(stage.args)
      PROVE  [a EXCEPT !.v = Left(a.v, Expand(stage.args[2]))] \in T
  <2> DEFINE del == Expand(stage.args[2])
             w == Keep(a.v, ToSet(a.v) \ {Nul})
  <2>1. a = Answer(a.q, a.of, a.v) /\ WithoutNul(a) \in T /\ a \in T
    BY TruthsAre
  <2>2. WithoutNul(a) = Answer(a.q, a.of, w)
    BY DEF WithoutNul
  <2>3. a.v \in Seq(ToSet(a.v))
    <3>1. CASE a \in Facts(db)
      BY <3>1, FactsAre
    <3>2. CASE \E f \in Facts(db) : a = WithoutNul(f)
      <4>1. PICK f \in Facts(db) : a = WithoutNul(f)
        BY <3>2
      <4>2. a.v = Keep(f.v, ToSet(f.v) \ {Nul})
        BY <4>1 DEF WithoutNul, Answer
      <4>3. f.v \in Seq(ToSet(f.v))
        BY FactsAre
      <4>4. a.v \in Seq(ToSet(f.v))
        BY <4>2, <4>3, KeepIs
      <4> QED
        BY <4>4, OwnMembers
    <3> QED
      BY <3>1, <3>2 DEF Truths
  <2>4. del \subseteq {Nul}
    BY <1>2 DEF DeletesOnlyNul
  <2> HIDE DEF del, T
  <2>5. Left(a.v, del) = a.v \/ Left(a.v, del) = w
    BY <2>3, <2>4, LeftNul
  <2> HIDE DEF w
  <2>6. \A q, of, v, x : [Answer(q, of, v) EXCEPT !.v = x] = Answer(q, of, x)
    BY DEF Answer
  <2>7. \A x : [a EXCEPT !.v = x] = Answer(a.q, a.of, x)
    BY <2>1, <2>6
  <2>8. [a EXCEPT !.v = Left(a.v, del)] \in T
    BY <2>1, <2>2, <2>5, <2>7
  <2> QED
    BY <2>8 DEF del
<1>3. Closed(T)
  BY <1>2 DEF Closed
<1> QED
  BY <1>1, <1>3 DEF Sound

\* Every answer there can be: about the device or a user, in words that occur.
Words(db) == (UNION {ToSet(f.v) : f \in Facts(db)}) \cup {Garbled}

Possible(db) == [ q : Questions \ {"error"}, of : {Device, "pi"} \cup DOMAIN db.passwd,
                  v : Seq(Words(db)) ]

\* A list of words of a smaller set is one of a larger set.
LEMMA MoreWords ==
  ASSUME NEW R, NEW S, R \subseteq S, NEW v \in Seq(R)
  PROVE  v \in Seq(S)
<1> DEFINE n == Len(v)
<1>1. n \in Nat /\ v = [i \in 1..n |-> v[i]] /\ \A i \in 1..n : v[i] \in S
  OBVIOUS
<1> HIDE DEF n
<1>2. [i \in 1..n |-> v[i]] \in Seq(S)
  BY <1>1
<1> QED
  BY <1>1, <1>2, Zenon

\* Whatever is deleted of such an answer, one of them is left.
LEMMA PossibleSound ==
  ASSUME NEW db \in Accounts
  PROVE  Sound(Possible(db), db)
<1> DEFINE W == Words(db)
           Of == {Device, "pi"} \cup DOMAIN db.passwd
<1>1. \A a \in Possible(db) : a.q # "error"
  BY DEF Possible
<1>2. ASSUME NEW f \in Facts(db) PROVE f \in Possible(db)
  <2>1. /\ f = Answer(f.q, f.of, f.v) /\ f.v \in Seq(ToSet(f.v))
        /\ f.q \in Questions \ {"error"} /\ f.of \in Of
    BY FactsAre
  <2>2. ToSet(f.v) \subseteq W
    BY DEF Words
  <2> HIDE DEF W, Of
  <2>3. f.v \in Seq(W)
    BY <2>1, <2>2, MoreWords
  <2> QED
    BY <2>1, <2>3 DEF Possible, Answer, W, Of
<1>3. ASSUME NEW stage \in Stage, NEW a \in Possible(db)
      PROVE  [a EXCEPT !.v = Left(a.v, Expand(stage.args[2]))] \in Possible(db)
  <2> DEFINE x == Left(a.v, Expand(stage.args[2]))
  <2>1. a.v \in Seq(W) /\ W \cup {Garbled} = W
    BY DEF Possible, Words
  <2> HIDE DEF W
  <2>2. x \in Seq(W)
    BY <2>1, LeftIs
  <2> HIDE DEF x
  <2>3. [a EXCEPT !.v = x] \in Possible(db)
    BY <2>2 DEF Possible, W
  <2> QED
    BY <2>3 DEF x
<1> QED
  BY <1>1, <1>2, <1>3 DEF Sound, Closed

-----------------------------------------------------------------------------
(* What the commands print.                                                *)

\* All that can appear on the terminal.
Said(T) == T \cup Complaints

\* Lists of one and of two of them, and one list behind another.
LEMMA Prints ==
  ASSUME NEW S
  PROVE  /\ \A a \in S : <<a>> \in Seq(S)
         /\ \A a, b \in S : <<a, b>> \in Seq(S)
         /\ \A s, t \in Seq(S) : s \o t \in Seq(S)
<1>1. ASSUME NEW s \in Seq(S), NEW t \in Seq(S) PROVE s \o t \in Seq(S)
  BY ConcatProperties
<1> QED
  BY <1>1

\* The complaints, each a list of one.
LEMMA ErrorsSaid ==
  ASSUME NEW T,
         NEW text \in {"no such user", "invalid option", "no such command",
                       "invalid number of lines", "cannot open", "command not found",
                       "syntax error"}
  PROVE  Error(text) \in Seq(Said(T)) /\ Error(text)[1] \in Complaints
<1>1. Answer("error", Device, <<text>>) \in Complaints
  BY DEF Complaints
<1>2. Answer("error", Device, <<text>>) \in Said(T)
  BY <1>1 DEF Said
<1> QED
  BY <1>1, <1>2, Prints DEF Error

\* The lines about the device.
LEMMA FixedSaid ==
  ASSUME NEW db, NEW T, Facts(db) \subseteq T,
         NEW q, NEW v, Answer(q, Device, v) \in Facts(db)
  PROVE  Fixed(q, v) \in Seq(Said(T))
<1>1. Answer(q, Device, v) \in Said(T)
  BY DEF Said
<1> QED
  BY <1>1, Prints DEF Fixed

\* id and groups say of a user of the database what is true of him.
LEMMA AccountsSaid ==
  ASSUME accounts \in Accounts, NEW T, Facts(accounts) \subseteq T, NEW args
  PROVE  Id(args) \in Seq(Said(T)) /\ GroupsCommand(args) \in Seq(Said(T))
<1> DEFINE u == Subject(args)
           gids == Answer("gids", u, Membership[accounts][u].gids)
           names == Answer("names", u, Membership[accounts][u].names)
<1>1. CASE Known(u)
  <2>1. gids \in Said(T) /\ names \in Said(T)
    BY <1>1 DEF Known, Said, Facts
  <2>2. Id(args) = <<gids, names>> /\ GroupsCommand(args) = <<names>>
    BY <1>1 DEF Id, GroupsCommand
  <2> HIDE DEF gids, names
  <2> QED
    BY <2>1, <2>2, Prints
<1>2. CASE ~Known(u)
  BY <1>2, ErrorsSaid DEF Id, GroupsCommand
<1> QED
  BY <1>1, <1>2

\* The first lines of the input, or all but the last.
LEMMA HeadSaid ==
  ASSUME NEW T, NEW args, NEW input \in Seq(T)
  PROVE  HeadCommand(args, input) \in Seq(Said(T))
<1> DEFINE S == Said(T)
           L == Len(input)
           Upto(n) == IF n < 0 THEN L + n ELSE IF n < L THEN n ELSE L
           First(n) == SubSeq(input, 1, Upto(n))
<1>1. L \in Nat /\ \A i \in 1..L : input[i] \in S
  BY DEF Said
<1>2. ASSUME NEW n \in Int PROVE First(n) \in Seq(S)
  <2>1. Upto(n) \in Int /\ \A i \in 1..Upto(n) : i \in 1..L
    BY <1>1
  <2> HIDE DEF Upto, L, S
  <2>2. \A i \in 1..Upto(n) : input[i] \in S
    BY <1>1, <2>1
  <2> QED
    BY <2>1, <2>2, SubSeqProperties
<1>3. Error("cannot open") \in Seq(S) /\ Error("invalid number of lines") \in Seq(S)
  BY ErrorsSaid
<1>4. HeadCommand(args, input) =
        IF args = << >> THEN First(10)
        ELSE IF args[1] = "-1"
             THEN IF Len(args) = 1 THEN First(1) ELSE Error("cannot open")
        ELSE IF Len(args) < 2 \/ args[1] \notin {"-n", "--lines"} THEN Error("cannot open")
        ELSE IF args[2] \notin Int THEN Error("invalid number of lines")
        ELSE IF Len(args) = 2 THEN First(args[2]) ELSE Error("cannot open")
  BY DEF HeadCommand
<1> HIDE DEF First, S
<1>5. HeadCommand(args, input) \in Seq(S)
  <2>1. CASE args = << >>
    BY <1>2, <1>4, <2>1
  <2>2. CASE args # << >> /\ args[1] = "-1"
    <3>1. First(1) \in Seq(S)
      BY <1>2
    <3>2. HeadCommand(args, input) \in {First(1), Error("cannot open")}
      BY <1>4, <2>2
    <3> QED
      BY <1>3, <3>1, <3>2
  <2>3. CASE args # << >> /\ args[1] # "-1"
    <3>1. args[2] \in Int => First(args[2]) \in Seq(S)
      BY <1>2
    <3> QED
      BY <1>3, <1>4, <2>3, <3>1
  <2> QED
    BY <2>1, <2>2, <2>3
<1> QED
  BY <1>5 DEF S

\* tr passes answers on, without what it deletes.
LEMMA TrSaid ==
  ASSUME NEW T, Closed(T), NEW stage \in Stage, stage.name = "tr", NEW input \in Seq(T)
  PROVE  TrStart(stage.args, input).out \in Seq(Said(T))
<1> DEFINE n == Len(input)
           left(i) == [input[i] EXCEPT !.v = Left(input[i].v, Expand(stage.args[2]))]
           out == TrStart(stage.args, input).out
<1>1. n \in Nat /\ DOMAIN input = 1..n /\ \A i \in 1..n : input[i] \in T
  OBVIOUS
<1>2. CASE Deletes(stage.args)
  <2>1. out = [i \in 1..n |-> left(i)]
    BY <1>2 DEF TrStart, Leaving
  <2>2. \A i \in 1..n : left(i) \in T
    BY <1>1, <1>2 DEF Closed
  <2> HIDE DEF n, out, left
  <2>3. \A i \in 1..n : left(i) \in Said(T)
    BY <2>2 DEF Said
  <2>4. out \in Seq(Said(T))
    BY <1>1, <2>1, <2>3
  <2> QED
    BY <2>4 DEF out
<1>3. CASE ~Deletes(stage.args)
  <2>1. out = input
    BY <1>3 DEF TrStart, Leaving
  <2> QED
    BY <2>1 DEF Said
<1> QED
  BY <1>2, <1>3

\* The files that are answered here, or the input.
LEMMA CatSaid ==
  ASSUME NEW db, NEW T, Facts(db) \subseteq T, NEW args, NEW input \in Seq(T)
  PROVE  CatStart(args, input).out \in Seq(Said(T))
<1>1. Fixed("model", Append(Model, Nul)) \in Seq(Said(T))
  BY FixedSaid DEF Facts
<1>2. Status \in Seq(Said(T))
  <2>1. Status[1] \in Facts(db) /\ Status[2] \in Facts(db) /\ Status = <<Status[1], Status[2]>>
    BY DEF Facts, Status
  <2>2. Status[1] \in Said(T) /\ Status[2] \in Said(T)
    BY <2>1 DEF Said
  <2> QED
    BY <2>1, <2>2, Prints
<1>3. input \in Seq(Said(T))
  BY DEF Said
<1> QED
  BY <1>1, <1>2, <1>3 DEF CatStart, StockCatStart, Leaving, Staying

\* which finds apt and complains of each other command.
LEMMA WhichSaid ==
  ASSUME NEW db, NEW T, Facts(db) \subseteq T, NEW stage \in Stage
  PROVE  WhichCommand(stage.args) \in Seq(Said(T))
<1> DEFINE args == stage.args
           n == Len(args)
           e == Error("no such command")[1]
<1>1. n \in Nat /\ DOMAIN args = 1..n
  BY TypedAssumption
<1>2. Fixed("apt", <<"/usr/bin/apt">>) \in Seq(Said(T))
  BY FixedSaid DEF Facts
<1>3. e \in Said(T)
  BY ErrorsSaid DEF Said
<1> HIDE DEF e, n
<1>4. [i \in 1..n |-> e] \in Seq(Said(T))
  BY <1>1, <1>3
<1> QED
  BY <1>1, <1>2, <1>4 DEF WhichCommand, e

\* The commands with fixed answers.
LEMMA OthersSaid ==
  ASSUME NEW db, NEW T, Facts(db) \subseteq T, NEW args
  PROVE  /\ Nproc \in Seq(Said(T)) /\ Free \in Seq(Said(T))
         /\ LsbRelease(args) \in Seq(Said(T)) /\ Ifconfig \in Seq(Said(T))
<1>1. /\ Fixed("cpus", <<"4">>) \in Seq(Said(T))
      /\ Fixed("memory", <<"3.7Gi">>) \in Seq(Said(T))
      /\ Fixed("swap", <<"99Mi">>) \in Seq(Said(T))
      /\ Fixed("system", <<"Raspbian", "10">>) \in Seq(Said(T))
  BY FixedSaid DEF Facts
<1>2. Error("invalid option") \in Seq(Said(T)) /\ Error("command not found") \in Seq(Said(T))
  BY ErrorsSaid
<1>3. Free \in Seq(Said(T))
  BY <1>1, Prints DEF Free
<1> QED
  BY <1>1, <1>2, <1>3 DEF Nproc, LsbRelease, Ifconfig

\* What _patched_line_received answers itself.
LEMMA CannedSaid ==
  ASSUME NEW db, NEW T, Facts(db) \subseteq T, NEW line \in Typed, line.probe # "none"
  PROVE  Canned(line.probe) \in Seq(Said(T))
<1>1. line.probe \in {"syntax", "tree", "hostname", "summary"}
  BY TypedAssumption
<1>2. /\ Fixed("model", Model) \in Seq(Said(T))
      /\ Fixed("hostname", <<"raspberrypi">>) \in Seq(Said(T))
      /\ Fixed("system", <<"Raspbian", "10">>) \in Seq(Said(T))
      /\ Fixed("apt", <<"/usr/bin/apt">>) \in Seq(Said(T))
      /\ Fixed("cpus", <<"4">>) \in Seq(Said(T))
      /\ Fixed("memory", <<"3.7Gi">>) \in Seq(Said(T))
  BY FixedSaid DEF Facts
<1>3. Error("syntax error") \in Seq(Said(T))
  BY ErrorsSaid
<1>4. Fixed("system", <<"Raspbian", "10">>) \o Fixed("apt", <<"/usr/bin/apt">>)
        \o Fixed("cpus", <<"4">>) \o Fixed("memory", <<"3.7Gi">>) \in Seq(Said(T))
  BY <1>2, Prints
<1> QED
  BY <1>1, <1>2, <1>3, <1>4 DEF Canned

\* Every command prints such answers and complaints, given such answers.
LEMMA StartSaid ==
  ASSUME accounts \in Accounts, NEW T, Sound(T, accounts), NEW stage \in Stage,
         NEW input \in Seq(T)
  PROVE  Start(stage, input).out \in Seq(Said(T))
<1> DEFINE S == Seq(Said(T))
<1>1. Facts(accounts) \subseteq T /\ Closed(T)
  BY DEF Sound
<1>2. input \in S
  BY DEF Said
<1>3. Id(stage.args) \in S /\ GroupsCommand(stage.args) \in S
  BY <1>1, AccountsSaid
<1>4. HeadCommand(stage.args, input) \in S /\ CatStart(stage.args, input).out \in S
  BY <1>1, HeadSaid, CatSaid
<1>5. stage.name = "tr" => TrStart(stage.args, input).out \in S
  BY <1>1, TrSaid
<1>6. WhichCommand(stage.args) \in S
  BY <1>1, WhichSaid
<1>7. Nproc \in S /\ Free \in S /\ LsbRelease(stage.args) \in S /\ Ifconfig \in S
  BY <1>1, OthersSaid
<1>8. \A x \in S : Leaving(x).out \in S
  BY DEF Leaving
<1> HIDE DEF S
<1>9. Start(stage, input).out \in S
  BY <1>2, <1>3, <1>4, <1>5, <1>6, <1>7, <1>8 DEF Start
<1> QED
  BY <1>9 DEF S

-----------------------------------------------------------------------------
(* What is on the terminal.                                                *)

\* Such answers pass through a pipeline, they and complaints are shown.
AnswersIn(T) == data \in Seq(T) /\ shown \subseteq Said(T)

\* The items of a list of answers and complaints.
LEMMA SaidItems ==
  ASSUME NEW T, \A a \in T : a.q # "error", NEW out \in Seq(Said(T))
  PROVE  LET errors == {a \in ToSet(out) : a.q = "error"}
         IN ToSet(out) \subseteq Said(T) /\ Keep(out, ToSet(out) \ errors) \in Seq(T)
<1> DEFINE S == Said(T)
           errors == {a \in ToSet(out) : a.q = "error"}
           kept == Keep(out, ToSet(out) \ errors)
           n == Len(kept)
<1>1. ToSet(out) \subseteq S
  BY DEF ToSet
<1>2. S = T \cup Complaints /\ \A a \in Complaints : a.q = "error"
  <2>1. \A of, v : Answer("error", of, v).q = "error"
    BY DEF Answer
  <2>2. \A a \in Complaints : a.q = "error"
    BY <2>1, Zenon DEF Complaints
  <2> QED
    BY <2>2 DEF Said
<1>3. kept \in Seq(S) /\ ToSet(kept) = ToSet(out) \cap (ToSet(out) \ errors)
  <2> HIDE DEF S, errors
  <2> QED
    BY KeepIs DEF S
<1>4. \A a \in ToSet(kept) : a \in T
  <2>1. \A a \in ToSet(out) \ errors : a.q # "error"
    OBVIOUS
  <2> HIDE DEF S, errors, kept
  <2> QED
    BY <1>1, <1>2, <1>3, <2>1
<1> HIDE DEF S, kept, errors
<1>5. /\ n \in Nat /\ DOMAIN kept = 1..n /\ kept = [i \in 1..n |-> kept[i]]
  BY <1>3
<1>6. \A i \in 1..n : kept[i] \in T
  BY <1>4, <1>5 DEF ToSet
<1> HIDE DEF n
<1>7. [i \in 1..n |-> kept[i]] \in Seq(T)
  BY <1>5, <1>6
<1>8. kept \in Seq(T)
  BY <1>5, <1>7, Zenon
<1> QED
  BY <1>1, <1>8 DEF S, kept, errors

\* A line that is typed shows what it is answered with.
LEMMA TypedAnswers ==
  ASSUME NEW T, Facts(accounts) \subseteq T, AnswersIn(T),
         NEW line \in Typed, LineReceived(line)
  PROVE  data' \in Seq(T) /\ shown' \subseteq Said(T) /\ UNCHANGED accounts
<1>1. data' = data /\ accounts' = accounts
  BY DEF LineReceived
<1>2. shown' \subseteq Said(T)
  <2>1. CASE line.probe = "none"
    <3>1. shown' = shown
      BY <2>1 DEF LineReceived
    <3> QED
      BY <3>1 DEF AnswersIn
  <2>2. CASE line.probe # "none"
    <3>1. shown' = shown \cup ToSet(Canned(line.probe))
      BY <2>2 DEF LineReceived
    <3>2. Canned(line.probe) \in Seq(Said(T))
      BY <2>2, CannedSaid
    <3>3. ToSet(Canned(line.probe)) \subseteq Said(T)
      BY <3>2 DEF ToSet
    <3> QED
      BY <3>1, <3>3 DEF AnswersIn
  <2> QED
    BY <2>1, <2>2
<1> QED
  BY <1>1, <1>2 DEF AnswersIn

\* A stage passes answers on, and shows its complaints, or all if it is the last.
LEMMA StageAnswers ==
  ASSUME PromptInv, accounts \in Accounts, NEW T, Sound(T, accounts), AnswersIn(T),
         RunStage
  PROVE  data' \in Seq(T) /\ shown' \subseteq Said(T) /\ UNCHANGED accounts
<1> DEFINE started == Start(Head(pipeline), data)
           out == started.out
           errors == {a \in ToSet(out) : a.q = "error"}
           kept == Keep(out, ToSet(out) \ errors)
<1>1. /\ pipeline # << >> /\ accounts' = accounts
      /\ shown' = shown \cup (IF Len(pipeline) > 1 THEN errors ELSE ToSet(out))
      /\ Exit(kept) \/ UNCHANGED data
  BY Zenon DEF RunStage
<1>2. Head(pipeline) \in Stage
  BY <1>1 DEF PromptInv
<1>3. data \in Seq(T) /\ shown \subseteq Said(T) /\ \A a \in T : a.q # "error"
  BY DEF AnswersIn, Sound
<1>4. out \in Seq(Said(T))
  BY <1>2, <1>3, StartSaid
<1> HIDE DEF out
<1>5. ToSet(out) \subseteq Said(T) /\ kept \in Seq(T)
  BY <1>3, <1>4, SaidItems
<1>6. errors \subseteq ToSet(out)
  OBVIOUS
<1> HIDE DEF errors, kept
<1>7. shown' \subseteq Said(T)
  BY <1>1, <1>3, <1>5, <1>6
<1>8. data' \in {kept, << >>, data}
  BY <1>1 DEF Exit
<1>9. << >> \in Seq(T)
  OBVIOUS
<1> QED
  BY <1>1, <1>3, <1>5, <1>7, <1>8, <1>9

\* No step shows or hands on anything else.
LEMMA AnswersStep ==
  ASSUME PromptInv, accounts \in Accounts, NEW T, Sound(T, accounts), AnswersIn(T),
         [Next]_vars
  PROVE  data' \in Seq(T) /\ shown' \subseteq Said(T) /\ UNCHANGED accounts
<1>1. CASE Import \/ Login \/ UNCHANGED vars
  <2>1. UNCHANGED <<accounts, data, shown>>
    BY <1>1 DEF Import, Login, vars, running
  <2> QED
    BY <2>1 DEF AnswersIn
<1>2. ASSUME NEW line \in Typed, LineReceived(line)
      PROVE  data' \in Seq(T) /\ shown' \subseteq Said(T) /\ UNCHANGED accounts
  BY <1>2, TypedAnswers DEF Sound
<1>3. CASE RunStage
  BY <1>3, StageAnswers
<1>4. CASE EndOfInput
  <2>1. data' = << >> /\ UNCHANGED <<accounts, shown>>
    BY <1>4 DEF EndOfInput, Exit
  <2> QED
    BY <2>1 DEF AnswersIn
<1> QED
  BY <1>1, <1>2, <1>3, <1>4 DEF Next

\* What is handed on and shown is possible.
PossibleInv == accounts \in Accounts /\ AnswersIn(Possible(accounts))

LEMMA PossibleInvariant == Spec => []PossibleInv
<1>1. Init => PossibleInv
  BY DEF Init, PossibleInv, AnswersIn
<1>2. PossibleInv /\ PromptInv /\ [Next]_vars => PossibleInv'
  <2> SUFFICES ASSUME PossibleInv, PromptInv, [Next]_vars PROVE PossibleInv'
    OBVIOUS
  <2>1. PICK db \in Accounts : db = accounts
    BY DEF PossibleInv
  <2>2. Sound(Possible(db), db)
    BY PossibleSound
  <2>3. AnswersIn(Possible(db)) /\ accounts \in Accounts
    BY <2>1 DEF PossibleInv
  <2>4. /\ data' \in Seq(Possible(db)) /\ shown' \subseteq Said(Possible(db))
        /\ UNCHANGED accounts
    BY <2>1, <2>2, <2>3, AnswersStep
  <2> QED
    BY <2>1, <2>4 DEF PossibleInv, AnswersIn
<1> QED
  BY <1>1, <1>2, PromptInvariant, PTL DEF Spec

\* Whatever lines are typed, and whatever Cowrie's modules define: every answer
\* shown or handed on from stage to stage is a list of words about the device or
\* a user it knows, no complaint is handed on, no command waits but one that was
\* started, and after the imports the overrides run (__all__, commands,
\* _patched_line_received, the call and start of each command).
THEOREM TypesCorrect == Spec => []TypeOK
<1>1. PromptInv /\ ShellTypes /\ PossibleInv => TypeOK
  <2> SUFFICES ASSUME PromptInv, ShellTypes, PossibleInv PROVE TypeOK
    OBVIOUS
  <2>1. lines \in 0..MaxLines /\ prompts \in Nat /\ MaxLines \in Nat
    BY BoundAssumption DEF PromptInv, ShellTypes
  <2>2. prompts = 0 \/ prompts <= lines + 1
    BY <2>1 DEF PromptInv, OnePrompt
  <2>3. prompts \in 0..(MaxLines + 1)
    BY <2>1, <2>2
  <2>4. ASSUME NEW a \in Possible(accounts) PROVE IsAnswer(a) /\ a.q # "error"
    <3>1. a.v \in Seq(Words(accounts))
      BY DEF Possible
    <3>2. DOMAIN a.v = 1..Len(a.v)
      BY <3>1
    <3>3. /\ a = Answer(a.q, a.of, a.v) /\ a.q \in Questions \ {"error"}
          /\ a.of \in {Device, "pi"} \cup DOMAIN accounts.passwd
      BY DEF Possible, Answer
    <3> QED
      BY <3>2, <3>3 DEF IsAnswer
  <2>5. ASSUME NEW a \in Complaints PROVE IsAnswer(a)
    <3>1. PICK text : a = Answer("error", Device, <<text>>)
      BY Zenon DEF Complaints
    <3>2. /\ a.q = "error" /\ a.of = Device /\ a.v = <<text>>
          /\ a = Answer(a.q, a.of, a.v)
      BY <3>1 DEF Answer
    <3>3. DOMAIN a.v = 1..Len(a.v)
      BY <3>2
    <3> QED
      BY <3>2, <3>3 DEF IsAnswer, Questions
  <2>6. /\ DOMAIN data = 1..Len(data)
        /\ \A a \in ToSet(data) : a \in Possible(accounts)
        /\ \A a \in shown : a \in Possible(accounts) \/ a \in Complaints
    <3>1. data \in Seq(Possible(accounts)) /\ shown \subseteq Possible(accounts) \cup Complaints
      BY DEF PossibleInv, AnswersIn, Said
    <3> QED
      BY <3>1 DEF ToSet
  <2>7. /\ \A a \in ToSet(data) : IsAnswer(a) /\ a.q # "error"
        /\ \A a \in shown : IsAnswer(a)
    BY <2>4, <2>5, <2>6
  <2>8. waiting => pipeline # << >>
    BY DEF PromptInv
  <2> QED
    BY <2>3, <2>6, <2>7, <2>8 DEF ShellTypes, TypeOK
<1> QED
  BY <1>1, ShellInvariant, PossibleInvariant, PTL

\* Where tr deletes no more than the end of a string, only truths pass through a
\* pipeline, and only truths and complaints are shown.
AnswersInv ==
  /\ DeletesOnlyNul
  /\ accounts \in Accounts
  /\ AnswersIn(Truths(accounts))

LEMMA AnswersInvariant == DeletesOnlyNul /\ Spec => []AnswersInv
<1>1. DeletesOnlyNul /\ Init => AnswersInv
  BY DEF Init, AnswersInv, AnswersIn
<1>2. AnswersInv /\ PromptInv /\ [Next]_vars => AnswersInv'
  <2> SUFFICES ASSUME AnswersInv, PromptInv, [Next]_vars PROVE AnswersInv'
    OBVIOUS
  <2>1. PICK db \in Accounts : db = accounts
    BY DEF AnswersInv
  <2>2. Sound(Truths(db), db)
    BY TruthsSound DEF AnswersInv
  <2>3. AnswersIn(Truths(db)) /\ accounts \in Accounts
    BY <2>1 DEF AnswersInv
  <2>4. /\ data' \in Seq(Truths(db)) /\ shown' \subseteq Said(Truths(db))
        /\ UNCHANGED accounts
    BY <2>1, <2>2, <2>3, AnswersStep
  <2> QED
    BY <2>1, <2>4 DEF AnswersInv, AnswersIn
<1> QED
  BY <1>1, <1>2, PromptInvariant, PTL DEF Spec

\* What is shown about the groups of a user is what is printed of him, and for
\* one that /proc/self/status gives the groups of, that.
LEMMA GroupsShown ==
  ASSUME AnswersInv, NEW a \in shown, a.q \in {"gids", "names"}
  PROVE  \/ a = Status[1]
         \/ /\ a.of \in DOMAIN accounts.passwd
            /\ LET m == Membership[accounts][a.of]
               IN a.v = IF a.q = "gids" THEN m.gids ELSE m.names
<1> DEFINE db == accounts
<1>1. db \in Accounts /\ a \in Truths(db)
  <2>1. a \in Truths(db) \cup Complaints /\ db \in Accounts
    BY DEF AnswersInv, AnswersIn, Said
  <2>2. \A of, v : Answer("error", of, v).q = "error"
    BY DEF Answer
  <2>3. \A b \in Complaints : b.q = "error"
    BY <2>2, Zenon DEF Complaints
  <2> QED
    BY <2>1, <2>3
<1>2. PICK f \in Facts(db) : a = f \/ a = WithoutNul(f)
  BY <1>1 DEF Truths
<1>3. f.q = a.q /\ f.of = a.of /\ f = Answer(f.q, f.of, f.v)
  BY <1>1, <1>2, FactsAre DEF WithoutNul, Answer
<1>4. \/ f = Status[1]
      \/ \E u \in DOMAIN db.passwd : \/ f = Answer("gids", u, Membership[db][u].gids)
                                     \/ f = Answer("names", u, Membership[db][u].names)
  BY <1>2, <1>3 DEF Facts, Answer
<1>5. ASSUME NEW R, f.v \in Seq(R), Nul \notin ToSet(f.v) PROVE a = f
  <2>1. ToSet(f.v) \subseteq ToSet(f.v) \ {Nul}
    BY <1>5
  <2>2. Keep(f.v, ToSet(f.v) \ {Nul}) = f.v
    BY <1>5, <2>1, KeepAll
  <2>3. WithoutNul(f) = f
    BY <1>3, <2>2 DEF WithoutNul
  <2> QED
    BY <1>2, <2>3
<1>6. CASE f = Status[1]
  <2> DEFINE v == <<4, 20, 24, 27, 29, 44, 46, 60, 100, 105, 109, 117, 994, 997, 998,
                    999, 1000>>
  <2>1. v \in Seq(Int)
    OBVIOUS
  <2>2. f = Answer("gids", "pi", v)
    BY <1>6 DEF Status
  <2> HIDE DEF v
  <2>3. f.v \in Seq(Int)
    BY <2>1, <2>2 DEF Answer
  <2>4. Nul \notin ToSet(f.v)
    BY <2>3, AccountsAssumption DEF ToSet
  <2> QED
    BY <1>5, <1>6, <2>3, <2>4
<1>7. ASSUME NEW u \in DOMAIN db.passwd,
             \/ f = Answer("gids", u, Membership[db][u].gids)
             \/ f = Answer("names", u, Membership[db][u].names)
      PROVE  /\ a.of \in DOMAIN accounts.passwd
             /\ LET m == Membership[accounts][a.of]
                IN a.v = IF a.q = "gids" THEN m.gids ELSE m.names
  <2> DEFINE m == Membership[db][u]
  <2>1. m.gids \in Seq(Int) /\ m.names \in Seq(ToSet(m.names)) /\ Nul \notin ToSet(m.names)
    BY <1>1, MembershipIs
  <2>2. Nul \notin ToSet(m.gids)
    <3> HIDE DEF m
    <3> QED
      BY <2>1, AccountsAssumption DEF ToSet
  <2> HIDE DEF m
  <2>3. /\ f.of = u
        /\ (f.q = "gids" /\ f.v = m.gids) \/ (f.q = "names" /\ f.v = m.names)
    <3>1. \A q, of, v : LET b == Answer(q, of, v) IN b.q = q /\ b.of = of /\ b.v = v
      BY DEF Answer
    <3> QED
      BY <1>7, <3>1 DEF m
  <2>4. a = f
    BY <1>5, <2>1, <2>2, <2>3
  <2> QED
    BY <2>3, <2>4 DEF m
<1> QED
  BY <1>4, <1>6, <1>7

\* id and groups show what Linux shows of every user, in its order, whatever
\* pipelines the answers go through, as long as tr does not delete characters
\* of them (_group_entries, Command_id_rpi4, Command_groups_rpi4).
THEOREM GroupsAlwaysAsLinux == DeletesOnlyNul /\ Spec => []GroupsAsLinux
<1>1. AnswersInv => GroupsAsLinux
  <2> SUFFICES ASSUME AnswersInv, NEW u \in DOMAIN accounts.passwd
               PROVE  LET Told(q) == {a.v : a \in {a \in shown : a.q = q /\ a.of = u}}
                          others  == GroupsOf(accounts, u)
                      IN /\ \A v \in Told("gids") \ {Status[1].v} :
                              /\ v[1] = accounts.passwd[u]
                              /\ ToSet(Tail(v)) = others \ {v[1]}
                              /\ \A i, j \in 2..Len(v) : i < j => v[i] < v[j]
                         /\ Cardinality(Told("names")) <= 1
    BY DEF GroupsAsLinux, GroupsOf
  <2> DEFINE Told(q) == {a.v : a \in {a \in shown : a.q = q /\ a.of = u}}
             m == Membership[accounts][u]
  <2>1. /\ m.gids[1] = accounts.passwd[u]
        /\ ToSet(Tail(m.gids)) = GroupsOf(accounts, u) \ {m.gids[1]}
        /\ \A i, j \in 2..Len(m.gids) : i < j => m.gids[i] < m.gids[j]
    BY MembershipIs DEF AnswersInv
  <2> HIDE DEF m
  <2>2. ASSUME NEW v \in Told("gids") \ {Status[1].v} PROVE v = m.gids
    <3>1. PICK a \in shown : a.q = "gids" /\ a.of = u /\ a.v = v
      BY <2>2
    <3>2. a # Status[1]
      BY <2>2, <3>1
    <3> QED
      BY <3>1, <3>2, GroupsShown DEF m
  <2>3. Told("names") \subseteq {m.names}
    <3>1. SUFFICES ASSUME NEW a \in shown, a.q = "names", a.of = u PROVE a.v = m.names
      OBVIOUS
    <3>2. Status[1].q = "gids"
      BY DEF Status, Answer
    <3> QED
      BY <3>1, <3>2, GroupsShown DEF m
  <2>4. Cardinality(Told("names")) <= 1
    <3> DEFINE T == Told("names")
    <3>1. T = {} \/ T = {m.names}
      BY <2>3
    <3> HIDE DEF T
    <3>2. Cardinality(T) \in {0, 1}
      <4>1. Cardinality({}) = 0 /\ Cardinality({m.names}) = 1
        BY FS_EmptySet, FS_Singleton
      <4> QED
        BY <3>1, <4>1
    <3> QED
      BY <3>2 DEF T
  <2> QED
    BY <2>1, <2>2, <2>4
<1> QED
  BY <1>1, AnswersInvariant, PTL

\* In every database with a user pi his groups are those of /proc/self/status.
PiAsStatus ==
  \A db \in Accounts : "pi" \in DOMAIN db.passwd =>
    {db.passwd["pi"]} \cup GroupsOf(db, "pi") = ToSet(Status[1].v)

\* Two facts about the same question agree.
LEMMA FactsAgree ==
  ASSUME PiAsStatus, NEW db \in Accounts, NEW f \in Facts(db), NEW g \in Facts(db),
         f.q = g.q, f.of = g.of
  PROVE  ToSet(f.v) \ {Nul} = ToSet(g.v) \ {Nul}
<1>1. \A q, of, v : LET b == Answer(q, of, v) IN b.q = q /\ b.of = of /\ b.v = v
  BY DEF Answer
<1>2. Status[1] = Answer("gids", "pi", Status[1].v)
  BY DEF Status, Answer
<1>3. CASE f.q \in {"system", "cpus", "memory", "swap", "apt", "hostname"}
  <2>1. \A h \in Facts(db) :
          /\ h.q = "system" => h.v = <<"Raspbian", "10">>
          /\ h.q = "cpus" => h.v = <<"4">>
          /\ h.q = "memory" => h.v = <<"3.7Gi">>
          /\ h.q = "swap" => h.v = <<"99Mi">>
          /\ h.q = "apt" => h.v = <<"/usr/bin/apt">>
          /\ h.q = "hostname" => h.v = <<"raspberrypi">>
    BY <1>1, <1>2 DEF Facts
  <2>2. f.v = g.v
    BY <1>3, <2>1
  <2> QED
    BY <2>2
<1>4. CASE f.q = "model"
  <2>1. \A h \in Facts(db) : h.q = "model" => h.v \in {Model, Append(Model, Nul)}
    <3> DEFINE x == Append(Model, Nul)
               Is(h) == \/ h.v \in {Model, x}
                        \/ \E q \in {"system", "cpus", "memory", "swap", "apt",
                                    "hostname", "gids", "names"} : h.q = q
    <3> HIDE DEF x
    <3>1. Is(Answer("model", Device, x)) /\ Is(Answer("model", Device, Model))
      BY <1>1
    <3>2. \A q \in {"system", "cpus", "memory", "swap", "apt", "hostname", "gids", "names"} :
            \A of, v : Is(Answer(q, of, v))
      BY <1>1
    <3> HIDE DEF Is
    <3>3. \A h \in Facts(db) : Is(h)
      BY <1>2, <3>1, <3>2 DEF Facts, x
    <3> QED
      BY <3>3 DEF Is, x
  <2>2. ToSet(Append(Model, Nul)) = ToSet(Model) \cup {Nul}
    <3> DEFINE R == {"Raspberry", "Pi", "4", "Model", "B", "Rev", "1.2", Nul}
    <3>1. Model \in Seq(R) /\ Nul \in R
      BY DEF Model
    <3> HIDE DEF R
    <3> QED
      BY <3>1, AppendItems
  <2> QED
    BY <1>4, <2>1, <2>2
<1>5. CASE f.q = "names"
  <2>1. \A h \in Facts(db) : h.q = "names" => h.v = Membership[db][h.of].names
    BY <1>1, <1>2 DEF Facts
  <2> QED
    BY <1>5, <2>1
<1>6. CASE f.q = "gids"
  <2>1. \A h \in Facts(db) : h.q = "gids" =>
          \/ h = Status[1]
          \/ h.of \in DOMAIN db.passwd /\ h.v = Membership[db][h.of].gids
    BY <1>1, <1>2 DEF Facts
  <2>2. "pi" \in DOMAIN db.passwd => ToSet(Membership[db]["pi"].gids) = ToSet(Status[1].v)
    BY MembershipIs DEF PiAsStatus
  <2>3. Status[1].of = "pi"
    BY <1>1, <1>2
  <2> QED
    BY <1>6, <2>1, <2>2, <2>3
<1>7. f.q \in {"system", "cpus", "memory", "swap", "apt", "hostname", "model", "names", "gids"}
  BY <1>1, <1>2 DEF Facts
<1> QED
  BY <1>3, <1>4, <1>5, <1>6, <1>7

\* However something is asked, by a probe, a command, a pipeline or a file of
\* /proc, the device and its users are described alike.
THEOREM OneAlwaysPicture ==
  ASSUME PiAsStatus
  PROVE  DeletesOnlyNul /\ Spec => []OnePicture
<1>1. AnswersInv => OnePicture
  <2> SUFFICES ASSUME AnswersInv, NEW a \in shown, NEW b \in shown,
                      a.q = b.q, a.of = b.of, a.q # "error"
               PROVE  ToSet(a.v) \ {Nul} = ToSet(b.v) \ {Nul}
    BY DEF OnePicture
  <2> DEFINE db == accounts
  <2>1. ASSUME NEW c \in shown, c.q # "error"
        PROVE  \E f \in Facts(db) : /\ f.q = c.q /\ f.of = c.of
                                    /\ ToSet(f.v) \ {Nul} = ToSet(c.v) \ {Nul}
    <3>1. c \in Truths(db) /\ db \in Accounts
      <4>1. c \in Truths(db) \cup Complaints /\ db \in Accounts
        BY DEF AnswersInv, AnswersIn, Said
      <4>2. \A of, v : Answer("error", of, v).q = "error"
        BY DEF Answer
      <4>3. \A d \in Complaints : d.q = "error"
        BY <4>2, Zenon DEF Complaints
      <4> QED
        BY <2>1, <4>1, <4>3
    <3>2. PICK f \in Facts(db) : c = f \/ c = WithoutNul(f)
      BY <3>1 DEF Truths
    <3>3. CASE c = WithoutNul(f)
      <4> DEFINE w == Keep(f.v, ToSet(f.v) \ {Nul})
      <4>1. f.v \in Seq(ToSet(f.v))
        BY <3>1, FactsAre
      <4>2. ToSet(w) = ToSet(f.v) \cap (ToSet(f.v) \ {Nul})
        BY <4>1, KeepIs
      <4>3. c.q = f.q /\ c.of = f.of /\ c.v = w
        BY <3>3 DEF WithoutNul, Answer
      <4> HIDE DEF w
      <4> QED
        BY <4>2, <4>3
    <3> QED
      BY <3>2, <3>3
  <2>2. PICK f \in Facts(db) : /\ f.q = a.q /\ f.of = a.of
                               /\ ToSet(f.v) \ {Nul} = ToSet(a.v) \ {Nul}
    BY <2>1
  <2>3. PICK g \in Facts(db) : /\ g.q = b.q /\ g.of = b.of
                               /\ ToSet(g.v) \ {Nul} = ToSet(b.v) \ {Nul}
    BY <2>1
  <2>4. db \in Accounts
    BY DEF AnswersInv
  <2> HIDE DEF db
  <2>5. ToSet(f.v) \ {Nul} = ToSet(g.v) \ {Nul}
    BY <2>2, <2>3, <2>4, FactsAgree
  <2> QED
    BY <2>2, <2>3, <2>5
<1> QED
  BY <1>1, AnswersInvariant, PTL
=============================================================================
