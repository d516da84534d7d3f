----------------------------- MODULE SequenceFacts -----------------------------
(* Facts about queues, logs and numbers that the proofs of several          *)
(* components use.                                                          *)
EXTENDS Integers, Sequences, Selection, SequenceTheorems, WellFoundedInduction, TLAPS

(* Dropping the first k entries of a queue leaves the others, in order.     *)
LEMMA DropPrefix ==
    ASSUME NEW S, NEW q \in Seq(S), NEW k \in 0..Len(q)
    PROVE  /\ SubSeq(q, k + 1, Len(q)) \in Seq(S)
           /\ Len(SubSeq(q, k + 1, Len(q))) = Len(q) - k
           /\ \A n \in 1..(Len(q) - k) : SubSeq(q, k + 1, Len(q))[n] = q[k + n]
<1>1. Len(q) \in Nat /\ k \in Nat /\ k <= Len(q)
  BY LenProperties
<1>2. \A n \in (k + 1)..Len(q) : q[n] \in S
  BY <1>1, ElementOfSeq
<1>3. /\ SubSeq(q, k + 1, Len(q)) \in Seq(S)
      /\ Len(SubSeq(q, k + 1, Len(q))) = IF k + 1 <= Len(q) THEN Len(q) - (k + 1) + 1 ELSE 0
      /\ \A n \in 1..(Len(q) - (k + 1) + 1) : SubSeq(q, k + 1, Len(q))[n] = q[(k + 1) + n - 1]
  BY <1>1, <1>2, SubSeqProperties
<1> QED
  BY <1>1, <1>3

(* Appending keeps the entries of a log and puts the new one last.          *)
LEMMA AppendLast ==
    ASSUME NEW S, NEW q \in Seq(S), NEW x \in S
    PROVE  /\ Append(q, x) \in Seq(S)
           /\ Len(q) \in Nat /\ Len(Append(q, x)) = Len(q) + 1
           /\ \A n \in 1..Len(q) : Append(q, x)[n] = q[n]
           /\ Append(q, x)[Len(q) + 1] = x
           /\ \A n \in 1..Len(Append(q, x)) : n \in 1..Len(q) \/ n = Len(q) + 1
<1>1. Len(q) \in Nat
  BY LenProperties
<1>2. /\ Append(q, x) \in Seq(S)
      /\ Len(Append(q, x)) = Len(q) + 1
      /\ \A n \in 1..Len(q) : Append(q, x)[n] = q[n]
      /\ Append(q, x)[Len(q) + 1] = x
  BY AppendProperties, LenProperties
<1> QED
  BY <1>1, <1>2

----------------------------------------------------------------------------
(* The order of the numbers.                                                *)
Below == {p \in Nat \X Nat : p[1] < p[2]}

(* The order of the numbers, as a relation, is well founded.                *)
LEMMA BelowWellFounded == IsWellFoundedOn(Below, Nat)
<1>1. IsWellFoundedOn(OpToRel(<, Nat), Nat)
  BY NatLessThanWellFounded, Zenon
<1>2. OpToRel(<, Nat) = {p \in Nat \X Nat : p[1] < p[2]}
  BY Zenon DEF OpToRel
<1> QED
  BY <1>1, <1>2 DEF Below

(* Every set of numbers has a least one.                                    *)
LEMMA LeastNat ==
    ASSUME NEW S \in SUBSET Nat, S # {}
    PROVE  \E n \in S : \A m \in S : n <= m
<1>1. PICK n \in S : \A m \in S : <<m, n>> \notin Below
  BY BelowWellFounded, WFMin, Zenon
<1>2. \A m \in Nat : m < n => <<m, n>> \in Below
  <2>1. n \in Nat
    OBVIOUS
  <2> QED
    BY <2>1 DEF Below
<1>3. \A m \in S : m \in Nat /\ n \in Nat /\ ~(m < n)
  BY <1>1, <1>2
<1> QED
  BY <1>3

(* Induction, for a set and not for an operator.                            *)
LEMMA NatInductionOnSet ==
    ASSUME NEW P, 0 \in P, \A n \in Nat : n \in P => n + 1 \in P
    PROVE  \A n \in Nat : n \in P
<1>1. SUFFICES ASSUME Nat \ P # {} PROVE FALSE
  OBVIOUS
<1>2. PICK n \in Nat \ P : \A m \in Nat \ P : n <= m
  BY <1>1, LeastNat
<1>3. n - 1 \in Nat /\ n - 1 \notin Nat \ P
  BY <1>2
<1>4. (n - 1) + 1 \in P
  BY <1>3
<1> QED
  BY <1>2, <1>4

(* A function defined by recursion over the numbers: f begins with base,    *)
(* and each value follows from the one before by the step of that place.    *)
StepsOn(T) == [Nat -> [T -> T]]
Iterates(f, T, base, step) ==
    f \in [Nat -> T] /\ f[0] = base /\ \A i \in Nat : i # 0 => f[i] = step[i][f[i - 1]]

(* There is one for every base and step.                                    *)
LEMMA RecursiveFunction ==
    ASSUME NEW T, NEW base \in T, NEW step \in StepsOn(T)
    PROVE  \E f : Iterates(f, T, base, step)
<1> USE DEF StepsOn
<1> DEFINE Solves(g, n) == g[0] = base /\ \A i \in 1..n : g[i] = step[i][g[i - 1]]
           Solvable == {n \in Nat : \E g \in [0..n -> T] : Solves(g, n)}
<1>1. \A n \in Nat : n \in Solvable
  <2>1. 0 \in Solvable
    <3> DEFINE g == [i \in 0..0 |-> base]
    <3>1. g \in [0..0 -> T] /\ Solves(g, 0)
      OBVIOUS
    <3> QED
      BY <3>1
  <2>2. ASSUME NEW n \in Nat, n \in Solvable
        PROVE  n + 1 \in Solvable
    <3>1. PICK g \in [0..n -> T] : Solves(g, n)
      BY <2>2
    <3> DEFINE h == [i \in 0..(n + 1) |-> IF i = n + 1 THEN step[n + 1][g[n]] ELSE g[i]]
    <3>2. g[n] \in T /\ step[n + 1][g[n]] \in T
      OBVIOUS
    <3>3. h \in [0..(n + 1) -> T]
      BY <3>2
    <3>4. h[0] = base
      BY <3>1
    <3>5. ASSUME NEW i \in 1..(n + 1)
          PROVE  h[i] = step[i][h[i - 1]]
      <4>1. CASE i = n + 1
        <5>1. h[i] = step[n + 1][g[n]] /\ h[i - 1] = g[n]
          BY <4>1
        <5> QED
          BY <5>1, <4>1
      <4>2. CASE i # n + 1
        <5>1. i \in 1..n /\ h[i] = g[i] /\ h[i - 1] = g[i - 1]
          BY <4>2
        <5> QED
          BY <5>1, <3>1
      <4> QED
        BY <4>1, <4>2
    <3>6. Solves(h, n + 1)
      BY <3>4, <3>5
    <3> HIDE DEF h, Solves
    <3> QED
      BY <3>3, <3>6
  <2> HIDE DEF Solvable
  <2> QED
    BY <2>1, <2>2, NatInductionOnSet
<1>2. ASSUME NEW n \in Nat, NEW g, Solves(g, n), NEW m \in Nat, NEW h, Solves(h, m), n <= m
      PROVE  g[n] = h[n]
  <2> DEFINE Agree == {i \in Nat : i <= n => g[i] = h[i]}
  <2>1. 0 \in Agree
    BY <1>2
  <2>2. ASSUME NEW i \in Nat, i \in Agree
        PROVE  i + 1 \in Agree
    <3>1. SUFFICES ASSUME i + 1 <= n PROVE g[i + 1] = h[i + 1]
      OBVIOUS
    <3>2. i + 1 \in 1..n /\ i + 1 \in 1..m /\ (i + 1) - 1 = i /\ g[i] = h[i]
      BY <3>1, <2>2, <1>2
    <3> QED
      BY <3>2, <1>2
  <2> HIDE DEF Agree
  <2>3. n \in Agree
    BY <2>1, <2>2, NatInductionOnSet
  <2> QED
    BY <2>3 DEF Agree
<1> DEFINE Sol(n) == CHOOSE g \in [0..n -> T] : Solves(g, n)
           f == [n \in Nat |-> Sol(n)[n]]
<1>3. \A n \in Nat : Sol(n) \in [0..n -> T] /\ Solves(Sol(n), n)
  BY <1>1
<1>4. f \in [Nat -> T]
  <2> HIDE DEF Sol
  <2>1. \A n \in Nat : Sol(n)[n] \in T
    BY <1>3
  <2> QED
    BY <2>1
<1>5. ASSUME NEW n \in Nat
      PROVE  f[n] = IF n = 0 THEN base ELSE step[n][f[n - 1]]
  <2>1. CASE n = 0
    BY <2>1, <1>3
  <2>2. CASE n # 0
    <3>1. n - 1 \in Nat /\ n - 1 <= n /\ n \in 1..n
      BY <2>2
    <3>2. f[n] = step[n][Sol(n)[n - 1]]
      BY <1>3, <3>1
    <3>3. Solves(Sol(n), n) /\ Solves(Sol(n - 1), n - 1)
      BY <1>3, <3>1
    <3> HIDE DEF Sol, Solves
    <3>4. Sol(n - 1)[n - 1] = Sol(n)[n - 1]
      BY <1>2, <3>1, <3>3
    <3> QED
      BY <3>1, <3>2, <3>4, <2>2
  <2> QED
    BY <2>1, <2>2
<1>6. f[0] = base /\ \A i \in Nat : i # 0 => f[i] = step[i][f[i - 1]]
  <2> HIDE DEF f
  <2> QED
    BY <1>5
<1> HIDE DEF f
<1> QED
  BY <1>4, <1>6 DEF Iterates

----------------------------------------------------------------------------
(* The prover turns equations about Len into equations about domains;       *)
(* Length leaves them as they are.                                          *)
Length(s) == Len(s)

(* The length of a sequence is a number, and what stands up to it is of the *)
(* sequence.                                                                *)
LEMMA LengthFacts ==
    ASSUME NEW S, NEW s \in Seq(S)
    PROVE  Length(s) \in Nat /\ \A i \in 1..Length(s) : s[i] \in S
<1>1. Len(s) \in Nat /\ \A i \in 1..Len(s) : s[i] \in S
  BY LenProperties, ElementOfSeq
<1> QED
  BY <1>1 DEF Length

(* The empty sequence is the one of no length.                              *)
LEMMA EmptyFacts ==
    ASSUME NEW S
    PROVE  /\ <<>> \in Seq(S) /\ Length(<<>>) = 0
           /\ \A s \in Seq(S) : Length(s) = 0 <=> s = <<>>
<1>1. \A s \in Seq(S) : Len(s) = 0 <=> s = <<>>
  BY EmptySeq, LenProperties
<1>2. <<>> \in Seq(S) /\ Len(<<>>) = 0
  BY EmptySeq
<1> QED
  BY <1>1, <1>2, Zenon DEF Length

(* A concatenation as a relation, so that citing its facts makes no new     *)
(* sequences.                                                               *)
Joined(u, s, t) == u = s \o t

(* What stands where in a concatenation.                                    *)
LEMMA JoinedFacts ==
    ASSUME NEW S, NEW s \in Seq(S), NEW t \in Seq(S), NEW u, Joined(u, s, t)
    PROVE  /\ u \in Seq(S) /\ Length(u) = Length(s) + Length(t)
           /\ \A i \in 1..Length(s) : u[i] = s[i]
           /\ \A i \in 1..Length(t) : u[Length(s) + i] = t[i]
<1> DEFINE m == Len(s)
           n == Len(t)
<1>1. m \in Nat /\ n \in Nat
  BY LenProperties
<1>2. /\ u \in Seq(S) /\ Len(u) = m + n
      /\ \A i \in 1..(m + n) : u[i] = IF i <= m THEN s[i] ELSE t[i - m]
  BY ConcatProperties DEF Joined
<1> HIDE DEF m, n
<1>3. \A i \in 1..m : u[i] = s[i]
  BY <1>1, <1>2
<1>4. ASSUME NEW i \in 1..n
      PROVE  u[m + i] = t[i]
  <2>1. m + i \in 1..(m + n) /\ ~(m + i <= m) /\ (m + i) - m = i
    BY <1>1
  <2> QED
    BY <2>1, <1>2
<1> QED
  BY <1>2, <1>3, <1>4, Zenon DEF m, n, Length

(* What stands where in n entries from m on.                                *)
LEMMA SubSeqFacts ==
    ASSUME NEW S, NEW s \in Seq(S), NEW m \in Nat, NEW n \in Nat, m + n <= Length(s)
    PROVE  /\ SubSeq(s, m + 1, m + n) \in Seq(S) /\ Length(SubSeq(s, m + 1, m + n)) = n
           /\ \A i \in 1..n : SubSeq(s, m + 1, m + n)[i] = s[m + i]
<1> DEFINE piece == SubSeq(s, m + 1, m + n)
           size == Len(piece)
<1>1. \A i \in (m + 1)..(m + n) : s[i] \in S
  BY LengthFacts
<1>2. /\ piece \in Seq(S) /\ size = IF m + 1 <= m + n THEN (m + n) - (m + 1) + 1 ELSE 0
      /\ \A i \in 1..((m + n) - (m + 1) + 1) : piece[i] = s[(m + 1) + i - 1]
  BY <1>1, SubSeqProperties
<1>3. (IF m + 1 <= m + n THEN (m + n) - (m + 1) + 1 ELSE 0) = n
  OBVIOUS
<1>4. \A i \in 1..n : i \in 1..((m + n) - (m + 1) + 1) /\ (m + 1) + i - 1 = m + i
  OBVIOUS
<1> HIDE DEF piece, size
<1>5. \A i \in 1..n : piece[i] = s[m + i]
  BY <1>2, <1>4
<1>6. Length(piece) = n
  <2>1. size = n
    BY <1>2, <1>3
  <2> QED
    BY <2>1, Zenon DEF size, Length
<1> QED
  BY <1>2, <1>5, <1>6 DEF piece

(* A stretch of a sequence, as a relation too.                              *)
Stretch(u, s, m, n) == u = SubSeq(s, m + 1, m + n)

(* What stands where in a stretch.                                          *)
LEMMA StretchFacts ==
    ASSUME NEW S, NEW s \in Seq(S), NEW m \in Nat, NEW n \in Nat, NEW u,
           Stretch(u, s, m, n), m + n <= Length(s)
    PROVE  /\ u \in Seq(S) /\ Length(u) = n
           /\ \A i \in 1..n : u[i] = s[m + i]
<1>1. /\ SubSeq(s, m + 1, m + n) \in Seq(S) /\ Length(SubSeq(s, m + 1, m + n)) = n
      /\ \A i \in 1..n : SubSeq(s, m + 1, m + n)[i] = s[m + i]
  BY SubSeqFacts
<1> QED
  BY <1>1, Zenon DEF Stretch

(* Sequences of one length that agree everywhere are the same.              *)
LEMMA EqualFacts ==
    ASSUME NEW S, NEW s \in Seq(S), NEW t \in Seq(S), Length(s) = Length(t),
           \A i \in 1..Length(t) : s[i] = t[i]
    PROVE  s = t
<1>1. Len(s) = Len(t) /\ \A i \in 1..Len(s) : s[i] = t[i]
  BY Zenon DEF Length
<1> QED
  BY <1>1, SeqEqual, Zenon

(* What follows the first entry is the rest.                               *)
LEMMA TailOfPrefixed ==
    ASSUME NEW S, NEW x \in S, NEW s \in Seq(S)
    PROVE  Tail(<<x>> \o s) = s
<1> DEFINE one == <<x>>
           u == one \o s
           t == Tail(u)
<1>1. one \in Seq(S) /\ Length(one) = 1 /\ one[1] = x
  BY DEF Length
<1>2. Joined(u, one, s)
  BY DEF Joined
<1> HIDE DEF one
<1>3. u \in Seq(S) /\ Length(u) = Length(one) + Length(s) /\ \A i \in 1..Length(s) : u[Length(one) + i] = s[i]
  <2> HIDE DEF u
  <2> QED
    BY <1>1, <1>2, JoinedFacts
<1>4. Length(s) \in Nat
  BY LengthFacts
<1> HIDE DEF u
<1>5. u # <<>>
  <2>1. Length(u) # 0
    BY <1>1, <1>3, <1>4
  <2> QED
    BY <1>3, <2>1, EmptyFacts
<1>6. t \in Seq(S) /\ Length(t) = Length(u) - 1 /\ \A i \in 1..Length(t) : t[i] = u[i + 1]
  <2>1. t \in Seq(S) /\ Len(t) = Len(u) - 1 /\ \A i \in 1..Len(t) : t[i] = u[i + 1]
    BY <1>3, <1>5, HeadTailProperties
  <2> HIDE DEF t
  <2> QED
    BY <2>1, Zenon DEF Length
<1> HIDE DEF t
<1>7. Length(t) = Length(s) /\ \A i \in 1..Length(s) : t[i] = s[i]
  BY <1>1, <1>3, <1>4, <1>6
<1>8. t = s
  BY <1>6, <1>7, EqualFacts
<1> QED
  BY <1>8 DEF t, u, one

----------------------------------------------------------------------------
(* The rounds of the loop of Selection: f[n] is what has been pushed after  *)
(* n entries.                                                               *)
Rounds(f, S, entries, places) ==
    /\ f \in [Nat -> Seq(S)] /\ f[0] = <<>>
    /\ \A n \in 1..Length(entries) :
           f[n] = IF n \in places THEN Append(f[n - 1], entries[n]) ELSE f[n - 1]

(* What is selected is what has been pushed in the end.                     *)
LEMMA Selecting ==
    ASSUME NEW S, NEW entries, NEW places, Length(entries) \in Nat,
           \A n \in 1..Length(entries) : n \in places => entries[n] \in S
    PROVE  \E f : Rounds(f, S, entries, places) /\ Selected(entries, places) = f[Length(entries)]
<1> DEFINE T == Seq(S)
           k == Length(entries)
           step == [i \in Nat |-> [s \in T |-> IF i \in 1..k /\ i \in places THEN Append(s, entries[i]) ELSE s]]
<1>1. PICK f : Iterates(f, T, <<>>, step)
  <2> DEFINE base == <<>>
  <2>1. step \in StepsOn(T)
    <3>1. ASSUME NEW i \in 1..k, i \in places, NEW s \in T
          PROVE  Append(s, entries[i]) \in T
      BY <3>1, AppendProperties
    <3> HIDE DEF T, k
    <3> QED
      BY <3>1 DEF StepsOn
  <2>2. base \in T
    BY EmptyFacts
  <2> HIDE DEF step, T, base
  <2>3. \E f : Iterates(f, T, base, step)
    BY <2>1, <2>2, RecursiveFunction
  <2> QED
    BY <2>3 DEF base
<1>2. /\ f \in [Nat -> T] /\ f[0] = <<>>
      /\ \A n \in 1..k : f[n] = IF n \in places THEN Append(f[n - 1], entries[n]) ELSE f[n - 1]
  <2>1. f \in [Nat -> T] /\ f[0] = <<>> /\ \A i \in Nat : i # 0 => f[i] = step[i][f[i - 1]]
    BY <1>1 DEF Iterates
  <2>2. ASSUME NEW n \in 1..k
        PROVE  f[n] = IF n \in places THEN Append(f[n - 1], entries[n]) ELSE f[n - 1]
    <3>1. n \in Nat /\ n # 0 /\ n - 1 \in Nat
      OBVIOUS
    <3>2. f[n - 1] \in T /\ f[n] = step[n][f[n - 1]]
      BY <2>1, <3>1
    <3> HIDE DEF T, k
    <3> QED
      BY <3>1, <3>2
  <2> QED
    BY <2>1, <2>2
<1>3. Rounds(f, S, entries, places)
  BY <1>2, Zenon DEF Rounds
<1> HIDE DEF step
<1> DEFINE Solves(g) == g = [n \in 0..k |-> IF n = 0 THEN <<>>
                                            ELSE IF n \in places THEN Append(g[n - 1], entries[n]) ELSE g[n - 1]]
           chosen == CHOOSE g : Solves(g)
           h == [n \in 0..k |-> f[n]]
<1>4. Selected(entries, places) = chosen[k]
  <2>1. Selected(entries, places)
        = LET pushed[n \in 0..k] ==
                  IF n = 0 THEN <<>>
                  ELSE IF n \in places THEN Append(pushed[n - 1], entries[n]) ELSE pushed[n - 1]
          IN  pushed[k]
    BY Zenon DEF Selected, Length
  <2> QED
    BY <2>1, Zenon
<1>5. Solves(h)
  <2>1. ASSUME NEW n \in 0..k
        PROVE  f[n] = IF n = 0 THEN <<>> ELSE IF n \in places THEN Append(h[n - 1], entries[n]) ELSE h[n - 1]
    <3>1. CASE n = 0
      BY <1>2, <3>1
    <3>2. CASE n # 0
      <4>1. n \in 1..k /\ n - 1 \in 0..k
        BY <3>2
      <4>2. h[n - 1] = f[n - 1]
        BY <4>1
      <4> HIDE DEF h, k
      <4> QED
        BY <1>2, <3>2, <4>1, <4>2
    <3> QED
      BY <3>1, <3>2
  <2> QED
    BY <2>1
<1> HIDE DEF h
<1>6. Solves(chosen)
  BY <1>5
<1> HIDE DEF chosen
<1> DEFINE Agree == {n \in Nat : n <= k => chosen[n] = f[n]}
<1>7. \A n \in Nat : n \in Agree
  <2>1. 0 \in Agree
    <3>1. 0 \in 0..k
      OBVIOUS
    <3>2. chosen[0] = <<>>
      BY <1>6, <3>1
    <3> QED
      BY <1>2, <3>2
  <2>2. ASSUME NEW n \in Nat, n \in Agree
        PROVE  n + 1 \in Agree
    <3>1. SUFFICES ASSUME n + 1 <= k PROVE chosen[n + 1] = f[n + 1]
      OBVIOUS
    <3>2. n + 1 \in 0..k /\ n + 1 \in 1..k /\ n + 1 # 0 /\ (n + 1) - 1 = n /\ chosen[n] = f[n]
      BY <2>2, <3>1
    <3>3. chosen[n + 1] = IF n + 1 \in places THEN Append(chosen[n], entries[n + 1]) ELSE chosen[n]
      BY <1>6, <3>2
    <3> HIDE DEF Solves, k
    <3> QED
      BY <1>2, <3>2, <3>3
  <2> HIDE DEF Agree
  <2> QED
    BY <2>1, <2>2, NatInductionOnSet
<1>8. chosen[k] = f[k]
  BY <1>7
<1> QED
  BY <1>3, <1>4, <1>8

(* What is selected is of the set the chosen entries are of.                *)
LEMMA SelectedType ==
    ASSUME NEW S, NEW entries, NEW places, Length(entries) \in Nat,
           \A n \in 1..Length(entries) : n \in places => entries[n] \in S
    PROVE  Selected(entries, places) \in Seq(S)
<1>1. PICK f : Rounds(f, S, entries, places) /\ Selected(entries, places) = f[Length(entries)]
  BY Selecting
<1> QED
  BY <1>1 DEF Rounds

(* Whoever chooses every place gets every entry.                            *)
LEMMA SelectedAll ==
    ASSUME NEW S, NEW entries \in Seq(S), NEW places, \A n \in 1..Length(entries) : n \in places
    PROVE  Selected(entries, places) = entries
<1> DEFINE k == Length(entries)
<1>1. k \in Nat /\ \A n \in 1..k : entries[n] \in S
  BY LengthFacts
<1>2. PICK f : Rounds(f, S, entries, places) /\ Selected(entries, places) = f[k]
  BY <1>1, Selecting
<1> HIDE DEF k
<1>3. /\ f \in [Nat -> Seq(S)] /\ f[0] = <<>>
      /\ \A n \in 1..k : f[n] = Append(f[n - 1], entries[n])
  BY <1>2 DEF Rounds, k
<1> DEFINE Begun(s, n) == Length(s) = n /\ \A i \in 1..n : s[i] = entries[i]
           Good == {n \in Nat : n <= k => Begun(f[n], n)}
<1>4. 0 \in Good
  BY <1>3, EmptyFacts
<1>5. ASSUME NEW n \in Nat, n \in Good
      PROVE  n + 1 \in Good
  <2>1. SUFFICES ASSUME n + 1 <= k PROVE Begun(f[n + 1], n + 1)
    OBVIOUS
  <2>2. n + 1 \in 1..k /\ (n + 1) - 1 = n /\ Begun(f[n], n)
    BY <1>1, <1>5, <2>1
  <2> DEFINE s == f[n]
             t == f[n + 1]
             x == entries[n + 1]
  <2>3. s \in Seq(S) /\ x \in S /\ t = Append(s, x)
    BY <1>1, <1>3, <2>2
  <2> HIDE DEF s, t, x
  <2>4. Length(t) = Length(s) + 1 /\ t[Length(s) + 1] = x /\ \A i \in 1..Length(s) : t[i] = s[i]
    BY <2>3, AppendLast DEF Length
  <2>5. Begun(s, n)
    BY <2>2 DEF s
  <2>6. Begun(t, n + 1)
    BY <2>4, <2>5 DEF x
  <2> QED
    BY <2>6 DEF t
<1> HIDE DEF Good
<1>6. k \in Good
  BY <1>1, <1>4, <1>5, NatInductionOnSet
<1>7. f[k] \in Seq(S) /\ Begun(f[k], k)
  BY <1>1, <1>3, <1>6 DEF Good
<1>8. f[k] = entries
  BY <1>7, EqualFacts DEF k
<1> QED
  BY <1>2, <1>8

(* Entries that differ are selected once at most.                           *)
Distinct(s) == \A i, j \in 1..Length(s) : s[i] = s[j] => i = j

LEMMA SelectedDistinct ==
    ASSUME NEW S, NEW entries \in Seq(S), NEW places, Distinct(entries)
    PROVE  Distinct(Selected(entries, places))
<1> DEFINE k == Length(entries)
<1>1. k \in Nat /\ \A n \in 1..k : entries[n] \in S
  BY LengthFacts
<1>2. PICK f : Rounds(f, S, entries, places) /\ Selected(entries, places) = f[k]
  BY <1>1, Selecting
<1> HIDE DEF k
<1>3. /\ f \in [Nat -> Seq(S)] /\ f[0] = <<>>
      /\ \A n \in 1..k : f[n] = IF n \in places THEN Append(f[n - 1], entries[n]) ELSE f[n - 1]
  BY <1>2 DEF Rounds, k
<1> DEFINE Among(s, n) == \A i \in 1..Length(s) : \E j \in 1..n : s[i] = entries[j]
           Good == {n \in Nat : n <= k => Distinct(f[n]) /\ Among(f[n], n)}
<1>4. 0 \in Good
  BY <1>3, EmptyFacts DEF Distinct
<1>5. ASSUME NEW n \in Nat, n \in Good
      PROVE  n + 1 \in Good
  <2>1. SUFFICES ASSUME n + 1 <= k PROVE Distinct(f[n + 1]) /\ Among(f[n + 1], n + 1)
    OBVIOUS
  <2>2. n + 1 \in 1..k /\ (n + 1) - 1 = n /\ Distinct(f[n]) /\ Among(f[n], n)
    BY <1>1, <1>5, <2>1
  <2> DEFINE s == f[n]
             t == f[n + 1]
             x == entries[n + 1]
  <2>3. s \in Seq(S) /\ x \in S /\ t = IF n + 1 \in places THEN Append(s, x) ELSE s
    BY <1>1, <1>3, <2>2
  <2>4. Distinct(s) /\ Among(s, n)
    BY <2>2
  <2>5. \A j \in 1..n : entries[j] # x
    BY <1>1, <2>1 DEF Distinct, k
  <2>6. Length(s) \in Nat
    BY <2>3, LengthFacts
  <2> HIDE DEF s, t
  <2>7. CASE n + 1 \in places
    <3>1. Length(t) = Length(s) + 1 /\ t[Length(s) + 1] = x /\ \A i \in 1..Length(s) : t[i] = s[i]
      <4> HIDE DEF x
      <4>1. t = Append(s, x)
        BY <2>3, <2>7
      <4> QED
        BY <2>3, <4>1, AppendLast DEF Length
    <3>2. \A i \in 1..Length(t) : i \in 1..Length(s) \/ i = Length(s) + 1
      BY <2>6, <3>1
    <3>3. Among(t, n + 1)
      BY <2>4, <3>1, <3>2
    <3>4. \A i \in 1..Length(s) : t[i] # x
      BY <2>4, <2>5, <3>1
    <3>5. Distinct(t)
      <4> HIDE DEF x
      <4> QED
        BY <2>4, <3>1, <3>2, <3>4 DEF Distinct
    <3> QED
      BY <3>3, <3>5 DEF t
  <2>8. CASE n + 1 \notin places
    <3>1. t = s
      BY <2>3, <2>8
    <3> QED
      BY <2>4, <3>1 DEF t
  <2> QED
    BY <2>7, <2>8
<1> HIDE DEF Good
<1>6. k \in Good
  BY <1>1, <1>4, <1>5, NatInductionOnSet
<1> QED
  BY <1>1, <1>2, <1>6 DEF Good
=============================================================================
