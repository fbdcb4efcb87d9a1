---------------------------- MODULE SequenceFacts ----------------------------
(***************************************************************************)
(* Facts about sequences that the proofs about several cores rest on.      *)
(***************************************************************************)
EXTENDS Integers, Sequences, SequenceTheorems, TLAPS

\* Dropping the last element of a sequence leaves a shorter sequence.
LEMMA PopSeq ==
  ASSUME NEW S, NEW s \in Seq(S), s # <<>>
  PROVE  /\ SubSeq(s, 1, Len(s) - 1) \in Seq(S)
         /\ Len(SubSeq(s, 1, Len(s) - 1)) = Len(s) - 1
<1> DEFINE n == Len(s)
           t == SubSeq(s, 1, n - 1)
<1>1. n \in Nat /\ n # 0
  BY EmptySeq
<1>2. \A i \in 1 .. n - 1 : s[i] \in S
  BY <1>1, ElementOfSeq
<1>3. n - 1 \in Int /\ 1 \in Int
  BY <1>1
<1> HIDE DEF n
<1>4. t \in Seq(S) /\ Len(t) = IF 1 <= n - 1 THEN (n - 1) - 1 + 1 ELSE 0
  BY ONLY <1>2, <1>3, SubSeqProperties
<1> HIDE DEF t
<1>5. t \in Seq(S) /\ Len(t) = n - 1
  BY <1>1, <1>4
<1>6. QED
  BY <1>5 DEF t, n

\* ... that agrees with it wherever it still reaches.
LEMMA PopKeeps ==
  ASSUME NEW S, NEW s \in Seq(S), s # <<>>
  PROVE  \A k \in 1 .. Len(s) - 1 : SubSeq(s, 1, Len(s) - 1)[k] = s[k]
<1> DEFINE n == Len(s)
<1>1. n \in Nat /\ n # 0 /\ \A i \in 1 .. n - 1 : s[i] \in S
  BY EmptySeq, ElementOfSeq
<1> HIDE DEF n
<1>2. \A k \in 1 .. (n - 1) - 1 + 1 : SubSeq(s, 1, n - 1)[k] = s[1 + k - 1]
  BY <1>1, SubSeqProperties
<1>3. \A k \in 1 .. n - 1 : k \in 1 .. (n - 1) - 1 + 1 /\ 1 + k - 1 = k
  BY <1>1
<1>4. QED
  BY <1>2, <1>3 DEF n

\* An element that moves from the front of one sequence to the end of another
\* leaves their concatenation as it was.
LEMMA MoveHead ==
  ASSUME NEW S, NEW s \in Seq(S), NEW t \in Seq(S), t # <<>>
  PROVE  Append(s, Head(t)) \o Tail(t) = s \o t
<1> DEFINE a == Append(s, Head(t))
           m == Len(s)
           n == Len(t)
<1>1. m \in Nat /\ n \in Nat /\ n # 0
  BY EmptySeq, LenProperties
<1>2. Head(t) = t[1] /\ Head(t) \in S
  BY <1>1
<1>3. /\ Tail(t) \in Seq(S) /\ Len(Tail(t)) = n - 1
      /\ \A i \in 1 .. n - 1 : Tail(t)[i] = t[i + 1]
  BY HeadTailProperties
<1>4. /\ a \in Seq(S) /\ Len(a) = m + 1 /\ a[m + 1] = t[1]
      /\ \A i \in 1 .. m : a[i] = s[i]
  BY <1>2, AppendProperties
<1>5. /\ s \o t \in Seq(S) /\ Len(s \o t) = m + n
      /\ \A i \in 1 .. m + n : (s \o t)[i] = IF i <= m THEN s[i] ELSE t[i - m]
  BY ConcatProperties
<1> DEFINE u == Tail(t)
<1> HIDE DEF a, u, m, n
<1>6. Len(a) + Len(u) = m + n
  BY <1>1, <1>3, <1>4 DEF u
<1>7. /\ a \o u \in Seq(S) /\ Len(a \o u) = m + n
      /\ \A i \in 1 .. m + n : (a \o u)[i] = IF i <= m + 1 THEN a[i] ELSE u[i - (m + 1)]
  BY <1>3, <1>4, <1>6, ConcatProperties DEF u
<1>8. ASSUME NEW i \in 1 .. m + n PROVE (a \o u)[i] = (s \o t)[i]
  <2>1. i \in Int /\ 1 <= i /\ i <= m + n
    BY <1>1
  <2>2. CASE i <= m
    <3>1. i <= m + 1 /\ i \in 1 .. m
      BY <2>1, <2>2, <1>1
    <3>2. QED
      BY <2>2, <3>1, <1>4, <1>5, <1>7
  <2>3. CASE i = m + 1
    <3>1. i - m = 1 /\ ~(i <= m) /\ i <= m + 1
      BY <2>3, <1>1
    <3>2. QED
      BY <2>3, <3>1, <1>4, <1>5, <1>7
  <2>4. CASE ~(i <= m) /\ i # m + 1
    <3>1. i - (m + 1) \in 1 .. n - 1 /\ i - (m + 1) + 1 = i - m /\ ~(i <= m) /\ ~(i <= m + 1)
      BY <2>1, <2>4, <1>1
    <3>2. u[i - (m + 1)] = t[i - m]
      BY <3>1, <1>3 DEF u
    <3>3. QED
      BY <3>1, <3>2, <1>5, <1>7
  <2>5. QED
    BY <2>2, <2>3, <2>4
<1>9. a \o u = s \o t
  BY <1>5, <1>7, <1>8, SeqEqual
<1>10. QED
  BY <1>9 DEF a, u

\* What is on top of a concatenation is what is on top of its second part.
LEMMA ConcatPop ==
  ASSUME NEW S, NEW s \in Seq(S), NEW t \in Seq(S), t # <<>>
  PROVE  /\ s \o t # <<>> /\ (s \o t)[Len(s \o t)] = t[Len(t)]
         /\ s \o SubSeq(t, 1, Len(t) - 1) = SubSeq(s \o t, 1, Len(s \o t) - 1)
<1> DEFINE m == Len(s)
           n == Len(t)
           u == SubSeq(t, 1, n - 1)
           c == s \o t
           d == SubSeq(c, 1, Len(c) - 1)
           e == s \o u
<1>1. m \in Nat /\ n \in Nat /\ n # 0
  BY EmptySeq, LenProperties
<1>2. /\ c \in Seq(S) /\ Len(c) = m + n
      /\ \A i \in 1 .. m + n : c[i] = IF i <= m THEN s[i] ELSE t[i - m]
  BY ConcatProperties
<1>3. u \in Seq(S) /\ Len(u) = n - 1 /\ \A i \in 1 .. n - 1 : u[i] = t[i]
  BY PopSeq, PopKeeps
<1>4. c # <<>>
  BY <1>1, <1>2, EmptySeq
<1> HIDE DEF u, c
<1>5. d \in Seq(S) /\ Len(d) = m + n - 1 /\ \A i \in 1 .. m + n - 1 : d[i] = c[i]
  <2>1. d \in Seq(S) /\ Len(d) = Len(c) - 1 /\ \A i \in 1 .. Len(c) - 1 : d[i] = c[i]
    BY <1>2, <1>4, PopSeq, PopKeeps
  <2>2. QED
    BY <1>2, <2>1
<1>6. /\ e \in Seq(S) /\ Len(e) = m + (n - 1)
      /\ \A i \in 1 .. m + (n - 1) : e[i] = IF i <= m THEN s[i] ELSE u[i - m]
  <2>1. /\ e \in Seq(S) /\ Len(e) = m + Len(u)
        /\ \A i \in 1 .. m + Len(u) : e[i] = IF i <= m THEN s[i] ELSE u[i - m]
    BY <1>3, ConcatProperties
  <2>2. QED
    BY <1>3, <2>1
<1> HIDE DEF d, e, m, n
<1>7. c[m + n] = t[n]
  <2>1. m + n \in 1 .. m + n /\ ~(m + n <= m) /\ (m + n) - m = n
    BY <1>1
  <2>2. QED
    BY <1>2, <2>1
<1>8. ASSUME NEW i \in 1 .. m + n - 1 PROVE e[i] = d[i]
  <2>1. i \in 1 .. m + (n - 1) /\ i \in 1 .. m + n
    BY <1>1
  <2>2. CASE i <= m
    BY <2>1, <2>2, <1>2, <1>5, <1>6
  <2>3. CASE ~(i <= m)
    <3>1. i - m \in 1 .. n - 1
      BY <2>3, <1>1
    <3>2. QED
      BY <2>1, <2>3, <3>1, <1>2, <1>3, <1>5, <1>6
  <2>4. QED
    BY <2>2, <2>3
<1>9. e = d
  <2>1. Len(e) = Len(d) /\ \A i \in 1 .. Len(e) : e[i] = d[i]
    BY <1>1, <1>5, <1>6, <1>8
  <2>2. QED
    BY <1>5, <1>6, <2>1, SeqEqual
<1>10. QED
  BY <1>2, <1>4, <1>7, <1>9 DEF c, d, e, u, n

\* ... and so is what is put there.
LEMMA ConcatAppend ==
  ASSUME NEW S, NEW s \in Seq(S), NEW t \in Seq(S), NEW w \in S
  PROVE  s \o Append(t, w) = Append(s \o t, w)
<1>1. <<w>> \in Seq(S)
  OBVIOUS
<1>2. s \o t \in Seq(S)
  BY ConcatProperties
<1>3. Append(t, w) = t \o <<w>>
  BY AppendIsConcat
<1>4. (s \o t) \o <<w>> = s \o (t \o <<w>>)
  BY <1>1, ConcatAssociative
<1>5. Append(s \o t, w) = (s \o t) \o <<w>>
  BY <1>2, AppendIsConcat
<1>6. QED
  BY <1>3, <1>4, <1>5
=============================================================================
