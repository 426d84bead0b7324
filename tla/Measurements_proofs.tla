------------------------- MODULE Measurements_proofs -------------------------
(***************************************************************************)
(* What a cycle measures and what its rules make of it: a rule matches     *)
(* only on what was measured in full (Collection) or printed by a command  *)
(* of this turn (Filesystems), for any rules, windows, buffers and groups. *)
(***************************************************************************)
EXTENDS Collection, Filesystems, SequenceTheorems, FiniteSetTheorems, WellFoundedInduction, TLAPS

(* A set of natural numbers has a least one. *)
LEMMA LeastOf ==
  ASSUME NEW S \in SUBSET Nat, S # {}
  PROVE  \E n \in S : \A m \in S : n <= m
<1> DEFINE R == {p \in Nat \X Nat : p[1] < p[2]}
<1>1. OpToRel(<, Nat) = R
  BY DEF OpToRel
<1>2. IsWellFoundedOn(R, Nat)
  BY <1>1, NatLessThanWellFounded
<1>3. PICK n \in S : \A m \in S : ~(<<m, n>> \in R)
  <2>1. S \subseteq Nat
    OBVIOUS
  <2> HIDE DEF R
  <2> QED BY <1>2, <2>1, WFMin
<1>4. \A m \in S : ~(m < n)
  BY <1>3
<1> QED BY <1>4

-----------------------------------------------------------------------------
(***************************************************************************)
(* The event history: what is counted, against what has happened.          *)
(***************************************************************************)
Told == [id : Containers \cup {None}, action : {"oom", "start", "pull"}, stamp : Nat]

(* Events are told in the order of time, each once. *)
HappenedOK ==
  /\ clock \in Nat /\ happened \in Seq(Told)
  /\ \A n \in 1 .. Len(happened) : happened[n].stamp <= clock
  /\ \A m, n \in 1 .. Len(happened) :
       /\ m <= n => happened[m].stamp <= happened[n].stamp
       /\ happened[m] = happened[n] => m = n

(* Events of a kind in a window, as they happened and as they are counted. *)
Hits(c, a, u) ==
  {n \in 1 .. Len(happened) : happened[n].id = c /\ happened[n].action = a /\ Within(happened[n].stamp, u)}
Seen(answer, c, a, u) == {e \in ToSet(answer) : e.id = c /\ e.action = a /\ Within(e.stamp, u)}

LEMMA HitsAre ==
  ASSUME HappenedOK, NEW c, NEW a, NEW u \in Int
  PROVE  /\ IsFiniteSet(Hits(c, a, u)) /\ Cardinality(Hits(c, a, u)) \in Nat
         /\ IsFiniteSet({happened[n] : n \in Hits(c, a, u)})
         /\ Cardinality({happened[n] : n \in Hits(c, a, u)}) = Cardinality(Hits(c, a, u))
<1> DEFINE H == Hits(c, a, u)
           T == {happened[n] : n \in H}
           f == [n \in H |-> happened[n]]
<1>1. IsFiniteSet(H) /\ Cardinality(H) \in Nat
  <2>1. Len(happened) \in Nat /\ H \subseteq 1 .. Len(happened)
    BY DEF HappenedOK, Hits
  <2>2. IsFiniteSet(1 .. Len(happened))
    BY <2>1, FS_Interval
  <2> HIDE DEF H
  <2> QED BY <2>1, <2>2, FS_Subset, FS_CardinalityType
<1>2. f \in Surjection(H, T) /\ f \in Injection(H, T)
  <2>1. \A m, n \in H : happened[m] = happened[n] => m = n
    BY DEF Hits, HappenedOK
  <2> HIDE DEF H
  <2> QED BY <2>1 DEF Surjection, Injection, IsInjective
<1> HIDE DEF H, T, f
<1>3. IsFiniteSet(T) /\ Cardinality(T) = Cardinality(H)
  BY <1>1, <1>2, FS_Surjection
<1> QED BY <1>1, <1>3 DEF H, T

(* The buffer is the end of what has happened. *)
LEMMA BufferIs ==
  ASSUME HappenedOK
  PROVE  /\ Buffer \in Seq(Told)
         /\ \E k \in 0 .. Len(happened) :
              /\ Len(Buffer) = Len(happened) - k
              /\ \A n \in 1 .. Len(Buffer) : Buffer[n] = happened[k + n]
              /\ k > 0 => Len(Buffer) = HistoryLimit
<1>1. happened \in Seq(Told) /\ Len(happened) \in Nat /\ HistoryLimit \in Nat \ {0}
  BY HistoryAssumption DEF HappenedOK
<1>2. CASE Len(happened) <= HistoryLimit
  <2>1. Buffer = happened
    BY <1>2 DEF Buffer
  <2>2. 0 \in 0 .. Len(happened) /\ Len(happened) = Len(happened) - 0
        /\ \A n \in 1 .. Len(happened) : happened[n] = happened[0 + n]
    BY <1>1
  <2>3. ~(0 > 0)
    OBVIOUS
  <2> QED BY <1>1, <2>1, <2>2, <2>3
<1>3. CASE ~(Len(happened) <= HistoryLimit)
  <2> DEFINE k == Len(happened) - HistoryLimit
  <2>1. k \in 0 .. Len(happened) /\ k + 1 \in Int /\ Len(happened) \in Int /\ k + 1 <= Len(happened)
    BY <1>1, <1>3
  <2>2. \A n \in k + 1 .. Len(happened) : happened[n] \in Told
    BY <1>1, <2>1
  <2>3. Buffer = SubSeq(happened, k + 1, Len(happened))
    BY <1>3 DEF Buffer
  <2> HIDE DEF k
  <2>4. /\ Buffer \in Seq(Told)
        /\ Len(Buffer) = Len(happened) - (k + 1) + 1
        /\ \A n \in 1 .. Len(happened) - (k + 1) + 1 : Buffer[n] = happened[(k + 1) + n - 1]
    BY <2>1, <2>2, <2>3, SubSeqProperties
  <2>5. Len(Buffer) = Len(happened) - k /\ Len(Buffer) = HistoryLimit
    BY <1>1, <2>1, <2>4 DEF k
  <2>6. \A n \in 1 .. Len(Buffer) : Buffer[n] = happened[k + n]
    <3> TAKE n \in 1 .. Len(Buffer)
    <3>1. n \in 1 .. Len(happened) - (k + 1) + 1 /\ (k + 1) + n - 1 = k + n
      BY <1>1, <2>1, <2>4
    <3> QED BY <2>4, <3>1
  <2> QED BY <2>1, <2>4, <2>5, <2>6
<1> QED BY <1>2, <1>3

(* An answer holds events of the buffer; all of them, if none is after the *)
(* cutoff, and it is then not shorter than the buffer.                     *)
LEMMA AnswersAre ==
  ASSUME HappenedOK, NEW u \in Int, NEW answer \in Answers(u)
  PROVE  /\ ToSet(answer) \subseteq ToSet(Buffer)
         /\ (\A n \in 1 .. Len(Buffer) : ~(Buffer[n].stamp > u * Second)) =>
               ToSet(Buffer) \subseteq ToSet(answer) /\ Len(answer) \in Nat /\ Len(answer) >= Len(Buffer)
<1> DEFINE D == {n \in DOMAIN Buffer : Buffer[n].stamp <= u * Second}
           m == Cardinality(D)
<1>1. Buffer \in Seq(Told) /\ Len(Buffer) \in Nat /\ DOMAIN Buffer = 1 .. Len(Buffer)
  BY BufferIs
<1>s. ToSet(Buffer) = {Buffer[n] : n \in 1 .. Len(Buffer)}
  BY <1>1 DEF ToSet
<1>e. \A n \in 1 .. Len(Buffer) : Buffer[n] \in Told /\ Buffer[n].stamp \in Nat
  <2> TAKE n \in 1 .. Len(Buffer)
  <2>1. Buffer[n] \in Told
    BY <1>1, ElementOfSeq
  <2> QED BY <2>1 DEF Told
<1>2. /\ m \in Nat /\ m <= Len(Buffer) /\ m \in 0 .. Len(Buffer)
      /\ (D = DOMAIN Buffer => m = Len(Buffer))
  <2>1. IsFiniteSet(1 .. Len(Buffer)) /\ Cardinality(1 .. Len(Buffer)) = Len(Buffer)
    <3>1. 1 \in Int /\ Len(Buffer) \in Int /\ Len(Buffer) >= 0
      BY <1>1
    <3>2. /\ IsFiniteSet(1 .. Len(Buffer))
          /\ Cardinality(1 .. Len(Buffer)) = IF 1 > Len(Buffer) THEN 0 ELSE Len(Buffer) - 1 + 1
      BY <3>1, FS_Interval
    <3> HIDE DEF D, m
    <3> QED BY <3>1, <3>2
  <2>2. D \subseteq 1 .. Len(Buffer)
    BY <1>1
  <2> HIDE DEF D
  <2>3. IsFiniteSet(D) /\ m <= Len(Buffer)
    BY <2>1, <2>2, FS_Subset
  <2>4. m \in Nat
    BY <2>3, FS_CardinalityType
  <2> QED BY <1>1, <2>1, <2>3, <2>4
<1>3. UpTo(u) = SubSeq(Buffer, 1, m)
  BY DEF UpTo
<1>4. (\A n \in 1 .. Len(Buffer) : ~(Buffer[n].stamp > u * Second)) => m = Len(Buffer)
  <2>1. ASSUME \A n \in 1 .. Len(Buffer) : ~(Buffer[n].stamp > u * Second)
        PROVE  D = DOMAIN Buffer
    <3>1. \A n \in 1 .. Len(Buffer) : Buffer[n].stamp \in Nat
      BY <1>e
    <3> DEFINE cut == u * Second
    <3>2. cut \in Int
      BY HistoryAssumption
    <3>3. \A n \in 1 .. Len(Buffer) : ~(Buffer[n].stamp > cut)
      BY <2>1
    <3>4. D = {n \in DOMAIN Buffer : Buffer[n].stamp <= cut}
      OBVIOUS
    <3> HIDE DEF D, cut
    <3> QED BY <1>1, <3>1, <3>2, <3>3, <3>4
  <2> HIDE DEF D, m
  <2> QED BY <1>2, <2>1
<1> HIDE DEF D, m
<1>m. m \in Nat /\ m <= Len(Buffer) /\ Len(Buffer) \in Nat
  BY <1>1, <1>2, Zenon
<1>n. \A n \in 1 .. m : n \in 1 .. Len(Buffer)
  BY <1>m
<1> DEFINE p == SubSeq(Buffer, 1, m)
<1>5. /\ p \in Seq(Told) /\ Len(p) = m
      /\ \A n \in 1 .. m : p[n] = Buffer[n]
  <2>1. \A n \in 1 .. m : Buffer[n] \in Told
    BY <1>e, <1>n
  <2>2. /\ p \in Seq(Told) /\ Len(p) = (IF 1 <= m THEN m - 1 + 1 ELSE 0)
        /\ \A n \in 1 .. m - 1 + 1 : p[n] = Buffer[1 + n - 1]
    BY <1>2, <2>1, SubSeqProperties
  <2>3. \A n \in 1 .. m : 1 + n - 1 = n /\ n \in 1 .. m - 1 + 1
    BY <1>2
  <2> HIDE DEF p
  <2> QED BY <1>2, <2>2, <2>3
<1> HIDE DEF p
<1>6. DOMAIN p = 1 .. m /\ ToSet(p) = {Buffer[n] : n \in 1 .. m}
  BY <1>5 DEF ToSet
<1>7. CASE answer = p
  <2>1. ToSet(p) \subseteq ToSet(Buffer)
    BY <1>n, <1>6, <1>s
  <2>2. m = Len(Buffer) => ToSet(Buffer) \subseteq ToSet(p)
    BY <1>1, <1>6, <1>s
  <2>3. m = Len(Buffer) => Len(p) \in Nat /\ Len(p) >= Len(Buffer)
    BY <1>1, <1>5
  <2> QED BY <1>4, <1>7, <2>1, <2>2, <2>3
<1>8. ASSUME NEW k \in 1 .. Len(p), answer = InsertAt(p, k, p[k])
      PROVE  /\ ToSet(answer) = ToSet(p) /\ Len(answer) = m + 1
  <2> DEFINE q == SubSeq(p, 1, k - 1)
             r == SubSeq(p, k, Len(p))
  <2>1. k \in 1 .. m /\ p[k] \in Told /\ \A n \in 1 .. m : p[n] \in Told
    BY <1>2, <1>5, <1>8
  <2>2. /\ q \in Seq(Told) /\ Len(q) = k - 1 /\ \A n \in 1 .. k - 1 : q[n] = p[n]
    <3>1. /\ q \in Seq(Told) /\ Len(q) = (IF 1 <= k - 1 THEN k - 1 - 1 + 1 ELSE 0)
          /\ \A n \in 1 .. k - 1 - 1 + 1 : q[n] = p[1 + n - 1]
      <4>1. 1 \in Int /\ k - 1 \in Int /\ \A n \in 1 .. k - 1 : p[n] \in Told
        BY <1>2, <2>1
      <4> QED BY <4>1, SubSeqProperties
    <3>2. \A n \in 1 .. k - 1 : 1 + n - 1 = n /\ n \in 1 .. k - 1 - 1 + 1
      BY <2>1, <1>2
    <3>3. (IF 1 <= k - 1 THEN k - 1 - 1 + 1 ELSE 0) = k - 1
      BY <2>1, <1>2
    <3> HIDE DEF q
    <3>4. \A n \in 1 .. k - 1 : q[n] = p[n]
      BY <3>1, <3>2
    <3> QED BY <3>1, <3>3, <3>4
  <2>3. /\ r \in Seq(Told) /\ Len(r) = m - k + 1 /\ \A n \in 1 .. m - k + 1 : r[n] = p[k + n - 1]
    <3>1. k \in Int /\ m \in Int /\ k <= m /\ \A n \in k .. m : p[n] \in Told
      BY <1>2, <2>1
    <3>2. r = SubSeq(p, k, m)
      BY <1>5
    <3> HIDE DEF r
    <3> QED BY <3>1, <3>2, SubSeqProperties
  <2> HIDE DEF q, r
  <2>4. answer = (q \o <<p[k]>>) \o r
    BY <1>8 DEF InsertAt, q, r
  <2> DEFINE t == q \o <<p[k]>>
  <2>5. /\ t \in Seq(Told) /\ Len(t) = k
        /\ \A n \in 1 .. k : t[n] = p[n]
    <3>1. t \in Seq(Told) /\ Len(t) = k
          /\ \A n \in 1 .. k : t[n] = IF n <= k - 1 THEN q[n] ELSE p[k]
      BY <1>2, <2>1, <2>2
    <3>2. \A n \in 1 .. k : IF n <= k - 1 THEN n \in 1 .. k - 1 ELSE n = k
      BY <1>2, <2>1
    <3> HIDE DEF t
    <3> QED BY <2>2, <3>1, <3>2
  <2> HIDE DEF t
  <2>6. /\ Len(answer) = m + 1 /\ DOMAIN answer = 1 .. m + 1
        /\ \A n \in 1 .. m + 1 : answer[n] = IF n <= k THEN p[n] ELSE p[n - 1]
    <3>1. answer = t \o r
      BY <2>4 DEF t
    <3>2. /\ Len(answer) = k + (m - k + 1) /\ DOMAIN answer = 1 .. k + (m - k + 1)
          /\ \A n \in 1 .. k + (m - k + 1) : answer[n] = IF n <= k THEN t[n] ELSE r[n - k]
      <4>1. /\ Len(t \o r) = Len(t) + Len(r)
            /\ \A n \in 1 .. Len(t) + Len(r) : (t \o r)[n] = IF n <= Len(t) THEN t[n] ELSE r[n - Len(t)]
        BY <2>3, <2>5, ConcatProperties
      <4>2. DOMAIN (t \o r) = 1 .. Len(t \o r)
        BY <2>3, <2>5
      <4> QED BY <2>3, <2>5, <3>1, <4>1, <4>2
    <3>3. k + (m - k + 1) = m + 1
      BY <1>2, <2>1
    <3>4. \A n \in 1 .. m + 1 : IF n <= k THEN n \in 1 .. k
                                ELSE n - k \in 1 .. m - k + 1 /\ k + (n - k) - 1 = n - 1
      BY <1>2, <2>1
    <3> QED BY <2>3, <2>5, <3>2, <3>3, <3>4
  <2>7. \A n \in 1 .. m + 1 : (n <= k => n \in 1 .. m) /\ (~(n <= k) => n - 1 \in 1 .. m)
    BY <1>2, <2>1
  <2>8. \A n \in 1 .. m : IF n <= k THEN n \in 1 .. m + 1 /\ n <= k
                          ELSE n + 1 \in 1 .. m + 1 /\ ~(n + 1 <= k) /\ (n + 1) - 1 = n
    BY <1>2, <2>1
  <2>a. ToSet(answer) = {answer[n] : n \in 1 .. m + 1} /\ ToSet(p) = {p[n] : n \in 1 .. m}
    BY <1>5, <1>6, <2>6 DEF ToSet
  <2>9. ToSet(answer) \subseteq ToSet(p)
    BY <2>6, <2>7, <2>a
  <2>10. ToSet(p) \subseteq ToSet(answer)
    BY <2>6, <2>8, <2>a
  <2> QED BY <2>6, <2>9, <2>10
<1>9. answer = p \/ \E k \in 1 .. Len(p) : answer = InsertAt(p, k, p[k])
  BY <1>3 DEF Answers, p
<1>10. ASSUME NEW k \in 1 .. Len(p), answer = InsertAt(p, k, p[k])
       PROVE  /\ ToSet(answer) \subseteq ToSet(Buffer)
              /\ m = Len(Buffer) => ToSet(Buffer) \subseteq ToSet(answer) /\ Len(answer) \in Nat
                                    /\ Len(answer) >= Len(Buffer)
  <2>1. ToSet(answer) = ToSet(p) /\ Len(answer) = m + 1
    BY <1>8, <1>10
  <2>2. ToSet(p) \subseteq ToSet(Buffer)
    BY <1>n, <1>6, <1>s
  <2>3. m = Len(Buffer) => ToSet(Buffer) \subseteq ToSet(p)
    BY <1>1, <1>6, <1>s
  <2>4. m = Len(Buffer) => m + 1 \in Nat /\ m + 1 >= Len(Buffer)
    BY <1>1
  <2> QED BY <2>1, <2>2, <2>3, <2>4
<1> QED BY <1>4, <1>7, <1>9, <1>10

(* What is counted is at most what happened; all of it, if the count is    *)
(* complete and nothing in the buffer is after the cutoff.                 *)
LEMMA CountIs ==
  ASSUME HappenedOK, NEW u \in Int, NEW answer \in Answers(u), NEW c, NEW a
  PROVE  /\ Count(answer, c, a, u) \in Nat
         /\ Count(answer, c, a, u) <= Cardinality(Hits(c, a, u))
         /\ Complete(answer, u) /\ ~(\E n \in 1 .. Len(Buffer) : Buffer[n].stamp > u * Second)
              => Count(answer, c, a, u) = Cardinality(Hits(c, a, u))
<1> DEFINE T == {happened[n] : n \in Hits(c, a, u)}
           S == Seen(answer, c, a, u)
<1>1. PICK k \in 0 .. Len(happened) :
              /\ Len(Buffer) = Len(happened) - k
              /\ \A n \in 1 .. Len(Buffer) : Buffer[n] = happened[k + n]
              /\ k > 0 => Len(Buffer) = HistoryLimit
  BY BufferIs
<1>2. /\ Buffer \in Seq(Told) /\ ToSet(Buffer) = {Buffer[n] : n \in 1 .. Len(Buffer)}
      /\ Len(happened) \in Nat /\ HistoryLimit \in Nat /\ Len(Buffer) \in Nat
  BY BufferIs, HistoryAssumption DEF ToSet, HappenedOK
<1>3. \A n \in 1 .. Len(Buffer) : k + n \in 1 .. Len(happened)
  BY <1>1, <1>2
<1>t. \A n \in 1 .. Len(happened) : happened[n].stamp \in Nat
  <2> TAKE n \in 1 .. Len(happened)
  <2>1. happened[n] \in Told
    BY ElementOfSeq DEF HappenedOK
  <2> QED BY <2>1 DEF Told
<1>4. ToSet(answer) \subseteq ToSet(Buffer)
  BY AnswersAre
<1>5. S \subseteq T
  BY <1>1, <1>2, <1>3, <1>4 DEF Seen, Hits
<1>6. IsFiniteSet(T) /\ Cardinality(T) = Cardinality(Hits(c, a, u)) /\ Cardinality(T) \in Nat
  BY HitsAre
<1>7. Count(answer, c, a, u) = Cardinality(S)
  BY DEF Count, Seen
<1>8. ASSUME Complete(answer, u), ~(\E n \in 1 .. Len(Buffer) : Buffer[n].stamp > u * Second)
      PROVE  T \subseteq S
  <2>1. ToSet(answer) = ToSet(Buffer) /\ Len(answer) \in Nat /\ Len(answer) >= Len(Buffer)
    BY <1>4, <1>8, AnswersAre
  <2> SUFFICES ASSUME NEW n \in Hits(c, a, u) PROVE happened[n] \in S
    OBVIOUS
  <2>2. n \in 1 .. Len(happened) /\ Within(happened[n].stamp, u) /\ happened[n].stamp \in Nat
        /\ happened[n].id = c /\ happened[n].action = a
    <3>1. n \in 1 .. Len(happened) /\ Within(happened[n].stamp, u)
          /\ happened[n].id = c /\ happened[n].action = a
      BY DEF Hits
    <3> QED BY <1>t, <3>1
  <2>3. n > k
    <3>1. CASE Len(answer) < HistoryLimit
      BY <1>1, <1>2, <2>1, <2>2, <3>1
    <3>2. ASSUME NEW e \in ToSet(answer), e.stamp <= (u - Window) * Second PROVE n > k
      <4>1. PICK j \in 1 .. Len(Buffer) : e = happened[k + j]
        BY <1>1, <1>2, <2>1, <3>2
      <4>2. k + j \in 1 .. Len(happened) /\ e.stamp \in Nat /\ k + j > k
        BY <1>1, <1>3, <1>t, <4>1
      <4>3. (u - Window) * Second \in Int /\ (u - Window) * Second < happened[n].stamp
        BY <2>2, HistoryAssumption DEF Within
      <4>4. e.stamp < happened[n].stamp
        BY <2>2, <3>2, <4>2, <4>3
      <4>5. n <= k + j => happened[n].stamp <= e.stamp
        BY <2>2, <4>1, <4>2 DEF HappenedOK
      <4> QED BY <1>1, <2>2, <4>2, <4>4, <4>5
    <3> QED BY <1>8, <3>1, <3>2 DEF Complete
  <2>4. n - k \in 1 .. Len(Buffer) /\ k + (n - k) = n
    BY <1>1, <1>2, <2>2, <2>3
  <2>5. Buffer[n - k] = happened[n]
    BY <1>1, <2>4
  <2>6. happened[n] \in ToSet(answer)
    BY <1>2, <2>1, <2>4, <2>5
  <2> QED BY <2>2, <2>6 DEF Seen
<1> HIDE DEF S, T
<1>9. IsFiniteSet(S) /\ Cardinality(S) <= Cardinality(T) /\ Cardinality(S) \in Nat
  BY <1>5, <1>6, FS_Subset, FS_CardinalityType
<1>10. T \subseteq S => S = T
  BY <1>5
<1> QED BY <1>6, <1>7, <1>8, <1>9, <1>10

(* What a condition makes of a count is what it makes of the truth, except *)
(* that an "==" may be met by less when the buffer held later events.      *)
CountsOK ==
  counts # None /\ counts.complete =>
    \A c \in Containers, a \in {"oom", "start"} :
      LET n == IF a = "oom" THEN counts.oom[c] ELSE counts.start[c]
      IN  n \in Nat /\ Truth(c, a) \in Nat /\ n <= Truth(c, a) /\ (hidden \/ n = Truth(c, a))

LEMMA TruthIs ==
  ASSUME NEW c, NEW a
  PROVE  Truth(c, a) = Cardinality(Hits(c, a, counts.until))
BY DEF Truth, Hits

LEMMA QueryCounts ==
  ASSUME HappenedOK, Query
  PROVE  CountsOK'
<1> DEFINE u == clock \div Second - 1
<1>1. u \in Int
  BY HistoryAssumption DEF HappenedOK
<1>2. /\ hidden' = \E n \in 1 .. Len(Buffer) : Buffer[n].stamp > u * Second
      /\ UNCHANGED <<clock, happened>>
      /\ counts' = None \/ \E answer \in Answers(u) : counts' = Counted(answer, u)
  BY DEF Query
<1> HIDE DEF u
<1>3. SUFFICES ASSUME NEW answer \in Answers(u), counts' = Counted(answer, u), counts'.complete,
                      NEW c \in Containers, NEW a \in {"oom", "start"}
               PROVE  LET n == IF a = "oom" THEN counts'.oom[c] ELSE counts'.start[c]
                      IN  n \in Nat /\ Truth(c, a)' \in Nat /\ n <= Truth(c, a)' /\ (hidden' \/ n = Truth(c, a)')
  BY <1>2 DEF CountsOK
<1>4. /\ counts'.until = u /\ (counts'.complete <=> Complete(answer, u))
      /\ (IF a = "oom" THEN counts'.oom[c] ELSE counts'.start[c]) = Count(answer, c, a, u)
  BY <1>3 DEF Counted
<1>5. Truth(c, a)' = Cardinality(Hits(c, a, u))
  BY <1>2, <1>4 DEF Truth, Hits
<1>6. /\ Count(answer, c, a, u) \in Nat /\ Cardinality(Hits(c, a, u)) \in Nat
      /\ Count(answer, c, a, u) <= Cardinality(Hits(c, a, u))
      /\ hidden' \/ Count(answer, c, a, u) = Cardinality(Hits(c, a, u))
  <2>1. Cardinality(Hits(c, a, u)) \in Nat
    BY <1>1, HitsAre
  <2>2. /\ Count(answer, c, a, u) \in Nat
        /\ Count(answer, c, a, u) <= Cardinality(Hits(c, a, u))
        /\ Complete(answer, u) /\ ~(\E n \in 1 .. Len(Buffer) : Buffer[n].stamp > u * Second)
             => Count(answer, c, a, u) = Cardinality(Hits(c, a, u))
    BY <1>1, CountIs
  <2>3. Complete(answer, u) /\ (hidden' \/ ~(\E n \in 1 .. Len(Buffer) : Buffer[n].stamp > u * Second))
    BY <1>2, <1>3, <1>4, Zenon
  <2> QED BY <2>1, <2>2, <2>3
<1> QED BY <1>4, <1>5, <1>6

-----------------------------------------------------------------------------
(***************************************************************************)
(* The stream of statistics: who still holds the response.                 *)
(***************************************************************************)
SamplesDiffer ==
  samples.current \notin {NoSample, samples.previous} /\ samples.previous # NoSample

StreamOK ==
  /\ wire \in Seq(Chunks) /\ lines \in Seq(Stamps)
  /\ samples \in [previous : Stamps \cup {NoSample}, current : Stamps \cup {NoSample}]
  /\ reader \in {"requested", "reading", "lines", "last", "raised", "join", "close"} => response = "open"
  /\ timer \in {"armed", "expired"} => reader \in {"reading", "lines", "last", "raised", "join"}
  /\ result = "values" => SamplesDiffer
  /\ result = "values" => reader \in {"raised", "join", "close", "end"}
  /\ reader = "end" /\ result = "values" => response = "closed"

LEMMA RequestStream ==
  ASSUME Request
  PROVE  StreamOK'
<1>1. /\ wire' = <<>> /\ lines' = <<>> /\ samples' = NoSamples /\ timer' = "none" /\ result' # "values"
      /\ reader' = "end" \/ (reader' = "requested" /\ response' = "open")
  BY DEF Request
<1>2. wire' \in Seq(Chunks) /\ lines' \in Seq(Stamps)
  BY <1>1
<1>3. samples' \in [previous : Stamps \cup {NoSample}, current : Stamps \cup {NoSample}]
  BY <1>1 DEF NoSamples
<1> QED BY <1>1, <1>2, <1>3 DEF StreamOK

(* What one line brings. *)
LEMMA TakeLineStream ==
  ASSUME StreamOK, TakeLine
  PROVE  StreamOK'
<1> DEFINE line == Head(lines)
<1>1. /\ reader \in {"lines", "last"} /\ lines # <<>> /\ lines' = Tail(lines)
      /\ UNCHANGED <<timer, response, wire>>
  BY DEF TakeLine
<1>2. line \in Stamps /\ lines' \in Seq(Stamps) /\ line # NoSample
  <2>1. lines \in Seq(Stamps) /\ NoSample \notin Stamps
    BY StampsAssumption DEF StreamOK, NoSample
  <2> QED BY <1>1, <2>1
<1>3. /\ reader' \in {reader, "raised"}
      /\ \/ samples' = samples
         \/ samples.previous = NoSample /\ samples' = [samples EXCEPT !.previous = line]
         \/ samples.previous \notin {NoSample, line} /\ samples' = [samples EXCEPT !.current = line]
      /\ result' = "values" => \/ reader' = reader /\ result = "values"
                               \/ /\ samples.previous \notin {NoSample, line} /\ reader' = "raised"
                                  /\ samples' = [samples EXCEPT !.current = line]
  BY DEF TakeLine, Raises
<1> HIDE DEF line
<1>4. samples' \in [previous : Stamps \cup {NoSample}, current : Stamps \cup {NoSample}]
  BY <1>2, <1>3 DEF StreamOK
<1>5. result' = "values" => SamplesDiffer' /\ reader' = "raised"
  <2>1. SUFFICES ASSUME result' = "values" PROVE SamplesDiffer' /\ reader' = "raised"
    OBVIOUS
  <2>2. result # "values"
    BY <1>1 DEF StreamOK
  <2>3. samples.previous \notin {NoSample, line} /\ samples' = [samples EXCEPT !.current = line] /\ reader' = "raised"
    BY <1>3, <2>1, <2>2
  <2>4. samples'.current = line /\ samples'.previous = samples.previous
    BY <2>3 DEF StreamOK
  <2> QED BY <1>2, <2>3, <2>4 DEF SamplesDiffer
<1> QED BY <1>1, <1>2, <1>3, <1>4, <1>5 DEF StreamOK

LEMMA ReadChunkStream ==
  ASSUME StreamOK, ReadChunk
  PROVE  StreamOK'
<1>1. /\ reader = "reading" /\ wire # <<>> /\ wire' = <<>>
      /\ UNCHANGED <<timer, response, samples>>
      /\ lines' = lines \/ lines' = Head(wire).lines
      /\ reader' \in {"raised", "lines"}
      /\ result' \in {result, "timed out", "too large"}
  BY DEF ReadChunk, Raises, taken
<1>2. Head(wire).lines \in Seq(Stamps)
  <2>1. wire \in Seq(Chunks)
    BY DEF StreamOK
  <2>2. Head(wire) \in Chunks
    <3>1. \A T : \A q \in Seq(T) : q # <<>> => Head(q) \in T
      OBVIOUS
    <3> QED BY <1>1, <2>1, <3>1
  <2>3. Head(wire).lines \in {<<>>} \cup {<<x>> : x \in Stamps}
    BY <2>2 DEF Chunks
  <2>4. <<>> \in Seq(Stamps) /\ \A x \in Stamps : <<x>> \in Seq(Stamps)
    OBVIOUS
  <2> QED BY <2>3, <2>4
<1>3. lines' \in Seq(Stamps) /\ wire' \in Seq(Chunks) /\ result # "values"
  <2>1. <<>> \in Seq(Chunks) /\ lines \in Seq(Stamps) /\ result # "values"
    <3>1. \A T : <<>> \in Seq(T)
      OBVIOUS
    <3> QED BY <1>1, <3>1, Zenon DEF StreamOK
  <2> QED BY <1>1, <1>2, <2>1
<1> QED BY <1>1, <1>3 DEF StreamOK, SamplesDiffer

LEMMA SamplingStream ==
  ASSUME StreamOK, ReadStep \/ ReadIdle \/ WatchdogStep \/ Network
  PROVE  StreamOK'
<1>1. CASE Rejected \/ ReadFails \/ ReadIdle \/ MoreChunks \/ NoMoreLines \/ Watch
  <2>1. /\ UNCHANGED <<response, wire, lines, samples>>
        /\ result' = result \/ result' \in Failures
        /\ \/ reader = "requested" /\ reader' = "raised" /\ timer' = timer
           \/ reader \in {"reading", "lines", "last"} /\ reader' \in {"raised", "reading"} /\ timer' = timer
           \/ reader = "requested" /\ reader' = "reading" /\ timer' = "armed"
    BY <1>1 DEF Rejected, ReadFails, ReadIdle, MoreChunks, NoMoreLines, Watch, Raises, body, taken, Failures
  <2>2. result' # "values"
    BY <2>1 DEF StreamOK, Failures
  <2> QED BY <2>1, <2>2 DEF StreamOK
<1>2. CASE ReadChunk
  BY <1>2, ReadChunkStream
<1>3. CASE TakeLine
  BY <1>3, TakeLineStream
<1>4. CASE ReadEnd
  <2>1. /\ UNCHANGED <<response, wire, samples, timer>> /\ reader = "reading" /\ reader' \in {"raised", "last"}
        /\ lines' = lines \/ \E x \in Stamps : lines' = <<x>>
        /\ result' = result \/ result' \in Failures
    BY <1>4 DEF ReadEnd, Raises, body, taken, Failures
  <2>2. result' # "values" /\ lines' \in Seq(Stamps)
    <3>1. \A x \in Stamps : <<x>> \in Seq(Stamps)
      OBVIOUS
    <3>2. lines \in Seq(Stamps) /\ result # "values" /\ "values" \notin Failures
      BY <2>1 DEF StreamOK, Failures
    <3> QED BY <2>1, <3>1, <3>2
  <2> QED BY <2>1, <2>2 DEF StreamOK
<1>5. CASE Cancel
  <2>1. /\ reader = "raised" /\ reader' = "join" /\ wire' = <<>> /\ lines' = <<>>
        /\ timer' = (IF timer = "armed" THEN "cancelled" ELSE timer)
        /\ UNCHANGED <<response, samples, result>>
    BY <1>5 DEF Cancel
  <2>2. wire' \in Seq(Chunks) /\ lines' \in Seq(Stamps)
    BY <2>1
  <2> QED BY <2>1, <2>2 DEF StreamOK, SamplesDiffer
<1>6. CASE Join
  BY <1>6 DEF Join, StreamOK, SamplesDiffer, body, taken
<1>7. CASE Close
  BY <1>7 DEF Close, StreamOK, SamplesDiffer, body, taken
<1>8. CASE WatchdogStep
  BY <1>8 DEF WatchdogStep, Fire, Shutdown, StreamOK, SamplesDiffer, body, taken
<1>9. CASE Network
  <2>1. /\ UNCHANGED <<reader, timer, response, lines, samples, result>>
        /\ wire' = wire \/ \E chunk \in Chunks : wire' = <<chunk>>
    BY <1>9 DEF Network, Send, Disconnect, body, taken
  <2>2. wire' \in Seq(Chunks)
    BY <2>1 DEF StreamOK
  <2> QED BY <2>1, <2>2 DEF StreamOK, SamplesDiffer
<1> QED BY <1>1, <1>2, <1>3, <1>4, <1>5, <1>6, <1>7, <1>8, <1>9 DEF ReadStep

-----------------------------------------------------------------------------
(***************************************************************************)
(* The cycle.                                                              *)
(***************************************************************************)
CycleOK ==
  /\ stage \in {"idle", "select", "state", "sampling", "metrics"}
  /\ todo \subseteq DOMAIN Rules /\ verdict \in [ToSet(Rules) -> Verdicts]
  /\ stage \in {"idle", "select"} => counts = None /\ verdict = NoVerdict
  /\ stage \in {"idle", "select", "state"} => reader = "idle"
  /\ stage = "state" => todo \cap MetricRules = {}
  /\ stage # "metrics" => \A r \in ToSet(Rules) : NeedsMetrics(r) => verdict[r] # "matched"
  /\ stage = "metrics" => reader = "end" /\ result = "values"

CInv == HappenedOK /\ CountsOK /\ StreamOK /\ CycleOK /\ VerdictSound

LEMMA RulesAre ==
  /\ NoVerdict \in [ToSet(Rules) -> Verdicts]
  /\ \A n \in DOMAIN Rules : Rules[n] \in ToSet(Rules)
  /\ \A r \in ToSet(Rules) : \A n \in DOMAIN Conditions[r] :
       Conditions[r][n] \in [resource : {"oom", "start", "measured"}, operator : {"==", ">="}, value : Nat]
<1> DEFINE C == [resource : {"oom", "start", "measured"}, operator : {"==", ">="}, value : Nat]
<1>1. NoVerdict \in [ToSet(Rules) -> Verdicts]
  BY DEF NoVerdict, Verdicts
<1>2. \A n \in DOMAIN Rules : Rules[n] \in ToSet(Rules)
  BY DEF ToSet
<1>3. ASSUME NEW r \in ToSet(Rules), NEW n \in DOMAIN Conditions[r]
      PROVE  Conditions[r][n] \in C
  <2>1. Conditions[r] \in Seq(C)
    BY RulesAssumption
  <2> HIDE DEF C
  <2> QED BY <2>1, <1>3, ElementOfSeq
<1> QED BY <1>1, <1>2, <1>3

LEMMA InitCInv == Init => CInv
<1> SUFFICES ASSUME Init PROVE CInv
  OBVIOUS
<1>1. HappenedOK
  <2>1. happened = <<>> /\ clock \in Nat
    BY HistoryAssumption DEF Init, HistoryInit
  <2>2. <<>> \in Seq(Told) /\ Len(<<>>) = 0
    OBVIOUS
  <2> QED BY <2>1, <2>2 DEF HappenedOK
<1>2. CountsOK
  BY DEF Init, HistoryInit, CountsOK
<1>3. StreamOK
  <2>1. \A T : <<>> \in Seq(T)
    OBVIOUS
  <2>2. NoSamples \in [previous : Stamps \cup {NoSample}, current : Stamps \cup {NoSample}]
    BY DEF NoSamples
  <2> QED BY <2>1, <2>2 DEF Init, StreamInit, StreamOK
<1>4. CycleOK /\ VerdictSound
  BY RulesAre DEF Init, CycleOK, VerdictSound, StreamInit, HistoryInit, NoVerdict
<1> QED BY <1>1, <1>2, <1>3, <1>4 DEF CInv

(* A rule matches when each of its conditions does. *)
LEMMA EvaluateMatched ==
  ASSUME NEW r \in ToSet(Rules), NEW found \in {"matched", "unmatched", "error"},
         Evaluate(r, found) = "matched",
         NEW n \in DOMAIN Conditions[r]
  PROVE  ConditionResult(Conditions[r][n], found) = "matched"
<1> DEFINE results == [k \in DOMAIN Conditions[r] |-> ConditionResult(Conditions[r][k], found)]
           unsatisfied == {k \in DOMAIN results : results[k] # "matched"}
<1>1. Evaluate(r, found) = IF unsatisfied = {} THEN "matched" ELSE results[Min(unsatisfied)]
  BY DEF Evaluate
<1>2. DOMAIN results = DOMAIN Conditions[r] /\ results[n] = ConditionResult(Conditions[r][n], found)
  OBVIOUS
<1>3. ASSUME unsatisfied # {} PROVE Min(unsatisfied) \in unsatisfied
  <2>1. unsatisfied \subseteq Nat
    <3>1. Conditions[r] \in Seq([resource : {"oom", "start", "measured"}, operator : {"==", ">="}, value : Nat])
      BY RulesAssumption
    <3>2. DOMAIN Conditions[r] \subseteq Nat
      BY <3>1
    <3> QED BY <1>2, <3>2
  <2> HIDE DEF unsatisfied
  <2>2. \E k \in unsatisfied : \A m \in unsatisfied : k <= m
    BY <1>3, <2>1, LeastOf
  <2> QED BY <2>2 DEF Min
<1>4. unsatisfied = {}
  <2> HIDE DEF results
  <2> QED BY <1>1, <1>3
<1> QED BY <1>2, <1>4

(* A condition on a count that matches is true of what happened.           *)
LEMMA CountConditionTrue ==
  ASSUME CountsOK, counts # None,
         NEW condition \in [resource : {"oom", "start", "measured"}, operator : {"==", ">="}, value : Nat],
         condition.resource # "measured",
         NEW found, ConditionResult(condition, found) = "matched"
  PROVE  ConditionTrue(condition)
<1> DEFINE n == CountOf(condition, Self)
           t == Truth(Self, condition.resource)
<1>1. counts.complete /\ Compares(condition, n)
  BY DEF ConditionResult
<1>2. condition.resource \in {"oom", "start"} /\ condition.value \in Nat /\ Self \in Containers
  BY RulesAssumption
<1>3. n \in Nat /\ t \in Nat /\ n <= t /\ (hidden \/ n = t)
  BY <1>1, <1>2 DEF CountsOK, CountOf
<1> HIDE DEF n, t
<1>4. Compares(condition, t) \/ (condition.operator = "==" /\ hidden)
  BY <1>1, <1>2, <1>3 DEF Compares
<1> QED BY <1>4 DEF ConditionTrue, t

LEMMA JudgeInv ==
  ASSUME CInv, Judge
  PROVE  CycleOK' /\ VerdictSound'
<1> USE DEF CInv
<1>1. PICK n \in todo, found \in {"matched", "unmatched", "error"} :
        /\ verdict' = [verdict EXCEPT ![Rules[n]] = Evaluate(Rules[n], found)]
        /\ todo' = todo \ {n}
  BY DEF Judge
<1>2. /\ stage \in {"state", "metrics"} /\ counts # None
      /\ UNCHANGED <<historyVars, streamVars, stage, running>>
  BY DEF Judge
<1> DEFINE q == Rules[n]
<1>3. q \in ToSet(Rules) /\ n \in DOMAIN Rules
  BY <1>1, RulesAre DEF CycleOK
<1>4. Evaluate(q, found) \in Verdicts
  <2> DEFINE results == [k \in DOMAIN Conditions[q] |-> ConditionResult(Conditions[q][k], found)]
             unsatisfied == {k \in DOMAIN results : results[k] # "matched"}
  <2>1. \A k \in DOMAIN Conditions[q] : ConditionResult(Conditions[q][k], found) \in Verdicts
    BY RulesAre, <1>3 DEF ConditionResult, Verdicts
  <2>2. Evaluate(q, found) = IF unsatisfied = {} THEN "matched" ELSE results[Min(unsatisfied)]
    BY DEF Evaluate
  <2>3. unsatisfied # {} => Min(unsatisfied) \in DOMAIN Conditions[q]
    <3>1. Conditions[q] \in Seq([resource : {"oom", "start", "measured"}, operator : {"==", ">="}, value : Nat])
      BY <1>3, RulesAssumption
    <3>2. unsatisfied \subseteq DOMAIN Conditions[q] /\ DOMAIN Conditions[q] \subseteq Nat
      BY <3>1
    <3> HIDE DEF unsatisfied
    <3>3. unsatisfied # {} => \E k \in unsatisfied : \A m \in unsatisfied : k <= m
      BY <3>2, LeastOf
    <3> QED BY <3>2, <3>3 DEF Min
  <2> HIDE DEF unsatisfied
  <2> QED BY <2>1, <2>2, <2>3 DEF Verdicts
<1>5. /\ verdict' \in [ToSet(Rules) -> Verdicts] /\ verdict'[q] = Evaluate(q, found)
      /\ \A r \in ToSet(Rules) \ {q} : verdict'[r] = verdict[r]
  BY <1>1, <1>3, <1>4 DEF CycleOK
<1>6. stage = "state" => ~NeedsMetrics(q)
  BY <1>1, <1>3 DEF CycleOK, MetricRules
<1>7. CycleOK'
  <2>1. \A r : NeedsMetrics(r)' <=> NeedsMetrics(r)
    BY DEF NeedsMetrics
  <2> QED BY <1>1, <1>2, <1>3, <1>5, <1>6, <2>1 DEF CycleOK, streamVars, historyVars, MetricRules
<1>8. \A condition : ConditionTrue(condition)' <=> ConditionTrue(condition)
  BY <1>2 DEF ConditionTrue, Truth, Within, streamVars, historyVars, taken, Compares
<1>9. ASSUME NEW k \in DOMAIN Conditions[q], verdict'[q] = "matched"
      PROVE  ConditionTrue(Conditions[q][k])
  <2>1. ConditionResult(Conditions[q][k], found) = "matched"
    BY <1>3, <1>5, <1>9, EvaluateMatched
  <2>2. CASE Conditions[q][k].resource # "measured"
    BY <1>2, <1>3, <2>1, <2>2, CountConditionTrue, RulesAre
  <2>3. CASE Conditions[q][k].resource = "measured"
    <3>1. NeedsMetrics(q) /\ stage = "metrics"
      BY <1>2, <1>6, <2>3 DEF NeedsMetrics
    <3>2. reader = "end" /\ result = "values"
      BY <3>1 DEF CycleOK
    <3>3. SamplesDiffer /\ response = "closed"
      BY <3>2 DEF StreamOK
    <3> QED BY <2>3, <3>2, <3>3 DEF ConditionTrue, SamplesDiffer
  <2> QED BY <2>2, <2>3
<1> HIDE DEF q
<1>10. VerdictSound'
  <2> SUFFICES ASSUME NEW r \in ToSet(Rules), verdict'[r] = "matched", NEW k \in DOMAIN Conditions[r]
               PROVE  ConditionTrue(Conditions[r][k])
    BY <1>8 DEF VerdictSound
  <2> QED BY <1>5, <1>9 DEF VerdictSound
<1> QED BY <1>7, <1>10

(* Before the query: time passes, or the daemon tells of something new.    *)
LEMMA WorldInv ==
  ASSUME HappenedOK, Pass \/ \E h \in Happenings : Emit(h)
  PROVE  HappenedOK'
<1>0. clock \in Nat /\ happened \in Seq(Told) /\ Len(happened) \in Nat
  BY DEF HappenedOK
<1>1. CASE Pass
  <2>1. clock' = clock + 1 /\ happened' = happened
    BY <1>1 DEF Pass
  <2>2. ASSUME NEW n \in 1 .. Len(happened) PROVE happened[n].stamp <= clock + 1
    <3>1. happened[n] \in Told
      BY <1>0, ElementOfSeq
    <3>2. happened[n].stamp \in Nat /\ happened[n].stamp <= clock
      BY <3>1 DEF Told, HappenedOK
    <3> QED BY <1>0, <3>2
  <2> QED BY <1>0, <2>1, <2>2 DEF HappenedOK
<1>2. ASSUME NEW h \in Happenings, Emit(h) PROVE HappenedOK'
  <2> DEFINE e == [id |-> h.id, action |-> h.action, stamp |-> clock]
             k == Len(happened) + 1
  <2>1. /\ happened' = Append(happened, e) /\ clock' = clock
        /\ \A n \in 1 .. Len(happened) : happened[n] # e
    BY <1>2 DEF Emit
  <2>2. e \in Told /\ e.stamp = clock
    <3>1. h.id \in Containers \cup {None} /\ h.action \in {"oom", "start", "pull"}
      BY DEF Happenings
    <3> QED BY <1>0, <3>1 DEF Told
  <2> HIDE DEF e
  <2>3. /\ happened' \in Seq(Told) /\ Len(happened') = k /\ happened'[k] = e
        /\ \A n \in 1 .. Len(happened) : happened'[n] = happened[n]
    BY <1>0, <2>1, <2>2, AppendProperties
  <2>4. \A n \in 1 .. k : n \in 1 .. Len(happened) \/ n = k
    BY <1>0
  <2>5. \A n \in 1 .. Len(happened) : happened[n].stamp <= clock /\ happened[n].stamp \in Nat
    <3> TAKE n \in 1 .. Len(happened)
    <3>1. happened[n] \in Told
      BY <1>0, ElementOfSeq
    <3> QED BY <3>1 DEF HappenedOK, Told
  <2>6. \A n \in 1 .. k : happened'[n].stamp <= clock'
    BY <1>0, <2>1, <2>2, <2>3, <2>4, <2>5
  <2>7. ASSUME NEW m \in 1 .. k, NEW n \in 1 .. k
        PROVE  /\ m <= n => happened'[m].stamp <= happened'[n].stamp
               /\ happened'[m] = happened'[n] => m = n
    <3>1. CASE m = k
      BY <1>0, <2>1, <2>2, <2>3, <2>4, <3>1
    <3>2. CASE n = k /\ m # k
      BY <1>0, <2>1, <2>2, <2>3, <2>4, <2>5, <3>2
    <3>3. CASE n # k /\ m # k
      <4>1. m \in 1 .. Len(happened) /\ n \in 1 .. Len(happened)
        BY <2>4, <3>3
      <4> QED BY <2>3, <4>1 DEF HappenedOK
    <3> QED BY <3>1, <3>2, <3>3
  <2> QED BY <1>0, <2>1, <2>3, <2>6, <2>7 DEF HappenedOK
<1> QED BY <1>1, <1>2

(* What is true of a count stays so as long as nothing is queried.         *)
LEMMA TruthStays ==
  ASSUME UNCHANGED historyVars
  PROVE  /\ HappenedOK => HappenedOK'
         /\ CountsOK => CountsOK'
         /\ \A condition : condition.resource # "measured" => (ConditionTrue(condition)' <=> ConditionTrue(condition))
<1>1. \A c, a : Truth(c, a)' = Truth(c, a)
  BY DEF historyVars, Truth, Within
<1>2. HappenedOK => HappenedOK'
  BY DEF historyVars, HappenedOK
<1>3. CountsOK => CountsOK'
  BY <1>1 DEF historyVars, CountsOK
<1>4. \A condition : condition.resource # "measured" => (ConditionTrue(condition)' <=> ConditionTrue(condition))
  BY <1>1 DEF ConditionTrue, historyVars, Compares
<1> QED BY <1>2, <1>3, <1>4

(* While nothing has been measured, verdicts rest on events alone.         *)
LEMMA SoundUntilMeasured ==
  ASSUME CycleOK, VerdictSound, stage # "metrics", UNCHANGED <<historyVars, verdict>>
  PROVE  VerdictSound'
<1>1. SUFFICES ASSUME NEW r \in ToSet(Rules), verdict[r] = "matched", NEW n \in DOMAIN Conditions[r]
               PROVE  ConditionTrue(Conditions[r][n])'
  BY DEF VerdictSound
<1>2. Conditions[r][n].resource # "measured" /\ ConditionTrue(Conditions[r][n])
  BY <1>1 DEF CycleOK, NeedsMetrics, VerdictSound
<1> QED BY <1>2, TruthStays

LEMMA ForgetInv ==
  ASSUME CInv, Forget
  PROVE  CInv'
<1>1. /\ stage' = "idle" /\ todo' = {} /\ verdict' = NoVerdict /\ counts' = None
      /\ reader' = "idle" /\ timer' = "none" /\ response' = "none"
      /\ wire' = <<>> /\ lines' = <<>> /\ samples' = NoSamples /\ result' = "none"
      /\ UNCHANGED <<clock, happened>>
  BY DEF Forget
<1>2. \A T : <<>> \in Seq(T)
  OBVIOUS
<1>3. NoSamples \in [previous : Stamps \cup {NoSample}, current : Stamps \cup {NoSample}]
  BY DEF NoSamples
<1>4. StreamOK'
  BY <1>1, <1>2, <1>3 DEF StreamOK
<1>5. HappenedOK' /\ CountsOK'
  BY <1>1 DEF CInv, HappenedOK, CountsOK
<1>6. CycleOK' /\ VerdictSound'
  BY <1>1, RulesAre DEF CycleOK, VerdictSound, NoVerdict
<1> QED BY <1>4, <1>5, <1>6 DEF CInv

LEMMA NextCInv == CInv /\ [Next]_vars => CInv'
<1> SUFFICES ASSUME CInv, [Next]_vars PROVE CInv'
  OBVIOUS
<1>0. HappenedOK /\ CountsOK /\ StreamOK /\ CycleOK /\ VerdictSound
  BY DEF CInv
<1>1. CASE UNCHANGED vars
  <2>1. StreamOK' /\ HappenedOK' /\ CountsOK'
    BY <1>0, <1>1, TruthStays DEF vars, streamVars, body, taken, StreamOK, SamplesDiffer
  <2>2. CycleOK'
    BY <1>0, <1>1 DEF vars, cycleVars, streamVars, historyVars, CycleOK
  <2>3. VerdictSound'
    <3>1. \A condition : ConditionTrue(condition)' <=> ConditionTrue(condition)
      BY <1>1 DEF vars, streamVars, historyVars, taken, ConditionTrue, Truth, Within, Compares
    <3> QED BY <1>0, <1>1, <3>1 DEF vars, cycleVars, VerdictSound
  <2> QED BY <2>1, <2>2, <2>3 DEF CInv
<1>2. CASE World /\ UNCHANGED <<streamVars, cycleVars>>
  <2>1. /\ counts = None /\ UNCHANGED <<counts, hidden>> /\ stage \in {"idle", "select"} /\ verdict = NoVerdict
        /\ Pass \/ \E h \in Happenings : Emit(h)
    BY <1>0, <1>2 DEF World, Pass, Emit, CycleOK
  <2>2. HappenedOK' /\ CountsOK'
    BY <1>0, <2>1, WorldInv DEF CountsOK
  <2>3. StreamOK' /\ CycleOK'
    BY <1>0, <1>2, <2>1 DEF streamVars, cycleVars, body, taken, StreamOK, SamplesDiffer, CycleOK
  <2>4. VerdictSound'
    BY <1>2, <2>1 DEF cycleVars, VerdictSound, NoVerdict
  <2> QED BY <2>2, <2>3, <2>4 DEF CInv
<1>3. CASE SamplingNext /\ UNCHANGED <<historyVars, cycleVars>>
  <2>1. stage = "sampling" /\ (ReadStep \/ ReadIdle \/ WatchdogStep \/ Network)
    BY <1>3 DEF SamplingNext
  <2>2. StreamOK' /\ HappenedOK' /\ CountsOK'
    BY <1>0, <1>3, <2>1, SamplingStream, TruthStays
  <2>3. CycleOK'
    BY <1>0, <1>3, <2>1 DEF cycleVars, historyVars, CycleOK
  <2>4. VerdictSound'
    BY <1>0, <1>3, <2>1, SoundUntilMeasured DEF cycleVars
  <2> QED BY <2>2, <2>3, <2>4 DEF CInv
<1>4. CASE BeginCycle
  <2>1. StreamOK' /\ HappenedOK' /\ CountsOK'
    BY <1>0, <1>4, TruthStays DEF BeginCycle, streamVars, body, taken, StreamOK, SamplesDiffer
  <2>2. CycleOK'
    BY <1>0, <1>4 DEF BeginCycle, streamVars, historyVars, CycleOK
  <2>3. VerdictSound'
    BY <1>0, <1>4, SoundUntilMeasured DEF BeginCycle
  <2> QED BY <2>1, <2>2, <2>3 DEF CInv
<1>5. CASE Select
  <2>1. /\ stage = "select" /\ Query /\ stage' = "state" /\ todo' = StateRules
        /\ UNCHANGED <<streamVars, verdict, clock, happened>> /\ verdict = NoVerdict
    BY <1>0, <1>5 DEF Select, Query, CycleOK
  <2>2. CountsOK' /\ HappenedOK'
    BY <1>0, <2>1, QueryCounts DEF HappenedOK
  <2>3. StreamOK'
    BY <1>0, <2>1 DEF streamVars, body, taken, StreamOK, SamplesDiffer
  <2>4. CycleOK'
    BY <1>0, <2>1 DEF streamVars, CycleOK, StateRules, MetricRules, NoVerdict, NeedsMetrics
  <2>5. VerdictSound'
    BY <2>1 DEF VerdictSound, NoVerdict
  <2> QED BY <2>2, <2>3, <2>4, <2>5 DEF CInv
<1>6. CASE Judge
  <2>1. StreamOK' /\ HappenedOK' /\ CountsOK'
    BY <1>0, <1>6, TruthStays DEF Judge, streamVars, body, taken, StreamOK, SamplesDiffer
  <2> QED BY <1>6, <2>1, JudgeInv DEF CInv
<1>7. CASE StartSampling
  <2>1. StreamOK' /\ HappenedOK' /\ CountsOK'
    BY <1>0, <1>7, RequestStream, TruthStays DEF StartSampling
  <2>2. CycleOK'
    BY <1>0, <1>7 DEF StartSampling, historyVars, CycleOK
  <2>3. VerdictSound'
    BY <1>0, <1>7, SoundUntilMeasured DEF StartSampling
  <2> QED BY <2>1, <2>2, <2>3 DEF CInv
<1>8. CASE Sampled
  <2>1. StreamOK' /\ HappenedOK' /\ CountsOK'
    BY <1>0, <1>8, TruthStays DEF Sampled, streamVars, body, taken, StreamOK, SamplesDiffer
  <2>2. CycleOK'
    BY <1>0, <1>8 DEF Sampled, streamVars, historyVars, CycleOK, MetricRules
  <2>3. VerdictSound'
    BY <1>0, <1>8, SoundUntilMeasured DEF Sampled
  <2> QED BY <2>1, <2>2, <2>3 DEF CInv
<1>9. CASE SelectFails \/ EndCycle
  BY <1>9, ForgetInv DEF SelectFails, EndCycle
<1> QED BY <1>1, <1>2, <1>3, <1>4, <1>5, <1>6, <1>7, <1>8, <1>9 DEF Next, CycleNext

LEMMA CollectionInvariance == Spec => []CInv
BY InitCInv, NextCInv, PTL DEF Spec

(***************************************************************************)
(* VerdictsAreSound: a rule that matched had reason to: two samples of     *)
(* different times, of a response that is closed, and as many events in    *)
(* the window as it asks for (read_history, event_counts, _collect_stats). *)
(***************************************************************************)
THEOREM VerdictsAreSound == Spec => []VerdictSound
BY CollectionInvariance, PTL DEF CInv

(***************************************************************************)
(* SocketsOwned: a watchdog that may still shut something down finds the   *)
(* response open that it was armed for (timer.join before response.close). *)
(***************************************************************************)
THEOREM SocketsOwned == Spec => []SocketOwned
<1>1. CInv => SocketOwned
  BY DEF CInv, StreamOK, SocketOwned
<1> QED BY <1>1, CollectionInvariance, PTL

-----------------------------------------------------------------------------
(***************************************************************************)
(* The checks of directories.                                              *)
(***************************************************************************)
(* v is what a command, of those in table, has printed of field f of p.    *)
Measures(table, f, p, v) ==
  LET k == <<CommandOf(f), p, NoIdentity>>
  IN  /\ k \in DOMAIN table
      /\ v = IF f \in Numeric THEN table[k][f] ELSE table[k]
      /\ v \in {0, 1, Missing} /\ (f = "mode" => v \in {0, 1})

CacheOK == \A p \in DOMAIN cache :
  /\ DOMAIN cache[p] = Numeric \cup {"mode"}
  /\ \A f \in PathFields(p) \ {"access"} : Measures(printed, f, p, cache[p][f])
EntryOK ==
  DOMAIN entry # {} =>
    /\ agenda # <<>> /\ Path \notin DOMAIN cache
    /\ DOMAIN entry \subseteq Numeric \cup {"mode"}
    /\ DOMAIN entry \cap Numeric # {} => Numeric \subseteq DOMAIN entry
    /\ \A f \in DOMAIN entry : Measures(printed, f, Path, entry[f])
AccessOK == \A g \in DOMAIN Groups : \A p \in PathsOf(g) : AccessKey(g, p) \in DOMAIN accessCache =>
  /\ <<"access", p, Identities[g]>> \in DOMAIN printed
  /\ accessCache[AccessKey(g, p)] = printed[<<"access", p, Identities[g]>>]
  /\ accessCache[AccessKey(g, p)] \in {0, 1}

(* A sample is of a path of a group that asks, and holds what is cached.   *)
SampleOK(s) ==
  /\ s.group \in Requested /\ s.path \in PathsOf(s.group) /\ s.path \in DOMAIN cache
  /\ "access" \in AskedOf(s.group) => AccessKey(s.group, s.path) \in DOMAIN accessCache
  /\ \A f \in AskedOf(s.group) :
       s.value[f] = IF f = "access" THEN accessCache[AccessKey(s.group, s.path)] ELSE cache[s.path][f]
SamplesOK == measured \in Seq(ToSet(measured)) /\ \A k \in DOMAIN measured : SampleOK(measured[k])

(* Every path of a group that asks has its sample, or is on the agenda.    *)
AllPaths == UNION {PathsOf(g) : g \in DOMAIN Groups}
Turns == [group : DOMAIN Groups, paths : Seq(AllPaths)]
Sampled1(g, p) == \E k \in DOMAIN measured : measured[k].group = g /\ measured[k].path = p
Waits(g, p) == \E k \in DOMAIN agenda : agenda[k].group = g /\ p \in ToSet(agenda[k].paths)
AgendaOK ==
  /\ agenda \in Seq(Turns)
  /\ turn \in {"probe", "judge"} => Requested \subseteq DOMAIN Groups
  /\ turn = "probe" => \A k \in DOMAIN agenda :
       /\ agenda[k].group \in Requested /\ agenda[k].paths # <<>>
       /\ ToSet(agenda[k].paths) \subseteq PathsOf(agenda[k].group)
  /\ turn = "probe" => \A g \in Requested : \A p \in PathsOf(g) : Sampled1(g, p) \/ Waits(g, p)
  /\ turn = "judge" => \A g \in Requested : \A p \in PathsOf(g) : Sampled1(g, p)
  /\ turn = "judge" => ~Unavailable

ExchangeOK ==
  /\ "step" \in DOMAIN exchange
  /\ exchange.step # "idle" => turn = "probe" /\ agenda # <<>>

Unreadable(r) ==
  \E c \in ToSet(settings.rules[r]), absent \in BOOLEAN :
    ~Evaluates(c.text, TypeOf(c.text.resource, absent))
OutcomeOK ==
  /\ outcome \in [RuleNames -> {"none", "matched", "unmatched", "error"}]
  /\ turn \in {"parse", "state", "collect", "probe"} => \A r \in RuleNames : outcome[r] # "none" => StateOnly(r)
  /\ \A r \in RuleNames : outcome[r] = "error" => Unreadable(r)

TurnOK ==
  /\ settings \in Settings
  /\ turn \in {"parse", "state", "collect", "probe", "judge", "end"}
  /\ turn # "end" => code = 0
  /\ turn \in {"parse", "state", "collect"} => DOMAIN entry = {} /\ measured = <<>>
  /\ checked => \A c \in AllConditions : CheckedOffline(c.text, c.group, DOMAIN Groups, WithIdentity)

KnownOK == CacheOK /\ EntryOK /\ AccessOK /\ SamplesOK
FsInv == TurnOK /\ AgendaOK /\ ExchangeOK /\ KnownOK /\ OutcomeOK /\ VerdictOnProbes

(* What rules ask for, by the settings alone. *)
LEMMA AskedIs ==
  ASSUME settings \in Settings
  PROVE  /\ RuleNames \subseteq Nat
         /\ \A g : AskedOf(g) \subseteq OnPaths
         /\ \A g : AskedOf(g) # {} => g \in Requested
         /\ \A p : \A g \in Requested : p \in PathsOf(g) => AskedOf(g) \subseteq PathFields(p)
         /\ \A p : PathFields(p) \subseteq OnPaths
         /\ \A r \in RuleNames : /\ settings.rules[r] \in Seq(ToSet(settings.rules[r]))
                                 /\ DOMAIN settings.rules[r] \subseteq Nat
         /\ \A r \in RuleNames : \A c \in ToSet(settings.rules[r]) :
              c.text \in Texts /\ (IsOnPath(c) => c.group \in Requested /\ c.text.resource \in AskedOf(c.group))
<1>1. RuleNames \subseteq Nat
  BY SettingsAssumption DEF RuleNames
<1>2. \A r \in RuleNames : settings.rules[r] \in Seq(ToSet(settings.rules[r]))
  BY SettingsAssumption DEF RuleNames
<1>3. \A r \in RuleNames : DOMAIN settings.rules[r] \subseteq Nat
  <2> TAKE r \in RuleNames
  <2>1. \A T : \A q \in Seq(T) : DOMAIN q \subseteq Nat
    OBVIOUS
  <2> QED BY <1>2, <2>1
<1>4. \A r \in RuleNames : \A c \in ToSet(settings.rules[r]) : c.text \in Texts /\ c \in AllConditions
  BY SettingsAssumption DEF RuleNames, AllConditions
<1>5. \A e \in settings.extra : e.resource \in OnPaths
  BY SettingsAssumption
<1>6. \A g : AskedOf(g) \subseteq OnPaths
  BY <1>5 DEF AskedOf
<1>7. \A g : AskedOf(g) # {} => g \in Requested
  BY DEF AskedOf, Requested
<1>8. \A p : \A g \in Requested : p \in PathsOf(g) => AskedOf(g) \subseteq PathFields(p)
  BY DEF PathFields, PathsOf
<1>9. \A p : PathFields(p) \subseteq OnPaths
  BY <1>6 DEF PathFields
<1>10. \A r \in RuleNames : \A c \in ToSet(settings.rules[r]) :
         IsOnPath(c) => c.group \in Requested /\ c.text.resource \in AskedOf(c.group)
  BY <1>4 DEF IsOnPath, Requested, AskedOf
<1> QED BY <1>1, <1>2, <1>3, <1>4, <1>6, <1>7, <1>8, <1>9, <1>10

(* Which command the head of the agenda wants. *)
LEMMA WantedIs ==
  /\ Wanted = "stat" => StatWanted
  /\ Wanted = "mode" => ModeWanted /\ ~StatWanted
  /\ Wanted = "access" => AccessWanted
  /\ Wanted = "none" => ~StatWanted /\ ~ModeWanted /\ ~AccessWanted
<1>1. /\ StatWanted => ~ModeWanted /\ ~AccessWanted
      /\ ModeWanted => ~AccessWanted
  BY DEF StatWanted, ModeWanted, AccessWanted
<1>2. CASE StatWanted
  <2>1. Wanted = "stat"
    BY <1>1, <1>2 DEF Wanted
  <2> QED BY <1>1, <1>2, <2>1
<1>3. CASE ModeWanted
  <2>1. Wanted = "mode"
    BY <1>1, <1>3 DEF Wanted
  <2> QED BY <1>1, <1>3, <2>1
<1>4. CASE AccessWanted
  <2>1. Wanted = "access"
    BY <1>1, <1>4 DEF Wanted
  <2> QED BY <1>1, <1>4, <2>1
<1>5. CASE ~StatWanted /\ ~ModeWanted /\ ~AccessWanted
  <2>1. Wanted = "none"
    BY <1>5 DEF Wanted
  <2> QED BY <1>5, <2>1
<1> QED BY <1>2, <1>3, <1>4, <1>5

(* The first result that is not the ordinary one. *)
LEMMA FirstIs ==
  ASSUME NEW results, DOMAIN results \subseteq Nat, NEW ordinary
  PROVE  /\ First(results, ordinary) = ordinary <=> \A n \in DOMAIN results : results[n] = ordinary
         /\ First(results, ordinary) # ordinary => \E n \in DOMAIN results : results[n] = First(results, ordinary)
<1> DEFINE others == {n \in DOMAIN results : results[n] # ordinary}
<1>1. First(results, ordinary) =
        IF others = {} THEN ordinary ELSE results[CHOOSE n \in others : \A k \in others : n <= k]
  BY DEF First
<1>2. others # {} => \E n \in others : \A k \in others : n <= k
  BY LeastOf
<1>3. others # {} => (CHOOSE n \in others : \A k \in others : n <= k) \in others
  <2> HIDE DEF others
  <2> QED BY <1>2
<1> QED BY <1>1, <1>3
LEMMA PutIs ==
  \A f, key, v : /\ DOMAIN Put(f, key, v) = DOMAIN f \cup {key}
                 /\ Put(f, key, v)[key] = v
                 /\ \A k \in DOMAIN f \ {key} : Put(f, key, v)[k] = f[k]
BY DEF Put

(* The result of a condition, of one sample for its group, of a group and  *)
(* of a rule, and what each of them says.                                  *)
Own(conditions, g) == {n \in DOMAIN conditions : IsOnPath(conditions[n]) /\ conditions[n].group = g}
Holds(s, c) == s.value[c.text.resource] = 1
OfSample(conditions, g, s) ==
  First([n \in Own(conditions, g) |-> Compared(conditions[n], FALSE, s.value[conditions[n].text.resource] = 1)],
        "matched")
Fails3(c, absent) == ~Evaluates(c.text, TypeOf(c.text.resource, absent))
Results == {"matched", "unmatched", "error"}

LEMMA ComparedIs ==
  ASSUME NEW c, NEW absent, NEW holds \in BOOLEAN
  PROVE  /\ Compared(c, absent, holds) \in Results
         /\ Compared(c, absent, holds) = "matched" => holds
         /\ Compared(c, absent, holds) = "unmatched" => ~holds
         /\ Compared(c, absent, holds) = "error" => Fails3(c, absent)
<1>1. Compared(c, absent, holds) =
        IF Fails3(c, absent) THEN "error" ELSE IF holds THEN "matched" ELSE "unmatched"
  BY DEF Compared, Result, Fails3
<1> QED BY <1>1 DEF Results

LEMMA SampleResult ==
  ASSUME NEW conditions, DOMAIN conditions \subseteq Nat, NEW g, NEW s
  PROVE  /\ OfSample(conditions, g, s) \in Results
         /\ OfSample(conditions, g, s) = "matched" => \A n \in Own(conditions, g) : Holds(s, conditions[n])
         /\ OfSample(conditions, g, s) = "unmatched" => \E n \in Own(conditions, g) : ~Holds(s, conditions[n])
         /\ OfSample(conditions, g, s) = "error" => \E n \in Own(conditions, g) : Fails3(conditions[n], FALSE)
<1> DEFINE results == [n \in Own(conditions, g) |->
                         Compared(conditions[n], FALSE, s.value[conditions[n].text.resource] = 1)]
<1>1. OfSample(conditions, g, s) = First(results, "matched")
  BY DEF OfSample
<1>2. DOMAIN results = Own(conditions, g) /\ DOMAIN results \subseteq Nat
  BY DEF Own
<1>3. \A n \in Own(conditions, g) :
        /\ results[n] \in Results
        /\ results[n] = "matched" => Holds(s, conditions[n])
        /\ results[n] = "unmatched" => ~Holds(s, conditions[n])
        /\ results[n] = "error" => Fails3(conditions[n], FALSE)
  <2> TAKE n \in Own(conditions, g)
  <2>1. results[n] = IF Fails3(conditions[n], FALSE) THEN "error"
                     ELSE IF Holds(s, conditions[n]) THEN "matched" ELSE "unmatched"
    BY DEF Compared, Result, Fails3, Holds
  <2> HIDE DEF results
  <2> QED BY <2>1 DEF Results
<1> HIDE DEF results
<1>4. /\ First(results, "matched") = "matched" <=> \A n \in DOMAIN results : results[n] = "matched"
      /\ First(results, "matched") # "matched" => \E n \in DOMAIN results : results[n] = First(results, "matched")
  BY <1>2, FirstIs
<1> QED BY <1>1, <1>2, <1>3, <1>4 DEF Results

LEMMA GroupResultIs ==
  ASSUME NEW conditions, DOMAIN conditions \subseteq Nat, NEW g, DOMAIN measured \subseteq Nat
  PROVE  /\ GroupResult(conditions, g) \in Results
         /\ GroupResult(conditions, g) = "matched" =>
              \E k \in DOMAIN measured : /\ measured[k].group = g
                                         /\ \A n \in Own(conditions, g) : Holds(measured[k], conditions[n])
         /\ GroupResult(conditions, g) = "unmatched" =>
              \A k \in DOMAIN measured : measured[k].group = g =>
                \E n \in Own(conditions, g) : ~Holds(measured[k], conditions[n])
         /\ GroupResult(conditions, g) = "error" => \E n \in Own(conditions, g) : Fails3(conditions[n], FALSE)
<1> DEFINE places == {k \in DOMAIN measured : measured[k].group = g}
           results == [k \in places |-> OfSample(conditions, g, measured[k])]
<1>1. GroupResult(conditions, g) = First(results, "unmatched")
  BY DEF GroupResult, OfSample, Own
<1>2. DOMAIN results = places /\ DOMAIN results \subseteq Nat
  OBVIOUS
<1>3. \A k \in places : results[k] = OfSample(conditions, g, measured[k])
  OBVIOUS
<1>4. \A k \in places : k \in DOMAIN measured /\ measured[k].group = g
  OBVIOUS
<1>5. \A k \in DOMAIN measured : measured[k].group = g => k \in places
  OBVIOUS
<1> HIDE DEF results, places
<1>6. /\ First(results, "unmatched") = "unmatched" <=> \A n \in DOMAIN results : results[n] = "unmatched"
      /\ First(results, "unmatched") # "unmatched" =>
           \E n \in DOMAIN results : results[n] = First(results, "unmatched")
  BY <1>2, FirstIs
<1>7. \A k \in places :
        /\ results[k] \in Results
        /\ results[k] = "matched" => \A n \in Own(conditions, g) : Holds(measured[k], conditions[n])
        /\ results[k] = "unmatched" => \E n \in Own(conditions, g) : ~Holds(measured[k], conditions[n])
        /\ results[k] = "error" => \E n \in Own(conditions, g) : Fails3(conditions[n], FALSE)
  BY <1>3, SampleResult
<1>8. GroupResult(conditions, g) \in Results
  BY <1>1, <1>2, <1>6, <1>7 DEF Results
<1>9. GroupResult(conditions, g) = "matched" =>
              \E k \in DOMAIN measured : /\ measured[k].group = g
                                         /\ \A n \in Own(conditions, g) : Holds(measured[k], conditions[n])
  BY <1>1, <1>2, <1>4, <1>6, <1>7
<1>10. GroupResult(conditions, g) = "unmatched" =>
              \A k \in DOMAIN measured : measured[k].group = g =>
                \E n \in Own(conditions, g) : ~Holds(measured[k], conditions[n])
  BY <1>1, <1>2, <1>5, <1>6, <1>7
<1>11. GroupResult(conditions, g) = "error" => \E n \in Own(conditions, g) : Fails3(conditions[n], FALSE)
  BY <1>1, <1>2, <1>6, <1>7
<1> QED BY <1>8, <1>9, <1>10, <1>11

LEMMA MatchesIs ==
  ASSUME NEW conditions, DOMAIN conditions \subseteq Nat, DOMAIN measured \subseteq Nat,
         NEW simple \in BOOLEAN, NEW absent \in BOOLEAN
  PROVE  LET whole == Matches(conditions, simple, absent)
             onPaths == {n \in DOMAIN conditions : IsOnPath(conditions[n])}
         IN /\ whole \in Results
            /\ whole = "matched" => \A n \in onPaths : GroupResult(conditions, conditions[n].group) = "matched"
            /\ whole = "unmatched" /\ onPaths = DOMAIN conditions =>
                 \E n \in onPaths : GroupResult(conditions, conditions[n].group) = "unmatched"
            /\ whole = "error" => \E n \in DOMAIN conditions, a \in BOOLEAN : Fails3(conditions[n], a)
<1> DEFINE onPaths == {n \in DOMAIN conditions : IsOnPath(conditions[n])}
           ones == [n \in DOMAIN conditions \ onPaths |-> Compared(conditions[n], absent, simple)]
           groups == [n \in onPaths |-> GroupResult(conditions, conditions[n].group)]
<1>1. Matches(conditions, simple, absent) =
        IF First(ones, "matched") # "matched" THEN First(ones, "matched") ELSE First(groups, "matched")
  BY DEF Matches
<1>2. DOMAIN ones = DOMAIN conditions \ onPaths /\ DOMAIN ones \subseteq Nat
  OBVIOUS
<1>3. DOMAIN groups = onPaths /\ DOMAIN groups \subseteq Nat
  OBVIOUS
<1>4. \A n \in DOMAIN ones : ones[n] = Compared(conditions[n], absent, simple) /\ n \in DOMAIN conditions
  OBVIOUS
<1>5. \A n \in DOMAIN groups : groups[n] = GroupResult(conditions, conditions[n].group) /\ n \in DOMAIN conditions
  OBVIOUS
<1>6. onPaths = {n \in DOMAIN conditions : IsOnPath(conditions[n])} /\ onPaths \subseteq DOMAIN conditions
  OBVIOUS
<1> HIDE DEF ones, groups, onPaths
<1>7. /\ First(ones, "matched") = "matched" <=> \A n \in DOMAIN ones : ones[n] = "matched"
      /\ First(ones, "matched") # "matched" => \E n \in DOMAIN ones : ones[n] = First(ones, "matched")
  BY <1>2, FirstIs
<1>8. /\ First(groups, "matched") = "matched" <=> \A n \in DOMAIN groups : groups[n] = "matched"
      /\ First(groups, "matched") # "matched" => \E n \in DOMAIN groups : groups[n] = First(groups, "matched")
  BY <1>3, FirstIs
<1>9. \A n \in DOMAIN ones :
        ones[n] \in Results /\ (ones[n] = "error" => Fails3(conditions[n], absent))
  BY <1>4, ComparedIs
<1>10. \A n \in DOMAIN groups :
         /\ groups[n] \in Results
         /\ groups[n] = "error" => \E k \in DOMAIN conditions : Fails3(conditions[k], FALSE)
  <2> TAKE n \in DOMAIN groups
  <2>1. /\ GroupResult(conditions, conditions[n].group) \in Results
        /\ GroupResult(conditions, conditions[n].group) = "error" =>
             \E k \in Own(conditions, conditions[n].group) : Fails3(conditions[k], FALSE)
    BY GroupResultIs
  <2> QED BY <1>5, <2>1 DEF Own
<1> DEFINE whole == Matches(conditions, simple, absent)
<1>11. whole \in Results
  BY <1>1, <1>7, <1>8, <1>9, <1>10 DEF Results
<1>12. whole = "matched" => \A n \in onPaths : GroupResult(conditions, conditions[n].group) = "matched"
  BY <1>1, <1>3, <1>5, <1>8
<1>13. whole = "unmatched" /\ onPaths = DOMAIN conditions =>
         \E n \in onPaths : GroupResult(conditions, conditions[n].group) = "unmatched"
  <2> SUFFICES ASSUME whole = "unmatched", onPaths = DOMAIN conditions
               PROVE  \E n \in onPaths : GroupResult(conditions, conditions[n].group) = "unmatched"
    OBVIOUS
  <2>1. DOMAIN ones = {}
    BY <1>2
  <2>2. First(groups, "matched") = "unmatched"
    BY <1>1, <1>7, <2>1
  <2> QED BY <1>3, <1>5, <1>8, <2>2
<1>14. whole = "error" => \E n \in DOMAIN conditions, a \in BOOLEAN : Fails3(conditions[n], a)
  <2> SUFFICES ASSUME whole = "error"
               PROVE  \E n \in DOMAIN conditions, a \in BOOLEAN : Fails3(conditions[n], a)
    OBVIOUS
  <2>1. CASE First(ones, "matched") # "matched"
    <3>1. \E n \in DOMAIN ones : ones[n] = "error"
      BY <1>1, <1>7, <2>1
    <3> QED BY <1>4, <1>9, <3>1
  <2>2. CASE First(ones, "matched") = "matched"
    <3>1. \E n \in DOMAIN groups : groups[n] = "error"
      BY <1>1, <1>8, <2>2
    <3> QED BY <1>10, <3>1
  <2> QED BY <2>1, <2>2
<1> HIDE DEF whole
<1> QED BY <1>6, <1>11, <1>12, <1>13, <1>14 DEF whole, onPaths

(* What check-config has evaluated is read as what is measured, counters   *)
(* compared with fractions excepted.                                       *)
LEMMA TypesAgree ==
  ASSUME NEW c \in Texts, NEW group, NEW groups, NEW identities, CheckedOffline(c, group, groups, identities),
         NEW absent \in BOOLEAN, ~Evaluates(c, TypeOf(c.resource, absent))
  PROVE  c.resource \in Counters /\ Written(c) \cap {"fraction", "infinity"} # {}
<1>1. Evaluates(c, MadeUpType(c.resource)) /\ Accepted(c, group, groups, identities)
  BY DEF CheckedOffline
<1>2. c.op # "member"
  BY <1>1 DEF Evaluates
<1>3. (\A l \in Written(c) : ReadsAs(MadeUpType(c.resource), l))
      /\ ~(\A l \in Written(c) : ReadsAs(TypeOf(c.resource, absent), l))
  BY <1>1, <1>2 DEF Evaluates
<1>4. TypeOf(c.resource, absent) # "str"
  BY <1>3 DEF ReadsAs
<1>5. c.resource \notin Counters => TypeOf(c.resource, absent) \in {"str", MadeUpType(c.resource)}
  <2>1. c.resource \in Resources
    BY DEF Texts
  <2> QED BY <2>1 DEF TypeOf, MadeUpType, Resources, OnPaths, Runtime, State, Counters, Numeric
<1>6. c.resource \in Counters
  BY <1>3, <1>4, <1>5
<1>7. Written(c) \subseteq Numerals \cup {"infinity"}
  BY <1>1, <1>6 DEF Accepted, Numeric
<1>8. TypeOf(c.resource, absent) = "int"
  BY <1>6 DEF TypeOf, Counters
<1>9. PICK l \in Written(c) : ~ReadsAs("int", l)
  BY <1>3, <1>8
<1>10. l \notin Digits \cup {"sized"}
  BY <1>9 DEF ReadsAs
<1> QED BY <1>6, <1>7, <1>9, <1>10 DEF Numerals
(* No step changes the settings, nor what follows from them. *)
LEMMA SettingsFixed ==
  ASSUME settings' = settings
  PROVE  /\ RuleNames' = RuleNames /\ AllConditions' = AllConditions /\ Requested' = Requested
         /\ \A g : AskedOf(g)' = AskedOf(g)
         /\ \A q : PathFields(q)' = PathFields(q)
         /\ \A r : StateOnly(r)' <=> StateOnly(r)
         /\ \A r : GroupsOf(r)' = GroupsOf(r) /\ (Unreadable(r)' <=> Unreadable(r))
         /\ \A r, g : OnGroup(r, g)' = OnGroup(r, g)
<1>1. RuleNames' = RuleNames
  BY DEF RuleNames
<1>2. AllConditions' = AllConditions
  BY <1>1 DEF AllConditions
<1>3. Requested' = Requested
  BY <1>2 DEF Requested
<1>4. \A g : AskedOf(g)' = AskedOf(g)
  BY <1>2 DEF AskedOf
<1>5. \A q : PathFields(q)' = PathFields(q)
  BY <1>3, <1>4 DEF PathFields
<1>6. \A r : StateOnly(r)' <=> StateOnly(r)
  BY DEF StateOnly
<1>7. \A r : GroupsOf(r)' = GroupsOf(r) /\ (Unreadable(r)' <=> Unreadable(r))
  BY DEF GroupsOf, Unreadable
<1>8. \A r, g : OnGroup(r, g)' = OnGroup(r, g)
  BY DEF OnGroup
<1> QED BY <1>1, <1>2, <1>3, <1>4, <1>5, <1>6, <1>7, <1>8

(* Parts of the invariant that a step leaves alone. *)
LEMMA KnownStays ==
  ASSUME KnownOK, UNCHANGED <<settings, entry, cache, accessCache, measured, printed>>,
         agenda' = agenda \/ DOMAIN entry = {}
  PROVE  KnownOK'
<1>1. \A f, q, v : Measures(printed', f, q, v) <=> Measures(printed, f, q, v)
  BY DEF Measures
<1>2. CacheOK'
  BY <1>1, SettingsFixed DEF KnownOK, CacheOK
<1>3. EntryOK'
  BY <1>1 DEF KnownOK, EntryOK, Path
<1>4. AccessOK'
  BY DEF KnownOK, AccessOK, AccessKey, PathsOf
<1>5. SamplesOK'
  <2>1. \A k \in DOMAIN measured : SampleOK(measured[k])' <=> SampleOK(measured[k])
    BY SettingsFixed DEF SampleOK, AccessKey, PathsOf
  <2> QED BY <2>1 DEF KnownOK, SamplesOK
<1> QED BY <1>2, <1>3, <1>4, <1>5 DEF KnownOK

LEMMA AgendaStays ==
  ASSUME AgendaOK, UNCHANGED <<settings, agenda, measured>>, turn' \in {"probe", "judge"} => turn' = turn
  PROVE  AgendaOK'
<1>1. \A g, q : (Sampled1(g, q)' <=> Sampled1(g, q)) /\ (Waits(g, q)' <=> Waits(g, q))
  BY DEF Sampled1, Waits
<1>2. Unavailable' <=> Unavailable
  BY SettingsFixed DEF Unavailable
<1> QED BY <1>1, <1>2, SettingsFixed DEF AgendaOK, PathsOf

Early == {"parse", "state", "collect", "probe"}

LEMMA OutcomeStays ==
  ASSUME OutcomeOK, UNCHANGED <<settings, outcome>>, turn' \in Early => turn \in Early
  PROVE  OutcomeOK'
BY SettingsFixed DEF OutcomeOK, Early

LEMMA VerdictStays ==
  ASSUME VerdictOnProbes, UNCHANGED <<settings, outcome, printed, measured, code, excused>>
  PROVE  VerdictOnProbes'
<1>1. \A c, q : PrintedOf(c, q)' = PrintedOf(c, q)
  BY DEF PrintedOf
<1> QED BY <1>1, SettingsFixed DEF VerdictOnProbes, PathsOf

(* The filesystem of a path has no such counter. *)
Lacks ==
  \E x \in ToSet(measured) : \E f \in AskedOf(x.group) \cap Numeric : printed[<<"stat", x.path, NoIdentity>>][f] = Missing

(* Before the paths are measured, no rule that has a verdict has paths. *)
LEMMA EarlyVerdict ==
  ASSUME OutcomeOK, VerdictOnProbes, turn \in Early, UNCHANGED <<settings, outcome>>,
         code' = 115 => excused' \/ Lacks'
  PROVE  VerdictOnProbes'
<1>1. \A r \in RuleNames : outcome[r] # "none" => GroupsOf(r) = {}
  <2> SUFFICES ASSUME NEW r \in RuleNames, outcome[r] # "none"
               PROVE  GroupsOf(r) = {}
    OBVIOUS
  <2>1. StateOnly(r)
    BY DEF OutcomeOK, Early
  <2>2. State \cap OnPaths = {}
    BY DEF State, OnPaths, Numeric, Counters
  <2> QED BY <2>1, <2>2 DEF GroupsOf, StateOnly, IsOnPath
<1>2. \A r \in RuleNames : ~(outcome[r] = "unmatched" /\ \A c \in ToSet(settings.rules[r]) : IsOnPath(c))
  BY <1>1 DEF VerdictOnProbes
<1>3. RuleNames' = RuleNames /\ \A r : GroupsOf(r)' = GroupsOf(r)
  BY SettingsFixed
<1>4. \A r \in RuleNames' : outcome'[r] = "matched" => GroupsOf(r)' = {}
  BY <1>1, <1>3
<1>5. \A r \in RuleNames' : ~(outcome'[r] = "unmatched" /\ \A c \in ToSet(settings'.rules[r]) : IsOnPath(c))
  BY <1>2, <1>3
<1> QED BY <1>4, <1>5 DEF VerdictOnProbes, Lacks

(* Steps of an exchange with a command in execution. *)
LEMMA QuietInv ==
  ASSUME FsInv, Quiet, exchange.step # "idle", "step" \in DOMAIN exchange'
  PROVE  FsInv'
<1>1. turn = "probe" /\ turn' = turn /\ agenda # <<>> /\ code = 0 /\ code' = code
  BY DEF FsInv, ExchangeOK, TurnOK, Quiet
<1>2. TurnOK'
  BY <1>1, SettingsFixed DEF FsInv, TurnOK, Quiet
<1>3. AgendaOK'
  BY AgendaStays DEF FsInv, Quiet
<1>4. ExchangeOK'
  BY <1>1 DEF FsInv, ExchangeOK, Quiet
<1>5. KnownOK'
  BY KnownStays DEF FsInv, Quiet
<1>6. OutcomeOK'
  BY OutcomeStays DEF FsInv, Quiet
<1>7. VerdictOnProbes'
  BY <1>1, EarlyVerdict DEF FsInv, Quiet, Early
<1> QED BY <1>2, <1>3, <1>4, <1>5, <1>6, <1>7 DEF FsInv

LEMMA ExchangeInv ==
  ASSUME FsInv, \/ \E inside \in BOOLEAN, more \in {0, 1} : Receive(inside, more)
                \/ ProbeFails \/ TimedOut \/ Eof \/ Inspect \/ Tick \/ CloseNext
  PROVE  FsInv'
<1>1. "step" \in DOMAIN exchange
  BY DEF FsInv, ExchangeOK
<1>2. Quiet /\ exchange.step # "idle" /\ "step" \in DOMAIN exchange'
  <2>1. CASE \E inside \in BOOLEAN, more \in {0, 1} : Receive(inside, more)
    BY <1>1, <2>1 DEF Receive, Reading
  <2>2. CASE ProbeFails \/ TimedOut
    BY <1>1, <2>2 DEF ProbeFails, TimedOut, Fails
  <2>3. CASE Eof
    BY <1>1, <2>3 DEF Eof, Reading, Fails
  <2>4. CASE Inspect
    BY <1>1, <2>4 DEF Inspect, Fails
  <2>5. CASE Tick
    BY <1>1, <2>5 DEF Tick
  <2>6. CASE CloseNext
    BY <1>1, <2>6 DEF CloseNext
  <2> QED BY <2>1, <2>2, <2>3, <2>4, <2>5, <2>6
<1> QED BY <1>2, QuietInv

LEMMA ParseInv ==
  ASSUME FsInv, Parse
  PROVE  FsInv'
<1>1. /\ turn = "parse" /\ turn' \in {"state", "end"} /\ code = 0 /\ code' \in {0, 110} /\ (turn' = "state" => code' = 0)
      /\ UNCHANGED <<settings, agenda, measured, outcome, excused, exchange, entry, cache, accessCache, printed>>
      /\ checked' = \A c \in AllConditions : CheckedOffline(c.text, c.group, DOMAIN Groups, WithIdentity)
  BY DEF Parse, Raise, FsInv, TurnOK, probing
<1>2. TurnOK'
  BY <1>1, SettingsFixed DEF FsInv, TurnOK
<1>3. AgendaOK'
  BY <1>1, AgendaStays DEF FsInv
<1>4. ExchangeOK'
  BY <1>1 DEF FsInv, ExchangeOK
<1>5. KnownOK'
  BY <1>1, KnownStays DEF FsInv
<1>6. OutcomeOK'
  BY <1>1, OutcomeStays DEF FsInv, Early
<1>7. VerdictOnProbes'
  BY <1>1, EarlyVerdict DEF FsInv, Early
<1> QED BY <1>2, <1>3, <1>4, <1>5, <1>6, <1>7 DEF FsInv

(* The groups that are asked for, in any order, with all their paths. *)
LEMMA GroupsAre ==
  ASSUME NEW g \in DOMAIN Groups
  PROVE  Groups[g] \in Seq(AllPaths) /\ Groups[g] # <<>> /\ ToSet(Groups[g]) = PathsOf(g) /\ PathsOf(g) \subseteq AllPaths
<1>1. PathsOf(g) \subseteq AllPaths
  BY DEF AllPaths
<1>2. Groups[g] \in Seq(PathsOf(g)) /\ Groups[g] # <<>>
  BY GroupsAssumption DEF PathsOf
<1>3. \A S, T : S \subseteq T => Seq(S) \subseteq Seq(T)
  OBVIOUS
<1> QED BY <1>1, <1>2, <1>3 DEF PathsOf

LEMMA OrderIs ==
  ASSUME Requested \subseteq DOMAIN Groups, NEW order \in SetToSeqs(Requested)
  PROVE  /\ DOMAIN order = 1..Len(order) /\ Len(order) \in Nat
         /\ \A n \in DOMAIN order : order[n] \in Requested
         /\ \A g \in Requested : \E n \in DOMAIN order : order[n] = g
<1> DEFINE D == 1..Cardinality(Requested)
<1>1. IsFiniteSet(Requested)
  BY GroupsAssumption, FS_Subset
<1>2. Cardinality(Requested) \in Nat
  BY <1>1, FS_CardinalityType
<1>3. order \in [D -> Requested] /\ \A i, j \in D : i # j => order[i] # order[j]
  BY DEF SetToSeqs
<1>4. order \in Injection(D, Requested)
  BY <1>3 DEF Injection, IsInjective
<1>5. Cardinality(D) = Cardinality(Requested)
  BY <1>2, FS_Interval
<1>6. order \in Surjection(D, Requested)
  BY <1>1, <1>4, <1>5, FS_Injection
<1>7. DOMAIN order = D /\ Len(order) = Cardinality(Requested)
  BY <1>2, <1>3
<1> QED BY <1>2, <1>3, <1>6, <1>7 DEF Surjection
LEMMA CollectInv ==
  ASSUME FsInv, NEW status \in {"running", "paused", "exited"}, Collect(status)
  PROVE  FsInv'
<1>1. /\ turn = "collect" /\ DOMAIN entry = {} /\ measured = <<>> /\ code = 0 /\ exchange.step = "idle"
      /\ UNCHANGED <<settings, checked, measured, outcome, exchange, entry, cache, accessCache, printed>>
  BY DEF Collect, probing, FsInv, TurnOK, ExchangeOK
<1>2. /\ turn' \in {"judge", "probe", "end"} /\ (turn' # "end" => code' = 0) /\ (code' = 115 => excused')
      /\ turn' \in {"probe", "judge"} => Requested \subseteq DOMAIN Groups
      /\ turn' = "judge" => Requested = {}
  BY <1>1 DEF Collect, Raise
<1>3. TurnOK'
  BY <1>1, <1>2, SettingsFixed DEF FsInv, TurnOK
<1>4. ExchangeOK'
  BY <1>1 DEF FsInv, ExchangeOK
<1>5. KnownOK'
  BY <1>1, KnownStays DEF FsInv
<1>6. OutcomeOK'
  BY <1>1, OutcomeStays DEF FsInv, Early
<1>7. VerdictOnProbes'
  BY <1>1, <1>2, EarlyVerdict DEF FsInv, Early
<1>8. AgendaOK'
  <2>1. turn' = "judge" => ~Unavailable'
    BY <1>1 DEF Unavailable, ToSet
  <2>2. CASE UNCHANGED agenda /\ turn' # "probe"
    BY <1>1, <1>2, <2>1, <2>2, SettingsFixed DEF FsInv, AgendaOK
  <2>3. CASE ~(UNCHANGED agenda /\ turn' # "probe")
    <3>1. /\ Requested \subseteq DOMAIN Groups
          /\ \E order \in SetToSeqs(Requested) :
               agenda' = [n \in DOMAIN order |-> [group |-> order[n], paths |-> Groups[order[n]]]]
      BY <1>1, <2>3 DEF Collect, Raise
    <3>2. PICK order \in SetToSeqs(Requested) :
            agenda' = [n \in DOMAIN order |-> [group |-> order[n], paths |-> Groups[order[n]]]]
      BY <3>1
    <3>3. /\ DOMAIN order = 1..Len(order) /\ Len(order) \in Nat
          /\ \A n \in DOMAIN order : order[n] \in Requested
          /\ \A g \in Requested : \E n \in DOMAIN order : order[n] = g
      BY <3>1, OrderIs
    <3>4. /\ DOMAIN agenda' = DOMAIN order
          /\ \A n \in DOMAIN order : agenda'[n].group = order[n] /\ agenda'[n].paths = Groups[order[n]]
      BY <3>2
    <3>5. \A g \in Requested : /\ Groups[g] \in Seq(AllPaths) /\ Groups[g] # <<>> /\ ToSet(Groups[g]) = PathsOf(g)
                               /\ g \in DOMAIN Groups
      BY <3>1, GroupsAre
    <3>6. agenda' \in Seq(Turns)
      <4>1. \A n \in 1..Len(order) : [group |-> order[n], paths |-> Groups[order[n]]] \in Turns
        BY <3>3, <3>5 DEF Turns
      <4>2. agenda' = [n \in 1..Len(order) |-> [group |-> order[n], paths |-> Groups[order[n]]]]
        BY <3>2, <3>3
      <4> QED BY <3>3, <4>1, <4>2
    <3>7. \A k \in DOMAIN agenda' :
            /\ agenda'[k].group \in Requested /\ agenda'[k].paths # <<>>
            /\ ToSet(agenda'[k].paths) \subseteq PathsOf(agenda'[k].group)
      BY <3>3, <3>4, <3>5
    <3>8. \A g \in Requested : \A q \in PathsOf(g) : Waits(g, q)'
      BY <3>3, <3>4, <3>5 DEF Waits
    <3>9. Requested' = Requested
      BY <1>1, SettingsFixed
    <3>10. turn' = "judge" => Requested = {}
      BY <1>2
    <3> QED BY <2>1, <3>1, <3>6, <3>7, <3>8, <3>9, <3>10 DEF AgendaOK, PathsOf
  <2> QED BY <2>2, <2>3
<1> QED BY <1>3, <1>4, <1>5, <1>6, <1>7, <1>8 DEF FsInv

(* The path at the head of the agenda. *)
LEMMA HeadIs ==
  ASSUME AgendaOK, turn = "probe", agenda # <<>>
  PROVE  /\ Head(agenda) = agenda[1] /\ 1 \in DOMAIN agenda /\ Requested \subseteq DOMAIN Groups
         /\ Group \in Requested /\ Group \in DOMAIN Groups
         /\ Head(agenda).paths \in Seq(AllPaths) /\ Head(agenda).paths # <<>>
         /\ Path = Head(agenda).paths[1] /\ Path \in PathsOf(Group)
<1>1. agenda \in Seq(Turns)
  BY DEF AgendaOK
<1>2. Head(agenda) = agenda[1] /\ 1 \in DOMAIN agenda /\ agenda[1] \in Turns
  BY <1>1
<1>3. /\ agenda[1].group \in Requested /\ agenda[1].paths # <<>>
      /\ ToSet(agenda[1].paths) \subseteq PathsOf(agenda[1].group) /\ Requested \subseteq DOMAIN Groups
  BY <1>2 DEF AgendaOK
<1>4. agenda[1].paths \in Seq(AllPaths)
  BY <1>2 DEF Turns
<1>5. Head(agenda[1].paths) = agenda[1].paths[1] /\ 1 \in DOMAIN agenda[1].paths
  BY <1>3, <1>4
<1>6. agenda[1].paths[1] \in ToSet(agenda[1].paths)
  BY <1>5 DEF ToSet
<1> QED BY <1>2, <1>3, <1>4, <1>5, <1>6 DEF Group, Path

LEMMA CacheEntryInv ==
  ASSUME FsInv, CacheEntry
  PROVE  FsInv'
<1>1. /\ turn = "probe" /\ exchange.step = "idle" /\ agenda # <<>> /\ Path \notin DOMAIN cache /\ Wanted = "none"
      /\ entry' = <<>> /\ code = 0
      /\ UNCHANGED <<settings, turn, checked, agenda, accessCache, measured, exchange, outcome, code, printed, excused>>
  BY DEF CacheEntry, Turning, Cached, FsInv, TurnOK
<1> DEFINE row == [f \in Numeric \cup {"mode"} |-> IF f \in DOMAIN entry THEN entry[f] ELSE Missing]
<1>2. cache' = Put(cache, Path, row)
  BY DEF CacheEntry
<1>4. DOMAIN row = Numeric \cup {"mode"} /\ \A f \in DOMAIN row \cap DOMAIN entry : row[f] = entry[f]
  OBVIOUS
<1> HIDE DEF row
<1>3. DOMAIN cache' = DOMAIN cache \cup {Path} /\ cache'[Path] = row /\ \A q \in DOMAIN cache : cache'[q] = cache[q]
  <2>1. /\ DOMAIN Put(cache, Path, row) = DOMAIN cache \cup {Path}
        /\ Put(cache, Path, row)[Path] = row
        /\ \A q \in DOMAIN cache \ {Path} : Put(cache, Path, row)[q] = cache[q]
    BY DEF Put
  <2> QED BY <1>1, <1>2, <2>1
<1>5. TurnOK'
  BY <1>1, SettingsFixed DEF FsInv, TurnOK
<1>6. AgendaOK'
  BY <1>1, AgendaStays DEF FsInv
<1>7. ExchangeOK'
  BY <1>1 DEF FsInv, ExchangeOK
<1>8. OutcomeOK'
  BY <1>1, OutcomeStays DEF FsInv
<1>9. VerdictOnProbes'
  BY <1>1, EarlyVerdict DEF FsInv, Early
<1>10. \A f, q, v : Measures(printed', f, q, v) <=> Measures(printed, f, q, v)
  BY <1>1 DEF Measures
<1>11. PathFields(Path) \ {"access"} \subseteq DOMAIN entry \cap (Numeric \cup {"mode"})
  <2>1. PathFields(Path) \ {"access"} \subseteq Numeric \cup {"mode"}
    BY AskedIs DEF OnPaths, FsInv, TurnOK
  <2>2. ~StatWanted /\ ~ModeWanted
    BY <1>1, WantedIs
  <2>3. PathFields(Path) \cap Numeric # {} => Numeric \subseteq DOMAIN entry
    BY <1>1, <2>2 DEF StatWanted, Cached, FsInv, KnownOK, EntryOK
  <2>4. "mode" \in PathFields(Path) => "mode" \in DOMAIN entry
    BY <1>1, <2>2 DEF ModeWanted, Cached
  <2> QED BY <2>1, <2>3, <2>4
<1>12. \A f \in DOMAIN entry : Measures(printed, f, Path, entry[f])
  BY DEF FsInv, KnownOK, EntryOK
<1>13. CacheOK'
  <2>1. \A q \in DOMAIN cache' : DOMAIN cache'[q] = Numeric \cup {"mode"}
    BY <1>3, <1>4 DEF FsInv, KnownOK, CacheOK
  <2>2. \A f \in PathFields(Path) \ {"access"} : Measures(printed, f, Path, cache'[Path][f])
    BY <1>3, <1>4, <1>11, <1>12
  <2>3. \A q \in DOMAIN cache : \A f \in PathFields(q) \ {"access"} : Measures(printed, f, q, cache'[q][f])
    BY <1>3 DEF FsInv, KnownOK, CacheOK
  <2>4. \A q : PathFields(q)' = PathFields(q)
    BY <1>1, SettingsFixed
  <2> QED BY <1>3, <1>10, <2>1, <2>2, <2>3, <2>4 DEF CacheOK
<1>14. SamplesOK'
  <2>1. \A k \in DOMAIN measured : SampleOK(measured[k]) => SampleOK(measured[k])'
    BY <1>1, <1>3, SettingsFixed DEF SampleOK, AccessKey, PathsOf
  <2> QED BY <1>1, <2>1 DEF FsInv, KnownOK, SamplesOK
<1>15. AccessOK'
  BY <1>1 DEF FsInv, KnownOK, AccessOK, AccessKey, PathsOf
<1>16. EntryOK'
  BY <1>1 DEF EntryOK
<1> QED BY <1>5, <1>6, <1>7, <1>8, <1>9, <1>13, <1>14, <1>15, <1>16 DEF FsInv, KnownOK

LEMMA AppendIs ==
  ASSUME NEW q, q \in Seq(ToSet(q)), NEW e
  PROVE  LET longer == Append(q, e)
         IN /\ longer \in Seq(ToSet(longer)) /\ DOMAIN q \subseteq DOMAIN longer
            /\ \A k \in DOMAIN q : longer[k] = q[k]
            /\ \A k \in DOMAIN longer : k \in DOMAIN q \/ longer[k] = e
            /\ \E k \in DOMAIN longer : longer[k] = e
<1>1. \A T : \A s \in Seq(T) : /\ Append(s, e) \in Seq(T \cup {e}) /\ Len(s) \in Nat
                               /\ DOMAIN s = 1..Len(s) /\ DOMAIN Append(s, e) = 1..Len(s) + 1
                               /\ \A k \in DOMAIN s : Append(s, e)[k] = s[k]
                               /\ Append(s, e)[Len(s) + 1] = e
  OBVIOUS
<1> DEFINE longer == Append(q, e)
<1>2. /\ longer \in Seq(ToSet(q) \cup {e}) /\ Len(q) \in Nat
      /\ DOMAIN q = 1..Len(q) /\ DOMAIN longer = 1..Len(q) + 1
      /\ \A k \in DOMAIN q : longer[k] = q[k]
      /\ longer[Len(q) + 1] = e
  BY <1>1
<1>3. ToSet(q) \cup {e} \subseteq ToSet(longer)
  <2> HIDE DEF longer
  <2>1. \A k \in DOMAIN q : k \in DOMAIN longer
    BY <1>2
  <2>2. Len(q) + 1 \in DOMAIN longer
    BY <1>2
  <2> QED BY <1>2, <2>1, <2>2 DEF ToSet
<1>4. \A S, T : S \subseteq T => Seq(S) \subseteq Seq(T)
  OBVIOUS
<1>5. longer \in Seq(ToSet(longer))
  <2> HIDE DEF longer
  <2> QED BY <1>2, <1>3, <1>4
<1>6. \A k \in DOMAIN longer : k \in DOMAIN q \/ longer[k] = e
  <2> HIDE DEF longer
  <2> QED BY <1>2
<1>7. \E k \in DOMAIN longer : longer[k] = e
  <2> HIDE DEF longer
  <2> QED BY <1>2
<1>8. DOMAIN q \subseteq DOMAIN longer
  <2> HIDE DEF longer
  <2> QED BY <1>2
<1> QED BY <1>2, <1>5, <1>6, <1>7, <1>8
LEMMA TailIs ==
  ASSUME NEW T, NEW q \in Seq(T), q # <<>>
  PROVE  /\ Len(q) \in Nat \ {0} /\ DOMAIN q = 1..Len(q) /\ \A k \in DOMAIN q : q[k] \in T
         /\ Tail(q) \in Seq(T) /\ DOMAIN Tail(q) = 1..Len(q) - 1 /\ Len(Tail(q)) = Len(q) - 1
         /\ \A k \in 1..Len(q) - 1 : Tail(q)[k] = q[k + 1]
         /\ Len(q) # 1 => Tail(q) # <<>>
<1>1. Len(q) \in Nat \ {0} /\ DOMAIN q = 1..Len(q) /\ \A k \in DOMAIN q : q[k] \in T
  OBVIOUS
<1>2. Tail(q) \in Seq(T) /\ Len(Tail(q)) = Len(q) - 1
  OBVIOUS
<1>3. DOMAIN Tail(q) = 1..Len(q) - 1
  BY <1>1, <1>2
<1>4. \A k \in 1..Len(q) - 1 : Tail(q)[k] = q[k + 1]
  BY <1>1
<1>5. Len(q) # 1 => Tail(q) # <<>>
  <2> SUFFICES ASSUME Len(q) # 1, Tail(q) = <<>>
               PROVE  FALSE
    OBVIOUS
  <2>1. DOMAIN Tail(q) = {}
    OBVIOUS
  <2>2. 1 \in 1..Len(q) - 1
    BY <1>1
  <2> QED BY <1>3, <2>1, <2>2
<1> QED BY <1>1, <1>2, <1>3, <1>4, <1>5

(* What is on the agenda when the path at its head has been sampled. *)
LEMMA AgendaShrinks ==
  ASSUME AgendaOK, turn = "probe", agenda # <<>>,
         agenda' = IF Len(Head(agenda).paths) = 1 THEN Tail(agenda) ELSE [agenda EXCEPT ![1].paths = Tail(@)]
  PROVE  /\ agenda' \in Seq(Turns)
         /\ \A k \in DOMAIN agenda' : /\ agenda'[k].group \in Requested /\ agenda'[k].paths # <<>>
                                      /\ ToSet(agenda'[k].paths) \subseteq PathsOf(agenda'[k].group)
         /\ \A g, q : Waits(g, q) => Waits(g, q)' \/ (g = Group /\ q = Path)
<1> DEFINE first == agenda[1].paths
<1>1. /\ agenda \in Seq(Turns) /\ Len(agenda) \in Nat \ {0} /\ DOMAIN agenda = 1..Len(agenda)
      /\ \A k \in DOMAIN agenda : /\ agenda[k] \in Turns /\ agenda[k].group \in Requested /\ agenda[k].paths # <<>>
                                  /\ ToSet(agenda[k].paths) \subseteq PathsOf(agenda[k].group)
  <2>1. agenda \in Seq(Turns)
    BY DEF AgendaOK
  <2>2. /\ Len(agenda) \in Nat \ {0} /\ DOMAIN agenda = 1..Len(agenda)
        /\ \A k \in DOMAIN agenda : agenda[k] \in Turns
    BY <2>1, TailIs
  <2>3. \A k \in DOMAIN agenda : /\ agenda[k].group \in Requested /\ agenda[k].paths # <<>>
                                  /\ ToSet(agenda[k].paths) \subseteq PathsOf(agenda[k].group)
    BY DEF AgendaOK
  <2> QED BY <2>1, <2>2, <2>3
<1>2. /\ Head(agenda) = agenda[1] /\ 1 \in DOMAIN agenda /\ first \in Seq(AllPaths) /\ first # <<>>
      /\ Path = first[1] /\ Group = agenda[1].group /\ agenda[1] \in Turns
  BY <1>1, HeadIs DEF Group
<1>3. Len(first) \in Nat \ {0} /\ DOMAIN first = 1..Len(first)
  BY <1>2
<1>4. CASE Len(first) = 1
  <2>1. agenda' = Tail(agenda)
    BY <1>2, <1>4
  <2>2. /\ agenda' \in Seq(Turns) /\ DOMAIN agenda' = 1..Len(agenda) - 1
        /\ \A k \in DOMAIN agenda' : k + 1 \in DOMAIN agenda /\ agenda'[k] = agenda[k + 1]
    <3>1. /\ Tail(agenda) \in Seq(Turns) /\ DOMAIN Tail(agenda) = 1..Len(agenda) - 1
          /\ \A k \in 1..Len(agenda) - 1 : Tail(agenda)[k] = agenda[k + 1]
      BY <1>1, TailIs
    <3>2. \A k \in 1..Len(agenda) - 1 : k + 1 \in 1..Len(agenda)
      BY <1>1
    <3> QED BY <1>1, <2>1, <3>1, <3>2
  <2>3. \A k \in DOMAIN agenda : k # 1 => k - 1 \in DOMAIN agenda' /\ agenda'[k - 1] = agenda[k]
    BY <1>1, <2>2
  <2>4. \A g, q : Waits(g, q) => Waits(g, q)' \/ (g = Group /\ q = Path)
    <3> SUFFICES ASSUME NEW g, NEW q, Waits(g, q)
                 PROVE  Waits(g, q)' \/ (g = Group /\ q = Path)
      OBVIOUS
    <3>0. PICK k \in DOMAIN agenda : agenda[k].group = g /\ q \in ToSet(agenda[k].paths)
      BY DEF Waits
    <3>1. CASE k = 1
      <4>1. PICK n \in 1..Len(first) : q = first[n]
        BY <3>0, <1>3, <3>1 DEF ToSet
      <4>2. n = 1
        BY <3>0, <1>4, <4>1
      <4> QED BY <3>0, <1>2, <3>1, <4>1, <4>2
    <3>2. CASE k # 1
      BY <3>0, <2>3, <3>2 DEF Waits
    <3> QED BY <3>1, <3>2
  <2>5. \A k \in DOMAIN agenda' : /\ agenda'[k].group \in Requested /\ agenda'[k].paths # <<>>
                                  /\ ToSet(agenda'[k].paths) \subseteq PathsOf(agenda'[k].group)
    <3> TAKE k \in DOMAIN agenda'
    <3>1. k + 1 \in DOMAIN agenda /\ agenda'[k] = agenda[k + 1]
      BY <2>2
    <3> QED BY <1>1, <3>1
  <2> QED BY <2>2, <2>4, <2>5
<1>5. CASE Len(first) # 1
  <2>1. agenda' = [agenda EXCEPT ![1].paths = Tail(@)]
    BY <1>2, <1>5
  <2>2. /\ DOMAIN agenda' = DOMAIN agenda
        /\ \A k \in DOMAIN agenda : k # 1 => agenda'[k] = agenda[k]
        /\ agenda'[1] = [agenda[1] EXCEPT !.paths = Tail(first)]
    BY <1>2, <2>1
  <2>3. agenda[1] \in [group : DOMAIN Groups, paths : Seq(AllPaths)]
    BY <1>2 DEF Turns
  <2>4. agenda'[1].group = agenda[1].group /\ agenda'[1].paths = Tail(first)
    BY <2>2, <2>3
  <2>5. /\ Tail(first) \in Seq(AllPaths) /\ Tail(first) # <<>> /\ Len(Tail(first)) = Len(first) - 1
        /\ DOMAIN Tail(first) = 1..Len(first) - 1
        /\ \A n \in DOMAIN Tail(first) : n + 1 \in DOMAIN first /\ Tail(first)[n] = first[n + 1]
    <3>1. /\ Tail(first) \in Seq(AllPaths) /\ DOMAIN Tail(first) = 1..Len(first) - 1
          /\ Len(Tail(first)) = Len(first) - 1
          /\ \A k \in 1..Len(first) - 1 : Tail(first)[k] = first[k + 1]
          /\ Tail(first) # <<>>
      <4>1. first \in Seq(AllPaths) /\ first # <<>>
        BY <1>2
      <4> HIDE DEF first
      <4> QED BY <1>5, <4>1, TailIs
    <3>2. \A n \in 1..Len(first) - 1 : n + 1 \in 1..Len(first)
      BY <1>3
    <3> HIDE DEF first
    <3> QED BY <1>3, <3>1, <3>2
  <2>6. agenda'[1] \in Turns
    <3>1. [agenda[1] EXCEPT !.paths = Tail(first)] \in [group : DOMAIN Groups, paths : Seq(AllPaths)]
      <4> HIDE DEF first
      <4> QED BY <2>3, <2>5
    <3> QED BY <2>2, <3>1 DEF Turns
  <2>7. agenda' \in Seq(Turns)
    <3> DEFINE kept == [agenda[1] EXCEPT !.paths = Tail(first)]
    <3>1. agenda' = [agenda EXCEPT ![1] = kept]
      BY <2>1
    <3>2. kept \in Turns
      BY <2>2, <2>6
    <3>3. agenda \in Seq(Turns) /\ 1 \in 1..Len(agenda)
      BY <1>1, <1>2
    <3> HIDE DEF kept
    <3>4. [agenda EXCEPT ![1] = kept] \in Seq(Turns)
      BY <3>2, <3>3, ExceptSeq
    <3> QED BY <3>1, <3>4
  <2>8. ToSet(Tail(first)) \subseteq ToSet(first)
    BY <2>5 DEF ToSet
  <2>9. \A k \in DOMAIN agenda' : /\ agenda'[k].group \in Requested /\ agenda'[k].paths # <<>>
                                  /\ ToSet(agenda'[k].paths) \subseteq PathsOf(agenda'[k].group)
    <3>1. /\ agenda'[1].group \in Requested /\ agenda'[1].paths # <<>>
          /\ ToSet(agenda'[1].paths) \subseteq PathsOf(agenda'[1].group)
      <4>1. agenda[1].group \in Requested /\ ToSet(first) \subseteq PathsOf(agenda[1].group)
        BY <1>1, <1>2
      <4> HIDE DEF first
      <4> QED BY <2>4, <2>5, <2>8, <4>1
    <3> QED BY <1>1, <2>2, <3>1
  <2>10. \A g, q : Waits(g, q) => Waits(g, q)' \/ (g = Group /\ q = Path)
    <3> SUFFICES ASSUME NEW g, NEW q, Waits(g, q)
                 PROVE  Waits(g, q)' \/ (g = Group /\ q = Path)
      OBVIOUS
    <3>0. PICK k \in DOMAIN agenda : agenda[k].group = g /\ q \in ToSet(agenda[k].paths)
      BY DEF Waits
    <3>1. CASE k = 1
      <4>1. PICK n \in 1..Len(first) : q = first[n]
        BY <3>0, <1>3, <3>1 DEF ToSet
      <4>2. CASE n = 1
        BY <3>0, <1>2, <3>1, <4>1, <4>2
      <4>3. CASE n # 1
        <5>1. n - 1 \in DOMAIN Tail(first) /\ Tail(first)[n - 1] = first[n]
          BY <3>0, <1>3, <2>5, <4>1, <4>3
        <5>2. q \in ToSet(agenda'[1].paths)
          BY <3>0, <2>4, <4>1, <5>1 DEF ToSet
        <5> QED BY <3>0, <1>2, <2>2, <2>4, <3>1, <5>2 DEF Waits
      <4> QED BY <3>0, <4>2, <4>3
    <3>2. CASE k # 1
      BY <3>0, <2>2, <3>2 DEF Waits
    <3> QED BY <3>1, <3>2
  <2> QED BY <2>7, <2>9, <2>10
<1> QED BY <1>4, <1>5

LEMMA AddSampleInv ==
  ASSUME FsInv, AddSample
  PROVE  FsInv'
<1> DEFINE granted == IF "access" \in AskedOf(Group) THEN accessCache[AccessKey(Group, Path)] ELSE Missing
           sample == [group |-> Group, path |-> Path, value |-> Put(cache[Path], "access", granted)]
<1>1. /\ turn = "probe" /\ exchange.step = "idle" /\ agenda # <<>> /\ Path \in DOMAIN cache /\ Wanted = "none"
      /\ code = 0 /\ UNCHANGED <<settings, turn, checked, outcome, code, excused, exchange, entry, cache, accessCache, printed>>
      /\ agenda' = IF Len(Head(agenda).paths) = 1 THEN Tail(agenda) ELSE [agenda EXCEPT ![1].paths = Tail(@)]
      /\ measured' = Append(measured, sample)
  BY DEF AddSample, Turning, Cached, FsInv, TurnOK, probing
<1>2. /\ Requested \subseteq DOMAIN Groups /\ Group \in Requested /\ Path \in PathsOf(Group) /\ Requested' = Requested
      /\ \A g : AskedOf(g)' = AskedOf(g)
  BY <1>1, HeadIs, SettingsFixed DEF FsInv
<1>3. SampleOK(sample)
  <2>1. DOMAIN cache[Path] = Numeric \cup {"mode"} /\ AskedOf(Group) \subseteq Numeric \cup {"mode", "access"}
    BY <1>1, AskedIs DEF FsInv, KnownOK, CacheOK, TurnOK, OnPaths
  <2>2. /\ Put(cache[Path], "access", granted)["access"] = granted
        /\ \A f \in DOMAIN cache[Path] \ {"access"} : Put(cache[Path], "access", granted)[f] = cache[Path][f]
    <3> HIDE DEF granted
    <3> QED BY PutIs
  <2>3. "access" \in AskedOf(Group) => AccessKey(Group, Path) \in DOMAIN accessCache
    BY <1>1, WantedIs DEF AccessWanted, Cached
  <2>4. \A f \in AskedOf(Group) : Put(cache[Path], "access", granted)[f] =
           IF f = "access" THEN accessCache[AccessKey(Group, Path)] ELSE cache[Path][f]
    BY <2>1, <2>2
  <2>5. sample.group = Group /\ sample.path = Path /\ sample.value = Put(cache[Path], "access", granted)
    OBVIOUS
  <2> HIDE DEF sample, granted
  <2> QED BY <1>1, <1>2, <2>3, <2>4, <2>5 DEF SampleOK
<1>4. sample.group = Group /\ sample.path = Path
  OBVIOUS
<1> HIDE DEF sample
<1>5. /\ measured' \in Seq(ToSet(measured')) /\ DOMAIN measured \subseteq DOMAIN measured'
      /\ \A k \in DOMAIN measured : measured'[k] = measured[k]
      /\ \A k \in DOMAIN measured' : k \in DOMAIN measured \/ measured'[k] = sample
      /\ \E k \in DOMAIN measured' : measured'[k] = sample
  BY <1>1, AppendIs DEF FsInv, KnownOK, SamplesOK
<1>6. TurnOK'
  BY <1>1, SettingsFixed DEF FsInv, TurnOK
<1>7. ExchangeOK'
  BY <1>1 DEF FsInv, ExchangeOK
<1>8. OutcomeOK'
  BY <1>1, OutcomeStays DEF FsInv
<1>9. VerdictOnProbes'
  BY <1>1, EarlyVerdict DEF FsInv, Early
<1>10. KnownOK'
  <2>1. \A f, q, v : Measures(printed', f, q, v) <=> Measures(printed, f, q, v)
    BY <1>1 DEF Measures
  <2>2. CacheOK'
    BY <1>1, <2>1, SettingsFixed DEF FsInv, KnownOK, CacheOK
  <2>3. EntryOK'
    BY <1>1 DEF FsInv, KnownOK, EntryOK
  <2>4. AccessOK'
    BY <1>1 DEF FsInv, KnownOK, AccessOK, AccessKey, PathsOf
  <2>5. SamplesOK'
    <3>1. \A x : SampleOK(x) => SampleOK(x)'
      BY <1>1, <1>2 DEF SampleOK, AccessKey, PathsOf
    <3>2. \A k \in DOMAIN measured' : SampleOK(measured'[k])
      BY <1>3, <1>5 DEF FsInv, KnownOK, SamplesOK
    <3> QED BY <1>5, <3>1, <3>2 DEF SamplesOK
  <2> QED BY <2>2, <2>3, <2>4, <2>5 DEF KnownOK
<1>11. AgendaOK'
  <2>1. \A g, q : Sampled1(g, q) => Sampled1(g, q)'
    BY <1>5 DEF Sampled1
  <2>3. /\ agenda' \in Seq(Turns)
        /\ \A k \in DOMAIN agenda' : /\ agenda'[k].group \in Requested /\ agenda'[k].paths # <<>>
                                     /\ ToSet(agenda'[k].paths) \subseteq PathsOf(agenda'[k].group)
        /\ \A g, q : Waits(g, q) => Waits(g, q)' \/ (g = Group /\ q = Path)
    BY <1>1, AgendaShrinks DEF FsInv
  <2>4. \A g \in Requested : \A q \in PathsOf(g) : Sampled1(g, q)' \/ Waits(g, q)'
    <3> SUFFICES ASSUME NEW g \in Requested, NEW q \in PathsOf(g)
                 PROVE  Sampled1(g, q)' \/ Waits(g, q)'
      OBVIOUS
    <3>1. Sampled1(g, q) \/ Waits(g, q)
      BY <1>1 DEF FsInv, AgendaOK
    <3>2. CASE g = Group /\ q = Path
      <4>1. \E k \in DOMAIN measured' : measured'[k].group = g /\ measured'[k].path = q
        BY <1>4, <1>5, <3>2
      <4> QED BY <4>1 DEF Sampled1
    <3> QED BY <2>1, <2>3, <3>1, <3>2
  <2> QED BY <1>1, <1>2, <2>3, <2>4 DEF AgendaOK, PathsOf
<1> QED BY <1>6, <1>7, <1>8, <1>9, <1>10, <1>11 DEF FsInv
(* Where a sample's fields come from. *)
LEMMA SampleIs ==
  ASSUME KnownOK, settings \in Settings, NEW x, SampleOK(x), x.group \in DOMAIN Groups,
         NEW c, IsOnPath(c), c.group = x.group, c.text.resource \in AskedOf(x.group)
  PROVE  /\ PrintedOf(c, x.path) = x.value[c.text.resource]
         /\ x.value[c.text.resource] \in {0, 1, Missing}
         /\ c.text.resource \notin Numeric => x.value[c.text.resource] \in {0, 1}
         /\ c.text.resource \in Numeric => x.value[c.text.resource] = printed[<<"stat", x.path, NoIdentity>>][c.text.resource]
<1> DEFINE f == c.text.resource
<1>1. /\ x.group \in Requested /\ x.path \in PathsOf(x.group) /\ x.path \in DOMAIN cache
      /\ "access" \in AskedOf(x.group) => AccessKey(x.group, x.path) \in DOMAIN accessCache
      /\ x.value[f] = IF f = "access" THEN accessCache[AccessKey(x.group, x.path)] ELSE cache[x.path][f]
  BY DEF SampleOK
<1>2. "access" \notin Numeric /\ "mode" \notin Numeric
  BY DEF Numeric, Counters
<1>3. CASE f = "access"
  <2>1. /\ <<"access", x.path, Identities[x.group]>> \in DOMAIN printed
        /\ x.value[f] = printed[<<"access", x.path, Identities[x.group]>>]
        /\ x.value[f] \in {0, 1}
    BY <1>1, <1>3 DEF KnownOK, AccessOK
  <2>2. PrintedOf(c, x.path) = printed[<<"access", x.path, Identities[x.group]>>]
    BY <1>2, <1>3, <2>1 DEF PrintedOf, CommandOf
  <2> QED BY <1>2, <1>3, <2>1, <2>2
<1>4. CASE f # "access"
  <2>1. f \in PathFields(x.path) \ {"access"}
    BY <1>1, <1>4, AskedIs
  <2>2. Measures(printed, f, x.path, x.value[f])
    BY <1>1, <1>4, <2>1 DEF KnownOK, CacheOK
  <2>3. f \in Numeric \/ f = "mode"
    BY <1>4 DEF IsOnPath, OnPaths
  <2>4. PrintedOf(c, x.path) = x.value[f]
    BY <1>4, <2>2 DEF Measures, PrintedOf
  <2> QED BY <2>2, <2>3, <2>4 DEF Measures, CommandOf
<1> QED BY <1>3, <1>4

LEMMA CollectedInv ==
  ASSUME FsInv, Collected
  PROVE  FsInv'
<1>1. /\ turn = "probe" /\ exchange.step = "idle" /\ agenda = <<>> /\ code = 0
      /\ UNCHANGED <<settings, checked, agenda, measured, outcome, excused, exchange, entry, cache, accessCache, printed>>
      /\ \/ Unavailable /\ turn' = "end" /\ code' = 115
         \/ ~Unavailable /\ turn' = "judge" /\ code' = 0
  BY DEF Collected, Raise, FsInv, TurnOK, probing
<1>2. TurnOK'
  BY <1>1, SettingsFixed DEF FsInv, TurnOK
<1>3. ExchangeOK'
  BY <1>1 DEF FsInv, ExchangeOK
<1>4. KnownOK'
  BY <1>1, KnownStays DEF FsInv
<1>5. OutcomeOK'
  BY <1>1, OutcomeStays DEF FsInv, Early
<1>6. AgendaOK'
  <2>1. \A g, q : (Sampled1(g, q)' <=> Sampled1(g, q)) /\ ~Waits(g, q)
    BY <1>1 DEF Sampled1, Waits
  <2>2. Unavailable' <=> Unavailable
    BY <1>1, SettingsFixed DEF Unavailable
  <2> QED BY <1>1, <2>1, <2>2, SettingsFixed DEF FsInv, AgendaOK, PathsOf
<1>7. VerdictOnProbes'
  <2>1. Unavailable => Lacks
    <3> SUFFICES ASSUME Unavailable
                 PROVE  Lacks
      OBVIOUS
    <3>1. PICK x \in ToSet(measured) : \E f \in AskedOf(x.group) : x.value[f] = Missing
      BY DEF Unavailable
    <3>2. PICK f \in AskedOf(x.group) : x.value[f] = Missing
      BY <3>1
    <3>3. SampleOK(x)
      BY DEF FsInv, KnownOK, SamplesOK, ToSet
    <3>4. x.group \in DOMAIN Groups
      BY <1>1, <3>3 DEF SampleOK, FsInv, AgendaOK
    <3>5. f \in OnPaths /\ settings \in Settings
      BY AskedIs DEF FsInv, TurnOK
    <3> DEFINE c == [text |-> [resource |-> f], group |-> x.group]
    <3>6. c.text.resource = f /\ c.group = x.group /\ IsOnPath(c)
      BY <3>5 DEF IsOnPath
    <3> HIDE DEF c
    <3>7. /\ f \notin Numeric => x.value[f] \in {0, 1}
          /\ f \in Numeric => x.value[f] = printed[<<"stat", x.path, NoIdentity>>][f]
      BY <3>3, <3>4, <3>5, <3>6, SampleIs DEF FsInv
    <3> QED BY <3>2, <3>7, GroupsAssumption DEF Lacks
  <2>2. Lacks' <=> Lacks
    BY <1>1, SettingsFixed DEF Lacks
  <2> QED BY <1>1, <2>1, <2>2, EarlyVerdict DEF FsInv, Early
<1> QED BY <1>2, <1>3, <1>4, <1>5, <1>6, <1>7 DEF FsInv

LEMMA ExecuteInv ==
  ASSUME FsInv, Execute \/ Refused
  PROVE  FsInv'
<1>1. /\ turn = "probe" /\ agenda # <<>> /\ code = 0
      /\ UNCHANGED <<settings, checked, agenda, measured, outcome, entry, cache, accessCache, printed>>
      /\ \/ turn' = turn /\ code' = code
         \/ turn' = "end" /\ code' = 115 /\ excused'
      /\ "step" \in DOMAIN exchange' /\ (turn' = "end" => exchange'.step = "idle")
  BY DEF Execute, Refused, Turning, Raise, Idle, FsInv, TurnOK, ExchangeOK
<1>2. TurnOK'
  BY <1>1, SettingsFixed DEF FsInv, TurnOK
<1>3. AgendaOK'
  BY <1>1, AgendaStays DEF FsInv
<1>4. ExchangeOK'
  BY <1>1 DEF ExchangeOK
<1>5. KnownOK'
  BY <1>1, KnownStays DEF FsInv
<1>6. OutcomeOK'
  BY <1>1, OutcomeStays DEF FsInv, Early
<1>7. VerdictOnProbes'
  BY <1>1, EarlyVerdict DEF FsInv, Early
<1> QED BY <1>2, <1>3, <1>4, <1>5, <1>6, <1>7 DEF FsInv
(* Another command prints something else. *)
LEMMA MeasuresStay ==
  ASSUME NEW key, NEW v, printed' = Put(printed, key, v)
  PROVE  /\ \A f, q, w : key # <<CommandOf(f), q, NoIdentity>> => (Measures(printed, f, q, w) => Measures(printed', f, q, w))
         /\ \A k \in DOMAIN printed : k # key => k \in DOMAIN printed' /\ printed'[k] = printed[k]
         /\ key \in DOMAIN printed' /\ printed'[key] = v
<1>1. DOMAIN printed' = DOMAIN printed \cup {key} /\ \A k \in DOMAIN printed : k # key => printed'[k] = printed[k]
  BY DEF Put
<1>2. printed'[key] = v
  BY DEF Put
<1>3. \A f, q, w : key # <<CommandOf(f), q, NoIdentity>> => (Measures(printed, f, q, w) => Measures(printed', f, q, w))
  BY <1>1 DEF Measures
<1> QED BY <1>1, <1>2, <1>3

LEMMA DeliverInv ==
  ASSUME FsInv, Deliver
  PROVE  FsInv'
<1>1. /\ turn = "probe" /\ agenda # <<>> /\ code = 0
      /\ UNCHANGED <<settings, turn, checked, agenda, measured, outcome, code, excused, cache>>
      /\ "step" \in DOMAIN exchange' /\ exchange'.step = "idle"
  BY DEF Deliver, Idle, FsInv, TurnOK, ExchangeOK
<1>2. TurnOK'
  BY <1>1, SettingsFixed DEF FsInv, TurnOK
<1>3. AgendaOK'
  BY <1>1, AgendaStays DEF FsInv
<1>4. ExchangeOK'
  BY <1>1 DEF ExchangeOK
<1>5. OutcomeOK'
  BY <1>1, OutcomeStays DEF FsInv
<1>6. VerdictOnProbes'
  BY <1>1, EarlyVerdict DEF FsInv, Early
<1>7. /\ Path' = Path /\ Requested' = Requested /\ \A g : AskedOf(g)' = AskedOf(g)
      /\ \A q : PathFields(q)' = PathFields(q)
  BY <1>1, SettingsFixed DEF Path
<1>8. /\ "mode" \notin Numeric /\ "access" \notin Numeric /\ "stat" \notin Numeric
      /\ \A q : PathFields(q) \subseteq Numeric \cup {"mode", "access"}
  BY AskedIs DEF Numeric, Counters, OnPaths, FsInv, TurnOK
<1>9. KnownOK'
  <2>1. CASE Wanted = "stat" /\ entry' \in Readings /\ Printed(entry', NoIdentity) /\ UNCHANGED accessCache
    <3> DEFINE key == <<"stat", Path, NoIdentity>>
    <3>1. printed' = Put(printed, key, entry')
      BY <2>1 DEF Printed
    <3>2. Path \notin DOMAIN cache
      BY <2>1, WantedIs DEF StatWanted, Cached
    <3>3. entry' \in [Numeric -> {0, 1, Missing}]
      BY <2>1, GroupsAssumption
    <3>4. /\ \A f, q, w : key # <<CommandOf(f), q, NoIdentity>> => (Measures(printed, f, q, w) => Measures(printed', f, q, w))
          /\ \A k \in DOMAIN printed : k # key => k \in DOMAIN printed' /\ printed'[k] = printed[k]
          /\ key \in DOMAIN printed' /\ printed'[key] = entry'
      BY <3>1, MeasuresStay
    <3>5. CacheOK'
      <4>1. \A q \in DOMAIN cache : \A f : key # <<CommandOf(f), q, NoIdentity>>
        BY <3>2
      <4>2. \A q \in DOMAIN cache : /\ DOMAIN cache[q] = Numeric \cup {"mode"}
                                    /\ \A f \in PathFields(q) \ {"access"} : Measures(printed', f, q, cache[q][f])
        BY <3>4, <4>1 DEF FsInv, KnownOK, CacheOK
      <4> QED BY <1>1, <1>7, <4>2 DEF CacheOK
    <3>6. EntryOK'
      <4>1. \A f \in Numeric : Measures(printed', f, Path, entry'[f])
        BY <1>8, <3>3, <3>4 DEF Measures, CommandOf
      <4>2. DOMAIN entry' = Numeric
        BY <3>3
      <4> QED BY <1>1, <1>7, <3>2, <4>1, <4>2 DEF EntryOK
    <3>7. AccessOK'
      <4>1. \A q, identity : key # <<"access", q, identity>>
        OBVIOUS
      <4> QED BY <2>1, <3>4, <4>1 DEF FsInv, KnownOK, AccessOK, AccessKey, PathsOf
    <3>8. SamplesOK'
      <4>1. \A x : SampleOK(x)' <=> SampleOK(x)
        BY <1>1, <1>7, <2>1 DEF SampleOK, AccessKey, PathsOf
      <4> QED BY <1>1, <4>1 DEF FsInv, KnownOK, SamplesOK
    <3> QED BY <3>5, <3>6, <3>7, <3>8 DEF KnownOK
  <2>2. CASE /\ Wanted = "mode" /\ UNCHANGED accessCache
             /\ \E v \in {0, 1} : entry' = Put(entry, "mode", v) /\ Printed(v, NoIdentity)
    <3> DEFINE key == <<"mode", Path, NoIdentity>>
    <3>0. PICK v \in {0, 1} : entry' = Put(entry, "mode", v) /\ Printed(v, NoIdentity)
      BY <2>2
    <3>1. printed' = Put(printed, key, v)
      BY <2>2, <3>0 DEF Printed
    <3>2. Path \notin DOMAIN cache
      BY <2>2, WantedIs DEF ModeWanted, Cached
    <3>3. /\ DOMAIN entry' = DOMAIN entry \cup {"mode"} /\ entry'["mode"] = v
          /\ \A f \in DOMAIN entry : f # "mode" => entry'[f] = entry[f]
      BY <3>0 DEF Put
    <3>4. /\ \A f, q, w : key # <<CommandOf(f), q, NoIdentity>> => (Measures(printed, f, q, w) => Measures(printed', f, q, w))
          /\ \A k \in DOMAIN printed : k # key => k \in DOMAIN printed' /\ printed'[k] = printed[k]
          /\ key \in DOMAIN printed' /\ printed'[key] = v
      BY <3>1, MeasuresStay
    <3>5. CacheOK'
      <4>1. \A q \in DOMAIN cache : \A f : key # <<CommandOf(f), q, NoIdentity>>
        BY <3>2
      <4>2. \A q \in DOMAIN cache : /\ DOMAIN cache[q] = Numeric \cup {"mode"}
                                    /\ \A f \in PathFields(q) \ {"access"} : Measures(printed', f, q, cache[q][f])
        BY <3>4, <4>1 DEF FsInv, KnownOK, CacheOK
      <4> QED BY <1>1, <1>7, <4>2 DEF CacheOK
    <3>6. EntryOK'
      <4>1. /\ DOMAIN entry \subseteq Numeric \cup {"mode"}
            /\ DOMAIN entry \cap Numeric # {} => Numeric \subseteq DOMAIN entry
            /\ \A f \in DOMAIN entry : Measures(printed, f, Path, entry[f])
        BY DEF FsInv, KnownOK, EntryOK
      <4>2. \A f \in Numeric : key # <<CommandOf(f), Path, NoIdentity>>
        BY DEF CommandOf
      <4>3. \A f \in DOMAIN entry : f # "mode" => Measures(printed', f, Path, entry'[f])
        BY <3>3, <3>4, <4>1, <4>2
      <4>4. Measures(printed', "mode", Path, entry'["mode"])
        BY <1>8, <3>3, <3>4 DEF Measures, CommandOf
      <4>5. \A f \in DOMAIN entry' : Measures(printed', f, Path, entry'[f])
        BY <3>3, <4>3, <4>4
      <4> QED BY <1>1, <1>7, <1>8, <3>2, <3>3, <4>1, <4>5 DEF EntryOK
    <3>7. AccessOK'
      <4>1. \A q, identity : key # <<"access", q, identity>>
        OBVIOUS
      <4> QED BY <2>2, <3>4, <4>1 DEF FsInv, KnownOK, AccessOK, AccessKey, PathsOf
    <3>8. SamplesOK'
      <4>1. \A x : SampleOK(x)' <=> SampleOK(x)
        BY <1>1, <1>7, <2>2 DEF SampleOK, AccessKey, PathsOf
      <4> QED BY <1>1, <4>1 DEF FsInv, KnownOK, SamplesOK
    <3> QED BY <3>5, <3>6, <3>7, <3>8 DEF KnownOK
  <2>3. CASE /\ Wanted = "access" /\ UNCHANGED entry
             /\ \E v \in {0, 1} : accessCache' = Put(accessCache, AccessKey(Group, Path), v) /\ Printed(v, Identities[Group])
    <3> DEFINE key == <<"access", Path, Identities[Group]>>
               place == AccessKey(Group, Path)
    <3>0. PICK v \in {0, 1} : accessCache' = Put(accessCache, place, v) /\ Printed(v, Identities[Group])
      BY <2>3
    <3>1. printed' = Put(printed, key, v)
      BY <2>3, <3>0 DEF Printed
    <3>2. place \notin DOMAIN accessCache
      BY <2>3, WantedIs DEF AccessWanted
    <3>3. /\ DOMAIN accessCache' = DOMAIN accessCache \cup {place} /\ accessCache'[place] = v
          /\ \A k \in DOMAIN accessCache : accessCache'[k] = accessCache[k]
      <4> HIDE DEF place
      <4> QED BY <3>0, <3>2 DEF Put
    <3>4. /\ \A f, q, w : key # <<CommandOf(f), q, NoIdentity>> => (Measures(printed, f, q, w) => Measures(printed', f, q, w))
          /\ \A k \in DOMAIN printed : k # key => k \in DOMAIN printed' /\ printed'[k] = printed[k]
          /\ key \in DOMAIN printed' /\ printed'[key] = v
      BY <3>1, MeasuresStay
    <3>5. \A f, q, w : f # "access" /\ Measures(printed, f, q, w) => Measures(printed', f, q, w)
      <4>1. \A f, q : f # "access" => key # <<CommandOf(f), q, NoIdentity>>
        BY DEF CommandOf
      <4> QED BY <3>4, <4>1
    <3>6. CacheOK'
      <4>1. \A q \in DOMAIN cache : /\ DOMAIN cache[q] = Numeric \cup {"mode"}
                                    /\ \A f \in PathFields(q) \ {"access"} : Measures(printed', f, q, cache[q][f])
        BY <3>5 DEF FsInv, KnownOK, CacheOK
      <4> QED BY <1>1, <1>7, <4>1 DEF CacheOK
    <3>7. EntryOK'
      BY <1>1, <1>7, <1>8, <2>3, <3>5 DEF FsInv, KnownOK, EntryOK
    <3>8. AccessOK'
      <4> SUFFICES ASSUME NEW g \in DOMAIN Groups, NEW q \in PathsOf(g), AccessKey(g, q) \in DOMAIN accessCache'
                   PROVE  /\ <<"access", q, Identities[g]>> \in DOMAIN printed'
                          /\ accessCache'[AccessKey(g, q)] = printed'[<<"access", q, Identities[g]>>]
                          /\ accessCache'[AccessKey(g, q)] \in {0, 1}
        BY DEF AccessOK, AccessKey, PathsOf
      <4>1. CASE AccessKey(g, q) = place
        <5>1. <<"access", q, Identities[g]>> = key
          BY <4>1 DEF AccessKey
        <5> HIDE DEF key, place
        <5> QED BY <3>0, <3>3, <3>4, <4>1, <5>1
      <4>2. CASE AccessKey(g, q) # place
        <5>1. <<"access", q, Identities[g]>> # key
          BY <4>2 DEF AccessKey
        <5>2. AccessKey(g, q) \in DOMAIN accessCache
          BY <3>3, <4>2
        <5>3. /\ <<"access", q, Identities[g]>> \in DOMAIN printed
              /\ accessCache[AccessKey(g, q)] = printed[<<"access", q, Identities[g]>>]
              /\ accessCache[AccessKey(g, q)] \in {0, 1}
          BY <5>2 DEF FsInv, KnownOK, AccessOK
        <5> HIDE DEF key, place
        <5> QED BY <3>3, <3>4, <5>1, <5>2, <5>3
      <4> QED BY <4>1, <4>2
    <3>9. SamplesOK'
      <4>1. \A x : SampleOK(x) => SampleOK(x)'
        <5> SUFFICES ASSUME NEW x, SampleOK(x)
                     PROVE  SampleOK(x)'
          OBVIOUS
        <5>1. "access" \in AskedOf(x.group) =>
                /\ AccessKey(x.group, x.path) \in DOMAIN accessCache'
                /\ accessCache'[AccessKey(x.group, x.path)] = accessCache[AccessKey(x.group, x.path)]
          BY <3>3 DEF SampleOK
        <5> QED BY <1>1, <1>7, <5>1 DEF SampleOK, AccessKey, PathsOf
      <4> QED BY <1>1, <4>1 DEF FsInv, KnownOK, SamplesOK
    <3> QED BY <3>6, <3>7, <3>8, <3>9 DEF KnownOK
  <2> QED BY <2>1, <2>2, <2>3 DEF Deliver
<1> QED BY <1>2, <1>3, <1>4, <1>5, <1>6, <1>9 DEF FsInv
(* What a rule's result says of its paths and of its texts. *)
LEMMA RuleResult ==
  ASSUME FsInv, turn \in {"state", "judge"}, NEW r \in RuleNames, turn = "state" => StateOnly(r),
         NEW simple \in BOOLEAN, NEW absent \in BOOLEAN
  PROVE  LET whole == Matches(settings.rules[r], simple, absent)
         IN /\ whole \in Results
            /\ whole = "matched" =>
                 \A g \in GroupsOf(r) : \E q \in PathsOf(g) : \A c \in OnGroup(r, g) : PrintedOf(c, q) = 1
            /\ whole = "unmatched" /\ (\A c \in ToSet(settings.rules[r]) : IsOnPath(c)) =>
                 \E g \in GroupsOf(r) : \A q \in PathsOf(g) : \E c \in OnGroup(r, g) : PrintedOf(c, q) = 0
            /\ whole = "error" => Unreadable(r)
<1> DEFINE conditions == settings.rules[r]
           whole == Matches(conditions, simple, absent)
           onPaths == {n \in DOMAIN conditions : IsOnPath(conditions[n])}
<1>1. /\ settings \in Settings /\ DOMAIN conditions \subseteq Nat
      /\ \A c \in ToSet(conditions) : IsOnPath(c) => c.group \in Requested /\ c.text.resource \in AskedOf(c.group)
  BY AskedIs DEF FsInv, TurnOK
<1>2. ToSet(conditions) = {conditions[n] : n \in DOMAIN conditions}
  BY DEF ToSet
<1>3. DOMAIN measured \subseteq Nat /\ \A k \in DOMAIN measured : SampleOK(measured[k]) /\ measured[k] \in ToSet(measured)
  <2>1. \A T : \A q \in Seq(T) : DOMAIN q \subseteq Nat
    OBVIOUS
  <2>2. \A k \in DOMAIN measured : measured[k] \in ToSet(measured)
    BY DEF ToSet
  <2> QED BY <2>1, <2>2 DEF FsInv, KnownOK, SamplesOK
<1>4. turn = "state" => onPaths = {}
  <2>1. State \cap OnPaths = {}
    BY DEF State, OnPaths, Numeric, Counters
  <2> QED BY <1>2, <2>1 DEF StateOnly, IsOnPath
<1>5. turn = "judge" =>
        /\ Requested \subseteq DOMAIN Groups /\ ~Unavailable
        /\ \A g \in Requested : \A q \in PathsOf(g) : Sampled1(g, q)
  BY DEF FsInv, AgendaOK
<1>6. onPaths = {n \in DOMAIN conditions : IsOnPath(conditions[n])}
  OBVIOUS
<1>7. /\ whole \in Results
      /\ whole = "matched" => \A n \in onPaths : GroupResult(conditions, conditions[n].group) = "matched"
      /\ whole = "unmatched" /\ onPaths = DOMAIN conditions =>
           \E n \in onPaths : GroupResult(conditions, conditions[n].group) = "unmatched"
      /\ whole = "error" => \E n \in DOMAIN conditions, a \in BOOLEAN : Fails3(conditions[n], a)
  BY <1>1, <1>3, MatchesIs
<1> HIDE DEF whole, conditions, onPaths
(* A condition of a group, on a sample of it. *)
<1>8. ASSUME turn = "judge", NEW k \in DOMAIN measured, NEW c \in OnGroup(r, measured[k].group)
      PROVE  /\ measured[k].path \in PathsOf(measured[k].group)
             /\ Holds(measured[k], c) => PrintedOf(c, measured[k].path) = 1
             /\ ~Holds(measured[k], c) => PrintedOf(c, measured[k].path) = 0
  <2>1. /\ SampleOK(measured[k]) /\ measured[k].group \in DOMAIN Groups /\ IsOnPath(c) /\ c.group = measured[k].group
        /\ c.text.resource \in AskedOf(measured[k].group)
    BY <1>1, <1>3, <1>5, <1>8 DEF OnGroup, conditions, SampleOK
  <2>2. /\ PrintedOf(c, measured[k].path) = measured[k].value[c.text.resource]
        /\ measured[k].value[c.text.resource] \in {0, 1, Missing}
    BY <1>1, <2>1, SampleIs DEF FsInv
  <2>3. measured[k].value[c.text.resource] # Missing
    BY <1>3, <1>5, <1>8, <2>1 DEF Unavailable
  <2>4. measured[k].path \in PathsOf(measured[k].group)
    BY <2>1 DEF SampleOK
  <2> QED BY <2>2, <2>3, <2>4 DEF Holds
<1>9. \A g : \A c \in OnGroup(r, g) : \E n \in Own(conditions, g) : c = conditions[n]
  BY <1>2 DEF OnGroup, Own, conditions
<1>10. \A g : \A n \in Own(conditions, g) : conditions[n] \in OnGroup(r, g)
  BY <1>2 DEF OnGroup, Own, conditions
<1>11. \A g \in GroupsOf(r) : \E n \in onPaths : conditions[n].group = g
  BY <1>2, <1>6 DEF GroupsOf, conditions
<1>12. ASSUME whole = "matched", NEW g \in GroupsOf(r)
       PROVE  \E q \in PathsOf(g) : \A c \in OnGroup(r, g) : PrintedOf(c, q) = 1
  <2>1. PICK n \in onPaths : conditions[n].group = g
    BY <1>11
  <2>2. turn = "judge"
    BY <1>4, <2>1
  <2>3. GroupResult(conditions, g) = "matched"
    BY <1>7, <1>12, <2>1
  <2>4. PICK k \in DOMAIN measured : /\ measured[k].group = g
                                     /\ \A m \in Own(conditions, g) : Holds(measured[k], conditions[m])
    BY <1>1, <1>3, <2>3, GroupResultIs
  <2>5. PICK c0 \in OnGroup(r, g) : TRUE
    BY <1>6, <1>10, <2>1 DEF Own
  <2>6. \A c \in OnGroup(r, g) : Holds(measured[k], c)
    BY <1>9, <2>4
  <2>7. \A c \in OnGroup(r, g) : /\ measured[k].path \in PathsOf(g)
                                 /\ Holds(measured[k], c) => PrintedOf(c, measured[k].path) = 1
    BY <1>8, <2>2, <2>4
  <2> QED BY <2>5, <2>6, <2>7
<1>13. ASSUME whole = "unmatched", \A c \in ToSet(conditions) : IsOnPath(c)
       PROVE  \E g \in GroupsOf(r) : \A q \in PathsOf(g) : \E c \in OnGroup(r, g) : PrintedOf(c, q) = 0
  <2>1. onPaths = DOMAIN conditions
    BY <1>2, <1>6, <1>13
  <2>2. PICK n \in onPaths : GroupResult(conditions, conditions[n].group) = "unmatched"
    BY <1>7, <1>13, <2>1
  <2>3. turn = "judge"
    BY <1>4, <2>2
  <2> DEFINE g == conditions[n].group
  <2>4. g \in GroupsOf(r) /\ g \in Requested
    BY <1>1, <1>2, <1>6, <2>2 DEF GroupsOf, conditions
  <2>5. \A k \in DOMAIN measured : measured[k].group = g => \E m \in Own(conditions, g) : ~Holds(measured[k], conditions[m])
    BY <1>1, <1>3, <2>2, GroupResultIs
  <2> HIDE DEF g
  <2>6. ASSUME NEW q \in PathsOf(g)
        PROVE  \E c \in OnGroup(r, g) : PrintedOf(c, q) = 0
    <3>1. PICK k \in DOMAIN measured : measured[k].group = g /\ measured[k].path = q
      BY <1>5, <2>3, <2>4 DEF Sampled1
    <3>2. PICK m \in Own(conditions, g) : ~Holds(measured[k], conditions[m])
      BY <2>5, <3>1
    <3>3. conditions[m] \in OnGroup(r, g)
      BY <1>10
    <3>4. ~Holds(measured[k], conditions[m]) => PrintedOf(conditions[m], measured[k].path) = 0
      BY <1>8, <2>3, <3>1, <3>3
    <3> QED BY <3>1, <3>2, <3>3, <3>4
  <2> QED BY <2>4, <2>6
<1>14. whole = "error" => Unreadable(r)
  <2> SUFFICES ASSUME whole = "error"
               PROVE  Unreadable(r)
    OBVIOUS
  <2>1. PICK n \in DOMAIN conditions, a \in BOOLEAN : Fails3(conditions[n], a)
    BY <1>7
  <2>2. conditions[n] \in ToSet(conditions)
    BY <1>2
  <2> QED BY <2>1, <2>2 DEF Unreadable, Fails3, conditions
<1> QED BY <1>7, <1>12, <1>13, <1>14 DEF whole, conditions

LEMMA JudgeRuleInv ==
  ASSUME FsInv, JudgeRule
  PROVE  FsInv'
<1> DEFINE open == {r \in RuleNames : outcome[r] = "none" /\ (turn = "state" => StateOnly(r))}
<1>1. /\ turn \in {"state", "judge"} /\ code = 0 /\ exchange.step = "idle"
      /\ UNCHANGED <<settings, checked, agenda, measured, excused, exchange, entry, cache, accessCache, printed>>
  BY DEF JudgeRule, probing, FsInv, TurnOK, ExchangeOK
<1>2. CASE open = {}
  <2>1. turn' = (IF turn = "state" THEN "collect" ELSE "end") /\ UNCHANGED <<outcome, code>>
    BY <1>2 DEF JudgeRule
  <2>2. TurnOK'
    BY <1>1, <2>1, SettingsFixed DEF FsInv, TurnOK
  <2>3. AgendaOK'
    BY <1>1, <2>1, AgendaStays DEF FsInv
  <2>4. ExchangeOK'
    BY <1>1 DEF FsInv, ExchangeOK
  <2>5. KnownOK'
    BY <1>1, KnownStays DEF FsInv
  <2>6. OutcomeOK'
    BY <1>1, <2>1, OutcomeStays DEF FsInv, Early
  <2>7. VerdictOnProbes'
    BY <1>1, <2>1, VerdictStays DEF FsInv
  <2> QED BY <2>2, <2>3, <2>4, <2>5, <2>6, <2>7 DEF FsInv
<1>3. CASE open # {}
  <2> DEFINE r == CHOOSE r \in open : \A q \in open : r <= q
  <2>1. r \in open
    <3>1. open \subseteq Nat
      BY AskedIs DEF FsInv, TurnOK
    <3> HIDE DEF open
    <3>2. \E n \in open : \A q \in open : n <= q
      BY <1>3, <3>1, LeastOf
    <3> QED BY <3>2
  <2>2. /\ \E simple, absent \in BOOLEAN :
             outcome' = [outcome EXCEPT ![r] = Matches(settings.rules[r], simple, absent)]
        /\ \/ outcome'[r] = "error" /\ turn' = "end" /\ code' = 110
           \/ outcome'[r] # "error" /\ UNCHANGED <<turn, code>>
    BY <1>3 DEF JudgeRule, Raise
  <2>3. r \in RuleNames /\ (turn = "state" => StateOnly(r))
    BY <2>1
  <2> HIDE DEF r, open
  <2>4. PICK simple \in BOOLEAN, absent \in BOOLEAN :
          outcome' = [outcome EXCEPT ![r] = Matches(settings.rules[r], simple, absent)]
    BY <2>2
  <2> DEFINE whole == Matches(settings.rules[r], simple, absent)
  <2>5. /\ whole \in Results
        /\ whole = "matched" =>
             \A g \in GroupsOf(r) : \E q \in PathsOf(g) : \A c \in OnGroup(r, g) : PrintedOf(c, q) = 1
        /\ whole = "unmatched" /\ (\A c \in ToSet(settings.rules[r]) : IsOnPath(c)) =>
             \E g \in GroupsOf(r) : \A q \in PathsOf(g) : \E c \in OnGroup(r, g) : PrintedOf(c, q) = 0
        /\ whole = "error" => Unreadable(r)
    BY <1>1, <2>3, RuleResult
  <2>6. outcome \in [RuleNames -> {"none", "matched", "unmatched", "error"}]
    BY DEF FsInv, OutcomeOK
  <2>7. outcome' = [outcome EXCEPT ![r] = whole]
    BY <2>4
  <2> HIDE DEF whole
  <2>8. outcome'[r] = whole /\ \A n \in RuleNames : n # r => outcome'[n] = outcome[n]
    BY <2>3, <2>6, <2>7
  <2>9. /\ RuleNames' = RuleNames /\ \A n : StateOnly(n)' <=> StateOnly(n)
        /\ \A n : GroupsOf(n)' = GroupsOf(n) /\ (Unreadable(n)' <=> Unreadable(n))
        /\ \A n, g : OnGroup(n, g)' = OnGroup(n, g)
    BY <1>1, SettingsFixed
  <2>10. TurnOK'
    BY <1>1, <2>2, SettingsFixed DEF FsInv, TurnOK
  <2>11. AgendaOK'
    BY <1>1, <2>2, AgendaStays DEF FsInv
  <2>12. ExchangeOK'
    BY <1>1 DEF FsInv, ExchangeOK
  <2>13. KnownOK'
    BY <1>1, KnownStays DEF FsInv
  <2>14. OutcomeOK'
    <3>1. outcome' \in [RuleNames -> {"none", "matched", "unmatched", "error"}]
      BY <2>3, <2>5, <2>6, <2>7 DEF Results
    <3>2. turn' \in Early => \A n \in RuleNames : outcome'[n] # "none" => StateOnly(n)
      BY <1>1, <2>2, <2>3, <2>8 DEF FsInv, OutcomeOK, Early
    <3>3. \A n \in RuleNames : outcome'[n] = "error" => Unreadable(n)
      BY <2>5, <2>8 DEF FsInv, OutcomeOK
    <3> QED BY <2>9, <3>1, <3>2, <3>3 DEF OutcomeOK, Early
  <2>15. VerdictOnProbes'
    <3>1. \A c, q : PrintedOf(c, q)' = PrintedOf(c, q)
      BY <1>1 DEF PrintedOf
    <3>2. \A n \in RuleNames : outcome'[n] = "matched" =>
            \A g \in GroupsOf(n) : \E q \in PathsOf(g) : \A c \in OnGroup(n, g) : PrintedOf(c, q) = 1
      BY <2>5, <2>8 DEF FsInv, VerdictOnProbes
    <3>3. \A n \in RuleNames : outcome'[n] = "unmatched" /\ (\A c \in ToSet(settings.rules[n]) : IsOnPath(c)) =>
            \E g \in GroupsOf(n) : \A q \in PathsOf(g) : \E c \in OnGroup(n, g) : PrintedOf(c, q) = 0
      BY <2>5, <2>8 DEF FsInv, VerdictOnProbes
    <3>4. code' # 115
      BY <1>1, <2>2
    <3> QED BY <1>1, <2>9, <3>1, <3>2, <3>3, <3>4 DEF VerdictOnProbes, PathsOf
  <2> QED BY <2>10, <2>11, <2>12, <2>13, <2>14, <2>15 DEF FsInv
<1> QED BY <1>2, <1>3

(* A turn begins with nothing known. *)
LEMMA FreshInv ==
  ASSUME settings \in Settings, turn = "parse", checked = FALSE, agenda = <<>>, entry = <<>>, cache = <<>>,
         accessCache = <<>>, measured = <<>>, "step" \in DOMAIN exchange, exchange.step = "idle",
         outcome = [r \in RuleNames |-> "none"], code = 0
  PROVE  FsInv
<1>1. TurnOK
  BY DEF TurnOK
<1>2. AgendaOK
  BY DEF AgendaOK
<1>3. ExchangeOK
  BY DEF ExchangeOK
<1>4. KnownOK
  BY DEF KnownOK, CacheOK, EntryOK, AccessOK, SamplesOK
<1>5. OutcomeOK
  BY DEF OutcomeOK
<1>6. VerdictOnProbes
  BY DEF VerdictOnProbes
<1> QED BY <1>1, <1>2, <1>3, <1>4, <1>5, <1>6 DEF FsInv

LEMMA FsInitInv == FsInit => FsInv
<1> SUFFICES ASSUME FsInit
             PROVE  FsInv
  OBVIOUS
<1>1. /\ settings \in Settings /\ turn = "parse" /\ checked = FALSE /\ agenda = <<>> /\ entry = <<>> /\ cache = <<>>
      /\ accessCache = <<>> /\ measured = <<>> /\ code = 0
      /\ "step" \in DOMAIN exchange /\ exchange.step = "idle"
      /\ outcome = [r \in RuleNames |-> "none"]
  BY DEF FsInit, Idle, RuleNames
<1> QED BY <1>1, FreshInv

LEMMA AgainInv ==
  ASSUME FsInv, Again
  PROVE  FsInv'
<1>1. /\ settings' \in Settings /\ turn' = "parse" /\ checked' = FALSE /\ agenda' = <<>> /\ entry' = <<>> /\ cache' = <<>>
      /\ accessCache' = <<>> /\ measured' = <<>> /\ "step" \in DOMAIN exchange' /\ exchange'.step = "idle"
      /\ outcome' = [r \in RuleNames |-> "none"] /\ code' = 0 /\ RuleNames' = RuleNames
  BY SettingsFixed DEF Again, Idle, FsInv, TurnOK
<1>2. TurnOK'
  BY <1>1 DEF TurnOK
<1>3. AgendaOK'
  BY <1>1 DEF AgendaOK
<1>4. ExchangeOK'
  BY <1>1 DEF ExchangeOK
<1>5. KnownOK'
  BY <1>1 DEF KnownOK, CacheOK, EntryOK, AccessOK, SamplesOK
<1>6. OutcomeOK'
  BY <1>1 DEF OutcomeOK
<1>7. VerdictOnProbes'
  BY <1>1 DEF VerdictOnProbes
<1> QED BY <1>2, <1>3, <1>4, <1>5, <1>6, <1>7 DEF FsInv

LEMMA FsStutter ==
  ASSUME FsInv, UNCHANGED fsVars
  PROVE  FsInv'
<1>1. UNCHANGED <<settings, turn, checked, agenda, measured, outcome, code, excused, exchange, entry, cache, accessCache, printed>>
  BY DEF fsVars, probing
<1>2. TurnOK'
  BY <1>1, SettingsFixed DEF FsInv, TurnOK
<1>3. AgendaOK'
  BY <1>1, AgendaStays DEF FsInv
<1>4. ExchangeOK'
  BY <1>1 DEF FsInv, ExchangeOK
<1>5. KnownOK'
  BY <1>1, KnownStays DEF FsInv
<1>6. OutcomeOK'
  BY <1>1, OutcomeStays DEF FsInv
<1>7. VerdictOnProbes'
  BY <1>1, VerdictStays DEF FsInv
<1> QED BY <1>2, <1>3, <1>4, <1>5, <1>6, <1>7 DEF FsInv

LEMMA FsInvariance == FsSpec => []FsInv
<1>1. FsInv /\ [FsNext]_fsVars => FsInv'
  <2> SUFFICES ASSUME FsInv, [FsNext]_fsVars
               PROVE  FsInv'
    OBVIOUS
  <2> QED BY ParseInv, CollectInv, CacheEntryInv, AddSampleInv, CollectedInv, ExecuteInv, ExchangeInv,
             DeliverInv, JudgeRuleInv, AgainInv, FsStutter DEF FsNext, FsStep, FsWorld
<1> QED BY <1>1, FsInitInv, PTL DEF FsSpec

(***************************************************************************)
(* VerdictsOnProbes: a rule on directories has the result that the output  *)
(* of this turn's commands gives it, under the identity of each group, and *)
(* error 115 has its cause outside (collect_filesystems, RuleEvaluator).   *)
(***************************************************************************)
THEOREM VerdictsOnProbes == FsSpec => []VerdictOnProbes
BY FsInvariance, PTL DEF FsInv

(***************************************************************************)
(* AcceptedRulesEvaluate: a rule that check-config has evaluated fails in  *)
(* a cycle only where it compares a counter with a fraction or an infinity *)
(* (_validate_rule against _matches_value).                                *)
(***************************************************************************)
THEOREM AcceptedRulesEvaluate == FsSpec => []AcceptedEvaluates
<1>1. FsInv => AcceptedEvaluates
  <2> SUFFICES ASSUME FsInv, checked, NEW r \in RuleNames, outcome[r] = "error"
               PROVE  \E c \in ToSet(settings.rules[r]) :
                        c.text.resource \in Counters /\ Written(c.text) \cap {"fraction", "infinity"} # {}
    BY DEF AcceptedEvaluates
  <2>1. PICK c \in ToSet(settings.rules[r]), absent \in BOOLEAN : ~Evaluates(c.text, TypeOf(c.text.resource, absent))
    BY DEF FsInv, OutcomeOK, Unreadable
  <2>2. c.text \in Texts
    BY AskedIs DEF FsInv, TurnOK
  <2>3. CheckedOffline(c.text, c.group, DOMAIN Groups, WithIdentity)
    BY DEF FsInv, TurnOK, AllConditions
  <2> QED BY <2>1, <2>2, <2>3, TypesAgree
<1> QED BY <1>1, FsInvariance, PTL
=============================================================================
