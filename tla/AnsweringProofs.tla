--------------------------- MODULE AnsweringProofs ---------------------------
(***************************************************************************)
(* What Answering promises for any chunks, limits and replies: the number   *)
(* of calls, the patience of the loops, what silence means, what is put to  *)
(* the model, and what an answer rests on.                                  *)
(***************************************************************************)
EXTENDS Answering, SequenceTheorems, FiniteSetTheorems, WellFoundedInduction, TLAPS

-----------------------------------------------------------------------------
(* Induction, with sets of numbers for predicates. *)

Before == {ss \in Nat \X Nat : ss[1] < ss[2]}

LEMMA BeforeWellFounded == IsWellFoundedOn(Before, Nat)
<1>1. Before = OpToRel(<, Nat)
    BY Zenon DEF Before, OpToRel
<1> QED
    BY <1>1, NatLessThanWellFounded, Zenon

LEMMA Least ==
    ASSUME NEW S \in SUBSET Nat, S # {}
    PROVE  \E n \in S : \A m \in S : n <= m
<1>1. PICK n \in S : \A m \in S : ~(<<m, n>> \in Before)
    BY WFMin, BeforeWellFounded
<1>2. \A m \in S : ~(m < n)
    BY <1>1 DEF Before
<1> QED
    BY <1>2

-----------------------------------------------------------------------------
(* What Picked returns. *)

Rank(I, i) == Cardinality(I \cap 1..i)

LEMMA RankGrows ==
    ASSUME NEW n \in Nat, NEW I \in SUBSET (1..n), NEW i \in 0..n
    PROVE  /\ Cardinality(I) \in Nat /\ Rank(I, i) \in Nat /\ Rank(I, i) <= Cardinality(I)
           /\ Rank(I, 0) = 0 /\ Rank(I, n) = Cardinality(I)
           /\ i # n => Rank(I, i + 1) = IF i + 1 \in I THEN Rank(I, i) + 1 ELSE Rank(I, i)
<1>1. IsFiniteSet(1..n)
    BY FS_Interval
<1>2. IsFiniteSet(I)
    BY <1>1, FS_Subset
<1>3. I \cap 1..i \in SUBSET I
    OBVIOUS
<1>4. IsFiniteSet(I \cap 1..i) /\ Cardinality(I \cap 1..i) <= Cardinality(I)
    BY <1>2, <1>3, FS_Subset
<1>5. Cardinality(I) \in Nat /\ Cardinality(I \cap 1..i) \in Nat
    BY <1>2, <1>4, FS_CardinalityType
<1>6. I \cap 1..0 = {} /\ I \cap 1..n = I
    <2>1. 1..0 = {}
        OBVIOUS
    <2>2. I \cap 1..n = I
        OBVIOUS
    <2> QED
        BY <2>1, <2>2
<1>7. Cardinality({}) = 0
    BY FS_EmptySet
<1>8. ASSUME i # n
      PROVE  Rank(I, i + 1) = IF i + 1 \in I THEN Rank(I, i) + 1 ELSE Rank(I, i)
    <2>1. CASE i + 1 \in I
        <3>1. I \cap 1..(i + 1) = (I \cap 1..i) \cup {i + 1}
            BY <2>1
        <3>2. i + 1 \notin I \cap 1..i
            OBVIOUS
        <3> QED
            BY <1>4, <2>1, <3>1, <3>2, FS_AddElement DEF Rank
    <2>2. CASE i + 1 \notin I
        <3>1. I \cap 1..(i + 1) = I \cap 1..i
            BY <2>2
        <3> QED
            BY <2>2, <3>1 DEF Rank
    <2> QED
        BY <2>1, <2>2
<1> QED
    BY <1>4, <1>5, <1>6, <1>7, <1>8 DEF Rank

\* The k-th index exists, and is one of I.
LEMMA Places ==
    ASSUME NEW n \in Nat, NEW I \in SUBSET (1..n)
    PROVE  /\ Cardinality(I) \in Nat
           /\ \A k \in 1..Cardinality(I) : \E i \in I : Rank(I, i) = k
           /\ \A i \in I : Rank(I, i) \in 1..Cardinality(I)
           /\ \A i, j \in I : Rank(I, i) = Rank(I, j) => i = j
           /\ \A i, j \in I : Rank(I, i) < Rank(I, j) => i < j
<1>0. 0 \in 0..n
    OBVIOUS
<1>1. Cardinality(I) \in Nat /\ Rank(I, 0) = 0
    BY <1>0, RankGrows
<1>2. \A i \in 0..n : Rank(I, i) \in Nat /\ Rank(I, i) <= Cardinality(I)
    BY RankGrows
<1>3. ASSUME NEW i \in I PROVE Rank(I, i - 1) \in Nat /\ Rank(I, i) = Rank(I, i - 1) + 1
    <2>1. i - 1 \in 0..n /\ i - 1 # n /\ (i - 1) + 1 = i
        OBVIOUS
    <2>2. Rank(I, i - 1) \in Nat
        BY <2>1, RankGrows
    <2>3. Rank(I, (i - 1) + 1) = IF (i - 1) + 1 \in I THEN Rank(I, i - 1) + 1 ELSE Rank(I, i - 1)
        BY <2>1, RankGrows
    <2> QED
        BY <2>1, <2>2, <2>3
\* Between the ranks of two of its indices there is a step.
<1>4. ASSUME NEW i \in I, NEW j \in I, i < j PROVE Rank(I, i) < Rank(I, j)
    <2> DEFINE S == {m \in i..n : Rank(I, m) < Rank(I, i)}
    <2>1. S = {}
        <3> SUFFICES ASSUME S # {} PROVE FALSE
            OBVIOUS
        <3>1. S \in SUBSET Nat
            OBVIOUS
        <3>2. PICK m \in S : \A l \in S : m <= l
            <4> HIDE DEF S
            <4> QED
                BY <3>1, Least
        <3>3. m # i /\ m \in i..n /\ Rank(I, m) < Rank(I, i)
            BY <1>2
        <3>4. m - 1 \in i..n /\ m - 1 \in 0..n /\ m - 1 # n /\ (m - 1) + 1 = m /\ m - 1 \notin S
            BY <3>2, <3>3
        <3>5. ~(Rank(I, m - 1) < Rank(I, i))
            BY <3>4
        <3>6. Rank(I, m) = IF m \in I THEN Rank(I, m - 1) + 1 ELSE Rank(I, m - 1)
            BY <3>4, RankGrows
        <3> QED
            BY <1>2, <3>3, <3>4, <3>5, <3>6
    <2>2. j - 1 \in i..n /\ j - 1 \in 0..n /\ i \in 0..n
        BY <1>4
    <2>3. ~(Rank(I, j - 1) < Rank(I, i))
        BY <2>1, <2>2
    <2> QED
        BY <1>2, <1>3, <2>2, <2>3
<1>5. ASSUME NEW k \in 1..Cardinality(I) PROVE \E i \in I : Rank(I, i) = k
    <2> DEFINE S == {i \in 0..n : k <= Rank(I, i)}
    <2>1. n \in S
        BY <1>1, RankGrows
    <2>2. S \in SUBSET Nat
        OBVIOUS
    <2>3. PICK i \in S : \A m \in S : i <= m
        <3> HIDE DEF S
        <3> QED
            BY <2>1, <2>2, Least
    <2>4. i \in 0..n /\ k <= Rank(I, i) /\ i # 0
        BY <1>1
    <2>5. i - 1 \in 0..n /\ i - 1 # n /\ (i - 1) + 1 = i /\ i - 1 \notin S
        BY <2>3, <2>4
    <2>6. ~(k <= Rank(I, i - 1)) /\ Rank(I, i - 1) \in Nat
        BY <1>2, <2>5
    <2>7. Rank(I, i) = IF i \in I THEN Rank(I, i - 1) + 1 ELSE Rank(I, i - 1)
        BY <2>5, RankGrows
    <2> QED
        BY <1>1, <2>4, <2>6, <2>7
<1>6. ASSUME NEW i \in I PROVE Rank(I, i) \in 1..Cardinality(I)
    BY <1>1, <1>2, <1>3
<1>7. ASSUME NEW i \in I, NEW j \in I, Rank(I, i) = Rank(I, j) PROVE i = j
    <2>1. Rank(I, i) \in Nat /\ Rank(I, j) \in Nat
        BY <1>6
    <2>2. ~(i < j) /\ ~(j < i)
        BY <1>4, <1>7, <2>1
    <2> QED
        BY <2>2
<1>8. ASSUME NEW i \in I, NEW j \in I, Rank(I, i) < Rank(I, j) PROVE i < j
    <2>1. Rank(I, i) \in Nat /\ Rank(I, j) \in Nat
        BY <1>6
    <2>2. ~(j < i) /\ j # i
        BY <1>4, <1>8, <2>1
    <2> QED
        BY <2>2
<1> QED
    BY <1>1, <1>5, <1>6, <1>7, <1>8

LEMMA PickedSeq ==
    ASSUME NEW S, NEW seq \in Seq(S), NEW I \in SUBSET DOMAIN seq
    PROVE  /\ Picked(seq, I) \in Seq(S)
           /\ Cardinality(I) \in Nat /\ Len(Picked(seq, I)) = Cardinality(I)
           /\ ToSet(Picked(seq, I)) = {seq[i] : i \in I}
           /\ (\A i, j \in I : seq[i] = seq[j] => i = j) => IsInjective(Picked(seq, I))
<1>1. Len(seq) \in Nat /\ DOMAIN seq = 1..Len(seq) /\ \A i \in 1..Len(seq) : seq[i] \in S
    BY LenProperties, ElementOfSeq
<1>2. /\ Cardinality(I) \in Nat
      /\ \A k \in 1..Cardinality(I) : \E i \in I : Rank(I, i) = k
      /\ \A i \in I : Rank(I, i) \in 1..Cardinality(I)
      /\ \A i, j \in I : Rank(I, i) = Rank(I, j) => i = j
    BY <1>1, Places
<1> DEFINE at == [k \in 1..Cardinality(I) |-> CHOOSE i \in I : Rank(I, i) = k]
<1>3. \A k \in 1..Cardinality(I) : at[k] \in I /\ Rank(I, at[k]) = k
    BY <1>2
<1>4. Picked(seq, I) = [k \in 1..Cardinality(I) |-> seq[at[k]]]
    BY DEF Picked, Rank
<1>5. \A i \in I : \E k \in 1..Cardinality(I) : at[k] = i
    <2> SUFFICES ASSUME NEW i \in I PROVE \E k \in 1..Cardinality(I) : at[k] = i
        OBVIOUS
    <2>1. PICK k \in 1..Cardinality(I) : k = Rank(I, i)
        BY <1>2
    <2>2. at[k] \in I /\ Rank(I, at[k]) = Rank(I, i)
        BY <1>3, <2>1
    <2> HIDE DEF at
    <2> QED
        BY <1>2, <2>2
<1> HIDE DEF at
<1>6. \A k \in 1..Cardinality(I) : seq[at[k]] \in S
    BY <1>1, <1>3
<1>7. Picked(seq, I) \in Seq(S) /\ Len(Picked(seq, I)) = Cardinality(I) /\ DOMAIN Picked(seq, I) = 1..Cardinality(I)
    BY <1>2, <1>4, <1>6
<1>8. ToSet(Picked(seq, I)) = {seq[i] : i \in I}
    BY <1>3, <1>4, <1>5, <1>7 DEF ToSet
<1>9. ASSUME \A i, j \in I : seq[i] = seq[j] => i = j PROVE IsInjective(Picked(seq, I))
    BY <1>3, <1>4, <1>7, <1>9 DEF IsInjective
<1> QED
    BY <1>2, <1>7, <1>8, <1>9

LEMMA PickedInOrder ==
    ASSUME NEW S, NEW seq \in Seq(S), NEW I \in SUBSET DOMAIN seq,
           NEW l \in 1..Cardinality(I), NEW k \in 1..(l - 1)
    PROVE  \E j \in I : \E i \in I : i < j /\ Picked(seq, I)[k] = seq[i] /\ Picked(seq, I)[l] = seq[j]
<1>1. Len(seq) \in Nat /\ DOMAIN seq = 1..Len(seq)
    BY LenProperties
<1>2. /\ Cardinality(I) \in Nat
      /\ \A m \in 1..Cardinality(I) : \E i \in I : Rank(I, i) = m
      /\ \A i, j \in I : Rank(I, i) < Rank(I, j) => i < j
    BY <1>1, Places
<1> DEFINE at == [m \in 1..Cardinality(I) |-> CHOOSE i \in I : Rank(I, i) = m]
<1>3. k \in 1..Cardinality(I) /\ k < l
    BY <1>2
<1>4. at[k] \in I /\ at[l] \in I /\ Rank(I, at[k]) = k /\ Rank(I, at[l]) = l
    BY <1>2, <1>3
<1>5. Picked(seq, I)[k] = seq[at[k]] /\ Picked(seq, I)[l] = seq[at[l]]
    BY <1>3 DEF Picked, Rank
<1> HIDE DEF at
<1>6. at[k] < at[l]
    BY <1>2, <1>3, <1>4
<1> QED
    BY <1>4, <1>5, <1>6

LEMMA AllPicked ==
    ASSUME NEW S, NEW seq \in Seq(S)
    PROVE  Picked(seq, DOMAIN seq) = seq
<1>1. Len(seq) \in Nat /\ DOMAIN seq = 1..Len(seq)
    BY LenProperties
<1>2. ASSUME NEW n \in Nat PROVE Cardinality(1..n) = n
    <2>1. Cardinality(1..n) = IF 1 > n THEN 0 ELSE n - 1 + 1
        BY FS_Interval
    <2> QED
        BY <2>1
<1>3. ASSUME NEW n \in Nat, NEW i \in 1..n PROVE Cardinality((1..n) \cap 1..i) = i
    <2>1. (1..n) \cap 1..i = 1..i /\ i \in Nat
        OBVIOUS
    <2>2. Cardinality(1..i) = i
        BY <1>2, <2>1
    <2> QED
        BY <2>1, <2>2
<1>4. ASSUME NEW n \in Nat, NEW k \in 1..n
      PROVE  (CHOOSE i \in 1..n : Cardinality((1..n) \cap 1..i) = k) = k
    <2>1. \A i \in 1..n : Cardinality((1..n) \cap 1..i) = k <=> i = k
        BY <1>3
    <2> QED
        BY <2>1
<1>5. Picked(seq, DOMAIN seq) = [k \in 1..Len(seq) |-> seq[CHOOSE i \in 1..Len(seq) : Cardinality((1..Len(seq)) \cap 1..i) = k]]
    BY <1>1, <1>2 DEF Picked
<1>6. Picked(seq, DOMAIN seq) = [k \in 1..Len(seq) |-> seq[k]]
    BY <1>1, <1>4, <1>5
<1>7. seq = [k \in 1..Len(seq) |-> seq[k]]
    BY <1>1
<1> QED
    BY <1>6, <1>7

-----------------------------------------------------------------------------
(* What TotalSize computes. *)

IsSum(f, s, n) == f = [k \in 0..n |-> IF k = 0 THEN 0 ELSE f[k - 1] + Size[s[k]]]

LEMMA SumExists ==
    ASSUME NEW s \in Seq(Chunks), NEW n \in Nat
    PROVE  \E f : IsSum(f, s, n)
<1> DEFINE S == {m \in Nat : ~\E f : IsSum(f, s, m)}
<1>1. SUFFICES S = {}
    OBVIOUS
<1>2. SUFFICES ASSUME S # {} PROVE FALSE
    OBVIOUS
<1>3. PICK m \in S : \A l \in S : m <= l
    <2>1. S \in SUBSET Nat
        OBVIOUS
    <2> HIDE DEF S
    <2> QED
        BY <1>2, <2>1, Least
<1>4. m # 0
    <2>1. IsSum([k \in 0..0 |-> 0], s, 0)
        BY DEF IsSum
    <2> QED
        BY <2>1
<1>5. m - 1 \in Nat /\ m - 1 \notin S
    BY <1>3, <1>4
<1>6. PICK f : IsSum(f, s, m - 1)
    BY <1>5
<1> DEFINE g == [k \in 0..m |-> IF k = m THEN f[m - 1] + Size[s[m]] ELSE f[k]]
<1>7. \A k \in 0..(m - 1) : f[k] = IF k = 0 THEN 0 ELSE f[k - 1] + Size[s[k]]
    BY <1>6 DEF IsSum
<1>8. ASSUME NEW k \in 0..m PROVE g[k] = IF k = 0 THEN 0 ELSE g[k - 1] + Size[s[k]]
    <2>1. CASE k = m
        BY <1>4, <1>5, <2>1
    <2>2. CASE k # m
        <3>1. k \in 0..(m - 1) /\ (k # 0 => k - 1 \in 0..m /\ k - 1 # m)
            BY <2>2
        <3> QED
            BY <1>7, <2>2, <3>1
    <2> QED
        BY <2>1, <2>2
<1>9. IsSum(g, s, m)
    BY <1>8 DEF IsSum
<1> QED
    BY <1>9

LEMMA SumUnique ==
    ASSUME NEW s \in Seq(Chunks), NEW t \in Seq(Chunks), NEW n \in 0..Len(s), NEW m \in 0..Len(t),
           NEW f, NEW g, IsSum(f, s, n), IsSum(g, t, m),
           NEW l \in 0..n, l <= m, \A k \in 1..l : s[k] = t[k]
    PROVE  f[l] = g[l] /\ f[l] \in Nat
<1> DEFINE S == {k \in 0..l : ~(f[k] = g[k] /\ f[k] \in Nat)}
<1>1. SUFFICES ASSUME S # {} PROVE FALSE
    OBVIOUS
<1>2. PICK k \in S : \A j \in S : k <= j
    <2>1. S \in SUBSET Nat
        OBVIOUS
    <2> HIDE DEF S
    <2> QED
        BY <1>1, <2>1, Least
<1>3. k \in 0..n /\ k \in 0..m /\ Len(s) \in Nat /\ Len(t) \in Nat
    BY LenProperties
<1>4. /\ f[k] = IF k = 0 THEN 0 ELSE f[k - 1] + Size[s[k]]
      /\ g[k] = IF k = 0 THEN 0 ELSE g[k - 1] + Size[t[k]]
    BY <1>3 DEF IsSum
<1>5. k # 0
    BY <1>4
<1>6. k - 1 \in 0..l /\ k - 1 \notin S
    BY <1>2, <1>5
<1>7. f[k - 1] = g[k - 1] /\ f[k - 1] \in Nat
    BY <1>6
<1>8. s[k] = t[k] /\ s[k] \in Chunks
    BY <1>3, <1>5, ElementOfSeq
<1>9. Size[s[k]] \in Nat
    BY <1>8, ChunksAssumption
<1> QED
    BY <1>4, <1>5, <1>7, <1>8, <1>9

LEMMA TotalSizeIsSum ==
    ASSUME NEW s \in Seq(Chunks)
    PROVE  \E f : IsSum(f, s, Len(s)) /\ TotalSize(s) = f[Len(s)]
<1> DEFINE f == CHOOSE f : IsSum(f, s, Len(s))
<1>1. Len(s) \in Nat
    BY LenProperties
<1>2. IsSum(f, s, Len(s))
    BY <1>1, SumExists
<1>3. TotalSize(s) = f[Len(s)]
    BY DEF TotalSize, IsSum
<1> QED
    BY <1>2, <1>3

LEMMA TotalSizeOfNone == TotalSize(<<>>) = 0
<1>1. <<>> \in Seq(Chunks) /\ Len(<<>>) = 0
    BY EmptySeq
<1>2. PICK f : IsSum(f, <<>>, 0) /\ TotalSize(<<>>) = f[0]
    BY <1>1, TotalSizeIsSum
<1> QED
    BY <1>2 DEF IsSum

LEMMA TotalSizeOfOneMore ==
    ASSUME NEW s \in Seq(Chunks), NEW c \in Chunks
    PROVE  TotalSize(Append(s, c)) = TotalSize(s) + Size[c] /\ TotalSize(s) \in Nat
<1> DEFINE t == Append(s, c)
           n == Len(s)
<1>1. n \in Nat /\ t \in Seq(Chunks) /\ Len(t) = n + 1 /\ t[n + 1] = c /\ \A k \in 1..n : s[k] = t[k]
    BY LenProperties, AppendProperties
<1>2. PICK f : IsSum(f, s, n) /\ TotalSize(s) = f[n]
    BY TotalSizeIsSum
<1>3. PICK g : IsSum(g, t, n + 1) /\ TotalSize(t) = g[n + 1]
    BY <1>1, TotalSizeIsSum
<1> HIDE DEF t
<1>4. f[n] = g[n] /\ f[n] \in Nat
    <2>1. n \in 0..Len(s) /\ n + 1 \in 0..Len(t) /\ n \in 0..n /\ n <= n + 1
        BY <1>1
    <2> HIDE DEF n
    <2> QED
        BY <1>1, <1>2, <1>3, <2>1, SumUnique DEF n
<1>5. g[n + 1] = g[n] + Size[t[n + 1]]
    <2>1. n + 1 \in 0..(n + 1) /\ n + 1 # 0 /\ (n + 1) - 1 = n
        BY <1>1
    <2> HIDE DEF n
    <2>2. g[n + 1] = IF n + 1 = 0 THEN 0 ELSE g[(n + 1) - 1] + Size[t[n + 1]]
        BY <1>3, <2>1 DEF IsSum
    <2> QED
        BY <2>1, <2>2
<1> QED
    BY <1>1, <1>2, <1>3, <1>4, <1>5 DEF t

-----------------------------------------------------------------------------
(* Calls and silence. *)

\* The lists of the retrieval, the best candidate among the kept ones.
Retrieved ==
    /\ ranked \in Seq(Chunks) /\ kept \in Seq(Chunks) /\ context \in Seq(Chunks)
    /\ walked \in 0..Len(ranked)
    /\ walked > 0 => kept # <<>>
    /\ tokens \in Nat

\* The two counters of the loops, and the calls they stand for.
Counted ==
    /\ attempt \in Nat /\ grounding \in Nat /\ failures \in Nat
    /\ calls \in [embed : Nat, chat : Nat]
    /\ corrections \in Seq([cited : SUBSET (Chunks \cup {Junk}), rejected : SUBSET (Chunks \cup {Junk})])
    /\ calls.embed <= MaxAttempts
    /\ calls.chat <= MaxAttempts * MaxGrounding

Embedding ==
    /\ calls.embed = attempt /\ attempt < MaxAttempts
    /\ failures = attempt /\ calls.chat = 0 /\ corrections = <<>>

Selecting == calls.chat = 0 /\ failures = 0 /\ corrections = <<>>

Asking ==
    /\ context # <<>>
    /\ grounding \in 1..MaxGrounding /\ Len(corrections) = grounding - 1
    /\ attempt < MaxAttempts /\ failures = attempt
    /\ calls.chat <= MaxAttempts * (grounding - 1) + attempt

\* What the response says, once there is one.
Answered ==
    /\ Patience
    /\ response.says \in {"error", "answer", "not_covered", "nothing_relevant", "inconclusive"}
    /\ response.status = 200 <=> response.says # "error"
    /\ response.says = "nothing_relevant" => ranked = <<>> /\ calls.chat = 0
    /\ response.says \in {"answer", "not_covered", "inconclusive"} => calls.chat > 0
    /\ response.says = "inconclusive" => context # <<>> /\ Len(corrections) = MaxGrounding - 1
    /\ response.says \in {"nothing_relevant", "not_covered", "inconclusive"} => response.citations = <<>>

QuestionInv ==
    /\ phase \in Phases
    /\ Retrieved /\ Counted
    /\ phase \in {"embedding", "searching"} => walked = 0
    /\ phase = "embedding" => Embedding
    /\ phase \in {"searching", "selecting"} => Selecting
    /\ phase = "asking" => Asking
    /\ phase = "citing" => calls.chat > 0 /\ (result.not_in_corpus => result.citations = <<>>)
    /\ phase # "answered" => response = NoResponse
    /\ phase = "answered" => Answered

-----------------------------------------------------------------------------

\* One more call fits under the product of the two limits.
LEMMA RoomForACall ==
    ASSUME NEW a \in Nat, NEW g \in 1..MaxGrounding, NEW n \in Nat,
           a < MaxAttempts, n <= MaxAttempts * (g - 1) + a
    PROVE  /\ n + 1 <= MaxAttempts * (g - 1) + (a + 1)
           /\ n + 1 <= MaxAttempts * g
           /\ n + 1 <= MaxAttempts * MaxGrounding
<1>0. MaxAttempts \in Nat \ {0} /\ MaxGrounding \in Nat \ {0}
    BY LimitsAssumption
<1>1. n + 1 <= MaxAttempts * (g - 1) + (a + 1)
    BY <1>0
<1>2. MaxAttempts * (g - 1) + MaxAttempts = MaxAttempts * g
    BY <1>0
<1>3. MaxAttempts * (g - 1) \in Nat /\ MaxAttempts * g \in Nat /\ MaxAttempts * MaxGrounding \in Nat
    BY <1>0
<1>4. n + 1 <= MaxAttempts * g
    BY <1>0, <1>1, <1>2, <1>3
<1>5. MaxAttempts * g <= MaxAttempts * MaxGrounding
    BY <1>0
<1> QED
    BY <1>1, <1>3, <1>4, <1>5

LEMMA QuestionStarts == Init => QuestionInv
<1> SUFFICES ASSUME Init PROVE QuestionInv
    OBVIOUS
<1>1. MaxAttempts \in Nat \ {0} /\ MaxGrounding \in Nat \ {0} /\ MaxAttempts * MaxGrounding \in Nat
    BY LimitsAssumption
<1>2. \A S : <<>> \in Seq(S) /\ Len(<<>>) = 0
    BY EmptySeq
<1>3. Retrieved
    BY <1>2 DEF Init, Retrieved
<1>4. Counted
    BY <1>1, <1>2 DEF Init, Counted
<1>5. Embedding
    BY <1>1 DEF Init, Embedding
<1> QED
    BY <1>3, <1>4, <1>5 DEF Init, QuestionInv, Phases

LEMMA EmbedFailsKeeps ==
    ASSUME QuestionInv, NEW error \in Retryable \cup {"refused"}, EmbedFails(error)
    PROVE  QuestionInv'
<1>0. MaxAttempts \in Nat \ {0}
    BY LimitsAssumption
<1>1. phase = "embedding" /\ CallFails("embed", error) /\ Embedding /\ Retrieved /\ Counted
    BY DEF EmbedFails, QuestionInv
<1>2. UNCHANGED <<retrieval, grounding, corrections, result>> /\ attempt' = attempt + 1 /\ failures' = failures + 1
    BY <1>1 DEF CallFails
<1>3. calls' = [calls EXCEPT !["embed"] = @ + 1] /\ calls \in [embed : Nat, chat : Nat]
    BY <1>1 DEF CallFails, Called, Counted
<1>4. calls'.embed = attempt' /\ calls'.chat = 0 /\ calls' \in [embed : Nat, chat : Nat]
    BY <1>1, <1>2, <1>3 DEF Embedding
<1>5. Retrieved'
    BY <1>1, <1>2 DEF Retrieved, retrieval
<1>6. Counted'
    BY <1>0, <1>1, <1>2, <1>3, <1>4 DEF Counted, Embedding
<1>7. CASE error \in Retryable /\ ~Exhausted
    <2>1. UNCHANGED <<phase, response>>
        BY <1>1, <1>7 DEF CallFails
    <2>2. Embedding'
        BY <1>0, <1>1, <1>2, <1>4, <1>7 DEF Embedding, Counted, Exhausted
    <2> QED
        BY <1>1, <1>2, <1>5, <1>6, <2>1, <2>2 DEF QuestionInv, retrieval
<1>8. CASE ~(error \in Retryable /\ ~Exhausted)
    <2>1. phase' = "answered" /\ response' = Error(StatusOf(error))
        BY <1>1, <1>8 DEF CallFails, Respond
    <2>2. response'.status = StatusOf(error) /\ response'.says = "error"
        BY <2>1 DEF Error
    <2>3. StatusOf(error) # 200
        BY DEF StatusOf
    <2>4. StatusOf(error) \in {429, 504} => error \in Retryable
        BY DEF StatusOf, Retryable
    <2>5. StatusOf(error) \in {429, 504} => failures' = MaxAttempts
        BY <1>0, <1>1, <1>2, <1>8, <2>4 DEF Exhausted, Embedding, Counted
    <2>6. Answered'
        BY <2>2, <2>3, <2>5 DEF Answered, Patience
    <2> QED
        BY <1>5, <1>6, <2>1, <2>6 DEF QuestionInv, Phases
<1> QED
    BY <1>7, <1>8

LEMMA AskFailsKeeps ==
    ASSUME QuestionInv, NEW error \in Retryable \cup {"refused"}, AskFails(error)
    PROVE  QuestionInv'
<1>0. MaxAttempts \in Nat \ {0}
    BY LimitsAssumption
<1>1. phase = "asking" /\ CallFails("chat", error) /\ Asking /\ Retrieved /\ Counted
    BY DEF AskFails, QuestionInv
<1>2. UNCHANGED <<retrieval, grounding, corrections, result>> /\ attempt' = attempt + 1 /\ failures' = failures + 1
    BY <1>1 DEF CallFails
<1>3. calls' = [calls EXCEPT !["chat"] = @ + 1] /\ calls \in [embed : Nat, chat : Nat]
    BY <1>1 DEF CallFails, Called, Counted
<1>4. calls'.embed = calls.embed /\ calls'.chat = calls.chat + 1 /\ calls' \in [embed : Nat, chat : Nat]
    BY <1>3
<1>5. /\ calls.chat + 1 <= MaxAttempts * (grounding - 1) + (attempt + 1)
      /\ calls.chat + 1 <= MaxAttempts * MaxGrounding
    BY <1>1, <1>3, RoomForACall DEF Asking, Counted
<1>6. Retrieved'
    BY <1>1, <1>2 DEF Retrieved, retrieval
<1>7. Counted'
    BY <1>1, <1>2, <1>4, <1>5 DEF Counted
<1>8. CASE error \in Retryable /\ ~Exhausted
    <2>1. UNCHANGED <<phase, response>>
        BY <1>1, <1>8 DEF CallFails
    <2>2. Asking'
        BY <1>0, <1>1, <1>2, <1>4, <1>5, <1>8 DEF Asking, Counted, Exhausted, retrieval
    <2> QED
        BY <1>1, <1>6, <1>7, <2>1, <2>2 DEF QuestionInv
<1>9. CASE ~(error \in Retryable /\ ~Exhausted)
    <2>1. phase' = "answered" /\ response' = Error(StatusOf(error))
        BY <1>1, <1>9 DEF CallFails, Respond
    <2>2. response'.status = StatusOf(error) /\ response'.says = "error"
        BY <2>1 DEF Error
    <2>3. StatusOf(error) # 200
        BY DEF StatusOf
    <2>4. StatusOf(error) \in {429, 504} => error \in Retryable
        BY DEF StatusOf, Retryable
    <2>5. StatusOf(error) \in {429, 504} => failures' = MaxAttempts
        BY <1>0, <1>1, <1>2, <1>9, <2>4 DEF Exhausted, Asking, Counted
    <2>6. Answered'
        BY <2>2, <2>3, <2>5 DEF Answered, Patience
    <2> QED
        BY <1>6, <1>7, <2>1, <2>6 DEF QuestionInv, Phases
<1> QED
    BY <1>8, <1>9

\* A call that is answered, whatever it says, ends one's patience count.
LEMMA MalformedKeeps ==
    ASSUME QuestionInv, EmbedMalformed \/ AskMalformed
    PROVE  QuestionInv'
<1>0. MaxAttempts \in Nat \ {0} /\ MaxGrounding \in Nat \ {0} /\ MaxAttempts * MaxGrounding \in Nat
    BY LimitsAssumption
<1>1. Retrieved /\ Counted /\ calls \in [embed : Nat, chat : Nat]
    BY DEF QuestionInv, Counted
<1>2. PICK service \in {"embed", "chat"} :
          /\ CallMalformed(service)
          /\ service = "embed" => phase = "embedding"
          /\ service = "chat" => phase = "asking"
    BY DEF EmbedMalformed, AskMalformed
<1>3. /\ UNCHANGED <<retrieval, attempt, grounding, corrections>> /\ failures' = 0
      /\ phase' = "answered" /\ response' = Error(502)
      /\ calls' = [calls EXCEPT ![service] = @ + 1]
    BY <1>2 DEF CallMalformed, Respond, Called
<1>4. calls' \in [embed : Nat, chat : Nat] /\ calls'.embed <= MaxAttempts /\ calls'.chat <= MaxAttempts * MaxGrounding
    <2>1. CASE service = "embed"
        <3>1. Embedding
            BY <1>2, <2>1 DEF QuestionInv
        <3>2. calls'.embed = calls.embed + 1 /\ calls'.chat = calls.chat
            BY <1>1, <1>3, <2>1
        <3> QED
            BY <1>0, <1>1, <1>3, <3>1, <3>2 DEF Embedding, Counted
    <2>2. CASE service = "chat"
        <3>1. Asking
            BY <1>2, <2>2 DEF QuestionInv
        <3>2. calls.chat + 1 <= MaxAttempts * MaxGrounding
            BY <1>1, <3>1, RoomForACall DEF Asking, Counted
        <3>3. calls'.embed = calls.embed /\ calls'.chat = calls.chat + 1
            BY <1>1, <1>3, <2>2
        <3> QED
            BY <1>0, <1>1, <1>3, <3>2, <3>3 DEF Counted
    <2> QED
        BY <1>2, <2>1, <2>2
<1>5. Retrieved'
    BY <1>1, <1>3 DEF Retrieved, retrieval
<1>6. Counted'
    BY <1>1, <1>3, <1>4 DEF Counted
<1>7. Answered'
    BY <1>3 DEF Answered, Patience, Error
<1> QED
    BY <1>3, <1>5, <1>6, <1>7 DEF QuestionInv, Phases

LEMMA EmbedKeeps ==
    ASSUME QuestionInv, Embed
    PROVE  QuestionInv'
<1>0. MaxAttempts \in Nat \ {0}
    BY LimitsAssumption
<1>1. phase = "embedding" /\ Embedding /\ Retrieved /\ Counted
    BY DEF Embed, QuestionInv
<1>2. calls'.embed = calls.embed + 1 /\ calls'.chat = calls.chat /\ calls' \in [embed : Nat, chat : Nat]
    BY <1>1 DEF Embed, Called, Counted
<1>3. Retrieved'
    BY <1>1 DEF Embed, Retrieved, retrieval
<1>4. Counted'
    BY <1>0, <1>1, <1>2 DEF Embed, Counted, Embedding
<1>5. Selecting'
    BY <1>1, <1>2 DEF Embed, Selecting, Embedding
<1> QED
    BY <1>1, <1>3, <1>4, <1>5 DEF Embed, QuestionInv, retrieval, Phases

LEMMA DatabaseFailsKeeps ==
    ASSUME QuestionInv, DatabaseFails
    PROVE  QuestionInv'
<1>1. Retrieved' /\ Counted'
    BY DEF DatabaseFails, QuestionInv, Retrieved, Counted, retrieval
<1>2. phase' = "answered" /\ response' = Error(500)
    BY DEF DatabaseFails, Respond
<1>3. Answered'
    BY <1>2 DEF Answered, Patience, Error
<1> QED
    BY <1>1, <1>2, <1>3 DEF QuestionInv, Phases

LEMMA SearchKeeps ==
    ASSUME QuestionInv, Search
    PROVE  QuestionInv'
<1>1. Retrieved /\ Counted /\ Selecting /\ phase = "searching" /\ phase' = "selecting"
    BY DEF Search, QuestionInv
<1>2. PICK found \in BoundedSeq(Chunks, PoolSize) : \E above \in 0..Len(found) : ranked' = SubSeq(found, 1, above)
    BY DEF Search
<1>3. PICK above \in 0..Len(found) : ranked' = SubSeq(found, 1, above)
    BY <1>2
<1>4. PoolSize \in Nat
    BY LimitsAssumption
<1>5. found \in Seq(Chunks)
    BY <1>2, <1>4 DEF BoundedSeq, SeqOf
<1>6. ranked' \in Seq(Chunks)
    <2>1. \A i \in 1..above : found[i] \in Chunks
        BY <1>3, <1>5
    <2> QED
        BY <1>3, <2>1, SubSeqProperties
<1>7. UNCHANGED <<walked, kept, context, tokens>> /\ walked = 0
    BY <1>1 DEF Search, QuestionInv
<1>8. Retrieved'
    <2>1. Len(ranked') \in Nat
        BY <1>6, LenProperties
    <2> QED
        BY <1>1, <1>6, <1>7, <2>1 DEF Retrieved
<1>9. UNCHANGED <<attempt, grounding, corrections, result, response, calls, failures>>
    BY DEF Search
<1>10. Counted' /\ Selecting'
    BY <1>1, <1>9 DEF Counted, Selecting
<1> QED
    BY <1>1, <1>8, <1>9, <1>10 DEF QuestionInv, Phases

LEMMA CompareKeeps ==
    ASSUME QuestionInv, Compare
    PROVE  QuestionInv'
<1>1. Retrieved /\ Counted /\ Selecting /\ phase = "selecting"
    BY DEF Compare, QuestionInv
<1>2. UNCHANGED <<phase, ranked, context, tokens, attempt, grounding, corrections, result, response, calls, failures>>
    BY DEF Compare
<1>3. walked' = walked + 1 /\ walked' \in 1..Len(ranked) /\ ranked[walked + 1] \in Chunks
    BY <1>1 DEF Compare, Retrieved
<1>4. kept' \in Seq(Chunks) /\ kept' # <<>>
    <2>1. CASE NearDuplicate(ranked[walked + 1])
        <3>1. kept' = kept /\ DOMAIN kept # {}
            BY <2>1 DEF Compare, NearDuplicate
        <3>2. DOMAIN <<>> = {}
            OBVIOUS
        <3> QED
            BY <1>1, <3>1, <3>2 DEF Retrieved
    <2>2. CASE ~NearDuplicate(ranked[walked + 1])
        BY <1>1, <1>3, <2>2, AppendProperties DEF Compare, Retrieved
    <2> QED
        BY <2>1, <2>2
<1>5. Retrieved'
    BY <1>1, <1>2, <1>3, <1>4 DEF Retrieved
<1>6. Counted' /\ Selecting'
    BY <1>1, <1>2 DEF Counted, Selecting
<1> QED
    BY <1>1, <1>2, <1>5, <1>6 DEF QuestionInv

LEMMA TakeKeeps ==
    ASSUME QuestionInv, Take
    PROVE  QuestionInv'
<1>1. Retrieved /\ Counted /\ Selecting /\ phase = "selecting"
    BY DEF Take, QuestionInv
<1>2. UNCHANGED <<phase, ranked, walked, kept, attempt, grounding, corrections, result, response, calls, failures>>
    BY DEF Take
<1>3. kept[Len(context) + 1] \in Chunks
    BY <1>1 DEF Take, MoreToTake, Retrieved
<1>4. context' \in Seq(Chunks)
    BY <1>1, <1>3, AppendProperties DEF Take, Retrieved
<1>5. tokens' \in Nat
    <2>1. Size[kept[Len(context) + 1]] \in Nat
        BY <1>3, ChunksAssumption
    <2> QED
        BY <1>1, <2>1 DEF Take, Retrieved
<1>6. Retrieved'
    BY <1>1, <1>2, <1>4, <1>5 DEF Retrieved
<1>7. Counted' /\ Selecting'
    BY <1>1, <1>2 DEF Counted, Selecting
<1> QED
    BY <1>1, <1>2, <1>6, <1>7 DEF QuestionInv

\* The best candidate is always taken, so an empty context means none was found.
LEMMA BeginKeeps ==
    ASSUME QuestionInv, Begin
    PROVE  QuestionInv'
<1>0. MaxAttempts \in Nat \ {0} /\ MaxGrounding \in Nat \ {0}
    BY LimitsAssumption
<1>1. Retrieved /\ Counted /\ Selecting /\ phase = "selecting" /\ walked = Len(ranked) /\ ~MoreToTake
    BY DEF Begin, QuestionInv
<1>2. UNCHANGED <<ranked, walked, kept, context, tokens, corrections, result, calls, failures>>
    BY DEF Begin, retrieval
<1>3. Retrieved'
    BY <1>1, <1>2 DEF Retrieved
<1>4. CASE context = <<>>
    <2>1. phase' = "answered" /\ response' = Says("nothing_relevant", <<>>) /\ UNCHANGED <<attempt, grounding>>
        BY <1>4 DEF Begin, Respond
    <2>2. ranked = <<>>
        <3>1. Len(context) = 0 /\ Len(kept) \in Nat /\ Len(ranked) \in Nat
            BY <1>1, <1>4, EmptySeq DEF Retrieved
        <3>2. ~(0 < Len(kept))
            BY <1>1, <1>4, <3>1 DEF MoreToTake, Fits
        <3>3. kept = <<>>
            BY <1>1, <3>1, <3>2, EmptySeq DEF Retrieved
        <3>4. Len(ranked) = 0
            BY <1>1, <3>1, <3>3 DEF Retrieved
        <3> QED
            BY <1>1, <3>4, EmptySeq DEF Retrieved
    <2>3. Answered'
        BY <1>1, <1>2, <2>1, <2>2 DEF Answered, Patience, Says, Selecting
    <2>4. Counted'
        BY <1>1, <1>2, <2>1 DEF Counted
    <2> QED
        BY <1>3, <2>1, <2>3, <2>4 DEF QuestionInv, Phases
<1>5. CASE context # <<>>
    <2>1. phase' = "asking" /\ attempt' = 0 /\ grounding' = 1 /\ UNCHANGED response
        BY <1>5 DEF Begin
    <2>2. Counted'
        BY <1>1, <1>2, <2>1 DEF Counted
    <2>3. Asking'
        <3>1. Len(corrections) = 0
            BY <1>1, EmptySeq DEF Selecting
        <3>2. MaxAttempts * (1 - 1) + 0 = 0
            BY <1>0
        <3> QED
            BY <1>0, <1>1, <1>2, <1>5, <2>1, <3>1, <3>2 DEF Asking, Selecting
    <2> QED
        BY <1>1, <1>3, <2>1, <2>2, <2>3 DEF QuestionInv, Phases
<1> QED
    BY <1>4, <1>5

LEMMA AcceptKeeps ==
    ASSUME QuestionInv, NEW reply \in Replies, Accept(reply)
    PROVE  QuestionInv'
<1>1. Retrieved /\ Counted /\ Asking /\ phase = "asking"
    BY DEF Accept, QuestionInv
<1>2. /\ UNCHANGED <<ranked, walked, kept, context, tokens, attempt, grounding, corrections, response>>
      /\ failures' = 0 /\ phase' = "citing"
    BY DEF Accept, retrieval
<1>3. calls'.embed = calls.embed /\ calls'.chat = calls.chat + 1 /\ calls' \in [embed : Nat, chat : Nat]
    BY <1>1 DEF Accept, Called, Counted
<1>4. calls.chat + 1 <= MaxAttempts * MaxGrounding
    BY <1>1, RoomForACall DEF Asking, Counted
<1>5. Retrieved'
    BY <1>1, <1>2 DEF Retrieved
<1>6. Counted'
    BY <1>1, <1>2, <1>3, <1>4 DEF Counted
<1>7. result'.not_in_corpus => result'.citations = <<>>
    BY DEF Accept, ValidCitations
<1>8. calls'.chat > 0
    BY <1>1, <1>3 DEF Counted
<1> QED
    BY <1>1, <1>2, <1>5, <1>6, <1>7, <1>8 DEF QuestionInv, Phases

LEMMA CitedIn ==
    ASSUME NEW reply \in Replies
    PROVE  reply.cited \in Seq(Chunks \cup {Junk})
<1>1. reply.cited \in BoundedSeq(Chunks \cup {Junk}, MaxCited)
    BY DEF Replies
<1>2. PICK m \in 0..MaxCited : reply.cited \in [1..m -> Chunks \cup {Junk}]
    BY <1>1 DEF BoundedSeq, SeqOf
<1> QED
    BY <1>2, LimitsAssumption

LEMMA CorrectKeeps ==
    ASSUME QuestionInv, NEW reply \in Replies, Correct(reply)
    PROVE  QuestionInv'
<1>0. MaxAttempts \in Nat \ {0} /\ MaxGrounding \in Nat \ {0} /\ MaxCited \in Nat
    BY LimitsAssumption
<1>1. Retrieved /\ Counted /\ Asking /\ phase = "asking" /\ grounding < MaxGrounding
    BY <1>0 DEF Correct, LastReply, QuestionInv, Counted
<1>2. /\ UNCHANGED <<phase, ranked, walked, kept, context, tokens, response>>
      /\ failures' = 0 /\ attempt' = 0 /\ grounding' = grounding + 1
      /\ corrections' = Append(corrections, [cited |-> ToSet(reply.cited), rejected |-> Rejected(reply)])
    BY DEF Correct, retrieval
<1>3. calls'.embed = calls.embed /\ calls'.chat = calls.chat + 1 /\ calls' \in [embed : Nat, chat : Nat]
    BY <1>1 DEF Correct, Called, Counted
<1>4. calls.chat + 1 <= MaxAttempts * MaxGrounding /\ calls.chat + 1 <= MaxAttempts * grounding
    BY <1>1, RoomForACall DEF Asking, Counted
<1>5. ToSet(reply.cited) \subseteq Chunks \cup {Junk}
    BY CitedIn, LenProperties, ElementOfSeq DEF ToSet
<1>6. Rejected(reply) \subseteq Chunks \cup {Junk}
    BY <1>5 DEF Rejected, Unsupported
<1>7. /\ corrections' \in Seq([cited : SUBSET (Chunks \cup {Junk}), rejected : SUBSET (Chunks \cup {Junk})])
      /\ Len(corrections') = Len(corrections) + 1
    <2> DEFINE told == [cited |-> ToSet(reply.cited), rejected |-> Rejected(reply)]
               Told == [cited : SUBSET (Chunks \cup {Junk}), rejected : SUBSET (Chunks \cup {Junk})]
    <2>1. told \in Told
        BY <1>5, <1>6
    <2>2. corrections \in Seq(Told) /\ corrections' = Append(corrections, told)
        BY <1>1, <1>2 DEF Counted
    <2> HIDE DEF told, Told
    <2>3. corrections' \in Seq(Told) /\ Len(corrections') = Len(corrections) + 1
        BY <2>1, <2>2, AppendProperties
    <2> QED
        BY <2>3 DEF Told
<1>8. Retrieved'
    BY <1>1, <1>2 DEF Retrieved
<1>9. Counted'
    BY <1>1, <1>2, <1>3, <1>4, <1>7 DEF Counted
<1>10. Asking'
    <2>1. grounding' \in 1..MaxGrounding /\ Len(corrections') = grounding' - 1
        BY <1>0, <1>1, <1>2, <1>7 DEF Asking, Counted
    <2>2. calls'.chat <= MaxAttempts * grounding
        BY <1>3, <1>4
    <2>3. MaxAttempts * (grounding' - 1) + attempt' = MaxAttempts * grounding
        BY <1>0, <1>1, <1>2 DEF Counted
    <2> QED
        BY <1>0, <1>1, <1>2, <2>1, <2>2, <2>3 DEF Asking
<1> QED
    BY <1>1, <1>2, <1>8, <1>9, <1>10 DEF QuestionInv

LEMMA GiveUpKeeps ==
    ASSUME QuestionInv, NEW reply \in Replies, GiveUp(reply)
    PROVE  QuestionInv'
<1>0. MaxGrounding \in Nat \ {0}
    BY LimitsAssumption
<1>1. Retrieved /\ Counted /\ Asking /\ phase = "asking" /\ grounding = MaxGrounding
    BY <1>0 DEF GiveUp, LastReply, QuestionInv, Counted, Asking
<1>2. /\ UNCHANGED <<ranked, walked, kept, context, tokens, attempt, grounding, corrections>>
      /\ failures' = 0 /\ phase' = "answered" /\ response' = Says("inconclusive", <<>>)
    BY DEF GiveUp, Respond, retrieval
<1>3. calls'.embed = calls.embed /\ calls'.chat = calls.chat + 1 /\ calls' \in [embed : Nat, chat : Nat]
    BY <1>1 DEF GiveUp, Called, Counted
<1>4. calls.chat + 1 <= MaxAttempts * MaxGrounding
    BY <1>1, RoomForACall DEF Asking, Counted
<1>5. Retrieved'
    BY <1>1, <1>2 DEF Retrieved
<1>6. Counted'
    BY <1>1, <1>2, <1>3, <1>4 DEF Counted
<1>7. context' # <<>> /\ Len(corrections') = MaxGrounding - 1 /\ calls'.chat > 0
    BY <1>1, <1>2, <1>3 DEF Asking, Counted
<1>8. Answered'
    BY <1>2, <1>7 DEF Answered, Patience, Says
<1> QED
    BY <1>2, <1>5, <1>6, <1>8 DEF QuestionInv, Phases

LEMMA LookUpKeeps ==
    ASSUME QuestionInv, LookUpCitations
    PROVE  QuestionInv'
<1>1. Retrieved /\ Counted /\ phase = "citing" /\ calls.chat > 0 /\ (result.not_in_corpus => result.citations = <<>>)
    BY DEF LookUpCitations, QuestionInv
<1>2. UNCHANGED <<ranked, walked, kept, context, tokens, attempt, grounding, corrections, result, calls, failures>>
    BY DEF LookUpCitations, retrieval
<1> DEFINE seen == [i \in DOMAIN LookedUp |-> [chunk |-> LookedUp[i], row |-> corpus[LookedUp[i]]]]
<1>3. phase' = "answered" /\ response' = Says(IF result.not_in_corpus THEN "not_covered" ELSE "answer", seen)
    BY DEF LookUpCitations, Respond
<1>4. result.not_in_corpus => seen = <<>>
    <2>1. DOMAIN <<>> = {}
        OBVIOUS
    <2>2. result.citations = <<>> => LookedUp = <<>>
        <3>1. <<>> \in Seq(Chunks) /\ {i \in DOMAIN <<>> : corpus[<<>>[i]] # "gone"} = DOMAIN <<>>
            BY <2>1, EmptySeq
        <3>2. Picked(<<>>, DOMAIN <<>>) = <<>>
            BY <3>1, AllPicked
        <3> QED
            BY <3>1, <3>2 DEF LookedUp
    <2>3. result.citations = <<>> => seen = [i \in {} |-> [chunk |-> LookedUp[i], row |-> corpus[LookedUp[i]]]]
        BY <2>1, <2>2
    <2> QED
        BY <1>1, <2>3
<1> HIDE DEF seen
<1>5. /\ response'.status = 200 /\ response'.citations = seen
      /\ response'.says = IF result.not_in_corpus THEN "not_covered" ELSE "answer"
    BY <1>3 DEF Says
<1>6. Answered'
    BY <1>1, <1>2, <1>4, <1>5 DEF Answered, Patience
<1>7. Retrieved' /\ Counted'
    BY <1>1, <1>2 DEF Retrieved, Counted
<1> QED
    BY <1>3, <1>6, <1>7 DEF QuestionInv, Phases

LEMMA DisturbKeeps ==
    ASSUME QuestionInv, NEW c \in Chunks, Disturb(c)
    PROVE  QuestionInv'
<1>1. phase \in {"asking", "citing"}
    BY DEF Disturb
<1>2. UNCHANGED <<phase, ranked, walked, kept, context, tokens, attempt, grounding, corrections, result, response, calls, failures>>
    BY DEF Disturb, retrieval
<1> QED
    BY <1>1, <1>2 DEF QuestionInv, Retrieved, Counted, Asking

LEMMA StutterKeeps == QuestionInv /\ UNCHANGED vars => QuestionInv'
    BY DEF QuestionInv, Retrieved, Counted, Embedding, Selecting, Asking, Answered, Patience, vars, retrieval

LEMMA QuestionStep == QuestionInv /\ [Next]_vars => QuestionInv'
<1> SUFFICES ASSUME QuestionInv, [Next]_vars PROVE QuestionInv'
    OBVIOUS
<1>1. CASE Step
    <2>1. CASE Embed \/ EmbedMalformed \/ DatabaseFails
        BY <2>1, EmbedKeeps, MalformedKeeps, DatabaseFailsKeeps
    <2>2. CASE Search \/ Compare \/ Take \/ Begin
        BY <2>2, SearchKeeps, CompareKeeps, TakeKeeps, BeginKeeps
    <2>3. CASE AskMalformed \/ LookUpCitations
        BY <2>3, MalformedKeeps, LookUpKeeps
    <2>4. CASE \E error \in Retryable \cup {"refused"} : EmbedFails(error) \/ AskFails(error)
        BY <2>4, EmbedFailsKeeps, AskFailsKeeps
    <2>5. CASE \E reply \in Replies : Accept(reply) \/ Correct(reply) \/ GiveUp(reply)
        BY <2>5, AcceptKeeps, CorrectKeeps, GiveUpKeeps
    <2> QED
        BY <1>1, <2>1, <2>2, <2>3, <2>4, <2>5 DEF Step
<1>2. CASE \E c \in Chunks : Disturb(c)
    BY <1>2, DisturbKeeps
<1>3. CASE UNCHANGED vars
    BY <1>3, StutterKeeps
<1> QED
    BY <1>1, <1>2, <1>3 DEF Next

LEMMA QuestionInvariant == Spec => []QuestionInv
    BY QuestionStarts, QuestionStep, PTL DEF Spec

\* The product of the two limits bounds what one question can cost, whatever
\* fails and whatever the model replies (generation.py:461-464).
THEOREM AlwaysBounded == Spec => []CallsBounded
<1>1. QuestionInv => CallsBounded
    BY DEF QuestionInv, Counted, CallsBounded
<1> QED
    BY <1>1, QuestionInvariant, PTL

\* Nobody is told of a rate limit or a timeout while a try is left, nor for
\* failures of an earlier call (query.py:146-163).
THEOREM AlwaysPatient == Spec => []Patience
<1>1. QuestionInv => Patience
    BY DEF QuestionInv, Answered, Patience, NoResponse
<1> QED
    BY <1>1, QuestionInvariant, PTL

\* No try too many, and none too few, in either of the nested loops
\* (generation.py:507-531).
THEOREM TriesAlwaysCounted == Spec => []TriesCounted
<1> QED
    BY AlwaysBounded, AlwaysPatient, PTL DEF TriesCounted

\* The words for nothing relevant, for no answer and for no trusted citation
\* each say what happened (query.py:43-58).
THEOREM SilenceAlwaysExplained == Spec => []SilenceIsExplained
<1>1. QuestionInv => SilenceIsExplained
    <2> SUFFICES ASSUME QuestionInv PROVE SilenceIsExplained
        OBVIOUS
    <2>1. CASE phase = "answered"
        <3>1. Answered /\ calls.chat \in Nat
            BY <2>1 DEF QuestionInv, Counted
        <3> QED
            BY <2>1, <3>1 DEF Answered, SilenceIsExplained
    <2>2. CASE phase # "answered"
        BY <2>2 DEF QuestionInv, NoResponse, SilenceIsExplained
    <2> QED
        BY <2>1, <2>2
<1> QED
    BY <1>1, QuestionInvariant, PTL

-----------------------------------------------------------------------------
(* The choice of the chunks. *)

\* Every candidate compared so far is kept or has its reason.
Accounted ==
    \A i \in 1..walked :
        \/ ranked[i] \in ToSet(kept)
        \/ \E j \in 1..(i - 1) : {ranked[i], ranked[j]} \in Near /\ ranked[j] \in ToSet(kept)

\* The kept ones are candidates compared, once each, in their order.
Sampled == \A k \in 1..Len(kept) : \E i \in 1..walked : kept[k] = ranked[i]

BestFirst ==
    \A k, l \in 1..Len(kept) : \A i \in 1..walked :
        k <= l /\ kept[l] = ranked[i] => \E j \in 1..i : kept[k] = ranked[j]

OnceEach == \A k, l \in 1..Len(kept) : kept[k] = kept[l] => k = l

\* The context is the front of the kept ones.
Fronted == Len(context) <= Len(kept) /\ \A k \in 1..Len(context) : context[k] = kept[k]

Chosen == Accounted /\ Sampled /\ BestFirst /\ OnceEach /\ Fronted

ChoiceInv ==
    /\ \A i, j \in 1..Len(ranked) : ranked[i] = ranked[j] => i = j
    /\ phase \in {"embedding", "searching"} => kept = <<>> /\ context = <<>>
    /\ phase = "selecting" => Chosen
    /\ NothingLostUnseen

LEMMA ChoiceStarts == Init => ChoiceInv
<1> SUFFICES ASSUME Init PROVE ChoiceInv
    OBVIOUS
<1>1. Len(ranked) = 0
    BY EmptySeq DEF Init
<1> QED
    BY <1>1 DEF Init, ChoiceInv, NothingLostUnseen

LEMMA SearchChooses ==
    ASSUME QuestionInv, QuestionInv', ChoiceInv, Search
    PROVE  ChoiceInv'
<1>1. PICK found \in BoundedSeq(Chunks, PoolSize) : \E above \in 0..Len(found) :
          IsInjective(found) /\ ranked' = SubSeq(found, 1, above)
    BY DEF Search
<1>2. PICK above \in 0..Len(found) : IsInjective(found) /\ ranked' = SubSeq(found, 1, above)
    BY <1>1
<1>3. found \in Seq(Chunks)
    BY <1>1, LimitsAssumption DEF BoundedSeq, SeqOf
<1>4. Len(ranked') = above /\ \A i \in 1..above : ranked'[i] = found[i]
    <2>1. \A i \in 1..above : found[i] \in Chunks
        BY <1>2, <1>3
    <2>2. Len(SubSeq(found, 1, above)) = IF 1 <= above THEN above - 1 + 1 ELSE 0
        BY <2>1, SubSeqProperties
    <2>3. \A i \in 1..(above - 1 + 1) : SubSeq(found, 1, above)[i] = found[1 + i - 1]
        BY <2>1, SubSeqProperties
    <2> QED
        BY <1>2, <1>3, <2>2, <2>3
<1>5. \A i, j \in 1..Len(ranked') : ranked'[i] = ranked'[j] => i = j
    BY <1>2, <1>3, <1>4 DEF IsInjective
<1>6. phase' = "selecting" /\ walked' = 0 /\ kept' = <<>> /\ context' = <<>>
    BY DEF Search, QuestionInv, ChoiceInv
<1>7. Len(<<>>) = 0
    BY EmptySeq
<1>8. Chosen'
    BY <1>6, <1>7 DEF Chosen, Accounted, Sampled, BestFirst, OnceEach, Fronted
<1> QED
    BY <1>5, <1>6, <1>8 DEF ChoiceInv, NothingLostUnseen

LEMMA CompareChooses ==
    ASSUME QuestionInv, QuestionInv', ChoiceInv, Compare
    PROVE  ChoiceInv'
<1> DEFINE c == ranked[walked + 1]
<1>1. /\ phase = "selecting" /\ walked + 1 \in 1..Len(ranked)
      /\ ranked \in Seq(Chunks) /\ kept \in Seq(Chunks) /\ context \in Seq(Chunks)
      /\ Len(kept) \in Nat /\ Len(context) \in Nat /\ walked \in Nat /\ c \in Chunks
    BY LenProperties DEF QuestionInv, Retrieved, Compare
<1>2. walked' = walked + 1 /\ UNCHANGED <<phase, ranked, context, tokens>>
    BY DEF Compare
<1>3. Accounted /\ Sampled /\ BestFirst /\ OnceEach /\ Fronted
    BY <1>1 DEF ChoiceInv, Chosen
<1>4. \A k \in 1..Len(kept) : kept[k] # c
    BY <1>1, <1>3 DEF ChoiceInv, Sampled
<1>5. CASE NearDuplicate(c)
    <2>1. kept' = kept
        BY <1>5 DEF Compare
    <2>2. PICK k \in 1..Len(kept) : {c, kept[k]} \in Near
        BY <1>1, <1>5, LenProperties DEF NearDuplicate
    <2>3. PICK j \in 1..walked : kept[k] = ranked[j]
        BY <1>3 DEF Sampled
    <2>4. ranked[j] \in ToSet(kept)
        BY <1>1, <2>3, LenProperties DEF ToSet
    <2>5. Accounted'
        <3> SUFFICES ASSUME NEW i \in 1..walked'
                     PROVE  \/ ranked[i] \in ToSet(kept)
                            \/ \E m \in 1..(i - 1) : {ranked[i], ranked[m]} \in Near /\ ranked[m] \in ToSet(kept)
            BY <1>2, <2>1 DEF Accounted
        <3>1. CASE i \in 1..walked
            BY <1>3, <3>1 DEF Accounted
        <3>2. CASE i = walked + 1
            <4>1. j \in 1..(i - 1) /\ {ranked[i], ranked[j]} \in Near
                BY <1>1, <2>2, <2>3, <3>2
            <4> QED
                BY <2>4, <4>1
        <3>3. i \in 1..walked \/ i = walked + 1
            BY <1>1, <1>2
        <3> QED
            BY <3>1, <3>2, <3>3
    <2>6. OnceEach' /\ Fronted'
        BY <1>2, <1>3, <2>1 DEF OnceEach, Fronted
    <2>8. Sampled'
        <3>1. 1..walked \subseteq 1..walked'
            BY <1>1, <1>2
        <3> QED
            BY <1>2, <1>3, <2>1, <3>1 DEF Sampled
    <2>7. BestFirst'
        <3> SUFFICES ASSUME NEW m \in 1..Len(kept), NEW l \in 1..Len(kept), NEW i \in 1..(walked + 1),
                            m <= l, kept[l] = ranked[i]
                     PROVE  \E n \in 1..i : kept[m] = ranked[n]
            BY <1>2, <2>1 DEF BestFirst
        <3>1. i # walked + 1
            BY <1>4
        <3>2. i \in 1..walked
            BY <1>1, <3>1
        <3> QED
            BY <1>3, <3>2 DEF BestFirst
    <2> QED
        BY <1>1, <1>2, <2>5, <2>6, <2>7, <2>8 DEF Chosen, ChoiceInv, NothingLostUnseen
<1>6. CASE ~NearDuplicate(c)
    <2>1. kept' = Append(kept, c)
        BY <1>6 DEF Compare
    <2>2. /\ Len(kept') = Len(kept) + 1 /\ kept' \in Seq(Chunks)
          /\ \A k \in 1..Len(kept) : kept'[k] = kept[k]
          /\ kept'[Len(kept) + 1] = c
        BY <1>1, <2>1, AppendProperties
    <2>3. ToSet(kept') = ToSet(kept) \cup {c}
        <3>1. DOMAIN kept = 1..Len(kept) /\ DOMAIN kept' = 1..(Len(kept) + 1)
            BY <1>1, <2>2, LenProperties
        <3>2. 1..(Len(kept) + 1) = (1..Len(kept)) \cup {Len(kept) + 1}
            BY <1>1
        <3> QED
            BY <2>2, <3>1, <3>2 DEF ToSet
    <2>4. Accounted'
        <3> SUFFICES ASSUME NEW i \in 1..(walked + 1)
                     PROVE  \/ ranked[i] \in ToSet(kept')
                            \/ \E m \in 1..(i - 1) : {ranked[i], ranked[m]} \in Near /\ ranked[m] \in ToSet(kept')
            BY <1>2 DEF Accounted
        <3>1. CASE i \in 1..walked
            BY <1>3, <2>3, <3>1 DEF Accounted
        <3>2. CASE i = walked + 1
            BY <2>3, <3>2
        <3>3. i \in 1..walked \/ i = walked + 1
            BY <1>1
        <3> QED
            BY <3>1, <3>2, <3>3
    <2>5. Sampled'
        BY <1>1, <1>2, <1>3, <2>2 DEF Sampled
    <2>6. BestFirst'
        <3> SUFFICES ASSUME NEW m \in 1..(Len(kept) + 1), NEW l \in 1..(Len(kept) + 1), NEW i \in 1..(walked + 1),
                            m <= l, kept'[l] = ranked[i]
                     PROVE  \E n \in 1..i : kept'[m] = ranked[n]
            BY <1>2, <2>2 DEF BestFirst
        <3>1. CASE l \in 1..Len(kept)
            <4>1. i # walked + 1
                BY <1>4, <2>2, <3>1
            <4>2. i \in 1..walked /\ m \in 1..Len(kept)
                BY <1>1, <3>1, <4>1
            <4> QED
                BY <1>3, <2>2, <3>1, <4>2 DEF BestFirst
        <3>2. CASE l = Len(kept) + 1
            <4>1. i = walked + 1
                BY <1>1, <2>2, <3>2 DEF ChoiceInv
            <4>2. CASE m \in 1..Len(kept)
                <5>1. PICK n \in 1..walked : kept[m] = ranked[n]
                    BY <1>3, <4>2 DEF Sampled
                <5>2. n \in 1..i
                    BY <1>1, <4>1
                <5>3. kept'[m] = ranked[n]
                    BY <2>2, <4>2, <5>1
                <5> QED
                    BY <5>2, <5>3
            <4>3. CASE m = Len(kept) + 1
                BY <1>1, <2>2, <4>1, <4>3
            <4> QED
                BY <1>1, <4>2, <4>3
        <3>3. l \in 1..Len(kept) \/ l = Len(kept) + 1
            BY <1>1
        <3> QED
            BY <3>1, <3>2, <3>3
    <2>7. OnceEach'
        BY <1>1, <1>3, <1>4, <2>2 DEF OnceEach
    <2>8. Fronted'
        BY <1>1, <1>2, <1>3, <2>2 DEF Fronted
    <2> QED
        BY <1>1, <1>2, <2>4, <2>5, <2>6, <2>7, <2>8 DEF Chosen, ChoiceInv, NothingLostUnseen
<1> QED
    BY <1>5, <1>6

LEMMA TakeChooses ==
    ASSUME QuestionInv, QuestionInv', ChoiceInv, Take
    PROVE  ChoiceInv'
<1>1. /\ phase = "selecting" /\ Len(context) + 1 \in 1..Len(kept)
      /\ kept \in Seq(Chunks) /\ context \in Seq(Chunks)
      /\ Len(kept) \in Nat /\ Len(context) \in Nat
    BY LenProperties DEF QuestionInv, Retrieved, Take, MoreToTake
<1>2. UNCHANGED <<phase, ranked, walked, kept>> /\ context' = Append(context, kept[Len(context) + 1])
    BY DEF Take
<1>3. kept[Len(context) + 1] \in Chunks
    BY <1>1
<1>4. /\ Len(context') = Len(context) + 1
      /\ \A k \in 1..Len(context) : context'[k] = context[k]
      /\ context'[Len(context) + 1] = kept[Len(context) + 1]
    BY <1>1, <1>2, <1>3, AppendProperties
<1>5. Fronted'
    BY <1>1, <1>2, <1>4 DEF Fronted, ChoiceInv, Chosen
<1>6. Accounted /\ Sampled /\ BestFirst /\ OnceEach
    BY <1>1 DEF ChoiceInv, Chosen
<1>7. Accounted' /\ Sampled'
    BY <1>2, <1>6 DEF Accounted, Sampled
<1>8. BestFirst' /\ OnceEach'
    BY <1>2, <1>6 DEF BestFirst, OnceEach
<1> QED
    BY <1>1, <1>2, <1>5, <1>7, <1>8 DEF ChoiceInv, Chosen, NothingLostUnseen

\* When the loops are through: what is kept and not taken comes after the first
\* chunk the budget had no room for.
LEMMA BeginChooses ==
    ASSUME QuestionInv, QuestionInv', ChoiceInv, Begin
    PROVE  ChoiceInv'
<1>1. /\ phase = "selecting" /\ walked = Len(ranked) /\ ~MoreToTake
      /\ ranked \in Seq(Chunks) /\ kept \in Seq(Chunks) /\ context \in Seq(Chunks)
      /\ Len(kept) \in Nat /\ Len(context) \in Nat
    BY LenProperties DEF QuestionInv, Retrieved, Begin
<1>2. UNCHANGED <<ranked, walked, kept, context, tokens>>
    BY DEF Begin, retrieval
<1>3. Accounted /\ Sampled /\ BestFirst /\ OnceEach /\ Fronted
    BY <1>1 DEF ChoiceInv, Chosen
<1>4. ToSet(kept) = {kept[k] : k \in 1..Len(kept)} /\ ToSet(context) = {context[k] : k \in 1..Len(context)}
    BY <1>1, LenProperties DEF ToSet
<1>5. ASSUME NEW i \in 1..Len(ranked), context # <<>>
      PROVE  \/ ranked[i] \in ToSet(context)
             \/ \E j \in 1..(i - 1) : {ranked[i], ranked[j]} \in Near /\ ranked[j] \in ToSet(kept)
             \/ \E j \in 1..i : ranked[j] \in ToSet(kept) \ ToSet(context) /\ tokens + Size[ranked[j]] > MaxTokens
    <2>1. CASE ranked[i] \notin ToSet(kept)
        BY <1>1, <1>3, <2>1 DEF Accounted
    <2>2. CASE ranked[i] \in ToSet(kept)
        <3>1. PICK l \in 1..Len(kept) : kept[l] = ranked[i]
            BY <1>4, <2>2
        <3>2. CASE l <= Len(context)
            BY <1>1, <1>3, <1>4, <3>1, <3>2 DEF Fronted
        <3>3. CASE Len(context) < l
            <4> DEFINE n == Len(context) + 1
            <4>1. n \in 1..Len(kept) /\ n <= l
                BY <1>1, <3>3
            <4>2. ~Fits(kept[n])
                BY <1>1, <4>1 DEF MoreToTake
            <4>3. PICK j \in 1..i : kept[n] = ranked[j]
                BY <1>1, <1>3, <3>1, <4>1 DEF BestFirst
            <4>4. kept[n] \in ToSet(kept) /\ kept[n] \notin ToSet(context)
                BY <1>1, <1>3, <1>4, <4>1 DEF Fronted, OnceEach
            <4>5. tokens + Size[kept[n]] > MaxTokens
                <5>1. tokens \in Nat /\ MaxTokens \in Nat
                    BY LimitsAssumption DEF QuestionInv, Retrieved
                <5>2. kept[n] \in Chunks
                    BY <1>1, <4>1
                <5>3. Size[kept[n]] \in Nat
                    BY <5>2, ChunksAssumption
                <5> QED
                    BY <1>5, <4>2, <5>1, <5>3 DEF Fits
            <4> QED
                BY <4>3, <4>4, <4>5
        <3>4. l <= Len(context) \/ Len(context) < l
            BY <1>1, <3>1
        <3> QED
            BY <3>2, <3>3, <3>4
    <2> QED
        BY <2>1, <2>2
<1>6. phase' \in {"asking", "answered"} /\ (phase' = "asking" => context # <<>>)
    BY DEF Begin, Respond
<1>7. NothingLostUnseen'
    <2>1. DOMAIN ranked = 1..Len(ranked)
        BY <1>1, LenProperties
    <2> QED
        BY <1>2, <1>5, <1>6, <2>1 DEF NothingLostUnseen
<1> QED
    BY <1>2, <1>6, <1>7 DEF ChoiceInv

\* Nothing else touches what the retrieval found.
LEMMA OthersChoose ==
    ASSUME ChoiceInv, UNCHANGED <<ranked, walked, kept, context, tokens>>,
           phase' \in {phase, "answered", "citing"} \/ (phase = "embedding" /\ phase' = "searching")
    PROVE  ChoiceInv'
<1>1. Accounted = Accounted' /\ Sampled = Sampled' /\ Fronted = Fronted'
    BY DEF Accounted, Sampled, Fronted
<1>2. BestFirst = BestFirst' /\ OnceEach = OnceEach'
    BY DEF BestFirst, OnceEach
<1>3. Chosen => Chosen'
    BY <1>1, <1>2 DEF Chosen
<1>4. NothingLostUnseen'
    <2>1. phase' = "asking" => phase = "asking"
        OBVIOUS
    <2> QED
        BY <2>1 DEF ChoiceInv, NothingLostUnseen
<1>5. phase' = "selecting" => phase = "selecting"
    OBVIOUS
<1>6. phase' \in {"embedding", "searching"} => phase \in {"embedding", "searching"}
    OBVIOUS
<1> QED
    BY <1>3, <1>4, <1>5, <1>6 DEF ChoiceInv

LEMMA ChoiceStep == QuestionInv /\ QuestionInv' /\ ChoiceInv /\ [Next]_vars => ChoiceInv'
<1> SUFFICES ASSUME QuestionInv, QuestionInv', ChoiceInv, [Next]_vars PROVE ChoiceInv'
    OBVIOUS
<1>1. CASE Search \/ Compare \/ Take \/ Begin
    BY <1>1, SearchChooses, CompareChooses, TakeChooses, BeginChooses
<1>2. CASE Embed \/ DatabaseFails \/ LookUpCitations
    <2>1. UNCHANGED <<ranked, walked, kept, context, tokens>>
        BY <1>2 DEF Embed, DatabaseFails, LookUpCitations, Respond, retrieval
    <2>2. phase' \in {phase, "answered", "citing"} \/ (phase = "embedding" /\ phase' = "searching")
        BY <1>2 DEF Embed, DatabaseFails, LookUpCitations, Respond
    <2> QED
        BY <2>1, <2>2, OthersChoose
<1>3. CASE EmbedMalformed \/ AskMalformed
    <2>1. UNCHANGED <<ranked, walked, kept, context, tokens>>
        BY <1>3 DEF EmbedMalformed, AskMalformed, CallMalformed, Respond, retrieval
    <2>2. phase' \in {phase, "answered", "citing"} \/ (phase = "embedding" /\ phase' = "searching")
        BY <1>3 DEF EmbedMalformed, AskMalformed, CallMalformed, Respond
    <2> QED
        BY <2>1, <2>2, OthersChoose
<1>4. CASE \E error \in Retryable \cup {"refused"} : EmbedFails(error) \/ AskFails(error)
    <2>1. UNCHANGED <<ranked, walked, kept, context, tokens>>
        BY <1>4 DEF EmbedFails, AskFails, CallFails, Respond, retrieval
    <2>2. phase' \in {phase, "answered", "citing"} \/ (phase = "embedding" /\ phase' = "searching")
        BY <1>4 DEF EmbedFails, AskFails, CallFails, Respond
    <2> QED
        BY <2>1, <2>2, OthersChoose
<1>5. CASE \E reply \in Replies : Accept(reply) \/ Correct(reply) \/ GiveUp(reply)
    <2>1. UNCHANGED <<ranked, walked, kept, context, tokens>>
        BY <1>5 DEF Accept, Correct, GiveUp, Respond, retrieval
    <2>2. phase' \in {phase, "answered", "citing"} \/ (phase = "embedding" /\ phase' = "searching")
        BY <1>5 DEF Accept, Correct, GiveUp, Respond
    <2> QED
        BY <2>1, <2>2, OthersChoose
<1>6. CASE (\E c \in Chunks : Disturb(c)) \/ UNCHANGED vars
    <2>1. UNCHANGED <<ranked, walked, kept, context, tokens>>
        BY <1>6 DEF Disturb, vars, retrieval
    <2>2. phase' \in {phase, "answered", "citing"} \/ (phase = "embedding" /\ phase' = "searching")
        BY <1>6 DEF Disturb, vars
    <2> QED
        BY <2>1, <2>2, OthersChoose
<1> QED
    BY <1>1, <1>2, <1>3, <1>4, <1>5, <1>6 DEF Next, Step

\* A relevant chunk is kept from the model only for one that says nearly the
\* same, or for want of room (retrieval.py:25-36).
THEOREM NothingEverLostUnseen == Spec => []NothingLostUnseen
<1>1. ChoiceInv => NothingLostUnseen
    BY DEF ChoiceInv
<1>2. Spec => []ChoiceInv
    BY QuestionInvariant, ChoiceStarts, ChoiceStep, PTL DEF Spec
<1> QED
    BY <1>1, <1>2, PTL

-----------------------------------------------------------------------------
(* What is put to the model. *)

FitsInv ==
    /\ \A i, j \in 1..Len(kept) : i # j => {kept[i], kept[j]} \notin Near
    /\ Len(context) <= Len(kept) /\ \A k \in 1..Len(context) : context[k] = kept[k]
    /\ tokens = TotalSize(context)
    /\ tokens <= MaxTokens \/ Len(context) = 1

LEMMA FitsStarts == Init => FitsInv
<1> SUFFICES ASSUME Init PROVE FitsInv
    OBVIOUS
<1>1. kept = <<>> /\ context = <<>> /\ tokens = 0 /\ MaxTokens \in Nat
    BY LimitsAssumption DEF Init
<1>2. Len(kept) = 0 /\ Len(context) = 0
    BY <1>1, EmptySeq
<1> QED
    BY <1>1, <1>2, TotalSizeOfNone DEF FitsInv

LEMMA CompareFits ==
    ASSUME QuestionInv, FitsInv, Compare
    PROVE  FitsInv'
<1>1. ranked \in Seq(Chunks) /\ kept \in Seq(Chunks) /\ walked \in 0..Len(ranked) /\ walked < Len(ranked)
    BY DEF QuestionInv, Retrieved, Compare
<1>2. UNCHANGED <<context, tokens>>
    BY DEF Compare
<1> DEFINE c == ranked[walked + 1]
<1>3. c \in Chunks /\ Len(kept) \in Nat
    BY <1>1, ElementOfSeq, LenProperties
<1>4. CASE NearDuplicate(c)
    <2>1. kept' = kept
        BY <1>4 DEF Compare
    <2> QED
        BY <1>2, <2>1 DEF FitsInv
<1>5. CASE ~NearDuplicate(c)
    <2>1. kept' = Append(kept, c)
        BY <1>5 DEF Compare
    <2>2. /\ Len(kept') = Len(kept) + 1 /\ kept'[Len(kept) + 1] = c
          /\ \A k \in 1..Len(kept) : kept'[k] = kept[k]
        <3> HIDE DEF c
        <3> QED
            BY <1>1, <1>3, <2>1, AppendProperties
    <2>3. \A i \in 1..Len(kept) : {c, kept[i]} \notin Near /\ {kept[i], c} \notin Near
        <3>1. DOMAIN kept = 1..Len(kept)
            BY <1>1, LenProperties
        <3>2. \A i \in 1..Len(kept) : {c, kept[i]} = {kept[i], c}
            OBVIOUS
        <3> QED
            BY <1>5, <3>1, <3>2 DEF NearDuplicate
    <2> HIDE DEF c
    <2>4. \A i, j \in 1..Len(kept') : i # j => {kept'[i], kept'[j]} \notin Near
        <3> SUFFICES ASSUME NEW i \in 1..Len(kept'), NEW j \in 1..Len(kept'), i # j
                     PROVE  {kept'[i], kept'[j]} \notin Near
            OBVIOUS
        <3>1. CASE i = Len(kept) + 1
            <4>1. j \in 1..Len(kept)
                BY <1>3, <2>2, <3>1
            <4> QED
                BY <2>2, <2>3, <3>1, <4>1
        <3>2. CASE j = Len(kept) + 1
            <4>1. i \in 1..Len(kept)
                BY <1>3, <2>2, <3>2
            <4> QED
                BY <2>2, <2>3, <3>2, <4>1
        <3>3. CASE i # Len(kept) + 1 /\ j # Len(kept) + 1
            <4>1. i \in 1..Len(kept) /\ j \in 1..Len(kept)
                BY <1>3, <2>2, <3>3
            <4> QED
                BY <2>2, <4>1 DEF FitsInv
        <3> QED
            BY <3>1, <3>2, <3>3
    <2>5. Len(context) \in Nat
        BY LenProperties DEF QuestionInv, Retrieved
    <2>6. Len(context') <= Len(kept') /\ \A k \in 1..Len(context') : context'[k] = kept'[k]
        BY <1>2, <1>3, <2>2, <2>5 DEF FitsInv
    <2> QED
        BY <1>2, <2>4, <2>6 DEF FitsInv
<1> QED
    BY <1>4, <1>5

LEMMA TakeFits ==
    ASSUME QuestionInv, FitsInv, Take
    PROVE  FitsInv'
<1>1. /\ kept \in Seq(Chunks) /\ context \in Seq(Chunks) /\ tokens \in Nat
      /\ Len(kept) \in Nat /\ Len(context) \in Nat /\ Len(context) < Len(kept)
    BY LenProperties DEF QuestionInv, Retrieved, Take, MoreToTake
<1> DEFINE c == kept[Len(context) + 1]
<1>2. c \in Chunks /\ Fits(c)
    BY <1>1, ElementOfSeq DEF Take, MoreToTake
<1>3. kept' = kept /\ context' = Append(context, c) /\ tokens' = tokens + Size[c]
    BY DEF Take
<1>4. Size[c] \in Nat /\ MaxTokens \in Nat
    BY <1>2, ChunksAssumption, LimitsAssumption
<1>5. c = kept[Len(context) + 1]
    OBVIOUS
<1> HIDE DEF c
<1>6. /\ Len(context') = Len(context) + 1 /\ context'[Len(context) + 1] = c
      /\ \A k \in 1..Len(context) : context'[k] = context[k]
    BY <1>1, <1>2, <1>3, AppendProperties
<1>7. tokens' = TotalSize(context')
    BY <1>1, <1>2, <1>3, TotalSizeOfOneMore DEF FitsInv
<1>8. Len(context') <= Len(kept') /\ \A k \in 1..Len(context') : context'[k] = kept'[k]
    BY <1>1, <1>3, <1>5, <1>6 DEF FitsInv
<1>9. tokens' <= MaxTokens \/ Len(context') = 1
    <2>1. context = <<>> => Len(context) = 0
        BY EmptySeq
    <2> QED
        BY <1>2, <1>3, <1>6, <2>1 DEF Fits
<1> QED
    BY <1>3, <1>7, <1>8, <1>9 DEF FitsInv

LEMMA FitsStep == QuestionInv /\ FitsInv /\ [Next]_vars => FitsInv'
<1> SUFFICES ASSUME QuestionInv, FitsInv, [Next]_vars PROVE FitsInv'
    OBVIOUS
<1>1. CASE UNCHANGED <<kept, context, tokens>>
    BY <1>1 DEF FitsInv
<1>2. CASE Compare \/ Take
    BY <1>2, CompareFits, TakeFits
<1>3. CASE Embed \/ DatabaseFails \/ LookUpCitations \/ Search \/ Begin
    BY <1>1, <1>3 DEF Embed, DatabaseFails, LookUpCitations, Search, Begin, retrieval
<1>4. CASE EmbedMalformed \/ AskMalformed
    BY <1>1, <1>4 DEF EmbedMalformed, AskMalformed, CallMalformed, retrieval
<1>5. CASE \E error \in Retryable \cup {"refused"} : EmbedFails(error) \/ AskFails(error)
    BY <1>1, <1>5 DEF EmbedFails, AskFails, CallFails, retrieval
<1>6. CASE \E reply \in Replies : Accept(reply) \/ Correct(reply) \/ GiveUp(reply)
    BY <1>1, <1>6 DEF Accept, Correct, GiveUp, retrieval
<1>7. CASE (\E c \in Chunks : Disturb(c)) \/ UNCHANGED vars
    BY <1>1, <1>7 DEF Disturb, vars, retrieval
<1> QED
    BY <1>2, <1>3, <1>4, <1>5, <1>6, <1>7 DEF Next, Step

\* However many candidates there are, what is put to the model has no two that
\* say nearly the same, and is within the budget unless it is one chunk.
THEOREM ContextAlwaysFits == Spec => []ContextFits
<1>1. QuestionInv /\ FitsInv => ContextFits
    <2> SUFFICES ASSUME QuestionInv, FitsInv PROVE ContextFits
        OBVIOUS
    <2>1. context \in Seq(Chunks) /\ Len(context) \in Nat /\ Len(kept) \in Nat /\ DOMAIN context = 1..Len(context)
        BY LenProperties DEF QuestionInv, Retrieved
    <2>2. \A i, j \in DOMAIN context : i # j => {context[i], context[j]} \notin Near
        BY <2>1 DEF FitsInv
    <2> QED
        BY <2>2 DEF FitsInv, ContextFits
<1> QED
    BY <1>1, QuestionInvariant, FitsStarts, FitsStep, PTL DEF Spec

-----------------------------------------------------------------------------
(* Citations. *)

\* The valid citations are the retrieved chunks that the reply cites, once each.
LEMMA ValidOnes ==
    ASSUME NEW cited \in Seq(Chunks \cup {Junk}), context \in Seq(Chunks)
    PROVE  /\ MembershipValid(cited) \in Seq(Chunks)
           /\ IsInjective(MembershipValid(cited))
           /\ ToSet(MembershipValid(cited)) = ToSet(cited) \cap ToSet(context)
<1> DEFINE I == FirstMentions(cited)
           valid == MembershipValid(cited)
<1>1. I \in SUBSET DOMAIN cited /\ Len(cited) \in Nat /\ DOMAIN cited = 1..Len(cited)
    BY LenProperties DEF FirstMentions
<1>2. \A i, j \in I : cited[i] = cited[j] => i = j
    <2> SUFFICES ASSUME NEW i \in I, NEW j \in I, cited[i] = cited[j] PROVE i = j
        OBVIOUS
    <2>1. i \notin 1..(j - 1) /\ j \notin 1..(i - 1)
        BY DEF FirstMentions
    <2>2. i \in 1..Len(cited) /\ j \in 1..Len(cited)
        BY <1>1
    <2> QED
        BY <1>1, <2>1, <2>2
<1>3. ToSet(context) \subseteq Chunks
    BY LenProperties, ElementOfSeq DEF ToSet
<1>4. {cited[i] : i \in I} = ToSet(cited) \cap ToSet(context)
    <2>1. {cited[i] : i \in I} \subseteq ToSet(cited) \cap ToSet(context)
        BY DEF FirstMentions, ToSet
    <2>2. ASSUME NEW c \in ToSet(cited) \cap ToSet(context) PROVE c \in {cited[i] : i \in I}
        <3> DEFINE S == {i \in 1..Len(cited) : cited[i] = c}
        <3>1. S # {} /\ S \in SUBSET Nat
            BY <1>1, <2>2 DEF ToSet
        <3>2. PICK i \in S : \A j \in S : i <= j
            <4> HIDE DEF S
            <4> QED
                BY <3>1, Least
        <3>3. \A j \in 1..(i - 1) : cited[j] # cited[i]
            BY <1>1, <3>2
        <3>4. i \in I
            BY <1>1, <2>2, <3>2, <3>3 DEF FirstMentions
        <3> QED
            BY <3>2, <3>4
    <2> QED
        BY <2>1, <2>2
<1>5. /\ valid \in Seq(Chunks \cup {Junk}) /\ Len(valid) = Cardinality(I)
      /\ ToSet(valid) = {cited[i] : i \in I}
      /\ IsInjective(valid)
    <2> HIDE DEF I
    <2> QED
        BY <1>1, <1>2, PickedSeq DEF MembershipValid, I
<1>6. valid \in Seq(Chunks)
    <2> HIDE DEF I, valid
    <2>1. \A k \in 1..Len(valid) : valid[k] \in Chunks
        <3>1. \A k \in 1..Len(valid) : valid[k] \in ToSet(valid)
            BY <1>5, LenProperties DEF ToSet
        <3> QED
            BY <1>3, <1>4, <1>5, <3>1
    <2> QED
        BY <1>5, <2>1
<1> QED
    BY <1>4, <1>5, <1>6

\* A list of distinct entries has one entry when its set has.
LEMMA LoneEntry ==
    ASSUME NEW S, NEW seq \in Seq(S)
    PROVE  /\ seq = <<>> <=> ToSet(seq) = {}
           /\ IsInjective(seq) => (Len(seq) = 1 <=> Cardinality(ToSet(seq)) = 1)
           /\ Len(seq) = 1 => ToSet(seq) = {seq[1]}
<1>1. Len(seq) \in Nat /\ DOMAIN seq = 1..Len(seq)
    BY LenProperties
<1>2. ToSet(seq) = {seq[i] : i \in 1..Len(seq)}
    BY <1>1 DEF ToSet
<1>3. seq = <<>> <=> Len(seq) = 0
    BY EmptySeq
<1>4. Len(seq) = 0 <=> ToSet(seq) = {}
    <2>1. Len(seq) # 0 => seq[1] \in ToSet(seq)
        BY <1>1, <1>2
    <2> QED
        BY <1>1, <1>2, <2>1
<1>5. Len(seq) = 1 => ToSet(seq) = {seq[1]}
    BY <1>2
<1>6. Len(seq) = 1 => Cardinality(ToSet(seq)) = 1
    BY <1>5, FS_Singleton
<1>7. ASSUME IsInjective(seq), Cardinality(ToSet(seq)) = 1 PROVE Len(seq) = 1
    <2>1. IsFiniteSet(1..Len(seq)) /\ Cardinality(1..Len(seq)) = Len(seq)
        BY <1>1, FS_Interval
    <2>2. seq \in Bijection(1..Len(seq), ToSet(seq))
        BY <1>1, <1>2, <1>7 DEF IsInjective, Bijection, Injection, Surjection
    <2>3. Cardinality(ToSet(seq)) = Cardinality(1..Len(seq))
        BY <2>1, <2>2, FS_Bijection DEF ExistsBijection
    <2> QED
        BY <1>7, <2>1, <2>3
<1> QED
    BY <1>3, <1>4, <1>5, <1>6, <1>7

\* A reply with a citation worth keeping is not ungrounded: what is rejected of an
\* ungrounded one is all that it cited.
LEMMA AllRejected ==
    ASSUME NEW reply \in Replies, context \in Seq(Chunks), Ungrounded(reply)
    PROVE  Rejected(reply) = ToSet(reply.cited)
<1> DEFINE valid == MembershipValid(reply.cited)
<1>1. reply.cited \in Seq(Chunks \cup {Junk})
    BY CitedIn
<1>2. /\ valid \in Seq(Chunks) /\ ToSet(valid) = ToSet(reply.cited) \cap ToSet(context)
    BY <1>1, ValidOnes
<1>3. CASE Unsupported(reply) # {}
    <2>1. Len(valid) = 1
        BY <1>3 DEF Unsupported
    <2>2. ToSet(valid) = {valid[1]}
        <3> HIDE DEF valid
        <3> QED
            BY <1>2, <2>1, LoneEntry
    <2>3. Unsupported(reply) \subseteq ToSet(reply.cited) \cap ToSet(context)
        BY DEF Unsupported
    <2> QED
        BY <1>2, <1>3, <2>2, <2>3 DEF Rejected
<1>4. CASE Unsupported(reply) = {}
    <2>1. valid = <<>>
        BY <1>4 DEF Ungrounded, ValidCitations
    <2>2. ToSet(valid) = {}
        <3> HIDE DEF valid
        <3> QED
            BY <1>2, <2>1, LoneEntry
    <2> QED
        BY <1>2, <1>4, <2>2 DEF Rejected
<1> QED
    BY <1>3, <1>4

\* What an accepted reply cites.
Grounded ==
    /\ result.citations \in Seq(Chunks) /\ result.citations # <<>>
    /\ IsInjective(result.citations)
    /\ ToSet(result.citations) \subseteq ToSet(context)
    /\ Cardinality(ToSet(result.citations)) = 1 => Supported(result.words, result.citations[1])

GroundInv ==
    /\ corpus \in [Chunks -> {"as_found", "rewritten", "gone"}]
    /\ phase = "citing" /\ ~result.not_in_corpus => Grounded
    /\ GroundedAnswers
    /\ EveryCitationShown
    /\ CorrectionsAreComplete

LEMMA GroundStarts == Init => GroundInv
<1> SUFFICES ASSUME Init PROVE GroundInv
    OBVIOUS
<1>1. DOMAIN corrections = {}
    BY DEF Init
<1> QED
    BY <1>1 DEF Init, GroundInv, GroundedAnswers, EveryCitationShown, CorrectionsAreComplete, NoResponse

LEMMA AcceptGrounds ==
    ASSUME QuestionInv, GroundInv, NEW reply \in Replies, Accept(reply)
    PROVE  GroundInv'
<1> DEFINE valid == MembershipValid(reply.cited)
<1>1. context \in Seq(Chunks) /\ reply.cited \in Seq(Chunks \cup {Junk})
    BY CitedIn DEF QuestionInv, Retrieved
<1>2. phase' = "citing" /\ UNCHANGED <<context, corrections, corpus, response>> /\ response = NoResponse
    BY DEF Accept, retrieval, QuestionInv
<1>3. /\ result'.words = reply.words /\ result'.citations = ValidCitations(reply)
      /\ result'.not_in_corpus = reply.not_in_corpus
    BY DEF Accept
<1>4. ASSUME ~reply.not_in_corpus PROVE Grounded'
    <2>1. ValidCitations(reply) # <<>>
        BY <1>4 DEF Accept, Ungrounded
    <2>2. Unsupported(reply) = {} /\ result'.citations = valid /\ valid # <<>>
        BY <1>3, <1>4, <2>1 DEF ValidCitations
    <2>3. /\ valid \in Seq(Chunks) /\ IsInjective(valid)
          /\ ToSet(valid) = ToSet(reply.cited) \cap ToSet(context)
        BY <1>1, ValidOnes
    <2>4. ASSUME Cardinality(ToSet(valid)) = 1 PROVE Supported(reply.words, valid[1])
        <3>1. Len(valid) = 1 /\ valid[1] \in ToSet(valid)
            <4> HIDE DEF valid
            <4> QED
                BY <2>3, <2>4, LoneEntry
        <3> QED
            BY <2>2, <2>3, <3>1 DEF Unsupported
    <2> HIDE DEF valid
    <2> QED
        BY <1>2, <1>3, <2>2, <2>3, <2>4 DEF Grounded, Supported
<1> QED
    BY <1>2, <1>3, <1>4 DEF GroundInv, GroundedAnswers, EveryCitationShown, CorrectionsAreComplete, NoResponse

LEMMA CorrectGrounds ==
    ASSUME QuestionInv, GroundInv, NEW reply \in Replies, Correct(reply)
    PROVE  GroundInv'
<1> DEFINE told == [cited |-> ToSet(reply.cited), rejected |-> Rejected(reply)]
           Told == [cited : SUBSET (Chunks \cup {Junk}), rejected : SUBSET (Chunks \cup {Junk})]
<1>1. context \in Seq(Chunks) /\ corrections \in Seq(Told)
    BY DEF QuestionInv, Retrieved, Counted
<1>2. phase = "asking" /\ UNCHANGED <<phase, corpus, response, result, context>> /\ response = NoResponse
    BY DEF Correct, retrieval, QuestionInv
<1>3. corrections' = Append(corrections, told)
    BY DEF Correct
<1>4. told.rejected = told.cited
    BY <1>1, AllRejected DEF Correct
<1>5. told \in Told
    <2>1. ToSet(reply.cited) \subseteq Chunks \cup {Junk}
        BY CitedIn, LenProperties, ElementOfSeq DEF ToSet
    <2> QED
        BY <1>4, <2>1
<1> HIDE DEF told, Told
<1>6. Len(corrections) \in Nat /\ DOMAIN corrections = 1..Len(corrections)
    BY <1>1, LenProperties
<1>7. /\ DOMAIN corrections' = 1..(Len(corrections) + 1) /\ corrections'[Len(corrections) + 1] = told
      /\ \A i \in 1..Len(corrections) : corrections'[i] = corrections[i]
    <2>1. /\ corrections' \in Seq(Told) /\ Len(corrections') = Len(corrections) + 1
          /\ corrections'[Len(corrections) + 1] = told
          /\ \A i \in 1..Len(corrections) : corrections'[i] = corrections[i]
        BY <1>1, <1>3, <1>5, AppendProperties
    <2> QED
        BY <2>1, LenProperties
<1>8. CorrectionsAreComplete'
    BY <1>4, <1>6, <1>7 DEF GroundInv, CorrectionsAreComplete
<1> QED
    BY <1>2, <1>8 DEF GroundInv, GroundedAnswers, EveryCitationShown, NoResponse

LEMMA LookUpGrounds ==
    ASSUME QuestionInv, GroundInv, LookUpCitations
    PROVE  GroundInv'
<1> DEFINE seen == [i \in DOMAIN LookedUp |-> [chunk |-> LookedUp[i], row |-> corpus[LookedUp[i]]]]
<1>1. phase = "citing" /\ phase' = "answered" /\ UNCHANGED <<context, corrections, corpus, result>>
    BY DEF LookUpCitations, Respond, retrieval
<1>2. response' = Says(IF result.not_in_corpus THEN "not_covered" ELSE "answer", seen)
    BY DEF LookUpCitations, Respond
<1> HIDE DEF seen
<1>3. /\ response'.says = IF result.not_in_corpus THEN "not_covered" ELSE "answer"
      /\ response'.citations = seen
    BY <1>2 DEF Says
<1>4. GroundedAnswers'
    BY <1>1, <1>3 DEF GroundInv, Grounded, GroundedAnswers, Supported
<1>5. ASSUME Grounded PROVE EveryCitationShown'
    <2> DEFINE cited == result.citations
               stored == {i \in DOMAIN cited : corpus[cited[i]] # "gone"}
    <2>1. cited \in Seq(Chunks) /\ Len(cited) \in Nat /\ DOMAIN cited = 1..Len(cited)
        BY <1>5, LenProperties DEF Grounded
    <2>2. stored \in SUBSET DOMAIN cited /\ LookedUp = Picked(cited, stored)
        BY DEF LookedUp
    <2> HIDE DEF stored
    <2>3. /\ LookedUp \in Seq(Chunks) /\ DOMAIN LookedUp = 1..Cardinality(stored)
          /\ ToSet(LookedUp) = {cited[i] : i \in stored}
        BY <2>1, <2>2, PickedSeq, LenProperties
    <2>4. ASSUME NEW l \in 1..Cardinality(stored), NEW k \in 1..(l - 1)
          PROVE  \E j \in stored : \E i \in stored : i < j /\ LookedUp[k] = cited[i] /\ LookedUp[l] = cited[j]
        <3>1. cited \in Seq(Chunks) /\ stored \in SUBSET DOMAIN cited /\ LookedUp = Picked(cited, stored)
            BY <2>1, <2>2
        <3> HIDE DEF cited
        <3>2. \E j \in stored : \E i \in stored :
                 i < j /\ Picked(cited, stored)[k] = cited[i] /\ Picked(cited, stored)[l] = cited[j]
            <4>1. cited \in Seq(Chunks) /\ stored \in SUBSET DOMAIN cited
                BY <3>1
            <4>2. l \in 1..Cardinality(stored) /\ k \in 1..(l - 1)
                BY <2>4
            <4> QED
                BY <4>1, <4>2, PickedInOrder, SMTT(60)
        <3> QED
            BY <3>1, <3>2, Zenon
    <2>5. Cardinality(stored) \in Nat
        BY <2>1, <2>2, PickedSeq
    <2>6. /\ DOMAIN seen = 1..Cardinality(stored)
          /\ \A i \in 1..Cardinality(stored) :
                seen[i] = [chunk |-> LookedUp[i], row |-> corpus[LookedUp[i]]]
        BY <2>3 DEF seen
    <2>7. ToSet(LookedUp) = {d \in ToSet(cited) : corpus[d] # "gone"}
        BY <2>3 DEF stored, ToSet
    <2>8. ToSet(seen) = {[chunk |-> c, row |-> corpus[c]] : c \in ToSet(LookedUp)}
        BY <2>3, <2>6 DEF ToSet
    <2>9. ASSUME NEW l \in DOMAIN seen, NEW k \in 1..(l - 1)
          PROVE  \E j \in DOMAIN cited : \E i \in 1..(j - 1) :
                     seen[k].chunk = cited[i] /\ seen[l].chunk = cited[j]
        <3>1. l \in 1..Cardinality(stored) /\ k \in 1..Cardinality(stored)
            BY <2>5, <2>6
        <3>2. PICK j \in stored : \E i \in stored : i < j /\ LookedUp[k] = cited[i] /\ LookedUp[l] = cited[j]
            BY <2>4, <3>1
        <3>3. PICK i \in stored : i < j /\ LookedUp[k] = cited[i] /\ LookedUp[l] = cited[j]
            BY <3>2
        <3>4. j \in DOMAIN cited /\ i \in 1..(j - 1)
            BY <2>1, <2>2, <3>3
        <3>5. seen[k].chunk = LookedUp[k] /\ seen[l].chunk = LookedUp[l]
            BY <2>6, <3>1
        <3> QED
            BY <3>3, <3>4, <3>5
    <2>10. response'.citations = seen /\ UNCHANGED <<result, corpus>>
        BY <1>1, <1>3
    <2> QED
        BY <2>7, <2>8, <2>9, <2>10 DEF EveryCitationShown
<1>6. EveryCitationShown'
    <2>1. CASE result.not_in_corpus
        BY <1>3, <2>1 DEF EveryCitationShown
    <2>2. CASE ~result.not_in_corpus
        BY <1>1, <1>5, <2>2 DEF GroundInv
    <2> QED
        BY <2>1, <2>2
<1> QED
    BY <1>1, <1>4, <1>6 DEF GroundInv, CorrectionsAreComplete

\* Another row changes only while there is no response.
LEMMA DisturbGrounds ==
    ASSUME QuestionInv, GroundInv, NEW c \in Chunks, Disturb(c)
    PROVE  GroundInv'
<1>1. UNCHANGED <<phase, context, corrections, result, response>> /\ response = NoResponse
    BY DEF Disturb, retrieval, QuestionInv
<1>2. corpus' \in [Chunks -> {"as_found", "rewritten", "gone"}]
    BY DEF Disturb, GroundInv
<1> QED
    BY <1>1, <1>2 DEF GroundInv, Grounded, GroundedAnswers, EveryCitationShown, CorrectionsAreComplete, Supported, NoResponse

\* Nothing else accepts a reply, corrects one or answers.
LEMMA OthersGround ==
    ASSUME QuestionInv, GroundInv, UNCHANGED <<corrections, result, corpus>>,
           \/ phase' # "citing" /\ response' = response /\ phase # "answered"
           \/ phase' = "answered" /\ response'.says # "answer"
    PROVE  GroundInv'
<1>1. response'.says # "answer"
    BY DEF QuestionInv, NoResponse
<1>2. phase' # "citing"
    OBVIOUS
<1> QED
    BY <1>1, <1>2 DEF GroundInv, GroundedAnswers, EveryCitationShown, CorrectionsAreComplete

LEMMA GroundStep == QuestionInv /\ GroundInv /\ [Next]_vars => GroundInv'
<1> SUFFICES ASSUME QuestionInv, GroundInv, [Next]_vars PROVE GroundInv'
    OBVIOUS
<1>1. CASE Search \/ Compare \/ Take \/ Embed
    BY <1>1, OthersGround DEF Search, Compare, Take, Embed
<1>2. CASE Begin
    BY <1>2, OthersGround DEF Begin, Respond, Says
<1>3. CASE DatabaseFails
    BY <1>3, OthersGround DEF DatabaseFails, Respond, Error
<1>4. CASE EmbedMalformed \/ AskMalformed
    BY <1>4, OthersGround DEF EmbedMalformed, AskMalformed, CallMalformed, Respond, Error
<1>5. ASSUME NEW error \in Retryable \cup {"refused"}, EmbedFails(error) \/ AskFails(error) PROVE GroundInv'
    BY <1>5, OthersGround DEF EmbedFails, AskFails, CallFails, Respond, Error
<1>6. ASSUME NEW reply \in Replies, Accept(reply) \/ Correct(reply) PROVE GroundInv'
    BY <1>6, AcceptGrounds, CorrectGrounds
<1>7. ASSUME NEW reply \in Replies, GiveUp(reply) PROVE GroundInv'
    BY <1>7, OthersGround DEF GiveUp, Respond, Says
<1>8. CASE LookUpCitations
    BY <1>8, LookUpGrounds
<1>9. CASE \E c \in Chunks : Disturb(c)
    BY <1>9, DisturbGrounds
<1>10. CASE UNCHANGED vars
    BY <1>10 DEF vars, retrieval, GroundInv, Grounded, GroundedAnswers, EveryCitationShown, CorrectionsAreComplete, Supported
<1> QED
    BY <1>1, <1>2, <1>3, <1>4, <1>5, <1>6, <1>7, <1>8, <1>9, <1>10 DEF Next, Step

LEMMA GroundInvariant == Spec => []GroundInv
    BY QuestionInvariant, GroundStarts, GroundStep, PTL DEF Spec

\* Every answer rests on chunks that were put to the model, each cited once and a
\* lone one supporting it (generation.py:638-661).
THEOREM AnswersAlwaysGrounded == Spec => []GroundedAnswers
<1>1. GroundInv => GroundedAnswers
    BY DEF GroundInv
<1> QED
    BY <1>1, GroundInvariant, PTL

\* The caller of an answer is shown every cited chunk that is still stored, in the
\* reply's order, and no other, whatever is deleted or rewritten (query.py:191-232).
THEOREM CitationsAlwaysShown == Spec => []EveryCitationShown
<1>1. GroundInv => EveryCitationShown
    BY DEF GroundInv
<1> QED
    BY <1>1, GroundInvariant, PTL

\* No reply with a citation worth keeping is thrown away: the model is told to
\* correct all that it cited (generation.py:559-577).
THEOREM CorrectionsAlwaysComplete == Spec => []CorrectionsAreComplete
<1>1. GroundInv => CorrectionsAreComplete
    BY DEF GroundInv
<1> QED
    BY <1>1, GroundInvariant, PTL

-----------------------------------------------------------------------------
(* What EveryQuestionEnds rests on beside fairness: every step of the      *)
(* request leaves less to do.                                              *)

Ahead == [embedding |-> 5, searching |-> 4, selecting |-> 3, asking |-> 2, citing |-> 1, answered |-> 0]

\* What the request has before it, the outermost first: its stages, candidates
\* to compare, kept ones to take, replies to ask for, and tries of a call.
ToDo ==
    <<Ahead[phase],
      IF phase = "selecting" THEN Len(ranked) - walked ELSE 0,
      IF phase = "selecting" THEN Len(kept) - Len(context) ELSE 0,
      IF phase = "asking" THEN MaxGrounding - grounding ELSE 0,
      IF phase \in {"embedding", "asking"} THEN MaxAttempts - attempt ELSE 0>>

\* An outer loop counts for more than those in it.
Less(a, b) == \E k \in 1..5 : a[k] < b[k] /\ \A j \in 1..(k - 1) : a[j] = b[j]

\* What others do to the chunks meanwhile gives the request nothing more to do.
EveryStepCounts ==
    [][/\ ToDo \in [1..5 -> Nat] /\ ToDo' \in [1..5 -> Nat]
       /\ Less(ToDo', ToDo) \/ (ToDo' = ToDo /\ \E c \in Chunks : Disturb(c))]_vars

\* T are those in S that have least at k.
LeastAt(T, S, k) == \A a \in T, b \in S : a[k] <= b[k] /\ (b[k] = a[k] => b \in T)

LEMMA Narrow ==
    ASSUME NEW S \in SUBSET [1..5 -> Nat], S # {}, NEW k \in 1..5
    PROVE  \E T \in SUBSET [1..5 -> Nat] : T # {} /\ T \subseteq S /\ LeastAt(T, S, k)
<1> DEFINE N == {a[k] : a \in S}
<1>1. N \in SUBSET Nat /\ N # {}
    OBVIOUS
<1>2. PICK n \in N : \A i \in N : n <= i
    BY <1>1, Least
<1> DEFINE T == {a \in S : a[k] = n}
<1>3. T \in SUBSET [1..5 -> Nat] /\ T # {} /\ T \subseteq S
    BY <1>2
<1>4. LeastAt(T, S, k)
    BY <1>2 DEF LeastAt
<1> QED BY <1>3, <1>4

\* One can only do less finitely often: every set of such has a least one.
LEMMA LessEnds ==
    ASSUME NEW S \in SUBSET [1..5 -> Nat], S # {}
    PROVE  \E a \in S : \A b \in S : ~Less(b, a)
<1>0. 1 \in 1..5 /\ 2 \in 1..5 /\ 3 \in 1..5 /\ 4 \in 1..5 /\ 5 \in 1..5
    OBVIOUS
<1>1. PICK T1 \in SUBSET [1..5 -> Nat] : T1 # {} /\ T1 \subseteq S /\ LeastAt(T1, S, 1)
    BY <1>0, Narrow, Zenon
<1>2. PICK T2 \in SUBSET [1..5 -> Nat] : T2 # {} /\ T2 \subseteq T1 /\ LeastAt(T2, T1, 2)
    BY <1>0, <1>1, Narrow, Zenon
<1>3. PICK T3 \in SUBSET [1..5 -> Nat] : T3 # {} /\ T3 \subseteq T2 /\ LeastAt(T3, T2, 3)
    BY <1>0, <1>2, Narrow, Zenon
<1>4. PICK T4 \in SUBSET [1..5 -> Nat] : T4 # {} /\ T4 \subseteq T3 /\ LeastAt(T4, T3, 4)
    BY <1>0, <1>3, Narrow, Zenon
<1>5. PICK T5 \in SUBSET [1..5 -> Nat] : T5 # {} /\ T5 \subseteq T4 /\ LeastAt(T5, T4, 5)
    BY <1>0, <1>4, Narrow, Zenon
<1>6. PICK a \in T5 : a \in S
    BY <1>1, <1>2, <1>3, <1>4, <1>5
<1>7. ASSUME NEW b \in S, Less(b, a)
      PROVE  FALSE
    <2>1. PICK k \in 1..5 : b[k] < a[k] /\ \A j \in 1..(k - 1) : b[j] = a[j]
        BY <1>7 DEF Less
    <2>2. a \in T1 /\ a \in T2 /\ a \in T3 /\ a \in T4
        BY <1>2, <1>3, <1>4, <1>5, <1>6
    <2>3. \A j \in 1..5 : a[j] \in Nat /\ b[j] \in Nat
        OBVIOUS
    <2>4. a[1] <= b[1] /\ (b[1] = a[1] => b \in T1)
        BY <1>1, <1>7, <2>2 DEF LeastAt
    <2>5. b \in T1 => a[2] <= b[2] /\ (b[2] = a[2] => b \in T2)
        BY <1>2, <1>7, <2>2 DEF LeastAt
    <2>6. b \in T2 => a[3] <= b[3] /\ (b[3] = a[3] => b \in T3)
        BY <1>3, <1>7, <2>2 DEF LeastAt
    <2>7. b \in T3 => a[4] <= b[4] /\ (b[4] = a[4] => b \in T4)
        BY <1>4, <1>7, <2>2 DEF LeastAt
    <2>8. b \in T4 => a[5] <= b[5]
        BY <1>5, <1>6 DEF LeastAt
    <2>9. /\ 1 < k => b[1] = a[1]
          /\ 2 < k => b[2] = a[2]
          /\ 3 < k => b[3] = a[3]
          /\ 4 < k => b[4] = a[4]
        BY <2>1
    <2> QED BY <2>1, <2>3, <2>4, <2>5, <2>6, <2>7, <2>8, <2>9
<1> QED BY <1>6, <1>7

\* Less, by the first number that differs.
LEMMA LessBy ==
    ASSUME NEW a, NEW b
    PROVE  /\ a[1] < b[1] => Less(a, b)
           /\ a[1] = b[1] /\ a[2] < b[2] => Less(a, b)
           /\ a[1] = b[1] /\ a[2] = b[2] /\ a[3] < b[3] => Less(a, b)
           /\ a[1] = b[1] /\ a[2] = b[2] /\ a[3] = b[3] /\ a[4] < b[4] => Less(a, b)
           /\ a[1] = b[1] /\ a[2] = b[2] /\ a[3] = b[3] /\ a[4] = b[4] /\ a[5] < b[5] => Less(a, b)
<1>1. a[1] < b[1] => Less(a, b)
    <2>1. 1..(1 - 1) = {}
        OBVIOUS
    <2> QED BY <2>1 DEF Less
<1>2. a[1] = b[1] /\ a[2] < b[2] => Less(a, b)
    <2>1. 1..(2 - 1) = {1}
        OBVIOUS
    <2> QED BY <2>1 DEF Less
<1>3. a[1] = b[1] /\ a[2] = b[2] /\ a[3] < b[3] => Less(a, b)
    <2>1. 1..(3 - 1) = {1, 2}
        OBVIOUS
    <2> QED BY <2>1 DEF Less
<1>4. a[1] = b[1] /\ a[2] = b[2] /\ a[3] = b[3] /\ a[4] < b[4] => Less(a, b)
    <2>1. 1..(4 - 1) = {1, 2, 3}
        OBVIOUS
    <2> QED BY <2>1 DEF Less
<1>5. a[1] = b[1] /\ a[2] = b[2] /\ a[3] = b[3] /\ a[4] = b[4] /\ a[5] < b[5] => Less(a, b)
    <2>1. 1..(5 - 1) = {1, 2, 3, 4}
        OBVIOUS
    <2> QED BY <2>1 DEF Less
<1> QED BY <1>1, <1>2, <1>3, <1>4, <1>5

LEMMA ToDoType == QuestionInv /\ ChoiceInv => ToDo \in [1..5 -> Nat]
<1> SUFFICES ASSUME QuestionInv, ChoiceInv
             PROVE  ToDo \in [1..5 -> Nat]
    OBVIOUS
<1>0. MaxAttempts \in Nat /\ MaxGrounding \in Nat
    BY LimitsAssumption
<1>1. \A n \in Nat : \A i \in 0..n : n - i \in Nat
    OBVIOUS
<1>2. phase = "selecting" => Len(ranked) - walked \in Nat
    BY <1>1, LenProperties DEF QuestionInv, Retrieved
<1>3. phase = "selecting" => Len(kept) - Len(context) \in Nat
    <2>1. Len(kept) \in Nat /\ Len(context) \in Nat
        BY LenProperties DEF QuestionInv, Retrieved
    <2>2. phase = "selecting" => Len(context) <= Len(kept)
        BY DEF ChoiceInv, Chosen, Fronted
    <2> QED BY <2>1, <2>2
<1>4. phase = "asking" => MaxGrounding - grounding \in Nat
    BY <1>0 DEF QuestionInv, Asking
<1>5. phase \in {"embedding", "asking"} => MaxAttempts - attempt \in Nat
    BY <1>0 DEF QuestionInv, Counted, Embedding, Asking
<1>6. Ahead[phase] \in Nat
    BY DEF QuestionInv, Phases, Ahead
<1>7. /\ ToDo[1] \in Nat /\ ToDo[2] \in Nat /\ ToDo[3] \in Nat /\ ToDo[4] \in Nat /\ ToDo[5] \in Nat
    BY <1>2, <1>3, <1>4, <1>5, <1>6 DEF ToDo
<1>8. ToDo = [k \in 1..5 |-> ToDo[k]]
    BY DEF ToDo
<1>9. \A k \in 1..5 : ToDo[k] \in Nat
    BY <1>7
<1> QED BY <1>8, <1>9

\* A stage is left for a later one.
LEMMA LeavingCounts ==
    ASSUME phase \in Phases, phase' \in Phases, Ahead[phase'] < Ahead[phase]
    PROVE  Less(ToDo', ToDo)
<1>1. ToDo'[1] < ToDo[1]
    BY DEF ToDo, Ahead
<1> QED BY <1>1, LessBy

LEMMA TryCounts ==
    ASSUME QuestionInv, NEW error \in Retryable \cup {"refused"}, EmbedFails(error) \/ AskFails(error)
    PROVE  Less(ToDo', ToDo)
<1>0. MaxAttempts \in Nat /\ attempt \in Nat
    BY LimitsAssumption DEF QuestionInv, Counted
<1>1. PICK service \in {"embed", "chat"} : CallFails(service, error)
    BY DEF EmbedFails, AskFails
<1>2. phase \in {"embedding", "asking"} /\ attempt' = attempt + 1 /\ UNCHANGED grounding
    BY <1>1 DEF EmbedFails, AskFails, CallFails
<1>3. CASE error \in Retryable /\ ~Exhausted
    <2>1. phase' = phase
        BY <1>1, <1>3 DEF CallFails
    <2>2. /\ ToDo'[1] = ToDo[1] /\ ToDo'[2] = ToDo[2] /\ ToDo'[3] = ToDo[3] /\ ToDo'[4] = ToDo[4]
          /\ ToDo'[5] < ToDo[5]
        BY <1>0, <1>2, <2>1 DEF ToDo
    <2> QED BY <2>2, LessBy
<1>4. CASE ~(error \in Retryable /\ ~Exhausted)
    <2>1. phase' = "answered"
        BY <1>1, <1>4 DEF CallFails, Respond
    <2> QED BY <1>2, <2>1, LeavingCounts DEF Ahead, Phases
<1> QED BY <1>3, <1>4

LEMMA SelectingCounts ==
    ASSUME QuestionInv, Compare \/ Take
    PROVE  Less(ToDo', ToDo)
<1>0. Len(ranked) \in Nat /\ Len(kept) \in Nat /\ Len(context) \in Nat /\ walked \in Nat /\ context \in Seq(Chunks)
    BY LenProperties DEF QuestionInv, Retrieved
<1>1. CASE Compare
    <2>1. phase = "selecting" /\ phase' = phase /\ ranked' = ranked /\ walked' = walked + 1
        BY <1>1 DEF Compare
    <2>2. ToDo'[1] = ToDo[1] /\ ToDo'[2] < ToDo[2]
        BY <1>0, <2>1 DEF ToDo
    <2> QED BY <2>2, LessBy
<1>2. CASE Take
    <2>1. /\ phase = "selecting" /\ phase' = phase /\ ranked' = ranked /\ walked' = walked /\ kept' = kept
          /\ context' = Append(context, kept[Len(context) + 1])
        BY <1>2 DEF Take
    <2>2. Len(context') = Len(context) + 1
        BY <1>0, <2>1
    <2>3. ToDo'[1] = ToDo[1] /\ ToDo'[2] = ToDo[2] /\ ToDo'[3] < ToDo[3]
        BY <1>0, <2>1, <2>2 DEF ToDo
    <2> QED BY <2>3, LessBy
<1> QED BY <1>1, <1>2

LEMMA CorrectingCounts ==
    ASSUME QuestionInv, NEW reply \in Replies, Correct(reply)
    PROVE  Less(ToDo', ToDo)
<1>1. /\ phase = "asking" /\ phase' = phase /\ grounding' = grounding + 1
      /\ MaxGrounding \in Nat /\ grounding \in Nat
    BY LimitsAssumption DEF Correct, QuestionInv, Counted
<1>2. ToDo'[1] = ToDo[1] /\ ToDo'[2] = ToDo[2] /\ ToDo'[3] = ToDo[3] /\ ToDo'[4] < ToDo[4]
    BY <1>1 DEF ToDo
<1> QED BY <1>2, LessBy

LEMMA StageCounts ==
    ASSUME phase \in Phases,
           \/ Embed \/ EmbedMalformed \/ DatabaseFails \/ Search \/ Begin \/ AskMalformed \/ LookUpCitations
           \/ \E reply \in Replies : Accept(reply) \/ GiveUp(reply)
    PROVE  Less(ToDo', ToDo)
<1>1. \/ phase = "embedding" /\ phase' \in {"searching", "answered"}
      \/ phase = "searching" /\ phase' \in {"selecting", "answered"}
      \/ phase = "selecting" /\ phase' \in {"asking", "answered"}
      \/ phase = "asking" /\ phase' \in {"citing", "answered"}
      \/ phase = "citing" /\ phase' = "answered"
    BY DEF Embed, EmbedMalformed, DatabaseFails, Search, Begin, AskMalformed, LookUpCitations, Accept, GiveUp,
           CallMalformed, Respond
<1>2. phase' \in Phases /\ Ahead[phase'] < Ahead[phase]
    BY <1>1 DEF Ahead, Phases
<1> QED BY <1>2, LeavingCounts

LEMMA DisturbCountsNot == (\E c \in Chunks : Disturb(c)) => ToDo' = ToDo
    BY DEF Disturb, ToDo, retrieval

\* Whatever fails, whatever the model replies and whatever becomes of the chunks
\* meanwhile, every step of a request leaves less to do in an order in which nothing
\* can become less for ever (LessEnds), for any number of chunks and any limits: the
\* loops of retrieve and generate_answer all end.
THEOREM QuestionsRunOut == Spec => EveryStepCounts
<1>0. QuestionInv /\ ChoiceInv => ToDo \in [1..5 -> Nat]
    BY ToDoType
<1>1. QuestionInv /\ [Next]_vars
          => [Less(ToDo', ToDo) \/ (ToDo' = ToDo /\ \E c \in Chunks : Disturb(c))]_vars
    <2> SUFFICES ASSUME QuestionInv, Next
                 PROVE  Less(ToDo', ToDo) \/ (ToDo' = ToDo /\ \E c \in Chunks : Disturb(c))
        OBVIOUS
    <2>1. phase \in Phases
        BY DEF QuestionInv
    <2>2. CASE Step
        BY <2>1, <2>2, TryCounts, SelectingCounts, CorrectingCounts, StageCounts DEF Step
    <2>3. CASE \E c \in Chunks : Disturb(c)
        BY <2>3, DisturbCountsNot
    <2> QED BY <2>2, <2>3 DEF Next
<1>2. Spec => []ChoiceInv
    BY ChoiceStarts, ChoiceStep, QuestionInvariant, PTL DEF Spec
<1>3. (ToDo \in [1..5 -> Nat]) /\ (ToDo \in [1..5 -> Nat])' /\ [Less(ToDo', ToDo) \/ (ToDo' = ToDo /\ \E c \in Chunks : Disturb(c))]_vars
          => [/\ ToDo \in [1..5 -> Nat] /\ ToDo' \in [1..5 -> Nat]
              /\ Less(ToDo', ToDo) \/ (ToDo' = ToDo /\ \E c \in Chunks : Disturb(c))]_vars
    OBVIOUS
<1> QED BY <1>0, <1>1, <1>2, <1>3, QuestionInvariant, PTL DEF Spec, EveryStepCounts
=============================================================================
