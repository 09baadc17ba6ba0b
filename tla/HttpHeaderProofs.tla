--------------------------- MODULE HttpHeaderProofs ---------------------------
(***************************************************************************)
(* Proofs about HttpHeader, for all well-formed answers, any number of     *)
(* them, and reads that cut their bytes anywhere: every request receives   *)
(* its own answer, header and body (AnswersAreCut), and the process ends   *)
(* because of what the server said or of a read that is too short          *)
(* (EndsExplained).                                                        *)
(*                                                                         *)
(* What the request at the front has received, the buffer and the socket   *)
(* are, put together, the bytes of the answers from the one at the front   *)
(* on (CutRight).  The blank line that ends a header is its only one, and  *)
(* the four tests of parseData() find it wherever a read has cut it        *)
(* (EndIsFound), unless the body begins like its second half.              *)
(***************************************************************************)
EXTENDS HttpHeader, SequenceTheorems, WellFoundedInduction, TLAPS

-----------------------------------------------------------------------------
(* Bytes and sequences *)

\* The bytes of a connection.
Bytes == Lines \cup {CR, LF, Byte}

\* What a line, CR and LF are told apart by.
LEMMA BytesDiffer ==
  /\ CR # LF /\ Byte # CR /\ Byte # LF
  /\ \A l \in Lines : l # CR /\ l # LF
  /\ CR \in Bytes /\ LF \in Bytes /\ Byte \in Bytes /\ Lines \subseteq Bytes
<1>1. CR.name = "CR" /\ LF.name = "LF" /\ Byte.name = "byte"
  BY DEF CR, LF, Byte, Line
<1>2. \A l \in Lines : l.name # "CR" /\ l.name # "LF"
  BY DEF Lines
<1>3. CR # LF /\ Byte # CR /\ Byte # LF
  BY <1>1
<1>4. \A l \in Lines : l # CR /\ l # LF
  BY <1>1, <1>2
<1> QED
  BY <1>3, <1>4 DEF Bytes

\* What a prefix is, place by place.
LEMMA PrefixFacts ==
  ASSUME NEW S, NEW s \in Seq(S), NEW t \in Seq(S)
  PROVE  IsPrefix(s, t) <=> Len(s) <= Len(t) /\ \A i \in 1..Len(s) : s[i] = t[i]
<1>1. Len(s) \in Nat /\ Len(t) \in Nat
  BY LenProperties
<1>2. SubSeq(s, 1, Len(s)) = s
  BY SubSeqFull
<1> SUFFICES ASSUME Len(s) <= Len(t)
             PROVE  s = SubSeq(t, 1, Len(s)) <=> \A i \in 1..Len(s) : s[i] = t[i]
  BY <1>2 DEF IsPrefix
<1>3. \A i \in 1..Len(s) : t[i] \in S
  BY <1>1, ElementOfSeq
<1>4. /\ SubSeq(t, 1, Len(s)) \in Seq(S)
      /\ Len(SubSeq(t, 1, Len(s))) = Len(s)
      /\ \A i \in 1..Len(s) : SubSeq(t, 1, Len(s))[i] = t[i]
  <2>1. /\ SubSeq(t, 1, Len(s)) \in Seq(S)
        /\ Len(SubSeq(t, 1, Len(s))) = IF 1 <= Len(s) THEN Len(s) - 1 + 1 ELSE 0
        /\ \A i \in 1..(Len(s) - 1 + 1) : SubSeq(t, 1, Len(s))[i] = t[1 + i - 1]
    BY <1>1, <1>3, SubSeqProperties, 1 \in Int, Len(s) \in Int
  <2>2. \A i \in 1..Len(s) : 1 + i - 1 = i
    BY <1>1
  <2> QED
    BY <1>1, <2>1, <2>2
<1> DEFINE u == SubSeq(t, 1, Len(s))
<1> HIDE DEF u
<1>5. (\A i \in 1..Len(s) : s[i] = u[i]) => s = u
  BY <1>4, SeqEqual DEF u
<1> QED
  BY <1>4, <1>5 DEF u

\* The places of a sequence from its end: suffixes are defined by them.
LEMMA ReverseFacts ==
  ASSUME NEW S, NEW s \in Seq(S)
  PROVE  /\ Reverse(s) \in Seq(S) /\ Len(Reverse(s)) = Len(s)
         /\ \A i \in 1..Len(s) : Reverse(s)[i] = s[(Len(s) - i) + 1]
<1>1. Len(s) \in Nat
  BY LenProperties
<1>2. \A i \in 1..Len(s) : (Len(s) - i) + 1 \in 1..Len(s)
  BY <1>1
<1>3. \A i \in 1..Len(s) : s[(Len(s) - i) + 1] \in S
  BY <1>2, ElementOfSeq
<1> DEFINE r == [i \in 1..Len(s) |-> s[(Len(s) - i) + 1]]
<1>4. r \in [1..Len(s) -> S]
  BY <1>3
<1>5. r \in Seq(S) /\ DOMAIN r = 1..Len(s)
  BY <1>1, <1>4, SeqDef
<1>6. Len(r) = Len(s)
  BY <1>1, <1>5, LenProperties
<1>7. \A i \in 1..Len(s) : r[i] = s[(Len(s) - i) + 1]
  OBVIOUS
<1> QED
  BY <1>5, <1>6, <1>7 DEF Reverse

\* What a suffix is, place by place.
LEMMA SuffixFacts ==
  ASSUME NEW S, NEW s \in Seq(S), NEW t \in Seq(S)
  PROVE  IsSuffix(s, t) <=>
           Len(s) <= Len(t) /\ \A i \in 1..Len(s) : s[i] = t[Len(t) - Len(s) + i]
<1>1. Len(s) \in Nat /\ Len(t) \in Nat
  BY LenProperties
<1>2. /\ Reverse(s) \in Seq(S) /\ Len(Reverse(s)) = Len(s)
      /\ \A i \in 1..Len(s) : Reverse(s)[i] = s[(Len(s) - i) + 1]
      /\ Reverse(t) \in Seq(S) /\ Len(Reverse(t)) = Len(t)
      /\ \A i \in 1..Len(t) : Reverse(t)[i] = t[(Len(t) - i) + 1]
  BY ReverseFacts
<1> DEFINE u == Reverse(s)
           v == Reverse(t)
<1>3. IsSuffix(s, t) <=> Len(s) <= Len(t) /\ \A i \in 1..Len(s) : u[i] = v[i]
  BY <1>2, PrefixFacts DEF IsSuffix
<1> SUFFICES ASSUME Len(s) <= Len(t)
             PROVE  (\A i \in 1..Len(s) : u[i] = v[i])
                      <=> \A i \in 1..Len(s) : s[i] = t[Len(t) - Len(s) + i]
  BY <1>3
<1> HIDE DEF u, v
<1>4. \A i \in 1..Len(s) : u[i] = s[(Len(s) - i) + 1] /\ v[i] = t[(Len(t) - i) + 1]
  BY <1>1, <1>2 DEF u, v
<1>5. ASSUME \A i \in 1..Len(s) : u[i] = v[i], NEW i \in 1..Len(s)
      PROVE  s[i] = t[Len(t) - Len(s) + i]
  <2> DEFINE j == (Len(s) - i) + 1
  <2>1. j \in 1..Len(s) /\ (Len(s) - j) + 1 = i /\ (Len(t) - j) + 1 = Len(t) - Len(s) + i
    BY <1>1
  <2> HIDE DEF j
  <2> QED
    BY <1>4, <1>5, <2>1
<1>6. ASSUME \A i \in 1..Len(s) : s[i] = t[Len(t) - Len(s) + i], NEW i \in 1..Len(s)
      PROVE  u[i] = v[i]
  <2> DEFINE j == (Len(s) - i) + 1
  <2>1. j \in 1..Len(s) /\ Len(t) - Len(s) + j = (Len(t) - i) + 1
    BY <1>1
  <2> HIDE DEF j
  <2>2. u[i] = s[j] /\ v[i] = t[(Len(t) - i) + 1]
    BY <1>4 DEF j
  <2> QED
    BY <1>6, <2>1, <2>2
<1> QED
  BY <1>5, <1>6

\* A sequence is cut in two anywhere.
LEMMA CutFacts ==
  ASSUME NEW S, NEW s \in Seq(S), NEW n \in 0..Len(s)
  PROVE  /\ SubSeq(s, 1, n) \in Seq(S) /\ SubSeq(s, n + 1, Len(s)) \in Seq(S)
         /\ Len(SubSeq(s, 1, n)) = n /\ Len(SubSeq(s, n + 1, Len(s))) = Len(s) - n
         /\ \A i \in 1..n : SubSeq(s, 1, n)[i] = s[i]
         /\ \A i \in 1..(Len(s) - n) : SubSeq(s, n + 1, Len(s))[i] = s[n + i]
         /\ SubSeq(s, 1, n) \o SubSeq(s, n + 1, Len(s)) = s
<1>1. Len(s) \in Nat /\ n \in Nat /\ n <= Len(s)
  BY LenProperties
<1>2. \A i \in 1..Len(s) : s[i] \in S
  BY ElementOfSeq
<1>3. /\ SubSeq(s, 1, n) \in Seq(S)
      /\ Len(SubSeq(s, 1, n)) = IF 1 <= n THEN n - 1 + 1 ELSE 0
      /\ \A i \in 1..(n - 1 + 1) : SubSeq(s, 1, n)[i] = s[1 + i - 1]
  <2>1. \A i \in 1..n : s[i] \in S
    BY <1>1, <1>2
  <2> QED
    BY <1>1, <2>1, SubSeqProperties, 1 \in Int, n \in Int
<1>4. /\ SubSeq(s, n + 1, Len(s)) \in Seq(S)
      /\ Len(SubSeq(s, n + 1, Len(s))) = IF n + 1 <= Len(s) THEN Len(s) - (n + 1) + 1 ELSE 0
      /\ \A i \in 1..(Len(s) - (n + 1) + 1) : SubSeq(s, n + 1, Len(s))[i] = s[(n + 1) + i - 1]
  <2>1. \A i \in (n + 1)..Len(s) : s[i] \in S
    BY <1>1, <1>2
  <2>2. n + 1 \in Int /\ Len(s) \in Int
    BY <1>1
  <2> QED
    BY <2>1, <2>2, SubSeqProperties
<1>5. n - 1 + 1 = n /\ Len(s) - (n + 1) + 1 = Len(s) - n
      /\ (\A i \in 1..n : 1 + i - 1 = i) /\ \A i \in 1..(Len(s) - n) : (n + 1) + i - 1 = n + i
  BY <1>1
<1>6. Len(SubSeq(s, 1, n)) = n /\ Len(SubSeq(s, n + 1, Len(s))) = Len(s) - n
  <2>1. Len(SubSeq(s, 1, n)) = n
    BY <1>1, <1>3
  <2>2. Len(SubSeq(s, n + 1, Len(s))) = Len(s) - n
    BY <1>1, <1>4
  <2> QED
    BY <2>1, <2>2
<1>7. SubSeq(s, 1, n) \o SubSeq(s, n + 1, Len(s)) = SubSeq(s, 1, Len(s))
  <2>1. 1 \in 1..(Len(s) + 1) /\ n \in (1 - 1)..Len(s) /\ Len(s) \in n..Len(s)
    BY <1>1
  <2> QED
    BY <2>1, ConcatAdjacentSubSeq
<1>8. SubSeq(s, 1, Len(s)) = s
  BY SubSeqFull
<1> QED
  BY <1>3, <1>4, <1>5, <1>6, <1>7, <1>8

\* The parts of the blank line.
LEMMA BlankFacts ==
  ASSUME NEW n \in 1..3
  PROVE  /\ BLANK \in Seq(Bytes) /\ Len(BLANK) = 4
         /\ BLANK[1] = CR /\ BLANK[2] = LF /\ BLANK[3] = CR /\ BLANK[4] = LF
         /\ SubSeq(BLANK, 1, n) \in Seq(Bytes) /\ Len(SubSeq(BLANK, 1, n)) = n
         /\ SubSeq(BLANK, n + 1, 4) \in Seq(Bytes) /\ Len(SubSeq(BLANK, n + 1, 4)) = 4 - n
         /\ \A i \in 1..n : SubSeq(BLANK, 1, n)[i] = BLANK[i]
         /\ \A i \in 1..(4 - n) : SubSeq(BLANK, n + 1, 4)[i] = BLANK[n + i]
<1>1. BLANK \in Seq(Bytes) /\ Len(BLANK) = 4
      /\ BLANK[1] = CR /\ BLANK[2] = LF /\ BLANK[3] = CR /\ BLANK[4] = LF
  BY BytesDiffer DEF BLANK
<1> DEFINE b == BLANK
<1> HIDE DEF b
<1>2. /\ b \in Seq(Bytes) /\ n \in 0..Len(b) /\ Len(b) = 4
      /\ \A m : SubSeq(b, m, Len(b)) = SubSeq(b, m, 4)
  BY <1>1 DEF b
<1>3. /\ SubSeq(b, 1, n) \in Seq(Bytes) /\ SubSeq(b, n + 1, Len(b)) \in Seq(Bytes)
      /\ Len(SubSeq(b, 1, n)) = n /\ Len(SubSeq(b, n + 1, Len(b))) = Len(b) - n
      /\ \A i \in 1..n : SubSeq(b, 1, n)[i] = b[i]
      /\ \A i \in 1..(Len(b) - n) : SubSeq(b, n + 1, Len(b))[i] = b[n + i]
  BY <1>2, CutFacts
<1> QED
  BY <1>1, <1>2, <1>3 DEF b

\* Every set of numbers has a least one.
LEMMA LeastElement ==
  ASSUME NEW T, T \subseteq Nat, T # {}
  PROVE  \E n \in T : \A m \in T : n <= m
<1>1. PICK n \in T : \A m \in T : ~(<<m, n>> \in OpToRel(<, Nat))
  BY NatLessThanWellFounded, WFMin
<1>2. \A m \in T : ~(m < n)
  BY <1>1 DEF OpToRel
<1> QED
  BY <1>2

\* Induction over the numbers, of a set of them.
LEMMA AllNumbers ==
  ASSUME NEW T, 0 \in T, \A n \in Nat : n \in T => n + 1 \in T
  PROVE  Nat \subseteq T
<1> SUFFICES ASSUME Nat \ T # {}
             PROVE  FALSE
  OBVIOUS
<1>1. PICK n \in Nat \ T : \A m \in Nat \ T : n <= m
  BY LeastElement
<1>2. n # 0 /\ n - 1 \in Nat /\ (n - 1) + 1 = n /\ ~(n <= n - 1)
  BY <1>1
<1>3. n - 1 \in T
  BY <1>1, <1>2
<1> QED
  BY <1>1, <1>2, <1>3

-----------------------------------------------------------------------------
(* Folds *)

\* What a header is read into.
Hdr == [statusCode : Int, keepAliveMax : Int, keepAliveTimeout : Int,
        contentLength : Int, connectionClose : Int]

\* The first value of g and its steps up to n.
Iterates(g, n, base, step) == g[0] = base /\ \A k \in 1..n : g[k] = step[k][g[k - 1]]

\* They can be given.
LEMMA IterationExists ==
  ASSUME NEW R, NEW n \in Nat, NEW base \in R, NEW step \in [1..n -> [R -> R]]
  PROVE  \E g \in [0..n -> R] : Iterates(g, n, base, step)
<1> USE DEF Iterates
<1> DEFINE Goes(m) == \E g \in [0..m -> R] : Iterates(g, m, base, step)
           T == {m \in Nat : m <= n => Goes(m)}
<1>1. 0 \in T
  <2> DEFINE g == [k \in 0..0 |-> base]
  <2>1. g \in [0..0 -> R] /\ g[0] = base
    OBVIOUS
  <2> HIDE DEF g
  <2>2. \A k \in 1..0 : g[k] = step[k][g[k - 1]]
    OBVIOUS
  <2>3. Goes(0)
    BY <2>1, <2>2
  <2> HIDE DEF Goes
  <2> QED
    BY <2>3
<1>2. ASSUME NEW m \in Nat, m \in T, m + 1 <= n
      PROVE  Goes(m + 1)
  <2>1. m <= n
    BY <1>2
  <2>2. PICK g \in [0..m -> R] : g[0] = base /\ \A k \in 1..m : g[k] = step[k][g[k - 1]]
    BY <1>2, <2>1
  <2> DEFINE h == [k \in 0..(m + 1) |-> IF k = m + 1 THEN step[m + 1][g[m]] ELSE g[k]]
  <2>3. step[m + 1][g[m]] \in R
    <3>1. m + 1 \in 1..n /\ m \in 0..m
      BY <1>2
    <3> QED
      BY <2>2, <3>1
  <2>4. \A k \in 0..(m + 1) : k # m + 1 => k \in 0..m
    BY <1>2
  <2>5. h \in [0..(m + 1) -> R]
    BY <2>2, <2>3, <2>4
  <2>6. h[0] = base
    BY <1>2, <2>2
  <2>7. ASSUME NEW k \in 1..(m + 1)
        PROVE  h[k] = step[k][h[k - 1]]
    <3>1. k \in 0..(m + 1) /\ k - 1 \in 0..(m + 1) /\ k - 1 # m + 1
      BY <1>2
    <3>2. CASE k = m + 1
      <4>1. k - 1 = m
        BY <1>2, <3>2
      <4> QED
        BY <3>1, <3>2, <4>1
    <3>3. CASE k # m + 1
      <4>1. k \in 1..m
        BY <1>2, <3>3
      <4> QED
        BY <2>2, <3>1, <3>3, <4>1
    <3> QED
      BY <3>2, <3>3
  <2> HIDE DEF h
  <2> QED
    BY <2>5, <2>6, <2>7
<1> HIDE DEF Goes
<1>3. ASSUME NEW m \in Nat, m \in T
      PROVE  m + 1 \in T
  BY <1>2, <1>3
<1>4. n \in T
  <2> HIDE DEF T
  <2> QED
    BY <1>1, <1>3, AllNumbers
<1>5. Goes(n)
  BY <1>4
<1> QED
  BY <1>5 DEF Goes

\* Numbers up to m have a greatest one.
LEMMA Greatest ==
  ASSUME NEW m \in Nat, NEW s \in SUBSET (1..m), s # {}
  PROVE  Max(s) \in s /\ \A y \in s : Max(s) >= y
<1> DEFINE T == {k \in Nat : \A y \in s : y <= k}
<1>1. m \in T
  OBVIOUS
<1>2. PICK k \in T : \A j \in T : k <= j
  <2> HIDE DEF T
  <2>1. T \subseteq Nat
    BY DEF T
  <2> QED
    BY <1>1, <2>1, LeastElement
<1>3. k \in s
  <2> SUFFICES ASSUME k \notin s
               PROVE  FALSE
    OBVIOUS
  <2>0. k \in Nat /\ \A y \in s : y <= k /\ y # k /\ y \in Nat /\ y > 0
    BY <1>2
  <2>1. k - 1 \in Nat /\ ~(k <= k - 1) /\ \A y \in s : y <= k - 1
    <3>1. PICK y \in s : TRUE
      OBVIOUS
    <3>2. k > 0
      BY <2>0, <3>1
    <3> HIDE DEF T
    <3> QED
      BY <2>0, <3>2
  <2>2. k - 1 \in T
    BY <2>1
  <2> QED
    BY <1>2, <2>1, <2>2
<1>4. k \in s /\ \A y \in s : k >= y
  BY <1>3
<1> HIDE DEF T
<1> QED
  BY <1>4 DEF Max

\* The values of a fold over numbers up to m.
IsFold(it, m, base, step) ==
  \A s \in SUBSET (1..m) :
    it[s] = IF s = {} THEN base ELSE step[Max(s)][it[s \ {Max(s)}]]

\* A fold over the numbers up to n, whatever it applies.
LEMMA FoldExists ==
  ASSUME NEW R, NEW n \in Nat, NEW base \in R, NEW step \in [1..n -> [R -> R]]
  PROVE  \E it \in [SUBSET (1..n) -> R] : IsFold(it, n, base, step)
<1> DEFINE Folds(it, m) == IsFold(it, m, base, step)
           Goes(m) == \E it \in [SUBSET (1..m) -> R] : Folds(it, m)
           T == {m \in Nat : m <= n => Goes(m)}
<1> USE DEF IsFold
<1>1. 0 \in T
  <2> DEFINE it == [s \in SUBSET (1..0) |-> base]
  <2>1. it \in [SUBSET (1..0) -> R]
    OBVIOUS
  <2>2. \A s \in SUBSET (1..0) : s = {}
    OBVIOUS
  <2>3. Folds(it, 0)
    BY <2>2
  <2>4. Goes(0)
    BY <2>1, <2>3
  <2> HIDE DEF Goes
  <2> QED
    BY <2>4
<1>2. ASSUME NEW m \in Nat, m \in T, m + 1 <= n
      PROVE  Goes(m + 1)
  <2>1. m <= n
    BY <1>2
  <2>2. PICK it \in [SUBSET (1..m) -> R] : Folds(it, m)
    BY <1>2, <2>1
  <2> DEFINE new == [s \in SUBSET (1..(m + 1)) |->
                       IF m + 1 \in s THEN step[m + 1][it[s \ {m + 1}]] ELSE it[s]]
  <2>3. ASSUME NEW s \in SUBSET (1..(m + 1))
        PROVE  /\ s \ {m + 1} \in SUBSET (1..m)
               /\ m + 1 \notin s => s \in SUBSET (1..m)
    <3>1. \A y \in 1..(m + 1) : y # m + 1 => y \in 1..m
      BY <1>2
    <3> QED
      BY <3>1
  <2>4. m + 1 \in 1..n
    BY <1>2
  <2>5. new \in [SUBSET (1..(m + 1)) -> R]
    BY <2>2, <2>3, <2>4
  <2>6. ASSUME NEW s \in SUBSET (1..(m + 1)), s # {}
        PROVE  new[s] = step[Max(s)][new[s \ {Max(s)}]]
    <3>1. s \ {Max(s)} \in SUBSET (1..(m + 1))
      OBVIOUS
    <3>2. CASE m + 1 \in s
      <4>1. Max(s) \in s /\ Max(s) >= m + 1
        BY <1>2, <2>6, <3>2, Greatest, m + 1 \in Nat
      <4>2. Max(s) = m + 1
        <5>1. Max(s) \in 1..(m + 1)
          BY <4>1
        <5> QED
          BY <1>2, <4>1, <5>1
      <4>3. new[s \ {m + 1}] = it[s \ {m + 1}]
        BY <3>1, <4>2
      <4> QED
        BY <3>2, <4>2, <4>3
    <3>3. CASE m + 1 \notin s
      <4>1. s \in SUBSET (1..m)
        BY <2>3, <3>3
      <4>2. it[s] = step[Max(s)][it[s \ {Max(s)}]]
        BY <2>2, <2>6, <4>1
      <4>3. new[s \ {Max(s)}] = it[s \ {Max(s)}] /\ new[s] = it[s]
        BY <3>1, <3>3
      <4> QED
        BY <4>2, <4>3
    <3> QED
      BY <3>2, <3>3
  <2>7. new[{}] = base
    <3>1. {} \in SUBSET (1..m) /\ {} \in SUBSET (1..(m + 1))
      OBVIOUS
    <3> QED
      BY <2>2, <3>1
  <2> HIDE DEF new
  <2>8. Folds(new, m + 1)
    BY <2>6, <2>7
  <2> QED
    BY <2>5, <2>8
<1> HIDE DEF Goes
<1>3. ASSUME NEW m \in Nat, m \in T
      PROVE  m + 1 \in T
  BY <1>2, <1>3
<1>4. n \in T
  <2> HIDE DEF T
  <2> QED
    BY <1>1, <1>3, AllNumbers
<1>5. Goes(n)
  BY <1>4
<1> QED
  BY <1>5 DEF Goes

\* What a line of each name does.
LEMMA ReadLineCases ==
  ASSUME NEW h \in Hdr, NEW l \in Bytes
  PROVE  LET new == ReadLine(h, l)
         IN  /\ new \in Hdr
             /\ new.statusCode = IF l.name = "status" THEN l.n ELSE h.statusCode
             /\ new.contentLength = IF l.name = "length" THEN l.n ELSE h.contentLength
             /\ new.connectionClose = IF l.name = "close" THEN 1
                                      ELSE IF l.name = "keepAlive" THEN 0 ELSE h.connectionClose
             /\ new.keepAliveMax = IF l.name = "limits" THEN l.n ELSE h.keepAliveMax
             /\ new.keepAliveTimeout = IF l.name = "limits" THEN 1000000 * l.m
                                       ELSE h.keepAliveTimeout
<1>1. l.n \in Int /\ l.m \in Int
  <2>1. \A k \in Lines : k.n \in Int /\ k.m \in Int
    BY DEF Lines
  <2>2. \A k \in {CR, LF, Byte} : k.n \in Int /\ k.m \in Int
    BY DEF CR, LF, Byte, Line
  <2> QED
    BY <2>1, <2>2 DEF Bytes
<1>2. CASE l.name = "status"
  <2>1. ReadLine(h, l) = [h EXCEPT !.statusCode = l.n]
    BY <1>2 DEF ReadLine
  <2> QED
    BY SMT, <1>1, <1>2, <2>1 DEF Hdr
<1>3. CASE l.name = "length"
  <2>1. ReadLine(h, l) = [h EXCEPT !.contentLength = l.n]
    BY <1>3 DEF ReadLine
  <2> QED
    BY SMT, <1>1, <1>3, <2>1 DEF Hdr
<1>4. CASE l.name = "close"
  <2>1. ReadLine(h, l) = [h EXCEPT !.connectionClose = 1]
    BY <1>4 DEF ReadLine
  <2> QED
    BY SMT, <1>1, <1>4, <2>1 DEF Hdr
<1>5. CASE l.name = "keepAlive"
  <2>1. ReadLine(h, l) = [h EXCEPT !.connectionClose = 0]
    BY <1>5 DEF ReadLine
  <2> QED
    BY SMT, <1>1, <1>5, <2>1 DEF Hdr
<1>6. CASE l.name = "limits"
  <2>1. ReadLine(h, l) = [h EXCEPT !.keepAliveMax = l.n, !.keepAliveTimeout = 1000000 * l.m]
    BY <1>6 DEF ReadLine
  <2>2. 1000000 * l.m \in Int
    BY <1>1
  <2> DEFINE x == 1000000 * l.m
             y == l.n
  <2>3. ReadLine(h, l) = [h EXCEPT !.keepAliveMax = y, !.keepAliveTimeout = x]
    BY <2>1
  <2>4. x \in Int /\ y \in Int
    BY <1>1, <2>2
  <2> HIDE DEF x, y
  <2>5. /\ ReadLine(h, l) \in Hdr
        /\ ReadLine(h, l).keepAliveMax = y /\ ReadLine(h, l).keepAliveTimeout = x
        /\ ReadLine(h, l).statusCode = h.statusCode
        /\ ReadLine(h, l).contentLength = h.contentLength
        /\ ReadLine(h, l).connectionClose = h.connectionClose
    <3> DEFINE g == [h EXCEPT !.keepAliveMax = y]
    <3>1. /\ g \in Hdr /\ g.keepAliveMax = y /\ g.keepAliveTimeout = h.keepAliveTimeout
          /\ g.statusCode = h.statusCode /\ g.contentLength = h.contentLength
          /\ g.connectionClose = h.connectionClose
      BY SMT, <2>4 DEF Hdr
    <3>2. ReadLine(h, l) = [g EXCEPT !.keepAliveTimeout = x]
      BY <2>3
    <3> HIDE DEF g
    <3> QED
      BY SMT, <2>4, <3>1, <3>2 DEF Hdr
  <2> QED
    BY <1>6, <2>5 DEF x, y
<1>7. CASE l.name \notin {"status", "length", "close", "keepAlive", "limits"}
  <2>1. /\ l.name # "status" /\ l.name # "length" /\ l.name # "close"
        /\ l.name # "keepAlive" /\ l.name # "limits"
    BY <1>7
  <2>2. ReadLine(h, l) = h
    BY <2>1 DEF ReadLine
  <2> QED
    BY <2>1, <2>2
<1> QED
  BY <1>2, <1>3, <1>4, <1>5, <1>6, <1>7

\* The header read line by line.
LEMMA ReadFacts ==
  ASSUME NEW bytes \in Seq(Bytes)
  PROVE  \E g \in [0..Len(bytes) -> Hdr] :
           /\ g[0] = NewHdr
           /\ \A k \in 1..Len(bytes) : g[k] = ReadLine(g[k - 1], bytes[k])
           /\ FoldLeft(ReadLine, NewHdr, bytes) = g[Len(bytes)]
<1> DEFINE n == Len(bytes)
           step == [k \in 1..n |-> [h \in Hdr |-> ReadLine(h, bytes[k])]]
           Reads(it) == it = [s \in SUBSET DOMAIN bytes |->
                                IF s = {} THEN NewHdr
                                ELSE ReadLine(it[s \ {Max(s)}], bytes[Max(s)])]
           iter == CHOOSE it : Reads(it)
<1>1. n \in Nat /\ DOMAIN bytes = 1..n /\ \A k \in 1..n : bytes[k] \in Bytes
  BY LenProperties, ElementOfSeq
<1>2. NewHdr \in Hdr
  BY DEF NewHdr, Hdr
<1>3. step \in [1..n -> [Hdr -> Hdr]]
  BY <1>1, ReadLineCases
<1>4. FoldLeft(ReadLine, NewHdr, bytes) = iter[1..n]
  BY <1>1 DEF FoldLeft, MapThenFoldSet
<1>5. PICK it \in [SUBSET (1..n) -> Hdr] : IsFold(it, n, NewHdr, step)
  <2> HIDE DEF step, n
  <2>1. n \in Nat
    BY <1>1
  <2> QED
    BY <1>2, <1>3, <2>1, FoldExists
<1>6. ASSUME NEW s \in SUBSET (1..n), s # {}
      PROVE  step[Max(s)][it[s \ {Max(s)}]] = ReadLine(it[s \ {Max(s)}], bytes[Max(s)])
  <2>1. Max(s) \in 1..n
    BY <1>1, <1>6, Greatest
  <2>2. it[s \ {Max(s)}] \in Hdr
    OBVIOUS
  <2> QED
    BY <2>1, <2>2
<1>7. Reads(it)
  BY <1>1, <1>5, <1>6 DEF IsFold
<1>8. Reads(iter)
  BY <1>7
<1>9. \A s \in SUBSET (1..n) :
        iter[s] = IF s = {} THEN NewHdr ELSE ReadLine(iter[s \ {Max(s)}], bytes[Max(s)])
  BY <1>1, <1>8
<1> HIDE DEF iter
<1> DEFINE g == [k \in 0..n |-> iter[1..k]]
<1>10. ASSUME NEW k \in 1..n
       PROVE  iter[1..k] = ReadLine(iter[1..(k - 1)], bytes[k])
  <2>0. k \in Nat /\ k >= 1 /\ k <= n /\ n \in Nat
    BY <1>1
  <2>1. 1..k \in SUBSET (1..n) /\ 1..k # {} /\ k \in 1..k /\ k \in Nat
    <3> HIDE DEF n
    <3>1. \A y \in 1..k : y \in 1..n
      BY <2>0
    <3>2. k \in 1..k
      BY <2>0
    <3> QED
      BY <2>0, <3>1, <3>2
  <2>2. Max(1..k) \in 1..k /\ Max(1..k) >= k
    BY <2>1, Greatest, 1..k \in SUBSET (1..k)
  <2>3. Max(1..k) = k
    BY <1>1, <2>2
  <2>4. (1..k) \ {k} = 1..(k - 1)
    BY <1>1
  <2> QED
    BY <1>9, <2>1, <2>3, <2>4
<1>11. iter[1..0] = NewHdr
  <2>1. 1..0 = {} /\ {} \in SUBSET (1..n)
    OBVIOUS
  <2> QED
    BY <1>9, <2>1
<1>12. \A k \in 0..n : iter[1..k] \in Hdr
  <2> DEFINE T == {k \in Nat : k <= n => iter[1..k] \in Hdr}
  <2>1. 0 \in T
    BY <1>2, <1>11
  <2>2. ASSUME NEW k \in Nat, k \in T
        PROVE  k + 1 \in T
    <3>1. CASE k + 1 <= n
      <4>1. k <= n /\ k + 1 \in 1..n /\ (k + 1) - 1 = k
        BY <1>1, <3>1
      <4>2. iter[1..k] \in Hdr
        BY <2>2, <4>1
      <4>3. iter[1..(k + 1)] = ReadLine(iter[1..k], bytes[k + 1])
        BY <1>10, <4>1
      <4> QED
        BY <1>1, <4>1, <4>2, <4>3, ReadLineCases
    <3> QED
      BY <3>1
  <2> HIDE DEF T
  <2>3. Nat \subseteq T
    BY <2>1, <2>2, AllNumbers
  <2> QED
    BY <1>1, <2>3 DEF T
<1>13. g \in [0..n -> Hdr] /\ g[0] = NewHdr /\ g[n] = iter[1..n]
  BY <1>1, <1>11, <1>12
<1>14. ASSUME NEW k \in 1..n
       PROVE  g[k] = ReadLine(g[k - 1], bytes[k])
  <2>1. k \in 0..n /\ k - 1 \in 0..n
    BY <1>1
  <2> QED
    BY <1>10, <2>1
<1> HIDE DEF g
<1> QED
  BY <1>4, <1>13, <1>14

-----------------------------------------------------------------------------
(* The bytes of a header *)

\* A sequence of sequences is put together from the left.
LEMMA FlattenFacts ==
  ASSUME NEW S, NEW q \in Seq(Seq(S)), q # <<>>
  PROVE  \E f \in [1..Len(q) -> Seq(S)] :
           /\ f[1] = q[1]
           /\ \A i \in 2..Len(q) : f[i] = f[i - 1] \o q[i]
           /\ FlattenSeq(q) = f[Len(q)]
<1> DEFINE n == Len(q)
           step == [k \in 1..n |-> [s \in Seq(S) |-> IF k = 1 THEN q[k] ELSE s \o q[k]]]
           Flat(f) == f = [i \in 1..Len(q) |-> IF i = 1 THEN q[i] ELSE f[i - 1] \o q[i]]
           flat == CHOOSE f : Flat(f)
<1>1. n \in Nat \ {0} /\ \A i \in 1..n : q[i] \in Seq(S)
  BY EmptySeq, ElementOfSeq
<1>2. step \in [1..n -> [Seq(S) -> Seq(S)]]
  BY <1>1, ConcatProperties
<1>3. <<>> \in Seq(S)
  BY EmptySeq
<1>4. PICK g \in [0..n -> Seq(S)] : Iterates(g, n, <<>>, step)
  <2> HIDE DEF step, n
  <2>1. n \in Nat
    BY <1>1
  <2> QED
    BY <1>2, <1>3, <2>1, IterationExists
<1>5. ASSUME NEW k \in 1..n
      PROVE  g[k] = IF k = 1 THEN q[k] ELSE g[k - 1] \o q[k]
  <2>1. k - 1 \in 0..n
    BY <1>1
  <2>2. g[k - 1] \in Seq(S)
    BY <2>1
  <2> QED
    BY <1>4, <2>2 DEF Iterates
<1> DEFINE f == [i \in 1..n |-> g[i]]
<1>6. ASSUME NEW i \in 1..n
      PROVE  f[i] = IF i = 1 THEN q[i] ELSE f[i - 1] \o q[i]
  <2>1. CASE i = 1
    BY <1>5, <2>1
  <2>2. CASE i # 1
    <3>1. i - 1 \in 1..n
      BY <1>1, <2>2
    <3> QED
      BY <1>5, <2>2, <3>1
  <2> QED
    BY <2>1, <2>2
<1>7. Flat(f)
  <2>1. DOMAIN f = 1..n
    OBVIOUS
  <2>2. f = [i \in 1..n |-> f[i]]
    OBVIOUS
  <2> HIDE DEF f
  <2> QED
    BY <1>6, <2>2
<1>8. FlattenSeq(q) = flat[n]
  BY <1>1 DEF FlattenSeq
<1>9. Flat(flat)
  <2> HIDE DEF f
  <2> QED
    BY <1>7
<1> HIDE DEF f, flat
<1>10. \A i \in 1..n : flat[i] = IF i = 1 THEN q[i] ELSE flat[i - 1] \o q[i]
  BY <1>9
<1>11. DOMAIN flat = 1..n
  BY <1>9
<1>12. \A i \in 1..n : flat[i] \in Seq(S)
  <2> DEFINE T == {k \in Nat : k \in 1..n => flat[k] \in Seq(S)}
  <2>1. 0 \in T
    OBVIOUS
  <2>2. ASSUME NEW k \in Nat, k \in T
        PROVE  k + 1 \in T
    <3>1. CASE k = 0
      <4>1. 1 \in 1..n /\ k + 1 = 1
        BY <1>1, <3>1
      <4>2. flat[k + 1] = q[1] /\ q[1] \in Seq(S)
        BY <1>1, <1>10, <4>1
      <4> QED
        BY <4>2
    <3>2. CASE k # 0 /\ k + 1 \in 1..n
      <4>1. k \in 1..n /\ (k + 1) - 1 = k /\ k + 1 # 1
        BY <1>1, <3>2
      <4>2. flat[k] \in Seq(S) /\ q[k + 1] \in Seq(S)
        BY <1>1, <2>2, <3>2, <4>1
      <4>3. flat[k + 1] = flat[k] \o q[k + 1]
        BY <1>10, <3>2, <4>1
      <4>4. flat[k] \o q[k + 1] \in Seq(S)
        BY <4>2, ConcatProperties
      <4>5. flat[k + 1] \in Seq(S)
        BY <4>3, <4>4, Zenon
      <4>6. k + 1 \in Nat
        OBVIOUS
      <4> HIDE DEF step, n
      <4> QED
        BY <4>5, <4>6
    <3>3. CASE k + 1 \notin 1..n
      BY <3>3
    <3> QED
      BY <3>1, <3>2, <3>3
  <2> HIDE DEF T
  <2>3. Nat \subseteq T
    BY <2>1, <2>2, AllNumbers
  <2> QED
    BY <1>1, <2>3 DEF T
<1>13. flat \in [1..n -> Seq(S)]
  <2>1. flat = [i \in 1..n |-> flat[i]]
    BY <1>9
  <2> QED
    BY <1>12, <2>1
<1>14. flat[1] = q[1] /\ \A i \in 2..n : flat[i] = flat[i - 1] \o q[i]
  <2>1. 1 \in 1..n /\ \A i \in 2..n : i \in 1..n /\ i # 1
    BY <1>1
  <2> QED
    BY <1>10, <2>1
<1> QED
  BY <1>8, <1>13, <1>14

\* The lines of an answer.
LEMMA AnswerFacts ==
  ASSUME NEW a, WellFormed(a)
  PROVE  /\ a.method \in {"GET", "HEAD"}
         /\ a.lines \in Seq(Lines) /\ Len(a.lines) \in Nat \ {0} /\ DOMAIN a.lines = 1..Len(a.lines)
         /\ a.body \in Seq({CR, LF, Byte}) /\ a.body \in Seq(Bytes) /\ Len(a.body) \in Nat
<1>1. /\ a.method \in {"GET", "HEAD"} /\ a.lines \in Seq(Lines) /\ a.lines # <<>>
      /\ a.body \in Seq({CR, LF, Byte})
  BY DEF WellFormed
<1>2. Len(a.lines) \in Nat \ {0} /\ DOMAIN a.lines = 1..Len(a.lines)
  BY <1>1, EmptySeq, LenProperties
<1>3. {CR, LF, Byte} \subseteq Bytes
  BY BytesDiffer
<1>4. a.body \in Seq(Bytes)
  BY <1>1, <1>3, SeqMonotonic
<1> QED
  BY <1>1, <1>2, <1>4, LenProperties

\* The bytes of a header: line, CR, LF again and again, and the blank line.
LEMMA HeaderShape ==
  ASSUME NEW a, WellFormed(a)
  PROVE  LET H == HeaderBytes(a)
             L == Len(a.lines)
         IN  /\ H \in Seq(Bytes) /\ Len(H) = 3 * L + 2
             /\ \A k \in 1..L : H[3 * k - 2] = a.lines[k] /\ H[3 * k - 1] = CR /\ H[3 * k] = LF
             /\ H[3 * L + 1] = CR /\ H[3 * L + 2] = LF
<1> DEFINE L == Len(a.lines)
           triple(i) == <<a.lines[i], CR, LF>>
           q == [i \in DOMAIN a.lines |-> triple(i)]
<1>1. L \in Nat \ {0} /\ DOMAIN a.lines = 1..L /\ \A i \in 1..L : a.lines[i] \in Lines
  BY AnswerFacts, ElementOfSeq
<1>2. \A i \in 1..L : /\ triple(i) \in Seq(Bytes) /\ Len(triple(i)) = 3
                      /\ triple(i)[1] = a.lines[i] /\ triple(i)[2] = CR /\ triple(i)[3] = LF
  BY <1>1, BytesDiffer
<1> HIDE DEF triple
<1>3. q \in Seq(Seq(Bytes)) /\ Len(q) = L /\ \A i \in 1..L : q[i] = triple(i)
  <2>1. q \in [1..L -> Seq(Bytes)] /\ DOMAIN q = 1..L
    BY <1>1, <1>2
  <2>2. q \in Seq(Seq(Bytes))
    BY <1>1, <2>1, SeqDef
  <2>3. Len(q) = L
    BY <1>1, <2>1, <2>2, LenProperties
  <2> QED
    BY <1>1, <2>2, <2>3
<1>4. q # <<>>
  BY <1>1, <1>3, EmptySeq
<1>5. HeaderBytes(a) = FlattenSeq(q) \o <<CR, LF>>
  BY DEF HeaderBytes, q, triple
<1> HIDE DEF q, L
<1>6. PICK f \in [1..L -> Seq(Bytes)] :
        /\ f[1] = q[1]
        /\ \A i \in 2..L : f[i] = f[i - 1] \o q[i]
        /\ FlattenSeq(q) = f[L]
  BY <1>3, <1>4, FlattenFacts
<1> DEFINE Shaped(k) == /\ f[k] \in Seq(Bytes) /\ Len(f[k]) = 3 * k
                        /\ \A j \in 1..k : /\ f[k][3 * j - 2] = a.lines[j]
                                           /\ f[k][3 * j - 1] = CR /\ f[k][3 * j] = LF
           T == {k \in Nat : k \in 1..L => Shaped(k)}
<1>7. 0 \in T
  OBVIOUS
<1>8. ASSUME NEW k \in Nat, k \in T
      PROVE  k + 1 \in T
  <2> SUFFICES ASSUME k + 1 \in 1..L
               PROVE  Shaped(k + 1)
    OBVIOUS
  <2>1. /\ q[k + 1] \in Seq(Bytes) /\ Len(q[k + 1]) = 3
        /\ q[k + 1][1] = a.lines[k + 1] /\ q[k + 1][2] = CR /\ q[k + 1][3] = LF
    BY <1>2, <1>3
  <2>2. CASE k = 0
    <3>1. f[k + 1] = q[k + 1]
      BY <1>6, <2>2
    <3>2. \A j \in 1..(k + 1) : j = 1 /\ 3 * j - 2 = 1 /\ 3 * j - 1 = 2 /\ 3 * j = 3
      BY <2>2
    <3> QED
      BY <2>1, <2>2, <3>1, <3>2
  <2>3. CASE k # 0
    <3>1. k \in 1..L /\ k + 1 \in 2..L /\ (k + 1) - 1 = k
      BY <1>1, <2>3
    <3>2. Shaped(k)
      BY <1>8, <3>1
    <3>3. f[k + 1] = f[k] \o q[k + 1]
      BY <1>6, <3>1
    <3>4. /\ f[k + 1] \in Seq(Bytes) /\ Len(f[k + 1]) = 3 * k + 3
          /\ \A i \in 1..(3 * k + 3) :
               f[k + 1][i] = IF i <= 3 * k THEN f[k][i] ELSE q[k + 1][i - 3 * k]
      <4>1. f[k] \in Seq(Bytes) /\ Len(f[k]) = 3 * k
        BY <3>2
      <4> HIDE DEF Shaped
      <4>2. /\ f[k] \o q[k + 1] \in Seq(Bytes)
            /\ Len(f[k] \o q[k + 1]) = Len(f[k]) + Len(q[k + 1])
            /\ \A i \in 1..(Len(f[k]) + Len(q[k + 1])) :
                 (f[k] \o q[k + 1])[i] = IF i <= Len(f[k]) THEN f[k][i]
                                         ELSE q[k + 1][i - Len(f[k])]
        BY <2>1, <4>1, ConcatProperties
      <4> QED
        BY <2>1, <3>3, <4>1, <4>2
    <3>5. ASSUME NEW j \in 1..(k + 1)
          PROVE  /\ f[k + 1][3 * j - 2] = a.lines[j]
                 /\ f[k + 1][3 * j - 1] = CR /\ f[k + 1][3 * j] = LF
      <4>1. CASE j = k + 1
        <5>1. /\ 3 * j - 2 = 3 * k + 1 /\ 3 * j - 1 = 3 * k + 2 /\ 3 * j = 3 * k + 3
              /\ (3 * k + 1) - 3 * k = 1 /\ (3 * k + 2) - 3 * k = 2 /\ (3 * k + 3) - 3 * k = 3
          BY <4>1
        <5>2. /\ 3 * k + 1 \in 1..(3 * k + 3) /\ ~(3 * k + 1 <= 3 * k)
              /\ 3 * k + 2 \in 1..(3 * k + 3) /\ ~(3 * k + 2 <= 3 * k)
              /\ 3 * k + 3 \in 1..(3 * k + 3) /\ ~(3 * k + 3 <= 3 * k)
          OBVIOUS
        <5> HIDE DEF Shaped
        <5>3. /\ f[k + 1][3 * k + 1] = q[k + 1][1] /\ f[k + 1][3 * k + 2] = q[k + 1][2]
              /\ f[k + 1][3 * k + 3] = q[k + 1][3]
          BY <3>4, <5>1, <5>2
        <5> QED
          BY <2>1, <4>1, <5>1, <5>3
      <4>2. CASE j # k + 1
        <5>1. /\ j \in 1..k /\ 3 * j - 2 \in 1..(3 * k) /\ 3 * j - 1 \in 1..(3 * k)
              /\ 3 * j \in 1..(3 * k)
          BY <4>2
        <5>2. \A i \in 1..(3 * k) : f[k + 1][i] = f[k][i]
          <6>1. \A i \in 1..(3 * k) : i \in 1..(3 * k + 3) /\ i <= 3 * k
            OBVIOUS
          <6> QED
            BY <3>4, <6>1, Zenon
        <5> QED
          BY <3>2, <5>1, <5>2
      <4> QED
        BY <4>1, <4>2
    <3> QED
      BY <3>4, <3>5
  <2> QED
    BY <2>2, <2>3
<1> HIDE DEF T
<1>9. Shaped(L)
  <2>1. L \in T
    BY <1>1, <1>7, <1>8, AllNumbers
  <2> QED
    BY <1>1, <2>1 DEF T
<1>10. <<CR, LF>> \in Seq(Bytes) /\ Len(<<CR, LF>>) = 2
       /\ <<CR, LF>>[1] = CR /\ <<CR, LF>>[2] = LF
  BY BytesDiffer
<1>11. /\ HeaderBytes(a) \in Seq(Bytes) /\ Len(HeaderBytes(a)) = 3 * L + 2
       /\ \A i \in 1..(3 * L + 2) :
            HeaderBytes(a)[i] = IF i <= 3 * L THEN f[L][i] ELSE <<CR, LF>>[i - 3 * L]
  BY <1>5, <1>6, <1>9, <1>10, ConcatProperties
<1>12. HeaderBytes(a)[3 * L + 1] = CR /\ HeaderBytes(a)[3 * L + 2] = LF
  <2>1. /\ 3 * L + 1 \in 1..(3 * L + 2) /\ ~(3 * L + 1 <= 3 * L) /\ (3 * L + 1) - 3 * L = 1
        /\ 3 * L + 2 \in 1..(3 * L + 2) /\ ~(3 * L + 2 <= 3 * L) /\ (3 * L + 2) - 3 * L = 2
    BY <1>1
  <2> HIDE DEF Shaped
  <2> QED
    BY <1>10, <1>11, <2>1
<1>13. ASSUME NEW k \in 1..L
       PROVE  /\ HeaderBytes(a)[3 * k - 2] = a.lines[k]
              /\ HeaderBytes(a)[3 * k - 1] = CR /\ HeaderBytes(a)[3 * k] = LF
  <2>1. /\ 3 * k - 2 \in 1..(3 * L) /\ 3 * k - 1 \in 1..(3 * L) /\ 3 * k \in 1..(3 * L)
    BY <1>1
  <2>2. \A i \in 1..(3 * L) : HeaderBytes(a)[i] = f[L][i]
    BY <1>1, <1>11
  <2> QED
    BY <1>9, <2>1, <2>2
<1> HIDE DEF Shaped
<1> QED
  BY <1>11, <1>12, <1>13 DEF L

\* Every place of a header is that of a line, of its CR or of its LF.
LEMMA Thirds ==
  ASSUME NEW i \in Nat \ {0}
  PROVE  \E k \in Nat \ {0} : i \in {3 * k - 2, 3 * k - 1, 3 * k}
<1> DEFINE k == (i + 2) \div 3
<1>1. k \in Nat \ {0} /\ i \in {3 * k - 2, 3 * k - 1, 3 * k}
  OBVIOUS
<1> QED
  BY <1>1

\* The blank line is at the end of a header and nowhere else.
LEMMA BlankAtTheEnd ==
  ASSUME NEW a, WellFormed(a)
  PROVE  LET H == HeaderBytes(a)
             h == Len(H)
         IN  /\ h \in Nat /\ h >= 5
             /\ H[h - 3] = CR /\ H[h - 2] = LF /\ H[h - 1] = CR /\ H[h] = LF
             /\ \A i \in 1..(h - 3) : H[i] = CR /\ H[i + 2] = CR => i = h - 3
             /\ H[1] = a.lines[1] /\ a.lines[1] \in Lines
<1> DEFINE H == HeaderBytes(a)
           L == Len(a.lines)
<1>1. /\ H \in Seq(Bytes) /\ Len(H) = 3 * L + 2
      /\ \A k \in 1..L : H[3 * k - 2] = a.lines[k] /\ H[3 * k - 1] = CR /\ H[3 * k] = LF
      /\ H[3 * L + 1] = CR /\ H[3 * L + 2] = LF
  BY HeaderShape
<1>2. L \in Nat \ {0} /\ \A k \in 1..L : a.lines[k] \in Lines
  BY AnswerFacts, ElementOfSeq
<1> HIDE DEF H, L
<1>3. L \in 1..L /\ 1 \in 1..L
  BY <1>2
<1>4. (3 * L + 2) - 3 = 3 * L - 1 /\ (3 * L + 2) - 2 = 3 * L /\ (3 * L + 2) - 1 = 3 * L + 1
  BY <1>2
<1>5. H[3 * L - 1] = CR /\ H[3 * L] = LF /\ H[1] = a.lines[1]
  BY <1>1, <1>3
<1>6. ASSUME NEW i \in 1..(3 * L - 1), H[i] = CR, H[i + 2] = CR
      PROVE  i = 3 * L - 1
  <2>1. PICK k \in Nat \ {0} : i \in {3 * k - 2, 3 * k - 1, 3 * k}
    BY <1>2, Thirds
  <2>2. k \in 1..L
    BY <1>2, <2>1
  <2>3. a.lines[k] # CR /\ LF # CR
    BY <1>2, <2>2, BytesDiffer
  <2>4. i = 3 * k - 1
    BY <1>1, <1>6, <2>1, <2>2, <2>3
  <2>5. CASE k # L
    <3>1. k + 1 \in 1..L /\ i + 2 = 3 * (k + 1) - 2
      BY <1>2, <2>2, <2>4, <2>5
    <3>2. a.lines[k + 1] # CR
      BY <1>2, <3>1, BytesDiffer
    <3> QED
      BY <1>1, <1>6, <3>1, <3>2
  <2> QED
    BY <2>4, <2>5
<1>7. Len(H) \in Nat /\ Len(H) >= 5
  BY <1>1, <1>2
<1> QED
  BY <1>1, <1>2, <1>3, <1>4, <1>5, <1>6, <1>7 DEF H

-----------------------------------------------------------------------------
(* The end of a header *)

\* The blank line begins at place i.
BlankAt(t, i) == t[i] = CR /\ t[i + 1] = LF /\ t[i + 2] = CR /\ t[i + 3] = LF

\* The tests of parseData() for a blank line that a read has cut behind its n-th byte.
CutAfter(got, p, n) ==
  Len(got) >= n /\ IsSuffix(SubSeq(BLANK, 1, n), got) /\ IsPrefix(SubSeq(BLANK, n + 1, 4), p)

\* What these tests see, byte by byte.
LEMMA CutAfterFacts ==
  ASSUME NEW g \in Seq(Bytes), NEW p \in Seq(Bytes), NEW n \in 1..3
  PROVE  CutAfter(g, p, n) <=>
           /\ Len(g) >= n /\ Len(p) >= 4 - n
           /\ \A i \in 1..n : BLANK[i] = g[Len(g) - n + i]
           /\ \A i \in 1..(4 - n) : BLANK[n + i] = p[i]
<1> DEFINE s == SubSeq(BLANK, 1, n)
           e == SubSeq(BLANK, n + 1, 4)
<1>1. /\ s \in Seq(Bytes) /\ Len(s) = n /\ e \in Seq(Bytes) /\ Len(e) = 4 - n
      /\ \A i \in 1..n : s[i] = BLANK[i]
      /\ \A i \in 1..(4 - n) : e[i] = BLANK[n + i]
  BY BlankFacts
<1> HIDE DEF s, e
<1>2. IsSuffix(s, g) <=> Len(s) <= Len(g) /\ \A i \in 1..Len(s) : s[i] = g[Len(g) - Len(s) + i]
  BY <1>1, SuffixFacts
<1>3. IsPrefix(e, p) <=> Len(e) <= Len(p) /\ \A i \in 1..Len(e) : e[i] = p[i]
  BY <1>1, PrefixFacts
<1>4. Len(g) \in Nat /\ Len(p) \in Nat
  BY LenProperties
<1>5. IsSuffix(s, g) <=> Len(g) >= n /\ \A i \in 1..n : BLANK[i] = g[Len(g) - n + i]
  BY <1>1, <1>2, <1>4
<1>6. IsPrefix(e, p) <=> Len(p) >= 4 - n /\ \A i \in 1..(4 - n) : BLANK[n + i] = p[i]
  BY <1>1, <1>3, <1>4
<1> QED
  BY <1>5, <1>6 DEF CutAfter, s, e

\* The cases of EndOfHeader.
LEMMA EndOfHeaderCases ==
  ASSUME NEW g, NEW p
  PROVE  LET inside == {i \in 1..(Len(p) - 3) : SubSeq(p, i, i + 3) = BLANK}
             none == ~CutAfter(g, p, 1) /\ ~CutAfter(g, p, 2) /\ ~CutAfter(g, p, 3)
         IN  /\ CutAfter(g, p, 1) => EndOfHeader(g, p) = 3
             /\ ~CutAfter(g, p, 1) /\ CutAfter(g, p, 2) => EndOfHeader(g, p) = 2
             /\ ~CutAfter(g, p, 1) /\ ~CutAfter(g, p, 2) /\ CutAfter(g, p, 3)
                  => EndOfHeader(g, p) = 1
             /\ none /\ inside # {} =>
                  EndOfHeader(g, p) = 3 + CHOOSE i \in inside : \A j \in inside : i <= j
             /\ none /\ inside = {} => EndOfHeader(g, p) = 0
<1> DEFINE inside == {i \in 1..(Len(p) - 3) : SubSeq(p, i, i + 3) = BLANK}
           none == ~CutAfter(g, p, 1) /\ ~CutAfter(g, p, 2) /\ ~CutAfter(g, p, 3)
           least == CHOOSE i \in inside : \A j \in inside : i <= j
<1>0. EndOfHeader(g, p) =
        CASE CutAfter(g, p, 1) -> 3
          [] ~CutAfter(g, p, 1) /\ CutAfter(g, p, 2) -> 2
          [] ~CutAfter(g, p, 1) /\ ~CutAfter(g, p, 2) /\ CutAfter(g, p, 3) -> 1
          [] ~(CutAfter(g, p, 1) \/ CutAfter(g, p, 2) \/ CutAfter(g, p, 3)) /\ inside # {} ->
               3 + least
          [] OTHER -> 0
  BY DEF EndOfHeader, CutAfter
<1> HIDE DEF inside, least
<1>1. ASSUME CutAfter(g, p, 1) PROVE EndOfHeader(g, p) = 3
  BY <1>0, <1>1
<1>2. ASSUME ~CutAfter(g, p, 1) /\ CutAfter(g, p, 2) PROVE EndOfHeader(g, p) = 2
  BY <1>0, <1>2
<1>3. ASSUME ~CutAfter(g, p, 1) /\ ~CutAfter(g, p, 2) /\ CutAfter(g, p, 3)
      PROVE  EndOfHeader(g, p) = 1
  BY <1>0, <1>3
<1>4. ASSUME none /\ inside # {} PROVE EndOfHeader(g, p) = 3 + least
  BY <1>0, <1>4
<1>5. ASSUME none /\ inside = {} PROVE EndOfHeader(g, p) = 0
  BY <1>0, <1>5
<1> QED
  BY <1>1, <1>2, <1>3, <1>4, <1>5 DEF inside, least

\* Four bytes are the blank line.
LEMMA InsideFacts ==
  ASSUME NEW p \in Seq(Bytes), NEW i \in 1..(Len(p) - 3)
  PROVE  SubSeq(p, i, i + 3) = BLANK <=> BlankAt(p, i)
<1>1. /\ BLANK \in Seq(Bytes) /\ Len(BLANK) = 4
      /\ BLANK[1] = CR /\ BLANK[2] = LF /\ BLANK[3] = CR /\ BLANK[4] = LF
  BY BlankFacts, 1 \in 1..3
<1>2. Len(p) \in Nat /\ i \in Nat /\ i + 3 <= Len(p)
  BY LenProperties
<1> DEFINE s == SubSeq(p, i, i + 3)
<1>3. /\ s \in Seq(Bytes) /\ Len(s) = 4
      /\ s[1] = p[i] /\ s[2] = p[i + 1] /\ s[3] = p[i + 2] /\ s[4] = p[i + 3]
  <2>1. \A j \in i..(i + 3) : p[j] \in Bytes
    BY <1>2, ElementOfSeq
  <2>2. /\ SubSeq(p, i, i + 3) \in Seq(Bytes)
        /\ Len(SubSeq(p, i, i + 3)) = IF i <= i + 3 THEN (i + 3) - i + 1 ELSE 0
        /\ \A j \in 1..((i + 3) - i + 1) : SubSeq(p, i, i + 3)[j] = p[i + j - 1]
    <3>1. i \in Int /\ i + 3 \in Int
      BY <1>2
    <3> QED
      BY <2>1, <3>1, SubSeqProperties
  <2>3. /\ (i + 3) - i + 1 = 4 /\ i <= i + 3
        /\ i + 1 - 1 = i /\ i + 2 - 1 = i + 1 /\ i + 3 - 1 = i + 2 /\ i + 4 - 1 = i + 3
    BY <1>2
  <2>4. Len(SubSeq(p, i, i + 3)) = 4 /\ \A j \in 1..4 : SubSeq(p, i, i + 3)[j] = p[i + j - 1]
    BY <2>2, <2>3
  <2> QED
    BY <2>2, <2>3, <2>4
<1> HIDE DEF s
<1>4. (\A j \in 1..4 : s[j] = BLANK[j]) => s = BLANK
  BY <1>1, <1>3, SeqEqual
<1>5. (\A j \in 1..4 : s[j] = BLANK[j]) <=> s[1] = CR /\ s[2] = LF /\ s[3] = CR /\ s[4] = LF
  <2>1. 1 \in 1..4 /\ 2 \in 1..4 /\ 3 \in 1..4 /\ 4 \in 1..4
        /\ \A j \in 1..4 : j = 1 \/ j = 2 \/ j = 3 \/ j = 4
    OBVIOUS
  <2> QED
    BY <1>1, <2>1
<1>6. s = BLANK <=> s[1] = CR /\ s[2] = LF /\ s[3] = CR /\ s[4] = LF
  BY <1>1, <1>4, <1>5
<1> QED
  BY <1>3, <1>6 DEF BlankAt, s

\* Of the bytes t of a connection, g and then p have been read, and the only blank
\* line that could begin before the end of the header is the one at its end, behind
\* h bytes: the search finds it, wherever the reads have cut it.
LEMMA EndIsFound ==
  ASSUME NEW g \in Seq(Bytes), NEW p \in Seq(Bytes), NEW t \in Seq(Bytes), NEW h \in Nat,
         Len(g) < h, h >= 5, h <= Len(t), Len(g) + Len(p) <= Len(t),
         \A i \in 1..Len(g) : t[i] = g[i],
         \A i \in 1..Len(p) : t[Len(g) + i] = p[i],
         BlankAt(t, h - 3),
         \A i \in 1..(h - 1) : i + 3 <= Len(t) /\ BlankAt(t, i) => i = h - 3
  PROVE  EndOfHeader(g, p) = IF Len(g) + Len(p) < h THEN 0 ELSE h - Len(g)
<1> DEFINE inside == {i \in 1..(Len(p) - 3) : SubSeq(p, i, i + 3) = BLANK}
           k == Len(g)
           m == Len(p)
<1>1. k \in Nat /\ m \in Nat /\ Len(t) \in Nat
  BY LenProperties
<1>2. BLANK[1] = CR /\ BLANK[2] = LF /\ BLANK[3] = CR /\ BLANK[4] = LF
  BY BlankFacts, 1 \in 1..3
<1>3. ASSUME NEW n \in 1..3
      PROVE  CutAfter(g, p, n) <=> k >= n /\ m >= 4 - n /\ BlankAt(t, (k - n) + 1)
  <2>1. CutAfter(g, p, n) <=>
          /\ k >= n /\ m >= 4 - n
          /\ \A i \in 1..n : BLANK[i] = g[k - n + i]
          /\ \A i \in 1..(4 - n) : BLANK[n + i] = p[i]
    BY CutAfterFacts
  <2> SUFFICES ASSUME k >= n, m >= 4 - n
               PROVE  (/\ \A i \in 1..n : BLANK[i] = g[k - n + i]
                       /\ \A i \in 1..(4 - n) : BLANK[n + i] = p[i])
                        <=> BlankAt(t, (k - n) + 1)
    BY <2>1
  <2> HIDE DEF k, m
  <2>2. \A i \in 1..n : g[k - n + i] = t[k - n + i]
    <3>1. \A i \in 1..n : k - n + i \in 1..k
      BY <1>1
    <3> QED
      BY <3>1 DEF k
  <2>3. \A i \in 1..(4 - n) : p[i] = t[k + i]
    <3>1. \A i \in 1..(4 - n) : i \in 1..m
      BY <1>1
    <3> QED
      BY <3>1 DEF k, m
  <2>4. ASSUME \A i \in 1..n : BLANK[i] = g[k - n + i],
               \A i \in 1..(4 - n) : BLANK[n + i] = p[i], NEW j \in 1..4
        PROVE  BLANK[j] = t[k - n + j]
    <3>1. CASE j <= n
      <4>1. j \in 1..n
        BY <3>1
      <4> QED
        BY <2>2, <2>4, <4>1
    <3>2. CASE j > n
      <4>1. j - n \in 1..(4 - n) /\ n + (j - n) = j /\ k - n + j = k + (j - n)
        BY <1>1, <3>2
      <4>2. BLANK[n + (j - n)] = p[j - n] /\ p[j - n] = t[k + (j - n)]
        BY <2>3, <2>4, <4>1
      <4> QED
        BY <4>1, <4>2
    <3> QED
      BY <3>1, <3>2
  <2>5. ASSUME \A j \in 1..4 : BLANK[j] = t[k - n + j]
        PROVE  /\ \A i \in 1..n : BLANK[i] = g[k - n + i]
               /\ \A i \in 1..(4 - n) : BLANK[n + i] = p[i]
    <3>1. \A i \in 1..n : i \in 1..4
      OBVIOUS
    <3>2. \A i \in 1..(4 - n) : n + i \in 1..4 /\ k - n + (n + i) = k + i
      BY <1>1
    <3>3. ASSUME NEW i \in 1..(4 - n)
          PROVE  BLANK[n + i] = p[i]
      <4>1. BLANK[n + i] = t[k - n + (n + i)]
        BY <2>5, <3>2
      <4> QED
        BY <2>3, <3>2, <4>1
    <3> QED
      BY <2>2, <2>5, <3>1, <3>3
  <2>6. BlankAt(t, (k - n) + 1) <=> \A j \in 1..4 : BLANK[j] = t[k - n + j]
    <3>1. /\ (k - n) + 1 = k - n + 1 /\ ((k - n) + 1) + 1 = k - n + 2
          /\ ((k - n) + 1) + 2 = k - n + 3 /\ ((k - n) + 1) + 3 = k - n + 4
      BY <1>1
    <3>2. 1 \in 1..4 /\ 2 \in 1..4 /\ 3 \in 1..4 /\ 4 \in 1..4
          /\ \A j \in 1..4 : j = 1 \/ j = 2 \/ j = 3 \/ j = 4
      OBVIOUS
    <3>3. (\A j \in 1..4 : BLANK[j] = t[k - n + j]) <=>
            /\ BLANK[1] = t[k - n + 1] /\ BLANK[2] = t[k - n + 2]
            /\ BLANK[3] = t[k - n + 3] /\ BLANK[4] = t[k - n + 4]
      BY <3>2
    <3> QED
      BY <1>2, <3>1, <3>3 DEF BlankAt
  <2> QED
    BY <2>4, <2>5, <2>6
<1>4. ASSUME NEW n \in 1..3
      PROVE  CutAfter(g, p, n) <=> h - k = 4 - n /\ k + m >= h
  <2> HIDE DEF k, m
  <2>1. ASSUME CutAfter(g, p, n)
        PROVE  h - k = 4 - n /\ k + m >= h
    <3>1. k >= n /\ m >= 4 - n /\ BlankAt(t, (k - n) + 1)
      BY <1>3, <2>1
    <3>2. (k - n) + 1 \in 1..(h - 1) /\ ((k - n) + 1) + 3 <= Len(t)
      BY <1>1, <3>1 DEF k, m
    <3>3. (k - n) + 1 = h - 3
      BY <3>1, <3>2
    <3> QED
      BY <1>1, <3>1, <3>3
  <2>2. ASSUME h - k = 4 - n, k + m >= h
        PROVE  CutAfter(g, p, n)
    <3>1. k >= n /\ m >= 4 - n /\ (k - n) + 1 = h - 3
      BY <1>1, <2>2
    <3> QED
      BY <1>3, <3>1
  <2> QED
    BY <2>1, <2>2
<1>5. ASSUME NEW i \in 1..(m - 3)
      PROVE  /\ i \in inside => k + i >= h - 3
             /\ k + i = h - 3 => i \in inside
  <2>1. i \in inside <=> BlankAt(p, i)
    BY InsideFacts
  <2> HIDE DEF k, m, inside
  <2>2. /\ i \in 1..m /\ i + 1 \in 1..m /\ i + 2 \in 1..m /\ i + 3 \in 1..m
        /\ k + (i + 1) = (k + i) + 1 /\ k + (i + 2) = (k + i) + 2 /\ k + (i + 3) = (k + i) + 3
        /\ (k + i) + 3 <= Len(t) /\ k + i \in Nat /\ k + i >= 1
    BY <1>1 DEF k, m
  <2>3. BlankAt(p, i) <=> BlankAt(t, k + i)
    <3>1. /\ t[k + i] = p[i] /\ t[(k + i) + 1] = p[i + 1] /\ t[(k + i) + 2] = p[i + 2]
          /\ t[(k + i) + 3] = p[i + 3]
      <4>1. \A j \in 1..m : t[k + j] = p[j]
        BY DEF k, m
      <4>2. /\ t[k + i] = p[i] /\ t[k + (i + 1)] = p[i + 1] /\ t[k + (i + 2)] = p[i + 2]
            /\ t[k + (i + 3)] = p[i + 3]
        BY <2>2, <4>1
      <4> QED
        BY <2>2, <4>2
    <3> QED
      BY <3>1 DEF BlankAt
  <2>4. ASSUME BlankAt(t, k + i), k + i < h - 3
        PROVE  FALSE
    <3>1. k + i \in 1..(h - 1)
      BY <2>2, <2>4
    <3> QED
      BY <2>2, <2>4, <3>1
  <2> QED
    BY <2>1, <2>2, <2>3, <2>4
<1> HIDE DEF k, m, inside
<1>6. \A i \in inside : i \in 1..(m - 3)
  BY DEF inside, m
<1>7. k < h
  BY DEF k
<1>8. /\ CutAfter(g, p, 1) <=> h - k = 3 /\ k + m >= h
      /\ CutAfter(g, p, 2) <=> h - k = 2 /\ k + m >= h
      /\ CutAfter(g, p, 3) <=> h - k = 1 /\ k + m >= h
  <2>1. 1 \in 1..3 /\ 2 \in 1..3 /\ 3 \in 1..3 /\ 4 - 1 = 3 /\ 4 - 2 = 2 /\ 4 - 3 = 1
    OBVIOUS
  <2> QED
    BY <1>4, <2>1
<1> DEFINE end == EndOfHeader(g, p)
           least == CHOOSE i \in inside : \A j \in inside : i <= j
           none == ~CutAfter(g, p, 1) /\ ~CutAfter(g, p, 2) /\ ~CutAfter(g, p, 3)
<1>9. /\ CutAfter(g, p, 1) => end = 3
      /\ ~CutAfter(g, p, 1) /\ CutAfter(g, p, 2) => end = 2
      /\ ~CutAfter(g, p, 1) /\ ~CutAfter(g, p, 2) /\ CutAfter(g, p, 3) => end = 1
      /\ none /\ inside # {} => end = 3 + least
      /\ none /\ inside = {} => end = 0
  BY EndOfHeaderCases DEF inside
<1>10. CASE k + m < h
  <2>1. none
    BY <1>1, <1>8, <1>10
  <2>2. inside = {}
    <3> SUFFICES ASSUME NEW i \in inside
                 PROVE  FALSE
      OBVIOUS
    <3>1. i \in 1..(m - 3) /\ k + i >= h - 3
      BY <1>5, <1>6
    <3> QED
      BY <1>1, <1>10, <3>1
  <2> QED
    BY <1>9, <1>10, <2>1, <2>2 DEF k, m
<1>11. CASE k + m >= h /\ h - k <= 3
  <2>1. h - k = 3 \/ h - k = 2 \/ h - k = 1
    BY <1>1, <1>7, <1>11
  <2>2. end = h - k
    <3> HIDE DEF end, none
    <3> QED
      BY <1>8, <1>9, <1>11, <2>1
  <2>3. ~(k + m < h)
    BY <1>1, <1>11
  <2> QED
    BY <2>2, <2>3 DEF k, m
<1>12. CASE k + m >= h /\ h - k > 3
  <2> DEFINE i == h - 3 - k
  <2>1. i \in 1..(m - 3) /\ k + i = h - 3 /\ 3 + i = h - k
    BY <1>1, <1>12
  <2>2. i \in inside
    BY <1>5, <2>1
  <2>3. \A j \in inside : i <= j
    <3> SUFFICES ASSUME NEW j \in inside
                 PROVE  i <= j
      OBVIOUS
    <3>1. j \in 1..(m - 3) /\ k + j >= h - 3
      BY <1>5, <1>6
    <3> QED
      BY <1>1, <3>1
  <2> HIDE DEF i
  <2>4. least \in inside /\ \A j \in inside : least <= j
    BY <2>2, <2>3
  <2> HIDE DEF least
  <2>5. least = i
    <3>1. least <= i /\ i <= least /\ least \in Int /\ i \in Int
      BY <1>6, <2>2, <2>3, <2>4
    <3> QED
      BY <3>1
  <2>6. none
    BY <1>1, <1>8, <1>12
  <2>7. end = h - k
    <3>1. inside # {}
      BY <2>2
    <3> HIDE DEF end, none
    <3> QED
      BY <1>9, <2>1, <2>5, <2>6, <3>1
  <2>8. ~(k + m < h)
    BY <1>1, <1>12
  <2> QED
    BY <2>7, <2>8 DEF k, m
<1> QED
  BY <1>1, <1>10, <1>11, <1>12

-----------------------------------------------------------------------------
(* What is taken of a header *)

\* Two sequences put together are cut in one way at a place.
LEMMA SameCut ==
  ASSUME NEW S, NEW s \in Seq(S), NEW x \in Seq(S), NEW t \in Seq(S), NEW y \in Seq(S),
         s \o x = t \o y, Len(s) = Len(t)
  PROVE  s = t /\ x = y
<1>1. /\ Len(s \o x) = Len(s) + Len(x)
      /\ \A i \in 1..(Len(s) + Len(x)) : (s \o x)[i] = IF i <= Len(s) THEN s[i] ELSE x[i - Len(s)]
  BY ConcatProperties
<1>2. /\ Len(t \o y) = Len(t) + Len(y)
      /\ \A i \in 1..(Len(t) + Len(y)) : (t \o y)[i] = IF i <= Len(t) THEN t[i] ELSE y[i - Len(t)]
  BY ConcatProperties
<1>3. Len(s) \in Nat /\ Len(x) \in Nat /\ Len(t) \in Nat /\ Len(y) \in Nat
  BY LenProperties
<1>4. \A i \in 1..Len(s) : s[i] = t[i]
  <2> SUFFICES ASSUME NEW i \in 1..Len(s)
               PROVE  s[i] = t[i]
    OBVIOUS
  <2>1. i \in 1..(Len(s) + Len(x)) /\ i \in 1..(Len(t) + Len(y)) /\ i <= Len(s) /\ i <= Len(t)
    BY <1>3
  <2> QED
    BY <1>1, <1>2, <2>1
<1>5. s = t
  BY <1>4, SeqEqual
<1>6. Len(x) = Len(y)
  BY <1>1, <1>2, <1>3
<1>7. \A i \in 1..Len(x) : x[i] = y[i]
  <2> SUFFICES ASSUME NEW i \in 1..Len(x)
               PROVE  x[i] = y[i]
    OBVIOUS
  <2>1. /\ Len(s) + i \in 1..(Len(s) + Len(x)) /\ ~(Len(s) + i <= Len(s))
        /\ (Len(s) + i) - Len(s) = i
    BY <1>3
  <2>2. (s \o x)[Len(s) + i] = x[i] /\ (t \o y)[Len(s) + i] = y[i]
    BY <1>1, <1>2, <1>6, <2>1
  <2> QED
    BY <2>2
<1>8. x = y
  BY <1>6, <1>7, SeqEqual
<1> QED
  BY <1>5, <1>8

\* What follows the first part of what is cut in two.
Joins(x, y, z) == (x \o y) \o z = x \o (y \o z)

\* Three sequences may be put together in either order.
LEMMA JoinsAnyWay == \A x, y, z \in Seq(Bytes) : Joins(x, y, z)
<1> SUFFICES ASSUME NEW x \in Seq(Bytes), NEW y \in Seq(Bytes), NEW z \in Seq(Bytes)
             PROVE  (x \o y) \o z = x \o (y \o z)
  BY DEF Joins
<1> QED
  BY ConcatAssociative

\* p, of which x and y are the parts, between g and u.
IsCut(g, x, y, u, p) == (g \o x) \o (y \o u) = g \o (p \o u)

\* It may be cut anywhere.
LEMMA CutAgain ==
  ASSUME NEW g \in Seq(Bytes), NEW p \in Seq(Bytes), NEW u \in Seq(Bytes),
         NEW x \in Seq(Bytes), NEW y \in Seq(Bytes), x \o y = p
  PROVE  IsCut(g, x, y, u, p)
<1> DEFINE w == y \o u
<1>1. w \in Seq(Bytes)
  BY ConcatProperties
<1> HIDE DEF w
<1>2. Joins(g, x, w) /\ Joins(x, y, u)
  BY <1>1, JoinsAnyWay
<1>3. (x \o y) \o u = x \o w /\ (g \o x) \o w = g \o (x \o w)
  BY <1>2, Zenon DEF Joins, w
<1> QED
  BY <1>3, Zenon DEF w, IsCut

\* A part of a sequence that is not longer than another part in front of it.
LEMMA ShorterIsPrefix ==
  ASSUME NEW S, NEW s \in Seq(S), NEW x \in Seq(S), NEW t \in Seq(S), NEW y \in Seq(S),
         s \o x = t \o y, Len(s) <= Len(t)
  PROVE  IsPrefix(s, t)
<1>1. \A i \in 1..(Len(s) + Len(x)) : (s \o x)[i] = IF i <= Len(s) THEN s[i] ELSE x[i - Len(s)]
  BY ConcatProperties
<1>2. \A i \in 1..(Len(t) + Len(y)) : (t \o y)[i] = IF i <= Len(t) THEN t[i] ELSE y[i - Len(t)]
  BY ConcatProperties
<1>3. Len(s) \in Nat /\ Len(x) \in Nat /\ Len(t) \in Nat /\ Len(y) \in Nat
  BY LenProperties
<1>4. \A i \in 1..Len(s) : s[i] = t[i]
  <2> SUFFICES ASSUME NEW i \in 1..Len(s)
               PROVE  s[i] = t[i]
    OBVIOUS
  <2>1. i \in 1..(Len(s) + Len(x)) /\ i \in 1..(Len(t) + Len(y)) /\ i <= Len(s) /\ i <= Len(t)
    BY <1>3
  <2> QED
    BY <1>1, <1>2, <2>1
<1> QED
  BY <1>4, PrefixFacts

\* What parseData() takes of the bytes p for a header of which g has arrived, and of
\* which no later byte looks like its end: the rest of it, or all of p.
HeaderCut(a, g, p, u, rest) ==
  LET H     == HeaderBytes(a)
      n     == EndOfHeader(g, p)
      taken == IF n = 0 THEN Len(p) ELSE n
      new   == g \o SubSeq(p, 1, taken)
      left  == SubSeq(p, taken + 1, Len(p))
      ended == IsSuffix(BLANK, new)
  IN  /\ taken \in 1..Len(p)
      /\ new \in Seq(Bytes) /\ left \in Seq(Bytes)
      /\ new \o (left \o u) = H \o rest
      /\ ended => new = H /\ left \o u = rest
      /\ ~ended => Len(new) < Len(H) /\ left = <<>>

\* EndOfHeader() takes that much.
LEMMA HeaderTaken ==
  ASSUME NEW a, WellFormed(a),
         NEW g \in Seq(Bytes), NEW p \in Seq(Bytes), NEW u \in Seq(Bytes), NEW rest \in Seq(Bytes),
         g \o (p \o u) = HeaderBytes(a) \o rest,
         Len(g) < Len(HeaderBytes(a)), p # <<>>,
         ~(Len(rest) >= 2 /\ rest[1] = CR /\ rest[2] = LF)
  PROVE  HeaderCut(a, g, p, u, rest)
<1> DEFINE H == HeaderBytes(a)
           h == Len(H)
           t == H \o rest
<1>1. /\ H \in Seq(Bytes) /\ h \in Nat /\ h >= 5
      /\ H[h - 3] = CR /\ H[h - 2] = LF /\ H[h - 1] = CR /\ H[h] = LF
      /\ \A i \in 1..(h - 3) : H[i] = CR /\ H[i + 2] = CR => i = h - 3
  BY HeaderShape, BlankAtTheEnd
<1> HIDE DEF H
<1>2. Len(g) \in Nat /\ Len(p) \in Nat /\ Len(u) \in Nat /\ Len(rest) \in Nat /\ p \o u \in Seq(Bytes)
  BY LenProperties, ConcatProperties
<1>3. /\ t \in Seq(Bytes) /\ Len(t) = h + Len(rest)
      /\ \A i \in 1..(h + Len(rest)) : t[i] = IF i <= h THEN H[i] ELSE rest[i - h]
  BY <1>1, ConcatProperties
<1>4. /\ t = g \o (p \o u)
      /\ Len(t) = Len(g) + (Len(p) + Len(u))
      /\ \A i \in 1..(Len(g) + (Len(p) + Len(u))) :
           t[i] = IF i <= Len(g) THEN g[i] ELSE (p \o u)[i - Len(g)]
      /\ \A i \in 1..(Len(p) + Len(u)) : (p \o u)[i] = IF i <= Len(p) THEN p[i] ELSE u[i - Len(p)]
  <2>1. t = g \o (p \o u)
    BY DEF H
  <2>2. /\ Len(p \o u) = Len(p) + Len(u)
        /\ \A i \in 1..(Len(p) + Len(u)) : (p \o u)[i] = IF i <= Len(p) THEN p[i] ELSE u[i - Len(p)]
    BY ConcatProperties
  <2>3. /\ Len(g \o (p \o u)) = Len(g) + Len(p \o u)
        /\ \A i \in 1..(Len(g) + Len(p \o u)) :
             (g \o (p \o u))[i] = IF i <= Len(g) THEN g[i] ELSE (p \o u)[i - Len(g)]
    BY <1>2, ConcatProperties
  <2> HIDE DEF t
  <2> QED
    BY <2>1, <2>2, <2>3
<1> HIDE DEF t, h
<1>5. Len(g) < h /\ h <= Len(t) /\ Len(g) + Len(p) <= Len(t)
  BY <1>1, <1>2, <1>3, <1>4 DEF h, H
<1>6. \A i \in 1..Len(g) : t[i] = g[i]
  BY <1>2, <1>4
<1>7. \A i \in 1..Len(p) : t[Len(g) + i] = p[i]
  <2> SUFFICES ASSUME NEW i \in 1..Len(p)
               PROVE  t[Len(g) + i] = p[i]
    OBVIOUS
  <2>1. /\ Len(g) + i \in 1..(Len(g) + (Len(p) + Len(u))) /\ ~(Len(g) + i <= Len(g))
        /\ (Len(g) + i) - Len(g) = i /\ i \in 1..(Len(p) + Len(u)) /\ i <= Len(p)
    BY <1>2
  <2> QED
    BY <1>4, <2>1
<1>8. \A i \in 1..h : t[i] = H[i]
  BY <1>1, <1>2, <1>3
<1>9. BlankAt(t, h - 3)
  <2>1. /\ h - 3 \in 1..h /\ (h - 3) + 1 = h - 2 /\ (h - 3) + 2 = h - 1 /\ (h - 3) + 3 = h
        /\ h - 2 \in 1..h /\ h - 1 \in 1..h /\ h \in 1..h
    BY <1>1
  <2> QED
    BY <1>1, <1>8, <2>1 DEF BlankAt
<1>10. ASSUME NEW i \in 1..(h - 1), i + 3 <= Len(t), BlankAt(t, i)
       PROVE  i = h - 3
  <2>1. t[i] = CR /\ t[i + 1] = LF /\ t[i + 2] = CR /\ t[i + 3] = LF
    BY <1>10 DEF BlankAt
  <2>2. CASE i <= h - 3
    <3>1. i \in 1..(h - 3) /\ i \in 1..h /\ i + 2 \in 1..h
      BY <1>1, <2>2
    <3> QED
      BY <1>1, <1>8, <2>1, <3>1
  <2>3. CASE i = h - 2
    <3>1. t[h - 2] = H[h - 2] /\ LF # CR
      BY <1>1, <1>8, BytesDiffer
    <3> QED
      BY <1>1, <2>1, <2>3, <3>1
  <2>4. CASE i = h - 1
    <3>1. /\ i + 2 = h + 1 /\ i + 3 = h + 2 /\ Len(rest) >= 2
          /\ h + 1 \in 1..(h + Len(rest)) /\ ~(h + 1 <= h) /\ (h + 1) - h = 1
          /\ h + 2 \in 1..(h + Len(rest)) /\ ~(h + 2 <= h) /\ (h + 2) - h = 2
      BY <1>1, <1>2, <1>3, <1>10, <2>4
    <3>2. t[h + 1] = rest[1] /\ t[h + 2] = rest[2]
      BY <1>3, <3>1
    <3> QED
      BY <2>1, <3>1, <3>2
  <2>5. i <= h - 3 \/ i = h - 2 \/ i = h - 1
    <3>1. h \in Nat /\ h >= 5
      BY <1>1
    <3>2. i \in Int /\ i <= h - 1
      BY <3>1
    <3> QED
      BY <3>1, <3>2
  <2> QED
    BY <1>1, <2>2, <2>3, <2>4, <2>5
<1> DEFINE n == EndOfHeader(g, p)
           taken == IF n = 0 THEN Len(p) ELSE n
           new == g \o SubSeq(p, 1, taken)
           left == SubSeq(p, taken + 1, Len(p))
           ended == IsSuffix(BLANK, new)
<1>11. n = IF Len(g) + Len(p) < h THEN 0 ELSE h - Len(g)
  <2>1. \A i \in 1..(h - 1) : i + 3 <= Len(t) /\ BlankAt(t, i) => i = h - 3
    BY <1>10
  <2>2. h \in Nat /\ h >= 5 /\ t \in Seq(Bytes)
    BY <1>1, <1>3
  <2> QED
    BY <1>5, <1>6, <1>7, <1>9, <2>1, <2>2, EndIsFound
<1> HIDE DEF n
<1>12. Len(p) >= 1
  BY <1>2, EmptySeq
<1>13. /\ taken \in 1..Len(p)
       /\ Len(g) + Len(p) < h => taken = Len(p)
       /\ ~(Len(g) + Len(p) < h) => Len(g) + taken = h
  BY <1>1, <1>2, <1>5, <1>11, <1>12
<1> HIDE DEF taken
<1>14. /\ SubSeq(p, 1, taken) \in Seq(Bytes) /\ left \in Seq(Bytes)
       /\ Len(SubSeq(p, 1, taken)) = taken /\ Len(left) = Len(p) - taken
       /\ SubSeq(p, 1, taken) \o left = p
  <2>1. taken \in 0..Len(p)
    BY <1>2, <1>13
  <2> QED
    BY <2>1, CutFacts
<1>15. new \in Seq(Bytes) /\ Len(new) = Len(g) + taken /\ left \o u \in Seq(Bytes)
  BY <1>14, ConcatProperties
<1>16. new \o (left \o u) = t
  <2> DEFINE x == SubSeq(p, 1, taken)
  <2> HIDE DEF x, left
  <2>1. x \in Seq(Bytes) /\ left \in Seq(Bytes) /\ x \o left = p
    BY <1>14 DEF x
  <2>2. IsCut(g, x, left, u, p)
    BY <2>1, CutAgain
  <2> QED
    BY <1>4, <2>2, Zenon DEF x, IsCut
<1> HIDE DEF new, left
<1>17. CASE Len(g) + Len(p) < h
  <2>1. Len(new) < h /\ left = <<>>
    <3>1. Len(new) < h /\ Len(left) = 0
      <4>1. /\ Len(g) \in Nat /\ Len(p) \in Nat /\ taken = Len(p)
            /\ Len(new) = Len(g) + taken /\ Len(left) = Len(p) - taken
        BY <1>2, <1>13, <1>14, <1>15, <1>17
      <4> QED
        BY <1>17, <4>1
    <3> QED
      BY <1>14, <3>1, EmptySeq
  <2>2. ASSUME ended
        PROVE  FALSE
    <3>1. BLANK \in Seq(Bytes) /\ Len(BLANK) = 4 /\ BLANK[1] = CR /\ BLANK[3] = CR
      BY BlankFacts, 1 \in 1..3
    <3>2. /\ Len(BLANK) <= Len(new)
          /\ \A i \in 1..Len(BLANK) : BLANK[i] = new[Len(new) - Len(BLANK) + i]
      BY <1>15, <2>2, <3>1, SuffixFacts
    <3> DEFINE k == Len(new)
    <3>3. k \in Nat /\ k >= 4 /\ k < h
      BY <1>15, <2>1, <3>1, <3>2, LenProperties
    <3>4. new[k - 4 + 1] = CR /\ new[k - 4 + 3] = CR
      BY <3>1, <3>2
    <3>5. \A i \in 1..k : new[i] = H[i]
      <4>0. Len(new) <= Len(H) /\ new \o (left \o u) = H \o rest
        BY <1>16, <2>1, <3>3 DEF h, t, k
      <4>1. IsPrefix(new, H)
        BY <1>1, <1>15, <4>0, ShorterIsPrefix
      <4> QED
        BY <1>1, <1>15, <4>1, PrefixFacts
    <3> HIDE DEF k
    <3>6. /\ k - 4 + 1 = k - 3 /\ k - 4 + 3 = k - 1 /\ (k - 3) + 2 = k - 1
          /\ k - 3 \in 1..k /\ k - 1 \in 1..k /\ k - 3 \in 1..(h - 3) /\ k - 3 # h - 3
      BY <1>1, <3>3
    <3>7. H[k - 3] = CR /\ H[(k - 3) + 2] = CR
      BY <3>4, <3>5, <3>6
    <3> QED
      BY <1>1, <3>6, <3>7
  <2> HIDE DEF ended
  <2> QED
    BY <1>13, <1>14, <1>15, <1>16, <2>1, <2>2 DEF h, t, H, n, taken, new, left, ended, HeaderCut
<1>18. CASE ~(Len(g) + Len(p) < h)
  <2>1. new = H /\ left \o u = rest
    <3>1. Len(new) = Len(H)
      BY <1>13, <1>15, <1>18 DEF h
    <3> QED
      BY <1>1, <1>15, <1>16, <3>1, SameCut DEF t
  <2>2. ended
    <3>1. /\ BLANK \in Seq(Bytes) /\ Len(BLANK) = 4
          /\ BLANK[1] = CR /\ BLANK[2] = LF /\ BLANK[3] = CR /\ BLANK[4] = LF
      BY BlankFacts, 1 \in 1..3
    <3>2. h - 4 + 1 = h - 3 /\ h - 4 + 2 = h - 2 /\ h - 4 + 3 = h - 1 /\ h - 4 + 4 = h
      BY <1>1
    <3>3. \A i \in 1..4 : BLANK[i] = H[h - 4 + i]
      <4>1. \A i \in 1..4 : i = 1 \/ i = 2 \/ i = 3 \/ i = 4
        OBVIOUS
      <4> QED
        BY <1>1, <3>1, <3>2, <4>1
    <3>4. IsSuffix(BLANK, H)
      <4>1. Len(BLANK) <= Len(H) /\ \A i \in 1..Len(BLANK) : BLANK[i] = H[Len(H) - Len(BLANK) + i]
        BY <1>1, <3>1, <3>3 DEF h
      <4> QED
        BY <1>1, <3>1, <4>1, SuffixFacts
    <3> QED
      BY <1>1, <2>1, <3>4 DEF h
  <2> HIDE DEF ended
  <2> QED
    BY <1>13, <1>14, <1>15, <1>16, <2>1, <2>2 DEF h, t, H, n, taken, new, left, ended, HeaderCut
<1> QED
  BY <1>17, <1>18

-----------------------------------------------------------------------------
(* What is read of a header *)

\* What h says of each field after the first k of the bytes: what one of its lines
\* says, or nothing if there is none.
StatusRead(h, bytes, k) ==
  \/ \E i \in 1..k : bytes[i].name = "status" /\ h.statusCode = bytes[i].n
  \/ h.statusCode = 0 /\ \A i \in 1..k : bytes[i].name # "status"

\* The same of the length of the body,
LengthRead(h, bytes, k) ==
  \/ \E i \in 1..k : bytes[i].name = "length" /\ h.contentLength = bytes[i].n
  \/ h.contentLength = -1 /\ \A i \in 1..k : bytes[i].name # "length"

\* of what the server says of the connection,
CloseRead(h, bytes, k) ==
  \/ \E i \in 1..k : bytes[i].name = "close" /\ h.connectionClose = 1
  \/ \E i \in 1..k : bytes[i].name = "keepAlive" /\ h.connectionClose = 0
  \/ h.connectionClose = -1 /\ \A i \in 1..k : bytes[i].name # "close"

\* of its limits,
LimitsRead(h, bytes, k) ==
  \/ \E i \in 1..k : /\ bytes[i].name = "limits" /\ h.keepAliveMax = bytes[i].n
                     /\ h.keepAliveTimeout = 1000000 * bytes[i].m
  \/ /\ h.keepAliveMax = -1 /\ h.keepAliveTimeout = -1
     /\ \A i \in 1..k : bytes[i].name # "limits"

\* and of all fields.
FieldsRead(h, bytes, k) ==
  /\ StatusRead(h, bytes, k) /\ LengthRead(h, bytes, k)
  /\ CloseRead(h, bytes, k) /\ LimitsRead(h, bytes, k)

\* At first, nothing has been read,
LEMMA NothingRead ==
  ASSUME NEW bytes
  PROVE  FieldsRead(NewHdr, bytes, 0)
<1>1. 1..0 = {}
  OBVIOUS
<1>2. /\ NewHdr.statusCode = 0 /\ NewHdr.contentLength = -1 /\ NewHdr.connectionClose = -1
      /\ NewHdr.keepAliveMax = -1 /\ NewHdr.keepAliveTimeout = -1
  BY DEF NewHdr
<1> QED
  BY <1>1, <1>2 DEF FieldsRead, StatusRead, LengthRead, CloseRead, LimitsRead

\* and ReadLine() reads one more line.
LEMMA OneMoreRead ==
  ASSUME NEW bytes \in Seq(Bytes), NEW k \in Nat, k + 1 <= Len(bytes),
         NEW h \in Hdr, FieldsRead(h, bytes, k)
  PROVE  FieldsRead(ReadLine(h, bytes[k + 1]), bytes, k + 1)
<1> DEFINE l == bytes[k + 1]
           new == ReadLine(h, l)
<1>1. k + 1 \in 1..(k + 1) /\ \A i \in 1..(k + 1) : i \in 1..k \/ i = k + 1
  OBVIOUS
<1>2. \A i \in 1..k : i \in 1..(k + 1)
  OBVIOUS
<1>3. l \in Bytes
  <2>1. k + 1 \in 1..Len(bytes)
    BY LenProperties
  <2> QED
    BY <2>1, ElementOfSeq
<1>4. /\ new.statusCode = IF l.name = "status" THEN l.n ELSE h.statusCode
      /\ new.contentLength = IF l.name = "length" THEN l.n ELSE h.contentLength
      /\ new.connectionClose = IF l.name = "close" THEN 1
                               ELSE IF l.name = "keepAlive" THEN 0 ELSE h.connectionClose
      /\ new.keepAliveMax = IF l.name = "limits" THEN l.n ELSE h.keepAliveMax
      /\ new.keepAliveTimeout = IF l.name = "limits" THEN 1000000 * l.m ELSE h.keepAliveTimeout
  BY <1>3, ReadLineCases
<1> HIDE DEF new
<1>5. StatusRead(new, bytes, k + 1)
  <2>1. StatusRead(h, bytes, k)
    BY DEF FieldsRead
  <2> QED
    BY <1>1, <1>2, <1>4, <2>1 DEF StatusRead
<1>6. LengthRead(new, bytes, k + 1)
  <2>1. LengthRead(h, bytes, k)
    BY DEF FieldsRead
  <2> QED
    BY <1>1, <1>2, <1>4, <2>1 DEF LengthRead
<1>7. CloseRead(new, bytes, k + 1)
  <2>1. CloseRead(h, bytes, k)
    BY DEF FieldsRead
  <2>2. CASE l.name = "close"
    BY <1>1, <1>4, <2>2 DEF CloseRead
  <2>3. CASE l.name = "keepAlive"
    BY <1>1, <1>4, <2>3 DEF CloseRead
  <2>4. CASE l.name # "close" /\ l.name # "keepAlive"
    <3>1. new.connectionClose = h.connectionClose
      BY <1>4, <2>4
    <3> QED
      BY <1>1, <1>2, <2>1, <2>4, <3>1 DEF CloseRead
  <2> QED
    BY <2>2, <2>3, <2>4
<1>8. LimitsRead(new, bytes, k + 1)
  <2>1. LimitsRead(h, bytes, k)
    BY DEF FieldsRead
  <2> QED
    BY <1>1, <1>2, <1>4, <2>1 DEF LimitsRead
<1> QED
  BY <1>5, <1>6, <1>7, <1>8 DEF FieldsRead, new

\* The fold over all of them.
LEMMA AllRead ==
  ASSUME NEW bytes \in Seq(Bytes)
  PROVE  LET read == FoldLeft(ReadLine, NewHdr, bytes)
         IN  read \in Hdr /\ FieldsRead(read, bytes, Len(bytes))
<1> DEFINE n == Len(bytes)
<1>1. n \in Nat
  BY LenProperties
<1>2. PICK g \in [0..n -> Hdr] :
        /\ g[0] = NewHdr
        /\ \A k \in 1..n : g[k] = ReadLine(g[k - 1], bytes[k])
        /\ FoldLeft(ReadLine, NewHdr, bytes) = g[n]
  BY ReadFacts
<1> DEFINE T == {k \in Nat : k <= n => FieldsRead(g[k], bytes, k)}
<1>3. 0 \in T
  BY <1>2, NothingRead
<1>4. ASSUME NEW k \in Nat, k \in T
      PROVE  k + 1 \in T
  <2>1. CASE k + 1 <= n
    <3>1. k <= n /\ k + 1 \in 1..n /\ (k + 1) - 1 = k /\ k \in 0..n
      BY <1>1, <2>1
    <3>2. FieldsRead(g[k], bytes, k) /\ g[k] \in Hdr
      BY <1>4, <3>1
    <3>3. g[k + 1] = ReadLine(g[k], bytes[k + 1])
      BY <1>2, <3>1
    <3>4. FieldsRead(ReadLine(g[k], bytes[k + 1]), bytes, k + 1)
      BY <2>1, <3>2, OneMoreRead
    <3> QED
      BY <3>3, <3>4
  <2> QED
    BY <2>1
<1> HIDE DEF T
<1>5. Nat \subseteq T
  BY <1>3, <1>4, AllNumbers
<1>6. FieldsRead(g[n], bytes, n) /\ g[n] \in Hdr
  BY <1>1, <1>5 DEF T
<1> QED
  BY <1>2, <1>6

\* The lines among the bytes of a header.
LEMMA LinesAmongBytes ==
  ASSUME NEW a, WellFormed(a)
  PROVE  LET H == HeaderBytes(a)
         IN  /\ \A i \in 1..Len(H) : \/ \E k \in DOMAIN a.lines : H[i] = a.lines[k]
                                     \/ H[i] = CR \/ H[i] = LF
             /\ \A k \in DOMAIN a.lines : \E i \in 1..Len(H) : H[i] = a.lines[k]
<1> DEFINE H == HeaderBytes(a)
           L == Len(a.lines)
<1>1. /\ Len(H) = 3 * L + 2
      /\ \A k \in 1..L : H[3 * k - 2] = a.lines[k] /\ H[3 * k - 1] = CR /\ H[3 * k] = LF
      /\ H[3 * L + 1] = CR /\ H[3 * L + 2] = LF
  BY HeaderShape
<1>2. L \in Nat \ {0} /\ DOMAIN a.lines = 1..L
  BY AnswerFacts
<1> HIDE DEF H, L
<1>3. ASSUME NEW i \in 1..Len(H)
      PROVE  (\E k \in DOMAIN a.lines : H[i] = a.lines[k]) \/ H[i] = CR \/ H[i] = LF
  <2>1. i \in Nat \ {0} /\ i <= 3 * L + 2
    BY <1>1, <1>2
  <2>2. PICK k \in Nat \ {0} : i \in {3 * k - 2, 3 * k - 1, 3 * k}
    BY <2>1, Thirds
  <2>3. CASE k <= L
    <3>1. k \in 1..L
      BY <1>2, <2>3
    <3> QED
      BY <1>1, <1>2, <2>2, <3>1
  <2>4. CASE ~(k <= L)
    <3>1. i = 3 * L + 1 \/ i = 3 * L + 2
      BY <1>2, <2>1, <2>2, <2>4
    <3> QED
      BY <1>1, <3>1
  <2> QED
    BY <2>3, <2>4
<1>4. ASSUME NEW k \in DOMAIN a.lines
      PROVE  \E i \in 1..Len(H) : H[i] = a.lines[k]
  <2>1. k \in 1..L /\ 3 * k - 2 \in 1..(3 * L + 2)
    BY <1>2
  <2> QED
    BY <1>1, <2>1
<1> QED
  BY <1>3, <1>4 DEF H

\* CR and LF are no lines.
LEMMA NoNames ==
  /\ CR.name = "CR" /\ LF.name = "LF"
BY DEF CR, LF, Line

\* What is read of a header, told by its lines.
LEMMA HeaderIsRead ==
  ASSUME NEW a, WellFormed(a)
  PROVE  LET read == FoldLeft(ReadLine, NewHdr, HeaderBytes(a))
         IN  /\ read \in Hdr
             /\ \E k \in DOMAIN a.lines : a.lines[k].name = "status" /\ read.statusCode = a.lines[k].n
             /\ \/ \E k \in DOMAIN a.lines : a.lines[k].name = "length" /\ read.contentLength = a.lines[k].n
                \/ read.contentLength = -1 /\ ~Has(a, "length")
             /\ read.connectionClose \in {-1, 0, 1}
             /\ read.connectionClose = 1 <=> Has(a, "close")
             /\ \/ \E k \in DOMAIN a.lines : /\ a.lines[k].name = "limits"
                                             /\ read.keepAliveMax = a.lines[k].n
                                             /\ read.keepAliveTimeout = 1000000 * a.lines[k].m
                \/ read.keepAliveMax = -1 /\ read.keepAliveTimeout = -1 /\ ~Has(a, "limits")
<1> DEFINE H == HeaderBytes(a)
           read == FoldLeft(ReadLine, NewHdr, H)
           n == Len(H)
<1>1. H \in Seq(Bytes)
  BY HeaderShape
<1> HIDE DEF H
<1>2. read \in Hdr /\ FieldsRead(read, H, n)
  BY <1>1, AllRead
<1> HIDE DEF read, n
<1>3. \A i \in 1..n : (\E k \in DOMAIN a.lines : H[i] = a.lines[k]) \/ H[i] = CR \/ H[i] = LF
  BY LinesAmongBytes DEF H, n
<1>4. \A k \in DOMAIN a.lines : \E i \in 1..n : H[i] = a.lines[k]
  BY LinesAmongBytes DEF H, n
<1>5. \A name \in {"status", "length", "close", "keepAlive", "limits"} :
        \A i \in 1..n : H[i].name = name => \E k \in DOMAIN a.lines : H[i] = a.lines[k]
  BY <1>3, NoNames
<1>6. 1 \in DOMAIN a.lines /\ a.lines[1].name = "status"
  BY AnswerFacts DEF WellFormed
<1>7. \E k \in DOMAIN a.lines : a.lines[k].name = "status" /\ read.statusCode = a.lines[k].n
  <2>1. StatusRead(read, H, n)
    BY <1>2 DEF FieldsRead
  <2>2. \E i \in 1..n : H[i].name = "status" /\ read.statusCode = H[i].n
    <3>1. PICK i \in 1..n : H[i] = a.lines[1]
      BY <1>4, <1>6
    <3>2. H[i].name = "status"
      BY <1>6, <3>1
    <3> QED
      BY <2>1, <3>2 DEF StatusRead
  <2>3. PICK i \in 1..n : H[i].name = "status" /\ read.statusCode = H[i].n
    BY <2>2
  <2>4. PICK k \in DOMAIN a.lines : H[i] = a.lines[k]
    BY <1>5, <2>3
  <2> QED
    BY <2>3, <2>4
<1>8. \/ \E k \in DOMAIN a.lines : a.lines[k].name = "length" /\ read.contentLength = a.lines[k].n
      \/ read.contentLength = -1 /\ ~Has(a, "length")
  <2>1. LengthRead(read, H, n)
    BY <1>2 DEF FieldsRead
  <2>2. CASE \E i \in 1..n : H[i].name = "length" /\ read.contentLength = H[i].n
    <3>1. PICK i \in 1..n : H[i].name = "length" /\ read.contentLength = H[i].n
      BY <2>2
    <3>2. PICK k \in DOMAIN a.lines : H[i] = a.lines[k]
      BY <1>5, <3>1
    <3> QED
      BY <3>1, <3>2
  <2>3. CASE read.contentLength = -1 /\ \A i \in 1..n : H[i].name # "length"
    <3>1. ~Has(a, "length")
      BY <1>4, <2>3 DEF Has
    <3> QED
      BY <2>3, <3>1
  <2> QED
    BY <2>1, <2>2, <2>3 DEF LengthRead
<1>9. read.connectionClose \in {-1, 0, 1} /\ (read.connectionClose = 1 <=> Has(a, "close"))
  <2>1. CloseRead(read, H, n)
    BY <1>2 DEF FieldsRead
  <2>2. CASE \E i \in 1..n : H[i].name = "close" /\ read.connectionClose = 1
    <3>1. PICK i \in 1..n : H[i].name = "close" /\ read.connectionClose = 1
      BY <2>2
    <3>2. PICK k \in DOMAIN a.lines : H[i] = a.lines[k]
      BY <1>5, <3>1
    <3>3. Has(a, "close")
      BY <3>1, <3>2 DEF Has
    <3> QED
      BY <3>1, <3>3
  <2>3. CASE \E i \in 1..n : H[i].name = "keepAlive" /\ read.connectionClose = 0
    <3>1. PICK i \in 1..n : H[i].name = "keepAlive" /\ read.connectionClose = 0
      BY <2>3
    <3>2. PICK k \in DOMAIN a.lines : H[i] = a.lines[k]
      BY <1>5, <3>1
    <3>3. ~Has(a, "close")
      <4> SUFFICES ASSUME NEW j \in DOMAIN a.lines, a.lines[j].name = "close"
                   PROVE  FALSE
        BY DEF Has
      <4>1. a.lines[k].name = "keepAlive"
        BY <3>1, <3>2
      <4>2. j = k
        BY <4>1 DEF WellFormed, HasOne
      <4> QED
        BY <4>1, <4>2
    <3> QED
      BY <3>1, <3>3
  <2>4. CASE read.connectionClose = -1 /\ \A i \in 1..n : H[i].name # "close"
    <3>1. ~Has(a, "close")
      BY <1>4, <2>4 DEF Has
    <3> QED
      BY <2>4, <3>1
  <2> QED
    BY <2>1, <2>2, <2>3, <2>4 DEF CloseRead
<1>10. \/ \E k \in DOMAIN a.lines : /\ a.lines[k].name = "limits"
                                    /\ read.keepAliveMax = a.lines[k].n
                                    /\ read.keepAliveTimeout = 1000000 * a.lines[k].m
       \/ read.keepAliveMax = -1 /\ read.keepAliveTimeout = -1 /\ ~Has(a, "limits")
  <2>1. LimitsRead(read, H, n)
    BY <1>2 DEF FieldsRead
  <2>2. CASE \E i \in 1..n : /\ H[i].name = "limits" /\ read.keepAliveMax = H[i].n
                             /\ read.keepAliveTimeout = 1000000 * H[i].m
    <3>1. PICK i \in 1..n : /\ H[i].name = "limits" /\ read.keepAliveMax = H[i].n
                            /\ read.keepAliveTimeout = 1000000 * H[i].m
      BY <2>2
    <3>2. PICK k \in DOMAIN a.lines : H[i] = a.lines[k]
      BY <1>5, <3>1
    <3> QED
      BY <3>1, <3>2
  <2>3. CASE /\ read.keepAliveMax = -1 /\ read.keepAliveTimeout = -1
             /\ \A i \in 1..n : H[i].name # "limits"
    <3>1. ~Has(a, "limits")
      BY <1>4, <2>3 DEF Has
    <3> QED
      BY <2>3, <3>1
  <2> QED
    BY <2>1, <2>2, <2>3 DEF LimitsRead
<1> QED
  BY <1>2, <1>7, <1>8, <1>9, <1>10 DEF H, read

-----------------------------------------------------------------------------
(* What is wrong with a header *)

\* What is wrong with a line that the parser rejects, and with a header.
LineFaults == {"badStatus", "unknownConnection", "badLimits"}
HeaderFaults == LineFaults \cup {"closeWithLimits", "redirect", "noLimits", "timeoutChanged"}

\* Which lines it rejects.
LEMMA LineFaultCases ==
  ASSUME NEW l
  PROVE  /\ LineFault(l) \in LineFaults \cup {"none"}
         /\ LineFault(l) # "none" =>
              \/ l.name = "connection"
              \/ l.name = "status" /\ l.n \notin {200, 302}
              \/ l.name = "limits" /\ (l.n <= 0 \/ l.m <= 0)
         /\ l.name = "limits" /\ LineFault(l) = "none" => ~(l.n <= 0 \/ l.m <= 0)
<1> DEFINE s == l.name = "status" /\ l.n \notin {200, 302}
           c == l.name = "connection"
           k == l.name = "limits" /\ (l.n <= 0 \/ l.m <= 0)
<1>0. LineFault(l) = CASE s -> "badStatus" [] c -> "unknownConnection" [] k -> "badLimits"
                       [] OTHER -> "none"
  BY DEF LineFault
<1>a. ~(s /\ c) /\ ~(s /\ k) /\ ~(c /\ k)
  OBVIOUS
<1> HIDE DEF s, c, k
<1>1. ASSUME s PROVE LineFault(l) = "badStatus"
  BY <1>0, <1>1, <1>a
<1>2. ASSUME c PROVE LineFault(l) = "unknownConnection"
  BY <1>0, <1>2, <1>a
<1>3. ASSUME k PROVE LineFault(l) = "badLimits"
  BY <1>0, <1>3, <1>a
<1>4. ASSUME ~s, ~c, ~k PROVE LineFault(l) = "none"
  BY <1>0, <1>4
<1> QED
  BY <1>1, <1>2, <1>3, <1>4 DEF s, c, k, LineFaults

\* The first place of a set of places.
LEMMA First ==
  ASSUME NEW n \in Nat, NEW s \in SUBSET (1..n), s # {}
  PROVE  Min(s) \in s
<1>1. s \subseteq Nat
  OBVIOUS
<1>2. \E i \in s : \A j \in s : i <= j
  BY <1>1, LeastElement
<1> QED
  BY <1>2 DEF Min

\* The fault of a header is that of one of its lines, if it has such a line.
LEMMA RejectedCases ==
  ASSUME NEW bytes \in Seq(Bytes)
  PROVE  /\ Rejected(bytes) \in LineFaults \cup {"none"}
         /\ Rejected(bytes) # "none" =>
              \E i \in 1..Len(bytes) : LineFault(bytes[i]) # "none"
         /\ Rejected(bytes) = "none" =>
              \A i \in 1..Len(bytes) : LineFault(bytes[i]) = "none"
<1> DEFINE lines == {i \in DOMAIN bytes : LineFault(bytes[i]) # "none"}
<1>1. DOMAIN bytes = 1..Len(bytes) /\ Len(bytes) \in Nat
  BY LenProperties
<1>2. Rejected(bytes) = IF lines = {} THEN "none" ELSE LineFault(bytes[Min(lines)])
  BY DEF Rejected
<1>3. CASE lines = {}
  BY <1>1, <1>2, <1>3
<1>4. CASE lines # {}
  <2>1. Min(lines) \in lines
    BY <1>1, <1>4, First
  <2>2. LineFault(bytes[Min(lines)]) # "none" /\ Min(lines) \in 1..Len(bytes)
    BY <1>1, <2>1
  <2> HIDE DEF lines
  <2> QED
    BY <1>2, <1>4, <2>2, LineFaultCases
<1> QED
  BY <1>3, <1>4

\* What is wrong with a header that ends the process.
LEMMA HeaderFaultCases ==
  ASSUME NEW read, NEW hdr, NEW rejected
  PROVE  LET f == HeaderFault(read, hdr, rejected)
             closes == read.connectionClose = 1
         IN  /\ rejected # "none" => f = rejected
             /\ rejected = "none" =>
                  /\ f \in {"none", "closeWithLimits", "redirect", "noLimits", "timeoutChanged"}
                  /\ f # "none" =>
                       \/ closes /\ (read.keepAliveMax # -1 \/ read.keepAliveTimeout # -1)
                       \/ read.statusCode # 200
                       \/ ~closes /\ ~(hdr.connectionClose = 0 /\ hdr.keepAliveMax > 0
                                       /\ hdr.keepAliveTimeout > 0)
                       \/ ~closes /\ timeoutKnown # -1 /\ hdr.keepAliveTimeout # timeoutKnown
                  /\ f = "none" /\ closes => read.keepAliveMax = -1 /\ read.keepAliveTimeout = -1
                  /\ f = "none" /\ ~closes => hdr.keepAliveMax > 0 /\ hdr.keepAliveTimeout > 0
<1> DEFINE f == HeaderFault(read, hdr, rejected)
           closes == read.connectionClose = 1
           A == closes /\ (read.keepAliveMax # -1 \/ read.keepAliveTimeout # -1)
           B == read.statusCode # 200
           K == hdr.connectionClose = 0 /\ hdr.keepAliveMax > 0 /\ hdr.keepAliveTimeout > 0
           C == timeoutKnown # -1 /\ hdr.keepAliveTimeout # timeoutKnown
           r == rejected = "none"
           M == hdr.keepAliveMax > 0 /\ hdr.keepAliveTimeout > 0
           N == read.keepAliveMax # -1 \/ read.keepAliveTimeout # -1
<1>0. f = CASE ~r -> rejected
            [] r /\ A -> "closeWithLimits"
            [] r /\ B -> "redirect"
            [] r /\ ~closes /\ ~K -> "noLimits"
            [] r /\ ~closes /\ C -> "timeoutChanged"
            [] OTHER -> "none"
  BY DEF HeaderFault
<1>a. (K => M) /\ (A <=> closes /\ N)
  OBVIOUS
<1> HIDE DEF f, closes, A, B, K, C, r, M, N
<1>1. ~r => f = rejected
  BY <1>0
<1>2. r => \/ f = "closeWithLimits" /\ A
           \/ f = "redirect" /\ B
           \/ f = "noLimits" /\ ~closes /\ ~K
           \/ f = "timeoutChanged" /\ ~closes /\ C
           \/ f = "none" /\ ~A /\ ~B /\ (closes \/ K)
  BY <1>0
<1> QED
  BY <1>1, <1>2, <1>a DEF f, closes, A, B, K, C, r, M, N

-----------------------------------------------------------------------------
(* What a header is parsed into *)

\* The defaults of a header.
LEMMA Defaults ==
  ASSUME NEW h \in Hdr
  PROVE  LET d == WithDefaults(h)
         IN  /\ d \in Hdr
             /\ d.contentLength = h.contentLength
             /\ d.connectionClose = IF h.connectionClose = -1 THEN 0 ELSE h.connectionClose
             /\ d.keepAliveMax = IF h.keepAliveMax = -1 THEN 10000 ELSE h.keepAliveMax
             /\ d.keepAliveTimeout = IF h.keepAliveTimeout = -1 THEN 3600 ELSE h.keepAliveTimeout
<1> DEFINE x == IF h.connectionClose = -1 THEN 0 ELSE h.connectionClose
           y == IF h.keepAliveMax = -1 THEN 10000 ELSE h.keepAliveMax
           z == IF h.keepAliveTimeout = -1 THEN 3600 ELSE h.keepAliveTimeout
           g == [h EXCEPT !.connectionClose = x]
           k == [g EXCEPT !.keepAliveMax = y]
<1>1. x \in Int /\ y \in Int /\ z \in Int
  BY DEF Hdr
<1>2. WithDefaults(h) = [h EXCEPT !.connectionClose = x, !.keepAliveMax = y,
                                  !.keepAliveTimeout = z]
  BY DEF WithDefaults
<1> HIDE DEF x, y, z
<1>3. /\ g \in Hdr /\ g.connectionClose = x /\ g.keepAliveMax = h.keepAliveMax
      /\ g.keepAliveTimeout = h.keepAliveTimeout /\ g.contentLength = h.contentLength
  BY SMT, <1>1 DEF Hdr
<1>4. WithDefaults(h) = [k EXCEPT !.keepAliveTimeout = z]
  BY <1>2
<1> HIDE DEF g
<1>5. /\ k \in Hdr /\ k.connectionClose = x /\ k.keepAliveMax = y
      /\ k.keepAliveTimeout = h.keepAliveTimeout /\ k.contentLength = h.contentLength
  BY SMT, <1>1, <1>3 DEF Hdr
<1> HIDE DEF k
<1>6. /\ WithDefaults(h) \in Hdr /\ WithDefaults(h).connectionClose = x
      /\ WithDefaults(h).keepAliveMax = y /\ WithDefaults(h).keepAliveTimeout = z
      /\ WithDefaults(h).contentLength = h.contentLength
  BY SMT, <1>1, <1>4, <1>5 DEF Hdr
<1> QED
  BY <1>6 DEF x, y, z

\* What any header is parsed into.
LEMMA ParsedIsTyped ==
  ASSUME NEW bytes \in Seq(Bytes)
  PROVE  /\ ParseHeader(bytes).hdr \in Hdr
         /\ ParseHeader(bytes).fault \in HeaderFaults \cup {"none"}
<1> DEFINE read == FoldLeft(ReadLine, NewHdr, bytes)
           hdr  == IF read.connectionClose = 1 THEN read ELSE WithDefaults(read)
           rejected == Rejected(bytes)
<1>1. read \in Hdr
  BY AllRead
<1>2. ParseHeader(bytes) = [hdr |-> hdr, fault |-> HeaderFault(read, hdr, rejected)]
  BY DEF ParseHeader
<1> HIDE DEF read
<1>3. hdr \in Hdr
  BY <1>1, Defaults
<1>4. rejected \in LineFaults \cup {"none"}
  BY RejectedCases
<1> HIDE DEF hdr, rejected
<1>5. HeaderFault(read, hdr, rejected) \in HeaderFaults \cup {"none"}
  <2>1. CASE rejected # "none"
    <3>1. HeaderFault(read, hdr, rejected) = rejected
      BY <2>1, HeaderFaultCases
    <3> QED
      BY <1>4, <3>1 DEF HeaderFaults
  <2>2. CASE rejected = "none"
    <3>1. HeaderFault(read, hdr, rejected) \in
            {"none", "closeWithLimits", "redirect", "noLimits", "timeoutChanged"}
      BY <2>2, HeaderFaultCases
    <3> QED
      BY <3>1 DEF HeaderFaults
  <2> QED
    BY <2>1, <2>2
<1> QED
  BY <1>2, <1>3, <1>5

\* The limits that a header announces.
LEMMA TimeoutOfLimits ==
  ASSUME NEW a, WellFormed(a), NEW k \in DOMAIN a.lines, a.lines[k].name = "limits"
  PROVE  Has(a, "limits") /\ TimeoutOf(a) = 1000000 * a.lines[k].m
<1> DEFINE i == CHOOSE i \in DOMAIN a.lines : a.lines[i].name = "limits"
<1>1. Has(a, "limits")
  BY DEF Has
<1>2. i \in DOMAIN a.lines /\ a.lines[i].name = "limits"
  OBVIOUS
<1>3. i = k
  BY <1>2 DEF WellFormed, HasOne
<1>4. TimeoutOf(a) = 1000000 * a.lines[i].m
  BY <1>1 DEF TimeoutOf
<1> HIDE DEF i
<1> QED
  BY <1>1, <1>3, <1>4

\* What the header of an answer is parsed into.
LEMMA HeaderIsParsed ==
  ASSUME NEW a, WellFormed(a)
  PROVE  LET parsed == ParseHeader(HeaderBytes(a))
         IN  /\ \/ \E k \in DOMAIN a.lines :
                     a.lines[k].name = "length" /\ parsed.hdr.contentLength = a.lines[k].n
                \/ parsed.hdr.contentLength = -1 /\ ~Has(a, "length")
             /\ parsed.fault # "none" =>
                  \/ Unsupported(a)
                  \/ ~Has(a, "close") /\ timeoutKnown # -1 /\ TimeoutOf(a) # timeoutKnown
             /\ parsed.fault = "none" /\ ~Has(a, "close") =>
                  IsFirst(parsed.hdr) /\ parsed.hdr.keepAliveTimeout = TimeoutOf(a)
             /\ parsed.fault = "none" /\ Has(a, "close") => ~IsFirst(parsed.hdr)
<1> DEFINE H == HeaderBytes(a)
           read == FoldLeft(ReadLine, NewHdr, H)
           hdr  == IF read.connectionClose = 1 THEN read ELSE WithDefaults(read)
           rejected == Rejected(H)
           fault == HeaderFault(read, hdr, rejected)
           OneLimit(h) == \E k \in DOMAIN a.lines :
                            /\ a.lines[k].name = "limits" /\ h.keepAliveMax = a.lines[k].n
                            /\ h.keepAliveTimeout = 1000000 * a.lines[k].m
           NoLimit(h) == h.keepAliveMax = -1 /\ h.keepAliveTimeout = -1 /\ ~Has(a, "limits")
<1>1. ParseHeader(H) = [hdr |-> hdr, fault |-> fault]
  BY DEF ParseHeader
<1>2. H \in Seq(Bytes)
  BY HeaderShape
<1>3. /\ read \in Hdr
      /\ \E k \in DOMAIN a.lines : a.lines[k].name = "status" /\ read.statusCode = a.lines[k].n
      /\ \/ \E k \in DOMAIN a.lines : a.lines[k].name = "length" /\ read.contentLength = a.lines[k].n
         \/ read.contentLength = -1 /\ ~Has(a, "length")
      /\ read.connectionClose \in {-1, 0, 1}
      /\ read.connectionClose = 1 <=> Has(a, "close")
      /\ OneLimit(read) \/ NoLimit(read)
  BY HeaderIsRead
<1> HIDE DEF read
<1>4. hdr.contentLength = read.contentLength
  BY <1>3, Defaults
<1>5. /\ rejected # "none" => fault = rejected
      /\ rejected = "none" =>
           /\ fault # "none" =>
                \/ read.connectionClose = 1 /\ (read.keepAliveMax # -1 \/ read.keepAliveTimeout # -1)
                \/ read.statusCode # 200
                \/ read.connectionClose # 1
                   /\ ~(hdr.connectionClose = 0 /\ hdr.keepAliveMax > 0 /\ hdr.keepAliveTimeout > 0)
                \/ read.connectionClose # 1 /\ timeoutKnown # -1 /\ hdr.keepAliveTimeout # timeoutKnown
           /\ fault = "none" /\ read.connectionClose = 1 =>
                read.keepAliveMax = -1 /\ read.keepAliveTimeout = -1
           /\ fault = "none" /\ read.connectionClose # 1 =>
                hdr.keepAliveMax > 0 /\ hdr.keepAliveTimeout > 0
  BY HeaderFaultCases
<1> HIDE DEF fault
<1>6. ASSUME NEW k \in DOMAIN a.lines
      PROVE  a.lines[k].n \in Int /\ a.lines[k].m \in Int
  <2>1. a.lines[k] \in Lines
    BY AnswerFacts, ElementOfSeq
  <2> QED
    BY <2>1 DEF Lines
<1>7. ASSUME NEW k \in DOMAIN a.lines,
             \/ a.lines[k].name = "connection"
             \/ a.lines[k].name = "status" /\ a.lines[k].n # 200
             \/ a.lines[k].name = "limits" /\ (a.lines[k].n <= 0 \/ a.lines[k].m <= 0)
      PROVE  Unsupported(a)
  BY <1>7 DEF Unsupported
<1>8. rejected # "none" => Unsupported(a)
  <2> SUFFICES ASSUME rejected # "none" PROVE Unsupported(a)
    OBVIOUS
  <2>1. PICK i \in 1..Len(H) : LineFault(H[i]) # "none"
    BY <1>2, RejectedCases
  <2> DEFINE l == H[i]
  <2>2. \/ l.name = "connection"
        \/ l.name = "status" /\ l.n \notin {200, 302}
        \/ l.name = "limits" /\ (l.n <= 0 \/ l.m <= 0)
    BY <2>1, LineFaultCases
  <2>3. (\E k \in DOMAIN a.lines : l = a.lines[k]) \/ l = CR \/ l = LF
    BY LinesAmongBytes
  <2> HIDE DEF l
  <2>4. PICK k \in DOMAIN a.lines : l = a.lines[k]
    BY <2>2, <2>3, NoNames
  <2> QED
    BY <1>7, <2>2, <2>4
<1>9. ASSUME OneLimit(read)
      PROVE  TimeoutOf(a) = read.keepAliveTimeout /\ Has(a, "limits")
  BY <1>9, TimeoutOfLimits
<1>10. ASSUME NoLimit(read)
       PROVE  TimeoutOf(a) = 3600
  BY <1>10 DEF TimeoutOf
<1>11. ASSUME ~Has(a, "close")
       PROVE  /\ read.connectionClose # 1 /\ hdr.connectionClose = 0
              /\ hdr.keepAliveTimeout = TimeoutOf(a)
              /\ Unsupported(a) \/ (hdr.keepAliveMax > 0 /\ hdr.keepAliveTimeout > 0)
  <2>1. read.connectionClose # 1 /\ read.connectionClose \in {-1, 0}
    BY <1>3, <1>11
  <2>2. /\ hdr.connectionClose = 0
        /\ hdr.keepAliveMax = IF read.keepAliveMax = -1 THEN 10000 ELSE read.keepAliveMax
        /\ hdr.keepAliveTimeout = IF read.keepAliveTimeout = -1 THEN 3600 ELSE read.keepAliveTimeout
    BY <1>3, <2>1, Defaults
  <2> HIDE DEF hdr
  <2>3. CASE NoLimit(read)
    BY <1>10, <2>1, <2>2, <2>3
  <2>4. CASE OneLimit(read)
    <3>1. PICK k \in DOMAIN a.lines : /\ a.lines[k].name = "limits"
                                      /\ read.keepAliveMax = a.lines[k].n
                                      /\ read.keepAliveTimeout = 1000000 * a.lines[k].m
      BY <2>4
    <3> DEFINE n == a.lines[k].n
               m == a.lines[k].m
    <3>2. n \in Int /\ m \in Int
      BY <1>6
    <3>3. (n <= 0 \/ m <= 0) => Unsupported(a)
      BY <1>7, <3>1
    <3>4. read.keepAliveMax = n /\ read.keepAliveTimeout = 1000000 * m
      BY <3>1
    <3> HIDE DEF n, m
    <3>5. read.keepAliveTimeout # -1
      BY <3>2, <3>4
    <3>8. TimeoutOf(a) = read.keepAliveTimeout
      BY <1>9, <2>4
    <3>6. hdr.keepAliveTimeout = TimeoutOf(a) /\ hdr.keepAliveTimeout = 1000000 * m
      BY <2>2, <3>4, <3>5, <3>8
    <3>7. n > 0 /\ m > 0 => hdr.keepAliveMax > 0 /\ hdr.keepAliveTimeout > 0
      BY <2>2, <3>2, <3>4, <3>6
    <3> QED
      BY <2>1, <2>2, <3>2, <3>3, <3>6, <3>7
  <2> QED
    BY <1>3, <2>3, <2>4
<1>12. ASSUME Has(a, "close")
       PROVE  read.connectionClose = 1 /\ hdr = read
  BY <1>3, <1>12
<1>13. ASSUME fault # "none"
       PROVE  \/ Unsupported(a)
              \/ ~Has(a, "close") /\ timeoutKnown # -1 /\ TimeoutOf(a) # timeoutKnown
  <2> SUFFICES ASSUME rejected = "none", ~Unsupported(a)
               PROVE  ~Has(a, "close") /\ timeoutKnown # -1 /\ TimeoutOf(a) # timeoutKnown
    BY <1>8
  <2>1. read.statusCode = 200
    BY <1>3, <1>7
  <2>2. ~(Has(a, "close") /\ Has(a, "limits"))
    BY DEF Unsupported
  <2> HIDE DEF hdr, rejected
  <2>3. CASE Has(a, "close")
    <3>1. NoLimit(read)
      BY <1>3, <1>9, <2>2, <2>3
    <3> QED
      BY <1>5, <1>12, <1>13, <2>1, <2>3, <3>1
  <2>4. CASE ~Has(a, "close")
    BY <1>5, <1>11, <1>13, <2>1, <2>4
  <2> QED
    BY <2>3, <2>4
<1>14. ASSUME fault = "none", ~Has(a, "close")
       PROVE  IsFirst(hdr) /\ hdr.keepAliveTimeout = TimeoutOf(a)
  <2> HIDE DEF hdr, rejected
  <2> QED
    BY <1>5, <1>11, <1>14 DEF IsFirst
<1>15. ASSUME fault = "none", Has(a, "close")
       PROVE  ~IsFirst(hdr)
  <2> HIDE DEF hdr, rejected
  <2>1. hdr.keepAliveMax = -1
    BY <1>5, <1>12, <1>15
  <2> QED
    BY <2>1 DEF IsFirst
<1>16. /\ ParseHeader(H).hdr = hdr /\ ParseHeader(H).fault = fault
  BY <1>1
<1> HIDE DEF hdr
<1> QED
  BY <1>3, <1>4, <1>13, <1>14, <1>15, <1>16

-----------------------------------------------------------------------------
(* One call of parseData() *)

\* A request that receives its answer.
Requests == [hdrBytes : Seq(Bytes), hdr : Hdr, hdrCompleted : BOOLEAN, payload : Seq(Bytes)]

\* A field of it is changed.
LEMMA RequestFields ==
  ASSUME NEW B, NEW H, NEW r \in [hdrBytes : B, hdr : H, hdrCompleted : BOOLEAN, payload : B],
         NEW b \in B, NEW h \in H, NEW c \in BOOLEAN
  PROVE  LET R == [hdrBytes : B, hdr : H, hdrCompleted : BOOLEAN, payload : B]
             x == [r EXCEPT !.hdrBytes = b]
             y == [r EXCEPT !.hdr = h]
             z == [r EXCEPT !.payload = b]
             w == [r EXCEPT !.hdrCompleted = c]
         IN  /\ x \in R /\ x.hdrBytes = b /\ x.hdr = r.hdr
             /\ x.hdrCompleted = r.hdrCompleted /\ x.payload = r.payload
             /\ y \in R /\ y.hdrBytes = r.hdrBytes /\ y.hdr = h
             /\ y.hdrCompleted = r.hdrCompleted /\ y.payload = r.payload
             /\ z \in R /\ z.hdrBytes = r.hdrBytes /\ z.hdr = r.hdr
             /\ z.hdrCompleted = r.hdrCompleted /\ z.payload = b
             /\ w \in R /\ w.hdrBytes = r.hdrBytes /\ w.hdr = r.hdr
             /\ w.hdrCompleted = c /\ w.payload = r.payload
OBVIOUS

\* Nothing is taken that is not there.
LEMMA EndIsInside ==
  ASSUME NEW g \in Seq(Bytes), NEW p \in Seq(Bytes)
  PROVE  EndOfHeader(g, p) \in 0..Len(p)
<1> DEFINE inside == {i \in 1..(Len(p) - 3) : SubSeq(p, i, i + 3) = BLANK}
           least == CHOOSE i \in inside : \A j \in inside : i <= j
<1>1. Len(p) \in Nat
  BY LenProperties
<1>2. \A n \in 1..3 : CutAfter(g, p, n) => Len(p) >= 4 - n
  BY CutAfterFacts
<1>3. inside # {} => 3 + least \in 0..Len(p)
  <2> SUFFICES ASSUME inside # {}
               PROVE  3 + least \in 0..Len(p)
    OBVIOUS
  <2>1. inside \subseteq 1..(Len(p) - 3) /\ inside \subseteq Nat
    OBVIOUS
  <2> HIDE DEF inside
  <2>2. \E i \in inside : \A j \in inside : i <= j
    BY <2>1, LeastElement
  <2>3. least \in inside
    BY <2>2
  <2> HIDE DEF least
  <2>4. least \in 1..(Len(p) - 3)
    BY <2>1, <2>3
  <2> QED
    BY <1>1, <2>4
<1>4. /\ CutAfter(g, p, 1) => EndOfHeader(g, p) = 3
      /\ ~CutAfter(g, p, 1) /\ CutAfter(g, p, 2) => EndOfHeader(g, p) = 2
      /\ ~CutAfter(g, p, 1) /\ ~CutAfter(g, p, 2) /\ CutAfter(g, p, 3) => EndOfHeader(g, p) = 1
      /\ ~CutAfter(g, p, 1) /\ ~CutAfter(g, p, 2) /\ ~CutAfter(g, p, 3) /\ inside # {} =>
           EndOfHeader(g, p) = 3 + least
      /\ ~CutAfter(g, p, 1) /\ ~CutAfter(g, p, 2) /\ ~CutAfter(g, p, 3) /\ inside = {} =>
           EndOfHeader(g, p) = 0
  BY EndOfHeaderCases
<1> HIDE DEF inside, least
<1>5. /\ CutAfter(g, p, 1) => Len(p) >= 3
      /\ CutAfter(g, p, 2) => Len(p) >= 2
      /\ CutAfter(g, p, 3) => Len(p) >= 1
  BY <1>1, <1>2
<1> QED
  BY <1>1, <1>3, <1>4, <1>5

\* What appendHdrBytes() and parseData() make of a request whose header is not complete.
LEMMA HeadCases ==
  ASSUME NEW r \in Requests, NEW p \in Seq(Bytes), p # <<>>
  PROVE  LET n     == EndOfHeader(r.hdrBytes, p)
             taken == IF n = 0 THEN Len(p) ELSE n
             new   == r.hdrBytes \o SubSeq(p, 1, taken)
             ended == IsSuffix(BLANK, new)
             head  == ParseHeaderBytes(r, p)
         IN  /\ head = [r |-> head.r, taken |-> taken, fault |-> head.fault]
             /\ head.r \in Requests /\ taken \in 1..Len(p)
             /\ head.r.hdrBytes = new /\ head.r.hdrCompleted = ended
             /\ head.r.payload = r.payload
             /\ head.r.hdr = IF ended THEN ParseHeader(new).hdr ELSE r.hdr
             /\ head.fault \in HeaderFaults \cup {"headerTooLong", "none"}
             /\ head.fault # "none" =>
                  \/ Len(new) > MaxHeader
                  \/ ended /\ head.fault = ParseHeader(new).fault
             /\ head.fault = "none" /\ ended => ParseHeader(new).fault = "none"
<1> DEFINE n     == EndOfHeader(r.hdrBytes, p)
           taken == IF n = 0 THEN Len(p) ELSE n
           new   == r.hdrBytes \o SubSeq(p, 1, taken)
           ended == IsSuffix(BLANK, new)
           parsed == ParseHeader(new)
           long == Len(new) > MaxHeader
           short == Len(new) <= MaxHeader
           h == IF ended THEN parsed.hdr ELSE r.hdr
           q == [r EXCEPT !.hdrBytes = new, !.hdrCompleted = ended, !.hdr = h]
           f == CASE long -> "headerTooLong" [] short /\ ended -> parsed.fault [] OTHER -> "none"
           head  == ParseHeaderBytes(r, p)
<1>1. /\ r.hdrBytes \in Seq(Bytes) /\ r.hdr \in Hdr /\ r.hdrCompleted \in BOOLEAN
      /\ r.payload \in Seq(Bytes)
  BY DEF Requests
<1>2. Len(p) \in Nat /\ Len(p) >= 1
  BY EmptySeq, LenProperties
<1>3. n \in 0..Len(p)
  BY <1>1, EndIsInside
<1> HIDE DEF n
<1>4. taken \in 1..Len(p)
  BY <1>2, <1>3
<1>5. head = [r |-> q, taken |-> taken, fault |-> f]
  BY DEF ParseHeaderBytes, AppendHdrBytes, n
<1> HIDE DEF taken
<1>6. new \in Seq(Bytes)
  <2>1. taken \in 0..Len(p)
    BY <1>2, <1>4
  <2>2. SubSeq(p, 1, taken) \in Seq(Bytes)
    BY <2>1, CutFacts
  <2> QED
    BY <1>1, <2>2, ConcatProperties
<1>7. ended \in BOOLEAN
  BY DEF IsSuffix, IsPrefix
<1> HIDE DEF new, ended
<1>8. parsed.hdr \in Hdr /\ parsed.fault \in HeaderFaults \cup {"none"}
  BY <1>6, ParsedIsTyped
<1> HIDE DEF parsed
<1>9. h \in Hdr
  BY <1>1, <1>8
<1> HIDE DEF h
<1>10. /\ q \in Requests /\ q.hdrBytes = new /\ q.hdrCompleted = ended /\ q.payload = r.payload
       /\ q.hdr = h
  <2> DEFINE x == [r EXCEPT !.hdrBytes = new]
             y == [x EXCEPT !.hdrCompleted = ended]
  <2>1. x \in Requests /\ x.hdrBytes = new /\ x.payload = r.payload
    BY <1>1, <1>6, <1>9, <1>7, RequestFields DEF Requests
  <2>2. q = [y EXCEPT !.hdr = h]
    OBVIOUS
  <2> HIDE DEF x
  <2>3. y \in Requests /\ y.hdrBytes = new /\ y.hdrCompleted = ended /\ y.payload = r.payload
    BY <1>6, <1>9, <1>7, <2>1, RequestFields DEF Requests
  <2> HIDE DEF y, q
  <2> QED
    BY <1>6, <1>7, <1>9, <2>2, <2>3, RequestFields DEF Requests
<1>11. Len(new) \in Nat /\ MaxHeader \in Nat
  BY <1>6, LenProperties, HttpHeaderAssumption
<1>12. (long <=> ~short)
  BY <1>11
<1> HIDE DEF long, short, q
<1>13. /\ long => f = "headerTooLong"
       /\ short /\ ended => f = parsed.fault
       /\ short /\ ~ended => f = "none"
  BY <1>7, <1>12
<1> HIDE DEF f
<1>14. /\ f \in HeaderFaults \cup {"headerTooLong", "none"}
       /\ f # "none" => long \/ (ended /\ f = parsed.fault)
       /\ f = "none" /\ ended => parsed.fault = "none"
  BY <1>7, <1>8, <1>12, <1>13
<1>15. head.r = q /\ head.fault = f
  BY <1>5
<1> HIDE DEF head
<1> QED
  BY <1>4, <1>5, <1>7, <1>10, <1>14, <1>15 DEF h, head, n, taken, new, ended, parsed, long

\* What parseData() makes of the bytes behind the header.
BodyStep(r, taken, fault, p, method) ==
  LET head == [r |-> r, taken |-> taken, fault |-> fault]
      rest == SubSeq(p, taken + 1, Len(p))
      got  == ParsePayload(head, p, method)
      done == rest = <<>> \/ Completed(r, method)
  IN  /\ fault # "none" => got = head
      /\ fault = "none" /\ done => got = head
      /\ fault = "none" /\ ~done /\ r.hdr.contentLength <= Len(r.payload) =>
           got.fault = "noLength"
      /\ fault = "none" /\ ~done /\ ~(r.hdr.contentLength <= Len(r.payload)) =>
           \E k \in 1..Len(rest) :
             /\ got.fault = "none" /\ got.taken = taken + k
             /\ got.r = [r EXCEPT !.payload = r.payload \o SubSeq(rest, 1, k)]
             /\ k <= r.hdr.contentLength - Len(r.payload)

\* It does that.
LEMMA BodyCases ==
  ASSUME NEW r \in Requests, NEW taken \in Nat, NEW fault, NEW method,
         NEW p \in Seq(Bytes), taken <= Len(p)
  PROVE  BodyStep(r, taken, fault, p, method)
<1> DEFINE head == [r |-> r, taken |-> taken, fault |-> fault]
           rest == SubSeq(p, taken + 1, Len(p))
           got  == ParsePayload(head, p, method)
           empty == rest = <<>>
           comp == Completed(r, method)
           none == fault = "none"
           less == r.hdr.contentLength <= Len(r.payload)
           missing == r.hdr.contentLength - Len(r.payload)
           k == IF missing < Len(rest) THEN missing ELSE Len(rest)
           whole == [r EXCEPT !.payload = r.payload \o SubSeq(rest, 1, k)]
           lacks == [head EXCEPT !.fault = "noLength"]
           took == [r |-> whole, fault |-> "none",
                    taken |-> taken + Len(whole.payload) - Len(r.payload)]
<1>1. TakePayload(r, rest) = whole
  BY DEF TakePayload
<1> HIDE DEF rest
<1>2. got = CASE ~none -> head
              [] none /\ (empty \/ comp) -> head
              [] none /\ ~empty /\ ~comp /\ less -> lacks
              [] OTHER -> took
  BY <1>1 DEF ParsePayload, rest
<1>3. lacks.fault = "noLength"
  OBVIOUS
<1> HIDE DEF got, head, empty, comp, none, less, lacks, took
<1>4. /\ ~none => got = head
      /\ none /\ (empty \/ comp) => got = head
      /\ none /\ ~empty /\ ~comp /\ less => got = lacks
      /\ none /\ ~empty /\ ~comp /\ ~less => got = took
  BY <1>2
<1>5. /\ r.hdr.contentLength \in Int /\ r.payload \in Seq(Bytes) /\ Len(r.payload) \in Nat
  BY LenProperties DEF Requests, Hdr
<1>6. rest \in Seq(Bytes) /\ Len(rest) \in Nat
  BY CutFacts, LenProperties DEF rest
<1>7. ASSUME none, ~empty, ~comp, ~less
      PROVE  /\ k \in 1..Len(rest) /\ k <= missing
             /\ took.r = whole /\ took.fault = "none" /\ took.taken = taken + k
  <2>1. Len(rest) >= 1
    BY <1>6, <1>7, EmptySeq DEF empty
  <2>2. missing >= 1 /\ missing \in Int
    BY <1>5, <1>7 DEF less
  <2> HIDE DEF missing
  <2>3. k \in 1..Len(rest) /\ k <= missing
    BY <1>6, <2>1, <2>2
  <2> HIDE DEF k
  <2>4. k \in 0..Len(rest) /\ k \in Nat
    BY <1>6, <2>3
  <2>5. SubSeq(rest, 1, k) \in Seq(Bytes) /\ Len(SubSeq(rest, 1, k)) = k
    BY <1>6, <2>4, CutFacts
  <2> DEFINE new == SubSeq(rest, 1, k)
  <2>6. Len(r.payload \o new) = Len(r.payload) + k
    BY <1>5, <2>5, ConcatProperties
  <2>7. whole.payload = r.payload \o new
    BY DEF Requests
  <2>8. took.r = whole /\ took.fault = "none"
        /\ took.taken = taken + Len(whole.payload) - Len(r.payload)
    BY DEF took
  <2> HIDE DEF whole, new
  <2>9. took.taken = taken + k
    BY <1>5, <2>4, <2>6, <2>7, <2>8
  <2> QED
    BY <2>3, <2>8, <2>9
<1> HIDE DEF k, missing, whole
<1>8. none /\ ~empty /\ ~comp /\ ~less =>
        \E j \in 1..Len(rest) :
          /\ got.fault = "none" /\ got.taken = taken + j
          /\ got.r = [r EXCEPT !.payload = r.payload \o SubSeq(rest, 1, j)]
          /\ j <= r.hdr.contentLength - Len(r.payload)
  BY <1>4, <1>7 DEF missing, whole
<1> QED
  BY <1>3, <1>4, <1>8 DEF got, head, empty, comp, none, less, rest, BodyStep

\* What is left after two cuts.
LEMMA CutTwice ==
  ASSUME NEW S, NEW p \in Seq(S), NEW n \in 0..Len(p), NEW k \in 0..(Len(p) - n)
  PROVE  LET rest == SubSeq(p, n + 1, Len(p))
         IN  SubSeq(p, (n + k) + 1, Len(p)) = SubSeq(rest, k + 1, Len(rest))
<1> DEFINE rest == SubSeq(p, n + 1, Len(p))
           x == SubSeq(p, (n + k) + 1, Len(p))
           y == SubSeq(rest, k + 1, Len(rest))
<1>1. Len(p) \in Nat
  BY LenProperties
<1>2. /\ rest \in Seq(S) /\ Len(rest) = Len(p) - n
      /\ \A i \in 1..(Len(p) - n) : rest[i] = p[n + i]
  BY CutFacts
<1>3. n + k \in 0..Len(p)
  BY <1>1
<1>4. /\ x \in Seq(S) /\ Len(x) = Len(p) - (n + k)
      /\ \A i \in 1..(Len(p) - (n + k)) : x[i] = p[(n + k) + i]
  BY <1>3, CutFacts
<1> HIDE DEF rest, x
<1>5. k \in 0..Len(rest)
  BY <1>2
<1>6. /\ y \in Seq(S) /\ Len(y) = Len(rest) - k
      /\ \A i \in 1..(Len(rest) - k) : y[i] = rest[k + i]
  BY <1>2, <1>5, CutFacts
<1> HIDE DEF y
<1>7. Len(x) = Len(y) /\ Len(x) \in Nat
  BY <1>1, <1>2, <1>4, <1>6
<1>8. ASSUME NEW i \in 1..Len(x)
      PROVE  x[i] = y[i]
  <2>1. /\ i \in 1..(Len(p) - (n + k)) /\ i \in 1..(Len(rest) - k)
        /\ k + i \in 1..(Len(p) - n) /\ n + (k + i) = (n + k) + i
    BY <1>1, <1>2, <1>4
  <2> QED
    BY <1>2, <1>4, <1>6, <2>1
<1> QED
  BY <1>4, <1>6, <1>7, <1>8, SeqEqual DEF x, y, rest

\* The length of a body that a request has read, and how much of the body it has.
LengthRight(r, a) ==
  \/ r.hdr.contentLength = -1 /\ ~Has(a, "length") /\ r.payload = <<>>
  \/ r.hdr.contentLength = Len(a.body) /\ Len(r.payload) <= Len(a.body)

\* More of it arrives.
LEMMA PayloadGrows ==
  ASSUME NEW r \in Requests, NEW b \in Seq(Bytes)
  PROVE  LET z == [r EXCEPT !.payload = b]
         IN  /\ z \in Requests /\ z.hdrBytes = r.hdrBytes /\ z.hdr = r.hdr
             /\ z.hdrCompleted = r.hdrCompleted /\ z.payload = b
<1>1. r.hdr \in Hdr /\ TRUE \in BOOLEAN
  BY DEF Requests
<1> QED
  BY <1>1, RequestFields DEF Requests

\* The body part of parseData() takes the bytes of the body and no others.
LEMMA BodyTaken ==
  ASSUME NEW a, WellFormed(a), a.method = "GET",
         NEW r \in Requests, r.hdrCompleted, LengthRight(r, a),
         NEW p \in Seq(Bytes), NEW taken \in 0..Len(p),
         NEW u \in Seq(Bytes), NEW v \in Seq(Bytes),
         r.payload \o (SubSeq(p, taken + 1, Len(p)) \o u) = a.body \o v
  PROVE  LET got == ParsePayload([r |-> r, taken |-> taken, fault |-> "none"], p, a.method)
             left == SubSeq(p, got.taken + 1, Len(p))
         IN  /\ got.fault # "none" => ~Has(a, "length")
             /\ got.fault = "none" =>
                  /\ got.taken \in 0..Len(p) /\ got.r \in Requests
                  /\ got.r.hdrBytes = r.hdrBytes /\ got.r.hdr = r.hdr /\ got.r.hdrCompleted
                  /\ LengthRight(got.r, a)
                  /\ got.r.payload \o (left \o u) = a.body \o v
                  /\ Completed(got.r, a.method) => got.r.payload = a.body
<1> DEFINE head == [r |-> r, taken |-> taken, fault |-> "none"]
           got == ParsePayload(head, p, a.method)
           rest == SubSeq(p, taken + 1, Len(p))
           done == rest = <<>> \/ Completed(r, a.method)
           left == SubSeq(p, got.taken + 1, Len(p))
<1>1. taken \in Nat /\ taken <= Len(p) /\ Len(p) \in Nat
  BY LenProperties
<1>2. /\ done => got = head
      /\ ~done /\ r.hdr.contentLength <= Len(r.payload) => got.fault = "noLength"
      /\ ~done /\ ~(r.hdr.contentLength <= Len(r.payload)) =>
           \E k \in 1..Len(rest) :
             /\ got.fault = "none" /\ got.taken = taken + k
             /\ got.r = [r EXCEPT !.payload = r.payload \o SubSeq(rest, 1, k)]
             /\ k <= r.hdr.contentLength - Len(r.payload)
  <2>1. BodyStep(r, taken, "none", p, a.method)
    BY <1>1, BodyCases
  <2> QED
    BY <2>1 DEF BodyStep
<1>3. /\ r.hdr.contentLength \in Int /\ r.payload \in Seq(Bytes) /\ Len(r.payload) \in Nat
      /\ r.hdrBytes \in Seq(Bytes) /\ r.hdr \in Hdr /\ r.hdrCompleted \in BOOLEAN
  BY LenProperties DEF Requests, Hdr
<1>4. a.body \in Seq(Bytes) /\ Len(a.body) \in Nat
  BY AnswerFacts
<1>5. /\ rest \in Seq(Bytes) /\ Len(rest) = Len(p) - taken
  BY CutFacts
<1>6. \A q : Completed(q, a.method) <=> q.hdrCompleted /\ q.hdr.contentLength = Len(q.payload)
  BY DEF Completed
<1>7. ASSUME NEW q \in Requests, LengthRight(q, a), q.hdrCompleted, NEW w \in Seq(Bytes),
             q.payload \o w = a.body \o v, Completed(q, a.method)
      PROVE  q.payload = a.body
  <2>1. q.payload \in Seq(Bytes) /\ Len(q.payload) \in Nat
    BY LenProperties DEF Requests
  <2>2. q.hdr.contentLength = Len(q.payload)
    BY <1>6, <1>7
  <2>3. Len(q.payload) = Len(a.body)
    BY <1>7, <2>1, <2>2 DEF LengthRight
  <2> QED
    BY <1>4, <1>7, <2>1, <2>3, SameCut
<1> HIDE DEF got, rest
<1>8. CASE done
  <2>1. got.r = r /\ got.taken = taken /\ got.fault = "none"
    BY <1>2, <1>8
  <2>2. left = rest /\ rest \o u \in Seq(Bytes) /\ r.payload \o (rest \o u) = a.body \o v
    BY <1>5, <2>1, ConcatProperties DEF rest
  <2>3. Completed(r, a.method) => r.payload = a.body
    BY <1>7, <2>2
  <2> QED
    BY <2>1, <2>2, <2>3 DEF got
<1>9. CASE ~done /\ r.hdr.contentLength <= Len(r.payload)
  <2>1. got.fault = "noLength"
    BY <1>2, <1>9
  <2>2. r.hdr.contentLength # Len(r.payload)
    BY <1>6, <1>9
  <2>3. r.hdr.contentLength < Len(r.payload)
    BY <1>3, <1>9, <2>2
  <2>4. r.hdr.contentLength # Len(a.body) \/ ~(Len(r.payload) <= Len(a.body))
    BY <1>3, <1>4, <2>3
  <2>5. ~Has(a, "length")
    BY <2>4 DEF LengthRight
  <2> QED
    BY <2>1, <2>5 DEF got
<1>10. CASE ~done /\ ~(r.hdr.contentLength <= Len(r.payload))
  <2>1. PICK k \in 1..Len(rest) :
             /\ got.fault = "none" /\ got.taken = taken + k
             /\ got.r = [r EXCEPT !.payload = r.payload \o SubSeq(rest, 1, k)]
             /\ k <= r.hdr.contentLength - Len(r.payload)
    BY <1>2, <1>10
  <2>2. k \in 0..Len(rest) /\ k \in Nat /\ k \in 0..(Len(p) - taken) /\ k >= 1
    BY <1>1, <1>5, <2>1
  <2> DEFINE x == SubSeq(rest, 1, k)
             y == SubSeq(rest, k + 1, Len(rest))
             new == r.payload \o x
  <2>3. /\ x \in Seq(Bytes) /\ y \in Seq(Bytes) /\ Len(x) = k /\ x \o y = rest
    BY <1>5, <2>2, CutFacts
  <2>4. left = y
    BY <2>1, <2>2, CutTwice DEF rest
  <2> HIDE DEF x, y
  <2>5. new \in Seq(Bytes) /\ Len(new) = Len(r.payload) + k
    BY <1>3, <2>3, ConcatProperties
  <2>6. got.r = [r EXCEPT !.payload = new]
    BY <2>1 DEF x
  <2> HIDE DEF new, left
  <2>7. /\ got.r \in Requests /\ got.r.hdrBytes = r.hdrBytes /\ got.r.hdr = r.hdr
        /\ got.r.hdrCompleted = r.hdrCompleted /\ got.r.payload = new
    <3> DEFINE z == [r EXCEPT !.payload = new]
    <3>1. /\ z \in Requests /\ z.hdrBytes = r.hdrBytes /\ z.hdr = r.hdr
          /\ z.hdrCompleted = r.hdrCompleted /\ z.payload = new
      BY <2>5, PayloadGrows
    <3>2. got.r = z
      BY <2>6
    <3> HIDE DEF z
    <3> QED
      BY <3>1, <3>2
  <2>8. r.hdr.contentLength = Len(a.body) /\ Len(new) <= Len(a.body)
    <3>1. r.hdr.contentLength # -1
      BY <1>3, <1>10
    <3>2. r.hdr.contentLength = Len(a.body)
      BY <3>1 DEF LengthRight
    <3>3. k <= r.hdr.contentLength - Len(r.payload)
      BY <2>1
    <3> QED
      BY <1>3, <1>4, <2>2, <2>5, <3>2, <3>3
  <2>9. LengthRight(got.r, a)
    BY <2>7, <2>8 DEF LengthRight
  <2>10. new \o (y \o u) = a.body \o v
    <3>1. r.payload \o (rest \o u) = a.body \o v
      BY DEF rest
    <3>2. IsCut(r.payload, x, y, u, rest)
      BY <1>3, <1>5, <2>3, CutAgain
    <3> QED
      BY <3>1, <3>2, Zenon DEF IsCut, new
  <2>11. y \o u \in Seq(Bytes)
    BY <2>3, ConcatProperties
  <2>12. Completed(got.r, a.method) => got.r.payload = a.body
    BY <1>7, <2>7, <2>9, <2>10, <2>11
  <2>13. got.taken \in 0..Len(p)
    <3>1. got.taken = taken + k
      BY <2>1
    <3> QED
      BY <1>1, <2>2, <3>1
  <2> QED
    BY <2>1, <2>4, <2>7, <2>9, <2>10, <2>12, <2>13 DEF got, left
<1> QED
  BY <1>8, <1>9, <1>10

-----------------------------------------------------------------------------
(* What is known of a request *)

\* What a request has received of its answer.
Received(r, a) ==
  IF r.hdrCompleted
  THEN a.method = "GET" /\ r.hdrBytes = HeaderBytes(a) /\ LengthRight(r, a)
  ELSE r.payload = <<>> /\ Len(r.hdrBytes) < Len(HeaderBytes(a))

\* What the header of an answer says of the connection.
HeaderRight(h, a) ==
  /\ ~Has(a, "close") => IsFirst(h) /\ h.keepAliveTimeout = TimeoutOf(a)
  /\ Has(a, "close") => ~IsFirst(h)

\* An answer that ends the process.
Faulty(a) ==
  \/ Unsupported(a)
  \/ ~Has(a, "close") /\ timeoutKnown # -1 /\ TimeoutOf(a) # timeoutKnown

\* r has gone on to new, and u is still to come of the answer and of the answers v
\* behind it.
GoneOn(new, a, w, v) ==
  /\ new.hdrBytes \o (new.payload \o w) = WireBytes(a) \o v
  /\ Completed(new, a.method) => new.hdrBytes \o new.payload = WireBytes(a) /\ w = v
  /\ ~Completed(new, a.method) => Received(new, a)

\* What follows a header.
Behind(a) == IF a.method = "HEAD" THEN <<>> ELSE a.body

\* An answer is its header and what follows.
LEMMA BehindFacts ==
  ASSUME NEW a, WellFormed(a), NEW v \in Seq(Bytes)
  PROVE  /\ Behind(a) \in Seq(Bytes) /\ WireBytes(a) = HeaderBytes(a) \o Behind(a)
         /\ Behind(a) \o v \in Seq(Bytes)
         /\ WireBytes(a) \o v = HeaderBytes(a) \o (Behind(a) \o v)
<1>1. Behind(a) \in Seq(Bytes) /\ WireBytes(a) = HeaderBytes(a) \o Behind(a)
  <2>1. a.body \in Seq(Bytes)
    BY AnswerFacts
  <2> QED
    BY <2>1 DEF Behind, WireBytes
<1>2. HeaderBytes(a) \in Seq(Bytes)
  BY HeaderShape
<1>3. Joins(HeaderBytes(a), Behind(a), v)
  BY <1>1, <1>2, JoinsAnyWay
<1>4. Behind(a) \o v \in Seq(Bytes)
  BY <1>1, ConcatProperties
<1> QED
  BY <1>1, <1>3, <1>4, Zenon DEF Joins

\* A sequence that begins with CR and LF.
LEMMA BeginsWithLine ==
  ASSUME NEW b \in Seq(Bytes)
  PROVE  IsPrefix(<<CR, LF>>, b) <=> Len(b) >= 2 /\ b[1] = CR /\ b[2] = LF
<1> DEFINE s == <<CR, LF>>
<1>1. s \in Seq(Bytes) /\ Len(s) = 2 /\ s[1] = CR /\ s[2] = LF
  BY BytesDiffer
<1> HIDE DEF s
<1>2. IsPrefix(s, b) <=> Len(s) <= Len(b) /\ \A i \in 1..Len(s) : s[i] = b[i]
  <2>1. s \in Seq(Bytes)
    BY <1>1
  <2> QED
    BY ONLY <2>1, b \in Seq(Bytes), PrefixFacts, SMTT(30)
<1>3. Len(b) \in Nat
  BY LenProperties
<1> QED
  BY <1>1, <1>2, <1>3 DEF s

\* The bytes behind an answer begin with a line.
LineFirst(v) == v # <<>> => v[1] \in Lines

\* It does not look like the rest of a blank line.
LEMMA NoBlankBehind ==
  ASSUME NEW a, WellFormed(a), ~BeginsBlank(a), NEW v \in Seq(Bytes), LineFirst(v)
  PROVE  LET rest == Behind(a) \o v
         IN  ~(Len(rest) >= 2 /\ rest[1] = CR /\ rest[2] = LF)
<1> DEFINE B == Behind(a)
           rest == B \o v
<1>1. B \in Seq(Bytes) /\ Len(B) \in Nat /\ Len(v) \in Nat
  BY BehindFacts, LenProperties
<1>2. a.method = "GET" => ~IsPrefix(<<CR, LF>>, B)
  BY DEF BeginsBlank, Behind
<1>3. ~(Len(B) >= 2 /\ B[1] = CR /\ B[2] = LF)
  <2>1. CASE a.method = "GET"
    <3> HIDE DEF B
    <3> QED
      BY <1>1, <1>2, <2>1, BeginsWithLine
  <2>2. CASE a.method # "GET"
    <3>1. B = <<>> /\ Len(<<>>) = 0
      BY <2>2, AnswerFacts DEF Behind
    <3> HIDE DEF B
    <3> QED
      BY <3>1
  <2> QED
    BY <2>1, <2>2
<1>4. /\ Len(rest) = Len(B) + Len(v)
      /\ \A i \in 1..(Len(B) + Len(v)) : rest[i] = IF i <= Len(B) THEN B[i] ELSE v[i - Len(B)]
  BY <1>1, ConcatProperties
<1> HIDE DEF B, rest
<1>5. Len(v) >= 1 => v[1] # CR /\ v[1] # LF
  <2> SUFFICES ASSUME Len(v) >= 1 PROVE v[1] # CR /\ v[1] # LF
    OBVIOUS
  <2>1. v # <<>>
    BY <1>1, EmptySeq
  <2> QED
    BY <2>1, BytesDiffer DEF LineFirst
<1>6. ASSUME Len(rest) >= 2, rest[1] = CR, rest[2] = LF
      PROVE  FALSE
  <2>1. 1 \in 1..(Len(B) + Len(v)) /\ 2 \in 1..(Len(B) + Len(v))
    BY <1>1, <1>4, <1>6
  <2>2. CASE Len(B) >= 2
    <3>1. rest[1] = B[1] /\ rest[2] = B[2]
      BY <1>1, <1>4, <2>1, <2>2
    <3> QED
      BY <1>3, <1>6, <2>2, <3>1
  <2>3. CASE Len(B) = 1
    <3>1. rest[2] = v[1] /\ Len(v) >= 1
      BY <1>1, <1>4, <1>6, <2>1, <2>3
    <3> QED
      BY <1>5, <1>6, <3>1
  <2>4. CASE Len(B) = 0
    <3>1. rest[1] = v[1] /\ Len(v) >= 1
      BY <1>1, <1>4, <1>6, <2>1, <2>4
    <3> QED
      BY <1>5, <1>6, <3>1
  <2>5. Len(B) >= 2 \/ Len(B) = 1 \/ Len(B) = 0
    <3> DEFINE n == Len(B)
    <3>1. n \in Nat
      BY <1>1
    <3> HIDE DEF n
    <3>2. n >= 2 \/ n = 1 \/ n = 0
      BY <3>1
    <3> QED
      BY <3>2 DEF n
  <2> QED
    BY <2>2, <2>3, <2>4, <2>5
<1> QED
  BY <1>6 DEF B, rest

\* The length of its body that a header has announced.
LEMMA LengthIsRight ==
  ASSUME NEW a, WellFormed(a), a.method = "GET", NEW r \in Requests, r.payload = <<>>,
         r.hdr = ParseHeader(HeaderBytes(a)).hdr
  PROVE  LengthRight(r, a)
<1>1. \/ \E k \in DOMAIN a.lines : a.lines[k].name = "length" /\ r.hdr.contentLength = a.lines[k].n
      \/ r.hdr.contentLength = -1 /\ ~Has(a, "length")
  BY HeaderIsParsed
<1>2. \A k \in DOMAIN a.lines : a.lines[k].name = "length" => a.lines[k].n = Len(a.body)
  BY DEF WellFormed
<1>3. Len(r.payload) = 0 /\ Len(a.body) \in Nat
  BY AnswerFacts
<1> QED
  BY <1>1, <1>2, <1>3 DEF LengthRight

\* What the body part makes of a request whose header is complete.
LEMMA BodyGoesOn ==
  ASSUME NEW a, WellFormed(a), a.method = "GET",
         NEW r \in Requests, r.hdrCompleted, LengthRight(r, a), r.hdrBytes = HeaderBytes(a),
         NEW p \in Seq(Bytes), NEW taken \in 0..Len(p),
         NEW u \in Seq(Bytes), NEW v \in Seq(Bytes),
         r.payload \o (SubSeq(p, taken + 1, Len(p)) \o u) = a.body \o v
  PROVE  LET got == ParsePayload([r |-> r, taken |-> taken, fault |-> "none"], p, a.method)
             left == SubSeq(p, got.taken + 1, Len(p))
         IN  /\ got.fault # "none" => Faulty(a)
             /\ got.fault = "none" =>
                  /\ got.taken \in 0..Len(p) /\ got.r \in Requests /\ got.r.hdr = r.hdr
                  /\ got.r.hdrCompleted /\ GoneOn(got.r, a, left \o u, v)
<1> DEFINE got == ParsePayload([r |-> r, taken |-> taken, fault |-> "none"], p, a.method)
           left == SubSeq(p, got.taken + 1, Len(p))
<1>1. /\ got.fault # "none" => ~Has(a, "length")
      /\ got.fault = "none" =>
           /\ got.taken \in 0..Len(p) /\ got.r \in Requests
           /\ got.r.hdrBytes = r.hdrBytes /\ got.r.hdr = r.hdr /\ got.r.hdrCompleted
           /\ LengthRight(got.r, a)
           /\ got.r.payload \o (left \o u) = a.body \o v
           /\ Completed(got.r, a.method) => got.r.payload = a.body
  BY BodyTaken
<1>2. ASSUME got.fault = "none"
      PROVE  left \in Seq(Bytes) /\ left \o u \in Seq(Bytes)
  <2>1. got.taken \in 0..Len(p)
    BY <1>1, <1>2
  <2> HIDE DEF got
  <2>2. left \in Seq(Bytes)
    BY <2>1, CutFacts
  <2> QED
    BY <2>2, ConcatProperties
<1> HIDE DEF got, left
<1>3. Behind(a) = a.body
  BY DEF Behind
<1>4. /\ a.body \in Seq(Bytes) /\ WireBytes(a) = HeaderBytes(a) \o a.body
      /\ WireBytes(a) \o v = HeaderBytes(a) \o (a.body \o v)
  <2>1. /\ Behind(a) \in Seq(Bytes) /\ WireBytes(a) = HeaderBytes(a) \o Behind(a)
        /\ WireBytes(a) \o v = HeaderBytes(a) \o (Behind(a) \o v)
    BY BehindFacts
  <2> QED
    BY <1>3, <2>1, Zenon
<1>5. ASSUME got.fault # "none" PROVE Faulty(a)
  BY <1>1, <1>5 DEF Faulty, Unsupported
<1>6. ASSUME got.fault = "none" PROVE GoneOn(got.r, a, left \o u, v)
  <2> DEFINE new == got.r
             w == left \o u
  <2>1. /\ new \in Requests /\ new.hdrBytes = HeaderBytes(a) /\ new.hdrCompleted
        /\ LengthRight(new, a) /\ new.payload \o w = a.body \o v
        /\ Completed(new, a.method) => new.payload = a.body
    BY <1>1, <1>6
  <2>2. w \in Seq(Bytes)
    BY <1>2, <1>6
  <2> HIDE DEF new, w
  <2>3. new.hdrBytes \o (new.payload \o w) = WireBytes(a) \o v
    BY <1>4, <2>1, Zenon
  <2>4. ASSUME Completed(new, a.method)
        PROVE  new.hdrBytes \o new.payload = WireBytes(a) /\ w = v
    <3>1. a.body \o w = a.body \o v
      BY <2>1, <2>4
    <3>2. w = v
      BY <1>4, <2>2, <3>1, SameCut
    <3> QED
      BY <1>4, <2>1, <2>4, <3>2
  <2>5. Received(new, a)
    BY <2>1 DEF Received
  <2> QED
    BY <2>3, <2>4, <2>5 DEF GoneOn, new, w
<1> QED
  BY <1>1, <1>5, <1>6 DEF got, left

\* What parseData() has made of p for the request r of answer a, when u is still in
\* the socket and v behind the answer.
Parsed(got, a, r, p, u, v) ==
  /\ got.fault # "none" => Faulty(a)
  /\ got.fault = "none" =>
       /\ got.taken \in 0..Len(p) /\ got.r \in Requests
       /\ GoneOn(got.r, a, SubSeq(p, got.taken + 1, Len(p)) \o u, v)
       /\ got.r.hdrCompleted /\ ~r.hdrCompleted => HeaderRight(got.r.hdr, a)

\* That is what parseData() makes of bytes of the body,
LEMMA HeaderStays ==
  ASSUME NEW a, WellFormed(a), NEW r \in Requests, Received(r, a), r.hdrCompleted,
         NEW p \in Seq(Bytes), NEW u \in Seq(Bytes), NEW v \in Seq(Bytes),
         r.hdrBytes \o (r.payload \o (p \o u)) = WireBytes(a) \o v
  PROVE  Parsed(ParseData(r, p, a.method), a, r, p, u, v)
<1> DEFINE got == ParsePayload([r |-> r, taken |-> 0, fault |-> "none"], p, a.method)
           left == SubSeq(p, got.taken + 1, Len(p))
<1>1. a.method = "GET" /\ r.hdrBytes = HeaderBytes(a) /\ LengthRight(r, a)
  BY DEF Received
<1>2. ParseData(r, p, a.method) = got
  BY DEF ParseData
<1>3. 0 \in 0..Len(p) /\ SubSeq(p, 0 + 1, Len(p)) = p
  <2>1. Len(p) \in Nat /\ 0 + 1 = 1
    BY LenProperties
  <2>2. SubSeq(p, 1, Len(p)) = p
    BY SubSeqFull
  <2> QED
    BY <2>1, <2>2
<1>4. Behind(a) = a.body
  BY <1>1 DEF Behind
<1>5. r.payload \o (p \o u) = a.body \o v
  <2> DEFINE s == r.payload \o (p \o u)
             t == a.body \o v
             H == HeaderBytes(a)
  <2>1. H \in Seq(Bytes)
    BY HeaderShape
  <2>2. /\ Behind(a) \o v \in Seq(Bytes)
        /\ WireBytes(a) \o v = HeaderBytes(a) \o (Behind(a) \o v)
    BY BehindFacts
  <2>3. t \in Seq(Bytes) /\ WireBytes(a) \o v = H \o t
    BY <1>4, <2>2
  <2>4. s \in Seq(Bytes)
    <3>1. r.payload \in Seq(Bytes) /\ p \o u \in Seq(Bytes)
      BY ConcatProperties DEF Requests
    <3> QED
      BY <3>1, ConcatProperties
  <2>5. H \o s = H \o t
    BY <1>1, <2>3
  <2> HIDE DEF s, t, H
  <2>6. s = t
    BY <2>1, <2>3, <2>4, <2>5, SameCut
  <2> QED
    BY <2>6 DEF s, t
<1>6. r.payload \o (SubSeq(p, 0 + 1, Len(p)) \o u) = a.body \o v
  BY <1>3, <1>5
<1>7. /\ got.fault # "none" => Faulty(a)
      /\ got.fault = "none" =>
           /\ got.taken \in 0..Len(p) /\ got.r \in Requests /\ got.r.hdr = r.hdr
           /\ got.r.hdrCompleted /\ GoneOn(got.r, a, left \o u, v)
  BY <1>1, <1>3, <1>6, BodyGoesOn
<1> HIDE DEF got
<1> QED
  BY <1>2, <1>7 DEF Parsed

\* and of bytes of the header, with those of the body behind it.
LEMMA HeaderGoesOn ==
  ASSUME NEW a, WellFormed(a), ~BeginsBlank(a), NEW r \in Requests, Received(r, a), ~r.hdrCompleted,
         NEW p \in Seq(Bytes), p # <<>>,
         NEW u \in Seq(Bytes), NEW v \in Seq(Bytes), LineFirst(v),
         r.hdrBytes \o (r.payload \o (p \o u)) = WireBytes(a) \o v
  PROVE  Parsed(ParseData(r, p, a.method), a, r, p, u, v)
<1> DEFINE H == HeaderBytes(a)
           g == r.hdrBytes
           rest == Behind(a) \o v
           n     == EndOfHeader(g, p)
           taken == IF n = 0 THEN Len(p) ELSE n
           new   == g \o SubSeq(p, 1, taken)
           left  == SubSeq(p, taken + 1, Len(p))
           ended == IsSuffix(BLANK, new)
           head  == ParseHeaderBytes(r, p)
           got == ParsePayload(head, p, a.method)
<1>1. ParseData(r, p, a.method) = got
  BY DEF ParseData
<1>2. /\ g \in Seq(Bytes) /\ r.payload = <<>> /\ Len(g) < Len(H) /\ H \in Seq(Bytes)
      /\ rest \in Seq(Bytes) /\ WireBytes(a) = H \o Behind(a) /\ WireBytes(a) \o v = H \o rest
      /\ Behind(a) \in Seq(Bytes)
  <2>1. /\ rest \in Seq(Bytes) /\ WireBytes(a) = H \o Behind(a) /\ WireBytes(a) \o v = H \o rest
        /\ Behind(a) \in Seq(Bytes)
    BY BehindFacts
  <2>2. H \in Seq(Bytes)
    BY HeaderShape
  <2> HIDE DEF H, rest
  <2> QED
    BY <2>1, <2>2 DEF Received, Requests, H
<1>3. g \o (p \o u) = H \o rest
  <2>1. p \o u \in Seq(Bytes)
    BY ConcatProperties
  <2>2. <<>> \o (p \o u) = p \o u
    BY <2>1
  <2> HIDE DEF H, rest
  <2> QED
    BY <1>2, <2>2
<1>4. ~(Len(rest) >= 2 /\ rest[1] = CR /\ rest[2] = LF)
  BY NoBlankBehind
<1>5. /\ taken \in 1..Len(p) /\ new \in Seq(Bytes) /\ left \in Seq(Bytes)
      /\ new \o (left \o u) = H \o rest
      /\ ended => new = H /\ left \o u = rest
      /\ ~ended => Len(new) < Len(H) /\ left = <<>>
  <2>1. HeaderCut(a, g, p, u, rest)
    <3> HIDE DEF rest, g
    <3> QED
      BY <1>2, <1>3, <1>4, HeaderTaken
  <2> QED
    BY <2>1 DEF HeaderCut
<1>6. /\ head = [r |-> head.r, taken |-> taken, fault |-> head.fault]
      /\ head.r \in Requests
      /\ head.r.hdrBytes = new /\ head.r.hdrCompleted = ended
      /\ head.r.payload = r.payload
      /\ head.r.hdr = IF ended THEN ParseHeader(new).hdr ELSE r.hdr
      /\ head.fault # "none" =>
           \/ Len(new) > MaxHeader
           \/ ended /\ head.fault = ParseHeader(new).fault
      /\ head.fault = "none" /\ ended => ParseHeader(new).fault = "none"
  BY HeadCases
<1>7. taken \in Nat /\ taken <= Len(p) /\ taken \in 0..Len(p) /\ Len(p) \in Nat
  BY <1>5, LenProperties
<1> HIDE DEF n, taken, new, left, ended, head, H, rest, g
<1> DEFINE q == head.r
<1>8. BodyStep(q, taken, head.fault, p, a.method)
  BY <1>6, <1>7, BodyCases
<1>9. got = ParsePayload([r |-> q, taken |-> taken, fault |-> head.fault], p, a.method)
  BY <1>6
<1>10. /\ head.fault # "none" => got.fault = head.fault
       /\ head.fault = "none" /\ (left = <<>> \/ Completed(q, a.method)) =>
            got.r = q /\ got.taken = taken /\ got.fault = "none"
  BY <1>8, <1>9 DEF BodyStep, left
<1>11. CASE head.fault # "none"
  <2>1. CASE Len(new) > MaxHeader
    <3>1. Len(new) \in Nat /\ Len(H) \in Nat /\ MaxHeader \in Nat
      BY <1>2, <1>5, LenProperties, HttpHeaderAssumption
    <3>2. new = H \/ Len(new) < Len(H)
      BY <1>5
    <3>3. Len(H) > MaxHeader
      BY <2>1, <3>1, <3>2
    <3> QED
      BY <1>1, <1>10, <1>11, <3>3 DEF Parsed, Faulty, Unsupported, H
  <2>2. CASE ended /\ head.fault = ParseHeader(new).fault
    <3>1. ParseHeader(H).fault # "none"
      BY <1>5, <1>11, <2>2
    <3>2. Faulty(a)
      BY <3>1, HeaderIsParsed DEF H, Faulty
    <3> QED
      BY <1>1, <1>10, <1>11, <3>2 DEF Parsed
  <2> QED
    BY <1>6, <1>11, <2>1, <2>2
<1>12. CASE head.fault = "none" /\ ~ended
  <2>1. got.r = q /\ got.taken = taken /\ got.fault = "none" /\ left = <<>>
    BY <1>5, <1>10, <1>12
  <2>2. ~q.hdrCompleted /\ q.payload = <<>> /\ q.hdrBytes = new /\ Len(new) < Len(H)
    BY <1>2, <1>5, <1>6, <1>12
  <2>3. q.hdrBytes \o (q.payload \o (left \o u)) = WireBytes(a) \o v
    <3>1. left \o u \in Seq(Bytes)
      BY <1>5, ConcatProperties
    <3>2. <<>> \o (left \o u) = left \o u
      BY <3>1
    <3> QED
      BY <1>2, <1>5, <2>2, <3>2, Zenon
  <2>4. GoneOn(q, a, left \o u, v)
    BY <2>2, <2>3 DEF GoneOn, Completed, Received, H
  <2>5. left = SubSeq(p, got.taken + 1, Len(p))
    BY <2>1 DEF left
  <2> HIDE DEF got
  <2> QED
    BY <1>1, <1>6, <1>7, <2>1, <2>2, <2>4, <2>5 DEF Parsed
<1>13. ASSUME head.fault = "none", ended
       PROVE  /\ q.hdrCompleted /\ q.payload = <<>> /\ q.hdrBytes = H /\ left \o u = rest
              /\ q.hdr = ParseHeader(H).hdr /\ HeaderRight(q.hdr, a)
  <2>1. /\ q.hdrCompleted /\ q.payload = <<>> /\ q.hdrBytes = H /\ left \o u = rest
        /\ q.hdr = ParseHeader(H).hdr /\ ParseHeader(H).fault = "none"
    BY <1>2, <1>5, <1>6, <1>13
  <2>2. HeaderRight(ParseHeader(H).hdr, a)
    BY <2>1, HeaderIsParsed DEF HeaderRight, H
  <2> QED
    BY <2>1, <2>2
<1>14. CASE head.fault = "none" /\ ended /\ a.method = "HEAD"
  <2>1. Completed(q, a.method)
    BY <1>13, <1>14 DEF Completed
  <2>2. got.r = q /\ got.taken = taken /\ got.fault = "none"
    BY <1>10, <1>14, <2>1
  <2>3. Behind(a) = <<>>
    BY <1>14 DEF Behind
  <2>4. rest = v
    BY <2>3 DEF rest
  <2>5. H \o <<>> = H /\ v \in Seq(Bytes) /\ <<>> \o v = v
    BY <1>2
  <2>6. WireBytes(a) = H
    BY <1>2, <2>3, <2>5
  <2>7. q.hdrBytes \o q.payload = WireBytes(a) /\ left \o u = v
    BY <1>13, <1>14, <2>4, <2>5, <2>6
  <2>8. q.hdrBytes \o (q.payload \o (left \o u)) = WireBytes(a) \o v
    BY <1>13, <1>14, <2>4, <2>5, <2>6
  <2>9. GoneOn(q, a, left \o u, v)
    BY <2>1, <2>7, <2>8 DEF GoneOn
  <2>10. left = SubSeq(p, got.taken + 1, Len(p))
    BY <2>2 DEF left
  <2> HIDE DEF got
  <2> QED
    BY <1>1, <1>6, <1>7, <1>13, <1>14, <2>2, <2>9, <2>10 DEF Parsed
<1>15. CASE head.fault = "none" /\ ended /\ a.method = "GET"
  <2>1. LengthRight(q, a)
    BY <1>6, <1>13, <1>15, LengthIsRight DEF H
  <2>2. rest = a.body \o v
    BY <1>15 DEF rest, Behind
  <2>3. q.payload \o (left \o u) = a.body \o v
    <3>1. left \o u \in Seq(Bytes)
      BY <1>5, ConcatProperties
    <3>2. <<>> \o (left \o u) = left \o u
      BY <3>1
    <3> QED
      BY <1>13, <1>15, <2>2, <3>2
  <2>4. got = ParsePayload([r |-> q, taken |-> taken, fault |-> "none"], p, a.method)
    BY <1>9, <1>15
  <2>5. /\ got.fault # "none" => Faulty(a)
        /\ got.fault = "none" =>
             /\ got.taken \in 0..Len(p) /\ got.r \in Requests /\ got.r.hdr = q.hdr
             /\ got.r.hdrCompleted /\ GoneOn(got.r, a, SubSeq(p, got.taken + 1, Len(p)) \o u, v)
    <3>1. q.payload \o (SubSeq(p, taken + 1, Len(p)) \o u) = a.body \o v
      BY <2>3 DEF left
    <3>2. q \in Requests /\ q.hdrCompleted /\ q.hdrBytes = HeaderBytes(a) /\ a.method = "GET"
      BY <1>6, <1>13, <1>15 DEF H
    <3> HIDE DEF q
    <3> DEFINE body == ParsePayload([r |-> q, taken |-> taken, fault |-> "none"], p, a.method)
    <3>3. /\ body.fault # "none" => Faulty(a)
          /\ body.fault = "none" =>
             /\ body.taken \in 0..Len(p) /\ body.r \in Requests /\ body.r.hdr = q.hdr
             /\ body.r.hdrCompleted /\ GoneOn(body.r, a, SubSeq(p, body.taken + 1, Len(p)) \o u, v)
      BY <1>7, <2>1, <3>1, <3>2, BodyGoesOn
    <3> QED
      BY <2>4, <3>3
  <2> HIDE DEF got
  <2> QED
    BY <1>1, <1>13, <1>15, <2>5 DEF Parsed
<1> QED
  BY <1>11, <1>12, <1>14, <1>15, AnswerFacts

-----------------------------------------------------------------------------
(* The types *)

\* Why the process ends.
Faults == HeaderFaults \cup {"none", "headerTooLong", "noLength", "firstHeader", "noRequest",
                            "readBeforeHeader"}

\* The types, with those of the bytes and requests.
Types ==
  /\ answers \in Seq(Answers) /\ Len(answers) <= MaxAnswers
  /\ socket \in Seq(Bytes) /\ buffer \in Seq(Bytes) /\ Len(buffer) <= ReadSize
  /\ answered \in Seq(Requests) /\ Len(answered) <= Len(answers)
  /\ request \in Requests
  /\ aHeader \in BOOLEAN /\ timeoutKnown \in Int /\ (aHeader <=> timeoutKnown # -1)
  /\ httpFault \in Faults

\* parseData() returns a request, even when the bytes are not those of an answer.
LEMMA DataIsTyped ==
  ASSUME NEW r \in Requests, NEW p \in Seq(Bytes), p # <<>>, NEW method
  PROVE  LET got == ParseData(r, p, method)
         IN  /\ got.fault \in Faults
             /\ got.fault = "none" => got.r \in Requests /\ got.taken \in 0..Len(p)
<1> DEFINE head == IF r.hdrCompleted THEN [r |-> r, taken |-> 0, fault |-> "none"]
                   ELSE ParseHeaderBytes(r, p)
           q == head.r
           t == head.taken
           fl == head.fault
           got == ParsePayload(head, p, method)
           rest == SubSeq(p, t + 1, Len(p))
           done == rest = <<>> \/ Completed(q, method)
           less == q.hdr.contentLength <= Len(q.payload)
<1>1. ParseData(r, p, method) = got
  BY DEF ParseData
<1>2. Len(p) \in Nat
  BY LenProperties
<1>3. /\ head = [r |-> q, taken |-> t, fault |-> fl]
      /\ q \in Requests /\ t \in 0..Len(p) /\ fl \in HeaderFaults \cup {"headerTooLong", "none"}
  <2>1. CASE r.hdrCompleted
    <3>1. head = [r |-> r, taken |-> 0, fault |-> "none"]
      BY <2>1
    <3> HIDE DEF head
    <3> QED
      BY <1>2, <3>1
  <2>2. CASE ~r.hdrCompleted
    <3> DEFINE n == EndOfHeader(r.hdrBytes, p)
               taken == IF n = 0 THEN Len(p) ELSE n
               parse == ParseHeaderBytes(r, p)
    <3>1. /\ parse = [r |-> parse.r, taken |-> taken, fault |-> parse.fault]
          /\ parse.r \in Requests /\ taken \in 1..Len(p)
          /\ parse.fault \in HeaderFaults \cup {"headerTooLong", "none"}
      BY HeadCases
    <3>2. head = parse
      BY <2>2
    <3> HIDE DEF head, taken, parse
    <3> QED
      BY <1>2, <3>1, <3>2
  <2> QED
    BY <2>1, <2>2
<1> HIDE DEF head, q, t, fl
<1>4. BodyStep(q, t, fl, p, method)
  BY <1>2, <1>3, BodyCases
<1>5. got = ParsePayload([r |-> q, taken |-> t, fault |-> fl], p, method)
  BY <1>3
<1>6. /\ fl # "none" => got.fault = fl
      /\ fl = "none" /\ done => got.fault = "none" /\ got.r = q /\ got.taken = t
      /\ fl = "none" /\ ~done /\ less => got.fault = "noLength"
      /\ fl = "none" /\ ~done /\ ~less =>
           \E k \in 1..Len(rest) :
             /\ got.fault = "none" /\ got.taken = t + k
             /\ got.r = [q EXCEPT !.payload = q.payload \o SubSeq(rest, 1, k)]
  <2> DEFINE record == [r |-> q, taken |-> t, fault |-> fl]
             body == ParsePayload(record, p, method)
  <2>1. /\ fl # "none" => body = record
        /\ fl = "none" /\ done => body = record
        /\ fl = "none" /\ ~done /\ less => body.fault = "noLength"
        /\ fl = "none" /\ ~done /\ ~less =>
             \E k \in 1..Len(rest) :
               /\ body.fault = "none" /\ body.taken = t + k
               /\ body.r = [q EXCEPT !.payload = q.payload \o SubSeq(rest, 1, k)]
    BY <1>4 DEF BodyStep
  <2>2. got = body
    BY <1>5
  <2>3. record.r = q /\ record.taken = t /\ record.fault = fl
    OBVIOUS
  <2> HIDE DEF record, body, got, rest, done, less
  <2> QED
    BY <2>1, <2>2, <2>3
<1> HIDE DEF got
<1>7. CASE fl # "none"
  BY <1>1, <1>3, <1>6, <1>7 DEF Faults
<1>8. CASE fl = "none" /\ done
  BY <1>1, <1>3, <1>6, <1>8 DEF Faults
<1>9. CASE fl = "none" /\ ~done /\ less
  BY <1>1, <1>6, <1>9 DEF Faults
<1>10. CASE fl = "none" /\ ~done /\ ~less
  <2>1. rest \in Seq(Bytes) /\ Len(rest) = Len(p) - t
    BY <1>3, CutFacts
  <2> HIDE DEF rest
  <2>2. PICK k \in 1..Len(rest) :
             /\ got.fault = "none" /\ got.taken = t + k
             /\ got.r = [q EXCEPT !.payload = q.payload \o SubSeq(rest, 1, k)]
    BY <1>6, <1>10
  <2>3. k \in 0..Len(rest)
    BY <1>2, <1>3, <2>1
  <2> DEFINE b == q.payload \o SubSeq(rest, 1, k)
  <2>4. b \in Seq(Bytes)
    <3>1. SubSeq(rest, 1, k) \in Seq(Bytes) /\ q.payload \in Seq(Bytes)
      BY <1>3, <2>1, <2>3, CutFacts DEF Requests
    <3> QED
      BY <3>1, ConcatProperties
  <2> DEFINE z == [q EXCEPT !.payload = b]
  <2>5. got.r = z
    BY <2>2
  <2> HIDE DEF b
  <2>6. z \in Requests
    BY <1>3, <2>4, PayloadGrows
  <2> HIDE DEF z
  <2>7. t + k \in 0..Len(p)
    BY <1>2, <1>3, <2>1
  <2> QED
    BY <1>1, <2>2, <2>5, <2>6, <2>7 DEF Faults
<1> QED
  BY <1>7, <1>8, <1>9, <1>10

\* The types hold at first,
LEMMA TypesInit ==
  HttpInit => Types
<1> SUFFICES ASSUME HttpInit
             PROVE  Types
  OBVIOUS
<1>1. NewRequest \in Requests
  <2>1. NewHdr \in Hdr
    BY DEF NewHdr, Hdr
  <2> QED
    BY <2>1 DEF NewRequest, Requests
<1>2. Len(<<>>) = 0 /\ 0 <= MaxAnswers /\ 0 <= ReadSize
  BY HttpHeaderAssumption
<1>3. <<>> \in Seq(Answers) /\ <<>> \in Seq(Bytes) /\ <<>> \in Seq(Requests)
  OBVIOUS
<1>4. /\ answers = <<>> /\ socket = <<>> /\ buffer = <<>> /\ answered = <<>>
      /\ request = NewRequest /\ aHeader = FALSE /\ timeoutKnown = -1 /\ httpFault = "none"
  BY DEF HttpInit
<1>5. "none" \in Faults /\ -1 \in Int
  BY DEF Faults
<1>6. Len(answers) <= MaxAnswers /\ Len(buffer) <= ReadSize /\ Len(answered) <= Len(answers)
  BY <1>2, <1>4
<1>7. /\ answers \in Seq(Answers) /\ socket \in Seq(Bytes) /\ buffer \in Seq(Bytes)
      /\ answered \in Seq(Requests) /\ request \in Requests
  BY <1>1, <1>3, <1>4
<1>8. /\ aHeader \in BOOLEAN /\ timeoutKnown \in Int /\ (aHeader <=> timeoutKnown # -1)
      /\ httpFault \in Faults
  BY <1>4, <1>5
<1> QED
  BY <1>6, <1>7, <1>8 DEF Types

\* The server sends bytes.
LEMMA WireTyped ==
  ASSUME NEW a, WellFormed(a)
  PROVE  WireBytes(a) \in Seq(Bytes)
<1>1. HeaderBytes(a) \in Seq(Bytes) /\ Behind(a) \in Seq(Bytes)
      /\ WireBytes(a) = HeaderBytes(a) \o Behind(a)
  <2>1. <<>> \in Seq(Bytes)
    OBVIOUS
  <2> QED
    BY <2>1, HeaderShape, BehindFacts
<1> QED
  BY <1>1, ConcatProperties

\* What processNewData() does when it does not fail.
GoesOn(got, method) ==
  LET first == got.r.hdrCompleted /\ ~aHeader
      done  == Completed(got.r, method)
  IN  /\ got.fault = "none" /\ (first => IsFirst(got.r.hdr))
      /\ buffer' = SubSeq(buffer, got.taken + 1, Len(buffer))
      /\ aHeader' = (aHeader \/ first)
      /\ timeoutKnown' = IF first THEN got.r.hdr.keepAliveTimeout ELSE timeoutKnown
      /\ request' = IF done THEN NewRequest ELSE got.r
      /\ answered' = IF done THEN Append(answered, got.r) ELSE answered
      /\ UNCHANGED <<answers, socket, httpFault>>

\* The cases of a round of the loop: it fails, or it goes on.
LEMMA ProcessCases ==
  ASSUME Types, ProcessData
  PROVE  LET current == Len(answered) + 1
             method == answers[current].method
             got == ParseData(request, buffer, method)
         IN  /\ HttpRunning /\ buffer # <<>>
             /\ \/ current > Len(answers) /\ HttpFail("noRequest")
                \/ current <= Len(answers) /\ got.fault # "none" /\ HttpFail(got.fault)
                \/ /\ current <= Len(answers) /\ got.fault = "none"
                   /\ got.r.hdrCompleted /\ ~aHeader /\ ~IsFirst(got.r.hdr)
                   /\ HttpFail("firstHeader")
                \/ /\ current <= Len(answers) /\ ReadsBefore(request, buffer)
                   /\ HttpFail("readBeforeHeader")
                \/ current <= Len(answers) /\ GoesOn(got, method)
<1> DEFINE current == Len(answered) + 1
           method == answers[current].method
           got == ParseData(request, buffer, method)
<1>1. HttpRunning /\ buffer # <<>>
  BY DEF ProcessData
<1>2. current \in Nat /\ Len(answers) \in Nat
  BY LenProperties DEF Types
<1>3. CASE current > Len(answers)
  <2>1. HttpFail("noRequest")
    BY <1>3 DEF ProcessData
  <2> QED
    BY <1>1, <1>3, <2>1
<1>4. CASE ~(current > Len(answers))
  <2>1. ProcessParsed(got, method) \/ (ReadsBefore(request, buffer) /\ HttpFail("readBeforeHeader"))
    BY <1>4 DEF ProcessData
  <2>2. current <= Len(answers)
    BY <1>2, <1>4
  <2> HIDE DEF got, method
  <2>3. CASE ProcessParsed(got, method) /\ got.fault # "none"
    BY <1>1, <2>2, <2>3 DEF ProcessParsed, got, method
  <2>4. CASE /\ ProcessParsed(got, method)
             /\ got.fault = "none" /\ got.r.hdrCompleted /\ ~aHeader /\ ~IsFirst(got.r.hdr)
    BY <1>1, <2>2, <2>4 DEF ProcessParsed, got, method
  <2>5. CASE /\ ProcessParsed(got, method)
             /\ got.fault = "none" /\ ~(got.r.hdrCompleted /\ ~aHeader /\ ~IsFirst(got.r.hdr))
    <3>1. GoesOn(got, method)
      BY <2>5 DEF ProcessParsed, GoesOn
    <3> QED
      BY <1>1, <2>2, <3>1 DEF got, method
  <2>6. CASE ReadsBefore(request, buffer) /\ HttpFail("readBeforeHeader")
    BY <1>1, <2>2, <2>6
  <2> QED
    BY <2>1, <2>3, <2>4, <2>5, <2>6
<1> QED
  BY <1>3, <1>4

\* The types are kept by the server,
LEMMA TypesSend ==
  ASSUME Types, NEW a \in Answers, Send(a)
  PROVE  Types'
<1>1. answers' \in Seq(Answers) /\ Len(answers') = Len(answers) + 1 /\ Len(answers) \in Nat
  BY AppendProperties, LenProperties DEF Types, Send
<1>2. Len(answers') <= MaxAnswers
  BY <1>1, HttpHeaderAssumption DEF Send
<1>3. socket' \in Seq(Bytes)
  BY WireTyped, ConcatProperties, HttpHeaderAssumption DEF Types, Send
<1>4. Len(answered) <= Len(answers')
  <2>1. Len(answered) \in Nat
    BY LenProperties DEF Types
  <2> QED
    BY <1>1, <2>1 DEF Types
<1> QED
  BY <1>1, <1>2, <1>3, <1>4 DEF Types, Send

\* by a read
LEMMA TypesRecv ==
  ASSUME Types, NEW n \in 1..ReadSize, Recv(n)
  PROVE  Types'
<1>1. n \in Nat /\ n <= ReadSize /\ n \in 0..Len(socket)
  BY HttpHeaderAssumption DEF Recv
<1>2. /\ buffer' \in Seq(Bytes) /\ socket' \in Seq(Bytes) /\ Len(buffer') = n
  BY <1>1, CutFacts DEF Types, Recv
<1> QED
  BY <1>1, <1>2 DEF Types, Recv

\* and by a round of the loop.
LEMMA TypesProcess ==
  ASSUME Types, ProcessData
  PROVE  Types'
<1> DEFINE current == Len(answered) + 1
           method == answers[current].method
           got == ParseData(request, buffer, method)
<1>1. /\ got.fault \in Faults
      /\ got.fault = "none" => got.r \in Requests /\ got.taken \in 0..Len(buffer)
  BY ProcessCases, DataIsTyped DEF Types
<1>2. ASSUME NEW where \in Faults, HttpFail(where)
      PROVE  Types'
  BY <1>2 DEF HttpFail, Types
<1>3. ASSUME current <= Len(answers), GoesOn(got, method)
      PROVE  Types'
  <2> HIDE DEF got, method
  <2>1. got.fault = "none" /\ got.r \in Requests /\ got.taken \in 0..Len(buffer)
    BY <1>1, <1>3 DEF GoesOn
  <2>2. buffer' \in Seq(Bytes) /\ Len(buffer') <= ReadSize
    <3>1. /\ SubSeq(buffer, got.taken + 1, Len(buffer)) \in Seq(Bytes)
          /\ Len(SubSeq(buffer, got.taken + 1, Len(buffer))) = Len(buffer) - got.taken
      BY <2>1, CutFacts DEF Types
    <3>2. buffer' = SubSeq(buffer, got.taken + 1, Len(buffer))
      BY <1>3 DEF GoesOn
    <3>3. Len(buffer) \in Nat /\ Len(buffer) <= ReadSize /\ ReadSize \in Nat
      BY LenProperties, HttpHeaderAssumption DEF Types
    <3> QED
      BY <2>1, <3>1, <3>2, <3>3
  <2>3. answered' \in Seq(Requests) /\ Len(answered') <= Len(answers)
    <3>1. Len(answered) \in Nat /\ Len(answers) \in Nat /\ answered \in Seq(Requests)
      BY LenProperties DEF Types
    <3>2. CASE Completed(got.r, method)
      <4>1. answered' = Append(answered, got.r)
        BY <1>3, <3>2 DEF GoesOn
      <4>2. answered' \in Seq(Requests) /\ Len(answered') = Len(answered) + 1
        BY <2>1, <3>1, <4>1, AppendProperties
      <4> QED
        BY <1>3, <4>2
    <3>3. CASE ~Completed(got.r, method)
      BY <1>3, <3>1, <3>3 DEF GoesOn, Types
    <3> QED
      BY <3>2, <3>3
  <2>4. request' \in Requests
    <3>1. NewRequest \in Requests
      <4>1. NewHdr \in Hdr
        BY DEF NewHdr, Hdr
      <4> QED
        BY <4>1 DEF NewRequest, Requests
    <3> QED
      BY <1>3, <2>1, <3>1 DEF GoesOn
  <2>5. aHeader' \in BOOLEAN /\ timeoutKnown' \in Int /\ (aHeader' <=> timeoutKnown' # -1)
    <3>1. got.r.hdrCompleted \in BOOLEAN /\ got.r.hdr.keepAliveTimeout \in Int
      BY <2>1 DEF Requests, Hdr
    <3>2. CASE got.r.hdrCompleted /\ ~aHeader
      <4>1. got.r.hdr.keepAliveTimeout > 0
        BY <1>3, <3>2 DEF GoesOn, IsFirst
      <4>2. aHeader' = TRUE /\ timeoutKnown' = got.r.hdr.keepAliveTimeout
        BY <1>3, <3>2 DEF GoesOn
      <4> QED
        BY <3>1, <4>1, <4>2
    <3>3. CASE ~(got.r.hdrCompleted /\ ~aHeader)
      <4>1. aHeader' = aHeader /\ timeoutKnown' = timeoutKnown
        BY <1>3, <3>3 DEF GoesOn, Types
      <4> QED
        BY <4>1 DEF Types
    <3> QED
      BY <3>2, <3>3
  <2>6. UNCHANGED <<answers, socket, httpFault>>
    BY <1>3 DEF GoesOn
  <2> QED
    BY <2>2, <2>3, <2>4, <2>5, <2>6 DEF Types
<1>4. {"noRequest", "firstHeader", "readBeforeHeader"} \subseteq Faults
  BY DEF Faults
<1> QED
  <2> HIDE DEF got, method
  <2>1. \/ HttpFail("noRequest") \/ HttpFail(got.fault) \/ HttpFail("firstHeader")
        \/ HttpFail("readBeforeHeader")
        \/ current <= Len(answers) /\ GoesOn(got, method)
    BY ProcessCases DEF got, method
  <2> QED
    BY <1>1, <1>2, <1>3, <1>4, <2>1

-----------------------------------------------------------------------------
(* The requests and the bytes *)

\* No body begins like the rest of a blank line.
NoBlank == \A i \in DOMAIN answers : ~BeginsBlank(answers[i])

\* f[k] are the bytes of the answers from the k-th one.
StreamOf(f, as) ==
  /\ f \in [1..(Len(as) + 1) -> Seq(Bytes)] /\ f[Len(as) + 1] = <<>>
  /\ \A k \in 1..Len(as) : f[k] = WireBytes(as[k]) \o f[k + 1]

\* What the request at the front has received and what is to come.
Pending == request.hdrBytes \o (request.payload \o (buffer \o socket))

\* What has been cut so far, and what is to come, are the answers: the request at
\* the front has a part of its own, and those before it have had theirs.  The first
\* header that was completed was that of the first answer, and has set the timeout.
CutRight ==
  /\ \E f : StreamOf(f, answers) /\ Pending = f[Len(answered) + 1]
  /\ Len(answered) = Len(answers) => request = NewRequest
  /\ Len(answered) < Len(answers) => Received(request, answers[Len(answered) + 1])
  /\ \A i \in DOMAIN answered :
       answered[i].hdrBytes \o answered[i].payload = WireBytes(answers[i])
  /\ (answered # <<>> \/ request.hdrCompleted) => aHeader
  /\ timeoutKnown # -1 =>
       answers # <<>> /\ ~Has(answers[1], "close") /\ timeoutKnown = TimeoutOf(answers[1])

\* Every answer is one that the server may send.
LEMMA AnswersAreWell ==
  ASSUME Types, NEW k \in 1..Len(answers)
  PROVE  k \in DOMAIN answers /\ answers[k] \in Answers /\ WellFormed(answers[k])
<1>1. answers \in Seq(Answers)
  BY DEF Types
<1>2. k \in DOMAIN answers /\ answers[k] \in Answers
  BY <1>1, ElementOfSeq
<1> QED
  BY <1>2, HttpHeaderAssumption

\* Whatever follows an answer begins with a line.
LEMMA StreamLines ==
  ASSUME Types, NEW f, StreamOf(f, answers), NEW k \in 1..(Len(answers) + 1)
  PROVE  f[k] \in Seq(Bytes) /\ LineFirst(f[k])
<1>1. f[k] \in Seq(Bytes) /\ Len(answers) \in Nat
  BY LenProperties DEF StreamOf, Types
<1>2. CASE k = Len(answers) + 1
  <2>1. f[k] = <<>>
    BY <1>2 DEF StreamOf
  <2> QED
    BY <1>1, <2>1 DEF LineFirst
<1>3. CASE k # Len(answers) + 1
  <2>1. k \in 1..Len(answers) /\ k + 1 \in 1..(Len(answers) + 1)
    BY <1>1, <1>3
  <2> DEFINE a == answers[k]
             H == HeaderBytes(a)
             rest == Behind(a) \o f[k + 1]
  <2>2. WellFormed(a)
    BY <2>1, AnswersAreWell
  <2>3. f[k + 1] \in Seq(Bytes) /\ f[k] = WireBytes(a) \o f[k + 1]
    BY <2>1 DEF StreamOf
  <2> HIDE DEF a
  <2>4. rest \in Seq(Bytes) /\ f[k] = H \o rest
    BY <2>2, <2>3, BehindFacts
  <2>5. H \in Seq(Bytes) /\ Len(H) \in Nat /\ Len(H) >= 5 /\ H[1] \in Lines
    BY <2>2, HeaderShape, BlankAtTheEnd
  <2> HIDE DEF rest, H
  <2>6. (H \o rest)[1] = H[1]
    <3>1. \A i \in 1..(Len(H) + Len(rest)) : (H \o rest)[i] = IF i <= Len(H) THEN H[i] ELSE rest[i - Len(H)]
      BY <2>4, <2>5, ConcatProperties
    <3>2. Len(rest) \in Nat
      BY <2>4, LenProperties
    <3>3. 1 \in 1..(Len(H) + Len(rest)) /\ 1 <= Len(H)
      BY <2>5, <3>2
    <3> QED
      BY <3>1, <3>3
  <2> QED
    BY <1>1, <2>4, <2>5, <2>6 DEF LineFirst
<1> QED
  BY <1>2, <1>3

\* No answer has been sent, and nothing is to come.
LEMMA CutInit ==
  HttpInit => CutRight
<1> SUFFICES ASSUME HttpInit
             PROVE  CutRight
  OBVIOUS
<1>1. /\ answers = <<>> /\ socket = <<>> /\ buffer = <<>> /\ answered = <<>>
      /\ request = NewRequest /\ timeoutKnown = -1
      /\ NewRequest.hdrBytes = <<>> /\ NewRequest.payload = <<>> /\ NewRequest.hdrCompleted = FALSE
  BY DEF HttpInit, NewRequest
<1>2. Len(<<>>) = 0 /\ <<>> \o <<>> = <<>> /\ <<>> \in Seq(Bytes) /\ DOMAIN <<>> = {}
  OBVIOUS
<1> DEFINE f == [k \in 1..(0 + 1) |-> <<>>]
<1>3. StreamOf(f, <<>>)
  BY <1>2 DEF StreamOf
<1>4. Pending = <<>> /\ f[0 + 1] = <<>>
  BY <1>1, <1>2 DEF Pending
<1> HIDE DEF f
<1>5. \E g : StreamOf(g, answers) /\ Pending = g[Len(answered) + 1]
  BY <1>1, <1>2, <1>3, <1>4
<1>6. ~(Len(answered) < Len(answers)) /\ answered = <<>>
  BY <1>1, <1>2
<1> QED
  BY <1>1, <1>2, <1>5, <1>6 DEF CutRight

\* More bytes at the end of three parts.
AtTheEnd(x, y, z, s, w) == x \o (y \o (z \o (s \o w))) = (x \o (y \o (z \o s))) \o w

\* They are put together with the others.
LEMMA JoinedAtTheEnd ==
  ASSUME NEW x \in Seq(Bytes), NEW y \in Seq(Bytes), NEW z \in Seq(Bytes), NEW s \in Seq(Bytes),
         NEW w \in Seq(Bytes)
  PROVE  AtTheEnd(x, y, z, s, w)
<1> DEFINE zs == z \o s
           yzs == y \o zs
<1>1. zs \in Seq(Bytes)
  BY ConcatProperties
<1>2. Joins(z, s, w)
  BY JoinsAnyWay
<1>3. zs \o w = z \o (s \o w)
  BY <1>2 DEF Joins
<1> HIDE DEF zs
<1>4. yzs \in Seq(Bytes) /\ Joins(y, zs, w)
  BY <1>1, JoinsAnyWay, ConcatProperties
<1>5. yzs \o w = y \o (zs \o w)
  BY <1>4, Zenon DEF Joins
<1> HIDE DEF yzs
<1>6. Joins(x, yzs, w)
  BY <1>4, JoinsAnyWay
<1>7. (x \o yzs) \o w = x \o (yzs \o w)
  BY <1>6, Zenon DEF Joins
<1> QED
  BY <1>3, <1>5, <1>7, Zenon DEF yzs, zs, AtTheEnd

\* One more answer is sent: its bytes are behind all others.
LEMMA StreamGrows ==
  ASSUME Types, NEW f, StreamOf(f, answers), NEW a \in Answers
  PROVE  LET as == Append(answers, a)
             g == [k \in 1..(Len(answers) + 2) |->
                     IF k <= Len(answers) + 1 THEN f[k] \o WireBytes(a) ELSE <<>>]
         IN  StreamOf(g, as)
<1> DEFINE n == Len(answers)
           as == Append(answers, a)
           W == WireBytes(a)
           g == [k \in 1..(n + 2) |-> IF k <= n + 1 THEN f[k] \o W ELSE <<>>]
<1>1. n \in Nat /\ answers \in Seq(Answers)
  BY LenProperties DEF Types
<1>2. /\ Len(as) = n + 1 /\ as[n + 1] = a
      /\ \A k \in 1..n : as[k] = answers[k]
  BY <1>1, AppendProperties
<1>3. W \in Seq(Bytes)
  BY WireTyped, HttpHeaderAssumption
<1>4. \A k \in 1..(n + 1) : f[k] \in Seq(Bytes)
  BY DEF StreamOf
<1>5. f[n + 1] = <<>> /\ \A k \in 1..n : f[k] = WireBytes(answers[k]) \o f[k + 1]
  BY DEF StreamOf
<1> HIDE DEF n, as, W
<1>6. g \in [1..(n + 2) -> Seq(Bytes)]
  <2>1. ASSUME NEW k \in 1..(n + 2)
        PROVE  (IF k <= n + 1 THEN f[k] \o W ELSE <<>>) \in Seq(Bytes)
    <3>1. CASE k <= n + 1
      <4>1. f[k] \in Seq(Bytes)
        BY <1>1, <1>4, <3>1
      <4> QED
        BY <1>3, <3>1, <4>1, ConcatProperties
    <3> QED
      BY <3>1
  <2> QED
    BY <2>1
<1>7. g[n + 2] = <<>>
  BY <1>1
<1>8. g[n + 1] = W \o g[n + 2]
  <2>1. g[n + 1] = f[n + 1] \o W
    BY <1>1
  <2>2. <<>> \o W = W /\ W \o <<>> = W
    BY <1>3
  <2> HIDE DEF g
  <2> QED
    BY <1>5, <1>7, <2>1, <2>2
<1>9. ASSUME NEW k \in 1..n
      PROVE  g[k] = WireBytes(as[k]) \o g[k + 1]
  <2>1. k <= n + 1 /\ k + 1 <= n + 1 /\ k \in 1..(n + 2) /\ k + 1 \in 1..(n + 2) /\ k + 1 \in 1..(n + 1)
    BY <1>1
  <2>2. g[k] = f[k] \o W /\ g[k + 1] = f[k + 1] \o W
    BY <2>1
  <2> DEFINE x == WireBytes(answers[k])
             y == f[k + 1]
  <2>3. x \in Seq(Bytes)
    BY AnswersAreWell, WireTyped DEF n
  <2>4. y \in Seq(Bytes) /\ f[k] = x \o y /\ as[k] = answers[k]
    BY <1>2, <1>4, <1>5, <2>1
  <2>5. WireBytes(as[k]) = x
    BY <2>4
  <2> HIDE DEF x, g
  <2>6. Joins(x, y, W)
    BY <1>3, <2>3, <2>4, JoinsAnyWay
  <2> QED
    BY <2>2, <2>4, <2>5, <2>6, Zenon DEF Joins
<1> HIDE DEF g
<1>10. \A k \in 1..(n + 1) : g[k] = WireBytes(as[k]) \o g[k + 1]
  <2> SUFFICES ASSUME NEW k \in 1..(n + 1)
               PROVE  g[k] = WireBytes(as[k]) \o g[k + 1]
    OBVIOUS
  <2>1. CASE k = n + 1
    <3>1. k + 1 = n + 2
      BY <1>1, <2>1
    <3>2. as[k] = a
      BY <1>2, <2>1
    <3>3. WireBytes(as[k]) = W
      BY <3>2 DEF W
    <3> QED
      BY <1>8, <2>1, <3>1, <3>3
  <2>2. CASE k # n + 1
    <3>1. k \in 1..n
      BY <1>1, <2>2
    <3> QED
      BY <1>9, <3>1
  <2> QED
    BY <2>1, <2>2
<1>11. (n + 1) + 1 = n + 2
  BY <1>1
<1> QED
  BY <1>2, <1>6, <1>7, <1>10, <1>11 DEF StreamOf, g, n, as, W

\* The server sends an answer: its bytes are to come.
LEMMA CutSend ==
  ASSUME Types, NoBlank => CutRight, NEW a \in Answers, Send(a), NoBlank'
  PROVE  NoBlank /\ CutRight'
<1> DEFINE n == Len(answers)
           c == Len(answered) + 1
           W == WireBytes(a)
<1>1. /\ n \in Nat /\ Len(answered) \in Nat /\ Len(answered) <= n /\ answers \in Seq(Answers)
      /\ DOMAIN answers = 1..n
  BY LenProperties DEF Types
<1>2. /\ answers' = Append(answers, a) /\ Len(answers') = n + 1
      /\ DOMAIN answers' = 1..(n + 1) /\ answers'[n + 1] = a
      /\ \A i \in 1..n : answers'[i] = answers[i]
  <2>1. answers' = Append(answers, a)
    BY DEF Send
  <2>2. /\ Append(answers, a) \in Seq(Answers) /\ Len(Append(answers, a)) = n + 1
        /\ Append(answers, a)[n + 1] = a
        /\ \A i \in 1..n : Append(answers, a)[i] = answers[i]
    BY <1>1, AppendProperties
  <2>3. DOMAIN Append(answers, a) = 1..(n + 1)
    BY <2>2, LenProperties
  <2> QED
    BY <2>1, <2>2, <2>3
<1>3. NoBlank
  BY <1>1, <1>2 DEF NoBlank
<1>4. CutRight
  BY <1>3
<1>5. /\ UNCHANGED <<buffer, answered, request, aHeader, timeoutKnown>>
      /\ socket' = socket \o W
  BY DEF Send
<1>6. PICK f : StreamOf(f, answers) /\ Pending = f[c]
  BY <1>4 DEF CutRight
<1> DEFINE g == [k \in 1..(n + 2) |-> IF k <= n + 1 THEN f[k] \o W ELSE <<>>]
<1>7. StreamOf(g, answers')
  BY <1>2, <1>6, StreamGrows
<1>8. g[c] = Pending \o W
  <2>1. c \in 1..(n + 2) /\ c <= n + 1
    BY <1>1
  <2> QED
    BY <1>6, <2>1
<1>9. W \in Seq(Bytes) /\ WellFormed(a)
  BY WireTyped, HttpHeaderAssumption
<1>10. Pending' = Pending \o W
  <2>1. /\ request.hdrBytes \in Seq(Bytes) /\ request.payload \in Seq(Bytes)
        /\ buffer \in Seq(Bytes) /\ socket \in Seq(Bytes)
    BY DEF Types, Requests
  <2> HIDE DEF W
  <2>2. AtTheEnd(request.hdrBytes, request.payload, buffer, socket, W)
    BY <1>9, <2>1, JoinedAtTheEnd
  <2>3. Pending' = request.hdrBytes \o (request.payload \o (buffer \o (socket \o W)))
    BY <1>5, Zenon DEF Pending
  <2> QED
    BY <2>2, <2>3, Zenon DEF Pending, AtTheEnd
<1> HIDE DEF g, W, n
<1>11. \E h : StreamOf(h, answers') /\ Pending' = h[Len(answered') + 1]
  BY <1>5, <1>7, <1>8, <1>10
<1>12. Len(answered') < Len(answers') /\ Len(answered') # Len(answers')
  BY <1>1, <1>2, <1>5
<1>13. Received(request', answers'[Len(answered') + 1])
  <2>1. CASE Len(answered) = n
    <3>1. request' = NewRequest /\ answers'[Len(answered') + 1] = a
      BY <1>2, <1>4, <1>5, <2>1 DEF CutRight, n
    <3>2. /\ NewRequest.hdrBytes = <<>> /\ NewRequest.payload = <<>>
          /\ NewRequest.hdrCompleted = FALSE /\ Len(<<>>) = 0
      BY DEF NewRequest
    <3>3. Len(HeaderBytes(a)) \in Nat /\ Len(HeaderBytes(a)) >= 5
      BY <1>9, BlankAtTheEnd
    <3>4. Received(NewRequest, a)
      BY <3>2, <3>3 DEF Received
    <3> QED
      BY <3>1, <3>4
  <2>2. CASE Len(answered) # n
    <3>1. c \in 1..n /\ Len(answered) < n
      BY <1>1, <2>2
    <3>2. Received(request, answers[c])
      BY <1>4, <3>1 DEF CutRight, n
    <3>3. answers'[c] = answers[c] /\ Len(answered') + 1 = c /\ request' = request
      BY <1>2, <1>5, <3>1
    <3> QED
      BY <3>2, <3>3
  <2> QED
    BY <2>1, <2>2
<1>14. \A i \in DOMAIN answered' :
         answered'[i].hdrBytes \o answered'[i].payload = WireBytes(answers'[i])
  <2> SUFFICES ASSUME NEW i \in DOMAIN answered
               PROVE  answered[i].hdrBytes \o answered[i].payload = WireBytes(answers'[i])
    BY <1>5
  <2>1. DOMAIN answered = 1..Len(answered)
    BY LenProperties DEF Types
  <2>2. i \in 1..n
    BY <1>1, <2>1
  <2> QED
    BY <1>2, <1>4, <2>2 DEF CutRight
<1>15. (answered' # <<>> \/ request'.hdrCompleted) => aHeader'
  BY <1>4, <1>5 DEF CutRight
<1>16. timeoutKnown' # -1 =>
         answers' # <<>> /\ ~Has(answers'[1], "close") /\ timeoutKnown' = TimeoutOf(answers'[1])
  <2> SUFFICES ASSUME timeoutKnown' # -1
               PROVE  answers' # <<>> /\ ~Has(answers'[1], "close")
                      /\ timeoutKnown' = TimeoutOf(answers'[1])
    OBVIOUS
  <2>1. answers # <<>> /\ ~Has(answers[1], "close") /\ timeoutKnown = TimeoutOf(answers[1])
    BY <1>4, <1>5 DEF CutRight
  <2>2. 1 \in 1..n /\ n + 1 # 0
    <3>1. n # 0
      BY <1>1, <2>1, EmptySeq DEF n
    <3> QED
      BY <1>1, <3>1
  <2>3. answers' # <<>>
    BY <1>2, <2>2
  <2> QED
    BY <1>2, <1>5, <2>1, <2>2, <2>3
<1> QED
  BY <1>3, <1>11, <1>12, <1>13, <1>14, <1>15, <1>16 DEF CutRight

\* A read moves bytes from the socket into the buffer; they are still to come.
LEMMA CutRecv ==
  ASSUME Types, CutRight, NEW n \in 1..ReadSize, Recv(n)
  PROVE  CutRight'
<1>1. /\ UNCHANGED <<answers, answered, request, aHeader, timeoutKnown>>
      /\ buffer = <<>> /\ buffer' = SubSeq(socket, 1, n)
      /\ socket' = SubSeq(socket, n + 1, Len(socket)) /\ n <= Len(socket)
  BY DEF Recv
<1>2. n \in 0..Len(socket) /\ socket \in Seq(Bytes)
  BY <1>1, HttpHeaderAssumption DEF Types
<1>3. buffer' \o socket' = socket
  BY <1>1, <1>2, CutFacts
<1>4. buffer \o socket = socket
  BY <1>1, <1>2
<1>5. Pending' = Pending
  BY <1>1, <1>3, <1>4, Zenon DEF Pending
<1> QED
  BY <1>1, <1>5, Zenon DEF CutRight

\* The process ends, and nothing is cut any more.
LEMMA CutFail ==
  ASSUME CutRight, NEW where, HttpFail(where)
  PROVE  CutRight'
BY Zenon DEF HttpFail, CutRight, Pending

\* parseData() is right about the answer at the front.
LEMMA FrontIsParsed ==
  ASSUME Types, NoBlank, CutRight, buffer # <<>>,
         NEW f, StreamOf(f, answers), Pending = f[Len(answered) + 1],
         Len(answered) + 1 <= Len(answers)
  PROVE  LET c == Len(answered) + 1
             a == answers[c]
         IN  /\ WellFormed(a) /\ f[c + 1] \in Seq(Bytes)
             /\ Parsed(ParseData(request, buffer, a.method), a, request, buffer, socket, f[c + 1])
<1> DEFINE c == Len(answered) + 1
           a == answers[c]
           v == f[c + 1]
<1>1. /\ Len(answered) \in Nat /\ Len(answers) \in Nat
      /\ request \in Requests /\ buffer \in Seq(Bytes) /\ socket \in Seq(Bytes)
  BY LenProperties DEF Types
<1>2. c \in 1..Len(answers) /\ c + 1 \in 1..(Len(answers) + 1) /\ Len(answered) < Len(answers)
  BY <1>1
<1>3. WellFormed(a) /\ ~BeginsBlank(a)
  BY <1>2, AnswersAreWell DEF NoBlank
<1>4. Received(request, a)
  BY <1>2 DEF CutRight
<1>5. f[c] = WireBytes(a) \o v
  BY <1>2 DEF StreamOf
<1>6. v \in Seq(Bytes) /\ LineFirst(v)
  BY <1>2, StreamLines
<1>7. request.hdrBytes \o (request.payload \o (buffer \o socket)) = WireBytes(a) \o v
  BY <1>5, Zenon DEF Pending
<1> HIDE DEF c, a, v
<1>8. CASE request.hdrCompleted
  <2>1. Parsed(ParseData(request, buffer, a.method), a, request, buffer, socket, v)
    BY <1>1, <1>3, <1>4, <1>6, <1>7, <1>8, HeaderStays
  <2> QED
    BY <1>3, <1>6, <2>1 DEF c, a, v
<1>9. CASE ~request.hdrCompleted
  <2>1. Parsed(ParseData(request, buffer, a.method), a, request, buffer, socket, v)
    BY <1>1, <1>3, <1>4, <1>6, <1>7, <1>9, HeaderGoesOn
  <2> QED
    BY <1>3, <1>6, <2>1 DEF c, a, v
<1> QED
  BY <1>8, <1>9

\* There is an answer for the bytes.
LEMMA FrontIsThere ==
  ASSUME Types, CutRight, buffer # <<>>
  PROVE  Len(answered) + 1 <= Len(answers)
<1>1. Len(answered) \in Nat /\ Len(answers) \in Nat /\ Len(answered) <= Len(answers)
  BY LenProperties DEF Types
<1> SUFFICES ASSUME Len(answered) = Len(answers)
             PROVE  FALSE
  BY <1>1
<1>2. PICK f : StreamOf(f, answers) /\ Pending = f[Len(answered) + 1]
  BY DEF CutRight
<1>3. Pending = <<>>
  BY <1>2 DEF StreamOf
<1>4. request.hdrBytes = <<>> /\ request.payload = <<>>
  BY DEF CutRight, NewRequest
<1>5. buffer \in Seq(Bytes) /\ socket \in Seq(Bytes) /\ buffer \o socket \in Seq(Bytes)
  BY ConcatProperties DEF Types
<1>6. <<>> \o (<<>> \o (buffer \o socket)) = buffer \o socket
  BY <1>5
<1>7. buffer \o socket = <<>>
  BY <1>3, <1>4, <1>6, Zenon DEF Pending
<1>8. Len(buffer \o socket) = Len(buffer) + Len(socket) /\ Len(buffer) \in Nat /\ Len(socket) \in Nat
  BY <1>5, ConcatProperties, LenProperties
<1>9. Len(buffer) = 0
  <2>1. Len(buffer \o socket) = 0
    BY <1>7
  <2> QED
    BY <1>8, <2>1
<1> QED
  BY <1>5, <1>9, EmptySeq

\* A header of which fewer than four characters may have arrived is one of which the
\* first line has begun to arrive.
LEMMA ShortIsFirstLine ==
  ASSUME Types, NoBlank, CutRight, buffer # <<>>, Len(answered) + 1 <= Len(answers),
         ReadsBefore(request, buffer)
  PROVE  request.hdrBytes = <<>> /\ buffer = <<answers[Len(answered) + 1].lines[1]>>
<1> DEFINE c == Len(answered) + 1
           a == answers[c]
           H == HeaderBytes(a)
           g == request.hdrBytes
           n     == EndOfHeader(g, buffer)
           taken == IF n = 0 THEN Len(buffer) ELSE n
           new   == g \o SubSeq(buffer, 1, taken)
           left  == SubSeq(buffer, taken + 1, Len(buffer))
<1>1. /\ Len(answered) \in Nat /\ Len(answers) \in Nat
      /\ request \in Requests /\ buffer \in Seq(Bytes) /\ socket \in Seq(Bytes)
  BY LenProperties DEF Types
<1>2. c \in 1..Len(answers) /\ c + 1 \in 1..(Len(answers) + 1) /\ Len(answered) < Len(answers)
  BY <1>1
<1>3. WellFormed(a) /\ ~BeginsBlank(a)
  BY <1>2, AnswersAreWell DEF NoBlank
<1>4. ~request.hdrCompleted /\ MayBeShort(ParseHeaderBytes(request, buffer).r.hdrBytes)
  BY DEF ReadsBefore
<1>5. ParseHeaderBytes(request, buffer).r.hdrBytes = new
  BY <1>1, HeadCases
<1>6. PICK f : StreamOf(f, answers) /\ Pending = f[c]
  BY DEF CutRight
<1> DEFINE v == f[c + 1]
           rest == Behind(a) \o v
<1>7. v \in Seq(Bytes) /\ LineFirst(v) /\ f[c] = WireBytes(a) \o v
  BY <1>2, <1>6, StreamLines DEF StreamOf
<1>8. /\ g \in Seq(Bytes) /\ request.payload = <<>> /\ Len(g) < Len(H)
      /\ H \in Seq(Bytes) /\ H[1] = a.lines[1] /\ Len(H) >= 5
  <2>1. Received(request, a)
    BY <1>2 DEF CutRight
  <2>2. H \in Seq(Bytes) /\ Len(a.lines) \in Nat \ {0}
    BY <1>3, HeaderShape, AnswerFacts
  <2>3. \A k \in 1..Len(a.lines) : H[3 * k - 2] = a.lines[k]
    BY <1>3, HeaderShape
  <2>4. 1 \in 1..Len(a.lines) /\ 3 * 1 - 2 = 1
    BY <2>2
  <2>5. Len(H) >= 5
    BY <1>3, HeaderShape, BlankAtTheEnd
  <2> HIDE DEF H, a
  <2> QED
    BY <1>1, <1>4, <2>1, <2>2, <2>3, <2>4, <2>5 DEF Received, Requests, H
<1>9. HeaderCut(a, g, buffer, socket, rest)
  <2>1. rest \in Seq(Bytes) /\ WireBytes(a) \o v = H \o rest
    BY <1>3, <1>7, BehindFacts
  <2>2. ~(Len(rest) >= 2 /\ rest[1] = CR /\ rest[2] = LF)
    BY <1>3, <1>7, NoBlankBehind
  <2>3. buffer \o socket \in Seq(Bytes)
    BY <1>1, ConcatProperties
  <2>4. <<>> \o (buffer \o socket) = buffer \o socket
    BY <2>3
  <2>5. g \o (buffer \o socket) = H \o rest
    BY <1>6, <1>7, <1>8, <2>1, <2>4, Zenon DEF Pending
  <2> HIDE DEF rest, g, a
  <2> QED
    BY <1>1, <1>3, <1>8, <2>1, <2>2, <2>5, HeaderTaken DEF H
<1>10. /\ taken \in 1..Len(buffer) /\ new \in Seq(Bytes) /\ left \in Seq(Bytes)
       /\ new \o (left \o socket) = H \o rest
       /\ Len(new) = Len(H) \/ (Len(new) < Len(H) /\ left = <<>>)
  BY <1>9 DEF HeaderCut
<1>11. rest \in Seq(Bytes) /\ left \o socket \in Seq(Bytes)
  BY <1>1, <1>3, <1>7, <1>10, BehindFacts, ConcatProperties
<1>12. /\ Len(new) = Len(g) + taken /\ Len(left) = Len(buffer) - taken
       /\ Len(g) \in Nat /\ Len(buffer) \in Nat
  <2> DEFINE x == SubSeq(buffer, 1, taken)
  <2>1. taken \in 0..Len(buffer) /\ Len(buffer) \in Nat
    BY <1>1, <1>10, LenProperties
  <2> HIDE DEF taken, g
  <2>2. x \in Seq(Bytes) /\ Len(x) = taken /\ Len(left) = Len(buffer) - taken
    BY <1>1, <2>1, CutFacts
  <2> HIDE DEF x, left
  <2>3. Len(g \o x) = Len(g) + Len(x) /\ Len(g) \in Nat
    BY <1>8, <2>2, ConcatProperties, LenProperties
  <2>4. new = g \o x
    BY DEF x
  <2> HIDE DEF new
  <2> QED
    BY <2>1, <2>2, <2>3, <2>4
<1>13. Len(new) < 4 /\ \A i \in 1..(Len(new) - 1) : new[i] \in {CR, LF, Byte}
  BY <1>4, <1>5 DEF MayBeShort
<1> HIDE DEF c, a, H, n, taken, new, left, rest, g
<1>14. new[1] = a.lines[1]
  <2>1. Len(new) >= 1
    BY <1>10, <1>12
  <2>2. Len(H) >= 1 /\ Len(H) \in Nat /\ Len(new) \in Nat /\ Len(rest) \in Nat
        /\ Len(left \o socket) \in Nat
    BY <1>8, <1>10, <1>11, LenProperties
  <2>3. (new \o (left \o socket))[1] = new[1]
    BY <1>10, <1>11, <2>1, <2>2, ConcatProperties
  <2>4. (H \o rest)[1] = H[1]
    BY <1>8, <1>11, <2>2, ConcatProperties
  <2> QED
    BY <1>8, <1>10, <2>3, <2>4
<1>15. a.lines[1] \notin {CR, LF, Byte}
  <2>1. a.lines[1] \in Lines
    BY <1>3, AnswerFacts, ElementOfSeq
  <2>2. Byte.name = "byte"
    BY DEF Byte, Line
  <2> QED
    BY <2>1, <2>2, BytesDiffer DEF Lines
<1> DEFINE k == Len(new)  h == Len(H)  m == Len(g)  b == Len(buffer)
<1>16. /\ k = m + taken /\ Len(left) = b - taken /\ taken \in 1..b
       /\ k \in Nat /\ h \in Nat /\ m \in Nat /\ b \in Nat /\ h >= 5
       /\ k < 4 /\ (k = h \/ left = <<>>) /\ ~(1 \in 1..(k - 1))
  BY <1>8, <1>10, <1>12, <1>13, <1>14, <1>15, LenProperties
<1>17. m = 0 /\ taken = 1 /\ b = 1 /\ g = <<>>
  <2> HIDE DEF k, h, m, b
  <2>1. k = 1 /\ m = 0 /\ taken = 1 /\ k # h
    BY <1>16
  <2>2. Len(left) = 0
    BY <1>16, <2>1
  <2>3. b = 1
    BY <1>16, <2>1, <2>2
  <2> QED
    BY <1>8, <2>1, <2>3, EmptySeq DEF m
<1>18. buffer[1] = new[1]
  <2>1. new = <<>> \o SubSeq(buffer, 1, 1)
    BY <1>17 DEF new
  <2>2. SubSeq(buffer, 1, 1) = buffer
    BY <1>1, <1>17, SubSeqFull
  <2>3. <<>> \o buffer = buffer
    BY <1>1
  <2> QED
    BY <2>1, <2>2, <2>3
<1>19. buffer = <<a.lines[1]>>
  BY <1>1, <1>14, <1>17, <1>18
<1> QED
  BY <1>17, <1>19 DEF a, c, g

\* A round of the loop that goes on hands the request at the front bytes of its own
\* answer, and all that is left of it before the next one becomes the front.
LEMMA CutGoesOn ==
  ASSUME Types, NoBlank, CutRight, buffer # <<>>, Len(answered) + 1 <= Len(answers),
         LET method == answers[Len(answered) + 1].method
         IN  GoesOn(ParseData(request, buffer, method), method)
  PROVE  CutRight'
<1> DEFINE c == Len(answered) + 1
           a == answers[c]
           got == ParseData(request, buffer, a.method)
           q == got.r
           w == SubSeq(buffer, got.taken + 1, Len(buffer)) \o socket
           first == q.hdrCompleted /\ ~aHeader
           done == Completed(q, a.method)
<1>1. PICK f : StreamOf(f, answers) /\ Pending = f[c]
  BY DEF CutRight
<1> DEFINE v == f[c + 1]
<1>2. WellFormed(a) /\ v \in Seq(Bytes) /\ Parsed(got, a, request, buffer, socket, v)
  BY <1>1, FrontIsParsed
<1>3. /\ got.fault = "none" /\ (first => IsFirst(q.hdr))
      /\ buffer' = SubSeq(buffer, got.taken + 1, Len(buffer))
      /\ aHeader' = (aHeader \/ first)
      /\ timeoutKnown' = IF first THEN q.hdr.keepAliveTimeout ELSE timeoutKnown
      /\ request' = IF done THEN NewRequest ELSE q
      /\ answered' = IF done THEN Append(answered, q) ELSE answered
      /\ UNCHANGED <<answers, socket, httpFault>>
  BY DEF GoesOn
<1>4. /\ q \in Requests /\ GoneOn(q, a, w, v)
      /\ q.hdrCompleted /\ ~request.hdrCompleted => HeaderRight(q.hdr, a)
      /\ got.taken \in 0..Len(buffer)
  BY <1>2, <1>3 DEF Parsed
<1>5. w = buffer' \o socket' /\ w \in Seq(Bytes)
  <2>1. w = buffer' \o socket'
    BY <1>3
  <2> HIDE DEF got
  <2>2. SubSeq(buffer, got.taken + 1, Len(buffer)) \in Seq(Bytes) /\ socket \in Seq(Bytes)
    BY <1>4, CutFacts DEF Types
  <2> QED
    BY <2>1, <2>2, ConcatProperties
<1>6. /\ Len(answered) \in Nat /\ Len(answers) \in Nat /\ c \in 1..Len(answers)
      /\ answered \in Seq(Requests) /\ DOMAIN answered = 1..Len(answered)
  BY LenProperties DEF Types
<1>7. f[c] = WireBytes(a) \o v
  BY <1>1, <1>6 DEF StreamOf
<1>8. aHeader \in BOOLEAN
  BY DEF Types
<1> HIDE DEF a, got, q, w, done, v
<1>9. CASE done
  <2>1. /\ q.hdrBytes \o q.payload = WireBytes(a) /\ w = v /\ q.hdrCompleted
    BY <1>4, <1>9 DEF GoneOn, done, Completed
  <2>2. request' = NewRequest /\ answered' = Append(answered, q)
    BY <1>3, <1>9
  <2>3. /\ Len(answered') = c /\ DOMAIN answered' = 1..c
        /\ answered'[c] = q /\ \A i \in 1..Len(answered) : answered'[i] = answered[i]
    <3>1. /\ Append(answered, q) \in Seq(Requests) /\ Len(Append(answered, q)) = c
          /\ Append(answered, q)[c] = q
          /\ \A i \in 1..Len(answered) : Append(answered, q)[i] = answered[i]
      BY <1>4, <1>6, AppendProperties
    <3>2. DOMAIN Append(answered, q) = 1..c
      BY <3>1, LenProperties
    <3> QED
      BY <2>2, <3>1, <3>2
  <2>4. Pending' = f[Len(answered') + 1]
    <3>1. /\ NewRequest.hdrBytes = <<>> /\ NewRequest.payload = <<>>
      BY DEF NewRequest
    <3>2. <<>> \o (<<>> \o w) = w
      BY <1>5
    <3>3. Pending' = w
      BY <1>5, <2>2, <3>1, <3>2, Zenon DEF Pending
    <3> QED
      BY <2>1, <2>3, <3>3 DEF v
  <2>5. Len(answered') = Len(answers') => request' = NewRequest
    BY <2>2
  <2>6. Len(answered') < Len(answers') => Received(request', answers'[Len(answered') + 1])
    <3> SUFFICES ASSUME Len(answered') < Len(answers')
                 PROVE  Received(NewRequest, answers'[Len(answered') + 1])
      BY <2>2
    <3>1. c + 1 \in 1..Len(answers) /\ answers'[Len(answered') + 1] = answers[c + 1]
      BY <1>3, <1>6, <2>3
    <3>2. /\ NewRequest.hdrBytes = <<>> /\ NewRequest.payload = <<>>
          /\ NewRequest.hdrCompleted = FALSE /\ Len(<<>>) = 0
      BY DEF NewRequest
    <3> DEFINE h == Len(HeaderBytes(answers[c + 1]))
    <3>3. h \in Nat /\ h >= 5
      BY <3>1, AnswersAreWell, BlankAtTheEnd
    <3> QED
      BY <3>1, <3>2, <3>3 DEF Received
  <2>7. \A i \in DOMAIN answered' :
          answered'[i].hdrBytes \o answered'[i].payload = WireBytes(answers'[i])
    <3> SUFFICES ASSUME NEW i \in 1..c
                 PROVE  answered'[i].hdrBytes \o answered'[i].payload = WireBytes(answers[i])
      BY <1>3, <2>3
    <3>1. CASE i = c
      <4>1. answered'[i] = q /\ answers[i] = a
        BY <2>3, <3>1 DEF a
      <4> QED
        BY <2>1, <4>1
    <3>2. CASE i # c
      <4>1. i \in 1..Len(answered)
        BY <1>6, <3>2
      <4>2. answered'[i] = answered[i]
        BY <2>3, <4>1
      <4> QED
        BY <1>6, <4>1, <4>2 DEF CutRight
    <3> QED
      BY <3>1, <3>2
  <2>8. aHeader'
    BY <1>3, <1>8, <2>1
  <2>9. timeoutKnown' # -1 =>
          answers' # <<>> /\ ~Has(answers'[1], "close") /\ timeoutKnown' = TimeoutOf(answers'[1])
    <3>1. CASE first
      <4>1. answered = <<>> /\ ~request.hdrCompleted
        BY <3>1 DEF CutRight
      <4>2. c = 1 /\ answers # <<>>
        BY <1>6, <4>1
      <4>3. HeaderRight(q.hdr, a) /\ IsFirst(q.hdr)
        BY <1>3, <1>4, <3>1, <4>1
      <4>4. ~Has(a, "close") /\ q.hdr.keepAliveTimeout = TimeoutOf(a)
        BY <4>3 DEF HeaderRight
      <4>5. timeoutKnown' = TimeoutOf(a) /\ a = answers[1] /\ answers' = answers
        BY <1>3, <3>1, <4>2, <4>4 DEF a
      <4> QED
        BY <4>2, <4>4, <4>5
    <3>2. CASE ~first
      BY <1>3, <3>2 DEF CutRight
    <3> QED
      BY <3>1, <3>2
  <2>10. \E g : StreamOf(g, answers') /\ Pending' = g[Len(answered') + 1]
    BY <1>1, <1>3, <2>4
  <2> QED
    BY <2>5, <2>6, <2>7, <2>8, <2>9, <2>10 DEF CutRight
<1>10. CASE ~done
  <2>1. /\ Received(q, a) /\ request' = q /\ answered' = answered
        /\ q.hdrBytes \o (q.payload \o w) = WireBytes(a) \o v
    BY <1>3, <1>4, <1>10 DEF GoneOn, done
  <2>2. Pending' = f[Len(answered') + 1]
    <3>1. Pending' = q.hdrBytes \o (q.payload \o w)
      BY <1>5, <2>1, Zenon DEF Pending
    <3> QED
      BY <1>7, <2>1, <3>1
  <2>3. Len(answered') < Len(answers') /\ Len(answered') # Len(answers')
    <3>1. answered' = answered /\ answers' = answers
      BY <1>3, <2>1
    <3>2. c <= Len(answers) /\ Len(answered) \in Nat /\ Len(answers) \in Nat
      BY <1>6
    <3>3. Len(answered) < Len(answers)
      BY <3>2
    <3> QED
      BY <3>1, <3>3, <3>2
  <2>4. Received(request', answers'[Len(answered') + 1])
    BY <1>3, <2>1 DEF a
  <2>5. \A i \in DOMAIN answered' :
          answered'[i].hdrBytes \o answered'[i].payload = WireBytes(answers'[i])
    BY <1>3, <2>1 DEF CutRight
  <2>6. (answered' # <<>> \/ request'.hdrCompleted) => aHeader'
    BY <1>3, <1>8, <2>1 DEF CutRight
  <2>7. timeoutKnown' # -1 =>
          answers' # <<>> /\ ~Has(answers'[1], "close") /\ timeoutKnown' = TimeoutOf(answers'[1])
    <3>1. CASE first
      <4>1. answered = <<>> /\ ~request.hdrCompleted
        BY <3>1 DEF CutRight
      <4>2. c = 1 /\ answers # <<>>
        BY <1>6, <4>1
      <4>3. HeaderRight(q.hdr, a) /\ IsFirst(q.hdr)
        BY <1>3, <1>4, <3>1, <4>1
      <4>4. ~Has(a, "close") /\ q.hdr.keepAliveTimeout = TimeoutOf(a)
        BY <4>3 DEF HeaderRight
      <4>5. timeoutKnown' = TimeoutOf(a) /\ a = answers[1] /\ answers' = answers
        BY <1>3, <3>1, <4>2, <4>4 DEF a
      <4> QED
        BY <4>2, <4>4, <4>5
    <3>2. CASE ~first
      BY <1>3, <3>2 DEF CutRight
    <3> QED
      BY <3>1, <3>2
  <2>8. \E g : StreamOf(g, answers') /\ Pending' = g[Len(answered') + 1]
    BY <1>1, <1>3, <2>2
  <2> QED
    BY <2>3, <2>4, <2>5, <2>6, <2>7, <2>8 DEF CutRight
<1> QED
  BY <1>9, <1>10

-----------------------------------------------------------------------------
(* The process and the theorems *)

\* What the process does with the bytes of the connection never ends it without cause.
LEMMA ServerEndsIt ==
  ASSUME Types, NoBlank => CutRight, EndsByAnswersOrShortRead, ProcessData
  PROVE  EndsByAnswersOrShortRead'
<1> DEFINE c == Len(answered) + 1
           a == answers[c]
           got == ParseData(request, buffer, a.method)
<1>1. answers' = answers
  BY ProcessCases DEF HttpFail, GoesOn
<1> DEFINE cause == \/ \E i \in DOMAIN answers : Unsupported(answers[i])
                    \/ Has(answers[1], "close")
                    \/ \E i, j \in DOMAIN answers :
                         /\ ~Has(answers[i], "close") /\ ~Has(answers[j], "close")
                         /\ TimeoutOf(answers[i]) # TimeoutOf(answers[j])
<1>2. ASSUME cause
      PROVE  EndsByAnswersOrShortRead'
  <2> DEFINE as == answers'
             whose == \/ \E i \in DOMAIN as : Unsupported(as[i])
                      \/ Has(as[1], "close")
                      \/ \E i, j \in DOMAIN as :
                           /\ ~Has(as[i], "close") /\ ~Has(as[j], "close")
                           /\ TimeoutOf(as[i]) # TimeoutOf(as[j])
  <2>1. whose
    BY <1>1, <1>2
  <2> QED
    BY <2>1 DEF EndsByAnswersOrShortRead
<1>3. ASSUME ~NoBlank
      PROVE  cause
  BY <1>3 DEF NoBlank, Unsupported
<1>4. ASSUME NoBlank, c <= Len(answers), buffer # <<>>
      PROVE  /\ got.fault # "none" => cause
             /\ got.fault = "none" /\ got.r.hdrCompleted /\ ~aHeader /\ ~IsFirst(got.r.hdr) => cause
  <2>1. CutRight
    BY <1>4
  <2>2. PICK f : StreamOf(f, answers) /\ Pending = f[c]
    BY <2>1 DEF CutRight
  <2>3. Parsed(got, a, request, buffer, socket, f[c + 1])
    BY <1>4, <2>1, <2>2, FrontIsParsed
  <2>4. c \in DOMAIN answers /\ Len(answered) \in Nat /\ answered \in Seq(Requests)
    BY <1>4, LenProperties DEF Types
  <2>5. timeoutKnown # -1 =>
          answers # <<>> /\ ~Has(answers[1], "close") /\ timeoutKnown = TimeoutOf(answers[1])
    BY <2>1 DEF CutRight
  <2>6. 1 \in DOMAIN answers
    BY <2>4, LenProperties DEF Types
  <2>7. got.r.hdrCompleted /\ ~aHeader => c = 1 /\ ~request.hdrCompleted
    BY <2>1 DEF CutRight
  <2> HIDE DEF got
  <2>8. ASSUME got.fault # "none"
        PROVE  cause
    <3>1. Faulty(a)
      BY <2>3, <2>8 DEF Parsed
    <3> QED
      BY <2>4, <2>5, <2>6, <3>1 DEF Faulty
  <2>9. ASSUME got.fault = "none", got.r.hdrCompleted, ~aHeader, ~IsFirst(got.r.hdr)
        PROVE  cause
    <3>1. HeaderRight(got.r.hdr, a)
      BY <2>3, <2>7, <2>9 DEF Parsed
    <3>2. Has(a, "close")
      BY <2>9, <3>1 DEF HeaderRight
    <3>3. a = answers[1]
      BY <2>7, <2>9
    <3> QED
      BY <3>2, <3>3
  <2> HIDE DEF cause
  <2> QED
    BY <2>8, <2>9
<1> HIDE DEF got, cause
<1>5. /\ HttpRunning /\ buffer # <<>>
      /\ \/ c > Len(answers)
         \/ c <= Len(answers) /\ got.fault # "none"
         \/ /\ c <= Len(answers) /\ got.fault = "none"
            /\ got.r.hdrCompleted /\ ~aHeader /\ ~IsFirst(got.r.hdr)
         \/ /\ c <= Len(answers) /\ ReadsBefore(request, buffer)
            /\ HttpFail("readBeforeHeader")
         \/ GoesOn(got, a.method)
  BY ProcessCases DEF got
<1>6. CASE ~NoBlank
  BY <1>2, <1>3, <1>6
<1>7. CASE NoBlank /\ c > Len(answers)
  <2>1. c <= Len(answers)
    BY <1>5, <1>7, FrontIsThere
  <2>2. c \in Nat /\ Len(answers) \in Nat
    BY LenProperties DEF Types
  <2> QED
    BY <1>7, <2>1, <2>2
<1>8. CASE NoBlank /\ c <= Len(answers) /\ got.fault # "none"
  BY <1>2, <1>4, <1>5, <1>8
<1>9. CASE NoBlank /\ c <= Len(answers) /\ got.fault = "none"
           /\ got.r.hdrCompleted /\ ~aHeader /\ ~IsFirst(got.r.hdr)
  BY <1>2, <1>4, <1>5, <1>9
<1>10. CASE GoesOn(got, a.method)
  <2>1. HttpRunning'
    BY <1>5, <1>10 DEF GoesOn, HttpRunning
  <2> QED
    BY <2>1 DEF EndsByAnswersOrShortRead
<1>11. CASE NoBlank /\ c <= Len(answers) /\ ReadsBefore(request, buffer)
            /\ HttpFail("readBeforeHeader")
  <2>1. request.hdrBytes = <<>> /\ buffer = <<answers[Len(answered) + 1].lines[1]>>
    BY <1>5, <1>11, ShortIsFirstLine
  <2>2. httpFault' = "readBeforeHeader" /\ UNCHANGED <<answers, buffer, answered, request>>
    BY <1>11 DEF HttpFail
  <2> QED
    BY <2>1, <2>2 DEF EndsByAnswersOrShortRead
<1> QED
  BY <1>5, <1>6, <1>7, <1>8, <1>9, <1>10, <1>11

\* The requests and the bytes go on belonging to each other.
LEMMA CutProcess ==
  ASSUME Types, NoBlank, CutRight, ProcessData
  PROVE  CutRight'
<1> DEFINE c == Len(answered) + 1
           method == answers[c].method
           got == ParseData(request, buffer, method)
<1> HIDE DEF got
<1>1. /\ buffer # <<>>
      /\ \/ \E where : HttpFail(where)
         \/ c <= Len(answers) /\ GoesOn(got, method)
  BY ProcessCases DEF got
<1>2. CASE \E where : HttpFail(where)
  BY <1>2, CutFail
<1>3. CASE c <= Len(answers) /\ GoesOn(got, method)
  BY <1>1, <1>3, CutGoesOn DEF got
<1> QED
  BY <1>1, <1>2, <1>3

\* The whole invariant.
HeaderInv == Types /\ (NoBlank => CutRight) /\ EndsByAnswersOrShortRead

\* It holds at first,
LEMMA HeaderInit ==
  HttpInit => HeaderInv
<1> SUFFICES ASSUME HttpInit
             PROVE  HeaderInv
  OBVIOUS
<1>1. EndsByAnswersOrShortRead
  BY DEF EndsByAnswersOrShortRead, HttpRunning, HttpInit
<1> QED
  BY <1>1, TypesInit, CutInit DEF HeaderInv

\* and every step keeps it.
LEMMA HeaderStep ==
  HeaderInv /\ [HttpNext]_httpVars => HeaderInv'
<1> SUFFICES ASSUME HeaderInv, [HttpNext]_httpVars
             PROVE  HeaderInv'
  OBVIOUS
<1>1. Types /\ (NoBlank => CutRight) /\ EndsByAnswersOrShortRead
  BY DEF HeaderInv
<1>2. ASSUME NEW a \in Answers, Send(a)
      PROVE  HeaderInv'
  <2>1. Types'
    BY <1>1, <1>2, TypesSend
  <2>2. NoBlank' => CutRight'
    BY <1>1, <1>2, CutSend
  <2>3. EndsByAnswersOrShortRead'
    BY <1>2 DEF Send, EndsByAnswersOrShortRead, HttpRunning
  <2> QED
    BY <2>1, <2>2, <2>3 DEF HeaderInv
<1>3. ASSUME NEW n \in 1..ReadSize, Recv(n)
      PROVE  HeaderInv'
  <2>1. Types'
    BY <1>1, <1>3, TypesRecv
  <2>2. NoBlank' => NoBlank
    BY <1>3 DEF Recv, NoBlank
  <2>3. NoBlank' => CutRight'
    BY <1>1, <1>3, <2>2, CutRecv
  <2>4. EndsByAnswersOrShortRead'
    BY <1>3 DEF Recv, EndsByAnswersOrShortRead, HttpRunning
  <2> QED
    BY <2>1, <2>3, <2>4 DEF HeaderInv
<1>4. CASE ProcessData
  <2>1. Types'
    BY <1>1, <1>4, TypesProcess
  <2>2. answers' = answers
    BY <1>1, <1>4, ProcessCases DEF HttpFail, GoesOn
  <2>3. NoBlank' => NoBlank
    BY <2>2 DEF NoBlank
  <2>4. NoBlank' => CutRight'
    BY <1>1, <1>4, <2>3, CutProcess
  <2>5. EndsByAnswersOrShortRead'
    BY <1>1, <1>4, ServerEndsIt
  <2> QED
    BY <2>1, <2>4, <2>5 DEF HeaderInv
<1>5. CASE UNCHANGED httpVars
  <2>1. /\ UNCHANGED <<answers, socket, buffer, answered>>
        /\ UNCHANGED <<request, aHeader, timeoutKnown, httpFault>>
    BY <1>5 DEF httpVars
  <2>2. Types'
    BY <1>1, <2>1 DEF Types
  <2>3. NoBlank' => NoBlank
    BY <2>1 DEF NoBlank
  <2>4. Pending' = Pending
    BY <2>1 DEF Pending
  <2>5. CutRight => CutRight'
    BY <2>1, <2>4 DEF CutRight
  <2>6. EndsByAnswersOrShortRead'
    BY <1>1, <2>1 DEF EndsByAnswersOrShortRead, HttpRunning
  <2> QED
    BY <1>1, <2>2, <2>3, <2>5, <2>6 DEF HeaderInv
<1> QED
  BY <1>2, <1>3, <1>4, <1>5 DEF HttpNext

\* What the invariant says of the requests and answers.
LEMMA CutMeansRight ==
  ASSUME Types, NoBlank => CutRight
  PROVE  AnswersAreCutRight
<1> SUFFICES ASSUME NoBlank
             PROVE  /\ \A i \in DOMAIN answered :
                         answered[i].hdrBytes \o answered[i].payload = WireBytes(answers[i])
                    /\ request # NewRequest =>
                         LET a == answers[Len(answered) + 1]
                         IN  /\ IsPrefix(request.hdrBytes \o request.payload, WireBytes(a))
                             /\ request.hdrCompleted <=>
                                  Len(request.hdrBytes) = Len(HeaderBytes(a))
  BY DEF AnswersAreCutRight, NoBlank
<1>1. CutRight
  OBVIOUS
<1>2. \A i \in DOMAIN answered :
        answered[i].hdrBytes \o answered[i].payload = WireBytes(answers[i])
  BY <1>1 DEF CutRight
<1>3. ASSUME request # NewRequest
      PROVE  LET a == answers[Len(answered) + 1]
             IN  /\ IsPrefix(request.hdrBytes \o request.payload, WireBytes(a))
                 /\ request.hdrCompleted <=>
                      Len(request.hdrBytes) = Len(HeaderBytes(a))
  <2> DEFINE c == Len(answered) + 1
             a == answers[c]
             H == HeaderBytes(a)
             B == Behind(a)
             g == request.hdrBytes
             b == request.payload
             w == buffer \o socket
  <2>1. /\ c \in 1..Len(answers) /\ Len(answered) < Len(answers)
    <3>1. Len(answered) \in Nat /\ Len(answers) \in Nat /\ Len(answered) <= Len(answers)
      BY LenProperties DEF Types
    <3>2. Len(answered) # Len(answers)
      BY <1>1, <1>3 DEF CutRight
    <3> QED
      BY <3>1, <3>2
  <2>2. PICK f : StreamOf(f, answers) /\ Pending = f[c]
    BY <1>1 DEF CutRight
  <2> DEFINE v == f[c + 1]
  <2>3. WellFormed(a)
    BY <2>1, AnswersAreWell
  <2>4. Received(request, a)
    BY <1>1, <2>1 DEF CutRight
  <2>5. /\ f[c] = WireBytes(a) \o v
    BY <2>1, <2>2 DEF StreamOf
  <2>6. v \in Seq(Bytes)
    <3>1. c + 1 \in 1..(Len(answers) + 1)
      BY <2>1
    <3> QED
      BY <2>2, <3>1, StreamLines
  <2>7. g \o (b \o w) = WireBytes(a) \o v
    BY <2>2, <2>5, Zenon DEF Pending
  <2>8. g \in Seq(Bytes) /\ b \in Seq(Bytes) /\ w \in Seq(Bytes)
    BY ConcatProperties DEF Types, Requests
  <2>9. request.hdrCompleted \in BOOLEAN
    BY DEF Types, Requests
  <2> HIDE DEF a, v, w
  <2>10. /\ H \in Seq(Bytes) /\ Len(H) \in Nat /\ B \in Seq(Bytes) /\ Len(B) \in Nat
         /\ WireBytes(a) = H \o B /\ WireBytes(a) \in Seq(Bytes)
         /\ Len(WireBytes(a)) = Len(H) + Len(B)
    <3>1. H \in Seq(Bytes) /\ B \in Seq(Bytes) /\ WireBytes(a) = H \o B
      BY <2>3, <2>6, HeaderShape, BehindFacts
    <3> HIDE DEF H, B
    <3> QED
      BY <3>1, ConcatProperties, LenProperties
  <2>11. Joins(g, b, w)
    BY <2>8, JoinsAnyWay
  <2>12. (g \o b) \o w = WireBytes(a) \o v
    BY <2>7, <2>11, Zenon DEF Joins
  <2>13. /\ g \o b \in Seq(Bytes) /\ Len(g \o b) = Len(g) + Len(b)
         /\ Len(g) \in Nat /\ Len(b) \in Nat
    BY <2>8, ConcatProperties, LenProperties
  <2>14. /\ Len(g) + Len(b) <= Len(H) + Len(B)
         /\ request.hdrCompleted <=> Len(g) = Len(H)
    <3>1. CASE request.hdrCompleted
      <4>1. a.method = "GET" /\ g = H /\ LengthRight(request, a)
        BY <2>4, <3>1 DEF Received
      <4>2. B = a.body
        BY <4>1 DEF Behind
      <4>3. Len(b) <= Len(B)
        <5>1. Len(<<>>) = 0
          OBVIOUS
        <5>2. b = <<>> \/ Len(b) <= Len(a.body)
          BY <4>1 DEF LengthRight
        <5> QED
          BY <2>10, <4>2, <5>1, <5>2
      <4>4. Len(g) = Len(H)
        BY <4>1
      <4> HIDE DEF H, B, g, b
      <4> QED
        BY <2>10, <2>13, <3>1, <4>3, <4>4
    <3>2. CASE ~request.hdrCompleted
      <4>1. b = <<>> /\ Len(g) < Len(H)
        BY <2>4, <3>2 DEF Received
      <4>2. Len(b) = 0
        BY <4>1
      <4> HIDE DEF H, B, g, b
      <4> QED
        BY <2>10, <2>13, <3>2, <4>1, <4>2
    <3> QED
      BY <2>9, <3>1, <3>2
  <2> HIDE DEF g, b, H, B
  <2>15. IsPrefix(g \o b, WireBytes(a))
    <3> DEFINE gb == g \o b
               W == WireBytes(a)
    <3>1. gb \o w = W \o v /\ Len(gb) <= Len(W) /\ gb \in Seq(Bytes) /\ W \in Seq(Bytes)
      BY <2>10, <2>12, <2>13, <2>14
    <3> HIDE DEF gb, W
    <3>2. IsPrefix(gb, W)
      BY <2>6, <2>8, <3>1, ShorterIsPrefix
    <3> QED
      BY <3>2 DEF gb, W
  <2> QED
    BY <2>14, <2>15 DEF a, g, b, H
<1> QED
  BY <1>2, <1>3

\* The types are those that the runs check.
LEMMA TypesMeanTyped ==
  Types => HttpTypeOK
<1> SUFFICES ASSUME Types
             PROVE  HttpTypeOK
  OBVIOUS
<1>1. request.hdrCompleted \in BOOLEAN
  BY DEF Types, Requests
<1>2. httpFault \in {"none", "badStatus", "unknownConnection", "badLimits",
                     "closeWithLimits", "redirect", "noLimits", "firstHeader",
                     "timeoutChanged", "headerTooLong", "noLength", "noRequest",
                     "readBeforeHeader"}
  BY DEF Types, Faults, HeaderFaults, LineFaults
<1> QED
  BY <1>1, <1>2 DEF Types, HttpTypeOK

\* Wherever the reads cut the stream, the header of every answer ends at its blank
\* line and its body has the announced bytes, for every sequence of well-formed
\* answers of which no body begins like the rest of a blank line: parseData() of
\* DashHttp, HttpRequestManager::appendHdrBytes() and appendPldBytes().
THEOREM AnswersAreCut == HttpSpec => [](HttpTypeOK /\ AnswersAreCutRight)
<1>1. HeaderInv => HttpTypeOK /\ AnswersAreCutRight
  BY TypesMeanTyped, CutMeansRight DEF HeaderInv
<1> QED
  BY <1>1, HeaderInit, HeaderStep, PTL DEF HttpSpec

\* The process ends because of what the server said - an answer that is not
\* supported, a first answer that closes the connection, or two that differ in the
\* keep-alive timeout (the assertions of parseHeader(), parseData() and
\* processNewData()) - or because a read has ended within the first line of an
\* answer, before its fourth character (the comparison of appendHdrBytes()).
THEOREM EndsExplained == HttpSpec => []EndsByAnswersOrShortRead
<1>1. HeaderInv => EndsByAnswersOrShortRead
  BY DEF HeaderInv
<1> QED
  BY <1>1, HeaderInit, HeaderStep, PTL DEF HttpSpec
=============================================================================
