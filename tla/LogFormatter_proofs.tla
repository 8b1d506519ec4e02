-------------------------- MODULE LogFormatter_proofs -------------------------
(***************************************************************************)
(* Proofs about LogFormatter, for every pattern.                           *)
(***************************************************************************)
EXTENDS LogFormatter, TLAPS, SequenceTheorems, FiniteSetTheorems, WellFoundedInduction

-----------------------------------------------------------------------------
(* Numbers and counts.                                                     *)

\* A set of natural numbers has a least one.
LEMMA LeastNumber ==
  ASSUME NEW I \in SUBSET Nat, I # {}
  PROVE  \E x \in I : \A y \in I : x <= y
<1> DEFINE R == {p \in Nat \X Nat : p[1] < p[2]}
<1>1. IsWellFoundedOn(R, Nat)
  BY NatLessThanWellFounded DEF OpToRel
<1> HIDE DEF R
<1>2. PICK x \in I : \A y \in I : ~(<<y, x>> \in R)
  BY <1>1, WFMin
<1>3. ASSUME NEW y \in I PROVE x <= y
  <2>1. <<y, x>> \in Nat \X Nat /\ <<y, x>>[1] = y /\ <<y, x>>[2] = x
    OBVIOUS
  <2> QED
    BY <1>2, <2>1 DEF R
<1> QED
  BY <1>3

LEMMA MinIsLeast ==
  ASSUME NEW I \in SUBSET Nat, I # {}
  PROVE  Min(I) \in I /\ \A y \in I : Min(I) <= y
<1>1. \E x \in I : \A y \in I : x <= y
  BY LeastNumber
<1> QED
  BY <1>1 DEF Min

LEMMA CountConcat ==
  ASSUME NEW S, NEW s \in Seq(S), NEW t \in Seq(S), NEW c
  PROVE  /\ Count(c, s) \in Nat /\ Count(c, t) \in Nat
         /\ Count(c, s \o t) = Count(c, s) + Count(c, t)
<1> DEFINE I == {k \in DOMAIN s : s[k] = c}
           J == {k \in DOMAIN t : t[k] = c}
           K == {k \in Len(s) + 1..Len(s) + Len(t) : (s \o t)[k] = c}
           B == {k \in DOMAIN (s \o t) : (s \o t)[k] = c}
<1>1. /\ DOMAIN s = 1..Len(s) /\ Len(s) \in Nat /\ DOMAIN t = 1..Len(t) /\ Len(t) \in Nat
      /\ DOMAIN (s \o t) = 1..Len(s) + Len(t)
      /\ \A k \in 1..Len(s) : (s \o t)[k] = s[k]
      /\ \A k \in Len(s) + 1..Len(s) + Len(t) : (s \o t)[k] = t[k - Len(s)]
  BY ConcatProperties, LenProperties
<1>2. IsFiniteSet(I) /\ IsFiniteSet(J) /\ IsFiniteSet(K)
  <2>1. /\ IsFiniteSet(1..Len(s)) /\ IsFiniteSet(1..Len(t))
        /\ IsFiniteSet(Len(s) + 1..Len(s) + Len(t))
    BY <1>1, FS_Interval
  <2>2. I \in SUBSET (1..Len(s)) /\ J \in SUBSET (1..Len(t)) /\ K \in SUBSET (Len(s) + 1..Len(s) + Len(t))
    BY <1>1
  <2> QED
    BY <2>1, <2>2, FS_Subset
<1>3. ExistsBijection(J, K)
  <2> DEFINE f == [k \in J |-> Len(s) + k]
  <2>1. f \in [J -> K]
    BY <1>1
  <2>2. \A j, k \in J : f[j] = f[k] => j = k
    BY <1>1
  <2>3. \A k \in K : k - Len(s) \in J /\ f[k - Len(s)] = k
    BY <1>1
  <2> HIDE DEF f, J, K
  <2>4. f \in Injection(J, K)
    BY <2>1, <2>2 DEF Injection, IsInjective
  <2>5. f \in Surjection(J, K)
    BY <2>1, <2>3 DEF Surjection
  <2> QED
    BY <2>4, <2>5 DEF ExistsBijection, Bijection
<1>4. B = I \cup K /\ I \cap K = {}
  BY <1>1
<1>5. Count(c, s) = Cardinality(I) /\ Count(c, t) = Cardinality(J) /\ Count(c, s \o t) = Cardinality(B)
  BY DEF Count
<1> HIDE DEF I, J, K, B
<1>6. Cardinality(I) \in Nat /\ Cardinality(J) \in Nat /\ Cardinality(K) = Cardinality(J)
  BY <1>2, <1>3, FS_CardinalityType, FS_Bijection
<1>7. Cardinality(I \cup K) = Cardinality(I) + Cardinality(K)
  <2>1. Cardinality(I \cup K) = Cardinality(I) + Cardinality(K) - Cardinality(I \cap K)
    BY <1>2, FS_Union
  <2>2. Cardinality(I \cap K) = 0
    BY <1>4, FS_EmptySet
  <2> QED
    BY <1>6, <2>1, <2>2
<1> QED
  BY <1>4, <1>5, <1>6, <1>7

-----------------------------------------------------------------------------
(* FlattenSeq.                                                             *)

\* f is what FlattenSeq computes on the first n sequences of ss.
Flattens(ss, n, f) == f = [k \in 1..n |-> IF k = 1 THEN ss[k] ELSE f[k - 1] \o ss[k]]

LEMMA FlattensExists ==
  ASSUME NEW ss, NEW n \in Nat
  PROVE  \E f : Flattens(ss, n, f)
<1> DEFINE Bad == {m \in Nat : ~\E f : Flattens(ss, m, f)}
<1> SUFFICES ASSUME Bad # {} PROVE FALSE
  OBVIOUS
<1>1. PICK m \in Bad : \A y \in Bad : m <= y
  <2> HIDE DEF Bad
  <2>1. Bad \in SUBSET Nat
    BY DEF Bad
  <2> QED
    BY <2>1, LeastNumber
<1>2. CASE m = 0
  <2>1. Flattens(ss, 0, [k \in {} |-> k])
    BY DEF Flattens
  <2> QED
    BY <1>2, <2>1
<1>3. CASE m # 0
  <2>1. m \in Nat /\ m - 1 \in Nat /\ m - 1 \notin Bad
    BY <1>1, <1>3
  <2>2. PICK f : Flattens(ss, m - 1, f)
    BY <2>1
  <2> DEFINE last == IF m = 1 THEN ss[m] ELSE f[m - 1] \o ss[m]
             g == [k \in 1..m |-> IF k = m THEN last ELSE f[k]]
             h == [k \in 1..m |-> IF k = 1 THEN ss[k] ELSE g[k - 1] \o ss[k]]
  <2>3. \A k \in 1..m - 1 : f[k] = IF k = 1 THEN ss[k] ELSE f[k - 1] \o ss[k]
    BY <2>1, <2>2 DEF Flattens
  <2>4. ASSUME NEW k \in 1..m PROVE g[k] = h[k]
    <3>1. CASE k = m
      BY <2>1, <3>1
    <3>2. CASE k # m
      <4>1. k \in 1..m - 1 /\ (k # 1 => k - 1 \in 1..m /\ k - 1 # m)
        BY <2>1, <3>2
      <4> QED
        BY <2>3, <3>2, <4>1
    <3> QED
      BY <3>1, <3>2
  <2>5. g = h
    BY <2>4
  <2>6. Flattens(ss, m, g)
    BY <2>5 DEF Flattens
  <2> QED
    BY <2>1, <2>6
<1> QED
  BY <1>2, <1>3

\* What it computes on the first sequences is not changed by those behind them.
LEMMA FlattensAgree ==
  ASSUME NEW S, NEW ss, NEW tt, NEW m \in Nat, NEW n \in Nat, m <= n, NEW f, NEW g,
         Flattens(ss, m, f), Flattens(tt, n, g),
         \A k \in 1..m : ss[k] = tt[k] /\ ss[k] \in Seq(S)
  PROVE  \A k \in 1..m : f[k] = g[k] /\ f[k] \in Seq(S)
<1> DEFINE Bad == {k \in 1..m : ~(f[k] = g[k] /\ f[k] \in Seq(S))}
<1> SUFFICES ASSUME Bad # {} PROVE FALSE
  OBVIOUS
<1>1. PICK k \in Bad : \A y \in Bad : k <= y
  <2> HIDE DEF Bad
  <2>1. Bad \in SUBSET Nat
    BY DEF Bad
  <2> QED
    BY <2>1, LeastNumber
<1>2. k \in 1..m /\ k \in 1..n
  BY <1>1
<1>3. /\ f[k] = IF k = 1 THEN ss[k] ELSE f[k - 1] \o ss[k]
      /\ g[k] = IF k = 1 THEN tt[k] ELSE g[k - 1] \o tt[k]
  BY <1>2 DEF Flattens
<1>4. k # 1 => f[k - 1] = g[k - 1] /\ f[k - 1] \in Seq(S)
  <2>1. k # 1 => k - 1 \in 1..m /\ k - 1 \notin Bad
    BY <1>1, <1>2
  <2> QED
    BY <2>1
<1>5. f[k] = g[k] /\ f[k] \in Seq(S)
  <2>1. ss[k] = tt[k] /\ ss[k] \in Seq(S)
    BY <1>2
  <2> QED
    BY <1>3, <1>4, <2>1, ConcatProperties
<1> QED
  BY <1>1, <1>5

LEMMA FlattenIs ==
  ASSUME NEW ss, NEW n \in Nat \ {0}, Len(ss) = n
  PROVE  \E f : Flattens(ss, n, f) /\ FlattenSeq(ss) = f[n]
<1> DEFINE f == CHOOSE f : Flattens(ss, n, f)
<1>1. Flattens(ss, n, f)
  BY FlattensExists
<1>2. FlattenSeq(ss) = f[n]
  BY DEF FlattenSeq, Flattens
<1> QED
  BY <1>1, <1>2

LEMMA FlattenAppend ==
  ASSUME NEW S, NEW ss \in Seq(Seq(S)), NEW x \in Seq(S)
  PROVE  /\ FlattenSeq(ss) \in Seq(S)
         /\ FlattenSeq(Append(ss, x)) = FlattenSeq(ss) \o x
<1> DEFINE n == Len(ss)
           tt == Append(ss, x)
<1>1. /\ n \in Nat /\ Len(tt) = n + 1 /\ tt[n + 1] = x
      /\ \A k \in 1..n : tt[k] = ss[k] /\ ss[k] \in Seq(S)
  OBVIOUS
<1> HIDE DEF tt, n
<1>2. PICK g : Flattens(tt, n + 1, g) /\ FlattenSeq(tt) = g[n + 1]
  BY <1>1, FlattenIs
<1>3. g[n + 1] = IF n + 1 = 1 THEN tt[n + 1] ELSE g[(n + 1) - 1] \o tt[n + 1]
  <2>1. n + 1 \in 1..n + 1
    BY <1>1
  <2>2. \A k \in 1..n + 1 : g[k] = IF k = 1 THEN tt[k] ELSE g[k - 1] \o tt[k]
    BY <1>2 DEF Flattens
  <2> QED
    BY <2>1, <2>2
<1>4. CASE n = 0
  <2>1. ss = <<>> /\ FlattenSeq(ss) = <<>>
    BY <1>4 DEF FlattenSeq, n
  <2>2. <<>> \in Seq(S) /\ <<>> \o x = x
    BY ConcatEmptySeq
  <2>3. FlattenSeq(tt) = x
    BY <1>1, <1>2, <1>3, <1>4
  <2> QED
    BY <2>1, <2>2, <2>3 DEF tt
<1>5. CASE n # 0
  <2>1. PICK f : Flattens(ss, n, f) /\ FlattenSeq(ss) = f[n]
    <3>1. Len(ss) = n /\ n \in Nat \ {0}
      BY <1>1, <1>5 DEF n
    <3> QED
      BY <3>1, FlattenIs
  <2>2. \A k \in 1..n : f[k] = g[k] /\ f[k] \in Seq(S)
    <3>1. n <= n + 1 /\ n + 1 \in Nat /\ \A k \in 1..n : ss[k] = tt[k] /\ ss[k] \in Seq(S)
      BY <1>1
    <3> QED
      BY <1>1, <1>2, <2>1, <3>1, FlattensAgree
  <2>3. f[n] = g[n] /\ f[n] \in Seq(S) /\ (n + 1) - 1 = n /\ n + 1 # 1
    BY <1>1, <1>5, <2>2
  <2> QED
    BY <1>1, <1>2, <1>3, <2>1, <2>3 DEF tt
<1> QED
  BY <1>1, <1>4, <1>5

-----------------------------------------------------------------------------
(* What was found, written as a pattern.                                   *)

Char == UNION {ToSet(p) : p \in Patterns}

\* The characters, and those of placeholders.
Mark == Char \cup {"%", Open, Close}

LEMMA PatternSeq ==
  ASSUME NEW p \in Patterns
  PROVE  p \in Seq(Char)
<1>1. p \in Seq(ToSet(p)) /\ ToSet(p) \subseteq Char
  BY PatternAssumption DEF Char
<1> QED
  BY <1>1, SeqMonotonic

LEMMA NoCharIsError == ErrorText \notin Char
BY PatternAssumption DEF Char

\* The elements of vec.  The text of the error is the one that no pattern has.
Element == [kind : {"text", "format"}, text : Seq(Char), arg : Seq(Char)] \cup {Error}

Found(v) == FlattenSeq([k \in DOMAIN v |-> Written(v[k])])

LEMMA WrittenSeq ==
  ASSUME NEW e \in Element
  PROVE  Written(e) \in Seq(Mark)
<1>1. /\ <<"%">> \in Seq(Mark) /\ <<Open>> \in Seq(Mark) /\ <<Close>> \in Seq(Mark)
      /\ <<>> \in Seq(Mark)
  <2>1. \A x \in Mark : <<x>> \in Seq(Mark)
    OBVIOUS
  <2>2. "%" \in Mark /\ Open \in Mark /\ Close \in Mark
    BY DEF Mark
  <2> QED
    BY <2>1, <2>2, EmptySeq
<1>2. CASE e = Error
  BY <1>1, <1>2 DEF Written
<1>3. CASE e # Error
  <2>1. e.text \in Seq(Mark) /\ e.arg \in Seq(Mark)
    BY <1>3, SeqMonotonic DEF Element, Mark
  <2> QED
    BY <1>1, <1>3, <2>1, ConcatProperties DEF Written
<1> QED
  BY <1>2, <1>3

LEMMA FoundAppend ==
  ASSUME NEW v \in Seq(Element), NEW e \in Element
  PROVE  /\ Found(v) \in Seq(Mark)
         /\ Found(Append(v, e)) = Found(v) \o Written(e)
         /\ Error \in ToSet(Append(v, e)) <=> Error \in ToSet(v) \/ e = Error
<1> DEFINE W(u) == [k \in DOMAIN u |-> Written(u[k])]
<1>1. /\ Len(v) \in Nat /\ DOMAIN v = 1..Len(v) /\ DOMAIN Append(v, e) = 1..Len(v) + 1
      /\ \A k \in 1..Len(v) : Append(v, e)[k] = v[k] /\ v[k] \in Element
      /\ Append(v, e)[Len(v) + 1] = e
  OBVIOUS
<1>2. W(v) \in Seq(Seq(Mark))
  <2>1. \A k \in 1..Len(v) : Written(v[k]) \in Seq(Mark)
    BY <1>1, WrittenSeq
  <2> QED
    BY <1>1, <2>1
<1>3. W(Append(v, e)) = Append(W(v), Written(e))
  <2>1. Len(W(v)) = Len(v)
    BY <1>1
  <2> QED
    BY <1>1, <1>2, <2>1
<1>4. Found(v) = FlattenSeq(W(v)) /\ Found(Append(v, e)) = FlattenSeq(W(Append(v, e)))
  BY DEF Found
<1>5. Written(e) \in Seq(Mark)
  BY WrittenSeq
<1>6. Error \in ToSet(Append(v, e)) <=> Error \in ToSet(v) \/ e = Error
  BY <1>1 DEF ToSet
<1> HIDE DEF W
<1> QED
  BY <1>2, <1>3, <1>4, <1>5, <1>6, FlattenAppend

\* The text that waits joins what was found.
LEMMA FoundFlushed ==
  ASSUME vec \in Seq(Element), nstr \in Seq(Char)
  PROVE  /\ Flushed \in Seq(Element)
         /\ Found(Flushed) = Found(vec) \o nstr
         /\ Error \in ToSet(Flushed) <=> Error \in ToSet(vec)
<1>1. CASE nstr = <<>>
  <2>1. Flushed = vec
    BY <1>1 DEF Flushed, Flush
  <2>2. Found(vec) \in Seq(Mark)
    <3>1. Error \in Element
      BY DEF Element
    <3> QED
      BY <3>1, FoundAppend
  <2> QED
    BY <1>1, <2>1, <2>2, ConcatEmptySeq
<1>2. CASE nstr # <<>>
  <2>1. Text(nstr) \in Element
    BY DEF Text, Element
  <2>2. Text(nstr) # Error
    <3>1. \A k \in 1..Len(nstr) : nstr[k] # ErrorText
      BY ElementOfSeq, NoCharIsError
    <3>2. nstr # <<ErrorText>>
      <4>1. Len(<<ErrorText>>) = 1 /\ <<ErrorText>>[1] = ErrorText
        OBVIOUS
      <4> QED
        BY <3>1, <4>1
    <3> QED
      BY <3>2 DEF Text, Error
  <2>3. Written(Text(nstr)) = nstr
    BY <2>2 DEF Written, Text
  <2>4. Flushed = Append(vec, Text(nstr))
    BY <1>2, <2>1 DEF Flushed, Flush
  <2>5. Flushed \in Seq(Element)
    BY <2>1, <2>4
  <2> QED
    BY <2>1, <2>2, <2>3, <2>4, <2>5, FoundAppend
<1> QED
  BY <1>1, <1>2

-----------------------------------------------------------------------------
(* Parts of a pattern.                                                     *)

LEMMA SubSeqJoin ==
  ASSUME NEW S, NEW p \in Seq(S), NEW a \in 1..Len(p) + 1,
         NEW b \in a - 1..Len(p), NEW c \in b..Len(p)
  PROVE  /\ SubSeq(p, a, b) \in Seq(S) /\ SubSeq(p, b + 1, c) \in Seq(S) /\ SubSeq(p, a, c) \in Seq(S)
         /\ SubSeq(p, a, b) \o SubSeq(p, b + 1, c) = SubSeq(p, a, c)
<1>1. Len(p) \in Nat /\ a \in Nat /\ b \in Nat /\ c \in Nat /\ a <= b + 1 /\ b <= c /\ c <= Len(p)
  OBVIOUS
<1>2. /\ SubSeq(p, a, b) \in Seq(S) /\ Len(SubSeq(p, a, b)) = b - a + 1
      /\ \A k \in 1..b - a + 1 : SubSeq(p, a, b)[k] = p[a + k - 1]
  BY <1>1, SubSeqProperties
<1>3. /\ SubSeq(p, b + 1, c) \in Seq(S) /\ Len(SubSeq(p, b + 1, c)) = c - b
      /\ \A k \in 1..c - b : SubSeq(p, b + 1, c)[k] = p[b + k]
  BY <1>1, SubSeqProperties
<1>4. /\ SubSeq(p, a, c) \in Seq(S) /\ Len(SubSeq(p, a, c)) = c - a + 1
      /\ \A k \in 1..c - a + 1 : SubSeq(p, a, c)[k] = p[a + k - 1]
  BY <1>1, SubSeqProperties
<1> DEFINE x == SubSeq(p, a, b)
           y == SubSeq(p, b + 1, c)
           z == SubSeq(p, a, c)
<1> HIDE DEF x, y, z
<1>5. /\ x \o y \in Seq(S) /\ Len(x \o y) = Len(x) + Len(y)
      /\ \A k \in 1..Len(x) + Len(y) : (x \o y)[k] = IF k <= Len(x) THEN x[k] ELSE y[k - Len(x)]
  BY <1>2, <1>3, ConcatProperties DEF x, y
<1>6. Len(x \o y) = Len(z)
  BY <1>1, <1>2, <1>3, <1>4, <1>5 DEF x, y, z
<1>7. ASSUME NEW k \in 1..Len(z) PROVE (x \o y)[k] = z[k]
  <2>1. z[k] = p[a + k - 1] /\ k \in 1..c - a + 1
    BY <1>4, <1>7 DEF z
  <2>2. CASE k <= Len(x)
    <3>1. x[k] = p[a + k - 1]
      BY <1>1, <1>2, <2>1, <2>2 DEF x
    <3> QED
      BY <1>5, <1>6, <2>1, <2>2, <3>1
  <2>3. CASE ~(k <= Len(x))
    <3>1. k - Len(x) \in 1..c - b /\ b + (k - Len(x)) = a + k - 1
      BY <1>1, <1>2, <2>1, <2>3 DEF x
    <3>2. y[k - Len(x)] = p[a + k - 1]
      BY <1>3, <3>1 DEF y
    <3> QED
      BY <1>5, <1>6, <2>1, <2>3, <3>2
  <2> QED
    BY <2>2, <2>3
<1>8. x \o y = z
  BY <1>4, <1>5, <1>6, <1>7, SeqEqual DEF z
<1> QED
  BY <1>2, <1>3, <1>4, <1>8 DEF x, y, z

LEMMA SubSeqOne ==
  ASSUME NEW S, NEW p \in Seq(S), NEW k \in 1..Len(p)
  PROVE  SubSeq(p, k, k) = <<p[k]>>
<1>1. k \in Nat /\ p[k] \in S
  BY ElementOfSeq, LenProperties
<1>2. /\ SubSeq(p, k, k) \in Seq(S) /\ Len(SubSeq(p, k, k)) = 1
      /\ \A j \in 1..1 : SubSeq(p, k, k)[j] = p[k + j - 1]
  BY <1>1, SubSeqProperties
<1>3. SubSeq(p, k, k)[1] = p[k]
  BY <1>1, <1>2
<1>4. <<p[k]>> \in Seq(S) /\ Len(<<p[k]>>) = 1 /\ <<p[k]>>[1] = p[k]
  BY <1>1
<1> DEFINE x == SubSeq(p, k, k)
           y == <<p[k]>>
<1>5. x \in Seq(S) /\ y \in Seq(S) /\ Len(x) = Len(y) /\ \A j \in 1..Len(x) : x[j] = y[j]
  BY <1>2, <1>3, <1>4
<1>6. x = y
  <2> HIDE DEF x, y
  <2> QED
    BY <1>5, SeqEqual
<1> QED
  BY <1>6

\* Where the scan of a placeholder stops, and what it has found.
LEMMA NameEndIs ==
  ASSUME NEW S, NEW p \in Seq(S), NEW n \in 1..Len(p)
  PROVE  /\ NameEnd(p, n) \in n + 1..Len(p) + 1
         /\ Braced(p, n) => NameEnd(p, n) \in 1..Len(p) /\ p[NameEnd(p, n)] = Open
<1> DEFINE I == {k \in n + 1..Len(p) : p[k] \notin Letter \cup {Close}} \cup {Len(p) + 1}
<1>0. Len(p) \in Nat /\ n \in Nat /\ n >= 1 /\ n <= Len(p)
  BY LenProperties
<1>1. NameEnd(p, n) = Min(I)
  BY DEF NameEnd, FirstAfter
<1>2. I \subseteq n + 1..Len(p) + 1 /\ I # {} /\ I \in SUBSET Nat
  BY <1>0
<1> HIDE DEF I
<1>3. Min(I) \in I
  BY <1>2, MinIsLeast
<1>4. NameEnd(p, n) \in n + 1..Len(p) + 1
  BY <1>1, <1>2, <1>3
<1> QED
  BY <1>0, <1>4 DEF Braced

LEMMA ArgEndIs ==
  ASSUME NEW S, NEW p \in Seq(S), NEW n \in 1..Len(p), Braced(p, n), ~Unclosed(p, n)
  PROVE  ArgEnd(p, n) \in NameEnd(p, n) + 1..Len(p) /\ p[ArgEnd(p, n)] = Close
<1> DEFINE I == {k \in NameEnd(p, n) + 1..Len(p) : p[k] = Close} \cup {Len(p) + 1}
<1>0. Len(p) \in Nat
  BY LenProperties
<1>1. ArgEnd(p, n) = Min(I)
  BY DEF ArgEnd, FirstAfter
<1>2. NameEnd(p, n) \in 1..Len(p)
  BY NameEndIs
<1>3. I \in SUBSET Nat /\ I # {}
  BY <1>0, <1>2
<1>4. \A k \in I : k <= Len(p) => k \in NameEnd(p, n) + 1..Len(p) /\ p[k] = Close
  BY <1>0, <1>2
<1> HIDE DEF I
<1>5. Min(I) \in I
  BY <1>3, MinIsLeast
<1>6. ArgEnd(p, n) <= Len(p)
  <2>1. ~(ArgEnd(p, n) > Len(p)) /\ ArgEnd(p, n) \in Nat /\ Len(p) \in Nat
    BY <1>0, <1>1, <1>3, <1>5 DEF Unclosed
  <2> QED
    BY <2>1
<1> QED
  BY <1>1, <1>4, <1>5, <1>6

\* An argument in braces, of no characters.
EmptyArgument(p) == \E k \in 1..Len(p) - 1 : p[k] = Open /\ p[k + 1] = Close

\* A placeholder that was found, written as a pattern, is the part that was scanned.
LEMMA ScannedIs ==
  ASSUME NEW p \in Seq(Char), NEW n \in 1..Len(p), p[n] = "%", ~Unclosed(p, n)
  PROVE  /\ After(p, n) \in n + 1..Len(p) + 1
         /\ Scanned(p, n) \in Element /\ Scanned(p, n) # Error
         /\ ~EmptyArgument(p) => Written(Scanned(p, n)) = SubSeq(p, n, After(p, n) - 1)
<1> DEFINE m == NameEnd(p, n)
           e == ArgEnd(p, n)
           nm == SubSeq(p, n + 1, m - 1)
<1>0. Len(p) \in Nat /\ n \in Nat /\ n >= 1 /\ n <= Len(p)
  BY LenProperties
<1>1. Len(p) \in Nat /\ n \in Nat /\ m \in n + 1..Len(p) + 1
  BY <1>0, NameEndIs
<1>2. nm \in Seq(Char) /\ SubSeq(p, n, n) \in Seq(Char) /\ SubSeq(p, n, n) \o nm = SubSeq(p, n, m - 1)
  <2>1. n \in 1..Len(p) + 1 /\ n \in n - 1..Len(p) /\ m - 1 \in n..Len(p)
    BY <1>0, <1>1
  <2> HIDE DEF m
  <2> QED
    BY <2>1, SubSeqJoin
<1>3. SubSeq(p, n, n) = <<"%">>
  BY SubSeqOne
<1>4. Scanned(p, n).kind = "format" /\ Scanned(p, n).text = nm
  BY DEF Scanned, Placeholder
<1>5. Scanned(p, n) # Error
  BY <1>4 DEF Error, Text
<1>6. CASE ~Braced(p, n)
  <2>1. After(p, n) = m /\ Scanned(p, n) = Placeholder(nm, <<>>)
    BY <1>6 DEF After, Scanned
  <2>2. Scanned(p, n) \in Element
    <3>1. <<>> \in Seq(Char)
      BY EmptySeq
    <3> QED
      BY <1>2, <2>1, <3>1 DEF Element, Placeholder
  <2>3. Written(Scanned(p, n)) = (<<"%">> \o nm) \o <<>>
    <3>1. Scanned(p, n).arg = <<>>
      BY <2>1 DEF Placeholder
    <3> HIDE DEF nm
    <3> QED
      BY <1>4, <1>5, <3>1 DEF Written
  <2>4. Written(Scanned(p, n)) = SubSeq(p, n, m - 1)
    BY <1>2, <1>3, <2>3, ConcatProperties, ConcatEmptySeq
  <2> QED
    BY <1>1, <1>5, <2>1, <2>2, <2>4
<1>7. CASE Braced(p, n)
  <2> DEFINE ar == SubSeq(p, m + 1, e - 1)
  <2>1. m \in n + 1..Len(p) /\ p[m] = Open /\ e \in m + 1..Len(p) /\ p[e] = Close
    BY <1>1, <1>7, NameEndIs, ArgEndIs
  <2>2. After(p, n) = e + 1 /\ Scanned(p, n) = Placeholder(nm, ar)
    BY <1>7 DEF After, Scanned
  <2> HIDE DEF m, e
  <2>3. /\ ar \in Seq(Char) /\ SubSeq(p, m, m) \in Seq(Char) /\ SubSeq(p, e, e) \in Seq(Char)
        /\ SubSeq(p, m, m) \o ar = SubSeq(p, m, e - 1)
    BY <1>1, <2>1, SubSeqJoin
  <2>4. SubSeq(p, m, m) = <<Open>> /\ SubSeq(p, e, e) = <<Close>>
    <3>1. m \in 1..Len(p) /\ e \in 1..Len(p)
      BY <1>1, <2>1
    <3> QED
      BY <2>1, <3>1, SubSeqOne
  <2>5. SubSeq(p, m, e - 1) \in Seq(Char) /\ SubSeq(p, m, e - 1) \o SubSeq(p, e, e) = SubSeq(p, m, e)
    <3>1. (e - 1) + 1 = e /\ m \in 1..Len(p) + 1 /\ e - 1 \in m - 1..Len(p) /\ e \in e - 1..Len(p)
      BY <1>1, <2>1
    <3> QED
      BY <3>1, SubSeqJoin
  <2>6. SubSeq(p, n, m - 1) \in Seq(Char) /\ SubSeq(p, n, m - 1) \o SubSeq(p, m, e) = SubSeq(p, n, e)
    <3>1. (m - 1) + 1 = m /\ n \in 1..Len(p) + 1 /\ m - 1 \in n - 1..Len(p) /\ e \in m - 1..Len(p)
      BY <1>1, <2>1
    <3> QED
      BY <3>1, SubSeqJoin
  <2>7. Scanned(p, n) \in Element
    <3> HIDE DEF nm, ar
    <3> QED
      BY <1>2, <2>2, <2>3 DEF Element, Placeholder
  <2>8. ASSUME ~EmptyArgument(p) PROVE ar # <<>>
    <3>1. e - 1 # m
      BY <1>1, <2>1, <2>8 DEF EmptyArgument
    <3>2. Len(ar) = e - 1 - (m + 1) + 1
      BY <1>1, <2>1, <3>1, SubSeqProperties
    <3> QED
      BY <1>1, <2>1, <3>1, <3>2
  <2>9. ASSUME ~EmptyArgument(p) PROVE Written(Scanned(p, n)) = SubSeq(p, n, e)
    <3> HIDE DEF ar, nm
    <3>1. Written(Scanned(p, n)) = (<<"%">> \o nm) \o ((<<Open>> \o ar) \o <<Close>>)
      BY <1>5, <2>2, <2>8, <2>9 DEF Written, Placeholder
    <3> QED
      BY <1>2, <1>3, <2>3, <2>4, <2>5, <2>6, <3>1
  <2>10. (e + 1) - 1 = e /\ e + 1 \in n + 1..Len(p) + 1
    BY <1>1, <2>1
  <2> QED
    BY <1>5, <2>2, <2>7, <2>9, <2>10
<1> QED
  BY <1>6, <1>7

-----------------------------------------------------------------------------
(* The loop.                                                               *)

\* What was found and what is read have the same characters, and are the same if there
\* was no error.
Agrees ==
  LET found == Found(vec) \o nstr
      read  == SubSeq(pattern, 1, i - 1)
  IN  /\ Error \notin ToSet(vec) => found = read
      /\ \A c : Count(c, found) = Count(c, read)

ScanInv ==
  /\ pattern \in Patterns
  /\ i \in 1..Len(pattern) + 1
  /\ nstr \in Seq(Char)
  /\ vec \in Seq(Element)
  /\ ~EmptyArgument(pattern) => Agrees

\* What is read gets longer by the part of the pattern up to n.
LEMMA ReadOn ==
  ASSUME ScanInv, NEW n \in i..Len(pattern)
  PROVE  /\ pattern \in Seq(Char) /\ pattern \in Seq(Mark)
         /\ SubSeq(pattern, 1, i - 1) \in Seq(Mark) /\ SubSeq(pattern, i, n) \in Seq(Mark)
         /\ SubSeq(pattern, 1, n) = SubSeq(pattern, 1, i - 1) \o SubSeq(pattern, i, n)
<1>1. pattern \in Seq(Char) /\ Len(pattern) \in Nat
  BY PatternSeq, LenProperties DEF ScanInv
<1>2. pattern \in Seq(Mark)
  BY <1>1, SeqMonotonic DEF Mark
<1>3. ASSUME NEW b \in 0..Len(pattern), NEW c \in b..Len(pattern)
      PROVE  /\ SubSeq(pattern, 1, b) \in Seq(Mark) /\ SubSeq(pattern, b + 1, c) \in Seq(Mark)
             /\ SubSeq(pattern, 1, b) \o SubSeq(pattern, b + 1, c) = SubSeq(pattern, 1, c)
  <2>1. 1 \in 1..Len(pattern) + 1 /\ b \in 1 - 1..Len(pattern)
    BY <1>1
  <2> QED
    BY <1>2, <2>1, SubSeqJoin
<1>4. i - 1 \in 0..Len(pattern) /\ n \in i - 1..Len(pattern) /\ (i - 1) + 1 = i
  BY <1>1 DEF ScanInv
<1> QED
  BY <1>1, <1>2, <1>3, <1>4

LEMMA FoundSeq ==
  ASSUME ScanInv
  PROVE  Found(vec) \in Seq(Mark) /\ nstr \in Seq(Mark)
<1>1. Error \in Element
  BY DEF Element
<1> QED
  BY <1>1, FoundAppend, SeqMonotonic DEF ScanInv, Mark

LEMMA InitScan == Init => ScanInv
<1> SUFFICES ASSUME Init PROVE ScanInv
  OBVIOUS
<1>1. pattern \in Seq(Char) /\ Len(pattern) \in Nat
  BY PatternSeq, LenProperties DEF Init
<1>2. Found(vec) = <<>> /\ vec = <<>> /\ nstr = <<>> /\ i = 1
  <2>1. [k \in DOMAIN <<>> |-> Written(<<>>[k])] = <<>>
    OBVIOUS
  <2> QED
    BY <2>1 DEF Init, Found, FlattenSeq
<1>3. SubSeq(pattern, 1, i - 1) = <<>>
  BY <1>2, SubSeqEmpty
<1>4. Found(vec) \o nstr = <<>>
  BY <1>2
<1>5. ToSet(vec) = {}
  BY <1>2 DEF ToSet
<1>6. Agrees
  BY <1>3, <1>4, <1>5 DEF Agrees
<1>7. nstr \in Seq(Char) /\ vec \in Seq(Element) /\ i \in 1..Len(pattern) + 1
  BY <1>1, <1>2, EmptySeq
<1> QED
  BY <1>6, <1>7 DEF Init, ScanInv

\* A step that finds what it reads.
LEMMA AgreesLonger ==
  ASSUME ScanInv, Agrees, NEW x \in Seq(Mark), pattern' = pattern,
         (Found(vec) \o nstr)' = (Found(vec) \o nstr) \o x,
         SubSeq(pattern, 1, i - 1)' = SubSeq(pattern, 1, i - 1) \o x,
         Error \in ToSet(vec') <=> Error \in ToSet(vec)
  PROVE  Agrees'
<1> DEFINE found == Found(vec) \o nstr
           read == SubSeq(pattern, 1, i - 1)
<1>1. found = read \/ Error \in ToSet(vec)
  BY DEF Agrees
<1>2. \A c : Count(c, found) = Count(c, read)
  BY DEF Agrees
<1>3. found \in Seq(Mark) /\ read \in Seq(Mark)
  <2>1. pattern \in Seq(Mark) /\ Len(pattern) \in Nat
    BY PatternSeq, SeqMonotonic, LenProperties DEF ScanInv, Mark
  <2>2. \A k \in 1..i - 1 : pattern[k] \in Mark
    BY <2>1, ElementOfSeq DEF ScanInv
  <2>3. read \in Seq(Mark)
    BY <2>1, <2>2, SubSeqProperties DEF ScanInv
  <2> QED
    BY <2>3, FoundSeq, ConcatProperties
<1>4. found' = found \o x /\ read' = read \o x
  OBVIOUS
<1>5. (Error \notin ToSet(vec') => found' = read') /\ (\A c : Count(c, found') = Count(c, read')) => Agrees'
  BY DEF Agrees
<1> HIDE DEF found, read
<1>6. \A c : Count(c, found \o x) = Count(c, read \o x)
  BY <1>2, <1>3, CountConcat
<1> QED
  BY <1>1, <1>4, <1>5, <1>6

LEMMA CharacterKeeps == ASSUME ScanInv, Character PROVE ScanInv'
<1>1. Len(pattern) \in Nat /\ i \in 1..Len(pattern) /\ pattern \in Seq(Char)
  BY PatternSeq, LenProperties DEF ScanInv, Character, Scanning
<1>2. pattern[i] \in Char /\ i + 1 \in 1..Len(pattern) + 1 /\ (i + 1) - 1 = i
  BY <1>1
<1>3. SubSeq(pattern, 1, i) = SubSeq(pattern, 1, i - 1) \o <<pattern[i]>>
  BY <1>1, ReadOn, SubSeqOne
<1> DEFINE x == <<pattern[i]>>
<1>4. x \in Seq(Mark)
  BY <1>1, <1>2, ReadOn, SubSeqOne
<1>5. (Found(vec) \o nstr)' = (Found(vec) \o nstr) \o x
  <2>1. nstr' = nstr \o x /\ vec' = vec
    BY <1>1, <1>2, AppendIsConcat DEF Character, ScanInv
  <2> QED
    BY <2>1, <1>4, FoundSeq, ConcatAssociative
<1>6. SubSeq(pattern, 1, i - 1)' = SubSeq(pattern, 1, i - 1) \o x
  BY <1>2, <1>3 DEF Character
<1>7. Agrees => Agrees'
  <2> HIDE DEF x
  <2> QED
    BY <1>4, <1>5, <1>6, AgreesLonger DEF Character
<1> QED
  BY <1>1, <1>2, <1>7 DEF ScanInv, Character
LEMMA FormatKeeps == ASSUME ScanInv, Format PROVE ScanInv'
<1>1. Len(pattern) \in Nat /\ i \in 1..Len(pattern) /\ pattern \in Seq(Char)
  BY PatternSeq, LenProperties DEF ScanInv, Format, Scanning
<1> DEFINE e == Scanned(pattern, i)
           m == After(pattern, i)
           x == SubSeq(pattern, i, m - 1)
<1>2. /\ m \in i + 1..Len(pattern) + 1
      /\ e \in Element /\ e # Error
      /\ ~EmptyArgument(pattern) => Written(e) = x
  BY <1>1, ScannedIs DEF Format
<1>3. /\ Flushed \in Seq(Element) /\ Found(Flushed) = Found(vec) \o nstr
      /\ Error \in ToSet(Flushed) <=> Error \in ToSet(vec)
  BY FoundFlushed DEF ScanInv
<1>4. /\ vec' = Append(Flushed, e) /\ nstr' = <<>> /\ i' = m /\ pattern' = pattern
  BY DEF Format
<1> HIDE DEF e, m
<1>5. /\ vec' \in Seq(Element) /\ Found(vec') \in Seq(Mark)
      /\ Found(vec') = (Found(vec) \o nstr) \o Written(e)
      /\ Error \in ToSet(vec') <=> Error \in ToSet(vec)
  <2>1. Append(Flushed, e) \in Seq(Element)
    BY <1>2, <1>3, AppendProperties
  <2>2. Error \in Element
    BY DEF Element
  <2>3. Found(Append(Flushed, e)) \in Seq(Mark)
    BY <2>1, <2>2, FoundAppend
  <2>4. /\ Found(Append(Flushed, e)) = Found(Flushed) \o Written(e)
        /\ Error \in ToSet(Append(Flushed, e)) <=> Error \in ToSet(Flushed)
    <3>1. \A v \in Seq(Element) :
            /\ Found(Append(v, e)) = Found(v) \o Written(e)
            /\ Error \in ToSet(Append(v, e)) <=> Error \in ToSet(v) \/ e = Error
      BY <1>2, FoundAppend
    <3> QED
      BY <1>2, <1>3, <3>1
  <2> QED
    BY <1>3, <1>4, <2>1, <2>3, <2>4
<1>6. ASSUME ~EmptyArgument(pattern), Agrees PROVE Agrees'
  <2>1. (Found(vec) \o nstr)' = (Found(vec) \o nstr) \o x
    BY <1>2, <1>4, <1>5, <1>6, ConcatEmptySeq
  <2>2. m - 1 \in i..Len(pattern) /\ i' - 1 = m - 1
    BY <1>1, <1>2, <1>4
  <2>3. x \in Seq(Mark) /\ SubSeq(pattern, 1, m - 1) = SubSeq(pattern, 1, i - 1) \o x
    BY <2>2, ReadOn
  <2>4. SubSeq(pattern, 1, i - 1)' = SubSeq(pattern, 1, i - 1) \o x
    BY <1>4, <2>2, <2>3
  <2> HIDE DEF x
  <2> QED
    BY <1>4, <1>5, <1>6, <2>1, <2>3, <2>4, AgreesLonger
<1>7. i' \in 1..Len(pattern) + 1
  BY <1>1, <1>2, <1>4
<1> QED
  BY <1>4, <1>5, <1>6, <1>7, EmptySeq DEF ScanInv

\* The % of the error is counted before the text it came behind.
LEMMA PatternErrorKeeps == ASSUME ScanInv, PatternError PROVE ScanInv'
<1>1. /\ Len(pattern) \in Nat /\ i \in 1..Len(pattern) /\ pattern \in Seq(Char)
      /\ pattern[i] = "%"
  BY PatternSeq, LenProperties DEF ScanInv, PatternError, Scanning
<1>2. vec' = Append(vec, Error) /\ i' = i + 1 /\ pattern' = pattern /\ nstr' = nstr
  BY DEF PatternError
<1> DEFINE x == <<"%">>
<1>3. /\ vec' \in Seq(Element)
      /\ Found(vec') = Found(vec) \o x
      /\ Error \in ToSet(vec')
  <2>1. Error \in Element /\ Written(Error) = x
    BY DEF Element, Written
  <2> QED
    BY <1>2, <2>1, FoundAppend, AppendProperties DEF ScanInv
<1>4. x \in Seq(Mark) /\ SubSeq(pattern, 1, i - 1) \in Seq(Mark)
      /\ SubSeq(pattern, 1, i - 1)' = SubSeq(pattern, 1, i - 1) \o x
  <2>1. i \in i..Len(pattern) /\ i' - 1 = i
    BY <1>1, <1>2
  <2>2. SubSeq(pattern, i, i) = x
    BY <1>1, SubSeqOne
  <2> QED
    BY <1>2, <2>1, <2>2, ReadOn
<1>5. Found(vec) \in Seq(Mark) /\ nstr \in Seq(Mark)
  BY FoundSeq
<1>6. ASSUME Agrees PROVE Agrees'
  <2> DEFINE f == Found(vec)
             r == SubSeq(pattern, 1, i - 1)
  <2>1. \A c : Count(c, f \o nstr) = Count(c, r)
    BY <1>6 DEF Agrees
  <2>2. (Found(vec) \o nstr)' = (f \o x) \o nstr /\ SubSeq(pattern, 1, i - 1)' = r \o x
    BY <1>2, <1>3, <1>4
  <2>3. (\A c : Count(c, (Found(vec) \o nstr)') = Count(c, SubSeq(pattern, 1, i - 1)')) => Agrees'
    BY <1>3 DEF Agrees
  <2> HIDE DEF f, r, x
  <2>4. ASSUME NEW c PROVE Count(c, (f \o x) \o nstr) = Count(c, r \o x)
    <3>0. f \in Seq(Mark) /\ r \in Seq(Mark) /\ x \in Seq(Mark) /\ nstr \in Seq(Mark)
      BY <1>4, <1>5 DEF f, r
    <3>1. /\ Count(c, f \o nstr) = Count(c, f) + Count(c, nstr)
          /\ Count(c, r \o x) = Count(c, r) + Count(c, x)
          /\ Count(c, f) \in Nat /\ Count(c, x) \in Nat /\ Count(c, nstr) \in Nat
      BY <3>0, CountConcat
    <3>2. f \o x \in Seq(Mark) /\ Count(c, f \o x) = Count(c, f) + Count(c, x)
      BY <3>0, CountConcat, ConcatProperties
    <3>3. Count(c, (f \o x) \o nstr) = Count(c, f \o x) + Count(c, nstr)
      BY <3>0, <3>2, CountConcat
    <3> QED
      BY <2>1, <3>1, <3>2, <3>3
  <2> QED
    BY <2>2, <2>3, <2>4
<1>7. i' \in 1..Len(pattern) + 1
  BY <1>1, <1>2
<1> QED
  BY <1>2, <1>3, <1>6, <1>7 DEF ScanInv

LEMMA FinishKeeps == ASSUME ScanInv, Finish PROVE ScanInv'
<1>1. /\ Flushed \in Seq(Element) /\ Found(Flushed) = Found(vec) \o nstr
      /\ Error \in ToSet(Flushed) <=> Error \in ToSet(vec)
  BY FoundFlushed DEF ScanInv
<1>2. vec' = Flushed /\ nstr' = <<>> /\ i' = i /\ pattern' = pattern
  BY DEF Finish
<1>3. (Found(vec) \o nstr)' = Found(vec) \o nstr
  <2>1. Found(vec) \o nstr \in Seq(Mark)
    BY FoundSeq, ConcatProperties
  <2> QED
    BY <1>1, <1>2, <2>1, ConcatEmptySeq
<1>4. Agrees => Agrees'
  BY <1>1, <1>2, <1>3 DEF Agrees
<1> QED
  BY <1>1, <1>2, <1>4, EmptySeq DEF ScanInv

\* LogFormatter::init() on any pattern at all: the scan stays inside it, and what it has
\* found is what it has read, unless a brace was not closed; then the characters are still
\* the same ones.
THEOREM ScanInvariance == Spec => []ScanInv
<1>1. ScanInv /\ UNCHANGED vars => ScanInv'
  BY DEF vars, ScanInv, Agrees
<1>2. ScanInv /\ [Next]_vars => ScanInv'
  BY <1>1, CharacterKeeps, FormatKeeps, PatternErrorKeeps, FinishKeeps DEF Next
<1> QED
  BY <1>2, InitScan, PTL DEF Spec

\* LogFormatter::init(): written as a pattern again, what was found is the part of the
\* pattern that was read - no character is lost, doubled or moved, for every pattern and
\* whatever letters there are; where a brace is never closed characters may move and no
\* more.
THEOREM PatternsAreParsedWithoutLoss == Spec => []Lossless
<1>1. ScanInv => Lossless
  BY DEF ScanInv, Agrees, EmptyArgument, Lossless, Found
<1> QED
  BY <1>1, ScanInvariance, PTL
=============================================================================
