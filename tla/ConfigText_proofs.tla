-------------------------- MODULE ConfigText_proofs --------------------------
(***************************************************************************)
(* Proofs about the conversions of ConfigText, for all types, values,      *)
(* texts and documents: however containers are nested and documents nest.  *)
(***************************************************************************)
EXTENDS ConfigText, TLAPS, SequenceTheorems, FiniteSetTheorems, WellFoundedInduction

-----------------------------------------------------------------------------
(* Numbers.                                                                *)

\* A set of natural numbers has a least one.
LEMMA LeastNumber ==
  ASSUME NEW I \in SUBSET Nat, I # {}
  PROVE  \E x \in I : \A y \in I : x <= y
<1> DEFINE R == {p \in Nat \X Nat : p[1] < p[2]}
<1>1. IsWellFoundedOn(R, Nat)
  BY NatLessThanWellFounded DEF OpToRel
<1> HIDE DEF R
<1>2. PICK x \in I : \A y \in I : ~(<<y, x>> \in R)
  BY <1>1, WFMin
<1>3. ASSUME NEW y \in I PROVE x <= y
  <2>1. <<y, x>> \in Nat \X Nat /\ <<y, x>>[1] = y /\ <<y, x>>[2] = x
    OBVIOUS
  <2> QED
    BY <1>2, <2>1 DEF R
<1> QED
  BY <1>3

\* What holds of 0 and of the successor of every number it holds of, holds of all.
LEMMA EveryNumber ==
  ASSUME NEW I \in SUBSET Nat, 0 \in I, \A n \in I : n + 1 \in I
  PROVE  I = Nat
<1> SUFFICES ASSUME Nat \ I # {} PROVE FALSE
  OBVIOUS
<1>1. PICK m \in Nat \ I : \A y \in Nat \ I : m <= y
  <2>1. Nat \ I \in SUBSET Nat
    OBVIOUS
  <2> QED
    BY <2>1, LeastNumber
<1>2. m # 0 /\ m - 1 \in Nat /\ m - 1 \notin Nat \ I
  BY <1>1
<1>3. (m - 1) + 1 = m
  BY <1>1
<1> QED
  BY <1>1, <1>2, <1>3

\* Of finitely many things with a rank, the ranks have a bound.
LEMMA RankBound ==
  ASSUME NEW S, IsFiniteSet(S), NEW rank, \A x \in S : rank[x] \in Nat
  PROVE  \E n \in Nat : \A x \in S : rank[x] <= n
<1>0. PICK n \in Nat : \E b : b \in Bijection(1..n, S)
  BY FS_NatBijection DEF ExistsBijection
<1>1. PICK b : b \in Bijection(1..n, S)
  BY <1>0
<1>2. b \in [1..n -> S] /\ \A x \in S : \E i \in 1..n : b[i] = x
  BY <1>1 DEF Bijection, Injection, Surjection
<1> DEFINE I == {k \in Nat : \E m \in Nat : \A i \in 1..n : i <= k => rank[b[i]] <= m}
<1>3. 0 \in I
  OBVIOUS
<1>4. ASSUME NEW k \in I PROVE k + 1 \in I
  <2>1. PICK m \in Nat : \A i \in 1..n : i <= k => rank[b[i]] <= m
    OBVIOUS
  <2>2. CASE k + 1 \in 1..n
    <3>1. rank[b[k + 1]] \in Nat
      BY <1>2, <2>2
    <3>2. PICK p \in Nat : m <= p /\ rank[b[k + 1]] <= p
      BY <3>1
    <3>3. ASSUME NEW i \in 1..n, i <= k + 1 PROVE rank[b[i]] <= p
      <4>1. rank[b[i]] \in Nat
        BY <1>2
      <4> QED
        BY <2>1, <3>2, <3>3, <4>1
    <3> QED
      BY <3>3
  <2>3. CASE k + 1 \notin 1..n
    <3>1. \A i \in 1..n : i <= k + 1 => i <= k
      BY <2>3
    <3> QED
      BY <2>1, <3>1
  <2> QED
    BY <2>2, <2>3
<1>5. I = Nat
  <2>1. I \in SUBSET Nat
    OBVIOUS
  <2> HIDE DEF I
  <2> QED
    BY <1>3, <1>4, <2>1, EveryNumber
<1>6. PICK m \in Nat : \A i \in 1..n : i <= n => rank[b[i]] <= m
  <2> HIDE DEF I
  <2>1. n \in I
    BY <1>5
  <2> QED
    BY <2>1 DEF I
<1>7. ASSUME NEW x \in S PROVE rank[x] <= m
  <2>1. PICK i \in 1..n : b[i] = x
    BY <1>2
  <2> QED
    BY <1>6, <2>1
<1> QED
  BY <1>7

-----------------------------------------------------------------------------
(* Types.                                                                  *)

LEMMA TypeFacts ==
  ASSUME NEW T \in Types
  PROVE  /\ Len(T) \in Nat \ {0} /\ Kind(T) = T[1] /\ Base(T) = T[Len(T)]
         /\ Kind(T) \in Kinds \cup {"list", "set", "map"}
         /\ Basic(T) => Len(T) = 1 /\ Base(T) = Kind(T)
         /\ ~Basic(T) => /\ Kind(T) \in {"list", "set", "map"}
                         /\ Of(T) \in Types /\ Len(Of(T)) = Len(T) - 1
                         /\ Base(Of(T)) = Base(T)
                         /\ ToSet(Of(T)) \subseteq ToSet(T)
                         /\ Kind(T) \in ToSet(T)
<1> DEFINE S == Kinds \cup {"list", "set", "map"}
<1>1. T \in Seq(S) /\ T # <<>> /\ (Basic(T) <=> Len(T) = 1) /\ (~Basic(T) => Of(T) \in Types)
  BY TypesAssumption
<1> HIDE DEF S
<1>2. Len(T) \in Nat \ {0} /\ Head(T) = T[1] /\ DOMAIN T = 1..Len(T)
  BY <1>1
<1>3. Kind(T) = T[1] /\ Base(T) = T[Len(T)] /\ Kind(T) \in S
  BY <1>1, <1>2 DEF Kind, Base, Last
<1>4. ASSUME ~Basic(T)
      PROVE  /\ Len(Of(T)) = Len(T) - 1
             /\ Base(Of(T)) = Base(T)
             /\ ToSet(Of(T)) \subseteq ToSet(T)
  <2>1. Of(T) \in Seq(S) /\ Len(Of(T)) = Len(T) - 1 /\ \A i \in 1..Len(Of(T)) : Of(T)[i] = T[i + 1]
    BY <1>1, HeadTailProperties DEF Of
  <2>2. Len(T) - 1 \in 1..Len(T) - 1 /\ DOMAIN Of(T) = 1..Len(T) - 1
    BY <1>1, <1>2, <1>4, <2>1
  <2>3. Base(Of(T)) = T[Len(T)]
    BY <1>2, <2>1, <2>2 DEF Base, Last
  <2>4. ToSet(Of(T)) \subseteq ToSet(T)
    BY <1>2, <2>1, <2>2 DEF ToSet
  <2> QED
    BY <1>3, <2>1, <2>3, <2>4
<1>5. Kind(T) \in ToSet(T)
  BY <1>2, <1>3 DEF ToSet
<1> QED
  BY <1>1, <1>2, <1>3, <1>4, <1>5 DEF S, Basic

LEMMA LongestType == \E n \in Nat : \A T \in Types : Len(T) <= n
<1> DEFINE rank == [T \in Types |-> Len(T)]
<1>1. \A T \in Types : rank[T] \in Nat /\ rank[T] = Len(T)
  BY TypeFacts
<1>2. IsFiniteSet(Types)
  BY TypesAssumption
<1> HIDE DEF rank
<1>3. \E n \in Nat : \A T \in Types : rank[T] <= n
  BY <1>1, <1>2, RankBound
<1> QED
  BY <1>1, <1>3

\* Types of at most n kinds.
Upto(n) == {T \in Types : Len(T) <= n}

LEMMA UptoAll == \E n \in Nat : Upto(n) = Types
BY LongestType DEF Upto

LEMMA UptoNext ==
  ASSUME NEW n \in Nat, NEW T \in Upto(n + 1)
  PROVE  T \in Types /\ (~Basic(T) => Of(T) \in Upto(n) /\ Of(T) \in Upto(n + 1))
<1>1. T \in Types /\ Len(T) <= n + 1
  BY DEF Upto
<1> QED
  BY <1>1, TypeFacts DEF Upto

-----------------------------------------------------------------------------
(* What the recursive definitions compute: each type by the type below it. *)

\* FromStr of a type whose elements are read by c.
ReadAs(T, c) ==
  [text \in Texts[T] |-> IF Basic(T) THEN ReadBasic(Kind(T), text)
                         ELSE ReadItems(Kind(T), text, c)]

LEMMA ReadAsBasic == \A T, c, d : Basic(T) => ReadAs(T, c) = ReadAs(T, d)
BY DEF ReadAs

LEMMA ReadsExists ==
  ASSUME NEW n \in Nat
  PROVE  \E f : f = [T \in Upto(n) |-> ReadAs(T, f[Of(T)])]
<1> DEFINE I == {k \in Nat : \E f : f = [T \in Upto(k) |-> ReadAs(T, f[Of(T)])]}
<1>1. 0 \in I
  <2>1. Upto(0) = {}
    BY TypeFacts DEF Upto
  <2> DEFINE f == [T \in {} |-> T]
  <2>2. f = [T \in Upto(0) |-> ReadAs(T, f[Of(T)])]
    BY <2>1
  <2> QED
    BY <2>2
<1>2. ASSUME NEW k \in I PROVE k + 1 \in I
  <2>1. PICK f : f = [T \in Upto(k) |-> ReadAs(T, f[Of(T)])]
    OBVIOUS
  <2> DEFINE g == [T \in Upto(k + 1) |-> ReadAs(T, f[Of(T)])]
  <2>2. ASSUME NEW T \in Upto(k + 1) PROVE g[T] = ReadAs(T, g[Of(T)])
    <3>1. CASE Basic(T)
      <4>1. ReadAs(T, f[Of(T)]) = ReadAs(T, g[Of(T)])
        BY <3>1, ReadAsBasic
      <4> QED
        BY <4>1
    <3>2. CASE ~Basic(T)
      <4>1. Of(T) \in Upto(k) /\ Of(T) \in Upto(k + 1)
        BY <3>2, UptoNext
      <4>2. f[Of(T)] = ReadAs(Of(T), f[Of(Of(T))]) /\ g[Of(T)] = ReadAs(Of(T), f[Of(Of(T))])
        BY <2>1, <4>1
      <4> QED
        BY <4>2
    <3> QED
      BY <3>1, <3>2
  <2>3. g = [T \in Upto(k + 1) |-> g[T]]
    OBVIOUS
  <2> HIDE DEF g
  <2>4. g = [T \in Upto(k + 1) |-> ReadAs(T, g[Of(T)])]
    BY <2>2, <2>3
  <2>5. k + 1 \in Nat
    OBVIOUS
  <2> QED
    BY <2>4, <2>5
<1>3. I \in SUBSET Nat
  OBVIOUS
<1> HIDE DEF I
<1>4. I = Nat
  BY <1>1, <1>2, <1>3, EveryNumber
<1> QED
  BY <1>4 DEF I

LEMMA FromStrIs ==
  \E conv : \A T \in Types :
    /\ conv[T] = ReadAs(T, conv[Of(T)])
    /\ \A text : FromStr(T, text) = conv[T][text]
<1> DEFINE conv == CHOOSE f : f = [T \in Types |-> ReadAs(T, f[Of(T)])]
<1>1. PICK n \in Nat : Upto(n) = Types
  BY UptoAll
<1>2. \E f : f = [T \in Types |-> ReadAs(T, f[Of(T)])]
  BY <1>1, ReadsExists
<1>3. conv = [T \in Types |-> ReadAs(T, conv[Of(T)])]
  BY <1>2
<1>4. \A T, text : FromStr(T, text) = conv[T][text]
  BY DEF FromStr, ReadAs
<1> HIDE DEF conv
<1>5. \A T \in Types : conv[T] = ReadAs(T, conv[Of(T)])
  BY <1>3
<1> QED
  BY <1>4, <1>5

LEMMA ReadAsText ==
  ASSUME NEW T, NEW c, NEW text \in Texts[T]
  PROVE  /\ Basic(T) => ReadAs(T, c)[text] = ReadBasic(Kind(T), text)
         /\ ~Basic(T) => ReadAs(T, c)[text] = ReadItems(Kind(T), text, c)
BY DEF ReadAs

LEMMA FromStrBasic ==
  ASSUME NEW T \in Types, NEW text \in Texts[T], Basic(T)
  PROVE  FromStr(T, text) = ReadBasic(Kind(T), text)
<1>1. PICK conv : \A U \in Types : /\ conv[U] = ReadAs(U, conv[Of(U)])
                                  /\ \A t : FromStr(U, t) = conv[U][t]
  BY FromStrIs
<1>2. FromStr(T, text) = ReadAs(T, conv[Of(T)])[text]
  BY <1>1
<1> QED
  BY <1>2, ReadAsText

LEMMA FromStrItems ==
  ASSUME NEW T \in Types, ~Basic(T)
  PROVE  \E conv : /\ \A t : conv[t] = FromStr(Of(T), t)
                   /\ \A text \in Texts[T] : FromStr(T, text) = ReadItems(Kind(T), text, conv)
<1>1. PICK conv : \A U \in Types : /\ conv[U] = ReadAs(U, conv[Of(U)])
                                  /\ \A t : FromStr(U, t) = conv[U][t]
  BY FromStrIs
<1>2. Of(T) \in Types
  BY TypeFacts
<1>3. \A text \in Texts[T] : FromStr(T, text) = ReadAs(T, conv[Of(T)])[text]
  BY <1>1
<1>4. \A text \in Texts[T] : FromStr(T, text) = ReadItems(Kind(T), text, conv[Of(T)])
  BY <1>3, ReadAsText
<1> QED
  BY <1>1, <1>2, <1>4

\* ToStr of a type whose elements are shown by c.
ShowAs(T, c) ==
  [v \in Values[T] |-> IF Basic(T) THEN <<WriteBasic(Kind(T), v)>>
                       ELSE WriteItems(Kind(T), v, c)]

LEMMA ShowAsBasic == \A T, c, d : Basic(T) => ShowAs(T, c) = ShowAs(T, d)
BY DEF ShowAs

LEMMA ShowsExists ==
  ASSUME NEW n \in Nat
  PROVE  \E f : f = [T \in Upto(n) |-> ShowAs(T, f[Of(T)])]
<1> DEFINE I == {k \in Nat : \E f : f = [T \in Upto(k) |-> ShowAs(T, f[Of(T)])]}
<1>1. 0 \in I
  <2>1. Upto(0) = {}
    BY TypeFacts DEF Upto
  <2> DEFINE f == [T \in {} |-> T]
  <2>2. f = [T \in Upto(0) |-> ShowAs(T, f[Of(T)])]
    BY <2>1
  <2> QED
    BY <2>2
<1>2. ASSUME NEW k \in I PROVE k + 1 \in I
  <2>1. PICK f : f = [T \in Upto(k) |-> ShowAs(T, f[Of(T)])]
    OBVIOUS
  <2> DEFINE g == [T \in Upto(k + 1) |-> ShowAs(T, f[Of(T)])]
  <2>2. ASSUME NEW T \in Upto(k + 1) PROVE g[T] = ShowAs(T, g[Of(T)])
    <3>1. CASE Basic(T)
      <4>1. ShowAs(T, f[Of(T)]) = ShowAs(T, g[Of(T)])
        BY <3>1, ShowAsBasic
      <4> QED
        BY <4>1
    <3>2. CASE ~Basic(T)
      <4>1. Of(T) \in Upto(k) /\ Of(T) \in Upto(k + 1)
        BY <3>2, UptoNext
      <4>2. f[Of(T)] = ShowAs(Of(T), f[Of(Of(T))]) /\ g[Of(T)] = ShowAs(Of(T), f[Of(Of(T))])
        BY <2>1, <4>1
      <4> QED
        BY <4>2
    <3> QED
      BY <3>1, <3>2
  <2>3. g = [T \in Upto(k + 1) |-> g[T]]
    OBVIOUS
  <2> HIDE DEF g
  <2>4. g = [T \in Upto(k + 1) |-> ShowAs(T, g[Of(T)])]
    BY <2>2, <2>3
  <2>5. k + 1 \in Nat
    OBVIOUS
  <2> QED
    BY <2>4, <2>5
<1>3. I \in SUBSET Nat
  OBVIOUS
<1> HIDE DEF I
<1>4. I = Nat
  BY <1>1, <1>2, <1>3, EveryNumber
<1> QED
  BY <1>4 DEF I

LEMMA ToStrIs ==
  \E conv : \A T \in Types :
    /\ conv[T] = ShowAs(T, conv[Of(T)])
    /\ \A v : ToStr(T, v) = conv[T][v]
<1> DEFINE conv == CHOOSE f : f = [T \in Types |-> ShowAs(T, f[Of(T)])]
<1>1. PICK n \in Nat : Upto(n) = Types
  BY UptoAll
<1>2. \E f : f = [T \in Types |-> ShowAs(T, f[Of(T)])]
  BY <1>1, ShowsExists
<1>3. conv = [T \in Types |-> ShowAs(T, conv[Of(T)])]
  BY <1>2
<1>4. \A T, v : ToStr(T, v) = conv[T][v]
  BY DEF ToStr, ShowAs
<1> HIDE DEF conv
<1>5. \A T \in Types : conv[T] = ShowAs(T, conv[Of(T)])
  BY <1>3
<1> QED
  BY <1>4, <1>5

LEMMA ShowAsValue ==
  ASSUME NEW T, NEW c, NEW v \in Values[T]
  PROVE  /\ Basic(T) => ShowAs(T, c)[v] = <<WriteBasic(Kind(T), v)>>
         /\ ~Basic(T) => ShowAs(T, c)[v] = WriteItems(Kind(T), v, c)
BY DEF ShowAs

LEMMA ToStrBasic ==
  ASSUME NEW T \in Types, NEW v \in Values[T], Basic(T)
  PROVE  ToStr(T, v) = <<WriteBasic(Kind(T), v)>> /\ VarToString(T, v) = WriteBasic(Kind(T), v)
<1>1. PICK conv : \A U \in Types : /\ conv[U] = ShowAs(U, conv[Of(U)])
                                  /\ \A t : ToStr(U, t) = conv[U][t]
  BY ToStrIs
<1>2. ToStr(T, v) = ShowAs(T, conv[Of(T)])[v]
  BY <1>1
<1>3. ToStr(T, v) = <<WriteBasic(Kind(T), v)>>
  BY <1>2, ShowAsValue
<1>4. \A x : <<x>> # <<>> /\ <<x>>[1] = x
  OBVIOUS
<1> QED
  BY <1>3, <1>4 DEF VarToString

LEMMA ToStrItems ==
  ASSUME NEW T \in Types, NEW v \in Values[T], ~Basic(T)
  PROVE  \E conv : /\ \A t : conv[t] = ToStr(Of(T), t)
                   /\ ToStr(T, v) = WriteItems(Kind(T), v, conv)
<1>1. PICK conv : \A U \in Types : /\ conv[U] = ShowAs(U, conv[Of(U)])
                                  /\ \A t : ToStr(U, t) = conv[U][t]
  BY ToStrIs
<1>2. Of(T) \in Types
  BY TypeFacts
<1>3. ToStr(T, v) = ShowAs(T, conv[Of(T)])[v]
  BY <1>1
<1>4. ToStr(T, v) = WriteItems(Kind(T), v, conv[Of(T)])
  BY <1>3, ShowAsValue
<1> QED
  BY <1>1, <1>2, <1>4

\* Leaves of a type whose elements have the leaves c.
LeavesAs(T, c) ==
  [v \in Values[T] |-> IF Basic(T) THEN {v}
                       ELSE UNION {c[e] : e \in ToSet(Parts(Kind(T), v))}]

LEMMA LeavesAsBasic == \A T, c, d : Basic(T) => LeavesAs(T, c) = LeavesAs(T, d)
BY DEF LeavesAs

LEMMA LeavesExist ==
  ASSUME NEW n \in Nat
  PROVE  \E f : f = [T \in Upto(n) |-> LeavesAs(T, f[Of(T)])]
<1> DEFINE I == {k \in Nat : \E f : f = [T \in Upto(k) |-> LeavesAs(T, f[Of(T)])]}
<1>1. 0 \in I
  <2>1. Upto(0) = {}
    BY TypeFacts DEF Upto
  <2> DEFINE f == [T \in {} |-> T]
  <2>2. f = [T \in Upto(0) |-> LeavesAs(T, f[Of(T)])]
    BY <2>1
  <2> QED
    BY <2>2
<1>2. ASSUME NEW k \in I PROVE k + 1 \in I
  <2>1. PICK f : f = [T \in Upto(k) |-> LeavesAs(T, f[Of(T)])]
    OBVIOUS
  <2> DEFINE g == [T \in Upto(k + 1) |-> LeavesAs(T, f[Of(T)])]
  <2>2. ASSUME NEW T \in Upto(k + 1) PROVE g[T] = LeavesAs(T, g[Of(T)])
    <3>1. CASE Basic(T)
      <4>1. LeavesAs(T, f[Of(T)]) = LeavesAs(T, g[Of(T)])
        BY <3>1, LeavesAsBasic
      <4> QED
        BY <4>1
    <3>2. CASE ~Basic(T)
      <4>1. Of(T) \in Upto(k) /\ Of(T) \in Upto(k + 1)
        BY <3>2, UptoNext
      <4>2. f[Of(T)] = LeavesAs(Of(T), f[Of(Of(T))]) /\ g[Of(T)] = LeavesAs(Of(T), f[Of(Of(T))])
        BY <2>1, <4>1
      <4> QED
        BY <4>2
    <3> QED
      BY <3>1, <3>2
  <2>3. g = [T \in Upto(k + 1) |-> g[T]]
    OBVIOUS
  <2> HIDE DEF g
  <2>4. g = [T \in Upto(k + 1) |-> LeavesAs(T, g[Of(T)])]
    BY <2>2, <2>3
  <2>5. k + 1 \in Nat
    OBVIOUS
  <2> QED
    BY <2>4, <2>5
<1>3. I \in SUBSET Nat
  OBVIOUS
<1> HIDE DEF I
<1>4. I = Nat
  BY <1>1, <1>2, <1>3, EveryNumber
<1> QED
  BY <1>4 DEF I

LEMMA LeavesAre ==
  \E conv : \A T \in Types :
    /\ conv[T] = LeavesAs(T, conv[Of(T)])
    /\ \A v : Leaves(T, v) = conv[T][v]
<1> DEFINE conv == CHOOSE f : f = [T \in Types |-> LeavesAs(T, f[Of(T)])]
<1>1. PICK n \in Nat : Upto(n) = Types
  BY UptoAll
<1>2. \E f : f = [T \in Types |-> LeavesAs(T, f[Of(T)])]
  BY <1>1, LeavesExist
<1>3. conv = [T \in Types |-> LeavesAs(T, conv[Of(T)])]
  BY <1>2
<1>4. \A T, v : Leaves(T, v) = conv[T][v]
  BY DEF Leaves, LeavesAs
<1> HIDE DEF conv
<1>5. \A T \in Types : conv[T] = LeavesAs(T, conv[Of(T)])
  BY <1>3
<1> QED
  BY <1>4, <1>5

LEMMA LeavesAsValue ==
  ASSUME NEW T, NEW c, NEW v \in Values[T]
  PROVE  /\ Basic(T) => LeavesAs(T, c)[v] = {v}
         /\ ~Basic(T) => LeavesAs(T, c)[v] = UNION {c[e] : e \in ToSet(Parts(Kind(T), v))}
BY DEF LeavesAs

LEMMA LeavesBasic ==
  ASSUME NEW T \in Types, NEW v \in Values[T], Basic(T)
  PROVE  Leaves(T, v) = {v}
<1>1. PICK conv : \A U \in Types : /\ conv[U] = LeavesAs(U, conv[Of(U)])
                                  /\ \A t : Leaves(U, t) = conv[U][t]
  BY LeavesAre
<1>2. Leaves(T, v) = LeavesAs(T, conv[Of(T)])[v]
  BY <1>1
<1> QED
  BY <1>2, LeavesAsValue

LEMMA LeavesItems ==
  ASSUME NEW T \in Types, NEW v \in Values[T], ~Basic(T)
  PROVE  \E conv : /\ \A t : conv[t] = Leaves(Of(T), t)
                   /\ Leaves(T, v) = UNION {conv[e] : e \in ToSet(Parts(Kind(T), v))}
<1>1. PICK conv : \A U \in Types : /\ conv[U] = LeavesAs(U, conv[Of(U)])
                                  /\ \A t : Leaves(U, t) = conv[U][t]
  BY LeavesAre
<1>2. Of(T) \in Types
  BY TypeFacts
<1>3. Leaves(T, v) = LeavesAs(T, conv[Of(T)])[v]
  BY <1>1
<1>4. Leaves(T, v) = UNION {conv[Of(T)][e] : e \in ToSet(Parts(Kind(T), v))}
  BY <1>3, LeavesAsValue
<1> QED
  BY <1>1, <1>2, <1>4
-----------------------------------------------------------------------------
(* The parts of a container and its text.                                  *)

LEMMA SetToSeqIs ==
  ASSUME NEW S, IsFiniteSet(S)
  PROVE  /\ SetToSeq(S) \in Seq(S) /\ ToSet(SetToSeq(S)) = S
         /\ \A i, j \in 1..Len(SetToSeq(S)) : SetToSeq(S)[i] = SetToSeq(S)[j] => i = j
<1> DEFINE n == Cardinality(S)
           s == SetToSeq(S)
<1>1. n \in Nat /\ \E f : f \in Bijection(1..n, S)
  BY FS_CardinalityType DEF ExistsBijection
<1>2. \E f \in [1..n -> S] : IsInjective(f)
  BY <1>1 DEF Bijection, Injection, IsInjective
<1>3. s \in [1..n -> S] /\ IsInjective(s)
  BY <1>2 DEF SetToSeq
<1> HIDE DEF n, s
<1>4. s \in Seq(S) /\ Len(s) = n /\ DOMAIN s = 1..n
  BY <1>1, <1>3
<1>5. \A i, j \in 1..n : s[i] = s[j] => i = j
  BY <1>3 DEF IsInjective
<1>6. \A x \in S : \E i \in 1..n : s[i] = x
  <2>1. s \in Injection(1..n, S)
    BY <1>3 DEF Injection
  <2>2. IsFiniteSet(1..n) /\ Cardinality(1..n) = n
    BY <1>1, FS_Interval
  <2>3. s \in Surjection(1..n, S)
    BY <2>1, <2>2, FS_Injection DEF n
  <2> QED
    BY <2>3 DEF Surjection
<1>7. ToSet(s) = S
  BY <1>3, <1>4, <1>6 DEF ToSet
<1> QED
  BY <1>4, <1>5, <1>7 DEF s

LEMMA PartsFacts ==
  ASSUME NEW T \in Types, ~Basic(T), NEW v \in Values[T]
  PROVE  /\ Parts(Kind(T), v) \in Seq(Values[Of(T)])
         /\ Kind(T) = "list" => Parts(Kind(T), v) = v
         /\ Kind(T) = "set" => ToSet(Parts(Kind(T), v)) = v
         /\ Kind(T) = "map" =>
              /\ Keys(Kind(T), v) \in Seq(DOMAIN v)
              /\ ToSet(Keys(Kind(T), v)) = DOMAIN v
              /\ Len(Keys(Kind(T), v)) = Len(Parts(Kind(T), v))
              /\ \A i, j \in 1..Len(Keys(Kind(T), v)) :
                   Keys(Kind(T), v)[i] = Keys(Kind(T), v)[j] => i = j
              /\ \A i \in 1..Len(Keys(Kind(T), v)) :
                   Parts(Kind(T), v)[i] = v[Keys(Kind(T), v)[i]]
<1>1. Kind(T) \in {"list", "set", "map"}
  BY TypeFacts
<1>2. CASE Kind(T) = "list"
  BY <1>2, ValuesAssumption DEF Parts
<1>3. CASE Kind(T) = "set"
  <2>1. v \subseteq Values[Of(T)] /\ IsFiniteSet(v)
    BY <1>3, ValuesAssumption
  <2>2. Parts(Kind(T), v) = SetToSeq(v)
    BY <1>3 DEF Parts
  <2>3. SetToSeq(v) \in Seq(v) /\ ToSet(SetToSeq(v)) = v
    BY <2>1, SetToSeqIs
  <2>4. SetToSeq(v) \in Seq(Values[Of(T)])
    BY <2>1, <2>3
  <2> QED
    BY <1>3, <2>2, <2>3, <2>4
<1>4. CASE Kind(T) = "map"
  <2>1. v \in [DOMAIN v -> Values[Of(T)]] /\ IsFiniteSet(DOMAIN v)
    BY <1>4, ValuesAssumption
  <2> DEFINE ks == SetToSeq(DOMAIN v)
  <2>2. /\ ks \in Seq(DOMAIN v) /\ ToSet(ks) = DOMAIN v
        /\ \A i, j \in 1..Len(ks) : ks[i] = ks[j] => i = j
    BY <2>1, SetToSeqIs
  <2>3. Keys(Kind(T), v) = ks /\ Parts(Kind(T), v) = [i \in DOMAIN ks |-> v[ks[i]]]
    BY <1>4 DEF Keys, Parts
  <2> HIDE DEF ks
  <2> DEFINE p == [i \in DOMAIN ks |-> v[ks[i]]]
  <2>4. DOMAIN ks = 1..Len(ks) /\ Len(ks) \in Nat /\ \A i \in DOMAIN ks : ks[i] \in DOMAIN v
    BY <2>2
  <2>5. p \in Seq(Values[Of(T)]) /\ Len(p) = Len(ks)
    BY <2>1, <2>4
  <2>6. \A i \in 1..Len(ks) : p[i] = v[ks[i]]
    BY <2>4
  <2> HIDE DEF p
  <2>7. Keys(Kind(T), v) = ks /\ Parts(Kind(T), v) = p
    BY <2>3 DEF p
  <2> QED
    BY <1>4, <2>2, <2>5, <2>6, <2>7
<1> QED
  BY <1>1, <1>2, <1>3, <1>4

LEMMA NodeKinds ==
  /\ Null.kind = "null"
  /\ \A nodes : SeqNode(nodes).kind = "seq" /\ SeqNode(nodes).nodes = nodes
  /\ \A keys, nodes : /\ MapNode(keys, nodes).kind = "map" /\ MapNode(keys, nodes).nodes = nodes
                      /\ MapNode(keys, nodes).keys = keys
  /\ \A n, w : Scalar(n, w).kind = "scalar" /\ Scalar(n, w).num = n /\ Scalar(n, w).word = w
  /\ \A w : Word(w).kind = "scalar" /\ Word(w).num = <<>> /\ Word(w).word = w
BY DEF Null, SeqNode, MapNode, Scalar, Word

LEMMA TwoWords == \A w, x : Word(w) = Word(x) => w = x
BY NodeKinds

LEMMA NullLoads ==
  /\ LoadNode(Word("")) = <<Null>> /\ LoadNode(Word("~")) = <<Null>>
  /\ <<Null>> # <<>> /\ <<Null>>[1] = Null
<1>1. \A w \in {"", "~"} : Word(w) \in DOMAIN Loads /\ Loads[Word(w)] = <<Null>>
  BY YamlAssumption
<1>2. \A x : <<x>> # <<>> /\ <<x>>[1] = x
  OBVIOUS
<1> QED
  BY <1>1, <1>2 DEF LoadNode

\* The text of a sequence, a map or a number is the node of it.
LEMMA PlainLoads ==
  ASSUME NEW t, t.kind \in {"seq", "map"} \/ \E n : t = Numeral(n)
  PROVE  /\ LoadNode(t) = <<t>> /\ Emit(t) = t
         /\ LoadNode(t) # <<>> /\ LoadNode(t)[1] = t
<1>1. \A n : Numeral(n).num = <<n>> /\ Numeral(n).word = "" /\ Numeral(n).kind = "scalar"
  BY DEF Numeral, Scalar
<1>2. \A x : <<x>> # <<>> /\ <<x>>[1] = x
  OBVIOUS
<1>3. t.kind \in {"seq", "map"} \/ (t.kind = "scalar" /\ t.num # <<>> /\ t.word = "")
  <2>1. CASE t.kind \in {"seq", "map"}
    BY <2>1
  <2>2. CASE \E n : t = Numeral(n)
    <3>1. PICK n : t = Numeral(n)
      BY <2>2
    <3>2. t.kind = "scalar" /\ t.num = <<n>> /\ t.word = ""
      BY <1>1, <3>1
    <3> QED
      BY <1>2, <3>2
  <2> QED
    BY <2>1, <2>2
<1>4. t \notin DOMAIN Loads /\ t \notin DOMAIN Quoted
  BY <1>3, YamlAssumption
<1>5. t # Null
  BY <1>3, NodeKinds
<1> QED
  BY <1>2, <1>4, <1>5 DEF LoadNode, Emit

\* What a text is loaded as is written as a text that loads as the same.
LEMMA EmitLoads ==
  ASSUME NEW t, t.kind # "null", LoadNode(t) # <<>>
  PROVE  /\ LoadNode(t) = <<LoadNode(t)[1]>>
         /\ LoadNode(Emit(LoadNode(t)[1])) = LoadNode(t)
<1>1. CASE t \in DOMAIN Loads
  <2>1. LoadNode(t) = Loads[t]
    BY <1>1 DEF LoadNode
  <2>2. Loads[t] = <<Loads[t][1]>> /\ LoadNode(Emit(Loads[t][1])) = Loads[t]
    BY <1>1, <2>1, YamlAssumption
  <2> QED
    BY <2>1, <2>2
<1>2. CASE t \notin DOMAIN Loads
  <2>1. LoadNode(t) = <<t>> /\ <<t>>[1] = t
    BY <1>2 DEF LoadNode
  <2>2. t # Null
    BY NodeKinds
  <2>3. CASE t \in DOMAIN Quoted
    <3>1. Emit(t) = Quoted[t] /\ LoadNode(Quoted[t]) = <<t>>
      BY <2>2, <2>3, YamlAssumption DEF Emit
    <3> QED
      BY <2>1, <3>1
  <2>4. CASE t \notin DOMAIN Quoted
    <3>1. Emit(t) = t
      BY <2>2, <2>4 DEF Emit
    <3> QED
      BY <2>1, <3>1
  <2> QED
    BY <2>3, <2>4
<1> QED
  BY <1>1, <1>2

\* The element e has no text, or one that is no YAML.
Fails(U, e) == ToStr(U, e) = <<>> \/ LoadNode(VarToString(U, e)) = <<>>

\* The node of the element e, and what a container gets to read for it.
NodeOf(U, e) == LoadNode(VarToString(U, e))[1]
Shown(U, e) == Emit(NodeOf(U, e))
ShownItems(U, p) == [i \in 1..Len(p) |-> Shown(U, p[i])]

\* The text of the elements p, of type U, of a container that is not empty.
TextOf(kind, keys, U, p) ==
  LET nodes == [i \in 1..Len(p) |-> NodeOf(U, p[i])]
  IN IF kind = "map" THEN MapNode(keys, nodes) ELSE SeqNode(nodes)

\* t is a text of the elements p, and reads as them.
IsTextOf(kind, keys, U, p, t) ==
  /\ LoadNode(t) # <<>>
  /\ Items(kind = "map", LoadNode(t)[1]) = ShownItems(U, p)
  /\ ~(kind = "map" /\ LoadNode(t)[1].kind = "seq")
  /\ kind = "map" /\ p # <<>> => LoadNode(t)[1].keys = keys
  /\ t = IF p = <<>> THEN Word("") ELSE TextOf(kind, keys, U, p)

\* A container has a text unless an element fails.
LEMMA ToStrOf ==
  ASSUME NEW T \in Types, ~Basic(T), NEW v \in Values[T],
         NEW p, p = Parts(Kind(T), v)
  PROVE  ToStr(T, v) = IF \E i \in 1..Len(p) : Fails(Of(T), p[i]) THEN <<>>
                       ELSE <<IF p = <<>> THEN Word("") ELSE TextOf(Kind(T), Keys(Kind(T), v), Of(T), p)>>
<1> DEFINE U == Of(T)
           ks == Keys(Kind(T), v)
<1>1. DOMAIN p = 1..Len(p)
  BY PartsFacts
<1>2. PICK conv : /\ \A e : conv[e] = ToStr(U, e)
                  /\ ToStr(T, v) = WriteItems(Kind(T), v, conv)
  BY ToStrItems
<1> DEFINE loaded == [i \in DOMAIN p |-> IF conv[p[i]] = <<>> THEN <<>> ELSE LoadNode(conv[p[i]][1])]
           nodes == [i \in DOMAIN p |-> loaded[i][1]]
<1>3. ToStr(T, v) = IF <<>> \in ToSet(loaded) THEN <<>>
                    ELSE <<IF p = <<>> THEN Word("")
                           ELSE IF Kind(T) = "map" THEN MapNode(ks, nodes) ELSE SeqNode(nodes)>>
  BY <1>2 DEF WriteItems
<1>4. \A i \in 1..Len(p) : loaded[i] = IF ToStr(U, p[i]) = <<>> THEN <<>> ELSE LoadNode(ToStr(U, p[i])[1])
  BY <1>1, <1>2
<1>5. DOMAIN loaded = 1..Len(p) /\ nodes = [i \in 1..Len(p) |-> loaded[i][1]]
  BY <1>1
<1> HIDE DEF loaded, nodes, U, ks
<1>6. \A i \in 1..Len(p) : /\ loaded[i] = <<>> <=> Fails(U, p[i])
                           /\ ~Fails(U, p[i]) => loaded[i][1] = NodeOf(U, p[i])
  BY <1>4 DEF Fails, NodeOf, VarToString
<1>7. <<>> \in ToSet(loaded) <=> \E i \in 1..Len(p) : Fails(U, p[i])
  BY <1>5, <1>6 DEF ToSet
<1>8. ASSUME \A i \in 1..Len(p) : ~Fails(U, p[i])
      PROVE  nodes = [i \in 1..Len(p) |-> NodeOf(U, p[i])]
  BY <1>5, <1>6, <1>8
<1>9. CASE \E i \in 1..Len(p) : Fails(U, p[i])
  BY <1>3, <1>7, <1>9 DEF U
<1>10. CASE ~ \E i \in 1..Len(p) : Fails(U, p[i])
  <2>1. nodes = [i \in 1..Len(p) |-> NodeOf(U, p[i])]
    BY <1>8, <1>10
  <2>2. (IF Kind(T) = "map" THEN MapNode(ks, nodes) ELSE SeqNode(nodes)) = TextOf(Kind(T), ks, U, p)
    BY <2>1 DEF TextOf
  <2>3. ToStr(T, v) = <<IF p = <<>> THEN Word("") ELSE TextOf(Kind(T), ks, U, p)>>
    BY <1>3, <1>7, <1>10, <2>2
  <2> QED
    BY <1>10, <2>3 DEF U, ks
<1> QED
  BY <1>9, <1>10

LEMMA ItemsShown ==
  ASSUME NEW T \in Types, ~Basic(T), NEW v \in Values[T], ToStr(T, v) # <<>>,
         NEW p, p = Parts(Kind(T), v), NEW t, t = VarToString(T, v)
  PROVE  /\ ToStr(T, v) = <<t>>
         /\ \A i \in 1..Len(p) : ~Fails(Of(T), p[i])
         /\ IsTextOf(Kind(T), Keys(Kind(T), v), Of(T), p, t)
<1> DEFINE U == Of(T)
           ks == Keys(Kind(T), v)
           nodes == [i \in 1..Len(p) |-> NodeOf(U, p[i])]
<1>1. p \in Seq(Values[Of(T)]) /\ DOMAIN p = 1..Len(p) /\ Len(p) \in Nat
  BY PartsFacts
<1>2. /\ \A i \in 1..Len(p) : ~Fails(U, p[i])
      /\ ToStr(T, v) = <<IF p = <<>> THEN Word("") ELSE TextOf(Kind(T), ks, U, p)>>
  BY ToStrOf
<1>3. \A x : <<x>>[1] = x
  OBVIOUS
<1>4. ToStr(T, v) = <<t>> /\ t = IF p = <<>> THEN Word("") ELSE TextOf(Kind(T), ks, U, p)
  BY <1>2, <1>3 DEF VarToString
<1>5. DOMAIN nodes = 1..Len(p) /\ \A i \in 1..Len(p) : Emit(nodes[i]) = Shown(U, p[i])
  BY DEF Shown
<1>6. TextOf(Kind(T), ks, U, p) = IF Kind(T) = "map" THEN MapNode(ks, nodes) ELSE SeqNode(nodes)
  BY DEF TextOf
<1> HIDE DEF nodes, U, ks
<1>7. CASE p = <<>>
  <2>1. LoadNode(t) # <<>> /\ LoadNode(t)[1] = Null
    BY <1>4, <1>7, NullLoads
  <2>2. Items(Kind(T) = "map", LoadNode(t)[1]) = <<>>
    BY <2>1, NodeKinds DEF Items
  <2>3. ShownItems(U, p) = <<>>
    BY <1>7 DEF ShownItems
  <2>4. LoadNode(t)[1].kind # "seq"
    BY <2>1, NodeKinds
  <2> QED
    BY <1>2, <1>4, <1>7, <2>1, <2>2, <2>3, <2>4 DEF IsTextOf, U, ks
<1>8. CASE p # <<>>
  <2>1. CASE Kind(T) = "map"
    <3>1. t.kind = "map" /\ t.nodes = nodes /\ t.keys = ks
      BY <1>4, <1>6, <1>8, <2>1, NodeKinds
    <3>2. LoadNode(t) # <<>> /\ LoadNode(t)[1] = t
      BY <3>1, PlainLoads
    <3>3. Items(Kind(T) = "map", t) = [i \in DOMAIN nodes |-> Emit(nodes[i])]
      BY <2>1, <3>1 DEF Items
    <3>4. Items(Kind(T) = "map", t) = ShownItems(U, p)
      BY <1>5, <3>3 DEF ShownItems
    <3> QED
      BY <1>2, <1>4, <1>8, <2>1, <3>1, <3>2, <3>4 DEF IsTextOf, U, ks
  <2>2. CASE Kind(T) # "map"
    <3>1. t.kind = "seq" /\ t.nodes = nodes
      BY <1>4, <1>6, <1>8, <2>2, NodeKinds
    <3>2. LoadNode(t) # <<>> /\ LoadNode(t)[1] = t
      BY <3>1, PlainLoads
    <3>3. Items(Kind(T) = "map", t) = [i \in DOMAIN nodes |-> Emit(nodes[i])]
      BY <2>2, <3>1 DEF Items
    <3>4. Items(Kind(T) = "map", t) = ShownItems(U, p)
      BY <1>5, <3>3 DEF ShownItems
    <3> QED
      BY <1>2, <1>4, <1>8, <2>2, <3>2, <3>4 DEF IsTextOf, U, ks
  <2> QED
    BY <2>1, <2>2
<1> QED
  BY <1>7, <1>8

-----------------------------------------------------------------------------
(* What a container reads of what it showed.                               *)

\* The first place of k in s.
Place(s, k) == SelectInSeq(s, LAMBDA x : x = k)

LEMMA PlaceOf ==
  ASSUME NEW S, NEW s \in Seq(S), \A i, j \in 1..Len(s) : s[i] = s[j] => i = j,
         NEW i \in 1..Len(s), NEW k, k = s[i]
  PROVE  Place(s, k) = i
<1> DEFINE I == {j \in 1..Len(s) : s[j] = k}
<1>1. I = {i}
  OBVIOUS
<1>2. Min(I) = i
  <2>1. Min({i}) = i
    BY DEF Min
  <2> QED
    BY <1>1, <2>1
<1>3. Place(s, k) = IF I # {} THEN Min(I) ELSE 0
  BY DEF Place, SelectInSeq
<1> QED
  BY <1>1, <1>2, <1>3

Back(T, v) == FromStr(T, VarToString(T, v))
ReadBack(U, e) == FromStr(U, Shown(U, e))

LEMMA BackIs ==
  ASSUME NEW T \in Types, NEW v \in Values[T]
  PROVE  /\ VarToString(T, v) \in Texts[T]
         /\ Back(T, v) # <<>> => Back(T, v)[1] \in Values[T] /\ Back(T, v) = <<Back(T, v)[1]>>
<1>1. VarToString(T, v) \in Texts[T]
  BY ClosedAssumption
<1>2. Back(T, v) \in {<<>>} \cup {<<w>> : w \in Values[T]}
  BY <1>1, ClosedAssumption DEF Back
<1> QED
  BY <1>1, <1>2

LEMMA ContainerBack ==
  ASSUME NEW T \in Types, ~Basic(T), NEW v \in Values[T], ToStr(T, v) # <<>>,
         NEW t, t = VarToString(T, v), NEW p, p = Parts(Kind(T), v),
         NEW vs, vs = [i \in 1..Len(p) |-> ReadBack(Of(T), p[i])[1]]
  PROVE  /\ \A i \in 1..Len(p) : Shown(Of(T), p[i]) \in Texts[Of(T)]
         /\ Back(T, v) = <<>> <=> \E i \in 1..Len(p) : ReadBack(Of(T), p[i]) = <<>>
         /\ Back(T, v) # <<>> =>
              /\ Kind(T) = "list" => Back(T, v)[1] = vs
              /\ Kind(T) = "set" => Back(T, v)[1] = ToSet(vs)
              /\ Kind(T) = "map" =>
                   /\ DOMAIN Back(T, v)[1] = DOMAIN v
                   /\ \A i \in 1..Len(p) : Back(T, v)[1][Keys(Kind(T), v)[i]] = vs[i]
<1> DEFINE U == Of(T)
           node == LoadNode(t)[1]
           items == Items(Kind(T) = "map", node)
           ks == Keys(Kind(T), v)
<1>1. Len(p) \in Nat /\ Kind(T) \in {"list", "set", "map"} /\ (p = <<>> <=> Len(p) = 0)
  BY PartsFacts, TypeFacts
<1>2. t \in Texts[T]
  BY BackIs
<1>3. /\ LoadNode(t) # <<>>
      /\ items = ShownItems(U, p)
      /\ ~(Kind(T) = "map" /\ node.kind = "seq")
      /\ Kind(T) = "map" /\ p # <<>> => node.keys = ks
  <2>1. IsTextOf(Kind(T), ks, U, p, t)
    BY ItemsShown
  <2> QED
    BY <2>1 DEF IsTextOf
<1>4. DOMAIN items = 1..Len(p) /\ \A i \in 1..Len(p) : items[i] = Shown(U, p[i])
  BY <1>3 DEF ShownItems
<1>5. \A i \in 1..Len(p) : Shown(U, p[i]) \in Texts[U]
  <2>1. \A i \in DOMAIN items : items[i] \in Texts[U]
    BY <1>2, <1>3, TextsAssumption
  <2> QED
    BY <1>4, <2>1
<1>6. PICK conv : (\A x : conv[x] = FromStr(U, x)) /\ Back(T, v) = ReadItems(Kind(T), t, conv)
  BY <1>2, FromStrItems DEF Back
<1> DEFINE got == [i \in DOMAIN items |-> conv[items[i]]]
           ws == [i \in DOMAIN got |-> got[i][1]]
<1>7. DOMAIN got = 1..Len(p) /\ \A i \in 1..Len(p) : got[i] = ReadBack(U, p[i])
  BY <1>4, <1>6 DEF ReadBack
<1>8. Back(T, v) = IF <<>> \in ToSet(got) THEN <<>> ELSE <<Collect(Kind(T), node, ws)>>
  <2> HIDE DEF node
  <2>1. Back(T, v) = IF LoadNode(t) = <<>> \/ <<>> \in ToSet(got) \/ (Kind(T) = "map" /\ node.kind = "seq" /\ items # <<>>)
                     THEN <<>> ELSE <<Collect(Kind(T), node, ws)>>
    BY <1>6 DEF ReadItems, node
  <2> HIDE DEF items, ws, got
  <2> QED
    BY <1>3, <2>1
<1>9. <<>> \in ToSet(got) <=> \E i \in 1..Len(p) : ReadBack(U, p[i]) = <<>>
  <2> HIDE DEF got
  <2> QED
    BY <1>7 DEF ToSet
<1>10. ws = vs
  <2>1. ws = [i \in 1..Len(p) |-> got[i][1]]
    BY <1>7
  <2> HIDE DEF got
  <2>2. \A i \in 1..Len(p) : got[i][1] = ReadBack(U, p[i])[1]
    BY <1>7
  <2> HIDE DEF ws
  <2> QED
    BY <2>1, <2>2
<1> HIDE DEF got, ws, items
<1>11. Back(T, v) # <<>> => Back(T, v)[1] = Collect(Kind(T), node, vs)
  BY <1>8, <1>10
<1>12. Kind(T) = "map" =>
          /\ DOMAIN Collect(Kind(T), node, vs) = DOMAIN v
          /\ \A i \in 1..Len(p) : Collect(Kind(T), node, vs)[ks[i]] = vs[i]
  <2> SUFFICES ASSUME Kind(T) = "map"
               PROVE  /\ DOMAIN Collect(Kind(T), node, vs) = DOMAIN v
                      /\ \A i \in 1..Len(p) : Collect(Kind(T), node, vs)[ks[i]] = vs[i]
    OBVIOUS
  <2>1. /\ ks \in Seq(DOMAIN v) /\ ToSet(ks) = DOMAIN v /\ Len(ks) = Len(p)
        /\ \A i, j \in 1..Len(ks) : ks[i] = ks[j] => i = j
    BY PartsFacts
  <2>2. vs = <<>> <=> p = <<>>
    BY <1>1
  <2> HIDE DEF node, ks
  <2> DEFINE w == [k \in IF vs = <<>> THEN {} ELSE ToSet(node.keys) |->
                     vs[Place(node.keys, k)]]
  <2>3. Collect(Kind(T), node, vs) = w
    BY DEF Collect, Place
  <2>4. DOMAIN w = DOMAIN v
    <3>1. CASE p = <<>>
      <4>1. ks = <<>>
        BY <1>1, <2>1, <3>1
      <4>2. ToSet(ks) = {}
        BY <4>1 DEF ToSet
      <4> QED
        BY <2>1, <2>2, <3>1, <4>2
    <3>2. CASE p # <<>>
      BY <1>3, <2>1, <2>2, <3>2
    <3> QED
      BY <3>1, <3>2
  <2>5. ASSUME NEW i \in 1..Len(p) PROVE w[ks[i]] = vs[i]
    <3>1. p # <<>> /\ node.keys = ks
      BY <1>1, <1>3
    <3>2. ks[i] \in DOMAIN v
      BY <2>1
    <3>3. w[ks[i]] = vs[Place(ks, ks[i])]
      BY <2>4, <3>1, <3>2
    <3>4. Place(ks, ks[i]) = i
      BY <2>1, PlaceOf
    <3> QED
      BY <3>3, <3>4
  <2> HIDE DEF w
  <2> QED
    BY <2>3, <2>4, <2>5
<1>13. /\ Kind(T) = "list" => Collect(Kind(T), node, vs) = vs
       /\ Kind(T) = "set" => Collect(Kind(T), node, vs) = ToSet(vs)
  BY DEF Collect
<1> HIDE DEF node, ks
<1>14. Back(T, v) = <<>> <=> \E i \in 1..Len(p) : ReadBack(U, p[i]) = <<>>
  BY <1>8, <1>9
<1> QED
  BY <1>5, <1>11, <1>12, <1>13, <1>14 DEF ks, U

LEMMA NoItems ==
  /\ \A c : [i \in DOMAIN <<>> |-> c[<<>>[i]]] = <<>> /\ [i \in DOMAIN <<>> |-> c[i][1]] = <<>>
  /\ ToSet(<<>>) = {}
<1>1. ASSUME NEW c
      PROVE  [i \in DOMAIN <<>> |-> c[<<>>[i]]] = <<>> /\ [i \in DOMAIN <<>> |-> c[i][1]] = <<>>
  OBVIOUS
<1>2. DOMAIN <<>> = {}
  OBVIOUS
<1>3. ToSet(<<>>) = {}
  BY <1>2 DEF ToSet
<1> QED
  BY <1>1, <1>3

\* The text that a container with a garbled element has, and an empty one.
LEMMA EmptyBack ==
  ASSUME NEW T \in Types, ~Basic(T), Word("") \in Texts[T]
  PROVE  FromStr(T, Word("")) = <<Collect(Kind(T), Null, <<>>)>>
<1>1. PICK conv : \A text \in Texts[T] : FromStr(T, text) = ReadItems(Kind(T), text, conv)
  BY FromStrItems
<1>2. LoadNode(Word("")) # <<>> /\ LoadNode(Word(""))[1] = Null
  BY NullLoads
<1>3. Items(Kind(T) = "map", Null) = <<>>
  BY NodeKinds DEF Items
<1> DEFINE got == [i \in DOMAIN <<>> |-> conv[<<>>[i]]]
           back == [i \in DOMAIN got |-> got[i][1]]
<1>4. got = <<>>
  BY NoItems
<1>5. back = <<>>
  <2>1. [i \in DOMAIN <<>> |-> <<>>[i][1]] = <<>>
    BY NoItems
  <2> HIDE DEF got
  <2> QED
    BY <1>4, <2>1
<1>6. ToSet(got) = {}
  <2> HIDE DEF got
  <2> QED
    BY <1>4, NoItems
<1>7. ReadItems(Kind(T), Word(""), conv) = <<Collect(Kind(T), Null, back)>>
  BY <1>2, <1>3, <1>6 DEF ReadItems
<1> HIDE DEF got, back
<1> QED
  BY <1>1, <1>5, <1>7

LEMMA EmptyShown ==
  ASSUME NEW T \in Types, ~Basic(T), Collect(Kind(T), Null, <<>>) \in Values[T]
  PROVE  ToStr(T, Collect(Kind(T), Null, <<>>)) = <<Word("")>>
<1> DEFINE v == Collect(Kind(T), Null, <<>>)
           p == Parts(Kind(T), v)
<1>1. Kind(T) \in {"list", "set", "map"} /\ ToSet(<<>>) = {}
  BY TypeFacts DEF ToSet
<1>2. /\ Kind(T) = "list" => v = <<>>
      /\ Kind(T) = "set" => v = {}
      /\ Kind(T) = "map" => DOMAIN v = {}
  BY <1>1 DEF Collect
<1> HIDE DEF v
<1>3. p \in Seq(Values[Of(T)]) /\ Len(p) \in Nat
  BY PartsFacts DEF v
<1>4. Kind(T) = "list" => p = <<>>
  BY <1>2 DEF Parts
<1>5. Kind(T) = "set" => p = <<>>
  <2> SUFFICES ASSUME Kind(T) = "set" PROVE p = <<>>
    OBVIOUS
  <2>1. ToSet(p) = {}
    BY <1>2, PartsFacts DEF v
  <2> HIDE DEF p
  <2>2. Len(p) = 0
    <3> SUFFICES ASSUME Len(p) # 0 PROVE FALSE
      OBVIOUS
    <3>1. 1 \in 1..Len(p) /\ DOMAIN p = 1..Len(p)
      BY <1>3
    <3>2. p[1] \in ToSet(p)
      BY <3>1 DEF ToSet
    <3> QED
      BY <2>1, <3>2
  <2> QED
    BY <1>3, <2>2
<1>6. Kind(T) = "map" => p = <<>>
  <2> SUFFICES ASSUME Kind(T) = "map" PROVE p = <<>>
    OBVIOUS
  <2> DEFINE ks == Keys(Kind(T), v)
  <2>1. ks \in Seq(DOMAIN v) /\ Len(ks) = Len(p)
    BY PartsFacts DEF v
  <2> HIDE DEF ks, p
  <2>2. ks = <<>>
    BY <1>2, <2>1
  <2> QED
    BY <1>3, <2>1, <2>2
<1>7. ToStr(T, v) = IF \E i \in 1..Len(p) : Fails(Of(T), p[i]) THEN <<>>
                    ELSE <<IF p = <<>> THEN Word("") ELSE TextOf(Kind(T), Keys(Kind(T), v), Of(T), p)>>
  BY ToStrOf DEF v
<1> HIDE DEF p
<1>8. p = <<>> /\ 1..Len(<<>>) = {}
  BY <1>1, <1>4, <1>5, <1>6
<1>9. ~\E i \in 1..Len(p) : Fails(Of(T), p[i])
  BY <1>8
<1> HIDE DEF v
<1>10. ToStr(T, v) = <<Word("")>>
  BY <1>7, <1>8, <1>9
<1> QED
  BY <1>10 DEF v

LEMMA BasicText ==
  ASSUME NEW U \in Types, Basic(U), NEW e \in Values[U]
  PROVE  /\ ToStr(U, e) = <<VarToString(U, e)>> /\ ToStr(U, e) # <<>>
         /\ Kind(U) = "string" => VarToString(U, e) = e /\ Back(U, e) = <<e>>
         /\ Kind(U) # "string" => \E n : VarToString(U, e) = Numeral(n)
<1>1. /\ VarToString(U, e) \in Texts[U] /\ VarToString(U, e) = WriteBasic(Kind(U), e)
      /\ ToStr(U, e) = <<VarToString(U, e)>>
  BY BackIs, ToStrBasic
<1>2. Kind(U) = "string" => VarToString(U, e) = e /\ Back(U, e) = <<e>>
  BY <1>1, FromStrBasic DEF WriteBasic, ReadBasic, Back
<1>3. Kind(U) # "string" => \E n : VarToString(U, e) = Numeral(n)
  BY <1>1 DEF WriteBasic
<1>4. \A x : <<x>> # <<>>
  OBVIOUS
<1> QED
  BY <1>1, <1>2, <1>3, <1>4

LEMMA ElementBack ==
  ASSUME NEW U \in Types, NEW e \in Values[U], Shown(U, e) \in Texts[U], ~Fails(U, e)
  PROVE  /\ ReadBack(U, e) = IF Kind(U) = "string" THEN <<Shown(U, e)>> ELSE Back(U, e)
         /\ LoadNode(Shown(U, e)) = LoadNode(VarToString(U, e))
<1>1. VarToString(U, e) \in Texts[U] /\ VarToString(U, e).kind # "null"
  BY BackIs, TextsAssumption
<1>2. LoadNode(Shown(U, e)) = LoadNode(VarToString(U, e))
  BY <1>1, EmitLoads DEF Fails, Shown, NodeOf
<1>3. CASE Kind(U) = "string"
  <2>1. Basic(U)
    BY <1>3 DEF Basic, Kinds
  <2> QED
    BY <1>2, <1>3, <2>1, FromStrBasic DEF ReadBasic, ReadBack
<1>4. CASE Kind(U) # "string" /\ Basic(U)
  <2>1. Shown(U, e) = VarToString(U, e)
    <3>1. \E n : VarToString(U, e) = Numeral(n)
      BY <1>4, BasicText
    <3> QED
      BY <3>1, PlainLoads DEF Shown, NodeOf
  <2> QED
    BY <1>2, <1>4, <2>1 DEF ReadBack, Back
<1>5. CASE ~Basic(U)
  <2>1. Kind(U) # "string"
    BY <1>5 DEF Basic, Kinds
  <2>2. PICK conv : \A text \in Texts[U] : FromStr(U, text) = ReadItems(Kind(U), text, conv)
    BY <1>5, FromStrItems
  <2>3. ReadItems(Kind(U), Shown(U, e), conv) = ReadItems(Kind(U), VarToString(U, e), conv)
    BY <1>2 DEF ReadItems
  <2> QED
    BY <1>1, <1>2, <2>1, <2>2, <2>3 DEF ReadBack, Back
<1> QED
  BY <1>3, <1>4, <1>5

-----------------------------------------------------------------------------
(* Numbers: what is equal up to multiples of M.                            *)

Alike(x, y, M) == \E k \in Int : x = y + k * M

LEMMA ModIs ==
  ASSUME NEW M \in Nat \ {0}, NEW q \in Int, NEW r \in 0..M - 1
  PROVE  (q * M + r) % M = r /\ (q * M + r) \div M = q
OBVIOUS

LEMMA DivMod ==
  ASSUME NEW M \in Nat \ {0}, NEW x \in Int
  PROVE  /\ (x \div M) \in Int /\ (x % M) \in 0..M - 1
         /\ x = (x \div M) * M + (x % M)
OBVIOUS

LEMMA AlikeMod ==
  ASSUME NEW M \in Nat \ {0}, NEW x \in Int, NEW r \in 0..M - 1, Alike(x, r, M)
  PROVE  x % M = r
<1>1. PICK k \in Int : x = r + k * M
  BY DEF Alike
<1>2. k * M \in Int /\ x = k * M + r
  BY <1>1
<1> QED
  BY <1>2, ModIs

LEMMA AlikeDifference ==
  ASSUME NEW M \in Nat \ {0}, NEW x \in Int, NEW y \in Int, Alike(x, y, M)
  PROVE  (x - y) % M = 0
<1>1. PICK k \in Int : x = y + k * M
  BY DEF Alike
<1>2. k * M \in Int /\ x - y = k * M + 0 /\ 0 \in 0..M - 1
  BY <1>1
<1> QED
  BY <1>2, ModIs

LEMMA AlikeSteps ==
  ASSUME NEW M \in Nat \ {0}, NEW x \in Int, NEW y \in Int, NEW z \in Int,
         Alike(x, y, M), Alike(y, z, M)
  PROVE  Alike(x, z, M)
<1>1. PICK k \in Int : x = y + k * M
  BY DEF Alike
<1>2. PICK l \in Int : y = z + l * M
  BY DEF Alike
<1>3. (k + l) * M = k * M + l * M /\ k + l \in Int /\ k * M \in Int /\ l * M \in Int
  OBVIOUS
<1>4. x = z + (k + l) * M
  BY <1>1, <1>2, <1>3
<1> QED
  BY <1>3, <1>4 DEF Alike

LEMMA UnsignedFacts ==
  ASSUME NEW M \in Nat \ {0}, NEW n \in Int
  PROVE  /\ Unsigned(n, M) \in 0..M - 1 /\ Alike(Unsigned(n, M), n, M)
         /\ n \in 0..M - 1 => Unsigned(n, M) = n
<1>1. /\ (n \div M) \in Int /\ (n % M) \in 0..M - 1
      /\ n = (n \div M) * M + (n % M)
  BY DivMod
<1>2. PICK q \in Int, r \in 0..M - 1 : q = n \div M /\ r = n % M /\ n = q * M + r
  BY <1>1
<1>3. q * M \in Int /\ (-q) * M = -(q * M) /\ -q \in Int
  OBVIOUS
<1>4. r = n + (-q) * M
  BY <1>2, <1>3
<1>5. Alike(r, n, M)
  BY <1>3, <1>4 DEF Alike
<1>6. n \in 0..M - 1 => n % M = n
  OBVIOUS
<1> QED
  BY <1>2, <1>5, <1>6 DEF Unsigned

LEMMA SignedFacts ==
  ASSUME NEW M \in Nat \ {0}, M % 2 = 0, NEW n \in Int
  PROVE  /\ Signed(n, M) \in -(M \div 2)..M \div 2 - 1 /\ Alike(Signed(n, M), n, M)
         /\ n \in -(M \div 2)..M \div 2 - 1 => Signed(n, M) = n
<1> DEFINE h == M \div 2
<1>1. h \in Nat /\ M = 2 * h
  OBVIOUS
<1> HIDE DEF h
<1>2. n + h \in Int
  BY <1>1
<1> DEFINE u == Unsigned(n + h, M)
<1>3. u \in 0..M - 1 /\ Alike(u, n + h, M) /\ (n + h \in 0..M - 1 => u = n + h)
  BY <1>2, UnsignedFacts
<1> HIDE DEF u
<1>4. Signed(n, M) = u - h
  BY DEF Signed, u, h
<1>5. PICK k \in Int : u = (n + h) + k * M
  BY <1>3 DEF Alike
<1>6. u - h = n + k * M
  <2>1. k * M \in Int
    OBVIOUS
  <2> QED
    BY <1>1, <1>5, <2>1
<1>7. u - h \in -h..h - 1 /\ (n \in -h..h - 1 => u - h = n)
  BY <1>1, <1>3
<1> QED
  BY <1>4, <1>6, <1>7 DEF Alike, h

LEMMA LongIsMultiple == \E c \in Int : LongSize = c * IntSize
<1>1. IntSize \in Nat \ {0} /\ LongSize \in Nat \ {0} /\ LongSize % IntSize = 0
  BY NumbersAssumption
<1>2. /\ (LongSize \div IntSize) \in Int
      /\ LongSize = (LongSize \div IntSize) * IntSize + (LongSize % IntSize)
  BY <1>1, DivMod
<1>3. (LongSize \div IntSize) * IntSize \in Int
  BY <1>1, <1>2
<1>4. LongSize = (LongSize \div IntSize) * IntSize
  BY <1>1, <1>2, <1>3
<1> QED
  BY <1>2, <1>4

LEMMA AlikeInt ==
  ASSUME NEW x \in Int, NEW y \in Int, Alike(x, y, LongSize)
  PROVE  Alike(x, y, IntSize)
<1>1. IntSize \in Nat \ {0} /\ LongSize \in Nat \ {0} /\ LongSize % IntSize = 0
  BY NumbersAssumption
<1>2. PICK c \in Int : LongSize = c * IntSize
  BY LongIsMultiple
<1>3. PICK k \in Int : x = y + k * LongSize
  BY DEF Alike
<1>4. k * (c * IntSize) = (k * c) * IntSize /\ k * c \in Int
  BY <1>1
<1> QED
  BY <1>2, <1>3, <1>4 DEF Alike

LEMMA TruncFacts ==
  /\ \A n \in Int : Trunc(n) \in Int
  /\ \A v \in Int : v * One \in Int /\ Trunc(v * One) = v
<1>1. One \in Nat \ {0}
  BY NumbersAssumption
<1>2. ASSUME NEW n \in Int PROVE Trunc(n) \in Int
  <2>1. n \div One \in Int /\ (-n) \div One \in Int
    BY <1>1, DivMod
  <2> QED
    BY <2>1 DEF Trunc
<1>3. ASSUME NEW v \in Int PROVE v * One \in Int /\ Trunc(v * One) = v
  <2>1. /\ v * One \in Int /\ (-v) * One = -(v * One) /\ 0 \in 0..One - 1
        /\ (v >= 0 => v * One >= 0) /\ (v < 0 => v * One < 0)
    BY <1>1
  <2>2. (v * One + 0) \div One = v /\ ((-v) * One + 0) \div One = -v
    BY <1>1, <2>1, ModIs
  <2>3. v * One + 0 = v * One /\ (-v) * One + 0 = -(v * One)
    BY <2>1
  <2>4. (v * One) \div One = v /\ (-(v * One)) \div One = -v
    BY <2>2, <2>3
  <2> HIDE DEF Trunc
  <2>5. Trunc(v * One) = IF v * One >= 0 THEN v ELSE -(-v)
    BY <2>4 DEF Trunc
  <2> QED
    BY <2>1, <2>5
<1> QED
  BY <1>2, <1>3

-----------------------------------------------------------------------------
(* What a basic value becomes.                                             *)

LEMMA ReadNumeral ==
  ASSUME NEW n
  PROVE  /\ ReadNumber("int", Numeral(n)) = Stol(n, IntSize)
         /\ ReadNumber("long", Numeral(n)) = Stol(n, LongSize)
         /\ ReadNumber("uint", Numeral(n)) = ToUnsigned(n, IntSize)
         /\ ReadNumber("ulong", Numeral(n)) = ToUnsigned(n, LongSize)
         /\ ReadNumber("double", Numeral(n)) = <<n>>
<1>1. Numeral(n).kind = "scalar" /\ Numeral(n).num = <<n>>
  BY DEF Numeral, Scalar
<1>2. <<n>> # <<>> /\ <<n>>[1] = n
  OBVIOUS
<1> QED
  BY <1>1, <1>2 DEF ReadNumber

LEMMA EvenSizes == IntSize % 2 = 0 /\ LongSize % 2 = 0
<1>1. Alike(LongSize, 0, LongSize)
  <2>1. LongSize = 0 + 1 * LongSize
    BY NumbersAssumption
  <2> QED
    BY <2>1 DEF Alike
<1>2. PICK k \in Int : LongSize = 0 + k * IntSize
  BY <1>1, AlikeInt, NumbersAssumption DEF Alike
<1>3. PICK h \in Int : IntSize = 2 * h
  <2>1. IntSize = 2 * (IntSize \div 2) /\ IntSize \div 2 \in Int
    BY NumbersAssumption
  <2> QED
    BY <2>1
<1>4. k * (2 * h) = (k * h) * 2 /\ k * h \in Int
  OBVIOUS
<1>5. PICK l \in Int : LongSize = l * 2
  BY <1>2, <1>3, <1>4
<1> QED
  BY <1>5, NumbersAssumption

LEMMA StolIs ==
  ASSUME NEW M \in {IntSize, LongSize}, NEW v \in -(M \div 2)..M \div 2 - 1
  PROVE  Stol(v * One, M) = <<v>>
<1>1. M \in Nat \ {0} /\ M % 2 = 0
  BY EvenSizes, NumbersAssumption
<1>2. v \in Int
  BY <1>1
<1>3. Trunc(v * One) = v /\ Signed(v, M) = v
  BY <1>1, <1>2, TruncFacts, SignedFacts
<1> QED
  BY <1>3 DEF Stol

LEMMA ToUnsignedIs ==
  ASSUME NEW M \in {IntSize, LongSize}, NEW v \in 0..M - 1
  PROVE  ToUnsigned(v * One, M) = <<v>>
<1>1. M \in Nat \ {0} /\ LongSize \in Nat \ {0}
  BY NumbersAssumption
<1>2. v \in Int /\ v \in 0..LongSize - 1
  <2>1. IntSize <= LongSize
    <3>1. PICK c \in Int : LongSize = c * IntSize
      BY LongIsMultiple
    <3>2. c >= 1
      BY <3>1, NumbersAssumption
    <3> QED
      BY <3>1, <3>2, NumbersAssumption
  <2> QED
    BY <1>1, <2>1
<1>3. Trunc(v * One) = v
  BY <1>2, TruncFacts
<1>4. Stoul(v * One) = <<v>>
  <2>1. Unsigned(v, LongSize) = v
    BY <1>1, <1>2, UnsignedFacts
  <2>2. v \in -(LongSize - 1)..LongSize - 1
    BY <1>1, <1>2
  <2> QED
    BY <1>3, <2>1, <2>2 DEF Stoul
<1>5. Unsigned(Signed(v, M), M) = v
  <2>1. M % 2 = 0
    BY EvenSizes
  <2>2. Signed(v, M) \in Int /\ Alike(Signed(v, M), v, M)
    BY <1>1, <1>2, <2>1, SignedFacts
  <2> QED
    BY <1>1, <2>2, AlikeMod DEF Unsigned
<1>6. ToUnsigned(v * One, M) = [k \in 1..1 |-> v]
  BY <1>4, <1>5 DEF ToUnsigned
<1> QED
  BY <1>6

LEMMA RoundIs ==
  ASSUME NEW v \in Int
  PROVE  /\ ((v + 1) \div 3) * 3 \in Int
         /\ v % 3 = 0 => ((v + 1) \div 3) * 3 = v
         /\ ((((v + 1) \div 3) * 3 + 1) \div 3) * 3 = ((v + 1) \div 3) * 3
OBVIOUS

LEMMA BasicBack ==
  ASSUME NEW T \in Types, Basic(T), NEW v \in Values[T]
  PROVE  /\ Kind(T) \in Kinds
         /\ Kind(T) = "bool" => Back(T, v) = <<>>
         /\ Kind(T) = "double" => Back(T, v) = <<((v + 1) \div 3) * 3>> /\ v \in Int
         /\ Kind(T) \in Integral \cup {"string"} => Back(T, v) = <<v>>
<1>1. /\ VarToString(T, v) = WriteBasic(Kind(T), v)
      /\ Back(T, v) = ReadBasic(Kind(T), VarToString(T, v))
  BY BackIs, ToStrBasic, FromStrBasic DEF Back
<1>2. Kind(T) \in Kinds
  BY DEF Basic
<1>3. CASE Kind(T) = "bool"
  <2>1. PICK n : VarToString(T, v) = Numeral(n)
    BY <1>1, <1>3 DEF WriteBasic
  <2>2. Numeral(n).num = <<n>> /\ <<n>> # <<>>
    BY DEF Numeral, Scalar
  <2>3. Word("true").num = <<>> /\ Word("false").num = <<>>
    BY NodeKinds
  <2>4. ReadBool(VarToString(T, v)) = <<>>
    BY <2>1, <2>2, <2>3 DEF ReadBool
  <2> QED
    BY <1>1, <1>2, <1>3, <2>4 DEF ReadBasic, Integral
<1>4. CASE Kind(T) = "double"
  <2>1. v \in Int
    BY <1>4, ValuesAssumption
  <2>2. VarToString(T, v) = Numeral(((v + 1) \div 3) * 3)
    BY <1>1, <1>4 DEF WriteBasic
  <2>3. Back(T, v) = ReadNumber("double", VarToString(T, v))
    BY <1>1, <1>4 DEF ReadBasic
  <2> QED
    BY <1>2, <1>4, <2>1, <2>2, <2>3, ReadNumeral DEF Integral
<1>5. CASE Kind(T) \in Integral
  <2>1. /\ Kind(T) = "int" => v \in -(IntSize \div 2)..IntSize \div 2 - 1
        /\ Kind(T) = "long" => v \in -(LongSize \div 2)..LongSize \div 2 - 1
        /\ Kind(T) = "uint" => v \in 0..IntSize - 1
        /\ Kind(T) = "ulong" => v \in 0..LongSize - 1
    BY ValuesAssumption
  <2>2. VarToString(T, v) = Numeral(v * One) /\ Back(T, v) = ReadNumber(Kind(T), Numeral(v * One))
    BY <1>1, <1>5 DEF WriteBasic, ReadBasic, Integral
  <2>3. Kind(T) = "int" => Back(T, v) = <<v>>
    BY <2>1, <2>2, ReadNumeral, StolIs
  <2>4. Kind(T) = "long" => Back(T, v) = <<v>>
    BY <2>1, <2>2, ReadNumeral, StolIs
  <2>5. Kind(T) = "uint" => Back(T, v) = <<v>>
    BY <2>1, <2>2, ReadNumeral, ToUnsignedIs
  <2>6. Kind(T) = "ulong" => Back(T, v) = <<v>>
    BY <2>1, <2>2, ReadNumeral, ToUnsignedIs
  <2> QED
    BY <1>2, <1>5, <2>3, <2>4, <2>5, <2>6 DEF Integral
<1>6. CASE Kind(T) = "string"
  BY <1>2, <1>6, BasicText DEF Integral
<1> QED
  BY <1>2, <1>3, <1>4, <1>5, <1>6 DEF Kinds, Numeric

-----------------------------------------------------------------------------
(* Round trips.                                                            *)

\* What ToStr of T and v has when a string of it is no YAML.
Broken(T, v) == Base(T) = "string" /\ \E x \in Leaves(T, v) : LoadNode(x) = <<>>

TripOf(T, v) ==
  /\ Back(T, v) = <<>> <=> Base(T) = "bool" /\ Leaves(T, v) # {}
  /\ Exact(T, v) => Back(T, v) = <<v>>
  /\ ToStr(T, v) = <<>> <=> ~Basic(T) /\ Broken(T, v)
  /\ Back(T, v) # <<>> /\ "set" \notin ToSet(T) =>
       ToStr(T, Back(T, v)[1]) = <<VarToString(T, v)>>

LEMMA BasicTrip ==
  ASSUME NEW T \in Types, Basic(T), NEW v \in Values[T]
  PROVE  TripOf(T, v)
<1>1. Leaves(T, v) = {v} /\ Base(T) = Kind(T) /\ Kind(T) \in Kinds
  BY LeavesBasic, TypeFacts, BasicBack
<1>0. ToStr(T, v) # <<>> /\ ToStr(T, v) = <<VarToString(T, v)>>
  BY BasicText
<1>2. CASE Kind(T) = "bool"
  <2>1. Back(T, v) = <<>>
    BY <1>2, BasicBack
  <2>2. ~Exact(T, v)
    BY <1>1, <1>2 DEF Exact
  <2> QED
    BY <1>0, <1>1, <1>2, <2>1, <2>2 DEF TripOf
<1>3. CASE Kind(T) = "double"
  <2> DEFINE w == ((v + 1) \div 3) * 3
  <2>1. v \in Int /\ w \in Int /\ Back(T, v) = <<w>>
    BY <1>3, BasicBack, RoundIs
  <2>2. (v % 3 = 0 => w = v) /\ ((w + 1) \div 3) * 3 = w
    BY <2>1, RoundIs
  <2>3. Exact(T, v) => v % 3 = 0
    BY <1>1, <1>3 DEF Exact
  <2>4. <<w>> # <<>> /\ <<w>>[1] = w
    OBVIOUS
  <2>5. w \in Values[T]
    BY <2>1, <2>4, BackIs
  <2>6. VarToString(T, v) = Numeral(w) /\ ToStr(T, w) = <<Numeral(((w + 1) \div 3) * 3)>>
    <3>1. VarToString(T, v) = WriteBasic(Kind(T), v) /\ ToStr(T, w) = <<WriteBasic(Kind(T), w)>>
      BY <2>5, ToStrBasic
    <3> HIDE DEF w
    <3> QED
      BY <1>3, <3>1 DEF WriteBasic, w
  <2> HIDE DEF w
  <2>7. ToStr(T, Back(T, v)[1]) = <<VarToString(T, v)>>
    BY <2>1, <2>2, <2>4, <2>6
  <2> QED
    BY <1>0, <1>1, <1>3, <2>1, <2>2, <2>3, <2>4, <2>7 DEF TripOf
<1>4. CASE Kind(T) \in Integral \cup {"string"}
  <2>1. Back(T, v) = <<v>> /\ <<v>> # <<>> /\ <<v>>[1] = v
    BY <1>4, BasicBack
  <2>2. Base(T) # "bool"
    BY <1>1, <1>4 DEF Integral
  <2> QED
    BY <1>0, <2>1, <2>2 DEF TripOf
<1> QED
  BY <1>1, <1>2, <1>3, <1>4 DEF Kinds, Numeric

LEMMA ContainerTrip ==
  ASSUME NEW T \in Types, ~Basic(T), NEW v \in Values[T], ToStr(T, v) # <<>>,
         \A e \in Values[Of(T)] : TripOf(Of(T), e)
  PROVE  TripOf(T, v)
<1> DEFINE U == Of(T)
           p == Parts(Kind(T), v)
           n == Len(p)
           ks == Keys(Kind(T), v)
           vs == [i \in 1..n |-> ReadBack(U, p[i])[1]]
<1>1. /\ U \in Types /\ Base(U) = Base(T) /\ ToSet(U) \subseteq ToSet(T) /\ Kind(T) \in ToSet(T)
      /\ Kind(T) \in {"list", "set", "map"}
      /\ Basic(U) => Base(U) = Kind(U)
  BY TypeFacts
<1>2. n \in Nat /\ DOMAIN p = 1..n /\ \A i \in 1..n : p[i] \in Values[U]
  BY PartsFacts
<1>3. Leaves(T, v) = UNION {Leaves(U, p[i]) : i \in 1..n}
  <2>1. PICK c : /\ \A x : c[x] = Leaves(U, x)
                 /\ \A x \in Values[T] : Leaves(T, x) = UNION {c[e] : e \in ToSet(Parts(Kind(T), x))}
    BY LeavesItems
  <2>2. Leaves(T, v) = UNION {c[e] : e \in ToSet(p)}
    BY <2>1
  <2>3. ToSet(p) = {p[i] : i \in 1..n}
    BY <1>2 DEF ToSet
  <2> HIDE DEF p
  <2> QED
    BY <2>1, <2>2, <2>3
<1>4. \A i \in 1..n :
        /\ TripOf(U, p[i]) /\ ~Fails(U, p[i])
        /\ ReadBack(U, p[i]) = IF Kind(U) = "string" THEN <<Shown(U, p[i])>> ELSE Back(U, p[i])
        /\ LoadNode(Shown(U, p[i])) = LoadNode(VarToString(U, p[i]))
  <2>1. \A i \in 1..n : Shown(U, p[i]) \in Texts[U]
    BY ContainerBack
  <2>2. \A i \in 1..n : ~Fails(U, p[i])
    BY ItemsShown
  <2> QED
    BY <1>1, <1>2, <2>1, <2>2, ElementBack
<1>5. /\ Back(T, v) = <<>> <=> \E i \in 1..n : ReadBack(U, p[i]) = <<>>
      /\ Back(T, v) # <<>> =>
           /\ Kind(T) = "list" => Back(T, v)[1] = vs
           /\ Kind(T) = "set" => Back(T, v)[1] = ToSet(vs)
           /\ Kind(T) = "map" =>
                /\ DOMAIN Back(T, v)[1] = DOMAIN v
                /\ \A i \in 1..n : Back(T, v)[1][ks[i]] = vs[i]
  BY ContainerBack
<1>6. Kind(U) = "string" => Basic(U) /\ Base(T) = "string"
  BY <1>1 DEF Basic, Kinds
<1> HIDE DEF U, p, n, ks, vs
<1>7. Back(T, v) = <<>> <=> Base(T) = "bool" /\ Leaves(T, v) # {}
  <2>1. \A i \in 1..n : ReadBack(U, p[i]) = <<>> <=> Base(T) = "bool" /\ Leaves(U, p[i]) # {}
    <3> TAKE i \in 1..n
    <3>1. CASE Kind(U) = "string"
      <4>1. ReadBack(U, p[i]) # <<>>
        <5>1. ReadBack(U, p[i]) = <<Shown(U, p[i])>> /\ \A x : <<x>> # <<>>
          BY <1>4, <3>1
        <5> QED
          BY <5>1
      <4> QED
        BY <1>6, <3>1, <4>1
    <3>2. CASE Kind(U) # "string"
      BY <1>1, <1>4, <3>2 DEF TripOf
    <3> QED
      BY <3>1, <3>2
  <2>2. Leaves(T, v) # {} <=> \E i \in 1..n : Leaves(U, p[i]) # {}
    <3> DEFINE c(i) == Leaves(U, p[i])
    <3>1. Leaves(T, v) = UNION {c(i) : i \in 1..n}
      BY <1>3
    <3>2. \A i \in 1..n : c(i) = Leaves(U, p[i])
      OBVIOUS
    <3> HIDE DEF c
    <3>3. \A x : x \in UNION {c(i) : i \in 1..n} <=> \E i \in 1..n : x \in c(i)
      OBVIOUS
    <3>4. Leaves(T, v) # {} <=> \E i \in 1..n : c(i) # {}
      BY <3>1, <3>3
    <3> QED
      BY <3>2, <3>4
  <2> QED
    BY <1>5, <2>1, <2>2
<1>8. ASSUME Exact(T, v) PROVE Back(T, v) = <<v>>
  <2>1. ASSUME NEW i \in 1..n PROVE ReadBack(U, p[i]) = <<p[i]>>
    <3>1. Leaves(U, p[i]) \subseteq Leaves(T, v)
      BY <1>3
    <3>2. Exact(U, p[i])
      <4>1. ASSUME NEW x \in Leaves(U, p[i])
            PROVE  CASE Base(U) = "bool"   -> FALSE
                     [] Base(U) = "double" -> x % 3 = 0
                     [] Base(U) = "string" -> Basic(U) \/ (LoadNode(x) # <<>> /\ Emit(LoadNode(x)[1]) = x)
                     [] OTHER              -> TRUE
        BY <1>1, <1>8, <3>1 DEF Exact
      <4> QED
        BY <4>1 DEF Exact
    <3>3. Back(U, p[i]) = <<p[i]>>
      BY <1>4, <3>2 DEF TripOf
    <3>4. Kind(U) = "string" => Shown(U, p[i]) = p[i]
      <4> SUFFICES ASSUME Kind(U) = "string" PROVE Shown(U, p[i]) = p[i]
        OBVIOUS
      <4>1. Basic(U) /\ Base(T) = "string" /\ Leaves(U, p[i]) = {p[i]}
        BY <1>1, <1>2, <1>6, LeavesBasic
      <4>2. Emit(LoadNode(p[i])[1]) = p[i]
        BY <1>8, <3>1, <4>1 DEF Exact
      <4>3. VarToString(U, p[i]) = p[i]
        BY <1>1, <1>2, <4>1, BasicText
      <4> QED
        BY <4>2, <4>3 DEF Shown, NodeOf
    <3> QED
      BY <1>4, <3>3, <3>4
  <2>2. Back(T, v) # <<>> /\ Back(T, v) = <<Back(T, v)[1]>>
    <3>1. \A i \in 1..n : <<p[i]>> # <<>>
      OBVIOUS
    <3>2. Back(T, v) # <<>>
      BY <1>5, <2>1, <3>1
    <3> QED
      BY <3>2, BackIs
  <2>3. \A i \in 1..n : vs[i] = p[i]
    BY <2>1 DEF vs
  <2>4. vs = p
    <3>1. p = [i \in 1..n |-> p[i]]
      <4>1. p \in Seq(Values[U])
        BY PartsFacts DEF p, U
      <4> QED
        BY <4>1 DEF n
    <3>2. vs = [i \in 1..n |-> vs[i]]
      BY DEF vs
    <3> QED
      BY <2>3, <3>1, <3>2
  <2>5. Back(T, v)[1] = v
    <3>1. CASE Kind(T) = "list"
      BY <1>5, <2>2, <2>4, <3>1, PartsFacts DEF p
    <3>2. CASE Kind(T) = "set"
      BY <1>5, <2>2, <2>4, <3>2, PartsFacts DEF p
    <3>3. CASE Kind(T) = "map"
      <4> DEFINE w == Back(T, v)[1]
      <4>1. w \in Values[T]
        BY <2>2, BackIs
      <4>2. w = [k \in DOMAIN w |-> w[k]] /\ v = [k \in DOMAIN v |-> v[k]]
        BY <3>3, <4>1, ValuesAssumption
      <4>3. /\ DOMAIN w = DOMAIN v
            /\ \A i \in 1..n : w[ks[i]] = vs[i]
        BY <1>5, <2>2, <3>3
      <4>4. /\ ToSet(ks) = DOMAIN v /\ Len(ks) = n
            /\ DOMAIN ks = 1..Len(ks)
            /\ \A i \in 1..Len(ks) : p[i] = v[ks[i]]
        BY <3>3, PartsFacts DEF p, ks, n
      <4>5. ASSUME NEW k \in DOMAIN v PROVE w[k] = v[k]
        <5>1. PICK i \in 1..n : ks[i] = k
          BY <4>4 DEF ToSet
        <5> QED
          BY <2>3, <4>3, <4>4, <5>1
      <4> QED
        BY <4>2, <4>3, <4>5
    <3> QED
      BY <1>1, <3>1, <3>2, <3>3
  <2> QED
    BY <2>2, <2>5
<1>9. ASSUME Back(T, v) # <<>>, "set" \notin ToSet(T)
      PROVE  ToStr(T, Back(T, v)[1]) = <<VarToString(T, v)>>
  <2> DEFINE w == Back(T, v)[1]
             q == Parts(Kind(T), w)
  <2>1. w \in Values[T] /\ Kind(T) \in {"list", "map"} /\ "set" \notin ToSet(U)
    BY <1>1, <1>9, BackIs
  <2>2. q = vs /\ Keys(Kind(T), w) = ks
    <3>1. CASE Kind(T) = "list"
      BY <1>5, <1>9, <2>1, <3>1, PartsFacts DEF Keys, ks
    <3>2. CASE Kind(T) = "map"
      <4>1. DOMAIN w = DOMAIN v /\ \A i \in 1..n : w[ks[i]] = vs[i]
        BY <1>5, <1>9, <3>2
      <4>2. Keys(Kind(T), w) = ks
        BY <3>2, <4>1 DEF Keys, ks
      <4>3. Len(ks) = n
        BY <3>2, PartsFacts DEF ks, n, p
      <4>4. q \in Seq(Values[U]) /\ Len(q) = n /\ \A i \in 1..n : q[i] = w[ks[i]]
        BY <2>1, <3>2, <4>2, <4>3, PartsFacts DEF U
      <4>5. q = [i \in 1..n |-> q[i]] /\ vs = [i \in 1..n |-> vs[i]]
        BY <4>4 DEF vs
      <4>6. \A i \in 1..n : q[i] = vs[i]
        BY <4>1, <4>4
      <4> QED
        BY <4>2, <4>5, <4>6
    <3> QED
      BY <2>1, <3>1, <3>2
  <2>3. ASSUME NEW i \in 1..n
        PROVE  /\ ~Fails(U, vs[i])
               /\ LoadNode(VarToString(U, vs[i])) = LoadNode(VarToString(U, p[i]))
    <3>1. vs[i] = ReadBack(U, p[i])[1] /\ ~Fails(U, p[i])
      BY <1>4 DEF vs
    <3>2. \A x : <<x>>[1] = x /\ <<x>> # <<>>
      OBVIOUS
    <3>3. CASE Kind(U) = "string"
      <4>1. vs[i] = Shown(U, p[i]) /\ Basic(U)
        BY <1>4, <1>6, <3>1, <3>2, <3>3
      <4>2. vs[i] \in Values[U]
        <5>1. q \in Seq(Values[U]) /\ Len(q) = n
          <6>1. q \in Seq(Values[U])
            BY <2>1, PartsFacts DEF U
          <6>2. Len(vs) = n
            BY <1>2 DEF vs
          <6> QED
            BY <2>2, <6>1, <6>2
        <5> QED
          BY <2>2, <5>1
      <4>3. ToStr(U, vs[i]) # <<>> /\ VarToString(U, vs[i]) = vs[i]
        BY <1>1, <3>3, <4>1, <4>2, BasicText
      <4> QED
        BY <1>4, <3>1, <4>1, <4>3 DEF Fails
    <3>4. CASE Kind(U) # "string"
      <4>1. vs[i] = Back(U, p[i])[1] /\ Back(U, p[i]) # <<>>
        BY <1>4, <1>5, <1>9, <3>1, <3>4
      <4>2. ToStr(U, vs[i]) = <<VarToString(U, p[i])>>
        BY <1>4, <2>1, <4>1 DEF TripOf
      <4>3. ToStr(U, vs[i]) # <<>> /\ VarToString(U, vs[i]) = VarToString(U, p[i])
        BY <3>2, <4>2 DEF VarToString
      <4> QED
        BY <3>1, <4>3 DEF Fails
    <3> QED
      BY <3>3, <3>4
  <2>4. vs = <<>> <=> p = <<>>
    <3>1. Len(vs) = n
      BY <1>2 DEF vs
    <3>2. p \in Seq(Values[U]) /\ n = Len(p)
      BY PartsFacts DEF p, U, n
    <3>3. vs \in Seq(Values[U])
      BY <2>1, <2>2, PartsFacts DEF U
    <3> QED
      BY <3>1, <3>2, <3>3
  <2>5. TextOf(Kind(T), ks, U, vs) = TextOf(Kind(T), ks, U, p)
    <3>1. Len(vs) = n /\ Len(p) = n
      BY <1>2 DEF vs, n
    <3>2. [i \in 1..Len(vs) |-> NodeOf(U, vs[i])] = [i \in 1..Len(p) |-> NodeOf(U, p[i])]
      BY <2>3, <3>1 DEF NodeOf
    <3> QED
      BY <3>2 DEF TextOf
  <2>6. VarToString(T, v) = IF p = <<>> THEN Word("") ELSE TextOf(Kind(T), ks, U, p)
    <3>1. IsTextOf(Kind(T), ks, U, p, VarToString(T, v))
      BY ItemsShown DEF p, ks, U
    <3> QED
      BY <3>1 DEF IsTextOf
  <2>7. ToStr(T, w) = <<IF vs = <<>> THEN Word("") ELSE TextOf(Kind(T), ks, U, vs)>>
    <3>1. ToStr(T, w) = IF \E i \in 1..Len(vs) : Fails(U, vs[i]) THEN <<>>
                        ELSE <<IF vs = <<>> THEN Word("") ELSE TextOf(Kind(T), ks, U, vs)>>
      BY <2>1, <2>2, ToStrOf DEF U
    <3>2. Len(vs) = n
      BY <1>2 DEF vs
    <3> QED
      BY <2>3, <3>1, <3>2
  <2> QED
    BY <2>4, <2>5, <2>6, <2>7
<1>10. ~Broken(T, v)
  <2>1. ASSUME Base(T) = "string", NEW i \in 1..n, NEW x \in Leaves(U, p[i]), LoadNode(x) = <<>>
        PROVE  Fails(U, p[i])
    <3>1. CASE Basic(U)
      <4>1. x = p[i] /\ Kind(U) = "string"
        BY <1>1, <1>2, <2>1, <3>1, LeavesBasic
      <4>2. VarToString(U, p[i]) = p[i]
        BY <1>1, <1>2, <3>1, <4>1, BasicText
      <4> QED
        BY <2>1, <4>1, <4>2 DEF Fails
    <3>2. CASE ~Basic(U)
      BY <1>1, <1>4, <2>1, <3>2 DEF TripOf, Broken, Fails
    <3> QED
      BY <3>1, <3>2
  <2> QED
    BY <1>3, <1>4, <2>1 DEF Broken
<1> QED
  BY <1>7, <1>8, <1>9, <1>10 DEF TripOf

\* An element fails.
LEMMA FailedTrip ==
  ASSUME NEW T \in Types, ~Basic(T), NEW v \in Values[T], ToStr(T, v) = <<>>,
         \A e \in Values[Of(T)] : TripOf(Of(T), e)
  PROVE  /\ TripOf(T, v)
         /\ VarToString(T, v) = Word("") /\ Back(T, v) = <<Collect(Kind(T), Null, <<>>)>>
<1> DEFINE U == Of(T)
           p == Parts(Kind(T), v)
           n == Len(p)
           w == Collect(Kind(T), Null, <<>>)
<1>1. U \in Types /\ Base(U) = Base(T) /\ (Basic(U) => Base(U) = Kind(U))
  BY TypeFacts
<1>2. n \in Nat /\ DOMAIN p = 1..n /\ \A i \in 1..n : p[i] \in Values[U]
  BY PartsFacts
<1>3. \A i \in 1..n : Leaves(U, p[i]) \subseteq Leaves(T, v)
  <2>1. PICK c : /\ \A x : c[x] = Leaves(U, x)
                 /\ Leaves(T, v) = UNION {c[e] : e \in ToSet(p)}
    BY LeavesItems
  <2>2. \A i \in 1..n : p[i] \in ToSet(p)
    BY <1>2 DEF ToSet
  <2> HIDE DEF p
  <2> QED
    BY <2>1, <2>2
<1>4. PICK i \in 1..n : Fails(U, p[i])
  <2>1. ToStr(T, v) = IF \E i \in 1..n : Fails(U, p[i]) THEN <<>>
                      ELSE <<IF p = <<>> THEN Word("") ELSE TextOf(Kind(T), Keys(Kind(T), v), U, p)>>
    BY ToStrOf
  <2>2. \A x : <<x>> # <<>>
    OBVIOUS
  <2> HIDE DEF p, n, U
  <2> QED
    BY <2>1, <2>2
<1>5. TripOf(U, p[i])
  BY <1>2, <1>4
<1> HIDE DEF U, p, n
<1>6. Broken(U, p[i])
  <2>1. CASE Basic(U)
    <3>1. p[i] \in Values[U] /\ ToStr(U, p[i]) # <<>> /\ LoadNode(VarToString(U, p[i])) = <<>>
      BY <1>1, <1>2, <1>4, <2>1, BasicText DEF Fails
    <3>2. Kind(U) = "string"
      <4>1. ~ \E m : VarToString(U, p[i]) = Numeral(m)
        BY <3>1, PlainLoads
      <4> QED
        BY <1>1, <2>1, <3>1, <4>1, BasicText
    <3>3. VarToString(U, p[i]) = p[i] /\ Leaves(U, p[i]) = {p[i]}
      BY <1>1, <2>1, <3>1, <3>2, BasicText, LeavesBasic
    <3> QED
      BY <1>1, <2>1, <3>1, <3>2, <3>3 DEF Broken
  <2>2. CASE ~Basic(U)
    <3>1. CASE ToStr(U, p[i]) = <<>>
      BY <1>5, <2>2, <3>1 DEF TripOf
    <3>2. CASE ToStr(U, p[i]) # <<>>
      <4>1. IsTextOf(Kind(U), Keys(Kind(U), p[i]), Of(U), Parts(Kind(U), p[i]), VarToString(U, p[i]))
        BY <1>1, <1>2, <1>4, <2>2, <3>2, ItemsShown
      <4> QED
        BY <1>4, <3>2, <4>1 DEF IsTextOf, Fails
    <3> QED
      BY <3>1, <3>2
  <2> QED
    BY <2>1, <2>2
<1>7. Broken(T, v) /\ ~Exact(T, v) /\ Base(T) # "bool"
  <2>1. PICK x \in Leaves(U, p[i]) : LoadNode(x) = <<>>
    BY <1>6 DEF Broken
  <2>2. x \in Leaves(T, v) /\ Base(T) = "string"
    BY <1>1, <1>3, <1>4, <1>6, <2>1 DEF Broken
  <2> QED
    BY <2>1, <2>2 DEF Broken, Exact
<1>8. VarToString(T, v) = Word("")
  BY DEF VarToString
<1>9. Word("") \in Texts[T]
  BY <1>8, BackIs
<1>10. Back(T, v) = <<w>>
  BY <1>8, <1>9, EmptyBack DEF Back
<1> HIDE DEF w
<1>11. <<w>> # <<>> /\ <<w>>[1] = w
  OBVIOUS
<1>12. w \in Values[T]
  BY <1>10, <1>11, BackIs
<1>13. ToStr(T, w) = <<Word("")>>
  BY <1>12, EmptyShown DEF w
<1>14. TripOf(T, v)
  BY <1>7, <1>8, <1>10, <1>11, <1>13 DEF TripOf
<1> QED
  BY <1>8, <1>10, <1>14 DEF w

LEMMA EveryTrip ==
  ASSUME NEW T \in Types, NEW v \in Values[T]
  PROVE  TripOf(T, v)
<1> DEFINE I == {n \in Nat : \A U \in Upto(n) : \A e \in Values[U] : TripOf(U, e)}
<1>1. 0 \in I
  BY TypeFacts DEF Upto
<1>2. ASSUME NEW n \in I PROVE n + 1 \in I
  <2>1. ASSUME NEW U \in Upto(n + 1), NEW e \in Values[U] PROVE TripOf(U, e)
    <3>1. U \in Types /\ (~Basic(U) => Of(U) \in Upto(n))
      BY UptoNext
    <3>2. CASE Basic(U)
      BY <3>1, <3>2, BasicTrip
    <3>3. CASE ~Basic(U)
      <4>1. \A x \in Values[Of(U)] : TripOf(Of(U), x)
        BY <3>1, <3>3
      <4> QED
        BY <3>1, <3>3, <4>1, ContainerTrip, FailedTrip
    <3> QED
      BY <3>2, <3>3
  <2> QED
    BY <2>1
<1>3. I \in SUBSET Nat
  OBVIOUS
<1> HIDE DEF I
<1>4. I = Nat
  BY <1>1, <1>2, <1>3, EveryNumber
<1>5. PICK n \in Nat : Upto(n) = Types
  BY UptoAll
<1> QED
  BY <1>4, <1>5 DEF I

-----------------------------------------------------------------------------
(* FlattenSeq, sequence by sequence.                                       *)

Joins(ss, n, f) == f = [i \in 1..n |-> IF i = 1 THEN ss[i] ELSE f[i - 1] \o ss[i]]

LEMMA JoinsExist ==
  ASSUME NEW ss, NEW n \in Nat
  PROVE  \E f : Joins(ss, n, f)
<1> DEFINE I == {m \in Nat : \E f : Joins(ss, m, f)}
<1>1. 0 \in I
  <2>1. Joins(ss, 0, [i \in {} |-> i])
    BY DEF Joins
  <2> QED
    BY <2>1
<1>2. ASSUME NEW m \in I PROVE m + 1 \in I
  <2>1. PICK f : Joins(ss, m, f)
    OBVIOUS
  <2> DEFINE join(i) == IF i = 1 THEN ss[i] ELSE f[i - 1] \o ss[i]
             g == [i \in 1..m + 1 |-> join(i)]
  <2>2. \A i \in 1..m : f[i] = join(i)
    BY <2>1 DEF Joins
  <2>3. ASSUME NEW i \in 1..m + 1 PROVE g[i] = IF i = 1 THEN ss[i] ELSE g[i - 1] \o ss[i]
    <3>1. i # 1 => i - 1 \in 1..m /\ i - 1 \in 1..m + 1
      BY <2>2
    <3>2. i # 1 => g[i - 1] = f[i - 1]
      <4> HIDE DEF join
      <4> QED
        BY <2>2, <3>1
    <3> QED
      BY <3>2
  <2>4. g = [i \in 1..m + 1 |-> g[i]]
    OBVIOUS
  <2> HIDE DEF g
  <2>5. Joins(ss, m + 1, g)
    BY <2>3, <2>4 DEF Joins
  <2> QED
    BY <2>5
<1>3. I \in SUBSET Nat
  OBVIOUS
<1> HIDE DEF I
<1>4. I = Nat
  BY <1>1, <1>2, <1>3, EveryNumber
<1> QED
  BY <1>4 DEF I

\* f has what comes of the first k sequences of ss, for each k.
Steps(S, ss, f) ==
  /\ f[0] = <<>> /\ f[Len(ss)] = FlattenSeq(ss)
  /\ \A k \in 1..Len(ss) : f[k] = f[k - 1] \o ss[k]
  /\ \A k \in 0..Len(ss) : f[k] \in Seq(S)

LEMMA FlattenSteps ==
  ASSUME NEW S, NEW ss \in Seq(Seq(S))
  PROVE  \E f : Steps(S, ss, f)
<1> DEFINE n == Len(ss)
           g == CHOOSE f : Joins(ss, n, f)
           f == [k \in 0..n |-> IF k = 0 THEN <<>> ELSE g[k]]
<1>1. n \in Nat /\ \A k \in 1..n : ss[k] \in Seq(S)
  OBVIOUS
<1>2. Joins(ss, n, g)
  BY <1>1, JoinsExist
<1>3. n # 0 => FlattenSeq(ss) = g[n]
  BY DEF FlattenSeq, Joins
<1>4. n = 0 => FlattenSeq(ss) = <<>>
  BY DEF FlattenSeq
<1> HIDE DEF g
<1>5. f[0] = <<>> /\ f[n] = FlattenSeq(ss)
  BY <1>1, <1>3, <1>4
<1>6. \A k \in 1..n : f[k] = g[k] /\ g[k] = IF k = 1 THEN ss[k] ELSE g[k - 1] \o ss[k]
  <2>1. \A k \in 1..n : f[k] = g[k]
    BY <1>1
  <2> HIDE DEF f
  <2>2. \A k \in 1..n : g[k] = IF k = 1 THEN ss[k] ELSE g[k - 1] \o ss[k]
    BY <1>2 DEF Joins
  <2> QED
    BY <2>1, <2>2
<1> HIDE DEF f
<1>7. ASSUME NEW k \in 1..n PROVE f[k] = f[k - 1] \o ss[k]
  <2>1. CASE k = 1
    <3>1. f[k] = ss[k] /\ f[k - 1] = <<>> /\ ss[k] \in Seq(S)
      <4>1. k - 1 = 0
        BY <2>1
      <4> QED
        BY <1>1, <1>5, <1>6, <2>1, <4>1
    <3> QED
      BY <3>1, ConcatEmptySeq
  <2>2. CASE k # 1
    <3>1. k - 1 \in 1..n
      BY <1>1, <2>2
    <3> QED
      BY <1>6, <2>2, <3>1
  <2> QED
    BY <2>1, <2>2
<1> DEFINE I == {k \in Nat : k <= n => f[k] \in Seq(S)}
<1>8. 0 \in I
  <2>1. <<>> \in Seq(S)
    OBVIOUS
  <2> QED
    BY <1>5, <2>1
<1>9. ASSUME NEW k \in I PROVE k + 1 \in I
  <2> SUFFICES ASSUME k + 1 <= n PROVE f[k + 1] \in Seq(S)
    OBVIOUS
  <2>1. k + 1 \in 1..n /\ (k + 1) - 1 = k /\ f[k] \in Seq(S)
    BY <1>1
  <2>2. f[k + 1] = f[k] \o ss[k + 1] /\ ss[k + 1] \in Seq(S)
    BY <1>1, <1>7, <2>1
  <2> QED
    BY <2>1, <2>2, ConcatProperties
<1>10. I \in SUBSET Nat
  OBVIOUS
<1> HIDE DEF I
<1>11. I = Nat
  BY <1>8, <1>9, <1>10, EveryNumber
<1>12. \A k \in 0..n : f[k] \in Seq(S)
  BY <1>1, <1>11 DEF I
<1> QED
  BY <1>5, <1>7, <1>12 DEF Steps

-----------------------------------------------------------------------------
(* The list of the nodes of a document, and those of one name.             *)

\* What comes below a node, where f has the lists of its items.
Below(prefix, node, f) ==
  IF node.kind # "map" THEN <<>>
  ELSE FlattenSeq([i \in DOMAIN node.keys |-> f[node.nodes[i]][ItemName(prefix, node.keys[i])]])

\* ListAllMenbers of a node whose items have the lists f.
ListAs(node, f) ==
  [prefix \in Seq(STRING) |->
     IF ~(ToSet(prefix) \subseteq Lower) THEN <<>>
     ELSE <<[name |-> prefix, node |-> node]>> \o Below(prefix, node, f)]

LEMMA ListAsAgree ==
  ASSUME NEW node, NEW f, NEW g,
         node.kind = "map" => \A i \in DOMAIN node.keys : f[node.nodes[i]] = g[node.nodes[i]]
  PROVE  ListAs(node, f) = ListAs(node, g)
<1>1. ASSUME NEW prefix PROVE Below(prefix, node, f) = Below(prefix, node, g)
  <2>1. CASE node.kind # "map"
    BY <2>1 DEF Below
  <2>2. CASE node.kind = "map"
    <3>1. [i \in DOMAIN node.keys |-> f[node.nodes[i]][ItemName(prefix, node.keys[i])]]
            = [i \in DOMAIN node.keys |-> g[node.nodes[i]][ItemName(prefix, node.keys[i])]]
      BY <2>2
    <3> QED
      BY <2>2, <3>1 DEF Below
  <2> QED
    BY <2>1, <2>2
<1> QED
  BY <1>1 DEF ListAs

\* Nodes with fewer than n levels below them.
Lowest(n) == {node \in Nodes : Height[node] < n}

LEMMA LowestNext ==
  ASSUME NEW n \in Nat, NEW node \in Lowest(n + 1)
  PROVE  /\ node \in Nodes
         /\ node.kind = "map" => \A i \in DOMAIN node.keys :
                                   node.nodes[i] \in Lowest(n) /\ node.nodes[i] \in Lowest(n + 1)
<1>1. node \in Nodes /\ Height[node] \in Nat /\ Height[node] < n + 1
  BY DocumentsAssumption DEF Lowest
<1>2. ASSUME node.kind = "map", NEW i \in DOMAIN node.keys
      PROVE  node.nodes[i] \in Lowest(n) /\ node.nodes[i] \in Lowest(n + 1)
  <2>1. node.nodes[i] \in Nodes /\ Height[node.nodes[i]] < Height[node]
    BY <1>1, <1>2, DocumentsAssumption
  <2>2. Height[node.nodes[i]] \in Nat
    BY <2>1, DocumentsAssumption
  <2> QED
    BY <1>1, <2>1, <2>2 DEF Lowest
<1> QED
  BY <1>1, <1>2

LEMMA LowestNone == Lowest(0) = {}
<1>1. \A node \in Nodes : Height[node] \in Nat
  BY DocumentsAssumption
<1> QED
  BY <1>1 DEF Lowest

LEMMA LowestAll == \E n \in Nat : Lowest(n) = Nodes
<1>1. IsFiniteSet(Nodes) /\ \A node \in Nodes : Height[node] \in Nat
  BY DocumentsAssumption
<1>2. PICK n \in Nat : \A node \in Nodes : Height[node] <= n
  BY <1>1, RankBound
<1>3. Lowest(n + 1) = Nodes
  BY <1>1, <1>2 DEF Lowest
<1> QED
  BY <1>3

LEMMA ListsExist ==
  ASSUME NEW n \in Nat
  PROVE  \E f : f = [node \in Lowest(n) |-> ListAs(node, f)]
<1> DEFINE I == {k \in Nat : \E f : f = [node \in Lowest(k) |-> ListAs(node, f)]}
<1>1. 0 \in I
  <2> DEFINE f == [node \in {} |-> node]
  <2>1. f = [node \in Lowest(0) |-> ListAs(node, f)]
    BY LowestNone
  <2> QED
    BY <2>1
<1>2. ASSUME NEW k \in I PROVE k + 1 \in I
  <2>1. PICK f : f = [node \in Lowest(k) |-> ListAs(node, f)]
    OBVIOUS
  <2> DEFINE g == [node \in Lowest(k + 1) |-> ListAs(node, f)]
  <2>2. \A node \in Lowest(k) \cap Lowest(k + 1) : g[node] = f[node]
    BY <2>1
  <2>3. ASSUME NEW node \in Lowest(k + 1) PROVE g[node] = ListAs(node, g)
    <3>1. node.kind = "map" => \A i \in DOMAIN node.keys : f[node.nodes[i]] = g[node.nodes[i]]
      <4> HIDE DEF g
      <4> QED
        BY <2>2, LowestNext
    <3>2. g[node] = ListAs(node, f)
      OBVIOUS
    <3> HIDE DEF g
    <3> QED
      BY <3>1, <3>2, ListAsAgree
  <2>4. g = [node \in Lowest(k + 1) |-> g[node]]
    OBVIOUS
  <2> HIDE DEF g
  <2>5. g = [node \in Lowest(k + 1) |-> ListAs(node, g)]
    BY <2>3, <2>4
  <2> QED
    BY <2>5
<1>3. I \in SUBSET Nat
  OBVIOUS
<1> HIDE DEF I
<1>4. I = Nat
  BY <1>1, <1>2, <1>3, EveryNumber
<1> QED
  BY <1>4 DEF I

\* The lists of the items of a map.
ItemLists(prefix, node) ==
  [i \in DOMAIN node.keys |-> ListAllMenbers(ItemName(prefix, node.keys[i]), node.nodes[i])]

LEMMA Listing ==
  ASSUME NEW node \in Nodes, NEW prefix \in Seq(STRING)
  PROVE  ListAllMenbers(prefix, node) =
           IF ~(ToSet(prefix) \subseteq Lower) THEN <<>>
           ELSE <<[name |-> prefix, node |-> node]>> \o
                (IF node.kind # "map" THEN <<>> ELSE FlattenSeq(ItemLists(prefix, node)))
<1> DEFINE list == CHOOSE f : f = [x \in Nodes |-> ListAs(x, f)]
<1>1. \E f : f = [x \in Nodes |-> ListAs(x, f)]
  BY LowestAll, ListsExist
<1>2. list = [x \in Nodes |-> ListAs(x, list)]
  BY <1>1
<1>3. \A x, p : ListAllMenbers(p, x) = list[x][p]
  BY DEF ListAllMenbers, ListAs, Below
<1> HIDE DEF list
<1>4. ListAllMenbers(prefix, node) = ListAs(node, list)[prefix]
  BY <1>2, <1>3
<1>5. Below(prefix, node, list) = IF node.kind # "map" THEN <<>> ELSE FlattenSeq(ItemLists(prefix, node))
  <2>1. ItemLists(prefix, node)
          = [i \in DOMAIN node.keys |-> list[node.nodes[i]][ItemName(prefix, node.keys[i])]]
    BY <1>3 DEF ItemLists
  <2> QED
    BY <2>1 DEF Below
<1> QED
  BY <1>4, <1>5 DEF ListAs

Entry == [name : Seq(STRING), node : Nodes]

LEMMA MapItems ==
  ASSUME NEW node \in Nodes, node.kind = "map", NEW prefix \in Seq(STRING)
  PROVE  /\ Len(node.keys) \in Nat /\ DOMAIN node.keys = 1..Len(node.keys)
         /\ \A i \in 1..Len(node.keys) :
              /\ node.nodes[i] \in Nodes
              /\ node.keys[i] \in Seq(STRING) /\ node.keys[i] # <<>>
              /\ ItemName(prefix, node.keys[i]) \in Seq(STRING)
              /\ ItemName(prefix, node.keys[i]) = prefix \o node.keys[i]
         /\ ItemLists(prefix, node)
              = [i \in 1..Len(node.keys) |-> ListAllMenbers(ItemName(prefix, node.keys[i]), node.nodes[i])]
<1>1. /\ node.keys \in Seq(Seq(STRING))
      /\ \A i \in DOMAIN node.keys : node.nodes[i] \in Nodes /\ node.keys[i] # <<>>
  BY DocumentsAssumption
<1>2. Len(node.keys) \in Nat /\ DOMAIN node.keys = 1..Len(node.keys)
  BY <1>1
<1>3. ASSUME NEW i \in 1..Len(node.keys)
      PROVE  /\ node.nodes[i] \in Nodes /\ node.keys[i] \in Seq(STRING) /\ node.keys[i] # <<>>
             /\ prefix \o node.keys[i] \in Seq(STRING)
  <2>1. node.nodes[i] \in Nodes /\ node.keys[i] \in Seq(STRING) /\ node.keys[i] # <<>>
    BY <1>1, <1>2
  <2> QED
    BY <2>1, ConcatProperties
<1> QED
  BY <1>1, <1>2, <1>3 DEF ItemName, ItemLists

LEMMA ListType ==
  ASSUME NEW node \in Nodes, NEW prefix \in Seq(STRING)
  PROVE  ListAllMenbers(prefix, node) \in Seq(Entry)
<1> DEFINE Good(x) == \A p \in Seq(STRING) : ListAllMenbers(p, x) \in Seq(Entry)
           I == {n \in Nat : \A x \in Lowest(n) : Good(x)}
<1>1. 0 \in I
  BY LowestNone
<1>2. ASSUME NEW n \in I PROVE n + 1 \in I
  <2>1. ASSUME NEW x \in Lowest(n + 1), NEW p \in Seq(STRING)
        PROVE  ListAllMenbers(p, x) \in Seq(Entry)
    <3>1. /\ x \in Nodes
          /\ x.kind = "map" => \A i \in DOMAIN x.keys : Good(x.nodes[i])
      BY LowestNext
    <3> HIDE DEF Good
    <3>2. /\ <<>> \in Seq(Entry)
          /\ <<[name |-> p, node |-> x]>> \in Seq(Entry)
      BY <3>1 DEF Entry
    <3>3. x.kind = "map" => FlattenSeq(ItemLists(p, x)) \in Seq(Entry)
      <4> SUFFICES ASSUME x.kind = "map" PROVE FlattenSeq(ItemLists(p, x)) \in Seq(Entry)
        OBVIOUS
      <4>1. ASSUME NEW i \in 1..Len(x.keys)
            PROVE  ListAllMenbers(ItemName(p, x.keys[i]), x.nodes[i]) \in Seq(Entry)
        BY <3>1, MapItems DEF Good
      <4>2. ItemLists(p, x) \in Seq(Seq(Entry))
        <5> DEFINE items == [i \in 1..Len(x.keys) |-> ListAllMenbers(ItemName(p, x.keys[i]), x.nodes[i])]
        <5>1. Len(x.keys) \in Nat /\ ItemLists(p, x) = items
          BY <3>1, MapItems
        <5>2. items \in Seq(Seq(Entry))
          BY <4>1, <5>1
        <5> QED
          BY <5>1, <5>2
      <4>3. PICK f : Steps(Entry, ItemLists(p, x), f)
        BY <4>2, FlattenSteps
      <4>4. Len(ItemLists(p, x)) \in 0..Len(ItemLists(p, x))
        BY <4>2
      <4> QED
        BY <4>3, <4>4 DEF Steps
    <3> QED
      BY <3>1, <3>2, <3>3, Listing, ConcatProperties
  <2> QED
    BY <2>1
<1>3. I \in SUBSET Nat
  OBVIOUS
<1> HIDE DEF I
<1>4. I = Nat
  BY <1>1, <1>2, <1>3, EveryNumber
<1>5. PICK n \in Nat : Lowest(n) = Nodes
  BY LowestAll
<1> QED
  BY <1>4, <1>5 DEF I

\* The nodes of the name's last k parts below a node, where f has those of fewer.
NamedAs(k, f) ==
  [node \in Nodes |->
     IF k = 0 THEN <<node>>
     ELSE IF node.kind # "map" THEN <<>>
     ELSE FlattenSeq([i \in DOMAIN node.keys |->
            IF Leads(node.keys[i], k) THEN f[k - Len(node.keys[i])][node.nodes[i]] ELSE <<>>])]

LEMMA NamedAsFirst == \A f, g : NamedAs(0, f) = NamedAs(0, g)
BY DEF NamedAs

LEMMA NamedAsAgree ==
  ASSUME NEW k \in Nat \ {0}, NEW f, NEW g, \A j \in 0..k - 1 : f[j] = g[j]
  PROVE  NamedAs(k, f) = NamedAs(k, g)
<1> DEFINE below(h, node) ==
      [i \in DOMAIN node.keys |->
         IF Leads(node.keys[i], k) THEN h[k - Len(node.keys[i])][node.nodes[i]] ELSE <<>>]
<1>1. ASSUME NEW node \in Nodes, node.kind = "map" PROVE below(f, node) = below(g, node)
  <2>1. ASSUME NEW i \in DOMAIN node.keys, Leads(node.keys[i], k)
        PROVE  f[k - Len(node.keys[i])][node.nodes[i]] = g[k - Len(node.keys[i])][node.nodes[i]]
    <3>1. node.keys[i] \in Seq(STRING) /\ node.keys[i] # <<>>
      <4>1. node.keys \in Seq(Seq(STRING)) /\ node.keys[i] # <<>>
        BY <1>1, <2>1, DocumentsAssumption
      <4> QED
        BY <2>1, <4>1
    <3>2. Len(node.keys[i]) \in Nat \ {0}
      BY <3>1
    <3>3. k - Len(node.keys[i]) \in 0..k - 1
      BY <2>1, <3>2 DEF Leads
    <3> QED
      BY <3>3
  <2> QED
    BY <2>1
<1> HIDE DEF below
<1>2. \A h : NamedAs(k, h) = [node \in Nodes |-> IF node.kind # "map" THEN <<>>
                                                ELSE FlattenSeq(below(h, node))]
  BY DEF NamedAs, below
<1>3. \A node \in Nodes : (IF node.kind # "map" THEN <<>> ELSE FlattenSeq(below(f, node)))
                             = (IF node.kind # "map" THEN <<>> ELSE FlattenSeq(below(g, node)))
  BY <1>1
<1> QED
  BY <1>2, <1>3

LEMMA NamedExist ==
  ASSUME NEW n \in Nat
  PROVE  \E f : f = [k \in 0..n |-> NamedAs(k, f)]
<1> DEFINE I == {m \in Nat : \E f : f = [k \in 0..m |-> NamedAs(k, f)]}
<1>1. 0 \in I
  <2> DEFINE f == [k \in 0..0 |-> NamedAs(0, <<>>)]
  <2>1. \A k \in 0..0 : NamedAs(k, f) = NamedAs(0, <<>>)
    <3>1. \A k \in 0..0 : k = 0
      OBVIOUS
    <3> QED
      BY <3>1, NamedAsFirst
  <2>2. f = [k \in 0..0 |-> NamedAs(k, f)]
    BY <2>1
  <2> QED
    BY <2>2
<1>2. ASSUME NEW m \in I PROVE m + 1 \in I
  <2>1. PICK f : f = [k \in 0..m |-> NamedAs(k, f)]
    OBVIOUS
  <2> DEFINE g == [k \in 0..m + 1 |-> NamedAs(k, f)]
  <2>2. \A k \in 0..m : g[k] = f[k]
    BY <2>1
  <2>3. ASSUME NEW k \in 0..m + 1 PROVE g[k] = NamedAs(k, g)
    <3>1. g[k] = NamedAs(k, f)
      OBVIOUS
    <3> HIDE DEF g
    <3>2. CASE k = 0
      BY <3>1, <3>2, NamedAsFirst
    <3>3. CASE k # 0
      <4>1. k \in Nat \ {0} /\ \A j \in 0..k - 1 : j \in 0..m
        BY <3>3
      <4> QED
        BY <2>2, <3>1, <4>1, NamedAsAgree
    <3> QED
      BY <3>2, <3>3
  <2>4. g = [k \in 0..m + 1 |-> g[k]]
    OBVIOUS
  <2> HIDE DEF g
  <2>5. g = [k \in 0..m + 1 |-> NamedAs(k, g)]
    BY <2>3, <2>4
  <2> QED
    BY <2>5
<1>3. I \in SUBSET Nat
  OBVIOUS
<1> HIDE DEF I
<1>4. I = Nat
  BY <1>1, <1>2, <1>3, EveryNumber
<1> QED
  BY <1>4 DEF I

\* f has, for each k, the nodes of the name's last k parts.
IsNamed(f) ==
  /\ \A k \in 0..Len(Name) : f[k] = NamedAs(k, f)
  /\ \A root : Named(root) = f[Len(Name)][root]

LEMMA NamedIs == \E f : IsNamed(f)
<1> DEFINE named == CHOOSE f : f = [k \in 0..Len(Name) |-> NamedAs(k, f)]
<1>1. Len(Name) \in Nat
  BY TextsAssumption
<1>2. \E f : f = [k \in 0..Len(Name) |-> NamedAs(k, f)]
  BY <1>1, NamedExist
<1>3. named = [k \in 0..Len(Name) |-> NamedAs(k, named)]
  BY <1>2
<1>4. \A root : Named(root) = named[Len(Name)][root]
  BY DEF Named, NamedAs
<1> HIDE DEF named
<1>5. \A k \in 0..Len(Name) : named[k] = NamedAs(k, named)
  BY <1>3
<1> QED
  BY <1>4, <1>5 DEF IsNamed

-----------------------------------------------------------------------------
(* The last of a sequence that is read.                                    *)

\* x is what v becomes by the first n elements of s, where rd is what is read of each.
Ends(rd, v, s, n, x) ==
  \/ x = v /\ \A i \in 1..n : rd[s[i]] = <<>>
  \/ \E i \in 1..n : /\ rd[s[i]] # <<>> /\ x = rd[s[i]][1]
                     /\ \A j \in 1..n : i < j => rd[s[j]] = <<>>

LEMMA EndsOnce ==
  ASSUME NEW rd, NEW v, NEW s, NEW n \in Nat, NEW x, NEW y,
         Ends(rd, v, s, n, x), Ends(rd, v, s, n, y)
  PROVE  x = y
<1>1. CASE \A i \in 1..n : rd[s[i]] = <<>>
  BY <1>1 DEF Ends
<1>2. CASE \E i \in 1..n : rd[s[i]] # <<>>
  <2>1. PICK i \in 1..n : /\ rd[s[i]] # <<>> /\ x = rd[s[i]][1]
                          /\ \A j \in 1..n : i < j => rd[s[j]] = <<>>
    BY <1>2 DEF Ends
  <2>2. PICK k \in 1..n : /\ rd[s[k]] # <<>> /\ y = rd[s[k]][1]
                          /\ \A j \in 1..n : k < j => rd[s[j]] = <<>>
    BY <1>2 DEF Ends
  <2>3. ~(i < k) /\ ~(k < i)
    BY <2>1, <2>2
  <2> QED
    BY <2>1, <2>2, <2>3
<1> QED
  BY <1>1, <1>2

LEMMA EndsNext ==
  ASSUME NEW rd, NEW v, NEW s, NEW n \in Nat, NEW x, Ends(rd, v, s, n, x),
         NEW y, y = IF rd[s[n + 1]] = <<>> THEN x ELSE rd[s[n + 1]][1]
  PROVE  Ends(rd, v, s, n + 1, y)
<1>1. \A i \in 1..n + 1 : i \in 1..n \/ i = n + 1
  OBVIOUS
<1>2. n + 1 \in 1..n + 1 /\ \A i \in 1..n : i \in 1..n + 1
  OBVIOUS
<1>3. CASE rd[s[n + 1]] = <<>>
  <2>1. y = x
    BY <1>3
  <2>2. CASE x = v /\ \A i \in 1..n : rd[s[i]] = <<>>
    BY <1>1, <1>3, <2>1, <2>2 DEF Ends
  <2>3. CASE \E i \in 1..n : /\ rd[s[i]] # <<>> /\ x = rd[s[i]][1]
                             /\ \A j \in 1..n : i < j => rd[s[j]] = <<>>
    BY <1>1, <1>2, <1>3, <2>1, <2>3 DEF Ends
  <2> QED
    BY <2>2, <2>3 DEF Ends
<1>4. CASE rd[s[n + 1]] # <<>>
  <2>1. \A j \in 1..n + 1 : ~(n + 1 < j)
    OBVIOUS
  <2> QED
    BY <1>2, <1>4, <2>1 DEF Ends
<1> QED
  BY <1>3, <1>4

LEMMA EndsSomehow ==
  ASSUME NEW rd, NEW v, NEW s, NEW n \in Nat
  PROVE  \E x : Ends(rd, v, s, n, x)
<1> DEFINE I == {k \in Nat : \E x : Ends(rd, v, s, k, x)}
<1>1. 0 \in I
  <2>1. Ends(rd, v, s, 0, v)
    BY DEF Ends
  <2> QED
    BY <2>1
<1>2. ASSUME NEW k \in I PROVE k + 1 \in I
  <2>1. PICK x : Ends(rd, v, s, k, x)
    OBVIOUS
  <2>2. \E y : Ends(rd, v, s, k + 1, y)
    BY <2>1, EndsNext
  <2> QED
    BY <2>2
<1>3. I \in SUBSET Nat
  OBVIOUS
<1> HIDE DEF I
<1>4. I = Nat
  BY <1>1, <1>2, <1>3, EveryNumber
<1> QED
  BY <1>4 DEF I

LEMMA EndsConcat ==
  ASSUME NEW S, NEW rd, NEW s \in Seq(S), NEW t \in Seq(S), NEW v, NEW x
  PROVE  Ends(rd, v, s \o t, Len(s \o t), x)
           <=> \E y : Ends(rd, v, s, Len(s), y) /\ Ends(rd, y, t, Len(t), x)
<1> DEFINE m == Len(s)
           n == Len(t)
           u == s \o t
<1>1. /\ m \in Nat /\ n \in Nat /\ Len(u) = m + n
      /\ \A i \in 1..m : u[i] = s[i]
      /\ \A i \in 1..n : u[m + i] = t[i]
  BY ConcatProperties
<1> HIDE DEF m, n, u
<1>2. ASSUME NEW y, NEW z, Ends(rd, v, s, m, y), Ends(rd, y, t, n, z)
      PROVE  Ends(rd, v, u, m + n, z)
  <2>1. \A i \in 1..m + n : \/ i \in 1..m /\ u[i] = s[i]
                            \/ i - m \in 1..n /\ u[i] = t[i - m]
    <3> TAKE i \in 1..m + n
    <3>1. CASE i <= m
      BY <1>1, <3>1
    <3>2. CASE ~(i <= m)
      <4>1. i - m \in 1..n /\ m + (i - m) = i
        BY <1>1, <3>2
      <4> QED
        BY <1>1, <4>1
    <3> QED
      BY <3>1, <3>2
  <2>2. CASE y = z /\ \A i \in 1..n : rd[t[i]] = <<>>
    <3>1. CASE y = v /\ \A i \in 1..m : rd[s[i]] = <<>>
      BY <2>1, <2>2, <3>1 DEF Ends
    <3>2. CASE \E i \in 1..m : /\ rd[s[i]] # <<>> /\ y = rd[s[i]][1]
                               /\ \A j \in 1..m : i < j => rd[s[j]] = <<>>
      <4>1. PICK i \in 1..m : /\ rd[s[i]] # <<>> /\ y = rd[s[i]][1]
                              /\ \A j \in 1..m : i < j => rd[s[j]] = <<>>
        BY <3>2
      <4>2. i \in 1..m + n /\ u[i] = s[i]
        BY <1>1
      <4>3. \A j \in 1..m + n : i < j => rd[u[j]] = <<>>
        BY <2>1, <2>2, <4>1
      <4> QED
        BY <2>2, <4>1, <4>2, <4>3 DEF Ends
    <3> QED
      BY <1>2, <3>1, <3>2 DEF Ends
  <2>3. CASE \E i \in 1..n : /\ rd[t[i]] # <<>> /\ z = rd[t[i]][1]
                             /\ \A j \in 1..n : i < j => rd[t[j]] = <<>>
    <3>1. PICK i \in 1..n : /\ rd[t[i]] # <<>> /\ z = rd[t[i]][1]
                            /\ \A j \in 1..n : i < j => rd[t[j]] = <<>>
      BY <2>3
    <3>2. m + i \in 1..m + n /\ u[m + i] = t[i]
      BY <1>1
    <3>3. ASSUME NEW j \in 1..m + n, m + i < j PROVE rd[u[j]] = <<>>
      <4>1. j - m \in 1..n /\ u[j] = t[j - m] /\ i < j - m
        BY <1>1, <2>1, <3>3
      <4> QED
        BY <3>1, <4>1
    <3> QED
      BY <3>1, <3>2, <3>3 DEF Ends
  <2> QED
    BY <1>2, <2>2, <2>3 DEF Ends
<1>3. \E y : Ends(rd, v, s, m, y)
  BY <1>1, EndsSomehow
<1>4. ASSUME Ends(rd, v, u, m + n, x)
      PROVE  \E y : Ends(rd, v, s, m, y) /\ Ends(rd, y, t, n, x)
  <2>1. PICK y : Ends(rd, v, s, m, y)
    BY <1>3
  <2>2. PICK z : Ends(rd, y, t, n, z)
    BY <1>1, EndsSomehow
  <2>3. Ends(rd, v, u, m + n, z)
    BY <1>2, <2>1, <2>2
  <2>4. z = x
    <3>1. m + n \in Nat
      BY <1>1
    <3> QED
      BY <1>4, <2>3, <3>1, EndsOnce
  <2> QED
    BY <2>1, <2>2, <2>4
<1>5. Ends(rd, v, u, m + n, x) <=> \E y : Ends(rd, v, s, m, y) /\ Ends(rd, y, t, n, x)
  BY <1>2, <1>4
<1> QED
  BY <1>1, <1>5 DEF m, n, u

\* What is read of an entry of the list, and of a node that has the name.
EntryRead(T) == [e \in Entry |-> IF e.name = Name THEN FromStr(T, NodeText(e.node)) ELSE <<>>]
NodeRead(T) == [node \in Nodes |-> FromStr(T, NodeText(node))]

\* A list and some nodes leave a variable at the same value.
Same(T, all, nodes) ==
  \A v, x : Ends(EntryRead(T), v, all, Len(all), x) <=> Ends(NodeRead(T), v, nodes, Len(nodes), x)

LEMMA SameConcat ==
  ASSUME NEW T, NEW all \in Seq(Entry), NEW nodes \in Seq(Nodes), Same(T, all, nodes),
         NEW all2 \in Seq(Entry), NEW nodes2 \in Seq(Nodes), Same(T, all2, nodes2)
  PROVE  Same(T, all \o all2, nodes \o nodes2)
<1> SUFFICES ASSUME NEW v, NEW x
             PROVE  Ends(EntryRead(T), v, all \o all2, Len(all \o all2), x)
                      <=> Ends(NodeRead(T), v, nodes \o nodes2, Len(nodes \o nodes2), x)
  BY DEF Same
<1>1. Ends(EntryRead(T), v, all \o all2, Len(all \o all2), x)
        <=> \E y : /\ Ends(EntryRead(T), v, all, Len(all), y)
                   /\ Ends(EntryRead(T), y, all2, Len(all2), x)
  BY EndsConcat
<1>2. Ends(NodeRead(T), v, nodes \o nodes2, Len(nodes \o nodes2), x)
        <=> \E y : /\ Ends(NodeRead(T), v, nodes, Len(nodes), y)
                   /\ Ends(NodeRead(T), y, nodes2, Len(nodes2), x)
  BY EndsConcat
<1> QED
  BY <1>1, <1>2 DEF Same

LEMMA SameNothing == \A T : Same(T, <<>>, <<>>)
BY DEF Same, Ends

LEMMA SameFlatten ==
  ASSUME NEW T, NEW ss \in Seq(Seq(Entry)), NEW tt \in Seq(Seq(Nodes)), Len(ss) = Len(tt),
         \A i \in 1..Len(ss) : Same(T, ss[i], tt[i])
  PROVE  /\ FlattenSeq(ss) \in Seq(Entry) /\ FlattenSeq(tt) \in Seq(Nodes)
         /\ Same(T, FlattenSeq(ss), FlattenSeq(tt))
<1> DEFINE n == Len(ss)
<1>1. n \in Nat /\ \A i \in 1..n : ss[i] \in Seq(Entry) /\ tt[i] \in Seq(Nodes)
  OBVIOUS
<1>2. PICK f : Steps(Entry, ss, f)
  BY FlattenSteps
<1>3. PICK g : Steps(Nodes, tt, g)
  BY FlattenSteps
<1> DEFINE I == {k \in Nat : k <= n => Same(T, f[k], g[k])}
<1>4. 0 \in I
  BY <1>2, <1>3, SameNothing DEF Steps
<1>5. ASSUME NEW k \in I PROVE k + 1 \in I
  <2> SUFFICES ASSUME k + 1 <= n PROVE Same(T, f[k + 1], g[k + 1])
    OBVIOUS
  <2>1. /\ k \in 0..n /\ k + 1 \in 1..n /\ (k + 1) - 1 = k
        /\ Same(T, f[k], g[k]) /\ Same(T, ss[k + 1], tt[k + 1])
    BY <1>1
  <2>2. /\ f[k + 1] = f[k] \o ss[k + 1] /\ f[k] \in Seq(Entry)
        /\ g[k + 1] = g[k] \o tt[k + 1] /\ g[k] \in Seq(Nodes)
    BY <1>2, <1>3, <2>1 DEF Steps
  <2> QED
    BY <1>1, <2>1, <2>2, SameConcat
<1>6. I \in SUBSET Nat
  OBVIOUS
<1> HIDE DEF I
<1>7. I = Nat
  BY <1>4, <1>5, <1>6, EveryNumber
<1>8. Same(T, f[n], g[n])
  BY <1>1, <1>7 DEF I
<1>9. /\ f[n] = FlattenSeq(ss) /\ f[n] \in Seq(Entry)
      /\ g[n] = FlattenSeq(tt) /\ g[n] \in Seq(Nodes)
  <2>1. n \in 0..n
    BY <1>1
  <2> QED
    BY <1>2, <1>3, <2>1 DEF Steps
<1> QED
  BY <1>8, <1>9

LEMMA FlattenNone ==
  ASSUME NEW n \in Nat
  PROVE  FlattenSeq([i \in 1..n |-> <<>>]) = <<>>
<1> DEFINE tt == [i \in 1..n |-> <<>>]
<1>1. tt \in Seq(Seq({})) /\ Len(tt) = n
  <2>1. <<>> \in Seq({})
    OBVIOUS
  <2> QED
    BY <2>1
<1> HIDE DEF tt
<1>2. PICK g : Steps({}, tt, g)
  BY <1>1, FlattenSteps
<1>3. FlattenSeq(tt) \in Seq({})
  <2>1. n \in 0..n
    OBVIOUS
  <2> QED
    BY <1>1, <1>2, <2>1 DEF Steps
<1>4. FlattenSeq(tt) = <<>>
  BY <1>3
<1> QED
  BY <1>4 DEF tt

-----------------------------------------------------------------------------
(* Names on the way to the variable's, and off it.                         *)

Way(k) == SubSeq(Name, 1, k)
Off(p) == \A k \in 0..Len(Name) : p # Way(k)

LEMMA WayFacts ==
  ASSUME NEW k \in 0..Len(Name)
  PROVE  /\ Len(Name) \in Nat /\ Way(k) \in Seq(STRING) /\ Len(Way(k)) = k
         /\ \A i \in 1..k : Way(k)[i] = Name[i]
         /\ ToSet(Way(k)) \subseteq Lower
<1>1. Name \in Seq(Lower \cap STRING) /\ Len(Name) \in Nat
  BY TextsAssumption
<1>2. /\ Way(k) \in Seq(Lower \cap STRING) /\ Len(Way(k)) = k
      /\ \A i \in 1..k : Way(k)[i] = Name[i]
  BY <1>1, SubSeqProperties DEF Way
<1>3. Way(k) \in Seq(STRING)
  BY <1>2
<1>4. DOMAIN Way(k) = 1..k /\ \A i \in 1..k : Way(k)[i] \in Lower
  BY <1>1, <1>2
<1> QED
  BY <1>1, <1>2, <1>3, <1>4 DEF ToSet

LEMMA WayEnd == Way(Len(Name)) = Name /\ Way(0) = <<>>
<1>1. Name \in Seq(Lower \cap STRING) /\ Len(Name) \in Nat
  BY TextsAssumption
<1>2. Way(Len(Name)) = Name
  BY <1>1 DEF Way
<1>3. Len(Way(0)) = 0 /\ Way(0) \in Seq(STRING)
  BY <1>1, WayFacts
<1> QED
  BY <1>2, <1>3

LEMMA ConcatFacts ==
  ASSUME NEW s \in Seq(STRING), NEW t \in Seq(STRING)
  PROVE  /\ s \o t \in Seq(STRING) /\ Len(s \o t) = Len(s) + Len(t)
         /\ Len(s) \in Nat /\ Len(t) \in Nat
         /\ \A i \in 1..Len(s) : (s \o t)[i] = s[i]
         /\ \A i \in 1..Len(t) : (s \o t)[Len(s) + i] = t[i]
BY ConcatProperties

\* The parts of the name behind the first k begin with the key.
LEMMA LeadsIs ==
  ASSUME NEW k \in 0..Len(Name), NEW key \in Seq(STRING)
  PROVE  Leads(key, Len(Name) - k) <=> /\ k + Len(key) <= Len(Name)
                                       /\ \A i \in 1..Len(key) : key[i] = Name[k + i]
<1> DEFINE L == Len(Name)
<1>1. Name \in Seq(STRING) /\ L \in Nat /\ Len(key) \in Nat
  BY TextsAssumption
<1>2. L - (L - k) + 1 = k + 1 /\ L - (L - k) + Len(key) = k + Len(key)
  BY <1>1
<1>3. Leads(key, L - k) <=> Len(key) <= L - k /\ key = SubSeq(Name, k + 1, k + Len(key))
  BY <1>2 DEF Leads
<1>4. ASSUME k + Len(key) <= L
      PROVE  /\ SubSeq(Name, k + 1, k + Len(key)) \in Seq(STRING)
             /\ Len(SubSeq(Name, k + 1, k + Len(key))) = Len(key)
             /\ \A i \in 1..Len(key) : SubSeq(Name, k + 1, k + Len(key))[i] = Name[k + i]
  <2> DEFINE m == k + 1
             n == k + Len(key)
  <2>1. m \in 1..L + 1 /\ n \in m - 1..L /\ n - m + 1 = Len(key)
    BY <1>1, <1>4
  <2>2. \A i \in 1..Len(key) : m + i - 1 = k + i
    BY <1>1
  <2>3. /\ SubSeq(Name, m, n) \in Seq(STRING)
        /\ Len(SubSeq(Name, m, n)) = n - m + 1
        /\ \A i \in 1..n - m + 1 : SubSeq(Name, m, n)[i] = Name[m + i - 1]
    <3> HIDE DEF m, n
    <3> QED
      BY <1>1, <2>1, SubSeqProperties DEF L
  <2>4. 1..n - m + 1 = 1..Len(key)
    BY <2>1
  <2> HIDE DEF m, n
  <2>5. \A i \in 1..Len(key) : SubSeq(Name, m, n)[i] = Name[k + i]
    BY <2>2, <2>3, <2>4
  <2> QED
    BY <2>1, <2>3, <2>5 DEF m, n
<1> HIDE DEF L
<1>5. CASE k + Len(key) <= L
  <2> DEFINE sub == SubSeq(Name, k + 1, k + Len(key))
  <2>1. sub \in Seq(STRING) /\ Len(sub) = Len(key) /\ \A i \in 1..Len(key) : sub[i] = Name[k + i]
    BY <1>4, <1>5
  <2> HIDE DEF sub
  <2>2. key = sub <=> \A i \in 1..Len(key) : key[i] = sub[i]
    BY <2>1, SeqEqual
  <2>3. Len(key) <= L - k
    BY <1>1, <1>5
  <2> QED
    BY <1>3, <1>5, <2>1, <2>2, <2>3 DEF sub, L
<1>6. CASE ~(k + Len(key) <= L)
  <2>1. ~(Len(key) <= L - k)
    BY <1>1, <1>6
  <2> QED
    BY <1>3, <1>6, <2>1 DEF L
<1> QED
  BY <1>5, <1>6

LEMMA WayStep ==
  ASSUME NEW k \in 0..Len(Name), NEW p \in Seq(STRING), NEW key \in Seq(STRING), key # <<>>
  PROVE  /\ p = Way(k) /\ Leads(key, Len(Name) - k) =>
              k + Len(key) \in 0..Len(Name) /\ p \o key = Way(k + Len(key))
         /\ p = Way(k) /\ ~Leads(key, Len(Name) - k) => Off(p \o key)
         /\ Off(p) => Off(p \o key)
<1> DEFINE q == p \o key
<1>1. /\ q \in Seq(STRING) /\ Len(q) = Len(p) + Len(key)
      /\ Len(p) \in Nat /\ Len(key) \in Nat \ {0} /\ Len(Name) \in Nat
      /\ \A i \in 1..Len(p) : q[i] = p[i]
      /\ \A i \in 1..Len(key) : q[Len(p) + i] = key[i]
  <2>1. Len(Name) \in Nat /\ Len(key) # 0
    BY TextsAssumption
  <2> QED
    BY <2>1, ConcatFacts
<1> HIDE DEF q
<1>2. ASSUME p = Way(k), Leads(key, Len(Name) - k)
      PROVE  k + Len(key) \in 0..Len(Name) /\ q = Way(k + Len(key))
  <2> DEFINE l == k + Len(key)
  <2>1. Len(p) = k
    BY <1>2, WayFacts
  <2>2. l \in 0..Len(Name) /\ \A i \in 1..Len(key) : key[i] = Name[k + i]
    <3>1. l <= Len(Name) /\ \A i \in 1..Len(key) : key[i] = Name[k + i]
      BY <1>2, LeadsIs
    <3> QED
      BY <1>1, <3>1
  <2>3. Len(q) = l
    BY <1>1, <2>1
  <2>4. \A i \in 1..l : q[i] = Name[i]
    <3> TAKE i \in 1..l
    <3>1. CASE i \in 1..k
      BY <1>1, <1>2, <2>1, <3>1, WayFacts
    <3>2. CASE i \notin 1..k
      <4>1. i - k \in 1..Len(key) /\ k + (i - k) = i
        <5>1. k \in Nat /\ Len(key) \in Nat /\ i \in Nat /\ i <= k + Len(key) /\ i > k
          <6>1. k \in Nat /\ Len(key) \in Nat
            BY <1>1
          <6> QED
            BY <3>2, <6>1
        <5> QED
          BY <5>1
      <4>2. q[k + (i - k)] = key[i - k] /\ key[i - k] = Name[k + (i - k)]
        BY <1>1, <2>1, <2>2, <4>1
      <4> QED
        BY <4>1, <4>2
    <3> QED
      BY <3>1, <3>2
  <2> HIDE DEF l
  <2>5. /\ Way(l) \in Seq(STRING) /\ Len(Way(l)) = l
        /\ \A i \in 1..l : Way(l)[i] = Name[i]
    BY <2>2, WayFacts
  <2>6. q = Way(l)
    BY <1>1, <2>3, <2>4, <2>5
  <2> QED
    BY <2>2, <2>6 DEF l
<1>3. ASSUME NEW l \in 0..Len(Name), q = Way(l)
      PROVE  /\ Len(p) \in 0..Len(Name) /\ p = Way(Len(p))
             /\ Leads(key, Len(Name) - Len(p))
  <2>1. l = Len(p) + Len(key) /\ Len(p) \in 0..Len(Name)
    <3>1. Len(Way(l)) = l
      BY WayFacts
    <3>2. Len(q) = l
      BY <1>3, <3>1
    <3>3. Len(q) = Len(p) + Len(key) /\ Len(p) \in Nat /\ Len(key) \in Nat /\ Len(Name) \in Nat
      BY <1>1
    <3>4. l = Len(p) + Len(key)
      BY <3>2, <3>3
    <3> QED
      BY <3>3, <3>4
  <2>2. \A i \in 1..l : q[i] = Name[i]
    BY <1>3, WayFacts
  <2>3. \A i \in 1..Len(p) : p[i] = Name[i]
    BY <1>1, <2>1, <2>2
  <2>4. /\ Way(Len(p)) \in Seq(STRING) /\ Len(Way(Len(p))) = Len(p)
        /\ \A i \in 1..Len(p) : Way(Len(p))[i] = Name[i]
    BY <2>1, WayFacts
  <2>5. p = Way(Len(p))
    BY <2>3, <2>4
  <2>6. \A i \in 1..Len(key) : key[i] = Name[Len(p) + i]
    <3> TAKE i \in 1..Len(key)
    <3>1. Len(p) + i \in 1..l
      BY <1>1, <2>1
    <3> QED
      BY <1>1, <2>2, <3>1
  <2>7. Leads(key, Len(Name) - Len(p))
    <3>1. Len(p) + Len(key) <= Len(Name)
      BY <1>1, <2>1
    <3>2. \A m \in 0..Len(Name) :
            m + Len(key) <= Len(Name) /\ (\A i \in 1..Len(key) : key[i] = Name[m + i])
              => Leads(key, Len(Name) - m)
      BY LeadsIs
    <3> QED
      BY <2>1, <2>6, <3>1, <3>2
  <2> QED
    BY <2>1, <2>5, <2>7
<1>4. ASSUME p = Way(k), ~Leads(key, Len(Name) - k)
      PROVE  Off(q)
  <2> SUFFICES ASSUME NEW l \in 0..Len(Name), q = Way(l) PROVE FALSE
    BY DEF Off
  <2>1. Len(p) = k
    BY <1>4, WayFacts
  <2> QED
    BY <1>3, <1>4, <2>1
<1>5. ASSUME Off(p) PROVE Off(q)
  <2> SUFFICES ASSUME NEW l \in 0..Len(Name), q = Way(l) PROVE FALSE
    BY DEF Off
  <2> QED
    BY <1>3, <1>5 DEF Off
<1> QED
  BY <1>2, <1>4, <1>5 DEF q

-----------------------------------------------------------------------------
(* The list of a node, and the nodes of the variable's name below it.      *)

\* What the list has of a node reached by the first parts of the name, and by others.
OnTheWay(T, f, node) ==
  /\ \A k \in 0..Len(Name) :
       /\ f[Len(Name) - k][node] \in Seq(Nodes)
       /\ Same(T, ListAllMenbers(Way(k), node), f[Len(Name) - k][node])
  /\ \A p \in Seq(STRING) : Off(p) => Same(T, ListAllMenbers(p, node), <<>>)

\* What is listed below a node.
Rest(p, node) == IF node.kind # "map" THEN <<>> ELSE FlattenSeq(ItemLists(p, node))

LEMMA RestType ==
  ASSUME NEW node \in Nodes, NEW p \in Seq(STRING)
  PROVE  /\ Rest(p, node) \in Seq(Entry)
         /\ node.kind = "map" =>
              /\ ItemLists(p, node) \in Seq(Seq(Entry))
              /\ Len(ItemLists(p, node)) = Len(node.keys)
<1>1. CASE node.kind # "map"
  <2>1. <<>> \in Seq(Entry)
    OBVIOUS
  <2> QED
    BY <1>1, <2>1 DEF Rest
<1>2. CASE node.kind = "map"
  <2> DEFINE items == [i \in 1..Len(node.keys) |->
                         ListAllMenbers(ItemName(p, node.keys[i]), node.nodes[i])]
  <2>1. Len(node.keys) \in Nat /\ ItemLists(p, node) = items
    BY <1>2, MapItems
  <2>2. ASSUME NEW i \in 1..Len(node.keys)
        PROVE  ListAllMenbers(ItemName(p, node.keys[i]), node.nodes[i]) \in Seq(Entry)
    BY <1>2, MapItems, ListType
  <2>3. items \in Seq(Seq(Entry)) /\ Len(items) = Len(node.keys)
    BY <2>1, <2>2
  <2> HIDE DEF items
  <2>4. PICK g : Steps(Entry, items, g)
    BY <2>3, FlattenSteps
  <2>5. FlattenSeq(items) \in Seq(Entry)
    <3>1. Len(items) \in 0..Len(items)
      BY <2>1, <2>3
    <3> QED
      BY <2>4, <3>1 DEF Steps
  <2> QED
    BY <1>2, <2>1, <2>3, <2>5 DEF Rest
<1> QED
  BY <1>1, <1>2

\* If the items are off the way, so is what is below.
LEMMA RestOff ==
  ASSUME NEW T, NEW node \in Nodes, NEW p \in Seq(STRING), NEW f,
         node.kind = "map" => \A i \in 1..Len(node.keys) :
           OnTheWay(T, f, node.nodes[i]) /\ Off(ItemName(p, node.keys[i]))
  PROVE  Same(T, Rest(p, node), <<>>)
<1>1. CASE node.kind # "map"
  BY <1>1, SameNothing DEF Rest
<1>2. CASE node.kind = "map"
  <2> DEFINE n == Len(node.keys)
             tt == [i \in 1..n |-> <<>>]
             ss == ItemLists(p, node)
  <2>1. n \in Nat /\ ss \in Seq(Seq(Entry)) /\ Len(ss) = n
    BY <1>2, RestType, MapItems
  <2>2. tt \in Seq(Seq(Nodes)) /\ Len(tt) = n
    <3>1. <<>> \in Seq(Nodes)
      OBVIOUS
    <3> QED
      BY <2>1, <3>1
  <2>3. ASSUME NEW i \in 1..n PROVE Same(T, ss[i], tt[i])
    <3>1. /\ ss[i] = ListAllMenbers(ItemName(p, node.keys[i]), node.nodes[i])
          /\ ItemName(p, node.keys[i]) \in Seq(STRING)
      <4>1. ItemName(p, node.keys[i]) \in Seq(STRING)
        BY <1>2, MapItems
      <4>2. ss = [j \in 1..n |-> ListAllMenbers(ItemName(p, node.keys[j]), node.nodes[j])]
        BY <1>2, MapItems
      <4> HIDE DEF ss, n
      <4> QED
        BY <4>1, <4>2
    <3>2. tt[i] = <<>>
      OBVIOUS
    <3> QED
      BY <1>2, <3>1, <3>2 DEF OnTheWay
  <2>4. FlattenSeq(tt) = <<>>
    BY <2>1, FlattenNone
  <2> HIDE DEF tt, ss, n
  <2>5. Same(T, FlattenSeq(ss), FlattenSeq(tt))
    BY <2>1, <2>2, <2>3, SameFlatten
  <2> QED
    BY <1>2, <2>4, <2>5 DEF Rest, ss
<1> QED
  BY <1>1, <1>2

LEMMA HeadSame ==
  ASSUME NEW T, NEW node \in Nodes, NEW p \in Seq(STRING)
  PROVE  LET head == <<[name |-> p, node |-> node]>>
         IN /\ head \in Seq(Entry) /\ <<node>> \in Seq(Nodes)
            /\ p = Name => Same(T, head, <<node>>)
            /\ p # Name => Same(T, head, <<>>)
<1> DEFINE e == [name |-> p, node |-> node]
<1>1. e \in Entry /\ e.name = p /\ e.node = node
  BY DEF Entry
<1> HIDE DEF e
<1>2. /\ EntryRead(T)[e] = IF p = Name THEN FromStr(T, NodeText(node)) ELSE <<>>
      /\ NodeRead(T)[node] = FromStr(T, NodeText(node))
  BY <1>1 DEF EntryRead, NodeRead
<1>3. Len(<<e>>) = 1 /\ <<e>>[1] = e /\ Len(<<node>>) = 1 /\ <<node>>[1] = node /\ Len(<<>>) = 0
  OBVIOUS
<1>4. \A rd, v, s, x : Ends(rd, v, s, 1, x) <=> \/ x = v /\ rd[s[1]] = <<>>
                                                \/ rd[s[1]] # <<>> /\ x = rd[s[1]][1]
  <2>1. 1..1 = {1}
    OBVIOUS
  <2> QED
    BY <2>1 DEF Ends
<1>5. \A rd, v, s, x : Ends(rd, v, s, 0, x) <=> x = v
  BY DEF Ends
<1>6. p = Name => Same(T, <<e>>, <<node>>)
  BY <1>2, <1>3, <1>4 DEF Same
<1>7. p # Name => Same(T, <<e>>, <<>>)
  BY <1>2, <1>3, <1>4, <1>5 DEF Same
<1>8. <<e>> \in Seq(Entry) /\ <<node>> \in Seq(Nodes)
  BY <1>1
<1> QED
  BY <1>6, <1>7, <1>8 DEF e

LEMMA ListSplit ==
  ASSUME NEW node \in Nodes, NEW p \in Seq(STRING)
  PROVE  ListAllMenbers(p, node) = IF ~(ToSet(p) \subseteq Lower) THEN <<>>
                                   ELSE <<[name |-> p, node |-> node]>> \o Rest(p, node)
BY Listing DEF Rest

LEMMA OffSame ==
  ASSUME NEW T, NEW node \in Nodes, NEW f, NEW p \in Seq(STRING), Off(p),
         node.kind = "map" => \A i \in 1..Len(node.keys) : OnTheWay(T, f, node.nodes[i])
  PROVE  Same(T, ListAllMenbers(p, node), <<>>)
<1>1. CASE ~(ToSet(p) \subseteq Lower)
  BY <1>1, ListSplit, SameNothing
<1>2. CASE ToSet(p) \subseteq Lower
  <2> DEFINE head == <<[name |-> p, node |-> node]>>
  <2>1. p # Name
    <3>1. Len(Name) \in 0..Len(Name)
      BY TextsAssumption
    <3> QED
      BY <3>1, WayEnd DEF Off
  <2>2. head \in Seq(Entry) /\ Same(T, head, <<>>)
    BY <2>1, HeadSame
  <2>3. node.kind = "map" => \A i \in 1..Len(node.keys) : Off(ItemName(p, node.keys[i]))
    <3> SUFFICES ASSUME node.kind = "map", NEW i \in 1..Len(node.keys)
                 PROVE  Off(ItemName(p, node.keys[i]))
      OBVIOUS
    <3>1. /\ node.keys[i] \in Seq(STRING) /\ node.keys[i] # <<>>
          /\ ItemName(p, node.keys[i]) = p \o node.keys[i]
      BY MapItems
    <3>2. 0 \in 0..Len(Name)
      BY TextsAssumption
    <3> QED
      BY <3>1, <3>2, WayStep
  <2>4. Same(T, Rest(p, node), <<>>)
    BY <2>3, RestOff
  <2>5. Rest(p, node) \in Seq(Entry) /\ <<>> \in Seq(Nodes) /\ <<>> \o <<>> = <<>>
    BY RestType
  <2>6. ListAllMenbers(p, node) = head \o Rest(p, node)
    BY <1>2, ListSplit
  <2> HIDE DEF head
  <2>7. Same(T, head \o Rest(p, node), <<>> \o <<>>)
    BY <2>2, <2>4, <2>5, SameConcat
  <2> QED
    BY <2>5, <2>6, <2>7
<1> QED
  BY <1>1, <1>2

LEMMA WaySame ==
  ASSUME NEW T, NEW node \in Nodes, NEW f, IsNamed(f), NEW k \in 0..Len(Name),
         node.kind = "map" => \A i \in 1..Len(node.keys) : OnTheWay(T, f, node.nodes[i])
  PROVE  /\ f[Len(Name) - k][node] \in Seq(Nodes)
         /\ Same(T, ListAllMenbers(Way(k), node), f[Len(Name) - k][node])
<1> DEFINE L == Len(Name)
           p == Way(k)
           head == <<[name |-> p, node |-> node]>>
           nodes == f[L - k][node]
<1>1. L \in Nat /\ p \in Seq(STRING) /\ Len(p) = k /\ ToSet(p) \subseteq Lower
  BY WayFacts
<1>2. /\ ListAllMenbers(p, node) = head \o Rest(p, node)
      /\ Rest(p, node) \in Seq(Entry)
  BY <1>1, ListSplit, RestType
<1>3. L - k \in 0..L /\ nodes = NamedAs(L - k, f)[node]
  BY <1>1 DEF IsNamed
<1> HIDE DEF L
<1>4. CASE k = L
  <2>1. p = Name
    BY <1>4, WayEnd DEF L
  <2>2. nodes = <<node>>
    <3>1. L - k = 0
      BY <1>1, <1>4
    <3> QED
      BY <1>3, <3>1 DEF NamedAs
  <2>3. head \in Seq(Entry) /\ <<node>> \in Seq(Nodes) /\ Same(T, head, <<node>>)
    BY <1>1, <2>1, HeadSame
  <2>4. node.kind = "map" => \A i \in 1..Len(node.keys) : Off(ItemName(p, node.keys[i]))
    <3> SUFFICES ASSUME node.kind = "map", NEW i \in 1..Len(node.keys)
                 PROVE  Off(ItemName(p, node.keys[i]))
      OBVIOUS
    <3>1. /\ node.keys[i] \in Seq(STRING) /\ node.keys[i] # <<>>
          /\ ItemName(p, node.keys[i]) = p \o node.keys[i]
      BY <1>1, MapItems
    <3>2. ~Leads(node.keys[i], L - k)
      <4>1. Len(node.keys[i]) \in Nat \ {0}
        BY <3>1
      <4> QED
        BY <1>1, <1>4, <4>1 DEF Leads
    <3> QED
      BY <1>1, <3>1, <3>2, WayStep DEF L
  <2>5. Same(T, Rest(p, node), <<>>)
    BY <1>1, <2>4, RestOff
  <2>6. <<>> \in Seq(Nodes) /\ <<node>> \o <<>> = <<node>>
    BY <2>3, ConcatEmptySeq
  <2> HIDE DEF head, p, nodes
  <2>7. Same(T, head \o Rest(p, node), <<node>> \o <<>>)
    BY <1>2, <2>3, <2>5, <2>6, SameConcat
  <2> QED
    BY <1>2, <2>2, <2>3, <2>6, <2>7 DEF L, p, nodes
<1>5. CASE k < L
  <2>1. p # Name
    <3>1. Len(p) # L
      BY <1>1, <1>5
    <3> QED
      BY <3>1 DEF L
  <2>2. head \in Seq(Entry) /\ Same(T, head, <<>>)
    BY <1>1, <2>1, HeadSame
  <2>3. nodes \in Seq(Nodes) /\ Same(T, Rest(p, node), nodes)
    <3>1. CASE node.kind # "map"
      <4>1. nodes = <<>> /\ Rest(p, node) = <<>>
        <5>1. L - k # 0
          BY <1>1, <1>5
        <5> QED
          BY <1>3, <3>1, <5>1 DEF NamedAs, Rest
      <4>2. <<>> \in Seq(Nodes)
        OBVIOUS
      <4> HIDE DEF nodes
      <4> QED
        BY <4>1, <4>2, SameNothing
    <3>2. CASE node.kind = "map"
      <4> DEFINE n == Len(node.keys)
                 item(i) == IF Leads(node.keys[i], L - k) THEN f[L - k - Len(node.keys[i])][node.nodes[i]] ELSE <<>>
                 tt == [i \in 1..n |-> item(i)]
                 ss == ItemLists(p, node)
      <4>1. n \in Nat /\ ss \in Seq(Seq(Entry)) /\ Len(ss) = n /\ DOMAIN node.keys = 1..n
        BY <1>1, <3>2, RestType, MapItems
      <4>2. nodes = FlattenSeq(tt)
        <5>1. L - k # 0
          BY <1>1, <1>5
        <5>2. nodes = FlattenSeq([i \in DOMAIN node.keys |-> item(i)])
          <6>1. NamedAs(L - k, f)[node] = FlattenSeq([i \in DOMAIN node.keys |-> item(i)])
            BY <3>2, <5>1 DEF NamedAs
          <6> HIDE DEF nodes, item
          <6> QED
            BY <1>3, <6>1
        <5>3. tt = [i \in DOMAIN node.keys |-> item(i)]
          BY <4>1
        <5> HIDE DEF tt, nodes, item
        <5> QED
          BY <5>2, <5>3
      <4>4. ASSUME NEW i \in 1..n PROVE item(i) \in Seq(Nodes) /\ Same(T, ss[i], item(i))
        <5> DEFINE q == ItemName(p, node.keys[i])
        <5>1. /\ ss[i] = ListAllMenbers(q, node.nodes[i])
              /\ q \in Seq(STRING) /\ q = p \o node.keys[i]
              /\ node.keys[i] \in Seq(STRING) /\ node.keys[i] # <<>>
          <6> HIDE DEF p
          <6>1. /\ q \in Seq(STRING) /\ q = p \o node.keys[i]
                /\ node.keys[i] \in Seq(STRING) /\ node.keys[i] # <<>>
            BY <1>1, <3>2, MapItems
          <6>2. ss = [j \in 1..n |-> ListAllMenbers(ItemName(p, node.keys[j]), node.nodes[j])]
            BY <1>1, <3>2, MapItems
          <6>3. ss[i] = ListAllMenbers(q, node.nodes[i])
            <7> HIDE DEF ss, n
            <7> QED
              BY <6>2
          <6> QED
            BY <6>1, <6>3
        <5>2. OnTheWay(T, f, node.nodes[i])
          BY <3>2
        <5>3. p = Way(k)
          OBVIOUS
        <5> DEFINE l == k + Len(node.keys[i])
        <5> HIDE DEF q, p, ss
        <5>4. CASE Leads(node.keys[i], L - k)
          <6>1. l \in 0..L /\ q = Way(l)
            BY <1>1, <5>1, <5>3, <5>4, WayStep DEF L
          <6>2. L - l = L - k - Len(node.keys[i])
            <7>1. Len(node.keys[i]) \in Nat
              BY <5>1
            <7> QED
              BY <1>1, <7>1
          <6> HIDE DEF l
          <6>3. /\ f[L - l][node.nodes[i]] \in Seq(Nodes)
                /\ Same(T, ListAllMenbers(Way(l), node.nodes[i]), f[L - l][node.nodes[i]])
            BY <5>2, <6>1 DEF OnTheWay, L
          <6> QED
            BY <5>1, <5>4, <6>1, <6>2, <6>3
        <5>5. CASE ~Leads(node.keys[i], L - k)
          <6>1. Off(q)
            BY <1>1, <5>1, <5>3, <5>5, WayStep DEF L
          <6>2. Same(T, ListAllMenbers(q, node.nodes[i]), <<>>)
            BY <5>1, <5>2, <6>1 DEF OnTheWay
          <6>3. <<>> \in Seq(Nodes)
            OBVIOUS
          <6> QED
            BY <5>1, <5>5, <6>2, <6>3
        <5> QED
          BY <5>4, <5>5
      <4> HIDE DEF item
      <4>5. tt \in Seq(Seq(Nodes)) /\ Len(tt) = n /\ \A i \in 1..n : tt[i] = item(i)
        BY <4>1, <4>4
      <4> HIDE DEF tt, ss, n, nodes
      <4>6. FlattenSeq(tt) \in Seq(Nodes) /\ Same(T, FlattenSeq(ss), FlattenSeq(tt))
        BY <4>1, <4>4, <4>5, SameFlatten
      <4> QED
        BY <3>2, <4>2, <4>6 DEF Rest, ss
    <3> QED
      BY <3>1, <3>2
  <2>4. <<>> \in Seq(Nodes) /\ <<>> \o nodes = nodes
    BY <2>3, ConcatEmptySeq
  <2> HIDE DEF head, p, nodes
  <2>5. Same(T, head \o Rest(p, node), <<>> \o nodes)
    BY <1>2, <2>2, <2>3, <2>4, SameConcat
  <2> QED
    BY <1>2, <2>3, <2>4, <2>5 DEF L, p, nodes
<1>6. k = L \/ k < L
  BY <1>1 DEF L
<1> QED
  BY <1>4, <1>5, <1>6

LEMMA EveryNode ==
  ASSUME NEW T, NEW f, IsNamed(f), NEW node \in Nodes
  PROVE  OnTheWay(T, f, node)
<1> DEFINE I == {n \in Nat : \A x \in Lowest(n) : OnTheWay(T, f, x)}
<1>1. 0 \in I
  BY LowestNone
<1>2. ASSUME NEW n \in I PROVE n + 1 \in I
  <2>1. ASSUME NEW x \in Lowest(n + 1) PROVE OnTheWay(T, f, x)
    <3>1. /\ x \in Nodes
          /\ x.kind = "map" => \A i \in 1..Len(x.keys) : OnTheWay(T, f, x.nodes[i])
      <4>1. /\ x \in Nodes
            /\ x.kind = "map" => \A i \in DOMAIN x.keys : OnTheWay(T, f, x.nodes[i])
        BY LowestNext
      <4>2. x.kind = "map" => DOMAIN x.keys = 1..Len(x.keys)
        <5>1. x.kind = "map" => x.keys \in Seq(Seq(STRING))
          BY <4>1, DocumentsAssumption
        <5> QED
          BY <5>1
      <4> QED
        BY <4>1, <4>2
    <3>2. ASSUME NEW p \in Seq(STRING), Off(p) PROVE Same(T, ListAllMenbers(p, x), <<>>)
      BY <3>1, <3>2, OffSame
    <3>3. ASSUME NEW k \in 0..Len(Name)
          PROVE  /\ f[Len(Name) - k][x] \in Seq(Nodes)
                 /\ Same(T, ListAllMenbers(Way(k), x), f[Len(Name) - k][x])
      BY <3>1, WaySame
    <3> QED
      BY <3>2, <3>3 DEF OnTheWay
  <2> QED
    BY <2>1
<1>3. I \in SUBSET Nat
  OBVIOUS
<1> HIDE DEF I
<1>4. I = Nat
  BY <1>1, <1>2, <1>3, EveryNumber
<1>5. PICK n \in Nat : Lowest(n) = Nodes
  BY LowestAll
<1> QED
  BY <1>4, <1>5 DEF I

\* The list of a document and the nodes of the name.
LEMMA ListAndNamed ==
  ASSUME NEW T, NEW root \in Nodes
  PROVE  Named(root) \in Seq(Nodes) /\ Same(T, ListAllMenbers(<<>>, root), Named(root))
<1>1. PICK f : IsNamed(f)
  BY NamedIs
<1>2. 0 \in 0..Len(Name) /\ Len(Name) - 0 = Len(Name)
  BY TextsAssumption
<1>3. /\ f[Len(Name)][root] \in Seq(Nodes)
      /\ Same(T, ListAllMenbers(Way(0), root), f[Len(Name)][root])
  BY <1>1, <1>2, EveryNode DEF OnTheWay
<1> QED
  BY <1>1, <1>3, WayEnd DEF IsNamed

-----------------------------------------------------------------------------
(* What a load assigns.                                                    *)

\* What the loop has after i entries, where f has what it has after fewer.
AssignedAs(T, v, all, i, f) ==
  IF i = 0 THEN v
  ELSE IF all[i].name = Name THEN Assigned(T, f[i - 1], NodeText(all[i].node))
  ELSE f[i - 1]

LEMMA AssignedExist ==
  ASSUME NEW T, NEW v, NEW all, NEW n \in Nat
  PROVE  \E f : f = [i \in 0..n |-> AssignedAs(T, v, all, i, f)]
<1> DEFINE I == {m \in Nat : \E f : f = [i \in 0..m |-> AssignedAs(T, v, all, i, f)]}
<1>1. 0 \in I
  <2> DEFINE f == [i \in 0..0 |-> v]
  <2>1. \A i \in 0..0 : AssignedAs(T, v, all, i, f) = v
    BY DEF AssignedAs
  <2>2. f = [i \in 0..0 |-> AssignedAs(T, v, all, i, f)]
    BY <2>1
  <2> QED
    BY <2>2
<1>2. ASSUME NEW m \in I PROVE m + 1 \in I
  <2>1. PICK f : f = [i \in 0..m |-> AssignedAs(T, v, all, i, f)]
    OBVIOUS
  <2> DEFINE g == [i \in 0..m + 1 |-> AssignedAs(T, v, all, i, f)]
  <2>2. \A i \in 0..m : g[i] = f[i]
    BY <2>1
  <2>3. ASSUME NEW i \in 0..m + 1 PROVE g[i] = AssignedAs(T, v, all, i, g)
    <3>1. g[i] = AssignedAs(T, v, all, i, f)
      OBVIOUS
    <3> HIDE DEF g
    <3>2. CASE i = 0
      BY <3>1, <3>2 DEF AssignedAs
    <3>3. CASE i # 0
      <4>1. i - 1 \in 0..m
        BY <3>3
      <4>2. g[i - 1] = f[i - 1]
        BY <2>2, <4>1
      <4> QED
        BY <3>1, <4>2 DEF AssignedAs
    <3> QED
      BY <3>2, <3>3
  <2>4. g = [i \in 0..m + 1 |-> g[i]]
    OBVIOUS
  <2> HIDE DEF g
  <2>5. g = [i \in 0..m + 1 |-> AssignedAs(T, v, all, i, g)]
    BY <2>3, <2>4
  <2> QED
    BY <2>5
<1>3. I \in SUBSET Nat
  OBVIOUS
<1> HIDE DEF I
<1>4. I = Nat
  BY <1>1, <1>2, <1>3, EveryNumber
<1> QED
  BY <1>4 DEF I

LEMMA AssignEnds ==
  ASSUME NEW T, NEW v, NEW all \in Seq(Entry)
  PROVE  Ends(EntryRead(T), v, all, Len(all), AssignAll(T, v, all))
<1> DEFINE n == Len(all)
           f == CHOOSE h : h = [i \in 0..n |-> AssignedAs(T, v, all, i, h)]
<1>1. n \in Nat /\ \A i \in 1..n : all[i] \in Entry
  OBVIOUS
<1>2. f = [i \in 0..n |-> AssignedAs(T, v, all, i, f)]
  <2>1. \E h : h = [i \in 0..n |-> AssignedAs(T, v, all, i, h)]
    <3>1. \A m \in Nat : \E h : h = [i \in 0..m |-> AssignedAs(T, v, all, i, h)]
      BY AssignedExist
    <3> HIDE DEF n
    <3> QED
      BY <1>1, <3>1
  <2> HIDE DEF n
  <2> QED
    BY <2>1
<1>3. AssignAll(T, v, all) = f[n]
  BY DEF AssignAll, AssignedAs
<1> HIDE DEF f, n
<1>4. \A i \in 0..n : f[i] = AssignedAs(T, v, all, i, f)
  BY <1>2
<1> DEFINE I == {i \in Nat : i <= n => Ends(EntryRead(T), v, all, i, f[i])}
<1>5. 0 \in I
  <2>1. f[0] = v
    BY <1>1, <1>4 DEF AssignedAs
  <2>2. Ends(EntryRead(T), v, all, 0, v)
    BY DEF Ends
  <2> QED
    BY <2>1, <2>2
<1>6. ASSUME NEW i \in I PROVE i + 1 \in I
  <2> SUFFICES ASSUME i + 1 <= n PROVE Ends(EntryRead(T), v, all, i + 1, f[i + 1])
    OBVIOUS
  <2>1. /\ i \in Nat /\ i + 1 \in 0..n /\ (i + 1) - 1 = i /\ i + 1 # 0 /\ i + 1 \in 1..n
        /\ Ends(EntryRead(T), v, all, i, f[i])
    BY <1>1
  <2> DEFINE e == all[i + 1]
  <2>2. EntryRead(T)[e] = IF e.name = Name THEN FromStr(T, NodeText(e.node)) ELSE <<>>
    BY <1>1, <2>1 DEF EntryRead
  <2>3. f[i + 1] = IF e.name = Name THEN Assigned(T, f[i], NodeText(e.node)) ELSE f[i]
    BY <1>4, <2>1 DEF AssignedAs
  <2>4. f[i + 1] = IF EntryRead(T)[e] = <<>> THEN f[i] ELSE EntryRead(T)[e][1]
    BY <2>2, <2>3 DEF Assigned
  <2> QED
    BY <2>1, <2>4, EndsNext
<1>7. I \in SUBSET Nat
  OBVIOUS
<1> HIDE DEF I
<1>8. I = Nat
  BY <1>5, <1>6, <1>7, EveryNumber
<1>9. Ends(EntryRead(T), v, all, n, f[n])
  BY <1>1, <1>8 DEF I
<1> QED
  BY <1>3, <1>9 DEF n

LEMMA MaxOf ==
  ASSUME NEW n \in Nat, NEW S \in SUBSET (1..n), S # {}
  PROVE  Max(S) \in S /\ \A y \in S : y <= Max(S)
<1> DEFINE J == {n - y : y \in S}
<1>1. J \in SUBSET Nat /\ J # {}
  <2>1. \A y \in S : n - y \in Nat
    <3>1. \A y \in S : y \in 1..n
      OBVIOUS
    <3> QED
      BY <3>1
  <2>2. J \in SUBSET Nat
    BY <2>1
  <2>3. PICK y : y \in S
    OBVIOUS
  <2>4. n - y \in J
    BY <2>3
  <2> QED
    BY <2>2, <2>4
<1>2. PICK m \in J : \A y \in J : m <= y
  <2> HIDE DEF J
  <2> QED
    BY <1>1, LeastNumber
<1>3. PICK x \in S : m = n - x
  OBVIOUS
<1>4. ASSUME NEW y \in S PROVE x >= y
  <2>1. n - y \in J /\ x \in 1..n /\ y \in 1..n
    OBVIOUS
  <2>2. n - x <= n - y
    BY <1>2, <1>3, <2>1
  <2> QED
    BY <2>1, <2>2
<1>5. Max(S) \in S /\ \A y \in S : Max(S) >= y
  BY <1>4 DEF Max
<1> QED
  BY <1>5

\* What the last of the nodes that converts makes of v.
LastGood(T, v, nodes) ==
  LET good == {i \in DOMAIN nodes : FromStr(T, NodeText(nodes[i])) # <<>>}
  IN IF good = {} THEN v ELSE FromStr(T, NodeText(nodes[Max(good)]))[1]

LEMMA LastEnds ==
  ASSUME NEW T, NEW v, NEW nodes \in Seq(Nodes)
  PROVE  Ends(NodeRead(T), v, nodes, Len(nodes), LastGood(T, v, nodes))
<1> DEFINE n == Len(nodes)
           good == {i \in DOMAIN nodes : FromStr(T, NodeText(nodes[i])) # <<>>}
<1>1. /\ n \in Nat /\ DOMAIN nodes = 1..n
      /\ \A i \in 1..n : NodeRead(T)[nodes[i]] = FromStr(T, NodeText(nodes[i]))
  BY DEF NodeRead
<1>2. /\ good \in SUBSET (1..n)
      /\ \A i \in 1..n : i \in good <=> NodeRead(T)[nodes[i]] # <<>>
  BY <1>1
<1>3. LastGood(T, v, nodes) = IF good = {} THEN v ELSE FromStr(T, NodeText(nodes[Max(good)]))[1]
  BY DEF LastGood
<1> HIDE DEF n, good
<1>4. CASE good = {}
  BY <1>2, <1>3, <1>4 DEF Ends, n
<1>5. CASE good # {}
  <2> DEFINE i == Max(good)
  <2>1. i \in good /\ \A j \in good : j <= i
    BY <1>1, <1>2, <1>5, MaxOf
  <2> HIDE DEF i
  <2>2. i \in 1..n /\ NodeRead(T)[nodes[i]] # <<>>
    BY <1>2, <2>1
  <2>3. LastGood(T, v, nodes) = NodeRead(T)[nodes[i]][1]
    BY <1>1, <1>3, <1>5, <2>2 DEF i
  <2>4. \A j \in 1..n : i < j => NodeRead(T)[nodes[j]] = <<>>
    BY <1>1, <1>2, <2>1, <2>2
  <2> QED
    BY <2>2, <2>3, <2>4 DEF Ends, n
<1> QED
  BY <1>4, <1>5

\* A load takes the last node of the name that converts.
LEMMA LoadedLast ==
  ASSUME NEW T, NEW v, NEW root \in Nodes
  PROVE  Loaded(T, v, root) = LastGood(T, v, Named(root))
<1> DEFINE all == ListAllMenbers(<<>>, root)
           nodes == Named(root)
<1>1. nodes \in Seq(Nodes) /\ Same(T, all, nodes)
  BY ListAndNamed
<1>2. all \in Seq(Entry)
  <2>1. <<>> \in Seq(STRING)
    OBVIOUS
  <2> QED
    BY <2>1, ListType
<1> HIDE DEF all, nodes
<1>3. Ends(EntryRead(T), v, all, Len(all), AssignAll(T, v, all))
  BY <1>2, AssignEnds
<1>4. Ends(NodeRead(T), v, nodes, Len(nodes), AssignAll(T, v, all))
  BY <1>1, <1>3 DEF Same
<1>5. Ends(NodeRead(T), v, nodes, Len(nodes), LastGood(T, v, nodes)) /\ Len(nodes) \in Nat
  BY <1>1, LastEnds
<1>6. AssignAll(T, v, all) = LastGood(T, v, nodes)
  BY <1>4, <1>5, EndsOnce
<1> QED
  BY <1>6 DEF Loaded, all, nodes

LEMMA LoadedType ==
  ASSUME NEW T \in Types, NEW v \in Values[T], NEW root \in Roots[T]
  PROVE  root \in Nodes /\ Loaded(T, v, root) \in Values[T]
<1> DEFINE all == ListAllMenbers(<<>>, root)
           w == AssignAll(T, v, all)
<1>1. root \in Nodes /\ \A m \in ToSet(all) : m.name = Name => NodeText(m.node) \in Texts[T]
  BY DocumentsAssumption
<1>2. all \in Seq(Entry)
  <2>1. <<>> \in Seq(STRING)
    OBVIOUS
  <2> QED
    BY <1>1, <2>1, ListType
<1> HIDE DEF all
<1>3. /\ Len(all) \in Nat /\ DOMAIN all = 1..Len(all)
      /\ \A i \in 1..Len(all) : all[i] \in Entry /\ all[i] \in ToSet(all)
  BY <1>2 DEF ToSet
<1>4. Ends(EntryRead(T), v, all, Len(all), w)
  BY <1>2, AssignEnds
<1> HIDE DEF w
<1>5. CASE w = v
  BY <1>1, <1>5 DEF Loaded, w, all
<1>6. CASE \E i \in 1..Len(all) : EntryRead(T)[all[i]] # <<>> /\ w = EntryRead(T)[all[i]][1]
  <2>1. PICK i \in 1..Len(all) : EntryRead(T)[all[i]] # <<>> /\ w = EntryRead(T)[all[i]][1]
    BY <1>6
  <2>2. EntryRead(T)[all[i]] = IF all[i].name = Name THEN FromStr(T, NodeText(all[i].node)) ELSE <<>>
    BY <1>3 DEF EntryRead
  <2>3. /\ all[i].name = Name /\ EntryRead(T)[all[i]] = FromStr(T, NodeText(all[i].node))
        /\ NodeText(all[i].node) \in Texts[T]
    BY <1>1, <1>3, <2>1, <2>2
  <2>4. FromStr(T, NodeText(all[i].node)) \in {<<>>} \cup {<<x>> : x \in Values[T]}
    BY <2>3, ClosedAssumption
  <2>5. PICK x \in Values[T] : EntryRead(T)[all[i]] = <<x>>
    BY <2>1, <2>3, <2>4
  <2>6. w = x
    BY <2>1, <2>5
  <2> QED
    BY <1>1, <2>6 DEF Loaded, w, all
<1> QED
  BY <1>4, <1>5, <1>6 DEF Ends

-----------------------------------------------------------------------------
(* The variable.                                                           *)

\* A value of the variable's type, and with a scalar read, what that scalar converts to.
IInv ==
  /\ type \in Types /\ val \in Values[type]
  /\ "text" \in DOMAIN read =>
       /\ read.text \in Texts[type] /\ read.text.kind = "scalar"
       /\ FromStr(type, read.text) = <<val>>

LEMMA NoText ==
  /\ ~("text" \in DOMAIN <<>>)
  /\ \A root : ~("text" \in DOMAIN [root |-> root]) /\ "root" \in DOMAIN [root |-> root]
  /\ \A text : [text |-> text].text = text
OBVIOUS

LEMMA FromStringInv ==
  ASSUME IInv, NEW text \in Texts[type], FromString(text)
  PROVE  IInv'
<1>1. type' = type /\ type \in Types /\ val \in Values[type]
  BY DEF IInv, FromString
<1>2. FromStr(type, text) \in {<<>>} \cup {<<v>> : v \in Values[type]}
  BY <1>1, ClosedAssumption
<1>3. CASE FromStr(type, text) = <<>>
  <2>1. val' = val /\ read' = <<>>
    BY <1>3 DEF FromString, Assigned
  <2> QED
    BY <1>1, <2>1, NoText DEF IInv
<1>4. CASE FromStr(type, text) # <<>>
  <2>1. PICK v \in Values[type] : FromStr(type, text) = <<v>>
    BY <1>2, <1>4
  <2>2. val' = v
    BY <1>4, <2>1 DEF FromString, Assigned
  <2>3. CASE text.kind = "scalar"
    <3>1. read' = [text |-> text]
      BY <1>4, <2>3 DEF FromString
    <3> QED
      BY <1>1, <2>1, <2>2, <2>3, <3>1, NoText DEF IInv
  <2>4. CASE text.kind # "scalar"
    <3>1. read' = <<>>
      BY <2>4 DEF FromString
    <3> QED
      BY <1>1, <2>1, <2>2, <3>1, NoText DEF IInv
  <2> QED
    BY <2>3, <2>4
<1> QED
  BY <1>3, <1>4

LEMMA LoadInv ==
  ASSUME IInv, NEW root \in Roots[type], LoadFromYaml(root)
  PROVE  IInv'
<1>1. type' = type /\ type \in Types /\ val \in Values[type]
  BY DEF IInv, LoadFromYaml
<1>2. val' \in Values[type] /\ read' = [root |-> root]
  BY <1>1, LoadedType DEF LoadFromYaml
<1> QED
  BY <1>1, <1>2, NoText DEF IInv

\* The variable always has a value of its type, and what it read as a scalar last is
\* its value.
THEOREM ValueOfItsType == Spec => []IInv
<1>1. Init => IInv
  BY NoText DEF Init, IInv
<1>2. IInv /\ [Next]_vars => IInv'
  <2> SUFFICES ASSUME IInv, [Next]_vars PROVE IInv'
    OBVIOUS
  <2>1. ASSUME NEW text \in Texts[type], FromString(text) PROVE IInv'
    BY <2>1, FromStringInv
  <2>2. ASSUME NEW root \in Roots[type], LoadFromYaml(root) PROVE IInv'
    BY <2>2, LoadInv
  <2>3. CASE UNCHANGED vars
    BY <2>3 DEF vars, IInv
  <2> QED
    BY <2>1, <2>2, <2>3 DEF Next
<1> QED
  BY <1>1, <1>2, PTL DEF Spec

\* What toString() shows, fromString() reads as the same value if text can tell it; what
\* changes is shown as before, unless a set is in it; a container with a string that is no
\* YAML becomes an empty one; a bool is never read back: for all values of all types,
\* however deep containers are nested, and whatever YAML-CPP makes of their strings.
THEOREM EveryRoundTrip == Spec => []RoundTrip
<1>1. IInv => RoundTrip
  <2> SUFFICES ASSUME IInv PROVE RoundTrip
    OBVIOUS
  <2> DEFINE v == val
             T == type
  <2>1. T \in Types /\ v \in Values[T] /\ TripOf(T, v)
    BY EveryTrip DEF IInv
  <2> HIDE DEF T, v
  <2>2. Garbled(T, v) => VarToString(T, v) = Word("") /\ Back(T, v) = <<Collect(Kind(T), Null, <<>>)>>
    <3> SUFFICES ASSUME Garbled(T, v)
                 PROVE  VarToString(T, v) = Word("") /\ Back(T, v) = <<Collect(Kind(T), Null, <<>>)>>
      OBVIOUS
    <3>1. ~Basic(T) /\ ToStr(T, v) = <<>>
      BY <2>1 DEF Garbled, TripOf, Broken
    <3>2. Of(T) \in Types /\ \A e \in Values[Of(T)] : TripOf(Of(T), e)
      BY <2>1, <3>1, TypeFacts, EveryTrip
    <3> QED
      BY <2>1, <3>1, <3>2, FailedTrip
  <2>3. Back(T, v) # <<>> /\ "set" \notin ToSet(T) => VarToString(T, Back(T, v)[1]) = VarToString(T, v)
    <3> SUFFICES ASSUME Back(T, v) # <<>>, "set" \notin ToSet(T)
                 PROVE  VarToString(T, Back(T, v)[1]) = VarToString(T, v)
      OBVIOUS
    <3> DEFINE w == Back(T, v)[1]
               text == VarToString(T, v)
    <3>1. ToStr(T, w) = <<text>>
      BY <2>1 DEF TripOf
    <3> HIDE DEF w, text
    <3>2. <<text>> # <<>> /\ <<text>>[1] = text
      OBVIOUS
    <3>3. VarToString(T, w) = text
      BY <3>1, <3>2 DEF VarToString
    <3> QED
      BY <3>3 DEF w, text
  <2> QED
    BY <2>1, <2>2, <2>3 DEF TripOf, RoundTrip, Back, T, v
<1> QED
  BY <1>1, ValueOfItsType, PTL

LEMMA ReadIs ==
  ASSUME NEW T \in Types, Kind(T) \in Numeric, NEW text \in Texts[T], text.kind = "scalar",
         NEW v, FromStr(T, text) = <<v>>
  PROVE  /\ text.num[1] \in Int
         /\ Kind(T) = "int" => Stol(text.num[1], IntSize) = <<v>>
         /\ Kind(T) = "long" => Stol(text.num[1], LongSize) = <<v>>
         /\ Kind(T) = "uint" => ToUnsigned(text.num[1], IntSize) = <<v>>
         /\ Kind(T) = "ulong" => ToUnsigned(text.num[1], LongSize) = <<v>>
         /\ Kind(T) = "double" => text.num[1] = v
<1>1. Basic(T) /\ Kind(T) \notin {"string", "bool"}
  BY DEF Basic, Kinds, Numeric, Integral
<1>2. FromStr(T, text) = ReadNumber(Kind(T), text)
  BY <1>1, FromStrBasic DEF ReadBasic
<1>3. text.num # <<>>
  <2>1. <<v>> # <<>>
    OBVIOUS
  <2> QED
    BY <1>2, <2>1 DEF ReadNumber
<1>4. text.num[1] \in Int
  <2>1. text.num \in Seq(Int)
    BY TextsAssumption
  <2> QED
    BY <1>3, <2>1
<1>5. Kind(T) = "double" => <<text.num[1]>> = <<v>>
  BY <1>2, <1>3 DEF ReadNumber
<1> QED
  BY <1>2, <1>3, <1>4, <1>5 DEF ReadNumber

LEMMA StolReads ==
  ASSUME NEW n \in Int, NEW M, NEW v, Stol(n, M) = <<v>>
  PROVE  v = Trunc(n)
BY DEF Stol

LEMMA ToUnsignedReads ==
  ASSUME NEW n \in Int, NEW M \in {IntSize, LongSize}, NEW v, ToUnsigned(n, M) = <<v>>
  PROVE  (v - Trunc(n)) % M = 0
<1>1. M \in Nat \ {0} /\ M % 2 = 0 /\ LongSize \in Nat \ {0} /\ Trunc(n) \in Int
  BY NumbersAssumption, EvenSizes, TruncFacts
<1> DEFINE t == Trunc(n)
           u == Unsigned(t, LongSize)
           w == Signed(u, M)
<1>2. Stoul(n) = <<u>>
  <2>1. Stoul(n) \in {<<u>>, <<>>}
    BY DEF Stoul
  <2>2. Stoul(n) # <<>>
    <3>1. Stoul(n) = <<>> => ToUnsigned(n, M) = <<>>
      BY DEF ToUnsigned
    <3>2. <<v>> # <<>>
      OBVIOUS
    <3> QED
      BY <3>1, <3>2
  <2> QED
    BY <2>1, <2>2
<1>3. v = Unsigned(w, M)
  <2>1. DOMAIN Stoul(n) = 1..1 /\ Stoul(n)[1] = u
    BY <1>2
  <2>2. ToUnsigned(n, M)[1] = Unsigned(Signed(Stoul(n)[1], M), M)
    BY <2>1 DEF ToUnsigned
  <2> QED
    BY <2>1, <2>2
<1>4. u \in Int /\ Alike(u, t, M)
  <2>1. u \in 0..LongSize - 1 /\ Alike(u, t, LongSize)
    BY <1>1, UnsignedFacts
  <2>2. u \in Int
    BY <1>1, <2>1
  <2> QED
    BY <1>1, <2>1, <2>2, AlikeInt
<1> HIDE DEF u
<1>5. w \in Int /\ Alike(w, u, M)
  <2>1. w \in -(M \div 2)..M \div 2 - 1 /\ Alike(w, u, M)
    BY <1>1, <1>4, SignedFacts
  <2> QED
    BY <1>1, <2>1
<1> HIDE DEF w
<1>6. v \in Int /\ Alike(v, w, M)
  BY <1>1, <1>3, <1>5, UnsignedFacts
<1> HIDE DEF t
<1>7. t \in Int
  BY <1>1 DEF t
<1>8. Alike(v, t, M)
  BY <1>1, <1>4, <1>5, <1>6, <1>7, AlikeSteps
<1> QED
  BY <1>1, <1>6, <1>7, <1>8, AlikeDifference DEF t

\* A number read is the number of the text, up to its fraction and what follows it, or in
\* an unsigned variable modulo the range: for integers of every width.
THEOREM NumbersAreRead == Spec => []ReadsTheNumber
<1>1. IInv => ReadsTheNumber
  <2> SUFFICES ASSUME IInv, "text" \in DOMAIN read, Kind(type) \in Numeric
               PROVE  ReadsTheNumber
    BY DEF ReadsTheNumber
  <2> DEFINE n == read.text.num[1]
  <2>1. /\ n \in Int
        /\ Kind(type) = "int" => Stol(n, IntSize) = <<val>>
        /\ Kind(type) = "long" => Stol(n, LongSize) = <<val>>
        /\ Kind(type) = "uint" => ToUnsigned(n, IntSize) = <<val>>
        /\ Kind(type) = "ulong" => ToUnsigned(n, LongSize) = <<val>>
        /\ Kind(type) = "double" => n = val
    BY ReadIs DEF IInv
  <2> HIDE DEF n
  <2>2. Kind(type) \in {"int", "long"} => val = Trunc(n)
    BY <2>1, StolReads
  <2>3. Kind(type) = "uint" => (val - Trunc(n)) % IntSize = 0
    BY <2>1, ToUnsignedReads
  <2>4. Kind(type) = "ulong" => (val - Trunc(n)) % LongSize = 0
    BY <2>1, ToUnsignedReads
  <2>5. Kind(type) \in {"int", "long", "uint", "ulong", "double"}
    BY DEF Numeric, Integral
  <2>6. CASE Kind(type) \in {"int", "long"}
    BY <2>2, <2>6 DEF ReadsTheNumber, n
  <2>7. CASE Kind(type) = "uint"
    BY <2>3, <2>7 DEF ReadsTheNumber, n
  <2>8. CASE Kind(type) = "ulong"
    BY <2>4, <2>8 DEF ReadsTheNumber, n
  <2>9. CASE Kind(type) = "double"
    BY <2>1, <2>9 DEF ReadsTheNumber, n
  <2> QED
    BY <2>5, <2>6, <2>7, <2>8, <2>9
<1> QED
  BY <1>1, ValueOfItsType, PTL

\* A load leaves the variable at the last node of its name that converts, and as it was if
\* there is none: for documents of every shape and names of every length.
THEOREM LoadsTakeLast == Spec => LoadTakesLast
<1> DEFINE Takes ==
      "root" \in DOMAIN read' =>
        LET nodes == Named(read'.root)
            good  == {i \in DOMAIN nodes : FromStr(type, NodeText(nodes[i])) # <<>>}
        IN val' = IF good = {} THEN val ELSE FromStr(type, NodeText(nodes[Max(good)]))[1]
<1>1. IInv /\ [Next]_vars => [Takes]_vars
  <2> SUFFICES ASSUME IInv, Next PROVE Takes
    OBVIOUS
  <2>1. ASSUME NEW text \in Texts[type], FromString(text) PROVE Takes
    <3>1. ~("root" \in DOMAIN read')
      <4>1. read' = <<>> \/ read' = [text |-> text]
        BY <2>1 DEF FromString
      <4>2. ~("root" \in DOMAIN <<>>) /\ ~("root" \in DOMAIN [text |-> text])
        OBVIOUS
      <4> QED
        BY <4>1, <4>2
    <3> QED
      BY <3>1
  <2>2. ASSUME NEW root \in Roots[type], LoadFromYaml(root) PROVE Takes
    <3>1. val' = Loaded(type, val, root) /\ read'.root = root
      BY <2>2 DEF LoadFromYaml
    <3>2. root \in Nodes
      BY <2>2, LoadedType DEF IInv
    <3>3. val' = LastGood(type, val, Named(read'.root))
      BY <3>1, <3>2, LoadedLast
    <3> QED
      BY <3>3 DEF LastGood
  <2> QED
    BY <2>1, <2>2 DEF Next
<1> QED
  BY <1>1, ValueOfItsType, PTL DEF Spec, LoadTakesLast

=============================================================================
