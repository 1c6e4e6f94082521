---------------------------- MODULE ImportProofs ----------------------------
(***************************************************************************)
(* Theorems of Import, for any workbooks and inputs of their types, any    *)
(* tolerances and any number of edits and interruptions.                   *)
(*                                                                         *)
(* Whatever the workbook says, the events made of it have ids that tell    *)
(* them apart (Imported), and the tax events of its closed years repeat    *)
(* nothing if no year is listed twice (EachYearOnce).  So what landed of   *)
(* them is known by its content, and a commit that is run again goes on    *)
(* where it was interrupted: CommitInv.                                    *)
(***************************************************************************)
EXTENDS Import, TaxBookProofs, SequenceTheorems

(***************************************************************************)
(* Sequences                                                               *)
(***************************************************************************)
\* No element of a sequence occurs twice.
Unique(s) == \A i, j \in DOMAIN s : s[i] = s[j] => i = j

\* What is in a joined sequence, and when it has no element twice.
LEMMA JoinFacts ==
    ASSUME NEW V, NEW s \in Seq(V), NEW t \in Seq(V)
    PROVE  /\ s \o t \in Seq(V) /\ Len(s \o t) = Len(s) + Len(t)
           /\ \A i \in 1..Len(s) : (s \o t)[i] = s[i]
           /\ \A i \in 1..Len(t) : (s \o t)[Len(s) + i] = t[i]
           /\ Range(s \o t) = Range(s) \cup Range(t)
           /\ Unique(s) /\ Unique(t) /\ Range(s) \cap Range(t) = {} => Unique(s \o t)
<1> DEFINE u == s \o t
           m == Len(s)
           n == Len(t)
<1>1. /\ u \in Seq(V) /\ Len(u) = m + n /\ DOMAIN u = 1..(m + n)
      /\ m \in Nat /\ n \in Nat /\ DOMAIN s = 1..m /\ DOMAIN t = 1..n
      /\ \A i \in 1..m : u[i] = s[i]
      /\ \A i \in (m + 1)..(m + n) : u[i] = t[i - m]
    BY ConcatProperties, LenProperties
<1> HIDE DEF u, m, n
<1>2. ASSUME NEW i \in 1..n PROVE u[m + i] = t[i]
    <2>1. m + i \in (m + 1)..(m + n) /\ (m + i) - m = i
        BY <1>1
    <2> QED
        BY <1>1, <2>1
<1>3. ASSUME NEW k \in 1..(m + n), k \notin 1..m
      PROVE  k \in (m + 1)..(m + n) /\ k - m \in 1..n /\ u[k] = t[k - m]
    <2>1. k \in (m + 1)..(m + n) /\ k - m \in 1..n
        BY <1>1, <1>3
    <2> QED
        BY <1>1, <2>1
<1>4. Range(u) = Range(s) \cup Range(t)
    <2>1. ASSUME NEW x \in Range(u) PROVE x \in Range(s) \cup Range(t)
        <3>1. PICK k \in 1..(m + n) : x = u[k]
            BY <1>1 DEF Range
        <3>2. CASE k \in 1..m
            BY <1>1, <3>1, <3>2 DEF Range
        <3>3. CASE k \notin 1..m
            BY <1>1, <1>3, <3>1, <3>3 DEF Range
        <3> QED
            BY <3>2, <3>3
    <2>2. ASSUME NEW x \in Range(s) PROVE x \in Range(u)
        <3>1. PICK k \in 1..m : x = s[k]
            BY <1>1 DEF Range
        <3>2. k \in 1..(m + n)
            BY <1>1
        <3> QED
            BY <1>1, <3>1, <3>2 DEF Range
    <2>3. ASSUME NEW x \in Range(t) PROVE x \in Range(u)
        <3>1. PICK k \in 1..n : x = t[k]
            BY <1>1 DEF Range
        <3>2. m + k \in 1..(m + n)
            BY <1>1
        <3> QED
            BY <1>1, <1>2, <3>1, <3>2 DEF Range
    <2> QED
        BY <2>1, <2>2, <2>3
<1>5. ASSUME Unique(s), Unique(t), Range(s) \cap Range(t) = {} PROVE Unique(u)
    <2> SUFFICES ASSUME NEW i \in 1..(m + n), NEW j \in 1..(m + n), u[i] = u[j] PROVE i = j
        BY <1>1 DEF Unique
    <2>1. ASSUME NEW k \in 1..m PROVE u[k] \in Range(s)
        BY <1>1 DEF Range
    <2>2. ASSUME NEW k \in 1..(m + n), k \notin 1..m PROVE u[k] \in Range(t)
        BY <1>1, <1>3, <2>2 DEF Range
    <2>3. CASE i \in 1..m /\ j \in 1..m
        BY <1>1, <1>5, <2>3 DEF Unique
    <2>4. CASE i \notin 1..m /\ j \notin 1..m
        <3>1. i - m \in 1..n /\ j - m \in 1..n /\ t[i - m] = t[j - m]
            BY <1>3, <2>4
        <3>2. i - m = j - m
            BY <1>1, <1>5, <3>1 DEF Unique
        <3> QED
            BY <1>1, <3>2
    <2>5. CASE i \in 1..m /\ j \notin 1..m
        BY <1>5, <2>1, <2>2, <2>5
    <2>6. CASE i \notin 1..m /\ j \in 1..m
        BY <1>5, <2>1, <2>2, <2>6
    <2> QED
        BY <2>3, <2>4, <2>5, <2>6
<1> QED
    BY <1>1, <1>2, <1>4, <1>5 DEF u, m, n

\* F holds the sequences that the first m of seqs are joined to.
FlatBy(seqs, m, F) ==
    F = [i \in 1..m |-> IF i = 1 THEN seqs[i] ELSE F[i - 1] \o seqs[i]]

\* There is one for every m.
LEMMA FlatExists ==
    ASSUME NEW seqs, NEW m \in Nat
    PROVE  \E F : FlatBy(seqs, m, F)
<1> DEFINE P == {n \in Nat : \E F : FlatBy(seqs, n, F)}
<1>1. 0 \in P
    <2>1. FlatBy(seqs, 0, [i \in 1..0 |-> <<>>])
        BY DEF FlatBy
    <2> QED
        BY <2>1
<1>2. ASSUME NEW n \in Nat, n \in P PROVE n + 1 \in P
    <2>1. PICK F : FlatBy(seqs, n, F)
        BY <1>2
    <2> DEFINE Term(i) == IF i = 1 THEN seqs[i] ELSE F[i - 1] \o seqs[i]
               G == [i \in 1..(n + 1) |-> Term(i)]
    <2>2. \A i \in 1..n : F[i] = Term(i)
        BY <2>1 DEF FlatBy
    <2> HIDE DEF Term
    <2>3. \A i \in 1..n : G[i] = F[i]
        BY <2>2
    <2>4. ASSUME NEW i \in 1..(n + 1)
          PROVE  G[i] = IF i = 1 THEN seqs[i] ELSE G[i - 1] \o seqs[i]
        <3>1. i # 1 => G[i - 1] = F[i - 1]
            <4>1. i # 1 => i - 1 \in 1..n
                OBVIOUS
            <4> HIDE DEF G
            <4> QED
                BY <2>3, <4>1
        <3>2. G[i] = Term(i)
            OBVIOUS
        <3> HIDE DEF G
        <3> QED
            BY <3>1, <3>2 DEF Term
    <2>5. FlatBy(seqs, n + 1, G)
        BY <2>4 DEF FlatBy
    <2> HIDE DEF G
    <2> QED
        BY <2>5
<1> HIDE DEF P
<1>3. m \in P
    BY <1>1, <1>2, NumberInduction
<1> QED
    BY <1>3 DEF P

\* The elements of the first n sequences.
Elements(seqs, n) == UNION {Range(seqs[i]) : i \in 1..n}

\* Sequences without repetitions that have nothing in common.
Apart(seqs) ==
    /\ \A i \in DOMAIN seqs : Unique(seqs[i])
    /\ \A i, j \in DOMAIN seqs : i # j => Range(seqs[i]) \cap Range(seqs[j]) = {}

\* A flattened sequence has the elements of its sequences, and none twice if they
\* have none in common.
LEMMA FlattenFacts ==
    ASSUME NEW V, NEW seqs \in Seq(Seq(V))
    PROVE  /\ FlattenSeq(seqs) \in Seq(V)
           /\ Range(FlattenSeq(seqs)) = Elements(seqs, Len(seqs))
           /\ Apart(seqs) => Unique(FlattenSeq(seqs))
<1> DEFINE n == Len(seqs)
<1>1. n \in Nat /\ DOMAIN seqs = 1..n /\ \A i \in 1..n : seqs[i] \in Seq(V)
    OBVIOUS
<1> HIDE DEF n
<1>2. CASE n = 0
    <2>1. seqs = <<>> /\ FlattenSeq(seqs) = seqs
        BY <1>2 DEF FlattenSeq, n
    <2>2. FlattenSeq(seqs) = <<>> /\ Range(<<>>) = {} /\ Unique(<<>>)
        BY <2>1 DEF Range, Unique
    <2>3. Elements(seqs, n) = {}
        BY <1>2 DEF Elements
    <2> QED
        BY <2>2, <2>3 DEF n
<1>3. CASE n # 0
    <2> DEFINE F == CHOOSE F : FlatBy(seqs, n, F)
    <2>1. FlattenSeq(seqs) = F[n]
        BY <1>3 DEF FlattenSeq, FlatBy, n
    <2>2. FlatBy(seqs, n, F)
        BY <1>1, FlatExists
    <2> HIDE DEF F
    <2>3. /\ F[1] = seqs[1]
          /\ \A i \in 1..n : i # 1 => F[i] = F[i - 1] \o seqs[i]
        <3>1. 1 \in 1..n
            BY <1>1, <1>3
        <3>2. \A i \in 1..n : F[i] = IF i = 1 THEN seqs[i] ELSE F[i - 1] \o seqs[i]
            BY <2>2 DEF FlatBy
        <3> QED
            BY <3>1, <3>2
    <2> DEFINE OK(i) == /\ F[i] \in Seq(V) /\ Range(F[i]) = Elements(seqs, i)
                        /\ Apart(seqs) => Unique(F[i])
               P == {k \in Nat : k + 1 \in 1..n => OK(k + 1)}
    <2>4. 0 \in P
        <3>1. F[1] \in Seq(V) /\ Range(F[1]) = Elements(seqs, 1)
            BY <1>1, <1>3, <2>3 DEF Elements
        <3>2. Apart(seqs) => Unique(F[1])
            BY <1>1, <1>3, <2>3 DEF Apart
        <3> QED
            BY <3>1, <3>2
    <2>5. ASSUME NEW k \in Nat, k \in P PROVE k + 1 \in P
        <3> SUFFICES ASSUME k + 2 \in 1..n PROVE OK(k + 2)
            BY <1>1
        <3> DEFINE j == k + 2
                   s == F[k + 1]
                   t == seqs[j]
        <3>1. /\ j \in 1..n /\ k + 1 \in 1..n /\ j # 1 /\ j - 1 = k + 1
              /\ 1..j = 1..(k + 1) \cup {j} /\ j \notin 1..(k + 1)
              /\ 1..(k + 1) \subseteq 1..n
            BY <1>1
        <3>2. OK(k + 1)
            BY <2>5, <3>1
        <3>3. F[j] = s \o t
            BY <2>3, <3>1
        <3>4. s \in Seq(V) /\ t \in Seq(V) /\ Range(s) = Elements(seqs, k + 1)
            BY <1>1, <3>1, <3>2
        <3>5. Apart(seqs) => Unique(s) /\ Unique(t)
            BY <1>1, <3>1, <3>2 DEF Apart
        <3>6. Apart(seqs) => Range(s) \cap Range(t) = {}
            <4> SUFFICES ASSUME Apart(seqs), NEW x \in Range(s), x \in Range(t) PROVE FALSE
                OBVIOUS
            <4>1. PICK i \in 1..(k + 1) : x \in Range(seqs[i])
                BY <3>4 DEF Elements
            <4>2. i # j /\ i \in DOMAIN seqs /\ j \in DOMAIN seqs
                BY <1>1, <3>1
            <4> HIDE DEF j
            <4> QED
                BY <4>1, <4>2 DEF Apart
        <3>7. Elements(seqs, j) = Elements(seqs, k + 1) \cup Range(t)
            <4> HIDE DEF j
            <4> QED
                BY <3>1 DEF Elements, t
        <3> HIDE DEF s, t, j
        <3>8. OK(j)
            BY <3>3, <3>4, <3>5, <3>6, <3>7, JoinFacts
        <3> QED
            BY <3>8 DEF j
    <2> HIDE DEF P
    <2>6. n - 1 \in Nat /\ (n - 1) + 1 = n /\ n \in 1..n
        BY <1>1, <1>3
    <2>7. n - 1 \in P
        BY <2>4, <2>5, <2>6, NumberInduction
    <2>8. OK(n)
        BY <2>6, <2>7 DEF P
    <2> QED
        BY <2>1, <2>8 DEF n
<1> QED
    BY <1>2, <1>3

\* A sequence with one more element.
LEMMA AppendFacts ==
    ASSUME NEW s, s \in Seq(Range(s)), NEW e
    PROVE  /\ Append(s, e) \in Seq(Range(Append(s, e)))
           /\ Len(Append(s, e)) = Len(s) + 1 /\ Len(s) \in Nat
           /\ DOMAIN s = 1..Len(s) /\ DOMAIN Append(s, e) = 1..(Len(s) + 1)
           /\ \A i \in 1..Len(s) : Append(s, e)[i] = s[i]
           /\ Append(s, e)[Len(s) + 1] = e
           /\ Range(Append(s, e)) = Range(s) \cup {e}
           /\ \A n \in 0..Len(s) : SubSeq(Append(s, e), 1, n) = SubSeq(s, 1, n)
<1> DEFINE V == Range(s) \cup {e}
           t == Append(s, e)
           n == Len(s)
<1>1. s \in Seq(V)
    OBVIOUS
<1> HIDE DEF V
<1>2. e \in V
    BY DEF V
<1>3. /\ t \in Seq(V) /\ Len(t) = n + 1 /\ n \in Nat
      /\ DOMAIN s = 1..n /\ DOMAIN t = 1..(n + 1)
      /\ \A i \in 1..n : t[i] = s[i]
      /\ t[n + 1] = e
    BY <1>1, <1>2
<1> HIDE DEF t, n
<1>4. t \in Seq(Range(t))
    BY <1>3, SeqOfRange
<1>5. Range(t) = Range(s) \cup {e}
    <2>1. ASSUME NEW x \in Range(t) PROVE x \in Range(s) \cup {e}
        <3>1. PICK i \in 1..(n + 1) : x = t[i]
            BY <1>3 DEF Range
        <3>2. CASE i = n + 1
            BY <1>3, <3>1, <3>2
        <3>3. CASE i # n + 1
            <4>1. i \in 1..n
                BY <1>3, <3>3
            <4> QED
                BY <1>3, <3>1, <4>1 DEF Range
        <3> QED
            BY <3>2, <3>3
    <2>2. ASSUME NEW x \in Range(s) PROVE x \in Range(t)
        <3>1. PICK i \in 1..n : x = s[i]
            BY <1>3 DEF Range
        <3>2. i \in 1..(n + 1)
            BY <1>3
        <3> QED
            BY <1>3, <3>1, <3>2 DEF Range
    <2>3. e \in Range(t)
        <3>1. n + 1 \in 1..(n + 1)
            BY <1>3
        <3> QED
            BY <1>3, <3>1 DEF Range
    <2> QED
        BY <2>1, <2>2, <2>3
<1>6. ASSUME NEW k \in 0..n PROVE SubSeq(t, 1, k) = SubSeq(s, 1, k)
    <2>1. \A i \in 1..k : i \in 1..n /\ i \in 1..(n + 1)
        BY <1>3
    <2>2. \A i \in 1..k : s[i] \in V /\ t[i] \in V
        BY <1>1, <1>3, <2>1
    <2>3. /\ SubSeq(s, 1, k) \in Seq(V) /\ SubSeq(t, 1, k) \in Seq(V)
          /\ \A i \in 1..k : SubSeq(s, 1, k)[i] = s[i] /\ SubSeq(t, 1, k)[i] = t[i]
          /\ Len(SubSeq(s, 1, k)) = k /\ Len(SubSeq(t, 1, k)) = k
        BY <1>3, <2>2, SubSeqProperties
    <2> QED
        BY <1>3, <2>1, <2>3, SeqEqual
<1> QED
    BY <1>3, <1>4, <1>5, <1>6 DEF t, n

\* What is left of a sequence ends it.
LEMMA RestIsSuffix ==
    ASSUME NEW w, w \in Seq(Range(w)), NEW k \in 0..Len(w)
    PROVE  IsSuffix(SubSeq(w, k + 1, Len(w)), w)
<1> DEFINE n == Len(w)
           s == SubSeq(w, k + 1, n)
           m == n - k
<1>1. n \in Nat /\ DOMAIN w = 1..n /\ m \in 0..n /\ k \in Nat
    OBVIOUS
<1>2. \A i \in 1..n : w[i] \in Range(w)
    BY <1>1 DEF Range
<1> HIDE DEF n
<1>3. Len(s) = m /\ \A i \in 1..m : s[i] = w[k + i]
    <2>1. \A i \in (k + 1)..n : w[i] \in Range(w)
        BY <1>1, <1>2
    <2>2. /\ Len(s) = IF k + 1 <= n THEN n - (k + 1) + 1 ELSE 0
          /\ \A i \in 1..(n - (k + 1) + 1) : s[i] = w[k + 1 + i - 1]
        BY <1>1, <2>1, SubSeqProperties
    <2>3. Len(s) = m
        BY <1>1, <2>2
    <2>4. ASSUME NEW i \in 1..m PROVE s[i] = w[k + i]
        <3>1. i \in 1..(n - (k + 1) + 1) /\ k + 1 + i - 1 = k + i
            BY <1>1
        <3> QED
            BY <2>2, <3>1
    <2> QED
        BY <2>3, <2>4
<1> HIDE DEF s, m
<1> DEFINE a == [i \in 1..m |-> s[(m - i) + 1]]
           b == [i \in 1..n |-> w[(n - i) + 1]]
<1>4. Reverse(s) = a /\ Reverse(w) = b
    BY <1>3 DEF Reverse, n
<1>5. ASSUME NEW i \in 1..m PROVE a[i] = b[i]
    <2>1. /\ (m - i) + 1 \in 1..m /\ k + ((m - i) + 1) = (n - i) + 1 /\ i \in 1..n
        BY <1>1 DEF m
    <2> QED
        BY <1>3, <2>1
<1>6. a \in Seq(Range(w)) /\ b \in Seq(Range(w)) /\ Len(a) = m /\ Len(b) = n
    <2>1. \A i \in 1..n : b[i] \in Range(w)
        <3> TAKE i \in 1..n
        <3>1. (n - i) + 1 \in 1..n
            BY <1>1
        <3> QED
            BY <1>2, <3>1
    <2>2. ASSUME NEW i \in 1..m PROVE a[i] \in Range(w)
        <3>1. i \in 1..n
            BY <1>1
        <3> HIDE DEF a, b
        <3> QED
            BY <1>5, <2>1, <3>1
    <2> HIDE DEF m
    <2> QED
        BY <1>1, <2>1, <2>2
<1>7. SubSeq(a, 1, m) = SubSeq(b, 1, m)
    <2>1. m \in Nat /\ m <= n
        BY <1>1
    <2> HIDE DEF a, b
    <2>2. ASSUME NEW i \in 1..m PROVE a[i] \in Range(w) /\ b[i] \in Range(w)
        <3>1. i \in 1..n
            BY <1>1
        <3> QED
            BY <1>6, <3>1, ElementOfSeq
    <2>3. /\ SubSeq(a, 1, m) \in Seq(Range(w)) /\ SubSeq(b, 1, m) \in Seq(Range(w))
          /\ \A i \in 1..m : SubSeq(a, 1, m)[i] = a[i] /\ SubSeq(b, 1, m)[i] = b[i]
          /\ Len(SubSeq(a, 1, m)) = m /\ Len(SubSeq(b, 1, m)) = m
        BY <2>1, <2>2, SubSeqProperties
    <2> QED
        BY <1>5, <2>1, <2>3, SeqEqual
<1> HIDE DEF a, b
<1>8. IsPrefix(a, b)
    BY <1>1, <1>6, <1>7 DEF IsPrefix
<1> QED
    BY <1>4, <1>8 DEF IsSuffix, s, n

\* A sequence without repetitions is as long as its range is large.
LEMMA UniqueIsCounted ==
    ASSUME NEW s, s \in Seq(Range(s)), Unique(s)
    PROVE  Cardinality(Range(s)) = Len(s)
<1> DEFINE n == Len(s)
           R == Range(s)
<1>1. n \in Nat /\ DOMAIN s = 1..n /\ s \in [1..n -> R]
    OBVIOUS
<1> HIDE DEF n
<1>2. \A x \in R : \E i \in 1..n : s[i] = x
    BY <1>1 DEF Range
<1>3. \A i, j \in 1..n : s[i] = s[j] => i = j
    BY <1>1 DEF Unique
<1> HIDE DEF R
<1>4. s \in Bijection(1..n, R)
    BY <1>1, <1>2, <1>3 DEF Bijection, Injection, IsInjective, Surjection
<1>5. ExistsBijection(1..n, R)
    BY <1>4 DEF ExistsBijection
<1>6. Cardinality(R) = n
    BY <1>1, <1>5, FS_CountingElements
<1> QED
    BY <1>6 DEF n, R

(***************************************************************************)
(* The workbook and what is made of it                                     *)
(***************************************************************************)
\* Rows that are numbered and dated.
RowsOK(S) ==
    /\ IsFiniteSet(S)
    /\ \A r \in S : {"row", "date"} \subseteq DOMAIN r /\ r.row \in Int /\ r.date \in Int
    /\ \A r, s \in S : r.row = s.row => r = s

\* Some of the rows are rows.
LEMMA SomeRows ==
    ASSUME NEW S, RowsOK(S), NEW T \in SUBSET S
    PROVE  RowsOK(T)
    BY FS_Subset DEF RowsOK

\* So are the rows that a mapping makes of each of them, when it leaves the numbers.
LEMMA MappedRows ==
    ASSUME NEW S, IsFiniteSet(S), \A r, s \in S : r.row = s.row => r = s, NEW f,
           \A r \in S : /\ f[r].row = r.row /\ f[r].row \in Int /\ f[r].date \in Int
                        /\ {"row", "date"} \subseteq DOMAIN f[r]
    PROVE  RowsOK({f[r] : r \in S})
<1>1. IsFiniteSet({f[r] : r \in S})
    BY FiniteImage
<1>2. ASSUME NEW x \in {f[r] : r \in S}, NEW y \in {f[r] : r \in S}, x.row = y.row PROVE x = y
    <2>1. PICK r \in S : x = f[r]
        OBVIOUS
    <2>2. PICK s \in S : y = f[s]
        OBVIOUS
    <2>3. r.row = s.row
        BY <1>2, <2>1, <2>2
    <2> QED
        BY <2>1, <2>2, <2>3
<1> QED
    BY <1>1, <1>2 DEF RowsOK

\* The date of a row that has one.
LEMMA DateOfRow ==
    ASSUME NEW d, d \subseteq Int, \A x, y \in d : x = y, d # {}
    PROVE  ValueOf(d) \in Int
<1>1. PICK x \in Int : x \in d
    OBVIOUS
<1>2. d = {x}
    BY <1>1
<1> QED
    BY <1>2, ValueOfOne

\* The rows of a workbook of Books, parsed and mapped, are rows.
LEMMA WorkbookRows ==
    ASSUME NEW b \in Books
    PROVE  RowsOK(Workbook(b).actions) /\ RowsOK(Workbook(b).sales)
<1> DEFINE inputs == b.inputs
           R == {a \in b.sheet.actions : ReadableAction(a)}
           Q == {t \in b.sheet.sales : ReadableSale(t)}
           parsed == ParseLegacyTabs(b.sheet, inputs)
           kept == Kept(parsed, inputs)
<1>1. ASSUME NEW rows \in {b.sheet.actions, b.sheet.sales}
      PROVE  /\ IsFiniteSet(rows)
             /\ \A r \in rows : r.row \in Int /\ r.date \subseteq Int /\ \A c, d \in r.date : c = d
             /\ \A r, s \in rows : r.row = s.row => r = s
    BY BooksAssumption
<1>2. RowsOK(parsed.actions)
    <2> DEFINE f == [a \in R |-> ParsedAction(inputs, a)]
    <2>1. parsed.actions = {f[a] : a \in R}
        <3>1. parsed.actions = {ParsedAction(inputs, a) : a \in R}
            BY DEF ParseLegacyTabs
        <3> QED
            BY <3>1
    <2>2. IsFiniteSet(R) /\ R \in SUBSET b.sheet.actions
        BY <1>1, FS_Subset
    <2>3. ASSUME NEW a \in R
          PROVE  /\ f[a].row = a.row /\ f[a].row \in Int /\ f[a].date \in Int
                 /\ {"row", "date"} \subseteq DOMAIN f[a]
        <3>1. ValueOf(a.date) \in Int
            BY <1>1, DateOfRow DEF ReadableAction, HasRequired
        <3>2. f[a] = ParsedAction(inputs, a)
            OBVIOUS
        <3> QED
            BY <1>1, <3>1, <3>2 DEF ParsedAction
    <2> HIDE DEF f
    <2>4. RowsOK({f[a] : a \in R})
        BY <1>1, <2>2, <2>3, MappedRows
    <2> QED
        BY <2>1, <2>4
<1>3. RowsOK(parsed.sales)
    <2> DEFINE actions == {ParsedAction(inputs, a) : a \in R}
               f == [s \in Q |-> ParsedSale(inputs, actions, s)]
    <2>1. parsed.sales = {f[s] : s \in Q}
        <3>1. parsed.sales = {ParsedSale(inputs, actions, s) : s \in Q}
            BY DEF ParseLegacyTabs
        <3> QED
            BY <3>1
    <2> HIDE DEF actions
    <2>2. IsFiniteSet(Q) /\ Q \in SUBSET b.sheet.sales
        BY <1>1, FS_Subset
    <2>3. ASSUME NEW s \in Q
          PROVE  /\ f[s].row = s.row /\ f[s].row \in Int /\ f[s].date \in Int
                 /\ {"row", "date"} \subseteq DOMAIN f[s]
        <3>1. ValueOf(s.date) \in Int
            BY <1>1, DateOfRow DEF ReadableSale, HasRequired
        <3>2. f[s] = ParsedSale(inputs, actions, s)
            OBVIOUS
        <3> QED
            BY <1>1, <3>1, <3>2 DEF ParsedSale
    <2> HIDE DEF f
    <2>4. RowsOK({f[s] : s \in Q})
        BY <1>1, <2>2, <2>3, MappedRows
    <2> QED
        BY <2>1, <2>4
<1> HIDE DEF parsed
<1>4. RowsOK(kept.actions)
    <2>1. kept.actions \in SUBSET parsed.actions
        BY DEF Kept
    <2> QED
        BY <1>2, <2>1, SomeRows
<1>5. RowsOK(kept.sales)
    <2> DEFINE S == {t \in parsed.sales : \A s \in inputs.excluded : ~SameLetters(t.symbol, s)}
               f == [s \in S |-> Remapped(inputs, s)]
    <2>1. kept.sales = {f[s] : s \in S}
        <3>1. kept.sales = {Remapped(inputs, s) : s \in S}
            BY DEF Kept
        <3> QED
            BY <3>1
    <2>2. RowsOK(S)
        BY <1>3, SomeRows
    <2> HIDE DEF S
    <2>3. ASSUME NEW s \in S
          PROVE  /\ f[s].row = s.row /\ f[s].row \in Int /\ f[s].date \in Int
                 /\ {"row", "date"} \subseteq DOMAIN f[s]
        <3>1. f[s] = Remapped(inputs, s)
            OBVIOUS
        <3>2. {"row", "date"} \subseteq DOMAIN s /\ s.row \in Int /\ s.date \in Int
            BY <2>2 DEF RowsOK
        <3> HIDE DEF f
        <3> QED
            BY <3>1, <3>2 DEF Remapped
    <2> HIDE DEF f
    <2>4. RowsOK({f[s] : s \in S})
        BY <2>2, <2>3, MappedRows DEF RowsOK
    <2> QED
        BY <2>1, <2>4
<1>6. /\ Workbook(b).actions = {Reframed(inputs, a) : a \in kept.actions}
      /\ Workbook(b).sales = {Reframed(inputs, s) : s \in kept.sales}
    <2>1. {"actions", "sales"} \subseteq DOMAIN kept
        BY DEF Kept
    <2>2. Workbook(b) = [kept EXCEPT !.actions = {Reframed(inputs, a) : a \in @},
                                     !.sales = {Reframed(inputs, s) : s \in @}]
        BY DEF Workbook, ApplyOwnerMappings, parsed
    <2> HIDE DEF kept
    <2> QED
        BY <2>1, <2>2
<1> HIDE DEF kept
<1>7. ASSUME NEW S, RowsOK(S) PROVE RowsOK({Reframed(inputs, r) : r \in S})
    <2> DEFINE f == [r \in S |-> Reframed(inputs, r)]
    <2>1. {Reframed(inputs, r) : r \in S} = {f[r] : r \in S}
        OBVIOUS
    <2>2. ASSUME NEW r \in S
          PROVE  /\ f[r].row = r.row /\ f[r].row \in Int /\ f[r].date \in Int
                 /\ {"row", "date"} \subseteq DOMAIN f[r]
        <3>1. f[r] = Reframed(inputs, r)
            OBVIOUS
        <3>2. {"row", "date"} \subseteq DOMAIN r /\ r.row \in Int /\ r.date \in Int
            BY <1>7 DEF RowsOK
        <3> HIDE DEF f
        <3> QED
            BY <3>1, <3>2 DEF Reframed
    <2> HIDE DEF f
    <2>3. RowsOK({f[r] : r \in S})
        BY <1>7, <2>2, MappedRows DEF RowsOK
    <2> QED
        BY <2>1, <2>3
<1> QED
    BY <1>4, <1>5, <1>6, <1>7

\* An imported lot is bought or vests.
LEMMA ActionKinds ==
    ASSUME NEW b \in Books
    PROVE  \A a \in Workbook(b).actions : a.kind \in {"Buy", "Vest"}
<1> DEFINE inputs == b.inputs
           parsed == ParseLegacyTabs(b.sheet, inputs)
           kept == Kept(parsed, inputs)
<1>1. ASSUME NEW a \in parsed.actions PROVE "kind" \in DOMAIN a /\ a.kind \in {"Buy", "Vest"}
    <2>1. PICK r \in b.sheet.actions : a = ParsedAction(inputs, r)
        BY DEF ParseLegacyTabs
    <2> QED
        BY <2>1 DEF ParsedAction
<1> HIDE DEF parsed
<1>2. kept.actions \subseteq parsed.actions
    BY DEF Kept
<1>3. Workbook(b).actions = {Reframed(inputs, a) : a \in kept.actions}
    <2>1. {"actions", "sales"} \subseteq DOMAIN kept
        BY DEF Kept
    <2>2. Workbook(b) = [kept EXCEPT !.actions = {Reframed(inputs, a) : a \in @},
                                     !.sales = {Reframed(inputs, s) : s \in @}]
        BY DEF Workbook, ApplyOwnerMappings, parsed
    <2> HIDE DEF kept
    <2> QED
        BY <2>1, <2>2
<1> HIDE DEF kept
<1>4. ASSUME NEW a \in parsed.actions PROVE Reframed(inputs, a).kind = a.kind
    BY <1>1 DEF Reframed
<1> QED
    BY <1>1, <1>2, <1>3, <1>4

\* A sequence, of whatever.
IsSeq(s) == s \in Seq(Range(s))

\* The lots a sale names, if it names any, are named in a sequence.
NamesLots(e) == e.kind = "Sell" /\ e.refs # <<>> => IsSeq(e.refs)

\* Events of an import, none of which has the id of another.
Imported(l) ==
    /\ Len(l) \in Nat /\ DOMAIN l = 1..Len(l) /\ l \in Seq(Range(l))
    /\ \A n \in DOMAIN l : l[n].id[1] \in Origins /\ ~IsTaxEvent(l[n]) /\ NamesLots(l[n])
    /\ \A m, n \in DOMAIN l : l[m].id = l[n].id => m = n

\* Items that the order of the reconstruction tells apart.
ItemsOK(items) ==
    /\ IsFiniteSet(items)
    /\ \A i \in items : i.date \in Int /\ i.rank \in Int /\ i.row \in Int
    /\ \A i \in items : i.event.id[1] \in Origins /\ ~IsTaxEvent(i.event) /\ NamesLots(i.event)
    /\ \A i, j \in items : i.rank = j.rank /\ i.row = j.row => i = j
    /\ \A i, j \in items : i.event.id = j.event.id => i = j

\* The events of the items in their order.
Listed(items) ==
    [n \in 1..Cardinality(items) |->
        (CHOOSE i \in items : Cardinality({j \in items : Before(j, i)}) = n - 1).event]

\* Every item has its place.
LEMMA ItemsAreListed ==
    ASSUME NEW items, ItemsOK(items)
    PROVE  Imported(Listed(items))
<1> DEFINE R == {p \in items \X items : Before(p[1], p[2])}
           Place(i, n) == Cardinality({j \in items : Before(j, i)}) = n - 1
           c(n) == CHOOSE i \in items : Place(i, n)
           N == Cardinality(items)
<1>1. N \in Nat /\ IsFiniteSet(items)
    BY FS_CardinalityType DEF ItemsOK
<1>2. \A i \in items : Ahead(R, items, i) = {j \in items : Before(j, i)}
    BY DEF Ahead
<1>3. StrictOrder(R, items)
    <2>1. \A i \in items : i.date \in Int /\ i.rank \in Int /\ i.row \in Int
        BY DEF ItemsOK
    <2>2. \A x, y \in items : <<x, y>> \in R <=> Before(x, y)
        OBVIOUS
    <2> HIDE DEF R
    <2>3. \A x \in items : ~Before(x, x)
        BY <2>1 DEF Before
    <2>4. \A x, y, z \in items : Before(x, y) /\ Before(y, z) => Before(x, z)
        BY <2>1 DEF Before
    <2>5. ASSUME NEW x \in items, NEW y \in items, x # y PROVE Before(x, y) \/ Before(y, x)
        <3>1. x.rank # y.rank \/ x.row # y.row
            BY <2>5 DEF ItemsOK
        <3> QED
            BY <2>1, <3>1 DEF Before
    <2> QED
        BY <2>2, <2>3, <2>4, <2>5 DEF StrictOrder
<1> HIDE DEF R, N
<1>4. ASSUME NEW n \in 1..N PROVE c(n) \in items /\ Place(c(n), n)
    <2>1. n - 1 \in 0..(N - 1)
        BY <1>1
    <2>2. \A r \in 0..(N - 1) : \E k \in items : Cardinality(Ahead(R, items, k)) = r
        BY <1>1, <1>3, RanksAreDense DEF N
    <2>3. \E i \in items : Cardinality(Ahead(R, items, i)) = n - 1
        BY <2>1, <2>2
    <2>4. \E i \in items : Place(i, n)
        BY <1>2, <2>3
    <2> QED
        BY <2>4
<1> DEFINE l == Listed(items)
<1>5. l = [n \in 1..N |-> c(n).event]
    BY DEF Listed, N
<1> HIDE DEF l, c
<1>6. Len(l) = N /\ DOMAIN l = 1..N /\ \A n \in 1..N : l[n] = c(n).event
    BY <1>1, <1>5
<1>7. l \in Seq(Range(l))
    <2>1. \A n \in 1..N : c(n).event \in Range(l)
        BY <1>6 DEF Range
    <2> QED
        BY <1>1, <1>5, <2>1
<1>8. \A n \in 1..N : l[n].id[1] \in Origins /\ ~IsTaxEvent(l[n]) /\ NamesLots(l[n])
    BY <1>4, <1>6 DEF ItemsOK
<1>9. ASSUME NEW m \in 1..N, NEW n \in 1..N, l[m].id = l[n].id PROVE m = n
    <2>1. c(m) = c(n)
        BY <1>4, <1>6, <1>9 DEF ItemsOK
    <2>2. m - 1 = n - 1
        BY <1>4, <2>1
    <2> QED
        BY <2>2
<1> QED
    BY <1>1, <1>6, <1>7, <1>8, <1>9 DEF Imported, l

\* What the import reconstructs of numbered rows.
LEMMA StreamIsImported ==
    ASSUME NEW wb, NEW inputs, RowsOK(wb.actions), RowsOK(wb.sales),
           \A a \in wb.actions : a.kind \in {"Buy", "Vest"}, inputs.splits \in Seq(CorporateActions)
    PROVE  Imported(Reconstruct(wb, inputs))
<1> DEFINE A == {a \in wb.actions : a.price # {}}
           S == {s \in wb.sales : s.price # {}}
           D == DOMAIN inputs.splits
           fa == [a \in A |-> OpenItem(a)]
           fs == [s \in S |-> SellItem(wb, inputs, s)]
           fd == [i \in D |-> SplitItem(inputs, i)]
           opens == {fa[a] : a \in A}
           sells == {fs[s] : s \in S}
           splits == {fd[i] : i \in D}
           items == opens \cup splits \cup sells
<1>1. RowsOK(A) /\ RowsOK(S)
    BY SomeRows
<1>2. IsFiniteSet(D) /\ D \subseteq Int /\ \A i \in D : inputs.splits[i].date \in Int
    <2>1. Len(inputs.splits) \in Nat /\ D = 1..Len(inputs.splits)
        OBVIOUS
    <2>2. \A i \in D : inputs.splits[i] \in CorporateActions
        OBVIOUS
    <2>3. \A i \in D : inputs.splits[i].date \in Int
        BY <2>2 DEF CorporateActions
    <2> HIDE DEF D
    <2>4. IsFiniteSet(D) /\ D \subseteq Int
        <3> DEFINE n == Len(inputs.splits)
        <3> HIDE DEF n
        <3> QED
            BY <2>1, FS_Interval DEF n
    <2> QED
        BY <2>3, <2>4
<1>3. Reconstruct(wb, inputs) = Listed(items)
    <2>1. /\ opens = {OpenItem(a) : a \in A}
          /\ splits = {SplitItem(inputs, i) : i \in D}
          /\ sells = {SellItem(wb, inputs, s) : s \in S}
        OBVIOUS
    <2> HIDE DEF opens, splits, sells
    <2> QED
        BY <2>1 DEF Reconstruct, Listed
<1>4. ASSUME NEW a \in A
      PROVE  /\ fa[a].date = a.date /\ fa[a].rank = 0 /\ fa[a].row = a.row
             /\ fa[a].event.id[1] = "Stock Actions" /\ fa[a].event.id[2] = a.row
    BY DEF OpenItem
<1>5. ASSUME NEW s \in S
      PROVE  /\ fs[s].date = s.date /\ fs[s].rank = 2 /\ fs[s].row = s.row
             /\ fs[s].event.id[1] = "Stock Sales" /\ fs[s].event.id[2] = s.row
    BY DEF SellItem
<1>6. ASSUME NEW i \in D
      PROVE  /\ fd[i].date = inputs.splits[i].date /\ fd[i].rank = 1 /\ fd[i].row = i
             /\ fd[i].event.id[1] = "Corporate Actions" /\ fd[i].event.id[2] = i
    BY DEF SplitItem
<1>12. \A x \in opens \cup splits \cup sells : ~IsTaxEvent(x.event)
    <2>1. ASSUME NEW a \in A PROVE ~IsTaxEvent(fa[a].event)
        BY DEF OpenItem, IsTaxEvent
    <2>2. ASSUME NEW s \in S PROVE ~IsTaxEvent(fs[s].event)
        BY DEF SellItem, IsTaxEvent
    <2>3. ASSUME NEW i \in D PROVE ~IsTaxEvent(fd[i].event)
        BY DEF SplitItem, IsTaxEvent
    <2> HIDE DEF fa, fs, fd
    <2> QED
        BY <2>1, <2>2, <2>3
<1>13. \A x \in opens \cup splits \cup sells : NamesLots(x.event)
    <2>1. ASSUME NEW a \in A PROVE NamesLots(fa[a].event)
        <3>1. fa[a].event.kind = a.kind /\ a.kind \in {"Buy", "Vest"}
            BY DEF OpenItem
        <3> QED
            BY <3>1 DEF NamesLots
    <2>2. ASSUME NEW s \in S PROVE NamesLots(fs[s].event)
        <3>1. fs[s].event.refs = <<[lot |-> s.id, qty |-> s.qty]>>
            BY DEF SellItem
        <3>2. \A x : IsSeq(<<x>>)
            BY DEF IsSeq, Range
        <3> QED
            BY <3>1, <3>2 DEF NamesLots
    <2>3. ASSUME NEW i \in D PROVE NamesLots(fd[i].event)
        BY DEF SplitItem, NamesLots
    <2> HIDE DEF fa, fs, fd
    <2> QED
        BY <2>1, <2>2, <2>3
<1> HIDE DEF fa, fs, fd
<1>7. IsFiniteSet(opens) /\ IsFiniteSet(splits) /\ IsFiniteSet(sells)
    <2>1. IsFiniteSet(A) /\ IsFiniteSet(S) /\ IsFiniteSet(D)
        BY <1>1, <1>2 DEF RowsOK
    <2> HIDE DEF A, S, D
    <2> QED
        BY <2>1, FiniteImage
<1> HIDE DEF A, S, D
<1>8. ASSUME NEW x \in opens
      PROVE  /\ x.date \in Int /\ x.row \in Int /\ x.rank = 0
             /\ x.event.id[1] = "Stock Actions" /\ x.event.id[2] = x.row
             /\ \A y \in opens : x.row = y.row => x = y
    <2>1. PICK a \in A : x = fa[a]
        OBVIOUS
    <2>2. ASSUME NEW y \in opens, x.row = y.row PROVE x = y
        <3>1. PICK c \in A : y = fa[c]
            OBVIOUS
        <3>2. a.row = c.row
            BY <1>4, <2>1, <2>2, <3>1
        <3> QED
            BY <1>1, <2>1, <3>1, <3>2 DEF RowsOK
    <2>3. a.row \in Int /\ a.date \in Int
        BY <1>1 DEF RowsOK
    <2> HIDE DEF opens
    <2> QED
        BY <1>4, <2>1, <2>2, <2>3
<1>9. ASSUME NEW x \in sells
      PROVE  /\ x.date \in Int /\ x.row \in Int /\ x.rank = 2
             /\ x.event.id[1] = "Stock Sales" /\ x.event.id[2] = x.row
             /\ \A y \in sells : x.row = y.row => x = y
    <2>1. PICK s \in S : x = fs[s]
        OBVIOUS
    <2>2. ASSUME NEW y \in sells, x.row = y.row PROVE x = y
        <3>1. PICK c \in S : y = fs[c]
            OBVIOUS
        <3>2. s.row = c.row
            BY <1>5, <2>1, <2>2, <3>1
        <3> QED
            BY <1>1, <2>1, <3>1, <3>2 DEF RowsOK
    <2>3. s.row \in Int /\ s.date \in Int
        BY <1>1 DEF RowsOK
    <2> HIDE DEF sells
    <2> QED
        BY <1>5, <2>1, <2>2, <2>3
<1>10. ASSUME NEW x \in splits
       PROVE  /\ x.date \in Int /\ x.row \in Int /\ x.rank = 1
              /\ x.event.id[1] = "Corporate Actions" /\ x.event.id[2] = x.row
              /\ \A y \in splits : x.row = y.row => x = y
    <2>1. PICK i \in D : x = fd[i]
        OBVIOUS
    <2>2. ASSUME NEW y \in splits, x.row = y.row PROVE x = y
        <3>1. PICK j \in D : y = fd[j]
            OBVIOUS
        <3>2. x.row = i /\ y.row = j
            BY <1>6, <2>1, <3>1
        <3>3. i = j
            BY <2>2, <3>2
        <3> QED
            BY <2>1, <3>1, <3>3
    <2> HIDE DEF splits
    <2> QED
        BY <1>2, <1>6, <2>1, <2>2
<1>11. ItemsOK(items)
    <2>1. IsFiniteSet(items)
        BY <1>7, FS_Union
    <2> HIDE DEF opens, splits, sells
    <2>2. ASSUME NEW x \in items
          PROVE  /\ x.date \in Int /\ x.rank \in Int /\ x.row \in Int /\ x.event.id[1] \in Origins
                 /\ x.event.id[2] = x.row
        <3>0. "Stock Actions" \in Origins /\ "Stock Sales" \in Origins /\ "Corporate Actions" \in Origins
            BY DEF Origins
        <3> HIDE DEF items
        <3>1. CASE x \in opens
            <4>1. x.rank = 0 /\ x.event.id[1] = "Stock Actions"
                BY <1>8, <3>1
            <4>2. x.date \in Int /\ x.row \in Int /\ x.event.id[2] = x.row
                BY <1>8, <3>1
            <4>3. x.rank \in Int
                <5>1. x.rank = 0
                    BY <4>1
                <5> QED
                    BY <5>1
            <4> QED
                BY <3>0, <4>1, <4>2, <4>3
        <3>2. CASE x \in sells
            <4>1. x.rank = 2 /\ x.event.id[1] = "Stock Sales"
                BY <1>9, <3>2
            <4>2. x.date \in Int /\ x.row \in Int /\ x.event.id[2] = x.row
                BY <1>9, <3>2
            <4>3. x.rank \in Int
                <5>1. x.rank = 2
                    BY <4>1
                <5> QED
                    BY <5>1
            <4> QED
                BY <3>0, <4>1, <4>2, <4>3
        <3>3. CASE x \in splits
            <4>1. x.rank = 1 /\ x.event.id[1] = "Corporate Actions"
                BY <1>10, <3>3
            <4>2. x.date \in Int /\ x.row \in Int /\ x.event.id[2] = x.row
                BY <1>10, <3>3
            <4>3. x.rank \in Int
                <5>1. x.rank = 1
                    BY <4>1
                <5> QED
                    BY <5>1
            <4> QED
                BY <3>0, <4>1, <4>2, <4>3
        <3>4. x \in opens \/ x \in sells \/ x \in splits
            BY DEF items
        <3> QED
            BY <3>1, <3>2, <3>3, <3>4
    <2>5. \A x \in items : x \in opens \/ x \in sells \/ x \in splits
        OBVIOUS
    <2>6. \A x \in opens : x.rank = 0
        BY <1>8
    <2>7. \A x \in sells : x.rank = 2
        BY <1>9
    <2>8. \A x \in splits : x.rank = 1
        BY <1>10
    <2>3. ASSUME NEW x \in items, NEW y \in items, x.rank = y.rank, x.row = y.row PROVE x = y
        <3>1. CASE x \in opens
            <4>1. y \in opens
                BY <2>3, <2>5, <2>6, <2>7, <2>8, <3>1
            <4> QED
                BY <1>8, <2>3, <3>1, <4>1
        <3>2. CASE x \in sells
            <4>1. y \in sells
                BY <2>3, <2>5, <2>6, <2>7, <2>8, <3>2
            <4> QED
                BY <1>9, <2>3, <3>2, <4>1
        <3>3. CASE x \in splits
            <4>1. y \in splits
                BY <2>3, <2>5, <2>6, <2>7, <2>8, <3>3
            <4> QED
                BY <1>10, <2>3, <3>3, <4>1
        <3> QED
            BY <3>1, <3>2, <3>3
    <2>4. ASSUME NEW x \in items, NEW y \in items, x.event.id = y.event.id PROVE x = y
        <3>1. x.row = y.row
            BY <2>2, <2>4
        <3>2. x.event.id[1] = y.event.id[1]
            BY <2>4
        <3>3. x.rank = y.rank
            BY <1>8, <1>9, <1>10, <3>2
        <3> QED
            BY <2>3, <3>1, <3>3
    <2>9. \A x \in items : ~IsTaxEvent(x.event) /\ NamesLots(x.event)
        BY <1>12, <1>13
    <2> HIDE DEF items
    <2> QED
        BY <2>1, <2>2, <2>3, <2>4, <2>9 DEF ItemsOK
<1> QED
    BY <1>3, <1>11, ItemsAreListed

\* The jurisdiction and year of a tax event of the import.
BucketOf(e) ==
    IF e.kind \in {"SeedMigration", "Pay"} THEN <<e.jur, e.year>> ELSE <<e.key.jur, e.key.year>>

\* A closed year's events are of it, and of five kinds.
LEMMA LifecycleFacts ==
    ASSUME NEW cy
    PROVE  /\ MigrationLifecycle(cy) \in Seq(Range(MigrationLifecycle(cy)))
           /\ Unique(MigrationLifecycle(cy))
           /\ \A e \in Range(MigrationLifecycle(cy)) : BucketOf(e) = <<cy.jur, cy.year>> /\ IsTaxEvent(e)
<1> DEFINE key == MigrationKey(cy.jur, cy.year)
           on == DaysFromCivil(cy.year, 12, 31)
           e1 == [kind |-> "SeedMigration", jur |-> cy.jur, year |-> cy.year, amount |-> cy.amount]
           e2 == [kind |-> "AmountOverride", key |-> key, amount |-> cy.amount]
           e3 == [kind |-> "Allocate", key |-> key, label |-> cy.label]
           e4 == [kind |-> "Move", key |-> key, amount |-> cy.amount, on |-> on]
           e5 == [kind |-> "Pay", jur |-> cy.jur, year |-> cy.year, amount |-> cy.amount,
                  covers |-> <<key>>, on |-> on]
<1>1. MigrationLifecycle(cy) = <<e1, e2, e3, e4, e5>>
    BY DEF MigrationLifecycle
<1>2. key.jur = cy.jur /\ key.year = cy.year
    BY DEF MigrationKey
<1> HIDE DEF key, on
<1>3. /\ e1.kind = "SeedMigration" /\ e2.kind = "AmountOverride" /\ e3.kind = "Allocate"
      /\ e4.kind = "Move" /\ e5.kind = "Pay"
    OBVIOUS
<1>4. \A e \in {e1, e2, e3, e4, e5} : BucketOf(e) = <<cy.jur, cy.year>>
    BY <1>2 DEF BucketOf
<1> HIDE DEF e1, e2, e3, e4, e5
<1>5. \A e \in {e1, e2, e3, e4, e5} : IsTaxEvent(e)
    BY <1>3 DEF IsTaxEvent
<1> DEFINE l == <<e1, e2, e3, e4, e5>>
<1>6. /\ Len(l) = 5 /\ DOMAIN l = 1..5 /\ l \in Seq({e1, e2, e3, e4, e5})
      /\ l[1] = e1 /\ l[2] = e2 /\ l[3] = e3 /\ l[4] = e4 /\ l[5] = e5
    OBVIOUS
<1> HIDE DEF l
<1>7. Range(l) = {e1, e2, e3, e4, e5}
    <2>1. 1..5 = {1, 2, 3, 4, 5}
        OBVIOUS
    <2> QED
        BY <1>6, <2>1 DEF Range
<1>8. Unique(l)
    <2>1. \A i \in 1..5 : i = 1 \/ i = 2 \/ i = 3 \/ i = 4 \/ i = 5
        OBVIOUS
    <2>2. \A i, j \in 1..5 : l[i].kind = l[j].kind => i = j
        BY <1>3, <1>6, <2>1
    <2> QED
        BY <1>6, <2>2 DEF Unique
<1> QED
    BY <1>1, <1>4, <1>5, <1>6, <1>7, <1>8 DEF l

\* No jurisdiction's year is closed twice.
ListedOnce(years) ==
    \A i, j \in DOMAIN years :
        years[i].jur = years[j].jur /\ years[i].year = years[j].year => i = j

\* The tax events of a list of closed years are their lifecycles.
LEMMA MigrationFacts ==
    ASSUME NEW years \in Seq(ClosedYears)
    PROVE  /\ MigrationTaxEvents(years) \in Seq(Range(MigrationTaxEvents(years)))
           /\ Range(MigrationTaxEvents(years))
                  = UNION {Range(MigrationLifecycle(years[i])) : i \in DOMAIN years}
           /\ \A e \in Range(MigrationTaxEvents(years)) : IsTaxEvent(e)
           /\ ListedOnce(years) => Unique(MigrationTaxEvents(years))
<1> DEFINE n == Len(years)
           life == [i \in DOMAIN years |-> MigrationLifecycle(years[i])]
           V == UNION {Range(MigrationLifecycle(years[i])) : i \in DOMAIN years}
           T == MigrationTaxEvents(years)
<1>1. n \in Nat /\ DOMAIN years = 1..n
    OBVIOUS
<1>2. DOMAIN life = 1..n /\ \A i \in 1..n : life[i] = MigrationLifecycle(years[i])
    BY <1>1
<1>3. T = FlattenSeq(life)
    BY DEF MigrationTaxEvents
<1> HIDE DEF life, T
<1>4. \A i \in 1..n : life[i] \in Seq(V)
    <2> SUFFICES ASSUME NEW i \in 1..n PROVE life[i] \in Seq(V)
        OBVIOUS
    <2> DEFINE R == Range(MigrationLifecycle(years[i]))
    <2>1. life[i] \in Seq(R)
        BY <1>2, LifecycleFacts
    <2>2. R \subseteq V
        BY <1>1
    <2> HIDE DEF R, V
    <2> QED
        BY <2>1, <2>2
<1>5. life \in Seq(Seq(V)) /\ Len(life) = n
    <2> HIDE DEF V, n
    <2>1. life = [i \in 1..n |-> life[i]]
        BY <1>2 DEF life
    <2> QED
        BY <1>1, <1>2, <1>4, <2>1
<1>6. V = Elements(life, n)
    <2> HIDE DEF n
    <2> QED
        BY <1>1, <1>2 DEF Elements
<1> HIDE DEF V
<1>7. T \in Seq(V) /\ Range(T) = V /\ (Apart(life) => Unique(T))
    BY <1>3, <1>5, <1>6, FlattenFacts
<1>8. ASSUME NEW e \in V PROVE IsTaxEvent(e)
    <2>1. PICK i \in 1..n : e \in Range(MigrationLifecycle(years[i]))
        BY <1>1 DEF V
    <2> QED
        BY <2>1, LifecycleFacts
<1>9. ASSUME ListedOnce(years) PROVE Apart(life)
    <2>1. \A i \in 1..n : Unique(life[i])
        BY <1>2, LifecycleFacts
    <2>2. ASSUME NEW i \in 1..n, NEW j \in 1..n, NEW e \in Range(life[i]), e \in Range(life[j])
          PROVE  i = j
        <3>1. BucketOf(e) = <<years[i].jur, years[i].year>> /\ BucketOf(e) = <<years[j].jur, years[j].year>>
            BY <1>2, <2>2, LifecycleFacts
        <3>2. years[i].jur = years[j].jur /\ years[i].year = years[j].year
            BY <3>1
        <3> QED
            BY <1>1, <1>9, <3>2 DEF ListedOnce
    <2> HIDE DEF n
    <2> QED
        BY <1>2, <2>1, <2>2 DEF Apart
<1> QED
    BY <1>7, <1>8, <1>9 DEF T, V

(***************************************************************************)
(* The invariant of a commit                                               *)
(***************************************************************************)
\* Every year of every workbook's inputs is listed once.
EachYearOnce == \A b \in Books : ListedOnce(b.inputs.years)

\* What a report's streams are, whatever it says of them.
RunOK(run) ==
    /\ Imported(run.ledger)
    /\ run.tax \in Seq(Range(run.tax))
    /\ \A e \in Range(run.tax) : IsTaxEvent(e)
    /\ EachYearOnce => Unique(run.tax)

\* All that a commit of the report has to do, in its order.
Work(run) == run.ledger \o run.tax

\* The first k steps of the running commit are done, and the others are left.
DoneUpTo(k) ==
    /\ k \in 0..Len(Work(report))
    /\ todo = SubSeq(Work(report), k + 1, Len(Work(report)))
    /\ \A i \in 1..k : Landed(Work(report)[i])

\* The logs are sequences, and no event of an import is in them twice.
LandedOnce ==
    /\ log \in Seq(Range(log)) /\ events \in Seq(Range(events))
    /\ \A i, j \in DOMAIN log :
          log[i].id = log[j].id /\ log[i].id[1] \in Origins => i = j
    /\ Unique(events)

\* Until an edit, what landed is a first part of the stream, in its order; behind
\* it in the ledger is what was entered elsewhere.
FirstPart(run) ==
    /\ \E m \in 0..Len(run.ledger) :
          /\ m <= Len(log)
          /\ \A i \in 1..m : log[i] = run.ledger[i]
          /\ \A i \in 1..Len(log) : m < i => log[i].id[1] \notin Origins
    /\ Len(events) <= Len(run.tax)
    /\ \A i \in 1..Len(events) : events[i] = run.tax[i]

\* What a finished commit left is behind no other event.
Complete(run) ==
    /\ RunOK(run)
    /\ Len(run.ledger) <= Len(log) /\ Len(run.tax) <= Len(events)
    /\ Range(SubSeq(log, 1, Len(run.ledger))) = Range(run.ledger)
    /\ Range(SubSeq(events, 1, Len(run.tax))) = Range(run.tax)
    /\ steady => /\ SubSeq(log, 1, Len(run.ledger)) = run.ledger
                 /\ SubSeq(events, 1, Len(run.tax)) = run.tax

\* The inductive invariant of a commit.
CommitInv ==
    /\ RunOK(report)
    /\ LandedOnce
    /\ running => OwnEventsOnly(report) /\ \E k \in 0..Len(Work(report)) : DoneUpTo(k)
    /\ steady => FirstPart(report)
    /\ \A run \in done : Complete(run)

\* The empty log is an import of nothing.
LEMMA NothingImported == Imported(<<>>)
<1>1. Len(<<>>) = 0 /\ DOMAIN <<>> = 1..0 /\ <<>> \in Seq(Range(<<>>))
    OBVIOUS
<1>2. 1..0 = {}
    OBVIOUS
<1>3. 0 \in Nat
    OBVIOUS
<1> QED
    BY <1>1, <1>2, <1>3 DEF Imported

\* The streams of every dry run are such.
LEMMA ReportFacts ==
    ASSUME NEW b \in Books, NEW r, DryRun(b, r)
    PROVE  RunOK(r)
<1> DEFINE wb == Workbook(b)
<1>1. r.ledger = Stream(b, wb) /\ r.tax = MigrationTaxEvents(b.inputs.years)
    BY DEF DryRun
<1>2. b.inputs.splits \in Seq(CorporateActions) /\ b.inputs.years \in Seq(ClosedYears)
    BY BooksAssumption
<1>3. Imported(r.ledger)
    <2>1. Imported(Reconstruct(wb, b.inputs))
        <3> HIDE DEF wb
        <3>1. /\ RowsOK(wb.actions) /\ RowsOK(wb.sales)
              /\ \A a \in wb.actions : a.kind \in {"Buy", "Vest"}
            BY WorkbookRows, ActionKinds DEF wb
        <3> QED
            BY <1>2, <3>1, StreamIsImported
    <2>2. r.ledger = Reconstruct(wb, b.inputs) \/ r.ledger = <<>>
        BY <1>1 DEF Stream
    <2> QED
        BY <2>1, <2>2, NothingImported
<1>4. /\ r.tax \in Seq(Range(r.tax))
      /\ \A e \in Range(r.tax) : IsTaxEvent(e)
      /\ ListedOnce(b.inputs.years) => Unique(r.tax)
    <2>1. MigrationTaxEvents(b.inputs.years) = r.tax
        BY <1>1
    <2> QED
        BY <1>2, <2>1, MigrationFacts
<1> QED
    BY <1>3, <1>4 DEF RunOK, EachYearOnce

\* The work of a commit is the ledger's events and then the tax events.
LEMMA WorkFacts ==
    ASSUME NEW run, RunOK(run)
    PROVE  /\ Work(run) \in Seq(Range(Work(run))) /\ Len(Work(run)) \in Nat
           /\ Len(run.ledger) \in Nat /\ Len(run.tax) \in Nat
           /\ DOMAIN run.ledger = 1..Len(run.ledger) /\ DOMAIN run.tax = 1..Len(run.tax)
           /\ Len(Work(run)) = Len(run.ledger) + Len(run.tax)
           /\ DOMAIN Work(run) = 1..(Len(run.ledger) + Len(run.tax))
           /\ \A i \in 1..Len(run.ledger) : Work(run)[i] = run.ledger[i]
           /\ \A i \in 1..Len(run.tax) : Work(run)[Len(run.ledger) + i] = run.tax[i]
<1> DEFINE V == Range(run.ledger) \cup Range(run.tax)
<1>1. run.ledger \in Seq(Range(run.ledger)) /\ run.tax \in Seq(Range(run.tax))
    BY DEF RunOK, Imported
<1>2. run.ledger \in Seq(V) /\ run.tax \in Seq(V)
    <2>1. Range(run.ledger) \subseteq V /\ Range(run.tax) \subseteq V
        OBVIOUS
    <2> HIDE DEF V
    <2> QED
        BY <1>1, <2>1, SeqMonotonic
<1> HIDE DEF V
<1>3. Work(run) \in Seq(V) /\ Len(Work(run)) = Len(run.ledger) + Len(run.tax)
      /\ (\A i \in 1..Len(run.ledger) : Work(run)[i] = run.ledger[i])
      /\ \A i \in 1..Len(run.tax) : Work(run)[Len(run.ledger) + i] = run.tax[i]
    <2> DEFINE s == run.ledger
               u == run.tax
    <2>1. s \in Seq(V) /\ u \in Seq(V) /\ Work(run) = s \o u
        BY <1>2 DEF Work
    <2> HIDE DEF s, u
    <2>2. /\ s \o u \in Seq(V) /\ Len(s \o u) = Len(s) + Len(u)
          /\ \A i \in 1..Len(s) : (s \o u)[i] = s[i]
          /\ \A i \in 1..Len(u) : (s \o u)[Len(s) + i] = u[i]
        BY <2>1, JoinFacts
    <2> QED
        BY <2>1, <2>2 DEF s, u
<1> QED
    BY <1>2, <1>3, LenProperties, SeqOfRange

(***************************************************************************)
(* What a commit has left to do                                            *)
(***************************************************************************)
\* What the running commit has left of its work when k steps are done.
Rest(run, k) == SubSeq(Work(run), k + 1, Len(Work(run)))

\* The inductive form of ImportTypeOK.
TypeInv ==
    /\ legacy \in Books /\ edits \in 0..MaxEdits
    /\ running \in BOOLEAN /\ steady \in BOOLEAN
    /\ RunOK(report)
    /\ done = {} \/ \E run : done = {run} /\ run.clear
    /\ running => report.clear /\ \E k \in 0..Len(Work(report)) : todo = Rest(report, k)
    /\ ~running => todo = <<>>

\* A dry run is all there is at first.
LEMMA TypeInvInit == ImportInit => TypeInv
<1> SUFFICES ASSUME ImportInit PROVE TypeInv
    OBVIOUS
<1>1. legacy \in Books /\ RunOK(report)
    BY ReportFacts DEF ImportInit
<1>2. edits \in 0..MaxEdits
    BY MaxEditsAssumption DEF ImportInit
<1>3. todo = <<>> /\ running = FALSE /\ steady = TRUE /\ done = {}
    BY DEF ImportInit
<1> QED
    BY <1>1, <1>2, <1>3 DEF TypeInv

\* Every action keeps it.
LEMMA TypeInvStep == TypeInv /\ [ImportNext]_importVars => TypeInv'
<1> SUFFICES ASSUME TypeInv, [ImportNext]_importVars PROVE TypeInv'
    OBVIOUS
<1>1. CASE Edit
    <2>1. PICK b \in Books : legacy' = b /\ DryRun(b, report')
        BY <1>1 DEF Edit
    <2>2. legacy' \in Books /\ RunOK(report')
        BY <2>1, ReportFacts
    <2>3. edits' \in 0..MaxEdits
        <3>1. edits \in 0..MaxEdits /\ edits < MaxEdits /\ edits' = edits + 1
            BY <1>1 DEF Edit, TypeInv
        <3> QED
            BY <3>1, MaxEditsAssumption
    <2>4. ~running' /\ todo' = todo /\ done' = done /\ running' = running
        BY <1>1 DEF Edit
    <2>5. steady' \in BOOLEAN
        BY <1>1 DEF Edit
    <2> QED
        BY <2>2, <2>3, <2>4, <2>5 DEF TypeInv
<1>2. CASE Begin
    <2>1. /\ running' = TRUE /\ report' = report /\ report.clear /\ todo' = Work(report)
          /\ UNCHANGED <<legacy, edits, steady, done>>
        BY <1>2 DEF Begin, Work
    <2>2. todo' = Rest(report, 0) /\ 0 \in 0..Len(Work(report))
        <3> DEFINE w == Work(report)
        <3>1. w \in Seq(Range(w)) /\ Len(w) \in Nat
            BY WorkFacts DEF TypeInv
        <3> HIDE DEF w
        <3>2. w = SubSeq(w, 0 + 1, Len(w)) /\ 0 \in 0..Len(w)
            BY <3>1, SubSeqFull
        <3> QED
            BY <2>1, <3>2 DEF w, Rest
    <2> QED
        BY <2>1, <2>2 DEF TypeInv
<1>3. CASE AppendNext
    <2>1. /\ running /\ todo # <<>> /\ todo' = Tail(todo)
          /\ UNCHANGED <<legacy, report, edits, running, steady, done>>
        BY <1>3 DEF AppendNext
    <2>2. PICK k \in 0..Len(Work(report)) : todo = Rest(report, k)
        BY <2>1 DEF TypeInv
    <2>3. k + 1 \in 0..Len(Work(report)) /\ todo' = Rest(report, k + 1)
        <3> DEFINE w == Work(report)
        <3>1. w \in Seq(Range(w)) /\ Len(w) \in Nat
            BY WorkFacts DEF TypeInv
        <3>2. todo = SubSeq(w, k + 1, Len(w)) /\ k \in 0..Len(w)
            BY <2>2 DEF Rest
        <3> HIDE DEF w
        <3>3. k # Len(w)
            <4> SUFFICES ASSUME k = Len(w) PROVE FALSE
                OBVIOUS
            <4>1. Len(w) < k + 1
                BY <3>1
            <4> QED
                BY <2>1, <3>1, <3>2, <4>1, SubSeqEmpty
        <3>4. k + 1 \in 1..Len(w) /\ Len(w) \in (k + 1)..Len(w)
            BY <3>1, <3>2, <3>3
        <3>5. Tail(SubSeq(w, k + 1, Len(w))) = SubSeq(w, (k + 1) + 1, Len(w))
            BY <3>1, <3>4, HeadTailOfSubSeq
        <3> QED
            BY <2>1, <3>1, <3>2, <3>4, <3>5 DEF w, Rest
    <2> QED
        BY <2>1, <2>3 DEF TypeInv
<1>4. CASE Interrupt
    BY <1>4 DEF Interrupt, TypeInv
<1>5. CASE Finish
    <2>1. /\ running /\ todo = <<>> /\ running' = FALSE /\ done' = {report}
          /\ UNCHANGED <<legacy, report, edits, todo, steady>>
        BY <1>5 DEF Finish
    <2>2. report.clear
        BY <2>1 DEF TypeInv
    <2> QED
        BY <2>1, <2>2 DEF TypeInv
<1>6. CASE Elsewhere
    BY <1>6 DEF Elsewhere, TypeInv
<1>7. CASE UNCHANGED importVars
    BY <1>7 DEF importVars, TypeInv
<1> QED
    BY <1>1, <1>2, <1>3, <1>4, <1>5, <1>6, <1>7 DEF ImportNext

\* A commit runs only what its dry run cleared, and what it has left to do ends
\* that: OpeningLog, Payloads and Books may be any.
THEOREM ImportTypeCorrect == ImportSpec => []ImportTypeOK
<1>1. TypeInv => ImportTypeOK
    <2> SUFFICES ASSUME TypeInv PROVE ImportTypeOK
        OBVIOUS
    <2>1. legacy \in Books /\ edits \in 0..MaxEdits /\ running \in BOOLEAN /\ steady \in BOOLEAN
        BY DEF TypeInv
    <2>2. Cardinality(done) <= 1 /\ \A r \in done : r.clear
        <3>1. CASE done = {}
            BY <3>1, FS_EmptySet
        <3>2. CASE \E run : done = {run} /\ run.clear
            BY <3>2, FS_Singleton
        <3> QED
            BY <3>1, <3>2 DEF TypeInv
    <2>3. IsSuffix(todo, Work(report))
        <3> DEFINE w == Work(report)
        <3>1. w \in Seq(Range(w)) /\ Len(w) \in Nat
            BY WorkFacts DEF TypeInv
        <3>2. \E k \in 0..Len(w) : todo = SubSeq(w, k + 1, Len(w))
            <4>1. CASE running
                BY <4>1 DEF TypeInv, Rest
            <4>2. CASE ~running
                <5>1. todo = <<>>
                    BY <4>2 DEF TypeInv
                <5> HIDE DEF w
                <5>2. Len(w) \in 0..Len(w) /\ Len(w) < Len(w) + 1
                    BY <3>1
                <5>3. SubSeq(w, Len(w) + 1, Len(w)) = <<>>
                    BY <3>1, <5>2, SubSeqEmpty
                <5> QED
                    BY <5>1, <5>2, <5>3
            <4> QED
                BY <4>1, <4>2
        <3> HIDE DEF w
        <3>3. IsSuffix(todo, w)
            BY <3>1, <3>2, RestIsSuffix
        <3> QED
            BY <3>3 DEF w
    <2>4. todo # <<>> => running
        BY DEF TypeInv
    <2> QED
        BY <2>1, <2>2, <2>3, <2>4 DEF ImportTypeOK, Work
<1> QED
    BY <1>1, TypeInvInit, TypeInvStep, PTL DEF ImportSpec

(***************************************************************************)
(* Steps of a commit                                                       *)
(***************************************************************************)
\* The next step of a commit.
LEMMA RestFacts ==
    ASSUME NEW w, w \in Seq(Range(w)), NEW k \in 0..Len(w), NEW s,
           s = SubSeq(w, k + 1, Len(w)), s # <<>>
    PROVE  /\ k + 1 \in 0..Len(w) /\ k + 1 \in 1..Len(w)
           /\ Head(s) = w[k + 1] /\ Tail(s) = SubSeq(w, (k + 1) + 1, Len(w))
<1>1. Len(w) \in Nat
    OBVIOUS
<1>2. k # Len(w)
    <2> SUFFICES ASSUME k = Len(w) PROVE FALSE
        OBVIOUS
    <2>1. Len(w) < k + 1
        BY <1>1
    <2> QED
        BY <1>1, <2>1, SubSeqEmpty
<1>3. k + 1 \in 1..Len(w) /\ Len(w) \in (k + 1)..Len(w)
    BY <1>1, <1>2
<1> QED
    BY <1>1, <1>3, HeadTailOfSubSeq

\* A commit starts in the invariant.
LEMMA CommitInvInit == ImportInit => CommitInv
<1> SUFFICES ASSUME ImportInit PROVE CommitInv
    OBVIOUS
<1>1. /\ log = OpeningLog /\ events = <<>> /\ legacy \in Books /\ DryRun(legacy, report)
      /\ running = FALSE /\ done = {}
    BY DEF ImportInit, BookInit
<1>2. RunOK(report)
    BY <1>1, ReportFacts
<1>3. log \in Seq(Payloads) /\ Len(log) \in Nat /\ DOMAIN log = 1..Len(log)
    BY <1>1, OpeningLogAssumption
<1>4. \A i \in 1..Len(log) : log[i].id[1] \notin Origins
    BY <1>3, PayloadsAreEntered
<1>5. LandedOnce
    <2>1. log \in Seq(Range(log))
        BY <1>3, SeqOfRange
    <2>2. events \in Seq(Range(events)) /\ DOMAIN events = {}
        <3>1. <<>> \in Seq(Range(<<>>)) /\ DOMAIN <<>> = {}
            OBVIOUS
        <3> QED
            BY <1>1, <3>1
    <2> QED
        BY <1>3, <1>4, <2>1, <2>2 DEF LandedOnce, Unique
<1>6. FirstPart(report)
    <2>1. Len(report.ledger) \in Nat /\ Len(report.tax) \in Nat
        BY <1>2, WorkFacts
    <2>2. 0 \in 0..Len(report.ledger) /\ 0 <= Len(log) /\ 1..0 = {}
        BY <1>3, <2>1
    <2>3. Len(events) = 0 /\ 0 <= Len(report.tax)
        BY <1>1, <2>1
    <2> QED
        BY <1>4, <2>2, <2>3 DEF FirstPart
<1> QED
    BY <1>1, <1>2, <1>5, <1>6 DEF CommitInv

\* An edit forgets what was accepted, and leaves what landed.
LEMMA EditKeepsCommit ==
    ASSUME CommitInv, Edit
    PROVE  CommitInv'
<1>1. PICK b \in Books : legacy' = b /\ DryRun(b, report')
    BY DEF Edit
<1>2. RunOK(report')
    BY <1>1, ReportFacts
<1>3. /\ log' = log /\ events' = events /\ done' = done /\ ~running'
      /\ steady' = (log = <<>> /\ events = <<>>)
    BY DEF Edit
<1>4. LandedOnce'
    BY <1>3 DEF CommitInv, LandedOnce, Unique
<1>5. ASSUME steady' PROVE FirstPart(report)'
    <2>1. Len(log') = 0 /\ Len(events') = 0
        BY <1>3, <1>5
    <2>2. Len(report.ledger') \in Nat /\ Len(report.tax') \in Nat
        BY <1>2, WorkFacts
    <2>3. 0 \in 0..Len(report.ledger') /\ 0 <= Len(report.tax') /\ 1..0 = {} /\ 0 <= 0
        BY <2>2
    <2> QED
        BY <2>1, <2>3 DEF FirstPart
<1>6. ASSUME NEW run \in done' PROVE Complete(run)'
    <2>1. Complete(run)
        BY <1>3, <1>6 DEF CommitInv
    <2>2. ASSUME steady'
          PROVE  /\ SubSeq(log', 1, Len(run.ledger)) = run.ledger
                 /\ SubSeq(events', 1, Len(run.tax)) = run.tax
        <3>1. log = <<>> /\ events = <<>>
            BY <1>3, <2>2
        <3>2. Len(run.ledger) = 0 /\ Len(run.tax) = 0
            <4>1. Len(run.ledger) <= Len(log) /\ Len(run.tax) <= Len(events)
                BY <2>1 DEF Complete
            <4>2. Len(run.ledger) \in Nat /\ Len(run.tax) \in Nat
                BY <2>1, WorkFacts DEF Complete
            <4>3. Len(log) = 0 /\ Len(events) = 0
                BY <3>1
            <4> QED
                BY <4>1, <4>2, <4>3
        <3>3. run.ledger = <<>> /\ run.tax = <<>>
            <4>1. run.ledger \in Seq(Range(run.ledger)) /\ run.tax \in Seq(Range(run.tax))
                BY <2>1 DEF Complete, RunOK, Imported
            <4> QED
                BY <3>2, <4>1, EmptySeq
        <3>4. SubSeq(log', 1, 0) = <<>> /\ SubSeq(events', 1, 0) = <<>>
            BY SubSeqEmpty
        <3> QED
            BY <3>2, <3>3, <3>4
    <2>3. log' = log /\ events' = events
        BY <1>3
    <2> QED
        BY <2>1, <2>2, <2>3 DEF Complete
<1> QED
    BY <1>2, <1>3, <1>4, <1>5, <1>6 DEF CommitInv

\* A commit begins with all its work before it, in a log that is its own.
LEMMA BeginKeepsCommit ==
    ASSUME CommitInv, Begin
    PROVE  CommitInv'
<1>1. /\ OwnEventsOnly(report) /\ todo' = Work(report)
      /\ log' = log /\ events' = events /\ report' = report /\ steady' = steady /\ done' = done
    BY DEF Begin, Work
<1>2. DoneUpTo(0)' /\ 0 \in 0..Len(Work(report))
    <2> DEFINE w == Work(report)
    <2>1. w \in Seq(Range(w)) /\ Len(w) \in Nat
        BY WorkFacts DEF CommitInv
    <2>2. Work(report)' = w
        BY <1>1 DEF Work
    <2> HIDE DEF w
    <2>3. w = SubSeq(w, 0 + 1, Len(w)) /\ 0 \in 0..Len(w) /\ 1..0 = {}
        BY <2>1, SubSeqFull
    <2>4. todo' = w
        BY <1>1 DEF w
    <2>5. DoneUpTo(0)'
        BY <2>2, <2>3, <2>4 DEF DoneUpTo
    <2> QED
        BY <2>3, <2>5 DEF w
<1>3. OwnEventsOnly(report)'
    BY <1>1 DEF OwnEventsOnly, Ids
<1>4. LandedOnce'
    BY <1>1 DEF CommitInv, LandedOnce, Unique
<1>5. RunOK(report)'
    BY <1>1 DEF CommitInv
<1>6. Work(report)' = Work(report)
    BY <1>1 DEF Work
<1>7. steady' => FirstPart(report)'
    BY <1>1 DEF CommitInv, FirstPart
<1>8. \A run \in done' : Complete(run)'
    BY <1>1 DEF CommitInv, Complete
<1> QED
    BY <1>2, <1>3, <1>4, <1>5, <1>6, <1>7, <1>8 DEF CommitInv

\* What the commit under way lands next, and where it is in the two streams.
LEMMA NextStep ==
    ASSUME CommitInv, AppendNext
    PROVE  \E k \in 0..Len(Work(report)) :
              /\ DoneUpTo(k)
              /\ k + 1 \in 0..Len(Work(report)) /\ k + 1 \in 1..Len(Work(report))
              /\ Head(todo) = Work(report)[k + 1]
              /\ todo' = SubSeq(Work(report), (k + 1) + 1, Len(Work(report)))
<1> DEFINE w == Work(report)
<1>1. PICK k \in 0..Len(w) : DoneUpTo(k)
    BY DEF CommitInv, AppendNext
<1>2. w \in Seq(Range(w))
    BY WorkFacts DEF CommitInv
<1>3. todo = SubSeq(w, k + 1, Len(w)) /\ todo # <<>> /\ todo' = Tail(todo)
    BY <1>1 DEF DoneUpTo, AppendNext
<1> HIDE DEF w
<1>4. /\ k + 1 \in 0..Len(w) /\ k + 1 \in 1..Len(w)
      /\ Head(todo) = w[k + 1] /\ Tail(todo) = SubSeq(w, (k + 1) + 1, Len(w))
    BY <1>2, <1>3, RestFacts
<1> QED
    BY <1>1, <1>3, <1>4 DEF w

\* Where an event of the work comes from.
LEMMA WorkParts ==
    ASSUME NEW run, RunOK(run), NEW k \in Nat, k + 1 \in 1..Len(Work(run))
    PROVE  LET e == Work(run)[k + 1] IN
           /\ ~IsTaxEvent(e) => k + 1 \in 1..Len(run.ledger) /\ e = run.ledger[k + 1]
           /\ IsTaxEvent(e) =>
                 \E j \in 1..Len(run.tax) : k + 1 = Len(run.ledger) + j /\ e = run.tax[j]
<1> DEFINE m == Len(run.ledger)
           n == Len(run.tax)
           w == Work(run)
<1>1. /\ m \in Nat /\ n \in Nat /\ Len(w) = m + n
      /\ DOMAIN run.ledger = 1..m /\ DOMAIN run.tax = 1..n
      /\ \A i \in 1..m : w[i] = run.ledger[i]
      /\ \A i \in 1..n : w[m + i] = run.tax[i]
    BY WorkFacts
<1>2. /\ \A i \in 1..m : ~IsTaxEvent(run.ledger[i])
      /\ \A i \in 1..n : IsTaxEvent(run.tax[i])
    BY <1>1 DEF RunOK, Imported, Range
<1> HIDE DEF m, n, w
<1>3. CASE k + 1 <= m
    <2>1. k + 1 \in 1..m
        BY <1>1, <1>3
    <2> QED
        BY <1>1, <1>2, <2>1 DEF m, w
<1>4. CASE ~(k + 1 <= m)
    <2>1. (k + 1) - m \in 1..n /\ m + ((k + 1) - m) = k + 1
        BY <1>1, <1>4 DEF w
    <2> DEFINE j == (k + 1) - m
    <2>2. j \in 1..n /\ k + 1 = m + j
        BY <2>1
    <2> HIDE DEF j
    <2>3. w[k + 1] = run.tax[j] /\ IsTaxEvent(run.tax[j])
        BY <1>1, <1>2, <2>2
    <2> QED
        BY <2>2, <2>3 DEF m, n, w
<1> QED
    BY <1>3, <1>4

\* What landed stays.
LEMMA LandedStays ==
    ASSUME NEW e, Landed(e),
           Range(log) \subseteq Range(log'), Range(events) \subseteq Range(events')
    PROVE  Landed(e)'
BY DEF Landed

\* When the next event has landed, one more step is done.
LEMMA ReachedNext ==
    ASSUME NEW k \in Nat, DoneUpTo(k), k + 1 \in 0..Len(Work(report)),
           Work(report)' = Work(report), Landed(Work(report)[k + 1])',
           Range(log) \subseteq Range(log'), Range(events) \subseteq Range(events'),
           todo' = SubSeq(Work(report), (k + 1) + 1, Len(Work(report)))
    PROVE  DoneUpTo(k + 1)'
<1>1. ASSUME NEW i \in 1..(k + 1) PROVE Landed(Work(report)[i])'
    <2>1. CASE i = k + 1
        BY <2>1
    <2>2. CASE i # k + 1
        <3>1. i \in 1..k
            BY <2>2
        <3>2. PICK x : x = Work(report)[i]
            OBVIOUS
        <3>3. Landed(x)
            BY <3>1, <3>2 DEF DoneUpTo
        <3>4. Landed(x)'
            BY <3>3, LandedStays
        <3>5. x = Work(report)'[i]
            BY <3>2
        <3> QED
            BY <3>4, <3>5 DEF Landed
    <2> QED
        BY <2>1, <2>2
<1> QED
    BY <1>1 DEF DoneUpTo

\* A step that finds its event in the target.
LEMMA SkipKeepsCommit ==
    ASSUME CommitInv, AppendNext, Landed(Head(todo)), UNCHANGED <<log, events>>
    PROVE  CommitInv'
<1> DEFINE w == Work(report)
<1>1. PICK k \in 0..Len(w) :
         /\ DoneUpTo(k) /\ k + 1 \in 0..Len(w) /\ k + 1 \in 1..Len(w)
         /\ Head(todo) = w[k + 1]
         /\ todo' = SubSeq(w, (k + 1) + 1, Len(w))
    BY NextStep
<1>2. UNCHANGED <<log, events, report, running, steady, done>>
    BY DEF AppendNext
<1>3. Work(report)' = w
    BY <1>2 DEF Work
<1>4. DoneUpTo(k + 1)'
    <2>1. Landed(w[k + 1])
        BY <1>1
    <2>2. Landed(w[k + 1])'
        BY <1>2, <1>3, <2>1 DEF Landed
    <2> QED
        BY <1>1, <1>2, <1>3, <2>2, ReachedNext
<1>5. OwnEventsOnly(report)'
    BY <1>2 DEF CommitInv, AppendNext, OwnEventsOnly, Ids
<1>6. LandedOnce'
    BY <1>2 DEF CommitInv, LandedOnce, Unique
<1>7. steady' => FirstPart(report)'
    BY <1>2 DEF CommitInv, FirstPart
<1>8. \A run \in done' : Complete(run)'
    BY <1>2 DEF CommitInv, Complete
<1>9. RunOK(report)'
    BY <1>2 DEF CommitInv
<1> QED
    BY <1>1, <1>3, <1>4, <1>5, <1>6, <1>7, <1>8, <1>9 DEF CommitInv

\* An appended event is behind every finished commit.
LEMMA AppendKeepsComplete ==
    ASSUME CommitInv, steady' = steady,
           \/ (\E e : log' = Append(log, e)) /\ events' = events
           \/ (\E e : events' = Append(events, e)) /\ log' = log,
           NEW run \in done
    PROVE  Complete(run)'
<1>1. /\ RunOK(run) /\ Len(run.ledger) <= Len(log) /\ Len(run.tax) <= Len(events)
      /\ Range(SubSeq(log, 1, Len(run.ledger))) = Range(run.ledger)
      /\ Range(SubSeq(events, 1, Len(run.tax))) = Range(run.tax)
      /\ steady => /\ SubSeq(log, 1, Len(run.ledger)) = run.ledger
                   /\ SubSeq(events, 1, Len(run.tax)) = run.tax
    BY DEF CommitInv, Complete
<1>2. Len(run.ledger) \in Nat /\ Len(run.tax) \in Nat
    BY <1>1, WorkFacts
<1>3. log \in Seq(Range(log)) /\ events \in Seq(Range(events)) /\ Len(log) \in Nat /\ Len(events) \in Nat
    BY DEF CommitInv, LandedOnce
<1>4. Len(run.ledger) \in 0..Len(log) /\ Len(run.tax) \in 0..Len(events)
    BY <1>1, <1>2, <1>3
<1>5. /\ SubSeq(log', 1, Len(run.ledger)) = SubSeq(log, 1, Len(run.ledger))
      /\ SubSeq(events', 1, Len(run.tax)) = SubSeq(events, 1, Len(run.tax))
      /\ Len(run.ledger) <= Len(log') /\ Len(run.tax) <= Len(events')
    <2>1. CASE (\E e : log' = Append(log, e)) /\ events' = events
        <3>1. PICK e : log' = Append(log, e)
            BY <2>1
        <3>2. /\ Len(log') = Len(log) + 1
              /\ SubSeq(log', 1, Len(run.ledger)) = SubSeq(log, 1, Len(run.ledger))
            BY <1>3, <1>4, <3>1, AppendFacts
        <3> QED
            BY <1>1, <1>2, <1>3, <2>1, <3>2
    <2>2. CASE (\E e : events' = Append(events, e)) /\ log' = log
        <3>1. PICK e : events' = Append(events, e)
            BY <2>2
        <3>2. /\ Len(events') = Len(events) + 1
              /\ SubSeq(events', 1, Len(run.tax)) = SubSeq(events, 1, Len(run.tax))
            BY <1>3, <1>4, <3>1, AppendFacts
        <3> QED
            BY <1>1, <1>2, <1>3, <2>2, <3>2
    <2> QED
        BY <2>1, <2>2
<1> QED
    BY <1>1, <1>5 DEF Complete

\* A step that lands an event of the ledger.
LEMMA LandLedgerKeepsCommit ==
    ASSUME CommitInv, AppendNext, ~Landed(Head(todo)), ~Differs(Head(todo)),
           ~IsTaxEvent(Head(todo)), log' = Append(log, Head(todo)), events' = events
    PROVE  CommitInv'
<1> DEFINE w == Work(report)
           L == report.ledger
           e == Head(todo)
           n == Len(log)
<1>1. PICK k \in 0..Len(w) :
         /\ DoneUpTo(k) /\ k + 1 \in 0..Len(w) /\ k + 1 \in 1..Len(w)
         /\ e = w[k + 1]
         /\ todo' = SubSeq(w, (k + 1) + 1, Len(w))
    BY NextStep
<1>2. UNCHANGED <<events, report, running, steady, done>> /\ running
    BY DEF AppendNext
<1>3. RunOK(report) /\ OwnEventsOnly(report) /\ LandedOnce /\ Work(report)' = w
    BY <1>2 DEF CommitInv, Work
<1>4. /\ log \in Seq(Range(log)) /\ n \in Nat /\ DOMAIN log = 1..n
      /\ DOMAIN L = 1..Len(L) /\ Len(L) \in Nat
    BY <1>3, WorkFacts DEF LandedOnce
<1>5. k + 1 \in 1..Len(L) /\ e = L[k + 1] /\ \A i \in 1..Len(L) : w[i] = L[i]
    <2>1. Len(w) \in Nat /\ \A i \in 1..Len(L) : w[i] = L[i]
        BY <1>3, WorkFacts
    <2>2. k \in Nat
        BY <2>1
    <2>3. ~IsTaxEvent(w[k + 1])
        BY <1>1
    <2>4. k + 1 \in 1..Len(L) /\ w[k + 1] = L[k + 1]
        BY <1>1, <1>3, <2>2, <2>3, WorkParts
    <2> QED
        BY <1>1, <2>1, <2>4
<1>6. e \notin Range(log) /\ e.id \notin Ids(log)
    BY DEF Landed, Differs
<1>7. /\ log' \in Seq(Range(log')) /\ Len(log') = n + 1 /\ DOMAIN log' = 1..(n + 1)
      /\ \A i \in 1..n : log'[i] = log[i]
      /\ log'[n + 1] = e /\ Range(log') = Range(log) \cup {e}
    BY <1>4, AppendFacts
<1> HIDE DEF e, n, w, L
<1>8. DoneUpTo(k + 1)'
    <2>1. Landed(w[k + 1])'
        <3>1. e \in Range(log')
            BY <1>7
        <3>2. ~IsTaxEvent(e)
            BY DEF e
        <3>3. w[k + 1] = e /\ w = Work(report)
            BY <1>1 DEF w
        <3>4. Work(report)'[k + 1] = e
            BY <1>3, <3>3
        <3> QED
            BY <3>1, <3>2, <3>3, <3>4 DEF Landed, w
    <2>2. Range(log) \subseteq Range(log') /\ Range(events) \subseteq Range(events')
        BY <1>2, <1>7
    <2> QED
        BY <1>1, <1>3, <2>1, <2>2, ReachedNext DEF w
<1>9. OwnEventsOnly(report)'
    <2>1. Ids(log') = Ids(log) \cup {e.id}
        <3>1. \A i \in 1..(n + 1) : i \in 1..n \/ i = n + 1
            BY <1>4
        <3>2. \A i \in 1..n : i \in 1..(n + 1)
            BY <1>4
        <3>3. n + 1 \in 1..(n + 1)
            BY <1>4
        <3>4. Ids(log') = {log'[i].id : i \in 1..(n + 1)} /\ Ids(log) = {log[i].id : i \in 1..n}
            BY <1>4, <1>7 DEF Ids
        <3> QED
            BY <1>7, <3>1, <3>2, <3>3, <3>4
    <2>2. e.id \in Ids(L)
        BY <1>4, <1>5 DEF Ids
    <2>3. Ids(log') \subseteq Ids(L)
        BY <1>3, <2>1, <2>2 DEF OwnEventsOnly, L
    <2> QED
        BY <1>2, <1>3, <2>3 DEF OwnEventsOnly, L, Ids
<1>10. LandedOnce'
    <2>1. ASSUME NEW i \in 1..(n + 1), NEW j \in 1..(n + 1), log'[i].id = log'[j].id,
                 log'[i].id[1] \in Origins
          PROVE  i = j
        <3>1. \A x \in 1..(n + 1) : x \in 1..n \/ x = n + 1
            BY <1>4
        <3>2. \A x \in 1..n : log[x].id # e.id
            BY <1>4, <1>6 DEF Ids
        <3>3. CASE i \in 1..n /\ j \in 1..n
            <4>1. log[i].id = log[j].id /\ log[i].id[1] \in Origins
                BY <1>7, <2>1, <3>3
            <4> QED
                BY <1>3, <1>4, <3>3, <4>1 DEF LandedOnce
        <3>4. CASE i \in 1..n /\ j = n + 1
            BY <1>7, <2>1, <3>2, <3>4
        <3>5. CASE i = n + 1 /\ j \in 1..n
            BY <1>7, <2>1, <3>2, <3>5
        <3> QED
            BY <3>1, <3>3, <3>4, <3>5
    <2> QED
        BY <1>2, <1>3, <1>7, <2>1 DEF LandedOnce, Unique
<1>11. ASSUME steady' PROVE FirstPart(report)'
    <2>1. FirstPart(report)
        BY <1>2, <1>11 DEF CommitInv
    <2>2. PICK m \in 0..Len(L) :
             /\ m <= n
             /\ \A i \in 1..m : log[i] = L[i]
             /\ \A i \in 1..n : m < i => log[i].id[1] \notin Origins
        BY <2>1 DEF FirstPart, L, n
    <2>3. \A i \in 1..Len(L) : L[i].id[1] \in Origins /\ \A j \in 1..Len(L) : L[i].id = L[j].id => i = j
        BY <1>3, <1>4 DEF RunOK, Imported, L
    <2>4. m = n
        <3>1. ASSUME m < n PROVE FALSE
            <4>1. n \in 1..n
                BY <1>4, <2>2, <3>1
            <4>2. log[n].id \in Ids(L)
                BY <1>3, <1>4, <4>1 DEF OwnEventsOnly, L, Ids
            <4>3. PICK i \in 1..Len(L) : log[n].id = L[i].id
                BY <1>4, <4>2 DEF Ids
            <4>4. log[n].id[1] \in Origins
                BY <2>3, <4>3
            <4> QED
                BY <2>2, <3>1, <4>1, <4>4
        <3> QED
            BY <1>4, <2>2, <3>1
    <2>5. k = n
        <3>1. ASSUME n < k PROVE FALSE
            <4>1. k \in 1..k /\ k \in 1..Len(L)
                BY <1>1, <1>4, <1>5, <3>1
            <4>2. Landed(w[k])
                BY <1>1, <4>1 DEF DoneUpTo, w
            <4>3. w[k] = L[k]
                BY <1>5, <4>1
            <4>4. ~IsTaxEvent(L[k])
                BY <1>3, <1>4, <4>1 DEF RunOK, Imported, L
            <4>5. L[k] \in Range(log)
                BY <4>2, <4>3, <4>4 DEF Landed
            <4>6. PICK i \in 1..n : log[i] = L[k]
                BY <1>4, <4>5 DEF Range
            <4>7. i \in 1..Len(L) /\ log[i] = L[i]
                BY <1>4, <2>2, <2>4
            <4>8. i = k
                BY <2>3, <4>1, <4>6, <4>7
            <4> QED
                BY <1>4, <3>1, <4>8
        <3>2. ASSUME k < n PROVE FALSE
            <4>1. k + 1 \in 1..n
                BY <1>1, <1>4, <1>5, <3>2
            <4>2. log[k + 1] = e
                BY <1>5, <2>2, <2>4, <4>1
            <4> QED
                BY <1>4, <1>6, <4>1, <4>2 DEF Range
        <3>3. k \in Nat
            BY <1>1
        <3> QED
            BY <1>4, <3>1, <3>2, <3>3
    <2>6. /\ n + 1 \in 0..Len(L) /\ n + 1 <= n + 1
          /\ \A i \in 1..(n + 1) : log'[i] = L[i]
          /\ \A i \in 1..(n + 1) : ~(n + 1 < i)
        <3>1. ASSUME NEW i \in 1..(n + 1) PROVE log'[i] = L[i]
            <4>1. CASE i = n + 1
                BY <1>5, <1>7, <2>5, <4>1
            <4>2. CASE i # n + 1
                <5>1. i \in 1..n
                    BY <1>4, <4>2
                <5> QED
                    BY <1>7, <2>2, <2>4, <5>1
            <4> QED
                BY <4>1, <4>2
        <3> QED
            BY <1>4, <1>5, <2>5, <3>1
    <2>7. report'.ledger = L /\ report'.tax = report.tax
        BY <1>2 DEF L
    <2> QED
        BY <1>2, <1>7, <2>1, <2>6, <2>7 DEF FirstPart
<1>12. \A run \in done' : Complete(run)'
    <2>1. log' = Append(log, e) /\ events' = events
        BY DEF e
    <2> QED
        BY <1>2, <2>1, AppendKeepsComplete
<1>13. RunOK(report)'
    BY <1>2, <1>3
<1> QED
    BY <1>1, <1>3, <1>8, <1>9, <1>10, <1>11, <1>12, <1>13 DEF CommitInv, w

\* A step that lands a tax event.
LEMMA LandTaxKeepsCommit ==
    ASSUME EachYearOnce, CommitInv, AppendNext, ~Landed(Head(todo)),
           IsTaxEvent(Head(todo)), events' = Append(events, Head(todo)), log' = log
    PROVE  CommitInv'
<1> DEFINE w == Work(report)
           T == report.tax
           m == Len(report.ledger)
           e == Head(todo)
           n == Len(events)
<1>1. PICK k \in 0..Len(w) :
         /\ DoneUpTo(k) /\ k + 1 \in 0..Len(w) /\ k + 1 \in 1..Len(w)
         /\ e = w[k + 1]
         /\ todo' = SubSeq(w, (k + 1) + 1, Len(w))
    BY NextStep
<1>2. UNCHANGED <<log, report, running, steady, done>> /\ running
    BY DEF AppendNext
<1>3. RunOK(report) /\ OwnEventsOnly(report) /\ LandedOnce /\ Work(report)' = w
    BY <1>2 DEF CommitInv, Work
<1>4. /\ events \in Seq(Range(events)) /\ n \in Nat /\ DOMAIN events = 1..n
      /\ DOMAIN T = 1..Len(T) /\ Len(T) \in Nat /\ m \in Nat
      /\ \A i \in 1..Len(T) : w[m + i] = T[i] /\ IsTaxEvent(T[i])
    <2>1. /\ DOMAIN T = 1..Len(T) /\ Len(T) \in Nat /\ m \in Nat
          /\ \A i \in 1..Len(T) : w[m + i] = T[i]
        BY <1>3, WorkFacts
    <2>2. \A i \in 1..Len(T) : IsTaxEvent(T[i])
        BY <1>3, <2>1 DEF RunOK, Range
    <2> QED
        BY <1>3, <2>1, <2>2 DEF LandedOnce
<1>5. PICK j \in 1..Len(T) : k + 1 = m + j /\ e = T[j]
    <2>1. Len(w) \in Nat
        BY <1>3, WorkFacts
    <2>2. k \in Nat
        BY <2>1
    <2>3. IsTaxEvent(w[k + 1])
        BY <1>1
    <2>4. \E j \in 1..Len(T) : k + 1 = m + j /\ w[k + 1] = T[j]
        BY <1>1, <1>3, <2>2, <2>3, WorkParts
    <2> QED
        BY <1>1, <2>4
<1>6. e \notin Range(events)
    BY DEF Landed
<1>7. /\ events' \in Seq(Range(events')) /\ Len(events') = n + 1 /\ DOMAIN events' = 1..(n + 1)
      /\ \A i \in 1..n : events'[i] = events[i]
      /\ events'[n + 1] = e /\ Range(events') = Range(events) \cup {e}
    BY <1>4, AppendFacts
<1> HIDE DEF e, n, w, T, m
<1>8. DoneUpTo(k + 1)'
    <2>1. Landed(w[k + 1])'
        <3>1. e \in Range(events')
            BY <1>7
        <3>2. IsTaxEvent(e)
            BY DEF e
        <3>3. w[k + 1] = e /\ w = Work(report)
            BY <1>1 DEF w
        <3>4. Work(report)'[k + 1] = e
            BY <1>3, <3>3
        <3> QED
            BY <3>1, <3>2, <3>3, <3>4 DEF Landed, w
    <2>2. Range(log) \subseteq Range(log') /\ Range(events) \subseteq Range(events')
        BY <1>2, <1>7
    <2>3. k \in Nat
        BY <1>4, <1>5
    <2> QED
        BY <1>1, <1>3, <2>1, <2>2, <2>3, ReachedNext DEF w
<1>9. OwnEventsOnly(report)'
    <2>1. e \in Range(T)
        BY <1>4, <1>5 DEF Range
    <2>2. Range(events') \subseteq Range(T)
        BY <1>3, <1>7, <2>1 DEF OwnEventsOnly, T
    <2> QED
        BY <1>2, <1>3, <2>2 DEF OwnEventsOnly, T, Ids
<1>10. LandedOnce'
    <2>1. ASSUME NEW x \in 1..(n + 1), NEW y \in 1..(n + 1), events'[x] = events'[y]
          PROVE  x = y
        <3>1. \A z \in 1..(n + 1) : z \in 1..n \/ z = n + 1
            BY <1>4
        <3>2. \A z \in 1..n : events[z] # e
            BY <1>4, <1>6 DEF Range
        <3>3. CASE x \in 1..n /\ y \in 1..n
            <4>1. events[x] = events[y]
                BY <1>7, <2>1, <3>3
            <4> QED
                BY <1>3, <1>4, <3>3, <4>1 DEF LandedOnce, Unique
        <3>4. CASE x \in 1..n /\ y = n + 1
            BY <1>7, <2>1, <3>2, <3>4
        <3>5. CASE x = n + 1 /\ y \in 1..n
            BY <1>7, <2>1, <3>2, <3>5
        <3> QED
            BY <3>1, <3>3, <3>4, <3>5
    <2> QED
        BY <1>2, <1>3, <1>7, <2>1 DEF LandedOnce, Unique
<1>11. ASSUME steady' PROVE FirstPart(report)'
    <2>1. FirstPart(report)
        BY <1>2, <1>11 DEF CommitInv
    <2>2. n <= Len(T) /\ \A i \in 1..n : events[i] = T[i]
        BY <2>1 DEF FirstPart, T, n
    <2>3. \A x, y \in 1..Len(T) : T[x] = T[y] => x = y
        BY <1>3, <1>4 DEF RunOK, Unique, T
    <2>4. j = n + 1
        <3>1. ASSUME n + 1 < j PROVE FALSE
            <4>1. j - 1 \in 1..Len(T) /\ m + (j - 1) = k /\ k \in 1..k
                BY <1>1, <1>4, <1>5, <3>1
            <4>2. Landed(w[k])
                BY <1>1, <4>1 DEF DoneUpTo, w
            <4> DEFINE h == j - 1
            <4>3. h \in 1..Len(T) /\ m + h = k
                BY <4>1
            <4> HIDE DEF h
            <4>4. w[k] = T[h] /\ IsTaxEvent(T[h])
                BY <1>4, <4>3
            <4>5. T[h] \in Range(events)
                BY <4>2, <4>4 DEF Landed
            <4>6. PICK i \in 1..n : events[i] = T[h]
                BY <1>4, <4>5 DEF Range
            <4>7. i \in 1..Len(T) /\ events[i] = T[i]
                BY <1>4, <2>2
            <4>8. i = h
                BY <2>3, <4>3, <4>6, <4>7
            <4> QED
                BY <1>4, <1>5, <3>1, <4>8 DEF h
        <3>2. ASSUME j < n + 1 PROVE FALSE
            <4>1. j \in 1..n
                BY <1>4, <1>5, <3>2
            <4>2. events[j] = e
                BY <1>5, <2>2, <4>1
            <4> QED
                BY <1>4, <1>6, <4>1, <4>2 DEF Range
        <3> QED
            BY <1>4, <1>5, <3>1, <3>2
    <2>5. n + 1 <= Len(T) /\ \A i \in 1..(n + 1) : events'[i] = T[i]
        <3>1. ASSUME NEW i \in 1..(n + 1) PROVE events'[i] = T[i]
            <4>1. CASE i = n + 1
                BY <1>5, <1>7, <2>4, <4>1
            <4>2. CASE i # n + 1
                <5>1. i \in 1..n
                    BY <1>4, <4>2
                <5> QED
                    BY <1>7, <2>2, <5>1
            <4> QED
                BY <4>1, <4>2
        <3> QED
            BY <1>4, <1>5, <2>4, <3>1
    <2>6. report'.tax = T /\ report'.ledger = report.ledger
        BY <1>2 DEF T
    <2>7. \E h \in 0..Len(report'.ledger) :
             /\ h <= Len(log')
             /\ \A i \in 1..h : log'[i] = report'.ledger[i]
             /\ \A i \in 1..Len(log') : h < i => log'[i].id[1] \notin Origins
        <3>1. \E h \in 0..Len(report.ledger) :
                 /\ h <= Len(log)
                 /\ \A i \in 1..h : log[i] = report.ledger[i]
                 /\ \A i \in 1..Len(log) : h < i => log[i].id[1] \notin Origins
            BY <2>1 DEF FirstPart
        <3>2. log' = log
            BY DEF e
        <3> QED
            BY <2>6, <3>1, <3>2
    <2>8. Len(events') <= Len(report'.tax) /\ \A i \in 1..Len(events') : events'[i] = report'.tax[i]
        BY <1>7, <2>5, <2>6
    <2> QED
        BY <2>7, <2>8 DEF FirstPart
<1>12. \A run \in done' : Complete(run)'
    <2>1. events' = Append(events, e) /\ log' = log
        BY DEF e
    <2> QED
        BY <1>2, <2>1, AppendKeepsComplete
<1>13. RunOK(report)'
    BY <1>2, <1>3
<1> QED
    BY <1>1, <1>3, <1>8, <1>9, <1>10, <1>11, <1>12, <1>13 DEF CommitInv, w

\* A commit that ends well leaves its two streams, and nothing else.
LEMMA FinishIsComplete ==
    ASSUME EachYearOnce, CommitInv, Finish
    PROVE  Complete(report)
<1> DEFINE w == Work(report)
           L == report.ledger
           T == report.tax
<1>1. running /\ todo = <<>>
    BY DEF Finish
<1>2. RunOK(report) /\ OwnEventsOnly(report) /\ LandedOnce
    BY <1>1 DEF CommitInv
<1>3. /\ w \in Seq(Range(w)) /\ Len(w) \in Nat
      /\ Len(L) \in Nat /\ Len(T) \in Nat /\ DOMAIN L = 1..Len(L) /\ DOMAIN T = 1..Len(T)
      /\ Len(w) = Len(L) + Len(T)
      /\ \A i \in 1..Len(L) : w[i] = L[i]
      /\ \A i \in 1..Len(T) : w[Len(L) + i] = T[i]
    BY <1>2, WorkFacts
<1>4. /\ L \in Seq(Range(L)) /\ T \in Seq(Range(T))
      /\ \A i \in 1..Len(L) : L[i].id[1] \in Origins /\ ~IsTaxEvent(L[i])
      /\ \A i, j \in 1..Len(L) : L[i].id = L[j].id => i = j
      /\ \A i \in 1..Len(T) : IsTaxEvent(T[i])
      /\ Unique(T)
    BY <1>2, <1>3 DEF RunOK, Imported, Range
<1> HIDE DEF w, L, T
<1>5. \A i \in 1..Len(w) : Landed(w[i])
    <2>1. PICK k \in 0..Len(w) : DoneUpTo(k)
        BY <1>1 DEF CommitInv, w
    <2>2. k = Len(w)
        <3>1. SubSeq(w, k + 1, Len(w)) = <<>>
            BY <1>1, <2>1 DEF DoneUpTo, w
        <3>2. \A i \in (k + 1)..Len(w) : w[i] \in Range(w)
            <4>1. DOMAIN w = 1..Len(w)
                BY <1>3
            <4>2. \A i \in (k + 1)..Len(w) : i \in 1..Len(w)
                BY <2>1
            <4> QED
                BY <4>1, <4>2 DEF Range
        <3>3. Len(SubSeq(w, k + 1, Len(w))) = IF k + 1 <= Len(w) THEN Len(w) - (k + 1) + 1 ELSE 0
            BY <1>3, <3>2, SubSeqProperties
        <3>4. Len(SubSeq(w, k + 1, Len(w))) = 0
            <4>1. Len(<<>>) = 0
                OBVIOUS
            <4> QED
                BY <3>1, <4>1
        <3>5. ASSUME k < Len(w) PROVE FALSE
            BY <1>3, <3>3, <3>4, <3>5
        <3>6. k \in Int /\ k <= Len(w) /\ Len(w) \in Int
            BY <1>3
        <3> QED
            BY <3>5, <3>6
    <2> QED
        BY <2>1, <2>2 DEF DoneUpTo, w
<1>6. /\ log \in Seq(Range(log)) /\ Len(log) \in Nat /\ DOMAIN log = 1..Len(log)
      /\ events \in Seq(Range(events)) /\ Len(events) \in Nat /\ DOMAIN events = 1..Len(events)
    BY <1>2 DEF LandedOnce
<1>7. \A i \in 1..Len(L) : L[i] \in Range(log)
    <2> SUFFICES ASSUME NEW i \in 1..Len(L) PROVE L[i] \in Range(log)
        OBVIOUS
    <2>1. i \in 1..Len(w) /\ w[i] = L[i]
        BY <1>3
    <2>2. Landed(L[i])
        BY <1>5, <2>1
    <2> QED
        BY <1>4, <2>2 DEF Landed
<1>8. \A i \in 1..Len(T) : T[i] \in Range(events)
    <2> SUFFICES ASSUME NEW i \in 1..Len(T) PROVE T[i] \in Range(events)
        OBVIOUS
    <2>1. Len(L) + i \in 1..Len(w) /\ w[Len(L) + i] = T[i]
        BY <1>3
    <2>2. Landed(T[i])
        BY <1>5, <2>1
    <2> QED
        BY <1>4, <2>2 DEF Landed
<1>9. \A i \in 1..Len(log) : log[i].id[1] \in Origins /\ log[i] \in Range(L)
    <2> SUFFICES ASSUME NEW i \in 1..Len(log) PROVE log[i].id[1] \in Origins /\ log[i] \in Range(L)
        OBVIOUS
    <2>1. log[i].id \in Ids(L)
        BY <1>2, <1>6 DEF OwnEventsOnly, Ids, L
    <2>2. PICK x \in 1..Len(L) : log[i].id = L[x].id
        BY <1>3, <2>1 DEF Ids
    <2>3. PICK y \in 1..Len(log) : log[y] = L[x]
        BY <1>6, <1>7 DEF Range
    <2>4. log[i].id[1] \in Origins
        BY <1>4, <2>2
    <2>5. i = y
        BY <1>2, <1>6, <2>2, <2>3, <2>4 DEF LandedOnce
    <2> QED
        BY <1>3, <2>3, <2>4, <2>5 DEF Range
<1>10. Range(log) = Range(L) /\ Range(events) = Range(T)
    <2>1. Range(log) \subseteq Range(L)
        BY <1>6, <1>9 DEF Range
    <2>2. Range(L) \subseteq Range(log)
        BY <1>3, <1>7 DEF Range
    <2>3. Range(T) \subseteq Range(events)
        BY <1>3, <1>8 DEF Range
    <2>4. Range(events) \subseteq Range(T)
        BY <1>2 DEF OwnEventsOnly, T
    <2> QED
        BY <2>1, <2>2, <2>3, <2>4
<1>11. Unique(log) /\ Unique(events) /\ Unique(L)
    <2>1. Unique(log)
        BY <1>2, <1>6, <1>9 DEF LandedOnce, Unique
    <2>2. Unique(L)
        BY <1>3, <1>4 DEF Unique
    <2> QED
        BY <1>2, <2>1, <2>2 DEF LandedOnce
<1>12. Len(log) = Len(L) /\ Len(events) = Len(T)
    <2>1. Cardinality(Range(log)) = Len(log) /\ Cardinality(Range(L)) = Len(L)
        BY <1>4, <1>6, <1>11, UniqueIsCounted
    <2>2. Cardinality(Range(events)) = Len(events) /\ Cardinality(Range(T)) = Len(T)
        BY <1>4, <1>6, <1>11, UniqueIsCounted
    <2> QED
        BY <1>10, <2>1, <2>2
<1>13. SubSeq(log, 1, Len(L)) = log /\ SubSeq(events, 1, Len(T)) = events
    BY <1>6, <1>12, SubSeqFull
<1>14. ASSUME steady PROVE log = L /\ events = T
    <2>1. FirstPart(report)
        BY <1>14 DEF CommitInv
    <2>2. PICK m \in 0..Len(L) :
             /\ m <= Len(log)
             /\ \A i \in 1..m : log[i] = L[i]
             /\ \A i \in 1..Len(log) : m < i => log[i].id[1] \notin Origins
        BY <2>1 DEF FirstPart, L
    <2>3. m = Len(log)
        <3>1. ASSUME m < Len(log) PROVE FALSE
            <4>1. Len(log) \in 1..Len(log)
                BY <1>6, <2>2, <3>1
            <4> QED
                BY <1>9, <2>2, <3>1, <4>1
        <3>2. m \in Int /\ m <= Len(log) /\ Len(log) \in Int
            BY <1>3, <1>6, <2>2
        <3> QED
            BY <3>1, <3>2
    <2>4. \A i \in 1..Len(events) : events[i] = T[i]
        BY <2>1 DEF FirstPart, T
    <2>5. log = L
        <3>1. log \in Seq(Range(L)) /\ L \in Seq(Range(L))
            BY <1>4, <1>6, <1>10
        <3> QED
            BY <1>12, <2>2, <2>3, <3>1, SeqEqual
    <2>6. events = T
        <3>1. events \in Seq(Range(T)) /\ T \in Seq(Range(T))
            BY <1>4, <1>6, <1>10
        <3> QED
            BY <1>12, <2>4, <3>1, SeqEqual
    <2> QED
        BY <2>5, <2>6
<1>15. Len(L) <= Len(log) /\ Len(T) <= Len(events)
    BY <1>3, <1>12
<1> QED
    BY <1>2, <1>10, <1>13, <1>14, <1>15 DEF Complete, L, T

\* What others enter is no event of an import.
LEMMA ElsewhereKeepsCommit ==
    ASSUME CommitInv, Elsewhere
    PROVE  CommitInv'
<1>1. /\ ~running /\ running' = running /\ events' = events
      /\ UNCHANGED <<report, todo, steady, done>>
    BY DEF Elsewhere, LedgerStep
<1>2. \/ log' = log
      \/ \E e \in Payloads : log' = Append(log, e)
    BY DEF Elsewhere, LedgerStep, Submit, Accept, Reject
<1>3. CASE log' = log
    <2>1. LandedOnce'
        BY <1>1, <1>3 DEF CommitInv, LandedOnce, Unique
    <2>2. steady' => FirstPart(report)'
        BY <1>1, <1>3 DEF CommitInv, FirstPart
    <2>3. \A run \in done' : Complete(run)'
        BY <1>1, <1>3 DEF CommitInv, Complete
    <2>4. RunOK(report)'
        BY <1>1 DEF CommitInv
    <2> QED
        BY <1>1, <2>1, <2>2, <2>3, <2>4 DEF CommitInv
<1>4. CASE \E e \in Payloads : log' = Append(log, e)
    <2>1. PICK e \in Payloads : log' = Append(log, e)
        BY <1>4
    <2> DEFINE n == Len(log)
    <2>2. log \in Seq(Range(log)) /\ n \in Nat /\ DOMAIN log = 1..n
        BY DEF CommitInv, LandedOnce
    <2>3. /\ log' \in Seq(Range(log')) /\ Len(log') = n + 1 /\ DOMAIN log' = 1..(n + 1)
          /\ \A i \in 1..n : log'[i] = log[i]
          /\ log'[n + 1] = e
        BY <2>1, <2>2, AppendFacts
    <2>4. e.id[1] \notin Origins
        BY PayloadsAreEntered
    <2> HIDE DEF n
    <2>5. \A x \in 1..(n + 1) : x \in 1..n \/ x = n + 1
        BY <2>2
    <2>6. LandedOnce'
        <3>1. ASSUME NEW i \in 1..(n + 1), NEW j \in 1..(n + 1), log'[i].id = log'[j].id,
                     log'[i].id[1] \in Origins
              PROVE  i = j
            <4>1. i \in 1..n /\ j \in 1..n
                BY <2>3, <2>4, <2>5, <3>1
            <4>2. log[i].id = log[j].id /\ log[i].id[1] \in Origins
                BY <2>3, <3>1, <4>1
            <4> QED
                BY <2>2, <4>1, <4>2 DEF CommitInv, LandedOnce
        <3> QED
            BY <1>1, <2>3, <3>1 DEF CommitInv, LandedOnce, Unique
    <2>7. ASSUME steady' PROVE FirstPart(report)'
        <3>1. FirstPart(report)
            BY <1>1, <2>7 DEF CommitInv
        <3>2. PICK m \in 0..Len(report.ledger) :
                 /\ m <= n
                 /\ \A i \in 1..m : log[i] = report.ledger[i]
                 /\ \A i \in 1..n : m < i => log[i].id[1] \notin Origins
            BY <3>1 DEF FirstPart, n
        <3>3. m \in Int
            OBVIOUS
        <3>4. m <= n + 1 /\ \A i \in 1..m : i \in 1..n
            BY <2>2, <3>2, <3>3
        <3>5. \A i \in 1..m : log'[i] = report.ledger[i]
            BY <2>3, <3>2, <3>4
        <3>6. \A i \in 1..(n + 1) : m < i => log'[i].id[1] \notin Origins
            BY <2>3, <2>4, <2>5, <3>2
        <3>7. \E h \in 0..Len(report'.ledger) :
                 /\ h <= Len(log')
                 /\ \A i \in 1..h : log'[i] = report'.ledger[i]
                 /\ \A i \in 1..Len(log') : h < i => log'[i].id[1] \notin Origins
            BY <1>1, <2>3, <3>4, <3>5, <3>6
        <3>8. Len(events') <= Len(report'.tax) /\ \A i \in 1..Len(events') : events'[i] = report'.tax[i]
            BY <1>1, <3>1 DEF FirstPart
        <3> QED
            BY <3>7, <3>8 DEF FirstPart
    <2>8. \A run \in done' : Complete(run)'
        BY <1>1, <2>1, AppendKeepsComplete
    <2>9. RunOK(report)'
        BY <1>1 DEF CommitInv
    <2> QED
        BY <1>1, <2>6, <2>7, <2>8, <2>9 DEF CommitInv
<1> QED
    BY <1>2, <1>3, <1>4

\* Every action keeps the invariant of a commit.
LEMMA CommitInvStep ==
    ASSUME EachYearOnce
    PROVE  CommitInv /\ [ImportNext]_importVars => CommitInv'
<1> SUFFICES ASSUME CommitInv, [ImportNext]_importVars PROVE CommitInv'
    OBVIOUS
<1>1. CASE Edit
    BY <1>1, EditKeepsCommit
<1>2. CASE Begin
    BY <1>2, BeginKeepsCommit
<1>3. CASE AppendNext
    <2>1. CASE Landed(Head(todo)) /\ UNCHANGED <<log, events>>
        BY <1>3, <2>1, SkipKeepsCommit
    <2>2. CASE ~Landed(Head(todo)) /\ ~Differs(Head(todo)) /\ Land(Head(todo))
        <3>1. CASE IsTaxEvent(Head(todo))
            <4>1. events' = Append(events, Head(todo)) /\ log' = log
                BY <2>2, <3>1 DEF Land
            <4> QED
                BY <1>3, <2>2, <3>1, <4>1, LandTaxKeepsCommit
        <3>2. CASE ~IsTaxEvent(Head(todo))
            <4>1. log' = Append(log, Head(todo)) /\ events' = events
                BY <2>2, <3>2 DEF Land
            <4> QED
                BY <1>3, <2>2, <3>2, <4>1, LandLedgerKeepsCommit
        <3> QED
            BY <3>1, <3>2
    <2> QED
        BY <1>3, <2>1, <2>2 DEF AppendNext
<1>4. ASSUME UNCHANGED <<log, events, report, steady>>, ~running', \A run \in done' : Complete(run)
      PROVE  CommitInv'
    <2>1. LandedOnce'
        BY <1>4 DEF CommitInv, LandedOnce, Unique
    <2>2. steady' => FirstPart(report)'
        BY <1>4 DEF CommitInv, FirstPart
    <2>3. \A run \in done' : Complete(run)'
        BY <1>4 DEF Complete
    <2>4. RunOK(report)'
        BY <1>4 DEF CommitInv
    <2> QED
        BY <1>4, <2>1, <2>2, <2>3, <2>4 DEF CommitInv
<1>5. CASE Interrupt
    BY <1>4, <1>5 DEF Interrupt, CommitInv
<1>6. CASE Finish
    <2>1. Complete(report)
        BY <1>6, FinishIsComplete
    <2>2. UNCHANGED <<log, events, report, steady>> /\ ~running' /\ done' = {report}
        BY <1>6 DEF Finish
    <2> QED
        BY <1>4, <2>1, <2>2
<1>7. CASE Elsewhere
    BY <1>7, ElsewhereKeepsCommit
<1>8. CASE UNCHANGED importVars
    <2>1. UNCHANGED <<log, events, report, todo, running, steady, done>>
        BY <1>8 DEF importVars
    <2>2. LandedOnce'
        BY <2>1 DEF CommitInv, LandedOnce, Unique
    <2>3. steady' => FirstPart(report)'
        BY <2>1 DEF CommitInv, FirstPart
    <2>4. \A run \in done' : Complete(run)'
        BY <2>1 DEF CommitInv, Complete
    <2>5. RunOK(report)'
        BY <2>1 DEF CommitInv
    <2>6. running' => OwnEventsOnly(report)' /\ \E k \in 0..Len(Work(report)') : DoneUpTo(k)'
        BY <2>1 DEF CommitInv, OwnEventsOnly, Ids, DoneUpTo, Work, Landed
    <2> QED
        BY <2>2, <2>3, <2>4, <2>5, <2>6 DEF CommitInv
<1> QED
    BY <1>1, <1>2, <1>3, <1>5, <1>6, <1>7, <1>8 DEF ImportNext

\* A finished commit left what its dry run reconciled, however often it was
\* interrupted and whatever was edited or entered meanwhile, if the inputs list a
\* closed year once.
THEOREM CommitsAreReconciled ==
    ASSUME EachYearOnce
    PROVE  ImportSpec => []CommittedIsReconciled
<1>1. CommitInv => CommittedIsReconciled
    BY DEF CommitInv, Complete, CommittedIsReconciled
<1> QED
    BY <1>1, CommitInvInit, CommitInvStep, PTL DEF ImportSpec

(***************************************************************************)
(* The shape of the fold                                                   *)
(***************************************************************************)
\* Being a sequence is being defined on an interval.
LEMMA SeqForm ==
    ASSUME NEW s, NEW m \in Nat, s = [i \in 1..m |-> s[i]]
    PROVE  IsSeq(s) /\ Len(s) = m /\ DOMAIN s = 1..m
<1>1. \A i \in 1..m : s[i] \in Range(s)
    <2>1. DOMAIN s = 1..m
        OBVIOUS
    <2> QED
        BY <2>1 DEF Range
<1>2. s \in Seq(Range(s))
    BY <1>1
<1> QED
    BY <1>2 DEF IsSeq

\* And every sequence is.
LEMMA FormOfSeq ==
    ASSUME NEW s, IsSeq(s)
    PROVE  Len(s) \in Nat /\ DOMAIN s = 1..Len(s) /\ s = [i \in 1..Len(s) |-> s[i]]
BY DEF IsSeq

\* A fold state keeps its lots and its gains in sequences.
ShapeOK(st) ==
    /\ DOMAIN st = {"lots", "gains", "depended", "dropped"}
    /\ IsSeq(st.lots) /\ IsSeq(st.gains)

\* Consuming a lot keeps the shape of the state.
LEMMA ConsumeShape ==
    ASSUME NEW st, ShapeOK(st), NEW seq, NEW e, NEW k, NEW c, NEW proceeds
    PROVE  ShapeOK(Consume(st, seq, e, k, c, proceeds))
<1> DEFINE y == Consume(st, seq, e, k, c, proceeds)
           g == [sale |-> seq, lot |-> st.lots[k].id, symbol |-> e.symbol,
                 qty |-> c, proceeds |-> proceeds,
                 basis |-> ConsumeBasis(st.lots[k].basis, st.lots[k].qty, c).taken,
                 saleDate |-> e.date, acquired |-> st.lots[k].acquired]
           n == Len(st.lots)
<1>1. /\ DOMAIN st = {"lots", "gains", "depended", "dropped"}
      /\ IsSeq(st.gains) /\ n \in Nat /\ st.lots = [i \in 1..n |-> st.lots[i]] /\ DOMAIN st.lots = 1..n
    BY FormOfSeq DEF ShapeOK
<1> HIDE DEF n
<1>2. DOMAIN y = {"lots", "gains", "depended", "dropped"}
    BY <1>1 DEF Consume
<1>3. y.gains = Append(st.gains, g)
    BY <1>1 DEF Consume
<1>4. y.lots = [i \in 1..n |-> y.lots[i]]
    BY <1>1 DEF Consume
<1> HIDE DEF y, g
<1>5. IsSeq(y.lots)
    BY <1>1, <1>4, SeqForm
<1>6. IsSeq(y.gains)
    BY <1>1, <1>3, AppendFacts DEF IsSeq
<1> QED
    BY <1>2, <1>5, <1>6 DEF ShapeOK, y

\* So does a split of a lot.
LEMMA RescaleShape ==
    ASSUME NEW st, ShapeOK(st), NEW e, NEW k
    PROVE  ShapeOK(Rescale(st, e, k)) /\ Len(Rescale(st, e, k).lots) = Len(st.lots)
<1> DEFINE y == Rescale(st, e, k)
           n == Len(st.lots)
<1>1. /\ DOMAIN st = {"lots", "gains", "depended", "dropped"}
      /\ IsSeq(st.gains) /\ n \in Nat /\ st.lots = [i \in 1..n |-> st.lots[i]] /\ DOMAIN st.lots = 1..n
    BY FormOfSeq DEF ShapeOK
<1> HIDE DEF n
<1>2. DOMAIN y = {"lots", "gains", "depended", "dropped"}
    BY <1>1 DEF Rescale
<1>3. y.gains = st.gains
    BY <1>1 DEF Rescale
<1>4. y.lots = [i \in 1..n |-> y.lots[i]]
    BY <1>1 DEF Rescale
<1> HIDE DEF y
<1>5. IsSeq(y.lots) /\ Len(y.lots) = n
    BY <1>1, <1>4, SeqForm
<1> QED
    BY <1>1, <1>2, <1>3, <1>5 DEF ShapeOK, y, n

\* A plan of a sale is a sequence.
LEMMA PlanShape ==
    ASSUME NEW st, ShapeOK(st), NEW e, e.refs # <<>> => IsSeq(e.refs)
    PROVE  Len(SelectLots(st, e)) \in Nat
<1>1. CASE e.refs # <<>>
    <2> DEFINE n == Len(e.refs)
               p == SpecificPlan(st, e)
    <2>1. n \in Nat /\ DOMAIN e.refs = 1..n
        BY <1>1, FormOfSeq
    <2> HIDE DEF n
    <2>2. p = [i \in 1..n |-> p[i]]
        BY <2>1 DEF SpecificPlan
    <2> HIDE DEF p
    <2>3. Len(p) = n
        BY <2>1, <2>2, SeqForm
    <2> QED
        BY <1>1, <2>1, <2>3 DEF SelectLots, p
<1>2. CASE e.refs = <<>>
    <2> DEFINE R == Reached(st, e)
               n == Cardinality(R)
               At(i) == CHOOSE k \in R : Cardinality(OlderOpen(st, e, k)) = i - 1
               Take(k) == IF st.lots[k].qty >= Need(st, e, k) THEN Need(st, e, k) ELSE st.lots[k].qty
               p == FifoPlan(st, e)
    <2>1. p = [i \in 1..n |-> <<At(i), Take(At(i))>>]
        BY DEF FifoPlan, OlderOpen, Need, Reached
    <2>2. n \in Nat
        <3>1. Len(st.lots) \in Nat /\ DOMAIN st.lots = 1..Len(st.lots)
            BY FormOfSeq DEF ShapeOK
        <3>2. R \subseteq DOMAIN st.lots
            BY DEF Reached, FifoCandidates
        <3> HIDE DEF R
        <3>3. IsFiniteSet(DOMAIN st.lots)
            <4> DEFINE m == Len(st.lots)
            <4>1. m \in Nat /\ DOMAIN st.lots = 1..m
                BY <3>1
            <4> HIDE DEF m
            <4> QED
                BY <4>1, FS_Interval
        <3> QED
            BY <3>2, <3>3, FS_Subset, FS_CardinalityType
    <2> HIDE DEF p, n, At, Take
    <2>3. p = [i \in 1..n |-> p[i]]
        BY <2>1
    <2>4. Len(p) = n
        BY <2>2, <2>3, SeqForm
    <2> QED
        BY <1>2, <2>2, <2>4 DEF SelectLots, p
<1> QED
    BY <1>1, <1>2

\* A sale takes its plan lot by lot.
LEMMA SellShape ==
    ASSUME NEW st, ShapeOK(st), NEW e, e.refs # <<>> => IsSeq(e.refs), NEW seq
    PROVE  ShapeOK(ApplySell(st, seq, e))
<1> DEFINE plan == SelectLots(st, e)
           m == Len(plan)
           proceeds == AllocateProceeds(st, plan, Net(e), e.qty)
           F == CHOOSE F : SoldBy(st, seq, e, plan, proceeds, m, F)
           P == {n \in Nat : n <= m => ShapeOK(F[n])}
<1>1. m \in Nat
    BY PlanShape
<1>2. ApplySell(st, seq, e) = F[m]
    BY DEF ApplySell, SoldBy
<1> HIDE DEF plan, m, proceeds
<1>3. SoldBy(st, seq, e, plan, proceeds, m, F)
    BY <1>1, SoldExists
<1> HIDE DEF F
<1>4. /\ F[0] = st
      /\ \A n \in 1..m : F[n] = Consume(F[n - 1], seq, e, plan[n][1], plan[n][2], proceeds[n])
    BY <1>1, <1>3 DEF SoldBy
<1>5. 0 \in P
    BY <1>4
<1>6. ASSUME NEW n \in Nat, n \in P PROVE n + 1 \in P
    <2> SUFFICES ASSUME n + 1 <= m PROVE ShapeOK(F[n + 1])
        OBVIOUS
    <2>1. n + 1 \in 1..m /\ n <= m /\ (n + 1) - 1 = n
        BY <1>1
    <2>2. ShapeOK(F[n])
        BY <1>6, <2>1
    <2>3. F[n + 1] = Consume(F[n], seq, e, plan[n + 1][1], plan[n + 1][2], proceeds[n + 1])
        BY <1>4, <2>1
    <2> QED
        BY <2>2, <2>3, ConsumeShape
<1> HIDE DEF P
<1>7. m \in P
    BY <1>1, <1>5, <1>6, NumberInduction
<1> QED
    BY <1>1, <1>2, <1>7 DEF P

\* A split rescales lot by lot.
LEMMA SplitShape ==
    ASSUME NEW st, ShapeOK(st), NEW e
    PROVE  ShapeOK(ApplySplit(st, e))
<1> DEFINE S == {k \in SplitLots(st, e) : \A b \in OverCap(st, e) : k < b}
           m == Len(st.lots)
           F == CHOOSE F : SplitBy(st, e, S, m, F)
           P == {n \in Nat : n <= m => ShapeOK(F[n])}
<1>1. m \in Nat
    BY FormOfSeq DEF ShapeOK
<1>2. ApplySplit(st, e) = F[m]
    BY DEF ApplySplit, SplitBy
<1> HIDE DEF S, m
<1>3. SplitBy(st, e, S, m, F)
    BY <1>1, SplitExists
<1> HIDE DEF F
<1>4. /\ F[0] = st
      /\ \A n \in 1..m : F[n] = IF n \in S THEN Rescale(F[n - 1], e, n) ELSE F[n - 1]
    BY <1>1, <1>3 DEF SplitBy
<1>5. 0 \in P
    BY <1>4
<1>6. ASSUME NEW n \in Nat, n \in P PROVE n + 1 \in P
    <2> SUFFICES ASSUME n + 1 <= m PROVE ShapeOK(F[n + 1])
        OBVIOUS
    <2>1. n + 1 \in 1..m /\ n <= m /\ (n + 1) - 1 = n
        BY <1>1
    <2>2. ShapeOK(F[n])
        BY <1>6, <2>1
    <2>3. F[n + 1] = IF n + 1 \in S THEN Rescale(F[n], e, n + 1) ELSE F[n]
        BY <1>4, <2>1
    <2>4. ShapeOK(Rescale(F[n], e, n + 1))
        BY <2>2, RescaleShape
    <2> QED
        BY <2>2, <2>3, <2>4
<1> HIDE DEF P
<1>7. m \in P
    BY <1>1, <1>5, <1>6, NumberInduction
<1> QED
    BY <1>1, <1>2, <1>7 DEF P

\* Every event keeps the shape of the fold state.
LEMMA EventShape ==
    ASSUME NEW st, ShapeOK(st), NEW seq, NEW e, e.kind = "Sell" /\ e.refs # <<>> => IsSeq(e.refs)
    PROVE  ShapeOK(ApplyEvent(st, seq, e))
<1> DEFINE marked == [st EXCEPT !.dropped = @ \cup {seq}]
<1>1. ShapeOK(marked)
    BY DEF ShapeOK
<1>2. ShapeOK(ApplyOpen(st, seq, e))
    <2> DEFINE y == ApplyOpen(st, seq, e)
    <2>1. /\ DOMAIN y = {"lots", "gains", "depended", "dropped"} /\ y.gains = st.gains
          /\ \E lot : y.lots = Append(st.lots, lot)
        BY DEF ApplyOpen, ShapeOK
    <2> HIDE DEF y
    <2>2. IsSeq(y.lots)
        BY <2>1, AppendFacts DEF IsSeq, ShapeOK
    <2>3. IsSeq(y.gains)
        BY <2>1 DEF ShapeOK
    <2> QED
        BY <2>1, <2>2, <2>3 DEF ShapeOK, y
<1>3. e.kind = "Sell" => ShapeOK(ApplySell(st, seq, e))
    BY SellShape
<1>4. ShapeOK(ApplySplit(st, e)) /\ ShapeOK(ApplySplit(marked, e))
    BY <1>1, SplitShape
<1>5. \/ ApplyEvent(st, seq, e)
             \in {ApplySplit(marked, e), ApplySplit(st, e), marked, ApplyOpen(st, seq, e)}
      \/ (e.kind = "Sell" /\ ApplyEvent(st, seq, e) = ApplySell(st, seq, e))
    BY DEF ApplyEvent
<1> HIDE DEF marked
<1> QED
    BY <1>1, <1>2, <1>3, <1>4, <1>5

\* The gains of any log whose sales name their lots in sequences are a sequence.
LEMMA GainsAreSequence ==
    ASSUME NEW l, Len(l) \in Nat, DOMAIN l = 1..Len(l),
           \A n \in 1..Len(l) : l[n].kind = "Sell" /\ l[n].refs # <<>> => IsSeq(l[n].refs)
    PROVE  IsSeq(Replay(l).gains)
<1> DEFINE m == Len(l)
           F == FoldSteps(l)
           P == {n \in Nat : n <= m => ShapeOK(F[n])}
<1>1. m \in Nat /\ DOMAIN l = 1..m
    OBVIOUS
<1>2. /\ F[0] = EmptyFold
      /\ \A n \in 1..m : F[n] = IF n \in Survivors(l) THEN ApplyEvent(F[n - 1], n, l[n])
                                 ELSE F[n - 1]
    BY <1>1, FoldEquations
<1> HIDE DEF F, m
<1>3. 0 \in P
    <2>1. DOMAIN EmptyFold = {"lots", "gains", "depended", "dropped"}
          /\ EmptyFold.lots = <<>> /\ EmptyFold.gains = <<>>
        BY DEF EmptyFold
    <2>2. IsSeq(<<>>)
        BY DEF IsSeq
    <2> QED
        BY <1>2, <2>1, <2>2 DEF ShapeOK
<1>4. ASSUME NEW n \in Nat, n \in P PROVE n + 1 \in P
    <2> SUFFICES ASSUME n + 1 <= m PROVE ShapeOK(F[n + 1])
        OBVIOUS
    <2>1. n + 1 \in 1..m /\ n <= m /\ (n + 1) - 1 = n
        BY <1>1
    <2>2. ShapeOK(F[n])
        BY <1>4, <2>1
    <2>3. F[n + 1] = IF n + 1 \in Survivors(l) THEN ApplyEvent(F[n], n + 1, l[n + 1]) ELSE F[n]
        BY <1>2, <2>1
    <2>4. l[n + 1].kind = "Sell" /\ l[n + 1].refs # <<>> => IsSeq(l[n + 1].refs)
        BY <2>1 DEF m
    <2>5. ShapeOK(ApplyEvent(F[n], n + 1, l[n + 1]))
        BY <2>2, <2>4, EventShape
    <2> QED
        BY <2>2, <2>3, <2>5
<1> HIDE DEF P
<1>5. m \in P
    BY <1>1, <1>3, <1>4, NumberInduction
<1>6. ShapeOK(F[m])
    BY <1>1, <1>5 DEF P
<1> QED
    BY <1>6 DEF Replay, ShapeOK, F, m

(***************************************************************************)
(* The tax events of a closed year                                         *)
(***************************************************************************)
\* The three tax events of a closed year that its reports read.
SeedOf(cy) == [kind |-> "SeedMigration", jur |-> cy.jur, year |-> cy.year, amount |-> cy.amount]
MoveOf(cy) ==
    [kind |-> "Move", key |-> MigrationKey(cy.jur, cy.year), amount |-> cy.amount,
     on |-> DaysFromCivil(cy.year, 12, 31)]
PayOf(cy) ==
    [kind |-> "Pay", jur |-> cy.jur, year |-> cy.year, amount |-> cy.amount,
     covers |-> <<MigrationKey(cy.jur, cy.year)>>, on |-> DaysFromCivil(cy.year, 12, 31)]

\* A closed year has one of each.
LEMMA LifecycleParts ==
    ASSUME NEW cy
    PROVE  LET L == Range(MigrationLifecycle(cy))
           IN  /\ SeedOf(cy) \in L /\ MoveOf(cy) \in L /\ PayOf(cy) \in L
               /\ \A e \in L : /\ e.kind = "SeedMigration" => e = SeedOf(cy)
                               /\ e.kind = "Move" => e = MoveOf(cy)
                               /\ e.kind = "Pay" => e = PayOf(cy)
<1> DEFINE key == MigrationKey(cy.jur, cy.year)
           on == DaysFromCivil(cy.year, 12, 31)
           e1 == SeedOf(cy)
           e2 == [kind |-> "AmountOverride", key |-> key, amount |-> cy.amount]
           e3 == [kind |-> "Allocate", key |-> key, label |-> cy.label]
           e4 == MoveOf(cy)
           e5 == PayOf(cy)
<1>1. MigrationLifecycle(cy) = <<e1, e2, e3, e4, e5>>
    BY DEF MigrationLifecycle, SeedOf, MoveOf, PayOf
<1>2. /\ e1.kind = "SeedMigration" /\ e2.kind = "AmountOverride" /\ e3.kind = "Allocate"
      /\ e4.kind = "Move" /\ e5.kind = "Pay"
    BY DEF SeedOf, MoveOf, PayOf
<1> HIDE DEF e1, e2, e3, e4, e5
<1> DEFINE l == <<e1, e2, e3, e4, e5>>
<1>3. /\ Len(l) = 5 /\ DOMAIN l = 1..5
      /\ l[1] = e1 /\ l[2] = e2 /\ l[3] = e3 /\ l[4] = e4 /\ l[5] = e5
    OBVIOUS
<1> HIDE DEF l
<1>4. Range(l) = {e1, e2, e3, e4, e5}
    <2>1. 1..5 = {1, 2, 3, 4, 5}
        OBVIOUS
    <2> QED
        BY <1>3, <2>1 DEF Range
<1>5. \A e \in Range(l) : /\ e.kind = "SeedMigration" => e = e1
                          /\ e.kind = "Move" => e = e4
                          /\ e.kind = "Pay" => e = e5
    BY <1>2, <1>4
<1> QED
    BY <1>1, <1>4, <1>5 DEF l, e1, e4, e5

\* Tax events of a list of closed years and of nothing else, each once.
PaidFor(es, years) ==
    /\ IsSeq(es) /\ Unique(es)
    /\ years \in Seq(ClosedYears) /\ ListedOnce(years)
    /\ Range(es) \subseteq Range(MigrationTaxEvents(years))

\* A closed year that landed whole has no other seed, move or payment.
LEMMA BucketEvents ==
    ASSUME NEW es, NEW years, PaidFor(es, years),
           NEW cy, Range(MigrationLifecycle(cy)) \subseteq Range(es)
    PROVE  \E s, m, p \in DOMAIN es :
               /\ es[s] = SeedOf(cy) /\ es[m] = MoveOf(cy) /\ es[p] = PayOf(cy)
               /\ \A i \in Seeds(es) : es[i].jur = cy.jur /\ es[i].year = cy.year => i = s
               /\ MovesInto(es, cy.jur, cy.year) = {m}
               /\ PaysOutOf(es, cy.jur, cy.year) = {p}
<1> DEFINE L(y) == Range(MigrationLifecycle(y))
           b == <<cy.jur, cy.year>>
<1>1. /\ DOMAIN years = 1..Len(years)
      /\ Range(MigrationTaxEvents(years)) = UNION {L(years[i]) : i \in DOMAIN years}
    BY MigrationFacts DEF PaidFor
<1>2. ASSUME NEW e \in Range(es) PROVE \E i \in DOMAIN years : e \in L(years[i])
    BY <1>1 DEF PaidFor
<1>3. /\ SeedOf(cy) \in Range(es) /\ MoveOf(cy) \in Range(es) /\ PayOf(cy) \in Range(es)
      /\ BucketOf(SeedOf(cy)) = b /\ BucketOf(MoveOf(cy)) = b /\ BucketOf(PayOf(cy)) = b
    <2>1. SeedOf(cy) \in L(cy) /\ MoveOf(cy) \in L(cy) /\ PayOf(cy) \in L(cy)
        BY LifecycleParts
    <2> QED
        BY <2>1, LifecycleFacts
<1>4. /\ SeedOf(cy).kind = "SeedMigration" /\ MoveOf(cy).kind = "Move" /\ PayOf(cy).kind = "Pay"
    BY DEF SeedOf, MoveOf, PayOf
<1>5. ASSUME NEW e \in Range(es), NEW f \in Range(es), BucketOf(e) = b, BucketOf(f) = b,
             e.kind = f.kind, e.kind \in {"SeedMigration", "Move", "Pay"}
      PROVE  e = f
    <2>1. PICK i \in DOMAIN years : e \in L(years[i])
        BY <1>2
    <2>2. PICK j \in DOMAIN years : f \in L(years[j])
        BY <1>2
    <2>3. b = <<years[i].jur, years[i].year>> /\ b = <<years[j].jur, years[j].year>>
        BY <1>5, <2>1, <2>2, LifecycleFacts
    <2>4. years[i].jur = years[j].jur /\ years[i].year = years[j].year
        BY <2>3
    <2>5. i = j
        BY <2>4 DEF PaidFor, ListedOnce
    <2> QED
        BY <1>5, <2>1, <2>2, <2>5, LifecycleParts
<1> HIDE DEF L
<1>6. PICK s \in DOMAIN es : es[s] = SeedOf(cy)
    BY <1>3 DEF Range
<1>7. PICK m \in DOMAIN es : es[m] = MoveOf(cy)
    BY <1>3 DEF Range
<1>8. PICK p \in DOMAIN es : es[p] = PayOf(cy)
    BY <1>3 DEF Range
<1>9. \A i, j \in DOMAIN es : es[i] = es[j] => i = j
    BY DEF PaidFor, Unique
<1>10. \A i \in DOMAIN es : es[i] \in Range(es)
    BY DEF Range
<1>11. ASSUME NEW i \in Seeds(es), es[i].jur = cy.jur, es[i].year = cy.year PROVE i = s
    <2>1. i \in DOMAIN es /\ es[i].kind = "SeedMigration"
        BY DEF Seeds
    <2>2. BucketOf(es[i]) = b
        BY <1>11, <2>1 DEF BucketOf
    <2>3. es[i] = SeedOf(cy)
        BY <1>3, <1>4, <1>5, <1>10, <2>1, <2>2
    <2> QED
        BY <1>6, <1>9, <2>1, <2>3
<1>12. MovesInto(es, cy.jur, cy.year) = {m}
    <2>1. ASSUME NEW i \in MovesInto(es, cy.jur, cy.year) PROVE i = m
        <3>1. i \in DOMAIN es /\ es[i].kind = "Move" /\ es[i].key.jur = cy.jur /\ es[i].key.year = cy.year
            BY DEF MovesInto
        <3>2. BucketOf(es[i]) = b
            BY <3>1 DEF BucketOf
        <3>3. es[i] = MoveOf(cy)
            BY <1>3, <1>4, <1>5, <1>10, <3>1, <3>2
        <3> QED
            BY <1>7, <1>9, <3>1, <3>3
    <2>2. m \in MovesInto(es, cy.jur, cy.year)
        <3>1. MoveOf(cy).key = MigrationKey(cy.jur, cy.year)
            BY DEF MoveOf
        <3>2. MigrationKey(cy.jur, cy.year).jur = cy.jur /\ MigrationKey(cy.jur, cy.year).year = cy.year
            BY DEF MigrationKey
        <3> QED
            BY <1>4, <1>7, <3>1, <3>2 DEF MovesInto
    <2> QED
        BY <2>1, <2>2
<1>13. PaysOutOf(es, cy.jur, cy.year) = {p}
    <2>1. ASSUME NEW i \in PaysOutOf(es, cy.jur, cy.year) PROVE i = p
        <3>1. i \in DOMAIN es /\ es[i].kind = "Pay" /\ es[i].jur = cy.jur /\ es[i].year = cy.year
            BY DEF PaysOutOf
        <3>2. BucketOf(es[i]) = b
            BY <3>1 DEF BucketOf
        <3>3. es[i] = PayOf(cy)
            BY <1>3, <1>4, <1>5, <1>10, <3>1, <3>2
        <3> QED
            BY <1>8, <1>9, <3>1, <3>3
    <2>2. p \in PaysOutOf(es, cy.jur, cy.year)
        BY <1>8 DEF PaysOutOf, PayOf
    <2> QED
        BY <2>1, <2>2
<1> QED
    BY <1>6, <1>7, <1>8, <1>11, <1>12, <1>13

\* Every accrual of a closed year's bucket but the seeded one is superseded.
LEMMA ClosedAccruals ==
    ASSUME NEW gs, NEW es, NEW ctx, NEW jur, NEW year, MigrationKey(jur, year) \in SeededKeys(es)
    PROVE  LET M == MigrationAccrual(es, ctx, MigrationKey(jur, year))
               B == InBucket(ComputeAccruals(gs, es, ctx), jur, year)
           IN  /\ M \in B /\ Owed(M) = ValueOf({SeededAmount(es, MigrationKey(jur, year))})
               /\ \A a \in B : a # M => Owed(a) = 0
<1> DEFINE key == MigrationKey(jur, year)
           M == MigrationAccrual(es, ctx, key)
           A == ComputeAccruals(gs, es, ctx)
           B == InBucket(A, jur, year)
<1>1. key.jur = jur /\ key.year = year
    BY DEF MigrationKey
<1>2. M.key = key /\ ~M.deMinimis /\ ~M.superseded /\ M.applied = {SeededAmount(es, key)}
    BY DEF MigrationAccrual
<1>3. M \in A
    BY DEF ComputeAccruals
<1>4. Owed(M) = ValueOf({SeededAmount(es, key)})
    BY <1>2 DEF Owed
<1>5. ASSUME NEW a \in A, a.key.jur = jur, a.key.year = year, a # M PROVE Owed(a) = 0
    <2>1. CASE \E k, j : a = GainAccrual(gs, es, ctx, j, k)
        <3>1. PICK k, j : a = GainAccrual(gs, es, ctx, j, k)
            BY <2>1
        <3>2. a.superseded = Superseded(es, a.key)
            BY <3>1 DEF GainAccrual
        <3>3. Superseded(es, a.key)
            BY <1>5 DEF Superseded
        <3> QED
            BY <3>2, <3>3 DEF Owed
    <2>2. CASE \E x \in SeededKeys(es) : a = MigrationAccrual(es, ctx, x)
        <3>1. PICK x \in SeededKeys(es) : a = MigrationAccrual(es, ctx, x)
            BY <2>2
        <3>2. a.key = x
            BY <3>1 DEF MigrationAccrual
        <3>3. x = MigrationKey(x.jur, x.year)
            <4>1. PICK i \in Seeds(es) : x = MigrationKey(es[i].jur, es[i].year)
                BY DEF SeededKeys
            <4>2. x.jur = es[i].jur /\ x.year = es[i].year
                BY <4>1 DEF MigrationKey
            <4> QED
                BY <4>1, <4>2
        <3>4. x = key
            BY <1>5, <3>2, <3>3
        <3> QED
            BY <1>5, <3>1, <3>4
    <2> QED
        BY <2>1, <2>2 DEF ComputeAccruals
<1> HIDE DEF A, M
<1>6. M \in B
    BY <1>1, <1>2, <1>3 DEF InBucket
<1>7. \A a \in B : a # M => Owed(a) = 0
    BY <1>5 DEF InBucket
<1> QED
    BY <1>4, <1>6, <1>7 DEF A, M

\* The amount of the one event of a set.
LEMMA OneAmount ==
    ASSUME NEW es, NEW i, es[i].amount \in Int
    PROVE  AmountOf(es, {i}) = es[i].amount
<1> DEFINE f == [j \in {i} |-> es[j].amount]
<1>1. AmountOf(es, {i}) = SumFunctionOnSet(f, {i})
    BY DEF AmountOf, SumFunction
<1>2. f[i] = es[i].amount
    OBVIOUS
<1> HIDE DEF f
<1> QED
    BY <1>1, <1>2, SumSingle

\* What a bucket accrued is the sum over the accruals it holds.
LEMMA RowAccrues ==
    ASSUME NEW es, NEW ctx, NEW A, IsFiniteSet(A), NEW jur, NEW year
    PROVE  AnnualRow(es, ctx, A, jur, year).accrued
               = SumFunctionOnSet([a \in A |-> Owed(a)], InBucket(A, jur, year))
<1>1. LET B == InBucket(A, jur, year)
          row == AnnualRow(es, ctx, A, jur, year)
      IN  /\ row.gain = SumFunctionOnSet([a \in A |-> a.gain], B)
          /\ row.accrued = SumFunctionOnSet([a \in A |-> Owed(a)], B)
    BY RowFacts
<1> QED
    BY <1>1

\* A closed year that landed whole is settled, whatever was realized in it.
LEMMA YearIsSettled ==
    ASSUME NEW es, NEW years, PaidFor(es, years),
           NEW cy \in ClosedYears, Range(MigrationLifecycle(cy)) \subseteq Range(es),
           NEW gs, IsFiniteSet(DOMAIN gs), NEW ctx
    PROVE  /\ AnnualRow(es, ctx, ComputeAccruals(gs, es, ctx), cy.jur, cy.year).outstanding = 0
           /\ Reserve(gs, es, ctx, cy.jur, cy.year).balance = 0
           /\ ~Reserve(gs, es, ctx, cy.jur, cy.year).backless
<1> DEFINE key == MigrationKey(cy.jur, cy.year)
           A == ComputeAccruals(gs, es, ctx)
           B == InBucket(A, cy.jur, cy.year)
           M == MigrationAccrual(es, ctx, key)
           owed == [a \in A |-> Owed(a)]
           moves == MovesInto(es, cy.jur, cy.year)
           pays == PaysOutOf(es, cy.jur, cy.year)
<1>1. PICK s, m, p \in DOMAIN es :
          /\ es[s] = SeedOf(cy) /\ es[m] = MoveOf(cy) /\ es[p] = PayOf(cy)
          /\ \A i \in Seeds(es) : es[i].jur = cy.jur /\ es[i].year = cy.year => i = s
          /\ moves = {m} /\ pays = {p}
    BY BucketEvents
<1>2. cy.amount \in Int
    BY DEF ClosedYears
<1>3. /\ es[s].kind = "SeedMigration" /\ es[s].jur = cy.jur /\ es[s].year = cy.year
      /\ es[s].amount = cy.amount
    BY <1>1 DEF SeedOf
<1>4. es[m].key = key /\ es[m].amount = cy.amount
    BY <1>1 DEF MoveOf
<1>5. es[p].amount = cy.amount /\ Covers(es[p]) = {key}
    <2>1. es[p].amount = cy.amount /\ es[p].covers = <<key>>
        BY <1>1 DEF PayOf
    <2> HIDE DEF key
    <2>2. DOMAIN <<key>> = {1} /\ <<key>>[1] = key
        OBVIOUS
    <2> QED
        BY <2>1, <2>2 DEF Covers
<1>6. {i \in Seeds(es) : MigrationKey(es[i].jur, es[i].year) = key} = {s}
    <2>1. s \in Seeds(es)
        BY <1>3 DEF Seeds
    <2>2. ASSUME NEW i \in Seeds(es), MigrationKey(es[i].jur, es[i].year) = key PROVE i = s
        <3>1. es[i].jur = cy.jur /\ es[i].year = cy.year
            BY <2>2 DEF MigrationKey
        <3> QED
            BY <1>1, <3>1
    <2> QED
        BY <1>3, <2>1, <2>2
<1>7. SeededAmount(es, key) = cy.amount
    <2>1. DOMAIN es = 1..Len(es) /\ Len(es) \in Nat
        BY FormOfSeq DEF PaidFor
    <2> DEFINE n == Len(es)
    <2>2. n \in Nat /\ {s} \in SUBSET (1..n) /\ {s} # {}
        BY <2>1
    <2> HIDE DEF n
    <2>3. Max({s}) \in {s}
        BY <2>2, FirstAndLast
    <2>4. Max({s}) = s
        BY <2>3
    <2> QED
        BY <1>3, <1>6, <2>4 DEF SeededAmount
<1>8. key \in SeededKeys(es)
    BY <1>3 DEF SeededKeys, Seeds
<1>9. IsFiniteSet(A)
    <2> DEFINE n == Len(es)
    <2>1. n \in Nat /\ DOMAIN es = 1..n
        BY FormOfSeq DEF PaidFor
    <2> HIDE DEF n
    <2>2. IsFiniteSet(DOMAIN es)
        BY <2>1, FS_Interval
    <2> QED
        BY <2>2, AccrualsAreFinite
<1>10. M \in B /\ Owed(M) = ValueOf({cy.amount}) /\ \A a \in B : a # M => Owed(a) = 0
    <2>1. /\ M \in B /\ Owed(M) = ValueOf({SeededAmount(es, key)})
          /\ \A a \in B : a # M => Owed(a) = 0
        <3> HIDE DEF key
        <3> QED
            BY <1>8, ClosedAccruals DEF key
    <2> QED
        BY <1>7, <2>1
<1>11. Owed(M) = cy.amount
    BY <1>2, <1>10, ValueOfOne
<1> HIDE DEF key, M
<1>12. AnnualRow(es, ctx, A, cy.jur, cy.year).accrued = cy.amount
    <2>1. AnnualRow(es, ctx, A, cy.jur, cy.year).accrued = SumFunctionOnSet(owed, B)
        <3> HIDE DEF A
        <3> QED
            BY <1>9, RowAccrues
    <2>2. B \subseteq A
        BY DEF InBucket
    <2>3. IsFiniteSet(B)
        BY <1>9, <2>2, FS_Subset
    <2>4. owed[M] = cy.amount /\ \A a \in B \ {M} : owed[a] = 0
        BY <1>10, <1>11, <2>2
    <2> HIDE DEF owed, A, B
    <2>5. \A a \in B : owed[a] \in Int
        <3>1. \A a \in B : a = M \/ a \in B \ {M}
            OBVIOUS
        <3> QED
            BY <1>2, <2>4, <3>1
    <2>6. {M} \in SUBSET B
        BY <1>10
    <2>7. SumFunctionOnSet(owed, B) = SumFunctionOnSet(owed, {M})
        BY <2>3, <2>4, <2>5, <2>6, SumSupport
    <2>8. SumFunctionOnSet(owed, {M}) = cy.amount
        BY <1>2, <2>4, SumSingle
    <2> QED
        BY <2>1, <2>7, <2>8
<1>13. AmountOf(es, moves) = cy.amount /\ AmountOf(es, pays) = cy.amount
    <2>1. AmountOf(es, {m}) = cy.amount /\ AmountOf(es, {p}) = cy.amount
        BY <1>2, <1>4, <1>5, OneAmount
    <2> HIDE DEF moves, pays
    <2> QED
        BY <1>1, <2>1
<1>14. AnnualRow(es, ctx, A, cy.jur, cy.year).outstanding = 0
    <2>1. AnnualRow(es, ctx, A, cy.jur, cy.year).outstanding
              = AnnualRow(es, ctx, A, cy.jur, cy.year).accrued - AmountOf(es, pays)
        BY DEF AnnualRow
    <2> QED
        BY <1>2, <1>12, <1>13, <2>1
<1>15. Reserve(gs, es, ctx, cy.jur, cy.year).balance = 0
    <2>1. Reserve(gs, es, ctx, cy.jur, cy.year).balance = AmountOf(es, moves) - AmountOf(es, pays)
        BY DEF Reserve
    <2> QED
        BY <1>2, <1>13, <2>1
<1>16. ~Reserve(gs, es, ctx, cy.jur, cy.year).backless
    <2>1. Reserve(gs, es, ctx, cy.jur, cy.year).backless
              <=> \/ \E i \in moves : es[i].key \notin RealKeys(gs, es, ctx)
                  \/ \E i \in pays : Covers(es[i]) \ RealKeys(gs, es, ctx) # {}
        BY DEF Reserve
    <2>2. key \in RealKeys(gs, es, ctx)
        BY <1>8 DEF RealKeys
    <2> HIDE DEF moves, pays
    <2> QED
        BY <1>1, <1>4, <1>5, <2>1, <2>2
<1> QED
    BY <1>14, <1>15, <1>16

(***************************************************************************)
(* Closed years stay settled                                               *)
(***************************************************************************)
\* A run that lands the closed years of its inputs, each of them once.
RunSettles(run) ==
    /\ run.years \in Seq(ClosedYears) /\ ListedOnce(run.years)
    /\ run.tax = MigrationTaxEvents(run.years)

\* The tax log holds the events of one list of closed years and no others.
HoldsOneList ==
    \E years \in Seq(ClosedYears) :
        ListedOnce(years) /\ Range(events) \subseteq Range(MigrationTaxEvents(years))

\* What the invariant of a commit leaves open of the closed years.
SettledInv ==
    /\ \A n \in DOMAIN log : NamesLots(log[n])
    /\ RunSettles(report)
    /\ HoldsOneList
    /\ \A run \in done : RunSettles(run)

\* A sale that is entered names its lots in a sequence.
LEMMA PayloadsNameLots == \A e \in Payloads : NamesLots(e)
<1> SUFFICES ASSUME NEW e \in Payloads, e.kind = "Sell" PROVE IsSeq(e.refs)
    BY DEF NamesLots
<1>1. e.refs \in Seq([lot : STRING, qty : Int])
    BY PayloadsAssumption
<1> DEFINE r == e.refs
           m == Len(r)
<1>2. m \in Nat /\ r = [i \in 1..m |-> r[i]]
    BY <1>1
<1> HIDE DEF r, m
<1>3. IsSeq(r)
    BY <1>2, SeqForm
<1> QED
    BY <1>3 DEF r

\* Every dry run is of such a run.
LEMMA DryRunSettles ==
    ASSUME EachYearOnce, NEW b \in Books, NEW r, DryRun(b, r)
    PROVE  RunSettles(r)
<1>1. r.tax = MigrationTaxEvents(b.inputs.years) /\ r.years = b.inputs.years
    BY DEF DryRun
<1>2. b.inputs.years \in Seq(ClosedYears) /\ ListedOnce(b.inputs.years)
    BY BooksAssumption DEF EachYearOnce
<1> QED
    BY <1>1, <1>2 DEF RunSettles

\* Before an import the tax log is empty.
LEMMA SettledInvInit ==
    ASSUME EachYearOnce
    PROVE  ImportInit => SettledInv
<1> SUFFICES ASSUME ImportInit PROVE SettledInv
    OBVIOUS
<1>1. /\ log = OpeningLog /\ events = <<>> /\ legacy \in Books /\ DryRun(legacy, report)
      /\ done = {}
    BY DEF ImportInit, BookInit
<1>2. \A n \in DOMAIN log : NamesLots(log[n])
    <2>1. OpeningLog \in Seq(Payloads)
        BY OpeningLogAssumption
    <2>2. \A n \in DOMAIN OpeningLog : OpeningLog[n] \in Payloads
        BY <2>1
    <2> QED
        BY <1>1, <2>2, PayloadsNameLots
<1>3. RunSettles(report)
    BY <1>1, DryRunSettles
<1>4. HoldsOneList
    <2>1. Range(<<>>) = {}
        BY DEF Range
    <2>2. report.years \in Seq(ClosedYears) /\ ListedOnce(report.years)
        BY <1>3 DEF RunSettles
    <2> QED
        BY <1>1, <2>1, <2>2 DEF HoldsOneList
<1> QED
    BY <1>1, <1>2, <1>3, <1>4 DEF SettledInv

\* A commit lands sales of its stream, and tax events of its years alone.
LEMMA AppendKeepsSettled ==
    ASSUME SettledInv, CommitInv, CommitInv', AppendNext
    PROVE  SettledInv'
<1>1. UNCHANGED <<report, done>> /\ running'
    BY DEF AppendNext
<1>2. RunSettles(report)' /\ \A run \in done' : RunSettles(run)
    BY <1>1 DEF SettledInv
<1>3. HoldsOneList'
    <2>1. OwnEventsOnly(report)'
        BY <1>1 DEF CommitInv
    <2>2. Range(events') \subseteq Range(report.tax)
        BY <1>1, <2>1 DEF OwnEventsOnly
    <2>3. /\ report.years \in Seq(ClosedYears) /\ ListedOnce(report.years)
          /\ report.tax = MigrationTaxEvents(report.years)
        BY DEF SettledInv, RunSettles
    <2> QED
        BY <2>2, <2>3 DEF HoldsOneList
<1>4. \A n \in DOMAIN log' : NamesLots(log'[n])
    <2>1. CASE log' = log
        BY <2>1 DEF SettledInv
    <2>2. CASE ~IsTaxEvent(Head(todo)) /\ log' = Append(log, Head(todo))
        <3>1. PICK k \in 0..Len(Work(report)) :
                 k + 1 \in 1..Len(Work(report)) /\ Head(todo) = Work(report)[k + 1]
            BY NextStep
        <3>2. RunOK(report) /\ k \in Nat
            BY DEF CommitInv
        <3>3. k + 1 \in 1..Len(report.ledger) /\ Head(todo) = report.ledger[k + 1]
            BY <2>2, <3>1, <3>2, WorkParts
        <3>4. NamesLots(Head(todo))
            BY <3>2, <3>3 DEF RunOK, Imported
        <3> DEFINE n == Len(log)
        <3>5. log \in Seq(Range(log)) /\ DOMAIN log = 1..n /\ n \in Nat
            BY DEF CommitInv, LandedOnce
        <3>6. /\ DOMAIN log' = 1..(n + 1) /\ \A i \in 1..n : log'[i] = log[i]
              /\ log'[n + 1] = Head(todo)
            BY <2>2, <3>5, AppendFacts
        <3> HIDE DEF n
        <3>7. \A x \in 1..(n + 1) : x \in 1..n \/ x = n + 1
            BY <3>5
        <3> QED
            BY <3>4, <3>5, <3>6, <3>7 DEF SettledInv
    <2> QED
        BY <2>1, <2>2 DEF AppendNext, Land
<1> QED
    BY <1>1, <1>2, <1>3, <1>4 DEF SettledInv

\* What is entered elsewhere names its lots too, and no tax event is.
LEMMA ElsewhereKeepsSettled ==
    ASSUME SettledInv, CommitInv, Elsewhere
    PROVE  SettledInv'
<1>1. /\ UNCHANGED <<report, done, events>>
      /\ log' = log \/ \E e \in Payloads : log' = Append(log, e)
    BY LedgerStepCases DEF Elsewhere
<1>2. \A n \in DOMAIN log' : NamesLots(log'[n])
    <2>1. CASE log' = log
        BY <2>1 DEF SettledInv
    <2>2. CASE \E e \in Payloads : log' = Append(log, e)
        <3>1. PICK e \in Payloads : log' = Append(log, e)
            BY <2>2
        <3> DEFINE n == Len(log)
        <3>2. log \in Seq(Range(log)) /\ DOMAIN log = 1..n /\ n \in Nat
            BY DEF CommitInv, LandedOnce
        <3>3. /\ DOMAIN log' = 1..(n + 1) /\ \A i \in 1..n : log'[i] = log[i]
              /\ log'[n + 1] = e
            BY <3>1, <3>2, AppendFacts
        <3> HIDE DEF n
        <3>4. \A x \in 1..(n + 1) : x \in 1..n \/ x = n + 1
            BY <3>2
        <3> QED
            BY <3>2, <3>3, <3>4, PayloadsNameLots DEF SettledInv
    <2> QED
        BY <1>1, <2>1, <2>2
<1> QED
    BY <1>1, <1>2 DEF SettledInv, HoldsOneList

\* Every action keeps it, given the invariant of a commit.
LEMMA SettledInvStep ==
    ASSUME EachYearOnce
    PROVE  SettledInv /\ CommitInv /\ CommitInv' /\ [ImportNext]_importVars => SettledInv'
<1> SUFFICES ASSUME SettledInv, CommitInv, CommitInv', [ImportNext]_importVars PROVE SettledInv'
    OBVIOUS
<1>1. ASSUME UNCHANGED <<log, events, report, done>> PROVE SettledInv'
    BY <1>1 DEF SettledInv, HoldsOneList
<1>2. CASE Edit
    <2>1. UNCHANGED <<log, events, done>> /\ \E b \in Books : DryRun(b, report')
        BY <1>2 DEF Edit
    <2>2. RunSettles(report)'
        BY <2>1, DryRunSettles
    <2> QED
        BY <2>1, <2>2 DEF SettledInv, HoldsOneList
<1>3. CASE Begin
    BY <1>1, <1>3 DEF Begin
<1>4. CASE AppendNext
    BY <1>4, AppendKeepsSettled
<1>5. CASE Interrupt
    BY <1>1, <1>5 DEF Interrupt
<1>6. CASE Finish
    <2>1. UNCHANGED <<log, events, report>> /\ done' = {report}
        BY <1>6 DEF Finish
    <2> QED
        BY <2>1 DEF SettledInv, HoldsOneList
<1>7. CASE Elsewhere
    BY <1>7, ElsewhereKeepsSettled
<1>8. CASE UNCHANGED importVars
    BY <1>1, <1>8 DEF importVars
<1> QED
    BY <1>2, <1>3, <1>4, <1>5, <1>6, <1>7, <1>8 DEF ImportNext

\* The gains of the log are finitely many.
LEMMA GainsAreFinite ==
    ASSUME CommitInv, SettledInv
    PROVE  IsFiniteSet(DOMAIN RealizedGains(log))
<1>1. Len(log) \in Nat /\ DOMAIN log = 1..Len(log)
    BY DEF CommitInv, LandedOnce
<1>2. \A n \in 1..Len(log) : log[n].kind = "Sell" /\ log[n].refs # <<>> => IsSeq(log[n].refs)
    BY <1>1 DEF SettledInv, NamesLots
<1>3. IsSeq(Replay(log).gains)
    BY <1>1, <1>2, GainsAreSequence
<1> DEFINE n == Len(Replay(log).gains)
<1>4. n \in Nat /\ DOMAIN Replay(log).gains = 1..n
    BY <1>3, FormOfSeq
<1>5. DOMAIN RealizedGains(log) = DOMAIN Replay(log).gains
    BY DEF RealizedGains
<1> HIDE DEF n
<1> QED
    BY <1>4, <1>5, FS_Interval

\* What the two invariants together say of the closed years.
LEMMA InvSettles == CommitInv /\ SettledInv => ClosedYearsAreSettled
<1> SUFFICES ASSUME CommitInv, SettledInv PROVE ClosedYearsAreSettled
    OBVIOUS
<1> DEFINE gs == RealizedGains(log)
           ctx == ContextOf(cell)
<1>1. IsFiniteSet(DOMAIN gs)
    BY GainsAreFinite
<1>2. PICK years \in Seq(ClosedYears) :
         ListedOnce(years) /\ Range(events) \subseteq Range(MigrationTaxEvents(years))
    BY DEF SettledInv, HoldsOneList
<1>3. PaidFor(events, years)
    BY <1>2 DEF PaidFor, CommitInv, LandedOnce, IsSeq
<1> HIDE DEF gs, ctx
<1>4. ASSUME NEW run \in done, NEW i \in DOMAIN run.years
      PROVE  LET cy == run.years[i] IN
             /\ AnnualRow(events, ctx, ComputeAccruals(gs, events, ctx), cy.jur, cy.year).outstanding = 0
             /\ Reserve(gs, events, ctx, cy.jur, cy.year).balance = 0
             /\ ~Reserve(gs, events, ctx, cy.jur, cy.year).backless
    <2> DEFINE cy == run.years[i]
    <2>1. run.years \in Seq(ClosedYears) /\ run.tax = MigrationTaxEvents(run.years)
        BY DEF SettledInv, RunSettles
    <2>2. cy \in ClosedYears
        BY <2>1
    <2>3. Range(MigrationLifecycle(cy)) \subseteq Range(run.tax)
        BY <2>1, MigrationFacts
    <2>4. Range(run.tax) \subseteq Range(events)
        <3>1. /\ events \in Seq(Range(events)) /\ Len(run.tax) <= Len(events)
              /\ Range(SubSeq(events, 1, Len(run.tax))) = Range(run.tax)
              /\ run.tax \in Seq(Range(run.tax))
            BY DEF CommitInv, LandedOnce, Complete, RunOK
        <3> DEFINE m == Len(run.tax)
        <3>2. m \in Nat /\ m <= Len(events) /\ Len(events) \in Nat /\ DOMAIN events = 1..Len(events)
            BY <3>1
        <3>3. DOMAIN SubSeq(events, 1, m) = 1..m /\ \A j \in 1..m : SubSeq(events, 1, m)[j] = events[j]
            BY <3>1, <3>2
        <3>4. 1..m \subseteq DOMAIN events
            BY <3>2
        <3>5. Range(SubSeq(events, 1, m)) \subseteq Range(events)
            <4> HIDE DEF m
            <4> QED
                BY <3>3, <3>4 DEF Range
        <3> QED
            BY <3>1, <3>5
    <2>5. Range(MigrationLifecycle(cy)) \subseteq Range(events)
        BY <2>3, <2>4
    <2> HIDE DEF cy
    <2>6. /\ AnnualRow(events, ctx, ComputeAccruals(gs, events, ctx), cy.jur, cy.year).outstanding = 0
          /\ Reserve(gs, events, ctx, cy.jur, cy.year).balance = 0
          /\ ~Reserve(gs, events, ctx, cy.jur, cy.year).backless
        BY <1>1, <1>3, <2>2, <2>5, YearIsSettled
    <2> QED
        BY <2>6 DEF cy
<1> QED
    BY <1>4 DEF ClosedYearsAreSettled, gs, ctx

\* Nothing is owed for a closed year once a commit that carried it has finished, and
\* nothing is left in its reserve, whatever is sold, edited or entered afterwards, if
\* the inputs list a closed year once.
THEOREM ClosedYearsStaySettled ==
    ASSUME EachYearOnce
    PROVE  ImportSpec => []ClosedYearsAreSettled
<1> QED
    BY InvSettles, CommitInvInit, CommitInvStep, SettledInvInit, SettledInvStep, PTL DEF ImportSpec
=============================================================================
