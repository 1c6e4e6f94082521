-------------------------- MODULE LedgerCoreProofs --------------------------
(***************************************************************************)
(* Theorems about the ledger kernel, for any payloads, any share scale and *)
(* any log length: its rounding rule and the basis split it is built from, *)
(* the type invariant of the log, which says what a Reversal may name, and *)
(* what one event does to the fold.                                        *)
(*                                                                         *)
(* It begins with induction in a first-order form, and what that says of   *)
(* finite sums.  A principle is stated over the set of the numbers, or of  *)
(* the finite sets, that have a property, so that it can be cited with any *)
(* set; both rest on the well-foundedness of inclusion among finite sets.  *)
(*                                                                         *)
(* A verdict of Ok makes the plan of a sale fit the lots (Fits); the loops *)
(* over a plan and over the lots then have a closed form (SoldState,       *)
(* SplitState), in which every lot named is changed once; and those forms  *)
(* keep the fold invariant FoldOK.  LedgerFoldProofs carries it along the  *)
(* log.                                                                    *)
(***************************************************************************)
EXTENDS LedgerCore, SequenceTheorems, FiniteSetTheorems, WellFoundedInduction, TLAPS

(***************************************************************************)
(* Induction                                                               *)
(***************************************************************************)
\* A set of naturals has a least element.
LEMMA LeastNumber ==
    ASSUME NEW S, S \subseteq Nat, S # {}
    PROVE  \E m \in S : \A k \in S : m <= k
<1> DEFINE T == {0..n : n \in S}
<1>1. T \subseteq FiniteSubsetsOf(Nat) /\ T # {}
    <2>1. ASSUME NEW n \in S PROVE (0..n) \in FiniteSubsetsOf(Nat)
        <3>1. IsFiniteSet(0..n)
            BY FS_Interval
        <3> QED
            BY <3>1 DEF FiniteSubsetsOf
    <2> QED
        BY <2>1
<1> HIDE DEF T
<1>2. \E x \in T : \A y \in T : ~(<<y, x>> \in StrictSubsetOrdering(Nat))
    BY <1>1, FS_StrictSubsetOrderingWellFounded, WFMin
<1>3. PICK m \in S : \A n \in S : ~(<<0..n, 0..m>> \in StrictSubsetOrdering(Nat))
    BY <1>2 DEF T
<1> SUFFICES ASSUME NEW k \in S, k < m PROVE FALSE
    BY <1>3
<1>4. (0..k) \subseteq (0..m) /\ (0..k) # (0..m) /\ (0..k) \subseteq Nat /\ (0..m) \subseteq Nat
    <2>1. m \in 0..m /\ m \notin 0..k
        OBVIOUS
    <2> QED
        BY <2>1
<1> QED
    BY <1>3, <1>4 DEF StrictSubsetOrdering

\* A set of naturals with 0 and every successor is all of them.
LEMMA NumberInduction ==
    ASSUME NEW P, 0 \in P, \A n \in Nat : n \in P => n + 1 \in P
    PROVE  \A n \in Nat : n \in P
<1> SUFFICES ASSUME Nat \ P # {} PROVE FALSE
    OBVIOUS
<1>1. PICK m \in Nat \ P : \A k \in Nat \ P : m <= k
    BY LeastNumber
<1> QED
    BY <1>1

\* A family of sets with {} and every set from which each element may be taken
\* to leave one of the family has every finite set.
LEMMA SetDescent ==
    ASSUME NEW S, IsFiniteSet(S), NEW P, {} \in P,
           \A T \in SUBSET S : T # {} /\ (\A x \in T : T \ {x} \in P) => T \in P
    PROVE  S \in P
<1> DEFINE Bad == {T \in SUBSET S : T \notin P}
<1> SUFFICES ASSUME Bad # {} PROVE FALSE
    OBVIOUS
<1>1. Bad \subseteq FiniteSubsetsOf(S)
    BY FS_FiniteSubsetsOfFinite
<1>2. \E T \in Bad : \A U \in Bad : ~(<<U, T>> \in StrictSubsetOrdering(S))
    <2> HIDE DEF Bad
    <2> QED
        BY <1>1, FS_StrictSubsetOrderingWellFounded, WFMin
<1>3. PICK T \in Bad : \A U \in Bad : ~(<<U, T>> \in StrictSubsetOrdering(S))
    BY <1>2
<1>4. ASSUME NEW x \in T PROVE T \ {x} \notin Bad
    <2>1. T \ {x} \subseteq T /\ T \ {x} # T /\ T \in SUBSET S /\ T \ {x} \in SUBSET S
        OBVIOUS
    <2>2. <<T \ {x}, T>> \in StrictSubsetOrdering(S)
        BY <2>1 DEF StrictSubsetOrdering
    <2> QED
        BY <1>3, <2>2
<1> QED
    BY <1>4

(***************************************************************************)
(* A sum is the value of a recursive function on the subsets.              *)
(***************************************************************************)
First(s) == CHOOSE x \in s : TRUE

\* F sums fun over each set of the family D.
SumsOf(fun, D, F) ==
    F = [s \in D |-> IF s = {} THEN 0 ELSE fun[First(s)] + F[s \ {First(s)}]]

\* First picks an element.
LEMMA FirstOf == ASSUME NEW s, s # {} PROVE First(s) \in s
BY DEF First

\* A sum is the value of the recursion of its definition at the whole set.
LEMMA SumIsIterated ==
    ASSUME NEW fun, NEW S
    PROVE  SumFunctionOnSet(fun, S) = (CHOOSE F : SumsOf(fun, SUBSET S, F))[S]
BY DEF SumFunctionOnSet, FoldFunctionOnSet, MapThenFoldSet, SumsOf, First

\* The recursion has a solution over the subsets of a finite set.
LEMMA SumsExist ==
    ASSUME NEW fun, NEW S, IsFiniteSet(S)
    PROVE  \E F : SumsOf(fun, SUBSET S, F)
<1> DEFINE Upto(n) == {s \in SUBSET S : Cardinality(s) <= n}
           P == {n \in Nat : \E F : SumsOf(fun, Upto(n), F)}
<1>1. \A s \in SUBSET S : IsFiniteSet(s) /\ Cardinality(s) \in Nat /\ Cardinality(s) <= Cardinality(S)
    BY FS_Subset, FS_CardinalityType
<1>2. 0 \in P
    <2>1. Upto(0) = {{}}
        BY <1>1, FS_EmptySet
    <2>2. SumsOf(fun, {{}}, [s \in {{}} |-> 0])
        BY DEF SumsOf
    <2> QED
        BY <2>1, <2>2
<1>3. ASSUME NEW n \in Nat, n \in P PROVE n + 1 \in P
    <2>1. PICK F : SumsOf(fun, Upto(n), F)
        BY <1>3
    <2> DEFINE Term(s) == IF s = {} THEN 0 ELSE fun[First(s)] + F[s \ {First(s)}]
               G == [s \in Upto(n + 1) |-> Term(s)]
    <2>2. Upto(n) \subseteq Upto(n + 1)
        BY <1>1
    <2>3. \A s \in Upto(n) : G[s] = F[s]
        <3> HIDE DEF Upto
        <3> QED
            BY <2>1, <2>2 DEF SumsOf
    <2>4. \A s \in Upto(n + 1) : s # {} => s \ {First(s)} \in Upto(n)
        <3> SUFFICES ASSUME NEW s \in Upto(n + 1), s # {} PROVE s \ {First(s)} \in Upto(n)
            OBVIOUS
        <3>1. First(s) \in s
            BY FirstOf
        <3>2. Cardinality(s \ {First(s)}) = Cardinality(s) - 1
            BY <1>1, <3>1, FS_RemoveElement
        <3> QED
            BY <1>1, <3>1, <3>2
    <2>5. G = [s \in Upto(n + 1) |-> IF s = {} THEN 0 ELSE fun[First(s)] + G[s \ {First(s)}]]
        <3> HIDE DEF Upto
        <3>1. ASSUME NEW s \in Upto(n + 1)
              PROVE  G[s] = IF s = {} THEN 0 ELSE fun[First(s)] + G[s \ {First(s)}]
            <4>1. G[s] = Term(s)
                OBVIOUS
            <4>2. CASE s = {}
                BY <4>1, <4>2
            <4>3. CASE s # {}
                <5>1. G[s \ {First(s)}] = F[s \ {First(s)}]
                    BY <2>3, <2>4, <4>3
                <5> QED
                    BY <4>1, <4>3, <5>1
            <4> QED
                BY <4>2, <4>3
        <3> QED
            BY <3>1
    <2>6. SumsOf(fun, Upto(n + 1), G)
        BY <2>5 DEF SumsOf
    <2> HIDE DEF G, Upto
    <2> QED
        BY <2>6
<1>4. Cardinality(S) \in P
    <2> HIDE DEF P
    <2> QED
        BY <1>2, <1>3, NumberInduction, FS_CardinalityType
<1>5. Upto(Cardinality(S)) = SUBSET S
    BY <1>1
<1> QED
    BY <1>4, <1>5


\* A sum over no element, and a sum over a set as one over the others.
LEMMA SumFirst ==
    ASSUME NEW fun, NEW S, IsFiniteSet(S)
    PROVE  /\ SumFunctionOnSet(fun, {}) = 0
           /\ S # {} => SumFunctionOnSet(fun, S)
                            = fun[First(S)] + SumFunctionOnSet(fun, S \ {First(S)})
<1> DEFINE It(T) == CHOOSE F : SumsOf(fun, SUBSET T, F)
<1>1. ASSUME NEW T, IsFiniteSet(T) PROVE SumsOf(fun, SUBSET T, It(T))
    BY <1>1, SumsExist
<1>2. ASSUME NEW T, IsFiniteSet(T), NEW s \in SUBSET T
      PROVE  It(T)[s] = IF s = {} THEN 0 ELSE fun[First(s)] + It(T)[s \ {First(s)}]
    <2>1. SumsOf(fun, SUBSET T, It(T))
        BY <1>1, <1>2
    <2> HIDE DEF It
    <2> QED
        BY <2>1 DEF SumsOf
<1>3. \A T : SumFunctionOnSet(fun, T) = It(T)[T]
    BY SumIsIterated
<1> HIDE DEF It
\* The functions of two sets agree on the subsets of both.
<1>4. ASSUME NEW T, IsFiniteSet(T), NEW U \in SUBSET T
      PROVE  It(T)[U] = It(U)[U]
    <2> DEFINE P == {s \in SUBSET U : It(T)[s] = It(U)[s]}
    <2>1. IsFiniteSet(U)
        BY <1>4, FS_Subset
    <2>2. {} \in P
        BY <1>2, <1>4, <2>1
    <2>3. ASSUME NEW s \in SUBSET U, s # {}, \A x \in s : s \ {x} \in P PROVE s \in P
        <3>1. It(T)[s \ {First(s)}] = It(U)[s \ {First(s)}]
            BY <2>3, FirstOf
        <3>2. It(T)[s] = fun[First(s)] + It(T)[s \ {First(s)}]
            BY <1>2, <1>4, <2>3
        <3>3. It(U)[s] = fun[First(s)] + It(U)[s \ {First(s)}]
            BY <1>2, <2>1, <2>3
        <3> QED
            BY <3>1, <3>2, <3>3
    <2>4. U \in P
        <3> HIDE DEF P
        <3> QED
            BY <2>1, <2>2, <2>3, SetDescent
    <2> QED
        BY <2>4
<1>5. SumFunctionOnSet(fun, {}) = 0
    BY <1>2, <1>3, FS_EmptySet
<1>6. ASSUME S # {}
      PROVE  SumFunctionOnSet(fun, S) = fun[First(S)] + SumFunctionOnSet(fun, S \ {First(S)})
    <2>1. It(S)[S] = fun[First(S)] + It(S)[S \ {First(S)}]
        BY <1>2, <1>6
    <2>2. It(S)[S \ {First(S)}] = It(S \ {First(S)})[S \ {First(S)}]
        BY <1>4
    <2> QED
        BY <1>3, <2>1, <2>2
<1> QED
    BY <1>5, <1>6

\* Integers add up to an integer.
LEMMA SumIsInt ==
    ASSUME NEW fun, NEW S, IsFiniteSet(S), \A x \in S : fun[x] \in Int
    PROVE  SumFunctionOnSet(fun, S) \in Int
<1> DEFINE P == {s \in SUBSET S : SumFunctionOnSet(fun, s) \in Int}
<1>1. {} \in P
    <2>1. SumFunctionOnSet(fun, {}) = 0
        BY SumFirst, FS_EmptySet
    <2> QED
        BY <2>1
<1>2. ASSUME NEW s \in SUBSET S, s # {}, \A x \in s : s \ {x} \in P PROVE s \in P
    <2>1. PICK c \in s : c = First(s)
        BY <1>2, FirstOf
    <2>2. SumFunctionOnSet(fun, s) = fun[c] + SumFunctionOnSet(fun, s \ {c})
        BY <1>2, <2>1, SumFirst, FS_Subset
    <2> QED
        BY <1>2, <2>2
<1> HIDE DEF P
<1>3. \A T \in SUBSET S : T # {} /\ (\A x \in T : T \ {x} \in P) => T \in P
    BY <1>2
<1>4. S \in P
    BY <1>1, <1>3, SetDescent
<1> QED
    BY <1>4 DEF P

\* Any element may be taken out of a sum: the order of the terms is no matter.
LEMMA SumTakeOut ==
    ASSUME NEW fun, NEW S, IsFiniteSet(S), \A x \in S : fun[x] \in Int, NEW x \in S
    PROVE  SumFunctionOnSet(fun, S) = fun[x] + SumFunctionOnSet(fun, S \ {x})
<1> DEFINE Sum(s) == SumFunctionOnSet(fun, s)
           P == {s \in SUBSET S : \A y \in s : Sum(s) = fun[y] + Sum(s \ {y})}
<1>1. \A s \in SUBSET S : IsFiniteSet(s)
    BY FS_Subset
<1>2. \A s \in SUBSET S : Sum(s) \in Int
    BY <1>1, SumIsInt
<1>3. \A s \in SUBSET S : s # {} => Sum(s) = fun[First(s)] + Sum(s \ {First(s)})
    BY <1>1, SumFirst
<1> HIDE DEF Sum
<1>4. ASSUME NEW s \in SUBSET S, s # {}, \A y \in s : s \ {y} \in P PROVE s \in P
    <2> SUFFICES ASSUME NEW y \in s PROVE Sum(s) = fun[y] + Sum(s \ {y})
        OBVIOUS
    <2>1. PICK c \in s : c = First(s) /\ Sum(s) = fun[c] + Sum(s \ {c})
        BY <1>3, FirstOf
    <2>2. CASE y = c
        BY <2>1, <2>2
    <2>3. CASE y # c
        <3>1. Sum(s \ {c}) = fun[y] + Sum((s \ {c}) \ {y})
            BY <1>4, <2>3
        <3>2. Sum(s \ {y}) = fun[c] + Sum((s \ {y}) \ {c})
            BY <1>4, <2>3
        <3>3. PICK rest \in SUBSET S : rest = (s \ {c}) \ {y} /\ rest = (s \ {y}) \ {c}
            OBVIOUS
        <3>4. fun[c] \in Int /\ fun[y] \in Int /\ Sum(rest) \in Int
            BY <1>2
        <3>5. Sum(s \ {c}) = fun[y] + Sum(rest) /\ Sum(s \ {y}) = fun[c] + Sum(rest)
            BY <3>1, <3>2, <3>3
        <3> QED
            BY <2>1, <3>4, <3>5
    <2> QED
        BY <2>2, <2>3
<1>5. {} \in P
    OBVIOUS
<1>6. S \in P
    <2> HIDE DEF P
    <2>1. \A T \in SUBSET S : T # {} /\ (\A y \in T : T \ {y} \in P) => T \in P
        BY <1>4
    <2> QED
        BY <1>5, <2>1, SetDescent
<1> QED
    BY <1>6 DEF Sum

\* One element more.
LEMMA SumAdd ==
    ASSUME NEW fun, NEW S, IsFiniteSet(S), NEW x, x \notin S, \A y \in S \cup {x} : fun[y] \in Int
    PROVE  SumFunctionOnSet(fun, S \cup {x}) = fun[x] + SumFunctionOnSet(fun, S)
<1>1. IsFiniteSet(S \cup {x}) /\ x \in S \cup {x} /\ (S \cup {x}) \ {x} = S
    BY FS_AddElement
<1>2. SumFunctionOnSet(fun, S \cup {x}) = fun[x] + SumFunctionOnSet(fun, (S \cup {x}) \ {x})
    BY <1>1, SumTakeOut
<1> QED
    BY <1>1, <1>2

\* No element.
LEMMA SumEmpty == ASSUME NEW fun PROVE SumFunctionOnSet(fun, {}) = 0
BY SumFirst, FS_EmptySet

\* One element.
LEMMA SumSingle ==
    ASSUME NEW fun, NEW x, fun[x] \in Int
    PROVE  SumFunctionOnSet(fun, {x}) = fun[x]
<1>1. IsFiniteSet({x}) /\ x \in {x} /\ {x} \ {x} = {} /\ \A y \in {x} : fun[y] \in Int
    BY FS_Singleton
<1>2. SumFunctionOnSet(fun, {x}) = fun[x] + SumFunctionOnSet(fun, {x} \ {x})
    BY <1>1, SumTakeOut
<1>3. SumFunctionOnSet(fun, {x} \ {x}) = 0
    BY <1>1, SumEmpty
<1> QED
    BY <1>2, <1>3

\* A sum depends on the terms it adds up only.
LEMMA SumSame ==
    ASSUME NEW f, NEW g, NEW S, IsFiniteSet(S), \A x \in S : f[x] = g[x]
    PROVE  SumFunctionOnSet(f, S) = SumFunctionOnSet(g, S)
<1> DEFINE P == {s \in SUBSET S : SumFunctionOnSet(f, s) = SumFunctionOnSet(g, s)}
<1>1. {} \in P
    <2>1. SumFunctionOnSet(f, {}) = 0 /\ SumFunctionOnSet(g, {}) = 0
        BY SumEmpty
    <2> QED
        BY <2>1
<1>2. ASSUME NEW s \in SUBSET S, s # {}, \A x \in s : s \ {x} \in P PROVE s \in P
    <2>1. PICK c \in s : c = First(s)
        BY <1>2, FirstOf
    <2>2. IsFiniteSet(s)
        BY FS_Subset
    <2>3. SumFunctionOnSet(f, s) = f[c] + SumFunctionOnSet(f, s \ {c})
        BY <1>2, <2>1, <2>2, SumFirst
    <2>4. SumFunctionOnSet(g, s) = g[c] + SumFunctionOnSet(g, s \ {c})
        BY <1>2, <2>1, <2>2, SumFirst
    <2>5. f[c] = g[c] /\ SumFunctionOnSet(f, s \ {c}) = SumFunctionOnSet(g, s \ {c})
        BY <1>2
    <2> QED
        BY <2>3, <2>4, <2>5
<1> HIDE DEF P
<1>3. \A T \in SUBSET S : T # {} /\ (\A x \in T : T \ {x} \in P) => T \in P
    BY <1>2
<1>4. S \in P
    BY <1>1, <1>3, SetDescent
<1> QED
    BY <1>4 DEF P

\* Sums of two disjoint sets add up.
LEMMA SumDisjoint ==
    ASSUME NEW fun, NEW S, NEW T, IsFiniteSet(S), IsFiniteSet(T), S \cap T = {},
           \A x \in S \cup T : fun[x] \in Int
    PROVE  SumFunctionOnSet(fun, S \cup T) = SumFunctionOnSet(fun, S) + SumFunctionOnSet(fun, T)
<1> DEFINE Sum(s) == SumFunctionOnSet(fun, s)
           P == {s \in SUBSET S : Sum(s \cup T) = Sum(s) + Sum(T)}
<1>1. \A s \in SUBSET S : IsFiniteSet(s) /\ IsFiniteSet(s \cup T) /\ Sum(s) \in Int
    BY FS_Subset, FS_Union, SumIsInt
<1>2. Sum(T) \in Int
    BY SumIsInt
<1>3. {} \in P
    <2>1. Sum({}) = 0 /\ {} \cup T = T
        BY SumEmpty
    <2> HIDE DEF Sum
    <2> QED
        BY <1>2, <2>1
<1>4. ASSUME NEW s \in SUBSET S, s # {}, \A x \in s : s \ {x} \in P PROVE s \in P
    <2>1. PICK c \in s : TRUE
        BY <1>4
    <2>2. (s \cup T) \ {c} = (s \ {c}) \cup T /\ c \in s \cup T
        BY <2>1
    <2>3. Sum(s) = fun[c] + Sum(s \ {c})
        <3>1. IsFiniteSet(s) /\ \A y \in s : fun[y] \in Int
            BY <1>1
        <3> QED
            BY <3>1, SumTakeOut
    <2>4. Sum(s \cup T) = fun[c] + Sum((s \cup T) \ {c})
        <3>1. IsFiniteSet(s \cup T) /\ \A y \in s \cup T : fun[y] \in Int
            BY <1>1
        <3> QED
            BY <2>2, <3>1, SumTakeOut
    <2>5. Sum((s \ {c}) \cup T) = Sum(s \ {c}) + Sum(T) /\ Sum(s \ {c}) \in Int /\ fun[c] \in Int
        BY <1>1, <1>4
    <2> HIDE DEF Sum
    <2>6. Sum((s \cup T) \ {c}) = Sum(s \ {c}) + Sum(T)
        BY <2>2, <2>5
    <2>7. Sum(s \cup T) = Sum(s) + Sum(T)
        BY <1>2, <2>3, <2>4, <2>5, <2>6
    <2> QED
        BY <2>7
<1> HIDE DEF P
<1>5. \A U \in SUBSET S : U # {} /\ (\A x \in U : U \ {x} \in P) => U \in P
    BY <1>4
<1>6. S \in P
    BY <1>3, <1>5, SetDescent
<1> QED
    BY <1>6 DEF P

\* A term-wise sum, scaled by a on one side and b on the other.
LEMMA SumLinear ==
    ASSUME NEW f, NEW g, NEW h, NEW a \in Int, NEW b \in Int, NEW S, IsFiniteSet(S),
           \A x \in S : f[x] \in Int /\ g[x] \in Int /\ h[x] = a * f[x] + b * g[x]
    PROVE  SumFunctionOnSet(h, S) = a * SumFunctionOnSet(f, S) + b * SumFunctionOnSet(g, S)
<1> DEFINE F(s) == SumFunctionOnSet(f, s)
           G(s) == SumFunctionOnSet(g, s)
           H(s) == SumFunctionOnSet(h, s)
           P == {s \in SUBSET S : H(s) = a * F(s) + b * G(s)}
<1>0. \A x \in S : h[x] \in Int
    OBVIOUS
<1>1. \A s \in SUBSET S : IsFiniteSet(s) /\ F(s) \in Int /\ G(s) \in Int
    BY FS_Subset, SumIsInt
<1>2. {} \in P
    <2>1. F({}) = 0 /\ G({}) = 0 /\ H({}) = 0
        BY SumEmpty
    <2> HIDE DEF F, G, H
    <2> QED
        BY <2>1
<1>3. ASSUME NEW s \in SUBSET S, s # {}, \A x \in s : s \ {x} \in P PROVE s \in P
    <2>1. PICK c \in s : TRUE
        BY <1>3
    <2>2. F(s) = f[c] + F(s \ {c})
        BY <1>1, SumTakeOut
    <2>3. G(s) = g[c] + G(s \ {c})
        BY <1>1, SumTakeOut
    <2>4. H(s) = h[c] + H(s \ {c})
        BY <1>0, <1>1, SumTakeOut
    <2>5. H(s \ {c}) = a * F(s \ {c}) + b * G(s \ {c}) /\ F(s \ {c}) \in Int /\ G(s \ {c}) \in Int
        BY <1>1, <1>3
    <2>6. f[c] \in Int /\ g[c] \in Int /\ h[c] = a * f[c] + b * g[c]
        OBVIOUS
    <2> HIDE DEF F, G, H
    <2>7. ASSUME NEW u \in Int, NEW v \in Int PROVE a * (u + v) = a * u + a * v /\ b * (u + v) = b * u + b * v
        OBVIOUS
    <2>8. a * (f[c] + F(s \ {c})) = a * f[c] + a * F(s \ {c})
        BY <2>5, <2>6, <2>7
    <2>9. b * (g[c] + G(s \ {c})) = b * g[c] + b * G(s \ {c})
        BY <2>5, <2>6, <2>7
    <2>10. a * f[c] \in Int /\ a * F(s \ {c}) \in Int /\ b * g[c] \in Int /\ b * G(s \ {c}) \in Int
        BY <2>5, <2>6
    <2> QED
        BY <2>2, <2>3, <2>4, <2>5, <2>6, <2>8, <2>9, <2>10
<1> HIDE DEF P
<1>4. \A U \in SUBSET S : U # {} /\ (\A x \in U : U \ {x} \in P) => U \in P
    BY <1>3
<1>5. S \in P
    BY <1>2, <1>4, SetDescent
<1> QED
    BY <1>5 DEF P

\* Larger terms add up to more.
LEMMA SumMonotone ==
    ASSUME NEW f, NEW g, NEW S, IsFiniteSet(S),
           \A x \in S : f[x] \in Int /\ g[x] \in Int /\ f[x] <= g[x]
    PROVE  SumFunctionOnSet(f, S) <= SumFunctionOnSet(g, S)
<1> DEFINE F(s) == SumFunctionOnSet(f, s)
           G(s) == SumFunctionOnSet(g, s)
           P == {s \in SUBSET S : F(s) <= G(s)}
<1>1. \A s \in SUBSET S : IsFiniteSet(s) /\ F(s) \in Int /\ G(s) \in Int
    BY FS_Subset, SumIsInt
<1>2. {} \in P
    <2>1. F({}) = 0 /\ G({}) = 0
        BY SumEmpty
    <2> HIDE DEF F, G
    <2> QED
        BY <2>1
<1>3. ASSUME NEW s \in SUBSET S, s # {}, \A x \in s : s \ {x} \in P PROVE s \in P
    <2>1. PICK c \in s : TRUE
        BY <1>3
    <2>2. F(s) = f[c] + F(s \ {c})
        BY <1>1, SumTakeOut
    <2>3. G(s) = g[c] + G(s \ {c})
        BY <1>1, SumTakeOut
    <2>4. F(s \ {c}) <= G(s \ {c}) /\ F(s \ {c}) \in Int /\ G(s \ {c}) \in Int
        BY <1>1, <1>3
    <2>5. f[c] \in Int /\ g[c] \in Int /\ f[c] <= g[c]
        OBVIOUS
    <2> HIDE DEF F, G
    <2> QED
        BY <2>2, <2>3, <2>4, <2>5
<1> HIDE DEF P
<1>4. \A U \in SUBSET S : U # {} /\ (\A x \in U : U \ {x} \in P) => U \in P
    BY <1>3
<1>5. S \in P
    BY <1>2, <1>4, SetDescent
<1> QED
    BY <1>5 DEF P

\* Terms that are all zero.
LEMMA SumOfZeros ==
    ASSUME NEW f, NEW S, IsFiniteSet(S), \A x \in S : f[x] = 0
    PROVE  SumFunctionOnSet(f, S) = 0
<1>1. \A x \in S : f[x] \in Int /\ f[x] = 0 * f[x] + 0 * f[x]
    OBVIOUS
<1>2. SumFunctionOnSet(f, S) = 0 * SumFunctionOnSet(f, S) + 0 * SumFunctionOnSet(f, S)
    BY <1>1, SumLinear
<1>3. SumFunctionOnSet(f, S) \in Int
    BY <1>1, SumIsInt
<1> QED
    BY <1>2, <1>3

\* What is outside the support of a sum adds nothing.
LEMMA SumSupport ==
    ASSUME NEW f, NEW S, IsFiniteSet(S), NEW T \in SUBSET S,
           \A x \in S : f[x] \in Int, \A x \in S \ T : f[x] = 0
    PROVE  SumFunctionOnSet(f, S) = SumFunctionOnSet(f, T)
<1>1. IsFiniteSet(T) /\ IsFiniteSet(S \ T) /\ T \cap (S \ T) = {} /\ T \cup (S \ T) = S
    BY FS_Subset
<1>2. SumFunctionOnSet(f, T \cup (S \ T)) = SumFunctionOnSet(f, T) + SumFunctionOnSet(f, S \ T)
    BY <1>1, SumDisjoint
<1>3. SumFunctionOnSet(f, S \ T) = 0
    BY <1>1, SumOfZeros
<1>4. SumFunctionOnSet(f, T) \in Int
    BY <1>1, SumIsInt
<1>5. SumFunctionOnSet(f, T \cup (S \ T)) = SumFunctionOnSet(f, T)
    BY <1>2, <1>3, <1>4
<1> QED
    BY <1>1, <1>5

\* A sum over a set of indices is one over what they name.
LEMMA SumReindexed ==
    ASSUME NEW f, NEW g, NEW S, NEW T, IsFiniteSet(S), NEW b \in Bijection(S, T),
           \A x \in S : f[x] \in Int /\ f[x] = g[b[x]]
    PROVE  SumFunctionOnSet(f, S) = SumFunctionOnSet(g, T)
<1> DEFINE Img(s) == {b[x] : x \in s}
           P == {s \in SUBSET S : SumFunctionOnSet(f, s) = SumFunctionOnSet(g, Img(s))}
<1>0. /\ b \in [S -> T]
      /\ \A x, y \in S : b[x] = b[y] => x = y
      /\ \A y \in T : \E x \in S : b[x] = y
    BY DEF Bijection, Injection, Surjection, IsInjective
<1>1. IsFiniteSet(T)
    BY FS_Bijection DEF ExistsBijection
<1>2. \A y \in T : g[y] \in Int
    BY <1>0
<1>3. \A s \in SUBSET S : IsFiniteSet(s) /\ Img(s) \in SUBSET T /\ IsFiniteSet(Img(s))
    BY <1>0, <1>1, FS_Subset
<1>4. {} \in P
    <2>1. Img({}) = {}
        OBVIOUS
    <2>2. SumFunctionOnSet(f, {}) = 0 /\ SumFunctionOnSet(g, {}) = 0
        BY SumEmpty
    <2> QED
        BY <2>1, <2>2
<1>5. ASSUME NEW s \in SUBSET S, s # {}, \A x \in s : s \ {x} \in P PROVE s \in P
    <2>1. PICK c \in s : TRUE
        BY <1>5
    <2>2. Img(s) \ {b[c]} = Img(s \ {c}) /\ b[c] \in Img(s)
        BY <1>0
    <2>3. SumFunctionOnSet(f, s) = f[c] + SumFunctionOnSet(f, s \ {c})
        <3>1. IsFiniteSet(s) /\ \A x \in s : f[x] \in Int
            BY <1>3
        <3> QED
            BY <3>1, SumTakeOut
    <2>4. \A y \in Img(s) : g[y] \in Int
        BY <1>2, <1>3
    <2>5. SumFunctionOnSet(g, Img(s)) = g[b[c]] + SumFunctionOnSet(g, Img(s) \ {b[c]})
        <3> HIDE DEF Img
        <3> QED
            BY <1>3, <2>2, <2>4, SumTakeOut
    <2>6. SumFunctionOnSet(f, s \ {c}) = SumFunctionOnSet(g, Img(s \ {c})) /\ f[c] = g[b[c]]
        BY <1>5
    <2> HIDE DEF Img
    <2> QED
        BY <2>2, <2>3, <2>5, <2>6
<1> HIDE DEF P
<1>6. \A U \in SUBSET S : U # {} /\ (\A x \in U : U \ {x} \in P) => U \in P
    BY <1>5
<1>7. S \in P
    BY <1>4, <1>6, SetDescent
<1>8. Img(S) = T
    BY <1>0
<1> QED
    BY <1>7, <1>8 DEF P

(***************************************************************************)
(* The rank of an element of a finite set under a strict total order R, a  *)
(* set of pairs, is the number of elements ahead of it.                    *)
(***************************************************************************)
Ahead(R, S, k) == {j \in S : <<j, k>> \in R}

\* R is irreflexive and transitive on S, and compares any two of it.
StrictOrder(R, S) ==
    /\ \A x \in S : <<x, x>> \notin R
    /\ \A x, y, z \in S : <<x, y>> \in R /\ <<y, z>> \in R => <<x, z>> \in R
    /\ \A x, y \in S : x # y => <<x, y>> \in R \/ <<y, x>> \in R

\* The ranks of n elements are 0 to n - 1, each of one of them.
LEMMA RanksAreDense ==
    ASSUME NEW S, IsFiniteSet(S), NEW R, StrictOrder(R, S)
    PROVE  /\ \A k \in S : Cardinality(Ahead(R, S, k)) \in 0..(Cardinality(S) - 1)
           /\ \A j, k \in S : Cardinality(Ahead(R, S, j)) = Cardinality(Ahead(R, S, k)) => j = k
           /\ \A r \in 0..(Cardinality(S) - 1) : \E k \in S : Cardinality(Ahead(R, S, k)) = r
<1> DEFINE rank(k) == Cardinality(Ahead(R, S, k))
<1>1. \A k \in S : /\ Ahead(R, S, k) \in SUBSET (S \ {k})
                   /\ IsFiniteSet(Ahead(R, S, k))
                   /\ rank(k) \in Nat
    BY FS_Subset, FS_CardinalityType DEF Ahead, StrictOrder
<1>2. Cardinality(S) \in Nat
    BY FS_CardinalityType
<1>3. ASSUME NEW k \in S PROVE rank(k) \in 0..(Cardinality(S) - 1)
    <2>1. IsFiniteSet(S \ {k}) /\ Cardinality(S \ {k}) = Cardinality(S) - 1
        BY FS_RemoveElement
    <2>2. rank(k) <= Cardinality(S \ {k})
        BY <1>1, <2>1, FS_Subset
    <2> QED
        BY <1>1, <1>2, <2>1, <2>2
<1>4. ASSUME NEW j \in S, NEW k \in S, <<j, k>> \in R PROVE rank(j) < rank(k)
    <2>1. Ahead(R, S, j) \cup {j} \in SUBSET Ahead(R, S, k) /\ j \notin Ahead(R, S, j)
        BY <1>4 DEF Ahead, StrictOrder
    <2>2. Cardinality(Ahead(R, S, j) \cup {j}) = rank(j) + 1
        BY <1>1, <2>1, FS_AddElement
    <2>3. Cardinality(Ahead(R, S, j) \cup {j}) <= rank(k)
        BY <1>1, <2>1, FS_Subset
    <2> QED
        BY <1>1, <2>2, <2>3
<1>5. ASSUME NEW j \in S, NEW k \in S, rank(j) = rank(k) PROVE j = k
    <2> HIDE DEF rank
    <2>1. CASE <<j, k>> \in R
        BY <1>1, <1>4, <1>5, <2>1
    <2>2. CASE <<k, j>> \in R
        BY <1>1, <1>4, <1>5, <2>2
    <2> QED
        BY <2>1, <2>2 DEF StrictOrder
<1> DEFINE ranks == [k \in S |-> rank(k)]
<1>6. ranks \in Injection(S, 0..(Cardinality(S) - 1))
    <2> HIDE DEF rank
    <2>1. ranks \in [S -> 0..(Cardinality(S) - 1)]
        BY <1>3
    <2> QED
        BY <1>5, <2>1 DEF Injection, IsInjective
<1>7. Cardinality(0..(Cardinality(S) - 1)) = Cardinality(S)
    BY <1>2, FS_Interval
<1>8. ranks \in Surjection(S, 0..(Cardinality(S) - 1))
    <2> DEFINE T == 0..(Cardinality(S) - 1)
    <2>1. Cardinality(S) = Cardinality(T) <=> ranks \in Surjection(S, T)
        <3>1. ranks \in Injection(S, T)
            BY <1>6
        <3>2. IsFiniteSet(T)
            BY <1>2, FS_Interval
        <3> HIDE DEF ranks, T
        <3> QED
            BY <3>1, <3>2, FS_Injection
    <2> HIDE DEF ranks
    <2> QED
        BY <1>7, <2>1
<1>9. \A r \in 0..(Cardinality(S) - 1) : \E k \in S : rank(k) = r
    <2> HIDE DEF rank
    <2> QED
        BY <1>8 DEF Surjection
<1> QED
    BY <1>3, <1>5, <1>9

\* Of n ranked elements, the first r are r.
LEMMA FirstRanks ==
    ASSUME NEW S, IsFiniteSet(S), NEW R, StrictOrder(R, S),
           NEW r \in 0..Cardinality(S)
    PROVE  Cardinality({k \in S : Cardinality(Ahead(R, S, k)) < r}) = r
<1> DEFINE T == {k \in S : Cardinality(Ahead(R, S, k)) < r}
           ranks == [k \in T |-> Cardinality(Ahead(R, S, k))]
<1>1. IsFiniteSet(T) /\ Cardinality(S) \in Nat
    BY FS_Subset, FS_CardinalityType
<1>2. \A k \in S : Cardinality(Ahead(R, S, k)) \in 0..(Cardinality(S) - 1)
    BY RanksAreDense
<1>3. \A j, k \in S : Cardinality(Ahead(R, S, j)) = Cardinality(Ahead(R, S, k)) => j = k
    BY RanksAreDense
<1>4. \A s \in 0..(Cardinality(S) - 1) : \E k \in S : Cardinality(Ahead(R, S, k)) = s
    BY RanksAreDense
<1>5. ranks \in [T -> 0..(r - 1)]
    BY <1>1, <1>2
<1>6. \A s \in 0..(r - 1) : \E k \in T : ranks[k] = s
    BY <1>1, <1>4
<1>7. ranks \in Bijection(T, 0..(r - 1))
    BY <1>3, <1>5, <1>6 DEF Bijection, Injection, Surjection, IsInjective
<1>8. Cardinality(0..(r - 1)) = r
    BY <1>1, FS_Interval
<1>9. Cardinality(0..(r - 1)) = Cardinality(T)
    <2>1. ExistsBijection(T, 0..(r - 1))
        BY <1>7 DEF ExistsBijection
    <2> HIDE DEF T
    <2> QED
        BY <1>1, <2>1, FS_Bijection
<1> QED
    BY <1>8, <1>9

\* Terms that are all one count the elements.
LEMMA SumOfOnes ==
    ASSUME NEW f, NEW S, IsFiniteSet(S), \A x \in S : f[x] = 1
    PROVE  SumFunctionOnSet(f, S) = Cardinality(S)
<1> DEFINE P == {s \in SUBSET S : SumFunctionOnSet(f, s) = Cardinality(s)}
<1>1. {} \in P
    BY SumEmpty, FS_EmptySet
<1>2. ASSUME NEW s \in SUBSET S, s # {}, \A x \in s : s \ {x} \in P PROVE s \in P
    <2>1. PICK c \in s : TRUE
        BY <1>2
    <2>2. IsFiniteSet(s) /\ Cardinality(s) \in Nat /\ \A x \in s : f[x] \in Int
        BY FS_Subset, FS_CardinalityType
    <2>3. SumFunctionOnSet(f, s) = f[c] + SumFunctionOnSet(f, s \ {c})
        BY <2>2, SumTakeOut
    <2>4. Cardinality(s \ {c}) = Cardinality(s) - 1 /\ f[c] = 1
        BY <2>1, <2>2, FS_RemoveElement
    <2>5. SumFunctionOnSet(f, s \ {c}) = Cardinality(s \ {c})
        BY <1>2, <2>1
    <2>6. SumFunctionOnSet(f, s) = Cardinality(s)
        BY <2>2, <2>3, <2>4, <2>5
    <2> QED
        BY <2>6
<1> HIDE DEF P
<1>3. \A U \in SUBSET S : U # {} /\ (\A x \in U : U \ {x} \in P) => U \in P
    BY <1>2
<1>4. S \in P
    BY <1>1, <1>3, SetDescent
<1> QED
    BY <1>4 DEF P

\* inc is what each element of S adds to V on top of those ahead of it.
Increments(S, R, V, inc) ==
    /\ V[{}] = 0 /\ \A T \in SUBSET S : V[T] \in Int
    /\ \A k \in S : inc[k] = V[Ahead(R, S, k) \cup {k}] - V[Ahead(R, S, k)]

\* A quantity V over sets is the sum of its increments, in whatever order.
LEMMA Telescope ==
    ASSUME NEW S, IsFiniteSet(S), NEW R, StrictOrder(R, S), NEW V, NEW inc, Increments(S, R, V, inc)
    PROVE  SumFunctionOnSet(inc, S) = V[S]
<1>0. /\ V[{}] = 0 /\ \A T \in SUBSET S : V[T] \in Int
      /\ \A k \in S : inc[k] = V[Ahead(R, S, k) \cup {k}] - V[Ahead(R, S, k)]
    BY DEF Increments
<1> DEFINE Closed(T) == \A k \in T : Ahead(R, S, k) \subseteq T
           P == {T \in SUBSET S : Closed(T) => SumFunctionOnSet(inc, T) = V[T]}
<1>1. {} \in P
    BY <1>0, SumEmpty
<1>2. ASSUME NEW T \in SUBSET S, T # {}, \A x \in T : T \ {x} \in P PROVE T \in P
    <2> SUFFICES ASSUME Closed(T) PROVE SumFunctionOnSet(inc, T) = V[T]
        OBVIOUS
    <2>1. IsFiniteSet(T) /\ Cardinality(T) \in Nat /\ Cardinality(T) # 0
        BY <1>2, FS_Subset, FS_CardinalityType, FS_EmptySet
    <2>2. StrictOrder(R, T)
        BY DEF StrictOrder
    <2>3. PICK k \in T : Cardinality(Ahead(R, T, k)) = Cardinality(T) - 1
        <3>1. Cardinality(T) - 1 \in 0..(Cardinality(T) - 1)
            BY <2>1
        <3> QED
            BY <2>1, <2>2, <3>1, RanksAreDense
    <2> DEFINE B == T \ {k}
    <2>4. Ahead(R, T, k) = B
        <3>1. Ahead(R, T, k) \subseteq B
            BY <2>2 DEF Ahead, StrictOrder
        <3>2. IsFiniteSet(B) /\ Cardinality(B) = Cardinality(T) - 1
            BY <2>1, <2>3, FS_RemoveElement
        <3> HIDE DEF B
        <3> QED
            BY <2>3, <3>1, <3>2, FS_Subset
    <2>5. Ahead(R, S, k) = B
        BY <2>3, <2>4 DEF Ahead
    <2>6. Closed(B)
        <3> SUFFICES ASSUME NEW j \in B, NEW i \in S, <<i, j>> \in R PROVE i \in B
            BY DEF Ahead
        <3>1. i \in T
            BY DEF Ahead
        <3>2. <<j, k>> \in R
            BY <2>4 DEF Ahead
        <3>3. i # k
            BY <2>2, <3>2 DEF StrictOrder
        <3> QED
            BY <3>1, <3>3
    <2>7. SumFunctionOnSet(inc, B) = V[B]
        BY <1>2, <2>3, <2>6
    <2>8. k \in S /\ T = B \cup {k} /\ V[T] \in Int /\ V[B] \in Int
        BY <1>0, <2>3
    <2>9. \A x \in T : inc[x] \in Int
        <3> SUFFICES ASSUME NEW x \in T PROVE inc[x] \in Int
            OBVIOUS
        <3>1. Ahead(R, S, x) \in SUBSET S /\ Ahead(R, S, x) \cup {x} \in SUBSET S
            BY DEF Ahead
        <3>2. V[Ahead(R, S, x)] \in Int /\ V[Ahead(R, S, x) \cup {x}] \in Int
            BY <1>0, <3>1
        <3>3. x \in S
            OBVIOUS
        <3>4. inc[x] = V[Ahead(R, S, x) \cup {x}] - V[Ahead(R, S, x)]
            BY <1>0, <3>3
        <3> QED
            BY <3>2, <3>4
    <2>10. SumFunctionOnSet(inc, T) = inc[k] + SumFunctionOnSet(inc, B)
        BY <2>1, <2>3, <2>9, SumTakeOut
    <2>11. inc[k] = V[T] - V[B]
        BY <1>0, <2>5, <2>8
    <2> HIDE DEF B
    <2> QED
        BY <2>7, <2>8, <2>10, <2>11
<1>3. S \in P
    <2> HIDE DEF P
    <2> QED
        BY <1>1, <1>2, SetDescent
<1>4. Closed(S)
    BY DEF Ahead
<1> QED
    BY <1>3, <1>4

\* What a function takes a finite set to is finite.
LEMMA FiniteImage ==
    ASSUME NEW S, IsFiniteSet(S), NEW f
    PROVE  IsFiniteSet({f[x] : x \in S})
<1> DEFINE P == {T \in SUBSET S : IsFiniteSet({f[x] : x \in T})}
<1>1. {} \in P
    <2>1. {f[x] : x \in {}} = {}
        OBVIOUS
    <2> QED
        BY <2>1, FS_EmptySet
<1>2. ASSUME NEW T \in SUBSET S, T # {}, \A x \in T : T \ {x} \in P PROVE T \in P
    <2>1. PICK y \in T : TRUE
        BY <1>2
    <2>2. IsFiniteSet({f[x] : x \in T \ {y}})
        BY <1>2, <2>1
    <2>3. {f[x] : x \in T} = {f[x] : x \in T \ {y}} \cup {f[y]}
        BY <2>1
    <2>4. IsFiniteSet({f[x] : x \in T \ {y}} \cup {f[y]})
        BY <2>2, FS_AddElement
    <2>5. IsFiniteSet({f[x] : x \in T})
        BY <2>3, <2>4, Zenon
    <2> QED
        BY <2>5
<1>3. S \in P
    <2> HIDE DEF P
    <2> QED
        BY <1>1, <1>2, SetDescent
<1> QED
    BY <1>3

\* Nor is a union of finitely many finite sets infinite.
LEMMA FiniteUnion ==
    ASSUME NEW S, IsFiniteSet(S), NEW g, \A k \in S : IsFiniteSet(g[k])
    PROVE  IsFiniteSet(UNION {g[k] : k \in S})
<1> DEFINE P == {T \in SUBSET S : IsFiniteSet(UNION {g[k] : k \in T})}
<1>1. {} \in P
    <2>1. UNION {g[k] : k \in {}} = {}
        OBVIOUS
    <2> QED
        BY <2>1, FS_EmptySet
<1>2. ASSUME NEW T \in SUBSET S, T # {}, \A x \in T : T \ {x} \in P PROVE T \in P
    <2>1. PICK y \in T : TRUE
        BY <1>2
    <2>2. IsFiniteSet(UNION {g[k] : k \in T \ {y}}) /\ IsFiniteSet(g[y])
        BY <1>2, <2>1
    <2>3. UNION {g[k] : k \in T} = (UNION {g[k] : k \in T \ {y}}) \cup g[y]
        BY <2>1
    <2>4. IsFiniteSet((UNION {g[k] : k \in T \ {y}}) \cup g[y])
        BY <2>2, FS_Union
    <2>5. IsFiniteSet(UNION {g[k] : k \in T})
        BY <2>3, <2>4, Zenon
    <2> QED
        BY <2>5
<1>3. S \in P
    <2> HIDE DEF P
    <2> QED
        BY <1>1, <1>2, SetDescent
<1> QED
    BY <1>3

\* The sums over the classes of a finite set, one for each value of class.
ByClass(f, S, class, Q) == [q \in Q |-> SumFunctionOnSet(f, {x \in S : class[x] = q})]

\* They add up to the sum over the set.
LEMMA SumPartition ==
    ASSUME NEW f, NEW S, IsFiniteSet(S), \A x \in S : f[x] \in Int,
           NEW Q, IsFiniteSet(Q), NEW class, \A x \in S : class[x] \in Q
    PROVE  SumFunctionOnSet(ByClass(f, S, class, Q), Q) = SumFunctionOnSet(f, S)
<1> DEFINE g == ByClass(f, S, class, Q)
           In(T) == {x \in S : class[x] \in T}
           P == {T \in SUBSET Q : SumFunctionOnSet(g, T) = SumFunctionOnSet(f, In(T))}
<1>1. \A q \in Q : g[q] = SumFunctionOnSet(f, {x \in S : class[x] = q})
    BY DEF ByClass
<1>2. \A q \in Q : g[q] \in Int
    <2> SUFFICES ASSUME NEW q \in Q PROVE g[q] \in Int
        OBVIOUS
    <2> DEFINE C == {x \in S : class[x] = q}
    <2>1. IsFiniteSet(C) /\ \A x \in C : f[x] \in Int
        BY FS_Subset
    <2>2. g[q] = SumFunctionOnSet(f, C)
        BY <1>1
    <2> HIDE DEF C, g
    <2> QED
        BY <2>1, <2>2, SumIsInt
<1> HIDE DEF g
<1>3. {} \in P
    <2>1. In({}) = {}
        OBVIOUS
    <2> QED
        BY <2>1, SumEmpty
<1>4. ASSUME NEW T \in SUBSET Q, T # {}, \A x \in T : T \ {x} \in P PROVE T \in P
    <2>1. PICK q \in T : TRUE
        BY <1>4
    <2> DEFINE C == {x \in S : class[x] = q}
               D == In(T \ {q})
    <2>2. IsFiniteSet(T) /\ \A t \in T : g[t] \in Int
        BY <1>2, FS_Subset
    <2>3. SumFunctionOnSet(g, T) = g[q] + SumFunctionOnSet(g, T \ {q})
        BY <2>1, <2>2, SumTakeOut
    <2>4. SumFunctionOnSet(g, T \ {q}) = SumFunctionOnSet(f, D)
        BY <1>4, <2>1
    <2>5. g[q] = SumFunctionOnSet(f, C)
        BY <1>1, <2>1
    <2>6. /\ IsFiniteSet(C) /\ IsFiniteSet(D) /\ C \cap D = {} /\ C \cup D = In(T)
          /\ \A x \in C \cup D : f[x] \in Int
        <3>1. IsFiniteSet(C) /\ IsFiniteSet(D)
            BY FS_Subset
        <3>2. C \cap D = {} /\ C \cup D = In(T)
            BY <2>1
        <3> QED
            BY <3>1, <3>2
    <2> HIDE DEF C, D
    <2>7. SumFunctionOnSet(f, C \cup D) = SumFunctionOnSet(f, C) + SumFunctionOnSet(f, D)
        BY <2>6, SumDisjoint
    <2>8. SumFunctionOnSet(g, T) = SumFunctionOnSet(f, In(T))
        BY <2>3, <2>4, <2>5, <2>6, <2>7
    <2> QED
        BY <2>8
<1>5. Q \in P
    <2> HIDE DEF P
    <2> QED
        BY <1>3, <1>4, SetDescent
<1>6. In(Q) = S
    OBVIOUS
<1> QED
    BY <1>5, <1>6 DEF g

(***************************************************************************)
(* Arithmetic                                                              *)
(***************************************************************************)
\* Floor division, as round_half_to_even and alloc_floor use it.
LEMMA DivMod ==
    ASSUME NEW a \in Int, NEW b \in Int, b > 0
    PROVE  /\ a \div b \in Int
           /\ a % b \in Int
           /\ a = b * (a \div b) + (a % b)
           /\ 0 <= a % b
           /\ a % b < b
OBVIOUS

\* round_half_to_even returns an integer at most half a unit away from num/den.
THEOREM RoundsToNearest ==
    ASSUME NEW num \in Int, NEW den \in Int, den > 0
    PROVE  /\ RoundHalfEven(num, den) \in Int
           /\ 2 * den * RoundHalfEven(num, den) - 2 * num <= den
           /\ 2 * num - 2 * den * RoundHalfEven(num, den) <= den
<1> DEFINE q == num \div den
           r == num % den
<1>1. q \in Int /\ r \in Int /\ num = den * q + r /\ 0 <= r /\ r < den
    BY DivMod
<1>2. RoundHalfEven(num, den) =
          IF 2 * r < den \/ (2 * r = den /\ q % 2 = 0) THEN q ELSE q + 1
    BY DEF RoundHalfEven
<1> HIDE DEF q, r
<1>3. den * (q + 1) = den * q + den /\ den * q \in Int
    BY <1>1
<1> QED
    BY <1>1, <1>2, <1>3

\* A tie goes to the even neighbour, so that many roundings do not drift one way.
THEOREM TiesGoToEven ==
    ASSUME NEW num \in Int, NEW den \in Int, den > 0, 2 * (num % den) = den
    PROVE  RoundHalfEven(num, den) % 2 = 0
<1>1. num \div den \in Int /\ num % den \in Int
    BY DivMod
<1>2. CASE (num \div den) % 2 = 0
    <2>1. RoundHalfEven(num, den) = num \div den
        BY <1>1, <1>2 DEF RoundHalfEven
    <2> QED
        BY <1>2, <2>1
<1>3. CASE (num \div den) % 2 # 0
    <2>1. RoundHalfEven(num, den) = (num \div den) + 1
        BY <1>1, <1>3 DEF RoundHalfEven
    <2>2. ASSUME NEW q \in Int, q % 2 # 0 PROVE (q + 1) % 2 = 0
        BY <2>2
    <2> QED
        BY <1>1, <1>3, <2>1, <2>2
<1> QED
    BY <1>2, <1>3

\* Rounding a number between 0 and a whole b stays between 0 and b.
LEMMA RoundsWithin ==
    ASSUME NEW num \in Int, NEW den \in Int, NEW b \in Int,
           den > 0, 0 <= num, num <= b * den
    PROVE  0 <= RoundHalfEven(num, den) /\ RoundHalfEven(num, den) <= b
<1> DEFINE r == RoundHalfEven(num, den)
<1>1. r \in Int /\ 2 * den * r - 2 * num <= den /\ 2 * num - 2 * den * r <= den
    BY RoundsToNearest
<1> HIDE DEF r
<1>2. ASSUME r < 0 PROVE FALSE
    <2>1. den * r <= -den
        BY <1>1, <1>2
    <2> QED
        BY <1>1, <2>1
<1>3. ASSUME r > b PROVE FALSE
    <2>1. den * r >= den * b + den
        BY <1>1, <1>3
    <2> QED
        BY <1>1, <2>1
<1>4. 0 <= r /\ r <= b
    BY <1>1, <1>2, <1>3
<1> QED
    BY <1>4 DEF r

\* consume_basis splits a basis without making or losing a cent: the part taken and
\* the part left add up to it, whatever its sign, and the last units take all of it.
THEOREM ConsumeConservesBasis ==
    ASSUME NEW basis \in Int, NEW qty \in Int, NEW c \in Int, 0 < c, c <= qty
    PROVE  LET split == ConsumeBasis(basis, qty, c)
           IN  /\ split.taken \in Int /\ split.left \in Int
               /\ split.taken + split.left = basis
               /\ c = qty => split.left = 0
<1>1. basis * c \in Int
    OBVIOUS
<1>2. RoundHalfEven(basis * c, qty) \in Int
    BY <1>1, RoundsToNearest
<1> QED
    BY <1>2 DEF ConsumeBasis

\* A lot whose basis is not negative keeps one that is not negative, and no sale
\* takes more basis than the lot has.
THEOREM ConsumeKeepsBasisNonNegative ==
    ASSUME NEW basis \in Int, NEW qty \in Int, NEW c \in Int,
           0 <= basis, 0 < c, c <= qty
    PROVE  LET split == ConsumeBasis(basis, qty, c)
           IN  /\ 0 <= split.taken /\ split.taken <= basis
               /\ 0 <= split.left /\ split.left <= basis
<1> DEFINE part == basis * c
<1>1. part \in Int /\ 0 <= part /\ part <= basis * qty
    OBVIOUS
<1> HIDE DEF part
<1>2. qty > 0
    OBVIOUS
<1>3. RoundHalfEven(part, qty) \in Int
    BY <1>1, <1>2, RoundsToNearest
<1>4. 0 <= RoundHalfEven(part, qty) /\ RoundHalfEven(part, qty) <= basis
    BY <1>1, <1>2, RoundsWithin
<1> QED
    BY <1>3, <1>4 DEF ConsumeBasis, part

(***************************************************************************)
(* The log                                                                 *)
(***************************************************************************)
\* Every Reversal of l names an earlier event, and no two name the same.
ReversalsPointBack(l) ==
    \A i \in ReversalsOf(l) :
        /\ l[i].target \in 1..(i - 1)
        /\ \A j \in ReversalsOf(l) : l[j].target = l[i].target => j = i

\* The validator accepts a Reversal only of an event that is in the log and not
\* reversed, whatever fold state it is given.
LEMMA AcceptedTarget ==
    ASSUME NEW st, NEW l, NEW e, e.kind = "Reversal", Validate(st, l, e) = "Ok"
    PROVE  e.target \in DOMAIN l /\ e.target \notin ReversedTargets(l)
BY DEF Validate, ReversalVerdict

\* Appending such a Reversal, or any other event, keeps the reversals in order.
LEMMA AppendKeepsReversals ==
    ASSUME NEW l \in Seq(Payloads), ReversalsPointBack(l), NEW e \in Payloads,
           e.kind = "Reversal" =>
               e.target \in DOMAIN l /\ e.target \notin ReversedTargets(l)
    PROVE  ReversalsPointBack(Append(l, e))
<1> DEFINE m == Append(l, e)
<1>1. /\ Len(l) \in Nat /\ DOMAIN l = 1..Len(l)
      /\ Len(m) = Len(l) + 1 /\ DOMAIN m = 1..(Len(l) + 1)
      /\ m[Len(l) + 1] = e
      /\ \A i \in 1..Len(l) : m[i] = l[i]
    OBVIOUS
<1> HIDE DEF m
<1>2. \A i \in ReversalsOf(m) :
          \/ i \in ReversalsOf(l) /\ m[i] = l[i] /\ i <= Len(l)
          \/ i = Len(l) + 1 /\ m[i] = e /\ e.kind = "Reversal"
    BY <1>1 DEF ReversalsOf
<1>3. \A i \in ReversalsOf(l) : l[i].target \in ReversedTargets(l)
    BY DEF ReversedTargets
<1>4. ASSUME NEW i \in ReversalsOf(m)
      PROVE  m[i].target \in 1..(i - 1)
    BY <1>1, <1>2, <1>4 DEF ReversalsPointBack
<1>5. ASSUME NEW i \in ReversalsOf(m), NEW j \in ReversalsOf(m),
             m[j].target = m[i].target
      PROVE  j = i
    BY <1>2, <1>3, <1>5 DEF ReversalsPointBack
<1>6. ReversalsPointBack(m)
    BY <1>4, <1>5 DEF ReversalsPointBack
<1> QED
    BY <1>6 DEF m

\* The log stays within its bound, and a Reversal always names an earlier event that
\* nothing else reverses, for any payloads, even ones with targets that do not exist.
THEOREM TypeCorrect == Spec => []TypeOK
<1>1. Init => TypeOK
    BY MaxEventsAssumption DEF Init, TypeOK, ReversalsOf
<1>2. TypeOK /\ [Next]_log => TypeOK'
    <2> SUFFICES ASSUME TypeOK, [Next]_log PROVE TypeOK'
        OBVIOUS
    <2>1. log \in Seq(Payloads) /\ Len(log) <= MaxEvents /\ ReversalsPointBack(log)
        BY DEF TypeOK, ReversalsPointBack
    <2>2. ASSUME NEW st, NEW e \in Payloads, Accept(st, e)
          PROVE  TypeOK'
        <3>1. log' = Append(log, e) /\ Len(log) < MaxEvents /\ Validate(st, log, e) = "Ok"
            BY <2>2 DEF Accept
        <3>2. ReversalsPointBack(Append(log, e))
            BY <2>1, <3>1, AcceptedTarget, AppendKeepsReversals
        <3>3. ASSUME NEW l \in Seq(Payloads), Len(l) < MaxEvents
              PROVE  Append(l, e) \in Seq(Payloads) /\ Len(Append(l, e)) <= MaxEvents
            BY <3>3, MaxEventsAssumption
        <3>4. log' \in Seq(Payloads) /\ Len(log') <= MaxEvents /\ ReversalsPointBack(log')
            BY <2>1, <3>1, <3>2, <3>3
        <3> QED
            BY <3>4 DEF TypeOK, ReversalsPointBack
    <2>3. ASSUME NEW st, NEW e \in Payloads, Reject(st, e)
          PROVE  TypeOK'
        BY <2>3 DEF Reject, TypeOK, ReversalsOf
    <2>4. CASE UNCHANGED log
        BY <2>4 DEF TypeOK, ReversalsOf
    <2> QED
        BY <2>2, <2>3, <2>4 DEF Next, Submit
<1> QED
    BY <1>1, <1>2, PTL DEF Spec

(***************************************************************************)
(* The fold state                                                          *)
(***************************************************************************)
\* The symbols that the payloads open lots of.
OpenedSymbols == {e.symbol : e \in {e \in Payloads : e.kind \in {"Buy", "Vest"}}}

\* A lot and a gain as the fold makes them of accepted payloads; the state it folds.
LotRecords ==
    [id : {e.lot : e \in Payloads}, symbol : OpenedSymbols,
     platform : {e.platform : e \in Payloads}, acquired : Int, openSeq : Nat,
     qty : Nat, basis : Int, closed : BOOLEAN]

GainRecords ==
    [sale : Nat, lot : {e.lot : e \in Payloads}, symbol : {e.symbol : e \in Payloads},
     qty : Nat, proceeds : Int, basis : Int, saleDate : Int, acquired : Int]

FoldStates ==
    [lots : Seq(LotRecords), gains : Seq(GainRecords),
     depended : SUBSET Nat, dropped : SUBSET Nat]

\* What the fold has made of the first n events, whatever they are: a closed lot
\* is empty, and the lots are in the order of the events that opened them.
FoldOK(st, n) ==
    /\ st \in FoldStates
    /\ \A k \in DOMAIN st.lots :
           /\ st.lots[k].closed => st.lots[k].qty = 0 /\ st.lots[k].basis = 0
           /\ 0 < st.lots[k].openSeq /\ st.lots[k].openSeq <= n
           /\ \A j \in DOMAIN st.lots : j < k => st.lots[j].openSeq < st.lots[k].openSeq
    /\ \A g \in DOMAIN st.gains : st.gains[g].sale <= n
    /\ st.depended \subseteq 1..n /\ st.dropped \subseteq 1..n

\* Types of the fields, one by one.
LEMMA FoldTypes ==
    ASSUME NEW st, NEW n, FoldOK(st, n)
    PROVE  /\ Len(st.lots) \in Nat /\ DOMAIN st.lots = 1..Len(st.lots)
           /\ IsFiniteSet(DOMAIN st.lots)
           /\ Len(st.gains) \in Nat /\ DOMAIN st.gains = 1..Len(st.gains)
           /\ st.lots \in Seq(LotRecords) /\ st.gains \in Seq(GainRecords)
           /\ \A k \in DOMAIN st.lots :
                  /\ st.lots[k] \in LotRecords
                  /\ st.lots[k].acquired \in Int /\ st.lots[k].openSeq \in Nat
                  /\ st.lots[k].qty \in Nat /\ st.lots[k].basis \in Int
                  /\ st.lots[k].closed \in BOOLEAN
<1>1. st.lots \in Seq(LotRecords) /\ st.gains \in Seq(GainRecords)
    BY DEF FoldOK, FoldStates
<1>2. \A k \in DOMAIN st.lots : st.lots[k] \in LotRecords
    BY <1>1
<1>3. Len(st.lots) \in Nat /\ DOMAIN st.lots = 1..Len(st.lots)
      /\ Len(st.gains) \in Nat /\ DOMAIN st.gains = 1..Len(st.gains)
    BY <1>1
<1>4. IsFiniteSet(DOMAIN st.lots)
    BY <1>3, FS_Interval
<1>5. \A lot \in LotRecords :
          /\ lot.acquired \in Int /\ lot.openSeq \in Nat
          /\ lot.qty \in Nat /\ lot.basis \in Int
          /\ lot.closed \in BOOLEAN
    BY DEF LotRecords
<1> QED
    BY <1>1, <1>2, <1>3, <1>4, <1>5

\* The pairs of lots of which the first is the older.
OlderPairs(st) ==
    {p \in (DOMAIN st.lots) \X (DOMAIN st.lots) : Older(st.lots[p[1]], st.lots[p[2]])}

\* Age is a strict total order of the lots: no two were opened by one event.
LEMMA AgeIsOrder ==
    ASSUME NEW st, NEW n, FoldOK(st, n), NEW S \in SUBSET DOMAIN st.lots
    PROVE  StrictOrder(OlderPairs(st), S)
<1>1. \A k \in DOMAIN st.lots : st.lots[k].acquired \in Int /\ st.lots[k].openSeq \in Nat
    BY FoldTypes
<1>2. \A j, k \in S : <<j, k>> \in OlderPairs(st) <=> Older(st.lots[j], st.lots[k])
    BY DEF OlderPairs
<1>3. \A j, k \in DOMAIN st.lots : j # k => st.lots[j].openSeq # st.lots[k].openSeq
    <2> SUFFICES ASSUME NEW j \in DOMAIN st.lots, NEW k \in DOMAIN st.lots, j # k
                 PROVE  st.lots[j].openSeq # st.lots[k].openSeq
        OBVIOUS
    <2>1. j \in Nat /\ k \in Nat
        BY FoldTypes
    <2>2. j < k \/ k < j
        BY <2>1
    <2> QED
        BY <1>1, <2>2 DEF FoldOK
<1>4. \A x \in S : ~Older(st.lots[x], st.lots[x])
    BY <1>1 DEF Older
<1>5. \A x, y, z \in S :
          Older(st.lots[x], st.lots[y]) /\ Older(st.lots[y], st.lots[z]) => Older(st.lots[x], st.lots[z])
    BY <1>1 DEF Older
<1>6. \A x, y \in S : x # y => Older(st.lots[x], st.lots[y]) \/ Older(st.lots[y], st.lots[x])
    BY <1>1, <1>3 DEF Older
<1> QED
    BY <1>2, <1>4, <1>5, <1>6 DEF StrictOrder

(***************************************************************************)
(* Lot selection                                                           *)
(***************************************************************************)
\* What any selection of lots provides for the sale e: distinct open lots of its
\* symbol, no more of any than it has, and what is sold in all.
Fits(st, e, plan) ==
    /\ plan \in Seq(Nat \X Nat)
    /\ \A n \in DOMAIN plan :
           /\ plan[n][1] \in DOMAIN st.lots
           /\ ~st.lots[plan[n][1]].closed
           /\ st.lots[plan[n][1]].symbol = e.symbol
           /\ 0 < plan[n][2] /\ plan[n][2] <= st.lots[plan[n][1]].qty
    /\ \A m, n \in DOMAIN plan : plan[m][1] = plan[n][1] => m = n
    /\ SumFunction([n \in DOMAIN plan |-> plan[n][2]]) = e.qty

\* The fields of a payload, as PayloadsAssumption has them.
LEMMA SellTypes ==
    ASSUME NEW e \in Payloads, e.kind = "Sell"
    PROVE  /\ e.qty \in Int /\ e.price \in Int /\ e.date \in Int /\ e.fees \in Int
           /\ e.refs \in Seq([lot : STRING, qty : Int])
BY PayloadsAssumption

\* The pairs of a specific-lot sale are a plan that fits.
LEMMA SpecificFits ==
    ASSUME NEW st, NEW n, FoldOK(st, n), NEW e \in Payloads, e.kind = "Sell",
           SpecificVerdict(st, e) = "Ok"
    PROVE  Fits(st, e, SpecificPlan(st, e))
<1>1. e.refs \in Seq([lot : STRING, qty : Int])
    BY SellTypes
<1>2. /\ Len(e.refs) \in Nat /\ DOMAIN e.refs = 1..Len(e.refs)
      /\ \A j \in DOMAIN e.refs : e.refs[j].qty \in Int
    <2>1. \A j \in DOMAIN e.refs : e.refs[j] \in [lot : STRING, qty : Int]
        BY <1>1, ElementOfSeq, LenProperties
    <2> QED
        BY <1>1, <2>1
<1> DEFINE bad == {j \in DOMAIN e.refs : RefVerdict(st, e, j) # "Ok"}
<1>3. bad = {}
    <2> SUFFICES ASSUME bad # {} PROVE FALSE
        OBVIOUS
    <2>1. bad \subseteq Nat
        BY <1>2
    <2>2. Min(bad) \in bad
        <3> HIDE DEF bad
        <3> QED
            BY <2>1, LeastNumber DEF Min
    <2>3. SpecificVerdict(st, e) = RefVerdict(st, e, Min(bad))
        BY <2>2 DEF SpecificVerdict
    <2> QED
        BY <2>2, <2>3
<1>4. SumFunction([j \in DOMAIN e.refs |-> e.refs[j].qty]) = e.qty
    BY <1>3 DEF SpecificVerdict
<1>5. ASSUME NEW j \in DOMAIN e.refs
      PROVE  LET k == CHOOSE k \in LotIndex(st, e.refs[j].lot) : TRUE
             IN  /\ k \in DOMAIN st.lots /\ st.lots[k].id = e.refs[j].lot
                 /\ ~st.lots[k].closed /\ st.lots[k].symbol = e.symbol
                 /\ 0 < e.refs[j].qty /\ e.refs[j].qty <= st.lots[k].qty
                 /\ \A i \in 1..(j - 1) : e.refs[i].lot # e.refs[j].lot
    <2> DEFINE k == CHOOSE k \in LotIndex(st, e.refs[j].lot) : TRUE
    <2>1. RefVerdict(st, e, j) = "Ok"
        BY <1>3
    <2>2. LotIndex(st, e.refs[j].lot) # {}
        BY <2>1 DEF RefVerdict
    <2>3. k \in LotIndex(st, e.refs[j].lot)
        BY <2>2
    <2>4. k \in DOMAIN st.lots /\ st.lots[k].id = e.refs[j].lot
        BY <2>3 DEF LotIndex
    <2>5. st.lots[k].qty \in Int /\ e.refs[j].qty \in Int
        <3> HIDE DEF k
        <3> QED
            BY <1>2, <2>4, FoldTypes
    <2>6. /\ ~st.lots[k].closed /\ st.lots[k].symbol = e.symbol
          /\ ~(e.refs[j].qty <= 0) /\ ~(e.refs[j].qty > st.lots[k].qty)
          /\ ~\E i \in 1..(j - 1) : e.refs[i].lot = e.refs[j].lot
        BY <2>1 DEF RefVerdict
    <2> HIDE DEF k
    <2>7. 0 < e.refs[j].qty /\ e.refs[j].qty <= st.lots[k].qty
        BY <2>5, <2>6
    <2> QED
        BY <2>4, <2>6, <2>7 DEF k
<1> DEFINE plan == SpecificPlan(st, e)
<1>6. plan \in Seq(Nat \X Nat) /\ DOMAIN plan = DOMAIN e.refs
      /\ \A j \in DOMAIN plan :
             /\ plan[j][1] = CHOOSE k \in LotIndex(st, e.refs[j].lot) : TRUE
             /\ plan[j][2] = e.refs[j].qty
    <2>1. plan = [j \in 1..Len(e.refs) |->
                    <<CHOOSE k \in LotIndex(st, e.refs[j].lot) : TRUE, e.refs[j].qty>>]
        BY <1>2 DEF SpecificPlan
    <2>2. \A j \in 1..Len(e.refs) : plan[j] \in Nat \X Nat
        <3> SUFFICES ASSUME NEW j \in 1..Len(e.refs) PROVE plan[j] \in Nat \X Nat
            OBVIOUS
        <3> DEFINE k == CHOOSE k \in LotIndex(st, e.refs[j].lot) : TRUE
        <3>1. k \in DOMAIN st.lots /\ 0 < e.refs[j].qty /\ e.refs[j].qty \in Int
            BY <1>2, <1>5
        <3>2. plan[j] = <<k, e.refs[j].qty>>
            BY <2>1
        <3> HIDE DEF plan, k
        <3>3. k \in Nat
            BY <3>1, FoldTypes
        <3> QED
            BY <3>1, <3>2, <3>3
    <2>3. plan \in Seq(Nat \X Nat)
        <3>1. DOMAIN plan = 1..Len(e.refs) /\ plan = [j \in 1..Len(e.refs) |-> plan[j]]
            BY <2>1
        <3> HIDE DEF plan
        <3>2. plan \in [1..Len(e.refs) -> Nat \X Nat]
            BY <2>2, <3>1
        <3> QED
            BY <1>2, <3>2
    <2> QED
        BY <1>2, <2>1, <2>3
<1> HIDE DEF plan
<1>7. \A i, j \in DOMAIN plan : plan[i][1] = plan[j][1] => i = j
    <2>1. ASSUME NEW i \in DOMAIN plan, NEW j \in DOMAIN plan, plan[i][1] = plan[j][1], i < j
          PROVE  FALSE
        <3>1. st.lots[plan[i][1]].id = e.refs[i].lot /\ st.lots[plan[j][1]].id = e.refs[j].lot
            BY <1>5, <1>6
        <3>2. e.refs[i].lot = e.refs[j].lot
            BY <2>1, <3>1
        <3>3. i \in 1..(j - 1) /\ j \in DOMAIN e.refs
            BY <1>2, <1>6, <2>1
        <3> QED
            BY <1>5, <3>2, <3>3
    <2>2. \A i \in DOMAIN plan : i \in Int
        BY <1>2, <1>6
    <2> QED
        BY <2>1, <2>2
<1>8. [j \in DOMAIN plan |-> plan[j][2]] = [j \in DOMAIN e.refs |-> e.refs[j].qty]
    BY <1>6
<1>9. SumFunction([j \in DOMAIN plan |-> plan[j][2]]) = e.qty
    BY <1>4, <1>8
<1>10. \A j \in DOMAIN plan :
           /\ plan[j][1] \in DOMAIN st.lots
           /\ ~st.lots[plan[j][1]].closed
           /\ st.lots[plan[j][1]].symbol = e.symbol
           /\ 0 < plan[j][2] /\ plan[j][2] <= st.lots[plan[j][1]].qty
    BY <1>5, <1>6
<1>11. Fits(st, e, plan)
    BY <1>6, <1>7, <1>9, <1>10 DEF Fits
<1> QED
    BY <1>11 DEF plan

\* The quantity of a set of lots as a sum over one function of all lots.
Sizes(st) == [k \in DOMAIN st.lots |-> st.lots[k].qty]

\* A set of lots has a whole quantity, the sum over it.
LEMMA QtyIsSum ==
    ASSUME NEW st, NEW n, FoldOK(st, n), NEW K \in SUBSET DOMAIN st.lots
    PROVE  /\ IsFiniteSet(K) /\ QtyOf(st, K) \in Nat
           /\ QtyOf(st, K) = SumFunctionOnSet(Sizes(st), K)
<1>1. IsFiniteSet(K) /\ \A k \in DOMAIN st.lots : st.lots[k].qty \in Nat
    BY FoldTypes, FS_Subset
<1> DEFINE q == [k \in K |-> st.lots[k].qty]
           zero == [k \in K |-> 0]
<1>2. QtyOf(st, K) = SumFunctionOnSet(q, K)
    BY DEF QtyOf, SumFunction
<1>3. \A k \in K : q[k] \in Int /\ zero[k] \in Int /\ zero[k] <= q[k] /\ zero[k] = 0 /\ q[k] = Sizes(st)[k]
    BY <1>1 DEF Sizes
<1> HIDE DEF q, zero
<1>4. SumFunctionOnSet(q, K) = SumFunctionOnSet(Sizes(st), K)
    BY <1>1, <1>3, SumSame
<1>5. SumFunctionOnSet(zero, K) = 0 /\ SumFunctionOnSet(q, K) \in Int
    BY <1>1, <1>3, SumOfZeros, SumIsInt
<1>6. SumFunctionOnSet(zero, K) <= SumFunctionOnSet(q, K)
    BY <1>1, <1>3, SumMonotone
<1> QED
    BY <1>1, <1>2, <1>4, <1>5, <1>6

\* More lots have no less, and one lot more has its quantity more.
LEMMA QtyGrows ==
    ASSUME NEW st, NEW n, FoldOK(st, n), NEW K \in SUBSET DOMAIN st.lots
    PROVE  /\ QtyOf(st, {}) = 0
           /\ \A J \in SUBSET K : QtyOf(st, J) <= QtyOf(st, K)
           /\ \A k \in DOMAIN st.lots : k \notin K => QtyOf(st, K \cup {k}) = QtyOf(st, K) + st.lots[k].qty
<1>1. \A k \in DOMAIN st.lots : st.lots[k].qty \in Nat /\ Sizes(st)[k] = st.lots[k].qty
    BY FoldTypes DEF Sizes
<1>2. QtyOf(st, {}) = 0
    BY QtyIsSum, SumEmpty
<1>3. ASSUME NEW J \in SUBSET K PROVE QtyOf(st, J) <= QtyOf(st, K)
    <2>1. IsFiniteSet(J) /\ IsFiniteSet(K \ J) /\ J \cap (K \ J) = {} /\ J \cup (K \ J) = K
        BY QtyIsSum
    <2>2. \A k \in J \cup (K \ J) : Sizes(st)[k] \in Int
        BY <1>1
    <2>3. SumFunctionOnSet(Sizes(st), J \cup (K \ J))
              = SumFunctionOnSet(Sizes(st), J) + SumFunctionOnSet(Sizes(st), K \ J)
        BY <2>1, <2>2, SumDisjoint
    <2>4. /\ QtyOf(st, K) = SumFunctionOnSet(Sizes(st), J \cup (K \ J))
          /\ QtyOf(st, J) = SumFunctionOnSet(Sizes(st), J) /\ QtyOf(st, J) \in Nat
          /\ QtyOf(st, K \ J) = SumFunctionOnSet(Sizes(st), K \ J) /\ QtyOf(st, K \ J) \in Nat
        BY <2>1, QtyIsSum
    <2> QED
        BY <2>3, <2>4
<1>4. ASSUME NEW k \in DOMAIN st.lots, k \notin K
      PROVE  QtyOf(st, K \cup {k}) = QtyOf(st, K) + st.lots[k].qty
    <2>1. IsFiniteSet(K) /\ \A x \in K \cup {k} : Sizes(st)[x] \in Int
        BY <1>1, QtyIsSum
    <2>2. SumFunctionOnSet(Sizes(st), K \cup {k}) = Sizes(st)[k] + SumFunctionOnSet(Sizes(st), K)
        BY <1>4, <2>1, SumAdd
    <2>3. /\ QtyOf(st, K \cup {k}) = SumFunctionOnSet(Sizes(st), K \cup {k})
          /\ QtyOf(st, K) = SumFunctionOnSet(Sizes(st), K) /\ QtyOf(st, K) \in Nat
        BY QtyIsSum
    <2> QED
        BY <1>1, <2>2, <2>3
<1> QED
    BY <1>2, <1>3, <1>4

\* The candidates older than k, what is left to sell after them, and the ones
\* something is left for.
OlderOpen(st, e, k) == {j \in FifoCandidates(st, e) : Older(st.lots[j], st.lots[k])}
Need(st, e, k) == e.qty - QtyOf(st, OlderOpen(st, e, k))
Reached(st, e) == {k \in FifoCandidates(st, e) : Need(st, e, k) > 0}

\* A lot that is older than a reached one is reached, and gives all it has.
LEMMA OlderAreReached ==
    ASSUME NEW st, NEW n, FoldOK(st, n), NEW e \in Payloads, e.kind = "Sell",
           NEW k \in Reached(st, e), NEW j \in OlderOpen(st, e, k)
    PROVE  j \in Reached(st, e) /\ Need(st, e, j) > st.lots[j].qty
<1> DEFINE C == FifoCandidates(st, e)
           Before(x) == OlderOpen(st, e, x)
<1>1. C \in SUBSET DOMAIN st.lots /\ k \in C /\ j \in C /\ Need(st, e, k) > 0
    BY DEF FifoCandidates, Reached, OlderOpen
<1>2. StrictOrder(OlderPairs(st), C)
    BY <1>1, AgeIsOrder
<1>3. \A x, y \in C : <<x, y>> \in OlderPairs(st) <=> x \in Before(y)
    BY <1>1 DEF OlderPairs, OlderOpen
<1>4. Before(j) \cup {j} \in SUBSET Before(k) /\ j \notin Before(j)
    <2>1. \A x \in Before(j) : x \in C
        BY DEF OlderOpen
    <2> HIDE DEF C, Before
    <2> QED
        BY <1>1, <1>2, <1>3, <2>1 DEF StrictOrder, Before
<1>5. Before(j) \in SUBSET DOMAIN st.lots /\ Before(k) \in SUBSET DOMAIN st.lots /\ j \in DOMAIN st.lots
    BY <1>1 DEF OlderOpen
<1>6. /\ QtyOf(st, Before(j) \cup {j}) = QtyOf(st, Before(j)) + st.lots[j].qty
      /\ QtyOf(st, Before(j) \cup {j}) <= QtyOf(st, Before(k))
    BY <1>4, <1>5, QtyGrows
<1>7. QtyOf(st, Before(j)) \in Nat /\ QtyOf(st, Before(k)) \in Nat /\ st.lots[j].qty \in Nat /\ e.qty \in Int
    BY <1>5, QtyIsSum, FoldTypes, SellTypes
<1>8. Need(st, e, k) = e.qty - QtyOf(st, Before(k)) /\ Need(st, e, j) = e.qty - QtyOf(st, Before(j))
    BY DEF Need
<1> HIDE DEF Before
<1>9. Need(st, e, j) > st.lots[j].qty /\ Need(st, e, j) > 0
    BY <1>1, <1>6, <1>7, <1>8
<1> QED
    BY <1>1, <1>9 DEF Reached

\* What FifoPlan is: the reached lots one by one, the n-th with n - 1 older.
LEMMA FifoPlanForm ==
    ASSUME NEW st, NEW n, FoldOK(st, n), NEW e \in Payloads, e.kind = "Sell"
    PROVE  LET plan == FifoPlan(st, e)
               R == Reached(st, e)
           IN  /\ IsFiniteSet(R) /\ Cardinality(R) \in Nat /\ DOMAIN plan = 1..Cardinality(R)
               /\ plan \in Seq(Nat \X Nat)
               /\ \A i \in DOMAIN plan :
                      /\ plan[i][1] \in R
                      /\ Cardinality(OlderOpen(st, e, plan[i][1])) = i - 1
                      /\ plan[i][2] = IF st.lots[plan[i][1]].qty >= Need(st, e, plan[i][1])
                                      THEN Need(st, e, plan[i][1]) ELSE st.lots[plan[i][1]].qty
               /\ \A i, j \in DOMAIN plan : plan[i][1] = plan[j][1] => i = j
               /\ \A k \in R : \E i \in DOMAIN plan : plan[i][1] = k
<1> DEFINE C == FifoCandidates(st, e)
           R == Reached(st, e)
           Before(k) == OlderOpen(st, e, k)
           At(i) == CHOOSE k \in R : Cardinality(Before(k)) = i - 1
           Take(k) == IF st.lots[k].qty >= Need(st, e, k) THEN Need(st, e, k) ELSE st.lots[k].qty
           plan == FifoPlan(st, e)
<1>1. plan = [i \in 1..Cardinality(R) |-> <<At(i), Take(At(i))>>]
    BY DEF FifoPlan, OlderOpen, Need, Reached
<1>2. R \in SUBSET DOMAIN st.lots /\ R \subseteq C /\ IsFiniteSet(R) /\ Cardinality(R) \in Nat
    BY FoldTypes, FS_Subset, FS_CardinalityType DEF Reached, FifoCandidates
<1>3. StrictOrder(OlderPairs(st), R)
    BY <1>2, AgeIsOrder
<1>4. \A k \in R : Before(k) = Ahead(OlderPairs(st), R, k)
    <2> SUFFICES ASSUME NEW k \in R, NEW j PROVE j \in Before(k) <=> j \in Ahead(OlderPairs(st), R, k)
        OBVIOUS
    <2>1. j \in Before(k) => j \in R
        BY OlderAreReached
    <2>2. \A x, y \in R : <<x, y>> \in OlderPairs(st) <=> Older(st.lots[x], st.lots[y])
        BY <1>2 DEF OlderPairs
    <2> QED
        BY <1>2, <2>1, <2>2 DEF OlderOpen, Ahead
<1>5. /\ \A k \in R : Cardinality(Before(k)) \in 0..(Cardinality(R) - 1)
      /\ \A j, k \in R : Cardinality(Before(j)) = Cardinality(Before(k)) => j = k
      /\ \A r \in 0..(Cardinality(R) - 1) : \E k \in R : Cardinality(Before(k)) = r
    <2>1. /\ \A k \in R : Cardinality(Ahead(OlderPairs(st), R, k)) \in 0..(Cardinality(R) - 1)
          /\ \A j, k \in R : Cardinality(Ahead(OlderPairs(st), R, j)) = Cardinality(Ahead(OlderPairs(st), R, k)) => j = k
          /\ \A r \in 0..(Cardinality(R) - 1) : \E k \in R : Cardinality(Ahead(OlderPairs(st), R, k)) = r
        BY <1>2, <1>3, RanksAreDense
    <2> HIDE DEF R, Before
    <2> QED
        BY <1>4, <2>1
<1>6. ASSUME NEW i \in 1..Cardinality(R) PROVE At(i) \in R /\ Cardinality(Before(At(i))) = i - 1
    <2>1. i - 1 \in 0..(Cardinality(R) - 1)
        BY <1>2
    <2>2. \E k \in R : Cardinality(Before(k)) = i - 1
        BY <1>5, <2>1
    <2> HIDE DEF R, Before
    <2> QED
        BY <2>2
<1>7. ASSUME NEW k \in R PROVE k \in Nat /\ Take(k) \in Nat
    <2>1. k \in Nat /\ st.lots[k].qty \in Nat /\ Need(st, e, k) > 0 /\ e.qty \in Int
        BY <1>2, FoldTypes, SellTypes DEF Reached
    <2>2. QtyOf(st, OlderOpen(st, e, k)) \in Nat
        BY QtyIsSum DEF OlderOpen, FifoCandidates
    <2>3. Need(st, e, k) \in Int
        BY <2>1, <2>2 DEF Need
    <2> QED
        BY <2>1, <2>3
<1> HIDE DEF At, Take, R, Before, plan
<1>8. DOMAIN plan = 1..Cardinality(R)
    BY <1>1
<1>9. \A i \in DOMAIN plan : plan[i] = <<At(i), Take(At(i))>> /\ plan[i][1] = At(i) /\ plan[i][2] = Take(At(i))
    BY <1>1
<1>10. plan \in Seq(Nat \X Nat)
    <2>1. plan \in [1..Cardinality(R) -> Nat \X Nat]
        BY <1>1, <1>6, <1>7
    <2> QED
        BY <1>2, <2>1
<1>11. \A i, j \in DOMAIN plan : plan[i][1] = plan[j][1] => i = j
    <2> SUFFICES ASSUME NEW i \in DOMAIN plan, NEW j \in DOMAIN plan, plan[i][1] = plan[j][1] PROVE i = j
        OBVIOUS
    <2>1. At(i) = At(j) /\ i \in Int /\ j \in Int /\ i - 1 = j - 1
        BY <1>6, <1>8, <1>9
    <2> QED
        BY <2>1
<1>12. ASSUME NEW k \in R PROVE \E i \in DOMAIN plan : plan[i][1] = k
    <2> DEFINE i == Cardinality(Before(k)) + 1
    <2>1. i \in 1..Cardinality(R) /\ i - 1 = Cardinality(Before(k))
        BY <1>2, <1>5
    <2> HIDE DEF i
    <2>2. At(i) = k
        BY <1>5, <1>6, <2>1
    <2> QED
        BY <1>8, <1>9, <2>1, <2>2
<1> QED
    BY <1>2, <1>6, <1>8, <1>9, <1>10, <1>11, <1>12 DEF R, Before, plan, Take

\* A FIFO sale for which there are enough shares takes just what it sells.
LEMMA FifoFits ==
    ASSUME NEW st, NEW n, FoldOK(st, n), NEW e \in Payloads, e.kind = "Sell", e.qty > 0,
           QtyOf(st, FifoCandidates(st, e)) >= e.qty
    PROVE  Fits(st, e, FifoPlan(st, e))
<1> DEFINE C == FifoCandidates(st, e)
           R == Reached(st, e)
           Before(k) == OlderOpen(st, e, k)
           plan == FifoPlan(st, e)
           b == [i \in DOMAIN plan |-> plan[i][1]]
           takes == [i \in DOMAIN plan |-> plan[i][2]]
           taken == [k \in R |-> IF st.lots[k].qty >= Need(st, e, k) THEN Need(st, e, k)
                                 ELSE st.lots[k].qty]
<1>1. /\ IsFiniteSet(R) /\ Cardinality(R) \in Nat /\ DOMAIN plan = 1..Cardinality(R)
      /\ plan \in Seq(Nat \X Nat)
      /\ \A i \in DOMAIN plan :
             /\ plan[i][1] \in R
             /\ Cardinality(Before(plan[i][1])) = i - 1
             /\ plan[i][2] = IF st.lots[plan[i][1]].qty >= Need(st, e, plan[i][1])
                             THEN Need(st, e, plan[i][1]) ELSE st.lots[plan[i][1]].qty
      /\ \A i, j \in DOMAIN plan : plan[i][1] = plan[j][1] => i = j
      /\ \A k \in R : \E i \in DOMAIN plan : plan[i][1] = k
    BY FifoPlanForm
<1>2. R \in SUBSET C /\ C \in SUBSET DOMAIN st.lots
      /\ \A k \in C : /\ ~st.lots[k].closed /\ st.lots[k].symbol = e.symbol
                      /\ st.lots[k].qty \in Nat /\ st.lots[k].qty > 0
                      /\ Before(k) \in SUBSET C
    BY FoldTypes DEF Reached, FifoCandidates, OlderOpen
<1>3. e.qty \in Int
    BY SellTypes
<1>4. \A k \in C : Need(st, e, k) \in Int /\ Need(st, e, k) = e.qty - QtyOf(st, Before(k))
                   /\ (k \in R <=> Need(st, e, k) > 0) /\ QtyOf(st, Before(k)) \in Nat
    <2> SUFFICES ASSUME NEW k \in C
                 PROVE  /\ Need(st, e, k) \in Int /\ Need(st, e, k) = e.qty - QtyOf(st, Before(k))
                        /\ (k \in R <=> Need(st, e, k) > 0) /\ QtyOf(st, Before(k)) \in Nat
        OBVIOUS
    <2>1. QtyOf(st, Before(k)) \in Nat
        BY <1>2, QtyIsSum
    <2>2. Need(st, e, k) = e.qty - QtyOf(st, Before(k))
        BY DEF Need
    <2>3. k \in R <=> Need(st, e, k) > 0
        BY DEF Reached
    <2> HIDE DEF Before, R, C
    <2> QED
        BY <1>3, <2>1, <2>2, <2>3
<1>5. StrictOrder(OlderPairs(st), R) /\ StrictOrder(OlderPairs(st), C)
    BY <1>2, AgeIsOrder
<1>6. \A j, k \in C : <<j, k>> \in OlderPairs(st) <=> j \in Before(k)
    BY <1>2 DEF OlderPairs, OlderOpen
\* Unless all the lots are reached, the oldest of the others has only reached ones
\* before it.
<1>7. QtyOf(st, R) >= e.qty
    <2>1. CASE R = C
        BY <2>1
    <2>2. CASE R # C
        <3>1. C \ R # {} /\ C \ R \in SUBSET DOMAIN st.lots /\ IsFiniteSet(C \ R)
            BY <1>2, <2>2, QtyIsSum
        <3>2. StrictOrder(OlderPairs(st), C \ R)
            BY <3>1, AgeIsOrder
        <3>3. \E z \in C \ R : Cardinality(Ahead(OlderPairs(st), C \ R, z)) = 0
            <4>1. Cardinality(C \ R) \in Nat /\ Cardinality(C \ R) # 0
                BY <3>1, FS_CardinalityType, FS_EmptySet
            <4>2. 0 \in 0..(Cardinality(C \ R) - 1)
                BY <4>1
            <4> HIDE DEF C, R
            <4> QED
                BY <3>1, <3>2, <4>2, RanksAreDense
        <3>4. PICK z \in C \ R : Ahead(OlderPairs(st), C \ R, z) = {}
            <4>1. \A z : Ahead(OlderPairs(st), C \ R, z) \in SUBSET (C \ R)
                BY DEF Ahead
            <4>2. \A z : IsFiniteSet(Ahead(OlderPairs(st), C \ R, z))
                BY <3>1, <4>1, FS_Subset
            <4> HIDE DEF C, R
            <4> QED
                BY <3>3, <4>2, FS_EmptySet
        <3>5. Before(z) \in SUBSET R
            <4> SUFFICES ASSUME NEW j \in Before(z), j \notin R PROVE FALSE
                OBVIOUS
            <4>1. j \in C /\ <<j, z>> \in OlderPairs(st)
                BY <1>2, <1>6
            <4> HIDE DEF C, R, Before
            <4> QED
                BY <3>4, <4>1 DEF Ahead
        <3>6. QtyOf(st, Before(z)) <= QtyOf(st, R)
            BY <1>2, <3>5, QtyGrows
        <3>7. QtyOf(st, R) \in Nat
            BY <1>2, QtyIsSum
        <3> HIDE DEF C, R, Before
        <3>8. z \in C /\ z \notin R
            OBVIOUS
        <3>9. QtyOf(st, Before(z)) \in Nat /\ ~(e.qty - QtyOf(st, Before(z)) > 0)
            BY <1>4, <3>8
        <3> QED
            BY <1>3, <3>6, <3>7, <3>9
    <2> QED
        BY <2>1, <2>2
\* The last of the reached lots is the only one that may keep shares.
<1>8. R # {}
    <2>1. QtyOf(st, {}) = 0
        BY QtyGrows
    <2> HIDE DEF R
    <2> QED
        BY <1>3, <1>7, <2>1
<1>9. PICK z \in R : Before(z) = R \ {z}
    <2>1. Cardinality(R) \in Nat /\ Cardinality(R) # 0
        BY <1>1, <1>8, FS_EmptySet
    <2>2. PICK i \in DOMAIN plan : i = Cardinality(R)
        BY <1>1, <2>1
    <2>3. PICK z \in R : Cardinality(Before(z)) = Cardinality(R) - 1
        BY <1>1, <2>2
    <2>4. Before(z) \in SUBSET (R \ {z})
        <3>1. \A j \in Before(z) : j \in R
            BY <2>3, OlderAreReached
        <3>2. z \notin Before(z)
            <4>1. z \in C /\ <<z, z>> \notin OlderPairs(st)
                BY <1>2, <1>5 DEF StrictOrder
            <4> HIDE DEF Before, C, R
            <4> QED
                BY <1>6, <4>1
        <3> QED
            BY <3>1, <3>2
    <2> HIDE DEF R, Before, plan, C
    <2>5. IsFiniteSet(R \ {z}) /\ Cardinality(R \ {z}) = Cardinality(R) - 1
        BY <1>1, <2>3, FS_RemoveElement
    <2>6. Before(z) = R \ {z}
        BY <2>3, <2>4, <2>5, FS_Subset
    <2> QED
        BY <2>3, <2>6
<1>10. QtyOf(st, R) = QtyOf(st, Before(z)) + st.lots[z].qty
    <2>1. Before(z) \in SUBSET DOMAIN st.lots /\ z \in DOMAIN st.lots /\ z \notin Before(z)
          /\ Before(z) \cup {z} = R
        BY <1>2, <1>9
    <2>2. QtyOf(st, Before(z) \cup {z}) = QtyOf(st, Before(z)) + st.lots[z].qty
        BY <2>1, QtyGrows
    <2> QED
        BY <2>1, <2>2
<1>11. taken[z] = Need(st, e, z)
    <2>1. QtyOf(st, Before(z)) \in Nat /\ st.lots[z].qty \in Nat /\ Need(st, e, z) = e.qty - QtyOf(st, Before(z))
        BY <1>2, <1>4, <1>9
    <2>2. st.lots[z].qty >= Need(st, e, z)
        <3> HIDE DEF Before, R
        <3> QED
            BY <1>3, <1>7, <1>10, <2>1
    <2> QED
        BY <2>2
<1>12. \A k \in R \ {z} : taken[k] = st.lots[k].qty
    <2> SUFFICES ASSUME NEW k \in R, k # z PROVE taken[k] = st.lots[k].qty
        OBVIOUS
    <2>1. k \in OlderOpen(st, e, z)
        BY <1>9
    <2>2. Need(st, e, k) > st.lots[k].qty
        BY <1>9, <2>1, OlderAreReached
    <2>3. Need(st, e, k) \in Int /\ st.lots[k].qty \in Nat
        BY <1>2, <1>4
    <2>4. ~(st.lots[k].qty >= Need(st, e, k))
        BY <2>2, <2>3
    <2> QED
        BY <2>4
<1>13. \A k \in R : taken[k] \in Nat /\ 0 < taken[k] /\ taken[k] <= st.lots[k].qty
    <2> SUFFICES ASSUME NEW k \in R
                 PROVE  taken[k] \in Nat /\ 0 < taken[k] /\ taken[k] <= st.lots[k].qty
        OBVIOUS
    <2>1. st.lots[k].qty \in Nat /\ 0 < st.lots[k].qty /\ Need(st, e, k) \in Int /\ 0 < Need(st, e, k)
        BY <1>2, <1>4
    <2>2. taken[k] = IF st.lots[k].qty >= Need(st, e, k) THEN Need(st, e, k) ELSE st.lots[k].qty
        OBVIOUS
    <2> HIDE DEF taken
    <2> QED
        BY <2>1, <2>2
<1>14. \A i \in DOMAIN plan : b[i] = plan[i][1] /\ takes[i] = plan[i][2] /\ takes[i] = taken[b[i]]
    BY <1>1
<1>15. b \in Bijection(DOMAIN plan, R)
    <2>1. b \in [DOMAIN plan -> R]
        BY <1>1
    <2> HIDE DEF b, R, plan, taken, takes
    <2> QED
        <3>1. \A i, j \in DOMAIN plan : b[i] = b[j] => i = j
            BY <1>1, <1>14
        <3>2. ASSUME NEW k \in R PROVE \E i \in DOMAIN plan : b[i] = k
            <4>1. PICK i \in DOMAIN plan : plan[i][1] = k
                BY <1>1
            <4>2. b[i] = k
                BY <1>14, <4>1
            <4> QED
                BY <4>2
        <3> QED
            BY <2>1, <3>1, <3>2 DEF Bijection, Injection, Surjection, IsInjective
<1> HIDE DEF plan, taken, takes, b, R, C, Before
<1>16. SumFunctionOnSet(takes, DOMAIN plan) = SumFunctionOnSet(taken, R)
    <2>1. IsFiniteSet(DOMAIN plan)
        BY <1>1, FS_Interval
    <2>2. \A i \in DOMAIN plan : takes[i] \in Int /\ takes[i] = taken[b[i]]
        BY <1>1, <1>13, <1>14
    <2> QED
        BY <1>15, <2>1, <2>2, SumReindexed
<1>17. SumFunctionOnSet(taken, R) = taken[z] + SumFunctionOnSet(taken, R \ {z})
    <2>1. IsFiniteSet(R) /\ \A k \in R : taken[k] \in Int
        BY <1>1, <1>13
    <2> QED
        BY <2>1, SumTakeOut
<1>18. SumFunctionOnSet(taken, R \ {z}) = QtyOf(st, R \ {z})
    <2>1. IsFiniteSet(R \ {z}) /\ R \ {z} \in SUBSET DOMAIN st.lots
        BY <1>1, <1>2, FS_RemoveElement
    <2>2. \A k \in R \ {z} : taken[k] = Sizes(st)[k]
        BY <1>12, <2>1 DEF Sizes
    <2>3. SumFunctionOnSet(taken, R \ {z}) = SumFunctionOnSet(Sizes(st), R \ {z})
        BY <2>1, <2>2, SumSame
    <2> QED
        BY <2>1, <2>3, QtyIsSum
<1>19. SumFunctionOnSet(takes, DOMAIN plan) = e.qty
    <2>1. QtyOf(st, Before(z)) \in Nat /\ Need(st, e, z) = e.qty - QtyOf(st, Before(z))
        BY <1>2, <1>4
    <2>2. QtyOf(st, R \ {z}) = QtyOf(st, Before(z))
        BY <1>9
    <2> QED
        BY <1>3, <1>11, <1>16, <1>17, <1>18, <2>1, <2>2
<1>20. SumFunction(takes) = e.qty
    BY <1>19 DEF SumFunction, takes
<1>21. \A i \in DOMAIN plan :
           /\ plan[i][1] \in DOMAIN st.lots
           /\ ~st.lots[plan[i][1]].closed
           /\ st.lots[plan[i][1]].symbol = e.symbol
           /\ 0 < plan[i][2] /\ plan[i][2] <= st.lots[plan[i][1]].qty
    <2> SUFFICES ASSUME NEW i \in DOMAIN plan
                 PROVE  /\ plan[i][1] \in DOMAIN st.lots
                        /\ ~st.lots[plan[i][1]].closed
                        /\ st.lots[plan[i][1]].symbol = e.symbol
                        /\ 0 < plan[i][2] /\ plan[i][2] <= st.lots[plan[i][1]].qty
        OBVIOUS
    <2>1. plan[i][1] \in R /\ plan[i][2] = taken[plan[i][1]]
        BY <1>1, <1>14
    <2> QED
        BY <1>2, <1>13, <2>1
<1>22. Fits(st, e, plan)
    BY <1>1, <1>20, <1>21 DEF Fits, takes
<1> QED
    BY <1>22 DEF plan

\* Every selection that passes the check fits the sale.
LEMMA SelectionFits ==
    ASSUME NEW st, NEW n, FoldOK(st, n), NEW e \in Payloads, e.kind = "Sell",
           SellVerdict(st, e) = "Ok"
    PROVE  e.qty > 0 /\ Fits(st, e, SelectLots(st, e))
<1>1. ~(e.qty <= 0) /\ SelectVerdict(st, e) = "Ok"
    BY DEF SellVerdict
<1>2. e.qty > 0 /\ e.qty \in Int
    BY <1>1, SellTypes
<1>3. CASE e.refs # <<>>
    BY <1>1, <1>2, <1>3, SpecificFits DEF SelectVerdict, SelectLots
<1>4. CASE e.refs = <<>>
    <2>1. ~(QtyOf(st, FifoCandidates(st, e)) < e.qty)
        BY <1>1, <1>4 DEF SelectVerdict
    <2>2. QtyOf(st, FifoCandidates(st, e)) \in Nat
        BY QtyIsSum DEF FifoCandidates
    <2>3. QtyOf(st, FifoCandidates(st, e)) >= e.qty
        BY <1>2, <2>1, <2>2
    <2> QED
        BY <1>2, <1>4, <2>3, FifoFits DEF SelectLots
<1> QED
    BY <1>3, <1>4

\* A product and its factor have the same sign, and are as large as each other.
LEMMA QuotientRange ==
    ASSUME NEW t \in Int, t > 0, NEW r \in Int, NEW d \in Int, 0 <= t * r, t * r <= t * d
    PROVE  0 <= r /\ r <= d
<1>1. ASSUME r < 0 PROVE FALSE
    <2>1. t * r <= -t
        BY <1>1
    <2> QED
        BY <2>1
<1>2. ASSUME r > d PROVE FALSE
    <2>1. t * r >= t * d + t
        BY <1>2
    <2> QED
        BY <2>1
<1> QED
    BY <1>1, <1>2

\* The largest remainder first, the first in another order of equals, is an order.
LEMMA RemaindersOrder ==
    ASSUME NEW D, NEW rems, \A i \in D : rems[i] \in Int, NEW tie, StrictOrder(tie, D), NEW order,
           \A i, j \in D : <<i, j>> \in order <=> rems[i] > rems[j] \/ (rems[i] = rems[j] /\ <<i, j>> \in tie)
    PROVE  StrictOrder(order, D)
<1> DEFINE A(i, j) == <<i, j>> \in tie
<1>1. \A i, j \in D : <<i, j>> \in order <=> rems[i] > rems[j] \/ (rems[i] = rems[j] /\ A(i, j))
    OBVIOUS
<1>2. /\ \A i \in D : ~A(i, i)
      /\ \A i, j, k \in D : A(i, j) /\ A(j, k) => A(i, k)
      /\ \A i, j \in D : i # j => A(i, j) \/ A(j, i)
    BY DEF StrictOrder
<1>3. \A i \in D : rems[i] \in Int
    OBVIOUS
<1> HIDE DEF A
<1>4. \A i \in D : <<i, i>> \notin order
    BY <1>1, <1>2, <1>3
<1>5. \A i, j, k \in D : <<i, j>> \in order /\ <<j, k>> \in order => <<i, k>> \in order
    <2> SUFFICES ASSUME NEW i \in D, NEW j \in D, NEW k \in D, <<i, j>> \in order, <<j, k>> \in order
                 PROVE  rems[i] > rems[k] \/ (rems[i] = rems[k] /\ A(i, k))
        BY <1>1
    <2>1. rems[i] > rems[j] \/ (rems[i] = rems[j] /\ A(i, j))
        BY <1>1
    <2>2. rems[j] > rems[k] \/ (rems[j] = rems[k] /\ A(j, k))
        BY <1>1
    <2>3. A(i, j) /\ A(j, k) => A(i, k)
        BY <1>2
    <2>4. rems[i] \in Int /\ rems[j] \in Int /\ rems[k] \in Int
        BY <1>3
    <2>5. rems[i] > rems[k] \/ (rems[i] = rems[k] /\ rems[i] = rems[j] /\ rems[j] = rems[k])
        BY <2>1, <2>2, <2>4
    <2>6. CASE rems[i] > rems[k]
        BY <2>6
    <2>7. CASE rems[i] = rems[k] /\ rems[i] = rems[j] /\ rems[j] = rems[k]
        <3>1. A(i, j) /\ A(j, k)
            BY <2>1, <2>2, <2>4, <2>7
        <3> QED
            BY <2>3, <2>7, <3>1
    <2> QED
        BY <2>5, <2>6, <2>7
<1>6. \A i, j \in D : i # j => <<i, j>> \in order \/ <<j, i>> \in order
    <2> SUFFICES ASSUME NEW i \in D, NEW j \in D, i # j PROVE <<i, j>> \in order \/ <<j, i>> \in order
        OBVIOUS
    <2>1. rems[i] > rems[j] \/ rems[j] > rems[i] \/ (rems[i] = rems[j] /\ rems[j] = rems[i])
        BY <1>3
    <2> QED
        BY <1>1, <1>2, <2>1
<1> QED
    BY <1>4, <1>5, <1>6 DEF StrictOrder

\* The quotients and remainders of net times each part by the total of the parts.
Quotients(D, net, total, parts, floors, rems) ==
    \A k \in D : /\ parts[k] \in Int /\ floors[k] \in Int /\ rems[k] \in Int
                 /\ net * parts[k] = total * floors[k] + rems[k]
                 /\ 0 <= rems[k] /\ rems[k] < total

\* One more than the quotient for the first in the order, as many as net has left.
RaisedFirst(D, net, floors, order, shares) ==
    \A k \in D : shares[k] = IF Cardinality(Ahead(order, D, k)) < net - SumFunctionOnSet(floors, D)
                             THEN floors[k] + 1 ELSE floors[k]

\* Such shares add up to net.
LEMMA SharesAddUp ==
    ASSUME NEW D, IsFiniteSet(D), NEW net \in Int, NEW total \in Int, total > 0,
           NEW parts, SumFunctionOnSet(parts, D) = total,
           NEW floors, NEW rems, Quotients(D, net, total, parts, floors, rems),
           NEW order, StrictOrder(order, D),
           NEW shares, RaisedFirst(D, net, floors, order, shares)
    PROVE  (\A k \in D : shares[k] \in Int) /\ SumFunctionOnSet(shares, D) = net
<1> DEFINE products == [k \in D |-> net * parts[k]]
           residual == net - SumFunctionOnSet(floors, D)
           extra == [k \in D |-> IF Cardinality(Ahead(order, D, k)) < residual THEN 1 ELSE 0]
<1>1. IsFiniteSet(D) /\ SumFunctionOnSet(parts, D) = total
    OBVIOUS
<1>2. \A k \in D :
          /\ floors[k] \in Int /\ rems[k] \in Int /\ products[k] \in Int /\ parts[k] \in Int
          /\ products[k] = total * floors[k] + 1 * rems[k]
          /\ products[k] = net * parts[k] + 0 * parts[k]
          /\ 0 <= rems[k] /\ rems[k] < total
    <2> SUFFICES ASSUME NEW k \in D
                 PROVE  /\ products[k] \in Int
                        /\ products[k] = total * floors[k] + 1 * rems[k]
                        /\ products[k] = net * parts[k] + 0 * parts[k]
        BY DEF Quotients
    <2>1. products[k] = net * parts[k] /\ parts[k] \in Int /\ floors[k] \in Int /\ rems[k] \in Int
          /\ net * parts[k] = total * floors[k] + rems[k]
        BY DEF Quotients
    <2>2. \A a, b, q, r, t \in Int : a * b = t * q + r =>
              a * b \in Int /\ a * b = t * q + 1 * r /\ a * b = a * b + 0 * b
        OBVIOUS
    <2> HIDE DEF products
    <2> QED
        BY <2>1, <2>2
<1>3. \A k \in D : shares[k] = IF Cardinality(Ahead(order, D, k)) < residual THEN floors[k] + 1 ELSE floors[k]
    BY DEF RaisedFirst
<1>4. StrictOrder(order, D)
    OBVIOUS
<1>t. total \in Int /\ total > 0
    OBVIOUS
<1> HIDE DEF products, extra
\* The remainders add up to what the floors leave, in whole units.
<1>5. /\ SumFunctionOnSet(floors, D) \in Int /\ SumFunctionOnSet(rems, D) \in Int
      /\ SumFunctionOnSet(products, D) = total * SumFunctionOnSet(floors, D) + 1 * SumFunctionOnSet(rems, D)
      /\ SumFunctionOnSet(products, D) = net * total + 0 * total
    <2>1. SumFunctionOnSet(products, D) = total * SumFunctionOnSet(floors, D) + 1 * SumFunctionOnSet(rems, D)
        <3> DEFINE one == 1
        <3>1. \A k \in D : floors[k] \in Int /\ rems[k] \in Int /\ products[k] = total * floors[k] + one * rems[k]
            BY <1>2
        <3>2. IsFiniteSet(D) /\ one \in Int /\ total \in Int
            BY <1>1
        <3> HIDE DEF one
        <3>3. SumFunctionOnSet(products, D)
                  = total * SumFunctionOnSet(floors, D) + one * SumFunctionOnSet(rems, D)
            BY ONLY <3>1, <3>2, SumLinear
        <3> QED
            BY ONLY <3>3 DEF one
    <2>2. SumFunctionOnSet(products, D) = net * SumFunctionOnSet(parts, D) + 0 * SumFunctionOnSet(parts, D)
        <3> DEFINE zero == 0
        <3>1. \A k \in D : parts[k] \in Int /\ parts[k] \in Int /\ products[k] = net * parts[k] + zero * parts[k]
            BY <1>2
        <3>2. IsFiniteSet(D) /\ zero \in Int /\ net \in Int
            BY <1>1
        <3> HIDE DEF zero
        <3>3. SumFunctionOnSet(products, D)
                  = net * SumFunctionOnSet(parts, D) + zero * SumFunctionOnSet(parts, D)
            BY ONLY <3>1, <3>2, SumLinear
        <3> QED
            BY ONLY <3>3 DEF zero
    <2>3. SumFunctionOnSet(floors, D) \in Int
        BY <1>1, <1>2, SumIsInt
    <2>4. SumFunctionOnSet(rems, D) \in Int
        BY <1>1, <1>2, SumIsInt
    <2> QED
        BY <1>1, <2>1, <2>2, <2>3, <2>4
<1>6. residual \in 0..Cardinality(D)
    <2> DEFINE ones == [k \in D |-> 1]
               totals == [k \in D |-> total]
               zeros == [k \in D |-> 0]
    <2>1. /\ SumFunctionOnSet(ones, D) = Cardinality(D) /\ Cardinality(D) \in Nat
          /\ SumFunctionOnSet(zeros, D) = 0
        BY <1>1, SumOfOnes, SumOfZeros, FS_CardinalityType
    <2>2. SumFunctionOnSet(totals, D) = total * SumFunctionOnSet(ones, D) + 0 * SumFunctionOnSet(ones, D)
        <3>1. \A k \in D : ones[k] \in Int /\ totals[k] = total * ones[k] + 0 * ones[k]
            BY <1>t
        <3>2. IsFiniteSet(D) /\ 0 \in Int
            BY <1>1
        <3> HIDE DEF ones, totals
        <3> QED
            BY ONLY <1>t, <3>1, <3>2, SumLinear
    <2>3. SumFunctionOnSet(zeros, D) <= SumFunctionOnSet(rems, D) /\ SumFunctionOnSet(rems, D) <= SumFunctionOnSet(totals, D)
        <3>1. \A k \in D : zeros[k] \in Int /\ rems[k] \in Int /\ totals[k] \in Int
                           /\ zeros[k] <= rems[k] /\ rems[k] <= totals[k]
            BY <1>2, <1>t
        <3> HIDE DEF zeros, totals
        <3> QED
            BY <1>1, <3>1, SumMonotone
    <2> HIDE DEF ones, totals, zeros
    <2> DEFINE F == SumFunctionOnSet(floors, D)
               G == SumFunctionOnSet(rems, D)
               c == Cardinality(D)
    <2>4. F \in Int /\ G \in Int /\ c \in Nat /\ 0 <= G /\ G <= total * c + 0 * c /\ residual = net - F
          /\ total * F + 1 * G = net * total + 0 * total
        BY <1>5, <2>1, <2>2, <2>3
    <2> HIDE DEF F, G, c, residual
    <2>5. /\ net - F \in Int /\ c \in Int /\ total * (net - F) = G
          /\ 0 <= total * (net - F) /\ total * (net - F) <= total * c
        <3>1. \A t, p, q, r, u \in Int : t * p + 1 * q = r * t + 0 * t /\ q <= t * u + 0 * u
                  => t * (r - p) = q /\ q <= t * u
            OBVIOUS
        <3>2. net - F \in Int /\ c \in Int
            BY <2>4
        <3>3. total * (net - F) = G /\ G <= total * c
            BY <1>t, <2>4, <3>1, <3>2
        <3> QED
            BY <2>4, <3>2, <3>3
    <2>8. 0 <= net - F /\ net - F <= c
        BY ONLY <1>t, <2>5, QuotientRange
    <2>9. residual \in 0..c
        BY <2>4, <2>8
    <2> QED
        BY <2>9 DEF c
<1>7. SumFunctionOnSet(extra, D) = residual
    <2> DEFINE T == {k \in D : Cardinality(Ahead(order, D, k)) < residual}
    <2>1. Cardinality(T) = residual
        <3>1. IsFiniteSet(D)
            BY <1>1
        <3> HIDE DEF residual
        <3> QED
            BY ONLY <1>4, <1>6, <3>1, FirstRanks DEF T
    <2>2. (\A k \in D : extra[k] \in Int) /\ (\A k \in T : extra[k] = 1) /\ (\A k \in D \ T : extra[k] = 0)
        BY DEF extra
    <2>3. T \in SUBSET D
        OBVIOUS
    <2> HIDE DEF T, residual
    <2>4. SumFunctionOnSet(extra, D) = SumFunctionOnSet(extra, T)
        <3>1. IsFiniteSet(D)
            BY <1>1
        <3> QED
            BY ONLY <2>2, <2>3, <3>1, SumSupport
    <2>5. IsFiniteSet(T)
        BY <1>1, <2>3, FS_Subset
    <2>6. SumFunctionOnSet(extra, T) = Cardinality(T)
        BY <2>2, <2>5, SumOfOnes
    <2> QED
        BY <2>1, <2>4, <2>6
<1>8. \A k \in D : extra[k] \in Int /\ shares[k] \in Int /\ shares[k] = 1 * floors[k] + 1 * extra[k]
    <2>1. \A k \in D : floors[k] \in Int /\ extra[k] = IF Cardinality(Ahead(order, D, k)) < residual THEN 1 ELSE 0
        BY <1>2 DEF extra
    <2> HIDE DEF residual
    <2> QED
        BY <1>3, <2>1
<1>9. SumFunctionOnSet(shares, D) = 1 * SumFunctionOnSet(floors, D) + 1 * SumFunctionOnSet(extra, D)
    <2>1. \A k \in D : floors[k] \in Int /\ extra[k] \in Int /\ shares[k] = 1 * floors[k] + 1 * extra[k]
        BY <1>2, <1>8
    <2>2. IsFiniteSet(D) /\ 1 \in Int
        BY <1>1
    <2> QED
        BY ONLY <2>1, <2>2, SumLinear
<1>10. SumFunctionOnSet(shares, D) = net
    <2> DEFINE F == SumFunctionOnSet(floors, D)
    <2>1. F \in Int /\ SumFunctionOnSet(extra, D) = net - F /\ SumFunctionOnSet(shares, D) = 1 * F + 1 * (net - F)
        BY <1>5, <1>7, <1>9
    <2> HIDE DEF F
    <2> QED
        BY <2>1
<1> QED
    BY <1>8, <1>10

\* Largest remainder: the shares of the lots of a sale add up to its net proceeds,
\* whatever their remainders and whatever its sign.
THEOREM ProceedsAddUp ==
    ASSUME NEW st, NEW n, FoldOK(st, n), NEW e, e.qty \in Int, e.qty > 0, NEW plan, Fits(st, e, plan),
           NEW net \in Int
    PROVE  LET proceeds == AllocateProceeds(st, plan, net, e.qty)
           IN  /\ proceeds \in [DOMAIN plan -> Int]
               /\ SumFunctionOnSet(proceeds, DOMAIN plan) = net
<1> DEFINE D == DOMAIN plan
           total == e.qty
           parts == [k \in D |-> plan[k][2]]
           floors == [k \in D |-> AllocFloor(net, plan[k][2], total)]
           rems == [k \in D |-> AllocRemainder(net, plan[k][2], total)]
           products == [k \in D |-> net * plan[k][2]]
           order == {p \in D \X D :
                        \/ rems[p[1]] > rems[p[2]]
                        \/ rems[p[1]] = rems[p[2]] /\ Older(st.lots[plan[p[1]][1]], st.lots[plan[p[2]][1]])}
           residual == net - SumFunctionOnSet(floors, D)
           extra == [k \in D |-> IF Cardinality(Ahead(order, D, k)) < residual THEN 1 ELSE 0]
           proceeds == AllocateProceeds(st, plan, net, total)
<1>1. /\ plan \in Seq(Nat \X Nat) /\ D = 1..Len(plan) /\ IsFiniteSet(D)
      /\ \A k \in D : plan[k][1] \in DOMAIN st.lots /\ plan[k][2] \in Int
      /\ SumFunctionOnSet(parts, D) = total
      /\ \A i, j \in D : plan[i][1] = plan[j][1] => i = j
    <2>1. plan \in Seq(Nat \X Nat) /\ SumFunction(parts) = total
          /\ (\A k \in D : plan[k][1] \in DOMAIN st.lots)
          /\ \A i, j \in D : plan[i][1] = plan[j][1] => i = j
        BY DEF Fits
    <2>2. D = 1..Len(plan) /\ Len(plan) \in Nat /\ \A k \in D : plan[k] \in Nat \X Nat
        BY <2>1
    <2>3. IsFiniteSet(D)
        BY <2>2, FS_Interval
    <2>4. SumFunctionOnSet(parts, D) = total
        BY <2>1 DEF SumFunction
    <2> QED
        BY <2>1, <2>2, <2>3, <2>4
<1>2. \A k \in D :
          /\ floors[k] \in Int /\ rems[k] \in Int /\ products[k] \in Int /\ parts[k] \in Int
          /\ products[k] = total * floors[k] + 1 * rems[k]
          /\ products[k] = net * parts[k] + 0 * parts[k]
          /\ 0 <= rems[k] /\ rems[k] < total
    <2> SUFFICES ASSUME NEW k \in D
                 PROVE  /\ floors[k] \in Int /\ rems[k] \in Int /\ products[k] \in Int /\ parts[k] \in Int
                        /\ products[k] = total * floors[k] + 1 * rems[k]
                        /\ products[k] = net * parts[k] + 0 * parts[k]
                        /\ 0 <= rems[k] /\ rems[k] < total
        OBVIOUS
    <2> DEFINE x == net * plan[k][2]
    <2>1. x \in Int /\ parts[k] = plan[k][2] /\ plan[k][2] \in Int
        BY <1>1
    <2>2. floors[k] = x \div total /\ rems[k] = x % total /\ products[k] = x
        BY DEF AllocFloor, AllocRemainder
    <2>3. x = net * parts[k] + 0 * parts[k]
        BY <2>1
    <2> HIDE DEF x, floors, rems, products, parts
    <2>4. /\ x \div total \in Int /\ x % total \in Int /\ x = total * (x \div total) + (x % total)
          /\ 0 <= x % total /\ x % total < total
        BY <2>1, DivMod
    <2>5. \A q, r \in Int : total * q + r = total * q + 1 * r
        OBVIOUS
    <2>6. x = total * floors[k] + 1 * rems[k]
        BY <2>2, <2>4, <2>5
    <2> QED
        BY <2>1, <2>2, <2>3, <2>4, <2>6
<1>3. proceeds = [k \in D |-> IF Cardinality(Ahead(order, D, k)) < residual THEN floors[k] + 1 ELSE floors[k]]
    <2>1. \A k \in D : Ahead(order, D, k)
              = {j \in D : \/ AllocRemainder(net, plan[j][2], total) > AllocRemainder(net, plan[k][2], total)
                           \/ /\ AllocRemainder(net, plan[j][2], total) = AllocRemainder(net, plan[k][2], total)
                              /\ Older(st.lots[plan[j][1]], st.lots[plan[k][1]])}
        BY DEF Ahead
    <2>2. residual = net - SumFunction([k \in D |-> AllocFloor(net, plan[k][2], total)])
        BY DEF SumFunction
    <2>3. \A k \in D : floors[k] = AllocFloor(net, plan[k][2], total)
        OBVIOUS
    <2> HIDE DEF order, residual, floors
    <2> QED
        BY <2>1, <2>2, <2>3 DEF AllocateProceeds
<1>4. StrictOrder(order, D)
    <2>1. \A i, j \in D : <<i, j>> \in order <=>
              \/ rems[i] > rems[j]
              \/ rems[i] = rems[j] /\ Older(st.lots[plan[i][1]], st.lots[plan[j][1]])
        OBVIOUS
    <2>2. StrictOrder(OlderPairs(st), DOMAIN st.lots)
        BY AgeIsOrder
    <2>3. \A j, k \in DOMAIN st.lots : <<j, k>> \in OlderPairs(st) <=> Older(st.lots[j], st.lots[k])
        BY DEF OlderPairs
    <2> DEFINE A(i, j) == <<plan[i][1], plan[j][1]>> \in OlderPairs(st)
    <2>4. \A i, j \in D : <<i, j>> \in order <=> rems[i] > rems[j] \/ (rems[i] = rems[j] /\ A(i, j))
        <3>1. \A i, j \in D : A(i, j) <=> Older(st.lots[plan[i][1]], st.lots[plan[j][1]])
            <4> HIDE DEF D
            <4> QED
                BY <1>1, <2>3
        <3> HIDE DEF A, order, rems, D
        <3> QED
            BY <2>1, <3>1
    <2>5. /\ \A i \in D : ~A(i, i)
          /\ \A i, j, k \in D : A(i, j) /\ A(j, k) => A(i, k)
          /\ \A i, j \in D : i # j => A(i, j) \/ A(j, i)
        <3>1. \A i \in D : plan[i][1] \in DOMAIN st.lots
            BY <1>1
        <3>2. \A i, j \in D : i # j => plan[i][1] # plan[j][1]
            BY <1>1
        <3> HIDE DEF D, order, rems, floors, products, parts, extra, proceeds
        <3>3. \A i \in D : ~A(i, i)
            BY <2>2, <3>1 DEF StrictOrder
        <3>4. \A i, j, k \in D : A(i, j) /\ A(j, k) => A(i, k)
            BY <2>2, <3>1 DEF StrictOrder
        <3>5. \A i, j \in D : i # j => A(i, j) \/ A(j, i)
            BY <2>2, <3>1, <3>2 DEF StrictOrder
        <3> QED
            BY <3>3, <3>4, <3>5
    <2>6. \A i \in D : rems[i] \in Int
        BY <1>2
    <2> DEFINE tie == {p \in D \X D : A(p[1], p[2])}
    <2>7. StrictOrder(tie, D)
        <3>1. \A i, j \in D : <<i, j>> \in tie <=> A(i, j)
            OBVIOUS
        <3> HIDE DEF A, tie, D
        <3> QED
            BY <2>5, <3>1 DEF StrictOrder
    <2>8. \A i, j \in D : <<i, j>> \in order <=> rems[i] > rems[j] \/ (rems[i] = rems[j] /\ <<i, j>> \in tie)
        <3>1. \A i, j \in D : <<i, j>> \in tie <=> A(i, j)
            OBVIOUS
        <3> HIDE DEF A, tie, D, order, rems
        <3> QED
            BY <2>4, <3>1
    <2> HIDE DEF A, order, rems, D, tie
    <2> QED
        BY <2>6, <2>7, <2>8, RemaindersOrder
<1>t. total \in Int /\ total > 0
    OBVIOUS
<1> HIDE DEF D, floors, rems, products, parts, order, extra, proceeds, total
<1> QED
    <2>1. RaisedFirst(D, net, floors, order, proceeds)
        BY <1>3 DEF RaisedFirst
    <2>2. Quotients(D, net, total, parts, floors, rems)
        <3>1. \A a, b, q, r, t, x \in Int : x = t * q + 1 * r /\ x = a * b + 0 * b => a * b = t * q + r
            OBVIOUS
        <3> QED
            BY <1>t, <1>2, <3>1 DEF Quotients
    <2>3. (\A k \in D : proceeds[k] \in Int) /\ SumFunctionOnSet(proceeds, D) = net
        BY <1>1, <1>t, <1>4, <2>1, <2>2, SharesAddUp
    <2>4. proceeds \in [D -> Int]
        BY <1>3, <2>3
    <2> QED
        BY <2>3, <2>4 DEF proceeds, D, total

(***************************************************************************)
(* A sale                                                                  *)
(***************************************************************************)
\* What is left of a lot that gives c, and the gain it makes.
Reduced(lot, c) ==
    [lot EXCEPT !.qty = @ - c, !.basis = ConsumeBasis(lot.basis, lot.qty, c).left,
                !.closed = lot.qty = c]

GainOf(lot, seq, e, c, share) ==
    [sale |-> seq, lot |-> lot.id, symbol |-> e.symbol, qty |-> c, proceeds |-> share,
     basis |-> ConsumeBasis(lot.basis, lot.qty, c).taken, saleDate |-> e.date,
     acquired |-> lot.acquired]

\* A reduced lot is a lot, and its basis and that of the gain are what there was.
LEMMA ReducedLot ==
    ASSUME NEW lot \in LotRecords, NEW c \in Nat, 0 < c, c <= lot.qty
    PROVE  /\ Reduced(lot, c) \in LotRecords
           /\ Reduced(lot, c).id = lot.id /\ Reduced(lot, c).symbol = lot.symbol
           /\ Reduced(lot, c).platform = lot.platform
           /\ Reduced(lot, c).acquired = lot.acquired /\ Reduced(lot, c).openSeq = lot.openSeq
           /\ Reduced(lot, c).qty = lot.qty - c
           /\ Reduced(lot, c).basis + ConsumeBasis(lot.basis, lot.qty, c).taken = lot.basis
           /\ ConsumeBasis(lot.basis, lot.qty, c).taken \in Int
           /\ Reduced(lot, c).closed = (lot.qty = c)
           /\ lot.qty = c => Reduced(lot, c).basis = 0
<1>1. lot.qty \in Nat /\ lot.basis \in Int /\ lot.openSeq \in Nat /\ lot.acquired \in Int
    BY DEF LotRecords
<1> DEFINE s == ConsumeBasis(lot.basis, lot.qty, c)
<1>2. s.taken \in Int /\ s.left \in Int /\ s.taken + s.left = lot.basis /\ (c = lot.qty => s.left = 0)
    BY <1>1, ConsumeConservesBasis
<1> HIDE DEF s
<1>3. Reduced(lot, c) = [lot EXCEPT !.qty = @ - c, !.basis = s.left, !.closed = (lot.qty = c)]
    BY DEF Reduced, s
<1>4. lot.qty - c \in Nat
    BY <1>1
<1>5. (lot.qty = c) \in BOOLEAN
    OBVIOUS
<1>6. /\ Reduced(lot, c) \in LotRecords
      /\ Reduced(lot, c).id = lot.id /\ Reduced(lot, c).symbol = lot.symbol
      /\ Reduced(lot, c).platform = lot.platform
      /\ Reduced(lot, c).acquired = lot.acquired /\ Reduced(lot, c).openSeq = lot.openSeq
      /\ Reduced(lot, c).qty = lot.qty - c /\ Reduced(lot, c).basis = s.left
      /\ Reduced(lot, c).closed = (lot.qty = c)
    BY <1>2, <1>3, <1>4, <1>5 DEF LotRecords
<1>7. s.left + s.taken = lot.basis /\ (lot.qty = c => s.left = 0)
    BY <1>1, <1>2
<1> QED
    BY <1>2, <1>6, <1>7 DEF s

\* y is x after k gave c.
ConsumedTo(x, seq, e, k, c, share, y) ==
    /\ y \in FoldStates
    /\ y.lots = [x.lots EXCEPT ![k] = Reduced(x.lots[k], c)]
    /\ y.gains = Append(x.gains, GainOf(x.lots[k], seq, e, c, share))
    /\ y.depended = x.depended \cup {x.lots[k].openSeq}
    /\ y.dropped = x.dropped

\* One pair of the plan, field by field.
LEMMA ConsumeForm ==
    ASSUME NEW x \in FoldStates, NEW seq \in Nat, NEW e \in Payloads, e.kind = "Sell",
           NEW k \in DOMAIN x.lots, NEW c \in Nat, 0 < c, c <= x.lots[k].qty, NEW share \in Int
    PROVE  ConsumedTo(x, seq, e, k, c, share, Consume(x, seq, e, k, c, share))
<1> DEFINE y == Consume(x, seq, e, k, c, share)
           lot == x.lots[k]
           s == ConsumeBasis(lot.basis, lot.qty, c)
<1>1. /\ x.lots \in Seq(LotRecords) /\ x.gains \in Seq(GainRecords) /\ x.depended \in SUBSET Nat
      /\ x.dropped \in SUBSET Nat
      /\ x = [lots |-> x.lots, gains |-> x.gains, depended |-> x.depended, dropped |-> x.dropped]
    BY DEF FoldStates
<1>2. lot \in LotRecords
    BY <1>1
<1>3. lot.openSeq \in Nat /\ lot.acquired \in Int /\ lot.id \in {p.lot : p \in Payloads}
    BY <1>2 DEF LotRecords
<1>4. s.taken \in Int /\ Reduced(lot, c) \in LotRecords
    BY <1>2, ReducedLot
<1>5. e.symbol \in {p.symbol : p \in Payloads} /\ e.date \in Int
    BY SellTypes
<1>6. GainOf(lot, seq, e, c, share) \in GainRecords
    <2> HIDE DEF lot, s
    <2> QED
        BY <1>3, <1>4, <1>5 DEF GainOf, GainRecords, s
<1>7. /\ y.gains = Append(x.gains, GainOf(lot, seq, e, c, share))
      /\ y.depended = x.depended \cup {lot.openSeq}
      /\ y.dropped = x.dropped
      /\ DOMAIN y = DOMAIN x
      /\ y = [f \in DOMAIN x |-> y[f]]
    BY <1>1 DEF Consume, GainOf
<1>8. y.lots = [x.lots EXCEPT ![k] = Reduced(x.lots[k], c)]
    <2>1. y.lots = [[[x.lots EXCEPT ![k].qty = @ - c] EXCEPT ![k].basis = s.left]
                        EXCEPT ![k].closed = (lot.qty = c)]
        BY <1>1 DEF Consume
    <2>2. [[[x.lots EXCEPT ![k].qty = @ - c] EXCEPT ![k].basis = s.left]
               EXCEPT ![k].closed = (lot.qty = c)]
          = [x.lots EXCEPT ![k] = [[[lot EXCEPT !.qty = @ - c] EXCEPT !.basis = s.left]
                                        EXCEPT !.closed = (lot.qty = c)]]
        <3> HIDE DEF s
        <3> QED
            BY <1>1, <1>2
    <2>3. Reduced(x.lots[k], c) = [[[lot EXCEPT !.qty = @ - c] EXCEPT !.basis = s.left]
                                        EXCEPT !.closed = (lot.qty = c)]
        BY <1>2 DEF Reduced
    <2> QED
        BY <2>1, <2>2, <2>3
<1>9. [x.lots EXCEPT ![k] = Reduced(x.lots[k], c)] \in Seq(LotRecords)
    <2> HIDE DEF lot
    <2>1. x.lots \in Seq(LotRecords) /\ k \in DOMAIN x.lots /\ Reduced(x.lots[k], c) \in LotRecords
        BY <1>1, <1>4 DEF lot
    <2> QED
        BY <2>1, ExceptSeq
<1> HIDE DEF y, lot
<1>10. y \in FoldStates
    <2>1. y.gains \in Seq(GainRecords)
        BY <1>1, <1>6, <1>7
    <2>2. y.depended \in SUBSET Nat /\ y.dropped \in SUBSET Nat
        BY <1>1, <1>3, <1>7
    <2>3. y = [lots |-> y.lots, gains |-> y.gains, depended |-> y.depended, dropped |-> y.dropped]
        BY <1>1, <1>7
    <2> QED
        BY <1>8, <1>9, <2>1, <2>2, <2>3 DEF FoldStates
<1> QED
    BY <1>7, <1>8, <1>10 DEF y, lot, ConsumedTo

\* F holds the states of the loop over a plan of m pairs.
SoldBy(st, seq, e, plan, proceeds, m, F) ==
    F = [n \in 0..m |->
            IF n = 0 THEN st
            ELSE Consume(F[n - 1], seq, e, plan[n][1], plan[n][2], proceeds[n])]

\* The loop has a state after every pair.
LEMMA SoldExists ==
    ASSUME NEW st, NEW seq, NEW e, NEW plan, NEW proceeds, NEW m \in Nat
    PROVE  \E F : SoldBy(st, seq, e, plan, proceeds, m, F)
<1> DEFINE P == {n \in Nat : \E F : SoldBy(st, seq, e, plan, proceeds, n, F)}
<1>1. 0 \in P
    <2>1. SoldBy(st, seq, e, plan, proceeds, 0, [n \in 0..0 |-> st])
        BY DEF SoldBy
    <2> QED
        BY <2>1
<1>2. ASSUME NEW n \in Nat, n \in P PROVE n + 1 \in P
    <2>1. PICK F : SoldBy(st, seq, e, plan, proceeds, n, F)
        BY <1>2
    <2> DEFINE Term(i) == IF i = 0 THEN st
                          ELSE Consume(F[i - 1], seq, e, plan[i][1], plan[i][2], proceeds[i])
               G == [i \in 0..(n + 1) |-> Term(i)]
    <2>2. \A i \in 0..n : F[i] = Term(i)
        BY <2>1 DEF SoldBy
    <2> HIDE DEF Term
    <2>3. \A i \in 0..n : G[i] = F[i]
        BY <2>2
    <2>4. ASSUME NEW i \in 0..(n + 1)
          PROVE  G[i] = IF i = 0 THEN st
                        ELSE Consume(G[i - 1], seq, e, plan[i][1], plan[i][2], proceeds[i])
        <3>1. i # 0 => G[i - 1] = F[i - 1]
            <4>1. i # 0 => i - 1 \in 0..n
                OBVIOUS
            <4> HIDE DEF G
            <4> QED
                BY <2>3, <4>1
        <3>2. G[i] = Term(i)
            OBVIOUS
        <3> HIDE DEF G
        <3> QED
            BY <3>1, <3>2 DEF Term
    <2>5. SoldBy(st, seq, e, plan, proceeds, n + 1, G)
        BY <2>4 DEF SoldBy
    <2> HIDE DEF G
    <2> QED
        BY <2>5
<1> HIDE DEF P
<1>3. m \in P
    BY <1>1, <1>2, NumberInduction
<1> QED
    BY <1>3 DEF P

\* What the first m pairs of the plan make of st: every lot they name is reduced once,
\* the others are as they were, and each pair has its gain.
SoldState(st, seq, e, plan, proceeds, m, x) ==
    /\ x \in FoldStates /\ DOMAIN x.lots = DOMAIN st.lots
    /\ \A k \in DOMAIN st.lots : (\A i \in 1..m : plan[i][1] # k) => x.lots[k] = st.lots[k]
    /\ \A i \in 1..m : x.lots[plan[i][1]] = Reduced(st.lots[plan[i][1]], plan[i][2])
    /\ Len(x.gains) = Len(st.gains) + m
    /\ \A g \in DOMAIN st.gains : x.gains[g] = st.gains[g]
    /\ \A i \in 1..m : x.gains[Len(st.gains) + i]
                          = GainOf(st.lots[plan[i][1]], seq, e, plan[i][2], proceeds[i])
    /\ x.depended = st.depended \cup {st.lots[plan[i][1]].openSeq : i \in 1..m}
    /\ x.dropped = st.dropped

\* ApplySell does to the fold state what its plan says.
LEMMA SellForm ==
    ASSUME NEW st, NEW n, FoldOK(st, n), NEW e \in Payloads, e.kind = "Sell", NEW seq \in Nat,
           SellVerdict(st, e) = "Ok"
    PROVE  LET plan == SelectLots(st, e)
               proceeds == AllocateProceeds(st, plan, Net(e), e.qty)
           IN  /\ Fits(st, e, plan) /\ e.qty \in Nat /\ e.qty > 0
               /\ Len(plan) \in Nat /\ DOMAIN plan = 1..Len(plan)
               /\ \A i \in DOMAIN plan : plan[i][1] \in Nat /\ plan[i][2] \in Nat
               /\ proceeds \in [DOMAIN plan -> Int]
               /\ SumFunctionOnSet(proceeds, DOMAIN plan) = Net(e) /\ Net(e) \in Int
               /\ SoldState(st, seq, e, plan, proceeds, Len(plan), ApplySell(st, seq, e))
<1> DEFINE plan == SelectLots(st, e)
           proceeds == AllocateProceeds(st, plan, Net(e), e.qty)
           m == Len(plan)
<1>1. e.qty > 0 /\ e.qty \in Int /\ e.price \in Int /\ e.fees \in Int /\ Fits(st, e, plan)
    BY SelectionFits, SellTypes
<1>2. Net(e) \in Int
    <2>1. e.qty * e.price \in Int
        BY <1>1
    <2> DEFINE v == e.qty * e.price
    <2> HIDE DEF v
    <2>2. ASSUME NEW w \in Int PROVE RoundHalfEven(w, ShareScale) \in Int
        BY ShareScaleAssumption, RoundsToNearest
    <2>3. RoundHalfEven(e.qty * e.price, ShareScale) \in Int
        BY <2>1, <2>2
    <2> QED
        BY <1>1, <2>3 DEF Net, Gross, Scale
<1> HIDE DEF plan
<1>3. proceeds \in [DOMAIN plan -> Int] /\ SumFunctionOnSet(proceeds, DOMAIN plan) = Net(e)
    BY <1>1, <1>2, ProceedsAddUp
<1>4. m \in Nat /\ DOMAIN plan = 1..m /\ \A i \in 1..m : plan[i][1] \in Nat /\ plan[i][2] \in Nat
    <2>1. plan \in Seq(Nat \X Nat)
        BY <1>1 DEF Fits
    <2>2. m \in Nat /\ DOMAIN plan = 1..m /\ \A i \in 1..m : plan[i] \in Nat \X Nat
        BY <2>1
    <2>3. \A pair \in Nat \X Nat : pair[1] \in Nat /\ pair[2] \in Nat
        OBVIOUS
    <2> QED
        BY <2>2, <2>3
<1>5. \A i \in 1..m : /\ plan[i][1] \in DOMAIN st.lots
                      /\ 0 < plan[i][2] /\ plan[i][2] <= st.lots[plan[i][1]].qty
                      /\ \A j \in 1..m : plan[i][1] = plan[j][1] => i = j
    BY <1>1, <1>4 DEF Fits
<1> DEFINE F == CHOOSE F : SoldBy(st, seq, e, plan, proceeds, m, F)
<1>6. ApplySell(st, seq, e) = F[m]
    BY DEF ApplySell, SoldBy, plan
<1>7. SoldBy(st, seq, e, plan, proceeds, m, F)
    BY <1>4, SoldExists
<1> HIDE DEF F, proceeds, m
<1>8. F[0] = st
    BY <1>4, <1>7 DEF SoldBy
<1>9. \A i \in 1..m : F[i] = Consume(F[i - 1], seq, e, plan[i][1], plan[i][2], proceeds[i])
    BY <1>4, <1>7 DEF SoldBy
<1> DEFINE P == {i \in Nat : i <= m => SoldState(st, seq, e, plan, proceeds, i, F[i])}
<1>10. 0 \in P
    <2>1. st \in FoldStates /\ Len(st.gains) \in Nat
        BY FoldTypes DEF FoldOK
    <2> QED
        BY <1>8, <2>1 DEF SoldState
<1>11. ASSUME NEW i \in Nat, i \in P PROVE i + 1 \in P
    <2> SUFFICES ASSUME i + 1 <= m PROVE SoldState(st, seq, e, plan, proceeds, i + 1, F[i + 1])
        OBVIOUS
    <2> DEFINE j == i + 1
               x == F[i]
               y == F[j]
               k == plan[j][1]
               c == plan[j][2]
               lot == st.lots[k]
    <2>1. i <= m /\ j \in 1..m /\ j - 1 = i /\ 1..j = 1..i \cup {j} /\ j \notin 1..i
        BY <1>4
    <2>2. SoldState(st, seq, e, plan, proceeds, i, x)
        BY <1>11, <2>1
    <2>3. k \in DOMAIN st.lots /\ 0 < c /\ c <= lot.qty /\ c \in Nat /\ proceeds[j] \in Int
        BY <1>3, <1>4, <1>5, <2>1
    <2>4. ASSUME NEW h \in 1..i PROVE plan[h][1] # k /\ plan[h][1] \in DOMAIN st.lots
        <3> HIDE DEF P
        <3>1. m \in Nat /\ i <= m /\ j - 1 = i /\ j \in 1..m
            BY <1>4, <2>1
        <3> HIDE DEF j
        <3>2. h \in 1..m /\ h # j
            BY <3>1
        <3> QED
            BY <1>5, <3>1, <3>2
    <2>5. x.lots[k] = lot /\ x \in FoldStates /\ k \in DOMAIN x.lots
        BY <2>2, <2>3, <2>4 DEF SoldState
    <2>6. y = Consume(x, seq, e, k, c, proceeds[j])
        BY <1>9, <2>1
    <2> HIDE DEF j, x, y, k, c, lot
    <2>7. /\ y \in FoldStates
          /\ y.lots = [x.lots EXCEPT ![k] = Reduced(lot, c)]
          /\ y.gains = Append(x.gains, GainOf(lot, seq, e, c, proceeds[j]))
          /\ y.depended = x.depended \cup {lot.openSeq}
          /\ y.dropped = x.dropped
        <3>1. c <= x.lots[k].qty
            BY <2>3, <2>5
        <3>2. ConsumedTo(x, seq, e, k, c, proceeds[j], Consume(x, seq, e, k, c, proceeds[j]))
            <4> HIDE DEF P
            <4> QED
                BY <2>3, <2>5, <3>1, ConsumeForm
        <3> QED
            BY <2>5, <2>6, <3>2 DEF ConsumedTo
    <2>8. /\ DOMAIN y.lots = DOMAIN st.lots /\ y.lots[k] = Reduced(lot, c)
          /\ \A h \in DOMAIN st.lots : h # k => y.lots[h] = x.lots[h]
        BY <2>2, <2>5, <2>7 DEF SoldState
    <2>9. /\ Len(y.gains) = Len(x.gains) + 1 /\ y.gains[Len(x.gains) + 1] = GainOf(lot, seq, e, c, proceeds[j])
          /\ \A g \in 1..Len(x.gains) : y.gains[g] = x.gains[g]
          /\ Len(x.gains) \in Nat
        <3>1. x.gains \in Seq(GainRecords)
            BY <2>5 DEF FoldStates
        <3> QED
            BY <2>7, <3>1
    <2>10. ASSUME NEW h \in DOMAIN st.lots, \A q \in 1..j : plan[q][1] # h
           PROVE  y.lots[h] = st.lots[h]
        <3>1. h # k /\ \A q \in 1..i : plan[q][1] # h
            BY <2>1, <2>10 DEF k
        <3> QED
            BY <2>2, <2>8, <3>1 DEF SoldState
    <2>11. ASSUME NEW q \in 1..j
           PROVE  y.lots[plan[q][1]] = Reduced(st.lots[plan[q][1]], plan[q][2])
        <3>1. CASE q = j
            BY <2>8, <3>1 DEF k, c, lot
        <3>2. CASE q \in 1..i
            BY <2>2, <2>4, <2>8, <3>2 DEF SoldState
        <3> QED
            BY <2>1, <3>1, <3>2
    <2>12. Len(st.gains) \in Nat /\ DOMAIN st.gains = 1..Len(st.gains) /\ Len(x.gains) = Len(st.gains) + i
        BY <2>2, FoldTypes DEF SoldState
    <2>13. Len(y.gains) = Len(st.gains) + j
        <3>1. Len(y.gains) = Len(x.gains) + 1
            BY <2>9
        <3> DEFINE before == Len(st.gains)
                   now == Len(x.gains)
                   next == Len(y.gains)
        <3>2. before \in Nat /\ now = before + i /\ next = now + 1
            BY <2>12, <3>1
        <3> HIDE DEF before, now, next
        <3>3. next = before + j
            BY <3>2 DEF j
        <3> QED
            BY <3>3 DEF before, next
    <2>14. \A g \in DOMAIN st.gains : y.gains[g] = st.gains[g]
        <3>1. \A g \in DOMAIN st.gains : g \in 1..Len(x.gains)
            BY <2>12
        <3> QED
            BY <2>2, <2>9, <3>1 DEF SoldState
    <2>15. ASSUME NEW q \in 1..j
           PROVE  y.gains[Len(st.gains) + q] = GainOf(st.lots[plan[q][1]], seq, e, plan[q][2], proceeds[q])
        <3>1. CASE q = j
            <4>1. Len(st.gains) + q = Len(x.gains) + 1
                <5> DEFINE before == Len(st.gains)
                           now == Len(x.gains)
                <5>1. before \in Nat /\ now = before + i /\ q = i + 1
                    BY <2>12, <3>1 DEF j
                <5> HIDE DEF before, now
                <5>2. before + q = now + 1
                    BY <5>1
                <5> QED
                    BY <5>2 DEF before, now
            <4> QED
                BY <2>9, <3>1, <4>1 DEF k, c, lot
        <3>2. CASE q \in 1..i
            <4>1. Len(st.gains) + q \in 1..Len(x.gains)
                BY <2>12, <3>2
            <4>2. x.gains[Len(st.gains) + q] = GainOf(st.lots[plan[q][1]], seq, e, plan[q][2], proceeds[q])
                BY <2>2, <3>2 DEF SoldState
            <4> QED
                BY <2>9, <4>1, <4>2
        <3> QED
            BY <2>1, <3>1, <3>2
    <2>16. y.depended = st.depended \cup {st.lots[plan[q][1]].openSeq : q \in 1..j}
        <3>1. x.depended = st.depended \cup {st.lots[plan[q][1]].openSeq : q \in 1..i}
            BY <2>2 DEF SoldState
        <3>2. lot.openSeq = st.lots[plan[j][1]].openSeq
            BY DEF k, lot
        <3> QED
            BY <2>1, <2>7, <3>1, <3>2
    <2>17. y.dropped = st.dropped
        BY <2>2, <2>7 DEF SoldState
    <2>18. SoldState(st, seq, e, plan, proceeds, j, y)
        BY <2>7, <2>8, <2>10, <2>11, <2>13, <2>14, <2>15, <2>16, <2>17 DEF SoldState
    <2> QED
        BY <2>18 DEF j, y
<1>12. m \in P
    <2> HIDE DEF P
    <2> QED
        BY <1>4, <1>10, <1>11, NumberInduction
<1>13. SoldState(st, seq, e, plan, proceeds, m, F[m])
    BY <1>4, <1>12
<1> QED
    BY <1>1, <1>2, <1>3, <1>4, <1>6, <1>13 DEF plan, proceeds, m

(***************************************************************************)
(* A split                                                                 *)
(***************************************************************************)
\* Rounding what is not negative gives a number.
LEMMA RoundsToNat ==
    ASSUME NEW num \in Nat, NEW den \in Int, den > 0
    PROVE  RoundHalfEven(num, den) \in Nat
<1>1. num <= num * den
    <2>1. \A d \in Nat : num <= num * (1 + d)
        OBVIOUS
    <2>2. den - 1 \in Nat /\ 1 + (den - 1) = den
        OBVIOUS
    <2> QED
        BY <2>1, <2>2
<1>2. 0 <= RoundHalfEven(num, den)
    BY <1>1, RoundsWithin
<1>3. RoundHalfEven(num, den) \in Int
    BY RoundsToNearest
<1> QED
    BY <1>2, <1>3

\* The ratio of a split is a pair of integers.
LEMMA SplitTypes ==
    ASSUME NEW e \in Payloads, e.kind = "Split"
    PROVE  e.num \in Int /\ e.den \in Int
BY PayloadsAssumption

\* F holds the states of the loop over the first m lots, those of reached rescaled.
SplitBy(st, e, reached, m, F) ==
    F = [k \in 0..m |->
            IF k = 0 THEN st
            ELSE IF k \in reached THEN Rescale(F[k - 1], e, k)
            ELSE F[k - 1]]

\* The loop has a state after every lot.
LEMMA SplitExists ==
    ASSUME NEW st, NEW e, NEW reached, NEW m \in Nat
    PROVE  \E F : SplitBy(st, e, reached, m, F)
<1> DEFINE P == {n \in Nat : \E F : SplitBy(st, e, reached, n, F)}
<1>1. 0 \in P
    <2>1. SplitBy(st, e, reached, 0, [n \in 0..0 |-> st])
        BY DEF SplitBy
    <2> QED
        BY <2>1
<1>2. ASSUME NEW n \in Nat, n \in P PROVE n + 1 \in P
    <2>1. PICK F : SplitBy(st, e, reached, n, F)
        BY <1>2
    <2> DEFINE Term(i) == IF i = 0 THEN st
                          ELSE IF i \in reached THEN Rescale(F[i - 1], e, i)
                          ELSE F[i - 1]
               G == [i \in 0..(n + 1) |-> Term(i)]
    <2>2. \A i \in 0..n : F[i] = Term(i)
        BY <2>1 DEF SplitBy
    <2> HIDE DEF Term
    <2>3. \A i \in 0..n : G[i] = F[i]
        BY <2>2
    <2>4. ASSUME NEW i \in 0..(n + 1)
          PROVE  G[i] = IF i = 0 THEN st
                        ELSE IF i \in reached THEN Rescale(G[i - 1], e, i)
                        ELSE G[i - 1]
        <3>1. i # 0 => G[i - 1] = F[i - 1]
            <4>1. i # 0 => i - 1 \in 0..n
                OBVIOUS
            <4> HIDE DEF G
            <4> QED
                BY <2>3, <4>1
        <3>2. G[i] = Term(i)
            OBVIOUS
        <3> HIDE DEF G
        <3> QED
            BY <3>1, <3>2 DEF Term
    <2>5. SplitBy(st, e, reached, n + 1, G)
        BY <2>4 DEF SplitBy
    <2> HIDE DEF G
    <2> QED
        BY <2>5
<1> HIDE DEF P
<1>3. m \in P
    BY <1>1, <1>2, NumberInduction
<1> QED
    BY <1>3 DEF P

\* A lot after the split e.
AfterSplit(lot, e) == [lot EXCEPT !.qty = Rescaled(lot, e)]

\* A split changes the quantity of a lot and nothing else of it.
LEMMA SplitLot ==
    ASSUME NEW lot \in LotRecords, NEW e \in Payloads, e.kind = "Split", e.num >= 1, e.den >= 1
    PROVE  /\ AfterSplit(lot, e) \in LotRecords /\ Rescaled(lot, e) \in Nat
           /\ AfterSplit(lot, e).id = lot.id /\ AfterSplit(lot, e).symbol = lot.symbol
           /\ AfterSplit(lot, e).platform = lot.platform
           /\ AfterSplit(lot, e).acquired = lot.acquired /\ AfterSplit(lot, e).openSeq = lot.openSeq
           /\ AfterSplit(lot, e).qty = Rescaled(lot, e)
           /\ AfterSplit(lot, e).basis = lot.basis /\ AfterSplit(lot, e).closed = lot.closed
<1>1. e.num \in Nat /\ e.den \in Int /\ e.den > 0
    BY SplitTypes
<1>2. lot.qty \in Nat
    BY DEF LotRecords
<1>3. lot.qty * e.num \in Nat
    BY <1>1, <1>2
<1>4. Rescaled(lot, e) \in Nat
    BY <1>1, <1>3, RoundsToNat DEF Rescaled
<1> QED
    BY <1>4 DEF AfterSplit, LotRecords

\* x is st with the lots of S rescaled.
SplitState(st, e, S, x) ==
    /\ x \in FoldStates /\ DOMAIN x.lots = DOMAIN st.lots
    /\ \A k \in S : x.lots[k] = AfterSplit(st.lots[k], e)
    /\ \A k \in DOMAIN st.lots \ S : x.lots[k] = st.lots[k]
    /\ x.gains = st.gains
    /\ x.depended = st.depended \cup {st.lots[k].openSeq : k \in S}
    /\ x.dropped = st.dropped

\* The loop body of a split, field by field.
LEMMA RescaleForm ==
    ASSUME NEW x \in FoldStates, NEW e \in Payloads, e.kind = "Split", e.num >= 1, e.den >= 1,
           NEW k \in DOMAIN x.lots
    PROVE  SplitState(x, e, {k}, Rescale(x, e, k))
<1> DEFINE y == Rescale(x, e, k)
           lot == x.lots[k]
<1>1. /\ x.lots \in Seq(LotRecords) /\ x.gains \in Seq(GainRecords) /\ x.depended \in SUBSET Nat
      /\ x.dropped \in SUBSET Nat
      /\ x = [lots |-> x.lots, gains |-> x.gains, depended |-> x.depended, dropped |-> x.dropped]
    BY DEF FoldStates
<1>2. lot \in LotRecords
    BY <1>1
<1>3. lot.openSeq \in Nat /\ AfterSplit(lot, e) \in LotRecords
    BY <1>2, SplitLot DEF LotRecords
<1>4. /\ y.gains = x.gains
      /\ y.depended = x.depended \cup {lot.openSeq}
      /\ y.dropped = x.dropped
      /\ DOMAIN y = DOMAIN x
      /\ y = [f \in DOMAIN x |-> y[f]]
    BY <1>1 DEF Rescale
<1>5. y.lots = [x.lots EXCEPT ![k] = AfterSplit(lot, e)]
    <2>1. y.lots = [x.lots EXCEPT ![k].qty = Rescaled(lot, e)]
        BY <1>1 DEF Rescale
    <2> QED
        BY <1>1, <1>2, <2>1 DEF AfterSplit
<1>6. y.lots \in Seq(LotRecords)
    <2> HIDE DEF lot
    <2>1. x.lots \in Seq(LotRecords) /\ k \in DOMAIN x.lots /\ AfterSplit(lot, e) \in LotRecords
        BY <1>1, <1>3
    <2>2. [x.lots EXCEPT ![k] = AfterSplit(lot, e)] \in Seq(LotRecords)
        BY <2>1, ExceptSeq
    <2> QED
        BY <1>5, <2>2
<1>7. DOMAIN y.lots = DOMAIN x.lots /\ y.lots[k] = AfterSplit(lot, e)
      /\ \A j \in DOMAIN x.lots : j # k => y.lots[j] = x.lots[j]
    BY <1>1, <1>5
<1> HIDE DEF y
<1>8. y \in FoldStates
    <2>1. y.depended \in SUBSET Nat /\ y.dropped \in SUBSET Nat
        BY <1>1, <1>3, <1>4
    <2>2. y = [lots |-> y.lots, gains |-> y.gains, depended |-> y.depended, dropped |-> y.dropped]
        BY <1>1, <1>4
    <2> QED
        BY <1>1, <1>4, <1>6, <2>1, <2>2 DEF FoldStates
<1>9. SplitState(x, e, {k}, y)
    BY <1>4, <1>7, <1>8 DEF SplitState
<1> QED
    BY <1>9 DEF y

\* The lots a split rescales: those before the first it would make too large.
SplitReach(st, e) == {k \in SplitLots(st, e) : \A b \in OverCap(st, e) : k < b}

\* ApplySplit rescales the lots the split reaches.
LEMMA SplitForm ==
    ASSUME NEW st, NEW n, FoldOK(st, n), NEW e \in Payloads, e.kind = "Split",
           e.num >= 1, e.den >= 1
    PROVE  SplitState(st, e, SplitReach(st, e), ApplySplit(st, e))
<1> DEFINE S == SplitReach(st, e)
           m == Len(st.lots)
           F == CHOOSE F : SplitBy(st, e, S, m, F)
<1>1. m \in Nat /\ DOMAIN st.lots = 1..m /\ st \in FoldStates
    BY FoldTypes DEF FoldOK
<1>2. S \subseteq 1..m
    BY <1>1 DEF SplitReach, SplitLots
<1>3. ApplySplit(st, e) = F[m]
    BY DEF ApplySplit, SplitBy, SplitReach
<1>4. SplitBy(st, e, S, m, F)
    BY <1>1, SplitExists
<1> HIDE DEF F, S, m
<1>5. F[0] = st
    BY <1>1, <1>4 DEF SplitBy
<1>6. \A k \in 1..m : F[k] = IF k \in S THEN Rescale(F[k - 1], e, k) ELSE F[k - 1]
    BY <1>1, <1>4 DEF SplitBy
<1> DEFINE Upto(i) == {k \in S : k <= i}
           P == {i \in Nat : i <= m => SplitState(st, e, Upto(i), F[i])}
<1>7. 0 \in P
    <2>1. Upto(0) = {}
        BY <1>1, <1>2
    <2>2. SplitState(st, e, {}, st)
        BY <1>1 DEF SplitState
    <2> QED
        BY <1>5, <2>1, <2>2
<1>8. ASSUME NEW i \in Nat, i \in P PROVE i + 1 \in P
    <2> SUFFICES ASSUME i + 1 <= m PROVE SplitState(st, e, Upto(i + 1), F[i + 1])
        OBVIOUS
    <2> DEFINE j == i + 1
               x == F[i]
               y == F[j]
    <2>1. i <= m /\ j \in 1..m /\ j - 1 = i
        BY <1>1
    <2>2. SplitState(st, e, Upto(i), x)
        BY <1>8, <2>1
    <2>3. y = IF j \in S THEN Rescale(x, e, j) ELSE x
        BY <1>6, <2>1
    <2>4. Upto(j) = (IF j \in S THEN Upto(i) \cup {j} ELSE Upto(i)) /\ j \notin Upto(i)
        <3> HIDE DEF P, x, y
        <3>1. \A k \in S : k \in Nat
            BY <1>1, <1>2
        <3>2. \A k \in S : k <= i + 1 <=> (k <= i \/ k = i + 1)
            BY <3>1
        <3>3. ~(j <= i)
            OBVIOUS
        <3>4. \A k : k \in Upto(j) <=> k \in (IF j \in S THEN Upto(i) \cup {j} ELSE Upto(i))
            BY <3>2
        <3> QED
            BY <3>3, <3>4
    <2> HIDE DEF x, y, Upto, j
    <2>5. CASE j \notin S
        BY <2>2, <2>3, <2>4, <2>5 DEF y, j
    <2>6. CASE j \in S
        <3>1. x \in FoldStates /\ j \in DOMAIN x.lots /\ x.lots[j] = st.lots[j]
            BY <1>1, <2>1, <2>2, <2>4 DEF SplitState
        <3>2. SplitState(x, e, {j}, y)
            BY <2>3, <2>6, <3>1, RescaleForm
        <3>3. /\ y \in FoldStates /\ DOMAIN y.lots = DOMAIN st.lots
              /\ y.gains = st.gains /\ y.dropped = st.dropped
              /\ y.depended = st.depended \cup {st.lots[k].openSeq : k \in Upto(j)}
            BY <2>2, <2>4, <2>6, <3>1, <3>2 DEF SplitState
        <3>4. \A k \in Upto(j) : y.lots[k] = AfterSplit(st.lots[k], e)
            <4>1. \A k \in Upto(i) : k \in DOMAIN x.lots /\ k # j
                BY <1>1, <1>2, <2>2, <2>4 DEF SplitState, Upto
            <4> QED
                BY <2>2, <2>4, <2>6, <3>1, <3>2, <4>1 DEF SplitState
        <3>5. \A k \in DOMAIN st.lots \ Upto(j) : y.lots[k] = st.lots[k]
            BY <2>2, <2>4, <2>6, <3>1, <3>2 DEF SplitState
        <3>6. SplitState(st, e, Upto(j), y)
            BY <3>3, <3>4, <3>5 DEF SplitState
        <3> QED
            BY <3>6 DEF y, j
    <2> QED
        BY <2>5, <2>6
<1>9. m \in P
    <2> HIDE DEF P
    <2> QED
        BY <1>1, <1>7, <1>8, NumberInduction
<1>10. Upto(m) = S
    <2> HIDE DEF P
    <2>1. \A k \in S : k <= m
        BY <1>1, <1>2
    <2> QED
        BY <2>1
<1>11. SplitState(st, e, S, F[m])
    <2>1. m <= m
        BY <1>1
    <2>2. SplitState(st, e, Upto(m), F[m])
        <3> HIDE DEF Upto
        <3> QED
            BY <1>9, <2>1
    <2> QED
        BY <1>10, <2>2
<1> QED
    BY <1>3, <1>11 DEF S

(***************************************************************************)
(* An opening, and any event                                               *)
(***************************************************************************)
LEMMA OpenTypes ==
    ASSUME NEW e \in Payloads, e.kind \in {"Buy", "Vest"}
    PROVE  /\ e.qty \in Int /\ e.price \in Int /\ e.date \in Int
           /\ OpeningValue(e) \in Int /\ OpeningBasis(e) \in Int
<1>1. e.qty \in Int /\ e.price \in Int /\ e.date \in Int /\ (e.kind = "Buy" => e.fees \in Int)
    BY PayloadsAssumption
<1> DEFINE v == e.qty * e.price
<1>2. v \in Int
    BY <1>1
<1> HIDE DEF v
<1>3. ASSUME NEW w \in Int PROVE RoundHalfEven(w, ShareScale) \in Int
    BY ShareScaleAssumption, RoundsToNearest
<1>4. OpeningValue(e) \in Int
    BY <1>2, <1>3 DEF OpeningValue, Scale, v
<1>5. OpeningBasis(e) \in Int
    <2>1. CASE e.kind = "Buy"
        BY <1>1, <1>4, <2>1 DEF OpeningBasis
    <2>2. CASE e.kind # "Buy"
        BY <1>4, <2>2 DEF OpeningBasis
    <2> QED
        BY <2>1, <2>2
<1> QED
    BY <1>1, <1>4, <1>5

\* The lot the event e at seq opens, and the state with it.
NewLot(seq, e) ==
    [id |-> e.lot, symbol |-> e.symbol, platform |-> e.platform,
     acquired |-> e.date, openSeq |-> seq, qty |-> e.qty,
     basis |-> OpeningBasis(e), closed |-> FALSE]

\* x is st with that lot.
OpenState(st, seq, e, x) ==
    /\ x \in FoldStates
    /\ NewLot(seq, e) \in LotRecords
    /\ x.lots = Append(st.lots, NewLot(seq, e))
    /\ x.gains = st.gains /\ x.depended = st.depended /\ x.dropped = st.dropped

\* ApplyOpen adds the lot of the event.
LEMMA OpenForm ==
    ASSUME NEW st, NEW n, FoldOK(st, n), NEW e \in Payloads, e.kind \in {"Buy", "Vest"},
           NEW seq \in Nat, OpenVerdict(st, e) = "Ok"
    PROVE  OpenState(st, seq, e, ApplyOpen(st, seq, e))
<1> DEFINE y == ApplyOpen(st, seq, e)
<1>1. /\ st.lots \in Seq(LotRecords) /\ st.gains \in Seq(GainRecords) /\ st.depended \in SUBSET Nat
      /\ st.dropped \in SUBSET Nat
      /\ st = [lots |-> st.lots, gains |-> st.gains, depended |-> st.depended, dropped |-> st.dropped]
    BY DEF FoldOK, FoldStates
<1>2. e.qty \in Nat /\ e.date \in Int /\ OpeningBasis(e) \in Int
    <2>1. e.qty \in Int /\ e.date \in Int /\ OpeningBasis(e) \in Int
        BY OpenTypes
    <2>2. ~(e.qty <= 0)
        BY DEF OpenVerdict
    <2> QED
        BY <2>1, <2>2
<1>3. NewLot(seq, e) \in LotRecords
    <2>1. e.symbol \in OpenedSymbols
        BY DEF OpenedSymbols
    <2> QED
        BY <1>2, <2>1 DEF NewLot, LotRecords
<1>4. /\ y.lots = Append(st.lots, NewLot(seq, e))
      /\ y.gains = st.gains /\ y.depended = st.depended /\ y.dropped = st.dropped
      /\ DOMAIN y = DOMAIN st /\ y = [f \in DOMAIN st |-> y[f]]
    BY <1>1 DEF ApplyOpen, NewLot
<1> HIDE DEF y
<1>5. y.lots \in Seq(LotRecords)
    BY <1>1, <1>3, <1>4
<1>6. y \in FoldStates
    <2>1. y = [lots |-> y.lots, gains |-> y.gains, depended |-> y.depended, dropped |-> y.dropped]
        BY <1>1, <1>4
    <2> QED
        BY <1>1, <1>4, <1>5, <2>1 DEF FoldStates
<1>7. OpenState(st, seq, e, y)
    BY <1>3, <1>4, <1>6 DEF OpenState
<1> QED
    BY <1>7 DEF y

\* st with the event at seq refused.
Marked(st, seq) == [st EXCEPT !.dropped = @ \cup {seq}]

\* A state that differs from one of the fold in what an event at seq may change is
\* one of the fold after it.
LEMMA KeepsFold ==
    ASSUME NEW st, NEW n \in Nat, FoldOK(st, n), NEW seq \in Nat, n < seq,
           NEW x \in FoldStates, DOMAIN x.lots = DOMAIN st.lots,
           \A k \in DOMAIN st.lots :
               /\ x.lots[k].openSeq = st.lots[k].openSeq
               /\ x.lots[k].closed => x.lots[k].qty = 0 /\ x.lots[k].basis = 0,
           \A g \in DOMAIN x.gains : x.gains[g].sale <= n \/ x.gains[g].sale = seq,
           x.depended \subseteq st.depended \cup {st.lots[k].openSeq : k \in DOMAIN st.lots},
           x.dropped \subseteq st.dropped \cup {seq}
    PROVE  FoldOK(x, seq)
<1>1. \A k \in DOMAIN st.lots :
          st.lots[k].openSeq \in Nat /\ 0 < st.lots[k].openSeq /\ st.lots[k].openSeq <= n
    BY FoldTypes DEF FoldOK
<1>2. \A k \in DOMAIN x.lots :
           /\ x.lots[k].closed => x.lots[k].qty = 0 /\ x.lots[k].basis = 0
           /\ 0 < x.lots[k].openSeq /\ x.lots[k].openSeq <= seq
           /\ \A j \in DOMAIN x.lots : j < k => x.lots[j].openSeq < x.lots[k].openSeq
    <2>1. \A j, k \in DOMAIN st.lots : j < k => st.lots[j].openSeq < st.lots[k].openSeq
        BY DEF FoldOK
    <2> QED
        BY <1>1, <2>1
<1>3. \A g \in DOMAIN x.gains : x.gains[g].sale <= seq
    <2>1. x.gains \in Seq(GainRecords)
        BY DEF FoldStates
    <2>2. \A g \in DOMAIN x.gains : x.gains[g] \in GainRecords
        BY <2>1
    <2>3. \A g \in DOMAIN x.gains : x.gains[g].sale \in Nat
        BY <2>2 DEF GainRecords
    <2> QED
        BY <2>3
<1>4. x.depended \subseteq 1..seq /\ x.dropped \subseteq 1..seq
    <2>1. st.depended \subseteq 1..n /\ st.dropped \subseteq 1..n
        BY DEF FoldOK
    <2>2. 1..n \subseteq 1..seq /\ seq \in 1..seq
        OBVIOUS
    <2>3. {st.lots[k].openSeq : k \in DOMAIN st.lots} \subseteq 1..n
        BY <1>1
    <2> QED
        BY <2>1, <2>2, <2>3
<1> QED
    BY <1>2, <1>3, <1>4 DEF FoldOK

\* A refused event leaves the fold as it was, but for its mark.
LEMMA MarkedFold ==
    ASSUME NEW st, NEW n \in Nat, FoldOK(st, n), NEW seq \in Nat, n < seq
    PROVE  /\ FoldOK(Marked(st, seq), seq)
           /\ Marked(st, seq).lots = st.lots /\ Marked(st, seq).gains = st.gains
           /\ Marked(st, seq).depended = st.depended
           /\ Marked(st, seq).dropped = st.dropped \cup {seq}
<1> DEFINE y == Marked(st, seq)
<1>1. /\ st.lots \in Seq(LotRecords) /\ st.gains \in Seq(GainRecords) /\ st.depended \in SUBSET Nat
      /\ st.dropped \in SUBSET Nat
      /\ st = [lots |-> st.lots, gains |-> st.gains, depended |-> st.depended, dropped |-> st.dropped]
    BY DEF FoldOK, FoldStates
<1>2. /\ y.lots = st.lots /\ y.gains = st.gains /\ y.depended = st.depended
      /\ y.dropped = st.dropped \cup {seq}
      /\ DOMAIN y = DOMAIN st /\ y = [f \in DOMAIN st |-> y[f]]
    BY <1>1 DEF Marked
<1> HIDE DEF y
<1>3. y \in FoldStates
    <2>1. y = [lots |-> y.lots, gains |-> y.gains, depended |-> y.depended, dropped |-> y.dropped]
        BY <1>1, <1>2
    <2> QED
        BY <1>1, <1>2, <2>1 DEF FoldStates
<1>4. FoldOK(y, seq)
    <2>1. \A k \in DOMAIN st.lots : st.lots[k].closed => st.lots[k].qty = 0 /\ st.lots[k].basis = 0
        BY DEF FoldOK
    <2>2. \A g \in DOMAIN st.gains : st.gains[g].sale <= n
        BY DEF FoldOK
    <2> QED
        BY <1>2, <1>3, <2>1, <2>2, KeepsFold
<1> QED
    BY <1>2, <1>4 DEF y

\* What an event does: it is applied, or refused; only a Split may be both.
LEMMA EventForms ==
    ASSUME NEW st, NEW seq, NEW e \in Payloads, e.kind # "Reversal"
    PROVE  \/ /\ e.kind \in {"Buy", "Vest"} /\ OpenVerdict(st, e) = "Ok"
              /\ ApplyEvent(st, seq, e) = ApplyOpen(st, seq, e)
           \/ /\ e.kind = "Sell" /\ SellVerdict(st, e) = "Ok"
              /\ ApplyEvent(st, seq, e) = ApplySell(st, seq, e)
           \/ /\ e.kind = "Split" /\ e.num >= 1 /\ e.den >= 1 /\ OverCap(st, e) = {}
              /\ ApplyEvent(st, seq, e) = ApplySplit(st, e)
           \/ /\ e.kind = "Split" /\ e.num >= 1 /\ e.den >= 1 /\ OverCap(st, e) # {}
              /\ ApplyEvent(st, seq, e) = ApplySplit(Marked(st, seq), e)
           \/ /\ FoldVerdict(st, e) # "Ok"
              /\ ApplyEvent(st, seq, e) = Marked(st, seq)
<1>1. e.kind \in {"Buy", "Vest", "Sell", "Split"}
    BY PayloadsAssumption
<1>2. CASE e.kind \in {"Buy", "Vest"}
    BY <1>2 DEF ApplyEvent, FoldVerdict, Marked
<1>3. CASE e.kind = "Sell"
    BY <1>3 DEF ApplyEvent, FoldVerdict, Marked
<1>4. CASE e.kind = "Split"
    <2>1. e.num \in Int /\ e.den \in Int
        BY <1>4, SplitTypes
    <2>2. CASE e.num >= 1 /\ e.den >= 1
        <3>1. ~(e.num < 1 \/ e.den < 1)
            BY <2>1, <2>2
        <3>2. FoldVerdict(st, e) # "Ok" <=> OverCap(st, e) # {}
            BY <1>4, <3>1 DEF FoldVerdict, SplitVerdict
        <3> QED
            BY <1>4, <2>2, <3>2 DEF ApplyEvent, Marked
    <2>3. CASE ~(e.num >= 1 /\ e.den >= 1)
        <3>1. e.num < 1 \/ e.den < 1
            BY <2>1, <2>3
        <3>2. FoldVerdict(st, e) # "Ok"
            BY <1>4, <3>1 DEF FoldVerdict, SplitVerdict
        <3>3. ApplyEvent(st, seq, e) = Marked(st, seq)
            BY <1>4, <2>3, <3>2 DEF ApplyEvent, Marked
        <3> QED
            BY <3>2, <3>3
    <2> QED
        BY <2>2, <2>3
<1> QED
    BY <1>1, <1>2, <1>3, <1>4

(***************************************************************************)
(* Every event keeps the fold state sound                                  *)
(***************************************************************************)
\* What a sale leaves of each lot.
LEMMA SoldLots ==
    ASSUME NEW st, NEW n, FoldOK(st, n), NEW e, NEW plan, Fits(st, e, plan), NEW seq, NEW proceeds,
           NEW x, SoldState(st, seq, e, plan, proceeds, Len(plan), x), NEW k \in DOMAIN st.lots
    PROVE  \/ x.lots[k] = st.lots[k]
           \/ \E i \in 1..Len(plan) : /\ plan[i][1] = k /\ plan[i][2] \in Nat
                                      /\ 0 < plan[i][2] /\ plan[i][2] <= st.lots[k].qty
                                      /\ x.lots[k] = Reduced(st.lots[k], plan[i][2])
<1>1. CASE \A i \in 1..Len(plan) : plan[i][1] # k
    BY <1>1 DEF SoldState
<1>2. ASSUME NEW i \in 1..Len(plan), plan[i][1] = k
      PROVE  /\ plan[i][2] \in Nat
             /\ 0 < plan[i][2] /\ plan[i][2] <= st.lots[k].qty
             /\ x.lots[k] = Reduced(st.lots[k], plan[i][2])
    <2>1. x.lots[plan[i][1]] = Reduced(st.lots[plan[i][1]], plan[i][2])
        BY DEF SoldState
    <2>2. plan \in Seq(Nat \X Nat)
        BY DEF Fits
    <2>3. i \in DOMAIN plan /\ plan[i] \in Nat \X Nat
        BY <2>2
    <2>4. 0 < plan[i][2] /\ plan[i][2] <= st.lots[plan[i][1]].qty
        BY <2>3 DEF Fits
    <2> QED
        BY <1>2, <2>1, <2>3, <2>4
<1> QED
    BY <1>1, <1>2

\* The fold invariant after an opening.
LEMMA OpenKeepsFold ==
    ASSUME NEW st, NEW n \in Nat, FoldOK(st, n), NEW seq \in Nat, n < seq, NEW e,
           NEW x, OpenState(st, seq, e, x)
    PROVE  FoldOK(x, seq)
<1> DEFINE new == NewLot(seq, e)
           before == st.lots
           after == x.lots
<1>1. before \in Seq(LotRecords) /\ after = Append(before, new) /\ new \in LotRecords
    BY FoldTypes DEF OpenState
<1>2. Len(before) \in Nat /\ Len(after) = Len(before) + 1
      /\ DOMAIN before = 1..Len(before) /\ DOMAIN after = 1..(Len(before) + 1)
      /\ after[Len(before) + 1] = new /\ \A k \in DOMAIN before : after[k] = before[k]
    BY <1>1
<1>3. new.openSeq = seq /\ ~new.closed
    BY DEF NewLot
<1> HIDE DEF new
<1>4. \A k \in DOMAIN before :
          before[k].openSeq \in Nat /\ 0 < before[k].openSeq /\ before[k].openSeq <= n
    BY FoldTypes DEF FoldOK
<1>5. \A k \in DOMAIN before : before[k].closed => before[k].qty = 0 /\ before[k].basis = 0
    BY DEF FoldOK
<1>6. \A j, k \in DOMAIN before : j < k => before[j].openSeq < before[k].openSeq
    BY DEF FoldOK
<1> HIDE DEF before, after
<1> DEFINE m == Len(before) + 1
<1>7. m \in Nat /\ \A k \in DOMAIN after : k \in DOMAIN before \/ k = m
    BY <1>2
<1>8. \A k \in DOMAIN before : k < m
    BY <1>2
<1> HIDE DEF m
<1>9. \A k \in DOMAIN after : 0 < after[k].openSeq /\ after[k].openSeq <= seq
    BY <1>2, <1>3, <1>4, <1>7 DEF m
<1>10. \A k \in DOMAIN after : after[k].closed => after[k].qty = 0 /\ after[k].basis = 0
    BY <1>2, <1>3, <1>5, <1>7 DEF m
<1>11. ASSUME NEW j \in DOMAIN after, NEW k \in DOMAIN after, j < k
       PROVE  after[j].openSeq < after[k].openSeq
    <2>1. j \in DOMAIN before
        <3>1. j # m
            BY <1>2, <1>7, <1>8, <1>11
        <3> QED
            BY <1>7, <3>1
    <2>2. CASE k \in DOMAIN before
        BY <1>2, <1>6, <1>11, <2>1, <2>2
    <2>3. CASE k = m
        BY <1>2, <1>3, <1>4, <2>1, <2>3 DEF m
    <2> QED
        BY <1>7, <2>2, <2>3
<1>12. \A g \in DOMAIN x.gains : x.gains[g].sale <= seq
    <2>1. x.gains = st.gains /\ x.gains \in Seq(GainRecords)
        BY FoldTypes DEF OpenState
    <2>2. \A g \in DOMAIN x.gains : x.gains[g] \in GainRecords /\ x.gains[g].sale <= n
        BY <2>1 DEF FoldOK
    <2>3. \A g \in DOMAIN x.gains : x.gains[g].sale \in Nat /\ x.gains[g].sale <= n
        BY <2>2 DEF GainRecords
    <2> QED
        BY <2>3
<1>13. x.depended \subseteq 1..seq /\ x.dropped \subseteq 1..seq
    <2>1. x.depended \subseteq 1..n /\ x.dropped \subseteq 1..n
        BY DEF FoldOK, OpenState
    <2>2. 1..n \subseteq 1..seq
        OBVIOUS
    <2> QED
        BY <2>1, <2>2
<1>14. x \in FoldStates
    BY DEF OpenState
<1> QED
    BY <1>9, <1>10, <1>11, <1>12, <1>13, <1>14 DEF FoldOK, after

\* The fold invariant after a sale.
LEMMA SellKeepsFold ==
    ASSUME NEW st, NEW n \in Nat, FoldOK(st, n), NEW seq \in Nat, n < seq, NEW e,
           NEW plan, Fits(st, e, plan), NEW proceeds,
           NEW x, SoldState(st, seq, e, plan, proceeds, Len(plan), x)
    PROVE  FoldOK(x, seq)
<1>1. \A k \in DOMAIN st.lots :
          /\ st.lots[k] \in LotRecords
          /\ st.lots[k].closed => st.lots[k].qty = 0 /\ st.lots[k].basis = 0
    BY FoldTypes DEF FoldOK
<1>2. \A k \in DOMAIN st.lots :
          /\ x.lots[k].openSeq = st.lots[k].openSeq
          /\ x.lots[k].closed => x.lots[k].qty = 0 /\ x.lots[k].basis = 0
    <2> SUFFICES ASSUME NEW k \in DOMAIN st.lots
                 PROVE  /\ x.lots[k].openSeq = st.lots[k].openSeq
                        /\ x.lots[k].closed => x.lots[k].qty = 0 /\ x.lots[k].basis = 0
        OBVIOUS
    <2>1. CASE x.lots[k] = st.lots[k]
        BY <1>1, <2>1
    <2>2. ASSUME NEW c \in Nat, 0 < c, c <= st.lots[k].qty, x.lots[k] = Reduced(st.lots[k], c)
          PROVE  /\ x.lots[k].openSeq = st.lots[k].openSeq
                 /\ x.lots[k].closed => x.lots[k].qty = 0 /\ x.lots[k].basis = 0
        <3> DEFINE lot == st.lots[k]
        <3>1. lot \in LotRecords /\ c <= lot.qty
            BY <1>1, <2>2
        <3> HIDE DEF lot
        <3>2. /\ Reduced(lot, c).openSeq = lot.openSeq
              /\ Reduced(lot, c).qty = lot.qty - c
              /\ Reduced(lot, c).closed = (lot.qty = c)
              /\ lot.qty = c => Reduced(lot, c).basis = 0
            BY <2>2, <3>1, ReducedLot
        <3>3. Reduced(lot, c).closed => Reduced(lot, c).qty = 0
            <4>1. lot.qty \in Nat
                BY <3>1 DEF LotRecords
            <4>2. lot.qty = c => lot.qty - c = 0
                BY <4>1
            <4> QED
                BY <3>2, <4>2
        <3> QED
            BY <2>2, <3>2, <3>3 DEF lot
    <2>3. \/ x.lots[k] = st.lots[k]
          \/ \E i \in 1..Len(plan) : /\ plan[i][1] = k /\ plan[i][2] \in Nat
                                     /\ 0 < plan[i][2] /\ plan[i][2] <= st.lots[k].qty
                                     /\ x.lots[k] = Reduced(st.lots[k], plan[i][2])
        BY SoldLots
    <2> QED
        BY <2>1, <2>2, <2>3
<1>3. ASSUME NEW g \in DOMAIN x.gains PROVE x.gains[g].sale <= n \/ x.gains[g].sale = seq
    <2> DEFINE before == Len(st.gains)
               m == Len(plan)
    <2>1. before \in Nat /\ DOMAIN st.gains = 1..before /\ st.gains \in Seq(GainRecords)
        BY FoldTypes
    <2>2. m \in Nat
        BY DEF Fits
    <2>3. g \in 1..(before + m)
        BY DEF SoldState, FoldStates
    <2> HIDE DEF before, m
    <2>4. CASE g \in 1..before
        BY <2>1, <2>4 DEF SoldState, FoldOK
    <2>5. CASE g \notin 1..before
        <3> DEFINE i == g - before
        <3>1. i \in 1..m /\ before + i = g
            BY <2>1, <2>2, <2>3, <2>5
        <3> HIDE DEF i
        <3>2. x.gains[before + i] = GainOf(st.lots[plan[i][1]], seq, e, plan[i][2], proceeds[i])
            BY <3>1 DEF SoldState, before, m
        <3> QED
            BY <3>1, <3>2 DEF GainOf
    <2> QED
        BY <2>4, <2>5
<1>4. x.depended \subseteq st.depended \cup {st.lots[k].openSeq : k \in DOMAIN st.lots}
    <2>1. \A i \in 1..Len(plan) : plan[i][1] \in DOMAIN st.lots
        BY DEF Fits
    <2> QED
        BY <2>1 DEF SoldState
<1>5. x \in FoldStates /\ DOMAIN x.lots = DOMAIN st.lots /\ x.dropped \subseteq st.dropped \cup {seq}
    BY DEF SoldState
<1> QED
    BY <1>2, <1>3, <1>4, <1>5, KeepsFold

\* The fold invariant after a split.
LEMMA SplitKeepsFold ==
    ASSUME NEW st, NEW n \in Nat, FoldOK(st, n), NEW seq \in Nat, n < seq,
           NEW e \in Payloads, e.kind = "Split", e.num >= 1, e.den >= 1,
           NEW x, SplitState(st, e, SplitReach(st, e), x)
    PROVE  FoldOK(x, seq)
<1>1. \A k \in DOMAIN st.lots :
          /\ st.lots[k] \in LotRecords
          /\ st.lots[k].closed => st.lots[k].qty = 0 /\ st.lots[k].basis = 0
    BY FoldTypes DEF FoldOK
<1>2. \A k \in SplitReach(st, e) : k \in DOMAIN st.lots /\ ~st.lots[k].closed
    BY DEF SplitReach, SplitLots
<1>3. \A k \in DOMAIN st.lots :
          /\ x.lots[k].openSeq = st.lots[k].openSeq
          /\ x.lots[k].closed => x.lots[k].qty = 0 /\ x.lots[k].basis = 0
    <2> SUFFICES ASSUME NEW k \in DOMAIN st.lots
                 PROVE  /\ x.lots[k].openSeq = st.lots[k].openSeq
                        /\ x.lots[k].closed => x.lots[k].qty = 0 /\ x.lots[k].basis = 0
        OBVIOUS
    <2>1. CASE k \in SplitReach(st, e)
        <3>1. x.lots[k] = AfterSplit(st.lots[k], e)
            BY <2>1 DEF SplitState
        <3>2. /\ AfterSplit(st.lots[k], e).openSeq = st.lots[k].openSeq
              /\ AfterSplit(st.lots[k], e).closed = st.lots[k].closed
            BY <1>1, SplitLot
        <3> QED
            BY <1>2, <2>1, <3>1, <3>2
    <2>2. CASE k \notin SplitReach(st, e)
        BY <1>1, <2>2 DEF SplitState
    <2> QED
        BY <2>1, <2>2
<1>4. \A g \in DOMAIN x.gains : x.gains[g].sale <= n
    BY DEF SplitState, FoldOK
<1>5. x.depended \subseteq st.depended \cup {st.lots[k].openSeq : k \in DOMAIN st.lots}
    BY <1>2 DEF SplitState
<1>6. x \in FoldStates /\ DOMAIN x.lots = DOMAIN st.lots /\ x.dropped \subseteq st.dropped \cup {seq}
    BY DEF SplitState
<1> QED
    BY <1>3, <1>4, <1>5, <1>6, KeepsFold
=============================================================================
