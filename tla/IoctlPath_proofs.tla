-------------------------- MODULE IoctlPath_proofs --------------------------
(***************************************************************************)
(* Proofs about IoctlPath: what the host driver sees of a call, and what   *)
(* the caller reads back, for every set of files, descriptors and          *)
(* parameters.  The first part is about the sums a request's lengths are   *)
(* checked with, the second about one control, the third about the steps.  *)
(***************************************************************************)
EXTENDS IoctlPath, FiniteSetTheorems, WellFoundedInduction, TLAPS

----------------------------------------------------------------------------
(* Sums over finite sets *)

Some(s) == CHOOSE x \in s : TRUE

\* A set of numbers that is not empty has a least one.
LEMMA LeastExists ==
  ASSUME NEW S \in SUBSET Nat, S # {}
  PROVE  \E n \in S : \A m \in S : n <= m
<1>1. PICK n \in S : \A m \in S : ~ (<<m, n>> \in OpToRel(<, Nat))
  BY NatLessThanWellFounded, WFMin
<1>2. ASSUME NEW m \in S PROVE n <= m
  <2>1. n \in Nat /\ m \in Nat
    OBVIOUS
  <2>2. ~ (m < n)
    BY <1>1, <2>1 DEF OpToRel
  <2> QED
    BY <2>1, <2>2
<1> QED
  BY <1>2

\* Of the subsets of a finite set in B, one has no subset in B with one member less:
\* what an induction over the size of a set comes down to.
LEMMA SmallestExists ==
  ASSUME NEW S, IsFiniteSet(S), NEW B \in SUBSET SUBSET S, B # {}
  PROVE  \E s \in B : \A x \in s : s \ {x} \notin B
<1>1. \A s \in SUBSET S : IsFiniteSet(s) /\ Cardinality(s) \in Nat
  BY FS_Subset, FS_CardinalityType
<1>2. PICK N : N = {Cardinality(s) : s \in B}
  OBVIOUS
<1>3. N \in SUBSET Nat /\ N # {}
  BY <1>1, <1>2
<1>4. PICK n \in N : \A m \in N : n <= m
  BY <1>3, LeastExists
<1>5. PICK s \in B : Cardinality(s) = n
  BY <1>2
<1>6. ASSUME NEW x \in s, s \ {x} \in B PROVE FALSE
  <2>1. Cardinality(s \ {x}) = Cardinality(s) - 1
    BY <1>1, FS_RemoveElement
  <2>2. Cardinality(s \ {x}) \in N /\ n \in Nat
    BY <1>2, <1>3, <1>6
  <2> QED
    BY <1>4, <1>5, <2>1, <2>2
<1> QED
  BY <1>6

\* A finite set without the member chosen from it is smaller.
LEMMA SomeLess ==
  ASSUME NEW s, IsFiniteSet(s), s # {}
  PROVE  /\ Some(s) \in s /\ IsFiniteSet(s \ {Some(s)})
         /\ Cardinality(s) \in Nat \ {0}
         /\ Cardinality(s \ {Some(s)}) = Cardinality(s) - 1
<1>1. PICK x : x = Some(s)
  OBVIOUS
<1>2. x \in s
  BY <1>1 DEF Some
<1>3. IsFiniteSet(s \ {x}) /\ Cardinality(s \ {x}) = Cardinality(s) - 1
  BY <1>2, FS_RemoveElement
<1>4. Cardinality(s) \in Nat /\ Cardinality(s) # 0
  BY FS_CardinalityType, FS_EmptySet
<1> QED
  BY <1>1, <1>2, <1>3, <1>4

Term(f, g, s) == IF s = {} THEN 0 ELSE f[Some(s)] + g[s \ {Some(s)}]
Sums(f, g, D) == g = [s \in D |-> Term(f, g, s)]
Solves(f, g, S) == \A s \in SUBSET S : g[s] = Term(f, g, s)
Upto(S, n) == {s \in SUBSET S : Cardinality(s) <= n}

\* The recursion that SumFunctionOnSet is defined by has a solution.
LEMMA SumsExist ==
  ASSUME NEW f, NEW S, IsFiniteSet(S)
  PROVE  \E g : Sums(f, g, SUBSET S)
<1>1. \A s \in SUBSET S : IsFiniteSet(s) /\ Cardinality(s) \in Nat
  BY FS_Subset, FS_CardinalityType
<1>2. \A n \in Nat : \E g : Sums(f, g, Upto(S, n))
  <2> DEFINE Bad == {n \in Nat : ~ \E g : Sums(f, g, Upto(S, n))}
  <2> SUFFICES ASSUME Bad # {} PROVE FALSE
    OBVIOUS
  <2>0. Bad \in SUBSET Nat
    OBVIOUS
  <2>1. PICK n \in Bad : \A m \in Bad : n <= m
    <3> HIDE DEF Bad
    <3> QED
      BY <2>0, LeastExists
  <2>2. CASE n = 0
    <3>1. \A s \in Upto(S, 0) : s = {}
      <4> SUFFICES ASSUME NEW s \in Upto(S, 0) PROVE s = {}
        OBVIOUS
      <4>1. IsFiniteSet(s) /\ Cardinality(s) = 0
        BY <1>1 DEF Upto
      <4> QED
        BY <4>1, FS_EmptySet
    <3>2. PICK g : g = [s \in Upto(S, 0) |-> 0]
      OBVIOUS
    <3>3. \A s \in Upto(S, 0) : Term(f, g, s) = 0
      BY <3>1 DEF Term
    <3>4. Sums(f, g, Upto(S, 0))
      BY <3>2, <3>3 DEF Sums
    <3> QED
      BY <2>1, <2>2, <3>4
  <2>3. CASE n > 0
    <3>1. n \in Nat /\ n - 1 \in Nat
      BY <2>0, <2>1, <2>3
    <3>2. PICK g : Sums(f, g, Upto(S, n - 1))
      <4>1. n - 1 \notin Bad
        <5> HIDE DEF Bad
        <5> QED
          BY <2>0, <2>1, <3>1
      <4> QED
        BY <3>1, <4>1
    <3>3. PICK h : h = [s \in Upto(S, n) |-> Term(f, g, s)]
      OBVIOUS
    <3>4. ASSUME NEW s \in Upto(S, n) PROVE Term(f, h, s) = Term(f, g, s)
      <4>1. CASE s = {}
        BY <4>1 DEF Term
      <4>2. CASE s # {}
        <5>1. PICK t : t = s \ {Some(s)}
          OBVIOUS
        <5>2. t \in Upto(S, n - 1) /\ t \in Upto(S, n)
          BY <1>1, <3>1, <4>2, <5>1, SomeLess DEF Upto
        <5>3. h[t] = Term(f, g, t)
          BY <3>3, <5>2
        <5>4. g[t] = Term(f, g, t)
          BY <3>2, <5>2 DEF Sums
        <5>5. h[s \ {Some(s)}] = g[s \ {Some(s)}]
          BY <5>1, <5>3, <5>4
        <5> QED
          BY <4>2, <5>5 DEF Term
      <4> QED
        BY <4>1, <4>2
    <3>5. Sums(f, h, Upto(S, n))
      BY <3>3, <3>4 DEF Sums
    <3> QED
      BY <2>1, <3>1, <3>5
  <2> QED
    BY <2>0, <2>1, <2>2, <2>3
<1>3. PICK N \in Nat : N = Cardinality(S)
  BY <1>1
<1>4. \A s \in SUBSET S : Cardinality(s) <= N
  BY <1>3, FS_Subset
<1>5. Upto(S, N) = SUBSET S
  BY <1>4 DEF Upto
<1> QED
  BY <1>2, <1>5

\* SumFunctionOnSet is a solution of it.
LEMMA SumIsRecursive ==
  ASSUME NEW f, NEW S, IsFiniteSet(S)
  PROVE  \E g : /\ SumFunctionOnSet(f, S) = g[S]
                /\ Solves(f, g, S)
<1>1. PICK g : g = CHOOSE h : Sums(f, h, SUBSET S)
  OBVIOUS
<1>2. Sums(f, g, SUBSET S)
  BY <1>1, SumsExist
<1>3. SumFunctionOnSet(f, S) = g[S]
  BY <1>1 DEF SumFunctionOnSet, FoldFunctionOnSet, MapThenFoldSet, Sums, Term, Some
<1>4. \A s \in SUBSET S : g[s] = Term(f, g, s)
  BY <1>2 DEF Sums
<1>5. Solves(f, g, S)
  BY <1>4 DEF Solves
<1> QED
  BY <1>3, <1>5

(* The sum over a set is a member's share and the sum over the rest.       *)
LEMMA SumUnfolds ==
  ASSUME NEW f, NEW S, IsFiniteSet(S)
  PROVE  /\ SumFunctionOnSet(f, {}) = 0
         /\ S # {} =>
              SumFunctionOnSet(f, S) = f[Some(S)] + SumFunctionOnSet(f, S \ {Some(S)})
<1>1. SumFunctionOnSet(f, {}) = 0
  <2>1. IsFiniteSet({})
    BY FS_EmptySet
  <2> QED
    BY <2>1, SumIsRecursive DEF Solves, Term
<1>2. CASE S # {}
  <2>1. PICK R : R = S \ {Some(S)}
    OBVIOUS
  <2>2. IsFiniteSet(R) /\ R \in SUBSET S
    BY <1>2, <2>1, SomeLess
  <2>3. PICK g : /\ SumFunctionOnSet(f, S) = g[S]
                 /\ Solves(f, g, S)
    BY SumIsRecursive
  <2>4. PICK h : /\ SumFunctionOnSet(f, R) = h[R]
                 /\ Solves(f, h, R)
    BY <2>2, SumIsRecursive
  <2>5. \A s \in SUBSET R : g[s] = h[s]
    <3> DEFINE B == {s \in SUBSET R : g[s] # h[s]}
    <3> SUFFICES ASSUME B # {} PROVE FALSE
      OBVIOUS
    <3>1. PICK s \in B : \A x \in s : s \ {x} \notin B
      <4>1. B \in SUBSET SUBSET R
        OBVIOUS
      <4> HIDE DEF B
      <4> QED
        BY <2>2, <4>1, SmallestExists
    <3>2. s \in SUBSET R /\ s \in SUBSET S /\ IsFiniteSet(s) /\ g[s] # h[s]
      BY <2>2, <3>1, FS_Subset
    <3>3. CASE s = {}
      BY <2>3, <2>4, <3>2, <3>3 DEF Solves, Term
    <3>4. CASE s # {}
      <4>1. Some(s) \in s
        BY <3>2, <3>4, SomeLess
      <4>2. g[s \ {Some(s)}] = h[s \ {Some(s)}]
        BY <3>1, <3>2, <4>1
      <4>3. g[s] = Term(f, g, s) /\ h[s] = Term(f, h, s)
        BY <2>3, <2>4, <3>2 DEF Solves
      <4>4. Term(f, g, s) = Term(f, h, s)
        BY <3>4, <4>2 DEF Term
      <4> QED
        BY <3>2, <4>3, <4>4
    <3> QED
      BY <3>3, <3>4
  <2>6. g[S] = f[Some(S)] + g[R]
    BY <1>2, <2>1, <2>3 DEF Solves, Term
  <2>7. g[R] = h[R]
    BY <2>5
  <2>8. SumFunctionOnSet(f, S) = f[Some(S)] + SumFunctionOnSet(f, R)
    BY <2>3, <2>4, <2>6, <2>7
  <2> QED
    BY <1>1, <2>1, <2>8
<1> QED
  BY <1>1, <1>2

\* A sum of natural numbers is one.
LEMMA SumIsNat ==
  ASSUME NEW f, NEW S, IsFiniteSet(S), \A i \in S : f[i] \in Nat
  PROVE  SumFunctionOnSet(f, S) \in Nat
<1> DEFINE B == {s \in SUBSET S : SumFunctionOnSet(f, s) \notin Nat}
<1> SUFFICES ASSUME B # {} PROVE FALSE
  OBVIOUS
<1>1. PICK s \in B : \A x \in s : s \ {x} \notin B
  <2>1. B \in SUBSET SUBSET S
    OBVIOUS
  <2> HIDE DEF B
  <2> QED
    BY <2>1, SmallestExists
<1>2. s \in SUBSET S /\ IsFiniteSet(s) /\ SumFunctionOnSet(f, s) \notin Nat
  BY <1>1, FS_Subset
<1>3. s # {}
  <2>1. SumFunctionOnSet(f, {}) = 0
    BY <1>2, SumUnfolds
  <2> QED
    BY <1>2, <2>1
<1>4. PICK x : x = Some(s)
  OBVIOUS
<1>5. x \in s /\ s \ {x} \in SUBSET S
  BY <1>2, <1>3, <1>4, SomeLess
<1>6. SumFunctionOnSet(f, s \ {x}) \in Nat
  BY <1>1, <1>5
<1>7. SumFunctionOnSet(f, s) = f[x] + SumFunctionOnSet(f, s \ {x})
  BY <1>2, <1>3, <1>4, SumUnfolds
<1>8. f[x] \in Nat
  BY <1>2, <1>5
<1> QED
  BY ONLY <1>2, <1>6, <1>7, <1>8

\* Nothing added is nothing.
LEMMA SumOfNothing ==
  ASSUME NEW f, NEW S, IsFiniteSet(S), \A i \in S : f[i] = 0
  PROVE  SumFunctionOnSet(f, S) = 0
<1> DEFINE B == {s \in SUBSET S : SumFunctionOnSet(f, s) # 0}
<1> SUFFICES ASSUME B # {} PROVE FALSE
  OBVIOUS
<1>1. PICK s \in B : \A x \in s : s \ {x} \notin B
  <2>1. B \in SUBSET SUBSET S
    OBVIOUS
  <2> HIDE DEF B
  <2> QED
    BY <2>1, SmallestExists
<1>2. s \in SUBSET S /\ IsFiniteSet(s) /\ SumFunctionOnSet(f, s) # 0
  BY <1>1, FS_Subset
<1>3. s # {}
  <2>1. SumFunctionOnSet(f, {}) = 0
    BY <1>2, SumUnfolds
  <2> QED
    BY <1>2, <2>1
<1>4. PICK x : x = Some(s)
  OBVIOUS
<1>5. x \in s /\ s \ {x} \in SUBSET S
  BY <1>2, <1>3, <1>4, SomeLess
<1>6. SumFunctionOnSet(f, s \ {x}) = 0
  BY <1>1, <1>5
<1>7. SumFunctionOnSet(f, s) = f[x] + SumFunctionOnSet(f, s \ {x})
  BY <1>2, <1>3, <1>4, SumUnfolds
<1> QED
  BY <1>2, <1>5, <1>6, <1>7

\* Larger terms have a sum no smaller.
LEMMA SumGrows ==
  ASSUME NEW f, NEW h, NEW S, IsFiniteSet(S),
         \A i \in S : f[i] \in Nat /\ h[i] \in Nat /\ f[i] <= h[i]
  PROVE  SumFunctionOnSet(f, S) <= SumFunctionOnSet(h, S)
<1> DEFINE B == {s \in SUBSET S : ~ SumFunctionOnSet(f, s) <= SumFunctionOnSet(h, s)}
<1> SUFFICES ASSUME B # {} PROVE FALSE
  OBVIOUS
<1>1. PICK s \in B : \A x \in s : s \ {x} \notin B
  <2>1. B \in SUBSET SUBSET S
    OBVIOUS
  <2> HIDE DEF B
  <2> QED
    BY <2>1, SmallestExists
<1>2. /\ s \in SUBSET S /\ IsFiniteSet(s)
      /\ ~ SumFunctionOnSet(f, s) <= SumFunctionOnSet(h, s)
  BY <1>1, FS_Subset
<1>3. s # {}
  <2>1. SumFunctionOnSet(f, {}) = 0 /\ SumFunctionOnSet(h, {}) = 0
    BY <1>2, SumUnfolds
  <2> QED
    BY <1>2, <2>1
<1>4. PICK x : x = Some(s)
  OBVIOUS
<1>5. PICK t : t = s \ {x}
  OBVIOUS
<1>6. x \in s /\ t \in SUBSET S /\ IsFiniteSet(t)
  BY <1>2, <1>3, <1>4, <1>5, SomeLess
<1>7. SumFunctionOnSet(f, t) <= SumFunctionOnSet(h, t)
  BY <1>1, <1>5, <1>6
<1>8. /\ SumFunctionOnSet(f, s) = f[x] + SumFunctionOnSet(f, t)
      /\ SumFunctionOnSet(h, s) = h[x] + SumFunctionOnSet(h, t)
  BY <1>2, <1>3, <1>4, <1>5, SumUnfolds
<1>9. SumFunctionOnSet(f, t) \in Nat /\ SumFunctionOnSet(h, t) \in Nat
  BY <1>6, SumIsNat
<1>10. f[x] \in Nat /\ h[x] \in Nat /\ f[x] <= h[x]
  BY <1>2, <1>6
<1> QED
  BY ONLY <1>2, <1>7, <1>8, <1>9, <1>10

\* Any member may be taken out first.
LEMMA SumTakesOut ==
  ASSUME NEW f, NEW S, IsFiniteSet(S), \A i \in S : f[i] \in Nat
  PROVE  \A x \in S : SumFunctionOnSet(f, S) = f[x] + SumFunctionOnSet(f, S \ {x})
<1> DEFINE Good(s) == \A x \in s : SumFunctionOnSet(f, s) = f[x] + SumFunctionOnSet(f, s \ {x})
           B == {s \in SUBSET S : ~ Good(s)}
<1> SUFFICES ASSUME B # {} PROVE FALSE
  OBVIOUS
<1>1. PICK s \in B : \A x \in s : s \ {x} \notin B
  <2>1. B \in SUBSET SUBSET S
    OBVIOUS
  <2> HIDE DEF B
  <2> QED
    BY <2>1, SmallestExists
<1>2. s \in SUBSET S /\ IsFiniteSet(s)
  BY <1>1, FS_Subset
<1>3. PICK x \in s : SumFunctionOnSet(f, s) # f[x] + SumFunctionOnSet(f, s \ {x})
  BY <1>1
<1>4. PICK y : y = Some(s)
  OBVIOUS
<1>5. y \in s /\ SumFunctionOnSet(f, s) = f[y] + SumFunctionOnSet(f, s \ {y})
  BY <1>2, <1>3, <1>4, SomeLess, SumUnfolds
<1>6. y # x
  BY <1>3, <1>5
<1>7. PICK t : t = s \ {x, y}
  OBVIOUS
<1>8. s \ {x} \in SUBSET S /\ Good(s \ {x}) /\ s \ {y} \in SUBSET S /\ Good(s \ {y})
  BY <1>1, <1>2, <1>3, <1>5
<1>9. SumFunctionOnSet(f, s \ {y}) = f[x] + SumFunctionOnSet(f, t)
  <2>1. x \in s \ {y} /\ (s \ {y}) \ {x} = t
    BY <1>3, <1>6, <1>7
  <2> QED
    BY <1>8, <2>1
<1>10. SumFunctionOnSet(f, s \ {x}) = f[y] + SumFunctionOnSet(f, t)
  <2>1. y \in s \ {x} /\ (s \ {x}) \ {y} = t
    BY <1>5, <1>6, <1>7
  <2> QED
    BY <1>8, <2>1
<1>11. f[x] \in Nat /\ f[y] \in Nat /\ SumFunctionOnSet(f, t) \in Nat
  <2>1. x \in S /\ y \in S /\ t \in SUBSET S /\ IsFiniteSet(t)
    BY <1>2, <1>3, <1>5, <1>7, FS_Subset
  <2> QED
    BY <2>1, SumIsNat
<1> QED
  BY <1>3, <1>5, <1>9, <1>10, <1>11

\* A part of a sum is no larger than all of it.
LEMMA SumOfPart ==
  ASSUME NEW f, NEW S, IsFiniteSet(S), \A i \in S : f[i] \in Nat, NEW T \in SUBSET S
  PROVE  SumFunctionOnSet(f, T) <= SumFunctionOnSet(f, S)
<1> DEFINE B == {s \in SUBSET S : T \subseteq s /\
                   ~ SumFunctionOnSet(f, T) <= SumFunctionOnSet(f, s)}
<1> SUFFICES ASSUME B # {} PROVE FALSE
  OBVIOUS
<1>1. PICK s \in B : \A x \in s : s \ {x} \notin B
  <2>1. B \in SUBSET SUBSET S
    OBVIOUS
  <2> HIDE DEF B
  <2> QED
    BY <2>1, SmallestExists
<1>2. /\ s \in SUBSET S /\ IsFiniteSet(s) /\ IsFiniteSet(T) /\ T \subseteq s
      /\ ~ SumFunctionOnSet(f, T) <= SumFunctionOnSet(f, s)
  BY <1>1, FS_Subset
<1>3. SumFunctionOnSet(f, T) \in Nat
  BY <1>2, SumIsNat
<1>4. PICK x \in s : x \notin T
  BY <1>2, <1>3
<1>5. PICK t : t = s \ {x}
  OBVIOUS
<1>6. t \in SUBSET S /\ IsFiniteSet(t) /\ T \subseteq t
  BY <1>2, <1>4, <1>5, FS_Subset
<1>7. SumFunctionOnSet(f, T) <= SumFunctionOnSet(f, t)
  BY <1>1, <1>5, <1>6
<1>8. SumFunctionOnSet(f, s) = f[x] + SumFunctionOnSet(f, t)
  BY <1>2, <1>5, SumTakesOut
<1>9. f[x] \in Nat /\ SumFunctionOnSet(f, t) \in Nat
  BY <1>2, <1>4, <1>6, SumIsNat
<1> QED
  BY <1>2, <1>3, <1>7, <1>8, <1>9

----------------------------------------------------------------------------
(* One control: what the guest driver describes and the backend accepts *)

\* Rounding up to words adds less than a word, and nothing to nothing.
LEMMA PadRoundsUp ==
  ASSUME NEW n \in Nat
  PROVE  Pad(n) \in Nat /\ n <= Pad(n) /\ Pad(0) = 0
<1>1. Word \in Nat \ {0}
  BY IoctlPathAssumption
<1>2. PICK m \in Nat : m = n + Word - 1
  BY <1>1
<1>3. PICK q \in Nat, r \in 0 .. Word - 1 : q = m \div Word /\ m = Word * q + r
  BY <1>1
<1>4. Word * q = m - r /\ Word * q \in Nat
  BY <1>1, <1>3
<1>5. Pad(n) = Word * q
  BY <1>2, <1>3 DEF Pad
<1>6. Pad(0) = 0
  <2>1. PICK k \in Nat, s \in 0 .. Word - 1 : k = (Word - 1) \div Word /\ Word - 1 = Word * k + s
    BY <1>1
  <2>2. k = 0
    <3>1. SUFFICES ASSUME k >= 1 PROVE FALSE
      BY <2>1
    <3>2. Word * k >= Word * 1
      BY <1>1, <2>1, <3>1
    <3> QED
      BY <1>1, <2>1, <3>2
  <2>3. 0 + Word - 1 = Word - 1
    BY <1>1
  <2> QED
    BY <1>1, <2>1, <2>2, <2>3 DEF Pad
<1> QED
  BY <1>1, <1>2, <1>3, <1>4, <1>5, <1>6

\* A layout has finitely many pointers, each read, written or both, and its table
\* fits in a request.
LEMMA LayoutIsFinite ==
  ASSUME NEW e \in Layouts \cup {<<>>}
  PROVE  /\ Len(e) \in Nat /\ IsFiniteSet(DOMAIN e) /\ Cardinality(DOMAIN e) = Len(e)
         /\ In(e) \cup Out(e) = DOMAIN e
         /\ e # <<>> => WordsFor(Len(e)) <= 2 * MaxBytes
<1>1. e \in Seq({"in", "out", "both"})
  <2>1. CASE e \in Layouts
    BY <2>1, IoctlPathAssumption
  <2>2. CASE e = <<>>
    BY <2>2
  <2> QED
    BY <2>1, <2>2
<1>2. Len(e) \in Nat /\ DOMAIN e = 1 .. Len(e)
  BY <1>1
<1>3. IsFiniteSet(DOMAIN e) /\ Cardinality(DOMAIN e) = Len(e)
  BY <1>2, FS_Interval
<1>4. In(e) \cup Out(e) = DOMAIN e
  BY DEF In, Out
<1>5. e # <<>> => WordsFor(Len(e)) <= 2 * MaxBytes
  BY IoctlPathAssumption DEF WordsFor
<1> QED
  BY <1>2, <1>3, <1>4, <1>5

\* The block of a control with this layout.
ControlBlock(e, b) ==
  b.ptr \in [DOMAIN e -> Addresses \cup {None}] /\ b.n \in [DOMAIN e -> Counts]

\* Its lengths and their padded forms can be summed.
LEMMA LengthsAdd ==
  ASSUME NEW e \in Layouts \cup {<<>>}, NEW b, ControlBlock(e, b), NEW S \in SUBSET DOMAIN e
  PROVE  /\ IsFiniteSet(S) /\ \A i \in DOMAIN e : b.n[i] \in Nat
         /\ SumFunctionOnSet(b.n, S) \in Nat /\ Padded(b.n, S) \in Nat
         /\ SumFunctionOnSet(b.n, S) <= Padded(b.n, S)
<1>1. IsFiniteSet(S)
  BY LayoutIsFinite, FS_Subset
<1>2. \A i \in DOMAIN e : b.n[i] \in Nat
  BY IoctlPathAssumption DEF ControlBlock
<1>3. PICK h : h = [i \in DOMAIN b.n |-> Pad(b.n[i])]
  OBVIOUS
<1>4. DOMAIN b.n = DOMAIN e
  BY DEF ControlBlock
<1>5. \A i \in S : b.n[i] \in Nat /\ h[i] \in Nat /\ b.n[i] <= h[i]
  BY <1>2, <1>3, <1>4, PadRoundsUp
<1>6. PICK n : n = b.n
  OBVIOUS
<1>7. /\ SumFunctionOnSet(n, S) \in Nat /\ SumFunctionOnSet(h, S) \in Nat
      /\ SumFunctionOnSet(n, S) <= SumFunctionOnSet(h, S)
  <2>1. \A i \in S : n[i] \in Nat /\ h[i] \in Nat /\ n[i] <= h[i]
    BY <1>5, <1>6
  <2> QED
    BY ONLY <1>1, <2>1, SumIsNat, SumGrows
<1>8. Padded(b.n, S) = SumFunctionOnSet(h, S)
  BY <1>3 DEF Padded
<1> QED
  BY <1>1, <1>2, <1>6, <1>7, <1>8

\* A segment is a pointer that is not null and its length, and there is one for all of
\* these or for none.
LEMMA Described ==
  ASSUME NEW e, NEW b
  PROVE  /\ DOMAIN Describe(e, b) \in {{}, Used(b)}
         /\ \A i \in DOMAIN Describe(e, b) :
              i \in Used(b) /\ Describe(e, b)[i] = [user |-> b.ptr[i], len |-> b.n[i]]
<1>1. PICK full : full <=> /\ \A i \in Used(b) : b.n[i] <= MaxBytes
                           /\ WordsFor(Len(e)) + Padded(b.n, Used(b)) <= 2 * MaxBytes
  OBVIOUS
<1>2. CASE full
  <2>1. Describe(e, b) = [i \in Used(b) |-> [user |-> b.ptr[i], len |-> b.n[i]]]
    BY <1>1, <1>2 DEF Describe
  <2> QED
    BY <2>1
<1>3. CASE ~ full
  <2>1. Describe(e, b) = <<>>
    BY <1>1, <1>3 DEF Describe
  <2> QED
    BY <2>1
<1> QED
  BY <1>2, <1>3

\* Where nothing is described there is no room, so nothing may come back.
LEMMA RepliesHaveRoom ==
  ASSUME NEW e \in Layouts \cup {<<>>}, NEW b, ControlBlock(e, b), NEW segs,
         DOMAIN segs = {}, Accepts(e, b, segs)
  PROVE  Replied(e, b) = {}
<1>1. Replied(e, b) \in SUBSET DOMAIN e
  BY DEF Replied, Out
<1>2. Padded(b.n, Replied(e, b)) \in Nat /\ IsFiniteSet(Replied(e, b))
  BY <1>1, LengthsAdd
<1>3. PICK k \in Nat : k = Cardinality(Replied(e, b))
  BY <1>2, FS_CardinalityType
<1>4. Room(e, segs) = 0
  BY DEF Room
<1>5. SUFFICES ASSUME Replied(e, b) # {} PROVE FALSE
  OBVIOUS
<1>6. WordsFor(k) + Padded(b.n, Replied(e, b)) <= 0
  BY <1>3, <1>4, <1>5 DEF Accepts, ReplyFits
<1>7. WordsFor(k) \in Nat \ {0}
  BY <1>3, IoctlPathAssumption DEF WordsFor
<1> QED
  BY <1>2, <1>6, <1>7

\* If nobody writes to the block between the two reads, what the guest driver could
\* describe is what the backend accepts.
LEMMA DescribedIffAccepted ==
  ASSUME NEW e \in Layouts \cup {<<>>}, NEW b, ControlBlock(e, b),
         NEW segs, segs = Describe(e, b)
  PROVE  Accepts(e, b, segs) <=> Used(b) = DOMAIN segs
<1> DEFINE Fits == /\ \A i \in Used(b) : b.n[i] <= MaxBytes
                   /\ WordsFor(Len(e)) + Padded(b.n, Used(b)) <= 2 * MaxBytes
<1>1. /\ DOMAIN b.n = DOMAIN e /\ DOMAIN b.ptr = DOMAIN e /\ Used(b) \in SUBSET DOMAIN e
      /\ Replied(e, b) \in SUBSET Used(b)
  BY DEF ControlBlock, Used, Replied
<1>2. \A i \in DOMAIN e : b.n[i] \in Nat
  BY <1>1, LengthsAdd
<1>3. /\ SumFunctionOnSet(b.n, Used(b)) \in Nat /\ Padded(b.n, Used(b)) \in Nat
      /\ SumFunctionOnSet(b.n, Used(b)) <= Padded(b.n, Used(b))
      /\ IsFiniteSet(Used(b))
  BY <1>1, LengthsAdd
<1>4. MaxBytes \in Nat /\ Word \in Nat \ {0} /\ Len(e) \in Nat /\ WordsFor(Len(e)) \in Nat
  BY IoctlPathAssumption, LayoutIsFinite DEF WordsFor
<1>5. ASSUME Used(b) = {} PROVE Accepts(e, b, segs) /\ DOMAIN segs = {}
  <2>1. SumFunctionOnSet(b.n, Used(b)) = 0
    BY <1>3, <1>5, SumUnfolds
  <2>2. Replied(e, b) = {}
    BY <1>1, <1>5
  <2>3. DOMAIN segs = {}
    BY <1>5, Described
  <2> QED
    BY <1>4, <1>5, <2>1, <2>2, <2>3 DEF Accepts, Sent, ReplyFits
<1>6. ASSUME Fits PROVE Accepts(e, b, segs) /\ Used(b) = DOMAIN segs
  <2>1. segs = [i \in Used(b) |-> [user |-> b.ptr[i], len |-> b.n[i]]]
    BY <1>6 DEF Describe
  <2>2. SumFunctionOnSet(b.n, Used(b)) <= 2 * MaxBytes
    BY <1>3, <1>4, <1>6
  <2>3. Sent(e, b, segs)
    BY <2>1 DEF Sent
  <2>4. CASE Replied(e, b) = {}
    BY <1>6, <2>1, <2>2, <2>3, <2>4 DEF Accepts, ReplyFits
  <2>5. CASE Replied(e, b) # {}
    <3>1. PICK k \in Nat : k = Cardinality(Replied(e, b)) /\ k <= Len(e)
      <4>1. IsFiniteSet(DOMAIN e) /\ Cardinality(DOMAIN e) = Len(e) /\ Replied(e, b) \subseteq DOMAIN e
        BY <1>1, LayoutIsFinite
      <4> QED
        BY <4>1, FS_Subset, FS_CardinalityType
    <3>2. WordsFor(k) <= WordsFor(Len(e)) /\ WordsFor(k) \in Nat
      <4>1. Word * k <= Word * Len(e)
        BY <1>4, <3>1
      <4> QED
        BY <1>4, <3>1, <4>1 DEF WordsFor
    <3>3. PICK h : h = [i \in DOMAIN b.n |-> Pad(b.n[i])]
      OBVIOUS
    <3>4. PICK l : l = [i \in DOMAIN segs |-> Pad([j \in DOMAIN segs |-> segs[j].len][i])]
      OBVIOUS
    <3>5. \A i \in Used(b) : h[i] \in Nat /\ l[i] \in Nat /\ h[i] = l[i]
      BY <1>1, <1>2, <2>1, <3>3, <3>4, PadRoundsUp
    <3>6. SumFunctionOnSet(h, Replied(e, b)) <= SumFunctionOnSet(h, Used(b))
      <4>1. \A i \in Used(b) : h[i] \in Nat
        BY <3>5
      <4> QED
        BY ONLY <1>1, <1>3, <4>1, SumOfPart
    <3>7. SumFunctionOnSet(h, Used(b)) <= SumFunctionOnSet(l, Used(b))
      <4>1. \A i \in Used(b) : h[i] \in Nat /\ l[i] \in Nat /\ h[i] <= l[i]
        BY <3>5
      <4> QED
        BY ONLY <1>3, <4>1, SumGrows
    <3>8. /\ SumFunctionOnSet(h, Replied(e, b)) \in Nat
          /\ SumFunctionOnSet(h, Used(b)) \in Nat /\ SumFunctionOnSet(l, Used(b)) \in Nat
      <4>1. \A i \in Used(b) : h[i] \in Nat /\ l[i] \in Nat
        BY <3>5
      <4>2. IsFiniteSet(Replied(e, b)) /\ \A i \in Replied(e, b) : h[i] \in Nat
        BY <1>1, <1>3, <4>1, FS_Subset
      <4> QED
        BY ONLY <1>3, <4>1, <4>2, SumIsNat
    <3>9. Padded(b.n, Replied(e, b)) = SumFunctionOnSet(h, Replied(e, b))
      BY <3>3 DEF Padded
    <3>10. Room(e, segs) = WordsFor(Len(e)) + SumFunctionOnSet(l, Used(b))
      <4>1. DOMAIN segs = Used(b) /\ DOMAIN segs # {}
        BY <1>1, <2>1, <2>5
      <4>2. Padded([j \in DOMAIN segs |-> segs[j].len], DOMAIN segs) = SumFunctionOnSet(l, DOMAIN segs)
        BY <3>4 DEF Padded
      <4> QED
        BY <4>1, <4>2 DEF Room
    <3>11. WordsFor(k) + Padded(b.n, Replied(e, b)) <= Room(e, segs)
      BY ONLY <1>4, <3>2, <3>6, <3>7, <3>8, <3>9, <3>10
    <3>12. ReplyFits(e, b, Room(e, segs))
      BY <3>1, <3>11 DEF ReplyFits
    <3> QED
      BY <1>6, <2>1, <2>2, <2>3, <3>12 DEF Accepts
  <2> QED
    BY <2>4, <2>5
<1>7. ASSUME ~ Fits, Used(b) # {} PROVE ~ Accepts(e, b, segs) /\ Used(b) # DOMAIN segs
  <2>1. segs = <<>> /\ DOMAIN segs = {}
    BY <1>7 DEF Describe
  <2>2. SUFFICES ASSUME Accepts(e, b, segs) PROVE FALSE
    BY <1>7, <2>1
  <2>3. Replied(e, b) = {}
    BY <2>1, <2>2, RepliesHaveRoom
  <2>4. \A i \in Used(b) : b.n[i] = 0
    <3>1. ASSUME NEW i \in Used(b), b.n[i] > 0 PROVE FALSE
      <4>1. i \in In(e) \/ i \in Out(e)
        BY <1>1, LayoutIsFinite
      <4>2. CASE i \in In(e)
        BY <2>1, <2>2, <3>1, <4>2 DEF Accepts, Sent
      <4>3. CASE i \in Out(e)
        BY <2>3, <3>1, <4>3 DEF Replied
      <4> QED
        BY <4>1, <4>2, <4>3
    <3> QED
      BY <1>1, <1>2, <3>1
  <2>5. Padded(b.n, Used(b)) = 0
    <3>1. PICK h : h = [i \in DOMAIN b.n |-> Pad(b.n[i])]
      OBVIOUS
    <3>2. \A i \in Used(b) : h[i] = 0
      BY <1>1, <2>4, <3>1, PadRoundsUp
    <3>3. SumFunctionOnSet(h, Used(b)) = 0
      BY ONLY <1>3, <3>2, SumOfNothing
    <3> QED
      BY <3>1, <3>3 DEF Padded
  <2>6. WordsFor(Len(e)) <= 2 * MaxBytes
    <3>1. e # <<>>
      BY <1>1, <1>7
    <3> QED
      BY <3>1, LayoutIsFinite
  <2>7. Fits
    BY <1>4, <2>4, <2>5, <2>6
  <2> QED
    BY <1>7, <2>7
<1> QED
  BY <1>5, <1>6, <1>7

----------------------------------------------------------------------------
(* The invariant: what is known of a call at each stage.  Up to the answer   *)
(* it is about the copy the guest driver sent, for the parameters themselves *)
(* may have been written to since.                                           *)

Books ==
  /\ table \in [Descriptors -> Files \cup {None}]
  /\ opened \subseteq Files /\ denied \subseteq UvmFiles

Parts == {"op", "layout", "file", "stage", "first", "segs", "fd", "meant", "sent", "passed",
          "ok", "seen", "wrote"}

\* The call a thread made: these parts stay as they are.
Made(c) ==
  /\ DOMAIN c = Parts
  /\ c.file \in Files /\ c.op \in OpsOn(c.file)
  /\ c.stage \in {"asked", "sent", "served", "returned"}
  /\ c.layout \in Layouts \cup {<<>>}
  /\ c.first \in Blocks(c.op, c.layout)
  /\ c.segs = IF c.op = "control" THEN Describe(c.layout, c.first) ELSE <<>>

\* Nothing has been sent yet.
Waiting(c, b) ==
  c.stage = "asked" =>
    /\ b \in Blocks(c.op, c.layout)
    /\ c.passed = None /\ c.ok = FALSE /\ c.wrote = {} /\ c.meant = None

\* The request is the block, with a handle in place of a descriptor that named a file.
Translated(c) ==
  c.stage # "asked" =>
    /\ c.sent.ptr \in [Pointers(c.op, c.layout) -> Addresses \cup {None}]
    /\ c.op = "control" => c.sent.n \in [Pointers(c.op, c.layout) -> Counts]
    /\ c.meant \in Files \cup {None}
    /\ c.sent.fd = IF c.meant = None THEN c.fd ELSE c.meant
    /\ c.op \notin Naming => c.fd = NoFd /\ c.meant = None

\* The host driver has seen nothing yet, and a UVM call goes without a file only if it
\* names none.
OnTheWire(c) ==
  c.stage = "sent" =>
    /\ c.passed = None
    /\ c.op \in {"register", "mm"} /\ c.meant = None => c.fd = NoFd

\* A control RM has run.
Taken(c) ==
  c.stage = "served" /\ c.op = "control" /\ c.passed # None =>
    /\ Accepts(c.layout, c.sent, c.segs)
    /\ c.passed.ptr =
         [i \in DOMAIN c.sent.ptr |-> IF c.sent.ptr[i] = None THEN None ELSE Host(i)]
    /\ c.passed.bufs = Install(c.layout, c.sent, c.segs)

\* CallerGetsItsOwnBack, of call c.
GotBack(c) ==
  c.stage = "returned" =>
    /\ c.ok =>
         /\ c.seen.outer = Block /\ c.seen.ptr = c.sent.ptr
         /\ c.seen.fd \in {c.fd} \cup ({c.meant} \ {None})
         /\ c.op = "share" => c.seen.fd = c.fd
    /\ \A w \in c.wrote : \E i \in Used(c.first) :
         w.addr = c.first.ptr[i] /\ w.len <= c.first.n[i]
    /\ c.ok /\ c.op = "control" /\ c.passed # None /\ c.sent = c.first =>
         c.wrote = {[addr |-> c.sent.ptr[i], len |-> c.sent.n[i]] :
                      i \in Replied(c.layout, c.sent)}

CallInv(c, b) ==
  Made(c) /\ Waiting(c, b) /\ Translated(c) /\ OnTheWire(c) /\ Taken(c) /\ GotBack(c)

IoctlInv == Books /\ (call # None => CallInv(call, block))

\* No call is under way and no file is open at first.
LEMMA InitOk == Init => IoctlInv
BY DEF Init, IoctlInv, Books, Range

\* A step of the guest driver that sends the request.
LEMMA SubmitKeeps ==
  ASSUME IoctlInv, call # None, call.stage = "asked", call' = Submitted,
         call.op \in {"register", "mm"} => Named # None \/ block.fd = NoFd,
         UNCHANGED sending
  PROVE  IoctlInv'
<1>1. Books'
  BY DEF IoctlInv, Books, sending
<1>2. Made(call) /\ block \in Blocks(call.op, call.layout)
  BY DEF IoctlInv, CallInv, Waiting
<1>3. Named \in Files \cup {None}
  BY DEF IoctlInv, Books, Named
<1>4. PICK s : s = [block EXCEPT !.fd = IF Named = None THEN @ ELSE Named]
  OBVIOUS
<1>5. PICK c : c = call'
  OBVIOUS
<1>6. /\ c = [call EXCEPT !.stage = "sent", !.fd = block.fd, !.meant = Named, !.sent = s]
      /\ DOMAIN c = Parts
  BY <1>2, <1>4, <1>5 DEF Submitted, Made
<1>7. /\ c.stage = "sent" /\ c.fd = block.fd /\ c.meant = Named /\ c.sent = s
      /\ c.op = call.op /\ c.layout = call.layout /\ c.file = call.file /\ c.first = call.first
      /\ c.segs = call.segs /\ c.passed = call.passed /\ c.ok = call.ok /\ c.wrote = call.wrote
  BY <1>2, <1>6 DEF Made, Parts
<1>8. Made(c)
  BY <1>2, <1>6, <1>7 DEF Made
<1>9. Waiting(c, block') /\ Taken(c) /\ GotBack(c)
  BY <1>7 DEF Waiting, Taken, GotBack
<1>10. /\ s.ptr = block.ptr /\ s.n = block.n
       /\ s.fd = IF Named = None THEN block.fd ELSE Named
  BY <1>2, <1>4 DEF Blocks
<1>11. call.op \notin Naming => block.fd = NoFd /\ Named = None
  BY <1>2, IoctlPathAssumption DEF Blocks, Named
<1>12. Translated(c)
  BY <1>2, <1>3, <1>7, <1>10, <1>11 DEF Translated, Blocks
<1>13. OnTheWire(c)
  <2>1. call.passed = None
    BY DEF IoctlInv, CallInv, Waiting
  <2> QED
    BY <1>7, <2>1 DEF OnTheWire
<1> QED
  BY <1>1, <1>5, <1>8, <1>9, <1>12, <1>13 DEF IoctlInv, CallInv

\* A step of the guest driver that refuses it.
LEMMA GiveBackKeeps ==
  ASSUME IoctlInv, call # None, call.stage = "asked", call' = GivenBack, call.op \in Naming,
         UNCHANGED sending
  PROVE  IoctlInv'
<1>1. Books'
  BY DEF IoctlInv, Books, sending
<1>2. /\ Made(call) /\ block \in Blocks(call.op, call.layout)
      /\ call.passed = None /\ call.ok = FALSE /\ call.wrote = {} /\ call.meant = None
  BY DEF IoctlInv, CallInv, Waiting
<1>3. PICK c : c = call'
  OBVIOUS
<1>4. /\ c.stage = "returned" /\ c.sent = block /\ c.fd = block.fd
      /\ c.meant = None /\ DOMAIN c = Parts
      /\ c.op = call.op /\ c.layout = call.layout /\ c.file = call.file /\ c.first = call.first
      /\ c.segs = call.segs /\ c.passed = None /\ c.ok = FALSE /\ c.wrote = {}
  BY <1>2, <1>3 DEF GivenBack, Made, Parts
<1>5. Made(c)
  BY <1>2, <1>4 DEF Made
<1>6. Waiting(c, block') /\ Taken(c) /\ GotBack(c) /\ OnTheWire(c)
  BY <1>4 DEF Waiting, Taken, GotBack, OnTheWire
<1>7. Translated(c)
  BY <1>2, <1>4 DEF Translated, Blocks
<1> QED
  BY <1>1, <1>3, <1>5, <1>6, <1>7 DEF IoctlInv, CallInv

\* A step of the backend that answers the request.
LEMMA ServeKeeps ==
  ASSUME IoctlInv, call # None, call.stage = "sent", NEW passed, NEW ok \in BOOLEAN,
         call' = Served(passed, ok), UNCHANGED <<table, block, opened>>,
         denied' \subseteq UvmFiles,
         call.op = "control" /\ passed # None =>
           /\ Accepts(call.layout, call.sent, call.segs)
           /\ passed.ptr =
                [i \in DOMAIN call.sent.ptr |->
                   IF call.sent.ptr[i] = None THEN None ELSE Host(i)]
           /\ passed.bufs = Install(call.layout, call.sent, call.segs)
  PROVE  IoctlInv'
<1>1. Books'
  BY DEF IoctlInv, Books
<1>2. Made(call) /\ Translated(call)
  BY DEF IoctlInv, CallInv
<1>3. PICK c : c = call'
  OBVIOUS
<1>4. /\ c.stage = "served" /\ c.passed = passed /\ c.ok = ok /\ DOMAIN c = Parts
      /\ c.op = call.op /\ c.layout = call.layout /\ c.file = call.file /\ c.first = call.first
      /\ c.segs = call.segs /\ c.sent = call.sent /\ c.fd = call.fd /\ c.meant = call.meant
  BY <1>2, <1>3 DEF Served, Made, Parts
<1>5. Made(c)
  BY <1>2, <1>4 DEF Made
<1>6. Waiting(c, block') /\ OnTheWire(c) /\ GotBack(c)
  BY <1>4 DEF Waiting, OnTheWire, GotBack
<1>7. Translated(c)
  BY <1>2, <1>4 DEF Translated
<1>8. Taken(c)
  BY <1>4 DEF Taken
<1> QED
  BY <1>1, <1>3, <1>5, <1>6, <1>7, <1>8 DEF IoctlInv, CallInv

\* A refusal.
LEMMA RefuseKeeps ==
  ASSUME IoctlInv, call # None, call.stage = "sent", NEW ok \in BOOLEAN, Refuse(ok),
         UNCHANGED <<table, block, opened>>, denied' \subseteq UvmFiles
  PROVE  IoctlInv'
BY ServeKeeps DEF Refuse

\* The host driver is called.
LEMMA ForwardKeeps ==
  ASSUME IoctlInv, call # None, call.stage = "sent", NEW ptr, NEW bufs, NEW fd,
         Forward(ptr, bufs, fd), UNCHANGED <<table, block, opened>>, denied' \subseteq UvmFiles,
         call.op = "control" =>
           /\ Accepts(call.layout, call.sent, call.segs)
           /\ ptr = [i \in DOMAIN call.sent.ptr |->
                       IF call.sent.ptr[i] = None THEN None ELSE Host(i)]
           /\ bufs = Install(call.layout, call.sent, call.segs)
  PROVE  IoctlInv'
<1>1. PICK ok \in BOOLEAN :
        call' = Served([outer |-> IF call.op \in Nested THEN Host(0) ELSE Block,
                        ptr |-> ptr, bufs |-> bufs, fd |-> fd], ok)
  BY DEF Forward
<1>2. PICK p : p = [outer |-> IF call.op \in Nested THEN Host(0) ELSE Block,
                    ptr |-> ptr, bufs |-> bufs, fd |-> fd]
  OBVIOUS
<1>3. p.ptr = ptr /\ p.bufs = bufs
  BY <1>2
<1> QED
  BY <1>1, <1>2, <1>3, ServeKeeps

\* Which operations a file has, and that the three kinds have none in common.
LEMMA OpsByKind ==
  ASSUME NEW f \in Files, NEW op \in OpsOn(f)
  PROVE  /\ op \in {"control", "share", "event", "named", "register", "mm", "initialize", "gem"}
         /\ op \in {"register", "mm", "initialize"} <=> f \in UvmFiles
<1>1. CtlFiles \cap UvmFiles = {} /\ CtlFiles \cap DrmFiles = {} /\ UvmFiles \cap DrmFiles = {}
  BY IoctlPathAssumption
<1>2. CASE f \in CtlFiles
  BY <1>1, <1>2 DEF OpsOn
<1>3. CASE f \in UvmFiles
  <2>1. OpsOn(f) = {"register", "mm", "initialize"}
    BY <1>1, <1>3 DEF OpsOn
  <2> QED
    BY <1>3, <2>1
<1>4. CASE f \in DrmFiles
  <2>1. OpsOn(f) = {"gem"} /\ f \notin UvmFiles
    BY <1>1, <1>4 DEF OpsOn
  <2> QED
    BY <2>1
<1> QED
  BY <1>2, <1>3, <1>4 DEF Files

\* A process enters a call: what it means by it is what its buffers say.
LEMMA AskKeeps ==
  ASSUME IoctlInv, NEW d \in Descriptors, NEW op \in OpsOn(table[d]),
         NEW e \in Layouts \cup {<<>>}, Ask(d, op, e)
  PROVE  IoctlInv'
<1>1. Books'
  BY DEF IoctlInv, Books, Ask
<1>2. table[d] \in Files
  BY DEF IoctlInv, Books, Ask
<1>3. PICK c : c = call'
  OBVIOUS
<1>4. PICK segs : segs = IF op = "control" THEN Describe(e, block') ELSE <<>>
  OBVIOUS
<1>5. c = [op |-> op, layout |-> e, file |-> table[d], stage |-> "asked", first |-> block',
           segs |-> segs, fd |-> NoFd, meant |-> None, sent |-> None, passed |-> None,
           ok |-> FALSE, seen |-> None, wrote |-> {}]
  BY <1>3, <1>4 DEF Ask
<1>6. block' \in Blocks(op, e)
  BY DEF Ask
<1>7. /\ DOMAIN c = Parts /\ c.op = op /\ c.layout = e /\ c.file = table[d]
      /\ c.stage = "asked" /\ c.first = block' /\ c.segs = segs
      /\ c.passed = None /\ c.ok = FALSE /\ c.wrote = {} /\ c.meant = None
  BY <1>5 DEF Parts
<1>8. Made(c)
  BY <1>2, <1>4, <1>6, <1>7 DEF Made
<1>9. Waiting(c, block')
  BY <1>6, <1>7 DEF Waiting
<1>10. Translated(c) /\ OnTheWire(c) /\ Taken(c) /\ GotBack(c)
  BY <1>7 DEF Translated, OnTheWire, Taken, GotBack
<1> QED
  BY <1>1, <1>3, <1>8, <1>9, <1>10 DEF IoctlInv, CallInv

\* What is written to the caller's memory on success.
LEMMA CopyOutIsDescribed ==
  ASSUME NEW c, Made(c), c.op = "control"
  PROVE  /\ \A w \in CopyOut(c) : \E i \in Used(c.first) :
              w.addr = c.first.ptr[i] /\ w.len <= c.first.n[i]
         /\ c.sent = c.first /\ Accepts(c.layout, c.sent, c.segs) =>
              CopyOut(c) = {[addr |-> c.sent.ptr[i], len |-> c.sent.n[i]] :
                              i \in Replied(c.layout, c.sent)}
<1>1. c.segs = Describe(c.layout, c.first)
  BY DEF Made
<1>2. /\ DOMAIN c.segs \in {{}, Used(c.first)}
      /\ \A i \in DOMAIN c.segs :
           /\ i \in Used(c.first)
           /\ c.segs[i].user = c.first.ptr[i] /\ c.segs[i].len = c.first.n[i]
  BY <1>1, Described
<1>3. ASSUME NEW w \in CopyOut(c)
      PROVE  \E i \in Used(c.first) : w.addr = c.first.ptr[i] /\ w.len <= c.first.n[i]
  <2>1. PICK i \in DOMAIN c.segs : /\ w = [addr |-> c.segs[i].user, len |-> c.sent.n[i]]
                                   /\ c.sent.n[i] <= c.segs[i].len
    BY <1>3 DEF CopyOut
  <2>2. i \in Used(c.first) /\ w.addr = c.first.ptr[i] /\ w.len <= c.first.n[i]
    BY <1>2, <2>1
  <2> QED
    BY <2>2
<1>4. ASSUME c.sent = c.first, Accepts(c.layout, c.sent, c.segs)
      PROVE  CopyOut(c) = {[addr |-> c.sent.ptr[i], len |-> c.sent.n[i]] :
                             i \in Replied(c.layout, c.sent)}
  <2>1. ControlBlock(c.layout, c.sent) /\ c.layout \in Layouts \cup {<<>>}
    BY <1>4 DEF Made, Blocks, Pointers, ControlBlock
  <2>2. Replied(c.layout, c.sent) \subseteq DOMAIN c.segs
    <3>1. CASE DOMAIN c.segs = {}
      BY <1>4, <2>1, <3>1, RepliesHaveRoom
    <3>2. CASE DOMAIN c.segs = Used(c.first)
      BY <1>4, <3>2 DEF Replied
    <3> QED
      BY <1>2, <3>1, <3>2
  <2>3. \A i \in Replied(c.layout, c.sent) :
          /\ c.segs[i].user = c.sent.ptr[i]
          /\ c.segs[i].len = c.sent.n[i] /\ c.sent.n[i] <= c.segs[i].len
    <3>1. \A i \in DOMAIN c.layout : c.sent.n[i] \in Nat
      <4>1. {} \in SUBSET DOMAIN c.layout
        OBVIOUS
      <4> QED
        BY <2>1, <4>1, LengthsAdd
    <3>2. Replied(c.layout, c.sent) \subseteq DOMAIN c.layout
      BY DEF Replied, Out
    <3> QED
      BY <1>2, <1>4, <2>2, <3>1, <3>2
  <2>4. PICK R : R = Replied(c.layout, c.sent)
    OBVIOUS
  <2>5. CopyOut(c) = {[addr |-> c.segs[i].user, len |-> c.sent.n[i]] : i \in R}
    <3>1. {j \in R \cap DOMAIN c.segs : c.sent.n[j] <= c.segs[j].len} = R
      BY <2>2, <2>3, <2>4
    <3> QED
      BY <2>4, <3>1 DEF CopyOut
  <2>6. \A i \in R : c.segs[i].user = c.sent.ptr[i]
    BY <2>3, <2>4
  <2> QED
    BY <2>4, <2>5, <2>6
<1> QED
  BY <1>3, <1>4

\* The thread has its answer: what the backend replaced is the process's own again.
LEMMA ReturnKeeps ==
  ASSUME IoctlInv, Return
  PROVE  IoctlInv'
<1>1. Books'
  BY DEF IoctlInv, Books, Return
<1>2. /\ call # None /\ call.stage = "served"
      /\ Made(call) /\ Translated(call) /\ Taken(call)
  BY DEF IoctlInv, CallInv, Return
<1>3. PICK c : c = call'
  OBVIOUS
<1>4. \E seen, wrote : c = [call EXCEPT !.stage = "returned", !.seen = seen, !.wrote = wrote]
  BY <1>3, ZenonT(60) DEF Return
<1>5. /\ c.stage = "returned" /\ DOMAIN c = Parts
      /\ c.op = call.op /\ c.layout = call.layout /\ c.file = call.file /\ c.first = call.first
      /\ c.segs = call.segs /\ c.sent = call.sent /\ c.fd = call.fd /\ c.meant = call.meant
      /\ c.passed = call.passed /\ c.ok = call.ok
  BY <1>2, <1>4 DEF Made, Parts
<1>6. Made(c)
  BY <1>2, <1>5 DEF Made
<1>7. Waiting(c, block') /\ OnTheWire(c) /\ Taken(c)
  BY <1>5 DEF Waiting, OnTheWire, Taken
<1>8. Translated(c)
  BY <1>2, <1>5 DEF Translated
<1>9. GotBack(c)
  <2>1. CASE call.ok
    <3>1. PICK wrote : wrote = IF call.op = "control" /\ call.passed # None
                               THEN CopyOut(call) ELSE {}
      OBVIOUS
    <3>2. PICK fd : fd = IF call.op = "share" /\ call.meant # None THEN call.fd
                         ELSE call.sent.fd
      OBVIOUS
    <3>3. c = [call EXCEPT !.stage = "returned",
                 !.seen = [outer |-> Block, ptr |-> call.sent.ptr, fd |-> fd],
                 !.wrote = wrote]
      BY <1>3, <2>1, <3>1, <3>2 DEF Return, Restored
    <3>4. /\ c.seen.outer = Block /\ c.seen.ptr = call.sent.ptr /\ c.seen.fd = fd
          /\ c.wrote = wrote
      BY <1>2, <3>3 DEF Made, Parts
    <3>5. fd \in {call.fd} \cup ({call.meant} \ {None}) /\ (call.op = "share" => fd = call.fd)
      BY <1>2, <3>2 DEF Translated
    <3>6. \A w \in wrote : \E i \in Used(call.first) :
            w.addr = call.first.ptr[i] /\ w.len <= call.first.n[i]
      BY <1>2, <3>1, CopyOutIsDescribed
    <3>7. call.op = "control" /\ call.passed # None /\ call.sent = call.first =>
            wrote = {[addr |-> call.sent.ptr[i], len |-> call.sent.n[i]] :
                       i \in Replied(call.layout, call.sent)}
      BY <1>2, <3>1, CopyOutIsDescribed DEF Taken
    <3> QED
      BY <1>5, <3>4, <3>5, <3>6, <3>7 DEF GotBack
  <2>2. CASE ~ call.ok
    <3>1. PICK W \in SUBSET DOMAIN call.segs :
            \E seen : c = [call EXCEPT !.stage = "returned", !.seen = seen,
              !.wrote = {[addr |-> call.segs[i].user, len |-> call.segs[i].len] : i \in W}]
      BY <1>3, <2>2 DEF Return
    <3>2. c.wrote = {[addr |-> call.segs[i].user, len |-> call.segs[i].len] : i \in W}
      BY <1>2, <3>1 DEF Made, Parts
    <3>3. ASSUME NEW w \in c.wrote
          PROVE  \E i \in Used(call.first) :
                   w.addr = call.first.ptr[i] /\ w.len <= call.first.n[i]
      <4>1. PICK i \in W : w = [addr |-> call.segs[i].user, len |-> call.segs[i].len]
        BY <3>2, <3>3
      <4>2. call.op = "control" /\ i \in DOMAIN call.segs
        BY <1>2, <4>1 DEF Made
      <4>3. /\ i \in Used(call.first) /\ call.segs[i].user = call.first.ptr[i]
            /\ call.segs[i].len = call.first.n[i]
        BY <1>2, <4>2, Described DEF Made
      <4>4. call.first.n[i] <= call.first.n[i]
        <5>1. ControlBlock(call.layout, call.first) /\ call.layout \in Layouts \cup {<<>>}
          BY <1>2, <4>2 DEF Made, Blocks, Pointers, ControlBlock
        <5>2. {} \in SUBSET DOMAIN call.layout /\ i \in DOMAIN call.layout
          BY <4>3, <5>1 DEF Used, ControlBlock
        <5>3. call.first.n[i] \in Nat
          BY <5>1, <5>2, LengthsAdd
        <5> QED
          BY <5>3
      <4> QED
        BY <4>1, <4>3, <4>4
    <3> QED
      BY <1>5, <2>2, <3>3 DEF GotBack
  <2> QED
    BY <2>1, <2>2
<1> QED
  BY <1>1, <1>3, <1>6, <1>7, <1>8, <1>9 DEF IoctlInv, CallInv

\* The steps of the guest driver.
LEMMA GuestKeeps ==
  ASSUME IoctlInv, SendControl \/ SendAlloc \/ SendSimple \/ SendNamed \/ SendGem
  PROVE  IoctlInv'
<1>1. call # None /\ call.stage = "asked" /\ UNCHANGED sending
  BY DEF SendControl, SendAlloc, SendSimple, SendNamed, SendGem, Asking
<1>2. CASE SendControl
  BY <1>1, <1>2, SubmitKeeps DEF SendControl, Asking
<1>3. CASE SendAlloc
  BY <1>1, <1>3, SubmitKeeps DEF SendAlloc, Asking
<1>4. CASE SendSimple
  BY <1>1, <1>4, SubmitKeeps DEF SendSimple, Asking
<1>5. CASE SendNamed
  <2>1. call.op \in {"named", "register", "mm"} /\ call.op \in Naming
    BY <1>5 DEF SendNamed, Asking, Naming
  <2>2. CASE Named = None /\ block.fd # NoFd
    BY <1>1, <1>5, <2>1, <2>2, GiveBackKeeps DEF SendNamed
  <2>3. CASE ~ (Named = None /\ block.fd # NoFd)
    BY <1>1, <1>5, <2>1, <2>3, SubmitKeeps DEF SendNamed
  <2> QED
    BY <2>2, <2>3
<1>6. CASE SendGem
  <2>1. call.op = "gem" /\ call.op \in Naming
    BY <1>6 DEF SendGem, Asking, Naming
  <2>2. CASE Named = None
    BY <1>1, <1>6, <2>1, <2>2, GiveBackKeeps DEF SendGem
  <2>3. CASE Named # None
    BY <1>1, <1>6, <2>1, <2>3, SubmitKeeps DEF SendGem
  <2> QED
    BY <2>2, <2>3
<1> QED
  BY <1>2, <1>3, <1>4, <1>5, <1>6

\* The steps of the backend.
LEMMA BackendKeeps ==
  ASSUME IoctlInv,
         RefuseCommand \/ ServeControl \/ ServeNested \/ ServeNamed \/ ServeUvm \/ Initialize
  PROVE  IoctlInv'
<1>1. call # None /\ call.stage = "sent" /\ UNCHANGED <<table, block, opened>>
  BY DEF RefuseCommand, ServeControl, ServeNested, ServeNamed, ServeUvm, Initialize, Serving
<1>2. denied \subseteq UvmFiles /\ call.file \in Files /\ call.op \in OpsOn(call.file)
  BY <1>1 DEF IoctlInv, Books, CallInv, Made
<1>3. CASE RefuseCommand
  <2>1. denied' \subseteq UvmFiles
    BY <1>2, <1>3 DEF RefuseCommand
  <2>2. PICK ok \in BOOLEAN : Refuse(ok)
    BY <1>3 DEF RefuseCommand
  <2> QED
    BY <1>1, <2>1, <2>2, RefuseKeeps
<1>4. CASE ServeControl
  <2>1. denied' \subseteq UvmFiles
    BY <1>2, <1>4 DEF ServeControl
  <2>2. CASE Accepts(call.layout, call.sent, call.segs)
    <3>1. Forward([i \in DOMAIN call.sent.ptr |->
                     IF call.sent.ptr[i] = None THEN None ELSE Host(i)],
                  Install(call.layout, call.sent, call.segs), NoFd)
      BY <1>4, <2>2 DEF ServeControl
    <3> QED
      BY <1>1, <2>1, <2>2, <3>1, ForwardKeeps
  <2>3. CASE ~ Accepts(call.layout, call.sent, call.segs)
    BY <1>1, <1>4, <2>1, <2>3, RefuseKeeps DEF ServeControl
  <2> QED
    BY <2>2, <2>3
<1>5. CASE ServeNested
  <2>1. denied' \subseteq UvmFiles /\ call.op # "control"
    BY <1>2, <1>5 DEF ServeNested, Serving
  <2>2. Refuse(FALSE) \/ \E fd : Forward(Rights(call.sent), <<>>, fd)
    BY <1>5 DEF ServeNested
  <2> QED
    BY <1>1, <2>1, <2>2, RefuseKeeps, ForwardKeeps
<1>6. CASE ServeNamed
  <2>1. denied' \subseteq UvmFiles /\ call.op # "control"
    BY <1>2, <1>6 DEF ServeNamed, Serving
  <2>2. Refuse(FALSE) \/ \E fd : Forward(<<>>, <<>>, fd)
    BY <1>6 DEF ServeNamed
  <2> QED
    BY <1>1, <2>1, <2>2, RefuseKeeps, ForwardKeeps
<1>7. CASE ServeUvm
  <2>1. denied' \subseteq UvmFiles /\ call.op # "control"
    BY <1>2, <1>7 DEF ServeUvm, Serving
  <2>2. Refuse(FALSE) \/ \E fd : Forward(<<>>, <<>>, fd)
    BY <1>7 DEF ServeUvm
  <2> QED
    BY <1>1, <2>1, <2>2, RefuseKeeps, ForwardKeeps
<1>8. CASE Initialize
  <2>1. call.op = "initialize"
    BY <1>8 DEF Initialize, Serving
  <2>2. call.file \in UvmFiles
    BY <1>2, <2>1, OpsByKind
  <2>3. denied' \subseteq UvmFiles
    BY <1>2, <1>8, <2>2 DEF Initialize
  <2>4. CASE Refuse(FALSE)
    BY <1>1, <2>3, <2>4, RefuseKeeps
  <2>5. CASE Forward(<<>>, <<>>, NoFd)
    BY <1>1, <2>1, <2>3, <2>5, ForwardKeeps
  <2>6. CASE call' = Served([outer |-> Block, ptr |-> <<>>, bufs |-> <<>>, fd |-> NoFd], FALSE)
    BY <1>1, <2>1, <2>3, <2>6, ServeKeeps
  <2> QED
    BY <1>8, <2>4, <2>5, <2>6 DEF Initialize
<1> QED
  BY <1>3, <1>4, <1>5, <1>6, <1>7, <1>8

\* The steps of the other threads, and of RM.
LEMMA OthersKeep ==
  ASSUME IoctlInv,
         \/ Rewrite
         \/ \E d \in Descriptors, f \in Files \cup {None} : Rebind(d, f)
         \/ \E f \in CtlFiles, c \in Clients : NoteClient(f, c)
  PROVE  IoctlInv'
<1>1. CASE Rewrite
  <2>1. Books' /\ call' = call /\ call # None
    BY <1>1 DEF IoctlInv, Books, Rewrite
  <2>2. Waiting(call, block')
    BY <1>1 DEF IoctlInv, CallInv, Waiting, Rewrite
  <2> QED
    BY <2>1, <2>2 DEF IoctlInv, CallInv
<1>2. ASSUME NEW d \in Descriptors, NEW f \in Files \cup {None}, Rebind(d, f) PROVE IoctlInv'
  <2>1. Books' /\ call' = call /\ block' = block
    BY <1>2 DEF IoctlInv, Books, Rebind
  <2> QED
    BY <2>1 DEF IoctlInv
<1>3. ASSUME NEW f \in CtlFiles, NEW c \in Clients, NoteClient(f, c) PROVE IoctlInv'
  <2>1. Books' /\ call' = call /\ block' = block
    BY <1>3 DEF IoctlInv, Books, NoteClient
  <2> QED
    BY <2>1 DEF IoctlInv
<1> QED
  BY <1>1, <1>2, <1>3

\* The process gets its answer and the call is over.
LEMMA FinishKeeps ==
  ASSUME IoctlInv, Finish
  PROVE  IoctlInv'
BY DEF IoctlInv, Books, Finish

(* The invariant is one: every step keeps it.                              *)
LEMMA StepKeeps == IoctlInv /\ [Next]_vars => IoctlInv'
<1> SUFFICES ASSUME IoctlInv, [Next]_vars PROVE IoctlInv'
  OBVIOUS
<1>1. CASE UNCHANGED vars
  BY <1>1 DEF vars, IoctlInv, Books
<1>2. ASSUME NEW d \in Descriptors, NEW op \in OpsOn(table[d]),
             NEW e \in Layouts \cup {<<>>}, Ask(d, op, e)
      PROVE  IoctlInv'
  BY <1>2, AskKeeps
<1>3. ASSUME NEW d \in Descriptors, NEW f \in Files \cup {None}, Rebind(d, f) PROVE IoctlInv'
  BY <1>3, OthersKeep
<1> QED
  BY <1>1, <1>2, <1>3, GuestKeeps, BackendKeeps, OthersKeep, ReturnKeeps, FinishKeeps DEF Next

(* At every stage of a call the books of the two halves agree with what    *)
(* its thread passed.                                                      *)
THEOREM IoctlInvariant == Spec => []IoctlInv
<1> QED
  BY InitOk, StepKeeps, PTL DEF Spec

----------------------------------------------------------------------------
(* What the caller reads back *)

(* The pointers and the descriptor a caller passed come back to it, and its *)
(* buffers are written only where its block pointed when it was read first. *)
THEOREM CallersGetTheirOwnBack == Spec => []CallerGetsItsOwnBack
<1>1. IoctlInv => CallerGetsItsOwnBack
  BY DEF IoctlInv, CallInv, GotBack, CallerGetsItsOwnBack
<1> QED
  BY <1>1, IoctlInvariant, PTL

----------------------------------------------------------------------------
(* What reaches RM *)

\* The buffers of a control RM has run, against its block.
LEMMA BuffersAreRight ==
  ASSUME NEW c, Made(c), Translated(c), Taken(c),
         c.op = "control", c.stage = "served", c.passed # None, NEW i \in DOMAIN c.sent.ptr
  PROVE  /\ c.sent.ptr[i] = None <=> c.passed.ptr[i] = None
         /\ c.sent.ptr[i] # None =>
              /\ c.passed.bufs[i].len = c.sent.n[i]
              /\ i \in In(c.layout) /\ c.sent.n[i] > 0 =>
                   c.passed.bufs[i].holds = [user |-> c.first.ptr[i], len |-> c.sent.n[i]]
<1>1. /\ c.passed.ptr = [j \in DOMAIN c.sent.ptr |->
                           IF c.sent.ptr[j] = None THEN None ELSE Host(j)]
      /\ c.passed.bufs = Install(c.layout, c.sent, c.segs)
      /\ Sent(c.layout, c.sent, c.segs)
  BY DEF Taken, Accepts
<1>2. c.layout \in Layouts \cup {<<>>} /\ i \in DOMAIN c.layout
  BY DEF Made, Translated, Pointers
<1>3. None # Host(i)
  <2>1. c.layout \in Layouts
    BY <1>2
  <2> QED
    BY <1>2, <2>1, IoctlPathAssumption DEF Host
<1>4. c.sent.ptr[i] = None <=> c.passed.ptr[i] = None
  BY <1>1, <1>3
<1>5. ASSUME c.sent.ptr[i] # None
      PROVE  /\ c.passed.bufs[i].len = c.sent.n[i]
             /\ i \in In(c.layout) /\ c.sent.n[i] > 0 =>
                  c.passed.bufs[i].holds = [user |-> c.first.ptr[i], len |-> c.sent.n[i]]
  <2>1. i \in Used(c.sent)
    BY <1>5 DEF Used
  <2>2. c.passed.bufs[i] =
          [len |-> c.sent.n[i],
           holds |-> IF i \in In(c.layout) \cap DOMAIN c.segs THEN c.segs[i] ELSE None]
    BY <1>1, <2>1 DEF Install
  <2>3. ASSUME i \in In(c.layout), c.sent.n[i] > 0
        PROVE  c.segs[i] = [user |-> c.first.ptr[i], len |-> c.sent.n[i]] /\ i \in DOMAIN c.segs
    <3>1. i \in DOMAIN c.segs /\ c.segs[i].len = c.sent.n[i]
      BY <1>1, <2>1, <2>3 DEF Sent
    <3>2. c.segs[i] = [user |-> c.first.ptr[i], len |-> c.first.n[i]]
      BY <3>1, Described DEF Made
    <3> QED
      BY <3>1, <3>2
  <2> QED
    BY <2>2, <2>3
<1> QED
  BY <1>4, <1>5

(* RM has a buffer for every pointer of a control that is not null, as long *)
(* as it takes it to be and holding what it reads, whatever was written to  *)
(* the block between the two reads; and a block nobody wrote to is accepted *)
(* exactly if all of it could be described.                                 *)
THEOREM BuffersMatch == Spec => []BuffersMatchTheBlock
<1>1. ASSUME IoctlInv PROVE BuffersMatchTheBlock
  <2>1. SUFFICES ASSUME call # None, call.op = "control"
        PROVE  LET e == call.layout  b == call.sent  p == call.passed
               IN /\ call.stage = "served" /\ p # None =>
                       \A i \in DOMAIN b.ptr :
                         /\ b.ptr[i] = None <=> p.ptr[i] = None
                         /\ b.ptr[i] # None =>
                              /\ p.bufs[i].len = b.n[i]
                              /\ i \in In(e) /\ b.n[i] > 0 =>
                                   p.bufs[i].holds = [user |-> call.first.ptr[i], len |-> b.n[i]]
                  /\ call.stage = "sent" /\ b = call.first =>
                       (Accepts(e, b, call.segs) <=> Used(b) = DOMAIN call.segs)
    BY DEF BuffersMatchTheBlock
  <2>2. Made(call) /\ Translated(call) /\ Taken(call)
    BY <1>1, <2>1 DEF IoctlInv, CallInv
  <2>3. ASSUME call.stage = "sent", call.sent = call.first
        PROVE  Accepts(call.layout, call.sent, call.segs) <=> Used(call.sent) = DOMAIN call.segs
    <3>1. /\ call.layout \in Layouts \cup {<<>>} /\ ControlBlock(call.layout, call.sent)
          /\ call.segs = Describe(call.layout, call.sent)
      BY <2>1, <2>2, <2>3 DEF Made, Blocks, Pointers, ControlBlock
    <3> QED
      BY <3>1, DescribedIffAccepted
  <2> QED
    BY <2>1, <2>2, <2>3, BuffersAreRight
<1> QED
  BY <1>1, IoctlInvariant, PTL

\* HostSeesItsOwn, of one step.
SeesItsOwn ==
  LET p == call'.passed
  IN /\ call # None /\ call.stage = "sent" /\ p # None
     => /\ call.op \in Nested => p.outer = Host(0)
        /\ \A i \in DOMAIN p.ptr : p.ptr[i] \in {None, Host(i)}
        /\ call.meant # None /\ (call.op = "event" => call.meant \in opened) =>
             p.fd = HostFd(call.meant)
        /\ call.op = "register" /\ p.fd # NoFd =>
             [file |-> call.meant, client |-> call.sent.client] \in issued
        /\ call.op = "mm" => call.meant \in UvmFiles \cup {None}
        /\ call.file \notin denied

\* What the table finds for the handle the guest driver put there.
LEMMA FoundIsMeant ==
  ASSUME IoctlInv, call # None, call.stage = "sent", NEW f \in Found(call.sent.fd)
  PROVE  /\ call.meant # None => f = IF call.meant \in opened THEN call.meant ELSE None
         /\ call.meant = None /\ call.op \in {"register", "mm"} =>
              call.sent.fd = NoFd /\ f = None
<1>1. Translated(call) /\ OnTheWire(call)
  BY DEF IoctlInv, CallInv
<1>2. NoFd \notin Files
  BY IoctlPathAssumption
<1>3. CASE call.meant # None
  <2>1. call.meant \in Files /\ call.sent.fd = call.meant
    BY <1>1, <1>3 DEF Translated
  <2>2. Found(call.sent.fd) = IF call.meant \in opened THEN {call.meant} ELSE {None}
    BY <1>2, <2>1 DEF Found
  <2> QED
    BY <1>3, <2>2
<1>4. CASE call.meant = None
  <2>1. ASSUME call.op \in {"register", "mm"} PROVE call.sent.fd = NoFd /\ f = None
    <3>1. call.sent.fd = NoFd
      BY <1>1, <1>4, <2>1 DEF Translated, OnTheWire
    <3>2. Found(NoFd) = {None}
      BY <1>2 DEF Found
    <3> QED
      BY <3>1, <3>2
  <2> QED
    BY <1>4, <2>1
<1> QED
  BY <1>3, <1>4

\* What a call of the host driver gives it.
LEMMA ForwardShows ==
  ASSUME call # None, DOMAIN call = Parts, NEW ptr, NEW bufs, NEW fd, Forward(ptr, bufs, fd)
  PROVE  /\ call.op \in Nested => call'.passed.outer = Host(0)
         /\ call'.passed.ptr = ptr /\ call'.passed.fd = fd
<1>1. PICK p, ok : /\ p = [outer |-> IF call.op \in Nested THEN Host(0) ELSE Block,
                           ptr |-> ptr, bufs |-> bufs, fd |-> fd]
                   /\ call' = Served(p, ok)
  BY DEF Forward
<1>2. call'.passed = p
  BY <1>1 DEF Served, Parts
<1> QED
  BY <1>1, <1>2

\* A refusal shows it nothing.
LEMMA RefuseShows ==
  ASSUME call # None, DOMAIN call = Parts, NEW ok, Refuse(ok)
  PROVE  call'.passed = None
BY DEF Refuse, Served, Parts

\* A file that is not a UVM file was never refused.
LEMMA OthersNotDenied ==
  ASSUME IoctlInv, call # None, call.op \notin {"register", "mm", "initialize"}
  PROVE  call.file \notin denied
<1>1. Made(call) /\ denied \subseteq UvmFiles
  BY DEF IoctlInv, Books, CallInv
<1>2. call.file \notin UvmFiles
  BY <1>1, OpsByKind DEF Made
<1> QED
  BY <1>1, <1>2

\* RM_CONTROL: the host sees the buffers the process named.
LEMMA ControlShows ==
  ASSUME IoctlInv, ServeControl
  PROVE  SeesItsOwn
<1>1. call # None /\ call.stage = "sent" /\ call.op = "control"
  BY DEF ServeControl, Serving
<1>2. DOMAIN call = Parts /\ call.meant = None
  BY <1>1 DEF IoctlInv, CallInv, Made, Translated, Naming
<1>3. call.file \notin denied
  BY <1>1, OthersNotDenied
<1>4. CASE Refuse(TRUE)
  BY <1>1, <1>2, <1>4, RefuseShows DEF SeesItsOwn
<1>5. CASE ~ Refuse(TRUE)
  <2>1. PICK ptr, bufs :
          /\ ptr = [i \in DOMAIN call.sent.ptr |->
                      IF call.sent.ptr[i] = None THEN None ELSE Host(i)]
          /\ Forward(ptr, bufs, NoFd)
    BY <1>5 DEF ServeControl
  <2>2. call'.passed.ptr = ptr /\ (call.op \in Nested => call'.passed.outer = Host(0))
    BY <1>1, <1>2, <2>1, ForwardShows
  <2>3. \A i \in DOMAIN ptr : ptr[i] \in {None, Host(i)}
    BY <2>1
  <2> QED
    BY <1>1, <1>2, <1>3, <2>2, <2>3 DEF SeesItsOwn
<1> QED
  BY <1>4, <1>5

\* A descriptor in the block: the host sees its own of the file the process named.
LEMMA NestedShows ==
  ASSUME IoctlInv, ServeNested
  PROVE  SeesItsOwn
<1>1. call # None /\ call.stage = "sent" /\ call.op \in {"share", "event", "gem"}
  BY DEF ServeNested, Serving
<1>2. DOMAIN call = Parts
  BY <1>1 DEF IoctlInv, CallInv, Made
<1>3. call.file \notin denied
  BY <1>1, OthersNotDenied
<1>4. PICK f \in Found(call.sent.fd) :
        IF f # None THEN Forward(Rights(call.sent), <<>>, HostFd(f))
        ELSE IF call.op = "event" THEN Forward(Rights(call.sent), <<>>, call.sent.fd)
        ELSE Refuse(FALSE)
  BY DEF ServeNested
<1>5. call.meant # None => f = IF call.meant \in opened THEN call.meant ELSE None
  BY <1>1, FoundIsMeant
<1>6. CASE Refuse(FALSE)
  BY <1>1, <1>2, <1>6, RefuseShows DEF SeesItsOwn
<1>7. CASE ~ Refuse(FALSE)
  <2>1. PICK fd : /\ Forward(Rights(call.sent), <<>>, fd)
                  /\ call.meant # None /\ (call.op = "event" => call.meant \in opened) =>
                       fd = HostFd(call.meant)
    <3>1. CASE f # None
      BY <1>4, <1>5, <3>1
    <3>2. CASE f = None
      <4>1. call.op = "event" /\ Forward(Rights(call.sent), <<>>, call.sent.fd)
        BY <1>4, <1>7, <3>2
      <4>2. call.meant = None \/ call.meant \notin opened
        BY <1>5, <3>2
      <4> QED
        BY <4>1, <4>2
    <3> QED
      BY <3>1, <3>2
  <2>2. /\ call'.passed.ptr = Rights(call.sent) /\ call'.passed.fd = fd
        /\ call.op \in Nested => call'.passed.outer = Host(0)
    BY <1>1, <1>2, <2>1, ForwardShows
  <2>3. \A i \in DOMAIN Rights(call.sent) : Rights(call.sent)[i] = None
    BY DEF Rights
  <2> QED
    BY <1>1, <1>3, <2>1, <2>2, <2>3 DEF SeesItsOwn
<1> QED
  BY <1>6, <1>7

\* A call with no pointers.
LEMMA PlainShows ==
  ASSUME IoctlInv, call # None, call.stage = "sent", NEW fd, Forward(<<>>, <<>>, fd),
         call.meant # None /\ (call.op = "event" => call.meant \in opened) =>
           fd = HostFd(call.meant),
         call.op = "register" /\ fd # NoFd =>
           [file |-> call.meant, client |-> call.sent.client] \in issued,
         call.op = "mm" => call.meant \in UvmFiles \cup {None},
         call.file \notin denied
  PROVE  SeesItsOwn
<1>1. DOMAIN call = Parts
  BY DEF IoctlInv, CallInv, Made
<1>2. /\ call'.passed.ptr = <<>> /\ call'.passed.fd = fd
      /\ call.op \in Nested => call'.passed.outer = Host(0)
  BY <1>1, ForwardShows
<1> QED
  BY <1>2 DEF SeesItsOwn

\* Calls that carry a descriptor: the host sees its own of the file the process named.
LEMMA NamedShows ==
  ASSUME IoctlInv, ServeNamed
  PROVE  SeesItsOwn
<1>1. call # None /\ call.stage = "sent" /\ call.op = "named" /\ call.file \notin denied
  BY OthersNotDenied DEF ServeNamed, Serving
<1>2. DOMAIN call = Parts
  BY <1>1 DEF IoctlInv, CallInv, Made
<1>3. PICK f \in Found(call.sent.fd) :
        IF f # None THEN Forward(<<>>, <<>>, HostFd(f))
        ELSE IF call.sent.fd = NoFd THEN Forward(<<>>, <<>>, NoFd)
        ELSE Refuse(FALSE)
  BY DEF ServeNamed
<1>4. call.meant # None => f = IF call.meant \in opened THEN call.meant ELSE None
  BY <1>1, FoundIsMeant
<1>5. call.meant # None => call.sent.fd # NoFd
  BY <1>1, IoctlPathAssumption DEF IoctlInv, CallInv, Translated
<1>6. CASE Refuse(FALSE)
  BY <1>1, <1>2, <1>6, RefuseShows DEF SeesItsOwn
<1>7. CASE f # None
  <2>1. Forward(<<>>, <<>>, HostFd(f)) /\ (call.meant # None => f = call.meant)
    BY <1>3, <1>4, <1>7
  <2> QED
    BY <1>1, <2>1, PlainShows
<1>8. CASE f = None /\ ~ Refuse(FALSE)
  <2>1. Forward(<<>>, <<>>, NoFd) /\ call.meant = None
    BY <1>3, <1>5, <1>8
  <2> QED
    BY <1>1, <2>1, PlainShows
<1> QED
  BY <1>6, <1>7, <1>8

\* UVM_REGISTER_GPU and UVM_MM_INITIALIZE: the host sees its own descriptors.
LEMMA UvmShows ==
  ASSUME IoctlInv, ServeUvm
  PROVE  SeesItsOwn
<1>1. call # None /\ call.stage = "sent" /\ call.op \in {"register", "mm"}
  BY DEF ServeUvm, Serving
<1>2. DOMAIN call = Parts
  BY <1>1 DEF IoctlInv, CallInv, Made
<1>3. CASE Refuse(FALSE)
  BY <1>1, <1>2, <1>3, RefuseShows DEF SeesItsOwn
<1>4. CASE ~ Refuse(FALSE)
  <2>1. call.file \notin denied
    BY <1>4 DEF ServeUvm
  <2>2. PICK f \in Found(call.sent.fd) :
          \/ f # None /\ UvmMayName(f) /\ Forward(<<>>, <<>>, HostFd(f))
          \/ call.sent.fd = NoFd /\ Forward(<<>>, <<>>, NoFd)
    BY <1>4 DEF ServeUvm
  <2>3. /\ call.meant # None => f = IF call.meant \in opened THEN call.meant ELSE None
        /\ call.meant = None => f = None
    BY <1>1, FoundIsMeant
  <2>4. call.meant # None => call.sent.fd # NoFd
    BY <1>1, IoctlPathAssumption DEF IoctlInv, CallInv, Translated
  <2>5. CASE f # None /\ UvmMayName(f) /\ Forward(<<>>, <<>>, HostFd(f))
    <3>1. f = call.meant
      BY <2>3, <2>5
    <3>2. call.op = "mm" => call.meant \in UvmFiles
      BY <2>5, <3>1 DEF UvmMayName
    <3>3. call.op = "register" => [file |-> call.meant, client |-> call.sent.client] \in issued
      BY <2>5, <3>1 DEF UvmMayName
    <3> QED
      BY <1>1, <2>1, <2>5, <3>1, <3>2, <3>3, PlainShows
  <2>6. CASE call.sent.fd = NoFd /\ Forward(<<>>, <<>>, NoFd)
    <3>1. call.meant = None
      BY <2>4, <2>6
    <3> QED
      BY <1>1, <2>1, <2>6, <3>1, PlainShows
  <2> QED
    BY <2>2, <2>5, <2>6
<1> QED
  BY <1>3, <1>4

\* UVM_INITIALIZE: the host sees a call without pointers and descriptors.
LEMMA InitializeShows ==
  ASSUME IoctlInv, Initialize
  PROVE  SeesItsOwn
<1>1. call # None /\ call.stage = "sent" /\ call.op = "initialize"
  BY DEF Initialize, Serving
<1>2. DOMAIN call = Parts /\ call.meant = None
  BY <1>1 DEF IoctlInv, CallInv, Made, Translated, Naming
<1>3. CASE Refuse(FALSE)
  BY <1>1, <1>2, <1>3, RefuseShows DEF SeesItsOwn
<1>4. CASE ~ Refuse(FALSE)
  <2>1. call.file \notin denied
    BY <1>4 DEF Initialize
  <2>2. Forward(<<>>, <<>>, NoFd)
    <3>1. CASE call' = Served([outer |-> Block, ptr |-> <<>>, bufs |-> <<>>, fd |-> NoFd], FALSE)
      BY <1>1, <3>1 DEF Forward, Nested
    <3> QED
      BY <1>4, <3>1 DEF Initialize
  <2> QED
    BY <1>1, <1>2, <2>1, <2>2, PlainShows
<1> QED
  BY <1>3, <1>4

\* Nobody else shows the host driver anything.
LEMMA StepShows ==
  ASSUME IoctlInv, Next
  PROVE  SeesItsOwn
<1>1. SUFFICES ASSUME call # None, call.stage = "sent" PROVE SeesItsOwn
  BY DEF SeesItsOwn
<1>2. DOMAIN call = Parts /\ call.passed = None
  BY <1>1 DEF IoctlInv, CallInv, Made, OnTheWire
<1>3. CASE call' = call
  BY <1>2, <1>3 DEF SeesItsOwn
<1>4. ~ (SendControl \/ SendAlloc \/ SendSimple \/ SendNamed \/ SendGem \/ Return \/ Finish)
  BY <1>1 DEF SendControl, SendAlloc, SendSimple, SendNamed, SendGem, Asking, Return, Finish
<1>5. CASE RefuseCommand
  <2>1. PICK ok \in BOOLEAN : Refuse(ok)
    BY <1>5 DEF RefuseCommand
  <2> QED
    BY <1>1, <1>2, <2>1, RefuseShows DEF SeesItsOwn
<1>6. ASSUME Rewrite \/ (\E d \in Descriptors, f \in Files \cup {None} : Rebind(d, f))
                     \/ (\E f \in CtlFiles, c \in Clients : NoteClient(f, c))
      PROVE  call' = call
  BY <1>6 DEF Rewrite, Rebind, NoteClient
<1>7. ASSUME NEW d \in Descriptors, NEW op \in OpsOn(table[d]),
             NEW e \in Layouts \cup {<<>>}, Ask(d, op, e)
      PROVE  FALSE
  BY <1>1, <1>7 DEF Ask
<1> QED
  BY <1>3, <1>4, <1>5, <1>6, <1>7, ControlShows, NestedShows, NamedShows, UvmShows,
     InitializeShows DEF Next

(* The host driver is given its own pointers and descriptors, of the files *)
(* the caller's descriptors named when they were read, a client only while *)
(* RM has it issued, and nothing of a UVM file once refused.               *)
THEOREM HostGetsItsOwn == Spec => HostSeesItsOwn
<1>1. IoctlInv /\ [Next]_vars => [SeesItsOwn]_vars
  BY StepShows
<1> QED
  BY <1>1, IoctlInvariant, PTL DEF Spec, HostSeesItsOwn, SeesItsOwn

=============================================================================
