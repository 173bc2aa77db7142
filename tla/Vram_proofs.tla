----------------------------- MODULE Vram_proofs -----------------------------
(***************************************************************************)
(* Proofs about Vram: for any files, clients, handles, sizes and limit,    *)
(* the books charge what RM holds.  The first part is about sums and the   *)
(* folds of the model, the second about what each call does to the books,  *)
(* the third about the steps.                                              *)
(***************************************************************************)
EXTENDS Vram, FiniteSetTheorems, WellFoundedInduction, TLAPS

----------------------------------------------------------------------------
(* Folds over finite sets *)

\* A function's values over a finite set are no more than its members.
LEMMA ImageIsFinite ==
  ASSUME NEW S, IsFiniteSet(S), NEW f, NEW T, T = {f[s] : s \in S}
  PROVE  IsFiniteSet(T) /\ Cardinality(T) <= Cardinality(S)
<1>1. PICK g : g = [s \in S |-> f[s]]
  OBVIOUS
<1>2. g \in Surjection(S, T)
  BY <1>1 DEF Surjection
<1> QED
  BY <1>2, FS_Surjection

Some(s) == CHOOSE x \in s : TRUE

\* A set of numbers that is not empty has a least one.
LEMMA LeastExists ==
  ASSUME NEW S \in SUBSET Nat, S # {}
  PROVE  \E n \in S : \A m \in S : n <= m
<1>1. PICK n \in S : \A m \in S : ~ (<<m, n>> \in OpToRel(<, Nat))
  BY NatLessThanWellFounded, WFMin
<1>2. ASSUME NEW m \in S PROVE n <= m
  <2>1. n \in Nat /\ m \in Nat
    OBVIOUS
  <2>2. ~ (m < n)
    BY <1>1, <2>1 DEF OpToRel
  <2> QED
    BY <2>1, <2>2
<1> QED
  BY <1>2

\* Of the subsets of a finite set in B, one has no subset in B with one member less:
\* what an induction over the size of a set comes down to.
LEMMA SmallestExists ==
  ASSUME NEW S, IsFiniteSet(S), NEW B \in SUBSET SUBSET S, B # {}
  PROVE  \E s \in B : \A x \in s : s \ {x} \notin B
<1>1. \A s \in SUBSET S : IsFiniteSet(s) /\ Cardinality(s) \in Nat
  BY FS_Subset, FS_CardinalityType
<1>2. PICK N : N = {Cardinality(s) : s \in B}
  OBVIOUS
<1>3. N \in SUBSET Nat /\ N # {}
  BY <1>1, <1>2
<1>4. PICK n \in N : \A m \in N : n <= m
  BY <1>3, LeastExists
<1>5. PICK s \in B : Cardinality(s) = n
  BY <1>2
<1>6. ASSUME NEW x \in s, s \ {x} \in B PROVE FALSE
  <2>1. Cardinality(s \ {x}) = Cardinality(s) - 1
    BY <1>1, FS_RemoveElement
  <2>2. Cardinality(s \ {x}) \in N /\ n \in Nat
    BY <1>2, <1>3, <1>6
  <2> QED
    BY <1>4, <1>5, <2>1, <2>2
<1> QED
  BY <1>6

\* A finite set without the member chosen from it is smaller.
LEMMA SomeLess ==
  ASSUME NEW s, IsFiniteSet(s), s # {}
  PROVE  /\ Some(s) \in s /\ IsFiniteSet(s \ {Some(s)})
         /\ Cardinality(s) \in Nat \ {0}
         /\ Cardinality(s \ {Some(s)}) = Cardinality(s) - 1
<1>1. PICK x : x = Some(s)
  OBVIOUS
<1>2. x \in s
  BY <1>1 DEF Some
<1>3. IsFiniteSet(s \ {x}) /\ Cardinality(s \ {x}) = Cardinality(s) - 1
  BY <1>2, FS_RemoveElement
<1>4. Cardinality(s) \in Nat /\ Cardinality(s) # 0
  BY FS_CardinalityType, FS_EmptySet
<1> QED
  BY <1>1, <1>2, <1>3, <1>4

\* What a fold does with one member: the three folds of the model.
Onto(k, c, x, v) ==
  CASE k = "add"  -> x.bytes + v
    [] k = "drop" -> Dropped(v, c, x)
    [] k = "free" -> Freed(v, x, x)

Term(k, c, base, g, s) ==
  IF s = {} THEN base ELSE Onto(k, c, Some(s), g[s \ {Some(s)}])
Folds(k, c, base, g, D) == g = [s \in D |-> Term(k, c, base, g, s)]
Solves(k, c, base, g, S) == \A s \in SUBSET S : g[s] = Term(k, c, base, g, s)
Upto(S, n) == {s \in SUBSET S : Cardinality(s) <= n}

\* The recursion that a fold is defined by has a solution.
LEMMA FoldsExist ==
  ASSUME NEW k, NEW c, NEW base, NEW S, IsFiniteSet(S)
  PROVE  \E g : Folds(k, c, base, g, SUBSET S)
<1>1. \A s \in SUBSET S : IsFiniteSet(s) /\ Cardinality(s) \in Nat
  BY FS_Subset, FS_CardinalityType
<1>2. \A n \in Nat : \E g : Folds(k, c, base, g, Upto(S, n))
  <2> DEFINE Bad == {n \in Nat : ~ \E g : Folds(k, c, base, g, Upto(S, n))}
  <2> SUFFICES ASSUME Bad # {} PROVE FALSE
    OBVIOUS
  <2>0. Bad \in SUBSET Nat
    OBVIOUS
  <2>1. PICK n \in Bad : \A m \in Bad : n <= m
    <3> HIDE DEF Bad
    <3> QED
      BY <2>0, LeastExists
  <2>2. CASE n = 0
    <3>1. \A s \in Upto(S, 0) : s = {}
      <4> SUFFICES ASSUME NEW s \in Upto(S, 0) PROVE s = {}
        OBVIOUS
      <4>1. IsFiniteSet(s) /\ Cardinality(s) = 0
        BY <1>1 DEF Upto
      <4> QED
        BY <4>1, FS_EmptySet
    <3>2. PICK g : g = [s \in Upto(S, 0) |-> base]
      OBVIOUS
    <3>3. \A s \in Upto(S, 0) : Term(k, c, base, g, s) = base
      BY <3>1 DEF Term
    <3>4. Folds(k, c, base, g, Upto(S, 0))
      BY <3>2, <3>3 DEF Folds
    <3> QED
      BY <2>1, <2>2, <3>4
  <2>3. CASE n > 0
    <3>1. n \in Nat /\ n - 1 \in Nat
      BY <2>0, <2>1, <2>3
    <3>2. PICK g : Folds(k, c, base, g, Upto(S, n - 1))
      <4>1. n - 1 \notin Bad
        <5> HIDE DEF Bad
        <5> QED
          BY <2>0, <2>1, <3>1
      <4> QED
        BY <3>1, <4>1
    <3>3. PICK h : h = [s \in Upto(S, n) |-> Term(k, c, base, g, s)]
      OBVIOUS
    <3>4. ASSUME NEW s \in Upto(S, n) PROVE Term(k, c, base, h, s) = Term(k, c, base, g, s)
      <4>1. CASE s = {}
        BY <4>1 DEF Term
      <4>2. CASE s # {}
        <5>1. PICK t : t = s \ {Some(s)}
          OBVIOUS
        <5>2. t \in Upto(S, n - 1) /\ t \in Upto(S, n)
          BY <1>1, <3>1, <4>2, <5>1, SomeLess DEF Upto
        <5>3. h[t] = Term(k, c, base, g, t)
          BY <3>3, <5>2
        <5>4. g[t] = Term(k, c, base, g, t)
          BY <3>2, <5>2 DEF Folds
        <5>5. h[s \ {Some(s)}] = g[s \ {Some(s)}]
          BY <5>1, <5>3, <5>4
        <5> QED
          BY <4>2, <5>5 DEF Term
      <4> QED
        BY <4>1, <4>2
    <3>5. Folds(k, c, base, h, Upto(S, n))
      BY <3>3, <3>4 DEF Folds
    <3> QED
      BY <2>1, <3>1, <3>5
  <2> QED
    BY <2>0, <2>1, <2>2, <2>3
<1>3. PICK N \in Nat : N = Cardinality(S)
  BY <1>1
<1>4. \A s \in SUBSET S : Cardinality(s) <= N
  BY <1>3, FS_Subset
<1>5. Upto(S, N) = SUBSET S
  BY <1>4 DEF Upto
<1> QED
  BY <1>2, <1>5

\* What is chosen is a solution.
LEMMA FoldsSolve ==
  ASSUME NEW k, NEW c, NEW base, NEW S, IsFiniteSet(S),
         NEW g, g = CHOOSE h : Folds(k, c, base, h, SUBSET S)
  PROVE  Solves(k, c, base, g, S)
<1>1. Folds(k, c, base, g, SUBSET S)
  BY FoldsExist
<1> QED
  BY <1>1 DEF Folds, Solves

Bytes(S) == MapThenSumSet(LAMBDA m : m.bytes, S)

\* Each fold of the model is a solution of its recursion.
LEMMA BytesFold ==
  ASSUME NEW S, IsFiniteSet(S)
  PROVE  \E g : Bytes(S) = g[S] /\ Solves("add", 0, 0, g, S)
<1>1. PICK g : g = CHOOSE h : Folds("add", 0, 0, h, SUBSET S)
  OBVIOUS
<1>2. Solves("add", 0, 0, g, S)
  BY <1>1, FoldsSolve
<1>3. Bytes(S) = g[S]
  BY <1>1 DEF Bytes, MapThenSumSet, MapThenFoldSet, Folds, Term, Onto, Some
<1> QED
  BY <1>2, <1>3

\* The same for the drops of several handles,
LEMMA DropFold ==
  ASSUME NEW b, NEW c, NEW H, IsFiniteSet(H)
  PROVE  \E g : DroppedAll(b, c, H) = g[H] /\ Solves("drop", c, b, g, H)
<1>1. PICK g : g = CHOOSE h : Folds("drop", c, b, h, SUBSET H)
  OBVIOUS
<1>2. Solves("drop", c, b, g, H)
  BY <1>1, FoldsSolve
<1>3. DroppedAll(b, c, H) = g[H]
  BY <1>1 DEF DroppedAll, FoldSet, MapThenFoldSet, Folds, Term, Onto, Some
<1> QED
  BY <1>2, <1>3

\* and for a file's clients.
LEMMA FreeFold ==
  ASSUME NEW b, NEW C, IsFiniteSet(C)
  PROVE  \E g : /\ FoldSet(LAMBDA c, acc : Freed(acc, c, c), b, C) = g[C]
                /\ Solves("free", 0, b, g, C)
<1>1. PICK g : g = CHOOSE h : Folds("free", 0, b, h, SUBSET C)
  OBVIOUS
<1>2. Solves("free", 0, b, g, C)
  BY <1>1, FoldsSolve
<1>3. FoldSet(LAMBDA c, acc : Freed(acc, c, c), b, C) = g[C]
  BY <1>1 DEF FoldSet, MapThenFoldSet, Folds, Term, Onto, Some
<1> QED
  BY <1>2, <1>3

----------------------------------------------------------------------------
(* Sums of bytes *)

\* The sum over a set is one member's bytes and the sum over the rest.
LEMMA BytesUnfold ==
  ASSUME NEW S, IsFiniteSet(S)
  PROVE  /\ Bytes({}) = 0
         /\ S # {} => Bytes(S) = Some(S).bytes + Bytes(S \ {Some(S)})
<1> USE DEF Onto
<1>1. Bytes({}) = 0
  <2>1. IsFiniteSet({})
    BY FS_EmptySet
  <2> QED
    BY <2>1, BytesFold DEF Solves, Term
<1>2. CASE S # {}
  <2>1. PICK R : R = S \ {Some(S)}
    OBVIOUS
  <2>2. IsFiniteSet(R) /\ R \in SUBSET S
    BY <1>2, <2>1, SomeLess
  <2>3. PICK g : Bytes(S) = g[S] /\ Solves("add", 0, 0, g, S)
    BY BytesFold
  <2>4. PICK h : Bytes(R) = h[R] /\ Solves("add", 0, 0, h, R)
    BY <2>2, BytesFold
  <2>5. \A s \in SUBSET R : g[s] = h[s]
    <3> DEFINE B == {s \in SUBSET R : g[s] # h[s]}
    <3> SUFFICES ASSUME B # {} PROVE FALSE
      OBVIOUS
    <3>1. PICK s \in B : \A x \in s : s \ {x} \notin B
      <4>1. B \in SUBSET SUBSET R
        OBVIOUS
      <4> HIDE DEF B
      <4> QED
        BY <2>2, <4>1, SmallestExists
    <3>2. s \in SUBSET R /\ s \in SUBSET S /\ IsFiniteSet(s) /\ g[s] # h[s]
      BY <2>2, <3>1, FS_Subset
    <3>3. g[s] = Term("add", 0, 0, g, s) /\ h[s] = Term("add", 0, 0, h, s)
      BY <2>3, <2>4, <3>2 DEF Solves
    <3>4. s # {}
      BY <3>2, <3>3 DEF Term
    <3>5. Some(s) \in s
      BY <3>2, <3>4, SomeLess
    <3>6. g[s \ {Some(s)}] = h[s \ {Some(s)}]
      BY <3>1, <3>2, <3>5
    <3>7. Term("add", 0, 0, g, s) = Term("add", 0, 0, h, s)
      BY <3>4, <3>6 DEF Term
    <3> QED
      BY <3>2, <3>3, <3>7
  <2>6. g[S] = Some(S).bytes + g[R]
    BY <1>2, <2>1, <2>3 DEF Solves, Term
  <2>7. g[R] = h[R]
    BY <2>5
  <2>8. Bytes(S) = Some(S).bytes + Bytes(R)
    BY <2>3, <2>4, <2>6, <2>7
  <2> QED
    BY <1>1, <2>1, <2>8
<1> QED
  BY <1>1, <1>2

\* A sum of natural numbers is one.
LEMMA BytesAreNat ==
  ASSUME NEW S, IsFiniteSet(S), \A m \in S : m.bytes \in Nat
  PROVE  Bytes(S) \in Nat
<1> DEFINE B == {s \in SUBSET S : Bytes(s) \notin Nat}
<1> SUFFICES ASSUME B # {} PROVE FALSE
  OBVIOUS
<1>1. PICK s \in B : \A x \in s : s \ {x} \notin B
  <2>1. B \in SUBSET SUBSET S
    OBVIOUS
  <2> HIDE DEF B
  <2> QED
    BY <2>1, SmallestExists
<1>2. s \in SUBSET S /\ IsFiniteSet(s) /\ Bytes(s) \notin Nat
  BY <1>1, FS_Subset
<1>3. s # {}
  <2>1. Bytes({}) = 0
    BY <1>2, BytesUnfold
  <2> QED
    BY <1>2, <2>1
<1>4. PICK x : x = Some(s)
  OBVIOUS
<1>5. x \in s /\ s \ {x} \in SUBSET S
  BY <1>2, <1>3, <1>4, SomeLess
<1>6. Bytes(s \ {x}) \in Nat
  BY <1>1, <1>5
<1>7. Bytes(s) = x.bytes + Bytes(s \ {x})
  BY <1>2, <1>3, <1>4, BytesUnfold
<1>8. x.bytes \in Nat
  BY <1>2, <1>5
<1> QED
  BY ONLY <1>2, <1>6, <1>7, <1>8

\* Any member may be taken out first.
LEMMA BytesWithout ==
  ASSUME NEW S, IsFiniteSet(S), \A m \in S : m.bytes \in Nat
  PROVE  \A x \in S : Bytes(S) = x.bytes + Bytes(S \ {x})
<1> DEFINE Good(s) == \A x \in s : Bytes(s) = x.bytes + Bytes(s \ {x})
           B == {s \in SUBSET S : ~ Good(s)}
<1> SUFFICES ASSUME B # {} PROVE FALSE
  OBVIOUS
<1>1. PICK s \in B : \A x \in s : s \ {x} \notin B
  <2>1. B \in SUBSET SUBSET S
    OBVIOUS
  <2> HIDE DEF B
  <2> QED
    BY <2>1, SmallestExists
<1>2. s \in SUBSET S /\ IsFiniteSet(s)
  BY <1>1, FS_Subset
<1>3. PICK x \in s : Bytes(s) # x.bytes + Bytes(s \ {x})
  BY <1>1
<1>4. PICK y : y = Some(s)
  OBVIOUS
<1>5. y \in s /\ Bytes(s) = y.bytes + Bytes(s \ {y})
  BY <1>2, <1>3, <1>4, SomeLess, BytesUnfold
<1>6. y # x
  BY <1>3, <1>5
<1>7. PICK t : t = s \ {x, y}
  OBVIOUS
<1>8. s \ {x} \in SUBSET S /\ Good(s \ {x}) /\ s \ {y} \in SUBSET S /\ Good(s \ {y})
  BY <1>1, <1>2, <1>3, <1>5
<1>9. Bytes(s \ {y}) = x.bytes + Bytes(t)
  <2>1. x \in s \ {y} /\ (s \ {y}) \ {x} = t
    BY <1>3, <1>6, <1>7
  <2> QED
    BY <1>8, <2>1
<1>10. Bytes(s \ {x}) = y.bytes + Bytes(t)
  <2>1. y \in s \ {x} /\ (s \ {x}) \ {y} = t
    BY <1>5, <1>6, <1>7
  <2> QED
    BY <1>8, <2>1
<1>11. x.bytes \in Nat /\ y.bytes \in Nat /\ Bytes(t) \in Nat
  <2>1. x \in S /\ y \in S /\ t \in SUBSET S /\ IsFiniteSet(t)
    BY <1>2, <1>3, <1>5, <1>7, FS_Subset
  <2> QED
    BY <2>1, BytesAreNat
<1> QED
  BY <1>3, <1>5, <1>9, <1>10, <1>11

\* One more member adds its bytes.
LEMMA BytesWith ==
  ASSUME NEW S, IsFiniteSet(S), \A m \in S : m.bytes \in Nat,
         NEW x, x \notin S, x.bytes \in Nat
  PROVE  Bytes(S \cup {x}) = x.bytes + Bytes(S)
<1>1. PICK T : T = S \cup {x}
  OBVIOUS
<1>2. IsFiniteSet(T) /\ (\A m \in T : m.bytes \in Nat) /\ x \in T /\ T \ {x} = S
  BY <1>1, FS_AddElement
<1> QED
  BY <1>1, <1>2, BytesWithout

\* Members that stand for as many others of as many bytes sum up to no more than these.
LEMMA BytesInject ==
  ASSUME NEW S, IsFiniteSet(S), \A m \in S : m.bytes \in Nat,
         NEW T, IsFiniteSet(T), \A m \in T : m.bytes \in Nat,
         NEW f, \A m \in S : f[m] \in T /\ f[m].bytes = m.bytes,
         \A m, n \in S : f[m] = f[n] => m = n
  PROVE  Bytes(S) <= Bytes(T)
<1> DEFINE Image(s) == {f[m] : m \in s}
           Good(s) == \A t \in SUBSET T : Image(s) \subseteq t => Bytes(s) <= Bytes(t)
           B == {s \in SUBSET S : ~ Good(s)}
<1>1. B = {}
  <2> SUFFICES ASSUME B # {} PROVE FALSE
    OBVIOUS
  <2>1. PICK s \in B : \A x \in s : s \ {x} \notin B
    <3>1. B \in SUBSET SUBSET S
      OBVIOUS
    <3> HIDE DEF B
    <3> QED
      BY <3>1, SmallestExists
  <2>2. s \in SUBSET S /\ IsFiniteSet(s)
    BY <2>1, FS_Subset
  <2>3. PICK t \in SUBSET T : Image(s) \subseteq t /\ ~ Bytes(s) <= Bytes(t)
    BY <2>1
  <2>4. IsFiniteSet(t) /\ Bytes(t) \in Nat /\ \A m \in t : m.bytes \in Nat
    BY <2>3, FS_Subset, BytesAreNat
  <2>5. s # {}
    <3>1. Bytes({}) = 0
      BY <2>2, BytesUnfold
    <3>2. ~ Bytes(s) <= Bytes(t) /\ Bytes(t) \in Nat
      BY <2>3, <2>4
    <3> QED
      BY ONLY <3>1, <3>2
  <2>6. PICK x : x \in s
    BY <2>5
  <2>7. PICK u, v : u = s \ {x} /\ v = t \ {f[x]}
    OBVIOUS
  <2>8. u \in SUBSET S /\ v \in SUBSET T /\ Good(u)
    BY <2>1, <2>2, <2>3, <2>6, <2>7
  <2>9. Image(u) \subseteq v
    BY <2>2, <2>3, <2>6, <2>7
  <2>10. Bytes(u) <= Bytes(v)
    BY <2>8, <2>9
  <2>11. f[x] \in t /\ f[x].bytes = x.bytes /\ x.bytes \in Nat
    BY <2>2, <2>3, <2>6
  <2>12. Bytes(s) = x.bytes + Bytes(u)
    <3>1. \A m \in s : m.bytes \in Nat
      BY <2>2
    <3> QED
      BY <2>2, <2>6, <2>7, <3>1, BytesWithout
  <2>13. Bytes(t) = x.bytes + Bytes(v)
    BY <2>4, <2>7, <2>11, BytesWithout
  <2>14. Bytes(u) \in Nat /\ Bytes(v) \in Nat
    <3>1. IsFiniteSet(u) /\ IsFiniteSet(v) /\ (\A m \in u : m.bytes \in Nat)
          /\ (\A m \in v : m.bytes \in Nat)
      BY <2>8, FS_Subset
    <3> QED
      BY <3>1, BytesAreNat
  <2> QED
    BY ONLY <2>3, <2>10, <2>11, <2>12, <2>13, <2>14
<1>2. Good(S)
  BY <1>1
<1>3. Image(S) \subseteq T
  OBVIOUS
<1> QED
  BY <1>2, <1>3

----------------------------------------------------------------------------
(* What each call does to the books *)

OnePerHandle(S) == \A o, x \in S : o.client = x.client /\ o.handle = x.handle => o = x

Holders(b, id) == {o \in b.objects : o.memory = id}

Entry == [client : Clients, handle : Handles, parent : Handles \cup Clients, memory : Nat \cup {None}]
Account == [id : Nat, bytes : Nat, holders : Nat \ {0}]

WellMade(b) == b = [objects |-> b.objects, memory |-> b.memory, inUse |-> b.inUse]

\* The books b are in order, but for memory x (if any) being held once more than its
\* objects say.
Ledger(b, x) ==
  /\ WellMade(b)
  /\ IsFiniteSet(b.objects) /\ IsFiniteSet(b.memory)
  /\ b.objects \subseteq Entry /\ b.memory \subseteq Account
  /\ OnePerHandle(b.objects)
  /\ \A m, n \in b.memory : m.id = n.id => m = n
  /\ \A m \in b.memory :
       m.holders = Cardinality(Holders(b, m.id)) + (IF m.id = x THEN 1 ELSE 0)
  /\ \A o \in b.objects : o.memory # None => \E m \in b.memory : m.id = o.memory
  /\ b.inUse = Bytes(b.memory)

\* Books d charge for nothing that b do not.
NoNewMemory(d, b) ==
  /\ \A m \in d.memory : \E n \in b.memory : n.id = m.id /\ n.bytes = m.bytes
  /\ d.inUse <= b.inUse

\* What is charged is a number, and so are the accounts.
LEMMA LedgerSum ==
  ASSUME NEW b, NEW x, Ledger(b, x)
  PROVE  b.inUse \in Nat /\ \A m \in b.memory : m.bytes \in Nat /\ m.id \in Nat
<1>1. \A m \in b.memory : m.bytes \in Nat /\ m.id \in Nat
  BY DEF Ledger, Account
<1> QED
  BY <1>1, BytesAreNat DEF Ledger

\* drop_object, where the handle holds nothing.
LEMMA DropOfNothing ==
  ASSUME NEW b, NEW x, Ledger(b, x), NEW c, NEW h, Named(b, At(b, c, h)) = {},
         NEW d, d = Dropped(b, c, h)
  PROVE  /\ d.objects = b.objects \ At(b, c, h) /\ d.memory = b.memory /\ d.inUse = b.inUse
         /\ Ledger(d, x)
<1>1. PICK gone : gone = At(b, c, h)
  OBVIOUS
<1>2. d.objects = b.objects \ gone /\ d.memory = b.memory /\ d.inUse = Rest(b.inUse, Bytes({}))
  BY <1>1 DEF Dropped, Bytes
<1>3. d.inUse = b.inUse
  <2>1. Bytes({}) = 0 /\ b.inUse \in Nat
    BY LedgerSum, BytesUnfold DEF Ledger
  <2> QED
    BY <1>2, <2>1 DEF Rest
<1>4. ASSUME NEW m \in b.memory PROVE Holders(d, m.id) = Holders(b, m.id)
  <2>1. \A o \in gone : o.memory # m.id
    BY <1>1 DEF Named
  <2> QED
    BY <1>2, <2>1 DEF Holders
<1>5. IsFiniteSet(d.objects) /\ d.objects \subseteq b.objects
  BY <1>2, FS_Subset DEF Ledger
<1>6. Ledger(d, x)
  <2>1. WellMade(d)
    BY DEF Dropped, WellMade
  <2> QED
    BY <1>2, <1>3, <1>4, <1>5, <2>1 DEF Ledger, OnePerHandle
<1> QED
  BY <1>1, <1>2, <1>3, <1>6

\* drop_object, where it holds memory m.
LEMMA DropOfMemory ==
  ASSUME NEW b, NEW x, Ledger(b, x), NEW c, NEW h, NEW m \in Named(b, At(b, c, h)),
         NEW d, d = Dropped(b, c, h)
  PROVE  /\ d.objects = b.objects \ At(b, c, h)
         /\ NoNewMemory(d, b) /\ Ledger(d, x)
<1>1. PICK o \in At(b, c, h) : o.memory = m.id
  BY DEF Named
<1>2. /\ m \in b.memory /\ m \in Account /\ o \in b.objects
      /\ o.client = c /\ o.handle = h
  BY <1>1 DEF Named, At, Ledger
<1>3. At(b, c, h) = {o}
  BY <1>1, <1>2 DEF At, Ledger, OnePerHandle
<1>4. Named(b, At(b, c, h)) = {m}
  BY <1>1, <1>2, <1>3 DEF Named, Ledger
<1>5. PICK l : l = [m EXCEPT !.holders = @ - 1]
  OBVIOUS
<1>6. l = [id |-> m.id, bytes |-> m.bytes, holders |-> m.holders - 1]
  BY <1>2, <1>5 DEF Account
<1>7. PICK dead : dead = {k \in {l} : k.holders = 0}
  OBVIOUS
<1>8. /\ d.objects = b.objects \ {o}
      /\ d.memory = (b.memory \ {m}) \cup ({l} \ dead)
      /\ d.inUse = Rest(b.inUse, Bytes(dead))
  <2>1. {[k EXCEPT !.holders = @ - 1] : k \in {m}} = {l}
    BY <1>5
  <2> QED
    BY <1>3, <1>4, <1>7, <2>1 DEF Dropped, Bytes
<1>9. m.holders = Cardinality(Holders(b, m.id)) + (IF m.id = x THEN 1 ELSE 0)
  BY <1>2 DEF Ledger
<1>10. /\ Cardinality(Holders(b, m.id)) \in Nat
       /\ Cardinality(Holders(d, m.id)) = Cardinality(Holders(b, m.id)) - 1
  <2>1. IsFiniteSet(Holders(b, m.id)) /\ o \in Holders(b, m.id)
    BY <1>1, <1>2, FS_Subset DEF Ledger, Holders
  <2>2. Holders(d, m.id) = Holders(b, m.id) \ {o}
    BY <1>8 DEF Holders
  <2> QED
    BY <2>1, <2>2, FS_RemoveElement, FS_CardinalityType
<1>11. ASSUME NEW n \in b.memory, n # m PROVE Holders(d, n.id) = Holders(b, n.id) /\ n.id # m.id
  BY <1>1, <1>2, <1>8, <1>11 DEF Holders, Ledger
<1>12. b.inUse = m.bytes + Bytes(b.memory \ {m}) /\ Bytes(b.memory \ {m}) \in Nat
       /\ m.bytes \in Nat /\ IsFiniteSet(b.memory \ {m})
       /\ \A k \in b.memory \ {m} : k.bytes \in Nat
  <2>1. IsFiniteSet(b.memory \ {m}) /\ (\A k \in b.memory : k.bytes \in Nat) /\ IsFiniteSet(b.memory)
    BY FS_Subset, LedgerSum DEF Ledger
  <2> QED
    BY <1>2, <2>1, BytesWithout, BytesAreNat DEF Ledger
<1>13. /\ d.memory = (b.memory \ {m}) \cup (IF l.holders = 0 THEN {} ELSE {l})
       /\ d.inUse = Bytes(d.memory) /\ d.inUse <= b.inUse
  <2>1. CASE l.holders = 0
    <3>1. dead = {l} /\ d.memory = b.memory \ {m}
      BY <1>7, <1>8, <2>1
    <3>2. Bytes({l}) = m.bytes
      <4>1. IsFiniteSet({}) /\ Bytes({}) = 0
        BY FS_EmptySet, BytesUnfold
      <4>2. l.bytes = m.bytes /\ l.bytes \in Nat
        BY <1>6, <1>12
      <4>3. Bytes({} \cup {l}) = l.bytes + Bytes({})
        BY <4>1, <4>2, BytesWith
      <4>4. {} \cup {l} = {l}
        OBVIOUS
      <4> QED
        BY <4>1, <4>2, <4>3, <4>4
    <3>3. d.inUse = Bytes(b.memory \ {m})
      BY <1>8, <1>12, <3>1, <3>2 DEF Rest
    <3> QED
      BY <1>12, <2>1, <3>1, <3>3
  <2>2. CASE l.holders # 0
    <3>1. dead = {} /\ d.memory = (b.memory \ {m}) \cup {l}
      BY <1>7, <1>8, <2>2
    <3>2. Bytes({}) = 0
      BY BytesUnfold, FS_EmptySet
    <3>3. d.inUse = b.inUse
      BY <1>8, <1>12, <3>1, <3>2 DEF Rest
    <3>4. l \notin b.memory \ {m} /\ l.bytes = m.bytes
      BY <1>2, <1>6 DEF Ledger
    <3>5. Bytes((b.memory \ {m}) \cup {l}) = l.bytes + Bytes(b.memory \ {m})
      BY <1>12, <3>4, BytesWith
    <3>6. Bytes(d.memory) = b.inUse /\ b.inUse \in Nat /\ b.inUse <= b.inUse
      BY ONLY <1>12, <3>1, <3>4, <3>5
    <3>7. d.memory = (b.memory \ {m}) \cup (IF l.holders = 0 THEN {} ELSE {l})
      BY <2>2, <3>1
    <3> QED
      BY <3>3, <3>6, <3>7
  <2> QED
    BY <2>1, <2>2
<1>14. \A k \in d.memory : (k \in b.memory /\ k # m) \/ (k = l /\ l.holders # 0)
  BY <1>13
<1>15. NoNewMemory(d, b)
  BY <1>2, <1>6, <1>13, <1>14 DEF NoNewMemory
<1>16. Ledger(d, x)
  <2>1. IsFiniteSet(d.objects) /\ d.objects \subseteq b.objects
    BY <1>8, FS_Subset DEF Ledger
  <2>2. IsFiniteSet(d.memory)
    <3>1. PICK rest : rest = b.memory \ {m}
      OBVIOUS
    <3>2. IsFiniteSet(rest) /\ IsFiniteSet(rest \cup {l})
      BY <1>12, <3>1, FS_AddElement
    <3>3. d.memory = rest \/ d.memory = rest \cup {l}
      BY <1>13, <3>1
    <3> QED
      BY <3>2, <3>3
  <2>3. l.holders # 0 => l \in Account
    BY <1>2, <1>6 DEF Account
  <2>4. d.memory \subseteq Account
    BY <1>14, <2>3 DEF Ledger
  <2>5. \A k, n \in d.memory : k.id = n.id => k = n
    BY <1>6, <1>11, <1>14 DEF Ledger
  <2>6. ASSUME NEW k \in d.memory
        PROVE  k.holders = Cardinality(Holders(d, k.id)) + (IF k.id = x THEN 1 ELSE 0)
    <3>1. CASE k \in b.memory /\ k # m
      BY <1>11, <3>1 DEF Ledger
    <3>2. CASE k = l
      <4>1. k.id = m.id /\ k.holders = m.holders - 1
        BY <1>6, <3>2
      <4> QED
        BY ONLY <1>9, <1>10, <4>1
    <3> QED
      BY <1>14, <2>6, <3>1, <3>2
  <2>7. ASSUME NEW p \in d.objects, p.memory # None PROVE \E k \in d.memory : k.id = p.memory
    <3>1. PICK k \in b.memory : k.id = p.memory
      BY <2>1, <2>7 DEF Ledger
    <3>2. CASE k # m
      BY <1>13, <3>1, <3>2
    <3>3. CASE k = m
      <4>1. p \in Holders(d, m.id)
        BY <3>1, <3>3 DEF Holders
      <4>2. Cardinality(Holders(d, m.id)) \in Nat \ {0}
        <5>1. IsFiniteSet(Holders(d, m.id))
          BY <2>1, FS_Subset DEF Holders
        <5> QED
          BY <4>1, <5>1, FS_EmptySet, FS_CardinalityType
      <4>3. l.holders # 0
        <5>1. l.holders = m.holders - 1 /\ m.holders \in Nat
          BY <1>2, <1>6 DEF Account
        <5> QED
          BY ONLY <1>9, <1>10, <4>2, <5>1
      <4> QED
        BY <1>6, <1>13, <3>1, <3>3, <4>3
    <3> QED
      BY <3>2, <3>3
  <2>8. WellMade(d)
    BY DEF Dropped, WellMade
  <2> QED
    BY <1>13, <2>1, <2>2, <2>4, <2>5, <2>6, <2>7, <2>8 DEF Ledger, OnePerHandle
<1> QED
  BY <1>3, <1>8, <1>15, <1>16

(* drop_object takes the handle's entry and one holder off its memory, and *)
(* leaves books that were in order in order.                               *)
LEMMA DropKeeps ==
  ASSUME NEW b, NEW x, Ledger(b, x), NEW c, NEW h, NEW d, d = Dropped(b, c, h)
  PROVE  d.objects = b.objects \ At(b, c, h) /\ NoNewMemory(d, b) /\ Ledger(d, x)
<1>1. CASE Named(b, At(b, c, h)) = {}
  <2>1. /\ d.objects = b.objects \ At(b, c, h) /\ d.memory = b.memory /\ d.inUse = b.inUse
        /\ Ledger(d, x) /\ b.inUse \in Nat
    BY <1>1, DropOfNothing, LedgerSum
  <2> QED
    BY <2>1 DEF NoNewMemory
<1>2. CASE Named(b, At(b, c, h)) # {}
  BY <1>2, DropOfMemory
<1> QED
  BY <1>1, <1>2

\* Books d, without the entries O, of books b.
Less(d, b, O) == d.objects = b.objects \ O /\ NoNewMemory(d, b) /\ Ledger(d, None)

Mine(b, c, H) == {o \in b.objects : o.client = c /\ o.handle \in H}

\* Dropping in two steps is dropping.
LEMMA LessAgain ==
  ASSUME NEW b, Ledger(b, None), NEW d, NEW O, Less(d, b, O), NEW e, NEW P, Less(e, d, P)
  PROVE  Less(e, b, O \cup P)
<1>1. \A m \in e.memory : \E n \in b.memory : n.id = m.id /\ n.bytes = m.bytes
  BY DEF Less, NoNewMemory
<1>2. e.inUse <= b.inUse
  <2>1. e.inUse \in Nat /\ d.inUse \in Nat /\ b.inUse \in Nat
    BY LedgerSum DEF Less
  <2>2. e.inUse <= d.inUse /\ d.inUse <= b.inUse
    BY DEF Less, NoNewMemory
  <2> QED
    BY <2>1, <2>2
<1> QED
  BY <1>1, <1>2 DEF Less, NoNewMemory

\* Books that are in order are less by nothing than themselves.
LEMMA LessNothing ==
  ASSUME NEW b, Ledger(b, None)
  PROVE  Less(b, b, {})
<1>1. b.inUse \in Nat
  BY LedgerSum
<1> QED
  BY <1>1 DEF Less, NoNewMemory

(* Dropping a set of a client's handles, one by one in whatever order,     *)
(* leaves the books in order and without these handles.                    *)
LEMMA DropAllKeeps ==
  ASSUME NEW b, Ledger(b, None), NEW c, NEW H, IsFiniteSet(H),
         NEW d, d = DroppedAll(b, c, H)
  PROVE  Less(d, b, Mine(b, c, H))
<1>1. PICK g : d = g[H] /\ Solves("drop", c, b, g, H)
  BY DropFold
<1> DEFINE Good(s) == Less(g[s], b, Mine(b, c, s))
           B == {s \in SUBSET H : ~ Good(s)}
<1>2. B = {}
  <2> SUFFICES ASSUME B # {} PROVE FALSE
    OBVIOUS
  <2>1. PICK s \in B : \A x \in s : s \ {x} \notin B
    <3>1. B \in SUBSET SUBSET H
      OBVIOUS
    <3> HIDE DEF B
    <3> QED
      BY <3>1, SmallestExists
  <2>2. s \in SUBSET H /\ IsFiniteSet(s) /\ ~ Good(s)
    BY <2>1, FS_Subset
  <2>3. g[s] = Term("drop", c, b, g, s)
    BY <1>1, <2>2 DEF Solves
  <2>4. CASE s = {}
    <3>1. g[s] = b
      BY <2>3, <2>4 DEF Term
    <3>2. Mine(b, c, s) = {}
      BY <2>4 DEF Mine
    <3> QED
      BY <2>2, <3>1, <3>2, LessNothing
  <2>5. CASE s # {}
    <3>1. PICK x, u, e : x = Some(s) /\ u = s \ {x} /\ e = g[u]
      OBVIOUS
    <3>2. x \in s
      BY <2>2, <2>5, <3>1, SomeLess
    <3>3. Less(e, b, Mine(b, c, u))
      <4>1. u \in SUBSET H /\ u \notin B
        BY <2>1, <2>2, <3>1, <3>2
      <4> QED
        BY <3>1, <4>1
    <3>4. g[s] = Dropped(e, c, x)
      BY <2>3, <2>5, <3>1 DEF Term, Onto
    <3>5. Less(g[s], e, At(e, c, x))
      <4>1. Ledger(e, None)
        BY <3>3 DEF Less
      <4> QED
        BY <3>4, <4>1, DropKeeps DEF Less
    <3>6. Less(g[s], b, Mine(b, c, u) \cup At(e, c, x))
      BY <3>3, <3>5, LessAgain
    <3>7. b.objects \ (Mine(b, c, u) \cup At(e, c, x)) = b.objects \ Mine(b, c, s)
      BY <3>1, <3>2, <3>3 DEF Less, Mine, At
    <3> QED
      BY <2>2, <3>6, <3>7 DEF Less
  <2> QED
    BY <2>4, <2>5
<1>3. Good(H)
  BY <1>2
<1> QED
  BY <1>1, <1>3

Closed(S, c, T) == \A o \in S : o.client = c /\ o.parent \in T => o.handle \in T

\* Under is closed, and it is what every closed set with h in it contains.
LEMMA UnderCloses ==
  ASSUME NEW S, NEW c, NEW h
  PROVE  /\ h \in Under(S, c, h) /\ Closed(S, c, Under(S, c, h))
         /\ \A k \in Under(S, c, h) : k = h \/ \E o \in S : o.client = c /\ o.handle = k
<1> DEFINE mine == {o \in S : o.client = c}
           all == {h} \cup {o.handle : o \in mine}
           ClosedIn(H) == h \in H /\ \A o \in mine : o.parent \in H => o.handle \in H
<1>1. Under(S, c, h) = {k \in all : \A H \in SUBSET all : ClosedIn(H) => k \in H}
  BY DEF Under
<1>2. ASSUME NEW o \in mine, o.parent \in Under(S, c, h) PROVE o.handle \in Under(S, c, h)
  <2>1. ASSUME NEW H \in SUBSET all, ClosedIn(H) PROVE o.handle \in H
    <3>1. o.parent \in H
      BY <1>1, <1>2, <2>1
    <3> QED
      BY <1>2, <2>1, <3>1
  <2>2. o.handle \in all
    OBVIOUS
  <2> HIDE DEF all, ClosedIn, mine
  <2> QED
    BY <1>1, <2>1, <2>2
<1>3. \A k \in all : k = h \/ \E o \in S : o.client = c /\ o.handle = k
  OBVIOUS
<1>4. h \in Under(S, c, h)
  <2>1. h \in all /\ \A H \in SUBSET all : ClosedIn(H) => h \in H
    OBVIOUS
  <2> HIDE DEF all, ClosedIn, mine
  <2> QED
    BY <1>1, <2>1
<1>5. Under(S, c, h) \subseteq all
  <2> HIDE DEF all, ClosedIn, mine
  <2> QED
    BY <1>1
<1> QED
  BY <1>2, <1>3, <1>4, <1>5 DEF Closed

\* It is within every closed set with h in it.
LEMMA UnderIsLeast ==
  ASSUME NEW S, NEW c, NEW h, NEW T, h \in T, Closed(S, c, T)
  PROVE  Under(S, c, h) \subseteq T
<1> DEFINE mine == {o \in S : o.client = c}
           all == {h} \cup {o.handle : o \in mine}
           ClosedIn(H) == h \in H /\ \A o \in mine : o.parent \in H => o.handle \in H
<1>1. Under(S, c, h) = {k \in all : \A H \in SUBSET all : ClosedIn(H) => k \in H}
  BY DEF Under
<1>2. PICK H : H = T \cap all
  OBVIOUS
<1>3. H \in SUBSET all /\ ClosedIn(H)
  <2>1. h \in H
    BY <1>2
  <2>2. \A o \in mine : o.parent \in H => o.handle \in H
    BY <1>2 DEF Closed
  <2>3. H \in SUBSET all
    BY <1>2
  <2> QED
    BY <2>1, <2>2, <2>3
<1>4. Under(S, c, h) \subseteq H
  <2> HIDE DEF all, ClosedIn, mine
  <2> QED
    BY <1>1, <1>3
<1> QED
  BY <1>2, <1>4

\* It has at most one handle more than there are objects.
LEMMA UnderIsFinite ==
  ASSUME NEW S, IsFiniteSet(S), NEW c, NEW h
  PROVE  IsFiniteSet(Under(S, c, h))
<1>1. PICK mine : mine = {o \in S : o.client = c}
  OBVIOUS
<1>2. IsFiniteSet(mine)
  BY <1>1, FS_Subset
<1>3. PICK H, f : H = {o.handle : o \in mine} /\ f = [o \in mine |-> o.handle]
  OBVIOUS
<1>4. IsFiniteSet(H)
  <2>1. H = {f[o] : o \in mine}
    BY <1>3
  <2> QED
    BY <1>2, <2>1, ImageIsFinite
<1>5. IsFiniteSet(H \cup {h})
  BY <1>4, FS_AddElement
<1>6. Under(S, c, h) \subseteq H \cup {h}
  BY <1>1, <1>3, UnderCloses
<1> QED
  BY <1>5, <1>6, FS_Subset

\* freed: what goes from the books is the client's objects, or those under the handle.
LEMMA FreeKeeps ==
  ASSUME NEW b, Ledger(b, None), NEW c, NEW h, NEW d, d = Freed(b, c, h)
  PROVE  /\ h = c => Less(d, b, {o \in b.objects : o.client = c})
         /\ h # c => Less(d, b, Mine(b, c, Under(b.objects, c, h)))
<1>1. CASE h = c
  <2>1. PICK mine : mine = {o \in b.objects : o.client = c}
    OBVIOUS
  <2>2. IsFiniteSet(mine)
    BY <2>1, FS_Subset DEF Ledger
  <2>3. PICK H, f : H = {o.handle : o \in mine} /\ f = [o \in mine |-> o.handle]
    OBVIOUS
  <2>4. IsFiniteSet(H)
    <3>1. H = {f[o] : o \in mine}
      BY <2>3
    <3> QED
      BY <2>2, <3>1, ImageIsFinite
  <2>5. d = DroppedAll(b, c, H)
    BY <1>1, <2>1, <2>3 DEF Freed
  <2>6. Less(d, b, Mine(b, c, H))
    BY <2>4, <2>5, DropAllKeeps
  <2>7. Mine(b, c, H) = mine
    BY <2>1, <2>3 DEF Mine
  <2> QED
    BY <1>1, <2>1, <2>6, <2>7
<1>2. CASE h # c
  <2>1. PICK H : H = Under(b.objects, c, h)
    OBVIOUS
  <2>2. IsFiniteSet(H)
    BY <2>1, UnderIsFinite DEF Ledger
  <2>3. d = DroppedAll(b, c, H)
    BY <1>2, <2>1 DEF Freed
  <2> QED
    BY <1>2, <2>1, <2>2, <2>3, DropAllKeeps
<1> QED
  BY <1>1, <1>2

\* file_closed: what goes is what its clients hold.
LEMMA FreeAllKeeps ==
  ASSUME NEW b, Ledger(b, None), NEW C, IsFiniteSet(C),
         NEW d, d = FoldSet(LAMBDA c, acc : Freed(acc, c, c), b, C)
  PROVE  Less(d, b, {o \in b.objects : o.client \in C})
<1> DEFINE Theirs(s) == {o \in b.objects : o.client \in s}
<1>1. PICK g : d = g[C] /\ Solves("free", 0, b, g, C)
  BY FreeFold
<1> DEFINE Good(s) == Less(g[s], b, Theirs(s))
           B == {s \in SUBSET C : ~ Good(s)}
<1>2. B = {}
  <2> SUFFICES ASSUME B # {} PROVE FALSE
    OBVIOUS
  <2>1. PICK s \in B : \A x \in s : s \ {x} \notin B
    <3>1. B \in SUBSET SUBSET C
      OBVIOUS
    <3> HIDE DEF B
    <3> QED
      BY <3>1, SmallestExists
  <2>2. s \in SUBSET C /\ IsFiniteSet(s) /\ ~ Good(s)
    BY <2>1, FS_Subset
  <2>3. g[s] = Term("free", 0, b, g, s)
    BY <1>1, <2>2 DEF Solves
  <2>4. CASE s = {}
    <3>1. g[s] = b
      BY <2>3, <2>4 DEF Term
    <3>2. Theirs(s) = {}
      BY <2>4
    <3> QED
      BY <2>2, <3>1, <3>2, LessNothing
  <2>5. CASE s # {}
    <3>1. PICK x, u, e : x = Some(s) /\ u = s \ {x} /\ e = g[u]
      OBVIOUS
    <3>2. x \in s
      BY <2>2, <2>5, <3>1, SomeLess
    <3>3. Less(e, b, Theirs(u))
      <4>1. u \in SUBSET C /\ u \notin B
        BY <2>1, <2>2, <3>1, <3>2
      <4> QED
        BY <3>1, <4>1
    <3>4. g[s] = Freed(e, x, x)
      BY <2>3, <2>5, <3>1 DEF Term, Onto
    <3>5. PICK O : O = {o \in e.objects : o.client = x}
      OBVIOUS
    <3>6. Less(g[s], e, O)
      <4>1. Ledger(e, None)
        BY <3>3 DEF Less
      <4> QED
        BY <3>4, <3>5, <4>1, FreeKeeps
    <3>7. Less(g[s], b, Theirs(u) \cup O)
      <4> HIDE DEF Theirs
      <4> QED
        BY <3>3, <3>6, LessAgain
    <3>8. b.objects \ (Theirs(u) \cup O) = b.objects \ Theirs(s)
      BY <3>1, <3>2, <3>3, <3>5 DEF Less
    <3> QED
      BY <2>2, <3>7, <3>8 DEF Less
  <2> QED
    BY <2>4, <2>5
<1>3. Good(C)
  BY <1>2
<1> QED
  BY <1>1, <1>3

\* A number for new memory names nothing that is there.
LEMMA UnnamedIsFree ==
  ASSUME NEW S, IsFiniteSet(S)
  PROVE  Unnamed(S) \in Nat /\ Unnamed(S) \notin S
<1>1. PICK k \in Nat : k = Cardinality(S)
  BY FS_CardinalityType
<1>2. PICK F : F = {n \in 1 .. k + 1 : n \notin S}
  OBVIOUS
<1>3. F # {}
  <2>1. SUFFICES ASSUME F = {} PROVE FALSE
    OBVIOUS
  <2>2. PICK I : I = 1 .. k + 1
    OBVIOUS
  <2>3. I \subseteq S
    BY <1>2, <2>1, <2>2
  <2>4. Cardinality(I) = k + 1
    <3>1. k + 1 \in Int /\ 1 \in Int /\ ~ (1 > k + 1)
      OBVIOUS
    <3>2. Cardinality(1 .. k + 1) = IF 1 > k + 1 THEN 0 ELSE k + 1 - 1 + 1
      BY <3>1, FS_Interval
    <3> QED
      BY <2>2, <3>1, <3>2
  <2>5. Cardinality(I) <= Cardinality(S)
    BY <2>3, FS_Subset
  <2> QED
    BY <1>1, <2>4, <2>5
<1>4. F \in SUBSET Nat
  BY <1>2
<1>5. PICK n \in F : \A m \in F : n <= m
  BY <1>3, <1>4, LeastExists
<1>6. n \in 1 .. k + 1 /\ n \notin S /\ \A m \in 1 .. n - 1 : m \in S
  BY <1>2, <1>5
<1>7. \E m \in 1 .. Cardinality(S) + 1 : m \notin S /\ \A i \in 1 .. m - 1 : i \in S
  BY <1>1, <1>6
<1>8. Unnamed(S) \in 1 .. k + 1 /\ Unnamed(S) \notin S
  BY <1>1, <1>7 DEF Unnamed
<1> QED
  BY <1>8

\* RM takes less than a granule more than was asked for.
LEMMA RoundUpBounds ==
  ASSUME NEW n \in Nat
  PROVE  RoundUp(n) \in Nat /\ RoundUp(n) <= n + Granule - 1
<1> DEFINE m == (n + Granule - 1) \div Granule
<1>1. Granule \in Nat \ {0}
  BY VramAssumption
<1>2. m \in Nat /\ m * Granule <= n + Granule - 1
  BY <1>1
<1>3. RoundUp(n) = m * Granule
  BY DEF RoundUp
<1> HIDE DEF m
<1> QED
  BY <1>1, <1>2, <1>3

NewEntry(c, p, h, id) == [client |-> c, handle |-> h, parent |-> p, memory |-> id]

\* The entry of a handle that has none, for memory x if it holds any.
LEMMA RecordKeeps ==
  ASSUME NEW x \in Nat \cup {None}, NEW b, Ledger(b, x), x # None => \E m \in b.memory : m.id = x,
         NEW c \in Clients, NEW p \in Handles \cup Clients, NEW h \in Handles, At(b, c, h) = {},
         NEW d, d = Recorded(b, c, p, h, x)
  PROVE  /\ d.objects = b.objects \cup {NewEntry(c, p, h, x)}
         /\ d.memory = b.memory /\ d.inUse = b.inUse
         /\ Ledger(d, None)
<1>1. PICK e : e = NewEntry(c, p, h, x)
  OBVIOUS
<1>2. e \in Entry /\ e.client = c /\ e.handle = h /\ e.memory = x /\ e \notin b.objects
  <2>1. e \in Entry /\ e.client = c /\ e.handle = h /\ e.memory = x
    BY <1>1 DEF NewEntry, Entry
  <2> QED
    BY <2>1 DEF At
<1>3. /\ d.objects = b.objects \cup {e} /\ d.memory = b.memory /\ d.inUse = b.inUse
      /\ WellMade(d)
  <2>1. b = [objects |-> b.objects, memory |-> b.memory, inUse |-> b.inUse]
    BY DEF Ledger, WellMade
  <2>2. d = [objects |-> b.objects \cup {e}, memory |-> b.memory, inUse |-> b.inUse]
    BY <1>1, <2>1 DEF Recorded, NewEntry
  <2> QED
    BY <2>2 DEF WellMade
<1>4. IsFiniteSet(d.objects) /\ d.objects \subseteq Entry /\ OnePerHandle(d.objects)
  <2>1. IsFiniteSet(b.objects \cup {e})
    BY FS_AddElement DEF Ledger
  <2>2. \A o \in b.objects : o.client # c \/ o.handle # h
    BY DEF At
  <2> QED
    BY <1>2, <1>3, <2>1, <2>2 DEF Ledger, OnePerHandle
<1>5. ASSUME NEW m \in b.memory
      PROVE  m.holders = Cardinality(Holders(d, m.id)) + (IF m.id = None THEN 1 ELSE 0)
  <2>1. m.id # None /\ m.holders \in Nat
    BY VramAssumption DEF Ledger, Account
  <2>2. m.holders = Cardinality(Holders(b, m.id)) + (IF m.id = x THEN 1 ELSE 0)
    BY DEF Ledger
  <2>3. PICK H : H = Holders(b, m.id)
    OBVIOUS
  <2>4. IsFiniteSet(H) /\ e \notin H /\ Cardinality(H) \in Nat
    BY <1>2, <2>3, FS_Subset, FS_CardinalityType DEF Holders, Ledger
  <2>5. CASE m.id = x
    <3>1. Holders(d, m.id) = H \cup {e}
      BY <1>2, <1>3, <2>3, <2>5 DEF Holders
    <3>2. Cardinality(H \cup {e}) = Cardinality(H) + 1
      BY <2>4, FS_AddElement
    <3>3. m.holders = Cardinality(Holders(d, m.id))
      BY <2>2, <2>3, <2>5, <3>1, <3>2
    <3> QED
      BY <2>1, <3>3
  <2>6. CASE m.id # x
    <3>1. Holders(d, m.id) = H
      BY <1>2, <1>3, <2>3, <2>6 DEF Holders
    <3> QED
      BY <2>1, <2>2, <2>3, <2>4, <2>6, <3>1
  <2> QED
    BY <2>5, <2>6
<1>6. \A o \in d.objects : o.memory # None => \E m \in d.memory : m.id = o.memory
  BY <1>2, <1>3 DEF Ledger
<1>7. Ledger(d, None)
  BY <1>3, <1>4, <1>5, <1>6 DEF Ledger
<1> QED
  BY <1>1, <1>3, <1>7

----------------------------------------------------------------------------
(* The books and the host.  U are the clients the guest can name, R the    *)
(* objects RM holds, b the books.                                          *)

Mem == [id : Nat, bytes : Nat]

OnCard(o) == o.mem \notin {None, System}
SameKey(r, o) == r.client = o.client /\ r.handle = o.handle

\* What an object of client c can be allocated under.
Plain(R, c) == {c} \cup {o.handle : o \in {x \in R : x.client = c /\ x.mem = None}}

ObjectsFit(A, R) ==
  /\ IsFiniteSet(R) /\ OnePerHandle(R)
  /\ \A o \in R : /\ o.client \in A /\ o.handle \in Handles
                  /\ o.parent \in Plain(R, o.client) /\ o.mem \in Mem \cup {None, System}

\* Entry r of the books b says what object o is.
Shows(r, o, b) ==
  /\ SameKey(r, o) /\ r.parent = o.parent
  /\ o.mem = None <=> r.memory = None
  /\ o.mem # None => \E m \in b.memory : m.id = r.memory /\ m.bytes = o.mem.bytes

\* Every object the guest can name is in the books, but for memory that is not the card's.
EnteredIn(U, R, b) ==
  \A o \in R : o.client \in U /\ o.mem # System => \E r \in b.objects : Shows(r, o, b)

\* The books give two handles the same memory if the host does.
SharedIn(R, b) ==
  \A o, x \in R : \A r, s \in b.objects :
    OnCard(o) /\ OnCard(x) /\ SameKey(r, o) /\ SameKey(s, x) =>
      (o.mem = x.mem <=> r.memory = s.memory)

\* What is in the books, the guest could free with what it is under.
KnownIn(U, R, b) == \A r \in b.objects : r.client \in U /\ r.parent \in Plain(R, r.client)

\* What is in the books, the host holds.
TrackedIn(R, b) ==
  \A r \in b.objects :
    \E o \in R : SameKey(r, o) /\ r.parent = o.parent /\ (r.memory # None => OnCard(o))

SameAccount(m, n) == m.id = n.id /\ m.bytes = n.bytes

\* Fewer clients, objects and entries, but no object the guest can name without its entry.
Fewer(V, S, d, U, R, b) ==
  /\ S \subseteq R /\ d.objects \subseteq b.objects
  /\ \A o \in S : o.client \in V => o.client \in U
  /\ \A m \in d.memory : \E n \in b.memory : SameAccount(n, m)
  /\ \A o \in S : \A r \in b.objects :
       SameKey(r, o) /\ o.client \in V /\ o.mem # System => r \in d.objects

\* Then what the books still say of the objects left is right.
LEMMA ShrinkKeeps ==
  ASSUME NEW U, NEW R, NEW b, EnteredIn(U, R, b), SharedIn(R, b), Ledger(b, None),
         NEW V, NEW S, NEW d, NEW x, Ledger(d, x), Fewer(V, S, d, U, R, b)
  PROVE  EnteredIn(V, S, d) /\ SharedIn(S, d)
<1>1. ASSUME NEW o \in S, o.client \in V, o.mem # System
      PROVE  \E r \in d.objects : Shows(r, o, d)
  <2>1. PICK r \in b.objects : Shows(r, o, b)
    BY <1>1 DEF EnteredIn, Fewer
  <2>2. r \in d.objects
    BY <1>1, <2>1 DEF Shows, Fewer
  <2>3. ASSUME o.mem # None PROVE \E m \in d.memory : m.id = r.memory /\ m.bytes = o.mem.bytes
    <3>1. PICK n \in b.memory : n.id = r.memory /\ n.bytes = o.mem.bytes
      BY <2>1, <2>3 DEF Shows
    <3>2. r.memory # None
      BY <2>1, <2>3 DEF Shows
    <3>3. PICK m \in d.memory : m.id = r.memory
      BY <2>2, <3>2 DEF Ledger
    <3>4. PICK k \in b.memory : SameAccount(k, m)
      BY DEF Fewer
    <3>5. k = n
      BY <3>1, <3>3, <3>4 DEF Ledger, SameAccount
    <3> QED
      BY <3>1, <3>3, <3>4, <3>5 DEF SameAccount
  <2> QED
    BY <2>1, <2>2, <2>3 DEF Shows
<1>2. SharedIn(S, d)
  BY DEF SharedIn, Fewer
<1> QED
  BY <1>1, <1>2 DEF EnteredIn

\* The books d have object o and its entry e more than the books b.
More(o, e, d, R, b) ==
  /\ SameKey(e, o) /\ (o.mem # System => Shows(e, o, d))
  /\ \A x \in R : ~ SameKey(x, o)
  /\ \A r \in b.objects : ~ SameKey(r, o)
  /\ d.objects = b.objects \cup {e}
  /\ \A m \in b.memory : \E n \in d.memory : SameAccount(n, m)
  /\ OnCard(o) => \A x \in R : \A s \in b.objects :
       OnCard(x) /\ SameKey(s, x) => (o.mem = x.mem <=> e.memory = s.memory)

\* Then what they say of the other objects is right, and of the new one.
LEMMA GrowKeeps ==
  ASSUME NEW U, NEW R, NEW b, EnteredIn(U, R, b), SharedIn(R, b),
         NEW o, NEW e, NEW d, More(o, e, d, R, b)
  PROVE  EnteredIn(U, R \cup {o}, d) /\ SharedIn(R \cup {o}, d)
<1>1. ASSUME NEW x \in R, x.client \in U, x.mem # System
      PROVE  \E r \in d.objects : Shows(r, x, d)
  <2>1. PICK r \in b.objects : Shows(r, x, b)
    BY <1>1 DEF EnteredIn
  <2> QED
    BY <2>1 DEF Shows, SameAccount, More
<1>2. EnteredIn(U, R \cup {o}, d)
  <2>1. e \in d.objects /\ (o.mem # System => Shows(e, o, d))
    BY DEF More
  <2> QED
    BY <1>1, <2>1 DEF EnteredIn
<1>3. ASSUME NEW x \in R \cup {o}, NEW y \in R \cup {o}, NEW r \in d.objects, NEW s \in d.objects,
             OnCard(x), OnCard(y), SameKey(r, x), SameKey(s, y)
      PROVE  x.mem = y.mem <=> r.memory = s.memory
  <2>1. ASSUME NEW z \in R \cup {o}, NEW t \in d.objects, SameKey(t, z)
        PROVE  (z \in R /\ t \in b.objects) \/ (z = o /\ t = e)
    BY <2>1 DEF SameKey, More
  <2>2. CASE x \in R /\ r \in b.objects /\ y \in R /\ s \in b.objects
    BY <1>3, <2>2 DEF SharedIn
  <2>3. CASE x = o /\ r = e /\ y \in R /\ s \in b.objects
    BY <1>3, <2>3 DEF More
  <2>4. CASE x \in R /\ r \in b.objects /\ y = o /\ s = e
    BY <1>3, <2>4 DEF More
  <2>5. CASE x = o /\ r = e /\ y = o /\ s = e
    BY <2>5
  <2>6. (x \in R /\ r \in b.objects) \/ (x = o /\ r = e)
    BY <1>3, <2>1
  <2>7. (y \in R /\ s \in b.objects) \/ (y = o /\ s = e)
    BY <1>3, <2>1
  <2> QED
    BY <2>2, <2>3, <2>4, <2>5, <2>6, <2>7
<1>4. SharedIn(R \cup {o}, d)
  BY <1>3 DEF SharedIn
<1> QED
  BY <1>2, <1>4

\* Object o is allocated: what the books had for its handle is dropped (books k), and entry e
\* is made for it (books d).
Adds(U, R, b, k, o, e, d) ==
  /\ o.client \in U /\ o.parent \in Plain(R, o.client)
  /\ SameKey(e, o) /\ e.parent = o.parent
  /\ \A x \in R : ~ SameKey(x, o)
  /\ \A r \in b.objects : r \in k.objects <=> ~ SameKey(r, o)
  /\ k.objects \subseteq b.objects
  /\ \A m \in k.memory : \E n \in b.memory : SameAccount(n, m)
  /\ d.objects = k.objects \cup {e}
  /\ \A m \in k.memory : \E n \in d.memory : SameAccount(n, m)
  /\ o.mem = None => e.memory = None
  /\ OnCard(o) => /\ e.memory # None
                  /\ \E m \in d.memory : m.id = e.memory /\ m.bytes = o.mem.bytes
                  /\ \A x \in R : \A s \in k.objects :
                       OnCard(x) /\ SameKey(s, x) => (o.mem = x.mem <=> e.memory = s.memory)

\* Then the books are right about all objects with o among them.
LEMMA AllocKeeps ==
  ASSUME NEW U, NEW R, NEW b, Ledger(b, None),
         EnteredIn(U, R, b), SharedIn(R, b), KnownIn(U, R, b),
         NEW k, NEW y, Ledger(k, y), NEW o, NEW e, NEW d, Adds(U, R, b, k, o, e, d)
  PROVE  /\ EnteredIn(U, R \cup {o}, d) /\ SharedIn(R \cup {o}, d) /\ KnownIn(U, R \cup {o}, d)
         /\ TrackedIn(R, b) /\ (e.memory # None => OnCard(o)) => TrackedIn(R \cup {o}, d)
<1>1. EnteredIn(U, R, k) /\ SharedIn(R, k)
  <2>1. \A x \in R : \A r \in b.objects :
          SameKey(r, x) /\ x.client \in U /\ x.mem # System => r \in k.objects
    BY DEF SameKey, Adds
  <2>2. Fewer(U, R, k, U, R, b)
    BY <2>1 DEF Fewer, Adds
  <2> QED
    BY <2>2, ShrinkKeeps
<1>2. o.mem # System => Shows(e, o, d)
  <2>1. CASE o.mem = None
    BY <2>1 DEF Shows, Adds
  <2>2. CASE OnCard(o)
    BY <2>2 DEF Shows, OnCard, Adds
  <2> QED
    BY <2>1, <2>2 DEF OnCard
<1>3. EnteredIn(U, R \cup {o}, d) /\ SharedIn(R \cup {o}, d)
  <2>1. \A r \in k.objects : ~ SameKey(r, o)
    BY DEF Adds
  <2>2. More(o, e, d, R, k)
    BY <1>2, <2>1 DEF More, Adds
  <2> QED
    BY <1>1, <2>2, GrowKeeps
<1>4. \A r \in d.objects : r = e \/ (r \in b.objects /\ r \in k.objects)
  BY DEF Adds
<1>5. \A x : Plain(R, x) \subseteq Plain(R \cup {o}, x)
  BY DEF Plain
<1>6. KnownIn(U, R \cup {o}, d)
  BY <1>4, <1>5 DEF KnownIn, Adds, SameKey
<1>7. TrackedIn(R, b) /\ (e.memory # None => OnCard(o)) => TrackedIn(R \cup {o}, d)
  <2>1. SUFFICES ASSUME TrackedIn(R, b), e.memory # None => OnCard(o), NEW r \in d.objects
                 PROVE  \E x \in R \cup {o} : /\ SameKey(r, x) /\ r.parent = x.parent
                                              /\ (r.memory # None => OnCard(x))
    BY DEF TrackedIn
  <2>2. CASE r = e
    BY <2>1, <2>2 DEF Adds
  <2>3. CASE r \in b.objects
    BY <2>1, <2>3 DEF TrackedIn
  <2> QED
    BY <1>4, <2>2, <2>3
<1> QED
  BY <1>3, <1>6, <1>7

\* The host's objects with a new one.
LEMMA ObjectsFitWith ==
  ASSUME NEW A, NEW R, ObjectsFit(A, R), NEW c \in A, NEW h \in Handles, NEW p \in Plain(R, c),
         NEW mem \in Mem \cup {None, System},
         \A x \in R : ~ (x.client = c /\ x.handle = h),
         NEW o, o = [client |-> c, handle |-> h, parent |-> p, mem |-> mem]
  PROVE  ObjectsFit(A, R \cup {o})
<1>1. o.client = c /\ o.handle = h /\ o.parent = p /\ o.mem = mem
  OBVIOUS
<1>2. IsFiniteSet(R \cup {o})
  BY FS_AddElement DEF ObjectsFit
<1>3. OnePerHandle(R \cup {o})
  BY <1>1 DEF ObjectsFit, OnePerHandle
<1>4. \A x : Plain(R, x) \subseteq Plain(R \cup {o}, x)
  BY DEF Plain
<1>5. ASSUME NEW x \in R \cup {o}
      PROVE  /\ x.client \in A /\ x.handle \in Handles
             /\ x.parent \in Plain(R \cup {o}, x.client) /\ x.mem \in Mem \cup {None, System}
  <2>1. CASE x = o
    BY <1>1, <1>4, <2>1
  <2>2. CASE x \in R
    BY <1>4, <2>2 DEF ObjectsFit
  <2> QED
    BY <2>1, <2>2
<1> QED
  BY <1>2, <1>3, <1>5 DEF ObjectsFit

\* New memory with an account of its own.
LEMMA AccountKeeps ==
  ASSUME NEW k, Ledger(k, None), NEW id \in Nat, \A m \in k.memory : m.id # id,
         NEW a \in Account, a.id = id, a.holders = 1,
         NEW e, WellMade(e), e.objects = k.objects, e.memory = k.memory \cup {a},
         e.inUse = k.inUse + a.bytes
  PROVE  Ledger(e, id)
<1>1. a \in Account /\ a.id = id /\ a.holders = 1 /\ a \notin k.memory /\ a.bytes \in Nat
  BY DEF Account
<1>2. /\ e.objects = k.objects /\ e.memory = k.memory \cup {a} /\ e.inUse = k.inUse + a.bytes
      /\ WellMade(e)
  OBVIOUS
<1>3. IsFiniteSet(k.memory) /\ (\A m \in k.memory : m.bytes \in Nat) /\ k.inUse = Bytes(k.memory)
      /\ k.inUse \in Nat
  BY LedgerSum DEF Ledger
<1>4. e.inUse = Bytes(e.memory)
  <2>1. Bytes(k.memory \cup {a}) = a.bytes + Bytes(k.memory)
    BY <1>1, <1>3, BytesWith
  <2> QED
    BY <1>1, <1>2, <1>3, <2>1
<1>5. IsFiniteSet(e.memory)
  BY <1>2, <1>3, FS_AddElement
<1>6. \A o \in k.objects : o.memory # id
  BY VramAssumption DEF Ledger
<1>7. ASSUME NEW m \in e.memory
      PROVE  m.holders = Cardinality(Holders(e, m.id)) + (IF m.id = id THEN 1 ELSE 0)
  <2>1. CASE m = a
    <3>1. Holders(e, m.id) = {}
      BY <1>1, <1>2, <1>6, <2>1 DEF Holders
    <3>2. Cardinality(Holders(e, m.id)) = 0
      BY <3>1, FS_EmptySet
    <3>3. (IF m.id = id THEN 1 ELSE 0) = 1 /\ m.holders = 1
      BY <1>1, <2>1
    <3> QED
      BY <3>2, <3>3
  <2>2. CASE m \in k.memory
    <3>1. Holders(e, m.id) = Holders(k, m.id) /\ m.id # id /\ m.id # None
      BY <1>2, <2>2, VramAssumption DEF Holders, Ledger, Account
    <3> QED
      BY <2>2, <3>1 DEF Ledger
  <2> QED
    BY <1>2, <2>1, <2>2
<1>8. Ledger(e, id)
  <2>1. e.memory \subseteq Account
    BY <1>1, <1>2 DEF Ledger
  <2>2. \A m, l \in e.memory : m.id = l.id => m = l
    BY <1>1, <1>2 DEF Ledger
  <2>3. \A o \in e.objects : o.memory # None => \E m \in e.memory : m.id = o.memory
    BY <1>2 DEF Ledger
  <2>4. IsFiniteSet(e.objects) /\ e.objects \subseteq Entry /\ OnePerHandle(e.objects)
    BY <1>2 DEF Ledger
  <2> QED
    BY <1>2, <1>4, <1>5, <1>7, <2>1, <2>2, <2>3, <2>4 DEF Ledger
<1> QED
  BY <1>8

HolderMore(b, source) ==
  [b EXCEPT !.memory =
    {IF m \in Named(b, source) THEN [m EXCEPT !.holders = @ + 1] ELSE m : m \in @}]

\* One holder more for the memory of entry s.
LEMMA HoldKeeps ==
  ASSUME NEW b, Ledger(b, None), NEW s \in b.objects, NEW e, e = HolderMore(b, {s})
  PROVE  /\ e.objects = b.objects /\ e.inUse = b.inUse /\ Ledger(e, s.memory)
         /\ \A m \in e.memory : \E n \in b.memory : SameAccount(n, m)
<1>1. PICK N : N = {IF m \in Named(b, {s}) THEN [m EXCEPT !.holders = @ + 1] ELSE m : m \in b.memory}
  OBVIOUS
<1>2. e.objects = b.objects /\ e.memory = N /\ e.inUse = b.inUse /\ WellMade(e)
  <2>1. b = [objects |-> b.objects, memory |-> b.memory, inUse |-> b.inUse]
    BY DEF Ledger, WellMade
  <2>2. e = [objects |-> b.objects, memory |-> N, inUse |-> b.inUse]
    BY <1>1, <2>1 DEF HolderMore
  <2> QED
    BY <2>2 DEF WellMade
<1>3. \A m \in b.memory : m \in Named(b, {s}) <=> m.id = s.memory
  BY DEF Named
<1>4. \A i : Holders(e, i) = Holders(b, i)
  BY <1>2 DEF Holders
<1>5. CASE s.memory = None
  <2>1. N = b.memory
    <3>1. \A m \in b.memory : m \notin Named(b, {s})
      BY <1>3, <1>5, LedgerSum, VramAssumption
    <3> QED
      BY <1>1, <3>1
  <2> QED
    BY <1>2, <1>4, <1>5, <2>1 DEF Ledger, SameAccount
<1>6. CASE s.memory # None
  <2>1. PICK m \in b.memory : m.id = s.memory
    BY <1>6 DEF Ledger
  <2>2. PICK l : l = [m EXCEPT !.holders = @ + 1]
    OBVIOUS
  <2>3. /\ m \in Account /\ l = [id |-> m.id, bytes |-> m.bytes, holders |-> m.holders + 1]
        /\ \A n \in b.memory : n.id = m.id => n = m
    BY <2>1, <2>2 DEF Ledger, Account
  <2>4. l \in Account /\ l.id = m.id /\ l.bytes = m.bytes /\ l.holders = m.holders + 1
    BY <2>3 DEF Account
  <2>5. N = (b.memory \ {m}) \cup {l}
    <3>1. \A n \in b.memory : n \in Named(b, {s}) <=> n = m
      BY <1>3, <2>1, <2>3
    <3> QED
      BY <1>1, <2>1, <2>2, <3>1
  <2>6. PICK rest : rest = b.memory \ {m}
    OBVIOUS
  <2>7. /\ IsFiniteSet(rest) /\ (\A n \in rest : n.bytes \in Nat /\ n.id # m.id) /\ l \notin rest
        /\ Bytes(b.memory) = m.bytes + Bytes(rest) /\ m.bytes \in Nat
    <3>1. IsFiniteSet(b.memory) /\ \A n \in b.memory : n.bytes \in Nat
      BY LedgerSum DEF Ledger
    <3> QED
      BY <2>1, <2>3, <2>4, <2>6, <3>1, FS_Subset, BytesWithout
  <2>8. Bytes(N) = Bytes(b.memory) /\ IsFiniteSet(N)
    <3>1. Bytes(rest \cup {l}) = l.bytes + Bytes(rest) /\ IsFiniteSet(rest \cup {l})
      BY <2>4, <2>7, BytesWith, FS_AddElement
    <3> QED
      BY <2>4, <2>5, <2>6, <2>7, <3>1
  <2>9. \A n \in N : (n \in b.memory /\ n \in rest) \/ n = l
    BY <2>5, <2>6
  <2>10. ASSUME NEW n \in N
         PROVE  n.holders = Cardinality(Holders(e, n.id)) + (IF n.id = s.memory THEN 1 ELSE 0)
    <3>1. CASE n = l
      <4>1. m.holders = Cardinality(Holders(b, m.id)) /\ m.holders \in Nat
        <5>1. m.id # None /\ m.holders \in Nat
          BY <2>3, VramAssumption DEF Account
        <5>2. m.holders = Cardinality(Holders(b, m.id)) + (IF m.id = None THEN 1 ELSE 0)
          BY DEF Ledger
        <5>3. IsFiniteSet(Holders(b, m.id))
          BY FS_Subset DEF Ledger, Holders
        <5>4. Cardinality(Holders(b, m.id)) \in Nat
          BY <5>3, FS_CardinalityType
        <5>5. (IF m.id = None THEN 1 ELSE 0) = 0
          BY <5>1
        <5> QED
          BY <5>1, <5>2, <5>4, <5>5
      <4>2. n.holders = Cardinality(Holders(e, n.id)) + 1
        BY <1>4, <2>4, <3>1, <4>1
      <4>3. (IF n.id = s.memory THEN 1 ELSE 0) = 1
        BY <2>1, <2>4, <3>1
      <4> QED
        BY <4>2, <4>3
    <3>2. CASE n \in b.memory /\ n \in rest
      BY <1>4, <2>1, <2>7, <3>2, VramAssumption DEF Ledger, Account
    <3> QED
      BY <2>9, <3>1, <3>2
  <2>11. N \subseteq Account /\ \A n, k \in N : n.id = k.id => n = k
    BY <2>4, <2>7, <2>9 DEF Ledger
  <2>12. \A o \in b.objects : o.memory # None => \E n \in N : n.id = o.memory
    BY <2>1, <2>3, <2>4, <2>5 DEF Ledger
  <2>13. Ledger(e, s.memory)
    BY <1>2, <2>8, <2>10, <2>11, <2>12 DEF Ledger
  <2>14. \A n \in N : \E k \in b.memory : SameAccount(k, n)
    BY <2>1, <2>4, <2>9 DEF SameAccount
  <2> QED
    BY <1>2, <2>13, <2>14
<1> QED
  BY <1>5, <1>6

----------------------------------------------------------------------------
(* The invariant *)

\* What the guest can name.
Usables == {c \in Clients : Usable(c)}

Types ==
  /\ file \in [Files -> {"open", "closed"}]
  /\ roots \subseteq [client : Clients, file : Files]
  /\ clients \subseteq [client : Clients, file : Files]
  /\ untracked \in 0 .. MaxUntracked

RootsFit == IsFiniteSet(roots) /\ \A r, s \in roots : r.client = s.client => r = s

Within == Limit # None => books.inUse < Limit + Granule

VramInv ==
  /\ Types /\ RootsFit /\ ObjectsFit(Alive, rm) /\ Ledger(books, None)
  /\ EnteredIn(Usables, rm, books) /\ SharedIn(rm, books) /\ KnownIn(Usables, rm, books)
  /\ untracked = 0 => TrackedIn(rm, books)
  /\ Within /\ IssuedIsAlive

\* The invariant holds of a guest that has nothing.
LEMMA InitOk == Init => VramInv
<1> SUFFICES ASSUME Init PROVE VramInv
  OBVIOUS
<1>1. /\ roots = {} /\ rm = {} /\ clients = {} /\ untracked = 0
      /\ file = [f \in Files |-> "open"]
      /\ books = [objects |-> {}, memory |-> {}, inUse |-> 0]
  BY DEF Init
<1>2. books.objects = {} /\ books.memory = {} /\ books.inUse = 0 /\ WellMade(books)
  BY <1>1 DEF WellMade
<1>3. IsFiniteSet({}) /\ Bytes({}) = 0
  BY FS_EmptySet, BytesUnfold
<1>4. Types
  BY <1>1, VramAssumption DEF Types
<1>5. RootsFit /\ ObjectsFit(Alive, rm)
  BY <1>1, <1>3 DEF RootsFit, ObjectsFit, OnePerHandle
<1>6. Ledger(books, None)
  BY <1>2, <1>3 DEF Ledger, OnePerHandle
<1>7. EnteredIn(Usables, rm, books) /\ SharedIn(rm, books) /\ KnownIn(Usables, rm, books)
      /\ TrackedIn(rm, books)
  BY <1>1, <1>2 DEF EnteredIn, SharedIn, KnownIn, TrackedIn
<1>8. Within
  BY <1>2, VramAssumption DEF Within
<1>9. IssuedIsAlive
  BY <1>1 DEF IssuedIsAlive
<1> QED
  BY <1>4, <1>5, <1>6, <1>7, <1>8, <1>9 DEF VramInv

\* What a step that changes nothing of the files and clients leaves as it is.
Standing == UNCHANGED <<file, roots, clients, untracked>>

\* Then the clients the guest can name are the same.
LEMMA StandingKeeps ==
  ASSUME Standing, VramInv
  PROVE  /\ Usables' = Usables /\ Alive' = Alive
         /\ Types' /\ RootsFit' /\ IssuedIsAlive'
<1>1. file' = file /\ roots' = roots /\ clients' = clients /\ untracked' = untracked
  BY DEF Standing
<1>2. \A c : Usable(c)' <=> Usable(c)
  BY <1>1 DEF Usable
<1>3. Usables' = Usables
  BY <1>2 DEF Usables
<1>4. Alive' = Alive
  BY <1>1 DEF Alive
<1> QED
  BY <1>1, <1>3, <1>4 DEF VramInv, Types, RootsFit, IssuedIsAlive

\* A request to allocate is for a handle of a client the guest can name.
LEMMA NewIs ==
  ASSUME VramInv, NEW c \in Clients, NEW h \in Handles, NEW p \in Parents(c), NEW mem,
         NewObject(c, p, h, mem)
  PROVE  /\ c \in Usables /\ c \in Alive /\ p \in Plain(rm, c) /\ p \in Handles \cup Clients
         /\ \A x \in rm : ~ (x.client = c /\ x.handle = h)
         /\ rm' = rm \cup {[client |-> c, handle |-> h, parent |-> p, mem |-> mem]}
<1>1. c \in Usables /\ c \in Alive
  BY DEF NewObject, Usables, Usable, Alive
<1>2. p \in Plain(rm, c)
  BY DEF Plain, Parents
<1>3. p \in Handles \cup Clients
  BY DEF Parents, VramInv, ObjectsFit
<1>4. \A x \in rm : ~ (x.client = c /\ x.handle = h)
  BY DEF NewObject, Live
<1> QED
  BY <1>1, <1>2, <1>3, <1>4 DEF NewObject

\* What an allocation has to show.
LEMMA AddKeeps ==
  ASSUME VramInv, Standing,
         NEW c \in Clients, NEW h \in Handles, NEW p \in Parents(c),
         NEW mem \in Mem \cup {None, System}, NewObject(c, p, h, mem),
         NEW U, U = Usables, NEW S, S = rm', NEW d, d = books',
         Ledger(d, None), EnteredIn(U, S, d), SharedIn(S, d), KnownIn(U, S, d),
         untracked = 0 => TrackedIn(S, d),
         Limit # None => d.inUse < Limit + Granule
  PROVE  VramInv'
<1>1. /\ Usables' = Usables /\ Alive' = Alive /\ untracked' = untracked
      /\ Types' /\ RootsFit' /\ IssuedIsAlive'
  BY StandingKeeps DEF Standing
<1>2. PICK A, R, o : A = Alive /\ R = rm /\ o = [client |-> c, handle |-> h, parent |-> p, mem |-> mem]
  OBVIOUS
<1>3. ObjectsFit(A, S)
  <2>1. /\ c \in A /\ p \in Plain(R, c) /\ S = R \cup {o} /\ ObjectsFit(A, R)
        /\ \A x \in R : ~ (x.client = c /\ x.handle = h)
    BY <1>2, NewIs DEF VramInv
  <2> QED
    BY <1>2, <2>1, ObjectsFitWith
<1>4. ObjectsFit(Alive, rm)'
  BY <1>1, <1>2, <1>3
<1>5. /\ EnteredIn(Usables, rm, books)' /\ SharedIn(rm, books)' /\ KnownIn(Usables, rm, books)'
      /\ Ledger(books, None)'
  BY <1>1
<1>6. (untracked = 0 => TrackedIn(rm, books))'
  BY <1>1
<1>7. Within'
  BY DEF Within
<1> QED
  BY <1>1, <1>4, <1>5, <1>6, <1>7 DEF VramInv

----------------------------------------------------------------------------
(* Allocations *)

\* After the drop an allocation starts with, nothing of the handle is in the books.
LEMMA DropFirst ==
  ASSUME NEW b, NEW x, Ledger(b, x), NEW c, NEW h, NEW k, k = Dropped(b, c, h)
  PROVE  /\ Ledger(k, x) /\ k.objects = b.objects \ At(b, c, h) /\ At(k, c, h) = {}
         /\ k.inUse <= b.inUse /\ k.inUse \in Nat /\ b.inUse \in Nat
         /\ \A m \in k.memory : \E n \in b.memory : SameAccount(n, m)
<1>1. k.objects = b.objects \ At(b, c, h) /\ NoNewMemory(k, b) /\ Ledger(k, x)
  BY DropKeeps
<1>2. At(k, c, h) = {}
  BY <1>1 DEF At
<1> QED
  BY <1>1, <1>2, LedgerSum DEF NoNewMemory, SameAccount

\* RM_ALLOC of an object without memory enters it without memory.
LEMMA AllocObjectStep ==
  ASSUME VramInv, NEW c \in Clients, NEW h \in Handles, NEW p \in Parents(c), AllocObject(c, p, h)
  PROVE  VramInv'
<1>1. NewObject(c, p, h, None) /\ Standing
  BY DEF AllocObject, Standing
<1>2. PICK A, U, R, b : A = Alive /\ U = Usables /\ R = rm /\ b = books
  OBVIOUS
<1>3. PICK o, S, d : /\ o = [client |-> c, handle |-> h, parent |-> p, mem |-> None]
                     /\ S = rm' /\ d = books'
  OBVIOUS
<1>4. /\ c \in U /\ p \in Plain(R, c) /\ p \in Handles \cup Clients /\ S = R \cup {o}
      /\ \A x \in R : ~ (x.client = c /\ x.handle = h)
  BY <1>1, <1>2, <1>3, NewIs
<1>5. /\ Ledger(b, None) /\ EnteredIn(U, R, b) /\ SharedIn(R, b) /\ KnownIn(U, R, b)
      /\ (untracked = 0 => TrackedIn(R, b)) /\ (Limit # None => b.inUse < Limit + Granule)
  BY <1>2 DEF VramInv, Within
<1>6. PICK k : k = Dropped(b, c, h)
  OBVIOUS
<1>7. d = Recorded(k, c, p, h, None)
  BY <1>2, <1>3, <1>6 DEF AllocObject, AllocatedPlain
<1>8. /\ Ledger(k, None) /\ k.objects = b.objects \ At(b, c, h) /\ At(k, c, h) = {}
      /\ k.inUse <= b.inUse /\ k.inUse \in Nat /\ b.inUse \in Nat
      /\ \A m \in k.memory : \E n \in b.memory : SameAccount(n, m)
  BY <1>5, <1>6, DropFirst
<1>9. /\ d.objects = k.objects \cup {NewEntry(c, p, h, None)} /\ d.memory = k.memory
      /\ d.inUse = k.inUse /\ Ledger(d, None)
  <2>1. PICK id : id = None
    OBVIOUS
  <2>2. id \in Nat \cup {None} /\ (id # None => \E m \in k.memory : m.id = id)
    BY <2>1
  <2>3. Ledger(k, id) /\ At(k, c, h) = {} /\ d = Recorded(k, c, p, h, id)
    BY <1>7, <1>8, <2>1
  <2>4. p \in Handles \cup Clients
    BY <1>4
  <2> QED
    BY ONLY c \in Clients, h \in Handles, <2>1, <2>2, <2>3, <2>4, RecordKeeps
<1>10. /\ EnteredIn(U, S, d) /\ SharedIn(S, d) /\ KnownIn(U, S, d)
       /\ TrackedIn(R, b) => TrackedIn(S, d)
  <2>1. PICK e : e = NewEntry(c, p, h, None)
    OBVIOUS
  <2>2. /\ o.client = c /\ o.handle = h /\ o.parent = p /\ o.mem = None
        /\ e.client = c /\ e.handle = h /\ e.parent = p /\ e.memory = None
    BY <1>3, <2>1 DEF NewEntry
  <2>3. \A m \in k.memory : \E n \in d.memory : SameAccount(n, m)
    BY <1>9 DEF SameAccount
  <2>4. ~ OnCard(o)
    BY <2>2 DEF OnCard
  <2>5. \A r \in b.objects : r \in k.objects <=> ~ SameKey(r, o)
    BY <1>8, <2>2 DEF SameKey, At
  <2>6. Adds(U, R, b, k, o, e, d)
    BY <1>4, <1>8, <1>9, <2>1, <2>2, <2>3, <2>4, <2>5 DEF Adds, SameKey
  <2>7. /\ EnteredIn(U, R \cup {o}, d) /\ SharedIn(R \cup {o}, d) /\ KnownIn(U, R \cup {o}, d)
        /\ TrackedIn(R, b) /\ (e.memory # None => OnCard(o)) => TrackedIn(R \cup {o}, d)
    BY <1>5, <1>8, <2>6, AllocKeeps
  <2> QED
    BY <1>4, <2>2, <2>7
<1>11. Limit # None => d.inUse < Limit + Granule
  BY <1>5, <1>8, <1>9, VramAssumption
<1> QED
  BY <1>1, <1>2, <1>3, <1>5, <1>9, <1>10, <1>11, AddKeeps

\* An allocation the books do not enter is of memory that is not the card's.
LEMMA AllocSystemStep ==
  ASSUME VramInv, NEW c \in Clients, NEW h \in Handles, NEW p \in Parents(c), AllocSystem(c, p, h)
  PROVE  VramInv'
<1>1. NewObject(c, p, h, System) /\ Standing /\ books' = books
  BY DEF AllocSystem, Standing
<1>2. PICK A, U, R, b : A = Alive /\ U = Usables /\ R = rm /\ b = books
  OBVIOUS
<1>3. PICK o, S, d : /\ o = [client |-> c, handle |-> h, parent |-> p, mem |-> System]
                     /\ S = rm' /\ d = books'
  OBVIOUS
<1>4. S = R \cup {o} /\ d = b /\ o.mem = System
  BY <1>1, <1>2, <1>3, NewIs
<1>5. /\ Ledger(b, None) /\ EnteredIn(U, R, b) /\ SharedIn(R, b) /\ KnownIn(U, R, b)
      /\ (untracked = 0 => TrackedIn(R, b)) /\ (Limit # None => b.inUse < Limit + Granule)
  BY <1>2 DEF VramInv, Within
<1>6. EnteredIn(U, S, b)
  BY <1>4, <1>5 DEF EnteredIn
<1>7. SharedIn(S, b)
  BY <1>4, <1>5 DEF SharedIn, OnCard
<1>8. \A x : Plain(R, x) \subseteq Plain(S, x)
  BY <1>4 DEF Plain
<1>9. KnownIn(U, S, b)
  BY <1>5, <1>8 DEF KnownIn
<1>10. TrackedIn(R, b) => TrackedIn(S, b)
  BY <1>4 DEF TrackedIn
<1> QED
  BY <1>1, <1>2, <1>3, <1>4, <1>5, <1>6, <1>7, <1>9, <1>10, AddKeeps

\* What RM holds is finitely many memories.
LEMMA HeldIs ==
  ASSUME VramInv
  PROVE  /\ IsFiniteSet(Held) /\ Held \subseteq Mem
         /\ \A o \in rm : OnCard(o) => o.mem \in Held
         /\ \A m \in Held : \E o \in rm : OnCard(o) /\ o.mem = m
<1>1. IsFiniteSet(rm) /\ \A o \in rm : o.mem \in Mem \cup {None, System}
  BY DEF VramInv, ObjectsFit
<1>2. PICK f, T : f = [o \in rm |-> o.mem] /\ T = {f[o] : o \in rm}
  OBVIOUS
<1>3. IsFiniteSet(T)
  BY <1>1, <1>2, ImageIsFinite
<1>4. Held \subseteq T
  BY <1>2 DEF Held
<1>5. IsFiniteSet(Held)
  BY <1>3, <1>4, FS_Subset
<1> QED
  BY <1>1, <1>5 DEF Held, OnCard

\* The host's new memory is another than all there is.
LEMMA NewMemory ==
  ASSUME VramInv, NEW asked \in Sizes,
         NEW mem, mem = [id |-> Unnamed({m.id : m \in Held}), bytes |-> RoundUp(asked)]
  PROVE  /\ mem \in Mem /\ mem.bytes = RoundUp(asked) /\ RoundUp(asked) \in Nat
         /\ mem \notin {None, System}
         /\ \A o \in rm : OnCard(o) => o.mem # mem
<1>1. asked \in Nat
  BY VramAssumption
<1>2. RoundUp(asked) \in Nat
  BY <1>1, RoundUpBounds
<1>3. IsFiniteSet(Held)
  BY HeldIs
<1>4. PICK f, T : f = [m \in Held |-> m.id] /\ T = {f[m] : m \in Held}
  OBVIOUS
<1>5. IsFiniteSet(T) /\ T = {m.id : m \in Held}
  BY <1>3, <1>4, ImageIsFinite
<1>6. Unnamed(T) \in Nat /\ Unnamed(T) \notin T
  BY <1>5, UnnamedIsFree
<1>7. mem.id = Unnamed(T) /\ mem.bytes = RoundUp(asked)
  BY <1>5
<1>8. mem \in Mem
  BY <1>2, <1>5, <1>6 DEF Mem
<1>9. \A m \in Held : m.id # mem.id
  BY <1>5, <1>6, <1>7
<1>10. \A o \in rm : OnCard(o) => o.mem # mem
  BY <1>9, HeldIs
<1>11. mem \notin {None, System}
  BY <1>8, VramAssumption DEF Mem
<1> QED
  BY <1>2, <1>7, <1>8, <1>10, <1>11

\* RM_ALLOC of video memory opens an account of what RM took.
LEMMA AllocMemoryStep ==
  ASSUME VramInv, NEW c \in Clients, NEW h \in Handles, NEW p \in Parents(c), NEW asked \in Sizes,
         AllocMemory(c, p, h, asked)
  PROVE  VramInv'
<1>0. PICK mem : mem = [id |-> Unnamed({m.id : m \in Held}), bytes |-> RoundUp(asked)]
  OBVIOUS
<1>1. NewObject(c, p, h, mem) /\ Standing /\ Admit(asked)
  BY <1>0 DEF AllocMemory, Standing
<1>2. PICK U, R, b : U = Usables /\ R = rm /\ b = books
  OBVIOUS
<1>3. PICK o, S, d : /\ o = [client |-> c, handle |-> h, parent |-> p, mem |-> mem]
                     /\ S = rm' /\ d = books'
  OBVIOUS
<1>4. /\ c \in U /\ p \in Plain(R, c) /\ p \in Handles \cup Clients /\ S = R \cup {o}
      /\ \A x \in R : ~ (x.client = c /\ x.handle = h)
  BY <1>1, <1>2, <1>3, NewIs
<1>5. /\ Ledger(b, None) /\ EnteredIn(U, R, b) /\ SharedIn(R, b) /\ KnownIn(U, R, b)
      /\ (untracked = 0 => TrackedIn(R, b))
  BY <1>2 DEF VramInv
<1>6. PICK n : n = RoundUp(asked)
  OBVIOUS
<1>7. /\ mem \in Mem /\ mem.bytes = n /\ n \in Nat /\ mem \notin {None, System}
      /\ \A x \in R : OnCard(x) => x.mem # mem
  BY <1>0, <1>2, <1>6, NewMemory
<1>8. PICK k : k = Dropped(b, c, h)
  OBVIOUS
<1>9. /\ Ledger(k, None) /\ k.objects = b.objects \ At(b, c, h) /\ At(k, c, h) = {}
      /\ k.inUse <= b.inUse /\ k.inUse \in Nat /\ b.inUse \in Nat
      /\ \A m \in k.memory : \E l \in b.memory : SameAccount(l, m)
  BY <1>5, <1>8, DropFirst
<1>10. PICK id : id = Unnamed({m.id : m \in k.memory})
  OBVIOUS
<1>11. id \in Nat /\ \A m \in k.memory : m.id # id
  <2>1. PICK f, T : f = [m \in k.memory |-> m.id] /\ T = {f[m] : m \in k.memory}
    OBVIOUS
  <2>2. IsFiniteSet(T) /\ T = {m.id : m \in k.memory}
    <3>1. IsFiniteSet(k.memory)
      BY <1>9 DEF Ledger
    <3>2. T = {f[m] : m \in k.memory}
      BY <2>1
    <3>3. IsFiniteSet(T)
      BY ONLY <3>1, <3>2, ImageIsFinite, Zenon
    <3> QED
      BY <2>1, <3>3
  <2>3. Unnamed(T) \in Nat /\ Unnamed(T) \notin T
    BY <2>2, UnnamedIsFree
  <2> QED
    BY <1>10, <2>2, <2>3
<1>12. PICK a, e : /\ a = [id |-> id, bytes |-> n, holders |-> 1]
                   /\ e = [k EXCEPT !.memory = @ \cup {a}, !.inUse = @ + n]
  OBVIOUS
<1>13. /\ e.objects = k.objects /\ e.memory = k.memory \cup {a} /\ e.inUse = k.inUse + n
       /\ Ledger(e, id)
  <2>1. a \in Account /\ a.id = id /\ a.bytes = n /\ a.holders = 1
    BY <1>7, <1>11, <1>12 DEF Account
  <2>2. k = [objects |-> k.objects, memory |-> k.memory, inUse |-> k.inUse]
    BY <1>9 DEF Ledger, WellMade
  <2>3. e = [objects |-> k.objects, memory |-> k.memory \cup {a}, inUse |-> k.inUse + n]
    BY <1>12, <2>2
  <2>4. /\ e.objects = k.objects /\ e.memory = k.memory \cup {a} /\ e.inUse = k.inUse + a.bytes
        /\ WellMade(e)
    BY <2>1, <2>3 DEF WellMade
  <2>5. Ledger(e, id)
    BY <1>9, <1>11, <2>1, <2>4, AccountKeeps
  <2> QED
    BY <2>1, <2>4, <2>5
<1>14. d = Recorded(e, c, p, h, id)
  BY <1>1, <1>2, <1>3, <1>6, <1>8, <1>10, <1>12 DEF AllocMemory, AllocatedBytes
<1>15. /\ d.objects = e.objects \cup {NewEntry(c, p, h, id)} /\ d.memory = e.memory
       /\ d.inUse = e.inUse /\ Ledger(d, None)
  <2>1. id \in Nat \cup {None} /\ (id # None => \E m \in e.memory : m.id = id)
    BY <1>11, <1>12, <1>13
  <2>2. At(e, c, h) = {}
    BY <1>9, <1>13 DEF At
  <2> QED
    BY <1>4, <1>13, <1>14, <2>1, <2>2, RecordKeeps
<1>16. /\ EnteredIn(U, S, d) /\ SharedIn(S, d) /\ KnownIn(U, S, d)
       /\ TrackedIn(R, b) => TrackedIn(S, d)
  <2>1. PICK r : r = NewEntry(c, p, h, id)
    OBVIOUS
  <2>2. /\ o.client = c /\ o.handle = h /\ o.parent = p /\ o.mem = mem
        /\ r.client = c /\ r.handle = h /\ r.parent = p /\ r.memory = id
    BY <1>3, <2>1 DEF NewEntry
  <2>3. \A m \in k.memory : \E l \in d.memory : SameAccount(l, m)
    BY <1>13, <1>15 DEF SameAccount
  <2>4. OnCard(o)
    BY <1>7, <2>2 DEF OnCard
  <2>5. \A q \in b.objects : q \in k.objects <=> ~ SameKey(q, o)
    BY <1>9, <2>2 DEF SameKey, At
  <2>6. r.memory # None /\ \E m \in d.memory : m.id = r.memory /\ m.bytes = o.mem.bytes
    <3>1. a \in d.memory /\ a.id = id /\ a.bytes = n
      BY <1>12, <1>13, <1>15
    <3> QED
      BY <1>7, <1>11, <2>2, <3>1, VramAssumption
  <2>7. \A s \in k.objects : s.memory # id
    BY <1>9, <1>11, VramAssumption DEF Ledger
  <2>8. \A x \in R : \A s \in k.objects :
          OnCard(x) /\ SameKey(s, x) => (o.mem = x.mem <=> r.memory = s.memory)
    BY <1>7, <2>2, <2>7
  <2>9. /\ o.client \in U /\ o.parent \in Plain(R, o.client) /\ SameKey(r, o) /\ r.parent = o.parent
        /\ (\A x \in R : ~ SameKey(x, o)) /\ d.objects = k.objects \cup {r}
        /\ o.mem # None
    BY <1>4, <1>7, <1>13, <1>15, <2>1, <2>2 DEF SameKey
  <2>10. Adds(U, R, b, k, o, r, d)
    BY <1>9, <2>3, <2>4, <2>5, <2>6, <2>8, <2>9 DEF Adds
  <2>11. /\ EnteredIn(U, R \cup {o}, d) /\ SharedIn(R \cup {o}, d) /\ KnownIn(U, R \cup {o}, d)
         /\ TrackedIn(R, b) /\ (r.memory # None => OnCard(o)) => TrackedIn(R \cup {o}, d)
    BY <1>5, <1>9, <2>10, AllocKeeps
  <2> QED
    BY <1>4, <2>4, <2>11
<1>17. Limit # None => d.inUse < Limit + Granule
  <2>1. asked \in Nat /\ Granule \in Nat \ {0} /\ (Limit # None => Limit \in Nat)
    BY VramAssumption
  <2>2. n <= asked + Granule - 1
    BY <1>6, <2>1, RoundUpBounds
  <2>3. Limit # None => b.inUse + asked <= Limit
    BY <1>1, <1>2 DEF Admit
  <2> QED
    BY <1>7, <1>9, <1>13, <1>15, <2>1, <2>2, <2>3
<1>18. mem \in Mem \cup {None, System}
  BY <1>7
<1> QED
  BY <1>1, <1>2, <1>3, <1>5, <1>15, <1>16, <1>17, <1>18, AddKeeps

\* What a duplicate is of, by the entry of its source.
IdOf(source) == IF source = {} THEN None ELSE Some(source).memory

\* The books with one holder more for what a handle stands for, if it stands for memory.
LEMMA SourceHeld ==
  ASSUME NEW b, Ledger(b, None), NEW c, NEW h, NEW source, source = At(b, c, h),
         NEW e, e = HolderMore(b, source),
         NEW id, id = IdOf(source)
  PROVE  /\ e.objects = b.objects /\ e.inUse = b.inUse /\ Ledger(e, id)
         /\ \A m \in e.memory : \E n \in b.memory : SameAccount(n, m)
         /\ \A s \in b.objects : s.client = c /\ s.handle = h => s.memory = id
         /\ id # None => \E s \in b.objects : s.client = c /\ s.handle = h /\ s.memory = id
         /\ id \in Nat \cup {None}
<1>1. CASE source = {}
  <2>1. Named(b, source) = {}
    BY <1>1 DEF Named
  <2>2. b = [objects |-> b.objects, memory |-> b.memory, inUse |-> b.inUse]
    BY DEF Ledger, WellMade
  <2>3. {IF m \in Named(b, source) THEN [m EXCEPT !.holders = @ + 1] ELSE m : m \in b.memory} = b.memory
    BY <2>1
  <2>4. e = b
    BY <2>2, <2>3 DEF HolderMore
  <2>5. id = None
    BY <1>1 DEF IdOf
  <2> QED
    BY <1>1, <2>4, <2>5 DEF At, SameAccount
<1>2. CASE source # {}
  <2>1. PICK s : s = Some(source)
    OBVIOUS
  <2>2. s \in source
    BY <1>2, <2>1 DEF Some
  <2>3. s \in b.objects /\ s.client = c /\ s.handle = h /\ s.memory = id
    BY <1>2, <2>1, <2>2 DEF At, IdOf
  <2>4. source = {s}
    BY <2>2 DEF At, Ledger, OnePerHandle
  <2>5. e = HolderMore(b, {s})
    BY <2>4
  <2>6. /\ e.objects = b.objects /\ e.inUse = b.inUse /\ Ledger(e, s.memory)
        /\ \A m \in e.memory : \E n \in b.memory : SameAccount(n, m)
    BY <2>3, <2>5, HoldKeeps
  <2>7. \A t \in b.objects : t.client = c /\ t.handle = h => t = s
    BY <2>4 DEF At
  <2>8. id \in Nat \cup {None}
    BY <2>3 DEF Ledger, Entry
  <2> QED
    BY <2>3, <2>6, <2>7, <2>8
<1> QED
  BY <1>1, <1>2

\* RM_DUP_OBJECT makes the new handle a holder of the source's account.
LEMMA DupStep ==
  ASSUME VramInv, NEW c \in Clients, NEW h \in Handles, NEW p \in Parents(c), NEW from \in rm,
         Dup(c, p, h, from)
  PROVE  VramInv'
<1>0. PICK mem : mem = from.mem
  OBVIOUS
<1>1. NewObject(c, p, h, mem) /\ Standing /\ Usable(from.client)
  BY <1>0 DEF Dup, Standing
<1>2. PICK U, R, b : U = Usables /\ R = rm /\ b = books
  OBVIOUS
<1>3. PICK o, S, d : /\ o = [client |-> c, handle |-> h, parent |-> p, mem |-> mem]
                     /\ S = rm' /\ d = books'
  OBVIOUS
<1>4. /\ c \in U /\ p \in Plain(R, c) /\ p \in Handles \cup Clients /\ S = R \cup {o}
      /\ \A x \in R : ~ (x.client = c /\ x.handle = h)
  BY <1>1, <1>2, <1>3, NewIs
<1>5. /\ Ledger(b, None) /\ EnteredIn(U, R, b) /\ SharedIn(R, b) /\ KnownIn(U, R, b)
      /\ (untracked = 0 => TrackedIn(R, b)) /\ (Limit # None => b.inUse < Limit + Granule)
  BY <1>2 DEF VramInv, Within
<1>6. /\ from \in R /\ from.client \in U /\ mem \in Mem \cup {None, System}
      /\ \A x \in R : SameKey(x, from) => x = from
  <2>1. from.client \in Clients
    BY DEF VramInv, ObjectsFit, Alive, Types
  <2>2. mem \in Mem \cup {None, System} /\ OnePerHandle(rm)
    BY <1>0 DEF VramInv, ObjectsFit
  <2> QED
    BY <1>1, <1>2, <2>1, <2>2 DEF Usables, OnePerHandle, SameKey
<1>7. PICK source, e, id :
        /\ source = At(b, from.client, from.handle) /\ e = HolderMore(b, source)
        /\ id = IdOf(source)
  OBVIOUS
<1>8. /\ e.objects = b.objects /\ e.inUse = b.inUse /\ Ledger(e, id)
      /\ \A m \in e.memory : \E n \in b.memory : SameAccount(n, m)
      /\ \A s \in b.objects : SameKey(s, from) => s.memory = id
      /\ id # None => \E s \in b.objects : SameKey(s, from) /\ s.memory = id
      /\ id \in Nat \cup {None}
  <2>1. /\ e.objects = b.objects /\ e.inUse = b.inUse /\ Ledger(e, id)
        /\ \A m \in e.memory : \E n \in b.memory : SameAccount(n, m)
        /\ \A s \in b.objects :
             s.client = from.client /\ s.handle = from.handle => s.memory = id
        /\ id # None => \E s \in b.objects :
             s.client = from.client /\ s.handle = from.handle /\ s.memory = id
        /\ id \in Nat \cup {None}
    BY <1>5, <1>7, SourceHeld
  <2> QED
    BY <2>1 DEF SameKey
<1>9. PICK k : k = Dropped(e, c, h)
  OBVIOUS
<1>10. d = Recorded(k, c, p, h, id)
  BY <1>1, <1>2, <1>3, <1>7, <1>9 DEF Dup, Duplicated, HolderMore, IdOf, Some
<1>11. /\ Ledger(k, id) /\ k.objects = b.objects \ At(b, c, h) /\ At(k, c, h) = {}
       /\ k.inUse <= b.inUse /\ k.inUse \in Nat /\ b.inUse \in Nat
       /\ \A m \in k.memory : \E n \in b.memory : SameAccount(n, m)
  <2>1. /\ Ledger(k, id) /\ k.objects = e.objects \ At(e, c, h) /\ At(k, c, h) = {}
        /\ k.inUse <= e.inUse /\ k.inUse \in Nat /\ e.inUse \in Nat
        /\ \A m \in k.memory : \E n \in e.memory : SameAccount(n, m)
    BY <1>8, <1>9, DropFirst
  <2>2. At(e, c, h) = At(b, c, h)
    BY <1>8 DEF At
  <2>3. \A m \in k.memory : \E n \in b.memory : SameAccount(n, m)
    BY <1>8, <2>1 DEF SameAccount
  <2> QED
    BY <1>8, <2>1, <2>2, <2>3
<1>12. ~ SameKey(o, from) /\ o.client = c /\ o.handle = h /\ o.parent = p /\ o.mem = mem
  BY <1>3, <1>4, <1>6 DEF SameKey
<1>13. \A q \in b.objects : q \in k.objects <=> ~ SameKey(q, o)
  BY <1>11, <1>12 DEF SameKey, At
<1>14. \A s \in b.objects : SameKey(s, from) => s \in k.objects
  BY <1>12, <1>13 DEF SameKey
<1>15. id # None => \E m \in k.memory : m.id = id
  <2>1. SUFFICES ASSUME id # None PROVE \E m \in k.memory : m.id = id
    OBVIOUS
  <2>2. PICK s \in b.objects : SameKey(s, from) /\ s.memory = id
    BY <1>8, <2>1
  <2> QED
    BY <1>11, <1>14, <2>1, <2>2 DEF Ledger
<1>16. /\ d.objects = k.objects \cup {NewEntry(c, p, h, id)} /\ d.memory = k.memory
       /\ d.inUse = k.inUse /\ Ledger(d, None)
  BY <1>4, <1>8, <1>10, <1>11, <1>15, RecordKeeps
<1>17. PICK r : r = NewEntry(c, p, h, id)
  OBVIOUS
<1>18. r.client = c /\ r.handle = h /\ r.parent = p /\ r.memory = id
  BY <1>17 DEF NewEntry
<1>19. mem = None => id = None
  <2>1. SUFFICES ASSUME mem = None PROVE id = None
    OBVIOUS
  <2>2. PICK s \in b.objects : Shows(s, from, b)
    BY <1>0, <1>5, <1>6, <2>1, VramAssumption DEF EnteredIn
  <2> QED
    BY <1>0, <1>8, <2>1, <2>2 DEF Shows
<1>20. ASSUME OnCard(o)
       PROVE  /\ id # None /\ \E m \in d.memory : m.id = id /\ m.bytes = mem.bytes
              /\ \A x \in R : \A s \in k.objects :
                   OnCard(x) /\ SameKey(s, x) => (mem = x.mem <=> id = s.memory)
  <2>1. OnCard(from) /\ from.mem = mem
    BY <1>0, <1>12, <1>20 DEF OnCard
  <2>2. PICK s \in b.objects : Shows(s, from, b)
    BY <1>5, <1>6, <2>1 DEF EnteredIn, OnCard
  <2>3. SameKey(s, from) /\ s.memory = id /\ id # None
    BY <1>8, <2>1, <2>2 DEF Shows, OnCard
  <2>4. PICK n \in b.memory : n.id = id /\ n.bytes = mem.bytes
    BY <2>1, <2>2, <2>3 DEF Shows, OnCard
  <2>5. PICK m \in k.memory : m.id = id
    BY <1>15, <2>3
  <2>6. PICK l \in b.memory : SameAccount(l, m)
    BY <1>11
  <2>7. l = n
    BY <1>5, <2>4, <2>5, <2>6 DEF Ledger, SameAccount
  <2>8. m \in d.memory /\ m.id = id /\ m.bytes = mem.bytes
    BY <1>16, <2>4, <2>5, <2>6, <2>7 DEF SameAccount
  <2>9. \A x \in R : \A t \in k.objects :
          OnCard(x) /\ SameKey(t, x) => (mem = x.mem <=> id = t.memory)
    BY <1>5, <1>6, <1>11, <2>1, <2>3 DEF SharedIn
  <2> QED
    BY <2>3, <2>8, <2>9
<1>21. Adds(U, R, b, k, o, r, d)
  <2>1. \A m \in k.memory : \E n \in d.memory : SameAccount(n, m)
    BY <1>16 DEF SameAccount
  <2>2. /\ o.client \in U /\ o.parent \in Plain(R, o.client) /\ SameKey(r, o) /\ r.parent = o.parent
        /\ (\A x \in R : ~ SameKey(x, o)) /\ d.objects = k.objects \cup {r}
    BY <1>4, <1>12, <1>16, <1>17, <1>18 DEF SameKey
  <2>3. k.objects \subseteq b.objects
    BY <1>11
  <2>4. OnCard(o) => /\ r.memory # None
                     /\ \E m \in d.memory : m.id = r.memory /\ m.bytes = o.mem.bytes
                     /\ \A x \in R : \A s \in k.objects :
                          OnCard(x) /\ SameKey(s, x) => (o.mem = x.mem <=> r.memory = s.memory)
    BY <1>12, <1>18, <1>20
  <2> QED
    BY <1>11, <1>12, <1>13, <1>18, <1>19, <2>1, <2>2, <2>3, <2>4 DEF Adds
<1>22. /\ EnteredIn(U, S, d) /\ SharedIn(S, d) /\ KnownIn(U, S, d)
       /\ TrackedIn(R, b) /\ (id # None => OnCard(o)) => TrackedIn(S, d)
  <2>1. /\ EnteredIn(U, R \cup {o}, d) /\ SharedIn(R \cup {o}, d) /\ KnownIn(U, R \cup {o}, d)
        /\ TrackedIn(R, b) /\ (r.memory # None => OnCard(o)) => TrackedIn(R \cup {o}, d)
    BY <1>5, <1>11, <1>21, AllocKeeps
  <2> QED
    BY <1>4, <1>18, <2>1
<1>23. TrackedIn(R, b) => (id # None => OnCard(o))
  <2>1. SUFFICES ASSUME TrackedIn(R, b), id # None PROVE OnCard(o)
    OBVIOUS
  <2>2. PICK s \in b.objects : SameKey(s, from) /\ s.memory = id
    BY <1>8, <2>1
  <2>3. PICK x \in R : SameKey(s, x) /\ (s.memory # None => OnCard(x))
    BY <2>1 DEF TrackedIn
  <2>4. x = from
    BY <1>6, <2>2, <2>3 DEF SameKey
  <2> QED
    BY <1>0, <1>12, <2>1, <2>2, <2>3, <2>4 DEF OnCard
<1>24. Limit # None => d.inUse < Limit + Granule
  BY <1>5, <1>11, <1>16, VramAssumption
<1> QED
  BY <1>1, <1>2, <1>3, <1>5, <1>6, <1>16, <1>22, <1>23, <1>24, AddKeeps

----------------------------------------------------------------------------
(* Clients that come and go *)

\* Books that are less have no other accounts.
LEMMA LessAccounts ==
  ASSUME NEW d, NEW b, NEW O, Less(d, b, O), Ledger(b, None)
  PROVE  /\ d.objects = b.objects \ O /\ Ledger(d, None)
         /\ \A m \in d.memory : \E n \in b.memory : SameAccount(n, m)
         /\ d.inUse <= b.inUse /\ d.inUse \in Nat /\ b.inUse \in Nat
<1>1. d.objects = b.objects \ O /\ Ledger(d, None) /\ NoNewMemory(d, b)
  BY DEF Less
<1>2. d.inUse \in Nat /\ b.inUse \in Nat
  BY <1>1, LedgerSum
<1> QED
  BY <1>1, <1>2 DEF NoNewMemory, SameAccount

Theirs(b, D) == {o \in b.objects : o.client \in D}

\* The guest can no longer name the clients D: nothing of theirs is in the books, and the
\* host may have let go of what is theirs.
LEMMA WithoutClients ==
  ASSUME NEW U, NEW R, NEW b, Ledger(b, None),
         EnteredIn(U, R, b), SharedIn(R, b), KnownIn(U, R, b),
         NEW D, NEW d, Less(d, b, Theirs(b, D)),
         NEW S, S \subseteq R, \A o \in R : o.client \notin D => o \in S
  PROVE  /\ EnteredIn(U \ D, S, d) /\ SharedIn(S, d) /\ KnownIn(U \ D, S, d)
         /\ TrackedIn(R, b) => TrackedIn(S, d)
<1>1. /\ d.objects = b.objects \ Theirs(b, D) /\ Ledger(d, None)
      /\ \A m \in d.memory : \E n \in b.memory : SameAccount(n, m)
  BY LessAccounts
<1>2. \A r \in d.objects : r \in b.objects /\ r.client \notin D
  BY <1>1 DEF Theirs
<1>3. Fewer(U \ D, S, d, U, R, b)
  <2>1. \A o \in S : \A r \in b.objects :
          SameKey(r, o) /\ o.client \in U \ D /\ o.mem # System => r \in d.objects
    BY <1>1 DEF SameKey, Theirs
  <2> QED
    BY <1>1, <2>1 DEF Fewer
<1>4. EnteredIn(U \ D, S, d) /\ SharedIn(S, d)
  BY <1>1, <1>3, ShrinkKeeps
<1>5. ASSUME NEW c, c \notin D PROVE Plain(R, c) \subseteq Plain(S, c)
  BY <1>5 DEF Plain
<1>6. KnownIn(U \ D, S, d)
  BY <1>2, <1>5 DEF KnownIn
<1>7. TrackedIn(R, b) => TrackedIn(S, d)
  BY <1>2 DEF TrackedIn, SameKey
<1> QED
  BY <1>4, <1>6, <1>7

\* The same of the invariant.
LEMMA GoneKeeps ==
  ASSUME VramInv, Types', RootsFit', IssuedIsAlive', untracked' = untracked,
         NEW D, Usables' = Usables \ D,
         NEW b, b = books, NEW d, d = books', Less(d, b, Theirs(b, D)),
         \/ Alive' = Alive /\ rm' = rm
         \/ Alive' = Alive \ D /\ rm' = {o \in rm : o.client \notin D}
  PROVE  VramInv'
<1>1. PICK A, U, R, B, V, S : /\ A = Alive /\ U = Usables /\ R = rm
                              /\ B = Alive' /\ V = Usables' /\ S = rm'
  OBVIOUS
<1>2. /\ Ledger(b, None) /\ EnteredIn(U, R, b) /\ SharedIn(R, b) /\ KnownIn(U, R, b)
      /\ (untracked = 0 => TrackedIn(R, b)) /\ (Limit # None => b.inUse < Limit + Granule)
      /\ ObjectsFit(A, R)
  BY <1>1 DEF VramInv, Within
<1>3. V = U \ D /\ S \subseteq R /\ \A o \in R : o.client \notin D => o \in S
  BY <1>1
<1>4. /\ EnteredIn(V, S, d) /\ SharedIn(S, d) /\ KnownIn(V, S, d)
      /\ TrackedIn(R, b) => TrackedIn(S, d)
  BY <1>2, <1>3, WithoutClients
<1>5. Ledger(d, None) /\ d.inUse <= b.inUse /\ d.inUse \in Nat /\ b.inUse \in Nat
  BY <1>2, LessAccounts
<1>6. ObjectsFit(B, S)
  <2>1. CASE B = A /\ S = R
    BY <1>2, <2>1
  <2>2. CASE B = A \ D /\ S = {o \in R : o.client \notin D}
    <3>1. IsFiniteSet(S) /\ OnePerHandle(S)
      BY <1>2, <1>3, FS_Subset DEF ObjectsFit, OnePerHandle
    <3>2. \A c : c \notin D => Plain(R, c) \subseteq Plain(S, c)
      BY <2>2 DEF Plain
    <3>3. \A o \in S : /\ o.client \in B /\ o.handle \in Handles
                       /\ o.parent \in Plain(S, o.client) /\ o.mem \in Mem \cup {None, System}
      BY <1>2, <2>2, <3>2 DEF ObjectsFit
    <3> QED
      BY <3>1, <3>3 DEF ObjectsFit
  <2> QED
    BY <1>1, <2>1, <2>2
<1>7. Limit # None => d.inUse < Limit + Granule
  BY <1>2, <1>5, VramAssumption
<1>8. /\ ObjectsFit(Alive, rm)' /\ Ledger(books, None)'
      /\ EnteredIn(Usables, rm, books)' /\ SharedIn(rm, books)' /\ KnownIn(Usables, rm, books)'
      /\ (untracked = 0 => TrackedIn(rm, books))'
  BY <1>1, <1>2, <1>4, <1>5, <1>6
<1>9. Within'
  BY <1>7 DEF Within
<1> QED
  BY <1>8, <1>9 DEF VramInv

\* A client has one root.
LEMMA RootIs ==
  ASSUME VramInv, NEW r \in roots
  PROVE  /\ r.client \in Clients /\ r.file \in Files /\ r.client \in Alive
         /\ r.client \in Usables <=> file[r.file] = "open"
         /\ \A s \in roots : s.client = r.client => s = r
<1>1. \A s \in roots : s.client = r.client => s = r
  BY DEF VramInv, RootsFit
<1>2. r.client \in Clients /\ r.file \in Files /\ r.client \in Alive
  BY DEF VramInv, Types, Alive
<1> QED
  BY <1>1, <1>2 DEF Usables, Usable

\* RM_FREE of a root takes the client out of the books and the host.
LEMMA FreeRootStep ==
  ASSUME VramInv, NEW c \in Clients, FreeRoot(c)
  PROVE  VramInv'
<1>1. /\ roots' = {r \in roots : r.client # c} /\ rm' = {o \in rm : o.client # c}
      /\ books' = Freed(books, c, c) /\ clients' = {r \in clients : r.client # c}
      /\ file' = file /\ untracked' = untracked
  BY DEF FreeRoot
<1>2. Types' /\ RootsFit' /\ IssuedIsAlive'
  <2>1. IsFiniteSet(roots')
    BY <1>1, FS_Subset DEF VramInv, RootsFit
  <2>2. Types' /\ RootsFit'
    BY <1>1, <2>1 DEF VramInv, Types, RootsFit
  <2>3. IssuedIsAlive'
    BY <1>1 DEF VramInv, IssuedIsAlive
  <2> QED
    BY <2>2, <2>3
<1>3. Usables' = Usables \ {c}
  BY <1>1 DEF Usables, Usable
<1>4. Alive' = Alive \ {c} /\ rm' = {o \in rm : o.client \notin {c}}
  BY <1>1 DEF Alive
<1>5. PICK b, d : b = books /\ d = books'
  OBVIOUS
<1>6. Less(d, b, Theirs(b, {c}))
  <2>1. Ledger(b, None) /\ d = Freed(b, c, c)
    BY <1>1, <1>5 DEF VramInv
  <2>2. Less(d, b, {o \in b.objects : o.client = c})
    BY <2>1, FreeKeeps
  <2>3. Theirs(b, {c}) = {o \in b.objects : o.client = c}
    BY DEF Theirs
  <2> QED
    BY <2>2, <2>3
<1> QED
  BY <1>1, <1>2, <1>3, <1>4, <1>5, <1>6, GoneKeeps

Of(f) == {r.client : r \in {x \in roots : x.file = f}}

\* What goes with the host's file.
LEMMA ReleasedIs ==
  ASSUME VramInv, NEW f, Released(f)
  PROVE  /\ roots' = {r \in roots : r.file # f}
         /\ Alive' = Alive \ Of(f) /\ rm' = {o \in rm : o.client \notin Of(f)}
<1>1. roots' = {r \in roots : r.file # f}
  BY DEF Released
<1>2. rm' = {o \in rm : o.client \notin Of(f)}
  BY DEF Released, Of
<1>3. \A r \in roots : r.file # f <=> r.client \notin Of(f)
  BY RootIs DEF Of
<1>4. Alive' = Alive \ Of(f)
  BY <1>1, <1>3 DEF Alive
<1> QED
  BY <1>1, <1>2, <1>4

\* A closed file takes its clients out of the books, and sooner or later out of the host.
LEMMA CloseStep ==
  ASSUME VramInv, NEW f \in Files, Close(f)
  PROVE  VramInv'
<1>1. PICK mine : mine = {r.client : r \in {x \in clients : x.file = f}}
  OBVIOUS
<1>2. /\ file[f] = "open" /\ file' = [file EXCEPT ![f] = "closed"]
      /\ books' = FoldSet(LAMBDA c, b : Freed(b, c, c), books, mine)
      /\ clients' = {r \in clients : r.file # f} /\ untracked' = untracked
      /\ Released(f) \/ UNCHANGED host
  BY <1>1 DEF Close
<1>3. file \in [Files -> {"open", "closed"}] /\ IssuedIsAlive
  BY DEF VramInv, Types
<1>4. mine = Of(f)
  BY <1>1, <1>2, <1>3 DEF IssuedIsAlive, Of
<1>5. \/ roots' = roots /\ rm' = rm /\ Alive' = Alive
      \/ /\ roots' = {r \in roots : r.file # f}
         /\ Alive' = Alive \ Of(f) /\ rm' = {o \in rm : o.client \notin Of(f)}
  BY <1>2, ReleasedIs DEF host, Alive
<1>6. \A g \in Files : file'[g] = "open" <=> file[g] = "open" /\ g # f
  BY <1>2, <1>3
<1>7. Types' /\ RootsFit' /\ IssuedIsAlive'
  <2>1. roots' \subseteq roots
    BY <1>5
  <2>2. IsFiniteSet(roots')
    BY <2>1, FS_Subset DEF VramInv, RootsFit
  <2>3. file' \in [Files -> {"open", "closed"}]
    BY <1>2, <1>3
  <2>4. Types' /\ RootsFit'
    BY <1>2, <2>1, <2>2, <2>3 DEF VramInv, Types, RootsFit
  <2>5. \A r \in roots : r.file \in Files
    BY RootIs
  <2>6. IssuedIsAlive'
    BY <1>2, <1>3, <1>5, <1>6, <2>5 DEF IssuedIsAlive
  <2> QED
    BY <2>4, <2>6
<1>8. Usables' = Usables \ Of(f)
  <2>1. \A c : (\E r \in roots' : r.client = c /\ file'[r.file] = "open")
               <=> (\E r \in roots : r.client = c /\ file[r.file] = "open" /\ r.file # f)
    BY <1>5, <1>6, RootIs
  <2>2. \A c : (\E r \in roots : r.client = c /\ file[r.file] = "open" /\ r.file # f)
               <=> Usable(c) /\ c \notin Of(f)
    BY RootIs DEF Usable, Of
  <2>3. \A c : Usable(c)' <=> (\E r \in roots' : r.client = c /\ file'[r.file] = "open")
    BY DEF Usable
  <2>4. \A c : Usable(c)' <=> Usable(c) /\ c \notin Of(f)
    BY <2>1, <2>2, <2>3
  <2> QED
    BY <2>4 DEF Usables
<1>9. PICK b, d, D : b = books /\ d = books' /\ D = Of(f)
  OBVIOUS
<1>10. Less(d, b, Theirs(b, D))
  <2>1. IsFiniteSet(D)
    <3>1. PICK T : T = {x \in roots : x.file = f}
      OBVIOUS
    <3>2. IsFiniteSet(T)
      BY <3>1, FS_Subset DEF VramInv, RootsFit
    <3>3. PICK g : g = [r \in T |-> r.client]
      OBVIOUS
    <3>4. D = {g[r] : r \in T}
      BY <1>9, <3>1, <3>3 DEF Of
    <3> QED
      BY <3>2, <3>4, ImageIsFinite
  <2>2. Ledger(b, None)
    BY <1>9 DEF VramInv
  <2>3. d = FoldSet(LAMBDA c, acc : Freed(acc, c, c), b, D)
    BY <1>2, <1>4, <1>9
  <2>4. Less(d, b, {o \in b.objects : o.client \in D})
    BY <2>1, <2>2, <2>3, FreeAllKeeps
  <2> QED
    BY <2>4 DEF Theirs
<1>11. \/ Alive' = Alive /\ rm' = rm
       \/ Alive' = Alive \ D /\ rm' = {o \in rm : o.client \notin D}
  BY <1>5, <1>9
<1>12. Usables' = Usables \ D
  BY <1>8, <1>9
<1> QED
  BY <1>2, <1>7, <1>9, <1>10, <1>11, <1>12, GoneKeeps

\* What the host lets go of later is no longer in the books.
LEMMA LetGoStep ==
  ASSUME VramInv, NEW f \in Files, LetGo(f)
  PROVE  VramInv'
<1>1. /\ file[f] = "closed" /\ Released(f) /\ file' = file /\ books' = books
      /\ clients' = clients /\ untracked' = untracked
  BY DEF LetGo
<1>2. /\ roots' = {r \in roots : r.file # f}
      /\ Alive' = Alive \ Of(f) /\ rm' = {o \in rm : o.client \notin Of(f)}
  BY <1>1, ReleasedIs
<1>3. \A c \in Of(f) : c \notin Usables
  BY <1>1, RootIs DEF Of
<1>4. Types' /\ RootsFit' /\ IssuedIsAlive'
  <2>1. IsFiniteSet(roots')
    BY <1>2, FS_Subset DEF VramInv, RootsFit
  <2>2. Types' /\ RootsFit'
    BY <1>1, <1>2, <2>1 DEF VramInv, Types, RootsFit
  <2>3. IssuedIsAlive'
    BY <1>1, <1>2 DEF VramInv, IssuedIsAlive
  <2> QED
    BY <2>2, <2>3
<1>5. Usables' = Usables \ Of(f)
  <2>1. \A c : Usable(c)' <=> \E r \in roots : r.file # f /\ r.client = c /\ file[r.file] = "open"
    BY <1>1, <1>2 DEF Usable
  <2>2. \A c : Usable(c)' <=> Usable(c)
    BY <1>1, <2>1 DEF Usable
  <2> QED
    BY <1>3, <2>2 DEF Usables
<1>6. PICK b, d, D : b = books /\ d = books' /\ D = Of(f)
  OBVIOUS
<1>7. Less(d, b, Theirs(b, D))
  <2>1. Ledger(b, None) /\ d = b
    BY <1>1, <1>6 DEF VramInv
  <2>2. Theirs(b, D) = {}
    BY <1>3, <1>6 DEF VramInv, KnownIn, Theirs
  <2> QED
    BY <2>1, <2>2, LessNothing
<1>8. Alive' = Alive \ D /\ rm' = {o \in rm : o.client \notin D} /\ Usables' = Usables \ D
  BY <1>2, <1>5, <1>6
<1> QED
  BY <1>1, <1>4, <1>6, <1>7, <1>8, GoneKeeps

\* A new client has nothing.
LEMMA AllocRootStep ==
  ASSUME VramInv, NEW f \in Files, NEW c \in Clients, AllocRoot(f, c)
  PROVE  VramInv'
<1>1. /\ file[f] = "open" /\ c \notin Alive /\ file' = file /\ rm' = rm /\ books' = books
      /\ untracked' = untracked
      /\ roots' = roots \cup {[client |-> c, file |-> f]}
      /\ clients' = clients \cup {[client |-> c, file |-> f]}
  BY DEF AllocRoot
<1>2. PICK r : r = [client |-> c, file |-> f]
  OBVIOUS
<1>3. r.client = c /\ r.file = f /\ r \in [client : Clients, file : Files]
  BY <1>2
<1>4. roots' = roots \cup {r} /\ clients' = clients \cup {r} /\ \A s \in roots : s.client # c
  BY <1>1, <1>2 DEF Alive
<1>5. Types' /\ RootsFit' /\ IssuedIsAlive'
  <2>1. IsFiniteSet(roots')
    BY <1>4, FS_AddElement DEF VramInv, RootsFit
  <2>2. Types'
    BY <1>1, <1>3, <1>4 DEF VramInv, Types
  <2>3. RootsFit'
    BY <1>3, <1>4, <2>1 DEF VramInv, RootsFit
  <2>4. IssuedIsAlive'
    BY <1>1, <1>3, <1>4 DEF VramInv, IssuedIsAlive
  <2> QED
    BY <2>2, <2>3, <2>4
<1>6. Alive' = Alive \cup {c}
  BY <1>3, <1>4 DEF Alive
<1>7. Usables' = Usables \cup {c}
  <2>1. \A x : Usable(x)' <=> Usable(x) \/ x = c
    BY <1>1, <1>3, <1>4 DEF Usable
  <2> QED
    BY <2>1 DEF Usables
<1>8. PICK A, U, R, b, B, V : /\ A = Alive /\ U = Usables /\ R = rm /\ b = books
                              /\ B = Alive' /\ V = Usables'
  OBVIOUS
<1>9. /\ Ledger(b, None) /\ EnteredIn(U, R, b) /\ SharedIn(R, b) /\ KnownIn(U, R, b)
      /\ (untracked = 0 => TrackedIn(R, b)) /\ (Limit # None => b.inUse < Limit + Granule)
      /\ ObjectsFit(A, R)
  BY <1>8 DEF VramInv, Within
<1>10. ObjectsFit(B, R)
  BY <1>6, <1>8, <1>9 DEF ObjectsFit
<1>11. EnteredIn(V, R, b)
  <2>1. \A o \in R : o.client \in V => o.client \in U
    BY <1>1, <1>7, <1>8, <1>9 DEF ObjectsFit
  <2> QED
    BY <1>9, <2>1 DEF EnteredIn
<1>12. KnownIn(V, R, b)
  BY <1>7, <1>8, <1>9 DEF KnownIn
<1>13. /\ ObjectsFit(Alive, rm)' /\ Ledger(books, None)'
       /\ EnteredIn(Usables, rm, books)' /\ SharedIn(rm, books)' /\ KnownIn(Usables, rm, books)'
       /\ (untracked = 0 => TrackedIn(rm, books))'
  BY <1>1, <1>8, <1>9, <1>10, <1>11, <1>12
<1>14. Within'
  BY <1>1 DEF VramInv, Within
<1> QED
  BY <1>5, <1>13, <1>14 DEF VramInv

----------------------------------------------------------------------------
(* Frees *)

\* A free the books do not see leaves an entry that is too many, never one too few.
LEMMA HeapFreeStep ==
  ASSUME VramInv, NEW o \in rm, HeapFree(o)
  PROVE  VramInv'
<1>1. /\ untracked < MaxUntracked /\ o.mem # None /\ rm' = rm \ {o} /\ untracked' = untracked + 1
      /\ file' = file /\ roots' = roots /\ books' = books /\ clients' = clients
  BY DEF HeapFree
<1>2. Types' /\ RootsFit' /\ IssuedIsAlive' /\ untracked' # 0
  <2>1. untracked \in Nat /\ MaxUntracked \in Nat
    BY VramAssumption DEF VramInv, Types
  <2>2. untracked' \in 0 .. MaxUntracked /\ untracked' # 0
    BY <1>1, <2>1
  <2> QED
    BY <1>1, <2>2 DEF VramInv, Types, RootsFit, IssuedIsAlive
<1>3. Alive' = Alive /\ Usables' = Usables
  <2>1. \A c : Usable(c)' <=> Usable(c)
    BY <1>1 DEF Usable
  <2> QED
    BY <1>1, <2>1 DEF Alive, Usables
<1>4. PICK A, U, R, S, b : A = Alive /\ U = Usables /\ R = rm /\ S = rm' /\ b = books
  OBVIOUS
<1>5. /\ Ledger(b, None) /\ EnteredIn(U, R, b) /\ SharedIn(R, b) /\ KnownIn(U, R, b)
      /\ ObjectsFit(A, R)
  BY <1>4 DEF VramInv
<1>6. S \subseteq R /\ \A c : Plain(R, c) = Plain(S, c)
  BY <1>1, <1>4 DEF Plain
<1>7. EnteredIn(U, S, b) /\ SharedIn(S, b) /\ KnownIn(U, S, b)
  BY <1>5, <1>6 DEF EnteredIn, SharedIn, KnownIn
<1>8. ObjectsFit(A, S)
  BY <1>5, <1>6, FS_Subset DEF ObjectsFit, OnePerHandle
<1>9. /\ ObjectsFit(Alive, rm)' /\ Ledger(books, None)'
      /\ EnteredIn(Usables, rm, books)' /\ SharedIn(rm, books)' /\ KnownIn(Usables, rm, books)'
  BY <1>1, <1>3, <1>4, <1>5, <1>7, <1>8
<1>10. Within'
  BY <1>1 DEF VramInv, Within
<1> QED
  BY <1>2, <1>9, <1>10 DEF VramInv

(* RM and the books free the same objects, although each goes by what it   *)
(* has itself: G are the handles under h for RM, W those for the books.    *)
LEMMA FreeAlike ==
  ASSUME NEW A, NEW U, NEW R, NEW b, ObjectsFit(A, R), Ledger(b, None),
         EnteredIn(U, R, b), SharedIn(R, b), KnownIn(U, R, b),
         NEW c \in Clients, c \in U, NEW h \in Handles,
         NEW W, W = Under(b.objects, c, h), NEW G, G = Under(R, c, h),
         NEW S, S = {x \in R : ~ (x.client = c /\ x.handle \in G)},
         NEW d, Less(d, b, Mine(b, c, W))
  PROVE  /\ ObjectsFit(A, S)
         /\ EnteredIn(U, S, d) /\ SharedIn(S, d) /\ KnownIn(U, S, d)
         /\ TrackedIn(R, b) => TrackedIn(S, d)
<1>1. /\ h \in W /\ Closed(b.objects, c, W) /\ h \in G /\ Closed(R, c, G)
  BY UnderCloses
<1>2. /\ \A r \in b.objects : /\ r.client \in U /\ r.handle \in Handles
                              /\ r.parent \in Plain(R, r.client)
      /\ \A x \in R : x.handle \in Handles /\ x.parent \in Plain(R, x.client)
      /\ OnePerHandle(R) /\ OnePerHandle(b.objects) /\ IsFiniteSet(R)
  BY DEF Ledger, Entry, KnownIn, ObjectsFit
<1>3. c \notin Handles /\ None # System
  BY VramAssumption
<1>4. \A k \in Handles : k \in Plain(R, c) =>
        \E y \in R : y.client = c /\ y.handle = k /\ y.mem = None
  BY <1>3 DEF Plain
<1>5. \A x \in R : x.client = c /\ x.mem # System =>
        \E r \in b.objects : SameKey(r, x) /\ r.parent = x.parent
  BY DEF EnteredIn, Shows
<1>6. ASSUME NEW x \in R, NEW r \in b.objects, SameKey(r, x), x.mem # System,
             r.client = c, r.handle \in W
      PROVE  x.handle \in G
  <2>1. PICK T : T = {k \in Handles : k \in G \/ ~ \E y \in R : y.client = c /\ y.handle = k /\ y.mem # System}
    OBVIOUS
  <2>2. ASSUME NEW s \in b.objects, s.client = c, s.parent \in T PROVE s.handle \in T
    <3>1. s.parent \in G
      <4>1. s.parent \in Handles /\ s.parent \in Plain(R, c)
        BY <1>2, <2>1, <2>2
      <4>2. PICK y \in R : y.client = c /\ y.handle = s.parent /\ y.mem = None
        BY <1>4, <4>1
      <4> QED
        BY <1>3, <2>1, <2>2, <4>2
    <3>2. ASSUME NEW y \in R, y.client = c, y.handle = s.handle, y.mem # System
          PROVE  s.handle \in G
      <4>1. PICK t \in b.objects : SameKey(t, y) /\ t.parent = y.parent
        BY <1>5, <3>2
      <4>2. t = s
        BY <1>2, <2>2, <3>2, <4>1 DEF OnePerHandle, SameKey
      <4> QED
        BY <1>1, <3>1, <3>2, <4>1, <4>2 DEF Closed
    <3>3. s.handle \in Handles
      BY <1>2
    <3> QED
      BY <2>1, <3>2, <3>3
  <2>3. h \in T /\ Closed(b.objects, c, T)
    BY <1>1, <2>1, <2>2 DEF Closed
  <2>4. W \subseteq T
    BY <2>3, UnderIsLeast
  <2> QED
    BY <1>6, <2>1, <2>4 DEF SameKey
<1>7. ASSUME NEW x \in R, x.client = c, x.handle \in G, x.handle \notin W
      PROVE  x.mem # None /\ \A r \in b.objects : SameKey(r, x) => r.parent # x.parent
  <2>1. PICK Odd : Odd = {y \in R : /\ y.client = c /\ y.mem # None
                                    /\ \A r \in b.objects : SameKey(r, y) => r.parent # y.parent}
    OBVIOUS
  <2>2. PICK V : V = {k \in Handles : k \in W \/ \E y \in Odd : y.handle = k}
    OBVIOUS
  <2>3. ASSUME NEW z \in R, z.client = c, z.parent \in V PROVE z.handle \in V
    <3>1. z.parent \in W
      <4>1. z.parent \in Handles /\ z.parent \in Plain(R, c)
        BY <1>2, <2>2, <2>3
      <4>2. PICK y \in R : y.client = c /\ y.handle = z.parent /\ y.mem = None
        BY <1>4, <4>1
      <4>3. \A w \in Odd : w.handle # z.parent
        BY <1>2, <2>1, <4>2 DEF OnePerHandle
      <4> QED
        BY <2>2, <2>3, <4>3
    <3>2. z.handle \in Handles
      BY <1>2
    <3>3. CASE \E r \in b.objects : SameKey(r, z) /\ r.parent = z.parent
      BY <1>1, <2>2, <2>3, <3>1, <3>2, <3>3 DEF Closed, SameKey
    <3>4. CASE ~ \E r \in b.objects : SameKey(r, z) /\ r.parent = z.parent
      <4>1. z.mem = System
        BY <1>5, <2>3, <3>4
      <4>2. z \in Odd
        BY <1>3, <2>1, <2>3, <3>4, <4>1
      <4> QED
        BY <2>2, <3>2, <4>2
    <3> QED
      BY <3>3, <3>4
  <2>4. h \in V /\ Closed(R, c, V)
    BY <1>1, <2>2, <2>3 DEF Closed
  <2>5. G \subseteq V
    BY <2>4, UnderIsLeast
  <2>6. PICK y \in Odd : y.handle = x.handle
    BY <1>7, <2>2, <2>5
  <2>7. y = x
    BY <1>2, <1>7, <2>1, <2>6 DEF OnePerHandle
  <2> QED
    BY <2>1, <2>6, <2>7
<1>8. /\ Ledger(d, None) /\ \A m \in d.memory : \E n \in b.memory : SameAccount(n, m)
      /\ d.objects = b.objects \ Mine(b, c, W)
  BY LessAccounts
<1>9. \A r \in d.objects : r \in b.objects /\ ~ (r.client = c /\ r.handle \in W)
  BY <1>8 DEF Mine
<1>10. EnteredIn(U, S, d) /\ SharedIn(S, d)
  <2>1. \A x \in S : \A r \in b.objects :
          SameKey(r, x) /\ x.client \in U /\ x.mem # System => r \in d.objects
    BY <1>6, <1>8 DEF Mine, SameKey
  <2>2. Fewer(U, S, d, U, R, b)
    BY <1>8, <2>1 DEF Fewer
  <2> QED
    BY <1>8, <2>2, ShrinkKeeps
<1>11. \A x : x # c => Plain(S, x) = Plain(R, x)
  BY DEF Plain
<1>12. KnownIn(U, S, d)
  <2>1. ASSUME NEW r \in d.objects PROVE r.client \in U /\ r.parent \in Plain(S, r.client)
    <3>1. r \in b.objects /\ r.client \in U /\ r.parent \in Plain(R, r.client)
      BY <1>2, <1>9
    <3>2. CASE r.client # c
      BY <1>11, <3>1, <3>2
    <3>3. CASE r.client = c /\ r.parent # c
      <4>1. PICK y \in R : y.client = c /\ y.handle = r.parent /\ y.mem = None
        BY <3>1, <3>3 DEF Plain
      <4>2. y.handle \notin W
        BY <1>1, <1>9, <3>1, <3>3, <4>1 DEF Closed
      <4>3. y \in S
        BY <1>7, <4>1, <4>2
      <4> QED
        BY <3>1, <3>3, <4>1, <4>3 DEF Plain
    <3>4. CASE r.client = c /\ r.parent = c
      BY <3>1, <3>4 DEF Plain
    <3> QED
      BY <3>2, <3>3, <3>4
  <2> QED
    BY <2>1 DEF KnownIn
<1>13. TrackedIn(R, b) => TrackedIn(S, d)
  <2>1. SUFFICES ASSUME TrackedIn(R, b), NEW r \in d.objects
                 PROVE  \E x \in S : /\ SameKey(r, x) /\ r.parent = x.parent
                                     /\ (r.memory # None => OnCard(x))
    BY DEF TrackedIn
  <2>2. r \in b.objects
    BY <1>9
  <2>3. PICK x \in R : SameKey(r, x) /\ r.parent = x.parent /\ (r.memory # None => OnCard(x))
    BY <2>1, <2>2 DEF TrackedIn
  <2>4. x \in S
    BY <1>7, <1>9, <2>2, <2>3 DEF SameKey
  <2> QED
    BY <2>3, <2>4
<1>14. ObjectsFit(A, S)
  <2>1. ASSUME NEW x \in S PROVE x.parent \in Plain(S, x.client)
    <3>1. CASE x.client # c
      BY <1>2, <1>11, <3>1
    <3>2. CASE x.client = c /\ x.parent # c
      <4>1. PICK y \in R : y.client = c /\ y.handle = x.parent /\ y.mem = None
        BY <1>2, <3>2 DEF Plain
      <4>2. y.handle \notin G
        BY <1>1, <3>2, <4>1 DEF Closed
      <4> QED
        BY <3>2, <4>1, <4>2 DEF Plain
    <3>3. CASE x.client = c /\ x.parent = c
      BY <3>3 DEF Plain
    <3> QED
      BY <3>1, <3>2, <3>3
  <2>2. IsFiniteSet(S) /\ OnePerHandle(S)
    BY <1>2, FS_Subset DEF OnePerHandle
  <2> QED
    BY <2>1, <2>2 DEF ObjectsFit
<1> QED
  BY <1>10, <1>12, <1>13, <1>14

\* RM_FREE of an object takes what is under it out of the books and the host.
LEMMA FreeStep ==
  ASSUME VramInv, NEW o \in rm, Free(o)
  PROVE  VramInv'
<1>1. PICK c, h : c = o.client /\ h = o.handle
  OBVIOUS
<1>2. /\ rm' = {x \in rm : ~ (x.client = c /\ x.handle \in Under(rm, c, h))}
      /\ books' = Freed(books, c, h) /\ Standing /\ Usable(c)
  BY <1>1 DEF Free, Standing
<1>3. PICK A, U, R, b, S, d : /\ A = Alive /\ U = Usables /\ R = rm /\ b = books
                              /\ S = rm' /\ d = books'
  OBVIOUS
<1>4. /\ Ledger(b, None) /\ EnteredIn(U, R, b) /\ SharedIn(R, b) /\ KnownIn(U, R, b)
      /\ (untracked = 0 => TrackedIn(R, b)) /\ (Limit # None => b.inUse < Limit + Granule)
      /\ ObjectsFit(A, R)
  BY <1>3 DEF VramInv, Within
<1>5. c \in Clients /\ c \in U /\ h \in Handles /\ h # c
  <2>1. c \in Clients /\ h \in Handles
    BY <1>1 DEF VramInv, ObjectsFit, Alive, Types
  <2> QED
    BY <1>2, <1>3, <2>1, VramAssumption DEF Usables
<1>6. PICK W, G : W = Under(b.objects, c, h) /\ G = Under(R, c, h)
  OBVIOUS
<1>7. Less(d, b, Mine(b, c, W))
  <2>1. d = Freed(b, c, h)
    BY <1>2, <1>3
  <2> QED
    BY <1>4, <1>5, <1>6, <2>1, FreeKeeps
<1>8. S = {x \in R : ~ (x.client = c /\ x.handle \in G)}
  BY <1>2, <1>3, <1>6
<1>9. /\ ObjectsFit(A, S)
      /\ EnteredIn(U, S, d) /\ SharedIn(S, d) /\ KnownIn(U, S, d)
      /\ TrackedIn(R, b) => TrackedIn(S, d)
  BY <1>4, <1>5, <1>6, <1>7, <1>8, FreeAlike
<1>10. Ledger(d, None) /\ d.inUse <= b.inUse /\ d.inUse \in Nat /\ b.inUse \in Nat
  BY <1>4, <1>7, LessAccounts
<1>11. /\ Usables' = Usables /\ Alive' = Alive /\ untracked' = untracked
       /\ Types' /\ RootsFit' /\ IssuedIsAlive'
  BY <1>2, StandingKeeps DEF Standing
<1>12. /\ ObjectsFit(Alive, rm)' /\ Ledger(books, None)'
       /\ EnteredIn(Usables, rm, books)' /\ SharedIn(rm, books)' /\ KnownIn(Usables, rm, books)'
       /\ (untracked = 0 => TrackedIn(rm, books))'
  BY <1>3, <1>4, <1>9, <1>10, <1>11
<1>13. Within'
  <2>1. Limit # None => d.inUse < Limit + Granule
    BY <1>4, <1>10, VramAssumption
  <2> QED
    BY <1>3, <2>1 DEF Within
<1> QED
  BY <1>11, <1>12, <1>13 DEF VramInv

----------------------------------------------------------------------------
(* Theorems *)

\* Every request and every release keeps the invariant.
LEMMA StepKeeps == VramInv /\ [Next]_vars => VramInv'
<1> SUFFICES ASSUME VramInv, [Next]_vars PROVE VramInv'
  OBVIOUS
<1>1. CASE \E f \in Files : \E c \in Clients : AllocRoot(f, c)
  BY <1>1, AllocRootStep
<1>2. CASE \E f \in Files : Close(f)
  BY <1>2, CloseStep
<1>3. CASE \E f \in Files : LetGo(f)
  BY <1>3, LetGoStep
<1>4. CASE \E c \in Clients : FreeRoot(c)
  BY <1>4, FreeRootStep
<1>5. ASSUME NEW c \in Clients, NEW h \in Handles, NEW p \in Parents(c),
             \/ AllocObject(c, p, h)
             \/ \E asked \in Sizes : AllocMemory(c, p, h, asked)
             \/ AllocSystem(c, p, h)
             \/ \E o \in rm : Dup(c, p, h, o)
      PROVE  VramInv'
  BY <1>5, AllocObjectStep, AllocMemoryStep, AllocSystemStep, DupStep
<1>6. CASE \E o \in rm : Free(o)
  BY <1>6, FreeStep
<1>7. CASE \E o \in rm : HeapFree(o)
  BY <1>7, HeapFreeStep
<1>8. CASE UNCHANGED vars
  <2>1. /\ file' = file /\ roots' = roots /\ rm' = rm /\ books' = books
        /\ clients' = clients /\ untracked' = untracked
    BY <1>8 DEF vars, host
  <2>2. \A c : Usable(c)' <=> Usable(c)
    BY <2>1 DEF Usable
  <2>3. Usables' = Usables /\ Alive' = Alive
    BY <2>1, <2>2 DEF Usables, Alive
  <2> QED
    BY <2>1, <2>3 DEF VramInv, Types, RootsFit, Within, IssuedIsAlive
<1> QED
  BY <1>1, <1>2, <1>3, <1>4, <1>5, <1>6, <1>7, <1>8 DEF Next

(* VramInvariant: whatever order a guest allocates, duplicates and frees   *)
(* in, the books are in order, and what they say of every object the guest *)
(* can name is what RM on the host holds.                                  *)
THEOREM VramInvariant == Spec => []VramInv
<1>1. Init => VramInv
  BY InitOk
<1>2. VramInv /\ [Next]_vars => VramInv'
  BY StepKeeps
<1> QED
  BY <1>1, <1>2, PTL DEF Spec

(* BooksTyped: every entry of the books has the memory it names, and every *)
(* memory in them has holders.                                             *)
THEOREM BooksTyped == Spec => []TypeOK
<1>1. VramInv => TypeOK
  <2> SUFFICES ASSUME VramInv PROVE TypeOK
    OBVIOUS
  <2>1. \A o \in rm : o.client \in Clients /\ o.handle \in Handles /\ o.parent \in Handles \cup Clients
    BY DEF VramInv, ObjectsFit, Alive, Plain, Types
  <2>2. \A o \in books.objects :
          /\ o.client \in Clients /\ o.handle \in Handles /\ o.parent \in Handles \cup Clients
          /\ o.memory # None => \E m \in books.memory : m.id = o.memory
    BY DEF VramInv, Ledger, Entry
  <2>3. \A m \in books.memory : m.bytes \in Nat /\ m.holders \in Nat \ {0}
    BY DEF VramInv, Ledger, Account
  <2>4. books.inUse \in Nat
    <3>1. PICK b : b = books
      OBVIOUS
    <3>2. Ledger(b, None)
      BY <3>1 DEF VramInv
    <3> QED
      BY <3>1, <3>2, LedgerSum
  <2> QED
    BY <2>1, <2>2, <2>3, <2>4 DEF VramInv, Types, TypeOK
<1> QED
  BY <1>1, VramInvariant, PTL

\* The entry and the account of an object.
EntryOf(o) == CHOOSE r \in books.objects : Shows(r, o, books)
AccountOf(o) == CHOOSE m \in books.memory : m.id = EntryOf(o).memory /\ m.bytes = o.mem.bytes

\* Both are there for every memory of the guest's, and of its bytes.
LEMMA AccountIs ==
  ASSUME VramInv, NEW o \in rm, OnCard(o), o.client \in Usables
  PROVE  /\ EntryOf(o) \in books.objects /\ SameKey(EntryOf(o), o)
         /\ AccountOf(o) \in books.memory /\ AccountOf(o).id = EntryOf(o).memory
         /\ AccountOf(o).bytes = o.mem.bytes
<1>1. \E r \in books.objects : Shows(r, o, books)
  BY DEF VramInv, EnteredIn, OnCard
<1>2. EntryOf(o) \in books.objects /\ Shows(EntryOf(o), o, books)
  BY <1>1 DEF EntryOf
<1>3. SameKey(EntryOf(o), o) /\ \E m \in books.memory : m.id = EntryOf(o).memory /\ m.bytes = o.mem.bytes
  BY <1>2 DEF Shows, OnCard
<1>4. PICK e : e = EntryOf(o)
  OBVIOUS
<1>5. \E m \in books.memory : m.id = e.memory /\ m.bytes = o.mem.bytes
  BY <1>3, <1>4
<1>6. AccountOf(o) \in books.memory /\ AccountOf(o).id = e.memory /\ AccountOf(o).bytes = o.mem.bytes
  BY <1>4, <1>5 DEF AccountOf
<1> QED
  BY <1>2, <1>3, <1>4, <1>6

\* The sums compared are over finite sets of numbers.
LEMMA SumsFit ==
  ASSUME VramInv
  PROVE  /\ IsFiniteSet(Held) /\ IsFiniteSet(books.memory) /\ books.inUse = Bytes(books.memory)
         /\ (\A m \in Held : m.bytes \in Nat) /\ (\A m \in books.memory : m.bytes \in Nat)
         /\ TakenOnCard = Bytes(Held) /\ TakenOnCard \in Nat /\ books.inUse \in Nat
<1>1. /\ IsFiniteSet(Held) /\ \A m \in Held : m.bytes \in Nat
  BY HeldIs DEF Mem
<1>2. PICK b : b = books
  OBVIOUS
<1>3. Ledger(b, None)
  BY <1>2 DEF VramInv
<1>4. b.inUse \in Nat /\ (\A m \in b.memory : m.bytes \in Nat) /\ IsFiniteSet(b.memory)
      /\ b.inUse = Bytes(b.memory)
  BY <1>3, LedgerSum DEF Ledger
<1>5. TakenOnCard = Bytes(Held)
  BY DEF TakenOnCard, Bytes
<1>6. PICK H : H = Held
  OBVIOUS
<1>7. Bytes(H) \in Nat
  BY <1>1, <1>6, BytesAreNat
<1> QED
  BY <1>1, <1>2, <1>4, <1>5, <1>6, <1>7

\* An object RM holds the memory for.
HolderOf(m) == CHOOSE o \in rm : OnCard(o) /\ o.mem = m

\* Each memory RM holds has an account of its own, of as many bytes.
LEMMA ChargedAtLeast == VramInv => NeverUndercharged
<1> SUFFICES ASSUME VramInv, ~ Lingering PROVE TakenOnCard <= books.inUse
  BY DEF NeverUndercharged
<1>1. \A o \in rm : o.client \in Usables
  <2>1. \A o \in rm : \E r \in roots : r.client = o.client
    BY DEF VramInv, ObjectsFit, Alive
  <2>2. \A r \in roots : r.client \in Usables
    BY RootIs DEF Lingering, VramInv, Types
  <2> QED
    BY <2>1, <2>2
<1>2. \A m \in Held : HolderOf(m) \in rm /\ OnCard(HolderOf(m)) /\ HolderOf(m).mem = m
  BY HeldIs DEF HolderOf
<1>3. PICK f, H, M : f = [m \in Held |-> AccountOf(HolderOf(m))] /\ H = Held /\ M = books.memory
  OBVIOUS
<1>4. ASSUME NEW m \in H
      PROVE  /\ f[m] \in M /\ f[m].bytes = m.bytes
             /\ EntryOf(HolderOf(m)) \in books.objects /\ SameKey(EntryOf(HolderOf(m)), HolderOf(m))
             /\ f[m].id = EntryOf(HolderOf(m)).memory
  <2>1. HolderOf(m) \in rm /\ OnCard(HolderOf(m)) /\ HolderOf(m).mem = m /\ HolderOf(m).client \in Usables
    BY <1>1, <1>2, <1>3
  <2>2. f[m] = AccountOf(HolderOf(m))
    BY <1>3
  <2> QED
    BY <1>3, <2>1, <2>2, AccountIs
<1>5. ASSUME NEW m \in H, NEW n \in H, f[m] = f[n] PROVE m = n
  <2>1. EntryOf(HolderOf(m)).memory = EntryOf(HolderOf(n)).memory
    BY <1>4, <1>5
  <2>2. HolderOf(m).mem = HolderOf(n).mem
    BY <1>2, <1>3, <1>4, <2>1 DEF VramInv, SharedIn
  <2> QED
    BY <1>2, <1>3, <2>2
<1>6. /\ IsFiniteSet(H) /\ IsFiniteSet(M)
      /\ (\A m \in H : m.bytes \in Nat) /\ (\A m \in M : m.bytes \in Nat)
      /\ TakenOnCard = Bytes(H) /\ books.inUse = Bytes(M)
  BY <1>3, SumsFit
<1>7. Bytes(H) <= Bytes(M)
  <2>1. (\A m \in H : f[m] \in M /\ f[m].bytes = m.bytes) /\ (\A m, n \in H : f[m] = f[n] => m = n)
    BY <1>4, <1>5
  <2> QED
    BY <1>6, <2>1, BytesInject
<1> QED
  BY <1>6, <1>7

\* An entry of the books that stands for a memory, and the object of an entry.
KeeperOf(m) == CHOOSE r \in books.objects : r.memory = m.id
ObjectOf(r) == CHOOSE o \in rm : SameKey(r, o) /\ OnCard(o)

\* Each account is of a memory of its own that RM holds, of as many bytes.
LEMMA ChargedAtMost == VramInv => ChargedIsHeld
<1> SUFFICES ASSUME VramInv, untracked = 0 PROVE books.inUse <= TakenOnCard
  BY DEF ChargedIsHeld
<1>1. ASSUME NEW m \in books.memory
      PROVE  KeeperOf(m) \in books.objects /\ KeeperOf(m).memory = m.id /\ m.id # None
  <2>1. m.id # None /\ m.holders \in Nat \ {0}
    BY VramAssumption DEF VramInv, Ledger, Account
  <2>2. m.holders = Cardinality(Holders(books, m.id)) + (IF m.id = None THEN 1 ELSE 0)
    BY DEF VramInv, Ledger
  <2>3. Holders(books, m.id) # {}
    <3>1. SUFFICES ASSUME Holders(books, m.id) = {} PROVE FALSE
      OBVIOUS
    <3>2. Cardinality(Holders(books, m.id)) = 0
      BY <3>1, FS_EmptySet
    <3>3. (IF m.id = None THEN 1 ELSE 0) = 0
      BY <2>1
    <3> QED
      BY <2>1, <2>2, <3>2, <3>3
  <2>4. \E r \in books.objects : r.memory = m.id
    BY <2>3 DEF Holders
  <2> QED
    BY <2>1, <2>4 DEF KeeperOf
<1>2. ASSUME NEW r \in books.objects, r.memory # None
      PROVE  ObjectOf(r) \in rm /\ SameKey(r, ObjectOf(r)) /\ OnCard(ObjectOf(r))
  <2>1. \E o \in rm : SameKey(r, o) /\ OnCard(o)
    BY <1>2 DEF VramInv, TrackedIn
  <2> QED
    BY <2>1 DEF ObjectOf
<1>3. PICK f, H, M : f = [m \in books.memory |-> ObjectOf(KeeperOf(m)).mem] /\ H = Held /\ M = books.memory
  OBVIOUS
<1>4. ASSUME NEW m \in M
      PROVE  \E r \in books.objects, o \in rm :
               /\ r.memory = m.id /\ SameKey(r, o) /\ OnCard(o) /\ f[m] = o.mem
               /\ f[m] \in H /\ f[m].bytes = m.bytes
  <2>1. PICK r \in books.objects : r = KeeperOf(m) /\ r.memory = m.id /\ r.memory # None
    BY <1>1, <1>3
  <2>2. PICK o \in rm : o = ObjectOf(r) /\ SameKey(r, o) /\ OnCard(o)
    BY <1>2, <2>1
  <2>3. f[m] = o.mem
    BY <1>3, <2>1, <2>2
  <2>4. o.mem \in H
    BY <1>3, <2>2, HeldIs
  <2>5. o.client \in Usables
    BY <2>2 DEF VramInv, KnownIn, SameKey
  <2>6. PICK e \in books.objects, a \in books.memory :
          SameKey(e, o) /\ a.id = e.memory /\ a.bytes = o.mem.bytes
    BY <2>2, <2>5, AccountIs
  <2>7. e = r
    BY <2>2, <2>6 DEF VramInv, Ledger, OnePerHandle, SameKey
  <2>8. a = m
    BY <1>3, <2>1, <2>6, <2>7 DEF VramInv, Ledger
  <2> QED
    BY <2>1, <2>2, <2>3, <2>4, <2>6, <2>8
<1>5. ASSUME NEW m \in M, NEW n \in M, f[m] = f[n] PROVE m = n
  <2>1. PICK r \in books.objects, o \in rm : r.memory = m.id /\ SameKey(r, o) /\ OnCard(o) /\ f[m] = o.mem
    BY <1>4
  <2>2. PICK s \in books.objects, x \in rm : s.memory = n.id /\ SameKey(s, x) /\ OnCard(x) /\ f[n] = x.mem
    BY <1>4
  <2>3. r.memory = s.memory
    BY <1>5, <2>1, <2>2 DEF VramInv, SharedIn
  <2> QED
    BY <1>3, <2>1, <2>2, <2>3 DEF VramInv, Ledger
<1>6. /\ IsFiniteSet(H) /\ IsFiniteSet(M)
      /\ (\A m \in H : m.bytes \in Nat) /\ (\A m \in M : m.bytes \in Nat)
      /\ TakenOnCard = Bytes(H) /\ books.inUse = Bytes(M)
  BY <1>3, SumsFit
<1>7. Bytes(M) <= Bytes(H)
  <2>1. (\A m \in M : f[m] \in H /\ f[m].bytes = m.bytes) /\ (\A m, n \in M : f[m] = f[n] => m = n)
    BY <1>4, <1>5
  <2> QED
    BY <1>6, <2>1, BytesInject
<1> QED
  BY <1>6, <1>7

(* WhatIsHeldIsCharged: at least what RM holds for the guest is charged,   *)
(* for every limit, every number of clients and files and every order of   *)
(* requests, frees the books do not see included (vidmem_note, duplicated, *)
(* drop_object, freed, file_closed).                                       *)
THEOREM WhatIsHeldIsCharged == Spec => []NeverUndercharged
<1>1. VramInv => NeverUndercharged
  BY ChargedAtLeast
<1> QED
  BY <1>1, VramInvariant, PTL

(* WhatIsChargedIsHeld: as long as every free is seen nothing is charged   *)
(* that is gone, not even with a closed file still open on the host.       *)
THEOREM WhatIsChargedIsHeld == Spec => []ChargedIsHeld
<1>1. VramInv => ChargedIsHeld
  BY ChargedAtMost
<1> QED
  BY <1>1, VramInvariant, PTL

(* LimitHolds: what the card has taken passes the limit by less than one   *)
(* allocation's rounding (vidmem_admit) when the host has let go of every  *)
(* closed file.                                                            *)
THEOREM LimitHolds == Spec => []SettledWithinLimit
<1>1. VramInv => SettledWithinLimit
  <2> SUFFICES ASSUME VramInv, ~ Lingering, Limit # None PROVE TakenOnCard < Limit + Granule
    BY DEF SettledWithinLimit, CardWithinLimit
  <2>1. TakenOnCard <= books.inUse /\ books.inUse < Limit + Granule
    BY ChargedAtLeast DEF NeverUndercharged, VramInv, Within
  <2>2. TakenOnCard \in Nat /\ books.inUse \in Nat /\ Limit \in Nat /\ Granule \in Nat
    BY SumsFit, VramAssumption
  <2> QED
    BY <2>1, <2>2
<1> QED
  BY <1>1, VramInvariant, PTL

(* ClientsAreTheFiles: a file and a client belong together for the books   *)
(* as long as the client lives and the guest has its file (Vram::issued).  *)
THEOREM ClientsAreTheFiles == Spec => []IssuedIsAlive
<1>1. VramInv => IssuedIsAlive
  BY DEF VramInv
<1> QED
  BY <1>1, VramInvariant, PTL

=============================================================================
