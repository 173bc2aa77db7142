------------------------- MODULE EventRelay_proofs -------------------------
(***************************************************************************)
(* The way of a watch from the file it is for to the event pump: proofs    *)
(* about EventRelay for any number of files and buffers.                   *)
(***************************************************************************)
EXTENDS EventRelay, FiniteSetTheorems, SequenceTheorems, WellFoundedInduction, TLAPS

(* A set of numbers that is not empty has a least one.                     *)
LEMMA LeastExists ==
  ASSUME NEW S \in SUBSET Nat, S # {}
  PROVE  \E n \in S : \A m \in S : n <= m
<1>1. PICK n \in S : \A m \in S : ~ (<<m, n>> \in OpToRel(<, Nat))
  BY NatLessThanWellFounded, WFMin
<1>2. ASSUME NEW m \in S PROVE n <= m
  <2>1. n \in Nat /\ m \in Nat
    OBVIOUS
  <2>2. ~ (m < n)
    BY <1>1, <2>1 DEF OpToRel
  <2> QED
    BY <2>1, <2>2
<1> QED
  BY <1>2

----------------------------------------------------------------------------
(* The invariant.  A file the guest opened is on its way to the pump's     *)
(* map, by exactly one of the three places it passes, under a number that  *)
(* is still its own, until the backend is asked to close it; behind one    *)
(* that is gone, its removal is.                                           *)

Watch == [op : {"add"}, handle : Files, file : Files] \cup [op : {"remove"}, handle : Files]

RelayTypes ==
  /\ TypeOK
  /\ added \in Seq(Files \X Numbers)
  /\ removed \in Seq(Files)
  /\ channel \in Seq(Watch)
  /\ events \in Seq(Files)

\* On the backend, whatever the guest has given up or released.
IsOpen(f) == \E n \in Numbers : numbers[n] = f
IsGone(f) == guest[f] # "none" /\ ~ IsOpen(f)

ToAdd(f) == \E i \in 1 .. Len(added) : added[i][1] = f
ToRemove(f) == \E i \in 1 .. Len(removed) : removed[i] = f
Adds(f, i) == channel[i].op = "add" /\ channel[i].handle = f
Removes(f, i) == channel[i].op = "remove" /\ channel[i].handle = f

\* A number is one file's, and no file has one, or a CLOSE, before it is opened.
NumbersFit ==
  /\ \A m, n \in Numbers : numbers[m] = numbers[n] /\ numbers[m] # Nobody => m = n
  /\ \A f \in Files : guest[f] = "none" => ~ IsOpen(f) /\ f \notin closes

\* Nobody has heard of a file that was not opened.
NewUnheard ==
  \A f \in Files : guest[f] = "none" =>
    /\ ~ ToAdd(f) /\ ~ ToRemove(f)
    /\ \A i \in 1 .. Len(channel) : channel[i].handle # f
    /\ \A w \in watched : w.handle # f

\* An open file is not to be removed, and is watched or about to be, by itself.
OpenSeen ==
  \A f \in Files : IsOpen(f) =>
    /\ ~ ToRemove(f)
    /\ \A i \in 1 .. Len(channel) : ~ Removes(f, i)
    /\ \A i \in 1 .. Len(added) : added[i][1] = f => numbers[added[i][2]] = f
    /\ \A i \in 1 .. Len(channel) : Adds(f, i) => channel[i].file = f
    /\ \A w \in watched : w.handle = f => w.file = f
    /\ \/ ToAdd(f)
       \/ \E i \in 1 .. Len(channel) : Adds(f, i)
       \/ [handle |-> f, file |-> f] \in watched

\* Whatever is still watched or to be watched for a file that is gone has the
\* file's removal behind it.
GoneLeaves ==
  \A f \in Files : IsGone(f) =>
    \/ ToRemove(f)
    \/ /\ ~ ToAdd(f)
       /\ \A i \in 1 .. Len(channel) :
            Adds(f, i) => \E j \in 1 .. Len(channel) : i < j /\ Removes(f, j)
       /\ (\E w \in watched : w.handle = f) => \E j \in 1 .. Len(channel) : Removes(f, j)

RelayInv == RelayTypes /\ NumbersFit /\ NewUnheard /\ OpenSeen /\ GoneLeaves

----------------------------------------------------------------------------
(* What sync_watches sends for the files added: a watch for each of those  *)
(* whose number is somebody's, and nothing else.                           *)
LEMMA AdditionsFit ==
  ASSUME RelayTypes
  PROVE  /\ Additions \in Seq(Watch)
         /\ \A i \in 1 .. Len(Additions) : \E k \in 1 .. Len(added) :
              /\ numbers[added[k][2]] # Nobody
              /\ Additions[i] = [op |-> "add", handle |-> added[k][1],
                                 file |-> numbers[added[k][2]]]
         /\ \A k \in 1 .. Len(added) : numbers[added[k][2]] # Nobody =>
              \E i \in 1 .. Len(Additions) :
                Additions[i] = [op |-> "add", handle |-> added[k][1],
                                file |-> numbers[added[k][2]]]
<1> DEFINE Dup(a) == [op |-> "add", handle |-> a[1], file |-> numbers[a[2]]]
           Free(k) == numbers[added[k][2]] = Nobody
           Next1(g, i) == IF i = 0 THEN <<>>
                          ELSE IF Free(i) THEN g[i - 1] ELSE Append(g[i - 1], Dup(added[i]))
           Sends(g, n) == g = [i \in 0 .. n |-> Next1(g, i)]
           N == Len(added)
<1>1. /\ N \in Nat
      /\ \A k \in 1 .. N : added[k][1] \in Files /\ added[k][2] \in Numbers
      /\ \A k \in 1 .. N : Free(k) \/ Dup(added[k]) \in Watch
  <2>1. \A k \in 1 .. N : added[k] \in Files \X Numbers
    BY DEF RelayTypes
  <2>2. \A k \in 1 .. N : added[k][1] \in Files /\ added[k][2] \in Numbers
    BY <2>1
  <2>3. \A k \in 1 .. N : Free(k) \/ numbers[added[k][2]] \in Files
    BY <2>2 DEF RelayTypes, TypeOK
  <2> QED
    BY <2>2, <2>3 DEF RelayTypes, Watch
<1>2. \A n \in 0 .. N : \E g : Sends(g, n)
  <2> DEFINE Bad == {n \in 0 .. N : ~ \E g : Sends(g, n)}
  <2> SUFFICES ASSUME Bad # {} PROVE FALSE
    OBVIOUS
  <2>0. Bad \in SUBSET Nat
    BY <1>1
  <2>1. PICK n \in Bad : \A m \in Bad : n <= m
    <3> HIDE DEF Bad
    <3> QED
      BY <2>0, LeastExists
  <2>2. CASE n = 0
    <3>1. Sends([i \in 0 .. 0 |-> <<>>], 0)
      OBVIOUS
    <3> QED
      BY <2>1, <2>2, <3>1
  <2>3. CASE n > 0
    <3>1. n - 1 \in 0 .. N /\ n \in 0 .. N
      BY <1>1, <2>1, <2>3
    <3>2. PICK g : Sends(g, n - 1)
      <4>1. n - 1 \notin Bad
        <5> HIDE DEF Bad
        <5> QED
          BY <2>0, <2>1, <3>1
      <4> HIDE DEF Sends
      <4> QED
        BY <3>1, <4>1
    <3>3. PICK h : h = [i \in 0 .. n |-> IF i < n THEN g[i] ELSE Next1(g, n)]
      OBVIOUS
    <3>4. \A i \in 0 .. n : h[i] = Next1(h, i)
      <4> SUFFICES ASSUME NEW i \in 0 .. n PROVE h[i] = Next1(h, i)
        OBVIOUS
      <4>1. i = 0 \/ h[i - 1] = g[i - 1]
        BY <3>1, <3>3
      <4>2. Next1(h, i) = Next1(g, i)
        BY <4>1
      <4>3. i < n => g[i] = Next1(g, i)
        <5> SUFFICES ASSUME i < n PROVE g[i] = Next1(g, i)
          OBVIOUS
        <5>1. i \in 0 .. n - 1
          BY <3>1
        <5> HIDE DEF Next1
        <5> QED
          BY <3>2, <5>1
      <4> QED
        BY <3>1, <3>3, <4>2, <4>3
    <3>5. Sends(h, n)
      BY <3>3, <3>4
    <3> QED
      BY <2>1, <3>5
  <2> QED
    BY <1>1, <2>1, <2>2, <2>3
<1>3. PICK s : s = CHOOSE g : Sends(g, N)
  OBVIOUS
<1>4. Sends(s, N) /\ Additions = s[N]
  <2>0. N \in 0 .. N
    BY <1>1
  <2>1. \E g : Sends(g, N)
    <3> HIDE DEF Sends, N
    <3> QED
      BY <1>2, <2>0
  <2>2. Sends(s, N)
    <3> HIDE DEF Sends
    <3> QED
      BY <1>3, <2>1
  <2>3. Additions = s[N]
    BY <1>3 DEF Additions
  <2> QED
    BY <2>2, <2>3
<1>a. s[0] = <<>> /\ \A n \in 1 .. N :
        s[n] = IF Free(n) THEN s[n - 1] ELSE Append(s[n - 1], Dup(added[n]))
  <2>1. \A n \in 0 .. N : s[n] = Next1(s, n)
    <3> HIDE DEF Next1
    <3> QED
      BY <1>4
  <2>2. 0 \in 0 .. N /\ \A n \in 1 .. N : n \in 0 .. N /\ n # 0
    BY <1>1
  <2> QED
    BY <2>1, <2>2
<1> DEFINE Fits(n) ==
      /\ s[n] \in Seq(Watch)
      /\ \A i \in 1 .. Len(s[n]) : \E k \in 1 .. n : ~ Free(k) /\ s[n][i] = Dup(added[k])
      /\ \A k \in 1 .. n : Free(k) \/ \E i \in 1 .. Len(s[n]) : s[n][i] = Dup(added[k])
<1>5. \A n \in 0 .. N : Fits(n)
  <2> DEFINE Bad == {n \in 0 .. N : ~ Fits(n)}
  <2> SUFFICES ASSUME Bad # {} PROVE FALSE
    OBVIOUS
  <2>0. Bad \in SUBSET Nat
    BY <1>1
  <2>1. PICK n \in Bad : \A m \in Bad : n <= m
    <3> HIDE DEF Bad
    <3> QED
      BY <2>0, LeastExists
  <2>2. CASE n = 0
    <3>1. s[0] = <<>>
      BY <1>a
    <3>2. s[0] \in Seq(Watch) /\ Len(s[0]) = 0
      BY <3>1
    <3> QED
      BY <2>1, <2>2, <3>2
  <2>3. CASE n > 0
    <3>1. n - 1 \in 0 .. N /\ n \in 1 .. N /\ n - 1 \in Nat
      BY <1>1, <2>1, <2>3
    <3>2. Fits(n - 1)
      <4>1. n - 1 \notin Bad
        <5> HIDE DEF Bad
        <5> QED
          BY <2>0, <2>1, <3>1
      <4> HIDE DEF Fits
      <4> QED
        BY <3>1, <4>1
    <3>3. s[n] = IF Free(n) THEN s[n - 1] ELSE Append(s[n - 1], Dup(added[n]))
      BY <1>a, <3>1
    <3>5. CASE Free(n)
      <4>1. s[n] = s[n - 1]
        BY <3>3, <3>5
      <4>2. \A k \in 1 .. n : k \in 1 .. n - 1 \/ Free(k)
        BY <3>1, <3>5
      <4>3. \A k \in 1 .. n - 1 : k \in 1 .. n
        BY <3>1
      <4>4. Fits(n)
        BY <3>2, <4>1, <4>2, <4>3
      <4> QED
        BY <2>1, <4>4
    <3>6. CASE ~ Free(n)
      <4>1. /\ s[n] = Append(s[n - 1], Dup(added[n]))
            /\ s[n - 1] \in Seq(Watch) /\ Dup(added[n]) \in Watch
        BY <1>1, <3>1, <3>2, <3>3, <3>6
      <4>2. /\ s[n] \in Seq(Watch) /\ Len(s[n]) = Len(s[n - 1]) + 1
            /\ s[n][Len(s[n])] = Dup(added[n])
            /\ \A i \in 1 .. Len(s[n - 1]) : s[n][i] = s[n - 1][i]
            /\ Len(s[n - 1]) \in Nat
        BY <4>1, AppendProperties
      <4>3. ASSUME NEW i \in 1 .. Len(s[n])
            PROVE  \E k \in 1 .. n : ~ Free(k) /\ s[n][i] = Dup(added[k])
        <5>1. CASE i = Len(s[n])
          BY <3>1, <3>6, <4>2, <5>1
        <5>2. CASE i # Len(s[n])
          <6>1. i \in 1 .. Len(s[n - 1])
            BY <4>2, <5>2
          <6>2. PICK k \in 1 .. n - 1 : ~ Free(k) /\ s[n - 1][i] = Dup(added[k])
            BY <3>2, <6>1
          <6>3. k \in 1 .. n
            BY <3>1
          <6>4. s[n][i] = s[n - 1][i]
            BY <4>2, <6>1
          <6> HIDE DEF Dup, Free
          <6> QED
            BY <6>2, <6>3, <6>4
        <5> QED
          BY <5>1, <5>2
      <4>4. ASSUME NEW k \in 1 .. n, ~ Free(k)
            PROVE  \E i \in 1 .. Len(s[n]) : s[n][i] = Dup(added[k])
        <5>1. CASE k = n
          BY <4>2, <5>1
        <5>2. CASE k # n
          <6>1. k \in 1 .. n - 1
            BY <3>1, <5>2
          <6>2. PICK i \in 1 .. Len(s[n - 1]) : s[n - 1][i] = Dup(added[k])
            BY <3>2, <4>4, <6>1
          <6>3. i \in 1 .. Len(s[n])
            BY <4>2
          <6> QED
            BY <4>2, <6>2, <6>3
        <5> QED
          BY <5>1, <5>2
      <4>5. Fits(n)
        BY <4>2, <4>3, <4>4
      <4> QED
        BY <2>1, <4>5
    <3> QED
      BY <3>5, <3>6
  <2> QED
    BY <1>1, <2>1, <2>2, <2>3
<1>6. Fits(N)
  <2>1. N \in 0 .. N
    BY <1>1
  <2> HIDE DEF Fits
  <2> QED
    BY <1>5, <2>1
<1> QED
  BY <1>4, <1>6

----------------------------------------------------------------------------
(* A file that is not open leaves a number free: there are as many numbers *)
(* as files, and each is one file's.                                       *)
LEMMA FreeNumber ==
  ASSUME RelayTypes, NumbersFit, NEW f \in Files, ~ IsOpen(f)
  PROVE  LET n == Min({i \in Numbers : numbers[i] = Nobody})
         IN  n \in Numbers /\ numbers[n] = Nobody
<1> DEFINE I == {i \in Numbers : numbers[i] = Nobody}
<1>1. Len(Order) \in Nat /\ Order \in [Numbers -> Files]
  BY EventRelayAssumption DEF Numbers
<1>2. \A g \in Files : \E n \in Numbers : Order[n] = g
  BY <1>1 DEF Files
<1>3. /\ IsFiniteSet(Numbers) /\ Cardinality(Numbers) = Len(Order)
  <2>1. 1 \in Int /\ Len(Order) \in Int
    BY <1>1
  <2>2. /\ IsFiniteSet(1 .. Len(Order))
        /\ Cardinality(1 .. Len(Order)) = IF 1 > Len(Order) THEN 0 ELSE Len(Order) - 1 + 1
    BY <2>1, FS_Interval
  <2> QED
    BY <1>1, <2>2 DEF Numbers
<1>4. Order \in Surjection(Numbers, Files)
  BY <1>1, <1>2 DEF Surjection
<1>5. IsFiniteSet(Files) /\ Cardinality(Files) <= Len(Order)
  BY <1>3, <1>4, FS_Surjection
<1>6. I # {}
  <2> SUFFICES ASSUME I = {} PROVE FALSE
    OBVIOUS
  <2>1. numbers \in [Numbers -> Files \ {f}]
    <3>1. numbers \in [Numbers -> Files \cup {Nobody}] /\ \A n \in Numbers : numbers[n] # f
      BY DEF RelayTypes, TypeOK, IsOpen
    <3> QED
      BY <3>1
  <2>2. IsFiniteSet(Files \ {f}) /\ Cardinality(Files \ {f}) = Cardinality(Files) - 1
    BY <1>5, FS_RemoveElement
  <2>3. Cardinality(Files \ {f}) < Cardinality(Numbers)
    <3>1. Cardinality(Files) \in Nat
      BY <1>5, FS_CardinalityType
    <3> QED
      BY <1>1, <1>3, <1>5, <2>2, <3>1
  <2>4. PICK m, n \in Numbers : m # n /\ numbers[m] = numbers[n]
    BY <1>3, <2>1, <2>2, <2>3, FS_PigeonHole
  <2> QED
    BY <2>4 DEF NumbersFit
<1>7. I \in SUBSET Nat
  BY <1>1 DEF Numbers
<1>8. PICK n \in I : \A m \in I : n <= m
  <2> HIDE DEF I
  <2> QED
    BY <1>6, <1>7, LeastExists
<1>9. Min(I) \in I
  <2> HIDE DEF I
  <2> QED
    BY <1>8 DEF Min
<1> QED
  BY <1>9

(* The invariant at the start, before any file is open.                    *)
LEMMA InitRelay == Init => RelayInv
<1> SUFFICES ASSUME Init PROVE RelayInv
  OBVIOUS
<1> USE EventRelayAssumption DEF Init
<1>1. Len(Order) \in Nat
  OBVIOUS
<1>2. RelayTypes
  <2>1. TypeOK
    BY <1>1 DEF TypeOK
  <2> QED
    BY <2>1 DEF RelayTypes
<1>0. \A f \in Files : ~ IsOpen(f)
  BY DEF IsOpen
<1>3. NumbersFit
  BY <1>0 DEF NumbersFit
<1>4. NewUnheard
  BY DEF NewUnheard, ToAdd, ToRemove
<1>5. OpenSeen /\ GoneLeaves
  BY <1>0 DEF OpenSeen, GoneLeaves, IsGone
<1> QED
  BY <1>2, <1>3, <1>4, <1>5 DEF RelayInv

(* Polling, sweeping, edges and interrupts leave the watches alone.        *)
LEMMA QuietKeeps ==
  ASSUME RelayInv, UNCHANGED <<guest, closes, numbers, added, removed, channel, watched>>
  PROVE  NumbersFit' /\ NewUnheard' /\ OpenSeen' /\ GoneLeaves'
BY DEF RelayInv, NumbersFit, NewUnheard, OpenSeen, GoneLeaves, IsOpen, IsGone,
       ToAdd, ToRemove, Adds, Removes

(* An event fills a buffer, if one is posted, and names a file.            *)
LEMMA PushKeeps ==
  ASSUME RelayTypes, NEW h \in Files, Push(h)
  PROVE  events' \in Seq(Files) /\ posted' \in 0 .. Buffers /\ posted' + Len(events') = Buffers
<1>1. posted \in 0 .. Buffers /\ events \in Seq(Files) /\ posted + Len(events) = Buffers
  BY DEF RelayTypes, TypeOK
<1>2. Len(events) \in Nat /\ Buffers \in Nat
  BY <1>1, EventRelayAssumption
<1>3. CASE posted > 0
  BY <1>1, <1>2, <1>3, AppendProperties DEF Push
<1>4. CASE ~ posted > 0
  BY <1>1, <1>4 DEF Push, queue
<1> QED
  BY <1>3, <1>4

(* Opening: the file is added under a number that nobody has.              *)
LEMMA OpenKeeps ==
  ASSUME RelayInv, NEW f \in Files, Open(f)
  PROVE  RelayInv'
<1> USE DEF RelayInv
<1>1. PICK n : n \in Numbers /\ numbers[n] = Nobody /\ n = Min({i \in Numbers : numbers[i] = Nobody})
  <2>1. ~ IsOpen(f)
    BY DEF Open, NumbersFit
  <2> QED
    BY <2>1, FreeNumber
<1>2. /\ guest[f] = "none"
      /\ guest' = [guest EXCEPT ![f] = "opening"]
      /\ numbers' = [numbers EXCEPT ![n] = f]
      /\ added' = Append(added, <<f, n>>)
      /\ UNCHANGED <<pending, poll, closes, removed, channel, watched, edges, turn, readable, posted, events>>
  BY <1>1 DEF Open, pump, queue
<1>3. <<f, n>> \in Files \X Numbers
  BY <1>1
<1>4. /\ added' \in Seq(Files \X Numbers)
      /\ Len(added') = Len(added) + 1
      /\ \A i \in 1 .. Len(added) : added'[i] = added[i]
      /\ added'[Len(added) + 1] = <<f, n>>
  BY <1>2, <1>3, AppendProperties DEF RelayTypes
<1>5. RelayTypes'
  <2>1. guest' \in [Files -> {"none", "opening", "open", "closing", "closed"}]
    BY <1>2 DEF RelayTypes, TypeOK
  <2>2. numbers' \in [Numbers -> Files \cup {Nobody}]
    BY <1>1, <1>2 DEF RelayTypes, TypeOK
  <2>3. TypeOK'
    BY <1>2, <2>1, <2>2 DEF RelayTypes, TypeOK
  <2> QED
    BY <1>2, <1>4, <2>3 DEF RelayTypes, Watch
<1>9. /\ \A m \in Numbers : numbers'[m] = IF m = n THEN f ELSE numbers[m]
      /\ ~ IsOpen(f) /\ Nobody # f /\ \A m \in Numbers : numbers[m] # f
  <2>1. ~ IsOpen(f)
    BY <1>2 DEF NumbersFit
  <2>2. numbers \in [Numbers -> Files \cup {Nobody}]
    BY DEF RelayTypes, TypeOK
  <2> QED
    BY <1>1, <1>2, <2>1, <2>2, EventRelayAssumption DEF IsOpen
<1>6. /\ \A g \in Files : IsOpen(g)' <=> (IsOpen(g) \/ g = f)
      /\ \A g \in Files : IsGone(g)' <=> IsGone(g)
      /\ \A g \in Files : guest'[g] = "none" <=> (guest[g] = "none" /\ g # f)
  <2>1. \A g \in Files : IsOpen(g)' <=> (IsOpen(g) \/ g = f)
    BY <1>1, <1>9, EventRelayAssumption DEF IsOpen
  <2>2. \A g \in Files : guest'[g] = "none" <=> (guest[g] = "none" /\ g # f)
    BY <1>2 DEF RelayTypes, TypeOK
  <2> QED
    BY <1>2, <2>1, <2>2 DEF IsGone
<1>7. /\ \A g : ToAdd(g)' <=> (ToAdd(g) \/ g = f)
      /\ \A i \in 1 .. Len(added') :
           \/ added'[i] = <<f, n>> /\ added'[i][1] = f /\ added'[i][2] = n
           \/ i \in 1 .. Len(added) /\ added'[i] = added[i]
  <2>1. Len(added) \in Nat
    BY DEF RelayTypes
  <2>2. \A i \in 1 .. Len(added') : i = Len(added) + 1 \/ i \in 1 .. Len(added)
    BY <1>4, <2>1
  <2>3. added'[Len(added) + 1][1] = f /\ added'[Len(added) + 1][2] = n
    BY <1>4
  <2>4. \A i \in 1 .. Len(added') :
           \/ added'[i] = <<f, n>> /\ added'[i][1] = f /\ added'[i][2] = n
           \/ i \in 1 .. Len(added) /\ added'[i] = added[i]
    BY <1>4, <2>2, <2>3
  <2>5. Len(added) + 1 \in 1 .. Len(added') /\ \A i \in 1 .. Len(added) : i \in 1 .. Len(added')
    BY <1>4, <2>1
  <2>6. ASSUME NEW g, ToAdd(g)' PROVE ToAdd(g) \/ g = f
    <3>1. PICK i \in 1 .. Len(added') : added'[i][1] = g
      BY <2>6 DEF ToAdd
    <3> QED
      BY <2>4, <3>1 DEF ToAdd
  <2>7. ASSUME NEW g, ToAdd(g) \/ g = f PROVE ToAdd(g)'
    <3>1. CASE ToAdd(g)
      <4>1. PICK i \in 1 .. Len(added) : added[i][1] = g
        BY <3>1 DEF ToAdd
      <4> QED
        BY <1>4, <2>5, <4>1 DEF ToAdd
    <3>2. CASE g = f
      BY <2>3, <2>5, <3>2 DEF ToAdd
    <3> QED
      BY <2>7, <3>1, <3>2
  <2> QED
    BY <2>4, <2>6, <2>7
<1>8. /\ \A g : ToRemove(g)' <=> ToRemove(g)
      /\ \A g, i : Adds(g, i)' <=> Adds(g, i)
      /\ \A g, i : Removes(g, i)' <=> Removes(g, i)
  BY <1>2 DEF ToRemove, Adds, Removes
<1>10. NumbersFit'
  <2>1. \A m, k \in Numbers : numbers'[m] = numbers'[k] /\ numbers'[m] # Nobody => m = k
    BY <1>9 DEF NumbersFit
  <2> QED
    BY <1>2, <1>6, <2>1 DEF NumbersFit
<1>11. NewUnheard'
  BY <1>2, <1>6, <1>7, <1>8 DEF NewUnheard
<1>12. OpenSeen'
  <2> SUFFICES ASSUME NEW g \in Files, IsOpen(g)'
               PROVE  /\ ~ ToRemove(g)
                      /\ \A i \in 1 .. Len(channel) : ~ Removes(g, i)
                      /\ \A i \in 1 .. Len(added') : added'[i][1] = g => numbers'[added'[i][2]] = g
                      /\ \A i \in 1 .. Len(channel) : Adds(g, i) => channel[i].file = g
                      /\ \A w \in watched : w.handle = g => w.file = g
                      /\ \/ ToAdd(g)'
                         \/ \E i \in 1 .. Len(channel) : Adds(g, i)
                         \/ [handle |-> g, file |-> g] \in watched
    BY <1>2, <1>8 DEF OpenSeen
  <2>1. CASE g = f
    <3>1. ~ ToAdd(f) /\ ~ ToRemove(f) /\ \A i \in 1 .. Len(channel) : channel[i].handle # f
      BY <1>2 DEF NewUnheard
    <3>2. \A i \in 1 .. Len(added') : added'[i][1] = f => added'[i] = <<f, n>>
      BY <1>7, <3>1 DEF ToAdd
    <3>3. \A i \in 1 .. Len(added') : added'[i][1] = f => numbers'[added'[i][2]] = f
      <4> SUFFICES ASSUME NEW i \in 1 .. Len(added'), added'[i][1] = f
                   PROVE  numbers'[added'[i][2]] = f
        OBVIOUS
      <4>1. added'[i][2] = n
        BY <3>2
      <4> QED
        BY <1>1, <1>9, <4>1
    <3>4. \A w \in watched : w.handle # f
      BY <1>2 DEF NewUnheard
    <3>5. ToAdd(f)'
      BY <1>7
    <3> QED
      BY <2>1, <3>1, <3>3, <3>4, <3>5 DEF Adds, Removes
  <2>2. CASE g # f
    <3>1. IsOpen(g)
      BY <1>6, <2>2
    <3>2. \A i \in 1 .. Len(added') : added'[i][1] = g =>
            i \in 1 .. Len(added) /\ added'[i] = added[i] /\ numbers[added[i][2]] = g
      <4>1. \A i \in 1 .. Len(added) : added[i][1] = g => numbers[added[i][2]] = g
        BY <3>1 DEF OpenSeen
      <4> QED
        BY <1>7, <2>2, <4>1
    <3>3. \A i \in 1 .. Len(added) : added[i][2] \in Numbers
      <4>1. \A i \in 1 .. Len(added) : added[i] \in Files \X Numbers
        BY DEF RelayTypes
      <4> QED
        BY <4>1
    <3>4. \A i \in 1 .. Len(added') : added'[i][1] = g => numbers'[added'[i][2]] = g
      BY <1>1, <1>9, <3>2, <3>3, EventRelayAssumption
    <3> QED
      BY <1>7, <3>1, <3>4 DEF OpenSeen
  <2> QED
    BY <2>1, <2>2
<1>13. GoneLeaves'
  <2> SUFFICES ASSUME NEW g \in Files, IsGone(g)', ~ ToRemove(g)'
               PROVE  /\ ~ ToAdd(g)'
                      /\ \A i \in 1 .. Len(channel) :
                           Adds(g, i) => \E j \in 1 .. Len(channel) : i < j /\ Removes(g, j)
                      /\ (\E w \in watched : w.handle = g) =>
                           \E j \in 1 .. Len(channel) : Removes(g, j)
    BY <1>2, <1>8 DEF GoneLeaves
  <2>1. IsGone(g) /\ g # f /\ ~ ToRemove(g)
    BY <1>2, <1>6, <1>8 DEF IsGone
  <2> QED
    BY <1>7, <2>1 DEF GoneLeaves
<1> QED
  BY <1>5, <1>10, <1>11, <1>12, <1>13

(* What the guest makes of a file once it has asked for it changes nothing *)
(* on the backend, but for the CLOSE that nvgpu_release may queue.         *)
LEMMA GuestKeeps ==
  ASSUME RelayInv, RelayTypes', NEW f \in Files,
         Register(f) \/ GiveUp(f) \/ Release(f) \/ Unregister(f)
  PROVE  RelayInv'
<1> USE DEF RelayInv
<1>1. UNCHANGED <<numbers, added, removed, channel, watched>>
  BY DEF Register, GiveUp, Release, Unregister, backend, pump
<1>2. /\ \A g \in Files : IsOpen(g)' <=> IsOpen(g)
      /\ \A g \in Files : IsGone(g)' <=> IsGone(g)
      /\ \A g \in Files : guest'[g] = "none" <=> guest[g] = "none"
      /\ \A g \in Files : guest[g] = "none" => (g \in closes' <=> g \in closes)
  <2>1. \A g \in Files : IsOpen(g)' <=> IsOpen(g)
    BY <1>1 DEF IsOpen
  <2>2. /\ guest[f] # "none" /\ guest'[f] # "none"
        /\ \A g \in Files : g # f => guest'[g] = guest[g]
        /\ closes' = closes \/ closes' = closes \cup {f}
    BY DEF Register, GiveUp, Release, Unregister, RelayTypes, TypeOK
  <2> QED
    BY <2>1, <2>2 DEF IsGone
<1>3. /\ \A g : ToAdd(g)' <=> ToAdd(g)
      /\ \A g : ToRemove(g)' <=> ToRemove(g)
      /\ \A g, i : Adds(g, i)' <=> Adds(g, i)
      /\ \A g, i : Removes(g, i)' <=> Removes(g, i)
  BY <1>1 DEF ToAdd, ToRemove, Adds, Removes
<1>4. NumbersFit' /\ NewUnheard'
  BY <1>1, <1>2, <1>3 DEF NumbersFit, NewUnheard
<1>5. OpenSeen'
  BY <1>1, <1>2, <1>3 DEF OpenSeen
<1>6. GoneLeaves'
  BY <1>1, <1>2, <1>3 DEF GoneLeaves
<1> QED
  BY <1>4, <1>5, <1>6

(* Closing: the file's number is free, and the file is to be removed.      *)
LEMMA CloseKeeps ==
  ASSUME RelayInv, NEW f \in Files, Close(f)
  PROVE  RelayInv'
<1> USE DEF RelayInv
<1>1. /\ f \in closes /\ closes' = closes \ {f}
      /\ numbers' = [m \in Numbers |-> IF numbers[m] = f THEN Nobody ELSE numbers[m]]
      /\ removed' = Append(removed, f)
      /\ UNCHANGED <<guest, pending, poll, added, channel, watched, edges, turn, readable, posted, events>>
  <2>1. DOMAIN numbers = Numbers
    BY DEF RelayTypes, TypeOK
  <2> QED
    BY <2>1 DEF Close, pump, queue
<1>2. /\ removed' \in Seq(Files)
      /\ \A g : ToRemove(g)' <=> (ToRemove(g) \/ g = f)
  <2>1. /\ removed \in Seq(Files) /\ Len(removed) \in Nat
    BY DEF RelayTypes
  <2>2. /\ removed' \in Seq(Files) /\ Len(removed') = Len(removed) + 1
        /\ \A i \in 1 .. Len(removed) : removed'[i] = removed[i]
        /\ removed'[Len(removed) + 1] = f
    BY <1>1, <2>1, AppendProperties
  <2> QED
    BY <2>1, <2>2 DEF ToRemove
<1>3. RelayTypes'
  <2>2. numbers' \in [Numbers -> Files \cup {Nobody}]
    BY <1>1 DEF RelayTypes, TypeOK
  <2>3. TypeOK'
    BY <1>1, <2>2 DEF RelayTypes, TypeOK
  <2> QED
    BY <1>1, <1>2, <2>3 DEF RelayTypes, Watch
<1>6. \A g \in Files, m \in Numbers : numbers'[m] = g <=> (numbers[m] = g /\ g # f)
  BY <1>1, EventRelayAssumption
<1>4. /\ \A g \in Files : IsOpen(g)' <=> (IsOpen(g) /\ g # f)
      /\ \A g \in Files : IsGone(g)' <=> (IsGone(g) \/ g = f)
      /\ guest[f] # "none"
  <2>1. \A g \in Files : IsOpen(g)' <=> (IsOpen(g) /\ g # f)
    BY <1>6 DEF IsOpen
  <2>2. guest[f] # "none"
    BY <1>1 DEF NumbersFit
  <2> QED
    BY <1>1, <2>1, <2>2 DEF IsGone
<1>5. /\ \A g : ToAdd(g)' <=> ToAdd(g)
      /\ \A g, i : Adds(g, i)' <=> Adds(g, i)
      /\ \A g, i : Removes(g, i)' <=> Removes(g, i)
  BY <1>1 DEF ToAdd, Adds, Removes
<1>7. NumbersFit'
  <2>1. \A m, n \in Numbers : numbers'[m] = numbers'[n] /\ numbers'[m] # Nobody => m = n
    BY <1>1 DEF NumbersFit
  <2> QED
    BY <1>1, <1>4, <2>1 DEF NumbersFit
<1>8. NewUnheard'
  BY <1>1, <1>2, <1>4, <1>5 DEF NewUnheard
<1>9. OpenSeen'
  <2> SUFFICES ASSUME NEW g \in Files, IsOpen(g)'
               PROVE  /\ ~ ToRemove(g)'
                      /\ \A i \in 1 .. Len(channel) : ~ Removes(g, i)
                      /\ \A i \in 1 .. Len(added) : added[i][1] = g => numbers'[added[i][2]] = g
                      /\ \A i \in 1 .. Len(channel) : Adds(g, i) => channel[i].file = g
                      /\ \A w \in watched : w.handle = g => w.file = g
                      /\ \/ ToAdd(g)
                         \/ \E i \in 1 .. Len(channel) : Adds(g, i)
                         \/ [handle |-> g, file |-> g] \in watched
    BY <1>1, <1>5 DEF OpenSeen
  <2>1. IsOpen(g) /\ g # f
    BY <1>4
  <2>2. \A i \in 1 .. Len(added) : added[i][2] \in Numbers
    <3>1. \A i \in 1 .. Len(added) : added[i] \in Files \X Numbers
      BY DEF RelayTypes
    <3> QED
      BY <3>1
  <2>3. \A i \in 1 .. Len(added) : added[i][1] = g => numbers'[added[i][2]] = g
    BY <1>6, <2>1, <2>2 DEF OpenSeen
  <2> QED
    BY <1>2, <2>1, <2>3 DEF OpenSeen
<1>10. GoneLeaves'
  <2> SUFFICES ASSUME NEW g \in Files, IsGone(g)', ~ ToRemove(g)'
               PROVE  /\ ~ ToAdd(g)
                      /\ \A i \in 1 .. Len(channel) :
                           Adds(g, i) => \E j \in 1 .. Len(channel) : i < j /\ Removes(g, j)
                      /\ (\E w \in watched : w.handle = g) =>
                           \E j \in 1 .. Len(channel) : Removes(g, j)
    BY <1>1, <1>5 DEF GoneLeaves
  <2>1. IsGone(g) /\ ~ ToRemove(g)
    BY <1>2, <1>4
  <2> QED
    BY <2>1 DEF GoneLeaves
<1> QED
  BY <1>3, <1>7, <1>8, <1>9, <1>10

(* Handing over: what was to be added is sent, then what was to be         *)
(* removed, so a file that opened and closed in one batch is not watched.  *)
LEMMA SyncKeeps ==
  ASSUME RelayInv, SyncWatches
  PROVE  RelayInv'
<1> USE DEF RelayInv
<1>1. /\ channel' = (channel \o Additions) \o Removals
      /\ added' = <<>> /\ removed' = <<>>
      /\ UNCHANGED <<guest, pending, poll, closes, numbers, watched, edges, turn, readable, posted, events>>
  <2>1. channel' = channel \o Additions \o Removals
    BY DEF SyncWatches
  <2> QED
    BY <2>1 DEF SyncWatches, queue
<1>2. PICK A, R : A = Additions /\ R = Removals
  OBVIOUS
<1>3. /\ channel \in Seq(Watch) /\ Len(channel) \in Nat
      /\ added \in Seq(Files \X Numbers)
      /\ \A k \in 1 .. Len(added) : added[k][1] \in Files /\ added[k][2] \in Numbers
  <2>1. \A k \in 1 .. Len(added) : added[k] \in Files \X Numbers
    BY DEF RelayTypes
  <2> QED
    BY <2>1 DEF RelayTypes
<1>4. /\ A \in Seq(Watch) /\ Len(A) \in Nat
      /\ \A i \in 1 .. Len(A) : \E k \in 1 .. Len(added) :
           /\ numbers[added[k][2]] # Nobody
           /\ A[i] = [op |-> "add", handle |-> added[k][1], file |-> numbers[added[k][2]]]
      /\ \A k \in 1 .. Len(added) : numbers[added[k][2]] # Nobody =>
           \E i \in 1 .. Len(A) :
             A[i] = [op |-> "add", handle |-> added[k][1], file |-> numbers[added[k][2]]]
  <2>1. A = Additions
    BY <1>2
  <2>2. A \in Seq(Watch)
    BY <2>1, AdditionsFit
  <2>3. Len(A) \in Nat
    BY <2>2, LenProperties
  <2>4. \A i \in 1 .. Len(A) : \E k \in 1 .. Len(added) :
          /\ numbers[added[k][2]] # Nobody
          /\ A[i] = [op |-> "add", handle |-> added[k][1], file |-> numbers[added[k][2]]]
    BY <2>1, AdditionsFit, Zenon
  <2>5. \A k \in 1 .. Len(added) : numbers[added[k][2]] # Nobody =>
          \E i \in 1 .. Len(A) :
            A[i] = [op |-> "add", handle |-> added[k][1], file |-> numbers[added[k][2]]]
    BY <2>1, AdditionsFit, Zenon
  <2> QED
    BY <2>2, <2>3, <2>4, <2>5
<1>5. /\ R \in Seq(Watch) /\ Len(R) = Len(removed) /\ Len(R) \in Nat
      /\ \A i \in 1 .. Len(R) : R[i] = [op |-> "remove", handle |-> removed[i]]
  <2>1. removed \in Seq(Files) /\ Len(removed) \in Nat /\ DOMAIN removed = 1 .. Len(removed)
        /\ \A i \in 1 .. Len(removed) : removed[i] \in Files
    BY DEF RelayTypes
  <2>2. R = [i \in 1 .. Len(removed) |-> [op |-> "remove", handle |-> removed[i]]]
    BY <1>2, <2>1 DEF Removals
  <2>3. \A i \in 1 .. Len(removed) : [op |-> "remove", handle |-> removed[i]] \in Watch
    BY <2>1 DEF Watch
  <2> QED
    BY <2>1, <2>2, <2>3
<1>6. PICK C, a, b : C = channel /\ a = Len(channel) /\ b = Len(A)
  OBVIOUS
<1>7. /\ channel' \in Seq(Watch)
      /\ Len(channel') = a + b + Len(R)
      /\ \A i \in 1 .. a : channel'[i] = C[i]
      /\ \A i \in 1 .. b : channel'[a + i] = A[i]
      /\ \A i \in 1 .. Len(R) : channel'[a + b + i] = R[i]
  <2>1. /\ C \o A \in Seq(Watch) /\ Len(C \o A) = a + b
        /\ \A i \in 1 .. a + b : (C \o A)[i] = IF i <= a THEN C[i] ELSE A[i - a]
    BY <1>3, <1>4, <1>6, ConcatProperties
  <2>2. PICK D : D = C \o A
    OBVIOUS
  <2>3. /\ D \o R \in Seq(Watch) /\ Len(D \o R) = a + b + Len(R)
        /\ \A i \in 1 .. a + b + Len(R) : (D \o R)[i] = IF i <= a + b THEN D[i] ELSE R[i - (a + b)]
    BY <1>5, <2>1, <2>2, ConcatProperties
  <2>4. channel' = D \o R
    BY <1>1, <1>2, <1>6, <2>2
  <2>5. \A i \in 1 .. a : channel'[i] = C[i]
    BY <1>3, <1>4, <1>5, <1>6, <2>1, <2>2, <2>3, <2>4
  <2>6. \A i \in 1 .. b : channel'[a + i] = A[i]
    <3> SUFFICES ASSUME NEW i \in 1 .. b PROVE channel'[a + i] = A[i]
      OBVIOUS
    <3>1. a + i \in 1 .. a + b /\ ~ a + i <= a /\ (a + i) - a = i /\ a + i \in 1 .. a + b + Len(R)
      BY <1>3, <1>4, <1>5, <1>6
    <3> QED
      BY <2>1, <2>2, <2>3, <2>4, <3>1
  <2>7. \A i \in 1 .. Len(R) : channel'[a + b + i] = R[i]
    <3> SUFFICES ASSUME NEW i \in 1 .. Len(R) PROVE channel'[a + b + i] = R[i]
      OBVIOUS
    <3>1. ~ a + b + i <= a + b /\ (a + b + i) - (a + b) = i /\ a + b + i \in 1 .. a + b + Len(R)
      BY <1>3, <1>4, <1>5, <1>6
    <3> QED
      BY <2>3, <2>4, <3>1
  <2> QED
    BY <2>3, <2>4, <2>5, <2>6, <2>7
<1>b. /\ a \in Nat /\ b \in Nat /\ Len(R) \in Nat
      /\ \A i \in 1 .. a : i \in 1 .. Len(channel')
      /\ \A i \in 1 .. b : a + i \in 1 .. Len(channel')
      /\ \A i \in 1 .. Len(R) : a + b + i \in 1 .. Len(channel') /\ a + b < a + b + i
      /\ \A i \in 1 .. Len(channel') : i <= a \/ (a < i /\ i <= a + b) \/ a + b < i
      /\ \A i \in 1 .. a : i \in 1 .. a + b
  <2>1. a \in Nat /\ b \in Nat /\ Len(R) \in Nat /\ Len(channel') = a + b + Len(R)
    BY <1>3, <1>4, <1>5, <1>6, <1>7
  <2> QED
    BY <2>1
<1>8. \A i \in 1 .. Len(channel') :
        \/ i \in 1 .. a /\ channel'[i] = C[i]
        \/ \E k \in 1 .. Len(added) :
             /\ numbers[added[k][2]] # Nobody
             /\ channel'[i] = [op |-> "add", handle |-> added[k][1], file |-> numbers[added[k][2]]]
             /\ i \in 1 .. a + b
        \/ \E k \in 1 .. Len(removed) : channel'[i] = [op |-> "remove", handle |-> removed[k]]
  <2> SUFFICES ASSUME NEW i \in 1 .. Len(channel')
               PROVE  \/ i \in 1 .. a /\ channel'[i] = C[i]
                      \/ \E k \in 1 .. Len(added) :
                           /\ numbers[added[k][2]] # Nobody
                           /\ channel'[i] = [op |-> "add", handle |-> added[k][1],
                                             file |-> numbers[added[k][2]]]
                           /\ i \in 1 .. a + b
                      \/ \E k \in 1 .. Len(removed) :
                           channel'[i] = [op |-> "remove", handle |-> removed[k]]
    OBVIOUS
  <2>1. CASE i <= a
    BY <1>3, <1>6, <1>7, <2>1
  <2>2. CASE a < i /\ i <= a + b
    <3>1. i - a \in 1 .. b /\ a + (i - a) = i
      BY <1>3, <1>4, <1>6, <2>2
    <3>2. channel'[i] = A[i - a]
      BY <1>7, <3>1
    <3>3. i \in 1 .. a + b
      BY <1>3, <1>4, <1>6, <2>2
    <3> QED
      BY <1>4, <1>6, <3>1, <3>2, <3>3
  <2>3. CASE a + b < i
    <3>1. i - (a + b) \in 1 .. Len(R) /\ a + b + (i - (a + b)) = i
      BY <1>3, <1>4, <1>5, <1>6, <1>7, <2>3
    <3>2. channel'[i] = R[i - (a + b)]
      BY <1>7, <3>1
    <3> QED
      BY <1>5, <3>1, <3>2
  <2> QED
    BY <1>b, <2>1, <2>2, <2>3
<1>9. RelayTypes'
  <2>1. TypeOK'
    BY <1>1 DEF RelayTypes, TypeOK
  <2> QED
    BY <1>1, <1>7, <2>1 DEF RelayTypes, Watch
<1>10. \A g : ~ ToAdd(g)' /\ ~ ToRemove(g)'
  BY <1>1 DEF ToAdd, ToRemove
<1>11. \A g \in Files : (IsOpen(g)' <=> IsOpen(g)) /\ (IsGone(g)' <=> IsGone(g))
  BY <1>1 DEF IsOpen, IsGone
<1>12. NumbersFit'
  BY <1>1, <1>11 DEF NumbersFit
<1>13. NewUnheard'
  <2> SUFFICES ASSUME NEW g \in Files, guest[g] = "none"
               PROVE  /\ \A i \in 1 .. Len(channel') : channel'[i].handle # g
                      /\ \A w \in watched : w.handle # g
    BY <1>1, <1>10 DEF NewUnheard
  <2>1. /\ \A k \in 1 .. Len(added) : added[k][1] # g
        /\ \A k \in 1 .. Len(removed) : removed[k] # g
        /\ \A i \in 1 .. a : C[i].handle # g
        /\ \A w \in watched : w.handle # g
    BY <1>6 DEF NewUnheard, ToAdd, ToRemove
  <2>2. ASSUME NEW i \in 1 .. Len(channel') PROVE channel'[i].handle # g
    <3>1. CASE i \in 1 .. a /\ channel'[i] = C[i]
      BY <2>1, <3>1
    <3>2. ASSUME NEW k \in 1 .. Len(added),
                 channel'[i] = [op |-> "add", handle |-> added[k][1], file |-> numbers[added[k][2]]]
          PROVE  channel'[i].handle # g
      BY <2>1, <3>2
    <3>3. ASSUME NEW k \in 1 .. Len(removed),
                 channel'[i] = [op |-> "remove", handle |-> removed[k]]
          PROVE  channel'[i].handle # g
      BY <2>1, <3>3
    <3> QED
      BY <1>8, <3>1, <3>2, <3>3
  <2> QED
    BY <2>1, <2>2
<1>14. OpenSeen'
  <2> SUFFICES ASSUME NEW g \in Files, IsOpen(g)
               PROVE  /\ \A i \in 1 .. Len(channel') : ~ Removes(g, i)'
                      /\ \A i \in 1 .. Len(channel') : Adds(g, i)' => channel'[i].file = g
                      /\ \A w \in watched : w.handle = g => w.file = g
                      /\ \/ \E i \in 1 .. Len(channel') : Adds(g, i)'
                         \/ [handle |-> g, file |-> g] \in watched
    BY <1>1, <1>10, <1>11 DEF OpenSeen
  <2>1. /\ \A k \in 1 .. Len(removed) : removed[k] # g
        /\ \A i \in 1 .. a : ~ (C[i].op = "remove" /\ C[i].handle = g)
        /\ \A k \in 1 .. Len(added) : added[k][1] = g => numbers[added[k][2]] = g
        /\ \A i \in 1 .. a : C[i].op = "add" /\ C[i].handle = g => C[i].file = g
    BY <1>6 DEF OpenSeen, ToRemove, Adds, Removes
  <2>2. \A w \in watched : w.handle = g => w.file = g
    BY DEF OpenSeen
  <2>3. ASSUME NEW i \in 1 .. Len(channel')
        PROVE  ~ Removes(g, i)' /\ (Adds(g, i)' => channel'[i].file = g)
    <3>1. CASE i \in 1 .. a /\ channel'[i] = C[i]
      BY <2>1, <3>1 DEF Adds, Removes
    <3>2. ASSUME NEW k \in 1 .. Len(added),
                 channel'[i] = [op |-> "add", handle |-> added[k][1], file |-> numbers[added[k][2]]]
          PROVE  ~ Removes(g, i)' /\ (Adds(g, i)' => channel'[i].file = g)
      BY <2>1, <3>2 DEF Adds, Removes
    <3>3. ASSUME NEW k \in 1 .. Len(removed),
                 channel'[i] = [op |-> "remove", handle |-> removed[k]]
          PROVE  ~ Removes(g, i)' /\ (Adds(g, i)' => channel'[i].file = g)
      BY <2>1, <3>3 DEF Adds, Removes
    <3> QED
      BY <1>8, <3>1, <3>2, <3>3
  <2>4. \/ \E i \in 1 .. Len(channel') : Adds(g, i)'
        \/ [handle |-> g, file |-> g] \in watched
    <3>1. CASE ToAdd(g)
      <4>1. PICK k \in 1 .. Len(added) : added[k][1] = g
        BY <3>1 DEF ToAdd
      <4>2. numbers[added[k][2]] # Nobody
        BY <2>1, <4>1, EventRelayAssumption
      <4>3. PICK i \in 1 .. b : A[i] = [op |-> "add", handle |-> added[k][1],
                                       file |-> numbers[added[k][2]]]
        BY <1>4, <1>6, <4>2
      <4>4. channel'[a + i] = A[i] /\ a + i \in 1 .. Len(channel')
        BY <1>b, <1>7
      <4> QED
        BY <4>1, <4>3, <4>4 DEF Adds
    <3>2. CASE \E i \in 1 .. Len(channel) : Adds(g, i)
      <4>1. PICK i \in 1 .. a : C[i].op = "add" /\ C[i].handle = g
        BY <1>6, <3>2 DEF Adds
      <4>2. channel'[i] = C[i] /\ i \in 1 .. Len(channel')
        BY <1>b, <1>7
      <4> QED
        BY <4>1, <4>2 DEF Adds
    <3> QED
      BY <3>1, <3>2 DEF OpenSeen
  <2> QED
    BY <2>2, <2>3, <2>4
<1>15. GoneLeaves'
  <2> SUFFICES ASSUME NEW g \in Files, IsGone(g)
               PROVE  /\ \A i \in 1 .. Len(channel') :
                           Adds(g, i)' => \E j \in 1 .. Len(channel') : i < j /\ Removes(g, j)'
                      /\ (\E w \in watched : w.handle = g) =>
                           \E j \in 1 .. Len(channel') : Removes(g, j)'
    BY <1>1, <1>10, <1>11 DEF GoneLeaves
  <2>1. CASE ToRemove(g)
    <3>1. PICK k \in 1 .. Len(removed) : removed[k] = g
      BY <2>1 DEF ToRemove
    <3>2. PICK j : j = a + b + k
      OBVIOUS
    <3>3. j \in 1 .. Len(channel') /\ a + b < j /\ Removes(g, j)'
      <4>1. k \in 1 .. Len(R) /\ R[k] = [op |-> "remove", handle |-> g]
        BY <1>5, <3>1
      <4>2. channel'[j] = R[k] /\ j \in 1 .. Len(channel') /\ a + b < j
        BY <1>b, <1>7, <3>2, <4>1
      <4> QED
        BY <4>1, <4>2 DEF Removes
    <3>4. ASSUME NEW i \in 1 .. Len(channel'), Adds(g, i)' PROVE i < j
      <4>1. i \in 1 .. a + b
        <5>1. CASE i \in 1 .. a
          BY <1>b, <5>1
        <5>2. ASSUME NEW n \in 1 .. Len(removed),
                     channel'[i] = [op |-> "remove", handle |-> removed[n]]
              PROVE  FALSE
          BY <3>4, <5>2 DEF Adds
        <5> QED
          BY <1>8, <5>1, <5>2
      <4> QED
        BY <1>b, <3>3, <4>1
    <3> QED
      BY <3>3, <3>4
  <2>2. CASE ~ ToRemove(g)
    <3>1. /\ ~ ToAdd(g)
          /\ \A i \in 1 .. a : C[i].op = "add" /\ C[i].handle = g =>
               \E j \in 1 .. a : i < j /\ C[j].op = "remove" /\ C[j].handle = g
          /\ (\E w \in watched : w.handle = g) =>
               \E j \in 1 .. a : C[j].op = "remove" /\ C[j].handle = g
      BY <1>6, <2>2 DEF GoneLeaves, Adds, Removes
    <3>2. \A j \in 1 .. a : C[j].op = "remove" /\ C[j].handle = g =>
            j \in 1 .. Len(channel') /\ Removes(g, j)'
      BY <1>b, <1>7 DEF Removes
    <3>3. ASSUME NEW i \in 1 .. Len(channel'), Adds(g, i)'
          PROVE  \E j \in 1 .. Len(channel') : i < j /\ Removes(g, j)'
      <4>1. \A k \in 1 .. Len(added) : added[k][1] # g
        BY <3>1 DEF ToAdd
      <4>2. i \in 1 .. a /\ channel'[i] = C[i]
        <5>1. ASSUME NEW k \in 1 .. Len(added),
                     channel'[i] = [op |-> "add", handle |-> added[k][1],
                                    file |-> numbers[added[k][2]]]
              PROVE  FALSE
          BY <3>3, <4>1, <5>1 DEF Adds
        <5>2. ASSUME NEW n \in 1 .. Len(removed),
                     channel'[i] = [op |-> "remove", handle |-> removed[n]]
              PROVE  FALSE
          BY <3>3, <5>2 DEF Adds
        <5> QED
          BY <1>8, <5>1, <5>2
      <4>3. PICK j \in 1 .. a : i < j /\ C[j].op = "remove" /\ C[j].handle = g
        BY <3>1, <3>3, <4>2 DEF Adds
      <4> QED
        BY <3>2, <4>3
    <3> QED
      BY <3>1, <3>2, <3>3
  <2> QED
    BY <2>1, <2>2
<1> QED
  BY <1>9, <1>12, <1>13, <1>14, <1>15

(* The pump takes the oldest message: it watches one file more, or forgets *)
(* every watch under a handle.                                             *)
LEMMA ReceiveKeeps ==
  ASSUME RelayInv, Receive
  PROVE  RelayInv'
<1> USE DEF RelayInv
<1>1. PICK w, C, a : w = Head(channel) /\ C = channel /\ a = Len(channel)
  OBVIOUS
<1>2. /\ C \in Seq(Watch) /\ a = Len(C) /\ a \in Nat /\ a > 0
      /\ w = C[1] /\ w \in Watch
      /\ channel' \in Seq(Watch) /\ Len(channel') = a - 1
      /\ \A i \in 1 .. Len(channel') : channel'[i] = C[i + 1]
  <2>1. C \in Seq(Watch) /\ C # <<>> /\ channel' = Tail(C)
    BY <1>1 DEF Receive, RelayTypes
  <2>2. /\ Head(C) \in Watch /\ Tail(C) \in Seq(Watch) /\ Len(Tail(C)) = Len(C) - 1
        /\ \A i \in 1 .. Len(Tail(C)) : Tail(C)[i] = C[i + 1]
    BY <2>1, HeadTailProperties
  <2>3. Head(C) = C[1] /\ Len(C) \in Nat /\ Len(C) > 0
    BY <2>1
  <2> QED
    BY <1>1, <2>1, <2>2, <2>3
<1>3. /\ \A i \in 1 .. a : i = 1 \/ i - 1 \in 1 .. Len(channel')
      /\ \A i \in 1 .. Len(channel') : i + 1 \in 1 .. a /\ (i + 1) - 1 = i
      /\ 1 \in 1 .. a
  BY <1>2
<1>4. UNCHANGED <<guest, pending, poll, closes, numbers, added, removed, turn, readable, posted, events>>
  BY DEF Receive, backend, queue
<1>5. \/ w.op = "add" /\ w.handle \in Files /\ w.file \in Files
      \/ w.op = "remove" /\ w.handle \in Files
  BY <1>2 DEF Watch
<1>6. \/ w.op = "add" /\ watched' = watched \cup {[handle |-> w.handle, file |-> w.file]}
      \/ w.op = "remove" /\ watched' = {x \in watched : x.handle # w.handle}
  BY <1>1 DEF Receive, ReceiveAdd, ReceiveRemove
<1>7. RelayTypes'
  <2>1. watched' \subseteq [handle : Files, file : Files]
    BY <1>5, <1>6 DEF RelayTypes, TypeOK
  <2>2. edges' \subseteq Files
    BY <1>1, <1>5 DEF Receive, ReceiveAdd, ReceiveRemove, RelayTypes, TypeOK
  <2>3. TypeOK'
    BY <1>4, <2>1, <2>2 DEF RelayTypes, TypeOK
  <2> QED
    BY <1>2, <1>4, <2>3 DEF RelayTypes, Watch
<1>8. /\ \A g : ToAdd(g)' <=> ToAdd(g)
      /\ \A g : ToRemove(g)' <=> ToRemove(g)
      /\ \A g \in Files : (IsOpen(g)' <=> IsOpen(g)) /\ (IsGone(g)' <=> IsGone(g))
  BY <1>4 DEF ToAdd, ToRemove, IsOpen, IsGone
<1>9. \A g, i : /\ Adds(g, i) <=> (C[i].op = "add" /\ C[i].handle = g)
                /\ Removes(g, i) <=> (C[i].op = "remove" /\ C[i].handle = g)
  BY <1>1 DEF Adds, Removes
<1>10. \A g : \A i \in 1 .. Len(channel') :
         /\ Adds(g, i)' <=> (C[i + 1].op = "add" /\ C[i + 1].handle = g)
         /\ Removes(g, i)' <=> (C[i + 1].op = "remove" /\ C[i + 1].handle = g)
  BY <1>2 DEF Adds, Removes
<1>11. NumbersFit'
  BY <1>4, <1>8 DEF NumbersFit
<1>12. NewUnheard'
  <2> SUFFICES ASSUME NEW g \in Files, guest[g] = "none"
               PROVE  /\ ~ ToAdd(g) /\ ~ ToRemove(g)
                      /\ \A i \in 1 .. Len(channel') : channel'[i].handle # g
                      /\ \A x \in watched' : x.handle # g
    BY <1>4, <1>8 DEF NewUnheard
  <2>1. /\ ~ ToAdd(g) /\ ~ ToRemove(g)
        /\ \A i \in 1 .. a : C[i].handle # g
        /\ \A x \in watched : x.handle # g
    BY <1>1 DEF NewUnheard
  <2> QED
    BY <1>2, <1>3, <1>6, <2>1
<1>13. OpenSeen'
  <2> SUFFICES ASSUME NEW g \in Files, IsOpen(g)
               PROVE  /\ ~ ToRemove(g)
                      /\ \A i \in 1 .. Len(channel') : ~ Removes(g, i)'
                      /\ \A i \in 1 .. Len(added) : added[i][1] = g => numbers[added[i][2]] = g
                      /\ \A i \in 1 .. Len(channel') : Adds(g, i)' => channel'[i].file = g
                      /\ \A x \in watched' : x.handle = g => x.file = g
                      /\ \/ ToAdd(g)
                         \/ \E i \in 1 .. Len(channel') : Adds(g, i)'
                         \/ [handle |-> g, file |-> g] \in watched'
    BY <1>4, <1>8 DEF OpenSeen
  <2>1. /\ ~ ToRemove(g)
        /\ \A i \in 1 .. a : ~ (C[i].op = "remove" /\ C[i].handle = g)
        /\ \A i \in 1 .. Len(added) : added[i][1] = g => numbers[added[i][2]] = g
        /\ \A i \in 1 .. a : C[i].op = "add" /\ C[i].handle = g => C[i].file = g
        /\ \A x \in watched : x.handle = g => x.file = g
        /\ \/ ToAdd(g)
           \/ \E i \in 1 .. a : C[i].op = "add" /\ C[i].handle = g
           \/ [handle |-> g, file |-> g] \in watched
    BY <1>1, <1>9 DEF OpenSeen
  <2>2. /\ \A i \in 1 .. Len(channel') : ~ Removes(g, i)'
        /\ \A i \in 1 .. Len(channel') : Adds(g, i)' => channel'[i].file = g
    <3> SUFFICES ASSUME NEW i \in 1 .. Len(channel')
                 PROVE  ~ Removes(g, i)' /\ (Adds(g, i)' => channel'[i].file = g)
      OBVIOUS
    <3>1. i + 1 \in 1 .. a /\ channel'[i] = C[i + 1]
      BY <1>2, <1>3
    <3>2. /\ ~ (C[i + 1].op = "remove" /\ C[i + 1].handle = g)
          /\ C[i + 1].op = "add" /\ C[i + 1].handle = g => C[i + 1].file = g
      BY <2>1, <3>1
    <3> QED
      BY <1>10, <3>1, <3>2
  <2>3. /\ w.op = "add" /\ w.handle = g => w.file = g
        /\ ~ (w.op = "remove" /\ w.handle = g)
    BY <1>2, <1>3, <2>1
  <2>4. \A x \in watched' : x.handle = g => x.file = g
    BY <1>6, <2>1, <2>3
  <2>5. \/ ToAdd(g)
        \/ \E i \in 1 .. Len(channel') : Adds(g, i)'
        \/ [handle |-> g, file |-> g] \in watched'
    <3>1. CASE [handle |-> g, file |-> g] \in watched
      BY <1>6, <2>3, <3>1
    <3>2. ASSUME NEW i \in 1 .. a, C[i].op = "add" /\ C[i].handle = g
          PROVE  \/ \E j \in 1 .. Len(channel') : Adds(g, j)'
                 \/ [handle |-> g, file |-> g] \in watched'
      <4>1. CASE i = 1
        BY <1>2, <1>6, <2>3, <3>2, <4>1
      <4>2. CASE i # 1
        <5>1. i - 1 \in 1 .. Len(channel') /\ (i - 1) + 1 = i
          BY <1>2, <1>3, <4>2
        <5> QED
          BY <1>10, <3>2, <5>1
      <4> QED
        BY <4>1, <4>2
    <3> QED
      BY <2>1, <3>1, <3>2
  <2> QED
    BY <2>1, <2>2, <2>4, <2>5
<1>14. GoneLeaves'
  <2> SUFFICES ASSUME NEW g \in Files, IsGone(g), ~ ToRemove(g)
               PROVE  /\ ~ ToAdd(g)
                      /\ \A i \in 1 .. Len(channel') :
                           Adds(g, i)' => \E j \in 1 .. Len(channel') : i < j /\ Removes(g, j)'
                      /\ (\E x \in watched' : x.handle = g) =>
                           \E j \in 1 .. Len(channel') : Removes(g, j)'
    BY <1>4, <1>8 DEF GoneLeaves
  <2>1. /\ ~ ToAdd(g)
        /\ \A i \in 1 .. a : C[i].op = "add" /\ C[i].handle = g =>
             \E j \in 1 .. a : i < j /\ C[j].op = "remove" /\ C[j].handle = g
        /\ (\E x \in watched : x.handle = g) =>
             \E j \in 1 .. a : C[j].op = "remove" /\ C[j].handle = g
    BY <1>1, <1>9 DEF GoneLeaves
  <2>2. \A j \in 1 .. a : j # 1 /\ C[j].op = "remove" /\ C[j].handle = g =>
          j - 1 \in 1 .. Len(channel') /\ Removes(g, j - 1)'
    <3> SUFFICES ASSUME NEW j \in 1 .. a, j # 1, C[j].op = "remove" /\ C[j].handle = g
                 PROVE  j - 1 \in 1 .. Len(channel') /\ Removes(g, j - 1)'
      OBVIOUS
    <3>1. j - 1 \in 1 .. Len(channel') /\ (j - 1) + 1 = j
      BY <1>2, <1>3
    <3> QED
      BY <1>10, <3>1
  <2>3. ASSUME NEW i \in 1 .. Len(channel'), Adds(g, i)'
        PROVE  \E j \in 1 .. Len(channel') : i < j /\ Removes(g, j)'
    <3>1. i + 1 \in 1 .. a /\ C[i + 1].op = "add" /\ C[i + 1].handle = g
      BY <1>3, <1>10, <2>3
    <3>2. PICK j \in 1 .. a : i + 1 < j /\ C[j].op = "remove" /\ C[j].handle = g
      BY <2>1, <3>1
    <3>3. i < j - 1 /\ j # 1
      BY <1>2, <3>2
    <3> QED
      BY <2>2, <3>2, <3>3
  <2>4. ASSUME NEW x \in watched', x.handle = g
        PROVE  \E j \in 1 .. Len(channel') : Removes(g, j)'
    <3>1. CASE w.op = "add" /\ w.handle = g
      <4>1. PICK j \in 1 .. a : 1 < j /\ C[j].op = "remove" /\ C[j].handle = g
        BY <1>2, <1>3, <2>1, <3>1
      <4> QED
        BY <2>2, <4>1
    <3>2. CASE ~ (w.op = "add" /\ w.handle = g)
      <4>1. x \in watched /\ (w.op = "remove" => w.handle # g)
        BY <1>6, <2>4, <3>2
      <4>2. PICK j \in 1 .. a : C[j].op = "remove" /\ C[j].handle = g
        BY <2>1, <2>4, <4>1
      <4>3. j # 1
        BY <1>2, <4>1, <4>2
      <4> QED
        BY <2>2, <4>2, <4>3
    <3> QED
      BY <3>1, <3>2
  <2> QED
    BY <2>1, <2>3, <2>4
<1> QED
  BY <1>7, <1>11, <1>12, <1>13, <1>14

----------------------------------------------------------------------------
(* Types hold after the steps that do not touch the watches.               *)
LEMMA OtherTypes ==
  ASSUME RelayTypes,
         \/ \E f \in Files : \/ Register(f) \/ GiveUp(f) \/ Release(f) \/ Unregister(f)
                             \/ StartPoll(f) \/ CheckPending(f) \/ Consume(f) \/ Fire(f) \/ Edge(f)
         \/ StartSweep \/ Sweep \/ EventInterrupt
  PROVE  RelayTypes'
<1> USE DEF RelayTypes, backend, pump, queue, Watch
<1>1. Len(Order) \in Nat /\ Order \in [1 .. Len(Order) -> Files]
  BY EventRelayAssumption
<1>2. ASSUME NEW f \in Files,
             \/ Register(f) \/ GiveUp(f) \/ Release(f) \/ Unregister(f)
             \/ StartPoll(f) \/ CheckPending(f)
      PROVE  RelayTypes'
  <2>1. /\ guest' \in [Files -> {"none", "opening", "open", "closing", "closed"}]
        /\ pending' \subseteq Files
        /\ poll' \in [Files -> {"none", "check", "asleep"}]
        /\ closes' \subseteq Files
        /\ UNCHANGED <<numbers, added, removed, channel, watched, edges, turn, readable, posted, events>>
    BY <1>2 DEF Register, GiveUp, Release, Unregister, StartPoll, CheckPending, TypeOK
  <2>2. TypeOK'
    BY <2>1 DEF TypeOK
  <2> QED
    BY <2>1, <2>2
<1>3. ASSUME NEW f \in Files, Consume(f) \/ Fire(f)
      PROVE  RelayTypes'
  <2>1. /\ readable' \subseteq Files /\ edges' \subseteq Files
        /\ UNCHANGED <<guest, pending, poll, closes, numbers, added, removed, channel, watched, turn, posted, events>>
    BY <1>3 DEF Consume, Fire, TypeOK
  <2>2. TypeOK'
    BY <2>1 DEF TypeOK
  <2> QED
    BY <2>1, <2>2
<1>4. ASSUME NEW f \in Files, Edge(f)
      PROVE  RelayTypes'
  <2>1. /\ events' \in Seq(Files) /\ posted' \in 0 .. Buffers /\ posted' + Len(events') = Buffers
    BY <1>4, PushKeeps DEF Edge
  <2>2. /\ edges' \subseteq Files
        /\ UNCHANGED <<guest, pending, poll, closes, numbers, added, removed, channel, watched, turn, readable>>
    BY <1>4 DEF Edge, TypeOK
  <2>3. TypeOK'
    BY <2>1, <2>2 DEF TypeOK
  <2> QED
    BY <2>1, <2>2, <2>3
<1>5. ASSUME StartSweep
      PROVE  RelayTypes'
  <2>1. /\ turn' \in 0 .. Len(Order)
        /\ UNCHANGED <<guest, pending, poll, closes, numbers, added, removed, channel, watched, edges, readable,
                       posted, events>>
    <3>1. PICK w \in watched : TRUE
      BY <1>5 DEF StartSweep
    <3>2. w.handle \in Files
      BY <3>1 DEF TypeOK
    <3>3. Len(Order) # 0
      BY <1>1, <3>2 DEF Files
    <3> QED
      BY <1>1, <1>5, <3>3 DEF StartSweep
  <2>2. TypeOK'
    BY <2>1 DEF TypeOK
  <2> QED
    BY <2>1, <2>2
<1>6. ASSUME Sweep
      PROVE  RelayTypes'
  <2>1. turn \in 1 .. Len(Order) /\ Order[turn] \in Files
    <3>1. turn \in 0 .. Len(Order)
      BY DEF TypeOK
    <3>2. turn > 0
      BY <1>6 DEF Sweep
    <3>3. turn \in 1 .. Len(Order)
      BY <1>1, <3>1, <3>2
    <3> QED
      BY <1>1, <3>3
  <2>2. /\ events' \in Seq(Files) /\ posted' \in 0 .. Buffers /\ posted' + Len(events') = Buffers
    <3>1. CASE Push(Order[turn])
      BY <2>1, <3>1, PushKeeps
    <3>2. CASE UNCHANGED queue
      BY <3>2 DEF TypeOK
    <3> QED
      BY <1>6, <3>1, <3>2 DEF Sweep
  <2>3. /\ turn' \in 0 .. Len(Order)
        /\ UNCHANGED <<guest, pending, poll, closes, numbers, added, removed, channel, watched, edges, readable>>
    <3>1. /\ turn' = (IF turn = Len(Order) THEN 0 ELSE turn + 1)
          /\ UNCHANGED <<guest, pending, poll, closes, numbers, added, removed, channel, watched, edges, readable>>
      BY <1>6 DEF Sweep, backend
    <3>2. turn' \in 0 .. Len(Order)
      <4>1. CASE turn = Len(Order)
        BY <1>1, <3>1, <4>1
      <4>2. CASE turn # Len(Order)
        <5>1. turn' = turn + 1
          BY <3>1, <4>2
        <5>2. \A n \in Nat : \A t \in 1 .. n : t # n => t + 1 \in 0 .. n
          OBVIOUS
        <5> QED
          BY ONLY <1>1, <2>1, <4>2, <5>1, <5>2
      <4> QED
        BY <4>1, <4>2
    <3> QED
      BY <3>1, <3>2
  <2>4. TypeOK'
    BY <2>2, <2>3 DEF TypeOK
  <2> QED
    BY <2>2, <2>3, <2>4
<1>7. ASSUME EventInterrupt
      PROVE  RelayTypes'
  <2>1. /\ pending' \subseteq Files
        /\ poll' \in [Files -> {"none", "check", "asleep"}]
        /\ events' = <<>> /\ posted' = posted + Len(events)
        /\ UNCHANGED <<guest, closes, numbers, added, removed, channel, watched, edges, turn, readable>>
    <3>1. PICK named \in SUBSET Files :
            named = {f \in Files : Registered(f) /\ \E i \in DOMAIN events : events[i] = f}
      OBVIOUS
    <3>2. /\ pending' = pending \cup named
          /\ poll' = [f \in Files |-> IF f \in named /\ poll[f] = "asleep" THEN "check" ELSE poll[f]]
          /\ events' = <<>> /\ posted' = posted + Len(events)
          /\ UNCHANGED <<guest, closes, numbers, added, removed, channel, watched, edges, turn, readable>>
      BY <1>7, <3>1 DEF EventInterrupt, backend, pump
    <3>3. poll' \in [Files -> {"none", "check", "asleep"}]
      BY <3>2 DEF TypeOK
    <3> QED
      BY <3>2, <3>3 DEF TypeOK
  <2>2. posted' \in 0 .. Buffers /\ posted' + Len(events') = Buffers /\ events' \in Seq(Files)
    <3>1. posted + Len(events) = Buffers /\ Buffers \in Nat
      BY EventRelayAssumption DEF TypeOK
    <3> QED
      BY <2>1, <3>1
  <2>3. TypeOK'
    BY <2>1, <2>2 DEF TypeOK
  <2> QED
    BY <2>1, <2>2, <2>3
<1> QED
  BY <1>2, <1>3, <1>4, <1>5, <1>6, <1>7

(* Every step keeps the invariant.                                         *)
LEMMA NextRelay == RelayInv /\ [Next]_vars => RelayInv'
<1> SUFFICES ASSUME RelayInv, [Next]_vars PROVE RelayInv'
  OBVIOUS
<1>1. ASSUME NEW f \in Files, Open(f) PROVE RelayInv'
  BY <1>1, OpenKeeps
<1>2. ASSUME NEW f \in Files, Register(f) \/ GiveUp(f) \/ Release(f) \/ Unregister(f)
      PROVE  RelayInv'
  <2>1. RelayTypes'
    BY <1>2, OtherTypes DEF RelayInv
  <2> QED
    BY <1>2, <2>1, GuestKeeps
<1>3. ASSUME NEW f \in Files, Close(f) PROVE RelayInv'
  BY <1>3, CloseKeeps
<1>4. ASSUME NEW f \in Files,
             StartPoll(f) \/ CheckPending(f) \/ Consume(f) \/ Fire(f) \/ Edge(f)
      PROVE  RelayInv'
  <2>1. RelayTypes'
    BY <1>4, OtherTypes DEF RelayInv
  <2>2. UNCHANGED <<guest, closes, numbers, added, removed, channel, watched>>
    BY <1>4 DEF StartPoll, CheckPending, Consume, Fire, Edge, backend, pump
  <2> QED
    BY <2>1, <2>2, QuietKeeps DEF RelayInv
<1>5. CASE SyncWatches
  BY <1>5, SyncKeeps
<1>6. CASE Receive
  BY <1>6, ReceiveKeeps
<1>7. CASE StartSweep \/ Sweep \/ EventInterrupt
  <2>1. RelayTypes'
    BY <1>7, OtherTypes DEF RelayInv
  <2>2. UNCHANGED <<guest, closes, numbers, added, removed, channel, watched>>
    BY <1>7 DEF StartSweep, Sweep, EventInterrupt, backend, pump
  <2> QED
    BY <2>1, <2>2, QuietKeeps DEF RelayInv
<1>8. CASE UNCHANGED vars
  <2>1. UNCHANGED <<guest, pending, poll, closes, numbers, added, removed, channel, watched, edges, turn,
                    readable, posted, events>>
    BY <1>8 DEF vars, backend, pump, queue
  <2>2. RelayTypes'
    BY <2>1 DEF RelayInv, RelayTypes, TypeOK, Watch
  <2> QED
    BY <2>1, <2>2, QuietKeeps DEF RelayInv
<1> QED
  BY <1>1, <1>2, <1>3, <1>4, <1>5, <1>6, <1>7, <1>8 DEF Next

(* The whole of the relay's state stays consistent, from the backend's     *)
(* lists over the channel to the pump's map (sync_watches and event_pump). *)
THEOREM RelayInvariant == Spec => []RelayInv
BY InitRelay, NextRelay, PTL DEF Spec

(* Type correctness; in particular no buffer of the event queue is lost:   *)
(* push_event fills posted ones only and nvgpu_event_vq_cb posts all of    *)
(* them again.                                                             *)
THEOREM RelayTypeCorrect == Spec => []TypeOK
<1>1. RelayInv => TypeOK
  BY DEF RelayInv, RelayTypes
<1> QED
  BY <1>1, RelayInvariant, PTL

(* Once the pump has caught up it watches exactly the open files, each     *)
(* under its own handle, although sync_watches duplicates numbers that may *)
(* have changed hands since they were reported.                            *)
THEOREM PumpWatchesOwnFile == Spec => []WatchesOwnFile
<1>1. RelayInv => WatchesOwnFile
  <2> SUFFICES ASSUME RelayInv, CaughtUp
               PROVE  watched = {[handle |-> f, file |-> f] : f \in OpenFiles}
    BY DEF WatchesOwnFile
  <2> USE DEF RelayInv
  <2>1. Len(added) = 0 /\ Len(removed) = 0 /\ Len(channel) = 0
    BY DEF CaughtUp
  <2>2. \A f \in Files : ~ ToAdd(f) /\ ~ ToRemove(f)
    BY <2>1 DEF ToAdd, ToRemove
  <2>3. \A f \in Files : f \in OpenFiles <=> IsOpen(f)
    BY EventRelayAssumption DEF OpenFiles, IsOpen
  <2>4. OpenFiles \subseteq Files
    BY DEF OpenFiles, RelayTypes, TypeOK
  <2>5. \A f \in Files : IsOpen(f) => [handle |-> f, file |-> f] \in watched
    BY <2>1, <2>2 DEF OpenSeen
  <2>6. ASSUME NEW w \in watched PROVE w.handle \in OpenFiles /\ w = [handle |-> w.handle, file |-> w.handle]
    <3>1. w \in [handle : Files, file : Files] /\ w.handle \in Files
      BY DEF RelayTypes, TypeOK
    <3>2. guest[w.handle] # "none"
      BY <3>1 DEF NewUnheard
    <3>3. ~ IsGone(w.handle)
      BY <2>1, <2>2, <3>1 DEF GoneLeaves
    <3>4. IsOpen(w.handle)
      BY <3>1, <3>2, <3>3 DEF IsGone
    <3>5. w.file = w.handle
      BY <3>1, <3>4 DEF OpenSeen
    <3> QED
      BY <2>3, <3>1, <3>4, <3>5
  <2> QED
    BY <2>3, <2>4, <2>5, <2>6
<1> QED
  BY <1>1, RelayInvariant, PTL

=============================================================================
