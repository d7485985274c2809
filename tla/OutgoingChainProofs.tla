------------------------ MODULE OutgoingChainProofs ------------------------
(***************************************************************************)
(* Proofs about the text of a message and the sending of a chain, for any  *)
(* text, any chain, any limit and any failing send:                        *)
(*   ChunksKeepLetters  rendering and cutting keep every visible character,*)
(*                      once and in order (a loop of the code is a function*)
(*                      of the rounds: RoundsRun finds it, RoundsKeep says *)
(*                      what every round of it keeps);                     *)
(*   QuotedOnce         the quote is on the first physical message only;   *)
(*   SentInOrder        what was sent is a beginning of the chain, and all *)
(*                      of it when the call returns (Ordered: what arrived,*)
(*                      what waits and what is left make up the chain).    *)
(***************************************************************************)
EXTENDS OutgoingChain, SequenceTheorems, FiniteSetTheorems, WellFoundedInduction, TLAPS

LEMMA LeastExists ==
  ASSUME NEW S, S \subseteq Nat, S # {}
  PROVE  \E x \in S : \A y \in S : x <= y
<1>1. PICK x \in S : \A y \in S : ~(<<y, x>> \in OpToRel(<, Nat))
  <2> HIDE DEF OpToRel
  <2> QED
    BY NatLessThanWellFounded, WFMin
<1>2. ASSUME NEW y \in S PROVE x <= y
  <2>1. ~(y < x)
    BY <1>1 DEF OpToRel
  <2> QED
    BY <2>1
<1> QED
  BY <1>2

-----------------------------------------------------------------------------
(* Loops: what n rounds keep, when every round leads from R[k - 1] to R[k]. *)

LEMMA RoundsKeep ==
  ASSUME NEW n \in Nat, NEW R, NEW f, f[0] \in R[0], \A k \in 1 .. n : f[k - 1] \in R[k - 1] => f[k] \in R[k]
  PROVE  \A k \in 0 .. n : f[k] \in R[k]
<1> DEFINE Bad == {k \in 0 .. n : f[k] \notin R[k]}
<1> SUFFICES ASSUME Bad # {} PROVE FALSE
  OBVIOUS
<1>1. PICK x \in Bad : \A y \in Bad : x <= y
  <2>1. Bad \subseteq Nat
    OBVIOUS
  <2> HIDE DEF Bad
  <2> QED
    BY <2>1, LeastExists
<1>2. x \in 1 .. n /\ x - 1 \in 0 .. n /\ x - 1 \notin Bad
  BY <1>1
<1> QED
  BY <1>1, <1>2

Leads(H, R, n) == \A k \in 1 .. n : \A a \in R[k - 1] : H[k][a] \in R[k]
Looping(f, b, H, R, n) ==
  /\ f[0] = b /\ \A k \in 1 .. n : f[k] = H[k][f[k - 1]]
  /\ \A k \in 0 .. n : f[k] \in R[k]
LEMMA RoundsRun ==
  ASSUME NEW n \in Nat, NEW R, NEW H, NEW b \in R[0], Leads(H, R, n)
  PROVE  \E f : Looping(f, b, H, R, n)
<1> DEFINE Runs(g, m) == g[0] = b /\ \A k \in 1 .. m : g[k] = H[k][g[k - 1]]
           Bad == {m \in Nat : ~ \E g : Runs(g, m)}
<1>1. Bad = {}
  <2> SUFFICES ASSUME Bad # {} PROVE FALSE
    OBVIOUS
  <2>1. PICK x \in Bad : \A y \in Bad : x <= y
    BY LeastExists
  <2>2. x # 0
    <3>1. Runs([k \in 0 .. 0 |-> b], 0)
      OBVIOUS
    <3> QED
      BY <3>1
  <2>3. x \in Nat /\ x - 1 \in Nat /\ x - 1 \notin Bad
    <3> HIDE DEF Runs
    <3>1. x \in Nat /\ x - 1 \in Nat /\ ~(x <= x - 1)
      BY <2>1, <2>2
    <3> QED
      BY <2>1, <3>1
  <2>4. PICK g : Runs(g, x - 1)
    BY <2>3
  <2> DEFINE h == [k \in 0 .. x |-> IF k = x THEN H[x][g[x - 1]] ELSE g[k]]
  <2>5. Runs(h, x)
    <3>2. h[0] = b
      BY <2>2, <2>3, <2>4
    <3>3. ASSUME NEW k \in 1 .. x PROVE h[k] = H[k][h[k - 1]]
      <4>1. CASE k = x
        BY <4>1, <2>2, <2>3
      <4>2. CASE k # x
        <5>1. k \in 1 .. x - 1 /\ k \in 0 .. x /\ k - 1 \in 0 .. x /\ k - 1 # x
          BY <4>2, <2>3
        <5>2. g[k] = H[k][g[k - 1]]
          BY <5>1, <2>4
        <5> QED
          BY <5>1, <5>2, <4>2
      <4> QED
        BY <4>1, <4>2
    <3> HIDE DEF h
    <3> QED
      BY <3>2, <3>3
  <2> QED
    BY <2>1, <2>5
<1>2. PICK f : Runs(f, n)
  <2> HIDE DEF Runs
  <2> QED
    BY <1>1
<1>3. \A k \in 0 .. n : f[k] \in R[k]
  BY <1>2, RoundsKeep DEF Leads
<1> QED
  BY <1>2, <1>3 DEF Looping

-----------------------------------------------------------------------------
(* Sequences of sequences, one after the other.                              *)

LEMMA FlattenEmpty == FlattenSeq(<<>>) = <<>>
  BY DEF FlattenSeq

Joins(f, ss, S) == /\ FlattenSeq(ss) = f[Len(ss)] /\ f[1] = ss[1]
                   /\ \A k \in 2 .. Len(ss) : f[k] = f[k - 1] \o ss[k]
                   /\ \A k \in 1 .. Len(ss) : f[k] \in Seq(S)
LEMMA FlattenRec ==
  ASSUME NEW S, NEW ss \in Seq(Seq(S)), ss # <<>>
  PROVE  \E f : Joins(f, ss, S)
<1> DEFINE n == Len(ss)
           FlatTo(g) == g = [i \in 1 .. n |-> IF i = 1 THEN ss[i] ELSE g[i - 1] \o ss[i]]
           g0 == CHOOSE g : FlatTo(g)
<1>1. n \in Nat /\ n - 1 \in Nat /\ n >= 1 /\ \A k \in 1 .. n : ss[k] \in Seq(S)
  BY LenProperties
<1>2. FlattenSeq(ss) = g0[n]
  BY <1>1 DEF FlattenSeq
<1> HIDE DEF n
<1>3. \E g : FlatTo(g)
  <2> DEFINE R == [k \in 0 .. n - 1 |-> Seq(S)]
             H == [k \in 1 .. n - 1 |-> [a \in Seq(S) |-> a \o ss[k + 1]]]
  <2>1. ss[1] \in R[0]
    BY <1>1
  <2>2. Leads(H, R, n - 1)
    <3> SUFFICES ASSUME NEW k \in 1 .. n - 1, NEW a \in R[k - 1] PROVE H[k][a] \in R[k]
      BY DEF Leads
    <3>1. k + 1 \in 1 .. n /\ a \in Seq(S) /\ R[k] = Seq(S)
      BY <1>1
    <3> QED
      BY <3>1, <1>1, ConcatProperties
  <2>0. PICK f : Looping(f, ss[1], H, R, n - 1)
    <3> HIDE DEF R, H
    <3>1. n - 1 \in Nat
      BY <1>1
    <3> QED
      BY <2>1, <2>2, <3>1, RoundsRun
  <2>3. /\ f[0] = ss[1] /\ \A k \in 1 .. n - 1 : f[k] = H[k][f[k - 1]]
        /\ \A k \in 0 .. n - 1 : f[k] \in R[k]
    BY <2>0 DEF Looping
  <2> DEFINE g == [i \in 1 .. n |-> f[i - 1]]
  <2>5. ASSUME NEW i \in 1 .. n PROVE g[i] = IF i = 1 THEN ss[i] ELSE g[i - 1] \o ss[i]
    <3>1. CASE i = 1
      BY <3>1, <2>3, <1>1
    <3>2. CASE i # 1
      <4>1. i - 1 \in 1 .. n - 1 /\ i - 2 \in 0 .. n - 1 /\ i - 1 \in 1 .. n /\ (i - 1) + 1 = i /\ (i - 1) - 1 = i - 2
        BY <3>2, <1>1
      <4>2. f[i - 1] = H[i - 1][f[i - 2]] /\ f[i - 2] \in Seq(S)
        <5>1. f[i - 2] \in R[i - 2]
          BY <2>3, <4>1
        <5> QED
          BY <4>1, <2>3, <5>1
      <4>3. H[i - 1][f[i - 2]] = f[i - 2] \o ss[i]
        BY <4>1, <4>2
      <4>4. g[i] = f[i - 1] /\ g[i - 1] = f[i - 2]
        BY <4>1
      <4> QED
        BY <3>2, <4>2, <4>3, <4>4
    <3> QED
      BY <3>1, <3>2
  <2>6. FlatTo(g)
    <3>1. g = [i \in 1 .. n |-> g[i]]
      OBVIOUS
    <3> HIDE DEF g
    <3> QED
      BY <2>5, <3>1
  <2> QED
    BY <2>6
<1>4. FlatTo(g0)
  <2> HIDE DEF FlatTo
  <2> QED
    BY <1>3
<1> HIDE DEF g0
<1>5. g0[1] = ss[1] /\ \A k \in 2 .. n : g0[k] = g0[k - 1] \o ss[k]
  <2>1. \A k \in 1 .. n : g0[k] = IF k = 1 THEN ss[k] ELSE g0[k - 1] \o ss[k]
    BY <1>4
  <2>2. 1 \in 1 .. n /\ \A k \in 2 .. n : k \in 1 .. n /\ k # 1
    BY <1>1
  <2> QED
    BY <2>1, <2>2
<1>6. \A k \in 1 .. n : g0[k] \in Seq(S)
  <2> DEFINE R == [k \in 0 .. n - 1 |-> Seq(S)]
             f == [k \in 0 .. n - 1 |-> g0[k + 1]]
  <2>1. f[0] \in R[0]
    BY <1>1, <1>5
  <2>2. ASSUME NEW k \in 1 .. n - 1, f[k - 1] \in R[k - 1] PROVE f[k] \in R[k]
    <3>1. f[k - 1] = g0[k] /\ f[k] = g0[k + 1] /\ R[k - 1] = Seq(S) /\ R[k] = Seq(S) /\ k + 1 \in 2 .. n /\ (k + 1) - 1 = k
      BY <1>1
    <3> HIDE DEF f, R
    <3>2. g0[k + 1] = g0[k] \o ss[k + 1] /\ ss[k + 1] \in Seq(S)
      <4>1. g0[k + 1] = g0[(k + 1) - 1] \o ss[k + 1]
        BY <3>1, <1>5
      <4>2. k + 1 \in 1 .. n
        BY <3>1, <1>1
      <4> QED
        BY <3>1, <4>1, <4>2, <1>1
    <3>3. g0[k] \in Seq(S)
      BY <3>1, <2>2
    <3> QED
      BY <3>1, <3>2, <3>3, ConcatProperties
  <2>3. \A k \in 0 .. n - 1 : f[k] \in R[k]
    <3>1. n - 1 \in Nat
      BY <1>1
    <3> HIDE DEF f, R
    <3> QED
      BY <2>1, <2>2, <3>1, RoundsKeep
  <2> SUFFICES ASSUME NEW k \in 1 .. n PROVE g0[k] \in Seq(S)
    OBVIOUS
  <2>4. k - 1 \in 0 .. n - 1 /\ (k - 1) + 1 = k
    BY <1>1
  <2> QED
    BY <2>3, <2>4
<1> QED
  BY <1>2, <1>5, <1>6 DEF n, Joins

LEMMA CountUp ==
  ASSUME NEW n \in Nat, NEW P, P[0], \A k \in 1 .. n : P[k - 1] => P[k]
  PROVE  \A k \in 0 .. n : P[k]
<1> DEFINE Bad == {k \in 0 .. n : ~P[k]}
<1> SUFFICES ASSUME Bad # {} PROVE FALSE
  OBVIOUS
<1>1. PICK x \in Bad : \A y \in Bad : x <= y
  <2>1. Bad \subseteq Nat
    OBVIOUS
  <2> HIDE DEF Bad
  <2> QED
    BY <2>1, LeastExists
<1>2. x \in 1 .. n /\ x - 1 \in 0 .. n /\ x - 1 \notin Bad
  BY <1>1
<1> QED
  BY <1>1, <1>2

LEMMA FlattenType ==
  ASSUME NEW S, NEW ss \in Seq(Seq(S)) PROVE FlattenSeq(ss) \in Seq(S)
<1>1. CASE ss = <<>>
  <2>1. FlattenSeq(ss) = <<>>
    BY <1>1, FlattenEmpty
  <2> QED
    BY <2>1, EmptySeq
<1>2. CASE ss # <<>>
  <2>0. PICK f : Joins(f, ss, S)
    BY <1>2, FlattenRec
  <2>1. FlattenSeq(ss) = f[Len(ss)] /\ \A k \in 1 .. Len(ss) : f[k] \in Seq(S)
    BY <2>0 DEF Joins
  <2>2. Len(ss) \in 1 .. Len(ss)
    BY <1>2
  <2> QED
    BY <2>1, <2>2
<1> QED
  BY <1>1, <1>2

LEMMA FlattenAppend ==
  ASSUME NEW S, NEW ss \in Seq(Seq(S)), NEW s \in Seq(S)
  PROVE  FlattenSeq(Append(ss, s)) = FlattenSeq(ss) \o s
<1> DEFINE tt == Append(ss, s)
           n == Len(ss)
<1>1. /\ tt \in Seq(Seq(S)) /\ tt # <<>> /\ Len(tt) = n + 1 /\ n \in Nat
      /\ \A i \in 1 .. n : tt[i] = ss[i]
      /\ tt[n + 1] = s
  BY AppendProperties
<1> HIDE DEF tt
<1>0. PICK f : Joins(f, tt, S)
  BY <1>1, FlattenRec
<1>2. /\ FlattenSeq(tt) = f[Len(tt)] /\ f[1] = tt[1]
      /\ \A k \in 2 .. Len(tt) : f[k] = f[k - 1] \o tt[k]
  BY <1>0 DEF Joins
<1>3. CASE ss = <<>>
  <2>1. n = 0
    BY <1>3, EmptySeq
  <2>2. FlattenSeq(tt) = s
    BY <1>1, <1>2, <2>1
  <2>3. FlattenSeq(ss) \o s = s
    BY <1>3, FlattenEmpty, ConcatEmptySeq
  <2> QED
    BY <2>2, <2>3 DEF tt
<1>4. CASE ss # <<>>
  <2>0. PICK g : Joins(g, ss, S)
    BY <1>4, FlattenRec
  <2>1. /\ FlattenSeq(ss) = g[n] /\ g[1] = ss[1]
        /\ \A k \in 2 .. n : g[k] = g[k - 1] \o ss[k]
    BY <2>0 DEF Joins
  <2> DEFINE P == [k \in 0 .. n - 1 |-> f[k + 1] = g[k + 1]]
  <2>2. n >= 1 /\ n - 1 \in Nat
    BY <1>1, <1>4
  <2>3. P[0]
    <3>1. f[1] = g[1]
      <4>1. 1 \in 1 .. n
        BY <2>2
      <4> QED
        BY <4>1, <1>1, <1>2, <2>1
    <3>2. 0 \in 0 .. n - 1 /\ 0 + 1 = 1
      BY <2>2
    <3> QED
      BY <3>1, <3>2
  <2>4. ASSUME NEW k \in 1 .. n - 1, P[k - 1] PROVE P[k]
    <3>1. k + 1 \in 2 .. n /\ k + 1 \in 2 .. Len(tt) /\ (k + 1) - 1 = k /\ k + 1 \in 1 .. n /\ k - 1 \in 0 .. n - 1 /\ k \in 0 .. n - 1 /\ (k - 1) + 1 = k
      BY <1>1, <2>2
    <3>2. f[k] = g[k]
      BY <3>1, <2>4
    <3>3. f[k + 1] = f[k] \o tt[k + 1] /\ g[k + 1] = g[k] \o ss[k + 1] /\ tt[k + 1] = ss[k + 1]
      <4>1. f[k + 1] = f[(k + 1) - 1] \o tt[k + 1]
        BY <1>2, <3>1
      <4>2. g[k + 1] = g[(k + 1) - 1] \o ss[k + 1]
        BY <2>1, <3>1
      <4> QED
        BY <4>1, <4>2, <3>1, <1>1
    <3> QED
      BY <3>1, <3>2, <3>3
  <2>5. \A k \in 0 .. n - 1 : P[k]
    <3> HIDE DEF P
    <3> QED
      BY <2>2, <2>3, <2>4, CountUp
  <2>6. f[n] = g[n]
    <3>1. n - 1 \in 0 .. n - 1 /\ (n - 1) + 1 = n
      BY <2>2
    <3> QED
      BY <2>5, <3>1
  <2>7. FlattenSeq(tt) = f[n] \o tt[n + 1]
    <3>1. n + 1 \in 2 .. Len(tt) /\ (n + 1) - 1 = n
      BY <1>1, <2>2
    <3>2. f[n + 1] = f[(n + 1) - 1] \o tt[n + 1]
      BY <1>2, <3>1
    <3> QED
      BY <1>1, <1>2, <3>1, <3>2
  <2> QED
    BY <1>1, <2>1, <2>6, <2>7 DEF tt
<1> QED
  BY <1>3, <1>4

LEMMA FlattenOne ==
  ASSUME NEW S, NEW s \in Seq(S) PROVE FlattenSeq(<<s>>) = s
<1>1. <<s>> = Append(<<>>, s) /\ <<>> \in Seq(Seq(S))
  OBVIOUS
<1>2. FlattenSeq(Append(<<>>, s)) = FlattenSeq(<<>>) \o s
  BY <1>1, FlattenAppend
<1>3. FlattenSeq(<<>>) \o s = s
  BY FlattenEmpty, ConcatEmptySeq
<1> QED
  BY <1>1, <1>2, <1>3

LEMMA Regrouped ==
  ASSUME NEW x \in Seq(Nat), NEW y \in Seq(Nat), NEW z \in Seq(Nat)
  PROVE  x \o (y \o z) = (x \o y) \o z
  BY SMTT(60)

LEMMA FlattenConcat ==
  ASSUME NEW S, NEW ss \in Seq(Seq(S)), NEW tt \in Seq(Seq(S))
  PROVE  FlattenSeq(ss \o tt) = FlattenSeq(ss) \o FlattenSeq(tt)
<1> DEFINE n == Len(tt)
           pre(k) == SubSeq(tt, 1, k)
           P == [k \in 0 .. n |-> FlattenSeq(ss \o pre(k)) = FlattenSeq(ss) \o FlattenSeq(pre(k))]
<1>1. n \in Nat /\ FlattenSeq(ss) \in Seq(S)
  BY FlattenType
<1>2. P[0]
  <2>1. pre(0) = <<>> /\ ss \o <<>> = ss
    BY SubSeqEmpty, ConcatEmptySeq
  <2>2. FlattenSeq(ss) \o FlattenSeq(<<>>) = FlattenSeq(ss)
    BY <1>1, ConcatEmptySeq, FlattenEmpty
  <2>3. 0 \in 0 .. n
    BY <1>1
  <2> HIDE DEF pre
  <2> QED
    BY <2>1, <2>2, <2>3
<1>3. ASSUME NEW k \in 1 .. n, P[k - 1] PROVE P[k]
  <2>1. k - 1 \in 0 .. n /\ k \in 0 .. n
    BY <1>1
  <2>2. pre(k) = Append(pre(k - 1), tt[k]) /\ pre(k - 1) \in Seq(Seq(S)) /\ tt[k] \in Seq(S)
    <3>1. SubSeq(tt, 1, k) = Append(SubSeq(tt, 1, k - 1), tt[k])
      BY SubSeqRecursiveSecond, <1>1
    <3>2. SubSeq(tt, 1, k - 1) \in Seq(Seq(S))
      BY <2>1, SubSeqProperties, <1>1
    <3> QED
      BY <3>1, <3>2
  <2> HIDE DEF pre
  <2>3. ss \o pre(k) = Append(ss \o pre(k - 1), tt[k]) /\ ss \o pre(k - 1) \in Seq(Seq(S))
    <3> DEFINE a == pre(k - 1)
               c == tt[k]
               T == Seq(S)
    <3>1. a \in Seq(T) /\ c \in T /\ ss \in Seq(T) /\ pre(k) = Append(a, c)
      BY <2>2
    <3> HIDE DEF a, c, T
    <3>2. ss \o Append(a, c) = Append(ss \o a, c) /\ ss \o a \in Seq(T)
      BY ONLY <3>1, SMTT(60)
    <3> QED
      BY <3>1, <3>2 DEF a, c, T
  <2>4. FlattenSeq(ss \o pre(k)) = FlattenSeq(ss \o pre(k - 1)) \o tt[k]
    BY <2>2, <2>3, FlattenAppend
  <2>5. FlattenSeq(pre(k)) = FlattenSeq(pre(k - 1)) \o tt[k]
    BY <2>2, FlattenAppend
  <2>6. FlattenSeq(pre(k - 1)) \in Seq(S)
    BY <2>2, FlattenType
  <2>7. FlattenSeq(ss \o pre(k - 1)) = FlattenSeq(ss) \o FlattenSeq(pre(k - 1))
    BY <1>3, <2>1
  <2>8. (FlattenSeq(ss) \o FlattenSeq(pre(k - 1))) \o tt[k] = FlattenSeq(ss) \o (FlattenSeq(pre(k - 1)) \o tt[k])
    <3> DEFINE x == FlattenSeq(ss)
               y == FlattenSeq(pre(k - 1))
    <3>1. x \in Seq(S) /\ y \in Seq(S) /\ tt[k] \in Seq(S)
      BY <1>1, <2>2, <2>6
    <3> HIDE DEF x, y
    <3>2. \A a \in Seq(S), b \in Seq(S), c \in Seq(S) : (a \o b) \o c = a \o (b \o c)
      BY ONLY SMTT(60)
    <3>3. (x \o y) \o tt[k] = x \o (y \o tt[k])
      BY ONLY <3>1, <3>2
    <3> QED
      BY ONLY <3>3 DEF x, y
  <2> QED
    BY <2>1, <2>4, <2>5, <2>7, <2>8
<1>4. \A k \in 0 .. n : P[k]
  <2> HIDE DEF P, n
  <2> QED
    BY <1>1, <1>2, <1>3, CountUp
<1>5. pre(n) = tt /\ n \in 0 .. n
  BY SubSeqFull, <1>1
<1> HIDE DEF pre, n
<1> QED
  BY <1>4, <1>5
-----------------------------------------------------------------------------
(* The places of the letters of a text.                                      *)

Hidden(cs) == \A i \in DOMAIN cs : cs[i].c \notin VisibleKinds
Each(cs)   == [i \in DOMAIN cs |-> IF cs[i].c \in VisibleKinds THEN <<cs[i].n>> ELSE <<>>]
Line       == Seq(Characters)

LEMMA EachType ==
  ASSUME NEW cs \in Line
  PROVE  Each(cs) \in Seq(Seq(Nat)) /\ Len(Each(cs)) = Len(cs) /\ DOMAIN Each(cs) = 1 .. Len(cs)
<1>1. DOMAIN cs = 1 .. Len(cs) /\ Len(cs) \in Nat
  BY DEF Line
<1>2. \A i \in 1 .. Len(cs) : cs[i].n \in Nat
  <2>1. \A i \in 1 .. Len(cs) : cs[i] \in Characters
    BY DEF Line
  <2> QED
    BY <2>1 DEF Characters
<1>3. \A i \in 1 .. Len(cs) : (IF cs[i].c \in VisibleKinds THEN <<cs[i].n>> ELSE <<>>) \in Seq(Nat)
  <2> SUFFICES ASSUME NEW i \in 1 .. Len(cs)
               PROVE  (IF cs[i].c \in VisibleKinds THEN <<cs[i].n>> ELSE <<>>) \in Seq(Nat)
    OBVIOUS
  <2>1. <<>> \in Seq(Nat) /\ <<cs[i].n>> \in Seq(Nat)
    BY <1>2
  <2> QED
    BY <2>1
<1> DEFINE e(i) == IF cs[i].c \in VisibleKinds THEN <<cs[i].n>> ELSE <<>>
<1>4. Each(cs) = [i \in 1 .. Len(cs) |-> e(i)]
  BY <1>1 DEF Each
<1> HIDE DEF e
<1>5. \A i \in 1 .. Len(cs) : e(i) \in Seq(Nat)
  BY <1>3 DEF e
<1>6. [i \in 1 .. Len(cs) |-> e(i)] \in Seq(Seq(Nat))
  BY <1>1, <1>5
<1> QED
  BY <1>1, <1>4, <1>6

LEMMA PlacesAre == ASSUME NEW cs PROVE Places(cs) = FlattenSeq(Each(cs))
  BY DEF Places, Each

LEMMA PlacesType == ASSUME NEW cs \in Line PROVE Places(cs) \in Seq(Nat)
  BY PlacesAre, EachType, FlattenType

LEMMA PlacesEmpty == Places(<<>>) = <<>>
<1>1. <<>> \in Line
  BY DEF Line
<1>2. Each(<<>>) = <<>>
  BY <1>1, EachType, EmptySeq
<1> QED
  BY <1>2, PlacesAre, FlattenEmpty

LEMMA PlacesConcat ==
  ASSUME NEW s \in Line, NEW t \in Line
  PROVE  s \o t \in Line /\ Places(s \o t) = Places(s) \o Places(t)
<1>1. /\ s \o t \in Line /\ Len(s \o t) = Len(s) + Len(t)
      /\ Len(s) \in Nat /\ Len(t) \in Nat
      /\ DOMAIN s = 1 .. Len(s) /\ DOMAIN t = 1 .. Len(t) /\ DOMAIN (s \o t) = 1 .. Len(s \o t)
      /\ \A i \in 1 .. Len(s) + Len(t) : (s \o t)[i] = IF i <= Len(s) THEN s[i] ELSE t[i - Len(s)]
  BY DEF Line
<1>2. Each(s \o t) \in Seq(Seq(Nat)) /\ Each(s) \in Seq(Seq(Nat)) /\ Each(t) \in Seq(Seq(Nat))
      /\ Len(Each(s)) = Len(s) /\ Len(Each(t)) = Len(t) /\ Len(Each(s \o t)) = Len(s) + Len(t)
  BY <1>1, EachType
<1> DEFINE u == Each(s) \o Each(t)
<1>3. u \in Seq(Seq(Nat)) /\ Len(u) = Len(s) + Len(t)
      /\ \A i \in 1 .. Len(s) + Len(t) : u[i] = IF i <= Len(s) THEN Each(s)[i] ELSE Each(t)[i - Len(s)]
  <2> DEFINE x == Each(s)
             y == Each(t)
  <2>1. x \in Seq(Seq(Nat)) /\ y \in Seq(Seq(Nat)) /\ Len(x) = Len(s) /\ Len(y) = Len(t)
    BY <1>2
  <2> HIDE DEF x, y
  <2>2. x \o y \in Seq(Seq(Nat)) /\ Len(x \o y) = Len(x) + Len(y)
        /\ \A i \in 1 .. Len(x) + Len(y) : (x \o y)[i] = IF i <= Len(x) THEN x[i] ELSE y[i - Len(x)]
    BY <2>1, ConcatProperties
  <2> QED
    BY <2>1, <2>2 DEF x, y
<1> HIDE DEF u
<1>4. ASSUME NEW i \in 1 .. Len(s) + Len(t) PROVE Each(s \o t)[i] = u[i]
  <2>1. Each(s \o t)[i] = IF (s \o t)[i].c \in VisibleKinds THEN <<(s \o t)[i].n>> ELSE <<>>
    BY <1>1 DEF Each
  <2>2. CASE i <= Len(s)
    <3>1. i \in DOMAIN s /\ (s \o t)[i] = s[i] /\ u[i] = Each(s)[i]
      BY <1>1, <1>3, <2>2
    <3>2. Each(s)[i] = IF s[i].c \in VisibleKinds THEN <<s[i].n>> ELSE <<>>
      BY <3>1 DEF Each
    <3> QED
      BY <2>1, <3>1, <3>2
  <2>3. CASE ~(i <= Len(s))
    <3>0. i - Len(s) \in 1 .. Len(t)
      BY <1>1, <2>3
    <3>1. i - Len(s) \in DOMAIN t /\ (s \o t)[i] = t[i - Len(s)] /\ u[i] = Each(t)[i - Len(s)]
      BY <1>1, <1>3, <2>3, <3>0, Zenon
    <3>2. Each(t)[i - Len(s)] = IF t[i - Len(s)].c \in VisibleKinds THEN <<t[i - Len(s)].n>> ELSE <<>>
      BY <3>1 DEF Each
    <3> QED
      BY <2>1, <3>1, <3>2
  <2> QED
    BY <2>2, <2>3
<1>5. Each(s \o t) = u
  BY <1>2, <1>3, <1>4, SeqEqual
<1>6. FlattenSeq(u) = FlattenSeq(Each(s)) \o FlattenSeq(Each(t))
  BY <1>2, FlattenConcat DEF u
<1> QED
  BY <1>1, <1>5, <1>6, PlacesAre

LEMMA PlacesOne ==
  ASSUME NEW x \in Characters
  PROVE  <<x>> \in Line /\ Places(<<x>>) = IF x.c \in VisibleKinds THEN <<x.n>> ELSE <<>>
<1> DEFINE e == IF x.c \in VisibleKinds THEN <<x.n>> ELSE <<>>
<1>1. <<x>> \in Line /\ x.n \in Nat
  BY DEF Line, Characters
<1>2. e \in Seq(Nat)
  BY <1>1
<1>3. Each(<<x>>) = <<e>>
  BY DEF Each
<1> HIDE DEF e
<1>4. FlattenSeq(<<e>>) = e
  BY <1>2, FlattenOne
<1> QED
  BY <1>1, <1>3, <1>4, PlacesAre DEF e

\* What is a text and reads the same has the same places.
LEMMA PlacesSame ==
  ASSUME NEW s \in Line, NEW t \in Line, Len(s) = Len(t),
         \A i \in 1 .. Len(s) : s[i].c = t[i].c /\ s[i].n = t[i].n
  PROVE  Places(s) = Places(t)
<1>1. DOMAIN s = 1 .. Len(s) /\ DOMAIN t = 1 .. Len(s)
  BY DEF Line
<1>2. Each(s) = Each(t)
  BY <1>1 DEF Each
<1> QED
  BY <1>2, PlacesAre

LEMMA PlacesPrefix ==
  ASSUME NEW t \in Line, NEW k \in 1 .. Len(t)
  PROVE  /\ SubSeq(t, 1, k) \in Line /\ SubSeq(t, 1, k - 1) \in Line /\ t[k] \in Characters
         /\ SubSeq(t, 1, k) = SubSeq(t, 1, k - 1) \o <<t[k]>>
         /\ Places(SubSeq(t, 1, k)) = Places(SubSeq(t, 1, k - 1)) \o Places(<<t[k]>>)
<1>1. Len(t) \in Nat /\ t[k] \in Characters /\ 1 \in 1 .. Len(t) /\ k \in 1 .. Len(t)
  BY DEF Line
<1>2. SubSeq(t, 1, k) = SubSeq(t, 1, k - 1) \o <<t[k]>>
  BY <1>1, SubSeqRecursiveSecond DEF Line
<1>3. SubSeq(t, 1, k - 1) \in Line /\ SubSeq(t, 1, k) \in Line
  BY <1>1, SubSeqProperties DEF Line
<1>4. <<t[k]>> \in Line
  BY <1>1, PlacesOne
<1> QED
  BY <1>1, <1>2, <1>3, <1>4, PlacesConcat

LEMMA PlacesHidden ==
  ASSUME NEW t \in Line, Hidden(t) PROVE Places(t) = <<>>
<1> DEFINE n == Len(t)
           P == [k \in 0 .. n |-> Places(SubSeq(t, 1, k)) = <<>>]
<1>1. n \in Nat /\ DOMAIN t = 1 .. n /\ 0 \in 0 .. n /\ n \in 0 .. n
  BY DEF Line
<1>2. P[0]
  <2>1. SubSeq(t, 1, 0) = <<>>
    BY SubSeqEmpty
  <2> QED
    BY <1>1, <2>1, PlacesEmpty
<1>3. ASSUME NEW k \in 1 .. n, P[k - 1] PROVE P[k]
  <2>1. k - 1 \in 0 .. n /\ k \in 0 .. n
    BY <1>1
  <2>2. Places(SubSeq(t, 1, k - 1)) = <<>>
    BY <1>3, <2>1
  <2>3. Places(<<t[k]>>) = <<>>
    BY <1>1, PlacesPrefix, PlacesOne DEF Hidden
  <2>4. Places(SubSeq(t, 1, k)) = <<>> \o <<>>
    BY <2>2, <2>3, PlacesPrefix
  <2>5. <<>> \o <<>> = <<>>
    BY EmptySeq, ConcatEmptySeq
  <2> QED
    BY <2>1, <2>4, <2>5
<1>4. \A k \in 0 .. n : P[k]
  <2> HIDE DEF P, n
  <2> QED
    BY <1>1, <1>2, <1>3, CountUp
<1>5. SubSeq(t, 1, n) = t
  BY SubSeqFull DEF Line
<1> QED
  BY <1>1, <1>4, <1>5
Lines(ss) == [i \in DOMAIN ss |-> Places(ss[i])]

LEMMA LinesType ==
  ASSUME NEW ss \in Seq(Line)
  PROVE  Lines(ss) \in Seq(Seq(Nat)) /\ Len(Lines(ss)) = Len(ss)
<1>1. DOMAIN ss = 1 .. Len(ss) /\ Len(ss) \in Nat /\ \A i \in 1 .. Len(ss) : ss[i] \in Line
  OBVIOUS
<1>2. \A i \in 1 .. Len(ss) : Places(ss[i]) \in Seq(Nat)
  BY <1>1, PlacesType
<1>3. Lines(ss) = [i \in 1 .. Len(ss) |-> Places(ss[i])]
  BY <1>1 DEF Lines
<1> QED
  BY <1>1, <1>2, <1>3

LEMMA LinesAppend ==
  ASSUME NEW ss \in Seq(Line), NEW s \in Line
  PROVE  Append(ss, s) \in Seq(Line) /\ Lines(Append(ss, s)) = Append(Lines(ss), Places(s))
<1> DEFINE tt == Append(ss, s)
           u == Append(Lines(ss), Places(s))
           n == Len(ss)
<1>1. /\ tt \in Seq(Line) /\ Len(tt) = n + 1 /\ n \in Nat /\ \A i \in 1 .. n : tt[i] = ss[i]
      /\ tt[n + 1] = s /\ DOMAIN tt = 1 .. n + 1 /\ DOMAIN ss = 1 .. n
  BY AppendProperties
<1>2. Lines(ss) \in Seq(Seq(Nat)) /\ Len(Lines(ss)) = n /\ Places(s) \in Seq(Nat)
  BY LinesType, PlacesType
<1>3. /\ u \in Seq(Seq(Nat)) /\ Len(u) = n + 1 /\ u[n + 1] = Places(s)
      /\ \A i \in 1 .. n : u[i] = Lines(ss)[i]
  <2> HIDE DEF n
  <2> QED
    BY <1>2, AppendProperties
<1>4. Lines(tt) \in Seq(Seq(Nat)) /\ Len(Lines(tt)) = n + 1
  <2> HIDE DEF tt
  <2> QED
    BY <1>1, LinesType
<1>5. ASSUME NEW i \in 1 .. n + 1 PROVE Lines(tt)[i] = u[i]
  <2>1. Lines(tt)[i] = Places(tt[i])
    BY <1>1 DEF Lines
  <2>2. CASE i = n + 1
    BY <2>1, <2>2, <1>1, <1>3
  <2>3. CASE i # n + 1
    <3>1. i \in 1 .. n
      BY <2>3, <1>1
    <3>2. Lines(ss)[i] = Places(ss[i])
      BY <1>1, <3>1 DEF Lines
    <3> QED
      BY <2>1, <3>1, <3>2, <1>1, <1>3
  <2> QED
    BY <2>2, <2>3
<1>6. Lines(tt) = u
  <2> HIDE DEF u, tt, n
  <2> QED
    BY <1>3, <1>4, <1>5, SeqEqual
<1> QED
  BY <1>1, <1>6

LEMMA PlacesFlatten ==
  ASSUME NEW ss \in Seq(Line)
  PROVE  FlattenSeq(ss) \in Line /\ Places(FlattenSeq(ss)) = FlattenSeq(Lines(ss))
<1> DEFINE n == Len(ss)
           pre(k) == SubSeq(ss, 1, k)
           P == [k \in 0 .. n |-> Places(FlattenSeq(pre(k))) = FlattenSeq(Lines(pre(k)))]
<1>1. n \in Nat /\ FlattenSeq(ss) \in Line
  BY FlattenType DEF Line
<1>2. P[0]
  <2>1. pre(0) = <<>> /\ 0 \in 0 .. n
    BY SubSeqEmpty, <1>1
  <2>2. Lines(<<>>) = <<>>
    BY DEF Lines
  <2>3. Places(FlattenSeq(<<>>)) = FlattenSeq(Lines(<<>>))
    BY <2>2, FlattenEmpty, PlacesEmpty
  <2> HIDE DEF pre
  <2> QED
    BY <2>1, <2>3
<1>3. ASSUME NEW k \in 1 .. n, P[k - 1] PROVE P[k]
  <2>1. k - 1 \in 0 .. n /\ k \in 0 .. n
    BY <1>1
  <2>2. pre(k) = Append(pre(k - 1), ss[k]) /\ pre(k - 1) \in Seq(Line) /\ ss[k] \in Line
    <3>1. SubSeq(ss, 1, k) = Append(SubSeq(ss, 1, k - 1), ss[k])
      BY SubSeqRecursiveSecond, <1>1
    <3>2. SubSeq(ss, 1, k - 1) \in Seq(Line)
      BY <2>1, SubSeqProperties, <1>1
    <3> QED
      BY <3>1, <3>2
  <2> HIDE DEF pre
  <2>3. FlattenSeq(pre(k)) = FlattenSeq(pre(k - 1)) \o ss[k] /\ FlattenSeq(pre(k - 1)) \in Line
    BY <2>2, FlattenAppend, FlattenType DEF Line
  <2>4. Places(FlattenSeq(pre(k))) = Places(FlattenSeq(pre(k - 1))) \o Places(ss[k])
    BY <2>2, <2>3, PlacesConcat
  <2>5. Lines(pre(k)) = Append(Lines(pre(k - 1)), Places(ss[k])) /\ Lines(pre(k - 1)) \in Seq(Seq(Nat)) /\ Places(ss[k]) \in Seq(Nat)
    BY <2>2, LinesAppend, LinesType, PlacesType
  <2>6. FlattenSeq(Lines(pre(k))) = FlattenSeq(Lines(pre(k - 1))) \o Places(ss[k])
    BY <2>5, FlattenAppend
  <2>7. Places(FlattenSeq(pre(k - 1))) = FlattenSeq(Lines(pre(k - 1)))
    BY <1>3, <2>1
  <2> QED
    BY <2>1, <2>4, <2>6, <2>7
<1>4. \A k \in 0 .. n : P[k]
  <2> HIDE DEF P, n
  <2> QED
    BY <1>1, <1>2, <1>3, CountUp
<1>5. pre(n) = ss /\ n \in 0 .. n
  BY SubSeqFull, <1>1
<1> HIDE DEF pre, n
<1> QED
  BY <1>1, <1>4, <1>5

LEMMA HiddenConcat ==
  ASSUME NEW s \in Line, NEW t \in Line, Hidden(s), Hidden(t)
  PROVE  Hidden(s \o t)
<1>1. /\ DOMAIN (s \o t) = 1 .. Len(s) + Len(t) /\ Len(s) \in Nat /\ Len(t) \in Nat
      /\ DOMAIN s = 1 .. Len(s) /\ DOMAIN t = 1 .. Len(t)
      /\ \A i \in 1 .. Len(s) + Len(t) : (s \o t)[i] = IF i <= Len(s) THEN s[i] ELSE t[i - Len(s)]
  BY DEF Line
<1>2. ASSUME NEW i \in 1 .. Len(s) + Len(t) PROVE (s \o t)[i].c \notin VisibleKinds
  <2>1. CASE i <= Len(s)
    BY <1>1, <2>1 DEF Hidden
  <2>2. CASE ~(i <= Len(s))
    <3>1. i - Len(s) \in DOMAIN t
      BY <1>1, <2>2
    <3> QED
      BY <1>1, <2>2, <3>1 DEF Hidden
  <2> QED
    BY <2>1, <2>2
<1> QED
  BY <1>1, <1>2 DEF Hidden

LEMMA PartOfLine ==
  ASSUME NEW t \in Line, NEW i \in 1 .. Len(t) + 1, NEW j \in 0 .. Len(t)
  PROVE  /\ SubSeq(t, i, j) \in Line /\ Len(SubSeq(t, i, j)) = (IF i <= j THEN j - i + 1 ELSE 0)
         /\ \A k \in 1 .. j - i + 1 : SubSeq(t, i, j)[k] = t[i + k - 1]
<1>1. Len(t) \in Nat /\ \A k \in i .. j : t[k] \in Characters
  BY DEF Line
<1> QED
  BY <1>1, SubSeqProperties DEF Line

\* What was read up to k and what comes next.
LEMMA PlacesNext ==
  ASSUME NEW t \in Line, NEW i \in 1 .. Len(t) + 1, NEW j \in i - 1 .. Len(t)
  PROVE  Places(SubSeq(t, 1, j)) = Places(SubSeq(t, 1, i - 1)) \o Places(SubSeq(t, i, j))
<1>1. Len(t) \in Nat /\ 1 \in 1 .. Len(t) + 1 /\ i - 1 \in 1 - 1 .. Len(t) /\ i - 1 \in 0 .. Len(t)
      /\ j \in i - 1 .. Len(t) /\ j \in 0 .. Len(t) /\ (i - 1) + 1 = i
  BY DEF Line
<1>2. SubSeq(t, 1, i - 1) \o SubSeq(t, (i - 1) + 1, j) = SubSeq(t, 1, j)
  BY <1>1, ConcatAdjacentSubSeq DEF Line
<1>3. SubSeq(t, 1, i - 1) \in Line /\ SubSeq(t, i, j) \in Line
  BY <1>1, PartOfLine
<1>4. SubSeq(t, 1, j) = SubSeq(t, 1, i - 1) \o SubSeq(t, i, j)
  BY <1>1, <1>2
<1>5. Places(SubSeq(t, 1, i - 1) \o SubSeq(t, i, j)) = Places(SubSeq(t, 1, i - 1)) \o Places(SubSeq(t, i, j))
  BY <1>3, PlacesConcat
<1> QED
  BY <1>4, <1>5

-----------------------------------------------------------------------------
(* One element of a sequence is replaced.                                    *)

LEMMA Replaced ==
  ASSUME NEW S, NEW ps \in Seq(S), NEW k \in 1 .. Len(ps), NEW r \in S
  PROVE  /\ [ps EXCEPT ![k] = r] \in Seq(S) /\ Len([ps EXCEPT ![k] = r]) = Len(ps)
         /\ \A i \in 1 .. Len(ps) : [ps EXCEPT ![k] = r][i] = IF i = k THEN r ELSE ps[i]
  OBVIOUS

LEMMA FrontAndLast ==
  ASSUME NEW S, NEW ps \in Seq(S), ps # <<>>
  PROVE  /\ SubSeq(ps, 1, Len(ps) - 1) \in Seq(S) /\ Len(SubSeq(ps, 1, Len(ps) - 1)) = Len(ps) - 1
         /\ \A i \in 1 .. Len(ps) - 1 : SubSeq(ps, 1, Len(ps) - 1)[i] = ps[i]
         /\ Len(ps) \in Nat /\ Len(ps) >= 1 /\ Len(ps) - 1 \in Nat
<1>1. Len(ps) \in Nat /\ Len(ps) >= 1 /\ Len(ps) - 1 \in Nat /\ \A i \in 1 .. Len(ps) : ps[i] \in S
  OBVIOUS
<1> DEFINE k == Len(ps) - 1
<1>2. k \in Nat /\ \A i \in 1 .. k : ps[i] \in S
  BY <1>1
<1> HIDE DEF k
<1>3. /\ SubSeq(ps, 1, k) \in Seq(S) /\ Len(SubSeq(ps, 1, k)) = IF 1 <= k THEN k - 1 + 1 ELSE 0
      /\ \A i \in 1 .. k - 1 + 1 : SubSeq(ps, 1, k)[i] = ps[1 + i - 1]
  BY <1>2, SubSeqProperties
<1>4. \A i \in 1 .. k : i \in 1 .. k - 1 + 1 /\ 1 + i - 1 = i
  BY <1>2
<1>5. Len(SubSeq(ps, 1, k)) = k /\ \A i \in 1 .. k : SubSeq(ps, 1, k)[i] = ps[i]
  BY <1>2, <1>3, <1>4
<1> QED
  BY <1>1, <1>3, <1>5 DEF k

LEMMA ReplacedLast ==
  ASSUME NEW S, NEW ps \in Seq(S), ps # <<>>, NEW r \in S
  PROVE  [ps EXCEPT ![Len(ps)] = r] = Append(SubSeq(ps, 1, Len(ps) - 1), r)
<1> DEFINE n == Len(ps)
           front == SubSeq(ps, 1, n - 1)
           qs == [ps EXCEPT ![n] = r]
           u == Append(front, r)
<1>1. n \in Nat /\ n >= 1 /\ front \in Seq(S) /\ Len(front) = n - 1 /\ \A i \in 1 .. n - 1 : front[i] = ps[i]
  BY FrontAndLast
<1>2. qs \in Seq(S) /\ Len(qs) = n /\ \A i \in 1 .. n : qs[i] = IF i = n THEN r ELSE ps[i]
  <2>1. n \in 1 .. n
    BY <1>1
  <2> QED
    BY <2>1, Replaced
<1>3. u \in Seq(S) /\ Len(u) = n /\ u[n] = r /\ \A i \in 1 .. n - 1 : u[i] = front[i]
  <2> HIDE DEF front, n
  <2> QED
    BY <1>1, AppendProperties
<1>4. ASSUME NEW i \in 1 .. n PROVE qs[i] = u[i]
  <2> HIDE DEF front, qs, u, n
  <2>1. CASE i = n
    BY <2>1, <1>2, <1>3
  <2>2. CASE i # n
    <3>1. i \in 1 .. n - 1
      BY <2>2, <1>1
    <3> QED
      BY <3>1, <2>2, <1>1, <1>2, <1>3
  <2> QED
    BY <2>1, <2>2
<1>5. qs = u
  <2> HIDE DEF front, qs, u, n
  <2> QED
    BY <1>2, <1>3, <1>4, SeqEqual
<1> QED
  BY <1>5

LEMMA WithLast ==
  ASSUME NEW S, NEW ps \in Seq(S), ps # <<>>
  PROVE  ps = Append(SubSeq(ps, 1, Len(ps) - 1), ps[Len(ps)])
<1>1. ps[Len(ps)] \in S
  OBVIOUS
<1>2. [ps EXCEPT ![Len(ps)] = ps[Len(ps)]] = ps
  OBVIOUS
<1> QED
  BY <1>1, <1>2, ReplacedLast

-----------------------------------------------------------------------------
(* The renderer's pieces and what is visible of them.                        *)

MarkKinds == Kinds \cup {"J", ""}
PieceSet  == {p \in [kind : {"text", "opaque", "mark"}, chars : Line, m : MarkKinds, cand : BOOLEAN, pair : Nat,
                     s : {"none", "open", "close"}] :
                /\ p.kind = "mark" => p.chars # <<>> /\ Hidden(p.chars)
                /\ p.kind # "mark" => p.pair = 0}
Parts(ps) == [i \in DOMAIN ps |-> Places(ps[i].chars)]
Shown(ps) == FlattenSeq(Parts(ps))

LEMMA PartsType ==
  ASSUME NEW ps \in Seq(PieceSet)
  PROVE  /\ Parts(ps) \in Seq(Seq(Nat)) /\ Len(Parts(ps)) = Len(ps) /\ Len(ps) \in Nat
         /\ DOMAIN ps = 1 .. Len(ps) /\ \A i \in 1 .. Len(ps) : ps[i] \in PieceSet /\ Parts(ps)[i] = Places(ps[i].chars)
<1>1. DOMAIN ps = 1 .. Len(ps) /\ Len(ps) \in Nat /\ \A i \in 1 .. Len(ps) : ps[i] \in PieceSet
  OBVIOUS
<1>2. \A i \in 1 .. Len(ps) : ps[i].chars \in Line
  BY <1>1 DEF PieceSet
<1>3. \A i \in 1 .. Len(ps) : Places(ps[i].chars) \in Seq(Nat)
  BY <1>2, PlacesType
<1>4. Parts(ps) = [i \in 1 .. Len(ps) |-> Places(ps[i].chars)]
  BY <1>1 DEF Parts
<1> QED
  BY <1>1, <1>3, <1>4

LEMMA ShownType == ASSUME NEW ps \in Seq(PieceSet) PROVE Shown(ps) \in Seq(Nat)
  BY PartsType, FlattenType DEF Shown

LEMMA ShownAppend ==
  ASSUME NEW ps \in Seq(PieceSet), NEW p \in PieceSet
  PROVE  Append(ps, p) \in Seq(PieceSet) /\ Shown(Append(ps, p)) = Shown(ps) \o Places(p.chars)
<1> DEFINE qs == Append(ps, p)
           n == Len(ps)
           u == Append(Parts(ps), Places(p.chars))
<1>1. /\ qs \in Seq(PieceSet) /\ Len(qs) = n + 1 /\ n \in Nat /\ \A i \in 1 .. n : qs[i] = ps[i]
      /\ qs[n + 1] = p
  BY AppendProperties
<1>2. Parts(ps) \in Seq(Seq(Nat)) /\ Len(Parts(ps)) = n /\ Places(p.chars) \in Seq(Nat)
      /\ \A i \in 1 .. n : Parts(ps)[i] = Places(ps[i].chars)
  BY PartsType, PlacesType DEF PieceSet
<1>3. /\ Parts(qs) \in Seq(Seq(Nat)) /\ Len(Parts(qs)) = n + 1
      /\ \A i \in 1 .. n + 1 : Parts(qs)[i] = Places(qs[i].chars)
  <2> HIDE DEF qs
  <2> QED
    BY <1>1, PartsType
<1>4. /\ u \in Seq(Seq(Nat)) /\ Len(u) = n + 1 /\ u[n + 1] = Places(p.chars)
      /\ \A i \in 1 .. n : u[i] = Parts(ps)[i]
  <2> HIDE DEF n
  <2> QED
    BY <1>2, AppendProperties
<1>5. ASSUME NEW i \in 1 .. n + 1 PROVE Parts(qs)[i] = u[i]
  <2> HIDE DEF qs, u
  <2>1. CASE i = n + 1
    BY <2>1, <1>1, <1>3, <1>4
  <2>2. CASE i # n + 1
    <3>1. i \in 1 .. n
      BY <2>2, <1>1
    <3> QED
      BY <3>1, <1>1, <1>2, <1>3, <1>4
  <2> QED
    BY <2>1, <2>2
<1>6. Parts(qs) = u
  <2> HIDE DEF qs, u, n
  <2> QED
    BY <1>3, <1>4, <1>5, SeqEqual
<1>7. FlattenSeq(u) = FlattenSeq(Parts(ps)) \o Places(p.chars)
  BY <1>2, FlattenAppend
<1> QED
  BY <1>1, <1>6, <1>7 DEF Shown

LEMMA ShownSame ==
  ASSUME NEW ps \in Seq(PieceSet), NEW qs \in Seq(PieceSet), Len(ps) = Len(qs),
         \A i \in 1 .. Len(ps) : Places(ps[i].chars) = Places(qs[i].chars)
  PROVE  Shown(ps) = Shown(qs)
<1>1. DOMAIN ps = DOMAIN qs /\ DOMAIN ps = 1 .. Len(ps)
  BY PartsType
<1>2. Parts(ps) = Parts(qs)
  BY <1>1 DEF Parts
<1> QED
  BY <1>2 DEF Shown

LEMMA ShownHiddenAppend ==
  ASSUME NEW ps \in Seq(PieceSet), NEW p \in PieceSet, Hidden(p.chars)
  PROVE  Shown(Append(ps, p)) = Shown(ps)
<1>1. Places(p.chars) = <<>>
  BY PlacesHidden DEF PieceSet
<1>2. Shown(ps) \o <<>> = Shown(ps)
  BY ShownType, ConcatEmptySeq
<1> QED
  BY <1>1, <1>2, ShownAppend

LEMMA TextGood ==
  ASSUME NEW cs \in Line
  PROVE  Text(cs) \in PieceSet /\ Opaque(cs) \in PieceSet /\ Text(cs).chars = cs /\ Opaque(cs).chars = cs
  BY DEF Text, Opaque, Piece, PieceSet, MarkKinds

LEMMA DelimiterGood ==
  ASSUME NEW cs \in Line, cs # <<>>, Hidden(cs), NEW cand \in BOOLEAN
  PROVE  Delimiter(cs, cand) \in PieceSet /\ Delimiter(cs, cand).chars = cs /\ Delimiter(cs, cand).kind = "mark"
<1>1. 1 \in 1 .. Len(cs) /\ cs[1] \in Characters
  BY DEF Line
<1>2. cs[1].c \in MarkKinds
  BY <1>1 DEF Characters, MarkKinds
<1> QED
  BY <1>2 DEF Delimiter, PieceSet

LEMMA AddTextKeeps ==
  ASSUME NEW ps \in Seq(PieceSet), NEW cs \in Line
  PROVE  /\ AddText(ps, cs) \in Seq(PieceSet) /\ Len(AddText(ps, cs)) >= Len(ps)
         /\ \A i \in 1 .. Len(ps) : ps[i].kind = "mark" => AddText(ps, cs)[i] = ps[i]
         /\ Shown(AddText(ps, cs)) = Shown(ps) \o Places(cs)
<1> DEFINE n == Len(ps)
<1>0. n \in Nat /\ \A i \in 1 .. n : ps[i] \in PieceSet
  OBVIOUS
<1>1. CASE ps # <<>> /\ Last(ps).kind = "text"
  <2> DEFINE q == [ps[n] EXCEPT !.chars = @ \o cs]
             qs == [ps EXCEPT ![n] = q]
             front == SubSeq(ps, 1, n - 1)
  <2>1. n \in 1 .. n /\ ps[n].kind = "text" /\ AddText(ps, cs) = qs
    BY <1>1, <1>0 DEF AddText, Last
  <2>2. ps[n] \in PieceSet /\ ps[n].chars \in Line
    BY <2>1, <1>0 DEF PieceSet
  <2>3. q \in PieceSet /\ q.chars = ps[n].chars \o cs
    <3>1. ps[n].chars \o cs \in Line
      BY <2>2, PlacesConcat
    <3> QED
      BY <2>1, <2>2, <3>1 DEF PieceSet
  <2> HIDE DEF q
  <2>4. qs \in Seq(PieceSet) /\ Len(qs) = n /\ \A i \in 1 .. n : qs[i] = IF i = n THEN q ELSE ps[i]
    BY <2>1, <2>3, Replaced
  <2>5. front \in Seq(PieceSet) /\ ps = Append(front, ps[n]) /\ qs = Append(front, q)
    BY <1>1, <2>3, FrontAndLast, WithLast, ReplacedLast
  <2>7. Shown(qs) = Shown(ps) \o Places(cs)
    <3> HIDE DEF front, qs
    <3>1. Shown(qs) = Shown(front) \o Places(q.chars)
      BY <2>3, <2>5, ShownAppend
    <3>2. Places(q.chars) = Places(ps[n].chars) \o Places(cs)
      BY <2>2, <2>3, PlacesConcat
    <3>3. Shown(ps) = Shown(front) \o Places(ps[n].chars)
      BY <2>2, <2>5, ShownAppend
    <3> DEFINE a == Shown(front)
               b == Places(ps[n].chars)
               c == Places(cs)
    <3>4. a \in Seq(Nat) /\ b \in Seq(Nat) /\ c \in Seq(Nat)
      BY <2>5, <2>2, ShownType, PlacesType
    <3>5. Shown(qs) = a \o (b \o c) /\ Shown(ps) = a \o b
      BY <3>1, <3>2, <3>3
    <3> HIDE DEF a, b, c
    <3>6. a \o (b \o c) = (a \o b) \o c
      BY ONLY <3>4, Regrouped
    <3>7. Shown(qs) = Shown(ps) \o c
      BY ONLY <3>5, <3>6, Zenon
    <3> QED
      BY <3>7 DEF c
  <2>8. ASSUME NEW i \in 1 .. n, ps[i].kind = "mark" PROVE qs[i] = ps[i]
    BY <2>8, <2>1, <2>4
  <2> HIDE DEF qs
  <2> QED
    BY <2>1, <2>4, <2>7, <2>8, <1>0
<1>2. CASE ~(ps # <<>> /\ Last(ps).kind = "text")
  <2> DEFINE p == Text(cs)
             qs == Append(ps, p)
  <2>1. AddText(ps, cs) = qs
    BY <1>2 DEF AddText
  <2>2. p \in PieceSet /\ p.chars = cs
    BY TextGood
  <2> HIDE DEF p
  <2>3. qs \in Seq(PieceSet) /\ Shown(qs) = Shown(ps) \o Places(cs)
    BY <2>2, ShownAppend
  <2>4. Len(qs) = n + 1 /\ \A i \in 1 .. n : qs[i] = ps[i]
    BY <2>2, AppendProperties
  <2> HIDE DEF qs
  <2> QED
    BY <2>1, <2>3, <2>4, <1>0
<1> QED
  BY <1>1, <1>2

LEMMA GreatestExists ==
  ASSUME NEW m \in Nat, NEW S, S \subseteq 0 .. m, S # {}
  PROVE  \E x \in S : \A y \in S : y <= x
<1> DEFINE T == {m - x : x \in S}
<1>0. \A x \in S : x \in Nat /\ m - x \in Nat
  <2>1. \A x \in S : x \in 0 .. m
    OBVIOUS
  <2>2. \A x \in 0 .. m : x \in Nat /\ m - x \in Nat
    OBVIOUS
  <2> QED
    BY <2>1, <2>2
<1>1. T \subseteq Nat /\ T # {}
  BY <1>0
<1>2. PICK z \in T : \A y \in T : z <= y
  <2> HIDE DEF T
  <2> QED
    BY <1>1, LeastExists
<1>3. PICK x \in S : z = m - x
  BY <1>2
<1>4. ASSUME NEW y \in S PROVE y <= x
  <2>1. m - y \in T /\ y \in Nat /\ x \in Nat
    BY <1>0
  <2>2. m - x <= m - y
    BY <2>1, <1>2, <1>3
  <2> QED
    BY <2>1, <2>2
<1> QED
  BY <1>4

LEMMA PlacesHiddenRight ==
  ASSUME NEW s \in Line, NEW t \in Line, Hidden(t)
  PROVE  s \o t \in Line /\ Places(s \o t) = Places(s)
<1>1. Places(t) = <<>> /\ Places(s) \in Seq(Nat)
  BY PlacesHidden, PlacesType
<1>2. Places(s) \o <<>> = Places(s)
  BY <1>1, ConcatEmptySeq
<1> QED
  BY <1>1, <1>2, PlacesConcat

LEMMA PlacesHiddenLeft ==
  ASSUME NEW s \in Line, NEW t \in Line, Hidden(s)
  PROVE  s \o t \in Line /\ Places(s \o t) = Places(t)
<1>1. Places(s) = <<>> /\ Places(t) \in Seq(Nat)
  BY PlacesHidden, PlacesType
<1>2. <<>> \o Places(t) = Places(t)
  BY <1>1, ConcatEmptySeq
<1> QED
  BY <1>1, <1>2, PlacesConcat

LEMMA EscapedKeeps ==
  ASSUME NEW cs \in Line
  PROVE  Escaped(cs) \in Line /\ Places(Escaped(cs)) = Places(cs)
<1> DEFINE n == Len(cs)
           e(i) == IF cs[i].c \in Styles \cup {"tick"} THEN <<cs[i], Joiner>> ELSE <<cs[i]>>
           ss == [i \in DOMAIN cs |-> e(i)]
<1>1. n \in Nat /\ DOMAIN cs = 1 .. n /\ \A i \in 1 .. n : cs[i] \in Characters
  BY DEF Line
<1>2. Joiner \in Characters /\ Joiner.c \notin VisibleKinds
  BY DEF Joiner, Characters, VisibleKinds
<1>3. ASSUME NEW i \in 1 .. n
      PROVE  e(i) \in Line /\ Places(e(i)) = IF cs[i].c \in VisibleKinds THEN <<cs[i].n>> ELSE <<>>
  <2>0. cs[i] \in Characters
    BY <1>1
  <2>1. <<cs[i]>> \in Line /\ Places(<<cs[i]>>) = IF cs[i].c \in VisibleKinds THEN <<cs[i].n>> ELSE <<>>
    BY <2>0, PlacesOne
  <2>2. <<Joiner>> \in Line /\ Hidden(<<Joiner>>)
    BY <1>2 DEF Line, Hidden
  <2>3. <<cs[i], Joiner>> = <<cs[i]>> \o <<Joiner>>
    OBVIOUS
  <2>4. <<cs[i]>> \o <<Joiner>> \in Line /\ Places(<<cs[i]>> \o <<Joiner>>) = Places(<<cs[i]>>)
    BY <2>1, <2>2, PlacesHiddenRight
  <2> QED
    BY <2>1, <2>3, <2>4
<1>4. Escaped(cs) = FlattenSeq(ss)
  BY DEF Escaped
<1> HIDE DEF e
<1>5. ss \in Seq(Line) /\ DOMAIN ss = 1 .. n
  <2>1. ss = [i \in 1 .. n |-> e(i)]
    BY <1>1
  <2> HIDE DEF ss, n
  <2> QED
    BY <1>1, <1>3, <2>1
<1>6. Lines(ss) = Each(cs)
  BY <1>1, <1>3, <1>5 DEF Lines, Each
<1> HIDE DEF ss
<1> QED
  BY <1>4, <1>5, <1>6, PlacesFlatten, PlacesAre

Blank == " "
LEMMA KindFacts ==
  /\ Blank \notin VisibleKinds /\ "J" \notin VisibleKinds /\ "tick" \notin VisibleKinds
  /\ \A c \in Styles : c \notin VisibleKinds /\ c \in Kinds
  /\ \A c \in Kinds \cup {"J"} : c \in MarkKinds
  /\ "tick" \in Kinds /\ "tick" \notin Styles
  BY DEF Blank, VisibleKinds, Styles, Kinds, MarkKinds

\* Marks that are all alike.
LEMMA MarksHidden ==
  ASSUME NEW k \in Nat, NEW c \in Styles \cup {"tick"}, NEW n \in Nat, NEW s \in {"none", "open", "close"}
  PROVE  [i \in 1 .. k |-> Mark(c, n, s)] \in Line /\ Hidden([i \in 1 .. k |-> Mark(c, n, s)])
<1>1. Mark(c, n, s) \in Characters /\ Mark(c, n, s).c \notin VisibleKinds
  BY DEF Mark, Characters, Kinds, Styles, VisibleKinds
<1> QED
  BY <1>1 DEF Line, Hidden

LEMMA CodeTokenKeeps ==
  ASSUME NEW cs \in Line, NEW from \in Nat, NEW to \in Nat
  PROVE  CodeToken(cs, from, to) \in Line /\ Places(CodeToken(cs, from, to)) = Places(cs)
<1> DEFINE n == Len(cs)
           trims == /\ Len(cs) >= 2 /\ cs[1].c = " " /\ Last(cs).c = " "
                    /\ \E i \in DOMAIN cs : cs[i].c # " "
           body  == IF trims THEN SubSeq(cs, 2, Len(cs) - 1) ELSE cs
           fence(m, s) == [k \in 1..(IF \E i \in DOMAIN body : body[i].c = "tick" THEN 3 ELSE 1) |-> Mark("tick", m, s)]
           fenced == \E i \in DOMAIN body : {KindAt(body, i), KindAt(body, i + 1), KindAt(body, i + 2)} = {"tick"}
<1>1. CodeToken(cs, from, to) = IF fenced THEN Escaped(body) ELSE fence(from, "open") \o body \o fence(to, "close")
  BY DEF CodeToken
<1>2. body \in Line /\ Places(body) = Places(cs)
  <2>1. CASE trims
    <3>0. n >= 2 /\ n \in Nat /\ cs[1].c = Blank /\ cs[n].c = Blank /\ \A i \in 1 .. n : cs[i] \in Characters
      <4>1. cs[1].c = Blank /\ cs[n].c = Blank /\ n >= 2
        BY <2>1 DEF Last, Blank
      <4> HIDE DEF trims
      <4> QED
        BY <4>1 DEF Line
    <3>1. /\ n \in 1 .. n /\ 1 \in 1 .. n /\ 2 \in 1 .. n + 1 /\ n - 1 \in 2 - 1 .. n
          /\ n - 1 \in 0 .. n /\ 1 \in 1 .. n + 1 /\ 2 - 1 = 1 /\ 1 - 1 = 0
      <4> HIDE DEF n
      <4> QED
        BY <3>0
    <3>2. SubSeq(cs, 2, n - 1) \in Line /\ SubSeq(cs, 1, n - 1) \in Line
      <4> HIDE DEF trims
      <4> QED
        BY <3>1, PartOfLine
    <3>3. SubSeq(cs, 1, 2 - 1) = <<cs[1]>>
      <4>1. SubSeq(cs, 1, 1) = SubSeq(cs, 1, 1 - 1) \o <<cs[1]>>
        BY <3>1, PlacesPrefix
      <4>2. SubSeq(cs, 1, 1 - 1) = <<>>
        BY <3>1, SubSeqEmpty
      <4>3. <<>> \o <<cs[1]>> = <<cs[1]>>
        OBVIOUS
      <4> QED
        BY <3>1, <4>1, <4>2, <4>3
    <3>4. Hidden(<<cs[1]>>) /\ <<cs[1]>> \in Line /\ Hidden(<<cs[n]>>) /\ <<cs[n]>> \in Line
      <4> HIDE DEF n, trims
      <4>1. <<cs[1]>> \in Line /\ <<cs[n]>> \in Line
        BY <3>0, <3>1 DEF Line
      <4>2. Blank \notin VisibleKinds
        BY KindFacts
      <4> QED
        BY <3>0, <4>1, <4>2 DEF Hidden
    <3>5. Places(SubSeq(cs, 1, n - 1)) = Places(SubSeq(cs, 1, 2 - 1)) \o Places(SubSeq(cs, 2, n - 1))
      BY <3>1, PlacesNext
    <3>6. Places(<<cs[1]>>) = <<>> /\ Places(<<cs[n]>>) = <<>>
      BY <3>4, PlacesHidden
    <3>7. Places(SubSeq(cs, 1, n - 1)) = Places(SubSeq(cs, 2, n - 1))
      <4> DEFINE p == Places(SubSeq(cs, 2, n - 1))
      <4>1. p \in Seq(Nat)
        BY <3>2, PlacesType
      <4>2. <<>> \o p = p
        <5> HIDE DEF p
        <5> QED
          BY <4>1, ConcatEmptySeq
      <4> QED
        BY <3>3, <3>5, <3>6, <4>2
    <3>8. Places(SubSeq(cs, 1, n)) = Places(SubSeq(cs, 1, n - 1)) \o Places(<<cs[n]>>)
      BY <3>1, PlacesPrefix
    <3>9. SubSeq(cs, 1, n) = cs
      BY SubSeqFull DEF Line
    <3>10. Places(SubSeq(cs, 1, n - 1)) \o <<>> = Places(SubSeq(cs, 1, n - 1))
      <4>1. Places(SubSeq(cs, 1, n - 1)) \in Seq(Nat)
        BY <3>2, PlacesType
      <4> QED
        BY <4>1, ConcatEmptySeq
    <3> QED
      BY <2>1, <3>2, <3>6, <3>7, <3>8, <3>9, <3>10
  <2>2. CASE ~trims
    BY <2>2
  <2> QED
    BY <2>1, <2>2
<1> HIDE DEF body, trims
<1>3. fence(from, "open") \in Line /\ Hidden(fence(from, "open")) /\ fence(to, "close") \in Line /\ Hidden(fence(to, "close"))
  <2> DEFINE k == IF \E i \in DOMAIN body : body[i].c = "tick" THEN 3 ELSE 1
  <2>1. k \in Nat
    OBVIOUS
  <2> HIDE DEF k
  <2>2. /\ [i \in 1 .. k |-> Mark("tick", from, "open")] \in Line /\ Hidden([i \in 1 .. k |-> Mark("tick", from, "open")])
        /\ [i \in 1 .. k |-> Mark("tick", to, "close")] \in Line /\ Hidden([i \in 1 .. k |-> Mark("tick", to, "close")])
    BY <2>1, MarksHidden
  <2> QED
    BY <2>2 DEF k
<1>4. Escaped(body) \in Line /\ Places(Escaped(body)) = Places(body)
  BY <1>2, EscapedKeeps
<1> HIDE DEF fence, fenced
<1>5. fence(from, "open") \o body \in Line /\ Places(fence(from, "open") \o body) = Places(body)
  BY <1>2, <1>3, PlacesHiddenLeft
<1>6. /\ fence(from, "open") \o body \o fence(to, "close") \in Line
      /\ Places(fence(from, "open") \o body \o fence(to, "close")) = Places(fence(from, "open") \o body)
  BY <1>3, <1>5, PlacesHiddenRight
<1> QED
  BY <1>1, <1>2, <1>4, <1>5, <1>6

LEMMA KindsNamed ==
  ASSUME NEW t \in Line, NEW i \in 1 .. Len(t)
  PROVE  /\ Len(t) \in Nat /\ DOMAIN t = 1 .. Len(t) /\ t[i] \in Characters /\ KindAt(t, i) = t[i].c
         /\ t[i].c # "" /\ t[i].c \in MarkKinds /\ KindAt(t, Len(t) + 1) = ""
<1>1. Len(t) \in Nat /\ DOMAIN t = 1 .. Len(t) /\ t[i] \in Characters
  BY DEF Line
<1>2. t[i].c # "" /\ t[i].c \in MarkKinds
  BY <1>1 DEF Characters, Kinds, MarkKinds
<1>3. Len(t) + 1 \notin 1 .. Len(t)
  BY <1>1
<1>4. KindAt(t, i) = t[i].c /\ KindAt(t, Len(t) + 1) = ""
  BY <1>1, <1>3 DEF KindAt
<1> QED
  BY <1>1, <1>2, <1>4

RunFrom(t, i, j) == /\ j \in i .. Len(t) /\ KindAt(t, j + 1) # t[i].c
                    /\ \A k \in i .. j : t[k].c = t[i].c
LEMMA RunEndIs ==
  ASSUME NEW t \in Line, NEW i \in 1 .. Len(t) PROVE RunFrom(t, i, RunEnd(t, i))
<1> DEFINE n == Len(t)
           S == {j \in i .. n : KindAt(t, j + 1) # t[i].c}
<1>0. n \in Nat /\ i \in 1 .. n /\ KindAt(t, n + 1) # t[i].c /\ \A k \in 1 .. n : KindAt(t, k) = t[k].c
  BY KindsNamed
<1> HIDE DEF n
<1>1. n \in S /\ S \subseteq Nat
  BY <1>0
<1>2. PICK j \in S : \A y \in S : j <= y
  <2> HIDE DEF S
  <2> QED
    BY <1>1, LeastExists
<1>3. ASSUME NEW k \in i .. j PROVE t[k].c = t[i].c
  <2>1. CASE k = i
    BY <2>1
  <2>2. CASE k # i
    <3>1. k - 1 \in i .. n /\ ~(j <= k - 1) /\ (k - 1) + 1 = k /\ k \in 1 .. n
      BY <2>2, <1>0
    <3>2. k - 1 \notin S
      BY <3>1, <1>2
    <3> QED
      BY <3>1, <3>2, <1>0
  <2> QED
    BY <2>1, <2>2
<1>4. RunFrom(t, i, j)
  BY <1>2, <1>3 DEF RunFrom, n
<1>5. RunEnd(t, i) = CHOOSE x \in i .. Len(t) : /\ \A k \in i .. x : t[k].c = t[i].c
                                               /\ KindAt(t, x + 1) # t[i].c
  BY DEF RunEnd
<1> QED
  BY <1>4, <1>5 DEF RunFrom

-----------------------------------------------------------------------------
(* Where a URL ends.                                                         *)

LEMMA WordEndIn ==
  ASSUME NEW t \in Line, NEW i \in 1 .. Len(t), t[i].c = "U" PROVE WordEnd(t, i) \in i .. Len(t)
<1> DEFINE n == Len(t)
           Stops == {"", Blank}
           S == {j \in i .. n : KindAt(t, j + 1) \in Stops}
<1>0. n \in Nat /\ i \in 1 .. n /\ \A k \in 1 .. n : KindAt(t, k) = t[k].c
  BY KindsNamed
<1>a. KindAt(t, n + 1) \in Stops /\ Blank \in Stops /\ t[i].c # Blank
  <2>1. KindAt(t, n + 1) \in Stops
    BY KindsNamed
  <2>2. t[i].c # Blank
    BY DEF Blank
  <2> QED
    BY <2>1, <2>2
<1> HIDE DEF n, Stops
<1>1. n \in S /\ S \subseteq Nat
  BY <1>0, <1>a
<1>2. PICK j \in S : \A y \in S : j <= y
  <2> HIDE DEF S
  <2> QED
    BY <1>1, LeastExists
<1>3. ASSUME NEW k \in i .. j PROVE t[k].c # Blank
  <2>1. CASE k = i
    BY <2>1, <1>a
  <2>2. CASE k # i
    <3>1. k - 1 \in i .. n /\ ~(j <= k - 1) /\ (k - 1) + 1 = k /\ k \in 1 .. n
      BY <2>2, <1>0
    <3>2. k - 1 \notin S
      BY <3>1, <1>2
    <3> QED
      BY <3>1, <3>2, <1>0, <1>a
  <2> QED
    BY <2>1, <2>2
<1>4. j \in i .. Len(t) /\ (\A k \in i .. j : t[k].c # Blank) /\ KindAt(t, j + 1) \in Stops
  BY <1>2, <1>3 DEF n
<1>5. WordEnd(t, i) = CHOOSE x \in i .. Len(t) : (\A k \in i .. x : t[k].c # Blank) /\ KindAt(t, x + 1) \in Stops
  BY DEF WordEnd, Stops, Blank
<1> QED
  BY <1>4, <1>5

LEMMA ReverseType ==
  ASSUME NEW S, NEW s \in Seq(S) PROVE Reverse(s) \in Seq(S) /\ Len(Reverse(s)) = Len(s)
<1>1. \A i \in 1 .. Len(s) : (Len(s) - i) + 1 \in 1 .. Len(s)
  OBVIOUS
<1>2. \A i \in 1 .. Len(s) : s[(Len(s) - i) + 1] \in S
  BY <1>1
<1> QED
  BY <1>2 DEF Reverse

LEMMA UrlTailIn ==
  ASSUME NEW M, NEW t \in Line, NEW i \in 1 .. Len(t), t[i].c = "U", NEW open \in Seq(Seq(M))
  PROVE  UrlTail(t, i, open) \in i .. WordEnd(t, i)
<1> DEFINE blank == WordEnd(t, i)
           trim == CHOOSE j \in i .. blank : (\A k \in (j + 1) .. blank : t[k].c = ".") /\ t[j].c # "."
           closer(k) == FlattenSeq(Reverse(Tail2(open, Len(open) - k + 1)))
           fits(k) == /\ Len(closer(k)) <= trim - i
                      /\ \A d \in 1 .. Len(closer(k)) : t[trim - Len(closer(k)) + d].c = closer(k)[d]
           counts == {k \in 1 .. Len(open) : fits(k)}
           best == CHOOSE k \in counts : \A l \in counts : l <= k
<1>1. UrlTail(t, i, open) = IF counts = {} THEN trim ELSE trim - Len(closer(best))
  BY DEF UrlTail
<1>2. i \in Nat /\ blank \in i .. Len(t)
  BY WordEndIn
<1> HIDE DEF blank
<1>3. trim \in i .. blank
  <2> DEFINE S == {j \in i .. blank : t[j].c # "."}
  <2>1. i \in S /\ S \subseteq 0 .. blank /\ blank \in Nat
    BY <1>2
  <2>2. PICK j \in S : \A y \in S : y <= j
    <3> HIDE DEF S
    <3> QED
      BY <2>1, GreatestExists
  <2>3. \A k \in (j + 1) .. blank : t[k].c = "."
    BY <2>2, <1>2
  <2> QED
    BY <2>2, <2>3
<1> HIDE DEF trim
<1>4. ASSUME NEW k \in 1 .. Len(open) PROVE Len(closer(k)) \in Nat
  <2>1. Len(open) \in Nat /\ Len(open) - k + 1 \in 1 .. Len(open)
    OBVIOUS
  <2>2. SubSeq(open, Len(open) - k + 1, Len(open)) \in Seq(Seq(M))
    BY <2>1
  <2>3. Reverse(SubSeq(open, Len(open) - k + 1, Len(open))) \in Seq(Seq(M))
    BY <2>2, ReverseType
  <2>4. closer(k) \in Seq(M)
    BY <2>3, FlattenType DEF Tail2
  <2> QED
    BY <2>4
<1> HIDE DEF closer
<1>5. CASE counts = {}
  <2> HIDE DEF counts, best
  <2> QED
    BY <1>1, <1>3, <1>5 DEF blank
<1>6. CASE counts # {}
  <2>1. counts \subseteq 0 .. Len(open) /\ Len(open) \in Nat
    OBVIOUS
  <2>2. \E k \in counts : \A l \in counts : l <= k
    <3> HIDE DEF counts
    <3> QED
      BY <1>6, <2>1, GreatestExists
  <2>3. best \in counts
    BY <2>2
  <2> HIDE DEF best
  <2>4. Len(closer(best)) \in Nat /\ Len(closer(best)) <= trim - i
    BY <2>3, <1>4
  <2> HIDE DEF counts
  <2>5. trim - Len(closer(best)) \in i .. blank
    BY <1>2, <1>3, <2>4
  <2> QED
    BY <1>1, <1>6, <2>5 DEF blank
<1> QED
  BY <1>5, <1>6

-----------------------------------------------------------------------------
(* What the renderer has read: the letters up to `next` are in its pieces.   *)

Readings   == [pieces : Seq(PieceSet), stack : Seq(Nat), next : Nat, pairs : Nat, left : Line]
StackOk(a) == \A k \in DOMAIN a.stack : a.stack[k] \in 1 .. Len(a.pieces) /\ a.pieces[a.stack[k]].kind = "mark"
Read(t, k) == {a \in Readings : /\ StackOk(a) /\ a.next \in k + 1 .. Len(t) + 1
                                /\ Shown(a.pieces) = Places(SubSeq(t, 1, a.next - 1))}

LEMMA ReadExtend ==
  ASSUME NEW t \in Line, NEW i \in 1 .. Len(t), NEW a \in Readings, StackOk(a), NEW qs \in Seq(PieceSet), Len(qs) >= Len(a.pieces),
         \A k \in 1 .. Len(a.pieces) : a.pieces[k].kind = "mark" => qs[k] = a.pieces[k],
         NEW nx \in i + 1 .. Len(t) + 1, Shown(qs) = Places(SubSeq(t, 1, nx - 1))
  PROVE  [a EXCEPT !.pieces = qs, !.next = nx] \in Read(t, i)
<1> DEFINE b == [a EXCEPT !.pieces = qs, !.next = nx]
<1>0. Len(t) \in Nat /\ nx \in Nat /\ Len(a.pieces) \in Nat /\ Len(qs) \in Nat
  BY DEF Line, Readings
<1>1. b \in Readings /\ b.pieces = qs /\ b.next = nx /\ b.stack = a.stack
  BY <1>0 DEF Readings
<1>2. StackOk(b)
  <2> HIDE DEF b
  <2> SUFFICES ASSUME NEW k \in DOMAIN a.stack
               PROVE  a.stack[k] \in 1 .. Len(qs) /\ qs[a.stack[k]].kind = "mark"
    BY <1>1 DEF StackOk
  <2>1. a.stack[k] \in 1 .. Len(a.pieces) /\ a.pieces[a.stack[k]].kind = "mark"
    BY DEF StackOk
  <2> QED
    BY <2>1, <1>0
<1> QED
  BY <1>1, <1>2 DEF Read

LEMMA PlacesSkip ==
  ASSUME NEW t \in Line, NEW i \in 1 .. Len(t) + 1, NEW j \in i - 1 .. Len(t), Hidden(SubSeq(t, i, j))
  PROVE  Places(SubSeq(t, 1, j)) = Places(SubSeq(t, 1, i - 1))
<1>1. SubSeq(t, i, j) \in Line /\ SubSeq(t, 1, i - 1) \in Line
  <2>1. Len(t) \in Nat
    BY DEF Line
  <2>2. 1 \in 1 .. Len(t) + 1 /\ i - 1 \in 0 .. Len(t) /\ j \in 0 .. Len(t)
    BY <2>1
  <2> QED
    BY <2>2, PartOfLine
<1>2. Places(SubSeq(t, i, j)) = <<>>
  BY <1>1, PlacesHidden
<1>3. Places(SubSeq(t, 1, i - 1)) \o <<>> = Places(SubSeq(t, 1, i - 1))
  BY <1>1, PlacesType, ConcatEmptySeq
<1> QED
  BY <1>2, <1>3, PlacesNext

LEMMA RunHidden ==
  ASSUME NEW t \in Line, NEW i \in 1 .. Len(t), t[i].c \in Styles \cup {"tick"}
  PROVE  /\ RunEnd(t, i) \in i .. Len(t) /\ SubSeq(t, i, RunEnd(t, i)) \in Line /\ Hidden(SubSeq(t, i, RunEnd(t, i)))
         /\ Len(SubSeq(t, i, RunEnd(t, i))) = RunEnd(t, i) - i + 1
         /\ \A k \in i .. RunEnd(t, i) : t[k].c = t[i].c
<1> DEFINE e == RunEnd(t, i)
           s == SubSeq(t, i, e)
<1>1. e \in i .. Len(t) /\ Len(t) \in Nat /\ \A k \in i .. e : t[k].c = t[i].c
  BY RunEndIs DEF RunFrom, Line
<1> HIDE DEF e
<1>2. e \in 0 .. Len(t) /\ i \in 1 .. Len(t) + 1 /\ i <= e
  BY <1>1
<1>3. s \in Line /\ Len(s) = e - i + 1 /\ \A k \in 1 .. e - i + 1 : s[k] = t[i + k - 1]
  BY <1>2, PartOfLine
<1>4. DOMAIN s = 1 .. e - i + 1
  <2> HIDE DEF s
  <2> QED
    BY <1>3 DEF Line
<1>5. ASSUME NEW k \in 1 .. e - i + 1 PROVE s[k].c = t[i].c
  <2>1. i + k - 1 \in i .. e
    BY <1>2
  <2> QED
    BY <2>1, <1>1, <1>3
<1>6. t[i].c \notin VisibleKinds
  BY KindFacts
<1> QED
  BY <1>1, <1>3, <1>4, <1>5, <1>6 DEF Hidden, e

\* The backticks of a text: a run is literal, or code up to its twin.
LEMMA TicksRead ==
  ASSUME NEW t \in Line, NEW i \in 1 .. Len(t), t[i].c = "tick", NEW acc \in Read(t, i - 1), acc.next = i
  PROVE  Ticks(acc, t, i) \in Read(t, i)
<1> DEFINE e == RunEnd(t, i)
           twins == {j \in i .. Len(t) : /\ t[j].c = "tick" /\ (j = i \/ t[j - 1].c # "tick")
                                         /\ RunEnd(t, j) - j = e - i}
           close == CHOOSE j \in twins \ {i} : \A k \in twins \ {i} : j <= k
           n == Len(t)
<1>1. acc \in Readings /\ StackOk(acc) /\ acc.pieces \in Seq(PieceSet) /\ Shown(acc.pieces) = Places(SubSeq(t, 1, i - 1))
  BY DEF Read, Readings
<1>2. n \in Nat /\ e \in i .. n /\ Hidden(SubSeq(t, i, e)) /\ SubSeq(t, i, e) \in Line
      /\ \A k \in i .. e : t[k].c = "tick"
  BY RunHidden DEF Line
<1>3. Ticks(acc, t, i) =
        IF Cardinality(twins) % 2 = 1
        THEN [acc EXCEPT !.pieces = AddText(@, Escaped(SubSeq(t, i, e))), !.next = e + 1]
        ELSE [acc EXCEPT !.pieces = Append(@, Opaque(CodeToken(SubSeq(t, e + 1, close - 1), t[i].n, t[close].n))),
                         !.next = close + (e - i) + 1]
  BY DEF Ticks
<1>a. Places(SubSeq(t, 1, e)) = Places(SubSeq(t, 1, i - 1))
  <2>1. i \in 1 .. n + 1 /\ e \in i - 1 .. n
    BY <1>2
  <2> QED
    BY <2>1, <1>2, PlacesSkip
<1>4. CASE Cardinality(twins) % 2 = 1
  <2> DEFINE cs == Escaped(SubSeq(t, i, e))
             qs == AddText(acc.pieces, cs)
  <2>1. cs \in Line /\ Places(cs) = <<>>
    BY <1>2, EscapedKeeps, PlacesHidden
  <2> HIDE DEF cs, twins, e
  <2>2. /\ qs \in Seq(PieceSet) /\ Len(qs) >= Len(acc.pieces)
        /\ \A k \in 1 .. Len(acc.pieces) : acc.pieces[k].kind = "mark" => qs[k] = acc.pieces[k]
        /\ Shown(qs) = Shown(acc.pieces) \o Places(cs)
    BY <1>1, <2>1, AddTextKeeps
  <2>3. Shown(acc.pieces) \o <<>> = Shown(acc.pieces)
    BY <1>1, ShownType, ConcatEmptySeq
  <2>4. e + 1 \in i + 1 .. Len(t) + 1 /\ (e + 1) - 1 = e
    BY <1>2
  <2>5. Shown(qs) = Places(SubSeq(t, 1, (e + 1) - 1))
    BY <1>1, <1>a, <2>1, <2>2, <2>3, <2>4
  <2> HIDE DEF qs
  <2> DEFINE nx == e + 1
  <2>6. nx \in i + 1 .. Len(t) + 1 /\ Shown(qs) = Places(SubSeq(t, 1, nx - 1))
    BY <2>4, <2>5
  <2> HIDE DEF nx
  <2>7. [acc EXCEPT !.pieces = qs, !.next = nx] \in Read(t, i)
    BY <1>1, <2>2, <2>6, ReadExtend
  <2> QED
    BY <1>3, <1>4, <2>7 DEF qs, cs, nx
<1>5. CASE ~(Cardinality(twins) % 2 = 1)
  <2>1. i \in twins /\ twins # {i}
    <3>1. i \in twins
      BY <1>2
    <3>2. Cardinality({i}) % 2 = 1
      <4>1. Cardinality({i}) = 1
        BY FS_Singleton
      <4> QED
        BY <4>1
    <3> HIDE DEF twins
    <3> QED
      BY <1>5, <3>1, <3>2
  <2>2. \E j \in twins \ {i} : \A k \in twins \ {i} : j <= k
    <3>1. twins \subseteq Nat
      BY <1>2
    <3> HIDE DEF twins
    <3> QED
      BY <2>1, <3>1, LeastExists
  <2>3. close \in twins \ {i}
    BY <2>2
  <2> HIDE DEF close, e
  <2>4. close \in i .. n /\ close # i /\ t[close].c = "tick" /\ t[close - 1].c # "tick" /\ RunEnd(t, close) - close = e - i
    BY <2>3
  <2> HIDE DEF twins
  <2> DEFINE d == RunEnd(t, close)
             cs == SubSeq(t, e + 1, close - 1)
             tok == CodeToken(cs, t[i].n, t[close].n)
             p == Opaque(tok)
  <2>5. close - 1 \in e .. n /\ close \in 1 .. n
    <3>1. close - 1 \notin i .. e
      BY <1>2, <2>4
    <3> QED
      BY <1>2, <2>4, <3>1
  <2>6. d \in close .. n /\ Hidden(SubSeq(t, close, d)) /\ close + (e - i) = d
    <3>1. d \in close .. n /\ Hidden(SubSeq(t, close, d))
      BY <2>4, <2>5, RunHidden
    <3> QED
      BY <3>1, <1>2, <2>4, <2>5
  <2> HIDE DEF d
  <2>7. cs \in Line /\ Places(SubSeq(t, 1, close - 1)) = Places(SubSeq(t, 1, e)) \o Places(cs)
    <3>1. e + 1 \in 1 .. n + 1 /\ close - 1 \in (e + 1) - 1 .. n /\ close - 1 \in 0 .. n /\ (e + 1) - 1 = e
      BY <1>2, <2>5
    <3>2. cs \in Line
      BY <3>1, PartOfLine
    <3>3. Places(SubSeq(t, 1, close - 1)) = Places(SubSeq(t, 1, (e + 1) - 1)) \o Places(cs)
      BY <3>1, PlacesNext
    <3> QED
      BY <3>1, <3>2, <3>3
  <2>8. Places(SubSeq(t, 1, d)) = Places(SubSeq(t, 1, close - 1))
    <3>1. close \in 1 .. n + 1 /\ d \in close - 1 .. n
      BY <2>5, <2>6, <1>2
    <3> QED
      BY <3>1, <2>6, PlacesSkip
  <2> HIDE DEF cs
  <2>9. tok \in Line /\ Places(tok) = Places(cs)
    <3>1. t[i].n \in Nat /\ t[close].n \in Nat
      <4>1. t[i] \in Characters /\ t[close] \in Characters
        BY <2>5 DEF Line
      <4> QED
        BY <4>1 DEF Characters
    <3> QED
      BY <2>7, <3>1, CodeTokenKeeps
  <2> HIDE DEF tok
  <2>10. p \in PieceSet /\ p.chars = tok
    BY <2>9, TextGood
  <2> HIDE DEF p
  <2> DEFINE qs == Append(acc.pieces, p)
  <2>11. qs \in Seq(PieceSet) /\ Shown(qs) = Shown(acc.pieces) \o Places(tok)
    BY <1>1, <2>10, ShownAppend
  <2>12. Len(qs) = Len(acc.pieces) + 1 /\ \A k \in 1 .. Len(acc.pieces) : qs[k] = acc.pieces[k]
    BY <1>1, <2>10, AppendProperties
  <2>13. Len(acc.pieces) \in Nat /\ Len(qs) >= Len(acc.pieces)
    BY <1>1, <2>12
  <2> HIDE DEF qs
  <2>14. d + 1 \in i + 1 .. n + 1 /\ (d + 1) - 1 = d /\ Shown(qs) = Places(SubSeq(t, 1, (d + 1) - 1))
    <3>1. d + 1 \in i + 1 .. n + 1 /\ (d + 1) - 1 = d
      BY <1>2, <2>4, <2>5, <2>6
    <3> QED
      BY <3>1, <1>1, <1>a, <2>7, <2>8, <2>9, <2>11
  <2> DEFINE nx == d + 1
  <2>15. nx \in i + 1 .. Len(t) + 1 /\ Shown(qs) = Places(SubSeq(t, 1, nx - 1))
    BY <2>14
  <2> HIDE DEF nx
  <2>16. [acc EXCEPT !.pieces = qs, !.next = nx] \in Read(t, i)
    BY <1>1, <2>11, <2>12, <2>13, <2>15, ReadExtend
  <2> QED
    BY <1>3, <1>5, <2>6, <2>16 DEF qs, p, tok, cs, nx
<1> QED
  BY <1>4, <1>5

-----------------------------------------------------------------------------
(* A run of markers shows nothing, whatever it closes and opens.             *)

Held(shown, nx) == {a \in Readings : /\ StackOk(a) /\ Hidden(a.left) /\ a.next = nx
                                     /\ Shown(a.pieces) = shown}

LEMMA PartHidden ==
  ASSUME NEW t \in Line, Hidden(t), NEW i \in 1 .. Len(t) + 1, NEW j \in 0 .. Len(t)
  PROVE  /\ SubSeq(t, i, j) \in Line /\ Hidden(SubSeq(t, i, j))
         /\ Len(SubSeq(t, i, j)) = (IF i <= j THEN j - i + 1 ELSE 0)
<1> DEFINE s == SubSeq(t, i, j)
<1>1. /\ s \in Line /\ Len(s) = (IF i <= j THEN j - i + 1 ELSE 0)
      /\ \A k \in 1 .. j - i + 1 : s[k] = t[i + k - 1]
  BY PartOfLine
<1>2. Len(t) \in Nat /\ DOMAIN t = 1 .. Len(t)
  BY DEF Line
<1> HIDE DEF s
<1>3. DOMAIN s = 1 .. Len(s) /\ Len(s) \in Nat
  BY <1>1 DEF Line
<1>4. ASSUME NEW k \in 1 .. Len(s) PROVE s[k].c \notin VisibleKinds
  <2>1. k \in 1 .. j - i + 1 /\ i + k - 1 \in 1 .. Len(t)
    BY <1>1, <1>2
  <2> QED
    BY <2>1, <1>1, <1>2 DEF Hidden
<1> QED
  BY <1>1, <1>3, <1>4 DEF Hidden, s

\* One more marker is cut off what is left.
LEMMA DelimiterCut ==
  ASSUME NEW left \in Line, Hidden(left), NEW size \in 1 .. Len(left)
  PROVE  /\ Delimiter(SubSeq(left, 1, size), TRUE) \in PieceSet
         /\ Hidden(Delimiter(SubSeq(left, 1, size), TRUE).chars)
         /\ Delimiter(SubSeq(left, 1, size), TRUE).kind = "mark"
         /\ Tail2(left, size + 1) \in Line /\ Hidden(Tail2(left, size + 1))
         /\ Len(Tail2(left, size + 1)) = Len(left) - size
<1> DEFINE n == Len(left)
           s == SubSeq(left, 1, size)
<1>1. n \in Nat
  BY DEF Line
<1>2. 1 \in 1 .. n + 1 /\ size \in 0 .. n /\ size + 1 \in 1 .. n + 1 /\ n \in 0 .. n /\ 1 <= size
  BY <1>1
<1>3. s \in Line /\ Hidden(s) /\ Len(s) = size - 1 + 1
  BY <1>2, PartHidden
<1>4. s # <<>>
  <2> HIDE DEF s
  <2> QED
    BY <1>2, <1>3
<1>5. Delimiter(s, TRUE) \in PieceSet /\ Delimiter(s, TRUE).chars = s /\ Delimiter(s, TRUE).kind = "mark"
  <2> HIDE DEF s
  <2> QED
    BY <1>3, <1>4, DelimiterGood
<1>6. /\ Tail2(left, size + 1) \in Line /\ Hidden(Tail2(left, size + 1))
      /\ Len(Tail2(left, size + 1)) = IF size + 1 <= n THEN n - (size + 1) + 1 ELSE 0
  BY <1>2, PartHidden DEF Tail2
<1>7. (IF size + 1 <= n THEN n - (size + 1) + 1 ELSE 0) = n - size
  BY <1>1
<1> QED
  BY <1>3, <1>5, <1>6, <1>7

LEMMA CloseOneKeeps ==
  ASSUME NEW shown, NEW nx, NEW acc \in Held(shown, nx), NEW chars
  PROVE  CloseOne(acc, chars) \in Held(shown, nx)
<1> DEFINE top == Last(acc.stack)
           size == Len(acc.pieces[top].chars)
           ps == acc.pieces
           id == acc.pairs + 1
<1>0. /\ acc \in Readings /\ StackOk(acc) /\ Hidden(acc.left) /\ acc.next = nx /\ Shown(ps) = shown
      /\ ps \in Seq(PieceSet) /\ acc.stack \in Seq(Nat) /\ acc.left \in Line /\ acc.pairs \in Nat /\ id \in Nat
  BY DEF Held, Readings
<1>1. CASE acc.stack # <<>> /\ acc.pieces[top].m = chars[1].c /\ size <= Len(acc.left)
  <2> DEFINE one == [ps EXCEPT ![top].pair = id]
             two == [one EXCEPT ![top].s = "open"]
             cut == Delimiter(SubSeq(acc.left, 1, size), TRUE)
             mark == [cut EXCEPT !.pair = id, !.s = "close"]
             qs == Append(two, mark)
             st == Front(acc.stack)
             rest == Tail2(acc.left, size + 1)
  <2>1. CloseOne(acc, chars) = [acc EXCEPT !.pieces = qs, !.stack = st, !.pairs = id, !.left = rest]
    BY <1>1 DEF CloseOne
  <2>2. top \in 1 .. Len(ps) /\ ps[top] \in PieceSet /\ ps[top].kind = "mark" /\ Len(acc.stack) \in DOMAIN acc.stack
    <3>1. Len(acc.stack) \in DOMAIN acc.stack /\ top = acc.stack[Len(acc.stack)]
      BY <1>0, <1>1 DEF Last
    <3>2. top \in 1 .. Len(ps) /\ ps[top].kind = "mark"
      BY <1>0, <3>1 DEF StackOk
    <3> HIDE DEF ps, top
    <3> QED
      BY <1>0, <3>1, <3>2
  <2>3. size \in 1 .. Len(acc.left)
    <3>1. ps[top].chars \in Line /\ ps[top].chars # <<>>
      BY <2>2 DEF PieceSet
    <3>2. size \in Nat /\ size # 0
      <4> DEFINE c == ps[top].chars
      <4> HIDE DEF ps, top
      <4>1. c \in Line /\ c # <<>>
        BY <3>1
      <4> HIDE DEF c
      <4>2. Len(c) \in Nat /\ Len(c) # 0
        BY <4>1 DEF Line
      <4> QED
        BY <4>2 DEF c, ps
    <3>3. Len(acc.left) \in Nat
      BY <1>0 DEF Line
    <3> HIDE DEF size
    <3> QED
      BY <1>1, <3>2, <3>3
  <2> HIDE DEF size, top
  <2>4. /\ cut \in PieceSet /\ Hidden(cut.chars) /\ cut.kind = "mark" /\ rest \in Line /\ Hidden(rest)
    BY <1>0, <2>3, DelimiterCut
  <2> HIDE DEF cut, rest
  <2>5. mark \in PieceSet /\ Hidden(mark.chars)
    BY <1>0, <2>4 DEF PieceSet
  <2> HIDE DEF mark
  <2>6. /\ one \in Seq(PieceSet) /\ Len(one) = Len(ps)
        /\ \A k \in 1 .. Len(ps) : one[k].chars = ps[k].chars /\ one[k].kind = ps[k].kind
    <3> DEFINE r == [ps[top] EXCEPT !.pair = id]
    <3>1. r \in PieceSet /\ r.chars = ps[top].chars /\ r.kind = ps[top].kind
      BY <1>0, <2>2 DEF PieceSet
    <3>2. one = [ps EXCEPT ![top] = r]
      OBVIOUS
    <3> HIDE DEF r, one, ps
    <3>3. /\ one \in Seq(PieceSet) /\ Len(one) = Len(ps)
          /\ \A k \in 1 .. Len(ps) : one[k] = IF k = top THEN r ELSE ps[k]
      BY <1>0, <2>2, <3>1, <3>2, Replaced
    <3> QED
      BY <3>1, <3>3
  <2> HIDE DEF one
  <2>7. /\ two \in Seq(PieceSet) /\ Len(two) = Len(ps)
        /\ \A k \in 1 .. Len(ps) : two[k].chars = ps[k].chars /\ two[k].kind = ps[k].kind
    <3> DEFINE r == [one[top] EXCEPT !.s = "open"]
    <3>0. one[top] \in PieceSet /\ top \in 1 .. Len(one)
      <4> HIDE DEF ps
      <4> QED
        BY <2>2, <2>6
    <3>1. r \in PieceSet /\ r.chars = one[top].chars /\ r.kind = one[top].kind
      BY <3>0 DEF PieceSet
    <3>2. two = [one EXCEPT ![top] = r]
      OBVIOUS
    <3> HIDE DEF r, two, ps
    <3>3. /\ two \in Seq(PieceSet) /\ Len(two) = Len(one)
          /\ \A k \in 1 .. Len(one) : two[k] = IF k = top THEN r ELSE one[k]
      BY <2>6, <3>0, <3>1, <3>2, Replaced
    <3> QED
      BY <3>1, <3>3, <2>6
  <2> HIDE DEF two
  <2>8. Shown(two) = Shown(ps)
    <3> HIDE DEF ps
    <3> QED
      BY <1>0, <2>7, ShownSame
  <2>9. qs \in Seq(PieceSet) /\ Shown(qs) = Shown(two)
    BY <2>5, <2>7, ShownAppend, ShownHiddenAppend
  <2>10. Len(qs) = Len(two) + 1 /\ \A k \in 1 .. Len(two) : qs[k] = two[k]
    BY <2>5, <2>7, AppendProperties
  <2> HIDE DEF qs
  <2>11. st \in Seq(Nat) /\ Len(st) = Len(acc.stack) - 1 /\ \A k \in 1 .. Len(acc.stack) - 1 : st[k] = acc.stack[k]
    <3> DEFINE s == acc.stack
    <3>1. st = SubSeq(s, 1, Len(s) - 1)
      BY DEF Front
    <3>2. s \in Seq(Nat) /\ s # <<>>
      BY <1>0, <1>1
    <3> HIDE DEF s, st
    <3>3. st \in Seq(Nat) /\ Len(st) = Len(s) - 1 /\ \A k \in 1 .. Len(s) - 1 : st[k] = s[k]
      BY <3>1, <3>2, FrontAndLast
    <3> QED
      BY <3>3 DEF s
  <2> HIDE DEF st
  <2> DEFINE b == [acc EXCEPT !.pieces = qs, !.stack = st, !.pairs = id, !.left = rest]
  <2>12. b \in Readings /\ b.pieces = qs /\ b.stack = st /\ b.left = rest /\ b.next = nx
    BY <1>0, <2>4, <2>9, <2>11 DEF Readings
  <2>13. StackOk(b)
    <3> HIDE DEF b
    <3> SUFFICES ASSUME NEW k \in DOMAIN st PROVE st[k] \in 1 .. Len(qs) /\ qs[st[k]].kind = "mark"
      BY <2>12 DEF StackOk
    <3>1. k \in DOMAIN acc.stack /\ st[k] = acc.stack[k]
      <4>1. DOMAIN st = 1 .. Len(st) /\ DOMAIN acc.stack = 1 .. Len(acc.stack) /\ Len(acc.stack) \in Nat
        BY <1>0, <2>11
      <4> QED
        BY <4>1, <2>11
    <3>2. st[k] \in 1 .. Len(ps) /\ ps[st[k]].kind = "mark" /\ Len(ps) \in Nat
      BY <1>0, <3>1 DEF StackOk
    <3> HIDE DEF ps
    <3> QED
      BY <3>2, <2>7, <2>10
  <2> HIDE DEF b
  <2> QED
    BY <1>0, <2>1, <2>4, <2>8, <2>9, <2>12, <2>13 DEF Held, b
<1>2. CASE ~(acc.stack # <<>> /\ acc.pieces[top].m = chars[1].c /\ size <= Len(acc.left))
  <2>1. CloseOne(acc, chars) = acc
    BY <1>2 DEF CloseOne
  <2> QED
    BY <2>1
<1> QED
  BY <1>1, <1>2

LEMMA OpenOneKeeps ==
  ASSUME NEW shown, NEW nx, NEW acc \in Held(shown, nx), NEW size \in 1 .. Len(acc.left)
  PROVE  OpenOne(acc, size) \in Held(shown, nx) /\ Len(OpenOne(acc, size).left) = Len(acc.left) - size
<1> DEFINE ps == acc.pieces
           n == Len(ps)
           cut == Delimiter(SubSeq(acc.left, 1, size), TRUE)
           rest == Tail2(acc.left, size + 1)
           qs == Append(ps, cut)
           st == Append(acc.stack, n + 1)
           b == [acc EXCEPT !.pieces = qs, !.stack = st, !.left = rest]
<1>0. /\ acc \in Readings /\ StackOk(acc) /\ Hidden(acc.left) /\ acc.next = nx /\ Shown(ps) = shown
      /\ ps \in Seq(PieceSet) /\ acc.stack \in Seq(Nat) /\ acc.left \in Line /\ n \in Nat
  BY DEF Held, Readings
<1>1. OpenOne(acc, size) = b
  BY DEF OpenOne
<1>2. /\ cut \in PieceSet /\ Hidden(cut.chars) /\ cut.kind = "mark" /\ rest \in Line /\ Hidden(rest)
      /\ Len(rest) = Len(acc.left) - size
  BY <1>0, DelimiterCut
<1> HIDE DEF cut, rest
<1>3. qs \in Seq(PieceSet) /\ Shown(qs) = shown
  BY <1>0, <1>2, ShownAppend, ShownHiddenAppend
<1>4. Len(qs) = n + 1 /\ qs[n + 1] = cut /\ \A k \in 1 .. n : qs[k] = ps[k]
  BY <1>0, <1>2, AppendProperties
<1>5. /\ st \in Seq(Nat) /\ Len(st) = Len(acc.stack) + 1 /\ st[Len(acc.stack) + 1] = n + 1
      /\ \A k \in 1 .. Len(acc.stack) : st[k] = acc.stack[k]
  <2> HIDE DEF n
  <2> QED
    BY <1>0, AppendProperties
<1> HIDE DEF qs, st
<1>6. b \in Readings /\ b.pieces = qs /\ b.stack = st /\ b.left = rest /\ b.next = nx
  BY <1>0, <1>2, <1>3, <1>5 DEF Readings
<1>7. StackOk(b)
  <2> HIDE DEF b
  <2> SUFFICES ASSUME NEW k \in DOMAIN st PROVE st[k] \in 1 .. Len(qs) /\ qs[st[k]].kind = "mark"
    BY <1>6 DEF StackOk
  <2>1. DOMAIN st = 1 .. Len(acc.stack) + 1 /\ DOMAIN acc.stack = 1 .. Len(acc.stack) /\ Len(acc.stack) \in Nat
    BY <1>0, <1>5
  <2>2. CASE k = Len(acc.stack) + 1
    <3> HIDE DEF n, ps
    <3>1. n \in Nat
      BY <1>0
    <3>2. n + 1 \in 1 .. n + 1
      BY ONLY <3>1
    <3>3. st[k] = n + 1
      BY ONLY <2>2, <1>5, Zenon
    <3>4. qs[n + 1] = cut /\ Len(qs) = n + 1 /\ cut.kind = "mark"
      BY ONLY <1>2, <1>4, Zenon
    <3> QED
      BY ONLY <3>2, <3>3, <3>4, Zenon
  <2>3. CASE k # Len(acc.stack) + 1
    <3>0. k \in 1 .. Len(acc.stack)
      BY <2>1, <2>3
    <3>1. k \in DOMAIN acc.stack /\ st[k] = acc.stack[k]
      BY ONLY <3>0, <2>1, <1>5, Zenon
    <3>2. st[k] \in 1 .. n /\ ps[st[k]].kind = "mark"
      BY <1>0, <3>1 DEF StackOk
    <3> HIDE DEF ps, n
    <3> QED
      BY <3>2, <1>0, <1>4
  <2> QED
    BY <2>2, <2>3
<1> HIDE DEF b
<1> QED
  BY <1>0, <1>1, <1>2, <1>3, <1>6, <1>7 DEF Held

LEMMA ClosedKeeps ==
  ASSUME NEW shown, NEW nx, NEW acc \in Held(shown, nx), NEW run \in Line, NEW f
  PROVE  Closed(acc, run, f) \in Held(shown, nx)
<1> DEFINE S == Held(shown, nx)
           n == Len(run)
           R == [k \in 0 .. n |-> S]
           H == [k \in 1 .. n |-> [a \in S |-> CloseOne(a, run)]]
           g == CHOOSE h : h = [k \in 0 .. n |-> IF k = 0 THEN acc ELSE CloseOne(h[k - 1], run)]
<1>0. n \in Nat
  BY DEF Line
<1>1. \A a \in S : CloseOne(a, run) \in S
  BY CloseOneKeeps
<1>2. Rounds(LAMBDA a, k : CloseOne(a, run), acc, Len(run)) = g[n]
  BY Zenon DEF Rounds
<1> HIDE DEF S, n
<1>3. Leads(H, R, n) /\ acc \in R[0]
  BY <1>0, <1>1 DEF Leads, S
<1>4. \E h : h = [k \in 0 .. n |-> IF k = 0 THEN acc ELSE CloseOne(h[k - 1], run)]
  <2> HIDE DEF R, H
  <2>1. PICK h : Looping(h, acc, H, R, n)
    BY <1>0, <1>3, RoundsRun
  <2>2. h[0] = acc /\ \A k \in 1 .. n : h[k] = CloseOne(h[k - 1], run)
    <3>1. \A k \in 1 .. n : k - 1 \in 0 .. n /\ h[k - 1] \in S
      BY <2>1, <1>0 DEF Looping, R
    <3> QED
      BY <2>1, <3>1 DEF Looping, H
  <2> DEFINE d == [k \in 0 .. n |-> h[k]]
  <2>3. \A k \in 0 .. n : d[k] = IF k = 0 THEN acc ELSE CloseOne(d[k - 1], run)
    <3>1. \A k \in 0 .. n : k # 0 => k \in 1 .. n /\ k - 1 \in 0 .. n
      BY <1>0
    <3> QED
      BY <2>2, <3>1
  <2>4. d = [k \in 0 .. n |-> d[k]]
    OBVIOUS
  <2> HIDE DEF d
  <2> QED
    BY <2>3, <2>4
<1>5. g = [k \in 0 .. n |-> IF k = 0 THEN acc ELSE CloseOne(g[k - 1], run)]
  BY <1>4
<1> HIDE DEF g
<1>6. g[n] \in S
  <2>1. g[0] \in R[0] /\ 0 \in 0 .. n /\ n \in 0 .. n
    BY <1>0, <1>3, <1>5
  <2>2. ASSUME NEW k \in 1 .. n, g[k - 1] \in R[k - 1] PROVE g[k] \in R[k]
    <3>1. k \in 0 .. n /\ k - 1 \in 0 .. n /\ k # 0
      BY <1>0
    <3> QED
      BY <2>2, <3>1, <1>1, <1>5
  <2>3. g[n] \in R[n]
    <3> HIDE DEF R
    <3> QED
      BY <1>0, <2>1, <2>2, RoundsKeep
  <2> QED
    BY <2>1, <2>3
<1> QED
  BY <1>2, <1>6, Zenon DEF Closed, S

SizesFit(sizes, n) ==
  /\ Len(sizes) \in Nat
  /\ \A k \in 2 .. Len(sizes) : sizes[k] = 2
  /\ Len(sizes) >= 1 => (sizes[1] = 2 /\ n >= 2 * Len(sizes)) \/ (sizes[1] = 1 /\ n >= 2 * Len(sizes) - 1)
LEMMA SizesAre ==
  ASSUME NEW m, NEW n \in Nat PROVE SizesFit(Sizes(m, n), n)
<1> DEFINE h == n \div 2
           twos == [k \in 1 .. h |-> 2]
           odd == m # "~" /\ n % 2 = 1
           sizes == Sizes(m, n)
<1>1. h \in Nat /\ n >= 2 * h /\ (n % 2 = 1 => n >= 2 * h + 1)
  OBVIOUS
<1>2. sizes = (IF odd THEN <<1>> ELSE <<>>) \o twos
  BY DEF Sizes
<1> HIDE DEF h
<1>3. twos \in Seq(Nat) /\ Len(twos) = h /\ \A k \in 1 .. h : twos[k] = 2
  BY <1>1
<1>4. odd => n >= 2 * h + 1
  BY <1>1
<1> HIDE DEF twos, odd, sizes
<1>5. CASE odd
  <2>1. sizes = <<1>> \o twos
    BY <1>2, <1>5
  <2>2. Len(sizes) = h + 1 /\ sizes[1] = 1 /\ \A k \in 2 .. h + 1 : sizes[k] = 2
    BY <1>1, <1>3, <2>1
  <2>3. n >= 2 * (h + 1) - 1 /\ h + 1 \in Nat
    BY <1>1, <1>4, <1>5
  <2> QED
    BY <2>2, <2>3 DEF SizesFit, sizes
<1>6. CASE ~odd
  <2>1. sizes = twos
    <3>1. <<>> \o twos = twos
      BY <1>3, ConcatEmptySeq
    <3> QED
      BY <1>2, <1>6, <3>1
  <2>2. Len(sizes) = h /\ \A k \in 1 .. h : sizes[k] = 2
    BY <1>3, <2>1
  <2>3. (\A k \in 2 .. h : sizes[k] = 2) /\ (h >= 1 => sizes[1] = 2)
    BY <1>1, <2>2
  <2> QED
    BY <1>1, <2>2, <2>3 DEF SizesFit, sizes
<1> QED
  BY <1>5, <1>6

LEMMA OpenedKeeps ==
  ASSUME NEW shown, NEW nx, NEW acc \in Held(shown, nx), NEW m, NEW f
  PROVE  Opened(acc, m, f) \in Held(shown, nx)
<1> DEFINE sizes == Sizes(m, Len(acc.left))
           n == Len(sizes)
           S(k) == {a \in Held(shown, nx) : IF k = 0 THEN a = acc ELSE Len(a.left) >= 2 * (n - k)}
           R == [k \in 0 .. n |-> S(k)]
           H == [k \in 1 .. n |-> [a \in S(k - 1) |-> OpenOne(a, sizes[k])]]
           g == CHOOSE h : h = [k \in 0 .. n |-> IF k = 0 THEN acc ELSE OpenOne(h[k - 1], sizes[k])]
<1>0. \A a \in Held(shown, nx) : Len(a.left) \in Nat
  BY DEF Held, Readings, Line
<1>a. SizesFit(sizes, Len(acc.left))
  BY <1>0, SizesAre
<1>2. Rounds(LAMBDA a, k : OpenOne(a, sizes[k]), acc, Len(sizes)) = g[n]
  BY Zenon DEF Rounds
<1> HIDE DEF sizes
<1>b. n \in Nat
  BY <1>a DEF SizesFit
<1> HIDE DEF n
<1>1. ASSUME NEW k \in 1 .. n, NEW a \in S(k - 1) PROVE OpenOne(a, sizes[k]) \in S(k)
  <2>0. a \in Held(shown, nx) /\ Len(a.left) \in Nat /\ k # 0 /\ k \in Nat
    BY <1>0, <1>b
  <2>1. sizes[k] \in 1 .. Len(a.left) /\ Len(a.left) - sizes[k] >= 2 * (n - k)
    <3>1. CASE k = 1
      <4>1. a = acc /\ n >= 1
        BY <3>1, <1>b
      <4>2. (sizes[1] = 2 /\ Len(a.left) >= 2 * n) \/ (sizes[1] = 1 /\ Len(a.left) >= 2 * n - 1)
        BY <4>1, <1>a DEF SizesFit, n
      <4> QED
        BY <2>0, <3>1, <4>1, <4>2, <1>b
    <3>2. CASE k # 1
      <4>1. k \in 2 .. n /\ k - 1 # 0 /\ k - 1 \in Nat
        BY <3>2, <1>b
      <4>2. sizes[k] = 2
        BY <4>1, <1>a DEF SizesFit, n
      <4>3. Len(a.left) >= 2 * (n - (k - 1))
        BY <4>1
      <4> QED
        BY <2>0, <4>1, <4>2, <4>3, <1>b
    <3> QED
      BY <3>1, <3>2
  <2>2. OpenOne(a, sizes[k]) \in Held(shown, nx) /\ Len(OpenOne(a, sizes[k]).left) = Len(a.left) - sizes[k]
    BY <2>0, <2>1, OpenOneKeeps
  <2> QED
    BY <2>0, <2>1, <2>2
<1>c. acc \in S(0)
  OBVIOUS
<1>d. S(n) \subseteq Held(shown, nx)
  OBVIOUS
<1> HIDE DEF S
<1>3. Leads(H, R, n) /\ acc \in R[0]
  <2>1. \A k \in 1 .. n : k - 1 \in 0 .. n /\ k \in 0 .. n
    BY <1>b
  <2> QED
    BY <1>b, <1>1, <1>c, <2>1 DEF Leads
<1>4. \E h : h = [k \in 0 .. n |-> IF k = 0 THEN acc ELSE OpenOne(h[k - 1], sizes[k])]
  <2> HIDE DEF R, H
  <2>1. PICK h : Looping(h, acc, H, R, n)
    BY <1>b, <1>3, RoundsRun
  <2>2. h[0] = acc /\ \A k \in 1 .. n : h[k] = OpenOne(h[k - 1], sizes[k])
    <3>1. \A k \in 1 .. n : k - 1 \in 0 .. n /\ h[k - 1] \in S(k - 1)
      BY <2>1, <1>b DEF Looping, R
    <3> QED
      BY <2>1, <3>1 DEF Looping, H
  <2> DEFINE d == [k \in 0 .. n |-> h[k]]
  <2>3. \A k \in 0 .. n : d[k] = IF k = 0 THEN acc ELSE OpenOne(d[k - 1], sizes[k])
    <3>1. \A k \in 0 .. n : k # 0 => k \in 1 .. n /\ k - 1 \in 0 .. n
      BY <1>b
    <3> QED
      BY <2>2, <3>1
  <2>4. d = [k \in 0 .. n |-> d[k]]
    OBVIOUS
  <2> HIDE DEF d
  <2> QED
    BY <2>3, <2>4
<1>5. g = [k \in 0 .. n |-> IF k = 0 THEN acc ELSE OpenOne(g[k - 1], sizes[k])]
  BY <1>4
<1> HIDE DEF g
<1>6. g[n] \in S(n)
  <2>1. g[0] \in R[0] /\ 0 \in 0 .. n /\ n \in 0 .. n
    BY <1>b, <1>3, <1>5
  <2>2. ASSUME NEW k \in 1 .. n, g[k - 1] \in R[k - 1] PROVE g[k] \in R[k]
    <3>1. k \in 0 .. n /\ k - 1 \in 0 .. n /\ k # 0
      BY <1>b
    <3> QED
      BY <2>2, <3>1, <1>1, <1>5
  <2>3. g[n] \in R[n]
    <3> HIDE DEF R
    <3> QED
      BY <1>b, <2>1, <2>2, RoundsKeep
  <2> QED
    BY <2>1, <2>3
<1> QED
  BY <1>2, <1>6, <1>d, Zenon DEF Opened, sizes

LEMMA LiteralKeeps ==
  ASSUME NEW shown, NEW nx, NEW acc \in Held(shown, nx), NEW cs \in Line, Hidden(cs), NEW cand \in BOOLEAN
  PROVE  Literal(acc, cs, cand) \in Held(shown, nx)
<1>0. /\ acc \in Readings /\ StackOk(acc) /\ Hidden(acc.left) /\ acc.next = nx /\ Shown(acc.pieces) = shown
      /\ acc.pieces \in Seq(PieceSet) /\ Len(acc.pieces) \in Nat
  BY DEF Held, Readings
<1>1. CASE cs = <<>>
  BY <1>1 DEF Literal
<1>2. CASE cs # <<>>
  <2> DEFINE p == Delimiter(cs, cand)
             qs == Append(acc.pieces, p)
             b == [acc EXCEPT !.pieces = qs, !.left = <<>>]
  <2>1. p \in PieceSet /\ Hidden(p.chars)
    BY <1>2, DelimiterGood
  <2>2. Literal(acc, cs, cand) = b
    BY <1>2 DEF Literal
  <2> HIDE DEF p
  <2>3. qs \in Seq(PieceSet) /\ Shown(qs) = shown
    BY <1>0, <2>1, ShownAppend, ShownHiddenAppend
  <2>4. Len(qs) = Len(acc.pieces) + 1 /\ \A k \in 1 .. Len(acc.pieces) : qs[k] = acc.pieces[k]
    BY <1>0, <2>1, AppendProperties
  <2> HIDE DEF qs
  <2>5. <<>> \in Line /\ Hidden(<<>>)
    BY DEF Line, Hidden
  <2>6. b \in Readings /\ b.pieces = qs /\ b.stack = acc.stack /\ b.left = <<>> /\ b.next = nx
    BY <1>0, <2>3, <2>5 DEF Readings
  <2>7. StackOk(b)
    <3> HIDE DEF b
    <3> SUFFICES ASSUME NEW k \in DOMAIN acc.stack PROVE acc.stack[k] \in 1 .. Len(qs) /\ qs[acc.stack[k]].kind = "mark"
      BY <2>6 DEF StackOk
    <3>1. acc.stack[k] \in 1 .. Len(acc.pieces) /\ acc.pieces[acc.stack[k]].kind = "mark"
      BY <1>0 DEF StackOk
    <3> QED
      BY <3>1, <2>4, <1>0
  <2> HIDE DEF b
  <2> QED
    BY <2>2, <2>3, <2>5, <2>6, <2>7 DEF Held
<1> QED
  BY <1>1, <1>2

LEMMA MarkerRunKeeps ==
  ASSUME NEW nx, NEW acc \in Readings, StackOk(acc), NEW run \in Line, run # <<>>, Hidden(run), NEW f,
         acc.next + Len(run) = nx
  PROVE  MarkerRun(acc, run, f) \in Held(Shown(acc.pieces), nx)
<1> DEFINE S == Held(Shown(acc.pieces), nx)
           m == run[1].c
           split == m = "~" /\ Len(run) % 2 = 1
           odd == IF split THEN <<Last(run)>> ELSE <<>>
           left == IF odd = <<>> THEN run ELSE Front(run)
           own == [acc EXCEPT !.left = left, !.next = @ + Len(run)]
           one == Closed(own, run, f)
           two == Opened(one, m, f)
           three == Unopened(two, f)
<1>1. MarkerRun(acc, run, f) = Literal(three, odd, FALSE)
  BY DEF MarkerRun
<1>2. Len(run) \in Nat /\ Len(run) >= 1 /\ DOMAIN run = 1 .. Len(run) /\ \A i \in 1 .. Len(run) : run[i] \in Characters
  BY DEF Line
<1>3. odd \in Line /\ Hidden(odd)
  <2>1. Len(run) \in 1 .. Len(run) /\ Last(run) = run[Len(run)]
    BY <1>2 DEF Last
  <2>2. <<Last(run)>> \in Line /\ Hidden(<<Last(run)>>)
    BY <1>2, <2>1 DEF Line, Hidden
  <2>3. <<>> \in Line /\ Hidden(<<>>)
    BY DEF Line, Hidden
  <2> HIDE DEF split
  <2> QED
    BY <2>2, <2>3
<1>4. left \in Line /\ Hidden(left)
  <2>1. Front(run) = SubSeq(run, 1, Len(run) - 1)
    BY DEF Front
  <2>2. 1 \in 1 .. Len(run) + 1 /\ Len(run) - 1 \in 0 .. Len(run)
    BY <1>2
  <2>3. Front(run) \in Line /\ Hidden(Front(run))
    BY <2>1, <2>2, PartHidden
  <2> HIDE DEF odd
  <2> QED
    BY <2>3
<1> HIDE DEF odd, left
<1>5. own \in S
  <2>0. acc.next + Len(run) = nx /\ nx \in Nat
    BY <1>2 DEF Readings
  <2>a. own = [acc EXCEPT !.left = left, !.next = nx]
    BY <2>0
  <2> HIDE DEF own
  <2>1. own \in Readings /\ own.pieces = acc.pieces /\ own.stack = acc.stack /\ own.left = left /\ own.next = nx
    BY <1>4, <2>0, <2>a DEF Readings
  <2>2. StackOk(own)
    BY <2>1 DEF StackOk
  <2> QED
    BY <1>4, <2>1, <2>2 DEF Held
<1> HIDE DEF own
<1>6. one \in S
  <2> HIDE DEF S
  <2> QED
    BY <1>5, ClosedKeeps DEF S
<1> HIDE DEF one, m
<1>7. two \in S
  BY <1>6, OpenedKeeps
<1> HIDE DEF two
<1>8. three \in S
  <2>1. two.left \in Line /\ Hidden(two.left)
    BY <1>7 DEF Held, Readings
  <2>2. (f.open \/ f.close) \in BOOLEAN
    OBVIOUS
  <2> DEFINE c == f.open \/ f.close
  <2>3. three = Literal(two, two.left, c)
    BY DEF Unopened
  <2>4. c \in BOOLEAN
    BY <2>2
  <2> HIDE DEF c, three
  <2> QED
    BY <1>7, <2>1, <2>3, <2>4, LiteralKeeps
<1> HIDE DEF three
<1> QED
  BY <1>1, <1>3, <1>8, LiteralKeeps

LEMMA MarkersRead ==
  ASSUME NEW t \in Line, NEW i \in 1 .. Len(t), t[i].c \in Styles, NEW acc \in Read(t, i - 1), acc.next = i
  PROVE  Markers(acc, t, i) \in Read(t, i)
<1> DEFINE e == RunEnd(t, i)
           run == SubSeq(t, i, e)
           f == Flanking(KindAt(t, i - 1), KindAt(t, e + 1), t[i].c)
           b == MarkerRun(acc, run, f)
           nx == e + 1
<1>1. acc \in Readings /\ StackOk(acc) /\ Shown(acc.pieces) = Places(SubSeq(t, 1, i - 1))
  BY DEF Read
<1>2. /\ e \in i .. Len(t) /\ run \in Line /\ Hidden(run) /\ Len(run) = e - i + 1 /\ Len(t) \in Nat
  BY RunHidden DEF Line
<1>3. Markers(acc, t, i) = b
  BY DEF Markers
<1> HIDE DEF e, f
<1>4. i \in 1 .. Len(t) + 1 /\ e \in i - 1 .. Len(t) /\ acc.next + Len(run) = nx /\ (e + 1) - 1 = e
      /\ e + 1 \in i + 1 .. Len(t) + 1 /\ Len(run) # 0
  BY <1>2
<1>5. Places(SubSeq(t, 1, e)) = Places(SubSeq(t, 1, i - 1))
  BY <1>2, <1>4, PlacesSkip
<1> HIDE DEF run, nx
<1>6. run # <<>>
  BY <1>4
<1>7. b \in Held(Shown(acc.pieces), nx)
  BY <1>1, <1>2, <1>4, <1>6, MarkerRunKeeps
<1> HIDE DEF b
<1> QED
  BY <1>1, <1>3, <1>4, <1>5, <1>7 DEF Held, Read, nx

LEMMA UrlRead ==
  ASSUME NEW t \in Line, NEW i \in 1 .. Len(t), t[i].c = "U", NEW acc \in Read(t, i - 1), acc.next = i
  PROVE  Url(acc, t, i) \in Read(t, i)
<1> DEFINE open == [k \in DOMAIN acc.stack |-> LET p == acc.pieces[acc.stack[k]] IN [d \in DOMAIN p.chars |-> p.m]]
           e == UrlTail(t, i, open)
           cs == SubSeq(t, i, e)
           p == Opaque(cs)
           qs == Append(acc.pieces, p)
           nx == e + 1
<1>1. /\ acc \in Readings /\ StackOk(acc) /\ Shown(acc.pieces) = Places(SubSeq(t, 1, i - 1))
      /\ acc.pieces \in Seq(PieceSet) /\ acc.stack \in Seq(Nat) /\ Len(t) \in Nat
  BY DEF Read, Readings, Line
<1>2. Url(acc, t, i) = [acc EXCEPT !.pieces = qs, !.next = nx]
  BY DEF Url
<1>3. open \in Seq(Seq(MarkKinds))
  <2>1. ASSUME NEW k \in DOMAIN acc.stack
        PROVE  [d \in DOMAIN acc.pieces[acc.stack[k]].chars |-> acc.pieces[acc.stack[k]].m] \in Seq(MarkKinds)
    <3> DEFINE q == acc.pieces[acc.stack[k]]
    <3>1. acc.stack[k] \in 1 .. Len(acc.pieces)
      BY <1>1 DEF StackOk
    <3>2. q \in PieceSet
      BY <1>1, <3>1
    <3> HIDE DEF q
    <3>3. q.m \in MarkKinds /\ DOMAIN q.chars = 1 .. Len(q.chars) /\ Len(q.chars) \in Nat
      BY <3>2 DEF PieceSet, Line
    <3>4. [d \in DOMAIN q.chars |-> q.m] \in Seq(MarkKinds)
      BY <3>3
    <3> QED
      BY <3>4 DEF q
  <2>2. DOMAIN acc.stack = 1 .. Len(acc.stack) /\ Len(acc.stack) \in Nat
    BY <1>1
  <2> DEFINE o(k) == [d \in DOMAIN acc.pieces[acc.stack[k]].chars |-> acc.pieces[acc.stack[k]].m]
  <2>3. open = [k \in 1 .. Len(acc.stack) |-> o(k)]
    BY <2>2
  <2>4. \A k \in 1 .. Len(acc.stack) : o(k) \in Seq(MarkKinds)
    BY <2>1, <2>2
  <2> HIDE DEF o, open
  <2> QED
    BY <2>2, <2>3, <2>4
<1> HIDE DEF open
<1>4. e \in i .. WordEnd(t, i) /\ WordEnd(t, i) \in i .. Len(t)
  BY <1>3, UrlTailIn, WordEndIn
<1> HIDE DEF e
<1>5. i \in 1 .. Len(t) + 1 /\ e \in i - 1 .. Len(t) /\ e \in 0 .. Len(t) /\ nx \in i + 1 .. Len(t) + 1 /\ nx - 1 = e
  BY <1>1, <1>4
<1>6. cs \in Line /\ Places(SubSeq(t, 1, e)) = Places(SubSeq(t, 1, i - 1)) \o Places(cs)
  BY <1>5, PartOfLine, PlacesNext
<1> HIDE DEF cs, nx
<1>7. p \in PieceSet /\ p.chars = cs
  BY <1>6, TextGood
<1> HIDE DEF p
<1>8. qs \in Seq(PieceSet) /\ Shown(qs) = Places(SubSeq(t, 1, nx - 1))
  BY <1>1, <1>5, <1>6, <1>7, ShownAppend
<1>9. Len(qs) = Len(acc.pieces) + 1 /\ Len(acc.pieces) \in Nat /\ \A k \in 1 .. Len(acc.pieces) : qs[k] = acc.pieces[k]
  BY <1>1, <1>7, AppendProperties
<1> HIDE DEF qs
<1>10. Len(qs) >= Len(acc.pieces)
  BY <1>9
<1>11. [acc EXCEPT !.pieces = qs, !.next = nx] \in Read(t, i)
  BY <1>1, <1>5, <1>8, <1>9, <1>10, ReadExtend
<1> QED
  BY <1>2, <1>11

LEMMA LetterRead ==
  ASSUME NEW t \in Line, NEW i \in 1 .. Len(t), NEW acc \in Read(t, i - 1), acc.next = i
  PROVE  [acc EXCEPT !.pieces = AddText(@, <<t[i]>>), !.next = i + 1] \in Read(t, i)
<1> DEFINE cs == <<t[i]>>
           qs == AddText(acc.pieces, cs)
           nx == i + 1
<1>1. /\ acc \in Readings /\ StackOk(acc) /\ Shown(acc.pieces) = Places(SubSeq(t, 1, i - 1))
      /\ acc.pieces \in Seq(PieceSet) /\ Len(t) \in Nat
  BY DEF Read, Readings, Line
<1>2. cs \in Line /\ Places(SubSeq(t, 1, i)) = Places(SubSeq(t, 1, i - 1)) \o Places(cs)
  <2>1. t[i] \in Characters
    BY DEF Line
  <2> QED
    BY <2>1, PlacesOne, PlacesPrefix
<1>3. nx \in i + 1 .. Len(t) + 1 /\ nx - 1 = i
  BY <1>1
<1> HIDE DEF cs, nx
<1>4. /\ qs \in Seq(PieceSet) /\ Len(qs) >= Len(acc.pieces)
      /\ \A k \in 1 .. Len(acc.pieces) : acc.pieces[k].kind = "mark" => qs[k] = acc.pieces[k]
      /\ Shown(qs) = Shown(acc.pieces) \o Places(cs)
  BY <1>1, <1>2, AddTextKeeps
<1>5. Shown(qs) = Places(SubSeq(t, 1, nx - 1))
  BY <1>1, <1>2, <1>3, <1>4
<1> HIDE DEF qs
<1>6. [acc EXCEPT !.pieces = qs, !.next = nx] \in Read(t, i)
  BY <1>1, <1>3, <1>4, <1>5, ReadExtend
<1> QED
  BY <1>6 DEF qs, cs, nx

LEMMA PieceAtReads ==
  ASSUME NEW t \in Line, NEW i \in 1 .. Len(t), NEW acc \in Read(t, i - 1)
  PROVE  PieceAt(acc, t, i) \in Read(t, i)
<1>1. acc.next \in Nat /\ acc.next >= i /\ acc \in Readings /\ Len(t) \in Nat /\ acc.next <= Len(t) + 1
  BY DEF Read, Readings, Line
<1>2. CASE i < acc.next
  <2>1. PieceAt(acc, t, i) = acc
    BY <1>2 DEF PieceAt
  <2>2. acc.next \in i + 1 .. Len(t) + 1
    BY <1>1, <1>2
  <2> QED
    BY <2>1, <2>2 DEF Read
<1>3. CASE ~(i < acc.next)
  <2>0. acc.next = i
    BY <1>1, <1>3
  <2> DEFINE rest == [acc EXCEPT !.pieces = AddText(@, <<t[i]>>), !.next = i + 1]
  <2>1. PieceAt(acc, t, i) = CASE t[i].c = "U" -> Url(acc, t, i)
                               [] t[i].c = "tick" -> Ticks(acc, t, i)
                               [] t[i].c \in Styles -> Markers(acc, t, i)
                               [] OTHER -> rest
    BY <1>3 DEF PieceAt
  <2>2. rest \in Read(t, i)
    BY <2>0, LetterRead
  <2> HIDE DEF rest
  <2>3. "U" # "tick" /\ "U" \notin Styles /\ "tick" \notin Styles
    BY DEF Styles
  <2>4. CASE t[i].c = "U"
    BY <2>0, <2>1, <2>3, <2>4, UrlRead
  <2>5. CASE t[i].c = "tick"
    BY <2>0, <2>1, <2>3, <2>5, TicksRead
  <2>6. CASE t[i].c \in Styles
    BY <2>0, <2>1, <2>3, <2>6, MarkersRead
  <2>7. CASE t[i].c # "U" /\ t[i].c # "tick" /\ t[i].c \notin Styles
    BY <2>1, <2>2, <2>7
  <2> QED
    BY <2>4, <2>5, <2>6, <2>7
<1> QED
  BY <1>2, <1>3

\* The pieces of a text show its letters, each once and in their order.
LEMMA PiecesKeep ==
  ASSUME NEW t \in Line PROVE Pieces(t) \in Seq(PieceSet) /\ Shown(Pieces(t)) = Places(t)
<1> DEFINE n == Len(t)
           S(k) == Read(t, k)
           R == [k \in 0 .. n |-> S(k)]
           H == [k \in 1 .. n |-> [a \in S(k - 1) |-> PieceAt(a, t, k)]]
           g == CHOOSE h : h = [k \in 0 .. n |-> IF k = 0 THEN Unread ELSE PieceAt(h[k - 1], t, k)]
<1>b. n \in Nat
  BY DEF Line
<1>2. Pieces(t) = g[n].pieces
  BY Zenon DEF Pieces, Rounds
<1>1. ASSUME NEW k \in 1 .. n, NEW a \in S(k - 1) PROVE PieceAt(a, t, k) \in S(k)
  BY PieceAtReads
<1>c. Unread \in S(0)
  <2>1. Unread \in Readings /\ Unread.pieces = <<>> /\ Unread.next = 1 /\ Unread.stack = <<>>
    BY DEF Unread, Readings, Line
  <2>2. StackOk(Unread)
    BY <2>1 DEF StackOk
  <2>3. Shown(<<>>) = <<>>
    <3>1. Parts(<<>>) = <<>>
      BY DEF Parts
    <3> QED
      BY <3>1, FlattenEmpty DEF Shown
  <2>4. Places(SubSeq(t, 1, 1 - 1)) = <<>>
    <3>1. SubSeq(t, 1, 1 - 1) = <<>>
      BY SubSeqEmpty
    <3> QED
      BY <3>1, PlacesEmpty
  <2>5. 1 \in 0 + 1 .. Len(t) + 1
    BY <1>b
  <2> QED
    BY <2>1, <2>2, <2>3, <2>4, <2>5 DEF Read
<1> HIDE DEF S, n
<1>3. Leads(H, R, n) /\ Unread \in R[0]
  <2>1. \A k \in 1 .. n : k - 1 \in 0 .. n /\ k \in 0 .. n
    BY <1>b
  <2> QED
    BY <1>b, <1>1, <1>c, <2>1 DEF Leads
<1>4. \E h : h = [k \in 0 .. n |-> IF k = 0 THEN Unread ELSE PieceAt(h[k - 1], t, k)]
  <2> HIDE DEF R, H
  <2>1. PICK h : Looping(h, Unread, H, R, n)
    BY <1>b, <1>3, RoundsRun
  <2>2. h[0] = Unread /\ \A k \in 1 .. n : h[k] = PieceAt(h[k - 1], t, k)
    <3>1. \A k \in 1 .. n : k - 1 \in 0 .. n /\ h[k - 1] \in S(k - 1)
      BY <2>1, <1>b DEF Looping, R
    <3> QED
      BY <2>1, <3>1 DEF Looping, H
  <2> DEFINE d == [k \in 0 .. n |-> h[k]]
  <2>3. \A k \in 0 .. n : d[k] = IF k = 0 THEN Unread ELSE PieceAt(d[k - 1], t, k)
    <3>1. \A k \in 0 .. n : k # 0 => k \in 1 .. n /\ k - 1 \in 0 .. n
      BY <1>b
    <3> QED
      BY <2>2, <3>1
  <2>4. d = [k \in 0 .. n |-> d[k]]
    OBVIOUS
  <2> HIDE DEF d
  <2> QED
    BY <2>3, <2>4
<1>5. g = [k \in 0 .. n |-> IF k = 0 THEN Unread ELSE PieceAt(g[k - 1], t, k)]
  BY <1>4
<1> HIDE DEF g
<1>6. g[n] \in S(n)
  <2>1. g[0] \in R[0] /\ 0 \in 0 .. n /\ n \in 0 .. n
    BY <1>b, <1>3, <1>5
  <2>2. ASSUME NEW k \in 1 .. n, g[k - 1] \in R[k - 1] PROVE g[k] \in R[k]
    <3>1. k \in 0 .. n /\ k - 1 \in 0 .. n /\ k # 0
      BY <1>b
    <3> QED
      BY <2>2, <3>1, <1>1, <1>5
  <2>3. g[n] \in R[n]
    <3> HIDE DEF R
    <3> QED
      BY <1>b, <2>1, <2>2, RoundsKeep
  <2> QED
    BY <2>1, <2>3
<1>7. g[n].pieces \in Seq(PieceSet) /\ Shown(g[n].pieces) = Places(SubSeq(t, 1, g[n].next - 1)) /\ g[n].next - 1 = Len(t)
  <2>1. g[n] \in Read(t, Len(t))
    BY <1>6 DEF S, n
  <2> DEFINE a == g[n]
  <2> HIDE DEF a
  <2>2. a \in Read(t, Len(t))
    BY <2>1 DEF a
  <2>3. a.next - 1 = Len(t) /\ a.pieces \in Seq(PieceSet) /\ Shown(a.pieces) = Places(SubSeq(t, 1, a.next - 1))
    BY <2>2, <1>b DEF Read, Readings, n
  <2> QED
    BY <2>3 DEF a
<1>8. SubSeq(t, 1, Len(t)) = t
  BY SubSeqFull DEF Line
<1> QED
  BY <1>2, <1>7, <1>8

-----------------------------------------------------------------------------
(* What the pieces render to.                                                *)

LEMMA DroppedAreMarks ==
  ASSUME NEW ps \in Seq(PieceSet) PROVE \A k \in DroppedTail(ps) : k \in 1 .. Len(ps) /\ ps[k].kind = "mark"
<1> DEFINE blank(p) == p.kind = "text" /\ \A i \in DOMAIN p.chars : p.chars[i].c = " "
           n == Len(ps)
           ends == {j \in 0 .. n : (\A k \in (j + 1) .. n : blank(ps[k])) /\ (j = 0 \/ ~blank(ps[j]))}
           last == CHOOSE j \in ends : TRUE
           tail == {k \in 1 .. last : \A l \in k .. last : Unmatched(ps[l])}
<1>1. DroppedTail(ps) \subseteq tail
  BY DEF DroppedTail
<1> HIDE DEF blank
<1>2. ends # {}
  <2> DEFINE S == {j \in 0 .. n : \A k \in (j + 1) .. n : blank(ps[k])}
  <2>1. n \in Nat /\ n \in S /\ S \subseteq Nat
    OBVIOUS
  <2>2. PICK j \in S : \A y \in S : j <= y
    <3> HIDE DEF S
    <3> QED
      BY <2>1, LeastExists
  <2>3. j = 0 \/ ~blank(ps[j])
    <3> SUFFICES ASSUME j # 0, blank(ps[j]) PROVE FALSE
      OBVIOUS
    <3>1. j - 1 \in 0 .. n /\ ~(j <= j - 1) /\ \A k \in (j - 1) + 1 .. n : k = j \/ k \in j + 1 .. n
      BY <2>1
    <3>2. j - 1 \in S
      BY <3>1, <2>2
    <3> QED
      BY <3>1, <3>2, <2>2
  <2>4. j \in ends
    BY <2>2, <2>3
  <2> QED
    BY <2>4
<1>3. last \in ends
  BY <1>2
<1>4. last \in 0 .. n
  <2> HIDE DEF last
  <2> QED
    BY <1>3
<1> HIDE DEF last, ends
<1>5. ASSUME NEW k \in tail PROVE k \in 1 .. Len(ps) /\ ps[k].kind = "mark"
  <2>1. n \in Nat /\ k \in 1 .. n /\ k \in k .. last
    BY <1>4
  <2> QED
    BY <2>1 DEF Unmatched
<1> QED
  BY <1>1, <1>5

LEMMA RenderedKeeps ==
  ASSUME NEW p \in PieceSet, NEW streaming
  PROVE  Rendered(p, streaming) \in Line /\ Places(Rendered(p, streaming)) = Places(p.chars)
<1>1. p.chars \in Line /\ p.pair \in Nat /\ p.s \in {"none", "open", "close"} /\ (p.kind # "mark" => p.pair = 0)
  BY DEF PieceSet
<1>2. CASE p.kind # "mark"
  BY <1>1, <1>2 DEF Rendered, Unmatched
<1>3. CASE p.kind = "mark"
  <2>1. p.chars # <<>> /\ Hidden(p.chars) /\ Places(p.chars) = <<>>
    BY <1>1, <1>3, PlacesHidden DEF PieceSet
  <2>2. p.chars[1].n \in Nat
    <3>1. p.chars[1] \in Characters
      <4> DEFINE c == p.chars
      <4>1. c \in Line /\ c # <<>>
        BY <1>1, <2>1
      <4> HIDE DEF c
      <4>2. c[1] \in Characters
        BY <4>1 DEF Line
      <4> QED
        BY <4>2 DEF c
    <3> QED
      BY <3>1 DEF Characters
  <2> DEFINE x == Mark(StyleOf(p), p.chars[1].n, p.s)
  <2>3. x \in Characters /\ x.c \notin VisibleKinds
    <3>1. StyleOf(p) \in Styles
      BY DEF StyleOf, Styles
    <3>2. StyleOf(p) \in Kinds \cup {"J"} /\ StyleOf(p) \notin VisibleKinds
      BY <3>1, KindFacts
    <3> QED
      BY <1>1, <2>2, <3>2 DEF Mark, Characters
  <2> HIDE DEF x
  <2>4. <<x>> \in Line /\ Places(<<x>>) = <<>>
    BY <2>3, PlacesOne
  <2>5. Escaped(p.chars) \in Line /\ Places(Escaped(p.chars)) = <<>>
    BY <1>1, <2>1, EscapedKeeps
  <2>6. <<>> \in Line /\ Places(<<>>) = <<>>
    BY PlacesEmpty DEF Line
  <2>7. Rendered(p, streaming) \in {<<x>>, <<>>, Escaped(p.chars), p.chars}
    BY <1>3 DEF Rendered, Unmatched, x
  <2> QED
    BY <1>1, <2>1, <2>4, <2>5, <2>6, <2>7
<1> QED
  BY <1>2, <1>3

LEMMA RemainingKeeps ==
  ASSUME NEW ps \in Seq(PieceSet), NEW dropped, \A k \in dropped : k \in 1 .. Len(ps) /\ ps[k].kind = "mark",
         NEW unsafe, NEW streaming
  PROVE  Remaining(ps, dropped, unsafe, streaming) \in Line /\ Places(Remaining(ps, dropped, unsafe, streaming)) = Shown(ps)
<1> DEFINE n == Len(ps)
           e(i) == IF i \in dropped \/ (ps[i].pair # 0 /\ ps[i].pair \in unsafe) THEN <<>> ELSE Rendered(ps[i], streaming)
           ss == [i \in DOMAIN ps |-> e(i)]
<1>1. Remaining(ps, dropped, unsafe, streaming) = FlattenSeq(ss)
  BY DEF Remaining
<1>2. n \in Nat /\ DOMAIN ps = 1 .. n /\ \A i \in 1 .. n : ps[i] \in PieceSet
  OBVIOUS
<1>3. ASSUME NEW i \in 1 .. n PROVE e(i) \in Line /\ Places(e(i)) = Places(ps[i].chars)
  <2>0. ps[i] \in PieceSet
    BY <1>2
  <2>1. CASE i \in dropped \/ (ps[i].pair # 0 /\ ps[i].pair \in unsafe)
    <3>1. ps[i].kind = "mark"
      BY <2>0, <2>1 DEF PieceSet
    <3>2. Places(ps[i].chars) = <<>>
      BY <2>0, <3>1, PlacesHidden DEF PieceSet
    <3>3. <<>> \in Line /\ Places(<<>>) = <<>>
      BY PlacesEmpty DEF Line
    <3> QED
      BY <2>1, <3>2, <3>3
  <2>2. CASE ~(i \in dropped \/ (ps[i].pair # 0 /\ ps[i].pair \in unsafe))
    BY <2>0, <2>2, RenderedKeeps
  <2> QED
    BY <2>1, <2>2
<1> HIDE DEF e
<1>4. ss \in Seq(Line) /\ DOMAIN ss = 1 .. n
  <2>1. ss = [i \in 1 .. n |-> e(i)]
    BY <1>2
  <2> HIDE DEF ss, n
  <2> QED
    BY <1>2, <1>3, <2>1
<1>5. Lines(ss) = Parts(ps)
  BY <1>2, <1>3, <1>4 DEF Lines, Parts
<1> HIDE DEF ss
<1> QED
  BY <1>1, <1>4, <1>5, PlacesFlatten DEF Shown

\* Rendering keeps every letter, in order.
LEMMA RenderKeeps ==
  ASSUME NEW t \in Line, NEW streaming
  PROVE  Render(t, streaming) \in Line /\ Places(Render(t, streaming)) = Places(t)
<1> DEFINE ps == Pieces(t)
           dropped == DroppedTail(ps)
           unsafe == UnsafePairs(ps, dropped, streaming)
<1>1. ps \in Seq(PieceSet) /\ Shown(ps) = Places(t)
  BY PiecesKeep
<1>2. Render(t, streaming) = Remaining(ps, dropped, unsafe, streaming)
  BY DEF Render, RenderPieces, Output
<1> HIDE DEF ps
<1>3. \A k \in dropped : k \in 1 .. Len(ps) /\ ps[k].kind = "mark"
  BY <1>1, DroppedAreMarks
<1> HIDE DEF dropped, unsafe
<1> QED
  BY <1>1, <1>2, <1>3, RemainingKeeps

-----------------------------------------------------------------------------
(* The chunker's reading of a rendered text: the formatting that is open.    *)

Formats == [styles : Seq(Styles), code : Nat]

LEMMA RoleClose == ASSUME NEW v, NEW i, NEW open, StyleRole(v, i, open) = "close" PROVE open # <<>>
<1> SUFFICES ASSUME open = <<>> PROVE FALSE
  OBVIOUS
<1> QED
  BY Zenon DEF StyleRole

LEMMA StylesFront == ASSUME NEW S, NEW s \in Seq(S), s # <<>> PROVE Front(s) \in Seq(S) /\ Last(s) \in S
<1>1. Front(s) = SubSeq(s, 1, Len(s) - 1) /\ Last(s) = s[Len(s)]
  BY DEF Front, Last
<1>2. s[Len(s)] \in S
  OBVIOUS
<1> QED
  BY <1>1, <1>2, FrontAndLast

Advancing == [styles : Seq(Styles), code : Nat, next : Nat]
LEMMA AdvanceAtKeeps ==
  ASSUME NEW v \in Line, NEW to \in 0 .. Len(v), NEW i \in 1 .. to, NEW a \in Advancing
  PROVE  AdvanceAt(v, to, a, i) \in Advancing
<1> DEFINE e == IF RunEnd(v, i) < to THEN RunEnd(v, i) ELSE to
           n == e - i + 1
           role == StyleRole(v, i, a.styles)
           code == CASE Guarded(v, i, e) -> a.code
                     [] ~Guarded(v, i, e) /\ a.code = n -> 0
                     [] OTHER -> IF a.code = 0 /\ n \in {1, 3} THEN n ELSE a.code
           x == [a EXCEPT !.next = e + 1, !.code = code]
           y == [a EXCEPT !.styles = Front(a.styles)]
           z == [a EXCEPT !.styles = Append(a.styles, v[i].c)]
<1>0. Len(v) \in Nat /\ i \in 1 .. Len(v) /\ to \in Nat
  BY DEF Line
<1>1. e \in Nat /\ n \in Nat
  <2>1. RunEnd(v, i) \in i .. Len(v)
    BY <1>0, RunEndIs DEF RunFrom
  <2> QED
    BY <1>0, <2>1
<1>2. AdvanceAt(v, to, a, i) \in {a, x} \/ (v[i].c \in Styles /\ role = "close" /\ AdvanceAt(v, to, a, i) = y)
        \/ (v[i].c \in Styles /\ role = "open" /\ AdvanceAt(v, to, a, i) = z)
  <2>1. AdvanceAt(v, to, a, i) = CASE i < a.next -> a
       [] i >= a.next /\ v[i].c = "tick" -> x
       [] i >= a.next /\ v[i].c \in Styles /\ a.code = 0 ->
            CASE role = "close" -> y
              [] role = "open"  -> z
              [] OTHER -> a
       [] OTHER -> a
    BY DEF AdvanceAt
  <2> HIDE DEF x, y, z, role
  <2>2. "tick" \notin Styles /\ a.next \in Nat /\ i \in Nat
    BY <1>0, KindFacts DEF Advancing
  <2> QED
    BY <2>1, <2>2
<1> HIDE DEF role, n, e
<1>3. code \in Nat
  BY <1>1 DEF Advancing
<1> HIDE DEF code
<1>4. x \in Advancing
  <2> DEFINE m == e + 1
  <2>1. m \in Nat
    BY <1>1
  <2> HIDE DEF m
  <2>2. [a EXCEPT !.next = m, !.code = code] \in Advancing
    BY <1>3, <2>1 DEF Advancing
  <2> QED
    BY <2>2 DEF m
<1>5. ASSUME role = "close" PROVE y \in Advancing
  <2>1. a.styles # <<>>
    BY <1>5, RoleClose DEF role
  <2>2. Front(a.styles) \in Seq(Styles)
    BY <2>1, StylesFront DEF Advancing
  <2> QED
    BY <2>2 DEF Advancing
<1>6. ASSUME v[i].c \in Styles PROVE z \in Advancing
  <2>1. Append(a.styles, v[i].c) \in Seq(Styles)
    BY <1>6, AppendProperties DEF Advancing
  <2> QED
    BY <2>1 DEF Advancing
<1> HIDE DEF x, y, z
<1> QED
  BY <1>2, <1>4, <1>5, <1>6

LEMMA AdvanceKeeps ==
  ASSUME NEW v \in Line, NEW from \in 1 .. Len(v) + 1, NEW to \in from - 1 .. Len(v), NEW st \in Formats
  PROVE  Advance(v, from, to, st) \in Formats
<1> DEFINE n == to - from + 1
           base == [styles |-> st.styles, code |-> st.code, next |-> from]
           S(k) == Advancing
           Step(a, k) == AdvanceAt(v, to, a, from + k - 1)
           R == [k \in 0 .. n |-> S(k)]
           H == [k \in 1 .. n |-> [a \in S(k - 1) |-> Step(a, k)]]
           g == CHOOSE h : h = [k \in 0 .. n |-> IF k = 0 THEN base ELSE Step(h[k - 1], k)]
<1>0. Len(v) \in Nat
  BY DEF Line
<1>b. n \in Nat /\ from \in Nat /\ to \in 0 .. Len(v) /\ \A k \in 1 .. n : from + k - 1 \in 1 .. to
  BY <1>0
<1>2. Advance(v, from, to, st) = [styles |-> g[n].styles, code |-> g[n].code]
  BY Zenon DEF Advance, Rounds
<1>d. base \in Advancing
  BY <1>b DEF Formats, Advancing
<1> HIDE DEF n, base
<1>1. ASSUME NEW k \in 1 .. n, NEW a \in Advancing PROVE Step(a, k) \in Advancing
  <2> DEFINE i == from + k - 1
  <2>1. i \in 1 .. to
    BY <1>b
  <2> HIDE DEF i
  <2>2. AdvanceAt(v, to, a, i) \in Advancing
    BY <1>b, <2>1, AdvanceAtKeeps
  <2> QED
    BY <2>2 DEF i
<1>c. base \in S(0) /\ S(n) = Advancing /\ \A k \in 1 .. n : \A a \in S(k - 1) : Step(a, k) \in S(k)
  BY <1>1, <1>d
<1> HIDE DEF S, Step
<1>3. Leads(H, R, n) /\ base \in R[0]
  <2>1. \A k \in 1 .. n : k - 1 \in 0 .. n /\ k \in 0 .. n
    BY <1>b
  <2> QED
    BY <1>b, <1>c, <2>1 DEF Leads
<1>4. \E h : h = [k \in 0 .. n |-> IF k = 0 THEN base ELSE Step(h[k - 1], k)]
  <2> HIDE DEF R, H
  <2>1. PICK h : Looping(h, base, H, R, n)
    BY <1>b, <1>3, RoundsRun
  <2>2. h[0] = base /\ \A k \in 1 .. n : h[k] = Step(h[k - 1], k)
    <3>1. \A k \in 1 .. n : k - 1 \in 0 .. n /\ h[k - 1] \in S(k - 1)
      BY <2>1, <1>b DEF Looping, R
    <3> QED
      BY <2>1, <3>1 DEF Looping, H
  <2> DEFINE d == [k \in 0 .. n |-> h[k]]
  <2>3. \A k \in 0 .. n : d[k] = IF k = 0 THEN base ELSE Step(d[k - 1], k)
    <3>1. \A k \in 0 .. n : k # 0 => k \in 1 .. n /\ k - 1 \in 0 .. n
      BY <1>b
    <3> QED
      BY <2>2, <3>1
  <2>4. d = [k \in 0 .. n |-> d[k]]
    OBVIOUS
  <2> HIDE DEF d
  <2> QED
    BY <2>3, <2>4
<1>5. g = [k \in 0 .. n |-> IF k = 0 THEN base ELSE Step(g[k - 1], k)]
  BY <1>4
<1> HIDE DEF g
<1>6. g[n] \in S(n)
  <2>1. g[0] \in R[0] /\ 0 \in 0 .. n /\ n \in 0 .. n
    BY <1>b, <1>3, <1>5
  <2>2. ASSUME NEW k \in 1 .. n, g[k - 1] \in R[k - 1] PROVE g[k] \in R[k]
    <3>1. k \in 0 .. n /\ k - 1 \in 0 .. n /\ k # 0
      BY <1>b
    <3> QED
      BY <2>2, <3>1, <1>c, <1>5
  <2>3. g[n] \in R[n]
    <3> HIDE DEF R
    <3> QED
      BY <1>b, <2>1, <2>2, RoundsKeep
  <2> QED
    BY <2>1, <2>3
<1> QED
  BY <1>2, <1>6, <1>c DEF Advancing, Formats

-----------------------------------------------------------------------------
(* The spans that are never cut.                                             *)

Pairs(v) == {sp \in Nat \X Nat : 1 <= sp[1] /\ sp[1] <= sp[2] /\ sp[2] <= Len(v)}

Spanned(v) == {a \in [spans : SUBSET Pairs(v), state : Formats, cursor : Nat, next : Nat] :
                 1 <= a.cursor /\ a.cursor <= a.next}
LEMMA SpanAtKeeps ==
  ASSUME NEW v \in Line, NEW i \in 1 .. Len(v), NEW acc \in Spanned(v)
  PROVE  SpanAt(acc, v, i) \in Spanned(v)
<1>1. CASE v[i].c # "U" \/ i < acc.next
  <2>1. SpanAt(acc, v, i) = acc
    BY <1>1 DEF SpanAt
  <2> QED
    BY <2>1
<1>2. CASE ~(v[i].c # "U" \/ i < acc.next)
  <2> DEFINE st == Advance(v, acc.cursor, i - 1, acc.state)
             code == <<[k \in 1 .. st.code |-> "tick"]>>
             open == IF st.code # 0 THEN code ELSE [k \in DOMAIN st.styles |-> <<st.styles[k]>>]
             e == UrlTail(v, i, open)
             w == WordEnd(v, i)
  <2>1. SpanAt(acc, v, i) = [spans |-> acc.spans \cup {<<i, e>>}, state |-> st, cursor |-> e + 1, next |-> w + 1]
    BY <1>2 DEF SpanAt, AfterUrl
  <2>2. st \in Formats
    <3>1. acc.cursor \in Nat /\ acc.next \in Nat /\ acc.state \in Formats /\ 1 <= acc.cursor /\ acc.cursor <= acc.next
      BY DEF Spanned
    <3>2. Len(v) \in Nat /\ i \in Nat
      BY DEF Line
    <3>3. acc.cursor \in 1 .. Len(v) + 1 /\ i - 1 \in acc.cursor - 1 .. Len(v)
      BY <1>2, <3>1, <3>2
    <3> QED
      BY <3>1, <3>3, AdvanceKeeps
  <2> HIDE DEF st
  <2>3. open \in Seq(Seq(Kinds))
    <3>0. st.code \in Nat /\ st.styles \in Seq(Styles) /\ "tick" \in Kinds /\ \A c \in Styles : c \in Kinds
      BY <2>2, KindFacts DEF Formats
    <3>1. [k \in 1 .. st.code |-> "tick"] \in Seq(Kinds)
      BY <3>0
    <3> DEFINE x == [k \in 1 .. st.code |-> "tick"]
    <3>2. code \in Seq(Seq(Kinds))
      <4>1. x \in Seq(Kinds)
        BY <3>1
      <4> HIDE DEF x
      <4>2. <<x>> \in Seq(Seq(Kinds))
        BY <4>1
      <4> QED
        BY <4>2 DEF x
    <3>3. [k \in DOMAIN st.styles |-> <<st.styles[k]>>] \in Seq(Seq(Kinds))
      <4> DEFINE ss == st.styles
      <4>1. ss \in Seq(Styles)
        BY <3>0
      <4> HIDE DEF ss
      <4>2. DOMAIN ss = 1 .. Len(ss) /\ Len(ss) \in Nat /\ \A k \in 1 .. Len(ss) : ss[k] \in Kinds
        BY <4>1, <3>0
      <4>3. \A k \in 1 .. Len(ss) : <<ss[k]>> \in Seq(Kinds)
        BY <4>2
      <4> DEFINE o(k) == <<ss[k]>>
      <4>4. [k \in DOMAIN ss |-> <<ss[k]>>] = [k \in 1 .. Len(ss) |-> o(k)]
        BY <4>2
      <4>5. \A k \in 1 .. Len(ss) : o(k) \in Seq(Kinds)
        BY <4>3
      <4> HIDE DEF o
      <4>6. [k \in 1 .. Len(ss) |-> o(k)] \in Seq(Seq(Kinds))
        BY <4>2, <4>5
      <4> QED
        BY <4>4, <4>6 DEF ss
    <3> HIDE DEF code
    <3> QED
      BY <3>2, <3>3
  <2> HIDE DEF open
  <2>4. e \in i .. w /\ w \in i .. Len(v)
    BY <1>2, <2>3, UrlTailIn, WordEndIn
  <2> HIDE DEF e, w
  <2>5. Len(v) \in Nat
    BY DEF Line
  <2>6. <<i, e>> \in Pairs(v)
    BY <2>4, <2>5 DEF Pairs
  <2>7. e + 1 \in Nat /\ w + 1 \in Nat /\ 1 <= e + 1 /\ e + 1 <= w + 1
    BY <2>4, <2>5
  <2>8. acc.spans \cup {<<i, e>>} \in SUBSET Pairs(v)
    BY <2>6 DEF Spanned
  <2> QED
    BY <2>1, <2>2, <2>7, <2>8 DEF Spanned
<1> QED
  BY <1>1, <1>2

LEMMA UrlSpansIn ==
  ASSUME NEW v \in Line PROVE UrlSpans(v) \subseteq Pairs(v)
<1> DEFINE n == Len(v)
           base == [spans |-> {}, state |-> NoFormat, cursor |-> 1, next |-> 1]
           S(k) == Spanned(v)
           Step(a, k) == SpanAt(a, v, k)
           R == [k \in 0 .. n |-> S(k)]
           H == [k \in 1 .. n |-> [a \in S(k - 1) |-> Step(a, k)]]
           g == CHOOSE h : h = [k \in 0 .. n |-> IF k = 0 THEN base ELSE Step(h[k - 1], k)]
<1>b. n \in Nat
  BY DEF Line
<1>2. UrlSpans(v) = g[n].spans
  BY Zenon DEF UrlSpans, Rounds
<1>d. base \in Spanned(v)
  BY DEF Spanned, Formats, NoFormat
<1> HIDE DEF base
<1>c. base \in S(0) /\ S(n) = Spanned(v) /\ \A k \in 1 .. n : \A a \in S(k - 1) : Step(a, k) \in S(k)
  BY <1>d, SpanAtKeeps
<1> HIDE DEF n
<1> HIDE DEF S, Step
<1>3. Leads(H, R, n) /\ base \in R[0]
  <2>1. \A k \in 1 .. n : k - 1 \in 0 .. n /\ k \in 0 .. n
    BY <1>b
  <2> QED
    BY <1>b, <1>c, <2>1 DEF Leads
<1>4. \E h : h = [k \in 0 .. n |-> IF k = 0 THEN base ELSE Step(h[k - 1], k)]
  <2> HIDE DEF R, H
  <2>1. PICK h : Looping(h, base, H, R, n)
    BY <1>b, <1>3, RoundsRun
  <2>2. h[0] = base /\ \A k \in 1 .. n : h[k] = Step(h[k - 1], k)
    <3>1. \A k \in 1 .. n : k - 1 \in 0 .. n /\ h[k - 1] \in S(k - 1)
      BY <2>1, <1>b DEF Looping, R
    <3> QED
      BY <2>1, <3>1 DEF Looping, H
  <2> DEFINE d == [k \in 0 .. n |-> h[k]]
  <2>3. \A k \in 0 .. n : d[k] = IF k = 0 THEN base ELSE Step(d[k - 1], k)
    <3>1. \A k \in 0 .. n : k # 0 => k \in 1 .. n /\ k - 1 \in 0 .. n
      BY <1>b
    <3> QED
      BY <2>2, <3>1
  <2>4. d = [k \in 0 .. n |-> d[k]]
    OBVIOUS
  <2> HIDE DEF d
  <2> QED
    BY <2>3, <2>4
<1>5. g = [k \in 0 .. n |-> IF k = 0 THEN base ELSE Step(g[k - 1], k)]
  BY <1>4
<1> HIDE DEF g
<1>6. g[n] \in S(n)
  <2>1. g[0] \in R[0] /\ 0 \in 0 .. n /\ n \in 0 .. n
    BY <1>b, <1>3, <1>5
  <2>2. ASSUME NEW k \in 1 .. n, g[k - 1] \in R[k - 1] PROVE g[k] \in R[k]
    <3>1. k \in 0 .. n /\ k - 1 \in 0 .. n /\ k # 0
      BY <1>b
    <3> QED
      BY <2>2, <3>1, <1>c, <1>5
  <2>3. g[n] \in R[n]
    <3> HIDE DEF R
    <3> QED
      BY <1>b, <2>1, <2>2, RoundsKeep
  <2> QED
    BY <2>1, <2>3
<1> QED
  BY <1>2, <1>6, <1>c DEF Spanned

LEMMA SpansIn ==
  ASSUME NEW v \in Line, NEW names PROVE Spans(v, names) \subseteq Pairs(v)
<1>1. ASSUME NEW i \in DOMAIN v, MentionAlone(v, i) PROVE <<i, i + 1>> \in Pairs(v)
  <2>1. KindAt(v, i + 1) = "n"
    BY <1>1, Zenon DEF MentionAlone
  <2>2. i + 1 \in DOMAIN v
    <3> SUFFICES ASSUME i + 1 \notin DOMAIN v PROVE FALSE
      OBVIOUS
    <3> QED
      BY <2>1, Zenon DEF KindAt
  <2>3. Len(v) \in Nat /\ DOMAIN v = 1 .. Len(v)
    BY DEF Line
  <2> QED
    BY <2>2, <2>3 DEF Pairs
<1>2. Mentions(v, UrlSpans(v), names) \subseteq Pairs(v)
  BY <1>1 DEF Mentions
<1> QED
  BY <1>2, UrlSpansIn DEF Spans, WithMentions

-----------------------------------------------------------------------------
(* The units of a text: one after the other they are the text.               *)

\* A unit that is neither a span nor a letter shows nothing.
UnitSet(v) == {u \in [from : Nat, to : Nat, atomic : BOOLEAN] :
                 /\ 1 <= u.from /\ u.from <= u.to /\ u.to <= Len(v)
                 /\ ~u.atomic /\ v[u.from].c \in Styles \cup {"tick"} => Hidden(Chars(v, u))}
EndOf(us, k) == IF k = 0 THEN 0 ELSE us[k].to
Adjacent(us) == \A k \in 1 .. Len(us) : us[k].from = EndOf(us, k - 1) + 1
InUnits(v, k) == {a \in [units : Seq(UnitSet(v)), next : Nat] :
                    /\ k + 1 <= a.next /\ a.next <= Len(v) + 1 /\ Adjacent(a.units)
                    /\ EndOf(a.units, Len(a.units)) + 1 = a.next}

SpanFree(spans, i, j) == \A sp \in spans : sp[1] \notin i .. j
LEMMA UnitEndIs ==
  ASSUME NEW v \in Line, NEW spans, spans \subseteq Pairs(v), NEW i \in 1 .. Len(v)
  PROVE  /\ UnitEnd(v, spans, i) \in i .. Len(v)
         /\ (\A sp \in spans : sp[1] # i) /\ v[i].c = "tick" => UnitEnd(v, spans, i) \in i .. RunEnd(v, i)
         /\ (\A sp \in spans : sp[1] # i) /\ v[i].c # "tick" => UnitEnd(v, spans, i) = i
<1> DEFINE mine == {sp \in spans : sp[1] = i}
           e == RunEnd(v, i)
           cut == CHOOSE j \in i .. e : /\ SpanFree(spans, i, j)
                                        /\ j = e \/ \E sp \in spans : sp[1] = j + 1
           first == CHOOSE sp \in mine : TRUE
<1>0. Len(v) \in Nat /\ e \in i .. Len(v) /\ \A sp \in spans : sp[1] \in Nat /\ sp[2] \in Nat /\ sp[1] <= sp[2] /\ sp[2] <= Len(v)
  BY RunEndIs DEF RunFrom, Line, Pairs
<1>1. UnitEnd(v, spans, i) = CASE mine # {} -> first[2]
                               [] mine = {} /\ v[i].c = "tick" -> cut
                               [] OTHER -> i
  BY DEF UnitEnd, SpanFree
<1> HIDE DEF e
<1>2. ASSUME mine # {} PROVE first[2] \in i .. Len(v)
  <2>1. first \in mine
    BY <1>2
  <2> HIDE DEF first
  <2> QED
    BY <2>1, <1>0
<1> HIDE DEF first
<1>3. ASSUME mine = {} PROVE cut \in i .. e
  <2> DEFINE S == {j \in i .. e : j = e \/ \E sp \in spans : sp[1] = j + 1}
  <2>1. e \in S /\ S \subseteq Nat
    BY <1>0
  <2>2. PICK j \in S : \A y \in S : j <= y
    <3> HIDE DEF S
    <3> QED
      BY <2>1, LeastExists
  <2>3. SpanFree(spans, i, j)
    <3> SUFFICES ASSUME NEW sp \in spans, sp[1] \in i .. j PROVE FALSE
      BY DEF SpanFree
    <3>1. sp[1] # i
      BY <1>3
    <3>2. sp[1] - 1 \in i .. e /\ ~(j <= sp[1] - 1) /\ (sp[1] - 1) + 1 = sp[1]
      BY <3>1, <1>0, <2>2
    <3>3. sp[1] - 1 \in S
      BY <3>2
    <3> QED
      BY <3>2, <3>3, <2>2
  <2>4. j \in i .. e /\ (j = e \/ \E sp \in spans : sp[1] = j + 1)
    BY <2>2
  <2> QED
    BY <2>3, <2>4
<1> HIDE DEF cut
<1>4. CASE mine # {}
  BY <1>1, <1>2, <1>4
<1>5. CASE mine = {}
  <2>1. CASE v[i].c = "tick"
    <3>1. UnitEnd(v, spans, i) = cut
      BY <1>1, <1>5, <2>1
    <3> QED
      BY <1>0, <1>3, <1>5, <2>1, <3>1 DEF e
  <2>2. CASE v[i].c # "tick"
    <3>1. UnitEnd(v, spans, i) = i
      BY <1>1, <1>5, <2>2
    <3> QED
      BY <1>0, <1>5, <2>2, <3>1
  <2> QED
    BY <2>1, <2>2
<1> QED
  BY <1>4, <1>5

LEMMA UnitAtKeeps ==
  ASSUME NEW v \in Line, NEW spans, spans \subseteq Pairs(v), NEW i \in 1 .. Len(v), NEW acc \in InUnits(v, i - 1)
  PROVE  UnitAt(acc, v, spans, i) \in InUnits(v, i)
<1>0. /\ Len(v) \in Nat /\ acc.units \in Seq(UnitSet(v)) /\ acc.next \in Nat /\ (i - 1) + 1 <= acc.next
      /\ acc.next <= Len(v) + 1 /\ Adjacent(acc.units) /\ EndOf(acc.units, Len(acc.units)) + 1 = acc.next
  BY DEF InUnits, Line
<1>1. CASE i < acc.next
  <2>1. UnitAt(acc, v, spans, i) = acc
    BY <1>1 DEF UnitAt
  <2>2. i + 1 <= acc.next
    BY <1>0, <1>1
  <2> QED
    BY <2>1, <2>2 DEF InUnits
<1>2. CASE ~(i < acc.next)
  <2> DEFINE e == UnitEnd(v, spans, i)
             atomic == \E sp \in spans : sp[1] = i
             u == [from |-> i, to |-> e, atomic |-> atomic]
             us == acc.units
             ws == Append(us, u)
             n == Len(us)
  <2>1. UnitAt(acc, v, spans, i) = [units |-> ws, next |-> e + 1] /\ acc.next = i
    BY <1>0, <1>2 DEF UnitAt
  <2>2. e \in i .. Len(v) /\ (~atomic /\ v[i].c = "tick" => e \in i .. RunEnd(v, i)) /\ (~atomic /\ v[i].c # "tick" => e = i)
    BY UnitEndIs
  <2>a. atomic \in BOOLEAN
    OBVIOUS
  <2> HIDE DEF e, atomic
  <2>3. ASSUME ~atomic, v[i].c \in Styles \cup {"tick"} PROVE Hidden(SubSeq(v, i, e))
    <3>1. e \in i .. RunEnd(v, i) /\ RunEnd(v, i) \in i .. Len(v) /\ \A k \in i .. RunEnd(v, i) : v[k].c = v[i].c
      <4>1. RunEnd(v, i) \in i .. Len(v) /\ \A k \in i .. RunEnd(v, i) : v[k].c = v[i].c
        BY RunEndIs DEF RunFrom
      <4> QED
        BY <2>2, <2>3, <4>1
    <3> DEFINE s == SubSeq(v, i, e)
    <3>2. i \in 1 .. Len(v) + 1 /\ e \in 0 .. Len(v) /\ i <= e
      BY <1>0, <2>2
    <3>3. s \in Line /\ Len(s) = e - i + 1 /\ \A k \in 1 .. e - i + 1 : s[k] = v[i + k - 1]
      BY <3>2, PartOfLine
    <3> HIDE DEF s
    <3>4. DOMAIN s = 1 .. e - i + 1
      BY <3>3 DEF Line
    <3>5. v[i].c \notin VisibleKinds
      BY <2>3, KindFacts
    <3>6. \A k \in 1 .. e - i + 1 : i + k - 1 \in i .. RunEnd(v, i)
      BY <3>1, <3>2
    <3> QED
      BY <3>1, <3>3, <3>4, <3>5, <3>6 DEF Hidden, s
  <2>4. u \in UnitSet(v)
    <3>1. Chars(v, u) = SubSeq(v, i, e)
      BY DEF Chars
    <3>2. e \in Nat /\ i \in Nat /\ 1 <= i /\ i <= e /\ e <= Len(v)
      BY <1>0, <2>2
    <3> QED
      BY <2>3, <2>a, <3>1, <3>2 DEF UnitSet
  <2>5. u.from = i /\ u.to = e
    OBVIOUS
  <2> HIDE DEF u
  <2>6. ws \in Seq(UnitSet(v)) /\ Len(ws) = n + 1 /\ n \in Nat /\ ws[n + 1] = u /\ \A k \in 1 .. n : ws[k] = us[k]
    BY <1>0, <2>4, AppendProperties
  <2> HIDE DEF ws, us
  <2>7. \A k \in 0 .. n : EndOf(ws, k) = EndOf(us, k)
    <3>1. \A k \in 0 .. n : k = 0 \/ k \in 1 .. n
      BY <2>6
    <3> QED
      BY <2>6, <3>1 DEF EndOf
  <2>8. EndOf(us, n) + 1 = i /\ Adjacent(us)
    BY <1>0, <2>1 DEF us
  <2>9. Adjacent(ws)
    <3> SUFFICES ASSUME NEW k \in 1 .. n + 1 PROVE ws[k].from = EndOf(ws, k - 1) + 1
      BY <2>6 DEF Adjacent
    <3>1. CASE k = n + 1
      <4>1. EndOf(ws, n) + 1 = i /\ k - 1 = n
        BY <2>6, <2>7, <2>8, <3>1
      <4> QED
        BY <4>1, <3>1, <2>5, <2>6
    <3>2. CASE k # n + 1
      <4>1. k \in 1 .. n /\ k - 1 \in 0 .. n
        BY <2>6, <3>2
      <4>2. us[k].from = EndOf(us, k - 1) + 1
        BY <4>1, <2>8 DEF Adjacent
      <4> QED
        BY <4>1, <4>2, <2>6, <2>7
    <3> QED
      BY <3>1, <3>2
  <2>10. EndOf(ws, Len(ws)) = e
    BY <2>5, <2>6 DEF EndOf
  <2>11. e + 1 \in Nat /\ i + 1 <= e + 1 /\ e + 1 <= Len(v) + 1
    BY <1>0, <2>2
  <2> QED
    BY <2>1, <2>6, <2>9, <2>10, <2>11 DEF InUnits
<1> QED
  BY <1>1, <1>2

LEMMA UnitsAre ==
  ASSUME NEW v \in Line, NEW names
  PROVE  /\ Units(v, names) \in Seq(UnitSet(v)) /\ Adjacent(Units(v, names))
         /\ EndOf(Units(v, names), Len(Units(v, names))) = Len(v)
<1> DEFINE n == Len(v)
           spans == Spans(v, names)
           base == [units |-> <<>>, next |-> 1]
           S(k) == InUnits(v, k)
           Step(a, k) == UnitAt(a, v, spans, k)
           R == [k \in 0 .. n |-> S(k)]
           H == [k \in 1 .. n |-> [a \in S(k - 1) |-> Step(a, k)]]
           g == CHOOSE h : h = [k \in 0 .. n |-> IF k = 0 THEN base ELSE Step(h[k - 1], k)]
<1>b. n \in Nat /\ spans \subseteq Pairs(v)
  BY SpansIn DEF Line
<1>2. Units(v, names) = g[n].units
  BY Zenon DEF Units, UnitsAround, Rounds
<1> HIDE DEF spans
<1>d. base \in InUnits(v, 0)
  <2>1. base \in [units : Seq(UnitSet(v)), next : Nat] /\ base.units = <<>> /\ base.next = 1
    OBVIOUS
  <2> HIDE DEF base
  <2>2. Adjacent(<<>>) /\ EndOf(<<>>, Len(<<>>)) = 0
    BY DEF Adjacent, EndOf
  <2> QED
    BY <1>b, <2>1, <2>2 DEF InUnits
<1>c. base \in S(0) /\ S(n) = InUnits(v, n) /\ \A k \in 1 .. n : \A a \in S(k - 1) : Step(a, k) \in S(k)
  BY <1>b, <1>d, UnitAtKeeps
<1> HIDE DEF n, base
<1> HIDE DEF S, Step
<1>3. Leads(H, R, n) /\ base \in R[0]
  <2>1. \A k \in 1 .. n : k - 1 \in 0 .. n /\ k \in 0 .. n
    BY <1>b
  <2> QED
    BY <1>b, <1>c, <2>1 DEF Leads
<1>4. \E h : h = [k \in 0 .. n |-> IF k = 0 THEN base ELSE Step(h[k - 1], k)]
  <2> HIDE DEF R, H
  <2>1. PICK h : Looping(h, base, H, R, n)
    BY <1>b, <1>3, RoundsRun
  <2>2. h[0] = base /\ \A k \in 1 .. n : h[k] = Step(h[k - 1], k)
    <3>1. \A k \in 1 .. n : k - 1 \in 0 .. n /\ h[k - 1] \in S(k - 1)
      BY <2>1, <1>b DEF Looping, R
    <3> QED
      BY <2>1, <3>1 DEF Looping, H
  <2> DEFINE d == [k \in 0 .. n |-> h[k]]
  <2>3. \A k \in 0 .. n : d[k] = IF k = 0 THEN base ELSE Step(d[k - 1], k)
    <3>1. \A k \in 0 .. n : k # 0 => k \in 1 .. n /\ k - 1 \in 0 .. n
      BY <1>b
    <3> QED
      BY <2>2, <3>1
  <2>4. d = [k \in 0 .. n |-> d[k]]
    OBVIOUS
  <2> HIDE DEF d
  <2> QED
    BY <2>3, <2>4
<1>5. g = [k \in 0 .. n |-> IF k = 0 THEN base ELSE Step(g[k - 1], k)]
  BY <1>4
<1> HIDE DEF g
<1>6. g[n] \in S(n)
  <2>1. g[0] \in R[0] /\ 0 \in 0 .. n /\ n \in 0 .. n
    BY <1>b, <1>3, <1>5
  <2>2. ASSUME NEW k \in 1 .. n, g[k - 1] \in R[k - 1] PROVE g[k] \in R[k]
    <3>1. k \in 0 .. n /\ k - 1 \in 0 .. n /\ k # 0
      BY <1>b
    <3> QED
      BY <2>2, <3>1, <1>c, <1>5
  <2>3. g[n] \in R[n]
    <3> HIDE DEF R
    <3> QED
      BY <1>b, <2>1, <2>2, RoundsKeep
  <2> QED
    BY <2>1, <2>3
<1> DEFINE a == g[n]
<1>7. a \in InUnits(v, Len(v)) /\ Units(v, names) = a.units
  BY <1>2, <1>6, <1>c DEF n
<1> HIDE DEF a
<1>8. /\ a.next \in Nat /\ Len(v) + 1 <= a.next /\ a.next <= Len(v) + 1 /\ a.units \in Seq(UnitSet(v))
      /\ Adjacent(a.units) /\ EndOf(a.units, Len(a.units)) + 1 = a.next
  BY <1>7 DEF InUnits
<1>9. EndOf(a.units, Len(a.units)) \in Nat
  <2> DEFINE us == a.units
  <2>1. us \in Seq(UnitSet(v))
    BY <1>8
  <2> HIDE DEF us
  <2>2. EndOf(us, Len(us)) \in Nat
    <3>1. Len(us) \in Nat /\ \A k \in 1 .. Len(us) : us[k] \in UnitSet(v)
      BY <2>1
    <3> QED
      BY <3>1 DEF EndOf, UnitSet
  <2> QED
    BY <2>2 DEF us
<1> QED
  BY <1>7, <1>8, <1>9, <1>b DEF n

-----------------------------------------------------------------------------
(* The confirmed pairs: only markers are their members.                      *)

Ticked(v, us) == {i \in 1 .. Len(us) : ~us[i].atomic /\ v[us[i].from].c = "tick"}
Styled(v, us) == {i \in 1 .. Len(us) : ~us[i].atomic /\ v[us[i].from].c \in Styles}
Marked(v, us) == Ticked(v, us) \cup Styled(v, us)
LEMMA MarkedHidden ==
  ASSUME NEW v \in Line, NEW us \in Seq(UnitSet(v)), NEW i \in Marked(v, us)
  PROVE  i \in 1 .. Len(us) /\ us[i] \in UnitSet(v) /\ Hidden(Chars(v, us[i]))
<1>1. i \in 1 .. Len(us) /\ ~us[i].atomic /\ v[us[i].from].c \in Styles \cup {"tick"}
  BY DEF Marked, Ticked, Styled
<1>2. us[i] \in UnitSet(v)
  BY <1>1
<1> QED
  BY <1>1, <1>2 DEF UnitSet

Coding(v, us) == [open : {0} \cup Ticked(v, us), pairs : SUBSET (Ticked(v, us) \X Ticked(v, us))]
LEMMA CodeAtKeeps ==
  ASSUME NEW v \in Line, NEW us \in Seq(UnitSet(v)), NEW n \in Nat, n # 0, NEW covered, NEW i \in 1 .. Len(us), NEW acc \in Coding(v, us)
  PROVE  CodeAt(acc, v, us, n, covered, i) \in Coding(v, us)
<1> DEFINE b == IF acc.open = 0 THEN [acc EXCEPT !.open = i] ELSE [open |-> 0, pairs |-> acc.pairs \cup {<<acc.open, i>>}]
           skip == i \in covered \/ TickLen(v, us[i]) # n \/ Guarded(v, us[i].from, us[i].to)
<1>1. CodeAt(acc, v, us, n, covered, i) = CASE skip -> acc [] OTHER -> b
  BY DEF CodeAt
<1>2. TickLen(v, us[i]) = n => i \in Ticked(v, us)
  BY DEF TickLen, Ticked
<1>3. ASSUME i \in Ticked(v, us) PROVE b \in Coding(v, us)
  BY <1>3 DEF Coding
<1>4. ~skip => TickLen(v, us[i]) = n
  OBVIOUS
<1> HIDE DEF b, skip
<1> QED
  BY <1>1, <1>2, <1>3, <1>4

LEMMA CodePairsIn ==
  ASSUME NEW v \in Line, NEW us \in Seq(UnitSet(v)), NEW m \in Nat, m # 0, NEW covered
  PROVE  CodePairs(v, us, m, covered) \subseteq Ticked(v, us) \X Ticked(v, us)
<1> DEFINE n == Len(us)
           base == [open |-> 0, pairs |-> {}]
           S(k) == Coding(v, us)
           Step(a, k) == CodeAt(a, v, us, m, covered, k)
           R == [k \in 0 .. n |-> S(k)]
           H == [k \in 1 .. n |-> [a \in S(k - 1) |-> Step(a, k)]]
           g == CHOOSE h : h = [k \in 0 .. n |-> IF k = 0 THEN base ELSE Step(h[k - 1], k)]
<1>b. n \in Nat
  OBVIOUS
<1>2. CodePairs(v, us, m, covered) = g[n].pairs
  BY Zenon DEF CodePairs, Rounds
<1>c. base \in S(0) /\ S(n) = Coding(v, us) /\ \A k \in 1 .. n : \A a \in S(k - 1) : Step(a, k) \in S(k)
  BY CodeAtKeeps DEF Coding
<1> HIDE DEF n, base
<1> HIDE DEF S, Step
<1>3. Leads(H, R, n) /\ base \in R[0]
  <2>1. \A k \in 1 .. n : k - 1 \in 0 .. n /\ k \in 0 .. n
    BY <1>b
  <2> QED
    BY <1>b, <1>c, <2>1 DEF Leads
<1>4. \E h : h = [k \in 0 .. n |-> IF k = 0 THEN base ELSE Step(h[k - 1], k)]
  <2> HIDE DEF R, H
  <2>1. PICK h : Looping(h, base, H, R, n)
    BY <1>b, <1>3, RoundsRun
  <2>2. h[0] = base /\ \A k \in 1 .. n : h[k] = Step(h[k - 1], k)
    <3>1. \A k \in 1 .. n : k - 1 \in 0 .. n /\ h[k - 1] \in S(k - 1)
      BY <2>1, <1>b DEF Looping, R
    <3> QED
      BY <2>1, <3>1 DEF Looping, H
  <2> DEFINE d == [k \in 0 .. n |-> h[k]]
  <2>3. \A k \in 0 .. n : d[k] = IF k = 0 THEN base ELSE Step(d[k - 1], k)
    <3>1. \A k \in 0 .. n : k # 0 => k \in 1 .. n /\ k - 1 \in 0 .. n
      BY <1>b
    <3> QED
      BY <2>2, <3>1
  <2>4. d = [k \in 0 .. n |-> d[k]]
    OBVIOUS
  <2> HIDE DEF d
  <2> QED
    BY <2>3, <2>4
<1>5. g = [k \in 0 .. n |-> IF k = 0 THEN base ELSE Step(g[k - 1], k)]
  BY <1>4
<1> HIDE DEF g
<1>6. g[n] \in S(n)
  <2>1. g[0] \in R[0] /\ 0 \in 0 .. n /\ n \in 0 .. n
    BY <1>b, <1>3, <1>5
  <2>2. ASSUME NEW k \in 1 .. n, g[k - 1] \in R[k - 1] PROVE g[k] \in R[k]
    <3>1. k \in 0 .. n /\ k - 1 \in 0 .. n /\ k # 0
      BY <1>b
    <3> QED
      BY <2>2, <3>1, <1>c, <1>5
  <2>3. g[n] \in R[n]
    <3> HIDE DEF R
    <3> QED
      BY <1>b, <2>1, <2>2, RoundsKeep
  <2> QED
    BY <2>1, <2>3
<1> QED
  BY <1>2, <1>6, <1>c DEF Coding

Styling(v, us) == [stack : Seq(Styled(v, us)), pairs : SUBSET (Styled(v, us) \X Styled(v, us))]
LEMMA StyleAtKeeps ==
  ASSUME NEW v \in Line, NEW us \in Seq(UnitSet(v)), NEW inside, NEW i \in 1 .. Len(us), NEW acc \in Styling(v, us)
  PROVE  StyleAt(acc, v, us, inside, i) \in Styling(v, us)
<1> DEFINE open == [k \in DOMAIN acc.stack |-> v[us[acc.stack[k]].from].c]
           role == StyleRole(v, us[i].from, open)
           skip == us[i].atomic \/ i \in inside \/ v[us[i].from].c \notin Styles
           x == [stack |-> Front(acc.stack), pairs |-> acc.pairs \cup {<<Last(acc.stack), i>>}]
           y == [acc EXCEPT !.stack = Append(@, i)]
           z == CASE role = "close" -> x [] role = "open" -> y [] OTHER -> acc
<1>1. StyleAt(acc, v, us, inside, i) = CASE skip -> acc [] OTHER -> z
  BY DEF StyleAt
<1>2. ~skip => i \in Styled(v, us)
  BY DEF Styled
<1>3. role = "close" => open # <<>>
  BY RoleClose
<1>4. open # <<>> => acc.stack # <<>>
  <2>1. acc.stack = <<>> => DOMAIN acc.stack = {}
    OBVIOUS
  <2> QED
    BY <2>1
<1>5. ASSUME i \in Styled(v, us), acc.stack # <<>> PROVE x \in Styling(v, us)
  <2>1. Front(acc.stack) \in Seq(Styled(v, us)) /\ Last(acc.stack) \in Styled(v, us)
    BY <1>5, StylesFront DEF Styling
  <2> QED
    BY <1>5, <2>1 DEF Styling
<1>6. ASSUME i \in Styled(v, us) PROVE y \in Styling(v, us)
  <2>1. Append(acc.stack, i) \in Seq(Styled(v, us))
    <3>1. acc.stack \in Seq(Styled(v, us))
      BY DEF Styling
    <3> QED
      BY <1>6, <3>1, AppendProperties
  <2> DEFINE st == Append(acc.stack, i)
  <2> HIDE DEF st
  <2> QED
    BY <2>1 DEF Styling, st
<1> HIDE DEF x, y, open
<1>7. z \in {x, y, acc} /\ (z = x => role = "close" \/ x = y \/ x = acc)
  OBVIOUS
<1>8. role = "close" => z = x
  OBVIOUS
<1>9. role # "close" => z \in {y, acc}
  OBVIOUS
<1> HIDE DEF z, role, skip
<1> QED
  BY <1>1, <1>2, <1>3, <1>4, <1>5, <1>6, <1>8, <1>9

LEMMA StylePairsIn ==
  ASSUME NEW v \in Line, NEW us \in Seq(UnitSet(v)), NEW inside
  PROVE  StylePairs(v, us, inside) \subseteq Styled(v, us) \X Styled(v, us)
<1> DEFINE n == Len(us)
           base == [stack |-> <<>>, pairs |-> {}]
           S(k) == Styling(v, us)
           Step(a, k) == StyleAt(a, v, us, inside, k)
           R == [k \in 0 .. n |-> S(k)]
           H == [k \in 1 .. n |-> [a \in S(k - 1) |-> Step(a, k)]]
           g == CHOOSE h : h = [k \in 0 .. n |-> IF k = 0 THEN base ELSE Step(h[k - 1], k)]
<1>b. n \in Nat
  OBVIOUS
<1>2. StylePairs(v, us, inside) = g[n].pairs
  BY Zenon DEF StylePairs, Rounds
<1>c. base \in S(0) /\ S(n) = Styling(v, us) /\ \A k \in 1 .. n : \A a \in S(k - 1) : Step(a, k) \in S(k)
  <2>1. <<>> \in Seq(Styled(v, us))
    BY EmptySeq
  <2>2. base \in Styling(v, us)
    BY <2>1 DEF Styling
  <2> QED
    BY <2>2, StyleAtKeeps
<1> HIDE DEF n, base
<1> HIDE DEF S, Step
<1>3. Leads(H, R, n) /\ base \in R[0]
  <2>1. \A k \in 1 .. n : k - 1 \in 0 .. n /\ k \in 0 .. n
    BY <1>b
  <2> QED
    BY <1>b, <1>c, <2>1 DEF Leads
<1>4. \E h : h = [k \in 0 .. n |-> IF k = 0 THEN base ELSE Step(h[k - 1], k)]
  <2> HIDE DEF R, H
  <2>1. PICK h : Looping(h, base, H, R, n)
    BY <1>b, <1>3, RoundsRun
  <2>2. h[0] = base /\ \A k \in 1 .. n : h[k] = Step(h[k - 1], k)
    <3>1. \A k \in 1 .. n : k - 1 \in 0 .. n /\ h[k - 1] \in S(k - 1)
      BY <2>1, <1>b DEF Looping, R
    <3> QED
      BY <2>1, <3>1 DEF Looping, H
  <2> DEFINE d == [k \in 0 .. n |-> h[k]]
  <2>3. \A k \in 0 .. n : d[k] = IF k = 0 THEN base ELSE Step(d[k - 1], k)
    <3>1. \A k \in 0 .. n : k # 0 => k \in 1 .. n /\ k - 1 \in 0 .. n
      BY <1>b
    <3> QED
      BY <2>2, <3>1
  <2>4. d = [k \in 0 .. n |-> d[k]]
    OBVIOUS
  <2> HIDE DEF d
  <2> QED
    BY <2>3, <2>4
<1>5. g = [k \in 0 .. n |-> IF k = 0 THEN base ELSE Step(g[k - 1], k)]
  BY <1>4
<1> HIDE DEF g
<1>6. g[n] \in S(n)
  <2>1. g[0] \in R[0] /\ 0 \in 0 .. n /\ n \in 0 .. n
    BY <1>b, <1>3, <1>5
  <2>2. ASSUME NEW k \in 1 .. n, g[k - 1] \in R[k - 1] PROVE g[k] \in R[k]
    <3>1. k \in 0 .. n /\ k - 1 \in 0 .. n /\ k # 0
      BY <1>b
    <3> QED
      BY <2>2, <3>1, <1>c, <1>5
  <2>3. g[n] \in R[n]
    <3> HIDE DEF R
    <3> QED
      BY <1>b, <2>1, <2>2, RoundsKeep
  <2> QED
    BY <2>1, <2>3
<1> QED
  BY <1>2, <1>6, <1>c DEF Styling

RolesOk(v, us, roles) == /\ roles.code \subseteq Ticked(v, us) \X Ticked(v, us)
                         /\ roles.style \subseteq Styled(v, us) \X Styled(v, us)
                         /\ roles.ignored \subseteq Marked(v, us)
LEMMA RolesFit ==
  ASSUME NEW v \in Line, NEW us \in Seq(UnitSet(v)), NEW limit
  PROVE  RolesOk(v, us, FitToLimit(v, us, PairedDelimiters(v, us), limit))
<1> DEFINE roles == PairedDelimiters(v, us)
           fit == FitToLimit(v, us, roles, limit)
<1>1. roles.code \subseteq Ticked(v, us) \X Ticked(v, us) /\ roles.style \subseteq Styled(v, us) \X Styled(v, us)
  BY CodePairsIn, StylePairsIn DEF PairedDelimiters
<1> HIDE DEF roles
<1> DEFINE kept == KeptPairs(us, roles, limit)
<1>2. fit = [code |-> roles.code \cap kept, style |-> roles.style \cap kept,
             ignored |-> {p[k] : p \in (roles.code \cup roles.style) \ kept, k \in {1, 2}}]
  BY DEF FitToLimit
<1> HIDE DEF kept
<1>3. \A p \in roles.code \cup roles.style : p[1] \in Marked(v, us) /\ p[2] \in Marked(v, us)
  BY <1>1 DEF Marked
<1> HIDE DEF fit
<1>4. RolesOk(v, us, fit)
  BY <1>1, <1>2, <1>3 DEF RolesOk
<1> QED
  BY <1>4 DEF fit, roles

-----------------------------------------------------------------------------
(* The chunks.                                                               *)

LEMMA SubSeqKeeps ==
  ASSUME NEW S, NEW s \in Seq(S), NEW i \in 1 .. Len(s) + 1, NEW j \in 0 .. Len(s)
  PROVE  SubSeq(s, i, j) \in Seq(S)
<1>1. Len(s) \in Nat /\ \A k \in i .. j : s[k] \in S
  OBVIOUS
<1> QED
  BY <1>1, SubSeqProperties

LEMMA RemoveFirstType ==
  ASSUME NEW S, NEW s \in Seq(S), NEW c PROVE RemoveFirst(s, c) \in Seq(S)
<1> DEFINE I == {i \in 1 .. Len(s) : s[i] = c}
<1>1. CASE I = {}
  <2>1. RemoveFirst(s, c) = s
    BY <1>1 DEF RemoveFirst
  <2> QED
    BY <2>1
<1>2. CASE I # {}
  <2>1. RemoveFirst(s, c) = RemoveAt(s, Min(I))
    <3>1. SelectInSeq(s, LAMBDA v : v = c) = Min(I)
      BY <1>2, Zenon DEF SelectInSeq
    <3>2. \E i \in 1 .. Len(s) : s[i] = c
      BY <1>2
    <3> QED
      BY <3>1, <3>2, Zenon DEF RemoveFirst
  <2>2. Min(I) \in 1 .. Len(s)
    <3>1. I \subseteq Nat
      OBVIOUS
    <3>2. \E x \in I : \A y \in I : x <= y
      <4> HIDE DEF I
      <4> QED
        BY <1>2, <3>1, LeastExists
    <3>3. Min(I) \in I
      BY <3>2 DEF Min
    <3> QED
      BY <3>3
  <2> DEFINE m == Min(I)
  <2> HIDE DEF I, m
  <2>3. /\ 1 \in 1 .. Len(s) + 1 /\ m - 1 \in 0 .. Len(s) /\ m + 1 \in 1 .. Len(s) + 1 /\ Len(s) \in 0 .. Len(s)
    BY <2>2 DEF m
  <2>4. SubSeq(s, 1, m - 1) \in Seq(S) /\ SubSeq(s, m + 1, Len(s)) \in Seq(S)
    BY <2>3, SubSeqKeeps
  <2>5. RemoveAt(s, m) \in Seq(S)
    BY <2>4 DEF RemoveAt
  <2> QED
    BY <2>1, <2>5 DEF m
<1> QED
  BY <1>1, <1>2

LEMMA StateAfterKeeps ==
  ASSUME NEW v \in Line, NEW us \in Seq(UnitSet(v)), NEW roles, RolesOk(v, us, roles), NEW i \in 1 .. Len(us), NEW st \in Formats
  PROVE  StateAfter(st, v, us, roles, i) \in Formats
<1> DEFINE c == v[us[i].from].c
           old == st.styles
           w == [st EXCEPT !.code = us[i].to - us[i].from + 1]
           x == [st EXCEPT !.code = 0]
           y == [st EXCEPT !.styles = Append(@, c)]
           shut == IF old # <<>> /\ Last(old) = c THEN Front(old) ELSE RemoveFirst(old, c)
           z == [st EXCEPT !.styles = shut]
           a1 == i \in Opens(roles.code)
           a2 == i \in Closes(roles.code)
           a3 == i \in Opens(roles.style)
           a4 == i \in Closes(roles.style)
<1>1. StateAfter(st, v, us, roles, i) = CASE a1 -> w [] a2 -> x [] a3 -> y [] a4 -> z [] OTHER -> st
  BY DEF StateAfter
<1>2. st.styles \in Seq(Styles) /\ st.code \in Nat /\ us[i] \in UnitSet(v)
  BY DEF Formats
<1>3. w \in Formats
  <2>1. us[i].to - us[i].from + 1 \in Nat
    BY <1>2 DEF UnitSet
  <2> QED
    BY <2>1 DEF Formats
<1>4. x \in Formats
  BY DEF Formats
<1>5. a3 => y \in Formats
  <2> SUFFICES ASSUME a3 PROVE y \in Formats
    OBVIOUS
  <2>1. c \in Styles
    BY DEF RolesOk, Opens, Styled
  <2>2. Append(old, c) \in Seq(Styles)
    BY <1>2, <2>1, AppendProperties
  <2> DEFINE q == Append(old, c)
  <2>3. y = [st EXCEPT !.styles = q]
    OBVIOUS
  <2> HIDE DEF q, y
  <2> QED
    BY <2>2, <2>3 DEF Formats, q
<1>6. z \in Formats
  <2>1. shut \in Seq(Styles)
    <3>1. RemoveFirst(old, c) \in Seq(Styles)
      BY <1>2, RemoveFirstType
    <3>2. old # <<>> => Front(old) \in Seq(Styles)
      BY <1>2, StylesFront
    <3> QED
      BY <3>1, <3>2
  <2> HIDE DEF shut
  <2> QED
    BY <2>1 DEF Formats
<1> HIDE DEF w, x, y, z, a1, a2, a3, a4
<1> QED
  BY <1>1, <1>3, <1>4, <1>5, <1>6

LEMMA ReverseHidden ==
  ASSUME NEW t \in Line, Hidden(t) PROVE Reverse(t) \in Line /\ Hidden(Reverse(t))
<1>1. Reverse(t) \in Line /\ Len(Reverse(t)) = Len(t)
  BY ReverseType DEF Line
<1>2. \A i \in 1 .. Len(t) : (Len(t) - i) + 1 \in 1 .. Len(t)
  BY DEF Line
<1>3. DOMAIN t = 1 .. Len(t)
  BY DEF Line
<1>4. \A i \in 1 .. Len(t) : Reverse(t)[i].c \notin VisibleKinds
  BY <1>2, <1>3 DEF Reverse, Hidden
<1>5. DOMAIN Reverse(t) = 1 .. Len(t)
  BY DEF Reverse
<1> QED
  BY <1>1, <1>4, <1>5 DEF Hidden

LEMMA WrapperHidden ==
  ASSUME NEW st \in Formats
  PROVE  /\ Wrapper(st).prefix \in Line /\ Hidden(Wrapper(st).prefix)
         /\ Wrapper(st).suffix \in Line /\ Hidden(Wrapper(st).suffix)
<1> DEFINE styles(s) == [k \in DOMAIN st.styles |-> Mark(st.styles[k], 0, s)]
           code(s)   == [k \in 1 .. st.code |-> Mark("tick", 0, s)]
<1>1. ASSUME NEW s \in {"none", "open", "close"} PROVE code(s) \in Line /\ Hidden(code(s))
  <2>1. st.code \in Nat /\ "tick" \in Styles \cup {"tick"}
    BY DEF Formats
  <2> QED
    BY <2>1, MarksHidden
<1>2. ASSUME NEW s \in {"none", "open", "close"} PROVE styles(s) \in Line /\ Hidden(styles(s))
  <2>1. st.styles \in Seq(Styles)
    BY DEF Formats
  <2>2. \A c \in Styles : Mark(c, 0, s) \in Characters /\ Mark(c, 0, s).c \notin VisibleKinds
    BY KindFacts DEF Mark, Characters
  <2>3. Len(st.styles) \in Nat /\ DOMAIN st.styles = 1 .. Len(st.styles) /\ \A k \in 1 .. Len(st.styles) : st.styles[k] \in Styles
    BY <2>1
  <2>4. styles(s) \in Line
    BY <2>2, <2>3 DEF Line
  <2>5. Hidden(styles(s))
    BY <2>2, <2>3 DEF Hidden
  <2> QED
    BY <2>4, <2>5
<1>3. Wrapper(st) = [prefix |-> styles("open") \o code("open"), suffix |-> code("close") \o Reverse(styles("close"))]
  BY DEF Wrapper
<1> HIDE DEF styles, code
<1>4. Reverse(styles("close")) \in Line /\ Hidden(Reverse(styles("close")))
  BY <1>2, ReverseHidden
<1>5. /\ styles("open") \o code("open") \in Line /\ Hidden(styles("open") \o code("open"))
      /\ code("close") \o Reverse(styles("close")) \in Line /\ Hidden(code("close") \o Reverse(styles("close")))
  BY <1>1, <1>2, <1>4, HiddenConcat, PlacesConcat
<1> QED
  BY <1>3, <1>5

LEMMA RoleCharsKeep ==
  ASSUME NEW v \in Line, NEW u \in UnitSet(v), NEW s \in {"none", "open", "close"}
  PROVE  RoleChars(v, u, s) \in Line /\ Places(RoleChars(v, u, s)) = Places(Chars(v, u))
<1> DEFINE t == RoleChars(v, u, s)
           cs == Chars(v, u)
           n == u.to - u.from + 1
<1>1. u.from \in 1 .. Len(v) + 1 /\ u.to \in 0 .. Len(v) /\ u.from <= u.to /\ n \in Nat /\ Len(v) \in Nat
  BY DEF UnitSet, Line
<1>2. cs \in Line /\ Len(cs) = n /\ \A k \in 1 .. n : cs[k] = v[u.from + k - 1]
  BY <1>1, PartOfLine DEF Chars
<1>3. \A k \in 1 .. n : cs[k] \in Characters
  BY <1>2 DEF Line
<1>4. \A k \in 1 .. n : [cs[k] EXCEPT !.s = s] \in Characters /\ [cs[k] EXCEPT !.s = s].c = cs[k].c /\ [cs[k] EXCEPT !.s = s].n = cs[k].n
  BY <1>3 DEF Characters
<1>5. t = [k \in 1 .. n |-> [cs[k] EXCEPT !.s = s]]
  BY <1>2 DEF RoleChars
<1> DEFINE x(k) == [cs[k] EXCEPT !.s = s]
<1> HIDE DEF t, cs, n
<1>6. t \in Line /\ Len(t) = n /\ \A k \in 1 .. n : t[k].c = cs[k].c /\ t[k].n = cs[k].n
  <2>1. t = [k \in 1 .. n |-> x(k)] /\ \A k \in 1 .. n : x(k) \in Characters /\ x(k).c = cs[k].c /\ x(k).n = cs[k].n
    BY <1>4, <1>5
  <2> HIDE DEF x
  <2> QED
    BY <1>1, <2>1 DEF Line
<1>7. Places(t) = Places(cs)
  BY <1>2, <1>6, PlacesSame
<1> QED
  BY <1>6, <1>7 DEF t, cs

Chunking == [chunks : Seq(Line), current : Line, payload : Nat, state : Formats]
Total(a) == Places(FlattenSeq(a.chunks)) \o Places(a.current)
Bare(a)  == a.payload = 0 => Places(a.current) = <<>>
LEMMA ChunkEnds ==
  ASSUME NEW ss \in Seq(Line), NEW t \in Line, NEW u \in Line, Hidden(u)
  PROVE  Append(ss, t \o u) \in Seq(Line) /\ Places(FlattenSeq(Append(ss, t \o u))) = Places(FlattenSeq(ss)) \o Places(t)
<1> DEFINE w == t \o u
           f == FlattenSeq(ss)
<1>1. w \in Line /\ Places(w) = Places(t)
  BY PlacesHiddenRight
<1>2. f \in Line
  BY PlacesFlatten
<1> HIDE DEF w
<1>3. FlattenSeq(Append(ss, w)) = f \o w
  BY <1>1, FlattenAppend DEF Line
<1> HIDE DEF f
<1>4. Places(f \o w) = Places(f) \o Places(w)
  BY <1>1, <1>2, PlacesConcat
<1>5. Append(ss, w) \in Seq(Line)
  BY <1>1, AppendProperties
<1> QED
  BY <1>1, <1>3, <1>4, <1>5 DEF w, f

LEMMA CutKeeps ==
  ASSUME NEW a \in Chunking, Bare(a)
  PROVE  Cut(a) \in Chunking /\ Bare(Cut(a)) /\ Total(Cut(a)) = Total(a) /\ Cut(a).state = a.state
<1> DEFINE w == Wrapper(a.state)
           ss == a.chunks
           t == a.current
           more == Append(ss, t \o w.suffix)
           b == Cut(a)
           f == Places(FlattenSeq(ss))
<1>1. /\ ss \in Seq(Line) /\ t \in Line /\ a.payload \in Nat /\ a.state \in Formats
  BY DEF Chunking
<1>2. w.prefix \in Line /\ Hidden(w.prefix) /\ w.suffix \in Line /\ Hidden(w.suffix)
  BY <1>1, WrapperHidden
<1>3. more \in Seq(Line) /\ Places(FlattenSeq(more)) = f \o Places(t)
  BY <1>1, <1>2, ChunkEnds
<1>4. Places(w.prefix) = <<>>
  BY <1>2, PlacesHidden
<1>5. b = [a EXCEPT !.chunks = IF a.payload > 0 THEN more ELSE ss, !.current = w.prefix, !.payload = 0]
  BY DEF Cut
<1>6. f \in Seq(Nat) /\ Places(t) \in Seq(Nat)
  BY <1>1, PlacesFlatten, PlacesType
<1>7. (f \o Places(t)) \o <<>> = f \o Places(t) /\ f \o <<>> = f
  BY <1>6, ConcatProperties, ConcatEmptySeq
<1> HIDE DEF more, b, w, ss, t, f
<1>8. /\ b.chunks = (IF a.payload > 0 THEN more ELSE ss) /\ b.current = w.prefix /\ b.payload = 0 /\ b.state = a.state
      /\ b \in Chunking
  BY <1>1, <1>2, <1>3, <1>5 DEF Chunking
<1>9. Total(b) = Total(a)
  <2>1. CASE a.payload > 0
    <3>1. Total(b) = (f \o Places(t)) \o <<>>
      BY <1>3, <1>4, <1>8, <2>1 DEF Total
    <3> QED
      BY <3>1, <1>7 DEF Total, f, ss, t
  <2>2. CASE ~(a.payload > 0)
    <3>1. Places(t) = <<>>
      BY <1>1, <2>2 DEF Bare, t
    <3>2. Total(b) = f \o <<>>
      BY <1>4, <1>8, <2>2 DEF Total, f
    <3>3. Total(a) = f \o <<>>
      BY <3>1 DEF Total, f, ss, t
    <3> QED
      BY <3>2, <3>3
  <2> QED
    BY <2>1, <2>2
<1> QED
  BY <1>4, <1>8, <1>9 DEF Bare, b

LEMMA FinishedKeeps ==
  ASSUME NEW a \in Chunking, Bare(a)
  PROVE  Finished(a) \in Seq(Line) /\ Places(FlattenSeq(Finished(a))) = Total(a)
<1> DEFINE w == Wrapper(a.state)
           ss == a.chunks
           t == a.current
           more == Append(ss, t \o w.suffix)
           f == Places(FlattenSeq(ss))
<1>1. /\ ss \in Seq(Line) /\ t \in Line /\ a.payload \in Nat /\ a.state \in Formats
  BY DEF Chunking
<1>2. w.suffix \in Line /\ Hidden(w.suffix)
  BY <1>1, WrapperHidden
<1>3. more \in Seq(Line) /\ Places(FlattenSeq(more)) = f \o Places(t)
  BY <1>1, <1>2, ChunkEnds
<1>4. f \in Seq(Nat)
  BY <1>1, PlacesFlatten, PlacesType
<1>5. f \o <<>> = f
  BY <1>4, ConcatEmptySeq
<1>6. Total(a) = f \o Places(t) /\ Finished(a) = IF a.payload > 0 THEN more ELSE ss
  BY DEF Total, Finished
<1>7. ~(a.payload > 0) => Places(t) = <<>>
  BY <1>1 DEF Bare
<1> HIDE DEF more, w, t
<1> QED
  BY <1>1, <1>3, <1>5, <1>6, <1>7

ChunksTo(v, us, k) == {a \in Chunking : Bare(a) /\ Total(a) = Places(SubSeq(v, 1, EndOf(us, k)))}
LEMMA ChunkAtKeeps ==
  ASSUME NEW v \in Line, NEW us \in Seq(UnitSet(v)), Adjacent(us), NEW roles, RolesOk(v, us, roles), NEW limit,
         NEW i \in 1 .. Len(us), NEW acc \in ChunksTo(v, us, i - 1)
  PROVE  ChunkAt(acc, v, us, roles, limit, i) \in ChunksTo(v, us, i)
<1> DEFINE opens == Opens(roles.code) \cup Opens(roles.style)
           ends  == Closes(roles.code) \cup Closes(roles.style)
           full(a, w) == Width(a.current) + w + Len(Wrapper(StateAfter(a.state, v, us, roles, i)).suffix) > limit
           w    == Width(Chars(v, us[i]))
           lone == /\ i \in opens /\ acc.payload > 0 /\ i < Len(us) /\ us[i + 1].atomic
                   /\ full(acc, w + Width(Chars(v, us[i + 1])))
           a    == IF lone THEN Cut(acc) ELSE acc
           b    == IF a.payload > 0 /\ i \notin ends /\ full(a, w) THEN Cut(a) ELSE a
           role == IF i \in opens THEN "open" ELSE IF i \in ends THEN "close" ELSE "none"
           cs   == RoleChars(v, us[i], role)
           line == b.current \o cs
           next == StateAfter(b.state, v, us, roles, i)
           pay  == IF role = "none" THEN b.payload + 1 ELSE b.payload
           c    == [b EXCEPT !.current = line, !.state = next, !.payload = pay]
           done == Places(SubSeq(v, 1, EndOf(us, i - 1)))
           mine == Places(Chars(v, us[i]))
<1>1. ChunkAt(acc, v, us, roles, limit, i) = IF i \in roles.ignored THEN acc ELSE c
  BY DEF ChunkAt
<1>2. us[i] \in UnitSet(v)
  OBVIOUS
<1>3. i \in opens \cup ends => i \in Marked(v, us)
  BY DEF RolesOk, Opens, Closes, Marked
<1>4. i \in roles.ignored => i \in Marked(v, us)
  BY DEF RolesOk
<1>5. i \in Marked(v, us) => mine = <<>>
  <2>1. i \in Marked(v, us) => Hidden(Chars(v, us[i]))
    BY MarkedHidden
  <2>2. Chars(v, us[i]) \in Line
    <3>1. us[i].from \in 1 .. Len(v) + 1 /\ us[i].to \in 0 .. Len(v)
      BY <1>2 DEF UnitSet, Line
    <3> QED
      BY <3>1, PartOfLine DEF Chars
  <2> QED
    BY <2>1, <2>2, PlacesHidden
<1>6. Places(SubSeq(v, 1, EndOf(us, i))) = done \o mine /\ done \in Seq(Nat) /\ mine \in Seq(Nat)
  <2>1. EndOf(us, i) = us[i].to /\ us[i].from = EndOf(us, i - 1) + 1
    BY DEF EndOf, Adjacent
  <2>2. us[i].from \in 1 .. Len(v) + 1 /\ us[i].to \in us[i].from - 1 .. Len(v) /\ us[i].from \in Nat /\ Len(v) \in Nat
    BY <1>2, SMTT(30) DEF UnitSet, Line
  <2>3. EndOf(us, i - 1) \in Int
    <3>1. CASE i - 1 = 0
      BY <3>1 DEF EndOf
    <3>2. CASE i - 1 # 0
      <4>1. i - 1 \in 1 .. Len(us)
        BY <3>2
      <4>2. us[i - 1] \in UnitSet(v)
        BY <4>1
      <4>3. us[i - 1].to \in Nat
        BY <4>2 DEF UnitSet
      <4> QED
        BY <3>2, <4>3 DEF EndOf
    <3> QED
      BY <3>1, <3>2
  <2>4. EndOf(us, i - 1) = us[i].from - 1
    BY <2>1, <2>2, <2>3
  <2>5. Places(SubSeq(v, 1, us[i].to)) = Places(SubSeq(v, 1, us[i].from - 1)) \o Places(SubSeq(v, us[i].from, us[i].to))
    BY <2>2, PlacesNext
  <2>6. SubSeq(v, 1, us[i].from - 1) \in Line /\ SubSeq(v, us[i].from, us[i].to) \in Line
    <3>1. us[i].from - 1 \in 0 .. Len(v) /\ 1 \in 1 .. Len(v) + 1 /\ us[i].to \in 0 .. Len(v)
      BY <2>2
    <3> QED
      BY <2>2, <3>1, PartOfLine
  <2> QED
    BY <2>1, <2>4, <2>5, <2>6, PlacesType DEF Chars
<1>7. acc \in Chunking /\ Bare(acc) /\ Total(acc) = done
  BY DEF ChunksTo
<1> HIDE DEF opens, ends, full, w
<1>8. a \in Chunking /\ Bare(a) /\ Total(a) = done
  BY <1>7, CutKeeps
<1> HIDE DEF a, lone
<1>9. b \in Chunking /\ Bare(b) /\ Total(b) = done
  BY <1>8, CutKeeps
<1> HIDE DEF b
<1>10. /\ role \in {"none", "open", "close"} /\ (role = "none" \/ mine = <<>>)
  BY <1>3, <1>5
<1> HIDE DEF role
<1>11. cs \in Line /\ Places(cs) = mine
  BY <1>2, <1>10, RoleCharsKeep
<1> HIDE DEF cs, done, mine
<1>12. b.current \in Line /\ b.chunks \in Seq(Line) /\ b.payload \in Nat /\ b.state \in Formats
  BY <1>9 DEF Chunking
<1>13. line \in Line /\ Places(line) = Places(b.current) \o mine
  BY <1>11, <1>12, PlacesConcat
<1>14. next \in Formats
  BY <1>12, StateAfterKeeps
<1>15. pay \in Nat /\ (pay = 0 => b.payload = 0 /\ role # "none")
  BY <1>12
<1> HIDE DEF line, next, pay
<1>16. c \in Chunking /\ c.chunks = b.chunks /\ c.current = line /\ c.payload = pay
  BY <1>9, <1>12, <1>13, <1>14, <1>15 DEF Chunking
<1> HIDE DEF c
<1>17. Bare(c)
  <2> SUFFICES ASSUME pay = 0 PROVE Places(line) = <<>>
    BY <1>16 DEF Bare
  <2>1. Places(b.current) = <<>> /\ mine = <<>>
    BY <1>9, <1>10, <1>15 DEF Bare
  <2>2. <<>> \o <<>> = <<>>
    BY ConcatEmptySeq, EmptySeq
  <2> QED
    BY <1>13, <2>1, <2>2
<1>18. Total(c) = done \o mine
  <2> DEFINE x == Places(FlattenSeq(b.chunks))
             y == Places(b.current)
  <2>1. x \in Seq(Nat) /\ y \in Seq(Nat)
    BY <1>12, PlacesFlatten, PlacesType
  <2>2. Total(c) = x \o (y \o mine) /\ done = x \o y
    BY <1>9, <1>13, <1>16 DEF Total
  <2> HIDE DEF x, y
  <2>3. mine \in Seq(Nat)
    BY <1>6
  <2>4. x \o (y \o mine) = (x \o y) \o mine
    BY ONLY <2>1, <2>3, Regrouped
  <2> QED
    BY ONLY <2>2, <2>4, Zenon
<1>19. c \in ChunksTo(v, us, i)
  BY <1>6, <1>16, <1>17, <1>18 DEF ChunksTo
<1>20. ASSUME i \in roles.ignored PROVE acc \in ChunksTo(v, us, i)
  <2>1. mine = <<>>
    BY <1>4, <1>5, <1>20
  <2>2. done \o <<>> = done
    BY <1>6, ConcatEmptySeq
  <2> QED
    BY <1>6, <1>7, <2>1, <2>2 DEF ChunksTo
<1> QED
  BY <1>1, <1>19, <1>20

LEMMA SplitKeeps ==
  ASSUME NEW v \in Line, NEW limit, NEW names
  PROVE  /\ SplitRendered(v, limit, names) \in Seq(Line)
         /\ Places(FlattenSeq(SplitRendered(v, limit, names))) = Places(v)
<1> DEFINE us == Units(v, names)
           roles == FitToLimit(v, us, PairedDelimiters(v, us), limit)
           n == Len(us)
           S(k) == ChunksTo(v, us, k)
           Step(a, k) == ChunkAt(a, v, us, roles, limit, k)
           R == [k \in 0 .. n |-> S(k)]
           H == [k \in 1 .. n |-> [a \in S(k - 1) |-> Step(a, k)]]
           g == CHOOSE h : h = [k \in 0 .. n |-> IF k = 0 THEN NoChunk ELSE Step(h[k - 1], k)]
<1>b. n \in Nat /\ us \in Seq(UnitSet(v)) /\ Adjacent(us) /\ EndOf(us, n) = Len(v)
  BY UnitsAre
<1>2. SplitRendered(v, limit, names) = Finished(g[n])
  BY Zenon DEF SplitRendered, ChunkedUnits, Chunked, Rounds
<1> HIDE DEF us
<1>d. RolesOk(v, us, roles)
  BY <1>b, RolesFit
<1> HIDE DEF roles
<1>e. NoChunk \in ChunksTo(v, us, 0)
  <2>1. <<>> \in Seq(Line) /\ <<>> \in Line /\ <<>> \in Seq(Styles)
    BY EmptySeq DEF Line
  <2>2. NoChunk \in Chunking
    BY <2>1 DEF NoChunk, NoFormat, Formats, Chunking
  <2>3. Places(<<>>) = <<>> /\ FlattenSeq(<<>>) = <<>> /\ <<>> \o <<>> = <<>>
    BY PlacesEmpty, FlattenEmpty
  <2>4. Total(NoChunk) = <<>> /\ Bare(NoChunk)
    BY <2>3 DEF Total, Bare, NoChunk
  <2>5. SubSeq(v, 1, EndOf(us, 0)) = <<>>
    BY DEF EndOf, Line
  <2> QED
    BY <2>2, <2>3, <2>4, <2>5 DEF ChunksTo
<1>c. NoChunk \in S(0) /\ S(n) = ChunksTo(v, us, n) /\ \A k \in 1 .. n : \A a \in S(k - 1) : Step(a, k) \in S(k)
  BY <1>b, <1>d, <1>e, ChunkAtKeeps
<1> HIDE DEF n
<1> HIDE DEF S, Step
<1>3. Leads(H, R, n) /\ NoChunk \in R[0]
  <2>1. \A k \in 1 .. n : k - 1 \in 0 .. n /\ k \in 0 .. n
    BY <1>b
  <2> QED
    BY <1>b, <1>c, <2>1 DEF Leads
<1>4. \E h : h = [k \in 0 .. n |-> IF k = 0 THEN NoChunk ELSE Step(h[k - 1], k)]
  <2> HIDE DEF R, H
  <2>1. PICK h : Looping(h, NoChunk, H, R, n)
    BY <1>b, <1>3, RoundsRun
  <2>2. h[0] = NoChunk /\ \A k \in 1 .. n : h[k] = Step(h[k - 1], k)
    <3>1. \A k \in 1 .. n : k - 1 \in 0 .. n /\ h[k - 1] \in S(k - 1)
      BY <2>1, <1>b DEF Looping, R
    <3> QED
      BY <2>1, <3>1 DEF Looping, H
  <2> DEFINE d == [k \in 0 .. n |-> h[k]]
  <2>3. \A k \in 0 .. n : d[k] = IF k = 0 THEN NoChunk ELSE Step(d[k - 1], k)
    <3>1. \A k \in 0 .. n : k # 0 => k \in 1 .. n /\ k - 1 \in 0 .. n
      BY <1>b
    <3> QED
      BY <2>2, <3>1
  <2>4. d = [k \in 0 .. n |-> d[k]]
    OBVIOUS
  <2> HIDE DEF d
  <2> QED
    BY <2>3, <2>4
<1>5. g = [k \in 0 .. n |-> IF k = 0 THEN NoChunk ELSE Step(g[k - 1], k)]
  BY <1>4
<1> HIDE DEF g
<1>6. g[n] \in S(n)
  <2>1. g[0] \in R[0] /\ 0 \in 0 .. n /\ n \in 0 .. n
    BY <1>b, <1>3, <1>5
  <2>2. ASSUME NEW k \in 1 .. n, g[k - 1] \in R[k - 1] PROVE g[k] \in R[k]
    <3>1. k \in 0 .. n /\ k - 1 \in 0 .. n /\ k # 0
      BY <1>b
    <3> QED
      BY <2>2, <3>1, <1>c, <1>5
  <2>3. g[n] \in R[n]
    <3> HIDE DEF R
    <3> QED
      BY <1>b, <2>1, <2>2, RoundsKeep
  <2> QED
    BY <2>1, <2>3
<1> DEFINE a == g[n]
<1>7. a \in ChunksTo(v, us, n) /\ SplitRendered(v, limit, names) = Finished(a)
  BY <1>2, <1>6, <1>c
<1> HIDE DEF a
<1>8. a \in Chunking /\ Bare(a) /\ Total(a) = Places(SubSeq(v, 1, Len(v)))
  BY <1>7, <1>b DEF ChunksTo
<1>9. SubSeq(v, 1, Len(v)) = v
  BY SubSeqFull DEF Line
<1> QED
  BY <1>7, <1>8, <1>9, FinishedKeeps

SeenOf(cs) == FlattenSeq([i \in DOMAIN cs |-> IF HasVisible(cs[i]) THEN <<cs[i]>> ELSE <<>>])
LEMMA SeenKeeps ==
  ASSUME NEW cs \in Seq(Line)
  PROVE  SeenOf(cs) \in Seq(Line) /\ Places(FlattenSeq(SeenOf(cs))) = Places(FlattenSeq(cs))
<1> DEFINE n == Len(cs)
           e(i) == IF HasVisible(cs[i]) THEN <<cs[i]>> ELSE <<>>
           es == [i \in DOMAIN cs |-> e(i)]
           kept(k) == FlattenSeq(SubSeq(es, 1, k))
           pre(k) == SubSeq(cs, 1, k)
           P == [k \in 0 .. n |-> Places(FlattenSeq(kept(k))) = Places(FlattenSeq(pre(k)))]
<1>0. n \in Nat /\ DOMAIN cs = 1 .. n /\ (\A i \in 1 .. n : cs[i] \in Line) /\ SeenOf(cs) = FlattenSeq(es)
  BY DEF SeenOf
<1>1. \A i \in 1 .. n : e(i) \in Seq(Line)
  BY <1>0
<1> HIDE DEF n
<1>2. es \in Seq(Seq(Line)) /\ Len(es) = n /\ \A i \in 1 .. n : es[i] = e(i)
  BY <1>0, <1>1
<1> HIDE DEF es
<1>3. ASSUME NEW k \in 0 .. n
      PROVE  /\ SubSeq(es, 1, k) \in Seq(Seq(Line)) /\ pre(k) \in Seq(Line) /\ kept(k) \in Seq(Line)
             /\ FlattenSeq(kept(k)) \in Line /\ FlattenSeq(pre(k)) \in Line
  <2>1. k \in 0 .. Len(es) /\ k \in 0 .. Len(cs) /\ 1 \in 1 .. Len(es) + 1 /\ 1 \in 1 .. Len(cs) + 1
    BY <1>0, <1>2 DEF n
  <2>2. SubSeq(es, 1, k) \in Seq(Seq(Line)) /\ pre(k) \in Seq(Line)
    BY <1>2, <2>1, SubSeqKeeps
  <2>3. kept(k) \in Seq(Line)
    BY <2>2, FlattenType
  <2> HIDE DEF kept, pre
  <2> QED
    BY <2>2, <2>3, PlacesFlatten
<1>4. P[0]
  <2>1. SubSeq(es, 1, 0) = <<>> /\ pre(0) = <<>> /\ 0 \in 0 .. n
    BY <1>0, <1>2
  <2>2. kept(0) = <<>>
    BY <2>1, FlattenEmpty
  <2> QED
    BY <2>1, <2>2
<1>5. ASSUME NEW k \in 1 .. n, P[k - 1] PROVE P[k]
  <2> DEFINE f == kept(k - 1)
             s == pre(k - 1)
  <2>0. k - 1 \in 0 .. n /\ k \in 0 .. n /\ k \in 1 .. Len(es) /\ k \in 1 .. Len(cs)
    BY <1>0, <1>2 DEF n
  <2>1. SubSeq(es, 1, k) = Append(SubSeq(es, 1, k - 1), e(k))
    <3>1. es[k] = e(k)
      BY <1>2
    <3> HIDE DEF e
    <3>2. SubSeq(es, 1, k) = Append(SubSeq(es, 1, k - 1), es[k])
      BY <1>2, <2>0
    <3> QED
      BY <3>1, <3>2
  <2>2. pre(k) = Append(s, cs[k])
    BY <2>0
  <2>3. f \in Seq(Line) /\ s \in Seq(Line) /\ FlattenSeq(f) \in Line /\ FlattenSeq(s) \in Line /\ SubSeq(es, 1, k - 1) \in Seq(Seq(Line))
    BY <1>3, <2>0
  <2>4. kept(k) = f \o e(k)
    <3> DEFINE x == SubSeq(es, 1, k - 1)
               y == e(k)
    <3>1. y \in Seq(Line) /\ x \in Seq(Seq(Line))
      BY <1>1, <2>3
    <3> HIDE DEF x, y, e
    <3>2. FlattenSeq(Append(x, y)) = FlattenSeq(x) \o y
      BY <3>1, FlattenAppend
    <3> QED
      BY <2>1, <3>2 DEF x, y
  <2>5. Places(FlattenSeq(f)) = Places(FlattenSeq(s))
    BY <1>5, <2>0
  <2>6. cs[k] \in Line
    BY <1>0
  <2>7. Places(FlattenSeq(pre(k))) = Places(FlattenSeq(s)) \o Places(cs[k])
    <3> HIDE DEF s
    <3>1. FlattenSeq(Append(s, cs[k])) = FlattenSeq(s) \o cs[k]
      BY <2>3, <2>6, FlattenAppend DEF Line
    <3>2. Places(FlattenSeq(s) \o cs[k]) = Places(FlattenSeq(s)) \o Places(cs[k])
      BY <2>3, <2>6, PlacesConcat
    <3> QED
      BY <2>2, <3>1, <3>2
  <2>8. Places(FlattenSeq(kept(k))) = Places(FlattenSeq(f)) \o Places(cs[k])
    <3> HIDE DEF f, kept
    <3>1. CASE HasVisible(cs[k])
      <4>1. kept(k) = Append(f, cs[k])
        <5>1. e(k) = <<cs[k]>>
          BY <3>1
        <5> HIDE DEF e
        <5>2. f \o <<cs[k]>> = Append(f, cs[k])
          BY <2>3, <2>6
        <5> QED
          BY <2>4, <5>1, <5>2
      <4>2. FlattenSeq(Append(f, cs[k])) = FlattenSeq(f) \o cs[k]
        BY <2>3, <2>6, FlattenAppend DEF Line
      <4>3. Places(FlattenSeq(f) \o cs[k]) = Places(FlattenSeq(f)) \o Places(cs[k])
        BY <2>3, <2>6, PlacesConcat
      <4> QED
        BY <4>1, <4>2, <4>3
    <3>2. CASE ~HasVisible(cs[k])
      <4>1. e(k) = <<>>
        BY <3>2
      <4>2. kept(k) = f
        <5> HIDE DEF e
        <5>1. f \o <<>> = f
          BY <2>3, ConcatEmptySeq
        <5> QED
          BY <2>4, <4>1, <5>1
      <4>3. Places(cs[k]) = <<>>
        <5>1. Hidden(cs[k])
          BY <3>2 DEF HasVisible, Hidden
        <5> QED
          BY <2>6, <5>1, PlacesHidden
      <4>4. Places(FlattenSeq(f)) \o <<>> = Places(FlattenSeq(f))
        BY <2>3, PlacesType, ConcatEmptySeq
      <4> QED
        BY <4>2, <4>3, <4>4
    <3> QED
      BY <3>1, <3>2
  <2> HIDE DEF f, s, kept, pre
  <2> QED
    BY <2>0, <2>5, <2>7, <2>8
<1>6. \A k \in 0 .. n : P[k]
  <2> HIDE DEF P
  <2> QED
    BY <1>0, <1>4, <1>5, CountUp
<1>7. n \in 0 .. n /\ pre(n) = cs /\ kept(n) = SeenOf(cs)
  <2>1. n \in 0 .. n /\ pre(n) = cs
    BY <1>0, SubSeqFull DEF n
  <2>2. SubSeq(es, 1, n) = es
    BY <1>2, SubSeqFull
  <2> QED
    BY <1>0, <2>1, <2>2
<1> QED
  <2> HIDE DEF kept, pre
  <2> QED
    BY <1>3, <1>6, <1>7

\* No letter of a text is lost, repeated or moved on its way through the
\* renderer and the chunker, whatever the text, the mode, the limit and the
\* names that must not be cut.
THEOREM ChunksKeepLetters ==
  ASSUME NEW t \in Line, NEW streaming, NEW limit, NEW names
  PROVE  /\ VisibleChunks(t, streaming, limit, names) \in Seq(Line)
         /\ Places(FlattenSeq(VisibleChunks(t, streaming, limit, names))) = Places(t)
<1> DEFINE v == Render(t, streaming)
           cs == SplitRendered(v, limit, names)
<1>1. v \in Line /\ Places(v) = Places(t)
  BY RenderKeeps
<1> HIDE DEF v
<1>2. cs \in Seq(Line) /\ Places(FlattenSeq(cs)) = Places(v)
  BY <1>1, SplitKeeps
<1>3. VisibleChunks(t, streaming, limit, names) = SeenOf(cs)
  BY DEF VisibleChunks, SeenOf, v
<1> HIDE DEF cs
<1> QED
  BY <1>1, <1>2, <1>3, SeenKeeps

LEMMA SourceIsLine ==
  ASSUME NEW ks \in Seq(Kinds) PROVE Source(ks) \in Line
<1>1. Len(ks) \in Nat /\ DOMAIN ks = 1 .. Len(ks) /\ \A i \in 1 .. Len(ks) : ks[i] \in Kinds
  OBVIOUS
<1>2. \A i \in 1 .. Len(ks) : [c |-> ks[i], n |-> i, s |-> "none"] \in Characters
  BY <1>1 DEF Characters
<1> QED
  BY <1>1, <1>2 DEF Source, Line

-----------------------------------------------------------------------------
(* The quote.  *)

\* What one call keeps between two messages: the quote is used up as soon as something was
\* sent, whatever was sent first.
QuoteKept ==
  /\ job.quotes \in BOOLEAN
  /\ \E S : sent \in Seq(S)
  /\ quote = [consumed |-> job.quotes /\ sent # <<>>, count |-> Len(sent)]
  /\ QuoteOnFirst

LEMMA PostKeepsQuote ==
  ASSUME QuoteKept, NEW kind, NEW n, NEW body, Post(kind, n, body), job' = job
  PROVE  QuoteKept'
<1> DEFINE m == [kind |-> kind, n |-> n, chars |-> body.chars, mentions |-> body.mentions, quoted |-> Quoted(kind)]
<1>1. PICK S : sent \in Seq(S)
  BY DEF QuoteKept
<1>2. sent' = Append(sent, m)
  BY DEF Post
<1> DEFINE T == S \cup {m}
<1>3. sent \in Seq(T) /\ m \in T
  BY <1>1
<1> HIDE DEF T
<1>4. /\ sent' \in Seq(T) /\ Len(sent') = Len(sent) + 1 /\ Len(sent) \in Nat
      /\ \A i \in 1 .. Len(sent) : sent'[i] = sent[i]
      /\ sent'[Len(sent) + 1] = m
  <2> HIDE DEF m
  <2> QED BY <1>2, <1>3
<1>5. quote' = [consumed |-> job.quotes /\ sent' # <<>>, count |-> Len(sent')]
  <2>1. sent' # <<>>
    BY <1>4
  <2>2. quote.consumed = (job.quotes /\ sent # <<>>) /\ quote.count = Len(sent)
    BY DEF QuoteKept
  <2>3. (quote.consumed \/ job.quotes) = (job.quotes /\ sent' # <<>>)
    BY <2>1, <2>2 DEF QuoteKept
  <2> QED
    BY <1>4, <2>2, <2>3 DEF Post, Consume
<1>6. m.quoted <=> (job.quotes /\ sent = <<>> /\ kind # "edit")
  BY DEF QuoteKept, Quoted
<1>7. sent = <<>> <=> Len(sent) = 0
  BY <1>1
<1>8. QuoteOnFirst'
  <2> SUFFICES ASSUME NEW i \in DOMAIN sent'
               PROVE  sent'[i].quoted <=> (job.quotes /\ i = 1 /\ sent'[1].kind # "edit")
    BY DEF QuoteOnFirst
  <2>1. DOMAIN sent' = 1 .. Len(sent) + 1 /\ DOMAIN sent = 1 .. Len(sent)
    BY <1>1, <1>4
  <2>2. CASE i \in DOMAIN sent
    BY <1>4, <2>1, <2>2 DEF QuoteKept, QuoteOnFirst
  <2>3. CASE i = Len(sent) + 1
    <3>1. sent'[i] = m /\ m.kind = kind
      BY <1>4, <2>3
    <3>2. i = 1 <=> sent = <<>>
      BY <1>4, <1>7, <2>3
    <3> HIDE DEF m
    <3> QED BY <1>6, <2>3, <3>1, <3>2
  <2> QED BY <1>4, <2>1, <2>2, <2>3
<1> QED
  BY <1>4, <1>5, <1>8 DEF QuoteKept

LEMMA SilenceKeepsQuote ==
  ASSUME QuoteKept, UNCHANGED <<job, sent, quote>> PROVE QuoteKept'
  BY DEF QuoteKept, QuoteOnFirst

\* QuoteOnFirst, for every chain and every limit: the quote is on the first physical message and
\* on no other one (QuoteState.kwargs, QuoteState.consume).
THEOREM QuotedOnce == Spec => []QuoteOnFirst
<1>1. Init => QuoteKept
  <2> SUFFICES ASSUME Init PROVE QuoteKept
    OBVIOUS
  <2>1. job.quotes \in BOOLEAN
    BY DEF Init
  <2>2. sent \in Seq({}) /\ Len(sent) = 0 /\ DOMAIN sent = {}
    BY DEF Init
  <2> QED
    BY <2>1, <2>2 DEF Init, QuoteKept, QuoteOnFirst
<1>2. QuoteKept /\ [Next]_vars => QuoteKept'
  <2> SUFFICES ASSUME QuoteKept, [Next]_vars PROVE QuoteKept'
    OBVIOUS
  <2>1. CASE UNCHANGED <<job, sent, quote>>
    BY <2>1, SilenceKeepsQuote
  <2>2. CASE SendChunk
    BY <2>2, PostKeepsQuote, SilenceKeepsQuote DEF SendChunk, Fail
  <2>3. CASE SendPart
    BY <2>3, PostKeepsQuote, SilenceKeepsQuote DEF SendPart, Fail
  <2>4. UNCHANGED <<job, sent, quote>> \/ SendChunk \/ SendPart
    BY DEF Next, vars, TakeReply, TakeText, TakeAt, Arrive, EnterNested, Unavailable, Resolved, FlushLast, Finish
  <2> QED
    BY <2>1, <2>2, <2>3, <2>4
<1>3. QuoteKept => QuoteOnFirst
  BY DEF QuoteKept
<1> QED
  BY <1>1, <1>2, <1>3, PTL DEF Spec

-----------------------------------------------------------------------------
(* The order: every letter is sent, waits in the call or is still asked for. *)

Components == Leaves \cup Nestings
Bodies(q)  == [i \in DOMAIN q |-> q[i].chars]
Carried(q) == Places(FlattenSeq(Bodies(q)))
Messages   == [chars : Line, mentions : SUBSET Nat]

LEMMA HeadLetters ==
  ASSUME NEW ss \in Seq(Line), ss # <<>>
  PROVE  /\ Head(ss) \in Line /\ Tail(ss) \in Seq(Line)
         /\ Places(FlattenSeq(ss)) = Places(Head(ss)) \o Places(FlattenSeq(Tail(ss)))
<1> DEFINE h == Head(ss)
           t == Tail(ss)
<1>1. h \in Line /\ t \in Seq(Line) /\ <<h>> \in Seq(Line) /\ ss = <<h>> \o t
  BY HeadTailProperties
<1> HIDE DEF h, t
<1>2. FlattenSeq(<<h>> \o t) = FlattenSeq(<<h>>) \o FlattenSeq(t) /\ FlattenSeq(<<h>>) = h
  BY <1>1, FlattenConcat, FlattenOne DEF Line
<1>3. FlattenSeq(t) \in Line
  BY <1>1, PlacesFlatten
<1>4. Places(h \o FlattenSeq(t)) = Places(h) \o Places(FlattenSeq(t))
  BY <1>1, <1>3, PlacesConcat
<1>5. Places(FlattenSeq(ss)) = Places(h) \o Places(FlattenSeq(t))
  BY <1>1, <1>2, <1>4
<1> QED
  BY <1>1, <1>5 DEF h, t

LEMMA LastLetters ==
  ASSUME NEW ss \in Seq(Line), ss # <<>>
  PROVE  /\ Last(ss) \in Line /\ Front(ss) \in Seq(Line)
         /\ Places(FlattenSeq(ss)) = Places(FlattenSeq(Front(ss))) \o Places(Last(ss))
<1> DEFINE f == Front(ss)
           x == Last(ss)
<1>1. f \in Seq(Line) /\ x \in Line
  BY StylesFront
<1>2. ss = Append(f, x)
  BY WithLast DEF Front, Last
<1> HIDE DEF f, x
<1>3. FlattenSeq(Append(f, x)) = FlattenSeq(f) \o x
  BY <1>1, FlattenAppend DEF Line
<1>4. FlattenSeq(f) \in Line
  BY <1>1, PlacesFlatten
<1>5. Places(FlattenSeq(f) \o x) = Places(FlattenSeq(f)) \o Places(x)
  BY <1>1, <1>4, PlacesConcat
<1>6. Places(FlattenSeq(ss)) = Places(FlattenSeq(f)) \o Places(x)
  BY <1>2, <1>3, <1>5
<1> QED
  BY <1>1, <1>6 DEF f, x

LEMMA BodiesType ==
  ASSUME NEW q \in Seq(Messages)
  PROVE  /\ Bodies(q) \in Seq(Line) /\ Len(Bodies(q)) = Len(q) /\ Carried(q) \in Seq(Nat)
         /\ (q = <<>> => Carried(q) = <<>>)
<1>1. DOMAIN q = 1 .. Len(q) /\ Len(q) \in Nat /\ \A i \in 1 .. Len(q) : q[i].chars \in Line
  <2>1. DOMAIN q = 1 .. Len(q) /\ Len(q) \in Nat /\ \A i \in 1 .. Len(q) : q[i] \in Messages
    OBVIOUS
  <2> QED
    BY <2>1 DEF Messages
<1>2. Bodies(q) \in Seq(Line) /\ Len(Bodies(q)) = Len(q)
  BY <1>1 DEF Bodies
<1>3. Carried(q) \in Seq(Nat)
  BY <1>2, PlacesFlatten, PlacesType DEF Carried
<1>4. q = <<>> => Bodies(q) = <<>>
  BY <1>2, EmptySeq
<1> QED
  BY <1>2, <1>3, <1>4, FlattenEmpty, PlacesEmpty DEF Carried

LEMMA HeadCarried ==
  ASSUME NEW q \in Seq(Messages), q # <<>>
  PROVE  /\ Head(q) \in Messages /\ Tail(q) \in Seq(Messages)
         /\ Carried(q) = Places(Head(q).chars) \o Carried(Tail(q))
<1>1. /\ Head(q) = q[1] /\ Head(q) \in Messages /\ Tail(q) \in Seq(Messages) /\ Len(Tail(q)) = Len(q) - 1
      /\ Len(q) \in Nat /\ Len(q) >= 1 /\ \A i \in 1 .. Len(q) - 1 : Tail(q)[i] = q[i + 1]
  BY HeadTailProperties
<1>2. Bodies(q) \in Seq(Line) /\ Len(Bodies(q)) = Len(q) /\ Bodies(Tail(q)) \in Seq(Line) /\ Len(Bodies(Tail(q))) = Len(q) - 1
  BY <1>1, BodiesType
<1>3. DOMAIN q = 1 .. Len(q) /\ DOMAIN Tail(q) = 1 .. Len(q) - 1
  BY <1>1
<1>4. Bodies(q) # <<>>
  BY <1>1, <1>2
<1>5. Head(Bodies(q)) = Head(q).chars
  <2>1. Head(Bodies(q)) = Bodies(q)[1]
    BY <1>2, <1>4, HeadTailProperties
  <2> QED
    BY <1>1, <1>3, <2>1 DEF Bodies
<1>6. Tail(Bodies(q)) = Bodies(Tail(q))
  <2> DEFINE s == Tail(Bodies(q))
             t == Bodies(Tail(q))
  <2>1. s \in Seq(Line) /\ Len(s) = Len(q) - 1 /\ \A i \in 1 .. Len(q) - 1 : s[i] = Bodies(q)[i + 1]
    BY <1>2, <1>4, HeadTailProperties
  <2>2. \A i \in 1 .. Len(q) - 1 : s[i] = t[i]
    BY <1>1, <1>3, <2>1 DEF Bodies
  <2>3. t \in Seq(Line) /\ Len(t) = Len(q) - 1
    BY <1>2
  <2> HIDE DEF s, t
  <2>4. s = t
    BY <2>1, <2>2, <2>3, SeqEqual
  <2> QED
    BY <2>4 DEF s, t
<1> QED
  BY <1>1, <1>2, <1>4, <1>5, <1>6, HeadLetters DEF Carried

LEMMA NoneCarried == <<>> \in Seq(Messages) /\ Carried(<<>>) = <<>>
<1>1. <<>> \in Seq(Messages)
  BY EmptySeq
<1> QED
  BY <1>1, BodiesType

\* What flush_pending_text makes of the accumulated text: messages that carry its letters in order.
LEMMA ReadyKeeps ==
  ASSUME mentions \subseteq Nat, NEW cs \in Seq(Line)
  PROVE  AllReady(cs) \in Seq(Messages) /\ Len(AllReady(cs)) = Len(cs) /\ Bodies(AllReady(cs)) = cs
<1>1. DOMAIN cs = 1 .. Len(cs) /\ Len(cs) \in Nat /\ \A i \in 1 .. Len(cs) : cs[i] \in Line
  OBVIOUS
<1>2. \A i \in 1 .. Len(cs) : Ready(cs[i]) \in Messages /\ Ready(cs[i]).chars = cs[i]
  <2>1. \A chars : Named(chars) \subseteq Nat
    BY DEF Named
  <2> QED
    BY <1>1, <2>1 DEF Ready, Messages
<1>3. AllReady(cs) = [i \in 1 .. Len(cs) |-> Ready(cs[i])]
  BY <1>1 DEF AllReady
<1>4. AllReady(cs) \in Seq(Messages) /\ Len(AllReady(cs)) = Len(cs) /\ DOMAIN AllReady(cs) = 1 .. Len(cs)
  <2> HIDE DEF Ready
  <2> QED
    BY <1>1, <1>2, <1>3
<1>5. Bodies(AllReady(cs)) = [i \in 1 .. Len(cs) |-> cs[i]]
  BY <1>2, <1>3, <1>4 DEF Bodies
<1>6. cs = [i \in 1 .. Len(cs) |-> cs[i]]
  BY <1>1
<1> QED
  BY <1>4, <1>5, <1>6

LEMMA ChunksCarry ==
  ASSUME mentions \subseteq Nat, pending \in Line
  PROVE  /\ Chunks \in Seq(Messages) /\ Carried(Chunks) = Places(pending)
         /\ Chunks # <<>> =>
              /\ Before(Chunks) \in Seq(Messages) /\ CaptionOf(Chunks) \in Seq(Messages) /\ Len(CaptionOf(Chunks)) = 1
              /\ Carried(Before(Chunks)) \o Carried(CaptionOf(Chunks)) = Places(pending)
<1> DEFINE cs == VisibleChunks(pending, FALSE, Limit, mentions)
           q == Chunks
<1>1. cs \in Seq(Line) /\ Places(FlattenSeq(cs)) = Places(pending)
  BY ChunksKeepLetters
<1> HIDE DEF cs
<1>2. q \in Seq(Messages) /\ Len(q) = Len(cs) /\ Bodies(q) = cs
  BY <1>1, ReadyKeeps DEF Chunks, cs
<1> HIDE DEF q
<1>3. ASSUME q # <<>>
      PROVE  /\ Before(q) \in Seq(Messages) /\ CaptionOf(q) \in Seq(Messages) /\ Len(CaptionOf(q)) = 1
             /\ Carried(Before(q)) \o Carried(CaptionOf(q)) = Places(pending)
  <2> DEFINE f == Front(q)
             x == Last(q)
             o == <<x>>
  <2>1. f \in Seq(Messages) /\ x \in Messages /\ Len(q) \in Nat /\ Len(q) >= 1
    BY <1>2, <1>3, StylesFront
  <2>2. f = SubSeq(q, 1, Len(q) - 1) /\ Len(f) = Len(q) - 1 /\ \A i \in 1 .. Len(q) - 1 : f[i] = q[i]
    BY <1>2, <1>3, FrontAndLast DEF Front
  <2>3. cs # <<>>
    BY <1>1, <1>2, <2>1
  <2>4. Last(cs) = x.chars
    <3>1. Last(cs) = cs[Len(cs)] /\ x = q[Len(q)] /\ Len(q) \in DOMAIN q
      BY <1>2, <2>1 DEF Last
    <3> QED
      BY <1>2, <3>1 DEF Bodies
  <2>5. Front(cs) = Bodies(f)
    <3> DEFINE s == Front(cs)
               t == Bodies(f)
    <3>1. s \in Seq(Line) /\ Len(s) = Len(cs) - 1 /\ \A i \in 1 .. Len(cs) - 1 : s[i] = cs[i]
      BY <1>1, <2>3, FrontAndLast DEF Front
    <3>2. t \in Seq(Line) /\ Len(t) = Len(q) - 1
      BY <2>1, <2>2, BodiesType
    <3>3. \A i \in 1 .. Len(q) - 1 : t[i] = q[i].chars /\ cs[i] = q[i].chars
      <4>1. DOMAIN f = 1 .. Len(q) - 1 /\ \A i \in 1 .. Len(q) - 1 : i \in DOMAIN q
        BY <1>2, <2>1, <2>2
      <4>2. \A i \in 1 .. Len(q) - 1 : cs[i] = q[i].chars
        BY <1>2, <4>1 DEF Bodies
      <4> HIDE DEF f
      <4> QED
        BY <2>2, <4>1, <4>2 DEF Bodies
    <3> HIDE DEF s, t
    <3>4. \A i \in 1 .. Len(s) : s[i] = t[i]
      BY <1>2, <3>1, <3>3
    <3>5. s = t
      BY <1>2, <3>1, <3>2, <3>4, SeqEqual
    <3> QED
      BY <3>5 DEF s, t
  <2>6. o \in Seq(Messages) /\ Len(o) = 1
    BY <2>1
  <2>7. Carried(o) = Places(x.chars)
    <3>1. Bodies(o) = <<x.chars>>
      BY <2>1 DEF Bodies
    <3>2. x.chars \in Line
      BY <2>1 DEF Messages
    <3> HIDE DEF o, x
    <3> QED
      BY <3>1, <3>2, FlattenOne DEF Carried, Line
  <2>8. Places(FlattenSeq(cs)) = Places(FlattenSeq(Front(cs))) \o Places(Last(cs))
    BY <1>1, <2>3, LastLetters
  <2>9. Carried(f) = Places(FlattenSeq(Front(cs)))
    BY <2>5 DEF Carried
  <2>10. Before(q) = f /\ CaptionOf(q) = o
    BY DEF Before, CaptionOf
  <2> HIDE DEF f, x, o
  <2> QED
    BY <1>1, <2>1, <2>4, <2>6, <2>7, <2>8, <2>9, <2>10
<1>4. Carried(q) = Places(pending)
  BY <1>1, <1>2 DEF Carried
<1> QED
  BY <1>2, <1>3, <1>4 DEF q

\* A chain without nesting: the components that have a place in the order.
Spliced(cs) == [i \in DOMAIN cs |-> IF cs[i].kind = "nested" THEN cs[i].items ELSE <<cs[i]>>]
Splice(c)   == IF c.kind = "nested" THEN c.items ELSE <<c>>
LEMMA SplicedType ==
  ASSUME NEW cs \in Seq(Components)
  PROVE  /\ Spliced(cs) \in Seq(Seq(Leaves)) /\ Len(Spliced(cs)) = Len(cs)
         /\ \A i \in 1 .. Len(cs) : Spliced(cs)[i] = Splice(cs[i])
         /\ Flat(cs) \in Seq(Leaves) /\ Flat(cs) = FlattenSeq(Spliced(cs))
<1>1. \A c \in Components : Splice(c) \in Seq(Leaves)
  <2>1. \A c \in Leaves : c.kind # "nested"
    BY DEF Leaves, Media, Native, Captioned
  <2>2. \A c \in Nestings : c.items \in Seq(Leaves)
    BY DEF Nestings
  <2>3. \A c \in Leaves : Splice(c) \in Seq(Leaves)
    <3> SUFFICES ASSUME NEW c \in Leaves PROVE Splice(c) \in Seq(Leaves)
      OBVIOUS
    <3>1. Splice(c) = <<c>>
      BY <2>1 DEF Splice
    <3>2. <<c>> \in Seq(Leaves)
      OBVIOUS
    <3> QED
      BY <3>1, <3>2
  <2>4. \A c \in Nestings : Splice(c) = c.items
    BY DEF Splice, Nestings
  <2> QED
    BY <2>2, <2>3, <2>4 DEF Components
<1>2. DOMAIN cs = 1 .. Len(cs) /\ Len(cs) \in Nat /\ \A i \in 1 .. Len(cs) : cs[i] \in Components
  OBVIOUS
<1>3. Spliced(cs) = [i \in 1 .. Len(cs) |-> Splice(cs[i])]
  BY <1>2 DEF Spliced, Splice
<1>4. Spliced(cs) \in Seq(Seq(Leaves)) /\ Len(Spliced(cs)) = Len(cs) /\ \A i \in 1 .. Len(cs) : Spliced(cs)[i] = Splice(cs[i])
  BY <1>1, <1>2, <1>3
<1>5. Flat(cs) = FlattenSeq(Spliced(cs))
  BY DEF Flat, Spliced
<1> QED
  BY <1>4, <1>5, FlattenType

LEMMA FlatHead ==
  ASSUME NEW cs \in Seq(Components), cs # <<>>
  PROVE  Head(cs) \in Components /\ Tail(cs) \in Seq(Components) /\ Flat(cs) = Splice(Head(cs)) \o Flat(Tail(cs))
<1> DEFINE ss == Spliced(cs)
           tt == Spliced(Tail(cs))
           n == Len(cs)
<1>1. /\ Head(cs) = cs[1] /\ Head(cs) \in Components /\ Tail(cs) \in Seq(Components) /\ Len(Tail(cs)) = n - 1
      /\ n \in Nat /\ n >= 1 /\ \A i \in 1 .. n - 1 : Tail(cs)[i] = cs[i + 1]
  BY HeadTailProperties
<1>2. /\ ss \in Seq(Seq(Leaves)) /\ Len(ss) = n /\ \A i \in 1 .. n : ss[i] = Splice(cs[i])
      /\ tt \in Seq(Seq(Leaves)) /\ Len(tt) = n - 1 /\ \A i \in 1 .. n - 1 : tt[i] = Splice(Tail(cs)[i])
      /\ Flat(cs) = FlattenSeq(ss) /\ Flat(Tail(cs)) = FlattenSeq(tt)
  BY <1>1, SplicedType
<1> DEFINE h == Splice(Head(cs))
<1> HIDE DEF ss, tt, n, h
<1>3. ss # <<>>
  BY <1>1, <1>2
<1>4. /\ Head(ss) = ss[1] /\ Tail(ss) \in Seq(Seq(Leaves)) /\ Len(Tail(ss)) = n - 1 /\ <<Head(ss)>> \in Seq(Seq(Leaves))
      /\ (\A i \in 1 .. n - 1 : Tail(ss)[i] = ss[i + 1]) /\ ss = <<Head(ss)>> \o Tail(ss) /\ Head(ss) \in Seq(Leaves)
  BY <1>2, <1>3, HeadTailProperties
<1>5. Head(ss) = h
  BY <1>1, <1>2, <1>4 DEF h
<1>6. Tail(ss) = tt
  <2>1. \A i \in 1 .. n - 1 : Tail(ss)[i] = tt[i]
    <3> SUFFICES ASSUME NEW i \in 1 .. n - 1 PROVE Tail(ss)[i] = tt[i]
      OBVIOUS
    <3>1. i + 1 \in 1 .. n
      BY <1>1
    <3> QED
      BY <1>1, <1>2, <1>4, <3>1
  <2> DEFINE u == Tail(ss)
  <2>2. u \in Seq(Seq(Leaves)) /\ Len(u) = n - 1 /\ \A i \in 1 .. n - 1 : u[i] = tt[i]
    BY <1>4, <2>1
  <2> HIDE DEF u
  <2>3. u = tt
    BY <1>2, <2>2, SeqEqual
  <2> QED
    BY <2>3 DEF u
<1>7. FlattenSeq(<<h>> \o tt) = FlattenSeq(<<h>>) \o FlattenSeq(tt) /\ FlattenSeq(<<h>>) = h
  <2>1. h \in Seq(Leaves) /\ <<h>> \in Seq(Seq(Leaves)) /\ tt \in Seq(Seq(Leaves))
    BY <1>2, <1>4, <1>5
  <2>2. FlattenSeq(<<h>> \o tt) = FlattenSeq(<<h>>) \o FlattenSeq(tt)
    BY <2>1, FlattenConcat
  <2> QED
    BY <2>1, <2>2, FlattenOne
<1> QED
  BY <1>1, <1>2, <1>4, <1>5, <1>6, <1>7 DEF h

LEMMA FlatConcat ==
  ASSUME NEW s \in Seq(Components), NEW t \in Seq(Components)
  PROVE  s \o t \in Seq(Components) /\ Flat(s \o t) = Flat(s) \o Flat(t)
<1> DEFINE r == s \o t
           ss == Spliced(s)
           tt == Spliced(t)
           rr == Spliced(r)
           m == Len(s)
           n == Len(t)
<1>1. /\ r \in Seq(Components) /\ Len(r) = m + n /\ m \in Nat /\ n \in Nat
      /\ \A i \in 1 .. m + n : r[i] = IF i <= m THEN s[i] ELSE t[i - m]
  BY ConcatProperties, LenProperties
<1> HIDE DEF r
<1>2. /\ ss \in Seq(Seq(Leaves)) /\ Len(ss) = m /\ (\A i \in 1 .. m : ss[i] = Splice(s[i])) /\ Flat(s) = FlattenSeq(ss)
      /\ tt \in Seq(Seq(Leaves)) /\ Len(tt) = n /\ (\A i \in 1 .. n : tt[i] = Splice(t[i])) /\ Flat(t) = FlattenSeq(tt)
      /\ rr \in Seq(Seq(Leaves)) /\ Len(rr) = m + n /\ (\A i \in 1 .. m + n : rr[i] = Splice(r[i])) /\ Flat(r) = FlattenSeq(rr)
  BY <1>1, SplicedType
<1> HIDE DEF ss, tt, rr, m, n
<1>3. rr = ss \o tt
  <2> DEFINE u == ss \o tt
  <2>1. /\ u \in Seq(Seq(Leaves)) /\ Len(u) = m + n
        /\ \A i \in 1 .. m + n : u[i] = IF i <= m THEN ss[i] ELSE tt[i - m]
    BY <1>1, <1>2, ConcatProperties
  <2> HIDE DEF u
  <2>2. \A i \in 1 .. m + n : u[i] = rr[i]
    <3> SUFFICES ASSUME NEW i \in 1 .. m + n PROVE u[i] = rr[i]
      OBVIOUS
    <3>1. CASE i <= m
      <4>1. i \in 1 .. m
        BY <1>1, <3>1
      <4>2. u[i] = ss[i] /\ ss[i] = Splice(s[i]) /\ rr[i] = Splice(r[i]) /\ r[i] = s[i]
        BY <1>1, <1>2, <2>1, <3>1, <4>1, Zenon
      <4> QED
        BY ONLY <4>2, Zenon
    <3>2. CASE ~(i <= m)
      <4>1. i - m \in 1 .. n
        BY <1>1, <3>2
      <4>2. u[i] = tt[i - m] /\ tt[i - m] = Splice(t[i - m]) /\ rr[i] = Splice(r[i]) /\ r[i] = t[i - m]
        BY <1>1, <1>2, <2>1, <3>2, <4>1, Zenon
      <4> QED
        BY ONLY <4>2, Zenon
    <3> QED
      BY <3>1, <3>2
  <2>3. u = rr
    BY <1>2, <2>1, <2>2, SeqEqual
  <2> QED
    BY <2>3 DEF u
<1>4. FlattenSeq(ss \o tt) = FlattenSeq(ss) \o FlattenSeq(tt)
  BY <1>2, FlattenConcat
<1> QED
  BY <1>1, <1>2, <1>3, <1>4 DEF r

LEMMA FlatLeaves ==
  ASSUME NEW cs \in Seq(Leaves) PROVE cs \in Seq(Components) /\ Flat(cs) = cs
<1> DEFINE n == Len(cs)
           ss == Spliced(cs)
           P == [k \in 0 .. n |-> FlattenSeq(SubSeq(ss, 1, k)) = SubSeq(cs, 1, k)]
<1>1. cs \in Seq(Components) /\ n \in Nat /\ \A i \in 1 .. n : cs[i] \in Leaves
  BY DEF Components
<1>2. ss \in Seq(Seq(Leaves)) /\ Len(ss) = n /\ (\A i \in 1 .. n : ss[i] = Splice(cs[i])) /\ Flat(cs) = FlattenSeq(ss)
  BY <1>1, SplicedType
<1>3. \A i \in 1 .. n : ss[i] = <<cs[i]>>
  <2>1. \A c \in Leaves : Splice(c) = <<c>>
    BY DEF Leaves, Media, Native, Captioned, Splice
  <2> QED
    BY <1>1, <1>2, <2>1
<1> HIDE DEF ss
<1>4. P[0]
  <2>1. SubSeq(ss, 1, 0) = <<>> /\ SubSeq(cs, 1, 0) = <<>> /\ 0 \in 0 .. n
    BY <1>1, <1>2
  <2> QED
    BY <2>1, FlattenEmpty
<1> HIDE DEF n
<1>5. ASSUME NEW k \in 1 .. n, P[k - 1] PROVE P[k]
  <2> DEFINE f == SubSeq(ss, 1, k - 1)
             g == SubSeq(cs, 1, k - 1)
             x == <<cs[k]>>
  <2>1. k - 1 \in 0 .. n /\ k \in 0 .. n /\ k \in 1 .. Len(ss) /\ k \in 1 .. Len(cs) /\ k - 1 \in 0 .. Len(ss) /\ k - 1 \in 0 .. Len(cs)
        /\ 1 \in 1 .. Len(ss) + 1
    BY <1>1, <1>2 DEF n
  <2>2. SubSeq(cs, 1, k) = Append(g, cs[k]) /\ g \in Seq(Leaves) /\ x \in Seq(Leaves)
    BY <1>1, <2>1
  <2>3. SubSeq(ss, 1, k) = Append(f, x)
    <3>1. SubSeq(ss, 1, k) = Append(f, ss[k])
      BY <1>2, <2>1
    <3> QED
      BY <1>3, <3>1
  <2>4. f \in Seq(Seq(Leaves))
    BY <1>2, <2>1, SubSeqKeeps
  <2>5. FlattenSeq(f) = g
    BY <1>5, <2>1
  <2>6. g \o x = Append(g, cs[k])
    BY <1>1, <2>2
  <2> HIDE DEF f, g, x
  <2>7. FlattenSeq(Append(f, x)) = FlattenSeq(f) \o x
    BY <2>2, <2>4, FlattenAppend
  <2> QED
    BY <2>1, <2>2, <2>3, <2>5, <2>6, <2>7
<1>6. \A k \in 0 .. n : P[k]
  <2> HIDE DEF P
  <2> QED
    BY <1>1, <1>4, <1>5, CountUp
<1>7. SubSeq(ss, 1, n) = ss /\ SubSeq(cs, 1, n) = cs /\ n \in 0 .. n
  BY <1>1, <1>2, SubSeqFull DEF n
<1> QED
  BY <1>1, <1>2, <1>6, <1>7

\* What the chain says: the places of its components, one after another.
Whole    == Flat(job.chain)
PartList == [i \in DOMAIN Whole |-> Part(Whole[i], Stride * (i - 1))]
Due(k)   == FlattenSeq(SubSeq(PartList, 1, k))
Taken    == Len(Whole) - Len(Flat(todo))

LEMMA NamedKinds ==
  /\ Blank \in Kinds /\ "@" \in Kinds /\ "n" \in Kinds /\ "." \in Kinds /\ "." \in VisibleKinds
  /\ Media \cup Native \cup {"nested"} \subseteq {"image", "video", "file", "sticker", "record", "location", "native", "edit", "nested"}
  BY DEF Blank, Kinds, VisibleKinds, Media, Native, Captioned

LEMMA AtTextType == ASSUME NEW base \in Nat PROVE AtText(base) \in Line
<1> DEFINE x == Mark("@", base + 1, "none")
           y == Mark("n", base + 2, "none")
           z == Mark(Blank, base + 3, "none")
<1>1. AtText(base) = <<x, y, z>>
  BY Zenon DEF AtText, Blank
<1>2. x \in Characters /\ y \in Characters /\ z \in Characters
  <2>1. \A c \in Kinds : \A n \in Nat : Mark(c, n, "none") \in Characters
    BY DEF Mark, Characters
  <2> QED
    BY <2>1, NamedKinds
<1> HIDE DEF x, y, z
<1> QED
  BY <1>1, <1>2 DEF Line

LEMMA TypedType == ASSUME NEW c \in Leaves, NEW base \in Nat PROVE Typed(c, base) \in Line
<1>1. c.text \in Seq(Kinds)
  BY DEF Leaves
<1>2. \A k \in DOMAIN c.text : Mark(c.text[k], base + k, "none") \in Characters
  <2>1. DOMAIN c.text = 1 .. Len(c.text) /\ Len(c.text) \in Nat /\ \A k \in 1 .. Len(c.text) : c.text[k] \in Kinds
    BY <1>1
  <2> QED
    BY <2>1 DEF Mark, Characters
<1>3. DOMAIN c.text = 1 .. Len(c.text) /\ Len(c.text) \in Nat
  BY <1>1
<1> QED
  BY <1>2, <1>3 DEF Typed, Line

LEMMA PartIs ==
  ASSUME NEW c \in Leaves, NEW base \in Nat
  PROVE  /\ Part(c, base) \in Seq(Nat)
         /\ c.kind = "reply" => Part(c, base) = <<>>
         /\ c.kind \in {"at", "stranger"} => Part(c, base) = Places(AtText(base))
         /\ c.kind \in {"plain", "fallback"} => Part(c, base) = Places(Typed(c, base))
         /\ c.kind \in Media \cup Native => Part(c, base) = <<base + 1>>
<1> DEFINE w == Places(AtText(base))
           x == Places(Typed(c, base))
           y == <<base + 1>>
<1>1. w \in Seq(Nat) /\ x \in Seq(Nat) /\ y \in Seq(Nat) /\ <<>> \in Seq(Nat)
  BY AtTextType, TypedType, PlacesType
<1>2. Part(c, base) = CASE c.kind = "reply" -> <<>>
                        [] c.kind \in {"at", "stranger"} -> w
                        [] c.kind \in {"plain", "fallback"} -> x
                        [] OTHER -> y
  BY DEF Part
<1>3. c.kind \in Media \cup Native => c.kind \notin {"reply", "at", "stranger", "plain", "fallback"}
  BY DEF Media, Native, Captioned
<1> HIDE DEF w, x, y
<1>4. /\ c.kind = "reply" => Part(c, base) = <<>>
      /\ c.kind \in {"at", "stranger"} => Part(c, base) = w
      /\ c.kind \in {"plain", "fallback"} => Part(c, base) = x
      /\ c.kind \notin {"reply", "at", "stranger", "plain", "fallback"} => Part(c, base) = y
  BY <1>2
<1> QED
  BY <1>1, <1>3, <1>4 DEF w, x, y

LEMMA PartListType ==
  ASSUME Whole \in Seq(Leaves)
  PROVE  /\ PartList \in Seq(Seq(Nat)) /\ Len(PartList) = Len(Whole) /\ Len(Whole) \in Nat
         /\ \A i \in 1 .. Len(Whole) : Whole[i] \in Leaves /\ PartList[i] = Part(Whole[i], Stride * (i - 1))
         /\ Asked = FlattenSeq(PartList) /\ Asked \in Seq(Nat)
<1> DEFINE n == Len(Whole)
           p(i) == Part(Whole[i], Stride * (i - 1))
<1>1. n \in Nat /\ DOMAIN Whole = 1 .. n /\ \A i \in 1 .. n : Whole[i] \in Leaves
  OBVIOUS
<1>2. PartList = [i \in 1 .. n |-> p(i)]
  BY <1>1 DEF PartList
<1>3. \A i \in 1 .. n : p(i) \in Seq(Nat)
  <2>1. \A i \in 1 .. n : Stride * (i - 1) \in Nat
    BY <1>1 DEF Stride
  <2> QED
    BY <1>1, <2>1, PartIs
<1>4. Asked = FlattenSeq(PartList)
  BY DEF Asked, PartList, Whole
<1> HIDE DEF n, p
<1>5. PartList \in Seq(Seq(Nat)) /\ Len(PartList) = n /\ \A i \in 1 .. n : PartList[i] = p(i)
  BY <1>1, <1>2, <1>3
<1> QED
  BY <1>1, <1>4, <1>5, FlattenType DEF n, p

LEMMA DueNext ==
  ASSUME Whole \in Seq(Leaves), NEW k \in 0 .. Len(Whole)
  PROVE  /\ Due(k) \in Seq(Nat) /\ IsPrefix(Due(k), Asked) /\ Due(0) = <<>> /\ Due(Len(Whole)) = Asked
         /\ k < Len(Whole) => Due(k + 1) = Due(k) \o Part(Whole[k + 1], Stride * k)
<1> DEFINE n == Len(Whole)
           f == SubSeq(PartList, 1, k)
           r == SubSeq(PartList, k + 1, n)
<1>1. /\ PartList \in Seq(Seq(Nat)) /\ Len(PartList) = n /\ n \in Nat /\ Asked = FlattenSeq(PartList)
      /\ \A i \in 1 .. n : PartList[i] = Part(Whole[i], Stride * (i - 1))
  BY PartListType
<1> HIDE DEF n
<1>2. f \in Seq(Seq(Nat)) /\ r \in Seq(Seq(Nat)) /\ f \o r = PartList
  <2>1. k \in 0 .. Len(PartList) /\ 1 \in 1 .. Len(PartList) + 1 /\ k + 1 \in 1 .. Len(PartList) + 1 /\ n \in 0 .. Len(PartList)
    BY <1>1 DEF n
  <2>2. f \in Seq(Seq(Nat)) /\ r \in Seq(Seq(Nat))
    BY <1>1, <2>1, SubSeqKeeps
  <2>3. f \o r = PartList
    <3> DEFINE L == PartList
    <3>1. L \in Seq(Seq(Nat)) /\ Len(L) = n /\ 1 \in 1 .. Len(L) + 1 /\ k \in 1 - 1 .. Len(L) /\ n \in k .. Len(L)
      BY <1>1, <2>1 DEF n
    <3> HIDE DEF L
    <3>2. SubSeq(L, 1, k) \o SubSeq(L, k + 1, n) = SubSeq(L, 1, n) /\ SubSeq(L, 1, n) = L
      BY <3>1, ConcatAdjacentSubSeq, SubSeqFull
    <3> QED
      BY <3>2 DEF L
  <2> QED
    BY <2>2, <2>3
<1> HIDE DEF f, r
<1>3. FlattenSeq(f \o r) = FlattenSeq(f) \o FlattenSeq(r) /\ FlattenSeq(f) \in Seq(Nat) /\ FlattenSeq(r) \in Seq(Nat)
  BY <1>2, FlattenConcat, FlattenType
<1>4. Due(k) = FlattenSeq(f)
  BY DEF Due, f
<1>5. IsPrefix(Due(k), Asked)
  <2> DEFINE x == FlattenSeq(f)
             y == FlattenSeq(r)
  <2>1. x \in Seq(Nat) /\ y \in Seq(Nat) /\ Asked = x \o y /\ Due(k) = x
    BY <1>1, <1>2, <1>3, <1>4
  <2> HIDE DEF x, y
  <2>2. Len(x) <= Len(x \o y) /\ SubSeq(x \o y, 1, Len(x)) = x /\ SubSeq(x, 1, Len(x)) = x
    BY <2>1, ConcatProperties, SubSeqFull
  <2> QED
    BY <2>1, <2>2 DEF IsPrefix
<1>6. Due(0) = <<>>
  <2>1. SubSeq(PartList, 1, 0) = <<>>
    BY <1>1
  <2> QED
    BY <2>1, FlattenEmpty DEF Due
<1>7. Due(n) = Asked
  <2>1. SubSeq(PartList, 1, n) = PartList
    BY <1>1, SubSeqFull
  <2> QED
    BY <1>1, <2>1 DEF Due
<1>8. ASSUME k < n PROVE Due(k + 1) = Due(k) \o Part(Whole[k + 1], Stride * k)
  <2> DEFINE x == PartList[k + 1]
  <2>1. k + 1 \in 1 .. n /\ (k + 1) - 1 = k
    BY <1>1, <1>8 DEF n
  <2>2. x = Part(Whole[k + 1], Stride * k) /\ x \in Seq(Nat)
    BY <1>1, <2>1
  <2>3. SubSeq(PartList, 1, k + 1) = Append(f, x)
    BY <1>1, <2>1 DEF f
  <2> HIDE DEF x
  <2>4. FlattenSeq(Append(f, x)) = FlattenSeq(f) \o x
    BY <1>2, <2>2, FlattenAppend
  <2> QED
    BY <1>4, <2>2, <2>3, <2>4 DEF Due
<1> QED
  BY <1>3, <1>4, <1>5, <1>6, <1>7, <1>8 DEF n

\* Taking the next component of the chain.
InStep == /\ job.chain \in Seq(Components) /\ todo \in Seq(Components)
          /\ Taken \in 0 .. Len(Whole) /\ Flat(todo) = SubSeq(Whole, Taken + 1, Len(Whole))
LEMMA TakeNext ==
  ASSUME InStep, todo # <<>>, Head(todo) \in Leaves, todo' = Tail(todo), job' = job
  PROVE  /\ InStep' /\ Taken' = Taken + 1 /\ Taken' \in 0 .. Len(Whole) /\ Whole' = Whole
         /\ Base = Stride * Taken /\ Base \in Nat /\ Due(Taken') = Due(Taken) \o Part(Head(todo), Base)
<1> DEFINE F == Whole
           d == Taken
           n == Len(F)
           h == Head(todo)
           t == Tail(todo)
           r == Flat(t)
<1>1. /\ job.chain \in Seq(Components) /\ todo \in Seq(Components) /\ d \in 0 .. n /\ Flat(todo) = SubSeq(F, d + 1, n)
      /\ F \in Seq(Leaves) /\ n \in Nat
  BY SplicedType DEF InStep, Whole
<1>2. t \in Seq(Components) /\ Flat(todo) = <<h>> \o r /\ r \in Seq(Leaves) /\ h \in Leaves
  <2>1. t \in Seq(Components) /\ Flat(todo) = Splice(h) \o r
    BY <1>1, FlatHead
  <2>2. Splice(h) = <<h>>
    BY DEF Leaves, Media, Native, Captioned, Splice
  <2> QED
    BY <2>1, <2>2, SplicedType
<1>3. Taken = n - Len(Flat(todo)) /\ Taken' = n - Len(r) /\ Base = Stride * d /\ Whole' = F
  BY DEF Taken, Base, Whole
<1> HIDE DEF F, h, t, r, n
<1>4. Len(<<h>> \o r) = Len(r) + 1 /\ Len(r) \in Nat /\ (<<h>> \o r)[1] = h /\ \A i \in 1 .. Len(r) : (<<h>> \o r)[i + 1] = r[i]
  BY <1>2
<1>5. Len(r) + 1 = n - d /\ d \in Nat
  BY <1>1, <1>2, <1>3, <1>4
<1> HIDE DEF d
<1>6. d + 1 \in 1 .. n /\ d + 1 \in 0 .. n /\ Taken' = d + 1 /\ d < n
  BY <1>1, <1>3, <1>4, <1>5
<1>7. \A i \in 1 .. n - d : SubSeq(F, d + 1, n)[i] = F[d + i]
  BY <1>1, <1>6
<1>8. F[d + 1] = h
  <2>1. 1 \in 1 .. n - d
    BY <1>4, <1>5
  <2> QED
    BY <1>1, <1>2, <1>4, <1>7, <2>1
<1>9. r = SubSeq(F, (d + 1) + 1, n)
  <2> DEFINE u == SubSeq(F, (d + 1) + 1, n)
  <2>1. u \in Seq(Leaves) /\ Len(u) = n - (d + 1) /\ \A i \in 1 .. n - (d + 1) : u[i] = F[(d + 1) + i]
    <3> DEFINE e == (d + 1) + 1
    <3>1. e \in 1 .. n + 1 /\ n \in 0 .. n /\ n = Len(F) /\ n - e + 1 = n - (d + 1) /\ n - (d + 1) \in Nat
      BY <1>1, <1>5, <1>6 DEF n
    <3>2. \A i \in 1 .. n - (d + 1) : e + i - 1 = (d + 1) + i
      BY <1>1, <1>5
    <3> HIDE DEF e
    <3>3. /\ SubSeq(F, e, n) \in Seq(Leaves) /\ Len(SubSeq(F, e, n)) = n - e + 1
          /\ \A i \in 1 .. n - e + 1 : SubSeq(F, e, n)[i] = F[e + i - 1]
      BY <1>1, <3>1
    <3> QED
      BY <3>1, <3>2, <3>3 DEF e
  <2> HIDE DEF u
  <2>2. \A i \in 1 .. Len(r) : i + 1 \in 1 .. n - d /\ d + (i + 1) = (d + 1) + i
    BY <1>4, <1>5
  <2>3. \A i \in 1 .. Len(r) : r[i] = F[(d + 1) + i]
    BY <1>1, <1>2, <1>4, <1>7, <2>2
  <2>4. Len(r) = n - (d + 1)
    BY <1>1, <1>4, <1>5
  <2>5. r = u
    BY <1>2, <2>1, <2>3, <2>4, SeqEqual
  <2> QED
    BY <2>5 DEF u
<1>10. Base \in Nat
  BY <1>3, <1>5 DEF Stride
<1>11. Due(d + 1) = Due(d) \o Part(h, Base)
  BY <1>1, <1>3, <1>6, <1>8, DueNext DEF F, n
<1>12. InStep'
  <2>1. (Flat(todo))' = r
    BY DEF r, t
  <2>2. todo' \in Seq(Components) /\ job'.chain \in Seq(Components)
    BY <1>1, <1>2 DEF t
  <2>3. (Flat(todo))' = SubSeq(Whole', Taken' + 1, Len(Whole')) /\ Taken' \in 0 .. Len(Whole')
    BY <2>1, <1>3, <1>6, <1>9 DEF n
  <2> QED
    BY <2>2, <2>3 DEF InStep
<1>13. Due(Taken') = Due(d + 1)
  BY <1>6
<1> QED
  BY <1>1, <1>3, <1>6, <1>10, <1>11, <1>12, <1>13 DEF F, d, n, h

\* What was sent, in the order of the letters and parts.
SentKinds == {"text"} \cup Media \cup Native
Sendings  == [kind : SentKinds, n : Nat, chars : Line, mentions : SUBSET Nat, quoted : BOOLEAN]
Gift(m)   == Places(m.chars) \o IF m.kind = "text" THEN <<>> ELSE <<m.n>>
Gifts(s)  == [i \in DOMAIN s |-> Gift(s[i])]

LEMMA GiftType == ASSUME NEW m \in Sendings PROVE Gift(m) \in Seq(Nat)
<1>1. m.chars \in Line /\ m.n \in Nat
  BY DEF Sendings
<1> DEFINE x == IF m.kind = "text" THEN <<>> ELSE <<m.n>>
<1>2. x \in Seq(Nat) /\ Places(m.chars) \in Seq(Nat)
  BY <1>1, PlacesType
<1>3. Gift(m) = Places(m.chars) \o x
  BY DEF Gift
<1> HIDE DEF x
<1> QED
  BY <1>2, <1>3, ConcatProperties

LEMMA GiftsType ==
  ASSUME NEW s \in Seq(Sendings)
  PROVE  /\ Gifts(s) \in Seq(Seq(Nat)) /\ Len(Gifts(s)) = Len(s) /\ Len(s) \in Nat
         /\ (\A i \in 1 .. Len(s) : s[i] \in Sendings /\ Gifts(s)[i] = Gift(s[i])) /\ FlattenSeq(Gifts(s)) \in Seq(Nat)
<1>1. DOMAIN s = 1 .. Len(s) /\ Len(s) \in Nat /\ \A i \in 1 .. Len(s) : s[i] \in Sendings
  OBVIOUS
<1>2. Gifts(s) = [i \in 1 .. Len(s) |-> Gift(s[i])] /\ \A i \in 1 .. Len(s) : Gift(s[i]) \in Seq(Nat)
  BY <1>1, GiftType DEF Gifts
<1>3. Gifts(s) \in Seq(Seq(Nat)) /\ Len(Gifts(s)) = Len(s) /\ \A i \in 1 .. Len(s) : Gifts(s)[i] = Gift(s[i])
  BY <1>1, <1>2
<1> QED
  BY <1>1, <1>3, FlattenType

LEMMA GiftsAppend ==
  ASSUME NEW s \in Seq(Sendings), NEW m \in Sendings
  PROVE  Append(s, m) \in Seq(Sendings) /\ FlattenSeq(Gifts(Append(s, m))) = FlattenSeq(Gifts(s)) \o Gift(m)
<1> DEFINE t == Append(s, m)
           n == Len(s)
           gs == Gifts(s)
           gt == Gifts(t)
           x == Gift(m)
           u == Append(gs, x)
<1>1. /\ t \in Seq(Sendings) /\ Len(t) = n + 1 /\ n \in Nat /\ t[n + 1] = m /\ \A i \in 1 .. n : t[i] = s[i]
  BY AppendProperties
<1> HIDE DEF t
<1>2. /\ gs \in Seq(Seq(Nat)) /\ Len(gs) = n /\ (\A i \in 1 .. n : gs[i] = Gift(s[i]))
      /\ gt \in Seq(Seq(Nat)) /\ Len(gt) = n + 1 /\ (\A i \in 1 .. n + 1 : gt[i] = Gift(t[i])) /\ x \in Seq(Nat)
  BY <1>1, GiftsType, GiftType
<1> HIDE DEF gs, gt, x, n
<1>3. u \in Seq(Seq(Nat)) /\ Len(u) = n + 1 /\ u[n + 1] = x /\ \A i \in 1 .. n : u[i] = gs[i]
  BY <1>1, <1>2, AppendProperties
<1> HIDE DEF u
<1>4. \A i \in 1 .. n + 1 : gt[i] = u[i]
  <2> SUFFICES ASSUME NEW i \in 1 .. n + 1 PROVE gt[i] = u[i]
    OBVIOUS
  <2>1. CASE i = n + 1
    <3>1. gt[i] = Gift(m) /\ u[i] = x
      BY <1>1, <1>2, <1>3, <2>1
    <3> QED
      BY <3>1 DEF x
  <2>2. CASE i # n + 1
    <3>1. i \in 1 .. n
      BY <1>1, <2>2
    <3> QED
      BY <1>1, <1>2, <1>3, <3>1
  <2> QED
    BY <2>1, <2>2
<1>5. gt = u
  BY <1>2, <1>3, <1>4, SeqEqual
<1>6. FlattenSeq(Append(gs, x)) = FlattenSeq(gs) \o x
  BY <1>2, FlattenAppend
<1> QED
  BY <1>1, <1>5, <1>6 DEF t, gs, gt, x, u

LEMMA DeliveredIs == Delivered = FlattenSeq(Gifts(sent))
  BY DEF Delivered, Gifts, Gift

LEMMA PrefixOfWhole ==
  ASSUME NEW x \in Seq(Nat), NEW y \in Seq(Nat), NEW z \in Seq(Nat), IsPrefix(x \o y, z)
  PROVE  IsPrefix(x, z)
<1> DEFINE w == x \o y
           m == Len(x)
<1>1. w \in Seq(Nat) /\ Len(w) = Len(x) + Len(y) /\ SubSeq(w, 1, m) = x /\ SubSeq(x, 1, m) = x /\ m \in Nat /\ Len(y) \in Nat /\ Len(z) \in Nat
  BY ConcatProperties, SubSeqFull
<1> HIDE DEF w
<1>2. Len(w) <= Len(z) /\ SubSeq(w, 1, Len(w)) = SubSeq(z, 1, Len(w)) /\ SubSeq(w, 1, Len(w)) = w
  BY <1>1, SubSeqFull DEF IsPrefix, w
<1>3. \A i \in 1 .. Len(w) : w[i] = z[i]
  <2>1. w = SubSeq(z, 1, Len(w))
    BY <1>2
  <2>2. \A i \in 1 .. Len(w) : SubSeq(z, 1, Len(w))[i] = z[i]
    <3>1. Len(w) \in Nat /\ 1 \in Nat /\ \A i \in 1 .. Len(w) : i \in 1 .. Len(z)
      BY <1>1, <1>2
    <3>2. \A i \in 1 .. Len(w) : z[i] \in Nat
      BY <3>1, ElementOfSeq
    <3>3. \A i \in 1 .. Len(w) - 1 + 1 : SubSeq(z, 1, Len(w))[i] = z[1 + i - 1]
      BY <3>1, <3>2, SubSeqProperties
    <3> QED
      BY ONLY <3>1, <3>3
  <2> QED
    BY <2>1, <2>2
<1>4. SubSeq(w, 1, m) = SubSeq(z, 1, m)
  <2>1. m <= Len(w) /\ m <= Len(z) /\ Len(w) \in Nat
    BY <1>1, <1>2
  <2>2. \A i \in 1 .. m : i \in 1 .. Len(w) /\ w[i] \in Nat /\ z[i] \in Nat
    <3>1. \A i \in 1 .. m : i \in 1 .. Len(w) /\ i \in 1 .. Len(z)
      BY <2>1, <1>1
    <3> QED
      BY <3>1, <1>1, ElementOfSeq
  <2>3. /\ SubSeq(w, 1, m) \in Seq(Nat) /\ Len(SubSeq(w, 1, m)) = m
        /\ \A i \in 1 .. m : SubSeq(w, 1, m)[i] = w[i]
    BY <2>2, <1>1, SubSeqProperties
  <2>4. /\ SubSeq(z, 1, m) \in Seq(Nat) /\ Len(SubSeq(z, 1, m)) = m
        /\ \A i \in 1 .. m : SubSeq(z, 1, m)[i] = z[i]
    BY <2>2, <1>1, SubSeqProperties
  <2>5. \A i \in 1 .. m : SubSeq(w, 1, m)[i] = SubSeq(z, 1, m)[i]
    BY <2>2, <2>3, <2>4, <1>3
  <2> QED
    BY <2>3, <2>4, <2>5, SeqEqual
<1>5. m <= Len(z) /\ SubSeq(x, 1, m) = SubSeq(z, 1, m)
  <2>1. m <= Len(z)
    BY <1>1, <1>2
  <2> QED
    BY <2>1, <1>1, <1>4, Zenon
<1> QED
  BY <1>5 DEF IsPrefix

\* What is left to do at each stage.
Staged ==
  /\ stage \in {"take", "ready", "send", "last", "done", "failed"}
  /\ stage \in {"take", "ready", "last", "done"} => caption = <<>>
  /\ stage \in {"take", "done"} => queue = <<>>
  /\ stage = "ready" => /\ todo # <<>> /\ Head(todo).kind \in Media \cup Native \cup {"nested"}
                        /\ FlushedFirst(Head(todo).kind) => pending = <<>>
  /\ stage = "send" => todo # <<>> /\ Head(todo).kind \in Media
  /\ stage \in {"last", "done"} => todo = <<>>
Holding == /\ pending \in Line /\ mentions \subseteq Nat /\ queue \in Seq(Messages) /\ caption \in Seq(Messages)
         /\ Len(caption) <= 1 /\ sent \in Seq(Sendings)
Unsent == IF stage \in {"take", "ready"} THEN Places(pending) ELSE <<>>
Owed  == Carried(queue) \o (Carried(caption) \o Unsent)
Ordered ==
  /\ InStep /\ Holding /\ Staged
  /\ stage # "failed" => Delivered \o Owed = Due(Taken)
  /\ IsPrefix(Delivered, Asked)

LEMMA SameJob == ASSUME job' = job PROVE Whole' = Whole /\ PartList' = PartList /\ Asked' = Asked
  BY DEF Whole, PartList, Asked

\* A step that goes on keeps the order when it keeps the sum of what was sent and what is owed.
LEMMA GoesOn ==
  ASSUME Ordered, job' = job, InStep', Holding', Staged', Delivered' \o Owed' = Due(Taken')
  PROVE  Ordered'
<1>1. Whole' = Whole /\ PartList' = PartList /\ Asked' = Asked
  BY SameJob
<1>2. (Due(Taken))' = Due(Taken') /\ Taken' \in 0 .. Len(Whole)
  BY <1>1 DEF Due, InStep
<1>3. Whole \in Seq(Leaves)
  BY SplicedType DEF Ordered, InStep, Whole
<1>4. Delivered' \in Seq(Nat) /\ Owed' \in Seq(Nat)
  <2>1. Delivered' = FlattenSeq(Gifts(sent')) /\ sent' \in Seq(Sendings)
    BY DEF Delivered, Gifts, Gift, Holding
  <2>2. Carried(queue)' = Carried(queue') /\ Carried(caption)' = Carried(caption') /\ queue' \in Seq(Messages) /\ caption' \in Seq(Messages)
        /\ pending' \in Line
    BY DEF Carried, Bodies, Holding
  <2>3. Carried(queue') \in Seq(Nat) /\ Carried(caption') \in Seq(Nat) /\ Places(pending') \in Seq(Nat)
    BY <2>2, BodiesType, PlacesType
  <2>4. Unsent' \in Seq(Nat)
    BY <2>3 DEF Unsent
  <2>5. Owed' = Carried(queue') \o (Carried(caption') \o Unsent')
    BY <2>2 DEF Owed
  <2> QED
    BY <2>1, <2>3, <2>4, <2>5, GiftsType, ConcatProperties
<1>5. IsPrefix(Delivered', Asked)
  <2>1. IsPrefix(Due(Taken'), Asked) /\ Asked \in Seq(Nat)
    BY <1>2, <1>3, DueNext, PartListType
  <2> DEFINE x == Delivered'
             y == Owed'
  <2>2. x \in Seq(Nat) /\ y \in Seq(Nat) /\ IsPrefix(x \o y, Asked)
    BY <1>4, <2>1
  <2> HIDE DEF x, y
  <2>3. IsPrefix(x, Asked)
    BY <2>1, <2>2, PrefixOfWhole
  <2> QED
    BY <2>3 DEF x
<1> QED
  BY <1>1, <1>2, <1>5 DEF Ordered

LEMMA KindIs ==
  /\ todo # <<>> => Kind = Head(todo).kind
  /\ todo = <<>> => Kind \notin {"reply", "plain", "fallback", "at", "stranger"} \cup Media \cup Native \cup {"nested"}
<1>1. todo # <<>> => Kind = Head(todo).kind
  BY Zenon DEF Kind
<1>2. todo = <<>> => Kind \notin {"reply", "plain", "fallback", "at", "stranger"} \cup Media \cup Native \cup {"nested"}
  BY Zenon DEF Kind, Media, Native, Captioned
<1> QED
  BY <1>1, <1>2

LEMMA LeafAhead ==
  ASSUME InStep, todo # <<>>, Head(todo).kind # "nested" PROVE Head(todo) \in Leaves
<1>1. Head(todo) \in Components
  BY FlatHead DEF InStep
<1> QED
  BY <1>1 DEF Components, Nestings

LEMMA SumTypes ==
  ASSUME Holding
  PROVE  /\ Delivered \in Seq(Nat) /\ Carried(queue) \in Seq(Nat) /\ Carried(caption) \in Seq(Nat) /\ Unsent \in Seq(Nat)
         /\ Places(pending) \in Seq(Nat) /\ Owed \in Seq(Nat)
         /\ (queue = <<>> => Carried(queue) = <<>>) /\ (caption = <<>> => Carried(caption) = <<>>)
<1>1. Delivered = FlattenSeq(Gifts(sent)) /\ sent \in Seq(Sendings) /\ queue \in Seq(Messages) /\ caption \in Seq(Messages) /\ pending \in Line
  BY DeliveredIs DEF Holding
<1>2. /\ Carried(queue) \in Seq(Nat) /\ Carried(caption) \in Seq(Nat) /\ Places(pending) \in Seq(Nat)
      /\ (queue = <<>> => Carried(queue) = <<>>) /\ (caption = <<>> => Carried(caption) = <<>>)
  BY <1>1, BodiesType, PlacesType
<1>3. Unsent \in Seq(Nat)
  BY <1>2 DEF Unsent
<1>4. Owed \in Seq(Nat)
  BY <1>2, <1>3, ConcatProperties DEF Owed
<1> QED
  BY <1>1, <1>2, <1>3, <1>4, GiftsType

LEMMA OwedWhenIdle ==
  ASSUME Holding, queue = <<>>, caption = <<>>
  PROVE  Owed = Unsent
<1>1. Carried(queue) = <<>> /\ Carried(caption) = <<>> /\ Unsent \in Seq(Nat)
  BY SumTypes
<1>2. \A x \in Seq(Nat) : <<>> \o (<<>> \o x) = x
  BY ConcatEmptySeq
<1> QED
  BY <1>1, <1>2 DEF Owed

\* A component whose text is accumulated.
LEMMA Accumulates ==
  ASSUME Ordered, stage \in {"take", "ready"}, queue = <<>>, caption = <<>>, todo # <<>>, Head(todo) \in Leaves,
         todo' = Tail(todo), stage' = "take", UNCHANGED <<job, queue, caption, sent>>,
         pending' \in Line, Places(pending') = Places(pending) \o Part(Head(todo), Base), mentions' \subseteq Nat
  PROVE  Ordered'
<1> DEFINE p == Part(Head(todo), Base)
<1>1. Holding /\ InStep /\ Delivered \o Owed = Due(Taken)
  BY DEF Ordered
<1>2. InStep' /\ Due(Taken') = Due(Taken) \o p /\ p \in Seq(Nat)
  BY <1>1, TakeNext, PartIs
<1>3. Holding'
  BY <1>1 DEF Holding
<1>4. Staged'
  BY DEF Staged
<1>5. Owed = Places(pending)
  BY <1>1, OwedWhenIdle DEF Unsent
<1>6. Owed' = Places(pending) \o p
  <2> DEFINE x == Places(pending) \o p
  <2>1. Carried(queue') = <<>> /\ Carried(caption') = <<>>
    BY <1>1, SumTypes
  <2>2. Places(pending) \in Seq(Nat)
    BY <1>1, SumTypes
  <2>3. x \in Seq(Nat)
    BY <1>2, <2>2, ConcatProperties
  <2>4. Unsent' = x
    BY DEF Unsent
  <2>5. Owed' = Carried(queue') \o (Carried(caption') \o Unsent')
    BY DEF Owed, Carried, Bodies
  <2> HIDE DEF x
  <2>6. <<>> \o (<<>> \o x) = x
    BY <2>3, ConcatEmptySeq
  <2> QED
    BY <2>1, <2>4, <2>5, <2>6 DEF x
<1>7. Delivered' = Delivered
  BY DEF Delivered
<1>8. Delivered \o (Places(pending) \o p) = (Delivered \o Places(pending)) \o p
  <2>1. Delivered \in Seq(Nat) /\ Places(pending) \in Seq(Nat)
    BY <1>1, SumTypes
  <2> HIDE DEF p
  <2> QED
    BY <1>2, <2>1, Regrouped
<1>9. Delivered' \o Owed' = Due(Taken')
  BY <1>1, <1>2, <1>5, <1>6, <1>7, <1>8
<1> QED
  BY <1>2, <1>3, <1>4, <1>9, GoesOn

LEMMA FailKeepsOrder == ASSUME Ordered, Fail PROVE Ordered'
<1>1. UNCHANGED <<job, todo, pending, mentions, queue, caption, sent>> /\ stage' = "failed"
  BY DEF Fail
<1>2. InStep' /\ Holding' /\ Staged'
  BY <1>1 DEF Ordered, InStep, Holding, Staged, Taken, Whole, Flat
<1>3. Delivered' = Delivered /\ Asked' = Asked
  BY <1>1, SameJob DEF Delivered
<1> QED
  BY <1>1, <1>2, <1>3 DEF Ordered

LEMMA TakesKeepOrder ==
  ASSUME Ordered, TakeReply \/ TakeText \/ TakeAt PROVE Ordered'
<1>1. Holding /\ InStep /\ Staged /\ Places(pending) \in Seq(Nat) /\ pending \in Line
  BY SumTypes DEF Ordered, Holding
<1>2. stage = "take" /\ stage' = "take" /\ UNCHANGED <<job, queue, caption, sent>> /\ todo' = Tail(todo)
  BY DEF TakeReply, TakeText, TakeAt
<1>3. queue = <<>> /\ caption = <<>>
  BY <1>1, <1>2 DEF Staged
<1>4. Kind \in {"reply", "plain", "fallback", "at", "stranger"}
  BY DEF TakeReply, TakeText, TakeAt
<1>5. todo # <<>> /\ Head(todo).kind = Kind /\ Head(todo).kind # "nested"
  BY <1>4, KindIs
<1>6. Head(todo) \in Leaves
  BY <1>1, <1>5, LeafAhead
<1>7. Base \in Nat
  BY <1>1, <1>5, <1>6, <1>2, TakeNext
<1>8. pending' \in Line /\ Places(pending') = Places(pending) \o Part(Head(todo), Base) /\ mentions' \subseteq Nat
  <2>1. CASE TakeReply
    <3>1. Part(Head(todo), Base) = <<>>
      BY <1>5, <1>6, <1>7, <2>1, PartIs DEF TakeReply
    <3>2. Places(pending) \o <<>> = Places(pending)
      BY <1>1, ConcatEmptySeq
    <3> QED
      BY <1>1, <2>1, <3>1, <3>2 DEF TakeReply, Holding
  <2>2. CASE TakeText
    <3>1. Typed(Head(todo), Base) \in Line /\ Part(Head(todo), Base) = Places(Typed(Head(todo), Base))
      BY <1>5, <1>6, <1>7, <2>2, PartIs, TypedType DEF TakeText
    <3>2. pending' = pending \o Typed(Head(todo), Base) /\ mentions' = mentions
      BY <2>2 DEF TakeText
    <3> QED
      BY <1>1, <3>1, <3>2, PlacesConcat DEF Holding
  <2>3. CASE TakeAt
    <3>1. AtText(Base) \in Line /\ Part(Head(todo), Base) = Places(AtText(Base))
      BY <1>5, <1>6, <1>7, <2>3, PartIs, AtTextType DEF TakeAt
    <3>2. pending' = pending \o AtText(Base) /\ mentions' \subseteq mentions \cup {Base + 2}
      BY <2>3 DEF TakeAt
    <3>3. pending \o AtText(Base) \in Line /\ Places(pending \o AtText(Base)) = Places(pending) \o Places(AtText(Base))
      BY <1>1, <3>1, PlacesConcat
    <3>4. mentions' \subseteq Nat
      BY <1>1, <1>7, <3>2 DEF Holding
    <3> QED
      BY <3>1, <3>2, <3>3, <3>4
  <2> QED
    BY <2>1, <2>2, <2>3
<1> QED
  BY <1>2, <1>3, <1>5, <1>6, <1>8, Accumulates

LEMMA UnavailableKeepsOrder ==
  ASSUME Ordered, Unavailable PROVE Ordered'
<1> DEFINE x == Mark(".", Base + 1, "none")
           t == Separated(pending)
<1>1. Holding /\ InStep /\ Staged /\ pending \in Line
  BY DEF Ordered, Holding
<1>2. /\ stage = "ready" /\ stage' = "take" /\ UNCHANGED <<job, queue, caption, sent, mentions>> /\ todo' = Tail(todo)
      /\ queue = <<>> /\ Kind \in Media /\ pending' = Append(t, x)
  BY DEF Unavailable, Idle
<1>3. caption = <<>> /\ todo # <<>> /\ Head(todo).kind \in Media
  BY <1>1, <1>2, KindIs DEF Staged
<1>4. Head(todo) \in Leaves
  <2>1. Head(todo).kind # "nested"
    BY <1>3 DEF Media, Captioned
  <2> QED
    BY <1>1, <1>3, <2>1, LeafAhead
<1>5. Base \in Nat /\ Part(Head(todo), Base) = <<Base + 1>>
  <2>1. Base \in Nat
    BY <1>1, <1>2, <1>3, <1>4, TakeNext
  <2> QED
    BY <1>3, <1>4, <2>1, PartIs
<1>6. t \in Line /\ Places(t) = Places(pending)
  <2> DEFINE b == Mark(Blank, 0, "none")
  <2>1. b \in Characters /\ b.c \notin VisibleKinds
    BY NamedKinds, KindFacts DEF Mark, Characters
  <2>2. Separated(pending) = pending \/ Separated(pending) = Append(pending, Mark(Blank, 0, "none"))
    BY Zenon DEF Separated, Blank
  <2> HIDE DEF b
  <2>3. <<b>> \in Line /\ Hidden(<<b>>)
    BY <2>1 DEF Line, Hidden
  <2>4. Append(pending, b) = pending \o <<b>>
    BY <1>1, <2>1 DEF Line
  <2>5. Append(pending, b) \in Line /\ Places(Append(pending, b)) = Places(pending)
    BY <1>1, <2>3, <2>4, PlacesHiddenRight
  <2> QED
    BY <1>1, <2>2, <2>5 DEF b
<1>7. x \in Characters /\ x.c \in VisibleKinds /\ x.n = Base + 1
  BY <1>5, NamedKinds DEF Mark, Characters
<1>8. pending' \in Line /\ Places(pending') = Places(pending) \o <<Base + 1>>
  <2> HIDE DEF x, t
  <2>1. Append(t, x) = t \o <<x>> /\ <<x>> \in Line
    BY <1>6, <1>7 DEF Line
  <2>2. Places(<<x>>) = <<Base + 1>>
    BY <1>7, PlacesOne
  <2>3. t \o <<x>> \in Line /\ Places(t \o <<x>>) = Places(t) \o Places(<<x>>)
    BY <1>6, <2>1, PlacesConcat
  <2> QED
    BY <1>2, <1>6, <2>1, <2>2, <2>3
<1>9. mentions' \subseteq Nat
  BY <1>1, <1>2 DEF Holding
<1> QED
  BY <1>2, <1>3, <1>4, <1>5, <1>8, <1>9, Accumulates

LEMMA SameTodo ==
  ASSUME InStep, UNCHANGED <<job, todo>> PROVE InStep' /\ Taken' = Taken
  BY DEF InStep, Taken, Whole, Flat

\* The text is flushed: it waits as messages, no longer as text.
LEMMA ArriveKeepsOrder ==
  ASSUME Ordered, Arrive PROVE Ordered'
<1>1. Holding /\ InStep /\ Staged /\ Delivered \o Owed = Due(Taken) /\ pending \in Line /\ mentions \subseteq Nat
  BY DEF Ordered, Holding, Arrive
<1>2. /\ stage = "take" /\ stage' = "ready" /\ UNCHANGED <<job, todo, caption, sent>>
      /\ Kind \in Media \cup Native \cup {"nested"}
  BY DEF Arrive
<1>3. queue = <<>> /\ caption = <<>> /\ todo # <<>> /\ Kind = Head(todo).kind
  BY <1>1, <1>2, KindIs DEF Staged
<1>4. Owed = Places(pending) /\ Places(pending) \in Seq(Nat)
  BY <1>1, <1>2, <1>3, OwedWhenIdle, SumTypes DEF Unsent
<1>5. InStep' /\ Taken' = Taken /\ Delivered' = Delivered
  BY <1>1, <1>2, SameTodo DEF Delivered
<1>6. Chunks \in Seq(Messages) /\ Carried(Chunks) = Places(pending)
  BY <1>1, ChunksCarry
<1>7. /\ FlushedFirst(Kind) => queue' = Chunks /\ pending' = <<>> /\ mentions' = {}
      /\ ~FlushedFirst(Kind) => UNCHANGED <<queue, pending, mentions>>
  BY DEF Arrive
<1>8. Holding'
  <2>1. <<>> \in Line
    BY DEF Line
  <2> QED
    BY <1>1, <1>2, <1>6, <1>7, <2>1 DEF Holding
<1>9. Staged'
  <2>1. FlushedFirst(Head(todo).kind)' = FlushedFirst(Head(todo).kind)
    BY <1>2 DEF FlushedFirst
  <2> QED
    BY <1>2, <1>3, <1>7, <2>1 DEF Staged, FlushedFirst
<1>10. Owed' = Places(pending)
  <2>1. Owed' = Carried(queue') \o (Carried(caption') \o Places(pending'))
    BY <1>2 DEF Owed, Unsent, Carried, Bodies
  <2>2. Carried(caption') = <<>> /\ Carried(queue) = <<>>
    BY <1>1, <1>2, <1>3, SumTypes
  <2>3. CASE FlushedFirst(Kind)
    <3>1. Carried(queue') = Places(pending) /\ Places(pending') = <<>>
      BY <1>6, <1>7, <2>3, PlacesEmpty
    <3>2. \A x \in Seq(Nat) : x \o (<<>> \o <<>>) = x
      BY ConcatEmptySeq
    <3> QED
      BY <1>4, <2>1, <2>2, <3>1, <3>2
  <2>4. CASE ~FlushedFirst(Kind)
    <3>1. Carried(queue') = <<>> /\ Places(pending') = Places(pending)
      BY <1>7, <2>2, <2>4
    <3>2. \A x \in Seq(Nat) : <<>> \o (<<>> \o x) = x
      BY ConcatEmptySeq
    <3> QED
      BY <1>4, <2>1, <2>2, <3>1, <3>2
  <2> QED
    BY <2>3, <2>4
<1>11. Delivered' \o Owed' = Due(Taken')
  BY <1>1, <1>4, <1>5, <1>10
<1> QED
  BY <1>2, <1>5, <1>8, <1>9, <1>11, GoesOn

LEMMA EnterNestedKeepsOrder ==
  ASSUME Ordered, EnterNested PROVE Ordered'
<1> DEFINE h == Head(todo)
           t == Tail(todo)
<1>1. Holding /\ InStep /\ Staged /\ Delivered \o Owed = Due(Taken) /\ todo \in Seq(Components)
  BY DEF Ordered, EnterNested, InStep
<1>2. /\ stage = "ready" /\ stage' = "take" /\ UNCHANGED <<job, pending, mentions, queue, caption, sent>>
      /\ Kind = "nested" /\ todo' = h.items \o t /\ queue = <<>>
  BY DEF EnterNested, Idle
<1>3. todo # <<>> /\ h.kind = "nested"
  BY <1>1, <1>2, KindIs DEF Staged
<1>4. h \in Components /\ t \in Seq(Components) /\ Flat(todo) = Splice(h) \o Flat(t)
  BY <1>1, <1>3, FlatHead
<1>5. h.items \in Seq(Leaves) /\ Splice(h) = h.items
  <2>1. h \in Nestings
    BY <1>3, <1>4 DEF Components, Leaves, Media, Native, Captioned
  <2> QED
    BY <1>3, <2>1 DEF Nestings, Splice
<1> HIDE DEF h, t
<1>6. h.items \in Seq(Components) /\ Flat(h.items) = h.items
  BY <1>5, FlatLeaves
<1>7. h.items \o t \in Seq(Components) /\ Flat(h.items \o t) = Flat(todo)
  <2>1. h.items \o t \in Seq(Components) /\ Flat(h.items \o t) = Flat(h.items) \o Flat(t)
    BY <1>4, <1>6, FlatConcat
  <2> QED
    BY <1>4, <1>5, <1>6, <2>1, Zenon
<1>8. Flat(todo)' = Flat(todo) /\ todo' \in Seq(Components)
  <2>1. Flat(todo)' = Flat(todo')
    BY DEF Flat
  <2> QED
    BY <1>2, <1>7, <2>1
<1>9. InStep' /\ Taken' = Taken
  <2>1. Whole' = Whole
    BY <1>2, SameJob
  <2> QED
    BY <1>1, <1>2, <1>8, <2>1 DEF InStep, Taken
<1>10. Holding' /\ Staged'
  BY <1>1, <1>2 DEF Holding, Staged
<1>11. Owed' = Owed /\ Delivered' = Delivered
  BY <1>2 DEF Owed, Unsent, Carried, Bodies, Delivered
<1>12. Delivered' \o Owed' = Due(Taken')
  BY <1>1, <1>9, <1>11
<1> QED
  BY <1>2, <1>9, <1>10, <1>12, GoesOn

LEMMA ResolvedKeepsOrder ==
  ASSUME Ordered, Resolved PROVE Ordered'
<1>1. Holding /\ InStep /\ Staged /\ Delivered \o Owed = Due(Taken) /\ pending \in Line /\ mentions \subseteq Nat
  BY DEF Ordered, Holding, Resolved
<1>2. /\ stage = "ready" /\ stage' = "send" /\ UNCHANGED <<job, todo, sent>> /\ queue = <<>> /\ Kind \in Media
  BY DEF Resolved, Idle
<1>3. caption = <<>> /\ todo # <<>> /\ Kind = Head(todo).kind /\ (FlushedFirst(Kind) => pending = <<>>)
  BY <1>1, <1>2, KindIs DEF Staged
<1>4. Owed = Places(pending) /\ Places(pending) \in Seq(Nat)
  BY <1>1, <1>2, <1>3, OwedWhenIdle, SumTypes DEF Unsent
<1>5. InStep' /\ Taken' = Taken /\ Delivered' = Delivered
  BY <1>1, <1>2, SameTodo DEF Delivered
<1>6. /\ Chunks \in Seq(Messages) /\ Carried(Chunks) = Places(pending)
      /\ Chunks # <<>> =>
           /\ Before(Chunks) \in Seq(Messages) /\ CaptionOf(Chunks) \in Seq(Messages) /\ Len(CaptionOf(Chunks)) = 1
           /\ Carried(Before(Chunks)) \o Carried(CaptionOf(Chunks)) = Places(pending)
  BY <1>1, ChunksCarry
<1>7. Staged'
  BY <1>2, <1>3 DEF Staged
<1>8. Owed' = Carried(queue') \o (Carried(caption') \o <<>>)
  BY <1>2 DEF Owed, Unsent, Carried, Bodies
<1>e. Carried(<<>>) = <<>> /\ <<>> \in Seq(Messages) /\ <<>> \in Line
  BY NoneCarried DEF Line
<1>9. Holding' /\ Owed' = Places(pending)
  <2>1. CASE job.captions /\ Kind \in Captioned /\ Chunks # <<>>
    <3>1. queue' = Before(Chunks) /\ caption' = CaptionOf(Chunks) /\ UNCHANGED <<pending, mentions>>
      BY <2>1 DEF Resolved
    <3>2. Holding'
      <4> DEFINE q == Before(Chunks)
                 c == CaptionOf(Chunks)
      <4>1. q \in Seq(Messages) /\ c \in Seq(Messages) /\ Len(c) = 1
        BY <1>6, <2>1
      <4>2. queue' = q /\ caption' = c
        BY <3>1
      <4> HIDE DEF q, c
      <4>3. queue' \in Seq(Messages) /\ caption' \in Seq(Messages) /\ Len(caption') <= 1
        <5>1. Len(c) <= 1
          BY ONLY <4>1
        <5> QED
          BY ONLY <4>1, <4>2, <5>1, Zenon
      <4> QED
        BY <1>1, <1>2, <3>1, <4>3 DEF Holding
    <3>3. Carried(caption') \in Seq(Nat)
      BY <1>6, <2>1, <3>1, BodiesType
    <3>4. Carried(caption') \o <<>> = Carried(caption')
      BY <3>3, ConcatEmptySeq
    <3> QED
      BY <1>6, <1>8, <2>1, <3>1, <3>2, <3>4
  <2>2. CASE ~(job.captions /\ Kind \in Captioned /\ Chunks # <<>>) /\ job.captions /\ Kind = "sticker"
    <3>1. queue' = Chunks /\ pending' = <<>> /\ mentions' = {} /\ caption' = <<>>
      BY <1>3, <2>2 DEF Resolved
    <3>2. Holding'
      BY <1>1, <1>2, <1>6, <1>e, <3>1 DEF Holding
    <3>3. \A x \in Seq(Nat) : x \o (<<>> \o <<>>) = x
      BY ConcatEmptySeq
    <3> QED
      BY <1>4, <1>6, <1>8, <1>e, <3>1, <3>2, <3>3
  <2>3. CASE ~(job.captions /\ Kind \in Captioned /\ Chunks # <<>>) /\ ~(job.captions /\ Kind = "sticker")
    <3>1. UNCHANGED <<queue, pending, mentions, caption>>
      BY <2>3 DEF Resolved
    <3>2. Holding'
      BY <1>1, <1>2, <3>1 DEF Holding
    <3>3. Places(pending) = <<>>
      <4>1. CASE FlushedFirst(Kind)
        BY <1>3, <4>1, PlacesEmpty
      <4>2. CASE ~FlushedFirst(Kind)
        <5>1. Chunks = <<>>
          BY <2>3, <4>2 DEF FlushedFirst
        <5> QED
          BY <1>6, <1>e, <5>1
      <4> QED
        BY <4>1, <4>2
    <3>4. <<>> \o (<<>> \o <<>>) = <<>>
      BY ConcatEmptySeq, EmptySeq
    <3> QED
      BY <1>2, <1>3, <1>8, <1>e, <3>1, <3>2, <3>3, <3>4
  <2> QED
    BY <2>1, <2>2, <2>3
<1>10. Delivered' \o Owed' = Due(Taken')
  BY <1>1, <1>4, <1>5, <1>9
<1> QED
  BY <1>2, <1>5, <1>7, <1>9, <1>10, GoesOn

LEMMA PostGives ==
  ASSUME Holding, NEW kind \in SentKinds, NEW n \in Nat, NEW body \in Messages, Post(kind, n, body)
  PROVE  /\ sent' \in Seq(Sendings)
         /\ Delivered' = Delivered \o (Places(body.chars) \o IF kind = "text" THEN <<>> ELSE <<n>>)
<1> DEFINE m == [kind |-> kind, n |-> n, chars |-> body.chars, mentions |-> body.mentions, quoted |-> Quoted(kind)]
<1>1. sent \in Seq(Sendings) /\ sent' = Append(sent, m)
  BY DEF Holding, Post
<1>2. m \in Sendings
  <2>1. Quoted(kind) \in BOOLEAN
    BY DEF Quoted
  <2>2. body.chars \in Line /\ body.mentions \in SUBSET Nat
    BY DEF Messages
  <2> HIDE DEF Quoted
  <2> QED
    BY <2>1, <2>2 DEF Sendings
<1>3. Gift(m) = Places(body.chars) \o IF kind = "text" THEN <<>> ELSE <<n>>
  BY DEF Gift
<1> HIDE DEF m
<1>4. Append(sent, m) \in Seq(Sendings) /\ FlattenSeq(Gifts(Append(sent, m))) = FlattenSeq(Gifts(sent)) \o Gift(m)
  BY <1>1, <1>2, GiftsAppend
<1>5. Delivered' = FlattenSeq(Gifts(sent')) /\ Delivered = FlattenSeq(Gifts(sent))
  BY DEF Delivered, Gifts, Gift
<1> QED
  BY <1>1, <1>3, <1>4, <1>5

LEMMA SendChunkKeepsOrder ==
  ASSUME Ordered, SendChunk PROVE Ordered'
<1>1. CASE Fail
  BY <1>1, FailKeepsOrder
<1>2. CASE /\ Post("text", 0, Head(queue)) /\ queue' = Tail(queue)
           /\ UNCHANGED <<job, todo, pending, mentions, stage, caption, superSent>>
  <2> DEFINE x == Places(Head(queue).chars)
             y == Carried(Tail(queue))
             z == Carried(caption) \o Unsent
  <2>1. stage \in {"ready", "send", "last"} /\ queue # <<>>
    BY DEF SendChunk
  <2>2. Holding /\ InStep /\ Staged /\ Delivered \o Owed = Due(Taken) /\ queue \in Seq(Messages)
    BY <2>1 DEF Ordered, Holding
  <2>3. Head(queue) \in Messages /\ Tail(queue) \in Seq(Messages) /\ Carried(queue) = x \o y
    BY <2>1, <2>2, HeadCarried
  <2>4. sent' \in Seq(Sendings) /\ Delivered' = Delivered \o (x \o <<>>)
    <3>1. "text" \in SentKinds /\ 0 \in Nat
      BY DEF SentKinds
    <3> QED
      BY <1>2, <2>2, <2>3, <3>1, PostGives
  <2>5. x \in Seq(Nat) /\ y \in Seq(Nat) /\ Delivered \in Seq(Nat) /\ Carried(caption) \in Seq(Nat) /\ Unsent \in Seq(Nat)
    <3>1. Head(queue).chars \in Line
      BY <2>3 DEF Messages
    <3> QED
      BY <2>2, <2>3, <3>1, PlacesType, BodiesType, SumTypes
  <2>6. Owed' = y \o z
    BY <1>2 DEF Owed, Unsent, Carried, Bodies
  <2>7. Owed = (x \o y) \o z
    BY <2>3 DEF Owed
  <2>8. z \in Seq(Nat)
    BY <2>5, ConcatProperties
  <2>9. InStep' /\ Taken' = Taken /\ Holding' /\ Staged'
    <3>1. InStep' /\ Taken' = Taken
      BY <1>2, <2>2, SameTodo
    <3>2. Holding'
      BY <1>2, <2>2, <2>3, <2>4 DEF Holding
    <3>3. Staged'
      <4>1. FlushedFirst(Head(todo).kind)' = FlushedFirst(Head(todo).kind)
        BY <1>2 DEF FlushedFirst
      <4> QED
        BY <1>2, <2>1, <2>2, <4>1 DEF Staged
    <3> QED
      BY <3>1, <3>2, <3>3
  <2>10. Delivered' \o Owed' = Delivered \o Owed
    <3> DEFINE d == Delivered
    <3>1. d \in Seq(Nat)
      BY <2>5
    <3>2. Delivered' = d \o x
      BY <2>4, <2>5, ConcatEmptySeq
    <3> HIDE DEF d, x, y, z
    <3> DEFINE w == y \o z
    <3>3. x \in Seq(Nat) /\ y \in Seq(Nat) /\ z \in Seq(Nat)
      BY <2>5, <2>8
    <3>4. x \o w = (x \o y) \o z
      BY ONLY <3>3, Regrouped
    <3>5. w \in Seq(Nat)
      BY ONLY <3>3, ConcatProperties
    <3>6. Owed' = w
      BY <2>6
    <3> HIDE DEF w
    <3>7. d \o (x \o w) = (d \o x) \o w
      BY ONLY <3>1, <3>3, <3>5, Regrouped
    <3> QED
      BY <2>7, <3>2, <3>4, <3>6, <3>7 DEF d
  <2> QED
    BY <1>2, <2>2, <2>9, <2>10, GoesOn
<1> QED
  BY <1>1, <1>2 DEF SendChunk

LEMMA SendPartKeepsOrder ==
  ASSUME Ordered, SendPart PROVE Ordered'
<1> DEFINE body == IF caption = <<>> THEN Nothing ELSE Head(caption)
<1>1. CASE Fail
  BY <1>1, FailKeepsOrder
<1>2. CASE /\ Post(Kind, Base + 1, body) /\ pending' = <<>> /\ mentions' = {} /\ caption' = <<>>
           /\ todo' = Tail(todo) /\ stage' = "take" /\ UNCHANGED <<job, queue, superSent>>
  <2>1. queue = <<>> /\ ((stage = "send" /\ Kind \in Media) \/ (stage = "ready" /\ Kind \in Native))
    BY DEF SendPart, Idle
  <2>2. Holding /\ InStep /\ Staged /\ Delivered \o Owed = Due(Taken) /\ caption \in Seq(Messages) /\ Len(caption) <= 1
    BY <2>1 DEF Ordered, Holding
  <2>3. todo # <<>> /\ Kind = Head(todo).kind
    BY <2>1, <2>2, KindIs DEF Staged
  <2>4. Head(todo) \in Leaves /\ Kind \in SentKinds /\ Kind # "text"
    <3>1. Kind \in Media \cup Native /\ Kind # "nested" /\ Kind # "text"
      BY <2>1 DEF Media, Native, Captioned
    <3> QED
      BY <2>2, <2>3, <3>1, LeafAhead DEF SentKinds
  <2>5. InStep' /\ Due(Taken') = Due(Taken) \o Part(Head(todo), Base) /\ Base \in Nat
    BY <1>2, <2>2, <2>3, <2>4, TakeNext
  <2>6. Part(Head(todo), Base) = <<Base + 1>>
    BY <2>1, <2>3, <2>4, <2>5, PartIs
  <2>7. body \in Messages /\ Carried(caption) = Places(body.chars)
    <3>1. CASE caption = <<>>
      <4>1. Nothing \in Messages /\ Nothing.chars = <<>>
        BY DEF Nothing, Messages, Line
      <4>2. body = Nothing
        BY <3>1
      <4> QED
        BY <2>2, <3>1, <4>1, <4>2, BodiesType, PlacesEmpty
    <3>2. CASE caption # <<>>
      <4>1. Head(caption) \in Messages /\ Tail(caption) \in Seq(Messages) /\ Carried(caption) = Places(Head(caption).chars) \o Carried(Tail(caption))
        BY <2>2, <3>2, HeadCarried
      <4>2. Tail(caption) = <<>>
        BY <2>2, <3>2
      <4>3. Carried(Tail(caption)) = <<>>
        BY <4>1, <4>2, BodiesType
      <4>4. Places(Head(caption).chars) \in Seq(Nat)
        BY <4>1, PlacesType DEF Messages
      <4>5. Places(Head(caption).chars) \o <<>> = Places(Head(caption).chars)
        BY <4>4, ConcatEmptySeq
      <4> QED
        BY <3>2, <4>1, <4>3, <4>5
    <3> QED
      BY <3>1, <3>2
  <2> DEFINE x == Places(body.chars)
             n == Base + 1
  <2>8. x \in Seq(Nat) /\ n \in Nat /\ Delivered \in Seq(Nat) /\ <<n>> \in Seq(Nat)
    BY <2>2, <2>5, <2>7, PlacesType, SumTypes DEF Messages
  <2> HIDE DEF body
  <2>9. sent' \in Seq(Sendings) /\ Delivered' = Delivered \o (x \o <<n>>)
    BY <1>2, <2>2, <2>4, <2>7, <2>8, PostGives
  <2>10. Owed = x
    <3>1. Unsent = <<>>
      <4>1. CASE stage = "send"
        BY <4>1 DEF Unsent
      <4>2. CASE stage = "ready" /\ Kind \in Native
        <5>1. FlushedFirst(Kind)
          BY <4>2 DEF FlushedFirst, Native, Captioned
        <5>2. pending = <<>>
          BY <2>2, <2>3, <4>2, <5>1 DEF Staged
        <5> QED
          BY <4>2, <5>2, PlacesEmpty DEF Unsent
      <4> QED
        BY <2>1, <4>1, <4>2
    <3>2. Carried(queue) = <<>>
      BY <2>1, <2>2, SumTypes
    <3>3. <<>> \o (x \o <<>>) = x
      BY <2>8, ConcatEmptySeq
    <3> QED
      BY <2>7, <3>1, <3>2, <3>3 DEF Owed
  <2>11. Owed' = <<>>
    <3>1. Owed' = Carried(queue') \o (Carried(caption') \o Places(pending'))
      BY <1>2 DEF Owed, Unsent, Carried, Bodies
    <3>2. Carried(<<>>) = <<>> /\ Places(<<>>) = <<>>
      BY NoneCarried, PlacesEmpty
    <3>3. <<>> \o (<<>> \o <<>>) = <<>>
      BY ConcatEmptySeq, EmptySeq
    <3> QED
      BY <1>2, <2>1, <3>1, <3>2, <3>3
  <2>12. Holding' /\ Staged'
    <3>1. <<>> \in Line /\ <<>> \in Seq(Messages)
      BY DEF Line
    <3> QED
      BY <1>2, <2>1, <2>9, <3>1 DEF Holding, Staged
  <2>13. Delivered' \o Owed' = Due(Taken')
    <3> DEFINE d == Delivered
    <3>1. d \in Seq(Nat)
      BY <2>8
    <3> HIDE DEF d, x, n
    <3> DEFINE y == <<n>>
    <3>2. x \in Seq(Nat) /\ y \in Seq(Nat)
      BY <2>8
    <3> HIDE DEF y
    <3>3. (d \o (x \o y)) \o <<>> = (d \o x) \o y
      <4>1. d \o (x \o y) = (d \o x) \o y
        BY ONLY <3>1, <3>2, Regrouped
      <4>2. (d \o x) \o y \in Seq(Nat)
        BY ONLY <3>1, <3>2, ConcatProperties
      <4>3. ((d \o x) \o y) \o <<>> = (d \o x) \o y
        BY ONLY <4>2, ConcatEmptySeq
      <4> QED
        BY ONLY <4>1, <4>3, Zenon
    <3> QED
      BY <2>2, <2>5, <2>6, <2>9, <2>10, <2>11, <3>3 DEF d, n, y
  <2> QED
    BY <1>2, <2>5, <2>12, <2>13, GoesOn
<1> QED
  BY <1>1, <1>2 DEF SendPart

LEMMA FlushLastKeepsOrder ==
  ASSUME Ordered, FlushLast PROVE Ordered'
<1>1. Holding /\ InStep /\ Staged /\ Delivered \o Owed = Due(Taken) /\ pending \in Line /\ mentions \subseteq Nat
  BY DEF Ordered, Holding, FlushLast
<1>2. /\ stage = "take" /\ stage' = "last" /\ todo = <<>> /\ queue' = Chunks
      /\ UNCHANGED <<job, todo, pending, mentions, caption, sent>>
  BY DEF FlushLast
<1>3. queue = <<>> /\ caption = <<>>
  BY <1>1, <1>2 DEF Staged
<1>4. Owed = Places(pending) /\ Places(pending) \in Seq(Nat)
  BY <1>1, <1>2, <1>3, OwedWhenIdle, SumTypes DEF Unsent
<1>5. InStep' /\ Taken' = Taken /\ Delivered' = Delivered
  BY <1>1, <1>2, SameTodo DEF Delivered
<1>6. Chunks \in Seq(Messages) /\ Carried(Chunks) = Places(pending)
  BY <1>1, ChunksCarry
<1>7. Holding' /\ Staged'
  BY <1>1, <1>2, <1>3, <1>6 DEF Holding, Staged
<1>8. Owed' = Places(pending)
  <2>1. Owed' = Carried(queue') \o (Carried(caption') \o <<>>)
    BY <1>2 DEF Owed, Unsent, Carried, Bodies
  <2>2. Carried(caption') = <<>> /\ Carried(queue') = Places(pending)
    BY <1>2, <1>3, <1>6, NoneCarried
  <2>3. \A x \in Seq(Nat) : x \o (<<>> \o <<>>) = x
    BY ConcatEmptySeq
  <2> QED
    BY <1>4, <2>1, <2>2, <2>3
<1>9. Delivered' \o Owed' = Due(Taken')
  BY <1>1, <1>4, <1>5, <1>8
<1> QED
  BY <1>2, <1>5, <1>7, <1>9, GoesOn

LEMMA FinishKeepsOrder ==
  ASSUME Ordered, Finish PROVE Ordered'
<1>1. Holding /\ InStep /\ Staged /\ Delivered \o Owed = Due(Taken)
  BY DEF Ordered, Finish
<1>2. /\ stage = "last" /\ stage' \in {"failed", "done"} /\ queue = <<>>
      /\ UNCHANGED <<job, todo, pending, mentions, queue, caption, sent>>
  BY DEF Finish, Idle
<1>3. InStep' /\ Taken' = Taken /\ Delivered' = Delivered
  BY <1>1, <1>2, SameTodo DEF Delivered
<1>4. Holding' /\ Staged'
  BY <1>1, <1>2 DEF Holding, Staged
<1>5. Owed' = Owed
  BY <1>2 DEF Owed, Unsent, Carried, Bodies
<1>6. Delivered' \o Owed' = Due(Taken')
  BY <1>1, <1>3, <1>5
<1> QED
  BY <1>2, <1>3, <1>4, <1>6, GoesOn

LEMMA StartsInOrder == ASSUME Init PROVE Ordered
<1>1. /\ job.chain \in Chains /\ todo = job.chain /\ pending = <<>> /\ mentions = {} /\ stage = "take" /\ queue = <<>>
      /\ caption = <<>> /\ sent = <<>>
  BY DEF Init
<1>2. todo \in Seq(Components) /\ job.chain \in Seq(Components) /\ Whole = Flat(todo)
  BY <1>1, ChainsAssumption DEF Components, Whole
<1>3. Whole \in Seq(Leaves)
  BY <1>2, SplicedType
<1>4. InStep /\ Taken = 0
  <2>1. Len(Whole) \in Nat /\ SubSeq(Whole, 1, Len(Whole)) = Whole
    BY <1>3, SubSeqFull
  <2>2. Taken = 0
    BY <1>2, <2>1 DEF Taken
  <2> QED
    BY <1>2, <2>1, <2>2 DEF InStep
<1>5. Holding /\ Staged
  <2>1. <<>> \in Line /\ <<>> \in Seq(Messages) /\ <<>> \in Seq(Sendings)
    BY DEF Line
  <2> QED
    BY <1>1, <2>1 DEF Holding, Staged
<1>6. Owed = <<>> /\ Delivered = <<>>
  <2>1. Owed = Places(pending)
    BY <1>1, <1>5, OwedWhenIdle DEF Unsent
  <2>2. Gifts(sent) = <<>>
    <3>1. sent \in Seq(Sendings)
      BY <1>5 DEF Holding
    <3>2. Len(Gifts(sent)) = 0 /\ Gifts(sent) \in Seq(Seq(Nat))
      BY <1>1, <3>1, GiftsType
    <3> QED
      BY <3>2
  <2> QED
    BY <1>1, <2>1, <2>2, PlacesEmpty, FlattenEmpty, DeliveredIs
<1>7. Due(0) = <<>> /\ IsPrefix(Due(0), Asked)
  <2>1. 0 \in 0 .. Len(Whole)
    BY <1>3
  <2> QED
    BY <1>3, <2>1, DueNext
<1>8. <<>> \o <<>> = <<>>
  BY ConcatEmptySeq, EmptySeq
<1> QED
  BY <1>4, <1>5, <1>6, <1>7, <1>8 DEF Ordered

LEMMA OrderedDelivers == ASSUME Ordered PROVE DeliveredInOrder
<1>1. IsPrefix(Delivered, Asked)
  BY DEF Ordered
<1>2. ASSUME stage = "done" PROVE Delivered = Asked
  <2>1. queue = <<>> /\ caption = <<>> /\ todo = <<>> /\ Holding /\ InStep /\ Delivered \o Owed = Due(Taken)
    BY <1>2 DEF Ordered, Staged
  <2>2. Owed = <<>>
    BY <1>2, <2>1, OwedWhenIdle DEF Unsent
  <2>3. Delivered \o <<>> = Delivered
    BY <2>1, SumTypes, ConcatEmptySeq
  <2>4. Taken = Len(Whole) /\ Whole \in Seq(Leaves) /\ Len(Whole) \in 0 .. Len(Whole)
    <3>1. Whole \in Seq(Leaves)
      BY <2>1, SplicedType DEF InStep, Whole
    <3>2. Flat(todo) = <<>>
      <4>1. Spliced(<<>>) \in Seq(Seq(Leaves)) /\ Len(Spliced(<<>>)) = 0 /\ Flat(<<>>) = FlattenSeq(Spliced(<<>>))
        BY SplicedType, EmptySeq
      <4>2. Spliced(<<>>) = <<>>
        BY <4>1
      <4> QED
        BY <2>1, <4>1, <4>2, FlattenEmpty
    <3> QED
      BY <3>1, <3>2 DEF Taken
  <2>5. Due(Len(Whole)) = Asked
    BY <2>4, DueNext
  <2> QED
    BY <2>1, <2>2, <2>3, <2>4, <2>5
<1> QED
  BY <1>1, <1>2 DEF DeliveredInOrder

\* DeliveredInOrder, for every chain, every limit and every text: whatever is flushed, becomes a
\* caption, is nested or cannot be had, what was sent is a beginning of the chain, and all of it when
\* the call returns (whatsapp_event.send, process_message_chain, flush_pending_text, and the renderer
\* and the chunker under them).
THEOREM SentInOrder == Spec => []DeliveredInOrder
<1>1. Init => Ordered
  BY StartsInOrder
<1>2. Ordered /\ [Next]_vars => Ordered'
  <2> SUFFICES ASSUME Ordered, [Next]_vars PROVE Ordered'
    OBVIOUS
  <2>1. CASE TakeReply \/ TakeText \/ TakeAt
    BY <2>1, TakesKeepOrder
  <2>2. CASE Arrive
    BY <2>2, ArriveKeepsOrder
  <2>3. CASE EnterNested
    BY <2>3, EnterNestedKeepsOrder
  <2>4. CASE Unavailable
    BY <2>4, UnavailableKeepsOrder
  <2>5. CASE Resolved
    BY <2>5, ResolvedKeepsOrder
  <2>6. CASE SendChunk
    BY <2>6, SendChunkKeepsOrder
  <2>7. CASE SendPart
    BY <2>7, SendPartKeepsOrder
  <2>8. CASE FlushLast
    BY <2>8, FlushLastKeepsOrder
  <2>9. CASE Finish
    BY <2>9, FinishKeepsOrder
  <2>10. CASE UNCHANGED vars
    <3>1. InStep' /\ Holding' /\ Staged' /\ Owed' = Owed /\ Delivered' = Delivered /\ Asked' = Asked /\ stage' = stage /\ Taken' = Taken
      <4>1. InStep' /\ Taken' = Taken /\ Asked' = Asked
        BY <2>10, SameTodo, SameJob DEF Ordered, vars
      <4>2. Holding' /\ Staged'
        BY <2>10 DEF Ordered, Holding, Staged, FlushedFirst, vars
      <4>3. Owed' = Owed /\ Delivered' = Delivered /\ stage' = stage
        BY <2>10 DEF Owed, Unsent, Carried, Bodies, Delivered, vars
      <4> QED
        BY <4>1, <4>2, <4>3
    <3>2. (Due(Taken))' = Due(Taken)
      BY <2>10, <3>1, SameJob DEF Due, vars
    <3> QED
      BY <3>1, <3>2 DEF Ordered
  <2> QED
    BY <2>1, <2>2, <2>3, <2>4, <2>5, <2>6, <2>7, <2>8, <2>9, <2>10 DEF Next
<1>3. Ordered => DeliveredInOrder
  BY OrderedDelivers
<1> QED
  BY <1>1, <1>2, <1>3, PTL DEF Spec
=============================================================================
