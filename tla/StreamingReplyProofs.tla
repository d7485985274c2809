------------------------ MODULE StreamingReplyProofs ------------------------
(***************************************************************************)
(* Proofs about a streamed reply, for any job, any text and any number of  *)
(* faults:                                                                 *)
(*   LastOnePauses  it never stops the typing indicator under another one; *)
(*   ReplyTyped     its state stays what TypeOK says (SaidInv also says that*)
(*                  the chat shows nothing that was not said);             *)
(*   PromiseKept    it implements VisibleReply, and                        *)
(*   AllArrives     it loses nothing, as long as no publish fails half-way *)
(*                  (ShownInv: where the text is that is not seen yet);    *)
(*   ExactlyOnce    it shows its text once and in order, as long as editing*)
(*                  is never given up (CalmInv: what the chat shows before *)
(*                  the text, what the text adds and what is owed after it *)
(*                  make up what was said).                                *)
(* That rendering and cutting a text show all of it, once and in order, is *)
(* ReplyAssumption: ChunksKeepLetters of OutgoingChainProofs for any text. *)
(***************************************************************************)
EXTENDS StreamingReply, SequenceTheorems, WellFoundedInduction, TLAPS

(* The typing indicator: the lease count is the inductive invariant.        *)

\* Each of the two replies holds one lease until it is over.
LeasesCount == leases = (IF pc = "over" THEN 0 ELSE 1) + (IF other = "none" THEN 0 ELSE 1)

\* A publish goes on to an edit, to a resend or back: it never ends a reply.
Publishing == {"edit", "resend", "return"}

LEMMA GiveUpGoesOn ==
  ASSUME NEW s, NEW force PROVE GiveUp(s, force).pc \in Publishing
  BY DEF GiveUp, FinalFallback, Realtime, Return, Again, Outcome, Publishing

LEMMA EditedGoesOn ==
  ASSUME NEW s, NEW force, NEW chunks PROVE Edited(s, force, chunks).pc \in Publishing
<1>1. Return(s).pc \in Publishing /\ Edit(s, chunks).pc \in Publishing
  BY DEF Return, Edit, Outcome, Publishing
<1> QED
  BY <1>1, GiveUpGoesOn DEF Edited

LEMMA PublishedGoesOn ==
  ASSUME NEW s, NEW force PROVE Published(s, force).pc \in Publishing
<1>1. Realtime(s, FALSE).pc \in Publishing
  BY DEF Realtime, Return, Again, Outcome, Publishing
<1>2. FinalFallback(s).pc \in Publishing
  BY DEF FinalFallback, Realtime, Return, Again, Outcome, Publishing
<1>3. Return(s).pc \in Publishing
  BY DEF Return, Outcome, Publishing
<1>4. CASE s.raw = <<>>
  BY <1>3, <1>4 DEF Published
<1>5. CASE s.raw # <<>> /\ s.failed
  BY <1>1, <1>2, <1>3, <1>5 DEF Published
<1>6. CASE s.raw # <<>> /\ ~s.failed
  BY <1>6, EditedGoesOn DEF Published
<1> QED
  BY <1>4, <1>5, <1>6

LEMMA PublishGoesOn ==
  ASSUME NEW s, NEW force, NEW after, Publish(s, force, after) PROVE pc' \in Publishing
<1>1. Return(s).pc \in Publishing
  BY DEF Return, Outcome, Publishing
<1> QED
  BY <1>1, PublishedGoesOn DEF Publish, Continue

\* A step that gives back no lease leaves what the count is about as it is.
LEMMA CountKept ==
  ASSUME LeasesCount, UNCHANGED <<leases, other>>, pc # "over", pc' # "over"
  PROVE  LeasesCount'
  BY DEF LeasesCount

THEOREM CountInvariant == Spec => []LeasesCount
<1>1. Init => LeasesCount
  BY DEF Init, LeasesCount
<1>2. LeasesCount /\ [Next]_vars => LeasesCount'
  <2> SUFFICES ASSUME LeasesCount, [Next]_vars PROVE LeasesCount'
    OBVIOUS
  <2>1. CASE PullText
    <3>1. pc' \in Publishing \/ pc' = pc
      BY <2>1, PublishGoesOn DEF PullText
    <3> QED
      BY <2>1, <3>1, CountKept DEF PullText, Typing, Publishing
  <2>2. CASE PullReply
    BY <2>2, CountKept DEF PullReply, Quiet
  <2>3. CASE Forced
    <3>1. pc' \in Publishing
      BY <2>3, PublishGoesOn DEF Forced
    <3> QED
      BY <2>3, <3>1, CountKept DEF Forced, Quiet, Publishing
  <2>4. CASE EditChunk
    <3>1. pc' \in Publishing \/ pc' = pc
      BY <2>4, GiveUpGoesOn DEF EditChunk, Continue
    <3> QED
      BY <2>4, <3>1, CountKept DEF EditChunk, Publishing
  <2>5. CASE SendChunk
    <3>1. pc' \in Publishing \/ pc' = pc
      BY <2>5, GiveUpGoesOn DEF SendChunk, Continue
    <3> QED
      BY <2>5, <3>1, CountKept DEF SendChunk, Publishing
  <2>6. CASE AllShown
    BY <2>6, CountKept DEF AllShown
  <2>7. CASE Resend
    BY <2>7, CountKept DEF Resend, Raise
  <2>8. CASE Returned
    BY <2>8, CountKept DEF Returned
  <2>9. CASE SendPart
    BY <2>9, CountKept DEF SendPart, Raise
  <2>10. CASE GeneratorFails
    BY <2>10, CountKept DEF GeneratorFails, Raise
  <2>11. CASE Acknowledge
    BY <2>11, CountKept DEF Acknowledge, Quiet
  <2>12. CASE StopTyping
    BY <2>12, CountKept DEF StopTyping
  <2>13. CASE Release
    BY <2>13 DEF Release, LeasesCount
  <2>14. CASE OtherStarts
    BY <2>14 DEF OtherStarts, reply, LeasesCount
  <2>15. CASE OtherStops
    BY <2>15 DEF OtherStops, reply, LeasesCount
  <2>16. CASE OtherEnds
    BY <2>16 DEF OtherEnds, reply, LeasesCount
  <2>17. CASE UNCHANGED vars
    BY <2>17 DEF vars, reply, LeasesCount
  <2> QED
    BY <2>1, <2>2, <2>3, <2>4, <2>5, <2>6, <2>7, <2>8, <2>9, <2>10, <2>11, <2>12, <2>13,
       <2>14, <2>15, <2>16, <2>17 DEF Next, Step
<1> QED
  BY <1>1, <1>2, PTL DEF Spec

\* PauseWaits, for every text and every number of faults: whoever of the two replies stops the
\* typing indicator is the last one that holds a lease (should_pause, stop_typing).
THEOREM LastOnePauses == Spec => PauseWaits
<1> DEFINE Waits == presence' = "paused" /\ presence = "composing" =>
                      other' # "busy" /\ pc' \in {"hook", "over"}
<1>1. LeasesCount /\ [Next]_vars => [Waits]_vars
  <2> SUFFICES ASSUME LeasesCount, Next, presence' = "paused", presence = "composing"
               PROVE  other' # "busy" /\ pc' \in {"hook", "over"}
    OBVIOUS
  <2>1. StopTyping \/ OtherStops
    BY DEF Next, Step, PullText, Typing, PullReply, Quiet, Forced, EditChunk, SendChunk, AllShown,
           Resend, Returned, SendPart, GeneratorFails, Acknowledge, Release, OtherStarts, OtherEnds
  <2>2. leases <= 1
    BY <2>1 DEF StopTyping, OtherStops, Paused
  <2>3. CASE StopTyping
    BY <2>2, <2>3 DEF StopTyping, LeasesCount
  <2>4. CASE OtherStops
    BY <2>2, <2>4 DEF OtherStops, reply, LeasesCount
  <2> QED
    BY <2>1, <2>3, <2>4
<1> QED
  BY <1>1, CountInvariant, PTL DEF Spec, PauseWaits

-----------------------------------------------------------------------------
(* Loops: what n rounds keep, when every round leads from R[k - 1] to R[k]. *)

LEMMA LeastExists ==
  ASSUME NEW S, S \subseteq Nat, S # {}
  PROVE  \E x \in S : \A y \in S : x <= y
  <1>1. PICK x \in S : \A y \in S : ~(<<y, x>> \in OpToRel(<, Nat))
    <2> HIDE DEF OpToRel
    <2> QED
      BY NatLessThanWellFounded, WFMin
  <1>2. ASSUME NEW y \in S PROVE x <= y
    <2>1. ~(y < x)
      BY <1>1 DEF OpToRel
    <2> QED
      BY <2>1
  <1> QED
    BY <1>2

LEMMA RoundsKeep ==
  ASSUME NEW n \in Nat, NEW R, NEW f, f[0] \in R[0], \A k \in 1 .. n : f[k - 1] \in R[k - 1] => f[k] \in R[k]
  PROVE  \A k \in 0 .. n : f[k] \in R[k]
  <1> DEFINE Bad == {k \in 0 .. n : f[k] \notin R[k]}
  <1> SUFFICES ASSUME Bad # {} PROVE FALSE
    OBVIOUS
  <1>1. PICK x \in Bad : \A y \in Bad : x <= y
    <2>1. Bad \subseteq Nat
      OBVIOUS
    <2> HIDE DEF Bad
    <2> QED
      BY <2>1, LeastExists
  <1>2. x \in 1 .. n /\ x - 1 \in 0 .. n /\ x - 1 \notin Bad
    BY <1>1
  <1> QED
    BY <1>1, <1>2

LEMMA CountUp ==
  ASSUME NEW n \in Nat, NEW P, P[0], \A k \in 1 .. n : P[k - 1] => P[k]
  PROVE  \A k \in 0 .. n : P[k]
  <1> DEFINE Bad == {k \in 0 .. n : ~P[k]}
  <1> SUFFICES ASSUME Bad # {} PROVE FALSE
    OBVIOUS
  <1>1. PICK x \in Bad : \A y \in Bad : x <= y
    <2>1. Bad \subseteq Nat
      OBVIOUS
    <2> HIDE DEF Bad
    <2> QED
      BY <2>1, LeastExists
  <1>2. x \in 1 .. n /\ x - 1 \in 0 .. n /\ x - 1 \notin Bad
    BY <1>1
  <1> QED
    BY <1>1, <1>2

Leads(H, R, n) == \A k \in 1 .. n : \A a \in R[k - 1] : H[k][a] \in R[k]
Looping(f, b, H, R, n) ==
  /\ f[0] = b /\ \A k \in 1 .. n : f[k] = H[k][f[k - 1]]
  /\ \A k \in 0 .. n : f[k] \in R[k]
LEMMA RoundsRun ==
  ASSUME NEW n \in Nat, NEW R, NEW H, NEW b \in R[0], Leads(H, R, n)
  PROVE  \E f : Looping(f, b, H, R, n)
  <1> DEFINE Runs(g, m) == g[0] = b /\ \A k \in 1 .. m : g[k] = H[k][g[k - 1]]
             Bad == {m \in Nat : ~ \E g : Runs(g, m)}
  <1>1. Bad = {}
    <2> SUFFICES ASSUME Bad # {} PROVE FALSE
      OBVIOUS
    <2>1. PICK x \in Bad : \A y \in Bad : x <= y
      BY LeastExists
    <2>2. x # 0
      <3>1. Runs([k \in 0 .. 0 |-> b], 0)
        OBVIOUS
      <3> QED
        BY <3>1
    <2>3. x \in Nat /\ x - 1 \in Nat /\ x - 1 \notin Bad
      <3> HIDE DEF Runs
      <3>1. x \in Nat /\ x - 1 \in Nat /\ ~(x <= x - 1)
        BY <2>1, <2>2
      <3> QED
        BY <2>1, <3>1
    <2>4. PICK g : Runs(g, x - 1)
      BY <2>3
    <2> DEFINE h == [k \in 0 .. x |-> IF k = x THEN H[x][g[x - 1]] ELSE g[k]]
    <2>5. Runs(h, x)
      <3>2. h[0] = b
        BY <2>2, <2>3, <2>4
      <3>3. ASSUME NEW k \in 1 .. x PROVE h[k] = H[k][h[k - 1]]
        <4>1. CASE k = x
          BY <4>1, <2>2, <2>3
        <4>2. CASE k # x
          <5>1. k \in 1 .. x - 1 /\ k \in 0 .. x /\ k - 1 \in 0 .. x /\ k - 1 # x
            BY <4>2, <2>3
          <5>2. g[k] = H[k][g[k - 1]]
            BY <5>1, <2>4
          <5> QED
            BY <5>1, <5>2, <4>2
        <4> QED
          BY <4>1, <4>2
      <3> HIDE DEF h
      <3> QED
        BY <3>2, <3>3
    <2> QED
      BY <2>1, <2>5
  <1>2. PICK f : Runs(f, n)
    <2> HIDE DEF Runs
    <2> QED
      BY <1>1
  <1>3. \A k \in 0 .. n : f[k] \in R[k]
    BY <1>2, RoundsKeep DEF Leads
  <1> QED
    BY <1>2, <1>3 DEF Looping

-----------------------------------------------------------------------------
(* Sequences of sequences, one after the other.                            *)

LEMMA FlattenEmpty == FlattenSeq(<<>>) = <<>>
  BY DEF FlattenSeq

Joins(f, ss, S) == /\ FlattenSeq(ss) = f[Len(ss)] /\ f[1] = ss[1]
                   /\ \A k \in 2 .. Len(ss) : f[k] = f[k - 1] \o ss[k]
                   /\ \A k \in 1 .. Len(ss) : f[k] \in Seq(S)
LEMMA FlattenRec ==
  ASSUME NEW S, NEW ss \in Seq(Seq(S)), ss # <<>>
  PROVE  \E f : Joins(f, ss, S)
  <1> DEFINE n == Len(ss)
             FlatTo(g) == g = [i \in 1 .. n |-> IF i = 1 THEN ss[i] ELSE g[i - 1] \o ss[i]]
             g0 == CHOOSE g : FlatTo(g)
  <1>1. n \in Nat /\ n - 1 \in Nat /\ n >= 1 /\ \A k \in 1 .. n : ss[k] \in Seq(S)
    BY LenProperties
  <1>2. FlattenSeq(ss) = g0[n]
    BY <1>1 DEF FlattenSeq
  <1> HIDE DEF n
  <1>3. \E g : FlatTo(g)
    <2> DEFINE R == [k \in 0 .. n - 1 |-> Seq(S)]
               H == [k \in 1 .. n - 1 |-> [a \in Seq(S) |-> a \o ss[k + 1]]]
    <2>1. ss[1] \in R[0]
      BY <1>1
    <2>2. Leads(H, R, n - 1)
      <3> SUFFICES ASSUME NEW k \in 1 .. n - 1, NEW a \in R[k - 1] PROVE H[k][a] \in R[k]
        BY DEF Leads
      <3>1. k + 1 \in 1 .. n /\ a \in Seq(S) /\ R[k] = Seq(S)
        BY <1>1
      <3> QED
        BY <3>1, <1>1, ConcatProperties
    <2>0. PICK f : Looping(f, ss[1], H, R, n - 1)
      <3> HIDE DEF R, H
      <3>1. n - 1 \in Nat
        BY <1>1
      <3> QED
        BY <2>1, <2>2, <3>1, RoundsRun
    <2>3. /\ f[0] = ss[1] /\ \A k \in 1 .. n - 1 : f[k] = H[k][f[k - 1]]
          /\ \A k \in 0 .. n - 1 : f[k] \in R[k]
      BY <2>0 DEF Looping
    <2> DEFINE g == [i \in 1 .. n |-> f[i - 1]]
    <2>5. ASSUME NEW i \in 1 .. n PROVE g[i] = IF i = 1 THEN ss[i] ELSE g[i - 1] \o ss[i]
      <3>1. CASE i = 1
        BY <3>1, <2>3, <1>1
      <3>2. CASE i # 1
        <4>1. i - 1 \in 1 .. n - 1 /\ i - 2 \in 0 .. n - 1 /\ i - 1 \in 1 .. n /\ (i - 1) + 1 = i /\ (i - 1) - 1 = i - 2
          BY <3>2, <1>1
        <4>2. f[i - 1] = H[i - 1][f[i - 2]] /\ f[i - 2] \in Seq(S)
          <5>1. f[i - 2] \in R[i - 2]
            BY <2>3, <4>1
          <5> QED
            BY <4>1, <2>3, <5>1
        <4>3. H[i - 1][f[i - 2]] = f[i - 2] \o ss[i]
          BY <4>1, <4>2
        <4>4. g[i] = f[i - 1] /\ g[i - 1] = f[i - 2]
          BY <4>1
        <4> QED
          BY <3>2, <4>2, <4>3, <4>4
      <3> QED
        BY <3>1, <3>2
    <2>6. FlatTo(g)
      <3>1. g = [i \in 1 .. n |-> g[i]]
        OBVIOUS
      <3> HIDE DEF g
      <3> QED
        BY <2>5, <3>1
    <2> QED
      BY <2>6
  <1>4. FlatTo(g0)
    <2> HIDE DEF FlatTo
    <2> QED
      BY <1>3
  <1> HIDE DEF g0
  <1>5. g0[1] = ss[1] /\ \A k \in 2 .. n : g0[k] = g0[k - 1] \o ss[k]
    <2>1. \A k \in 1 .. n : g0[k] = IF k = 1 THEN ss[k] ELSE g0[k - 1] \o ss[k]
      BY <1>4
    <2>2. 1 \in 1 .. n /\ \A k \in 2 .. n : k \in 1 .. n /\ k # 1
      BY <1>1
    <2> QED
      BY <2>1, <2>2
  <1>6. \A k \in 1 .. n : g0[k] \in Seq(S)
    <2> DEFINE R == [k \in 0 .. n - 1 |-> Seq(S)]
               f == [k \in 0 .. n - 1 |-> g0[k + 1]]
    <2>1. f[0] \in R[0]
      BY <1>1, <1>5
    <2>2. ASSUME NEW k \in 1 .. n - 1, f[k - 1] \in R[k - 1] PROVE f[k] \in R[k]
      <3>1. f[k - 1] = g0[k] /\ f[k] = g0[k + 1] /\ R[k - 1] = Seq(S) /\ R[k] = Seq(S) /\ k + 1 \in 2 .. n /\ (k + 1) - 1 = k
        BY <1>1
      <3> HIDE DEF f, R
      <3>2. g0[k + 1] = g0[k] \o ss[k + 1] /\ ss[k + 1] \in Seq(S)
        <4>1. g0[k + 1] = g0[(k + 1) - 1] \o ss[k + 1]
          BY <3>1, <1>5
        <4>2. k + 1 \in 1 .. n
          BY <3>1, <1>1
        <4> QED
          BY <3>1, <4>1, <4>2, <1>1
      <3>3. g0[k] \in Seq(S)
        BY <3>1, <2>2
      <3> QED
        BY <3>1, <3>2, <3>3, ConcatProperties
    <2>3. \A k \in 0 .. n - 1 : f[k] \in R[k]
      <3>1. n - 1 \in Nat
        BY <1>1
      <3> HIDE DEF f, R
      <3> QED
        BY <2>1, <2>2, <3>1, RoundsKeep
    <2> SUFFICES ASSUME NEW k \in 1 .. n PROVE g0[k] \in Seq(S)
      OBVIOUS
    <2>4. k - 1 \in 0 .. n - 1 /\ (k - 1) + 1 = k
      BY <1>1
    <2> QED
      BY <2>3, <2>4
  <1> QED
    BY <1>2, <1>5, <1>6 DEF n, Joins

LEMMA FlattenType ==
  ASSUME NEW S, NEW ss \in Seq(Seq(S)) PROVE FlattenSeq(ss) \in Seq(S)
  <1>1. CASE ss = <<>>
    <2>1. FlattenSeq(ss) = <<>>
      BY <1>1, FlattenEmpty
    <2> QED
      BY <2>1, EmptySeq
  <1>2. CASE ss # <<>>
    <2>0. PICK f : Joins(f, ss, S)
      BY <1>2, FlattenRec
    <2>1. FlattenSeq(ss) = f[Len(ss)] /\ \A k \in 1 .. Len(ss) : f[k] \in Seq(S)
      BY <2>0 DEF Joins
    <2>2. Len(ss) \in 1 .. Len(ss)
      BY <1>2
    <2> QED
      BY <2>1, <2>2
  <1> QED
    BY <1>1, <1>2

LEMMA FlattenAppend ==
  ASSUME NEW S, NEW ss \in Seq(Seq(S)), NEW s \in Seq(S)
  PROVE  FlattenSeq(Append(ss, s)) = FlattenSeq(ss) \o s
  <1> DEFINE tt == Append(ss, s)
             n == Len(ss)
  <1>1. /\ tt \in Seq(Seq(S)) /\ tt # <<>> /\ Len(tt) = n + 1 /\ n \in Nat
        /\ \A i \in 1 .. n : tt[i] = ss[i]
        /\ tt[n + 1] = s
    BY AppendProperties
  <1> HIDE DEF tt
  <1>0. PICK f : Joins(f, tt, S)
    BY <1>1, FlattenRec
  <1>2. /\ FlattenSeq(tt) = f[Len(tt)] /\ f[1] = tt[1]
        /\ \A k \in 2 .. Len(tt) : f[k] = f[k - 1] \o tt[k]
    BY <1>0 DEF Joins
  <1>3. CASE ss = <<>>
    <2>1. n = 0
      BY <1>3, EmptySeq
    <2>2. FlattenSeq(tt) = s
      BY <1>1, <1>2, <2>1
    <2>3. FlattenSeq(ss) \o s = s
      BY <1>3, FlattenEmpty, ConcatEmptySeq
    <2> QED
      BY <2>2, <2>3 DEF tt
  <1>4. CASE ss # <<>>
    <2>0. PICK g : Joins(g, ss, S)
      BY <1>4, FlattenRec
    <2>1. /\ FlattenSeq(ss) = g[n] /\ g[1] = ss[1]
          /\ \A k \in 2 .. n : g[k] = g[k - 1] \o ss[k]
      BY <2>0 DEF Joins
    <2> DEFINE P == [k \in 0 .. n - 1 |-> f[k + 1] = g[k + 1]]
    <2>2. n >= 1 /\ n - 1 \in Nat
      BY <1>1, <1>4
    <2>3. P[0]
      <3>1. f[1] = g[1]
        <4>1. 1 \in 1 .. n
          BY <2>2
        <4> QED
          BY <4>1, <1>1, <1>2, <2>1
      <3>2. 0 \in 0 .. n - 1 /\ 0 + 1 = 1
        BY <2>2
      <3> QED
        BY <3>1, <3>2
    <2>4. ASSUME NEW k \in 1 .. n - 1, P[k - 1] PROVE P[k]
      <3>1. k + 1 \in 2 .. n /\ k + 1 \in 2 .. Len(tt) /\ (k + 1) - 1 = k /\ k + 1 \in 1 .. n /\ k - 1 \in 0 .. n - 1 /\ k \in 0 .. n - 1 /\ (k - 1) + 1 = k
        BY <1>1, <2>2
      <3>2. f[k] = g[k]
        BY <3>1, <2>4
      <3>3. f[k + 1] = f[k] \o tt[k + 1] /\ g[k + 1] = g[k] \o ss[k + 1] /\ tt[k + 1] = ss[k + 1]
        <4>1. f[k + 1] = f[(k + 1) - 1] \o tt[k + 1]
          BY <1>2, <3>1
        <4>2. g[k + 1] = g[(k + 1) - 1] \o ss[k + 1]
          BY <2>1, <3>1
        <4> QED
          BY <4>1, <4>2, <3>1, <1>1
      <3> QED
        BY <3>1, <3>2, <3>3
    <2>5. \A k \in 0 .. n - 1 : P[k]
      <3> HIDE DEF P
      <3> QED
        BY <2>2, <2>3, <2>4, CountUp
    <2>6. f[n] = g[n]
      <3>1. n - 1 \in 0 .. n - 1 /\ (n - 1) + 1 = n
        BY <2>2
      <3> QED
        BY <2>5, <3>1
    <2>7. FlattenSeq(tt) = f[n] \o tt[n + 1]
      <3>1. n + 1 \in 2 .. Len(tt) /\ (n + 1) - 1 = n
        BY <1>1, <2>2
      <3>2. f[n + 1] = f[(n + 1) - 1] \o tt[n + 1]
        BY <1>2, <3>1
      <3> QED
        BY <1>1, <1>2, <3>1, <3>2
    <2> QED
      BY <1>1, <2>1, <2>6, <2>7 DEF tt
  <1> QED
    BY <1>3, <1>4

LEMMA FlattenOne ==
  ASSUME NEW S, NEW s \in Seq(S) PROVE FlattenSeq(<<s>>) = s
  <1>1. <<s>> = Append(<<>>, s) /\ <<>> \in Seq(Seq(S))
    OBVIOUS
  <1>2. FlattenSeq(Append(<<>>, s)) = FlattenSeq(<<>>) \o s
    BY <1>1, FlattenAppend
  <1>3. FlattenSeq(<<>>) \o s = s
    BY FlattenEmpty, ConcatEmptySeq
  <1> QED
    BY <1>1, <1>2, <1>3

LEMMA Regrouped ==
  ASSUME NEW x \in Seq(Nat), NEW y \in Seq(Nat), NEW z \in Seq(Nat)
  PROVE  x \o (y \o z) = (x \o y) \o z
  BY SMTT(60)

LEMMA FlattenConcat ==
  ASSUME NEW S, NEW ss \in Seq(Seq(S)), NEW tt \in Seq(Seq(S))
  PROVE  FlattenSeq(ss \o tt) = FlattenSeq(ss) \o FlattenSeq(tt)
  <1> DEFINE n == Len(tt)
             pre(k) == SubSeq(tt, 1, k)
             P == [k \in 0 .. n |-> FlattenSeq(ss \o pre(k)) = FlattenSeq(ss) \o FlattenSeq(pre(k))]
  <1>1. n \in Nat /\ FlattenSeq(ss) \in Seq(S)
    BY FlattenType
  <1>2. P[0]
    <2>1. pre(0) = <<>> /\ ss \o <<>> = ss
      BY SubSeqEmpty, ConcatEmptySeq
    <2>2. FlattenSeq(ss) \o FlattenSeq(<<>>) = FlattenSeq(ss)
      BY <1>1, ConcatEmptySeq, FlattenEmpty
    <2>3. 0 \in 0 .. n
      BY <1>1
    <2> HIDE DEF pre
    <2> QED
      BY <2>1, <2>2, <2>3
  <1>3. ASSUME NEW k \in 1 .. n, P[k - 1] PROVE P[k]
    <2>1. k - 1 \in 0 .. n /\ k \in 0 .. n
      BY <1>1
    <2>2. pre(k) = Append(pre(k - 1), tt[k]) /\ pre(k - 1) \in Seq(Seq(S)) /\ tt[k] \in Seq(S)
      <3>1. SubSeq(tt, 1, k) = Append(SubSeq(tt, 1, k - 1), tt[k])
        BY SubSeqRecursiveSecond, <1>1
      <3>2. SubSeq(tt, 1, k - 1) \in Seq(Seq(S))
        BY <2>1, SubSeqProperties, <1>1
      <3> QED
        BY <3>1, <3>2
    <2> HIDE DEF pre
    <2>3. ss \o pre(k) = Append(ss \o pre(k - 1), tt[k]) /\ ss \o pre(k - 1) \in Seq(Seq(S))
      <3> DEFINE a == pre(k - 1)
                 c == tt[k]
                 T == Seq(S)
      <3>1. a \in Seq(T) /\ c \in T /\ ss \in Seq(T) /\ pre(k) = Append(a, c)
        BY <2>2
      <3> HIDE DEF a, c, T
      <3>2. ss \o Append(a, c) = Append(ss \o a, c) /\ ss \o a \in Seq(T)
        BY ONLY <3>1, SMTT(60)
      <3> QED
        BY <3>1, <3>2 DEF a, c, T
    <2>4. FlattenSeq(ss \o pre(k)) = FlattenSeq(ss \o pre(k - 1)) \o tt[k]
      BY <2>2, <2>3, FlattenAppend
    <2>5. FlattenSeq(pre(k)) = FlattenSeq(pre(k - 1)) \o tt[k]
      BY <2>2, FlattenAppend
    <2>6. FlattenSeq(pre(k - 1)) \in Seq(S)
      BY <2>2, FlattenType
    <2>7. FlattenSeq(ss \o pre(k - 1)) = FlattenSeq(ss) \o FlattenSeq(pre(k - 1))
      BY <1>3, <2>1
    <2>8. (FlattenSeq(ss) \o FlattenSeq(pre(k - 1))) \o tt[k] = FlattenSeq(ss) \o (FlattenSeq(pre(k - 1)) \o tt[k])
      <3> DEFINE x == FlattenSeq(ss)
                 y == FlattenSeq(pre(k - 1))
      <3>1. x \in Seq(S) /\ y \in Seq(S) /\ tt[k] \in Seq(S)
        BY <1>1, <2>2, <2>6
      <3> HIDE DEF x, y
      <3>2. \A a \in Seq(S), b \in Seq(S), c \in Seq(S) : (a \o b) \o c = a \o (b \o c)
        BY ONLY SMTT(60)
      <3>3. (x \o y) \o tt[k] = x \o (y \o tt[k])
        BY ONLY <3>1, <3>2
      <3> QED
        BY ONLY <3>3 DEF x, y
    <2> QED
      BY <2>1, <2>4, <2>5, <2>7, <2>8
  <1>4. \A k \in 0 .. n : P[k]
    <2> HIDE DEF P, n
    <2> QED
      BY <1>1, <1>2, <1>3, CountUp
  <1>5. pre(n) = tt /\ n \in 0 .. n
    BY SubSeqFull, <1>1
  <1> HIDE DEF pre, n
  <1> QED
    BY <1>4, <1>5

-----------------------------------------------------------------------------
(* The places of a text, and of chunks, in order.                          *)

Line     == Seq(Characters)
CoverOf(chunks) == UNION {PlacesIn(chunks[i]) : i \in DOMAIN chunks}
Each(cs) == [i \in DOMAIN cs |-> IF cs[i].c \in VisibleKinds THEN <<cs[i].n>> ELSE <<>>]
Lines(cs)  == [i \in DOMAIN cs |-> Places(cs[i])]
Joined(cs) == FlattenSeq(Lines(cs))

LEMMA EachType ==
  ASSUME NEW cs \in Line
  PROVE  Each(cs) \in Seq(Seq(Nat)) /\ Len(Each(cs)) = Len(cs) /\ DOMAIN Each(cs) = 1 .. Len(cs)
  <1>1. DOMAIN cs = 1 .. Len(cs) /\ Len(cs) \in Nat
    BY DEF Line
  <1>2. \A i \in 1 .. Len(cs) : cs[i].n \in Nat
    <2>1. \A i \in 1 .. Len(cs) : cs[i] \in Characters
      BY DEF Line
    <2> QED
      BY <2>1 DEF Characters
  <1>3. \A i \in 1 .. Len(cs) : (IF cs[i].c \in VisibleKinds THEN <<cs[i].n>> ELSE <<>>) \in Seq(Nat)
    <2> SUFFICES ASSUME NEW i \in 1 .. Len(cs)
                 PROVE  (IF cs[i].c \in VisibleKinds THEN <<cs[i].n>> ELSE <<>>) \in Seq(Nat)
      OBVIOUS
    <2>1. <<>> \in Seq(Nat) /\ <<cs[i].n>> \in Seq(Nat)
      BY <1>2
    <2> QED
      BY <2>1
  <1> DEFINE e(i) == IF cs[i].c \in VisibleKinds THEN <<cs[i].n>> ELSE <<>>
  <1>4. Each(cs) = [i \in 1 .. Len(cs) |-> e(i)]
    BY <1>1 DEF Each
  <1> HIDE DEF e
  <1>5. \A i \in 1 .. Len(cs) : e(i) \in Seq(Nat)
    BY <1>3 DEF e
  <1>6. [i \in 1 .. Len(cs) |-> e(i)] \in Seq(Seq(Nat))
    BY <1>1, <1>5
  <1> QED
    BY <1>1, <1>4, <1>6

LEMMA PlacesAre == ASSUME NEW cs PROVE Places(cs) = FlattenSeq(Each(cs))
  BY DEF Places, Each

LEMMA PlacesType == ASSUME NEW cs \in Line PROVE Places(cs) \in Seq(Nat)
  BY PlacesAre, EachType, FlattenType

LEMMA PlacesEmpty == Places(<<>>) = <<>>
  <1>1. <<>> \in Line
    BY DEF Line
  <1>2. Each(<<>>) = <<>>
    BY <1>1, EachType, EmptySeq
  <1> QED
    BY <1>2, PlacesAre, FlattenEmpty

LEMMA PlacesConcat ==
  ASSUME NEW s \in Line, NEW t \in Line
  PROVE  s \o t \in Line /\ Places(s \o t) = Places(s) \o Places(t)
  <1>1. /\ s \o t \in Line /\ Len(s \o t) = Len(s) + Len(t)
        /\ Len(s) \in Nat /\ Len(t) \in Nat
        /\ DOMAIN s = 1 .. Len(s) /\ DOMAIN t = 1 .. Len(t) /\ DOMAIN (s \o t) = 1 .. Len(s \o t)
        /\ \A i \in 1 .. Len(s) + Len(t) : (s \o t)[i] = IF i <= Len(s) THEN s[i] ELSE t[i - Len(s)]
    BY DEF Line
  <1>2. Each(s \o t) \in Seq(Seq(Nat)) /\ Each(s) \in Seq(Seq(Nat)) /\ Each(t) \in Seq(Seq(Nat))
        /\ Len(Each(s)) = Len(s) /\ Len(Each(t)) = Len(t) /\ Len(Each(s \o t)) = Len(s) + Len(t)
    BY <1>1, EachType
  <1> DEFINE u == Each(s) \o Each(t)
  <1>3. u \in Seq(Seq(Nat)) /\ Len(u) = Len(s) + Len(t)
        /\ \A i \in 1 .. Len(s) + Len(t) : u[i] = IF i <= Len(s) THEN Each(s)[i] ELSE Each(t)[i - Len(s)]
    <2> DEFINE x == Each(s)
               y == Each(t)
    <2>1. x \in Seq(Seq(Nat)) /\ y \in Seq(Seq(Nat)) /\ Len(x) = Len(s) /\ Len(y) = Len(t)
      BY <1>2
    <2> HIDE DEF x, y
    <2>2. x \o y \in Seq(Seq(Nat)) /\ Len(x \o y) = Len(x) + Len(y)
          /\ \A i \in 1 .. Len(x) + Len(y) : (x \o y)[i] = IF i <= Len(x) THEN x[i] ELSE y[i - Len(x)]
      BY <2>1, ConcatProperties
    <2> QED
      BY <2>1, <2>2 DEF x, y
  <1> HIDE DEF u
  <1>4. ASSUME NEW i \in 1 .. Len(s) + Len(t) PROVE Each(s \o t)[i] = u[i]
    <2>1. Each(s \o t)[i] = IF (s \o t)[i].c \in VisibleKinds THEN <<(s \o t)[i].n>> ELSE <<>>
      BY <1>1 DEF Each
    <2>2. CASE i <= Len(s)
      <3>1. i \in DOMAIN s /\ (s \o t)[i] = s[i] /\ u[i] = Each(s)[i]
        BY <1>1, <1>3, <2>2
      <3>2. Each(s)[i] = IF s[i].c \in VisibleKinds THEN <<s[i].n>> ELSE <<>>
        BY <3>1 DEF Each
      <3> QED
        BY <2>1, <3>1, <3>2
    <2>3. CASE ~(i <= Len(s))
      <3>0. i - Len(s) \in 1 .. Len(t)
        BY <1>1, <2>3
      <3>1. i - Len(s) \in DOMAIN t /\ (s \o t)[i] = t[i - Len(s)] /\ u[i] = Each(t)[i - Len(s)]
        BY <1>1, <1>3, <2>3, <3>0, Zenon
      <3>2. Each(t)[i - Len(s)] = IF t[i - Len(s)].c \in VisibleKinds THEN <<t[i - Len(s)].n>> ELSE <<>>
        BY <3>1 DEF Each
      <3> QED
        BY <2>1, <3>1, <3>2
    <2> QED
      BY <2>2, <2>3
  <1>5. Each(s \o t) = u
    BY <1>2, <1>3, <1>4, SeqEqual
  <1>6. FlattenSeq(u) = FlattenSeq(Each(s)) \o FlattenSeq(Each(t))
    BY <1>2, FlattenConcat DEF u
  <1> QED
    BY <1>1, <1>5, <1>6, PlacesAre

LEMMA PlacesOne ==
  ASSUME NEW x \in Characters
  PROVE  <<x>> \in Line /\ Places(<<x>>) = IF x.c \in VisibleKinds THEN <<x.n>> ELSE <<>>
  <1> DEFINE e == IF x.c \in VisibleKinds THEN <<x.n>> ELSE <<>>
  <1>1. <<x>> \in Line /\ x.n \in Nat
    BY DEF Line, Characters
  <1>2. e \in Seq(Nat)
    BY <1>1
  <1>3. Each(<<x>>) = <<e>>
    BY DEF Each
  <1> HIDE DEF e
  <1>4. FlattenSeq(<<e>>) = e
    BY <1>2, FlattenOne
  <1> QED
    BY <1>1, <1>3, <1>4, PlacesAre DEF e

LEMMA PlacesPrefix ==
  ASSUME NEW t \in Line, NEW k \in 1 .. Len(t)
  PROVE  /\ SubSeq(t, 1, k) \in Line /\ SubSeq(t, 1, k - 1) \in Line /\ t[k] \in Characters
         /\ SubSeq(t, 1, k) = SubSeq(t, 1, k - 1) \o <<t[k]>>
         /\ Places(SubSeq(t, 1, k)) = Places(SubSeq(t, 1, k - 1)) \o Places(<<t[k]>>)
  <1>1. Len(t) \in Nat /\ t[k] \in Characters /\ 1 \in 1 .. Len(t) /\ k \in 1 .. Len(t)
    BY DEF Line
  <1>2. SubSeq(t, 1, k) = SubSeq(t, 1, k - 1) \o <<t[k]>>
    BY <1>1, SubSeqRecursiveSecond DEF Line
  <1>3. SubSeq(t, 1, k - 1) \in Line /\ SubSeq(t, 1, k) \in Line
    BY <1>1, SubSeqProperties DEF Line
  <1>4. <<t[k]>> \in Line
    BY <1>1, PlacesOne
  <1> QED
    BY <1>1, <1>2, <1>3, <1>4, PlacesConcat

LEMMA LinesType ==
  ASSUME NEW ss \in Seq(Line)
  PROVE  Lines(ss) \in Seq(Seq(Nat)) /\ Len(Lines(ss)) = Len(ss)
  <1>1. DOMAIN ss = 1 .. Len(ss) /\ Len(ss) \in Nat /\ \A i \in 1 .. Len(ss) : ss[i] \in Line
    OBVIOUS
  <1>2. \A i \in 1 .. Len(ss) : Places(ss[i]) \in Seq(Nat)
    BY <1>1, PlacesType
  <1>3. Lines(ss) = [i \in 1 .. Len(ss) |-> Places(ss[i])]
    BY <1>1 DEF Lines
  <1> QED
    BY <1>1, <1>2, <1>3

LEMMA LinesAppend ==
  ASSUME NEW ss \in Seq(Line), NEW s \in Line
  PROVE  Append(ss, s) \in Seq(Line) /\ Lines(Append(ss, s)) = Append(Lines(ss), Places(s))
  <1> DEFINE tt == Append(ss, s)
             u == Append(Lines(ss), Places(s))
             n == Len(ss)
  <1>1. /\ tt \in Seq(Line) /\ Len(tt) = n + 1 /\ n \in Nat /\ \A i \in 1 .. n : tt[i] = ss[i]
        /\ tt[n + 1] = s /\ DOMAIN tt = 1 .. n + 1 /\ DOMAIN ss = 1 .. n
    BY AppendProperties
  <1>2. Lines(ss) \in Seq(Seq(Nat)) /\ Len(Lines(ss)) = n /\ Places(s) \in Seq(Nat)
    BY LinesType, PlacesType
  <1>3. /\ u \in Seq(Seq(Nat)) /\ Len(u) = n + 1 /\ u[n + 1] = Places(s)
        /\ \A i \in 1 .. n : u[i] = Lines(ss)[i]
    <2> HIDE DEF n
    <2> QED
      BY <1>2, AppendProperties
  <1>4. Lines(tt) \in Seq(Seq(Nat)) /\ Len(Lines(tt)) = n + 1
    <2> HIDE DEF tt
    <2> QED
      BY <1>1, LinesType
  <1>5. ASSUME NEW i \in 1 .. n + 1 PROVE Lines(tt)[i] = u[i]
    <2>1. Lines(tt)[i] = Places(tt[i])
      BY <1>1 DEF Lines
    <2>2. CASE i = n + 1
      BY <2>1, <2>2, <1>1, <1>3
    <2>3. CASE i # n + 1
      <3>1. i \in 1 .. n
        BY <2>3, <1>1
      <3>2. Lines(ss)[i] = Places(ss[i])
        BY <1>1, <3>1 DEF Lines
      <3> QED
        BY <2>1, <3>1, <3>2, <1>1, <1>3
    <2> QED
      BY <2>2, <2>3
  <1>6. Lines(tt) = u
    <2> HIDE DEF u, tt, n
    <2> QED
      BY <1>3, <1>4, <1>5, SeqEqual
  <1> QED
    BY <1>1, <1>6

LEMMA PlacesFlatten ==
  ASSUME NEW ss \in Seq(Line)
  PROVE  FlattenSeq(ss) \in Line /\ Places(FlattenSeq(ss)) = FlattenSeq(Lines(ss))
  <1> DEFINE n == Len(ss)
             pre(k) == SubSeq(ss, 1, k)
             P == [k \in 0 .. n |-> Places(FlattenSeq(pre(k))) = FlattenSeq(Lines(pre(k)))]
  <1>1. n \in Nat /\ FlattenSeq(ss) \in Line
    BY FlattenType DEF Line
  <1>2. P[0]
    <2>1. pre(0) = <<>> /\ 0 \in 0 .. n
      BY SubSeqEmpty, <1>1
    <2>2. Lines(<<>>) = <<>>
      BY DEF Lines
    <2>3. Places(FlattenSeq(<<>>)) = FlattenSeq(Lines(<<>>))
      BY <2>2, FlattenEmpty, PlacesEmpty
    <2> HIDE DEF pre
    <2> QED
      BY <2>1, <2>3
  <1>3. ASSUME NEW k \in 1 .. n, P[k - 1] PROVE P[k]
    <2>1. k - 1 \in 0 .. n /\ k \in 0 .. n
      BY <1>1
    <2>2. pre(k) = Append(pre(k - 1), ss[k]) /\ pre(k - 1) \in Seq(Line) /\ ss[k] \in Line
      <3>1. SubSeq(ss, 1, k) = Append(SubSeq(ss, 1, k - 1), ss[k])
        BY SubSeqRecursiveSecond, <1>1
      <3>2. SubSeq(ss, 1, k - 1) \in Seq(Line)
        BY <2>1, SubSeqProperties, <1>1
      <3> QED
        BY <3>1, <3>2
    <2> HIDE DEF pre
    <2>3. FlattenSeq(pre(k)) = FlattenSeq(pre(k - 1)) \o ss[k] /\ FlattenSeq(pre(k - 1)) \in Line
      BY <2>2, FlattenAppend, FlattenType DEF Line
    <2>4. Places(FlattenSeq(pre(k))) = Places(FlattenSeq(pre(k - 1))) \o Places(ss[k])
      BY <2>2, <2>3, PlacesConcat
    <2>5. Lines(pre(k)) = Append(Lines(pre(k - 1)), Places(ss[k])) /\ Lines(pre(k - 1)) \in Seq(Seq(Nat)) /\ Places(ss[k]) \in Seq(Nat)
      BY <2>2, LinesAppend, LinesType, PlacesType
    <2>6. FlattenSeq(Lines(pre(k))) = FlattenSeq(Lines(pre(k - 1))) \o Places(ss[k])
      BY <2>5, FlattenAppend
    <2>7. Places(FlattenSeq(pre(k - 1))) = FlattenSeq(Lines(pre(k - 1)))
      BY <1>3, <2>1
    <2> QED
      BY <2>1, <2>4, <2>6, <2>7
  <1>4. \A k \in 0 .. n : P[k]
    <2> HIDE DEF P, n
    <2> QED
      BY <1>1, <1>2, <1>3, CountUp
  <1>5. pre(n) = ss /\ n \in 0 .. n
    BY SubSeqFull, <1>1
  <1> HIDE DEF pre, n
  <1> QED
    BY <1>1, <1>4, <1>5

-----------------------------------------------------------------------------
(* What a text shows.                                                      *)
Chunks == Seq(Seq(Characters))

LEMMA PlacesMember ==
  ASSUME NEW s, NEW n
  PROVE  n \in PlacesIn(s) <=> \E i \in DOMAIN s : s[i].c \in VisibleKinds /\ s[i].n = n
  BY DEF PlacesIn, ToSet

LEMMA CoverMember ==
  ASSUME NEW cs, NEW n
  PROVE  n \in CoverOf(cs) <=> \E i \in DOMAIN cs : n \in PlacesIn(cs[i])
  BY DEF CoverOf

LEMMA PlacesOfNothing == PlacesIn(<<>>) = {} /\ CoverOf(<<>>) = {}
  BY DEF PlacesIn, ToSet, CoverOf

LEMMA PlacesOfConcat ==
  ASSUME NEW s \in Seq(Characters), NEW t \in Seq(Characters)
  PROVE  PlacesIn(s \o t) = PlacesIn(s) \cup PlacesIn(t)
  <1> DEFINE w == s \o t
  <1>1. /\ Len(w) = Len(s) + Len(t) /\ DOMAIN w = 1 .. Len(w)
        /\ DOMAIN s = 1 .. Len(s) /\ DOMAIN t = 1 .. Len(t) /\ Len(s) \in Nat /\ Len(t) \in Nat
        /\ \A i \in 1 .. Len(s) + Len(t) : w[i] = IF i <= Len(s) THEN s[i] ELSE t[i - Len(s)]
    BY ConcatProperties, LenProperties
  <1> HIDE DEF w
  <1>2. ASSUME NEW n \in PlacesIn(w) PROVE n \in PlacesIn(s) \cup PlacesIn(t)
    <2>1. PICK i \in 1 .. Len(s) + Len(t) : w[i].c \in VisibleKinds /\ w[i].n = n
      BY <1>1, <1>2, PlacesMember
    <2>2. i <= Len(s) => i \in DOMAIN s
      BY <1>1
    <2>3. ~(i <= Len(s)) => i - Len(s) \in DOMAIN t
      BY <1>1
    <2> QED
      BY <1>1, <2>1, <2>2, <2>3, PlacesMember
  <1>3. ASSUME NEW n \in PlacesIn(s) PROVE n \in PlacesIn(w)
    <2>1. PICK i \in 1 .. Len(s) : s[i].c \in VisibleKinds /\ s[i].n = n
      BY <1>1, <1>3, PlacesMember
    <2>2. i \in DOMAIN w /\ w[i] = s[i]
      BY <1>1
    <2> QED
      BY <2>1, <2>2, PlacesMember
  <1>4. ASSUME NEW n \in PlacesIn(t) PROVE n \in PlacesIn(w)
    <2>1. PICK i \in 1 .. Len(t) : t[i].c \in VisibleKinds /\ t[i].n = n
      BY <1>1, <1>4, PlacesMember
    <2>2. Len(s) + i \in DOMAIN w /\ w[Len(s) + i] = t[i]
      BY <1>1
    <2> QED
      BY <2>1, <2>2, PlacesMember
  <1> QED
    BY <1>2, <1>3, <1>4 DEF w

\* The same in order is the same without it.
LEMMA PlacesAsSet ==
  ASSUME NEW s \in Line
  PROVE  PlacesIn(s) = ToSet(Places(s))
  <1> DEFINE n == Len(s)
             P == [k \in 0 .. n |-> PlacesIn(SubSeq(s, 1, k)) = ToSet(Places(SubSeq(s, 1, k)))]
  <1>1. n \in Nat /\ 0 \in 0 .. n /\ n \in 0 .. n
    BY LenProperties DEF Line
  <1>2. P[0]
    <2>1. SubSeq(s, 1, 0) = <<>>
      BY SubSeqEmpty
    <2>2. ToSet(<<>>) = {}
      BY DEF ToSet
    <2> QED
      BY <1>1, <2>1, <2>2, PlacesOfNothing, PlacesEmpty
  <1>3. ASSUME NEW k \in 1 .. n, P[k - 1] PROVE P[k]
    <2>1. k - 1 \in 0 .. n /\ k \in 0 .. n
      BY <1>1
    <2> DEFINE a == SubSeq(s, 1, k - 1)
               b == <<s[k]>>
    <2>2. /\ a \in Line /\ s[k] \in Characters /\ b \in Line
          /\ SubSeq(s, 1, k) = a \o b /\ Places(SubSeq(s, 1, k)) = Places(a) \o Places(b)
      BY PlacesPrefix, PlacesOne
    <2>3. Places(b) = (IF s[k].c \in VisibleKinds THEN <<s[k].n>> ELSE <<>>) /\ Places(a) \in Seq(Nat) /\ s[k].n \in Nat
      BY <2>2, PlacesOne, PlacesType DEF Characters
    <2>4. PlacesIn(b) = IF s[k].c \in VisibleKinds THEN {s[k].n} ELSE {}
      <3>1. DOMAIN b = {1} /\ b[1] = s[k]
        OBVIOUS
      <3> HIDE DEF b
      <3> QED
        BY <3>1, PlacesMember
    <2>5. ToSet(Places(b)) = IF s[k].c \in VisibleKinds THEN {s[k].n} ELSE {}
      <3>1. ToSet(<<s[k].n>>) = {s[k].n} /\ ToSet(<<>>) = {}
        BY DEF ToSet
      <3> QED
        BY <2>3, <3>1
    <2>6. PlacesIn(a) = ToSet(Places(a))
      BY <1>3, <2>1
    <2> HIDE DEF a, b
    <2>7. PlacesIn(a \o b) = PlacesIn(a) \cup PlacesIn(b)
      BY <2>2, PlacesOfConcat DEF Line
    <2>8. ToSet(Places(a) \o Places(b)) = ToSet(Places(a)) \cup ToSet(Places(b))
      <3>1. \A x \in Seq(Nat) : ToSet(x) = Range(x)
        BY DEF ToSet, Range
      <3>2. Places(a) \in Seq(Nat) /\ Places(b) \in Seq(Nat)
        BY <2>2, PlacesType
      <3>3. Places(a) \o Places(b) \in Seq(Nat)
        BY <3>2, ConcatProperties
      <3>4. Range(Places(a) \o Places(b)) = Range(Places(a)) \cup Range(Places(b))
        BY <3>2, RangeConcatenation
      <3> QED
        BY <3>1, <3>2, <3>3, <3>4
    <2> QED
      BY <2>1, <2>2, <2>4, <2>5, <2>6, <2>7, <2>8
  <1>4. \A k \in 0 .. n : P[k]
    <2> HIDE DEF P, n
    <2> QED
      BY <1>1, <1>2, <1>3, CountUp
  <1>5. SubSeq(s, 1, n) = s
    BY SubSeqFull DEF Line
  <1> QED
    BY <1>1, <1>4, <1>5

LEMMA CoverAsPlaces ==
  ASSUME NEW cs \in Seq(Line)
  PROVE  CoverOf(cs) = PlacesIn(FlattenSeq(cs))
  <1> DEFINE n == Len(cs)
             P == [k \in 0 .. n |-> CoverOf(SubSeq(cs, 1, k)) = PlacesIn(FlattenSeq(SubSeq(cs, 1, k)))]
  <1>1. n \in Nat /\ 0 \in 0 .. n /\ n \in 0 .. n
    BY LenProperties
  <1>2. P[0]
    <2>1. SubSeq(cs, 1, 0) = <<>>
      BY SubSeqEmpty
    <2> QED
      BY <1>1, <2>1, PlacesOfNothing, FlattenEmpty
  <1>3. ASSUME NEW k \in 1 .. n, P[k - 1] PROVE P[k]
    <2>1. k - 1 \in 0 .. n /\ k \in 0 .. n
      BY <1>1
    <2> DEFINE a == SubSeq(cs, 1, k - 1)
    <2>2. SubSeq(cs, 1, k) = Append(a, cs[k])
      BY SubSeqRecursiveSecond, <1>1
    <2>3. a \in Seq(Line) /\ cs[k] \in Line
      BY <1>1, <2>1, SubSeqProperties
    <2>4. CoverOf(a) = PlacesIn(FlattenSeq(a))
      BY <1>3, <2>1
    <2> HIDE DEF a
    <2>5. FlattenSeq(Append(a, cs[k])) = FlattenSeq(a) \o cs[k] /\ FlattenSeq(a) \in Line
      BY <2>3, FlattenAppend, FlattenType DEF Line
    <2>6. PlacesIn(FlattenSeq(a) \o cs[k]) = PlacesIn(FlattenSeq(a)) \cup PlacesIn(cs[k])
      BY <2>3, <2>5, PlacesOfConcat DEF Line
    <2>7. CoverOf(Append(a, cs[k])) = CoverOf(a) \cup PlacesIn(cs[k])
      <3> DEFINE b == Append(a, cs[k])
      <3>1. Len(a) \in Nat /\ DOMAIN a = 1 .. Len(a) /\ DOMAIN b = 1 .. Len(a) + 1 /\ b[Len(a) + 1] = cs[k]
            /\ \A i \in 1 .. Len(a) : b[i] = a[i]
        BY <2>3, AppendProperties, LenProperties
      <3> HIDE DEF b
      <3>2. DOMAIN b = DOMAIN a \cup {Len(a) + 1}
        BY <3>1
      <3>3. CoverOf(b) = (UNION {PlacesIn(b[i]) : i \in DOMAIN a}) \cup PlacesIn(b[Len(a) + 1])
        <4> HIDE DEF PlacesIn
        <4> QED
          BY <3>2 DEF CoverOf
      <3>4. UNION {PlacesIn(b[i]) : i \in DOMAIN a} = CoverOf(a)
        BY <3>1 DEF CoverOf
      <3> QED
        BY <3>1, <3>3, <3>4 DEF b
    <2> QED
      BY <2>1, <2>2, <2>4, <2>5, <2>6, <2>7
  <1>4. \A k \in 0 .. n : P[k]
    <2> HIDE DEF P, n
    <2> QED
      BY <1>1, <1>2, <1>3, CountUp
  <1>5. SubSeq(cs, 1, n) = cs
    BY SubSeqFull
  <1> QED
    BY <1>1, <1>4, <1>5

\* Chunks with the places of a text, in order, show what the text says.
LEMMA CoverOfText ==
  ASSUME NEW cs \in Chunks, NEW t \in Line, Places(FlattenSeq(cs)) = Places(t)
  PROVE  CoverOf(cs) = PlacesIn(t)
  <1>1. cs \in Seq(Line) /\ FlattenSeq(cs) \in Line
    BY PlacesFlatten DEF Line, Chunks
  <1> QED
    BY <1>1, CoverAsPlaces, PlacesAsSet

\* A text is its beginning and its rest.
LEMMA PlacesOfParts ==
  ASSUME NEW s \in Seq(Characters), NEW k \in 0 .. Len(s)
  PROVE  /\ SubSeq(s, 1, k) \in Seq(Characters) /\ Suffix(s, k) \in Seq(Characters)
         /\ Len(SubSeq(s, 1, k)) = k /\ Len(Suffix(s, k)) = Len(s) - k
         /\ PlacesIn(s) = PlacesIn(SubSeq(s, 1, k)) \cup PlacesIn(Suffix(s, k))
  <1>1. Len(s) \in Nat /\ k \in Nat /\ \A i \in 1 .. Len(s) : s[i] \in Characters
    BY LenProperties
  <1>2. SubSeq(s, 1, k) \in Seq(Characters) /\ Len(SubSeq(s, 1, k)) = k
    BY <1>1, SubSeqProperties
  <1>3. SubSeq(s, k + 1, Len(s)) \in Seq(Characters) /\ Len(SubSeq(s, k + 1, Len(s))) = Len(s) - k
    BY <1>1, SubSeqProperties
  <1>4. SubSeq(s, 1, k) \o SubSeq(s, k + 1, Len(s)) = s
    <2>1. 1 \in 1 .. Len(s) + 1 /\ k \in 1 - 1 .. Len(s) /\ Len(s) \in k .. Len(s)
      BY <1>1
    <2>2. SubSeq(s, 1, k) \o SubSeq(s, k + 1, Len(s)) = SubSeq(s, 1, Len(s))
      BY <2>1, ConcatAdjacentSubSeq
    <2> QED
      BY <2>2, SubSeqFull
  <1> QED
    BY <1>2, <1>3, <1>4, PlacesOfConcat DEF Suffix

LEMMA PlacesOfPart ==
  ASSUME NEW s \in Seq(Characters), NEW k \in 0 .. Len(s), NEW l \in 0 .. Len(s), k <= l
  PROVE  PlacesIn(SubSeq(s, 1, l)) = PlacesIn(SubSeq(s, 1, k)) \cup PlacesIn(SubSeq(s, k + 1, l))
  <1>1. Len(s) \in Nat /\ k \in Nat /\ l \in Nat /\ \A i \in 1 .. Len(s) : s[i] \in Characters
    BY LenProperties
  <1>2. SubSeq(s, 1, k) \in Seq(Characters) /\ SubSeq(s, k + 1, l) \in Seq(Characters)
    BY <1>1, SubSeqProperties
  <1>3. SubSeq(s, 1, k) \o SubSeq(s, k + 1, l) = SubSeq(s, 1, l)
    BY <1>1, ConcatAdjacentSubSeq
  <1> QED
    BY <1>2, <1>3, PlacesOfConcat

\* Chunks that look the same show the same.
LEMMA SameGlyphs ==
  ASSUME NEW a, NEW b, Glyphs(a) = Glyphs(b)
  PROVE  PlacesIn(a) = PlacesIn(b)
  <1>1. ASSUME NEW x, NEW y, Glyphs(x) = Glyphs(y), NEW n \in PlacesIn(x) PROVE n \in PlacesIn(y)
    <2>1. PICK i \in DOMAIN x : x[i].c \in VisibleKinds /\ x[i].n = n
      BY <1>1, PlacesMember
    <2>2. DOMAIN Glyphs(x) = DOMAIN x /\ DOMAIN Glyphs(y) = DOMAIN y
      BY DEF Glyphs
    <2>3. i \in DOMAIN y /\ Glyphs(x)[i] = Glyphs(y)[i]
      BY <1>1, <2>2
    <2>4. /\ Glyphs(x)[i] = <<x[i].c, IF x[i].c \in VisibleKinds THEN x[i].n ELSE 0>>
          /\ Glyphs(y)[i] = <<y[i].c, IF y[i].c \in VisibleKinds THEN y[i].n ELSE 0>>
      BY <2>3 DEF Glyphs
    <2> DEFINE gx == IF x[i].c \in VisibleKinds THEN x[i].n ELSE 0
               gy == IF y[i].c \in VisibleKinds THEN y[i].n ELSE 0
    <2>5. x[i].c = y[i].c /\ gx = gy
      <3>1. <<x[i].c, gx>> = <<y[i].c, gy>>
        BY <2>3, <2>4
      <3> HIDE DEF gx, gy
      <3> QED
        BY <3>1
    <2>6. y[i].n = n
      BY <2>1, <2>5
    <2> QED
      BY <2>1, <2>3, <2>5, <2>6, PlacesMember
  <1> QED
    BY <1>1

LEMMA SameGlyphed ==
  ASSUME NEW cs, NEW ds, Glyphed(cs) = Glyphed(ds)
  PROVE  CoverOf(cs) = CoverOf(ds)
  <1>1. DOMAIN cs = DOMAIN ds
    <2>1. DOMAIN Glyphed(cs) = DOMAIN cs /\ DOMAIN Glyphed(ds) = DOMAIN ds
      BY DEF Glyphed
    <2> QED
      BY <2>1
  <1>2. ASSUME NEW i \in DOMAIN cs PROVE PlacesIn(cs[i]) = PlacesIn(ds[i])
    <2>1. Glyphed(cs)[i] = Glyphs(cs[i]) /\ Glyphed(ds)[i] = Glyphs(ds[i])
      BY <1>1 DEF Glyphed
    <2> QED
      BY <2>1, SameGlyphs
  <1> QED
    BY <1>1, <1>2 DEF CoverOf

-----------------------------------------------------------------------------
(* What is said, item by item.                                             *)
LEMMA TypedIsText ==
  ASSUME NEW item \in Items, NEW base \in Nat
  PROVE  Typed(item, base) \in Seq(Characters)
  <1>1. ASSUME NEW c \in Kinds, NEW n \in Nat PROVE Mark(c, n, "none") \in Characters
    BY DEF Mark, Characters
  <1>2. CASE item.kind = "at"
    <2>1. {"@", "n", " "} \subseteq Kinds
      BY DEF Kinds
    <2>2. /\ Mark("@", base + 1, "none") \in Characters /\ Mark("n", base + 2, "none") \in Characters
          /\ Mark(" ", base + 3, "none") \in Characters
      <3>1. base + 1 \in Nat /\ base + 2 \in Nat /\ base + 3 \in Nat
        OBVIOUS
      <3> HIDE DEF Mark
      <3> QED
        BY <1>1, <2>1, <3>1
    <2>3. \A x \in Characters, y \in Characters, z \in Characters : <<x, y, z>> \in Seq(Characters)
      OBVIOUS
    <2>4. Typed(item, base) = <<Mark("@", base + 1, "none"), Mark("n", base + 2, "none"), Mark(" ", base + 3, "none")>>
      BY <1>2 DEF Typed
    <2> QED
      BY <2>2, <2>3, <2>4
  <1>3. CASE item.kind # "at"
    <2>1. item.text \in Seq(Kinds)
      BY DEF Items
    <2>2. DOMAIN item.text = 1 .. Len(item.text) /\ Len(item.text) \in Nat
          /\ \A k \in 1 .. Len(item.text) : item.text[k] \in Kinds
      BY <2>1, LenProperties
    <2>3. \A k \in 1 .. Len(item.text) : Mark(item.text[k], base + k, "none") \in Characters
      BY <1>1, <2>2
    <2>4. [k \in 1 .. Len(item.text) |-> Mark(item.text[k], base + k, "none")] \in Seq(Characters)
      BY <2>2, <2>3, IsASeq
    <2> QED
      BY <1>3, <2>2, <2>4 DEF Typed
  <1> QED
    BY <1>2, <1>3

LEMMA TypedShape ==
  ASSUME NEW f \in Seq(Items)
  PROVE  /\ TypedUpTo(f)[0] = <<>>
         /\ \A n \in 1 .. Len(f) :
              TypedUpTo(f)[n] = IF f[n].kind \in Texts THEN TypedUpTo(f)[n - 1] \o Typed(f[n], Stride * (n - 1))
                                ELSE TypedUpTo(f)[n - 1]
         /\ \A n \in 0 .. Len(f) : TypedUpTo(f)[n] \in Seq(Characters)
  <1> DEFINE N == Len(f)
             Next1(t, n) == IF f[n].kind \in Texts THEN t \o Typed(f[n], Stride * (n - 1)) ELSE t
             Runs(g, n) == g = [i \in 0 .. n |-> IF i = 0 THEN <<>> ELSE Next1(g[i - 1], i)]
             typed == CHOOSE g : Runs(g, N)
  <1>1. TypedUpTo(f) = typed
    BY DEF TypedUpTo
  <1>2. N \in Nat /\ \A n \in 1 .. N : f[n] \in Items
    BY LenProperties
  <1>3. ASSUME NEW t \in Seq(Characters), NEW n \in 1 .. N PROVE Next1(t, n) \in Seq(Characters)
    <2>1. f[n] \in Items /\ Stride * (n - 1) \in Nat
      BY <1>2 DEF Stride
    <2>2. Typed(f[n], Stride * (n - 1)) \in Seq(Characters)
      BY <2>1, TypedIsText
    <2> QED
      BY <2>2, ConcatProperties
  <1>8. ASSUME NEW t, NEW n
        PROVE  Next1(t, n) = IF f[n].kind \in Texts THEN t \o Typed(f[n], Stride * (n - 1)) ELSE t
    OBVIOUS
  <1> HIDE DEF N, Next1
  <1>4. \E g : Runs(g, N)
    <2> DEFINE Bad == {n \in Nat : ~ \E g : Runs(g, n)}
    <2>1. SUFFICES ASSUME Bad # {} PROVE FALSE
      BY <1>2
    <2>2. PICK x \in Bad : \A y \in Bad : x <= y
      BY <2>1, LeastExists
    <2>3. x # 0
      <3>1. Runs([i \in 0 .. 0 |-> <<>>], 0)
        OBVIOUS
      <3> QED
        BY <3>1
    <2>4. x \in Nat /\ x - 1 \in Nat /\ x - 1 \notin Bad
      <3> HIDE DEF Runs
      <3>1. x \in Nat /\ x - 1 \in Nat /\ ~(x <= x - 1)
        BY <2>2, <2>3
      <3> QED
        BY <2>2, <3>1
    <2>5. PICK g : Runs(g, x - 1)
      BY <2>4
    <2> DEFINE h == [i \in 0 .. x |-> IF i = x THEN Next1(g[x - 1], x) ELSE g[i]]
    <2>6. Runs(h, x)
      <3>1. ASSUME NEW i \in 0 .. x
            PROVE  h[i] = IF i = 0 THEN <<>> ELSE Next1(h[i - 1], i)
        <4>1. CASE i = x
          BY <4>1, <2>3, <2>4
        <4>2. CASE i = 0
          BY <4>2, <2>3, <2>4, <2>5
        <4>3. CASE i # x /\ i # 0
          <5>1. i \in 0 .. x - 1 /\ i - 1 \in 0 .. x /\ i - 1 # x /\ i - 1 \in 0 .. x - 1
            BY <4>3, <2>4
          <5>2. g[i] = Next1(g[i - 1], i)
            BY <5>1, <4>3, <2>5
          <5> QED
            BY <5>1, <5>2, <4>3
        <4> QED
          BY <4>1, <4>2, <4>3
      <3> QED
        BY <3>1
    <2> QED
      BY <2>2, <2>6
  <1>5. Runs(typed, N)
    <2> HIDE DEF Runs
    <2> QED
      BY <1>4
  <1> HIDE DEF typed
  <1>6. typed[0] = <<>> /\ \A n \in 1 .. N : typed[n] = Next1(typed[n - 1], n)
    BY <1>2, <1>5
  <1>7. \A n \in 0 .. N : typed[n] \in Seq(Characters)
    <2> DEFINE Bad == {n \in 0 .. N : typed[n] \notin Seq(Characters)}
    <2>1. SUFFICES ASSUME Bad # {} PROVE FALSE
      OBVIOUS
    <2>2. PICK x \in Bad : \A y \in Bad : x <= y
      <3>1. Bad \subseteq Nat
        BY <1>2
      <3> HIDE DEF Bad
      <3> QED
        BY <2>1, <3>1, LeastExists
    <2>3. x # 0
      BY <1>6, EmptySeq
    <2>4. x - 1 \in 0 .. N /\ x \in 1 .. N /\ x - 1 \notin Bad
      BY <2>2, <2>3, <1>2
    <2>5. typed[x - 1] \in Seq(Characters) /\ typed[x] = Next1(typed[x - 1], x)
      BY <2>4, <1>6
    <2> QED
      BY <1>3, <2>2, <2>4, <2>5
  <1> QED
    BY <1>1, <1>6, <1>7, <1>8 DEF N

\* Rendering and cutting a text, in either state of the stream, shows all of it.
Rendering(t) == \A streaming \in BOOLEAN :
  /\ VisibleChunks(t, streaming, Limit, Names(t)) \in Chunks
  /\ CoverOf(VisibleChunks(t, streaming, Limit, Names(t))) = PlacesIn(t)
  /\ Places(FlattenSeq(VisibleChunks(t, streaming, Limit, Names(t)))) = Places(t)
Showable(raw) == raw \in Seq(Characters) /\ \A i \in 1 .. Len(raw) + 1, k \in 0 .. Len(raw) : Rendering(SubSeq(raw, i, k))

LEMMA SaidIsShowable ==
  ASSUME NEW j \in Jobs, NEW n \in 0 .. Len(j.feed), NEW a \in 0 .. Len(TypedUpTo(j.feed)[n])
  PROVE  Showable(Suffix(TypedUpTo(j.feed)[n], a))
  <1> DEFINE t == TypedUpTo(j.feed)[n]
             raw == Suffix(t, a)
  <1>1. t \in Seq(Characters)
    BY ReplyAssumption, TypedShape
  <1>2. \A p \in PartsOf(t) : Rendering(p)
    <2> SUFFICES ASSUME NEW p \in PartsOf(t), NEW streaming \in BOOLEAN
                 PROVE  /\ VisibleChunks(p, streaming, Limit, Names(p)) \in Chunks
                        /\ CoverOf(VisibleChunks(p, streaming, Limit, Names(p))) = PlacesIn(p)
                        /\ Places(FlattenSeq(VisibleChunks(p, streaming, Limit, Names(p)))) = Places(p)
      BY DEF Rendering
    <2>1. p \in PartsSaid(j.feed)
      BY DEF PartsSaid
    <2>2. p \in UNION {PartsSaid(k.feed) : k \in Jobs}
      BY <2>1
    <2> DEFINE cs == VisibleChunks(p, streaming, Limit, Names(p))
    <2>3. cs \in Chunks /\ Places(FlattenSeq(cs)) = Places(p)
      BY <2>2, ReplyAssumption DEF Chunks
    <2>4. p \in Line
      <3>1. PICK i \in 1 .. Len(t) + 1, k \in 0 .. Len(t) : p = SubSeq(t, i, k)
        BY DEF PartsOf
      <3>2. Len(t) \in Nat /\ \A m \in i .. k : t[m] \in Characters
        BY <1>1, LenProperties
      <3> HIDE DEF t
      <3> QED
        BY <1>1, <3>1, <3>2, SubSeqProperties DEF Line
    <2> HIDE DEF cs
    <2> QED
      BY <2>3, <2>4, CoverOfText DEF cs
  <1> HIDE DEF t
  <1>3. raw \in Seq(Characters) /\ Len(raw) = Len(t) - a /\ Len(t) \in Nat /\ a \in 0 .. Len(t)
    BY <1>1, PlacesOfParts, LenProperties DEF t
  <1>4. ASSUME NEW i \in 1 .. Len(raw) + 1, NEW k \in 0 .. Len(raw) PROVE SubSeq(raw, i, k) \in PartsOf(t)
    <2>1. CASE i <= k
      <3>1. a + 1 \in 1 .. Len(t) /\ Len(t) \in 1 .. Len(t)
            /\ i \in 1 .. Len(t) - (a + 1) + 1 /\ k \in 1 .. Len(t) - (a + 1) + 1
        BY <1>3, <2>1
      <3>2. SubSeq(SubSeq(t, a + 1, Len(t)), i, k) = SubSeq(t, a + 1 + i - 1, a + 1 + k - 1)
        BY <1>1, <3>1, SubSeqOfSubSeq
      <3>3. a + 1 + i - 1 \in 1 .. Len(t) + 1 /\ a + 1 + k - 1 \in 0 .. Len(t)
        BY <1>3, <2>1
      <3> QED
        BY <3>2, <3>3 DEF PartsOf, Suffix
    <2>2. CASE k < i
      <3>1. SubSeq(raw, i, k) = <<>> /\ SubSeq(t, 1, 0) = <<>>
        BY <2>2, <1>3, SubSeqEmpty
      <3>2. 1 \in 1 .. Len(t) + 1 /\ 0 \in 0 .. Len(t)
        BY <1>3
      <3> QED
        BY <3>1, <3>2 DEF PartsOf
    <2> QED
      BY <2>1, <2>2, <1>3
  <1> HIDE DEF raw
  <1>5. Showable(raw)
    BY <1>2, <1>3, <1>4 DEF Showable
  <1> QED
    BY <1>5 DEF raw, t

LEMMA ShowableParts ==
  ASSUME NEW raw, Showable(raw)
  PROVE  /\ Rendering(raw)
         /\ \A k \in 0 .. Len(raw) : Rendering(Suffix(raw, k))
         /\ \A k \in 0 .. Len(raw), l \in 0 .. Len(raw) : Rendering(SubSeq(raw, k + 1, l))
  <1>1. Len(raw) \in Nat
    BY LenProperties DEF Showable
  <1>2. \A k \in 0 .. Len(raw), l \in 0 .. Len(raw) : Rendering(SubSeq(raw, k + 1, l))
    BY <1>1 DEF Showable
  <1>3. \A k \in 0 .. Len(raw) : Rendering(Suffix(raw, k))
    BY <1>1, <1>2 DEF Suffix
  <1>4. SubSeq(raw, 1, Len(raw)) = raw
    BY SubSeqFull DEF Showable
  <1>5. Rendering(SubSeq(raw, 1, Len(raw)))
    BY <1>1 DEF Showable
  <1> HIDE DEF Rendering
  <1> QED
    BY <1>2, <1>3, <1>4, <1>5

-----------------------------------------------------------------------------
(* What a publish decides.                                                 *)
Segments == [raw : Seq(Characters), ids : Seq(Nat), shown : Chunks, failed : BOOLEAN,
             offset : Nat, unedited : Nat, final : BOOLEAN]
Begun(s) == s \in Segments /\ s.offset <= Len(s.raw) /\ s.unedited <= Len(s.raw) /\ Showable(s.raw) /\ ~s.final
PartUpto(s, i) == PlacesIn(SubSeq(s.raw, 1, i))

\* An outcome keeps the text and what is known of its messages, and shows nothing else.
Decided(o, s, force) ==
  /\ o.pc \in Publishing /\ o.seg \in Segments
  /\ o.seg.raw = s.raw /\ o.seg.ids = s.ids /\ o.seg.shown = s.shown /\ o.seg.unedited = s.unedited
  /\ o.seg.offset <= Len(s.raw) /\ (s.failed => o.seg.failed)
  /\ o.plan \in Chunks /\ CoverOf(o.plan) \subseteq PlacesIn(s.raw)
  /\ Queue(o) \in Chunks /\ CoverOf(Queue(o)) \subseteq PlacesIn(s.raw)
  /\ o.pc = "return" => Queue(o) = <<>>
  /\ o.pc = "edit" => /\ o.seg = s /\ ~s.failed /\ Queue(o) = <<>>
                      /\ Len(s.shown) <= Len(o.plan) /\ CoverOf(o.plan) = PlacesIn(s.raw)
  /\ o.seg.final => force /\ o.pc \in {"return", "resend"}

\* What is seen of a text where a publish begins ...
Visibly(s, S) == /\ PartUpto(s, s.unedited) \subseteq S
                 /\ job.realtime => PartUpto(s, s.offset) \subseteq S
                 /\ ~s.failed => CoverOf(s.shown) \subseteq S
\* ... and what is seen, or on the way, when it is decided.
Revealing(o, s, force, S) ==
  /\ job.realtime => PartUpto(s, o.seg.offset) \subseteq S \cup CoverOf(Queue(o))
  /\ force /\ o.pc # "edit" => PlacesIn(s.raw) \subseteq S \cup CoverOf(Queue(o))

\* What a publish makes of a text: the same, further shown, given up or at its end.
Follows(t, s, force) ==
  /\ t \in Segments /\ t.raw = s.raw /\ t.ids = s.ids /\ t.shown = s.shown /\ t.unedited = s.unedited
  /\ t.offset <= Len(s.raw) /\ (s.failed => t.failed) /\ (t.final => force)

LEMMA ReturnDecided ==
  ASSUME NEW s, NEW t, NEW force, Follows(t, s, force)
  PROVE  /\ Decided(Return(t), s, force) /\ Queue(Return(t)) = <<>>
         /\ Return(t).seg = t /\ Return(t).pc = "return"
  <1> DEFINE o == Return(t)
  <1>1. Queue(o) = <<>> /\ o.seg = t /\ o.pc = "return" /\ o.plan = <<>>
    BY DEF Queue, Return, Outcome
  <1>2. <<>> \in Chunks
    BY EmptySeq DEF Chunks
  <1> HIDE DEF o, Queue
  <1>3. Decided(o, s, force)
    BY <1>1, <1>2, PlacesOfNothing DEF Decided, Follows, Publishing
  <1> QED
    BY <1>1, <1>3 DEF o

LEMMA AgainDecided ==
  ASSUME NEW s, NEW t, NEW force \in BOOLEAN, Follows(t, s, force),
         NEW text, Rendering(text), PlacesIn(text) \subseteq PlacesIn(s.raw), NEW streaming \in BOOLEAN
  PROVE  /\ Decided(Again(t, text, streaming), s, force)
         /\ CoverOf(Queue(Again(t, text, streaming))) = PlacesIn(text)
         /\ Again(t, text, streaming).seg = t /\ Again(t, text, streaming).pc = "resend"
  <1> DEFINE o == Again(t, text, streaming)
  <1>1. o.seg = t /\ o.pc = "resend" /\ o.plan = <<>> /\ o.text = text /\ o.streaming = streaming
    BY DEF Again, Outcome
  <1> HIDE DEF o
  <1>2. <<>> \in Chunks
    BY EmptySeq DEF Chunks
  <1>3. Queue(o) \in Chunks /\ CoverOf(Queue(o)) = PlacesIn(text)
    BY <1>1, <1>2, PlacesOfNothing DEF Queue, Rendering
  <1> HIDE DEF Queue
  <1>4. Decided(o, s, force)
    BY <1>1, <1>2, <1>3, PlacesOfNothing DEF Decided, Follows, Publishing
  <1> QED
    BY <1>1, <1>3, <1>4 DEF o

LEMMA SentencesWithin ==
  ASSUME NEW t \in Seq(Characters)
  PROVE  Sentences(t) \in 0 .. Len(t)
  <1> DEFINE ends == {i \in DOMAIN t : t[i].c = "."}
             Below == {k \in Nat : \E i \in ends : i + k = Len(t)}
  <1>1. DOMAIN t = 1 .. Len(t) /\ Len(t) \in Nat
    BY LenProperties
  <1>2. CASE ends = {}
    BY <1>1, <1>2 DEF Sentences
  <1>3. CASE ends # {}
    <2>1. Below \subseteq Nat /\ Below # {}
      <3>1. PICK i \in ends : TRUE
        BY <1>3
      <3>2. Len(t) - i \in Nat /\ i + (Len(t) - i) = Len(t)
        BY <1>1
      <3> QED
        BY <3>1, <3>2
    <2>2. PICK k \in Below : \A l \in Below : k <= l
      <3> HIDE DEF Below
      <3> QED
        BY <2>1, LeastExists
    <2>3. PICK i \in ends : i + k = Len(t)
      OBVIOUS
    <2>4. \A j \in ends : j <= i
      <3> SUFFICES ASSUME NEW j \in ends PROVE j <= i
        OBVIOUS
      <3>0. j \in 1 .. Len(t) /\ i \in 1 .. Len(t) /\ Len(t) \in Nat
        BY <1>1
      <3>1. Len(t) - j \in Below
        <4>1. Len(t) - j \in Nat /\ j + (Len(t) - j) = Len(t)
          <5> HIDE DEF ends
          <5> QED
            BY <3>0
        <4> QED
          BY <4>1
      <3>2. k <= Len(t) - j /\ k \in Nat /\ i \in Nat /\ j \in Nat
        <4>1. k \in Nat
          OBVIOUS
        <4> HIDE DEF Below
        <4> QED
          BY <4>1, <3>0, <2>2, <3>1
      <3> QED
        BY <1>1, <2>3, <3>2
    <2>5. Sentences(t) \in ends
      BY <1>3, <2>4 DEF Sentences
    <2> QED
      BY <1>1, <2>5
  <1> QED
    BY <1>2, <1>3

LEMMA PartOfRest ==
  ASSUME NEW r \in Seq(Characters), NEW a \in 0 .. Len(r), NEW c \in 0 .. Len(r) - a
  PROVE  SubSeq(Suffix(r, a), 1, c) = SubSeq(r, a + 1, a + c)
  <1>1. Len(r) \in Nat /\ a \in Nat /\ c \in Nat
    BY LenProperties
  <1>2. CASE c = 0
    <2>1. SubSeq(Suffix(r, a), 1, c) = <<>> /\ SubSeq(r, a + 1, a + c) = <<>>
      BY <1>1, <1>2, SubSeqEmpty
    <2> QED
      BY <2>1
  <1>3. CASE c # 0
    <2>1. /\ a + 1 \in 1 .. Len(r) /\ Len(r) \in 1 .. Len(r)
          /\ 1 \in 1 .. Len(r) - (a + 1) + 1 /\ c \in 1 .. Len(r) - (a + 1) + 1
      BY <1>1, <1>3
    <2>2. SubSeq(SubSeq(r, a + 1, Len(r)), 1, c) = SubSeq(r, a + 1 + 1 - 1, a + 1 + c - 1)
      BY <2>1, SubSeqOfSubSeq
    <2>3. a + 1 + 1 - 1 = a + 1 /\ a + 1 + c - 1 = a + c
      BY <1>1
    <2> QED
      BY <2>2, <2>3 DEF Suffix
  <1> QED
    BY <1>2, <1>3

LEMMA RealtimeDecided ==
  ASSUME NEW s, Begun(s), NEW t, NEW force \in BOOLEAN, Follows(t, s, force), t.offset = s.offset
  PROVE  /\ Decided(Realtime(t, force), s, force)
         /\ Realtime(t, force).seg.failed = t.failed
         /\ Realtime(t, force).pc # "edit"
         /\ \A S : job.realtime /\ Visibly(s, S) => Revealing(Realtime(t, force), s, force, S)
  <1> DEFINE pending == Suffix(t.raw, t.offset)
             cut == IF force THEN Len(pending) ELSE Sentences(pending)
             u == [t EXCEPT !.offset = @ + cut]
             text == SubSeq(pending, 1, cut)
             o == Realtime(t, force)
  <1>1. t.raw = s.raw /\ t.offset = s.offset /\ t \in Segments
    BY DEF Follows
  <1>2. s.raw \in Seq(Characters) /\ s.offset \in 0 .. Len(s.raw) /\ Len(s.raw) \in Nat /\ s.offset \in Nat
    BY LenProperties DEF Begun, Segments
  <1>3. pending \in Seq(Characters) /\ Len(pending) = Len(s.raw) - s.offset
        /\ PlacesIn(s.raw) = PartUpto(s, s.offset) \cup PlacesIn(pending)
    BY <1>1, <1>2, PlacesOfParts DEF PartUpto
  <1>4. cut \in 0 .. Len(pending) /\ cut \in Nat
    BY <1>2, <1>3, SentencesWithin
  <1>5. o = IF cut = 0 THEN Return(t) ELSE Again(u, text, ~force)
    BY DEF Realtime
  <1>6. force => cut = Len(pending)
    OBVIOUS
  <1>7. text = SubSeq(s.raw, s.offset + 1, s.offset + cut)
    <2>1. cut \in 0 .. Len(s.raw) - s.offset
      BY <1>3, <1>4
    <2> HIDE DEF cut
    <2> QED
      BY <2>1, <1>1, <1>2, PartOfRest
  <1> HIDE DEF cut, o, text
  <1>8. CASE cut = 0
    <2>1. o = Return(t)
      BY <1>5, <1>8
    <2>2. Decided(o, s, force) /\ o.seg = t /\ o.pc = "return" /\ Queue(o) = <<>>
      BY <2>1, ReturnDecided
    <2>3. ASSUME force PROVE PlacesIn(pending) = {}
      <3>1. pending = <<>>
        <4>1. Len(pending) = 0
          BY <1>8, <1>6, <2>3
        <4> QED
          BY <4>1, <1>3, EmptySeq
      <3> QED
        BY <3>1, PlacesOfNothing
    <2>4. ASSUME NEW S, job.realtime, Visibly(s, S) PROVE Revealing(o, s, force, S)
      <3>1. PartUpto(s, s.offset) \subseteq S
        BY <2>4 DEF Visibly
      <3>2. o.seg.offset = s.offset
        BY <2>2, <1>1
      <3> HIDE DEF pending
      <3> QED
        BY <3>1, <3>2, <1>3, <2>3 DEF Revealing
    <2> QED
      BY <2>2, <2>4 DEF o
  <1>9. CASE cut # 0
    <2>1. o = Again(u, text, ~force)
      BY <1>5, <1>9
    <2>2. /\ u.offset = s.offset + cut /\ s.offset + cut \in 0 .. Len(s.raw) /\ u.failed = t.failed
          /\ Follows(u, s, force)
      <3>1. s.offset + cut \in Nat /\ s.offset + cut <= Len(s.raw)
        BY <1>2, <1>3, <1>4
      <3> QED
        BY <3>1, <1>1, <1>2 DEF Follows, Segments
    <2>3. PlacesIn(SubSeq(s.raw, 1, s.offset + cut)) = PartUpto(s, s.offset) \cup PlacesIn(text)
      <3>1. s.offset <= s.offset + cut
        BY <1>2, <1>4
      <3> QED
        BY <3>1, <2>2, <1>2, <1>7, PlacesOfPart DEF PartUpto
    <2>4. PlacesIn(s.raw) = PlacesIn(SubSeq(s.raw, 1, s.offset + cut)) \cup PlacesIn(Suffix(s.raw, s.offset + cut))
      BY <2>2, <1>2, PlacesOfParts
    <2>5. Rendering(text)
      BY <2>2, <1>2, <1>7, ShowableParts DEF Begun
    <2> HIDE DEF u, pending
    <2>6. PlacesIn(text) \subseteq PlacesIn(s.raw)
      BY <2>3, <2>4
    <2>7. Decided(o, s, force) /\ o.seg = u /\ o.pc = "resend" /\ CoverOf(Queue(o)) = PlacesIn(text)
      <3>1. (~force) \in BOOLEAN
        OBVIOUS
      <3>2. ASSUME NEW f \in BOOLEAN
            PROVE  /\ Decided(Again(u, text, f), s, force)
                   /\ Again(u, text, f).seg = u /\ Again(u, text, f).pc = "resend"
                   /\ CoverOf(Queue(Again(u, text, f))) = PlacesIn(text)
        BY <2>2, <2>5, <2>6, AgainDecided
      <3> QED
        BY <3>1, <3>2, <2>1
    <2>8. ASSUME force PROVE PlacesIn(s.raw) = PlacesIn(SubSeq(s.raw, 1, s.offset + cut))
      <3>1. s.offset + cut = Len(s.raw)
        BY <2>8, <1>2, <1>3, <1>6
      <3>2. SubSeq(s.raw, 1, Len(s.raw)) = s.raw
        BY <1>2, SubSeqFull
      <3> QED
        BY <3>1, <3>2
    <2>9. ASSUME NEW S, job.realtime, Visibly(s, S) PROVE Revealing(o, s, force, S)
      <3>1. PartUpto(s, s.offset) \subseteq S
        BY <2>9 DEF Visibly
      <3>2. PartUpto(s, o.seg.offset) = PartUpto(s, s.offset) \cup PlacesIn(text)
        BY <2>2, <2>3, <2>7 DEF PartUpto
      <3> QED
        BY <3>1, <3>2, <2>3, <2>7, <2>8 DEF Revealing
    <2> QED
      BY <2>2, <2>7, <2>9 DEF o
  <1> QED
    BY <1>8, <1>9

LEMMA FinalDecided ==
  ASSUME job.realtime \in BOOLEAN, NEW s, Begun(s), NEW t, Follows(t, s, TRUE), t.offset = s.offset, ~t.final
  PROVE  /\ Decided(FinalFallback(t), s, TRUE)
         /\ FinalFallback(t).seg.failed = t.failed
         /\ FinalFallback(t).pc # "edit"
         /\ \A S : Visibly(s, S) => Revealing(FinalFallback(t), s, TRUE, S)
  <1> DEFINE u == [t EXCEPT !.final = TRUE]
             o == FinalFallback(t)
             rest == Suffix(s.raw, s.unedited)
  <1>1. Follows(u, s, TRUE) /\ u.offset = s.offset /\ u.failed = t.failed /\ u.raw = s.raw /\ u.unedited = s.unedited
    BY DEF Follows, Segments
  <1>2. s.raw \in Seq(Characters) /\ s.unedited \in 0 .. Len(s.raw)
    BY LenProperties DEF Begun, Segments
  <1>3. o = IF job.realtime THEN Realtime(u, TRUE) ELSE Again(u, rest, FALSE)
    <2>1. t.raw = s.raw /\ t.unedited = s.unedited
      BY DEF Follows
    <2> QED
      BY <2>1 DEF FinalFallback
  <1> HIDE DEF u, o
  <1>4. CASE job.realtime
    <2>1. o = Realtime(u, TRUE)
      BY <1>3, <1>4
    <2>2. /\ Decided(o, s, TRUE) /\ o.seg.failed = u.failed /\ o.pc # "edit"
          /\ \A S : job.realtime /\ Visibly(s, S) => Revealing(o, s, TRUE, S)
      BY <1>1, <2>1, RealtimeDecided
    <2> QED
      BY <1>1, <1>4, <2>2 DEF o
  <1>5. CASE ~job.realtime
    <2>1. o = Again(u, rest, FALSE)
      BY <1>3, <1>5
    <2>2. PlacesIn(s.raw) = PartUpto(s, s.unedited) \cup PlacesIn(rest) /\ Rendering(rest)
      BY <1>2, PlacesOfParts, ShowableParts DEF PartUpto, Begun
    <2> HIDE DEF rest
    <2>3. Decided(o, s, TRUE) /\ CoverOf(Queue(o)) = PlacesIn(rest) /\ o.seg = u /\ o.pc = "resend"
      <3>1. PlacesIn(rest) \subseteq PlacesIn(s.raw)
        BY <2>2
      <3>2. ASSUME NEW f \in BOOLEAN, NEW force \in BOOLEAN, Follows(u, s, force)
            PROVE  /\ Decided(Again(u, rest, f), s, force)
                   /\ Again(u, rest, f).seg = u /\ Again(u, rest, f).pc = "resend"
                   /\ CoverOf(Queue(Again(u, rest, f))) = PlacesIn(rest)
        BY <2>2, <3>1, <3>2, AgainDecided
      <3>3. \A force \in BOOLEAN : force /\ Follows(u, s, force) => Decided(o, s, force)
        BY <2>1, <3>2
      <3>4. CoverOf(Queue(o)) = PlacesIn(rest) /\ o.seg = u /\ o.pc = "resend"
        BY <2>1, <3>2, <1>1
      <3> QED
        BY <3>3, <3>4, <1>1
    <2>4. ASSUME NEW S, Visibly(s, S) PROVE Revealing(o, s, TRUE, S)
      BY <1>5, <2>2, <2>3, <2>4 DEF Visibly, Revealing
    <2> QED
      BY <1>1, <2>3, <2>4 DEF o
  <1> QED
    BY <1>4, <1>5

LEMMA GiveUpDecided ==
  ASSUME job.realtime \in BOOLEAN, NEW s, Begun(s), NEW force \in BOOLEAN
  PROVE  /\ Decided(GiveUp(s, force), s, force)
         /\ GiveUp(s, force).seg.failed
         /\ GiveUp(s, force).pc # "edit"
         /\ \A S : Visibly(s, S) => Revealing(GiveUp(s, force), s, force, S)
  <1> DEFINE t == [s EXCEPT !.failed = TRUE]
  <1>1. Follows(t, s, force) /\ t.offset = s.offset /\ t.failed = TRUE /\ t.final = FALSE
    BY DEF Begun, Follows, Segments
  <1>2. GiveUp(s, force) = IF force THEN FinalFallback(t) ELSE Return(t)
    BY DEF GiveUp
  <1> HIDE DEF t
  <1>3. CASE force
    <2>1. Follows(t, s, TRUE) /\ force = TRUE
      BY <1>1, <1>3
    <2> DEFINE o == FinalFallback(t)
    <2>2. Decided(o, s, TRUE) /\ o.seg.failed = t.failed /\ o.pc # "edit"
          /\ \A S : Visibly(s, S) => Revealing(o, s, TRUE, S)
      BY <1>1, <2>1, FinalDecided
    <2>3. GiveUp(s, force) = o
      BY <1>2, <1>3
    <2> HIDE DEF o
    <2> QED
      BY <1>1, <2>1, <2>2, <2>3
  <1>4. CASE ~force
    <2>1. GiveUp(s, force) = Return(t)
      BY <1>2, <1>4
    <2>2. Decided(GiveUp(s, force), s, force) /\ GiveUp(s, force).seg = t /\ GiveUp(s, force).pc = "return"
      BY <1>1, <2>1, ReturnDecided
    <2> QED
      BY <1>1, <1>4, <2>2 DEF Revealing, Visibly
  <1> QED
    BY <1>3, <1>4

LEMMA BegunFollows ==
  ASSUME NEW s, Begun(s), NEW force PROVE Follows(s, s, force)
  BY DEF Begun, Follows

\* A publish of a text all of which is shown already has nothing to do.
LEMMA EditedDecided ==
  ASSUME job.realtime \in BOOLEAN, NEW s, Begun(s), ~s.failed, NEW force \in BOOLEAN,
         NEW chunks \in Chunks, CoverOf(chunks) = PlacesIn(s.raw)
  PROVE  /\ Decided(Edited(s, force, chunks), s, force)
         /\ \A S : Visibly(s, S) => Revealing(Edited(s, force, chunks), s, force, S)
  <1> DEFINE o == Edited(s, force, chunks)
  <1>1. CASE chunks = <<>> \/ Glyphed(chunks) = Glyphed(s.shown)
    <2>1. o = Return(s)
      BY <1>1 DEF Edited
    <2>2. Decided(o, s, force) /\ o.seg = s /\ o.pc = "return"
      BY <2>1, ReturnDecided, BegunFollows
    <2>3. PlacesIn(s.raw) = {} \/ PlacesIn(s.raw) = CoverOf(s.shown)
      BY <1>1, PlacesOfNothing, SameGlyphed
    <2> QED
      BY <2>2, <2>3 DEF Revealing, Visibly
  <1>2. CASE ~(chunks = <<>> \/ Glyphed(chunks) = Glyphed(s.shown)) /\ Len(chunks) < Len(s.shown)
    <2>1. o = GiveUp(s, force)
      BY <1>2 DEF Edited
    <2> QED
      BY <2>1, GiveUpDecided
  <1>3. CASE ~(chunks = <<>> \/ Glyphed(chunks) = Glyphed(s.shown)) /\ ~(Len(chunks) < Len(s.shown))
    <2>1. o = Edit(s, chunks)
      BY <1>3 DEF Edited
    <2>2. o.pc = "edit" /\ o.seg = s /\ o.plan = chunks /\ Queue(o) = <<>>
      BY <2>1 DEF Edit, Outcome, Queue
    <2>3. Len(s.shown) <= Len(chunks)
      <3>1. Len(s.shown) \in Nat /\ Len(chunks) \in Nat
        BY LenProperties DEF Begun, Segments, Chunks
      <3> QED
        BY <3>1, <1>3
    <2>4. <<>> \in Chunks
      BY EmptySeq DEF Chunks
    <2> HIDE DEF o, Queue
    <2>5. Decided(o, s, force)
      BY <2>2, <2>3, <2>4, PlacesOfNothing DEF Decided, Begun, Publishing
    <2> QED
      BY <2>2, <2>5 DEF Revealing, Visibly, o
  <1> QED
    BY <1>1, <1>2, <1>3

LEMMA PublishedDecided ==
  ASSUME job.realtime \in BOOLEAN, NEW s, Begun(s), NEW force \in BOOLEAN
  PROVE  /\ Decided(Published(s, force), s, force)
         /\ \A S : Visibly(s, S) => Revealing(Published(s, force), s, force, S)
  <1> DEFINE o == Published(s, force)
  <1>1. CASE s.raw = <<>>
    <2>1. o = Return(s)
      BY <1>1 DEF Published
    <2>2. Decided(o, s, force) /\ o.seg = s /\ o.pc = "return"
      BY <2>1, ReturnDecided, BegunFollows
    <2> QED
      BY <1>1, <2>2, PlacesOfNothing DEF Revealing, Visibly
  <1>2. CASE s.raw # <<>> /\ s.failed
    <2>1. o = IF force THEN FinalFallback(s) ELSE IF job.realtime THEN Realtime(s, FALSE) ELSE Return(s)
      BY <1>2 DEF Published
    <2>2. CASE force
      <3>1. Follows(s, s, TRUE) /\ ~s.final /\ force = TRUE /\ o = FinalFallback(s)
        BY <2>1, <2>2, BegunFollows DEF Begun
      <3> QED
        BY <3>1, FinalDecided
    <2>3. CASE ~force /\ job.realtime
      <3>1. Follows(s, s, FALSE) /\ ~s.final /\ force = FALSE /\ o = Realtime(s, FALSE)
        BY <2>1, <2>3, BegunFollows DEF Begun
      <3> QED
        BY <2>3, <3>1, RealtimeDecided
    <2>4. CASE ~force /\ ~job.realtime
      <3>1. o = Return(s)
        BY <2>1, <2>4
      <3>2. Decided(o, s, force) /\ o.seg = s /\ o.pc = "return"
        BY <3>1, ReturnDecided, BegunFollows
      <3> QED
        BY <2>4, <3>2 DEF Revealing
    <2> QED
      BY <2>2, <2>3, <2>4
  <1>3. CASE s.raw # <<>> /\ ~s.failed
    <2>1. o = Edited(s, force, VisibleChunks(s.raw, ~force, Limit, Names(s.raw)))
      BY <1>3 DEF Published
    <2>2. Rendering(s.raw)
      BY ShowableParts DEF Begun
    <2>3. (~force) \in BOOLEAN
      OBVIOUS
    <2>4. VisibleChunks(s.raw, ~force, Limit, Names(s.raw)) \in Chunks /\ CoverOf(VisibleChunks(s.raw, ~force, Limit, Names(s.raw))) = PlacesIn(s.raw)
      BY <2>2, <2>3 DEF Rendering
    <2> QED
      BY <1>3, <2>1, <2>4, EditedDecided
  <1> QED
    BY <1>1, <1>2, <1>3

-----------------------------------------------------------------------------
(* The inductive invariant: what a text, a publish and the chat are, and   *)
(* that the chat shows nothing that was not said.                          *)
Publishes == [force : BOOLEAN, after : {"pull", "break", "part", "end"}, plan : Chunks, queue : Chunks, changed : BOOLEAN]
Messages  == [n : Nat, chars : Seq(Characters), quoted : BOOLEAN]
Quotes    == [has : BOOLEAN, consumed : BOOLEAN, count : Nat]
Running   == {"pull", "edit", "resend", "return", "part"}
Count     == Len(job.feed) - Len(feed)
Spoken    == TypedUpTo(job.feed)[Count]

FeedInv == /\ job \in Jobs /\ feed \in Seq(Items) /\ Len(feed) <= Len(job.feed)
           /\ \A i \in 1 .. Len(feed) : feed[i] = job.feed[Count + i]
\* A text is the end of what was spoken; it has an id, or none, for every chunk it shows.
TextOk(s, spoken, heard, count) ==
  /\ s \in Segments /\ s.offset <= Len(s.raw) /\ s.unedited <= Len(s.raw)
  /\ Len(s.ids) = Len(s.shown) /\ \A i \in DOMAIN s.ids : s.ids[i] \in 0 .. count
  /\ \E a \in 0 .. Len(spoken) : s.raw = Suffix(spoken, a)
  /\ PlacesIn(s.raw) \subseteq heard
TaskInv ==
  /\ task \in Publishes
  /\ task.force <=> task.after # "pull"
  /\ pc \in Running \cup {"ack", "stop", "hook", "over"}
  /\ outcome \in {"running", "done", "failed"} /\ (outcome = "running" <=> pc \in Running)
  /\ pc \in {"pull", "part"} => task = NoTask
  /\ pc = "return" => task.queue = <<>>
  /\ pc = "part" => seg = Fresh
  /\ pc = "edit" => ~seg.failed /\ Len(seg.shown) <= Len(task.plan) /\ CoverOf(task.plan) = PlacesIn(seg.raw)
                    /\ task.queue = <<>>
  /\ pc = "part" \/ task.after = "part" => Count > 0 /\ job.feed[Count].kind = "part"
  /\ task.after = "end" => feed = <<>>
  /\ seg.final /\ outcome = "running" => pc \in {"return", "resend"} /\ task.force
  /\ CoverOf(task.queue) \subseteq PlacesIn(seg.raw) /\ CoverOf(task.plan) \subseteq PlacesIn(seg.raw)
ScreenOk(scr, heard) == scr \in Seq(Messages) /\ \A i \in DOMAIN scr : SeenIn(scr[i]) \subseteq heard
SentInv == /\ ScreenOk(screen, Heard)
           /\ superSent \in BOOLEAN /\ (superSent <=> screen # <<>>)
           /\ quote \in Quotes /\ quote.count = Len(screen)
SaidInv == FeedInv /\ TextOk(seg, Spoken, Heard, Len(screen)) /\ TaskInv /\ SentInv

LEMMA FeedFacts ==
  ASSUME FeedInv
  PROVE  /\ job.feed \in Seq(Items) /\ job.realtime \in BOOLEAN
         /\ Len(feed) \in Nat /\ Len(job.feed) \in Nat /\ Count \in 0 .. Len(job.feed)
         /\ Spoken \in Seq(Characters) /\ Len(Spoken) \in Nat
  <1>1. job.feed \in Seq(Items) /\ job.realtime \in BOOLEAN
    BY ReplyAssumption DEF FeedInv
  <1>2. Len(feed) \in Nat /\ Len(job.feed) \in Nat
    BY <1>1, LenProperties DEF FeedInv
  <1>3. Count \in 0 .. Len(job.feed)
    BY <1>2 DEF FeedInv, Count
  <1>4. Spoken \in Seq(Characters)
    BY <1>1, <1>3, TypedShape DEF Spoken
  <1> QED
    BY <1>1, <1>2, <1>3, <1>4, LenProperties

LEMMA TextShowable ==
  ASSUME FeedInv, NEW s, NEW heard, NEW count, TextOk(s, Spoken, heard, count), ~s.final
  PROVE  Begun(s)
  <1>1. PICK a \in 0 .. Len(Spoken) : s.raw = Suffix(Spoken, a)
    BY DEF TextOk
  <1>2. job \in Jobs /\ Count \in 0 .. Len(job.feed)
    BY FeedFacts DEF FeedInv
  <1>3. Showable(s.raw)
    BY <1>1, <1>2, SaidIsShowable DEF Spoken
  <1> QED
    BY <1>3 DEF TextOk, Begun

\* The next item is taken.
LEMMA TakeItem ==
  ASSUME FeedInv, feed # <<>>, feed' = Tail(feed), job' = job
  PROVE  /\ FeedInv' /\ Count' = Count + 1 /\ Count' \in 1 .. Len(job.feed)
         /\ Head(feed) = job.feed[Count'] /\ Head(feed) \in Items
         /\ Heard' = Heard \cup HeardIn(Count')
         /\ Spoken' = IF Head(feed).kind \in Texts THEN Spoken \o Typed(Head(feed), Stride * Count) ELSE Spoken
  <1>1. /\ feed \in Seq(Items) /\ Len(feed) \in Nat /\ Len(job.feed) \in Nat /\ job.feed \in Seq(Items)
        /\ Count \in 0 .. Len(job.feed) /\ Len(feed) <= Len(job.feed)
    BY FeedFacts DEF FeedInv
  <1>2. Tail(feed) \in Seq(Items) /\ Len(Tail(feed)) = Len(feed) - 1 /\ Head(feed) \in Items
        /\ \A i \in 1 .. Len(Tail(feed)) : Tail(feed)[i] = feed[i + 1]
    BY <1>1, HeadTailProperties
  <1>3. Len(feed) > 0 /\ Head(feed) = feed[1]
    BY <1>1, EmptySeq
  <1>4. Count' = Count + 1 /\ Count' \in 1 .. Len(job.feed)
    BY <1>1, <1>2, <1>3 DEF Count
  <1>5. Head(feed) = job.feed[Count']
    BY <1>1, <1>3, <1>4 DEF FeedInv
  <1>6. FeedInv'
    <2>1. ASSUME NEW i \in 1 .. Len(feed') PROVE feed'[i] = job'.feed[Count' + i]
      <3>1. i \in Nat /\ i + 1 \in 1 .. Len(feed) /\ i \in 1 .. Len(Tail(feed))
        BY <1>1, <1>2, <1>3
      <3>2. feed'[i] = feed[i + 1] /\ feed[i + 1] = job.feed[Count + (i + 1)]
        BY <3>1, <1>2 DEF FeedInv
      <3>3. Count + (i + 1) = Count' + i
        BY <3>1, <1>1, <1>4
      <3> QED
        BY <3>2, <3>3
    <2>2. job' \in Jobs
      BY DEF FeedInv
    <2>3. feed' \in Seq(Items) /\ Len(feed') <= Len(job'.feed)
      BY <1>1, <1>2, <1>3
    <2> QED
      BY <2>1, <2>2, <2>3 DEF FeedInv
  <1>7. Heard' = Heard \cup HeardIn(Count')
    <2>1. \A i : HeardIn(i)' = HeardIn(i)
      BY DEF HeardIn
    <2>2. Taken' = Taken \cup {Count'}
      BY <1>1, <1>4 DEF Taken, Count
    <2>3. Heard' = UNION {HeardIn(i)' : i \in Taken'} /\ Heard = UNION {HeardIn(i) : i \in Taken}
      BY DEF Heard
    <2> HIDE DEF HeardIn, Taken
    <2> QED
      BY <2>1, <2>2, <2>3
  <1>8. Spoken' = IF Head(feed).kind \in Texts THEN Spoken \o Typed(Head(feed), Stride * Count) ELSE Spoken
    <2>1. Spoken' = TypedUpTo(job.feed)[Count'] /\ Count' - 1 = Count
      BY <1>1, <1>4 DEF Spoken
    <2> QED
      BY <1>1, <1>4, <1>5, <2>1, TypedShape DEF Spoken
  <1> QED
    BY <1>2, <1>4, <1>5, <1>6, <1>7, <1>8

\* What was spoken grows at its end.
LEMMA TextGrows ==
  ASSUME NEW spoken \in Seq(Characters), NEW more \in Seq(Characters), NEW raw,
         NEW a \in 0 .. Len(spoken), raw = Suffix(spoken, a)
  PROVE  /\ a \in 0 .. Len(spoken \o more) /\ raw \o more = Suffix(spoken \o more, a)
         /\ raw \in Seq(Characters) /\ raw \o more \in Seq(Characters)
         /\ Len(raw \o more) = Len(raw) + Len(more) /\ Len(raw) \in Nat /\ Len(more) \in Nat
         /\ \A k \in 0 .. Len(raw) : SubSeq(raw \o more, 1, k) = SubSeq(raw, 1, k)
  <1>1. raw = Suffix(spoken, a)
    OBVIOUS
  <1> DEFINE all == spoken \o more
  <1>2. raw \in Seq(Characters) /\ Len(raw) = Len(spoken) - a /\ Len(spoken) \in Nat /\ Len(more) \in Nat /\ Len(raw) \in Nat
        /\ \A i \in 1 .. Len(raw) : raw[i] = spoken[a + i]
    <2>1. raw \in Seq(Characters) /\ Len(raw) = Len(spoken) - a /\ Len(spoken) \in Nat /\ Len(more) \in Nat
      BY <1>1, PlacesOfParts, LenProperties
    <2>2. \A i \in 1 .. Len(raw) : raw[i] = spoken[a + i]
      <3>1. \A i \in a + 1 .. Len(spoken) : spoken[i] \in Characters
        BY <2>1, LenProperties
      <3>2. raw = SubSeq(spoken, a + 1, Len(spoken))
        BY <1>1 DEF Suffix
      <3>3. \A i \in 1 .. Len(spoken) - (a + 1) + 1 : raw[i] = spoken[(a + 1) + i - 1]
        BY <3>1, <3>2, <2>1, SubSeqProperties
      <3> QED
        BY <2>1, <3>3
    <2> QED
      BY <2>1, <2>2, LenProperties
  <1>3. /\ all \in Seq(Characters) /\ Len(all) = Len(spoken) + Len(more)
        /\ \A i \in 1 .. Len(spoken) + Len(more) : all[i] = IF i <= Len(spoken) THEN spoken[i] ELSE more[i - Len(spoken)]
    BY ConcatProperties
  <1>4. /\ raw \o more \in Seq(Characters) /\ Len(raw \o more) = Len(raw) + Len(more)
        /\ \A i \in 1 .. Len(raw) + Len(more) : (raw \o more)[i] = IF i <= Len(raw) THEN raw[i] ELSE more[i - Len(raw)]
    BY <1>2, ConcatProperties
  <1> HIDE DEF all
  <1>5. Suffix(all, a) \in Seq(Characters) /\ Len(Suffix(all, a)) = Len(all) - a
    <2>1. a \in 0 .. Len(all)
      BY <1>2, <1>3
    <2> QED
      BY <1>3, <2>1, PlacesOfParts
  <1>6. ASSUME NEW i \in 1 .. Len(raw) + Len(more) PROVE Suffix(all, a)[i] = (raw \o more)[i]
    <2>1. Suffix(all, a)[i] = all[a + i]
      <3>1. \A k \in a + 1 .. Len(all) : all[k] \in Characters
        BY <1>2, <1>3, LenProperties
      <3>2. i \in 1 .. Len(all) - (a + 1) + 1 /\ a + i = (a + 1) + i - 1
        BY <1>2, <1>3
      <3>3. SubSeq(all, a + 1, Len(all))[i] = all[(a + 1) + i - 1]
        BY <3>1, <3>2, <1>2, <1>3, SubSeqProperties
      <3> QED
        BY <3>2, <3>3 DEF Suffix
    <2>2. a + i \in 1 .. Len(spoken) + Len(more)
      BY <1>2
    <2>3. CASE i <= Len(raw)
      <3>1. a + i <= Len(spoken) /\ i \in 1 .. Len(raw)
        BY <1>2, <2>3
      <3>2. all[a + i] = spoken[a + i]
        BY <3>1, <2>2, <1>3
      <3>3. raw[i] = spoken[a + i] /\ (raw \o more)[i] = raw[i]
        BY <3>1, <1>2, <1>4
      <3> QED
        BY <2>1, <3>2, <3>3
    <2>4. CASE ~(i <= Len(raw))
      <3>1. ~(a + i <= Len(spoken)) /\ a + i - Len(spoken) = i - Len(raw)
        BY <1>2, <2>4
      <3> QED
        BY <3>1, <2>1, <2>2, <2>4, <1>3, <1>4
    <2> QED
      BY <2>3, <2>4
  <1>7. Suffix(all, a) = raw \o more
    <2>1. Len(Suffix(all, a)) = Len(raw \o more) /\ Len(raw \o more) = Len(raw) + Len(more)
      BY <1>2, <1>3, <1>4, <1>5
    <2> QED
      BY <1>4, <1>5, <1>6, <2>1, SeqEqual
  <1>8. ASSUME NEW k \in 0 .. Len(raw) PROVE SubSeq(raw \o more, 1, k) = SubSeq(raw, 1, k)
    <2>1. CASE k = 0
      <3>1. SubSeq(raw \o more, 1, k) = <<>> /\ SubSeq(raw, 1, k) = <<>>
        BY <2>1, SubSeqEmpty
      <3> QED
        BY <3>1
    <2>2. CASE k # 0
      <3>1. 1 \in 1 .. Len(raw) /\ k \in 1 .. Len(raw)
        BY <2>2, <1>2
      <3> QED
        BY <3>1, <1>2, SubSeqOfConcat1
    <2> QED
      BY <2>1, <2>2
  <1>9. a \in 0 .. Len(all)
    BY <1>2, <1>3
  <1> QED
    BY <1>2, <1>4, <1>7, <1>8, <1>9 DEF all

LEMMA FreshOk ==
  ASSUME NEW spoken \in Seq(Characters), NEW heard, NEW count \in Nat
  PROVE  TextOk(Fresh, spoken, heard, count)
  <1>1. Fresh \in Segments
    <2>1. <<>> \in Seq(Characters) /\ <<>> \in Seq(Nat) /\ <<>> \in Chunks
      BY EmptySeq DEF Chunks
    <2> QED
      BY <2>1 DEF Fresh, Segments
  <1>2. Len(spoken) \in 0 .. Len(spoken) /\ Fresh.raw = Suffix(spoken, Len(spoken))
    <2>1. Len(spoken) \in Nat
      BY LenProperties
    <2>2. SubSeq(spoken, Len(spoken) + 1, Len(spoken)) = <<>>
      BY <2>1, SubSeqEmpty
    <2> QED
      BY <2>1, <2>2 DEF Fresh, Suffix
  <1>3. /\ Fresh.raw = <<>> /\ Fresh.ids = <<>> /\ Fresh.shown = <<>> /\ Fresh.offset = 0 /\ Fresh.unedited = 0
    BY DEF Fresh
  <1>4. Len(<<>>) = 0 /\ DOMAIN <<>> = {}
    BY EmptySeq
  <1> HIDE DEF Fresh
  <1>5. Fresh.offset <= Len(Fresh.raw) /\ Fresh.unedited <= Len(Fresh.raw) /\ Len(Fresh.ids) = Len(Fresh.shown)
    BY <1>3, <1>4
  <1>6. (\A i \in DOMAIN Fresh.ids : Fresh.ids[i] \in 0 .. count) /\ PlacesIn(Fresh.raw) \subseteq heard
    BY <1>3, <1>4, PlacesOfNothing
  <1> QED
    BY <1>1, <1>2, <1>5, <1>6 DEF TextOk

\* A publish is decided, or it is too soon for one.
LEMMA PublishDecided ==
  ASSUME job.realtime \in BOOLEAN, NEW s, Begun(s), NEW force \in BOOLEAN, NEW after, Publish(s, force, after)
  PROVE  \E o : /\ Decided(o, s, force) /\ Continue(o, force, after)
                /\ \A S : Visibly(s, S) => Revealing(o, s, force, S)
  <1>1. CASE Continue(Published(s, force), force, after)
    BY <1>1, PublishedDecided
  <1>2. CASE ~force /\ Continue(Return(s), force, after)
    <2>1. Decided(Return(s), s, force) /\ Return(s).seg = s
      BY ReturnDecided, BegunFollows
    <2>2. \A S : Visibly(s, S) => Revealing(Return(s), s, force, S)
      BY <1>2, <2>1 DEF Visibly, Revealing
    <2> QED
      BY <1>2, <2>1, <2>2
  <1> QED
    BY <1>1, <1>2 DEF Publish

\* After it, every part of the invariant holds.
LEMMA ContinueSays ==
  ASSUME FeedInv', SentInv', outcome' = "running",
         NEW s, TextOk(s, Spoken', Heard', Len(screen')), Begun(s),
         NEW force \in BOOLEAN, NEW after \in {"pull", "break", "part", "end"}, force <=> after # "pull",
         NEW o, Decided(o, s, force), Continue(o, force, after),
         after = "part" => Count' > 0 /\ job.feed'[Count'].kind = "part",
         after = "end" => feed' = <<>>
  PROVE  SaidInv'
  <1>1. /\ pc' = o.pc /\ seg' = o.seg /\ pc' \in Publishing
        /\ task' = [force |-> force, after |-> after, plan |-> o.plan, queue |-> Queue(o), changed |-> FALSE]
    BY DEF Continue, Decided
  <1>2. /\ o.seg \in Segments /\ o.seg.raw = s.raw /\ o.seg.ids = s.ids /\ o.seg.shown = s.shown
        /\ o.seg.unedited = s.unedited /\ o.seg.offset <= Len(s.raw)
    BY DEF Decided
  <1>3. TextOk(seg', Spoken', Heard', Len(screen'))
    BY <1>1, <1>2 DEF TextOk
  <1>4. /\ task'.force = force /\ task'.after = after /\ task'.plan = o.plan /\ task'.queue = Queue(o)
        /\ task' \in Publishes
    BY <1>1 DEF Decided, Publishes
  <1> HIDE DEF Queue
  <1>5. TaskInv'
    <2>1. task' \in Publishes /\ (task'.force <=> task'.after # "pull")
      BY <1>4
    <2>2. pc' \in Running /\ pc' \notin {"pull", "part"}
      BY <1>1 DEF Publishing, Running
    <2>3. pc' = "return" => task'.queue = <<>>
      BY <1>1, <1>4 DEF Decided
    <2>4. pc' = "edit" => /\ ~seg'.failed /\ Len(seg'.shown) <= Len(task'.plan)
                          /\ CoverOf(task'.plan) = PlacesIn(seg'.raw) /\ task'.queue = <<>>
      BY <1>1, <1>4 DEF Decided
    <2>5. seg'.final => pc' \in {"return", "resend"} /\ task'.force
      BY <1>1, <1>4 DEF Decided
    <2>6. CoverOf(task'.queue) \subseteq PlacesIn(seg'.raw) /\ CoverOf(task'.plan) \subseteq PlacesIn(seg'.raw)
      BY <1>1, <1>2, <1>4 DEF Decided
    <2>7. task'.after = "part" => Count' > 0 /\ job.feed'[Count'].kind = "part"
      BY <1>4
    <2>8. task'.after = "end" => feed' = <<>>
      BY <1>4
    <2> QED
      BY <2>1, <2>2, <2>3, <2>4, <2>5, <2>6, <2>7, <2>8 DEF TaskInv
  <1> QED
    BY <1>3, <1>5 DEF SaidInv

\* What a step that leaves the feed alone, or takes an item, does to what was said.
LEMMA SameFeed ==
  ASSUME FeedInv, UNCHANGED <<job, feed>>
  PROVE  FeedInv' /\ Count' = Count /\ Spoken' = Spoken /\ Heard' = Heard
  <1>1. FeedInv' /\ Count' = Count
    BY DEF FeedInv, Count
  <1>2. Spoken' = Spoken
    BY <1>1 DEF Spoken
  <1>3. Heard' = Heard
    <2>1. \A i : HeardIn(i)' = HeardIn(i)
      BY DEF HeardIn
    <2>2. Taken' = Taken
      BY DEF Taken
    <2>3. Heard' = UNION {HeardIn(i)' : i \in Taken'} /\ Heard = UNION {HeardIn(i) : i \in Taken}
      BY DEF Heard
    <2> HIDE DEF HeardIn, Taken
    <2> QED
      BY <2>1, <2>2, <2>3
  <1> QED
    BY <1>1, <1>2, <1>3

LEMMA HeardMore ==
  ASSUME NEW s, NEW spoken, NEW heard, NEW more, NEW count, TextOk(s, spoken, heard, count), heard \subseteq more
  PROVE  TextOk(s, spoken, more, count)
  BY DEF TextOk

LEMMA SentKept ==
  ASSUME SentInv, UNCHANGED <<screen, superSent>>, Heard \subseteq Heard', quote' \in Quotes, quote'.count = quote.count
  PROVE  SentInv'
  BY DEF SentInv, ScreenOk

\* The text of a pulled item, before it is published.
Longer == [seg EXCEPT !.raw = @ \o Typed(Head(feed), Base)]
LEMMA PulledText ==
  ASSUME SaidInv, pc = "pull", Kind \in Texts, feed' = Tail(feed), job' = job, screen' = screen
  PROVE  /\ FeedInv' /\ Heard \subseteq Heard' /\ feed # <<>>
         /\ TextOk(Longer, Spoken', Heard', Len(screen')) /\ Begun(Longer)
         /\ seg \in Segments /\ ~Longer.final
         /\ Longer.ids = seg.ids /\ Longer.shown = seg.shown /\ Longer.failed = seg.failed
         /\ Longer.offset = seg.offset /\ Longer.unedited = seg.unedited
         /\ PartUpto(Longer, seg.offset) = PartUpto(seg, seg.offset)
         /\ PartUpto(Longer, seg.unedited) = PartUpto(seg, seg.unedited)
         /\ Heard' = Heard \cup HeardIn(Count')
         /\ PlacesIn(Longer.raw) = PlacesIn(seg.raw) \cup HeardIn(Count')
  <1> DEFINE more == Typed(Head(feed), Base)
  <1>1. feed # <<>> /\ Head(feed).kind \in Texts
    BY DEF Kind, Texts
  <1>2. /\ FeedInv' /\ Count' = Count + 1 /\ Count' \in 1 .. Len(job.feed)
        /\ Head(feed) = job.feed[Count'] /\ Head(feed) \in Items
        /\ Heard' = Heard \cup HeardIn(Count')
        /\ Spoken' = Spoken \o Typed(Head(feed), Stride * Count)
    BY <1>1, TakeItem DEF SaidInv
  <1>3. /\ Count \in Nat /\ Base = Stride * Count /\ Base \in Nat /\ Count' - 1 = Count
        /\ Spoken \in Seq(Characters)
    <2>1. Count \in 0 .. Len(job.feed) /\ Len(job.feed) \in Nat /\ Spoken \in Seq(Characters)
      BY FeedFacts DEF SaidInv
    <2>2. Base = Stride * Count
      BY DEF Base, Count
    <2> HIDE DEF Count
    <2> QED
      BY <1>2, <2>1, <2>2 DEF Stride
  <1>4. more \in Seq(Characters)
    BY <1>2, <1>3, TypedIsText
  <1>5. HeardIn(Count') = PlacesIn(more)
    <2>1. job.feed[Count'].kind \in Texts
      BY <1>1, <1>2
    <2>2. HeardIn(Count') = PlacesIn(Typed(job.feed[Count'], Stride * (Count' - 1)))
      BY <2>1 DEF HeardIn, Texts
    <2> QED
      BY <2>2, <1>2, <1>3
  <1>6. /\ seg \in Segments /\ seg.offset \in 0 .. Len(seg.raw) /\ seg.unedited \in 0 .. Len(seg.raw)
        /\ Len(seg.ids) = Len(seg.shown) /\ \A i \in DOMAIN seg.ids : seg.ids[i] \in 0 .. Len(screen)
        /\ \E a \in 0 .. Len(Spoken) : seg.raw = Suffix(Spoken, a)
        /\ PlacesIn(seg.raw) \subseteq Heard
    <2>1. TextOk(seg, Spoken, Heard, Len(screen))
      BY DEF SaidInv
    <2>2. seg.raw \in Seq(Characters) /\ seg.offset \in Nat /\ seg.unedited \in Nat
      BY <2>1 DEF TextOk, Segments
    <2>3. Len(seg.raw) \in Nat
      BY <2>2, LenProperties
    <2> QED
      BY <2>1, <2>2, <2>3 DEF TextOk
  <1>7. /\ \E a \in 0 .. Len(Spoken') : seg.raw \o more = Suffix(Spoken', a)
        /\ seg.raw \in Seq(Characters) /\ seg.raw \o more \in Seq(Characters)
        /\ Len(seg.raw \o more) = Len(seg.raw) + Len(more) /\ Len(seg.raw) \in Nat /\ Len(more) \in Nat
        /\ \A k \in 0 .. Len(seg.raw) : SubSeq(seg.raw \o more, 1, k) = SubSeq(seg.raw, 1, k)
    <2>1. Spoken' = Spoken \o more
      BY <1>2, <1>3
    <2> HIDE DEF more
    <2>3. PICK a \in 0 .. Len(Spoken) : seg.raw = Suffix(Spoken, a)
      BY <1>6
    <2>2. /\ a \in 0 .. Len(Spoken \o more) /\ seg.raw \o more = Suffix(Spoken \o more, a)
          /\ seg.raw \in Seq(Characters) /\ seg.raw \o more \in Seq(Characters)
          /\ Len(seg.raw \o more) = Len(seg.raw) + Len(more) /\ Len(seg.raw) \in Nat /\ Len(more) \in Nat
          /\ \A k \in 0 .. Len(seg.raw) : SubSeq(seg.raw \o more, 1, k) = SubSeq(seg.raw, 1, k)
      BY <1>3, <1>4, <2>3, TextGrows
    <2> QED
      BY <2>1, <2>2
  <1>8. PlacesIn(seg.raw \o more) = PlacesIn(seg.raw) \cup PlacesIn(more)
    BY <1>4, <1>7, PlacesOfConcat
  <1> HIDE DEF more
  <1>9. /\ Longer \in Segments /\ Longer.raw = seg.raw \o more /\ Longer.ids = seg.ids /\ Longer.shown = seg.shown
        /\ Longer.failed = seg.failed /\ Longer.offset = seg.offset /\ Longer.unedited = seg.unedited
        /\ Longer.final = seg.final
    BY <1>6, <1>7 DEF Longer, Segments, more
  <1>10. ~seg.final
    BY DEF SaidInv, TaskInv, Running
  <1>11. TextOk(Longer, Spoken', Heard', Len(screen'))
    <2>1. Longer.offset <= Len(Longer.raw) /\ Longer.unedited <= Len(Longer.raw)
      BY <1>6, <1>7, <1>9
    <2>2. PlacesIn(Longer.raw) \subseteq Heard'
      BY <1>2, <1>5, <1>6, <1>8, <1>9
    <2> QED
      BY <2>1, <2>2, <1>6, <1>7, <1>9 DEF TextOk
  <1>12. Begun(Longer)
    <2>1. PICK a \in 0 .. Len(Spoken') : Longer.raw = Suffix(Spoken', a)
      BY <1>11 DEF TextOk
    <2>2. Spoken' = TypedUpTo(job.feed)[Count'] /\ Count' \in 0 .. Len(job.feed) /\ job \in Jobs
      BY <1>2 DEF Spoken, FeedInv
    <2>3. Showable(Longer.raw)
      BY <2>1, <2>2, SaidIsShowable
    <2> QED
      BY <2>3, <1>9, <1>10, <1>11 DEF Begun, TextOk
  <1> QED
    BY <1>1, <1>2, <1>5, <1>6, <1>7, <1>8, <1>9, <1>10, <1>11, <1>12 DEF PartUpto

LEMMA PullTextSays ==
  ASSUME SaidInv, PullText PROVE SaidInv'
  <1>1. /\ pc = "pull" /\ Kind \in Texts /\ feed' = Tail(feed)
        /\ UNCHANGED <<job, quote, screen, superSent, outcome>>
        /\ IF Head(feed).ends THEN Publish(Longer, FALSE, "pull")
           ELSE seg' = Longer /\ UNCHANGED <<pc, task>>
    BY DEF PullText, Longer
  <1>2. /\ FeedInv' /\ Heard \subseteq Heard'
        /\ TextOk(Longer, Spoken', Heard', Len(screen')) /\ Begun(Longer)
    BY <1>1, PulledText
  <1>3. SentInv'
    BY <1>1, <1>2, SentKept DEF SaidInv, SentInv
  <1>4. outcome = "running" /\ task = NoTask
    BY <1>1 DEF SaidInv, TaskInv, Running
  <1>5. CASE Head(feed).ends
    <2>1. job.realtime \in BOOLEAN
      BY FeedFacts DEF SaidInv
    <2>2. PICK o : Decided(o, Longer, FALSE) /\ Continue(o, FALSE, "pull")
      BY <1>1, <1>2, <1>5, <2>1, PublishDecided
    <2> QED
      BY <1>1, <1>2, <1>3, <1>4, <2>2, ContinueSays
  <1>6. CASE ~Head(feed).ends
    <2>1. seg' = Longer /\ pc' = "pull" /\ task' = NoTask /\ outcome' = "running"
      BY <1>1, <1>4, <1>6
    <2>2. TaskInv'
      <3>1. ~seg'.final
        BY <2>1, <1>2 DEF Begun
      <3>2. NoTask \in Publishes /\ ~NoTask.force /\ NoTask.after = "pull" /\ NoTask.queue = <<>> /\ NoTask.plan = <<>>
        <4>1. <<>> \in Chunks
          BY EmptySeq DEF Chunks
        <4> QED
          BY <4>1 DEF NoTask, Publishes
      <3> QED
        BY <2>1, <3>1, <3>2, PlacesOfNothing DEF TaskInv, Running
    <2> QED
      BY <1>2, <1>3, <2>1, <2>2 DEF SaidInv
  <1> QED
    BY <1>5, <1>6

LEMMA PullReplySays ==
  ASSUME SaidInv, PullReply PROVE SaidInv'
  <1>1. /\ pc = "pull" /\ Kind = "reply" /\ feed' = Tail(feed)
        /\ quote' = [quote EXCEPT !.has = @ \/ quote.count = 0]
        /\ UNCHANGED <<job, seg, screen, superSent, pc, task, outcome>>
    BY DEF PullReply
  <1>2. feed # <<>> /\ Head(feed).kind = "reply" /\ "reply" \notin Texts
    BY <1>1 DEF Kind, Texts
  <1>3. FeedInv' /\ Heard \subseteq Heard' /\ Spoken' = Spoken
    BY <1>1, <1>2, TakeItem DEF SaidInv
  <1>4. TextOk(seg', Spoken', Heard', Len(screen'))
    BY <1>1, <1>3, HeardMore DEF SaidInv
  <1>5. SentInv'
    <2>1. quote' \in Quotes /\ quote'.count = quote.count
      BY <1>1 DEF SaidInv, SentInv, Quotes
    <2> QED
      BY <1>1, <1>3, <2>1, SentKept DEF SaidInv
  <1>6. TaskInv'
    <2>1. task = NoTask /\ NoTask.after = "pull"
      BY <1>1 DEF SaidInv, TaskInv, NoTask
    <2> QED
      BY <1>1, <2>1 DEF SaidInv, TaskInv
  <1> QED
    BY <1>3, <1>4, <1>5, <1>6 DEF SaidInv

LEMMA ForcedSays ==
  ASSUME SaidInv, Forced PROVE SaidInv'
  <1>1. /\ pc = "pull" /\ Kind \in {"break", "part", ""} /\ feed' = IF Kind = "" THEN feed ELSE Tail(feed)
        /\ Publish(seg, TRUE, After)
        /\ UNCHANGED <<job, quote, screen, superSent, outcome>>
    BY DEF Forced
  <1>2. outcome = "running" /\ ~seg.final /\ TextOk(seg, Spoken, Heard, Len(screen)) /\ FeedInv
    BY <1>1 DEF SaidInv, TaskInv, Running
  <1>3. FeedInv' /\ Heard \subseteq Heard' /\ Spoken' = Spoken
        /\ (After = "part" => Count' > 0 /\ job.feed'[Count'].kind = "part")
        /\ (After = "end" => feed' = <<>>)
    <2>1. CASE Kind = ""
      <3>1. feed = <<>>
        <4>1. feed # <<>> => Head(feed).kind # ""
          <5>1. feed \in Seq(Items)
            BY DEF SaidInv, FeedInv
          <5>2. feed # <<>> => Head(feed) \in Items
            BY <5>1, HeadTailProperties
          <5> QED
            BY <5>2 DEF Items, Texts
        <4> QED
          BY <2>1, <4>1 DEF Kind
      <3>2. After = "end"
        BY <2>1 DEF After
      <3> QED
        BY <1>1, <1>2, <2>1, <3>1, <3>2, SameFeed
    <2>2. CASE Kind # ""
      <3>1. feed # <<>> /\ Head(feed).kind = Kind /\ Kind \notin Texts
        BY <1>1, <2>2 DEF Kind, Texts
      <3>2. FeedInv' /\ Heard \subseteq Heard' /\ Spoken' = Spoken /\ Head(feed) = job.feed[Count']
            /\ Count' \in 1 .. Len(job.feed)
        BY <1>1, <2>2, <3>1, TakeItem DEF SaidInv
      <3>3. After # "end" /\ (After = "part" => Kind = "part")
        BY <1>1, <2>2 DEF After
      <3>4. Count' > 0
        <4>1. Len(job.feed) \in Nat
          BY FeedFacts DEF SaidInv
        <4> QED
          BY <3>2, <4>1
      <3>5. After = "part" => job.feed'[Count'].kind = "part"
        BY <1>1, <3>1, <3>2, <3>3
      <3> QED
        BY <3>2, <3>3, <3>4, <3>5
    <2> QED
      BY <2>1, <2>2
  <1>4. SentInv'
    BY <1>1, <1>3, SentKept DEF SaidInv, SentInv
  <1>5. TextOk(seg, Spoken', Heard', Len(screen')) /\ Begun(seg)
    BY <1>1, <1>2, <1>3, HeardMore, TextShowable
  <1>6. After \in {"pull", "break", "part", "end"} /\ (TRUE <=> After # "pull")
    BY DEF After
  <1>7. job.realtime \in BOOLEAN
    BY FeedFacts DEF SaidInv
  <1>8. PICK o : Decided(o, seg, TRUE) /\ Continue(o, TRUE, After)
    BY <1>1, <1>5, <1>7, PublishDecided
  <1> QED
    BY <1>1, <1>2, <1>3, <1>4, <1>5, <1>6, <1>8, ContinueSays

\* A message is posted.
Message(n, chars) == [n |-> n, chars |-> chars, quoted |-> quote.has /\ ~quote.consumed]
LEMMA PostSays ==
  ASSUME SentInv, Heard' = Heard, NEW n \in Nat, NEW chars \in Seq(Characters), Post(n, chars),
         (IF n = 0 THEN PlacesIn(chars) ELSE {n}) \subseteq Heard
  PROVE  /\ SentInv' /\ screen' # <<>> /\ superSent' = TRUE
         /\ screen \in Seq(Messages) /\ Len(screen) \in Nat /\ Len(screen') = Len(screen) + 1
         /\ DOMAIN screen = 1 .. Len(screen) /\ DOMAIN screen' = 1 .. Len(screen) + 1
         /\ \A i \in 1 .. Len(screen) : screen'[i] = screen[i]
         /\ screen'[Len(screen) + 1].n = n /\ screen'[Len(screen) + 1].chars = chars
         /\ SeenIn(screen'[Len(screen) + 1]) = IF n = 0 THEN PlacesIn(chars) ELSE {n}
  <1> DEFINE m == Message(n, chars)
  <1>1. screen' = Append(screen, m) /\ superSent' = TRUE
        /\ quote' = [quote EXCEPT !.consumed = @ \/ quote.has, !.count = @ + 1]
    BY DEF Post, Message
  <1>2. m \in Messages /\ m.n = n /\ m.chars = chars
    BY DEF Message, Messages
  <1> HIDE DEF m
  <1>3. screen \in Seq(Messages) /\ quote \in Quotes /\ quote.count = Len(screen)
        /\ \A i \in DOMAIN screen : SeenIn(screen[i]) \subseteq Heard
    BY DEF SentInv, ScreenOk
  <1>4. /\ screen' \in Seq(Messages) /\ screen' # <<>> /\ Len(screen') = Len(screen) + 1
        /\ (\A i \in 1 .. Len(screen) : screen'[i] = screen[i]) /\ screen'[Len(screen) + 1] = m
    BY <1>1, <1>2, <1>3, AppendProperties
  <1>5. Len(screen) \in Nat /\ DOMAIN screen = 1 .. Len(screen) /\ DOMAIN screen' = 1 .. Len(screen) + 1
    BY <1>3, <1>4, LenProperties
  <1>6. SeenIn(m) = IF n = 0 THEN PlacesIn(chars) ELSE {n}
    BY <1>2 DEF SeenIn
  <1>7. ScreenOk(screen', Heard')
    <2>1. ASSUME NEW i \in DOMAIN screen' PROVE SeenIn(screen'[i]) \subseteq Heard
      <3>1. i \in 1 .. Len(screen) \/ i = Len(screen) + 1
        BY <1>5
      <3> QED
        BY <3>1, <1>3, <1>4, <1>5, <1>6
    <2> QED
      BY <2>1, <1>4 DEF ScreenOk
  <1>8. quote' \in Quotes /\ quote'.count = Len(screen')
    <2>1. quote.count \in Nat /\ quote.count + 1 \in Nat
      BY <1>3 DEF Quotes
    <2> QED
      BY <2>1, <1>1, <1>3, <1>4 DEF Quotes
  <1>9. SentInv'
    BY <1>1, <1>4, <1>7, <1>8 DEF SentInv
  <1> QED
    BY <1>1, <1>2, <1>3, <1>4, <1>5, <1>6, <1>9

LEMMA ShownAfter ==
  ASSUME NEW plan \in Chunks, NEW shown \in Chunks, NEW u \in 1 .. Len(plan), u <= Len(shown) + 1
  PROVE  LET new == SubSeq(plan, 1, u) \o Suffix(shown, u)
         IN  /\ new \in Chunks /\ Len(new) = IF u <= Len(shown) THEN Len(shown) ELSE u
             /\ \A k \in 1 .. Len(new) : new[k] = IF k <= u THEN plan[k] ELSE shown[k]
  <1> DEFINE S == Seq(Characters)
             new == SubSeq(plan, 1, u) \o Suffix(shown, u)
  <1>1. plan \in Seq(S) /\ shown \in Seq(S) /\ Len(plan) \in Nat /\ Len(shown) \in Nat /\ u \in Nat
        /\ (\A k \in 1 .. Len(plan) : plan[k] \in S) /\ (\A k \in 1 .. Len(shown) : shown[k] \in S)
    BY LenProperties DEF Chunks
  <1> HIDE DEF S
  <1>2. SubSeq(plan, 1, u) \in Seq(S) /\ Len(SubSeq(plan, 1, u)) = u
        /\ \A k \in 1 .. u : SubSeq(plan, 1, u)[k] = plan[k]
    <2>1. \A k \in 1 .. u : plan[k] \in S
      BY <1>1
    <2>2. /\ SubSeq(plan, 1, u) \in Seq(S) /\ Len(SubSeq(plan, 1, u)) = IF 1 <= u THEN u - 1 + 1 ELSE 0
          /\ \A k \in 1 .. u - 1 + 1 : SubSeq(plan, 1, u)[k] = plan[1 + k - 1]
      BY <1>1, <2>1, SubSeqProperties
    <2> QED
      BY <1>1, <2>2
  <1>3. Suffix(shown, u) \in Seq(S) /\ Len(Suffix(shown, u)) = (IF u <= Len(shown) THEN Len(shown) - u ELSE 0)
        /\ \A k \in 1 .. Len(shown) - u : Suffix(shown, u)[k] = shown[u + k]
    <2>1. \A k \in u + 1 .. Len(shown) : shown[k] \in S
      BY <1>1
    <2>2. /\ SubSeq(shown, u + 1, Len(shown)) \in Seq(S)
          /\ Len(SubSeq(shown, u + 1, Len(shown))) = IF u + 1 <= Len(shown) THEN Len(shown) - (u + 1) + 1 ELSE 0
          /\ \A k \in 1 .. Len(shown) - (u + 1) + 1 : SubSeq(shown, u + 1, Len(shown))[k] = shown[(u + 1) + k - 1]
      BY <1>1, <2>1, SubSeqProperties
    <2> QED
      BY <1>1, <2>2 DEF Suffix
  <1> DEFINE a == SubSeq(plan, 1, u)
             b == Suffix(shown, u)
  <1>4. /\ new \in Seq(S) /\ Len(new) = Len(a) + Len(b)
        /\ \A i \in 1 .. Len(a) + Len(b) : new[i] = IF i <= Len(a) THEN a[i] ELSE b[i - Len(a)]
    BY <1>2, <1>3, ConcatProperties
  <1> HIDE DEF new, a, b
  <1>5. Len(a) = u /\ Len(b) = (IF u <= Len(shown) THEN Len(shown) - u ELSE 0)
        /\ (\A k \in 1 .. u : a[k] = plan[k]) /\ (\A k \in 1 .. Len(shown) - u : b[k] = shown[u + k])
    BY <1>2, <1>3 DEF a, b
  <1>6. Len(new) = IF u <= Len(shown) THEN Len(shown) ELSE u
    BY <1>1, <1>4, <1>5
  <1>7. ASSUME NEW k \in 1 .. Len(new) PROVE new[k] = IF k <= u THEN plan[k] ELSE shown[k]
    <2>1. k \in 1 .. Len(a) + Len(b) /\ k \in Nat
      BY <1>1, <1>4, <1>6
    <2>2. CASE k <= u
      BY <2>1, <2>2, <1>4, <1>5
    <2>3. CASE ~(k <= u)
      <3>1. k - u \in 1 .. Len(shown) - u /\ u + (k - u) = k
        BY <2>1, <2>3, <1>1, <1>5
      <3> QED
        BY <3>1, <2>1, <2>3, <1>4, <1>5
    <2> QED
      BY <2>2, <2>3
  <1>8. new \in Chunks
    BY <1>4 DEF S, Chunks
  <1> QED
    BY <1>6, <1>7, <1>8 DEF new

\* The next chunk to be edited or sent.
LEMMA NextChunk ==
  ASSUME SaidInv, pc = "edit", Differing # {}
  PROVE  /\ Upcoming \in Differing /\ Upcoming \in 1 .. Len(task.plan)
         /\ \A k \in 1 .. Upcoming - 1 : k <= Len(seg.shown) /\ Glyphs(task.plan[k]) = Glyphs(seg.shown[k])
         /\ Upcoming <= Len(seg.shown) + 1
         /\ task.plan[Upcoming] \in Seq(Characters) /\ PlacesIn(task.plan[Upcoming]) \subseteq Heard
         /\ Len(seg.shown) \in Nat /\ Len(task.plan) \in Nat /\ Len(seg.ids) = Len(seg.shown)
         /\ task.plan \in Chunks /\ seg.shown \in Chunks /\ seg \in Segments /\ ~seg.failed
         /\ Len(seg.shown) <= Len(task.plan)
  <1>1. /\ task.plan \in Chunks /\ seg.shown \in Chunks /\ seg \in Segments /\ Len(seg.ids) = Len(seg.shown) /\ ~seg.failed
        /\ Len(seg.shown) <= Len(task.plan)
        /\ CoverOf(task.plan) \subseteq Heard
    BY DEF SaidInv, TaskInv, TextOk, Publishes, Segments
  <1>2. /\ DOMAIN task.plan = 1 .. Len(task.plan) /\ Len(task.plan) \in Nat /\ Len(seg.shown) \in Nat
        /\ \A k \in 1 .. Len(task.plan) : task.plan[k] \in Seq(Characters)
    BY <1>1, LenProperties DEF Chunks
  <1>3. Differing \subseteq 1 .. Len(task.plan)
    BY <1>2 DEF Differing
  <1>4. Upcoming \in Differing /\ \A j \in Differing : Upcoming <= j
    <2>1. Differing \subseteq Nat
      BY <1>2, <1>3
    <2>2. \E i \in Differing : \A j \in Differing : i <= j
      BY <2>1, LeastExists
    <2> HIDE DEF Differing
    <2> QED
      BY <2>2 DEF Upcoming
  <1> HIDE DEF Upcoming
  <1>5. ASSUME NEW k \in 1 .. Upcoming - 1
        PROVE  k <= Len(seg.shown) /\ Glyphs(task.plan[k]) = Glyphs(seg.shown[k])
    <2>1. k \in 1 .. Len(task.plan) /\ ~(Upcoming <= k)
      BY <1>2, <1>3, <1>4
    <2>2. k \notin Differing
      BY <2>1, <1>4
    <2> QED
      BY <2>1, <2>2, <1>2 DEF Differing
  <1>6. Upcoming <= Len(seg.shown) + 1
    <2>1. SUFFICES ASSUME ~(Upcoming <= Len(seg.shown) + 1) PROVE FALSE
      OBVIOUS
    <2>2. Len(seg.shown) + 1 \in 1 .. Upcoming - 1
      BY <2>1, <1>2, <1>3, <1>4
    <2>3. Len(seg.shown) + 1 <= Len(seg.shown)
      BY <2>2, <1>5
    <2> QED
      BY <2>3, <1>2
  <1>7. PlacesIn(task.plan[Upcoming]) \subseteq Heard
    BY <1>1, <1>2, <1>3, <1>4 DEF CoverOf
  <1> QED
    BY <1>1, <1>2, <1>3, <1>4, <1>5, <1>6, <1>7

LEMMA EditFacts ==
  ASSUME SaidInv, pc = "edit"
  PROVE  Begun(seg) /\ outcome = "running" /\ job.realtime \in BOOLEAN /\ task.force \in BOOLEAN
         /\ task.after \in {"pull", "break", "part", "end"} /\ (task.force <=> task.after # "pull")
         /\ TextOk(seg, Spoken, Heard, Len(screen)) /\ FeedInv /\ SentInv
         /\ (task.after = "part" => Count > 0 /\ job.feed[Count].kind = "part")
         /\ (task.after = "end" => feed = <<>>)
  <1>1. /\ outcome = "running" /\ ~seg.final /\ task \in Publishes /\ (task.force <=> task.after # "pull")
        /\ TextOk(seg, Spoken, Heard, Len(screen)) /\ FeedInv /\ SentInv
        /\ (task.after = "part" => Count > 0 /\ job.feed[Count].kind = "part")
        /\ (task.after = "end" => feed = <<>>)
    BY DEF SaidInv, TaskInv, Running
  <1>2. Begun(seg)
    BY <1>1, TextShowable
  <1> QED
    BY <1>1, <1>2, FeedFacts DEF Publishes

\* A publish that is given up half-way.
LEMMA GiveUpSays ==
  ASSUME SaidInv, pc = "edit", UNCHANGED <<job, feed, outcome>>, SentInv', Heard' = Heard,
         NEW s, TextOk(s, Spoken', Heard', Len(screen')), Begun(s),
         Continue(GiveUp(s, task.force), task.force, task.after)
  PROVE  SaidInv'
  <1>1. /\ outcome' = "running" /\ FeedInv' /\ task.force \in BOOLEAN
        /\ task.after \in {"pull", "break", "part", "end"} /\ (task.force <=> task.after # "pull")
        /\ (task.after = "part" => Count' > 0 /\ job.feed'[Count'].kind = "part")
        /\ (task.after = "end" => feed' = <<>>)
    BY EditFacts, SameFeed
  <1>2. Decided(GiveUp(s, task.force), s, task.force)
    BY <1>1, EditFacts, GiveUpDecided
  <1> QED
    BY <1>1, <1>2, ContinueSays

LEMMA AcceptedOk ==
  ASSUME SaidInv, pc = "edit", Differing # {}
  PROVE  LET s == Accepted(Upcoming)
         IN  /\ s \in Segments /\ s.raw = seg.raw /\ s.ids = seg.ids /\ s.failed = seg.failed /\ s.offset = seg.offset
             /\ s.unedited = seg.unedited /\ s.final = seg.final
             /\ Len(s.shown) = IF Upcoming <= Len(seg.shown) THEN Len(seg.shown) ELSE Upcoming
             /\ \A k \in 1 .. Len(s.shown) : s.shown[k] = IF k <= Upcoming THEN task.plan[k] ELSE seg.shown[k]
  <1> DEFINE new == SubSeq(task.plan, 1, Upcoming) \o Suffix(seg.shown, Upcoming)
  <1>1. /\ task.plan \in Chunks /\ seg.shown \in Chunks /\ Upcoming \in 1 .. Len(task.plan)
        /\ Upcoming <= Len(seg.shown) + 1 /\ seg \in Segments
    BY NextChunk
  <1>2. /\ new \in Chunks /\ Len(new) = IF Upcoming <= Len(seg.shown) THEN Len(seg.shown) ELSE Upcoming
        /\ \A k \in 1 .. Len(new) : new[k] = IF k <= Upcoming THEN task.plan[k] ELSE seg.shown[k]
    BY <1>1, ShownAfter
  <1>3. Accepted(Upcoming) = [seg EXCEPT !.shown = new]
    BY DEF Accepted
  <1> HIDE DEF new
  <1> QED
    BY <1>1, <1>2, <1>3 DEF Segments

LEMMA EditChunkSays ==
  ASSUME SaidInv, EditChunk PROVE SaidInv'
  <1>1. /\ pc = "edit" /\ Differing # {} /\ Upcoming <= Len(seg.ids)
        /\ UNCHANGED <<job, feed, quote, superSent, outcome>>
    BY DEF EditChunk
  <1>2. FeedInv' /\ Spoken' = Spoken /\ Heard' = Heard /\ Count' = Count
    BY <1>1, SameFeed DEF SaidInv
  <1> DEFINE u == Upcoming
             id == seg.ids[u]
             chars == task.plan[u]
  <1>3. /\ u \in 1 .. Len(task.plan) /\ u \in Nat /\ u <= Len(seg.shown) /\ Len(seg.ids) = Len(seg.shown)
        /\ Len(seg.shown) <= Len(task.plan)
        /\ chars \in Seq(Characters) /\ PlacesIn(chars) \subseteq Heard
    BY <1>1, NextChunk
  <1>4. id \in 0 .. Len(screen) /\ screen \in Seq(Messages) /\ DOMAIN screen = 1 .. Len(screen) /\ Len(screen) \in Nat
    <2>1. TextOk(seg, Spoken, Heard, Len(screen)) /\ screen \in Seq(Messages)
      BY DEF SaidInv, SentInv, ScreenOk
    <2>2. u \in DOMAIN seg.ids
      <3>1. seg.ids \in Seq(Nat)
        BY <2>1 DEF TextOk, Segments
      <3> QED
        BY <3>1, <1>3, LenProperties
    <2> QED
      BY <2>1, <2>2, LenProperties DEF TextOk
  <1>5. ASSUME id # 0, screen' = [screen EXCEPT ![id].chars = chars], seg' = Accepted(u),
               task' = [task EXCEPT !.changed = TRUE], pc' = pc
        PROVE  SaidInv'
    <2> DEFINE m == [screen[id] EXCEPT !.chars = chars]
    <2>1. id \in 1 .. Len(screen)
      BY <1>4, <1>5
    <2>2. screen[id] \in Messages /\ m \in Messages
      <3>1. screen[id] \in Messages
        BY <1>4, <2>1, ElementOfSeq
      <3> HIDE DEF id
      <3> QED
        BY <3>1, <1>3 DEF Messages
    <2>3. screen' = [screen EXCEPT ![id] = m]
      BY <1>5
    <2>4. m.n = screen[id].n /\ m.chars = chars
      BY <2>2 DEF Messages
    <2> HIDE DEF m
    <2>5. /\ screen' \in Seq(Messages) /\ Len(screen') = Len(screen)
          /\ \A j \in 1 .. Len(screen) : screen'[j] = IF j = id THEN m ELSE screen[j]
      BY <1>4, <2>1, <2>2, <2>3, ExceptSeq
    <2>6. \A i \in DOMAIN screen : SeenIn(screen[i]) \subseteq Heard
      BY DEF SaidInv, SentInv, ScreenOk
    <2>7. SeenIn(m) \subseteq Heard
      BY <1>3, <1>4, <2>1, <2>4, <2>6 DEF SeenIn
    <2>8. SentInv'
      <3>1. ScreenOk(screen', Heard')
        <4>1. DOMAIN screen' = 1 .. Len(screen)
          BY <2>5, LenProperties
        <4>2. \A i \in 1 .. Len(screen) : SeenIn(screen'[i]) \subseteq Heard
          BY <1>4, <2>5, <2>6, <2>7
        <4> QED
          BY <1>2, <2>5, <4>1, <4>2 DEF ScreenOk
      <3>2. screen # <<>> /\ screen' # <<>>
        BY <1>4, <2>1, <2>5, EmptySeq
      <3> QED
        BY <1>1, <2>5, <3>1, <3>2 DEF SaidInv, SentInv
    <2>9. TextOk(seg', Spoken', Heard', Len(screen'))
      <3>1. /\ seg' \in Segments /\ seg'.raw = seg.raw /\ seg'.ids = seg.ids /\ seg'.offset = seg.offset
            /\ seg'.unedited = seg.unedited /\ Len(seg'.shown) = Len(seg.shown)
        BY <1>1, <1>3, <1>5, AcceptedOk
      <3> QED
        BY <3>1, <1>2, <2>5 DEF SaidInv, TextOk
    <2>10. TaskInv'
      <3>1. /\ seg'.raw = seg.raw /\ seg'.failed = seg.failed /\ seg'.final = seg.final
            /\ Len(seg'.shown) = Len(seg.shown)
        BY <1>1, <1>3, <1>5, AcceptedOk
      <3>2. /\ task' \in Publishes /\ task'.force = task.force /\ task'.after = task.after
            /\ task'.plan = task.plan /\ task'.queue = task.queue
        BY <1>5 DEF SaidInv, TaskInv, Publishes
      <3> QED
        BY <1>1, <1>2, <1>5, <3>1, <3>2 DEF SaidInv, TaskInv, Running
    <2> QED
      BY <1>2, <2>8, <2>9, <2>10 DEF SaidInv
  <1>6. ASSUME Continue(GiveUp(seg, task.force), task.force, task.after), UNCHANGED screen
        PROVE  SaidInv'
    <2>1. SentInv'
      BY <1>1, <1>2, <1>6, SentKept DEF SaidInv, SentInv
    <2>2. TextOk(seg, Spoken', Heard', Len(screen')) /\ Begun(seg)
      BY <1>1, <1>2, <1>6, EditFacts
    <2> QED
      BY <1>1, <1>2, <1>6, <2>1, <2>2, GiveUpSays
  <1> QED
    BY <1>5, <1>6 DEF EditChunk, Changed

\* A text whose last message has no id.
LEMMA UnnamedOk ==
  ASSUME SaidInv, pc = "edit", Differing # {}, Upcoming > Len(seg.ids)
  PROVE  /\ Unnamed \in Segments /\ Unnamed.raw = seg.raw /\ Unnamed.failed = seg.failed /\ Unnamed.final = seg.final
         /\ Unnamed.offset = Len(seg.raw) /\ Unnamed.unedited = Len(seg.raw)
         /\ Unnamed.shown = SubSeq(task.plan, 1, Upcoming)
         /\ Len(Unnamed.ids) = Len(Unnamed.shown) /\ Len(Unnamed.ids) = Len(seg.ids) + 1 /\ Len(seg.ids) + 1 = Upcoming
         /\ \A i \in 1 .. Len(seg.ids) : Unnamed.ids[i] = seg.ids[i]
         /\ Unnamed.ids[Upcoming] = 0
         /\ Begun(Unnamed)
         /\ \A more : more >= Len(screen) /\ more \in Nat => TextOk(Unnamed, Spoken, Heard, more)
  <1>1. /\ Upcoming \in 1 .. Len(task.plan) /\ Upcoming <= Len(seg.shown) + 1 /\ Len(seg.ids) = Len(seg.shown)
        /\ Len(seg.shown) \in Nat /\ Len(task.plan) \in Nat /\ task.plan \in Chunks /\ seg \in Segments
    BY NextChunk
  <1>2. Upcoming = Len(seg.ids) + 1
    BY <1>1
  <1>3. SubSeq(task.plan, 1, Upcoming) \in Chunks /\ Len(SubSeq(task.plan, 1, Upcoming)) = Upcoming
    <2>1. /\ \A i \in 1 .. Upcoming : task.plan[i] \in Seq(Characters)
          /\ 1 \in Int /\ Upcoming \in Int /\ 1 <= Upcoming
      BY <1>1, LenProperties DEF Chunks
    <2>2. /\ SubSeq(task.plan, 1, Upcoming) \in Seq(Seq(Characters))
          /\ Len(SubSeq(task.plan, 1, Upcoming)) = IF 1 <= Upcoming THEN Upcoming - 1 + 1 ELSE 0
      BY <2>1, SubSeqProperties
    <2> QED
      BY <2>1, <2>2 DEF Chunks
  <1>4. /\ seg.ids \in Seq(Nat) /\ Append(seg.ids, 0) \in Seq(Nat) /\ Len(Append(seg.ids, 0)) = Len(seg.ids) + 1
        /\ \A i \in 1 .. Len(seg.ids) : Append(seg.ids, 0)[i] = seg.ids[i]
        /\ Append(seg.ids, 0)[Len(seg.ids) + 1] = 0
    <2>1. seg.ids \in Seq(Nat)
      BY <1>1 DEF Segments
    <2> QED
      BY <2>1, AppendProperties
  <1>5. Len(seg.raw) \in Nat
    <2>1. seg.raw \in Seq(Characters)
      BY <1>1 DEF Segments
    <2> QED
      BY <2>1, LenProperties
  <1>6. /\ Unnamed \in Segments /\ Unnamed.raw = seg.raw /\ Unnamed.failed = seg.failed /\ Unnamed.final = seg.final
        /\ Unnamed.offset = Len(seg.raw) /\ Unnamed.unedited = Len(seg.raw)
        /\ Unnamed.shown = SubSeq(task.plan, 1, Upcoming) /\ Unnamed.ids = Append(seg.ids, 0)
    BY <1>1, <1>3, <1>4, <1>5 DEF Unnamed, Segments
  <1>7. Begun(seg) /\ TextOk(seg, Spoken, Heard, Len(screen))
    BY EditFacts
  <1>8. Begun(Unnamed)
    BY <1>5, <1>6, <1>7 DEF Begun
  <1>9. ASSUME NEW more \in Nat, more >= Len(screen) PROVE TextOk(Unnamed, Spoken, Heard, more)
    <2>1. Len(screen) \in Nat
      BY LenProperties DEF SaidInv, SentInv, ScreenOk
    <2>2. DOMAIN seg.ids = 1 .. Len(seg.ids) /\ DOMAIN Unnamed.ids = 1 .. Len(seg.ids) + 1
      BY <1>4, <1>6, LenProperties
    <2>3. \A i \in DOMAIN seg.ids : seg.ids[i] \in 0 .. more
      BY <1>7, <1>9, <2>1 DEF TextOk
    <2>4. \A i \in DOMAIN Unnamed.ids : Unnamed.ids[i] \in 0 .. more
      <3> SUFFICES ASSUME NEW i \in DOMAIN Unnamed.ids PROVE Unnamed.ids[i] \in 0 .. more
        OBVIOUS
      <3>1. i \in 1 .. Len(seg.ids) \/ i = Len(seg.ids) + 1
        BY <1>1, <2>2
      <3> QED
        BY <3>1, <2>2, <2>3, <1>4, <1>6
    <2>5. Len(Unnamed.ids) = Len(Unnamed.shown) /\ Unnamed.offset <= Len(Unnamed.raw) /\ Unnamed.unedited <= Len(Unnamed.raw)
      BY <1>2, <1>3, <1>4, <1>5, <1>6
    <2> QED
      BY <1>6, <1>7, <2>4, <2>5 DEF TextOk
  <1> QED
    BY <1>2, <1>3, <1>4, <1>6, <1>8, <1>9

LEMMA SendChunkSays ==
  ASSUME SaidInv, SendChunk PROVE SaidInv'
  <1>1. /\ pc = "edit" /\ Differing # {} /\ Upcoming > Len(seg.ids)
        /\ UNCHANGED <<job, feed, outcome>>
    BY DEF SendChunk
  <1>2. FeedInv' /\ Spoken' = Spoken /\ Heard' = Heard /\ Count' = Count
    BY <1>1, SameFeed DEF SaidInv
  <1>3. /\ Upcoming \in 1 .. Len(task.plan) /\ Upcoming \in Nat /\ Len(seg.ids) = Len(seg.shown)
        /\ Upcoming = Len(seg.shown) + 1 /\ Len(seg.shown) \in Nat /\ Len(task.plan) \in Nat
        /\ task.plan[Upcoming] \in Seq(Characters) /\ PlacesIn(task.plan[Upcoming]) \subseteq Heard
    <2>1. /\ Upcoming \in 1 .. Len(task.plan) /\ Upcoming <= Len(seg.shown) + 1 /\ Len(seg.ids) = Len(seg.shown)
          /\ Len(seg.shown) \in Nat /\ Len(task.plan) \in Nat
          /\ task.plan[Upcoming] \in Seq(Characters) /\ PlacesIn(task.plan[Upcoming]) \subseteq Heard
      BY <1>1, NextChunk
    <2> QED
      BY <1>1, <2>1
  <1>4. ASSUME Post(0, task.plan[Upcoming])
        PROVE  SentInv' /\ Len(screen) \in Nat /\ Len(screen') = Len(screen) + 1
    BY <1>2, <1>3, <1>4, PostSays DEF SaidInv
  <1>5. ASSUME Post(0, task.plan[Upcoming]), seg' = [Accepted(Upcoming) EXCEPT !.ids = Append(@, Len(screen) + 1)],
               task' = [task EXCEPT !.changed = TRUE], pc' = pc
        PROVE  SaidInv'
    <2> DEFINE s == Accepted(Upcoming)
               ids == Append(seg.ids, Len(screen) + 1)
    <2>1. /\ s \in Segments /\ s.raw = seg.raw /\ s.ids = seg.ids /\ s.failed = seg.failed /\ s.offset = seg.offset
          /\ s.unedited = seg.unedited /\ s.final = seg.final /\ Len(s.shown) = Upcoming
      BY <1>1, <1>3, AcceptedOk
    <2> HIDE DEF s
    <2>2. /\ ids \in Seq(Nat) /\ Len(ids) = Len(seg.ids) + 1
          /\ (\A i \in 1 .. Len(seg.ids) : ids[i] = seg.ids[i]) /\ ids[Len(seg.ids) + 1] = Len(screen) + 1
      <3>1. seg.ids \in Seq(Nat) /\ Len(screen) + 1 \in Nat
        BY <1>4, <1>5, <2>1 DEF Segments
      <3> QED
        BY <3>1, AppendProperties
    <2>3. seg' = [s EXCEPT !.ids = ids]
      BY <1>5, <2>1 DEF s
    <2> HIDE DEF ids
    <2>4. /\ seg' \in Segments /\ seg'.raw = seg.raw /\ seg'.ids = ids /\ seg'.failed = seg.failed
          /\ seg'.offset = seg.offset /\ seg'.unedited = seg.unedited /\ seg'.final = seg.final
          /\ seg'.shown = s.shown
      BY <2>1, <2>2, <2>3 DEF Segments
    <2>5. TextOk(seg, Spoken, Heard, Len(screen))
      BY DEF SaidInv
    <2>6. TextOk(seg', Spoken', Heard', Len(screen'))
      <3>1. DOMAIN seg.ids = 1 .. Len(seg.ids) /\ DOMAIN ids = 1 .. Len(seg.ids) + 1
        BY <2>1, <2>2, LenProperties DEF Segments
      <3>2. \A i \in DOMAIN ids : ids[i] \in 0 .. Len(screen')
        <4> SUFFICES ASSUME NEW i \in DOMAIN ids PROVE ids[i] \in 0 .. Len(screen')
          OBVIOUS
        <4>1. i \in 1 .. Len(seg.ids) \/ i = Len(seg.ids) + 1
          BY <1>3, <3>1
        <4>2. \A k \in 1 .. Len(seg.ids) : seg.ids[k] \in 0 .. Len(screen)
          BY <2>5, <3>1 DEF TextOk
        <4> QED
          <5>1. Len(screen) \in Nat /\ Len(screen') = Len(screen) + 1
            BY <1>4, <1>5
          <5>2. \A k \in 1 .. Len(seg.ids) : seg.ids[k] \in 0 .. Len(screen) + 1
            BY <4>2, <5>1
          <5>3. CASE i \in 1 .. Len(seg.ids)
            BY <5>1, <5>2, <5>3, <2>2
          <5>4. CASE i = Len(seg.ids) + 1
            BY <5>1, <5>4, <2>2
          <5> QED
            BY <4>1, <5>3, <5>4
      <3>3. Len(seg'.ids) = Len(seg'.shown)
        BY <1>3, <2>1, <2>2, <2>4
      <3> QED
        BY <1>2, <2>4, <2>5, <3>2, <3>3 DEF TextOk
    <2>7. TaskInv'
      <3>1. /\ task' \in Publishes /\ task'.force = task.force /\ task'.after = task.after
            /\ task'.plan = task.plan /\ task'.queue = task.queue
        BY <1>5 DEF SaidInv, TaskInv, Publishes
      <3>2. Len(seg'.shown) <= Len(task'.plan)
        BY <1>3, <2>1, <2>4, <3>1
      <3> QED
        BY <1>1, <1>2, <1>5, <2>4, <3>1, <3>2 DEF SaidInv, TaskInv, Running
    <2> QED
      BY <1>2, <1>4, <1>5, <2>6, <2>7 DEF SaidInv
  <1>6. ASSUME Post(0, task.plan[Upcoming]), Continue(GiveUp(Unnamed, task.force), task.force, task.after)
        PROVE  SaidInv'
    <2>1. Begun(Unnamed) /\ \A more : more >= Len(screen) /\ more \in Nat => TextOk(Unnamed, Spoken, Heard, more)
      BY <1>1, UnnamedOk
    <2>2. SentInv' /\ Len(screen') >= Len(screen) /\ Len(screen') \in Nat
      BY <1>4, <1>6
    <2>3. TextOk(Unnamed, Spoken', Heard', Len(screen'))
      BY <1>2, <2>1, <2>2
    <2> QED
      BY <1>1, <1>2, <1>6, <2>1, <2>2, <2>3, GiveUpSays
  <1>7. ASSUME Continue(GiveUp(seg, task.force), task.force, task.after), UNCHANGED <<screen, quote, superSent>>
        PROVE  SaidInv'
    <2>1. SentInv'
      BY <1>1, <1>2, <1>7, SentKept DEF SaidInv, SentInv
    <2>2. TextOk(seg, Spoken', Heard', Len(screen')) /\ Begun(seg)
      BY <1>1, <1>2, <1>7, EditFacts
    <2> QED
      BY <1>1, <1>2, <1>7, <2>1, <2>2, GiveUpSays
  <1> QED
    BY <1>5, <1>6, <1>7 DEF SendChunk, Changed

LEMMA AllShownSays ==
  ASSUME SaidInv, AllShown PROVE SaidInv'
  <1>1. /\ pc = "edit" /\ seg' = [seg EXCEPT !.offset = Len(seg.raw)] /\ pc' = "return"
        /\ UNCHANGED <<job, feed, quote, screen, superSent, task, outcome>>
    BY DEF AllShown
  <1>2. FeedInv' /\ Spoken' = Spoken /\ Heard' = Heard /\ Count' = Count
    BY <1>1, SameFeed DEF SaidInv
  <1>3. TextOk(seg, Spoken, Heard, Len(screen)) /\ SentInv /\ ~seg.final
    BY <1>1 DEF SaidInv, TaskInv
  <1>4. seg \in Segments /\ Len(seg.raw) \in Nat
    <2>1. seg \in Segments /\ seg.raw \in Seq(Characters)
      BY <1>3 DEF TextOk, Segments
    <2> QED
      BY <2>1, LenProperties
  <1>5. /\ seg' \in Segments /\ seg'.raw = seg.raw /\ seg'.ids = seg.ids /\ seg'.shown = seg.shown
        /\ seg'.offset = Len(seg.raw) /\ seg'.unedited = seg.unedited /\ seg'.final = seg.final
    BY <1>1, <1>4 DEF Segments
  <1>6. TextOk(seg', Spoken', Heard', Len(screen'))
    BY <1>1, <1>2, <1>3, <1>4, <1>5 DEF TextOk
  <1>7. SentInv'
    BY <1>1, <1>2, <1>3, SentKept DEF SentInv
  <1>8. TaskInv'
    BY <1>1, <1>2, <1>3, <1>5 DEF SaidInv, TaskInv, Running
  <1> QED
    BY <1>2, <1>6, <1>7, <1>8 DEF SaidInv

\* An exception keeps what there is.
LEMMA RaiseSays ==
  ASSUME SaidInv, pc \in Running, Raise, UNCHANGED <<job, feed, quote, screen, superSent>>
  PROVE  SaidInv'
  <1>1. pc' = "ack" /\ outcome' = "failed" /\ UNCHANGED <<seg, task>>
    BY DEF Raise
  <1>2. FeedInv' /\ Spoken' = Spoken /\ Heard' = Heard /\ Count' = Count
    BY SameFeed DEF SaidInv
  <1>3. SentInv'
    BY <1>2, SentKept DEF SaidInv, SentInv
  <1>4. TextOk(seg', Spoken', Heard', Len(screen'))
    BY <1>1, <1>2 DEF SaidInv
  <1>5. TaskInv'
    BY <1>1, <1>2 DEF SaidInv, TaskInv, Running
  <1> QED
    BY <1>2, <1>3, <1>4, <1>5 DEF SaidInv

LEMMA HeadOfQueue ==
  ASSUME NEW q \in Chunks, q # <<>>
  PROVE  Head(q) \in Seq(Characters) /\ Tail(q) \in Chunks /\ CoverOf(q) = PlacesIn(Head(q)) \cup CoverOf(Tail(q))
  <1>1. /\ Head(q) \in Seq(Characters) /\ Tail(q) \in Chunks /\ Len(Tail(q)) = Len(q) - 1
        /\ \A i \in 1 .. Len(Tail(q)) : Tail(q)[i] = q[i + 1]
    BY HeadTailProperties DEF Chunks
  <1>2. DOMAIN q = 1 .. Len(q) /\ DOMAIN Tail(q) = 1 .. Len(Tail(q)) /\ Len(q) \in Nat /\ Len(q) > 0 /\ Head(q) = q[1]
    BY <1>1, LenProperties, EmptySeq DEF Chunks
  <1>3. ASSUME NEW n \in CoverOf(q) PROVE n \in PlacesIn(Head(q)) \cup CoverOf(Tail(q))
    <2>1. PICK i \in 1 .. Len(q) : n \in PlacesIn(q[i])
      BY <1>2, <1>3, CoverMember
    <2>2. CASE i = 1
      BY <1>2, <2>1, <2>2
    <2>3. CASE i # 1
      <3>1. i - 1 \in 1 .. Len(Tail(q)) /\ (i - 1) + 1 = i
        BY <1>1, <1>2, <2>1, <2>3
      <3>2. n \in PlacesIn(Tail(q)[i - 1])
        BY <1>1, <2>1, <3>1
      <3> QED
        BY <1>2, <3>1, <3>2, CoverMember
    <2> QED
      BY <2>2, <2>3
  <1>4. PlacesIn(Head(q)) \subseteq CoverOf(q)
    <2>1. 1 \in DOMAIN q
      BY <1>2
    <2> QED
      BY <1>2, <2>1 DEF CoverOf
  <1>5. ASSUME NEW n \in CoverOf(Tail(q)) PROVE n \in CoverOf(q)
    <2>1. PICK i \in 1 .. Len(Tail(q)) : n \in PlacesIn(Tail(q)[i])
      BY <1>2, <1>5, CoverMember
    <2>2. i + 1 \in DOMAIN q /\ n \in PlacesIn(q[i + 1])
      BY <1>1, <1>2, <2>1
    <2> QED
      BY <2>2, CoverMember
  <1> QED
    BY <1>1, <1>3, <1>4, <1>5

LEMMA ResendSays ==
  ASSUME SaidInv, Resend PROVE SaidInv'
  <1>1. pc = "resend" /\ task.queue # <<>> /\ UNCHANGED <<job, feed>>
    BY DEF Resend
  <1>2. FeedInv' /\ Spoken' = Spoken /\ Heard' = Heard /\ Count' = Count
    BY <1>1, SameFeed DEF SaidInv
  <1>3. task.queue \in Chunks /\ CoverOf(task.queue) \subseteq PlacesIn(seg.raw) /\ PlacesIn(seg.raw) \subseteq Heard
    BY DEF SaidInv, TaskInv, Publishes, TextOk
  <1>4. Head(task.queue) \in Seq(Characters) /\ Tail(task.queue) \in Chunks
        /\ CoverOf(task.queue) = PlacesIn(Head(task.queue)) \cup CoverOf(Tail(task.queue))
    BY <1>1, <1>3, HeadOfQueue
  <1>5. ASSUME Post(0, Head(task.queue)), task' = [task EXCEPT !.queue = Tail(@)], UNCHANGED <<seg, pc, outcome>>
        PROVE  SaidInv'
    <2>1. PlacesIn(Head(task.queue)) \subseteq Heard
      BY <1>3, <1>4
    <2>2. SentInv' /\ Len(screen) \in Nat /\ Len(screen') = Len(screen) + 1
      BY <1>2, <1>4, <1>5, <2>1, PostSays DEF SaidInv
    <2>3. TextOk(seg', Spoken', Heard', Len(screen'))
      <3>1. TextOk(seg, Spoken, Heard, Len(screen))
        BY DEF SaidInv
      <3>2. \A i \in DOMAIN seg.ids : seg.ids[i] \in 0 .. Len(screen')
        BY <3>1, <2>2 DEF TextOk
      <3> QED
        BY <1>2, <1>5, <3>1, <3>2 DEF TextOk
    <2>4. TaskInv'
      <3>1. /\ task' \in Publishes /\ task'.force = task.force /\ task'.after = task.after
            /\ task'.plan = task.plan /\ task'.queue = Tail(task.queue)
        BY <1>4, <1>5 DEF SaidInv, TaskInv, Publishes
      <3> QED
        BY <1>1, <1>2, <1>4, <1>5, <3>1 DEF SaidInv, TaskInv, Running
    <2> QED
      BY <1>2, <2>2, <2>3, <2>4 DEF SaidInv
  <1>6. ASSUME Raise, UNCHANGED <<screen, quote, superSent>> PROVE SaidInv'
    BY <1>1, <1>6, RaiseSays DEF Running
  <1> QED
    BY <1>5, <1>6 DEF Resend

LEMMA ReturnedSays ==
  ASSUME SaidInv, Returned PROVE SaidInv'
  <1>1. /\ pc = "return" \/ (pc = "resend" /\ task.queue = <<>>)
        /\ pc' = (CASE task.after \in {"pull", "break"} -> "pull" [] task.after = "part" -> "part" [] OTHER -> "ack")
        /\ seg' = (IF task.after \in {"break", "part"} THEN Fresh ELSE seg)
        /\ outcome' = (IF task.after = "end" THEN "done" ELSE outcome)
        /\ task' = NoTask
        /\ UNCHANGED <<job, feed, quote, screen, superSent>>
    BY DEF Returned
  <1>2. FeedInv' /\ Spoken' = Spoken /\ Heard' = Heard /\ Count' = Count
    BY <1>1, SameFeed DEF SaidInv
  <1>3. SentInv'
    BY <1>1, <1>2, SentKept DEF SaidInv, SentInv
  <1>4. Len(screen) \in Nat /\ Spoken \in Seq(Characters)
    BY LenProperties, FeedFacts DEF SaidInv, SentInv, ScreenOk
  <1>5. TextOk(seg', Spoken', Heard', Len(screen'))
    <2>1. CASE task.after \in {"break", "part"}
      BY <1>1, <1>2, <1>4, <2>1, FreshOk
    <2>2. CASE task.after \notin {"break", "part"}
      BY <1>1, <1>2, <2>2 DEF SaidInv
    <2> QED
      BY <2>1, <2>2
  <1>6. outcome = "running" /\ task.after \in {"pull", "break", "part", "end"} /\ (task.force <=> task.after # "pull")
        /\ (seg.final => task.force)
    BY <1>1 DEF SaidInv, TaskInv, Publishes, Running
  <1>7. NoTask \in Publishes /\ ~NoTask.force /\ NoTask.after = "pull" /\ NoTask.queue = <<>> /\ NoTask.plan = <<>>
    <2>1. <<>> \in Chunks
      BY EmptySeq DEF Chunks
    <2> QED
      BY <2>1 DEF NoTask, Publishes
  <1>8. Fresh.final = FALSE
    BY DEF Fresh
  <1>9. TaskInv'
    <2>1. CASE task.after = "end"
      <3>1. pc' = "ack" /\ outcome' = "done"
        BY <1>1, <2>1
      <3> QED
        BY <1>1, <1>7, <3>1, PlacesOfNothing DEF TaskInv, Running
    <2>2. CASE task.after = "pull"
      <3>1. pc' = "pull" /\ outcome' = "running" /\ ~seg'.final
        BY <1>1, <1>6, <2>2
      <3> QED
        BY <1>1, <1>7, <3>1, PlacesOfNothing DEF TaskInv, Running
    <2>3. CASE task.after = "break"
      <3>1. pc' = "pull" /\ outcome' = "running" /\ ~seg'.final
        BY <1>1, <1>6, <1>8, <2>3
      <3> QED
        BY <1>1, <1>7, <3>1, PlacesOfNothing DEF TaskInv, Running
    <2>4. CASE task.after = "part"
      <3>1. pc' = "part" /\ outcome' = "running" /\ ~seg'.final /\ seg' = Fresh
        BY <1>1, <1>6, <1>8, <2>4
      <3>2. Count' > 0 /\ job.feed'[Count'].kind = "part"
        BY <1>1, <1>2, <2>4 DEF SaidInv, TaskInv
      <3> QED
        BY <1>1, <1>7, <3>1, <3>2, PlacesOfNothing DEF TaskInv, Running
    <2> QED
      BY <1>6, <2>1, <2>2, <2>3, <2>4
  <1> QED
    BY <1>2, <1>3, <1>5, <1>9 DEF SaidInv

\* The place of a part is the one its item names.
LEMMA PartPlace ==
  ASSUME FeedInv, Count > 0, job.feed[Count].kind = "part"
  PROVE  Base - Stride + 1 \in Nat \ {0} /\ HeardIn(Count) = {Base - Stride + 1} /\ HeardIn(Count) \subseteq Heard
  <1>1. Count \in 1 .. Len(job.feed) /\ Count \in Nat /\ Len(job.feed) \in Nat /\ Len(feed) \in Nat
    BY FeedFacts
  <1>2. HeardIn(Count) = {Stride * (Count - 1) + 1}
    BY DEF HeardIn, Texts
  <1>3. Base = Stride * Count
    BY DEF Base, Count
  <1>4. Base - Stride + 1 = Stride * (Count - 1) + 1 /\ Base - Stride + 1 \in Nat \ {0}
    <2> HIDE DEF Count
    <2> QED
      BY <1>1, <1>3 DEF Stride
  <1>5. Count \in Taken
    BY <1>1 DEF Taken, Count
  <1> QED
    BY <1>2, <1>4, <1>5 DEF Heard

LEMMA SendPartSays ==
  ASSUME SaidInv, SendPart PROVE SaidInv'
  <1>1. pc = "part" /\ UNCHANGED <<job, feed>>
    BY DEF SendPart
  <1>2. FeedInv' /\ Spoken' = Spoken /\ Heard' = Heard /\ Count' = Count
    BY <1>1, SameFeed DEF SaidInv
  <1>3. task = NoTask /\ seg = Fresh /\ Count > 0 /\ job.feed[Count].kind = "part" /\ outcome = "running"
    BY <1>1 DEF SaidInv, TaskInv, Running
  <1> DEFINE n == Base - Stride + 1
  <1>4. n \in Nat /\ n # 0 /\ {n} \subseteq Heard
    BY <1>3, PartPlace DEF SaidInv
  <1>5. ASSUME Post(n, <<>>), pc' = "pull", UNCHANGED <<seg, task, outcome>> PROVE SaidInv'
    <2>1. <<>> \in Seq(Characters)
      BY EmptySeq
    <2>2. SentInv' /\ Len(screen) \in Nat /\ Len(screen') = Len(screen) + 1
      <3> HIDE DEF n
      <3> QED
        BY <1>2, <1>4, <1>5, <2>1, PostSays DEF SaidInv
    <2>3. TextOk(seg', Spoken', Heard', Len(screen'))
      <3>1. Len(screen') \in Nat /\ Spoken \in Seq(Characters)
        BY <2>2, FeedFacts DEF SaidInv
      <3> QED
        BY <1>2, <1>3, <1>5, <3>1, FreshOk
    <2>4. TaskInv'
      <3>1. NoTask.after = "pull" /\ Fresh.final = FALSE
        BY DEF NoTask, Fresh
      <3> QED
        BY <1>1, <1>2, <1>3, <1>5, <3>1 DEF SaidInv, TaskInv, Running
    <2> QED
      BY <1>2, <2>2, <2>3, <2>4 DEF SaidInv
  <1>6. ASSUME Raise, UNCHANGED <<screen, quote, superSent>> PROVE SaidInv'
    BY <1>1, <1>6, RaiseSays DEF Running
  <1> QED
    BY <1>5, <1>6 DEF SendPart

\* The end of a reply changes nothing of it.
LEMMA OverSays ==
  ASSUME SaidInv, UNCHANGED <<job, feed, seg, screen, superSent, task, outcome, quote>>,
         pc' = pc \/ (pc \notin Running /\ pc' \in {"stop", "hook", "over"})
  PROVE  SaidInv'
  <1>1. FeedInv' /\ Spoken' = Spoken /\ Heard' = Heard /\ Count' = Count
    BY SameFeed DEF SaidInv
  <1>2. SentInv'
    BY <1>1, SentKept DEF SaidInv, SentInv
  <1>3. TextOk(seg', Spoken', Heard', Len(screen'))
    BY <1>1 DEF SaidInv
  <1>4. TaskInv'
    <2>1. CASE pc' = pc
      BY <1>1, <2>1 DEF SaidInv, TaskInv
    <2>2. CASE pc \notin Running /\ pc' \in {"stop", "hook", "over"}
      BY <1>1, <2>2 DEF SaidInv, TaskInv, Running
    <2> QED
      BY <2>1, <2>2
  <1> QED
    BY <1>1, <1>2, <1>3, <1>4 DEF SaidInv

LEMMA InitSays == Init => SaidInv
  <1> SUFFICES ASSUME Init PROVE SaidInv
    OBVIOUS
  <1>1. /\ job \in Jobs /\ feed = job.feed /\ seg = Fresh /\ screen = <<>> /\ superSent = FALSE
        /\ quote = [has |-> FALSE, consumed |-> FALSE, count |-> 0]
        /\ pc = "pull" /\ task = NoTask /\ outcome = "running"
    BY DEF Init
  <1>2. job.feed \in Seq(Items) /\ Len(job.feed) \in Nat
    BY <1>1, ReplyAssumption, LenProperties
  <1>3. Count = 0
    BY <1>1, <1>2 DEF Count
  <1>4. FeedInv
    <2>1. \A i \in 1 .. Len(feed) : feed[i] = job.feed[Count + i]
      BY <1>1, <1>2, <1>3
    <2> QED
      BY <1>1, <1>2, <2>1 DEF FeedInv
  <1>5. Len(screen) = 0 /\ DOMAIN screen = {}
    BY <1>1, EmptySeq
  <1>6. TextOk(seg, Spoken, Heard, Len(screen))
    BY <1>1, <1>4, <1>5, FreshOk, FeedFacts
  <1>7. SentInv
    <2>1. ScreenOk(screen, Heard)
      BY <1>1, <1>5, EmptySeq DEF ScreenOk
    <2> QED
      BY <1>1, <1>5, <2>1 DEF SentInv, Quotes
  <1>8. TaskInv
    <2>1. NoTask \in Publishes /\ ~NoTask.force /\ NoTask.after = "pull" /\ NoTask.queue = <<>> /\ NoTask.plan = <<>>
      <3>1. <<>> \in Chunks
        BY EmptySeq DEF Chunks
      <3> QED
        BY <3>1 DEF NoTask, Publishes
    <2>2. Fresh.final = FALSE
      BY DEF Fresh
    <2> QED
      BY <1>1, <2>1, <2>2, PlacesOfNothing DEF TaskInv, Running
  <1> QED
    BY <1>4, <1>6, <1>7, <1>8 DEF SaidInv

LEMMA SaidStep == SaidInv /\ [Next]_vars => SaidInv'
  <1> SUFFICES ASSUME SaidInv, [Next]_vars PROVE SaidInv'
    OBVIOUS
  <1>1. CASE PullText
    BY <1>1, PullTextSays
  <1>2. CASE PullReply
    BY <1>2, PullReplySays
  <1>3. CASE Forced
    BY <1>3, ForcedSays
  <1>4. CASE EditChunk
    BY <1>4, EditChunkSays
  <1>5. CASE SendChunk
    BY <1>5, SendChunkSays
  <1>6. CASE AllShown
    BY <1>6, AllShownSays
  <1>7. CASE Resend
    BY <1>7, ResendSays
  <1>8. CASE Returned
    BY <1>8, ReturnedSays
  <1>9. CASE SendPart
    BY <1>9, SendPartSays
  <1>10. CASE GeneratorFails
    BY <1>10, RaiseSays DEF GeneratorFails, Running
  <1>11. CASE Acknowledge
    BY <1>11, OverSays DEF Acknowledge, Running
  <1>12. CASE StopTyping
    BY <1>12, OverSays DEF StopTyping, Running
  <1>13. CASE Release
    BY <1>13, OverSays DEF Release, Running
  <1>14. CASE OtherStarts \/ OtherStops \/ OtherEnds
    BY <1>14, OverSays DEF OtherStarts, OtherStops, OtherEnds, reply
  <1>15. CASE UNCHANGED vars
    BY <1>15, OverSays DEF vars, reply
  <1> QED
    BY <1>1, <1>2, <1>3, <1>4, <1>5, <1>6, <1>7, <1>8, <1>9, <1>10, <1>11, <1>12, <1>13, <1>14, <1>15 DEF Next, Step

\* The variables that the text does not depend on.
IndicatorInv == ack \in {"eyes", "done", "none"} /\ presence \in {"composing", "paused"} /\ other \in {"none", "busy", "hook"}
LEMMA IndicatorStep == IndicatorInv /\ [Next]_vars => IndicatorInv'
  BY DEF IndicatorInv, Next, Step, PullText, PullReply, Forced, EditChunk, SendChunk, AllShown, Resend, Returned,
         SendPart, GeneratorFails, Acknowledge, StopTyping, Release, OtherStarts, OtherStops, OtherEnds,
         Typing, Quiet, Paused, vars, reply

LEMMA SaidHolds == Spec => []SaidInv
  BY InitSays, SaidStep, PTL DEF Spec

\* TypeOK, for every job and any faults, half-way failures included.
THEOREM ReplyTyped == Spec => []TypeOK
  <1>1. SaidInv /\ IndicatorInv /\ LeasesCount => TypeOK
    <2> SUFFICES ASSUME SaidInv, IndicatorInv, LeasesCount PROVE TypeOK
      OBVIOUS
    <2>1. /\ pc \in Running \cup {"ack", "stop", "hook", "over"} /\ outcome \in {"running", "done", "failed"}
          /\ (outcome = "running" <=> pc \in Running)
          /\ superSent <=> screen # <<>>
          /\ quote.count = Len(screen)
      BY DEF SaidInv, TaskInv, SentInv
    <2>2. /\ Len(seg.ids) = Len(seg.shown) /\ \A i \in DOMAIN seg.ids : seg.ids[i] \in 0 .. Len(screen)
          /\ seg.offset <= Len(seg.raw) /\ seg.unedited <= Len(seg.raw) /\ seg \in Segments
      BY DEF SaidInv, TextOk
    <2>3. Len(seg.raw) \in Nat /\ seg.offset \in Nat /\ seg.unedited \in Nat
      <3>1. seg.raw \in Seq(Characters) /\ seg.offset \in Nat /\ seg.unedited \in Nat
        BY <2>2 DEF Segments
      <3> QED
        BY <3>1, LenProperties
    <2>4. seg.offset \in 0 .. Len(seg.raw) /\ seg.unedited \in 0 .. Len(seg.raw)
      BY <2>2, <2>3
    <2> QED
      BY <2>1, <2>2, <2>4 DEF TypeOK, IndicatorInv, LeasesCount, Running
  <1>2. Init => IndicatorInv
    BY DEF Init, IndicatorInv
  <1> QED
    BY <1>1, <1>2, SaidHolds, IndicatorStep, CountInvariant, PTL DEF Spec

-----------------------------------------------------------------------------
(* What is seen, when no publish fails half-way: all of the text that is   *)
(* not on its way.                                                         *)
SeenOf(scr)      == UNION {SeenIn(scr[i]) : i \in DOMAIN scr}
\* The messages that will not be edited any more.
StableIn(s, scr) == UNION {SeenIn(scr[i]) : i \in DOMAIN scr \ ToSet(s.ids)}
\* As long as editing works, the messages of a text show its chunks.
Mirrors(s, scr)  == ~s.failed =>
  /\ \A i, j \in DOMAIN s.ids : s.ids[i] = s.ids[j] => i = j
  /\ \A i \in DOMAIN s.ids : /\ s.ids[i] \in DOMAIN scr /\ scr[s.ids[i]].n = 0
                             /\ PlacesIn(scr[s.ids[i]].chars) = PlacesIn(s.shown[i])
  /\ s.unedited = 0
\* A part that was taken and is not sent yet.
Pending == IF pc = "part" \/ task.after = "part" THEN HeardIn(Count) ELSE {}
ShownInv ==
  /\ Mirrors(seg, screen)
  /\ outcome = "running" =>
       /\ Heard \subseteq StableIn(seg, screen) \cup PlacesIn(seg.raw) \cup Pending
       /\ PartUpto(seg, seg.unedited) \subseteq Seen
       /\ job.realtime /\ ~(pc = "edit" /\ task.changed) => PartUpto(seg, seg.offset) \subseteq Seen \cup CoverOf(task.queue)
       /\ pc \in {"return", "resend"} /\ task.force => PlacesIn(seg.raw) \subseteq Seen \cup CoverOf(task.queue)

LEMMA SeenMember ==
  ASSUME NEW scr, NEW n PROVE n \in SeenOf(scr) <=> \E i \in DOMAIN scr : n \in SeenIn(scr[i])
  BY DEF SeenOf
LEMMA StableMember ==
  ASSUME NEW s, NEW scr, NEW n
  PROVE  n \in StableIn(s, scr) <=> \E i \in DOMAIN scr : (\A k \in DOMAIN s.ids : s.ids[k] # i) /\ n \in SeenIn(scr[i])
  BY DEF StableIn, ToSet
LEMMA SeenNow == Seen = SeenOf(screen) /\ Seen' = SeenOf(screen')
  BY DEF Seen, SeenOf, SeenIn

\* What an editable text shows is seen.
LEMMA MirrorSeen ==
  ASSUME NEW s, NEW scr, Mirrors(s, scr), ~s.failed, NEW i \in DOMAIN s.ids
  PROVE  PlacesIn(s.shown[i]) \subseteq SeenOf(scr)
  BY DEF Mirrors, SeenOf, SeenIn

LEMMA MirrorCover ==
  ASSUME NEW s, s \in Segments, Len(s.ids) = Len(s.shown), NEW scr, Mirrors(s, scr), ~s.failed
  PROVE  CoverOf(s.shown) \subseteq SeenOf(scr)
  <1>1. DOMAIN s.ids = DOMAIN s.shown
    <2>1. s.ids \in Seq(Nat) /\ s.shown \in Seq(Seq(Characters))
      BY DEF Segments, Chunks
    <2> QED
      BY <2>1, LenProperties
  <1> QED
    BY <1>1, MirrorSeen DEF CoverOf

\* Where a publish begins, what the text counts as visible is visible.
LEMMA VisiblyNow ==
  ASSUME SaidInv, ShownInv, pc \in {"pull", "edit"}, ~(pc = "edit" /\ task.changed /\ job.realtime)
  PROVE  Visibly(seg, Seen)
  <1>1. outcome = "running" /\ CoverOf(task.queue) = {}
    BY PlacesOfNothing DEF SaidInv, TaskInv, Running, NoTask
  <1>2. PartUpto(seg, seg.unedited) \subseteq Seen /\ (job.realtime => PartUpto(seg, seg.offset) \subseteq Seen)
    BY <1>1 DEF ShownInv
  <1>3. ~seg.failed => CoverOf(seg.shown) \subseteq Seen
    BY MirrorCover, SeenNow DEF SaidInv, TextOk, ShownInv
  <1> QED
    BY <1>2, <1>3 DEF Visibly

\* After it, what is not visible is on its way.
LEMMA ContinueShows ==
  ASSUME SaidInv', outcome' = "running", job' = job,
         NEW s, NEW force \in BOOLEAN, NEW after, NEW o, Decided(o, s, force), Continue(o, force, after),
         Revealing(o, s, force, Seen'),
         o.seg.failed \/ Mirrors(s, screen'),
         PartUpto(s, s.unedited) \subseteq Seen',
         Heard' \subseteq StableIn(s, screen') \cup PlacesIn(s.raw) \cup (IF after = "part" THEN HeardIn(Count') ELSE {})
  PROVE  ShownInv'
  <1>1. /\ pc' = o.pc /\ seg' = o.seg /\ pc' \in Publishing
        /\ task'.force = force /\ task'.after = after /\ task'.queue = Queue(o) /\ task'.changed = FALSE
    BY DEF Continue, Decided
  <1>2. /\ seg'.raw = s.raw /\ seg'.ids = s.ids /\ seg'.shown = s.shown /\ seg'.unedited = s.unedited
        /\ (s.failed => seg'.failed)
    BY <1>1 DEF Decided
  <1>3. Mirrors(seg', screen')
    BY <1>1, <1>2 DEF Mirrors
  <1>4. StableIn(seg', screen') = StableIn(s, screen')
    BY <1>2 DEF StableIn
  <1>5. Pending' = IF after = "part" THEN HeardIn(Count') ELSE {}
    <2>1. pc' # "part"
      BY <1>1 DEF Publishing
    <2>2. HeardIn(Count)' = HeardIn(Count')
      BY DEF HeardIn
    <2> QED
      BY <1>1, <2>1, <2>2 DEF Pending
  <1>6. PartUpto(seg', seg'.unedited) \subseteq Seen' /\ PartUpto(seg', seg'.offset) = PartUpto(s, o.seg.offset)
    BY <1>1, <1>2 DEF PartUpto
  <1>7. job'.realtime => PartUpto(seg', seg'.offset) \subseteq Seen' \cup CoverOf(task'.queue)
    BY <1>1, <1>6 DEF Revealing
  <1>8. pc' \in {"return", "resend"} /\ task'.force => PlacesIn(seg'.raw) \subseteq Seen' \cup CoverOf(task'.queue)
    BY <1>1, <1>2 DEF Revealing
  <1> HIDE DEF Pending
  <1> QED
    BY <1>2, <1>3, <1>4, <1>5, <1>6, <1>7, <1>8 DEF ShownInv

LEMMA PullTextShows ==
  ASSUME SaidInv, ShownInv, SaidInv', PullText PROVE ShownInv'
  <1>1. /\ pc = "pull" /\ Kind \in Texts /\ feed' = Tail(feed)
        /\ UNCHANGED <<job, quote, screen, superSent, outcome>>
        /\ IF Head(feed).ends THEN Publish(Longer, FALSE, "pull")
           ELSE seg' = Longer /\ UNCHANGED <<pc, task>>
    BY DEF PullText, Longer
  <1>2. /\ Begun(Longer) /\ Longer.ids = seg.ids /\ Longer.shown = seg.shown /\ Longer.failed = seg.failed
        /\ Longer.offset = seg.offset /\ Longer.unedited = seg.unedited
        /\ PartUpto(Longer, seg.offset) = PartUpto(seg, seg.offset)
        /\ PartUpto(Longer, seg.unedited) = PartUpto(seg, seg.unedited)
        /\ Heard' = Heard \cup HeardIn(Count')
        /\ PlacesIn(Longer.raw) = PlacesIn(seg.raw) \cup HeardIn(Count')
    BY <1>1, PulledText
  <1>3. outcome = "running" /\ task = NoTask /\ CoverOf(task.queue) = {} /\ Pending = {}
    BY <1>1, PlacesOfNothing DEF SaidInv, TaskInv, Running, NoTask, Pending
  <1>4. Visibly(seg, Seen)
    BY <1>1, VisiblyNow
  <1>5. Seen' = Seen
    BY <1>1, SeenNow
  <1>6. Visibly(Longer, Seen')
    BY <1>2, <1>4, <1>5 DEF Visibly
  <1>7. Mirrors(Longer, screen') /\ StableIn(Longer, screen') = StableIn(seg, screen)
    BY <1>1, <1>2 DEF ShownInv, Mirrors, StableIn
  <1>8. Heard' \subseteq StableIn(Longer, screen') \cup PlacesIn(Longer.raw)
    BY <1>2, <1>3, <1>7 DEF ShownInv
  <1>9. CASE Head(feed).ends
    <2>1. job.realtime \in BOOLEAN
      BY FeedFacts DEF SaidInv
    <2>2. PICK o : /\ Decided(o, Longer, FALSE) /\ Continue(o, FALSE, "pull")
                   /\ \A S : Visibly(Longer, S) => Revealing(o, Longer, FALSE, S)
      BY <1>1, <1>2, <1>9, <2>1, PublishDecided
    <2>3. PartUpto(Longer, Longer.unedited) \subseteq Seen' /\ Revealing(o, Longer, FALSE, Seen')
      BY <1>6, <2>2 DEF Visibly
    <2> QED
      BY <1>1, <1>3, <1>7, <1>8, <2>2, <2>3, ContinueShows
  <1>10. CASE ~Head(feed).ends
    <2>1. seg' = Longer /\ pc' = "pull" /\ task' = NoTask /\ outcome' = "running"
      BY <1>1, <1>3, <1>10
    <2>2. /\ PartUpto(seg', seg'.unedited) \subseteq Seen'
          /\ (job'.realtime => PartUpto(seg', seg'.offset) \subseteq Seen')
      <3>1. PartUpto(Longer, Longer.unedited) \subseteq Seen' /\ (job.realtime => PartUpto(Longer, Longer.offset) \subseteq Seen')
        BY <1>6 DEF Visibly
      <3> QED
        BY <1>1, <2>1, <3>1
    <2>3. Mirrors(seg', screen') /\ Heard' \subseteq StableIn(seg', screen') \cup PlacesIn(seg'.raw)
      BY <1>7, <1>8, <2>1
    <2> QED
      BY <2>1, <2>2, <2>3 DEF ShownInv
  <1> QED
    BY <1>9, <1>10

LEMMA PullReplyShows ==
  ASSUME SaidInv, ShownInv, SaidInv', PullReply PROVE ShownInv'
  <1>1. /\ pc = "pull" /\ Kind = "reply" /\ feed' = Tail(feed)
        /\ UNCHANGED <<job, seg, screen, pc, task, outcome>>
    BY DEF PullReply
  <1>2. feed # <<>> /\ Head(feed).kind = "reply" /\ "reply" \notin Texts \cup {"part"}
    BY <1>1 DEF Kind, Texts
  <1>3. Heard' = Heard \cup HeardIn(Count') /\ job.feed[Count'].kind = "reply"
    BY <1>1, <1>2, TakeItem DEF SaidInv
  <1>4. HeardIn(Count') = {}
    BY <1>2, <1>3 DEF HeardIn
  <1>5. Pending = {} /\ Pending' = {}
    BY <1>1 DEF SaidInv, TaskInv, Pending, NoTask
  <1>6. Seen' = Seen /\ StableIn(seg', screen') = StableIn(seg, screen) /\ Mirrors(seg', screen')
        /\ PartUpto(seg', seg'.unedited) = PartUpto(seg, seg.unedited)
        /\ PartUpto(seg', seg'.offset) = PartUpto(seg, seg.offset)
    BY <1>1, SeenNow DEF ShownInv
  <1> HIDE DEF Pending
  <1> QED
    BY <1>1, <1>3, <1>4, <1>5, <1>6 DEF ShownInv

LEMMA ForcedShows ==
  ASSUME SaidInv, ShownInv, SaidInv', Forced PROVE ShownInv'
  <1>1. /\ pc = "pull" /\ Kind \in {"break", "part", ""} /\ feed' = IF Kind = "" THEN feed ELSE Tail(feed)
        /\ Publish(seg, TRUE, After)
        /\ UNCHANGED <<job, quote, screen, superSent, outcome>>
    BY DEF Forced
  <1>2. outcome = "running" /\ ~seg.final /\ TextOk(seg, Spoken, Heard, Len(screen)) /\ FeedInv /\ Pending = {}
    <2>1. outcome = "running" /\ ~seg.final /\ task = NoTask
      BY <1>1 DEF SaidInv, TaskInv, Running
    <2>2. TextOk(seg, Spoken, Heard, Len(screen)) /\ FeedInv
      BY DEF SaidInv
    <2>3. task.after = "pull"
      BY <2>1 DEF NoTask
    <2> QED
      BY <1>1, <2>1, <2>2, <2>3 DEF Pending
  <1>3. Begun(seg) /\ job.realtime \in BOOLEAN
    BY <1>2, TextShowable, FeedFacts
  <1>4. Heard' \subseteq Heard \cup (IF After = "part" THEN HeardIn(Count') ELSE {})
    <2>1. CASE Kind = ""
      BY <1>1, <1>2, <2>1, SameFeed
    <2>2. CASE Kind # ""
      <3>1. feed # <<>> /\ Head(feed).kind = Kind /\ Kind \notin Texts
        BY <1>1, <2>2 DEF Kind, Texts
      <3>2. Heard' = Heard \cup HeardIn(Count') /\ job.feed[Count'].kind = Kind
        BY <1>1, <2>2, <3>1, TakeItem DEF SaidInv
      <3>3. CASE Kind = "part"
        BY <3>2, <3>3 DEF After
      <3>4. CASE Kind = "break"
        <4>1. HeardIn(Count') = {}
          BY <3>1, <3>2, <3>4 DEF HeardIn
        <4> QED
          BY <3>2, <4>1
      <3> QED
        BY <1>1, <2>2, <3>3, <3>4
    <2> QED
      BY <2>1, <2>2
  <1>5. Visibly(seg, Seen') /\ Mirrors(seg, screen')
    BY <1>1, VisiblyNow, SeenNow DEF ShownInv
  <1>6. PICK o : /\ Decided(o, seg, TRUE) /\ Continue(o, TRUE, After)
                 /\ \A S : Visibly(seg, S) => Revealing(o, seg, TRUE, S)
    BY <1>1, <1>3, PublishDecided
  <1>7. PartUpto(seg, seg.unedited) \subseteq Seen' /\ Revealing(o, seg, TRUE, Seen')
    BY <1>5, <1>6 DEF Visibly
  <1>8. Heard' \subseteq StableIn(seg, screen') \cup PlacesIn(seg.raw) \cup (IF After = "part" THEN HeardIn(Count') ELSE {})
    BY <1>1, <1>2, <1>4 DEF ShownInv
  <1>9. outcome' = "running"
    BY <1>1, <1>2
  <1> QED
    BY <1>1, <1>5, <1>6, <1>7, <1>8, <1>9, ContinueShows

\* A publish that is given up shows what it showed, and the rest is on its way.
LEMMA GiveUpShows ==
  ASSUME SaidInv, ShownInv, SaidInv', pc = "edit", UNCHANGED <<job, feed, outcome>>,
         NEW s, Begun(s), Continue(GiveUp(s, task.force), task.force, task.after), Visibly(s, Seen'),
         s.raw = seg.raw, StableIn(seg, screen) \subseteq StableIn(s, screen')
  PROVE  ShownInv'
  <1>1. /\ outcome' = "running" /\ task.force \in BOOLEAN /\ job.realtime \in BOOLEAN /\ FeedInv /\ outcome = "running"
    BY EditFacts
  <1>2. Heard' = Heard /\ Count' = Count
    BY <1>1, SameFeed
  <1>3. /\ Decided(GiveUp(s, task.force), s, task.force) /\ GiveUp(s, task.force).seg.failed
        /\ Revealing(GiveUp(s, task.force), s, task.force, Seen')
    BY <1>1, GiveUpDecided
  <1>4. Pending = IF task.after = "part" THEN HeardIn(Count) ELSE {}
    BY DEF Pending
  <1>5. Heard' \subseteq StableIn(s, screen') \cup PlacesIn(s.raw) \cup (IF task.after = "part" THEN HeardIn(Count') ELSE {})
    <2> HIDE DEF Pending
    <2> QED
      BY <1>1, <1>2, <1>4 DEF ShownInv
  <1>6. PartUpto(s, s.unedited) \subseteq Seen'
    BY DEF Visibly
  <1> QED
    BY <1>1, <1>3, <1>5, <1>6, ContinueShows

\* A new message is seen, and so is what was seen before.
LEMMA PostSeen ==
  ASSUME NEW old, NEW new, NEW n \in Nat, DOMAIN old = 1 .. n, DOMAIN new = 1 .. n + 1,
         \A i \in 1 .. n : new[i] = old[i]
  PROVE  /\ SeenOf(new) = SeenOf(old) \cup SeenIn(new[n + 1])
         /\ \A s : StableIn(s, old) \subseteq StableIn(s, new)
         /\ \A s : (\A k \in DOMAIN s.ids : s.ids[k] # n + 1) => SeenIn(new[n + 1]) \subseteq StableIn(s, new)
         /\ \A s, t : ToSet(t.ids) \subseteq ToSet(s.ids) \cup {0, n + 1} => StableIn(s, old) \subseteq StableIn(t, new)
  <1>1. n + 1 \in DOMAIN new /\ n + 1 \notin 1 .. n /\ \A i \in DOMAIN new : i \in 1 .. n \/ i = n + 1
    OBVIOUS
  <1>2. SeenOf(new) = SeenOf(old) \cup SeenIn(new[n + 1])
    <2>1. ASSUME NEW x \in SeenOf(new) PROVE x \in SeenOf(old) \cup SeenIn(new[n + 1])
      BY <1>1, <2>1, SeenMember
    <2>2. ASSUME NEW x \in SeenOf(old) PROVE x \in SeenOf(new)
      <3>1. PICK i \in 1 .. n : x \in SeenIn(old[i])
        BY <2>2, SeenMember
      <3>2. i \in DOMAIN new /\ new[i] = old[i]
        BY <3>1
      <3> QED
        BY <3>1, <3>2, SeenMember
    <2>3. SeenIn(new[n + 1]) \subseteq SeenOf(new)
      BY <1>1, SeenMember
    <2> QED
      BY <2>1, <2>2, <2>3
  <1>3. ASSUME NEW s, NEW t, ToSet(t.ids) \subseteq ToSet(s.ids) \cup {0, n + 1}, NEW x \in StableIn(s, old)
        PROVE  x \in StableIn(t, new)
    <2>1. PICK i \in (1 .. n) \ ToSet(s.ids) : x \in SeenIn(old[i])
      BY <1>3 DEF StableIn
    <2>2. i \in DOMAIN new /\ new[i] = old[i] /\ i \notin ToSet(t.ids)
      BY <1>1, <1>3, <2>1
    <2> QED
      BY <2>1, <2>2 DEF StableIn
  <1>4. ASSUME NEW s, \A k \in DOMAIN s.ids : s.ids[k] # n + 1
        PROVE  SeenIn(new[n + 1]) \subseteq StableIn(s, new)
    BY <1>1, <1>4, StableMember
  <1> QED
    BY <1>2, <1>3, <1>4

LEMMA NothingBefore ==
  ASSUME NEW s, s \in Segments PROVE PartUpto(s, 0) = {}
  <1>1. SubSeq(s.raw, 1, 0) = <<>>
    BY SubSeqEmpty DEF Segments
  <1> QED
    BY <1>1, PlacesOfNothing DEF PartUpto

\* Every chunk of the plan before the next one is seen.
LEMMA PlanSeen ==
  ASSUME SaidInv, ShownInv, pc = "edit", Differing # {}
  PROVE  /\ \A k \in 1 .. Upcoming - 1 : PlacesIn(task.plan[k]) = PlacesIn(seg.shown[k]) /\ PlacesIn(task.plan[k]) \subseteq Seen
         /\ DOMAIN seg.ids = 1 .. Len(seg.shown) /\ DOMAIN seg.shown = 1 .. Len(seg.shown)
         /\ seg.unedited = 0
  <1>1. /\ \A k \in 1 .. Upcoming - 1 : k <= Len(seg.shown) /\ Glyphs(task.plan[k]) = Glyphs(seg.shown[k])
        /\ Len(seg.ids) = Len(seg.shown) /\ Len(seg.shown) \in Nat /\ seg \in Segments /\ ~seg.failed
    BY NextChunk
  <1>2. DOMAIN seg.ids = 1 .. Len(seg.shown) /\ DOMAIN seg.shown = 1 .. Len(seg.shown)
    <2>1. seg.ids \in Seq(Nat) /\ seg.shown \in Seq(Seq(Characters))
      BY <1>1 DEF Segments, Chunks
    <2> QED
      BY <1>1, <2>1, LenProperties
  <1>3. ASSUME NEW k \in 1 .. Upcoming - 1
        PROVE  PlacesIn(task.plan[k]) = PlacesIn(seg.shown[k]) /\ PlacesIn(task.plan[k]) \subseteq Seen
    <2>1. k \in DOMAIN seg.ids
      <3>1. k \in Nat /\ 1 <= k
        <4>1. Upcoming \in Nat
          BY NextChunk
        <4> HIDE DEF Upcoming
        <4> QED
          BY <4>1
      <3> QED
        BY <1>1, <1>2, <3>1
    <2>2. PlacesIn(task.plan[k]) = PlacesIn(seg.shown[k])
      BY <1>1, SameGlyphs
    <2>3. PlacesIn(seg.shown[k]) \subseteq Seen
      BY <1>1, <2>1, MirrorSeen, SeenNow DEF ShownInv
    <2> QED
      BY <2>2, <2>3
  <1> QED
    BY <1>1, <1>2, <1>3 DEF ShownInv, Mirrors

LEMMA EditChunkShows ==
  ASSUME ~Halfway, SaidInv, ShownInv, SaidInv', EditChunk PROVE ShownInv'
  <1> DEFINE u == Upcoming
             id == seg.ids[u]
             chars == task.plan[u]
  <1>1. /\ pc = "edit" /\ Differing # {} /\ Upcoming <= Len(seg.ids)
        /\ UNCHANGED <<job, feed, quote, superSent, outcome>>
    BY DEF EditChunk
  <1>2. Heard' = Heard /\ Count' = Count
    BY <1>1, SameFeed DEF SaidInv
  <1>3. /\ \A k \in 1 .. u - 1 : PlacesIn(task.plan[k]) = PlacesIn(seg.shown[k])
        /\ DOMAIN seg.ids = 1 .. Len(seg.shown) /\ DOMAIN seg.shown = 1 .. Len(seg.shown) /\ seg.unedited = 0
    BY <1>1, PlanSeen
  <1>4. /\ u \in 1 .. Len(task.plan) /\ Len(seg.ids) = Len(seg.shown) /\ seg \in Segments /\ ~seg.failed
        /\ Len(seg.shown) \in Nat /\ Len(task.plan) \in Nat
    BY <1>1, NextChunk
  <1> HIDE DEF u
  <1>5. u \in DOMAIN seg.ids /\ u \in Nat /\ u <= Len(seg.shown)
    <2>1. u <= Len(seg.ids)
      BY <1>1 DEF u
    <2> QED
      BY <1>3, <1>4, <2>1
  <1>6. ASSUME screen' = [screen EXCEPT ![id].chars = chars], seg' = Accepted(u),
               task' = [task EXCEPT !.changed = TRUE], pc' = pc
        PROVE  ShownInv'
    <2>1. /\ seg'.raw = seg.raw /\ seg'.ids = seg.ids /\ seg'.failed = seg.failed /\ seg'.unedited = seg.unedited
          /\ Len(seg'.shown) = Len(seg.shown)
          /\ \A k \in 1 .. Len(seg.shown) : seg'.shown[k] = IF k <= u THEN task.plan[k] ELSE seg.shown[k]
      <3>1. LET s == Accepted(Upcoming)
            IN  /\ s.raw = seg.raw /\ s.ids = seg.ids /\ s.failed = seg.failed /\ s.unedited = seg.unedited
                /\ Len(s.shown) = IF Upcoming <= Len(seg.shown) THEN Len(seg.shown) ELSE Upcoming
                /\ \A k \in 1 .. Len(s.shown) : s.shown[k] = IF k <= Upcoming THEN task.plan[k] ELSE seg.shown[k]
        BY <1>1, AcceptedOk
      <3>2. seg' = Accepted(Upcoming) /\ u = Upcoming
        BY <1>6 DEF u
      <3> HIDE DEF Accepted, Upcoming
      <3> QED
        BY <1>5, <3>1, <3>2
    <2>2. /\ \A i, j \in DOMAIN seg.ids : seg.ids[i] = seg.ids[j] => i = j
          /\ \A i \in DOMAIN seg.ids : /\ seg.ids[i] \in DOMAIN screen /\ screen[seg.ids[i]].n = 0
                                       /\ PlacesIn(screen[seg.ids[i]].chars) = PlacesIn(seg.shown[i])
      BY <1>4 DEF ShownInv, Mirrors
    <2>3. id \in DOMAIN screen
      BY <1>5, <2>2
    <2>4. /\ DOMAIN screen' = DOMAIN screen
          /\ \A j \in DOMAIN screen : j # id => screen'[j] = screen[j]
      BY <1>6
    <2>5. screen'[id].n = screen[id].n /\ screen'[id].chars = chars
      <3>1. screen'[id] = [screen[id] EXCEPT !.chars = chars]
        BY <1>6, <2>3
      <3>2. screen[id] \in Messages
        <4>1. screen \in Seq(Messages)
          BY DEF SaidInv, SentInv, ScreenOk
        <4> HIDE DEF id
        <4> QED
          BY <4>1, <2>3, LenProperties
      <3> HIDE DEF id, chars
      <3> QED
        BY <3>1, <3>2 DEF Messages
    <2> HIDE DEF id, chars
    <2>6. ASSUME NEW i \in DOMAIN seg.ids
          PROVE  /\ seg.ids[i] \in DOMAIN screen' /\ screen'[seg.ids[i]].n = 0
                 /\ PlacesIn(screen'[seg.ids[i]].chars) = PlacesIn(seg'.shown[i])
      <3>1. seg'.shown[i] = IF i <= u THEN task.plan[i] ELSE seg.shown[i]
        BY <1>3, <2>1
      <3>2. CASE i = u
        <4>1. seg.ids[i] = id /\ seg'.shown[i] = chars
          BY <1>5, <3>1, <3>2 DEF id, chars
        <4> QED
          BY <2>2, <2>4, <2>5, <4>1
      <3>3. CASE i # u
        <4>1. seg.ids[i] # id
          BY <1>5, <2>2, <3>3 DEF id
        <4>2. screen'[seg.ids[i]] = screen[seg.ids[i]]
          BY <2>2, <2>4, <4>1
        <4>3. PlacesIn(seg'.shown[i]) = PlacesIn(seg.shown[i])
          <5>1. i <= u => i \in 1 .. u - 1
            BY <1>3, <1>5, <3>3
          <5> QED
            BY <1>3, <3>1, <5>1
        <4> QED
          BY <2>2, <2>4, <4>2, <4>3
      <3> QED
        BY <3>2, <3>3
    <2>7. Mirrors(seg', screen')
      BY <1>3, <2>1, <2>2, <2>6 DEF Mirrors
    <2>8. StableIn(seg', screen') = StableIn(seg, screen)
      <3>1. \A i \in DOMAIN screen : (\A k \in DOMAIN seg.ids : seg.ids[k] # i) => screen'[i] = screen[i]
        BY <1>5, <2>4 DEF id
      <3>2. \A n : n \in StableIn(seg', screen') <=> n \in StableIn(seg, screen)
        BY <2>1, <2>4, <3>1, StableMember
      <3> QED
        BY <3>2
    <2>9. task'.after = task.after /\ task'.changed /\ Pending' = Pending
      <3>1. task'.after = task.after /\ task'.changed
        BY <1>6 DEF SaidInv, TaskInv, Publishes
      <3>2. HeardIn(Count)' = HeardIn(Count)
        BY <1>1, <1>2 DEF HeardIn
      <3> QED
        BY <1>6, <3>1, <3>2 DEF Pending
    <2>10. PartUpto(seg', seg'.unedited) = {}
      <3>1. seg' \in Segments /\ seg'.unedited = 0
        BY <1>3, <2>1 DEF SaidInv, TextOk
      <3> QED
        BY <3>1, NothingBefore
    <2>11. Heard' \subseteq StableIn(seg', screen') \cup PlacesIn(seg'.raw) \cup Pending' \/ outcome # "running"
      BY <1>2, <2>1, <2>8, <2>9 DEF ShownInv
    <2> HIDE DEF Pending
    <2> QED
      BY <1>1, <1>6, <2>7, <2>9, <2>10, <2>11 DEF ShownInv
  <1>7. ASSUME Refusable, Continue(GiveUp(seg, task.force), task.force, task.after), UNCHANGED screen
        PROVE  ShownInv'
    <2>1. Visibly(seg, Seen)
      BY <1>1, <1>7, VisiblyNow DEF Refusable
    <2>2. Seen' = Seen /\ StableIn(seg, screen') = StableIn(seg, screen) /\ Begun(seg)
      BY <1>1, <1>7, SeenNow, EditFacts
    <2> QED
      BY <1>1, <1>7, <2>1, <2>2, GiveUpShows
  <1> QED
    BY <1>6, <1>7 DEF EditChunk, Changed, u, id, chars

LEMMA SendChunkShows ==
  ASSUME ~Halfway, SaidInv, ShownInv, SaidInv', SendChunk PROVE ShownInv'
  <1> DEFINE u == Upcoming
             n == Len(screen)
             chars == task.plan[u]
  <1>1. /\ pc = "edit" /\ Differing # {} /\ Upcoming > Len(seg.ids)
        /\ UNCHANGED <<job, feed, outcome>>
    BY DEF SendChunk
  <1>2. Heard' = Heard /\ Count' = Count
    BY <1>1, SameFeed DEF SaidInv
  <1>3. /\ \A k \in 1 .. Upcoming - 1 : PlacesIn(task.plan[k]) = PlacesIn(seg.shown[k]) /\ PlacesIn(task.plan[k]) \subseteq Seen
        /\ DOMAIN seg.ids = 1 .. Len(seg.shown) /\ DOMAIN seg.shown = 1 .. Len(seg.shown) /\ seg.unedited = 0
    BY <1>1, PlanSeen
  <1>4. /\ u \in 1 .. Len(task.plan) /\ Len(seg.ids) = Len(seg.shown) /\ seg \in Segments /\ ~seg.failed
        /\ Len(seg.shown) \in Nat /\ Len(task.plan) \in Nat /\ u = Len(seg.shown) + 1
        /\ chars \in Seq(Characters) /\ PlacesIn(chars) \subseteq Heard /\ task.plan \in Chunks
    <2>1. /\ Upcoming \in 1 .. Len(task.plan) /\ Len(seg.ids) = Len(seg.shown) /\ seg \in Segments /\ ~seg.failed
          /\ Len(seg.shown) \in Nat /\ Len(task.plan) \in Nat /\ Upcoming <= Len(seg.shown) + 1
          /\ task.plan[Upcoming] \in Seq(Characters) /\ PlacesIn(task.plan[Upcoming]) \subseteq Heard /\ task.plan \in Chunks
      BY <1>1, NextChunk
    <2> HIDE DEF Upcoming
    <2>2. Upcoming = Len(seg.shown) + 1
      BY <1>1, <2>1
    <2> QED
      BY <2>1, <2>2
  <1>5. /\ \A i, j \in DOMAIN seg.ids : seg.ids[i] = seg.ids[j] => i = j
        /\ \A i \in DOMAIN seg.ids : /\ seg.ids[i] \in DOMAIN screen /\ screen[seg.ids[i]].n = 0
                                     /\ PlacesIn(screen[seg.ids[i]].chars) = PlacesIn(seg.shown[i])
    BY <1>4 DEF ShownInv, Mirrors
  <1>6. ASSUME Post(0, task.plan[Upcoming])
        PROVE  /\ n \in Nat /\ DOMAIN screen = 1 .. n /\ DOMAIN screen' = 1 .. n + 1
               /\ \A i \in 1 .. n : screen'[i] = screen[i]
               /\ screen'[n + 1].n = 0 /\ screen'[n + 1].chars = chars /\ SeenIn(screen'[n + 1]) = PlacesIn(chars)
    BY <1>2, <1>4, <1>6, PostSays DEF SaidInv
  <1> HIDE DEF u, chars
  <1>7. ASSUME Post(0, task.plan[Upcoming]), seg' = [Accepted(Upcoming) EXCEPT !.ids = Append(@, Len(screen) + 1)],
               task' = [task EXCEPT !.changed = TRUE], pc' = pc
        PROVE  ShownInv'
    <2>1. /\ n \in Nat /\ DOMAIN screen = 1 .. n /\ DOMAIN screen' = 1 .. n + 1
          /\ \A i \in 1 .. n : screen'[i] = screen[i]
          /\ screen'[n + 1].n = 0 /\ screen'[n + 1].chars = chars
      BY <1>6, <1>7
    <2>2. /\ seg.ids \in Seq(Nat) /\ Append(seg.ids, n + 1) \in Seq(Nat) /\ Len(Append(seg.ids, n + 1)) = u
          /\ \A i \in 1 .. Len(seg.shown) : Append(seg.ids, n + 1)[i] = seg.ids[i]
          /\ Append(seg.ids, n + 1)[u] = n + 1
      <3>1. seg.ids \in Seq(Nat) /\ n + 1 \in Nat
        BY <1>4, <2>1 DEF Segments
      <3> QED
        BY <1>4, <3>1, AppendProperties
    <2>3. /\ seg'.raw = seg.raw /\ seg'.ids = Append(seg.ids, n + 1) /\ seg'.failed = seg.failed /\ seg'.unedited = seg.unedited
          /\ \A k \in 1 .. u : seg'.shown[k] = task.plan[k]
      <3>1. LET s == Accepted(Upcoming)
            IN  /\ s \in Segments /\ s.raw = seg.raw /\ s.ids = seg.ids /\ s.failed = seg.failed /\ s.unedited = seg.unedited
                /\ Len(s.shown) = IF Upcoming <= Len(seg.shown) THEN Len(seg.shown) ELSE Upcoming
                /\ \A k \in 1 .. Len(s.shown) : s.shown[k] = IF k <= Upcoming THEN task.plan[k] ELSE seg.shown[k]
        BY <1>1, AcceptedOk
      <3>2. u = Upcoming /\ ~(u <= Len(seg.shown)) /\ u \in Nat /\ \A k \in 1 .. u : k <= u
        BY <1>4 DEF u
      <3> DEFINE s == Accepted(Upcoming)
      <3>3. /\ s \in Segments /\ s.raw = seg.raw /\ s.ids = seg.ids /\ s.failed = seg.failed /\ s.unedited = seg.unedited
            /\ \A k \in 1 .. u : s.shown[k] = task.plan[k]
        BY <3>1, <3>2
      <3>4. seg' = [s EXCEPT !.ids = Append(s.ids, n + 1)]
        BY <1>7
      <3> HIDE DEF s
      <3> QED
        BY <2>2, <3>3, <3>4 DEF Segments
    <2>4. DOMAIN seg'.ids = 1 .. u /\ \A i \in 1 .. u : i \in DOMAIN seg.ids \/ i = u
      BY <1>3, <1>4, <2>2, <2>3, LenProperties
    <2> HIDE DEF n
    <2>5. ASSUME NEW i \in DOMAIN seg'.ids
          PROVE  /\ seg'.ids[i] \in DOMAIN screen' /\ screen'[seg'.ids[i]].n = 0
                 /\ PlacesIn(screen'[seg'.ids[i]].chars) = PlacesIn(seg'.shown[i])
      <3>1. CASE i = u
        <4>1. seg'.ids[i] = n + 1 /\ seg'.shown[i] = chars
          BY <1>4, <2>2, <2>3, <2>4, <3>1 DEF chars
        <4> QED
          BY <2>1, <4>1
      <3>2. CASE i # u
        <4>1. i \in DOMAIN seg.ids /\ seg'.ids[i] = seg.ids[i] /\ i \in 1 .. Upcoming - 1
          <5>1. i \in DOMAIN seg.ids /\ i \in 1 .. Len(seg.shown)
            BY <1>3, <2>4, <3>2
          <5>2. Upcoming - 1 = Len(seg.shown)
            BY <1>4 DEF u
          <5> QED
            BY <2>2, <2>3, <5>1, <5>2
        <4>2. PlacesIn(seg'.shown[i]) = PlacesIn(seg.shown[i])
          BY <1>3, <2>3, <2>4, <4>1
        <4>3. screen'[seg.ids[i]] = screen[seg.ids[i]] /\ seg.ids[i] \in DOMAIN screen'
          BY <1>5, <2>1, <4>1
        <4> QED
          BY <1>5, <4>1, <4>2, <4>3
      <3> QED
        BY <3>1, <3>2
    <2>6. ASSUME NEW i \in DOMAIN seg'.ids, NEW j \in DOMAIN seg'.ids, seg'.ids[i] = seg'.ids[j] PROVE i = j
      <3>1. \A k \in DOMAIN seg'.ids : k # u => k \in DOMAIN seg.ids /\ seg'.ids[k] = seg.ids[k] /\ seg'.ids[k] # n + 1
        <4> SUFFICES ASSUME NEW k \in DOMAIN seg'.ids, k # u
                     PROVE  k \in DOMAIN seg.ids /\ seg'.ids[k] = seg.ids[k] /\ seg'.ids[k] # n + 1
          OBVIOUS
        <4>1. k \in DOMAIN seg.ids /\ seg'.ids[k] = seg.ids[k]
          BY <1>3, <2>2, <2>3, <2>4
        <4>2. seg.ids[k] \in 1 .. n
          BY <1>5, <2>1, <4>1
        <4> QED
          BY <2>1, <4>1, <4>2
      <3>2. seg'.ids[u] = n + 1
        BY <2>2, <2>3
      <3> QED
        BY <1>5, <2>6, <3>1, <3>2
    <2>7. Mirrors(seg', screen')
      BY <1>3, <2>3, <2>5, <2>6 DEF Mirrors
    <2>8. StableIn(seg, screen) \subseteq StableIn(seg', screen')
      <3>1. ToSet(seg'.ids) \subseteq ToSet(seg.ids) \cup {0, n + 1}
        BY <1>3, <2>2, <2>3, <2>4 DEF ToSet
      <3> QED
        BY <2>1, <3>1, PostSeen
    <2>9. task'.after = task.after /\ task'.changed /\ Pending' = Pending
      <3>1. task'.after = task.after /\ task'.changed
        BY <1>7 DEF SaidInv, TaskInv, Publishes
      <3>2. HeardIn(Count)' = HeardIn(Count)
        BY <1>1, <1>2 DEF HeardIn
      <3> QED
        BY <1>7, <3>1, <3>2 DEF Pending
    <2>10. PartUpto(seg', seg'.unedited) = {}
      <3>1. seg' \in Segments /\ seg'.unedited = 0
        BY <1>3, <2>3 DEF SaidInv, TextOk
      <3> QED
        BY <3>1, NothingBefore
    <2>11. Heard' \subseteq StableIn(seg', screen') \cup PlacesIn(seg'.raw) \cup Pending' \/ outcome # "running"
      BY <1>2, <2>3, <2>8, <2>9 DEF ShownInv
    <2> HIDE DEF Pending
    <2> QED
      BY <1>1, <1>7, <2>7, <2>9, <2>10, <2>11 DEF ShownInv
  <1>8. ASSUME Post(0, task.plan[Upcoming]), Continue(GiveUp(Unnamed, task.force), task.force, task.after),
               Upcoming = Len(task.plan)
        PROVE  ShownInv'
    <2>1. /\ n \in Nat /\ DOMAIN screen = 1 .. n /\ DOMAIN screen' = 1 .. n + 1
          /\ \A i \in 1 .. n : screen'[i] = screen[i]
          /\ SeenIn(screen'[n + 1]) = PlacesIn(chars)
      BY <1>6, <1>8
    <2> HIDE DEF n
    <2>2. Seen' = Seen \cup PlacesIn(chars)
      <3>1. SeenOf(screen') = SeenOf(screen) \cup SeenIn(screen'[n + 1])
        BY <2>1, PostSeen
      <3> QED
        BY <2>1, <3>1, SeenNow
    <2>3. CoverOf(task.plan) \subseteq Seen'
      <3> SUFFICES ASSUME NEW i \in DOMAIN task.plan PROVE PlacesIn(task.plan[i]) \subseteq Seen'
        BY DEF CoverOf
      <3>1. i \in 1 .. Len(task.plan)
        BY <1>4, LenProperties DEF Chunks
      <3>2. CASE i = u
        BY <2>2, <3>2 DEF chars
      <3>3. CASE i # u
        <4>1. i \in 1 .. Upcoming - 1
          BY <1>4, <1>8, <3>1, <3>3 DEF u
        <4> QED
          BY <1>3, <2>2, <4>1
      <3> QED
        BY <3>2, <3>3
    <2>4. PlacesIn(seg.raw) \subseteq Seen'
      BY <1>1, <2>3 DEF SaidInv, TaskInv
    <2>5. /\ Unnamed.raw = seg.raw /\ Unnamed.offset = Len(seg.raw) /\ Unnamed.unedited = Len(seg.raw)
          /\ Unnamed.shown = SubSeq(task.plan, 1, Upcoming) /\ Begun(Unnamed) /\ Unnamed \in Segments
          /\ Len(Unnamed.ids) = Len(seg.ids) + 1 /\ Len(seg.ids) + 1 = Upcoming
          /\ \A i \in 1 .. Len(seg.ids) : Unnamed.ids[i] = seg.ids[i]
          /\ Unnamed.ids[Upcoming] = 0
      BY <1>1, UnnamedOk
    <2>6. SubSeq(task.plan, 1, Upcoming) = task.plan
      BY <1>4, <1>8, SubSeqFull DEF Chunks
    <2>7. SubSeq(seg.raw, 1, Len(seg.raw)) = seg.raw
      <3>1. seg.raw \in Seq(Characters)
        BY <1>4 DEF Segments
      <3> QED
        BY <3>1, SubSeqFull
    <2>8. Visibly(Unnamed, Seen')
      BY <2>3, <2>4, <2>5, <2>6, <2>7 DEF Visibly, PartUpto
    <2>9. StableIn(seg, screen) \subseteq StableIn(Unnamed, screen')
      <3>1. ToSet(Unnamed.ids) \subseteq ToSet(seg.ids) \cup {0, n + 1}
        <4>1. DOMAIN Unnamed.ids = 1 .. Upcoming
          <5>1. Unnamed.ids \in Seq(Nat)
            BY <2>5 DEF Segments
          <5> QED
            BY <2>5, <5>1, LenProperties
        <4>2. ASSUME NEW i \in DOMAIN Unnamed.ids PROVE Unnamed.ids[i] \in ToSet(seg.ids) \cup {0, n + 1}
          <5>1. i = Upcoming \/ i \in 1 .. Len(seg.ids)
            BY <1>4, <2>5, <4>1
          <5>2. i \in 1 .. Len(seg.ids) => i \in DOMAIN seg.ids
            BY <1>3, <1>4
          <5> QED
            BY <2>5, <5>1, <5>2 DEF ToSet
        <4> QED
          BY <4>2 DEF ToSet
      <3> QED
        BY <2>1, <3>1, PostSeen
    <2> QED
      BY <1>1, <1>8, <2>5, <2>8, <2>9, GiveUpShows
  <1>9. ASSUME Refusable, Continue(GiveUp(seg, task.force), task.force, task.after), UNCHANGED screen
        PROVE  ShownInv'
    <2>1. Visibly(seg, Seen)
      BY <1>1, <1>9, VisiblyNow DEF Refusable
    <2>2. Seen' = Seen /\ StableIn(seg, screen') = StableIn(seg, screen) /\ Begun(seg)
      BY <1>1, <1>9, SeenNow, EditFacts
    <2> QED
      BY <1>1, <1>9, <2>1, <2>2, GiveUpShows
  <1> QED
    BY <1>7, <1>8, <1>9 DEF SendChunk, Changed

LEMMA AllShownShows ==
  ASSUME SaidInv, ShownInv, SaidInv', AllShown PROVE ShownInv'
  <1>1. /\ pc = "edit" /\ Differing = {} /\ seg' = [seg EXCEPT !.offset = Len(seg.raw)] /\ pc' = "return"
        /\ UNCHANGED <<job, feed, quote, screen, superSent, task, outcome>>
    BY DEF AllShown
  <1>2. Heard' = Heard /\ Count' = Count
    BY <1>1, SameFeed DEF SaidInv
  <1>3. /\ seg \in Segments /\ ~seg.failed /\ outcome = "running" /\ task.plan \in Chunks
        /\ CoverOf(task.plan) = PlacesIn(seg.raw) /\ Len(seg.ids) = Len(seg.shown)
    BY <1>1 DEF SaidInv, TaskInv, TextOk, Running, Publishes
  <1>4. /\ seg'.raw = seg.raw /\ seg'.ids = seg.ids /\ seg'.shown = seg.shown /\ seg'.failed = seg.failed
        /\ seg'.unedited = seg.unedited
    BY <1>1, <1>3 DEF Segments
  <1>5. PlacesIn(seg.raw) \subseteq Seen
    <2>1. CoverOf(seg.shown) \subseteq Seen
      BY <1>3, MirrorCover, SeenNow DEF ShownInv
    <2>2. ASSUME NEW i \in DOMAIN task.plan PROVE PlacesIn(task.plan[i]) \subseteq CoverOf(seg.shown)
      <3>1. i \in 1 .. Len(task.plan) /\ DOMAIN seg.shown = 1 .. Len(seg.shown) /\ Len(seg.shown) \in Nat
        BY <1>3, LenProperties DEF Chunks, Segments
      <3>2. i <= Len(seg.shown) /\ Glyphs(task.plan[i]) = Glyphs(seg.shown[i])
        BY <1>1, <3>1 DEF Differing
      <3>3. PlacesIn(task.plan[i]) = PlacesIn(seg.shown[i]) /\ i \in DOMAIN seg.shown
        BY <3>1, <3>2, SameGlyphs
      <3> QED
        BY <3>3 DEF CoverOf
    <2>3. CoverOf(task.plan) \subseteq CoverOf(seg.shown)
      BY <2>2, CoverMember
    <2> QED
      BY <1>3, <2>1, <2>3
  <1>6. \A i : PartUpto(seg', i) = PartUpto(seg, i)
    BY <1>4 DEF PartUpto
  <1>7. PartUpto(seg', seg'.offset) \subseteq Seen'
    <2>1. seg'.offset = Len(seg.raw)
      BY <1>1, <1>3 DEF Segments
    <2>2. SubSeq(seg.raw, 1, Len(seg.raw)) = seg.raw
      <3>1. seg.raw \in Seq(Characters)
        BY <1>3 DEF Segments
      <3> QED
        BY <3>1, SubSeqFull
    <2> QED
      BY <1>1, <1>4, <1>5, <2>1, <2>2, SeenNow DEF PartUpto
  <1>8. Seen' = Seen /\ Mirrors(seg', screen') /\ StableIn(seg', screen') = StableIn(seg, screen)
    BY <1>1, <1>4, SeenNow DEF ShownInv, Mirrors, StableIn
  <1>9. Pending' = Pending
    <2>1. HeardIn(Count)' = HeardIn(Count)
      BY <1>1, <1>2 DEF HeardIn
    <2> QED
      BY <1>1, <2>1 DEF Pending
  <1> HIDE DEF Pending
  <1> QED
    BY <1>1, <1>2, <1>3, <1>4, <1>5, <1>6, <1>7, <1>8, <1>9 DEF ShownInv

\* The parts of ShownInv that a reply at its end keeps.
LEMMA EndShows ==
  ASSUME ShownInv, Mirrors(seg', screen'), outcome' # "running" PROVE ShownInv'
  BY DEF ShownInv

LEMMA RaiseShows ==
  ASSUME ShownInv, Raise, UNCHANGED screen PROVE ShownInv'
  <1>1. seg' = seg /\ outcome' = "failed"
    BY DEF Raise
  <1>2. Mirrors(seg', screen')
    BY <1>1 DEF ShownInv
  <1> QED
    BY <1>1, <1>2, EndShows

LEMMA ResendShows ==
  ASSUME SaidInv, ShownInv, SaidInv', Resend PROVE ShownInv'
  <1> DEFINE n == Len(screen)
  <1>1. pc = "resend" /\ task.queue # <<>> /\ UNCHANGED <<job, feed>>
    BY DEF Resend
  <1>2. Heard' = Heard /\ Count' = Count
    BY <1>1, SameFeed DEF SaidInv
  <1>3. task.queue \in Chunks /\ CoverOf(task.queue) \subseteq Heard /\ task \in Publishes /\ outcome = "running"
    BY <1>1 DEF SaidInv, TaskInv, Publishes, TextOk, Running
  <1>4. Head(task.queue) \in Seq(Characters) /\ Tail(task.queue) \in Chunks
        /\ CoverOf(task.queue) = PlacesIn(Head(task.queue)) \cup CoverOf(Tail(task.queue))
    BY <1>1, <1>3, HeadOfQueue
  <1>5. ASSUME Post(0, Head(task.queue)), task' = [task EXCEPT !.queue = Tail(@)], UNCHANGED <<seg, pc, outcome>>
        PROVE  ShownInv'
    <2>1. /\ n \in Nat /\ DOMAIN screen = 1 .. n /\ DOMAIN screen' = 1 .. n + 1
          /\ \A i \in 1 .. n : screen'[i] = screen[i]
          /\ SeenIn(screen'[n + 1]) = PlacesIn(Head(task.queue))
      <3>1. PlacesIn(Head(task.queue)) \subseteq Heard
        BY <1>3, <1>4
      <3> QED
        BY <1>2, <1>4, <1>5, <3>1, PostSays DEF SaidInv
    <2> HIDE DEF n
    <2>2. SeenOf(screen') = SeenOf(screen) \cup SeenIn(screen'[n + 1]) /\ StableIn(seg, screen) \subseteq StableIn(seg, screen')
      BY <2>1, PostSeen
    <2>3. /\ task'.force = task.force /\ task'.after = task.after /\ task'.queue = Tail(task.queue)
      BY <1>3, <1>5 DEF Publishes
    <2>4. Seen' \cup CoverOf(task'.queue) = Seen \cup CoverOf(task.queue) /\ Seen \subseteq Seen'
      BY <1>4, <2>1, <2>2, <2>3, SeenNow
    <2>5. Mirrors(seg', screen')
      <3>1. Mirrors(seg, screen)
        BY DEF ShownInv
      <3>2. \A i \in DOMAIN screen : i \in DOMAIN screen' /\ screen'[i] = screen[i]
        BY <2>1
      <3> QED
        BY <1>5, <3>1, <3>2 DEF Mirrors
    <2>6. Pending' = Pending
      <3>1. HeardIn(Count)' = HeardIn(Count)
        BY <1>1, <1>2 DEF HeardIn
      <3> QED
        BY <1>5, <2>3, <3>1 DEF Pending
    <2>7. \A i : PartUpto(seg', i) = PartUpto(seg, i)
      BY <1>5 DEF PartUpto
    <2>8. StableIn(seg, screen) \subseteq StableIn(seg', screen')
      BY <1>5, <2>2
    <2> HIDE DEF Pending
    <2> QED
      BY <1>1, <1>2, <1>3, <1>5, <2>3, <2>4, <2>5, <2>6, <2>7, <2>8 DEF ShownInv
  <1>6. ASSUME Raise, UNCHANGED screen PROVE ShownInv'
    BY <1>6, RaiseShows
  <1> QED
    BY <1>5, <1>6 DEF Resend

\* A new text has no message yet: all that is seen stays.
LEMMA FreshShows ==
  ASSUME NEW scr PROVE Mirrors(Fresh, scr) /\ StableIn(Fresh, scr) = SeenOf(scr) /\ PlacesIn(Fresh.raw) = {}
                       /\ PartUpto(Fresh, Fresh.unedited) = {} /\ PartUpto(Fresh, Fresh.offset) = {}
  <1>1. Fresh.ids = <<>> /\ Fresh.raw = <<>> /\ Fresh.unedited = 0 /\ Fresh.offset = 0
    BY DEF Fresh
  <1>2. DOMAIN <<>> = {} /\ ToSet(<<>>) = {} /\ SubSeq(<<>>, 1, 0) = <<>>
    BY EmptySeq, SubSeqEmpty DEF ToSet
  <1> HIDE DEF Fresh
  <1> QED
    BY <1>1, <1>2, PlacesOfNothing DEF Mirrors, StableIn, SeenOf, PartUpto

LEMMA ReturnedShows ==
  ASSUME SaidInv, ShownInv, SaidInv', Returned PROVE ShownInv'
  <1>1. /\ pc = "return" \/ (pc = "resend" /\ task.queue = <<>>)
        /\ pc' = (CASE task.after \in {"pull", "break"} -> "pull" [] task.after = "part" -> "part" [] OTHER -> "ack")
        /\ seg' = (IF task.after \in {"break", "part"} THEN Fresh ELSE seg)
        /\ outcome' = (IF task.after = "end" THEN "done" ELSE outcome)
        /\ task' = NoTask
        /\ UNCHANGED <<job, feed, quote, screen, superSent>>
    BY DEF Returned
  <1>2. Heard' = Heard /\ Count' = Count /\ Seen' = Seen
    BY <1>1, SameFeed, SeenNow DEF SaidInv
  <1>3. outcome = "running" /\ task.after \in {"pull", "break", "part", "end"} /\ (task.force <=> task.after # "pull")
        /\ task.queue = <<>>
    BY <1>1 DEF SaidInv, TaskInv, Publishes, Running
  <1>4. CoverOf(task.queue) = {} /\ CoverOf(task'.queue) = {} /\ task'.after = "pull" /\ pc # "part" /\ pc # "edit"
    BY <1>1, <1>3, PlacesOfNothing DEF NoTask
  <1>5. /\ Heard \subseteq StableIn(seg, screen) \cup PlacesIn(seg.raw) \cup Pending
        /\ PartUpto(seg, seg.unedited) \subseteq Seen
        /\ (job.realtime => PartUpto(seg, seg.offset) \subseteq Seen)
        /\ (task.force => PlacesIn(seg.raw) \subseteq Seen)
    BY <1>1, <1>3, <1>4 DEF ShownInv
  <1>6. Pending = (IF task.after = "part" THEN HeardIn(Count) ELSE {})
        /\ Pending' = (IF pc' = "part" THEN HeardIn(Count) ELSE {})
    <2>1. HeardIn(Count)' = HeardIn(Count)
      BY <1>1, <1>2 DEF HeardIn
    <2> QED
      BY <1>4, <2>1 DEF Pending
  <1> HIDE DEF Pending
  <1>7. CASE task.after = "end"
    <2>1. outcome' # "running" /\ Mirrors(seg', screen')
      BY <1>1, <1>7 DEF ShownInv
    <2> QED
      BY <2>1, EndShows
  <1>8. CASE task.after = "pull"
    <2>1. pc' = "pull" /\ seg' = seg /\ screen' = screen /\ job' = job /\ outcome' = "running"
      BY <1>1, <1>3, <1>8
    <2>2. Mirrors(seg', screen') /\ StableIn(seg', screen') = StableIn(seg, screen)
      BY <2>1 DEF ShownInv
    <2>3. \A i : PartUpto(seg', i) = PartUpto(seg, i)
      BY <2>1
    <2> QED
      BY <1>2, <1>4, <1>5, <1>6, <1>8, <2>1, <2>2, <2>3 DEF ShownInv
  <1>9. CASE task.after \in {"break", "part"}
    <2>1. /\ seg' = Fresh /\ screen' = screen /\ outcome' = "running" /\ pc' \in {"pull", "part"}
          /\ (pc' = "part" <=> task.after = "part")
      BY <1>1, <1>3, <1>9
    <2>2. /\ Mirrors(seg', screen') /\ StableIn(seg', screen') = Seen /\ PlacesIn(seg'.raw) = {}
          /\ PartUpto(seg', seg'.unedited) = {} /\ PartUpto(seg', seg'.offset) = {}
      BY <2>1, FreshShows, SeenNow
    <2>3. StableIn(seg, screen) \subseteq Seen
      BY SeenNow DEF StableIn, SeenOf
    <2>4. Heard' \subseteq StableIn(seg', screen') \cup PlacesIn(seg'.raw) \cup Pending'
      BY <1>2, <1>3, <1>5, <1>6, <1>9, <2>1, <2>2, <2>3
    <2> QED
      BY <2>1, <2>2, <2>4 DEF ShownInv
  <1> QED
    BY <1>3, <1>7, <1>8, <1>9

LEMMA SendPartShows ==
  ASSUME SaidInv, ShownInv, SaidInv', SendPart PROVE ShownInv'
  <1> DEFINE n == Len(screen)
             place == Base - Stride + 1
  <1>1. pc = "part" /\ UNCHANGED <<job, feed>>
    BY DEF SendPart
  <1>2. Heard' = Heard /\ Count' = Count
    BY <1>1, SameFeed DEF SaidInv
  <1>3. task = NoTask /\ seg = Fresh /\ Count > 0 /\ job.feed[Count].kind = "part" /\ outcome = "running"
    BY <1>1 DEF SaidInv, TaskInv, Running
  <1>4. place \in Nat /\ place # 0 /\ {place} \subseteq Heard /\ HeardIn(Count) = {place}
    BY <1>3, PartPlace DEF SaidInv
  <1> HIDE DEF place
  <1>5. ASSUME Post(place, <<>>), pc' = "pull", UNCHANGED <<seg, task, outcome>> PROVE ShownInv'
    <2>1. /\ n \in Nat /\ DOMAIN screen = 1 .. n /\ DOMAIN screen' = 1 .. n + 1
          /\ \A i \in 1 .. n : screen'[i] = screen[i]
          /\ SeenIn(screen'[n + 1]) = {place}
      <3>1. <<>> \in Seq(Characters)
        BY EmptySeq
      <3> QED
        BY <1>2, <1>4, <1>5, <3>1, PostSays DEF SaidInv
    <2> HIDE DEF n
    <2>2. SeenOf(screen') = SeenOf(screen) \cup {place}
      <3>1. SeenOf(screen') = SeenOf(screen) \cup SeenIn(screen'[n + 1])
        BY <2>1, PostSeen
      <3> QED
        BY <2>1, <3>1
    <2>3. /\ Mirrors(Fresh, screen') /\ StableIn(Fresh, screen') = SeenOf(screen')
          /\ StableIn(Fresh, screen) = SeenOf(screen) /\ PlacesIn(Fresh.raw) = {}
          /\ PartUpto(Fresh, Fresh.unedited) = {} /\ PartUpto(Fresh, Fresh.offset) = {}
      BY FreshShows
    <2>4. Pending = {place}
      BY <1>1, <1>4 DEF Pending
    <2>5. seg' = Fresh /\ outcome' = "running"
      BY <1>3, <1>5
    <2>6. Heard' \subseteq StableIn(seg', screen') \cup PlacesIn(seg'.raw)
      BY <1>2, <1>3, <2>2, <2>3, <2>4, <2>5 DEF ShownInv
    <2> HIDE DEF Pending
    <2> QED
      BY <1>5, <2>3, <2>5, <2>6 DEF ShownInv
  <1>6. ASSUME Raise, UNCHANGED screen PROVE ShownInv'
    BY <1>6, RaiseShows
  <1> QED
    BY <1>5, <1>6 DEF SendPart, place

\* The end of a reply, and what the other reply does.
LEMMA OverShows ==
  ASSUME SaidInv, ShownInv, SaidInv', UNCHANGED <<job, feed, seg, screen, task, outcome>>,
         pc' = pc \/ (pc \notin Running /\ pc' \in {"stop", "hook", "over"})
  PROVE  ShownInv'
  <1>1. Mirrors(seg', screen')
    BY DEF ShownInv
  <1>2. CASE outcome' # "running"
    BY <1>1, <1>2, EndShows
  <1>3. CASE outcome' = "running"
    <2>1. pc' = pc /\ Heard' = Heard /\ Count' = Count /\ Seen' = Seen
      BY <1>3, SameFeed, SeenNow DEF SaidInv, TaskInv
    <2>2. Pending' = Pending
      <3>1. HeardIn(Count)' = HeardIn(Count)
        BY <2>1 DEF HeardIn
      <3> QED
        BY <2>1, <3>1 DEF Pending
    <2> HIDE DEF Pending
    <2> QED
      BY <1>1, <2>1, <2>2 DEF ShownInv
  <1> QED
    BY <1>2, <1>3

LEMMA InitShows == Init => ShownInv
  <1> SUFFICES ASSUME Init PROVE ShownInv
    OBVIOUS
  <1>1. /\ job \in Jobs /\ feed = job.feed /\ seg = Fresh /\ screen = <<>> /\ pc = "pull" /\ task = NoTask
    BY DEF Init
  <1>2. Len(job.feed) \in Nat
    BY <1>1, ReplyAssumption, LenProperties
  <1>3. Heard = {}
    <2>1. Taken = {}
      BY <1>1, <1>2 DEF Taken
    <2> QED
      BY <2>1 DEF Heard
  <1>4. /\ Mirrors(seg, screen) /\ PartUpto(seg, seg.unedited) = {} /\ PartUpto(seg, seg.offset) = {}
    BY <1>1, FreshShows
  <1> QED
    BY <1>1, <1>3, <1>4 DEF ShownInv

LEMMA ShownStep == ~Halfway /\ SaidInv /\ ShownInv /\ SaidInv' /\ [Next]_vars => ShownInv'
  <1> SUFFICES ASSUME ~Halfway, SaidInv, ShownInv, SaidInv', [Next]_vars PROVE ShownInv'
    OBVIOUS
  <1>1. CASE PullText
    BY <1>1, PullTextShows
  <1>2. CASE PullReply
    BY <1>2, PullReplyShows
  <1>3. CASE Forced
    BY <1>3, ForcedShows
  <1>4. CASE EditChunk
    BY <1>4, EditChunkShows
  <1>5. CASE SendChunk
    BY <1>5, SendChunkShows
  <1>6. CASE AllShown
    BY <1>6, AllShownShows
  <1>7. CASE Resend
    BY <1>7, ResendShows
  <1>8. CASE Returned
    BY <1>8, ReturnedShows
  <1>9. CASE SendPart
    BY <1>9, SendPartShows
  <1>10. CASE GeneratorFails
    BY <1>10, RaiseShows DEF GeneratorFails
  <1>11. CASE Acknowledge
    BY <1>11, OverShows DEF Acknowledge, Running
  <1>12. CASE StopTyping
    BY <1>12, OverShows DEF StopTyping, Running
  <1>13. CASE Release
    BY <1>13, OverShows DEF Release, Running
  <1>14. CASE OtherStarts \/ OtherStops \/ OtherEnds
    BY <1>14, OverShows DEF OtherStarts, OtherStops, OtherEnds, reply
  <1>15. CASE UNCHANGED vars
    BY <1>15, OverShows DEF vars, reply
  <1> QED
    BY <1>1, <1>2, <1>3, <1>4, <1>5, <1>6, <1>7, <1>8, <1>9, <1>10, <1>11, <1>12, <1>13, <1>14, <1>15 DEF Next, Step

-----------------------------------------------------------------------------
(* The steps of a reply are those of VisibleReply.                         *)
Promised == Promise!Say \/ Promise!Show \/ Promise!Finish \/ Promise!Abort

LEMMA Says ==
  ASSUME outcome = "running", UNCHANGED <<screen, superSent, outcome>>, Heard \subseteq Heard'
  PROVE  Promised
  <1>1. Seen' = Seen
    BY SeenNow
  <1> QED
    BY <1>1 DEF Promised, Promise!Say

LEMMA FeedGrows ==
  ASSUME SaidInv, job' = job, feed' = feed \/ (feed # <<>> /\ feed' = Tail(feed))
  PROVE  Heard \subseteq Heard'
  <1>1. CASE feed' = feed
    BY <1>1, SameFeed DEF SaidInv
  <1>2. CASE feed # <<>> /\ feed' = Tail(feed)
    BY <1>2, TakeItem DEF SaidInv
  <1> QED
    BY <1>1, <1>2

\* A message is posted or edited.
LEMMA Shows ==
  ASSUME SaidInv, SaidInv', UNCHANGED <<job, feed, outcome>>, outcome = "running", superSent' = TRUE
  PROVE  Promised
  <1>1. Heard' = Heard
    BY SameFeed DEF SaidInv
  <1>2. Seen' \subseteq Heard
    BY <1>1, SeenNow DEF SaidInv, SentInv, ScreenOk, SeenOf
  <1> QED
    BY <1>1, <1>2 DEF Promised, Promise!Show

LEMMA Aborts ==
  ASSUME SaidInv, outcome = "running", Raise, UNCHANGED <<job, feed, screen, superSent>>
  PROVE  Promised
  <1>1. Heard' = Heard /\ Seen' = Seen /\ outcome' = "failed"
    BY SameFeed, SeenNow DEF SaidInv, Raise
  <1> QED
    BY <1>1 DEF Promised, Promise!Abort

\* Nothing of what the promise is about changes.
LEMMA Stutters ==
  ASSUME SaidInv, UNCHANGED <<job, feed, screen, superSent, outcome>> PROVE UNCHANGED Promise!reply
  <1>1. Heard' = Heard /\ Seen' = Seen
    BY SameFeed, SeenNow DEF SaidInv
  <1> QED
    BY <1>1 DEF Promise!reply

\* All that was said is seen when a reply ends well.
LEMMA AllSeen ==
  ASSUME SaidInv, ShownInv, pc = "return" \/ (pc = "resend" /\ task.queue = <<>>), task.after = "end"
  PROVE  Seen = Heard
  <1>1. outcome = "running" /\ task.force /\ task.queue = <<>>
    BY DEF SaidInv, TaskInv, Running
  <1>2. CoverOf(task.queue) = {} /\ Pending = {}
    BY <1>1, PlacesOfNothing DEF Pending
  <1>3. PlacesIn(seg.raw) \subseteq Seen /\ Heard \subseteq StableIn(seg, screen) \cup PlacesIn(seg.raw)
    BY <1>1, <1>2 DEF ShownInv
  <1>4. StableIn(seg, screen) \subseteq Seen
    BY SeenNow DEF StableIn, SeenOf
  <1>5. Seen \subseteq Heard
    BY SeenNow DEF SaidInv, SentInv, ScreenOk, SeenOf
  <1> QED
    BY <1>3, <1>4, <1>5

LEMMA PromiseStep ==
  ASSUME SaidInv, ShownInv, SaidInv', [Next]_vars
  PROVE  Promised \/ UNCHANGED Promise!reply
  <1>1. pc \in {"pull", "edit", "resend", "return", "part"} => outcome = "running"
    BY DEF SaidInv, TaskInv, Running
  <1>2. CASE PullText \/ PullReply
    <2>1. /\ pc = "pull" /\ feed # <<>> /\ feed' = Tail(feed) /\ UNCHANGED <<job, screen, superSent, outcome>>
      BY <1>2 DEF PullText, PullReply, Kind, Texts
    <2> QED
      BY <1>1, <2>1, FeedGrows, Says
  <1>3. CASE Forced
    <2>1. /\ pc = "pull" /\ feed' = IF Kind = "" THEN feed ELSE Tail(feed)
          /\ UNCHANGED <<job, screen, superSent, outcome>>
      BY <1>3 DEF Forced
    <2>2. Kind # "" => feed # <<>>
      BY DEF Kind
    <2> QED
      BY <1>1, <2>1, <2>2, FeedGrows, Says
  <1>4. CASE EditChunk
    <2>1. /\ pc = "edit" /\ Differing # {} /\ Upcoming <= Len(seg.ids) /\ UNCHANGED <<job, feed, superSent, outcome>>
      BY <1>4 DEF EditChunk
    <2>2. CASE UNCHANGED screen
      BY <2>1, <2>2, Stutters
    <2>3. CASE seg.ids[Upcoming] # 0
      <3>1. screen # <<>>
        <4>1. Upcoming \in DOMAIN seg.ids
          <5>1. Upcoming \in 1 .. Len(task.plan) /\ seg \in Segments
            BY <2>1, NextChunk
          <5>2. seg.ids \in Seq(Nat)
            BY <5>1 DEF Segments
          <5>3. Upcoming \in Nat /\ 1 <= Upcoming
            <6> HIDE DEF Upcoming
            <6> QED
              BY <5>1
          <5> QED
            BY <2>1, <5>2, <5>3, LenProperties
        <4>2. seg.ids[Upcoming] \in 0 .. Len(screen)
          BY <4>1 DEF SaidInv, TextOk
        <4>3. Len(<<>>) = 0
          BY EmptySeq
        <4> HIDE DEF Upcoming
        <4> QED
          BY <2>3, <4>2, <4>3
      <3>2. superSent' = TRUE
        BY <2>1, <3>1 DEF SaidInv, SentInv
      <3> QED
        BY <1>1, <2>1, <3>2, Shows
    <2> QED
      BY <1>4, <2>2, <2>3 DEF EditChunk
  <1>5. CASE SendChunk
    <2>1. pc = "edit" /\ UNCHANGED <<job, feed, outcome>>
      BY <1>5 DEF SendChunk
    <2>2. superSent' = TRUE \/ UNCHANGED <<screen, superSent>>
      BY <1>5 DEF SendChunk, Post
    <2> QED
      BY <1>1, <2>1, <2>2, Shows, Stutters
  <1>6. CASE AllShown
    BY <1>6, Stutters DEF AllShown
  <1>7. CASE Resend \/ SendPart
    <2>1. pc \in {"resend", "part"} /\ UNCHANGED <<job, feed>>
      BY <1>7 DEF Resend, SendPart
    <2>2. (superSent' = TRUE /\ outcome' = outcome) \/ (Raise /\ UNCHANGED <<screen, superSent>>)
      BY <1>7 DEF Resend, SendPart, Post
    <2> QED
      BY <1>1, <2>1, <2>2, Shows, Aborts
  <1>8. CASE Returned
    <2>1. /\ pc = "return" \/ (pc = "resend" /\ task.queue = <<>>)
          /\ outcome' = (IF task.after = "end" THEN "done" ELSE outcome)
          /\ UNCHANGED <<job, feed, screen, superSent>>
      BY <1>8 DEF Returned
    <2>2. CASE task.after # "end"
      BY <2>1, <2>2, Stutters
    <2>3. CASE task.after = "end"
      <3>1. Seen = Heard /\ Heard' = Heard /\ Seen' = Seen /\ outcome' = "done" /\ outcome = "running"
        BY <1>1, <2>1, <2>3, AllSeen, SameFeed, SeenNow DEF SaidInv
      <3> QED
        BY <2>1, <3>1 DEF Promised, Promise!Finish
    <2> QED
      BY <2>2, <2>3
  <1>9. CASE GeneratorFails
    <2>1. pc = "pull" /\ Raise /\ UNCHANGED <<job, feed, screen, superSent>>
      BY <1>9 DEF GeneratorFails
    <2> QED
      BY <1>1, <2>1, Aborts
  <1>10. CASE Acknowledge \/ StopTyping \/ Release
    BY <1>10, Stutters DEF Acknowledge, StopTyping, Release
  <1>11. CASE OtherStarts \/ OtherStops \/ OtherEnds
    BY <1>11, Stutters DEF OtherStarts, OtherStops, OtherEnds, reply
  <1>12. CASE UNCHANGED vars
    BY <1>12, Stutters DEF vars, reply
  <1> QED
    BY <1>2, <1>3, <1>4, <1>5, <1>6, <1>7, <1>8, <1>9, <1>10, <1>11, <1>12 DEF Next, Step

LEMMA PromiseBegins == Init => Promise!Init
  <1> SUFFICES ASSUME Init PROVE Promise!Init
    OBVIOUS
  <1>1. job \in Jobs /\ feed = job.feed /\ screen = <<>> /\ superSent = FALSE /\ outcome = "running"
    BY DEF Init
  <1>2. Len(job.feed) \in Nat
    BY <1>1, ReplyAssumption, LenProperties
  <1>3. Heard = {}
    <2>1. Taken = {}
      BY <1>1, <1>2 DEF Taken
    <2> QED
      BY <2>1 DEF Heard
  <1>4. Seen = {}
    BY <1>1 DEF Seen
  <1> QED
    BY <1>1, <1>3, <1>4 DEF Promise!Init

LEMMA ShownHolds == ASSUME ~Halfway PROVE Spec => [](SaidInv /\ ShownInv)
  <1>1. Init => SaidInv /\ ShownInv
    BY InitSays, InitShows
  <1>2. SaidInv /\ ShownInv /\ [Next]_vars => (SaidInv /\ ShownInv)'
    BY SaidStep, ShownStep
  <1> QED
    BY <1>1, <1>2, PTL DEF Spec

\* KeepsPromise, for every job and any number of faults, as long as no publish
\* fails when it has changed some of its messages: every edit, every message,
\* every fallback is a step of VisibleReply or none.
THEOREM PromiseKept == ASSUME ~Halfway PROVE Spec => KeepsPromise
  <1>1. SaidInv /\ ShownInv /\ SaidInv' /\ [Next]_vars =>
          [Promise!Say \/ Promise!Show \/ Promise!Finish \/ Promise!Abort]_Promise!reply
    BY PromiseStep DEF Promised
  <1>2. Spec => Promise!Init
    BY PromiseBegins DEF Spec
  <1> QED
    BY <1>1, <1>2, ShownHolds, PTL DEF Spec, KeepsPromise, Promise!Spec

\* NothingLost, under the same condition: with it lifted, StreamingReplyLost finds a reply
\* that ends well without a part of its text.
THEOREM AllArrives == ASSUME ~Halfway PROVE Spec => []NothingLost
  <1>1. Init => NothingLost
    BY DEF Init, NothingLost
  <1>2. SaidInv /\ ShownInv /\ SaidInv' /\ NothingLost /\ [Next]_vars => NothingLost'
    <2> SUFFICES ASSUME SaidInv, ShownInv, SaidInv', NothingLost, [Next]_vars, outcome' = "done"
                 PROVE  Heard' \subseteq Seen'
      BY DEF NothingLost
    <2>1. Promise!Finish \/ UNCHANGED Promise!reply
      BY PromiseStep DEF Promised, Promise!Say, Promise!Show, Promise!Abort
    <2>2. CASE Promise!Finish
      BY <2>2 DEF Promise!Finish
    <2>3. CASE UNCHANGED Promise!reply
      BY <2>3 DEF Promise!reply, NothingLost
    <2> QED
      BY <2>1, <2>2, <2>3
  <1> QED
    BY <1>1, <1>2, ShownHolds, PTL DEF Spec
-----------------------------------------------------------------------------
(* What the chat shows, in order, as long as editing is never given up.    *)

Sights(scr)  == [i \in DOMAIN scr |-> ShownBy(scr[i])]
Tells        == [i \in Taken |-> SaidBy(i)]
\* What the messages before those of a text show.
Old(s, scr)  == FlattenSeq(SubSeq(Sights(scr), 1, Len(scr) - Len(s.ids)))
\* A text is in the last messages, one for every chunk.
Recent(s, scr) ==
  /\ Len(s.ids) <= Len(scr)
  /\ \A i \in 1 .. Len(s.ids) :
       /\ s.ids[i] = Len(scr) - Len(s.ids) + i
       /\ scr[s.ids[i]].n = 0 /\ Places(scr[s.ids[i]].chars) = Places(s.shown[i])
\* A component that was taken and is sent when the text is published.
Due == IF pc = "part" \/ task.after = "part" THEN SaidBy(Count) ELSE <<>>
\* The chat shows what was said before a text and, after it, the text is still owed.
Told(s, scr, said, due) == Recent(s, scr) /\ said = Old(s, scr) \o (Places(s.raw) \o due)
Blank(s)  == Places(s.raw) = <<>> => Joined(s.shown) = <<>>
UpToDate  == Joined(seg.shown) = Places(seg.raw)
CalmInv ==
  ~disturbed =>
    /\ ~seg.failed /\ task.queue = <<>> /\ pc # "resend"
    /\ outcome = "running" =>
         /\ Told(seg, screen, Said, Due)
         /\ pc # "edit" => Blank(seg)
         /\ pc = "edit" => Joined(task.plan) = Places(seg.raw)
         /\ pc = "return" /\ task.force => UpToDate
    /\ outcome = "done" => Shown = Said

LEMMA WithNothing ==
  ASSUME NEW x \in Seq(Nat) PROVE x \o <<>> = x /\ <<>> \o x = x /\ <<>> \in Seq(Nat)
  BY ConcatEmptySeq, EmptySeq

LEMMA SameLooks ==
  ASSUME NEW a, NEW b, Glyphs(a) = Glyphs(b)
  PROVE  Places(a) = Places(b)
  <1>1. DOMAIN a = DOMAIN b
    <2>1. DOMAIN Glyphs(a) = DOMAIN a /\ DOMAIN Glyphs(b) = DOMAIN b
      BY DEF Glyphs
    <2> QED
      BY <2>1
  <1>2. ASSUME NEW i \in DOMAIN a
        PROVE  a[i].c = b[i].c /\ (a[i].c \in VisibleKinds => a[i].n = b[i].n)
    <2> DEFINE ga == IF a[i].c \in VisibleKinds THEN a[i].n ELSE 0
               gb == IF b[i].c \in VisibleKinds THEN b[i].n ELSE 0
    <2>1. <<a[i].c, ga>> = <<b[i].c, gb>>
      <3>1. Glyphs(a)[i] = <<a[i].c, ga>> /\ Glyphs(b)[i] = <<b[i].c, gb>>
        BY <1>1 DEF Glyphs
      <3> QED
        BY <3>1
    <2>2. a[i].c = b[i].c /\ ga = gb
      <3> HIDE DEF ga, gb
      <3> QED
        BY <2>1
    <2> QED
      BY <2>2
  <1>3. Each(a) = Each(b)
    BY <1>1, <1>2 DEF Each
  <1> QED
    BY <1>3, PlacesAre

LEMMA SameLines ==
  ASSUME NEW cs, NEW ds, Glyphed(cs) = Glyphed(ds)
  PROVE  Joined(cs) = Joined(ds)
  <1>1. DOMAIN cs = DOMAIN ds
    <2>1. DOMAIN Glyphed(cs) = DOMAIN cs /\ DOMAIN Glyphed(ds) = DOMAIN ds
      BY DEF Glyphed
    <2> QED
      BY <2>1
  <1>2. ASSUME NEW i \in DOMAIN cs PROVE Places(cs[i]) = Places(ds[i])
    <2>1. Glyphed(cs)[i] = Glyphs(cs[i]) /\ Glyphed(ds)[i] = Glyphs(ds[i])
      BY <1>1 DEF Glyphed
    <2> QED
      BY <2>1, SameLooks
  <1>3. Lines(cs) = Lines(ds)
    BY <1>1, <1>2 DEF Lines
  <1> QED
    BY <1>3 DEF Joined

LEMMA JoinedIs ==
  ASSUME NEW cs \in Chunks
  PROVE  Joined(cs) = Places(FlattenSeq(cs)) /\ Joined(cs) \in Seq(Nat)
  <1>1. cs \in Seq(Line)
    BY DEF Chunks, Line
  <1>2. FlattenSeq(cs) \in Line /\ Places(FlattenSeq(cs)) = FlattenSeq(Lines(cs))
    BY <1>1, PlacesFlatten
  <1> QED
    BY <1>2, PlacesType DEF Joined

LEMMA JoinedNothing == Joined(<<>>) = <<>>
  <1>1. Lines(<<>>) = <<>>
    BY DEF Lines
  <1> QED
    BY <1>1, FlattenEmpty DEF Joined

LEMMA SaidByType ==
  ASSUME FeedInv, NEW i \in 1 .. Len(job.feed) PROVE SaidBy(i) \in Seq(Nat)
  <1>1. job.feed[i] \in Items /\ i - 1 \in Nat /\ Stride * (i - 1) \in Nat
    BY FeedFacts DEF Stride
  <1>2. Places(Typed(job.feed[i], Stride * (i - 1))) \in Seq(Nat)
    BY <1>1, TypedIsText, PlacesType DEF Line
  <1>3. <<Stride * (i - 1) + 1>> \in Seq(Nat) /\ <<>> \in Seq(Nat)
    BY <1>1
  <1> QED
    BY <1>2, <1>3 DEF SaidBy

LEMMA SaidType ==
  ASSUME FeedInv
  PROVE  /\ Tells \in Seq(Seq(Nat)) /\ Len(Tells) = Count /\ Said = FlattenSeq(Tells) /\ Said \in Seq(Nat)
         /\ \A i \in 1 .. Count : Tells[i] = SaidBy(i)
  <1>1. Count \in 0 .. Len(job.feed) /\ Len(job.feed) \in Nat /\ Taken = 1 .. Count
    BY FeedFacts DEF Taken, Count
  <1>2. \A i \in 1 .. Count : SaidBy(i) \in Seq(Nat)
    BY <1>1, SaidByType
  <1>3. Tells = [i \in 1 .. Count |-> SaidBy(i)] /\ Said = FlattenSeq(Tells)
    BY <1>1 DEF Tells, Said
  <1>4. Tells \in Seq(Seq(Nat)) /\ Len(Tells) = Count
    <2> HIDE DEF SaidBy, Count
    <2>1. Count \in Nat
      BY <1>1
    <2> QED
      BY <2>1, <1>2, <1>3
  <1>5. Said \in Seq(Nat)
    BY <1>3, <1>4, FlattenType
  <1> QED
    BY <1>3, <1>4, <1>5

LEMMA SameSaid ==
  ASSUME UNCHANGED <<job, feed>>
  PROVE  Said' = Said /\ SaidBy(Count)' = SaidBy(Count)
  <1>1. \A i : SaidBy(i)' = SaidBy(i)
    BY DEF SaidBy
  <1>2. Taken' = Taken
    BY DEF Taken
  <1>3. Said' = FlattenSeq([i \in Taken' |-> SaidBy(i)']) /\ Said = FlattenSeq([i \in Taken |-> SaidBy(i)])
    BY DEF Said
  <1>4. SaidBy(Count)' = SaidBy(Count)
    BY DEF SaidBy, Count
  <1> HIDE DEF SaidBy, Taken
  <1> QED
    BY <1>1, <1>2, <1>3, <1>4

\* An item that is taken is said after those before it.
LEMMA SaidMore ==
  ASSUME FeedInv, feed # <<>>, feed' = Tail(feed), job' = job
  PROVE  /\ Said' = Said \o SaidBy(Count') /\ Said \in Seq(Nat) /\ SaidBy(Count') \in Seq(Nat)
         /\ SaidBy(Count)' = SaidBy(Count')
  <1> DEFINE n == Count
             more == SaidBy(Count')
  <1>1. FeedInv' /\ Count' = n + 1 /\ Count' \in 1 .. Len(job.feed) /\ n \in Nat
    BY TakeItem, FeedFacts
  <1>2. more \in Seq(Nat)
    BY <1>1, SaidByType
  <1>3. Tells \in Seq(Seq(Nat)) /\ Len(Tells) = n /\ Said = FlattenSeq(Tells) /\ Said \in Seq(Nat)
        /\ \A i \in 1 .. n : Tells[i] = SaidBy(i)
    BY SaidType
  <1>4. \A i : SaidBy(i)' = SaidBy(i)
    BY DEF SaidBy
  <1>5. Taken' = 1 .. n + 1 /\ Taken = 1 .. n
    <2>1. Taken = 1 .. Count /\ Taken' = 1 .. Count'
      BY DEF Taken, Count
    <2> QED
      BY <1>1, <2>1
  <1>6. Tells' = [i \in 1 .. n + 1 |-> SaidBy(i)] /\ Said' = FlattenSeq(Tells')
    <2>1. Tells' = [i \in Taken' |-> SaidBy(i)'] /\ Said' = FlattenSeq(Tells')
      BY DEF Tells, Said
    <2> HIDE DEF SaidBy, n
    <2> QED
      BY <1>4, <1>5, <2>1
  <1>7. Append(Tells, more) \in Seq(Seq(Nat)) /\ Len(Append(Tells, more)) = n + 1
        /\ Append(Tells, more)[n + 1] = more /\ \A i \in 1 .. n : Append(Tells, more)[i] = Tells[i]
    <2> HIDE DEF more, n
    <2> QED
      BY <1>2, <1>3, AppendProperties
  <1>8. Tells' \in Seq(Seq(Nat)) /\ Len(Tells') = n + 1 /\ \A i \in 1 .. n + 1 : Tells'[i] = SaidBy(i)
    <2>1. \A i \in 1 .. n + 1 : SaidBy(i) \in Seq(Nat)
      BY <1>1, SaidByType
    <2> HIDE DEF SaidBy, n
    <2> QED
      BY <1>1, <1>6, <2>1
  <1>9. Tells' = Append(Tells, more)
    <2>1. ASSUME NEW i \in 1 .. n + 1 PROVE Tells'[i] = Append(Tells, more)[i]
      <3>1. CASE i = n + 1
        BY <3>1, <1>1, <1>7, <1>8
      <3>2. CASE i # n + 1
        <4>1. i \in 1 .. n
          BY <3>2, <1>1
        <4> HIDE DEF SaidBy, n, more
        <4> QED
          BY <4>1, <1>3, <1>7, <1>8
      <3> QED
        BY <3>1, <3>2
    <2> HIDE DEF n, more
    <2> QED
      BY <2>1, <1>7, <1>8, SeqEqual
  <1>10. FlattenSeq(Append(Tells, more)) = FlattenSeq(Tells) \o more
    <2> HIDE DEF more
    <2> QED
      BY <1>2, <1>3, FlattenAppend
  <1>11. SaidBy(Count)' = SaidBy(Count')
    BY DEF SaidBy
  <1> QED
    BY <1>2, <1>3, <1>6, <1>9, <1>10, <1>11

\* The chat, message by message.
LEMMA SightsAre ==
  ASSUME NEW scr \in Seq(Messages)
  PROVE  /\ Sights(scr) \in Seq(Seq(Nat)) /\ Len(Sights(scr)) = Len(scr) /\ Len(scr) \in Nat
         /\ \A i \in 1 .. Len(scr) : Sights(scr)[i] = ShownBy(scr[i])
  <1>1. DOMAIN scr = 1 .. Len(scr) /\ Len(scr) \in Nat /\ \A i \in 1 .. Len(scr) : scr[i] \in Messages
    BY LenProperties, ElementOfSeq
  <1>2. \A m \in Messages : ShownBy(m) \in Seq(Nat)
    <2> SUFFICES ASSUME NEW m \in Messages PROVE ShownBy(m) \in Seq(Nat)
      OBVIOUS
    <2>1. m.n \in Nat /\ m.chars \in Line
      BY DEF Messages, Line
    <2>2. Places(m.chars) \in Seq(Nat) /\ <<m.n>> \in Seq(Nat)
      BY <2>1, PlacesType
    <2> QED
      BY <2>2 DEF ShownBy
  <1>3. Sights(scr) = [i \in 1 .. Len(scr) |-> ShownBy(scr[i])] /\ \A i \in 1 .. Len(scr) : ShownBy(scr[i]) \in Seq(Nat)
    BY <1>1, <1>2 DEF Sights
  <1> HIDE DEF ShownBy
  <1> QED
    BY <1>1, <1>3

LEMMA OldIs ==
  ASSUME NEW scr \in Seq(Messages), NEW s, Len(s.ids) \in Nat, Len(s.ids) <= Len(scr)
  PROVE  LET n == Len(scr) - Len(s.ids)
             old == SubSeq(Sights(scr), 1, n)
         IN  /\ n \in 0 .. Len(scr) /\ old \in Seq(Seq(Nat)) /\ Len(old) = n
             /\ \A i \in 1 .. n : old[i] = ShownBy(scr[i])
             /\ Old(s, scr) = FlattenSeq(old) /\ Old(s, scr) \in Seq(Nat)
  <1> DEFINE n == Len(scr) - Len(s.ids)
             ss == Sights(scr)
             old == SubSeq(ss, 1, n)
  <1>1. ss \in Seq(Seq(Nat)) /\ Len(ss) = Len(scr) /\ Len(scr) \in Nat /\ \A i \in 1 .. Len(scr) : ss[i] = ShownBy(scr[i])
    BY SightsAre
  <1>2. n \in 0 .. Len(scr) /\ Old(s, scr) = FlattenSeq(old)
    BY <1>1 DEF Old
  <1> HIDE DEF n, ss
  <1>3. /\ old \in Seq(Seq(Nat)) /\ Len(old) = n
        /\ \A i \in 1 .. n : old[i] = ss[i]
    <2>1. \A i \in 1 .. n : i \in 1 .. Len(ss) /\ i \in 1 .. Len(scr)
      BY <1>1, <1>2
    <2>2. \A i \in 1 .. n : ss[i] \in Seq(Nat)
      BY <2>1, <1>1, ElementOfSeq
    <2> QED
      BY <1>1, <1>2, <2>2, SubSeqProperties
  <1> HIDE DEF old
  <1>4. \A i \in 1 .. n : old[i] = ShownBy(scr[i])
    <2>1. \A i \in 1 .. n : i \in 1 .. Len(scr)
      BY <1>1, <1>2
    <2> QED
      BY <2>1, <1>1, <1>3
  <1>5. FlattenSeq(old) \in Seq(Nat)
    BY <1>3, FlattenType
  <1> QED
    BY <1>2, <1>3, <1>4, <1>5 DEF n, old, ss

\* Old messages are those of the same beginning of the chat.
LEMMA OldKept ==
  ASSUME NEW scr \in Seq(Messages), NEW new \in Seq(Messages), NEW s, NEW t,
         Len(s.ids) \in Nat, Len(s.ids) <= Len(scr), Len(t.ids) \in Nat, Len(t.ids) <= Len(new),
         Len(new) - Len(t.ids) = Len(scr) - Len(s.ids),
         \A i \in 1 .. Len(scr) - Len(s.ids) : new[i] = scr[i]
  PROVE  Old(t, new) = Old(s, scr)
  <1> DEFINE n == Len(scr) - Len(s.ids)
             m == Len(new) - Len(t.ids)
             a == SubSeq(Sights(scr), 1, n)
             b == SubSeq(Sights(new), 1, m)
  <1>1. /\ a \in Seq(Seq(Nat)) /\ Len(a) = n /\ (\A i \in 1 .. n : a[i] = ShownBy(scr[i])) /\ Old(s, scr) = FlattenSeq(a)
    BY OldIs
  <1>2. /\ b \in Seq(Seq(Nat)) /\ Len(b) = m /\ (\A i \in 1 .. m : b[i] = ShownBy(new[i])) /\ Old(t, new) = FlattenSeq(b)
    BY OldIs
  <1>3. m = n /\ \A i \in 1 .. n : new[i] = scr[i]
    OBVIOUS
  <1> HIDE DEF n, m, a, b
  <1>4. a = b
    <2>1. \A i \in 1 .. n : a[i] = b[i]
      BY <1>1, <1>2, <1>3
    <2> QED
      BY <1>1, <1>2, <1>3, <2>1, SeqEqual
  <1> QED
    BY <1>1, <1>2, <1>4

\* What the chat shows is what the old messages show and the text of the others.
LEMMA AllOfIt ==
  ASSUME NEW scr \in Seq(Messages), NEW s \in Segments, Len(s.ids) = Len(s.shown), Recent(s, scr)
  PROVE  /\ FlattenSeq(Sights(scr)) = Old(s, scr) \o Joined(s.shown)
         /\ Old(s, scr) \in Seq(Nat) /\ Joined(s.shown) \in Seq(Nat)
  <1> DEFINE k == Len(s.ids)
             n == Len(scr) - k
             ss == Sights(scr)
             old == SubSeq(ss, 1, n)
             new == Lines(s.shown)
  <1>1. k \in Nat /\ k = Len(s.shown) /\ s.shown \in Chunks /\ k <= Len(scr) /\ s.shown \in Seq(Line)
    <2>1. s.ids \in Seq(Nat) /\ s.shown \in Chunks
      BY DEF Segments
    <2> QED
      BY <2>1, LenProperties DEF Recent, Chunks, Line
  <1>2. ss \in Seq(Seq(Nat)) /\ Len(ss) = Len(scr) /\ Len(scr) \in Nat /\ \A i \in 1 .. Len(scr) : ss[i] = ShownBy(scr[i])
    BY SightsAre
  <1>3. n \in 0 .. Len(scr) /\ old \in Seq(Seq(Nat)) /\ Len(old) = n
        /\ (\A i \in 1 .. n : old[i] = ShownBy(scr[i])) /\ Old(s, scr) = FlattenSeq(old) /\ Old(s, scr) \in Seq(Nat)
    BY <1>1, OldIs
  <1>4. new \in Seq(Seq(Nat)) /\ Len(new) = k /\ Joined(s.shown) = FlattenSeq(new) /\ Joined(s.shown) \in Seq(Nat)
        /\ \A i \in 1 .. k : new[i] = Places(s.shown[i])
    <2>1. DOMAIN s.shown = 1 .. k
      BY <1>1, LenProperties
    <2>2. \A i \in 1 .. k : new[i] = Places(s.shown[i])
      BY <2>1 DEF Lines
    <2> QED
      BY <1>1, <2>2, LinesType, JoinedIs DEF Joined
  <1>5. \A i \in 1 .. k : s.ids[i] = n + i /\ ShownBy(scr[n + i]) = Places(s.shown[i])
    <2> SUFFICES ASSUME NEW i \in 1 .. k PROVE s.ids[i] = n + i /\ ShownBy(scr[n + i]) = Places(s.shown[i])
      OBVIOUS
    <2>1. s.ids[i] = n + i /\ scr[s.ids[i]].n = 0 /\ Places(scr[s.ids[i]].chars) = Places(s.shown[i])
      BY DEF Recent
    <2> HIDE DEF n
    <2> QED
      BY <2>1 DEF ShownBy
  <1>6. n + k = Len(scr) /\ n \in Nat
    BY <1>1, <1>2
  <1> HIDE DEF n, k, ss, old, new
  <1>7. /\ old \o new \in Seq(Seq(Nat)) /\ Len(old \o new) = n + k
        /\ \A i \in 1 .. n + k : (old \o new)[i] = IF i <= n THEN old[i] ELSE new[i - n]
    <2> DEFINE T == Seq(Nat)
    <2>1. old \in Seq(T) /\ new \in Seq(T)
      BY <1>3, <1>4
    <2> HIDE DEF T
    <2>2. /\ old \o new \in Seq(T) /\ Len(old \o new) = Len(old) + Len(new)
          /\ \A i \in 1 .. Len(old) + Len(new) :
               (old \o new)[i] = IF i <= Len(old) THEN old[i] ELSE new[i - Len(old)]
      BY <2>1, ConcatProperties
    <2>3. Len(old) = n /\ Len(new) = k
      BY <1>3, <1>4
    <2> QED
      BY <2>2, <2>3 DEF T
  <1>8. ASSUME NEW i \in 1 .. n + k PROVE ss[i] = (old \o new)[i]
    <2>1. ss[i] = ShownBy(scr[i]) /\ (old \o new)[i] = IF i <= n THEN old[i] ELSE new[i - n]
      BY <1>2, <1>6, <1>7
    <2>2. CASE i <= n
      <3>1. i \in 1 .. n
        BY <2>2, <1>6
      <3> QED
        BY <2>1, <2>2, <3>1, <1>3
    <2>3. CASE ~(i <= n)
      <3>1. i - n \in 1 .. k /\ n + (i - n) = i
        BY <2>3, <1>1, <1>6
      <3>2. ShownBy(scr[n + (i - n)]) = Places(s.shown[i - n]) /\ new[i - n] = Places(s.shown[i - n])
        BY <3>1, <1>4, <1>5
      <3> QED
        BY <2>1, <2>3, <3>1, <3>2
    <2> QED
      BY <2>2, <2>3
  <1>9. ss = old \o new
    BY <1>2, <1>6, <1>7, <1>8, SeqEqual
  <1>10. FlattenSeq(old \o new) = FlattenSeq(old) \o FlattenSeq(new)
    BY <1>3, <1>4, FlattenConcat
  <1> QED
    BY <1>3, <1>4, <1>9, <1>10 DEF ss

LEMMA ShownIs == Shown = FlattenSeq(Sights(screen))
  BY DEF Shown, Sights

\* What a calm publish decides: to edit towards all of the text, or that all of it is shown.
LEMMA CalmPublish ==
  ASSUME job.realtime \in BOOLEAN, NEW s, Begun(s), ~s.failed, Blank(s), NEW force \in BOOLEAN, NEW after,
         Publish(s, force, after), ~disturbed'
  PROVE  /\ pc' \in {"edit", "return"} /\ seg' = s /\ task'.queue = <<>> /\ task'.force = force /\ task'.after = after
         /\ pc' = "edit" => Joined(task'.plan) = Places(s.raw)
         /\ pc' = "return" /\ force => Joined(s.shown) = Places(s.raw)
  <1> DEFINE Calmly(o) ==
        /\ o.pc \in {"edit", "return"} /\ o.seg = s /\ Queue(o) = <<>>
        /\ o.pc = "edit" => Joined(o.plan) = Places(s.raw)
        /\ o.pc = "return" /\ force => Joined(s.shown) = Places(s.raw)
  <1>1. ASSUME NEW o, Continue(o, force, after)
        PROVE  /\ pc' = o.pc /\ seg' = o.seg /\ task'.queue = Queue(o) /\ task'.force = force /\ task'.after = after
               /\ task'.plan = o.plan /\ ~o.seg.failed
    BY <1>1 DEF Continue
  <1>2. Return(s).pc = "return" /\ Return(s).seg = s /\ Queue(Return(s)) = <<>>
    BY ReturnDecided, BegunFollows
  <1> HIDE DEF Queue
  <1>3. CASE ~force /\ Continue(Return(s), force, after)
    BY <1>1, <1>2, <1>3
  <1>4. CASE Continue(Published(s, force), force, after)
    <2> DEFINE o == Published(s, force)
    <2>1. /\ pc' = o.pc /\ seg' = o.seg /\ task'.queue = Queue(o) /\ task'.force = force /\ task'.after = after
          /\ task'.plan = o.plan /\ ~o.seg.failed
      BY <1>1, <1>4
    <2>2. Calmly(o)
      <3>1. CASE s.raw = <<>>
        <4>1. o = Return(s)
          BY <3>1 DEF Published
        <4>2. Joined(s.shown) = Places(s.raw)
          BY <3>1, PlacesEmpty DEF Blank
        <4> QED
          BY <1>2, <4>1, <4>2
      <3>2. CASE s.raw # <<>>
        <4> DEFINE chunks == VisibleChunks(s.raw, ~force, Limit, Names(s.raw))
        <4>1. o = Edited(s, force, chunks)
          BY <3>2 DEF Published
        <4>2. chunks \in Chunks /\ Places(FlattenSeq(chunks)) = Places(s.raw)
          <5>1. Rendering(s.raw) /\ (~force) \in BOOLEAN
            BY ShowableParts DEF Begun
          <5> QED
            BY <5>1 DEF Rendering
        <4> HIDE DEF chunks
        <4>3. Joined(chunks) = Places(s.raw)
          BY <4>2, JoinedIs
        <4>4. CASE chunks = <<>> \/ Glyphed(chunks) = Glyphed(s.shown)
          <5>1. o = Return(s)
            BY <4>1, <4>4 DEF Edited
          <5>2. Joined(s.shown) = Places(s.raw)
            BY <4>3, <4>4, SameLines, JoinedNothing DEF Blank
          <5> QED
            BY <1>2, <5>1, <5>2
        <4>5. CASE ~(chunks = <<>> \/ Glyphed(chunks) = Glyphed(s.shown)) /\ Len(chunks) < Len(s.shown)
          <5>1. o = GiveUp(s, force)
            BY <4>1, <4>5 DEF Edited
          <5> QED
            BY <2>1, <5>1, GiveUpDecided
        <4>6. CASE ~(chunks = <<>> \/ Glyphed(chunks) = Glyphed(s.shown)) /\ ~(Len(chunks) < Len(s.shown))
          <5>1. o = Edit(s, chunks)
            BY <4>1, <4>6 DEF Edited
          <5>2. o.pc = "edit" /\ o.seg = s /\ o.plan = chunks /\ Queue(o) = <<>>
            BY <5>1 DEF Edit, Outcome, Queue
          <5> HIDE DEF o
          <5> QED
            BY <5>2, <4>3
        <4> QED
          BY <4>4, <4>5, <4>6
      <3> QED
        BY <3>1, <3>2
    <2> HIDE DEF o
    <2> QED
      BY <2>1, <2>2
  <1> QED
    BY <1>3, <1>4 DEF Publish

-----------------------------------------------------------------------------
(* Every step keeps the order.                                             *)

LEMMA CalmFacts ==
  ASSUME SaidInv
  PROVE  /\ screen \in Seq(Messages) /\ Len(screen) \in Nat
         /\ seg \in Segments /\ Len(seg.ids) = Len(seg.shown) /\ Len(seg.ids) \in Nat /\ Len(seg.shown) \in Nat
         /\ seg.ids \in Seq(Nat) /\ seg.shown \in Chunks /\ seg.raw \in Line
         /\ Places(seg.raw) \in Seq(Nat) /\ Joined(seg.shown) \in Seq(Nat) /\ Said \in Seq(Nat)
  <1>1. screen \in Seq(Messages) /\ seg \in Segments /\ Len(seg.ids) = Len(seg.shown)
    BY DEF SaidInv, SentInv, ScreenOk, TextOk
  <1>2. seg.ids \in Seq(Nat) /\ seg.shown \in Chunks /\ seg.raw \in Line
    BY <1>1 DEF Segments, Line
  <1>3. Len(screen) \in Nat /\ Len(seg.ids) \in Nat
    BY <1>1, <1>2, LenProperties
  <1>4. Places(seg.raw) \in Seq(Nat) /\ Joined(seg.shown) \in Seq(Nat)
    BY <1>2, PlacesType, JoinedIs
  <1>5. Said \in Seq(Nat)
    BY SaidType DEF SaidInv
  <1> QED
    BY <1>1, <1>2, <1>3, <1>4, <1>5

LEMMA OldType ==
  ASSUME NEW scr \in Seq(Messages), NEW s, Len(s.ids) \in Nat, Recent(s, scr) PROVE Old(s, scr) \in Seq(Nat)
  BY OldIs DEF Recent

LEMMA CalmNow ==
  ASSUME CalmInv, ~disturbed
  PROVE  /\ ~seg.failed /\ task.queue = <<>> /\ pc # "resend"
         /\ outcome = "running" => /\ Told(seg, screen, Said, Due)
                                   /\ pc # "edit" => Blank(seg)
                                   /\ pc = "edit" => Joined(task.plan) = Places(seg.raw)
                                   /\ pc = "return" /\ task.force => Joined(seg.shown) = Places(seg.raw)
         /\ outcome = "done" => Shown = Said
  BY DEF CalmInv, UpToDate

LEMMA CalmThen ==
  ASSUME outcome' = "running", ~seg'.failed, task'.queue = <<>>, pc' # "resend", Told(seg', screen', Said', Due'),
         pc' # "edit" => Blank(seg'), pc' = "edit" => Joined(task'.plan) = Places(seg'.raw),
         pc' = "return" /\ task'.force => Joined(seg'.shown) = Places(seg'.raw)
  PROVE  CalmInv'
  <1>1. outcome' # "done"
    OBVIOUS
  <1> HIDE DEF Said, Due, Told, Blank, Joined, Shown
  <1> QED
    BY <1>1 DEF CalmInv, UpToDate

LEMMA NothingMore ==
  ASSUME NEW x \in Seq(Nat), NEW y \in Seq(Nat), x \o y = <<>> PROVE x = <<>>
  <1>1. Len(x \o y) = Len(x) + Len(y) /\ Len(x) \in Nat /\ Len(y) \in Nat
    BY ConcatProperties, LenProperties
  <1>2. Len(<<>>) = 0
    BY EmptySeq
  <1>3. Len(x) = 0
    BY <1>1, <1>2
  <1> QED
    BY <1>3, EmptySeq

\* What an item of text adds.
LEMMA TextSaid ==
  ASSUME SaidInv, pc = "pull", Kind \in Texts, feed' = Tail(feed), job' = job, screen' = screen
  PROVE  /\ Longer.raw \in Line /\ Places(Longer.raw) = Places(seg.raw) \o SaidBy(Count')
         /\ Said' = Said \o SaidBy(Count') /\ SaidBy(Count') \in Seq(Nat)
  <1> DEFINE more == Typed(Head(feed), Base)
  <1>1. feed # <<>> /\ Head(feed).kind \in Texts
    BY DEF Kind, Texts
  <1>2. FeedInv /\ Count' = Count + 1 /\ Count' \in 1 .. Len(job.feed)
        /\ Head(feed) = job.feed[Count'] /\ Head(feed) \in Items
    BY <1>1, TakeItem DEF SaidInv
  <1>3. Base = Stride * Count /\ Base \in Nat /\ Count' - 1 = Count
    <2>1. Count \in 0 .. Len(job.feed) /\ Len(job.feed) \in Nat
      BY FeedFacts DEF SaidInv
    <2>2. Base = Stride * Count
      BY DEF Base, Count
    <2> HIDE DEF Count
    <2> QED
      BY <1>2, <2>1, <2>2 DEF Stride
  <1>4. more \in Line
    BY <1>2, <1>3, TypedIsText DEF Line
  <1>5. SaidBy(Count') = Places(more)
    <2>1. job.feed[Count'].kind \in Texts
      BY <1>1, <1>2
    <2>2. SaidBy(Count') = Places(Typed(job.feed[Count'], Stride * (Count' - 1)))
      BY <2>1 DEF SaidBy, Texts
    <2> QED
      BY <2>2, <1>2, <1>3
  <1>6. Said' = Said \o SaidBy(Count') /\ SaidBy(Count') \in Seq(Nat)
    BY <1>1, SaidMore DEF SaidInv
  <1>7. seg.raw \in Line /\ Longer.raw = seg.raw \o more
    BY CalmFacts DEF Longer, Segments
  <1> HIDE DEF more
  <1>8. seg.raw \o more \in Line /\ Places(seg.raw \o more) = Places(seg.raw) \o Places(more)
    BY <1>4, <1>7, PlacesConcat
  <1> QED
    BY <1>5, <1>6, <1>7, <1>8

\* What is added to the text is added to what the chat owes.
LEMMA ToldMore ==
  ASSUME NEW scr \in Seq(Messages), NEW s, NEW t, NEW said \in Seq(Nat), NEW more \in Seq(Nat), Len(s.ids) \in Nat,
         Told(s, scr, said, <<>>), t.ids = s.ids, t.shown = s.shown, Places(s.raw) \in Seq(Nat),
         Places(t.raw) = Places(s.raw) \o more
  PROVE  Told(t, scr, said \o more, <<>>)
  <1>1. Recent(t, scr) /\ Old(t, scr) = Old(s, scr)
    BY DEF Told, Recent, Old
  <1>2. Old(s, scr) \in Seq(Nat)
    BY OldType DEF Told
  <1>3. said = Old(s, scr) \o Places(s.raw)
    BY WithNothing DEF Told
  <1>4. Places(t.raw) \in Seq(Nat)
    BY ConcatProperties
  <1>5. said \o more = Old(s, scr) \o (Places(s.raw) \o more)
    BY <1>2, <1>3, Regrouped
  <1> QED
    BY <1>1, <1>4, <1>5, WithNothing DEF Told

LEMMA PullTextCalm ==
  ASSUME SaidInv, CalmInv, PullText PROVE CalmInv'
  <1> SUFFICES ASSUME ~disturbed' PROVE CalmInv'
    BY DEF CalmInv
  <1>1. /\ pc = "pull" /\ Kind \in Texts /\ feed' = Tail(feed)
        /\ UNCHANGED <<job, quote, screen, superSent, outcome>>
        /\ IF Head(feed).ends THEN Publish(Longer, FALSE, "pull")
           ELSE seg' = Longer /\ UNCHANGED <<pc, task, disturbed>>
    BY DEF PullText, Longer
  <1>2. ~disturbed
    BY <1>1 DEF Publish, Continue
  <1>3. outcome = "running" /\ task = NoTask
    BY <1>1 DEF SaidInv, TaskInv, Running
  <1>4. ~seg.failed /\ Told(seg, screen, Said, <<>>) /\ Blank(seg)
    <2>1. Due = <<>>
      BY <1>1, <1>3 DEF Due, NoTask
    <2> QED
      BY <1>1, <1>2, <1>3, <2>1, CalmNow
  <1>5. /\ Places(Longer.raw) = Places(seg.raw) \o SaidBy(Count')
        /\ Said' = Said \o SaidBy(Count') /\ SaidBy(Count') \in Seq(Nat)
    BY <1>1, TextSaid
  <1>6. Longer.ids = seg.ids /\ Longer.shown = seg.shown /\ Longer.failed = seg.failed /\ Begun(Longer)
    BY <1>1, PulledText
  <1>7. Told(Longer, screen', Said', <<>>)
    BY <1>1, <1>4, <1>5, <1>6, CalmFacts, ToldMore
  <1>8. Blank(Longer)
    <2>1. Places(Longer.raw) = <<>> => Places(seg.raw) = <<>>
      BY <1>5, CalmFacts, NothingMore
    <2> QED
      BY <2>1, <1>4, <1>6 DEF Blank
  <1>9. CASE Head(feed).ends
    <2>1. job.realtime \in BOOLEAN
      BY FeedFacts DEF SaidInv
    <2>2. /\ pc' \in {"edit", "return"} /\ seg' = Longer /\ task'.queue = <<>> /\ task'.force = FALSE
          /\ task'.after = "pull" /\ (pc' = "edit" => Joined(task'.plan) = Places(Longer.raw))
      BY <1>1, <1>4, <1>6, <1>8, <1>9, <2>1, CalmPublish
    <2>3. Due' = <<>>
      BY <2>2 DEF Due
    <2> QED
      BY <1>1, <1>3, <1>4, <1>6, <1>7, <1>8, <2>2, <2>3, CalmThen
  <1>10. CASE ~Head(feed).ends
    <2>1. seg' = Longer /\ pc' = "pull" /\ task' = NoTask
      BY <1>1, <1>3, <1>10
    <2>2. Due' = <<>> /\ task'.queue = <<>>
      BY <2>1 DEF Due, NoTask
    <2> QED
      BY <1>1, <1>3, <1>4, <1>6, <1>7, <1>8, <2>1, <2>2, CalmThen
  <1> QED
    BY <1>9, <1>10

LEMMA PullReplyCalm ==
  ASSUME SaidInv, CalmInv, PullReply PROVE CalmInv'
  <1> SUFFICES ASSUME ~disturbed' PROVE CalmInv'
    BY DEF CalmInv
  <1>1. /\ pc = "pull" /\ Kind = "reply" /\ feed' = Tail(feed) /\ ~disturbed
        /\ UNCHANGED <<job, seg, screen, pc, task, outcome>>
    BY DEF PullReply
  <1>2. feed # <<>> /\ Head(feed).kind = "reply"
    BY <1>1 DEF Kind
  <1>3. Said' = Said
    <2>1. Head(feed) = job.feed[Count']
      BY <1>1, <1>2, TakeItem DEF SaidInv
    <2>2. SaidBy(Count') = <<>>
      BY <1>2, <2>1 DEF SaidBy, Texts
    <2>3. Said' = Said \o SaidBy(Count') /\ Said \in Seq(Nat)
      BY <1>1, <1>2, SaidMore DEF SaidInv
    <2> QED
      BY <2>2, <2>3, WithNothing
  <1>4. outcome = "running" /\ task = NoTask
    BY <1>1 DEF SaidInv, TaskInv, Running
  <1>5. Due = <<>> /\ Due' = <<>>
    BY <1>1, <1>4 DEF Due, NoTask
  <1> QED
    BY <1>1, <1>3, <1>4, <1>5, CalmNow, CalmThen

\* A component is owed once it is taken.
LEMMA ToldDue ==
  ASSUME NEW scr \in Seq(Messages), NEW s, NEW said \in Seq(Nat), NEW due \in Seq(Nat), Len(s.ids) \in Nat,
         Told(s, scr, said, <<>>), Places(s.raw) \in Seq(Nat)
  PROVE  Told(s, scr, said \o due, due)
  <1>1. Old(s, scr) \in Seq(Nat)
    BY OldType DEF Told
  <1>2. said = Old(s, scr) \o Places(s.raw)
    BY WithNothing DEF Told
  <1>3. said \o due = Old(s, scr) \o (Places(s.raw) \o due)
    BY <1>1, <1>2, Regrouped
  <1> QED
    BY <1>3 DEF Told

LEMMA ForcedCalm ==
  ASSUME SaidInv, CalmInv, Forced PROVE CalmInv'
  <1> SUFFICES ASSUME ~disturbed' PROVE CalmInv'
    BY DEF CalmInv
  <1>1. /\ pc = "pull" /\ Kind \in {"break", "part", ""} /\ feed' = IF Kind = "" THEN feed ELSE Tail(feed)
        /\ Publish(seg, TRUE, After)
        /\ UNCHANGED <<job, screen, outcome>>
    BY DEF Forced
  <1>2. ~disturbed
    BY <1>1 DEF Publish, Continue
  <1>3. outcome = "running" /\ task = NoTask /\ ~seg.final /\ FeedInv /\ TextOk(seg, Spoken, Heard, Len(screen))
    BY <1>1 DEF SaidInv, TaskInv, Running
  <1>4. ~seg.failed /\ Told(seg, screen, Said, <<>>) /\ Blank(seg)
    <2>1. Due = <<>>
      BY <1>1, <1>3 DEF Due, NoTask
    <2> QED
      BY <1>1, <1>2, <1>3, <2>1, CalmNow
  <1>5. /\ pc' \in {"edit", "return"} /\ seg' = seg /\ task'.queue = <<>> /\ task'.after = After
        /\ (pc' = "edit" => Joined(task'.plan) = Places(seg.raw))
        /\ (pc' = "return" => Joined(seg.shown) = Places(seg.raw))
    <2>1. job.realtime \in BOOLEAN /\ Begun(seg)
      BY <1>3, FeedFacts, TextShowable
    <2> QED
      BY <1>1, <1>4, <2>1, CalmPublish
  <1>6. Told(seg, screen, Said', Due')
    <2>1. CASE Kind = ""
      <3>1. Said' = Said
        BY <1>1, <2>1, SameSaid
      <3>2. Due' = <<>>
        BY <1>5, <2>1 DEF Due, After
      <3> QED
        BY <1>4, <3>1, <3>2
    <2>2. CASE Kind # ""
      <3>1. feed # <<>> /\ Head(feed).kind = Kind /\ feed' = Tail(feed)
        BY <1>1, <2>2 DEF Kind
      <3>2. Head(feed) = job.feed[Count']
        BY <1>1, <1>3, <3>1, TakeItem
      <3>3. Said' = Said \o SaidBy(Count') /\ Said \in Seq(Nat) /\ SaidBy(Count') \in Seq(Nat) /\ SaidBy(Count)' = SaidBy(Count')
        BY <1>1, <1>3, <3>1, SaidMore
      <3>4. CASE Kind = "break"
        <4>1. SaidBy(Count') = <<>>
          BY <3>1, <3>2, <3>4 DEF SaidBy, Texts
        <4>2. Due' = <<>>
          BY <1>5, <3>4 DEF Due, After
        <4> QED
          BY <1>4, <3>3, <4>1, <4>2, WithNothing
      <3>5. CASE Kind = "part"
        <4>1. Due' = SaidBy(Count')
          BY <1>5, <3>3, <3>5 DEF Due, After
        <4> QED
          BY <1>4, <3>3, <4>1, ToldDue, CalmFacts
      <3> QED
        BY <1>1, <2>2, <3>4, <3>5
    <2> QED
      BY <2>1, <2>2
  <1> QED
    BY <1>1, <1>3, <1>4, <1>5, <1>6, CalmThen

\* What the order does not depend on.
LEMMA KeptCalm ==
  ASSUME SaidInv, CalmInv, UNCHANGED <<job, feed, seg, screen, task, outcome, disturbed>>,
         pc' = pc \/ (pc \notin Running /\ pc' \in {"stop", "hook", "over"})
  PROVE  CalmInv'
  <1> SUFFICES ASSUME ~disturbed' PROVE CalmInv'
    BY DEF CalmInv
  <1>1. Said' = Said /\ SaidBy(Count)' = SaidBy(Count)
    BY SameSaid
  <1>2. CASE pc' = pc
    <2>1. Due' = Due
      BY <1>1, <1>2 DEF Due
    <2>2. Shown' = Shown
      BY DEF Shown
    <2> HIDE DEF Said, Due, Shown
    <2> QED
      BY <1>1, <1>2, <2>1, <2>2 DEF CalmInv, UpToDate
  <1>3. CASE pc \notin Running /\ pc' \in {"stop", "hook", "over"}
    <2>1. outcome # "running"
      BY <1>3 DEF SaidInv, TaskInv
    <2>2. Shown' = Shown
      BY DEF Shown
    <2> HIDE DEF Said, Due, Shown
    <2> QED
      BY <1>1, <1>3, <2>1, <2>2 DEF CalmInv
  <1> QED
    BY <1>2, <1>3

LEMMA RaiseCalm ==
  ASSUME CalmInv, Raise PROVE CalmInv'
  <1>1. pc' = "ack" /\ outcome' = "failed" /\ UNCHANGED <<seg, task, disturbed>>
    BY DEF Raise
  <1>2. outcome' # "running" /\ outcome' # "done" /\ pc' # "resend"
    BY <1>1
  <1> QED
    BY <1>1, <1>2 DEF CalmInv

LEMMA ToldSame ==
  ASSUME NEW scr, NEW s, NEW t, NEW said, NEW due, Told(s, scr, said, due),
         t.ids = s.ids, t.shown = s.shown, t.raw = s.raw
  PROVE  Told(t, scr, said, due)
  BY DEF Told, Recent, Old

\* A text that is given up disturbs the order.
LEMMA GivenUp ==
  ASSUME SaidInv, pc = "edit", NEW s, Begun(s), NEW after, Continue(GiveUp(s, task.force), task.force, after)
  PROVE  disturbed'
  <1>1. GiveUp(s, task.force).seg.failed
    BY EditFacts, GiveUpDecided
  <1> QED
    BY <1>1 DEF Continue

\* The chat after the message of a chunk has got its new text.
Rewritten(scr, new, id, chars) ==
  /\ Len(new) = Len(scr) /\ \A i \in 1 .. Len(scr) : i # id => new[i] = scr[i]
  /\ new[id].n = scr[id].n /\ new[id].chars = chars
Reshown(s, t, u, chars) ==
  /\ Places(t.shown[u]) = Places(chars)
  /\ \A i \in 1 .. Len(s.ids) : i # u => Places(t.shown[i]) = Places(s.shown[i])
LEMMA ChunkEdited ==
  ASSUME NEW scr \in Seq(Messages), NEW new \in Seq(Messages), NEW s, NEW t, NEW u, NEW chars,
         Recent(s, scr), Len(s.ids) \in Nat, Len(scr) \in Nat, u \in 1 .. Len(s.ids), t.ids = s.ids,
         Rewritten(scr, new, s.ids[u], chars), Reshown(s, t, u, chars)
  PROVE  Recent(t, new) /\ Old(t, new) = Old(s, scr)
  <1> DEFINE k == Len(s.ids)
             l == Len(scr)
  <1>1. k \in Nat /\ l \in Nat /\ k <= l /\ u \in 1 .. k /\ Len(new) = l
    BY DEF Recent, Rewritten
  <1>2. \A i \in 1 .. k : s.ids[i] = l - k + i /\ scr[s.ids[i]].n = 0 /\ Places(scr[s.ids[i]].chars) = Places(s.shown[i])
    BY DEF Recent
  <1>3. /\ \A i \in 1 .. l : i # s.ids[u] => new[i] = scr[i]
        /\ new[s.ids[u]].n = scr[s.ids[u]].n /\ new[s.ids[u]].chars = chars
        /\ Places(t.shown[u]) = Places(chars)
        /\ \A i \in 1 .. k : i # u => Places(t.shown[i]) = Places(s.shown[i])
    BY DEF Rewritten, Reshown
  <1>4. Recent(t, new)
    <2> SUFFICES ASSUME NEW i \in 1 .. k
                 PROVE  s.ids[i] = l - k + i /\ new[s.ids[i]].n = 0 /\ Places(new[s.ids[i]].chars) = Places(t.shown[i])
      BY <1>1 DEF Recent
    <2>1. s.ids[i] = l - k + i /\ scr[s.ids[i]].n = 0 /\ Places(scr[s.ids[i]].chars) = Places(s.shown[i])
      BY <1>2
    <2>2. CASE i = u
      BY <2>1, <2>2, <1>3
    <2>3. CASE i # u
      <3>1. s.ids[i] # s.ids[u] /\ s.ids[i] \in 1 .. l
        <4>1. s.ids[u] = l - k + u
          BY <1>1, <1>2
        <4>2. l - k + i # l - k + u /\ l - k + i \in 1 .. l
          <5> HIDE DEF k, l
          <5> QED
            BY <2>3, <1>1
        <4> QED
          BY <2>1, <4>1, <4>2
      <3>2. new[s.ids[i]] = scr[s.ids[i]] /\ Places(t.shown[i]) = Places(s.shown[i])
        BY <2>3, <3>1, <1>3
      <3> QED
        BY <2>1, <3>2
    <2> QED
      BY <2>2, <2>3
  <1>5. \A i \in 1 .. l - k : new[i] = scr[i]
    <2> SUFFICES ASSUME NEW i \in 1 .. l - k PROVE new[i] = scr[i]
      OBVIOUS
    <2>1. s.ids[u] = l - k + u
      BY <1>1, <1>2
    <2>2. i \in 1 .. l /\ i # s.ids[u]
      <3> HIDE DEF k, l
      <3> QED
        BY <2>1, <1>1
    <2> QED
      BY <2>2, <1>3
  <1>6. Old(t, new) = Old(s, scr)
    <2>1. Len(s.ids) <= Len(scr) /\ Len(t.ids) \in Nat /\ Len(t.ids) <= Len(new)
          /\ Len(new) - Len(t.ids) = Len(scr) - Len(s.ids)
      BY <1>1
    <2> QED
      BY <1>5, <2>1, OldKept
  <1> QED
    BY <1>4, <1>6

LEMMA EditChunkCalm ==
  ASSUME SaidInv, CalmInv, EditChunk PROVE CalmInv'
  <1> SUFFICES ASSUME ~disturbed' PROVE CalmInv'
    BY DEF CalmInv
  <1>1. /\ pc = "edit" /\ Differing # {} /\ Upcoming <= Len(seg.ids) /\ UNCHANGED <<job, feed, outcome>>
    BY DEF EditChunk
  <1> DEFINE u == Upcoming
             id == seg.ids[u]
             chars == task.plan[u]
  <1>2. /\ id # 0 /\ screen' = [screen EXCEPT ![id].chars = chars] /\ seg' = Accepted(u)
        /\ task' = [task EXCEPT !.changed = TRUE] /\ pc' = pc /\ ~disturbed
    <2>1. ~Continue(GiveUp(seg, task.force), task.force, task.after)
      BY <1>1, EditFacts, GivenUp
    <2> QED
      BY <2>1 DEF EditChunk, Changed
  <1>3. /\ u \in 1 .. Len(task.plan) /\ u \in Nat /\ u <= Len(seg.shown) /\ Len(seg.ids) = Len(seg.shown)
        /\ chars \in Line /\ \A i \in 1 .. u - 1 : Glyphs(task.plan[i]) = Glyphs(seg.shown[i])
    BY <1>1, NextChunk DEF Line
  <1>4. /\ outcome = "running" /\ ~seg.failed /\ task.queue = <<>> /\ Told(seg, screen, Said, Due)
        /\ Joined(task.plan) = Places(seg.raw)
    <2>1. outcome = "running"
      BY <1>1, EditFacts
    <2> QED
      BY <1>1, <1>2, <2>1, CalmNow
  <1>5. /\ seg'.raw = seg.raw /\ seg'.ids = seg.ids /\ seg'.failed = seg.failed /\ Len(seg'.shown) = Len(seg.shown)
        /\ \A i \in 1 .. Len(seg'.shown) : seg'.shown[i] = IF i <= u THEN task.plan[i] ELSE seg.shown[i]
    BY <1>1, <1>2, <1>3, AcceptedOk
  <1>6. task'.queue = task.queue /\ task'.plan = task.plan /\ task'.after = task.after /\ task'.force = task.force
    BY <1>2 DEF SaidInv, TaskInv, Publishes
  <1>7. /\ screen \in Seq(Messages) /\ Len(screen) \in Nat /\ Len(seg.ids) \in Nat /\ u \in 1 .. Len(seg.ids)
        /\ Recent(seg, screen)
    BY <1>3, <1>4, CalmFacts DEF Told
  <1>8. id \in 1 .. Len(screen)
    <2>1. id = Len(screen) - Len(seg.ids) + u /\ Len(seg.ids) <= Len(screen)
      BY <1>7 DEF Recent
    <2> QED
      BY <2>1, <1>7
  <1>9. /\ screen' \in Seq(Messages) /\ Len(screen') = Len(screen)
        /\ \A i \in 1 .. Len(screen) : i # id => screen'[i] = screen[i]
        /\ screen'[id].n = screen[id].n /\ screen'[id].chars = chars
    <2> DEFINE m == [screen[id] EXCEPT !.chars = chars]
    <2>1. screen[id] \in Messages /\ m \in Messages
      <3>1. screen[id] \in Messages
        BY <1>7, <1>8, ElementOfSeq
      <3> HIDE DEF id
      <3> QED
        BY <3>1, <1>3 DEF Messages, Line
    <2>2. screen' = [screen EXCEPT ![id] = m]
      BY <1>2
    <2>3. m.n = screen[id].n /\ m.chars = chars
      BY <2>1 DEF Messages
    <2> HIDE DEF m
    <2>4. /\ screen' \in Seq(Messages) /\ Len(screen') = Len(screen)
          /\ \A j \in 1 .. Len(screen) : screen'[j] = IF j = id THEN m ELSE screen[j]
      BY <1>7, <1>8, <2>1, <2>2, ExceptSeq
    <2> QED
      BY <1>8, <2>3, <2>4
  <1>10. /\ Places(seg'.shown[u]) = Places(chars)
         /\ \A i \in 1 .. Len(seg.ids) : i # u => Places(seg'.shown[i]) = Places(seg.shown[i])
    <2>1. seg'.shown[u] = chars
      BY <1>3, <1>5
    <2>2. ASSUME NEW i \in 1 .. Len(seg.ids), i # u PROVE Places(seg'.shown[i]) = Places(seg.shown[i])
      <3>1. seg'.shown[i] = IF i <= u THEN task.plan[i] ELSE seg.shown[i]
        BY <1>3, <1>5
      <3>2. CASE i <= u
        <4>1. i \in 1 .. u - 1
          BY <2>2, <3>2, <1>3, <1>7
        <4> QED
          BY <3>1, <3>2, <4>1, <1>3, SameLooks
      <3>3. CASE ~(i <= u)
        BY <3>1, <3>3
      <3> QED
        BY <3>2, <3>3
    <2> QED
      BY <2>1, <2>2
  <1> HIDE DEF u, id, chars
  <1>11. Recent(seg', screen') /\ Old(seg', screen') = Old(seg, screen)
    <2>1. Rewritten(screen, screen', seg.ids[u], chars)
      BY <1>9 DEF Rewritten, id
    <2>2. Reshown(seg, seg', u, chars)
      BY <1>10 DEF Reshown
    <2> QED
      BY <1>5, <1>7, <1>9, <2>1, <2>2, ChunkEdited
  <1>12. Told(seg', screen', Said', Due')
    <2>1. Said' = Said /\ Due' = Due
      BY <1>1, <1>2, <1>6, SameSaid DEF Due
    <2> QED
      BY <1>4, <1>5, <1>11, <2>1 DEF Told
  <1> QED
    BY <1>1, <1>2, <1>4, <1>5, <1>6, <1>12, CalmThen

\* The chat after a new message for the next chunk.
Extended(scr, new, chars) ==
  /\ Len(new) = Len(scr) + 1 /\ \A i \in 1 .. Len(scr) : new[i] = scr[i]
  /\ new[Len(scr) + 1].n = 0 /\ new[Len(scr) + 1].chars = chars
Further(s, t, id, chars) ==
  /\ Len(t.ids) = Len(s.ids) + 1 /\ t.ids[Len(s.ids) + 1] = id /\ t.shown[Len(s.ids) + 1] = chars
  /\ \A i \in 1 .. Len(s.ids) : t.ids[i] = s.ids[i] /\ Places(t.shown[i]) = Places(s.shown[i])
LEMMA ChunkSent ==
  ASSUME NEW scr \in Seq(Messages), NEW new \in Seq(Messages), NEW s, NEW t, NEW chars,
         Recent(s, scr), Len(s.ids) \in Nat, Len(scr) \in Nat,
         Extended(scr, new, chars), Further(s, t, Len(scr) + 1, chars)
  PROVE  Recent(t, new) /\ Old(t, new) = Old(s, scr)
  <1> DEFINE k == Len(s.ids)
             l == Len(scr)
  <1>1. k \in Nat /\ l \in Nat /\ k <= l /\ Len(new) = l + 1 /\ Len(t.ids) = k + 1 /\ t.ids[k + 1] = l + 1
    BY DEF Recent, Extended, Further
  <1>2. \A i \in 1 .. k : s.ids[i] = l - k + i /\ scr[s.ids[i]].n = 0 /\ Places(scr[s.ids[i]].chars) = Places(s.shown[i])
    BY DEF Recent
  <1>3. /\ \A i \in 1 .. l : new[i] = scr[i]
        /\ \A i \in 1 .. k : t.ids[i] = s.ids[i] /\ Places(t.shown[i]) = Places(s.shown[i])
        /\ new[l + 1].n = 0 /\ Places(new[l + 1].chars) = Places(t.shown[k + 1])
    BY DEF Extended, Further
  <1>4. ASSUME NEW i \in 1 .. k + 1
        PROVE  t.ids[i] = (l + 1) - (k + 1) + i /\ new[t.ids[i]].n = 0 /\ Places(new[t.ids[i]].chars) = Places(t.shown[i])
    <2>1. CASE i = k + 1
      <3>1. (l + 1) - (k + 1) + (k + 1) = l + 1
        <4> HIDE DEF k, l
        <4> QED
          BY <1>1
      <3> QED
        BY <2>1, <3>1, <1>1, <1>3
    <2>2. CASE i # k + 1
      <3>1. i \in 1 .. k /\ l - k + i = (l + 1) - (k + 1) + i /\ l - k + i \in 1 .. l
        <4>1. k \in Nat /\ l \in Nat /\ k <= l
          BY <1>1
        <4> HIDE DEF k, l
        <4>2. i \in 1 .. k
          BY <4>1, <2>2
        <4> QED
          BY <4>1, <4>2
      <3>2. s.ids[i] = l - k + i /\ scr[s.ids[i]].n = 0 /\ Places(scr[s.ids[i]].chars) = Places(s.shown[i])
        BY <3>1, <1>2
      <3>3. t.ids[i] = s.ids[i] /\ Places(t.shown[i]) = Places(s.shown[i]) /\ new[s.ids[i]] = scr[s.ids[i]]
        BY <3>1, <3>2, <1>3
      <3> HIDE DEF k, l
      <3> QED
        BY <3>1, <3>2, <3>3
    <2> QED
      BY <2>1, <2>2
  <1>5. k + 1 <= l + 1 /\ (l + 1) - (k + 1) = l - k /\ k + 1 \in Nat
    <2> HIDE DEF k, l
    <2> QED
      BY <1>1
  <1>6. Recent(t, new)
    BY <1>1, <1>4, <1>5 DEF Recent
  <1>7. Old(t, new) = Old(s, scr)
    <2>1. \A i \in 1 .. l - k : new[i] = scr[i]
      <3>1. \A i \in 1 .. l - k : i \in 1 .. l
        <4> HIDE DEF k, l
        <4> QED
          BY <1>1
      <3> QED
        BY <3>1, <1>3
    <2>2. Len(s.ids) <= Len(scr) /\ Len(t.ids) \in Nat /\ Len(t.ids) <= Len(new)
          /\ Len(new) - Len(t.ids) = Len(scr) - Len(s.ids)
      BY <1>1, <1>5
    <2> QED
      BY <2>1, <2>2, OldKept
  <1> QED
    BY <1>6, <1>7

LEMMA SendChunkCalm ==
  ASSUME SaidInv, CalmInv, SendChunk PROVE CalmInv'
  <1> SUFFICES ASSUME ~disturbed' PROVE CalmInv'
    BY DEF CalmInv
  <1>1. /\ pc = "edit" /\ Differing # {} /\ Upcoming > Len(seg.ids) /\ UNCHANGED <<job, feed, outcome>>
    BY DEF SendChunk
  <1> DEFINE u == Upcoming
             chars == task.plan[u]
             l == Len(screen)
             k == Len(seg.ids)
             ids == Append(seg.ids, l + 1)
  <1>2. /\ Post(0, chars) /\ seg' = [Accepted(u) EXCEPT !.ids = Append(@, l + 1)]
        /\ task' = [task EXCEPT !.changed = TRUE] /\ pc' = pc /\ ~disturbed
    <2>1. ~Continue(GiveUp(seg, task.force), task.force, task.after)
      BY <1>1, EditFacts, GivenUp
    <2>2. ~Continue(GiveUp(Unnamed, task.force), task.force, task.after)
      BY <1>1, UnnamedOk, GivenUp
    <2> QED
      BY <2>1, <2>2 DEF SendChunk, Changed
  <1>3. /\ u \in 1 .. Len(task.plan) /\ u \in Nat /\ u = Len(seg.shown) + 1 /\ k = Len(seg.shown) /\ k \in Nat
        /\ chars \in Line /\ PlacesIn(chars) \subseteq Heard
        /\ \A i \in 1 .. k : Glyphs(task.plan[i]) = Glyphs(seg.shown[i])
    <2>1. /\ u \in 1 .. Len(task.plan) /\ u <= Len(seg.shown) + 1 /\ Len(seg.ids) = Len(seg.shown)
          /\ Len(seg.shown) \in Nat /\ Len(task.plan) \in Nat
          /\ chars \in Line /\ PlacesIn(chars) \subseteq Heard
      BY <1>1, NextChunk DEF Line
    <2>2. u \in Nat /\ u = Len(seg.shown) + 1
      BY <2>1, <1>1
    <2>3. \A i \in 1 .. u - 1 : Glyphs(task.plan[i]) = Glyphs(seg.shown[i])
      BY <1>1, NextChunk
    <2>4. u - 1 = k
      <3> HIDE DEF u
      <3> QED
        BY <2>1, <2>2
    <2> QED
      BY <2>1, <2>2, <2>3, <2>4
  <1>4. /\ outcome = "running" /\ ~seg.failed /\ task.queue = <<>> /\ Told(seg, screen, Said, Due)
        /\ Joined(task.plan) = Places(seg.raw)
    <2>1. outcome = "running"
      BY <1>1, EditFacts
    <2> QED
      BY <1>1, <1>2, <2>1, CalmNow
  <1>5. LET s == Accepted(u)
        IN  /\ s \in Segments /\ s.raw = seg.raw /\ s.ids = seg.ids /\ s.failed = seg.failed /\ Len(s.shown) = k + 1
            /\ \A i \in 1 .. Len(s.shown) : s.shown[i] = IF i <= u THEN task.plan[i] ELSE seg.shown[i]
    <2>1. ~(u <= Len(seg.shown))
      BY <1>3
    <2> QED
      BY <2>1, <1>1, <1>3, AcceptedOk
  <1>6. /\ seg'.raw = seg.raw /\ seg'.ids = ids /\ seg'.failed = seg.failed
        /\ \A i \in 1 .. k + 1 : seg'.shown[i] = task.plan[i]
    <2> DEFINE s == Accepted(u)
    <2>1. /\ s \in Segments /\ s.raw = seg.raw /\ s.ids = seg.ids /\ s.failed = seg.failed
          /\ \A i \in 1 .. k + 1 : s.shown[i] = task.plan[i]
      BY <1>3, <1>5
    <2>2. seg' = [s EXCEPT !.ids = ids]
      BY <1>2, <2>1
    <2> HIDE DEF s, ids
    <2> QED
      BY <2>1, <2>2 DEF Segments
  <1>7. task'.queue = task.queue /\ task'.plan = task.plan /\ task'.after = task.after /\ task'.force = task.force
    BY <1>2 DEF SaidInv, TaskInv, Publishes
  <1>8. /\ screen \in Seq(Messages) /\ l \in Nat /\ seg.ids \in Seq(Nat) /\ Recent(seg, screen)
    BY <1>4, CalmFacts DEF Told
  <1>9. /\ screen' \in Seq(Messages) /\ Len(screen') = l + 1
        /\ (\A i \in 1 .. l : screen'[i] = screen[i])
        /\ screen'[l + 1].n = 0 /\ screen'[l + 1].chars = chars
    <2>1. SentInv /\ Heard' = Heard
      BY <1>1, SameFeed DEF SaidInv
    <2>2. chars \in Seq(Characters) /\ (IF 0 = 0 THEN PlacesIn(chars) ELSE {0}) \subseteq Heard
      BY <1>3 DEF Line
    <2> HIDE DEF chars
    <2> QED
      BY <1>2, <2>1, <2>2, PostSays DEF SentInv, ScreenOk
  <1>10. /\ Len(ids) = k + 1 /\ (\A i \in 1 .. k : ids[i] = seg.ids[i]) /\ ids[k + 1] = l + 1
    <2>1. l + 1 \in Nat
      BY <1>8
    <2> QED
      BY <2>1, <1>8, AppendProperties
  <1> HIDE DEF ids
  <1>11. \A i \in 1 .. k : seg'.ids[i] = seg.ids[i] /\ Places(seg'.shown[i]) = Places(seg.shown[i])
    <2> SUFFICES ASSUME NEW i \in 1 .. k PROVE seg'.ids[i] = seg.ids[i] /\ Places(seg'.shown[i]) = Places(seg.shown[i])
      OBVIOUS
    <2>1. i \in 1 .. k + 1
      BY <1>3
    <2>2. seg'.shown[i] = task.plan[i] /\ Glyphs(task.plan[i]) = Glyphs(seg.shown[i])
      BY <2>1, <1>3, <1>6
    <2> QED
      BY <2>2, <1>6, <1>10, SameLooks
  <1>12. seg'.shown[k + 1] = chars
    <2>1. k + 1 \in 1 .. k + 1 /\ u = k + 1
      BY <1>3
    <2> QED
      BY <2>1, <1>6
  <1>13. Recent(seg', screen') /\ Old(seg', screen') = Old(seg, screen)
    <2>1. Extended(screen, screen', chars)
      BY <1>9 DEF Extended
    <2>2. Further(seg, seg', l + 1, chars)
      BY <1>6, <1>10, <1>11, <1>12 DEF Further
    <2> HIDE DEF u, chars
    <2> QED
      BY <1>3, <1>8, <1>9, <2>1, <2>2, ChunkSent
  <1>14. Told(seg', screen', Said', Due')
    <2>1. Said' = Said /\ Due' = Due
      BY <1>1, <1>2, <1>7, SameSaid DEF Due
    <2> QED
      BY <1>4, <1>6, <1>13, <2>1 DEF Told
  <1> QED
    BY <1>1, <1>2, <1>4, <1>6, <1>7, <1>14, CalmThen

LEMMA AllShownCalm ==
  ASSUME SaidInv, CalmInv, AllShown PROVE CalmInv'
  <1> SUFFICES ASSUME ~disturbed' PROVE CalmInv'
    BY DEF CalmInv
  <1>1. /\ pc = "edit" /\ Differing = {} /\ seg' = [seg EXCEPT !.offset = Len(seg.raw)] /\ pc' = "return" /\ ~disturbed
        /\ UNCHANGED <<job, feed, screen, task, outcome>>
    BY DEF AllShown
  <1>2. /\ outcome = "running" /\ ~seg.failed /\ task.queue = <<>> /\ Told(seg, screen, Said, Due)
        /\ Joined(task.plan) = Places(seg.raw)
    <2>1. outcome = "running"
      BY <1>1, EditFacts
    <2> QED
      BY <1>1, <2>1, CalmNow
  <1>3. seg'.raw = seg.raw /\ seg'.ids = seg.ids /\ seg'.shown = seg.shown /\ seg'.failed = seg.failed
    BY <1>1, CalmFacts DEF Segments
  <1>4. Joined(task.plan) = Joined(seg.shown)
    <2>1. Len(seg.shown) <= Len(task.plan) /\ task.plan \in Chunks /\ seg.shown \in Chunks
      BY <1>1, CalmFacts DEF SaidInv, TaskInv, Publishes
    <2>2. /\ DOMAIN task.plan = 1 .. Len(task.plan) /\ DOMAIN seg.shown = 1 .. Len(seg.shown)
          /\ Len(task.plan) \in Nat /\ Len(seg.shown) \in Nat
      BY <2>1, LenProperties DEF Chunks
    <2>3. \A i \in 1 .. Len(task.plan) : i <= Len(seg.shown) /\ Glyphs(task.plan[i]) = Glyphs(seg.shown[i])
      BY <1>1, <2>2 DEF Differing
    <2>4. Len(task.plan) = Len(seg.shown)
      <3>1. CASE Len(task.plan) = 0
        BY <3>1, <2>1, <2>2
      <3>2. CASE Len(task.plan) # 0
        <4>1. Len(task.plan) \in 1 .. Len(task.plan)
          BY <3>2, <2>2
        <4> QED
          BY <4>1, <2>1, <2>2, <2>3
      <3> QED
        BY <3>1, <3>2
    <2>5. \A i \in 1 .. Len(task.plan) : Places(task.plan[i]) = Places(seg.shown[i])
      BY <2>3, SameLooks
    <2>6. Lines(task.plan) = Lines(seg.shown)
      BY <2>2, <2>4, <2>5 DEF Lines
    <2> QED
      BY <2>6 DEF Joined
  <1>5. Told(seg', screen', Said', Due')
    <2>1. Said' = Said /\ Due' = Due
      BY <1>1, SameSaid DEF Due
    <2> QED
      BY <1>1, <1>2, <1>3, <2>1, ToldSame
  <1>6. Joined(seg'.shown) = Places(seg'.raw) /\ Blank(seg')
    BY <1>2, <1>3, <1>4 DEF Blank
  <1> QED
    BY <1>1, <1>2, <1>3, <1>5, <1>6, CalmThen

\* A new text has no message yet: all that the chat shows is old.
LEMMA FreshTold ==
  ASSUME NEW scr \in Seq(Messages), NEW due \in Seq(Nat)
  PROVE  /\ Recent(Fresh, scr) /\ Old(Fresh, scr) = FlattenSeq(Sights(scr)) /\ Places(Fresh.raw) = <<>> /\ Blank(Fresh)
         /\ Told(Fresh, scr, FlattenSeq(Sights(scr)) \o due, due)
  <1> DEFINE ss == Sights(scr)
  <1>1. Fresh.ids = <<>> /\ Fresh.shown = <<>> /\ Fresh.raw = <<>> /\ Len(<<>>) = 0
    BY EmptySeq DEF Fresh
  <1>2. Len(scr) \in Nat /\ ss \in Seq(Seq(Nat)) /\ Len(ss) = Len(scr)
    BY SightsAre
  <1>3. Len(Fresh.ids) = 0
    BY <1>1
  <1>4. Recent(Fresh, scr)
    <2>1. Len(Fresh.ids) <= Len(scr) /\ 1 .. Len(Fresh.ids) = {}
      BY <1>2, <1>3
    <2> QED
      BY <2>1 DEF Recent
  <1>5. Old(Fresh, scr) = FlattenSeq(ss)
    <2>1. Len(scr) - Len(Fresh.ids) = Len(ss)
      BY <1>2, <1>3
    <2>2. SubSeq(ss, 1, Len(scr) - Len(Fresh.ids)) = SubSeq(ss, 1, Len(ss))
      BY <2>1
    <2>3. SubSeq(ss, 1, Len(ss)) = ss
      BY <1>2, SubSeqFull
    <2> QED
      BY <2>2, <2>3 DEF Old
  <1>6. Places(Fresh.raw) = <<>> /\ Blank(Fresh)
    BY <1>1, PlacesEmpty, JoinedNothing DEF Blank
  <1>7. Places(Fresh.raw) \o due = due
    BY <1>6, WithNothing
  <1> QED
    BY <1>4, <1>5, <1>6, <1>7 DEF Told

LEMMA DueType ==
  ASSUME SaidInv PROVE Due \in Seq(Nat)
  <1>1. CASE pc = "part" \/ task.after = "part"
    <2>1. Count > 0
      BY <1>1 DEF SaidInv, TaskInv
    <2>2. Count \in 1 .. Len(job.feed)
      <3>1. Count \in 0 .. Len(job.feed) /\ Len(job.feed) \in Nat
        BY FeedFacts DEF SaidInv
      <3> QED
        BY <2>1, <3>1
    <2> QED
      BY <1>1, <2>2, SaidByType DEF SaidInv, Due
  <1>2. CASE ~(pc = "part" \/ task.after = "part")
    BY <1>2, WithNothing, EmptySeq DEF Due
  <1> QED
    BY <1>1, <1>2

\* When the chat is up to date it shows what was said, but for a component that is owed.
LEMMA AllTold ==
  ASSUME SaidInv, Told(seg, screen, Said, Due), Joined(seg.shown) = Places(seg.raw)
  PROVE  Said = FlattenSeq(Sights(screen)) \o Due
  <1>1. /\ FlattenSeq(Sights(screen)) = Old(seg, screen) \o Joined(seg.shown)
        /\ Old(seg, screen) \in Seq(Nat) /\ Joined(seg.shown) \in Seq(Nat)
    BY CalmFacts, AllOfIt DEF Told
  <1>2. Due \in Seq(Nat)
    BY DueType
  <1>3. Said = Old(seg, screen) \o (Joined(seg.shown) \o Due)
    BY DEF Told
  <1>4. Old(seg, screen) \o (Joined(seg.shown) \o Due) = (Old(seg, screen) \o Joined(seg.shown)) \o Due
    <2> DEFINE a == Old(seg, screen)
               b == Joined(seg.shown)
               c == Due
    <2>1. a \in Seq(Nat) /\ b \in Seq(Nat) /\ c \in Seq(Nat)
      BY <1>1, <1>2
    <2> HIDE DEF a, b, c
    <2> QED
      BY <2>1, Regrouped
  <1> QED
    BY <1>1, <1>3, <1>4

LEMMA ReturnedCalm ==
  ASSUME SaidInv, CalmInv, Returned PROVE CalmInv'
  <1> SUFFICES ASSUME ~disturbed' PROVE CalmInv'
    BY DEF CalmInv
  <1>1. /\ pc = "return" \/ (pc = "resend" /\ task.queue = <<>>)
        /\ pc' = (CASE task.after \in {"pull", "break"} -> "pull" [] task.after = "part" -> "part" [] OTHER -> "ack")
        /\ seg' = (IF task.after \in {"break", "part"} THEN Fresh ELSE seg)
        /\ outcome' = (IF task.after = "end" THEN "done" ELSE outcome)
        /\ task' = NoTask /\ ~disturbed
        /\ UNCHANGED <<job, feed, screen>>
    BY DEF Returned
  <1>2. pc = "return"
    BY <1>1, CalmNow
  <1>3. outcome = "running" /\ task.after \in {"pull", "break", "part", "end"} /\ (task.force <=> task.after # "pull")
    BY <1>2 DEF SaidInv, TaskInv, Publishes, Running
  <1>4. /\ ~seg.failed /\ Told(seg, screen, Said, Due) /\ Blank(seg)
        /\ task.after # "pull" => Joined(seg.shown) = Places(seg.raw)
    BY <1>1, <1>2, <1>3, CalmNow
  <1>5. Said' = Said /\ SaidBy(Count)' = SaidBy(Count)
    BY <1>1, SameSaid
  <1>6. NoTask.after = "pull" /\ NoTask.queue = <<>> /\ NoTask.force = FALSE /\ Fresh.failed = FALSE
    BY DEF NoTask, Fresh
  <1>7. screen \in Seq(Messages) /\ <<>> \in Seq(Nat) /\ FlattenSeq(Sights(screen)) \in Seq(Nat)
    <2>1. screen \in Seq(Messages)
      BY CalmFacts
    <2>2. Sights(screen) \in Seq(Seq(Nat))
      BY <2>1, SightsAre
    <2> QED
      BY <2>1, <2>2, FlattenType, EmptySeq
  <1>8. CASE task.after = "pull"
    <2>1. pc' = "pull" /\ seg' = seg /\ outcome' = "running"
      BY <1>1, <1>3, <1>8
    <2>2. Due = <<>> /\ Due' = <<>>
      BY <1>1, <1>2, <1>6, <1>8, <2>1 DEF Due
    <2> QED
      BY <1>1, <1>4, <1>5, <1>6, <2>1, <2>2, CalmThen
  <1>9. CASE task.after = "break"
    <2>1. pc' = "pull" /\ seg' = Fresh /\ outcome' = "running"
      BY <1>1, <1>3, <1>9
    <2>2. Due = <<>> /\ Due' = <<>>
      BY <1>1, <1>2, <1>6, <1>9, <2>1 DEF Due
    <2>3. Said = FlattenSeq(Sights(screen)) \o <<>>
      BY <1>4, <1>9, <2>2, AllTold
    <2>4. Told(Fresh, screen, Said, <<>>) /\ Blank(Fresh)
      BY <1>7, <2>3, FreshTold
    <2> QED
      BY <1>1, <1>5, <1>6, <2>1, <2>2, <2>4, CalmThen
  <1>10. CASE task.after = "part"
    <2>1. pc' = "part" /\ seg' = Fresh /\ outcome' = "running"
      BY <1>1, <1>3, <1>10
    <2>2. Due' = Due
      BY <1>5, <1>10, <2>1 DEF Due
    <2>3. Said = FlattenSeq(Sights(screen)) \o Due
      BY <1>4, <1>10, AllTold
    <2>4. Told(Fresh, screen, Said, Due) /\ Blank(Fresh)
      BY <1>7, <2>3, FreshTold, DueType
    <2> QED
      BY <1>1, <1>5, <1>6, <2>1, <2>2, <2>4, CalmThen
  <1>11. CASE task.after = "end"
    <2>1. pc' = "ack" /\ seg' = seg /\ outcome' = "done"
      BY <1>1, <1>11
    <2>2. Due = <<>>
      BY <1>2, <1>11 DEF Due
    <2>3. Said = FlattenSeq(Sights(screen)) \o <<>>
      BY <1>4, <1>11, <2>2, AllTold
    <2>4. Shown' = FlattenSeq(Sights(screen))
      <3>1. Shown' = Shown
        BY <1>1 DEF Shown
      <3> QED
        BY <3>1, ShownIs
    <2>5. Shown' = Said'
      BY <1>5, <1>7, <2>3, <2>4, WithNothing
    <2>6. outcome' # "running" /\ pc' # "resend"
      BY <2>1
    <2> HIDE DEF Shown, Said
    <2> QED
      BY <1>1, <1>4, <1>6, <2>1, <2>5, <2>6 DEF CalmInv
  <1> QED
    BY <1>3, <1>8, <1>9, <1>10, <1>11

LEMMA SendPartCalm ==
  ASSUME SaidInv, CalmInv, SendPart PROVE CalmInv'
  <1> SUFFICES ASSUME ~disturbed', ~Raise PROVE CalmInv'
    BY RaiseCalm DEF CalmInv
  <1> DEFINE n == Base - Stride + 1
             l == Len(screen)
  <1>1. /\ pc = "part" /\ Post(n, <<>>) /\ pc' = "pull" /\ UNCHANGED <<job, feed, seg, task, outcome>> /\ ~disturbed
    BY DEF SendPart
  <1>2. task = NoTask /\ seg = Fresh /\ Count > 0 /\ job.feed[Count].kind = "part" /\ outcome = "running"
    BY <1>1 DEF SaidInv, TaskInv, Running
  <1>3. n \in Nat /\ n # 0 /\ {n} \subseteq Heard
    BY <1>2, PartPlace DEF SaidInv
  <1>4. SaidBy(Count) = <<n>>
    <2>1. SaidBy(Count) = <<Stride * (Count - 1) + 1>>
      BY <1>2 DEF SaidBy, Texts
    <2>2. Base - Stride + 1 = Stride * (Count - 1) + 1
      <3>1. Count \in Nat
        <4>1. Count \in 0 .. Len(job.feed) /\ Len(job.feed) \in Nat
          BY FeedFacts DEF SaidInv
        <4> QED
          BY <4>1
      <3>2. Base = Stride * Count
        BY DEF Base, Count
      <3> HIDE DEF Count
      <3> QED
        BY <3>1, <3>2 DEF Stride
    <2> QED
      BY <2>1, <2>2
  <1> HIDE DEF n
  <1>5. /\ ~seg.failed /\ task.queue = <<>> /\ Told(Fresh, screen, Said, <<n>>) /\ Blank(Fresh)
    <2>1. Due = <<n>>
      BY <1>1, <1>4 DEF Due
    <2> QED
      BY <1>1, <1>2, <2>1, CalmNow
  <1>6. /\ screen' \in Seq(Messages) /\ Len(screen') = l + 1 /\ l \in Nat /\ screen \in Seq(Messages)
        /\ (\A i \in 1 .. l : screen'[i] = screen[i]) /\ screen'[l + 1].n = n
    <2>1. SentInv /\ Heard' = Heard
      BY <1>1, SameFeed DEF SaidInv
    <2>2. <<>> \in Seq(Characters) /\ (IF n = 0 THEN PlacesIn(<<>>) ELSE {n}) \subseteq Heard
      BY <1>3, EmptySeq
    <2> QED
      BY <1>1, <1>3, <2>1, <2>2, PostSays DEF SentInv, ScreenOk
  <1>7. Sights(screen') = Append(Sights(screen), <<n>>) /\ Sights(screen) \in Seq(Seq(Nat)) /\ <<n>> \in Seq(Nat)
    <2> DEFINE a == Sights(screen')
               ss == Sights(screen)
    <2>1. a \in Seq(Seq(Nat)) /\ Len(a) = l + 1 /\ (\A i \in 1 .. l + 1 : a[i] = ShownBy(screen'[i]))
      BY <1>6, SightsAre
    <2>2. ss \in Seq(Seq(Nat)) /\ Len(ss) = l /\ (\A i \in 1 .. l : ss[i] = ShownBy(screen[i]))
      BY <1>6, SightsAre
    <2>3. ShownBy(screen'[l + 1]) = <<n>> /\ <<n>> \in Seq(Nat)
      BY <1>3, <1>6 DEF ShownBy
    <2>4. /\ Append(ss, <<n>>) \in Seq(Seq(Nat)) /\ Len(Append(ss, <<n>>)) = l + 1
          /\ (\A i \in 1 .. l : Append(ss, <<n>>)[i] = ss[i]) /\ Append(ss, <<n>>)[l + 1] = <<n>>
      <3> DEFINE x == <<n>>
      <3>1. x \in Seq(Nat)
        BY <2>3
      <3> HIDE DEF x, ss
      <3>2. /\ Append(ss, x) \in Seq(Seq(Nat)) /\ Len(Append(ss, x)) = l + 1
            /\ (\A i \in 1 .. l : Append(ss, x)[i] = ss[i]) /\ Append(ss, x)[l + 1] = x
        BY <2>2, <3>1, AppendProperties
      <3> QED
        BY <3>2 DEF x
    <2> DEFINE b == Append(ss, <<n>>)
    <2> HIDE DEF a, ss
    <2>5. ASSUME NEW i \in 1 .. l + 1 PROVE a[i] = b[i]
      <3>1. CASE i = l + 1
        BY <3>1, <2>1, <2>3, <2>4
      <3>2. CASE i # l + 1
        <4>1. i \in 1 .. l
          BY <3>2, <1>6
        <4>2. a[i] = ShownBy(screen'[i]) /\ b[i] = ss[i] /\ ss[i] = ShownBy(screen[i]) /\ screen'[i] = screen[i]
          BY <4>1, <2>1, <2>2, <2>4, <1>6
        <4> HIDE DEF b
        <4> QED
          BY <4>2
      <3> QED
        BY <3>1, <3>2
    <2> HIDE DEF b
    <2>6. a = b
      <3>1. b \in Seq(Seq(Nat)) /\ Len(b) = l + 1
        BY <2>4 DEF b
      <3> QED
        BY <2>1, <2>5, <3>1, SeqEqual
    <2> QED
      BY <2>2, <2>3, <2>6 DEF a, b, ss
  <1>8. Said = FlattenSeq(Sights(screen')) \o <<>>
    <2>1. FlattenSeq(Sights(screen')) = FlattenSeq(Sights(screen)) \o <<n>>
      <3> DEFINE x == <<n>>
                 ss == Sights(screen)
      <3>1. x \in Seq(Nat) /\ ss \in Seq(Seq(Nat)) /\ Sights(screen') = Append(ss, x)
        BY <1>7
      <3> HIDE DEF x, ss
      <3>2. FlattenSeq(Sights(screen')) = FlattenSeq(ss) \o x
        BY <3>1, FlattenAppend
      <3> QED
        BY <3>2 DEF x, ss
    <2>2. Old(Fresh, screen) = FlattenSeq(Sights(screen)) /\ Places(Fresh.raw) = <<>>
      BY <1>6, <1>7, FreshTold
    <2>3. Said = FlattenSeq(Sights(screen)) \o (<<>> \o <<n>>)
      BY <1>5, <2>2 DEF Told
    <2>4. <<>> \o <<n>> = <<n>>
      BY <1>7, WithNothing
    <2>5. Said = FlattenSeq(Sights(screen'))
      BY <2>1, <2>3, <2>4
    <2> QED
      BY <2>5, CalmFacts, WithNothing
  <1>9. Told(Fresh, screen', Said, <<>>)
    <2>1. <<>> \in Seq(Nat)
      BY EmptySeq
    <2> QED
      BY <1>6, <1>8, <2>1, FreshTold
  <1>10. Said' = Said /\ Due' = <<>>
    <2>1. NoTask.after = "pull"
      BY DEF NoTask
    <2> QED
      BY <1>1, <1>2, <2>1, SameSaid DEF Due
  <1> QED
    BY <1>1, <1>2, <1>5, <1>9, <1>10, CalmThen

LEMMA CalmBegins == Init => CalmInv
  <1> SUFFICES ASSUME Init PROVE CalmInv
    OBVIOUS
  <1>1. /\ seg = Fresh /\ screen = <<>> /\ pc = "pull" /\ task = NoTask /\ outcome = "running" /\ feed = job.feed
    BY DEF Init
  <1>2. NoTask.after = "pull" /\ NoTask.queue = <<>> /\ NoTask.force = FALSE /\ Fresh.failed = FALSE
    BY DEF NoTask, Fresh
  <1>3. SaidInv
    BY InitSays
  <1>4. Due = <<>> /\ <<>> \in Seq(Nat) /\ screen \in Seq(Messages)
    BY <1>1, <1>2, EmptySeq DEF Due
  <1>5. Count = 0
    <2>1. Len(job.feed) \in Nat
      BY <1>3, FeedFacts DEF SaidInv
    <2> QED
      BY <1>1, <2>1 DEF Count
  <1>6. Said = <<>>
    <2>1. Tells \in Seq(Seq(Nat)) /\ Len(Tells) = 0 /\ Said = FlattenSeq(Tells)
      BY <1>3, <1>5, SaidType DEF SaidInv
    <2>2. Tells = <<>>
      <3> HIDE DEF Tells
      <3> QED
        BY <2>1, EmptySeq
    <2> QED
      BY <2>1, <2>2, FlattenEmpty
  <1>7. FlattenSeq(Sights(screen)) = <<>>
    <2>1. Sights(screen) = <<>>
      BY <1>1 DEF Sights
    <2> QED
      BY <2>1, FlattenEmpty
  <1>8. Told(Fresh, screen, Said, <<>>) /\ Blank(Fresh)
    <2>1. <<>> \o <<>> = <<>>
      BY WithNothing, <1>4
    <2>2. Said = FlattenSeq(Sights(screen)) \o <<>>
      BY <1>6, <1>7, <2>1
    <2> QED
      BY <1>4, <2>2, FreshTold
  <1> HIDE DEF Said, Due, Shown
  <1>9. outcome # "done" /\ pc # "edit" /\ pc # "return" /\ pc # "resend"
    BY <1>1
  <1> QED
    BY <1>1, <1>2, <1>4, <1>8, <1>9 DEF CalmInv

LEMMA CalmStep == SaidInv /\ CalmInv /\ [Next]_vars => CalmInv'
  <1> SUFFICES ASSUME SaidInv, CalmInv, [Next]_vars PROVE CalmInv'
    OBVIOUS
  <1>1. CASE PullText
    BY <1>1, PullTextCalm
  <1>2. CASE PullReply
    BY <1>2, PullReplyCalm
  <1>3. CASE Forced
    BY <1>3, ForcedCalm
  <1>4. CASE EditChunk
    BY <1>4, EditChunkCalm
  <1>5. CASE SendChunk
    BY <1>5, SendChunkCalm
  <1>6. CASE AllShown
    BY <1>6, AllShownCalm
  <1>7. CASE Resend
    <2>1. disturbed
      BY <1>7, CalmNow DEF Resend
    <2> QED
      BY <1>7, <2>1, RaiseCalm DEF Resend, CalmInv
  <1>8. CASE Returned
    BY <1>8, ReturnedCalm
  <1>9. CASE SendPart
    BY <1>9, SendPartCalm
  <1>10. CASE GeneratorFails
    BY <1>10, RaiseCalm DEF GeneratorFails
  <1>11. CASE Acknowledge
    BY <1>11, KeptCalm DEF Acknowledge, Running
  <1>12. CASE StopTyping
    BY <1>12, KeptCalm DEF StopTyping, Running
  <1>13. CASE Release
    BY <1>13, KeptCalm DEF Release, Running
  <1>14. CASE OtherStarts \/ OtherStops \/ OtherEnds
    BY <1>14, KeptCalm DEF OtherStarts, OtherStops, OtherEnds, reply
  <1>15. CASE UNCHANGED vars
    BY <1>15, KeptCalm DEF vars, reply
  <1> QED
    BY <1>1, <1>2, <1>3, <1>4, <1>5, <1>6, <1>7, <1>8, <1>9, <1>10, <1>11, <1>12, <1>13, <1>14, <1>15 DEF Next, Step

\* ExactWhenCalm, for every job, every number of faults, and edits and sends that fail before or
\* after they took effect: unless a publish was given up (_disable_editing, _publish), a reply
\* that ends well shows every visible character once and in order, its breaks and components
\* between them.
THEOREM ExactlyOnce == Spec => []ExactWhenCalm
  <1>1. CalmInv => ExactWhenCalm
    BY DEF CalmInv, ExactWhenCalm
  <1> QED
    BY <1>1, SaidHolds, CalmBegins, CalmStep, PTL DEF Spec

=============================================================================
