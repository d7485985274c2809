------------------------ MODULE AdapterInboundProofs ------------------------
(***************************************************************************)
(* Proofs about AdapterInbound for any identities, lists and streams: who  *)
(* is let in is who the list names under an identity known to be theirs;   *)
(* the journal answers what stands; who calls the bot wakes it; and the    *)
(* chain holds the whole message.                                          *)
(***************************************************************************)
EXTENDS AdapterInbound, SequenceTheorems, FiniteSetTheorems, FunctionTheorems, WellFoundedInduction, TLAPS

-----------------------------------------------------------------------------
(* What the list names.                                                    *)
LEMMA Identities ==
  /\ 0 \notin Keys /\ Lids \cap Pns = {}
  /\ \A l \in Lids : Owner[l] \in Pns
  <1>1. \A p \in Pns, l \in Lids : p < l
    BY IdentityAssumption
  <1>2. ASSUME NEW k \in Lids, k \in Pns PROVE FALSE
    BY <1>1, <1>2, IdentityAssumption
  <1> QED
    BY <1>2, IdentityAssumption DEF Keys

LEMMA JidIsKey ==
  ASSUME NEW s \in TrueSides
  PROVE  /\ Jid(s) \in Keys
         /\ s[1] \in Lids \cup {0} /\ s[2] \in Pns \cup {0}
         /\ s[1] # 0 => Jid(s) = s[1] /\ Jid(s) \in Lids
         /\ s[1] = 0 => s[2] # 0 /\ Jid(s) = s[2]
         /\ s[2] # 0 => Person(Jid(s)) = s[2]
  <1>1. s[1] \in Lids \cup {0} /\ s[2] \in Pns \cup {0} /\ s = <<s[1], s[2]>>
    BY DEF TrueSides
  <1>2. ~(s[1] = 0 /\ s[2] = 0) /\ (s[1] # 0 /\ s[2] # 0 => Owner[s[1]] = s[2])
    BY <1>1 DEF TrueSides
  <1> QED
    BY <1>1, <1>2, Identities DEF Jid, Keys, Person

\* An item reaches an identity, or the number known of it.
Reaches(c, k, v) == v # 0 /\ (Same(c, k, v) \/ (PnOf(c, v) # 0 /\ Same(c, k, PnOf(c, v))))
KnownAs(known, k, v) ==
  k = v \/ (k \in Keys /\ Person(k) = Person(v) /\ {k, v} \cap Lids \subseteq known)

LEMMA ReachesKey ==
  ASSUME NEW c, c.known \subseteq Lids, NEW k, NEW v \in Keys
  PROVE  Reaches(c, k, v) <=> KnownAs(c.known, k, v)
  <1>1. CASE v \in Pns
    <2>1. v \notin Lids /\ PnOf(c, v) = 0 /\ Person(v) = v /\ v # 0
      BY <1>1, Identities DEF PnOf, Person, Keys
    <2>2. Reaches(c, k, v) <=> k = v \/ (k \in c.known /\ Owner[k] = v)
      BY <2>1 DEF Reaches, Same
    <2>3. k \in c.known => k \in Lids /\ k \in Keys /\ Person(k) = Owner[k]
      BY DEF Keys, Person
    <2>4. k \in Keys \ Lids => Person(k) = k
      BY DEF Person
    <2> QED
      BY <2>1, <2>2, <2>3, <2>4 DEF KnownAs
  <1>2. CASE v \in Lids /\ v \notin c.known
    <2>1. v # 0 /\ PnOf(c, v) = 0
      BY <1>2, Identities DEF PnOf, Keys
    <2>2. k \in c.known => k \in Lids /\ Owner[k] # v
      BY <1>2, Identities
    <2> QED
      BY <1>2, <2>1, <2>2 DEF Reaches, Same, KnownAs
  <1>3. CASE v \in c.known
    <2>1. v # 0 /\ PnOf(c, v) = Owner[v] /\ Owner[v] \in Pns /\ Owner[v] # 0 /\ Owner[v] \notin c.known
          /\ Person(v) = Owner[v] /\ v \in Lids
      BY <1>3, Identities DEF PnOf, Keys, Person
    <2>2. Reaches(c, k, v) <=> k = v \/ (k \in c.known /\ Owner[k] = v) \/ Owner[v] = k
                               \/ (k \in c.known /\ Owner[k] = Owner[v])
      BY <1>3, <2>1 DEF Reaches, Same
    <2>3. k \in c.known => k \in Lids /\ k \in Keys /\ Owner[k] # v /\ Person(k) = Owner[k]
      BY <2>1, Identities DEF Keys, Person
    <2>4. k \in Keys /\ k \notin Lids => Person(k) = k
      BY DEF Person
    <2>5. Owner[v] \in Keys /\ Owner[v] \notin Lids
      BY <2>1, Identities DEF Keys
    <2> QED
      BY <1>3, <2>1, <2>2, <2>3, <2>4, <2>5 DEF KnownAs
  <1> QED
    BY <1>1, <1>2, <1>3 DEF Keys

LEMMA ReachesGroup ==
  ASSUME NEW c, c.known \subseteq Lids, NEW k
  PROVE  Reaches(c, k, GroupChat) <=> k = GroupChat
  <1>1. GroupChat # 0 /\ GroupChat \notin Lids /\ GroupChat \notin Pns
    BY StreamAssumption DEF Keys, GroupChat
  <1>2. PnOf(c, GroupChat) = 0 /\ GroupChat \notin c.known
    BY <1>1 DEF PnOf
  <1>3. k \in c.known => Owner[k] # GroupChat
    BY <1>1, Identities
  <1> QED
    BY <1>1, <1>2, <1>3 DEF Reaches, Same

LEMMA ReachesNobody ==
  ASSUME NEW c, NEW k
  PROVE  ~Reaches(c, k, 0)
  BY DEF Reaches

\* Listed, item by item.
LEMMA ListedByItem ==
  ASSUME NEW c, c.known \subseteq Lids, NEW list, NEW m, NEW pn
  PROVE  Listed(c, list, m, pn) <=>
           \E k \in list : \/ k = Star
                           \/ Reaches(c, k, ChatJid(m)) \/ Reaches(c, k, Jid(m.from)) \/ Reaches(c, k, pn)
  <1>1. ASSUME NEW v
        PROVE  Named(c, list, v) \/ Named(c, list, PnOf(c, v)) <=>
                 Star \in list \/ \E k \in list : Reaches(c, k, v)
    <2>1. v = 0 => PnOf(c, v) = 0
      BY Identities DEF PnOf, Keys
    <2> QED
      BY <2>1 DEF Named, Reaches
  <1> QED
    BY <1>1 DEF Listed

\* What the code looks for is what the list means, with all that is known by then.
LEMMA ListedIsMeant ==
  ASSUME NEW c, c.known \subseteq Lids, NEW list, NEW m, Sighted(m),
         NEW pn \in {0, Person(Jid(m.from))},
         NEW d, d.m = m, d.pn = pn, d.known = c.known, pn # 0 => d.heard = c.known
  PROVE  Listed(c, list, m, pn) <=> \E k \in list : k = Star \/ Sender(d, k) \/ ChatOf(d, k)
  <1>1. Jid(m.from) \in Keys
    BY JidIsKey DEF Sighted
  <1>2. Person(Jid(m.from)) \in Pns
    BY <1>1, Identities DEF Person, Keys
  <1>3. ASSUME NEW k PROVE Reaches(c, k, ChatJid(m)) <=> ChatOf(d, k)
    <2>1. CASE Private(m)
      <3>1. ChatJid(m) \in Keys
        BY <2>1, JidIsKey DEF Sighted, Private, ChatJid
      <3> QED
        BY <2>1, <3>1, ReachesKey DEF ChatOf, KnownAs
    <2>2. CASE ~Private(m)
      <3>1. ChatJid(m) = GroupChat
        BY <2>2 DEF ChatJid
      <3> QED
        BY <2>2, <3>1, ReachesGroup DEF ChatOf
    <2> QED
      BY <2>1, <2>2
  <1>4. ASSUME NEW k
        PROVE  Reaches(c, k, Jid(m.from)) \/ Reaches(c, k, pn) <=> Sender(d, k)
    <2>1. Reaches(c, k, Jid(m.from)) <=> k \in Keys /\ Person(k) = Person(Jid(m.from)) /\ Linked(d, k)
      BY <1>1, ReachesKey DEF KnownAs, Linked
    <2>2. CASE pn = 0
      BY <2>1, <2>2, ReachesNobody DEF Sender
    <2>3. CASE pn # 0
      <3>1. pn = Person(Jid(m.from)) /\ pn \in Keys /\ pn \notin Lids /\ Person(pn) = pn
        BY <1>2, <2>3, Identities DEF Keys, Person
      <3>2. Reaches(c, k, pn) <=> k \in Keys /\ Person(k) = pn /\ (k \in Lids => k \in c.known)
        BY <3>1, ReachesKey DEF KnownAs
      <3> QED
        BY <2>1, <2>3, <3>1, <3>2 DEF Sender
    <2> QED
      BY <2>2, <2>3
  <1> QED
    BY <1>3, <1>4, ListedByItem
-----------------------------------------------------------------------------
(* Projections link only LIDs, the persons of a message among them.        *)
Shape(c) == "known" \in DOMAIN c /\ c.known \subseteq Lids

LEMMA BindShape ==
  ASSUME NEW c, Shape(c), NEW l, NEW p
  PROVE  Shape(Bind(c, l, p))
  <1>1. ASSUME NEW K, NEW pr PROVE Shape(SetProjection(c, K, pr))
    BY DEF Shape, SetProjection
  <1> QED
    BY <1>1 DEF Bind

LEMMA RememberShape ==
  ASSUME NEW c, Shape(c), NEW l \in Lids, NEW p
  PROVE  Shape(Remember(c, l, p))
  <1>1. Shape([c EXCEPT !.known = @ \cup {l}])
    BY DEF Shape
  <1> QED
    BY <1>1, BindShape DEF Remember

LEMMA ProjectShape ==
  ASSUME NEW c, Shape(c), NEW l, l = 0 \/ l \in Lids, NEW p
  PROVE  Shape(Project(c, l, p))
  <1>1. Shape(Alias(c, l, p))
    BY RememberShape DEF Alias
  <1>2. ASSUME NEW d, Shape(d), NEW K, NEW pr PROVE Shape(SetProjection(d, K, pr))
    BY <1>2 DEF Shape, SetProjection
  <1> QED
    BY <1>1, <1>2 DEF Project

LEMMA AddressedShape ==
  ASSUME NEW c, Shape(c), NEW m, Sighted(m), NEW pn
  PROVE  Shape(Addressed(c, m, pn))
  <1>1. /\ m.from[1] \in Lids \cup {0} /\ Bot[1] \in Lids \cup {0}
        /\ Private(m) => m.chat[1] \in Lids \cup {0}
    BY JidIsKey, StreamAssumption DEF Sighted, Private
  <1> DEFINE chat == IF Private(m) THEN <<m.chat[1], Here(c, m.chat[1], m.chat[2])>> ELSE Bot
  <1>2. chat[1] \in Lids \cup {0}
    BY <1>1
  <1>3. Addressed(c, m, pn) = ProjectSides(ProjectSides(Project(c, m.from[1], pn), chat), Bot)
    BY DEF Addressed
  <1> HIDE DEF chat
  <1>4. Shape(Project(c, m.from[1], pn))
    BY <1>1, ProjectShape
  <1>5. ASSUME NEW d, Shape(d), NEW s, s[1] \in Lids \cup {0} PROVE Shape(ProjectSides(d, s))
    BY <1>5, ProjectShape DEF ProjectSides
  <1> QED
    BY <1>1, <1>2, <1>3, <1>4, <1>5

LEMMA LeastExists ==
  ASSUME NEW S, S \subseteq Nat, S # {}
  PROVE  \E x \in S : \A y \in S : x <= y
  <1>1. PICK x \in S : \A y \in S : ~(<<y, x>> \in OpToRel(<, Nat))
    <2> HIDE DEF OpToRel
    <2> QED
      BY NatLessThanWellFounded, WFMin
  <1>2. ASSUME NEW y \in S PROVE x <= y
    <2>1. ~(y < x)
      BY <1>1 DEF OpToRel
    <2> QED
      BY <2>1
  <1> QED
    BY <1>2

\* Seen runs through the persons one by one: the function is there, because there is no least
\* length for which it would not be.
Sees(d, k) == IF k \in Keys THEN ProjectSides(d, Sighting(k)) ELSE d
LEMMA SeenRuns ==
  ASSUME NEW c, NEW m, Sighted(m), NEW pn
  PROVE  /\ Len(Persons(m)) \in Nat
         /\ \E f : /\ Seen(c, m, pn) = f[Len(Persons(m))] /\ f[0] = Addressed(c, m, pn)
                   /\ \A n \in 1 .. Len(Persons(m)) : f[n] = Sees(f[n - 1], Persons(m)[n])
  <1> DEFINE N == Len(Persons(m))
             Next1(d, n) == IF Persons(m)[n] \in Keys THEN ProjectSides(d, Sighting(Persons(m)[n])) ELSE d
             Runs(f, n) == f = [i \in 0 .. n |-> IF i = 0 THEN Addressed(c, m, pn) ELSE Next1(f[i - 1], i)]
             seen == CHOOSE f : Runs(f, N)
  <1>1. Seen(c, m, pn) = seen[N]
    BY DEF Seen
  <1>2. N \in Nat
    BY LenProperties DEF Sighted, Persons
  <1>3. \A d, n : Next1(d, n) = Sees(d, Persons(m)[n])
    BY DEF Sees
  <1> HIDE DEF N, Next1
  <1>4. \E f : Runs(f, N)
    <2> DEFINE Bad == {n \in Nat : ~ \E f : Runs(f, n)}
    <2>1. SUFFICES ASSUME Bad # {} PROVE FALSE
      BY <1>2
    <2>2. PICK x \in Bad : \A y \in Bad : x <= y
      BY <2>1, LeastExists
    <2>3. x # 0
      <3>1. Runs([i \in 0 .. 0 |-> Addressed(c, m, pn)], 0)
        OBVIOUS
      <3> QED
        BY <3>1
    <2>4. x \in Nat /\ x - 1 \in Nat /\ x - 1 \notin Bad
      <3> HIDE DEF Runs
      <3>1. x \in Nat /\ x - 1 \in Nat /\ ~(x <= x - 1)
        BY <2>2, <2>3
      <3> QED
        BY <2>2, <3>1
    <2>5. PICK f : Runs(f, x - 1)
      BY <2>4
    <2> DEFINE g == [i \in 0 .. x |-> IF i = x THEN Next1(f[x - 1], x) ELSE f[i]]
    <2>6. Runs(g, x)
      <3>1. ASSUME NEW i \in 0 .. x
            PROVE  g[i] = IF i = 0 THEN Addressed(c, m, pn) ELSE Next1(g[i - 1], i)
        <4>1. CASE i = x
          BY <4>1, <2>3, <2>4
        <4>2. CASE i = 0
          BY <4>2, <2>3, <2>4, <2>5
        <4>3. CASE i # x /\ i # 0
          <5>1. i \in 0 .. x - 1 /\ i - 1 \in 0 .. x /\ i - 1 # x /\ i - 1 \in 0 .. x - 1
            BY <4>3, <2>4
          <5>2. f[i] = Next1(f[i - 1], i)
            BY <5>1, <4>3, <2>5
          <5> QED
            BY <5>1, <5>2, <4>3
        <4> QED
          BY <4>1, <4>2, <4>3
      <3> QED
        BY <3>1
    <2> QED
      BY <2>2, <2>6
  <1>5. Runs(seen, N)
    <2> HIDE DEF Runs
    <2> QED
      BY <1>4
  <1> HIDE DEF seen
  <1> QED
    <2>1. seen[0] = Addressed(c, m, pn)
      BY <1>2, <1>5
    <2>2. \A n \in 1 .. N : seen[n] = Next1(seen[n - 1], n)
      BY <1>2, <1>5
    <2> QED
      BY <1>1, <1>2, <1>3, <2>1, <2>2 DEF N

\* What Addressed has, and each sighting of a person keeps, Seen has too.
LEMMA SeenShape ==
  ASSUME NEW c, Shape(c), NEW m, Sighted(m), NEW pn
  PROVE  Shape(Seen(c, m, pn))
  <1> DEFINE N == Len(Persons(m))
  <1>1. PICK f : /\ Seen(c, m, pn) = f[N] /\ f[0] = Addressed(c, m, pn)
                 /\ \A n \in 1 .. N : f[n] = Sees(f[n - 1], Persons(m)[n])
    BY SeenRuns
  <1>2. N \in Nat
    BY SeenRuns
  <1>3. ASSUME NEW d, Shape(d), NEW k PROVE Shape(Sees(d, k))
    <2>1. ASSUME k \in Keys PROVE Shape(ProjectSides(d, Sighting(k)))
      BY <1>3, <2>1, ProjectShape DEF ProjectSides, Sighting
    <2> QED
      BY <1>3, <2>1 DEF Sees
  <1> HIDE DEF N
  <1> DEFINE Bad == {n \in 0 .. N : ~Shape(f[n])}
  <1>4. SUFFICES ASSUME Bad # {} PROVE FALSE
    BY <1>1, <1>2
  <1>5. PICK x \in Bad : \A y \in Bad : x <= y
    <2>1. Bad \subseteq Nat
      BY <1>2
    <2> HIDE DEF Bad
    <2> QED
      BY <1>4, <2>1, LeastExists
  <1>6. x # 0
    BY <1>1, AddressedShape
  <1>7. x \in 1 .. N /\ x - 1 \in 0 .. N /\ x - 1 \notin Bad
    BY <1>2, <1>5, <1>6
  <1> QED
    BY <1>1, <1>3, <1>5, <1>7
-----------------------------------------------------------------------------
(* The inductive invariant: what is known of the message that is handled.  *)
MailInv == \A i \in DOMAIN mail : Sighted(mail[i])
Fields == {"pc", "m", "pn", "rule", "known", "heard", "chain", "woken"}
\* The number of the sender is unknown or true.
Told(t) == Sighted(t.m) /\ t.pn \in {0, Person(Jid(t.m.from))}
\* A question is asked only of a LID, and of a sender only while their number is unknown; one
\* about admission only when the message is not let in by what is known; and an acknowledgement
\* is sent only for one that is.
TaskInv ==
  /\ DOMAIN task = Fields
  /\ task.pc # "idle" => Told(task)
  /\ task.pc \in {"sender", "admit"} => task.m.from[1] \in Lids /\ task.pn = 0
  /\ task.pc = "chat" => Private(task.m) /\ task.m.chat[1] \in Lids
  /\ task.pc = "admit" => Policy(task.m, task.rule) \notin {"open", "disabled"} /\ ~LetIn(task)
  /\ task.pc = "ack" => LetIn(task)
DecidedInv == decided \in Seq(ToSet(decided)) /\ AdmittedIffListed
AdmitInv == MailInv /\ Shape(cache) /\ TaskInv /\ DecidedInv

LEMMA SelfTyped == ASSUME NEW s, NEW S, s \in Seq(S) PROVE s \in Seq(ToSet(s))
  <1>1. DOMAIN s = 1 .. Len(s) /\ Len(s) \in Nat /\ s = [i \in 1 .. Len(s) |-> s[i]]
    BY LenProperties
  <1>2. \A i \in 1 .. Len(s) : s[i] \in ToSet(s)
    BY <1>1 DEF ToSet
  <1> QED
    BY <1>1, <1>2

\* LetIn reads five fields.
LEMMA LetInFields ==
  ASSUME NEW a, NEW b, a.m = b.m, a.pn = b.pn, a.known = b.known, a.rule = b.rule,
         a.pn # 0 => a.heard = b.heard
  PROVE  LetIn(a) <=> LetIn(b)
  BY DEF LetIn, Sender, ChatOf, Linked

\* A message that is settled as its outcome says keeps the decisions right.
LEMMA SettleRight ==
  ASSUME NEW t, NEW outcome, DecidedInv, Settle(t, outcome),
         outcome = "committed" => LetIn(t), outcome = "refused" => ~LetIn(t)
  PROVE  DecidedInv' /\ TaskInv'
  <1> DEFINE r == [m |-> t.m, outcome |-> outcome, woken |-> t.woken, pn |-> t.pn, known |-> t.known,
                   heard |-> t.heard, rule |-> t.rule, chain |-> t.chain]
  <1>1. task' = Idle /\ decided' = Append(decided, r)
    BY DEF Settle
  <1>2. LetIn(r) <=> LetIn(t)
    BY LetInFields
  <1>3. r.outcome = outcome
    OBVIOUS
  <1> HIDE DEF r
  <1>4. decided \in Seq(ToSet(decided) \cup {r}) /\ r \in ToSet(decided) \cup {r}
    <2>1. \A i \in 1 .. Len(decided) : decided[i] \in ToSet(decided)
      BY LenProperties DEF DecidedInv, ToSet
    <2> QED
      BY <2>1 DEF DecidedInv
  <1>5. decided' \in Seq(ToSet(decided) \cup {r}) /\ DOMAIN decided' = 1 .. Len(decided) + 1
        /\ Len(decided) \in Nat /\ DOMAIN decided = 1 .. Len(decided)
        /\ decided'[Len(decided) + 1] = r
        /\ \A i \in 1 .. Len(decided) : decided'[i] = decided[i]
    BY <1>1, <1>4, AppendProperties, LenProperties
  <1>6. decided' \in Seq(ToSet(decided'))
    BY <1>5, SelfTyped
  <1>7. ASSUME NEW i \in DOMAIN decided'
        PROVE  /\ decided'[i].outcome = "committed" => LetIn(decided'[i])
               /\ decided'[i].outcome = "refused" => ~LetIn(decided'[i])
    <2>1. CASE i = Len(decided) + 1
      BY <2>1, <1>2, <1>3, <1>5
    <2>2. CASE i \in DOMAIN decided
      BY <2>2, <1>5 DEF DecidedInv, AdmittedIffListed
    <2> QED
      BY <2>1, <2>2, <1>5
  <1>8. AdmittedIffListed'
    BY <1>7 DEF AdmittedIffListed
  <1>9. TaskInv'
    BY <1>1 DEF TaskInv, Idle, Fields
  <1> QED
    BY <1>6, <1>8, <1>9 DEF DecidedInv

\* What the verdict says of a message is what the list means for it.
LEMMA VerdictRight ==
  ASSUME NEW c, c.known \subseteq Lids, NEW d, Told(d), d.known = c.known, d.heard = c.known
  PROVE  LET v == Verdict(c, d.m, d.pn, d.rule)
         IN  /\ v = "no" => ~LetIn(d)
             /\ v = "ask" => ~LetIn(d) /\ Policy(d.m, d.rule) \notin {"open", "disabled"}
                             /\ d.m.from[1] # 0 /\ d.pn = 0
             /\ v \notin {"no", "ask"} => LetIn(d)
  <1>1. Listed(c, List(d.m, d.rule), d.m, d.pn) <=>
          \E k \in List(d.m, d.rule) : k = Star \/ Sender(d, k) \/ ChatOf(d, k)
    BY ListedIsMeant DEF Told
  <1> QED
    BY <1>1 DEF Verdict, LetIn

LEMMA WaitRight ==
  ASSUME NEW t, NEW pc, Wait(t, pc), DecidedInv, DOMAIN t = Fields, Told(t), pc # "idle",
         pc \in {"sender", "admit"} => t.m.from[1] \in Lids /\ t.pn = 0,
         pc = "chat" => Private(t.m) /\ t.m.chat[1] \in Lids,
         pc = "admit" => Policy(t.m, t.rule) \notin {"open", "disabled"} /\ ~LetIn(t),
         pc = "ack" => LetIn(t)
  PROVE  DecidedInv' /\ TaskInv'
  <1> DEFINE u == [t EXCEPT !.pc = pc]
  <1>1. task' = u /\ decided' = decided
    BY DEF Wait
  <1>2. DOMAIN u = Fields /\ u.pc = pc /\ u.m = t.m /\ u.pn = t.pn /\ u.rule = t.rule
        /\ u.known = t.known /\ u.heard = t.heard
    BY DEF Fields
  <1> HIDE DEF u
  <1>3. LetIn(u) <=> LetIn(t)
    BY <1>2, LetInFields
  <1>4. DecidedInv'
    BY <1>1 DEF DecidedInv, AdmittedIffListed
  <1>5. TaskInv'
    BY <1>1, <1>2, <1>3 DEF TaskInv, Told
  <1> QED
    BY <1>4, <1>5

LEMMA HandleRight ==
  ASSUME NEW c, Shape(c), NEW t, DOMAIN t = Fields, Told(t), DecidedInv, Handle(c, t)
  PROVE  Shape(cache') /\ DecidedInv' /\ TaskInv'
  <1> DEFINE done == [t EXCEPT !.chain = Chain(c, t.m), !.rule = config, !.known = c.known,
                               !.heard = c.known, !.woken = Wakes(c, t.m, config)]
             verdict == Verdict(c, t.m, t.pn, config)
  <1>1. DOMAIN done = Fields /\ done.m = t.m /\ done.pn = t.pn /\ done.rule = config
        /\ done.known = c.known /\ done.heard = c.known
    BY DEF Fields
  <1>2. cache' = c
    BY DEF Handle
  <1>3. \/ Settle(t, "ignored") \/ Settle(t, "recorded")
        \/ verdict = "no" /\ Settle(done, "refused")
        \/ verdict = "ask" /\ Wait(done, "admit")
        \/ verdict \notin {"no", "ask"} /\ (Wait(done, "ack") \/ Settle(done, "committed"))
    BY DEF Handle
  <1> HIDE DEF done, verdict
  <1>4. Told(done)
    BY <1>1 DEF Told
  <1>5. /\ verdict = "no" => ~LetIn(done)
        /\ verdict = "ask" => ~LetIn(done) /\ Policy(done.m, done.rule) \notin {"open", "disabled"}
                              /\ done.m.from[1] # 0 /\ done.pn = 0
        /\ verdict \notin {"no", "ask"} => LetIn(done)
    BY <1>1, <1>4, VerdictRight DEF Shape, verdict
  <1>6. done.m.from[1] \in Lids \cup {0}
    BY <1>4, JidIsKey DEF Told, Sighted
  <1>7. DecidedInv' /\ TaskInv'
    <2>1. CASE Settle(t, "ignored") \/ Settle(t, "recorded")
      BY <2>1, SettleRight
    <2>2. CASE verdict = "no" /\ Settle(done, "refused")
      BY <2>2, <1>5, SettleRight
    <2>3. CASE verdict = "ask" /\ Wait(done, "admit")
      BY <2>3, <1>1, <1>4, <1>5, <1>6, WaitRight
    <2>4. CASE verdict \notin {"no", "ask"} /\ Wait(done, "ack")
      BY <2>4, <1>1, <1>4, <1>5, WaitRight
    <2>5. CASE verdict \notin {"no", "ask"} /\ Settle(done, "committed")
      BY <2>5, <1>5, SettleRight
    <2> QED
      BY <1>3, <2>1, <2>2, <2>3, <2>4, <2>5
  <1> QED
    BY <1>2, <1>7

LEMMA ConvertRight ==
  ASSUME NEW c, Shape(c), NEW t, DOMAIN t = Fields, Told(t), DecidedInv, Convert(c, t)
  PROVE  Shape(cache') /\ DecidedInv' /\ TaskInv'
  <1>1. CASE Private(t.m) /\ Here(c, t.m.chat[1], t.m.chat[2]) = 0
    <2>1. t.m.chat[1] \in Lids
      BY <1>1, JidIsKey, Identities DEF Told, Sighted, Private, Here, Keys
    <2>2. cache' = c /\ Wait(t, "chat")
      BY <1>1 DEF Convert
    <2> QED
      BY <1>1, <2>1, <2>2, WaitRight
  <1>2. CASE ~(Private(t.m) /\ Here(c, t.m.chat[1], t.m.chat[2]) = 0)
    <2>1. Handle(Seen(c, t.m, t.pn), t)
      BY <1>2 DEF Convert
    <2>2. Shape(Seen(c, t.m, t.pn))
      BY SeenShape DEF Told
    <2> QED
      BY <2>1, <2>2, HandleRight
  <1> QED
    BY <1>1, <1>2

-----------------------------------------------------------------------------
(* The steps.                                                              *)
LEMMA TakeRight ==
  ASSUME AdmitInv, Take
  PROVE  Shape(cache') /\ DecidedInv' /\ TaskInv'
  <1> DEFINE m == mail[next]
             l == m.from[1]
             p == Here(cache, l, m.from[2])
             t == [Idle EXCEPT !.m = m, !.pn = p, !.rule = config]
             c == IF l # 0 /\ l \notin cache.known THEN Remember(cache, l, p) ELSE cache
  <1>1. Sighted(m)
    BY DEF AdmitInv, MailInv, Take
  <1>2. DOMAIN t = Fields /\ t.m = m /\ t.pn = p
    BY DEF Idle, Fields
  <1>3. l \in Lids \cup {0} /\ m.from[2] \in Pns \cup {0} /\ (l = 0 => m.from[2] # 0)
        /\ (l # 0 => Jid(m.from) = l) /\ (m.from[2] # 0 => Person(Jid(m.from)) = m.from[2])
    BY <1>1, JidIsKey DEF Sighted
  <1>4. p \in {0, Person(Jid(m.from))} /\ (p = 0 => l \in Lids)
    <2>1. CASE m.from[2] # 0
      BY <2>1, <1>3 DEF Here
    <2>2. CASE m.from[2] = 0
      <3>1. l \in Lids /\ Jid(m.from) = l /\ p \in {0, Owner[l]}
        BY <2>2, <1>3 DEF Here, PnOf
      <3> QED
        BY <3>1 DEF Person
    <2> QED
      BY <2>1, <2>2
  <1>5. Shape(c)
    BY <1>3, RememberShape DEF AdmitInv
  <1>6. \/ Settle(t, "ignored") /\ UNCHANGED cache
        \/ p = 0 /\ Wait(t, "sender") /\ UNCHANGED cache
        \/ Convert(c, t)
    BY DEF Take
  <1> HIDE DEF m, l, p, t, c
  <1>7. Told(t)
    BY <1>1, <1>2, <1>4 DEF Told
  <1>8. CASE Settle(t, "ignored") /\ UNCHANGED cache
    BY <1>8, SettleRight DEF AdmitInv, Shape
  <1>9. CASE p = 0 /\ Wait(t, "sender") /\ UNCHANGED cache
    BY <1>9, <1>2, <1>4, <1>7, WaitRight DEF AdmitInv, Shape, l
  <1>10. CASE Convert(c, t)
    BY <1>10, <1>2, <1>5, <1>7, ConvertRight DEF AdmitInv
  <1> QED
    BY <1>6, <1>8, <1>9, <1>10

LEMMA AskSenderRight ==
  ASSUME AdmitInv, NEW told \in BOOLEAN, AskSender(told)
  PROVE  Shape(cache') /\ DecidedInv' /\ TaskInv'
  <1> DEFINE l == task.m.from[1]
             t == [task EXCEPT !.pn = Owner[l]]
  <1>1. l \in Lids /\ DOMAIN task = Fields /\ Told(task)
    BY DEF AskSender, AdmitInv, TaskInv
  <1>2. CASE told
    <2>1. Convert(Remember(cache, l, Owner[l]), t)
      BY <1>2 DEF AskSender
    <2>2. DOMAIN t = Fields /\ t.m = task.m /\ t.pn = Owner[l]
      BY <1>1 DEF Fields
    <2>3. Person(Jid(task.m.from)) = Owner[l]
      BY <1>1, JidIsKey, Identities DEF Told, Sighted, Person, Keys
    <2> HIDE DEF t
    <2>4. Told(t)
      BY <1>1, <2>2, <2>3 DEF Told
    <2>5. Shape(Remember(cache, l, Owner[l]))
      BY <1>1, RememberShape DEF AdmitInv
    <2> QED
      BY <2>1, <2>2, <2>4, <2>5, ConvertRight DEF AdmitInv
  <1>3. CASE ~told
    BY <1>1, <1>3, ConvertRight DEF AskSender, AdmitInv
  <1> QED
    BY <1>2, <1>3

LEMMA AskChatRight ==
  ASSUME AdmitInv, NEW told \in BOOLEAN, AskChat(told)
  PROVE  Shape(cache') /\ DecidedInv' /\ TaskInv'
  <1> DEFINE l == task.m.chat[1]
             c == IF told THEN Remember(cache, l, Owner[l]) ELSE cache
  <1>1. l \in Lids /\ DOMAIN task = Fields /\ Told(task)
    BY DEF AskChat, AdmitInv, TaskInv
  <1>2. Shape(c)
    BY <1>1, RememberShape DEF AdmitInv
  <1>3. Handle(Seen(c, task.m, task.pn), task)
    BY DEF AskChat
  <1> HIDE DEF c
  <1>4. Shape(Seen(c, task.m, task.pn))
    BY <1>1, <1>2, SeenShape DEF Told
  <1> QED
    BY <1>1, <1>3, <1>4, HandleRight DEF AdmitInv

\* Once the number is told, the list is asked for it with what is known by then.
LEMMA AskAdmitRight ==
  ASSUME AdmitInv, NEW told \in BOOLEAN, AskAdmit(told)
  PROVE  Shape(cache') /\ DecidedInv' /\ TaskInv'
  <1> DEFINE l == task.m.from[1]
             list == List(task.m, task.rule)
             u == [task EXCEPT !.pn = Owner[l], !.heard = cache.known]
  <1>1. /\ l \in Lids /\ DOMAIN task = Fields /\ Told(task) /\ task.pn = 0
        /\ Policy(task.m, task.rule) \notin {"open", "disabled"} /\ ~LetIn(task)
    BY DEF AskAdmit, AdmitInv, TaskInv
  <1>2. DOMAIN u = Fields /\ u.m = task.m /\ u.pn = Owner[l] /\ u.rule = task.rule
        /\ u.known = task.known /\ u.heard = cache.known
    BY <1>1 DEF Fields
  <1>3. \/ told /\ Named(cache, list, Owner[l]) /\ cache' = Remember(cache, l, Owner[l])
              /\ (Wait(u, "ack") \/ Settle(u, "committed"))
        \/ told /\ ~Named(cache, list, Owner[l]) /\ cache' = cache /\ Settle(u, "refused")
        \/ ~told /\ cache' = cache /\ Settle(task, "refused")
    <2>1. CASE told
      <3>1. u.m = task.m /\ u.rule = task.rule
        BY <1>2
      <3> QED
        BY <2>1, <3>1 DEF AskAdmit
    <2>2. CASE ~told
      BY <2>2 DEF AskAdmit
    <2> QED
      BY <2>1, <2>2
  <1> HIDE DEF u
  <1>4. Jid(task.m.from) = l /\ Person(l) = Owner[l] /\ Owner[l] \in Pns /\ Owner[l] \in Keys /\ Owner[l] # 0
        /\ Owner[l] \notin Lids /\ Owner[l] \notin cache.known
    BY <1>1, JidIsKey, Identities DEF Told, Sighted, Person, Keys, AdmitInv, Shape
  <1>5. Named(cache, list, Owner[l]) <=>
          \E k \in list : k = Star \/ k = Owner[l] \/ (k \in cache.known /\ Owner[k] = Owner[l])
    BY <1>4 DEF Named, Same
  <1>6. LetIn(u) <=> Named(cache, list, Owner[l])
    <2>1. cache.known \subseteq Lids
      BY DEF AdmitInv, Shape
    <2>2. ASSUME NEW k
          PROVE  Sender(u, k) <=> Sender(task, k) \/ k = Owner[l] \/ (k \in cache.known /\ Owner[k] = Owner[l])
      <3>1. Linked(u, k) <=> Linked(task, k)
        BY <1>2 DEF Linked
      <3>2. Sender(task, k) <=> k \in Keys /\ Person(k) = Owner[l] /\ Linked(task, k)
        BY <1>1, <1>4 DEF Sender
      <3>3. Sender(u, k) <=> k \in Keys /\ Person(k) = Owner[l] /\ (Linked(task, k) \/ (k \in Lids => k \in cache.known))
        BY <1>2, <1>4, <3>1 DEF Sender
      <3>4. k \in Keys /\ k \notin Lids => Person(k) = k
        BY DEF Person
      <3>5. k \in Lids => Person(k) = Owner[k] /\ k \in Keys
        BY DEF Person, Keys
      <3>6. Person(Owner[l]) = Owner[l]
        BY <1>4 DEF Person
      <3> QED
        BY <1>4, <2>1, <3>2, <3>3, <3>4, <3>5, <3>6
    <2>3. ASSUME NEW k PROVE ChatOf(u, k) <=> ChatOf(task, k)
      BY <1>2 DEF ChatOf
    <2>4. LetIn(u) <=> \E k \in list : k = Star \/ Sender(u, k) \/ ChatOf(u, k)
      BY <1>1, <1>2 DEF LetIn
    <2>5. \A k \in list : k # Star /\ ~Sender(task, k) /\ ~ChatOf(task, k)
      BY <1>1 DEF LetIn
    <2> QED
      BY <1>5, <2>2, <2>3, <2>4, <2>5
  <1>7. Told(u)
    BY <1>1, <1>2, <1>4 DEF Told
  <1>8. Shape(cache')
    BY <1>1, <1>3, RememberShape DEF AdmitInv
  <1>9. CASE told /\ Named(cache, list, Owner[l]) /\ Wait(u, "ack")
    BY <1>2, <1>6, <1>7, <1>8, <1>9, WaitRight DEF AdmitInv
  <1>10. CASE told /\ Named(cache, list, Owner[l]) /\ Settle(u, "committed")
    BY <1>6, <1>8, <1>10, SettleRight DEF AdmitInv
  <1>11. CASE told /\ ~Named(cache, list, Owner[l]) /\ Settle(u, "refused")
    BY <1>6, <1>8, <1>11, SettleRight DEF AdmitInv
  <1>12. CASE ~told /\ Settle(task, "refused")
    BY <1>1, <1>8, <1>12, SettleRight DEF AdmitInv
  <1> QED
    BY <1>3, <1>9, <1>10, <1>11, <1>12

LEMMA AcknowledgeRight ==
  ASSUME AdmitInv, NEW ok, Acknowledge(ok)
  PROVE  Shape(cache') /\ DecidedInv' /\ TaskInv'
  <1>1. LetIn(task) /\ Settle(task, "committed") /\ cache' = cache
    BY DEF Acknowledge, AdmitInv, TaskInv
  <1> QED
    BY <1>1, SettleRight DEF AdmitInv

LEMMA BreakRight ==
  ASSUME AdmitInv, Break
  PROVE  Shape(cache') /\ DecidedInv' /\ TaskInv'
  <1>1. CASE task.pc = "idle"
    BY <1>1 DEF Break, AdmitInv, TaskInv, DecidedInv, AdmittedIffListed
  <1>2. CASE task.pc # "idle"
    <2>1. Settle(task, "lost") /\ cache' = cache
      BY <1>2 DEF Break
    <2> QED
      BY <2>1, SettleRight DEF AdmitInv
  <1> QED
    BY <1>1, <1>2

LEMMA GroupListedRight ==
  ASSUME AdmitInv, NEW l \in Lids, GroupListed(l)
  PROVE  Shape(cache') /\ DecidedInv' /\ TaskInv'
  <1>1. Shape(cache')
    BY ProjectShape DEF GroupListed, AdmitInv
  <1> QED
    BY <1>1 DEF GroupListed, AdmitInv, TaskInv, DecidedInv, AdmittedIffListed

LEMMA AdmitInit == Init => AdmitInv
  <1> SUFFICES ASSUME Init PROVE AdmitInv
    OBVIOUS
  <1>1. MailInv
    BY StreamAssumption DEF Init, MailInv
  <1>2. Shape(cache)
    BY DEF Init, Shape, Off
  <1>3. TaskInv
    BY DEF Init, TaskInv, Idle, Fields
  <1>4. DecidedInv
    <2>1. decided = <<>> /\ DOMAIN decided = {}
      BY DEF Init
    <2> QED
      BY <2>1 DEF DecidedInv, AdmittedIffListed
  <1> QED
    BY <1>1, <1>2, <1>3, <1>4 DEF AdmitInv

LEMMA AdmitStep == AdmitInv /\ [Next]_vars => AdmitInv'
  <1> SUFFICES ASSUME AdmitInv, [Next]_vars PROVE AdmitInv'
    OBVIOUS
  <1>1. MailInv'
    <2>1. mail' = mail
      BY DEF Next, Work, Take, AskSender, AskChat, AskAdmit, Acknowledge, GroupListed, Reload, Break,
             Tick, Query, stream, vars
    <2> QED
      BY <2>1 DEF AdmitInv, MailInv
  <1>2. Shape(cache') /\ DecidedInv' /\ TaskInv'
    <2>1. CASE Take
      BY <2>1, TakeRight
    <2>2. CASE \E told \in BOOLEAN : AskSender(told) \/ AskChat(told) \/ AskAdmit(told)
      BY <2>2, AskSenderRight, AskChatRight, AskAdmitRight
    <2>3. CASE \E ok \in BOOLEAN : Acknowledge(ok)
      BY <2>3, AcknowledgeRight
    <2>4. CASE Break
      BY <2>4, BreakRight
    <2>5. CASE \E l \in Lids : GroupListed(l)
      BY <2>5, GroupListedRight
    <2>6. CASE UNCHANGED <<cache, task, decided>>
      BY <2>6 DEF AdmitInv, TaskInv, DecidedInv, AdmittedIffListed
    <2>7. CASE Tick \/ Query \/ \E cfg \in Reloaded : Reload(cfg)
      BY <2>6, <2>7 DEF Tick, Query, Reload
    <2> QED
      BY <2>1, <2>2, <2>3, <2>4, <2>5, <2>6, <2>7 DEF Next, Work, vars
  <1> QED
    BY <1>1, <1>2 DEF AdmitInv

\* Whatever the lists, the links and the order in which they are learnt: a message is let in
\* exactly when an item names its chat or the person who writes (_is_sender_allowed).
THEOREM AdmissionRight == Spec => []AdmittedIffListed
  <1>1. AdmitInv => AdmittedIffListed
    BY DEF AdmitInv, DecidedInv
  <1> QED
    BY <1>1, AdmitInit, AdmitStep, PTL DEF Spec
-----------------------------------------------------------------------------
(* The journal.  Of each slot that stands, the last observation is in the  *)
(* journal unless Capacity other slots were observed after it, and the     *)
(* journal holds nothing that was removed.                                 *)
Standing(L, i) ==
  L[i].emoji # NoEmoji /\ \A j \in i + 1 .. Len(L) : L[j].emoji = NoEmoji => ~BySender(L[i], L[j])
LastOfSlot(L, i) == \A j \in i + 1 .. Len(L) : Slot(L[j]) # Slot(L[i])
Others(L, i) == After(L, i) \ {Slot(L[i])}
LogTyped(L, t) ==
  /\ t \in Nat /\ L \in Seq(ToSet(L))
  /\ \A i \in DOMAIN L : L[i].turn = i /\ L[i].at \in Nat /\ L[i].at <= t
  /\ \A i, j \in DOMAIN L : i < j => L[i].at <= L[j].at
Written(J, L) ==
  /\ \A f \in J : f.turn \in DOMAIN L /\ L[f.turn] = f /\ Standing(L, f.turn)
  /\ \A f, g \in J : Slot(f) = Slot(g) => f = g
NoneMissing(J, L, t) ==
  \A i \in DOMAIN L :
    Stands(L, i, t) /\ LastOfSlot(L, i) => L[i] \in J \/ Cardinality(Others(L, i)) >= Capacity
JournalInv(J, L, t) == LogTyped(L, t) /\ Written(J, L) /\ NoneMissing(J, L, t)

LEMMA OthersFinite ==
  ASSUME NEW L, NEW t, LogTyped(L, t), NEW i \in DOMAIN L
  PROVE  IsFiniteSet(Others(L, i)) /\ Cardinality(Others(L, i)) \in Nat
  <1> DEFINE D == {k \in i + 1 .. Len(L) : L[k].emoji # NoEmoji}
             slot == [k \in D |-> Slot(L[k])]
  <1>1. Len(L) \in Nat /\ i \in Nat
    BY LenProperties DEF LogTyped
  <1>2. IsFiniteSet(i + 1 .. Len(L))
    BY <1>1, FS_Interval
  <1>3. IsFiniteSet(D)
    BY <1>2, FS_Subset
  <1>4. slot \in Surjection(D, After(L, i))
    BY DEF After, Surjection
  <1> HIDE DEF D, slot
  <1>5. IsFiniteSet(After(L, i))
    BY <1>3, <1>4, FS_Surjection
  <1> QED
    BY <1>5, FS_Subset, FS_CardinalityType DEF Others

\* What falls off the front was overtaken by Capacity other slots.
LEMMA FallenOff ==
  ASSUME NEW L, NEW t, LogTyped(L, t), NEW J, Written(J, L), NEW f \in J,
         ~(Cardinality(Newer(J, f)) < Capacity)
  PROVE  Cardinality(Others(L, f.turn)) >= Capacity
  <1> DEFINE N == Newer(J, f)
             slot == [g \in N |-> Slot(g)]
  <1>1. ASSUME NEW g \in N
        PROVE  Slot(g) \in Others(L, f.turn)
    <2>1. g \in J /\ f.turn < g.turn
      BY DEF Newer
    <2>2. f.turn \in DOMAIN L /\ g.turn \in DOMAIN L /\ L[f.turn] = f /\ L[g.turn] = g /\ g.emoji # NoEmoji
      BY <2>1 DEF Written, Standing
    <2>3. DOMAIN L = 1 .. Len(L) /\ Len(L) \in Nat
      BY LenProperties DEF LogTyped
    <2>4. g.turn \in f.turn + 1 .. Len(L)
      BY <2>1, <2>2, <2>3
    <2>5. Slot(g) # Slot(f)
      BY <2>1, <2>2, <2>3 DEF Written
    <2> QED
      BY <2>2, <2>4, <2>5 DEF Others, After
  <1>2. \A g, h \in N : Slot(g) = Slot(h) => g = h
    BY DEF Newer, Written
  <1>3. slot \in Injection(N, Others(L, f.turn))
    BY <1>1, <1>2 DEF Injection, IsInjective
  <1>4. f.turn \in DOMAIN L
    BY DEF Written
  <1>5. IsFiniteSet(Others(L, f.turn)) /\ Cardinality(Others(L, f.turn)) \in Nat
    BY <1>4, OthersFinite
  <1> HIDE DEF N, slot
  <1>6. IsFiniteSet(N) /\ Cardinality(N) <= Cardinality(Others(L, f.turn))
    BY <1>3, <1>5, FS_Injection
  <1>7. Cardinality(N) \in Nat
    BY <1>6, FS_CardinalityType
  <1> QED
    BY <1>5, <1>6, <1>7, JournalAssumption DEF N

LEMMA JournalSettled ==
  ASSUME NEW J, NEW L, NEW t, JournalInv(J, L, t)
  PROVE  Answers(J, L, t)
  <1>1. Len(L) \in Nat /\ DOMAIN L = 1 .. Len(L)
    BY LenProperties DEF JournalInv, LogTyped
  <1>2. ASSUME NEW i \in DOMAIN L, Stands(L, i, t), Cardinality(Others(L, i)) < Capacity
        PROVE  Slot(L[i]).sender \in Users(J, Slot(L[i]), t)
    <2> DEFINE Same1 == {d \in Nat : d <= Len(L) - i /\ Slot(L[Len(L) - d]) = Slot(L[i])}
    <2>1. Len(L) - i \in Same1
      BY <1>1
    <2>2. PICK d \in Same1 : \A x \in Same1 : d <= x
      BY <2>1, LeastExists
    <2> DEFINE k == Len(L) - d
    <2>3. k \in DOMAIN L /\ i <= k /\ Slot(L[k]) = Slot(L[i]) /\ k \in Nat
      BY <1>1, <2>2
    <2>4. ASSUME NEW j \in k + 1 .. Len(L) PROVE Slot(L[j]) # Slot(L[k])
      <3>1. Len(L) - j \in Nat /\ Len(L) - j < d /\ Len(L) - (Len(L) - j) = j /\ Len(L) - j <= Len(L) - i
        BY <1>1, <2>2, <2>3
      <3>2. Len(L) - j \notin Same1
        BY <2>2, <3>1
      <3> QED
        BY <2>3, <3>1, <3>2
    <2> HIDE DEF k
    <2>5. LastOfSlot(L, k)
      BY <2>4 DEF LastOfSlot
    <2>6. L[i].at <= L[k].at /\ L[i].at \in Nat /\ L[k].at \in Nat /\ t \in Nat /\ Ttl \in Nat
      BY <1>1, <2>3, JournalAssumption DEF JournalInv, LogTyped
    <2>7. L[k].emoji = L[i].emoji /\ L[k].chat = L[i].chat /\ L[k].message = L[i].message
          /\ L[k].sender = L[i].sender
      BY <2>3 DEF Slot
    <2>8. Stands(L, k, t)
      <3>1. \A j \in k + 1 .. Len(L) : j \in i + 1 .. Len(L)
        BY <1>1, <2>3
      <3>2. \A j \in k + 1 .. Len(L) : L[j].emoji = NoEmoji => ~BySender(L[k], L[j])
        BY <1>2, <2>7, <3>1 DEF Stands, BySender
      <3>3. L[k].at + Ttl >= t
        BY <1>2, <2>6 DEF Stands
      <3> QED
        BY <1>2, <2>7, <3>2, <3>3 DEF Stands
    <2>9. Cardinality(Others(L, k)) < Capacity
      <3>1. Others(L, k) \subseteq Others(L, i)
        BY <1>1, <2>3 DEF Others, After
      <3>2. /\ IsFiniteSet(Others(L, i)) /\ Cardinality(Others(L, i)) \in Nat
            /\ Cardinality(Others(L, k)) \in Nat
        BY <2>3, OthersFinite DEF JournalInv
      <3>3. Cardinality(Others(L, k)) <= Cardinality(Others(L, i))
        BY <3>1, <3>2, FS_Subset
      <3> QED
        BY <1>2, <3>2, <3>3, JournalAssumption
    <2>10. L[k] \in J
      <3>1. Cardinality(Others(L, k)) \in Nat
        BY <2>3, OthersFinite DEF JournalInv
      <3> QED
        BY <2>3, <2>5, <2>8, <2>9, <3>1, JournalAssumption DEF JournalInv, NoneMissing
    <2>11. L[k] \in Pruned(J, t)
      BY <2>8, <2>10 DEF Pruned, Stands
    <2> QED
      BY <2>7, <2>11 DEF Users, Slot
  <1>3. ASSUME NEW i \in DOMAIN L, NEW u \in Users(J, Slot(L[i]), t)
        PROVE  \E j \in DOMAIN L : Slot(L[j]) = [Slot(L[i]) EXCEPT !.sender = u] /\ Stands(L, j, t)
    <2>1. PICK f \in Pruned(J, t) : f.chat = L[i].chat /\ f.message = L[i].message /\ f.emoji = L[i].emoji
                                    /\ u = f.sender
      BY <1>3 DEF Users, Slot
    <2>2. f.turn \in DOMAIN L /\ L[f.turn] = f /\ Standing(L, f.turn) /\ f.at + Ttl >= t
      BY <2>1 DEF Pruned, JournalInv, Written
    <2>3. Slot(f) = [Slot(L[i]) EXCEPT !.sender = u]
      BY <2>1 DEF Slot
    <2>4. Stands(L, f.turn, t)
      BY <2>2 DEF Stands, Standing
    <2> QED
      BY <2>2, <2>3, <2>4
  <1> QED
    BY <1>2, <1>3 DEF Answers, Others

\* The log after one more observation.
LEMMA Logged ==
  ASSUME NEW L, NEW t, LogTyped(L, t), NEW e, e.turn = Len(L) + 1, e.at = t
  PROVE  LET M == Append(L, e)
         IN  /\ LogTyped(M, t) /\ Len(M) = Len(L) + 1 /\ M[Len(L) + 1] = e
             /\ \A i \in DOMAIN L : M[i] = L[i] /\ i \in DOMAIN M /\ Others(L, i) \subseteq Others(M, i)
             /\ DOMAIN M = 1 .. Len(M) /\ DOMAIN L = 1 .. Len(L) /\ Len(L) \in Nat
  <1> DEFINE M == Append(L, e)
  <1>1. L \in Seq(ToSet(L) \cup {e}) /\ DOMAIN L = 1 .. Len(L) /\ Len(L) \in Nat
    <2>1. L \in Seq(ToSet(L)) /\ DOMAIN L = 1 .. Len(L) /\ Len(L) \in Nat
      BY LenProperties DEF LogTyped
    <2>2. \A i \in 1 .. Len(L) : L[i] \in ToSet(L) \cup {e}
      BY <2>1 DEF ToSet
    <2> QED
      BY <2>1, <2>2
  <1>2. /\ M \in Seq(ToSet(L) \cup {e}) /\ Len(M) = Len(L) + 1 /\ DOMAIN M = 1 .. Len(L) + 1
        /\ M[Len(L) + 1] = e /\ \A i \in 1 .. Len(L) : M[i] = L[i]
    BY <1>1, AppendProperties, LenProperties
  <1> HIDE DEF M
  <1>3. M \in Seq(ToSet(M))
    BY <1>2, SelfTyped
  <1>4. LogTyped(M, t)
    <2>1. t \in Nat /\ \A i \in DOMAIN L : L[i].turn = i /\ L[i].at \in Nat /\ L[i].at <= t
      BY DEF LogTyped
    <2>2. \A i \in DOMAIN M : M[i].turn = i /\ M[i].at \in Nat /\ M[i].at <= t
      BY <1>1, <1>2, <2>1
    <2>3. ASSUME NEW i \in DOMAIN M, NEW j \in DOMAIN M, i < j PROVE M[i].at <= M[j].at
      <3>1. i \in DOMAIN L
        BY <1>1, <1>2, <2>3
      <3>2. CASE j \in DOMAIN L
        BY <1>1, <1>2, <2>3, <3>1, <3>2 DEF LogTyped
      <3>3. CASE j = Len(L) + 1
        BY <1>1, <1>2, <2>1, <3>1, <3>3
      <3> QED
        BY <1>1, <1>2, <3>2, <3>3
    <2> QED
      BY <1>3, <2>1, <2>2, <2>3 DEF LogTyped
  <1>5. ASSUME NEW i \in DOMAIN L PROVE Others(L, i) \subseteq Others(M, i)
    <2>1. \A j \in i + 1 .. Len(L) : j \in i + 1 .. Len(M) /\ M[j] = L[j]
      BY <1>1, <1>2
    <2> QED
      BY <1>1, <1>2, <2>1 DEF Others, After
  <1> QED
    BY <1>1, <1>2, <1>4, <1>5 DEF M

\* One record keeps the journal's promise.
LEMMA RecordKeeps ==
  ASSUME NEW J, NEW L, NEW t, JournalInv(J, L, t), NEW e, e.turn = Len(L) + 1, e.at = t
  PROVE  JournalInv(Record(J, e), Append(L, e), t)
  <1> DEFINE M == Append(L, e)
             n == Len(L) + 1
             all == {f \in Pruned(J, t) : Slot(f) # Slot(e)} \cup {e}
  <1>1. /\ LogTyped(M, t) /\ Len(M) = n /\ M[n] = e
        /\ \A i \in DOMAIN L : M[i] = L[i] /\ i \in DOMAIN M /\ Others(L, i) \subseteq Others(M, i)
        /\ DOMAIN M = 1 .. Len(M) /\ DOMAIN L = 1 .. Len(L) /\ Len(L) \in Nat
    BY Logged DEF JournalInv
  <1>2. n \in DOMAIN M /\ n \in Nat
    BY <1>1
  <1> HIDE DEF M
  <1>3. ASSUME NEW i \in DOMAIN L
        PROVE  /\ Standing(M, i) <=> Standing(L, i) /\ (e.emoji = NoEmoji => ~BySender(L[i], e))
               /\ LastOfSlot(M, i) <=> LastOfSlot(L, i) /\ Slot(e) # Slot(L[i])
    <2>1. i + 1 .. Len(M) = (i + 1 .. Len(L)) \cup {n}
      BY <1>1
    <2>2. M[n] = e /\ M[i] = L[i] /\ \A j \in i + 1 .. Len(L) : M[j] = L[j]
      BY <1>1
    <2> QED
      BY <2>1, <2>2 DEF Standing, LastOfSlot
  <1>4. ASSUME NEW f \in J
        PROVE  f.turn \in DOMAIN L /\ L[f.turn] = f /\ M[f.turn] = f /\ f.turn \in DOMAIN M
               /\ Standing(L, f.turn) /\ f.turn < n /\ f.turn \in Nat
    BY <1>1 DEF JournalInv, Written
  <1>5. Written(all, M) \/ e.emoji = NoEmoji
    <2>1. ASSUME NEW f \in all, e.emoji # NoEmoji
          PROVE  f.turn \in DOMAIN M /\ M[f.turn] = f /\ Standing(M, f.turn)
      <3>1. CASE f = e
        <4>1. n + 1 .. Len(M) = {}
          BY <1>1
        <4> QED
          BY <1>1, <1>2, <2>1, <3>1, <4>1 DEF Standing
      <3>2. CASE f \in J
        BY <1>3, <1>4, <2>1, <3>2
      <3> QED
        BY <3>1, <3>2 DEF Pruned
    <2>2. \A f, g \in all : Slot(f) = Slot(g) => f = g
      BY DEF Pruned, JournalInv, Written
    <2> QED
      BY <2>1, <2>2 DEF Written
  <1>6. Written(Record(J, e), M)
    <2>1. CASE e.emoji = NoEmoji
      <3>1. Record(J, e) = {f \in Pruned(J, t) : ~BySender(e, f)}
        BY <2>1 DEF Record
      <3>2. \A f : BySender(e, f) <=> BySender(f, e)
        BY DEF BySender
      <3>3. \A f \in Record(J, e) : f \in J /\ ~BySender(f, e)
        BY <3>1, <3>2 DEF Pruned
      <3> QED
        BY <1>3, <1>4, <3>3 DEF Written, JournalInv
    <2>2. CASE e.emoji # NoEmoji
      <3>1. Record(J, e) \subseteq all
        BY <2>2 DEF Record, Kept
      <3> QED
        BY <1>5, <2>2, <3>1 DEF Written
    <2> QED
      BY <2>1, <2>2
  <1>7. ASSUME NEW i \in DOMAIN M, Stands(M, i, t), LastOfSlot(M, i)
        PROVE  M[i] \in Record(J, e) \/ Cardinality(Others(M, i)) >= Capacity
    <2>1. CASE i = n
      <3>1. e.emoji # NoEmoji
        BY <1>1, <1>7, <2>1 DEF Stands
      <3>2. Newer(all, e) = {}
        <4>1. ASSUME NEW f \in Newer(all, e) PROVE FALSE
          <5>1. f = e \/ f \in J
            BY DEF Newer, Pruned
          <5>2. e.turn \in Nat /\ e.turn < f.turn /\ (f \in J => f.turn < e.turn /\ f.turn \in Nat)
            BY <1>2, <1>4 DEF Newer
          <5> QED
            BY <5>1, <5>2
        <4> QED
          BY <4>1
      <3>3. Cardinality(Newer(all, e)) < Capacity
        BY <3>2, FS_EmptySet, JournalAssumption
      <3> QED
        BY <1>1, <2>1, <3>1, <3>3 DEF Record, Kept
    <2>2. CASE i \in DOMAIN L
      <3>1. M[i] = L[i] /\ Stands(L, i, t) /\ LastOfSlot(L, i) /\ Slot(e) # Slot(L[i])
            /\ (e.emoji = NoEmoji => ~BySender(L[i], e))
        BY <1>1, <1>3, <1>7, <2>2 DEF Stands, Standing
      <3>2. L[i] \in J \/ Cardinality(Others(L, i)) >= Capacity
        BY <2>2, <3>1 DEF JournalInv, NoneMissing
      <3>3. CASE Cardinality(Others(L, i)) >= Capacity
        <4>1. Others(L, i) \subseteq Others(M, i)
          BY <1>1, <2>2
        <4>2. IsFiniteSet(Others(M, i)) /\ Cardinality(Others(M, i)) \in Nat
              /\ Cardinality(Others(L, i)) \in Nat
          BY <1>1, <2>2, OthersFinite DEF JournalInv
        <4>3. Cardinality(Others(L, i)) <= Cardinality(Others(M, i))
          BY <4>1, <4>2, FS_Subset
        <4> QED
          BY <3>3, <4>2, <4>3, JournalAssumption
      <3>4. CASE L[i] \in J
        <4>1. L[i] \in Pruned(J, t)
          BY <3>1, <3>4 DEF Pruned, Stands
        <4>2. CASE e.emoji = NoEmoji
          <5>1. ~BySender(e, L[i])
            BY <3>1, <4>2 DEF BySender
          <5> QED
            BY <3>1, <4>1, <4>2, <5>1 DEF Record
        <4>3. CASE e.emoji # NoEmoji
          <5>1. L[i] \in all
            BY <3>1, <4>1
          <5>2. CASE Cardinality(Newer(all, L[i])) < Capacity
            BY <3>1, <4>3, <5>1, <5>2 DEF Record, Kept
          <5>3. CASE ~(Cardinality(Newer(all, L[i])) < Capacity)
            <6>1. L[i].turn = i
              BY <2>2 DEF JournalInv, LogTyped
            <6> HIDE DEF all
            <6>2. Cardinality(Others(M, L[i].turn)) >= Capacity
              BY <1>1, <1>5, <4>3, <5>1, <5>3, FallenOff
            <6> QED
              BY <6>1, <6>2
          <5> QED
            BY <5>2, <5>3
        <4> QED
          BY <4>2, <4>3
      <3> QED
        BY <3>2, <3>3, <3>4
    <2> QED
      BY <1>1, <2>1, <2>2
  <1> QED
    BY <1>1, <1>6, <1>7 DEF JournalInv, NoneMissing, M

JournalKept == JournalInv(journal, log, now)

LEMMA ObserveKeeps ==
  ASSUME JournalKept, NEW chat, NEW message, NEW sender, NEW emoji,
         Observe(chat, message, sender, emoji), now' = now
  PROVE  JournalKept'
  <1> DEFINE e == [chat |-> chat, message |-> message, sender |-> sender, emoji |-> emoji, at |-> now,
                   turn |-> Len(log) + 1]
  <1>1. journal' = Record(journal, e) /\ log' = Append(log, e)
    BY DEF Observe
  <1>2. e.turn = Len(log) + 1 /\ e.at = now
    OBVIOUS
  <1> HIDE DEF e
  <1>3. JournalInv(Record(journal, e), Append(log, e), now)
    BY <1>2, RecordKeeps DEF JournalKept
  <1> QED
    BY <1>1, <1>3 DEF JournalKept

\* Time passes and the journal is pruned: what they take no longer stands.
LEMMA TimeKeeps ==
  ASSUME JournalKept, log' = log, now' \in Nat, now <= now',
         journal' = journal \/ journal' = Pruned(journal, now')
  PROVE  JournalKept'
  <1>1. LogTyped(log', now')
    <2>1. \A i \in DOMAIN log : log[i].at \in Nat /\ log[i].at <= now /\ now \in Nat
      BY DEF JournalKept, JournalInv, LogTyped
    <2>2. \A i \in DOMAIN log : log[i].at <= now'
      BY <2>1
    <2> QED
      BY <2>2 DEF JournalKept, JournalInv, LogTyped
  <1>2. Written(journal', log')
    BY DEF Written, JournalKept, JournalInv, Pruned
  <1>3. ASSUME NEW i \in DOMAIN log, Stands(log, i, now'), LastOfSlot(log, i)
        PROVE  log[i] \in journal' \/ Cardinality(Others(log, i)) >= Capacity
    <2>1. log[i].at + Ttl >= now' /\ log[i].at \in Nat /\ now \in Nat /\ Ttl \in Nat
      BY <1>3, JournalAssumption DEF Stands, JournalKept, JournalInv, LogTyped
    <2>2. Stands(log, i, now)
      BY <1>3, <2>1 DEF Stands
    <2>3. log[i] \in journal \/ Cardinality(Others(log, i)) >= Capacity
      BY <1>3, <2>2 DEF JournalKept, JournalInv, NoneMissing
    <2> QED
      BY <2>1, <2>3 DEF Pruned
  <1> QED
    BY <1>1, <1>2, <1>3 DEF JournalKept, JournalInv, NoneMissing

LEMMA JournalStep == JournalKept /\ [Next]_vars => JournalKept'
  <1> SUFFICES ASSUME JournalKept, [Next]_vars PROVE JournalKept'
    OBVIOUS
  <1>1. now \in Nat
    BY DEF JournalKept, JournalInv, LogTyped
  <1>2. CASE Quiet /\ now' = now
    BY <1>2 DEF Quiet, JournalKept
  <1>3. ASSUME NEW chat, NEW message, NEW sender, NEW emoji,
               Observe(chat, message, sender, emoji), now' = now
        PROVE  JournalKept'
    BY <1>3, ObserveKeeps
  <1>4. ASSUME NEW c, NEW t, Handle(c, t), now' = now PROVE JournalKept'
    <2>1. Quiet \/ \E chat, message, sender, emoji : Observe(chat, message, sender, emoji)
      BY <1>4 DEF Handle
    <2> QED
      BY <1>2, <1>3, <1>4, <2>1
  <1>5. ASSUME NEW c, NEW t, Convert(c, t), now' = now PROVE JournalKept'
    <2>1. Quiet \/ Handle(Seen(c, t.m, t.pn), t)
      BY <1>5 DEF Convert
    <2> QED
      BY <1>2, <1>4, <1>5, <2>1
  <1>6. CASE Take
    <2>1. now' = now /\ (Quiet \/ \E c, t : Convert(c, t))
      BY <1>6 DEF Take, bounds
    <2> QED
      BY <1>2, <1>5, <2>1
  <1>7. ASSUME NEW told, AskSender(told) PROVE JournalKept'
    <2>1. now' = now /\ \E c, t : Convert(c, t)
      BY <1>7 DEF AskSender, bounds
    <2> QED
      BY <1>5, <2>1
  <1>8. ASSUME NEW told, AskChat(told) PROVE JournalKept'
    <2>1. now' = now /\ \E c, t : Handle(c, t)
      BY <1>8 DEF AskChat, bounds
    <2> QED
      BY <1>4, <2>1
  <1>9. ASSUME NEW told, AskAdmit(told) PROVE JournalKept'
    BY <1>2, <1>9 DEF AskAdmit, bounds
  <1>10. ASSUME NEW ok, Acknowledge(ok) PROVE JournalKept'
    <2>1. now' = now /\ (Quiet \/ \E chat, message, sender, emoji : Observe(chat, message, sender, emoji))
      BY <1>10 DEF Acknowledge, bounds
    <2> QED
      BY <1>2, <1>3, <2>1
  <1>11. CASE Tick
    <2>1. now' = now + 1 /\ log' = log /\ journal' = journal
      BY <1>11 DEF Tick
    <2> QED
      BY <1>1, <2>1, TimeKeeps
  <1>12. CASE Query
    <2>1. now' = now /\ log' = log /\ journal' = Pruned(journal, now')
      BY <1>12 DEF Query, bounds
    <2> QED
      BY <1>1, <2>1, TimeKeeps
  <1>13. CASE Break \/ (\E l \in Lids : GroupListed(l)) \/ (\E cfg \in Reloaded : Reload(cfg)) \/ UNCHANGED vars
    BY <1>2, <1>13 DEF Break, GroupListed, Reload, vars, bounds, Quiet
  <1> QED
    BY <1>6, <1>7, <1>8, <1>9, <1>10, <1>11, <1>12, <1>13 DEF Next, Work

\* However many reactions come, are refreshed, taken back, expire or fall off, in any order of
\* queries: the journal answers what it promises of all that were observed (record, users).
THEOREM JournalRight == Spec => []JournalAnswers
  <1>1. Init => JournalKept
    <2> SUFFICES ASSUME Init PROVE JournalKept
      OBVIOUS
    <2>1. journal = {} /\ log = <<>> /\ now = 0 /\ DOMAIN log = {} /\ log \in Seq(ToSet(log))
      BY DEF Init
    <2> QED
      BY <2>1 DEF JournalKept, JournalInv, LogTyped, Written, NoneMissing
  <1>2. JournalKept => JournalAnswers
    BY JournalSettled DEF JournalKept, JournalAnswers
  <1> QED
    BY <1>1, <1>2, JournalStep, PTL DEF Spec
-----------------------------------------------------------------------------
(* What calls the bot.  A cache gives every identity a public ID of its    *)
(* person, and both sides of the account the number: the account is never  *)
(* seen under its LID alone before the two are linked.                     *)
OwnId(k, id) == id \in Keys /\ Person(id) = Person(k) /\ (Person(k) = SelfPn => id = SelfPn)
IdsInv(c) == c \in Caches /\ \A k \in Keys : c.proj[k].order > 0 => OwnId(k, c.proj[k].id)

LEMMA Numbers ==
  /\ Keys \subseteq Nat \ {0} /\ Keys = Lids \cup Pns /\ 0 \notin Keys
  /\ \A l \in Lids, p \in Pns : p < l /\ l # p /\ l \notin Pns /\ p \notin Lids
  /\ \A l \in Lids : Owner[l] \in Pns /\ Person(l) = Owner[l]
  /\ \A p \in Pns : Person(p) = p
  <1>1. Keys \subseteq Nat \ {0} /\ Keys = Lids \cup Pns /\ 0 \notin Keys
    BY IdentityAssumption DEF Keys
  <1>2. \A l \in Lids, p \in Pns : p < l
    BY IdentityAssumption
  <1>3. \A l \in Lids, p \in Pns : l # p /\ l \notin Pns /\ p \notin Lids
    BY Identities
  <1> QED
    BY <1>1, <1>2, <1>3, Identities DEF Person

LEMMA Account ==
  /\ SelfPn \in Pns /\ SelfPn \in Keys /\ SelfPn # 0 /\ SelfPn \notin Lids
  /\ SelfLid # 0 => SelfLid \in Lids /\ Owner[SelfLid] = SelfPn
  /\ \A k \in Keys : Person(k) = SelfPn <=> k = SelfPn \/ (SelfLid # 0 /\ k = SelfLid)
  <1>1. SelfPn \in Pns /\ SelfPn \in Keys /\ SelfPn # 0 /\ SelfPn \notin Lids
    BY AccountAssumption, Numbers
  <1>2. SelfLid # 0 => SelfLid \in Lids /\ Owner[SelfLid] = SelfPn
    BY <1>1, StreamAssumption DEF Bot, TrueSides
  <1>3. ASSUME NEW k \in Keys
        PROVE  Person(k) = SelfPn <=> k = SelfPn \/ (SelfLid # 0 /\ k = SelfLid)
    <2>1. CASE k \in Lids
      BY <2>1, <1>1, <1>2, Numbers, AccountAssumption
    <2>2. CASE k \in Pns
      BY <2>2, <1>1, <1>2, Numbers
    <2> QED
      BY <2>1, <2>2, Numbers
  <1> QED
    BY <1>1, <1>2, <1>3

LEMMA CacheFields ==
  ASSUME NEW c \in Caches
  PROVE  /\ c.known \subseteq Lids /\ c.proj \in Files /\ c.next \in Nat
         /\ \A k \in Keys : /\ c.proj[k] \in Projections
                            /\ c.proj[k].id \in Nat /\ c.proj[k].order \in Nat
  <1>1. c.known \subseteq Lids /\ c.proj \in Files /\ c.next \in Nat
    BY DEF Caches
  <1>2. ASSUME NEW k \in Keys
        PROVE  c.proj[k] \in Projections /\ c.proj[k].id \in Nat /\ c.proj[k].order \in Nat
    <2>1. c.proj[k] \in Projections
      BY <1>1 DEF Files
    <2>2. c.proj[k].id \in Keys \cup {0} /\ c.proj[k].order \in Nat
      BY <2>1 DEF Projections
    <2> QED
      BY <2>1, <2>2, Numbers
  <1> QED
    BY <1>1, <1>2

\* A link joins two projections at most.
LEMMA EarliestOfTwo ==
  ASSUME NEW x \in Projections, NEW y \in Projections, NEW S, S \subseteq {x, y}, S # {}
  PROVE  Earliest(S) \in S
  <1>1. x.id \in Nat /\ x.order \in Nat /\ y.id \in Nat /\ y.order \in Nat
    BY Numbers DEF Projections
  <1>2. Before(x, x) /\ Before(y, y) /\ (Before(x, y) \/ Before(y, x))
    BY <1>1 DEF Before
  <1>3. \E z \in S : \A w \in S : Before(z, w)
    <2>1. CASE x \in S /\ (y \in S => Before(x, y))
      BY <2>1, <1>2
    <2>2. CASE y \in S /\ (x \in S => Before(y, x))
      BY <2>2, <1>2
    <2> QED
      BY <2>1, <2>2, <1>2
  <1> QED
    BY <1>3 DEF Earliest

LEMMA LeastOf ==
  ASSUME NEW S, S \subseteq Nat, S # {}
  PROVE  Min(S) \in S /\ \A y \in S : Min(S) <= y
  BY LeastExists DEF Min

LEMMA SetProjectionIds ==
  ASSUME NEW c, IdsInv(c), NEW K, K \subseteq Keys, NEW pr \in Projections,
         \A k \in K : OwnId(k, pr.id)
  PROVE  IdsInv(SetProjection(c, K, pr)) /\ SetProjection(c, K, pr).known = c.known
  <1> DEFINE new == [k \in Keys |-> IF k \in K THEN pr ELSE c.proj[k]]
             n == Max({c.next, pr.order})
             d == c.dirty \/ \E k \in K : c.proj[k] # pr
             e == SetProjection(c, K, pr)
  <1>1. c \in Caches /\ pr.order \in Nat
    BY DEF IdsInv, Projections
  <1>2. n \in Nat
    <2>1. c.next \in Nat
      BY <1>1 DEF Caches
    <2>2. \E x \in {c.next, pr.order} : \A y \in {c.next, pr.order} : x >= y
      BY <1>1, <2>1
    <2>3. n \in {c.next, pr.order}
      BY <2>2 DEF Max
    <2> QED
      BY <1>1, <2>1, <2>3
  <1>3. new \in Files
    BY <1>1, CacheFields DEF Files
  <1>4. e = [c EXCEPT !.proj = new, !.next = n, !.dirty = d]
    BY DEF SetProjection
  <1>5. d \in BOOLEAN
    BY <1>1 DEF Caches
  <1> HIDE DEF new, n, d, e
  <1>6. e \in Caches /\ e.known = c.known /\ e.proj = new
    BY <1>1, <1>2, <1>3, <1>4, <1>5 DEF Caches
  <1> QED
    BY <1>6 DEF IdsInv, new, e

\* Which identities are joined: those of one person, the account's number among them.
OnePerson(K) ==
  /\ K \subseteq Keys /\ K # {}
  /\ \A j, k \in K : Person(j) = Person(k)
  /\ (\E k \in K : Person(k) = SelfPn) => SelfPn \in K

LEMMA JoinedId ==
  ASSUME NEW c, IdsInv(c), NEW x, NEW y, OnePerson({x, y} \ {0})
  PROVE  LET K == {x, y} \ {0}
             has == K \cap Held(c.proj)
         IN  /\ has # {} => /\ Earliest({c.proj[k] : k \in has}) \in Projections
                            /\ \A k \in K : OwnId(k, Earliest({c.proj[j] : j \in has}).id)
             /\ Chosen(c, K) \in Projections /\ \A k \in K : OwnId(k, Chosen(c, K).id)
  <1> DEFINE K == {x, y} \ {0}
             has == K \cap Held(c.proj)
             S == {c.proj[k] : k \in has}
             a == CHOOSE k \in K : TRUE
             b == IF \E k \in K : k # a THEN CHOOSE k \in K : k # a ELSE a
  <1>1. K \subseteq Keys /\ K # {} /\ \A j, k \in K : Person(j) = Person(k)
    BY DEF OnePerson
  <1>2. a \in K /\ b \in K /\ K = {a, b}
    BY <1>1
  <1>3. c \in Caches /\ \A k \in Keys : c.proj[k].order > 0 => OwnId(k, c.proj[k].id)
    BY DEF IdsInv
  <1>4. has # {} => Earliest(S) \in S
    <2> HIDE DEF a, b, K
    <2>1. c.proj[a] \in Projections /\ c.proj[b] \in Projections
      BY <1>1, <1>2, <1>3, CacheFields
    <2>2. S \subseteq {c.proj[a], c.proj[b]}
      BY <1>2
    <2>3. has # {} => S # {}
      OBVIOUS
    <2> HIDE DEF S
    <2> QED
      BY <2>1, <2>2, <2>3, EarliestOfTwo
  <1>5. ASSUME has # {}
        PROVE  Earliest(S) \in Projections /\ \A k \in K : OwnId(k, Earliest(S).id)
    <2>1. PICK j \in has : Earliest(S) = c.proj[j]
      BY <1>4, <1>5
    <2>2. j \in K /\ j \in Keys /\ OwnId(j, c.proj[j].id) /\ c.proj[j] \in Projections
      BY <2>1, <1>1, <1>3, CacheFields DEF Held
    <2>3. \A k \in K : Person(k) = Person(j)
      BY <2>2, <1>1
    <2> QED
      BY <2>1, <2>2, <2>3 DEF OwnId
  <1>6. ASSUME has = {}
        PROVE  Chosen(c, K) \in Projections /\ \A k \in K : OwnId(k, Chosen(c, K).id)
    <2>1. K \subseteq Nat
      BY <1>1, Numbers
    <2>2. Min(K) \in K /\ \A k \in K : Min(K) <= k
      BY <2>1, <1>1, LeastOf
    <2>3. Chosen(c, K) = [id |-> Min(K), order |-> c.next + 1]
      BY <1>6 DEF Chosen
    <2>4. Chosen(c, K) \in Projections
      BY <1>1, <1>3, <2>2, <2>3, CacheFields DEF Projections
    <2>5. ASSUME NEW k \in K, Person(k) = SelfPn PROVE Min(K) = SelfPn
      <3>1. SelfPn \in K /\ \A j \in K : j = SelfPn \/ (j = SelfLid /\ SelfLid \in Lids)
        <4>1. SelfPn \in K
          BY <2>5 DEF OnePerson
        <4>2. \A j \in K : j \in Keys /\ Person(j) = SelfPn
          BY <1>1, <2>5
        <4> QED
          BY <4>1, <4>2, Account
      <3>2. SelfLid \in Lids => SelfPn < SelfLid
        BY Account, Numbers
      <3> QED
        BY <2>1, <2>2, <3>1, <3>2
    <2> QED
      BY <1>1, <2>2, <2>3, <2>4, <2>5 DEF OwnId
  <1>7. has # {} => Chosen(c, K) = Earliest(S)
    BY DEF Chosen
  <1> QED
    BY <1>5, <1>6, <1>7

LEMMA RememberIds ==
  ASSUME NEW c, IdsInv(c), NEW l \in Lids
  PROVE  IdsInv(Remember(c, l, Owner[l])) /\ Remember(c, l, Owner[l]).known = c.known \cup {l}
  <1> DEFINE d == [c EXCEPT !.known = @ \cup {l}]
             K == {l, Owner[l]} \ {0}
             has == K \cap Held(d.proj)
  <1>1. IdsInv(d) /\ d.known = c.known \cup {l} /\ d \in Caches
    BY DEF IdsInv, Caches
  <1>2. K = {l, Owner[l]} /\ OnePerson(K)
    BY Numbers DEF OnePerson
  <1>3. Remember(c, l, Owner[l]) =
          IF has = {} THEN d ELSE SetProjection(d, K, Earliest({d.proj[k] : k \in has}))
    BY <1>2 DEF Remember, Bind
  <1> HIDE DEF d
  <1>4. has # {} => /\ Earliest({d.proj[k] : k \in has}) \in Projections
                    /\ \A k \in K : OwnId(k, Earliest({d.proj[j] : j \in has}).id)
    BY <1>1, <1>2, JoinedId
  <1>5. K \subseteq Keys
    BY <1>2 DEF OnePerson
  <1> HIDE DEF K, has
  <1> QED
    BY <1>1, <1>3, <1>4, <1>5, SetProjectionIds

\* What a sighting may show: the sides of one person, and of the account's LID its number too
\* unless they are linked.
Sides1(c, l, p) ==
  /\ l \in Lids \cup {0} /\ p \in Pns \cup {0} /\ (l # 0 \/ p # 0)
  /\ l # 0 /\ p # 0 => p = Owner[l]
  /\ l # 0 /\ Owner[l] = SelfPn => p # 0 \/ l \in c.known

LEMMA SidesOnePerson ==
  ASSUME NEW c, IdsInv(c), NEW l, NEW p, Sides1(c, l, p)
  PROVE  LET a == IF l = 0 THEN LidFor(c, p) ELSE l
             b == IF p = 0 THEN PnOf(c, l) ELSE p
         IN  SidesKnown(c, l, p) = {a, b} \ {0} /\ OnePerson({a, b} \ {0})
  <1> DEFINE a == IF l = 0 THEN LidFor(c, p) ELSE l
             b == IF p = 0 THEN PnOf(c, l) ELSE p
  <1>1. SidesKnown(c, l, p) = {a, b} \ {0}
    BY DEF SidesKnown, Sides
  <1>2. c.known \subseteq Lids
    BY CacheFields DEF IdsInv
  <1>3. LidFor(c, p) = 0 \/ (LidFor(c, p) \in Lids /\ Owner[LidFor(c, p)] = p)
    <2>1. LidsOf(c, p) \subseteq Nat /\ \A k \in LidsOf(c, p) : k \in Lids /\ Owner[k] = p
      BY <1>2, Numbers DEF LidsOf
    <2>2. LidsOf(c, p) # {} => LidFor(c, p) \in LidsOf(c, p)
      BY <2>1, LeastOf DEF LidFor
    <2> QED
      BY <2>1, <2>2 DEF LidFor
  <1>4. CASE l = 0
    <2>1. p \in Pns /\ b = p
      BY <1>4 DEF Sides1
    <2> QED
      BY <1>1, <1>3, <1>4, <2>1, Numbers DEF OnePerson
  <1>5. CASE l # 0
    <2>1. l \in Lids /\ a = l
      BY <1>5 DEF Sides1
    <2>2. b = 0 \/ b = Owner[l]
      BY <1>5, <2>1 DEF Sides1, PnOf
    <2>3. Owner[l] = SelfPn => b = SelfPn
      BY <1>5, <2>1 DEF Sides1, PnOf
    <2> QED
      BY <1>1, <2>1, <2>2, <2>3, Numbers DEF OnePerson
  <1> QED
    BY <1>4, <1>5

LEMMA ProjectIds ==
  ASSUME NEW c, IdsInv(c), NEW l, NEW p, Sides1(c, l, p)
  PROVE  /\ IdsInv(Project(c, l, p)) /\ c.known \subseteq Project(c, l, p).known
         /\ l # 0 /\ p # 0 => l \in Project(c, l, p).known
  <1> DEFINE d == Alias(c, l, p)
             a == IF l = 0 THEN LidFor(d, p) ELSE l
             b == IF p = 0 THEN PnOf(d, l) ELSE p
             K == {a, b} \ {0}
  <1>1. IdsInv(d) /\ c.known \subseteq d.known /\ (l # 0 /\ p # 0 => l \in d.known)
    BY RememberIds DEF Alias, Sides1
  <1>2. Sides1(d, l, p)
    BY <1>1 DEF Sides1
  <1>3. SidesKnown(d, l, p) = K /\ OnePerson(K)
    <2> HIDE DEF d
    <2> QED
      BY <1>1, <1>2, SidesOnePerson
  <1>4. Project(c, l, p) = SetProjection(d, K, Chosen(d, K))
    BY <1>3 DEF Project, Given
  <1>5. Chosen(d, K) \in Projections /\ \A k \in K : OwnId(k, Chosen(d, K).id)
    <2> HIDE DEF d, a, b
    <2> QED
      BY <1>1, <1>3, JoinedId
  <1>6. K \subseteq Keys
    BY <1>3 DEF OnePerson
  <1> HIDE DEF d, K
  <1> QED
    BY <1>1, <1>4, <1>5, <1>6, SetProjectionIds

\* The public ID under which the chain names an identity is the person's, and the account's is
\* its number.
LEMMA IdOfIsOwn ==
  ASSUME NEW c, IdsInv(c), NEW k \in Keys,
         Person(k) = SelfPn => k = SelfPn \/ k \in c.known
  PROVE  OwnId(k, IdOf(c, k))
  <1> DEFINE l == IF k \in Lids THEN k ELSE 0
             p == IF k \in Pns THEN k ELSE 0
             a == IF l = 0 THEN LidFor(c, p) ELSE l
             b == IF p = 0 THEN PnOf(c, l) ELSE p
             K == {a, b} \ {0}
  <1>1. Sides1(c, l, p) /\ (l = 0 \/ p = 0) /\ k \in {l, p}
    BY Numbers, Account DEF Sides1
  <1>2. Alias(c, l, p) = c /\ k \in {a, b} /\ k # 0
    BY <1>1, Numbers DEF Alias
  <1>3. IdOf(c, k) = Chosen(c, SidesKnown(c, l, p)).id
    BY <1>2 DEF IdOf, Given
  <1>4. SidesKnown(c, l, p) = K /\ OnePerson(K)
    <2> HIDE DEF l, p
    <2> QED
      BY <1>1, SidesOnePerson
  <1>5. \A j \in K : OwnId(j, Chosen(c, K).id)
    <2> HIDE DEF a, b
    <2> QED
      BY <1>4, JoinedId
  <1> QED
    BY <1>2, <1>3, <1>4, <1>5

\* The account's two sides are linked, if it has two.
AccountLinked(c) == SelfLid # 0 => SelfLid \in c.known
IdsLinked(c) == IdsInv(c) /\ AccountLinked(c)
\* A message from a number tells it, and so does an own one.
NumberTold(m, pn) ==
  /\ pn \in {0, Person(Jid(m.from))}
  /\ m.from[1] = 0 \/ Person(Jid(m.from)) = SelfPn => pn # 0

LEMMA ProjectLinked ==
  ASSUME NEW c, IdsLinked(c), NEW s, Sides1(c, s[1], s[2])
  PROVE  IdsLinked(ProjectSides(c, s))
  <1>1. IdsInv(c) /\ IdsInv(ProjectSides(c, s)) /\ c.known \subseteq ProjectSides(c, s).known
    BY ProjectIds DEF IdsLinked, ProjectSides
  <1> QED
    BY <1>1 DEF IdsLinked, AccountLinked

LEMMA OwnMessage ==
  ASSUME NEW m, Sighted(m), Addressing(m)
  PROVE  /\ m.mine <=> Person(Jid(m.from)) = SelfPn
         /\ m.mine => m.from[1] = SelfLid /\ m.from[2] = SelfPn
  <1>1. Person(Jid(Bot)) = SelfPn
    BY StreamAssumption, JidIsKey, Account DEF Bot
  <1> QED
    BY <1>1 DEF Addressing, Bot

LEMMA AddressedIds ==
  ASSUME NEW c, IdsInv(c), NEW m, Sighted(m), Addressing(m),
         NEW pn, NumberTold(m, pn)
  PROVE  IdsLinked(Addressed(c, m, pn))
  <1> DEFINE chat == IF Private(m) THEN <<m.chat[1], Here(c, m.chat[1], m.chat[2])>> ELSE Bot
             c1 == Project(c, m.from[1], pn)
             c2 == ProjectSides(c1, chat)
  <1>1. Addressed(c, m, pn) = ProjectSides(c2, Bot)
    BY DEF Addressed
  <1>2. \A d : Sides1(d, Bot[1], Bot[2])
    BY Account DEF Sides1, Bot
  <1>3. Sides1(c, m.from[1], pn) /\ (m.mine => m.from[1] = SelfLid /\ pn = SelfPn)
    <2>1. /\ m.from[1] \in Lids \cup {0} /\ m.from[2] \in Pns \cup {0}
          /\ m.from[1] # 0 => Jid(m.from) = m.from[1]
          /\ m.from[1] = 0 => m.from[2] # 0 /\ Jid(m.from) = m.from[2]
      BY JidIsKey DEF Sighted
    <2>2. CASE m.from[1] = 0
      <3>1. m.from[2] \in Pns /\ Person(Jid(m.from)) = m.from[2]
        BY <2>1, <2>2, Numbers
      <3> QED
        BY <2>2, <3>1, OwnMessage DEF Sides1, NumberTold
    <2>3. CASE m.from[1] # 0
      <3>1. /\ m.from[1] \in Lids /\ Person(Jid(m.from)) = Owner[m.from[1]]
            /\ Owner[m.from[1]] \in Pns
        BY <2>1, <2>3, Numbers
      <3> QED
        BY <2>3, <3>1, OwnMessage DEF Sides1, NumberTold
    <2> QED
      BY <2>2, <2>3
  <1>4. IdsInv(c1) /\ c.known \subseteq c1.known /\ (m.mine => AccountLinked(c1))
    BY <1>3, ProjectIds, Account DEF AccountLinked
  <1>5. Sides1(c1, chat[1], chat[2])
    <2>1. CASE Private(m)
      <3>1. chat = <<m.chat[1], Here(c, m.chat[1], m.chat[2])>>
        BY <2>1
      <3>2. /\ m.chat[1] \in Lids \cup {0} /\ m.chat[2] \in Pns \cup {0}
            /\ m.chat[1] # 0 => Jid(m.chat) = m.chat[1] /\ m.chat[1] \in Lids
            /\ m.chat[1] = 0 => m.chat[2] # 0
            /\ m.chat[2] # 0 => Person(Jid(m.chat)) = m.chat[2]
        BY <2>1, JidIsKey DEF Sighted, Private
      <3>3. /\ chat[1] = m.chat[1] /\ chat[2] \in Pns \cup {0}
            /\ chat[1] = 0 => chat[2] # 0
            /\ chat[1] # 0 /\ chat[2] # 0 => chat[2] = Owner[chat[1]]
        BY <3>1, <3>2, Numbers DEF Here, PnOf
      <3> HIDE DEF chat, c1
      <3>4. CASE m.mine
        <4>1. chat[1] # 0 /\ Owner[chat[1]] = SelfPn => chat[1] \in c1.known
          BY <3>2, <3>3, <3>4, <1>4, Account, AccountAssumption DEF AccountLinked
        <4> QED
          BY <3>2, <3>3, <4>1 DEF Sides1
      <3>5. CASE ~m.mine
        <4>1. Person(Jid(m.chat)) # SelfPn
          BY <3>5, <2>1 DEF Addressing, Private
        <4> QED
          BY <3>2, <3>3, <4>1, Numbers DEF Sides1
      <3> QED
        BY <3>4, <3>5
    <2>2. CASE ~Private(m)
      BY <2>2, <1>2
    <2> QED
      BY <2>1, <2>2
  <1> HIDE DEF c1, chat
  <1>6. IdsInv(c2)
    BY <1>4, <1>5, ProjectIds DEF ProjectSides
  <1> HIDE DEF c2
  <1>7. IdsInv(ProjectSides(c2, Bot)) /\ AccountLinked(ProjectSides(c2, Bot))
    BY <1>2, <1>6, ProjectIds, Account DEF ProjectSides, Bot, AccountLinked
  <1> QED
    BY <1>1, <1>7 DEF IdsLinked

LEMMA SeenIds ==
  ASSUME NEW c, IdsInv(c), NEW m, Sighted(m), Addressing(m),
         NEW pn, NumberTold(m, pn)
  PROVE  IdsLinked(Seen(c, m, pn))
  <1> DEFINE N == Len(Persons(m))
  <1>0. Sighted(m)
    OBVIOUS
  <1>1. PICK f : /\ Seen(c, m, pn) = f[N] /\ f[0] = Addressed(c, m, pn)
                 /\ \A n \in 1 .. N : f[n] = Sees(f[n - 1], Persons(m)[n])
    BY ONLY <1>0, SeenRuns
  <1>2. N \in Nat
    BY SeenRuns
  <1>3. ASSUME NEW d, IdsLinked(d), NEW k PROVE IdsLinked(Sees(d, k))
    <2>1. ASSUME k \in Keys PROVE IdsLinked(ProjectSides(d, Sighting(k)))
      <3>1. Sides1(d, Sighting(k)[1], Sighting(k)[2])
        BY <1>3, <2>1, Numbers, Account DEF Sides1, Sighting, IdsLinked, AccountLinked
      <3> QED
        BY <1>3, <3>1, ProjectLinked
    <2> QED
      BY <1>3, <2>1 DEF Sees
  <1> HIDE DEF N
  <1> DEFINE Bad == {n \in 0 .. N : ~IdsLinked(f[n])}
  <1>4. SUFFICES ASSUME Bad # {} PROVE FALSE
    BY <1>1, <1>2
  <1>5. PICK x \in Bad : \A y \in Bad : x <= y
    <2>1. Bad \subseteq Nat
      BY <1>2
    <2> HIDE DEF Bad
    <2> QED
      BY <1>4, <2>1, LeastExists
  <1>6. x # 0
    BY <1>1, AddressedIds
  <1>7. x \in 1 .. N /\ x - 1 \in 0 .. N /\ x - 1 \notin Bad
    BY <1>2, <1>5, <1>6
  <1> QED
    BY <1>1, <1>3, <1>5, <1>7

\* The account is who the code takes for it.
LEMMA SelfIsAccount ==
  ASSUME NEW c, c.known \subseteq Lids, NEW k \in Nat
  PROVE  IsSelf(c, k) <=> k \in Keys /\ Person(k) = SelfPn
  <1>1. \A j \in c.known : j \in Lids /\ j \in Keys /\ Person(j) = Owner[j] /\ Owner[j] \in Pns
    BY Numbers
  <1>2. SelfPn \notin c.known
    BY <1>1, Account
  <1>3. Same(c, k, SelfPn) => k \in Keys /\ Person(k) = SelfPn
    BY <1>1, <1>2, Account DEF Same
  <1>4. SelfLid # 0 /\ Same(c, k, SelfLid) => k \in Keys /\ Person(k) = SelfPn
    <2>1. SelfLid # 0 => SelfLid \in Keys /\ Person(SelfLid) = SelfPn /\ SelfLid \notin Pns
      BY Account, Numbers
    <2>2. Person(SelfPn) = SelfPn
      BY Account
    <2> QED
      BY <1>1, <2>1, <2>2, Account DEF Same
  <1>5. k \in Keys /\ Person(k) = SelfPn => k = SelfPn \/ (SelfLid # 0 /\ k = SelfLid)
    BY Account
  <1> QED
    BY <1>3, <1>4, <1>5 DEF IsSelf, Same

LEMMA AccountId ==
  ASSUME NEW c, IdsLinked(c)
  PROVE  IdOf(c, SelfPn) = SelfPn /\ PublicText(IdOf(c, SelfPn)) = SelfPn
  <1>1. OwnId(SelfPn, IdOf(c, SelfPn))
    BY Account, IdOfIsOwn DEF IdsLinked
  <1> QED
    BY <1>1, Account, Numbers DEF OwnId, PublicText

LEMMA MentionsAreNat ==
  ASSUME NEW m, Sighted(m)
  PROVE  /\ Len(m.at) \in Nat /\ DOMAIN m.at = 1 .. Len(m.at)
         /\ Len(m.text) \in Nat /\ DOMAIN m.text = 1 .. Len(m.text)
         /\ \A i \in DOMAIN m.at : m.at[i] \in Keys \cup {All} /\ m.at[i] \in Nat
         /\ \A i \in DOMAIN m.text : m.text[i] \in Nat
         /\ All \notin Keys
  BY LenProperties, Numbers DEF Sighted, All

LEMMA WakesIfCalled ==
  ASSUME NEW c, IdsLinked(c), NEW m, Sighted(m), NEW cfg, NEW d, d.m = m, d.rule = cfg
  PROVE  Wakes(c, m, cfg) = Calls(d)
  <1>1. c.known \subseteq Lids
    BY CacheFields DEF IdsLinked, IdsInv
  <1>2. ToSet(m.at) \subseteq Nat /\ ToSet(m.at) \subseteq Keys \cup {All} /\ All \notin Keys
    BY MentionsAreNat DEF ToSet
  <1>3. \A k \in ToSet(m.at) : IsSelf(c, k) <=> k \in Keys /\ Person(k) = SelfPn
    BY <1>1, <1>2, SelfIsAccount
  <1> QED
    BY <1>2, <1>3, AccountId DEF Wakes, Mentioned, Calls

\* A component shows the person it stands for.
LEMMA AtShows ==
  ASSUME NEW c, IdsLinked(c), NEW k \in Keys \cup {All}
  PROVE  At(c, k).is = "at" /\ Shows(At(c, k), k)
  <1>1. CASE k = All
    BY <1>1 DEF At, Shows
  <1>2. CASE k \in Keys
    <2>1. k # All /\ k \in Nat
      BY <1>2, Numbers DEF All
    <2>2. c.known \subseteq Lids
      BY CacheFields DEF IdsLinked, IdsInv
    <2>3. IsSelf(c, k) <=> Person(k) = SelfPn
      BY <1>2, <2>1, <2>2, SelfIsAccount
    <2>4. OwnId(k, IdOf(c, k))
      BY <1>2, Account, IdOfIsOwn DEF IdsLinked, AccountLinked
    <2>5. IdOf(c, SelfPn) \in Keys /\ Person(IdOf(c, SelfPn)) = SelfPn
      BY AccountId, Account
    <2> QED
      BY <1>2, <2>1, <2>3, <2>4, <2>5 DEF At, Shows, OwnId
  <1> QED
    BY <1>1, <1>2

\* A number that shows a mention is one of the person's.
LEMMA TokenShows ==
  ASSUME NEW c, IdsLinked(c), NEW k \in Keys \cup {All}, NEW t \in Keys, t \in Tokens(c, k)
  PROVE  Shows(At(c, k), t)
  <1>1. t # All /\ All \notin Keys /\ t \in Nat
    BY Numbers DEF All
  <1>2. k \in Keys
    BY <1>1 DEF Tokens
  <1>3. c.known \subseteq Lids
    BY CacheFields DEF IdsLinked, IdsInv
  <1>4. Person(t) = Person(k)
    <2>1. CASE t = k
      BY <2>1
    <2>2. CASE t = PublicText(IdOf(c, k))
      <3>1. OwnId(k, IdOf(c, k))
        BY <1>2, Account, IdOfIsOwn DEF IdsLinked, AccountLinked
      <3> QED
        BY <2>2, <3>1, TextsAssumption DEF PublicText, OwnId
    <2>3. CASE NameOf[k] # 0 /\ t = NameOf[k]
      BY <1>2, <2>3, TextsAssumption
    <2>4. CASE t # 0 /\ t = PnOf(c, k)
      BY <1>3, <2>4, Numbers DEF PnOf
    <2>5. CASE t # 0 /\ k \in Pns /\ t = LidFor(c, k)
      <3>1. LidsOf(c, k) \subseteq Nat /\ \A l \in LidsOf(c, k) : l \in Lids /\ Owner[l] = k
        BY <1>3, Numbers DEF LidsOf
      <3>2. t \in LidsOf(c, k)
        BY <2>5, <3>1, LeastOf DEF LidFor
      <3> QED
        BY <2>5, <3>1, <3>2, Numbers
    <2>6. CASE IsSelf(c, k) /\ t \in {SelfPn, SelfLid} \ {0}
      <3>1. Person(k) = SelfPn
        BY <1>2, <1>3, <2>6, Numbers, SelfIsAccount
      <3> QED
        BY <2>6, <3>1, Account
    <2>7. Tokens(c, k) = {k, PublicText(IdOf(c, k))}
             \cup (IF NameOf[k] = 0 THEN {} ELSE {NameOf[k]})
             \cup ({PnOf(c, k), IF k \in Pns THEN LidFor(c, k) ELSE 0} \ {0})
             \cup (IF IsSelf(c, k) THEN {SelfPn, SelfLid} \ {0} ELSE {})
      BY <1>1, <1>2 DEF Tokens
    <2> QED
      BY <2>1, <2>2, <2>3, <2>4, <2>5, <2>6, <2>7
  <1>5. Shows(At(c, k), k) /\ At(c, k).is = "at"
    BY <1>2, AtShows
  <1> QED
    BY <1>1, <1>2, <1>4, <1>5 DEF Shows
\* Any other word that shows a mention names the person.
LEMMA TokenNames ==
  ASSUME NEW c, IdsLinked(c), NEW k \in Keys \cup {All}, NEW t, t \notin Keys, t \in Tokens(c, k)
  PROVE  Names(t, k)
  <1>1. CASE k = All
    BY <1>1 DEF Tokens, Names
  <1>2. CASE k # All
    <2>1. k \in Keys /\ c.known \subseteq Lids
      BY <1>2, CacheFields DEF IdsLinked, IdsInv
    <2>2. OwnId(k, IdOf(c, k))
      BY <2>1, Account, IdOfIsOwn DEF IdsLinked, AccountLinked
    <2>3. CASE t = PublicText(IdOf(c, k))
      BY <1>2, <2>2, <2>3 DEF PublicText, OwnId, Names
    <2>4. CASE t = NameOf[k]
      BY <1>2, <2>4 DEF Names
    <2>5. PnOf(c, k) \in Keys \cup {0}
      BY <2>1, Numbers DEF PnOf
    <2>6. k \in Pns => LidFor(c, k) \in Keys \cup {0}
      <3>1. LidsOf(c, k) \subseteq Nat /\ LidsOf(c, k) \subseteq Lids
        BY <2>1, Numbers DEF LidsOf
      <3> QED
        BY <3>1, LeastOf, Numbers DEF LidFor
    <2>7. {SelfPn, SelfLid} \ {0} \subseteq Keys
      BY Account, Numbers
    <2>8. \/ t \in {k, PublicText(IdOf(c, k)), NameOf[k]}
          \/ t \in {PnOf(c, k), IF k \in Pns THEN LidFor(c, k) ELSE 0} \ {0}
          \/ t \in {SelfPn, SelfLid} \ {0}
      BY <1>2 DEF Tokens
    <2> QED
      BY <2>1, <2>3, <2>4, <2>5, <2>6, <2>7, <2>8
  <1> QED
    BY <1>1, <1>2
-----------------------------------------------------------------------------
(* What the chain holds.                                                   *)
IsList(s) == s \in Seq(ToSet(s)) /\ Len(s) \in Nat /\ DOMAIN s = 1 .. Len(s)

LEMMA ListFromPlaces ==
  ASSUME NEW n \in Nat, NEW s, s = [i \in 1 .. n |-> s[i]]
  PROVE  IsList(s) /\ Len(s) = n
  <1>1. \A i \in 1 .. n : s[i] \in ToSet(s)
    BY DEF ToSet
  <1>2. s \in [1 .. n -> ToSet(s)]
    BY <1>1
  <1>3. s \in Seq(ToSet(s))
    BY <1>2
  <1>4. Len(s) = n
    BY <1>2, <1>3, LenProperties
  <1> QED
    BY <1>3, <1>4, LenProperties DEF IsList

Joined(s, t, st) ==
  /\ IsList(st) /\ Len(st) = Len(s) + Len(t)
  /\ \A i \in 1 .. Len(s) : st[i] = s[i]
  /\ \A i \in 1 .. Len(t) : st[Len(s) + i] = t[i]
LEMMA ListsJoined == ASSUME NEW s, IsList(s), NEW t, IsList(t) PROVE Joined(s, t, s \o t)
  <1> DEFINE S == ToSet(s) \cup ToSet(t)
  <1>1. s \in Seq(S) /\ t \in Seq(S) /\ Len(s) \in Nat /\ Len(t) \in Nat
    <2>1. \A i \in 1 .. Len(s) : s[i] \in S
      BY DEF IsList, ToSet
    <2>2. \A i \in 1 .. Len(t) : t[i] \in S
      BY DEF IsList, ToSet
    <2> QED
      BY <2>1, <2>2 DEF IsList
  <1> HIDE DEF S
  <1>2. /\ s \o t \in Seq(S) /\ Len(s \o t) = Len(s) + Len(t)
        /\ \A i \in 1 .. Len(s) + Len(t) : (s \o t)[i] = IF i <= Len(s) THEN s[i] ELSE t[i - Len(s)]
    BY <1>1, ConcatProperties
  <1>3. IsList(s \o t)
    BY <1>2, SelfTyped, LenProperties DEF IsList
  <1> QED
    BY <1>1, <1>2, <1>3 DEF Joined

\* The least of what may be taken, and one that is not used if there is one.
LEMMA TakenIs ==
  ASSUME NEW m, Sighted(m), NEW c, NEW t, NEW U, Candidates(c, m, t) # {}
  PROVE  /\ Taken(c, m, t, U) \in Candidates(c, m, t)
         /\ Candidates(c, m, t) \ U # {} => Taken(c, m, t, U) \notin U
  <1> DEFINE free == Candidates(c, m, t) \ U
             pool == IF free = {} THEN Candidates(c, m, t) ELSE free
  <1>1. Candidates(c, m, t) \subseteq Nat
    BY MentionsAreNat DEF Candidates
  <1>2. pool \subseteq Nat /\ pool # {}
    BY <1>1
  <1>3. Taken(c, m, t, U) = Min(pool)
    BY DEF Taken
  <1>4. Min(pool) \in pool
    <2> HIDE DEF pool
    <2> QED
      BY <1>2, LeastOf
  <1> QED
    BY <1>3, <1>4

\* UsedUp runs through the words one by one.
Uses(c, m, U, t) == U \cup (IF Candidates(c, m, t) = {} THEN {} ELSE {Taken(c, m, t, U)})
LEMMA UsedRuns ==
  ASSUME NEW c, NEW m, NEW text, Len(text) \in Nat
  PROVE  /\ UsedUp(c, m, text)[0] = {}
         /\ \A n \in 1 .. Len(text) :
              UsedUp(c, m, text)[n] = Uses(c, m, UsedUp(c, m, text)[n - 1], text[n])
  <1> DEFINE N == Len(text)
             Next1(U, n) == U \cup (IF Candidates(c, m, text[n]) = {} THEN {}
                                    ELSE {Taken(c, m, text[n], U)})
             Runs(f, n) == f = [i \in 0 .. n |-> IF i = 0 THEN {} ELSE Next1(f[i - 1], i)]
             used == CHOOSE f : Runs(f, N)
  <1>1. UsedUp(c, m, text) = used
    BY DEF UsedUp
  <1>2. N \in Nat
    OBVIOUS
  <1>3. \A U, n : Next1(U, n) = Uses(c, m, U, text[n])
    BY DEF Uses
  <1> HIDE DEF N, Next1
  <1>4. \E f : Runs(f, N)
    <2> DEFINE Bad == {n \in Nat : ~ \E f : Runs(f, n)}
    <2>1. SUFFICES ASSUME Bad # {} PROVE FALSE
      BY <1>2
    <2>2. PICK x \in Bad : \A y \in Bad : x <= y
      BY <2>1, LeastExists
    <2>3. x # 0
      <3>1. Runs([i \in 0 .. 0 |-> {}], 0)
        OBVIOUS
      <3> QED
        BY <3>1
    <2>4. x \in Nat /\ x - 1 \in Nat /\ x - 1 \notin Bad
      <3> HIDE DEF Runs
      <3>1. x \in Nat /\ x - 1 \in Nat /\ ~(x <= x - 1)
        BY <2>2, <2>3
      <3> QED
        BY <2>2, <3>1
    <2>5. PICK f : Runs(f, x - 1)
      BY <2>4
    <2> DEFINE g == [i \in 0 .. x |-> IF i = x THEN Next1(f[x - 1], x) ELSE f[i]]
    <2>6. Runs(g, x)
      <3>1. ASSUME NEW i \in 0 .. x
            PROVE  g[i] = IF i = 0 THEN {} ELSE Next1(g[i - 1], i)
        <4>1. CASE i = x
          BY <4>1, <2>3, <2>4
        <4>2. CASE i = 0
          BY <4>2, <2>3, <2>4, <2>5
        <4>3. CASE i # x /\ i # 0
          <5>1. i \in 0 .. x - 1 /\ i - 1 \in 0 .. x /\ i - 1 # x /\ i - 1 \in 0 .. x - 1
            BY <4>3, <2>4
          <5>2. f[i] = Next1(f[i - 1], i)
            BY <5>1, <4>3, <2>5
          <5> QED
            BY <5>1, <5>2, <4>3
        <4> QED
          BY <4>1, <4>2, <4>3
      <3> QED
        BY <3>1
    <2> QED
      BY <2>2, <2>6
  <1>5. Runs(used, N)
    <2> HIDE DEF Runs
    <2> QED
      BY <1>4
  <1> HIDE DEF used
  <1>6. used[0] = {}
    BY <1>2, <1>5
  <1>7. ASSUME NEW n \in 1 .. N PROVE used[n] = Next1(used[n - 1], n)
    <2>1. n \in 0 .. N /\ n # 0
      BY <1>2
    <2> QED
      BY <2>1, <1>5
  <1> QED
    BY <1>1, <1>3, <1>6, <1>7 DEF N

\* What is used after n words is what one of them took.
Takes(c, m, text, j) == Candidates(c, m, text[j]) # {}
TakenAt(c, m, text, j) == Taken(c, m, text[j], UsedUp(c, m, text)[j - 1])
LEMMA UsedByWords ==
  ASSUME NEW c, NEW m, NEW text, Len(text) \in Nat, NEW n \in 0 .. Len(text)
  PROVE  UsedUp(c, m, text)[n] = {TakenAt(c, m, text, j) : j \in {h \in 1 .. n : Takes(c, m, text, h)}}
  <1> DEFINE By(k) == {TakenAt(c, m, text, j) : j \in {h \in 1 .. k : Takes(c, m, text, h)}}
             used == UsedUp(c, m, text)
             Bad == {k \in 0 .. Len(text) : used[k] # By(k)}
  <1>1. SUFFICES ASSUME Bad # {} PROVE FALSE
    OBVIOUS
  <1>2. PICK x \in Bad : \A y \in Bad : x <= y
    <2>1. Bad \subseteq Nat
      OBVIOUS
    <2> HIDE DEF Bad
    <2> QED
      BY <1>1, <2>1, LeastExists
  <1>3. x # 0
    <2>1. used[0] = {} /\ By(0) = {}
      BY UsedRuns
    <2> QED
      BY <2>1, <1>2
  <1>4. x \in 1 .. Len(text) /\ x - 1 \in 0 .. Len(text) /\ x - 1 \notin Bad
    BY <1>2, <1>3
  <1>5. used[x - 1] = By(x - 1)
    BY <1>4
  <1>6. used[x] = used[x - 1] \cup (IF Takes(c, m, text, x) THEN {TakenAt(c, m, text, x)} ELSE {})
    <2>1. UsedUp(c, m, text)[x] = Uses(c, m, UsedUp(c, m, text)[x - 1], text[x])
      BY <1>4, UsedRuns
    <2> QED
      BY <2>1 DEF Uses, Takes, TakenAt
  <1>7. \A h : h \in 1 .. x <=> h \in 1 .. x - 1 \/ h = x
    BY <1>4
  <1>8. By(x) = By(x - 1) \cup (IF Takes(c, m, text, x) THEN {TakenAt(c, m, text, x)} ELSE {})
    BY <1>7
  <1> QED
    BY <1>2, <1>5, <1>6, <1>8

\* InOrder lists each number of a set once.
LEMMA InOrderLists ==
  ASSUME NEW S, S \subseteq Nat, IsFiniteSet(S)
  PROVE  /\ Cardinality(S) \in Nat /\ InOrder(S) = [i \in 1 .. Cardinality(S) |-> InOrder(S)[i]]
         /\ \A i \in 1 .. Cardinality(S) : InOrder(S)[i] \in S
         /\ \A k \in S : \E i \in 1 .. Cardinality(S) : InOrder(S)[i] = k
  <1> DEFINE below(k) == {j \in S : j < k}
             rank == [k \in S |-> Cardinality(below(k)) + 1]
             n == Cardinality(S)
  <1>1. n \in Nat
    BY FS_CardinalityType
  <1>2. ASSUME NEW k \in S
        PROVE  IsFiniteSet(below(k)) /\ Cardinality(below(k)) \in 0 .. n - 1
    <2>1. IsFiniteSet(S \ {k}) /\ Cardinality(S \ {k}) = n - 1
      BY FS_RemoveElement
    <2>2. below(k) \in SUBSET (S \ {k})
      OBVIOUS
    <2>3. IsFiniteSet(below(k)) /\ Cardinality(below(k)) <= n - 1
      BY <2>1, <2>2, FS_Subset
    <2> QED
      BY <1>1, <2>3, FS_CardinalityType
  <1>3. ASSUME NEW j \in S, NEW k \in S, j < k
        PROVE  Cardinality(below(j)) < Cardinality(below(k))
    <2>1. j \in below(k) /\ below(j) \in SUBSET below(k) /\ j \notin below(j)
      <3>1. \A i \in S : i \in Nat
        OBVIOUS
      <3>2. ASSUME NEW i \in S, i < j PROVE i < k
        BY <1>3, <3>1, <3>2
      <3>3. ~(j < j)
        BY <3>1
      <3> QED
        BY <1>3, <3>2, <3>3
    <2>2. Cardinality(below(j)) <= Cardinality(below(k)) /\ Cardinality(below(j)) # Cardinality(below(k))
      BY <1>2, <2>1, FS_Subset
    <2> QED
      BY <1>2, <2>2
  <1>4. rank \in Injection(S, 1 .. n)
    <2>1. rank \in [S -> 1 .. n]
      BY <1>1, <1>2
    <2>2. ASSUME NEW j \in S, NEW k \in S, rank[j] = rank[k] PROVE j = k
      <3>1. Cardinality(below(j)) = Cardinality(below(k))
        BY <1>2, <2>2
      <3>2. ~(j < k) /\ ~(k < j)
        BY <1>2, <1>3, <3>1
      <3> QED
        BY <3>2
    <2> QED
      BY <2>1, <2>2 DEF Injection, IsInjective
  <1>5. rank \in Surjection(S, 1 .. n)
    <2>1. IsFiniteSet(1 .. n) /\ Cardinality(1 .. n) = n
      BY <1>1, FS_Interval
    <2> HIDE DEF rank, n
    <2>2. n = Cardinality(S)
      BY DEF n
    <2> QED
      BY <1>4, <2>1, <2>2, FS_Injection
  <1>6. ASSUME NEW i \in 1 .. n
        PROVE  InOrder(S)[i] \in S /\ rank[InOrder(S)[i]] = i
    <2>1. InOrder(S)[i] = CHOOSE k \in S : Cardinality(below(k)) = i - 1
      BY DEF InOrder
    <2>2. PICK k \in S : rank[k] = i
      BY <1>5 DEF Surjection
    <2>3. rank[k] = Cardinality(below(k)) + 1 /\ Cardinality(below(k)) \in 0 .. n - 1
      BY <1>2
    <2>4. Cardinality(below(k)) = i - 1
      BY <1>1, <2>2, <2>3
    <2> DEFINE found == CHOOSE h \in S : Cardinality(below(h)) = i - 1
    <2>5. found \in S /\ Cardinality(below(found)) = i - 1
      <3> HIDE DEF below
      <3> QED
        BY <2>4
    <2>6. rank[found] = i
      BY <2>5, <1>1
    <2> QED
      BY <2>1, <2>5, <2>6
  <1>7. ASSUME NEW k \in S PROVE \E i \in 1 .. n : InOrder(S)[i] = k
    <2>1. rank[k] \in 1 .. n
      BY <1>4 DEF Injection
    <2>2. InOrder(S)[rank[k]] \in S /\ rank[InOrder(S)[rank[k]]] = rank[k]
      BY <1>6, <2>1
    <2>3. InOrder(S)[rank[k]] = k
      BY <1>4, <2>2 DEF Injection, IsInjective
    <2> QED
      BY <2>1, <2>3
  <1>8. InOrder(S) = [i \in 1 .. n |-> InOrder(S)[i]]
    <2> DEFINE placed(i) == CHOOSE k \in S : Cardinality({j \in S : j < k}) = i - 1
    <2>1. InOrder(S) = [i \in 1 .. n |-> placed(i)]
      BY DEF InOrder
    <2> HIDE DEF placed
    <2> QED
      BY <2>1
  <1> QED
    BY <1>1, <1>6, <1>7, <1>8

\* The components of a text: the mentions left over, each once, then one for each word.
LeftOver(c, m, text) == DOMAIN m.at \ UsedUp(c, m, text)[Len(text)]
Ahead(c, m, text) == Cardinality(LeftOver(c, m, text))
FromWords(c, m, text, k, p) ==
  /\ k \in Nat /\ IsList(p) /\ Len(p) = k + Len(text)
  /\ \A i \in 1 .. k : \E a \in LeftOver(c, m, text) : p[i] = At(c, m.at[a])
  /\ \A a \in LeftOver(c, m, text) : \E i \in 1 .. k : p[i] = At(c, m.at[a])
  /\ \A n \in 1 .. Len(text) :
       p[k + n] = IF Takes(c, m, text, n) THEN At(c, m.at[TakenAt(c, m, text, n)]) ELSE Word(text[n])
LEMMA OrderedHolds ==
  ASSUME NEW c, NEW m, Sighted(m), NEW text, IsList(text)
  PROVE  FromWords(c, m, text, Ahead(c, m, text), Ordered(c, m, text))
  <1> DEFINE S == LeftOver(c, m, text)
             k == Ahead(c, m, text)
             missing == Missing(c, m, text)
             first == [i \in DOMAIN missing |-> At(c, m.at[missing[i]])]
             placed == Placed(c, m, text)
  <1>1. S \subseteq Nat /\ IsFiniteSet(S)
    <2>1. DOMAIN m.at = 1 .. Len(m.at) /\ Len(m.at) \in Nat
      BY MentionsAreNat
    <2>2. IsFiniteSet(DOMAIN m.at)
      BY <2>1, FS_Interval
    <2>3. S \in SUBSET DOMAIN m.at
      BY DEF LeftOver
    <2> HIDE DEF S
    <2> QED
      BY <2>1, <2>2, <2>3, FS_Subset
  <1>2. missing = InOrder(S)
    BY DEF Missing, LeftOver
  <1>3. /\ k \in Nat /\ missing = [i \in 1 .. k |-> missing[i]]
        /\ \A i \in 1 .. k : missing[i] \in S
        /\ \A a \in S : \E i \in 1 .. k : missing[i] = a
    BY <1>1, <1>2, InOrderLists DEF Ahead
  <1> HIDE DEF missing, S, k
  <1>4. DOMAIN missing = 1 .. k
    BY <1>3
  <1>5. first = [i \in 1 .. k |-> first[i]] /\ \A i \in 1 .. k : first[i] = At(c, m.at[missing[i]])
    BY <1>4
  <1>6. /\ placed = [n \in 1 .. Len(text) |-> placed[n]]
        /\ \A n \in 1 .. Len(text) :
             placed[n] = IF Takes(c, m, text, n) THEN At(c, m.at[TakenAt(c, m, text, n)]) ELSE Word(text[n])
    BY DEF Placed, IsList, Takes, TakenAt
  <1>7. Ordered(c, m, text) = first \o placed
    BY DEF Ordered, missing
  <1> HIDE DEF first, placed
  <1>8. IsList(first) /\ Len(first) = k /\ IsList(placed) /\ Len(placed) = Len(text)
    BY <1>3, <1>5, <1>6, ListFromPlaces DEF IsList
  <1>9. /\ IsList(first \o placed) /\ Len(first \o placed) = k + Len(text)
        /\ \A i \in 1 .. k : (first \o placed)[i] = first[i]
        /\ \A n \in 1 .. Len(text) : (first \o placed)[k + n] = placed[n]
    <2>1. Joined(first, placed, first \o placed)
      BY <1>8, ListsJoined
    <2> QED
      BY <1>8, <2>1 DEF Joined
  <1>10. \A i \in 1 .. k : \E a \in S : (first \o placed)[i] = At(c, m.at[a])
    BY <1>3, <1>5, <1>9
  <1>11. ASSUME NEW a \in S PROVE \E i \in 1 .. k : (first \o placed)[i] = At(c, m.at[a])
    BY <1>3, <1>5, <1>9
  <1> QED
    BY <1>3, <1>6, <1>7, <1>9, <1>10, <1>11 DEF FromWords, S, k

\* A word that names a mention shows it; each mention is shown; and of two words of one name
\* the later does not show again whom the earlier one shows while another is left over.
BodyHolds(m, text, k, p) ==
  /\ k \in Nat /\ IsList(p) /\ Len(p) = k + Len(text)
  /\ \A i \in 1 .. k : p[i].is = "at"
  /\ \A n \in 1 .. Len(text) : WordKept(m, text[n], p[k + n])
  /\ \A n \in 1 .. Len(text) : p[k + n].is \in {"at", "word"}
  /\ \A x \in ToSet(m.at) : (x = All /\ text = <<>>) \/ \E i \in 1 .. k + Len(text) : Shows(p[i], x)
  /\ \A j, n \in 1 .. Len(text) :
       j < n /\ p[k + j] = p[k + n] /\ p[k + n].is = "at" /\ Once(m, p[k + n]) =>
         \A f \in 1 .. k, a \in DOMAIN m.at :
           Shows(p[f], m.at[a]) /\ Once(m, p[f]) /\ m.at[a] \in Keys =>
             text[n] \notin {NameOf[m.at[a]]} \ {0}
LEMMA WordsKept ==
  ASSUME NEW c, IdsLinked(c), NEW m, Sighted(m), NEW text, IsList(text), NEW k, k = Ahead(c, m, text),
         NEW p, p = Ordered(c, m, text)
  PROVE  BodyHolds(m, text, k, p)
  <1> DEFINE S == LeftOver(c, m, text)
             at(a) == At(c, m.at[a])
             taken(n) == TakenAt(c, m, text, n)
             takes(n) == Takes(c, m, text, n)
             used == UsedUp(c, m, text)
             N == Len(text)
  <1>1. /\ k \in Nat /\ IsList(p) /\ Len(p) = k + N
        /\ \A i \in 1 .. k : \E a \in S : p[i] = at(a)
        /\ \A a \in S : \E i \in 1 .. k : p[i] = at(a)
        /\ \A n \in 1 .. N : p[k + n] = IF takes(n) THEN at(taken(n)) ELSE Word(text[n])
    <2>1. FromWords(c, m, text, k, p)
      BY OrderedHolds
    <2> QED
      BY <2>1 DEF FromWords
  <1>2. /\ N \in Nat /\ S \subseteq DOMAIN m.at
        /\ \A a \in DOMAIN m.at : m.at[a] \in Keys \cup {All}
    BY MentionsAreNat DEF IsList, LeftOver
  <1>3. \A a \in DOMAIN m.at : at(a).is = "at" /\ Shows(at(a), m.at[a])
    BY <1>2, AtShows
  <1>4. ASSUME NEW n \in 1 .. N, takes(n)
        PROVE  /\ taken(n) \in DOMAIN m.at /\ text[n] \in Tokens(c, m.at[taken(n)])
               /\ Candidates(c, m, text[n]) \ used[n - 1] # {} => taken(n) \notin used[n - 1]
    BY <1>4, TakenIs DEF Takes, TakenAt, Candidates
  <1>5. ASSUME NEW n \in 0 .. N
        PROVE  used[n] = {taken(j) : j \in {h \in 1 .. n : takes(h)}}
    BY <1>2, UsedByWords
  <1>6. S = DOMAIN m.at \ used[N]
    BY DEF LeftOver
  <1> HIDE DEF S, at, taken, takes, used, N
  <1>7. \A i \in 1 .. k : p[i].is = "at"
    BY <1>1, <1>2, <1>3
  <1>8. ASSUME NEW n \in 1 .. N PROVE WordKept(m, text[n], p[k + n]) /\ p[k + n].is \in {"at", "word"}
    <2>1. CASE takes(n)
      <3>1. p[k + n] = at(taken(n)) /\ p[k + n].is = "at"
        BY <1>1, <1>3, <1>4, <2>1
      <3>2. ASSUME text[n] \in Keys PROVE Shows(p[k + n], text[n])
        BY <3>1, <3>2, <1>2, <1>4, <2>1, TokenShows DEF at
      <3> QED
        <4>1. m.at[taken(n)] \in ToSet(m.at)
          BY <1>4, <2>1 DEF ToSet
        <4>2. ASSUME text[n] \notin Keys PROVE Names(text[n], m.at[taken(n)]) /\ Shows(p[k + n], m.at[taken(n)])
          BY <3>1, <4>2, <1>2, <1>3, <1>4, <2>1, TokenNames
        <4> QED
          BY <3>1, <3>2, <4>1, <4>2 DEF WordKept
    <2>2. CASE ~takes(n)
      <3>1. p[k + n] = Word(text[n]) /\ p[k + n].is = "word"
        BY <1>1, <2>2 DEF Word
      <3>2. \A a \in DOMAIN m.at : text[n] \notin Tokens(c, m.at[a])
        BY <2>2 DEF takes, Takes, Candidates
      <3>3. \A a \in DOMAIN m.at : m.at[a] \in Tokens(c, m.at[a])
        BY <1>2 DEF Tokens
      <3>4. text[n] \notin ToSet(m.at)
        BY <3>2, <3>3 DEF ToSet
      <3> QED
        BY <3>1, <3>4 DEF WordKept
    <2> QED
      BY <2>1, <2>2
  <1>9. ASSUME NEW x \in ToSet(m.at) PROVE \E i \in 1 .. k + N : Shows(p[i], x)
    <2>1. PICK a \in DOMAIN m.at : x = m.at[a]
      BY DEF ToSet
    <2>2. CASE a \in S
      <3>1. PICK i \in 1 .. k : p[i] = at(a)
        BY <1>1, <2>2
      <3>2. i \in 1 .. k + N
        BY <1>1, <1>2
      <3> QED
        BY <3>1, <3>2, <2>1, <1>3
    <2>3. CASE a \notin S
      <3>1. PICK j \in 1 .. N : takes(j) /\ a = taken(j)
        BY <2>3, <1>2, <1>5, <1>6
      <3>2. k + j \in 1 .. k + N /\ p[k + j] = at(a)
        BY <3>1, <1>1, <1>2
      <3> QED
        BY <3>2, <2>1, <1>3
    <2> QED
      BY <2>2, <2>3
  <1>10. ASSUME NEW j \in 1 .. N, NEW n \in 1 .. N, j < n, p[k + j] = p[k + n], p[k + n].is = "at",
                Once(m, p[k + n]), NEW f \in 1 .. k, NEW a \in DOMAIN m.at, Shows(p[f], m.at[a]),
                Once(m, p[f]), m.at[a] \in Keys, text[n] = NameOf[m.at[a]], text[n] # 0
         PROVE  FALSE
    <2>1. takes(j) /\ takes(n)
      <3>1. p[k + j].is = "at" /\ Word(text[j]).is # "at" /\ Word(text[n]).is # "at"
        BY <1>10 DEF Word
      <3> QED
        BY <3>1, <1>1, <1>10
    <2>2. /\ taken(j) \in DOMAIN m.at /\ taken(n) \in DOMAIN m.at
          /\ p[k + n] = at(taken(n)) /\ p[k + n] = at(taken(j))
      BY <2>1, <1>1, <1>4, <1>10
    <2>3. taken(j) = taken(n)
      BY <2>2, <1>3, <1>10 DEF Once
    <2>4. a \in S
      <3>1. PICK b \in S : p[f] = at(b)
        BY <1>1
      <3> QED
        BY <3>1, <1>2, <1>3, <1>10 DEF Once
    <2>5. n - 1 \in 0 .. N /\ j \in 1 .. n - 1 /\ \A h \in 1 .. n - 1 : h \in 1 .. N
      BY <1>2, <1>10
    <2>6. taken(j) \in used[n - 1]
      BY <2>1, <2>5, <1>5
    <2>7. a \notin used[n - 1]
      BY <2>4, <2>5, <1>2, <1>5, <1>6
    <2>8. a \in Candidates(c, m, text[n])
      <3>1. m.at[a] # All
        BY <1>10, Numbers DEF All
      <3> QED
        BY <3>1, <1>10 DEF Candidates, Tokens
    <2> QED
      BY <2>1, <2>3, <2>6, <2>7, <2>8, <1>4
  <1> QED
    BY <1>1, <1>7, <1>8, <1>9, <1>10 DEF BodyHolds, N

\* The words that a message shows.
TextOf(m) == IF m.extra THEN <<>> ELSE Shown(m)
LEMMA NoParts == IsList(<<>>) /\ Len(<<>>) = 0
  BY DEF IsList, ToSet
LEMMA OnePart == ASSUME NEW x PROVE IsList(<<x>>) /\ Len(<<x>>) = 1 /\ <<x>>[1] = x
  BY DEF IsList, ToSet

LEMMA TextIsList == ASSUME NEW m, Sighted(m) PROVE IsList(TextOf(m))
  <1>1. IsList(m.text)
    BY MentionsAreNat, SelfTyped DEF IsList, Sighted
  <1> QED
    BY <1>1, NoParts DEF TextOf, Shown

LEMMA BodyRight ==
  ASSUME NEW c, IdsLinked(c), NEW m, Sighted(m)
  PROVE  \E k : BodyHolds(m, TextOf(m), k, Body(c, m))
  <1> DEFINE text == TextOf(m)
  <1>1. IsList(text)
    BY TextIsList
  <1>2. Body(c, m) = IF text = <<>> /\ ToSet(m.at) \cap Keys = {} THEN <<>> ELSE Ordered(c, m, text)
    BY DEF Body, TextOf
  <1> HIDE DEF text
  <1>3. CASE text = <<>> /\ ToSet(m.at) \cap Keys = {}
    <2>1. Body(c, m) = <<>> /\ Len(text) = 0
      BY <1>2, <1>3, NoParts
    <2>2. \A x \in ToSet(m.at) : x = All
      BY <1>3, MentionsAreNat DEF ToSet
    <2>3. BodyHolds(m, text, 0, <<>>)
      BY <1>3, <2>1, <2>2, NoParts DEF BodyHolds
    <2> QED
      BY <2>1, <2>3 DEF text
  <1>4. CASE ~(text = <<>> /\ ToSet(m.at) \cap Keys = {})
    <2>1. BodyHolds(m, text, Ahead(c, m, text), Ordered(c, m, text))
      BY <1>1, WordsKept
    <2> QED
      BY <2>1, <1>2, <1>4 DEF text
  <1> QED
    BY <1>3, <1>4

\* A chain has its parts one after another.
Follow(q, p, r, chain) ==
  /\ IsList(r) /\ IsList(chain) /\ Len(chain) = Len(q) + Len(p) + Len(r)
  /\ \A i \in 1 .. Len(q) : chain[i] = q[i]
  /\ \A i \in 1 .. Len(p) : chain[Len(q) + i] = p[i]
  /\ \A i \in 1 .. Len(r) : chain[Len(q) + Len(p) + i] = r[i]
LEMMA PartsFollow ==
  ASSUME NEW q, IsList(q), NEW p, IsList(p), NEW e, IsList(e), NEW s, IsList(s)
  PROVE  Follow(q, p, e \o s, q \o p \o e \o s)
  <1>1. Len(q) \in Nat /\ Len(p) \in Nat /\ Len(e) \in Nat /\ Len(s) \in Nat
    BY DEF IsList
  <1> DEFINE a == q \o p
             b == a \o e
             r == e \o s
             chain == b \o s
  <1>2. Joined(q, p, a)
    BY ListsJoined
  <1>3. Joined(e, s, r)
    BY ListsJoined
  <1> HIDE DEF a, r
  <1>4. Joined(a, e, b)
    <2>1. IsList(a)
      BY <1>2 DEF Joined
    <2> QED
      BY <2>1, ListsJoined
  <1> HIDE DEF b
  <1>6. Joined(b, s, chain)
    <2>1. IsList(b)
      BY <1>4 DEF Joined
    <2> QED
      BY <2>1, ListsJoined
  <1> HIDE DEF chain
  <1>7. ASSUME NEW i \in 1 .. Len(q) PROVE chain[i] = q[i]
    <2>1. i \in 1 .. Len(a) /\ i \in 1 .. Len(b)
      BY <1>1, <1>2, <1>4 DEF Joined
    <2> QED
      BY <2>1, <1>2, <1>4, <1>6 DEF Joined
  <1>8. ASSUME NEW i \in 1 .. Len(p) PROVE chain[Len(q) + i] = p[i]
    <2>1. Len(q) + i \in 1 .. Len(a) /\ Len(q) + i \in 1 .. Len(b)
      BY <1>1, <1>2, <1>4 DEF Joined
    <2> QED
      BY <2>1, <1>2, <1>4, <1>6 DEF Joined
  <1>9. ASSUME NEW i \in 1 .. Len(r) PROVE chain[Len(q) + Len(p) + i] = r[i]
    <2>1. CASE i \in 1 .. Len(e)
      <3>1. Len(q) + Len(p) + i \in 1 .. Len(b) /\ Len(q) + Len(p) + i = Len(a) + i
        BY <1>1, <1>2, <1>4, <2>1 DEF Joined
      <3> QED
        BY <3>1, <2>1, <1>3, <1>4, <1>6 DEF Joined
    <2>2. CASE i - Len(e) \in 1 .. Len(s)
      <3>1. Len(q) + Len(p) + i = Len(b) + (i - Len(e)) /\ i = Len(e) + (i - Len(e))
        BY <1>1, <1>2, <1>4, <2>2 DEF Joined
      <3>2. r[Len(e) + (i - Len(e))] = s[i - Len(e)] /\ chain[Len(b) + (i - Len(e))] = s[i - Len(e)]
        BY <2>2, <1>3, <1>6 DEF Joined
      <3> QED
        BY <3>1, <3>2
    <2> QED
      BY <2>1, <2>2, <1>1, <1>3 DEF Joined
  <1>10. Len(chain) = Len(q) + Len(p) + Len(r)
    BY <1>1, <1>2, <1>3, <1>4, <1>6 DEF Joined
  <1> QED
    BY <1>3, <1>6, <1>7, <1>8, <1>9, <1>10 DEF Follow, Joined, a, b, r, chain

\* The chain of a message keeps its parts, and a quote of the bot does not name the bot.
NamesNoBot(d) ==
  Person(d.m.quote) = SelfPn => \A j \in DOMAIN d.chain : d.chain[j].is = "reply" => d.chain[j].of = 0
LEMMA ChainRight ==
  ASSUME NEW c, IdsLinked(c), NEW m, Sighted(m), NEW d, d.m = m, d.chain = Chain(c, m)
  PROVE  Keeps(d) /\ NamesNoBot(d)
  <1> DEFINE q == Quoted(c, m)
             p == Body(c, m)
             rest == Extra(m) \o Media(m)
             text == TextOf(m)
             first == IF m.quote = 0 THEN 0 ELSE 1
             size == Len(p)
  <1>1. /\ IsList(q) /\ Len(q) = first
        /\ first = 1 => q[1].is = "reply" /\ (Person(m.quote) = SelfPn => q[1].of = 0)
    <2>1. CASE m.quote = 0
      BY <2>1, NoParts DEF Quoted
    <2>2. CASE m.quote # 0
      <3> DEFINE x == [is |-> "reply", of |-> IF IsSelf(c, m.quote) THEN 0 ELSE IdOf(c, m.quote)]
      <3>1. q = <<x>> /\ x.is = "reply"
        BY <2>2 DEF Quoted
      <3>2. ASSUME Person(m.quote) = SelfPn PROVE x.of = 0
        <4>1. m.quote \in Keys /\ c.known \subseteq Lids
          BY <2>2, CacheFields DEF Sighted, IdsLinked, IdsInv
        <4>2. IsSelf(c, m.quote)
          BY <3>2, <4>1, Numbers, SelfIsAccount
        <4> QED
          BY <4>2
      <3> HIDE DEF x
      <3> QED
        BY <2>2, <3>1, <3>2, OnePart
    <2> QED
      BY <2>1, <2>2
  <1>2. PICK k : BodyHolds(m, text, k, p)
    BY BodyRight
  <1>3. IsList(p) /\ size = k + Len(text) /\ k \in Nat /\ Len(text) \in Nat /\ IsList(text)
    BY <1>2, TextIsList DEF BodyHolds, IsList
  <1>4. /\ IsList(Extra(m)) /\ \A j \in 1 .. Len(Extra(m)) : Extra(m)[j].is = "extra"
        /\ Len(Extra(m)) \in Nat
    BY NoParts, OnePart DEF Extra
  <1>5. IsList(Media(m)) /\ \A j \in 1 .. Len(Media(m)) : Media(m)[j].is \in {"file", "missing"}
    <2>1. DOMAIN m.media = 1 .. Len(m.media) /\ Len(m.media) \in Nat
      BY LenProperties DEF Sighted
    <2>2. Media(m) = [i \in 1 .. Len(m.media) |-> Media(m)[i]]
      BY <2>1 DEF Media
    <2>3. IsList(Media(m)) /\ Len(Media(m)) = Len(m.media)
      BY <2>1, <2>2, ListFromPlaces
    <2>4. \A j \in 1 .. Len(m.media) : Media(m)[j].is \in {"file", "missing"}
      BY <2>1 DEF Media
    <2> QED
      BY <2>3, <2>4
  <1>6. Follow(q, p, rest, d.chain)
    <2>1. d.chain = q \o p \o Extra(m) \o Media(m)
      BY DEF Chain
    <2> HIDE DEF q, p
    <2> QED
      BY <2>1, <1>1, <1>3, <1>4, <1>5, PartsFollow
  <1>7. IsList(d.chain) /\ Len(d.chain) = first + size + Len(rest) /\ Len(rest) \in Nat
    BY <1>1, <1>6 DEF Follow, IsList
  <1>8. \A i \in 1 .. first : d.chain[i] = q[i]
    BY <1>1, <1>6 DEF Follow
  <1>9. \A i \in 1 .. size : d.chain[first + i] = p[i]
    BY <1>1, <1>6 DEF Follow
  <1>10. \A i \in 1 .. Len(rest) : d.chain[first + size + i] = rest[i]
    BY <1>1, <1>6 DEF Follow
  <1>11. \A i \in 1 .. Len(rest) : rest[i].is \in {"extra", "file", "missing"}
    <2>1. Joined(Extra(m), Media(m), rest)
      BY <1>4, <1>5, ListsJoined
    <2>2. ASSUME NEW i \in 1 .. Len(rest) PROVE rest[i].is \in {"extra", "file", "missing"}
      <3>1. CASE i \in 1 .. Len(Extra(m))
        BY <2>1, <3>1, <1>4 DEF Joined
      <3>2. CASE i - Len(Extra(m)) \in 1 .. Len(Media(m))
        <4>1. i = Len(Extra(m)) + (i - Len(Extra(m)))
          BY <1>4
        <4>2. rest[Len(Extra(m)) + (i - Len(Extra(m)))] = Media(m)[i - Len(Extra(m))]
          BY <3>2, <2>1 DEF Joined
        <4> QED
          BY <4>1, <4>2, <3>2, <1>5
      <3> QED
        BY <3>1, <3>2, <2>1, <1>4, <1>5 DEF Joined, IsList
    <2> QED
      BY <2>2
  <1>12. first \in {0, 1}
    OBVIOUS
  <1> DEFINE part(j) == d.chain[first + j]
  <1> HIDE DEF q, p, rest, text, first, size
  <1>13. /\ \A i \in 1 .. k : part(i).is = "at"
         /\ \A n \in 1 .. Len(text) : WordKept(m, text[n], part(k + n)) /\ part(k + n).is \in {"at", "word"}
         /\ \A x \in ToSet(m.at) : (x = All /\ text = <<>>) \/ \E i \in 1 .. size : Shows(part(i), x)
    <2>1. ASSUME NEW i \in 1 .. k PROVE part(i).is = "at"
      <3>1. i \in 1 .. size
        BY <1>3
      <3> QED
        BY <3>1, <1>2, <1>9 DEF BodyHolds
    <2>2. ASSUME NEW n \in 1 .. Len(text)
          PROVE  WordKept(m, text[n], part(k + n)) /\ part(k + n).is \in {"at", "word"}
      <3>1. k + n \in 1 .. size
        BY <1>3
      <3> QED
        BY <3>1, <1>2, <1>9 DEF BodyHolds
    <2>3. ASSUME NEW x \in ToSet(m.at), ~(x = All /\ text = <<>>)
          PROVE  \E i \in 1 .. size : Shows(part(i), x)
      BY <2>3, <1>2, <1>3, <1>9 DEF BodyHolds
    <2> QED
      BY <2>1, <2>2, <2>3
  <1>14. ASSUME NEW j \in 1 .. Len(text), NEW n \in 1 .. Len(text), j < n, part(k + j) = part(k + n),
                part(k + n).is = "at", Once(m, part(k + n)), NEW f \in 1 .. k, NEW a \in DOMAIN m.at,
                Shows(part(f), m.at[a]), Once(m, part(f)), m.at[a] \in Keys
         PROVE  text[n] \notin {NameOf[m.at[a]]} \ {0}
    <2>1. k + j \in 1 .. size /\ k + n \in 1 .. size /\ f \in 1 .. size
      BY <1>3
    <2>2. part(k + j) = p[k + j] /\ part(k + n) = p[k + n] /\ part(f) = p[f]
      BY <2>1, <1>9
    <2> HIDE DEF part
    <2> QED
      BY <2>2, <1>2, <1>14 DEF BodyHolds
  <1>15. Keeps(d)
    <2>1. text = IF d.m.extra THEN <<>> ELSE Shown(d.m)
      BY DEF text, TextOf
    <2>2. DOMAIN text = 1 .. Len(text) /\ DOMAIN rest = 1 .. Len(rest)
      <3>1. IsList(rest)
        BY <1>4, <1>5, ListsJoined DEF rest, Joined
      <3> QED
        BY <3>1, <1>3 DEF IsList
    <2>3. Len(d.chain) - first - Len(rest) = size /\ size - Len(text) = k
      BY <1>3, <1>7, <1>12
    <2>4. first = IF d.m.quote = 0 THEN 0 ELSE 1
      BY DEF first
    <2>5. rest = Extra(d.m) \o Media(d.m)
      BY DEF rest
    <2>6. first = 1 => d.chain[1].is = "reply"
      BY <1>1, <1>8
    <2>7. k >= 0
      BY <1>3
    <2> DEFINE K(T, F, R, S, L) ==
          LET pt(j) == d.chain[F + j]
          IN /\ F = 1 => d.chain[1].is = "reply"
             /\ L >= 0 /\ \A j \in 1 .. L : pt(j).is = "at"
             /\ \A j \in DOMAIN T : WordKept(m, T[j], pt(L + j))
             /\ \A x \in ToSet(m.at) : (x = All /\ T = <<>>) \/ \E j \in 1 .. S : Shows(pt(j), x)
             /\ \A j, n \in DOMAIN T :
                  j < n /\ pt(L + j) = pt(L + n) /\ pt(L + n).is = "at" /\ Once(m, pt(L + n)) =>
                    \A f \in 1 .. L, a \in DOMAIN m.at :
                      Shows(pt(f), m.at[a]) /\ Once(m, pt(f)) /\ m.at[a] \in Keys =>
                        T[n] \notin {NameOf[m.at[a]]} \ {0}
             /\ \A j \in DOMAIN R : d.chain[F + S + j] = R[j]
    <2>8. K(text, first, rest, size, k)
      BY <2>2, <2>6, <2>7, <1>10, <1>13, <1>14
    <2>9. Keeps(d) <=> K(text, first, rest, Len(d.chain) - first - Len(rest), Len(d.chain) - first - Len(rest) - Len(text))
      BY <2>1, <2>4, <2>5 DEF Keeps
    <2> HIDE DEF K
    <2> QED
      BY <2>3, <2>8, <2>9
  <1>16. NamesNoBot(d)
    <2>1. SUFFICES ASSUME Person(m.quote) = SelfPn, NEW j \in DOMAIN d.chain, d.chain[j].is = "reply"
                   PROVE  d.chain[j].of = 0
      BY DEF NamesNoBot
    <2>2. j \in 1 .. first + size + Len(rest) /\ size \in Nat
      BY <1>3, <1>7 DEF IsList
    <2>3. CASE j \in 1 .. first
      BY <2>1, <2>3, <1>1, <1>8, <1>12
    <2>4. CASE j - first \in 1 .. k
      <3>1. j = first + (j - first) /\ part(j - first).is = "at"
        BY <2>2, <2>4, <1>12, <1>13
      <3> QED
        BY <3>1, <2>1
    <2>5. CASE j - first - k \in 1 .. Len(text)
      <3>1. j = first + (k + (j - first - k))
        BY <2>2, <1>3, <1>12
      <3>2. part(k + (j - first - k)).is \in {"at", "word"}
        BY <2>5, <1>13
      <3> QED
        BY <3>1, <3>2, <2>1
    <2>6. CASE j - first - size \in 1 .. Len(rest)
      <3>1. j = first + size + (j - first - size)
        BY <2>2, <1>12
      <3>2. d.chain[first + size + (j - first - size)].is \in {"extra", "file", "missing"}
        BY <2>6, <1>10, <1>11
      <3> QED
        BY <3>1, <3>2, <2>1
    <2> QED
      BY <2>2, <2>3, <2>4, <2>5, <2>6, <1>3, <1>7, <1>12
  <1> QED
    BY <1>15, <1>16
-----------------------------------------------------------------------------
(* Every message that is let in was looked at with a cache that links the  *)
(* account, and is settled with what was made of it then.                  *)
Right(d) == RightlyWoken(d) /\ Keeps(d)
DoneInv == \A i \in DOMAIN decided : decided[i].outcome = "committed" => Right(decided[i])
WorkInv(t) ==
  /\ t.pc # "idle" => Addressing(t.m) /\ NumberTold(t.m, t.pn)
  /\ t.pc \in {"admit", "ack"} => Right(t)
MailAddressing == \A i \in DOMAIN mail : Addressing(mail[i])
LookInv == MailAddressing /\ IdsInv(cache) /\ WorkInv(task) /\ DoneInv

\* Right reads four fields.
LEMMA RightFields ==
  ASSUME NEW a, NEW b, a.m = b.m, a.rule = b.rule, a.woken = b.woken, a.chain = b.chain
  PROVE  Right(a) <=> Right(b)
  <1>1. RightlyWoken(a) <=> RightlyWoken(b)
    BY DEF RightlyWoken, Calls
  <1>2. Keeps(a) <=> Keeps(b)
    BY DEF Keeps
  <1> QED
    BY <1>1, <1>2 DEF Right

LEMMA SettleKeeps ==
  ASSUME NEW t, NEW outcome, decided \in Seq(ToSet(decided)), DoneInv, Settle(t, outcome),
         outcome = "committed" => Right(t)
  PROVE  DoneInv' /\ WorkInv(task')
  <1> DEFINE r == [m |-> t.m, outcome |-> outcome, woken |-> t.woken, pn |-> t.pn, known |-> t.known,
                   heard |-> t.heard, rule |-> t.rule, chain |-> t.chain]
  <1>1. task' = Idle /\ decided' = Append(decided, r)
    BY DEF Settle
  <1>2. Right(r) <=> Right(t)
    <2>1. r.m = t.m /\ r.rule = t.rule /\ r.woken = t.woken /\ r.chain = t.chain
      OBVIOUS
    <2> HIDE DEF r
    <2> QED
      BY <2>1, RightFields
  <1>3. r.outcome = outcome
    OBVIOUS
  <1> HIDE DEF r
  <1>4. decided \in Seq(ToSet(decided) \cup {r}) /\ r \in ToSet(decided) \cup {r}
    <2>1. \A i \in 1 .. Len(decided) : decided[i] \in ToSet(decided)
      BY LenProperties DEF ToSet
    <2> QED
      BY <2>1
  <1>5. /\ DOMAIN decided' = 1 .. Len(decided) + 1
        /\ Len(decided) \in Nat /\ DOMAIN decided = 1 .. Len(decided)
        /\ decided'[Len(decided) + 1] = r
        /\ \A i \in 1 .. Len(decided) : decided'[i] = decided[i]
    BY <1>1, <1>4, AppendProperties, LenProperties
  <1>6. ASSUME NEW i \in DOMAIN decided', decided'[i].outcome = "committed"
        PROVE  Right(decided'[i])
    <2>1. CASE i = Len(decided) + 1
      BY <2>1, <1>2, <1>3, <1>5, <1>6
    <2>2. CASE i \in DOMAIN decided
      BY <2>2, <1>5, <1>6 DEF DoneInv
    <2> QED
      BY <2>1, <2>2, <1>5
  <1>7. DoneInv'
    BY <1>6 DEF DoneInv
  <1>8. WorkInv(task')
    BY <1>1 DEF WorkInv, Idle
  <1> QED
    BY <1>7, <1>8

LEMMA WaitKeeps ==
  ASSUME NEW t, NEW pc, DoneInv, Wait(t, pc), DOMAIN t = Fields, pc # "idle",
         Addressing(t.m), NumberTold(t.m, t.pn), pc \in {"admit", "ack"} => Right(t)
  PROVE  DoneInv' /\ WorkInv(task')
  <1> DEFINE u == [t EXCEPT !.pc = pc]
  <1>1. task' = u /\ decided' = decided
    BY DEF Wait
  <1>2. u.pc = pc /\ u.m = t.m /\ u.pn = t.pn /\ u.rule = t.rule /\ u.woken = t.woken /\ u.chain = t.chain
    BY DEF Fields
  <1> HIDE DEF u
  <1>3. Right(u) <=> Right(t)
    BY <1>2, RightFields
  <1>4. DoneInv'
    BY <1>1 DEF DoneInv
  <1>5. WorkInv(u)
    BY <1>2, <1>3 DEF WorkInv
  <1> QED
    BY <1>1, <1>4, <1>5

LEMMA HandleKeeps ==
  ASSUME NEW c, IdsLinked(c), NEW t, DOMAIN t = Fields, Sighted(t.m), Addressing(t.m),
         NumberTold(t.m, t.pn), decided \in Seq(ToSet(decided)), DoneInv, Handle(c, t)
  PROVE  IdsInv(cache') /\ DoneInv' /\ WorkInv(task')
  <1> DEFINE done == [t EXCEPT !.chain = Chain(c, t.m), !.rule = config, !.known = c.known,
                               !.heard = c.known, !.woken = Wakes(c, t.m, config)]
  <1>1. DOMAIN done = Fields /\ done.m = t.m /\ done.pn = t.pn /\ done.rule = config
        /\ done.chain = Chain(c, t.m) /\ done.woken = Wakes(c, t.m, config)
    BY DEF Fields
  <1>2. cache' = c
    BY DEF Handle
  <1>3. \/ Settle(t, "ignored") \/ Settle(t, "recorded")
        \/ Settle(done, "refused") \/ Settle(done, "committed")
        \/ Wait(done, "admit") \/ Wait(done, "ack")
    BY DEF Handle
  <1> HIDE DEF done
  <1>4. Right(done)
    <2>1. done.woken = Calls(done)
      BY <1>1, WakesIfCalled
    <2>2. Keeps(done) /\ NamesNoBot(done)
      BY <1>1, ChainRight
    <2> QED
      BY <2>1, <2>2 DEF Right, RightlyWoken, NamesNoBot
  <1>5. DoneInv' /\ WorkInv(task')
    <2>1. CASE Settle(t, "ignored") \/ Settle(t, "recorded")
      BY <2>1, SettleKeeps
    <2>2. CASE Settle(done, "refused") \/ Settle(done, "committed")
      BY <2>2, <1>4, SettleKeeps
    <2>3. CASE Wait(done, "admit") \/ Wait(done, "ack")
      BY <2>3, <1>1, <1>4, WaitKeeps
    <2> QED
      BY <1>3, <2>1, <2>2, <2>3
  <1> QED
    BY <1>2, <1>5 DEF IdsLinked

LEMMA ConvertKeeps ==
  ASSUME NEW c, IdsInv(c), NEW t, DOMAIN t = Fields, Sighted(t.m), Addressing(t.m),
         NumberTold(t.m, t.pn), decided \in Seq(ToSet(decided)), DoneInv, Convert(c, t)
  PROVE  IdsInv(cache') /\ DoneInv' /\ WorkInv(task')
  <1>1. CASE cache' = c /\ Wait(t, "chat")
    BY <1>1, WaitKeeps
  <1>2. CASE Handle(Seen(c, t.m, t.pn), t)
    <2>1. IdsLinked(Seen(c, t.m, t.pn))
      BY SeenIds
    <2> QED
      BY <1>2, <2>1, HandleKeeps
  <1> QED
    BY <1>1, <1>2 DEF Convert

LEMMA TakeKeeps ==
  ASSUME AdmitInv, LookInv, Take
  PROVE  IdsInv(cache') /\ DoneInv' /\ WorkInv(task')
  <1> DEFINE m == mail[next]
             l == m.from[1]
             p == Here(cache, l, m.from[2])
             t == [Idle EXCEPT !.m = m, !.pn = p, !.rule = config]
             c == IF l # 0 /\ l \notin cache.known THEN Remember(cache, l, p) ELSE cache
  <1>1. Sighted(m) /\ Addressing(m)
    BY DEF AdmitInv, MailInv, LookInv, MailAddressing, Take
  <1>2. DOMAIN t = Fields /\ t.m = m /\ t.pn = p
    BY DEF Idle, Fields
  <1>3. l \in Lids \cup {0} /\ m.from[2] \in Pns \cup {0} /\ (l = 0 => m.from[2] # 0)
        /\ (l # 0 => Jid(m.from) = l) /\ (m.from[2] # 0 => Person(Jid(m.from)) = m.from[2])
    BY <1>1, JidIsKey DEF Sighted
  <1>4. /\ p \in {0, Person(Jid(m.from))} /\ (l = 0 => p # 0)
        /\ l # 0 => p \in {0, Owner[l]}
    <2>1. l # 0 => l \in Lids /\ Person(Jid(m.from)) = Owner[l]
      BY <1>3, Numbers
    <2> QED
      BY <1>3, <2>1 DEF Here, PnOf
  <1>5. Person(Jid(m.from)) = SelfPn => p # 0
    <2>1. Person(Jid(m.from)) = SelfPn => m.from[2] = SelfPn
      BY <1>1, OwnMessage
    <2> QED
      BY <2>1, Account DEF Here
  <1>6. NumberTold(m, p)
    BY <1>4, <1>5 DEF NumberTold
  <1>7. p # 0 => IdsInv(c)
    BY <1>3, <1>4, RememberIds DEF LookInv
  <1>8. \/ Settle(t, "ignored") /\ UNCHANGED cache
        \/ p = 0 /\ Wait(t, "sender") /\ UNCHANGED cache
        \/ p # 0 /\ Convert(c, t)
    BY DEF Take
  <1>9. decided \in Seq(ToSet(decided)) /\ DoneInv /\ IdsInv(cache)
    BY DEF AdmitInv, DecidedInv, LookInv
  <1> HIDE DEF m, l, p, t, c
  <1>10. CASE Settle(t, "ignored") /\ UNCHANGED cache
    BY <1>9, <1>10, SettleKeeps
  <1>11. CASE p = 0 /\ Wait(t, "sender") /\ UNCHANGED cache
    BY <1>1, <1>2, <1>6, <1>9, <1>11, WaitKeeps
  <1>12. CASE p # 0 /\ Convert(c, t)
    BY <1>1, <1>2, <1>6, <1>7, <1>9, <1>12, ConvertKeeps
  <1> QED
    BY <1>8, <1>10, <1>11, <1>12

LEMMA AskKeeps ==
  ASSUME AdmitInv, LookInv, NEW told \in BOOLEAN, AskSender(told) \/ AskChat(told) \/ AskAdmit(told)
  PROVE  IdsInv(cache') /\ DoneInv' /\ WorkInv(task')
  <1>1. /\ decided \in Seq(ToSet(decided)) /\ DoneInv /\ IdsInv(cache)
        /\ DOMAIN task = Fields /\ task.pc # "idle" /\ Sighted(task.m)
        /\ Addressing(task.m) /\ NumberTold(task.m, task.pn)
    BY DEF AdmitInv, DecidedInv, LookInv, WorkInv, TaskInv, Told, AskSender, AskChat, AskAdmit
  <1> DEFINE l == task.m.from[1]
  <1>2. ASSUME l \in Lids PROVE Person(Jid(task.m.from)) = Owner[l] /\ Owner[l] # 0
    BY <1>1, <1>2, JidIsKey, Numbers DEF Sighted
  <1>3. CASE AskSender(told)
    <2> DEFINE t == [task EXCEPT !.pn = Owner[l]]
    <2>1. l \in Lids
      BY <1>3 DEF AskSender, AdmitInv, TaskInv
    <2>2. CASE told
      <3>1. Convert(Remember(cache, l, Owner[l]), t)
        BY <1>3, <2>2 DEF AskSender
      <3>2. DOMAIN t = Fields /\ t.m = task.m /\ t.pn = Owner[l]
        BY <1>1 DEF Fields
      <3>3. IdsInv(Remember(cache, l, Owner[l]))
        BY <1>1, <2>1, RememberIds
      <3> HIDE DEF t, l
      <3>4. NumberTold(t.m, t.pn)
        BY <1>2, <2>1, <3>2 DEF NumberTold
      <3> QED
        BY <1>1, <3>1, <3>2, <3>3, <3>4, ConvertKeeps
    <2>3. CASE ~told
      <3>1. Convert(cache, task)
        BY <1>3, <2>3 DEF AskSender
      <3> QED
        BY <1>1, <3>1, ConvertKeeps
    <2> QED
      BY <2>2, <2>3
  <1>4. CASE AskChat(told)
    <2> DEFINE k == task.m.chat[1]
               c == IF told THEN Remember(cache, k, Owner[k]) ELSE cache
    <2>1. k \in Lids /\ Handle(Seen(c, task.m, task.pn), task)
      BY <1>4 DEF AskChat, AdmitInv, TaskInv
    <2>2. IdsInv(c)
      BY <1>1, <2>1, RememberIds
    <2> HIDE DEF c
    <2>3. IdsLinked(Seen(c, task.m, task.pn))
      BY <1>1, <2>2, SeenIds
    <2> QED
      BY <1>1, <2>1, <2>3, HandleKeeps
  <1>5. CASE AskAdmit(told)
    <2> DEFINE u == [task EXCEPT !.pn = Owner[l], !.heard = cache.known]
    <2>1. l \in Lids /\ Right(task)
      BY <1>5 DEF AskAdmit, AdmitInv, TaskInv, LookInv, WorkInv
    <2>2. DOMAIN u = Fields /\ u.m = task.m /\ u.pn = Owner[l] /\ u.rule = task.rule
          /\ u.woken = task.woken /\ u.chain = task.chain
      BY <1>1 DEF Fields
    <2>3. \/ cache' = Remember(cache, l, Owner[l]) /\ (Wait(u, "ack") \/ Settle(u, "committed"))
          \/ cache' = cache /\ (Settle(u, "refused") \/ Settle(task, "refused"))
      BY <1>5 DEF AskAdmit
    <2> HIDE DEF u, l
    <2>4. IdsInv(cache')
      BY <1>1, <2>1, <2>3, RememberIds
    <2>5. Right(u)
      BY <2>1, <2>2, RightFields
    <2>6. NumberTold(u.m, u.pn)
      BY <1>2, <2>1, <2>2 DEF NumberTold
    <2>7. CASE Wait(u, "ack")
      BY <1>1, <2>2, <2>4, <2>5, <2>6, <2>7, WaitKeeps
    <2>8. CASE Settle(u, "committed") \/ Settle(u, "refused")
      BY <1>1, <2>4, <2>5, <2>8, SettleKeeps
    <2>9. CASE Settle(task, "refused")
      BY <1>1, <2>4, <2>9, SettleKeeps
    <2> QED
      BY <2>3, <2>7, <2>8, <2>9
  <1> QED
    BY <1>3, <1>4, <1>5

LEMMA EndKeeps ==
  ASSUME AdmitInv, LookInv, Break \/ \E ok \in BOOLEAN : Acknowledge(ok)
  PROVE  IdsInv(cache') /\ DoneInv' /\ WorkInv(task')
  <1>1. decided \in Seq(ToSet(decided)) /\ DoneInv /\ IdsInv(cache) /\ WorkInv(task) /\ cache' = cache
    BY DEF AdmitInv, DecidedInv, LookInv, Break, Acknowledge
  <1>2. CASE UNCHANGED <<task, decided>>
    BY <1>1, <1>2 DEF DoneInv, WorkInv
  <1>3. CASE Settle(task, "lost")
    BY <1>1, <1>3, SettleKeeps
  <1>4. CASE task.pc = "ack" /\ Settle(task, "committed")
    <2>1. Right(task)
      BY <1>1, <1>4 DEF WorkInv
    <2> QED
      BY <1>1, <1>4, <2>1, SettleKeeps
  <1> QED
    BY <1>2, <1>3, <1>4 DEF Break, Acknowledge

\* A group that another task lists never tells the account's LID without its number.
LEMMA ListedKeeps ==
  ASSUME LookInv, NEW l \in Lids, GroupListed(l)
  PROVE  IdsInv(cache') /\ DoneInv' /\ WorkInv(task')
  <1>1. Sides1(cache, l, Owner[l])
    BY Numbers DEF Sides1
  <1>2. IdsInv(cache')
    BY <1>1, ProjectIds DEF GroupListed, LookInv
  <1> QED
    BY <1>2 DEF GroupListed, LookInv, DoneInv, WorkInv

LEMMA LookInit == Init => LookInv
  <1> SUFFICES ASSUME Init PROVE LookInv
    OBVIOUS
  <1>1. MailAddressing
    BY AccountAssumption DEF Init, MailAddressing
  <1>2. IdsInv(cache)
    <2>1. cache = [Off EXCEPT !.up = TRUE]
      BY DEF Init
    <2>2. Nothing \in Projections
      BY DEF Nothing, Projections
    <2>3. cache \in Caches
      BY <2>1, <2>2 DEF Off, Caches, Files
    <2>4. \A k \in Keys : cache.proj[k].order = 0
      BY <2>1 DEF Off, Nothing
    <2> QED
      BY <2>3, <2>4 DEF IdsInv
  <1>3. WorkInv(task)
    BY DEF Init, WorkInv, Idle
  <1>4. DoneInv
    <2>1. decided = <<>> /\ DOMAIN decided = {}
      BY DEF Init
    <2> QED
      BY <2>1 DEF DoneInv
  <1> QED
    BY <1>1, <1>2, <1>3, <1>4 DEF LookInv

LEMMA LookStep == AdmitInv /\ LookInv /\ [Next]_vars => LookInv'
  <1> SUFFICES ASSUME AdmitInv, LookInv, [Next]_vars PROVE LookInv'
    OBVIOUS
  <1>1. MailAddressing'
    <2>1. mail' = mail
      BY DEF Next, Work, Take, AskSender, AskChat, AskAdmit, Acknowledge, GroupListed, Reload, Break,
             Tick, Query, stream, vars
    <2> QED
      BY <2>1 DEF LookInv, MailAddressing
  <1>2. IdsInv(cache') /\ DoneInv' /\ WorkInv(task')
    <2>1. CASE Take
      BY <2>1, TakeKeeps
    <2>2. CASE \E told \in BOOLEAN : AskSender(told) \/ AskChat(told) \/ AskAdmit(told)
      BY <2>2, AskKeeps
    <2>3. CASE Break \/ \E ok \in BOOLEAN : Acknowledge(ok)
      BY <2>3, EndKeeps
    <2>4. CASE \E l \in Lids : GroupListed(l)
      BY <2>4, ListedKeeps
    <2>5. CASE UNCHANGED <<cache, task, decided>>
      BY <2>5 DEF LookInv, DoneInv
    <2>6. CASE Tick \/ Query \/ \E cfg \in Reloaded : Reload(cfg)
      BY <2>5, <2>6 DEF Tick, Query, Reload
    <2> QED
      BY <2>1, <2>2, <2>3, <2>4, <2>5, <2>6 DEF Next, Work, vars
  <1> QED
    BY <1>1, <1>2 DEF LookInv

LEMMA LookRight == Spec => []LookInv
  <1>1. Spec => []AdmitInv
    BY AdmitInit, AdmitStep, PTL DEF Spec
  <1> QED
    BY <1>1, LookInit, LookStep, PTL DEF Spec

\* Whatever the account is told to be and however its identities are learnt: a message that is
\* let in wakes the bot exactly when it calls it, and never by quoting it (_message_mentions_self,
\* handle_msg).
THEOREM WokenRight == Spec => []WokenByCall
  <1>1. LookInv => WokenByCall
    BY DEF LookInv, DoneInv, Right, WokenByCall
  <1> QED
    BY <1>1, LookRight, PTL

\* However many mentions and words a message has, and whatever names its persons share: the chain
\* of one that is let in holds its parts in order, none left out (_message_chain,
\* _ordered_text_components).
THEOREM ChainWhole == Spec => []ChainKeepsMessage
  <1>1. LookInv => ChainKeepsMessage
    BY DEF LookInv, DoneInv, Right, ChainKeepsMessage
  <1> QED
    BY <1>1, LookRight, PTL
=============================================================================
