---------------------- MODULE IdentityProjectionProofs ----------------------
(***************************************************************************)
(* Proofs about IdentityProjection for any identities, links and adapters: *)
(* all that an adapter knows of a person has one public ID, no save takes  *)
(* a committed projection back, and a first ID stays while one adapter     *)
(* runs at a time.                                                         *)
(***************************************************************************)
EXTENDS IdentityProjection, FiniteSetTheorems, WellFoundedInduction, TLAPS

-----------------------------------------------------------------------------
(* Sets of numbers: the library states the least element by well-          *)
(* foundedness; Min, Max and Earliest choose it.                           *)
LEMMA LeastExists ==
  ASSUME NEW S, S \subseteq Nat, S # {}
  PROVE  \E x \in S : \A y \in S : x <= y
  <1>1. PICK x \in S : \A y \in S : ~(<<y, x>> \in OpToRel(<, Nat))
    <2> HIDE DEF OpToRel
    <2> QED
      BY NatLessThanWellFounded, WFMin
  <1>2. ASSUME NEW y \in S PROVE x <= y
    <2>1. ~(y < x)
      BY <1>1 DEF OpToRel
    <2> QED
      BY <2>1
  <1> QED
    BY <1>2

LEMMA MinType ==
  ASSUME NEW S, S \subseteq Nat, S # {}
  PROVE  Min(S) \in S /\ \A y \in S : Min(S) <= y
  BY LeastExists DEF Min

\* The least of the upper bounds of a set is its greatest element.
LEMMA MaxType ==
  ASSUME NEW S, S \subseteq Nat, S # {}, NEW n \in Nat, \A y \in S : y <= n
  PROVE  Max(S) \in S /\ \A y \in S : y <= Max(S)
  <1> DEFINE U == {u \in Nat : \A y \in S : y <= u}
  <1>1. PICK u \in U : \A v \in U : u <= v
    <2>1. U \subseteq Nat /\ n \in U
      OBVIOUS
    <2> HIDE DEF U
    <2> QED
      BY <2>1, LeastExists
  <1>2. u \in S
    <2> SUFFICES ASSUME u \notin S PROVE FALSE
      OBVIOUS
    <2>1. \A y \in S : y < u
      BY <1>1
    <2>2. u > 0
      <3>1. PICK y \in S : TRUE
        OBVIOUS
      <3>2. y \in Nat /\ u \in Nat /\ y < u
        BY <2>1, <3>1
      <3> QED
        BY <3>2
    <2>3. u - 1 \in U
      BY <2>1, <2>2
    <2> QED
      BY <1>1, <2>3
  <1>3. \A y \in S : u >= y
    BY <1>1
  <1> QED
    BY <1>2, <1>3 DEF Max

\* A minimal set of keys without a bound would lose its bound with one key.
LEMMA OrdersBounded ==
  ASSUME NEW K, IsFiniteSet(K), NEW f, \A k \in K : f[k].order \in Nat
  PROVE  \E n \in Nat : \A k \in K : f[k].order <= n
  <1> DEFINE Bounded(J) == \E n \in Nat : \A k \in J : f[k].order <= n
             T == {J \in FiniteSubsetsOf(K) : ~Bounded(J)}
  <1> SUFFICES ASSUME T # {} PROVE FALSE
    BY FS_Subset DEF FiniteSubsetsOf
  <1>1. PICK J \in T : \A I \in T : ~(<<I, J>> \in StrictSubsetOrdering(K))
    <2>1. T \subseteq FiniteSubsetsOf(K)
      OBVIOUS
    <2> HIDE DEF T
    <2> QED
      BY <2>1, FS_StrictSubsetOrderingWellFounded, WFMin
  <1>2. J \in SUBSET K /\ IsFiniteSet(J) /\ ~Bounded(J)
    BY DEF FiniteSubsetsOf
  <1>3. PICK x \in J : TRUE
    BY <1>2
  <1>4. J \ {x} \in FiniteSubsetsOf(K)
    BY <1>2, FS_RemoveElement DEF FiniteSubsetsOf
  <1>5. Bounded(J \ {x})
    <2>1. <<J \ {x}, J>> \in StrictSubsetOrdering(K)
      BY <1>2, <1>3 DEF StrictSubsetOrdering
    <2> QED
      BY <1>1, <1>4, <2>1
  <1>6. PICK n \in Nat : \A k \in J \ {x} : f[k].order <= n
    BY <1>5
  <1>7. f[x].order \in Nat
    BY <1>2, <1>3
  <1>8. Bounded(J)
    <2>1. CASE f[x].order <= n
      BY <1>6, <2>1
    <2>2. CASE n < f[x].order
      <3>1. \A k \in J : f[k].order <= f[x].order
        BY <1>2, <1>6, <1>7, <2>2
      <3> QED
        BY <3>1, <1>7
    <2> QED
      BY <1>7, <2>1, <2>2
  <1> QED
    BY <1>2, <1>8

LEMMA KeysType ==
  /\ Keys \subseteq Nat \ {0} /\ IsFiniteSet(Keys) /\ 0 \notin Keys
  /\ Lids \subseteq Keys /\ Pns \subseteq Keys /\ Keys = Lids \cup Pns
  /\ \A l \in Lids : l \notin Pns /\ Owner[l] \in Pns
  /\ \A l \in Lids, p \in Pns : p < l
  <1>1. /\ Keys \subseteq Nat \ {0} /\ IsFiniteSet(Keys) /\ 0 \notin Keys
        /\ Lids \subseteq Keys /\ Pns \subseteq Keys /\ Keys = Lids \cup Pns
    BY IdentityAssumption DEF Keys
  <1>2. \A l \in Lids, p \in Pns : p < l
    BY IdentityAssumption
  <1>3. ASSUME NEW l \in Lids PROVE l \notin Pns /\ Owner[l] \in Pns
    <2>1. Owner[l] \in Pns
      BY IdentityAssumption
    <2>2. l \in Nat /\ ~(l < l)
      BY <1>1
    <2> QED
      BY <1>2, <2>1, <2>2
  <1> QED
    BY <1>1, <1>2, <1>3

LEMMA ProjectionsType ==
  /\ \A x \in Projections : x.id \in Nat /\ x.order \in Nat
  /\ Nothing \in Projections /\ Nothing.order = 0
  <1>1. ASSUME NEW x \in Projections PROVE x.id \in Nat /\ x.order \in Nat
    <2>1. x.id \in Keys \cup {0} /\ x.order \in Nat
      BY DEF Projections
    <2>2. Keys \subseteq Nat /\ 0 \in Nat
      BY KeysType
    <2> QED
      BY <2>1, <2>2
  <1> QED
    BY <1>1 DEF Projections, Nothing

\* Of those with the least order, the one with the least ID.
LEMMA EarliestType ==
  ASSUME NEW S, S \subseteq Projections, S # {}
  PROVE  Earliest(S) \in S /\ \A y \in S : Before(Earliest(S), y)
  <1>1. PICK x \in S : \A y \in S : x.order <= y.order
    <2>1. {y.order : y \in S} \subseteq Nat /\ {y.order : y \in S} # {}
      BY ProjectionsType
    <2>2. PICK n \in {y.order : y \in S} : \A k \in {y.order : y \in S} : n <= k
      BY <2>1, LeastExists
    <2> QED
      BY <2>2
  <1> DEFINE R == {y \in S : y.order = x.order}
  <1>2. PICK z \in R : \A y \in R : z.id <= y.id
    <2>1. {y.id : y \in R} \subseteq Nat /\ {y.id : y \in R} # {}
      BY ProjectionsType
    <2>2. PICK n \in {y.id : y \in R} : \A k \in {y.id : y \in R} : n <= k
      BY <2>1, LeastExists
    <2> QED
      BY <2>2
  <1>3. z \in S /\ \A y \in S : Before(z, y)
    <2>1. \A y \in S : y.order \in Nat
      BY ProjectionsType
    <2> QED
      BY <1>1, <1>2, <2>1 DEF Before
  <1> QED
    BY <1>3 DEF Earliest

\* An order of projections.
LEMMA BeforeOrder ==
  ASSUME NEW x \in Projections, NEW y \in Projections
  PROVE  /\ Before(x, x)
         /\ Before(x, y) /\ Before(y, x) => x.id = y.id
         /\ \A z \in Projections : Before(x, y) /\ Before(y, z) => Before(x, z)
  <1>1. \A z \in Projections : z.id \in Nat /\ z.order \in Nat
    BY ProjectionsType
  <1> QED
    BY <1>1 DEF Before

LEMMA NewestType ==
  ASSUME NEW f \in Files
  PROVE  Newest(f) \in Nat
  <1> DEFINE S == {0} \cup {f[k].order : k \in Keys}
  <1>1. \A k \in Keys : f[k].order \in Nat
    BY ProjectionsType DEF Files
  <1>2. PICK n \in Nat : \A k \in Keys : f[k].order <= n
    BY <1>1, KeysType, OrdersBounded
  <1>3. S \subseteq Nat /\ S # {} /\ \A y \in S : y <= n
    BY <1>1, <1>2
  <1>4. Max(S) \in S
    <2> HIDE DEF S
    <2> QED
      BY <1>3, MaxType
  <1> QED
    BY <1>3, <1>4 DEF Newest

LEMMA MaxPair ==
  ASSUME NEW m \in Nat, NEW n \in Nat
  PROVE  Max({m, n}) \in Nat
  <1>1. {m, n} \subseteq Nat /\ {m, n} # {} /\ m + n \in Nat /\ \A y \in {m, n} : y <= m + n
    OBVIOUS
  <1>2. Max({m, n}) \in {m, n}
    BY <1>1, MaxType
  <1> QED
    BY <1>2
-----------------------------------------------------------------------------
(* The invariant: of the identities of one person that a cache has linked, *)
(* the number always has the earliest projection.                          *)
LedAt(c, l) ==
  c.proj[l].order > 0 => c.proj[Owner[l]].order > 0 /\ Before(c.proj[Owner[l]], c.proj[l])
CacheOK(c) == c \in Caches /\ \A l \in c.known : LedAt(c, l)

LEMMA CacheType ==
  ASSUME NEW c \in Caches
  PROVE  /\ c.known \in SUBSET Lids /\ c.proj \in Files /\ c.next \in Nat
         /\ c.up \in BOOLEAN /\ c.dirty \in BOOLEAN
         /\ \A k \in Keys : c.proj[k] \in Projections /\ c.proj[k].order \in Nat
  <1>1. c.known \in SUBSET Lids /\ c.proj \in Files /\ c.next \in Nat /\ c.up \in BOOLEAN /\ c.dirty \in BOOLEAN
    BY DEF Caches
  <1> QED
    BY <1>1, ProjectionsType DEF Files

LEMMA SetProjectionType ==
  ASSUME NEW c \in Caches, NEW K \in SUBSET Keys, NEW pr \in Projections
  PROVE  /\ SetProjection(c, K, pr) \in Caches
         /\ SetProjection(c, K, pr).known = c.known
         /\ \A k \in Keys : SetProjection(c, K, pr).proj[k] = IF k \in K THEN pr ELSE c.proj[k]
  <1> DEFINE new == [k \in Keys |-> IF k \in K THEN pr ELSE c.proj[k]]
             d == c.dirty \/ \E k \in K : c.proj[k] # pr
             n == Max({c.next, pr.order})
  <1>1. new \in Files
    BY CacheType DEF Files
  <1>2. n \in Nat
    BY CacheType, ProjectionsType, MaxPair
  <1>3. d \in BOOLEAN
    BY CacheType
  <1>4. SetProjection(c, K, pr) = [c EXCEPT !.proj = new, !.next = n, !.dirty = d]
    BY DEF SetProjection
  <1> HIDE DEF new, d, n
  <1>5. /\ SetProjection(c, K, pr) \in Caches
        /\ SetProjection(c, K, pr).known = c.known /\ SetProjection(c, K, pr).proj = new
    BY <1>1, <1>2, <1>3, <1>4 DEF Caches
  <1> QED
    BY <1>5 DEF new

\* What K gets is before all that its keys had, and K holds the number of each of its LIDs.
LEMMA SetProjectionOK ==
  ASSUME NEW c \in Caches, NEW K \in SUBSET Keys, NEW pr \in Projections, pr.order > 0,
         \A l \in c.known \ K : LedAt(c, l),
         \A l \in c.known \cap K : Owner[l] \in K,
         \A k \in K : c.proj[k].order > 0 => Before(pr, c.proj[k])
  PROVE  CacheOK(SetProjection(c, K, pr))
  <1> DEFINE d == SetProjection(c, K, pr)
  <1>1. d \in Caches /\ d.known = c.known /\ \A k \in Keys : d.proj[k] = IF k \in K THEN pr ELSE c.proj[k]
    BY SetProjectionType
  <1> HIDE DEF d
  <1>2. ASSUME NEW l \in c.known PROVE LedAt(d, l)
    <2>1. l \in Keys /\ Owner[l] \in Keys
      BY CacheType, KeysType
    <2>2. CASE l \in K
      BY <1>1, <2>1, <2>2, BeforeOrder DEF LedAt
    <2>3. CASE l \notin K /\ Owner[l] \notin K
      BY <1>1, <2>1, <2>3 DEF LedAt
    <2>4. CASE l \notin K /\ Owner[l] \in K
      <3> SUFFICES ASSUME c.proj[l].order > 0 PROVE Before(pr, c.proj[l])
        BY <1>1, <2>1, <2>4 DEF LedAt
      <3>1. c.proj[Owner[l]].order > 0 /\ Before(c.proj[Owner[l]], c.proj[l])
        BY <2>4 DEF LedAt
      <3>2. Before(pr, c.proj[Owner[l]])
        BY <2>4, <3>1
      <3>3. c.proj[l] \in Projections /\ c.proj[Owner[l]] \in Projections
        BY <2>1, CacheType
      <3> QED
        BY <3>1, <3>2, <3>3, BeforeOrder
    <2> QED
      BY <2>2, <2>3, <2>4
  <1> QED
    BY <1>1, <1>2 DEF CacheOK, d

LEMMA RememberOK ==
  ASSUME NEW c, CacheOK(c), NEW l \in Lids
  PROVE  CacheOK(Remember(c, l, Owner[l])) /\ Remember(c, l, Owner[l]).known = c.known \cup {l}
  <1> DEFINE d == [c EXCEPT !.known = @ \cup {l}]
             K == {l, Owner[l]}
             has == K \cap Held(d.proj)
             S == {d.proj[k] : k \in has}
  <1>1. c \in Caches /\ \A k \in c.known : LedAt(c, k)
    BY DEF CacheOK
  <1>2. d \in Caches /\ d.known = c.known \cup {l} /\ d.proj = c.proj
    BY <1>1 DEF Caches
  <1>3. K \in SUBSET Keys /\ Owner[l] \in Pns
    BY KeysType
  <1>4. \A k \in Keys : k \in Held(d.proj) <=> d.proj[k].order > 0
    BY DEF Held
  <1>5. Remember(c, l, Owner[l]) = IF has = {} THEN d ELSE SetProjection(d, K, Earliest(S))
    BY DEF Remember, Bind
  <1> HIDE DEF d
  <1>6. \A k \in d.known \ {l} : LedAt(d, k)
    BY <1>1, <1>2 DEF LedAt
  <1>7. CASE has = {}
    <2>1. LedAt(d, l)
      BY <1>3, <1>4, <1>7 DEF LedAt
    <2> QED
      BY <1>2, <1>5, <1>6, <1>7, <2>1 DEF CacheOK
  <1>8. CASE has # {}
    <2>1. S \subseteq Projections /\ S # {}
      BY <1>2, <1>3, <1>8, CacheType
    <2>2. Earliest(S) \in S /\ \A y \in S : Before(Earliest(S), y)
      BY <2>1, EarliestType
    <2>3. Earliest(S) \in Projections /\ Earliest(S).order > 0
      BY <2>1, <2>2, <1>3, <1>4
    <2>4. \A k \in K : d.proj[k].order > 0 => Before(Earliest(S), d.proj[k])
      BY <2>2, <1>3, <1>4
    <2>5. \A k \in d.known \cap K : Owner[k] \in K
      BY <1>2, <1>3, KeysType, CacheType
    <2>6. \A k \in d.known \ K : LedAt(d, k)
      BY <1>6
    <2> HIDE DEF S, K, has
    <2> QED
      BY <1>2, <1>3, <1>5, <1>8, <2>3, <2>4, <2>5, <2>6, SetProjectionOK, SetProjectionType
  <1> QED
    BY <1>7, <1>8

\* An identity as it is sighted: one side, or both sides of a true link.
SightOK(l, p) == l \in Lids \cup {0} /\ p \in Pns \cup {0} /\ Sighted(l, p)

LEMMA AliasOK ==
  ASSUME NEW c, CacheOK(c), NEW l, NEW p, SightOK(l, p)
  PROVE  CacheOK(Alias(c, l, p)) /\ (l # 0 /\ p # 0 => l \in Alias(c, l, p).known)
  <1>1. CASE l # 0 /\ p # 0
    <2>1. l \in Lids /\ p = Owner[l]
      BY <1>1 DEF SightOK, Sighted
    <2> QED
      BY <1>1, <2>1, RememberOK DEF Alias
  <1>2. CASE ~(l # 0 /\ p # 0)
    BY <1>2 DEF Alias
  <1> QED
    BY <1>1, <1>2

LEMMA LidForType ==
  ASSUME NEW c \in Caches, NEW p
  PROVE  LidFor(c, p) = 0 \/ (LidFor(c, p) \in c.known /\ Owner[LidFor(c, p)] = p)
  <1>1. LidsOf(c, p) \subseteq Nat
    BY CacheType, KeysType DEF LidsOf
  <1>2. LidsOf(c, p) # {} => LidFor(c, p) \in LidsOf(c, p)
    BY <1>1, MinType DEF LidFor
  <1> QED
    BY <1>2 DEF LidFor, LidsOf

\* What project_public_id looks at for one identity: some sides, with the number of each LID.
LEMMA SidesType ==
  ASSUME NEW c \in Caches, NEW l, NEW p, SightOK(l, p), l # 0 /\ p # 0 => l \in c.known
  PROVE  /\ SidesKnown(c, l, p) \in SUBSET Keys /\ SidesKnown(c, l, p) # {}
         /\ \A k \in c.known \cap SidesKnown(c, l, p) : Owner[k] \in SidesKnown(c, l, p)
  <1>1. 0 \notin Keys /\ Keys = Lids \cup Pns /\ \A k \in Lids : k \notin Pns /\ Owner[k] \in Pns
    BY KeysType
  <1>2. c.known \subseteq Lids
    BY CacheType
  <1>3. CASE l = 0
    <2>1. p \in Pns /\ p # 0
      BY <1>1, <1>3 DEF SightOK, Sighted, Sides
    <2>2. SidesKnown(c, l, p) = {LidFor(c, p), p} \ {0}
      BY <1>3, <2>1 DEF SidesKnown, Sides
    <2>3. LidFor(c, p) = 0 \/ (LidFor(c, p) \in c.known /\ Owner[LidFor(c, p)] = p)
      BY LidForType
    <2> QED
      BY <1>1, <1>2, <2>1, <2>2, <2>3
  <1>4. CASE l # 0 /\ p = 0
    <2>1. l \in Lids
      BY <1>4 DEF SightOK
    <2>2. SidesKnown(c, l, p) = {l, PnOf(c, l)} \ {0}
      BY <1>4 DEF SidesKnown, Sides
    <2> QED
      BY <1>1, <1>2, <2>1, <2>2 DEF PnOf
  <1>5. CASE l # 0 /\ p # 0
    <2>1. l \in Lids /\ p = Owner[l]
      BY <1>5 DEF SightOK, Sighted
    <2>2. SidesKnown(c, l, p) = {l, p} \ {0}
      BY <1>5 DEF SidesKnown, Sides
    <2> QED
      BY <1>1, <1>2, <1>5, <2>1, <2>2
  <1> QED
    BY <1>3, <1>4, <1>5

LEMMA ChosenType ==
  ASSUME NEW c \in Caches, NEW K \in SUBSET Keys, K # {}
  PROVE  /\ Chosen(c, K) \in Projections /\ Chosen(c, K).order > 0
         /\ \A k \in K : c.proj[k].order > 0 => Before(Chosen(c, K), c.proj[k])
  <1> DEFINE has == K \cap Held(c.proj)
             S == {c.proj[k] : k \in has}
  <1>1. \A k \in Keys : k \in Held(c.proj) <=> c.proj[k].order > 0
    BY DEF Held
  <1>2. CASE has # {}
    <2>1. S \subseteq Projections /\ S # {}
      BY <1>2, CacheType
    <2>2. Earliest(S) \in S /\ \A y \in S : Before(Earliest(S), y)
      BY <2>1, EarliestType
    <2>3. Chosen(c, K) = Earliest(S)
      BY <1>2 DEF Chosen
    <2> QED
      BY <1>1, <2>1, <2>2, <2>3
  <1>3. CASE has = {}
    <2>1. Chosen(c, K) = [id |-> Min(K), order |-> c.next + 1]
      BY <1>3 DEF Chosen
    <2>2. K \subseteq Nat
      BY KeysType
    <2>3. Min(K) \in Keys
      BY <2>2, MinType
    <2>4. c.next + 1 \in Nat /\ c.next + 1 > 0
      BY CacheType
    <2> QED
      BY <1>1, <1>3, <2>1, <2>3, <2>4 DEF Projections
  <1> QED
    BY <1>2, <1>3

LEMMA ProjectOK ==
  ASSUME NEW c, CacheOK(c), NEW l, NEW p, SightOK(l, p)
  PROVE  CacheOK(Project(c, l, p))
  <1> DEFINE d == Alias(c, l, p)
             K == SidesKnown(d, l, p)
  <1>1. CacheOK(d) /\ d \in Caches /\ (l # 0 /\ p # 0 => l \in d.known)
    BY AliasOK DEF CacheOK
  <1> HIDE DEF d
  <1>2. K \in SUBSET Keys /\ K # {} /\ \A k \in d.known \cap K : Owner[k] \in K
    BY <1>1, SidesType
  <1> HIDE DEF K
  <1>3. /\ Chosen(d, K) \in Projections /\ Chosen(d, K).order > 0
        /\ \A k \in K : d.proj[k].order > 0 => Before(Chosen(d, K), d.proj[k])
    BY <1>1, <1>2, ChosenType
  <1>4. Project(c, l, p) = SetProjection(d, K, Chosen(d, K))
    BY DEF Project, Given, d, K
  <1>5. \A k \in d.known : LedAt(d, k)
    BY <1>1 DEF CacheOK
  <1> QED
    BY <1>1, <1>2, <1>3, <1>4, <1>5, SetProjectionOK

\* A number is bound to all that its LIDs are bound to.
LEMMA BindAllOK ==
  ASSUME NEW c \in Caches
  PROVE  CacheOK(BindAll(c)) /\ BindAll(c).proj \in Files
  <1> DEFINE has(k) == BoundTo(c, k) \cap Held(c.proj)
             S(k) == {c.proj[j] : j \in has(k)}
             new == [k \in Keys |-> IF has(k) = {} \/ k \in Lids \ c.known THEN c.proj[k]
                                    ELSE Earliest(S(k))]
  <1>1. \A k \in Keys : k \in Held(c.proj) <=> c.proj[k].order > 0
    BY DEF Held
  <1>2. \A k \in Keys : S(k) \subseteq Projections
    BY CacheType DEF Held
  <1>3. ASSUME NEW k \in Keys, has(k) # {}
        PROVE  Earliest(S(k)) \in S(k) /\ \A y \in S(k) : Before(Earliest(S(k)), y)
    <2>1. S(k) \subseteq Projections /\ S(k) # {}
      BY <1>2, <1>3
    <2> HIDE DEF S
    <2> QED
      BY <2>1, EarliestType
  <1>4. new \in Files
    BY <1>2, <1>3, CacheType DEF Files
  <1>5. BindAll(c) = [c EXCEPT !.dirty = FALSE, !.proj = new]
    BY DEF BindAll
  <1>6. BindAll(c) \in Caches /\ BindAll(c).known = c.known /\ BindAll(c).proj = new
    <2> HIDE DEF new
    <2> QED
      BY <1>4, <1>5 DEF Caches
  <1>7. ASSUME NEW l \in c.known, new[l].order > 0
        PROVE  new[Owner[l]].order > 0 /\ Before(new[Owner[l]], new[l])
    <2>1. /\ l \in Lids /\ l \in Keys /\ l \notin Pns
          /\ Owner[l] \in Pns /\ Owner[l] \in Keys /\ Owner[l] \notin Lids
      BY CacheType, KeysType
    <2>2. BoundTo(c, l) \subseteq BoundTo(c, Owner[l]) /\ l \in BoundTo(c, l)
      BY <1>7, <2>1 DEF BoundTo, LidsOf
    <2>3. has(l) # {}
      BY <1>1, <1>7, <2>1, <2>2
    <2>4. has(Owner[l]) # {} /\ S(l) \subseteq S(Owner[l])
      BY <2>2, <2>3
    <2>5. new[l] = Earliest(S(l)) /\ new[Owner[l]] = Earliest(S(Owner[l]))
      BY <1>7, <2>1, <2>3, <2>4
    <2>6. new[l] \in S(Owner[l])
      BY <1>3, <2>1, <2>3, <2>4, <2>5
    <2>7. new[Owner[l]] \in S(Owner[l]) /\ Before(new[Owner[l]], new[l])
      BY <1>3, <2>1, <2>4, <2>5, <2>6
    <2>8. \A y \in S(Owner[l]) : y.order > 0
      BY <1>1 DEF Held
    <2> QED
      BY <2>7, <2>8
  <1> HIDE DEF new
  <1> QED
    BY <1>4, <1>6, <1>7 DEF CacheOK, LedAt

LEMMA AdoptOK ==
  ASSUME NEW c \in Caches, NEW f \in Files
  PROVE  CacheOK(Adopt(c, f))
  <1> DEFINE new == [k \in Keys |-> IF k \in Held(f) THEN f[k] ELSE c.proj[k]]
             n == Max({c.next, Newest(f)})
  <1>1. new \in Files
    BY CacheType DEF Files
  <1>2. n \in Nat
    BY CacheType, NewestType, MaxPair
  <1>3. Adopt(c, f) = BindAll([c EXCEPT !.proj = new, !.next = n])
    BY DEF Adopt
  <1> HIDE DEF new, n
  <1>4. [c EXCEPT !.proj = new, !.next = n] \in Caches
    BY <1>1, <1>2 DEF Caches
  <1> QED
    BY <1>3, <1>4, BindAllOK

LEMMA OffOK == CacheOK(Off)
  <1>1. [k \in Keys |-> Nothing] \in Files
    BY ProjectionsType DEF Files
  <1> DEFINE none == [k \in Keys |-> Nothing]
  <1>2. Off = [up |-> FALSE, known |-> {}, proj |-> none, next |-> 0, dirty |-> FALSE]
    BY DEF Off
  <1> HIDE DEF none
  <1> QED
    BY <1>1, <1>2 DEF CacheOK, Caches, none

LEMMA LoadOK ==
  ASSUME NEW links \in SUBSET Lids, NEW f \in Files
  PROVE  CacheOK(Load(links, f))
  <1>1. [Off EXCEPT !.up = TRUE, !.known = links] \in Caches
    BY OffOK DEF CacheOK, Caches
  <1> QED
    BY <1>1, AdoptOK DEF Load
-----------------------------------------------------------------------------
(* The file.                                                               *)
\* From one file to the next, no projection goes or is moved back.
KeptIn(f, g) ==
  \A k \in Keys : f[k].order > 0 =>
    g[k] = f[k] \/ (0 < g[k].order /\ g[k].order < f[k].order)

LEMMA OrderOfType ==
  ASSUME NEW c \in Caches, NEW f \in Files, NEW id
  PROVE  OrderOf(c, f, id) \in Nat
  <1> DEFINE S == {f[j].order : j \in {i \in Held(f) : f[i].id = id}}
             L == {k \in Leading(c, f) : \E j \in Leading(c, f) : c.proj[j].id = id /\ Sooner(c, k, j)}
  <1>1. \A k \in Keys : f[k].order \in Nat
    BY ProjectionsType DEF Files
  <1>2. CASE \E j \in Held(f) : f[j].id = id
    <2>1. S \subseteq Nat /\ S # {}
      BY <1>1, <1>2 DEF Held
    <2>2. OrderOf(c, f, id) = Min(S)
      BY <1>2 DEF OrderOf
    <2> HIDE DEF S
    <2> QED
      BY <2>1, <2>2, MinType
  <1>3. CASE ~ \E j \in Held(f) : f[j].id = id
    <2>1. L \in SUBSET Keys
      BY DEF Leading, Lacking, Held
    <2>2. OrderOf(c, f, id) = Newest(f) + Cardinality(L)
      BY <1>3 DEF OrderOf
    <2> HIDE DEF L
    <2>3. Cardinality(L) \in Nat
      BY <2>1, KeysType, FS_Subset, FS_CardinalityType
    <2> QED
      BY <2>2, <2>3, NewestType
  <1> QED
    BY <1>2, <1>3

LEMMA MergedOK ==
  ASSUME NEW c \in Caches, NEW f \in Files
  PROVE  Merged(c, f) \in Files /\ KeptIn(f, Merged(c, f))
  <1>1. \A k \in Keys : k \in Held(f) <=> f[k].order > 0
    BY DEF Held
  <1>2. \A k \in Keys : f[k] \in Projections /\ c.proj[k] \in Projections
    BY CacheType DEF Files
  <1>3. ASSUME NEW k \in Keys PROVE Merged(c, f)[k] \in Projections
    <2>1. [id |-> c.proj[k].id, order |-> OrderOf(c, f, c.proj[k].id)] \in Projections
      BY <1>2, OrderOfType DEF Projections
    <2> QED
      BY <1>2, <2>1, ProjectionsType DEF Merged
  <1>4. Merged(c, f) = [k \in Keys |-> Merged(c, f)[k]]
    BY DEF Merged
  <1>5. Merged(c, f) \in Files
    BY <1>3, <1>4 DEF Files
  <1>6. ASSUME NEW k \in Keys, f[k].order > 0
        PROVE  \/ Merged(c, f)[k] = f[k]
               \/ 0 < Merged(c, f)[k].order /\ Merged(c, f)[k].order < f[k].order
    BY <1>1, <1>6 DEF Merged, Overrides
  <1> QED
    BY <1>5, <1>6 DEF KeptIn

LEMMA KeptInTransitive ==
  ASSUME NEW f \in Files, NEW g \in Files, NEW h \in Files, KeptIn(f, g), KeptIn(g, h)
  PROVE  KeptIn(f, h)
  <1>1. ASSUME NEW k \in Keys, f[k].order > 0
        PROVE  h[k] = f[k] \/ (0 < h[k].order /\ h[k].order < f[k].order)
    <2>1. f[k].order \in Nat /\ g[k].order \in Nat /\ h[k].order \in Nat
      BY ProjectionsType DEF Files
    <2>2. g[k] = f[k] \/ (0 < g[k].order /\ g[k].order < f[k].order)
      BY <1>1 DEF KeptIn
    <2>3. g[k].order > 0
      BY <1>1, <2>1, <2>2
    <2>4. h[k] = g[k] \/ (0 < h[k].order /\ h[k].order < g[k].order)
      BY <2>3 DEF KeptIn
    <2> QED
      BY <2>1, <2>2, <2>4
  <1> QED
    BY <1>1 DEF KeptIn

LEMMA SaveOK ==
  ASSUME NEW c, CacheOK(c), NEW f \in Files
  PROVE  /\ CacheOK(Save(c, f).cache)
         /\ Save(c, f).file \in Files /\ KeptIn(f, Save(c, f).file)
  <1>1. CASE c.dirty
    <2>1. Save(c, f) = [cache |-> Adopt(c, Merged(c, f)), file |-> Merged(c, f)]
      BY <1>1 DEF Save
    <2>2. c \in Caches
      BY DEF CacheOK
    <2> QED
      BY <2>1, <2>2, MergedOK, AdoptOK
  <1>2. CASE ~c.dirty
    BY <1>2 DEF Save, KeptIn
  <1> QED
    BY <1>1, <1>2
-----------------------------------------------------------------------------
(* Every step keeps the invariant and what is committed.                   *)
IdentityInv ==
  /\ linked \in SUBSET Lids /\ file \in Files
  /\ asking \in [Adapters -> Lids \cup {0}]
  /\ cache \in [Adapters -> Caches] /\ \A a \in Adapters : CacheOK(cache[a])

Good == IdentityInv' /\ KeptIn(file, file')

LEMMA NothingWritten ==
  ASSUME IdentityInv, file' = file
  PROVE  file' \in Files /\ KeptIn(file, file')
  BY DEF IdentityInv, KeptIn

LEMMA CacheReplaced ==
  ASSUME IdentityInv, NEW a \in Adapters, NEW c, CacheOK(c), cache' = [cache EXCEPT ![a] = c]
  PROVE  cache' \in [Adapters -> Caches] /\ \A b \in Adapters : CacheOK(cache'[b])
  BY DEF IdentityInv, CacheOK

LEMMA StartOK ==
  ASSUME IdentityInv, NEW a \in Adapters, Start(a) \/ Stop(a)
  PROVE  Good
  <1>1. CASE Start(a)
    <2>1. CacheOK(Load(linked, file))
      BY LoadOK DEF IdentityInv
    <2> QED
      BY <1>1, <2>1, CacheReplaced, NothingWritten DEF Start, disk, IdentityInv, Good
  <1>2. CASE Stop(a)
    <2>1. asking' \in [Adapters -> Lids \cup {0}]
      BY <1>2 DEF Stop, IdentityInv
    <2> QED
      BY <1>2, <2>1, OffOK, CacheReplaced, NothingWritten DEF Stop, disk, IdentityInv, Good
  <1> QED
    BY <1>1, <1>2

LEMMA OutsideOK ==
  ASSUME IdentityInv,
         \/ \E l \in Lids : GatewayLearns(l)
         \/ \E a \in Adapters, l \in Lids : Ask(a, l)
  PROVE  Good
  <1>1. CASE \E l \in Lids : GatewayLearns(l)
    BY <1>1, NothingWritten DEF GatewayLearns, IdentityInv, Good
  <1>2. CASE \E a \in Adapters, l \in Lids : Ask(a, l)
    <2>1. asking' \in [Adapters -> Lids \cup {0}]
      BY <1>2 DEF Ask, IdentityInv
    <2> QED
      BY <1>2, <2>1, NothingWritten DEF Ask, disk, IdentityInv, Good
  <1> QED
    BY <1>1, <1>2

\* A save of a projected cache over a file, refused or not.
LEMMA ExposeOK ==
  ASSUME IdentityInv, NEW a \in Adapters, NEW c, CacheOK(c), NEW f \in Files, KeptIn(file, f),
         NEW l, NEW p, SightOK(l, p), NEW ok, Expose(a, c, f, l, p, ok)
  PROVE  /\ file' \in Files /\ KeptIn(file, file')
         /\ cache' \in [Adapters -> Caches] /\ \A b \in Adapters : CacheOK(cache'[b])
  <1> DEFINE d == Project(c, l, p)
  <1>1. CacheOK(d)
    BY ProjectOK
  <1>2. Written(a, d, f, ok)
    BY DEF Expose
  <1> HIDE DEF d
  <1>3. CASE d.dirty /\ ~ok
    <2>1. cache' = [cache EXCEPT ![a] = d] /\ file' = f
      BY <1>2, <1>3 DEF Written
    <2> QED
      BY <1>1, <2>1, CacheReplaced
  <1>4. CASE ~(d.dirty /\ ~ok)
    <2>1. cache' = [cache EXCEPT ![a] = Save(d, f).cache] /\ file' = Save(d, f).file
      BY <1>2, <1>4 DEF Written
    <2>2. CacheOK(Save(d, f).cache) /\ Save(d, f).file \in Files /\ KeptIn(f, Save(d, f).file)
      BY <1>1, SaveOK
    <2>3. file \in Files
      BY DEF IdentityInv
    <2>4. KeptIn(file, file')
      BY <2>1, <2>2, <2>3, KeptInTransitive
    <2> QED
      BY <2>1, <2>2, <2>4, CacheReplaced
  <1> QED
    BY <1>3, <1>4

\* A new link is remembered and saved before the message is projected and saved.
LEMMA LearnOK ==
  ASSUME IdentityInv, NEW a \in Adapters, NEW l \in Lids, NEW ok, Learn(a, l, ok)
  PROVE  /\ linked' \in SUBSET Lids /\ file' \in Files /\ KeptIn(file, file')
         /\ cache' \in [Adapters -> Caches] /\ \A b \in Adapters : CacheOK(cache'[b])
  <1> DEFINE c == Remember(cache[a], l, Owner[l])
             s == IF ok THEN Save(c, file) ELSE [cache |-> c, file |-> file]
  <1>1. CacheOK(c)
    BY RememberOK DEF IdentityInv
  <1>2. file \in Files
    BY DEF IdentityInv
  <1> HIDE DEF c
  <1>3. CacheOK(s.cache) /\ s.file \in Files /\ KeptIn(file, s.file)
    <2>1. CASE ok
      BY <1>1, <1>2, <2>1, SaveOK
    <2>2. CASE ~ok
      BY <1>1, <1>2, <2>2 DEF KeptIn
    <2> QED
      BY <2>1, <2>2
  <1>4. Linked(l, ok) /\ Expose(a, s.cache, s.file, l, Owner[l], ok)
    BY DEF Learn, c
  <1> HIDE DEF s
  <1>5. linked' \in SUBSET Lids
    BY <1>4 DEF Linked, IdentityInv
  <1>6. SightOK(l, Owner[l])
    BY KeysType DEF SightOK, Sighted, Sides
  <1> QED
    BY <1>3, <1>4, <1>5, <1>6, ExposeOK

LEMMA KeptInSame == \A f : KeptIn(f, f)
  BY DEF KeptIn

LEMMA MessageOK ==
  ASSUME IdentityInv, NEW a \in Adapters, NEW l, NEW p, SightOK(l, p), NEW ok,
         Message(a, l, p, ok) \/ ListMember(a, l, p, ok)
  PROVE  Good
  <1>1. CacheOK(cache[a]) /\ cache[a] \in Caches /\ file \in Files /\ KeptIn(file, file)
    BY KeptInSame DEF IdentityInv, CacheOK
  <1>2. CASE Message(a, l, p, ok) /\ l # 0 /\ p # 0 /\ l \notin cache[a].known
    <2>1. l \in Lids /\ Learn(a, l, ok) /\ UNCHANGED asking
      BY <1>2 DEF Message, SightOK
    <2> QED
      BY <2>1, LearnOK DEF IdentityInv, Good
  <1>3. CASE Message(a, l, p, ok) /\ ~(l # 0 /\ p # 0 /\ l \notin cache[a].known)
    <2> DEFINE q == IF p = 0 THEN PnOf(cache[a], l) ELSE p
    <2>1. Expose(a, cache[a], file, l, q, ok) /\ UNCHANGED <<asking, linked>>
      BY <1>3 DEF Message
    <2>2. SightOK(l, q)
      BY KeysType DEF SightOK, Sighted, Sides, PnOf
    <2> HIDE DEF q
    <2> QED
      BY <1>1, <2>1, <2>2, ExposeOK DEF IdentityInv, Good
  <1>4. CASE ListMember(a, l, p, ok)
    <2>1. Expose(a, cache[a], file, l, p, ok) /\ UNCHANGED <<asking, linked>>
      BY <1>4 DEF ListMember
    <2> QED
      BY <1>1, <2>1, ExposeOK DEF IdentityInv, Good
  <1> QED
    BY <1>2, <1>3, <1>4

LEMMA AnswerOK ==
  ASSUME IdentityInv, NEW a \in Adapters, NEW ok, Answered(a, ok) \/ Unanswered(a, ok)
  PROVE  Good
  <1>1. asking[a] \in Lids /\ asking' \in [Adapters -> Lids \cup {0}]
    BY DEF Answered, Unanswered, IdentityInv
  <1>2. CASE Answered(a, ok)
    <2>1. Learn(a, asking[a], ok)
      BY <1>2 DEF Answered
    <2> QED
      BY <1>1, <2>1, LearnOK DEF IdentityInv, Good
  <1>3. CASE Unanswered(a, ok)
    <2>1. Expose(a, cache[a], file, asking[a], 0, ok) /\ UNCHANGED linked
      BY <1>3 DEF Unanswered
    <2>2. SightOK(asking[a], 0)
      BY <1>1, KeysType DEF SightOK, Sighted, Sides
    <2>3. CacheOK(cache[a]) /\ file \in Files /\ KeptIn(file, file)
      BY KeptInSame DEF IdentityInv
    <2> QED
      BY <1>1, <2>1, <2>2, <2>3, ExposeOK DEF IdentityInv, Good
  <1> QED
    BY <1>2, <1>3

LEMMA IdentityInit == Init => IdentityInv
  <1> SUFFICES ASSUME Init PROVE IdentityInv
    OBVIOUS
  <1>1. file \in Files
    BY ProjectionsType DEF Init, Files
  <1>2. cache \in [Adapters -> Caches] /\ \A a \in Adapters : CacheOK(cache[a])
    BY OffOK DEF Init, CacheOK
  <1> QED
    BY <1>1, <1>2 DEF Init, IdentityInv

LEMMA IdentityStep == IdentityInv /\ [Next]_vars => Good
  <1> SUFFICES ASSUME IdentityInv, [Next]_vars PROVE Good
    OBVIOUS
  <1>1. ASSUME NEW a \in Adapters, NEW l \in Lids \cup {0}, NEW p \in Pns \cup {0}, NEW ok \in BOOLEAN,
               Sighted(l, p), Message(a, l, p, ok) \/ ListMember(a, l, p, ok)
        PROVE  Good
    BY <1>1, MessageOK DEF SightOK
  <1>2. CASE UNCHANGED vars
    BY <1>2, NothingWritten DEF vars, disk, IdentityInv, Good
  <1> QED
    BY <1>1, <1>2, StartOK, OutsideOK, AnswerOK DEF Next

LEMMA IdentityInvariant == Spec => []IdentityInv
  <1>1. IdentityInv /\ [Next]_vars => IdentityInv'
    BY IdentityStep DEF Good
  <1> QED
    BY <1>1, IdentityInit, PTL DEF Spec
-----------------------------------------------------------------------------
\* The ID of anyone is what the number was given, or the number itself.
LEMMA IdOfLinked ==
  ASSUME NEW c, CacheOK(c), NEW k \in Keys, k \in Lids => k \in c.known
  PROVE  IdOf(c, k) = IF c.proj[Person(k)].order > 0 THEN c.proj[Person(k)].id ELSE Person(k)
  <1> DEFINE l == IF k \in Lids THEN k ELSE 0
             p == IF k \in Pns THEN k ELSE 0
             K == SidesKnown(c, l, p)
             n == Person(k)
             has == K \cap Held(c.proj)
             S == {c.proj[j] : j \in has}
  <1>1. c \in Caches /\ c.known \subseteq Lids /\ \A j \in c.known : LedAt(c, j)
    BY CacheType DEF CacheOK
  <1>2. /\ 0 \notin Keys /\ Keys = Lids \cup Pns /\ Keys \subseteq Nat
        /\ \A j \in Lids : j \notin Pns /\ Owner[j] \in Pns
        /\ \A j \in Lids, m \in Pns : m < j
    BY KeysType
  <1>3. n \in Pns /\ n \in K /\ \A j \in K : j = n \/ (j \in c.known /\ Owner[j] = n)
    <2>1. CASE k \in Lids
      <3>1. n = Owner[k] /\ l = k /\ p = 0 /\ k \in c.known /\ k # 0
        BY <1>2, <2>1 DEF Person
      <3>2. K = {k, Owner[k]} \ {0}
        BY <3>1, <1>2 DEF SidesKnown, Sides, PnOf
      <3> QED
        BY <1>2, <2>1, <3>1, <3>2
    <2>2. CASE k \in Pns
      <3>1. n = k /\ l = 0 /\ p = k /\ k # 0
        BY <1>2, <2>2 DEF Person
      <3>2. K = {LidFor(c, k), k} \ {0}
        BY <3>1 DEF SidesKnown, Sides
      <3>3. LidFor(c, k) = 0 \/ (LidFor(c, k) \in c.known /\ Owner[LidFor(c, k)] = k)
        BY <1>1, LidForType
      <3> QED
        BY <2>2, <3>1, <3>2, <3>3
    <2> QED
      BY <1>2, <2>1, <2>2
  <1>4. IdOf(c, k) = Chosen(c, K).id
    <2>1. l = 0 \/ p = 0
      BY <1>2
    <2> QED
      BY <2>1 DEF IdOf, Given, Alias
  <1> HIDE DEF K, n, l, p
  <1>5. K \subseteq Keys /\ \A j \in K : j \in has <=> c.proj[j].order > 0
    BY <1>1, <1>2, <1>3 DEF Held
  <1>6. \A j \in K : c.proj[j].order > 0 => c.proj[n].order > 0 /\ Before(c.proj[n], c.proj[j])
    <2>1. c.proj[n] \in Projections
      BY <1>1, <1>2, <1>3, CacheType
    <2> QED
      BY <1>1, <1>3, <2>1, BeforeOrder DEF LedAt
  <1>7. CASE c.proj[n].order > 0
    <2>1. S \subseteq Projections /\ c.proj[n] \in S /\ S # {}
      BY <1>1, <1>3, <1>5, <1>7, CacheType
    <2>2. \A y \in S : Before(c.proj[n], y)
      BY <1>5, <1>6
    <2>3. Chosen(c, K) = Earliest(S)
      BY <1>3, <1>5, <1>7 DEF Chosen
    <2> HIDE DEF S
    <2>4. Earliest(S) \in S /\ Before(Earliest(S), c.proj[n]) /\ Before(c.proj[n], Earliest(S))
      BY <2>1, <2>2, EarliestType
    <2> QED
      BY <1>4, <1>7, <2>1, <2>3, <2>4, BeforeOrder DEF n
  <1>8. CASE ~(c.proj[n].order > 0)
    <2>1. has = {}
      BY <1>5, <1>6, <1>8
    <2>2. Chosen(c, K).id = Min(K)
      BY <2>1 DEF Chosen
    <2>3. Min(K) \in K /\ Min(K) <= n
      BY <1>2, <1>3, <1>5, MinType
    <2>4. Min(K) = n
      BY <1>1, <1>2, <1>3, <2>3
    <2> QED
      BY <1>4, <1>8, <2>2, <2>4 DEF n
  <1> QED
    BY <1>7, <1>8

LEMMA InvOneId == IdentityInv => OnePersonOneId
  <1> SUFFICES ASSUME IdentityInv, NEW a \in Adapters, NEW k \in Keys, NEW j \in Together(cache[a], k)
               PROVE  IdOf(cache[a], j) = IdOf(cache[a], k)
    BY DEF OnePersonOneId
  <1>1. CacheOK(cache[a]) /\ cache[a].known \subseteq Lids
    BY CacheType DEF IdentityInv, CacheOK
  <1>2. CASE k \in Lids \ cache[a].known
    BY <1>2 DEF Together
  <1>3. CASE k \notin Lids \ cache[a].known
    <2>1. j \in Keys /\ (j \in Lids => j \in cache[a].known) /\ Person(j) = Person(k)
      BY <1>1, <1>3, KeysType DEF Together, Person
    <2> QED
      BY <1>1, <1>3, <2>1, IdOfLinked
  <1> QED
    BY <1>2, <1>3

(* Whatever links become known, and whichever caches are saved over each   *)
(* other, an adapter gives all the identities it knows to be one person's  *)
(* one public ID: _bind_mapping_projections keeps the earliest projection  *)
(* with the number, through which every lookup goes.                       *)
THEOREM OneIdAtATime == Spec => []OnePersonOneId
  BY IdentityInvariant, InvOneId, PTL

(* No save of _projection_payload takes a key out of the file, moves it    *)
(* back or gives it another ID without moving it forward, whatever the     *)
(* cache that is saved was loaded from.                                    *)
THEOREM NothingMovedBack == Spec => CommittedFirst
  <1>1. IdentityInv /\ [Next]_vars
          => [\A k \in Keys : file[k].order > 0 =>
                \/ file'[k] = file[k]
                \/ 0 < file'[k].order /\ file'[k].order < file[k].order]_file
    BY IdentityStep DEF Good, KeptIn
  <1> QED
    BY <1>1, IdentityInvariant, PTL DEF Spec, CommittedFirst
-----------------------------------------------------------------------------
(* The first ID stays, while one adapter runs at a time. Every projection  *)
(* that a cache or the file holds has a place among the IDs given out, the *)
(* orders agree with the places, and whoever was given an ID holds it or   *)
(* an earlier one. What no file holds yet (unsaved) has the last places.   *)
HeldIn(f) == {f[k] : k \in Held(f)}
InOrder(P, w) ==
  /\ \A x \in P : x.id \in Keys /\ w[x.id] > 0
  /\ \A x, y \in P : x.order <= y.order <=> w[x.id] <= w[y.id]
Places(w, U) ==
  /\ w \in [Keys -> Nat] /\ U \in SUBSET Keys
  /\ \A x, y \in Keys : w[x] = w[y] /\ w[x] > 0 => x = y
  /\ \A x \in U : w[x] > 0
  /\ \A x \in U, y \in Keys \ U : w[y] < w[x]
FileFirst(f, w, U) ==
  /\ f \in Files /\ InOrder(HeldIn(f), w)
  /\ \A k \in Held(f) : f[k].id \notin U
  /\ \A id \in Keys \ U : w[id] > 0 => id \in Held(f) /\ w[f[id].id] <= w[id]
CacheFirst(g, f, w, U) ==
  /\ g \in Files /\ InOrder(HeldIn(g) \cup HeldIn(f), w)
  /\ \A id \in Keys : w[id] > 0 => id \in Held(g) /\ w[g[id].id] <= w[id]
  /\ \A k \in Held(f) : k \in Held(g) /\ g[k].order <= f[k].order
  /\ \A k \in Held(g) : g[k].id \in U \/ g[k] \in HeldIn(f)
FirstHeld(c, f, w, U) ==
  /\ c \in Caches /\ Places(w, U) /\ FileFirst(f, w, U) /\ CacheFirst(c.proj, f, w, U)
  /\ \A x \in HeldIn(c.proj) \cup HeldIn(f) : x.order <= c.next
  /\ c.dirty \/ U = {}

LEMMA HeldType ==
  ASSUME NEW f \in Files
  PROVE  /\ Held(f) \in SUBSET Keys /\ \A k \in Keys : k \in Held(f) <=> f[k].order > 0
         /\ \A k \in Keys : f[k] \in Projections /\ f[k].order \in Nat
         /\ HeldIn(f) \in SUBSET Projections
         /\ \A x \in HeldIn(f) : x.order \in Nat /\ x.order > 0
         /\ \A k \in Held(f) : f[k] \in HeldIn(f)
         /\ Files = [Keys -> Projections]
  BY ProjectionsType DEF Files, Held, HeldIn

\* Projections of one place are one.
LEMMA OnePlace ==
  ASSUME NEW w, NEW U, Places(w, U), NEW P \in SUBSET Projections, InOrder(P, w), NEW x \in P, NEW y \in P
  PROVE  /\ w[x.id] \in Nat /\ x.order \in Nat /\ x.id \in Keys
         /\ x.order = y.order <=> x.id = y.id
         /\ x.order = y.order => x = y
  <1>1. w[x.id] \in Nat /\ w[y.id] \in Nat /\ x.id \in Keys /\ y.id \in Keys /\ w[x.id] > 0
    BY DEF Places, InOrder
  <1>2. x.order \in Nat /\ y.order \in Nat
    BY ProjectionsType
  <1>3. x.order = y.order <=> w[x.id] = w[y.id]
    BY <1>1, <1>2 DEF InOrder
  <1>4. x.order = y.order <=> x.id = y.id
    BY <1>1, <1>3 DEF Places
  <1>5. x = [id |-> x.id, order |-> x.order] /\ y = [id |-> y.id, order |-> y.order]
    BY DEF Projections
  <1> QED
    BY <1>1, <1>2, <1>4, <1>5

\* A cache drawn from another holds what that held, for every key the same or an earlier one.
Drawn(g, h) ==
  /\ g \in Files /\ \A k \in Held(g) : g[k] \in HeldIn(h)
  /\ \A k \in Held(h) : k \in Held(g) /\ g[k].order <= h[k].order

LEMMA DrawnKeeps ==
  ASSUME NEW w, NEW U, Places(w, U), NEW f \in Files, NEW h, CacheFirst(h, f, w, U), NEW g, Drawn(g, h)
  PROVE  CacheFirst(g, f, w, U) /\ HeldIn(g) \subseteq HeldIn(h)
  <1>1. g \in Files /\ h \in Files
    BY DEF Drawn, CacheFirst
  <1>2. HeldIn(g) \subseteq HeldIn(h)
    BY DEF Drawn, HeldIn
  <1>3. InOrder(HeldIn(g) \cup HeldIn(f), w)
    BY <1>2 DEF InOrder, CacheFirst
  <1>4. ASSUME NEW id \in Keys, w[id] > 0 PROVE id \in Held(g) /\ w[g[id].id] <= w[id]
    <2>1. id \in Held(h) /\ w[h[id].id] <= w[id]
      BY <1>4 DEF CacheFirst
    <2>2. id \in Held(g) /\ g[id].order <= h[id].order
      BY <2>1 DEF Drawn
    <2>3. g[id] \in HeldIn(h) /\ h[id] \in HeldIn(h)
      BY <1>1, <1>2, <2>1, <2>2, HeldType
    <2>4. w[g[id].id] <= w[h[id].id] /\ g[id].id \in Keys /\ h[id].id \in Keys
      BY <2>2, <2>3 DEF InOrder, CacheFirst
    <2>5. w[g[id].id] \in Nat /\ w[h[id].id] \in Nat /\ w[id] \in Nat
      BY <2>4 DEF Places
    <2> QED
      BY <2>1, <2>2, <2>4, <2>5
  <1>5. ASSUME NEW k \in Held(f) PROVE k \in Held(g) /\ g[k].order <= f[k].order
    <2>1. k \in Held(h) /\ h[k].order <= f[k].order
      BY DEF CacheFirst
    <2>2. k \in Held(g) /\ g[k].order <= h[k].order
      BY <2>1 DEF Drawn
    <2>3. g[k].order \in Nat /\ h[k].order \in Nat /\ f[k].order \in Nat
      BY <1>1, HeldType
    <2> QED
      BY <2>1, <2>2, <2>3
  <1>6. ASSUME NEW k \in Held(g) PROVE g[k].id \in U \/ g[k] \in HeldIn(f)
    <2>1. PICK j \in Held(h) : g[k] = h[j]
      BY DEF Drawn, HeldIn
    <2> QED
      BY <2>1 DEF CacheFirst
  <1> QED
    BY <1>1, <1>2, <1>3, <1>4, <1>5, <1>6 DEF CacheFirst

\* Binding draws from what is bound.
LEMMA BindAllDrawn ==
  ASSUME NEW c \in Caches
  PROVE  Drawn(BindAll(c).proj, c.proj) /\ BindAll(c).next = c.next /\ BindAll(c).dirty = FALSE
  <1> DEFINE has(k) == BoundTo(c, k) \cap Held(c.proj)
             S(k) == {c.proj[j] : j \in has(k)}
             new == [k \in Keys |-> IF has(k) = {} \/ k \in Lids \ c.known THEN c.proj[k]
                                    ELSE Earliest(S(k))]
  <1>1. c.proj \in Files
    BY CacheType
  <1>2. BindAll(c) = [c EXCEPT !.dirty = FALSE, !.proj = new]
    BY DEF BindAll
  <1>3. BindAll(c).proj = new /\ BindAll(c).next = c.next /\ BindAll(c).dirty = FALSE
    <2> HIDE DEF new
    <2> QED
      BY <1>2 DEF Caches
  <1>4. new \in Files
    BY <1>3, BindAllOK
  <1>5. ASSUME NEW k \in Keys, has(k) # {}
        PROVE  Earliest(S(k)) \in S(k) /\ \A y \in S(k) : Before(Earliest(S(k)), y)
    <2>1. S(k) \subseteq Projections /\ S(k) # {}
      BY <1>1, <1>5, HeldType
    <2> HIDE DEF S
    <2> QED
      BY <2>1, EarliestType
  <1>6. \A k \in Keys : S(k) \subseteq HeldIn(c.proj)
    BY DEF HeldIn
  <1>7. ASSUME NEW k \in Held(new) PROVE new[k] \in HeldIn(c.proj)
    <2>1. k \in Keys /\ new[k].order > 0
      BY <1>4, HeldType
    <2>2. CASE has(k) = {} \/ k \in Lids \ c.known
      BY <1>1, <2>1, <2>2, HeldType
    <2>3. CASE ~(has(k) = {} \/ k \in Lids \ c.known)
      BY <1>5, <1>6, <2>1, <2>3
    <2> QED
      BY <2>2, <2>3
  <1>8. ASSUME NEW k \in Held(c.proj) PROVE k \in Keys /\ new[k].order > 0 /\ new[k].order <= c.proj[k].order
    <2>1. k \in Keys /\ c.proj[k].order > 0 /\ c.proj[k].order \in Nat
      BY <1>1, HeldType
    <2>2. CASE has(k) = {} \/ k \in Lids \ c.known
      BY <2>1, <2>2
    <2>3. CASE ~(has(k) = {} \/ k \in Lids \ c.known)
      <3>1. k \in has(k)
        BY <2>1, <2>3, KeysType DEF BoundTo
      <3>2. new[k] \in S(k) /\ Before(new[k], c.proj[k])
        BY <1>5, <2>1, <2>3, <3>1
      <3>3. new[k].order > 0 /\ new[k].order \in Nat
        BY <1>1, <1>6, <2>1, <3>2, HeldType
      <3> QED
        BY <2>1, <3>2, <3>3 DEF Before
    <2> QED
      BY <2>2, <2>3
  <1> HIDE DEF new
  <1>9. \A k \in Held(c.proj) : k \in Held(new) /\ new[k].order <= c.proj[k].order
    BY <1>4, <1>8, HeldType
  <1> QED
    BY <1>3, <1>4, <1>7, <1>9 DEF Drawn

LEMMA MaxPairIs ==
  ASSUME NEW m \in Nat, NEW n \in Nat
  PROVE  m <= Max({m, n}) /\ n <= Max({m, n}) /\ Max({m, n}) \in {m, n}
  <1>1. {m, n} \subseteq Nat /\ {m, n} # {} /\ m + n \in Nat /\ \A y \in {m, n} : y <= m + n
    OBVIOUS
  <1> QED
    BY <1>1, MaxType

\* Sharing the earliest of what some keys have, and giving keys without one a first one.
LEMMA ShareFirst ==
  ASSUME NEW c, NEW f, NEW w, NEW U, FirstHeld(c, f, w, U), NEW K \in SUBSET Keys, K \cap Held(c.proj) # {}
  PROVE  LET pr == Earliest({c.proj[k] : k \in K \cap Held(c.proj)})
         IN  FirstHeld(SetProjection(c, K, pr), f, w, U) /\ pr \in HeldIn(c.proj)
  <1> DEFINE S == {c.proj[k] : k \in K \cap Held(c.proj)}
             pr == Earliest(S)
             d == SetProjection(c, K, pr)
  <1>1. c \in Caches /\ c.proj \in Files /\ c.next \in Nat /\ c.dirty \in BOOLEAN /\ f \in Files
    BY CacheType DEF FirstHeld, FileFirst
  <1>2. S \subseteq HeldIn(c.proj) /\ S \subseteq Projections /\ S # {}
    BY <1>1, HeldType DEF HeldIn
  <1>3. pr \in S /\ \A y \in S : Before(pr, y)
    BY <1>2, EarliestType
  <1>4. pr \in Projections /\ pr \in HeldIn(c.proj) /\ pr.order \in Nat /\ pr.order > 0 /\ pr.order <= c.next
    BY <1>1, <1>2, <1>3, HeldType DEF FirstHeld
  <1>5. \A k \in K \cap Held(c.proj) : pr.order <= c.proj[k].order
    BY <1>1, <1>3, <1>4, HeldType DEF Before
  <1> HIDE DEF pr
  <1>6. d \in Caches /\ \A k \in Keys : d.proj[k] = IF k \in K THEN pr ELSE c.proj[k]
    BY <1>1, <1>4, SetProjectionType
  <1>7. c.next <= d.next /\ (c.dirty => d.dirty)
    <2>1. c.next <= Max({c.next, pr.order})
      BY <1>1, <1>4, MaxPairIs
    <2> QED
      BY <1>1, <2>1 DEF SetProjection, Caches
  <1> HIDE DEF d
  <1>8. Drawn(d.proj, c.proj)
    <2>1. d.proj \in Files
      BY <1>6, CacheType
    <2>2. ASSUME NEW k \in Held(d.proj) PROVE d.proj[k] \in HeldIn(c.proj)
      BY <1>1, <1>4, <1>6, <2>1, HeldType
    <2>3. ASSUME NEW k \in Held(c.proj) PROVE k \in Held(d.proj) /\ d.proj[k].order <= c.proj[k].order
      BY <1>1, <1>4, <1>5, <1>6, <2>1, HeldType
    <2> QED
      BY <2>1, <2>2, <2>3 DEF Drawn
  <1>9. CacheFirst(d.proj, f, w, U) /\ HeldIn(d.proj) \subseteq HeldIn(c.proj)
    BY <1>1, <1>8, DrawnKeeps DEF FirstHeld
  <1>10. ASSUME NEW x \in HeldIn(d.proj) \cup HeldIn(f) PROVE x.order <= d.next
    <2>1. x.order <= c.next
      BY <1>9 DEF FirstHeld
    <2>2. x.order \in Nat /\ d.next \in Nat
      BY <1>1, <1>6, <1>9, CacheType, HeldType
    <2> QED
      BY <1>1, <1>7, <2>1, <2>2
  <1>11. FirstHeld(d, f, w, U)
    BY <1>6, <1>7, <1>9, <1>10 DEF FirstHeld
  <1> QED
    BY <1>4, <1>11 DEF d, pr

LEMMA NewestIs ==
  ASSUME NEW f \in Files
  PROVE  Newest(f) \in Nat /\ \A k \in Keys : f[k].order <= Newest(f)
  <1> DEFINE S == {0} \cup {f[k].order : k \in Keys}
  <1>1. \A k \in Keys : f[k].order \in Nat
    BY HeldType
  <1>2. PICK n \in Nat : \A k \in Keys : f[k].order <= n
    BY <1>1, KeysType, OrdersBounded
  <1>3. S \subseteq Nat /\ S # {} /\ \A y \in S : y <= n
    BY <1>1, <1>2
  <1>4. \A k \in Keys : f[k].order \in S
    OBVIOUS
  <1>5. Newest(f) = Max(S)
    BY DEF Newest
  <1> HIDE DEF S
  <1>6. Max(S) \in S /\ \A y \in S : y <= Max(S)
    BY <1>3, MaxType
  <1> QED
    BY <1>3, <1>4, <1>5, <1>6

\* Loading a file in which everything is saved.
LEMMA AdoptFirst ==
  ASSUME NEW c \in Caches, NEW f, NEW w, Places(w, {}), FileFirst(f, w, {}), Held(c.proj) \subseteq Held(f)
  PROVE  FirstHeld(Adopt(c, f), f, w, {})
  <1> DEFINE new == [k \in Keys |-> IF k \in Held(f) THEN f[k] ELSE c.proj[k]]
             n == Max({c.next, Newest(f)})
             d == [c EXCEPT !.proj = new, !.next = n]
             g == Adopt(c, f)
  <1>1. f \in Files /\ c.proj \in Files /\ c.next \in Nat /\ Newest(f) \in Nat
    BY CacheType, NewestIs DEF FileFirst
  <1>2. new \in Files /\ \A k \in Keys : new[k] = IF k \in Held(f) THEN f[k] ELSE c.proj[k]
    BY <1>1, HeldType
  <1>3. n \in Nat /\ Newest(f) <= n
    BY <1>1, MaxPair, MaxPairIs
  <1>4. g = BindAll(d)
    BY DEF Adopt
  <1> HIDE DEF new, n, g
  <1>5. d \in Caches /\ d.proj = new /\ d.next = n
    BY <1>2, <1>3 DEF Caches
  <1> HIDE DEF d
  <1>6. Drawn(g.proj, new) /\ g.next = n /\ g.dirty = FALSE /\ g \in Caches
    BY <1>4, <1>5, BindAllDrawn, BindAllOK DEF CacheOK
  <1>7. Held(new) = Held(f) /\ \A k \in Held(f) : new[k] = f[k]
    BY <1>1, <1>2, HeldType
  <1>8. HeldIn(new) = HeldIn(f)
    BY <1>7 DEF HeldIn
  <1>9. CacheFirst(new, f, w, {})
    <2>1. InOrder(HeldIn(new) \cup HeldIn(f), w)
      BY <1>8 DEF FileFirst
    <2>2. \A id \in Keys : w[id] > 0 => id \in Held(new) /\ w[new[id].id] <= w[id]
      BY <1>7 DEF FileFirst
    <2>3. \A k \in Held(f) : k \in Held(new) /\ new[k].order <= f[k].order
      BY <1>1, <1>7, HeldType
    <2>4. \A k \in Held(new) : new[k] \in HeldIn(f)
      BY <1>1, <1>7, HeldType
    <2> QED
      BY <1>2, <2>1, <2>2, <2>3, <2>4 DEF CacheFirst
  <1>10. CacheFirst(g.proj, f, w, {}) /\ HeldIn(g.proj) \subseteq HeldIn(f)
    BY <1>1, <1>6, <1>8, <1>9, DrawnKeeps
  <1>11. ASSUME NEW x \in HeldIn(g.proj) \cup HeldIn(f) PROVE x.order <= g.next
    <2>1. PICK k \in Keys : x = f[k]
      BY <1>10 DEF HeldIn, Held
    <2>2. x.order <= Newest(f) /\ x.order \in Nat
      BY <1>1, <2>1, NewestIs, HeldType
    <2> QED
      BY <1>1, <1>3, <1>6, <2>2
  <1> QED
    BY <1>6, <1>10, <1>11 DEF FirstHeld, g

-----------------------------------------------------------------------------
(* A save numbers the new IDs in the order of the cache, after all others. *)
LEMMA LackingType ==
  ASSUME NEW c, NEW f, NEW w, NEW U, FirstHeld(c, f, w, U)
  PROVE  /\ c.proj \in Files /\ f \in Files
         /\ Leading(c, f) \subseteq Lacking(c, f) /\ Lacking(c, f) \subseteq Held(c.proj)
         /\ Held(c.proj) \subseteq Keys /\ Held(f) \subseteq Held(c.proj)
         /\ \A k, j \in Held(c.proj) :
              /\ c.proj[k].order \in Nat /\ c.proj[k].id \in Keys /\ w[c.proj[k].id] \in Nat
              /\ c.proj[k].order = c.proj[j].order <=> c.proj[k].id = c.proj[j].id
              /\ c.proj[k].order <= c.proj[j].order <=> w[c.proj[k].id] <= w[c.proj[j].id]
  <1>1. c.proj \in Files /\ f \in Files
    BY CacheType DEF FirstHeld, FileFirst
  <1>2. HeldIn(c.proj) \subseteq Projections /\ HeldIn(f) \subseteq Projections
    BY <1>1, HeldType
  <1> DEFINE P == HeldIn(c.proj) \cup HeldIn(f)
  <1>3. P \in SUBSET Projections /\ InOrder(P, w) /\ Places(w, U)
    BY <1>2 DEF FirstHeld, CacheFirst
  <1>4. \A k \in Held(c.proj) : c.proj[k] \in P
    BY <1>1, HeldType
  <1> HIDE DEF P
  <1>5. ASSUME NEW k \in Held(c.proj), NEW j \in Held(c.proj)
        PROVE  /\ c.proj[k].order \in Nat /\ c.proj[k].id \in Keys /\ w[c.proj[k].id] \in Nat
               /\ c.proj[k].order = c.proj[j].order <=> c.proj[k].id = c.proj[j].id
               /\ c.proj[k].order <= c.proj[j].order <=> w[c.proj[k].id] <= w[c.proj[j].id]
    <2>1. c.proj[k] \in P /\ c.proj[j] \in P
      BY <1>4
    <2>2. c.proj[k].order <= c.proj[j].order <=> w[c.proj[k].id] <= w[c.proj[j].id]
      BY <1>3, <2>1 DEF InOrder
    <2>3. /\ w[c.proj[k].id] \in Nat /\ c.proj[k].order \in Nat /\ c.proj[k].id \in Keys
          /\ c.proj[k].order = c.proj[j].order <=> c.proj[k].id = c.proj[j].id
      BY <1>3, <2>1, OnePlace
    <2> QED
      BY <2>2, <2>3
  <1>6. Held(f) \subseteq Held(c.proj)
    BY DEF FirstHeld, CacheFirst
  <1> QED
    BY <1>1, <1>5, <1>6 DEF Leading, Lacking, Held

\* Of the keys that the file lacks with one ID, one is the first: a LID before a number.
LEMMA LeaderExists ==
  ASSUME NEW c, NEW f, NEW w, NEW U, FirstHeld(c, f, w, U), NEW x \in Lacking(c, f)
  PROVE  \E k \in Leading(c, f) : c.proj[k].id = c.proj[x].id
  <1> DEFINE A == {j \in Lacking(c, f) : c.proj[j].id = c.proj[x].id}
             B == IF A \cap Lids # {} THEN A \cap Lids ELSE A
  <1>1. A \subseteq Keys /\ x \in A
    BY LackingType
  <1>2. B \subseteq Nat /\ B # {} /\ B \subseteq A
    BY <1>1, KeysType
  <1>3. PICK k \in B : \A y \in B : k <= y
    <2> HIDE DEF B
    <2> QED
      BY <1>2, LeastExists
  <1>4. \A j \in A : c.proj[j].order = c.proj[k].order
    BY <1>2, LackingType
  <1>5. ASSUME NEW j \in A PROVE Sooner(c, k, j)
    <2>1. k \in Nat /\ j \in Nat /\ k \in Keys /\ j \in Keys /\ Keys = Lids \cup Pns /\ \A l \in Lids : l \notin Pns
      BY <1>1, <1>2, KeysType
    <2>2. CASE j \in B
      <3>1. k \in Lids <=> j \in Lids
        BY <2>2
      <3>2. k = j \/ k < j
        BY <1>3, <2>1, <2>2
      <3> QED
        BY <1>4, <3>1, <3>2 DEF Sooner
    <2>3. CASE j \notin B
      <3>1. k \in Lids /\ j \in Pns
        BY <2>1, <2>3
      <3> QED
        BY <1>4, <3>1 DEF Sooner
    <2> QED
      BY <2>2, <2>3
  <1>6. k \in Lacking(c, f) /\ c.proj[k].id = c.proj[x].id
    BY <1>2
  <1> QED
    BY <1>5, <1>6 DEF Leading

\* The leaders up to an ID.
Ahead(c, f, id) == {k \in Leading(c, f) : \E j \in Leading(c, f) : c.proj[j].id = id /\ Sooner(c, k, j)}
Rank(c, f, id) == Cardinality(Ahead(c, f, id))

LEMMA RankType ==
  ASSUME NEW c, NEW f, NEW w, NEW U, FirstHeld(c, f, w, U), NEW x \in Lacking(c, f)
  PROVE  Rank(c, f, c.proj[x].id) \in Nat /\ Rank(c, f, c.proj[x].id) > 0
  <1> DEFINE A == Ahead(c, f, c.proj[x].id)
  <1>1. A \subseteq Keys
    BY LackingType DEF Ahead
  <1>2. PICK k \in Leading(c, f) : c.proj[k].id = c.proj[x].id
    BY LeaderExists
  <1>3. k \in A
    BY <1>2 DEF Ahead, Sooner
  <1>4. IsFiniteSet(A) /\ Cardinality(A) \in Nat
    BY <1>1, KeysType, FS_Subset, FS_CardinalityType
  <1>5. Cardinality(A) # 0
    <2> HIDE DEF A
    <2> QED
      BY <1>3, <1>4, FS_EmptySet
  <1> QED
    BY <1>4, <1>5 DEF Rank

LEMMA RankGrows ==
  ASSUME NEW c, NEW f, NEW w, NEW U, FirstHeld(c, f, w, U),
         NEW x \in Lacking(c, f), NEW y \in Lacking(c, f), c.proj[x].order < c.proj[y].order
  PROVE  Rank(c, f, c.proj[x].id) < Rank(c, f, c.proj[y].id)
  <1> DEFINE A == Ahead(c, f, c.proj[x].id)
             B == Ahead(c, f, c.proj[y].id)
  <1>1. PICK k \in Leading(c, f) : c.proj[k].id = c.proj[y].id
    BY LeaderExists
  <1>2. /\ Leading(c, f) \subseteq Lacking(c, f) /\ Lacking(c, f) \subseteq Held(c.proj) /\ Held(c.proj) \subseteq Keys
        /\ \A i, j \in Held(c.proj) :
             /\ c.proj[i].order \in Nat
             /\ c.proj[i].id = c.proj[j].id => c.proj[i].order = c.proj[j].order
    BY LackingType
  <1>3. k \in B
    BY <1>1 DEF Ahead, Sooner
  <1>4. ASSUME NEW i \in Leading(c, f), NEW j \in Leading(c, f), c.proj[j].id = c.proj[x].id, Sooner(c, i, j)
        PROVE  i # k /\ Sooner(c, i, k)
    <2>1. c.proj[j].order = c.proj[x].order /\ c.proj[k].order = c.proj[y].order
      BY <1>1, <1>2, <1>4
    <2>2. c.proj[i].order <= c.proj[j].order
      BY <1>2, <1>4 DEF Sooner
    <2>3. c.proj[i].order < c.proj[k].order
      BY <1>2, <2>1, <2>2
    <2>4. c.proj[k].order \in Nat
      BY <1>1, <1>2
    <2> QED
      BY <2>3, <2>4 DEF Sooner
  <1>5. A \subseteq B /\ k \notin A
    BY <1>1, <1>4 DEF Ahead
  <1>6. A \subseteq Keys /\ B \subseteq Keys
    BY <1>2 DEF Ahead
  <1>7. IsFiniteSet(B) /\ Cardinality(B) \in Nat
    BY <1>6, KeysType, FS_Subset, FS_CardinalityType
  <1> HIDE DEF A, B
  <1>8. /\ Cardinality(A) \in Nat /\ Cardinality(A) <= Cardinality(B)
        /\ Cardinality(A) = Cardinality(B) => A = B
    BY <1>5, <1>7, FS_Subset, FS_CardinalityType
  <1>9. Cardinality(A) # Cardinality(B)
    BY <1>3, <1>5, <1>8
  <1> QED
    BY <1>7, <1>8, <1>9 DEF Rank, A, B

\* What the file holds under its key or its ID is merged as the cache has it.
LEMMA MergedSame ==
  ASSUME NEW c, NEW f, NEW w, NEW U, FirstHeld(c, f, w, U), NEW k \in Held(c.proj) \ Lacking(c, f)
  PROVE  /\ Merged(c, f)[k] = c.proj[k]
         /\ \E j \in Held(f) : c.proj[k].order <= f[j].order
  <1> DEFINE g == c.proj
             P == HeldIn(g) \cup HeldIn(f)
             m == Merged(c, f)
  <1>1. g \in Files /\ f \in Files /\ k \in Keys /\ Held(f) \subseteq Held(g) /\ g[k].order \in Nat /\ g[k].order > 0
    BY LackingType, HeldType
  <1>2. HeldIn(g) \subseteq Projections /\ HeldIn(f) \subseteq Projections
    BY <1>1, HeldType
  <1>3. P \in SUBSET Projections /\ InOrder(P, w) /\ Places(w, U)
    BY <1>2 DEF FirstHeld, CacheFirst
  <1>4. g[k] \in P /\ \A j \in Held(f) : f[j] \in P /\ j \in Keys /\ f[j].order \in Nat
    BY <1>1, HeldType
  <1>5. m[k] = CASE k \in Held(f) -> IF Overrides(c, f, k) THEN g[k] ELSE f[k]
                 [] k \in Held(g) \ Held(f) -> [id |-> g[k].id, order |-> OrderOf(c, f, g[k].id)]
                 [] OTHER -> Nothing
    BY <1>1 DEF Merged
  <1> HIDE DEF P, m
  <1>6. CASE k \in Held(f)
    <2>1. g[k].order <= f[k].order
      BY <1>6 DEF FirstHeld, CacheFirst
    <2>2. m[k] = IF Overrides(c, f, k) THEN g[k] ELSE f[k]
      BY <1>5, <1>6
    <2>3. CASE Overrides(c, f, k)
      BY <1>6, <2>1, <2>2, <2>3 DEF m
    <2>4. CASE ~Overrides(c, f, k)
      <3>1. g[k].order = f[k].order
        BY <1>1, <1>4, <1>6, <2>1, <2>4 DEF Overrides
      <3>2. g[k] = f[k]
        BY <1>3, <1>4, <1>6, <3>1, OnePlace
      <3> QED
        BY <1>6, <2>1, <2>2, <2>4, <3>2 DEF m
    <2> QED
      BY <2>3, <2>4
  <1>7. CASE k \notin Held(f)
    <2>1. PICK j \in Held(f) : f[j].id = g[k].id
      BY <1>7 DEF Lacking
    <2> DEFINE S == {f[i].order : i \in {i \in Held(f) : f[i].id = g[k].id}}
    <2>2. ASSUME NEW i \in Held(f), f[i].id = g[k].id PROVE f[i].order = g[k].order
      BY <1>3, <1>4, <2>2, OnePlace
    <2>3. S = {g[k].order}
      BY <2>1, <2>2
    <2>4. Min(S) = g[k].order
      <3> HIDE DEF S
      <3>1. S \subseteq Nat /\ S # {}
        BY <1>1, <2>3
      <3> QED
        BY <2>3, <3>1, MinType
    <2>5. OrderOf(c, f, g[k].id) = g[k].order
      BY <2>1, <2>4 DEF OrderOf
    <2>6. m[k] = [id |-> g[k].id, order |-> g[k].order]
      BY <1>5, <1>7, <2>5
    <2>7. g[k] \in Projections
      BY <1>1, HeldType
    <2>8. g[k] = [id |-> g[k].id, order |-> g[k].order]
      BY <2>7 DEF Projections
    <2>9. g[k].order <= f[j].order
      BY <1>1, <2>1, <2>2
    <2> QED
      BY <2>6, <2>8, <2>9 DEF m
  <1> QED
    BY <1>6, <1>7

LEMMA MergedNew ==
  ASSUME NEW c, NEW f, NEW w, NEW U, FirstHeld(c, f, w, U), NEW k \in Lacking(c, f)
  PROVE  /\ Merged(c, f)[k].id = c.proj[k].id /\ c.proj[k].id \in U
         /\ Merged(c, f)[k].order = Newest(f) + Rank(c, f, c.proj[k].id)
  <1>1. k \in Keys /\ k \in Held(c.proj) \ Held(f) /\ \A j \in Held(f) : f[j].id # c.proj[k].id
    BY LackingType DEF Lacking
  <1>2. c.proj[k].id \in U
    BY <1>1 DEF FirstHeld, CacheFirst, HeldIn
  <1>3. OrderOf(c, f, c.proj[k].id) = Newest(f) + Rank(c, f, c.proj[k].id)
    BY <1>1 DEF OrderOf, Rank, Ahead
  <1>4. Merged(c, f)[k] = [id |-> c.proj[k].id, order |-> OrderOf(c, f, c.proj[k].id)]
    BY <1>1 DEF Merged
  <1> QED
    BY <1>2, <1>3, <1>4

\* So the merged file has the IDs of the cache, in their order.
LEMMA MergedInOrder ==
  ASSUME NEW c, NEW f, NEW w, NEW U, FirstHeld(c, f, w, U)
  PROVE  /\ Merged(c, f) \in Files /\ Held(Merged(c, f)) = Held(c.proj)
         /\ \A k \in Held(c.proj) : Merged(c, f)[k].id = c.proj[k].id
         /\ InOrder(HeldIn(Merged(c, f)), w)
  <1> DEFINE g == c.proj
             m == Merged(c, f)
             New == Lacking(c, f)
  <1>1. /\ g \in Files /\ f \in Files /\ c \in Caches /\ Held(f) \subseteq Held(g) /\ Held(g) \subseteq Keys
        /\ New \subseteq Held(g) /\ Newest(f) \in Nat
    BY LackingType, NewestIs DEF FirstHeld
  <1>2. m \in Files
    BY <1>1, MergedOK
  <1>3. \A k \in Held(g) \ New : m[k] = g[k] /\ \E j \in Held(f) : g[k].order <= f[j].order
    BY MergedSame
  <1>4. \A k \in New : m[k].id = g[k].id /\ g[k].id \in U /\ m[k].order = Newest(f) + Rank(c, f, g[k].id)
    BY MergedNew
  <1>5. \A k \in New : Rank(c, f, g[k].id) \in Nat /\ Rank(c, f, g[k].id) > 0
    BY RankType
  <1>6. /\ \A k, j \in Held(g) :
             /\ g[k].order \in Nat /\ g[k].id \in Keys /\ w[g[k].id] \in Nat
             /\ g[k].order = g[j].order <=> g[k].id = g[j].id
             /\ g[k].order <= g[j].order <=> w[g[k].id] <= w[g[j].id]
    BY LackingType
  <1>7. \A k, j \in New : g[k].order < g[j].order => Rank(c, f, g[k].id) < Rank(c, f, g[j].id)
    BY RankGrows
  <1>8. ASSUME NEW k \in Held(g) \ New
        PROVE  /\ m[k].order <= Newest(f)
               /\ \A j \in New : w[g[k].id] < w[g[j].id]
    <2>1. PICK i \in Held(f) : g[k].order <= f[i].order
      BY <1>3
    <2>2. i \in Keys /\ f[i].order <= Newest(f) /\ f[i].order \in Nat
      BY <1>1, <2>1, NewestIs, HeldType
    <2>3. m[k].order <= Newest(f)
      BY <1>1, <1>3, <1>6, <2>1, <2>2
    <2>4. g[k] \in HeldIn(g) \cup HeldIn(f) /\ f[i] \in HeldIn(g) \cup HeldIn(f)
      BY <1>1, <2>1, HeldType
    <2>5. w[g[k].id] <= w[f[i].id] /\ f[i].id \in Keys
      BY <2>1, <2>4 DEF FirstHeld, CacheFirst, InOrder
    <2>6. f[i].id \in Keys \ U
      BY <2>5 DEF FirstHeld, FileFirst
    <2>7. ASSUME NEW j \in New PROVE w[g[k].id] < w[g[j].id]
      <3>1. w[f[i].id] < w[g[j].id]
        BY <1>4, <2>6 DEF FirstHeld, Places
      <3>2. w[f[i].id] \in Nat
        BY <2>6 DEF FirstHeld, Places
      <3> QED
        BY <1>1, <1>6, <2>5, <3>1, <3>2
    <2> QED
      BY <2>3, <2>7
  <1> HIDE DEF m, g, New
  <1>9. ASSUME NEW k \in Held(g) PROVE m[k].id = g[k].id /\ m[k].order \in Nat /\ m[k].order > 0
    <2>1. CASE k \in New
      <3>1. Rank(c, f, g[k].id) \in Nat /\ Rank(c, f, g[k].id) > 0 /\ m[k].order = Newest(f) + Rank(c, f, g[k].id)
        BY <1>4, <1>5, <2>1
      <3> QED
        BY <1>1, <1>4, <2>1, <3>1
    <2>2. CASE k \notin New
      BY <1>1, <1>3, <1>6, <2>2, HeldType
    <2> QED
      BY <2>1, <2>2
  <1>10. Held(m) = Held(g)
    <2>1. ASSUME NEW k \in Keys, k \notin Held(g) PROVE k \notin Held(m)
      <3>1. m[k] = Nothing
        BY <1>1, <2>1 DEF m, g, Merged
      <3> QED
        BY <1>2, <3>1, HeldType, ProjectionsType
    <2> QED
      BY <1>1, <1>2, <1>9, <2>1, HeldType
  <1>11. ASSUME NEW k \in Held(g), NEW j \in Held(g)
         PROVE  m[k].order <= m[j].order <=> w[m[k].id] <= w[m[j].id]
    <2>1. /\ m[k].order \in Nat /\ m[j].order \in Nat /\ m[k].id = g[k].id /\ m[j].id = g[j].id
          /\ w[g[k].id] \in Nat /\ w[g[j].id] \in Nat /\ g[k].order \in Nat /\ g[j].order \in Nat
      BY <1>6, <1>9
    <2>2. CASE k \in New /\ j \in New
      <3> DEFINE r == Rank(c, f, g[k].id)
                 s == Rank(c, f, g[j].id)
      <3>1. r \in Nat /\ s \in Nat /\ m[k].order = Newest(f) + r /\ m[j].order = Newest(f) + s
        BY <1>4, <1>5, <2>2
      <3>2. g[k].order <= g[j].order <=> w[g[k].id] <= w[g[j].id]
        BY <1>6
      <3>3. (g[k].order < g[j].order => r < s) /\ (g[j].order < g[k].order => s < r)
        BY <1>7, <2>2
      <3>4. g[k].order = g[j].order => r = s
        BY <1>6
      <3> HIDE DEF r, s
      <3> QED
        BY <1>1, <2>1, <3>1, <3>2, <3>3, <3>4
    <2>3. CASE k \notin New /\ j \notin New
      BY <1>3, <1>6, <2>3
    <2>4. CASE k \in New /\ j \notin New
      <3>1. m[k].order > Newest(f) /\ m[j].order <= Newest(f) /\ w[g[j].id] < w[g[k].id]
        <4>1. Rank(c, f, g[k].id) \in Nat /\ Rank(c, f, g[k].id) > 0 /\ m[k].order = Newest(f) + Rank(c, f, g[k].id)
          BY <1>4, <1>5, <2>4
        <4> QED
          BY <1>1, <1>8, <2>4, <4>1
      <3> QED
        BY <1>1, <2>1, <3>1
    <2>5. CASE k \notin New /\ j \in New
      <3>1. m[j].order > Newest(f) /\ m[k].order <= Newest(f) /\ w[g[k].id] < w[g[j].id]
        <4>1. Rank(c, f, g[j].id) \in Nat /\ Rank(c, f, g[j].id) > 0 /\ m[j].order = Newest(f) + Rank(c, f, g[j].id)
          BY <1>4, <1>5, <2>5
        <4> QED
          BY <1>1, <1>8, <2>5, <4>1
      <3> QED
        BY <1>1, <2>1, <3>1
    <2> QED
      BY <2>2, <2>3, <2>4, <2>5
  <1>12. \A k \in Held(g) : m[k].id \in Keys /\ w[m[k].id] > 0
    <2>1. ASSUME NEW k \in Held(g) PROVE g[k].id \in Keys /\ w[g[k].id] > 0
      BY <1>1, HeldType DEF FirstHeld, CacheFirst, InOrder, g
    <2> QED
      BY <1>9, <2>1
  <1>13. InOrder(HeldIn(m), w)
    BY <1>10, <1>11, <1>12 DEF InOrder, HeldIn
  <1> QED
    BY <1>2, <1>9, <1>10, <1>13 DEF g, m

\* Whatever is saved keeps its place.
LEMMA SaveFirst ==
  ASSUME NEW c, NEW f, NEW w, NEW U, FirstHeld(c, f, w, U)
  PROVE  FirstHeld(Save(c, f).cache, Save(c, f).file, w, {})
  <1> DEFINE m == Merged(c, f)
  <1>1. CASE c.dirty
    <2>1. Save(c, f) = [cache |-> Adopt(c, m), file |-> m]
      BY <1>1 DEF Save
    <2>2. Places(w, {})
      BY DEF FirstHeld, Places
    <2>3. /\ m \in Files /\ Held(m) = Held(c.proj) /\ \A k \in Held(c.proj) : m[k].id = c.proj[k].id
          /\ InOrder(HeldIn(m), w)
      BY MergedInOrder
    <2> HIDE DEF m
    <2>4. FileFirst(m, w, {})
      BY <2>3 DEF FileFirst, FirstHeld, CacheFirst
    <2>5. c \in Caches
      BY DEF FirstHeld
    <2>6. FirstHeld(Adopt(c, m), m, w, {})
      BY <2>2, <2>3, <2>4, <2>5, AdoptFirst
    <2> QED
      BY <2>1, <2>6
  <1>2. CASE ~c.dirty
    <2>1. U = {} /\ Save(c, f) = [cache |-> c, file |-> f]
      BY <1>2 DEF FirstHeld, Save
    <2> QED
      BY <2>1
  <1> QED
    BY <1>1, <1>2

\* A first ID is the last of all places, and unsaved.
LEMMA NewFirst ==
  ASSUME NEW c, NEW f, NEW w, NEW U, FirstHeld(c, f, w, U),
         NEW K \in SUBSET Keys, K # {}, K \cap Held(c.proj) = {},
         NEW n \in Nat, \A k \in Keys : w[k] <= n
  PROVE  LET id == Min(K)
         IN  /\ id \in Keys /\ ~(w[id] > 0)
             /\ FirstHeld(SetProjection(c, K, [id |-> id, order |-> c.next + 1]), f,
                          [w EXCEPT ![id] = n + 1], U \cup {id})
  <1> DEFINE id == Min(K)
             pr == [id |-> id, order |-> c.next + 1]
             d == SetProjection(c, K, pr)
             v == [w EXCEPT ![id] = n + 1]
             V == U \cup {id}
             P == HeldIn(c.proj) \cup HeldIn(f)
  <1>1. /\ c \in Caches /\ c.proj \in Files /\ c.next \in Nat /\ c.dirty \in BOOLEAN /\ f \in Files
        /\ w \in [Keys -> Nat] /\ U \in SUBSET Keys
    BY CacheType DEF FirstHeld, FileFirst, Places
  <1>2. id \in K /\ id \in Keys
    BY KeysType, MinType
  <1>3. ~(w[id] > 0)
    BY <1>2 DEF FirstHeld, CacheFirst
  <1>4. pr \in Projections /\ pr.id = id /\ pr.order = c.next + 1 /\ pr.order > 0 /\ pr.order \in Nat
    BY <1>1, <1>2 DEF Projections
  <1> HIDE DEF pr, id
  <1>5. v \in [Keys -> Nat] /\ v[id] = n + 1 /\ \A k \in Keys : k # id => v[k] = w[k]
    BY <1>1, <1>2
  <1>6. /\ d \in Caches /\ \A k \in Keys : d.proj[k] = IF k \in K THEN pr ELSE c.proj[k]
    BY <1>1, <1>4, SetProjectionType
  <1>7. d.next = Max({c.next, pr.order}) /\ c.next <= d.next /\ pr.order <= d.next
    <2>1. c.next <= Max({c.next, pr.order}) /\ pr.order <= Max({c.next, pr.order})
      BY <1>1, <1>4, MaxPairIs
    <2> QED
      BY <1>1, <2>1 DEF SetProjection, Caches
  <1>8. d.dirty
    <2>1. c.proj[id] # pr
      BY <1>1, <1>2, <1>4, HeldType
    <2>2. d.dirty = (c.dirty \/ \E k \in K : c.proj[k] # pr)
      BY <1>1 DEF SetProjection, Caches
    <2> QED
      BY <1>2, <2>1, <2>2
  <1> HIDE DEF d, v
  <1>9. Places(v, V)
    <2>1. \A k \in Keys : w[k] \in Nat /\ w[k] <= n
      BY <1>1
    <2>2. ASSUME NEW x \in Keys, NEW y \in Keys, v[x] = v[y], v[x] > 0 PROVE x = y
      <3>1. CASE x = id \/ y = id
        BY <1>5, <2>1, <2>2, <3>1
      <3>2. CASE x # id /\ y # id
        BY <1>5, <2>2, <3>2 DEF FirstHeld, Places
      <3> QED
        BY <3>1, <3>2
    <2>3. \A x \in V : v[x] > 0
      BY <1>1, <1>2, <1>5 DEF FirstHeld, Places
    <2>4. ASSUME NEW x \in V, NEW y \in Keys \ V PROVE v[y] < v[x]
      <3>1. CASE x = id
        BY <1>5, <2>1, <3>1
      <3>2. CASE x # id
        BY <1>1, <1>5, <3>2 DEF FirstHeld, Places
      <3> QED
        BY <3>1, <3>2
    <2> QED
      BY <1>1, <1>2, <1>5, <2>2, <2>3, <2>4 DEF Places
  <1>10. ASSUME NEW x \in P PROVE x.id \in Keys /\ x.id # id /\ v[x.id] = w[x.id] /\ w[x.id] > 0 /\ w[x.id] \in Nat
    <2>1. x.id \in Keys /\ w[x.id] > 0
      BY DEF FirstHeld, CacheFirst, InOrder
    <2> QED
      BY <1>1, <1>3, <1>5, <2>1
  <1>11. FileFirst(f, v, V)
    <2>1. \A k \in Held(f) : f[k] \in P
      BY <1>1, HeldType
    <2>2. InOrder(HeldIn(f), v)
      BY <1>10 DEF InOrder, FirstHeld, CacheFirst
    <2>3. \A k \in Held(f) : f[k].id \notin V
      BY <1>10, <2>1 DEF FirstHeld, FileFirst
    <2>4. ASSUME NEW y \in Keys \ V, v[y] > 0 PROVE y \in Held(f) /\ v[f[y].id] <= v[y]
      <3>1. v[y] = w[y]
        BY <1>5
      <3>2. y \in Held(f) /\ w[f[y].id] <= w[y]
        BY <2>4, <3>1 DEF FirstHeld, FileFirst
      <3> QED
        BY <1>10, <2>1, <3>1, <3>2
    <2> QED
      BY <1>1, <2>2, <2>3, <2>4 DEF FileFirst
  <1>12. d.proj \in Files /\ HeldIn(d.proj) \subseteq HeldIn(c.proj) \cup {pr}
    <2>1. d.proj \in Files
      BY <1>6, CacheType
    <2>2. ASSUME NEW k \in Held(d.proj) PROVE d.proj[k] \in HeldIn(c.proj) \cup {pr}
      <3>1. k \in Keys /\ d.proj[k].order > 0
        BY <2>1, HeldType
      <3> QED
        BY <1>1, <1>6, <3>1, HeldType
    <2> QED
      BY <2>1, <2>2 DEF HeldIn
  <1>13. P \in SUBSET Projections /\ \A x \in P : x.order \in Nat /\ x.order <= c.next
    <2>1. P \in SUBSET Projections /\ \A x \in P : x.order \in Nat
      BY <1>1, HeldType
    <2> QED
      BY <2>1 DEF FirstHeld
  <1>14. InOrder(P \cup {pr}, v)
    <2>1. \A x \in P \cup {pr} : x.id \in Keys /\ v[x.id] > 0
      BY <1>2, <1>4, <1>5, <1>10
    <2>2. ASSUME NEW x \in P \cup {pr}, NEW y \in P \cup {pr}
          PROVE  x.order <= y.order <=> v[x.id] <= v[y.id]
      <3>1. \A z \in P : z.order < pr.order /\ v[z.id] < v[pr.id] /\ v[z.id] \in Nat
        <4>1. ASSUME NEW z \in P PROVE z.order < pr.order /\ v[z.id] < v[pr.id] /\ v[z.id] \in Nat
          <5>1. w[z.id] <= n /\ v[z.id] = w[z.id] /\ w[z.id] \in Nat
            BY <1>10
          <5> QED
            BY <1>1, <1>4, <1>5, <1>13, <5>1
        <4> QED
          BY <4>1
      <3>2. pr.order \in Nat /\ v[pr.id] \in Nat
        BY <1>4, <1>5
      <3>3. CASE x \in P /\ y \in P
        <4>1. x.order <= y.order <=> w[x.id] <= w[y.id]
          BY <3>3 DEF FirstHeld, CacheFirst, InOrder
        <4> QED
          BY <1>10, <3>3, <4>1
      <3>4. CASE x = pr /\ y \in P
        BY <1>13, <3>1, <3>2, <3>4
      <3>5. CASE x \in P /\ y = pr
        BY <1>13, <3>1, <3>2, <3>5
      <3>6. CASE x = pr /\ y = pr
        BY <3>2, <3>6
      <3> QED
        BY <3>3, <3>4, <3>5, <3>6
    <2> HIDE DEF P
    <2> QED
      BY <2>1, <2>2 DEF InOrder
  <1>15. CacheFirst(d.proj, f, v, V)
    <2>1. InOrder(HeldIn(d.proj) \cup HeldIn(f), v)
      BY <1>12, <1>14 DEF InOrder
    <2>2. \A k \in Held(c.proj) : k \in Keys /\ c.proj[k] \in P /\ k \notin K
      BY <1>1, HeldType
    <2>3. \A k \in Held(c.proj) : k \in Held(d.proj) /\ d.proj[k] = c.proj[k]
      BY <1>1, <1>6, <1>12, <2>2, HeldType
    <2>4. id \in Held(d.proj) /\ d.proj[id] = pr
      BY <1>2, <1>4, <1>6, <1>12, HeldType
    <2>5. ASSUME NEW y \in Keys, v[y] > 0 PROVE y \in Held(d.proj) /\ v[d.proj[y].id] <= v[y]
      <3>1. CASE y = id
        BY <1>4, <1>5, <2>4, <3>1
      <3>2. CASE y # id
        <4>1. w[y] > 0 /\ v[y] = w[y]
          BY <1>5, <2>5, <3>2
        <4>2. y \in Held(c.proj) /\ w[c.proj[y].id] <= w[y]
          BY <4>1 DEF FirstHeld, CacheFirst
        <4> QED
          BY <1>10, <2>2, <2>3, <4>1, <4>2
      <3> QED
        BY <3>1, <3>2
    <2>6. ASSUME NEW k \in Held(f) PROVE k \in Held(d.proj) /\ d.proj[k].order <= f[k].order
      BY <2>3 DEF FirstHeld, CacheFirst
    <2>7. ASSUME NEW k \in Held(d.proj) PROVE d.proj[k].id \in V \/ d.proj[k] \in HeldIn(f)
      <3>1. k \in Keys /\ d.proj[k].order > 0
        BY <1>12, HeldType
      <3>2. CASE k \in K
        BY <1>4, <1>6, <3>1, <3>2
      <3>3. CASE k \notin K
        <4>1. d.proj[k] = c.proj[k] /\ k \in Held(c.proj)
          BY <1>1, <1>6, <3>1, <3>3, HeldType
        <4> QED
          BY <4>1 DEF FirstHeld, CacheFirst
      <3> QED
        BY <3>2, <3>3
    <2> QED
      BY <1>12, <2>1, <2>5, <2>6, <2>7 DEF CacheFirst
  <1>16. ASSUME NEW x \in HeldIn(d.proj) \cup HeldIn(f) PROVE x.order <= d.next
    <2>1. d.next \in Nat
      BY <1>6, CacheType
    <2>2. x = pr \/ (x.order \in Nat /\ x.order <= c.next)
      BY <1>12, <1>13
    <2> QED
      BY <1>1, <1>7, <2>1, <2>2
  <1>17. FirstHeld(d, f, v, V)
    BY <1>6, <1>8, <1>9, <1>11, <1>15, <1>16 DEF FirstHeld
  <1> QED
    BY <1>2, <1>3, <1>17 DEF d, pr, v, id
-----------------------------------------------------------------------------
(* What an adapter does with its cache.                                    *)
LEMMA UpKept ==
  ASSUME NEW c \in Caches
  PROVE  /\ \A K, pr : SetProjection(c, K, pr).up = c.up
         /\ \A f : f \in Files => Adopt(c, f).up = c.up /\ ~Adopt(c, f).dirty
  <1>1. ASSUME NEW K, NEW pr PROVE SetProjection(c, K, pr).up = c.up
    BY DEF SetProjection, Caches
  <1>2. ASSUME NEW f \in Files PROVE Adopt(c, f).up = c.up /\ ~Adopt(c, f).dirty
    <2> DEFINE new == [k \in Keys |-> IF k \in Held(f) THEN f[k] ELSE c.proj[k]]
               n == Max({c.next, Newest(f)})
               d == [c EXCEPT !.proj = new, !.next = n]
    <2>1. Adopt(c, f) = BindAll(d)
      BY DEF Adopt
    <2>2. new \in Files /\ n \in Nat
      BY CacheType, HeldType, NewestType, MaxPair
    <2> HIDE DEF new, n
    <2>3. d \in Caches /\ d.up = c.up
      BY <2>2 DEF Caches
    <2> HIDE DEF d
    <2>4. BindAll(d).up = d.up
      BY <2>3 DEF BindAll, Caches
    <2> QED
      BY <2>1, <2>3, <2>4, BindAllDrawn
  <1> QED
    BY <1>1, <1>2

LEMMA SaveUp ==
  ASSUME NEW c \in Caches, NEW f \in Files
  PROVE  Save(c, f).cache.up = c.up /\ ~Save(c, f).cache.dirty
  <1>1. Merged(c, f) \in Files
    BY MergedOK
  <1>2. CASE c.dirty
    <2>1. Save(c, f).cache = Adopt(c, Merged(c, f))
      BY <1>2 DEF Save
    <2> QED
      BY <1>1, <2>1, UpKept
  <1>3. CASE ~c.dirty
    BY <1>3 DEF Save
  <1> QED
    BY <1>2, <1>3

LEMMA RememberFirst ==
  ASSUME NEW c, NEW f, NEW w, NEW U, FirstHeld(c, f, w, U), NEW l \in Lids
  PROVE  FirstHeld(Remember(c, l, Owner[l]), f, w, U) /\ Remember(c, l, Owner[l]).up = c.up
  <1> DEFINE d == [c EXCEPT !.known = @ \cup {l}]
             K == {l, Owner[l]}
             pr == Earliest({d.proj[k] : k \in K \cap Held(d.proj)})
  <1>1. c \in Caches
    BY DEF FirstHeld
  <1>2. d \in Caches /\ d.up = c.up /\ d.proj = c.proj /\ d.next = c.next /\ d.dirty = c.dirty
    BY <1>1 DEF Caches
  <1>3. K \in SUBSET Keys
    BY KeysType
  <1>4. Remember(c, l, Owner[l]) = IF K \cap Held(d.proj) = {} THEN d ELSE SetProjection(d, K, pr)
    BY DEF Remember, Bind
  <1> HIDE DEF d, K
  <1>5. FirstHeld(d, f, w, U)
    BY <1>2 DEF FirstHeld
  <1>6. CASE K \cap Held(d.proj) = {}
    BY <1>2, <1>4, <1>5, <1>6
  <1>7. CASE K \cap Held(d.proj) # {}
    <2>1. FirstHeld(SetProjection(d, K, pr), f, w, U)
      BY <1>3, <1>5, <1>7, ShareFirst
    <2> HIDE DEF pr
    <2> QED
      BY <1>2, <1>4, <1>7, <2>1, UpKept
  <1> QED
    BY <1>6, <1>7

\* Giving out an ID: the next place, unless it has one.
NewPlace(w, id, n) == IF w[id] > 0 THEN w ELSE [w EXCEPT ![id] = n + 1]
NewUnsaved(w, U, id) == IF w[id] > 0 THEN U ELSE U \cup {id}

LEMMA ProjectFirst ==
  ASSUME NEW c, CacheOK(c), NEW f, NEW w, NEW U, FirstHeld(c, f, w, U),
         NEW l, NEW p, SightOK(l, p), NEW n \in Nat, \A k \in Keys : w[k] <= n
  PROVE  LET id == Given(c, l, p).id
         IN  /\ id \in Keys /\ Project(c, l, p).up = c.up
             /\ FirstHeld(Project(c, l, p), f, NewPlace(w, id, n), NewUnsaved(w, U, id))
  <1> DEFINE d == Alias(c, l, p)
             K == SidesKnown(d, l, p)
             pr == Chosen(d, K)
  <1>1. CacheOK(d) /\ d \in Caches /\ (l # 0 /\ p # 0 => l \in d.known)
    BY AliasOK DEF CacheOK
  <1>2. FirstHeld(d, f, w, U) /\ d.up = c.up
    <2>1. CASE l # 0 /\ p # 0
      <3>1. l \in Lids /\ p = Owner[l]
        BY <2>1 DEF SightOK, Sighted
      <3> QED
        BY <2>1, <3>1, RememberFirst DEF Alias
    <2>2. CASE ~(l # 0 /\ p # 0)
      BY <2>2 DEF Alias
    <2> QED
      BY <2>1, <2>2
  <1>3. Given(c, l, p) = pr /\ Project(c, l, p) = SetProjection(d, K, pr)
    BY DEF Given, Project
  <1> HIDE DEF d
  <1>4. K \in SUBSET Keys /\ K # {}
    BY <1>1, SidesType
  <1> HIDE DEF K
  <1>5. CASE K \cap Held(d.proj) # {}
    <2>1. pr = Earliest({d.proj[k] : k \in K \cap Held(d.proj)})
      BY <1>5 DEF Chosen
    <2>2. FirstHeld(SetProjection(d, K, pr), f, w, U) /\ pr \in HeldIn(d.proj)
      BY <1>2, <1>4, <1>5, <2>1, ShareFirst
    <2>3. pr.id \in Keys /\ w[pr.id] > 0
      BY <1>2, <2>2 DEF FirstHeld, CacheFirst, InOrder
    <2> HIDE DEF pr
    <2> QED
      BY <1>1, <1>2, <1>3, <2>2, <2>3, UpKept DEF NewPlace, NewUnsaved
  <1>6. CASE K \cap Held(d.proj) = {}
    <2>1. pr = [id |-> Min(K), order |-> d.next + 1]
      BY <1>6 DEF Chosen
    <2>2. /\ Min(K) \in Keys /\ ~(w[Min(K)] > 0)
          /\ FirstHeld(SetProjection(d, K, pr), f, [w EXCEPT ![Min(K)] = n + 1], U \cup {Min(K)})
      BY <1>2, <1>4, <1>6, <2>1, NewFirst
    <2>3. pr.id = Min(K)
      BY <2>1
    <2> HIDE DEF pr
    <2> QED
      BY <1>1, <1>2, <1>3, <2>2, <2>3, UpKept DEF NewPlace, NewUnsaved
  <1> QED
    BY <1>5, <1>6

LEMMA LastType ==
  ASSUME place \in [Keys -> Nat]
  PROVE  Last \in Nat /\ \A k \in Keys : place[k] <= Last
  <1> DEFINE S == {0} \cup {place[k] : k \in Keys}
             g == [k \in Keys |-> [order |-> place[k]]]
  <1>1. PICK n \in Nat : \A k \in Keys : g[k].order <= n
    <2>1. \A k \in Keys : g[k].order \in Nat
      OBVIOUS
    <2> HIDE DEF g
    <2> QED
      BY <2>1, KeysType, OrdersBounded
  <1>2. S \subseteq Nat /\ S # {} /\ \A y \in S : y <= n
    <2>1. \A k \in Keys : place[k] <= n
      BY <1>1
    <2> QED
      BY <2>1
  <1>3. Last = Max(S) /\ \A k \in Keys : place[k] \in S
    BY DEF Last
  <1> HIDE DEF S, g
  <1>4. Max(S) \in S /\ \A y \in S : y <= Max(S)
    BY <1>2, MaxType
  <1> QED
    BY <1>2, <1>3, <1>4

LEMMA ExposeFirst ==
  ASSUME IdentityInv, NEW a \in Adapters, NEW c, CacheOK(c), NEW f, NEW U, FirstHeld(c, f, place, U),
         NEW l, NEW p, SightOK(l, p), NEW ok, Expose(a, c, f, l, p, ok), U = unsaved \/ (ok /\ U = {})
  PROVE  /\ FirstHeld(cache'[a], file', place', unsaved') /\ cache'[a].up = c.up
         /\ \A b \in Adapters \ {a} : cache'[b] = cache[b]
  <1> DEFINE d == Project(c, l, p)
             id == Given(c, l, p).id
             v == NewPlace(place, id, Last)
             V == NewUnsaved(place, U, id)
  <1>1. place \in [Keys -> Nat]
    BY DEF FirstHeld, Places
  <1>2. Last \in Nat /\ \A k \in Keys : place[k] <= Last
    BY <1>1, LastType
  <1>3. d.up = c.up /\ FirstHeld(d, f, v, V)
    BY <1>2, ProjectFirst
  <1>4. d \in Caches /\ f \in Files /\ cache \in [Adapters -> Caches]
    BY <1>3 DEF FirstHeld, FileFirst, IdentityInv
  <1>5. Written(a, d, f, ok) /\ Exposed(a, id)
    BY DEF Expose
  <1>6. place' = v /\ unsaved' = IF ~cache'[a].dirty THEN {} ELSE NewUnsaved(place, unsaved, id)
    BY <1>5 DEF Exposed, NewPlace, NewUnsaved
  <1> HIDE DEF d, id
  <1>7. CASE d.dirty /\ ~ok
    <2>1. cache' = [cache EXCEPT ![a] = d] /\ file' = f
      BY <1>5, <1>7 DEF Written
    <2>2. cache'[a] = d /\ \A b \in Adapters \ {a} : cache'[b] = cache[b]
      BY <1>4, <2>1
    <2>3. U = unsaved /\ unsaved' = V
      BY <1>6, <1>7, <2>2
    <2> QED
      BY <1>3, <1>6, <2>1, <2>2, <2>3
  <1>8. CASE ~(d.dirty /\ ~ok)
    <2>1. cache' = [cache EXCEPT ![a] = Save(d, f).cache] /\ file' = Save(d, f).file
      BY <1>5, <1>8 DEF Written
    <2>2. cache'[a] = Save(d, f).cache /\ \A b \in Adapters \ {a} : cache'[b] = cache[b]
      BY <1>4, <2>1
    <2>3. ~cache'[a].dirty /\ cache'[a].up = d.up
      BY <1>4, <2>2, SaveUp
    <2>4. FirstHeld(cache'[a], file', v, {})
      BY <1>3, <2>1, <2>2, SaveFirst
    <2> QED
      BY <1>3, <1>6, <2>2, <2>3, <2>4
  <1> QED
    BY <1>7, <1>8

LEMMA LearnFirst ==
  ASSUME IdentityInv, NEW a \in Adapters, FirstHeld(cache[a], file, place, unsaved),
         NEW l \in Lids, NEW ok, Learn(a, l, ok)
  PROVE  /\ FirstHeld(cache'[a], file', place', unsaved') /\ cache'[a].up = cache[a].up
         /\ \A b \in Adapters \ {a} : cache'[b] = cache[b]
  <1> DEFINE c == Remember(cache[a], l, Owner[l])
             s == IF ok THEN Save(c, file) ELSE [cache |-> c, file |-> file]
             U == IF ok THEN {} ELSE unsaved
  <1>1. CacheOK(c) /\ file \in Files
    BY RememberOK DEF IdentityInv
  <1>2. FirstHeld(c, file, place, unsaved) /\ c.up = cache[a].up
    BY RememberFirst
  <1>3. Expose(a, s.cache, s.file, l, Owner[l], ok)
    BY DEF Learn
  <1> HIDE DEF c
  <1>4. CacheOK(s.cache) /\ FirstHeld(s.cache, s.file, place, U) /\ s.cache.up = c.up
    <2>1. CASE ok
      <3>1. c \in Caches
        BY <1>1 DEF CacheOK
      <3> QED
        BY <1>1, <1>2, <2>1, <3>1, SaveOK, SaveFirst, SaveUp
    <2>2. CASE ~ok
      BY <1>1, <1>2, <2>2
    <2> QED
      BY <2>1, <2>2
  <1>5. SightOK(l, Owner[l])
    BY KeysType DEF SightOK, Sighted, Sides
  <1>6. U = unsaved \/ (ok /\ U = {})
    OBVIOUS
  <1> HIDE DEF s, U
  <1> QED
    BY <1>2, <1>3, <1>4, <1>5, <1>6, ExposeFirst
-----------------------------------------------------------------------------
(* Every step keeps the places.                                            *)
AtMostOne == \A a, b \in Adapters : cache[a].up /\ cache[b].up => a = b
SavedWhenOff ==
  /\ \A a \in Adapters : ~cache[a].up => ~cache[a].dirty
  /\ (\A a \in Adapters : ~cache[a].up) => unsaved = {}
UpHolds == \A a \in Adapters : cache[a].up => FirstHeld(cache[a], file, place, unsaved)
FirstInv ==
  calm => /\ AtMostOne /\ SavedWhenOff /\ UpHolds
          /\ Places(place, unsaved) /\ FileFirst(file, place, unsaved)

LEMMA ForgetFirst ==
  ASSUME IdentityInv, FirstInv, calm, NEW a \in Adapters, Forget(a), \A b \in Adapters \ {a} : ~cache[b].up
  PROVE  unsaved' = {} /\ Places(place', {}) /\ FileFirst(file, place', {})
  <1>1. Places(place, unsaved) /\ FileFirst(file, place, unsaved) /\ file \in Files
    BY DEF FirstInv, IdentityInv
  <1>2. CASE cache[a].dirty
    <2>1. place' = [k \in Keys |-> IF k \in unsaved THEN 0 ELSE place[k]] /\ unsaved' = {}
      BY <1>2 DEF Forget
    <2>2. \A k \in Held(file) : file[k].id \in Keys \ unsaved
      BY <1>1, HeldType DEF FileFirst, InOrder
    <2>3. Places(place', {})
      BY <1>1, <2>1 DEF Places
    <2>4. InOrder(HeldIn(file), place')
      BY <1>1, <2>1, <2>2 DEF FileFirst, InOrder, HeldIn
    <2>5. ASSUME NEW id \in Keys, place'[id] > 0 PROVE id \in Held(file) /\ place'[file[id].id] <= place'[id]
      <3>1. id \notin unsaved /\ place'[id] = place[id]
        BY <2>1, <2>5
      <3>2. id \in Held(file) /\ place[file[id].id] <= place[id]
        BY <1>1, <2>5, <3>1 DEF FileFirst
      <3> QED
        BY <2>1, <2>2, <3>1, <3>2
    <2> QED
      BY <1>1, <2>1, <2>3, <2>4, <2>5 DEF FileFirst
  <1>3. CASE ~cache[a].dirty
    <2>1. place' = place /\ unsaved' = unsaved
      BY <1>3 DEF Forget
    <2>2. unsaved = {}
      <3>1. CASE cache[a].up
        BY <1>3, <3>1 DEF FirstInv, UpHolds, FirstHeld
      <3>2. CASE ~cache[a].up
        BY <3>2 DEF FirstInv, SavedWhenOff
      <3> QED
        BY <3>1, <3>2
    <2> QED
      BY <1>1, <2>1, <2>2
  <1> QED
    BY <1>2, <1>3

LEMMA LoadFirst ==
  ASSUME NEW links \in SUBSET Lids, NEW f, NEW w, Places(w, {}), FileFirst(f, w, {})
  PROVE  FirstHeld(Load(links, f), f, w, {}) /\ Load(links, f).up
  <1> DEFINE c == [Off EXCEPT !.up = TRUE, !.known = links]
  <1>1. c \in Caches /\ c.up /\ c.proj = Off.proj
    BY OffOK DEF CacheOK, Caches
  <1>2. Held(c.proj) = {}
    BY <1>1 DEF Off, Held, Nothing
  <1>3. Load(links, f) = Adopt(c, f) /\ f \in Files
    BY DEF Load, FileFirst
  <1> HIDE DEF c
  <1> QED
    BY <1>1, <1>2, <1>3, AdoptFirst, UpKept

LEMMA StartFirst ==
  ASSUME IdentityInv, FirstInv, NEW a \in Adapters, Start(a) \/ Stop(a)
  PROVE  FirstInv'
  <1> SUFFICES ASSUME calm' PROVE FirstInv'
    BY DEF FirstInv
  <1>1. cache \in [Adapters -> Caches] /\ linked \in SUBSET Lids
    BY DEF IdentityInv
  <1>2. CASE Start(a)
    <2>1. calm /\ (\A b \in Adapters \ {a} : ~cache[b].up) /\ Forget(a) /\ file' = file
      BY <1>2 DEF Start, disk
    <2>2. unsaved' = {} /\ Places(place', {}) /\ FileFirst(file, place', {})
      BY <2>1, ForgetFirst
    <2>3. FirstHeld(Load(linked, file), file, place', {}) /\ Load(linked, file).up
      BY <1>1, <2>2, LoadFirst
    <2>4. cache'[a] = Load(linked, file) /\ \A b \in Adapters \ {a} : cache'[b] = cache[b]
      BY <1>1, <1>2 DEF Start
    <2>5. AtMostOne'
      BY <2>1, <2>4 DEF AtMostOne
    <2>6. SavedWhenOff'
      BY <2>1, <2>2, <2>3, <2>4 DEF SavedWhenOff, FirstInv
    <2>7. UpHolds'
      BY <2>1, <2>2, <2>3, <2>4 DEF UpHolds
    <2> QED
      BY <2>1, <2>2, <2>5, <2>6, <2>7 DEF FirstInv
  <1>3. CASE Stop(a)
    <2>1. calm /\ cache[a].up /\ Forget(a) /\ file' = file
      BY <1>3 DEF Stop, disk
    <2>2. \A b \in Adapters \ {a} : ~cache[b].up
      BY <2>1 DEF FirstInv, AtMostOne
    <2>3. unsaved' = {} /\ Places(place', {}) /\ FileFirst(file, place', {})
      BY <2>1, <2>2, ForgetFirst
    <2>4. cache'[a] = Off /\ \A b \in Adapters \ {a} : cache'[b] = cache[b]
      BY <1>1, <1>3 DEF Stop
    <2>5. \A b \in Adapters : ~cache'[b].up /\ ~cache'[b].dirty
      BY <2>1, <2>2, <2>4 DEF Off, FirstInv, SavedWhenOff
    <2> QED
      BY <2>1, <2>3, <2>5 DEF FirstInv, AtMostOne, SavedWhenOff, UpHolds
  <1> QED
    BY <1>2, <1>3

\* A running adapter replaced its cache.
LEMMA WorkedFirst ==
  ASSUME FirstInv, calm, NEW a \in Adapters, cache[a].up,
         FirstHeld(cache'[a], file', place', unsaved'), cache'[a].up,
         \A b \in Adapters \ {a} : cache'[b] = cache[b]
  PROVE  FirstInv'
  <1>1. \A b \in Adapters \ {a} : ~cache'[b].up /\ ~cache'[b].dirty
    BY DEF FirstInv, AtMostOne, SavedWhenOff
  <1> QED
    BY <1>1 DEF FirstInv, AtMostOne, SavedWhenOff, UpHolds, FirstHeld

LEMMA MessageFirst ==
  ASSUME IdentityInv, FirstInv, NEW a \in Adapters, NEW l, NEW p, SightOK(l, p), NEW ok,
         Message(a, l, p, ok) \/ ListMember(a, l, p, ok)
  PROVE  FirstInv'
  <1>1. calm' = calm /\ cache[a].up
    BY DEF Message, ListMember
  <1> SUFFICES ASSUME calm PROVE FirstInv'
    BY <1>1 DEF FirstInv
  <1>2. CacheOK(cache[a]) /\ FirstHeld(cache[a], file, place, unsaved)
    BY <1>1 DEF IdentityInv, FirstInv, UpHolds
  <1>3. CASE Message(a, l, p, ok) /\ l # 0 /\ p # 0 /\ l \notin cache[a].known
    <2>1. l \in Lids /\ Learn(a, l, ok)
      BY <1>3 DEF Message, SightOK
    <2> QED
      BY <1>1, <1>2, <2>1, LearnFirst, WorkedFirst
  <1>4. CASE Message(a, l, p, ok) /\ ~(l # 0 /\ p # 0 /\ l \notin cache[a].known)
    <2> DEFINE q == IF p = 0 THEN PnOf(cache[a], l) ELSE p
    <2>1. Expose(a, cache[a], file, l, q, ok)
      BY <1>4 DEF Message
    <2>2. SightOK(l, q)
      BY KeysType DEF SightOK, Sighted, Sides, PnOf
    <2> HIDE DEF q
    <2> QED
      BY <1>1, <1>2, <2>1, <2>2, ExposeFirst, WorkedFirst
  <1>5. CASE ListMember(a, l, p, ok)
    <2>1. Expose(a, cache[a], file, l, p, ok)
      BY <1>5 DEF ListMember
    <2> QED
      BY <1>1, <1>2, <2>1, ExposeFirst, WorkedFirst
  <1> QED
    BY <1>3, <1>4, <1>5

LEMMA AnswerFirst ==
  ASSUME IdentityInv, FirstInv, NEW a \in Adapters, NEW ok, Answered(a, ok) \/ Unanswered(a, ok)
  PROVE  FirstInv'
  <1>1. calm' = calm /\ cache[a].up /\ asking[a] \in Lids
    BY DEF Answered, Unanswered, IdentityInv
  <1> SUFFICES ASSUME calm PROVE FirstInv'
    BY <1>1 DEF FirstInv
  <1>2. CacheOK(cache[a]) /\ FirstHeld(cache[a], file, place, unsaved)
    BY <1>1 DEF IdentityInv, FirstInv, UpHolds
  <1>3. CASE Answered(a, ok)
    <2>1. Learn(a, asking[a], ok)
      BY <1>3 DEF Answered
    <2> QED
      BY <1>1, <1>2, <2>1, LearnFirst, WorkedFirst
  <1>4. CASE Unanswered(a, ok)
    <2>1. Expose(a, cache[a], file, asking[a], 0, ok)
      BY <1>4 DEF Unanswered
    <2>2. SightOK(asking[a], 0)
      BY <1>1, KeysType DEF SightOK, Sighted, Sides
    <2> QED
      BY <1>1, <1>2, <2>1, <2>2, ExposeFirst, WorkedFirst
  <1> QED
    BY <1>3, <1>4

LEMMA FirstSame ==
  ASSUME FirstInv, UNCHANGED <<file, cache, place, unsaved, calm>>
  PROVE  FirstInv'
  BY DEF FirstInv, AtMostOne, SavedWhenOff, UpHolds

LEMMA FirstInit == Init => FirstInv
  <1> SUFFICES ASSUME Init PROVE FirstInv
    OBVIOUS
  <1>1. \A a \in Adapters : ~cache[a].up /\ ~cache[a].dirty
    BY DEF Init, Off
  <1>2. Places(place, unsaved)
    BY DEF Init, Places
  <1>3. file \in Files /\ Held(file) = {}
    BY ProjectionsType DEF Init, Files, Held
  <1>4. FileFirst(file, place, unsaved)
    BY <1>3 DEF Init, FileFirst, InOrder, HeldIn
  <1> QED
    BY <1>1, <1>2, <1>4 DEF Init, FirstInv, AtMostOne, SavedWhenOff, UpHolds

LEMMA FirstStep == IdentityInv /\ FirstInv /\ [Next]_vars => FirstInv'
  <1> SUFFICES ASSUME IdentityInv, FirstInv, [Next]_vars PROVE FirstInv'
    OBVIOUS
  <1>1. ASSUME NEW a \in Adapters, NEW l \in Lids \cup {0}, NEW p \in Pns \cup {0}, NEW ok \in BOOLEAN,
               Sighted(l, p), Message(a, l, p, ok) \/ ListMember(a, l, p, ok)
        PROVE  FirstInv'
    BY <1>1, MessageFirst DEF SightOK
  <1>2. ASSUME NEW l \in Lids, GatewayLearns(l) PROVE FirstInv'
    BY <1>2, FirstSame DEF GatewayLearns
  <1>3. ASSUME NEW a \in Adapters, NEW l \in Lids, Ask(a, l) PROVE FirstInv'
    BY <1>3, FirstSame DEF Ask, disk
  <1>4. CASE UNCHANGED vars
    BY <1>4, FirstSame DEF vars, disk
  <1> QED
    BY <1>1, <1>2, <1>3, <1>4, StartFirst, AnswerFirst DEF Next

LEMMA FirstInvariant == Spec => []FirstInv
  BY IdentityInvariant, FirstInit, FirstStep, PTL DEF Spec

\* An identity that was given out is given what it holds, or what its number holds.
LEMMA InvFirstStays == IdentityInv /\ FirstInv => FirstIdStays
  <1> SUFFICES ASSUME IdentityInv, FirstInv, calm, NEW a \in Adapters, NEW k \in Keys, cache[a].up,
                      NEW id \in Together(cache[a], k), place[id] > 0
               PROVE  place[IdOf(cache[a], k)] \in 1 .. place[id]
    BY DEF FirstIdStays
  <1> DEFINE c == cache[a]
             n == Person(id)
             P == HeldIn(c.proj) \cup HeldIn(file)
  <1>1. CacheOK(c) /\ c \in Caches /\ c.known \subseteq Lids /\ c.proj \in Files
    BY CacheType DEF IdentityInv, CacheOK
  <1>2. FirstHeld(c, file, place, unsaved) /\ place \in [Keys -> Nat]
    BY DEF FirstInv, UpHolds, FirstHeld, Places
  <1>3. IdOf(c, id) = IdOf(c, k)
    BY InvOneId DEF OnePersonOneId
  <1>4. id \in Keys /\ n \in Keys /\ (id \in Lids \ c.known => id = k)
    BY <1>1, KeysType DEF Together, Person
  <1>5. id \in Held(c.proj) /\ place[c.proj[id].id] <= place[id]
    BY <1>2, <1>4 DEF FirstHeld, CacheFirst
  <1>6. c.proj[id] \in P /\ c.proj[id] \in Projections /\ c.proj[id].order > 0
    BY <1>1, <1>4, <1>5, HeldType
  <1>7. \A x \in P : x.id \in Keys /\ place[x.id] > 0
    BY <1>2 DEF FirstHeld, CacheFirst, InOrder
  <1> HIDE DEF c
  <1>8. CASE id \in Lids \ c.known
    <2>1. IdOf(c, id) = c.proj[id].id
      <3>1. id # 0 /\ id \notin Pns
        BY <1>4, <1>8, KeysType
      <3>2. SidesKnown(c, id, 0) = {id}
        BY <1>8, <3>1 DEF SidesKnown, Sides, PnOf
      <3>3. IdOf(c, id) = Chosen(c, {id}).id
        BY <1>8, <3>1, <3>2 DEF IdOf, Given, Alias
      <3> DEFINE S == {c.proj[j] : j \in {id} \cap Held(c.proj)}
      <3>4. S = {c.proj[id]} /\ Chosen(c, {id}) = Earliest(S)
        BY <1>5 DEF Chosen
      <3>5. Earliest(S) \in S
        <4> HIDE DEF S
        <4>1. S \subseteq Projections /\ S # {}
          BY <1>6, <3>4
        <4> QED
          BY <4>1, EarliestType
      <3> QED
        BY <3>3, <3>4, <3>5
    <2>2. c.proj[id].id \in Keys /\ place[c.proj[id].id] > 0
      BY <1>6, <1>7
    <2> QED
      BY <1>2, <1>3, <1>4, <1>5, <2>1, <2>2 DEF c
  <1>9. CASE id \notin Lids \ c.known
    <2>1. c.proj[n].order > 0 /\ c.proj[n].order <= c.proj[id].order
      <3>1. CASE id \in Lids
        <4>1. n = Owner[id] /\ id \in c.known
          BY <1>9, <3>1 DEF Person
        <4>2. c.proj[n].order > 0 /\ Before(c.proj[n], c.proj[id])
          BY <1>1, <1>6, <4>1 DEF CacheOK, LedAt
        <4>3. c.proj[n].order \in Nat /\ c.proj[id].order \in Nat
          BY <1>1, <1>4, HeldType
        <4> QED
          BY <4>2, <4>3 DEF Before
      <3>2. CASE id \notin Lids
        <4>1. n = id
          BY <3>2 DEF Person
        <4>2. c.proj[id].order \in Nat
          BY <1>1, <1>4, HeldType
        <4> QED
          BY <1>6, <4>1, <4>2
      <3> QED
        BY <3>1, <3>2
    <2>2. IdOf(c, id) = c.proj[n].id
      BY <1>1, <1>4, <1>9, <2>1, IdOfLinked
    <2>3. c.proj[n] \in P
      BY <1>1, <1>4, <2>1, HeldType
    <2>4. place[c.proj[n].id] <= place[c.proj[id].id]
      BY <1>2, <1>6, <2>1, <2>3 DEF FirstHeld, CacheFirst, InOrder
    <2>5. c.proj[n].id \in Keys /\ place[c.proj[n].id] > 0 /\ c.proj[id].id \in Keys
      BY <1>6, <1>7, <2>3
    <2>6. place[c.proj[n].id] \in Nat /\ place[c.proj[id].id] \in Nat /\ place[id] \in Nat
      BY <1>2, <1>4, <2>5
    <2> QED
      BY <1>3, <1>5, <2>2, <2>4, <2>5, <2>6 DEF c
  <1> QED
    BY <1>8, <1>9

(* While no two adapters ran at once, whoever is sighted next is given the  *)
(* earliest of the public IDs that were ever given out for an identity     *)
(* known to be theirs, whatever was linked, restarted, refused or merged   *)
(* in between (_bind_mapping_projections, _projection_payload,             *)
(* _load_identity_projections).                                            *)
THEOREM FirstStays == Spec => []FirstIdStays
  BY IdentityInvariant, FirstInvariant, InvFirstStays, PTL
=============================================================================
