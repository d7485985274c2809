------------------------------ MODULE PublicIds ------------------------------
(***************************************************************************)
(* The IdentityMappingCache of whatsapp_identity.py and the file it is      *)
(* saved to, as operators: which public ID an identity is given, how a link *)
(* between a LID and a phone number joins what both were given, and what a  *)
(* save makes of the projections that another cache saved.                  *)
(*                                                                          *)
(* Identities are numbers: those of PNs are below those of LIDs, as the     *)
(* strings of their public IDs are, and the public ID made from an identity *)
(* is that identity. Hosted domains and device suffixes (one identity with  *)
(* its plain domain) are left out, and a link is true and does not change.  *)
(***************************************************************************)
EXTENDS Naturals, FiniteSets, FiniteSetsExt

CONSTANTS Lids, Pns,  \* the identities of persons
          Owner       \* the PN of each LID, as WhatsApp knows it

ASSUME IdentityAssumption ==
  /\ Lids \subseteq Nat \ {0} /\ Pns \subseteq Nat \ {0} /\ IsFiniteSet(Lids \cup Pns)
  /\ \A p \in Pns, l \in Lids : p < l
  /\ Owner \in [Lids -> Pns]

Keys == Lids \cup Pns
Projections == [id : Keys \cup {0}, order : Nat]
Nothing == [id |-> 0, order |-> 0]
Files == [Keys -> Projections]
Caches == [up : BOOLEAN, known : SUBSET Lids, proj : Files, next : Nat, dirty : BOOLEAN]
Off == [up |-> FALSE, known |-> {}, proj |-> [k \in Keys |-> Nothing], next |-> 0, dirty |-> FALSE]

Held(f) == {k \in Keys : f[k].order > 0}
Newest(f) == Max({0} \cup {f[k].order : k \in Keys})
\* The order decides, then the ID.
Before(x, y) == x.order < y.order \/ (x.order = y.order /\ x.id <= y.id)
Earliest(S) == CHOOSE x \in S : \A y \in S : Before(x, y)

\* Both sides of a link, or as many as are given (0: none).
Sides(l, p) == {l, p} \ {0}
PnOf(c, l) == IF l \in c.known THEN Owner[l] ELSE 0
LidsOf(c, p) == {l \in c.known : Owner[l] = p}
LidFor(c, p) == IF LidsOf(c, p) = {} THEN 0 ELSE Min(LidsOf(c, p))
-----------------------------------------------------------------------------
\* Gives all of K one projection.
SetProjection(c, K, pr) ==
  [c EXCEPT !.proj = [k \in Keys |-> IF k \in K THEN pr ELSE c.proj[k]],
            !.next = Max({c.next, pr.order}),
            !.dirty = c.dirty \/ \E k \in K : c.proj[k] # pr]

\* The sides of a link share the earlier of their projections.
\* Mutant: the projection of the number wins.
BindNumber(c, l, p) ==
  LET has == {l, p} \cap Held(c.proj)
  IN  IF has = {} THEN c ELSE SetProjection(c, {l, p}, c.proj[IF p \in has THEN p ELSE l])
Bind(c, l, p) ==
  LET has == {l, p} \cap Held(c.proj)
  IN  IF has = {} THEN c ELSE SetProjection(c, {l, p}, Earliest({c.proj[k] : k \in has}))
Remember(c, l, p) == Bind([c EXCEPT !.known = @ \cup {l}], l, p)

\* Every link is bound again, in the order of the LIDs: a LID shares what its number and the
\* LIDs bound before it have, the number what all of them have.
BoundTo(c, k) ==
  IF k \in Pns THEN {k} \cup LidsOf(c, k)
  ELSE {k, Owner[k]} \cup {l \in LidsOf(c, Owner[k]) : l < k}
\* Mutant: links are not bound after a load.
BindNone(c) == [c EXCEPT !.dirty = FALSE]
BindAll(c) ==
  [c EXCEPT !.dirty = FALSE,
            !.proj = [k \in Keys |->
               LET has == BoundTo(c, k) \cap Held(c.proj)
               IN  IF has = {} \/ k \in Lids \ c.known THEN c.proj[k]
                   ELSE Earliest({c.proj[j] : j \in has})]]
\* The projections of a file, over those of the cache.
Adopt(c, f) ==
  BindAll([c EXCEPT !.proj = [k \in Keys |-> IF k \in Held(f) THEN f[k] ELSE @[k]],
                    !.next = Max({@, Newest(f)})])
Load(links, f) == Adopt([Off EXCEPT !.up = TRUE, !.known = links], f)

\* What project_public_id remembers and looks at for one identity.
Alias(c, l, p) == IF l # 0 /\ p # 0 THEN Remember(c, l, p) ELSE c
SidesKnown(c, l, p) == Sides(IF l = 0 THEN LidFor(c, p) ELSE l, IF p = 0 THEN PnOf(c, l) ELSE p)
\* The earliest projection of its sides; a first one is made from the PN if there is one.
Chosen(c, K) ==
  IF K \cap Held(c.proj) # {} THEN Earliest({c.proj[k] : k \in K \cap Held(c.proj)})
  ELSE [id |-> Min(K), order |-> c.next + 1]
Given(c, l, p) == LET d == Alias(c, l, p) IN Chosen(d, SidesKnown(d, l, p))
Project(c, l, p) ==
  LET d == Alias(c, l, p) IN SetProjection(d, SidesKnown(d, l, p), Given(c, l, p))
-----------------------------------------------------------------------------
\* What a save makes of a file: a key it holds keeps its projection unless the cache's is
\* earlier; a key it lacks joins its public ID, and a new ID comes after all others.
Sooner(c, k, j) ==
  \/ c.proj[k].order < c.proj[j].order
  \/ c.proj[k].order = c.proj[j].order /\ (k = j \/ (k \in Lids /\ j \in Pns) \/ (k < j /\ (k \in Lids <=> j \in Lids)))
Lacking(c, f) == {k \in Held(c.proj) \ Held(f) : \A j \in Held(f) : f[j].id # c.proj[k].id}
\* The keys that are the first of their ID.
Leading(c, f) ==
  {k \in Lacking(c, f) : \A j \in Lacking(c, f) : c.proj[j].id = c.proj[k].id => Sooner(c, k, j)}
OrderOf(c, f, id) ==
  IF \E j \in Held(f) : f[j].id = id THEN Min({f[j].order : j \in {i \in Held(f) : f[i].id = id}})
  ELSE Newest(f) + Cardinality({k \in Leading(c, f) :
         \E j \in Leading(c, f) : c.proj[j].id = id /\ Sooner(c, k, j)})
\* Mutant: the last writer wins.
OverridesAll(c, f, k) == 0 < c.proj[k].order
Overrides(c, f, k) == 0 < c.proj[k].order /\ c.proj[k].order < f[k].order
Merged(c, f) ==
  [k \in Keys |->
     CASE k \in Held(f) -> IF Overrides(c, f, k) THEN c.proj[k] ELSE f[k]
       [] k \in Held(c.proj) \ Held(f) ->
            [id |-> c.proj[k].id, order |-> OrderOf(c, f, c.proj[k].id)]
       [] OTHER -> Nothing]

\* One save of what changed: the merged file is written and read back.
Save(c, f) ==
  IF c.dirty THEN [cache |-> Adopt(c, Merged(c, f)), file |-> Merged(c, f)]
  ELSE [cache |-> c, file |-> f]
-----------------------------------------------------------------------------
Person(k) == IF k \in Lids THEN Owner[k] ELSE k
\* The identities that a cache knows to be one person's.
Together(c, k) ==
  IF k \in Lids \ c.known THEN {k}
  ELSE {Person(k)} \cup {l \in c.known : Owner[l] = Person(k)}
IdOf(c, k) == Given(c, IF k \in Lids THEN k ELSE 0, IF k \in Pns THEN k ELSE 0).id
=============================================================================
