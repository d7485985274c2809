------------------------- MODULE IdentityProjection -------------------------
(***************************************************************************)
(* The public IDs of contacts over the life of their adapters: a person is  *)
(* reached by a phone number and by one or more LIDs, the links between     *)
(* them become known late, and the first public ID a person was given must  *)
(* stay theirs over restarts, failed writes and a hot reload that leaves    *)
(* two adapters with caches of their own. A second auth session is not      *)
(* modelled.                                                                *)
(***************************************************************************)
EXTENDS PublicIds

CONSTANTS Adapters,      \* adapter objects, of which a hot reload may leave two
          MaxStarts,     \* bound: adapter starts
          MaxFaults      \* bound: writes that fail

VARIABLES linked,    \* LIDs whose link the mapping files hold
          file,      \* astrbot-identity-projections-v1.json
          cache,     \* the IdentityMappingCache of each adapter
          asking,    \* the unknown LID whose number an adapter awaits, or 0
          place,     \* of each public ID in the order they were first given out, or 0
          unsaved,   \* those whose first exposure no file holds yet
          calm,      \* no two adapters ever ran at once
          starts, faults

disk == <<linked, file>>
vars == <<disk, cache, asking, place, unsaved, calm, starts, faults>>

Init == /\ linked = {} /\ file = [k \in Keys |-> Nothing]
        /\ cache = [a \in Adapters |-> Off] /\ asking = [a \in Adapters |-> 0]
        /\ place = [k \in Keys |-> 0] /\ unsaved = {} /\ calm = TRUE
        /\ starts = 0 /\ faults = 0

\* What was given out without being saved is forgotten with the cache.
Forget(a) ==
  IF cache[a].dirty
  THEN /\ place' = [k \in Keys |-> IF k \in unsaved THEN 0 ELSE place[k]]
       /\ unsaved' = {}
  ELSE UNCHANGED <<place, unsaved>>

\* A new adapter object, or a reload of the configuration, loads the files.
Start(a) ==
  /\ starts < MaxStarts /\ starts' = starts + 1
  /\ Forget(a)
  /\ cache' = [cache EXCEPT ![a] = Load(linked, file)]
  /\ calm' = (calm /\ \A b \in Adapters \ {a} : ~cache[b].up)
  /\ UNCHANGED <<disk, asking, faults>>

Stop(a) ==
  /\ cache[a].up
  /\ Forget(a)
  /\ cache' = [cache EXCEPT ![a] = Off]
  /\ asking' = [asking EXCEPT ![a] = 0]
  /\ UNCHANGED <<disk, calm, starts, faults>>

\* The Gateway writes the mapping file.
GatewayLearns(l) ==
  /\ l \notin linked
  /\ linked' = linked \cup {l}
  /\ UNCHANGED <<file, cache, asking, place, unsaved, calm, starts, faults>>

\* A refused write leaves the cache dirty; the file stays as it was.
Written(a, c, f, ok) ==
  LET s == Save(c, f)
  IN  IF c.dirty /\ ~ok
      THEN /\ faults < MaxFaults /\ faults' = faults + 1
           /\ cache' = [cache EXCEPT ![a] = c] /\ file' = f
      ELSE /\ cache' = [cache EXCEPT ![a] = s.cache] /\ file' = s.file
           /\ UNCHANGED faults
\* The ID is given out; a cache that is not dirty has nothing unsaved.
Last == Max({0} \cup {place[k] : k \in Keys})
Exposed(a, id) ==
  /\ place' = IF place[id] > 0 THEN place ELSE [place EXCEPT ![id] = Last + 1]
  /\ unsaved' = IF ~cache'[a].dirty THEN {}
                ELSE IF place[id] > 0 THEN unsaved ELSE unsaved \cup {id}
Expose(a, c, f, l, p, ok) ==
  /\ Written(a, Project(c, l, p), f, ok)
  /\ Exposed(a, Given(c, l, p).id)

\* save_lid_mapping: the mapping file is written if it can be, then what the link changed.
Linked(l, ok) == linked' = IF ok THEN linked \cup {l} ELSE linked
Learn(a, l, ok) ==
  LET c == Remember(cache[a], l, Owner[l])
      s == IF ok THEN Save(c, file) ELSE [cache |-> c, file |-> file]
  IN  Linked(l, ok) /\ Expose(a, s.cache, s.file, l, Owner[l], ok)

\* A message whose sender is known by LID and PN, by PN alone, or by a LID already linked.
Message(a, l, p, ok) ==
  /\ cache[a].up /\ asking[a] = 0
  /\ IF l # 0 /\ p # 0 /\ l \notin cache[a].known
     THEN Learn(a, l, ok)
     ELSE /\ l # 0 /\ p = 0 => l \in cache[a].known
          /\ Expose(a, cache[a], file, l, IF p = 0 THEN PnOf(cache[a], l) ELSE p, ok)
          /\ UNCHANGED linked
  /\ UNCHANGED <<asking, calm, starts>>

\* A message from an unknown LID first asks the Gateway for its number.
Ask(a, l) ==
  /\ cache[a].up /\ asking[a] = 0 /\ l \notin cache[a].known
  /\ asking' = [asking EXCEPT ![a] = l]
  /\ UNCHANGED <<disk, cache, place, unsaved, calm, starts, faults>>
Answered(a, ok) ==
  /\ cache[a].up /\ asking[a] # 0
  /\ Learn(a, asking[a], ok)
  /\ asking' = [asking EXCEPT ![a] = 0]
  /\ UNCHANGED <<calm, starts>>
\* No answer within four seconds, or none at all.
Unanswered(a, ok) ==
  /\ cache[a].up /\ asking[a] # 0
  /\ Expose(a, cache[a], file, asking[a], 0, ok)
  /\ asking' = [asking EXCEPT ![a] = 0]
  /\ UNCHANGED <<linked, calm, starts>>

\* get_group projects a member while a message may wait; it writes no mapping file.
ListMember(a, l, p, ok) ==
  /\ cache[a].up
  /\ Expose(a, cache[a], file, l, p, ok)
  /\ UNCHANGED <<linked, asking, calm, starts>>

\* An identity as a message or a group carries it: one side, or both of a true link.
Sighted(l, p) == Sides(l, p) # {} /\ (l # 0 /\ p # 0 => Owner[l] = p)
Next ==
  \/ \E a \in Adapters : Start(a) \/ Stop(a)
  \/ \E l \in Lids : GatewayLearns(l)
  \/ \E a \in Adapters, l \in Lids : Ask(a, l)
  \/ \E a \in Adapters, ok \in BOOLEAN : Answered(a, ok) \/ Unanswered(a, ok)
  \/ \E a \in Adapters, l \in Lids \cup {0}, p \in Pns \cup {0}, ok \in BOOLEAN :
       Sighted(l, p) /\ (Message(a, l, p, ok) \/ ListMember(a, l, p, ok))

Spec == Init /\ [][Next]_vars
-----------------------------------------------------------------------------
\* Unless two adapters ran at once, whoever is sighted next is given the earliest of the
\* public IDs that the adapter knows to be theirs and that were ever given out and saved,
\* whatever was linked, restarted or refused in between (_bind_mapping_projections,
\* _projection_payload, _load_identity_projections).
FirstIdStays ==
  calm => \A a \in Adapters, k \in Keys : cache[a].up =>
    \A id \in Together(cache[a], k) : place[id] > 0 =>
      place[IdOf(cache[a], k)] \in 1 .. place[id]

\* Even when two adapters run at once, each gives all the identities it knows to be one
\* person's the same public ID (_bind_mapping_projections, project_public_id).
OnePersonOneId ==
  \A a \in Adapters, k \in Keys : cache[a].up =>
    \A j \in Together(cache[a], k) : IdOf(cache[a], j) = IdOf(cache[a], k)

\* No save takes a key out of the file, moves one back, or gives it another ID without
\* moving it forward, whichever cache is saved over whichever file (_projection_payload).
CommittedFirst ==
  [][\A k \in Keys : file[k].order > 0 =>
       \/ file'[k] = file[k]
       \/ 0 < file'[k].order /\ file'[k].order < file[k].order]_file

\* What _projection_payload says of two adapters and the test
\* test_hot_reload_projection_writers_merge_without_losing_first_exposure of its merge: a
\* projection that was committed first is not lost to a later one of another adapter.
NoProjectionLost ==
  [][\A k \in Keys : file[k].order > 0 =>
       /\ place'[file'[k].id] > 0
       /\ place[file[k].id] > 0 => place'[file'[k].id] <= place[file[k].id]]_file
=============================================================================
