------------------------ MODULE AccountRuntimeProofs ------------------------
(***************************************************************************)
(* Port leases of any accounts, whatever restarts, reloads, bind races and *)
(* leaks happen and in whatever state the ports are: no two accounts hold  *)
(* one port, nor one that an adapter leaked, and no secondary the base     *)
(* port.  Every handler gives its adapter the lease it had, none, or a     *)
(* candidate of the registry (Lawful).                                     *)
(***************************************************************************)
EXTENDS AccountRuntime, FiniteSetTheorems, WellFoundedInduction, TLAPS

-----------------------------------------------------------------------------
(* The registry answers with a candidate.                                  *)
LEMMA LeastPort ==
  ASSUME NEW S, S \subseteq Nat, S # {}
  PROVE  \E p \in S : \A q \in S : p <= q
<1>1. PICK p \in S : \A q \in S : ~(<<q, p>> \in OpToRel(<, Nat))
  <2> HIDE DEF OpToRel
  <2> QED
    BY NatLessThanWellFounded, WFMin
<1>2. \A q \in S : ~(q < p)
  BY <1>1 DEF OpToRel
<1> QED
  BY <1>2

LEMMA Acquired ==
  ASSUME NEW a \in Accounts
  PROVE  Acquire(a) \in Candidates(a) \cup {0}
<1>1. Candidates(a) \subseteq Nat
  BY RuntimeAssumption DEF Candidates, Ports
<1>2. CASE Candidates(a) = {}
  BY <1>2 DEF Acquire
<1>3. CASE Candidates(a) # {}
  <2>1. \E p \in Candidates(a) : \A q \in Candidates(a) : p <= q
    BY <1>1, <1>3, LeastPort
  <2> QED
    BY <1>3, <2>1 DEF Acquire
<1> QED
  BY <1>2, <1>3

-----------------------------------------------------------------------------
(* What the pieces of the handlers do to a lease.                          *)

\* q holds the lease of r.
Same(r, q) == "lease" \in DOMAIN q /\ q.lease = r.lease

\* What a handler of account a may make of its adapter.
Lawful(a, q) == "lease" \in DOMAIN q /\ q.lease \in {acc[a].lease, 0} \cup Candidates(a)

Shaped == DOMAIN acc = Accounts /\ \A a \in Accounts : "lease" \in DOMAIN acc[a]

LeaseInv == Shaped /\ LeaseExclusive

LEMMA PiecesKeepLease ==
  ASSUME NEW r, "lease" \in DOMAIN r, NEW t, NEW pc, NEW job, NEW k
  PROVE  /\ Same(r, Closed(r)) /\ Same(r, Exited(r, k)) /\ Same(r, Left(r, t))
         /\ Same(r, Goes(r, t, pc)) /\ Same(r, Waits(r, t, job)) /\ Same(r, Unmonitored(r))
         /\ Same(r, Shutting(r, t, pc)) /\ Same(r, Shut(r, t)) /\ Same(r, Cleanup(r, t))
         /\ Same(r, Done(r, t))
<1>1. \A q : "lease" \in DOMAIN q => Same(q, Closed(q)) /\ Same(q, Left(q, t)) /\ Same(q, Left(q, "mon"))
  BY DEF Same, Closed, Left
<1>2. \A q : "lease" \in DOMAIN q => Same(q, Unmonitored(q))
  BY <1>1 DEF Same, Unmonitored
<1>3. Same(r, Exited(r, k))
  BY <1>1 DEF Same, Exited
<1>4. \A q : "lease" \in DOMAIN q => Same(q, Shutting(q, t, pc)) /\ Same(q, Shutting(q, t, "cleanup"))
  BY <1>1, <1>2 DEF Same, Shutting
<1>5. Same(r, Cleanup(r, t))
  BY <1>1, <1>4 DEF Same, Cleanup
<1>6. Same(r, Goes(r, t, pc)) /\ Same(r, Waits(r, t, job)) /\ Same(r, Shut(r, t)) /\ Same(r, Done(r, t))
  BY DEF Same, Goes, Waits, Shut, Done
<1> QED
  BY <1>1, <1>2, <1>3, <1>4, <1>5, <1>6

LEMMA JoinedKeepLease ==
  ASSUME NEW r, "lease" \in DOMAIN r, NEW t
  PROVE  Same(r, Looped(r, t)) /\ Same(r, Raised(r, t)) /\ Same(r, Ensured(r, t))
<1>1. Same(r, Cleanup(r, t)) /\ \A job : Same(r, Waits(r, t, job))
  BY PiecesKeepLease
<1>2. Same(r, Left(r, t))
  BY PiecesKeepLease
<1>3. \A pc : Same(Left(r, t), Goes(Left(r, t), t, pc))
  BY <1>2 DEF Same, Goes
<1>4. \A pc : Same(r, Goes(Left(r, t), t, pc))
  BY <1>2, <1>3 DEF Same
<1> QED
  BY <1>1, <1>4 DEF Looped, Raised, Ensured

LEMMA CancelledLawful ==
  ASSUME NEW r, "lease" \in DOMAIN r, NEW t
  PROVE  "lease" \in DOMAIN Cancelled(r, t) /\ Cancelled(r, t).lease \in {r.lease, 0}
<1>1. Same(r, Cleanup(r, t))
  BY PiecesKeepLease
<1>2. LET q == [Done(r, t) EXCEPT !.lease = 0] IN "lease" \in DOMAIN q /\ q.lease = 0
  BY PiecesKeepLease DEF Same
<1> QED
  BY <1>1, <1>2 DEF Cancelled, Same

LEMMA EndpointLawful ==
  ASSUME NEW a \in Accounts, NEW r, r.lease \in {acc[a].lease, 0} \cup Candidates(a)
  PROVE  Endpoint(a, r) \in {acc[a].lease, 0} \cup Candidates(a)
BY Acquired DEF Endpoint

LEMMA CreatedLawful ==
  ASSUME NEW a \in Accounts, NEW r, Lawful(a, r), NEW t
  PROVE  Lawful(a, Created(a, r, t))
<1> DEFINE e == Endpoint(a, r)
<1>1. e \in {acc[a].lease, 0} \cup Candidates(a)
  BY EndpointLawful DEF Lawful
<1> HIDE DEF e
<1>2. \A x, k, u, w : LET q == [r EXCEPT !.lease = e, !.proc[k] = x, !.gp = k, !.bound = u,
                                         !.task[t].pc = "start", !.task[t].k = w]
                      IN "lease" \in DOMAIN q /\ q.lease = e
  BY DEF Lawful
<1>3. "lease" \in DOMAIN Created(a, r, t) /\ Created(a, r, t).lease = e
  BY <1>2 DEF Created, e
<1> QED
  BY <1>1, <1>3 DEF Lawful

LEMMA RestartingLawful ==
  ASSUME NEW a \in Accounts, NEW r, Lawful(a, r), NEW t
  PROVE  Lawful(a, Restarting(a, r, t))
<1>1. LET q == [r EXCEPT !.task[t].pc = "stop", !.task[t].k = r.gp]
      IN "lease" \in DOMAIN q /\ q.lease = r.lease
  BY DEF Lawful
<1> QED
  BY <1>1, CreatedLawful DEF Restarting, Lawful

LEMMA FailedLawful ==
  ASSUME Shaped, NEW a \in Accounts, NEW t
  PROVE  Lawful(a, Failed(a, t))
<1> DEFINE r == Left(Recovered(a), t)
<1>1. Lawful(a, Recovered(a))
  <2>1. LET q == [acc[a] EXCEPT !.lease = Acquire(a), !.url = Acquire(a), !.gp = 0]
        IN "lease" \in DOMAIN q /\ q.lease = Acquire(a)
    BY DEF Shaped
  <2> QED
    BY <2>1, Acquired DEF Recovered, Lawful, Shaped
<1>2. Lawful(a, r)
  BY <1>1, PiecesKeepLease DEF Lawful, Same
<1> HIDE DEF r
<1>3. \A pc : Same(r, Goes(r, t, pc))
  BY <1>2, PiecesKeepLease DEF Lawful
<1>4. Same(r, Raised(r, t))
  BY <1>2, JoinedKeepLease DEF Lawful
<1>5. Failed(a, t) \in {Goes(r, t, "watch"), Raised(r, t), Goes(r, t, "sleep")}
  BY DEF Failed, r
<1> QED
  BY <1>2, <1>3, <1>4, <1>5 DEF Lawful, Same

-----------------------------------------------------------------------------
(* A step that replaces one adapter lawfully keeps the leases exclusive.   *)
LEMMA LawfulStep ==
  ASSUME LeaseInv, NEW a \in Accounts, NEW r, Lawful(a, r), Becomes(a, r), leaked' = leaked
  PROVE  LeaseInv'
<1>1. /\ DOMAIN acc' = Accounts
      /\ \A b \in Accounts \ {a} : acc'[b] = acc[b]
      /\ "lease" \in DOMAIN acc'[a] /\ acc'[a].lease = r.lease
  <2> DEFINE q == [r EXCEPT !.proc = [k \in Procs |-> IF Unused(r, k) THEN NoProc ELSE @[k]]]
  <2>1. "lease" \in DOMAIN q /\ q.lease = r.lease
    BY DEF Lawful
  <2>2. acc' = [acc EXCEPT ![a] = q]
    BY DEF Becomes
  <2> HIDE DEF q
  <2> QED
    BY <2>1, <2>2 DEF LeaseInv, Shaped
<1>2. Shaped'
  BY <1>1 DEF LeaseInv, Shaped
<1>3. \A b \in Accounts : LeasedByOthers(b)' = {acc'[c].lease : c \in Accounts \ {b}} \cup leaked
  BY DEF LeasedByOthers
<1>4. r.lease # 0 => r.lease \notin LeasedByOthers(a) /\ (a \notin Primary => r.lease # Base)
  <2>1. CASE r.lease = acc[a].lease
    BY <2>1 DEF LeaseInv, LeaseExclusive
  <2>2. CASE r.lease \in Candidates(a)
    BY <2>2, RuntimeAssumption DEF Candidates, Ports
  <2> QED
    BY <2>1, <2>2 DEF Lawful
<1>5. LeasedByOthers(a)' = LeasedByOthers(a)
  BY <1>1, <1>3 DEF LeasedByOthers
<1>6. ASSUME NEW b \in Accounts \ {a}, acc[b].lease # 0
      PROVE  acc[b].lease \notin LeasedByOthers(b)'
  <2>1. acc[b].lease \notin LeasedByOthers(b) /\ acc[b].lease \in LeasedByOthers(a)
    BY <1>6 DEF LeaseInv, LeaseExclusive, LeasedByOthers
  <2>2. acc[b].lease # r.lease
    BY <1>4, <1>6, <2>1
  <2> QED
    BY <1>1, <1>3, <2>1, <2>2 DEF LeasedByOthers
<1>7. LeaseExclusive'
  BY <1>1, <1>4, <1>5, <1>6 DEF LeaseInv, LeaseExclusive
<1> QED
  BY <1>2, <1>7 DEF LeaseInv

-----------------------------------------------------------------------------
(* The handlers.                                                           *)

LEMMA ConnectLawful ==
  ASSUME Shaped, NEW a \in Accounts, NEW t, Connect(a, t)
  PROVE  \E r : Lawful(a, r) /\ Step(a, r)
<1> DEFINE e == Endpoint(a, acc[a])
           r == [acc[a] EXCEPT !.reconnect = FALSE, !.force = FALSE, !.lease = e, !.url = e]
<1>1. e \in {acc[a].lease, 0} \cup Candidates(a)
  BY EndpointLawful
<1>2. "lease" \in DOMAIN r /\ r.lease = e
  BY DEF Shaped
<1>3. Step(a, IF acc[a].force THEN Restarting(a, r, t) ELSE Goes(r, t, "health"))
  BY DEF Connect
<1> HIDE DEF e, r
<1>4. Lawful(a, r)
  BY <1>1, <1>2 DEF Lawful
<1>5. Lawful(a, Restarting(a, r, t))
  BY <1>4, RestartingLawful
<1>6. Lawful(a, Goes(r, t, "health"))
  BY <1>4, PiecesKeepLease DEF Lawful, Same
<1> QED
  BY <1>3, <1>5, <1>6

\* Handlers that leave the lease alone, restart the child or end in an exception.
LEMMA PlainLawful ==
  ASSUME Shaped, NEW a \in Accounts, NEW t, NEW k
  PROVE  /\ Lawful(a, acc[a]) /\ Lawful(a, Restarting(a, acc[a], t)) /\ Lawful(a, Created(a, acc[a], t))
         /\ Lawful(a, Failed(a, t)) /\ Lawful(a, Ensured(acc[a], t)) /\ Lawful(a, Exited(acc[a], k))
         /\ Lawful(a, Raised(acc[a], t)) /\ Lawful(a, Looped(acc[a], t))
         /\ Lawful(a, Looped(Shut(acc[a], t), t))
         /\ \A pc : Lawful(a, Goes(acc[a], t, pc))
         /\ \A job : Lawful(a, Waits(acc[a], t, job))
<1>1. Lawful(a, acc[a]) /\ "lease" \in DOMAIN acc[a]
  BY DEF Lawful, Shaped
<1>2. \A q : Same(acc[a], q) => Lawful(a, q)
  BY DEF Same, Lawful
<1>3. Lawful(a, Restarting(a, acc[a], t)) /\ Lawful(a, Created(a, acc[a], t)) /\ Lawful(a, Failed(a, t))
  BY <1>1, RestartingLawful, CreatedLawful, FailedLawful
<1>4. Lawful(a, Ensured(acc[a], t)) /\ Lawful(a, Raised(acc[a], t)) /\ Lawful(a, Looped(acc[a], t))
  BY <1>1, <1>2, JoinedKeepLease
<1>5. /\ Lawful(a, Exited(acc[a], k))
      /\ \A pc : Lawful(a, Goes(acc[a], t, pc))
      /\ \A job : Lawful(a, Waits(acc[a], t, job))
  BY <1>1, <1>2, PiecesKeepLease
<1>6. Same(acc[a], Shut(acc[a], t))
  BY <1>1, PiecesKeepLease
<1>7. Same(Shut(acc[a], t), Looped(Shut(acc[a], t), t))
  BY <1>6, JoinedKeepLease DEF Same
<1>8. Lawful(a, Looped(Shut(acc[a], t), t))
  BY <1>2, <1>6, <1>7 DEF Same
<1> QED
  BY <1>1, <1>3, <1>4, <1>5, <1>8

LEMMA LoopLawful ==
  ASSUME Shaped, NEW a \in Accounts, NEW t, Loop(a, t)
  PROVE  /\ leaked' = leaked
         /\ \E r : Lawful(a, r) /\ Becomes(a, r)
<1> DEFINE Fine == leaked' = leaked /\ \E r : Lawful(a, r) /\ Becomes(a, r)
<1>a. \A r : (Step(a, r) \/ Fails(a, r)) /\ Lawful(a, r) => Fine
  BY DEF Step, Fails
<1> SUFFICES Fine
  OBVIOUS
<1> HIDE DEF Fine
<1>b. "lease" \in DOMAIN acc[a]
  BY DEF Shaped
<1>1. CASE Connect(a, t)
  BY <1>1, <1>a, ConnectLawful
<1>2. CASE Ensure(a, t)
  <2> DEFINE r == [acc[a] EXCEPT !.force = FALSE, !.task[t].job = IF acc[a].force THEN "forced" ELSE "ensure"]
  <2>1. Same(acc[a], r)
    BY <1>b DEF Same
  <2>2. Step(a, Goes(r, t, "health"))
    BY <1>2 DEF Ensure
  <2> HIDE DEF r
  <2>3. Same(r, Goes(r, t, "health"))
    BY <2>1, PiecesKeepLease DEF Same
  <2> QED
    BY <1>a, <2>1, <2>2, <2>3 DEF Same, Lawful
<1>3. CASE Healthy(a, t)
  BY <1>3, <1>a, PlainLawful DEF Healthy
<1>4. CASE Unhealthy(a, t)
  BY <1>4, <1>a, PlainLawful DEF Unhealthy
<1>5. CASE Unauthorized(a, t)
  BY <1>5, <1>a, PlainLawful DEF Unauthorized
<1>6. CASE StopChild(a, t)
  BY <1>6, <1>a, PlainLawful DEF StopChild
<1>7. CASE Replace(a, t)
  BY <1>7, <1>a, PlainLawful DEF Replace
<1>8. CASE Spawn(a, t)
  <2>1. \A q : Same(acc[a], q) => Lawful(a, q)
    BY DEF Same, Lawful
  <2>2. Same(acc[a], Goes(acc[a], t, "wait")) /\ Lawful(a, Failed(a, t))
    BY <1>b, PiecesKeepLease, PlainLawful
  <2>3. LET q == [Goes(acc[a], t, "wait") EXCEPT !.proc[acc[a].task[t].k].child = "boot", !.task[t].k = 0]
        IN Same(acc[a], q)
    BY <2>2 DEF Same
  <2>4. Lawful(a, [Failed(a, t) EXCEPT !.task[t].k = 0])
    BY <2>2 DEF Lawful
  <2> QED
    BY <1>8, <1>a, <2>1, <2>3, <2>4 DEF Spawn
<1>9. CASE Connected(a, t)
  <2> DEFINE u == [Unmonitored(acc[a]) EXCEPT !.task["mon"].pc = "watch"]
             r == Left(u, t)
  <2>1. Same(acc[a], u)
    BY <1>b, PiecesKeepLease DEF Same
  <2> DEFINE w == IF Job(a, t) # "connect" THEN Ensured(acc[a], t)
                  ELSE IF r.stopped \/ r.reconnect THEN Looped(r, t) ELSE Goes(r, t, "events")
  <2>2. Step(a, w)
    BY <1>9 DEF Connected
  <2> HIDE DEF u
  <2>3. Same(u, r)
    BY <2>1, PiecesKeepLease DEF Same
  <2> HIDE DEF r
  <2>r. "lease" \in DOMAIN r
    BY <2>3 DEF Same
  <2>4. Same(r, Looped(r, t)) /\ Same(r, Goes(r, t, "events"))
    BY <2>r, PiecesKeepLease, JoinedKeepLease
  <2>5. Lawful(a, Looped(r, t)) /\ Lawful(a, Goes(r, t, "events")) /\ Lawful(a, Ensured(acc[a], t))
    BY <2>1, <2>3, <2>4, PlainLawful DEF Same, Lawful
  <2>6. Lawful(a, w)
    BY <2>5
  <2> HIDE DEF w
  <2> QED
    BY <1>a, <2>2, <2>6
<1>10. CASE WaitFails(a, t)
  BY <1>10, <1>a, PlainLawful DEF WaitFails
<1>11. CASE StreamEnds(a, t)
  BY <1>11, <1>a, PlainLawful DEF StreamEnds
<1>12. CASE SleepEnds(a, t)
  <2> DEFINE r == [acc[a] EXCEPT !.reconnect = FALSE]
  <2>1. Same(acc[a], r)
    BY <1>b DEF Same
  <2>2. Step(a, IF acc[a].reconnect THEN Shutting(r, t, "stopping") ELSE Looped(acc[a], t))
    BY <1>12 DEF SleepEnds
  <2> HIDE DEF r
  <2>3. Same(r, Shutting(r, t, "stopping"))
    BY <2>1, PiecesKeepLease DEF Same
  <2>4. Lawful(a, Shutting(r, t, "stopping"))
    BY <2>1, <2>3 DEF Same, Lawful
  <2> QED
    BY <1>a, <2>2, <2>4, PlainLawful
<1>13. CASE Stopped(a, t)
  BY <1>13, <1>a, PlainLawful DEF Stopped
<1>14. CASE RunEnds(a, t)
  <2>1. Same(acc[a], Shut(acc[a], t))
    BY <1>b, PiecesKeepLease
  <2>2. Same(Shut(acc[a], t), Done(Shut(acc[a], t), t))
    BY <2>1, PiecesKeepLease DEF Same
  <2>3. Lawful(a, [Done(Shut(acc[a], t), t) EXCEPT !.lease = 0])
    BY <2>2 DEF Same, Lawful
  <2> QED
    BY <1>14, <1>a, <2>3 DEF RunEnds
<1> QED
  BY <1>1, <1>2, <1>3, <1>4, <1>5, <1>6, <1>7, <1>8, <1>9, <1>10, <1>11, <1>12, <1>13, <1>14 DEF Loop

LEMMA SwappedLawful ==
  ASSUME NEW a \in Accounts, NEW r, Lawful(a, r)
  PROVE  Lawful(a, Swapped(a, r))
<1> DEFINE e == Endpoint(a, r)
           s == [r EXCEPT
             !.lease = e, !.url = e, !.bound = [proc |-> 0, port |-> 0],
             !.stopped = FALSE, !.reconnect = FALSE, !.force = TRUE, !.tracked = TRUE,
             !.task["old"] = r.task["run"],
             !.task["run"] = Idle,
             !.lock = [i \in DOMAIN @ |-> IF @[i] = "run" THEN "old" ELSE @[i]]]
           u == IF r.task["reload"].pc = "off" THEN Waits(s, "reload", "none") ELSE s
<1>1. e \in {acc[a].lease, 0} \cup Candidates(a)
  BY EndpointLawful DEF Lawful
<1>2. Swapped(a, r) = Waits(u, "run", "connect")
  BY DEF Swapped
<1>3. "lease" \in DOMAIN s /\ s.lease = e
  <2> HIDE DEF e
  <2> QED
    BY DEF Lawful
<1> HIDE DEF e, s
<1>4. Same(s, u)
  BY <1>3, PiecesKeepLease DEF Same
<1> HIDE DEF u
<1>5. Same(u, Waits(u, "run", "connect"))
  BY <1>4, PiecesKeepLease DEF Same
<1> QED
  BY <1>1, <1>2, <1>3, <1>4, <1>5 DEF Same, Lawful

LEMMA MonitorLawful ==
  ASSUME Shaped, NEW a \in Accounts, Monitor(a)
  PROVE  leaked' = leaked /\ \E r : Lawful(a, r) /\ Becomes(a, r)
<1>1. Same(acc[a], Done(acc[a], "mon"))
  BY PiecesKeepLease DEF Shaped
<1>2. Lawful(a, Done(acc[a], "mon"))
  BY <1>1 DEF Same, Lawful
<1>3. \E r : Lawful(a, r) /\ (Step(a, r) \/ Fails(a, r))
  BY <1>2, PlainLawful DEF Monitor
<1> QED
  BY <1>3 DEF Step, Fails

LEMMA ReloadLawful ==
  ASSUME Shaped, NEW a \in Accounts, Reload(a) \/ ReloadShuts(a) \/ ReloadEnds(a)
  PROVE  leaked' = leaked /\ \E r : Lawful(a, r) /\ Becomes(a, r)
<1>0. "lease" \in DOMAIN acc[a]
  BY DEF Shaped
<1>1. CASE Reload(a)
  BY <1>1, PlainLawful DEF Reload
<1>2. CASE ReloadShuts(a)
  <2> DEFINE r == [acc[a] EXCEPT !.reconnect = TRUE]
  <2>1. Same(acc[a], r) /\ Step(a, Shutting(r, "reload", "stop"))
    BY <1>0, <1>2 DEF Same, ReloadShuts
  <2> HIDE DEF r
  <2>2. Same(r, Shutting(r, "reload", "stop"))
    BY <2>1, PiecesKeepLease DEF Same
  <2> QED
    BY <2>1, <2>2 DEF Same, Lawful, Step
<1>3. CASE ReloadEnds(a)
  <2> DEFINE k == acc[a].task["reload"].k
             r == [Shut(acc[a], "reload") EXCEPT !.lease = 0]
             e == Endpoint(a, r)
             s == [r EXCEPT !.lease = e, !.url = e, !.force = TRUE,
                            !.bound = IF k \in {0, @.proc} THEN [proc |-> 0, port |-> 0] ELSE @]
             u == Left(s, "reload")
  <2>1. Step(a, Done(u, "reload"))
    BY <1>3 DEF ReloadEnds
  <2>2. "lease" \in DOMAIN r /\ r.lease = 0
    BY <1>0, PiecesKeepLease DEF Same
  <2> HIDE DEF k, r
  <2>3. e \in {acc[a].lease, 0} \cup Candidates(a)
    BY <2>2, EndpointLawful
  <2> HIDE DEF e
  <2>4. "lease" \in DOMAIN s /\ s.lease = e
    BY <2>2
  <2> HIDE DEF s
  <2>5. Same(s, u)
    BY <2>4, PiecesKeepLease
  <2> HIDE DEF u
  <2>6. Same(u, Done(u, "reload"))
    BY <2>5, PiecesKeepLease DEF Same
  <2> QED
    BY <2>1, <2>3, <2>4, <2>5, <2>6 DEF Same, Lawful, Step
<1> QED
  BY <1>1, <1>2, <1>3

LEMMA TermLawful ==
  ASSUME Shaped, NEW a \in Accounts, RunAwaited(a) \/ TerminateEnds(a) \/ \E how : Terminate(a, how)
  PROVE  leaked' = leaked /\ \E r : Lawful(a, r) /\ Becomes(a, r)
<1>0. "lease" \in DOMAIN acc[a]
  BY DEF Shaped
<1>a. \A r : Lawful(a, r) => \A t, pc : /\ Lawful(a, Goes(r, t, pc)) /\ Lawful(a, Shutting(r, t, pc))
                                       /\ Lawful(a, Cancelled(r, t))
  <2> TAKE r
  <2> HAVE Lawful(a, r)
  <2> TAKE t, pc
  <2>1. Same(r, Goes(r, t, pc)) /\ Same(r, Shutting(r, t, pc))
    BY PiecesKeepLease DEF Lawful
  <2>2. "lease" \in DOMAIN Cancelled(r, t) /\ Cancelled(r, t).lease \in {r.lease, 0}
    BY CancelledLawful DEF Lawful
  <2> QED
    BY <2>1, <2>2 DEF Lawful, Same
<1>b. Lawful(a, acc[a])
  BY <1>0 DEF Lawful
<1>1. CASE RunAwaited(a)
  BY <1>1, <1>a, <1>b DEF RunAwaited, Step, Fails
<1>2. CASE TerminateEnds(a)
  <2> DEFINE r == Done([Shut(acc[a], "term") EXCEPT !.lease = 0], "term")
  <2>1. LET q == [Shut(acc[a], "term") EXCEPT !.lease = 0] IN "lease" \in DOMAIN q /\ q.lease = 0
    BY <1>0, PiecesKeepLease DEF Same
  <2>2. Lawful(a, r)
    BY <2>1, PiecesKeepLease DEF Same, Lawful
  <2>3. /\ Becomes(a, Cancelled(Cancelled(r, "run"), "old")) \/ Becomes(a, Swapped(a, r))
        /\ leaked' = leaked
    BY <1>2 DEF TerminateEnds
  <2> HIDE DEF r
  <2>4. Lawful(a, Cancelled(Cancelled(r, "run"), "old")) /\ Lawful(a, Swapped(a, r))
    BY <1>a, <2>2, SwappedLawful
  <2> QED
    BY <2>3, <2>4
<1>3. CASE \E how : Terminate(a, how)
  <2>1. PICK how : Terminate(a, how)
    BY <1>3
  <2> DEFINE r == [acc[a] EXCEPT !.stopped = TRUE, !.reconnect = TRUE, !.task["term"].job = how]
  <2>2. \E q \in {Goes(Cancelled(r, "run"), "term", "await"), Shutting(r, "term", "stop")} : Becomes(a, q)
    BY <2>1 DEF Terminate
  <2>3. leaked' = leaked
    BY <2>1 DEF Terminate
  <2>4. Lawful(a, r)
    BY <1>0 DEF Lawful
  <2> HIDE DEF r
  <2> QED
    BY <1>a, <2>2, <2>3, <2>4
<1> QED
  BY <1>1, <1>2, <1>3

-----------------------------------------------------------------------------
(* The two steps that touch more than one adapter's record, and the rest.  *)

\* A new adapter of an account leaks the lease of the old one, which nobody else holds.
LEMMA EnableStep ==
  ASSUME LeaseInv, NEW a \in Accounts, Enable(a)
  PROVE  LeaseInv'
<1>1. PICK p \in Candidates(a) \ {acc[a].lease} :
             Becomes(a, [NewAdapter(p, FALSE) EXCEPT !.proc = acc[a].proc])
  BY DEF Enable
<1>2. leaked' = leaked \cup ({acc[a].lease} \ {0})
  BY DEF Enable
<1>3. /\ DOMAIN acc' = Accounts
      /\ \A b \in Accounts \ {a} : acc'[b] = acc[b]
      /\ "lease" \in DOMAIN acc'[a] /\ acc'[a].lease = p
  <2> DEFINE n == NewAdapter(p, FALSE)
             r == [n EXCEPT !.proc = acc[a].proc]
             q == [r EXCEPT !.proc = [k \in Procs |-> IF Unused(r, k) THEN NoProc ELSE @[k]]]
  <2>1. "lease" \in DOMAIN n /\ n.lease = p
    BY DEF NewAdapter
  <2>2. acc' = [acc EXCEPT ![a] = q]
    BY <1>1 DEF Becomes
  <2> HIDE DEF n
  <2>3. "lease" \in DOMAIN q /\ q.lease = p
    BY <2>1
  <2> HIDE DEF q
  <2> QED
    BY <2>2, <2>3 DEF LeaseInv, Shaped
<1>4. Shaped'
  BY <1>3 DEF LeaseInv, Shaped
<1>5. p \notin leaked' /\ \A b \in Accounts \ {a} : acc'[b].lease # p
  BY <1>1, <1>2, <1>3 DEF Candidates, LeasedByOthers
<1>6. a \notin Primary => p # Base
  BY <1>1, RuntimeAssumption DEF Candidates, Ports
<1>7. ASSUME NEW b \in Accounts \ {a}, acc[b].lease # 0
      PROVE  acc[b].lease \notin LeasedByOthers(b)' /\ (b \notin Primary => acc[b].lease # Base)
  <2>1. /\ acc[b].lease \notin leaked /\ (b \notin Primary => acc[b].lease # Base)
        /\ \A c \in Accounts \ {b} : acc[b].lease # acc[c].lease
    BY <1>7 DEF LeaseInv, LeaseExclusive, LeasedByOthers
  <2>2. acc[b].lease \notin leaked'
    BY <1>2, <2>1
  <2>3. \A c \in Accounts \ {b} : acc[b].lease # acc'[c].lease
    BY <1>3, <1>5, <2>1
  <2> QED
    BY <2>1, <2>2, <2>3 DEF LeasedByOthers
<1>8. LeaseExclusive'
  BY <1>3, <1>5, <1>6, <1>7 DEF LeaseExclusive, LeasedByOthers
<1> QED
  BY <1>4, <1>8 DEF LeaseInv

LEMMA LeaseInit == Init => LeaseInv
<1> SUFFICES ASSUME Init PROVE LeaseInv
  OBVIOUS
<1>1. PICK port \in [Accounts -> Base .. Base + Cardinality(Secondaries)], tracked \in BOOLEAN :
        /\ \A a \in Accounts : (port[a] = Base) = (a \in Primary)
        /\ \A a, b \in Accounts : port[a] = port[b] => a = b
        /\ acc = [a \in Accounts |-> NewAdapter(port[a], tracked)]
  BY DEF Init
<1>2. DOMAIN acc = Accounts /\ \A a \in Accounts : "lease" \in DOMAIN acc[a] /\ acc[a].lease = port[a]
  BY <1>1 DEF NewAdapter
<1>3. leaked = {}
  BY DEF Init
<1> QED
  BY <1>1, <1>2, <1>3 DEF LeaseInv, Shaped, LeaseExclusive, LeasedByOthers

LEMMA LeaseStep == LeaseInv /\ [Next]_vars => LeaseInv'
<1> SUFFICES ASSUME LeaseInv, [Next]_vars PROVE LeaseInv'
  OBVIOUS
<1>0. Shaped
  BY DEF LeaseInv
<1>1. CASE \E a \in Accounts : Enable(a)
  BY <1>1, EnableStep
<1>2. CASE acc' = acc /\ leaked' = leaked
  BY <1>2 DEF LeaseInv, Shaped, LeaseExclusive, LeasedByOthers
<1>3. ASSUME NEW a \in Accounts, NEW t \in Tasks, Task(a, t) PROVE LeaseInv'
  <2>1. leaked' = leaked /\ \E r : Lawful(a, r) /\ Becomes(a, r)
    <3>1. CASE Loop(a, t)
      BY <1>0, <3>1, LoopLawful
    <3>2. CASE Monitor(a)
      BY <1>0, <3>2, MonitorLawful
    <3>3. CASE ReloadShuts(a) \/ ReloadEnds(a)
      BY <1>0, <3>3, ReloadLawful
    <3>4. CASE RunAwaited(a) \/ TerminateEnds(a)
      BY <1>0, <3>4, TermLawful
    <3>5. CASE StopChild(a, t)
      BY <1>0, <3>5, LoopLawful DEF Loop
    <3> QED
      BY <1>3, <3>1, <3>2, <3>3, <3>4, <3>5 DEF Task
  <2> QED
    BY <2>1, LawfulStep
<1>4. ASSUME NEW a \in Accounts, NEW k \in Procs, Boot(a, k) \/ ChildCrashes(a, k) PROVE LeaseInv'
  <2>1. Lawful(a, Exited(acc[a], k)) /\ Lawful(a, [acc[a] EXCEPT !.proc[k].child = "up"])
    <3>1. "lease" \in DOMAIN acc[a]
      BY <1>0 DEF Shaped
    <3>2. Lawful(a, [acc[a] EXCEPT !.proc[k].child = "up"])
      BY <3>1 DEF Lawful
    <3> QED
      BY <1>0, <3>2, PlainLawful
  <2>2. leaked' = leaked /\ \E r : Lawful(a, r) /\ Becomes(a, r)
    BY <1>4, <2>1 DEF Boot, ChildCrashes, Step, Fails
  <2> QED
    BY <2>2, LawfulStep
<1>5. ASSUME NEW a \in Accounts, Reload(a) \/ \E how : Terminate(a, how) PROVE LeaseInv'
  <2>1. leaked' = leaked /\ \E r : Lawful(a, r) /\ Becomes(a, r)
    BY <1>0, <1>5, ReloadLawful, TermLawful
  <2> QED
    BY <2>1, LawfulStep
<1>6. CASE \E p \in Ports : Foreign(p)
  BY <1>2, <1>6 DEF Foreign
<1>7. CASE UNCHANGED vars
  BY <1>2, <1>7 DEF vars
<1> QED
  BY <1>1, <1>3, <1>4, <1>5, <1>6, <1>7 DEF Next

\* No two accounts ever hold one port, nor a port that was leaked, and no secondary the
\* base port: acquire of whatsapp_multi_instance.py answers only with ports that are free
\* of leases, and every path of whatsapp_adapter.py keeps, drops or acquires its lease.
THEOREM LeasesExclusive == Spec => []LeaseExclusive
<1>1. Init => LeaseInv
  BY LeaseInit
<1>2. LeaseInv /\ [Next]_vars => LeaseInv'
  BY LeaseStep
<1>3. LeaseInv => LeaseExclusive
  BY DEF LeaseInv
<1> QED
  BY <1>1, <1>2, <1>3, PTL DEF Spec
-----------------------------------------------------------------------------
(* One child.  What the adapter r of an account must satisfy for it, e     *)
(* telling whether AstrBot has the account enabled; this does not cover    *)
(* the run loops a hot reload may supersede (TakeOver).                    *)

\* The shape of an adapter, as far as the handlers update it.
Form(r) ==
  /\ {"gp", "proc", "task", "lock", "lease", "tracked"} \subseteq DOMAIN r
  /\ DOMAIN r.task = Tasks /\ \A t \in Tasks : {"pc", "job", "k"} \subseteq DOMAIN r.task[t]
  /\ DOMAIN r.proc = Procs /\ \A j \in Procs : "child" \in DOMAIN r.proc[j]
  /\ r.lock \in Seq(Tasks)

\* Who may be where: no loop is superseded, the monitor never waits for a stream, and so on.
Roles(r) ==
  /\ r.task["old"].pc = "off"
  /\ r.task["mon"].pc \in {"off", "watch", "lock", "health", "stop", "start", "wait"}
  /\ r.task["mon"].job # "connect"
  /\ r.task["reload"].pc \in {"off", "lock", "stop"}
  /\ r.task["term"].pc \in {"off", "await", "stop"}
  /\ r.task["run"].pc \in Pcs \ {"watch", "await"}

\* Whoever restarts the child holds the lifecycle lock; terminate does without it.
Working(r, t) == \/ r.task[t].pc \in {"health", "start", "wait"}
                 \/ t # "term" /\ r.task[t].pc = "stop"
LockOK(r) == \A t \in Tasks : Working(r, t) => r.lock # <<>> /\ Head(r.lock) = t

\* A running child is the current one, nobody is about to start another, and whoever stops
\* a process stops this one; what is about to be started is current.
StopPcs == {"stop", "stopping", "cleanup"}
ChildOK(r) ==
  /\ \A j \in Procs : Alive(r.proc[j]) =>
       /\ r.gp = j
       /\ \A t \in Tasks : r.task[t].pc # "start" /\ (r.task[t].pc \in StopPcs => r.task[t].k = j)
  /\ \A t \in Tasks : r.task[t].pc = "start" => r.gp = r.task[t].k

\* A run loop on its way out has no monitor, and a hot reload finds it ended.
OrderOK(r) ==
  /\ r.task["run"].pc \in {"off", "stopping", "cleanup"} => r.task["mon"].pc = "off"
  /\ r.task["term"].pc = "await" => r.task["run"].pc \in {"off", "cleanup"}
  /\ r.task["term"].pc = "stop" /\ r.task["term"].job = "hot" => r.task["run"].pc = "off"

\* A stopped account: what is left of it starts nothing.
OffOK(r) == /\ r.task["term"].pc = "off" /\ r.task["run"].pc \in {"off", "cleanup"}
            /\ \A j \in Procs : ~Alive(r.proc[j])

Sound(r, e) == Roles(r) /\ LockOK(r) /\ ChildOK(r) /\ OrderOK(r) /\ (~e => OffOK(r))

ChildInv == DOMAIN acc = Accounts /\ \A a \in Accounts : Form(acc[a]) /\ Sound(acc[a], a \in on)

-----------------------------------------------------------------------------
(* The lock: whoever holds it keeps it while others come and go.           *)

\* The holder of r's lock, if it is not among S, holds q's.
HeadKept(r, q, S) ==
  r.lock # <<>> /\ Head(r.lock) \notin S => q.lock # <<>> /\ Head(q.lock) = Head(r.lock)

LEMMA WithoutType ==
  ASSUME NEW q \in Seq(Tasks), NEW t
  PROVE  /\ Without(q, t) \in Seq(Tasks)
         /\ q # <<>> /\ Head(q) # t => Without(q, t) # <<>> /\ Head(Without(q, t)) = Head(q)
<1>1. CASE \A i \in DOMAIN q : q[i] # t
  BY <1>1 DEF Without
<1>2. CASE \E i \in DOMAIN q : q[i] = t
  <2> DEFINE at == CHOOSE i \in DOMAIN q : q[i] = t
             w == [i \in 1 .. Len(q) - 1 |-> IF i < at THEN q[i] ELSE q[i + 1]]
  <2>1. at \in 1 .. Len(q) /\ q[at] = t
    BY <1>2
  <2>2. Without(q, t) = w
    BY <1>2 DEF Without
  <2> HIDE DEF at
  <2>3. Len(q) \in Nat /\ Len(q) >= 1 /\ at \in Nat
    BY <2>1
  <2>4. \A i \in 1 .. Len(q) - 1 : (IF i < at THEN q[i] ELSE q[i + 1]) \in Tasks
    BY <2>3
  <2>5. w \in Seq(Tasks) /\ Len(w) = Len(q) - 1
    BY <2>3, <2>4
  <2>6. ASSUME q # <<>>, Head(q) # t PROVE w # <<>> /\ Head(w) = Head(q)
    <3>1. q[1] # t /\ Head(q) = q[1]
      BY <2>6
    <3>2. at >= 2 /\ Len(q) >= 2
      BY <2>1, <2>3, <3>1
    <3>3. 1 \in 1 .. Len(q) - 1 /\ 1 < at
      BY <2>3, <3>2
    <3>4. w[1] = q[1]
      BY <3>3
    <3> HIDE DEF w
    <3>5. Len(w) >= 1
      BY <2>3, <2>5, <3>2
    <3>6. w # <<>> /\ Head(w) = w[1]
      BY <2>5, <3>5
    <3> QED
      BY <3>1, <3>4, <3>6
  <2> QED
    BY <2>2, <2>5, <2>6
<1> QED
  BY <1>1, <1>2

-----------------------------------------------------------------------------
(* What the pieces of the handlers make of an adapter.                     *)

\* Task t is where it was, but for a stream that ended.
Kept(r, q, t) ==
  /\ q.task[t].k = r.task[t].k /\ q.task[t].job = r.task[t].job
  /\ \/ q.task[t].pc = r.task[t].pc
     \/ r.task[t].pc = "events" /\ q.task[t].pc = "broken"

\* From r to q only the tasks S move, only the tasks L leave the lock, and no child starts;
\* nothing makes the monitor connect.
Moved(r, q, S, L) ==
  /\ Form(q)
  /\ q.task["mon"].job = "connect" => r.task["mon"].job = "connect"
  /\ \A j \in Procs : Alive(q.proc[j]) => Alive(r.proc[j])
  /\ \A t \in Tasks \ S : Kept(r, q, t)
  /\ HeadKept(r, q, L)

LEMMA MovedTwice ==
  ASSUME NEW r, NEW q, NEW s, NEW S, NEW L, NEW T, NEW M, Moved(r, q, S, L), Moved(q, s, T, M)
  PROVE  Moved(r, s, S \cup T, L \cup M)
BY DEF Moved, Kept, HeadKept

LEMMA ClosedMoves ==
  ASSUME NEW r, Form(r)
  PROVE  Moved(r, Closed(r), {}, {}) /\ Closed(r).gp = r.gp
BY DEF Closed, Moved, Kept, HeadKept, Form, Alive, Tasks

LEMMA LeftMoves ==
  ASSUME NEW r, Form(r), NEW t
  PROVE  Moved(r, Left(r, t), {}, {t}) /\ Left(r, t).gp = r.gp /\ Left(r, t).task = r.task
<1> DEFINE w == Without(r.lock, t)
<1>1. w \in Seq(Tasks) /\ (r.lock # <<>> /\ Head(r.lock) # t => w # <<>> /\ Head(w) = Head(r.lock))
  BY WithoutType DEF Form
<1>2. Left(r, t) = [r EXCEPT !.lock = w]
  BY DEF Left
<1> HIDE DEF w
<1> QED
  BY <1>1, <1>2 DEF Moved, Kept, HeadKept, Form

LEMMA GoesMoves ==
  ASSUME NEW r, Form(r), NEW t \in Tasks, NEW pc
  PROVE  /\ Moved(r, Goes(r, t, pc), {t}, {}) /\ Goes(r, t, pc).gp = r.gp
         /\ Goes(r, t, pc).task[t].pc = pc /\ Goes(r, t, pc).task[t].k = r.task[t].k
<1>1. Moved(r, Goes(r, t, pc), {t}, {}) /\ Goes(r, t, pc).gp = r.gp
  BY DEF Goes, Moved, Kept, HeadKept, Form
<1>2. Goes(r, t, pc).task[t].pc = pc /\ Goes(r, t, pc).task[t].k = r.task[t].k
  BY DEF Goes, Form
<1> QED
  BY <1>1, <1>2

LEMMA DoneMoves ==
  ASSUME NEW r, Form(r), NEW t \in Tasks
  PROVE  /\ Moved(r, Done(r, t), {t}, {}) /\ Done(r, t).gp = r.gp
         /\ Done(r, t).task[t] = Idle /\ Done(r, t).task[t].pc = "off"
BY DEF Done, Idle, Moved, Kept, HeadKept, Form

LEMMA WaitsMoves ==
  ASSUME NEW r, Form(r), NEW t \in Tasks, NEW job, t = "mon" => job # "connect"
  PROVE  /\ Moved(r, Waits(r, t, job), {t}, {}) /\ Waits(r, t, job).gp = r.gp
         /\ Waits(r, t, job).task[t].pc = "lock"
<1>1. /\ Append(r.lock, t) \in Seq(Tasks)
      /\ r.lock # <<>> => Append(r.lock, t) # <<>> /\ Head(Append(r.lock, t)) = Head(r.lock)
  BY DEF Form
<1>2. Moved(r, Waits(r, t, job), {t}, {}) /\ Waits(r, t, job).gp = r.gp
  BY <1>1 DEF Waits, Moved, Kept, HeadKept, Form
<1>3. Waits(r, t, job).task[t].pc = "lock"
  BY DEF Waits, Form
<1> QED
  BY <1>2, <1>3

LEMMA UnmonitoredMoves ==
  ASSUME NEW r, Form(r)
  PROVE  /\ Moved(r, Unmonitored(r), {"mon"}, {"mon"}) /\ Unmonitored(r).gp = r.gp
         /\ Unmonitored(r).task["mon"] = Idle
<1> DEFINE w == Left(r, "mon")
<1>1. Moved(r, w, {}, {"mon"}) /\ w.gp = r.gp /\ w.task = r.task
  BY LeftMoves
<1>2. Unmonitored(r) = [w EXCEPT !.task["mon"] = Idle]
  BY DEF Unmonitored
<1>3. Form(w)
  BY <1>1 DEF Moved
<1> HIDE DEF w
<1>4. "mon" \in Tasks
  BY DEF Tasks
<1> DEFINE v == [w EXCEPT !.task["mon"] = Idle]
<1>5. Moved(w, v, {"mon"}, {}) /\ v.gp = w.gp /\ v.task["mon"] = Idle
  BY <1>3, <1>4 DEF Idle, Moved, Kept, HeadKept, Form
<1> HIDE DEF v
<1>6. Moved(r, v, {} \cup {"mon"}, {"mon"} \cup {})
  BY <1>1, <1>5, MovedTwice
<1>7. Moved(r, v, {"mon"}, {"mon"})
  BY <1>6
<1> QED
  BY <1>1, <1>2, <1>5, <1>7 DEF v

LEMMA ShuttingMoves ==
  ASSUME NEW r, Form(r), NEW t \in Tasks \ {"mon"}, NEW pc
  PROVE  LET q == Shutting(r, t, pc) IN
         /\ Moved(r, q, {"mon", t}, {"mon"}) /\ q.gp = r.gp
         /\ q.task["mon"].pc = "off"
         /\ q.task[t].pc = pc /\ q.task[t].k = r.gp /\ q.task[t].job = r.task[t].job
<1> DEFINE u == Unmonitored(r)
           w == Closed(u)
           q == [w EXCEPT !.task[t].pc = pc, !.task[t].k = r.gp]
<1>1. Moved(r, u, {"mon"}, {"mon"}) /\ u.gp = r.gp /\ u.task["mon"] = Idle
  BY UnmonitoredMoves
<1>2. Shutting(r, t, pc) = q
  BY DEF Shutting
<1> HIDE DEF u
<1>3. Moved(u, w, {}, {}) /\ w.gp = u.gp
  BY <1>1, ClosedMoves DEF Moved
<1> HIDE DEF w
<1>4. Moved(r, w, {"mon"}, {"mon"})
  <2>1. Moved(r, w, {"mon"} \cup {}, {"mon"} \cup {})
    BY <1>1, <1>3, MovedTwice
  <2> QED
    BY <2>1
<1>5. w.task["mon"].pc = "off" /\ w.gp = r.gp /\ w.task[t].job = r.task[t].job
  BY <1>1, <1>3, <1>4 DEF Moved, Kept, Idle, Tasks
<1>6. Form(w)
  BY <1>4 DEF Moved
<1>7. /\ Moved(w, q, {t}, {}) /\ q.gp = w.gp /\ q.task["mon"] = w.task["mon"]
      /\ q.task[t].pc = pc /\ q.task[t].k = r.gp /\ q.task[t].job = w.task[t].job
  BY <1>6 DEF Moved, Kept, HeadKept, Form, Tasks
<1> HIDE DEF q
<1>8. Moved(r, q, {"mon", t}, {"mon"})
  <2>1. Moved(r, q, {"mon"} \cup {t}, {"mon"} \cup {})
    BY <1>4, <1>7, MovedTwice
  <2>2. {"mon"} \cup {t} = {"mon", t} /\ {"mon"} \cup {} = {"mon"}
    OBVIOUS
  <2> QED
    BY <2>1, <2>2
<1> QED
  BY <1>2, <1>5, <1>7, <1>8

LEMMA CleanupMoves ==
  ASSUME NEW r, Form(r), NEW t \in Tasks \ {"mon"}
  PROVE  LET q == Cleanup(r, t) IN
         /\ Moved(r, q, {"mon", t}, {"mon", t}) /\ q.gp = r.gp
         /\ q.task["mon"].pc = "off" /\ q.task[t].pc = "cleanup" /\ q.task[t].k = r.gp
<1> DEFINE w == Left(r, t)
           q == Shutting(w, t, "cleanup")
<1>1. Moved(r, w, {}, {t}) /\ w.gp = r.gp
  BY LeftMoves
<1>2. Cleanup(r, t) = q
  BY DEF Cleanup
<1> HIDE DEF w
<1>3. /\ Moved(w, q, {"mon", t}, {"mon"}) /\ q.gp = w.gp
      /\ q.task["mon"].pc = "off" /\ q.task[t].pc = "cleanup" /\ q.task[t].k = w.gp
  BY <1>1, ShuttingMoves DEF Moved
<1> HIDE DEF q
<1>4. Moved(r, q, {} \cup {"mon", t}, {t} \cup {"mon"})
  BY <1>1, <1>3, MovedTwice
<1>5. {} \cup {"mon", t} = {"mon", t} /\ {t} \cup {"mon"} = {"mon", t}
  OBVIOUS
<1>6. Moved(r, q, {"mon", t}, {"mon", t})
  BY <1>4, <1>5
<1> QED
  BY <1>1, <1>2, <1>3, <1>6

LEMMA MovedMore ==
  ASSUME NEW r, NEW q, NEW S, NEW L, Moved(r, q, S, L), NEW T, NEW M, S \subseteq T, L \subseteq M
  PROVE  Moved(r, q, T, M)
BY DEF Moved, HeadKept

\* A cancelled run loop is on its way out, or has ended.
LEMMA CancelledMoves ==
  ASSUME NEW r, Form(r)
  PROVE  LET q == Cancelled(r, "run") IN
         /\ Moved(r, q, {"mon", "run"}, {"mon", "run"}) /\ q.gp = r.gp
         /\ q.task["run"].pc \in {"off", "cleanup"}
         /\ q.task["run"].pc = "cleanup" => q.task["run"].k = r.gp
         /\ r.task["run"].pc \notin {"off", "cleanup"} => q.task["mon"].pc = "off"
         /\ r.task["run"].pc \in {"off", "cleanup"} =>
              q.task["run"].pc = "off" /\ q.task["mon"].pc = r.task["mon"].pc
<1> DEFINE q == Cancelled(r, "run")
<1>0. "run" \in Tasks \ {"mon"}
  BY DEF Tasks, Loops
<1>1. CASE r.task["run"].pc = "off"
  <2>1. q = r
    BY <1>1 DEF Cancelled
  <2>2. Moved(r, r, {"mon", "run"}, {"mon", "run"})
    BY DEF Moved, Kept, HeadKept
  <2> QED
    BY <1>1, <2>1, <2>2
<1>2. CASE r.task["run"].pc = "cleanup"
  <2> DEFINE w == Done(r, "run")
  <2>1. q = [w EXCEPT !.lease = 0]
    BY <1>2 DEF Cancelled
  <2>2. Moved(r, w, {"run"}, {}) /\ w.gp = r.gp /\ w.task["run"] = Idle
    BY <1>0, DoneMoves
  <2> HIDE DEF w
  <2>3. Moved(r, [w EXCEPT !.lease = 0], {"run"}, {}) /\ q.gp = r.gp /\ q.task = w.task
    BY <2>1, <2>2 DEF Moved, Kept, HeadKept, Form
  <2>4. Moved(r, q, {"mon", "run"}, {"mon", "run"})
    BY <2>1, <2>3, MovedMore
  <2>5. Kept(r, q, "mon") /\ r.task["mon"].pc # "events" => q.task["mon"].pc = r.task["mon"].pc
    BY DEF Kept
  <2>6. q.task["mon"].pc = r.task["mon"].pc
    BY <2>1, <1>0 DEF Done, Form, Tasks, w
  <2> QED
    BY <1>2, <2>2, <2>3, <2>4, <2>6 DEF Idle
<1>3. CASE r.task["run"].pc \notin {"off", "cleanup"}
  <2>1. q = Cleanup(r, "run")
    BY <1>3 DEF Cancelled
  <2> QED
    BY <1>0, <1>3, <2>1, CleanupMoves
<1> QED
  BY <1>1, <1>2, <1>3

-----------------------------------------------------------------------------
(* What a task may do in a sound adapter.                                  *)

\* No child runs, and no task but t is about to start one.
Vacant(r, t) == /\ \A j \in Procs : ~Alive(r.proc[j])
                /\ \A u \in Tasks \ {t} : r.task[u].pc # "start"

\* The run loop or the monitor, in an account that is not about to end.
Active(r, t) == t \in {"run", "mon"} /\ r.task[t].pc \notin {"off", "cleanup"}

\* It leaves the lock, if it held it, and starts no process.
LEMMA Rests ==
  ASSUME NEW r, NEW e, Sound(r, e), NEW t, Active(r, t), NEW q, Moved(r, q, {t}, {t}),
         q.gp = r.gp \/ Vacant(r, t),
         q.task[t].pc \in IF t = "run" THEN {"lock", "sleep", "events"} ELSE {"lock", "watch"}
  PROVE  Sound(q, e)
<1>1. e
  BY DEF Sound, OffOK, OrderOK, Active
<1>2. Roles(q)
  BY DEF Sound, Active, Moved, Kept, Roles, Tasks, Loops, Pcs
<1>3. LockOK(q)
  BY DEF Sound, Active, Moved, Kept, HeadKept, LockOK, Working, Roles, Tasks, Loops
<1>4. ChildOK(q)
  BY DEF Sound, Active, Moved, Kept, ChildOK, Vacant, StopPcs, Tasks, Loops
<1>5. OrderOK(q)
  BY DEF Sound, Active, Moved, Kept, OrderOK, Roles, Tasks, Loops
<1> QED
  BY <1>1, <1>2, <1>3, <1>4, <1>5 DEF Sound

\* The run loop stops the process, the monitor stopped; only in its cleanup for good.
LEMMA CleansUp ==
  ASSUME NEW r, NEW e, Sound(r, e), r.task["run"].pc # "off", NEW q,
         Moved(r, q, {"mon", "run"}, {"mon", "run"}), q.gp = r.gp \/ Vacant(r, "run"),
         q.task["run"].k = q.gp \/ Vacant(r, "run"), q.task["mon"].pc = "off",
         q.task["run"].pc = "cleanup" \/ (q.task["run"].pc = "stopping" /\ Active(r, "run"))
  PROVE  Sound(q, e)
<1>1. ~e => OffOK(q)
  BY DEF Sound, OffOK, Moved, Kept, Active, Tasks, Loops
<1>2. Roles(q)
  BY DEF Sound, Moved, Kept, Roles, Tasks, Loops, Pcs
<1>3. LockOK(q)
  BY DEF Sound, Moved, Kept, HeadKept, LockOK, Working, Roles, Tasks, Loops
<1>4. ChildOK(q)
  <2>1. \A t \in Tasks : q.task[t].pc # "start" \/ (t \notin {"mon", "run"} /\ r.task[t].pc = "start")
    BY DEF Moved, Kept
  <2>2. \A t \in Tasks : q.task[t].pc # "start"
    BY <2>1 DEF Sound, Roles, Tasks, Loops
  <2>3. ASSUME NEW j \in Procs, Alive(q.proc[j]), NEW t \in Tasks, q.task[t].pc \in StopPcs
        PROVE  q.gp = j /\ q.task[t].k = j
    BY <2>3 DEF Sound, Moved, Kept, ChildOK, Vacant, StopPcs, Tasks, Loops
  <2>4. \A j \in Procs : Alive(q.proc[j]) => q.gp = j
    BY DEF Sound, Moved, ChildOK, Vacant
  <2> QED
    BY <2>2, <2>3, <2>4 DEF ChildOK
<1>5. OrderOK(q)
  BY DEF Sound, Moved, Kept, OrderOK, Roles, Active, Tasks, Loops
<1> QED
  BY <1>1, <1>2, <1>3, <1>4, <1>5 DEF Sound

\* It holds the lock and keeps it, waits, or stops the current process.
LEMMA Works ==
  ASSUME NEW r, NEW e, Sound(r, e), NEW t, Active(r, t), r.lock # <<>>, Head(r.lock) = t,
         NEW q, Moved(r, q, {t}, {}), q.gp = r.gp,
         q.task[t].pc \in {"health", "wait"} \/ (q.task[t].pc = "stop" /\ q.task[t].k = q.gp)
  PROVE  Sound(q, e)
<1>1. e
  BY DEF Sound, OffOK, OrderOK, Active
<1>2. Roles(q)
  BY DEF Sound, Active, Moved, Kept, Roles, Tasks, Loops, Pcs
<1>3. LockOK(q)
  BY DEF Sound, Active, Moved, Kept, HeadKept, LockOK, Working, Roles, Tasks, Loops
<1>4. ChildOK(q)
  BY DEF Sound, Active, Moved, Kept, ChildOK, StopPcs, Tasks, Loops
<1>5. OrderOK(q)
  BY DEF Sound, Active, Moved, Kept, OrderOK, Roles, Tasks, Loops
<1> QED
  BY <1>1, <1>2, <1>3, <1>4, <1>5 DEF Sound

\* It holds the lock, no child runs, and it makes a process to start.
LEMMA Makes ==
  ASSUME NEW r, NEW e, Sound(r, e), NEW t, Active(r, t), r.lock # <<>>, Head(r.lock) = t,
         \A j \in Procs : ~Alive(r.proc[j]),
         NEW q, Moved(r, q, {t}, {}), q.task[t].pc = "start", q.gp = q.task[t].k
  PROVE  Sound(q, e)
<1>1. e
  BY DEF Sound, OffOK, OrderOK, Active
<1>2. Roles(q)
  BY DEF Sound, Active, Moved, Kept, Roles, Tasks, Loops, Pcs
<1>3. LockOK(q)
  BY DEF Sound, Active, Moved, Kept, HeadKept, LockOK, Working, Roles, Tasks, Loops
<1>4. \A u \in Tasks \ {t} : r.task[u].pc # "start"
  BY DEF Sound, LockOK, Working
<1>5. ChildOK(q)
  BY <1>4 DEF Sound, Active, Moved, Kept, ChildOK
<1>6. OrderOK(q)
  BY DEF Sound, Active, Moved, Kept, OrderOK, Roles, Tasks, Loops
<1> QED
  BY <1>1, <1>2, <1>3, <1>5, <1>6 DEF Sound

\* Nobody moves; a child may end.
LEMMA Stays ==
  ASSUME NEW r, NEW e, Sound(r, e), NEW q, Moved(r, q, {}, {}), q.gp = r.gp
  PROVE  Sound(q, e)
<1>1. ~e => OffOK(q)
  BY DEF Sound, OffOK, Moved, Kept, Tasks, Loops
<1>2. Roles(q)
  BY DEF Sound, Moved, Kept, Roles, Tasks, Loops, Pcs
<1>3. LockOK(q)
  BY DEF Sound, Moved, Kept, HeadKept, LockOK, Working
<1>4. ChildOK(q)
  BY DEF Sound, Moved, Kept, ChildOK, StopPcs
<1>5. OrderOK(q)
  BY DEF Sound, Moved, Kept, OrderOK, Tasks, Loops
<1> QED
  BY <1>1, <1>2, <1>3, <1>4, <1>5 DEF Sound

\* The monitor ends, or is started by a connected run loop.
LEMMA MonitorTurns ==
  ASSUME NEW r, NEW e, Sound(r, e), NEW q, Moved(r, q, {"mon"}, {"mon"}), q.gp = r.gp,
         \/ q.task["mon"].pc = "off"
         \/ q.task["mon"].pc = "watch" /\ r.task["run"].pc \notin {"off", "stopping", "cleanup"}
  PROVE  Sound(q, e)
<1>1. ~e => OffOK(q)
  BY DEF Sound, OffOK, Moved, Kept, Tasks, Loops
<1>2. Roles(q)
  BY DEF Sound, Moved, Kept, Roles, Tasks, Loops, Pcs
<1>3. LockOK(q)
  BY DEF Sound, Moved, Kept, HeadKept, LockOK, Working
<1>4. ChildOK(q)
  BY DEF Sound, Moved, Kept, ChildOK, StopPcs
<1>5. OrderOK(q)
  BY DEF Sound, Moved, Kept, OrderOK, Tasks, Loops
<1> QED
  BY <1>1, <1>2, <1>3, <1>4, <1>5 DEF Sound

\* The run loop goes on to its cleanup, or waits for the lock.
Turned(r, q) ==
  /\ q.gp = r.gp
  /\ \/ /\ Moved(r, q, {"mon", "run"}, {"mon", "run"}) /\ q.task["mon"].pc = "off"
        /\ q.task["run"].pc = "cleanup" /\ q.task["run"].k = q.gp
     \/ Moved(r, q, {"run"}, {"run"}) /\ q.task["run"].pc = "lock"

LEMMA Turns ==
  ASSUME NEW r, Form(r)
  PROVE  Turned(r, Looped(r, "run")) /\ Turned(r, Raised(r, "run"))
<1>0. "run" \in Tasks \ {"mon"}
  BY DEF Tasks, Loops
<1>1. Turned(r, Cleanup(r, "run"))
  BY <1>0, CleanupMoves DEF Turned
<1>2. \A job : Turned(r, Waits(r, "run", job))
  <2> TAKE job
  <2> DEFINE q == Waits(r, "run", job)
  <2>1. Moved(r, q, {"run"}, {}) /\ q.gp = r.gp /\ q.task["run"].pc = "lock"
    BY <1>0, WaitsMoves DEF Tasks
  <2> HIDE DEF q
  <2>2. Moved(r, q, {"run"}, {"run"})
    BY <2>1, MovedMore
  <2>3. Turned(r, q)
    BY <2>1, <2>2 DEF Turned
  <2> QED
    BY <2>3 DEF q
<1> QED
  BY <1>1, <1>2 DEF Looped, Raised

LEMMA TurnsSound ==
  ASSUME NEW r, NEW e, Sound(r, e), Active(r, "run"),
         NEW w, Moved(r, w, {}, {"run"}), w.gp = r.gp \/ Vacant(r, "run"),
         NEW q, Turned(w, q)
  PROVE  Form(q) /\ Sound(q, e)
<1>1. CASE Moved(w, q, {"mon", "run"}, {"mon", "run"}) /\ q.task["mon"].pc = "off"
           /\ q.task["run"].pc = "cleanup" /\ q.task["run"].k = q.gp
  <2>1. Moved(r, q, {} \cup {"mon", "run"}, {"run"} \cup {"mon", "run"})
    BY <1>1, MovedTwice
  <2>2. {} \cup {"mon", "run"} = {"mon", "run"} /\ {"run"} \cup {"mon", "run"} = {"mon", "run"}
    OBVIOUS
  <2>3. Moved(r, q, {"mon", "run"}, {"mon", "run"})
    BY <2>1, <2>2
  <2>4. r.task["run"].pc # "off" /\ (q.gp = r.gp \/ Vacant(r, "run"))
    BY DEF Active, Turned
  <2> QED
    BY <1>1, <2>3, <2>4, CleansUp DEF Moved
<1>2. CASE Moved(w, q, {"run"}, {"run"}) /\ q.task["run"].pc = "lock"
  <2>1. Moved(r, q, {} \cup {"run"}, {"run"} \cup {"run"})
    BY <1>2, MovedTwice
  <2>2. Moved(r, q, {"run"}, {"run"}) /\ (q.gp = r.gp \/ Vacant(r, "run"))
    BY <2>1 DEF Turned
  <2> QED
    BY <1>2, <2>2, Rests DEF Moved
<1> QED
  BY <1>1, <1>2 DEF Turned

-----------------------------------------------------------------------------
(* The processes an adapter makes, drops and gives up.                     *)

LEMMA ShutMoves ==
  ASSUME NEW r, Form(r), NEW t
  PROVE  /\ Moved(r, Shut(r, t), {}, {}) /\ Shut(r, t).task = r.task
         /\ Shut(r, t).gp \in {r.gp, 0}
BY DEF Shut, Moved, Kept, HeadKept, Form

LEMMA CreatedMoves ==
  ASSUME NEW r, Form(r), NEW a, NEW t \in Tasks
  PROVE  LET q == Created(a, r, t) IN
         Moved(r, q, {t}, {}) /\ q.task[t].pc = "start" /\ q.gp = q.task[t].k
<1> DEFINE k == Fresh(r)
           e == Endpoint(a, r)
           n == [port |-> e, child |-> "none"]
           b == [proc |-> k, port |-> r.url]
           q == [r EXCEPT !.lease = e, !.proc[k] = n, !.gp = k, !.bound = b,
                          !.task[t].pc = "start", !.task[t].k = k]
<1>1. Created(a, r, t) = q
  BY DEF Created
<1>2. ~Alive(n) /\ "child" \in DOMAIN n
  BY DEF Alive
<1> HIDE DEF k, e, n, b
<1>3. Form(q)
  BY <1>2 DEF Form
<1>4. \A j \in Procs : Alive(q.proc[j]) => Alive(r.proc[j])
  BY <1>2 DEF Form
<1>5. \A u \in Tasks \ {t} : Kept(r, q, u)
  BY DEF Form, Kept
<1>6. HeadKept(r, q, {}) /\ q.task[t].pc = "start" /\ q.gp = q.task[t].k
  BY DEF Form, HeadKept
<1>7. q.task["mon"].job = r.task["mon"].job
  BY DEF Form, Tasks
<1> HIDE DEF q
<1> QED
  BY <1>1, <1>3, <1>4, <1>5, <1>6, <1>7 DEF Moved

\* The child of the current process, and no other, can be running.
LEMMA OnlyCurrent ==
  ASSUME NEW r, Form(r), ChildOK(r), ~Alive([child |-> Child(r)])
  PROVE  \A j \in Procs : ~Alive(r.proc[j])
<1>0. \A j \in Procs : j # 0
  BY RuntimeAssumption DEF Procs
<1> QED
  BY <1>0 DEF ChildOK, Child, Alive

\* A task that is done stopping has nothing left to stop.
LEMMA NothingRuns ==
  ASSUME NEW a, NEW t \in Tasks, Form(acc[a]), ChildOK(acc[a]),
         Pc(a, t) \in StopPcs, ChildStopped(a, t)
  PROVE  \A j \in Procs : ~Alive(acc[a].proc[j])
BY DEF ChildOK, ChildStopped, Pc

LEMMA RecoveredMoves ==
  ASSUME NEW a, Form(acc[a]), ChildOK(acc[a])
  PROVE  LET q == Recovered(a) IN
         /\ Moved(acc[a], q, {}, {}) /\ q.task = acc[a].task
         /\ q.gp = acc[a].gp \/ \A j \in Procs : ~Alive(acc[a].proc[j])
<1> DEFINE q == Recovered(a)
<1>1. CASE BindRace(a)
  <2> DEFINE e == Acquire(a)
  <2>1. q = [acc[a] EXCEPT !.lease = e, !.url = e, !.gp = 0]
    BY <1>1 DEF Recovered
  <2> HIDE DEF e
  <2>2. ~Alive([child |-> Child(acc[a])])
    BY <1>1 DEF BindRace, Alive
  <2>3. Moved(acc[a], [acc[a] EXCEPT !.lease = e, !.url = e, !.gp = 0], {}, {})
    BY DEF Moved, Kept, HeadKept, Form
  <2>4. q.task = acc[a].task
    BY <2>1 DEF Form
  <2> QED
    BY <2>1, <2>2, <2>3, <2>4, OnlyCurrent
<1>2. CASE ~BindRace(a)
  <2>1. q = acc[a]
    BY <1>2 DEF Recovered
  <2> QED
    BY <2>1 DEF Moved, Kept, HeadKept
<1> QED
  BY <1>1, <1>2

-----------------------------------------------------------------------------
(* What the handlers make of the adapter of an account.                    *)

Safe(a, q) == Form(q) /\ Sound(q, a \in on)

\* Whoever works holds the lock, so that nobody else is about to start a process.
LEMMA WorkerAlone ==
  ASSUME NEW r, LockOK(r), NEW t, t # "term",
         r.task[t].pc \in {"health", "start", "wait", "stop"}, t \in Tasks
  PROVE  /\ r.lock # <<>> /\ Head(r.lock) = t
         /\ \A u \in Tasks \ {t} : r.task[u].pc # "start"
BY DEF LockOK, Working

LEMMA EnsuredSafe ==
  ASSUME NEW a, Safe(a, acc[a]), NEW t, Active(acc[a], t)
  PROVE  Safe(a, Ensured(acc[a], t))
<1> DEFINE r == acc[a]
           w == Left(r, t)
           q == Ensured(r, t)
           d == IF t = "mon" THEN "watch" ELSE "sleep"
<1>0. t \in Tasks
  BY DEF Active, Tasks, Loops
<1>1. Moved(r, w, {}, {t}) /\ w.gp = r.gp
  BY LeftMoves DEF Safe
<1>2. q = Goes(w, t, d)
  BY DEF Ensured
<1>d. d \in IF t = "run" THEN {"lock", "sleep", "events"} ELSE {"lock", "watch"}
  BY DEF Active
<1> HIDE DEF w, q, d
<1>f. Form(w)
  BY <1>1 DEF Moved
<1>3. Moved(w, q, {t}, {}) /\ q.gp = w.gp /\ q.task[t].pc = d
  BY <1>0, <1>2, <1>f, GoesMoves
<1>4. Moved(r, q, {} \cup {t}, {t} \cup {})
  BY <1>1, <1>3, MovedTwice
<1>5. Moved(r, q, {t}, {t}) /\ q.gp = r.gp
  BY <1>1, <1>3, <1>4
<1>6. q.task[t].pc \in IF t = "run" THEN {"lock", "sleep", "events"} ELSE {"lock", "watch"}
  BY <1>3, <1>d
<1>7. Sound(q, a \in on) /\ Form(q)
  BY <1>5, <1>6, Rests DEF Safe, Moved
<1> QED
  BY <1>7 DEF Safe, q

\* The process is stopped, or there is none and one is made.
LEMMA RestartingSafe ==
  ASSUME NEW a, Safe(a, acc[a]), NEW t, Active(acc[a], t), acc[a].lock # <<>>, Head(acc[a].lock) = t,
         NEW r, Moved(acc[a], r, {}, {}), r.gp = acc[a].gp
  PROVE  Safe(a, Restarting(a, r, t))
<1>0. t \in Tasks
  BY DEF Active, Tasks, Loops
<1>1. CASE r.gp # 0
  <2> DEFINE q == [r EXCEPT !.task[t].pc = "stop", !.task[t].k = r.gp]
  <2>1. Restarting(a, r, t) = q
    BY <1>1 DEF Restarting
  <2>f. Form(r)
    BY DEF Moved
  <2>j. q.task["mon"].job = r.task["mon"].job
    BY <2>f DEF Form, Tasks
  <2>2. Moved(r, q, {t}, {}) /\ q.gp = r.gp /\ q.task[t].pc = "stop" /\ q.task[t].k = q.gp
    BY <1>0, <2>f, <2>j DEF Moved, Kept, HeadKept, Form
  <2> HIDE DEF q
  <2>3. Moved(acc[a], q, {} \cup {t}, {} \cup {})
    BY <2>2, MovedTwice
  <2>4. Moved(acc[a], q, {t}, {})
    BY <2>3
  <2>5. Sound(q, a \in on)
    BY <2>2, <2>4, Works DEF Safe
  <2> QED
    BY <2>1, <2>4, <2>5 DEF Safe, Moved
<1>2. CASE r.gp = 0
  <2> DEFINE q == Created(a, r, t)
  <2>1. Restarting(a, r, t) = q
    BY <1>2 DEF Restarting
  <2>2. Moved(r, q, {t}, {}) /\ q.task[t].pc = "start" /\ q.gp = q.task[t].k
    BY <1>0, CreatedMoves DEF Moved
  <2> HIDE DEF q
  <2>3. Moved(acc[a], q, {} \cup {t}, {} \cup {})
    BY <2>2, MovedTwice
  <2>4. Moved(acc[a], q, {t}, {})
    BY <2>3
  <2>5. \A j \in Procs : ~Alive(acc[a].proc[j])
    BY <1>2, OnlyCurrent DEF Safe, Sound, Child, Alive
  <2>6. Sound(q, a \in on)
    BY <2>2, <2>4, <2>5, Makes DEF Safe
  <2> QED
    BY <2>1, <2>4, <2>6 DEF Safe, Moved
<1> QED
  BY <1>1, <1>2

\* An exception of the task that holds the lock; k is the process it was to start.
LEMMA FailedSafe ==
  ASSUME NEW a, Safe(a, acc[a]), NEW t, Active(acc[a], t), Pc(a, t) \in {"health", "wait", "start"}
  PROVE  /\ Safe(a, Failed(a, t))
         /\ Pc(a, t) = "start" => Safe(a, [Failed(a, t) EXCEPT !.task[t].k = 0])
<1> DEFINE r == acc[a]
           v == Recovered(a)
           w == Left(v, t)
           q == Failed(a, t)
           z == [q EXCEPT !.task[t].k = 0]
           d == IF t = "mon" THEN "watch" ELSE "sleep"
<1>0. t \in Tasks /\ t # "term"
  BY DEF Active, Tasks, Loops
<1>1. /\ Moved(r, v, {}, {}) /\ v.task = r.task
      /\ v.gp = r.gp \/ \A j \in Procs : ~Alive(r.proc[j])
  BY RecoveredMoves DEF Safe, Sound
<1>2. q = Goes(w, t, d) \/ (q = Raised(w, t) /\ t = "run")
  BY DEF Failed, Active
<1>d. d \in IF t = "run" THEN {"lock", "sleep", "events"} ELSE {"lock", "watch"}
  BY DEF Active
<1> HIDE DEF v, q, d
<1>3. Moved(v, w, {}, {t}) /\ w.gp = v.gp
  BY <1>1, LeftMoves DEF Moved
<1> HIDE DEF w
<1>4. Moved(r, w, {} \cup {}, {} \cup {t})
  BY <1>1, <1>3, MovedTwice
<1>5. Moved(r, w, {}, {t})
  BY <1>4
<1>6. \A u \in Tasks \ {t} : r.task[u].pc # "start"
  BY <1>0, WorkerAlone DEF Safe, Sound, Pc
<1>7. w.gp = r.gp \/ Vacant(r, t)
  BY <1>1, <1>3, <1>6 DEF Vacant
<1>8. Pc(a, t) = "start" => Vacant(r, t)
  BY <1>0, <1>6 DEF Safe, Sound, ChildOK, Vacant, Pc
<1>9. ASSUME q = Goes(w, t, d) PROVE Safe(a, q) /\ Safe(a, z)
  <2>f. Form(w)
    BY <1>5 DEF Moved
  <2>1. Moved(w, q, {t}, {}) /\ q.gp = w.gp /\ q.task[t].pc = d
    BY <1>0, <1>9, <2>f, GoesMoves
  <2>2. Moved(r, q, {} \cup {t}, {t} \cup {})
    BY <1>5, <2>1, MovedTwice
  <2>3. Moved(r, q, {t}, {t}) /\ (q.gp = r.gp \/ Vacant(r, t))
    BY <1>7, <2>1, <2>2
  <2>4. q.task[t].pc \in IF t = "run" THEN {"lock", "sleep", "events"} ELSE {"lock", "watch"}
    BY <1>d, <2>1
  <2>5. Safe(a, q)
    BY <2>3, <2>4, Rests DEF Safe, Moved
  <2>6. /\ Moved(r, z, {t}, {t}) /\ z.gp = q.gp /\ z.task[t].pc = q.task[t].pc
    BY <1>0, <2>3 DEF Moved, Kept, HeadKept, Form
  <2>7. Safe(a, z)
    <3> HIDE DEF z
    <3> QED
      BY <2>3, <2>4, <2>6, Rests DEF Safe, Moved
  <2> QED
    BY <2>5, <2>7
<1>10. ASSUME q = Raised(w, t), t = "run" PROVE Safe(a, q) /\ (Pc(a, t) = "start" => Safe(a, z))
  <2>1. Turned(w, q)
    BY <1>5, <1>10, Turns DEF Moved
  <2>2. Safe(a, q)
    BY <1>5, <1>7, <1>10, <2>1, TurnsSound DEF Safe
  <2>3. ASSUME Pc(a, t) = "start" PROVE Safe(a, z)
    <3>1. Vacant(r, "run") /\ r.task["run"].pc # "off" /\ "run" \in Tasks
      BY <1>0, <1>8, <1>10, <2>3 DEF Pc
    <3>2. CASE Moved(w, q, {"mon", "run"}, {"mon", "run"}) /\ q.task["mon"].pc = "off"
               /\ q.task["run"].pc = "cleanup"
      <4>1. Moved(w, z, {"mon", "run"}, {"mon", "run"}) /\ z.task["mon"].pc = "off"
            /\ z.task["run"].pc = "cleanup"
        BY <1>10, <3>1, <3>2 DEF Moved, Kept, HeadKept, Form
      <4> HIDE DEF z
      <4>2. Moved(r, z, {} \cup {"mon", "run"}, {"run"} \cup {"mon", "run"})
        BY <1>5, <1>10, <4>1, MovedTwice
      <4>3. {} \cup {"mon", "run"} = {"mon", "run"} /\ {"run"} \cup {"mon", "run"} = {"mon", "run"}
        OBVIOUS
      <4>4. Moved(r, z, {"mon", "run"}, {"mon", "run"})
        BY <4>2, <4>3
      <4>5. Sound(r, a \in on)
        BY DEF Safe
      <4>v. /\ r.task["run"].pc # "off" /\ (z.gp = r.gp \/ Vacant(r, "run"))
            /\ z.task["run"].k = z.gp \/ Vacant(r, "run")
        BY <3>1
      <4> HIDE DEF r
      <4>6. Sound(z, a \in on)
        BY <4>v, <4>1, <4>4, <4>5, CleansUp
      <4> QED
        BY <4>4, <4>6 DEF Safe, Moved
    <3>3. CASE Moved(w, q, {"run"}, {"run"}) /\ q.task["run"].pc = "lock"
      <4>1. Moved(w, z, {"run"}, {"run"}) /\ z.task["run"].pc = "lock"
        BY <1>10, <3>1, <3>3 DEF Moved, Kept, HeadKept, Form
      <4> HIDE DEF z
      <4>2. Moved(r, z, {} \cup {"run"}, {"run"} \cup {"run"})
        BY <1>5, <1>10, <4>1, MovedTwice
      <4>3. Moved(r, z, {"run"}, {"run"})
        BY <4>2
      <4> QED
        BY <1>10, <3>1, <4>1, <4>3, Rests DEF Safe, Moved
    <3> QED
      BY <2>1, <3>2, <3>3 DEF Turned
  <2> QED
    BY <2>2, <2>3
<1> HIDE DEF z
<1>11. Safe(a, q) /\ (Pc(a, t) = "start" => Safe(a, z))
  BY <1>2, <1>9, <1>10
<1> QED
  BY <1>11 DEF q, z

\* A step that gives account a the adapter q and enables or disables no account.
Turn(a, q) == Becomes(a, q) /\ on' = on

LEMMA ExitedSafe ==
  ASSUME NEW a, Safe(a, acc[a]), NEW k \in Procs
  PROVE  /\ Safe(a, Exited(acc[a], k))
         /\ Alive(acc[a].proc[k]) => Safe(a, [acc[a] EXCEPT !.proc[k].child = "up"])
<1> DEFINE r == acc[a]
           w == [r EXCEPT !.proc[k].child = "gone"]
           z == [r EXCEPT !.proc[k].child = "up"]
           q == Closed(w)
<1>1. Moved(r, w, {}, {}) /\ w.gp = r.gp
  BY DEF Safe, Form, Moved, Kept, HeadKept, Alive
<1>2. Exited(r, k) = q
  BY DEF Exited
<1>3. Alive(r.proc[k]) => Moved(r, z, {}, {}) /\ z.gp = r.gp
  BY DEF Safe, Form, Moved, Kept, HeadKept, Alive
<1> HIDE DEF w, z
<1>f. Form(w)
  BY <1>1 DEF Moved
<1>4. Moved(w, q, {}, {}) /\ q.gp = w.gp
  BY <1>f, ClosedMoves
<1> HIDE DEF q
<1>5. Moved(r, q, {} \cup {}, {} \cup {})
  BY <1>1, <1>4, MovedTwice
<1>6. Moved(r, q, {}, {}) /\ q.gp = r.gp
  BY <1>1, <1>4, <1>5
<1>7. Safe(a, q)
  BY <1>6, Stays DEF Safe, Moved
<1>8. Alive(r.proc[k]) => Safe(a, z)
  BY <1>3, Stays DEF Safe, Moved
<1> QED
  BY <1>2, <1>7, <1>8 DEF z

\* The run loop whose reconnection was asked for, or whose stream failed.
LEMMA TurnsSafe ==
  ASSUME NEW a, Safe(a, acc[a]), Active(acc[a], "run")
  PROVE  Safe(a, Looped(acc[a], "run")) /\ Safe(a, Raised(acc[a], "run"))
<1>1. Moved(acc[a], acc[a], {}, {"run"})
  BY DEF Safe, Moved, Kept, HeadKept
<1>2. \A q : Turned(acc[a], q) => Safe(a, q)
  BY <1>1, TurnsSound DEF Safe
<1>3. Turned(acc[a], Looped(acc[a], "run")) /\ Turned(acc[a], Raised(acc[a], "run"))
  BY Turns DEF Safe
<1> QED
  BY <1>2, <1>3

\* The monitor is restarted, and the run loop follows its stream or goes round.
LEMMA ConnectedSafe ==
  ASSUME NEW a, Safe(a, acc[a]), NEW t, Active(acc[a], t), Connected(a, t)
  PROVE  \E q : Safe(a, q) /\ Step(a, q)
<1> DEFINE r == acc[a]
           u == Unmonitored(r)
           v == [u EXCEPT !.task["mon"].pc = "watch"]
           w == Left(v, "run")
<1>0. "run" \in Tasks /\ Pc(a, t) = "wait"
  BY DEF Tasks, Loops, Connected
<1>1. \/ Step(a, Ensured(r, t))
      \/ t = "run" /\ (Step(a, Looped(w, "run")) \/ Step(a, Goes(w, "run", "events")))
  <2>1. Job(a, t) = "connect" => t = "run"
    BY DEF Safe, Sound, Roles, Active, Job
  <2> QED
    BY <2>1 DEF Connected
<1>2. CASE Step(a, Ensured(r, t))
  BY <1>2, EnsuredSafe
<1>3. CASE t = "run" /\ (Step(a, Looped(w, "run")) \/ Step(a, Goes(w, "run", "events")))
  <2> HIDE DEF u
  <2>1. Moved(r, u, {"mon"}, {"mon"}) /\ u.gp = r.gp
    BY UnmonitoredMoves DEF Safe, u
  <2>2. Moved(r, v, {"mon"}, {"mon"}) /\ v.gp = r.gp /\ v.task["mon"].pc = "watch"
    BY <2>1 DEF Moved, Kept, HeadKept, Form, Tasks
  <2> HIDE DEF v
  <2>3. r.task["run"].pc = "wait"
    BY <1>0, <1>3 DEF Pc
  <2>4. Sound(v, a \in on)
    BY <2>2, <2>3, MonitorTurns DEF Safe
  <2>5. Active(v, "run")
    BY <1>0, <2>2, <2>3 DEF Active, Moved, Kept
  <2>6. Form(v)
    BY <2>2 DEF Moved
  <2>7. Moved(v, w, {}, {"run"}) /\ w.gp = v.gp
    BY <2>6, LeftMoves
  <2> HIDE DEF w
  <2>8. Form(w)
    BY <2>7 DEF Moved
  <2>9. Safe(a, Looped(w, "run"))
    <3>1. Turned(w, Looped(w, "run"))
      BY <2>8, Turns
    <3> QED
      BY <2>4, <2>5, <2>7, <3>1, TurnsSound DEF Safe
  <2>10. Safe(a, Goes(w, "run", "events"))
    <3> DEFINE q == Goes(w, "run", "events")
    <3>1. Moved(w, q, {"run"}, {}) /\ q.gp = w.gp /\ q.task["run"].pc = "events"
      BY <1>0, <2>8, GoesMoves
    <3> HIDE DEF q
    <3>2. Moved(v, q, {} \cup {"run"}, {"run"} \cup {})
      BY <2>7, <3>1, MovedTwice
    <3>3. Moved(v, q, {"run"}, {"run"}) /\ q.gp = v.gp
      BY <2>7, <3>1, <3>2
    <3>4. Sound(q, a \in on)
      BY <2>4, <2>5, <3>1, <3>3, Rests
    <3> QED
      BY <3>3, <3>4 DEF Safe, Moved, q
  <2> QED
    BY <1>3, <2>9, <2>10
<1> QED
  BY <1>1, <1>2, <1>3

LEMMA EntersSafe ==
  ASSUME NEW a, Safe(a, acc[a]), NEW t, Active(acc[a], t), Connect(a, t) \/ Ensure(a, t)
  PROVE  \E q : Safe(a, q) /\ Step(a, q)
<1>0. t \in Tasks /\ acc[a].lock # <<>> /\ Head(acc[a].lock) = t
  BY DEF Active, Tasks, Loops, Connect, Ensure, Holds
<1>a. ASSUME NEW r, Moved(acc[a], r, {t}, {}), r.gp = acc[a].gp
      PROVE  Safe(a, Goes(r, t, "health"))
  <2> DEFINE q == Goes(r, t, "health")
  <2>1. Form(r)
    BY <1>a DEF Moved
  <2>2. Moved(r, q, {t}, {}) /\ q.gp = r.gp /\ q.task[t].pc = "health"
    BY <1>0, <2>1, GoesMoves
  <2> HIDE DEF q
  <2>3. Moved(acc[a], q, {t} \cup {t}, {} \cup {})
    BY <1>a, <2>2, MovedTwice
  <2>4. Moved(acc[a], q, {t}, {}) /\ q.gp = acc[a].gp
    BY <1>a, <2>2, <2>3
  <2>5. Safe(a, q)
    BY <1>0, <2>2, <2>4, Works DEF Safe, Moved
  <2> QED
    BY <2>5 DEF q
<1>1. CASE Connect(a, t)
  <2> DEFINE e == Endpoint(a, acc[a])
             r == [acc[a] EXCEPT !.reconnect = FALSE, !.force = FALSE, !.lease = e, !.url = e]
  <2>1. Step(a, Restarting(a, r, t)) \/ Step(a, Goes(r, t, "health"))
    BY <1>1 DEF Connect
  <2> HIDE DEF e
  <2>2. Moved(acc[a], r, {}, {}) /\ r.gp = acc[a].gp
    BY DEF Safe, Moved, Kept, HeadKept, Form
  <2> HIDE DEF r
  <2>3. Moved(acc[a], r, {t}, {})
    BY <2>2, MovedMore
  <2>4. Safe(a, Restarting(a, r, t)) /\ Safe(a, Goes(r, t, "health"))
    BY <1>0, <1>a, <2>2, <2>3, RestartingSafe
  <2> QED
    BY <2>1, <2>4
<1>2. CASE Ensure(a, t)
  <2> DEFINE job == IF acc[a].force THEN "forced" ELSE "ensure"
             r == [acc[a] EXCEPT !.force = FALSE, !.task[t].job = job]
  <2>1. Step(a, Goes(r, t, "health"))
    BY <1>2 DEF Ensure
  <2>2. job # "connect"
    OBVIOUS
  <2> HIDE DEF job
  <2>3. Moved(acc[a], r, {t}, {}) /\ r.gp = acc[a].gp
    BY <1>0, <2>2 DEF Safe, Moved, Kept, HeadKept, Form
  <2> HIDE DEF r
  <2> QED
    BY <1>a, <2>1, <2>3
<1> QED
  BY <1>1, <1>2

\* The old process has stopped, and one is made in its place.
LEMMA ReplaceSafe ==
  ASSUME NEW a, Safe(a, acc[a]), NEW t, Active(acc[a], t), Replace(a, t)
  PROVE  Safe(a, Created(a, acc[a], t)) /\ Step(a, Created(a, acc[a], t))
<1> DEFINE q == Created(a, acc[a], t)
<1>0. t \in Tasks /\ t # "term" /\ acc[a].task[t].pc = "stop"
  BY DEF Active, Tasks, Loops, Replace, Pc
<1>1. acc[a].lock # <<>> /\ Head(acc[a].lock) = t
  BY <1>0, WorkerAlone DEF Safe, Sound
<1>2. \A j \in Procs : ~Alive(acc[a].proc[j])
  BY <1>0, NothingRuns DEF Safe, Sound, Replace, StopPcs
<1>3. Moved(acc[a], q, {t}, {}) /\ q.task[t].pc = "start" /\ q.gp = q.task[t].k
  BY <1>0, CreatedMoves DEF Safe
<1>4. Step(a, q)
  BY DEF Replace
<1> HIDE DEF q
<1>5. Safe(a, q)
  BY <1>1, <1>2, <1>3, Makes DEF Safe, Moved
<1> QED
  BY <1>4, <1>5 DEF q

\* Calm: whoever has stopped the child goes on first, so that the new one has nobody on
\* its heels; it is the current process.
LEMMA SpawnSafe ==
  ASSUME NEW a, Safe(a, acc[a]), NEW t, Active(acc[a], t), Spawn(a, t)
  PROVE  \E q : Safe(a, q) /\ (Step(a, q) \/ Fails(a, q))
<1> DEFINE r == acc[a]
           w == Goes(r, t, "wait")
           k == r.task[t].k
           q == [w EXCEPT !.proc[k].child = "boot", !.task[t].k = 0]
<1>0. t \in Tasks /\ t # "term" /\ r.task[t].pc = "start"
  BY DEF Active, Tasks, Loops, Spawn, Pc
<1>1. Step(a, q) \/ Fails(a, [Failed(a, t) EXCEPT !.task[t].k = 0])
  BY DEF Spawn
<1>2. CASE Fails(a, [Failed(a, t) EXCEPT !.task[t].k = 0])
  BY <1>0, <1>2, FailedSafe DEF Pc
<1>3. CASE Step(a, q)
  <2>1. Form(r) /\ Sound(r, a \in on) /\ r.gp = k
    BY <1>0 DEF Safe, Sound, ChildOK
  <2>2. Moved(r, w, {t}, {}) /\ w.gp = r.gp /\ w.task[t].pc = "wait"
    BY <1>0, <2>1, GoesMoves
  <2>3. \A j \in Procs : ~Alive(r.proc[j])
    BY <1>0, <2>1 DEF Sound, ChildOK
  <2>4. \A u \in Tasks : r.task[u].pc \notin StopPcs
    <3>1. \A u \in Tasks : r.task[u].pc \in StopPcs => ~ChildStopped(a, u)
      BY DEF Spawn, Calm, StopPcs, Pc
    <3>2. \A u \in Tasks : ChildStopped(a, u)
      BY <2>3 DEF ChildStopped
    <3> QED
      BY <3>1, <3>2
  <2>5. \A u \in Tasks \ {t} : r.task[u].pc # "start"
    BY <1>0, <2>1, WorkerAlone DEF Sound
  <2> HIDE DEF k
  <2>6. /\ Form(q) /\ q.gp = r.gp /\ q.task[t].pc = "wait" /\ HeadKept(r, q, {})
        /\ \A u \in Tasks \ {t} : Kept(r, q, u)
        /\ \A j \in Procs \ {k} : ~Alive(q.proc[j])
        /\ q.task["mon"].job # "connect"
    <3>1. /\ Form(w) /\ w.task["mon"].job # "connect" /\ HeadKept(r, w, {})
          /\ \A u \in Tasks \ {t} : Kept(r, w, u)
          /\ \A j \in Procs : ~Alive(w.proc[j])
      BY <2>1, <2>2, <2>3 DEF Moved, Sound, Roles
    <3> HIDE DEF w
    <3>2. Form(q)
      BY <3>1 DEF Form
    <3>3. q.gp = r.gp /\ q.task[t].pc = "wait" /\ q.task["mon"].job # "connect"
      BY <1>0, <2>2, <3>1 DEF Form, Tasks
    <3>4. HeadKept(r, q, {}) /\ \A u \in Tasks \ {t} : Kept(r, q, u)
      BY <3>1 DEF Form, HeadKept, Kept
    <3>5. \A j \in Procs \ {k} : ~Alive(q.proc[j])
      BY <3>1 DEF Form
    <3> QED
      BY <3>2, <3>3, <3>4, <3>5
  <2> HIDE DEF w, q
  <2>7. Roles(q)
    BY <2>1, <2>6 DEF Sound, Active, Kept, Roles, Tasks, Loops, Pcs
  <2>8. LockOK(q)
    BY <1>0, <2>1, <2>6 DEF Sound, Kept, HeadKept, LockOK, Working
  <2>9. ChildOK(q)
    BY <2>1, <2>4, <2>5, <2>6 DEF Kept, ChildOK, StopPcs
  <2>10. OrderOK(q)
    BY <2>1, <2>6 DEF Sound, Active, Kept, OrderOK, Roles, Tasks, Loops
  <2>11. a \in on
    BY <2>1 DEF Sound, OffOK, OrderOK, Active
  <2>12. Safe(a, q)
    BY <2>6, <2>7, <2>8, <2>9, <2>10, <2>11 DEF Safe, Sound
  <2> QED
    BY <1>3, <2>12
<1> HIDE DEF q
<1> QED
  BY <1>1, <1>2, <1>3

\* After its pause the run loop shuts the Gateway down for a reconnection, or goes round.
LEMMA SleepEndsSafe ==
  ASSUME NEW a, Safe(a, acc[a]), Active(acc[a], "run"), SleepEnds(a, "run")
  PROVE  \E q : Safe(a, q) /\ Step(a, q)
<1> DEFINE r == [acc[a] EXCEPT !.reconnect = FALSE]
           q == Shutting(r, "run", "stopping")
<1>0. "run" \in Tasks \ {"mon"}
  BY DEF Tasks, Loops
<1>1. Step(a, q) \/ Step(a, Looped(acc[a], "run"))
  BY DEF SleepEnds
<1>2. CASE Step(a, Looped(acc[a], "run"))
  BY <1>2, TurnsSafe
<1>3. CASE Step(a, q)
  <2>1. Moved(acc[a], r, {}, {}) /\ r.gp = acc[a].gp
    BY DEF Safe, Moved, Kept, HeadKept, Form
  <2> HIDE DEF r
  <2>2. Form(r)
    BY <2>1 DEF Moved
  <2>3. /\ Moved(r, q, {"mon", "run"}, {"mon"}) /\ q.gp = r.gp /\ q.task["mon"].pc = "off"
        /\ q.task["run"].pc = "stopping" /\ q.task["run"].k = r.gp
    BY <1>0, <2>2, ShuttingMoves
  <2> HIDE DEF q
  <2>4. Moved(acc[a], q, {} \cup {"mon", "run"}, {} \cup {"mon"})
    BY <2>1, <2>3, MovedTwice
  <2>5. Moved(acc[a], q, {"mon", "run"}, {"mon"})
    BY <2>4
  <2>6. Moved(acc[a], q, {"mon", "run"}, {"mon", "run"})
    BY <2>5, MovedMore
  <2>7. Sound(acc[a], a \in on) /\ acc[a].task["run"].pc # "off"
    BY DEF Safe, Active
  <2>8. Sound(q, a \in on)
    BY <2>1, <2>3, <2>6, <2>7, CleansUp
  <2> QED
    BY <1>3, <2>6, <2>8 DEF Safe, Moved
<1> QED
  BY <1>1, <1>2, <1>3

\* ... and connects again once the process has stopped.
LEMMA StoppedSafe ==
  ASSUME NEW a, Safe(a, acc[a]), Stopped(a, "run")
  PROVE  \E q : Safe(a, q) /\ Step(a, q)
<1> DEFINE r == acc[a]
           w == Shut(r, "run")
           q == Looped(w, "run")
<1>0. "run" \in Tasks /\ r.task["run"].pc = "stopping" /\ ChildStopped(a, "run") /\ Step(a, q)
  BY DEF Tasks, Loops, Stopped, Pc
<1>1. Active(r, "run")
  BY <1>0 DEF Active
<1>2. \A j \in Procs : ~Alive(r.proc[j])
  BY <1>0, NothingRuns DEF Safe, Sound, StopPcs, Pc
<1>3. Vacant(r, "run")
  BY <1>0, <1>2 DEF Safe, Sound, OrderOK, Roles, Vacant, Tasks, Loops
<1>4. Moved(r, w, {}, {})
  BY ShutMoves DEF Safe
<1> HIDE DEF w
<1>5. Moved(r, w, {}, {"run"}) /\ Form(w)
  BY <1>4, MovedMore DEF Moved
<1>6. Turned(w, q)
  BY <1>5, Turns
<1> HIDE DEF q
<1>7. Safe(a, q)
  BY <1>1, <1>3, <1>5, <1>6, TurnsSound DEF Safe
<1> QED
  BY <1>0, <1>7

LEMMA RunEndsSafe ==
  ASSUME NEW a, Safe(a, acc[a]), RunEnds(a, "run")
  PROVE  \E q : Safe(a, q) /\ Step(a, q)
<1> DEFINE r == acc[a]
           w == Shut(r, "run")
           v == Done(w, "run")
           q == [v EXCEPT !.lease = 0]
<1>0. "run" \in Tasks /\ r.task["run"].pc = "cleanup" /\ ChildStopped(a, "run") /\ Step(a, q)
  BY DEF Tasks, Loops, RunEnds, Pc
<1>1. \A j \in Procs : ~Alive(r.proc[j])
  BY <1>0, NothingRuns DEF Safe, Sound, StopPcs, Pc
<1>2. Vacant(r, "run")
  BY <1>0, <1>1 DEF Safe, Sound, OrderOK, Roles, Vacant, Tasks, Loops
<1>3. Moved(r, w, {}, {})
  BY ShutMoves DEF Safe
<1> HIDE DEF w
<1>f. Form(w)
  BY <1>3 DEF Moved
<1>4. Moved(w, v, {"run"}, {}) /\ v.task["run"].pc = "off"
  BY <1>0, <1>f, DoneMoves
<1> HIDE DEF v
<1>5. Moved(w, q, {"run"}, {}) /\ q.task["run"].pc = "off"
  BY <1>4 DEF Moved, Kept, HeadKept, Form
<1> HIDE DEF q
<1>6. Moved(r, q, {} \cup {"run"}, {} \cup {})
  BY <1>3, <1>5, MovedTwice
<1>7. Moved(r, q, {"run"}, {})
  BY <1>6
<1>8. Sound(r, a \in on)
  BY DEF Safe
<1>9. a \notin on => OffOK(q)
  BY <1>5, <1>7, <1>8 DEF Sound, OffOK, Moved, Kept, Tasks, Loops
<1>10. Roles(q)
  BY <1>5, <1>7, <1>8 DEF Sound, Moved, Kept, Roles, Tasks, Loops, Pcs
<1>11. LockOK(q)
  BY <1>5, <1>7, <1>8 DEF Sound, Moved, Kept, HeadKept, LockOK, Working
<1>12. ChildOK(q)
  BY <1>2, <1>5, <1>7 DEF Vacant, Moved, Kept, ChildOK, StopPcs
<1>13. OrderOK(q)
  BY <1>0, <1>5, <1>7, <1>8 DEF Sound, Moved, Kept, OrderOK, Tasks, Loops
<1>14. Safe(a, q)
  BY <1>7, <1>9, <1>10, <1>11, <1>12, <1>13 DEF Safe, Sound, Moved
<1> QED
  BY <1>0, <1>14

\* Whatever the run loop or the monitor does.
LEMMA LoopSafe ==
  ASSUME ChildInv, NEW a \in Accounts, NEW t \in Tasks, Loop(a, t),
         StopChild(a, t) \/ t \in Loops \cup {"mon"}
  PROVE  \E q : Safe(a, q) /\ Turn(a, q)
<1>a. \A q : Safe(a, q) /\ (Step(a, q) \/ Fails(a, q)) => Turn(a, q)
  BY DEF Step, Fails, Turn
<1>b. Safe(a, acc[a])
  BY DEF ChildInv, Safe
<1>1. CASE StopChild(a, t)
  <2>1. PICK k \in Procs : Step(a, Exited(acc[a], k))
    BY <1>1 DEF StopChild
  <2> QED
    BY <1>a, <1>b, <2>1, ExitedSafe
<1>2. CASE RunEnds(a, t)
  <2>1. t = "run"
    BY <1>2, <1>b DEF RunEnds, Pc, Safe, Sound, Roles, Loops
  <2> QED
    BY <1>2, <1>a, <1>b, <2>1, RunEndsSafe
<1>3. CASE ~StopChild(a, t) /\ ~RunEnds(a, t)
  <2>1. Pc(a, t) \notin {"off", "cleanup"}
    BY <1>3 DEF Loop, Connect, Ensure, Healthy, Unhealthy, Unauthorized, Replace, Spawn, Connected,
                WaitFails, StreamEnds, SleepEnds, Stopped
  <2>2. Active(acc[a], t)
    BY <1>3, <1>b, <2>1 DEF Active, Pc, Safe, Sound, Roles, Loops
  <2>l. Pc(a, t) \in {"health", "start", "wait"} => acc[a].lock # <<>> /\ Head(acc[a].lock) = t
    BY <1>b, <2>2, WorkerAlone DEF Safe, Sound, Active, Pc
  <2>m. Moved(acc[a], acc[a], {}, {})
    BY <1>b DEF Safe, Moved, Kept, HeadKept
  <2>r. Pc(a, t) = "health" => Safe(a, Restarting(a, acc[a], t))
    BY <1>b, <2>2, <2>l, <2>m, RestartingSafe
  <2>f. Pc(a, t) \in {"health", "wait"} => Safe(a, Failed(a, t))
    BY <1>b, <2>2, FailedSafe
  <2>3. CASE Connect(a, t) \/ Ensure(a, t)
    BY <1>a, <1>b, <2>2, <2>3, EntersSafe
  <2>4. CASE Healthy(a, t)
    <3>1. Safe(a, Goes(acc[a], t, "wait"))
      <4> DEFINE q == Goes(acc[a], t, "wait")
      <4>1. Moved(acc[a], q, {t}, {}) /\ q.gp = acc[a].gp /\ q.task[t].pc = "wait"
        BY <1>b, GoesMoves DEF Safe
      <4> HIDE DEF q
      <4>2. Safe(a, q)
        BY <1>b, <2>2, <2>4, <2>l, <4>1, Works DEF Safe, Moved, Healthy
      <4> QED
        BY <4>2 DEF q
    <3>2. Safe(a, Ensured(acc[a], t))
      BY <1>b, <2>2, EnsuredSafe
    <3> QED
      BY <1>a, <2>4, <2>r, <3>1, <3>2 DEF Healthy
  <2>5. CASE Unhealthy(a, t)
    BY <1>a, <2>5, <2>r DEF Unhealthy
  <2>6. CASE Unauthorized(a, t) \/ WaitFails(a, t)
    BY <1>a, <2>6, <2>f DEF Unauthorized, WaitFails
  <2>7. CASE Replace(a, t)
    BY <1>a, <1>b, <2>2, <2>7, ReplaceSafe
  <2>8. CASE Spawn(a, t)
    BY <1>a, <1>b, <2>2, <2>8, SpawnSafe
  <2>9. CASE Connected(a, t)
    BY <1>a, <1>b, <2>2, <2>9, ConnectedSafe
  <2>10. CASE StreamEnds(a, t) \/ SleepEnds(a, t) \/ Stopped(a, t)
    <3>1. t = "run"
      BY <1>b, <2>2, <2>10 DEF StreamEnds, SleepEnds, Stopped, Pc, Safe, Sound, Roles, Active
    <3>2. CASE StreamEnds(a, t)
      BY <1>a, <1>b, <2>2, <3>1, <3>2, TurnsSafe DEF StreamEnds
    <3>3. CASE SleepEnds(a, t)
      BY <1>a, <1>b, <2>2, <3>1, <3>3, SleepEndsSafe
    <3>4. CASE Stopped(a, t)
      BY <1>a, <1>b, <3>1, <3>4, StoppedSafe
    <3> QED
      BY <2>10, <3>2, <3>3, <3>4
  <2> QED
    BY <1>3, <2>3, <2>4, <2>5, <2>6, <2>7, <2>8, <2>9, <2>10 DEF Loop
<1> QED
  BY <1>1, <1>2, <1>3

LEMMA MonitorSafe ==
  ASSUME ChildInv, NEW a \in Accounts, Monitor(a)
  PROVE  \E q : Safe(a, q) /\ Turn(a, q)
<1> DEFINE r == acc[a]
           w == Waits(r, "mon", "ensure")
           d == Done(r, "mon")
<1>0. "mon" \in Tasks /\ Safe(a, r) /\ r.task["mon"].pc = "watch"
  BY DEF Tasks, ChildInv, Safe, Monitor, Pc
<1>1. Turn(a, d) \/ Turn(a, w)
  BY DEF Monitor, Step, Fails, Turn
<1>2. Moved(r, d, {"mon"}, {}) /\ d.gp = r.gp /\ d.task["mon"].pc = "off"
  BY <1>0, DoneMoves DEF Safe
<1>3. Moved(r, w, {"mon"}, {}) /\ w.gp = r.gp /\ w.task["mon"].pc = "lock"
  BY <1>0, WaitsMoves DEF Safe
<1> HIDE DEF d, w
<1>4. Safe(a, d)
  <2>1. Moved(r, d, {"mon"}, {"mon"})
    BY <1>2, MovedMore
  <2> QED
    BY <1>0, <1>2, <2>1, MonitorTurns DEF Safe, Moved
<1>5. Safe(a, w)
  <2>1. Moved(r, w, {"mon"}, {"mon"})
    BY <1>3, MovedMore
  <2>2. Active(r, "mon")
    BY <1>0 DEF Active
  <2> QED
    BY <1>0, <1>3, <2>1, <2>2, Rests DEF Safe, Moved
<1> QED
  BY <1>1, <1>4, <1>5

\* A reload waits for the lock, stops the process and drops it; nobody else starts one.
LEMMA ReloadTurns ==
  ASSUME NEW r, NEW e, Sound(r, e), NEW q, Moved(r, q, {"mon", "reload"}, {"mon", "reload"}),
         q.gp = r.gp \/ Vacant(r, "reload"),
         Kept(r, q, "mon") \/ q.task["mon"].pc = "off",
         \/ q.task["reload"].pc \in {"off", "lock"} /\ Kept(r, q, "mon") /\ HeadKept(r, q, {"reload"})
         \/ /\ q.task["reload"].pc = "stop" /\ q.task["reload"].k = q.gp
            /\ q.lock # <<>> /\ Head(q.lock) = "reload" /\ Head(r.lock) = "reload"
  PROVE  Sound(q, e)
<1>1. ~e => OffOK(q)
  BY DEF Sound, OffOK, Moved, Kept, Tasks, Loops
<1>2. Roles(q)
  BY DEF Sound, Moved, Kept, Roles, Tasks, Loops, Pcs
<1>3. LockOK(q)
  BY DEF Sound, Moved, Kept, HeadKept, LockOK, Working, Roles, Tasks, Loops
<1>4. ChildOK(q)
  BY DEF Sound, Moved, Kept, ChildOK, StopPcs, Vacant, Roles, Tasks, Loops
<1>5. OrderOK(q)
  BY DEF Sound, Moved, Kept, OrderOK, Tasks, Loops
<1> QED
  BY <1>1, <1>2, <1>3, <1>4, <1>5 DEF Sound

LEMMA ReloadSafe ==
  ASSUME ChildInv, NEW a \in Accounts, Reload(a) \/ ReloadShuts(a) \/ ReloadEnds(a)
  PROVE  \E q : Safe(a, q) /\ Turn(a, q)
<1> DEFINE r == acc[a]
<1>0. /\ "reload" \in Tasks \ {"mon"} /\ "mon" \in Tasks
      /\ Form(r) /\ Sound(r, a \in on) /\ ChildOK(r)
  BY DEF Tasks, ChildInv, Sound
<1>1. CASE Reload(a)
  <2> DEFINE q == Waits(r, "reload", "none")
  <2>1. Turn(a, q)
    BY <1>1 DEF Reload, Turn
  <2>2. Moved(r, q, {"reload"}, {}) /\ q.gp = r.gp /\ q.task["reload"].pc = "lock"
    BY <1>0, WaitsMoves
  <2> HIDE DEF q
  <2>3. Moved(r, q, {"mon", "reload"}, {"mon", "reload"})
    BY <2>2, MovedMore
  <2>4. Kept(r, q, "mon") /\ HeadKept(r, q, {"reload"})
    BY <1>0, <2>2 DEF Moved, HeadKept
  <2>5. Sound(q, a \in on)
    BY <1>0, <2>2, <2>3, <2>4, ReloadTurns
  <2> QED
    BY <2>1, <2>2, <2>5 DEF Safe, Moved
<1>2. CASE ReloadShuts(a)
  <2> DEFINE w == [r EXCEPT !.reconnect = TRUE]
             q == Shutting(w, "reload", "stop")
  <2>1. Turn(a, q) /\ r.lock # <<>> /\ Head(r.lock) = "reload"
    BY <1>2 DEF ReloadShuts, Turn, Step, Holds
  <2>2. Moved(r, w, {}, {}) /\ w.gp = r.gp
    BY <1>0 DEF Moved, Kept, HeadKept, Form
  <2> HIDE DEF w
  <2>f. Form(w)
    BY <2>2 DEF Moved
  <2>3. /\ Moved(w, q, {"mon", "reload"}, {"mon"}) /\ q.gp = w.gp /\ q.task["mon"].pc = "off"
        /\ q.task["reload"].pc = "stop" /\ q.task["reload"].k = w.gp
    BY <1>0, <2>f, ShuttingMoves
  <2> HIDE DEF q
  <2>4. Moved(r, q, {} \cup {"mon", "reload"}, {} \cup {"mon"})
    BY <2>2, <2>3, MovedTwice
  <2>5. Moved(r, q, {"mon", "reload"}, {"mon"})
    BY <2>4
  <2>6. q.lock # <<>> /\ Head(q.lock) = "reload"
    BY <2>1, <2>5 DEF Moved, HeadKept
  <2>7. Moved(r, q, {"mon", "reload"}, {"mon", "reload"})
    BY <2>5, MovedMore
  <2>8. Sound(q, a \in on)
    BY <1>0, <2>1, <2>2, <2>3, <2>6, <2>7, ReloadTurns
  <2> QED
    BY <2>1, <2>7, <2>8 DEF Safe, Moved
<1>3. CASE ReloadEnds(a)
  <2> DEFINE w == Shut(r, "reload")
             u == [w EXCEPT !.lease = 0]
             e == Endpoint(a, u)
             k == r.task["reload"].k
             v == [u EXCEPT !.lease = e, !.url = e, !.force = TRUE,
                            !.bound = IF k \in {0, @.proc} THEN [proc |-> 0, port |-> 0] ELSE @]
             x == Left(v, "reload")
             q == Done(x, "reload")
  <2>1. Turn(a, q) /\ r.task["reload"].pc = "stop" /\ ChildStopped(a, "reload")
    BY <1>3 DEF ReloadEnds, Turn, Step, Pc
  <2>2. \A j \in Procs : ~Alive(r.proc[j])
    BY <1>0, <2>1, NothingRuns DEF StopPcs, Pc
  <2>3. \A t \in Tasks \ {"reload"} : r.task[t].pc # "start"
    BY <1>0, <2>1, WorkerAlone DEF Sound
  <2>4. Vacant(r, "reload")
    BY <2>2, <2>3 DEF Vacant
  <2>5. Moved(r, w, {}, {})
    BY <1>0, ShutMoves
  <2> HIDE DEF w, e, k
  <2>6. Moved(r, v, {}, {})
    <3>1. Moved(r, u, {}, {})
      BY <2>5 DEF Moved, Kept, HeadKept, Form
    <3> HIDE DEF u
    <3> QED
      BY <3>1 DEF Moved, Kept, HeadKept, Form
  <2> HIDE DEF u, v
  <2>f. Form(v)
    BY <2>6 DEF Moved
  <2>7. Moved(v, x, {}, {"reload"})
    BY <2>f, LeftMoves
  <2> HIDE DEF x
  <2>g. Form(x)
    BY <2>7 DEF Moved
  <2>8. Moved(x, q, {"reload"}, {}) /\ q.task["reload"].pc = "off"
    BY <1>0, <2>g, DoneMoves
  <2> HIDE DEF q
  <2>9. Moved(v, q, {} \cup {"reload"}, {"reload"} \cup {})
    BY <2>7, <2>8, MovedTwice
  <2>10. Moved(r, q, {} \cup ({} \cup {"reload"}), {} \cup ({"reload"} \cup {}))
    BY <2>6, <2>9, MovedTwice
  <2>11. Moved(r, q, {"reload"}, {"reload"})
    BY <2>10
  <2>12. Moved(r, q, {"mon", "reload"}, {"mon", "reload"})
    BY <2>11, MovedMore
  <2>13. Kept(r, q, "mon") /\ HeadKept(r, q, {"reload"})
    BY <1>0, <2>11 DEF Moved
  <2>14. Sound(q, a \in on)
    BY <1>0, <2>4, <2>8, <2>12, <2>13, ReloadTurns
  <2> QED
    BY <2>1, <2>12, <2>14 DEF Safe, Moved
<1> QED
  BY <1>1, <1>2, <1>3

-----------------------------------------------------------------------------
(* A termination, and what it leaves.                                      *)

\* It awaits the cancelled loop, or stops the process the monitor no longer watches; a hot
\* reload finds the loop ended.
LEMMA TermTurns ==
  ASSUME NEW r, NEW e, Sound(r, e), e, NEW q,
         Moved(r, q, {"mon", "run", "term"}, {"mon", "run"}), q.gp = r.gp,
         \/ Kept(r, q, "run")
         \/ /\ q.task["run"].pc \in {"off", "cleanup"}
            /\ q.task["run"].pc = "cleanup" => q.task["run"].k = q.gp,
         q.task["mon"].pc = "off",
         \/ q.task["term"].pc = "await" /\ q.task["run"].pc \in {"off", "cleanup"}
         \/ /\ q.task["term"].pc = "stop" /\ q.task["term"].k = q.gp
            /\ q.task["term"].job = "hot" => q.task["run"].pc = "off",
         Kept(r, q, "run") =>
           (r.lock # <<>> /\ Head(r.lock) = "run" => q.lock # <<>> /\ Head(q.lock) = "run")
  PROVE  Sound(q, e)
<1>1. Roles(q)
  BY DEF Sound, Moved, Kept, Roles, Tasks, Loops, Pcs
<1>2. LockOK(q)
  <2>1. \A t \in Tasks : Working(q, t) => t = "reload" \/ (t = "run" /\ Kept(r, q, "run"))
    BY <1>1 DEF Roles, Working, Tasks, Loops
  <2>2. Working(q, "reload") => q.lock # <<>> /\ Head(q.lock) = "reload"
    BY DEF Sound, Moved, Kept, HeadKept, LockOK, Working, Tasks, Loops
  <2>3. Working(q, "run") /\ Kept(r, q, "run") => q.lock # <<>> /\ Head(q.lock) = "run"
    BY DEF Sound, Kept, LockOK, Working, Tasks, Loops
  <2> QED
    BY <2>1, <2>2, <2>3 DEF LockOK
<1>3. ChildOK(q)
  BY DEF Sound, Moved, Kept, ChildOK, StopPcs, Roles, Tasks, Loops
<1>4. OrderOK(q)
  BY DEF OrderOK
<1> QED
  BY <1>1, <1>2, <1>3, <1>4 DEF Sound

LEMMA TermShuts ==
  ASSUME NEW r, Form(r), Sound(r, TRUE), r.task["term"].job = "hot" => r.task["run"].pc = "off"
  PROVE  LET q == Shutting(r, "term", "stop") IN Form(q) /\ Sound(q, TRUE)
<1> DEFINE q == Shutting(r, "term", "stop")
<1>0. "term" \in Tasks \ {"mon"} /\ "run" \in Tasks
  BY DEF Tasks, Loops
<1>1. /\ Moved(r, q, {"mon", "term"}, {"mon"}) /\ q.gp = r.gp /\ q.task["mon"].pc = "off"
      /\ q.task["term"].pc = "stop" /\ q.task["term"].k = r.gp
      /\ q.task["term"].job = r.task["term"].job
  BY <1>0, ShuttingMoves
<1> HIDE DEF q
<1>2. Moved(r, q, {"mon", "run", "term"}, {"mon", "run"})
  BY <1>1, MovedMore
<1>3. Kept(r, q, "run") /\ HeadKept(r, q, {"mon"})
  BY <1>0, <1>1 DEF Moved
<1>4. q.task["term"].job = "hot" => q.task["run"].pc = "off"
  BY <1>1, <1>3 DEF Kept
<1>5. r.lock # <<>> /\ Head(r.lock) = "run" => q.lock # <<>> /\ Head(q.lock) = "run"
  BY <1>3 DEF HeadKept
<1>6. Sound(q, TRUE)
  BY <1>1, <1>2, <1>3, <1>4, <1>5, TermTurns
<1> QED
  BY <1>2, <1>6 DEF Moved, q

\* A loop that is cancelled while the termination waits: it cleans up, or ends.
LEMMA CancelledSound ==
  ASSUME NEW r, Form(r), Sound(r, TRUE)
  PROVE  LET q == Cancelled(r, "run") IN
         Form(q) /\ Sound(q, TRUE) /\ q.task["mon"].pc = "off"
<1> DEFINE q == Cancelled(r, "run")
<1>1. /\ Moved(r, q, {"mon", "run"}, {"mon", "run"}) /\ q.gp = r.gp
      /\ q.task["run"].pc \in {"off", "cleanup"}
      /\ q.task["run"].pc = "cleanup" => q.task["run"].k = r.gp
      /\ r.task["run"].pc \notin {"off", "cleanup"} => q.task["mon"].pc = "off"
      /\ r.task["run"].pc \in {"off", "cleanup"} =>
           q.task["run"].pc = "off" /\ q.task["mon"].pc = r.task["mon"].pc
  BY CancelledMoves
<1> HIDE DEF q
<1>2. q.task["mon"].pc = "off"
  BY <1>1 DEF Sound, OrderOK
<1>3. Roles(q)
  BY <1>1, <1>2 DEF Sound, Moved, Kept, Roles, Tasks, Loops, Pcs
<1>4. LockOK(q)
  BY <1>1, <1>2 DEF Sound, Moved, Kept, HeadKept, LockOK, Working, Roles, Tasks, Loops
<1>5. ChildOK(q)
  BY <1>1, <1>2 DEF Sound, Moved, Kept, ChildOK, StopPcs, Roles, Tasks, Loops
<1>6. OrderOK(q)
  BY <1>1, <1>2 DEF Sound, Moved, Kept, OrderOK, Tasks, Loops
<1> QED
  BY <1>1, <1>2, <1>3, <1>4, <1>5, <1>6 DEF Sound, Moved, q

LEMMA TerminateSafe ==
  ASSUME ~TakeOver, ChildInv, NEW a \in Accounts, NEW how, Terminate(a, how)
  PROVE  \E q : Safe(a, q) /\ Turn(a, q)
<1> DEFINE r == [acc[a] EXCEPT !.stopped = TRUE, !.reconnect = TRUE, !.task["term"].job = how]
           w == Cancelled(r, "run")
           q == Goes(w, "term", "await")
<1>0. /\ "term" \in Tasks /\ "run" \in Tasks /\ "mon" \in Tasks /\ a \in on
      /\ Form(acc[a]) /\ Sound(acc[a], TRUE) /\ acc[a].task["term"].pc = "off"
  BY DEF Tasks, Loops, ChildInv, Terminate, Pc
<1>1. /\ r.tracked /\ r.task["run"].pc # "off" => Turn(a, q)
      /\ ~(r.tracked /\ r.task["run"].pc # "off") => Turn(a, Shutting(r, "term", "stop"))
      /\ r.task["term"].job = "hot" => r.tracked
  BY <1>0 DEF Terminate, Turn, Form
<1>2. /\ Moved(acc[a], r, {"term"}, {}) /\ r.gp = acc[a].gp /\ r.task["term"].pc = "off"
      /\ HeadKept(acc[a], r, {})
  BY <1>0 DEF Moved, Kept, HeadKept, Form
<1> HIDE DEF r
<1>3. Form(r) /\ Sound(r, TRUE)
  <2>1. Roles(r)
    BY <1>0, <1>2 DEF Sound, Moved, Kept, Roles, Tasks, Loops, Pcs
  <2>2. LockOK(r)
    BY <1>0, <1>2 DEF Sound, Moved, Kept, HeadKept, LockOK, Working
  <2>3. ChildOK(r)
    BY <1>0, <1>2 DEF Sound, Moved, Kept, ChildOK, StopPcs
  <2>4. OrderOK(r)
    BY <1>0, <1>2 DEF Sound, Moved, Kept, OrderOK, Tasks, Loops
  <2> QED
    BY <1>2, <2>1, <2>2, <2>3, <2>4 DEF Sound, Moved
<1>4. CASE r.tracked /\ r.task["run"].pc # "off"
  <2>1. Form(w) /\ Sound(w, TRUE) /\ w.task["mon"].pc = "off"
    BY <1>3, CancelledSound
  <2>2. w.task["run"].pc \in {"off", "cleanup"}
    BY <1>3, CancelledMoves
  <2> HIDE DEF w
  <2>3. Moved(w, q, {"term"}, {}) /\ q.gp = w.gp /\ q.task["term"].pc = "await"
    BY <1>0, <2>1, GoesMoves
  <2> HIDE DEF q
  <2>4. Kept(w, q, "run") /\ Kept(w, q, "mon") /\ HeadKept(w, q, {})
    BY <1>0, <2>3 DEF Moved
  <2>5. q.task["run"].pc \in {"off", "cleanup"} /\ q.task["mon"].pc = "off"
    BY <2>1, <2>2, <2>4 DEF Kept
  <2>6. Moved(w, q, {"mon", "run", "term"}, {"mon", "run"})
    BY <2>3, MovedMore
  <2>7. w.lock # <<>> /\ Head(w.lock) = "run" => q.lock # <<>> /\ Head(q.lock) = "run"
    BY <2>4 DEF HeadKept
  <2>8. Sound(q, TRUE)
    BY <2>1, <2>3, <2>4, <2>5, <2>6, <2>7, TermTurns
  <2> QED
    BY <1>0, <1>1, <1>4, <2>3, <2>8 DEF Safe, Moved
<1>5. CASE ~(r.tracked /\ r.task["run"].pc # "off")
  <2>1. Form(Shutting(r, "term", "stop")) /\ Sound(Shutting(r, "term", "stop"), TRUE)
    BY <1>1, <1>3, <1>5, TermShuts
  <2> QED
    BY <1>0, <1>1, <1>5, <2>1 DEF Safe
<1> QED
  BY <1>4, <1>5

LEMMA RunAwaitedSafe ==
  ASSUME ChildInv, NEW a \in Accounts, RunAwaited(a)
  PROVE  \E q : Safe(a, q) /\ Turn(a, q)
<1> DEFINE r == acc[a]
           w == Cancelled(r, "run")
<1>0. Form(r) /\ Sound(r, a \in on) /\ r.task["term"].pc = "await"
  BY DEF ChildInv, RunAwaited, Pc
<1>1. a \in on /\ r.task["run"].pc \in {"off", "cleanup"} /\ Sound(r, TRUE)
  BY <1>0 DEF Sound, OffOK, OrderOK
<1>2. \/ r.task["run"].pc = "off" /\ Turn(a, Shutting(r, "term", "stop"))
      \/ Turn(a, Shutting(w, "term", "stop"))
  BY DEF RunAwaited, Step, Fails, Turn, Pc
<1>3. Form(w) /\ Sound(w, TRUE)
  BY <1>0, <1>1, CancelledSound
<1>4. w.task["run"].pc = "off"
  BY <1>0, <1>1, CancelledMoves
<1> HIDE DEF w
<1>5. Form(Shutting(w, "term", "stop")) /\ Sound(Shutting(w, "term", "stop"), TRUE)
  BY <1>3, <1>4, TermShuts
<1>6. r.task["run"].pc = "off" =>
        Form(Shutting(r, "term", "stop")) /\ Sound(Shutting(r, "term", "stop"), TRUE)
  BY <1>0, <1>1, TermShuts
<1> QED
  BY <1>1, <1>2, <1>5, <1>6 DEF Safe

\* The adapter that TerminateEnds hands on: nothing runs, and nothing is about to.
Ended(r) ==
  /\ Form(r) /\ Roles(r) /\ LockOK(r) /\ OrderOK(r) /\ r.task["term"].pc = "off"
  /\ \A j \in Procs : ~Alive(r.proc[j])

LEMMA NativeSound ==
  ASSUME NEW r, Ended(r)
  PROVE  LET q == Cancelled(Cancelled(r, "run"), "old") IN Form(q) /\ Sound(q, FALSE)
<1> DEFINE w == Cancelled(r, "run")
<1>0. "mon" \in Tasks /\ "old" \in Tasks /\ "term" \in Tasks /\ Form(r)
  BY DEF Tasks, Loops, Ended
<1>1. /\ Moved(r, w, {"mon", "run"}, {"mon", "run"})
      /\ w.task["run"].pc \in {"off", "cleanup"}
      /\ r.task["run"].pc \notin {"off", "cleanup"} => w.task["mon"].pc = "off"
      /\ r.task["run"].pc \in {"off", "cleanup"} => w.task["mon"].pc = r.task["mon"].pc
  BY <1>0, CancelledMoves
<1> HIDE DEF w
<1>2. w.task["mon"].pc = "off"
  BY <1>1 DEF Ended, OrderOK
<1>3. w.task["old"].pc = "off" /\ w.task["term"].pc = "off"
  BY <1>0, <1>1 DEF Ended, Roles, Moved, Kept
<1>4. Cancelled(w, "old") = w
  BY <1>3 DEF Cancelled
<1>5. Roles(w)
  BY <1>1, <1>2, <1>3 DEF Ended, Moved, Kept, Roles, Tasks, Loops, Pcs
<1>6. LockOK(w)
  BY <1>1, <1>2, <1>3 DEF Ended, Moved, Kept, HeadKept, LockOK, Working, Roles, Tasks, Loops
<1>7. \A j \in Procs : ~Alive(w.proc[j])
  BY <1>1 DEF Ended, Moved
<1>8. \A t \in Tasks : w.task[t].pc # "start"
  BY <1>1, <1>2, <1>3, <1>5 DEF Roles, Tasks, Loops
<1>9. OrderOK(w) /\ OffOK(w) /\ ChildOK(w)
  BY <1>1, <1>2, <1>3, <1>7, <1>8 DEF OrderOK, OffOK, ChildOK
<1> QED
  BY <1>1, <1>4, <1>5, <1>6, <1>9 DEF Sound, Moved, w

\* The loop that the swap supersedes has ended, so that only the new one connects.
LEMMA SwappedSound ==
  ASSUME NEW a, NEW r, Ended(r), r.task["run"].pc = "off"
  PROVE  Form(Swapped(a, r)) /\ Sound(Swapped(a, r), TRUE)
<1> DEFINE e == Endpoint(a, r)
           n == [proc |-> 0, port |-> 0]
           l == [i \in DOMAIN r.lock |-> IF r.lock[i] = "run" THEN "old" ELSE r.lock[i]]
           x == [r EXCEPT
             !.lease = e, !.url = e, !.bound = n,
             !.stopped = FALSE, !.reconnect = FALSE, !.force = TRUE, !.tracked = TRUE]
           s == [x EXCEPT !.task["old"] = r.task["run"], !.task["run"] = Idle, !.lock = l]
           u == IF r.task["reload"].pc = "off" THEN Waits(s, "reload", "none") ELSE s
           q == Waits(u, "run", "connect")
<1>0. "run" \in Tasks /\ "old" \in Tasks /\ "reload" \in Tasks /\ "mon" \in Tasks /\ "term" \in Tasks
  BY DEF Tasks, Loops
<1>1. Swapped(a, r) = q
  BY DEF Swapped
<1>2. /\ l \in Seq(Tasks)
      /\ r.lock # <<>> /\ Head(r.lock) # "run" => l # <<>> /\ Head(l) = Head(r.lock)
  <2>1. r.lock \in Seq(Tasks)
    BY DEF Ended, Form
  <2>2. DOMAIN r.lock = 1 .. Len(r.lock) /\ Len(r.lock) \in Nat
    BY <2>1
  <2>3. \A i \in 1 .. Len(r.lock) : (IF r.lock[i] = "run" THEN "old" ELSE r.lock[i]) \in Tasks
    BY <1>0, <2>1
  <2>4. l \in Seq(Tasks) /\ Len(l) = Len(r.lock)
    BY <2>2, <2>3
  <2>5. ASSUME r.lock # <<>>, Head(r.lock) # "run" PROVE l # <<>> /\ Head(l) = Head(r.lock)
    <3>1. Len(r.lock) >= 1 /\ Head(r.lock) = r.lock[1] /\ 1 \in 1 .. Len(r.lock)
      BY <2>1, <2>5
    <3>2. l[1] = r.lock[1]
      BY <2>2, <2>5, <3>1
    <3> HIDE DEF l
    <3>3. l # <<>> /\ Head(l) = l[1]
      BY <2>4, <3>1
    <3> QED
      BY <3>1, <3>2, <3>3
  <2> QED
    BY <2>4, <2>5
<1> HIDE DEF e, n, l
<1>3. Moved(r, s, {"run", "old"}, {"run"}) /\ s.task["old"].pc = "off"
  <2>1. Form(x) /\ x.task = r.task /\ x.proc = r.proc /\ x.lock = r.lock
    BY DEF Ended, Form
  <2> HIDE DEF x
  <2>f. DOMAIN s = DOMAIN x /\ s.lock = l /\ s.proc = x.proc
    BY <2>1 DEF Form
  <2>g. /\ DOMAIN s.task = Tasks
        /\ \A t \in Tasks : {"pc", "job", "k"} \subseteq DOMAIN s.task[t]
    <3>1. DOMAIN r.task = Tasks /\ \A t \in Tasks : {"pc", "job", "k"} \subseteq DOMAIN r.task[t]
      BY DEF Ended, Form
    <3>2. s.task = [x.task EXCEPT !["old"] = r.task["run"], !["run"] = Idle]
      BY <2>1 DEF Form
    <3>3. {"pc", "job", "k"} \subseteq DOMAIN Idle
      BY DEF Idle
    <3> HIDE DEF s
    <3> QED
      BY <1>0, <2>1, <3>1, <3>2, <3>3
  <2>2. Form(s) /\ s.lock = l /\ s.proc = r.proc
    <3> HIDE DEF s
    <3> QED
      BY <1>2, <2>1, <2>f, <2>g DEF Form
  <2>3. s.task["old"].pc = "off" /\ \A t \in Tasks \ {"run", "old"} : s.task[t] = r.task[t]
    BY <1>0, <2>1 DEF Form
  <2>4. HeadKept(r, s, {"run"})
    BY <1>2, <2>2 DEF HeadKept
  <2> HIDE DEF s
  <2>5. s.task["mon"].job = r.task["mon"].job
    BY <1>0, <2>3
  <2> QED
    BY <2>2, <2>3, <2>4, <2>5 DEF Moved, Kept
<1> HIDE DEF s
<1>f. Form(s)
  BY <1>3 DEF Moved
<1>4. /\ Moved(r, u, {"run", "old", "reload"}, {"run"}) /\ u.task["old"].pc = "off"
      /\ u.task["reload"].pc \in {"lock", r.task["reload"].pc} /\ u.task["reload"].pc # "off"
  <2>1. CASE r.task["reload"].pc = "off"
    <3>1. Moved(s, u, {"reload"}, {}) /\ u.task["reload"].pc = "lock"
      BY <1>0, <1>f, <2>1, WaitsMoves
    <3> HIDE DEF u
    <3>2. Moved(r, u, {"run", "old"} \cup {"reload"}, {"run"} \cup {})
      BY <1>3, <3>1, MovedTwice
    <3>3. Moved(r, u, {"run", "old", "reload"}, {"run"})
      BY <3>2, MovedMore
    <3>4. u.task["old"].pc = "off"
      BY <1>0, <1>3, <3>1 DEF Moved, Kept
    <3> QED
      BY <3>1, <3>3, <3>4
  <2>2. CASE r.task["reload"].pc # "off"
    <3>1. u = s
      BY <2>2
    <3>2. Moved(r, s, {"run", "old", "reload"}, {"run"})
      BY <1>3, MovedMore
    <3>3. s.task["reload"].pc = r.task["reload"].pc
      BY <1>0, <1>3 DEF Moved, Kept, Ended, Roles
    <3> QED
      BY <1>3, <2>2, <3>1, <3>2, <3>3
  <2> QED
    BY <2>1, <2>2
<1> HIDE DEF u
<1>g. Form(u)
  BY <1>4 DEF Moved
<1>5. Moved(u, q, {"run"}, {}) /\ q.task["run"].pc = "lock"
  BY <1>0, <1>g, WaitsMoves
<1> HIDE DEF q
<1>6. Moved(r, q, {"run", "old", "reload"} \cup {"run"}, {"run"} \cup {})
  BY <1>4, <1>5, MovedTwice
<1>7. Moved(r, q, {"run", "old", "reload"}, {"run"})
  BY <1>6, MovedMore
<1>8. /\ q.task["old"].pc = "off" /\ q.task["reload"].pc \in {"lock", r.task["reload"].pc}
      /\ Kept(r, q, "mon") /\ Kept(r, q, "term")
  <2>1. Kept(u, q, "old") /\ Kept(u, q, "reload")
    BY <1>0, <1>5 DEF Moved
  <2>2. Kept(r, q, "mon") /\ Kept(r, q, "term")
    BY <1>0, <1>7 DEF Moved
  <2>3. u.task["reload"].pc # "events"
    BY <1>4 DEF Ended, Roles
  <2> QED
    BY <1>4, <2>1, <2>2, <2>3 DEF Kept
<1>9. q.task["mon"].pc = "off" /\ q.task["term"].pc = "off"
  BY <1>8 DEF Kept, Ended, OrderOK
<1>10. Roles(q)
  <2>1. q.task["reload"].pc \in {"off", "lock", "stop"} /\ q.task["mon"].job # "connect"
    BY <1>8 DEF Ended, Roles, Kept
  <2> QED
    BY <1>5, <1>8, <1>9, <2>1 DEF Roles, Pcs
<1>11. LockOK(q)
  BY <1>5, <1>7, <1>8, <1>9 DEF Ended, LockOK, Working, Moved, HeadKept, Roles, Tasks, Loops
<1>12. \A j \in Procs : ~Alive(q.proc[j])
  BY <1>7 DEF Moved, Ended
<1>13. \A t \in Tasks : q.task[t].pc # "start"
  BY <1>5, <1>9, <1>10 DEF Roles, Tasks, Loops
<1>14. ChildOK(q) /\ OrderOK(q)
  BY <1>5, <1>9, <1>12, <1>13 DEF ChildOK, OrderOK
<1> QED
  BY <1>1, <1>7, <1>10, <1>11, <1>14 DEF Sound, Moved

\* The step that TerminateEnds takes: the account's adapter is sound for what on becomes.
LEMMA TerminateEndsSafe ==
  ASSUME ChildInv, NEW a \in Accounts, TerminateEnds(a)
  PROVE  \E q : /\ Form(q) /\ Sound(q, a \in on') /\ Becomes(a, q)
                /\ \A b \in Accounts \ {a} : (b \in on') = (b \in on)
<1> DEFINE c == acc[a]
           w == Shut(c, "term")
           v == [w EXCEPT !.lease = 0]
           r == Done(v, "term")
<1>0. "term" \in Tasks /\ Form(c) /\ Sound(c, a \in on) /\ c.task["term"].pc = "stop" /\ ChildStopped(a, "term")
  BY DEF Tasks, ChildInv, TerminateEnds, Pc
<1>1. a \in on
  BY <1>0 DEF Sound, OffOK
<1>2. \/ /\ on' = on \ {a} /\ Becomes(a, Cancelled(Cancelled(r, "run"), "old"))
      \/ /\ c.task["term"].job = "hot" /\ on' = on /\ Becomes(a, Swapped(a, r))
  BY DEF TerminateEnds, Job
<1>3. \A j \in Procs : ~Alive(c.proc[j])
  BY <1>0, NothingRuns DEF Sound, StopPcs, Pc
<1>4. Moved(c, w, {}, {})
  BY <1>0, ShutMoves
<1> HIDE DEF w
<1>5. Moved(c, v, {}, {})
  BY <1>4 DEF Moved, Kept, HeadKept, Form
<1> HIDE DEF v
<1>f. Form(v)
  BY <1>5 DEF Moved
<1>6. Moved(v, r, {"term"}, {}) /\ r.task["term"].pc = "off"
  BY <1>0, <1>f, DoneMoves
<1> HIDE DEF r
<1>7. Moved(c, r, {} \cup {"term"}, {} \cup {})
  BY <1>5, <1>6, MovedTwice
<1>8. Moved(c, r, {"term"}, {})
  BY <1>7
<1>9. Roles(r)
  BY <1>0, <1>6, <1>8 DEF Sound, Moved, Kept, Roles, Tasks, Loops, Pcs
<1>10. LockOK(r)
  BY <1>0, <1>6, <1>8 DEF Sound, Moved, Kept, HeadKept, LockOK, Working
<1>11. OrderOK(r)
  BY <1>0, <1>6, <1>8 DEF Sound, Moved, Kept, OrderOK, Tasks, Loops
<1>12. Ended(r)
  BY <1>3, <1>6, <1>8, <1>9, <1>10, <1>11 DEF Ended, Moved
<1>13. CASE on' = on \ {a} /\ Becomes(a, Cancelled(Cancelled(r, "run"), "old"))
  <2> DEFINE q == Cancelled(Cancelled(r, "run"), "old")
  <2>1. Form(q) /\ Sound(q, FALSE)
    BY <1>12, NativeSound
  <2>2. Becomes(a, q)
    BY <1>13
  <2> HIDE DEF q
  <2>3. (a \in on') = FALSE /\ \A b \in Accounts \ {a} : (b \in on') = (b \in on)
    BY <1>13
  <2>4. Sound(q, a \in on')
    BY <2>1, <2>3 DEF Sound
  <2> QED
    BY <2>1, <2>2, <2>3, <2>4
<1>14. CASE c.task["term"].job = "hot" /\ on' = on /\ Becomes(a, Swapped(a, r))
  <2> DEFINE q == Swapped(a, r)
  <2>1. r.task["run"].pc = "off"
    BY <1>0, <1>8, <1>14 DEF Sound, OrderOK, Moved, Kept, Tasks, Loops
  <2>2. Form(q) /\ Sound(q, TRUE)
    BY <1>12, <2>1, SwappedSound
  <2>3. Becomes(a, q)
    BY <1>14
  <2> HIDE DEF q
  <2>4. Sound(q, a \in on')
    BY <1>1, <1>14, <2>2 DEF Sound
  <2> QED
    BY <1>14, <2>2, <2>3, <2>4
<1> QED
  BY <1>2, <1>13, <1>14

-----------------------------------------------------------------------------
(* New adapters.                                                           *)

LEMMA NewSound ==
  ASSUME NEW p, NEW tracked, NEW proc, DOMAIN proc = Procs,
         \A j \in Procs : "child" \in DOMAIN proc[j] /\ ~Alive(proc[j])
  PROVE  LET q == [NewAdapter(p, tracked) EXCEPT !.proc = proc] IN Form(q) /\ Sound(q, TRUE)
<1> DEFINE n == NewAdapter(p, tracked)
           q == [n EXCEPT !.proc = proc]
<1>1. /\ {"gp", "proc", "task", "lock", "lease", "tracked"} \subseteq DOMAIN n
      /\ n.task = [t \in Tasks |-> IF t = "run" THEN Starting ELSE Idle] /\ n.lock = <<"run">>
  BY DEF NewAdapter
<1> HIDE DEF n
<1>2. /\ {"gp", "proc", "task", "lock", "lease", "tracked"} \subseteq DOMAIN q
      /\ q.task = n.task /\ q.lock = n.lock /\ q.proc = proc
  BY <1>1
<1> HIDE DEF q
<1>3. "run" \in Tasks /\ <<"run">> \in Seq(Tasks)
  BY DEF Tasks, Loops
<1>4. /\ DOMAIN q.task = Tasks
      /\ \A t \in Tasks : /\ {"pc", "job", "k"} \subseteq DOMAIN q.task[t]
                          /\ q.task[t].pc = (IF t = "run" THEN "lock" ELSE "off")
                          /\ q.task[t].job = (IF t = "run" THEN "connect" ELSE "none")
  BY <1>1, <1>2 DEF Starting, Idle
<1>5. Form(q)
  BY <1>1, <1>2, <1>3, <1>4 DEF Form
<1>6. Roles(q) /\ OrderOK(q)
  BY <1>4 DEF Roles, OrderOK, Tasks, Loops, Pcs
<1>7. LockOK(q) /\ ChildOK(q)
  BY <1>2, <1>4 DEF LockOK, ChildOK, Working
<1>8. Sound(q, TRUE)
  BY <1>6, <1>7 DEF Sound
<1> QED
  BY <1>5, <1>8 DEF q, n

LEMMA EnableSafe ==
  ASSUME ChildInv, NEW a \in Accounts, Enable(a)
  PROVE  \E q : /\ Form(q) /\ Sound(q, a \in on') /\ Becomes(a, q)
                /\ \A b \in Accounts \ {a} : (b \in on') = (b \in on)
<1>1. PICK p : Becomes(a, [NewAdapter(p, FALSE) EXCEPT !.proc = acc[a].proc])
  BY DEF Enable
<1>2. a \notin on /\ on' = on \cup {a}
  BY DEF Enable
<1>3. /\ DOMAIN acc[a].proc = Procs
      /\ \A j \in Procs : "child" \in DOMAIN acc[a].proc[j] /\ ~Alive(acc[a].proc[j])
  BY <1>2 DEF ChildInv, Form, Sound, OffOK
<1> DEFINE q == [NewAdapter(p, FALSE) EXCEPT !.proc = acc[a].proc]
<1>4. Form(q) /\ Sound(q, TRUE)
  BY <1>3, NewSound
<1> HIDE DEF q
<1>5. (a \in on') = TRUE /\ \A b \in Accounts \ {a} : (b \in on') = (b \in on)
  BY <1>2
<1>6. Sound(q, a \in on')
  BY <1>4, <1>5 DEF Sound
<1> QED
  BY <1>1, <1>4, <1>5, <1>6 DEF q

-----------------------------------------------------------------------------
(* The steps of the system.                                                *)

\* Processes that nothing refers to are forgotten; none of them runs.
LEMMA ChildTurn ==
  ASSUME ChildInv, NEW a \in Accounts, NEW r, Form(r), Sound(r, a \in on'), Becomes(a, r),
         \A b \in Accounts \ {a} : (b \in on') = (b \in on)
  PROVE  ChildInv'
<1> DEFINE q == [r EXCEPT !.proc = [k \in Procs |-> IF Unused(r, k) THEN NoProc ELSE @[k]]]
<1>1. acc' = [acc EXCEPT ![a] = q]
  BY DEF Becomes
<1>2. Moved(r, q, {}, {}) /\ q.gp = r.gp
  <2> DEFINE f == [k \in Procs |-> IF Unused(r, k) THEN NoProc ELSE r.proc[k]]
  <2>1. q = [r EXCEPT !.proc = f]
    OBVIOUS
  <2>2. /\ DOMAIN f = Procs
        /\ \A j \in Procs : "child" \in DOMAIN f[j] /\ (Alive(f[j]) => Alive(r.proc[j]))
    BY DEF Form, NoProc, Alive
  <2> HIDE DEF f, q
  <2> QED
    BY <2>1, <2>2 DEF Moved, Kept, HeadKept, Form
<1> HIDE DEF q
<1>3. Form(q) /\ Sound(q, a \in on')
  BY <1>2, Stays DEF Moved
<1>4. DOMAIN acc' = Accounts /\ acc'[a] = q /\ \A b \in Accounts \ {a} : acc'[b] = acc[b]
  BY <1>1 DEF ChildInv
<1>5. ASSUME NEW b \in Accounts PROVE Form(acc'[b]) /\ Sound(acc'[b], b \in on')
  <2>1. CASE b = a
    BY <1>3, <1>4, <2>1
  <2>2. CASE b # a
    <3>1. Form(acc[b]) /\ Sound(acc[b], b \in on)
      BY DEF ChildInv
    <3>2. Form(acc[b]) /\ Sound(acc[b], b \in on')
      BY <2>2, <3>1 DEF Sound
    <3> QED
      BY <1>4, <2>2, <3>2
  <2> QED
    BY <2>1, <2>2
<1> QED
  BY <1>4, <1>5 DEF ChildInv

LEMMA ChildInit == Init => ChildInv
<1> SUFFICES ASSUME Init PROVE ChildInv
  OBVIOUS
<1>1. PICK port, tracked : acc = [a \in Accounts |-> NewAdapter(port[a], tracked)]
  BY DEF Init
<1>2. ASSUME NEW a \in Accounts PROVE Form(acc[a]) /\ Sound(acc[a], a \in on)
  <2> DEFINE n == NewAdapter(port[a], tracked)
             f == [k \in Procs |-> NoProc]
             q == [n EXCEPT !.proc = f]
  <2>1. q = n
    BY DEF NewAdapter
  <2>2. DOMAIN f = Procs /\ \A j \in Procs : "child" \in DOMAIN f[j] /\ ~Alive(f[j])
    BY DEF NoProc, Alive
  <2> HIDE DEF f
  <2>3. Form(q) /\ Sound(q, TRUE)
    BY <2>2, NewSound
  <2> HIDE DEF q, n
  <2>4. acc[a] = n /\ a \in on
    BY <1>1 DEF Init, n
  <2>5. Form(n) /\ Sound(n, TRUE)
    BY <2>1, <2>3
  <2> QED
    BY <2>4, <2>5 DEF Sound
<1> QED
  BY <1>1, <1>2 DEF ChildInv

LEMMA ChildStep == ~TakeOver /\ ChildInv /\ [Next]_vars => ChildInv'
<1> SUFFICES ASSUME ~TakeOver, ChildInv, [Next]_vars PROVE ChildInv'
  OBVIOUS
<1>a. ASSUME NEW a \in Accounts, \E q : Safe(a, q) /\ Turn(a, q) PROVE ChildInv'
  <2>1. PICK q : Safe(a, q) /\ Turn(a, q)
    BY <1>a
  <2>2. on' = on
    BY <2>1 DEF Turn
  <2>3. Form(q) /\ Sound(q, a \in on') /\ Becomes(a, q)
    BY <2>1, <2>2 DEF Safe, Turn
  <2>4. \A b \in Accounts \ {a} : (b \in on') = (b \in on)
    BY <2>2
  <2> QED
    BY <2>3, <2>4, ChildTurn
<1>1. ASSUME NEW a \in Accounts, NEW t \in Tasks, Task(a, t) PROVE ChildInv'
  <2>1. CASE Loop(a, t) /\ t \in Loops \cup {"mon"}
    BY <1>a, <2>1, LoopSafe
  <2>2. CASE StopChild(a, t)
    BY <1>a, <2>2, LoopSafe DEF Loop
  <2>3. CASE Monitor(a)
    BY <1>a, <2>3, MonitorSafe
  <2>4. CASE ReloadShuts(a) \/ ReloadEnds(a)
    BY <1>a, <2>4, ReloadSafe
  <2>5. CASE RunAwaited(a)
    BY <1>a, <2>5, RunAwaitedSafe
  <2>6. CASE TerminateEnds(a)
    <3>1. PICK q : /\ Form(q) /\ Sound(q, a \in on') /\ Becomes(a, q)
                   /\ \A b \in Accounts \ {a} : (b \in on') = (b \in on)
      BY <2>6, TerminateEndsSafe
    <3> QED
      BY <3>1, ChildTurn
  <2> QED
    BY <1>1, <2>1, <2>2, <2>3, <2>4, <2>5, <2>6 DEF Task
<1>2. ASSUME NEW a \in Accounts, NEW k \in Procs, Boot(a, k) \/ ChildCrashes(a, k) PROVE ChildInv'
  <2>1. Safe(a, acc[a])
    BY DEF ChildInv, Safe
  <2>2. Safe(a, Exited(acc[a], k)) /\ (Alive(acc[a].proc[k]) => Safe(a, [acc[a] EXCEPT !.proc[k].child = "up"]))
    BY <2>1, ExitedSafe
  <2>3. Boot(a, k) => Alive(acc[a].proc[k])
    BY DEF Boot, Alive
  <2>4. \E q : Safe(a, q) /\ Turn(a, q)
    BY <1>2, <2>2, <2>3 DEF Boot, ChildCrashes, Step, Fails, Turn
  <2> QED
    BY <1>a, <2>4
<1>3. ASSUME NEW a \in Accounts, Reload(a) PROVE ChildInv'
  BY <1>a, <1>3, ReloadSafe
<1>4. ASSUME NEW a \in Accounts, \E how : Terminate(a, how) PROVE ChildInv'
  BY <1>a, <1>4, TerminateSafe
<1>5. ASSUME NEW a \in Accounts, Enable(a) PROVE ChildInv'
  <2>1. PICK q : /\ Form(q) /\ Sound(q, a \in on') /\ Becomes(a, q)
                 /\ \A b \in Accounts \ {a} : (b \in on') = (b \in on)
    BY <1>5, EnableSafe
  <2> QED
    BY <2>1, ChildTurn
<1>6. CASE acc' = acc /\ on' = on
  BY <1>6 DEF ChildInv
<1>7. CASE UNCHANGED vars \/ \E p \in Ports : Foreign(p)
  BY <1>6, <1>7 DEF vars, Foreign
<1> QED
  BY <1>1, <1>2, <1>3, <1>4, <1>5, <1>7 DEF Next

LEMMA ChildInvHolds ==
  ASSUME ~TakeOver
  PROVE  Spec => []ChildInv
<1>1. Init => ChildInv
  BY ChildInit
<1>2. ChildInv /\ [Next]_vars => ChildInv'
  BY ChildStep
<1> QED
  BY <1>1, <1>2, PTL DEF Spec

\* Never two Gateways on the credentials of one account, for any number of restarts by the
\* run loop and the monitor, of reloads, crashes and terminations: run, reload, terminate
\* and _ensure_gateway_running of whatsapp_adapter.py stop the process they replace, and
\* whoever starts one holds the lifecycle lock.  A hot reload that takes a loop of AstrBot
\* over is left out (TakeOver).
THEOREM OneChildEver ==
  ASSUME ~TakeOver
  PROVE  Spec => []OneChild
<1>1. ChildInv => OneChild
  <2> SUFFICES ASSUME ChildInv, NEW a \in Accounts
               PROVE  Cardinality({k \in Procs : Alive(acc[a].proc[k])}) <= 1
    BY DEF OneChild
  <2> DEFINE S == {k \in Procs : Alive(acc[a].proc[k])}
  <2>1. S \subseteq {acc[a].gp}
    BY DEF ChildInv, Sound, ChildOK
  <2> HIDE DEF S
  <2>2. S = {} \/ S = {acc[a].gp}
    BY <2>1
  <2>3. Cardinality(S) \in {0, 1}
    BY <2>2, FS_EmptySet, FS_Singleton
  <2> QED
    BY <2>3 DEF S
<1> QED
  BY <1>1, ChildInvHolds, PTL

\* When the tasks of a stopped account have ended, no Gateway runs and no monitor is left to
\* start one: terminate and the finally blocks of run in whatsapp_adapter.py shut the
\* transport down before they return, or leave that to a cleanup that does.
THEOREM NothingLeftEver ==
  ASSUME ~TakeOver
  PROVE  Spec => []NothingLeft
<1>1. ChildInv => NothingLeft
  BY DEF ChildInv, Sound, OffOK, OrderOK, NothingLeft, Pc, Tasks, Loops
<1> QED
  BY <1>1, ChildInvHolds, PTL
=============================================================================
