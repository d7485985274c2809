--------------------------- MODULE AccountRuntime ---------------------------
(***************************************************************************)
(* The adapter of one WhatsApp account and its Gateway child process:      *)
(* run, reload, terminate and the health monitor (whatsapp_adapter.py),    *)
(* GatewayProcess and the client (whatsapp_client.py), the port leases     *)
(* that all accounts share (whatsapp_multi_instance.py) and the in-place   *)
(* class swap of a plugin hot reload (main.py).                            *)
(*                                                                         *)
(* Every account is in bundled mode (auto_start_gateway).  An action is    *)
(* the code a task runs between two awaits; a cancelled task runs its      *)
(* exception handlers before whoever cancelled it goes on.                 *)
(***************************************************************************)
EXTENDS Naturals, FiniteSets, Sequences

CONSTANTS
  Primary,      \* the id "whatsapp" as a singleton, or {}
  Secondaries,  \* the other account ids
  TakeOver,     \* may a hot reload take over a run loop that AstrBot started?
  Base,         \* gateway_port
  MaxPort,      \* bound on the ports, never exhausted (the code raises at 65535)
  MaxProcs,     \* bound on the GatewayProcess objects an account refers to at once
  MaxEvents,    \* reloads, hot reloads, disables, enables and foreign programs
  MaxFaults     \* failed requests and starts, timeouts and crashed children

Accounts == Primary \cup Secondaries
Ports    == Base .. MaxPort
Procs    == 1 .. MaxProcs
Loops    == {"run", "old"}                       \* "old": superseded by a hot reload
Tasks    == Loops \cup {"mon", "reload", "term"}

ASSUME RuntimeAssumption ==
  /\ Primary \cap Secondaries = {} /\ Cardinality(Primary) <= 1
  /\ Base \in Nat \ {0} /\ MaxPort \in Nat /\ MaxProcs \in Nat
  /\ TakeOver \in BOOLEAN /\ MaxEvents \in Nat /\ MaxFaults \in Nat

VARIABLES
  on,       \* accounts AstrBot has an adapter for
  acc,      \* the adapter of each account, see Adapters
  leaked,   \* ports leased by adapter objects that no longer exist
  foreign,  \* ports other programs listen on
  events, faults   \* history: counters
vars == <<on, acc, leaked, foreign, events, faults>>

Pcs  == {"off", "lock", "health", "stop", "start", "wait", "events", "broken", "sleep",
         "stopping", "cleanup", "watch", "await"}
Jobs == {"none", "connect", "ensure", "forced", "native", "hot"}
Adapters == [
  lease : Ports \cup {0},      \* _gateway_runtime_endpoint, 0 when None
  url   : Ports,               \* client.base_url
  bound : [proc : Procs \cup {0}, port : Ports \cup {0}],
                               \* the process and endpoint of the client's own token
  gp    : Procs \cup {0},      \* gateway_process, 0 when None
  proc  : [Procs -> [port : Ports \cup {0}, child : {"none", "boot", "up", "gone"}]],
  task  : [Tasks -> [pc : Pcs, job : Jobs, k : Procs \cup {0}]],
                               \* the await a task is at, for what, stopping which process
  lock  : UNION {[1 .. n -> Tasks] : n \in 0 .. 5},          \* lifecycle lock: its holder, then the waiting tasks
  stopped : BOOLEAN, reconnect : BOOLEAN, force : BOOLEAN,
  tracked : BOOLEAN ]          \* does the adapter have a _run_task?

Idle      == [pc |-> "off", job |-> "none", k |-> 0]
Starting  == [pc |-> "lock", job |-> "connect", k |-> 0]
NoProc    == [port |-> 0, child |-> "none"]
Pc(a, t)  == acc[a].task[t].pc
Job(a, t) == acc[a].task[t].job
Holds(a, t) == acc[a].lock # <<>> /\ Head(acc[a].lock) = t
Child(r)    == IF r.gp = 0 THEN "none" ELSE r.proc[r.gp].child
Alive(c)    == c.child \in {"boot", "up"}

Serving(p)   == {b \in Accounts : \E k \in Procs : acc[b].proc[k] = [port |-> p, child |-> "up"]}
Listening(p) == p \in foreign \/ Serving(p) # {}

LeasedByOthers(a) == {acc[b].lease : b \in Accounts \ {a}} \cup leaked
\* Mutant: the search of a secondary starts at the base port itself.
CandidatesFromBase(a) == {p \in Ports \ LeasedByOthers(a) : a \in Primary \/ ~Listening(p)}
\* GatewayPortLeaseRegistry.acquire: the lowest port that is not leased and, for a
\* secondary, above the base port and free to bind.
Candidates(a) == {p \in Ports \ LeasedByOthers(a) : a \in Primary \/ (p > Base /\ ~Listening(p))}
Acquire(a)    == IF Candidates(a) = {} THEN 0 ELSE CHOOSE p \in Candidates(a) : \A q \in Candidates(a) : p <= q
\* _base_url: the pinned endpoint, or a new lease.
Endpoint(a, r) == IF r.lease # 0 THEN r.lease ELSE Acquire(a)

\* Does a Gateway accept the client's token?  It presents the token it is bound to at
\* that endpoint, and else the one of whichever managed child serves the endpoint.
Reaches(a, b) == /\ b \in Serving(acc[a].url)
                 /\ acc[a].bound.port = acc[a].url =>
                      b = a /\ acc[a].proc[acc[a].bound.proc] = [port |-> acc[a].url, child |-> "up"]
Accepted(a) == \E b \in Accounts : Reaches(a, b)
-----------------------------------------------------------------------------
(* What the synchronous pieces of the handlers make of an adapter r.       *)

\* The stream of client.events() ends with an exception.
Closed(r) == [r EXCEPT !.task = [t \in Tasks |->
                IF @[t].pc = "events" THEN [@[t] EXCEPT !.pc = "broken"] ELSE @[t]]]
Exited(r, k) == Closed([r EXCEPT !.proc[k].child = "gone"])
\* Whoever gives the lock up, or stops waiting for it, is in it at most once.
Without(q, t) ==
  IF \A i \in DOMAIN q : q[i] # t THEN q
  ELSE LET at == CHOOSE i \in DOMAIN q : q[i] = t
       IN [i \in 1 .. Len(q) - 1 |-> IF i < at THEN q[i] ELSE q[i + 1]]
Left(r, t)   == [r EXCEPT !.lock = Without(@, t)]
Goes(r, t, pc)  == [r EXCEPT !.task[t].pc = pc]
Waits(r, t, job) == [r EXCEPT !.task[t] = [pc |-> "lock", job |-> job, k |-> 0],
                              !.lock = Append(@, t)]
Unmonitored(r) == [Left(r, "mon") EXCEPT !.task["mon"] = Idle]
\* Mutant: the transport is closed, and the process left to the run loop.
Closing(r, t, pc) == [Closed(Unmonitored(r)) EXCEPT !.task[t].pc = pc, !.task[t].k = 0]
\* _shutdown_gateway_transport, up to the stop of the process.
Shutting(r, t, pc) == [Closed(Unmonitored(r)) EXCEPT !.task[t].pc = pc, !.task[t].k = r.gp]
\* ... and after it.
Shut(r, t) == [r EXCEPT !.gp = IF r.task[t].k # 0 THEN 0 ELSE @]
\* Mutant: a cancelled task keeps the lifecycle lock.
CleanupLocked(r, t) == Shutting(r, t, "cleanup")
Cleanup(r, t) == Shutting(Left(r, t), t, "cleanup")
Done(r, t)    == [r EXCEPT !.task[t] = Idle]
\* CancelledError in a run loop; a second one cuts the cleanup short.
Cancelled(r, t) == IF r.task[t].pc = "off" THEN r
                   ELSE IF r.task[t].pc = "cleanup" THEN [Done(r, t) EXCEPT !.lease = 0]
                   ELSE Cleanup(r, t)
\* The head of the outer loop, and its except Exception.
Looped(r, t)  == IF r.stopped THEN Cleanup(r, t) ELSE Waits(r, t, "connect")
Raised(r, t)  == IF r.stopped \/ r.reconnect THEN Cleanup(r, t)
                 ELSE Waits(r, t, "ensure")

\* Mutant: the answer of the port probe is inverted.
BindRaceInverted(a) == /\ a \notin Primary /\ acc[a].lease # 0
                       /\ Child(acc[a]) = "gone" /\ ~Listening(acc[a].lease)
\* reallocate_after_bind_conflict, via _recover_bind_race.
BindRace(a) == /\ a \notin Primary /\ acc[a].lease # 0
               /\ Child(acc[a]) = "gone" /\ Listening(acc[a].lease)
\* Mutant: the lease is released and none is taken in its place.
RecoveredUnleased(a) == IF BindRace(a) THEN [acc[a] EXCEPT !.lease = 0, !.url = 0, !.gp = 0]
                        ELSE acc[a]
Recovered(a) == IF BindRace(a)
                THEN [acc[a] EXCEPT !.lease = Acquire(a), !.url = Acquire(a), !.gp = 0]
                ELSE acc[a]
\* An exception while the lock is held.
Failed(a, t) ==
  LET r == Left(Recovered(a), t)
  IN IF t = "mon" THEN Goes(r, t, "watch")
     ELSE IF Job(a, t) = "connect" THEN Raised(r, t) ELSE Goes(r, t, "sleep")
\* _ensure_gateway_running returns.
Ensured(r, t) == Goes(Left(r, t), t, IF t = "mon" THEN "watch" ELSE "sleep")

\* A GatewayProcess object that nothing refers to.
Unused(r, k) == /\ ~Alive(r.proc[k]) /\ k \notin {r.gp, r.bound.proc}
                /\ \A t \in Tasks : r.task[t].k # k
Fresh(r) == CHOOSE k \in Procs : Unused(r, k) /\ \A j \in Procs : Unused(r, j) => k <= j
\* _create_gateway_process
Created(a, r, t) ==
  LET k == Fresh(r) IN
  [r EXCEPT !.lease = Endpoint(a, r), !.proc[k] = [port |-> Endpoint(a, r), child |-> "none"],
            !.gp = k, !.bound = [proc |-> k, port |-> r.url],
            !.task[t].pc = "start", !.task[t].k = k]
\* Mutant: the old process is replaced without being stopped.
RestartingAtOnce(a, r, t) == Created(a, r, t)
\* The old process, if there is one, is stopped first.
Restarting(a, r, t) == IF r.gp # 0 THEN [r EXCEPT !.task[t].pc = "stop", !.task[t].k = r.gp]
                       ELSE Created(a, r, t)
-----------------------------------------------------------------------------
NewAdapter(port, tracked) == [
  lease |-> port, url |-> port, bound |-> [proc |-> 0, port |-> 0], gp |-> 0,
  proc |-> [k \in Procs |-> NoProc],
  task |-> [t \in Tasks |-> IF t = "run" THEN Starting ELSE Idle], lock |-> <<"run">>,
  stopped |-> FALSE, reconnect |-> FALSE, force |-> FALSE, tracked |-> tracked]

Init ==
  /\ on = Accounts /\ leaked = {} /\ foreign = {}
  /\ \E port \in [Accounts -> Base .. Base + Cardinality(Secondaries)] :
       /\ \A a \in Accounts : (port[a] = Base) = (a \in Primary)
       /\ \A a, b \in Accounts : port[a] = port[b] => a = b
       /\ \E tracked \in BOOLEAN : acc = [a \in Accounts |-> NewAdapter(port[a], tracked)]
  /\ events = 0 /\ faults = 0

Event == events < MaxEvents /\ events' = events + 1
Fault == faults < MaxFaults /\ faults' = faults + 1
\* Objects that nothing refers to are forgotten.
Becomes(a, r) == acc' = [acc EXCEPT ![a] = [r EXCEPT !.proc =
                   [k \in Procs |-> IF Unused(r, k) THEN NoProc ELSE @[k]]]]
Step(a, r)  == Becomes(a, r) /\ UNCHANGED <<on, leaked, foreign, events, faults>>
Fails(a, r) == Fault /\ Becomes(a, r) /\ UNCHANGED <<on, leaked, foreign, events>>
-----------------------------------------------------------------------------
(* run: _connect_gateway, the event stream, and the way out.               *)

ChildStopped(a, t) == \A k \in Procs : k = acc[a].task[t].k => ~Alive(acc[a].proc[k])
\* A task whose stop has completed goes on before a request, a timer or the start of a
\* process (seconds, and at least the probe of the Node runtime) completes.
Calm(a) == \A t \in Tasks : Pc(a, t) \in {"stop", "stopping", "cleanup"} => ~ChildStopped(a, t)

Connect(a, t) ==
  /\ Pc(a, t) = "lock" /\ Job(a, t) = "connect" /\ Holds(a, t)
  /\ LET p == Endpoint(a, acc[a])
         r == [acc[a] EXCEPT !.reconnect = FALSE, !.force = FALSE, !.lease = p, !.url = p]
     IN Step(a, IF acc[a].force THEN Restarting(a, r, t) ELSE Goes(r, t, "health"))

\* _ensure_gateway_running, entered by the run loop after an exception and by the monitor.
Ensure(a, t) ==
  /\ Pc(a, t) = "lock" /\ Job(a, t) = "ensure" /\ Holds(a, t)
  /\ Step(a, Goes([acc[a] EXCEPT !.force = FALSE,
                      !.task[t].job = IF acc[a].force THEN "forced" ELSE "ensure"], t, "health"))

\* health answers: connect goes on to configure, ensure returns unless it must restart
\* or has no running child of its own.
Healthy(a, t) ==
  /\ Calm(a)
  /\ Pc(a, t) = "health" /\ Accepted(a)
  /\ LET r == acc[a] IN
     \/ Job(a, t) = "connect" /\ Step(a, Goes(r, t, "wait"))
     \/ Job(a, t) # "connect" /\ Step(a, Ensured(r, t))
     \/ /\ \/ Job(a, t) = "forced"
           \/ Job(a, t) = "ensure" /\ Child(r) \notin {"boot", "up"}
        /\ Step(a, Restarting(a, r, t))

\* No Gateway answers, or the request fails: restart.
Unhealthy(a, t) ==
  /\ Calm(a)
  /\ Pc(a, t) = "health"
  /\ \/ Serving(acc[a].url) = {} /\ Step(a, Restarting(a, acc[a], t))
     \/ Fails(a, Restarting(a, acc[a], t))

\* 401: the Gateway at the endpoint has another credential.
Unauthorized(a, t) ==
  /\ Calm(a)
  /\ Pc(a, t) \in {"health", "wait"}
  /\ \/ Serving(acc[a].url) # {} /\ ~Accepted(a) /\ Step(a, Failed(a, t))
     \/ acc[a].url \in foreign /\ Fails(a, Failed(a, t))

\* GatewayProcess.stop; the child exits, killed in the end.
StopChild(a, t) ==
  /\ Pc(a, t) \in {"stop", "stopping", "cleanup"}
  /\ \E k \in Procs : k = acc[a].task[t].k /\ Alive(acc[a].proc[k]) /\ Step(a, Exited(acc[a], k))

Replace(a, t) ==
  /\ t \in Loops \cup {"mon"} /\ Pc(a, t) = "stop" /\ ChildStopped(a, t)
  /\ Step(a, Created(a, acc[a], t))

\* GatewayProcess.start
Spawn(a, t) ==
  /\ Calm(a)
  /\ Pc(a, t) = "start"
  /\ \/ Step(a, [Goes(acc[a], t, "wait") EXCEPT !.proc[acc[a].task[t].k].child = "boot",
                                                !.task[t].k = 0])
     \/ Fails(a, [Failed(a, t) EXCEPT !.task[t].k = 0])

\* The child binds its port, or exits because it cannot.
Boot(a, k) ==
  /\ acc[a].proc[k].child = "boot"
  /\ Step(a, IF Listening(acc[a].proc[k].port) THEN Exited(acc[a], k)
             ELSE [acc[a] EXCEPT !.proc[k].child = "up"])

\* _wait_for_gateway and the configuration that follows; connect restarts the monitor.
Connected(a, t) ==
  /\ Calm(a)
  /\ Pc(a, t) = "wait" /\ Accepted(a)
  /\ Child(acc[a]) # "gone"
  /\ LET r == Left([Unmonitored(acc[a]) EXCEPT !.task["mon"].pc = "watch"], t)
     IN Step(a, IF Job(a, t) # "connect" THEN Ensured(acc[a], t)
                ELSE IF r.stopped \/ r.reconnect THEN Looped(r, t) ELSE Goes(r, t, "events"))

\* The child exited, sixty attempts failed, or configure did.
WaitFails(a, t) ==
  /\ Calm(a)
  /\ Pc(a, t) = "wait"
  /\ \/ Child(acc[a]) = "gone" /\ Step(a, Failed(a, t))
     \/ Child(acc[a]) \notin {"boot", "gone"} /\ Serving(acc[a].url) = {} /\ Step(a, Failed(a, t))
     \/ Fails(a, Failed(a, t))

\* The stream breaks, or is idle for five minutes.
StreamEnds(a, t) ==
  \/ /\ Pc(a, t) = "broken" \/ (Pc(a, t) = "events" /\ ~Accepted(a))
     /\ Step(a, Raised(acc[a], t))
  \/ Pc(a, t) = "events" /\ Fails(a, Raised(acc[a], t))

SleepEnds(a, t) ==
  /\ Calm(a)
  /\ Pc(a, t) = "sleep"
  /\ Step(a, IF acc[a].reconnect
             THEN Shutting([acc[a] EXCEPT !.reconnect = FALSE], t, "stopping")
             ELSE Looped(acc[a], t))

Stopped(a, t) ==
  /\ Pc(a, t) = "stopping" /\ t \in Loops /\ ChildStopped(a, t)
  /\ Step(a, Looped(Shut(acc[a], t), t))

\* The finally blocks of run.
RunEnds(a, t) ==
  /\ t \in Loops /\ Pc(a, t) = "cleanup" /\ ChildStopped(a, t)
  /\ Step(a, [Done(Shut(acc[a], t), t) EXCEPT !.lease = 0])
-----------------------------------------------------------------------------
\* _health_monitor_loop, between two sleeps.
Monitor(a) ==
  /\ Pc(a, "mon") = "watch"
  /\ \/ acc[a].stopped /\ Step(a, Done(acc[a], "mon"))
     \/ ~acc[a].stopped /\ ~Accepted(a) /\ Step(a, Waits(acc[a], "mon", "ensure"))
     \/ ~acc[a].stopped /\ Fails(a, Waits(acc[a], "mon", "ensure"))

\* reload, called for every active adapter when the plugin's configuration changes.
Reload(a) ==
  /\ Event /\ a \in on /\ Pc(a, "reload") = "off"
  /\ Becomes(a, Waits(acc[a], "reload", "none"))
  /\ UNCHANGED <<on, leaked, foreign, faults>>

ReloadShuts(a) ==
  /\ Pc(a, "reload") = "lock" /\ Holds(a, "reload")
  /\ Step(a, Shutting([acc[a] EXCEPT !.reconnect = TRUE], "reload", "stop"))

ReloadEnds(a) ==
  /\ Pc(a, "reload") = "stop" /\ ChildStopped(a, "reload")
  /\ LET k == acc[a].task["reload"].k
         r == [Shut(acc[a], "reload") EXCEPT !.lease = 0]
         p == Endpoint(a, r)
     IN Step(a, Done(Left([r EXCEPT !.lease = p, !.url = p, !.force = TRUE,
                             !.bound = IF k \in {0, @.proc} THEN [proc |-> 0, port |-> 0] ELSE @],
                          "reload"), "reload"))
-----------------------------------------------------------------------------
(* terminate, called by AstrBot for an account it stops ("native") and by  *)
(* _restore_platform_adapters of a newly loaded plugin ("hot").            *)
Terminate(a, how) ==
  /\ Event /\ a \in on /\ Pc(a, "term") = "off"
  /\ how = "hot" => Pc(a, "old") = "off" /\ (acc[a].tracked \/ TakeOver)
  /\ LET r == [acc[a] EXCEPT !.stopped = TRUE, !.reconnect = TRUE, !.task["term"].job = how]
     IN Becomes(a, IF r.tracked /\ r.task["run"].pc # "off"
                   THEN Goes(Cancelled(r, "run"), "term", "await")
                   ELSE Shutting(r, "term", "stop"))
  /\ UNCHANGED <<on, leaked, foreign, faults>>

\* wait_for(run_task, 5): the timeout cancels the task once more.
RunAwaited(a) ==
  /\ Pc(a, "term") = "await"
  /\ \/ Pc(a, "run") = "off" /\ Step(a, Shutting(acc[a], "term", "stop"))
     \/ Pc(a, "run") # "off" /\ Fails(a, Shutting(Cancelled(acc[a], "run"), "term", "stop"))

\* The new plugin takes the instance over and reloads it; the reload gets the lock
\* before the new run loop does.
Swapped(a, r) ==
  LET p == Endpoint(a, r)
      s == [r EXCEPT
        !.lease = p, !.url = p, !.bound = [proc |-> 0, port |-> 0],
        !.stopped = FALSE, !.reconnect = FALSE, !.force = TRUE, !.tracked = TRUE,
        !.task["old"] = r.task["run"],
        !.task["run"] = Idle,
        !.lock = [i \in DOMAIN @ |-> IF @[i] = "run" THEN "old" ELSE @[i]]]
  IN Waits(IF r.task["reload"].pc = "off" THEN Waits(s, "reload", "none") ELSE s, "run", "connect")

\* terminate returns; AstrBot then cancels the tasks it started, the new plugin swaps.
TerminateEnds(a) ==
  /\ Pc(a, "term") = "stop" /\ ChildStopped(a, "term")
  /\ LET r == Done([Shut(acc[a], "term") EXCEPT !.lease = 0], "term") IN
     \/ /\ Job(a, "term") = "native" /\ on' = on \ {a}
        /\ Becomes(a, Cancelled(Cancelled(r, "run"), "old"))
     \/ Job(a, "term") = "hot" /\ Becomes(a, Swapped(a, r)) /\ UNCHANGED on
  /\ UNCHANGED <<leaked, foreign, events, faults>>

\* AstrBot creates a new adapter for the account.
Enable(a) ==
  /\ Event /\ a \notin on /\ \A t \in Tasks : Pc(a, t) = "off"
  /\ on' = on \cup {a}
  /\ leaked' = leaked \cup ({acc[a].lease} \ {0})
  /\ \E p \in Candidates(a) \ {acc[a].lease} :
       /\ \A q \in Candidates(a) \ {acc[a].lease} : p <= q
       /\ Becomes(a, [NewAdapter(p, FALSE) EXCEPT !.proc = acc[a].proc])
  /\ UNCHANGED <<foreign, faults>>

\* A child crashes; another program takes or frees a port.
ChildCrashes(a, k) ==
  Alive(acc[a].proc[k]) /\ Fails(a, Exited(acc[a], k))
Foreign(p) ==
  /\ Event /\ foreign' = IF p \in foreign THEN foreign \ {p} ELSE foreign \cup {p}
  /\ p \in foreign \/ ~Listening(p)
  /\ UNCHANGED <<on, acc, leaked, faults>>
-----------------------------------------------------------------------------
Loop(a, t) ==
  \/ Connect(a, t) \/ Ensure(a, t) \/ Healthy(a, t) \/ Unhealthy(a, t) \/ Unauthorized(a, t)
  \/ StopChild(a, t) \/ Replace(a, t) \/ Spawn(a, t) \/ Connected(a, t) \/ WaitFails(a, t)
  \/ StreamEnds(a, t) \/ SleepEnds(a, t) \/ Stopped(a, t) \/ RunEnds(a, t)
Task(a, t) ==
  \/ t \in Loops /\ Loop(a, t)
  \/ t = "mon" /\ (Monitor(a) \/ Loop(a, t))
  \/ t = "reload" /\ (ReloadShuts(a) \/ StopChild(a, t) \/ ReloadEnds(a))
  \/ t = "term" /\ (RunAwaited(a) \/ StopChild(a, t) \/ TerminateEnds(a))

Next ==
  \/ \E a \in Accounts :
       \/ \E t \in Tasks : Task(a, t)
       \/ \E k \in Procs : Boot(a, k) \/ ChildCrashes(a, k)
       \/ Reload(a) \/ Enable(a)
       \/ \E how \in {"native", "hot"} : Terminate(a, how)
  \/ \E p \in Ports : Foreign(p)
Spec == Init /\ [][Next]_vars

\* asyncio runs every ready task, a request or a timer ends, a stopped child exits, a new
\* one binds its port; nothing makes a fault or an event happen.
Fairness ==
  \A a \in Accounts :
    /\ \A t \in Tasks : WF_vars(Pc(a, t) # "off" /\ Task(a, t) /\ UNCHANGED faults)
    /\ WF_vars(\E k \in Procs : Boot(a, k))
FairSpec == Spec /\ Fairness
-----------------------------------------------------------------------------
TypeOK ==
  /\ on \subseteq Accounts /\ acc \in [Accounts -> Adapters]
  /\ leaked \subseteq Ports /\ foreign \subseteq Ports
  /\ events \in 0 .. MaxEvents /\ faults \in 0 .. MaxFaults

\* Two Gateways never run on the credentials of one account, whichever of the run loop,
\* the monitor and a reload restarts it.
OneChild == \A a \in Accounts : Cardinality({k \in Procs : Alive(acc[a].proc[k])}) <= 1

\* When AstrBot has stopped an account, no child is left running and no monitor is left
\* to start one.
NothingLeft ==
  \A a \in Accounts \ on :
    (\A t \in Tasks \ {"mon"} : Pc(a, t) = "off") =>
      Pc(a, "mon") = "off" /\ \A k \in Procs : ~Alive(acc[a].proc[k])

\* Port leases are exclusive, also of those that were leaked, and a secondary account
\* never gets the base port, through bind races, reloads and restarts.
LeaseExclusive ==
  \A a \in Accounts : acc[a].lease # 0 =>
    acc[a].lease \notin LeasedByOthers(a) /\ (a \notin Primary => acc[a].lease # Base)

\* A reload and a termination return, whatever the run loop and the monitor wait for.
OperationsReturn ==
  \A a \in Accounts, t \in {"reload", "term"} : Pc(a, t) # "off" ~> Pc(a, t) = "off"

\* A run loop that goes on connects in the end and stays connected, after crashes, failed
\* starts and stolen ports; only the primary waits for its port to become free.
Recovers ==
  \A a \in Accounts :
    <>[](a \in on /\ Pc(a, "run") # "off" /\ (a \in Primary => Base \notin foreign))
      => <>[](Pc(a, "run") = "events" /\ Accepted(a))

\* CHANGELOG.md: a reload lets the event loop rebuild the Gateway.  The loop of an
\* enabled account ends only when it was told to stop.
LoopSurvivesReload == \A a \in on : Pc(a, "run") = "off" => acc[a].stopped

\* CHANGELOG.md: no cross-talk between sessions.  The client of an account that AstrBot
\* may send with is never accepted by the Gateway of another.
NoCrossTalk ==
  \A a \in on : ~acc[a].stopped => \A b \in Accounts \ {a} : ~Reaches(a, b)
=============================================================================
