--------------------------- MODULE GatewaySession ---------------------------
(***************************************************************************)
(* The account session kept by the Node gateway                            *)
(* (gateway/whatsapp-gateway-impl.mjs): the serialised socket transitions, *)
(* the socket generations, the credential persistence barrier between      *)
(* generations, reconnects, session resets, pairing codes, graceful        *)
(* shutdown and process crashes.                                           *)
(*                                                                         *)
(* JavaScript runs one callback at a time, so one action is the code       *)
(* between two awaits.  A transition is the head of the promise chain      *)
(* socketTransition; pc says at which await the running one is suspended.  *)
(* Wall-clock deadlines are actions that may win or lose their race.       *)
(***************************************************************************)
EXTENDS Naturals, Sequences, FiniteSets

CONSTANT MaxEvents  \* requests, faults, socket events and crashes in a behaviour

ASSUME GatewayAssumption == MaxEvents \in Nat

VARIABLES
  gen,      \* socketGeneration
  sock,     \* socket: the generation that created it and its opts.fresh
  wire,     \* generations whose transport to WhatsApp is open
  ready,    \* ready
  status,   \* connectionStatus
  timer,    \* reconnectTimer: what it starts, and for which generation
  deferred, \* pairing restarts chained on credsSaveQueue: saves each still waits for
  queue,    \* transitions chained on socketTransition and not started
  pc, cur,  \* the running transition and the await it is suspended at
  fails,    \* consecutiveFreshAuthFailures
  phase,    \* shuttingDown, and how far gracefulShutdown has come
  lease,    \* pairingCodePolicy: free, held or cooling down
  saver,    \* activeSaveCreds (on) and the credentials in its socket's memory
  pending,  \* saves on activeCredsSaveQueue that have not settled
  wait,     \* how many of them the running barrier waits for
  failure,  \* activeCredsSaveFailure
  orphans,  \* saves still running for sockets that were already replaced
  session,  \* currentSessionId, and the pointer file on disk
  disk,     \* creds.json of the current session
  high,     \* history: newest credentials accepted for the current session
  rejected, \* history: WhatsApp refused the current session's credentials
  raced,    \* history: "late" once an update is accepted while a barrier waits, "yes"
            \* once the auth directory was read before the save of a late one was done
  events    \* history: environment events so far

socketVars  == <<gen, sock, wire, ready, timer>>
queueVars   == <<queue, pc, cur>>
credsVars   == <<saver, pending, wait, failure, orphans>>
sessionVars == <<session, disk, high, rejected, raced>>
vars == <<socketVars, status, deferred, queueVars, fails, phase, lease,
          credsVars, sessionVars, events>>

NoSock   == [gen |-> 0, fresh |-> FALSE]
NoTimer  == [kind |-> "none", gen |-> 0]
Tr(kind, arg, manual) == [kind |-> kind, arg |-> arg, manual |-> manual, fresh |-> FALSE]
NoTr     == Tr("none", 0, FALSE)
BootTr   == Tr("boot", 0, FALSE)
Freshly(tr) == [tr EXCEPT !.fresh = TRUE]   \* goes on to startSocket({ fresh: true })
Fresh    == [v |-> 0, linked |-> FALSE]
Saver(s, c) == [on |-> TRUE, session |-> s, creds |-> c]
Renew(c, linked) == [v |-> c.v + 1, linked |-> linked]
NoSaver  == [on |-> FALSE, session |-> 0, creds |-> Fresh]

Statuses == {"starting", "qr_pending", "qr_expired", "pairing", "pairing_restart",
             "pair_code_pending", "connected", "disconnected", "session_invalid",
             "resetting", "error", "stopping"}
Kinds    == {"boot", "start", "restart", "reset", "logout", "pair"}
Pcs      == {"idle", "barrier", "retry", "load", "activate", "logout", "pair"}

Live     == sock # NoSock /\ sock.gen \in wire
Current  == sock # NoSock /\ sock.gen = gen   \* its listeners pass the generation check
Stopping == phase # "run"
Linked   == sock # NoSock /\ saver.creds.linked   \* hasLinkedCredentials(socket.authState.creds)
PairingAvailable == ~ready /\ ~Linked /\ sock # NoSock
                    /\ status \in {"starting", "qr_pending", "pair_code_pending"}
-----------------------------------------------------------------------------
(* A process that just started: initializeAuthSession has read the pointer *)
(* and the first start is queued.                                          *)
Boot ==
  /\ gen' = 0 /\ sock' = NoSock /\ wire' = {} /\ ready' = FALSE /\ timer' = NoTimer
  /\ status' = "starting" /\ deferred' = <<>>
  /\ queue' = <<BootTr>> /\ pc' = "idle" /\ cur' = NoTr
  /\ fails' = 0 /\ phase' = "run" /\ lease' = "free"
  /\ saver' = NoSaver /\ pending' = 0 /\ wait' = 0 /\ failure' = FALSE /\ orphans' = <<>>

Init ==
  /\ gen = 0 /\ sock = NoSock /\ wire = {} /\ ready = FALSE /\ timer = NoTimer
  /\ status = "starting" /\ deferred = <<>>
  /\ queue = <<BootTr>> /\ pc = "idle" /\ cur = NoTr
  /\ fails = 0 /\ phase = "run" /\ lease = "free"
  /\ saver = NoSaver /\ pending = 0 /\ wait = 0 /\ failure = FALSE /\ orphans = <<>>
  /\ session = 0 /\ high = 0 /\ rejected = FALSE /\ raced = "no" /\ events = 0
  /\ disk \in [v : {0}, linked : BOOLEAN]

\* Something from outside: it waits for the promise reactions that are ready to run.
Event ==
  /\ events < MaxEvents /\ events' = events + 1
  /\ ~(pc \in {"barrier", "retry"} /\ wait = 0)

Enqueue(kind, arg, manual) ==
  queue' = Append(queue, Tr(kind, arg, manual))

Take(kind) ==
  /\ pc = "idle" /\ queue # <<>> /\ Head(queue).kind = kind
  /\ queue' = Tail(queue)

Finish == pc' = "idle" /\ cur' = NoTr

\* gracefulShutdown up to its first await.
BeginShutdown ==
  /\ phase' = "draining"
  /\ status' = "stopping"
  /\ ready' = FALSE
  /\ timer' = NoTimer

\* Mutants: a failed transition keeps the old status; it reports an unlisted one.
FailKeepingStatus == Finish /\ UNCHANGED status
FailUnlisted      == Finish /\ status' = "failed"

\* enqueueSocketTransition's catch: the action threw.
Fail == Finish /\ status' = "error"
-----------------------------------------------------------------------------
(* startSocket, up to its first await.                                     *)
\* Mutant: the barrier does not wait for the saves already chained.
BeginStartUnguarded(tr) ==
  IF Stopping THEN Finish /\ UNCHANGED wait ELSE pc' = "barrier" /\ cur' = tr /\ wait' = 0

BeginStart(tr) ==
  IF Stopping
  THEN Finish /\ UNCHANGED wait
  ELSE pc' = "barrier" /\ cur' = tr /\ wait' = pending

\* resetSocketSession up to its first await: invalidateCurrentSocket retires
\* the socket and makes every event it may still deliver stale.
BeginReset(tr, manual, base) ==
  /\ pc' = "activate" /\ cur' = Freshly(tr)
  /\ status' = "resetting"
  /\ fails' = IF manual THEN 0 ELSE fails
  /\ gen' = base + 1
  /\ timer' = NoTimer
  /\ wire' = wire \ {sock.gen}
  /\ sock' = NoSock
  /\ ready' = FALSE

RunStart ==
  /\ Take("boot") \/ Take("start")
  /\ BeginStart(Head(queue))
  /\ UNCHANGED <<socketVars, status, deferred, fails, phase, lease, saver, pending,
                 failure, orphans, sessionVars, events>>

\* POST /restart: a repeated click that observed an older socket is a no-op.
RunRestart ==
  /\ Take("restart")
  /\ \/ /\ gen # Head(queue).arg
        /\ Finish
        /\ UNCHANGED <<socketVars, status, fails, wait>>
     \/ /\ gen = Head(queue).arg /\ status = "session_invalid"
        /\ BeginReset(Head(queue), TRUE, gen)
        /\ UNCHANGED wait
     \/ /\ gen = Head(queue).arg /\ status # "session_invalid"
        /\ BeginStart(Head(queue))
        /\ UNCHANGED <<socketVars, status, fails>>
  /\ UNCHANGED <<deferred, phase, lease, saver, pending, failure, orphans,
                 sessionVars, events>>

\* Mutant: only a connected or pairing account refuses a manual reset.
ResetRefusedWhenReady == ready \/ status \in {"pairing", "pairing_restart"}

\* requestSessionReset: no-op for a session already replaced; a manual one is
\* refused for a signed-in or pairing account and coalesced with a fresh login.
ResetRefused ==
  ready \/ status \in {"pairing", "pairing_restart"}
        \/ (Linked /\ status # "session_invalid")

ResetCoalesced == sock # NoSock /\ status \in {"starting", "qr_pending"}

RunReset ==
  /\ Take("reset")
  /\ IF \/ Head(queue).arg # session
        \/ Head(queue).manual /\ (ResetRefused \/ ResetCoalesced)
     THEN Finish /\ UNCHANGED <<socketVars, status, fails>>
     ELSE BeginReset(Head(queue), Head(queue).manual, gen)
  /\ UNCHANGED <<deferred, phase, lease, credsVars, sessionVars, events>>

\* requestLogoutAndReset: events of the retiring socket go stale at once; a
\* connected socket gets up to three seconds for its remote logout.
RunLogout ==
  /\ Take("logout")
  /\ IF ready
     THEN /\ gen' = gen + 1
          /\ pc' = "logout" /\ cur' = Head(queue)
          /\ UNCHANGED <<sock, wire, ready, timer, status, fails>>
     ELSE BeginReset(Head(queue), TRUE, gen + 1)
  /\ UNCHANGED <<deferred, phase, lease, credsVars, sessionVars, events>>

LogoutSettled ==
  /\ pc = "logout"
  /\ BeginReset(cur, TRUE, gen)
  /\ UNCHANGED <<queue, deferred, phase, lease, credsVars, sessionVars, events>>
-----------------------------------------------------------------------------
(* activateFreshAuthSession: mkdir, temporary pointer, rename.  The rename *)
(* is the commit point; an error before it leaves the old session current. *)
Activate ==
  /\ pc = "activate"
  /\ session' = session + 1
  /\ disk' = Fresh /\ high' = 0 /\ rejected' = FALSE
  /\ raced' = IF raced = "yes" THEN "late" ELSE raced
  /\ BeginStart(cur)
  /\ UNCHANGED <<socketVars, status, deferred, queue, fails, phase, lease, saver,
                 pending, failure, orphans, events>>

ActivateFailed ==
  /\ pc = "activate" /\ Event
  /\ Fail
  /\ UNCHANGED <<socketVars, deferred, queue, fails, phase, lease, credsVars, sessionVars>>

\* The rest of startSocket's synchronous prologue: the retiring socket hands
\* over, whatever is left on its save chain runs on unobserved.
HandOver ==
  /\ pending' = 0 /\ wait' = 0 /\ failure' = FALSE
  /\ orphans' = orphans \o [i \in 1..pending |-> saver]
  /\ IF Stopping   \* the socket stays, and so do the credentials it writes
     THEN Finish /\ saver' = [saver EXCEPT !.on = FALSE] /\ UNCHANGED <<socketVars, status>>
     ELSE /\ pc' = "load" /\ UNCHANGED cur
          /\ gen' = gen + 1
          /\ timer' = NoTimer
          /\ wire' = wire \ {sock.gen}
          /\ sock' = NoSock
          /\ saver' = NoSaver
          /\ ready' = FALSE
          /\ status' = "starting"

\* The barrier settled: hand over, or first retry a save that failed.
BarrierSettled ==
  /\ pc = "barrier" /\ wait = 0
  /\ \/ ~failure /\ HandOver
     \/ /\ failure
        /\ IF saver.on
           THEN pc' = "retry" /\ pending' = pending + 1 /\ wait' = pending + 1
                /\ UNCHANGED <<status, cur>>
           ELSE Fail /\ UNCHANGED <<pending, wait>>
        /\ UNCHANGED <<socketVars, saver, failure, orphans>>
  /\ UNCHANGED <<deferred, queue, fails, phase, lease, sessionVars, events>>

BarrierTimeout ==
  /\ pc = "barrier" /\ wait > 0
  /\ Fail /\ wait' = 0
  /\ UNCHANGED <<socketVars, deferred, queue, fails, phase, lease, saver, pending,
                 failure, orphans, sessionVars, events>>

\* The retry settled, or five seconds passed first.
RetryEnds ==
  /\ pc = "retry"
  /\ \/ ~failure /\ HandOver
     \/ /\ failure
        /\ Fail /\ wait' = 0
        /\ UNCHANGED <<socketVars, saver, pending, failure, orphans>>
  /\ UNCHANGED <<deferred, queue, fails, phase, lease, sessionVars, events>>

\* A save of the current session is still running, or the last one failed.
Unsettled == failure \/ \E i \in DOMAIN orphans : orphans[i].session = session

\* What reading the auth directory does to the history of late updates.
ReadAuth ==
  raced' = IF raced # "late" THEN raced
           ELSE IF Unsettled THEN "yes"
           ELSE IF orphans = <<>> THEN "no" ELSE "late"   \* older sessions' saves

\* Mutant: shutdown is not checked again after the credentials were read.
LoadWhileStopping ==
  /\ pc = "load"
  /\ sock' = [gen |-> gen, fresh |-> cur.fresh]
  /\ wire' = wire \cup {gen}
  /\ saver' = Saver(session, disk)
  /\ ReadAuth
  /\ Finish
  /\ UNCHANGED <<gen, ready, timer, status, deferred, queue, fails, phase, lease,
                 pending, wait, failure, orphans, session, disk, high, rejected, events>>

\* useMultiFileAuthState returned; shutdown may have begun while it read.
Load ==
  /\ pc = "load"
  /\ IF Stopping
     THEN UNCHANGED <<sock, wire, saver, raced>>
     ELSE /\ sock' = [gen |-> gen, fresh |-> cur.fresh]
          /\ wire' = wire \cup {gen}
          /\ saver' = Saver(session, disk)
          /\ ReadAuth
  /\ Finish
  /\ UNCHANGED <<gen, ready, timer, status, deferred, queue, fails, phase, lease,
                 pending, wait, failure, orphans, session, disk, high, rejected, events>>

\* A first start that throws ends the process (startup_failure).
LoadFailed ==
  /\ pc = "load" /\ Event
  /\ IF cur.kind = "boot" /\ ~Stopping
     THEN Finish /\ BeginShutdown
     ELSE Fail /\ UNCHANGED <<phase, ready, timer>>
  /\ UNCHANGED <<gen, sock, wire, deferred, queue, fails, lease, credsVars, sessionVars>>
-----------------------------------------------------------------------------
(* creds.update, accepted when its generation is current: the new          *)
(* credentials are in memory and their save is chained.                    *)
CredsUpdate ==
  /\ Current /\ ~(phase = "closed") /\ Event
  /\ \E linked \in {saver.creds.linked, TRUE} :
       saver' = [saver EXCEPT !.creds = Renew(saver.creds, linked)]
  /\ high' = saver.creds.v + 1
  /\ pending' = pending + 1
  /\ raced' = IF raced = "no" /\ pc \in {"barrier", "retry"} THEN "late" ELSE raced
  /\ UNCHANGED <<socketVars, status, deferred, queueVars, fails, phase, lease, wait,
                 failure, orphans, session, disk, rejected>>

Countdown(n) == IF n > 0 THEN n - 1 ELSE 0

\* The oldest outstanding save writes what its socket has in memory now.
Write(s) ==
  disk' = IF s.session = session THEN s.creds ELSE disk

SaveSettles(saved) ==
  /\ IF saved THEN UNCHANGED events ELSE Event
  /\ failure' = ~saved
  /\ deferred' = [i \in DOMAIN deferred |-> Countdown(deferred[i])]
  /\ \/ /\ orphans # <<>>
        /\ orphans' = Tail(orphans)
        /\ IF saved THEN Write(Head(orphans)) ELSE UNCHANGED disk
        /\ UNCHANGED <<pending, wait>>
     \/ /\ orphans = <<>> /\ pending > 0
        /\ pending' = pending - 1
        /\ wait' = Countdown(wait)
        /\ IF saved THEN Write(saver) ELSE UNCHANGED disk
        /\ UNCHANGED orphans
  /\ UNCHANGED <<socketVars, status, queueVars, fails, phase, lease, saver, session,
                 high, rejected, raced>>

SaveDone   == SaveSettles(TRUE)
SaveFailed == SaveSettles(FALSE)
-----------------------------------------------------------------------------
(* connection.update of the current socket.                                *)
Handler == Current /\ Live /\ phase # "closed" /\ Event

QrShown ==
  /\ Handler /\ ~ready /\ ~saver.creds.linked
  /\ status' = "qr_pending"
  /\ UNCHANGED <<socketVars, deferred, queueVars, fails, phase, lease, credsVars, sessionVars>>

NewLogin ==
  /\ Handler /\ ~ready /\ saver.creds.linked
  /\ status' = "pairing"
  /\ UNCHANGED <<socketVars, deferred, queueVars, fails, phase, lease, credsVars, sessionVars>>

Open ==
  /\ Handler /\ ~ready /\ saver.creds.linked
  /\ fails' = 0
  /\ ready' = TRUE
  /\ status' = "connected"
  /\ UNCHANGED <<gen, sock, wire, timer, deferred, queueVars, phase, lease, credsVars,
                 sessionVars>>

\* connection "close": what every kind does before the kinds part.
Closing(newStatus) ==
  /\ Handler
  /\ wire' = wire \ {sock.gen}
  /\ ready' = FALSE
  /\ status' = newStatus
  /\ UNCHANGED <<gen, sock, deferred, pc, cur, phase, lease, credsVars, session, disk,
                 high, raced>>

CloseQrExpired ==
  /\ ~saver.creds.linked
  /\ Closing("qr_expired")
  /\ UNCHANGED <<timer, queue, fails, rejected>>

CloseTransient ==
  /\ Closing("disconnected")
  /\ timer' = [kind |-> "transient", gen |-> gen]
  /\ UNCHANGED <<queue, fails, rejected>>

CloseRestart ==
  /\ Closing("pairing_restart")
  /\ timer' = [kind |-> "pairing", gen |-> gen]
  /\ UNCHANGED <<queue, fails, rejected>>

\* 401, 411, 500: replace the session, unless a fresh one keeps being refused.
CloseAuthInvalid ==
  LET refused == fails + (IF sock.fresh THEN 1 ELSE 0)
  IN  /\ fails' = refused
      /\ rejected' = TRUE
      /\ UNCHANGED timer
      /\ IF ~sock.fresh \/ refused <= 2
         THEN Closing("session_invalid") /\ Enqueue("reset", session, FALSE)
         ELSE Closing("error") /\ UNCHANGED queue

\* The transport ends while its events are stale (the remote logout's close).
StaleClose ==
  /\ Live /\ ~Current /\ Event
  /\ wire' = wire \ {sock.gen}
  /\ UNCHANGED <<gen, sock, ready, timer, status, deferred, queueVars, fails, phase, lease,
                 credsVars, sessionVars>>

\* Mutant: a start is dropped while another transition runs.
RequestStartIfIdle ==
  IF Stopping \/ pc # "idle" THEN UNCHANGED queue ELSE Enqueue("start", 0, FALSE)

\* requestSocketStart
RequestStart == IF Stopping THEN UNCHANGED queue ELSE Enqueue("start", 0, FALSE)

TimerFires ==
  /\ timer # NoTimer
  /\ timer' = NoTimer
  /\ IF timer.gen = gen /\ timer.kind = "transient"
     THEN RequestStart ELSE UNCHANGED queue
  /\ deferred' = IF timer.gen = gen /\ timer.kind = "pairing"
                 THEN Append(deferred, Len(orphans) + pending) ELSE deferred
  /\ UNCHANGED <<gen, sock, wire, ready, status, pc, cur, fails, phase, lease, credsVars,
                 sessionVars, events>>

\* credsSaveQueue.then(() => requestSocketStart({ pairingRestart: true }))
DeferredStart ==
  /\ deferred # <<>> /\ Head(deferred) = 0
  /\ deferred' = Tail(deferred)
  /\ RequestStart
  /\ UNCHANGED <<socketVars, status, pc, cur, fails, phase, lease, credsVars, sessionVars,
                 events>>
-----------------------------------------------------------------------------
(* HTTP requests; the server answers until gracefulShutdown closes it.     *)
Request(kind, arg, manual) ==
  /\ phase # "closed" /\ Event
  /\ Enqueue(kind, arg, manual)
  /\ UNCHANGED <<socketVars, status, deferred, pc, cur, fails, phase, credsVars, sessionVars>>

RequestRestart == Request("restart", gen, TRUE) /\ UNCHANGED lease
RequestReset   == Request("reset", session, TRUE) /\ UNCHANGED lease
RequestLogout  == Request("logout", session, TRUE) /\ UNCHANGED lease

RequestPairCode ==
  /\ PairingAvailable /\ Live
  /\ lease = "free" /\ lease' = "held"
  /\ Request("pair", 0, TRUE)

\* finish() starts the cooldown, whatever became of the request.
RunPair ==
  /\ Take("pair")
  /\ IF PairingAvailable /\ Live
     THEN pc' = "pair" /\ cur' = Head(queue) /\ UNCHANGED lease
     ELSE Finish /\ lease' = "cooling"
  /\ UNCHANGED <<socketVars, status, deferred, fails, phase, credsVars, sessionVars, events>>

\* requestPairingCode settled: with a usable code, on the socket it was asked
\* of, or with an error (always, once that transport is closed).
PairSettled ==
  /\ pc = "pair"
  /\ Finish
  /\ lease' = "cooling"
  /\ \/ Live /\ status' = "pair_code_pending"
     \/ UNCHANGED status
  /\ UNCHANGED <<socketVars, deferred, queue, fails, phase, credsVars, sessionVars, events>>

CooldownOver ==
  /\ lease = "cooling" /\ lease' = "free"
  /\ UNCHANGED <<socketVars, status, deferred, queueVars, fails, phase, credsVars,
                 sessionVars, events>>
-----------------------------------------------------------------------------
(* gracefulShutdown: 1.5 seconds for the transitions, 3 for persistence.   *)
Shutdown ==
  /\ phase = "run" /\ Event
  /\ BeginShutdown
  /\ UNCHANGED <<gen, sock, wire, deferred, queueVars, fails, lease, credsVars, sessionVars>>

FinalSave ==
  /\ phase = "draining"
  /\ phase' = "flushing"
  /\ pending' = IF saver.on THEN pending + 1 ELSE pending
  /\ UNCHANGED <<socketVars, status, deferred, queueVars, fails, lease, saver, wait, failure,
                 orphans, sessionVars, events>>

ShutdownEnds ==
  /\ phase = "flushing"
  /\ phase' = "closed"
  /\ gen' = gen + 1
  /\ wire' = wire \ {sock.gen}
  /\ sock' = NoSock
  /\ UNCHANGED <<ready, timer, status, deferred, queueVars, fails, lease, credsVars,
                 sessionVars, events>>

\* Every save the process began has ended, the last one well, and no start went
\* past one: the newest credentials it accepted ought to be on disk.
Saved == pending = 0 /\ orphans = <<>> /\ ~failure /\ raced # "yes"

\* The process dies, at any point, and is started again.  Nothing is written
\* ahead: an update dies with a process whose saves had not all ended well.  What
\* was saved is what the next process has to come back to.
Respawn ==
  /\ Event
  /\ Boot
  /\ high' = IF Saved THEN high ELSE disk.v
  /\ raced' = "no"
  /\ UNCHANGED <<session, disk, rejected>>
-----------------------------------------------------------------------------
Transition ==
  \/ RunStart \/ RunRestart \/ RunReset \/ RunLogout \/ RunPair
  \/ LogoutSettled \/ Activate \/ ActivateFailed
  \/ BarrierSettled \/ BarrierTimeout \/ RetryEnds \/ Load \/ LoadFailed \/ PairSettled

Next ==
  \/ Transition
  \/ TimerFires \/ DeferredStart \/ SaveDone \/ SaveFailed \/ CooldownOver
  \/ CredsUpdate \/ QrShown \/ NewLogin \/ Open
  \/ CloseQrExpired \/ CloseTransient \/ CloseRestart \/ CloseAuthInvalid \/ StaleClose
  \/ RequestRestart \/ RequestReset \/ RequestLogout \/ RequestPairCode
  \/ Shutdown \/ FinalSave \/ ShutdownEnds \/ Respawn

\* The event loop runs what it can; storage answers every write; deadlines expire.
Fairness ==
  /\ WF_vars(Transition)
  /\ WF_vars(TimerFires)
  /\ WF_vars(DeferredStart)
  /\ WF_vars(SaveDone)

Spec     == Init /\ [][Next]_vars
FairSpec == Spec /\ Fairness
-----------------------------------------------------------------------------
Sockets == [gen : Nat, fresh : BOOLEAN]
Timers  == [kind : {"none", "transient", "pairing"}, gen : Nat]
Creds   == [v : Nat, linked : BOOLEAN]
Savers  == [on : BOOLEAN, session : Nat, creds : Creds]
Trs     == [kind : Kinds \cup {"none"}, arg : Nat, manual : BOOLEAN, fresh : BOOLEAN]
Lateness == {"no", "late", "yes"}

\* Every variable keeps the range its declaration in the gateway gives it.
TypeOK ==
  /\ gen \in Nat /\ sock \in Sockets /\ wire \in SUBSET Nat
  /\ ready \in BOOLEAN /\ status \in Statuses /\ timer \in Timers
  /\ deferred \in Seq(Nat)
  /\ queue \in Seq(Trs) /\ pc \in Pcs /\ cur \in Trs
  /\ fails \in Nat
  /\ phase \in {"run", "draining", "flushing", "closed"}
  /\ lease \in {"free", "held", "cooling"}
  /\ saver \in Savers /\ pending \in Nat /\ wait \in Nat /\ failure \in BOOLEAN
  /\ orphans \in Seq(Savers)
  /\ session \in Nat /\ disk \in Creds /\ high \in Nat
  /\ rejected \in BOOLEAN /\ raced \in Lateness /\ events \in Nat

\* At most one transport to WhatsApp is open, it belongs to the current socket,
\* and none outlives a graceful shutdown, wherever the transition in progress
\* was suspended when shutdown began.
OneTransport ==
  /\ wire \subseteq {sock.gen} \ {0}
  /\ phase = "closed" => sock = NoSock /\ wire = {}

\* The durability barrier of startSocket: a socket works with the newest
\* credentials the gateway accepted for its session, across restarts, failed and
\* retried saves and resets; and across a crash, at any point, with the newest
\* ones accepted before it whenever every save the dead process began had ended
\* well (without a log written ahead the code promises no more).  The exception:
\* the auth directory was read while the save of an update accepted during a
\* barrier was still running, or had failed, the case BarrierComplete is about.
NewestCredentials ==
  Current /\ raced # "yes" => saver.session = session /\ saver.creds.v = high

\* An account without a transport is never forgotten: something is queued,
\* running or armed that reconnects it, or the status asks for the operator.
NoSilentStall ==
  \/ Live \/ Stopping
  \/ queue # <<>> \/ pc # "idle" \/ timer # NoTimer \/ deferred # <<>>
  \/ status \in {"error", "qr_expired"}

\* A linked session is given up only by a logout, or after WhatsApp refused it;
\* a reset that finds no socket at all, after a start failed to read storage, is the
\* exception: requestSessionReset reads the linked flag from the socket it has.
LinkedSocketKept ==
  [][pc # "activate" /\ pc' = "activate"
     => cur'.kind = "logout" \/ rejected \/ ~disk.linked \/ sock = NoSock \/ raced = "yes"]_vars

\* An account that lost its transport is reconnected, or its status says that it
\* needs the operator, or the gateway is going down.
Recovers ==
  ~Live ~> (Live \/ Stopping \/ status \in {"error", "qr_expired"})
-----------------------------------------------------------------------------
(* What comments, tests and docs say, and the code does not do.            *)

\* "A reconnect must never load the auth directory while the previous socket
\* generation is still persisting credentials into it."
BarrierComplete ==
  pc = "load" => \A i \in DOMAIN orphans : orphans[i].session # session

\* "makes terminal and stopping Gateway states fail health checks": /health is
\* unhealthy for the statuses error and stopping only.
StoppingFailsHealth == Stopping => status \in {"error", "stopping"}
=============================================================================
