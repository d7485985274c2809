------------------------ MODULE GatewaySessionProofs ------------------------
(***************************************************************************)
(* Proofs about GatewaySession for every MaxEvents: its type invariant,    *)
(* that transports never overlap or outlive a shutdown, that a socket      *)
(* always works with the newest credentials of its session, and that a     *)
(* linked session is given up only by a logout or after a refusal.         *)
(***************************************************************************)
EXTENDS GatewaySession, TLAPS

-----------------------------------------------------------------------------
LEMMA ConstantTypes ==
  /\ NoSock \in Sockets /\ NoTimer \in Timers /\ NoTr \in Trs
  /\ Fresh \in Creds /\ NoSaver \in Savers
  /\ BootTr \in Trs
  BY DEF BootTr, Tr, NoSock, Sockets, NoTimer, Timers, NoTr, Trs, Kinds, Fresh, Creds, NoSaver, Savers

\* The parts of TypeOK, one per group of variables that most actions leave alone.
SocketT  == gen \in Nat /\ sock \in Sockets /\ wire \in SUBSET Nat /\ ready \in BOOLEAN
            /\ timer \in Timers
QueueT   == queue \in Seq(Trs) /\ pc \in Pcs /\ cur \in Trs
CredsT   == saver \in Savers /\ pending \in Nat /\ wait \in Nat /\ failure \in BOOLEAN
            /\ orphans \in Seq(Savers)
SessionT == session \in Nat /\ disk \in Creds /\ high \in Nat /\ rejected \in BOOLEAN
            /\ raced \in Lateness
RestT    == /\ status \in Statuses /\ deferred \in Seq(Nat) /\ fails \in Nat
            /\ phase \in {"run", "draining", "flushing", "closed"}
            /\ lease \in {"free", "held", "cooling"} /\ events \in Nat

LEMMA TypeParts == TypeOK <=> SocketT /\ QueueT /\ CredsT /\ SessionT /\ RestT
  BY DEF TypeOK, SocketT, QueueT, CredsT, SessionT, RestT

LEMMA TypePartsNext ==
  TypeOK' <=> SocketT' /\ QueueT' /\ CredsT' /\ SessionT' /\ RestT'
  BY TypeParts, PTL

LEMMA KeptTypes ==
  /\ SocketT /\ UNCHANGED socketVars => SocketT'
  /\ QueueT /\ UNCHANGED queueVars => QueueT'
  /\ CredsT /\ UNCHANGED credsVars => CredsT'
  /\ SessionT /\ UNCHANGED sessionVars => SessionT'
  BY DEF SocketT, QueueT, CredsT, SessionT, socketVars, queueVars, credsVars, sessionVars

LEMMA InitType == Init => TypeOK
  <1> SUFFICES ASSUME Init PROVE TypeOK
    OBVIOUS
  <1>1. disk \in Creds
    BY DEF Init, Creds
  <1>2. queue \in Seq(Trs) /\ deferred \in Seq(Nat) /\ orphans \in Seq(Savers)
    BY ConstantTypes DEF Init
  <1> QED
    BY <1>1, <1>2, ConstantTypes DEF Init, TypeOK, Statuses, Pcs, Lateness

LEMMA SaverType ==
  ASSUME NEW s \in Nat, NEW c \in Creds
  PROVE  Saver(s, c) \in Savers
  BY DEF Saver, Savers

LEMMA EnqueueType ==
  ASSUME TypeOK, NEW kind \in Kinds, NEW arg \in Nat, NEW manual \in BOOLEAN,
         Enqueue(kind, arg, manual)
  PROVE  queue' \in Seq(Trs)
  <1>1. Tr(kind, arg, manual) \in Trs
    BY DEF Tr, Trs
  <1> QED
    BY <1>1 DEF Enqueue, TypeOK

LEMMA TakeType ==
  ASSUME TypeOK, NEW kind, Take(kind)
  PROVE  queue' \in Seq(Trs) /\ Head(queue) \in Trs
  BY DEF Take, TypeOK

LEMMA BeginStartType ==
  ASSUME TypeOK, NEW tr \in Trs, BeginStart(tr)
  PROVE  pc' \in Pcs /\ cur' \in Trs /\ (wait' \in Nat)
  BY ConstantTypes DEF BeginStart, Finish, TypeOK, Pcs

LEMMA BeginResetType ==
  ASSUME TypeOK, NEW tr \in Trs, NEW manual \in BOOLEAN, NEW base \in Nat,
         BeginReset(tr, manual, base)
  PROVE  /\ pc' \in Pcs /\ cur' \in Trs /\ status' \in Statuses /\ fails' \in Nat
         /\ gen' \in Nat /\ timer' \in Timers /\ wire' \in SUBSET Nat /\ sock' \in Sockets
         /\ ready' \in BOOLEAN
  <1>1. Freshly(tr) \in Trs
    BY DEF Trs, Freshly
  <1>2. wire' \in SUBSET Nat
    BY DEF BeginReset, TypeOK
  <1>3. fails' \in Nat
    BY DEF BeginReset, TypeOK
  <1>4. gen' \in Nat
    BY DEF BeginReset
  <1> QED
    BY <1>1, <1>2, <1>3, <1>4, ConstantTypes DEF BeginReset, Pcs, Statuses

LEMMA HandOverType ==
  ASSUME TypeOK, HandOver
  PROVE  /\ pc' \in Pcs /\ cur' \in Trs /\ status' \in Statuses
         /\ gen' \in Nat /\ timer' \in Timers /\ wire' \in SUBSET Nat /\ sock' \in Sockets
         /\ ready' \in BOOLEAN
         /\ saver' \in Savers /\ pending' \in Nat /\ wait' \in Nat /\ failure' \in BOOLEAN
         /\ orphans' \in Seq(Savers)
  <1>1. [i \in 1..pending |-> saver] \in Seq(Savers)
    BY DEF TypeOK
  <1>2. orphans' \in Seq(Savers)
    BY <1>1 DEF HandOver, TypeOK
  <1>3. saver' \in Savers
    BY ConstantTypes DEF HandOver, TypeOK, Savers
  <1>4. wire' \in SUBSET Nat
    BY DEF HandOver, TypeOK, socketVars
  <1>5. pc' \in Pcs /\ cur' \in Trs /\ status' \in Statuses
    BY ConstantTypes DEF HandOver, Finish, TypeOK, socketVars, Pcs, Statuses
  <1>6. gen' \in Nat /\ timer' \in Timers /\ sock' \in Sockets
    BY ConstantTypes DEF HandOver, TypeOK, socketVars
  <1>7. ready' \in BOOLEAN
    BY DEF HandOver, TypeOK, socketVars
  <1> QED
    BY <1>2, <1>3, <1>4, <1>5, <1>6, <1>7 DEF HandOver

LEMMA ClosingType ==
  ASSUME TypeOK, NEW newStatus \in Statuses, Closing(newStatus)
  PROVE  /\ gen' \in Nat /\ sock' \in Sockets /\ wire' \in SUBSET Nat
         /\ ready' \in BOOLEAN /\ status' \in Statuses /\ deferred' \in Seq(Nat)
         /\ pc' \in Pcs /\ cur' \in Trs
         /\ phase' \in {"run", "draining", "flushing", "closed"}
         /\ lease' \in {"free", "held", "cooling"}
         /\ saver' \in Savers /\ pending' \in Nat /\ wait' \in Nat /\ failure' \in BOOLEAN
         /\ orphans' \in Seq(Savers)
         /\ session' \in Nat /\ disk' \in Creds /\ high' \in Nat
         /\ raced' \in Lateness /\ events' \in Nat
  <1>1. wire' \in SUBSET Nat
    BY DEF Closing, TypeOK
  <1>2. /\ gen' \in Nat /\ sock' \in Sockets /\ status' \in Statuses
        /\ deferred' \in Seq(Nat) /\ pc' \in Pcs /\ cur' \in Trs
        /\ phase' \in {"run", "draining", "flushing", "closed"}
        /\ lease' \in {"free", "held", "cooling"}
    BY DEF Closing, TypeOK
  <1>3. /\ saver' \in Savers /\ pending' \in Nat /\ wait' \in Nat /\ orphans' \in Seq(Savers)
        /\ session' \in Nat /\ disk' \in Creds /\ high' \in Nat /\ events' \in Nat
    BY DEF Closing, Handler, Event, TypeOK, credsVars
  <1>4. ready' \in BOOLEAN
    BY DEF Closing
  <1>5. failure' \in BOOLEAN
    BY DEF Closing, TypeOK, credsVars
  <1>6. raced' \in Lateness
    BY DEF Closing, TypeOK
  <1> QED
    BY <1>1, <1>2, <1>3, <1>4, <1>5, <1>6

LEMMA TransitionType == TypeOK /\ Transition => TypeOK'
  <1> SUFFICES ASSUME TypeOK, Transition PROVE TypeOK'
    OBVIOUS
  <1>1. CASE RunStart
    <2>1. queue' \in Seq(Trs) /\ Head(queue) \in Trs
      BY <1>1, TakeType DEF RunStart
    <2> QED
      BY <1>1, <2>1, BeginStartType DEF RunStart, TypeOK, socketVars, sessionVars
  <1>2. CASE RunRestart
    <2>1. queue' \in Seq(Trs) /\ Head(queue) \in Trs
      BY <1>2, TakeType DEF RunRestart
    <2>2. CASE Finish /\ UNCHANGED <<socketVars, status, fails, wait>>
      BY <1>2, <2>1, <2>2, ConstantTypes
      DEF RunRestart, Finish, TypeOK, Pcs, socketVars, sessionVars
    <2>3. CASE BeginReset(Head(queue), TRUE, gen) /\ UNCHANGED wait
      <3>1. gen \in Nat
        BY DEF TypeOK
      <3> QED
        BY <1>2, <2>1, <2>3, <3>1, BeginResetType DEF RunRestart, TypeOK, sessionVars
    <2>4. CASE BeginStart(Head(queue)) /\ UNCHANGED <<socketVars, status, fails>>
      BY <1>2, <2>1, <2>4, BeginStartType DEF RunRestart, TypeOK, socketVars, sessionVars
    <2> QED
      BY <1>2, <2>2, <2>3, <2>4 DEF RunRestart
  <1>3. CASE RunReset
    <2>1. queue' \in Seq(Trs) /\ Head(queue) \in Trs /\ Head(queue).manual \in BOOLEAN
      BY <1>3, TakeType DEF RunReset, Trs
    <2>2. CASE Finish /\ UNCHANGED <<socketVars, status, fails>>
      BY <1>3, <2>1, <2>2, ConstantTypes
      DEF RunReset, Finish, TypeOK, Pcs, socketVars, credsVars, sessionVars
    <2>3. CASE BeginReset(Head(queue), Head(queue).manual, gen)
      <3>1. gen \in Nat
        BY DEF TypeOK
      <3> QED
        BY <1>3, <2>1, <2>3, <3>1, BeginResetType
        DEF RunReset, TypeOK, credsVars, sessionVars
    <2> QED
      BY <1>3, <2>2, <2>3 DEF RunReset
  <1>4. CASE RunLogout
    <2>1. queue' \in Seq(Trs) /\ Head(queue) \in Trs
      BY <1>4, TakeType DEF RunLogout
    <2>2. CASE ready
      <3>1. gen' \in Nat /\ pc' \in Pcs /\ cur' \in Trs
        BY <1>4, <2>1, <2>2 DEF RunLogout, TypeOK, Pcs
      <3>2. UNCHANGED <<sock, wire, ready, timer, status, fails>>
        BY <1>4, <2>2 DEF RunLogout
      <3> QED
        BY <1>4, <2>1, <3>1, <3>2 DEF RunLogout, TypeOK, credsVars, sessionVars
    <2>3. CASE ~ready
      <3>1. gen + 1 \in Nat
        BY DEF TypeOK
      <3>2. BeginReset(Head(queue), TRUE, gen + 1)
        BY <1>4, <2>3 DEF RunLogout
      <3> QED
        BY <1>4, <2>1, <3>1, <3>2, BeginResetType DEF RunLogout, TypeOK, credsVars, sessionVars
    <2> QED
      BY <2>2, <2>3
  <1>5. CASE RunPair
    <2>1. queue' \in Seq(Trs) /\ Head(queue) \in Trs
      BY <1>5, TakeType DEF RunPair
    <2> QED
      BY <1>5, <2>1, ConstantTypes
      DEF RunPair, Finish, TypeOK, Pcs, socketVars, credsVars, sessionVars
  <1>6. CASE LogoutSettled
    <2>1. gen \in Nat /\ cur \in Trs
      BY DEF TypeOK
    <2> QED
      BY <1>6, <2>1, BeginResetType DEF LogoutSettled, TypeOK, credsVars, sessionVars
  <1>7. CASE Activate
    <2>1. cur \in Trs
      BY DEF TypeOK
    <2>2. session' \in Nat /\ disk' \in Creds /\ high' \in Nat
      BY <1>7, ConstantTypes DEF Activate, TypeOK
    <2>3. rejected' \in BOOLEAN /\ raced' \in Lateness
      BY <1>7 DEF Activate, TypeOK, Lateness
    <2> QED
      BY <1>7, <2>1, <2>2, <2>3, BeginStartType DEF Activate, TypeOK, socketVars
  <1>8. CASE ActivateFailed
    BY <1>8, ConstantTypes
    DEF ActivateFailed, Event, Fail, Finish, TypeOK, Pcs, Statuses, socketVars, credsVars,
        sessionVars
  <1>9. CASE BarrierSettled
    <2>1. CASE HandOver
      BY <1>9, <2>1, HandOverType DEF BarrierSettled, TypeOK, sessionVars
    <2>2. CASE ~HandOver
      <3>1. pc' \in Pcs /\ cur' \in Trs /\ status' \in Statuses
        BY <1>9, <2>2, ConstantTypes
        DEF BarrierSettled, Fail, Finish, TypeOK, Pcs, Statuses
      <3>2. pending' \in Nat /\ wait' \in Nat
        BY <1>9, <2>2 DEF BarrierSettled, TypeOK
      <3> QED
        BY <1>9, <2>2, <3>1, <3>2 DEF BarrierSettled, TypeOK, socketVars, sessionVars
    <2> QED
      BY <2>1, <2>2
  <1>10. CASE BarrierTimeout
    BY <1>10, ConstantTypes
    DEF BarrierTimeout, Fail, Finish, TypeOK, Pcs, Statuses, socketVars, sessionVars
  <1>11. CASE RetryEnds
    <2>1. CASE HandOver
      BY <1>11, <2>1, HandOverType DEF RetryEnds, TypeOK, sessionVars
    <2>2. CASE ~HandOver
      <3>1. pc' \in Pcs /\ cur' \in Trs /\ status' \in Statuses /\ wait' \in Nat
        BY <1>11, <2>2, ConstantTypes DEF RetryEnds, Fail, Finish, TypeOK, Pcs, Statuses
      <3> QED
        BY <1>11, <2>2, <3>1 DEF RetryEnds, TypeOK, socketVars, sessionVars
    <2> QED
      BY <2>1, <2>2
  <1>12. CASE Load
    <2>1. saver' \in Savers
      BY <1>12, SaverType DEF Load, TypeOK
    <2>2. sock' \in Sockets
      BY <1>12 DEF Load, Sockets, Trs, TypeOK
    <2>3. wire' \in SUBSET Nat
      BY <1>12 DEF Load, TypeOK
    <2>4. raced' \in Lateness
      BY <1>12 DEF Load, ReadAuth, TypeOK, Lateness
    <2> QED
      BY <1>12, <2>1, <2>2, <2>3, <2>4, ConstantTypes DEF Load, Finish, TypeOK, Pcs
  <1>13. CASE LoadFailed
    <2>1. pc' \in Pcs /\ cur' \in Trs /\ status' \in Statuses /\ events' \in Nat
          /\ phase' \in {"run", "draining", "flushing", "closed"} /\ timer' \in Timers
      BY <1>13, ConstantTypes
      DEF LoadFailed, Event, Fail, Finish, BeginShutdown, TypeOK, Pcs, Statuses
    <2>2. ready' \in BOOLEAN
      BY <1>13 DEF LoadFailed, BeginShutdown, TypeOK
    <2>3. SocketT'
      BY <1>13, <2>1, <2>2 DEF LoadFailed, TypeOK, SocketT
    <2>4. RestT'
      BY <1>13, <2>1 DEF LoadFailed, TypeOK, RestT
    <2>5. QueueT'
      BY <1>13, <2>1 DEF LoadFailed, TypeOK, QueueT
    <2> QED
      BY <1>13, <2>3, <2>4, <2>5, TypeParts, TypePartsNext, KeptTypes DEF LoadFailed
  <1>14. CASE PairSettled
    BY <1>14, ConstantTypes
    DEF PairSettled, Finish, TypeOK, Pcs, Statuses, socketVars, credsVars, sessionVars
  <1> QED
    BY <1>1, <1>2, <1>3, <1>4, <1>5, <1>6, <1>7, <1>8, <1>9, <1>10, <1>11, <1>12, <1>13,
       <1>14 DEF Transition

LEMMA EventType ==
  TypeOK /\ (CredsUpdate \/ SaveDone \/ SaveFailed \/ QrShown \/ NewLogin \/ Open) => TypeOK'
  <1> SUFFICES ASSUME TypeOK,
                      CredsUpdate \/ SaveDone \/ SaveFailed \/ QrShown \/ NewLogin \/ Open
               PROVE  TypeOK'
    OBVIOUS
  <1>1. CASE CredsUpdate
    <2>1. saver' \in Savers
      <3>1. \A linked \in BOOLEAN : Renew(saver.creds, linked) \in Creds
        BY DEF Renew, Savers, Creds, TypeOK
      <3>2. PICK linked \in BOOLEAN :
              saver' = [saver EXCEPT !.creds = Renew(saver.creds, linked)]
        BY <1>1 DEF CredsUpdate, Savers, Creds, TypeOK
      <3> QED
        BY <3>1, <3>2 DEF Savers, TypeOK
    <2>a. saver.creds.v \in Nat
      BY DEF Savers, Creds, TypeOK
    <2>b. high' = saver.creds.v + 1 /\ pending' = pending + 1 /\ events' = events + 1
      BY <1>1 DEF CredsUpdate, Event
    <2>2. high' \in Nat /\ pending' \in Nat /\ events' \in Nat
      BY <2>a, <2>b DEF TypeOK
    <2>3. raced' \in Lateness
      BY <1>1 DEF CredsUpdate, TypeOK, Lateness
    <2> QED
      BY <1>1, <2>1, <2>2, <2>3 DEF CredsUpdate, TypeOK, socketVars, queueVars
  <1>2. ASSUME NEW saved \in BOOLEAN, SaveSettles(saved) PROVE TypeOK'
    <2>1. failure' \in BOOLEAN
      BY <1>2 DEF SaveSettles
    <2>2. deferred' \in Seq(Nat)
      <3>1. \A n \in Nat : Countdown(n) \in Nat
        BY DEF Countdown
      <3>2. DOMAIN deferred = 1..Len(deferred) /\ \A i \in DOMAIN deferred : deferred[i] \in Nat
        BY DEF TypeOK
      <3>3. [i \in 1..Len(deferred) |-> Countdown(deferred[i])] \in Seq(Nat)
        BY <3>1, <3>2 DEF TypeOK
      <3> QED
        BY <1>2, <3>2, <3>3 DEF SaveSettles
    <2>3. orphans' \in Seq(Savers)
      <3>1. orphans \in Seq(Savers) /\ (orphans # <<>> => Tail(orphans) \in Seq(Savers))
        BY DEF TypeOK
      <3> QED
        BY <1>2, <3>1 DEF SaveSettles
    <2>4. disk' \in Creds
      <3>1. CASE UNCHANGED disk
        BY <3>1 DEF TypeOK
      <3>2. CASE orphans # <<>> /\ Write(Head(orphans))
        <4>1. Head(orphans) \in Savers
          BY <3>2 DEF TypeOK
        <4>2. Head(orphans).creds \in Creds
          BY <4>1 DEF Savers
        <4> QED
          BY <3>2, <4>2 DEF Write, TypeOK
      <3>3. CASE Write(saver)
        <4>1. saver.creds \in Creds
          BY DEF TypeOK, Savers
        <4> QED
          BY <3>3, <4>1 DEF Write, TypeOK
      <3> QED
        BY <1>2, <3>1, <3>2, <3>3 DEF SaveSettles
    <2>5. pending' \in Nat /\ wait' \in Nat /\ events' \in Nat
      BY <1>2 DEF SaveSettles, Countdown, Event, TypeOK
    <2> QED
      BY <1>2, <2>1, <2>2, <2>3, <2>4, <2>5 DEF SaveSettles, TypeOK, socketVars, queueVars
  <1>3. CASE QrShown
    <2>1. status' \in Statuses /\ events' \in Nat
      BY <1>3 DEF QrShown, Handler, Event, TypeOK, Statuses
    <2>2. RestT'
      BY <1>3, <2>1 DEF QrShown, TypeOK, RestT
    <2> QED
      BY <1>3, <2>2, TypeParts, TypePartsNext, KeptTypes DEF QrShown
  <1>4. CASE NewLogin
    <2>1. status' \in Statuses /\ events' \in Nat
      BY <1>4 DEF NewLogin, Handler, Event, TypeOK, Statuses
    <2>2. RestT'
      BY <1>4, <2>1 DEF NewLogin, TypeOK, RestT
    <2> QED
      BY <1>4, <2>2, TypeParts, TypePartsNext, KeptTypes DEF NewLogin
  <1>5. CASE Open
    <2>1. status' \in Statuses /\ events' \in Nat /\ fails' \in Nat
      BY <1>5 DEF Open, Handler, Event, TypeOK, Statuses
    <2>2. RestT'
      BY <1>5, <2>1 DEF Open, TypeOK, RestT
    <2>3. ready' \in BOOLEAN
      BY <1>5 DEF Open
    <2>4. SocketT'
      BY <1>5, <2>3 DEF Open, TypeOK, SocketT
    <2> QED
      BY <1>5, <2>2, <2>4, TypeParts, TypePartsNext, KeptTypes DEF Open
  <1> QED
    BY <1>1, <1>2, <1>3, <1>4, <1>5 DEF SaveDone, SaveFailed

LEMMA CloseType ==
  TypeOK /\ (CloseQrExpired \/ CloseTransient \/ CloseRestart \/ CloseAuthInvalid \/ StaleClose)
    => TypeOK'
  <1> SUFFICES ASSUME TypeOK,
                      CloseQrExpired \/ CloseTransient \/ CloseRestart \/ CloseAuthInvalid
                        \/ StaleClose
               PROVE  TypeOK'
    OBVIOUS
  <1>1. CASE CloseQrExpired
    <2>1. Closing("qr_expired") /\ "qr_expired" \in Statuses
      BY <1>1 DEF CloseQrExpired, Statuses
    <2> QED
      BY <1>1, <2>1, ClosingType DEF CloseQrExpired, TypeOK
  <1>2. CASE CloseTransient
    <2>1. Closing("disconnected") /\ "disconnected" \in Statuses
      BY <1>2 DEF CloseTransient, Statuses
    <2>2. timer' \in Timers
      BY <1>2 DEF CloseTransient, Timers, TypeOK
    <2> QED
      BY <1>2, <2>1, <2>2, ClosingType DEF CloseTransient, TypeOK
  <1>3. CASE CloseRestart
    <2>1. Closing("pairing_restart") /\ "pairing_restart" \in Statuses
      BY <1>3 DEF CloseRestart, Statuses
    <2>2. timer' \in Timers
      BY <1>3 DEF CloseRestart, Timers, TypeOK
    <2> QED
      BY <1>3, <2>1, <2>2, ClosingType DEF CloseRestart, TypeOK
  <1>4. CASE CloseAuthInvalid
    <2>1. fails' \in Nat
      BY <1>4 DEF CloseAuthInvalid, TypeOK
    <2>2. timer' \in Timers
      BY <1>4 DEF CloseAuthInvalid, TypeOK
    <2>3. rejected' \in BOOLEAN
      BY <1>4 DEF CloseAuthInvalid
    <2>4. queue' \in Seq(Trs)
      <3>1. CASE Enqueue("reset", session, FALSE)
        BY <3>1, EnqueueType DEF Kinds, TypeOK
      <3>2. CASE UNCHANGED queue
        BY <3>2 DEF TypeOK
      <3> QED
        BY <1>4, <3>1, <3>2 DEF CloseAuthInvalid
    <2>5. PICK newStatus \in Statuses : Closing(newStatus)
      <3>1. "session_invalid" \in Statuses /\ "error" \in Statuses
        BY DEF Statuses
      <3> QED
        BY <1>4, <3>1 DEF CloseAuthInvalid
    <2> QED
      BY <2>1, <2>2, <2>3, <2>4, <2>5, ClosingType DEF TypeOK
  <1>5. CASE StaleClose
    <2>1. wire' \in SUBSET Nat
      BY <1>5 DEF StaleClose, TypeOK
    <2>2. SocketT'
      BY <1>5, <2>1 DEF StaleClose, TypeOK, SocketT
    <2>3. RestT'
      BY <1>5 DEF StaleClose, Event, TypeOK, RestT
    <2> QED
      BY <1>5, <2>2, <2>3, TypeParts, TypePartsNext, KeptTypes DEF StaleClose
  <1> QED
    BY <1>1, <1>2, <1>3, <1>4, <1>5

LEMMA TimerType == TypeOK /\ (TimerFires \/ DeferredStart \/ CooldownOver) => TypeOK'
  <1> SUFFICES ASSUME TypeOK, TimerFires \/ DeferredStart \/ CooldownOver PROVE TypeOK'
    OBVIOUS
  <1>1. RequestStart => queue' \in Seq(Trs)
    <2>1. Enqueue("start", 0, FALSE) => queue' \in Seq(Trs)
      BY EnqueueType DEF Kinds
    <2> QED
      BY <2>1 DEF RequestStart, TypeOK
  <1>2. CASE TimerFires
    <2>1. queue' \in Seq(Trs)
      BY <1>1, <1>2 DEF TimerFires, TypeOK
    <2>2. deferred' \in Seq(Nat)
      BY <1>2 DEF TimerFires, TypeOK
    <2>3. SocketT'
      BY <1>2, ConstantTypes DEF TimerFires, TypeOK, SocketT
    <2>4. QueueT'
      BY <1>2, <2>1 DEF TimerFires, TypeOK, QueueT
    <2>5. RestT'
      BY <1>2, <2>2 DEF TimerFires, TypeOK, RestT
    <2> QED
      BY <1>2, <2>3, <2>4, <2>5, TypeParts, TypePartsNext, KeptTypes DEF TimerFires
  <1>3. CASE DeferredStart
    <2>1. queue' \in Seq(Trs)
      BY <1>1, <1>3 DEF DeferredStart
    <2>2. deferred' \in Seq(Nat)
      BY <1>3 DEF DeferredStart, TypeOK
    <2>3. QueueT'
      BY <1>3, <2>1 DEF DeferredStart, TypeOK, QueueT
    <2>4. RestT'
      BY <1>3, <2>2 DEF DeferredStart, TypeOK, RestT
    <2> QED
      BY <1>3, <2>3, <2>4, TypeParts, TypePartsNext, KeptTypes DEF DeferredStart
  <1>4. CASE CooldownOver
    <2>1. RestT'
      BY <1>4 DEF CooldownOver, TypeOK, RestT
    <2> QED
      BY <1>4, <2>1, TypeParts, TypePartsNext, KeptTypes DEF CooldownOver
  <1> QED
    BY <1>2, <1>3, <1>4

LEMMA RequestType ==
  TypeOK /\ (RequestRestart \/ RequestReset \/ RequestLogout \/ RequestPairCode) => TypeOK'
  <1> SUFFICES ASSUME TypeOK, NEW kind \in Kinds, NEW arg \in Nat, Request(kind, arg, TRUE),
                      lease' \in {"free", "held", "cooling"}
               PROVE  TypeOK'
    BY DEF TypeOK, RequestRestart, RequestReset, RequestLogout, RequestPairCode, Kinds
  <1>1. queue' \in Seq(Trs)
    BY EnqueueType DEF Request
  <1>2. QueueT'
    BY <1>1 DEF Request, TypeOK, QueueT
  <1>3. RestT'
    BY DEF Request, Event, TypeOK, RestT
  <1> QED
    BY <1>2, <1>3, TypeParts, TypePartsNext, KeptTypes DEF Request

LEMMA ProcessType ==
  TypeOK /\ (Shutdown \/ FinalSave \/ ShutdownEnds \/ Respawn) => TypeOK'
  <1> SUFFICES ASSUME TypeOK, Shutdown \/ FinalSave \/ ShutdownEnds \/ Respawn PROVE TypeOK'
    OBVIOUS
  <1>1. CASE Shutdown
    <2>1. RestT'
      BY <1>1 DEF Shutdown, BeginShutdown, Event, TypeOK, RestT, Statuses
    <2>2. SocketT'
      BY <1>1, ConstantTypes DEF Shutdown, BeginShutdown, TypeOK, SocketT
    <2> QED
      BY <1>1, <2>1, <2>2, TypeParts, TypePartsNext, KeptTypes DEF Shutdown
  <1>2. CASE FinalSave
    <2>1. RestT'
      BY <1>2 DEF FinalSave, TypeOK, RestT
    <2>2. CredsT'
      BY <1>2 DEF FinalSave, TypeOK, CredsT
    <2> QED
      BY <1>2, <2>1, <2>2, TypeParts, TypePartsNext, KeptTypes DEF FinalSave
  <1>3. CASE ShutdownEnds
    <2>1. RestT'
      BY <1>3 DEF ShutdownEnds, TypeOK, RestT
    <2>2. wire' \in SUBSET Nat
      BY <1>3 DEF ShutdownEnds, TypeOK
    <2>3. SocketT'
      <3>1. gen' \in Nat
        BY <1>3 DEF ShutdownEnds, TypeOK
      <3> QED
        BY <1>3, <2>2, <3>1, ConstantTypes DEF ShutdownEnds, TypeOK, SocketT
    <2> QED
      BY <1>3, <2>1, <2>3, TypeParts, TypePartsNext, KeptTypes DEF ShutdownEnds
  <1>4. CASE Respawn
    <2>1. <<BootTr>> \in Seq(Trs) /\ <<>> \in Seq(Nat) /\ <<>> \in Seq(Savers)
      BY ConstantTypes
    <2>2. SocketT' /\ QueueT'
      BY <1>4, <2>1, ConstantTypes DEF Respawn, Boot, SocketT, QueueT, Pcs
    <2>3. CredsT'
      BY <1>4, <2>1, ConstantTypes DEF Respawn, Boot, CredsT
    <2>4. RestT'
      BY <1>4, <2>1 DEF Respawn, Boot, Event, TypeOK, RestT, Statuses
    <2>5. SessionT'
      BY <1>4 DEF Respawn, TypeOK, SessionT, Creds, Lateness
    <2> QED
      BY <2>2, <2>3, <2>4, <2>5, TypePartsNext
  <1> QED
    BY <1>1, <1>2, <1>3, <1>4

LEMMA NextType == TypeOK /\ [Next]_vars => TypeOK'
  <1> SUFFICES ASSUME TypeOK, [Next]_vars PROVE TypeOK'
    OBVIOUS
  <1>1. CASE UNCHANGED vars
    BY <1>1 DEF vars, TypeOK, socketVars, queueVars, credsVars, sessionVars
  <1> QED
    BY <1>1, TransitionType, EventType, CloseType, TimerType, RequestType, ProcessType DEF Next

\* Every variable of the gateway keeps its range, whatever requests, socket
\* events, failures and crashes come, in any number.
THEOREM TypeCorrect == Spec => []TypeOK
  BY InitType, NextType, PTL DEF Spec
-----------------------------------------------------------------------------
(* OneTransport is not inductive by itself: Load opens a transport without *)
(* closing one, so it needs to know that HandOver closed the last one.     *)
LoadAfterHandOver == pc = "load" => sock = NoSock /\ gen # 0

TransportInv == OneTransport /\ LoadAfterHandOver

\* A step that leaves the socket alone and does not begin to load.
LEMMA TransportKept ==
  ASSUME TransportInv, UNCHANGED <<sock, wire, gen>>,
         phase' = "closed" => phase = "closed", pc' = "load" => pc = "load"
  PROVE  TransportInv'
  BY DEF TransportInv, OneTransport, LoadAfterHandOver

\* A step that retires the socket.
LEMMA TransportRetired ==
  ASSUME TransportInv, sock' = NoSock, wire' = wire \ {sock.gen},
         pc' = "load" => gen' # 0
  PROVE  TransportInv'
  BY DEF TransportInv, OneTransport, LoadAfterHandOver

\* A step in which a transport ends and its socket stays.
LEMMA TransportEnds ==
  ASSUME TransportInv, UNCHANGED <<sock, gen, pc, phase>>, wire' = wire \ {sock.gen}
  PROVE  TransportInv'
  BY DEF TransportInv, OneTransport, LoadAfterHandOver

LEMMA TransportInit == Init => TransportInv
  BY DEF Init, TransportInv, OneTransport, LoadAfterHandOver

LEMMA StartIsNoLoad ==
  ASSUME NEW tr, BeginStart(tr)
  PROVE  pc' # "load"
  BY DEF BeginStart, Finish

LEMMA ResetRetires ==
  ASSUME TransportInv, NEW tr, NEW manual, NEW base, BeginReset(tr, manual, base)
  PROVE  TransportInv'
  BY TransportRetired DEF BeginReset

LEMMA HandOverTransport ==
  ASSUME TypeOK, TransportInv, pc # "load", HandOver, UNCHANGED phase
  PROVE  TransportInv'
  <1>1. CASE Stopping
    BY <1>1, TransportKept DEF HandOver, Finish, socketVars
  <1>2. CASE ~Stopping
    BY <1>2, TransportRetired DEF HandOver, TypeOK
  <1> QED
    BY <1>1, <1>2

LEMMA TransitionTransport == TypeOK /\ TransportInv /\ Transition => TransportInv'
  <1> SUFFICES ASSUME TypeOK, TransportInv, Transition PROVE TransportInv'
    OBVIOUS
  <1>1. CASE RunStart
    BY <1>1, TransportKept, StartIsNoLoad DEF RunStart, socketVars
  <1>2. CASE RunRestart
    BY <1>2, TransportKept, StartIsNoLoad, ResetRetires DEF RunRestart, Finish, socketVars
  <1>3. CASE RunReset
    BY <1>3, TransportKept, ResetRetires DEF RunReset, Finish, socketVars
  <1>4. CASE RunLogout
    <2>1. CASE ready
      BY <1>4, <2>1 DEF RunLogout, TransportInv, OneTransport, LoadAfterHandOver
    <2> QED
      BY <1>4, <2>1, ResetRetires DEF RunLogout
  <1>5. CASE RunPair
    BY <1>5, TransportKept DEF RunPair, Finish, socketVars
  <1>6. CASE LogoutSettled
    BY <1>6, ResetRetires DEF LogoutSettled
  <1>7. CASE Activate
    BY <1>7, TransportKept, StartIsNoLoad DEF Activate, socketVars
  <1>8. CASE ActivateFailed
    BY <1>8, TransportKept DEF ActivateFailed, Fail, Finish, socketVars
  <1>9. CASE BarrierSettled
    <2>1. CASE HandOver
      BY <1>9, <2>1, HandOverTransport DEF BarrierSettled
    <2>2. CASE ~HandOver
      BY <1>9, <2>2, TransportKept DEF BarrierSettled, Fail, Finish, socketVars
    <2> QED
      BY <2>1, <2>2
  <1>10. CASE BarrierTimeout
    BY <1>10, TransportKept DEF BarrierTimeout, Fail, Finish, socketVars
  <1>11. CASE RetryEnds
    <2>1. CASE HandOver
      BY <1>11, <2>1, HandOverTransport DEF RetryEnds
    <2>2. CASE ~HandOver
      BY <1>11, <2>2, TransportKept DEF RetryEnds, Fail, Finish, socketVars
    <2> QED
      BY <2>1, <2>2
  <1>12. CASE Load
    <2>1. CASE Stopping
      BY <1>12, <2>1, TransportKept DEF Load, Finish
    <2>2. CASE ~Stopping
      <3>1. sock = NoSock /\ gen # 0 /\ wire = {}
        BY <1>12 DEF Load, TransportInv, OneTransport, LoadAfterHandOver, NoSock
      <3>2. sock'.gen = gen /\ wire' = {gen} /\ pc' = "idle" /\ phase' = phase /\ phase = "run"
        BY <1>12, <2>2, <3>1 DEF Load, Finish, Stopping
      <3> QED
        BY <3>1, <3>2 DEF TransportInv, OneTransport, LoadAfterHandOver
    <2> QED
      BY <2>1, <2>2
  <1>13. CASE LoadFailed
    BY <1>13, TransportKept DEF LoadFailed, BeginShutdown, Fail, Finish
  <1>14. CASE PairSettled
    BY <1>14, TransportKept DEF PairSettled, Finish, socketVars
  <1> QED
    BY <1>1, <1>2, <1>3, <1>4, <1>5, <1>6, <1>7, <1>8, <1>9, <1>10, <1>11, <1>12, <1>13,
       <1>14 DEF Transition

LEMMA NextTransport == TypeOK /\ TransportInv /\ [Next]_vars => TransportInv'
  <1> SUFFICES ASSUME TypeOK, TransportInv, [Next]_vars PROVE TransportInv'
    OBVIOUS
  <1>1. CASE UNCHANGED vars
    BY <1>1, TransportKept DEF vars, socketVars, queueVars
  <1>2. CASE TimerFires \/ DeferredStart \/ SaveDone \/ SaveFailed \/ CooldownOver
    BY <1>2, TransportKept
    DEF TimerFires, DeferredStart, SaveDone, SaveFailed, SaveSettles, CooldownOver,
        socketVars, queueVars
  <1>3. CASE CredsUpdate \/ QrShown \/ NewLogin \/ Open
    BY <1>3, TransportKept DEF CredsUpdate, QrShown, NewLogin, Open, socketVars, queueVars
  <1>4. CASE CloseQrExpired \/ CloseTransient \/ CloseRestart \/ CloseAuthInvalid
    BY <1>4, TransportEnds
    DEF CloseQrExpired, CloseTransient, CloseRestart, CloseAuthInvalid, Closing
  <1>5. CASE StaleClose
    BY <1>5, TransportEnds DEF StaleClose, queueVars
  <1>6. CASE RequestRestart \/ RequestReset \/ RequestLogout \/ RequestPairCode
    BY <1>6, TransportKept
    DEF RequestRestart, RequestReset, RequestLogout, RequestPairCode, Request, socketVars
  <1>7. CASE Shutdown \/ FinalSave
    BY <1>7, TransportKept DEF Shutdown, BeginShutdown, FinalSave, socketVars, queueVars
  <1>8. CASE ShutdownEnds
    BY <1>8, TransportRetired DEF ShutdownEnds, TypeOK
  <1>9. CASE Respawn
    BY <1>9 DEF Respawn, Boot, TransportInv, OneTransport, LoadAfterHandOver
  <1> QED
    BY <1>1, <1>2, <1>3, <1>4, <1>5, <1>6, <1>7, <1>8, <1>9, TransitionTransport DEF Next

\* Transports never overlap, and no step that was suspended when the shutdown
\* began opens one after it.
THEOREM TransportSafety == Spec => []OneTransport
  <1>1. Init => TypeOK /\ TransportInv
    BY InitType, TransportInit
  <1>2. TypeOK /\ TransportInv /\ [Next]_vars => (TypeOK /\ TransportInv)'
    BY NextType, NextTransport
  <1>3. TransportInv => OneTransport
    BY DEF TransportInv
  <1> QED
    BY <1>1, <1>2, <1>3, PTL DEF Spec
-----------------------------------------------------------------------------
(* What NewestCredentials rests on.  Once a start read the auth directory  *)
(* before a late save was done, storage may be behind for good; until then *)
(* a newer version is always on its way to creds.json, or its save failed. *)
Timely == raced # "yes"
NewestOrphan == orphans[Len(orphans)]

\* There are credentials in memory that are in use, or still to be written.
Owed == saver.on \/ pending > 0 \/ sock # NoSock

NoSocketYet == pc \in {"load", "activate"} => sock = NoSock

\* Saves run in the order of their sessions.
SessionsGrow ==
  /\ saver.session <= session
  /\ \A i \in 1 .. Len(orphans) :
       /\ orphans[i].session <= session
       /\ orphans[i].session <= NewestOrphan.session
       /\ Owed => orphans[i].session <= saver.session

\* What is in memory is the newest, unless its session was replaced.
InMemory ==
  /\ Timely /\ sock # NoSock => saver.session = session
  /\ Timely /\ Owed => IF saver.session = session THEN saver.creds.v = high ELSE disk.v = high

\* While creds.json is behind, the last save outstanding will write the newest.
OnItsWay ==
  /\ Timely /\ disk.v # high =>
       IF pending > 0 THEN saver.session = session /\ saver.creds.v = high
       ELSE IF orphans # <<>>
            THEN NewestOrphan.session = session /\ NewestOrphan.creds.v = high
            ELSE failure
  /\ Timely /\ pending = 0 /\ orphans # <<>> /\ NewestOrphan.session = session
       => NewestOrphan.creds.v = high

\* While the process runs and no update slipped into a barrier, a start that
\* gets past the barrier finds neither an outstanding save nor a failed one.
Durable ==
  ~Stopping /\ raced = "no" =>
    /\ orphans = <<>>
    /\ pc = "barrier" => wait = pending
    /\ pc = "retry" => pending = 0 \/ (pending = 1 /\ failure)
    /\ ~saver.on => disk.v = high

\* The socket and its save function come and go together.
SaverOfSocket ==
  ~Stopping =>
    /\ sock # NoSock => saver.on
    /\ pc = "load" => ~saver.on
    /\ ~saver.on => pending = 0

CredsInv ==
  NoSocketYet /\ SessionsGrow /\ InMemory /\ OnItsWay /\ Durable /\ SaverOfSocket

LEMMA CredsInit == Init => CredsInv
  BY DEF Init, CredsInv, NoSocketYet, SessionsGrow, InMemory, OnItsWay, Durable,
         SaverOfSocket, Owed, NoSaver

\* A step that leaves credentials and storage alone, and at most drops the socket.
LEMMA CredsKept ==
  ASSUME CredsInv, UNCHANGED <<credsVars, session, disk, high, raced>>,
         sock' = sock \/ sock' = NoSock,
         phase' = "run" => phase = "run",
         pc' \in {"barrier", "retry", "load"} => pc' = pc,
         pc' = "activate" => pc' = pc \/ sock' = NoSock
  PROVE  CredsInv'
  <1> USE DEF CredsInv, credsVars
  <1>1. NoSocketYet'
    BY DEF NoSocketYet
  <1>2. Owed' => Owed
    BY DEF Owed
  <1>3. SessionsGrow'
    BY <1>2 DEF SessionsGrow, NewestOrphan
  <1>4. InMemory'
    BY <1>2 DEF InMemory, Timely
  <1>5. OnItsWay'
    BY DEF OnItsWay, Timely, NewestOrphan
  <1>6. Durable' /\ SaverOfSocket'
    BY DEF Durable, SaverOfSocket, Stopping
  <1> QED
    BY <1>1, <1>3, <1>4, <1>5, <1>6

\* Starting: the barrier waits for every save that is outstanding.
LEMMA CredsStart ==
  ASSUME CredsInv, NEW tr, BeginStart(tr),
         UNCHANGED <<sock, phase, saver, pending, failure, orphans, session, disk, high, raced>>
  PROVE  CredsInv'
  <1> USE DEF CredsInv
  <1>1. /\ pc' \in {"idle", "barrier"} /\ (pc' = "barrier" => wait' = pending')
    BY DEF BeginStart, Finish
  <1>2. NoSocketYet' /\ Durable' /\ SaverOfSocket'
    BY <1>1 DEF NoSocketYet, Durable, SaverOfSocket, Stopping
  <1>3. SessionsGrow' /\ InMemory' /\ OnItsWay'
    BY DEF SessionsGrow, InMemory, OnItsWay, Timely, NewestOrphan, Owed
  <1> QED
    BY <1>2, <1>3

LEMMA CredsReset ==
  ASSUME CredsInv, NEW tr, NEW manual, NEW base, BeginReset(tr, manual, base),
         UNCHANGED <<phase, credsVars, sessionVars>>
  PROVE  CredsInv'
  BY CredsKept DEF BeginReset, sessionVars

\* What a start hands over: its outstanding saves go to the end of the older ones.
LEMMA OrphansGrow ==
  ASSUME TypeOK, orphans' = orphans \o [i \in 1..pending |-> saver]
  PROVE  /\ pending = 0 => orphans' = orphans
         /\ pending > 0 => orphans' # <<>> /\ NewestOrphan' = saver
         /\ \A i \in 1 .. Len(orphans') :
              \/ orphans'[i] = saver /\ pending > 0
              \/ i \in 1 .. Len(orphans) /\ orphans'[i] = orphans[i]
  <1> DEFINE more == [i \in 1..pending |-> saver]
  <1>1. more \in Seq(Savers) /\ Len(more) = pending /\ orphans \in Seq(Savers)
        /\ \A i \in 1..pending : more[i] = saver
    BY DEF TypeOK
  <1> HIDE DEF more
  <1>2. pending \in Nat /\ Len(orphans) \in Nat /\ orphans' = orphans \o more
    BY <1>1 DEF TypeOK, more
  <1>3. Len(orphans') = Len(orphans) + pending
    BY <1>1, <1>2
  <1>4. \A i \in 1 .. Len(orphans') :
          orphans'[i] = IF i <= Len(orphans) THEN orphans[i] ELSE more[i - Len(orphans)]
    BY <1>1, <1>2, <1>3
  <1>5. pending = 0 => orphans' = orphans
    <2> SUFFICES ASSUME pending = 0 PROVE orphans \o more = orphans
      BY <1>2
    <2>1. more = <<>>
      BY <1>1
    <2> QED
      BY <1>1, <2>1
  <1>6. \A i \in 1 .. Len(orphans') :
          \/ orphans'[i] = saver /\ pending > 0
          \/ i \in 1 .. Len(orphans) /\ orphans'[i] = orphans[i]
    BY <1>1, <1>2, <1>3, <1>4
  <1>7. pending > 0 => orphans' # <<>> /\ orphans'[Len(orphans')] = saver
    BY <1>1, <1>2, <1>3, <1>4
  <1> QED
    BY <1>5, <1>6, <1>7 DEF NewestOrphan

\* Handing over: nothing failed, and what is outstanding is the newest or on disk.
LEMMA CredsHandOver ==
  ASSUME TypeOK, CredsInv, HandOver, ~failure,
         (pc = "barrier" /\ wait = 0) \/ pc = "retry",
         UNCHANGED <<phase, sessionVars>>
  PROVE  CredsInv'
  <1> USE DEF CredsInv
  <1>1. /\ pending' = 0 /\ wait' = 0 /\ failure' = FALSE
        /\ orphans' = orphans \o [i \in 1..pending |-> saver]
        /\ UNCHANGED <<session, disk, high, raced, phase>>
    BY DEF HandOver, sessionVars
  <1>2. /\ pc' = "idle" \/ (pc' = "load" /\ sock' = NoSock)
        /\ ~saver'.on /\ saver'.session <= session
        /\ Owed' => /\ Owed /\ sock' = sock /\ sock # NoSock
                    /\ saver'.session = saver.session /\ saver'.creds = saver.creds
        /\ ~Stopping => pc' = "load" /\ sock' = NoSock
    <2>1. CASE Stopping
      <3>1. /\ pc' = "idle" /\ sock' = sock /\ ~saver'.on
            /\ saver'.session = saver.session /\ saver'.creds = saver.creds
        BY <2>1 DEF HandOver, Finish, socketVars, TypeOK, Savers
      <3> QED
        BY <1>1, <2>1, <3>1 DEF Owed, SessionsGrow
    <2>2. CASE ~Stopping
      <3>1. pc' = "load" /\ sock' = NoSock /\ ~saver'.on /\ saver'.session = 0
        BY <2>2 DEF HandOver, NoSaver
      <3> QED
        BY <1>1, <2>2, <3>1 DEF Owed, TypeOK
    <2> QED
      BY <2>1, <2>2
  <1>3. /\ pending \in Nat
        /\ pending = 0 => orphans' = orphans /\ NewestOrphan' = NewestOrphan
        /\ pending > 0 => Owed /\ orphans' # <<>> /\ NewestOrphan' = saver
    BY <1>1, OrphansGrow DEF NewestOrphan, Owed, TypeOK
  <1>4. NoSocketYet'
    BY <1>2 DEF NoSocketYet
  <1>5. SessionsGrow'
    <2> SUFFICES ASSUME NEW i \in 1 .. Len(orphans')
                 PROVE  /\ orphans'[i].session <= session
                        /\ orphans'[i].session <= NewestOrphan'.session
                        /\ Owed' => orphans'[i].session <= saver'.session
      BY <1>1, <1>2 DEF SessionsGrow
    <2>1. CASE orphans'[i] = saver /\ pending > 0
      BY <1>2, <1>3, <2>1 DEF SessionsGrow, TypeOK, Savers
    <2>2. CASE i \in 1 .. Len(orphans) /\ orphans'[i] = orphans[i]
      BY <1>2, <1>3, <2>2 DEF SessionsGrow
    <2>3. \/ orphans'[i] = saver /\ pending > 0
          \/ i \in 1 .. Len(orphans) /\ orphans'[i] = orphans[i]
      BY <1>1, OrphansGrow
    <2> QED
      BY <2>1, <2>2, <2>3
  <1>6. InMemory'
    BY <1>1, <1>2 DEF InMemory, Timely, Owed
  <1>7. OnItsWay'
    BY <1>1, <1>3 DEF OnItsWay, InMemory, Timely
  <1>8. Durable'
    <2> SUFFICES ASSUME ~Stopping, raced = "no" PROVE orphans' = <<>> /\ disk.v = high
      BY <1>1, <1>2 DEF Durable, Stopping
    <2>1. orphans = <<>> /\ pending = 0
      BY <1>3 DEF Durable
    <2> QED
      BY <1>3, <2>1 DEF OnItsWay, Timely
  <1>9. SaverOfSocket'
    BY <1>1, <1>2 DEF SaverOfSocket, Stopping
  <1> QED
    BY <1>4, <1>5, <1>6, <1>7, <1>8, <1>9

LEMMA CredsFail ==
  ASSUME CredsInv, Fail, UNCHANGED <<sock, phase, saver, pending, failure, orphans, sessionVars>>
  PROVE  CredsInv'
  <1> USE DEF CredsInv, sessionVars
  <1>1. pc' = "idle"
    BY DEF Fail, Finish
  <1>2. NoSocketYet' /\ Durable' /\ SaverOfSocket'
    BY <1>1 DEF NoSocketYet, Durable, SaverOfSocket, Stopping
  <1>3. SessionsGrow' /\ InMemory' /\ OnItsWay'
    BY DEF SessionsGrow, InMemory, OnItsWay, Timely, NewestOrphan, Owed
  <1> QED
    BY <1>2, <1>3

\* The new session's pointer: storage is fresh, and older saves no longer touch it.
LEMMA CredsActivate == TypeOK /\ CredsInv /\ Activate => CredsInv'
  <1> SUFFICES ASSUME TypeOK, CredsInv, Activate PROVE CredsInv'
    OBVIOUS
  <1> USE DEF CredsInv
  <1>1. /\ sock = NoSock /\ sock' = NoSock /\ session' = session + 1
        /\ disk'.v = 0 /\ high' = 0 /\ (raced' = "no" => raced = "no")
        /\ pc' \in {"idle", "barrier"} /\ (pc' = "barrier" => wait' = pending)
        /\ UNCHANGED <<saver, pending, orphans, phase, failure>>
    BY DEF Activate, NoSocketYet, socketVars, Fresh, BeginStart, Finish
  <1>2. session \in Nat /\ saver.session \in Nat /\ saver.session <= session
        /\ \A i \in 1 .. Len(orphans) : orphans[i].session \in Nat
    <2>1. saver \in Savers /\ \A i \in 1 .. Len(orphans) : orphans[i] \in Savers
      BY DEF TypeOK
    <2> QED
      BY <2>1 DEF TypeOK, Savers, SessionsGrow
  <1>3. NoSocketYet' /\ Durable' /\ SaverOfSocket'
    BY <1>1 DEF NoSocketYet, Durable, SaverOfSocket, Stopping
  <1>4. SessionsGrow'
    BY <1>1, <1>2 DEF SessionsGrow, NewestOrphan, Owed
  <1>5. InMemory'
    BY <1>1, <1>2 DEF InMemory
  <1>6. orphans # <<>> => NewestOrphan.session \in Nat /\ NewestOrphan.session <= session
    <2> SUFFICES ASSUME orphans # <<>> PROVE Len(orphans) \in 1 .. Len(orphans)
      BY <1>2 DEF SessionsGrow, NewestOrphan
    <2> QED
      BY DEF TypeOK
  <1>7. OnItsWay'
    BY <1>1, <1>2, <1>6 DEF OnItsWay, NewestOrphan
  <1> QED
    BY <1>3, <1>4, <1>5, <1>7

\* One more save is chained: the retry of a failed one, or the final flush.
LEMMA CredsChained ==
  ASSUME TypeOK, CredsInv, saver.on, pending' = pending + 1,
         UNCHANGED <<sock, saver, failure, orphans, session, disk, high, raced>>,
         pc' = pc \/ pc' = "retry",
         ~Stopping' => ~Stopping /\ pc = "barrier" /\ pc' = "retry" /\ wait = 0 /\ failure
  PROVE  CredsInv'
  <1> USE DEF CredsInv
  <1>1. Owed /\ pending \in Nat
    BY DEF Owed, TypeOK
  <1>2. NoSocketYet'
    BY DEF NoSocketYet
  <1>3. SessionsGrow' /\ InMemory'
    BY <1>1 DEF SessionsGrow, InMemory, Timely, NewestOrphan
  <1>4. orphans # <<>> => NewestOrphan.session <= saver.session
    <2> SUFFICES ASSUME orphans # <<>> PROVE Len(orphans) \in 1 .. Len(orphans)
      BY <1>1 DEF SessionsGrow, NewestOrphan
    <2> QED
      BY DEF TypeOK
  <1>5. Timely /\ disk.v # high => saver.session = session /\ saver.creds.v = high
    BY <1>1 DEF InMemory
  <1>6. OnItsWay'
    BY <1>1, <1>5 DEF OnItsWay, Timely
  <1>7. Durable' /\ SaverOfSocket'
    BY <1>1 DEF Durable, SaverOfSocket
  <1> QED
    BY <1>2, <1>3, <1>6, <1>7

\* Reading the auth directory: the newest is there, or the exception begins.
LEMMA CredsLoad == TypeOK /\ CredsInv /\ Load => CredsInv'
  <1> SUFFICES ASSUME TypeOK, CredsInv, Load PROVE CredsInv'
    OBVIOUS
  <1>1. CASE Stopping
    BY <1>1, CredsKept DEF Load, Finish, credsVars, Stopping
  <1>2. CASE ~Stopping
    <2> USE DEF CredsInv
    <2>1. /\ ~saver.on /\ pending = 0 /\ pending' = 0 /\ sock = NoSock
          /\ pc' = "idle" /\ saver' = Saver(session, disk) /\ ReadAuth
          /\ UNCHANGED <<phase, failure, orphans, session, disk, high>>
      BY <1>2 DEF Load, Finish, SaverOfSocket, NoSocketYet
    <2>2. saver'.on /\ saver'.session = session /\ saver'.creds = disk /\ session \in Nat
      BY <2>1 DEF Saver, TypeOK
    <2>3. orphans # <<>> => Len(orphans) \in DOMAIN orphans
      BY DEF TypeOK
    <2>4. Timely' => Timely /\ disk.v = high
      <3> SUFFICES ASSUME Timely' PROVE Timely /\ disk.v = high
        OBVIOUS
      <3>1. CASE raced = "no"
        BY <1>2, <2>1, <3>1 DEF Durable, Timely
      <3>2. CASE raced = "late"
        BY <2>1, <2>3, <3>2 DEF ReadAuth, Unsettled, Timely, OnItsWay, NewestOrphan
      <3>3. CASE raced = "yes"
        BY <2>1, <3>3 DEF ReadAuth, Timely
      <3> QED
        BY <3>1, <3>2, <3>3 DEF TypeOK, Lateness
    <2>5. raced' = "no" => orphans = <<>>
      BY <1>2, <2>1 DEF ReadAuth, Durable
    <2>6. NoSocketYet' /\ SaverOfSocket'
      BY <2>1, <2>2 DEF NoSocketYet, SaverOfSocket
    <2>7. SessionsGrow'
      BY <2>1, <2>2 DEF SessionsGrow, NewestOrphan
    <2>8. InMemory'
      BY <2>1, <2>2, <2>4 DEF InMemory
    <2>9. OnItsWay'
      BY <2>1, <2>4 DEF OnItsWay, NewestOrphan
    <2>10. Durable'
      BY <2>1, <2>2, <2>5 DEF Durable
    <2> QED
      BY <2>6, <2>7, <2>8, <2>9, <2>10
  <1> QED
    BY <1>1, <1>2

LEMMA TransitionCreds == TypeOK /\ CredsInv /\ Transition => CredsInv'
  <1> SUFFICES ASSUME TypeOK, CredsInv, Transition PROVE CredsInv'
    OBVIOUS
  <1>1. CASE RunStart
    BY <1>1, CredsStart DEF RunStart, socketVars, sessionVars
  <1>2. CASE RunRestart
    <2>1. CASE Finish /\ UNCHANGED <<socketVars, status, fails, wait>>
      BY <1>2, <2>1, CredsKept DEF RunRestart, Finish, socketVars, credsVars, sessionVars
    <2>2. CASE BeginReset(Head(queue), TRUE, gen) /\ UNCHANGED wait
      BY <1>2, <2>2, CredsReset DEF RunRestart, credsVars
    <2>3. CASE BeginStart(Head(queue)) /\ UNCHANGED <<socketVars, status, fails>>
      BY <1>2, <2>3, CredsStart DEF RunRestart, socketVars, sessionVars
    <2> QED
      BY <1>2, <2>1, <2>2, <2>3 DEF RunRestart
  <1>3. CASE RunReset
    BY <1>3, CredsKept, CredsReset DEF RunReset, Finish, socketVars, sessionVars
  <1>4. CASE RunLogout
    BY <1>4, CredsKept, CredsReset DEF RunLogout, sessionVars
  <1>5. CASE RunPair
    BY <1>5, CredsKept DEF RunPair, Finish, socketVars, sessionVars
  <1>6. CASE LogoutSettled
    BY <1>6, CredsReset DEF LogoutSettled
  <1>7. CASE Activate
    BY <1>7, CredsActivate
  <1>8. CASE ActivateFailed
    BY <1>8, CredsFail DEF ActivateFailed, socketVars, credsVars
  <1>9. CASE BarrierSettled
    <2>1. CASE ~failure /\ HandOver
      BY <1>9, <2>1, CredsHandOver DEF BarrierSettled
    <2>2. CASE failure /\ ~saver.on
      BY <1>9, <2>2, CredsFail DEF BarrierSettled, socketVars
    <2>3. CASE failure /\ saver.on
      BY <1>9, <2>3, CredsChained DEF BarrierSettled, socketVars, sessionVars, Stopping
    <2> QED
      BY <1>9, <2>1, <2>2, <2>3 DEF BarrierSettled
  <1>10. CASE BarrierTimeout
    BY <1>10, CredsFail DEF BarrierTimeout, socketVars
  <1>11. CASE RetryEnds
    <2>1. CASE ~failure /\ HandOver
      BY <1>11, <2>1, CredsHandOver DEF RetryEnds
    <2>2. CASE failure
      BY <1>11, <2>2, CredsFail DEF RetryEnds, socketVars
    <2> QED
      BY <1>11, <2>1, <2>2 DEF RetryEnds
  <1>12. CASE Load
    BY <1>12, CredsLoad
  <1>13. CASE LoadFailed
    BY <1>13, CredsKept DEF LoadFailed, BeginShutdown, Fail, Finish, Stopping, sessionVars
  <1>14. CASE PairSettled
    BY <1>14, CredsKept DEF PairSettled, Finish, socketVars, sessionVars
  <1> QED
    BY <1>1, <1>2, <1>3, <1>4, <1>5, <1>6, <1>7, <1>8, <1>9, <1>10, <1>11, <1>12, <1>13,
       <1>14 DEF Transition

\* creds.update: a socket in memory is ahead of storage until its save is done.
LEMMA UpdateCreds == TypeOK /\ CredsInv /\ CredsUpdate => CredsInv'
  <1> SUFFICES ASSUME TypeOK, CredsInv, CredsUpdate PROVE CredsInv'
    OBVIOUS
  <1> USE DEF CredsInv
  <1>1. /\ sock # NoSock /\ sock' = sock /\ pc' = pc /\ phase' = phase /\ wait' = wait
        /\ orphans' = orphans /\ session' = session /\ disk' = disk /\ failure' = failure
        /\ pending' = pending + 1 /\ (Timely' => Timely)
        /\ raced' = "no" => raced = "no" /\ pc \notin {"barrier", "retry"}
    BY DEF CredsUpdate, Current, socketVars, queueVars, Timely
  <1>2. PICK linked : saver' = [saver EXCEPT !.creds = Renew(saver.creds, linked)]
    BY DEF CredsUpdate
  <1>3. saver'.on = saver.on /\ saver'.session = saver.session
        /\ saver'.creds.v = saver.creds.v + 1
    BY <1>2 DEF TypeOK, Savers, Renew
  <1>4. saver'.creds.v = high' /\ pending' > 0 /\ Owed
    BY <1>1, <1>3 DEF CredsUpdate, TypeOK, Owed
  <1>5. NoSocketYet' /\ Durable' /\ SaverOfSocket'
    BY <1>1, <1>3 DEF NoSocketYet, Durable, SaverOfSocket, Stopping
  <1>6. SessionsGrow'
    BY <1>1, <1>3, <1>4 DEF SessionsGrow, NewestOrphan
  <1>7. InMemory'
    BY <1>1, <1>3, <1>4 DEF InMemory
  <1>8. OnItsWay'
    BY <1>1, <1>3, <1>4, <1>7 DEF OnItsWay, InMemory
  <1> QED
    BY <1>5, <1>6, <1>7, <1>8

\* The end of a sequence that loses its first element.
LEMMA TailEnds ==
  ASSUME NEW S, NEW s \in Seq(S), s # <<>>
  PROVE  /\ Len(Tail(s)) # 0 => Tail(s) # <<>>
         /\ Tail(s) # <<>> => Tail(s)[Len(Tail(s))] = s[Len(s)]
         /\ Tail(s) = <<>> => s[Len(s)] = Head(s)
  <1>1. Len(s) \in Nat /\ Len(s) > 0 /\ Tail(s) \in Seq(S) /\ Len(Tail(s)) = Len(s) - 1
        /\ Head(s) = s[1]
    OBVIOUS
  <1>2. Tail(s) # <<>> => Len(Tail(s)) \in 1 .. Len(Tail(s))
    BY <1>1
  <1>3. \A i \in 1 .. Len(Tail(s)) : Tail(s)[i] = s[i + 1]
    BY <1>1
  <1>4. Tail(s) # <<>> => Tail(s)[Len(Tail(s))] = s[Len(s)]
    BY <1>1, <1>2, <1>3
  <1>a. Len(<<>>) = 0
    OBVIOUS
  <1>5. Tail(s) = <<>> => Len(Tail(s)) = 0
    BY <1>a, Zenon
  <1>6. Len(Tail(s)) # 0 => Tail(s) # <<>>
    BY <1>5
  <1> QED
    BY <1>1, <1>4, <1>5, <1>6

\* What the oldest outstanding save writes, when a replaced socket has one.
LEMMA OrphanSaves ==
  ASSUME TypeOK, CredsInv, NEW saved \in BOOLEAN, orphans # <<>>, orphans' = Tail(orphans),
         IF saved THEN Write(Head(orphans)) ELSE UNCHANGED disk,
         failure' = ~saved, UNCHANGED <<pending, wait, sock, pc, phase, saver, session, high, raced>>
  PROVE  CredsInv'
  <1> USE DEF CredsInv
  <1>1. /\ Len(orphans) \in Nat /\ Len(orphans) > 0 /\ Len(orphans') = Len(orphans) - 1
        /\ \A i \in 1 .. Len(orphans') : orphans'[i] = orphans[i + 1] /\ i + 1 \in 1 .. Len(orphans)
        /\ Head(orphans) = orphans[1] /\ orphans[1] \in Savers
    BY DEF TypeOK
  <1>2. /\ orphans' # <<>> => NewestOrphan' = NewestOrphan
        /\ orphans' = <<>> => NewestOrphan = Head(orphans)
    BY TailEnds DEF NewestOrphan, TypeOK
  <1>3. /\ Head(orphans).session <= session
        /\ Head(orphans).session <= NewestOrphan.session /\ NewestOrphan.session <= session
        /\ Owed => Head(orphans).session <= saver.session
        /\ saver.session <= session
        /\ session \in Nat /\ saver.session \in Nat /\ NewestOrphan.session \in Nat
        /\ Head(orphans).session \in Nat /\ pending \in Nat
    <2>1. 1 \in 1 .. Len(orphans) /\ Len(orphans) \in 1 .. Len(orphans)
      BY <1>1
    <2>2. saver \in Savers /\ NewestOrphan \in Savers /\ Head(orphans) \in Savers
      BY <1>1, <2>1 DEF TypeOK, NewestOrphan
    <2> QED
      BY <1>1, <2>1, <2>2 DEF SessionsGrow, TypeOK, Savers, NewestOrphan
  <1>4. NoSocketYet' /\ SaverOfSocket' /\ Durable'
    BY DEF NoSocketYet, SaverOfSocket, Durable, Stopping
  <1>5. SessionsGrow'
    <2>1. Owed' = Owed
      BY DEF Owed
    <2> SUFFICES ASSUME NEW i \in 1 .. Len(orphans')
                 PROVE  /\ orphans'[i].session <= session
                        /\ orphans'[i].session <= NewestOrphan'.session
                        /\ Owed => orphans'[i].session <= saver.session
      BY <2>1 DEF SessionsGrow
    <2>2. orphans'[i] = orphans[i + 1] /\ i + 1 \in 1 .. Len(orphans)
      BY <1>1
    <2>3. orphans' # <<>>
      BY <1>1, TailEnds DEF TypeOK
    <2> QED
      BY <1>2, <2>2, <2>3 DEF SessionsGrow
  <1>6. Owed' = Owed /\ Timely' = Timely
    BY DEF Owed, Timely
  <1>7. InMemory'
    BY <1>3, <1>6 DEF InMemory, Write
  <1>8. OnItsWay'
    <2> SUFFICES ASSUME Timely PROVE OnItsWay'
      BY <1>6 DEF OnItsWay
    <2>1. pending' = 0 /\ orphans' # <<>> /\ NewestOrphan'.session = session'
            => NewestOrphan'.creds.v = high'
      BY <1>2 DEF OnItsWay
    <2>2. CASE saved /\ Head(orphans).session = session
      <3>1. pending > 0 => saver.session = session /\ saver.creds.v = high
        BY <1>3, <2>2 DEF InMemory, Owed
      <3>2. pending = 0 => NewestOrphan.session = session /\ NewestOrphan.creds.v = high
        BY <1>3, <2>2 DEF OnItsWay
      <3>3. disk' = Head(orphans).creds
        BY <2>2 DEF Write
      <3> QED
        BY <1>2, <1>3, <2>1, <3>1, <3>2, <3>3 DEF OnItsWay
    <2>3. CASE ~(saved /\ Head(orphans).session = session)
      <3>1. disk' = disk
        BY <2>3 DEF Write
      <3> QED
        BY <1>2, <1>3, <2>1, <2>3, <3>1 DEF OnItsWay
    <2> QED
      BY <2>2, <2>3
  <1> QED
    BY <1>4, <1>5, <1>7, <1>8

\* A save settles: a successful one leaves creds.json with what the socket holds.
LEMMA SaveCreds ==
  ASSUME TypeOK, CredsInv, NEW saved \in BOOLEAN, SaveSettles(saved)
  PROVE  CredsInv'
  <1>1. /\ UNCHANGED <<sock, pc, phase, saver, session, high, raced>>
        /\ failure' = ~saved
    BY DEF SaveSettles, socketVars, queueVars
  <1>2. CASE orphans # <<>>
    BY <1>1, <1>2, OrphanSaves DEF SaveSettles
  <1>3. CASE orphans = <<>>
    <2> USE DEF CredsInv
    <2>1. /\ pending > 0 /\ pending' = pending - 1 /\ wait' = Countdown(wait)
          /\ IF saved THEN Write(saver) ELSE UNCHANGED disk
          /\ orphans' = <<>> /\ pending \in Nat
      BY <1>3 DEF SaveSettles, TypeOK
    <2>2. Owed /\ (Owed' => Owed) /\ Timely' = Timely
      BY <1>1, <2>1 DEF Owed, Timely
    <2>3. NoSocketYet' /\ SessionsGrow'
      BY <1>1, <2>1, <2>2 DEF NoSocketYet, SessionsGrow
    <2>4. InMemory'
      BY <1>1, <2>1, <2>2 DEF InMemory, Write
    <2>5. OnItsWay'
      BY <1>1, <1>3, <2>1, <2>2 DEF OnItsWay, InMemory, Write
    <2>6. SaverOfSocket'
      BY <1>1, <2>1 DEF SaverOfSocket, Stopping
    <2>7. Durable'
      BY <1>1, <2>1 DEF Durable, SaverOfSocket, Stopping, Countdown, TypeOK
    <2> QED
      BY <2>3, <2>4, <2>5, <2>6, <2>7
  <1> QED
    BY <1>2, <1>3

\* A process that had saved everything left the newest credentials on disk.
LEMMA SavedIsOnDisk == CredsInv /\ Saved => disk.v = high
  BY DEF CredsInv, Saved, OnItsWay, Timely

LEMMA CrashCreds == TypeOK /\ CredsInv /\ Respawn => CredsInv'
  <1> SUFFICES ASSUME TypeOK, CredsInv, Respawn PROVE CredsInv'
    OBVIOUS
  <1>1. disk' = disk /\ disk.v = high' /\ session' = session /\ session \in Nat
    BY SavedIsOnDisk DEF Respawn, TypeOK
  <1> QED
    BY <1>1
    DEF Respawn, Boot, NoSaver, CredsInv, NoSocketYet, SessionsGrow, InMemory, OnItsWay,
        Durable, SaverOfSocket, Owed

LEMMA NextCreds == TypeOK /\ CredsInv /\ [Next]_vars => CredsInv'
  <1> SUFFICES ASSUME TypeOK, CredsInv, [Next]_vars PROVE CredsInv'
    OBVIOUS
  <1>1. CASE UNCHANGED vars
    BY <1>1, CredsKept DEF vars, socketVars, queueVars, sessionVars
  <1>2. CASE TimerFires \/ DeferredStart \/ CooldownOver
    BY <1>2, CredsKept
    DEF TimerFires, DeferredStart, CooldownOver, socketVars, queueVars, sessionVars
  <1>3. CASE SaveDone \/ SaveFailed
    BY <1>3, SaveCreds DEF SaveDone, SaveFailed
  <1>4. CASE QrShown \/ NewLogin \/ Open
    BY <1>4, CredsKept DEF QrShown, NewLogin, Open, socketVars, queueVars, sessionVars
  <1>5. CASE CloseQrExpired \/ CloseTransient \/ CloseRestart \/ CloseAuthInvalid \/ StaleClose
    <2>1. UNCHANGED <<sock, pc, phase, credsVars, session, disk, high, raced>>
      BY <1>5
      DEF CloseQrExpired, CloseTransient, CloseRestart, CloseAuthInvalid, Closing, StaleClose,
          queueVars, sessionVars
    <2> QED
      BY <2>1, CredsKept
  <1>6. CASE RequestRestart \/ RequestReset \/ RequestLogout \/ RequestPairCode
    BY <1>6, CredsKept
    DEF RequestRestart, RequestReset, RequestLogout, RequestPairCode, Request, socketVars,
        sessionVars
  <1>7. CASE Shutdown
    BY <1>7, CredsKept DEF Shutdown, BeginShutdown, queueVars, sessionVars
  <1>8. CASE FinalSave
    <2>1. UNCHANGED <<sock, pc, saver, failure, orphans, wait, session, disk, high, raced>>
          /\ Stopping /\ Stopping'
      BY <1>8 DEF FinalSave, socketVars, queueVars, sessionVars, Stopping
    <2>2. CASE saver.on
      BY <1>8, <2>1, <2>2, CredsChained DEF FinalSave
    <2>3. CASE ~saver.on
      BY <1>8, <2>1, <2>3, CredsKept DEF FinalSave, credsVars, Stopping
    <2> QED
      BY <2>2, <2>3
  <1>9. CASE ShutdownEnds
    BY <1>9, CredsKept DEF ShutdownEnds, queueVars, sessionVars
  <1>10. CASE Respawn
    BY <1>10, CrashCreds
  <1> QED
    BY <1>1, <1>2, <1>3, <1>4, <1>5, <1>6, <1>7, <1>8, <1>9, <1>10, TransitionCreds,
       UpdateCreds DEF Next

\* A socket works with the newest credentials the gateway accepted for its
\* session, through restarts, failed and retried saves, resets and shutdowns; and
\* after a crash with the newest ones accepted before it, if every save the dead
\* process began had ended well.  The exception: a start read the auth directory
\* before the save of an update accepted during a barrier was done.
THEOREM CredentialsNeverStale == Spec => []NewestCredentials
  <1>1. Init => TypeOK /\ CredsInv
    BY InitType, CredsInit
  <1>2. TypeOK /\ CredsInv /\ [Next]_vars => (TypeOK /\ CredsInv)'
    BY NextType, NextCreds
  <1>3. TypeOK /\ CredsInv => NewestCredentials
    BY DEF CredsInv, InMemory, Owed, Timely, NewestCredentials, Current
  <1> QED
    BY <1>1, <1>2, <1>3, PTL DEF Spec
-----------------------------------------------------------------------------
(* What NoSilentStall rests on.  It is not enough that something is queued,*)
(* armed or running: a repeated click, a late reset or a pairing request   *)
(* may turn out to be a no-op.  Progress counts only what brings a socket. *)

\* A transition that starts a socket whenever it runs.
Brings(tr) ==
  \/ tr.kind \in {"boot", "start", "logout"}
  \/ tr.kind = "reset" /\ ~tr.manual /\ tr.arg = session
Coming == \E i \in 1 .. Len(queue) : Brings(queue[i])

Progress ==
  \/ Live \/ Stopping \/ pc \notin {"idle", "pair"} \/ timer # NoTimer \/ deferred # <<>>
  \/ Coming
  \/ status \in {"error", "qr_expired"}

\* Unless a logout is under way, the socket and the timer are of this generation.
NothingStale ==
  ~Stopping /\ pc # "logout" =>
    /\ sock # NoSock => sock.gen = gen
    /\ timer # NoTimer => timer.gen = gen /\ timer.kind \in {"transient", "pairing"}

StallInv == Progress /\ NothingStale

LEMMA StallInit == Init => StallInv
  <1> SUFFICES ASSUME Init PROVE StallInv
    OBVIOUS
  <1>1. Len(queue) = 1 /\ queue[1] = BootTr
    BY DEF Init
  <1>2. Coming
    BY <1>1 DEF Coming, Brings, BootTr, Tr
  <1> QED
    BY <1>2 DEF Init, StallInv, Progress, NothingStale

\* Taking a transition that brings nothing leaves those that do.
LEMMA TakenComing ==
  ASSUME TypeOK, NEW kind, Take(kind), session' = session, Coming, ~Brings(Head(queue))
  PROVE  Coming'
  <1>1. PICK i \in 1 .. Len(queue) : Brings(queue[i])
    BY DEF Coming
  <1>2. i # 1 /\ queue # <<>> /\ queue' = Tail(queue)
    BY <1>1 DEF Take, TypeOK
  <1>3. i - 1 \in 1 .. Len(queue') /\ queue'[i - 1] = queue[i]
    BY <1>1, <1>2 DEF TypeOK
  <1> QED
    BY <1>1, <1>3 DEF Coming, Brings

LEMMA EnqueuedComing ==
  ASSUME TypeOK, NEW kind \in Kinds, NEW arg \in Nat, NEW manual \in BOOLEAN,
         Enqueue(kind, arg, manual), session' = session
  PROVE  /\ Coming => Coming'
         /\ Brings(Tr(kind, arg, manual)) => Coming'
  <1> DEFINE tr == Tr(kind, arg, manual)
  <1>1. tr \in Trs /\ queue' = Append(queue, tr)
    BY DEF Tr, Trs, Enqueue
  <1> HIDE DEF tr
  <1>2. /\ Len(queue') = Len(queue) + 1 /\ Len(queue) \in Nat
        /\ queue'[Len(queue) + 1] = tr
        /\ \A i \in 1 .. Len(queue) : queue'[i] = queue[i]
    BY <1>1 DEF TypeOK
  <1>3. Brings(tr) => Coming'
    BY <1>2 DEF Coming, Brings
  <1>4. Coming => Coming'
    BY <1>2 DEF Coming, Brings
  <1> QED
    BY <1>3, <1>4 DEF tr

\* A step that leaves alone what Progress speaks of.
LEMMA ProgressKept ==
  ASSUME Progress, UNCHANGED <<sock, wire, timer, deferred, queue, pc, session>>,
         Stopping => Stopping',
         status \in {"error", "qr_expired"} => status' = status \/ Live \/ Stopping'
  PROVE  Progress'
  BY DEF Progress, Live, Coming, Brings

\* A start, a reset or a hand-over is under way, or the gateway goes down.
LEMMA ProgressStart ==
  ASSUME NEW tr, BeginStart(tr), phase' = phase
  PROVE  Progress'
  BY DEF BeginStart, Progress, Stopping

LEMMA ProgressReset ==
  ASSUME NEW tr, NEW manual, NEW base, BeginReset(tr, manual, base)
  PROVE  Progress' /\ NothingStale'
  BY DEF BeginReset, Progress, NothingStale

LEMMA ProgressHandOver ==
  ASSUME StallInv, pc # "logout", HandOver, phase' = phase
  PROVE  Progress' /\ NothingStale'
  BY DEF HandOver, Finish, socketVars, StallInv, Progress, NothingStale, Stopping

\* A transition that turns out to be a no-op.
LEMMA ProgressNoOp ==
  ASSUME TypeOK, Progress, NEW kind, Take(kind), ~Brings(Head(queue)),
         UNCHANGED <<sock, wire, timer, deferred, status, phase, session>>
  PROVE  Progress'
  <1>1. pc = "idle"
    BY DEF Take
  <1>2. CASE Coming
    BY <1>2, TakenComing DEF Progress
  <1>3. CASE ~Coming
    BY <1>1, <1>3 DEF Progress, Live, Stopping
  <1> QED
    BY <1>2, <1>3

LEMMA TransitionStall == TypeOK /\ TransportInv /\ StallInv /\ Transition => StallInv'
  <1> SUFFICES ASSUME TypeOK, TransportInv, StallInv, Transition PROVE Progress' /\ NothingStale'
    BY DEF StallInv
  <1>0. Progress /\ NothingStale
    BY DEF StallInv
  <1>a. ASSUME UNCHANGED <<sock, gen, timer>>, Stopping => Stopping', pc # "logout" PROVE NothingStale'
    BY <1>0, <1>a DEF NothingStale
  <1>b. ASSUME Fail PROVE Progress'
    BY <1>b DEF Fail, Progress
  <1>1. CASE RunStart
    <2>1. Progress'
      BY <1>1, ProgressStart DEF RunStart
    <2> QED
      BY <1>1, <1>a, <2>1 DEF RunStart, Take, socketVars, Stopping
  <1>2. CASE RunRestart
    <2>0. pc = "idle" /\ phase' = phase /\ Take("restart") /\ ~Brings(Head(queue))
      BY <1>2 DEF RunRestart, Take, Brings
    <2>1. CASE BeginReset(Head(queue), TRUE, gen)
      BY <2>1, ProgressReset
    <2>2. CASE BeginStart(Head(queue)) /\ UNCHANGED socketVars
      BY <1>a, <2>0, <2>2, ProgressStart DEF socketVars, Stopping
    <2>3. CASE Finish /\ UNCHANGED <<socketVars, status>>
      <3>1. Progress'
        BY <1>0, <1>2, <2>0, <2>3, ProgressNoOp DEF RunRestart, socketVars, sessionVars
      <3> QED
        BY <1>a, <2>0, <2>3, <3>1 DEF socketVars, Stopping
    <2> QED
      BY <1>2, <2>1, <2>2, <2>3 DEF RunRestart
  <1>3. CASE RunReset
    <2>0. pc = "idle" /\ phase' = phase /\ Take("reset") /\ session' = session
      BY <1>3 DEF RunReset, Take, sessionVars
    <2>1. CASE BeginReset(Head(queue), Head(queue).manual, gen)
      BY <2>1, ProgressReset
    <2>2. CASE /\ Finish /\ UNCHANGED <<socketVars, status>>
               /\ Head(queue).arg # session \/ Head(queue).manual
      <3>1. ~Brings(Head(queue))
        BY <2>0, <2>2 DEF Brings, Take
      <3>2. Progress'
        BY <1>0, <1>3, <2>0, <2>2, <3>1, ProgressNoOp DEF RunReset, socketVars
      <3> QED
        BY <1>a, <2>0, <2>2, <3>2 DEF socketVars, Stopping
    <2> QED
      BY <1>3, <2>1, <2>2 DEF RunReset
  <1>4. CASE RunLogout
    <2>1. CASE ready
      BY <1>4, <2>1 DEF RunLogout, Progress, NothingStale
    <2> QED
      BY <1>4, <2>1, ProgressReset DEF RunLogout
  <1>5. CASE RunPair
    <2>0. pc = "idle" /\ Take("pair") /\ ~Brings(Head(queue))
      BY <1>5 DEF RunPair, Take, Brings
    <2>1. Progress'
      BY <1>0, <1>5, <2>0, ProgressNoOp DEF RunPair, socketVars, sessionVars
    <2> QED
      BY <1>5, <1>a, <2>0, <2>1 DEF RunPair, socketVars, Stopping
  <1>6. CASE LogoutSettled
    BY <1>6, ProgressReset DEF LogoutSettled
  <1>7. CASE Activate
    <2>1. Progress'
      BY <1>7, ProgressStart DEF Activate
    <2> QED
      BY <1>7, <1>a, <2>1 DEF Activate, socketVars, Stopping
  <1>8. CASE ActivateFailed
    BY <1>8, <1>a, <1>b DEF ActivateFailed, socketVars, Stopping
  <1>9. CASE BarrierSettled
    <2>0. pc = "barrier" /\ phase' = phase
      BY <1>9 DEF BarrierSettled
    <2>1. CASE HandOver
      BY <2>0, <2>1, ProgressHandOver
    <2>2. CASE ~HandOver
      <3>1. UNCHANGED socketVars /\ (pc' = "retry" \/ Fail)
        BY <1>9, <2>2 DEF BarrierSettled
      <3>2. Progress'
        BY <1>b, <3>1 DEF Progress
      <3> QED
        BY <1>a, <2>0, <3>1, <3>2 DEF socketVars, Stopping
    <2> QED
      BY <2>1, <2>2
  <1>10. CASE BarrierTimeout
    BY <1>10, <1>a, <1>b DEF BarrierTimeout, socketVars, Stopping
  <1>11. CASE RetryEnds
    <2>0. pc = "retry" /\ phase' = phase
      BY <1>11 DEF RetryEnds
    <2>1. CASE HandOver
      BY <2>0, <2>1, ProgressHandOver
    <2>2. CASE ~HandOver
      BY <1>11, <1>a, <1>b, <2>0, <2>2 DEF RetryEnds, socketVars, Stopping
    <2> QED
      BY <2>1, <2>2
  <1>12. CASE Load
    <2>1. CASE Stopping
      BY <1>12, <2>1 DEF Load, Stopping, Progress, NothingStale
    <2>2. CASE ~Stopping
      <3>1. sock' = [gen |-> gen, fresh |-> cur.fresh] /\ wire' = wire \cup {gen} /\ gen # 0
        BY <1>12, <2>2 DEF Load, TransportInv, LoadAfterHandOver
      <3>2. sock' # NoSock /\ sock'.gen = gen
        BY <3>1 DEF NoSock
      <3>3. Live'
        BY <3>1, <3>2 DEF Live
      <3>4. gen' = gen /\ timer' = timer /\ phase' = phase /\ pc = "load"
        BY <1>12 DEF Load
      <3>5. NothingStale'
        BY <1>0, <3>2, <3>4, <2>2 DEF NothingStale
      <3> QED
        BY <3>3, <3>5 DEF Progress
    <2> QED
      BY <2>1, <2>2
  <1>13. CASE LoadFailed
    <2>1. CASE BeginShutdown
      BY <2>1 DEF BeginShutdown, Stopping, Progress, NothingStale
    <2>2. CASE ~BeginShutdown
      BY <1>13, <1>a, <1>b, <2>2 DEF LoadFailed, Stopping
    <2> QED
      BY <2>1, <2>2
  <1>14. CASE PairSettled
    <2>0. pc = "pair" /\ UNCHANGED <<socketVars, deferred, queue, phase, sessionVars>>
      BY <1>14 DEF PairSettled
    <2>1. CASE Live
      <3>1. Progress'
        BY <2>0, <2>1 DEF Live, Progress, socketVars
      <3> QED
        BY <1>a, <2>0, <3>1 DEF socketVars, Stopping
    <2>2. CASE ~Live
      <3>1. status' = status
        BY <1>14, <2>2 DEF PairSettled
      <3>2. Progress'
        BY <1>0, <2>0, <2>2, <3>1 DEF Progress, Coming, Brings, Stopping, socketVars, sessionVars
      <3> QED
        BY <1>a, <2>0, <3>2 DEF socketVars, Stopping
    <2> QED
      BY <2>1, <2>2
  <1> QED
    BY <1>1, <1>2, <1>3, <1>4, <1>5, <1>6, <1>7, <1>8, <1>9, <1>10, <1>11, <1>12, <1>13,
       <1>14 DEF Transition

LEMMA NextStall == TypeOK /\ TransportInv /\ StallInv /\ [Next]_vars => StallInv'
  <1> SUFFICES ASSUME TypeOK, TransportInv, StallInv, [Next]_vars PROVE Progress' /\ NothingStale'
    BY DEF StallInv
  <1>0. Progress /\ NothingStale
    BY DEF StallInv
  <1>a. ASSUME UNCHANGED <<sock, gen, pc>>, Stopping => Stopping',
               timer' = timer \/ timer' = NoTimer
        PROVE  NothingStale'
    BY <1>0, <1>a DEF NothingStale
  <1>1. CASE Transition
    BY <1>1, TransitionStall DEF StallInv
  <1>2. CASE UNCHANGED vars
    BY <1>0, <1>2, <1>a, ProgressKept
    DEF vars, socketVars, queueVars, sessionVars, Stopping
  <1>3. CASE TimerFires
    <2>0. UNCHANGED <<sock, gen, pc, phase, session, wire>> /\ timer # NoTimer /\ timer' = NoTimer
      BY <1>3 DEF TimerFires, sessionVars
    <2>1. NothingStale'
      BY <1>a, <2>0 DEF Stopping
    <2>2. CASE Stopping \/ pc = "logout"
      BY <2>0, <2>1, <2>2 DEF Progress, Stopping
    <2>3. CASE ~Stopping /\ timer.gen = gen /\ timer.kind = "transient"
      <3>1. Enqueue("start", 0, FALSE)
        BY <1>3, <2>3 DEF TimerFires, RequestStart
      <3>2. Brings(Tr("start", 0, FALSE))
        BY DEF Brings, Tr
      <3>3. Coming'
        BY <2>0, <3>1, <3>2, EnqueuedComing DEF Kinds
      <3> QED
        BY <2>1, <3>3 DEF Progress
    <2>4. CASE timer.gen = gen /\ timer.kind = "pairing"
      <3>1. deferred' = Append(deferred, Len(orphans) + pending)
        BY <1>3, <2>4 DEF TimerFires
      <3>2. deferred' # <<>>
        BY <3>1 DEF TypeOK
      <3> QED
        BY <2>1, <3>2 DEF Progress
    <2> QED
      BY <1>0, <2>0, <2>2, <2>3, <2>4 DEF NothingStale
  <1>4. CASE DeferredStart
    <2>0. UNCHANGED <<socketVars, pc, phase, session>>
      BY <1>4 DEF DeferredStart, sessionVars
    <2>1. NothingStale'
      BY <1>a, <2>0 DEF socketVars, Stopping
    <2>2. CASE Stopping
      BY <2>0, <2>1, <2>2 DEF Progress, Stopping
    <2>3. CASE ~Stopping
      <3>1. Enqueue("start", 0, FALSE) /\ Brings(Tr("start", 0, FALSE))
        BY <1>4, <2>3 DEF DeferredStart, RequestStart, Brings, Tr
      <3>2. Coming'
        BY <2>0, <3>1, EnqueuedComing DEF Kinds
      <3> QED
        BY <2>1, <3>2 DEF Progress
    <2> QED
      BY <2>2, <2>3
  <1>5. CASE SaveDone \/ SaveFailed
    <2>0. /\ UNCHANGED <<socketVars, queueVars, status, phase, session>>
          /\ deferred' = [i \in DOMAIN deferred |-> Countdown(deferred[i])]
      BY <1>5 DEF SaveDone, SaveFailed, SaveSettles
    <2>1. NothingStale'
      BY <1>a, <2>0 DEF socketVars, queueVars, Stopping
    <2>2. deferred # <<>> => deferred' # <<>>
      BY <2>0 DEF TypeOK
    <2>3. Progress'
      BY <1>0, <2>0, <2>2 DEF Progress, Live, Coming, Brings, socketVars, queueVars, Stopping
    <2> QED
      BY <2>1, <2>3
  <1>6. CASE CooldownOver \/ CredsUpdate \/ QrShown \/ NewLogin \/ Open
    <2>1. /\ UNCHANGED <<sock, gen, wire, timer, deferred, queueVars, phase, session>>
          /\ status' = status \/ Live
      BY <1>6 DEF CooldownOver, CredsUpdate, QrShown, NewLogin, Open, Handler, socketVars, sessionVars
    <2>2. NothingStale'
      BY <1>a, <2>1 DEF queueVars, Stopping
    <2> QED
      BY <1>0, <2>1, <2>2, ProgressKept DEF queueVars, Stopping
  <1>7. CASE CloseQrExpired
    <2>1. UNCHANGED <<sock, gen, timer, pc, phase>> /\ status' = "qr_expired"
      BY <1>7 DEF CloseQrExpired, Closing
    <2> QED
      BY <1>a, <2>1 DEF Progress, Stopping
  <1>8. CASE CloseTransient \/ CloseRestart
    <2>1. /\ UNCHANGED <<sock, gen, pc, phase>> /\ timer' # NoTimer /\ timer'.gen = gen
          /\ timer'.kind \in {"transient", "pairing"}
      BY <1>8 DEF CloseTransient, CloseRestart, Closing, NoTimer
    <2> QED
      BY <1>0, <2>1 DEF Progress, NothingStale, Stopping
  <1>9. CASE CloseAuthInvalid
    <2>0. UNCHANGED <<sock, gen, timer, pc, phase, session>>
      BY <1>9 DEF CloseAuthInvalid, Closing
    <2>1. NothingStale'
      BY <1>a, <2>0 DEF Stopping
    <2>2. CASE status' = "error"
      BY <2>1, <2>2 DEF Progress
    <2>3. CASE status' # "error"
      <3>1. Enqueue("reset", session, FALSE) /\ Brings(Tr("reset", session, FALSE))
        BY <1>9, <2>3 DEF CloseAuthInvalid, Closing, Brings, Tr
      <3>2. Coming'
        BY <2>0, <3>1, EnqueuedComing DEF Kinds, TypeOK
      <3> QED
        BY <2>1, <3>2 DEF Progress
    <2> QED
      BY <2>2, <2>3
  <1>10. CASE StaleClose
    <2>1. UNCHANGED <<sock, gen, timer, pc, phase>> /\ sock # NoSock /\ sock.gen # gen
      BY <1>10 DEF StaleClose, Live, Current, queueVars
    <2>2. Stopping \/ pc = "logout"
      BY <1>0, <2>1 DEF NothingStale
    <2> QED
      BY <1>a, <2>1, <2>2 DEF Progress, Stopping
  <1>11. CASE RequestRestart \/ RequestReset \/ RequestLogout \/ RequestPairCode
    <2>0. UNCHANGED <<socketVars, status, deferred, pc, phase, session>>
      BY <1>11 DEF RequestRestart, RequestReset, RequestLogout, RequestPairCode, Request, sessionVars
    <2>1. \E kind \in Kinds, arg \in Nat : Enqueue(kind, arg, TRUE)
      BY <1>11 DEF RequestRestart, RequestReset, RequestLogout, RequestPairCode, Request, TypeOK, Kinds
    <2>2. Coming => Coming'
      BY <2>0, <2>1, EnqueuedComing
    <2>3. NothingStale'
      BY <1>a, <2>0 DEF socketVars, Stopping
    <2>4. Progress'
      BY <1>0, <2>0, <2>2 DEF Progress, Live, socketVars, Stopping
    <2> QED
      BY <2>3, <2>4
  <1>12. CASE Shutdown \/ FinalSave \/ ShutdownEnds
    BY <1>12 DEF Shutdown, BeginShutdown, FinalSave, ShutdownEnds, Stopping, Progress, NothingStale
  <1>13. CASE Respawn
    <2>1. queue' = <<BootTr>> /\ sock' = NoSock /\ timer' = NoTimer
      BY <1>13 DEF Respawn, Boot
    <2>2. Len(queue') = 1 /\ queue'[1] = BootTr
      BY <2>1
    <2>3. Coming'
      BY <2>2 DEF Coming, Brings, BootTr, Tr
    <2> QED
      BY <2>1, <2>3 DEF Progress, NothingStale
  <1> QED
    BY <1>1, <1>2, <1>3, <1>4, <1>5, <1>6, <1>7, <1>8, <1>9, <1>10, <1>11, <1>12, <1>13 DEF Next

\* An account without a transport always has a start, a reset or a timer before it that
\* brings one, or a status that asks for the operator: no handler of
\* whatsapp-gateway-impl.mjs leaves it with no-ops only.
THEOREM NeverForgotten == Spec => []NoSilentStall
  <1>1. Init => TypeOK /\ TransportInv /\ StallInv
    BY InitType, TransportInit, StallInit
  <1>2. TypeOK /\ TransportInv /\ StallInv /\ [Next]_vars => (TypeOK /\ TransportInv /\ StallInv)'
    BY NextType, NextTransport, NextStall
  <1>3. TypeOK /\ StallInv => NoSilentStall
    <2> SUFFICES ASSUME TypeOK, StallInv PROVE NoSilentStall
      OBVIOUS
    <2>1. Coming => queue # <<>>
      BY DEF Coming, TypeOK
    <2> QED
      BY <2>1 DEF StallInv, Progress, NoSilentStall
  <1> QED
    BY <1>1, <1>2, <1>3, PTL DEF Spec
-----------------------------------------------------------------------------
(* A linked session is given up only by a logout or after WhatsApp refused *)
(* it.  resetSocketSession is reached from four places; what each of them  *)
(* read may be old by then: a status, a queued reset, the linked flag in   *)
(* memory.  KeptInv says that none of them has gone stale.                 *)

\* The status that lets a click on restart or reset replace the session.
InvalidMeansRefused ==
  status = "session_invalid" => rejected /\ pc # "activate"

\* A reset that a refusal queued finds another session, or one that is still refused.
QueuedMeansRefused ==
  \A i \in 1 .. Len(queue) :
    queue[i].kind = "reset" /\ ~queue[i].manual =>
      queue[i].arg <= session /\ (queue[i].arg = session => rejected)

LogoutIsMeant == pc = "logout" => cur.kind = "logout"

\* The linked flag in memory is not behind storage, nor behind what is left to be written.
LinkedInMemory ==
  Timely /\ sock # NoSock =>
    /\ disk.linked => saver.creds.linked
    /\ \A i \in 1 .. Len(orphans) :
         orphans[i].session = session /\ orphans[i].creds.linked => saver.creds.linked

KeptInv == InvalidMeansRefused /\ QueuedMeansRefused /\ LogoutIsMeant /\ LinkedInMemory

LEMMA KeptInit == Init => KeptInv
  <1> SUFFICES ASSUME Init PROVE KeptInv
    OBVIOUS
  <1>1. Len(queue) = 1 /\ queue[1] = BootTr
    BY DEF Init
  <1>2. QueuedMeansRefused
    BY <1>1 DEF QueuedMeansRefused, BootTr, Tr
  <1> QED
    BY <1>2 DEF Init, KeptInv, InvalidMeansRefused, LogoutIsMeant, LinkedInMemory

-----------------------------------------------------------------------------
(* The parts, step by step.                                                *)

\* Of a reset under way: it left another status behind, and no socket that could set one.
LEMMA InvalidStep ==
  TypeOK /\ CredsInv /\ InvalidMeansRefused /\ [Next]_vars => InvalidMeansRefused'
  <1> SUFFICES ASSUME TypeOK, CredsInv, InvalidMeansRefused, [Next]_vars
               PROVE  InvalidMeansRefused'
    OBVIOUS
  <1> USE DEF InvalidMeansRefused
  <1>a. ASSUME UNCHANGED <<status, rejected>>, pc' = "activate" => pc = "activate"
        PROVE  InvalidMeansRefused'
    BY <1>a
  <1>b. ASSUME NEW tr, BeginStart(tr) PROVE pc' # "activate"
    BY <1>b DEF BeginStart, Finish
  <1>c. ASSUME NEW tr, NEW manual, NEW base, BeginReset(tr, manual, base)
        PROVE  InvalidMeansRefused'
    BY <1>c DEF BeginReset
  <1>d. ASSUME HandOver, rejected' = rejected, pc # "activate" PROVE InvalidMeansRefused'
    BY <1>d DEF HandOver, Finish, socketVars
  <1>1. CASE RunStart
    BY <1>1, <1>a, <1>b DEF RunStart, sessionVars
  <1>2. CASE RunRestart
    BY <1>2, <1>a, <1>b, <1>c DEF RunRestart, sessionVars, Finish
  <1>3. CASE RunReset
    BY <1>3, <1>a, <1>c DEF RunReset, sessionVars, Finish
  <1>4. CASE RunLogout
    BY <1>4, <1>c DEF RunLogout, sessionVars
  <1>5. CASE RunPair
    BY <1>5, <1>a DEF RunPair, sessionVars, Finish
  <1>6. CASE LogoutSettled
    BY <1>6, <1>c DEF LogoutSettled
  <1>7. CASE Activate
    BY <1>7 DEF Activate
  <1>8. CASE ActivateFailed \/ BarrierTimeout
    BY <1>8 DEF ActivateFailed, BarrierTimeout, Fail
  <1>9. CASE BarrierSettled \/ RetryEnds
    <2>0. rejected' = rejected /\ pc # "activate"
      BY <1>9 DEF BarrierSettled, RetryEnds, sessionVars
    <2>1. CASE HandOver
      BY <1>d, <2>0, <2>1
    <2>2. CASE ~HandOver
      BY <1>9, <2>0, <2>2 DEF BarrierSettled, RetryEnds, Fail, Finish
    <2> QED
      BY <2>1, <2>2
  <1>10. CASE Load
    BY <1>10, <1>a DEF Load, Finish, sessionVars
  <1>11. CASE LoadFailed
    BY <1>11 DEF LoadFailed, Fail, Finish, BeginShutdown
  <1>12. CASE PairSettled
    BY <1>12 DEF PairSettled, Finish, sessionVars
  <1>13. CASE TimerFires \/ DeferredStart \/ SaveDone \/ SaveFailed \/ CooldownOver \/ CredsUpdate
    BY <1>13, <1>a
    DEF TimerFires, DeferredStart, SaveDone, SaveFailed, SaveSettles, CooldownOver, CredsUpdate,
        queueVars, sessionVars
  <1>14. CASE QrShown \/ NewLogin \/ Open
    BY <1>14 DEF QrShown, NewLogin, Open
  <1>15. CASE CloseQrExpired \/ CloseTransient \/ CloseRestart
    BY <1>15 DEF CloseQrExpired, CloseTransient, CloseRestart, Closing
  <1>16. CASE CloseAuthInvalid
    <2>1. rejected' = TRUE /\ pc' = pc /\ sock # NoSock
      BY <1>16 DEF CloseAuthInvalid, Closing, Handler, Current
    <2> QED
      BY <2>1 DEF CredsInv, NoSocketYet
  <1>17. CASE StaleClose \/ FinalSave \/ ShutdownEnds
    BY <1>17, <1>a DEF StaleClose, FinalSave, ShutdownEnds, queueVars, sessionVars
  <1>18. CASE RequestRestart \/ RequestReset \/ RequestLogout \/ RequestPairCode
    BY <1>18, <1>a
    DEF RequestRestart, RequestReset, RequestLogout, RequestPairCode, Request, sessionVars
  <1>19. CASE Shutdown \/ Respawn
    BY <1>19 DEF Shutdown, BeginShutdown, Respawn, Boot
  <1>20. CASE UNCHANGED vars
    BY <1>20, <1>a DEF vars, queueVars, sessionVars
  <1> QED
    BY <1>1, <1>2, <1>3, <1>4, <1>5, <1>6, <1>7, <1>8, <1>9, <1>10, <1>11, <1>12, <1>13, <1>14,
       <1>15, <1>16, <1>17, <1>18, <1>19, <1>20 DEF Next, Transition

LEMMA QueuedStep ==
  TypeOK /\ QueuedMeansRefused /\ [Next]_vars => QueuedMeansRefused'
  <1> SUFFICES ASSUME TypeOK, QueuedMeansRefused, [Next]_vars PROVE QueuedMeansRefused'
    OBVIOUS
  <1>a. ASSUME queue' = queue, session' = session, rejected => rejected' PROVE QueuedMeansRefused'
    BY <1>a DEF QueuedMeansRefused
  <1>b. ASSUME NEW kind, Take(kind), session' = session, rejected' = rejected
        PROVE  QueuedMeansRefused'
    <2>1. \A i \in 1 .. Len(queue') : i + 1 \in 1 .. Len(queue) /\ queue'[i] = queue[i + 1]
      BY <1>b DEF Take, TypeOK
    <2> QED
      BY <1>b, <2>1 DEF QueuedMeansRefused
  <1>c. ASSUME NEW kind \in Kinds, NEW arg \in Nat, NEW manual \in BOOLEAN,
               Enqueue(kind, arg, manual), session' = session, rejected => rejected',
               kind = "reset" /\ ~manual => arg = session /\ rejected'
        PROVE  QueuedMeansRefused'
    <2> DEFINE tr == Tr(kind, arg, manual)
    <2>1. tr \in Trs /\ queue' = Append(queue, tr)
      BY <1>c DEF Tr, Trs, Enqueue
    <2>2. tr.kind = "reset" /\ ~tr.manual => tr.arg = session /\ rejected'
      BY <1>c DEF Tr
    <2> HIDE DEF tr
    <2>3. \A i \in 1 .. Len(queue') : \/ i \in 1 .. Len(queue) /\ queue'[i] = queue[i]
                                      \/ queue'[i] = tr
      BY <2>1 DEF TypeOK
    <2>4. session \in Nat
      BY DEF TypeOK
    <2> QED
      BY <1>c, <2>2, <2>3, <2>4 DEF QueuedMeansRefused
  <1>1. CASE RunStart \/ RunRestart \/ RunReset \/ RunLogout \/ RunPair
    <2>1. (\E kind : Take(kind)) /\ session' = session /\ rejected' = rejected
      BY <1>1 DEF RunStart, RunRestart, RunReset, RunLogout, RunPair, sessionVars
    <2> QED
      BY <1>b, <2>1
  <1>2. CASE LogoutSettled \/ ActivateFailed \/ BarrierSettled \/ BarrierTimeout \/ RetryEnds \/ Load
               \/ LoadFailed \/ PairSettled
    <2>1. queue' = queue /\ session' = session /\ rejected' = rejected
      BY <1>2
      DEF LogoutSettled, ActivateFailed, BarrierSettled, BarrierTimeout, RetryEnds, Load, LoadFailed,
          PairSettled, sessionVars
    <2> QED
      BY <2>1, <1>a
  <1>3. CASE Activate
    <2>1. queue' = queue /\ session' = session + 1
      BY <1>3 DEF Activate
    <2>2. session \in Nat /\ \A i \in 1 .. Len(queue) : queue[i] \in Trs
      BY DEF TypeOK
    <2>3. \A i \in 1 .. Len(queue) : queue[i].arg \in Nat
      BY <2>2 DEF Trs
    <2> QED
      BY <2>1, <2>2, <2>3 DEF QueuedMeansRefused
  <1>4. CASE TimerFires \/ DeferredStart
    <2>1. queue' = queue \/ Enqueue("start", 0, FALSE)
      BY <1>4 DEF TimerFires, DeferredStart, RequestStart
    <2>2. session' = session /\ rejected' = rejected
      BY <1>4 DEF TimerFires, DeferredStart, sessionVars
    <2>3. CASE queue' = queue
      BY <1>a, <2>2, <2>3
    <2>4. CASE Enqueue("start", 0, FALSE)
      BY <1>c, <2>2, <2>4 DEF Kinds
    <2> QED
      BY <2>1, <2>3, <2>4
  <1>5. CASE SaveDone \/ SaveFailed \/ CooldownOver \/ CredsUpdate \/ QrShown \/ NewLogin \/ Open
               \/ StaleClose \/ Shutdown \/ FinalSave \/ ShutdownEnds \/ UNCHANGED vars
    <2>1. UNCHANGED <<queue, session, rejected>>
      BY <1>5
      DEF SaveDone, SaveFailed, SaveSettles, CooldownOver, CredsUpdate, QrShown, NewLogin, Open,
          StaleClose, Shutdown, FinalSave, ShutdownEnds, vars, queueVars, sessionVars
    <2> QED
      BY <1>a, <2>1
  <1>6. CASE CloseQrExpired \/ CloseTransient \/ CloseRestart
    BY <1>6, <1>a DEF CloseQrExpired, CloseTransient, CloseRestart, Closing
  <1>7. CASE CloseAuthInvalid
    <2>1. session' = session /\ rejected' = TRUE /\ (queue' = queue \/ Enqueue("reset", session, FALSE))
      BY <1>7 DEF CloseAuthInvalid, Closing
    <2> QED
      BY <1>a, <1>c, <2>1 DEF Kinds, TypeOK
  <1>8. CASE RequestRestart \/ RequestReset \/ RequestLogout \/ RequestPairCode
    <2>1. \E kind \in Kinds, arg \in Nat : Enqueue(kind, arg, TRUE)
      BY <1>8 DEF RequestRestart, RequestReset, RequestLogout, RequestPairCode, Request, TypeOK, Kinds
    <2>2. session' = session /\ rejected' = rejected
      BY <1>8 DEF RequestRestart, RequestReset, RequestLogout, RequestPairCode, Request, sessionVars
    <2> QED
      BY <1>c, <2>1, <2>2
  <1>9. CASE Respawn
    <2>1. Len(queue') = 1 /\ queue'[1] = BootTr
      BY <1>9 DEF Respawn, Boot
    <2> QED
      BY <2>1 DEF QueuedMeansRefused, BootTr, Tr
  <1> QED
    BY <1>1, <1>2, <1>3, <1>4, <1>5, <1>6, <1>7, <1>8, <1>9 DEF Next, Transition

LEMMA LogoutStep == LogoutIsMeant /\ [Next]_vars => LogoutIsMeant'
  <1> SUFFICES ASSUME LogoutIsMeant, [Next]_vars PROVE LogoutIsMeant'
    OBVIOUS
  <1> USE DEF LogoutIsMeant
  <1>1. CASE RunLogout
    BY <1>1 DEF RunLogout, Take, BeginReset
  <1>2. CASE RunStart \/ RunRestart \/ RunReset \/ RunPair \/ LogoutSettled \/ Activate
    BY <1>2
    DEF RunStart, RunRestart, RunReset, RunPair, LogoutSettled, Activate, BeginStart, BeginReset, Finish
  <1>3. CASE ActivateFailed \/ BarrierSettled \/ BarrierTimeout \/ RetryEnds
    BY <1>3 DEF ActivateFailed, BarrierSettled, BarrierTimeout, RetryEnds, HandOver, Fail, Finish
  <1>4. CASE Load \/ LoadFailed \/ PairSettled \/ Respawn
    BY <1>4 DEF Load, LoadFailed, PairSettled, Fail, Finish, Respawn, Boot
  <1>5. CASE TimerFires \/ DeferredStart \/ SaveDone \/ SaveFailed \/ CooldownOver \/ CredsUpdate
               \/ QrShown \/ NewLogin \/ Open \/ StaleClose
    <2>1. UNCHANGED <<pc, cur>>
      BY <1>5
      DEF TimerFires, DeferredStart, SaveDone, SaveFailed, SaveSettles, CooldownOver, CredsUpdate,
          QrShown, NewLogin, Open, StaleClose, queueVars
    <2> QED
      BY <2>1
  <1>6. CASE CloseQrExpired \/ CloseTransient \/ CloseRestart \/ CloseAuthInvalid
    BY <1>6 DEF CloseQrExpired, CloseTransient, CloseRestart, CloseAuthInvalid, Closing
  <1>7. CASE RequestRestart \/ RequestReset \/ RequestLogout \/ RequestPairCode
    BY <1>7 DEF RequestRestart, RequestReset, RequestLogout, RequestPairCode, Request
  <1>8. CASE Shutdown \/ FinalSave \/ ShutdownEnds \/ UNCHANGED vars
    BY <1>8 DEF Shutdown, FinalSave, ShutdownEnds, vars, queueVars
  <1> QED
    BY <1>1, <1>2, <1>3, <1>4, <1>5, <1>6, <1>7, <1>8 DEF Next, Transition

\* A save writes what memory has, or had: the flag is never taken back.
LEMMA SavedLinked ==
  ASSUME TypeOK, CredsInv, LinkedInMemory, NEW saved \in BOOLEAN, SaveSettles(saved)
  PROVE  LinkedInMemory'
  <1> SUFFICES ASSUME Timely', sock' # NoSock PROVE LinkedInMemory'
    BY DEF LinkedInMemory
  <1>1. UNCHANGED <<sock, raced, saver, session>> /\ Timely /\ sock # NoSock
    BY DEF SaveSettles, socketVars, Timely
  <1>2. saver.session = session
    BY <1>1 DEF CredsInv, InMemory
  <1>3. CASE orphans # <<>> /\ orphans' = Tail(orphans) /\ disk' \in {disk, Head(orphans).creds}
               /\ (disk' = disk \/ Head(orphans).session = session)
    <2>1. \A i \in 1 .. Len(orphans') : i + 1 \in 1 .. Len(orphans) /\ orphans'[i] = orphans[i + 1]
      BY <1>3 DEF TypeOK
    <2>2. 1 \in 1 .. Len(orphans) /\ Head(orphans) = orphans[1]
      BY <1>3 DEF TypeOK
    <2>3. disk'.linked => saver.creds.linked
      BY <1>1, <1>3, <2>2 DEF LinkedInMemory
    <2> QED
      BY <1>1, <2>1, <2>3 DEF LinkedInMemory
  <1>4. CASE orphans' = orphans /\ disk' \in {disk, saver.creds}
    BY <1>1, <1>4 DEF LinkedInMemory
  <1> QED
    BY <1>3, <1>4 DEF SaveSettles, Write

\* While the gateway goes down the socket stays, and its saves are handed over with it.
LEMMA HandOverLinked ==
  ASSUME TypeOK, LinkedInMemory, HandOver, UNCHANGED sessionVars
  PROVE  LinkedInMemory'
  <1>1. CASE ~Stopping
    BY <1>1 DEF HandOver, LinkedInMemory
  <1>2. CASE Stopping
    <2>1. UNCHANGED <<sock, raced, session, disk>> /\ saver'.creds = saver.creds
      BY <1>2 DEF HandOver, socketVars, sessionVars, TypeOK, Savers
    <2> DEFINE left == [i \in 1 .. pending |-> saver]
    <2>2. left \in Seq(Savers) /\ \A i \in 1 .. Len(left) : left[i] = saver
      BY DEF TypeOK
    <2>3. orphans' = orphans \o left
      BY DEF HandOver
    <2> HIDE DEF left
    <2>4. \A i \in 1 .. Len(orphans') : \/ i \in 1 .. Len(orphans) /\ orphans'[i] = orphans[i]
                                        \/ orphans'[i] = saver
      <3>1. Len(orphans') = Len(orphans) + Len(left) /\ Len(orphans) \in Nat /\ Len(left) \in Nat
        BY <2>2, <2>3 DEF TypeOK
      <3> TAKE i \in 1 .. Len(orphans')
      <3>2. CASE i <= Len(orphans)
        BY <2>2, <2>3, <3>1, <3>2 DEF TypeOK
      <3>3. CASE ~(i <= Len(orphans))
        <4>1. i - Len(orphans) \in 1 .. Len(left) /\ orphans'[i] = left[i - Len(orphans)]
          BY <2>2, <2>3, <3>1, <3>3 DEF TypeOK
        <4> QED
          BY <2>2, <4>1
      <3> QED
        BY <3>2, <3>3
    <2> QED
      BY <2>1, <2>4 DEF LinkedInMemory, Timely
  <1> QED
    BY <1>1, <1>2

LEMMA LinkedStep ==
  TypeOK /\ CredsInv /\ LinkedInMemory /\ [Next]_vars => LinkedInMemory'
  <1> SUFFICES ASSUME TypeOK, CredsInv, LinkedInMemory, [Next]_vars PROVE LinkedInMemory'
    OBVIOUS
  <1>a. ASSUME UNCHANGED <<sock, raced, disk, session, saver, orphans>> PROVE LinkedInMemory'
    BY <1>a DEF LinkedInMemory, Timely
  <1>b. ASSUME sock' = NoSock PROVE LinkedInMemory'
    BY <1>b DEF LinkedInMemory
  <1>c. ASSUME UNCHANGED <<credsVars, sessionVars>>, sock' = sock \/ sock' = NoSock
        PROVE  LinkedInMemory'
    BY <1>a, <1>b, <1>c DEF credsVars, sessionVars
  <1>1. CASE RunStart \/ RunRestart \/ RunReset \/ RunLogout \/ RunPair \/ LogoutSettled
    <2>1. UNCHANGED <<saver, orphans, sessionVars>> /\ (sock' = sock \/ sock' = NoSock)
      BY <1>1
      DEF RunStart, RunRestart, RunReset, RunLogout, RunPair, LogoutSettled, BeginReset, socketVars,
          credsVars
    <2> QED
      BY <1>a, <1>b, <2>1 DEF sessionVars
  <1>2. CASE Activate
    <2>1. sock' = NoSock
      BY <1>2 DEF Activate, CredsInv, NoSocketYet, socketVars
    <2> QED
      BY <1>b, <2>1
  <1>3. CASE ActivateFailed \/ BarrierTimeout \/ LoadFailed \/ PairSettled
    BY <1>3, <1>a
    DEF ActivateFailed, BarrierTimeout, LoadFailed, PairSettled, socketVars, credsVars, sessionVars
  <1>4. CASE BarrierSettled \/ RetryEnds
    <2>1. CASE HandOver
      BY <1>4, <2>1, HandOverLinked DEF BarrierSettled, RetryEnds
    <2>2. CASE ~HandOver
      BY <1>4, <1>a, <2>2 DEF BarrierSettled, RetryEnds, socketVars, sessionVars
    <2> QED
      BY <2>1, <2>2
  <1>5. CASE Load
    <2>1. CASE Stopping
      BY <1>5, <1>a, <2>1 DEF Load, sessionVars
    <2>2. CASE ~Stopping
      <3>1. /\ orphans' = orphans /\ session' = session /\ disk' = disk /\ ReadAuth
            /\ saver' = Saver(session, disk)
        BY <1>5, <2>2 DEF Load
      <3>2. raced = "no" => orphans = <<>>
        BY <2>2 DEF CredsInv, Durable
      <3>3. Timely' => \A i \in DOMAIN orphans : orphans[i].session # session
        BY <3>1, <3>2 DEF ReadAuth, Unsettled, Timely, TypeOK, Lateness
      <3>4. DOMAIN orphans = 1 .. Len(orphans)
        BY DEF TypeOK
      <3> QED
        BY <3>1, <3>3, <3>4 DEF LinkedInMemory, Saver
    <2> QED
      BY <2>1, <2>2
  <1>6. CASE CredsUpdate
    <2>1. UNCHANGED <<sock, orphans, session, disk>> /\ (Timely' => Timely)
      BY <1>6 DEF CredsUpdate, socketVars, Timely
    <2>2. PICK linked \in {saver.creds.linked, TRUE} :
                 saver' = [saver EXCEPT !.creds = Renew(saver.creds, linked)]
      BY <1>6 DEF CredsUpdate
    <2>3. saver'.creds.linked = linked
      BY <2>2 DEF TypeOK, Savers, Renew
    <2>4. saver.creds.linked => saver'.creds.linked
      BY <2>2, <2>3
    <2> QED
      BY <2>1, <2>4 DEF LinkedInMemory
  <1>7. CASE SaveDone \/ SaveFailed
    BY <1>7, SavedLinked DEF SaveDone, SaveFailed
  <1>8. CASE TimerFires \/ DeferredStart \/ CooldownOver \/ QrShown \/ NewLogin \/ Open \/ StaleClose
               \/ Shutdown \/ UNCHANGED vars
    BY <1>8, <1>c
    DEF TimerFires, DeferredStart, CooldownOver, QrShown, NewLogin, Open, StaleClose, Shutdown, vars,
        socketVars
  <1>9. CASE CloseQrExpired \/ CloseTransient \/ CloseRestart \/ CloseAuthInvalid
    BY <1>9, <1>a
    DEF CloseQrExpired, CloseTransient, CloseRestart, CloseAuthInvalid, Closing, credsVars
  <1>10. CASE RequestRestart \/ RequestReset \/ RequestLogout \/ RequestPairCode
    BY <1>10, <1>c
    DEF RequestRestart, RequestReset, RequestLogout, RequestPairCode, Request, socketVars
  <1>11. CASE FinalSave
    BY <1>11, <1>a DEF FinalSave, socketVars, sessionVars
  <1>12. CASE ShutdownEnds \/ Respawn
    BY <1>12, <1>b DEF ShutdownEnds, Respawn, Boot
  <1> QED
    BY <1>1, <1>2, <1>3, <1>4, <1>5, <1>6, <1>7, <1>8, <1>9, <1>10, <1>11, <1>12 DEF Next, Transition

-----------------------------------------------------------------------------
(* The step that gives a session up.                                       *)
LEMMA GivenUp ==
  ASSUME TypeOK, CredsInv, KeptInv, [Next]_vars, pc # "activate", pc' = "activate"
  PROVE  cur'.kind = "logout" \/ rejected \/ ~disk.linked \/ sock = NoSock \/ raced = "yes"
  <1>1. CASE RunRestart
    BY <1>1 DEF RunRestart, Finish, BeginStart, KeptInv, InvalidMeansRefused
  <1>2. CASE RunReset
    <2> DEFINE tr == Head(queue)
    <2>1. /\ tr.arg = session /\ tr.kind = "reset"
          /\ tr.manual => ~ResetRefused
      BY <1>2 DEF RunReset, Take, Finish
    <2>2. tr = queue[1] /\ 1 \in 1 .. Len(queue)
      BY <1>2 DEF RunReset, Take, TypeOK
    <2>3. CASE ~tr.manual
      BY <2>1, <2>2, <2>3 DEF KeptInv, QueuedMeansRefused
    <2>4. CASE tr.manual
      <3>1. ~Linked \/ status = "session_invalid"
        BY <2>1, <2>4 DEF ResetRefused
      <3> QED
        BY <3>1 DEF Linked, KeptInv, InvalidMeansRefused, LinkedInMemory, Timely
    <2> QED
      BY <2>3, <2>4
  <1>3. CASE RunLogout
    <2>1. cur'.kind = Head(queue).kind /\ Head(queue).kind = "logout"
      <3>1. Head(queue) \in Trs /\ Head(queue).kind = "logout"
        BY <1>3, TakeType DEF RunLogout, Take
      <3> QED
        BY <1>3, <3>1 DEF RunLogout, BeginReset, Freshly, Trs
    <2> QED
      BY <2>1
  <1>4. CASE LogoutSettled
    BY <1>4 DEF LogoutSettled, BeginReset, Freshly, KeptInv, LogoutIsMeant, TypeOK, Trs
  <1>5. CASE RunStart \/ RunPair \/ Activate \/ ActivateFailed \/ BarrierSettled \/ BarrierTimeout
               \/ RetryEnds \/ Load \/ LoadFailed \/ PairSettled
    BY <1>5
    DEF RunStart, RunPair, Activate, ActivateFailed, BarrierSettled, BarrierTimeout, RetryEnds, Load,
        LoadFailed, PairSettled, BeginStart, HandOver, Fail, Finish
  <1>6. CASE ~Transition
    <2>1. pc' = pc \/ pc' = "idle"
      BY <1>6
      DEF Next, TimerFires, DeferredStart, SaveDone, SaveFailed, SaveSettles, CooldownOver, CredsUpdate,
          QrShown, NewLogin, Open, StaleClose, CloseQrExpired, CloseTransient, CloseRestart,
          CloseAuthInvalid, Closing, RequestRestart, RequestReset, RequestLogout, RequestPairCode,
          Request, Shutdown, FinalSave, ShutdownEnds, Respawn, Boot, vars, queueVars
    <2> QED
      BY <2>1
  <1> QED
    BY <1>1, <1>2, <1>3, <1>4, <1>5, <1>6 DEF Transition

\* A linked session is replaced only by a logout or after a refusal, whatever late clicks,
\* queued resets, saves and crashes come between; the two exceptions are a start that found
\* no socket and one that read the auth directory before a late update was saved.
THEOREM LinkedNeverLost == Spec => LinkedSocketKept
  <1> DEFINE Inv == TypeOK /\ CredsInv /\ KeptInv
  <1>1. Init => Inv
    BY InitType, CredsInit, KeptInit
  <1>2. Inv /\ [Next]_vars => Inv'
    BY NextType, NextCreds, InvalidStep, QueuedStep, LogoutStep, LinkedStep DEF KeptInv
  <1>3. Inv /\ [Next]_vars =>
          [pc # "activate" /\ pc' = "activate"
             => \/ cur'.kind = "logout" \/ rejected \/ ~disk.linked
                \/ sock = NoSock \/ raced = "yes"]_vars
    BY GivenUp
  <1> QED
    BY <1>1, <1>2, <1>3, PTL DEF Spec, LinkedSocketKept
=============================================================================
