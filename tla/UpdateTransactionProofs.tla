----------------------- MODULE UpdateTransactionProofs -----------------------
(***************************************************************************)
(* The safety of the updater for any number of accounts, versions, events  *)
(* and faults.  One invariant carries it: UpdateInv says which directory   *)
(* holds the good version while the task waits at each await and while the *)
(* worker thread is between two renames (PlaceInv), who owns the lock      *)
(* (LockInv), what is loaded and runs at the gate (LoadedOK) and what the  *)
(* recovery loop has done (ResumeInv).  The lemma of each part has one     *)
(* step per action.                                                        *)
(***************************************************************************)
EXTENDS UpdateTransaction, TLAPS

-----------------------------------------------------------------------------
(* The inductive invariant.                                                *)

\* How far _perform_update and _commit_update are, by the await they wait at.
Before == {"queued", "download", "extract", "deps", "discard"}
StagesOK ==
  /\ pc \in Before => tx.stage = "prepare"
  /\ pc \in {"commit", "swap", "resume"} => tx.stage = "cut"
  /\ pc \in {"page", "quiesce"} => tx.stage \in {"cut", "rollback"}
  /\ pc \in {"reload", "gate", "verify"} => tx.stage \in {"swapped", "rollback"}
  /\ pc \in {"rollback", "cleanup"} => tx.stage = "swapped"
  /\ pc \in {"restore", "report"} => tx.stage = "rollback"

\* A worker thread works for the task that awaits it.
WorkersOK ==
  /\ worker = "extract" => pc = "extract"
  /\ worker \in {"swap", "exchanged", "moved", "undoExchange", "undoMove"} => pc = "swap"
  /\ worker \in {"restore", "restoring", "discardFailed"} => pc = "restore"
  /\ worker = "cleanup" => pc = "cleanup"

LockInv ==
  /\ StagesOK /\ WorkersOK
  /\ pid # 0
  /\ pc # "none" => /\ lock = [tx |-> tx.id, pid |-> pid]
                    /\ tx.from # 0 /\ tx.target # 0

\* Behind a reload only the loaded version runs; behind the gate it is the
\* expected one, and every enabled account that was visited runs.
LoadedOK ==
  /\ pc = "gate" => /\ live.version \in {0, cur}
                    /\ \A a \in Accounts : run[a] \in {0, cur}
  /\ pc = "verify" => /\ live.version = Expected /\ cur = Expected
                      /\ \A a \in Accounts : run[a] \in {0, cur}
                      /\ \A a \in Enabled \ todo : run[a] # 0
  /\ pc = "report" /\ errors = {} => EveryoneRuns(tx.from)

\* Where the good version is, if no earlier transaction left it behind.
InCurrent ==
  \/ pc \in Before \cup {"none", "commit"}
  \/ pc \in {"page", "quiesce"} /\ tx.stage = "cut"
  \/ pc = "restore" /\ worker = "none" /\ errors = {}
  \/ pc \in {"reload", "gate", "verify"} /\ tx.stage = "rollback"
  \/ worker \in {"swap", "discardFailed", "cleanup"}
InBackup ==
  \/ worker \in {"moved", "undoMove", "restore", "restoring"}
  \/ pc = "swap" /\ worker = "none" /\ errors = {}
  \/ pc \in {"reload", "gate", "verify", "rollback"} /\ tx.stage = "swapped"
  \/ pc \in {"page", "quiesce"} /\ tx.stage = "rollback"
PlaceInv ==
  /\ good # 0 /\ GoodVersionKept
  /\ InCurrent => good \in {cur} \cup kept
  /\ worker \in {"exchanged", "undoExchange"} => good \in {staged} \cup kept
  /\ InBackup => good \in {backup} \cup kept
  /\ pc \in {"restore", "report"} => good \in {cur, backup, failed} \cup kept

\* An instance that could not be loaded starts nothing, so nothing was saved
\* under it; the accounts that were visited run, are disabled or have an error.
ResumeInv ==
  /\ tx.stage \in {"prepare", "cut"} /\ live.version = 0 => Running = {}
  /\ tx.stage = "cut" /\ pc # "commit" /\ live.version = 0 => tx.saved = {}
  /\ pc = "resume" => \A a \in tx.saved \ todo : enabled[a] /\ run[a] = 0 => a \in errors

UpdateInv == /\ TypeOK /\ LockInv /\ NotResurrected
             /\ LoadedOK /\ PlaceInv /\ ResumeInv

-----------------------------------------------------------------------------
(* Every action keeps every part.                                          *)

\* Every action keeps the ranges; some build records or choose among outcomes.
LEMMA TypeStep ==
  ASSUME TypeOK, [Next]_vars
  PROVE  TypeOK'
<1> USE UpdateAssumption DEF TypeOK, Reports, Txs, Pcs, Workers, BusyPhases, IdlePhases, Claims,
        Cutover
<1>1. CASE Begin
  BY <1>1 DEF Begin, Ok, Report, Fault, Abort, Preparing, Steps, Aside
<1>2. CASE Downloaded
  BY <1>2 DEF Downloaded, Ok, Report, Fault, Abort, Preparing, Steps, Aside
<1>3. CASE Extracted
  BY <1>3 DEF Extracted, Cancelled, Ok, Abort, Fault, Report, Preparing, Steps, Aside
<1>4. CASE Prepared
  BY <1>4 DEF Prepared, Ok, Fault, Abort, dirs, Steps, Aside
<1>5. CASE Discard
  BY <1>5 DEF Discard, Ok, WriteLogged, Preparing, Steps, Report, Fault, Aside
<1>6. CASE Finish
  <2>1. kept' \in SUBSET Nat /\ lock' \in [tx : Nat, pid : Nat]
    BY <1>6 DEF Finish, NoLock
  <2>2. tx' \in Txs
    BY <1>6 DEF Finish, NoTx
  <2> QED
    BY <1>6, <2>1, <2>2 DEF Finish, Steps, Aside
<1>7. CASE Commit
  <2> DEFINE page == tx.inst \in pages
  <2>a. Running \in SUBSET Accounts /\ page \in BOOLEAN
    BY DEF Running
  <2>b. tx' = [tx EXCEPT !.saved = Running, !.page = page]
    BY <1>7 DEF Commit
  <2> HIDE DEF page
  <2>1. tx' \in Txs
    BY <2>a, <2>b
  <2>2. /\ todo' \in SUBSET Accounts /\ state' \in Reports
        /\ errors' \in SUBSET (Accounts \cup {"page", "step"})
    BY <1>7 DEF Commit, Running, Ok, Report, Fault, ToResume
  <2> QED BY <1>7, <2>1, <2>2 DEF Commit, Ok, Fault, ToResume, dirs, Stopped, Steps, Aside
<1>8. CASE QuiescePage
  <2>1. pages' \in SUBSET Nat
    BY <1>8, pages \ {tx.inst} \in SUBSET Nat DEF QuiescePage
  <2>2. errors' \in SUBSET (Accounts \cup {"page", "step"})
    BY <1>8 DEF QuiescePage
  <2> QED BY <1>8, <2>1, <2>2 DEF QuiescePage, Ok, Fault, dirs, Stopped, Steps, Aside
<1>9. CASE QuiesceAccount
  BY <1>9 DEF QuiesceAccount, Ok, Fault, dirs, Stopped, Steps, Aside
<1>10. CASE Quiesced
  BY <1>10 DEF Quiesced, Ok, ToResume, Fault, Report, dirs, Stopped, Steps, Aside
<1>11. CASE Swapped
  BY <1>11 DEF Swapped, Ok, ToResume, WriteLogged, dirs, Stopped, Report, Fault, Steps, Aside
<1>12. CASE ResumeAccount
  BY <1>12 DEF ResumeAccount, Ok, Fault, dirs, Stopped, Steps, Aside
<1>13. CASE Resumed
  <2>1. pages' \in SUBSET Nat
    BY <1>13, pages \cup {tx.inst} \in SUBSET Nat DEF Resumed
  <2> QED
    BY <1>13, <2>1 DEF Resumed, Ok, Report, Fault, dirs, Stopped, Steps, Aside
<1>14. CASE Reload
  <2>1. live' \in [inst : Nat, version : Nat]
    BY <1>14 DEF Reload, Load
  <2>2. run' \in [Accounts -> Nat]
    BY <1>14 DEF Reload, Load
  <2>3. pages' \in SUBSET Nat
    BY <1>14, pages \ {live.inst} \in SUBSET Nat DEF Reload, Load
  <2>4. pc' \in {"gate", "report", "rollback"} /\ errors' \in {errors, {"step"}}
    <3>1. GateFailed => pc' \in {"report", "rollback"} /\ errors' = {"step"}
      BY DEF GateFailed
    <3> QED BY <1>14, <3>1, Zenon DEF Reload
  <2>5. pc' \in Pcs /\ errors' \in SUBSET (Accounts \cup {"page", "step"})
    BY <2>4
  <2>6. faults' \in Nat
    <3>1. Ok \/ Fault
      BY <1>14, Zenon DEF Reload
    <3> QED BY <3>1 DEF Ok, Fault
  <2> QED
    BY <1>14, <2>1, <2>2, <2>3, <2>5, <2>6 DEF Reload, dirs, Stopped, Steps, Aside
<1>15. CASE Gate
  BY <1>15 DEF Gate, Ok, WriteLogged, Expected, Enabled, GateFailed, dirs, Stopped, Report,
         Fault, Steps, Aside
<1>16. CASE VerifyAccount
  BY <1>16 DEF VerifyAccount, Ok, Fault, GateFailed, dirs, Stopped, Steps, Aside
<1>17. CASE Verified
  BY <1>17 DEF Verified, Ok, Report, Fault, dirs, Steps, Aside
<1>18. CASE Completed
  BY <1>18 DEF Completed, Ok, dirs, Stopped, Steps, Aside
<1>19. CASE Rollback
  BY <1>19 DEF Rollback, WriteLogged, Running, dirs, Stopped, Ok, Report, Fault, Steps, Aside
<1>20. CASE QuiescedNew
  BY <1>20 DEF QuiescedNew, Ok, dirs, Stopped, Steps, Aside
<1>21. CASE Restored
  BY <1>21 DEF Restored, Ok, dirs, Stopped, Steps, Aside
<1>22. CASE ReportRollback
  BY <1>22 DEF ReportRollback, Ok, Report, Fault, Stopped, Steps, Aside
<1>23. CASE ExtractWorker
  BY <1>23 DEF ExtractWorker, Ok, Fault, Preparing, Steps, Aside
<1>24. CASE SwapBegin
  BY <1>24 DEF SwapBegin, Ok, Fault, SwapFailed, SwapFrame, Stopped, Steps, Aside
<1>25. CASE Exchanged
  BY <1>25 DEF Exchanged, Ok, Fault, SwapFrame, Stopped, Steps, Aside
<1>26. CASE UndoExchange
  BY <1>26 DEF UndoExchange, Ok, Fault, SwapFailed, SwapFrame, Stopped, Steps, Aside
<1>27. CASE Moved
  BY <1>27 DEF Moved, Ok, Fault, SwapFrame, Stopped, Steps, Aside
<1>28. CASE UndoMove
  BY <1>28 DEF UndoMove, Ok, Fault, SwapFailed, SwapFrame, Stopped, Steps, Aside
<1>29. CASE CleanupWorker
  BY <1>29 DEF CleanupWorker, Ok, Stopped, Steps, Aside
<1>30. CASE RestoreWorker
  BY <1>30 DEF RestoreWorker, Ok, RestoreFailed, Stopped, Fault, Steps, Aside
<1>31. CASE CheckStart
  BY <1>31 DEF CheckStart, Event, Report, dirs, accounts, task, NoLock
<1>32. CASE CheckEnds
  BY <1>32 DEF CheckEnds, Ok, Report, Fault, dirs, accounts, task
<1>33. CASE Install
  <2>1. lock' \in [tx : Nat, pid : Nat]
    BY <1>33 DEF Install
  <2>2. tx' \in Txs
    <3>1. CASE UNCHANGED tx
      BY <3>1
    <3>2. CASE tx' = [NoTx EXCEPT !.id = txs + 1, !.inst = live.inst, !.from = live.version,
                                  !.target = state.target, !.stage = "prepare"]
      <4>1. tx' = [id |-> txs + 1, inst |-> live.inst, from |-> live.version,
                   target |-> state.target, saved |-> {}, page |-> FALSE, stage |-> "prepare"]
        BY <3>2 DEF NoTx
      <4> QED BY <4>1
    <3> QED BY <1>33, <3>1, <3>2, Zenon DEF Install
  <2>3. state' \in Reports /\ pc' \in Pcs
    BY <1>33 DEF Install, Report
  <2>4. txs' \in Nat /\ events' \in Nat /\ faults' \in Nat
    BY <1>33 DEF Install, Event, Ok, Fault
  <2> QED
    BY <1>33, <2>1, <2>2, <2>3, <2>4 DEF Install, dirs, accounts
<1>34. CASE MarkInterrupted
  BY <1>34 DEF MarkInterrupted, Report, dirs, accounts, task, NoLock
<1>35. CASE PageRequest
  BY <1>35 DEF PageRequest, Event, dirs, accounts, task
<1>36. CASE CancelUpdate
  <2>1. /\ state' = state \/ state' = Report("failed", tx.target, "none")
        /\ pc' \in {pc, "finish"} /\ cancel' \in {cancel, TRUE}
    BY <1>36, Zenon DEF CancelUpdate, Cancelled
  <2>2. events' \in Nat /\ faults' \in Nat
    BY <1>36 DEF CancelUpdate, Cancelled, Event, Ok, Fault
  <2>3. state' \in Reports /\ pc' \in Pcs
    BY <2>1 DEF Report
  <2>4. cancel' \in BOOLEAN
    BY <2>1
  <2> QED
    BY <1>36, <2>2, <2>3, <2>4 DEF CancelUpdate, Preparing, Aside
<1>37. CASE HotReload
  <2>1. live' \in [inst : Nat, version : Nat] /\ run' \in [Accounts -> Nat]
    BY <1>37 DEF HotReload, Load
  <2>2. pages' \in SUBSET Nat
    BY <1>37, pages \ {live.inst} \in SUBSET Nat DEF HotReload, Load
  <2> QED
    BY <1>37, <2>1, <2>2 DEF HotReload, Event, Outside, dirs, task
<1>38. CASE Respawn
  <2>1. live' \in [inst : Nat, version : Nat] /\ run' \in [Accounts -> Nat]
    BY <1>38 DEF Respawn
  <2>2. lock' \in [tx : Nat, pid : Nat] /\ state' \in Reports /\ faults' \in Nat
    BY <1>38 DEF Respawn, Recover, NoLock, Report, Ok, Fault
  <2>3. kept' \in SUBSET Nat
    BY <1>38 DEF Respawn
  <2>4. tx' \in Txs /\ pid' \in Nat /\ events' \in Nat
    BY <1>38 DEF Respawn, NoTx, Event
  <2> QED
    BY <1>38, <2>1, <2>2, <2>3, <2>4 DEF Respawn
<1>39. ASSUME NEW a \in Accounts, Enable(a) PROVE TypeOK'
  BY <1>39 DEF Enable, Event, Outside, dirs, task
<1>40. ASSUME NEW a \in Accounts, Disable(a) PROVE TypeOK'
  BY <1>40 DEF Disable, Event, Outside, dirs, task
<1>41. CASE UNCHANGED vars
  BY <1>41 DEF vars, dirs, accounts, task
<1> QED
  BY <1>1, <1>2, <1>3, <1>4, <1>5, <1>6, <1>7, <1>8, <1>9, <1>10, <1>11, <1>12, <1>13, <1>14,
     <1>15, <1>16, <1>17, <1>18, <1>19, <1>20, <1>21, <1>22, <1>23, <1>24, <1>25, <1>26, <1>27,
     <1>28, <1>29, <1>30, <1>31, <1>32, <1>33, <1>34, <1>35, <1>36, <1>37, <1>38, <1>39, <1>40,
     <1>41 DEF Next, Task, Worker

\* Only Install takes the lock, when no task holds it, and only Finish and a crash end a task.
LEMMA LockStep ==
  ASSUME TypeOK, LockInv, [Next]_vars
  PROVE  LockInv'
<1> USE TypeOK DEF LockInv, StagesOK, WorkersOK, Before
<1>1. CASE Begin
  BY <1>1 DEF Begin, Abort, Preparing, Steps, Aside
<1>2. CASE Downloaded
  BY <1>2 DEF Downloaded, Abort, Preparing, Steps, Aside
<1>3. CASE Extracted
  BY <1>3 DEF Extracted, Cancelled, Abort, Preparing, Steps, Aside
<1>4. CASE Prepared
  <2>1. tx \in Txs
    BY DEF TypeOK
  <2>2. /\ tx'.id = tx.id /\ tx'.from = tx.from /\ tx'.target = tx.target
        /\ \/ pc' = "discard" /\ tx' = tx
           \/ pc' = "commit" /\ tx'.stage = "cut"
    BY <1>4, <2>1 DEF Prepared, Abort, Txs
  <2> QED
    BY <1>4, <2>2 DEF Prepared, Abort, Steps, Aside
<1>5. CASE Discard
  BY <1>5 DEF Discard, Preparing, Steps, Aside
<1>6. CASE Finish
  BY <1>6 DEF Finish, NoLock, NoTx, Steps, Aside
<1>7. CASE Commit
  BY <1>7 DEF Commit, Running, ToResume, Stopped, Steps, Aside
<1>8. CASE QuiescePage
  BY <1>8 DEF QuiescePage, Stopped, Steps, Aside
<1>9. CASE QuiesceAccount
  BY <1>9 DEF QuiesceAccount, Stopped, Steps, Aside
<1>10. CASE Quiesced
  BY <1>10 DEF Quiesced, ToResume, Stopped, Steps, Aside
<1>11. CASE Swapped
  <2>1. tx \in Txs
    BY DEF TypeOK
  <2>2. /\ tx'.id = tx.id /\ tx'.from = tx.from /\ tx'.target = tx.target
        /\ \/ pc' = "resume" /\ tx' = tx
           \/ pc' = "reload" /\ tx'.stage = "swapped"
        /\ worker' = "none"
    BY <1>11, <2>1 DEF Swapped, ToResume, Txs
  <2> QED
    BY <1>11, <2>2 DEF Swapped, Stopped, Steps, Aside
<1>12. CASE ResumeAccount
  BY <1>12 DEF ResumeAccount, Stopped, Steps, Aside
<1>13. CASE Resumed
  BY <1>13 DEF Resumed, Stopped, Steps, Aside
<1>14. CASE Reload
  BY <1>14 DEF Reload, Enabled, GateFailed, Stopped, Steps, Aside
<1>15. CASE Gate
  BY <1>15 DEF Gate, Expected, Enabled, GateFailed, Stopped, Steps, Aside
<1>16. CASE VerifyAccount
  BY <1>16 DEF VerifyAccount, GateFailed, Stopped, Steps, Aside
<1>17. CASE Verified
  BY <1>17 DEF Verified, Steps, Aside
<1>18. CASE Completed
  BY <1>18 DEF Completed, Stopped, Steps, Aside
<1>19. CASE Rollback
  BY <1>19 DEF Rollback, Running, Stopped, Steps, Aside
<1>20. CASE QuiescedNew
  BY <1>20 DEF QuiescedNew, Stopped, Steps, Aside
<1>21. CASE Restored
  BY <1>21 DEF Restored, Stopped, Steps, Aside
<1>22. CASE ReportRollback
  BY <1>22 DEF ReportRollback, Stopped, Steps, Aside
<1>23. CASE ExtractWorker
  BY <1>23 DEF ExtractWorker, Preparing, Steps, Aside
<1>24. CASE SwapBegin
  BY <1>24 DEF SwapBegin, SwapFailed, SwapFrame, Stopped, Steps, Aside
<1>25. CASE Exchanged
  BY <1>25 DEF Exchanged, SwapFrame, Stopped, Steps, Aside
<1>26. CASE UndoExchange
  BY <1>26 DEF UndoExchange, SwapFailed, SwapFrame, Stopped, Steps, Aside
<1>27. CASE Moved
  BY <1>27 DEF Moved, SwapFrame, Stopped, Steps, Aside
<1>28. CASE UndoMove
  BY <1>28 DEF UndoMove, SwapFailed, SwapFrame, Stopped, Steps, Aside
<1>29. CASE CleanupWorker
  BY <1>29 DEF CleanupWorker, Stopped, Steps, Aside
<1>30. CASE RestoreWorker
  BY <1>30 DEF RestoreWorker, RestoreFailed, Stopped, Steps, Aside
<1>31. CASE CheckStart
  BY <1>31 DEF CheckStart, task, NoLock
<1>32. CASE CheckEnds
  BY <1>32 DEF CheckEnds, task
<1>33. CASE Install
  <2>1. pc = "none" /\ worker = "none" /\ pid' = pid /\ worker' = worker
    BY <1>33 DEF Install, NoLock, TypeOK, Workers
  <2>2. CASE UNCHANGED <<tx, pc>>
    BY <2>1, <2>2
  <2>3. CASE /\ lock' = [tx |-> txs + 1, pid |-> pid] /\ pc' = "queued"
             /\ tx' = [NoTx EXCEPT !.id = txs + 1, !.inst = live.inst, !.from = live.version,
                                   !.target = state.target, !.stage = "prepare"]
    <3>1. /\ tx'.id = txs + 1 /\ tx'.from = live.version /\ tx'.target = state.target
          /\ tx'.stage = "prepare"
      BY <2>3 DEF NoTx
    <3>2. live.version \in Nat \ {0} /\ state.target \in Nat \ {0}
      BY <1>33 DEF Install, TypeOK, Reports
    <3> QED BY <2>1, <2>3, <3>1, <3>2
  <2> QED BY <1>33, <2>2, <2>3, Zenon DEF Install
<1>34. CASE MarkInterrupted
  BY <1>34 DEF MarkInterrupted, task, NoLock
<1>35. CASE PageRequest
  BY <1>35 DEF PageRequest, task
<1>36. CASE CancelUpdate
  BY <1>36 DEF CancelUpdate, Cancelled, Preparing, Aside
<1>37. CASE HotReload
  BY <1>37 DEF HotReload, Cutover, Outside, task
<1>38. CASE Respawn
  BY <1>38 DEF Respawn, TypeOK
<1>39. ASSUME NEW a \in Accounts, Enable(a) PROVE LockInv'
  BY <1>39 DEF Enable, Outside, task
<1>40. ASSUME NEW a \in Accounts, Disable(a) PROVE LockInv'
  BY <1>40 DEF Disable, Outside, task
<1>41. CASE UNCHANGED vars
  BY <1>41 DEF vars, dirs, accounts, task
<1> QED
  BY <1>1, <1>2, <1>3, <1>4, <1>5, <1>6, <1>7, <1>8, <1>9, <1>10, <1>11, <1>12, <1>13, <1>14,
     <1>15, <1>16, <1>17, <1>18, <1>19, <1>20, <1>21, <1>22, <1>23, <1>24, <1>25, <1>26, <1>27,
     <1>28, <1>29, <1>30, <1>31, <1>32, <1>33, <1>34, <1>35, <1>36, <1>37, <1>38, <1>39, <1>40,
     <1>41 DEF Next, Task, Worker

\* Every start asks the configuration: ResumeAccount, Load, Enable and Respawn.
LEMMA NotResurrectedStep ==
  ASSUME TypeOK, NotResurrected, [Next]_vars
  PROVE  NotResurrected'
<1> USE TypeOK DEF NotResurrected
<1>1. CASE Begin
  BY <1>1 DEF Begin, Preparing, Steps, Aside
<1>2. CASE Downloaded
  BY <1>2 DEF Downloaded, Preparing, Steps, Aside
<1>3. CASE Extracted
  BY <1>3 DEF Extracted, Preparing, Steps, Aside
<1>4. CASE Prepared
  BY <1>4 DEF Prepared, Steps, Aside
<1>5. CASE Discard
  BY <1>5 DEF Discard, Preparing, Steps, Aside
<1>6. CASE Finish
  BY <1>6 DEF Finish, Steps, Aside
<1>7. CASE Commit
  BY <1>7 DEF Commit, Running, Stopped, Steps, Aside
<1>8. CASE QuiescePage
  BY <1>8 DEF QuiescePage, Stopped, Steps, Aside
<1>9. CASE QuiesceAccount
  BY <1>9 DEF QuiesceAccount, Ok, Fault, dirs, Stopped, Steps, Aside, TypeOK
<1>10. CASE Quiesced
  BY <1>10 DEF Quiesced, Stopped, Steps, Aside
<1>11. CASE Swapped
  BY <1>11 DEF Swapped, Stopped, Steps, Aside
<1>12. CASE ResumeAccount
  BY <1>12 DEF ResumeAccount, Ok, Fault, dirs, Stopped, Steps, Aside, TypeOK
<1>13. CASE Resumed
  BY <1>13 DEF Resumed, Stopped, Steps, Aside
<1>14. CASE Reload
  BY <1>14 DEF Reload, Load, Enabled, Stopped, Steps, Aside
<1>15. CASE Gate
  BY <1>15 DEF Gate, Expected, Enabled, Stopped, Steps, Aside
<1>16. CASE VerifyAccount
  BY <1>16 DEF VerifyAccount, Stopped, Steps, Aside
<1>17. CASE Verified
  BY <1>17 DEF Verified, Steps, Aside
<1>18. CASE Completed
  BY <1>18 DEF Completed, Stopped, Steps, Aside
<1>19. CASE Rollback
  BY <1>19 DEF Rollback, Running, Stopped, Steps, Aside
<1>20. CASE QuiescedNew
  BY <1>20 DEF QuiescedNew, Stopped, Steps, Aside
<1>21. CASE Restored
  BY <1>21 DEF Restored, Stopped, Steps, Aside
<1>22. CASE ReportRollback
  BY <1>22 DEF ReportRollback, Stopped, Steps, Aside
<1>23. CASE ExtractWorker
  BY <1>23 DEF ExtractWorker, Preparing, Steps, Aside
<1>24. CASE SwapBegin
  BY <1>24 DEF SwapBegin, SwapFrame, Stopped, Steps, Aside
<1>25. CASE Exchanged
  BY <1>25 DEF Exchanged, SwapFrame, Stopped, Steps, Aside
<1>26. CASE UndoExchange
  BY <1>26 DEF UndoExchange, SwapFrame, Stopped, Steps, Aside
<1>27. CASE Moved
  BY <1>27 DEF Moved, SwapFrame, Stopped, Steps, Aside
<1>28. CASE UndoMove
  BY <1>28 DEF UndoMove, SwapFrame, Stopped, Steps, Aside
<1>29. CASE CleanupWorker
  BY <1>29 DEF CleanupWorker, Stopped, Steps, Aside
<1>30. CASE RestoreWorker
  BY <1>30 DEF RestoreWorker, Stopped, Steps, Aside
<1>31. CASE CheckStart
  BY <1>31 DEF CheckStart, accounts
<1>32. CASE CheckEnds
  BY <1>32 DEF CheckEnds, accounts
<1>33. CASE Install
  BY <1>33 DEF Install, accounts
<1>34. CASE MarkInterrupted
  BY <1>34 DEF MarkInterrupted, accounts
<1>35. CASE PageRequest
  BY <1>35 DEF PageRequest, accounts
<1>36. CASE CancelUpdate
  BY <1>36 DEF CancelUpdate, Preparing, Aside
<1>37. CASE HotReload
  BY <1>37 DEF HotReload, Cutover, Load
<1>38. CASE Respawn
  BY <1>38 DEF Respawn
<1>39. ASSUME NEW a \in Accounts, Enable(a) PROVE NotResurrected'
  BY <1>39 DEF Enable, TypeOK
<1>40. ASSUME NEW a \in Accounts, Disable(a) PROVE NotResurrected'
  BY <1>40 DEF Disable, TypeOK
<1>41. CASE UNCHANGED vars
  BY <1>41 DEF vars, dirs, accounts, task
<1> QED
  BY <1>1, <1>2, <1>3, <1>4, <1>5, <1>6, <1>7, <1>8, <1>9, <1>10, <1>11, <1>12, <1>13, <1>14,
     <1>15, <1>16, <1>17, <1>18, <1>19, <1>20, <1>21, <1>22, <1>23, <1>24, <1>25, <1>26, <1>27,
     <1>28, <1>29, <1>30, <1>31, <1>32, <1>33, <1>34, <1>35, <1>36, <1>37, <1>38, <1>39, <1>40,
     <1>41 DEF Next, Task, Worker

\* A rename moves the good version to the directory the invariant names next.
LEMMA PlaceStep ==
  ASSUME TypeOK, LockInv, LoadedOK, PlaceInv, [Next]_vars
  PROVE  PlaceInv'
<1> USE TypeOK, LockInv DEF PlaceInv, GoodVersionKept, InCurrent, InBackup, Before
<1>1. CASE Begin
  BY <1>1 DEF Begin, Abort, Preparing
<1>2. CASE Downloaded
  BY <1>2 DEF Downloaded, Abort, Preparing
<1>3. CASE Extracted
  BY <1>3 DEF Extracted, Cancelled, Abort, Preparing
<1>4. CASE Prepared
  BY <1>4 DEF Prepared, Abort, dirs
<1>5. CASE Discard
  BY <1>5 DEF Discard, Preparing, LockInv, StagesOK, WorkersOK, TypeOK
<1>6. CASE Finish
  BY <1>6 DEF Finish, NoTx
<1>7. CASE Commit
  BY <1>7 DEF Commit, Running, ToResume, dirs, Stopped, LockInv, StagesOK, WorkersOK, TypeOK
<1>8. CASE QuiescePage
  BY <1>8 DEF QuiescePage, dirs, Stopped
<1>9. CASE QuiesceAccount
  BY <1>9 DEF QuiesceAccount, dirs, Stopped
<1>10. CASE Quiesced
  BY <1>10 DEF Quiesced, ToResume, dirs, Stopped
<1>11. CASE Swapped
  <2>1. tx \in Txs
    BY DEF TypeOK
  <2>2. \/ errors # {} /\ pc' = "resume" /\ tx' = tx
        \/ errors = {} /\ pc' = "reload" /\ tx'.stage = "swapped"
    BY <1>11, <2>1 DEF Swapped, ToResume, Txs
  <2>3. worker' = "none" /\ UNCHANGED <<cur, staged, backup, failed, kept, good>>
    BY <1>11 DEF Swapped, ToResume, dirs, Stopped
  <2> QED BY <1>11, <2>2, <2>3 DEF Swapped
<1>12. CASE ResumeAccount
  BY <1>12 DEF ResumeAccount, dirs, Stopped
<1>13. CASE Resumed
  BY <1>13 DEF Resumed, dirs, Stopped
<1>14. CASE Reload
  BY <1>14 DEF Reload, Enabled, GateFailed, dirs, Stopped
<1>15. CASE Gate
  BY <1>15 DEF Gate, Expected, Enabled, GateFailed, dirs, Stopped
<1>16. CASE VerifyAccount
  BY <1>16 DEF VerifyAccount, GateFailed, dirs, Stopped
<1>17. CASE Verified
  BY <1>17 DEF Verified, dirs, LockInv, StagesOK, WorkersOK, TypeOK, LoadedOK, Expected
<1>18. CASE Completed
  BY <1>18 DEF Completed, dirs, Stopped
<1>19. CASE Rollback
  BY <1>19 DEF Rollback, Running, dirs, Stopped, LockInv, StagesOK, WorkersOK, TypeOK
<1>20. CASE QuiescedNew
  BY <1>20 DEF QuiescedNew, dirs, Stopped
<1>21. CASE Restored
  BY <1>21 DEF Restored, dirs, Stopped, LockInv, StagesOK, WorkersOK, TypeOK
<1>22. CASE ReportRollback
  BY <1>22 DEF ReportRollback, Stopped, LockInv, StagesOK, WorkersOK, TypeOK
<1>23. CASE ExtractWorker
  BY <1>23 DEF ExtractWorker, Preparing, LockInv, StagesOK, WorkersOK, TypeOK
<1>24. CASE SwapBegin
  BY <1>24 DEF SwapBegin, SwapFailed, SwapFrame, Stopped, LockInv, StagesOK, WorkersOK, TypeOK
<1>25. CASE Exchanged
  BY <1>25 DEF Exchanged, SwapFrame, Stopped, LockInv, StagesOK, WorkersOK, TypeOK
<1>26. CASE UndoExchange
  BY <1>26 DEF UndoExchange, SwapFailed, SwapFrame, Stopped
<1>27. CASE Moved
  BY <1>27 DEF Moved, SwapFrame, Stopped, LockInv, StagesOK, WorkersOK, TypeOK
<1>28. CASE UndoMove
  BY <1>28 DEF UndoMove, SwapFailed, SwapFrame, Stopped, LockInv, StagesOK, WorkersOK, TypeOK
<1>29. CASE CleanupWorker
  BY <1>29 DEF CleanupWorker, Stopped, LockInv, StagesOK, WorkersOK, TypeOK
<1>30. CASE RestoreWorker
  BY <1>30 DEF RestoreWorker, RestoreFailed, Stopped, LockInv, StagesOK, WorkersOK, TypeOK
<1>31. CASE CheckStart
  BY <1>31 DEF CheckStart, dirs, task
<1>32. CASE CheckEnds
  BY <1>32 DEF CheckEnds, dirs, task
<1>33. CASE Install
  BY <1>33 DEF Install, NoTx, dirs, LockInv, StagesOK, WorkersOK, TypeOK, NoLock
<1>34. CASE MarkInterrupted
  BY <1>34 DEF MarkInterrupted, dirs, task
<1>35. CASE PageRequest
  BY <1>35 DEF PageRequest, dirs, task
<1>36. CASE CancelUpdate
  BY <1>36 DEF CancelUpdate, Cancelled, Preparing
<1>37. CASE HotReload
  BY <1>37 DEF HotReload, Cutover, Outside, dirs, task
<1>38. CASE Respawn
  BY <1>38 DEF Respawn, NoTx
<1>39. ASSUME NEW a \in Accounts, Enable(a) PROVE PlaceInv'
  BY <1>39 DEF Enable, Outside, dirs, task
<1>40. ASSUME NEW a \in Accounts, Disable(a) PROVE PlaceInv'
  BY <1>40 DEF Disable, Outside, dirs, task
<1>41. CASE UNCHANGED vars
  BY <1>41 DEF vars, dirs, accounts, task
<1> QED
  BY <1>1, <1>2, <1>3, <1>4, <1>5, <1>6, <1>7, <1>8, <1>9, <1>10, <1>11, <1>12, <1>13, <1>14,
     <1>15, <1>16, <1>17, <1>18, <1>19, <1>20, <1>21, <1>22, <1>23, <1>24, <1>25, <1>26, <1>27,
     <1>28, <1>29, <1>30, <1>31, <1>32, <1>33, <1>34, <1>35, <1>36, <1>37, <1>38, <1>39, <1>40,
     <1>41 DEF Next, Task, Worker

\* What a reload loads is what PLUGIN_DIR holds, until the gate has passed or failed.
LEMMA LoadedStep ==
  ASSUME TypeOK, LockInv, NotResurrected, LoadedOK, [Next]_vars
  PROVE  LoadedOK'
<1> USE TypeOK, LockInv, NotResurrected DEF LoadedOK, Expected, Enabled, EveryoneRuns
<1>1. CASE Begin
  BY <1>1 DEF Begin, Abort, Preparing, Steps, Aside
<1>2. CASE Downloaded
  BY <1>2 DEF Downloaded, Abort, Preparing, Steps, Aside
<1>3. CASE Extracted
  BY <1>3 DEF Extracted, Cancelled, Abort, Preparing, Steps, Aside
<1>4. CASE Prepared
  BY <1>4 DEF Prepared, Abort, dirs, Steps, Aside
<1>5. CASE Discard
  BY <1>5 DEF Discard, Preparing, Steps, Aside
<1>6. CASE Finish
  BY <1>6 DEF Finish, NoTx, Steps, Aside
<1>7. CASE Commit
  BY <1>7 DEF Commit, Running, ToResume, dirs, Stopped, Steps, Aside
<1>8. CASE QuiescePage
  BY <1>8 DEF QuiescePage, dirs, Stopped, Steps, Aside
<1>9. CASE QuiesceAccount
  BY <1>9 DEF QuiesceAccount, dirs, Stopped, Steps, Aside
<1>10. CASE Quiesced
  BY <1>10 DEF Quiesced, ToResume, dirs, Stopped, Steps, Aside
<1>11. CASE Swapped
  BY <1>11 DEF Swapped, ToResume, dirs, Stopped, Steps, Aside
<1>12. CASE ResumeAccount
  BY <1>12 DEF ResumeAccount, dirs, Stopped, Steps, Aside
<1>13. CASE Resumed
  BY <1>13 DEF Resumed, dirs, Stopped, Steps, Aside
<1>14. CASE Reload
  BY <1>14 DEF Reload, Load, GateFailed, dirs, Stopped, Steps, Aside, LockInv, StagesOK,
         WorkersOK, TypeOK, NotResurrected
<1>15. CASE Gate
  BY <1>15 DEF Gate, GateFailed, dirs, Stopped, Steps, Aside, LockInv, StagesOK, WorkersOK,
         TypeOK, NotResurrected
<1>16. CASE VerifyAccount
  BY <1>16 DEF VerifyAccount, GateFailed, dirs, Stopped, Steps, Aside
<1>17. CASE Verified
  BY <1>17 DEF Verified, dirs, Steps, Aside
<1>18. CASE Completed
  BY <1>18 DEF Completed, dirs, Stopped, Steps, Aside
<1>19. CASE Rollback
  BY <1>19 DEF Rollback, Running, dirs, Stopped, Steps, Aside
<1>20. CASE QuiescedNew
  BY <1>20 DEF QuiescedNew, dirs, Stopped, Steps, Aside
<1>21. CASE Restored
  BY <1>21 DEF Restored, dirs, Stopped, Steps, Aside
<1>22. CASE ReportRollback
  BY <1>22 DEF ReportRollback, Stopped, Steps, Aside
<1>23. CASE ExtractWorker
  BY <1>23 DEF ExtractWorker, Preparing, Steps, Aside
<1>24. CASE SwapBegin
  BY <1>24 DEF SwapBegin, SwapFailed, SwapFrame, Stopped, Steps, Aside, LockInv, StagesOK,
         WorkersOK, TypeOK, NotResurrected
<1>25. CASE Exchanged
  BY <1>25 DEF Exchanged, SwapFrame, Stopped, Steps, Aside
<1>26. CASE UndoExchange
  BY <1>26 DEF UndoExchange, SwapFailed, SwapFrame, Stopped, Steps, Aside, LockInv, StagesOK,
         WorkersOK, TypeOK, NotResurrected
<1>27. CASE Moved
  BY <1>27 DEF Moved, SwapFrame, Stopped, Steps, Aside, LockInv, StagesOK, WorkersOK, TypeOK,
         NotResurrected
<1>28. CASE UndoMove
  BY <1>28 DEF UndoMove, SwapFailed, SwapFrame, Stopped, Steps, Aside, LockInv, StagesOK,
         WorkersOK, TypeOK, NotResurrected
<1>29. CASE CleanupWorker
  BY <1>29 DEF CleanupWorker, Stopped, Steps, Aside
<1>30. CASE RestoreWorker
  BY <1>30 DEF RestoreWorker, RestoreFailed, Stopped, Steps, Aside, LockInv, StagesOK,
         WorkersOK, TypeOK, NotResurrected
<1>31. CASE CheckStart
  BY <1>31 DEF CheckStart, dirs, accounts, task
<1>32. CASE CheckEnds
  BY <1>32 DEF CheckEnds, dirs, accounts, task
<1>33. CASE Install
  BY <1>33 DEF Install, NoTx, dirs, accounts
<1>34. CASE MarkInterrupted
  BY <1>34 DEF MarkInterrupted, dirs, accounts, task
<1>35. CASE PageRequest
  BY <1>35 DEF PageRequest, dirs, accounts, task
<1>36. CASE CancelUpdate
  BY <1>36 DEF CancelUpdate, Cancelled, Preparing, Aside
<1>37. CASE HotReload
  BY <1>37 DEF HotReload, Cutover, Load, Outside, dirs, task
<1>38. CASE Respawn
  BY <1>38 DEF Respawn, NoTx
<1>39. ASSUME NEW a \in Accounts, Enable(a) PROVE LoadedOK'
  BY <1>39 DEF Enable, Outside, dirs, task, LockInv, StagesOK, WorkersOK, TypeOK, NotResurrected
<1>40. ASSUME NEW a \in Accounts, Disable(a) PROVE LoadedOK'
  BY <1>40 DEF Disable, Outside, dirs, task, LockInv, StagesOK, WorkersOK, TypeOK,
         NotResurrected
<1>41. CASE UNCHANGED vars
  BY <1>41 DEF vars, dirs, accounts, task
<1> QED
  BY <1>1, <1>2, <1>3, <1>4, <1>5, <1>6, <1>7, <1>8, <1>9, <1>10, <1>11, <1>12, <1>13, <1>14,
     <1>15, <1>16, <1>17, <1>18, <1>19, <1>20, <1>21, <1>22, <1>23, <1>24, <1>25, <1>26, <1>27,
     <1>28, <1>29, <1>30, <1>31, <1>32, <1>33, <1>34, <1>35, <1>36, <1>37, <1>38, <1>39, <1>40,
     <1>41 DEF Next, Task, Worker

\* An account leaves todo running, disabled, or with an error of its own.
LEMMA ResumeStep ==
  ASSUME TypeOK, LockInv, NotResurrected, ResumeInv, [Next]_vars
  PROVE  ResumeInv'
<1> USE TypeOK, LockInv, NotResurrected DEF ResumeInv, Running
<1>1. CASE Begin
  BY <1>1 DEF Begin, Abort, Preparing, Steps, Aside
<1>2. CASE Downloaded
  BY <1>2 DEF Downloaded, Abort, Preparing, Steps, Aside
<1>3. CASE Extracted
  BY <1>3 DEF Extracted, Cancelled, Abort, Preparing, Steps, Aside
<1>4. CASE Prepared
  <2>1. tx \in Txs
    BY DEF TypeOK
  <2>2. \/ pc' = "discard" /\ tx' = tx
        \/ pc' = "commit" /\ tx'.stage = "cut"
    BY <1>4, <2>1 DEF Prepared, Abort, Txs
  <2>3. tx.stage = "prepare" /\ UNCHANGED <<live, run, enabled>>
    BY <1>4 DEF Prepared, Steps, Aside, LockInv, StagesOK, Before
  <2> QED BY <2>2, <2>3
<1>5. CASE Discard
  BY <1>5 DEF Discard, Preparing, Steps, Aside
<1>6. CASE Finish
  BY <1>6 DEF Finish, NoTx, Steps, Aside
<1>7. CASE Commit
  BY <1>7 DEF Commit, ToResume, Stopped, Steps, Aside
<1>8. CASE QuiescePage
  BY <1>8 DEF QuiescePage, Stopped, Steps, Aside
<1>9. CASE QuiesceAccount
  BY <1>9 DEF QuiesceAccount, Stopped, Steps, Aside, LockInv, StagesOK, WorkersOK, TypeOK,
         NotResurrected
<1>10. CASE Quiesced
  BY <1>10 DEF Quiesced, ToResume, Stopped, Steps, Aside
<1>11. CASE Swapped
  <2>1. tx \in Txs
    BY DEF TypeOK
  <2>2. \/ pc' = "resume" /\ todo' = tx.saved /\ tx' = tx
        \/ pc' = "reload" /\ tx'.stage = "swapped"
    BY <1>11, <2>1 DEF Swapped, ToResume, Txs
  <2>3. tx.stage = "cut" /\ pc = "swap" /\ UNCHANGED <<live, run, enabled>>
    BY <1>11 DEF Swapped, Stopped, Steps, Aside, LockInv, StagesOK
  <2> QED BY <2>2, <2>3
<1>12. CASE ResumeAccount
  <2>1. /\ tx.stage = "cut" /\ pc = "resume" /\ pc' = "resume"
        /\ UNCHANGED <<live, tx, enabled>>
    BY <1>12 DEF ResumeAccount, Stopped, Steps, Aside, LockInv, StagesOK
  <2>2. PICK a \in todo :
          /\ todo' = todo \ {a}
          /\ \/ ~enabled[a] /\ UNCHANGED <<run, errors>>
             \/ enabled[a] /\ run' = [run EXCEPT ![a] = live.version] /\ UNCHANGED errors
             \/ /\ errors' = errors \cup {a}
                /\ run' \in {[run EXCEPT ![a] = v] : v \in {0, live.version}}
    BY <1>12 DEF ResumeAccount
  <2>3. a \in Accounts /\ run \in [Accounts -> Nat] /\ tx.saved \subseteq Accounts
    BY DEF TypeOK, Txs
  <2>4. live.version = 0 => Running' = {}
    BY <2>1, <2>2, <2>3
  <2>5. ASSUME NEW b \in tx.saved \ todo', enabled[b], run'[b] = 0
        PROVE  b \in errors'
    <3>1. CASE b = a
      BY <2>1, <2>2, <2>3, <2>5, <3>1
    <3>2. CASE b # a
      BY <2>1, <2>2, <2>3, <2>5, <3>2
    <3> QED BY <3>1, <3>2
  <2> QED BY <2>1, <2>4, <2>5
<1>13. CASE Resumed
  BY <1>13 DEF Resumed, Stopped, Steps, Aside
<1>14. CASE Reload
  BY <1>14 DEF Reload, Load, Enabled, GateFailed, Stopped, Steps, Aside, LockInv, StagesOK,
         WorkersOK, TypeOK, NotResurrected
<1>15. CASE Gate
  BY <1>15 DEF Gate, Expected, Enabled, GateFailed, Stopped, Steps, Aside
<1>16. CASE VerifyAccount
  BY <1>16 DEF VerifyAccount, GateFailed, Stopped, Steps, Aside
<1>17. CASE Verified
  BY <1>17 DEF Verified, Steps, Aside
<1>18. CASE Completed
  BY <1>18 DEF Completed, Stopped, Steps, Aside
<1>19. CASE Rollback
  BY <1>19 DEF Rollback, Stopped, Steps, Aside
<1>20. CASE QuiescedNew
  BY <1>20 DEF QuiescedNew, Stopped, Steps, Aside
<1>21. CASE Restored
  BY <1>21 DEF Restored, Stopped, Steps, Aside
<1>22. CASE ReportRollback
  BY <1>22 DEF ReportRollback, Stopped, Steps, Aside
<1>23. CASE ExtractWorker
  BY <1>23 DEF ExtractWorker, Preparing, Steps, Aside, LockInv, StagesOK, WorkersOK, TypeOK,
         NotResurrected
<1>24. CASE SwapBegin
  BY <1>24 DEF SwapBegin, SwapFailed, SwapFrame, Stopped, Steps, Aside, LockInv, StagesOK,
         WorkersOK, TypeOK, NotResurrected
<1>25. CASE Exchanged
  BY <1>25 DEF Exchanged, SwapFrame, Stopped, Steps, Aside
<1>26. CASE UndoExchange
  BY <1>26 DEF UndoExchange, SwapFailed, SwapFrame, Stopped, Steps, Aside, LockInv, StagesOK,
         WorkersOK, TypeOK, NotResurrected
<1>27. CASE Moved
  BY <1>27 DEF Moved, SwapFrame, Stopped, Steps, Aside
<1>28. CASE UndoMove
  BY <1>28 DEF UndoMove, SwapFailed, SwapFrame, Stopped, Steps, Aside, LockInv, StagesOK,
         WorkersOK, TypeOK, NotResurrected
<1>29. CASE CleanupWorker
  BY <1>29 DEF CleanupWorker, Stopped, Steps, Aside
<1>30. CASE RestoreWorker
  BY <1>30 DEF RestoreWorker, RestoreFailed, Stopped, Steps, Aside, LockInv, StagesOK,
         WorkersOK, TypeOK, NotResurrected
<1>31. CASE CheckStart
  BY <1>31 DEF CheckStart, accounts, task
<1>32. CASE CheckEnds
  BY <1>32 DEF CheckEnds, accounts, task
<1>33. CASE Install
  BY <1>33 DEF Install, NoTx, accounts
<1>34. CASE MarkInterrupted
  BY <1>34 DEF MarkInterrupted, accounts, task
<1>35. CASE PageRequest
  BY <1>35 DEF PageRequest, accounts, task
<1>36. CASE CancelUpdate
  BY <1>36 DEF CancelUpdate, Cancelled, Preparing, Aside
<1>37. CASE HotReload
  BY <1>37 DEF HotReload, Cutover, Load, Outside, task, LockInv, StagesOK, WorkersOK, TypeOK,
         NotResurrected
<1>38. CASE Respawn
  BY <1>38 DEF Respawn, NoTx
<1>39. ASSUME NEW a \in Accounts, Enable(a) PROVE ResumeInv'
  BY <1>39 DEF Enable, Outside, task, LockInv, StagesOK, WorkersOK, TypeOK, NotResurrected
<1>40. ASSUME NEW a \in Accounts, Disable(a) PROVE ResumeInv'
  BY <1>40 DEF Disable, Outside, task, LockInv, StagesOK, WorkersOK, TypeOK, NotResurrected
<1>41. CASE UNCHANGED vars
  BY <1>41 DEF vars, dirs, accounts, task
<1> QED
  BY <1>1, <1>2, <1>3, <1>4, <1>5, <1>6, <1>7, <1>8, <1>9, <1>10, <1>11, <1>12, <1>13, <1>14,
     <1>15, <1>16, <1>17, <1>18, <1>19, <1>20, <1>21, <1>22, <1>23, <1>24, <1>25, <1>26, <1>27,
     <1>28, <1>29, <1>30, <1>31, <1>32, <1>33, <1>34, <1>35, <1>36, <1>37, <1>38, <1>39, <1>40,
     <1>41 DEF Next, Task, Worker

-----------------------------------------------------------------------------
(* The theorems.                                                           *)

\* Each claim about an outcome is written by one action alone.
LEMMA ReportedBy ==
  ASSUME [Next]_vars, state' # state
  PROVE  /\ state'.phase = "completed" => Verified
         /\ state'.claim = "rolledBack" => ReportRollback
         /\ state'.claim \in {"restored", "notRestored"} => Resumed
<1>1. CASE Begin
  BY <1>1 DEF Begin, Ok, Report, Abort, Preparing
<1>2. CASE Downloaded
  BY <1>2 DEF Downloaded, Ok, Report, Abort, Preparing
<1>3. CASE Extracted
  BY <1>3 DEF Extracted, Cancelled, Ok, Abort, Report, Preparing
<1>4. CASE Discard
  BY <1>4 DEF Discard, Ok, WriteLogged, Preparing, Report
<1>5. CASE Commit
  BY <1>5 DEF Commit, Ok, Report, ToResume
<1>6. CASE Quiesced
  BY <1>6 DEF Quiesced, Ok, ToResume, Report
<1>7. CASE Swapped
  BY <1>7 DEF Swapped, Ok, ToResume, WriteLogged, Report
<1>8. CASE Gate
  BY <1>8 DEF Gate, Ok, WriteLogged, Report
<1>9. CASE Rollback
  BY <1>9 DEF Rollback, WriteLogged, Ok, Report
<1>10. CASE CheckStart
  BY <1>10 DEF CheckStart, Report
<1>11. CASE CheckEnds
  BY <1>11 DEF CheckEnds, Ok, Report
<1>12. CASE Install
  BY <1>12 DEF Install, Ok, Report
<1>13. CASE MarkInterrupted
  BY <1>13 DEF MarkInterrupted, Report
<1>14. CASE CancelUpdate
  BY <1>14 DEF CancelUpdate, Cancelled, Ok, Preparing, Report
<1>15. CASE Respawn
  BY <1>15 DEF Respawn, Ok, Recover, Report
<1>16. CASE Worker
  BY <1>16 DEF Worker, ExtractWorker, SwapBegin, Exchanged, UndoExchange, Moved, UndoMove,
         CleanupWorker, RestoreWorker, Preparing, SwapFrame
<1>17. CASE Prepared \/ Finish \/ QuiescePage \/ QuiesceAccount \/ ResumeAccount
  BY <1>17 DEF Prepared, Finish, QuiescePage, QuiesceAccount, ResumeAccount, Abort
<1>18. CASE Reload \/ VerifyAccount \/ Completed \/ QuiescedNew \/ Restored
  BY <1>18 DEF Reload, VerifyAccount, Completed, QuiescedNew, Restored
<1>19. CASE PageRequest \/ HotReload \/ \E a \in Accounts : Enable(a) \/ Disable(a)
  BY <1>19 DEF PageRequest, HotReload, Enable, Disable
<1>20. CASE UNCHANGED vars
  BY <1>20 DEF vars
<1>21. CASE Verified
  BY <1>21 DEF Verified, Report
<1>22. CASE ReportRollback
  BY <1>22 DEF ReportRollback, Report
<1>23. CASE Resumed
  BY <1>23 DEF Resumed, Report
<1> QED
  BY <1>1, <1>2, <1>3, <1>4, <1>5, <1>6, <1>7, <1>8, <1>9, <1>10, <1>11, <1>12, <1>13, <1>14,
     <1>15, <1>16, <1>17, <1>18, <1>19, <1>20, <1>21, <1>22, <1>23 DEF Next, Task

\* The plugin as it is installed.
LEMMA Initially == Init => UpdateInv
<1> SUFFICES ASSUME Init PROVE UpdateInv
  OBVIOUS
<1>1. TypeOK
  BY UpdateAssumption DEF Init, TypeOK, NoTx, NoLock, Txs, Reports, IdlePhases, BusyPhases, Claims,
     Pcs, Workers, Cutover
<1>2. LockInv
  BY DEF Init, NoTx, LockInv, StagesOK, WorkersOK, Before
<1>3. NotResurrected
  BY DEF Init, NotResurrected
<1>4. LoadedOK
  BY DEF Init, LoadedOK
<1>5. PlaceInv
  BY DEF Init, PlaceInv, InCurrent, InBackup, GoodVersionKept
<1>6. ResumeInv
  BY DEF Init, ResumeInv, NoTx
<1> QED
  BY <1>1, <1>2, <1>3, <1>4, <1>5, <1>6 DEF UpdateInv

\* UpdateInv holds in every state: the five lemmas above are its induction step.
THEOREM Invariant == Spec => []UpdateInv
<1>1. UpdateInv /\ [Next]_vars => UpdateInv'
  BY TypeStep, LockStep, NotResurrectedStep, LoadedStep, PlaceStep, ResumeStep DEF UpdateInv
<1> QED
  BY Initially, <1>1, PTL DEF Spec

\* Every variable of the updater keeps the range the code gives it.
THEOREM TypeCorrect == Spec => []TypeOK
<1>1. UpdateInv => TypeOK
  BY DEF UpdateInv
<1> QED
  BY Invariant, <1>1, PTL

\* For any accounts and faults, the transaction lock of plugin_updater.py is held by the
\* transaction of the running task as long as that task or its worker thread runs.
THEOREM LockAlwaysHeld == Spec => []LockHeldThroughout
<1>1. UpdateInv => LockHeldThroughout
  BY DEF UpdateInv, LockInv, WorkersOK, LockHeldThroughout, TypeOK, Workers
<1> QED
  BY Invariant, <1>1, PTL

\* However long the sequence of updates, recoveries, reloads and crashes, an account that the
\* operator disabled does not run (_resume_quiesced_runtime, AstrBot's loader).
THEOREM DisabledStaysOff == Spec => []NotResurrected
<1>1. UpdateInv => NotResurrected
  BY DEF UpdateInv
<1> QED
  BY Invariant, <1>1, PTL

\* No sequence of failed renames, undone swaps, rollbacks and crashes removes the last version
\* that passed the health gate (atomic_swap_plugin, restore_plugin_backup and the clean-ups).
THEOREM GoodVersionNeverLost == Spec => []GoodVersionKept
<1>1. UpdateInv => GoodVersionKept
  BY DEF UpdateInv, PlaceInv
<1> QED
  BY Invariant, <1>1, PTL

\* "completed" and "rolledBack" are recorded only when the installed, the loaded and every
\* running version are the claimed one (_commit_update, _rollback_update).
THEOREM ClaimsAreReal == Spec => OutcomeIsReal
<1> DEFINE Real == state' # state =>
                     /\ state'.phase = "completed" => EveryoneRuns(tx.target)
                     /\ state'.claim = "rolledBack" => EveryoneRuns(tx.from)
<1>1. UpdateInv /\ [Next]_vars => [Real]_vars
  <2> SUFFICES ASSUME UpdateInv, [Next]_vars, state' # state PROVE Real
    OBVIOUS
  <2>1. ASSUME Verified, state'.phase = "completed" PROVE EveryoneRuns(tx.target)
    <3>1. pc = "verify" /\ todo = {} /\ tx.stage # "rollback"
      BY <2>1 DEF Verified
    <3> QED
      BY <3>1 DEF UpdateInv, LoadedOK, Expected, EveryoneRuns, Enabled
  <2>2. ASSUME ReportRollback, state'.claim = "rolledBack" PROVE EveryoneRuns(tx.from)
    <3>1. pc = "report" /\ errors = {}
      BY <2>2 DEF ReportRollback, Report
    <3> QED
      BY <3>1 DEF UpdateInv, LoadedOK
  <2> QED
    BY <2>1, <2>2, ReportedBy
<1> QED
  BY <1>1, Invariant, PTL DEF Spec, OutcomeIsReal

\* runtimeRestored is recorded only when every saved account still enabled runs; otherwise
\* each one that does not has its own error (_resume_quiesced_runtime).
THEOREM RecoveryClaimsAreHonest == Spec => RecoveryIsHonest
<1> DEFINE Honest == state' # state /\ state'.claim \in {"restored", "notRestored"} =>
                       /\ {a \in tx.saved : enabled[a] /\ run[a] = 0} \subseteq errors
                       /\ state'.claim = "restored" => errors = {}
<1>1. UpdateInv /\ [Next]_vars => [Honest]_vars
  <2> SUFFICES ASSUME UpdateInv, [Next]_vars, state' # state,
                      state'.claim \in {"restored", "notRestored"}
               PROVE  Honest
    OBVIOUS
  <2>1. Resumed
    BY ReportedBy
  <2>2. pc = "resume" /\ todo = {} /\ (state'.claim = "restored" => errors = {})
    BY <2>1 DEF Resumed, Report
  <2> QED
    BY <2>2 DEF UpdateInv, ResumeInv
<1> QED
  BY <1>1, Invariant, PTL DEF Spec, RecoveryIsHonest
=============================================================================
