-------------------------- MODULE UpdateTransaction --------------------------
(***************************************************************************)
(* The plugin's own updater: the release check, the install transaction    *)
(* and its recovery (main.py), the directory swap and the transaction lock *)
(* (plugin_updater.py), and the deferral of cancellation                   *)
(* (update_lifecycle.py).                                                  *)
(*                                                                         *)
(* asyncio runs one task at a time, so one action is the code between two  *)
(* awaits; a filesystem worker is a thread whose renames are separate      *)
(* actions; the process may die between any two of them.  A version stands *)
(* for a whole plugin directory, and 0 for a directory that is not there.  *)
(***************************************************************************)
EXTENDS Naturals, FiniteSets

CONSTANTS
  Accounts,   \* ids of the configured WhatsApp platforms
  Versions,   \* releases
  MaxEvents,  \* requests, operator actions, reloads and crashes in a behaviour
  MaxFaults   \* failed writes, renames, stops, loads and health checks

ASSUME UpdateAssumption ==
  /\ Versions \subseteq Nat \ {0} /\ 1 \in Versions
  /\ MaxEvents \in Nat /\ MaxFaults \in Nat
  /\ "page" \notin Accounts /\ "step" \notin Accounts

VARIABLES
  cur,      \* version in PLUGIN_DIR
  staged,   \* version in work_dir/plugin of the running transaction
  backup,   \* version in its backup_dir
  failed,   \* version in its failed-new directory
  kept,     \* versions in directories that earlier transactions left behind
  live,     \* the loaded plugin: instance number, and version (0: not registered)
  enabled,  \* accounts enabled in the platform configuration
  run,      \* version an account's adapter runs, 0 when it is stopped
  pages,    \* plugin instances whose management-page Gateway is running
  lock,     \* update-v2.lock: transaction and process id (0: unreadable)
  state,    \* update-state.json: phase, targetVersion and what it claims
  pid,      \* the AstrBot process
  checks,   \* checks in flight: the instance and version that asked
  tx,       \* the transaction of the running task
  pc,       \* the await _perform_update or _commit_update is suspended at
  todo,     \* accounts the running loop still has to visit
  errors,   \* errors the running operation collected: accounts, "page", "step"
  worker,   \* what the filesystem worker thread does next
  cancel,   \* a deferred cancellation
  good,     \* history: the last version that passed the health gate
  txs, events, faults   \* history: counters

dirs     == <<cur, staged, backup, failed, kept>>
accounts == <<enabled, run>>
task     == <<tx, pc, todo, errors, cancel>>
vars == <<dirs, live, accounts, pages, lock, state, pid, checks, task, worker, good,
          txs, events, faults>>

NoLock == [tx |-> 0, pid |-> 0]
NoTx   == [id |-> 0, inst |-> 0, from |-> 0, target |-> 0, saved |-> {}, page |-> FALSE,
           stage |-> "none"]
Report(phase, target, claim) == [phase |-> phase, target |-> target, claim |-> claim]

BusyPhases == {"queued", "checking", "downloading", "validating", "installing_dependencies",
               "quiescing", "installing", "reloading", "health_checking", "rolling_back"}
IdlePhases == {"idle", "available", "up_to_date", "check_failed", "completed", "failed"}
Claims     == {"none", "restored", "notRestored", "rolledBack", "notRolledBack"}
Pcs        == {"none", "queued", "download", "extract", "deps", "discard", "commit",
               "page", "quiesce", "swap", "reload", "gate", "verify", "cleanup",
               "rollback", "restore", "resume", "report", "finish"}
Workers    == {"none", "extract", "swap", "exchanged", "moved", "undoExchange", "undoMove",
               "restore", "restoring", "discardFailed", "cleanup"}
Cutover    == {"cut", "swapped", "rollback"}   \* stages entered once accounts start stopping

Running      == {a \in Accounts : run[a] # 0}    \* get_active_whatsapp_adapters
LockActive   == lock # NoLock /\ lock.pid \in {0, pid}
Active       == \/ \E c \in checks : c.inst = live.inst
                \/ pc # "none" /\ tx.inst = live.inst
                \/ LockActive
Expected     == IF tx.stage = "rollback" THEN tx.from ELSE tx.target
-----------------------------------------------------------------------------
Init ==
  /\ cur = 1 /\ staged = 0 /\ backup = 0 /\ failed = 0 /\ kept = {}
  /\ live = [inst |-> 1, version |-> 1]
  /\ enabled \in [Accounts -> BOOLEAN]
  /\ run = [a \in Accounts |-> IF enabled[a] THEN 1 ELSE 0]
  /\ pages = {} /\ lock = NoLock
  /\ state \in [phase : {"available"}, target : Versions, claim : {"none"}]
  /\ pid = 1 /\ checks = {}
  /\ tx = NoTx /\ pc = "none" /\ todo = {} /\ errors = {} /\ cancel = FALSE
  /\ worker = "none" /\ good = 1
  /\ txs = 0 /\ events = 0 /\ faults = 0

Event == events < MaxEvents /\ events' = events + 1
Ok    == UNCHANGED faults
Fault == faults < MaxFaults /\ faults' = faults + 1

\* _write_update_state, where a failure is only logged.
WriteLogged(phase) ==
  \/ Ok /\ state' = Report(phase, tx.target, "none")
  \/ Fault /\ UNCHANGED state

\* What an action of the task leaves alone.
Aside == UNCHANGED <<enabled, pid, checks, txs>>
Steps == Aside /\ UNCHANGED events
-----------------------------------------------------------------------------
(* The management page: page_update_check, page_update_install and         *)
(* page_update_status of the loaded instance.                              *)
CheckStart ==
  /\ Event /\ live.version # 0 /\ ~Active
  /\ state' = Report("checking", 0, "none")
  /\ checks' = checks \cup {live}
  /\ UNCHANGED <<dirs, live, accounts, pages, lock, pid, task, worker, good, txs, faults>>

\* The answer is written by the instance that asked, even after a hot reload.
CheckEnds ==
  \E c \in checks :
    /\ checks' = checks \ {c}
    /\ \/ Ok /\ \E v \in Versions :
            state' = Report(IF v > c.version THEN "available" ELSE "up_to_date", v, "none")
       \/ Fault /\ state' = Report("check_failed", 0, "none")
    /\ UNCHANGED <<dirs, live, accounts, pages, lock, pid, task, worker, good, txs, events>>

\* The lock file is created and then written; the state is written while it is
\* held.  Only when both succeeded is there a task that releases the lock.
Install ==
  /\ Event /\ live.version # 0 /\ ~Active
  /\ state.phase = "available" /\ state.target > live.version
  /\ lock = NoLock
  /\ txs' = txs + 1
  /\ \/ /\ Ok
        /\ lock' = [tx |-> txs + 1, pid |-> pid]
        /\ state' = Report("queued", state.target, "none")
        /\ tx' = [NoTx EXCEPT !.id = txs + 1, !.inst = live.inst, !.from = live.version,
                              !.target = state.target, !.stage = "prepare"]
        /\ pc' = "queued"
     \/ /\ Fault
        /\ lock' \in {[tx |-> txs + 1, pid |-> 0], [tx |-> txs + 1, pid |-> pid]}
        /\ UNCHANGED <<state, tx, pc>>
  /\ UNCHANGED <<dirs, live, accounts, pages, pid, checks, todo, errors, cancel, worker, good>>

\* Mutant: the interrupted transaction gets a phase of its own.
MarkUnlisted ==
  /\ live.version # 0 /\ ~Active /\ state.phase \in BusyPhases
  /\ state' = Report("interrupted", state.target, "none")
  /\ UNCHANGED <<dirs, live, accounts, pages, lock, pid, checks, task, worker, good, txs,
                 events, faults>>

\* 180 seconds without an owner.
MarkInterrupted ==
  /\ live.version # 0 /\ ~Active /\ state.phase \in BusyPhases
  /\ state' = Report("failed", state.target, "none")
  /\ UNCHANGED <<dirs, live, accounts, pages, lock, pid, checks, task, worker, good, txs,
                 events, faults>>

\* _ensure_page_gateway, which every status poll of the page calls.
PageRequest ==
  /\ Event /\ live.version # 0 /\ pages = {}
  /\ pages' = {live.inst}
  /\ UNCHANGED <<dirs, live, accounts, lock, state, pid, checks, task, worker, good, txs, faults>>
-----------------------------------------------------------------------------
(* _perform_update up to the cutover.                                      *)
\* An exception: the work directory is removed before the failure is recorded.
Abort == pc' = "discard" /\ UNCHANGED <<state, worker>>

\* CancelledError: the work directory stays.
Cancelled ==
  /\ pc' = "finish"
  /\ \/ Ok /\ state' = Report("failed", tx.target, "none")
     \/ Fault /\ UNCHANGED state

Preparing == UNCHANGED <<cur, backup, failed, kept, live, run, pages, lock, tx, todo, good>>

Begin ==
  /\ pc = "queued"
  /\ \/ Ok /\ pc' = "download" /\ state' = Report("downloading", tx.target, "none")
        /\ UNCHANGED worker
     \/ Fault /\ Abort
  /\ Preparing /\ Steps /\ UNCHANGED <<staged, errors, cancel>>

Downloaded ==
  /\ pc = "download"
  /\ \/ /\ Ok
        /\ pc' = "extract" /\ worker' = "extract"
        /\ state' = Report("validating", tx.target, "none")
     \/ Fault /\ Abort
  /\ Preparing /\ Steps /\ UNCHANGED <<staged, errors, cancel>>

ExtractWorker ==
  /\ worker = "extract" /\ worker' = "none"
  /\ \/ Ok /\ staged' = tx.target /\ UNCHANGED errors
     \/ Fault /\ errors' = {"step"} /\ UNCHANGED staged
  /\ Preparing /\ Steps /\ UNCHANGED <<state, pc, cancel>>

\* await_update_operation returned; the archive is validated.
Extracted ==
  /\ pc = "extract" /\ worker = "none"
  /\ \/ cancel /\ Cancelled /\ UNCHANGED worker
     \/ ~cancel /\ errors # {} /\ Ok /\ Abort
     \/ ~cancel /\ errors = {} /\ Fault /\ Abort
     \/ /\ ~cancel /\ errors = {} /\ Ok /\ pc' = "deps"
        /\ state' = Report("installing_dependencies", tx.target, "none")
        /\ UNCHANGED worker
  /\ errors' = {}
  /\ Preparing /\ Steps /\ UNCHANGED <<staged, cancel>>

\* From here on (cutover_started) cancellation is deferred to the very end.
Prepared ==
  /\ pc = "deps"
  /\ \/ Ok /\ pc' = "commit" /\ tx' = [tx EXCEPT !.stage = "cut"]
        /\ UNCHANGED <<state, worker>>
     \/ Fault /\ Abort /\ UNCHANGED tx
  /\ UNCHANGED <<dirs, live, run, pages, lock, todo, good, errors, cancel>> /\ Steps

\* A cancellation during the removal leaves the handler before it records the failure.
Discard ==
  /\ pc = "discard" /\ pc' = "finish"
  /\ staged' = 0
  /\ IF cancel THEN Ok /\ UNCHANGED state ELSE WriteLogged("failed")
  /\ Preparing /\ Steps /\ UNCHANGED <<errors, cancel, worker>>

\* Mutant: the extraction is awaited without a shield.
CancelAtOnce ==
  /\ Event /\ pc \notin {"none", "queued", "finish"}
  /\ IF pc \in {"download", "extract", "deps"}
     THEN Cancelled /\ UNCHANGED cancel
     ELSE Ok /\ cancel' = TRUE /\ UNCHANGED <<pc, state>>
  /\ Preparing /\ Aside /\ UNCHANGED <<staged, errors, worker>>

\* Shielded operations settle first, and the cutover is one shielded operation.
CancelUpdate ==
  /\ Event /\ pc \notin {"none", "queued", "finish"}
  /\ IF pc \in {"download", "deps"}
     THEN Cancelled /\ UNCHANGED cancel
     ELSE Ok /\ cancel' = TRUE /\ UNCHANGED <<pc, state>>
  /\ Preparing /\ Aside /\ UNCHANGED <<staged, errors, worker>>

\* Mutant: a cancelled task keeps the lock.
FinishLocked ==
  /\ pc = "finish" /\ pc' = "none"
  /\ lock' = IF cancel THEN lock ELSE NoLock
  /\ kept' = kept \cup ({staged, backup, failed} \ {0})
  /\ staged' = 0 /\ backup' = 0 /\ failed' = 0
  /\ tx' = NoTx /\ errors' = {} /\ todo' = {} /\ cancel' = FALSE
  /\ UNCHANGED <<cur, live, run, pages, state, worker, good, faults>> /\ Steps

\* release_update_transaction; what is left in the directories stays on disk.
Finish ==
  /\ pc = "finish" /\ pc' = "none"
  /\ lock' = IF lock.tx = tx.id THEN NoLock ELSE lock
  /\ kept' = kept \cup ({staged, backup, failed} \ {0})
  /\ staged' = 0 /\ backup' = 0 /\ failed' = 0
  /\ tx' = NoTx /\ errors' = {} /\ todo' = {} /\ cancel' = FALSE
  /\ UNCHANGED <<cur, live, run, pages, state, worker, good, faults>> /\ Steps
-----------------------------------------------------------------------------
(* _commit_update: from the first stop to the swap.                        *)
Stopped == UNCHANGED <<lock, good, cancel>> /\ Steps   \* what no step of the cutover changes

\* Mutant: the accounts are looked up again after they were stopped.
ToResumeLate(saved) == pc' = "resume" /\ todo' = Running /\ errors' = {} /\ UNCHANGED worker

\* The old runtime is started again for the accounts saved before the first stop.
ToResume(saved) == pc' = "resume" /\ todo' = saved /\ errors' = {} /\ UNCHANGED worker

Commit ==
  /\ pc = "commit"
  /\ tx' = [tx EXCEPT !.saved = Running, !.page = (tx.inst \in pages)]
  /\ \/ /\ Ok /\ state' = Report("quiescing", tx.target, "none")
        /\ pc' = "page" /\ todo' = Running
        /\ UNCHANGED <<errors, worker>>
     \/ Fault /\ ToResume(Running) /\ UNCHANGED state
  /\ UNCHANGED <<dirs, live, run, pages>> /\ Stopped

\* _quiesce_update_runtime, for the cutover and for the rollback alike.
QuiescePage ==
  /\ pc = "page" /\ pc' = "quiesce"
  /\ \/ Ok /\ pages' = pages \ {tx.inst} /\ UNCHANGED errors
     \/ Fault /\ pages' \in {pages, pages \ {tx.inst}} /\ errors' = errors \cup {"page"}
  /\ UNCHANGED <<dirs, live, run, state, tx, todo, worker>> /\ Stopped

QuiesceAccount ==
  \E a \in todo :
    /\ pc = "quiesce" /\ todo' = todo \ {a}
    /\ \/ Ok /\ run' = [run EXCEPT ![a] = 0] /\ UNCHANGED errors
       \/ /\ Fault /\ errors' = errors \cup {a}
          /\ run' \in {run, [run EXCEPT ![a] = 0]}
    /\ UNCHANGED <<dirs, live, pages, state, tx, pc, worker>> /\ Stopped

Quiesced ==
  /\ pc = "quiesce" /\ todo = {} /\ tx.stage = "cut"
  /\ \/ errors # {} /\ Ok /\ ToResume(tx.saved) /\ UNCHANGED state
     \/ errors = {} /\ Fault /\ ToResume(tx.saved) /\ UNCHANGED state
     \/ /\ errors = {} /\ Ok
        /\ pc' = "swap" /\ worker' = "swap"
        /\ state' = Report("installing", tx.target, "none")
        /\ UNCHANGED <<todo, errors>>
  /\ UNCHANGED <<dirs, live, run, pages, tx>> /\ Stopped
-----------------------------------------------------------------------------
(* atomic_swap_plugin: renameat2(RENAME_EXCHANGE), or a pair of renames.   *)
SwapFrame == UNCHANGED <<failed, kept, live, run, pages, state, tx, pc, todo>> /\ Stopped

SwapFailed == worker' = "none" /\ errors' = {"step"} /\ UNCHANGED <<cur, staged, backup>>

SwapBegin ==
  /\ worker = "swap"
  /\ \/ /\ Ok /\ worker' = "exchanged"
        /\ cur' = staged /\ staged' = cur /\ UNCHANGED <<backup, errors>>
     \/ /\ Ok /\ worker' = "moved"
        /\ backup' = cur /\ cur' = 0 /\ UNCHANGED <<staged, errors>>
     \/ Fault /\ SwapFailed
  /\ SwapFrame

Exchanged ==
  /\ worker = "exchanged"
  /\ \/ Ok /\ worker' = "none" /\ backup' = staged /\ staged' = 0
     \/ Fault /\ worker' = "undoExchange" /\ UNCHANGED <<backup, staged>>
  /\ UNCHANGED <<cur, errors>> /\ SwapFrame

\* An error of the second exchange is swallowed.
UndoExchange ==
  /\ worker = "undoExchange"
  /\ \/ /\ Ok /\ cur' = staged /\ staged' = cur
        /\ worker' = "none" /\ errors' = {"step"} /\ UNCHANGED backup
     \/ Fault /\ SwapFailed
  /\ SwapFrame

Moved ==
  /\ worker = "moved"
  /\ \/ Ok /\ worker' = "none" /\ cur' = staged /\ staged' = 0
     \/ Fault /\ worker' = "undoMove" /\ UNCHANGED <<cur, staged>>
  /\ UNCHANGED <<backup, errors>> /\ SwapFrame

UndoMove ==
  /\ worker = "undoMove"
  /\ \/ /\ Ok /\ cur' = backup /\ backup' = 0
        /\ worker' = "none" /\ errors' = {"step"} /\ UNCHANGED staged
     \/ Fault /\ SwapFailed
  /\ SwapFrame

Swapped ==
  /\ pc = "swap" /\ worker = "none"
  /\ \/ errors # {} /\ Ok /\ ToResume(tx.saved) /\ UNCHANGED <<state, tx>>
     \/ /\ errors = {}
        /\ tx' = [tx EXCEPT !.stage = "swapped"]
        /\ WriteLogged("reloading")
        /\ pc' = "reload" /\ UNCHANGED <<todo, errors, worker>>
  /\ UNCHANGED <<dirs, live, run, pages>> /\ Stopped
-----------------------------------------------------------------------------
(* _resume_quiesced_runtime: every saved account still enabled is started  *)
(* and verified; an error of one does not skip the others.                 *)
\* Mutant: an account is started from the configuration saved before the stop.
ResumeDisabled ==
  \E a \in todo :
    /\ pc = "resume" /\ todo' = todo \ {a}
    /\ Ok /\ run' = [run EXCEPT ![a] = live.version] /\ UNCHANGED errors
    /\ UNCHANGED <<dirs, live, pages, state, tx, pc, worker>> /\ Stopped

ResumeAccount ==
  \E a \in todo :
    /\ pc = "resume" /\ todo' = todo \ {a}
    /\ \/ ~enabled[a] /\ Ok /\ UNCHANGED <<run, errors>>
       \/ enabled[a] /\ Ok /\ run' = [run EXCEPT ![a] = live.version] /\ UNCHANGED errors
       \/ /\ enabled[a] /\ Fault /\ errors' = errors \cup {a}
          /\ run' \in {[run EXCEPT ![a] = v] : v \in {0, live.version}}
    /\ UNCHANGED <<dirs, live, pages, state, tx, pc, worker>> /\ Stopped

\* Mutant: the work directory is removed when the old runtime is back.
ResumedAndCleaned ==
  /\ pc = "resume" /\ todo = {} /\ pc' = "finish"
  /\ Ok /\ staged' = 0
  /\ state' = Report("failed", tx.target, IF errors = {} THEN "restored" ELSE "notRestored")
  /\ UNCHANGED <<cur, backup, failed, kept, live, run, pages, tx, todo, errors, worker>>
  /\ Stopped

\* Then the page Gateway, and the record of the outcome.
Resumed ==
  /\ pc = "resume" /\ todo = {} /\ pc' = "finish"
  /\ \/ /\ Ok
        /\ pages' = IF tx.page THEN pages \cup {tx.inst} ELSE pages
        /\ state' = Report("failed", tx.target,
                           IF errors = {} THEN "restored" ELSE "notRestored")
     \/ /\ tx.page /\ Fault /\ UNCHANGED pages
        /\ state' = Report("failed", tx.target, "notRestored")
     \/ /\ Fault /\ UNCHANGED state
        /\ pages' = IF tx.page THEN pages \cup {tx.inst} ELSE pages
  /\ UNCHANGED <<dirs, live, run, tx, todo, errors, worker>> /\ Stopped
-----------------------------------------------------------------------------
(* _reload_after_update and the gate, also on the way back.                *)
\* manager.reload: the outgoing instance stops its page Gateway, the new one
\* starts every enabled account; an update it knows of must start them all.
Load(lost, strict) ==
  /\ live' = [inst |-> live.inst + 1,
              version |-> IF strict /\ lost # {} THEN 0 ELSE cur]
  /\ run' = [a \in Accounts |-> IF ~enabled[a] THEN run[a]
                                ELSE IF a \in lost THEN 0 ELSE cur]
  /\ pages' = pages \ {live.inst}

StrictReload == state.phase \in {"reloading", "health_checking"} /\ state.target = cur
Enabled      == {a \in Accounts : enabled[a]}

\* The reload or the gate failed: roll back, or report that this failed too.
GateFailed ==
  pc' = (IF tx.stage = "rollback" THEN "report" ELSE "rollback") /\ errors' = {"step"}

Reload ==
  /\ pc = "reload"
  /\ \/ Ok /\ Load({}, FALSE) /\ pc' = "gate" /\ UNCHANGED errors
     \/ /\ Fault
        /\ \E lost \in SUBSET Enabled \ {{}} : Load(lost, StrictReload)
        /\ IF StrictReload THEN GateFailed ELSE pc' = "gate" /\ UNCHANGED errors
     \/ /\ Fault   \* the directory could not be loaded
        /\ live' = [inst |-> live.inst + 1, version |-> 0]
        /\ pages' = pages \ {live.inst} /\ UNCHANGED run
        /\ GateFailed
  /\ UNCHANGED <<dirs, state, tx, todo, worker>> /\ Stopped

\* _verify_update_health: the registered version, then each enabled account.
Gate ==
  /\ pc = "gate"
  /\ IF tx.stage = "rollback" THEN Ok /\ UNCHANGED state ELSE WriteLogged("health_checking")
  /\ IF live.version = Expected
     THEN pc' = "verify" /\ todo' = Enabled /\ UNCHANGED errors
     ELSE GateFailed /\ UNCHANGED todo
  /\ UNCHANGED <<dirs, live, run, pages, tx, worker>> /\ Stopped

\* Mutant: an account that does not run passes.
VerifyUnstarted ==
  \E a \in todo :
    /\ pc = "verify"
    /\ Ok /\ todo' = todo \ {a} /\ UNCHANGED <<pc, errors>>
    /\ UNCHANGED <<dirs, live, run, pages, state, tx, worker>> /\ Stopped

VerifyAccount ==
  \E a \in todo :
    /\ pc = "verify"
    /\ \/ run[a] # 0 /\ Ok /\ todo' = todo \ {a} /\ UNCHANGED <<pc, errors>>
       \/ run[a] # 0 /\ Fault /\ GateFailed /\ UNCHANGED todo
       \/ run[a] = 0 /\ Ok /\ GateFailed /\ UNCHANGED todo
    /\ UNCHANGED <<dirs, live, run, pages, state, tx, worker>> /\ Stopped

\* The gate passed.  The backup survives when completion cannot be recorded.
Verified ==
  /\ pc = "verify" /\ todo = {}
  /\ \/ /\ tx.stage = "rollback" /\ Ok
        /\ pc' = "report" /\ UNCHANGED <<state, worker>>
     \/ /\ tx.stage # "rollback" /\ Ok
        /\ state' = Report("completed", tx.target, "none")
        /\ pc' = "cleanup" /\ worker' = "cleanup"
     \/ tx.stage # "rollback" /\ Fault /\ pc' = "finish" /\ UNCHANGED <<state, worker>>
  /\ good' = live.version
  /\ UNCHANGED <<dirs, live, run, pages, tx, todo, errors, lock, cancel>> /\ Steps

CleanupWorker ==
  /\ worker = "cleanup" /\ worker' = "none"
  /\ backup' = 0 /\ staged' = 0
  /\ Ok /\ UNCHANGED <<cur, failed, kept, live, run, pages, state, tx, pc, todo, errors>>
  /\ Stopped

Completed ==
  /\ pc = "cleanup" /\ worker = "none" /\ pc' = "finish"
  /\ Ok /\ UNCHANGED <<dirs, live, run, pages, state, tx, todo, errors, worker>> /\ Stopped
-----------------------------------------------------------------------------
(* _rollback_update and restore_plugin_backup.                             *)
Rollback ==
  /\ pc = "rollback" /\ pc' = "page"
  /\ WriteLogged("rolling_back")
  /\ tx' = [tx EXCEPT !.stage = "rollback"]
  /\ todo' = Running /\ errors' = {}
  /\ UNCHANGED <<dirs, live, run, pages, worker>> /\ Stopped

QuiescedNew ==
  /\ pc = "quiesce" /\ todo = {} /\ tx.stage = "rollback"
  /\ IF errors = {} THEN pc' = "restore" /\ worker' = "restore"
                    ELSE pc' = "report" /\ UNCHANGED worker
  /\ Ok /\ UNCHANGED <<dirs, live, run, pages, state, tx, todo, errors>> /\ Stopped

RestoreFailed == Fault /\ worker' = "none" /\ errors' = {"step"} /\ UNCHANGED <<cur, backup, failed>>

RestoreWorker ==
  /\ \/ /\ worker = "restore" /\ worker' = "restoring" /\ Ok
        /\ failed' = cur /\ cur' = 0 /\ UNCHANGED <<backup, errors>>
     \/ /\ worker = "restoring" /\ worker' = "discardFailed" /\ Ok
        /\ cur' = backup /\ backup' = 0 /\ UNCHANGED <<failed, errors>>
     \/ /\ worker = "discardFailed" /\ worker' = "none" /\ Ok
        /\ failed' = 0 /\ UNCHANGED <<cur, backup, errors>>
     \/ worker \in {"restore", "restoring", "discardFailed"} /\ RestoreFailed
  /\ UNCHANGED <<staged, kept, live, run, pages, state, tx, pc, todo>> /\ Stopped

Restored ==
  /\ pc = "restore" /\ worker = "none"
  /\ pc' = IF errors = {} THEN "reload" ELSE "report"
  /\ Ok /\ UNCHANGED <<dirs, live, run, pages, state, tx, todo, errors, worker>> /\ Stopped

\* The work directory goes only after a rollback that succeeded.
ReportRollback ==
  /\ pc = "report" /\ pc' = "finish"
  /\ staged' = IF errors = {} THEN 0 ELSE staged
  /\ \/ /\ Ok
        /\ state' = Report("failed", tx.target,
                           IF errors = {} THEN "rolledBack" ELSE "notRolledBack")
     \/ Fault /\ UNCHANGED state
  /\ UNCHANGED <<cur, backup, failed, kept, live, run, pages, tx, todo, errors, worker>>
  /\ Stopped
-----------------------------------------------------------------------------
(* The operator, AstrBot and the machine.                                  *)
Outside == UNCHANGED <<dirs, checks, task, good, txs, faults>>

Enable(a) ==
  /\ Event /\ ~enabled[a] /\ live.version # 0
  /\ enabled' = [enabled EXCEPT ![a] = TRUE] /\ run' = [run EXCEPT ![a] = live.version]
  /\ Outside /\ UNCHANGED <<live, pages, lock, state, pid, worker>>

Disable(a) ==
  /\ Event /\ enabled[a]
  /\ enabled' = [enabled EXCEPT ![a] = FALSE] /\ run' = [run EXCEPT ![a] = 0]
  /\ Outside /\ UNCHANGED <<live, pages, lock, state, pid, worker>>

\* AstrBot reloads the plugin while no cutover runs.
HotReload ==
  /\ Event /\ tx.stage \notin Cutover
  /\ Load({}, FALSE)
  /\ Outside /\ UNCHANGED <<enabled, lock, state, pid, worker>>

\* _recover_interrupted_update_state of the first instance of a process.
Recover ==
  /\ lock' = NoLock
  /\ IF lock # NoLock /\ state.phase \in BusyPhases
     THEN \/ Ok /\ state' = Report("failed", state.target, "none")
          \/ Fault /\ UNCHANGED state
     ELSE Ok /\ UNCHANGED state

\* AstrBot dies, at any point, and starts again with what PLUGIN_DIR holds.
Respawn ==
  /\ Event
  /\ pid' = pid + 1
  /\ live' = [inst |-> live.inst + 1, version |-> cur]
  /\ run' = [a \in Accounts |-> IF enabled[a] THEN cur ELSE 0]
  /\ pages' = {} /\ checks' = {}
  /\ tx' = NoTx /\ pc' = "none" /\ todo' = {} /\ errors' = {} /\ cancel' = FALSE
  /\ worker' = "none"
  /\ kept' = kept \cup ({staged, backup, failed} \ {0})
  /\ staged' = 0 /\ backup' = 0 /\ failed' = 0
  /\ IF cur = 0 THEN Ok /\ UNCHANGED <<lock, state>> ELSE Recover
  /\ UNCHANGED <<cur, enabled, good, txs>>
-----------------------------------------------------------------------------
Worker == \/ ExtractWorker \/ SwapBegin \/ Exchanged \/ UndoExchange \/ Moved \/ UndoMove
          \/ CleanupWorker \/ RestoreWorker

Task ==
  \/ Begin \/ Downloaded \/ Extracted \/ Prepared \/ Discard \/ Finish
  \/ Commit \/ QuiescePage \/ QuiesceAccount \/ Quiesced \/ Swapped
  \/ ResumeAccount \/ Resumed
  \/ Reload \/ Gate \/ VerifyAccount \/ Verified \/ Completed
  \/ Rollback \/ QuiescedNew \/ Restored \/ ReportRollback

Next ==
  \/ Task \/ Worker
  \/ CheckStart \/ CheckEnds \/ Install \/ MarkInterrupted \/ PageRequest \/ CancelUpdate
  \/ \E a \in Accounts : Enable(a) \/ Disable(a)
  \/ HotReload \/ Respawn

\* asyncio runs what it can; threads and AstrBot's calls return.
Spec     == Init /\ [][Next]_vars
FairSpec == Spec /\ WF_vars(Task) /\ WF_vars(Worker)
-----------------------------------------------------------------------------
Reports == [phase : BusyPhases \cup IdlePhases, target : Nat, claim : Claims]
Txs     == [id : Nat, inst : Nat, from : Nat, target : Nat, saved : SUBSET Accounts,
            page : BOOLEAN, stage : Cutover \cup {"none", "prepare"}]

\* Every variable keeps the range its use in the updater gives it.
TypeOK ==
  /\ cur \in Nat /\ staged \in Nat /\ backup \in Nat /\ failed \in Nat
  /\ kept \in SUBSET Nat
  /\ live \in [inst : Nat, version : Nat]
  /\ enabled \in [Accounts -> BOOLEAN] /\ run \in [Accounts -> Nat]
  /\ pages \in SUBSET Nat
  /\ lock \in [tx : Nat, pid : Nat] /\ state \in Reports /\ pid \in Nat
  /\ checks \in SUBSET [inst : Nat, version : Nat]
  /\ tx \in Txs /\ pc \in Pcs /\ todo \in SUBSET Accounts
  /\ errors \in SUBSET (Accounts \cup {"page", "step"})
  /\ worker \in Workers /\ cancel \in BOOLEAN /\ good \in Nat
  /\ txs \in Nat /\ events \in Nat /\ faults \in Nat

\* The last version that passed the health gate is on disk, whole, at every
\* step of a swap, an undone swap, a rollback or a crash: no sequence of faults
\* leaves the operator without a version to go back to.
GoodVersionKept == good \in {cur, staged, backup, failed} \cup kept

\* "The transaction lock stays held throughout": while a task runs, or a thread
\* still renames directories, no other transaction can take the lock.
LockHeldThroughout ==
  /\ pc # "none" => lock = [tx |-> tx.id, pid |-> pid]
  /\ worker # "none" => pc # "none"
  /\ worker = "extract" => pc = "extract"

\* "Accounts disabled or removed in the meantime are not restarted": whatever
\* recovery, reload or crash happens, an account that runs is enabled.
NotResurrected == \A a \in Accounts : run[a] # 0 => enabled[a]

\* "A recovery failure must never be reported as restored successfully": the
\* claim runtimeRestored means that every saved account still enabled runs, and
\* otherwise each one that does not has its own error (none was skipped).
RecoveryIsHonest ==
  [][state' # state /\ state'.claim \in {"restored", "notRestored"}
     => /\ {a \in tx.saved : enabled[a] /\ run[a] = 0} \subseteq errors
        /\ state'.claim = "restored" => errors = {}]_vars

EveryoneRuns(v) == cur = v /\ live.version = v /\ \A a \in Enabled : run[a] = v

\* "completed" and "rolledBack" are claimed only when the installed, the loaded
\* and the running version of every enabled account are the one that is claimed.
OutcomeIsReal ==
  [][state' # state =>
       /\ state'.phase = "completed" => EveryoneRuns(tx.target)
       /\ state'.claim = "rolledBack" => EveryoneRuns(tx.from)]_vars

\* A transaction that started settles and gives the lock back, whatever fails.
Settles == pc # "none" ~> ~LockActive
-----------------------------------------------------------------------------
(* What a document says, and the code does not do.                         *)

\* "If new-version health fails, its running Gateways/tasks are stopped before
\* restoring the backup": a rollback that stopped its page Gateway without an
\* error leaves none running.
StoppedBeforeRestore ==
  [][QuiescePage /\ tx.stage = "rollback" /\ errors' = {} => pages' = {}]_vars
=============================================================================
