------------------------------ MODULE ToolGate ------------------------------
(***************************************************************************)
(* The ToolGate transport of kmods-src/prl_tg: guest threads hand requests *)
(* to the host through a port, the host answers by writing the request's   *)
(* Status and raising an interrupt, a work item (the bottom half) wakes    *)
(* the threads, signals and forced cancels break a wait, and a suspend     *)
(* cancels what is outstanding and takes the interrupt away.               *)
(*                                                                         *)
(* A request is a slot: one caller at a time, used again after the call    *)
(* returns.  The sections under queue_lock are single steps: the host may  *)
(* write a Status while the lock is held, but such a write commutes to     *)
(* before or after the section.  pr_list and the local lists of the work   *)
(* item and of the suspend are sets: every element is visited.  The host   *)
(* and its device registers are external; they are modelled from the port  *)
(* accesses of the driver.                                                 *)
(***************************************************************************)
EXTENDS Integers

CONSTANTS
  Reqs,        \* request slots (struct TG_PENDING_REQUEST)
  Async,       \* those started by call_tg_async_start
  Restart,     \* those with TG_REQ_RESTART_ON_SUCCESS
  Suspends,    \* may the system suspend?
  CanTimeout   \* may the host leave a cancel of the suspend unanswered?

ASSUME ReqsAssumption ==
  /\ Async \subseteq Reqs
  /\ Restart \subseteq Reqs
  /\ Suspends \in BOOLEAN
  /\ CanTimeout \in BOOLEAN

VARIABLES
  pc,          \* where the caller of a request is
  status,      \* dst->Status, written by guest and host
  processed,   \* req->processed, under queue_lock
  done,        \* req->waiting.done
  prList,      \* dev->pr_list, under queue_lock
  host,        \* the requests the host holds: it will write their memory
  cancelAsked, \* of those, the ones the host was told to cancel
  irqPending,  \* the device has a completion to report
  mask,        \* TG_PORT_MASK holds TG_MASK_COMPLETE
  msi,         \* dev->flags has TG_DEV_FLAG_MSI
  handler,     \* prl_tg_interrupt is registered
  workQueued,  \* dev->work is scheduled
  work,        \* where tg_do_work is
  completed,   \* its local list
  pm,          \* where suspend and resume are
  cancelled,   \* the local list of tg_req_cancel_all
  lost         \* the requests cancel_all gave up

threadVars == <<pc, processed>>
hostVars   == <<host, cancelAsked>>
irqVars    == <<irqPending, mask, msi, handler>>
workVars   == <<workQueued, work, completed>>
pmVars     == <<pm, cancelled, lost>>
vars == <<threadVars, status, done, prList, hostVars, irqVars, workVars, pmVars>>

Statuses == {"PENDING", "SUCCESS", "FAILED", "CANCELLED"}
Places   == {"idle", "mapped", "submitted", "enqueue", "started", "waiting",
             "cancel", "canceled", "unlink", "drain", "out"}

TypeOK ==
  /\ pc \in [Reqs -> Places]
  /\ status \in [Reqs -> Statuses]
  /\ processed \in [Reqs -> BOOLEAN]
  /\ done \in [Reqs -> Nat]
  /\ prList \subseteq Reqs
  /\ host \subseteq Reqs
  /\ cancelAsked \subseteq Reqs
  /\ irqPending \in BOOLEAN /\ mask \in BOOLEAN
  /\ msi \in BOOLEAN /\ handler \in BOOLEAN
  /\ workQueued \in BOOLEAN
  /\ work \in {"idle", "unmask", "wake"}
  /\ completed \subseteq Reqs
  /\ pm \in {"on", "cancel", "poll", "freeirq", "flush", "off", "resume"}
  /\ cancelled \subseteq Reqs
  /\ lost \subseteq Reqs

\* The device as probe leaves it: no request, the interrupt enabled.
Init ==
  /\ pc = [r \in Reqs |-> "idle"]
  /\ status = [r \in Reqs |-> "PENDING"]
  /\ processed = [r \in Reqs |-> FALSE]
  /\ done = [r \in Reqs |-> 0]
  /\ prList = {} /\ host = {} /\ cancelAsked = {}
  /\ irqPending = FALSE /\ mask = TRUE /\ msi \in BOOLEAN /\ handler = TRUE
  /\ workQueued = FALSE /\ work = "idle" /\ completed = {}
  /\ pm = "on" /\ cancelled = {} /\ lost = {}

-----------------------------------------------------------------------------
(* Threads: call_tg_sync, call_tg_async_start, _wait and _cancel.          *)

Go(r, from, to) == pc[r] = from /\ pc' = [pc EXCEPT ![r] = to]

\* The port answers while the device is not powered off; tasks do not run
\* driver code in between (the PM core has frozen them).
PortUsable == pm \in {"on", "cancel", "poll"}

\* tg_req_create, and the mapping and pinning of tg_req_submit.  A
\* failure returns to the caller with nothing changed.
\* (A slot the host still holds is not used again: what would follow the
\* release of such memory is not modelled.)
Create(r) ==
  /\ PortUsable /\ r \notin host
  /\ Go(r, "idle", "mapped")
  /\ status' = [status EXCEPT ![r] = "PENDING"]
  /\ UNCHANGED <<processed, done, prList, hostVars, irqVars, workVars, pmVars>>

\* One turn of submit's loop: Status is reset, the request is the host's.
Submit(r) ==
  /\ PortUsable
  /\ Go(r, "mapped", "submitted")
  /\ status' = [status EXCEPT ![r] = "PENDING"]
  /\ host' = host \cup {r}
  /\ cancelAsked' = cancelAsked \ {r}
  /\ UNCHANGED <<processed, done, prList, irqVars, workVars, pmVars>>

\* The unlocked look at Status after the port write.
ReadStatus(r) ==
  /\ \/ /\ status[r] = "SUCCESS" /\ r \in Restart
        /\ Go(r, "submitted", "mapped")
     \/ /\ status[r] = "PENDING"
        /\ Go(r, "submitted", "enqueue")
     \/ /\ status[r] # "PENDING" /\ ~(status[r] = "SUCCESS" /\ r \in Restart)
        /\ Go(r, "submitted", "out")
  /\ UNCHANGED <<status, processed, done, prList, hostVars, irqVars,
                 workVars, pmVars>>

\* Seeded fault: the request is queued without a second look at Status.
Enqueue_NoRecheck(r) ==
  /\ processed' = [processed EXCEPT ![r] = FALSE]
  /\ done' = [done EXCEPT ![r] = 0]
  /\ Go(r, "enqueue", IF r \in Async THEN "started" ELSE "waiting")
  /\ prList' = prList \cup {r}
  /\ UNCHANGED <<status, hostVars, irqVars, workVars, pmVars>>

\* init_completion, processed = 0 and the section under queue_lock.
Enqueue(r) ==
  /\ processed' = [processed EXCEPT ![r] = FALSE]
  /\ done' = [done EXCEPT ![r] = 0]
  /\ \/ /\ status[r] = "PENDING"
        /\ Go(r, "enqueue", IF r \in Async THEN "started" ELSE "waiting")
        /\ prList' = prList \cup {r}
     \/ /\ status[r] # "PENDING"
        /\ Go(r, "enqueue", "out")
        /\ UNCHANGED prList
  /\ UNCHANGED <<status, hostVars, irqVars, workVars, pmVars>>

\* call_tg_async_wait, or call_tg_async_cancel (force_cancel) on the handle.
AsyncFinish(r) ==
  /\ Go(r, "started", "waiting") \/ Go(r, "started", "cancel")
  /\ UNCHANGED <<status, processed, done, prList, hostVars, irqVars,
                 workVars, pmVars>>

\* Seeded fault: the drain of a broken wait does not wait.
Woken_NoWait(r) ==
  /\ (Go(r, "waiting", "out") /\ done[r] > 0) \/ Go(r, "drain", "out")
  /\ done' = [done EXCEPT ![r] = @ - 1]
  /\ UNCHANGED <<status, processed, prList, hostVars, irqVars,
                 workVars, pmVars>>

\* A wait ends because complete() was called; the killable or interruptible
\* one also by a signal.
Woken(r) ==
  /\ done[r] > 0
  /\ Go(r, "waiting", "out") \/ Go(r, "drain", "out")
  /\ done' = [done EXCEPT ![r] = @ - 1]
  /\ UNCHANGED <<status, processed, prList, hostVars, irqVars,
                 workVars, pmVars>>

Signal(r) ==
  /\ Go(r, "waiting", "cancel")
  /\ UNCHANGED <<status, processed, done, prList, hostVars, irqVars,
                 workVars, pmVars>>

\* Tell the host to cancel, unless it has answered.
AskCancel(r) ==
  /\ PortUsable
  /\ \/ /\ status[r] # "PENDING"
        /\ Go(r, "cancel", "drain")
        /\ UNCHANGED cancelAsked
     \/ /\ status[r] = "PENDING"
        /\ Go(r, "cancel", "canceled")
        /\ cancelAsked' = cancelAsked \cup (host \cap {r})
  /\ UNCHANGED <<status, processed, done, prList, host, irqVars,
                 workVars, pmVars>>

\* Seeded fault: a cancel is taken to be answered at once.
CheckCancel_Trusting(r) ==
  /\ Go(r, "canceled", "unlink")
  /\ UNCHANGED <<status, processed, done, prList, hostVars, irqVars,
                 workVars, pmVars>>

\* Has the cancel been answered at once?
CheckCancel(r) ==
  /\ \/ status[r] = "PENDING" /\ Go(r, "canceled", "drain")
     \/ status[r] # "PENDING" /\ Go(r, "canceled", "unlink")
  /\ UNCHANGED <<status, processed, done, prList, hostVars, irqVars,
                 workVars, pmVars>>

\* Seeded fault: list_del whoever has the request.
Unlink_Always(r) ==
  /\ Go(r, "unlink", "out")
  /\ prList' = prList \ {r}
  /\ UNCHANGED <<status, processed, done, hostVars, irqVars, workVars,
                 pmVars>>

\* Under queue_lock: the request leaves pr_list unless somebody else took it
\* off and will complete it.
Unlink(r) ==
  /\ \/ /\ processed[r]
        /\ Go(r, "unlink", "drain")
        /\ UNCHANGED prList
     \/ /\ ~processed[r]
        /\ Go(r, "unlink", "out")
        /\ prList' = prList \ {r}
  /\ UNCHANGED <<status, processed, done, hostVars, irqVars, workVars,
                 pmVars>>

\* `out' of submit or complete (unpin, unmap), tg_req_destroy, and the return
\* to the caller: the memory of the request is gone.
Release(r) ==
  /\ Go(r, "out", "idle")
  /\ processed' = [processed EXCEPT ![r] = FALSE]
  /\ done' = [done EXCEPT ![r] = 0]
  /\ UNCHANGED <<status, prList, hostVars, irqVars, workVars, pmVars>>

-----------------------------------------------------------------------------
(* The host and the interrupt.                                             *)

\* The host answers a request it holds: it may refuse, and it may cancel what
\* it was asked to cancel or finish it nevertheless.
Answer(r) ==
  /\ r \in host
  /\ \E s \in {"SUCCESS", "FAILED"} \cup
              (IF r \in cancelAsked THEN {"CANCELLED"} ELSE {}) :
       status' = [status EXCEPT ![r] = s]
  /\ host' = host \ {r}
  /\ cancelAsked' = cancelAsked \ {r}
  /\ irqPending' = TRUE
  /\ UNCHANGED <<threadVars, done, prList, mask, msi, handler, workVars, pmVars>>

\* prl_tg_interrupt.  Without MSI the read of TG_PORT_STATUS acknowledges the
\* interrupt and masks it until the bottom half enables it again.
Interrupt ==
  /\ irqPending /\ mask /\ handler
  /\ irqPending' = FALSE
  /\ mask' = msi
  /\ workQueued' = TRUE
  /\ UNCHANGED <<threadVars, status, done, prList, hostVars, msi, handler,
                 work, completed, pmVars>>

-----------------------------------------------------------------------------
(* tg_do_work.                                                             *)

Answered == {r \in prList : status[r] # "PENDING"}
ToRestart == {r \in Answered : r \in Restart /\ status[r] = "SUCCESS"}

\* The walk over pr_list under queue_lock.
WorkWalk ==
  /\ workQueued /\ work = "idle"
  /\ workQueued' = FALSE
  /\ work' = "unmask"
  /\ status' = [r \in Reqs |-> IF r \in ToRestart THEN "PENDING" ELSE status[r]]
  /\ host' = host \cup ToRestart
  /\ cancelAsked' = cancelAsked \ ToRestart
  /\ completed' = Answered \ ToRestart
  /\ prList' = prList \ completed'
  /\ processed' = [r \in Reqs |-> processed[r] \/ r \in completed']
  /\ UNCHANGED <<pc, done, irqVars, pmVars>>

\* Seeded fault: the interrupt is not enabled again.
WorkUnmask_Forgotten ==
  /\ work = "unmask"
  /\ work' = "wake"
  /\ UNCHANGED <<threadVars, status, done, prList, hostVars, irqVars,
                 workQueued, completed, pmVars>>

WorkUnmask ==
  /\ work = "unmask"
  /\ work' = "wake"
  /\ mask' = (mask \/ ~msi)
  /\ UNCHANGED <<threadVars, status, done, prList, hostVars, irqPending, msi,
                 handler, workQueued, completed, pmVars>>

WorkWake(r) ==
  /\ work = "wake" /\ r \in completed
  /\ done' = [done EXCEPT ![r] = @ + 1]
  /\ completed' = completed \ {r}
  /\ UNCHANGED <<threadVars, status, prList, hostVars, irqVars, workQueued,
                 work, pmVars>>

WorkEnd ==
  /\ work = "wake" /\ completed = {}
  /\ work' = "idle"
  /\ UNCHANGED <<threadVars, status, done, prList, hostVars, irqVars,
                 workQueued, completed, pmVars>>

-----------------------------------------------------------------------------
(* prl_tg_suspend_common: tg_req_cancel_all, prl_tg_deinitialize; resume.  *)

\* Seeded fault: the requests leave pr_list but are not marked.
SuspendCollect_Unmarked ==
  /\ Suspends
  /\ pm = "on" /\ pm' = "cancel"
  /\ cancelled' = prList \ Answered
  /\ prList' = Answered
  /\ UNCHANGED <<threadVars, status, done, hostVars, irqVars, workVars, lost>>

\* Under queue_lock, what the host has not answered leaves pr_list.
SuspendCollect ==
  /\ Suspends
  /\ pm = "on" /\ pm' = "cancel"
  /\ cancelled' = prList \ Answered
  /\ prList' = Answered
  /\ processed' = [r \in Reqs |-> processed[r] \/ r \in cancelled']
  /\ UNCHANGED <<pc, status, done, hostVars, irqVars, workVars, lost>>

SuspendCancel ==
  /\ pm = "cancel" /\ pm' = "poll"
  /\ cancelAsked' = cancelAsked \cup (host \cap cancelled)
  /\ UNCHANGED <<threadVars, status, done, prList, host, irqVars, workVars,
                 cancelled, lost>>

\* Seeded fault: a request is completed also when the host did not confirm.
SuspendPoll_Frees(r) ==
  /\ pm = "poll" /\ r \in cancelled
  /\ cancelled' = cancelled \ {r}
  /\ done' = [done EXCEPT ![r] = @ + 1]
  /\ UNCHANGED <<threadVars, status, prList, hostVars, irqVars, workVars, pm,
                 lost>>

\* The wait for the host's confirmation of one cancel: it comes, or the four
\* seconds run out and the request is never completed.
SuspendPoll(r) ==
  /\ pm = "poll" /\ r \in cancelled
  /\ cancelled' = cancelled \ {r}
  /\ \/ /\ status[r] # "PENDING"
        /\ done' = [done EXCEPT ![r] = @ + 1]
        /\ UNCHANGED lost
     \/ /\ CanTimeout /\ status[r] = "PENDING"
        /\ lost' = lost \cup {r}
        /\ UNCHANGED done
  /\ UNCHANGED <<threadVars, status, prList, hostVars, irqVars, workVars, pm>>

SuspendMask ==
  /\ pm = "poll" /\ cancelled = {}
  /\ pm' = "freeirq"
  /\ mask' = FALSE
  /\ UNCHANGED <<threadVars, status, done, prList, hostVars, irqPending, msi,
                 handler, workVars, cancelled, lost>>

\* synchronize_irq, free_irq, pci_disable_msi.
SuspendFreeIrq ==
  /\ pm = "freeirq" /\ pm' = "flush"
  /\ handler' = FALSE
  /\ msi' = FALSE
  /\ UNCHANGED <<threadVars, status, done, prList, hostVars, irqPending, mask,
                 workVars, cancelled, lost>>

\* flush_scheduled_work returns.
SuspendFlush ==
  /\ pm = "flush" /\ pm' = "off"
  /\ ~workQueued /\ work = "idle"
  /\ UNCHANGED <<threadVars, status, done, prList, hostVars, irqVars, workVars,
                 cancelled, lost>>

\* prl_tg_initialize; when it fails the device stays off.
ResumeInit ==
  /\ pm = "off" /\ pm' = "resume"
  /\ handler' = TRUE
  /\ msi' \in BOOLEAN
  /\ UNCHANGED <<threadVars, status, done, prList, hostVars, irqPending, mask,
                 workVars, cancelled, lost>>

\* Seeded fault: resume does not enable the interrupt.
ResumeUnmask_Forgotten ==
  /\ pm = "resume" /\ pm' = "on"
  /\ UNCHANGED <<threadVars, status, done, prList, hostVars, irqVars, workVars,
                 cancelled, lost>>

ResumeUnmask ==
  /\ pm = "resume" /\ pm' = "on"
  /\ mask' = TRUE
  /\ UNCHANGED <<threadVars, status, done, prList, hostVars, irqPending, msi,
                 handler, workVars, cancelled, lost>>

-----------------------------------------------------------------------------
Thread(r) ==
  \/ Create(r)     \/ Submit(r)      \/ ReadStatus(r) \/ Enqueue(r)
  \/ AsyncFinish(r) \/ Woken(r)      \/ Signal(r)     \/ AskCancel(r)
  \/ CheckCancel(r) \/ Unlink(r)     \/ Release(r)

Work == WorkWalk \/ WorkUnmask \/ WorkEnd \/ \E r \in Reqs : WorkWake(r)

Power ==
  \/ SuspendCollect \/ SuspendCancel \/ SuspendMask \/ SuspendFreeIrq
  \/ SuspendFlush   \/ ResumeInit    \/ ResumeUnmask
  \/ \E r \in Reqs : SuspendPoll(r)

Next ==
  \/ \E r \in Reqs : Thread(r) \/ Answer(r)
  \/ Interrupt \/ Work \/ Power

Spec == Init /\ [][Next]_vars

(* What runs by itself: a call in progress, the host, the interrupt, the    *)
(* work item, a suspend that has begun.  Calls, signals, the end of an      *)
(* asynchronous call and a suspend are decided elsewhere and are not fair.  *)
(* A port write waits while the device is off and an interrupt while it is  *)
(* masked, so these need strong fairness.                                   *)
Fairness ==
  /\ \A r \in Reqs :
       /\ SF_vars(Submit(r)) /\ WF_vars(ReadStatus(r)) /\ WF_vars(Enqueue(r))
       /\ WF_vars(Woken(r)) /\ SF_vars(AskCancel(r)) /\ WF_vars(CheckCancel(r))
       /\ WF_vars(Unlink(r)) /\ WF_vars(Release(r))
       /\ WF_vars(Answer(r)) /\ WF_vars(WorkWake(r)) /\ WF_vars(SuspendPoll(r))
  /\ SF_vars(Interrupt)
  /\ WF_vars(WorkWalk) /\ WF_vars(WorkUnmask) /\ WF_vars(WorkEnd)
  /\ WF_vars(SuspendCancel) /\ WF_vars(SuspendMask) /\ WF_vars(SuspendFreeIrq)
  /\ WF_vars(SuspendFlush) /\ WF_vars(ResumeInit) /\ WF_vars(ResumeUnmask)

FairSpec == Spec /\ Fairness

-----------------------------------------------------------------------------
(* Properties.                                                             *)

\* Places of a caller whose request is on pr_list or was taken off it.
InFlight == {"started", "waiting", "cancel", "canceled", "unlink", "drain"}
Freed(r) == pc[r] \in {"idle", "out"}

\* When the memory of a request is freed no list of the driver holds it and
\* neither the work item nor the suspend will complete it (prltg_call.c:456-464).
FreedUnlisted ==
  \A r \in Reqs : Freed(r) => r \notin prList \cup completed \cup cancelled

\* When the memory of a request is freed the host does not hold it: a late
\* answer would be written into somebody else's memory (prltg.c:120-124).
FreedNotHeld == \A r \in Reqs \ Restart : Freed(r) => r \notin host

\* The same for requests that are restarted on success: the comment at
\* prltg_call.c:459 says that nobody will complete an unlinked request.
RestartFreedNotHeld == \A r \in Restart : Freed(r) => r \notin host

\* A request is completed at most once, by the work item or by the suspend,
\* and `processed' tells the caller exactly whether somebody else has it.
CompletedOnce ==
  \A r \in Reqs :
    /\ r \in prList => r \notin completed \cup cancelled /\ done[r] = 0
    /\ r \in completed => r \notin cancelled /\ done[r] = 0
    /\ r \in cancelled => done[r] = 0
    /\ pc[r] \in InFlight => (processed[r] <=> r \notin prList)

\* While the device is on, an answered request on pr_list always has an
\* interrupt or a run of the work item ahead of it, and a pending interrupt
\* is masked only if the work item is going to unmask it (prltg.c:73-75,
\* prltg_call.c:404-409).
InterruptNotLost ==
  pm = "on" =>
    /\ Answered # {} => irqPending \/ workQueued
    /\ irqPending => mask \/ workQueued \/ work = "unmask"

\* Every call that waits for its request returns (the caller of an
\* asynchronous request may keep its handle for ever), but for the one whose
\* cancel the host did not confirm in time: it was taken off pr_list and
\* nobody will complete it, also if the host answers later (prltg.c:114-129).
CallReturns ==
  \A r \in Reqs :
    (pc[r] \notin {"idle", "started"}) ~> (pc[r] \in {"idle", "started"} \/ r \in lost)

\* The contract, with the request's place and Status read as its phase.
PhaseOf(r) ==
  IF pc[r] = "idle" THEN "idle"
  ELSE IF pc[r] = "mapped" THEN "new"
  ELSE IF r \in host THEN "held" ELSE "answered"

Contract == INSTANCE TgContract WITH
  phase  <- [r \in Reqs |-> PhaseOf(r)],
  answer <- [r \in Reqs |-> IF PhaseOf(r) = "answered" THEN status[r] ELSE "PENDING"]

\* The transport implements the contract.
ImplementsContract == Contract!CSpec
=============================================================================
