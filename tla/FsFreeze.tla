------------------------------ MODULE FsFreeze ------------------------------
(***************************************************************************)
(* prl_fs_freeze.c: /proc/driver/prl_freeze.  Each write is a list of      *)
(* commands, run in order until one fails; a timer thaws everything        *)
(* through a work item; unloading the module thaws everything too.         *)
(*                                                                         *)
(* frozen_mutex is held across freeze_bdev, which sleeps: a mount whose    *)
(* device lies on a frozen mount cannot be frozen (its last data cannot be *)
(* written) until that mount is thawed.  freeze_bdev and thaw_bdev, which  *)
(* nest, are external.  A section that takes the mutex and does not sleep  *)
(* is one step.                                                            *)
(***************************************************************************)
EXTENDS Integers, Sequences

CONSTANTS
  Writers,   \* processes that write to the file
  Readers,   \* processes that read it
  Mounts,    \* super blocks
  Scripts,   \* the command lists that are written
  Backing,   \* pairs <<m, p>>: the device of m lies on mount p
  None       \* no process

Freeze(m) == [op |-> "freeze", mnt |-> m]
Thaw(m)   == [op |-> "thaw", mnt |-> m]
All       == [op |-> "all"]      \* #
Arm       == [op |-> "arm"]      \* t<seconds>
Bad       == [op |-> "bad"]      \* *, a malformed t, an unknown letter
Commands  == {Freeze(m) : m \in Mounts} \cup {Thaw(m) : m \in Mounts}
               \cup {All, Arm, Bad}

ASSUME FreezeAssumption ==
  /\ Scripts \subseteq Seq(Commands)
  /\ Backing \subseteq Mounts \X Mounts
  /\ Writers \cap Readers = {}
  /\ None \notin Writers \cup Readers

VARIABLES
  pc,       \* where each writer is
  rest,     \* the commands it has left
  mutex,    \* holder of frozen_mutex
  frozen,   \* the list frozen_sb
  depth,    \* how often each mount's device is frozen (the kernel's count)
  timer,    \* thaw_timer is pending
  queued,   \* thaw_work is queued
  working,  \* thaw_timeout runs
  ahead,    \* the runs of the work a flush still waits for
  module    \* where cleanup_module is

vars == <<pc, rest, mutex, frozen, depth, timer, queued, working, ahead, module>>

TypeOK ==
  /\ pc \in [Writers -> {"idle", "run", "freezing", "cancel", "flush", "flushing"}]
  /\ rest \in [Writers -> Seq(Commands)]
  /\ mutex \in Writers \cup Readers \cup {None}
  /\ frozen \subseteq Mounts
  /\ depth \in [Mounts -> Nat]
  /\ timer \in BOOLEAN /\ queued \in BOOLEAN /\ working \in BOOLEAN
  /\ ahead \in [Writers -> 0..2]
  /\ module \in {"loaded", "removed", "thawed", "cancelled", "gone"}

Init ==
  /\ pc = [w \in Writers |-> "idle"]
  /\ rest = [w \in Writers |-> <<>>]
  /\ mutex = None
  /\ frozen = {}
  /\ depth = [m \in Mounts |-> 0]
  /\ timer = FALSE /\ queued = FALSE /\ working = FALSE
  /\ ahead = [w \in Writers |-> 0]
  /\ module = "loaded"

-----------------------------------------------------------------------------
(* freeze_write.                                                           *)

Command(w, op) == pc[w] = "run" /\ rest[w] # <<>> /\ Head(rest[w]).op = op
Mnt(w) == Head(rest[w]).mnt

\* The command succeeded, the next one is looked at.
Ok(w) ==
  /\ pc' = [pc EXCEPT ![w] = "run"]
  /\ rest' = [rest EXCEPT ![w] = Tail(@)]

\* The command failed, the write returns its error and drops the rest.
Fail(w) ==
  /\ pc' = [pc EXCEPT ![w] = "idle"]
  /\ rest' = [rest EXCEPT ![w] = <<>>]

Write(w) ==
  /\ module = "loaded"
  /\ pc[w] = "idle"
  /\ \E s \in Scripts : rest' = [rest EXCEPT ![w] = s]
  /\ pc' = [pc EXCEPT ![w] = "run"]
  /\ UNCHANGED <<mutex, frozen, depth, timer, queued, working, ahead, module>>

Return(w) ==
  /\ pc[w] = "run" /\ rest[w] = <<>>
  /\ pc' = [pc EXCEPT ![w] = "idle"]
  /\ UNCHANGED <<rest, mutex, frozen, depth, timer, queued, working, ahead, module>>

Reject(w) ==
  /\ Command(w, "bad")
  /\ Fail(w)
  /\ UNCHANGED <<mutex, frozen, depth, timer, queued, working, ahead, module>>

\* lookup_target fails, before the mutex is taken.
LookupFails(w) ==
  /\ Command(w, "freeze") \/ Command(w, "thaw")
  /\ Fail(w)
  /\ UNCHANGED <<mutex, frozen, depth, timer, queued, working, ahead, module>>

\* Seeded fault: a mount that is listed already is frozen again.
FreezeBegin_Again(w) ==
  /\ Command(w, "freeze")
  /\ mutex = None
  /\ mutex' = w
  /\ pc' = [pc EXCEPT ![w] = "freezing"]
  /\ UNCHANGED <<rest, frozen, depth, timer, queued, working, ahead, module>>

\* freeze_sb up to freeze_bdev: -EEXIST for a listed mount.
FreezeBegin(w) ==
  /\ Command(w, "freeze")
  /\ mutex = None
  /\ \/ /\ Mnt(w) \in frozen
        /\ Fail(w)
        /\ UNCHANGED mutex
     \/ /\ Mnt(w) \notin frozen
        /\ mutex' = w
        /\ pc' = [pc EXCEPT ![w] = "freezing"]
        /\ UNCHANGED rest
  /\ UNCHANGED <<frozen, depth, timer, queued, working, ahead, module>>

\* Seeded fault: the error of freeze_bdev leaves the mutex locked.
FreezeEnd_KeepsMutex(w) ==
  /\ pc[w] = "freezing"
  /\ \/ /\ mutex' = None
        /\ frozen' = frozen \cup {Mnt(w)}
        /\ depth' = [depth EXCEPT ![Mnt(w)] = @ + 1]
        /\ Ok(w)
     \/ Fail(w) /\ UNCHANGED <<mutex, frozen, depth>>
  /\ UNCHANGED <<timer, queued, working, ahead, module>>

\* freeze_bdev returns, once the mount below lets it write.
FreezeEnd(w) ==
  /\ pc[w] = "freezing"
  /\ \A p \in Mounts : <<Mnt(w), p>> \in Backing => depth[p] = 0
  /\ mutex' = None
  /\ \/ /\ frozen' = frozen \cup {Mnt(w)}
        /\ depth' = [depth EXCEPT ![Mnt(w)] = @ + 1]
        /\ Ok(w)
     \/ Fail(w) /\ UNCHANGED <<frozen, depth>>
  /\ UNCHANGED <<timer, queued, working, ahead, module>>

\* thaw_sb: -ENOENT for a mount that is not listed.
ThawOne(w) ==
  /\ Command(w, "thaw")
  /\ mutex = None
  /\ \/ /\ Mnt(w) \in frozen
        /\ frozen' = frozen \ {Mnt(w)}
        /\ depth' = [depth EXCEPT ![Mnt(w)] = @ - 1]
        /\ Ok(w)
     \/ /\ Mnt(w) \notin frozen
        /\ Fail(w)
        /\ UNCHANGED <<frozen, depth>>
  /\ UNCHANGED <<mutex, timer, queued, working, ahead, module>>

\* thaw_all, of a `#', of the work item and of the unloading.
ThawAll ==
  /\ mutex = None
  /\ depth' = [m \in Mounts |-> IF m \in frozen THEN depth[m] - 1 ELSE depth[m]]
  /\ frozen' = {}
  /\ UNCHANGED mutex

CommandAll(w) ==
  /\ Command(w, "all")
  /\ ThawAll
  /\ pc' = [pc EXCEPT ![w] = "cancel"]
  /\ UNCHANGED <<rest, timer, queued, working, ahead, module>>

\* cancel_timeout: del_timer_sync, then flush_scheduled_work.
CancelTimer(w) ==
  /\ pc[w] = "cancel"
  /\ timer' = FALSE
  /\ pc' = [pc EXCEPT ![w] = "flush"]
  /\ UNCHANGED <<rest, mutex, frozen, depth, queued, working, ahead, module>>

\* flush_scheduled_work waits for what is queued when it is called, not for
\* what is queued later.
FlushBegin(w) ==
  /\ pc[w] = "flush"
  /\ pc' = [pc EXCEPT ![w] = "flushing"]
  /\ ahead' = [ahead EXCEPT ![w] = IF queued /\ working THEN 2
                                   ELSE IF queued \/ working THEN 1 ELSE 0]
  /\ UNCHANGED <<rest, mutex, frozen, depth, timer, queued, working, module>>

FlushEnd(w) ==
  /\ pc[w] = "flushing"
  /\ ahead[w] = 0
  /\ Ok(w)
  /\ UNCHANGED <<mutex, frozen, depth, timer, queued, working, ahead, module>>

\* arm_timeout: -EBUSY while the timer is pending.
ArmTimeout(w) ==
  /\ Command(w, "arm")
  /\ mutex = None
  /\ \/ timer /\ Fail(w) /\ UNCHANGED timer
     \/ ~timer /\ timer' = TRUE /\ Ok(w)
  /\ UNCHANGED <<mutex, frozen, depth, queued, working, ahead, module>>

-----------------------------------------------------------------------------
(* The seq_file of a reader, the timer, its work, the unloading.           *)

SeqStart(r) ==
  /\ module = "loaded" /\ mutex = None /\ mutex' = r
  /\ UNCHANGED <<pc, rest, frozen, depth, timer, queued, working, ahead, module>>

SeqStop(r) ==
  /\ mutex = r /\ mutex' = None
  /\ UNCHANGED <<pc, rest, frozen, depth, timer, queued, working, ahead, module>>

TimerFires ==
  /\ timer
  /\ timer' = FALSE
  /\ queued' = TRUE
  /\ UNCHANGED <<pc, rest, mutex, frozen, depth, working, ahead, module>>

WorkStarts ==
  /\ queued /\ ~working
  /\ queued' = FALSE
  /\ working' = TRUE
  /\ UNCHANGED <<pc, rest, mutex, frozen, depth, timer, ahead, module>>

\* Seeded fault: the work ends without thawing.
WorkThaws_Nothing ==
  /\ working
  /\ mutex = None
  /\ working' = FALSE
  /\ ahead' = [w \in Writers |-> IF ahead[w] = 0 THEN 0 ELSE ahead[w] - 1]
  /\ UNCHANGED <<pc, rest, mutex, frozen, depth, timer, queued, module>>

WorkThaws ==
  /\ working
  /\ ThawAll
  /\ working' = FALSE
  /\ ahead' = [w \in Writers |-> IF ahead[w] = 0 THEN 0 ELSE ahead[w] - 1]
  /\ UNCHANGED <<pc, rest, timer, queued, module>>

\* remove_proc_entry waits for the writes and reads in progress.
Remove ==
  /\ module = "loaded" /\ module' = "removed"
  /\ \A w \in Writers : pc[w] = "idle"
  /\ mutex \notin Readers
  /\ UNCHANGED <<pc, rest, mutex, frozen, depth, timer, queued, working, ahead>>

RemoveThaws ==
  /\ module = "removed" /\ module' = "thawed"
  /\ ThawAll
  /\ UNCHANGED <<pc, rest, timer, queued, working, ahead>>

RemoveCancels ==
  /\ module = "thawed" /\ module' = "cancelled"
  /\ timer' = FALSE
  /\ UNCHANGED <<pc, rest, mutex, frozen, depth, queued, working, ahead>>

\* Seeded fault: del_timer_sync alone.
RemoveFlushes_Not ==
  /\ module = "cancelled" /\ module' = "gone"
  /\ UNCHANGED <<pc, rest, mutex, frozen, depth, timer, queued, working, ahead>>

RemoveFlushes ==
  /\ module = "cancelled" /\ module' = "gone"
  /\ ~queued /\ ~working
  /\ UNCHANGED <<pc, rest, mutex, frozen, depth, timer, queued, working, ahead>>

-----------------------------------------------------------------------------
Step(w) ==
  \/ Return(w)      \/ Reject(w)      \/ LookupFails(w) \/ FreezeBegin(w)
  \/ FreezeEnd(w)   \/ ThawOne(w)     \/ CommandAll(w)  \/ CancelTimer(w)
  \/ FlushBegin(w)  \/ FlushEnd(w)    \/ ArmTimeout(w)

Unload == Remove \/ RemoveThaws \/ RemoveCancels \/ RemoveFlushes

Next ==
  \/ \E w \in Writers : Write(w) \/ Step(w)
  \/ \E r \in Readers : SeqStart(r) \/ SeqStop(r)
  \/ TimerFires \/ WorkStarts \/ WorkThaws
  \/ Unload

Spec == Init /\ [][Next]_vars

\* Processes that contend for the mutex get it in the end (it is a fair lock),
\* the timer expires, the work queue runs, and an unloading goes on.
FairSpec ==
  /\ Spec
  /\ \A w \in Writers : SF_vars(Step(w))
  /\ \A r \in Readers : WF_vars(SeqStop(r))
  /\ WF_vars(TimerFires) /\ WF_vars(WorkStarts) /\ SF_vars(WorkThaws)
  /\ WF_vars(RemoveThaws) /\ WF_vars(RemoveCancels) /\ WF_vars(RemoveFlushes)

-----------------------------------------------------------------------------
(* Properties.                                                             *)

\* The list agrees with the kernel's freeze count: nothing is frozen twice,
\* left frozen off the list, or thawed more often than frozen
\* (prl_fs_freeze.c:100-179).
Balanced == \A m \in Mounts : depth[m] = IF m \in frozen THEN 1 ELSE 0

\* When the module is gone nothing is frozen and neither the timer nor its
\* work will run (prl_fs_freeze.c:369-374).
UnloadClean ==
  module = "gone" => /\ \A m \in Mounts : depth[m] = 0
                     /\ ~timer /\ ~queued /\ ~working

\* A mount is being frozen that lies on a frozen one: freeze_bdev sleeps with
\* frozen_mutex held, and no thaw gets it (prl_fs_freeze.c:116, 154).
Asleep ==
  \E w \in Writers, p \in Mounts :
    pc[w] = "freezing" /\ <<Mnt(w), p>> \in Backing /\ depth[p] > 0

\* Every write returns, a `#' with its flush of the work queue included; only
\* a freeze of a mount on a frozen one holds it, and all others, up
\* (prl_fs_freeze.c:214-301).
WriteReturns == \A w \in Writers : (pc[w] # "idle") ~> (pc[w] = "idle" \/ Asleep)

\* An armed timer thaws what is frozen, unless a `#' deletes it or a freeze
\* sleeps (prl_fs_freeze.c:36,181-203).
TimerThaws ==
  timer ~> \/ \A m \in Mounts : depth[m] = 0
           \/ \E w \in Writers : pc[w] = "flush"
           \/ Asleep
=============================================================================
