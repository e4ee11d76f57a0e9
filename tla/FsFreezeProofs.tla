--------------------------- MODULE FsFreezeProofs ---------------------------
(***************************************************************************)
(* For any writers, readers, mounts and command lists: the list of frozen  *)
(* super blocks agrees with the kernel's freeze counts, and an unloaded    *)
(* module leaves nothing frozen and nothing scheduled.                     *)
(*                                                                         *)
(* The argument: a mount that passed freeze_sb's look at the list stays    *)
(* off it until freeze_bdev has returned, because the mutex is held        *)
(* (Freezing); from remove_proc_entry on there is no writer and no reader, *)
(* so nobody interferes with the cleanup's calls (Unloading).              *)
(***************************************************************************)
EXTENDS FsFreeze, TLAPS

\* Inside a command there is a command, and freeze_bdev is called with the
\* mutex held, for a mount that is not listed.
Freezing ==
  /\ \A w \in Writers :
       /\ pc[w] \notin {"idle", "run"} => rest[w] # <<>>
       /\ pc[w] = "freezing" => /\ mutex = w
                                /\ Head(rest[w]).op = "freeze"
                                /\ Mnt(w) \notin frozen
  /\ mutex \in Writers => pc[mutex] = "freezing"

Unloading ==
  /\ module # "loaded" => mutex = None /\ \A w \in Writers : pc[w] = "idle"
  /\ module \in {"thawed", "cancelled", "gone"} => frozen = {}
  /\ module \in {"cancelled", "gone"} => ~timer
  /\ module = "gone" => ~queued /\ ~working

IInv == TypeOK /\ Balanced /\ Freezing /\ Unloading

\* The path of a freeze or a thaw names a mount.
LEMMA TargetIsMount ==
  ASSUME NEW c \in Commands, c.op \in {"freeze", "thaw"}
  PROVE  c.mnt \in Mounts
BY DEF Commands, Freeze, Thaw, All, Arm, Bad

\* So the target of a writer's command is a mount.
LEMMA MntIsMount ==
  ASSUME TypeOK, NEW w \in Writers, rest[w] # <<>>,
         Head(rest[w]).op \in {"freeze", "thaw"}
  PROVE  Mnt(w) \in Mounts
<1>1. rest[w] \in Seq(Commands)
  BY DEF TypeOK
<1>2. Head(rest[w]) \in Commands
  BY <1>1
<1> QED BY <1>2, TargetIsMount DEF Mnt

LEMMA InitInv == Init => IInv
<1> SUFFICES ASSUME Init PROVE IInv
  OBVIOUS
<1>1. TypeOK
  <2>1. pc \in [Writers -> {"idle", "run", "freezing", "cancel", "flush", "flushing"}]
    BY DEF Init
  <2>2. depth \in [Mounts -> Nat] /\ ahead \in [Writers -> 0..2]
    BY DEF Init
  <2>3. rest \in [Writers -> Seq(Commands)]
    <3>1. <<>> \in Seq(Commands)
      OBVIOUS
    <3> QED BY <3>1, Zenon DEF Init
  <2>4. timer \in BOOLEAN /\ queued \in BOOLEAN /\ working \in BOOLEAN
    BY DEF Init
  <2>5. mutex \in Writers \cup Readers \cup {None} /\ frozen \subseteq Mounts
    BY DEF Init
  <2>6. module \in {"loaded", "removed", "thawed", "cancelled", "gone"}
    BY DEF Init
  <2> QED BY <2>1, <2>2, <2>3, <2>4, <2>5, <2>6, Zenon DEF TypeOK
<1>2. Balanced
  BY DEF Init, Balanced
<1>3. Freezing /\ Unloading
  BY FreezeAssumption DEF Init, Freezing, Unloading
<1> QED BY <1>1, <1>2, <1>3 DEF IInv

\* Going on to the next command keeps the types.
LEMMA OkType ==
  ASSUME TypeOK, NEW w \in Writers, rest[w] # <<>>, Ok(w)
  PROVE  /\ pc' \in [Writers -> {"idle", "run", "freezing", "cancel", "flush", "flushing"}]
         /\ rest' \in [Writers -> Seq(Commands)]
<1>1. Tail(rest[w]) \in Seq(Commands)
  BY DEF TypeOK
<1> QED BY <1>1 DEF TypeOK, Ok

\* Failing does too.
LEMMA FailType ==
  ASSUME TypeOK, NEW w \in Writers, Fail(w)
  PROVE  /\ pc' \in [Writers -> {"idle", "run", "freezing", "cancel", "flush", "flushing"}]
         /\ rest' \in [Writers -> Seq(Commands)]
BY DEF TypeOK, Fail

\* thaw_all keeps the list and the counts in agreement and empties both.
LEMMA ThawAllBalanced ==
  ASSUME TypeOK, Balanced, ThawAll
  PROVE  /\ Balanced' /\ frozen' = {} /\ mutex' = mutex /\ mutex = None
         /\ depth' \in [Mounts -> Nat]
BY DEF TypeOK, Balanced, ThawAll

LEMMA NextInv == IInv /\ [Next]_vars => IInv'
<1> SUFFICES ASSUME IInv, [Next]_vars PROVE IInv'
  OBVIOUS
<1> USE FreezeAssumption DEF IInv
<1>1. TypeOK'
  <2>1. CASE UNCHANGED vars
    BY <2>1 DEF TypeOK, vars
  <2>2. ASSUME NEW w \in Writers, Write(w) PROVE TypeOK'
    BY <2>2 DEF TypeOK, Write
  <2>3. ASSUME NEW w \in Writers, Return(w) PROVE TypeOK'
    BY <2>3 DEF TypeOK, Return
  <2>4. ASSUME NEW w \in Writers, Reject(w) \/ LookupFails(w) PROVE TypeOK'
    <3>1. Fail(w)
      BY <2>4 DEF Reject, LookupFails
    <3> QED BY <2>4, <3>1, FailType DEF TypeOK, Reject, LookupFails
  <2>5. ASSUME NEW w \in Writers, FreezeBegin(w) PROVE TypeOK'
    <3>1. CASE Fail(w) /\ UNCHANGED mutex
      BY <2>5, <3>1, FailType DEF TypeOK, FreezeBegin
    <3>2. CASE mutex' = w /\ pc' = [pc EXCEPT ![w] = "freezing"] /\ UNCHANGED rest
      BY <2>5, <3>2 DEF TypeOK, FreezeBegin
    <3> QED BY <2>5, <3>1, <3>2 DEF FreezeBegin
  <2>6. ASSUME NEW w \in Writers, FreezeEnd(w) PROVE TypeOK'
    <3>1. Mnt(w) \in Mounts /\ rest[w] # <<>>
      BY <2>6, MntIsMount DEF Freezing, FreezeEnd
    <3>2. CASE Fail(w)
      BY <2>6, <3>1, <3>2, FailType DEF TypeOK, FreezeEnd
    <3>3. CASE Ok(w)
      <4>1. /\ pc' \in [Writers -> {"idle", "run", "freezing", "cancel", "flush", "flushing"}]
            /\ rest' \in [Writers -> Seq(Commands)]
        BY <3>1, <3>3, OkType
      <4>2. depth' \in [Mounts -> Nat] /\ frozen' \subseteq Mounts /\ mutex' = None
        BY <2>6, <3>1 DEF TypeOK, FreezeEnd
      <4> QED BY <2>6, <4>1, <4>2 DEF TypeOK, FreezeEnd
    <3> QED BY <2>6, <3>2, <3>3 DEF FreezeEnd
  <2>7. ASSUME NEW w \in Writers, ThawOne(w) PROVE TypeOK'
    <3>1. Mnt(w) \in Mounts /\ rest[w] # <<>>
      BY <2>7, MntIsMount DEF ThawOne, Command
    <3>2. CASE Fail(w)
      BY <2>7, <3>1, <3>2, FailType DEF TypeOK, ThawOne, Balanced
    <3>3. CASE Ok(w)
      BY <2>7, <3>1, <3>3, OkType DEF TypeOK, ThawOne, Balanced
    <3> QED BY <2>7, <3>2, <3>3 DEF ThawOne
  <2>8. ASSUME NEW w \in Writers, CommandAll(w) PROVE TypeOK'
    BY <2>8, ThawAllBalanced DEF TypeOK, CommandAll
  <2>9. ASSUME NEW w \in Writers, CancelTimer(w) \/ FlushBegin(w) PROVE TypeOK'
    <3>1. /\ pc' \in [Writers -> {"idle", "run", "freezing", "cancel", "flush", "flushing"}]
      BY <2>9 DEF TypeOK, CancelTimer, FlushBegin
    <3>2. CASE CancelTimer(w)
      BY <3>1, <3>2 DEF TypeOK, CancelTimer
    <3>3. CASE FlushBegin(w)
      <4>1. ahead' \in [Writers -> 0..2]
        BY <3>3 DEF TypeOK, FlushBegin
      <4> QED BY <3>1, <3>3, <4>1 DEF TypeOK, FlushBegin
    <3> QED BY <2>9, <3>2, <3>3
  <2>10. ASSUME NEW w \in Writers, FlushEnd(w) PROVE TypeOK'
    <3>1. rest[w] # <<>> /\ Ok(w)
      BY <2>10 DEF Freezing, FlushEnd
    <3> QED BY <2>10, <3>1, OkType DEF TypeOK, FlushEnd
  <2>11. ASSUME NEW w \in Writers, ArmTimeout(w) PROVE TypeOK'
    <3>1. rest[w] # <<>>
      BY <2>11 DEF ArmTimeout, Command
    <3> QED BY <2>11, <3>1, OkType, FailType DEF TypeOK, ArmTimeout
  <2>12. ASSUME NEW r \in Readers, SeqStart(r) \/ SeqStop(r) PROVE TypeOK'
    BY <2>12 DEF TypeOK, SeqStart, SeqStop
  <2>13. CASE TimerFires \/ WorkStarts
    BY <2>13 DEF TypeOK, TimerFires, WorkStarts
  <2>14. CASE WorkThaws
    <3>1. ahead' \in [Writers -> 0..2]
      BY <2>14 DEF TypeOK, WorkThaws
    <3> QED BY <2>14, <3>1, ThawAllBalanced DEF TypeOK, WorkThaws
  <2>15. CASE Unload
    BY <2>15, ThawAllBalanced
       DEF TypeOK, Unload, Remove, RemoveThaws, RemoveCancels, RemoveFlushes
  <2> QED BY <2>1, <2>2, <2>3, <2>4, <2>5, <2>6, <2>7, <2>8, <2>9, <2>10, <2>11,
             <2>12, <2>13, <2>14, <2>15 DEF Next, Step
<1>2. Balanced'
  <2>1. CASE UNCHANGED <<frozen, depth>>
    BY <2>1 DEF Balanced
  <2>2. ASSUME NEW w \in Writers, FreezeEnd(w) PROVE Balanced'
    <3>1. Mnt(w) \in Mounts \ frozen
      BY <2>2, MntIsMount DEF Freezing, FreezeEnd
    <3> QED BY <2>2, <3>1 DEF Balanced, TypeOK, FreezeEnd
  <2>3. ASSUME NEW w \in Writers, ThawOne(w) PROVE Balanced'
    BY <2>3 DEF Balanced, TypeOK, ThawOne
  <2>4. CASE ThawAll
    BY <2>4, ThawAllBalanced
  <2>5. CASE UNCHANGED vars
    BY <2>5, <2>1 DEF vars
  <2>6. ASSUME NEW w \in Writers, Write(w) \/ Step(w) PROVE Balanced'
    BY <2>6, <2>1, <2>2, <2>3, <2>4
       DEF Write, Step, Return, Reject, LookupFails, FreezeBegin, CommandAll,
           CancelTimer, FlushBegin, FlushEnd, ArmTimeout
  <2> QED BY <2>1, <2>4, <2>5, <2>6
          DEF Next, SeqStart, SeqStop, TimerFires, WorkStarts, WorkThaws, Unload,
              Remove, RemoveThaws, RemoveCancels, RemoveFlushes
<1>3. Freezing'
  <2>1. CASE UNCHANGED <<pc, rest, mutex, frozen>>
    BY <2>1 DEF Freezing, Mnt
  <2>2. CASE ThawAll /\ UNCHANGED <<pc, rest>>
    BY <2>2 DEF ThawAll, Freezing, Mnt
  <2>3. ASSUME NEW w \in Writers, Write(w) \/ Return(w) PROVE Freezing'
    BY <2>3 DEF Freezing, Mnt, Write, Return, TypeOK
  <2>4. ASSUME NEW w \in Writers, Reject(w) \/ LookupFails(w) PROVE Freezing'
    BY ZenonT(40), <2>4 DEF Freezing, Mnt, Reject, LookupFails, Fail, Command, TypeOK
  <2>5. ASSUME NEW w \in Writers, FreezeBegin(w) PROVE Freezing'
    BY <2>5 DEF Freezing, Mnt, FreezeBegin, Fail, Command, TypeOK
  <2>6. ASSUME NEW w \in Writers, FreezeEnd(w) PROVE Freezing'
    BY <2>6 DEF Freezing, Mnt, FreezeEnd, Ok, Fail, TypeOK
  <2>7. ASSUME NEW w \in Writers, ThawOne(w) PROVE Freezing'
    BY <2>7 DEF Freezing, Mnt, ThawOne, Ok, Fail, Command, TypeOK
  <2>8. ASSUME NEW w \in Writers, CommandAll(w) PROVE Freezing'
    BY <2>8 DEF Freezing, Mnt, CommandAll, ThawAll, Command, TypeOK
  <2>9. ASSUME NEW w \in Writers, CancelTimer(w) \/ FlushBegin(w) PROVE Freezing'
    BY <2>9 DEF Freezing, Mnt, CancelTimer, FlushBegin, TypeOK
  <2>10. ASSUME NEW w \in Writers, FlushEnd(w) PROVE Freezing'
    BY <2>10 DEF Freezing, Mnt, FlushEnd, Ok, TypeOK
  <2>11. ASSUME NEW w \in Writers, ArmTimeout(w) PROVE Freezing'
    BY <2>11 DEF Freezing, Mnt, ArmTimeout, Ok, Fail, Command, TypeOK
  <2>12. ASSUME NEW r \in Readers, SeqStart(r) \/ SeqStop(r) PROVE Freezing'
    BY <2>12 DEF Freezing, Mnt, SeqStart, SeqStop
  <2> QED BY <2>1, <2>2, <2>3, <2>4, <2>5, <2>6, <2>7, <2>8, <2>9, <2>10, <2>11, <2>12
          DEF Next, Step, vars, TimerFires, WorkStarts, WorkThaws, Unload,
              Remove, RemoveThaws, RemoveCancels, RemoveFlushes
<1>4. Unloading'
  <2>1. CASE UNCHANGED vars
    BY <2>1 DEF Unloading, vars
  <2>2. ASSUME NEW w \in Writers, Write(w) \/ Step(w) PROVE Unloading'
    <3>1. module = "loaded" /\ module' = "loaded"
      BY <2>2 DEF Unloading, Write, Step, Return, Reject, LookupFails, FreezeBegin,
                  FreezeEnd, ThawOne, CommandAll, CancelTimer, FlushBegin, FlushEnd,
                  ArmTimeout, Command
    <3> QED BY <3>1 DEF Unloading
  <2>3. ASSUME NEW r \in Readers, SeqStart(r) \/ SeqStop(r) PROVE Unloading'
    BY <2>3 DEF Unloading, SeqStart, SeqStop
  <2>4. CASE TimerFires \/ WorkStarts
    BY <2>4 DEF Unloading, TimerFires, WorkStarts
  <2>5. CASE WorkThaws
    BY <2>5, ThawAllBalanced DEF Unloading, WorkThaws
  <2>6. CASE Remove
    BY <2>6 DEF Unloading, Remove, Freezing, TypeOK
  <2>7. CASE RemoveThaws
    BY <2>7, ThawAllBalanced DEF Unloading, RemoveThaws
  <2>8. CASE RemoveCancels \/ RemoveFlushes
    BY <2>8 DEF Unloading, RemoveCancels, RemoveFlushes
  <2> QED BY <2>1, <2>2, <2>3, <2>4, <2>5, <2>6, <2>7, <2>8 DEF Next, Unload
<1> QED BY <1>1, <1>2, <1>3, <1>4

\* Every variable keeps its type; no mount is thawed below zero.
THEOREM TypeCorrect == Spec => []TypeOK
<1>1. IInv => TypeOK
  BY DEF IInv
<1> QED BY InitInv, NextInv, <1>1, PTL DEF Spec

\* The list frozen_sb and the kernel's freeze counts agree
\* (prl_fs_freeze.c:100-179).
THEOREM StaysBalanced == Spec => []Balanced
<1>1. IInv => Balanced
  BY DEF IInv
<1> QED BY InitInv, NextInv, <1>1, PTL DEF Spec

\* After cleanup_module nothing is frozen, and neither the timer nor its work
\* can run (prl_fs_freeze.c:369-374).
THEOREM UnloadsClean == Spec => []UnloadClean
<1>1. IInv => UnloadClean
  BY DEF IInv, Balanced, Unloading, UnloadClean
<1> QED BY InitInv, NextInv, <1>1, PTL DEF Spec
=============================================================================
