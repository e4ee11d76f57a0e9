--------------------------- MODULE ToolGateProofs ---------------------------
(***************************************************************************)
(* Theorems about ToolGate, for any set of requests.                       *)
(***************************************************************************)
EXTENDS ToolGate, TLAPS

\* Who has a request: it is on one list at most, only while its caller is in
\* flight, and `processed' tells pr_list from the others.
ListsInv ==
  \A r \in Reqs :
    /\ r \in prList =>
         pc[r] \in InFlight /\ ~processed[r] /\ done[r] = 0
           /\ r \notin completed /\ r \notin cancelled
    /\ r \in completed =>
         pc[r] \in InFlight /\ processed[r] /\ done[r] = 0 /\ r \notin cancelled
    /\ r \in cancelled => pc[r] \in InFlight /\ processed[r] /\ done[r] = 0
    /\ pc[r] \in InFlight /\ ~processed[r] => r \in prList

\* What Status says about the host, for a request that is submitted once.
HostInv ==
  \A r \in Reqs \ Restart :
    /\ pc[r] \in {"idle", "mapped", "unlink", "out"} => r \notin host
    /\ pc[r] \in InFlight \cup {"submitted", "enqueue"} =>
         (r \in host <=> status[r] = "PENDING")
    /\ r \in completed => status[r] # "PENDING"
    /\ pc[r] \in InFlight /\ done[r] > 0 => status[r] # "PENDING"

IInv == TypeOK /\ ListsInv /\ HostInv

-----------------------------------------------------------------------------
\* Every variable keeps its type.
THEOREM TypeCorrect == Spec => []TypeOK
<1>1. Init => TypeOK
  <2> SUFFICES ASSUME Init PROVE TypeOK
    OBVIOUS
  <2>1. /\ pc \in [Reqs -> Places] /\ status \in [Reqs -> Statuses]
        /\ processed \in [Reqs -> BOOLEAN]
        /\ done \in [Reqs -> Nat]
    BY DEF Init, Places, Statuses
  <2> QED BY <2>1, Zenon DEF Init, TypeOK
<1>2. TypeOK /\ [Next]_vars => TypeOK'
  <2> SUFFICES ASSUME TypeOK, [Next]_vars PROVE TypeOK'
    OBVIOUS
  <2> USE DEF TypeOK, Go, Places, Statuses, threadVars, hostVars, irqVars,
              workVars, pmVars
  <2>1. ASSUME NEW r \in Reqs, Thread(r) PROVE TypeOK'
    <3>1. CASE Create(r) BY <3>1 DEF Create
    <3>2. CASE Submit(r) BY <3>2 DEF Submit
    <3>3. CASE ReadStatus(r) BY <3>3 DEF ReadStatus
    <3>4. CASE Enqueue(r) BY <3>4 DEF Enqueue
    <3>5. CASE AsyncFinish(r) BY <3>5 DEF AsyncFinish
    <3>6. CASE Woken(r)
      <4>1. done' \in [Reqs -> Nat]
        BY <3>6 DEF Woken
      <4> QED BY <3>6, <4>1 DEF Woken
    <3>7. CASE Signal(r) BY <3>7 DEF Signal
    <3>8. CASE AskCancel(r) BY <3>8 DEF AskCancel
    <3>9. CASE CheckCancel(r) BY <3>9 DEF CheckCancel
    <3>10. CASE Unlink(r) BY <3>10 DEF Unlink
    <3>11. CASE Release(r) BY <3>11 DEF Release
    <3> QED BY <2>1, <3>1, <3>2, <3>3, <3>4, <3>5, <3>6, <3>7, <3>8, <3>9,
               <3>10, <3>11 DEF Thread
  <2>2. ASSUME NEW r \in Reqs, Answer(r) PROVE TypeOK'
    BY <2>2 DEF Answer
  <2>3. CASE Interrupt BY <2>3 DEF Interrupt
  <2>4. CASE Work
    <3>1. CASE WorkWalk BY <3>1 DEF WorkWalk, Answered, ToRestart
    <3>2. CASE WorkUnmask BY <3>2 DEF WorkUnmask
    <3>3. CASE WorkEnd BY <3>3 DEF WorkEnd
    <3>4. ASSUME NEW r \in Reqs, WorkWake(r) PROVE TypeOK'
      BY <3>4 DEF WorkWake
    <3> QED BY <2>4, <3>1, <3>2, <3>3, <3>4 DEF Work
  <2>5. CASE Power
    <3>1. CASE SuspendCollect BY <3>1 DEF SuspendCollect, Answered
    <3>2. CASE SuspendCancel BY <3>2 DEF SuspendCancel
    <3>3. CASE SuspendMask BY <3>3 DEF SuspendMask
    <3>4. CASE SuspendFreeIrq BY <3>4 DEF SuspendFreeIrq
    <3>5. CASE SuspendFlush BY <3>5 DEF SuspendFlush
    <3>6. CASE ResumeInit BY <3>6 DEF ResumeInit
    <3>7. CASE ResumeUnmask BY <3>7 DEF ResumeUnmask
    <3>8. ASSUME NEW r \in Reqs, SuspendPoll(r) PROVE TypeOK'
      BY <3>8 DEF SuspendPoll
    <3> QED BY <2>5, <3>1, <3>2, <3>3, <3>4, <3>5, <3>6, <3>7, <3>8 DEF Power
  <2>6. CASE UNCHANGED vars BY <2>6 DEF vars
  <2> QED BY <2>1, <2>2, <2>3, <2>4, <2>5, <2>6 DEF Next
<1> QED BY <1>1, <1>2, PTL DEF Spec

-----------------------------------------------------------------------------
\* No step of any actor puts a request on two lists, or leaves a list with a
\* request whose caller has gone.
LEMMA ListsPreserved == TypeOK /\ ListsInv /\ [Next]_vars => ListsInv'
  <1> SUFFICES ASSUME TypeOK, ListsInv, [Next]_vars PROVE ListsInv'
    OBVIOUS
  <1> USE DEF TypeOK, ListsInv, InFlight, Go, Places, threadVars, hostVars,
              irqVars, workVars, pmVars
  <1>1. ASSUME NEW r \in Reqs, Thread(r) PROVE ListsInv'
    <2>1. CASE Create(r) BY <2>1 DEF Create
    <2>2. CASE Submit(r) BY <2>2 DEF Submit
    <2>3. CASE ReadStatus(r) BY <2>3 DEF ReadStatus
    <2>4. CASE Enqueue(r) BY <2>4 DEF Enqueue
    <2>5. CASE AsyncFinish(r) BY <2>5 DEF AsyncFinish
    <2>6. CASE Woken(r) BY <2>6 DEF Woken
    <2>7. CASE Signal(r) BY <2>7 DEF Signal
    <2>8. CASE AskCancel(r) BY <2>8 DEF AskCancel
    <2>9. CASE CheckCancel(r) BY <2>9 DEF CheckCancel
    <2>10. CASE Unlink(r) BY <2>10 DEF Unlink
    <2>11. CASE Release(r) BY <2>11 DEF Release
    <2> QED BY <1>1, <2>1, <2>2, <2>3, <2>4, <2>5, <2>6, <2>7, <2>8, <2>9,
               <2>10, <2>11 DEF Thread
  <1>2. ASSUME NEW r \in Reqs, Answer(r) PROVE ListsInv'
    BY <1>2 DEF Answer
  <1>3. CASE Interrupt BY <1>3 DEF Interrupt
  <1>4. CASE Work
    <2>1. CASE WorkWalk BY <2>1 DEF WorkWalk, Answered, ToRestart
    <2>2. CASE WorkUnmask BY <2>2 DEF WorkUnmask
    <2>3. CASE WorkEnd BY <2>3 DEF WorkEnd
    <2>4. ASSUME NEW r \in Reqs, WorkWake(r) PROVE ListsInv'
      BY <2>4 DEF WorkWake
    <2> QED BY <1>4, <2>1, <2>2, <2>3, <2>4 DEF Work
  <1>5. CASE Power
    <2>1. CASE SuspendCollect BY <2>1 DEF SuspendCollect, Answered
    <2>2. CASE SuspendCancel BY <2>2 DEF SuspendCancel
    <2>3. CASE SuspendMask BY <2>3 DEF SuspendMask
    <2>4. CASE SuspendFreeIrq BY <2>4 DEF SuspendFreeIrq
    <2>5. CASE SuspendFlush BY <2>5 DEF SuspendFlush
    <2>6. CASE ResumeInit BY <2>6 DEF ResumeInit
    <2>7. CASE ResumeUnmask BY <2>7 DEF ResumeUnmask
    <2>8. ASSUME NEW r \in Reqs, SuspendPoll(r) PROVE ListsInv'
      BY <2>8 DEF SuspendPoll
    <2> QED BY <1>5, <2>1, <2>2, <2>3, <2>4, <2>5, <2>6, <2>7, <2>8 DEF Power
  <1>6. CASE UNCHANGED vars BY <1>6 DEF vars
  <1> QED BY <1>1, <1>2, <1>3, <1>4, <1>5, <1>6 DEF Next

-----------------------------------------------------------------------------
\* Status and the host agree, whoever moves.
LEMMA HostPreserved ==
  TypeOK /\ ListsInv /\ HostInv /\ [Next]_vars => HostInv'
  <1> SUFFICES ASSUME TypeOK, ListsInv, HostInv, [Next]_vars PROVE HostInv'
    OBVIOUS
  <1> USE DEF TypeOK, ListsInv, HostInv, InFlight, Go, Places, Statuses,
              threadVars, hostVars, irqVars, workVars, pmVars
  <1>1. ASSUME NEW r \in Reqs, Thread(r) PROVE HostInv'
    <2>1. CASE Create(r) BY <2>1 DEF Create
    <2>2. CASE Submit(r) BY <2>2 DEF Submit
    <2>3. CASE ReadStatus(r) BY <2>3 DEF ReadStatus
    <2>4. CASE Enqueue(r) BY <2>4 DEF Enqueue
    <2>5. CASE AsyncFinish(r) BY <2>5 DEF AsyncFinish
    <2>6. CASE Woken(r) BY <2>6 DEF Woken
    <2>7. CASE Signal(r) BY <2>7 DEF Signal
    <2>8. CASE AskCancel(r) BY <2>8 DEF AskCancel
    <2>9. CASE CheckCancel(r) BY <2>9 DEF CheckCancel
    <2>10. CASE Unlink(r) BY <2>10 DEF Unlink
    <2>11. CASE Release(r) BY <2>11 DEF Release
    <2> QED BY <1>1, <2>1, <2>2, <2>3, <2>4, <2>5, <2>6, <2>7, <2>8, <2>9,
               <2>10, <2>11 DEF Thread
  <1>2. ASSUME NEW r \in Reqs, Answer(r) PROVE HostInv'
    BY <1>2 DEF Answer
  <1>3. CASE Interrupt BY <1>3 DEF Interrupt
  <1>4. CASE Work
    <2>1. CASE WorkWalk BY <2>1 DEF WorkWalk, Answered, ToRestart
    <2>2. CASE WorkUnmask BY <2>2 DEF WorkUnmask
    <2>3. CASE WorkEnd BY <2>3 DEF WorkEnd
    <2>4. ASSUME NEW r \in Reqs, WorkWake(r) PROVE HostInv'
      BY <2>4 DEF WorkWake
    <2> QED BY <1>4, <2>1, <2>2, <2>3, <2>4 DEF Work
  <1>5. CASE Power
    <2>1. CASE SuspendCollect BY <2>1 DEF SuspendCollect, Answered
    <2>2. CASE SuspendCancel BY <2>2 DEF SuspendCancel
    <2>3. CASE SuspendMask BY <2>3 DEF SuspendMask
    <2>4. CASE SuspendFreeIrq BY <2>4 DEF SuspendFreeIrq
    <2>5. CASE SuspendFlush BY <2>5 DEF SuspendFlush
    <2>6. CASE ResumeInit BY <2>6 DEF ResumeInit
    <2>7. CASE ResumeUnmask BY <2>7 DEF ResumeUnmask
    <2>8. ASSUME NEW r \in Reqs, SuspendPoll(r) PROVE HostInv'
      BY <2>8 DEF SuspendPoll
    <2> QED BY <1>5, <2>1, <2>2, <2>3, <2>4, <2>5, <2>6, <2>7, <2>8 DEF Power
  <1>6. CASE UNCHANGED vars BY <1>6 DEF vars
  <1> QED BY <1>1, <1>2, <1>3, <1>4, <1>5, <1>6 DEF Next

\* The inductive invariant.
THEOREM Inductive == Spec => []IInv
<1>1. Init => ListsInv /\ HostInv
  BY DEF Init, ListsInv, HostInv, InFlight
<1>2. TypeOK /\ (ListsInv /\ HostInv) /\ [Next]_vars => (ListsInv /\ HostInv)'
  BY ListsPreserved, HostPreserved
<1> QED BY <1>1, <1>2, TypeCorrect, PTL DEF Spec, IInv

\* Whatever the caller, the work item, the suspend and the host do, the memory
\* of a request is freed only when no list has it and nobody will complete it.
THEOREM FreedIsUnlisted == Spec => []FreedUnlisted
<1>1. IInv => FreedUnlisted
  BY DEF IInv, ListsInv, InFlight, FreedUnlisted, Freed
<1> QED BY <1>1, Inductive, PTL

\* And, unless the request is one that restarts, the host has given it back.
THEOREM FreedIsNotHeld == Spec => []FreedNotHeld
<1>1. IInv => FreedNotHeld
  BY DEF IInv, HostInv, FreedNotHeld, Freed
<1> QED BY <1>1, Inductive, PTL

\* No request is completed twice and `processed' can be trusted.
THEOREM IsCompletedOnce == Spec => []CompletedOnce
<1>1. IInv => CompletedOnce
  BY DEF IInv, TypeOK, ListsInv, CompletedOnce
<1> QED BY <1>1, Inductive, PTL

-----------------------------------------------------------------------------
\* An answered request on pr_list has an interrupt or a run of the work item
\* ahead, in every power state; while the port is usable the interrupt is
\* enabled, or the work item is on its way to enable it.
IrqInv ==
  /\ Answered # {} => irqPending \/ workQueued
  /\ PortUsable => mask \/ workQueued \/ work = "unmask"
  /\ PortUsable /\ msi => mask

LEMMA IrqPreserved == TypeOK /\ IrqInv /\ [Next]_vars => IrqInv'
  <1> SUFFICES ASSUME TypeOK, IrqInv, [Next]_vars PROVE IrqInv'
    OBVIOUS
  <1> USE DEF TypeOK, IrqInv, PortUsable, Answered, Go, threadVars, hostVars,
              irqVars, workVars, pmVars
  <1>1. ASSUME NEW r \in Reqs, Thread(r) PROVE IrqInv'
    <2>1. CASE Create(r)
      <3>1. Answered' \subseteq Answered BY <2>1 DEF Create
      <3> QED BY <2>1, <3>1 DEF Create
    <2>2. CASE Submit(r)
      <3>1. Answered' \subseteq Answered BY <2>2 DEF Submit
      <3> QED BY <2>2, <3>1 DEF Submit
    <2>3. CASE Enqueue(r)
      <3>1. Answered' \subseteq Answered BY <2>3 DEF Enqueue
      <3> QED BY <2>3, <3>1 DEF Enqueue
    <2>4. CASE Unlink(r)
      <3>1. Answered' \subseteq Answered BY <2>4 DEF Unlink
      <3> QED BY <2>4, <3>1 DEF Unlink
    <2>5. CASE \/ ReadStatus(r) \/ AsyncFinish(r) \/ Woken(r) \/ Signal(r)
               \/ AskCancel(r) \/ CheckCancel(r) \/ Release(r)
      BY <2>5 DEF ReadStatus, AsyncFinish, Woken, Signal, AskCancel,
                  CheckCancel, Release
    <2> QED BY <1>1, <2>1, <2>2, <2>3, <2>4, <2>5 DEF Thread
  <1>2. ASSUME NEW r \in Reqs, Answer(r) PROVE IrqInv'
    BY <1>2 DEF Answer
  <1>3. CASE Interrupt BY <1>3 DEF Interrupt
  <1>4. CASE Work
    <2>1. CASE WorkWalk
      <3>1. Answered' = {}
        BY <2>1 DEF WorkWalk, ToRestart
      <3> QED BY <2>1, <3>1 DEF WorkWalk
    <2>2. CASE WorkUnmask BY <2>2 DEF WorkUnmask
    <2>3. CASE WorkEnd BY <2>3 DEF WorkEnd
    <2>4. ASSUME NEW r \in Reqs, WorkWake(r) PROVE IrqInv'
      BY <2>4 DEF WorkWake
    <2> QED BY <1>4, <2>1, <2>2, <2>3, <2>4 DEF Work
  <1>5. CASE Power
    <2>1. CASE SuspendCollect
      <3>1. Answered' = Answered BY <2>1 DEF SuspendCollect
      <3> QED BY <2>1, <3>1 DEF SuspendCollect
    <2>2. CASE SuspendCancel BY <2>2 DEF SuspendCancel
    <2>3. CASE SuspendMask BY <2>3 DEF SuspendMask
    <2>4. CASE SuspendFreeIrq BY <2>4 DEF SuspendFreeIrq
    <2>5. CASE SuspendFlush BY <2>5 DEF SuspendFlush
    <2>6. CASE ResumeInit BY <2>6 DEF ResumeInit
    <2>7. CASE ResumeUnmask BY <2>7 DEF ResumeUnmask
    <2>8. ASSUME NEW r \in Reqs, SuspendPoll(r) PROVE IrqInv'
      BY <2>8 DEF SuspendPoll
    <2> QED BY <1>5, <2>1, <2>2, <2>3, <2>4, <2>5, <2>6, <2>7, <2>8 DEF Power
  <1>6. CASE UNCHANGED vars BY <1>6 DEF vars
  <1> QED BY <1>1, <1>2, <1>3, <1>4, <1>5, <1>6 DEF Next

\* The bottom half is never left without a reason to run: no completion is
\* lost between the unlocked and the locked look at Status, or by a suspend.
THEOREM InterruptIsNotLost == Spec => []InterruptNotLost
<1>1. Init => IrqInv
  BY DEF Init, IrqInv, Answered, PortUsable
<1>2. IrqInv => InterruptNotLost
  BY DEF IrqInv, InterruptNotLost, PortUsable
<1> QED BY <1>1, <1>2, IrqPreserved, TypeCorrect, PTL DEF Spec

-----------------------------------------------------------------------------
(* The contract.  Stated for requests that do not restart: with            *)
(* TG_REQ_RESTART_ON_SUCCESS it does not hold (RestartFreedNotHeld).       *)

\* What a step does to the phase of every request, in the contract's terms.
LEMMA StepsRefine ==
  ASSUME Restart = {}
  PROVE  IInv /\ IInv' /\ [Next]_vars => [Contract!CNext]_(Contract!cvars)
  <1> SUFFICES ASSUME IInv, IInv', [Next]_vars
               PROVE  Contract!CNext \/ UNCHANGED Contract!cvars
    OBVIOUS
  <1> USE DEF IInv, TypeOK, HostInv, ListsInv, InFlight, Go, Places, Statuses,
              threadVars, hostVars, irqVars, workVars, pmVars
  <1> DEFINE AnswerOf(q) == IF PhaseOf(q) = "answered" THEN status[q] ELSE "PENDING"
  <1>s. ASSUME UNCHANGED <<pc, status, host>> PROVE UNCHANGED Contract!cvars
    BY <1>s DEF Contract!cvars, PhaseOf
  <1>1. ASSUME NEW r \in Reqs, Thread(r)
        PROVE  Contract!CNext \/ UNCHANGED Contract!cvars
    <2>1. CASE Create(r)
      <3>1. \A q \in Reqs : PhaseOf(q)' = IF q = r THEN "new" ELSE PhaseOf(q)
        BY <2>1 DEF Create, PhaseOf
      <3>2. PhaseOf(r) = "idle" /\ \A q \in Reqs : AnswerOf(q)' = AnswerOf(q)
        BY <2>1, <3>1 DEF Create, PhaseOf
      <3> HIDE DEF AnswerOf
      <3>3. Contract!Begin(r)
        BY <3>1, <3>2, Zenon DEF Contract!Begin, Contract!Step, AnswerOf
      <3> QED BY <3>3 DEF Contract!CNext
    <2>2. CASE Submit(r)
      <3>1. \A q \in Reqs : PhaseOf(q)' = IF q = r THEN "held" ELSE PhaseOf(q)
        BY <2>2 DEF Submit, PhaseOf
      <3>2. PhaseOf(r) = "new" /\ \A q \in Reqs : AnswerOf(q)' = AnswerOf(q)
        BY <2>2, <3>1 DEF Submit, PhaseOf
      <3> HIDE DEF AnswerOf
      <3>3. Contract!Hand(r)
        BY <3>1, <3>2, Zenon DEF Contract!Hand, Contract!Step, AnswerOf
      <3> QED BY <3>3 DEF Contract!CNext
    <2>3. CASE Release(r)
      <3>1. \A q \in Reqs : PhaseOf(q)' = IF q = r THEN "idle" ELSE PhaseOf(q)
        BY <2>3 DEF Release, PhaseOf
      <3>2. PhaseOf(r) = "answered" /\ \A q \in Reqs : AnswerOf(q)' = IF q = r THEN "PENDING" ELSE AnswerOf(q)
        BY <2>3, <3>1 DEF Release, PhaseOf
      <3> HIDE DEF AnswerOf
      <3>3. Contract!Return(r)
        BY <3>1, <3>2, Zenon DEF Contract!Return, Contract!Step, AnswerOf
      <3> QED BY <3>3 DEF Contract!CNext
    <2>4. CASE \/ ReadStatus(r) \/ Enqueue(r) \/ AsyncFinish(r) \/ Woken(r)
               \/ Signal(r) \/ AskCancel(r) \/ CheckCancel(r) \/ Unlink(r)
      BY <2>4 DEF ReadStatus, Enqueue, AsyncFinish, Woken, Signal, AskCancel,
                  CheckCancel, Unlink, PhaseOf, Contract!cvars
    <2> QED BY <1>1, <2>1, <2>2, <2>3, <2>4 DEF Thread
  <1>2. ASSUME NEW r \in Reqs, Answer(r)
        PROVE  Contract!CNext
    <2>1. PICK a \in {"SUCCESS", "FAILED", "CANCELLED"} :
            status' = [status EXCEPT ![r] = a]
      BY <1>2 DEF Answer
    <2>2. \A q \in Reqs : PhaseOf(q)' = IF q = r THEN "answered" ELSE PhaseOf(q)
      BY <1>2, <2>1 DEF Answer, PhaseOf
    <2>3. PhaseOf(r) = "held" /\ \A q \in Reqs : AnswerOf(q)' = IF q = r THEN a ELSE AnswerOf(q)
      BY <1>2, <2>1, <2>2 DEF Answer, PhaseOf
    <2> HIDE DEF AnswerOf
    <2>4. Contract!Step(r, "held", "answered")
      BY <2>2, <2>3, Zenon DEF Contract!Step
    <2>5. [q \in Reqs |-> AnswerOf(q)]' = [[q \in Reqs |-> AnswerOf(q)] EXCEPT ![r] = a]
      BY <2>3, Zenon
    <2>6. Contract!HostAnswers(r)
      BY <2>4, <2>5, Zenon DEF Contract!HostAnswers, Contract!Answers, AnswerOf
    <2> QED BY <2>6 DEF Contract!CNext
  <1>3. CASE Interrupt BY <1>3, <1>s DEF Interrupt
  <1>4. CASE Work
    <2>1. CASE WorkWalk
      <3>1. UNCHANGED <<pc, status, host>>
        BY <2>1 DEF WorkWalk, ToRestart, Answered
      <3> QED BY <3>1, <1>s
    <2>2. CASE WorkUnmask BY <2>2, <1>s DEF WorkUnmask
    <2>3. CASE WorkEnd BY <2>3, <1>s DEF WorkEnd
    <2>4. ASSUME NEW r \in Reqs, WorkWake(r)
          PROVE  UNCHANGED Contract!cvars
      BY <2>4, <1>s DEF WorkWake
    <2> QED BY <1>4, <2>1, <2>2, <2>3, <2>4 DEF Work
  <1>5. CASE Power
    <2>1. UNCHANGED <<pc, status, host>>
      BY <1>5 DEF Power, SuspendCollect, SuspendCancel, SuspendMask,
                  SuspendFreeIrq, SuspendFlush, ResumeInit, ResumeUnmask,
                  SuspendPoll
    <2> QED BY <2>1, <1>s
  <1>6. CASE UNCHANGED vars BY <1>6, <1>s DEF vars
  <1> QED BY <1>1, <1>2, <1>3, <1>4, <1>5, <1>6 DEF Next

\* A call returns only after the host answered it, and the host is given the
\* request once.
THEOREM Implements ==
  ASSUME Restart = {}
  PROVE  Spec => ImplementsContract
<1>1. Init => Contract!CInit
  BY DEF Init, Contract!CInit, PhaseOf
<1> QED BY <1>1, StepsRefine, Inductive, PTL
        DEF Spec, ImplementsContract, Contract!CSpec
=============================================================================
