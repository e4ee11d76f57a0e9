---------------------------- MODULE TgContract ----------------------------
(***************************************************************************)
(* What the ToolGate transport promises a caller (call_tg_sync and         *)
(* call_tg_async_start/_wait/_cancel of prltg_call.c): the request goes to *)
(* the host, the host answers it, and only then does the call return and   *)
(* its memory go away.  A request without TG_REQ_RESTART_ON_SUCCESS is     *)
(* given to the host exactly once.  Locks, interrupts, signals and suspend *)
(* are not seen at this level.                                             *)
(***************************************************************************)
CONSTANTS Reqs, Restart

VARIABLES
  phase,   \* where each request is
  answer   \* what the host wrote; "PENDING" while it has not

cvars == <<phase, answer>>

Answers == {"SUCCESS", "FAILED", "CANCELLED"}
Phases  == {"idle", "new", "held", "answered"}

CInit ==
  /\ phase = [r \in Reqs |-> "idle"]
  /\ answer = [r \in Reqs |-> "PENDING"]

Step(r, from, to) == phase[r] = from /\ phase' = [phase EXCEPT ![r] = to]

Begin(r) == Step(r, "idle", "new") /\ UNCHANGED answer

Hand(r) == Step(r, "new", "held") /\ UNCHANGED answer

HostAnswers(r) ==
  /\ Step(r, "held", "answered")
  /\ \E a \in Answers : answer' = [answer EXCEPT ![r] = a]

\* The driver may give any number of successful restartable requests back.
Again(S) ==
  /\ S # {}
  /\ \A r \in S : r \in Restart /\ phase[r] = "answered" /\ answer[r] = "SUCCESS"
  /\ \/ phase' = [r \in Reqs |-> IF r \in S THEN "held" ELSE phase[r]]
     \/ phase' = [r \in Reqs |-> IF r \in S THEN "new" ELSE phase[r]]
  /\ answer' = [r \in Reqs |-> IF r \in S THEN "PENDING" ELSE answer[r]]

Return(r) ==
  /\ Step(r, "answered", "idle")
  /\ answer' = [answer EXCEPT ![r] = "PENDING"]

CNext ==
  \/ \E r \in Reqs : Begin(r) \/ Hand(r) \/ HostAnswers(r) \/ Return(r)
  \/ \E S \in SUBSET Restart : Again(S)

CSpec == CInit /\ [][CNext]_cvars
=============================================================================
