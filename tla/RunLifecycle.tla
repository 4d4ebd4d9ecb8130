---------------------------- MODULE RunLifecycle ----------------------------
(***************************************************************************)
(* What durable runs promise to whoever polls the API, without processes,  *)
(* leases or attempts: each investigated case gets at most one answer and  *)
(* keeps it, a run is COMPLETED only when every case it planned is         *)
(* answered, and the only way out of a terminal status leads to FAILED.    *)
(***************************************************************************)
CONSTANTS Runs, Cases, RunOf, Outcomes, NoOutcome

VARIABLES status, answer

vars == <<status, answer>>

Terminal == {"COMPLETED", "FAILED", "CANCELLED"}

CasesOf(r) == {c \in Cases : RunOf[c] = r}

Init ==
  /\ status = [r \in Runs |-> "ABSENT"]
  /\ answer = [c \in Cases |-> NoOutcome]

Move(r, from, to) ==
  /\ status[r] \in from
  /\ status' = [status EXCEPT ![r] = to]
  /\ UNCHANGED answer

Accept(r)   == Move(r, {"ABSENT"}, "PENDING")
Plan(r)     == Move(r, {"PENDING"}, "PROCESSING")
Cancel(r)   == Move(r, {"PENDING", "PROCESSING"}, "CANCELLED")
Fail(r)     == Move(r, {"PENDING", "PROCESSING"} \cup Terminal, "FAILED")
Complete(r) == /\ \A c \in CasesOf(r) : answer[c] # NoOutcome
               /\ Move(r, {"PROCESSING"}, "COMPLETED")

\* A case is answered once, for a run that was planned.  Answers still arrive
\* for a run that was cancelled or failed, never for one that is complete.
Answer(c, o) ==
  /\ status[RunOf[c]] \in {"PROCESSING", "CANCELLED", "FAILED"}
  /\ answer[c] = NoOutcome
  /\ answer' = [answer EXCEPT ![c] = o]
  /\ UNCHANGED status

Next ==
  \/ \E r \in Runs : Accept(r) \/ Plan(r) \/ Cancel(r) \/ Fail(r) \/ Complete(r)
  \/ \E c \in Cases, o \in Outcomes : Answer(c, o)

Spec == Init /\ [][Next]_vars
=============================================================================
