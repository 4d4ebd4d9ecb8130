------------------------------ MODULE Dashboard ------------------------------
(***************************************************************************)
(* The dashboard of the web application (apps/web/app/dashboard.tsx), one   *)
(* browser tab.  Submitting a run, resuming the last one after a reload,    *)
(* stopping one and loading its results again are asynchronous functions    *)
(* over one page state; each await may be answered late, or fail.           *)
(***************************************************************************)
EXTENDS Naturals

CONSTANTS
  Runs,    \* the runs the API may create
  NoRun    \* null

ASSUME DashboardAssumption == NoRun \notin Runs

VARIABLES
  server,         \* the status of each run, as the API would answer now
  key,            \* the run remembered in localStorage
  activeRunId, pollingRunId, isRunning, summary, readError, isLoadingResults,
  task,           \* what each asynchronous function is waiting for
  stopped,        \* history: runs whose stop was confirmed
  retried         \* history: results were loaded by hand on this page

page == <<activeRunId, pollingRunId, isRunning, summary, readError, isLoadingResults>>
vars == <<server, key, page, task, stopped, retried>>

Live == {"PROCESSING"}       \* PENDING included
Settled == {"COMPLETED", "FAILED", "CANCELLED"}

Waits == {"submit", "resume"}
Tasks == Waits \cup {"retry", "stop"}

NoAnswer == "none"
Idle == [at |-> "idle", run |-> NoRun, answer |-> NoAnswer, expired |-> FALSE]
NoSummary == [run |-> NoRun, status |-> NoAnswer]

Task ==
  [at : {"idle", "creating", "polling", "partial", "pausing", "loading", "stopping"},
   run : Runs \cup {NoRun}, expired : BOOLEAN,
   answer : {NoAnswer, "accepted", "refused"} \cup Live \cup Settled]

DashboardTypeOK ==
  /\ server \in [Runs -> {"absent"} \cup Live \cup Settled]
  /\ {key, activeRunId, pollingRunId} \subseteq Runs \cup {NoRun}
  /\ isRunning \in BOOLEAN /\ readError \in BOOLEAN /\ isLoadingResults \in BOOLEAN
  /\ summary \in [run : Runs, status : Live \cup Settled] \cup {NoSummary}
  /\ task \in [Tasks -> Task]
  /\ stopped \subseteq Runs /\ retried \in BOOLEAN

Init ==
  /\ server = [r \in Runs |-> "absent"]
  /\ key = NoRun /\ activeRunId = NoRun /\ pollingRunId = NoRun
  /\ isRunning = FALSE /\ summary = NoSummary
  /\ readError = FALSE /\ isLoadingResults = FALSE
  /\ task = [t \in Tasks |-> Idle]
  /\ stopped = {} /\ retried = FALSE

-----------------------------------------------------------------------------
(* The API.  An answer says what was true when the request was served.      *)

\* Bound: an end is final here; DurableRuns has the failure that overwrites another end.
SettleRun(r) ==
  /\ server[r] \in Live
  /\ \E status \in {"COMPLETED", "FAILED"} : server' = [server EXCEPT ![r] = status]
  /\ UNCHANGED <<key, page, task, stopped, retried>>

Serves(t, answer) ==
  /\ task' = [task EXCEPT ![t].answer = answer]
  /\ UNCHANGED <<key, page, stopped, retried>>

Absent == {r \in Runs : server[r] = "absent"}

\* A fresh id; which one is the same to everybody.
ServeCreate ==
  LET r == CHOOSE r \in Absent : TRUE
  IN  /\ task["submit"].at = "creating" /\ task["submit"].run = NoRun
      /\ Absent # {}
      /\ server' = [server EXCEPT ![r] = "PROCESSING"]
      /\ task' = [task EXCEPT !["submit"].run = r]
      /\ UNCHANGED <<key, page, stopped, retried>>

ServeRead(t) ==
  /\ task[t].at \in {"polling", "loading"} /\ task[t].answer = NoAnswer
  /\ Serves(t, server[task[t].run])
  /\ UNCHANGED server

\* cancelRun: durable runs are CANCELLED at once, others only told to stop.
ServeCancel ==
  LET r == task["stop"].run
  IN  /\ task["stop"].at = "stopping" /\ task["stop"].answer = NoAnswer
      /\ IF server[r] \in Live
         THEN /\ Serves("stop", "accepted")
              /\ \E status \in {"CANCELLED", "PROCESSING"} : server' = [server EXCEPT ![r] = status]
         ELSE Serves("stop", "refused") /\ UNCHANGED server

-----------------------------------------------------------------------------
(* waitForRun and loadRunData.                                              *)

Superseded(t) == pollingRunId # task[t].run

Asks(t, at) == task' = [task EXCEPT ![t].at = at, ![t].answer = NoAnswer]

\* The end of a function; a wait has the `finally` of its caller.
Ends(t) ==
  /\ task' = [task EXCEPT ![t] = Idle]
  /\ isRunning' = IF t \in Waits THEN FALSE ELSE isRunning

Quits(t) ==
  Ends(t) /\ UNCHANGED <<activeRunId, pollingRunId, summary, readError, isLoadingResults>>

Fails(t) ==
  /\ Ends(t) /\ readError' = TRUE
  /\ UNCHANGED <<activeRunId, pollingRunId, summary, isLoadingResults>>

Shows(t) == summary' = [run |-> task[t].run, status |-> task[t].answer]

StartsLoading(t) == Asks(t, "loading") /\ isLoadingResults' = TRUE /\ readError' = FALSE

PollAnswered(t) ==
  /\ task[t].at = "polling" /\ task[t].answer # NoAnswer
  /\ \/ Superseded(t) /\ Quits(t)
     \/ /\ ~Superseded(t) /\ task[t].answer = "FAILED"
        /\ Shows(t) /\ Ends(t) /\ readError' = TRUE
        /\ UNCHANGED <<activeRunId, pollingRunId, isLoadingResults>>
     \/ /\ ~Superseded(t) /\ task[t].answer \in {"COMPLETED", "CANCELLED"}
        /\ Shows(t) /\ StartsLoading(t)
        /\ UNCHANGED <<activeRunId, pollingRunId, isRunning>>
     \/ /\ ~Superseded(t) /\ task[t].answer \in Live
        /\ Shows(t) /\ Asks(t, "partial")
        /\ UNCHANGED <<activeRunId, pollingRunId, isRunning, readError, isLoadingResults>>
  /\ UNCHANGED <<server, key, stopped, retried>>

\* A rejected poll ends the wait with its error, superseded or not.
PollFails(t) ==
  /\ task[t].at = "polling" /\ Fails(t)
  /\ UNCHANGED <<server, key, stopped, retried>>

\* Variant: a wait that is too long ends like a superseded one.
PartialAnsweredQuietly(t) ==
  /\ task[t].at = "partial"
  /\ IF Superseded(t) \/ task[t].expired
     THEN Quits(t)
     ELSE Asks(t, "pausing") /\ UNCHANGED page
  /\ UNCHANGED <<server, key, stopped, retried>>

\* Variant: the wait has no limit.
PartialAnsweredForever(t) ==
  /\ task[t].at = "partial"
  /\ IF Superseded(t) THEN Quits(t) ELSE Asks(t, "pausing") /\ UNCHANGED page
  /\ UNCHANGED <<server, key, stopped, retried>>

\* Partial results are there, or not yet: only an answer looks at the polled run.
PartialAnswered(t) ==
  /\ task[t].at = "partial"
  /\ \/ Superseded(t) /\ Quits(t)
     \/ task[t].expired /\ Fails(t)
     \/ ~task[t].expired /\ Asks(t, "pausing") /\ UNCHANGED page
  /\ UNCHANGED <<server, key, stopped, retried>>

PauseEnds(t) ==
  /\ task[t].at = "pausing"
  /\ IF Superseded(t) THEN Quits(t) ELSE Asks(t, "polling") /\ UNCHANGED page
  /\ UNCHANGED <<server, key, stopped, retried>>

\* The client's deadline: 15 minutes.
Expire(t) ==
  /\ task[t].at \in {"polling", "partial", "pausing"} /\ ~task[t].expired
  /\ task' = [task EXCEPT ![t].expired = TRUE]
  /\ UNCHANGED <<server, key, page, stopped, retried>>

LoadAnswered(t) ==
  /\ task[t].at = "loading" /\ task[t].answer # NoAnswer
  /\ Shows(t) /\ Ends(t) /\ isLoadingResults' = FALSE
  /\ readError' = (readError \/ task[t].answer = "FAILED")
  /\ UNCHANGED <<server, key, activeRunId, pollingRunId, stopped, retried>>

LoadFails(t) ==
  /\ task[t].at = "loading"
  /\ Ends(t) /\ isLoadingResults' = FALSE /\ readError' = TRUE
  /\ UNCHANGED <<server, key, activeRunId, pollingRunId, summary, stopped, retried>>

-----------------------------------------------------------------------------
(* What the user does.                                                      *)

Polls(r) == [Idle EXCEPT !.at = "polling", !.run = r]

\* Loading the page forgets everything but the key, and resumes the run it names.
Reload ==
  /\ task' = [t \in Tasks |-> IF t = "resume" /\ key # NoRun THEN Polls(key) ELSE Idle]
  /\ activeRunId' = key /\ pollingRunId' = key /\ isRunning' = (key # NoRun)
  /\ summary' = NoSummary /\ readError' = FALSE /\ isLoadingResults' = FALSE
  /\ retried' = FALSE
  /\ UNCHANGED <<server, key, stopped>>

\* Variant: a summary is shown before there is a run.
SubmitShowing ==
  /\ ~isRunning /\ task["submit"] = Idle
  /\ task' = [task EXCEPT !["submit"].at = "creating"]
  /\ activeRunId' = NoRun /\ isRunning' = TRUE /\ readError' = FALSE
  /\ summary' = [run |-> NoRun, status |-> "PROCESSING"]
  /\ UNCHANGED <<server, key, pollingRunId, isLoadingResults, stopped, retried>>

\* The button is disabled while isRunning, and the lock is held until the last wait ends.
Submit ==
  /\ ~isRunning /\ task["submit"] = Idle
  /\ task' = [task EXCEPT !["submit"].at = "creating"]
  /\ activeRunId' = NoRun /\ isRunning' = TRUE /\ summary' = NoSummary /\ readError' = FALSE
  /\ UNCHANGED <<server, key, pollingRunId, isLoadingResults, stopped, retried>>

Created ==
  LET r == task["submit"].run
  IN  /\ task["submit"].at = "creating" /\ r # NoRun
      /\ key' = r /\ pollingRunId' = r /\ activeRunId' = r
      /\ summary' = [run |-> r, status |-> "PROCESSING"]
      /\ task' = [task EXCEPT !["submit"] = Polls(r)]
      /\ UNCHANGED <<server, isRunning, readError, isLoadingResults, stopped, retried>>

\* An unreadable file, a refused upload, a lost answer: an error of the form, not of a run.
CreateFails ==
  /\ task["submit"].at = "creating" /\ Quits("submit")
  /\ UNCHANGED <<server, key, stopped, retried>>

Stop ==
  /\ isRunning /\ activeRunId # NoRun /\ task["stop"] = Idle
  /\ task' = [task EXCEPT !["stop"].at = "stopping", !["stop"].run = activeRunId]
  /\ UNCHANGED <<server, key, page, stopped, retried>>

\* Variant: the run stays in localStorage.
StopConfirmedKeyKept ==
  /\ task["stop"].answer = "accepted"
  /\ pollingRunId' = NoRun /\ isRunning' = FALSE /\ readError' = FALSE
  /\ task' = [task EXCEPT !["stop"] = Idle]
  /\ stopped' = stopped \cup {task["stop"].run}
  /\ UNCHANGED <<server, key, activeRunId, summary, isLoadingResults, retried>>

\* Whatever runs by now: neither the polled run nor the key is compared.
StopConfirmed ==
  /\ task["stop"].answer = "accepted"
  /\ pollingRunId' = NoRun /\ key' = NoRun /\ isRunning' = FALSE /\ readError' = FALSE
  /\ task' = [task EXCEPT !["stop"] = Idle]
  /\ stopped' = stopped \cup {task["stop"].run}
  /\ UNCHANGED <<server, activeRunId, summary, isLoadingResults, retried>>

StopFails ==
  /\ task["stop"].at = "stopping" /\ Fails("stop")
  /\ UNCHANGED <<server, key, stopped, retried>>

\* Bound: one at a time, as stops are.
Retry ==
  /\ readError /\ activeRunId # NoRun /\ ~isLoadingResults /\ task["retry"] = Idle
  /\ task' = [task EXCEPT !["retry"].at = "loading", !["retry"].run = activeRunId]
  /\ isLoadingResults' = TRUE /\ readError' = FALSE /\ retried' = TRUE
  /\ UNCHANGED <<server, key, activeRunId, pollingRunId, isRunning, summary, stopped>>

-----------------------------------------------------------------------------

Proceeds(t) ==
  \/ ServeRead(t)
  \/ PollAnswered(t) \/ PollFails(t) \/ PartialAnswered(t) \/ PauseEnds(t)
  \/ LoadAnswered(t) \/ LoadFails(t)

Submits == ServeCreate \/ Created \/ CreateFails
Stops == ServeCancel \/ StopConfirmed \/ StopFails
User == Reload \/ Submit \/ Stop \/ Retry

Next ==
  \/ \E r \in Runs : SettleRun(r)
  \/ \E t \in Tasks : Proceeds(t) \/ Expire(t)
  \/ Submits \/ Stops \/ User

\* Requests are answered or fail, and time passes; no run need ever settle.
Fairness ==
  /\ \A t \in Tasks : WF_vars(Proceeds(t)) /\ WF_vars(Expire(t))
  /\ WF_vars(Submits)

Spec == Init /\ [][Next]_vars /\ Fairness

-----------------------------------------------------------------------------
(* Properties.                                                              *)

(* "This run will not resume after reload." (dashboard.tsx:218): once that  *)
(* is shown, no answer on its way and no later submission, reload or stop   *)
(* makes the page poll the run again, or remember it.                       *)
StoppedRunStaysStopped == stopped \cap {key, pollingRunId} = {}

Waited(r) == \E t \in Waits : task[t].run = r

(* The page never falls silent on the run it shows: when the wait for it is *)
(* over, and it was neither stopped nor loaded by hand, the page shows how  *)
(* a run ended or offers to load the results again, whichever of poll,      *)
(* deadline, failing request or refused stop came first (lines 153-182).    *)
EndShown ==
  activeRunId # NoRun /\ activeRunId = pollingRunId /\ ~Waited(activeRunId) /\ ~retried
    => readError \/ summary.status \in Settled

(* Every wait ends, though its run may never settle (the client's deadline, *)
(* line 179), and with it the submission lock is released (line 268),       *)
(* unless the user keeps reloading the page, which starts over each time.   *)
EveryWaitEnds ==
  <>[][~Reload]_vars => \A t \in Waits : task[t] # Idle ~> task[t] = Idle
=============================================================================
