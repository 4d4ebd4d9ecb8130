-------------------------- MODULE DashboardProofs --------------------------
(* Theorems about Dashboard, for any number of runs, however long requests  *)
(* take and whichever of them fail.                                         *)
EXTENDS Dashboard, TLAPS

Known(r) == r = NoRun \/ server[r] # "absent"

\* Which function does what, and about which run.
EachItsOwn ==
  /\ task["submit"].at # "stopping"
  /\ task["resume"].at \notin {"creating", "stopping"}
  /\ task["retry"].at \in {"idle", "loading"}
  /\ task["stop"].at \in {"idle", "stopping"}
  /\ \A t \in Tasks :
       /\ task[t].at \notin {"idle", "creating"} => task[t].run # NoRun
       /\ task[t].at \in {"idle", "creating"} => task[t].answer = NoAnswer
       /\ t # "stop" => task[t].answer \notin {"accepted", "refused"}
       /\ Known(task[t].run)

\* The page knows only of runs that the API has created.
OnlyCreatedRuns ==
  /\ Known(key) /\ Known(activeRunId) /\ Known(pollingRunId)
  /\ \A r \in stopped : Known(r)

\* Nothing has been said of a run whose creation is not answered yet.
CreatedUnheard ==
  task["submit"].at = "creating" /\ task["submit"].run # NoRun =>
    /\ task["submit"].run \notin stopped \cup {key, activeRunId, pollingRunId}
    /\ task["stop"].run # task["submit"].run

\* Ends that were told are final, and a wait loads the results of an end.
EndsTold ==
  /\ \A t \in Tasks : task[t].answer \in Settled => server[task[t].run] \in Settled
  /\ \A t \in Waits : task[t].at = "loading" =>
       /\ server[task[t].run] \in Settled
       /\ task[t].answer \in {NoAnswer} \cup Settled
  /\ ~retried => task["retry"] = Idle

PageInv ==
  /\ DashboardTypeOK /\ EachItsOwn /\ OnlyCreatedRuns /\ CreatedUnheard /\ EndsTold
  /\ StoppedRunStaysStopped /\ EndShown

LEMMA PageInvInit == Init => PageInv
<1> SUFFICES ASSUME Init PROVE PageInv  OBVIOUS
<1>1. Idle \in Task  BY DEF Idle, Task, NoAnswer
<1>2. \A t \in Tasks : task[t] = Idle /\ task[t].at = "idle" /\ task[t].run = NoRun
                       /\ task[t].answer = NoAnswer
  BY DEF Init, Idle
<1>3. DashboardTypeOK  BY <1>1 DEF Init, DashboardTypeOK
<1>4. EachItsOwn  BY <1>2 DEF EachItsOwn, Known, Tasks, Waits, NoAnswer
<1>5. OnlyCreatedRuns /\ CreatedUnheard /\ EndsTold
  BY <1>2
  DEF Init, OnlyCreatedRuns, CreatedUnheard, EndsTold, Known, Tasks, Waits, NoAnswer, Settled
<1>6. StoppedRunStaysStopped /\ EndShown
  BY DEF Init, StoppedRunStaysStopped, EndShown
<1> QED  BY <1>3, <1>4, <1>5, <1>6 DEF PageInv

\* What the parts say of one task.
LEMMA TaskFacts ==
  ASSUME PageInv, NEW t \in Tasks
  PROVE  /\ task \in [Tasks -> Task] /\ task[t] \in Task
         /\ task[t].at \notin {"idle", "creating"} => task[t].run \in Runs
         /\ Known(task[t].run)
BY DEF PageInv, DashboardTypeOK, EachItsOwn, Task

-----------------------------------------------------------------------------
(* The API.                                                                 *)

\* What the API does to a run only adds to what is known and told of it.
LEMMA ServerAdvances ==
  ASSUME DashboardTypeOK, NEW r, NEW status \in Live \cup Settled,
         server[r] \notin Settled, server' = [server EXCEPT ![r] = status]
  PROVE  /\ server' \in [Runs -> {"absent"} \cup Live \cup Settled]
         /\ \A x : Known(x) => x \notin Runs \/ server'[x] # "absent"
         /\ \A x \in Runs : server[x] \in Settled => server'[x] \in Settled
<1>1. server \in [Runs -> {"absent"} \cup Live \cup Settled]  BY DEF DashboardTypeOK
<1>2. status # "absent"  BY DEF Live, Settled
<1> QED  BY <1>1, <1>2, DashboardAssumption DEF Known, DashboardAssumption

LEMMA ServerMoves ==
  ASSUME PageInv, UNCHANGED <<key, page, task, stopped, retried>>,
         NEW r, NEW status \in Live \cup Settled,
         server[r] \notin Settled, server' = [server EXCEPT ![r] = status]
  PROVE  PageInv'
<1>1. /\ server' \in [Runs -> {"absent"} \cup Live \cup Settled]
      /\ \A x : Known(x) => x \notin Runs \/ server'[x] # "absent"
      /\ \A x \in Runs : server[x] \in Settled => server'[x] \in Settled
  BY ServerAdvances DEF PageInv
<1>2. DashboardTypeOK'  BY <1>1 DEF PageInv, DashboardTypeOK, page
<1>3. \A t \in Tasks : task[t].run \in Runs \cup {NoRun}  BY TaskFacts DEF Task
<1>4. EachItsOwn'  BY <1>1, <1>3 DEF PageInv, EachItsOwn, Known
<1>5. OnlyCreatedRuns'
  BY <1>1 DEF PageInv, OnlyCreatedRuns, Known, page, DashboardTypeOK
<1>6. CreatedUnheard'  BY DEF PageInv, CreatedUnheard, page
<1>7. EndsTold'
  <2>1. \A t \in Tasks : task[t].answer \in Settled => task[t].run \in Runs
    BY TaskFacts DEF PageInv, EachItsOwn, Settled, NoAnswer, EndsTold, DashboardTypeOK
  <2> QED  BY <1>1, <1>3, TaskFacts, <2>1 DEF PageInv, EndsTold, Waits, Tasks
<1>8. StoppedRunStaysStopped' /\ EndShown'
  BY DEF PageInv, StoppedRunStaysStopped, EndShown, Waited, page
<1> QED  BY <1>2, <1>4, <1>5, <1>6, <1>7, <1>8 DEF PageInv

LEMMA SettleRunKeeps ==
  ASSUME PageInv, NEW r \in Runs, SettleRun(r)
  PROVE  PageInv'
<1>1. PICK status \in {"COMPLETED", "FAILED"} : server' = [server EXCEPT ![r] = status]
  BY DEF SettleRun
<1>2. server[r] \notin Settled /\ status \in Live \cup Settled
  BY DEF SettleRun, Live, Settled
<1> QED  BY <1>1, <1>2, ServerMoves DEF SettleRun

LEMMA ServeCreateKeeps ==
  ASSUME PageInv, ServeCreate
  PROVE  PageInv'
<1> DEFINE r == CHOOSE r \in Absent : TRUE
<1>1. /\ task["submit"].at = "creating" /\ task["submit"].run = NoRun
      /\ r \in Runs /\ server[r] = "absent"
      /\ server' = [server EXCEPT ![r] = "PROCESSING"]
      /\ task' = [task EXCEPT !["submit"].run = r]
      /\ UNCHANGED <<key, page, stopped, retried>>
  BY DEF ServeCreate, Absent
<1> HIDE DEF r
<1>2. /\ server' \in [Runs -> {"absent"} \cup Live \cup Settled]
      /\ \A x : Known(x) => x \notin Runs \/ server'[x] # "absent"
      /\ \A x \in Runs : server[x] \in Settled => server'[x] \in Settled
      /\ r # NoRun /\ ~Known(r)
  BY <1>1, ServerAdvances, DashboardAssumption
  DEF PageInv, Live, Settled, Known, DashboardAssumption
<1>3. /\ \A t \in Tasks : t # "submit" => task'[t] = task[t]
      /\ task'["submit"] = [task["submit"] EXCEPT !.run = r]
      /\ "submit" \in Tasks /\ task["submit"] \in Task
  BY <1>1, TaskFacts DEF Tasks, Waits, PageInv, DashboardTypeOK
<1>4. task'["submit"] \in Task /\ task'["submit"].run = r
      /\ task'["submit"].at = "creating" /\ task'["submit"].answer = task["submit"].answer
      /\ task["submit"].answer = NoAnswer /\ server'[r] = "PROCESSING"
  BY <1>1, <1>3 DEF Task, PageInv, EachItsOwn, DashboardTypeOK
<1>5. DashboardTypeOK'
  BY <1>1, <1>2, <1>3, <1>4 DEF PageInv, DashboardTypeOK, page
<1>6. \A t \in Tasks : task[t].run \in Runs \cup {NoRun}  BY TaskFacts DEF Task
<1>7. EachItsOwn'
  <2>1. \A t \in Tasks : task'[t].run = NoRun \/ server'[task'[t].run] # "absent"
    BY <1>1, <1>2, <1>3, <1>4, <1>6 DEF PageInv, EachItsOwn, Known
  <2>2. \A t \in Tasks : Known(task[t].run)'  BY <2>1 DEF Known
  <2> QED  BY <1>1, <1>2, <1>3, <1>4, <2>2 DEF PageInv, EachItsOwn, Tasks, Waits, NoAnswer
<1>8. OnlyCreatedRuns'
  BY <1>1, <1>2 DEF PageInv, OnlyCreatedRuns, Known, page, DashboardTypeOK
<1>9. CreatedUnheard'
  BY <1>1, <1>2, <1>3, <1>4
  DEF PageInv, CreatedUnheard, OnlyCreatedRuns, EachItsOwn, Known, page, Tasks, Waits
<1>10. EndsTold'
  <2>1. \A t \in Tasks : task[t].answer \in Settled => task[t].run \in Runs
    BY TaskFacts DEF PageInv, EachItsOwn, Settled, NoAnswer
  <2> QED
    BY <1>1, <1>2, <1>3, <1>4, <1>6, <2>1, TaskFacts
    DEF PageInv, EndsTold, Waits, Tasks, Settled, NoAnswer
<1>11. StoppedRunStaysStopped' /\ EndShown'
  <2>1. \A x : Waited(x) /\ x \in Runs => Waited(x)'
    BY <1>1, <1>3, DashboardAssumption DEF Waited, Waits, Tasks, DashboardAssumption
  <2> QED
    BY <1>1, <2>1 DEF PageInv, StoppedRunStaysStopped, EndShown, page, DashboardTypeOK
<1> QED  BY <1>5, <1>7, <1>8, <1>9, <1>10, <1>11 DEF PageInv

-----------------------------------------------------------------------------
(* Where only what a task waits for or has been told changes.               *)

LEMMA TaskMoves ==
  ASSUME PageInv, UNCHANGED <<key, page, stopped, retried>>,
         server' \in [Runs -> {"absent"} \cup Live \cup Settled],
         \A x : Known(x) => x \notin Runs \/ server'[x] # "absent",
         \A x \in Runs : server[x] \in Settled => server'[x] \in Settled,
         NEW t \in Tasks, NEW new \in Task, task' = [task EXCEPT ![t] = new],
         new.run = task[t].run, task[t].at # "idle",
         \/ new.at = task[t].at
         \/ /\ t \in Waits /\ new.answer = NoAnswer
            /\ new.at \in {"polling", "partial", "pausing"} /\ task[t].at # "creating",
         \/ new.answer = task[t].answer \/ new.answer = NoAnswer
         \/ t = "stop" /\ new.answer \in {"accepted", "refused"}
         \/ /\ t # "stop" /\ task[t].at \in {"polling", "loading"}
            /\ new.answer = server[task[t].run]
  PROVE  PageInv'
<1>1. /\ DashboardTypeOK' /\ task' \in [Tasks -> Task] /\ task'[t] = new
      /\ \A x \in Tasks : x # t => task'[x] = task[x]
  BY DEF PageInv, DashboardTypeOK, page
<1>2. task[t].at \notin {"idle", "creating"} => new.at \notin {"idle", "creating"}
      /\ new.run \in Runs
  BY TaskFacts
<1>3. new.at \in {"creating"} => task[t].at = "creating" /\ new.answer = NoAnswer
  BY DEF PageInv, EachItsOwn, Tasks, Waits, NoAnswer
<1>4. EachItsOwn'
  <2>1. \A x \in Tasks : task[x].run \in Runs \cup {NoRun} /\ Known(task[x].run)
    BY TaskFacts DEF Task
  <2>2. \A x \in Tasks : Known(task[x].run)'  BY <1>1, <2>1 DEF Known
  <2>3. t # "stop" => new.answer \notin {"accepted", "refused"}
    BY TaskFacts DEF PageInv, EachItsOwn, NoAnswer, DashboardTypeOK, Live, Settled
  <2> QED
    BY <1>1, <1>2, <1>3, <2>2, <2>3
    DEF PageInv, EachItsOwn, Tasks, Waits, NoAnswer
<1>5. OnlyCreatedRuns' /\ StoppedRunStaysStopped'
  BY DEF PageInv, OnlyCreatedRuns, Known, page, StoppedRunStaysStopped, DashboardTypeOK
<1>6. CreatedUnheard'
  BY <1>1, <1>3 DEF PageInv, CreatedUnheard, page, Tasks, Waits
<1>7. EndsTold'
  <2>0. \A x \in Tasks : task[x].answer \in Settled => task[x].run \in Runs
    BY TaskFacts DEF PageInv, EachItsOwn, Settled, NoAnswer
  <2>1. new.answer \in Settled => server[new.run] \in Settled /\ new.run \in Runs
    BY <1>2, TaskFacts, <2>0 DEF PageInv, EndsTold, Settled, NoAnswer
  <2>2. ASSUME t \in Waits, new.at = "loading"
        PROVE  /\ server[new.run] \in Settled /\ new.answer \in {NoAnswer} \cup Settled
               /\ new.run \in Runs
    BY <2>2, TaskFacts DEF PageInv, EndsTold, Waits
  <2>3. t = "retry" => retried
    BY DEF PageInv, EndsTold, Idle
  <2>4. \A x \in Tasks : task'[x].answer \in Settled => server'[task'[x].run] \in Settled
    BY <1>1, <2>0, <2>1 DEF PageInv, EndsTold
  <2>5. \A x \in Waits : task'[x].at = "loading" =>
          /\ server'[task'[x].run] \in Settled
          /\ task'[x].answer \in {NoAnswer} \cup Settled
    BY <1>1, <2>2, TaskFacts DEF PageInv, EndsTold, Tasks, Waits
  <2> QED  BY <1>1, <2>3, <2>4, <2>5 DEF PageInv, EndsTold, Tasks, Waits
<1>8. EndShown'
  BY <1>1 DEF PageInv, EndShown, Waited, page, Waits, Tasks
<1> QED  BY <1>1, <1>4, <1>5, <1>6, <1>7, <1>8 DEF PageInv

\* The same, when nothing happens to any run.
LEMMA TaskGoesOn ==
  ASSUME PageInv, UNCHANGED <<server, key, page, stopped, retried>>,
         NEW t \in Tasks, NEW new \in Task, task' = [task EXCEPT ![t] = new],
         new.run = task[t].run, task[t].at # "idle",
         \/ new.at = task[t].at
         \/ /\ t \in Waits /\ new.answer = NoAnswer
            /\ new.at \in {"polling", "partial", "pausing"} /\ task[t].at # "creating",
         \/ new.answer = task[t].answer \/ new.answer = NoAnswer
         \/ t = "stop" /\ new.answer \in {"accepted", "refused"}
         \/ /\ t # "stop" /\ task[t].at \in {"polling", "loading"}
            /\ new.answer = server[task[t].run]
  PROVE  PageInv'
<1>1. /\ server' \in [Runs -> {"absent"} \cup Live \cup Settled]
      /\ \A x : Known(x) => x \notin Runs \/ server'[x] # "absent"
      /\ \A x \in Runs : server[x] \in Settled => server'[x] \in Settled
  BY DashboardAssumption DEF PageInv, DashboardTypeOK, Known, DashboardAssumption
<1> QED  BY <1>1, TaskMoves

LEMMA ServeReadKeeps ==
  ASSUME PageInv, NEW t \in Tasks, ServeRead(t)
  PROVE  PageInv'
<1> DEFINE new == [task[t] EXCEPT !.answer = server[task[t].run]]
<1>1. /\ task[t].at \in {"polling", "loading"} /\ task' = [task EXCEPT ![t] = new]
      /\ UNCHANGED <<server, key, page, stopped, retried>>
  BY DEF ServeRead, Serves
<1>2. task[t] \in Task /\ task[t].run \in Runs /\ server[task[t].run] \in Live \cup Settled
  BY <1>1, TaskFacts, DashboardAssumption
  DEF Known, PageInv, DashboardTypeOK, DashboardAssumption
<1>3. /\ new \in Task /\ new.run = task[t].run /\ new.at = task[t].at
      /\ new.answer = server[task[t].run]
  BY <1>2 DEF Task
<1>4. t # "stop"  BY <1>1 DEF PageInv, EachItsOwn
<1> HIDE DEF new
<1> QED  BY <1>1, <1>3, <1>4, TaskGoesOn

LEMMA ServeCancelKeeps ==
  ASSUME PageInv, ServeCancel
  PROVE  PageInv'
<1> DEFINE r == task["stop"].run
           new(answer) == [task["stop"] EXCEPT !.answer = answer]
<1>1. /\ task["stop"].at = "stopping" /\ "stop" \in Tasks
      /\ UNCHANGED <<key, page, stopped, retried>>
  BY DEF ServeCancel, Serves, Tasks
<1>2. r \in Runs /\ task["stop"] \in Task  BY <1>1, TaskFacts
<1>3. \A answer \in {"accepted", "refused"} :
        /\ new(answer) \in Task /\ new(answer).run = task["stop"].run
        /\ new(answer).at = task["stop"].at /\ new(answer).answer = answer
  BY <1>2 DEF Task
<1>4. CASE server[r] \in Live
  <2>1. PICK status \in {"CANCELLED", "PROCESSING"} : server' = [server EXCEPT ![r] = status]
    BY <1>4 DEF ServeCancel
  <2>2. task' = [task EXCEPT !["stop"] = new("accepted")]  BY <1>4 DEF ServeCancel, Serves
  <2>3. server[r] \notin Settled /\ status \in Live \cup Settled
    BY <1>4 DEF Live, Settled
  <2> HIDE DEF new, r
  <2>4. /\ server' \in [Runs -> {"absent"} \cup Live \cup Settled]
        /\ \A x : Known(x) => x \notin Runs \/ server'[x] # "absent"
        /\ \A x \in Runs : server[x] \in Settled => server'[x] \in Settled
    BY <2>1, <2>3, ServerAdvances DEF PageInv
  <2> QED  BY <1>1, <1>3, <2>2, <2>4, TaskMoves
<1>5. CASE server[r] \notin Live
  <2>1. task' = [task EXCEPT !["stop"] = new("refused")] /\ UNCHANGED server
    BY <1>5 DEF ServeCancel, Serves
  <2> HIDE DEF new, r
  <2> QED  BY <1>1, <1>3, <2>1, TaskGoesOn
<1> QED  BY <1>4, <1>5

LEMMA ExpireKeeps ==
  ASSUME PageInv, NEW t \in Tasks, Expire(t)
  PROVE  PageInv'
<1> DEFINE new == [task[t] EXCEPT !.expired = TRUE]
<1>1. /\ task[t].at \in {"polling", "partial", "pausing"} /\ task' = [task EXCEPT ![t] = new]
      /\ UNCHANGED <<server, key, page, stopped, retried>>
  BY DEF Expire
<1>2. task[t] \in Task  BY TaskFacts
<1>3. /\ new \in Task /\ new.run = task[t].run /\ new.at = task[t].at
      /\ new.answer = task[t].answer
  BY <1>2 DEF Task
<1> HIDE DEF new
<1> QED  BY <1>1, <1>3, TaskGoesOn

\* A wait asks for the next thing.
LEMMA AsksOn ==
  ASSUME PageInv, NEW t \in Tasks, NEW at \in {"polling", "pausing"}, Asks(t, at),
         task[t].at \in {"partial", "pausing"},
         UNCHANGED <<server, key, page, stopped, retried>>
  PROVE  PageInv'
<1> DEFINE new == [task[t] EXCEPT !.at = at, !.answer = NoAnswer]
<1>1. task' = [task EXCEPT ![t] = new]  BY DEF Asks
<1>2. task[t] \in Task /\ t \in Waits
  BY TaskFacts DEF PageInv, EachItsOwn, Tasks
<1>3. new \in Task /\ new.run = task[t].run /\ new.at = at /\ new.answer = NoAnswer
  BY <1>2 DEF Task
<1> HIDE DEF new
<1> QED  BY <1>1, <1>2, <1>3, TaskGoesOn

-----------------------------------------------------------------------------
(* Where a function ends, or goes on to what it was told.                   *)

\* A function that ends shows an end or an error, unless it has no say in what
\* the page shows.
LEMMA TaskEnds ==
  ASSUME PageInv, NEW t \in Tasks, task' = [task EXCEPT ![t] = Idle], task[t].at # "idle",
         UNCHANGED <<server, key, activeRunId, pollingRunId, stopped, retried>>,
         isRunning' \in BOOLEAN, readError' \in BOOLEAN, isLoadingResults' \in BOOLEAN,
         summary' \in [run : Runs, status : Live \cup Settled] \cup {NoSummary},
         \/ readError' \/ summary'.status \in Settled \/ retried
         \/ /\ UNCHANGED <<readError, summary>>
            /\ t \in Waits
            /\ pollingRunId # task[t].run \/ task[t].at = "creating"
  PROVE  PageInv'
<1>1. Idle \in Task /\ Idle.run = NoRun /\ Idle.at = "idle" /\ Idle.answer = NoAnswer
  BY DEF Idle, Task, NoAnswer
<1>2. /\ task' \in [Tasks -> Task] /\ task'[t] = Idle
      /\ \A x \in Tasks : x # t => task'[x] = task[x]
  BY <1>1 DEF PageInv, DashboardTypeOK
<1>3. DashboardTypeOK'  BY <1>2 DEF PageInv, DashboardTypeOK
<1>4. EachItsOwn'
  BY <1>1, <1>2 DEF PageInv, EachItsOwn, Known, Tasks, Waits, NoAnswer
<1>5. OnlyCreatedRuns' /\ StoppedRunStaysStopped'
  BY DEF PageInv, OnlyCreatedRuns, Known, StoppedRunStaysStopped
<1>6. CreatedUnheard'
  BY <1>1, <1>2 DEF PageInv, CreatedUnheard, Tasks, Waits
<1>7. EndsTold'
  BY <1>1, <1>2 DEF PageInv, EndsTold, Tasks, Waits, Settled, NoAnswer
<1>8. EndShown'
  <2>1. CASE readError' \/ summary'.status \in Settled \/ retried  BY <2>1 DEF EndShown
  <2>2. CASE /\ UNCHANGED <<readError, summary>> /\ t \in Waits
             /\ pollingRunId # task[t].run \/ task[t].at = "creating"
    <3>1. ASSUME activeRunId # NoRun, activeRunId = pollingRunId PROVE task[t].run # activeRunId
      BY <2>2, <3>1 DEF PageInv, CreatedUnheard, EachItsOwn, Waits
    <3>2. ASSUME activeRunId # NoRun, activeRunId = pollingRunId, Waited(activeRunId)
          PROVE  Waited(activeRunId)'
      BY <1>2, <3>1, <3>2 DEF Waited, Waits, Tasks
    <3> QED  BY <2>2, <3>2 DEF PageInv, EndShown
  <2> QED  BY <2>1, <2>2
<1> QED  BY <1>3, <1>4, <1>5, <1>6, <1>7, <1>8 DEF PageInv

\* A wait that is told of its run shows it, and goes on.
LEMMA WaitShows ==
  ASSUME PageInv, NEW t \in Tasks, task[t].at = "polling", ~Superseded(t),
         task[t].answer \in Live \cup Settled, Shows(t),
         NEW at \in {"partial", "loading"}, Asks(t, at),
         at = "loading" => task[t].answer \in Settled,
         UNCHANGED <<server, key, activeRunId, pollingRunId, isRunning, stopped, retried>>,
         readError' \in BOOLEAN, isLoadingResults' \in BOOLEAN
  PROVE  PageInv'
<1> DEFINE new == [task[t] EXCEPT !.at = at, !.answer = NoAnswer]
<1>1. task[t] \in Task /\ task[t].run \in Runs /\ t \in Waits
  BY TaskFacts DEF PageInv, EachItsOwn, Tasks
<1>2. new \in Task /\ new.run = task[t].run /\ new.at = at /\ new.answer = NoAnswer
  BY <1>1 DEF Task
<1>3. task' = [task EXCEPT ![t] = new]  BY DEF Asks
<1>4. /\ pollingRunId = task[t].run
      /\ summary' = [run |-> task[t].run, status |-> task[t].answer]
  BY DEF Superseded, Shows
<1> HIDE DEF new
<1>5. /\ task' \in [Tasks -> Task] /\ task'[t] = new
      /\ \A x \in Tasks : x # t => task'[x] = task[x]
  BY <1>2, <1>3 DEF PageInv, DashboardTypeOK
<1>6. DashboardTypeOK'  BY <1>1, <1>4, <1>5 DEF PageInv, DashboardTypeOK
<1>7. EachItsOwn'
  <2>1. \A x \in Tasks : Known(task[x].run)'  BY <1>2, <1>5, TaskFacts DEF Known
  <2> QED  BY <1>1, <1>2, <1>5, <2>1 DEF PageInv, EachItsOwn, Tasks, Waits, NoAnswer
<1>8. OnlyCreatedRuns' /\ StoppedRunStaysStopped'
  BY DEF PageInv, OnlyCreatedRuns, Known, StoppedRunStaysStopped
<1>9. CreatedUnheard'
  BY <1>1, <1>2, <1>5 DEF PageInv, CreatedUnheard, Tasks, Waits
<1>10. EndsTold'
  <2>1. at = "loading" => server[task[t].run] \in Settled
    BY <1>1 DEF PageInv, EndsTold
  <2> QED
    BY <1>1, <1>2, <1>5, <2>1 DEF PageInv, EndsTold, Tasks, Waits, Settled, NoAnswer
<1>11. EndShown'
  <2>1. Waited(pollingRunId)'  BY <1>1, <1>2, <1>4, <1>5 DEF Waited
  <2> QED  BY <2>1 DEF EndShown, Waited
<1> QED  BY <1>6, <1>7, <1>8, <1>9, <1>10, <1>11 DEF PageInv

LEMMA PollAnsweredKeeps ==
  ASSUME PageInv, NEW t \in Tasks, PollAnswered(t)
  PROVE  PageInv'
<1>1. /\ task[t].at = "polling" /\ task[t].answer # NoAnswer
      /\ UNCHANGED <<server, key, stopped, retried>>
  BY DEF PollAnswered
<1>2. t \in Waits /\ task[t].run \in Runs /\ task[t].answer \in Live \cup Settled
  BY <1>1, TaskFacts DEF PageInv, EachItsOwn, Tasks, Task
<1>3. readError \in BOOLEAN /\ isLoadingResults \in BOOLEAN /\ isRunning \in BOOLEAN
      /\ summary \in [run : Runs, status : Live \cup Settled] \cup {NoSummary}
  BY DEF PageInv, DashboardTypeOK
<1>4. CASE Superseded(t) /\ Quits(t)
  BY <1>1, <1>2, <1>3, <1>4, TaskEnds DEF Quits, Ends, Superseded
<1>5. CASE /\ task[t].answer = "FAILED" /\ Shows(t) /\ Ends(t) /\ readError' = TRUE
           /\ UNCHANGED <<activeRunId, pollingRunId, isLoadingResults>>
  BY <1>1, <1>2, <1>3, <1>5, TaskEnds DEF Ends, Shows
<1>6. CASE /\ ~Superseded(t) /\ task[t].answer \in {"COMPLETED", "CANCELLED"}
           /\ Shows(t) /\ StartsLoading(t)
           /\ UNCHANGED <<activeRunId, pollingRunId, isRunning>>
  BY <1>1, <1>2, <1>6, WaitShows DEF StartsLoading, Settled
<1>7. CASE /\ ~Superseded(t) /\ task[t].answer \in Live /\ Shows(t) /\ Asks(t, "partial")
           /\ UNCHANGED <<activeRunId, pollingRunId, isRunning, readError, isLoadingResults>>
  BY <1>1, <1>2, <1>3, <1>7, WaitShows
<1> QED  BY <1>4, <1>5, <1>6, <1>7 DEF PollAnswered

LEMMA FailsKeeps ==
  ASSUME PageInv, NEW t \in Tasks, task[t].at # "idle", Fails(t),
         UNCHANGED <<server, key, stopped, retried>>
  PROVE  PageInv'
<1>1. isRunning \in BOOLEAN /\ isLoadingResults \in BOOLEAN
      /\ summary \in [run : Runs, status : Live \cup Settled] \cup {NoSummary}
  BY DEF PageInv, DashboardTypeOK
<1> QED  BY <1>1, TaskEnds DEF Fails, Ends

LEMMA PartialAnsweredKeeps ==
  ASSUME PageInv, NEW t \in Tasks, PartialAnswered(t) \/ PauseEnds(t)
  PROVE  PageInv'
<1>1. /\ task[t].at \in {"partial", "pausing"}
      /\ UNCHANGED <<server, key, stopped, retried>>
  BY DEF PartialAnswered, PauseEnds
<1>2. t \in Waits  BY <1>1 DEF PageInv, EachItsOwn, Tasks
<1>3. readError \in BOOLEAN /\ isLoadingResults \in BOOLEAN /\ isRunning \in BOOLEAN
      /\ summary \in [run : Runs, status : Live \cup Settled] \cup {NoSummary}
  BY DEF PageInv, DashboardTypeOK
<1>4. CASE Superseded(t) /\ Quits(t)
  BY <1>1, <1>2, <1>3, <1>4, TaskEnds DEF Quits, Ends, Superseded
<1>5. CASE Fails(t)  BY <1>1, <1>5, FailsKeeps
<1>6. CASE \E at \in {"polling", "pausing"} : Asks(t, at) /\ UNCHANGED page
  BY <1>1, <1>6, AsksOn
<1> QED  BY <1>4, <1>5, <1>6 DEF PartialAnswered, PauseEnds

LEMMA LoadEnds ==
  ASSUME PageInv, NEW t \in Tasks, LoadAnswered(t) \/ LoadFails(t)
  PROVE  PageInv'
<1>1. /\ task[t].at = "loading" /\ task' = [task EXCEPT ![t] = Idle]
      /\ isRunning' \in BOOLEAN /\ isLoadingResults' \in BOOLEAN
      /\ UNCHANGED <<server, key, activeRunId, pollingRunId, stopped, retried>>
  BY DEF LoadAnswered, LoadFails, Ends, PageInv, DashboardTypeOK
<1>2. task[t].run \in Runs /\ t \in Waits \cup {"retry"}
  BY <1>1, TaskFacts DEF PageInv, EachItsOwn, Tasks
<1>3. CASE LoadFails(t)
  <2>1. readError' = TRUE /\ UNCHANGED summary  BY <1>3 DEF LoadFails
  <2>2. summary' \in [run : Runs, status : Live \cup Settled] \cup {NoSummary}
    BY <2>1 DEF PageInv, DashboardTypeOK
  <2> QED  BY <1>1, <2>1, <2>2, TaskEnds
<1>4. CASE LoadAnswered(t)
  <2>1. task[t].answer \in Live \cup Settled
    BY <1>1, <1>2, <1>4, TaskFacts DEF LoadAnswered, PageInv, EachItsOwn, Waits, Task
  <2>2. /\ summary' = [run |-> task[t].run, status |-> task[t].answer]
        /\ readError' \in BOOLEAN
    BY <1>4 DEF LoadAnswered, Shows
  <2>3. summary' \in [run : Runs, status : Live \cup Settled] \cup {NoSummary}
    BY <1>2, <2>1, <2>2
  <2>4. CASE t \in Waits
    <3>1. summary'.status \in Settled
      BY <1>1, <1>4, <2>2, <2>4 DEF LoadAnswered, PageInv, EndsTold
    <3> QED  BY <1>1, <2>2, <2>3, <3>1, TaskEnds
  <2>5. CASE t = "retry"
    <3>1. retried  BY <1>1, <2>5 DEF PageInv, EndsTold, Idle
    <3> QED  BY <1>1, <2>2, <2>3, <3>1, TaskEnds
  <2> QED  BY <1>2, <2>4, <2>5
<1> QED  BY <1>3, <1>4

-----------------------------------------------------------------------------
(* What the user does.                                                      *)

LEMMA PollingTask ==
  ASSUME NEW r \in Runs
  PROVE  /\ Polls(r) \in Task /\ Polls(r).at = "polling" /\ Polls(r).run = r
         /\ Polls(r).answer = NoAnswer
BY DEF Polls, Idle, Task, NoAnswer

LEMMA ReloadKeeps ==
  ASSUME PageInv, Reload
  PROVE  PageInv'
<1>1. Idle \in Task /\ Idle.run = NoRun /\ Idle.at = "idle" /\ Idle.answer = NoAnswer
  BY DEF Idle, Task, NoAnswer
<1>2. /\ task' = [t \in Tasks |-> IF t = "resume" /\ key # NoRun THEN Polls(key) ELSE Idle]
      /\ activeRunId' = key /\ pollingRunId' = key /\ isRunning' = (key # NoRun)
      /\ summary' = NoSummary /\ readError' = FALSE /\ isLoadingResults' = FALSE
      /\ retried' = FALSE
      /\ UNCHANGED <<server, key, stopped>>
  BY DEF Reload
<1>3. key \in Runs \cup {NoRun} /\ Known(key)
  BY DEF PageInv, DashboardTypeOK, OnlyCreatedRuns
<1>4. /\ \A t \in Tasks : t # "resume" => task'[t] = Idle
      /\ IF key # NoRun THEN task'["resume"] = Polls(key) ELSE task'["resume"] = Idle
  BY <1>2 DEF Tasks, Waits
<1>5. \A t \in Tasks :
        /\ task'[t] \in Task /\ task'[t].at \in {"idle", "polling"}
        /\ task'[t].answer = NoAnswer /\ task'[t].run \in {NoRun, key}
        /\ task'[t].at = "polling" => task'[t].run # NoRun /\ t = "resume"
  BY <1>1, <1>3, <1>4, PollingTask
<1>6. DashboardTypeOK'
  BY <1>2, <1>3, <1>5 DEF PageInv, DashboardTypeOK
<1>7. EachItsOwn' /\ OnlyCreatedRuns'
  BY <1>2, <1>3, <1>5
  DEF PageInv, EachItsOwn, OnlyCreatedRuns, Known, Tasks, Waits, NoAnswer
<1>8. CreatedUnheard'  BY <1>5 DEF CreatedUnheard, Tasks, Waits
<1>9. EndsTold'
  BY <1>2, <1>4, <1>5 DEF EndsTold, Tasks, Waits, Settled, NoAnswer
<1>10. StoppedRunStaysStopped'
  BY <1>2 DEF PageInv, StoppedRunStaysStopped
<1>11. EndShown'
  <2>1. key # NoRun => Waited(key)'
    BY <1>2, <1>3, <1>4, PollingTask DEF Waited, Waits
  <2> QED  BY <1>2, <2>1 DEF EndShown, Waited
<1> QED  BY <1>6, <1>7, <1>8, <1>9, <1>10, <1>11 DEF PageInv

LEMMA SubmitKeeps ==
  ASSUME PageInv, Submit
  PROVE  PageInv'
<1> DEFINE new == [Idle EXCEPT !.at = "creating"]
<1>1. new \in Task /\ new.run = NoRun /\ new.at = "creating" /\ new.answer = NoAnswer
  BY DEF Idle, Task, NoAnswer
<1>2. /\ task' = [task EXCEPT !["submit"] = new] /\ "submit" \in Tasks
      /\ activeRunId' = NoRun /\ isRunning' = TRUE /\ summary' = NoSummary
      /\ readError' = FALSE
      /\ UNCHANGED <<server, key, pollingRunId, isLoadingResults, stopped, retried>>
  BY DEF Submit, Tasks, Waits
<1> HIDE DEF new
<1>3. /\ task' \in [Tasks -> Task] /\ task'["submit"] = new
      /\ \A t \in Tasks : t # "submit" => task'[t] = task[t]
  BY <1>1, <1>2 DEF PageInv, DashboardTypeOK
<1>4. DashboardTypeOK'  BY <1>2, <1>3 DEF PageInv, DashboardTypeOK
<1>5. EachItsOwn'
  BY <1>1, <1>2, <1>3 DEF PageInv, EachItsOwn, Known, Tasks, Waits, NoAnswer
<1>6. OnlyCreatedRuns' /\ StoppedRunStaysStopped'
  BY <1>2 DEF PageInv, OnlyCreatedRuns, StoppedRunStaysStopped, Known
<1>7. CreatedUnheard' /\ EndShown'  BY <1>1, <1>2, <1>3 DEF CreatedUnheard, EndShown
<1>8. EndsTold'
  BY <1>1, <1>2, <1>3 DEF PageInv, EndsTold, Tasks, Waits, Settled, NoAnswer
<1> QED  BY <1>4, <1>5, <1>6, <1>7, <1>8 DEF PageInv

LEMMA CreatedKeeps ==
  ASSUME PageInv, Created
  PROVE  PageInv'
<1> DEFINE r == task["submit"].run
<1>1. /\ task["submit"].at = "creating" /\ r # NoRun /\ "submit" \in Tasks
      /\ key' = r /\ pollingRunId' = r /\ activeRunId' = r
      /\ summary' = [run |-> r, status |-> "PROCESSING"]
      /\ task' = [task EXCEPT !["submit"] = Polls(r)]
      /\ UNCHANGED <<server, isRunning, readError, isLoadingResults, stopped, retried>>
  BY DEF Created, Tasks, Waits
<1>2. r \in Runs /\ Known(r)  BY <1>1, TaskFacts DEF Task
<1>3. r \notin stopped  BY <1>1 DEF PageInv, CreatedUnheard
<1> HIDE DEF r
<1>4. /\ task' \in [Tasks -> Task] /\ task'["submit"] = Polls(r)
      /\ \A t \in Tasks : t # "submit" => task'[t] = task[t]
  BY <1>1, <1>2, PollingTask DEF PageInv, DashboardTypeOK
<1>5. DashboardTypeOK'  BY <1>1, <1>2, <1>4 DEF PageInv, DashboardTypeOK, Live
<1>6. EachItsOwn'
  <2>1. \A t \in Tasks : Known(task[t].run)'
    BY <1>1, <1>2, <1>4, PollingTask, TaskFacts DEF Known
  <2> QED
    BY <1>1, <1>2, <1>4, <2>1, PollingTask DEF PageInv, EachItsOwn, Tasks, Waits, NoAnswer
<1>7. OnlyCreatedRuns' /\ StoppedRunStaysStopped'
  BY <1>1, <1>2, <1>3, DashboardAssumption
  DEF PageInv, OnlyCreatedRuns, StoppedRunStaysStopped, Known, DashboardTypeOK,
      DashboardAssumption
<1>8. CreatedUnheard'  BY <1>2, <1>4, PollingTask DEF CreatedUnheard
<1>9. EndsTold'
  BY <1>1, <1>2, <1>4, PollingTask DEF PageInv, EndsTold, Tasks, Waits, Settled, NoAnswer
<1>10. EndShown'
  <2>1. \E t \in Waits : task'[t].run = r  BY <1>2, <1>4, PollingTask DEF Waits
  <2> QED  BY <1>1, <2>1 DEF EndShown, Waited
<1> QED  BY <1>5, <1>6, <1>7, <1>8, <1>9, <1>10 DEF PageInv

LEMMA CreateFailsKeeps ==
  ASSUME PageInv, CreateFails
  PROVE  PageInv'
<1>1. readError \in BOOLEAN /\ isLoadingResults \in BOOLEAN
      /\ summary \in [run : Runs, status : Live \cup Settled] \cup {NoSummary}
  BY DEF PageInv, DashboardTypeOK
<1>2. /\ task["submit"].at = "creating" /\ Quits("submit")
      /\ UNCHANGED <<server, key, stopped, retried>>
  BY DEF CreateFails
<1> QED  BY <1>1, <1>2, TaskEnds DEF Quits, Ends, Tasks, Waits

\* The two that start over an idle function about the run on the page.
LEMMA TaskStarts ==
  ASSUME PageInv, NEW t \in {"stop", "retry"}, NEW new \in Task, activeRunId # NoRun,
         new.run = activeRunId, new.answer = NoAnswer,
         new.at = IF t = "stop" THEN "stopping" ELSE "loading",
         task' = [task EXCEPT ![t] = new],
         UNCHANGED <<server, key, activeRunId, pollingRunId, isRunning, summary, stopped>>,
         isLoadingResults' \in BOOLEAN,
         IF t = "stop" THEN UNCHANGED <<readError, retried>>
         ELSE retried' = TRUE /\ readError' = FALSE
  PROVE  PageInv'
<1>1. /\ task' \in [Tasks -> Task] /\ task'[t] = new /\ t \in Tasks /\ t \notin Waits
      /\ \A x \in Tasks : x # t => task'[x] = task[x]
  BY DEF PageInv, DashboardTypeOK, Tasks, Waits
<1>2. DashboardTypeOK'  BY <1>1 DEF PageInv, DashboardTypeOK
<1>3. EachItsOwn'
  <2>1. \A x \in Tasks : Known(task[x].run)'
    BY <1>1, TaskFacts DEF Known, PageInv, OnlyCreatedRuns
  <2> QED  BY <1>1, <2>1 DEF PageInv, EachItsOwn, Tasks, Waits, NoAnswer
<1>4. OnlyCreatedRuns' /\ StoppedRunStaysStopped'
  BY DEF PageInv, OnlyCreatedRuns, StoppedRunStaysStopped, Known
<1>5. CreatedUnheard'
  BY <1>1 DEF PageInv, CreatedUnheard, Tasks, Waits
<1>6. EndsTold'
  BY <1>1 DEF PageInv, EndsTold, Tasks, Waits, Settled, NoAnswer
<1>7. EndShown'
  <2>1. \A x : Waited(x)' <=> Waited(x)  BY <1>1 DEF Waited, Tasks
  <2> QED  BY <2>1 DEF PageInv, EndShown
<1> QED  BY <1>2, <1>3, <1>4, <1>5, <1>6, <1>7 DEF PageInv

LEMMA StopKeeps ==
  ASSUME PageInv, Stop
  PROVE  PageInv'
<1> DEFINE new == [Idle EXCEPT !.at = "stopping", !.run = activeRunId]
<1>1. activeRunId \in Runs /\ isLoadingResults \in BOOLEAN
  BY DEF Stop, PageInv, DashboardTypeOK
<1>2. new \in Task /\ new.run = activeRunId /\ new.answer = NoAnswer /\ new.at = "stopping"
  BY <1>1 DEF Idle, Task, NoAnswer
<1>3. /\ task' = [task EXCEPT !["stop"] = new] /\ activeRunId # NoRun
      /\ UNCHANGED <<server, key, page, stopped, retried>>
  BY DEF Stop
<1> HIDE DEF new
<1> QED  BY <1>1, <1>2, <1>3, TaskStarts DEF page

LEMMA RetryKeeps ==
  ASSUME PageInv, Retry
  PROVE  PageInv'
<1> DEFINE new == [Idle EXCEPT !.at = "loading", !.run = activeRunId]
<1>1. activeRunId \in Runs  BY DEF Retry, PageInv, DashboardTypeOK
<1>2. new \in Task /\ new.run = activeRunId /\ new.answer = NoAnswer /\ new.at = "loading"
  BY <1>1 DEF Idle, Task, NoAnswer
<1>3. /\ task' = [task EXCEPT !["retry"] = new] /\ activeRunId # NoRun
      /\ isLoadingResults' = TRUE /\ readError' = FALSE /\ retried' = TRUE
      /\ UNCHANGED <<server, key, activeRunId, pollingRunId, isRunning, summary, stopped>>
  BY DEF Retry
<1> HIDE DEF new
<1> QED  BY <1>1, <1>2, <1>3, TaskStarts

LEMMA StopConfirmedKeeps ==
  ASSUME PageInv, StopConfirmed
  PROVE  PageInv'
<1>0. Idle \in Task /\ Idle.run = NoRun /\ Idle.at = "idle" /\ Idle.answer = NoAnswer
  BY DEF Idle, Task, NoAnswer
<1>1. /\ task["stop"].answer = "accepted" /\ "stop" \in Tasks
      /\ pollingRunId' = NoRun /\ key' = NoRun /\ isRunning' = FALSE /\ readError' = FALSE
      /\ task' = [task EXCEPT !["stop"] = Idle]
      /\ stopped' = stopped \cup {task["stop"].run}
      /\ UNCHANGED <<server, activeRunId, summary, isLoadingResults, retried>>
  BY DEF StopConfirmed, Tasks
<1>2. task["stop"].run \in Runs /\ Known(task["stop"].run)
  BY <1>1, TaskFacts DEF PageInv, EachItsOwn, NoAnswer
<1>3. /\ task' \in [Tasks -> Task] /\ task'["stop"] = Idle
      /\ \A x \in Tasks : x # "stop" => task'[x] = task[x]
  BY <1>0, <1>1 DEF PageInv, DashboardTypeOK
<1>4. DashboardTypeOK'  BY <1>1, <1>2, <1>3 DEF PageInv, DashboardTypeOK
<1>5. EachItsOwn'
  BY <1>0, <1>1, <1>3 DEF PageInv, EachItsOwn, Known, Tasks, Waits, NoAnswer
<1>6. OnlyCreatedRuns' /\ StoppedRunStaysStopped'
  BY <1>1, <1>2, DashboardAssumption
  DEF PageInv, OnlyCreatedRuns, StoppedRunStaysStopped, Known, DashboardTypeOK,
      DashboardAssumption
<1>7. CreatedUnheard'
  BY <1>0, <1>1, <1>3 DEF PageInv, CreatedUnheard, Tasks, Waits
<1>8. EndsTold'
  BY <1>0, <1>1, <1>3 DEF PageInv, EndsTold, Tasks, Waits, Settled, NoAnswer
<1>9. EndShown'  BY <1>1 DEF EndShown
<1> QED  BY <1>4, <1>5, <1>6, <1>7, <1>8, <1>9 DEF PageInv

-----------------------------------------------------------------------------

LEMMA PageInvStep == PageInv /\ [Next]_vars => PageInv'
<1> SUFFICES ASSUME PageInv, [Next]_vars PROVE PageInv'  OBVIOUS
<1>1. CASE \E r \in Runs : SettleRun(r)  BY <1>1, SettleRunKeeps
<1>2. ASSUME NEW t \in Tasks, Proceeds(t) PROVE PageInv'
  <2>1. CASE ServeRead(t)  BY <2>1, ServeReadKeeps
  <2>2. CASE PollAnswered(t)  BY <2>2, PollAnsweredKeeps
  <2>3. CASE PollFails(t)  BY <2>3, FailsKeeps DEF PollFails
  <2>4. CASE PartialAnswered(t) \/ PauseEnds(t)  BY <2>4, PartialAnsweredKeeps
  <2>5. CASE LoadAnswered(t) \/ LoadFails(t)  BY <2>5, LoadEnds
  <2> QED  BY <1>2, <2>1, <2>2, <2>3, <2>4, <2>5 DEF Proceeds
<1>3. CASE \E t \in Tasks : Expire(t)  BY <1>3, ExpireKeeps
<1>4. CASE Submits  BY <1>4, ServeCreateKeeps, CreatedKeeps, CreateFailsKeeps DEF Submits
<1>5. CASE Stops
  <2>1. CASE StopFails  BY <2>1, FailsKeeps DEF StopFails, Tasks
  <2> QED  BY <1>5, <2>1, ServeCancelKeeps, StopConfirmedKeeps DEF Stops
<1>6. CASE User  BY <1>6, ReloadKeeps, SubmitKeeps, StopKeeps, RetryKeeps DEF User
<1>7. CASE UNCHANGED vars
  <2>1. UNCHANGED <<server, key, activeRunId, pollingRunId, isRunning, summary, readError,
                    isLoadingResults, task, stopped, retried>>
    BY <1>7 DEF vars, page
  <2> QED
    BY <2>1
    DEF PageInv, DashboardTypeOK, EachItsOwn, OnlyCreatedRuns, CreatedUnheard, EndsTold,
        StoppedRunStaysStopped, EndShown, Waited, Known
<1> QED  BY <1>1, <1>2, <1>3, <1>4, <1>5, <1>6, <1>7 DEF Next

LEMMA PageInvariant == Spec => []PageInv
BY PageInvInit, PageInvStep, PTL DEF Spec

(* The state of the page keeps its type (dashboard.tsx:81-100).             *)
THEOREM PageTypeCorrect == Spec => []DashboardTypeOK
<1>1. PageInv => DashboardTypeOK  BY DEF PageInv
<1> QED  BY <1>1, PageInvariant, PTL

(* A run whose stop was confirmed is never polled or remembered again       *)
(* (dashboard.tsx:213-218).                                                 *)
THEOREM NoStoppedRunReturns == Spec => []StoppedRunStaysStopped
<1>1. PageInv => StoppedRunStaysStopped  BY DEF PageInv
<1> QED  BY <1>1, PageInvariant, PTL

(* When the wait for the run on the page is over, its end or an error is    *)
(* shown (dashboard.tsx:153-182).                                           *)
THEOREM NoSilentEnd == Spec => []EndShown
<1>1. PageInv => EndShown  BY DEF PageInv
<1> QED  BY <1>1, PageInvariant, PTL
=============================================================================
