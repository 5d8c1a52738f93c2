----------------------------- MODULE TaskQueue -----------------------------
(***************************************************************************)
(* The background-task manager of src/internal/tasks/tasks.go: the table   *)
(* task_runs, which survives a restart, and around it the worker goroutine *)
(* that runs queued jobs, the service goroutines, the HTTP handlers and    *)
(* schedulers that call Enqueue, and the callers of Manager.Run.           *)
(*                                                                         *)
(* One SQL statement, or one transaction, is one step: the store keeps a   *)
(* single connection.  Every other pair of statements may be interleaved.  *)
(* A row is named by its position in runs (the AUTOINCREMENT id), so "the  *)
(* oldest" of the code's ORDER BY queued_at, id is the least id: the wall  *)
(* clock is taken not to step back.                                        *)
(***************************************************************************)
EXTENDS Naturals, Sequences

CONSTANTS
  Keys,       \* keys of the runnable jobs
  Services,   \* keys of the services
  Callers,    \* goroutines that call Enqueue
  Direct,     \* goroutines that call Manager.Run
  Worker,     \* the goroutine started by Start
  MaxRuns,    \* bound on the rows of task_runs
  MaxBoots,   \* bound on the number of starts of the program
  MaxFaults   \* bound on the store statements that return an error

ASSUME ProcAssumption ==
  /\ Worker \notin Services /\ Worker \notin Direct
  /\ Services \cap Direct = {}

ASSUME BoundAssumption ==
  MaxRuns \in Nat /\ MaxBoots \in Nat /\ MaxFaults \in Nat

VARIABLES
  runs,     \* the rows of task_runs, in the order of their ids
  up,       \* is the program running?
  ctxDone,  \* has the root context been cancelled?
  wake,     \* does the channel Manager.wake (capacity 1) hold a token?
  caller,   \* what each caller of Enqueue has left to do
  proc,     \* control state of the goroutines that own a row
  boots,    \* starts of the program so far
  faults    \* statements that returned an error so far

vars == <<runs, up, ctxDone, wake, caller, proc, boots, faults>>

Active   == {"queued", "running"}
Terminal == {"succeeded", "failed", "interrupted", "stopped"}
Status   == Active \cup Terminal

(* origin: which function inserted the row (enqueue, or startService for   *)
(* Run and for StartService); the kind column is "service" for the last.   *)
Row == [key    : Keys \cup Services,
        origin : {"enqueue", "run", "service"},
        status : Status]

Procs == {Worker} \cup Services \cup Direct

(* Where a goroutine stands, the row it owns (0: none), and, while it is   *)
(* recording the end of that row, the status to record and the attempts    *)
(* that have failed.  The worker keeps in result how its last claim ended. *)
PC   == {"off", "claim", "mark", "execute", "finish", "wait", "exited"}
Proc == [pc     : PC,
         run    : 0 .. MaxRuns,
         result : Terminal \cup {"none", "error"},
         tries  : 0 .. 2]

Idle(pc) == [pc |-> pc, run |-> 0, result |-> "none", tries |-> 0]

RowIds          == 1 .. Len(runs)
IsActive(i)     == runs[i].status \in Active
(* Mutant: a running row does not count.                                   *)
QueuedOf(k)     == {i \in RowIds : runs[i].key = k /\ runs[i].status = "queued"}
ActiveRows(k)   == {i \in RowIds : runs[i].key = k /\ IsActive(i)}
QueuedRows      == {i \in RowIds : runs[i].status = "queued"}
SetStatus(i, s) == runs' = [runs EXCEPT ![i].status = s]
Insert(k, o, s) == /\ Len(runs) < MaxRuns
                   /\ runs' = Append(runs, [key |-> k, origin |-> o, status |-> s])
Goto(p, pc)     == proc' = [proc EXCEPT ![p].pc = pc]
StoreFails      == faults < MaxFaults /\ faults' = faults + 1

Init ==
  /\ runs = <<>>
  /\ up = FALSE
  /\ ctxDone = FALSE
  /\ wake = FALSE
  /\ caller = [c \in Callers |-> "idle"]
  /\ proc = [p \in Procs |-> Idle("off")]
  /\ boots = 0
  /\ faults = 0

-----------------------------------------------------------------------------
(* The life of the program.                                                *)

(* Mutants: the statement has no WHERE, or forgets the running rows.       *)
RecoverAll ==
  runs' = [i \in RowIds |-> [runs[i] EXCEPT !.status = "interrupted"]]

RecoverQueued ==
  runs' = [i \in RowIds |-> IF runs[i].status = "queued"
                            THEN [runs[i] EXCEPT !.status = "interrupted"]
                            ELSE runs[i]]

RecoverInterrupted ==
  runs' = [i \in RowIds |-> IF IsActive(i)
                            THEN [runs[i] EXCEPT !.status = "interrupted"]
                            ELSE runs[i]]

(* Start: recover the rows a dead process left behind, start the worker.   *)
Start ==
  /\ ~up /\ boots < MaxBoots
  /\ boots' = boots + 1
  /\ up' = TRUE
  /\ RecoverInterrupted
  /\ Goto(Worker, "claim")
  /\ UNCHANGED <<ctxDone, wake, caller, faults>>

(* SIGINT or SIGTERM cancels the context every goroutine was given.        *)
Shutdown ==
  /\ up /\ ~ctxDone
  /\ ctxDone' = TRUE
  /\ UNCHANGED <<runs, up, wake, caller, proc, boots, faults>>

(* The process ends: main returns without waiting for any goroutine, or    *)
(* the process is killed.  Only the rows are left.                         *)
Exit ==
  /\ up
  /\ up' = FALSE
  /\ ctxDone' = FALSE
  /\ wake' = FALSE
  /\ caller' = [c \in Callers |-> "idle"]
  /\ proc' = [p \in Procs |-> Idle("off")]
  /\ UNCHANGED <<runs, boots, faults>>

-----------------------------------------------------------------------------
(* Enqueue: one transaction, and a wake-up sent after it has committed.    *)
(* When a row of the key is active the transaction inserts nothing and the *)
(* caller is handed that row.                                              *)

Enqueue(c, k) ==
  /\ up /\ caller[c] = "idle"
  /\ ActiveRows(k) = {}
  /\ Insert(k, "enqueue", "queued")
  /\ caller' = [caller EXCEPT ![c] = "signal"]
  /\ UNCHANGED <<up, ctxDone, wake, proc, boots, faults>>

(* Mutant: the request is stored and nobody is told.                       *)
NoSignal(c) ==
  /\ caller[c] = "signal"
  /\ caller' = [caller EXCEPT ![c] = "idle"]
  /\ UNCHANGED <<runs, up, ctxDone, wake, proc, boots, faults>>

(* The send never blocks: it is dropped when a token is already there.     *)
Signal(c) ==
  /\ caller[c] = "signal"
  /\ caller' = [caller EXCEPT ![c] = "idle"]
  /\ wake' = TRUE
  /\ UNCHANGED <<runs, up, ctxDone, proc, boots, faults>>

-----------------------------------------------------------------------------
(* startService: a row that is running from the start, with no look at the *)
(* rows of the same key.                                                   *)

(* Mutant: the row is queued like any other.                               *)
BeginQueued(p, k, o) ==
  /\ up /\ proc[p].pc = "off"
  /\ Insert(k, o, "queued")
  /\ proc' = [proc EXCEPT ![p] = [Idle("execute") EXCEPT !.run = Len(runs) + 1]]
  /\ UNCHANGED <<up, ctxDone, wake, caller, boots, faults>>

Begin(p, k, o) ==
  /\ up /\ proc[p].pc = "off"
  /\ Insert(k, o, "running")
  /\ proc' = [proc EXCEPT ![p] = [Idle("execute") EXCEPT !.run = Len(runs) + 1]]
  /\ UNCHANGED <<up, ctxDone, wake, caller, boots, faults>>

StartService(s) == Begin(s, s, "service")
RunNow(d, k)    == Begin(d, k, "run")

-----------------------------------------------------------------------------
(* The worker: claimNext is a SELECT and then a conditional UPDATE.        *)

(* Mutant: ORDER BY ... DESC.                                              *)
Newest(i) == i \in QueuedRows /\ \A j \in QueuedRows : j <= i

Oldest(i) == i \in QueuedRows /\ \A j \in QueuedRows : i <= j

ClaimSelect ==
  /\ proc[Worker].pc = "claim"
  /\ IF QueuedRows = {}
     THEN proc' = [proc EXCEPT ![Worker] = Idle("wait")]
     ELSE \E i \in QueuedRows :
            /\ Oldest(i)
            /\ proc' = [proc EXCEPT ![Worker] = [Idle("mark") EXCEPT !.run = i]]
  /\ UNCHANGED <<runs, up, ctxDone, wake, caller, boots, faults>>

ClaimUpdate ==
  LET i == proc[Worker].run IN
  /\ proc[Worker].pc = "mark"
  /\ IF i \in QueuedRows
     THEN SetStatus(i, "running") /\ Goto(Worker, "execute")
     ELSE proc' = [proc EXCEPT ![Worker] = Idle("wait")] /\ UNCHANGED runs
  /\ UNCHANGED <<up, ctxDone, wake, caller, boots, faults>>

ClaimError ==
  /\ proc[Worker].pc \in {"claim", "mark"}
  /\ StoreFails
  /\ proc' = [proc EXCEPT ![Worker] = [Idle("wait") EXCEPT !.result = "error"]]
  /\ UNCHANGED <<runs, up, ctxDone, wake, caller, boots>>

(* The select at the end of the loop: a token, one second, or the end.     *)
WakeUp ==
  /\ proc[Worker].pc = "wait" /\ wake
  /\ wake' = FALSE
  /\ Goto(Worker, "claim")
  /\ UNCHANGED <<runs, up, ctxDone, caller, boots, faults>>

(* Mutant: a select without the timer.                                     *)
NoTimer == FALSE

PollTimer ==
  /\ proc[Worker].pc = "wait"
  /\ Goto(Worker, "claim")
  /\ UNCHANGED <<runs, up, ctxDone, wake, caller, boots, faults>>

WorkerReturn ==
  /\ proc[Worker].pc = "wait" /\ ctxDone
  /\ Goto(Worker, "exited")
  /\ UNCHANGED <<runs, up, ctxDone, wake, caller, boots, faults>>

-----------------------------------------------------------------------------
(* The end of a run: the handler returns, and finish makes three attempts  *)
(* to record how; after the third the error is only logged.                *)

Outcomes(p) ==
  IF p \in Services THEN {IF ctxDone THEN "stopped" ELSE "failed"}
                    ELSE {"succeeded", "failed"}

HandlerReturns(p) ==
  /\ proc[p].pc = "execute"
  /\ \E s \in Outcomes(p) :
       proc' = [proc EXCEPT ![p].pc = "finish", ![p].result = s]
  /\ UNCHANGED <<runs, up, ctxDone, wake, caller, boots, faults>>

(* The worker loops, a service goroutine is over, Run returns.             *)
AfterFinish(p) ==
  Idle(IF p = Worker THEN "claim" ELSE IF p \in Services THEN "exited" ELSE "off")

FinishWrite(p) ==
  /\ proc[p].pc = "finish"
  /\ SetStatus(proc[p].run, proc[p].result)
  /\ proc' = [proc EXCEPT ![p] = AfterFinish(p)]
  /\ UNCHANGED <<up, ctxDone, wake, caller, boots, faults>>

(* Mutants: no second attempt, or one too many.                            *)
FinishOnce(p) ==
  /\ proc[p].pc = "finish"
  /\ StoreFails
  /\ proc' = [proc EXCEPT ![p] = AfterFinish(p)]
  /\ UNCHANGED <<runs, up, ctxDone, wake, caller, boots>>

FinishFourTimes(p) ==
  /\ proc[p].pc = "finish"
  /\ StoreFails
  /\ proc' = IF proc[p].tries < 3
             THEN [proc EXCEPT ![p].tries = @ + 1]
             ELSE [proc EXCEPT ![p] = AfterFinish(p)]
  /\ UNCHANGED <<runs, up, ctxDone, wake, caller, boots>>

FinishError(p) ==
  /\ proc[p].pc = "finish"
  /\ StoreFails
  /\ proc' = IF proc[p].tries < 2
             THEN [proc EXCEPT ![p].tries = @ + 1]
             ELSE [proc EXCEPT ![p] = AfterFinish(p)]
  /\ UNCHANGED <<runs, up, ctxDone, wake, caller, boots>>

Finish(p) == FinishWrite(p) \/ FinishError(p)

-----------------------------------------------------------------------------
WorkerStep ==
  \/ ClaimSelect \/ ClaimUpdate \/ ClaimError
  \/ HandlerReturns(Worker) \/ Finish(Worker)
  \/ WakeUp \/ PollTimer \/ WorkerReturn

Next ==
  \/ Start \/ Shutdown \/ Exit
  \/ \E c \in Callers : Signal(c) \/ \E k \in Keys : Enqueue(c, k)
  \/ \E s \in Services : StartService(s)
  \/ \E d \in Direct, k \in Keys : RunNow(d, k)
  \/ WorkerStep
  \/ \E p \in Services \cup Direct : HandlerReturns(p) \/ Finish(p)

Spec == Init /\ [][Next]_vars

(* What the Go scheduler gives the worker while the process lives: it is   *)
(* not stopped for ever, and a handler that was called returns.            *)
FairSpec == Spec /\ WF_vars(WorkerStep)

-----------------------------------------------------------------------------
TypeOK ==
  /\ runs \in Seq(Row) /\ Len(runs) <= MaxRuns
  /\ up \in BOOLEAN /\ ctxDone \in BOOLEAN /\ wake \in BOOLEAN
  /\ caller \in [Callers -> {"idle", "signal"}]
  /\ proc \in [Procs -> Proc]
  /\ boots \in 0 .. MaxBoots /\ faults \in 0 .. MaxFaults

Enqueued(i) == runs[i].origin = "enqueue"

(* Of one key at most one enqueued run is queued or running, whatever      *)
(* requests, restarts and failed completions interleave: the "only one     *)
(* scan can be queued or running" of the user guide, for Enqueue.          *)
OneActivePerKey ==
  \A i, j \in RowIds :
    (Enqueued(i) /\ Enqueued(j) /\ runs[i].key = runs[j].key
       /\ IsActive(i) /\ IsActive(j)) => i = j

Owns(p, i) == proc[p].run = i /\ proc[p].pc \in {"execute", "finish"}

(* A running row whose goroutine is gone exists only when the process has  *)
(* died, or after three failed attempts of finish: nothing else leaves a   *)
(* row that makes Enqueue refuse its key until the next start.             *)
RunningIsOwned ==
  up => \A i \in RowIds :
          runs[i].status = "running" => (\E p \in Procs : Owns(p, i)) \/ faults >= 3

(* What a goroutine is executing is the row that says so, and no row is    *)
(* executed by two goroutines at once.                                     *)
ExecutionIsRecorded ==
  /\ \A p \in Procs : proc[p].pc \in {"execute", "finish"} =>
       proc[p].run \in RowIds /\ runs[proc[p].run].status = "running"
  /\ \A p, q \in Procs, i \in RowIds : Owns(p, i) /\ Owns(q, i) => p = q

(* Jobs start in the order they were queued: while the worker executes a   *)
(* row, no row queued before it is still waiting.                          *)
FirstQueuedFirstRun ==
  proc[Worker].pc \in {"mark", "execute", "finish"} =>
    \A i \in QueuedRows : proc[Worker].run <= i

(* The worker sleeps on a queued row only when a token is or will be in    *)
(* the channel, or when its own last claim failed: the one-second poll is  *)
(* needed after a store error and never to repair a lost wake-up.          *)
NoLostWakeup ==
  (proc[Worker].pc = "wait" /\ QueuedRows # {}) =>
    wake \/ proc[Worker].result = "error" \/ \E c \in Callers : caller[c] = "signal"

(* A recorded outcome is final: neither a late finish nor the recovery at  *)
(* the next start rewrites it, and no run goes back to an earlier status.  *)
RowsAdvance ==
  \A i \in RowIds :
    /\ i \in 1 .. Len(runs')
    /\ runs[i].status \in Terminal => runs'[i] = runs[i]
    /\ runs[i].status = "running" => runs'[i].status # "queued"

OutcomeIsFinal == [][RowsAdvance]_vars

(* A queued run is started, or the process is asked to stop or stops.      *)
QueuedIsStarted ==
  \A i \in 1 .. MaxRuns :
    (i \in RowIds /\ i \in QueuedRows) ~>
      (~up \/ ctxDone \/ ~(i \in RowIds /\ i \in QueuedRows))

-----------------------------------------------------------------------------
(* The worker seen from outside: the requests it has accepted and not yet  *)
(* started, and the one it is executing.                                   *)

AsRequest(i) == <<i, runs[i].key>>
Pending      == {AsRequest(i) : i \in QueuedRows}
Current      == {AsRequest(i) : i \in {j \in RowIds : Owns(Worker, j)}}

Abstract == INSTANCE JobQueue WITH Tickets <- 1 .. MaxRuns,
                                   pending <- Pending, current <- Current

(* Through crashes, restarts, store errors and duplicate requests, the     *)
(* worker behaves as the abstract job queue: one job at a time, in the     *)
(* order asked for, each accepted request at most once.                    *)
ImplementsJobQueue == Abstract!Spec
=============================================================================
