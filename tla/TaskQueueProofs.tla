-------------------------- MODULE TaskQueueProofs --------------------------
(***************************************************************************)
(* Proofs about TaskQueue for every set of keys, services, callers and     *)
(* direct callers, and every bound.                                        *)
(***************************************************************************)
EXTENDS TaskQueue, TLAPS

(* What a goroutine's program counter says of the row it owns.  A claim    *)
(* that was read stays good until its UPDATE, because nothing but the      *)
(* worker or a start of the program moves a queued row.                    *)
OwnerOK(p) ==
  /\ proc[p].pc = "mark" => p = Worker /\ proc[p].run \in QueuedRows
  /\ proc[p].pc \in {"execute", "finish"} =>
       proc[p].run \in RowIds /\ runs[proc[p].run].status = "running"
  /\ proc[p].pc = "finish" => proc[p].result \in Terminal
  /\ ~up => proc[p].pc = "off"

Owners == \A p \in Procs : OwnerOK(p)

SoleOwner ==
  \A p, q \in Procs, i \in RowIds : Owns(p, i) /\ Owns(q, i) => p = q

(* The inductive invariant: the types, who owns what, and the two          *)
(* properties that the runs check.                                         *)
IInv == TypeOK /\ Owners /\ SoleOwner /\ OneActivePerKey /\ FirstQueuedFirstRun

-----------------------------------------------------------------------------
(* Each action as it acts on the rows and on the goroutines, with what it  *)
(* leaves alone spelled out.                                               *)

LEMMA InsertRow ==
  ASSUME TypeOK, NEW k \in Keys \cup Services,
         NEW o \in {"enqueue", "run", "service"}, NEW s \in Status,
         Insert(k, o, s)
  PROVE  /\ Len(runs') = Len(runs) + 1 /\ Len(runs') <= MaxRuns
         /\ runs' \in Seq(Row)
         /\ \A i \in RowIds : runs'[i] = runs[i]
         /\ runs'[Len(runs) + 1] = [key |-> k, origin |-> o, status |-> s]
  BY BoundAssumption DEF TypeOK, Insert, Row, RowIds

LEMMA WriteStatus ==
  ASSUME TypeOK, NEW i \in RowIds, NEW s \in Status, SetStatus(i, s)
  PROVE  /\ Len(runs') = Len(runs) /\ runs' \in Seq(Row)
         /\ runs'[i].status = s
         /\ runs'[i].key = runs[i].key /\ runs'[i].origin = runs[i].origin
         /\ \A j \in RowIds \ {i} : runs'[j] = runs[j]
  <1>1. runs \in [RowIds -> Row] /\ runs \in Seq(Row)
    BY DEF TypeOK, RowIds
  <1>2. runs[i] \in Row
    BY <1>1
  <1>3. [runs[i] EXCEPT !.status = s] \in Row
    BY <1>2 DEF Row
  <1>4. runs' = [runs EXCEPT ![i] = [runs[i] EXCEPT !.status = s]]
    BY DEF SetStatus
  <1>5. runs' \in Seq(Row) /\ Len(runs') = Len(runs)
    BY <1>1, <1>3, <1>4 DEF RowIds
  <1>6. runs'[i] = [runs[i] EXCEPT !.status = s]
    BY <1>1, <1>4
  <1>7. \A j \in RowIds \ {i} : runs'[j] = runs[j]
    BY <1>1, <1>4
  <1>8. runs'[i].status = s /\ runs'[i].key = runs[i].key /\ runs'[i].origin = runs[i].origin
    BY <1>2, <1>6 DEF Row
  <1> QED BY <1>5, <1>7, <1>8

LEMMA RecoverRows ==
  ASSUME TypeOK, RecoverInterrupted
  PROVE  /\ Len(runs') = Len(runs) /\ runs' \in Seq(Row)
         /\ \A i \in RowIds : /\ runs'[i].status \in Terminal
                              /\ runs'[i].key = runs[i].key
                              /\ runs'[i].origin = runs[i].origin
  <1>1. \A i \in RowIds : runs[i] \in Row
    BY DEF TypeOK, RowIds
  <1>2. \A i \in RowIds : runs'[i] \in Row /\ runs'[i].status \in Terminal
          /\ runs'[i].key = runs[i].key /\ runs'[i].origin = runs[i].origin
    BY <1>1 DEF RecoverInterrupted, IsActive, Row, Status, Active, Terminal
  <1>3. runs' \in Seq(Row) /\ Len(runs') = Len(runs)
    BY <1>2 DEF RecoverInterrupted, RowIds, TypeOK
  <1> QED BY <1>2, <1>3

LEMMA MoveTo ==
  ASSUME TypeOK, NEW p \in Procs, NEW pc \in PC, Goto(p, pc)
  PROVE  /\ proc' \in [Procs -> Proc]
         /\ proc'[p].pc = pc
         /\ proc'[p].run = proc[p].run /\ proc'[p].result = proc[p].result
         /\ \A q \in Procs \ {p} : proc'[q] = proc[q]
  <1>1. proc[p] \in Proc
    BY DEF TypeOK
  <1>2. proc' = [proc EXCEPT ![p] = [proc[p] EXCEPT !.pc = pc]]
    BY DEF Goto
  <1>3. [proc[p] EXCEPT !.pc = pc] \in Proc
    BY <1>1 DEF Proc
  <1>4. proc' \in [Procs -> Proc] /\ \A q \in Procs \ {p} : proc'[q] = proc[q]
    BY <1>2, <1>3 DEF TypeOK
  <1>5. proc'[p] = [proc[p] EXCEPT !.pc = pc]
    BY <1>2 DEF TypeOK
  <1> QED BY <1>1, <1>4, <1>5 DEF Proc

LEMMA Replace ==
  ASSUME TypeOK, NEW p \in Procs, NEW r \in Proc,
         proc' = [proc EXCEPT ![p] = r]
  PROVE  /\ proc' \in [Procs -> Proc]
         /\ proc'[p] = r
         /\ \A q \in Procs \ {p} : proc'[q] = proc[q]
  BY DEF TypeOK

LEMMA IdleIsProc ==
  ASSUME NEW pc \in PC
  PROVE  Idle(pc) \in Proc /\ Idle(pc).pc = pc /\ Idle(pc).run = 0
  BY BoundAssumption DEF Idle, Proc

(* The properties of the rows mention the goroutines only through the row  *)
(* each one owns; a step that moves none of these keeps them.              *)
LEMMA RowsUnchanged ==
  ASSUME IInv, UNCHANGED runs
  PROVE  OneActivePerKey'
  BY DEF IInv, OneActivePerKey, RowIds, Enqueued, IsActive

-----------------------------------------------------------------------------
LEMMA InitIInv == Init => IInv
  <1> SUFFICES ASSUME Init PROVE IInv
    OBVIOUS
  <1>1. \A p \in Procs : proc[p] = Idle("off")
    BY DEF Init
  <1>2. TypeOK
    <2>1. Idle("off") \in Proc
      BY IdleIsProc DEF PC
    <2>2. runs \in Seq(Row) /\ Len(runs) <= MaxRuns /\ boots \in 0 .. MaxBoots /\ faults \in 0 .. MaxFaults
      BY BoundAssumption DEF Init
    <2>3. up \in BOOLEAN /\ ctxDone \in BOOLEAN /\ wake \in BOOLEAN
      BY DEF Init
    <2>4. caller \in [Callers -> {"idle", "signal"}] /\ proc \in [Procs -> Proc]
      BY <2>1 DEF Init
    <2> QED BY <2>2, <2>3, <2>4 DEF TypeOK
  <1>3. Owners /\ SoleOwner /\ FirstQueuedFirstRun
    BY <1>1, IdleIsProc DEF Owners, OwnerOK, SoleOwner, Owns, FirstQueuedFirstRun, PC, Procs
  <1>4. OneActivePerKey
    BY DEF Init, OneActivePerKey, RowIds
  <1> QED BY <1>2, <1>3, <1>4 DEF IInv

LEMMA StartStep == IInv /\ Start => IInv'
  <1> SUFFICES ASSUME IInv, Start PROVE IInv'
    OBVIOUS
  <1>1. TypeOK /\ Worker \in Procs
    BY DEF IInv, Procs
  <1>2. /\ Len(runs') = Len(runs) /\ runs' \in Seq(Row)
        /\ \A i \in RowIds : runs'[i].status \in Terminal
    BY <1>1, RecoverRows DEF Start
  <1>3. /\ proc' \in [Procs -> Proc] /\ proc'[Worker].pc = "claim"
        /\ \A q \in Procs \ {Worker} : proc'[q] = proc[q]
    BY <1>1, MoveTo DEF Start, PC
  <1>4. \A q \in Procs : proc'[q].pc \in {"claim", "off"}
    BY <1>3 DEF IInv, Owners, OwnerOK, Start
  <1>5. TypeOK'
    <2>1. Len(runs') <= MaxRuns /\ boots' \in 0 .. MaxBoots /\ faults' \in 0 .. MaxFaults
      BY <1>1, <1>2, BoundAssumption DEF TypeOK, Start
    <2>2. up' \in BOOLEAN /\ ctxDone' \in BOOLEAN /\ wake' \in BOOLEAN
      BY <1>1 DEF TypeOK, Start
    <2>3. caller' \in [Callers -> {"idle", "signal"}]
      BY <1>1 DEF TypeOK, Start
    <2> QED BY <1>2, <1>3, <2>1, <2>2, <2>3 DEF TypeOK
  <1>6. Owners' /\ SoleOwner'
    BY <1>4 DEF Owners, OwnerOK, SoleOwner, Owns, Start
  <1>7. OneActivePerKey'
    BY <1>2 DEF OneActivePerKey, RowIds, IsActive, Active, Terminal
  <1>8. FirstQueuedFirstRun'
    BY <1>3 DEF FirstQueuedFirstRun
  <1> QED BY <1>5, <1>6, <1>7, <1>8 DEF IInv

LEMMA ExitStep == IInv /\ Exit => IInv'
  <1> SUFFICES ASSUME IInv, Exit PROVE IInv'
    OBVIOUS
  <1>1. Idle("off") \in Proc /\ Idle("off").pc = "off"
    BY IdleIsProc DEF PC
  <1>2. \A q \in Procs : proc'[q].pc = "off"
    BY <1>1 DEF Exit
  <1>3. TypeOK'
    BY <1>1 DEF IInv, TypeOK, Exit
  <1>4. Owners' /\ SoleOwner' /\ FirstQueuedFirstRun'
    BY <1>2 DEF Owners, OwnerOK, SoleOwner, Owns, FirstQueuedFirstRun, Procs
  <1>5. OneActivePerKey'
    BY RowsUnchanged DEF Exit
  <1> QED BY <1>3, <1>4, <1>5 DEF IInv

LEMMA EnqueueStep ==
  ASSUME IInv, NEW c \in Callers, NEW k \in Keys, Enqueue(c, k)
  PROVE  IInv'
  <1>1. TypeOK
    BY DEF IInv
  <1>2. /\ Len(runs') = Len(runs) + 1 /\ Len(runs') <= MaxRuns
        /\ runs' \in Seq(Row)
        /\ \A i \in RowIds : runs'[i] = runs[i]
        /\ runs'[Len(runs) + 1] = [key |-> k, origin |-> "enqueue", status |-> "queued"]
    BY <1>1, InsertRow DEF Enqueue, Status, Active
  <1>3. RowIds' = RowIds \cup {Len(runs) + 1} /\ Len(runs) \in Nat /\ RowIds \subseteq Nat
    BY <1>1, <1>2 DEF RowIds, TypeOK
  <1>4. TypeOK'
    BY <1>1, <1>2 DEF TypeOK, Enqueue
  <1>5. QueuedRows' = QueuedRows \cup {Len(runs) + 1}
    BY <1>2, <1>3 DEF QueuedRows
  <1>6. Owners'
    BY <1>2, <1>3, <1>5 DEF IInv, Owners, OwnerOK, Enqueue
  <1>7. SoleOwner'
    <2> SUFFICES ASSUME NEW p \in Procs, NEW q \in Procs, NEW i \in RowIds',
                        Owns(p, i)', Owns(q, i)'
                 PROVE  p = q
      BY DEF SoleOwner
    <2>1. Owns(p, i) /\ Owns(q, i) /\ i \in RowIds
      BY DEF Owns, Enqueue, IInv, Owners, OwnerOK
    <2> QED BY <2>1 DEF IInv, SoleOwner
  <1>8. OneActivePerKey'
    BY <1>2, <1>3 DEF IInv, OneActivePerKey, Enqueue, ActiveRows, IsActive, Enqueued, RowIds
  <1>9. FirstQueuedFirstRun'
    <2>1. proc[Worker].pc \in {"mark", "execute", "finish"} => proc[Worker].run \in RowIds
      BY DEF IInv, Owners, OwnerOK, QueuedRows, Procs
    <2>2. proc[Worker].pc \in {"mark", "execute", "finish"} => proc[Worker].run <= Len(runs) + 1
      BY <2>1, <1>3 DEF RowIds
    <2> QED BY <1>5, <2>2 DEF IInv, FirstQueuedFirstRun, Enqueue
  <1> QED BY <1>4, <1>6, <1>7, <1>8, <1>9 DEF IInv

(* A step of one goroutine that writes no row keeps the invariant when the *)
(* goroutine comes to own no row it did not own, and its new control state *)
(* agrees with the rows.                                                   *)
LEMMA QuietStep ==
  ASSUME IInv, UNCHANGED <<runs, up>>, TypeOK', NEW p \in Procs,
         \A q \in Procs \ {p} : proc'[q] = proc[q],
         OwnerOK(p)',
         \A i \in RowIds : Owns(p, i)' => Owns(p, i),
         (p = Worker /\ proc'[p].pc \in {"mark", "execute", "finish"}) =>
            \A i \in QueuedRows : proc'[p].run <= i
  PROVE  IInv'
  <1>1. RowIds' = RowIds /\ QueuedRows' = QueuedRows
    BY DEF RowIds, QueuedRows
  <1>2. Owners'
    <2> SUFFICES ASSUME NEW q \in Procs PROVE OwnerOK(q)'
      BY DEF Owners
    <2>1. CASE q = p
      BY <2>1
    <2>2. CASE q # p
      BY <2>2, <1>1 DEF IInv, Owners, OwnerOK
    <2> QED BY <2>1, <2>2
  <1>3. \A q \in Procs, i \in RowIds : Owns(q, i)' => Owns(q, i)
    BY DEF Owns
  <1>4. SoleOwner'
    BY <1>1, <1>3 DEF IInv, SoleOwner
  <1>5. OneActivePerKey'
    BY RowsUnchanged
  <1>6. FirstQueuedFirstRun'
    BY <1>1 DEF IInv, FirstQueuedFirstRun, Procs
  <1> QED BY <1>2, <1>4, <1>5, <1>6 DEF IInv

LEMMA SignalStep ==
  ASSUME IInv, UNCHANGED <<runs, up, proc>>, TypeOK'
  PROVE  IInv'
  <1>1. Worker \in Procs /\ OwnerOK(Worker)'
    BY DEF IInv, Owners, OwnerOK, Procs, QueuedRows, RowIds
  <1>2. \A i \in RowIds : Owns(Worker, i)' => Owns(Worker, i)
    BY DEF Owns
  <1>3. proc'[Worker].pc \in {"mark", "execute", "finish"} =>
          \A i \in QueuedRows : proc'[Worker].run <= i
    BY DEF IInv, FirstQueuedFirstRun
  <1> QED BY <1>1, <1>2, <1>3, QuietStep

(* The types of a step that changes at most the goroutines, the token and  *)
(* the count of faults.                                                    *)
LEMMA TypeOfQuietStep ==
  ASSUME TypeOK, UNCHANGED <<runs, up, ctxDone, caller, boots>>,
         proc' \in [Procs -> Proc], wake' \in BOOLEAN,
         UNCHANGED faults \/ StoreFails
  PROVE  TypeOK'
  <1>1. faults' \in 0 .. MaxFaults
    BY BoundAssumption DEF TypeOK, StoreFails
  <1> QED BY <1>1 DEF TypeOK

(* The worker moves to a control state in which it owns nothing.           *)
LEMMA WorkerLetsGo ==
  ASSUME IInv, UNCHANGED <<runs, up>>, TypeOK', up,
         \A q \in Procs \ {Worker} : proc'[q] = proc[q],
         proc'[Worker].pc \in {"claim", "wait", "exited"}
  PROVE  IInv'
  <1>1. Worker \in Procs /\ OwnerOK(Worker)'
    BY DEF OwnerOK, Procs
  <1>2. \A i \in RowIds : ~ Owns(Worker, i)'
    BY DEF Owns
  <1> QED BY <1>1, <1>2, QuietStep

LEMMA ClaimSelectStep == IInv /\ ClaimSelect => IInv'
  <1> SUFFICES ASSUME IInv, ClaimSelect PROVE IInv'
    OBVIOUS
  <1>1. TypeOK /\ Worker \in Procs /\ up
    BY DEF IInv, Procs, Owners, OwnerOK, ClaimSelect
  <1>2. CASE QueuedRows = {}
    <2>1. Idle("wait") \in Proc /\ Idle("wait").pc = "wait"
      BY IdleIsProc DEF PC
    <2>2. /\ proc' \in [Procs -> Proc] /\ proc'[Worker].pc = "wait"
          /\ \A q \in Procs \ {Worker} : proc'[q] = proc[q]
      BY <1>1, <1>2, <2>1, Replace DEF ClaimSelect
    <2>3. TypeOK'
      BY <1>1, <2>2, TypeOfQuietStep DEF ClaimSelect, TypeOK
    <2> QED BY <1>1, <2>2, <2>3, WorkerLetsGo DEF ClaimSelect
  <1>3. CASE QueuedRows # {}
    <2>1. PICK i \in QueuedRows :
            /\ Oldest(i)
            /\ proc' = [proc EXCEPT ![Worker] = [Idle("mark") EXCEPT !.run = i]]
      BY <1>3 DEF ClaimSelect
    <2>2. i \in RowIds /\ i \in 0 .. MaxRuns
      BY <1>1, BoundAssumption DEF QueuedRows, RowIds, TypeOK
    <2>3. /\ [Idle("mark") EXCEPT !.run = i] \in Proc
          /\ [Idle("mark") EXCEPT !.run = i].pc = "mark"
          /\ [Idle("mark") EXCEPT !.run = i].run = i
      BY <2>2 DEF Idle, Proc, PC
    <2>4. /\ proc' \in [Procs -> Proc]
          /\ proc'[Worker].pc = "mark" /\ proc'[Worker].run = i
          /\ \A q \in Procs \ {Worker} : proc'[q] = proc[q]
      BY <1>1, <2>1, <2>3, Replace
    <2>5. TypeOK'
      BY <1>1, <2>4, TypeOfQuietStep DEF ClaimSelect, TypeOK
    <2>6. OwnerOK(Worker)'
      BY <1>1, <2>4, <2>1 DEF OwnerOK, ClaimSelect, QueuedRows, RowIds
    <2>7. \A j \in RowIds : ~ Owns(Worker, j)'
      BY <2>4 DEF Owns
    <2>8. \A j \in QueuedRows : proc'[Worker].run <= j
      BY <2>1, <2>4 DEF Oldest
    <2> QED BY <1>1, <2>4, <2>5, <2>6, <2>7, <2>8, QuietStep DEF ClaimSelect
  <1> QED BY <1>2, <1>3

LEMMA ClaimErrorStep == IInv /\ ClaimError => IInv'
  <1> SUFFICES ASSUME IInv, ClaimError PROVE IInv'
    OBVIOUS
  <1>1. TypeOK /\ Worker \in Procs /\ up
    BY DEF IInv, Procs, Owners, OwnerOK, ClaimError
  <1>2. /\ [Idle("wait") EXCEPT !.result = "error"] \in Proc
        /\ [Idle("wait") EXCEPT !.result = "error"].pc = "wait"
    BY BoundAssumption DEF Idle, Proc, PC
  <1>3. /\ proc' \in [Procs -> Proc] /\ proc'[Worker].pc = "wait"
        /\ \A q \in Procs \ {Worker} : proc'[q] = proc[q]
    BY <1>1, <1>2, Replace DEF ClaimError
  <1>4. TypeOK'
    BY <1>1, <1>3, TypeOfQuietStep DEF ClaimError, TypeOK
  <1> QED BY <1>1, <1>3, <1>4, WorkerLetsGo DEF ClaimError

LEMMA LeaveWaitStep == IInv /\ (WakeUp \/ PollTimer \/ WorkerReturn) => IInv'
  <1> SUFFICES ASSUME IInv, WakeUp \/ PollTimer \/ WorkerReturn PROVE IInv'
    OBVIOUS
  <1>1. TypeOK /\ Worker \in Procs /\ up
    BY DEF IInv, Procs, Owners, OwnerOK, WakeUp, PollTimer, WorkerReturn
  <1>2. \E pc \in {"claim", "exited"} : Goto(Worker, pc)
    BY DEF WakeUp, PollTimer, WorkerReturn
  <1>3. /\ proc' \in [Procs -> Proc] /\ proc'[Worker].pc \in {"claim", "exited"}
        /\ \A q \in Procs \ {Worker} : proc'[q] = proc[q]
    BY <1>1, <1>2, MoveTo DEF PC
  <1>4. wake' \in BOOLEAN
    BY <1>1 DEF TypeOK, WakeUp, PollTimer, WorkerReturn
  <1>5. TypeOK'
    BY <1>1, <1>3, <1>4, TypeOfQuietStep DEF WakeUp, PollTimer, WorkerReturn
  <1> QED BY <1>1, <1>3, <1>5, WorkerLetsGo DEF WakeUp, PollTimer, WorkerReturn

LEMMA BeginStep ==
  ASSUME IInv, NEW p \in Services \cup Direct, NEW k \in Keys \cup Services,
         NEW o \in {"run", "service"}, Begin(p, k, o)
  PROVE  IInv'
  <1>1. TypeOK /\ p \in Procs /\ p # Worker
    BY ProcAssumption DEF IInv, Procs
  <1>2. /\ Len(runs') = Len(runs) + 1 /\ Len(runs') <= MaxRuns
        /\ runs' \in Seq(Row)
        /\ \A i \in RowIds : runs'[i] = runs[i]
        /\ runs'[Len(runs) + 1] = [key |-> k, origin |-> o, status |-> "running"]
    BY <1>1, InsertRow DEF Begin, Status, Active
  <1>3. /\ RowIds' = RowIds \cup {Len(runs) + 1} /\ Len(runs) \in Nat
        /\ RowIds \subseteq Nat /\ Len(runs) + 1 \notin RowIds
    BY <1>1, <1>2 DEF RowIds, TypeOK
  <1>4. /\ [Idle("execute") EXCEPT !.run = Len(runs) + 1] \in Proc
        /\ [Idle("execute") EXCEPT !.run = Len(runs) + 1].pc = "execute"
        /\ [Idle("execute") EXCEPT !.run = Len(runs) + 1].run = Len(runs) + 1
    BY <1>2, <1>3, BoundAssumption DEF Idle, Proc, PC
  <1>5. /\ proc' \in [Procs -> Proc]
        /\ proc'[p].pc = "execute" /\ proc'[p].run = Len(runs) + 1
        /\ \A q \in Procs \ {p} : proc'[q] = proc[q]
    BY <1>1, <1>4, Replace DEF Begin
  <1>6. TypeOK'
    BY <1>1, <1>2, <1>5 DEF TypeOK, Begin
  <1>7. QueuedRows' = QueuedRows
    <2>1. runs'[Len(runs) + 1].status = "running"
      BY <1>2
    <2> QED BY <2>1, <1>2, <1>3 DEF QueuedRows
  <1>8. Owners'
    <2> SUFFICES ASSUME NEW q \in Procs PROVE OwnerOK(q)'
      BY DEF Owners
    <2>1. CASE q = p
      BY <2>1, <1>2, <1>3, <1>5 DEF OwnerOK, Begin
    <2>2. CASE q # p
      BY <2>2, <1>2, <1>3, <1>5, <1>7 DEF IInv, Owners, OwnerOK, Begin
    <2> QED BY <2>1, <2>2
  <1>9. SoleOwner'
    <2> SUFFICES ASSUME NEW q \in Procs, NEW r \in Procs, NEW i \in RowIds',
                        Owns(q, i)', Owns(r, i)'
                 PROVE  q = r
      BY DEF SoleOwner
    <2>1. \A x \in Procs : x # p /\ Owns(x, i)' => Owns(x, i) /\ i \in RowIds
      BY <1>5 DEF Owns, IInv, Owners, OwnerOK
    <2>2. Owns(p, i)' => i = Len(runs) + 1
      BY <1>5 DEF Owns
    <2> QED BY <2>1, <2>2, <1>3 DEF IInv, SoleOwner
  <1>10. OneActivePerKey'
    BY <1>2, <1>3 DEF IInv, OneActivePerKey, IsActive, Enqueued
  <1>11. FirstQueuedFirstRun'
    BY <1>1, <1>5, <1>7 DEF IInv, FirstQueuedFirstRun, Procs
  <1> QED BY <1>6, <1>8, <1>9, <1>10, <1>11 DEF IInv

LEMMA ClaimUpdateStep == IInv /\ ClaimUpdate => IInv'
  <1> SUFFICES ASSUME IInv, ClaimUpdate PROVE IInv'
    OBVIOUS
  <1>1. TypeOK /\ Worker \in Procs /\ up
    BY DEF IInv, Procs, Owners, OwnerOK, ClaimUpdate
  <1>2. PICK i \in RowIds : i = proc[Worker].run /\ i \in QueuedRows /\ runs[i].status = "queued"
    BY <1>1 DEF IInv, Owners, OwnerOK, ClaimUpdate, QueuedRows
  <1>3. SetStatus(i, "running") /\ Goto(Worker, "execute")
    BY <1>2 DEF ClaimUpdate
  <1>4. /\ Len(runs') = Len(runs) /\ runs' \in Seq(Row)
        /\ runs'[i].status = "running"
        /\ runs'[i].key = runs[i].key /\ runs'[i].origin = runs[i].origin
        /\ \A j \in RowIds \ {i} : runs'[j] = runs[j]
    BY <1>1, <1>2, <1>3, WriteStatus DEF Status, Active
  <1>5. /\ proc' \in [Procs -> Proc]
        /\ proc'[Worker].pc = "execute" /\ proc'[Worker].run = i
        /\ \A q \in Procs \ {Worker} : proc'[q] = proc[q]
    BY <1>1, <1>2, <1>3, MoveTo DEF PC
  <1>6. TypeOK'
    BY <1>1, <1>2, <1>4, <1>5 DEF TypeOK, ClaimUpdate
  <1>7. RowIds' = RowIds /\ QueuedRows' = QueuedRows \ {i}
    BY <1>2, <1>4 DEF RowIds, QueuedRows
  <1>8. Owners'
    <2> SUFFICES ASSUME NEW q \in Procs PROVE OwnerOK(q)'
      BY DEF Owners
    <2>1. CASE q = Worker
      BY <2>1, <1>1, <1>2, <1>4, <1>5, <1>7 DEF OwnerOK, ClaimUpdate
    <2>2. CASE q # Worker
      BY <2>2, <1>1, <1>2, <1>4, <1>5, <1>7 DEF IInv, Owners, OwnerOK, ClaimUpdate
    <2> QED BY <2>1, <2>2
  <1>9. SoleOwner'
    <2>1. \A q \in Procs : ~ Owns(q, i)
      BY <1>2 DEF Owns, IInv, Owners, OwnerOK
    <2>2. \A q \in Procs, j \in RowIds : Owns(q, j)' => Owns(q, j) \/ (q = Worker /\ j = i)
      BY <1>5 DEF Owns
    <2>3. \A q \in Procs : Owns(q, i)' => q = Worker
      BY <2>1, <1>2, <2>2
    <2> QED BY <2>2, <2>3, <1>7 DEF IInv, SoleOwner
  <1>10. OneActivePerKey'
    <2>1. \A j \in RowIds : /\ IsActive(j)' => IsActive(j)
                             /\ runs'[j].key = runs[j].key
                             /\ runs'[j].origin = runs[j].origin
      BY <1>2, <1>4 DEF IsActive, Active
    <2> QED BY <2>1, <1>7 DEF IInv, OneActivePerKey, Enqueued
  <1>11. FirstQueuedFirstRun'
    BY <1>2, <1>5, <1>7 DEF IInv, FirstQueuedFirstRun, ClaimUpdate
  <1> QED BY <1>6, <1>8, <1>9, <1>10, <1>11 DEF IInv

LEMMA HandlerReturnsStep ==
  ASSUME IInv, NEW p \in Procs, HandlerReturns(p)
  PROVE  IInv'
  <1>1. TypeOK /\ up /\ proc[p] \in Proc
    BY DEF IInv, Owners, OwnerOK, HandlerReturns, TypeOK
  <1>2. PICK s \in Outcomes(p) :
          proc' = [proc EXCEPT ![p].pc = "finish", ![p].result = s]
    BY DEF HandlerReturns
  <1>3. s \in Terminal
    BY <1>2 DEF Outcomes, Terminal
  <1>4. /\ proc'[p] = [proc[p] EXCEPT !.pc = "finish", !.result = s]
        /\ \A q \in Procs \ {p} : proc'[q] = proc[q]
        /\ proc' \in [Procs -> Proc]
    <2>1. [proc[p] EXCEPT !.pc = "finish", !.result = s] \in Proc
      BY <1>1, <1>3 DEF Proc, PC
    <2>2. proc' = [proc EXCEPT ![p] = [proc[p] EXCEPT !.pc = "finish", !.result = s]]
      BY <1>1, <1>2 DEF TypeOK
    <2> QED BY <1>1, <2>1, <2>2, Replace
  <1>5. proc'[p].pc = "finish" /\ proc'[p].run = proc[p].run /\ proc'[p].result = s
    BY <1>1, <1>4 DEF Proc
  <1>6. TypeOK'
    BY <1>1, <1>4, TypeOfQuietStep DEF HandlerReturns, TypeOK
  <1>7. OwnerOK(p)'
    BY <1>1, <1>3, <1>5 DEF IInv, Owners, OwnerOK, HandlerReturns, RowIds, QueuedRows
  <1>8. \A i \in RowIds : Owns(p, i)' => Owns(p, i)
    BY <1>5 DEF Owns, HandlerReturns
  <1>9. p = Worker => \A i \in QueuedRows : proc'[p].run <= i
    BY <1>5 DEF IInv, FirstQueuedFirstRun, HandlerReturns
  <1> QED BY <1>4, <1>6, <1>7, <1>8, <1>9, QuietStep DEF HandlerReturns

LEMMA AfterFinishIsProc ==
  ASSUME NEW p \in Procs
  PROVE  AfterFinish(p) \in Proc /\ AfterFinish(p).pc \in {"claim", "exited", "off"}
  <1>1. \A pc \in {"claim", "exited", "off"} : Idle(pc) \in Proc /\ Idle(pc).pc = pc
    BY IdleIsProc DEF PC
  <1> QED BY <1>1 DEF AfterFinish

LEMMA FinishWriteStep ==
  ASSUME IInv, NEW p \in Procs, FinishWrite(p)
  PROVE  IInv'
  <1> DEFINE i == proc[p].run
  <1>1. TypeOK /\ up /\ i \in RowIds /\ runs[i].status = "running"
        /\ proc[p].result \in Terminal
    BY DEF IInv, Owners, OwnerOK, FinishWrite
  <1>2. /\ Len(runs') = Len(runs) /\ runs' \in Seq(Row)
        /\ runs'[i].status \in Terminal
        /\ runs'[i].key = runs[i].key /\ runs'[i].origin = runs[i].origin
        /\ \A j \in RowIds \ {i} : runs'[j] = runs[j]
    BY <1>1, WriteStatus DEF FinishWrite, Status
  <1>3. AfterFinish(p) \in Proc /\ AfterFinish(p).pc \in {"claim", "exited", "off"}
    BY AfterFinishIsProc
  <1>4. /\ proc' \in [Procs -> Proc]
        /\ proc'[p].pc \in {"claim", "exited", "off"}
        /\ \A q \in Procs \ {p} : proc'[q] = proc[q]
    BY <1>1, <1>3, Replace DEF FinishWrite
  <1>5. TypeOK'
    BY <1>1, <1>2, <1>4 DEF TypeOK, FinishWrite
  <1>6. RowIds' = RowIds /\ QueuedRows' = QueuedRows
    BY <1>1, <1>2 DEF RowIds, QueuedRows, Terminal
  <1>7. Owners'
    <2> SUFFICES ASSUME NEW q \in Procs PROVE OwnerOK(q)'
      BY DEF Owners
    <2>1. CASE q = p
      BY <2>1, <1>1, <1>4 DEF OwnerOK, FinishWrite
    <2>2. CASE q # p
      <3>1. proc[q].pc \in {"execute", "finish"} => proc[q].run # i
        BY <2>2, <1>1 DEF IInv, SoleOwner, Owns, FinishWrite
      <3> QED BY <2>2, <3>1, <1>1, <1>2, <1>4, <1>6 DEF IInv, Owners, OwnerOK, FinishWrite
    <2> QED BY <2>1, <2>2
  <1>8. SoleOwner'
    <2>1. \A q \in Procs, j \in RowIds : Owns(q, j)' => Owns(q, j)
      BY <1>4 DEF Owns
    <2> QED BY <2>1, <1>6 DEF IInv, SoleOwner
  <1>9. OneActivePerKey'
    <2>1. \A j \in RowIds : /\ IsActive(j)' => IsActive(j)
                             /\ runs'[j].key = runs[j].key
                             /\ runs'[j].origin = runs[j].origin
      BY <1>1, <1>2 DEF IsActive, Active, Terminal
    <2> QED BY <2>1, <1>6 DEF IInv, OneActivePerKey, Enqueued
  <1>10. FirstQueuedFirstRun'
    BY <1>4, <1>6 DEF IInv, FirstQueuedFirstRun, Procs
  <1> QED BY <1>5, <1>7, <1>8, <1>9, <1>10 DEF IInv

LEMMA FinishErrorStep ==
  ASSUME IInv, NEW p \in Procs, FinishError(p)
  PROVE  IInv'
  <1>1. TypeOK /\ up /\ proc[p] \in Proc
    BY DEF IInv, Owners, OwnerOK, FinishError, TypeOK
  <1>2. CASE proc[p].tries < 2
    <2>1. [proc[p] EXCEPT !.tries = @ + 1] \in Proc
      BY <1>1, <1>2 DEF Proc
    <2>2. proc' = [proc EXCEPT ![p] = [proc[p] EXCEPT !.tries = @ + 1]]
      BY <1>2 DEF FinishError
    <2>3. /\ proc' \in [Procs -> Proc]
          /\ proc'[p] = [proc[p] EXCEPT !.tries = @ + 1]
          /\ \A q \in Procs \ {p} : proc'[q] = proc[q]
      BY <1>1, <2>1, <2>2, Replace
    <2>4. /\ proc'[p].pc = proc[p].pc /\ proc'[p].run = proc[p].run
          /\ proc'[p].result = proc[p].result
      BY <1>1, <2>3 DEF Proc
    <2>5. TypeOK'
      BY <1>1, <2>3, TypeOfQuietStep DEF FinishError, TypeOK
    <2>6. OwnerOK(p)'
      BY <2>4 DEF IInv, Owners, OwnerOK, FinishError, RowIds, QueuedRows
    <2>7. \A i \in RowIds : Owns(p, i)' => Owns(p, i)
      BY <2>4 DEF Owns
    <2>8. p = Worker => \A i \in QueuedRows : proc'[p].run <= i
      BY <2>4 DEF IInv, FirstQueuedFirstRun, FinishError
    <2> QED BY <2>3, <2>5, <2>6, <2>7, <2>8, QuietStep DEF FinishError
  <1>3. CASE ~ (proc[p].tries < 2)
    <2>1. AfterFinish(p) \in Proc /\ AfterFinish(p).pc \in {"claim", "exited", "off"}
      BY AfterFinishIsProc
    <2>2. /\ proc' \in [Procs -> Proc]
          /\ proc'[p].pc \in {"claim", "exited", "off"}
          /\ \A q \in Procs \ {p} : proc'[q] = proc[q]
      BY <1>1, <1>3, <2>1, Replace DEF FinishError
    <2>3. TypeOK'
      BY <1>1, <2>2, TypeOfQuietStep DEF FinishError, TypeOK
    <2>4. OwnerOK(p)' /\ \A i \in RowIds : ~ Owns(p, i)'
      BY <1>1, <2>2 DEF OwnerOK, Owns, FinishError
    <2> QED BY <2>2, <2>3, <2>4, QuietStep DEF FinishError
  <1> QED BY <1>2, <1>3

-----------------------------------------------------------------------------
LEMMA StepIInv == IInv /\ [Next]_vars => IInv'
  <1> SUFFICES ASSUME IInv, [Next]_vars PROVE IInv'
    OBVIOUS
  <1>1. CASE Start \/ Exit
    BY <1>1, StartStep, ExitStep
  <1>2. CASE Shutdown
    <2>1. TypeOK'
      BY <1>2 DEF IInv, TypeOK, Shutdown
    <2> QED BY <2>1, <1>2, SignalStep DEF Shutdown
  <1>3. ASSUME NEW c \in Callers, Signal(c) PROVE IInv'
    <2>1. TypeOK'
      BY <1>3 DEF IInv, TypeOK, Signal
    <2> QED BY <2>1, <1>3, SignalStep DEF Signal
  <1>4. ASSUME NEW c \in Callers, NEW k \in Keys, Enqueue(c, k) PROVE IInv'
    BY <1>4, EnqueueStep
  <1>5. ASSUME NEW s \in Services, StartService(s) PROVE IInv'
    BY <1>5, BeginStep DEF StartService
  <1>6. ASSUME NEW d \in Direct, NEW k \in Keys, RunNow(d, k) PROVE IInv'
    BY <1>6, BeginStep DEF RunNow
  <1>7. ASSUME NEW p \in Procs, HandlerReturns(p) \/ Finish(p) PROVE IInv'
    BY <1>7, HandlerReturnsStep, FinishWriteStep, FinishErrorStep DEF Finish
  <1>8. CASE WorkerStep
    <2>1. Worker \in Procs
      BY DEF Procs
    <2> QED BY <1>7, <1>8, <2>1, ClaimSelectStep, ClaimUpdateStep, ClaimErrorStep,
               LeaveWaitStep DEF WorkerStep
  <1>9. CASE UNCHANGED vars
    <2>1. TypeOK'
      BY <1>9 DEF IInv, TypeOK, vars
    <2> QED BY <2>1, <1>9, SignalStep DEF vars
  <1> QED BY <1>1, <1>2, <1>3, <1>4, <1>5, <1>6, <1>7, <1>8, <1>9 DEF Next, Procs

(* The invariant holds in every reachable state.                           *)
THEOREM InvariantHolds == Spec => []IInv
  BY InitIInv, StepIInv, PTL DEF Spec

(* Every state is of its type.                                             *)
THEOREM TypeCorrect == Spec => []TypeOK
  BY InvariantHolds, PTL DEF IInv

(* Of one key at most one enqueued run is queued or running.               *)
THEOREM EnqueueIsExclusive == Spec => []OneActivePerKey
  BY InvariantHolds, PTL DEF IInv

(* The worker never executes a run while an older one is queued.           *)
THEOREM JobsAreFifo == Spec => []FirstQueuedFirstRun
  BY InvariantHolds, PTL DEF IInv

(* A goroutine executes the row that is recorded as running, alone.        *)
THEOREM ExecutionMatchesRows == Spec => []ExecutionIsRecorded
  <1>1. IInv => ExecutionIsRecorded
    BY DEF IInv, Owners, OwnerOK, SoleOwner, ExecutionIsRecorded
  <1> QED BY <1>1, InvariantHolds, PTL

-----------------------------------------------------------------------------
(* No lost wake-up: the token, or a caller on its way to send one, covers  *)
(* every row that was queued after the worker's last look.                 *)
LEMMA StepNoLostWakeup == IInv /\ NoLostWakeup /\ [Next]_vars => NoLostWakeup'
  <1> SUFFICES ASSUME IInv, NoLostWakeup, [Next]_vars PROVE NoLostWakeup'
    OBVIOUS
  <1>1. TypeOK /\ Worker \in Procs
    BY DEF IInv, Procs
  <1>2. CASE Start \/ Exit \/ ClaimUpdate \/ WakeUp \/ PollTimer \/ WorkerReturn
             \/ HandlerReturns(Worker) \/ Finish(Worker)
    <2>1. proc'[Worker].pc # "wait"
      <3>1. CASE Start \/ WakeUp \/ PollTimer \/ WorkerReturn
        BY <1>1, <3>1, MoveTo DEF Start, WakeUp, PollTimer, WorkerReturn, PC
      <3>2. CASE Exit
        BY <1>1, <3>2, IdleIsProc DEF Exit, PC
      <3>3. CASE ClaimUpdate
        <4>1. Goto(Worker, "execute")
          BY <1>1, <3>3 DEF ClaimUpdate, IInv, Owners, OwnerOK
        <4> QED BY <1>1, <4>1, MoveTo DEF PC
      <3>4. CASE HandlerReturns(Worker)
        <4>1. \E s \in Outcomes(Worker) : proc' = [proc EXCEPT ![Worker].pc = "finish", ![Worker].result = s]
          BY <3>4 DEF HandlerReturns
        <4>2. proc'[Worker].pc = "finish"
          BY <1>1, <4>1 DEF TypeOK, Proc
        <4> QED BY <4>2
      <3>5. CASE FinishWrite(Worker) \/ (FinishError(Worker) /\ ~ (proc[Worker].tries < 2))
        <4>1. proc' = [proc EXCEPT ![Worker] = AfterFinish(Worker)]
          BY <3>5 DEF FinishWrite, FinishError
        <4> QED BY <1>1, <4>1, Replace, AfterFinishIsProc
      <3>6. CASE FinishError(Worker) /\ proc[Worker].tries < 2
        <4>1. proc' = [proc EXCEPT ![Worker] = [proc[Worker] EXCEPT !.tries = @ + 1]] /\ proc[Worker].pc = "finish"
          BY <3>6 DEF FinishError
        <4>2. proc'[Worker] = [proc[Worker] EXCEPT !.tries = @ + 1]
          BY <1>1, <4>1 DEF TypeOK
        <4> QED BY <1>1, <4>1, <4>2 DEF TypeOK, Proc
      <3> QED BY <1>2, <3>1, <3>2, <3>3, <3>4, <3>5, <3>6 DEF Finish
    <2> QED BY <2>1 DEF NoLostWakeup
  <1>3. CASE ClaimSelect
    <2>1. CASE QueuedRows = {}
      BY <1>3, <2>1 DEF NoLostWakeup, QueuedRows, RowIds, ClaimSelect
    <2>2. CASE QueuedRows # {}
      <3>1. PICK i \in QueuedRows : proc' = [proc EXCEPT ![Worker] = [Idle("mark") EXCEPT !.run = i]]
        BY <1>3, <2>2 DEF ClaimSelect
      <3>2. proc'[Worker] = [Idle("mark") EXCEPT !.run = i]
        BY <1>1, <3>1 DEF TypeOK
      <3>3. proc'[Worker].pc = "mark"
        BY <3>2 DEF Idle
      <3> QED BY <3>3 DEF NoLostWakeup
    <2> QED BY <2>1, <2>2
  <1>4. CASE ClaimError
    <2>1. proc'[Worker] = [Idle("wait") EXCEPT !.result = "error"]
      BY <1>1, <1>4 DEF ClaimError, TypeOK
    <2>2. proc'[Worker].result = "error"
      BY <2>1 DEF Idle
    <2> QED BY <2>2 DEF NoLostWakeup
  <1>5. ASSUME NEW c \in Callers, Signal(c) PROVE NoLostWakeup'
    BY <1>5 DEF Signal, NoLostWakeup
  <1>6. ASSUME NEW c \in Callers, NEW k \in Keys, Enqueue(c, k) PROVE NoLostWakeup'
    <2>1. caller'[c] = "signal"
      BY <1>1, <1>6 DEF Enqueue, TypeOK
    <2> QED BY <2>1 DEF NoLostWakeup
  <1>7. ASSUME UNCHANGED <<wake, caller>>, proc'[Worker] = proc[Worker], QueuedRows' = QueuedRows
        PROVE  NoLostWakeup'
    BY <1>7 DEF NoLostWakeup
  <1>8. CASE Shutdown \/ UNCHANGED vars
    BY <1>7, <1>8 DEF Shutdown, vars, QueuedRows, RowIds
  <1>9. ASSUME NEW p \in Services \cup Direct, NEW k \in Keys \cup Services,
               NEW o \in {"run", "service"}, Begin(p, k, o)
        PROVE  NoLostWakeup'
    <2>1. /\ Len(runs') = Len(runs) + 1
          /\ \A i \in RowIds : runs'[i] = runs[i]
          /\ runs'[Len(runs) + 1] = [key |-> k, origin |-> o, status |-> "running"]
      BY <1>1, <1>9, InsertRow DEF Begin, Status, Active
    <2>2. runs'[Len(runs) + 1].status = "running"
      BY <2>1
    <2>3. QueuedRows' = QueuedRows
      BY <1>1, <2>1, <2>2 DEF QueuedRows, RowIds, TypeOK
    <2>4. proc'[Worker] = proc[Worker]
      BY <1>1, <1>9, ProcAssumption DEF Begin, TypeOK, Procs
    <2> QED BY <1>7, <1>9, <2>3, <2>4 DEF Begin
  <1>10. ASSUME NEW p \in Services \cup Direct, HandlerReturns(p) \/ Finish(p)
         PROVE  NoLostWakeup'
    <2>1. p \in Procs /\ p # Worker
      BY ProcAssumption DEF Procs
    <2>2. proc'[Worker] = proc[Worker]
      BY <1>1, <1>10, <2>1 DEF HandlerReturns, Finish, FinishWrite, FinishError, TypeOK
    <2>3. CASE HandlerReturns(p) \/ FinishError(p)
      BY <1>7, <2>2, <2>3 DEF HandlerReturns, FinishError, QueuedRows, RowIds
    <2>4. CASE FinishWrite(p)
      <3>1. PICK i \in RowIds : i = proc[p].run /\ runs[i].status = "running"
        BY <2>1, <2>4 DEF IInv, Owners, OwnerOK, FinishWrite
      <3>2. proc[p].result \in Terminal
        BY <2>1, <2>4 DEF IInv, Owners, OwnerOK, FinishWrite
      <3>3. /\ Len(runs') = Len(runs) /\ runs'[i].status \in Terminal
            /\ \A j \in RowIds \ {i} : runs'[j] = runs[j]
        BY <1>1, <2>4, <3>1, <3>2, WriteStatus DEF FinishWrite, Status
      <3>4. QueuedRows' = QueuedRows
        BY <3>1, <3>3 DEF QueuedRows, RowIds, Terminal
      <3> QED BY <1>7, <2>2, <2>4, <3>4 DEF FinishWrite
    <2> QED BY <1>10, <2>3, <2>4 DEF Finish
  <1> QED BY <1>2, <1>3, <1>4, <1>5, <1>6, <1>8, <1>9, <1>10
          DEF Next, WorkerStep, StartService, RunNow

(* The worker never sleeps on a queued row that nothing will wake it for.  *)
THEOREM WakeupsAreNotLost == Spec => []NoLostWakeup
  <1>1. Init => NoLostWakeup
    BY DEF Init, NoLostWakeup, QueuedRows, RowIds
  <1> QED BY <1>1, InvariantHolds, StepNoLostWakeup, PTL DEF Spec

-----------------------------------------------------------------------------
(* A running row without its goroutine is the trace of three failed        *)
(* statements: every attempt a goroutine counts is an error of the store.  *)
TriesCounted == \A p \in Procs : proc[p].tries <= faults

LEMMA IdleHasNoTries ==
  \A pc \in PC : Idle(pc).tries = 0
  BY DEF Idle

(* One goroutine takes a new control state, and the attempts it counts     *)
(* were paid for by errors.                                                *)
LEMMA OneCounts ==
  ASSUME TypeOK, TypeOK', TriesCounted, NEW p \in Procs, faults <= faults',
         proc'[p].tries <= faults', \A q \in Procs \ {p} : proc'[q] = proc[q]
  PROVE  TriesCounted'
  <1> SUFFICES ASSUME NEW q \in Procs PROVE proc'[q].tries <= faults'
    BY DEF TriesCounted
  <1>1. CASE q = p
    BY <1>1
  <1>2. CASE q # p
    <2>1. proc[q].tries <= faults /\ proc'[q].tries = proc[q].tries
      BY <1>2 DEF TriesCounted
    <2>2. proc[q] \in Proc /\ faults \in Nat /\ faults' \in Nat
      BY BoundAssumption DEF TypeOK
    <2>3. proc[q].tries \in Nat
      BY <2>2 DEF Proc
    <2> QED BY <2>1, <2>2, <2>3
  <1> QED BY <1>1, <1>2

LEMMA StepTries == IInv /\ IInv' /\ TriesCounted /\ [Next]_vars => TriesCounted'
  <1> SUFFICES ASSUME IInv, IInv', TriesCounted, [Next]_vars PROVE TriesCounted'
    OBVIOUS
  <1>1. TypeOK /\ TypeOK' /\ Worker \in Procs
    BY DEF IInv, Procs
  <1>2. faults \in Nat /\ faults' \in Nat /\ \A p \in Procs : proc[p] \in Proc /\ proc[p].tries \in Nat
    BY <1>1, BoundAssumption DEF TypeOK, Proc
  <1>3. ASSUME UNCHANGED <<proc, faults>> PROVE TriesCounted'
    BY <1>3 DEF TriesCounted
  <1>4. ASSUME NEW p \in Procs, NEW r \in Proc, r.tries = 0,
               proc' = [proc EXCEPT ![p] = r], faults <= faults'
        PROVE  TriesCounted'
    <2>1. proc'[p] = r /\ \A q \in Procs \ {p} : proc'[q] = proc[q]
      BY <1>1, <1>4, Replace
    <2> QED BY <1>1, <1>2, <1>4, <2>1, OneCounts
  <1>5. ASSUME NEW p \in Procs, NEW pc \in PC, Goto(p, pc), faults' = faults
        PROVE  TriesCounted'
    <2>1. \A q \in Procs \ {p} : proc'[q] = proc[q]
      BY <1>1, <1>5, MoveTo
    <2>2. proc' = [proc EXCEPT ![p] = [proc[p] EXCEPT !.pc = pc]]
      BY <1>5 DEF Goto
    <2>3. proc'[p].tries = proc[p].tries
      BY <1>1, <1>2, <2>2 DEF TypeOK, Proc
    <2> QED BY <1>1, <1>2, <1>5, <2>1, <2>3, OneCounts DEF TriesCounted
  <1>6. CASE Start
    BY <1>5, <1>1, <1>6 DEF Start, PC
  <1>7. CASE Exit
    <2>1. \A p \in Procs : proc'[p] = Idle("off")
      BY <1>7 DEF Exit
    <2> QED BY <1>2, <2>1, IdleHasNoTries DEF TriesCounted, PC
  <1>8. CASE Shutdown \/ UNCHANGED vars
    BY <1>3, <1>8 DEF Shutdown, vars
  <1>9. ASSUME NEW c \in Callers, Signal(c) \/ \E k \in Keys : Enqueue(c, k) PROVE TriesCounted'
    BY <1>3, <1>9 DEF Signal, Enqueue
  <1>10. ASSUME NEW p \in Procs, NEW k \in Keys \cup Services,
                NEW o \in {"run", "service"}, Begin(p, k, o)
         PROVE  TriesCounted'
    <2> DEFINE r == [Idle("execute") EXCEPT !.run = Len(runs) + 1]
    <2>1. Len(runs) + 1 \in 0 .. MaxRuns
      BY <1>1, <1>10, BoundAssumption DEF Begin, Insert, TypeOK
    <2>2. r \in Proc /\ r.tries = 0
      BY <2>1 DEF Idle, Proc, PC
    <2>3. proc' = [proc EXCEPT ![p] = r] /\ faults <= faults'
      BY <1>2, <1>10 DEF Begin
    <2> QED BY <1>4, <2>2, <2>3
  <1>11. CASE ClaimSelect
    <2>1. CASE QueuedRows = {}
      BY <1>1, <1>2, <1>4, <1>11, <2>1, IdleIsProc, IdleHasNoTries DEF ClaimSelect, PC
    <2>2. CASE QueuedRows # {}
      <3>1. PICK i \in QueuedRows : proc' = [proc EXCEPT ![Worker] = [Idle("mark") EXCEPT !.run = i]]
        BY <1>11, <2>2 DEF ClaimSelect
      <3>2. i \in 0 .. MaxRuns
        BY <1>1, BoundAssumption DEF QueuedRows, RowIds, TypeOK
      <3>3. [Idle("mark") EXCEPT !.run = i] \in Proc /\ [Idle("mark") EXCEPT !.run = i].tries = 0
        BY <3>2 DEF Idle, Proc, PC
      <3>4. faults <= faults'
        BY <1>2, <1>11 DEF ClaimSelect
      <3> QED BY <1>1, <1>4, <3>1, <3>3, <3>4
    <2> QED BY <2>1, <2>2
  <1>12. CASE ClaimUpdate
    <2>1. Goto(Worker, "execute")
      BY <1>1, <1>12 DEF ClaimUpdate, IInv, Owners, OwnerOK
    <2> QED BY <1>1, <1>5, <1>12, <2>1 DEF ClaimUpdate, PC
  <1>13. CASE ClaimError
    <2> DEFINE r == [Idle("wait") EXCEPT !.result = "error"]
    <2>1. r \in Proc /\ r.tries = 0
      BY BoundAssumption DEF Idle, Proc, PC
    <2>2. proc' = [proc EXCEPT ![Worker] = r] /\ faults <= faults'
      BY <1>2, <1>13 DEF ClaimError, StoreFails
    <2> QED BY <1>1, <1>4, <2>1, <2>2
  <1>14. CASE WakeUp \/ PollTimer \/ WorkerReturn
    BY <1>1, <1>5, <1>14 DEF WakeUp, PollTimer, WorkerReturn, PC
  <1>15. ASSUME NEW p \in Procs, HandlerReturns(p) PROVE TriesCounted'
    <2>1. PICK s \in Outcomes(p) :
            proc' = [proc EXCEPT ![p].pc = "finish", ![p].result = s]
      BY <1>15 DEF HandlerReturns
    <2>2. /\ proc'[p] = [proc[p] EXCEPT !.pc = "finish", !.result = s]
          /\ \A q \in Procs \ {p} : proc'[q] = proc[q]
      BY <1>1, <2>1 DEF TypeOK
    <2>3. proc'[p].tries = proc[p].tries
      BY <1>2, <2>2 DEF Proc
    <2> QED BY <1>1, <1>2, <1>15, <2>2, <2>3, OneCounts DEF TriesCounted, HandlerReturns
  <1>16. ASSUME NEW p \in Procs, FinishWrite(p) \/ (FinishError(p) /\ ~ (proc[p].tries < 2))
         PROVE  TriesCounted'
    <2>1. AfterFinish(p) \in Proc
      BY AfterFinishIsProc
    <2>2. AfterFinish(p).tries = 0
      BY DEF AfterFinish, Idle
    <2>3. proc' = [proc EXCEPT ![p] = AfterFinish(p)] /\ faults <= faults'
      BY <1>2, <1>16 DEF FinishWrite, FinishError, StoreFails
    <2> QED BY <1>4, <2>1, <2>2, <2>3
  <1>17. ASSUME NEW p \in Procs, FinishError(p), proc[p].tries < 2 PROVE TriesCounted'
    <2>1. proc' = [proc EXCEPT ![p] = [proc[p] EXCEPT !.tries = @ + 1]] /\ faults' = faults + 1
      BY <1>17 DEF FinishError, StoreFails
    <2>2. /\ proc'[p] = [proc[p] EXCEPT !.tries = @ + 1]
          /\ \A q \in Procs \ {p} : proc'[q] = proc[q]
      BY <1>1, <2>1 DEF TypeOK
    <2>3. proc'[p].tries = proc[p].tries + 1
      BY <1>2, <2>2 DEF Proc
    <2> QED BY <1>1, <1>2, <2>1, <2>2, <2>3, OneCounts DEF TriesCounted
  <1>18. ASSUME NEW p \in Procs, HandlerReturns(p) \/ Finish(p) PROVE TriesCounted'
    BY <1>15, <1>16, <1>17, <1>18 DEF Finish
  <1> QED BY <1>1, <1>6, <1>7, <1>8, <1>9, <1>10, <1>11, <1>12, <1>13, <1>14, <1>18
          DEF Next, WorkerStep, StartService, RunNow, Procs

(* Every row that runs after a step has an owner, was given up after three *)
(* errors, or ran before and kept its owner.                               *)
LEMMA OwnersKept ==
  ASSUME RunningIsOwned, TypeOK, TypeOK', up' = up, faults <= faults',
         \A i \in RowIds' : runs'[i].status = "running" =>
           \/ \E p \in Procs : Owns(p, i)'
           \/ faults' >= 3
           \/ /\ i \in RowIds /\ runs[i].status = "running"
              /\ \A p \in Procs : Owns(p, i) => Owns(p, i)'
  PROVE  RunningIsOwned'
  <1>1. faults \in Nat /\ faults' \in Nat
    BY BoundAssumption DEF TypeOK
  <1> SUFFICES ASSUME up', NEW i \in RowIds', runs'[i].status = "running"
               PROVE  (\E p \in Procs : Owns(p, i)') \/ faults' >= 3
    BY DEF RunningIsOwned
  <1>2. CASE i \in RowIds /\ runs[i].status = "running" /\ \A p \in Procs : Owns(p, i) => Owns(p, i)'
    <2>1. (\E p \in Procs : Owns(p, i)) \/ faults >= 3
      BY <1>2 DEF RunningIsOwned
    <2> QED BY <1>1, <1>2, <2>1
  <1> QED BY <1>2

LEMMA StepOwned == IInv /\ IInv' /\ TriesCounted /\ RunningIsOwned /\ [Next]_vars => RunningIsOwned'
  <1> SUFFICES ASSUME IInv, IInv', TriesCounted, RunningIsOwned, [Next]_vars PROVE RunningIsOwned'
    OBVIOUS
  <1>1. TypeOK /\ TypeOK' /\ Worker \in Procs
    BY DEF IInv, Procs
  <1>2. faults \in Nat /\ faults' \in Nat /\ \A p \in Procs : proc[p] \in Proc
    BY <1>1, BoundAssumption DEF TypeOK, Proc
  (* The rows stay and every goroutine keeps what it owns.                 *)
  <1>3. ASSUME UNCHANGED <<runs, up>>, faults <= faults',
               \A p \in Procs, i \in RowIds : Owns(p, i) => Owns(p, i)'
        PROVE  RunningIsOwned'
    BY <1>1, <1>3, OwnersKept DEF RowIds
  (* The rows stay and the worker, which owns none, moves.                 *)
  <1>4. ASSUME UNCHANGED <<runs, up>>, faults <= faults',
               proc[Worker].pc \notin {"execute", "finish"},
               \A q \in Procs \ {Worker} : proc'[q] = proc[q]
        PROVE  RunningIsOwned'
    BY <1>3, <1>4 DEF Owns
  <1>5. CASE Start
    <2>1. \A i \in RowIds' : runs'[i].status \in Terminal
      BY <1>1, <1>5, RecoverRows DEF Start, RowIds
    <2> QED BY <2>1 DEF RunningIsOwned, Terminal
  <1>6. CASE Exit
    BY <1>6 DEF Exit, RunningIsOwned
  <1>7. CASE Shutdown \/ UNCHANGED vars
    BY <1>2, <1>3, <1>7 DEF Shutdown, vars, Owns
  <1>8. ASSUME NEW c \in Callers, Signal(c) PROVE RunningIsOwned'
    BY <1>2, <1>3, <1>8 DEF Signal, Owns
  <1>9. ASSUME NEW c \in Callers, NEW k \in Keys, Enqueue(c, k) PROVE RunningIsOwned'
    <2>1. /\ Len(runs') = Len(runs) + 1
          /\ \A i \in RowIds : runs'[i] = runs[i]
          /\ runs'[Len(runs) + 1] = [key |-> k, origin |-> "enqueue", status |-> "queued"]
      BY <1>1, <1>9, InsertRow DEF Enqueue, Status, Active
    <2>2. \A i \in RowIds' : i \in RowIds \/ runs'[i].status = "queued"
      BY <1>1, <2>1 DEF RowIds, TypeOK
    <2> QED BY <1>1, <1>2, <1>9, <2>1, <2>2, OwnersKept DEF Enqueue, Owns
  <1>10. ASSUME NEW p \in Procs, NEW k \in Keys \cup Services,
                NEW o \in {"run", "service"}, Begin(p, k, o)
         PROVE  RunningIsOwned'
    <2>1. /\ Len(runs') = Len(runs) + 1
          /\ \A i \in RowIds : runs'[i] = runs[i]
      BY <1>1, <1>10, InsertRow DEF Begin, Status, Active
    <2>2. proc'[p] = [Idle("execute") EXCEPT !.run = Len(runs) + 1]
          /\ \A q \in Procs \ {p} : proc'[q] = proc[q]
      BY <1>1, <1>10 DEF Begin, TypeOK
    <2>3. proc'[p].run = Len(runs) + 1 /\ proc'[p].pc = "execute"
      BY <2>2 DEF Idle
    <2>4. \A q \in Procs, i \in RowIds : Owns(q, i) => Owns(q, i)'
      BY <1>10, <2>2 DEF Owns, Begin
    <2>5. \A i \in RowIds' : i \in RowIds \/ Owns(p, i)'
      BY <1>1, <2>1, <2>3 DEF RowIds, TypeOK, Owns
    <2> QED BY <1>1, <1>2, <1>10, <2>1, <2>4, <2>5, OwnersKept DEF Begin
  <1>11. CASE ClaimSelect
    <2>1. \A q \in Procs \ {Worker} : proc'[q] = proc[q]
      BY <1>1, <1>11 DEF ClaimSelect, TypeOK
    <2> QED BY <1>2, <1>4, <1>11, <2>1 DEF ClaimSelect
  <1>12. CASE ClaimError
    <2>1. \A q \in Procs \ {Worker} : proc'[q] = proc[q]
      BY <1>1, <1>12 DEF ClaimError, TypeOK
    <2> QED BY <1>2, <1>4, <1>12, <2>1 DEF ClaimError, StoreFails
  <1>13. CASE WakeUp \/ PollTimer \/ WorkerReturn
    <2>1. \A q \in Procs \ {Worker} : proc'[q] = proc[q]
      BY <1>1, <1>13, MoveTo DEF WakeUp, PollTimer, WorkerReturn, PC
    <2> QED BY <1>2, <1>4, <1>13, <2>1 DEF WakeUp, PollTimer, WorkerReturn
  <1>14. CASE ClaimUpdate
    <2>1. PICK i \in RowIds : i = proc[Worker].run /\ SetStatus(i, "running") /\ Goto(Worker, "execute")
      BY <1>1, <1>14 DEF IInv, Owners, OwnerOK, ClaimUpdate, QueuedRows
    <2>2. Len(runs') = Len(runs) /\ \A j \in RowIds \ {i} : runs'[j] = runs[j]
      BY <1>1, <2>1, WriteStatus DEF Status, Active
    <2>3. /\ proc'[Worker].pc = "execute" /\ proc'[Worker].run = i
          /\ \A q \in Procs \ {Worker} : proc'[q] = proc[q]
      BY <1>1, <2>1, MoveTo DEF PC
    <2>4. Owns(Worker, i)' /\ \A q \in Procs, j \in RowIds : Owns(q, j) => Owns(q, j)'
      BY <1>14, <2>3 DEF Owns, ClaimUpdate
    <2> QED BY <1>1, <1>2, <1>14, <2>1, <2>2, <2>4, OwnersKept DEF ClaimUpdate, RowIds
  <1>15. ASSUME NEW p \in Procs, HandlerReturns(p) PROVE RunningIsOwned'
    <2>1. PICK s \in Outcomes(p) :
            proc' = [proc EXCEPT ![p].pc = "finish", ![p].result = s]
      BY <1>15 DEF HandlerReturns
    <2>2. /\ proc'[p] = [proc[p] EXCEPT !.pc = "finish", !.result = s]
          /\ \A q \in Procs \ {p} : proc'[q] = proc[q]
      BY <1>1, <2>1 DEF TypeOK
    <2>3. proc'[p].pc = "finish" /\ proc'[p].run = proc[p].run
      BY <1>2, <2>2 DEF Proc
    <2>4. \A q \in Procs, i \in RowIds : Owns(q, i) => Owns(q, i)'
      BY <2>2, <2>3 DEF Owns
    <2> QED BY <1>2, <1>3, <1>15, <2>4 DEF HandlerReturns
  <1>16. ASSUME NEW p \in Procs, FinishWrite(p) PROVE RunningIsOwned'
    <2>1. PICK i \in RowIds : i = proc[p].run /\ proc[p].result \in Terminal
      BY <1>16 DEF IInv, Owners, OwnerOK, FinishWrite
    <2>2. /\ Len(runs') = Len(runs) /\ runs'[i].status \in Terminal
          /\ \A j \in RowIds \ {i} : runs'[j] = runs[j]
      BY <1>1, <1>16, <2>1, WriteStatus DEF FinishWrite, Status
    <2>3. \A q \in Procs \ {p} : proc'[q] = proc[q]
      BY <1>1, <1>16 DEF FinishWrite, TypeOK
    <2>4. \A q \in Procs, j \in RowIds \ {i} : Owns(q, j) => Owns(q, j)'
      BY <2>1, <2>3 DEF Owns
    <2>5. runs'[i].status # "running"
      BY <2>2 DEF Terminal
    <2> QED BY <1>1, <1>2, <1>16, <2>2, <2>4, <2>5, OwnersKept DEF FinishWrite, RowIds
  <1>17. ASSUME NEW p \in Procs, FinishError(p), proc[p].tries < 2 PROVE RunningIsOwned'
    <2>1. proc' = [proc EXCEPT ![p] = [proc[p] EXCEPT !.tries = @ + 1]] /\ faults' = faults + 1
      BY <1>17 DEF FinishError, StoreFails
    <2>2. /\ proc'[p] = [proc[p] EXCEPT !.tries = @ + 1]
          /\ \A q \in Procs \ {p} : proc'[q] = proc[q]
      BY <1>1, <2>1 DEF TypeOK
    <2>3. proc'[p].pc = proc[p].pc /\ proc'[p].run = proc[p].run
      BY <1>2, <2>2 DEF Proc
    <2>4. \A q \in Procs, i \in RowIds : Owns(q, i) => Owns(q, i)'
      BY <2>2, <2>3 DEF Owns
    <2> QED BY <1>2, <1>3, <1>17, <2>1, <2>4 DEF FinishError
  <1>18. ASSUME NEW p \in Procs, FinishError(p), ~ (proc[p].tries < 2) PROVE RunningIsOwned'
    <2>1. proc[p].tries = 2 /\ proc[p].tries <= faults
      BY <1>2, <1>18 DEF Proc, TriesCounted
    <2>2. faults' >= 3
      BY <1>2, <1>18, <2>1 DEF FinishError, StoreFails
    <2> QED BY <2>2 DEF RunningIsOwned
  <1>19. ASSUME NEW p \in Procs, HandlerReturns(p) \/ Finish(p) PROVE RunningIsOwned'
    BY <1>15, <1>16, <1>17, <1>18, <1>19 DEF Finish
  <1> QED BY <1>1, <1>5, <1>6, <1>7, <1>8, <1>9, <1>10, <1>11, <1>12, <1>13, <1>14, <1>19
          DEF Next, WorkerStep, StartService, RunNow, Procs

(* A row says running only while its goroutine works on it, or after three *)
(* statements of the store failed.                                         *)
THEOREM RunningHasOwner == Spec => []RunningIsOwned
  <1>1. Init => TriesCounted /\ RunningIsOwned
    <2>1. Init => \A p \in Procs : proc[p].tries = 0
      BY DEF Init, Idle
    <2>2. Init => faults = 0 /\ RunningIsOwned
      BY DEF Init, RunningIsOwned
    <2> QED BY <2>1, <2>2 DEF TriesCounted
  <1> QED BY <1>1, InvariantHolds, StepTries, StepOwned, PTL DEF Spec

-----------------------------------------------------------------------------
(* A step writes at most the rows that are active.                         *)
LEMMA StepAdvances == IInv /\ [Next]_vars => [RowsAdvance]_vars
  <1> SUFFICES ASSUME IInv, [Next]_vars PROVE RowsAdvance \/ UNCHANGED vars
    OBVIOUS
  <1>1. TypeOK /\ Worker \in Procs
    BY DEF IInv, Procs
  <1>2. ASSUME UNCHANGED runs PROVE RowsAdvance
    BY <1>2 DEF RowsAdvance, RowIds
  <1>3. CASE Start
    <2>1. RecoverInterrupted
      BY <1>3 DEF Start
    <2>2. /\ Len(runs') = Len(runs)
          /\ \A i \in RowIds : runs'[i].status \in Terminal
      BY <1>1, <2>1, RecoverRows
    <2>3. \A i \in RowIds : runs[i].status \in Terminal => runs'[i] = runs[i]
      BY <2>1 DEF RecoverInterrupted, IsActive, Active, Terminal
    <2> QED BY <2>2, <2>3 DEF RowsAdvance, RowIds, Terminal
  <1>4. ASSUME NEW k \in Keys \cup Services, NEW o \in {"enqueue", "run", "service"},
               NEW s \in Status, Insert(k, o, s)
        PROVE  RowsAdvance
    <2>1. Len(runs') = Len(runs) + 1 /\ \A i \in RowIds : runs'[i] = runs[i]
      BY <1>1, <1>4, InsertRow
    <2> QED BY <1>1, <2>1 DEF RowsAdvance, RowIds, TypeOK
  <1>5. ASSUME NEW i \in RowIds, NEW s \in Status, SetStatus(i, s),
               runs[i].status \in Active, s # "queued"
        PROVE  RowsAdvance
    <2>1. /\ Len(runs') = Len(runs) /\ runs'[i].status = s
          /\ \A j \in RowIds \ {i} : runs'[j] = runs[j]
      BY <1>1, <1>5, WriteStatus
    <2> QED BY <1>5, <2>1 DEF RowsAdvance, RowIds, Active, Terminal
  <1>6. ASSUME NEW c \in Callers, NEW k \in Keys, Enqueue(c, k) PROVE RowsAdvance
    BY <1>4, <1>6 DEF Enqueue, Status, Active
  <1>7. ASSUME NEW p \in Services \cup Direct, NEW k \in Keys \cup Services,
               NEW o \in {"run", "service"}, Begin(p, k, o)
        PROVE  RowsAdvance
    BY <1>4, <1>7 DEF Begin, Status, Active
  <1>8. ASSUME NEW p \in Procs, Finish(p) \/ HandlerReturns(p) PROVE RowsAdvance
    <2>1. CASE FinishWrite(p)
      <3>1. /\ proc[p].run \in RowIds /\ runs[proc[p].run].status = "running"
            /\ proc[p].result \in Terminal
        BY <2>1 DEF IInv, Owners, OwnerOK, FinishWrite
      <3> QED BY <1>5, <2>1, <3>1 DEF FinishWrite, Status, Active, Terminal
    <2>2. CASE FinishError(p) \/ HandlerReturns(p)
      BY <1>2, <2>2 DEF FinishError, HandlerReturns
    <2> QED BY <1>8, <2>1, <2>2 DEF Finish
  <1>9. CASE WorkerStep
    <2>1. CASE ClaimUpdate
      <3>1. CASE proc[Worker].run \in QueuedRows
        BY <1>5, <2>1, <3>1 DEF ClaimUpdate, QueuedRows, Status, Active
      <3>2. CASE proc[Worker].run \notin QueuedRows
        BY <1>2, <2>1, <3>2 DEF ClaimUpdate
      <3> QED BY <3>1, <3>2
    <2>2. CASE ClaimSelect \/ ClaimError \/ WakeUp \/ PollTimer \/ WorkerReturn
      BY <1>2, <2>2 DEF ClaimSelect, ClaimError, WakeUp, PollTimer, WorkerReturn
    <2> QED BY <1>1, <1>8, <1>9, <2>1, <2>2 DEF WorkerStep
  <1>10. CASE Shutdown \/ Exit \/ \E c \in Callers : Signal(c)
    BY <1>2, <1>10 DEF Shutdown, Exit, Signal
  <1> QED BY <1>3, <1>6, <1>7, <1>8, <1>9, <1>10
          DEF Next, StartService, RunNow, Procs

(* A recorded outcome is never rewritten, by a late finish or a restart.   *)
THEOREM OutcomesAreFinal == Spec => OutcomeIsFinal
  BY InvariantHolds, StepAdvances, PTL DEF Spec, OutcomeIsFinal

-----------------------------------------------------------------------------
(* The refinement of JobQueue: each step of the manager is a step of the   *)
(* abstract queue or changes neither the requests waiting nor the one      *)
(* being executed.                                                         *)

LEMMA OneCurrent ==
  ASSUME IInv
  PROVE  /\ Owns(Worker, proc[Worker].run) =>
              Current = {AsRequest(proc[Worker].run)} /\ proc[Worker].run \in RowIds
         /\ ~ Owns(Worker, proc[Worker].run) => Current = {}
  BY DEF IInv, Owners, OwnerOK, Procs, Current, Owns

LEMMA SameView ==
  ASSUME IInv, QueuedRows' = QueuedRows, RowIds \subseteq RowIds',
         \A i \in RowIds : runs'[i].key = runs[i].key,
         \A i \in RowIds' : Owns(Worker, i)' <=> (i \in RowIds /\ Owns(Worker, i))
  PROVE  UNCHANGED Abstract!vars
  <1>1. Pending' = Pending
    BY DEF Pending, AsRequest, QueuedRows
  <1>2. {j \in RowIds' : Owns(Worker, j)'} = {j \in RowIds : Owns(Worker, j)}
    OBVIOUS
  <1>3. Current' = Current
    BY <1>2 DEF Current, AsRequest
  <1> QED BY <1>1, <1>3 DEF Abstract!vars

(* A step that writes no row is seen only when the worker stops executing. *)
LEMMA SameRows ==
  ASSUME IInv, IInv', UNCHANGED runs,
         \/ proc'[Worker].pc \notin {"execute", "finish"}
         \/ /\ proc'[Worker].run = proc[Worker].run
            /\ proc[Worker].pc \in {"execute", "finish"}
  PROVE  Abstract!End \/ UNCHANGED Abstract!vars
  <1>1. QueuedRows' = QueuedRows /\ RowIds' = RowIds
    BY DEF QueuedRows, RowIds
  <1>2. Pending' = Pending
    BY <1>1 DEF Pending, AsRequest
  <1>3. CASE proc'[Worker].pc \notin {"execute", "finish"}
    <2>1. Current' = {}
      BY <1>3 DEF Current, Owns
    <2> QED BY <1>2, <2>1 DEF Abstract!End, Abstract!vars
  <1>4. CASE /\ proc'[Worker].run = proc[Worker].run
             /\ proc[Worker].pc \in {"execute", "finish"}
             /\ proc'[Worker].pc \in {"execute", "finish"}
    <2>1. \A i \in RowIds' : Owns(Worker, i)' <=> (i \in RowIds /\ Owns(Worker, i))
      BY <1>1, <1>4 DEF Owns
    <2> QED BY <1>1, <2>1, SameView
  <1> QED BY <1>3, <1>4

LEMMA StartRefines == IInv /\ IInv' /\ Start => Abstract!Forget
  <1> SUFFICES ASSUME IInv, IInv', Start PROVE Abstract!Forget
    OBVIOUS
  <1>1. TypeOK /\ Worker \in Procs
    BY DEF IInv, Procs
  <1>2. Current = {}
    BY <1>1 DEF IInv, Owners, OwnerOK, Start, Current, Owns
  <1>3. proc'[Worker].pc = "claim"
    BY <1>1, MoveTo DEF Start, PC
  <1>4. Current' = {}
    BY <1>3 DEF Current, Owns
  <1>5. /\ Len(runs') = Len(runs)
        /\ \A i \in RowIds : runs'[i].status \in Terminal
    BY <1>1, RecoverRows DEF Start
  <1>6. QueuedRows' = {}
    BY <1>5 DEF QueuedRows, RowIds, Terminal
  <1>7. Pending' = {}
    BY <1>6 DEF Pending
  <1> QED BY <1>2, <1>4, <1>7 DEF Abstract!Forget

LEMMA EnqueueRefines ==
  ASSUME IInv, IInv', NEW c \in Callers, NEW k \in Keys, Enqueue(c, k)
  PROVE  Abstract!Submit(k)
  <1> DEFINE t == Len(runs) + 1
  <1>1. TypeOK /\ Worker \in Procs
    BY DEF IInv, Procs
  <1>2. /\ Len(runs') = Len(runs) + 1 /\ Len(runs') <= MaxRuns
        /\ \A i \in RowIds : runs'[i] = runs[i]
        /\ runs'[Len(runs) + 1] = [key |-> k, origin |-> "enqueue", status |-> "queued"]
    BY <1>1, InsertRow DEF Enqueue, Status, Active
  <1>3. /\ RowIds' = RowIds \cup {t} /\ Len(runs) \in Nat /\ t \notin RowIds
        /\ t \in 1 .. MaxRuns /\ \A i \in RowIds : i < t
    BY <1>1, <1>2, BoundAssumption DEF RowIds, TypeOK
  <1>4. runs'[t].key = k /\ runs'[t].status = "queued"
    BY <1>2
  <1>5. QueuedRows' = QueuedRows \cup {t}
    BY <1>2, <1>3, <1>4 DEF QueuedRows
  <1>6. \A i \in QueuedRows : i \in RowIds /\ runs'[i].key = runs[i].key
    BY <1>2 DEF QueuedRows
  <1>7. Pending' = Pending \cup {<<t, k>>}
    BY <1>4, <1>5, <1>6 DEF Pending, AsRequest
  <1>8. \A i \in RowIds' : Owns(Worker, i)' <=> (i \in RowIds /\ Owns(Worker, i))
    BY <1>1, <1>3 DEF Owns, Enqueue, IInv, Owners, OwnerOK
  <1>9. {j \in RowIds' : Owns(Worker, j)'} = {j \in RowIds : Owns(Worker, j)}
    BY <1>3, <1>8
  <1>10. Current' = Current
    BY <1>2, <1>9 DEF Current, AsRequest
  <1>11. \A r \in Pending \cup Current : \E i \in RowIds : r = <<i, runs[i].key>> /\ IsActive(i)
    BY DEF Pending, Current, AsRequest, QueuedRows, IsActive, Active, Owns, IInv, Owners,
           OwnerOK, Procs
  <1>12. k \notin Abstract!KeysOf(Pending) \cup Abstract!KeysOf(Current)
    BY <1>11 DEF Enqueue, ActiveRows, Abstract!KeysOf
  <1>13. \A r \in Pending \cup Current : r[1] < t
    BY <1>3, <1>11
  <1> QED BY <1>3, <1>7, <1>10, <1>12, <1>13 DEF Abstract!Submit

LEMMA ClaimRefines == IInv /\ IInv' /\ ClaimUpdate => Abstract!Take
  <1> SUFFICES ASSUME IInv, IInv', ClaimUpdate PROVE Abstract!Take
    OBVIOUS
  <1>1. TypeOK /\ Worker \in Procs
    BY DEF IInv, Procs
  <1>2. PICK i \in RowIds : i = proc[Worker].run /\ i \in QueuedRows /\ runs[i].status = "queued"
    BY <1>1 DEF IInv, Owners, OwnerOK, ClaimUpdate, QueuedRows
  <1>3. SetStatus(i, "running") /\ Goto(Worker, "execute")
    BY <1>2 DEF ClaimUpdate
  <1>4. /\ Len(runs') = Len(runs)
        /\ runs'[i].status = "running" /\ runs'[i].key = runs[i].key
        /\ \A j \in RowIds \ {i} : runs'[j] = runs[j]
    BY <1>1, <1>2, <1>3, WriteStatus DEF Status, Active
  <1>5. proc'[Worker].pc = "execute" /\ proc'[Worker].run = i
    BY <1>1, <1>2, <1>3, MoveTo DEF PC
  <1>6. QueuedRows' = QueuedRows \ {i} /\ RowIds' = RowIds
    BY <1>2, <1>4 DEF RowIds, QueuedRows
  <1>7. \A j \in QueuedRows' : runs'[j].key = runs[j].key
    BY <1>4, <1>6 DEF QueuedRows
  <1>8. Pending' = Pending \ {AsRequest(i)}
    BY <1>6, <1>7 DEF Pending, AsRequest
  <1>9. Current = {}
    BY DEF Current, Owns, ClaimUpdate
  <1>10. Current' = {AsRequest(i)}
    BY <1>2, <1>4, <1>5, <1>6 DEF Current, Owns, AsRequest
  <1>11. AsRequest(i) \in Pending
    BY <1>2 DEF Pending
  <1>12. \A q \in Pending : AsRequest(i)[1] <= q[1]
    BY <1>2 DEF Pending, AsRequest, IInv, FirstQueuedFirstRun, ClaimUpdate
  <1> QED BY <1>8, <1>9, <1>10, <1>11, <1>12 DEF Abstract!Take

(* The end of any goroutine's run: the abstract queue sees it when the     *)
(* goroutine is the worker.                                                *)
LEMMA FinishWriteRefines ==
  ASSUME IInv, IInv', NEW p \in Procs, FinishWrite(p)
  PROVE  Abstract!End \/ UNCHANGED Abstract!vars
  <1>1. TypeOK
    BY DEF IInv
  <1>2. PICK i \in RowIds : /\ i = proc[p].run /\ runs[i].status = "running"
                            /\ proc[p].result \in Terminal
    BY DEF IInv, Owners, OwnerOK, FinishWrite
  <1>3. /\ Len(runs') = Len(runs) /\ runs'[i].status \in Terminal
        /\ runs'[i].key = runs[i].key
        /\ \A j \in RowIds \ {i} : runs'[j] = runs[j]
    BY <1>1, <1>2, WriteStatus DEF FinishWrite, Status
  <1>4. QueuedRows' = QueuedRows /\ RowIds' = RowIds
    BY <1>2, <1>3 DEF QueuedRows, RowIds, Terminal
  <1>5. \A j \in RowIds : runs'[j].key = runs[j].key
    BY <1>3
  <1>6. AfterFinish(p).pc \in {"claim", "exited", "off"}
    BY AfterFinishIsProc
  <1>7. proc'[p].pc \in {"claim", "exited", "off"} /\ \A q \in Procs \ {p} : proc'[q] = proc[q]
    BY <1>1, <1>6, Replace, AfterFinishIsProc DEF FinishWrite
  <1>8. CASE p = Worker
    <2>1. Pending' = Pending
      BY <1>4, <1>5 DEF Pending, AsRequest, QueuedRows
    <2>2. Current = {AsRequest(i)}
      BY <1>2, <1>8, OneCurrent DEF Owns, FinishWrite
    <2>3. Current' = {}
      BY <1>7, <1>8 DEF Current, Owns
    <2> QED BY <2>1, <2>2, <2>3 DEF Abstract!End
  <1>9. CASE p # Worker
    <2>1. \A j \in RowIds' : Owns(Worker, j)' <=> (j \in RowIds /\ Owns(Worker, j))
      BY <1>4, <1>7, <1>9 DEF Owns, Procs
    <2> QED BY <1>4, <1>5, <2>1, SameView
  <1> QED BY <1>8, <1>9

LEMMA BeginRefines ==
  ASSUME IInv, IInv', NEW p \in Services \cup Direct, NEW k \in Keys \cup Services,
         NEW o \in {"run", "service"}, Begin(p, k, o)
  PROVE  UNCHANGED Abstract!vars
  <1>1. TypeOK /\ p # Worker /\ Worker \in Procs
    BY ProcAssumption DEF IInv, Procs
  <1>2. /\ Len(runs') = Len(runs) + 1
        /\ \A i \in RowIds : runs'[i] = runs[i]
        /\ runs'[Len(runs) + 1] = [key |-> k, origin |-> o, status |-> "running"]
    BY <1>1, InsertRow DEF Begin, Status, Active
  <1>3. /\ RowIds' = RowIds \cup {Len(runs) + 1} /\ Len(runs) + 1 \notin RowIds
        /\ runs'[Len(runs) + 1].status = "running"
    BY <1>1, <1>2 DEF RowIds, TypeOK
  <1>4. QueuedRows' = QueuedRows
    BY <1>2, <1>3 DEF QueuedRows
  <1>5. proc'[Worker] = proc[Worker]
    BY <1>1 DEF Begin, TypeOK
  <1>6. \A i \in RowIds' : Owns(Worker, i)' <=> (i \in RowIds /\ Owns(Worker, i))
    BY <1>1, <1>3, <1>5 DEF Owns, IInv, Owners, OwnerOK
  <1> QED BY <1>2, <1>3, <1>4, <1>6, SameView

(* The steps of the worker that write no row.                              *)
LEMMA WorkerQuietRefines ==
  ASSUME IInv, IInv',
         \/ ClaimSelect \/ ClaimError \/ WakeUp \/ PollTimer \/ WorkerReturn
         \/ HandlerReturns(Worker) \/ FinishError(Worker)
  PROVE  Abstract!End \/ UNCHANGED Abstract!vars
  <1>1. TypeOK /\ Worker \in Procs /\ proc[Worker] \in Proc
    BY DEF IInv, Procs, TypeOK
  <1>2. CASE ClaimSelect \/ ClaimError \/ WakeUp \/ PollTimer \/ WorkerReturn
    <2>1. proc[Worker].pc \in {"claim", "mark", "wait"} /\ Current = {}
      BY <1>2 DEF ClaimSelect, ClaimError, WakeUp, PollTimer, WorkerReturn, Current, Owns
    <2>2. proc'[Worker].pc \notin {"execute", "finish"}
      <3>1. CASE ClaimError
        <4>1. proc'[Worker] = [Idle("wait") EXCEPT !.result = "error"]
          BY <1>1, <3>1 DEF ClaimError, TypeOK
        <4> QED BY <4>1 DEF Idle
      <3>2. CASE WakeUp \/ PollTimer \/ WorkerReturn
        BY <1>1, <3>2, MoveTo DEF WakeUp, PollTimer, WorkerReturn, PC
      <3>3. CASE ClaimSelect /\ QueuedRows = {}
        <4>1. proc'[Worker] = Idle("wait")
          BY <1>1, <3>3 DEF ClaimSelect, TypeOK
        <4> QED BY <4>1 DEF Idle
      <3>4. CASE ClaimSelect /\ QueuedRows # {}
        <4>1. PICK i \in QueuedRows : proc' = [proc EXCEPT ![Worker] = [Idle("mark") EXCEPT !.run = i]]
          BY <3>4 DEF ClaimSelect
        <4>2. proc'[Worker] = [Idle("mark") EXCEPT !.run = i]
          BY <1>1, <4>1 DEF TypeOK
        <4> QED BY <4>2 DEF Idle
      <3> QED BY <1>2, <3>1, <3>2, <3>3, <3>4
    <2> QED BY <1>2, <2>2, SameRows
            DEF ClaimSelect, ClaimError, WakeUp, PollTimer, WorkerReturn
  <1>3. CASE HandlerReturns(Worker)
    <2>1. PICK s \in Outcomes(Worker) :
            proc' = [proc EXCEPT ![Worker].pc = "finish", ![Worker].result = s]
      BY <1>3 DEF HandlerReturns
    <2>2. proc'[Worker].run = proc[Worker].run
      BY <1>1, <2>1 DEF TypeOK, Proc
    <2> QED BY <1>3, <2>2, SameRows DEF HandlerReturns
  <1>4. CASE FinishError(Worker) /\ proc[Worker].tries < 2
    <2>1. proc'[Worker] = [proc[Worker] EXCEPT !.tries = @ + 1]
      BY <1>1, <1>4 DEF FinishError, TypeOK
    <2>2. proc'[Worker].run = proc[Worker].run
      BY <1>1, <2>1 DEF Proc
    <2> QED BY <1>4, <2>2, SameRows DEF FinishError
  <1>5. CASE FinishError(Worker) /\ ~ (proc[Worker].tries < 2)
    <2>1. proc'[Worker].pc \in {"claim", "exited", "off"}
      BY <1>1, <1>5, Replace, AfterFinishIsProc DEF FinishError
    <2> QED BY <1>5, <2>1, SameRows DEF FinishError
  <1> QED BY <1>2, <1>3, <1>4, <1>5

LEMMA StepRefines == IInv /\ IInv' /\ [Next]_vars => [Abstract!Next]_(Abstract!vars)
  <1> SUFFICES ASSUME IInv, IInv', [Next]_vars
               PROVE  Abstract!Next \/ UNCHANGED Abstract!vars
    OBVIOUS
  <1>1. CASE Start
    BY <1>1, StartRefines DEF Abstract!Next
  <1>2. CASE Exit
    <2>1. proc'[Worker].pc = "off"
      BY <1>2, IdleIsProc DEF Exit, Procs, PC
    <2> QED BY <1>2, <2>1, SameRows DEF Exit, Abstract!Next
  <1>3. ASSUME UNCHANGED <<runs, proc>> PROVE UNCHANGED Abstract!vars
    BY <1>3 DEF Abstract!vars, Pending, Current, AsRequest, QueuedRows, RowIds, Owns
  <1>4. CASE Shutdown \/ UNCHANGED vars
    BY <1>3, <1>4 DEF Shutdown, vars
  <1>5. ASSUME NEW c \in Callers, Signal(c) PROVE UNCHANGED Abstract!vars
    BY <1>3, <1>5 DEF Signal
  <1>6. ASSUME NEW c \in Callers, NEW k \in Keys, Enqueue(c, k) PROVE Abstract!Next
    BY <1>6, EnqueueRefines DEF Abstract!Next
  <1>7. ASSUME NEW s \in Services, StartService(s) PROVE UNCHANGED Abstract!vars
    BY <1>7, BeginRefines DEF StartService
  <1>8. ASSUME NEW d \in Direct, NEW k \in Keys, RunNow(d, k) PROVE UNCHANGED Abstract!vars
    BY <1>8, BeginRefines DEF RunNow
  <1>9. CASE WorkerStep
    <2>1. Worker \in Procs
      BY DEF Procs
    <2> QED BY <1>9, <2>1, ClaimRefines, FinishWriteRefines, WorkerQuietRefines
            DEF WorkerStep, Finish, Abstract!Next
  <1>10. ASSUME NEW p \in Services \cup Direct, HandlerReturns(p) \/ Finish(p)
         PROVE  Abstract!Next \/ UNCHANGED Abstract!vars
    <2>1. p \in Procs /\ p # Worker
      BY ProcAssumption DEF Procs
    <2>2. CASE FinishWrite(p)
      BY <2>1, <2>2, FinishWriteRefines DEF Abstract!Next
    <2>3. CASE HandlerReturns(p) \/ FinishError(p)
      <3>1. proc'[Worker] = proc[Worker]
        BY <2>1, <2>3 DEF HandlerReturns, FinishError, IInv, TypeOK, Procs
      <3>2. UNCHANGED runs
        BY <2>3 DEF HandlerReturns, FinishError
      <3>3. UNCHANGED Abstract!vars
        BY <3>1, <3>2 DEF Abstract!vars, Pending, Current, AsRequest, QueuedRows, RowIds, Owns
      <3> QED BY <3>3
    <2> QED BY <1>10, <2>2, <2>3 DEF Finish
  <1> QED BY <1>1, <1>2, <1>4, <1>5, <1>6, <1>7, <1>8, <1>9, <1>10 DEF Next

(* The task manager implements the abstract job queue.                     *)
THEOREM ManagerImplementsJobQueue == Spec => ImplementsJobQueue
  <1>1. Init => Abstract!Init
    BY ProcAssumption, IdleIsProc
       DEF Init, Abstract!Init, Pending, Current, QueuedRows, RowIds
  <1> QED BY <1>1, InvariantHolds, StepRefines, PTL
          DEF Spec, ImplementsJobQueue, Abstract!Spec
=============================================================================
