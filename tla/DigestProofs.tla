---------------------------- MODULE DigestProofs ----------------------------
(***************************************************************************)
(* Proofs about Digest for every set of books and users, every interval,   *)
(* list limit and bound: which books the mark may pass.                    *)
(***************************************************************************)
EXTENDS Digest, TLAPS

(* What the running digest left out of its list is behind the mark it read,*)
(* and the mark has not moved back since.                                  *)
MissedIsPast ==
  /\ job.pc \in {"settings", "list"} => job.since <= marker
  /\ \A b \in Books : listed[b] = "missed" => b \in Indexed /\ added[b] < marker

Inv == TypeOK /\ MissedIsPast

-----------------------------------------------------------------------------
LEMMA AsleepIsJob == TypeOK => Asleep \in Jobs
  BY DEF TypeOK, Asleep, Jobs

LEMMA InitInv == Init => Inv
<1> SUFFICES ASSUME Init PROVE Inv  OBVIOUS
<1>1. Asleep \in Jobs
  BY DEF Init, Asleep, Jobs
<1>2. clock \in 1 .. MaxTime /\ marker \in 0 .. clock
  BY DigestAssumption DEF Init
<1>3. added \in [Books -> 0 .. clock]
  BY DEF Init
<1>4. spent \in [{"boots", "fails", "turns"} -> Nat]
  BY DEF Init
<1>5. TypeOK
  BY <1>1, <1>2, <1>3, <1>4 DEF Init, TypeOK, Unseen
<1>6. MissedIsPast
  BY DEF Init, MissedIsPast, Unseen, Asleep
<1> QED  BY <1>5, <1>6 DEF Inv

(* Two ways to write a job.                                              *)
LEMMA JobOf ==
  ASSUME TypeOK, NEW pc \in {"now", "mark", "users"}, NEW S \in SUBSET Indexed
  PROVE  /\ [job EXCEPT !.pc = pc, !.since = 0, !.books = S] \in Jobs
         /\ [job EXCEPT !.pc = pc, !.now = clock] \in Jobs
<1>1. 0 \in 0 .. clock /\ clock \in 0 .. clock
  BY DigestAssumption DEF TypeOK
<1> DEFINE times == 0 .. clock
<1>2. 0 \in times /\ clock \in times /\ job \in Jobs
  BY <1>1 DEF TypeOK
<1>3. Jobs = [pc    : {"idle", "available", "since", "settings", "list", "now",
                       "users", "send", "mark"},
              since : times, books : SUBSET Indexed, now : times, to : SUBSET Users]
  BY DEF Jobs
<1> HIDE DEF times
<1> QED  BY <1>2, <1>3

(* A step of the job, which runs only while the program is up.             *)
LEMMA JobStepTypes ==
  ASSUME TypeOK, JobFrame, job # Asleep \/ up, job' \in Jobs,
         marker' \in 0 .. clock, queued' \in BOOLEAN,
         spent' \in [{"boots", "fails", "turns"} -> Nat],
         told' \subseteq Users \X Indexed,
         listed' \in [Books -> {"unseen", "found", "missed"}]
  PROVE  TypeOK'
<1>1. UNCHANGED <<Indexed, Jobs>>
  BY DEF JobFrame, world, Indexed, Jobs
<1> QED  BY <1>1 DEF TypeOK, JobFrame, world

LEMMA TickInv == Inv /\ Tick => Inv'
  BY DigestAssumption
     DEF Tick, Inv, TypeOK, MissedIsPast, Indexed, Asleep, Jobs, history

(* A book that is met, inserted or dropped is not one the digest missed.   *)
LEMMA StampInv == ASSUME NEW b \in Books, Inv, StampBook(b) PROVE Inv'
<1>1. /\ added' = [added EXCEPT ![b] = clock] /\ reading' = reading \cup {b}
      /\ added[b] = 0 /\ Indexed' = Indexed
  BY DEF StampBook, Inv, TypeOK, Indexed
<1>2. TypeOK'
  <2>1. added' \in [Books -> 0 .. clock'] /\ reading' \subseteq {c \in Books : added'[c] # 0}
    BY <1>1 DEF StampBook, Inv, TypeOK
  <2>2. job' \in Jobs' /\ told' \subseteq Users \X Indexed'
    BY <1>1 DEF StampBook, Inv, TypeOK, Jobs, history
  <2> QED  BY <2>1, <2>2 DEF StampBook, Inv, TypeOK, history
<1>3. MissedIsPast'
  <2>1. b \notin Indexed
    BY <1>1 DEF Indexed
  <2>2. \A c \in Books \ {b} : added'[c] = added[c]
    BY <1>1 DEF Inv, TypeOK
  <2>3. UNCHANGED <<marker, job, listed>>
    BY DEF StampBook, history
  <2> QED  BY <1>1, <2>1, <2>2, <2>3 DEF MissedIsPast, Inv
<1> QED  BY <1>2, <1>3 DEF Inv

LEMMA InsertInv == ASSUME NEW b \in Books, Inv, InsertBook(b) PROVE Inv'
<1>1. /\ reading' = reading \ {b} /\ b \in reading
      /\ added' \in [Books -> 0 .. clock] /\ \A c \in Books \ {b} : added'[c] = added[c]
      /\ UNCHANGED <<clock, marker, smtp, subscribed, up, sched, queued, job, spent, told, listed>>
  BY DEF InsertBook, Inv, TypeOK, history
<1>2. Indexed \subseteq Indexed' /\ b \notin Indexed
  BY <1>1 DEF Indexed
<1>3. TypeOK'
  <2>1. reading' \subseteq {c \in Books : added'[c] # 0}
    BY <1>1 DEF Inv, TypeOK
  <2>2. job' \in Jobs' /\ told' \subseteq Users \X Indexed'
    BY <1>1, <1>2 DEF Inv, TypeOK, Jobs
  <2> QED  BY <1>1, <2>1, <2>2 DEF Inv, TypeOK
<1>4. MissedIsPast'
  BY <1>1, <1>2 DEF MissedIsPast, Inv
<1> QED  BY <1>3, <1>4 DEF Inv

LEMMA AroundInv ==
  ASSUME Inv, SaveSMTP \/ Boot \/ Exit \/ AdminEnqueues
              \/ \E u \in Users : ToggleSubscription(u)
  PROVE  Inv'
<1> USE DEF Inv, TypeOK, MissedIsPast, Indexed, Asleep, Jobs, Spend,
            Within, history, world
<1>1. CASE SaveSMTP       BY <1>1 DEF SaveSMTP
<1>2. CASE Boot
  <2>1. job' = job /\ UNCHANGED <<Indexed, Jobs>>
    BY <1>2 DEF Boot, Jobs
  <2>2. TypeOK'
    <3>1. spent' \in [{"boots", "fails", "turns"} -> Nat]
      BY <1>2 DEF Boot
    <3> QED  BY <1>2, <2>1, <3>1 DEF Boot
  <2>3. MissedIsPast'
    BY <1>2, <2>1 DEF Boot
  <2> QED  BY <2>2, <2>3
<1>3. CASE Exit
  <2>1. Indexed' = Indexed
    BY <1>3 DEF Exit
  <2>2. /\ job' = Asleep /\ Asleep \in Jobs' /\ listed' = Unseen /\ reading' = {}
        /\ UNCHANGED <<clock, marker, smtp, subscribed, queued, spent, told>>
        /\ up' = FALSE /\ sched' = "off"
    BY <1>3, <2>1, AsleepIsJob DEF Exit, Jobs
  <2>3. added' \in [Books -> 0 .. clock]
    BY <1>3 DEF Exit
  <2>4. Unseen \in [Books -> {"unseen", "found", "missed"}] /\ \A b \in Books : Unseen[b] # "missed"
    BY DEF Unseen
  <2>5. TypeOK'
    BY <2>1, <2>2, <2>3, <2>4
  <2>6. MissedIsPast'
    BY <2>2, <2>4
  <2> QED  BY <2>5, <2>6
<1>4. CASE AdminEnqueues  BY <1>4 DEF AdminEnqueues, Enqueue
<1>5. CASE \E u \in Users : ToggleSubscription(u)
  BY <1>5 DEF ToggleSubscription
<1> QED  BY <1>1, <1>2, <1>3, <1>4, <1>5

(* A clock that starts is the present second, which no mark exceeds.       *)
LEMMA SchedulerInv == Inv /\ SchedulerStep => Inv'
<1> USE DEF Inv, TypeOK, MissedIsPast, Indexed, Asleep, Jobs, Spend,
            Within, history, world
<1> SUFFICES ASSUME Inv, SchedulerStep PROVE Inv'  OBVIOUS
<1>1. CASE ReadFirstMark      BY <1>1 DEF ReadFirstMark
<1>2. CASE SetFirstMark       BY <1>2 DEF SetFirstMark
<1>3. CASE LookForDue         BY <1>3 DEF LookForDue
<1>4. CASE SchedulerEnqueues  BY <1>4 DEF SchedulerEnqueues, Enqueue
<1> QED  BY <1>1, <1>2, <1>3, <1>4 DEF SchedulerStep

(* The list takes every book that is not behind the mark the job has read. *)
LEMMA ListInv == ASSUME Inv, ListBooks PROVE Inv'
<1> DEFINE found == AddedSince(job.since)
<1>1. Newest(found) \subseteq found /\ found \subseteq Indexed
  BY DEF Newest, AddedSince
<1>2. job.since <= marker
  BY DEF ListBooks, At, Inv, MissedIsPast
<1>3. /\ UNCHANGED <<Indexed, added, marker>>
      /\ listed' = [b \in Books |-> IF b \in found THEN "found"
                                    ELSE IF b \in Indexed THEN "missed" ELSE "unseen"]
  BY DEF ListBooks, JobFrame, world, Indexed
<1>4. job' = [job EXCEPT !.pc = "now", !.since = 0, !.books = Newest(found)]
  BY DEF ListBooks
<1>5. TypeOK'
  <2>1. job' \in Jobs
    <3>1. Newest(found) \in SUBSET Indexed
      BY <1>1
    <3> QED  BY <1>4, <3>1, JobOf DEF Inv
  <2>2. job # Asleep
    BY DEF ListBooks, At, Asleep
  <2>3. listed' \in [Books -> {"unseen", "found", "missed"}]
    BY <1>3
  <2> QED  BY <2>1, <2>2, <2>3, JobStepTypes DEF ListBooks, Inv, TypeOK
<1>6. MissedIsPast'
  <2>1. ASSUME NEW b \in Books, listed'[b] = "missed"
        PROVE  b \in Indexed /\ added[b] < marker
    <3>1. b \in Indexed /\ b \notin found
      BY <1>3, <2>1
    <3>2. ~ (added[b] >= job.since)
      BY <3>1 DEF AddedSince
    <3>3. added[b] \in Nat /\ job.since \in Nat /\ marker \in Nat
      BY DEF Inv, TypeOK, Jobs
    <3> QED  BY <1>2, <3>1, <3>2, <3>3
  <2>2. job'.pc = "now"
    BY <1>4 DEF Inv, TypeOK, Jobs
  <2> QED  BY <1>3, <2>1, <2>2 DEF MissedIsPast
<1> QED  BY <1>5, <1>6 DEF Inv

(* Every other step of the job: its type, and what it owes.                *)
LEMMA JobTypes ==
  ASSUME Inv, NEW u,
         \/ Claim \/ CheckAvailable \/ ReadMark \/ ReadSettings \/ ReadClock
         \/ ReadSubscribers \/ Mark \/ StatementFails \/ Send(u)
  PROVE  TypeOK'
<1> USE DEF Inv, TypeOK, At, Goto
<1>1. job' \in Jobs
  <2> USE AsleepIsJob DEF Jobs
  <2>1. CASE Claim            BY <2>1 DEF Claim
  <2>2. CASE CheckAvailable   BY <2>2 DEF CheckAvailable
  <2>3. CASE ReadMark         BY <2>3 DEF ReadMark
  <2>4. CASE ReadSettings     BY <2>4 DEF ReadSettings
  <2>5. CASE ReadClock        BY <2>5, JobOf DEF ReadClock
  <2>6. CASE ReadSubscribers  BY <2>6 DEF ReadSubscribers
  <2>7. CASE Mark             BY <2>7 DEF Mark
  <2>8. CASE StatementFails   BY <2>8 DEF StatementFails
  <2>9. CASE Send(u)          BY <2>9 DEF Send
  <2> QED  BY <2>1, <2>2, <2>3, <2>4, <2>5, <2>6, <2>7, <2>8, <2>9
<1>2. JobFrame
  BY DEF Claim, CheckAvailable, ReadMark, ReadSettings, ReadClock, ReadSubscribers,
         Mark, StatementFails, Send
<1>5. marker' \in 0 .. clock
  BY DEF Claim, CheckAvailable, ReadMark, ReadSettings, ReadClock, ReadSubscribers,
         Mark, StatementFails, Send, Jobs
<1>6. queued' \in BOOLEAN
  BY DEF Claim, CheckAvailable, ReadMark, ReadSettings, ReadClock, ReadSubscribers,
         Mark, StatementFails, Send
<1>7. job # Asleep \/ up
  BY DEF Claim, CheckAvailable, ReadMark, ReadSettings, ReadClock, ReadSubscribers,
         Mark, StatementFails, Send, Asleep
<1>3. spent' \in [{"boots", "fails", "turns"} -> Nat]
  BY DEF Claim, CheckAvailable, ReadMark, ReadSettings, ReadClock, ReadSubscribers,
         Mark, StatementFails, Send, Spend
<1>4. told' \subseteq Users \X Indexed /\ listed' \in [Books -> {"unseen", "found", "missed"}]
  BY DEF Claim, CheckAvailable, ReadMark, ReadSettings, ReadClock, ReadSubscribers,
         Mark, StatementFails, Send, Jobs, history, Unseen
<1> QED  BY <1>1, <1>2, <1>3, <1>4, <1>5, <1>6, <1>7, JobStepTypes

LEMMA JobMissed ==
  ASSUME Inv, NEW u,
         \/ Claim \/ CheckAvailable \/ ReadMark \/ ReadSettings \/ ReadClock
         \/ ReadSubscribers \/ Mark \/ StatementFails \/ Send(u)
  PROVE  MissedIsPast'
<1>1. UNCHANGED <<Indexed, added>>
  BY DEF Claim, CheckAvailable, ReadMark, ReadSettings, ReadClock, ReadSubscribers,
         Mark, StatementFails, Send, JobFrame, world, Indexed
<1> USE <1>1 DEF Inv, TypeOK, Jobs, MissedIsPast, At, Goto, Asleep, JobFrame, world, history
<1>2. CASE Claim            BY <1>2 DEF Claim
<1>3. CASE CheckAvailable   BY <1>3 DEF CheckAvailable
<1>4. CASE ReadMark         BY <1>4 DEF ReadMark
<1>5. CASE ReadSettings     BY <1>5 DEF ReadSettings
<1>6. CASE ReadClock        BY <1>6 DEF ReadClock
<1>7. CASE ReadSubscribers  BY <1>7 DEF ReadSubscribers
<1>8. CASE Mark             BY <1>8 DEF Mark, Unseen
<1>9. CASE StatementFails   BY <1>9 DEF StatementFails, Unseen
<1>10. CASE Send(u)         BY <1>10 DEF Send
<1> QED  BY <1>2, <1>3, <1>4, <1>5, <1>6, <1>7, <1>8, <1>9, <1>10

LEMMA StepInv == Inv /\ [Next]_vars => Inv'
<1> SUFFICES ASSUME Inv, [Next]_vars PROVE Inv'  OBVIOUS
<1>1. CASE UNCHANGED vars
  BY <1>1 DEF vars, Inv, TypeOK, MissedIsPast, Indexed, Asleep, Jobs
<1>2. CASE Next
  BY <1>2, TickInv, StampInv, InsertInv, AroundInv, SchedulerInv, ListInv, JobTypes, JobMissed
     DEF Next, JobStep, Inv
<1> QED  BY <1>1, <1>2

-----------------------------------------------------------------------------
LEMMA InvHolds == Spec => []Inv
<1> QED  BY InitInv, StepInv, PTL DEF Spec

(* The state has its types, nothing of the job outlives the process, and   *)
(* no mark lies in the future.                                             *)
THEOREM TypeCorrect == Spec => []TypeOK
<1>1. Inv => TypeOK  BY DEF Inv
<1> QED  BY <1>1, InvHolds, PTL

(* What writes the mark: the end of a digest, and the start of the clock.  *)
LEMMA MarkSteps ==
  ASSUME Inv, Next, marker' # marker
  PROVE  ClockStarts \/ Mark
<1>1. ~ Tick /\ ~ SaveSMTP /\ ~ Boot /\ ~ Exit /\ ~ AdminEnqueues
  BY DEF Tick, SaveSMTP, Boot, Exit, AdminEnqueues
<1>2. SchedulerStep => ClockStarts
  BY DEF SchedulerStep, ReadFirstMark, SetFirstMark, LookForDue, SchedulerEnqueues, ClockStarts
<1>3. JobStep => Mark
  BY DEF JobStep, Claim, CheckAvailable, ReadMark, ReadSettings, ListBooks, ReadClock,
         ReadSubscribers
<1>4. \A b \in Books : ~ StampBook(b) /\ ~ InsertBook(b)
  BY DEF StampBook, InsertBook
<1>5. ~ StatementFails /\ \A u \in Users : ~ ToggleSubscription(u) /\ ~ Send(u)
  BY DEF StatementFails, ToggleSubscription, Send
<1> QED  BY <1>1, <1>2, <1>3, <1>4, <1>5 DEF Next

(* Only books that the digest found, or that were met before it read the   *)
(* clock and inserted after its list, are passed by its mark               *)
(* (maybeSendDigest), whatever restarts, fails or is asked for by hand.    *)
THEOREM NothingElseIsSkipped == Spec => NothingElseIsPassed
<1>1. Inv /\ [Next]_vars =>
        [\A b \in Books : Passes(b) =>
           \/ ClockStarts
           \/ listed[b] = "found"
           \/ listed[b] = "unseen" /\ added[b] < job.now]_vars
  <2> SUFFICES ASSUME Inv, Next, NEW b \in Books, Passes(b), ~ ClockStarts
               PROVE  \/ listed[b] = "found"
                      \/ listed[b] = "unseen" /\ added[b] < job.now
    OBVIOUS
  <2>1. marker' # marker
    BY DEF Passes, Inv, TypeOK
  <2>2. marker' = job.now
    BY <2>1, MarkSteps DEF Mark
  <2>3. added[b] < job.now /\ ~ (added[b] < marker)
    BY <2>2 DEF Passes, Inv, TypeOK, Jobs
  <2>4. listed[b] # "missed"
    BY <2>3 DEF Inv, MissedIsPast
  <2> QED  BY <2>3, <2>4 DEF Inv, TypeOK
<1> QED  BY <1>1, InvHolds, PTL DEF Spec, NothingElseIsPassed
=============================================================================
