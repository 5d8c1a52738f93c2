------------------------------- MODULE Digest -------------------------------
(***************************************************************************)
(* The weekly digest of src/internal/web/digest.go: the scheduler, the     *)
(* job email-digest it queues (as does the administrator's play button),   *)
(* and the mark in the table meta, last_digest_sent_at, that is all of it  *)
(* that survives a restart.                                                *)
(*                                                                         *)
(* The clock counts seconds and never steps back.  The task table is       *)
(* reduced to one flag: TaskQueue shows that a key is queued or running at *)
(* most once.  The sleep between two looks at the mark has no length here. *)
(* A book that leaves the index is left out; one that is indexed again is  *)
(* another book.  The scan and the watcher read the clock for added_at     *)
(* before they parse the file and insert the book after.                   *)
(***************************************************************************)
EXTENDS Naturals, FiniteSets

CONSTANTS
  Books,      \* ids of the books that may be indexed
  Users,      \* enabled accounts with an address
  Week,       \* digestInterval, in seconds of the model
  Limit,      \* the most books one digest lists (500)
  MaxTime,    \* bound on the clock
  MaxBoots,   \* bound on the starts of the program
  MaxFails,   \* bound on the failing statements and the mails not accepted
  MaxTurns    \* bound on the changes of the settings and of the subscriptions

ASSUME DigestAssumption ==
  /\ Books \subseteq Nat
  /\ Week \in Nat \ {0} /\ Limit \in Nat
  /\ MaxTime \in Nat \ {0}
  /\ {MaxBoots, MaxFails, MaxTurns} \subseteq Nat

VARIABLES
  clock,       \* the second it is
  added,       \* added_at of each book, 0 while no scan has met its file
  reading,     \* the books with an added_at whose file is still being parsed
  marker,      \* last_digest_sent_at, 0 while it is not set
  smtp,        \* are a mail host and a sender saved?
  subscribed,  \* the users with digest_subscribed
  up,          \* is the program running?
  sched,       \* where RunDigestScheduler stands
  queued,      \* is there a queued row of email-digest?
  job,         \* the execution of email-digest
  spent,       \* how often each bounded event has happened
  told,        \* history: user and book of the mails no mark has followed yet
  listed       \* history: what the list of the running digest made of each book

vars == <<clock, added, reading, marker, smtp, subscribed, up, sched, queued, job, spent,
          told, listed>>
history == <<told, listed>>
world   == <<clock, added, reading, smtp, subscribed>>

Asleep == [pc |-> "idle", since |-> 0, books |-> {}, now |-> 0, to |-> {}]

Indexed == {b \in Books : added[b] # 0} \ reading
Unseen  == [b \in Books |-> "unseen"]
Due     == marker # 0 /\ clock >= marker + Week

Within(event, bound) == spent[event] < bound
Spend(event)         == spent' = [spent EXCEPT ![event] = @ + 1]

Init ==
  /\ clock = 1
  /\ added \in [Books -> {0, 1}] /\ reading = {}
  /\ marker = 0
  /\ smtp \in BOOLEAN
  /\ subscribed = Users
  /\ up = FALSE /\ sched = "off"
  /\ queued = FALSE /\ job = Asleep
  /\ spent = [e \in {"boots", "fails", "turns"} |-> 0]
  /\ told = {}
  /\ listed = Unseen

-----------------------------------------------------------------------------
(* Around the digest: time, the library, the forms, the process.           *)

Tick ==
  /\ clock < MaxTime
  /\ clock' = clock + 1
  /\ UNCHANGED <<added, reading, marker, smtp, subscribed, up, sched, queued, job, spent,
                 history>>

(* upsertIfChanged meets a new file: now is read, the parse begins.        *)
StampBook(b) ==
  /\ up /\ added[b] = 0
  /\ added' = [added EXCEPT ![b] = clock] /\ reading' = reading \cup {b}
  /\ UNCHANGED <<clock, marker, smtp, subscribed, up, sched, queued, job, spent, history>>

(* The book is inserted with that time, or not at all: the statement has   *)
(* failed, or the file is another copy of a title.                         *)
InsertBook(b) ==
  /\ b \in reading /\ reading' = reading \ {b}
  /\ added' \in {added, [added EXCEPT ![b] = 0]}
  /\ UNCHANGED <<clock, marker, smtp, subscribed, up, sched, queued, job, spent, history>>

SaveSMTP ==
  /\ up /\ Within("turns", MaxTurns) /\ Spend("turns")
  /\ smtp' = ~smtp
  /\ UNCHANGED <<clock, added, reading, marker, subscribed, up, sched, queued, job, history>>

ToggleSubscription(u) ==
  /\ up /\ smtp /\ Within("turns", MaxTurns) /\ Spend("turns")
  /\ subscribed' = IF u \in subscribed THEN subscribed \ {u} ELSE subscribed \cup {u}
  /\ UNCHANGED <<clock, added, reading, marker, smtp, up, sched, queued, job, history>>

(* Start marks the rows left behind as interrupted before any service runs.*)
Boot ==
  /\ ~up /\ Within("boots", MaxBoots) /\ Spend("boots")
  /\ up' = TRUE /\ sched' = "init" /\ queued' = FALSE
  /\ UNCHANGED <<world, marker, job, history>>

Exit ==
  /\ up
  /\ up' = FALSE /\ sched' = "off" /\ job' = Asleep /\ listed' = Unseen
  /\ added' = [b \in Books |-> IF b \in reading THEN 0 ELSE added[b]] /\ reading' = {}
  /\ UNCHANGED <<clock, smtp, subscribed, marker, queued, spent, told>>

-----------------------------------------------------------------------------
(* RunDigestScheduler.                                                     *)

(* GetMeta's error is dropped: a mark that cannot be read is none.         *)
ReadFirstMark ==
  /\ sched = "init"
  /\ \/ sched' = (IF marker = 0 THEN "first" ELSE "look") /\ UNCHANGED spent
     \/ sched' = "first" /\ Within("fails", MaxFails) /\ Spend("fails")
  /\ UNCHANGED <<world, marker, up, queued, job, history>>

(* The clock starts; an error is logged and the loop begins without it.    *)
SetFirstMark ==
  /\ sched = "first" /\ sched' = "look"
  /\ \/ marker' = clock /\ UNCHANGED spent
     \/ Within("fails", MaxFails) /\ Spend("fails") /\ UNCHANGED marker
  /\ UNCHANGED <<world, up, queued, job, history>>

(* Mutant: a look the minute after the week has passed is too late.        *)
LookOnTime ==
  /\ sched = "look" /\ marker # 0 /\ clock = marker + Week /\ sched' = "enqueue"
  /\ UNCHANGED <<world, marker, up, queued, job, spent, history>>

LookForDue ==
  /\ sched = "look" /\ Due /\ sched' = "enqueue"
  /\ UNCHANGED <<world, marker, up, queued, job, spent, history>>

(* Tasks.Enqueue: nothing is inserted while a row of the key is active.    *)
Enqueue == queued' = (queued \/ job.pc = "idle")

SchedulerEnqueues ==
  /\ sched = "enqueue" /\ sched' = "look" /\ Enqueue
  /\ UNCHANGED <<world, marker, up, job, spent, history>>

AdminEnqueues ==
  /\ up /\ ~queued /\ job.pc = "idle" /\ Enqueue
  /\ UNCHANGED <<world, marker, up, sched, job, spent, history>>

-----------------------------------------------------------------------------
(* SendDigestNow and maybeSendDigest, one statement at a time.             *)

At(pc)   == job.pc = pc
Goto(pc) == job' = [job EXCEPT !.pc = pc]
JobFrame == UNCHANGED <<world, up, sched>>

Claim ==
  /\ up /\ queued /\ At("idle")
  /\ queued' = FALSE /\ Goto("available")
  /\ JobFrame /\ UNCHANGED <<marker, spent, history>>

(* smtpAvailable, and the second reading of the same settings after the    *)
(* mark: without a host the job ends and the mark stays.                   *)
CheckAvailable ==
  /\ At("available")
  /\ IF smtp THEN Goto("since") ELSE job' = Asleep
  /\ JobFrame /\ UNCHANGED <<marker, queued, spent, history>>

ReadMark ==
  /\ At("since")
  /\ job' = [job EXCEPT !.pc = "settings", !.since = marker]
  /\ JobFrame /\ UNCHANGED <<marker, queued, spent, history>>

ReadSettings ==
  /\ At("settings")
  /\ IF smtp THEN Goto("list") ELSE job' = Asleep
  /\ JobFrame /\ UNCHANGED <<marker, queued, spent, history>>

(* added_at >= since, newest first, at most Limit books; since = 0 is no   *)
(* condition at all.                                                       *)
AddedSince(t)     == {b \in Indexed : added[b] >= t}
Before(a, b)      == added[a] > added[b] \/ (added[a] = added[b] /\ a <= b)
Newest(S)         == {b \in S : Cardinality({a \in S : Before(a, b)}) <= Limit}

ListBooks ==
  /\ At("list")
  /\ LET found == AddedSince(job.since) IN
       /\ job' = [job EXCEPT !.pc = "now", !.since = 0, !.books = Newest(found)]
       /\ listed' = [b \in Books |-> IF b \in found THEN "found"
                                     ELSE IF b \in Indexed THEN "missed" ELSE "unseen"]
  /\ JobFrame /\ UNCHANGED <<marker, queued, spent, told>>

ReadClock ==
  /\ At("now")
  /\ job' = [job EXCEPT !.pc = IF job.books = {} THEN "mark" ELSE "users", !.now = clock]
  /\ JobFrame /\ UNCHANGED <<marker, queued, spent, history>>

ReadSubscribers ==
  /\ At("users")
  /\ job' = [job EXCEPT !.pc = IF subscribed = {} THEN "mark" ELSE "send", !.to = subscribed]
  /\ JobFrame /\ UNCHANGED <<marker, queued, spent, history>>

(* One mail: accepted, or refused, which is logged and never tried again.  *)
Send(u) ==
  /\ At("send") /\ u \in job.to
  /\ job' = [job EXCEPT !.to = @ \ {u}, !.pc = IF job.to = {u} THEN "mark" ELSE "send"]
  /\ \/ told' = told \cup ({u} \X job.books) /\ UNCHANGED spent
     \/ Within("fails", MaxFails) /\ Spend("fails") /\ UNCHANGED told
  /\ JobFrame /\ UNCHANGED <<marker, queued, listed>>

(* Mutant: the mark is the time at which it is written.                    *)
MarkLate ==
  /\ At("mark") /\ job' = Asleep
  /\ marker' = clock /\ told' = {} /\ listed' = Unseen
  /\ JobFrame /\ UNCHANGED <<queued, spent>>

Mark ==
  /\ At("mark") /\ job' = Asleep
  /\ marker' = job.now /\ told' = {} /\ listed' = Unseen
  /\ JobFrame /\ UNCHANGED <<queued, spent>>

(* A statement fails: the job logs it and ends with the mark as it was.    *)
StatementFails ==
  /\ job.pc \in {"since", "settings", "list", "users", "mark"}
  /\ Within("fails", MaxFails) /\ Spend("fails")
  /\ job' = Asleep /\ listed' = Unseen
  /\ JobFrame /\ UNCHANGED <<marker, queued, told>>

-----------------------------------------------------------------------------
JobStep ==
  Claim \/ CheckAvailable \/ ReadMark \/ ReadSettings \/ ListBooks \/ ReadClock
  \/ ReadSubscribers \/ Mark
SchedulerStep == ReadFirstMark \/ SetFirstMark \/ LookForDue \/ SchedulerEnqueues

Next ==
  \/ Tick \/ SaveSMTP \/ Boot \/ Exit \/ AdminEnqueues
  \/ SchedulerStep \/ JobStep \/ StatementFails
  \/ \E b \in Books : StampBook(b) \/ InsertBook(b)
  \/ \E u \in Users : ToggleSubscription(u) \/ Send(u)

Spec == Init /\ [][Next]_vars

(* The goroutines of the scheduler and of the worker are scheduled, and    *)
(* their statements return.  Nothing is assumed of Send: mail.Send sets no *)
(* deadline on its connection.                                             *)
FairSpec == Spec /\ WF_vars(SchedulerStep) /\ WF_vars(JobStep)

-----------------------------------------------------------------------------
Jobs == [pc    : {"idle", "available", "since", "settings", "list", "now",
                  "users", "send", "mark"},
         since : 0 .. clock,
         books : SUBSET Indexed,
         now   : 0 .. clock,
         to    : SUBSET Users]

(* Types, and what ties the job to its process and its data: nothing runs  *)
(* while the program is down, a digest is sent only about books it listed, *)
(* and no mark lies in the future.                                         *)
TypeOK ==
  /\ clock \in 1 .. MaxTime
  /\ added \in [Books -> 0 .. clock] /\ marker \in 0 .. clock
  /\ reading \subseteq {b \in Books : added[b] # 0}
  /\ smtp \in BOOLEAN /\ subscribed \subseteq Users
  /\ up \in BOOLEAN /\ queued \in BOOLEAN
  /\ sched \in {"off", "init", "first", "look", "enqueue"}
  /\ job \in Jobs
  /\ spent \in [{"boots", "fails", "turns"} -> Nat]
  /\ told \subseteq Users \X Indexed
  /\ listed \in [Books -> {"unseen", "found", "missed"}]
  /\ ~up => sched = "off" /\ job = Asleep /\ reading = {}

(* A step puts the mark past the time a book was added.                    *)
Passes(b) == added[b] # 0 /\ marker <= added[b] /\ added[b] < marker'

(* The scheduler starts the clock: on the first run, or when it could not  *)
(* read the mark.                                                          *)
ClockStarts == sched = "first" /\ sched' = "look"

(* The mark of a digest passes a book only when that digest found it (the  *)
(* newest Limit are then listed), or when the book was met before the      *)
(* clock was read and inserted after the list was made.  No restart, no    *)
(* failing statement, no digest asked for by hand and no slow mail makes a *)
(* digest pass another one (maybeSendDigest: the order of List, time.Now   *)
(* and SetMeta).                                                           *)
NothingElseIsPassed ==
  [][\A b \in Books : Passes(b) =>
       \/ ClockStarts
       \/ listed[b] = "found"
       \/ listed[b] = "unseen" /\ added[b] < job.now]_vars

(* A digest that is due is sent and marked in the end: the scheduler asks  *)
(* for it again after every failure, unless mail is switched off, the      *)
(* program is down or a mail server keeps the worker waiting.  A scheduler *)
(* that could not read the mark and set it anew ends the waiting as well.  *)
DueIsMarked == Due ~> (~Due \/ ~smtp \/ ~up \/ job.pc = "send")

-----------------------------------------------------------------------------
(* digest.go:24-25: progress is tracked in the database "so a restart      *)
(* doesn't cause a duplicate or missed send".  Neither half holds.         *)

(* No digest is about to tell a user of a book that an earlier one, never  *)
(* marked, has told of.                                                    *)
RestartRepeatsNothing ==
  At("send") => (job.to \X job.books) \cap told = {}

(* Once there is a mark, it passes only books that a digest found.         *)
NothingIsMissed ==
  [][\A b \in Books : Passes(b) /\ marker # 0 => listed[b] = "found"]_vars
=============================================================================
