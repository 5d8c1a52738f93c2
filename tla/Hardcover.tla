----------------------------- MODULE Hardcover -----------------------------
(***************************************************************************)
(* The Hardcover client (internal/hardcover): one limiter for every        *)
(* goroutine that asks Hardcover, and the settings, under one mutex.       *)
(*                                                                         *)
(* A caller is the enrichment queue or a page of the edit form.  It asks   *)
(* Enabled, makes a first call (Search or GetByID) and, when a match was   *)
(* chosen, a second one (Detail) without asking again.  throttle sleeps    *)
(* with the mutex held; whoever needs the mutex waits, Enabled and         *)
(* SetConfig included.  What is asked and answered is left out.            *)
(***************************************************************************)
EXTENDS Naturals, FiniteSets

CONSTANTS
  Callers,   \* goroutines that ask Hardcover
  Tokens,    \* API tokens
  NoToken,   \* the empty token
  NoSave,    \* no form is being saved
  Free,      \* nobody holds the mutex
  Interval   \* minInterval, in ticks of the clock

ASSUME HardcoverAssumption ==
  /\ Interval \in Nat /\ NoToken \notin Tokens
  /\ Free \notin Callers /\ IsFiniteSet(Callers)

VARIABLES
  config,   \* the client's enabled and token
  lock,     \* who holds the mutex between two steps: who sleeps in throttle
  since,    \* the time since lastCallTime, Interval when it is longer
  call,     \* what each caller is doing
  saving,   \* the settings a saved form is about to give to SetConfig
  latest,   \* history: whose request got its turn since the settings changed
  ahead     \* history: how far the requests are ahead of one per interval

vars == <<config, lock, since, call, saving, latest, ahead>>

Config == [enabled : BOOLEAN, token : Tokens \cup {NoToken}]
ASSUME NoSaveAssumption == NoSave \notin Config

(* left: what remains of the sleep; token: in the last request's header;   *)
(* second: the call is the second one.  At "asked" a request is under way. *)
Pc   == {"idle", "ask", "wait", "sleep", "token", "asked"}
Call == [pc : Pc, left : 0 .. Interval, token : Tokens \cup {NoToken}, second : BOOLEAN]

Idle == [pc |-> "idle", left |-> 0, token |-> NoToken, second |-> FALSE]

At(c, pc) == call[c].pc = pc

Init ==
  /\ config \in Config
  /\ lock = Free /\ since = Interval
  /\ call = [c \in Callers |-> Idle]
  /\ saving = NoSave /\ latest = {} /\ ahead = 0

-----------------------------------------------------------------------------
Enabled == config.enabled /\ config.token # NoToken

Arrive(c) ==
  /\ At(c, "idle")
  /\ call' = [call EXCEPT ![c].pc = "ask"]
  /\ UNCHANGED <<config, lock, since, saving, latest, ahead>>

(* Enabled, and the first call when Hardcover is.                          *)
AskEnabled(c) ==
  /\ At(c, "ask") /\ lock = Free
  /\ call' = [call EXCEPT ![c].pc = IF Enabled THEN "wait" ELSE "idle"]
  /\ UNCHANGED <<config, lock, since, saving, latest, ahead>>

(* Mutant: the sleep is outside the mutex.                                 *)
SleepUnlocked(c) ==
  /\ At(c, "wait") /\ lock = Free
  /\ call' = [call EXCEPT ![c].pc = "sleep", ![c].left = Interval - since]
  /\ UNCHANGED <<config, lock, since, saving, latest, ahead>>

(* throttle: the mutex is taken and the sleep begins.                      *)
Throttle(c) ==
  /\ At(c, "wait") /\ lock = Free
  /\ lock' = c
  /\ call' = [call EXCEPT ![c].pc = "sleep", ![c].left = Interval - since]
  /\ UNCHANGED <<config, since, saving, latest, ahead>>

(* Mutant: the mutex is not released.                                      *)
KeepLocked(c) ==
  /\ At(c, "sleep") /\ call[c].left = 0
  /\ since' = 0
  /\ call' = [call EXCEPT ![c].pc = "token"]
  /\ latest' = latest \cup {c}
  /\ UNCHANGED <<config, lock, saving, ahead>>

(* throttle: the sleep is over, lastCallTime is now.                       *)
Pass(c) ==
  /\ At(c, "sleep") /\ call[c].left = 0
  /\ since' = 0 /\ lock' = Free
  /\ call' = [call EXCEPT ![c].pc = "token"]
  /\ latest' = latest \cup {c}
  /\ UNCHANGED <<config, saving, ahead>>

(* Mutant: the second call has the token of the first.                     *)
TokenOnce(c) ==
  /\ At(c, "token") /\ lock = Free
  /\ call' = [call EXCEPT ![c].pc = "asked",
                          ![c].token = IF call[c].second THEN @ ELSE config.token]
  /\ ahead' = ahead + Interval
  /\ UNCHANGED <<config, lock, since, saving, latest>>

(* currentToken, for the header; the request leaves.  Whoever takes the    *)
(* mutex first in throttle keeps the caller here for a whole sleep.        *)
CurrentToken(c) ==
  /\ At(c, "token") /\ lock = Free
  /\ call' = [call EXCEPT ![c].pc = "asked", ![c].token = config.token]
  /\ ahead' = ahead + Interval
  /\ UNCHANGED <<config, lock, since, saving, latest>>

(* An answer, an error, the timeout or a page that was closed: a match     *)
(* leads to the second call.                                               *)
Answer(c) ==
  /\ At(c, "asked")
  /\ \/ ~ call[c].second /\ call' = [call EXCEPT ![c].pc = "wait", ![c].second = TRUE]
     \/ call' = [call EXCEPT ![c] = Idle]
  /\ latest' = latest \ {c}
  /\ UNCHANGED <<config, lock, since, saving, ahead>>

(* ServerIntegrationsHardcoverSave: an empty field keeps the token.        *)
SaveForm ==
  /\ saving = NoSave
  /\ \E e \in BOOLEAN, t \in Tokens \cup {config.token} :
       saving' = [enabled |-> e, token |-> t]
  /\ UNCHANGED <<config, lock, since, call, latest, ahead>>

SetConfig ==
  /\ saving # NoSave /\ lock = Free
  /\ config' = saving /\ saving' = NoSave /\ latest' = {}
  /\ UNCHANGED <<lock, since, call, ahead>>

(* The clock.                                                              *)
Tick ==
  /\ since' = IF since < Interval THEN since + 1 ELSE since
  /\ call' = [c \in Callers |-> IF call[c].left > 0
                                THEN [call[c] EXCEPT !.left = @ - 1] ELSE call[c]]
  /\ ahead' = IF ahead > 0 THEN ahead - 1 ELSE 0
  /\ UNCHANGED <<config, lock, saving, latest>>

-----------------------------------------------------------------------------
(* What waits for the mutex: sync.Mutex does not tell one from another.    *)
TakeMutex(c) == AskEnabled(c) \/ Throttle(c) \/ CurrentToken(c)

Step(c) == Arrive(c) \/ TakeMutex(c) \/ Pass(c) \/ Answer(c)

Next == (\E c \in Callers : Step(c)) \/ SaveForm \/ SetConfig \/ Tick

Spec == Init /\ [][Next]_vars

(* sync.Mutex hands the lock to whoever has waited for a millisecond, so   *)
(* nobody who waits for it is passed by for ever; the HTTP client gives up *)
(* after 30 seconds; time passes.                                          *)
Fairness ==
  /\ WF_vars(Tick) /\ SF_vars(SetConfig)
  /\ \A c \in Callers : SF_vars(TakeMutex(c)) /\ WF_vars(Pass(c) \/ Answer(c))

FairSpec == Spec /\ Fairness

-----------------------------------------------------------------------------
TypeOK ==
  /\ config \in Config
  /\ lock \in Callers \cup {Free}
  /\ since \in 0 .. Interval
  /\ call \in [Callers -> Call]
  /\ saving \in Config \cup {NoSave}
  /\ latest \subseteq Callers
  /\ ahead \in Nat

(* "Every call goes through a shared rate limiter": in no stretch of time  *)
(* do more requests leave than one per interval, one more, and one for     *)
(* each goroutine that had its turn and was kept from the token by the     *)
(* sleeps of the others.                                                   *)
RateIsKept == ahead <= (Cardinality(Callers) + 1) * Interval

(* A request that got its turn after the token was changed does not carry  *)
(* the old one, however long it had been waiting.                          *)
NewTokenIsUsed ==
  \A c \in latest : At(c, "asked") => call[c].token = config.token

(* Although the mutex is held through a sleep, no caller waits for ever,   *)
(* and no saved form.                                                      *)
EveryoneIsServed ==
  /\ \A c \in Callers : ~ At(c, "idle") ~> At(c, "idle")
  /\ saving # NoSave ~> saving = NoSave

-----------------------------------------------------------------------------
(* What the comments say and the code does not ensure: what is in flight   *)
(* picks a change up "immediately", and nothing is asked of a Hardcover    *)
(* that is turned off.                                                     *)
NothingAskedWhenOff == [][\A c \in Callers : At(c, "token") /\ At(c, "asked")' => Enabled]_vars

(* "At least minInterval since the previous call": turns are that far      *)
(* apart in throttle, but a caller that had its turn waits for the mutex   *)
(* behind the next sleeper, and both leave together.                       *)
RequestsAreSpaced == ahead <= Interval
=============================================================================
