-------------------------- MODULE HardcoverProofs --------------------------
(***************************************************************************)
(* What holds of the Hardcover client for any number of goroutines, any    *)
(* tokens and any interval.  RateIsKept rests on two facts about the       *)
(* mutex: who sleeps in throttle holds it, and the rest of the sleep       *)
(* completes the interval, as nobody else can pass meanwhile.  So a turn   *)
(* costs an interval, and the requests that left, those whose turn is over *)
(* and the time since the last turn have a bound together (Reserve).       *)
(***************************************************************************)
EXTENDS Hardcover, FiniteSetTheorems, TLAPS

SleeperHoldsLock == \A c \in Callers : At(c, "sleep") <=> lock = c

SleepIsEnough == \A c \in Callers : At(c, "sleep") => call[c].left + since >= Interval

(* Who had a turn and has not asked yet.                                   *)
Passed == {c \in Callers : At(c, "token")}

Reserve ==
  ahead + Interval * Cardinality(Passed) + since <= (Cardinality(Callers) + 1) * Interval

Inv == TypeOK /\ SleeperHoldsLock /\ SleepIsEnough /\ NewTokenIsUsed /\ Reserve

-----------------------------------------------------------------------------
(* A caller that has its turn joins those who passed, one that asks leaves *)
(* them: the count moves by one.                                           *)
LEMMA PassedCount ==
  ASSUME NEW c \in Callers
  PROVE  /\ Cardinality(Passed) \in Nat /\ Cardinality(Callers) \in Nat
         /\ Cardinality(Passed) <= Cardinality(Callers)
         /\ c \notin Passed =>
              Cardinality(Passed \cup {c}) = Cardinality(Passed) + 1
         /\ c \in Passed =>
              Cardinality(Passed \ {c}) = Cardinality(Passed) - 1
<1>1. Passed \subseteq Callers /\ IsFiniteSet(Callers)
  BY HardcoverAssumption DEF Passed
<1>2. /\ IsFiniteSet(Passed) /\ Cardinality(Passed) \in Nat /\ Cardinality(Callers) \in Nat
      /\ Cardinality(Passed) <= Cardinality(Callers)
  BY <1>1, FS_Subset, FS_CardinalityType
<1> QED
  BY <1>2, FS_AddElement, FS_RemoveElement

(* Multiples of an interval.                                               *)
LEMMA Multiples ==
  ASSUME NEW i \in Nat, NEW k \in Nat, NEW n \in Nat
  PROVE  /\ i * (k + 1) = i * k + i /\ i * k \in Nat /\ (n + 1) * i = i * n + i
         /\ k <= n => i * k <= i * n
<1>1. ASSUME k <= n PROVE i * k <= i * n
  <2>1. n - k \in Nat /\ i * n = i * k + i * (n - k)
    BY <1>1
  <2>2. i * (n - k) >= 0 /\ i * k \in Int /\ i * (n - k) \in Int
    BY <2>1
  <2> QED
    BY <2>1, <2>2
<1> QED
  BY <1>1

-----------------------------------------------------------------------------
(* The initial states are typed, nobody sleeps and nothing is under way.   *)
LEMMA InitInv == Init => Inv
<1> SUFFICES ASSUME Init PROVE Inv
  OBVIOUS
<1> USE HardcoverAssumption, NoSaveAssumption
<1>1. Idle \in Call
  BY DEF Idle, Call, Pc
<1>2. TypeOK
  BY <1>1 DEF Init, TypeOK
<1>3. SleeperHoldsLock
  BY DEF Init, SleeperHoldsLock, At, Idle
<1>4. SleepIsEnough /\ NewTokenIsUsed
  BY DEF Init, SleepIsEnough, NewTokenIsUsed, At, Idle
<1>5. Reserve
  <2>1. Passed = {}
    BY DEF Init, Passed, At, Idle
  <2>2. Cardinality(Passed) = 0 /\ Cardinality(Callers) \in Nat
    BY <2>1, FS_EmptySet, FS_CardinalityType
  <2>3. Interval * 0 = 0 /\ (Cardinality(Callers) + 1) * Interval >= Interval
    BY <2>2, Multiples
  <2> QED
    BY <2>2, <2>3 DEF Init, Reserve
<1> QED
  BY <1>2, <1>3, <1>4, <1>5 DEF Inv

(* Every action keeps the types.                                           *)
LEMMA NextType == TypeOK /\ [Next]_vars => TypeOK'
<1> SUFFICES ASSUME TypeOK, [Next]_vars PROVE TypeOK'
  OBVIOUS
<1> USE HardcoverAssumption, NoSaveAssumption DEF TypeOK
<1>1. ASSUME NEW c \in Callers, Step(c) PROVE TypeOK'
  <2> USE DEF At
  <2>0. call[c] \in Call
    OBVIOUS
  <2>1. CASE Arrive(c)
    BY <2>0, <2>1 DEF Arrive, Call, Pc
  <2>2. CASE AskEnabled(c)
    BY <2>0, <2>2 DEF AskEnabled, Call, Pc
  <2>3. CASE Throttle(c)
    <3>1. Interval - since \in 0 .. Interval
      OBVIOUS
    <3> QED
      BY <2>0, <2>3, <3>1 DEF Throttle, Call, Pc
  <2>4. CASE Pass(c)
    BY <2>0, <2>4 DEF Pass, Call, Pc
  <2>5. CASE CurrentToken(c)
    <3>1. call' \in [Callers -> Call]
      BY <2>0, <2>5 DEF CurrentToken, Call, Pc, Config
    <3>2. ahead' \in Nat
      BY <2>5 DEF CurrentToken
    <3> QED
      BY <2>5, <3>1, <3>2 DEF CurrentToken
  <2>6. CASE Answer(c)
    <3>0. "wait" \in Pc /\ TRUE \in BOOLEAN
      BY DEF Pc
    <3>1. [call[c] EXCEPT !.pc = "wait", !.second = TRUE] \in Call
      BY <2>0, <3>0, Zenon DEF Call
    <3>2. Idle \in Call
      BY DEF Idle, Call, Pc
    <3>3. call' \in [Callers -> Call]
      BY <2>6, <3>1, <3>2 DEF Answer
    <3> QED
      BY <2>6, <3>3 DEF Answer
  <2> QED
    BY <1>1, <2>1, <2>2, <2>3, <2>4, <2>5, <2>6 DEF Step, TakeMutex
<1>2. CASE SaveForm
  <2>1. saving' \in Config
    BY <1>2 DEF SaveForm, Config
  <2> QED
    BY <1>2, <2>1 DEF SaveForm
<1>3. CASE SetConfig
  BY <1>3 DEF SetConfig
<1>4. CASE Tick
  <2>1. since' \in 0 .. Interval
    BY <1>4 DEF Tick
  <2>2. ASSUME NEW c \in Callers PROVE call'[c] \in Call
    BY <1>4, <2>2 DEF Tick, Call
  <2>3. call' \in [Callers -> Call]
    BY <1>4, <2>2 DEF Tick
  <2> QED
    BY <1>4, <2>1, <2>3 DEF Tick
<1>5. CASE UNCHANGED vars
  BY <1>5 DEF vars
<1> QED
  BY <1>1, <1>2, <1>3, <1>4, <1>5 DEF Next

(* The mutex is taken when a sleep begins and released when it ends.       *)
LEMMA NextLock == Inv /\ [Next]_vars => SleeperHoldsLock'
<1> SUFFICES ASSUME Inv, [Next]_vars PROVE SleeperHoldsLock'
  OBVIOUS
<1> USE HardcoverAssumption DEF Inv, TypeOK, SleeperHoldsLock, At
<1>1. ASSUME NEW c \in Callers, Step(c) PROVE SleeperHoldsLock'
  <2>1. CASE Arrive(c)
    BY <2>1 DEF Arrive, Call
  <2>2. CASE AskEnabled(c)
    BY <2>2 DEF AskEnabled, Call
  <2>3. CASE Throttle(c)
    BY <2>3 DEF Throttle, Call
  <2>4. CASE Pass(c)
    BY <2>4 DEF Pass, Call
  <2>5. CASE CurrentToken(c)
    BY <2>5 DEF CurrentToken, Call
  <2>6. CASE Answer(c)
    BY <2>6 DEF Answer, Idle, Call
  <2> QED
    BY <1>1, <2>1, <2>2, <2>3, <2>4, <2>5, <2>6 DEF Step, TakeMutex
<1>2. CASE SaveForm \/ SetConfig
  BY <1>2 DEF SaveForm, SetConfig
<1>3. CASE Tick
  <2>1. \A c \in Callers : call'[c].pc = call[c].pc
    BY <1>3 DEF Tick, Call
  <2> QED
    BY <1>3, <2>1 DEF Tick
<1>4. CASE UNCHANGED vars
  BY <1>4 DEF vars
<1> QED
  BY <1>1, <1>2, <1>3, <1>4 DEF Next

(* A sleep is measured under the mutex: what is left of it and what has    *)
(* passed since the last call make up the interval until it ends.          *)
LEMMA NextSleep == Inv /\ [Next]_vars => SleepIsEnough'
<1> SUFFICES ASSUME Inv, [Next]_vars PROVE SleepIsEnough'
  OBVIOUS
<1> USE HardcoverAssumption DEF Inv, TypeOK, SleepIsEnough, At
<1>1. ASSUME NEW c \in Callers, Step(c) PROVE SleepIsEnough'
  <2>1. CASE Arrive(c)
    BY <2>1 DEF Arrive, Call
  <2>2. CASE AskEnabled(c)
    BY <2>2 DEF AskEnabled, Call
  <2>3. CASE Throttle(c)
    BY <2>3 DEF Throttle, Call
  <2>4. CASE Pass(c)
    <3>1. \A d \in Callers : ~ call'[d].pc = "sleep"
      BY <2>4 DEF Pass, Call, SleeperHoldsLock
    <3> QED
      BY <3>1
  <2>5. CASE CurrentToken(c)
    BY <2>5 DEF CurrentToken, Call
  <2>6. CASE Answer(c)
    BY <2>6 DEF Answer, Idle, Call
  <2> QED
    BY <1>1, <2>1, <2>2, <2>3, <2>4, <2>5, <2>6 DEF Step, TakeMutex
<1>2. CASE SaveForm \/ SetConfig
  BY <1>2 DEF SaveForm, SetConfig
<1>3. CASE Tick
  <2> SUFFICES ASSUME NEW c \in Callers, call'[c].pc = "sleep"
               PROVE  call'[c].left + since' >= Interval
    OBVIOUS
  <2>1. call'[c] = IF call[c].left > 0 THEN [call[c] EXCEPT !.left = @ - 1] ELSE call[c]
    BY <1>3 DEF Tick
  <2>2. call[c].left \in 0 .. Interval /\ call[c].pc = "sleep"
    BY <2>1 DEF Call
  <2>3. since' = IF since < Interval THEN since + 1 ELSE since
    BY <1>3 DEF Tick
  <2>4. call'[c].left = IF call[c].left > 0 THEN call[c].left - 1 ELSE call[c].left
    BY <2>1 DEF Call
  <2> QED
    BY <2>2, <2>3, <2>4
<1>4. CASE UNCHANGED vars
  BY <1>4 DEF vars
<1> QED
  BY <1>1, <1>2, <1>3, <1>4 DEF Next

(* The token is read after the wait, and a change forgets who had waited.  *)
LEMMA NextToken == Inv /\ [Next]_vars => NewTokenIsUsed'
<1> SUFFICES ASSUME Inv, [Next]_vars PROVE NewTokenIsUsed'
  OBVIOUS
<1> USE DEF Inv, TypeOK, NewTokenIsUsed, At
<1>1. ASSUME NEW c \in Callers, Step(c) PROVE NewTokenIsUsed'
  <2>1. CASE Arrive(c)
    BY <2>1 DEF Arrive, Call
  <2>2. CASE AskEnabled(c)
    BY <2>2 DEF AskEnabled, Call
  <2>3. CASE Throttle(c)
    BY <2>3 DEF Throttle, Call
  <2>4. CASE Pass(c)
    BY <2>4 DEF Pass, Call
  <2>5. CASE CurrentToken(c)
    BY <2>5 DEF CurrentToken, Call
  <2>6. CASE Answer(c)
    BY <2>6 DEF Answer, Call
  <2> QED
    BY <1>1, <2>1, <2>2, <2>3, <2>4, <2>5, <2>6 DEF Step, TakeMutex
<1>2. CASE SaveForm
  BY <1>2 DEF SaveForm
<1>3. CASE SetConfig
  BY <1>3 DEF SetConfig
<1>4. CASE Tick
  <2>1. \A c \in Callers : call'[c].pc = call[c].pc /\ call'[c].token = call[c].token
    BY <1>4 DEF Tick, Call
  <2> QED
    BY <1>4, <2>1 DEF Tick
<1>5. CASE UNCHANGED vars
  BY <1>5 DEF vars
<1> QED
  BY <1>1, <1>2, <1>3, <1>4, <1>5 DEF Next

(* The end of a sleep takes an interval off since and puts it on those who *)
(* passed; a request moves it on to ahead; the clock only takes off ahead. *)
LEMMA NextReserve == Inv /\ [Next]_vars => Reserve'
<1> SUFFICES ASSUME Inv, [Next]_vars PROVE Reserve'
  OBVIOUS
<1> DEFINE k == Cardinality(Passed)  n == Cardinality(Callers)
<1>0. /\ Interval \in Nat /\ ahead \in Nat /\ since \in 0 .. Interval
      /\ call \in [Callers -> Call] /\ n \in Nat
      /\ ahead + Interval * k + since <= (n + 1) * Interval
  BY HardcoverAssumption, FS_CardinalityType DEF Inv, TypeOK, Reserve
<1>1. ASSUME Passed' = Passed, ahead' = ahead, since' = since PROVE Reserve'
  BY <1>0, <1>1 DEF Reserve
<1>2. ASSUME NEW c \in Callers, Step(c) PROVE Reserve'
  <2> USE <1>0 DEF At
  <2>1. CASE Arrive(c)
    BY <1>1, <2>1 DEF Arrive, Passed, Call
  <2>2. CASE AskEnabled(c)
    BY <1>1, <2>2 DEF AskEnabled, Passed, Call
  <2>3. CASE Throttle(c)
    BY <1>1, <2>3 DEF Throttle, Passed, Call
  <2>4. CASE Pass(c)
    <3>1. since = Interval
      BY <2>4 DEF Pass, Inv, SleepIsEnough
    <3>2. c \notin Passed /\ Passed' = Passed \cup {c} /\ ahead' = ahead /\ since' = 0
      BY <2>4 DEF Pass, Passed, Call
    <3>3. k \in Nat /\ Cardinality(Passed') = k + 1
      BY <3>2, PassedCount
    <3>4. Interval * (k + 1) = Interval * k + Interval /\ Interval * k \in Nat
          /\ (n + 1) * Interval \in Nat
      BY <3>3, Multiples
    <3> QED
      BY <3>1, <3>2, <3>3, <3>4 DEF Reserve
  <2>5. CASE CurrentToken(c)
    <3>1. c \in Passed /\ Passed' = Passed \ {c}
          /\ ahead' = ahead + Interval /\ since' = since
      BY <2>5 DEF CurrentToken, Passed, Call
    <3>2. k \in Nat /\ Cardinality(Passed') = k - 1
      BY <3>1, PassedCount
    <3>3. k - 1 \in Nat
      <4>1. IsFiniteSet(Passed \ {c})
        BY HardcoverAssumption, FS_Subset DEF Passed
      <4> QED
        BY <3>1, <3>2, <4>1, FS_CardinalityType
    <3>4. PICK j \in Nat : k = j + 1 /\ Cardinality(Passed') = j
      BY <3>2, <3>3
    <3>5. Interval * k = Interval * j + Interval /\ Interval * j \in Nat
          /\ (n + 1) * Interval \in Nat
      BY <3>4, Multiples
    <3> QED
      BY <3>1, <3>4, <3>5 DEF Reserve
  <2>6. CASE Answer(c)
    BY <1>1, <2>6 DEF Answer, Passed, Idle, Call
  <2> QED
    BY <1>2, <2>1, <2>2, <2>3, <2>4, <2>5, <2>6 DEF Step, TakeMutex
<1>3. CASE SaveForm \/ SetConfig
  BY <1>1, <1>3 DEF SaveForm, SetConfig, Passed, At
<1>4. CASE Tick
  <2>1. Passed' = Passed
    BY <1>0, <1>4 DEF Tick, Passed, At, Call
  <2>2. k \in Nat /\ k <= n
    BY HardcoverAssumption, FS_Subset, FS_CardinalityType DEF Passed
  <2>3. Interval * k \in Nat /\ Interval * k <= Interval * n
        /\ (n + 1) * Interval = Interval * n + Interval /\ Interval * n \in Nat
    BY <1>0, <2>2, Multiples
  <2>4. since' \in 0 .. Interval /\ since' <= since + 1
        /\ ahead' = IF ahead > 0 THEN ahead - 1 ELSE 0
    BY <1>0, <1>4 DEF Tick
  <2> HIDE DEF k, n
  <2>5. ahead' + Interval * k + since' <= (n + 1) * Interval
    BY <1>0, <2>3, <2>4
  <2> QED
    BY <2>1, <2>5 DEF Reserve, k, n
<1>5. CASE UNCHANGED vars
  BY <1>1, <1>5 DEF vars, Passed, At
<1> QED
  BY <1>2, <1>3, <1>4, <1>5 DEF Next

(* The invariant holds in every reachable state.                           *)
LEMMA InvHolds == Spec => []Inv
<1>1. Inv /\ [Next]_vars => Inv'
  <2> SUFFICES ASSUME Inv, [Next]_vars PROVE Inv'
    OBVIOUS
  <2>1. TypeOK'
    BY NextType DEF Inv
  <2> QED
    BY <2>1, NextLock, NextSleep, NextToken, NextReserve DEF Inv
<1> QED
  BY <1>1, InitInv, PTL DEF Spec

-----------------------------------------------------------------------------
(* Every variable keeps its type: since never exceeds the interval.        *)
THEOREM TypeCorrect == Spec => []TypeOK
<1>1. Inv => TypeOK
  BY DEF Inv
<1> QED
  BY <1>1, InvHolds, PTL

(* A request whose turn came after the settings changed has the new token. *)
THEOREM TokenIsCurrent == Spec => []NewTokenIsUsed
<1>1. Inv => NewTokenIsUsed
  BY DEF Inv
<1> QED
  BY <1>1, InvHolds, PTL

(* The limiter keeps its rate for any number of goroutines: a burst is at  *)
(* most one request for each of them and one more.                         *)
THEOREM RateHolds == Spec => []RateIsKept
<1>1. Inv => RateIsKept
  <2> SUFFICES ASSUME Inv PROVE RateIsKept
    OBVIOUS
  <2>1. Cardinality(Passed) \in Nat /\ Cardinality(Callers) \in Nat
    BY HardcoverAssumption, FS_Subset, FS_CardinalityType DEF Passed
  <2>2. Interval * Cardinality(Passed) \in Nat /\ (Cardinality(Callers) + 1) * Interval \in Nat
    BY <2>1, HardcoverAssumption, Multiples
  <2> QED
    BY <2>2, HardcoverAssumption DEF Inv, TypeOK, Reserve, RateIsKept
<1> QED
  BY <1>1, InvHolds, PTL
=============================================================================
