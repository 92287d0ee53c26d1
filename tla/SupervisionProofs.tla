------------------------- MODULE SupervisionProofs -------------------------
(***************************************************************************)
(* Proofs about the watchdog, for any delays, windows and numbers of       *)
(* attempts.  The first two arguments are about what a tick knows: the     *)
(* attempts it has stored before it starts anything, and the listener it   *)
(* has seen, which protects its owner's place as long as it lives.  The    *)
(* third is about time: as long as a record has attempts, its next attempt *)
(* is no nearer than the end of the delay, or else than the end of the     *)
(* window, when the attempts are counted anew.  The last is about stop,    *)
(* which ends what listens.                                                *)
(***************************************************************************)
EXTENDS Supervision, FiniteSetTheorems, TLAPS

\* What the proofs need of types: a record has attempts, and they are a number.
IsRecord(r) == "attempts" \in DOMAIN r /\ r.attempts \in Nat

RecordTypes == IsRecord(watch) /\ IsRecord(state) /\ spawned \in Nat

Considering == {"signal", "settle", "recover", "endpoint"}
AboutToStart == {"run", "start", "popen"}
Attempting == AboutToStart \cup {"wait", "started"}

\* Before the attempt the tick has the stored count, or none in a new window; after
\* it, what is stored, with room for the start that is coming.
CountIsStored ==
  /\ wpc \in Considering => state.attempts \in {0, watch.attempts}
  /\ wpc \in Attempting => state.attempts = watch.attempts
  /\ wpc \in AboutToStart => spawned + 1 <= watch.attempts
  /\ wpc \in {"idle"} \cup Considering \cup Attempting

CountInv == RecordTypes /\ CountIsStored /\ SpawnsAreCounted

\* What each operator on the record does to its attempts.
LEMMA LaterKeeps ==
  ASSUME NEW r, IsRecord(r)
  PROVE  IsRecord(Later(r)) /\ Later(r).attempts = r.attempts
BY DEF IsRecord, Later

LEMMA WatchStateCounts ==
  ASSUME NEW r, IsRecord(r)
  PROVE  IsRecord(WatchState(r)) /\ WatchState(r).attempts \in {0, r.attempts}
BY DEF IsRecord, WatchState

LEMMA CountedCounts ==
  ASSUME NEW r, IsRecord(r)
  PROVE  IsRecord(Counted(r)) /\ Counted(r).attempts = r.attempts + 1
BY DEF IsRecord, Counted

LEMMA OutcomeKeeps ==
  ASSUME NEW r, IsRecord(r)
  PROVE  /\ IsRecord(Started(r)) /\ Started(r).attempts = r.attempts
         /\ IsRecord(Failed(r)) /\ Failed(r).attempts = r.attempts
         /\ IsRecord(Paused(r)) /\ Paused(r).attempts = r.attempts
         /\ IsRecord(Settled(r)) /\ Settled(r).attempts = 0
BY DEF IsRecord, Started, Failed, Paused, Settled

LEMMA FreshIsRecord == IsRecord(Fresh) /\ Fresh.attempts = 0
BY DEF IsRecord, Fresh

LEMMA CountInit == Init => CountInv
BY FreshIsRecord
   DEF Init, CountInv, RecordTypes, CountIsStored, SpawnsAreCounted, Considering,
       Attempting, AboutToStart

\* A step that ends the tick and stores the tick's count, or none.
LEMMA EndingTick ==
  ASSUME CountInv, NEW r, IsRecord(r), Record(r), EndTick,
         \/ r.attempts = 0
         \/ state.attempts = 0
         \/ r.attempts = watch.attempts
  PROVE  CountInv'
BY FreshIsRecord
   DEF CountInv, RecordTypes, CountIsStored, SpawnsAreCounted, Considering, Attempting,
       AboutToStart, Record, EndTick, IsRecord

LEMMA CountFrame ==
  ASSUME CountInv, UNCHANGED <<watch, tick, spawned>>
  PROVE  CountInv'
BY DEF CountInv, RecordTypes, CountIsStored, SpawnsAreCounted, tick, IsRecord

LEMMA AttemptCounts ==
  ASSUME CountInv, NEW next \in {"run", "popen"}, wpc \in {"recover", "endpoint"},
         Attempt(next)
  PROVE  CountInv'
<1>1. IsRecord(state) /\ state.attempts \in {0, watch.attempts} /\ state.attempts \in Nat
  BY DEF CountInv, RecordTypes, CountIsStored, Considering, IsRecord
<1>2. /\ state' = Counted(state) /\ watch' = Counted(state) /\ wpc' = next
      /\ spawned' = IF Counted(state).attempts = 0 \/ state.attempts = 0 THEN 0 ELSE spawned
  BY DEF Attempt, Record
<1>3. IsRecord(watch') /\ IsRecord(state') /\ watch'.attempts = state.attempts + 1
  BY <1>1, <1>2, CountedCounts DEF IsRecord
<1>4. spawned \in Nat /\ spawned <= watch.attempts
  BY DEF CountInv, RecordTypes, SpawnsAreCounted
<1>5. spawned' \in Nat /\ spawned' <= state.attempts
  BY <1>1, <1>2, <1>4, CountedCounts
<1>6. state'.attempts = watch'.attempts
  BY <1>2
<1>7. RecordTypes'
  BY <1>3, <1>5 DEF RecordTypes, IsRecord
<1>8. CountIsStored'
  BY <1>1, <1>2, <1>3, <1>5, <1>6 DEF CountIsStored, Considering, Attempting, AboutToStart
<1>9. SpawnsAreCounted'
  BY <1>1, <1>3, <1>5 DEF SpawnsAreCounted
<1> QED
  BY <1>7, <1>8, <1>9 DEF CountInv

\* A step that ends the tick and stores nothing.
LEMMA TickEnds ==
  ASSUME CountInv, EndTick, UNCHANGED <<watch, spawned>>
  PROVE  CountInv'
BY FreshIsRecord
   DEF CountInv, RecordTypes, CountIsStored, SpawnsAreCounted, Considering, Attempting,
       AboutToStart, EndTick, IsRecord

LEMMA ClockCounts == ASSUME CountInv, Clock PROVE CountInv'
<1>1. IsRecord(watch) /\ IsRecord(state)
  BY DEF CountInv, RecordTypes
<1>2. IsRecord(watch') /\ watch'.attempts = watch.attempts
  BY <1>1, LaterKeeps DEF Clock
<1>3. IsRecord(state') /\ state'.attempts = state.attempts
  BY <1>1, LaterKeeps DEF Clock
<1>4. wpc' = wpc /\ spawned' = spawned
  BY DEF Clock
<1> QED
  BY <1>2, <1>3, <1>4
     DEF CountInv, RecordTypes, CountIsStored, SpawnsAreCounted, IsRecord

LEMMA LookCounts == ASSUME CountInv, Look PROVE CountInv'
<1>1. IsRecord(watch)
  BY DEF CountInv, RecordTypes
<1>2. IsRecord(state') /\ state'.attempts \in {0, watch.attempts}
  BY <1>1, WatchStateCounts DEF Look
<1>3. wpc' \in Considering
  BY DEF Look, Duty, Considering
<1>4. watch' = watch /\ spawned' = spawned
  BY DEF Look, history
<1> QED
  BY <1>2, <1>3, <1>4
     DEF CountInv, RecordTypes, CountIsStored, SpawnsAreCounted, Considering, Attempting,
         AboutToStart, IsRecord

LEMMA TryCounts == ASSUME CountInv, Try PROVE CountInv'
<1>1. CASE wpc = "recover" /\ sown /\ Attempt("run")
  BY <1>1, AttemptCounts
<1>2. CASE wpc = "endpoint" /\ Attempt("popen")
  BY <1>2, AttemptCounts
<1>3. CASE wpc \in {"recover", "endpoint"} /\ NoAttempt
  <2>1. IsRecord(state) /\ state.attempts \in {0, watch.attempts}
    BY <1>3 DEF CountInv, RecordTypes, CountIsStored, Considering
  <2>2. PICK r \in {Paused(state), state} : Record(r) /\ EndTick
    BY <1>3 DEF NoAttempt
  <2>3. IsRecord(r) /\ r.attempts = state.attempts
    BY <2>1, <2>2, OutcomeKeeps
  <2> QED
    BY <2>1, <2>2, <2>3, EndingTick
<1> QED
  BY <1>1, <1>2, <1>3 DEF Try

\* The steps between the attempt and its result.
LEMMA StartingCounts ==
  ASSUME CountInv, RunLook \/ RunStart \/ RunConfirms \/ Popen
  PROVE  CountInv'
BY DEF CountInv, RecordTypes, CountIsStored, SpawnsAreCounted, Considering, Attempting,
       AboutToStart, RunLook, RunStart, RunConfirms, Popen, history, IsRecord

LEMMA EndCounts ==
  ASSUME CountInv,
         Signal \/ Settle \/ RunFails \/ PopenFails \/ RecordStarted \/ Abort
  PROVE  CountInv'
<1>1. /\ IsRecord(state)
      /\ wpc \in Considering => state.attempts \in {0, watch.attempts}
      /\ wpc \in Attempting => state.attempts = watch.attempts
  BY DEF CountInv, RecordTypes, CountIsStored
<1>2. CASE Signal
  <2>1. CASE seen
    BY <1>1, <1>2, <2>1, EndingTick DEF Signal, Considering
  <2>2. CASE ~seen
    BY <1>2, <2>2, TickEnds DEF Signal
  <2> QED
    BY <2>1, <2>2
<1>3. CASE Settle
  BY <1>1, <1>3, EndingTick, OutcomeKeeps DEF Settle
<1>4. CASE RecordStarted
  BY <1>1, <1>4, EndingTick, OutcomeKeeps DEF RecordStarted, Attempting
<1>5. CASE RunFails
  BY <1>1, <1>5, EndingTick, OutcomeKeeps DEF RunFails, Attempting, AboutToStart
<1>6. CASE PopenFails
  BY <1>1, <1>6, EndingTick DEF PopenFails, Attempting, AboutToStart
<1>7. CASE Abort
  <2>1. CASE wpc \in {"run", "start"}
    BY <1>7, <2>1, FreshIsRecord
       DEF Abort, CountInv, RecordTypes, CountIsStored, SpawnsAreCounted, Considering,
           Attempting, AboutToStart, EndTick, IsRecord
  <2>2. CASE wpc \notin {"run", "start"}
    BY <1>7, <2>2, TickEnds DEF Abort
  <2> QED
    BY <2>1, <2>2
<1> QED
  BY <1>2, <1>3, <1>4, <1>5, <1>6, <1>7

LEMMA CountStep == ASSUME CountInv, [Next]_vars PROVE CountInv'
<1>1. CASE Clock
  BY <1>1, ClockCounts
<1>2. CASE Listener
  BY <1>2, CountFrame
     DEF Listener, ServeBegins, ServeUp, ServeEnds, ServeDies, ListenerGone, tick, history
<1>3. CASE Owner
  BY <1>3, CountFrame DEF Owner, OwnerExits, OwnerResumes, tick, history
<1>4. CASE Commands
  BY <1>4, CountFrame
     DEF Commands, Start, Stop, RestartStop, RestoreStop, RestoreGoesOn, CommandStarts,
         CommandFails, tick, history
<1>5. CASE Watchdog \/ Abort
  BY <1>5, LookCounts, TryCounts, StartingCounts, EndCounts DEF Watchdog
<1>6. CASE UNCHANGED vars
  BY <1>6, CountFrame DEF vars, tick, history
<1> QED
  BY <1>1, <1>2, <1>3, <1>4, <1>5, <1>6 DEF Next

\* Whatever aborts a tick, and in whatever order the listener, its owner and the
\* commands move: the watchdog starts no more than its stored attempts say (_recover,
\* _keep_endpoint).
THEOREM NoUncountedSpawn == Spec => []SpawnsAreCounted
<1>1. CountInv => SpawnsAreCounted
  BY DEF CountInv
<1> QED
  BY CountInit, CountStep, <1>1, PTL DEF Spec

-----------------------------------------------------------------------------
\* A listener that is seen still runs; one that is about to be signalled was seen with
\* an owner of another process, and as long as it runs no start makes it the owner's.
OrphanInv ==
  /\ seen => Live
  /\ wpc = "signal" /\ seen => owner \in {"gone", "resumed"}

LEMMA OrphanStep == ASSUME OrphanInv, [Next]_vars PROVE OrphanInv'
<1>1. CASE Clock
  BY <1>1 DEF OrphanInv, Clock, Live
<1>2. CASE ServeBegins \/ ServeUp
  BY <1>2 DEF OrphanInv, ServeBegins, ServeUp, Live, tick
<1>3. CASE ServeEnds \/ ServeDies
  BY <1>3 DEF OrphanInv, ServeEnds, ServeDies, ListenerGone, Live, tick
<1>4. CASE Owner
  BY <1>4 DEF OrphanInv, Owner, OwnerExits, OwnerResumes, Live, tick
<1>5. CASE Start \/ CommandStarts
  BY <1>5
     DEF OrphanInv, Start, CommandStarts, StartBridge, MayStart, StartChild, Live, tick
<1>6. CASE Stop \/ RestartStop \/ RestoreStop \/ RestoreGoesOn \/ CommandFails
  BY <1>6
     DEF OrphanInv, Stop, RestartStop, RestoreStop, RestoreGoesOn, CommandFails, Live, tick
<1>7. CASE Look
  BY <1>7 DEF OrphanInv, Look, Duty, Live
<1>8. CASE Try
  BY <1>8 DEF OrphanInv, Try, Attempt, NoAttempt, EndTick, Live
<1>9. CASE RunLook \/ RunStart \/ RunConfirms \/ Popen
  BY <1>9 DEF OrphanInv, RunLook, RunStart, RunConfirms, Popen, StartChild, Live
<1>10. CASE Signal \/ Settle \/ RunFails \/ PopenFails \/ RecordStarted \/ Abort
  BY <1>10
     DEF OrphanInv, Signal, Settle, RunFails, PopenFails, RecordStarted, Abort, EndTick
<1>11. CASE UNCHANGED vars
  BY <1>11 DEF OrphanInv, vars, tick, Live
<1> QED
  BY <1>1, <1>2, <1>3, <1>4, <1>5, <1>6, <1>7, <1>8, <1>9, <1>10, <1>11
     DEF Next, Listener, Commands, Watchdog

LEMMA OnlyOrphansStep ==
  ASSUME OrphanInv, [Next]_vars, wpc = "signal", listener # "ending", listener' = "ending"
  PROVE  owner # "live"
<1>1. CASE Signal
  BY <1>1 DEF Signal, OrphanInv
<1>2. CASE RestoreStop
  BY <1>2 DEF RestoreStop
<1>3. CASE Start \/ CommandStarts \/ RunStart
  BY <1>3 DEF Start, CommandStarts, RunStart, StartBridge, StartChild
<1>4. CASE ServeBegins
  BY <1>4 DEF ServeBegins
<1>5. CASE ~(Signal \/ RestoreStop \/ Start \/ CommandStarts \/ RunStart \/ ServeBegins)
  BY <1>5
     DEF Next, Clock, Listener, ServeUp, ServeEnds, ServeDies, ListenerGone, Owner,
         OwnerExits, OwnerResumes, Commands, Stop, RestartStop, RestoreGoesOn,
         CommandFails, Watchdog, Look, Settle, Try, RunLook, RunConfirms, RunFails, Popen,
         PopenFails, RecordStarted, Abort, vars
<1> QED
  BY <1>1, <1>2, <1>3, <1>4, <1>5

\* The watchdog ends no listener whose owner lives (_signal_listener): between its look
\* and its signal the listener may die and another take its place.
THEOREM OnlyOrphansSignalled == Spec => SignalsOrphans
<1>1. Init => OrphanInv
  BY DEF Init, OrphanInv
<1>2. OrphanInv /\ [Next]_vars =>
        [wpc = "signal" /\ listener # "ending" /\ listener' = "ending" => owner # "live"]_vars
  BY OnlyOrphansStep
<1> QED
  BY <1>1, <1>2, OrphanStep, PTL DEF Spec, SignalsOrphans

-----------------------------------------------------------------------------
(* Types, and the back-off *)

Records == [age : 0..Window, attempts : 0..MaxAttempts, wait : Nat, pause : 0..Window,
            stable : 0..Stable]

\* A record of its type, whose pause ends with its window.
IsTyped(r) == r \in Records /\ r.age + r.pause <= Window

\* What the assumption says, in the form that arithmetic needs.
LEMMA DelaysAreNumbers ==
  /\ BaseDelay \in Nat /\ MaxDelay \in Nat /\ MaxAttempts \in Nat /\ Window \in Nat
  /\ Stable \in Nat /\ MaxAbort \in Nat /\ MaxExit \in Nat
  /\ MaxAttempts >= 1 /\ Window >= 1
BY SupervisionAssumption

\* A power of two is a number: that of the subsets of 1..n.
LEMMA PowerIsNumber == ASSUME NEW n \in Nat PROVE 2^n \in Nat
<1>1. IsFiniteSet(1..n) /\ Cardinality(1..n) = n
  BY FS_Interval
<1>2. Cardinality(SUBSET (1..n)) = 2^n /\ IsFiniteSet(SUBSET (1..n))
  BY <1>1, FS_SUBSET
<1> QED
  BY <1>2, FS_CardinalityType

\* A delay is a number for every attempt (_recover's delay).
LEMMA BackoffIsNumber == ASSUME NEW n \in Nat PROVE Backoff(n + 1) \in Nat
<1>1. 2^n \in Nat /\ (n + 1) - 1 = n
  BY PowerIsNumber
<1>2. BaseDelay * 2^n \in Nat
  BY <1>1, DelaysAreNumbers
<1> DEFINE d == BaseDelay * 2^n
<1>3. d \in Nat /\ Backoff(n + 1) = Least(MaxDelay, d)
  BY <1>1, <1>2 DEF Backoff
<1> HIDE DEF d
<1> QED
  BY <1>3, DelaysAreNumbers DEF Least

\* Each operator on the record keeps its type.
LEMMA FreshIsTyped == IsTyped(Fresh)
BY DelaysAreNumbers DEF IsTyped, Records, Fresh

LEMMA LaterIsTyped == ASSUME NEW r, IsTyped(r) PROVE IsTyped(Later(r))
<1> DEFINE age == Least(r.age + 1, Window)
           wait == Left(r.wait)
           pause == Left(r.pause)
           stable == Least(r.stable + 1, Stable)
<1>1. /\ age \in 0..Window /\ wait \in Nat /\ pause \in 0..Window /\ stable \in 0..Stable
      /\ age + pause <= Window
  BY DelaysAreNumbers DEF IsTyped, Records, Least, Left
<1>2. Later(r) = [r EXCEPT !.age = age, !.wait = wait, !.pause = pause, !.stable = stable]
  BY DEF Later
<1> HIDE DEF age, wait, pause, stable
<1> QED
  BY <1>1, <1>2 DEF IsTyped, Records

LEMMA WatchStateIsTyped == ASSUME NEW r, IsTyped(r) PROVE IsTyped(WatchState(r))
<1>1. CASE r.age = Window
  <2>1. WatchState(r) = [r EXCEPT !.age = 0, !.attempts = 0, !.pause = 0]
    BY <1>1 DEF WatchState
  <2>2. 0 \in 0..Window /\ 0 \in 0..MaxAttempts /\ 0 + 0 <= Window
    BY DelaysAreNumbers
  <2> QED
    BY <2>1, <2>2 DEF IsTyped, Records
<1>2. CASE r.age # Window
  BY <1>2 DEF WatchState
<1> QED
  BY <1>1, <1>2

LEMMA OutcomeIsTyped ==
  ASSUME NEW r, IsTyped(r), elapsed \in Nat
  PROVE  IsTyped(Started(r)) /\ IsTyped(Failed(r)) /\ IsTyped(Paused(r)) /\ IsTyped(Settled(r))
<1> USE DelaysAreNumbers DEF IsTyped, Records
<1>1. IsTyped(Started(r))
  BY DEF Started, Least
<1>2. IsTyped(Failed(r))
  BY DEF Failed
<1>3. IsTyped(Paused(r))
  <2> DEFINE rest == Window - r.age
  <2>1. rest \in 0..Window /\ rest \in Nat /\ r.age + rest <= Window
    OBVIOUS
  <2>2. Paused(r) = [r EXCEPT !.wait = rest, !.pause = rest]
    BY DEF Paused, UntilWindowEnds
  <2> HIDE DEF rest
  <2> QED
    BY <2>1, <2>2
<1>4. IsTyped(Settled(r))
  <2>1. 0 \in 0..Window /\ 0 \in 0..MaxAttempts /\ r.age + 0 <= Window
    OBVIOUS
  <2> QED
    BY <2>1 DEF Settled
<1> QED
  BY <1>1, <1>2, <1>3, <1>4

LEMMA CountedIsTyped ==
  ASSUME NEW r, IsTyped(r), ~Exhausted(r), elapsed \in Nat
  PROVE  IsTyped(Counted(r))
<1>1. Backoff(r.attempts + 1) \in Nat
  BY BackoffIsNumber DEF IsTyped, Records
<1>2. Remaining(Backoff(r.attempts + 1)) \in Nat
  BY <1>1 DEF Remaining
<1> DEFINE wait == Remaining(Backoff(r.attempts + 1))
           pause == IF r.attempts + 1 >= MaxAttempts THEN UntilWindowEnds(r) ELSE 0
<1>3. r.attempts + 1 \in 0..MaxAttempts /\ pause \in 0..Window /\ r.age + pause <= Window
  BY DelaysAreNumbers DEF IsTyped, Records, Exhausted, UntilWindowEnds
<1>4. Counted(r) = [r EXCEPT !.attempts = r.attempts + 1, !.wait = wait, !.pause = pause]
  BY DEF Counted
<1>5. wait \in Nat
  BY <1>2
<1> HIDE DEF wait, pause
<1> QED
  BY <1>3, <1>4, <1>5 DEF IsTyped, Records

-----------------------------------------------------------------------------
\* TypeOK in three parts: the two records, the flags, and places, times and counts.
RecordsTyped == IsTyped(watch) /\ IsTyped(state)

FlagsTyped ==
  /\ supervised \in BOOLEAN /\ stop \in BOOLEAN /\ child \in BOOLEAN
  /\ seen \in BOOLEAN /\ sown \in BOOLEAN

RestTyped ==
  /\ owner \in {"live", "gone", "resumed"}
  /\ listener \in {"none", "starting", "live", "ending"}
  /\ command \in {"none", "restart", "restore", "begin", "recover"}
  /\ wpc \in {"idle", "signal", "settle", "recover", "endpoint", "run", "start", "wait",
              "popen", "started"}
  /\ elapsed \in Nat /\ aborts \in 0..MaxAbort /\ exits \in 0..MaxExit
  /\ spawned \in Nat /\ due \in Nat /\ liveFor \in 0..Stable

\* The parts are what TypeOK says.
LEMMA TypeParts == TypeOK <=> RecordsTyped /\ FlagsTyped /\ RestTyped
BY DEF TypeOK, RecordsTyped, FlagsTyped, RestTyped, IsTyped, Records

\* They hold at first.
LEMMA TypeInit == Init => RecordsTyped /\ FlagsTyped /\ RestTyped
<1> SUFFICES ASSUME Init PROVE RecordsTyped /\ FlagsTyped /\ RestTyped
  OBVIOUS
<1>1. RecordsTyped
  BY FreshIsTyped DEF Init, RecordsTyped
<1>2. FlagsTyped
  BY DEF Init, FlagsTyped
<1>3. RestTyped
  BY DelaysAreNumbers DEF Init, RestTyped
<1> QED
  BY <1>1, <1>2, <1>3

\* No step takes the two records out of their type.
LEMMA RecordsStep ==
  ASSUME RecordsTyped, elapsed \in Nat, [Next]_vars
  PROVE  RecordsTyped'
<1> USE DEF RecordsTyped
<1>1. CASE Clock
  BY <1>1, LaterIsTyped DEF Clock
<1>2. CASE Look
  <2>1. watch' = watch /\ state' = WatchState(watch)
    BY <1>2 DEF Look
  <2> QED
    BY <2>1, WatchStateIsTyped
<1>3. CASE Try
  <2>1. CASE \E next \in {"run", "popen"} : Attempt(next)
    <3>1. ~Exhausted(state) /\ state' = Counted(state) /\ watch' = Counted(state)
      BY <2>1 DEF Attempt, Record
    <3> QED
      BY <3>1, CountedIsTyped
  <2>2. CASE NoAttempt
    <3>1. watch' \in {Paused(state), state} /\ state' = Fresh
      BY <2>2 DEF NoAttempt, Record, EndTick
    <3> QED
      BY <3>1, OutcomeIsTyped, FreshIsTyped
  <2> QED
    BY <1>3, <2>1, <2>2 DEF Try
<1>4. CASE Signal \/ Settle \/ RunFails \/ PopenFails \/ RecordStarted \/ Abort
  <2>1. /\ watch' \in {watch, state, Settled(state), Failed(state), Started(state)}
        /\ state' = Fresh
    BY <1>4 DEF Signal, Settle, RunFails, PopenFails, RecordStarted, Abort, Record, EndTick
  <2> QED
    BY <2>1, OutcomeIsTyped, FreshIsTyped
<1>5. CASE ~(Clock \/ Look \/ Try \/ Signal \/ Settle \/ RunFails \/ PopenFails
             \/ RecordStarted \/ Abort)
  <2>1. watch' = watch /\ state' = state
    BY <1>5
    DEF Next, Listener, ServeBegins, ServeUp, ServeEnds, ServeDies, ListenerGone, Owner,
        OwnerExits, OwnerResumes, Commands, Start, Stop, RestartStop, RestoreStop,
        RestoreGoesOn, CommandStarts, CommandFails, Watchdog, RunLook, RunStart,
        RunConfirms, Popen, vars, tick
  <2> QED
    BY <2>1
<1> QED
  BY <1>1, <1>2, <1>3, <1>4, <1>5

\* No step makes a flag anything but true or false.
LEMMA FlagsStep == ASSUME FlagsTyped, [Next]_vars PROVE FlagsTyped'
<1> USE DEF FlagsTyped
<1>1. CASE Clock
  BY <1>1 DEF Clock, store
<1>2. CASE Listener
  BY <1>2 DEF Listener, ServeBegins, ServeUp, ServeEnds, ServeDies, ListenerGone, store
<1>3. CASE Owner
  BY <1>3 DEF Owner, OwnerExits, OwnerResumes, store
<1>4. CASE Commands
  BY <1>4 DEF Commands, Start, Stop, RestartStop, RestoreStop, RestoreGoesOn, CommandStarts,
     CommandFails, StartBridge, StartChild, Spawn, store
<1>5. CASE Look
  BY <1>5 DEF Look, Live, store
<1>6. CASE Try
  BY <1>6 DEF Try, Attempt, NoAttempt, EndTick, store
<1>7. CASE RunLook \/ RunStart \/ RunConfirms \/ Popen
  BY <1>7 DEF RunLook, RunStart, RunConfirms, Popen, StartChild, Spawn, store
<1>8. CASE Signal \/ Settle \/ RunFails \/ PopenFails \/ RecordStarted \/ Abort
  BY <1>8 DEF Signal, Settle, RunFails, PopenFails, RecordStarted, Abort, EndTick, store
<1>9. CASE UNCHANGED vars
  BY <1>9 DEF vars, store
<1> QED
  BY <1>1, <1>2, <1>3, <1>4, <1>5, <1>6, <1>7, <1>8, <1>9 DEF Next, Watchdog

\* No step takes places, times and counts out of their types.
LEMMA RestStep ==
  ASSUME RecordsTyped, RestTyped, [Next]_vars
  PROVE  RestTyped'
<1> USE DelaysAreNumbers DEF RestTyped
<1>1. CASE Clock
  <2>1. elapsed' \in Nat
    BY <1>1 DEF Clock, Least, Longest
  <2>2. due' \in Nat /\ liveFor' \in 0..Stable
    BY <1>1 DEF Clock, Left, Least
  <2> QED
    BY <1>1, <2>1, <2>2 DEF Clock, store
<1>2. CASE Listener
  <2>1. /\ listener' \in {"none", "starting", "live", "ending"} /\ liveFor' \in {liveFor, 0}
        /\ UNCHANGED <<owner, command, wpc, elapsed, aborts, exits, spawned, due>>
    BY <1>2 DEF Listener, ServeBegins, ServeUp, ServeEnds, ServeDies, ListenerGone, tick, history
  <2> QED
    BY <2>1
<1>3. CASE Owner
  <2>1. /\ owner' \in {"gone", "resumed"} /\ exits' \in 0..MaxExit
        /\ UNCHANGED <<listener, command, wpc, elapsed, aborts, spawned, due, liveFor>>
    BY <1>3 DEF Owner, OwnerExits, OwnerResumes, tick, history
  <2> QED
    BY <2>1
<1>4. CASE Commands
  BY <1>4 DEF Commands, Start, Stop, RestartStop, RestoreStop, RestoreGoesOn, CommandStarts,
     CommandFails, StartBridge, StartChild, Spawn, store, tick, history
<1>5. CASE Look
  <2>1. wpc' \in {"signal", "settle", "recover", "endpoint"}
    BY <1>5 DEF Look, Duty
  <2>2. seen' \in BOOLEAN /\ sown' \in BOOLEAN
    BY <1>5 DEF Look, Live
  <2> QED
    BY <1>5, <2>1, <2>2 DEF Look, store, history
<1>6. CASE Try
  <2>1. CASE \E next \in {"run", "popen"} : Attempt(next)
    <3>1. due' \in Nat /\ spawned' \in Nat /\ wpc' \in {"run", "popen"}
      <4>1. Counted(state).wait \in Nat
        BY <2>1, CountedIsTyped DEF Attempt, RecordsTyped, IsTyped, Records
      <4> QED
        BY <2>1, <4>1 DEF Attempt, Record
    <3> QED
      BY <1>6, <2>1, <3>1 DEF Try, Attempt, store
  <2>2. CASE NoAttempt
    BY <1>6, <2>2 DEF Try, NoAttempt, Record, EndTick, store
  <2> QED
    BY <1>6, <2>1, <2>2 DEF Try
<1>7. CASE RunLook \/ RunStart \/ RunConfirms \/ Popen
  <2>1. /\ owner' \in {"live", owner} /\ wpc' \in {"start", "wait", "started"}
        /\ spawned' \in {spawned, spawned + 1}
        /\ UNCHANGED <<listener, command, elapsed, aborts, exits, due, liveFor>>
    BY <1>7 DEF RunLook, RunStart, RunConfirms, Popen, StartChild, history
  <2> QED
    BY <2>1
<1>8. CASE Signal \/ Settle \/ RunFails \/ PopenFails \/ RecordStarted
  <2>1. /\ listener' \in {"ending", listener} /\ wpc' = "idle" /\ elapsed' = 0
        /\ spawned' \in {spawned, 0} /\ due' \in {due, 0}
        /\ UNCHANGED <<owner, command, aborts, exits, liveFor>>
    BY <1>8 DEF Signal, Settle, RunFails, PopenFails, RecordStarted, Record, EndTick
  <2> QED
    BY <2>1
<1>9. CASE Abort
  <2>1. /\ command' \in {"recover", "begin", command} /\ wpc' = "idle" /\ elapsed' = 0
        /\ aborts' \in 0..MaxAbort /\ spawned' \in {spawned, spawned + 1}
        /\ UNCHANGED <<owner, listener, exits, due, liveFor>>
    BY <1>9 DEF Abort, EndTick
  <2> QED
    BY <2>1
<1>10. CASE UNCHANGED vars
  BY <1>10 DEF vars, store, tick, history
<1> QED
  BY <1>1, <1>2, <1>3, <1>4, <1>5, <1>6, <1>7, <1>8, <1>9, <1>10 DEF Next, Watchdog

\* The typed parts together are inductive.
LEMMA TypedAlways == Spec => [](RecordsTyped /\ FlagsTyped /\ RestTyped)
<1>1. RecordsTyped /\ FlagsTyped /\ RestTyped /\ [Next]_vars => (RecordsTyped /\ FlagsTyped /\ RestTyped)'
  BY RecordsStep, FlagsStep, RestStep DEF RestTyped
<1> QED
  BY <1>1, TypeInit, PTL DEF Spec

\* Every record, place and time has its type, for any delays, windows and numbers of
\* attempts; and a pause ends with its window (_watch_state, _recover).
THEOREM WatchTypeAlways == Spec => []TypeOK
BY TypedAlways, TypeParts, PTL

-----------------------------------------------------------------------------
\* While a record has attempts, its next one waits as long as is due, or for the window.
WaitsFor(r, d) ==
  r.attempts > 0 =>
    IF r.attempts >= MaxAttempts THEN r.age + r.pause = Window ELSE d <= r.wait

BackoffInv ==
  /\ WaitsFor(watch, due) /\ WaitsFor(state, due)
  /\ wpc \in {"recover", "endpoint"} /\ state.attempts > 0 => due = 0

\* As time passes both go on waiting.
LEMMA LaterWaits ==
  ASSUME NEW r, IsTyped(r), NEW d \in Nat, WaitsFor(r, d)
  PROVE  WaitsFor(Later(r), Left(d)) /\ WaitsFor(r, Left(d))
<1>1. /\ Later(r).attempts = r.attempts /\ Later(r).wait = Left(r.wait)
      /\ Later(r).pause = Left(r.pause) /\ Later(r).age = Least(r.age + 1, Window)
  BY DEF Later, IsTyped, Records
<1> QED
  BY <1>1, DelaysAreNumbers DEF WaitsFor, Least, Left, IsTyped, Records

\* What ends an attempt does not shorten its wait.
LEMMA OutcomeWaits ==
  ASSUME NEW r, IsTyped(r), NEW d \in Nat, WaitsFor(r, d)
  PROVE  /\ WaitsFor(Started(r), d) /\ WaitsFor(Failed(r), d)
         /\ Exhausted(r) => WaitsFor(Paused(r), d)
         /\ \A e \in Nat : WaitsFor(Settled(r), e)
<1> USE DelaysAreNumbers DEF IsTyped, Records, WaitsFor
<1>1. WaitsFor(Started(r), d)
  BY DEF Started
<1>2. WaitsFor(Failed(r), d)
  BY DEF Failed
<1>3. Exhausted(r) => WaitsFor(Paused(r), d)
  BY DEF Paused, Exhausted, UntilWindowEnds
<1>4. \A e \in Nat : WaitsFor(Settled(r), e)
  BY DEF Settled
<1> QED
  BY <1>1, <1>2, <1>3, <1>4

\* An attempt waits for the delay it has set.
LEMMA CountedWaits ==
  ASSUME NEW r, IsTyped(r), ~Exhausted(r), elapsed \in Nat
  PROVE  WaitsFor(Counted(r), Counted(r).wait)
<1>1. /\ Counted(r).attempts = r.attempts + 1 /\ Counted(r).age = r.age
      /\ r.attempts + 1 >= MaxAttempts => Counted(r).pause = Window - r.age
  BY DEF Counted, UntilWindowEnds, IsTyped, Records
<1>2. Counted(r).wait \in Nat
  BY CountedIsTyped DEF IsTyped, Records
<1> QED
  BY <1>1, <1>2, DelaysAreNumbers DEF WaitsFor, IsTyped, Records

\* Without attempts nothing is due.
LEMMA FreshWaits == \A d \in Nat : WaitsFor(Fresh, d)
BY DEF WaitsFor, Fresh

\* No step makes the wait shorter than what is due.
LEMMA BackoffStep ==
  ASSUME RecordsTyped, RestTyped, BackoffInv, [Next]_vars
  PROVE  BackoffInv'
<1>0. IsTyped(watch) /\ IsTyped(state) /\ due \in Nat /\ elapsed \in Nat
  BY DEF RecordsTyped, RestTyped
<1>1. CASE Clock
  <2>1. WaitsFor(watch, due)' /\ WaitsFor(state, due)'
    <3>1. due' = Left(due) /\ watch' = Later(watch) /\ state' \in {state, Later(state)}
      BY <1>1 DEF Clock
    <3> QED
      BY <1>0, <3>1, LaterWaits DEF BackoffInv
  <2>2. wpc' = wpc /\ state'.attempts = state.attempts /\ due' = Left(due)
    BY <1>0, <1>1 DEF Clock, Later, IsTyped, Records
  <2> QED
    BY <2>1, <2>2 DEF BackoffInv, Left
<1>2. CASE Look
  <2>1. watch' = watch /\ due' = due /\ state' = WatchState(watch) /\ wpc' = Duty(state')
    BY <1>2 DEF Look, history
  <2>2. CASE watch.age = Window
    <3>1. state'.attempts = 0
      BY <1>0, <2>1, <2>2 DEF WatchState, IsTyped, Records
    <3> QED
      BY <2>1, <3>1 DEF BackoffInv, WaitsFor
  <2>3. CASE watch.age # Window
    <3>1. state' = watch
      BY <2>1, <2>3 DEF WatchState
    <3>2. wpc' \in {"recover", "endpoint"} => watch.wait = 0 /\ watch.pause = 0
      BY <2>1, <3>1 DEF Duty
    <3> QED
      BY <1>0, <2>1, <2>3, <3>1, <3>2 DEF BackoffInv, WaitsFor, IsTyped, Records
  <2> QED
    BY <2>2, <2>3
<1>3. CASE Try
  <2>1. CASE \E next \in {"run", "popen"} : Attempt(next)
    <3>1. /\ ~Exhausted(state)
          /\ state' = Counted(state) /\ watch' = Counted(state) /\ due' = Counted(state).wait
          /\ wpc' \in {"run", "popen"}
      BY <2>1 DEF Attempt, Record
    <3> QED
      BY <1>0, <3>1, CountedWaits DEF BackoffInv
  <2>2. CASE NoAttempt
    <3>1. /\ due' = due /\ state' = Fresh /\ wpc' = "idle"
          /\ watch' = IF Exhausted(state) THEN Paused(state) ELSE state
      BY <2>2 DEF NoAttempt, Record, EndTick
    <3> QED
      BY <1>0, <3>1, OutcomeWaits, FreshWaits DEF BackoffInv
  <2> QED
    BY <1>3, <2>1, <2>2 DEF Try
<1>4. CASE Settle
  <2>1. due' = 0 /\ watch' = Settled(state) /\ state' = Fresh /\ wpc' = "idle"
    BY <1>4 DEF Settle, Record, EndTick
  <2> QED
    BY <1>0, <2>1, OutcomeWaits, FreshWaits DEF BackoffInv
<1>5. CASE Signal \/ RunFails \/ PopenFails \/ RecordStarted \/ Abort
  <2>1. /\ watch' \in {watch, state, Failed(state), Started(state)}
        /\ state' = Fresh /\ due' = due /\ wpc' = "idle"
    BY <1>5 DEF Signal, RunFails, PopenFails, RecordStarted, Abort, Record, EndTick
  <2> QED
    BY <1>0, <2>1, OutcomeWaits, FreshWaits DEF BackoffInv
<1>6. CASE RunLook \/ RunStart \/ RunConfirms \/ Popen
  <2>1. watch' = watch /\ state' = state /\ due' = due /\ wpc' \in {"start", "wait", "started"}
    BY <1>6 DEF RunLook, RunStart, RunConfirms, Popen, history
  <2> QED
    BY <2>1 DEF BackoffInv, WaitsFor
<1>7. CASE Listener \/ Owner \/ Commands \/ UNCHANGED vars
  <2>1. watch' = watch /\ state' = state /\ due' = due /\ wpc' = wpc
    BY <1>7
    DEF Listener, ServeBegins, ServeUp, ServeEnds, ServeDies, ListenerGone, Owner,
        OwnerExits, OwnerResumes, Commands, Start, Stop, RestartStop, RestoreStop,
        RestoreGoesOn, CommandStarts, CommandFails, vars, tick, history
  <2> QED
    BY <2>1 DEF BackoffInv, WaitsFor
<1> QED
  BY <1>1, <1>2, <1>3, <1>4, <1>5, <1>6, <1>7 DEF Next, Watchdog

\* For any delays, windows and numbers of attempts, and wherever a tick is cut off: within
\* a window no attempt comes before the delay of the one before is over (_recover).
THEOREM BackoffIsKeptAlways == Spec => BackoffIsKept
<1>1. Init => BackoffInv
  BY FreshWaits DEF Init, BackoffInv
<1>2. RecordsTyped /\ FlagsTyped /\ RestTyped /\ BackoffInv /\ [Next]_vars =>
        [state.attempts > 0 /\ wpc \in {"recover", "endpoint"} /\ wpc' \in {"run", "popen"}
           => due = 0]_vars
  BY DEF BackoffInv
<1>3. RecordsTyped /\ FlagsTyped /\ RestTyped /\ BackoffInv /\ [Next]_vars => BackoffInv'
  BY BackoffStep
<1> QED
  BY <1>1, <1>2, <1>3, TypedAlways, PTL DEF Spec, BackoffIsKept
-----------------------------------------------------------------------------
(* Liveness of stop.  That a fair action can be taken where its guard holds is a          *)
(* hypothesis: the provers know nothing of ENABLED, but take WF for what it says of it.   *)

\* The ranks of a tick that runs while stop is set: it starts nothing new, and what it
\* has begun comes to its end.
TickDecides == wpc \in {"recover", "endpoint"}
TickActs == wpc \in {"run", "start", "wait", "popen"}
TickRecords == wpc \in {"started", "signal", "settle"}
NoTick == wpc = "idle"

\* While stop is set a tick goes down through them, whatever the others do.
LEMMA TickGoesDown ==
  ASSUME TickDecides \/ TickActs \/ TickRecords \/ NoTick, stop, stop', [Next]_vars
  PROVE  /\ TickDecides => TickDecides' \/ TickActs' \/ NoTick'
         /\ TickActs => TickActs' \/ TickRecords' \/ NoTick'
         /\ TickRecords => TickRecords' \/ NoTick'
         /\ NoTick => NoTick'
<1> USE DEF TickDecides, TickActs, TickRecords, NoTick
<1>1. CASE Watchdog
  BY <1>1 DEF Watchdog, Look, Signal, Settle, Try, Attempt, NoAttempt, RunLook, RunStart,
     RunConfirms, RunFails, Popen, PopenFails, RecordStarted, EndTick
<1>2. CASE Abort
  BY <1>2 DEF Abort, EndTick
<1>3. CASE Clock \/ Listener \/ Owner \/ Commands \/ UNCHANGED vars
  <2>1. wpc' = wpc
    BY <1>3 DEF Clock, Listener, ServeBegins, ServeUp, ServeEnds, ServeDies, ListenerGone,
       Owner, OwnerExits, OwnerResumes, Commands, Start, Stop, RestartStop, RestoreStop,
       RestoreGoesOn, CommandStarts, CommandFails, vars, tick
  <2> QED
    BY <2>1
<1> QED
  BY <1>1, <1>2, <1>3 DEF Next

\* Each of its steps takes it on.
LEMMA TickIsLeft ==
  ASSUME Watchdog, stop, stop'
  PROVE  /\ TickDecides => ~TickDecides'
         /\ TickActs => ~TickActs'
         /\ TickRecords => ~TickRecords'
<1> USE DEF TickDecides, TickActs, TickRecords
<1>1. CASE Look \/ RunLook
  BY <1>1 DEF Look, RunLook
<1>2. CASE Signal \/ Settle \/ RunFails \/ PopenFails \/ RecordStarted
  BY <1>2 DEF Signal, Settle, RunFails, PopenFails, RecordStarted, EndTick
<1>3. CASE Try
  BY <1>3 DEF Try, Attempt, NoAttempt, EndTick
<1>4. CASE RunStart
  BY <1>4 DEF RunStart, StartChild
<1>5. CASE RunConfirms \/ Popen
  BY <1>5 DEF RunConfirms, Popen
<1> QED
  BY <1>1, <1>2, <1>3, <1>4, <1>5 DEF Watchdog

\* With no tick under way, nothing comes up that has not been there.
LEMMA NothingComesUp ==
  ASSUME stop, stop', NoTick, [Next]_vars
  PROVE  /\ ~child => ~child'
         /\ ~child /\ listener = "none" => listener' = "none"
         /\ ~child /\ listener = "starting" => listener' \in {"starting", "none"}
         /\ ~child /\ listener \in {"live", "ending"} => listener' \in {"live", "ending", "none"}
<1> USE DEF NoTick
<1>1. CASE Watchdog \/ Abort
  BY <1>1 DEF Watchdog, Look, Signal, Settle, Try, RunLook, RunStart, RunConfirms, RunFails,
     Popen, PopenFails, RecordStarted, Abort
<1>2. CASE Clock \/ Owner
  BY <1>2 DEF Clock, Owner, OwnerExits, OwnerResumes
<1>3. CASE Listener
  BY <1>3 DEF Listener, ServeBegins, ServeUp, ServeEnds, ServeDies, ListenerGone
<1>4. CASE Commands
  BY <1>4 DEF Commands, Start, Stop, RestartStop, RestoreStop, RestoreGoesOn, CommandStarts,
     CommandFails, StartBridge, StartChild, Spawn, Live
<1>5. CASE UNCHANGED vars
  BY <1>5 DEF vars
<1> QED
  BY <1>1, <1>2, <1>3, <1>4, <1>5 DEF Next

\* stop ends what listens, for any delays, windows and numbers of crashes: the tick that
\* runs ends, a child that comes up ends itself (serve), and so does a listener, unless a
\* start takes stop back.
THEOREM StopEndsByFairness ==
  /\ [](wpc # "idle" => ENABLED <<Watchdog>>_vars)
  /\ [](child => ENABLED <<ServeBegins>>_vars)
  /\ [](listener = "starting" => ENABLED <<ServeUp>>_vars)
  /\ [](stop /\ listener \in {"live", "ending"} => ENABLED <<ServeEnds>>_vars)
  /\ FairSpec
  => StopEnds
<1> DEFINE Gone == listener = "none"
           Comes == listener = "starting"
           Runs == listener \in {"live", "ending"}
<1>1. RestTyped => /\ TickDecides \/ TickActs \/ TickRecords \/ NoTick
                   /\ Gone \/ Comes \/ Runs
  BY DEF RestTyped, TickDecides, TickActs, TickRecords, NoTick
<1>2. /\ TickDecides \/ TickActs \/ TickRecords \/ NoTick
      /\ stop /\ stop' /\ [Next]_vars
      => /\ TickDecides => TickDecides' \/ TickActs' \/ NoTick'
         /\ TickActs => TickActs' \/ TickRecords' \/ NoTick'
         /\ TickRecords => TickRecords' \/ NoTick'
         /\ NoTick => NoTick'
  BY TickGoesDown
<1>3. <<Watchdog>>_vars /\ stop /\ stop' =>
        /\ TickDecides => ~TickDecides'
        /\ TickActs => ~TickActs'
        /\ TickRecords => ~TickRecords'
  BY TickIsLeft
<1>4. TickDecides \/ TickActs \/ TickRecords => wpc # "idle"
  BY DEF TickDecides, TickActs, TickRecords
<1>5. stop /\ stop' /\ NoTick /\ [Next]_vars =>
        /\ ~child => ~child'
        /\ ~child /\ Gone => Gone'
        /\ ~child /\ Comes => Comes' \/ Gone'
        /\ ~child /\ Runs => Runs' \/ Gone'
  BY NothingComesUp
<1>6. <<ServeBegins>>_vars => ~child'
  BY DEF ServeBegins
<1>7. <<ServeUp>>_vars => ~stop'
  BY DEF ServeUp
<1>8. <<ServeEnds>>_vars => Gone'
  BY DEF ServeEnds, ListenerGone
<1> HIDE DEF Gone, Comes, Runs
<1>9. (/\ [](wpc # "idle" => ENABLED <<Watchdog>>_vars)
       /\ [](child => ENABLED <<ServeBegins>>_vars)
       /\ [](Comes => ENABLED <<ServeUp>>_vars)
       /\ [](stop /\ Runs => ENABLED <<ServeEnds>>_vars)
       /\ FairSpec) => (stop ~> (Gone /\ ~child) \/ ~stop)
  BY <1>1, <1>2, <1>3, <1>4, <1>5, <1>6, <1>7, <1>8, TypedAlways, PTL DEF FairSpec, Spec
<1> QED
  BY <1>9 DEF Gone, Comes, Runs, StopEnds
=============================================================================
