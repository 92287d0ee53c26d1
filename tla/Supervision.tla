---------------------------- MODULE Supervision ----------------------------
(***************************************************************************)
(* One bridge's listener, the commands that start and stop it, and the     *)
(* watchdog that starts it again.  They are processes of their own and     *)
(* meet in the store (config.supervision, stop, runtime, watch), at the    *)
(* listener's lock, and through signals.                                   *)
(*                                                                         *)
(* Time is relative: a stored point of time is the time since it or until  *)
(* it, cut off where the code makes no difference any more.  So a window   *)
(* of an hour may be a few units, and time may pass for ever.              *)
(***************************************************************************)
EXTENDS Integers

CONSTANTS
  BaseDelay, MaxDelay,  \* BASE_DELAY_S, MAX_DELAY_S
  MaxAttempts,          \* MAX_ATTEMPTS
  Window,               \* WINDOW_S
  Stable,               \* STABLE_S
  MaxAbort,             \* bound on ticks that an error or a crash cuts off
  MaxExit               \* bound on exits of the owner's session

ASSUME SupervisionAssumption ==
  /\ {BaseDelay, MaxDelay, MaxAttempts, Window, Stable} \subseteq Nat \ {0}
  /\ {MaxAbort, MaxExit} \subseteq Nat

VARIABLES
  supervised,   \* config.supervision
  stop,         \* meta stop
  owner,        \* config's owner: "live", "gone", or "resumed" by another process
  child,        \* a process that is to become the listener and has no lock yet
  listener,     \* "none", "starting" (no runtime yet), "live", "ending"
  command,      \* restart, _restore: "none", "restart", "restore", "begin"; or "recover"
  watch,        \* the watchdog's record of this bridge
  wpc,          \* the watchdog's place in its tick
  state,        \* the record as the tick has it
  elapsed,      \* time since the tick's now
  seen, sown,   \* the listener, the owner the tick has looked at still run
  aborts, exits,
  spawned,      \* starts by the watchdog since its record last had no attempts
  due,          \* time until the next attempt may come
  liveFor       \* time the listener has been live

store == <<supervised, stop>>
tick == <<wpc, state, elapsed>>
history == <<spawned, due, liveFor>>
vars == <<store, owner, child, listener, command, watch, tick, seen, sown, aborts, exits, history>>

Least(a, b) == IF a <= b THEN a ELSE b
Left(n) == IF n = 0 THEN 0 ELSE n - 1          \* a time to come, one unit later

Live == listener \in {"live", "ending"}

-----------------------------------------------------------------------------
(***************************************************************************)
(* The watchdog's record                                                   *)
(***************************************************************************)
\* age: since window_start.  wait, pause: until next_at, paused_until.  stable: since
\* recovered_at.  A point of time not set is one far away, and makes no difference.
Fresh == [age |-> Window, attempts |-> 0, wait |-> 0, pause |-> 0, stable |-> Stable]

Later(r) ==
  [r EXCEPT !.age = Least(@ + 1, Window), !.wait = Left(@), !.pause = Left(@),
            !.stable = Least(@ + 1, Stable)]

Backoff(attempts) == Least(MaxDelay, BaseDelay * 2 ^ (attempts - 1))

\* No delay from the tick's now, and no age, is told from a longer one.
Longest == IF MaxDelay <= Stable THEN Stable ELSE MaxDelay

\* What of a delay from the tick's now is left.
Remaining(delay) == IF delay <= elapsed THEN 0 ELSE delay - elapsed

\* Mistaken variant: a new window keeps the attempts of the old one.
WatchStateKept(r) == IF r.age = Window THEN [r EXCEPT !.age = 0, !.pause = 0] ELSE r

\* _watch_state: a window that is over starts anew.
WatchState(r) ==
  IF r.age = Window THEN [r EXCEPT !.age = 0, !.attempts = 0, !.pause = 0] ELSE r

Exhausted(r) == r.attempts + 1 > MaxAttempts

\* Mistaken variant: a whole window from now.
WholeWindow(r) == Window

UntilWindowEnds(r) == Window - r.age

Paused(r) == [r EXCEPT !.wait = UntilWindowEnds(r), !.pause = UntilWindowEnds(r)]

\* The attempt as it is stored before anything is started.
Counted(r) ==
  [r EXCEPT !.attempts = @ + 1,
            !.wait = Remaining(Backoff(r.attempts + 1)),
            !.pause = IF r.attempts + 1 >= MaxAttempts THEN UntilWindowEnds(r) ELSE 0]

Started(r) == [r EXCEPT !.stable = Least(elapsed, Stable)]
Failed(r) == [r EXCEPT !.wait = IF r.attempts >= MaxAttempts THEN r.pause ELSE @]
Settled(r) == [r EXCEPT !.attempts = 0, !.wait = 0, !.pause = 0]

-----------------------------------------------------------------------------
Init ==
  /\ supervised = TRUE /\ stop = FALSE
  /\ owner = "live" /\ child = FALSE /\ listener = "live" /\ command = "none"
  /\ watch = Fresh
  /\ wpc = "idle" /\ state = Fresh /\ elapsed = 0 /\ seen = FALSE /\ sown = FALSE
  /\ aborts = 0 /\ exits = 0
  /\ spawned = 0 /\ due = 0 /\ liveFor = Stable

Clock ==
  /\ watch' = Later(watch)
  /\ IF wpc = "idle"
     THEN UNCHANGED <<state, elapsed>>
     ELSE state' = Later(state) /\ elapsed' = Least(elapsed + 1, Longest)
  /\ due' = Left(due)
  /\ liveFor' = IF Live THEN Least(liveFor + 1, Stable) ELSE liveFor
  /\ UNCHANGED <<store, owner, child, listener, command, wpc, seen, sown, aborts, exits, spawned>>

(***************************************************************************)
(* The listener                                                            *)
(***************************************************************************)
Spawn == child' = TRUE

\* serve: ends if stop is set, or if another listener holds the lock.
ServeBegins ==
  /\ child /\ child' = FALSE
  /\ listener' = IF ~stop /\ listener = "none" THEN "starting" ELSE listener
  /\ UNCHANGED <<store, owner, command, watch, tick, seen, sown, aborts, exits, history>>

\* serve: the socket is bound, then stop is cleared and runtime says who listens.
ServeUp ==
  /\ listener = "starting"
  /\ listener' = "live" /\ stop' = FALSE /\ liveFor' = 0
  /\ UNCHANGED <<supervised, owner, child, command, watch, tick, seen, sown, aborts, exits,
                 spawned, due>>

ListenerGone ==
  /\ listener' = "none" /\ seen' = FALSE
  /\ UNCHANGED <<store, owner, child, command, watch, tick, sown, aborts, exits, history>>

\* Mistaken variant: the loop looks at signals and the owner, not at stop.
ServeEndsDeaf ==
  /\ \/ listener = "ending"
     \/ listener = "live" /\ owner # "live" /\ ~supervised
  /\ ListenerGone

\* serve: signalled, told to stop, or unsupervised without its owner.
ServeEnds ==
  /\ \/ listener = "ending"
     \/ listener = "live" /\ (stop \/ (owner # "live" /\ ~supervised))
  /\ ListenerGone

\* It does not come up, or dies, at any time.
ServeDies ==
  \/ listener # "none" /\ ListenerGone
  \/ /\ child /\ child' = FALSE
     /\ UNCHANGED <<store, owner, listener, command, watch, tick, seen, sown, aborts,
                    exits, history>>

(***************************************************************************)
(* Owners and commands                                                     *)
(***************************************************************************)
OwnerExits ==
  /\ owner # "gone" /\ exits < MaxExit
  /\ owner' = "gone" /\ sown' = FALSE /\ exits' = exits + 1
  /\ UNCHANGED <<store, child, listener, command, watch, tick, seen, aborts, history>>

OwnerResumes ==
  /\ owner = "gone"
  /\ owner' = "resumed"
  /\ UNCHANGED <<store, child, listener, command, watch, tick, seen, sown, aborts, exits,
                 history>>

\* start_bridge is refused without an owner, and while a listener of another one lives.
MayStart == owner # "gone" /\ ~(Live /\ owner = "resumed")

\* Beside a live listener there is nothing to start, and nothing is done about stop.
StartChild ==
  /\ IF Live THEN UNCHANGED <<stop, child>> ELSE stop' = FALSE /\ Spawn
  /\ UNCHANGED listener

StartBridge ==
  /\ MayStart
  /\ supervised' = TRUE /\ owner' = "live"
  /\ StartChild

\* startup.lock: one start at a time.
StartupLock == wpc \notin {"start", "wait"}

Start ==
  /\ StartupLock
  /\ StartBridge
  /\ UNCHANGED <<command, watch, tick, seen, sown, aborts, exits, history>>

Stop ==
  /\ supervised' = FALSE /\ stop' = TRUE
  /\ UNCHANGED <<owner, child, listener, command, watch, tick, seen, sown, aborts, exits,
                 history>>

\* restart stops first; from then on it may fail and leave the bridge stopped.
RestartStop ==
  /\ command = "none"
  /\ stop' = TRUE /\ command' = "restart"
  /\ UNCHANGED <<supervised, owner, child, listener, watch, tick, seen, sown, aborts, exits,
                 history>>

\* _restore, run by the first hook of a resumed session: ends the old owner's listener.
RestoreStop ==
  /\ command = "none"
  /\ owner = "resumed" /\ ~stop
  /\ listener' = IF Live THEN "ending" ELSE listener
  /\ command' = "restore"
  /\ UNCHANGED <<store, owner, child, watch, tick, seen, sown, aborts, exits, history>>

\* Its second look at stop is its last: the start it runs is an ordinary one.
RestoreGoesOn ==
  /\ command = "restore" /\ ~Live
  /\ owner # "gone" /\ ~stop
  /\ command' = "begin"
  /\ UNCHANGED <<store, owner, child, listener, watch, tick, seen, sown, aborts, exits,
                 history>>

\* The start that restart or _restore ends with, or that a dead watchdog has left behind.
CommandStarts ==
  /\ \/ command = "restart" /\ ~Live /\ owner = "live"
     \/ command = "begin"
     \/ command = "recover" /\ ~stop /\ supervised
  /\ StartupLock
  /\ StartBridge
  /\ command' = "none"
  /\ UNCHANGED <<watch, tick, seen, sown, aborts, exits, history>>

\* The old listener does not exit in time, the owner is gone, or the start is refused.
CommandFails ==
  /\ command # "none"
  /\ command' = "none"
  /\ UNCHANGED <<store, owner, child, listener, watch, tick, seen, sown, aborts, exits,
                 history>>

(***************************************************************************)
(* The watchdog: one tick                                                  *)
(***************************************************************************)
EndTick == wpc' = "idle" /\ state' = Fresh /\ elapsed' = 0 /\ seen' = FALSE /\ sown' = FALSE

\* Storing a record without attempts, or the first one, begins a new count.
Record(r) ==
  /\ watch' = r
  /\ spawned' = IF r.attempts = 0 \/ state.attempts = 0 THEN 0 ELSE spawned

\* What a tick is going to do about what it has read, if anything.  A record with
\* attempts has another last_result than "recovered", so that test says nothing more.
Duty(r) ==
  LET mayTry == ~Live /\ r.pause = 0 /\ r.wait = 0
  IN CASE Live /\ owner = "resumed" -> "signal"
       [] Live /\ owner # "resumed" /\ r.attempts > 0 /\ r.stable = Stable -> "settle"
       [] mayTry /\ owner # "gone" -> "recover"
       [] mayTry /\ owner = "gone" -> "endpoint"
       [] OTHER -> "idle"

\* tick: reads the store without a transaction around what follows.
Look ==
  /\ wpc = "idle"
  /\ supervised /\ ~stop
  /\ state' = WatchState(watch)
  /\ wpc' = Duty(state') /\ wpc' # "idle"
  /\ elapsed' = 0
  /\ seen' = Live /\ sown' = (owner # "gone")
  /\ UNCHANGED <<store, owner, child, listener, command, watch, aborts, exits, history>>

\* Mistaken variant: whatever listens now is signalled.
SignalBlindly ==
  /\ wpc = "signal"
  /\ IF Live
     THEN listener' = "ending" /\ Record(state)
     ELSE UNCHANGED <<listener, watch, spawned>>
  /\ EndTick
  /\ UNCHANGED <<store, owner, child, command, aborts, exits, due, liveFor>>

\* _signal_listener: the process it has seen, if that still runs.
Signal ==
  /\ wpc = "signal"
  /\ IF seen
     THEN listener' = "ending" /\ Record(state)
     ELSE UNCHANGED <<listener, watch, spawned>>
  /\ EndTick
  /\ UNCHANGED <<store, owner, child, command, aborts, exits, due, liveFor>>

Settle ==
  /\ wpc = "settle"
  /\ Record(Settled(state))
  /\ due' = 0
  /\ EndTick
  /\ UNCHANGED <<store, owner, child, listener, command, aborts, exits, liveFor>>

\* Mistaken variant: the attempt is stored with its result only.
AttemptLate(next) ==
  /\ ~Exhausted(state)
  /\ state' = Counted(state)
  /\ due' = Counted(state).wait
  /\ wpc' = next
  /\ UNCHANGED <<watch, spawned, elapsed, seen, sown>>

\* Mistaken variant: what is stored later is built on the record before the attempt.
AttemptForgotten(next) ==
  /\ ~Exhausted(state)
  /\ Record(Counted(state))
  /\ due' = Counted(state).wait
  /\ wpc' = next
  /\ UNCHANGED <<state, elapsed, seen, sown>>

\* The attempt is stored before anything is started.
Attempt(next) ==
  /\ ~Exhausted(state)
  /\ state' = Counted(state)
  /\ Record(Counted(state))
  /\ due' = Counted(state).wait
  /\ wpc' = next
  /\ UNCHANGED <<elapsed, seen, sown>>

\* No attempt: none is left in this window (the pause lasts as long, so this never
\* happens), or the owner has gone meanwhile.
NoAttempt ==
  /\ Exhausted(state) \/ (wpc = "recover" /\ ~sown)
  /\ Record(IF Exhausted(state) THEN Paused(state) ELSE state)
  /\ EndTick
  /\ UNCHANGED due

\* _recover and _keep_endpoint up to the start.
Try ==
  /\ \/ wpc = "recover" /\ sown /\ Attempt("run")
     \/ wpc = "endpoint" /\ Attempt("popen")
     \/ wpc \in {"recover", "endpoint"} /\ NoAttempt
  /\ UNCHANGED <<store, owner, child, listener, command, aborts, exits, liveFor>>

\* start --recover: takes the lock, and looks at stop and supervision, once.
RunLook ==
  /\ wpc = "run"
  /\ ~stop /\ supervised
  /\ sown /\ MayStart
  /\ wpc' = "start"
  /\ UNCHANGED <<store, owner, child, listener, command, watch, state, elapsed, seen, sown,
                 aborts, exits, history>>

\* What it writes and starts after that, for the owner it was given.
RunStart ==
  /\ wpc = "start"
  /\ supervised' = TRUE
  /\ owner' = IF sown THEN "live" ELSE owner
  /\ StartChild
  /\ spawned' = IF Live THEN spawned ELSE spawned + 1
  /\ wpc' = IF Live THEN "started" ELSE "wait"
  /\ UNCHANGED <<command, watch, state, elapsed, seen, sown, aborts, exits, due, liveFor>>

RunConfirms ==
  /\ wpc = "wait" /\ Live
  /\ wpc' = "started"
  /\ UNCHANGED <<store, owner, child, listener, command, watch, state, elapsed, seen, sown,
                 aborts, exits, history>>

\* It is cancelled, fails, or takes too long, whatever it has done by then.
RunFails ==
  /\ wpc \in {"run", "start", "wait"}
  /\ Record(Failed(state))
  /\ EndTick
  /\ UNCHANGED <<store, owner, child, listener, command, aborts, exits, due, liveFor>>

\* _keep_endpoint starts the listener itself.
Popen ==
  /\ wpc = "popen"
  /\ Spawn
  /\ spawned' = spawned + 1
  /\ wpc' = "started"
  /\ UNCHANGED <<store, owner, listener, command, watch, state, elapsed, seen, sown, aborts,
                 exits, due, liveFor>>

PopenFails ==
  /\ wpc = "popen"
  /\ Record(state)
  /\ EndTick
  /\ UNCHANGED <<store, owner, child, listener, command, aborts, exits, due, liveFor>>

RecordStarted ==
  /\ wpc = "started"
  /\ Record(Started(state))
  /\ EndTick
  /\ UNCHANGED <<store, owner, child, listener, command, aborts, exits, due, liveFor>>

\* The store is locked, or the watchdog dies and is started again (ensure).  A command
\* it has started goes on, and may still start a listener: that counts as done.
Abort ==
  /\ wpc # "idle" /\ aborts < MaxAbort
  /\ aborts' = aborts + 1
  /\ IF wpc \in {"run", "start"}
     THEN /\ command = "none"
          /\ command' = IF wpc = "run" THEN "recover" ELSE "begin"
          /\ spawned' = spawned + 1
     ELSE UNCHANGED <<command, spawned>>
  /\ EndTick
  /\ UNCHANGED <<store, owner, child, listener, watch, exits, due, liveFor>>

Watchdog ==
  \/ Look \/ Signal \/ Settle \/ Try
  \/ RunLook \/ RunStart \/ RunConfirms \/ RunFails
  \/ Popen \/ PopenFails
  \/ RecordStarted

Listener == ServeBegins \/ ServeUp \/ ServeEnds \/ ServeDies
Owner == OwnerExits \/ OwnerResumes
Commands ==
  \/ Start \/ Stop
  \/ RestartStop
  \/ RestoreStop \/ RestoreGoesOn
  \/ CommandStarts \/ CommandFails

Next == Clock \/ Listener \/ Owner \/ Commands \/ Watchdog \/ Abort

Spec == Init /\ [][Next]_vars

\* Time passes, the watchdog polls every two seconds and its commands have time
\* limits, a child and a starting listener come up or die, and the listener's loop looks
\* at its conditions several times a second.  No start need succeed, and no command need
\* be given.
FairSpec ==
  /\ Spec
  /\ WF_vars(Clock) /\ WF_vars(Watchdog)
  /\ WF_vars(ServeBegins) /\ WF_vars(ServeUp) /\ WF_vars(ServeEnds)

-----------------------------------------------------------------------------
\* Types; and a pause ends with the window it belongs to.
TypeOK ==
  /\ \A r \in {watch, state} : r.age + r.pause <= Window
  /\ {supervised, stop, child, seen, sown} \subseteq BOOLEAN
  /\ owner \in {"live", "gone", "resumed"}
  /\ listener \in {"none", "starting", "live", "ending"}
  /\ command \in {"none", "restart", "restore", "begin", "recover"}
  /\ {watch, state} \subseteq
       [age : 0..Window, attempts : 0..MaxAttempts, wait : Nat, pause : 0..Window,
        stable : 0..Stable]
  /\ wpc \in {"idle", "signal", "settle", "recover", "endpoint", "run", "start", "wait",
              "popen", "started"}
  /\ elapsed \in Nat /\ aborts \in 0..MaxAbort /\ exits \in 0..MaxExit
  /\ spawned \in Nat /\ due \in Nat /\ liveFor \in 0..Stable

\* The watchdog never starts more than its stored attempts say, whatever aborts it:
\* "a watchdog crash mid-attempt must not retry ambiguously" (_recover).
SpawnsAreCounted == spawned <= watch.attempts

\* In one window an attempt waits for the delay of the one before, counted from the
\* tick that made it, unless the bridge was found stable in between ("exponential
\* backoff").  The first attempt of the next window may come sooner.
BackoffIsKept ==
  [][state.attempts > 0 /\ wpc \in {"recover", "endpoint"} /\ wpc' \in {"run", "popen"} =>
       due = 0]_vars

\* The watchdog ends no listener but one whose owner is gone, also when another has
\* taken its place since it looked (_signal_listener).
SignalsOrphans ==
  [][wpc = "signal" /\ listener # "ending" /\ listener' = "ending" => owner # "live"]_vars

\* stop ends whatever listens, unless a start takes it back: a later one, or the
\* listener that was starting when stop was given.
StopEnds == stop ~> (listener = "none" /\ ~child) \/ ~stop

\* Nobody gives up for good: a supervised bridge without a listener is tried again,
\* also after the attempts of a window are used up.
TriesAgain ==
  (supervised /\ ~stop /\ listener = "none")
    ~> (wpc \in {"run", "popen"} \/ listener # "none" \/ ~supervised \/ stop)

\* "Explicit stop and supervision false are always respected" (peer_watch.py:11-12): the
\* watchdog takes no stop back.
StopIsRespected == [][Watchdog /\ stop => stop']_vars

\* "attempts stay counted until the listener has been live for STABLE_S"
\* (peer_watch.py:276).
SettledIsStable == [][Settle => liveFor = Stable]_vars
=============================================================================
