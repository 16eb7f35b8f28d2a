----------------------------- MODULE BallRelay -----------------------------
(***************************************************************************)
(* How the position of one player's ball reaches another player's screen.  *)
(*                                                                         *)
(* The game thread of the player polls the ball and posts a task to a      *)
(* thread pool; the task sends the full state if the ball has moved (or    *)
(* every ForceSendMax-th time), and otherwise only a timestamp             *)
(* (local_state_handler_base.h).  The messages are unreliable: they are    *)
(* lost and overtake each other.  The server keeps the newest state and    *)
(* relays at each tick what has changed; the viewer keeps what is newer    *)
(* than what it has, after adding to each stamp the moving average of how  *)
(* old what arrived was.  In ghost mode the viewer is sent nothing but one *)
(* reliable message that moves every ball to infinity.                     *)
(*                                                                         *)
(* A timestamp is modelled by its age: the number of polls since it was    *)
(* taken, at least MaxAge when it is older than anything in flight.  On    *)
(* the viewer's clock a poll lasts Unit.  The difference of the two clocks *)
(* is the same in every stamp the viewer compares, and left out.  A        *)
(* position is the number of moves the ball has made.                      *)
(***************************************************************************)
EXTENDS Integers, Sequences, FiniteSets

CONSTANTS
  Workers,      \* the threads of the client's pool
  MaxMoves,     \* bound: how often the ball moves
  ForceSendMax, \* FORCE_SEND_COUNTER_MAX
  Unit,         \* the viewer's clock ticks between two polls
  MaxAge,       \* bound: an unreliable message this old is lost
  MaxInFlight,  \* bound: unreliable messages under way in each direction
  MaxReloads,   \* bound: how often ghost mode is toggled
  MaxLate,      \* bound: polls made before the task of the previous one ended
  MaxBoth       \* bound: late polls times reloads

ASSUME RelayAssumption ==
  /\ MaxMoves \in Nat
  /\ ForceSendMax \in Nat \ {0}
  /\ Unit \in Nat \ {0}
  /\ MaxAge \in Nat \ {0, 1}
  /\ MaxInFlight \in Nat \ {0}
  /\ MaxReloads \in Nat
  /\ MaxLate \in Nat
  /\ MaxBoth \in Nat

VARIABLES
  ball,      \* local_ball_state_ of the player's client (its stamp has age 0)
  changed,   \* local_ball_state_changed_
  counter,   \* force_send_counter_
  posted,    \* tasks the pool has not begun
  task,      \* what each thread of the pool runs
  late,      \* polls so far that overtook the task of the previous one
  up,        \* unreliable messages from the player to the server
  record,    \* client_data::state of the player on the server
  due,       \* what of it the next tick relays (the flags ..._updated, negated)
  ghost_mode,
  reloads,   \* how often ghost mode was toggled
  down,      \* unreliable messages from the server to the viewer
  reliable,  \* reliable messages from the server to the viewer
  viewer,    \* the newest ball_state of the player in the viewer's game_state
  time_diff, \* its average age of what arrives, the clocks' difference left out
  upset      \* history: since the last reload the average turned two stamps
             \* round, or the viewer dropped a reliable state

sender == <<ball, changed, counter, posted, task, late>>
server == <<record, due, ghost_mode, reloads>>
shown == <<viewer, time_diff, upset>>
vars == <<sender, up, server, down, reliable, shown>>

Positions == 0..MaxMoves

\* The position with an infinite y that hides a ball.
Hidden == -1

\* CLIENT_MINIMUM_UPDATE_INTERVAL_US, the time between two polls, in ages;
\* a mutant does not stamp ahead.
NoLead == 0
HideLead == 1

Ages == -1..MaxAge

\* On the viewer's clock, older than all that may come.
OldLag == Unit * MaxAge + 1

\* time_diff before the first message: no average.
NoDiff == -OldLag

\* The history torn: the ball had moved on when the stamp was read.
State(pos, age, torn) ==
  [type |-> "TimedBallState", pos |-> pos, age |-> age, torn |-> torn]
Stamp(age) == [type |-> "Timestamp", age |-> age]

Messages ==
  [type : {"TimedBallState"}, pos : Positions, age : 0..(MaxAge - 1), torn : BOOLEAN]
    \cup [type : {"Timestamp"}, age : 0..(MaxAge - 1)]

Idle == [step |-> "idle", pos |-> 0, count |-> 0, forced |-> FALSE]

\* The player's first state, sent reliably at login, has arrived.
Init ==
  /\ ball = 0
  /\ changed = FALSE
  /\ counter = 0
  /\ posted = 0
  /\ task = [w \in Workers |-> Idle]
  /\ late = 0
  /\ up = {}
  /\ record = [pos |-> 0, age |-> MaxAge, torn |-> FALSE]
  /\ due = {}
  /\ ghost_mode = FALSE
  /\ reloads = 0
  /\ down = {}
  /\ reliable = <<>>
  /\ viewer = [pos |-> 0, age |-> MaxAge, lag |-> OldLag, torn |-> FALSE, turned |-> FALSE]
  /\ time_diff = NoDiff
  /\ upset = FALSE

-----------------------------------------------------------------------------
(* The network.                                                            *)

\* What a channel may hold after m is sent: when MaxInFlight messages are
\* under way one of them is lost.
Sent(channel, m) ==
  IF Cardinality(channel) < MaxInFlight
  THEN {channel \cup {m}}
  ELSE {(channel \ {x}) \cup {m} : x \in channel}

\* A poll later: messages that have become too old are lost.
Aged(channel) ==
  {[m EXCEPT !.age = @ + 1] : m \in {x \in channel : x.age + 1 < MaxAge}}

\* A poll later, for a stamp that is kept.
Older(r) == [r EXCEPT !.age = IF @ < MaxAge THEN @ + 1 ELSE @]

-----------------------------------------------------------------------------
(* The player's client.                                                    *)

Working == posted > 0 \/ \E w \in Workers : task[w].step # "idle"

\* poll_and_send_state on the game thread: the stamp is now, and a task is
\* posted.  The clock stands still while a reliable message or a state that
\* waits for the server's tick would become MaxAge old.
Poll ==
  /\ \A i \in DOMAIN reliable : reliable[i].age + 1 < MaxAge
  /\ "state" \in due => record.age + 1 < MaxAge
  /\ \/ ~Working /\ UNCHANGED late
     \/ Working /\ posted = 0 /\ late < MaxLate /\ late' = late + 1
        /\ (late + 1) * reloads <= MaxBoth
  /\ \/ UNCHANGED <<ball, changed>>
     \/ ball < MaxMoves /\ ball' = ball + 1 /\ changed' = TRUE
  /\ posted' = posted + 1
  /\ up' = Aged(up)
  /\ down' = Aged(down)
  /\ reliable' = [i \in DOMAIN reliable |-> Older(reliable[i])]
  /\ record' = Older(record)
  /\ viewer' = [Older(viewer) EXCEPT !.lag = IF @ + Unit < OldLag THEN @ + Unit ELSE OldLag]
  /\ UNCHANGED <<counter, task, due, ghost_mode, reloads, time_diff, upset>>

\* The tasks counted so far, this one included; in the mutant only those with
\* something to send.
CountedIfMoved(count) == IF changed THEN count + 1 ELSE count
Counted(count) == count + 1

\* force_send.
Forced(count) == count >= ForceSendMax

\* assemble_and_send_state on a thread of the pool.  The counter is a plain
\* int: it is loaded here and stored below, and another thread's store in
\* between is lost.  Idle threads are alike: one of them is chosen.
Begin(w) ==
  /\ posted > 0
  /\ task[w].step = "idle"
  /\ w = CHOOSE v \in Workers : task[v].step = "idle"
  /\ posted' = posted - 1
  /\ task' = [task EXCEPT ![w] = [Idle EXCEPT !.step = "count", !.count = counter]]
  /\ UNCHANGED <<ball, changed, counter, late, up, server, down, reliable, shown>>

\* The counter is stored and the message chosen.
Choose(w) ==
  /\ task[w].step = "count"
  /\ counter' = Counted(task[w].count)
  /\ task' = [task EXCEPT ![w] =
       [Idle EXCEPT !.step = IF changed \/ Forced(counter') THEN "copy" ELSE "stamp",
                    !.forced = Forced(counter')]]
  /\ UNCHANGED <<ball, changed, posted, late, up, server, down, reliable, shown>>

\* The memcpy of the state.
Copy(w) ==
  /\ task[w].step = "copy"
  /\ task' = [task EXCEPT ![w].step = "send", ![w].pos = ball]
  /\ UNCHANGED <<ball, changed, counter, posted, late, up, server, down, reliable, shown>>

\* The stamp is read after the state is copied, and the message sent.
SendState(w) ==
  /\ task[w].step = "send"
  /\ up' \in Sent(up, State(task[w].pos, 0, task[w].pos # ball))
  /\ task' = [task EXCEPT ![w].step = "clear", ![w].pos = 0]
  /\ UNCHANGED <<ball, changed, counter, posted, late, server, down, reliable, shown>>

\* The flag is cleared after the message is sent.
Clear(w) ==
  /\ task[w].step = "clear"
  /\ changed' = FALSE
  /\ task' = [task EXCEPT ![w] = [Idle EXCEPT !.step = IF task[w].forced THEN "reset" ELSE "idle"]]
  /\ UNCHANGED <<ball, counter, posted, late, up, server, down, reliable, shown>>

\* A forced send starts the count again.
Reset(w) ==
  /\ task[w].step = "reset"
  /\ counter' = 0
  /\ task' = [task EXCEPT ![w] = Idle]
  /\ UNCHANGED <<ball, changed, posted, late, up, server, down, reliable, shown>>

SendStamp(w) ==
  /\ task[w].step = "stamp"
  /\ up' \in Sent(up, Stamp(0))
  /\ task' = [task EXCEPT ![w] = Idle]
  /\ UNCHANGED <<ball, changed, counter, posted, late, server, down, reliable, shown>>

-----------------------------------------------------------------------------
(* The server.                                                             *)

\* A message is used unless its stamp is older than the recorded one
\* (in the mutant, whatever comes).
Anything(m) == TRUE
NotOlder(m) == m.age <= record.age

OnTimedBallState(m) ==
  /\ m.type = "TimedBallState"
  /\ up' = up \ {m}
  /\ \/ /\ NotOlder(m)
        /\ record' = [pos |-> m.pos, age |-> m.age, torn |-> m.torn]
        /\ due' = due \cup {"state"}
     \/ ~NotOlder(m) /\ UNCHANGED <<record, due>>
  /\ UNCHANGED <<sender, ghost_mode, reloads, down, reliable, shown>>

OnTimestamp(m) ==
  /\ m.type = "Timestamp"
  /\ up' = up \ {m}
  /\ \/ /\ NotOlder(m)
        /\ record' = [record EXCEPT !.age = m.age]
        /\ due' = due \cup {"timestamp"}
     \/ ~NotOlder(m) /\ UNCHANGED <<record, due>>
  /\ UNCHANGED <<sender, ghost_mode, reloads, down, reliable, shown>>

\* tick: a message that carries the state carries its stamp too, so that the
\* entry the stamp has among the unchanged balls adds nothing to it.  In ghost
\* mode only spectators and operators are sent it, and the viewer is neither.
\* A stamp that has become MaxAge old is older than what the viewer has.
Tick ==
  /\ due # {}
  /\ due' = {}
  /\ \/ (ghost_mode \/ record.age = MaxAge) /\ UNCHANGED down
     \/ /\ ~ghost_mode /\ record.age < MaxAge
        /\ down' \in Sent(down, IF "state" \in due THEN State(record.pos, record.age, record.torn)
                                ELSE Stamp(record.age))
  /\ UNCHANGED <<sender, up, record, ghost_mode, reloads, reliable, shown>>

\* The states load_config sends when ghost mode has been toggled.
Shown == record
Hiding == [pos |-> Hidden, age |-> record.age - HideLead, torn |-> FALSE]

\* The console command "reload" with ghost mode toggled in the file.
Reload ==
  /\ reloads < MaxReloads
  /\ late * (reloads + 1) <= MaxBoth
  /\ reloads' = reloads + 1
  /\ ghost_mode' = ~ghost_mode
  /\ reliable' = Append(reliable, IF ghost_mode' THEN Hiding ELSE Shown)
  /\ upset' = FALSE
  /\ UNCHANGED <<sender, up, record, due, down, viewer, time_diff>>

-----------------------------------------------------------------------------
(* The viewer.                                                             *)

\* get_updated_timestamp: the moving average after something of that age, which
\* is between what it was and the new delay, however the two are weighted.
Averages(age) ==
  IF time_diff = NoDiff THEN {Unit * age}
  ELSE time_diff..(Unit * age) \cup (Unit * age)..time_diff

\* How far behind the viewer's clock a stamp of that age is once the average is
\* added to it.
Lag(age, average) == Unit * age - average

\* game_state::update keeps only what is then newer than the newest state.
Newer(m, average) == Lag(m.age, average) < viewer.lag

\* What is refused counts for the average too.
Recalibrate(m, average) ==
  /\ time_diff' = average
  /\ upset' = (upset \/ Newer(m, average) # (m.age < viewer.age))

\* The state in the message is the newest one.
Taken(m, average) ==
  [pos |-> m.pos, age |-> m.age, lag |-> Lag(m.age, average), torn |-> m.torn,
   turned |-> FALSE]

\* The newest state is given the stamp in the message.  The history turned: it
\* was given an older one than it had.
Restamped(m, average) ==
  [viewer EXCEPT !.age = m.age, !.lag = Lag(m.age, average),
                 !.turned = @ \/ m.age > viewer.age]

\* An unreliable OwnedCompressedBallState arrives (that the viewer drops it
\* because its game holds the lock is one of the ways to lose it).
OnBallStates(m) ==
  /\ down' = down \ {m}
  /\ \E average \in Averages(m.age) :
       /\ Recalibrate(m, average)
       /\ viewer' = IF ~Newer(m, average) THEN viewer
                    ELSE IF m.type = "TimedBallState" THEN Taken(m, average)
                    ELSE Restamped(m, average)
  /\ UNCHANGED <<sender, up, server, reliable>>

\* A reliable one arrives: the handler drops it all the same when it cannot
\* take the lock at once.
OnReliableStates ==
  /\ reliable # <<>>
  /\ reliable' = Tail(reliable)
  /\ \/ \E average \in Averages(Head(reliable).age) :
          /\ Recalibrate(Head(reliable), average)
          /\ viewer' = IF Newer(Head(reliable), average)
                       THEN Taken(Head(reliable), average) ELSE viewer
     \/ upset' = TRUE /\ UNCHANGED <<viewer, time_diff>>
  /\ UNCHANGED <<sender, up, server, down>>

-----------------------------------------------------------------------------
Task(w) ==
  Begin(w) \/ Choose(w) \/ Copy(w) \/ SendState(w) \/ Clear(w) \/ Reset(w) \/ SendStamp(w)

Next ==
  \/ Poll
  \/ \E w \in Workers : Task(w)
  \/ \E m \in up : OnTimedBallState(m) \/ OnTimestamp(m)
  \/ Tick
  \/ Reload
  \/ \E m \in down : OnBallStates(m)
  \/ OnReliableStates

\* The threads run; what is sent over and over is not always lost or overtaken.
FreshStateArrives == \E m \in up : NotOlder(m) /\ OnTimedBallState(m)
FreshStateShown ==
  \E m \in down :
    m.type = "TimedBallState" /\ OnBallStates(m) /\ Newer(m, time_diff')

Fairness ==
  /\ WF_vars(Poll)
  /\ \A w \in Workers : WF_vars(Task(w))
  /\ WF_vars(Tick)
  /\ WF_vars(OnReliableStates)
  /\ SF_vars(FreshStateArrives)
  /\ SF_vars(FreshStateShown)

Spec == Init /\ [][Next]_vars /\ Fairness

-----------------------------------------------------------------------------
TypeOK ==
  /\ ball \in Positions
  /\ changed \in BOOLEAN
  /\ counter \in Nat
  /\ posted \in 0..1
  /\ task \in [Workers -> [step : {"idle", "count", "copy", "send", "clear", "reset", "stamp"},
                           pos : Positions, count : Nat, forced : BOOLEAN]]
  /\ late \in 0..MaxLate
  /\ up \subseteq Messages
  /\ record \in [pos : Positions, age : 0..MaxAge, torn : BOOLEAN]
  /\ due \subseteq {"state", "timestamp"}
  /\ ghost_mode \in BOOLEAN
  /\ down \subseteq Messages
  /\ reliable \in Seq([pos : Positions \cup {Hidden}, age : Ages, torn : BOOLEAN])
  /\ reloads \in 0..MaxReloads
  /\ viewer \in [pos : Positions \cup {Hidden}, age : Ages, lag : Int,
                 torn : BOOLEAN, turned : BOOLEAN]
  /\ time_diff \in Int
  /\ upset \in BOOLEAN

\* However the messages overtake each other and however the tasks of the pool
\* overlap, the ball goes back on the server only through a state that was torn
\* (copied before a poll and stamped after it), and on the viewer's screen only
\* through such a state or where the average of the delays has put an older
\* stamp before a newer one (server.cpp:944, game_state.h:128-180).
NoStepBack ==
  [][/\ record'.pos < record.pos => record'.torn
     /\ viewer.pos # Hidden /\ viewer'.pos # Hidden /\ viewer'.pos < viewer.pos
          => viewer'.torn \/ viewer.turned \/ viewer'.age >= viewer.age]_vars

\* In ghost mode the viewer sees no ball once the message that hides it has
\* arrived and was not dropped: nothing sent before it brings the ball back
\* (server.cpp:218-232, where the hiding state is stamped ahead), unless the
\* average of the delays has since turned two stamps round, which one poll's
\* lead does not rule out (game_state.h:140).
HideWins ==
  ghost_mode /\ reliable = <<>> /\ ~upset => viewer.pos = Hidden

\* Once the ball rests and ghost mode stays off, the viewer ends up showing
\* it where it is, whatever was lost, overtaken, or never sent because the
\* flag was cleared after the ball had moved again
\* (local_state_handler_base.h:37-48).
Settles ==
  \A p \in Positions : <>[](ball = p /\ ~ghost_mode) => <>[](viewer.pos = p)
=============================================================================
