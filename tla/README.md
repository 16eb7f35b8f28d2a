# BallanceMMO in TLA+

A formal model of BallanceMMO, the multiplayer mod of the game Ballance: its
server, the client that runs inside the game, the recorder of sessions and the
replayer of what was recorded. The modules are translated
from the C++ under `src/`; `PROJECT.json` names, for every definition, the lines
it models. TLC checks the modules on small instances, TLAPS proves theorems about
them for every value of their constants.

    tlc -workers 2 -config SessionCore.cfg MCServerSession.tla
    tlapm ServerSession_proofs.tla

Contents: 1 the system, 2 the modules, 3 the runs, 4 the proofs, 5 what the
models say about the code, 6 what is left out, 7 the plan.

## 1 The system

Four programs speak one protocol over Valve's GameNetworkingSockets: reliable
messages of one connection arrive in order and once, unreliable ones may be
lost or overtake each other, and the end of a connection is reported by a
callback that the library queues.

### Server (`BallanceMMOServer/server.cpp`)

*State.* `clients_` (connection to name, uuid, map, ball state, cheat, ready and
dnf flags), `username_` (lower-case name to connection),
`ghost_spectator_clients_`, `maps_` (per map: rank, start time, finishes,
forfeits), `map_names_`, `permanent_notification_`, `ticking_`, and the
configuration (operators, bans, mutes, reserved and forced names, switches).

*Threads.* The server thread loops: take at most `ONCE_RECV_MSG_COUNT` messages
and handle each, then dispatch the queued callbacks. The ticker broadcasts ball
states while at least two clients are online. The console thread runs commands,
which use the same containers with no lock.

*Operations.* Accept a connection; `LoginRequestV3` (validate, refuse, grant a
name, register, announce); kick; the callback that ends a connection and
`cleanup_disconnected_client`; countdowns, finishes, forfeits, warnings; ball
states and stamps; console commands.

*Hard.* A kicked client stays registered until a callback that races with its
last messages and with every other way the connection can end. Three registries
hold the same clients under different keys. Boards are cleared by messages that
cross finishes on the way. Console commands run beside the server thread.

*Right when.* Every registered client has a connection or a callback that will
unregister it, and no connection is forgotten; the registries agree; names are
unique; the ticker runs exactly while two are online; every client's roster is
the server's up to what is under way to it; places are given once each; what a
client shows of a match is what the server has on record.

### Mod client (`BallanceMMOClient/`)

*State.* The connection and its threads, `logged_in_`, `db_` (other players:
name, map, newest ball state and stamp), `maps_` and `did_not_finish_` (match
boards), the local ball state with its changed flag and force counter.

*Threads.* The game thread (callbacks of the engine), the network thread, the
ping thread, and a pool of two.

*Operations.* Connect, resolve, reconnect, clean up; the handler of each
message; polling the ball; level start, finish, forfeit, countdowns.

*Hard.* The ball is polled on one thread and copied, sent and marked as sent on
another; the handler of ball states gives up when the game thread holds the
lock; match messages carry what was true when they were sent; reconnections
sleep in the pool while the user acts.

*Right when.* A viewer's picture of a ball never goes back and ends up where the
ball is; a hidden ball stays hidden; connecting and leaving in any order leave no
lock held and lead where the player asked; everybody comes to be drawn, as what
they are, and nobody who has left; the copies of roster, places, cheat modes,
names and bulletin agree with the server's.

### Replayer (`BallanceMMOServer/record_parser.cpp`)

*State.* The record (`record_stream_`, `current_record_time_`), the seek index
(`segments_`, `timeline_`), `record_clients_` (who is online at this point of
the record), `clients_`, and the flags `playing_`, `running_`, `seeking_`.

*Threads.* A player thread reads an entry, sleeps until it is due, parses and
broadcasts it. The console thread plays, pauses, seeks, stops. The server thread
lets viewers in and out. Only stream and clock have a mutex.

*Hard.* A seek rebuilds `record_clients_` while an entry read before is about to
be applied to it; a login copies it while entries are broadcast; the seek index
is off by the number of its own crossings; the player sleeps over the mutex.

*Right when.* Viewers show `record_clients_`; `record_clients_` is what the
entries played so far lead to; a seek lands where it was told to; every command
ends.

### Recorder and headless client (`BallanceMMOServer/client.cpp`)

*State.* `message_queue_`, the file, `running_`, the connection; as a client its
own `clients_`, `map_names_` and bulletin.

*Threads.* The network thread fills the queue, the record thread writes it out,
the main thread starts both, reconnects and stops.

*Hard.* Conditions change outside the mutex of the condition variable; a stop
empties the queue without its mutex, after a second that has to be enough.

*Right when.* The file holds what arrived, once each and in order; a stop ends,
with nothing lost.

### The rest

Names and their validation, rankings, 57 message headers, configuration files,
consoles, the user interface and the launchers. `PROJECT.json` has a row for
each, with what is modelled of it.

## 2 The modules

| module | models | extends |
|---|---|---|
| `ServerSession` | connections, logins, registries, kicks, console, ticker | |
| `MatchBoard` | countdowns, finishes and forfeits on the server and the clients | |
| `BallRelay` | a ball from its player through the server to a viewer | |
| `Replayer` | the three threads of the replayer and a record | |
| `RecordLog` | what a recorder promises | |
| `Recorder` | the three threads of the recorder; implements `RecordLog` | |
| `Announcements` | who is online, where, cheating or not, and what everybody is told of it | |
| `ClientSession` | connecting, leaving and reconnecting across the mod's threads | |
| `PlayerObjects` | the balls and labels the mod draws of other players | |
| `MCServerSession`, `MCMatchBoard`, `MCReplayer`, `MCAnnouncements`, `MCPlayerObjects` | instances for TLC | the module |
| `ServerSession_proofs`, `MatchBoard_proofs`, `BallRelay_proofs`, `Replayer_proofs`, `Recorder_proofs`, `Announcements_proofs`, `ClientSession_proofs`, `PlayerObjects_proofs` | theorems | the module |

The modules meet at their messages. `MatchBoard` starts where `ServerSession`
ends (a session is a player that has been registered and heard the maps), and
takes from it that channels are reliable and that a departure is handled once.
`BallRelay` takes a player and a viewer that are both online throughout.
`Announcements` takes from `ServerSession` that a client is removed once, after it
left; `PlayerObjects` takes the messages about the roster that `Announcements`
sends; `ClientSession` is the mod's side of a connection of `ServerSession`, whose
answers are its environment.

### `ServerSession`

A connection is used once, by one peer that logs in at most once; a client that
comes again comes on another connection. A connection has the state the library
gives it (`link`: idle, connecting, connected, ended, destroyed) and a queue of
messages received (`inbox`); status changes wait in `callbacks` with their old
and new state. `roster` is what the messages sent so far to a client make it
believe of who is online: its stream is reliable, so it will. The server thread
is the loop of `run`: a round of messages, then of callbacks. Its login is one action from `validate_client` to
the announcements, as in the code, which releases nothing in between. Console
commands are actions of their own: each looks its target up first and acts on
it in a later step, between which the server thread may go on. Where the code
then uses `clients_[id]` for an id that has gone, the map grows an entry that no
connection accounts for; the variable `raced` records that this undefined use
has happened, and the invariants promise nothing after it. `set_op` runs without
a lock to its end: `ConsoleOp` and `ConsoleDeop` change the list of operators,
`OpInsert` and `DeopErase` the set of ghost viewers, `OpReconnect` closes the
connection in ghost mode, and the client may be cleaned up before each of them.
`overtaken` names the clients an op has made viewers after they had left.

### `MatchBoard`

`board[m]` is an entry of `maps_`: `rank`, whether `start_time` is set, the
places given and the forfeits. `outbox[p]` and `inbox[p]` are the reliable
channels. A client has the map it is on, `did_not_finish_`, a finish it has
scheduled but not sent (the 100 ms of `OnLevelFinish`), and the places and
forfeits it shows. Times and modes are abstracted to whether a start time is
set; `force_next_restart_` may have any value at a Go. A board is a set of
places: printing a ranking sorts it in place, which a set does not see.
Spectators have no part in it. A console command is one step. The bounds are
in the variable `left`: sessions joined, levels played, maps loaded, commands
typed.

### `BallRelay`

The game thread's `Poll` stamps and sets the flag; a task on a thread of the pool
is seven steps (`Begin`, `Choose`, `Copy`, `SendState`, `Clear`, `Reset`,
`SendStamp`), because the state it copies and the stamp it reads change under it,
and because a second thread may run the task of the next poll at the same time:
the force counter is not atomic, and its increments get lost or go past the
limit. A state copied before a poll and stamped after it is `torn`. The two
unreliable channels are sets of messages: any order, and loss by eviction from a
full channel or by age. The server keeps the newest stamp (`OnTimedBallState`,
`OnTimestamp`), its tick relays what was not relayed. `Reload` switches ghost
mode, which sends one reliable message that hides the ball or shows it again. The
viewer (`OnBallStates`, `OnReliableStates`) keeps what is newest after it has added
to each stamp a moving average of how old what arrived was, `time_diff`, which a
message moves even when it is refused; the model lets it move to anything
between its old value and the new delay, whatever the weights. So the viewer
may find an older stamp newer: `upset` says that it has compared two stamps the
wrong way round since the last reload, or dropped a reliable message because
the game thread had the lock, `viewer.turned` that its newest state has been given
an older stamp. A position is the number of moves made; a stamp is how many
polls ago it was made, so that the state space is finite though the polls go on
for ever.

### `Replayer`

The record is a constant: a sequence of entries with their times, told apart
only by what they do to the roster. Segments, crossings and the timeline are
functions of it, as `build_index` computes them. The player thread's loop is
six steps; the mutex it holds while it sleeps is `locked`. A seek is five
(`Settle`, `Reposition`, `ForwardSeek`, `Rebuild`, `Tell`), a login three. What a
viewer shows is what the mod's handlers of `LoginAcceptedV3`,
`PlayerConnectedV2` and `PlayerDisconnected` make of the messages it is sent.
Three history variables say where the code makes no promise: `astray` (viewers
that were sent an entry or a roster out of order with the copy a login made, or
an entry out of order with a seek), `rebuilt` and `disturbed` (the roster may
lack a change that was skipped).

How long the player sleeps is left out: an entry is due at any time. `Settle`
takes the 100 ms a seek sleeps for enough to let a player thread that has seen
`playing_` reach the mutex. Records are those of one session: the login first
and once, players connect when offline and disconnect when online.

### `Recorder` and `RecordLog`

An entry is its place in the order of arrival. The network thread polls a batch,
enqueues each message, and dispatches callbacks; the record thread's
`write_record` is test, wait, write, pop; `wait_till_started`, `shutdown` and the
reconnection are the main thread's. `wait_till_started` tests `running_` outside
the mutex it waits with, and `enqueue_log_message` notifies under another mutex
than the one `write_record` tests under: a thread can be told before it waits,
and then waits for the next notification. `shutdown` closes the connection the
network thread may be about to poll, whose poll then fails: `FatalError` exits
(`over` is "crashed"). `SleepIsLong` says that the second `shutdown` sleeps is
enough for the other threads to end what they are in the middle of; without it
`shutdown` and the record thread would empty one queue at once. A connection
closed by the peer ends `run` and leaves the record thread as it is. SIGINT exits
without saving and is left out, as are spurious wake-ups.

### `Announcements`

The server keeps `record` (of `clients_`: who is online, cheat mode, map and
sector), the map names it collected and the bulletin. Each client keeps a copy:
the mod in `db_`, which updates only entries that exist, the headless client in
`clients_`, whose `operator[]` makes them. `up` and `down` are the reliable
streams; ball states are unreliable and may arrive long after their sender has
left. The mod reports where the player is from two threads: the game's
(`EnterName`, `SendName`, `SendPlace`) when a level is loaded, the network's
(`NetSendsName`, `Assemble`, `NetSendsMap`) at the end of a login. The histories
say where the code makes no promise: `untold` (the cheat mode was switched when
the server was not listening: between request and acceptance,
`BallanceMMOClient.cpp` 607, or on at a headless client's login, which always says
it does not cheat), `overtaken` (the game's thread sent a newer place while the
network thread held an older one, line 1743), `nameless` (a map was sent before
its name, or without it). Names and bulletin are cleared when the last player
leaves. A mod hears a bulletin on its network thread, which tests the text that is
shown and schedules a call for the game's (`ShowBulletin`); `RunCall` is the next
frame's. A text that is cleared and set again between two frames is set by an
update of a null pointer, which ends the game (`EndGame`), and with it the
connection. A spectator asks in with cheats off, tells nobody when it switches
them and obeys no toggle. The default names of the original levels, which everybody knows, are
left out.

### `ClientSession`

Each thread is where it is in its code: the player's in connect, disconnect or
configuration, a pool thread in the resolver's handler or a reconnection, the
network thread in its loop, callback or cleanup, the ping thread before, in or
after its wait. `bml_mtx_` is held through `cleanup`, with its sleep, and while
threads are joined. A completion of the resolver stays in the stopped io_context
and is run by the next attempt. Three races lead where the lock is never given
back; the model names them in `mishaps` and does not follow what comes after:
attempts that overlap, or that find the network thread of a connection the server
refused; a ping thread that cleanup wakes before it waits; a callback or a login
handled after the cleanup of its connection. A fourth, "abandoned", is an attempt
given up while it was resolving. `FatalError` ends the program when a cleanup
closes the connection between the network thread's test of `running_` and its
poll.

Assumed: the pool takes a job at once; the pauses of 200 ms and of a second are
long enough for what they wait for; closing a connection withdraws its callbacks.
Left out: the veto of listeners, the list of servers, empty addresses and the
message "Already connected".

### `PlayerObjects`

A thread's code is the sequence of critical sections it has left, each one step;
`for_each` and `try_for_each_const` keep `db_` locked over several. The game's
thread draws frames, loads levels and runs keys and scheduled removals; the
network's changes `db_`; the third runs what is typed in the console window, which
holds nothing against a frame. `flush` (`game_state.h` 360) reads a flag and then
clears it; a frame skips a player whose lock it finds taken, with the flag
consumed. The key that shows or hides the own ball asks whether it is connected
before it waits for the lock (`ToggleOwnBall`, `ToggleLocked`): if cleanup held it,
the key goes on after the session, and either asks a handler that is gone, which
ends the game (`stranded`), or makes an entry of its own. `exists` is asked before the lock is taken and `states_[id]` written
after it. An entry that cleanup removed may come back in these ways (`revived`), and stays until
the next login. `crossed` is set when a `reload` typed in the console window
destroys objects in the middle of a frame. Spectating and physics, not part of
the default build, are left out.

## 3 The runs

All runs use two workers and take less than five minutes.

| run | cfg | distinct states | what it checks |
|---|---|---|---|
| `session_core` | `SessionCore` | 1 986 000 | `TypeOK`, `NoOrphan`, `UsernameSound`, `Findable`, `UniqueNames`, `RosterAgrees` |
| `session_console` | `SessionConsole` | 1 828 000 | console commands between the server's steps: `TicksForTwo`, `ViewersOnline` |
| `session_liveness` | `SessionLiveness` | 57 000 | `GoneAreRemoved`, `LoginsAnswered`, `StopHalts` |
| `match_sessions` | `MatchSessions` | 2 130 000 | `TypeOK`, `RanksArePlaces`, `ForfeitersListed`, `MirrorsServer` |
| `match_forfeit` | `MatchForfeit` | violation | `ForfeitIsOfThisMap` |
| `ball_relay` | `BallRelay` | 372 000 | `HideWins`, `NoStepBack`, `Settles` |
| `replayer` | `Replayer` | 549 000 | `RosterAgrees`, `PlaysRecord`, `SeekLands`, `CommandsEnd` |
| `replayer_seek` | `ReplayerSeek` | violation | `SeekRebuilds` |
| `recorder` | `Recorder` | 16 000 | `InOrder`, `SavedByStop`, `StopEnds`, and `LogSpec`: the recorder implements `RecordLog` |
| `announcements` | `Announcements` | 738 000 | `RosterKnown`, `MapsNamed`, `CheatsKnown`, `PlacesKnown`, `BulletinKnown`, `AllSettle` |
| `client_session` | `ClientSession` | 798 000 | `ConnectedIsAccepted`, `WhereAsked`, `GivenBack`, `GivesUp` |
| `player_objects` | `PlayerObjects` | 71 000 | `BallsThere`, `ObjectsGoWithPlayers`, `LabelsFollow` |

### Bounds

*Sessions.* Two connections, `ONCE_RECV_MSG_COUNT` 2 (1 in the liveness
run; 1024 in the code), one request beside the login per client. The hazards
are races of one connection's end with its own messages, of two clients for a
name, and of a round boundary with a callback: two connections of one or two
players and a round of two messages, with messages left over, have all of them.
`session_core` has every kind of login and request and no commands,
`session_console` two plain players and all commands, with configuration files
that a reload changes. `CHECK_DEADLOCK FALSE` where a stop can be typed, which
ends the system.

*Matches.* Two players, two maps (symmetric), three joins, two levels played to
their end, one map load, one console command. Two finishes are what it takes to
give a place twice, two maps what it takes to mistake one for the other, a third
join to come back to boards made before. `left` runs out, so the system may stop.

*Ball.* One move, a forced send every 2 polls (100 in the code), stamps up to 2
polls old and one tick of the viewer's clock a poll, two messages in flight each
way, two threads in the pool, one poll that overtakes the task of the one
before, ghost mode on and off once. The move may be seen, missed, sent and
overtaken by the forced sends before and after it, and be torn by the second
task. `MaxBoth` = 1 keeps the late poll to one switch of ghost mode. These are
enough for each exception the properties name but one to be reached: the record
goes back through a torn state, the viewer's ball through a torn state or
through the average, and the ball comes back in ghost mode through the average;
that a state is given an older stamp and then replaced (`turned`) takes stamps 4
polls old and three messages in flight, and was checked apart.

*Replayer.* Three records of four entries over two players, with segments of
two time units: changes at the edges of segments, several at one time, and a
gap of more than a segment. One viewer, who may leave and come back. Nothing
else is bounded: commands may be typed without end.

*Recorder.* Four entries, two connections, polls of up to two messages. A lost
notification takes one entry, a batch that is cut short two, and a reconnection
needs a second connection with entries on both. The program ends.

*Announcements.* Three connections, of which two log in, in either order: a player
with the mod, one at a headless client who is an operator, and a spectator with
the mod; cheats are forced on the two with the mod. `Budgets` bounds what they do
of their own accord, beside connecting: two acts of one kind (cheat modes,
places), or one and a departure, a bulletin set, cleared and set again, or one act
beside a spectator; two acts are what it takes for two
messages to cross, a departure what it takes for one to be late, three bulletins
what it takes for an update of nothing. What clients
do in answer, and the two reporting threads, are not bounded. That an
announcement ends the game of a client whose copy is empty (`crashed`) takes two
players with the mod and a departure, which no budget gives together; the run
checks the rest of `RosterKnown`. Nothing is left to do at the end.

*Client session.* Three commands of the player, one login that the server accepts,
two addresses; refusals, failures of the resolver and lost connections without
end. One command connects, one gives up or changes the server, and one connects
again while something of the first is left.

*Objects.* One other player and the player's own ball; two levels, or two commands
or keys, or two logins, or a change of cheat mode, each with one of the others. A
second login is what meets objects left by the first; players do not meet each
other in this code but for the loop over them.

### Fairness

`ServerSession`: weak fairness of the server thread (its loop waits for nothing
but the clock) and of the steps of a stop; strong fairness of taking a message of
each connection, since the library hands messages over in the order they came
and a round ends while others wait. `BallRelay`: weak fairness of polling, of the
tasks of each thread of the pool, of the tick and of reliable messages; strong fairness of a fresh
state arriving and being shown, which says no more of an unreliable channel than
that it does not lose everything for ever. `Replayer`: weak fairness of the
player and console threads; nobody has to type, to log in or to leave.
`Recorder`: weak fairness of the three threads; nothing has to arrive or to be
typed. `Announcements`: weak fairness of "one of them goes on":
the reporting threads, frames, the handlers (reliable streams deliver) and the
server's callback for a lost connection (its timeout is two hours, but finite) do
not all stop while one of them can go on, which is less than that each of them
runs. `ClientSession`: weak fairness
of each thread's steps while the program runs, and of the resolver, which answers
or fails. `PlayerObjects`: weak fairness of each thread that has begun something;
strong fairness of frames and of their steps for a player, since the lock they
try without waiting is free again and again; and of latencies, which the server
sends every so many ticks to whoever is in, not always at the same moment of a
frame.
`MatchBoard` has no liveness property.

### Mutants

`PROJECT.json` lists a plausible bug for every property of a passing run (a
name not erased, a flag not reset, an index off by one); TLC finds each property
violated by its mutant. The mutated definitions are in the modules, next to the
ones they replace.

## 4 The proofs

Every theorem holds for every number of clients, players, maps, messages and
entries, under the ASSUMEs of its module, which TLC evaluates on the instances.

**`ServerSession_proofs`**: `TypeCorrect`; `NothingOrphaned` (`NoOrphan`). `NoOrphan`
is not inductive: a login handled after the cleanup of its connection would
register a client nobody cleans up after. The strengthening is `Handled`:
`Alternation` (the messages of a batch are all handled before the next callbacks
are taken, and these before the next batch), `NothingAfterFarewell` (a connection
with messages left to handle is alive or has its callback still to come) and
`LoginOnce` (a connection is registered by its only login).

The registries: `NamesLeadToTheirClients` (`UsernameSound`),
`RostersAgree`, and with no forced names `EveryoneFindable` and
`NoDuplicateNames`. The assumption is needed: with a forced name TLC
finds a counterexample. `ViewersAreOnline` (`ViewersOnline`) and `TicksWhileTwo`
(`TicksForTwo`) follow from one lemma, `RelayStep`: besides an arrival and a
departure only the last steps of op and deop change who sees, of which the first
adds a client that is registered or names it in `overtaken`, and only a stop stops
the ticking.

**`MatchBoard_proofs`**: `TypeCorrect`, `PlacesCountedOut` (`RanksArePlaces`),
`OnlyRegistered`, `FlaggedAreListed` (`ForfeitersListed`) and `ClientsMirrorServer`
(`MirrorsServer`). The last is about what a client *will* show once everything under
way to it is applied, which is preserved by sending (append) and by handling (tail):
the finishes and the counts of forfeits are a `FoldLeft` over the queue. Its lemmas
(`FoldAppend`, `FoldTail`) are proved by induction over the length of the queue,
without the induction theorems, which take an operator as a parameter: a set of
numbers that is not all of them leaves out a least one (`LeastNumber`, from the
well-foundedness of `<`; `Upwards`), so the recursive function behind the fold exists
(`FoldExists`) and its value is the end of a chain of single applications
(`FoldIsChain`), of which there is one (`ChainsAgree`).

**`BallRelay_proofs`**: `TypeCorrect`; `HiddenStaysHidden`
(`HideWins`), from `NoneAhead` (nothing shows the ball under a newer stamp than the
record) and `Covered` (while the ball is hidden and no comparison has gone the wrong
way, everything in flight and everything yet to be sent is older
than the hiding stamp or held back by it); `NeverStepsBack` (`NoStepBack`), from
`StepInv`: of two states under way that are not torn, the newer stamp
never carries the earlier position, on the way to the server (`InOrder`) and, over
both channels, to the viewer (`ShownInOrder`). That a state is torn is seen where it
is made, so the tasks of the pool may overlap in any number; and the average may
have any weights.

**`Replayer_proofs`**: `TypeCorrect`; `SeeksLand` (`SeekLands`), by
`SegmentLands`: the first entry that gets into a segment at or after that of the
destination crosses, and is indexed no lower than where it lies, so the least
crossing indexed high enough is at or before it. The strengthening says where the
threads can be together (`Control`) and what a seek knows at each of its steps
(`Landed`). `RostersAgreeReplay` (`RosterAgrees`).
Between parse and broadcast the viewers are one entry behind; the invariant says
that applying that entry to what each viewer shows, and to the copy a login
holds, gives `record_clients_` (`InAgree`, `CopyAgrees`, `EnteringAgrees`), and
that applying it twice changes nothing (`Fixed`). `PlaysTheRecord` (`PlaysRecord`):
an entry applied to the players online before it gives those online after it
(`OnlineStep`), and what the timeline has at a destination is what the entries
before the place of landing lead to (`RebuiltRight`, from `Landed`); the
strengthening says which entry the player thread holds.

**`Recorder_proofs`**: `TypeCorrect`; and if `SleepIsLong`, `FileInOrder` (`InOrder`),
`StopSaves` (`SavedByStop`) and `ImplementsLog` (`LogSpec`): every step of the
recorder is an arrival, a save or a stutter of `RecordLog`. The strengthening is
`DrainsAlone` (while `shutdown` drains, the network thread has ended and the
record thread waits or has ended), `OnePending` (an entry written and not popped
is still there) and `JoinsDrained` (once the draining is over, the queue stays
empty); the refinement follows from `InOrder`, which says that the entry saved
next is the next number.

**`Announcements_proofs`**: `TypeCorrect`, `RosterIsKnown`, `MapsAreNamed`,
`BulletinIsKnown`, `CheatsAreKnown`, `PlacesAreKnown` (the run's `RosterKnown`,
`MapsNamed`, `BulletinKnown`, `CheatsKnown`, `PlacesKnown`). A stream to a client is
read from its end: what the client will know of something once it has handled
all of it is what the last message about it says, or else what it knows already.
The strengthenings are inductive one on top of the other. `Sessions` says where a
connection stands: whether its login is still to be handled, answered, or over;
nothing comes back from the dead. `Rosters` says who is told of
online and of gone, and that no message mentions a player before the one that
introduces it. `Maps` says which maps have been named in a stream before
a message mentions them, and before a roster that holds them is read.
`Bulletins` is about the one notice that stays: what a
client will show is the last its stream says, or else the last that is scheduled
for its game's thread (`Ending`), or else what it shows. `Cheats` says of the cheat mode of
each player: what the server was told is the last the player's stream says, or is
on record and what all others will know, or a switch asked for is still on
its way to or from the player. `Whereabouts` says of the place: the last the
player's stream says or else on record, and each other client will know what is on record
unless a newer message of the same player is on its way; a player that has
not entered is nowhere; what its thread carries is its place unless that
has been overtaken.

**`ClientSession_proofs`**: `TypeCorrect`; `AcceptedHere` (`ConnectedIsAccepted`),
`LeadsWhereAsked` (`WhereAsked`) and `JoinsAreShort`: whoever waits for a
thread to end while it holds the mutex waits for one that is past its own waits,
the safety behind `GivesUp`. The
invariant is `TypeOK /\ (lost \/ Control)`, since nothing is promised after a lost race.
`Control` is `OneAttempt` (an attempt is at one stage: a run of the `io_context`, a
completion, or the handler that sets up its connection), `Owned` and
`Locked` (who may touch the connection), `ConnectedOnce` and `LoginsAccepted` (a
connection comes up once, and what accepts it was asked over it), `PingsOnce` and
`AllTo` (all that is under way is for the address last asked for).

**`PlayerObjects_proofs`**: `TypeCorrect`; `FramesFindBalls` (`BallsThere`) and
`DrawnAreInDb` (`ObjectsGoWithPlayers`). What a thread has left to do is a sequence of
steps, so the argument is about sequences: which steps are done under which lock
(`Locking`), what must follow a step in the same code (`Order`), and what an object or
an entry that is out of place still waits for in some thread's code
(`BallsLoaded`, `DrawsMade`, `ObjectsAccounted`, `OnlyRevived`,
`ConsoleDestroys`; `TogglesLoaded`, a key waits for the lock only once there is a ball
to copy). The invariant holds until the program crashes, which it does only
where the console has crossed a frame or a key has waited for cleanup.

*Model-checked only.* Liveness (`GoneAreRemoved`, `LoginsAnswered`, `StopHalts`,
`Settles`, `AllSettle`, `CommandsEnd`, `StopEnds`, `GivenBack`, `GivesUp`, `LabelsFollow`),
which is out of the prover's reach. Every invariant and every action property that a
run checks is the subject of a theorem. What a theorem needs of a fold of
the community modules is shown from its definition.

## 5 What the models say about the code

Two runs end in a counterexample, and are rows of `findings`:

- *Forfeits* (`match_forfeit`). The echo of a forfeit marks the map the client is
  on by then.
- *Seeking* (`replayer_seek`). The first entry at or after the destination is
  skipped, and with it a player who joins there.

Others are exceptions that the properties name; without the exception TLC finds a
counterexample:

- *Forced names.* The name in use is checked (`server.cpp` 632) before the forced
  name replaces it (815), so a forced name can be registered twice. `UniqueNames`
  is proved for configurations without forced names.
- *Operators.* `set_op` may add a client to the ghost viewers that has left since
  it was looked up (`server.cpp` 392), which then stays there.
- *Hiding.* The one reliable message that hides the balls in ghost mode is dropped
  by a client whose game thread has the lock (`BallanceMMOClient.cpp` 1637), and the
  moving average of delays may put a state sent before it after it
  (`game_state.h` 140).
- *Going back.* A state copied before a poll and stamped after it takes the server's
  record back when two tasks overlap (`local_state_handler_base.h` 41); the
  moving average lets the viewer take an older state for a newer one.
- *Bulletin.* One that is cleared and set again between two frames of a mod
  dereferences a null pointer there (`BallanceMMOClient.cpp` 2264).
- *Spectators.* Cheats forced on a spectator are announced to the others, and not
  obeyed.
- *Recorder.* A stop can end in `FatalError` with entries in the queue.
- *Cheat modes.* A mode switched between request and acceptance is not told to the
  server, and a forced mode that changes nothing the server knows of gets no reply.
- *Client session.* The three races and the stale completion of `mishaps`.
- *Objects.* A `reload` typed in the console window destroys balls a frame is
  drawing; the key of the own ball, pressed while cleanup runs, uses a handler that
  is reset (`BallanceMMOClient.h` 841) or leaves an own entry; an entry made again after cleanup is a player who is not there.
  Loading a level straight from another, and reloads that overlap, create the
  balls of a player twice and forget the first.

The hazards of the code that no property covers have a note in `PROJECT.json`.

## 6 What is left out

*Sessions*: mute and the messages it drops, YAML and the login log, a connection
that cannot join the poll group (`server.cpp` 736), and kicks by the beginning of
a name (118-134). *Matches*: ready flags
and counts, the level timer and its calibration, the text and order of a printed
ranking; handlers called by the console beside the server thread are taken as
atomic. *Ball states*: the difference of two clocks (a constant in every stamp a
viewer compares), extrapolation,
`assemble_and_send_state_forced`, reliable states sent when
a ball changes or a map is loaded, a copy torn within one
position (a poll's writes are one step). *Replayer*:
loading another record (whose index is appended to the last one's), seek-legacy,
kicks, remote commands, negative destinations, cheat and map states,
notifications; testing the stream for its end outside the mutex is taken as
atomic. *Recorder*: SIGINT, authentication, the commands that only print, received
sounds, the header of the file. *Announcements*: notifications the console sends,
sounds, pop-ups, remote commands, the list of mods (which the server only logs),
default map names, a connection number that is used again, the own number, random
after a cleanup (`BallanceMMOClient.h` 870), by which the echo of one's own
announcement in what is left of a batch ends the game too, and calls scheduled
before a cleanup that run on the next connection. *Client session*: what
follows a lost race, listeners, the list of servers. *Objects*: cleanup
called by the network's and the game's thread, spectating,
physics, extrapolation, opacity, two other players under liveness.

Data races on containers that the console uses beside the server thread
(`server.cpp` 93, 164), sorting forfeits by an order that is none
(`ranking_entry.hpp` 41) are undefined behaviour below what the modules tell apart.
The waiting of `wait_till_started` for a notification it has missed is in
`Recorder`, and nothing is claimed of it.

The type invariants of `Recorder`, `BallRelay`, `Replayer`, `Announcements`,
`ClientSession` and `PlayerObjects` are proved and not listed in a run (those of the
last three are stated in their proof modules).
Not modelled at all: the user interface, file formats of the configuration,
message layouts, launchers.

## 7 The plan

1. *Done*: nine modules, and theorems for every invariant and action property
   of eight of them; `RecordLog` is the abstraction of one of these.
2. `Presence`, an abstract specification of who is online and who is told, with
   `ServerSession` shown to implement it.
3. `Algorithms`: name validation, the orders of the rankings, the packing of
   stamps and rotations, each against a reference definition.

Runs of 2 and 3 take the place of runs whose properties a theorem covers.
