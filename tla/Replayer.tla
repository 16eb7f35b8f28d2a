------------------------------ MODULE Replayer ------------------------------
(***************************************************************************)
(* The record replayer: a server that plays a recorded session to its      *)
(* viewers.  Three threads share it.  The player thread reads an entry,    *)
(* sleeps until it is due, then parses and broadcasts it.  The console     *)
(* thread plays, pauses, seeks and stops.  The server thread lets viewers  *)
(* in and out.  Only the stream and the clock are under a mutex            *)
(* (record_data_mutex_); record_clients_, the players online at the        *)
(* present point of the record, is not.                                    *)
(*                                                                         *)
(* The record is its entries with their times; the ones that change        *)
(* record_clients_ are told apart from all others.  What seek calls the    *)
(* segments and the timeline are functions of the record.  How long the    *)
(* player sleeps is left out.  A broadcast reaches the viewers in the      *)
(* order of the sends: their connections are reliable and ordered.         *)
(***************************************************************************)
EXTENDS Integers, Sequences, FiniteSetsExt

CONSTANTS
  Player,         \* the players in the records, by name
  Records,        \* the records: sequences of entries
  SegmentLength,  \* the span of a segment of the seek index
  Viewer,         \* the clients that may connect
  NoViewer,
  Commands        \* the console commands that may be typed

Code == {"LoginAcceptedV3", "PlayerConnectedV2", "PlayerDisconnected", "Other"}
(* players: who is online, who connects, or who disconnects. *)
Entry == [time : Nat, code : Code, players : SUBSET Player]

Joins(r, i, p) ==
  r[i].code \in {"LoginAcceptedV3", "PlayerConnectedV2"} /\ p \in r[i].players
Leaves(r, i, p) ==
  \/ r[i].code = "PlayerDisconnected" /\ p \in r[i].players
  \/ r[i].code = "LoginAcceptedV3" /\ p \notin r[i].players
(* Who is online after the first n entries of r. *)
Online(r, n) ==
  {p \in Player : \E i \in 1..n : /\ Joins(r, i, p)
                                  /\ \A j \in i+1..n : ~Leaves(r, j, p)}

(* A record is one session of the client that made it: the login comes     *)
(* first and only once, and a player connects when offline and disconnects *)
(* when online.                                                            *)
WellFormed(r) ==
  /\ Len(r) > 0
  /\ \A i \in 1..Len(r) :
       /\ (r[i].code = "LoginAcceptedV3") <=> (i = 1)
       /\ r[i].code = "PlayerConnectedV2" => r[i].players \cap Online(r, i-1) = {}
       /\ r[i].code = "PlayerDisconnected" => r[i].players \subseteq Online(r, i-1)
       /\ \A j \in i+1..Len(r) : r[i].time <= r[j].time

ASSUME ReplayerAssumption ==
  /\ Records \subseteq Seq(Entry)
  /\ \A r \in Records : WellFormed(r)
  /\ SegmentLength \in Nat \ {0}
  /\ NoViewer \notin Viewer
  /\ Commands \subseteq {"play", "pause", "seek", "stop"}

PlayerStep == {"off", "check", "read", "sleep", "parse", "broadcast", "leave"}
ConsoleStep == {"idle", "join", "settle", "place", "forward", "rebuild", "tell",
                "stopping", "stopped"}
LoginStep == {"idle", "entered", "copied"}

VARIABLES
  record,          \* the record loaded
  next,            \* record_stream_: the number of the entry read next
  now,             \* current_record_time_
  record_clients,  \* record_clients_, the players in it
  playing, running, seeking,
  locked,          \* the player thread sleeps, and holds record_data_mutex_
  player,          \* the player thread: where it is, and the entry it has read
  console,         \* the console thread: where it is, the dest_time of a seek,
                   \* and where the seek ends: it plays on if it was_playing
  login,           \* the server thread in a login: where it is, whose, and the copy made
  clients,         \* clients_
  shown,           \* what each viewer shows, made from the messages sent to it
  welcomed,        \* the viewers' logged_in_
  astray,          \* history: viewers sent something out of order
  rebuilt,         \* history: seek rebuilt record_clients since the player thread's last step
  disturbed        \* history: record_clients may miss a change that was never played

stream == <<record, next, now>>
switches == <<playing, running, seeking>>
viewers == <<login, clients, shown, welcomed, astray>>
history == <<rebuilt, disturbed>>
vars == <<stream, record_clients, switches, locked, player, console, viewers, history>>

Last == Len(record)
Time(i) == record[i].time
duration == Time(Last)
held == record[player.entry]

Init ==
  /\ record \in Records
  /\ next = 1 /\ now = 0
  /\ record_clients = Online(record, Last)
  /\ playing = FALSE /\ running = TRUE /\ seeking = FALSE
  /\ locked = FALSE
  /\ player = [step |-> "off", entry |-> 0]
  /\ console = [step |-> "idle", dest |-> 0, after |-> "idle"]
  /\ login = [step |-> "idle", who |-> NoViewer, roster |-> {}]
  /\ clients = {} /\ welcomed = {} /\ astray = {}
  /\ shown = [v \in Viewer |-> {}]
  /\ rebuilt = FALSE /\ disturbed = TRUE

-----------------------------------------------------------------------------
(* The players of S after entry e, and whether they can differ. *)
Applied(S, e) ==
  CASE e.code = "LoginAcceptedV3" -> e.players
    [] e.code = "PlayerConnectedV2" -> S \cup e.players
    [] e.code = "PlayerDisconnected" -> S \ e.players
    [] OTHER -> S
Changes(e) == e.code # "Other"

(* What a viewer shows after a message.  The first LoginAccepted it gets   *)
(* adds to what it shows, any later one replaces it.                       *)
Welcomes(e) == e.code = "LoginAcceptedV3"
Accepted(v, roster) == IF v \in welcomed THEN roster ELSE shown[v] \cup roster
Heard(v, e) == IF Welcomes(e) THEN Accepted(v, e.players) ELSE Applied(shown[v], e)

-----------------------------------------------------------------------------
(* The player thread. *)
Check ==
  /\ player.step = "check"
  /\ player' = [step |-> IF running /\ playing /\ next <= Last THEN "read" ELSE "leave",
                entry |-> 0]
  /\ UNCHANGED <<stream, record_clients, switches, locked, console, viewers, history>>

(* Read under the mutex.  If the player was paused or stopped since the    *)
(* check, the entry is dropped; otherwise the thread keeps the mutex and   *)
(* sleeps until the entry is due.                                          *)
Read ==
  /\ player.step = "read" /\ ~locked
  /\ now' = Time(next)
  /\ next' = next + 1
  /\ \/ /\ running /\ playing
        /\ player' = [step |-> "sleep", entry |-> next]
        /\ locked' = TRUE
        /\ UNCHANGED disturbed
     \/ /\ ~(running /\ playing)
        /\ player' = [step |-> "leave", entry |-> 0]
        /\ disturbed' = (disturbed \/ Changes(record[next]))
        /\ UNCHANGED locked
  /\ UNCHANGED <<record, record_clients, switches, console, viewers, rebuilt>>

Wake ==
  /\ player.step = "sleep"
  /\ player' = [step |-> "parse", entry |-> player.entry]
  /\ locked' = FALSE
  /\ UNCHANGED <<stream, record_clients, switches, console, viewers, history>>

(* An entry parsed into a roster rebuilt since it was read is out of place. *)
Parse ==
  /\ player.step = "parse"
  /\ record_clients' = Applied(record_clients, held)
  /\ player' = [step |-> "broadcast", entry |-> player.entry]
  /\ disturbed' = IF rebuilt THEN disturbed \/ Changes(held)
                  ELSE disturbed /\ ~Welcomes(held)
  /\ rebuilt' = FALSE
  /\ UNCHANGED <<stream, switches, locked, console, viewers>>

(* broadcast_message sends to everybody in clients_; the mutant forgets it. *)
Nobody == {}
Audience == clients

(* A login whose copy of the roster was made before this is overtaken. *)
Overtaken == IF login.step = "copied" THEN {login.who} ELSE {}

Broadcast ==
  /\ player.step = "broadcast"
  /\ shown' = [v \in Viewer |-> IF v \in Audience THEN Heard(v, held) ELSE shown[v]]
  /\ welcomed' = IF Welcomes(held) THEN welcomed \cup Audience ELSE welcomed
  /\ astray' = IF ~Changes(held) THEN astray
               ELSE IF rebuilt THEN clients ELSE astray \cup Overtaken
  /\ rebuilt' = FALSE
  /\ player' = [step |-> "check", entry |-> 0]
  /\ UNCHANGED <<stream, record_clients, switches, locked, console, login, clients, disturbed>>

(* The thread ends; at the end of the record it also ends the playing. *)
Leave ==
  /\ player.step = "leave"
  /\ player' = [step |-> "off", entry |-> 0]
  /\ playing' = (playing /\ next <= Last)
  /\ UNCHANGED <<stream, record_clients, running, seeking, locked, console, viewers, history>>

PlayerThread == Check \/ Read \/ Wake \/ Parse \/ Broadcast \/ Leave

-----------------------------------------------------------------------------
(* The console thread.  A command runs to its end before the next is read. *)
At(step) == console' = [step |-> step, dest |-> console.dest, after |-> console.after]
Typed(command) == command \in Commands /\ console.step = "idle" /\ running

Play ==
  /\ Typed("play") /\ ~playing
  /\ At("join")
  /\ UNCHANGED <<stream, record_clients, switches, locked, player, viewers, history>>

(* The end of play, and of a seek that was playing: wait for the old       *)
(* player thread to end, and start a new one.                              *)
Start ==
  /\ console.step = "join"
  /\ player.step = "off"
  /\ playing' = TRUE
  /\ player' = [step |-> "check", entry |-> 0]
  /\ console' = [step |-> "idle", dest |-> 0, after |-> "idle"]
  /\ UNCHANGED <<stream, record_clients, running, seeking, locked, viewers, history>>

Pause ==
  /\ Typed("pause") /\ playing
  /\ playing' = FALSE
  /\ UNCHANGED <<stream, record_clients, running, seeking, locked, player, console, viewers, history>>

Seek(dest_time) ==
  /\ Typed("seek")
  /\ playing' = FALSE
  /\ console' = [step |-> "settle", dest |-> dest_time, after |-> IF playing THEN "join" ELSE "idle"]
  /\ UNCHANGED <<stream, record_clients, running, seeking, locked, player, viewers, history>>

(* A player thread that has seen playing_ gets the mutex before the seek   *)
(* goes on: a seek that had to pause sleeps 100 ms for it, and one typed   *)
(* after a pause is assumed to be no faster.  A destination beyond the end *)
(* is refused.                                                             *)
Settle ==
  /\ console.step = "settle"
  /\ player.step # "read"
  /\ \/ /\ console.dest <= duration
        /\ seeking' = TRUE
        /\ At("place")
     \/ /\ console.dest > duration
        /\ At(console.after)
        /\ UNCHANGED seeking
  /\ UNCHANGED <<stream, record_clients, playing, running, locked, player, viewers, history>>

(* get_segment_index and the segments build_index makes.  An entry in a    *)
(* later segment than the one before it crosses, and appends itself once   *)
(* more than the segments it crosses into: segments[k] lags behind the     *)
(* k-th segment, ever more.                                                *)
SegmentOf(time) == time \div SegmentLength
Before(i) == IF i = 1 THEN 0 ELSE SegmentOf(Time(i-1))
Crossings == {i \in 1..Last : SegmentOf(Time(i)) > Before(i)}
Indexed(i) == SegmentOf(Time(i)) + Cardinality({j \in Crossings : j <= i})
(* The mutant takes the segment after. *)
SegmentAfter(k) ==
  LET i == Min({j \in Crossings : Indexed(j) > k})
  IN  [position |-> i, time |-> Time(i)]
Segment(k) ==
  IF k = 0 THEN [position |-> 1, time |-> 0]
  ELSE LET i == Min({j \in Crossings : Indexed(j) >= k})
       IN  [position |-> i, time |-> Time(i)]

Reposition ==
  /\ console.step = "place"
  /\ ~locked
  /\ LET segment == Segment(SegmentOf(console.dest))
     IN  next' = segment.position /\ now' = segment.time
  /\ At("forward")
  /\ UNCHANGED <<record, record_clients, switches, locked, player, viewers, history>>

(* forward_seek reads while the last entry read is before dest_time: the   *)
(* first entry that is not is read too, and never played.                  *)
Reached(dest_time) == {i \in next..Last : Time(i) >= dest_time}
ForwardSeek ==
  /\ console.step = "forward"
  /\ ~locked
  /\ \/ /\ now < console.dest
        /\ next' = Min(Reached(console.dest)) + 1
        /\ now' = Time(next' - 1)
     \/ /\ now >= console.dest
        /\ UNCHANGED <<next, now>>
  /\ At("rebuild")
  /\ UNCHANGED <<record, record_clients, switches, locked, player, viewers, history>>

(* The timeline: a period runs from a join to the leave that follows, both *)
(* included.  The first period of a player that has not ended before       *)
(* dest_time is taken, if it has begun.                                    *)
(* The mutant does not look at the end. *)
EverOnlineAt(dest_time) ==
  {p \in Player : \E i \in 1..Last : Joins(record, i, p) /\ Time(i) <= dest_time}
OnlineAt(dest_time) ==
  {p \in Player : \E i \in 1..Last :
     /\ Joins(record, i, p) /\ Time(i) <= dest_time
     /\ \A j \in i+1..Last : Leaves(record, j, p) => Time(j) >= dest_time}
(* An entry that changes the roster was skipped, or lies exactly at        *)
(* dest_time.                                                              *)
Unclear(dest_time) ==
  \E i \in 1..Last : /\ Changes(record[i]) /\ Time(i) >= dest_time
                     /\ i < next \/ Time(i) = dest_time

Rebuild ==
  /\ console.step = "rebuild"
  /\ record_clients' = OnlineAt(console.dest)
  /\ disturbed' = Unclear(console.dest)
  /\ rebuilt' = (player.step \in {"parse", "broadcast"})
  /\ At("tell")
  /\ UNCHANGED <<stream, switches, locked, player, viewers>>

(* The new roster goes to every viewer as a LoginAccepted, and logins are  *)
(* let in again (in the mutant they are not).                              *)
SeekingKept == seeking
SeekingAfter == FALSE
Tell ==
  /\ console.step = "tell"
  /\ shown' = [v \in Viewer |-> IF v \in Audience THEN Accepted(v, record_clients) ELSE shown[v]]
  /\ welcomed' = welcomed \cup Audience
  /\ astray' = Overtaken
  /\ seeking' = SeekingAfter
  /\ At(console.after)
  /\ UNCHANGED <<stream, record_clients, playing, running, locked, player, login, clients, history>>

(* shutdown: tell the threads to end, and wait for the player. *)
Stop ==
  /\ Typed("stop")
  /\ running' = FALSE
  /\ At("stopping")
  /\ UNCHANGED <<stream, record_clients, playing, seeking, locked, player, viewers, history>>
Stopped ==
  /\ console.step = "stopping"
  /\ player.step = "off"
  /\ At("stopped")
  /\ UNCHANGED <<stream, record_clients, switches, locked, player, viewers, history>>

ConsoleThread ==
  Start \/ Settle \/ Reposition \/ ForwardSeek \/ Rebuild \/ Tell \/ Stopped
Destinations == 0..duration+1
Type == Play \/ Pause \/ (\E dest_time \in Destinations : Seek(dest_time)) \/ Stop

-----------------------------------------------------------------------------
(* The server thread.  A login that comes while seeking is refused. *)
LoginRequest(v) ==
  /\ login.step = "idle" /\ running
  /\ v \notin clients
  /\ ~seeking
  /\ clients' = clients \cup {v}
  /\ login' = [step |-> "entered", who |-> v, roster |-> {}]
  /\ UNCHANGED <<stream, record_clients, switches, locked, player, console, shown, welcomed, astray, history>>

CopyRoster ==
  /\ login.step = "entered"
  /\ login' = [step |-> "copied", who |-> login.who, roster |-> record_clients]
  /\ UNCHANGED <<stream, record_clients, switches, locked, player, console, clients, shown, welcomed, astray, history>>

Welcome ==
  /\ login.step = "copied"
  /\ shown' = [shown EXCEPT ![login.who] = Accepted(login.who, login.roster)]
  /\ welcomed' = welcomed \cup {login.who}
  /\ login' = [step |-> "idle", who |-> NoViewer, roster |-> {}]
  /\ UNCHANGED <<stream, record_clients, switches, locked, player, console, clients, astray, history>>

(* A connection ended; whoever connects again starts afresh. *)
Welcomed(v) == welcomed \ {v}
Cleanup(v) ==
  /\ login.step = "idle" /\ running
  /\ v \in clients
  /\ clients' = clients \ {v}
  /\ shown' = [shown EXCEPT ![v] = {}]
  /\ welcomed' = Welcomed(v)
  /\ astray' = astray \ {v}
  /\ UNCHANGED <<stream, record_clients, switches, locked, player, console, login, history>>

ServerThread ==
  \/ \E v \in Viewer : LoginRequest(v) \/ Cleanup(v)
  \/ CopyRoster
  \/ Welcome

Next == PlayerThread \/ ConsoleThread \/ Type \/ ServerThread

(* The threads run; nobody has to type a command, or to connect. *)
Spec == Init /\ [][Next]_vars /\ WF_vars(PlayerThread) /\ WF_vars(ConsoleThread)

-----------------------------------------------------------------------------
TypeOK ==
  /\ record \in Records
  /\ next \in 1..Last+1 /\ now \in Nat
  /\ record_clients \subseteq Player
  /\ {playing, running, seeking, locked, rebuilt, disturbed} \subseteq BOOLEAN
  /\ player \in [step : PlayerStep, entry : 0..Last]
  /\ console \in [step : ConsoleStep, dest : Nat, after : {"idle", "join"}]
  /\ login \in [step : LoginStep, who : Viewer \cup {NoViewer}, roster : SUBSET Player]
  /\ clients \subseteq Viewer /\ welcomed \subseteq clients /\ astray \subseteq clients
  /\ shown \in [Viewer -> SUBSET Player]

(* Whatever is played, paused or sought, a viewer who is in shows exactly  *)
(* the players of record_clients_, unless an entry or a new roster was     *)
(* sent between the copy its login made and the sending of that copy, or a *)
(* seek told a roster around an entry half played.                         *)
RosterAgrees ==
  (player.step # "broadcast" /\ console.step # "tell")
  => \A v \in clients \ astray : v # login.who => shown[v] = record_clients

(* Where the entries played so far lead is where record_clients_ is: the   *)
(* rebuilt roster of a seek fits the entry playing resumes at, playing on  *)
(* from there keeps it right, and pausing loses nothing that matters.      *)
Played == IF player.step \in {"sleep", "parse"} /\ ~rebuilt THEN next - 2 ELSE next - 1
PlaysRecord ==
  (~disturbed /\ console.step \notin {"forward", "rebuild"})
  => record_clients = Online(record, Played)

(* A seek passes every entry before its destination, through a seek index  *)
(* that lags, and at most one that is not.                                 *)
SeekLands ==
  [][console.step = "forward" /\ console'.step = "rebuild"
     => \A i \in 1..Last :
          /\ Time(i) < console.dest => i < next'
          /\ i < next' - 1 => Time(i) < console.dest]_vars

(* A command ends: neither a player thread that sleeps over the mutex nor  *)
(* the end of the record holds the console up, and logins are let in again.*)
CommandsEnd ==
  (console.step \notin {"idle", "stopped"})
  ~> (console.step \in {"idle", "stopped"} /\ ~seeking)

(* After a seek everybody who is online where playing resumes is in the    *)
(* rebuilt roster: seek is to "figure out states at that timepoint and     *)
(* rebuild it".                                                            *)
SeekRebuilds ==
  console.step = "tell" => Online(record, next - 1) \subseteq record_clients
=============================================================================
