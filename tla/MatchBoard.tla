----------------------------- MODULE MatchBoard -----------------------------
(***************************************************************************)
(* A match: countdowns, finishes and forfeits.  The server keeps a board   *)
(* per map (maps_) and broadcasts what it records; every client keeps a    *)
(* copy of the boards (its own maps_, shown by "scores local") made from   *)
(* the broadcasts alone.  Nothing carries a round number, so a round is    *)
(* whatever lies between two "Go!" on an ordered reliable connection.      *)
(*                                                                         *)
(* The order of the entries of a board is left out: printing a board sorts *)
(* it in place.  Spectators neither finish nor forfeit.  A console command *)
(* is one step, as if it never overlapped a handler of the server thread;  *)
(* the code does not lock, and nothing is claimed of an overlap.           *)
(***************************************************************************)
EXTENDS Integers, Sequences, SequencesExt

CONSTANTS
  Player,              \* the players, by name
  Map,                 \* the maps, by md5
  Operators,           \* players that is_op holds for while op_mode is on
  force_restart_level, \* config_.force_restart_level
  serious_warning_as_dnf, \* config_.serious_warning_as_dnf
  Commands,            \* the console commands the operator may type
  MaxPlayed,           \* bound on what the players do, map changes apart
  MaxJoins,            \* bound on the sessions
  MaxLoads,            \* bound on the maps the players load
  MaxTyped             \* bound on the console commands

ASSUME BoardAssumption ==
  /\ Operators \subseteq Player
  /\ force_restart_level \in BOOLEAN
  /\ serious_warning_as_dnf \in BOOLEAN
  /\ Commands \subseteq {"countdown", "countdown-forced", "dnf"}
  /\ {MaxJoins, MaxPlayed, MaxLoads, MaxTyped} \subseteq Nat

Finish == [player : Player, rank : Nat]
(* map_data: started stands for start_time # 0. *)
Board == [rank : Nat, started : BOOLEAN,
          finished : SUBSET Finish, forfeits : [Player -> Nat]]
Rankings == [finished : SUBSET Finish, forfeits : [Player -> Nat]]

UpMessage == [code : {"Go"}, map : Map, force : BOOLEAN]
             \cup [code : {"DidNotFinish", "LevelFinish", "CurrentMap"}, map : Map]
             \cup [code : {"SeriousWarning"}]
DownMessage == [code : {"Go"}, map : Map, force : BOOLEAN]
               \cup [code : {"DidNotFinish"}, map : Map, player : Player]
               \cup [code : {"LevelFinish"}, map : Map, entry : Finish]

NoForfeits == [p \in Player |-> 0]
NoRankings == [finished |-> {}, forfeits |-> NoForfeits]
Absent == [rank |-> 0, started |-> FALSE, finished |-> {}, forfeits |-> NoForfeits]
(* A board as a "Go!" leaves it.  (Mistake: places counted from zero.) *)
NewBoardFromZero(timed) == [Absent EXCEPT !.rank = -1, !.started = timed]
NewBoard(timed) == [Absent EXCEPT !.started = timed]

VARIABLES
  \* the server
  clients,       \* the players online
  board,         \* maps_
  dnf,           \* the players whose client_data::dnf is set
  current_map,   \* client_data::current_map
  \* the connections
  outbox,        \* what a player has sent and the server not handled
  inbox,         \* what the server has sent and a player not handled
  \* the clients
  here,                 \* current_map_
  did_not_finish_,      \* has forfeited
  finishing,            \* a finish message waits in the thread pool
  shown,                \* maps_[...].rankings
  \* history
  synced,        \* the maps whose last Go was sent to a player
  left           \* what is left of the bounds

serverVars == <<clients, board, dnf, current_map>>
clientVars == <<here, did_not_finish_, finishing, shown>>
vars == <<serverVars, outbox, inbox, clientVars, synced, left>>

Init ==
  /\ clients = {}
  /\ board = [m \in Map |-> Absent]
  /\ dnf = {}
  /\ \E m \in Map : current_map = [p \in Player |-> m]
  /\ outbox = [p \in Player |-> <<>>]
  /\ inbox = [p \in Player |-> <<>>]
  /\ here = current_map
  /\ did_not_finish_ = [p \in Player |-> FALSE]
  /\ finishing = {}
  /\ shown = [p \in Player |-> [m \in Map |-> NoRankings]]
  /\ synced = [p \in Player |-> {}]
  /\ left = [joins |-> MaxJoins, played |-> MaxPlayed, loads |-> MaxLoads, typed |-> MaxTyped]

Spend(what) ==
  /\ left[what] > 0
  /\ left' = [left EXCEPT ![what] = @ - 1]

-----------------------------------------------------------------------------
(* Sessions.  A client announces its map as soon as it is logged in; a     *)
(* session begins here once the server has handled that announcement.      *)

Join(p) ==
  /\ p \notin clients
  /\ Spend("joins")
  /\ clients' = clients \cup {p}
  /\ current_map' = [current_map EXCEPT ![p] = here[p]]
  /\ UNCHANGED <<board, dnf, outbox, inbox, clientVars, synced>>

(* cleanup_disconnected_client: the last one out clears the boards. *)
Leave(p) ==
  /\ p \in clients
  /\ clients' = clients \ {p}
  /\ dnf' = dnf \ {p}
  /\ board' = IF clients' = {} THEN [m \in Map |-> Absent] ELSE board
  /\ outbox' = [outbox EXCEPT ![p] = <<>>]
  /\ inbox' = [inbox EXCEPT ![p] = <<>>]
  /\ synced' = [synced EXCEPT ![p] = {}]
  /\ UNCHANGED <<current_map, clientVars, left>>

-----------------------------------------------------------------------------
(* The client.  Messages go out in the order they are sent; without a      *)
(* connection they are lost, and the state of the client changes all the   *)
(* same.                                                                   *)

Send(p, m) ==
  outbox' = IF p \in clients THEN [outbox EXCEPT ![p] = Append(@, m)] ELSE outbox

(* OnLoadObject: another map, or the same again. *)
LoadMap(p) ==
  /\ Spend("loads")
  /\ \E m \in Map :
       /\ here' = [here EXCEPT ![p] = m]
       /\ Send(p, [code |-> "CurrentMap", map |-> m])
  /\ did_not_finish_' = [did_not_finish_ EXCEPT ![p] = FALSE]
  /\ UNCHANGED <<serverVars, inbox, finishing, shown, synced>>

(* OnLevelFinish on the game thread... *)
OnLevelFinish(p) ==
  /\ p \in clients /\ p \notin finishing
  /\ ~ did_not_finish_[p]
  /\ Spend("played")
  /\ finishing' = finishing \cup {p}
  /\ UNCHANGED <<serverVars, outbox, inbox,
                 here, did_not_finish_, shown, synced>>

(* ... and 100 ms later in the thread pool, for the map loaded by then. *)
SendFinish(p) ==
  /\ p \in finishing
  /\ finishing' = finishing \ {p}
  /\ Send(p, [code |-> "LevelFinish", map |-> here[p]])
  /\ UNCHANGED <<serverVars, inbox,
                 here, did_not_finish_, shown, synced, left>>

send_dnf_message(p) ==
  /\ ~ did_not_finish_[p]
  /\ Spend("played")
  /\ Send(p, [code |-> "DidNotFinish", map |-> here[p]])
  /\ did_not_finish_' = [did_not_finish_ EXCEPT ![p] = TRUE]
  /\ UNCHANGED <<serverVars, inbox,
                 here, finishing, shown, synced>>

(* The command "countdown", of which only "Go!" touches the boards.  The   *)
(* player sets and clears force_next_restart_ at will ("forcenextrestart"),*)
(* a "Go!" clears it: it is either.                                        *)
send_countdown_message(p) ==
  /\ p \in clients
  /\ Spend("played")
  /\ \E force \in BOOLEAN : Send(p, [code |-> "Go", map |-> here[p], force |-> force])
  /\ UNCHANGED <<serverVars, inbox, clientVars, synced>>

(* A warning raised by another mod of the player's game. *)
SendWarning(p) ==
  /\ p \in clients
  /\ Spend("played")
  /\ Send(p, [code |-> "SeriousWarning"])
  /\ UNCHANGED <<serverVars, inbox,
                 here, did_not_finish_, finishing, shown, synced>>

Cleared(boards, m, force, empty) ==
  IF force THEN [x \in Map |-> empty] ELSE [boards EXCEPT ![m] = empty]

Recorded(boards, m) ==
  IF m.code = "DidNotFinish" THEN [boards EXCEPT ![m.map].forfeits[m.player] = @ + 1]
  ELSE [boards EXCEPT ![m.map].finished = @ \cup {m.entry}]

(* What a client makes of a broadcast. *)
Applied(boards, m) ==
  IF m.code = "Go" THEN Cleared(boards, m.map, m.force, NoRankings) ELSE Recorded(boards, m)

(* A "Go!" takes a forfeit back for a client that is playing its map; the  *)
(* echo of a forfeit sets the flag, whatever map it was of.                *)
ForfeitAfter(p, m, ingame) ==
  CASE m.code = "Go" -> did_not_finish_[p] /\ ~ (ingame /\ (m.force \/ m.map = here[p]))
    [] m.code = "DidNotFinish" -> did_not_finish_[p] \/ m.player = p
    [] OTHER -> did_not_finish_[p]

OnBroadcast(p) ==
  /\ inbox[p] # <<>>
  /\ inbox' = [inbox EXCEPT ![p] = Tail(@)]
  /\ shown' = [shown EXCEPT ![p] = Applied(@, Head(inbox[p]))]
  /\ \E ingame \in BOOLEAN :
       did_not_finish_' =
         [did_not_finish_ EXCEPT ![p] = ForfeitAfter(p, Head(inbox[p]), ingame)]
  /\ UNCHANGED <<serverVars, outbox, here, finishing, synced, left>>

-----------------------------------------------------------------------------
(* The server.  on_message runs from start to end before the next message; *)
(* here "effect" is what it does once the message is taken.                *)

Take(p, code) ==
  /\ outbox[p] # <<>> /\ Head(outbox[p]).code = code
  /\ outbox' = [outbox EXCEPT ![p] = Tail(@)]
  /\ UNCHANGED <<clientVars, left>>

(* (Mistake: whoever finished is not told its own place.)                  *)
BroadcastToOthers(m) ==
  inbox' = [q \in Player |->
    IF q \in clients /\ (m.code = "LevelFinish" => q # m.entry.player)
    THEN Append(inbox[q], m) ELSE inbox[q]]
Broadcast(m) ==
  inbox' = [q \in Player |-> IF q \in clients THEN Append(inbox[q], m) ELSE inbox[q]]

deny_action(p) == p \notin Operators /\ Operators \cap clients # {}

(* "Go!" of p: a new round of one map, or of all.  timed is FALSE for what *)
(* the console made up, which carries no time of receipt.  (Mistake: only  *)
(* the flags of those who ran on that map are reset.)                      *)
FlagsKept(m) == {p \in dnf : current_map[p] # m}
FlagsAfterGo(m) == {}

Go(p, m, wanted, timed) ==
  IF deny_action(p) THEN UNCHANGED <<board, dnf, inbox, synced>>
  ELSE LET force == wanted \/ force_restart_level
       IN  /\ board' = Cleared(board, m, force, NewBoard(timed))
           /\ dnf' = FlagsAfterGo(m)
           /\ Broadcast([code |-> "Go", map |-> m, force |-> force])
           /\ synced' = [q \in Player |->
                           IF q \notin clients THEN synced[q]
                           ELSE IF force THEN Map ELSE synced[q] \cup {m}]

Forfeit(p, m) ==
  /\ dnf' = dnf \cup {p}
  /\ board' = [board EXCEPT ![m].forfeits[p] = @ + 1]
  /\ Broadcast([code |-> "DidNotFinish", map |-> m, player |-> p])

OnCountdown(p) ==
  /\ Take(p, "Go")
  /\ Go(p, Head(outbox[p]).map, Head(outbox[p]).force, TRUE)
  /\ UNCHANGED <<clients, current_map>>

OnDidNotFinish(p) ==
  /\ Take(p, "DidNotFinish")
  /\ Forfeit(p, Head(outbox[p]).map)
  /\ UNCHANGED <<clients, current_map, synced>>

(* Mistake: the place is told before it is counted up. *)
PlaceAgain(m) == board[m].rank
NextPlace(m) == board[m].rank + 1

OnLevelFinishV2(p) ==
  /\ Take(p, "LevelFinish")
  /\ LET m == Head(outbox[p]).map
         entry == [player |-> p, rank |-> NextPlace(m)]
     IN  /\ board' = [board EXCEPT ![m].rank = @ + 1, ![m].finished = @ \cup {entry}]
         /\ Broadcast([code |-> "LevelFinish", map |-> m, entry |-> entry])
  /\ UNCHANGED <<clients, dnf, current_map, synced>>

OnCurrentMap(p) ==
  /\ Take(p, "CurrentMap")
  /\ current_map' = [current_map EXCEPT ![p] = Head(outbox[p]).map]
  /\ UNCHANGED <<clients, board, dnf, inbox, synced>>

(* A serious warning may count as a forfeit, once a round, of a map whose  *)
(* "Go!" is at most 20 minutes old: the clock decides.                     *)
OnSeriousWarning(p) ==
  /\ Take(p, "SeriousWarning")
  /\ \/ UNCHANGED <<board, dnf, inbox>>
     \/ /\ serious_warning_as_dnf /\ p \notin dnf /\ board[current_map[p]].started
        /\ Forfeit(p, current_map[p])
  /\ UNCHANGED <<clients, current_map, synced>>

-----------------------------------------------------------------------------
(* The console thread.                                                     *)

Type(cmd) ==
  /\ cmd \in Commands
  /\ Spend("typed")
  /\ UNCHANGED <<clients, current_map, outbox, clientVars>>

(* "countdown" and "dnf" speak in the name of a client, with its rights.   *)
ConsoleCountdown(p) ==
  /\ Type("countdown") /\ p \in clients
  /\ \E m \in Map : Go(p, m, FALSE, FALSE)

ConsoleDnf(p) ==
  /\ Type("dnf") /\ p \in clients
  /\ Forfeit(p, current_map[p])
  /\ UNCHANGED synced

(* "countdown-forced" only broadcasts: the clients clear their boards and  *)
(* the server does not, so they differ until the next "Go!" of each map.   *)
ConsoleCountdownForced ==
  /\ Type("countdown-forced")
  /\ \E m \in Map : Broadcast([code |-> "Go", map |-> m, force |-> TRUE])
  /\ synced' = [p \in Player |-> {}]
  /\ UNCHANGED <<board, dnf>>

-----------------------------------------------------------------------------
Client(p) ==
  \/ LoadMap(p) \/ OnLevelFinish(p) \/ SendFinish(p) \/ send_dnf_message(p)
  \/ send_countdown_message(p) \/ SendWarning(p) \/ OnBroadcast(p)

OnMessage(p) ==
  \/ OnCountdown(p) \/ OnDidNotFinish(p) \/ OnLevelFinishV2(p)
  \/ OnCurrentMap(p) \/ OnSeriousWarning(p)

Console ==
  \/ \E p \in Player : ConsoleCountdown(p) \/ ConsoleDnf(p)
  \/ ConsoleCountdownForced

Next ==
  \/ \E p \in Player : Join(p) \/ Leave(p) \/ Client(p) \/ OnMessage(p)
  \/ Console

Spec == Init /\ [][Next]_vars

-----------------------------------------------------------------------------
(* Type invariant. *)
TypeOK ==
  /\ clients \subseteq Player
  /\ board \in [Map -> Board]
  /\ dnf \subseteq Player
  /\ current_map \in [Player -> Map]
  /\ outbox \in [Player -> Seq(UpMessage)]
  /\ inbox \in [Player -> Seq(DownMessage)]
  /\ here \in [Player -> Map]
  /\ did_not_finish_ \in [Player -> BOOLEAN]
  /\ finishing \subseteq Player
  /\ shown \in [Player -> [Map -> Rankings]]
  /\ synced \in [Player -> SUBSET Map]
  /\ left \in [joins : Nat, played : Nat, loads : Nat, typed : Nat]

(* The places on a board are 1, 2, ... up to its rank, each taken once,    *)
(* whatever rounds were started, forced and cleared in between.            *)
RanksArePlaces ==
  \A m \in Map :
    /\ \A e, f \in board[m].finished : e.rank = f.rank => e = f
    /\ {e.rank : e \in board[m].finished} = 1..board[m].rank

(* A player whose warnings no longer count as a forfeit (its flag is set)  *)
(* is listed as having forfeited: no "Go!", by whom and of what map ever,  *)
(* leaves the flag of a player whose entry it removes.                     *)
ForfeitersListed ==
  \A p \in dnf : \E m \in Map : board[m].forfeits[p] > 0

(* What a client shows of a map whose last "Go!" it was sent is, once the  *)
(* broadcasts under way to it are applied, what the server has on record.  *)
MirrorsServer ==
  \A p \in clients : \A m \in synced[p] :
    LET later == FoldLeft(Applied, shown[p], inbox[p])[m]
    IN  /\ later.finished = board[m].finished
        /\ later.forfeits = board[m].forfeits

(* "Not sending level completion messages as you have already forfeited    *)
(* it": what arrives makes a player forfeit only the map it is on.         *)
ForfeitIsOfThisMap ==
  [][\A p \in Player :
       (inbox'[p] # inbox[p] /\ did_not_finish_'[p] /\ ~ did_not_finish_[p])
         => Head(inbox[p]).map = here[p]]_vars

(* What the invariants rest on: only registered players are heard, flagged *)
(* and told.                                                               *)
Registered ==
  /\ dnf \subseteq clients
  /\ \A p \in Player \ clients : outbox[p] = <<>> /\ inbox[p] = <<>> /\ synced[p] = {}

=============================================================================
