--------------------------- MODULE Announcements ---------------------------
(***************************************************************************)
(* What the server tells everybody about everybody, and what the clients   *)
(* make of it: who is online, who cheats, who is where, what the maps are  *)
(* called, what the bulletin says.  The server keeps the truth in clients_ *)
(* and relays changes; each client keeps a copy: the mod in db_, the       *)
(* headless client in its own clients_.                                    *)
(*                                                                         *)
(* Reliable messages form one ordered stream per connection and direction. *)
(* Ball states are unreliable: one may arrive long after it was sent, and  *)
(* more than once.  The mod has two threads that report where the player   *)
(* is: the game's, when a level is loaded, and the network thread, when a  *)
(* login is accepted.  What it shows it changes in the game's thread.  A   *)
(* connection number is used once.                                         *)
(***************************************************************************)
EXTENDS Naturals, Sequences, FiniteSets

CONSTANTS
  Conn,        \* connections
  Mod,         \* those of players with the mod; the others are headless
  Spectator,   \* those of them in spectator mode
  Op,          \* operators; op_mode is on
  Map, NoMap,
  Sector,
  Text,        \* bulletins; "" clears
  forced_cheat, \* the mode forced on a player, as a set: empty if none
  Budgets      \* bounds on what players and the console do of their own accord:
               \* logins of players and of spectators, what is done about cheats,
               \* places and bulletins, words to others, and departures; and on
               \* how many files that are checked a player has modified

ActKind == {"players", "spectators", "cheats", "places", "texts", "words", "leaves", "modified"}

ASSUME AnnouncementsAssumption ==
  /\ Mod \subseteq Conn /\ Op \subseteq Conn /\ Spectator \subseteq Mod
  /\ NoMap \notin Map
  /\ 0 \in Sector
  /\ "" \in Text
  /\ \A c \in Conn : forced_cheat[c] \in {{}, {TRUE}, {FALSE}}
  /\ Budgets \subseteq [ActKind -> Nat]

VARIABLES
  record,      \* server: clients_, the players online as it knows them
  map_names_,  \* server: the maps whose name it knows
  bulletin,    \* server: permanent_notification_
  up, down,    \* the reliable streams to and from the server
  met,         \* whose ball states may be in flight to a connection
  status,      \* "out", "joining", "in" or "left"
  cheat,       \* whether cheats are on in the game
  place,       \* [map, sector]: current_map_, current_sector_
  known,       \* the client's map_names_
  shown,       \* the bulletin it shows, and the calls that will change it
  mirror,      \* the players it knows of: db_, or clients_
  game,        \* where the game thread of a mod is in OnLoadObject
  net,         \* where its network thread is in LoginAcceptedV3
  carried,     \* the message the network thread has put together
  crashed,     \* an exception ended the game
  acts,        \* what is left of the budget
  untold,      \* history: cheat modes the server was not told of
  overtaken,   \* history: a newer place was sent before an older one
  nameless     \* history: players who may be on a map before its name is sent

serverVars == <<record, map_names_, bulletin>>
streamVars == <<up, down, met>>
playerVars == <<status, cheat, place>>
copyVars == <<known, shown, mirror>>
threadVars == <<game, net, carried, crashed>>
history == <<untold, overtaken, nameless>>
vars == <<serverVars, streamVars, playerVars, copyVars, threadVars, acts, history>>

Nowhere == [map |-> NoMap, sector |-> 0]

(* A player, on record or in a copy.  In a copy one without a name was made by operator[]. *)
Player(cheated, p) == [named |-> TRUE, cheated |-> cheated, map |-> p.map, sector |-> p.sector]
Unnamed == [named |-> FALSE, cheated |-> FALSE, map |-> NoMap, sector |-> 0]

online == DOMAIN record

Init ==
  /\ record = <<>> /\ map_names_ = {} /\ bulletin = ""
  /\ up = [c \in Conn |-> <<>>] /\ down = [c \in Conn |-> <<>>]
  /\ met = [c \in Conn |-> {}]
  /\ status = [c \in Conn |-> "out"]
  /\ cheat = [c \in Conn |-> FALSE]
  /\ place = [c \in Conn |-> Nowhere]
  /\ known = [c \in Conn |-> {}]
  /\ shown = [c \in Conn |-> [text |-> "", calls |-> <<>>]]
  /\ mirror = [c \in Conn |-> <<>>]
  /\ game = [c \in Conn |-> "idle"] /\ net = [c \in Conn |-> "poll"]
  /\ carried = [c \in Conn |-> Nowhere]
  /\ crashed = {}
  /\ acts \in Budgets
  /\ untold = {} /\ overtaken = {} /\ nameless = {}

(* Entries of f, with those of g over them, or with one. *)
Over(f, g) == [k \in DOMAIN f \cup DOMAIN g |-> IF k \in DOMAIN g THEN g[k] ELSE f[k]]
With(f, k, v) == Over(f, [d \in {k} |-> v])
Without(f, k) == [d \in DOMAIN f \ {k} |-> f[d]]

-----------------------------------------------------------------------------
(* Messages.                                                               *)

LoginRequest(ch) == [kind |-> "LoginRequest", cheated |-> ch]
CheatState(ch) == [kind |-> "CheatState", cheated |-> ch]
CheatToggle(ch) == [kind |-> "CheatToggle", cheated |-> ch]
MapNames(ms) == [kind |-> "MapNames", maps |-> ms]
CurrentMap(p, t) == [kind |-> "CurrentMap", map |-> p.map, sector |-> p.sector, type |-> t]
CurrentSector(s) == [kind |-> "CurrentSector", sector |-> s]
Bulletin(t) == [kind |-> "PermanentNotification", text |-> t]
Said == [kind |-> "Chat"]
Whispered(d) == [kind |-> "PrivateChat", about |-> d]
RestartRequest(d) == [kind |-> "RestartRequest", about |-> d]
RestartFailed(d) == [kind |-> "RestartRequestFailed", about |-> d]
ActionDenied == [kind |-> "ActionDenied"]
ScoreList == [kind |-> "ScoreList"]
Important == [kind |-> "ImportantNotification"]
HashData == [kind |-> "HashData"]
Warning == [kind |-> "PublicNotification"]

LoginAccepted(r) == [kind |-> "LoginAccepted", online |-> r]
PlayerConnected(c, ch) == [kind |-> "PlayerConnected", from |-> c, cheated |-> ch]
PlayerDisconnected(c) == [kind |-> "PlayerDisconnected", from |-> c]
From(c, m) == With(m, "from", c)

Sends(c, m) == up' = [up EXCEPT ![c] = Append(@, m)]
Told(streams, S, m) == [d \in Conn |-> IF d \in S THEN Append(streams[d], m) ELSE streams[d]]
Broadcast(m) == down' = Told(down, online, m)
BroadcastExcept(c, m) == down' = Told(down, online \ {c}, m)

Act(kind) == acts[kind] > 0 /\ acts' = [acts EXCEPT ![kind] = @ - 1]

(* clients_[id] makes an entry where there is none; the mod's db_ updates  *)
(* only what exists.                                                       *)
Changed(c, id, f) ==
  LET old == IF id \in DOMAIN mirror[c] THEN mirror[c][id] ELSE Unnamed IN
    IF c \in Mod /\ id \notin DOMAIN mirror[c] THEN mirror
    ELSE [mirror EXCEPT ![c] = With(@, id, Over(old, f))]

(* The headless client keeps its own place in its copy, too. *)
OwnChanged(c, f) == IF c \in Mod \/ status[c] # "in" THEN mirror ELSE Changed(c, c, f)

-----------------------------------------------------------------------------
(* Players.                                                                *)

(* The connection is made and the login request sent.  The headless client *)
(* and spectators always say they do not cheat.                            *)
Connect(c) ==
  /\ Act(IF c \in Spectator THEN "spectators" ELSE "players")
  /\ status[c] = "out"
  /\ status' = [status EXCEPT ![c] = "joining"]
  /\ Sends(c, LoginRequest(c \in Mod \ Spectator /\ cheat[c]))
  /\ untold' = IF c \in Mod \/ ~ cheat[c] THEN untold ELSE untold \cup {c}
  /\ UNCHANGED <<serverVars, down, met, cheat, place, copyVars, threadVars, overtaken, nameless>>

(* OnCheatEnabled tells the server once logged in, but not of a spectator. *)
(* cheat-self of the headless client does as soon as there is a connection. *)
Tells(c) ==
  c \notin Spectator /\ (status[c] = "in" \/ (c \notin Mod /\ status[c] = "joining"))
ToggleOwnCheat(c) ==
  /\ Act("cheats")
  /\ status[c] # "left"
  /\ cheat' = [cheat EXCEPT ![c] = ~ @]
  /\ up' = IF Tells(c) THEN [up EXCEPT ![c] = Append(@, CheatState(~ cheat[c]))] ELSE up
  /\ untold' = IF Tells(c) \/ status[c] = "out" \/ c \in untold
               THEN untold \ {c} ELSE untold \cup {c}
  /\ UNCHANGED <<serverVars, down, met, status, place, copyVars, threadVars,
                 overtaken, nameless>>

(* The command cheat: everybody's. *)
ToggleCheats(c) ==
  /\ Act("cheats")
  /\ status[c] = "in"
  /\ \E ch \in BOOLEAN : Sends(c, CheatToggle(ch))
  /\ UNCHANGED <<serverVars, down, met, playerVars, copyVars, threadVars, history>>

SetBulletin(c) ==
  /\ Act("texts")
  /\ status[c] = "in"
  /\ \E t \in Text : Sends(c, Bulletin(t))
  /\ UNCHANGED <<serverVars, down, met, playerVars, copyVars, threadVars, history>>

(* Chat, and every other message that is relayed with its sender only. *)
Say(c) ==
  /\ Act("words")
  /\ status[c] = "in"
  /\ Sends(c, Said)
  /\ UNCHANGED <<serverVars, down, met, playerVars, copyVars, threadVars, history>>

(* announce, notice: shown to everybody in large letters. *)
Notify(c) ==
  /\ Act("words")
  /\ status[c] = "in"
  /\ Sends(c, Important)
  /\ UNCHANGED <<serverVars, down, met, playerVars, copyVars, threadVars, history>>

(* scores: asks for a map's, which any client may. *)
QueryScores(c) ==
  /\ Act("words")
  /\ status[c] = "in"
  /\ Sends(c, ScoreList)
  /\ UNCHANGED <<serverVars, down, met, playerVars, copyVars, threadVars, history>>

(* whisper and restart, to somebody in the list. *)
Address(c) ==
  /\ Act("words")
  /\ status[c] = "in"
  /\ \E d \in DOMAIN mirror[c] \ {c} :
       Sends(c, Whispered(d)) \/ Sends(c, RestartRequest(d))
  /\ UNCHANGED <<serverVars, down, met, playerVars, copyVars, threadVars, history>>

(* announcemap: everybody is told, and the server's record is left alone. *)
AnnounceMap(c) ==
  /\ Act("places")
  /\ c \in Mod /\ status[c] = "in" /\ game[c] = "idle"
  /\ place[c].map # NoMap
  /\ Sends(c, CurrentMap(place[c], "Announcement"))
  /\ nameless' = IF place[c].map \in known[c] THEN nameless ELSE nameless \cup {c}
  /\ UNCHANGED <<serverVars, down, met, playerVars, copyVars, threadVars, untold, overtaken>>

ChangeSector(c) ==
  /\ Act("places")
  /\ status[c] # "left" /\ game[c] = "idle"
  /\ place[c].map # NoMap
  /\ \E s \in Sector \ {place[c].sector} :
       /\ place' = [place EXCEPT ![c].sector = s]
       /\ mirror' = OwnChanged(c, [sector |-> s])
       /\ IF status[c] = "in" THEN Sends(c, CurrentSector(s)) ELSE UNCHANGED up
  /\ overtaken' = IF net[c] = "assembled" THEN overtaken \cup {c} ELSE overtaken
  /\ UNCHANGED <<serverVars, down, met, status, cheat, known, shown, threadVars, untold,
                 nameless>>

(* setmap of the headless client, with the name or without: the sector it  *)
(* sends is 0, and names go first. *)
SetMap(c) ==
  /\ Act("places")
  /\ c \notin Mod /\ status[c] = "in"
  /\ \E m \in Map, withName \in BOOLEAN :
       LET p == [map |-> m, sector |-> 0] IN
         /\ place' = [place EXCEPT ![c] = p]
         /\ mirror' = OwnChanged(c, [map |-> m])
         /\ up' = [up EXCEPT ![c] = (IF withName THEN Append(@, MapNames({m})) ELSE @)
                                    \o <<CurrentMap(p, "EnteringMap")>>]
         /\ known' = IF withName THEN [known EXCEPT ![c] = @ \cup {m}] ELSE known
         /\ nameless' = IF withName THEN nameless ELSE nameless \cup {c}
  /\ UNCHANGED <<serverVars, down, met, status, cheat, shown, threadVars, untold, overtaken>>

-----------------------------------------------------------------------------
(* The game thread of the mod: OnLoadObject.                               *)

LoadLevel(c) ==
  /\ Act("places")
  /\ c \in Mod /\ status[c] # "left" /\ game[c] = "idle"
  /\ \E m \in Map \ {place[c].map} : place' = [place EXCEPT ![c].map = m]
  /\ game' = [game EXCEPT ![c] = "loaded"]
  /\ overtaken' = IF net[c] = "assembled" THEN overtaken \cup {c} ELSE overtaken
  /\ UNCHANGED <<serverVars, streamVars, status, cheat, copyVars, net, carried, crashed,
                 untold, nameless>>

(* connected() is tested once; the name is entered in map_names_ here and  *)
(* sent afterwards. *)
EnterName(c) ==
  /\ game[c] = "loaded"
  /\ game' = [game EXCEPT ![c] = IF status[c] # "in" THEN "idle"
                                 ELSE IF place[c].map \in known[c] THEN "sector" ELSE "name"]
  /\ known' = IF status[c] = "in" THEN [known EXCEPT ![c] = @ \cup {place[c].map}] ELSE known
  /\ UNCHANGED <<serverVars, streamVars, playerVars, shown, mirror, net, carried, crashed,
                 acts, history>>

SendName(c) ==
  /\ game[c] = "name"
  /\ game' = [game EXCEPT ![c] = "sector"]
  /\ Sends(c, MapNames({place[c].map}))
  /\ UNCHANGED <<serverVars, down, met, playerVars, copyVars, net, carried, crashed, acts,
                 history>>

(* on_sector_changed, then send_current_map.  (Mistake: the map is sent    *)
(* only when the sector changed.) *)
NewSector(c, s) == IF s = place[c].sector THEN <<>> ELSE <<CurrentSector(s)>>
OnlyWithSector(c, s) ==
  IF s = place[c].sector THEN <<>>
  ELSE NewSector(c, s) \o <<CurrentMap([place[c] EXCEPT !.sector = s], "EnteringMap")>>
Entering(c, s) ==
  NewSector(c, s) \o <<CurrentMap([place[c] EXCEPT !.sector = s], "EnteringMap")>>
SendPlace(c) ==
  /\ game[c] = "sector"
  /\ game' = [game EXCEPT ![c] = "idle"]
  /\ \E s \in Sector :
       /\ place' = [place EXCEPT ![c].sector = s]
       /\ up' = [up EXCEPT ![c] = @ \o Entering(c, s)]
  /\ overtaken' = IF net[c] = "assembled" THEN overtaken \cup {c} ELSE overtaken \ {c}
  /\ UNCHANGED <<serverVars, down, met, status, cheat, copyVars, net, carried, crashed,
                 acts, untold, nameless>>

-----------------------------------------------------------------------------
(* Leaving.                                                                *)

(* cleanup of the mod empties its copies; the network thread may still be  *)
(* handling the batch it has taken.  The headless client keeps its own.    *)
GoesOffline(c) ==
  /\ status[c] \in {"joining", "in"} /\ c \notin crashed
  /\ status' = [status EXCEPT ![c] = "left"]
  /\ IF c \in Mod
     THEN /\ mirror' = [mirror EXCEPT ![c] = <<>>]
          /\ known' = [known EXCEPT ![c] = {}]
          /\ shown' = [shown EXCEPT ![c].text = ""]
     ELSE UNCHANGED copyVars
  /\ game' = [game EXCEPT ![c] = "idle"]
  /\ UNCHANGED <<serverVars, streamVars, cheat, place, net, carried, crashed, history>>
Leave(c) == Act("leaves") /\ GoesOffline(c)

(* The batch ends and the thread with it. *)
StopHandling(c) ==
  /\ status[c] = "left" /\ down[c] # <<>>
  /\ down' = [down EXCEPT ![c] = <<>>]
  /\ net' = [net EXCEPT ![c] = "poll"]
  /\ UNCHANGED <<serverVars, up, met, playerVars, copyVars, game, carried, crashed, acts,
                 history>>

(* The server's callback: cleanup_disconnected_client.  When nobody is     *)
(* left the names and the bulletin go.  (Mistake: nobody is told.)         *)
DepartUntold(c) == down
DepartTold(c) == Told(down, online \ {c}, PlayerDisconnected(c))
Depart(c) ==
  /\ c \in online /\ status[c] = "left"
  /\ up' = [up EXCEPT ![c] = <<>>]
  /\ down' = DepartTold(c)
  /\ record' = Without(record, c)
  /\ IF online = {c} THEN map_names_' = {} /\ bulletin' = "" ELSE UNCHANGED <<map_names_, bulletin>>
  /\ UNCHANGED <<met, playerVars, copyVars, threadVars, acts, history>>

-----------------------------------------------------------------------------
(* The server's handlers, one for each kind of message.                    *)

(* From a connection that is not logged in anything but a request closes   *)
(* it; these clients send the request first.                               *)
Receives(c, kind) ==
  /\ up[c] # <<>> /\ Head(up[c]).kind = kind
  /\ up' = [up EXCEPT ![c] = Tail(@)]

ServerOnly == UNCHANGED <<met, playerVars, copyVars, threadVars, acts, history>>

(* get_forced_cheat_mode and the comparison.  (Mistake: whatever a forced  *)
(* player chose is turned around.)                                         *)
AlwaysForced(c, ch) == forced_cheat[c] # {}
Forced(c, ch) == (~ ch) \in forced_cheat[c]

(* To whoever logs in: names first, then everybody, then what is forced on *)
(* the player, then the bulletin.  (Mistake: without the bulletin; names   *)
(* after the list that needs them.)                                        *)
If(test, m) == IF test THEN <<m>> ELSE <<>>
WelcomeBare(c, r, ch) ==
  If(map_names_ # {}, MapNames(map_names_)) \o <<LoginAccepted(r)>>
  \o If(Forced(c, ch), CheatToggle(~ ch))
WelcomeUnnamed(c, r, ch) == <<LoginAccepted(r)>> \o If(bulletin # "", Bulletin(bulletin))
Welcome(c, r, ch) ==
  If(map_names_ # {}, MapNames(map_names_)) \o <<LoginAccepted(r)>>
  \o If(Forced(c, ch), CheatToggle(~ ch)) \o If(bulletin # "", Bulletin(bulletin))

(* Others are told the mode that is forced; the record keeps the one that  *)
(* was requested until the player answers.  (Mistake: nobody is told.)     *)
IntroducedToNobody(c, ch) == down
Introduced(c, ch) == Told(down, online \ {c}, PlayerConnected(c, IF Forced(c, ch) THEN ~ ch ELSE ch))
ServerLogin(c) ==
  /\ Receives(c, "LoginRequest")
  /\ LET ch == Head(up[c]).cheated
         r == With(record, c, Player(ch, Nowhere)) IN
       /\ record' = r
       /\ down' = [Introduced(c, ch) EXCEPT ![c] = @ \o Welcome(c, r, ch)]
       /\ met' = [d \in Conn |-> IF d \in DOMAIN r THEN met[d] \cup (DOMAIN r \ {d}) ELSE met[d]]
  /\ UNCHANGED <<map_names_, bulletin, playerVars, copyVars, threadVars, acts, history>>

(* The mode is recorded unless another is forced.  (Mistake: it is relayed *)
(* only.)                                                                  *)
CheatRelayed(c, ch) == record
CheatRecorded(c, ch) == [record EXCEPT ![c].cheated = ch]
ServerCheatState(c) ==
  /\ Receives(c, "CheatState")
  /\ LET ch == Head(up[c]).cheated IN
       IF Forced(c, ch)
       THEN down' = Told(down, {c}, CheatToggle(~ ch)) /\ UNCHANGED record
       ELSE /\ record' = CheatRecorded(c, ch)
            /\ Broadcast(From(c, [kind |-> "OwnedCheatState", cheated |-> ch]))
  /\ UNCHANGED <<map_names_, bulletin>> /\ ServerOnly

(* deny_action: while an operator is online only operators may. *)
Denied(c) == online \cap Op # {} /\ c \notin Op

ServerCheatToggle(c) ==
  /\ Receives(c, "CheatToggle")
  /\ IF Denied(c) THEN down' = Told(down, {c}, ActionDenied)
     ELSE Broadcast(From(c, [kind |-> "OwnedCheatToggle", cheated |-> Head(up[c]).cheated]))
  /\ UNCHANGED serverVars /\ ServerOnly

ServerCurrentMap(c) ==
  /\ Receives(c, "CurrentMap")
  /\ LET m == Head(up[c]) IN
       IF m.type = "Announcement"
       THEN Broadcast(From(c, m)) /\ UNCHANGED record
       ELSE /\ record' = [record EXCEPT ![c].map = m.map, ![c].sector = m.sector]
            /\ BroadcastExcept(c, From(c, m))
  /\ UNCHANGED <<map_names_, bulletin>> /\ ServerOnly

ServerCurrentSector(c) ==
  /\ Receives(c, "CurrentSector")
  /\ record' = [record EXCEPT ![c].sector = Head(up[c]).sector]
  /\ BroadcastExcept(c, From(c, Head(up[c])))
  /\ UNCHANGED <<map_names_, bulletin>> /\ ServerOnly

ServerMapNames(c) ==
  /\ Receives(c, "MapNames")
  /\ map_names_' = map_names_ \cup Head(up[c]).maps
  /\ BroadcastExcept(c, Head(up[c]))
  /\ UNCHANGED <<record, bulletin>> /\ ServerOnly

ServerBulletin(c) ==
  /\ Receives(c, "PermanentNotification")
  /\ IF Denied(c) THEN down' = Told(down, {c}, ActionDenied) /\ UNCHANGED bulletin
     ELSE bulletin' = Head(up[c]).text /\ Broadcast(Head(up[c]))
  /\ UNCHANGED <<record, map_names_>> /\ ServerOnly

ServerChat(c) ==
  /\ Receives(c, "Chat")
  /\ Broadcast(From(c, Said))
  /\ UNCHANGED serverVars /\ ServerOnly

ServerNotification(c) ==
  /\ Receives(c, "ImportantNotification")
  /\ IF Denied(c) THEN down' = Told(down, {c}, ActionDenied) ELSE Broadcast(From(c, Important))
  /\ UNCHANGED serverVars /\ ServerOnly

(* A target that has left: the sender is told. *)
ServerWhisper(c) ==
  /\ Receives(c, "PrivateChat")
  /\ LET d == Head(up[c]).about IN
       down' = IF d \in online THEN Told(down, {d}, [kind |-> "PrivateChat", from |-> c])
               ELSE Told(down, {c}, ActionDenied)
  /\ UNCHANGED serverVars /\ ServerOnly

ServerRestart(c) ==
  /\ Receives(c, "RestartRequest")
  /\ LET d == Head(up[c]).about IN
       IF Denied(c) \/ d \notin online THEN down' = Told(down, {c}, ActionDenied)
       ELSE Broadcast(From(c, Head(up[c])))
  /\ UNCHANGED serverVars /\ ServerOnly

(* Relayed unless the one who asked has left. *)
ServerRestartFailed(c) ==
  /\ Receives(c, "RestartRequestFailed")
  /\ IF Head(up[c]).about \in online THEN Broadcast(Head(up[c])) ELSE UNCHANGED down
  /\ UNCHANGED serverVars /\ ServerOnly

(* Known for a map once somebody has finished it or given up. *)
ServerScores(c) ==
  /\ Receives(c, "ScoreList")
  /\ \E m \in {ScoreList, ActionDenied} : down' = Told(down, {c}, m)
  /\ UNCHANGED serverVars /\ ServerOnly

(* Everybody is warned of each modified file. *)
ServerHashes(c) ==
  /\ Receives(c, "HashData")
  /\ \E n \in 0 .. acts["modified"] :
       down' = [d \in Conn |-> down[d] \o [f \in 1 .. (IF d \in online THEN n ELSE 0) |-> Warning]]
  /\ UNCHANGED serverVars /\ ServerOnly

ServerHandles(c) ==
  \/ ServerScores(c) \/ ServerNotification(c) \/ ServerHashes(c)
  \/ ServerWhisper(c) \/ ServerRestart(c) \/ ServerRestartFailed(c)
  \/ ServerLogin(c) \/ ServerCheatState(c) \/ ServerCheatToggle(c) \/ ServerCurrentMap(c)
  \/ ServerCurrentSector(c) \/ ServerMapNames(c) \/ ServerBulletin(c) \/ ServerChat(c)

(* The console: cheat and bulletin. *)
ConsoleToggleCheat ==
  /\ Act("cheats")
  /\ \E ch \in BOOLEAN : Broadcast(CheatToggle(ch))
  /\ UNCHANGED <<serverVars, up, met, playerVars, copyVars, threadVars, history>>

ConsoleBulletin ==
  /\ Act("texts")
  /\ \E t \in Text : bulletin' = t /\ Broadcast(Bulletin(t))
  /\ UNCHANGED <<record, map_names_, up, met, playerVars, copyVars, threadVars, history>>

-----------------------------------------------------------------------------
(* The clients' handlers.  After cleanup the mod's network thread finishes *)
(* the batch it has; the headless client's program has ended.              *)

Handles(c, kinds) ==
  /\ status[c] \in (IF c \in Mod THEN {"joining", "in", "left"} ELSE {"joining", "in"})
  /\ c \notin crashed /\ net[c] = "poll"
  /\ down[c] # <<>> /\ Head(down[c]).kind \in kinds
  /\ down' = [down EXCEPT ![c] = Tail(@)]

CopyOnly == UNCHANGED <<serverVars, up, met, playerVars, threadVars, acts, history>>

(* A ball state of somebody who may have left long ago. *)
BallArrives(c, id) ==
  /\ c \notin Mod /\ status[c] \in {"joining", "in"}
  /\ id \in met[c] /\ id \notin DOMAIN mirror[c]
  /\ mirror' = Changed(c, id, <<>>)
  /\ UNCHANGED <<serverVars, streamVars, playerVars, known, shown, threadVars, acts, history>>

(* The mod keeps no entry for itself. *)
LearnPlayers(c) ==
  /\ Handles(c, {"LoginAccepted"})
  /\ LET r == Head(down[c]).online IN
       mirror' = [mirror EXCEPT ![c] = IF c \in Mod THEN Without(r, c) ELSE r]
  /\ status' = [status EXCEPT ![c] = IF @ = "joining" THEN "in" ELSE @]
  /\ net' = [net EXCEPT ![c] = IF c \in Mod THEN "logged in" ELSE @]
  /\ UNCHANGED <<serverVars, up, met, cheat, place, known, shown, game, carried, crashed, acts,
                 history>>

(* The rest of LoginAcceptedV3.  A name the game thread has entered and    *)
(* not sent yet is taken for a name everybody has.                         *)
NetSendsName(c) ==
  /\ net[c] = "logged in"
  /\ LET m == place[c].map
         new == m # NoMap /\ m \notin known[c] IN
       /\ known' = IF new THEN [known EXCEPT ![c] = @ \cup {m}] ELSE known
       /\ up' = IF new /\ status[c] = "in" THEN [up EXCEPT ![c] = Append(@, MapNames({m}))] ELSE up
  /\ nameless' = IF game[c] = "name" THEN nameless \cup {c} ELSE nameless
  /\ net' = [net EXCEPT ![c] = "named"]
  /\ UNCHANGED <<serverVars, down, met, playerVars, shown, mirror, game, carried, crashed, acts,
                 untold, overtaken>>

Assemble(c) ==
  /\ net[c] = "named"
  /\ net' = [net EXCEPT ![c] = "assembled"]
  /\ carried' = [carried EXCEPT ![c] = place[c]]
  /\ nameless' = IF place[c].map \in known[c] \cup {NoMap} /\ game[c] # "name"
                 THEN nameless ELSE nameless \cup {c}
  /\ UNCHANGED <<serverVars, streamVars, playerVars, copyVars, game, crashed, acts, untold,
                 overtaken>>

(* After it the list of mods, which the server only logs, and the hashes   *)
(* of the player's files, unless a spectator's.                            *)
NetSendsMap(c) ==
  /\ net[c] = "assembled"
  /\ net' = [net EXCEPT ![c] = "poll"]
  /\ up' = IF status[c] # "in" THEN up
           ELSE [up EXCEPT ![c] = @ \o <<CurrentMap(carried[c], "EnteringMap")>>
                                    \o If(c \notin Spectator, HashData)]
  /\ carried' = [carried EXCEPT ![c] = Nowhere]
  /\ UNCHANGED <<serverVars, down, met, playerVars, copyVars, game, crashed, acts, history>>

(* The mod's create leaves an entry that exists alone; the other writes    *)
(* over it.                                                                *)
LearnArrival(c) ==
  /\ Handles(c, {"PlayerConnected"})
  /\ LET m == Head(down[c]) IN
       mirror' = IF c \in Mod /\ m.from \in DOMAIN mirror[c] THEN mirror
                 ELSE [mirror EXCEPT ![c] = With(@, m.from, Player(m.cheated, Nowhere))]
  /\ UNCHANGED <<known, shown>> /\ CopyOnly

LearnDeparture(c) ==
  /\ Handles(c, {"PlayerDisconnected"})
  /\ mirror' = [mirror EXCEPT ![c] = Without(@, Head(down[c]).from)]
  /\ UNCHANGED <<known, shown>> /\ CopyOnly

LearnCheat(c) ==
  /\ Handles(c, {"OwnedCheatState"})
  /\ LET m == Head(down[c]) IN mirror' = Changed(c, m.from, [cheated |-> m.cheated])
  /\ UNCHANGED <<known, shown>> /\ CopyOnly

(* Both kinds of client answer only if the mode changes; in the mod the    *)
(* answer is OnCheatEnabled's.  A spectator does neither.                  *)
ObeyToggle(c) ==
  /\ Handles(c, {"CheatToggle", "OwnedCheatToggle"})
  /\ LET ch == Head(down[c]).cheated
         answers == ch # cheat[c] /\ c \notin Spectator /\ status[c] # "left" IN
       /\ cheat' = IF c \in Spectator THEN cheat ELSE [cheat EXCEPT ![c] = ch]
       /\ up' = IF answers THEN [up EXCEPT ![c] = Append(@, CheatState(ch))] ELSE up
       /\ untold' = IF answers THEN untold \ {c} ELSE untold
  /\ UNCHANGED <<serverVars, met, status, place, copyVars, threadVars, acts, overtaken, nameless>>

(* The mod shows an announcement and reads the player's entry for it: the  *)
(* value of an empty optional is an exception nothing catches.  The        *)
(* headless client records it like any other.                              *)
LearnMap(c) ==
  /\ Handles(c, {"CurrentMap"})
  /\ LET m == Head(down[c]) IN
       IF c \in Mod /\ m.type = "Announcement"
       THEN /\ crashed' = IF m.from # c /\ m.from \notin DOMAIN mirror[c]
                          THEN crashed \cup {c} ELSE crashed
            /\ UNCHANGED mirror
       ELSE /\ mirror' = Changed(c, m.from, [map |-> m.map, sector |-> m.sector])
            /\ UNCHANGED crashed
  /\ UNCHANGED <<serverVars, up, met, playerVars, known, shown, game, net, carried, acts, history>>

LearnSector(c) ==
  /\ Handles(c, {"CurrentSector"})
  /\ LET m == Head(down[c]) IN mirror' = Changed(c, m.from, [sector |-> m.sector])
  /\ UNCHANGED <<known, shown>> /\ CopyOnly

LearnNames(c) ==
  /\ Handles(c, {"MapNames"})
  /\ known' = [known EXCEPT ![c] = @ \cup Head(down[c]).maps]
  /\ UNCHANGED <<mirror, shown>> /\ CopyOnly

(* The mod tests whether a bulletin is shown here and changes it in the    *)
(* game's thread, which runs the calls in order: one that clears it, makes *)
(* a new one, or updates the one that is there.                            *)
ShowBulletin(c) ==
  /\ Handles(c, {"PermanentNotification"})
  /\ LET t == Head(down[c]).text
         call == [text |-> t, updates |-> t # "" /\ shown[c].text # ""] IN
       shown' = IF c \in Mod THEN [shown EXCEPT ![c].calls = Append(@, call)]
                ELSE [shown EXCEPT ![c].text = t]
  /\ UNCHANGED <<mirror, known>> /\ CopyOnly

(* An update of what has been cleared since is one of a null pointer.      *)
UpdatesNothing(c) ==
  shown[c].calls # <<>> /\ Head(shown[c].calls).updates /\ shown[c].text = ""
RunCall(c) ==
  /\ shown[c].calls # <<>> /\ (UpdatesNothing(c) => status[c] = "left")
  /\ shown' = [shown EXCEPT ![c] = [text |-> Head(@.calls).text, calls |-> Tail(@.calls)]]
  /\ UNCHANGED <<mirror, known, down>> /\ CopyOnly

(* It ends the game, and the connection with it. *)
EndGame(c) == UpdatesNothing(c) /\ GoesOffline(c) /\ UNCHANGED acts

Show(c) ==
  /\ Handles(c, {"Chat", "PrivateChat", "ActionDenied", "RestartRequestFailed"})
  /\ UNCHANGED copyVars /\ CopyOnly

(* An important one names who it is from: get_username. *)
ShowNotification(c) ==
  /\ Handles(c, {"ImportantNotification"})
  /\ UNCHANGED copyVars /\ CopyOnly

ShowWarning(c) ==
  /\ Handles(c, {"PublicNotification"})
  /\ UNCHANGED copyVars /\ CopyOnly

ShowScores(c) ==
  /\ Handles(c, {"ScoreList"})
  /\ UNCHANGED copyVars /\ CopyOnly

(* Who is not in a level, is a spectator or headless, cannot restart it    *)
(* and says so.                                                            *)
ObeyRestart(c) ==
  /\ Handles(c, {"RestartRequest"})
  /\ LET m == Head(down[c]) IN
       up' = IF m.about = c /\ status[c] # "left" /\ (c \notin Mod \ Spectator \/ place[c].map = NoMap)
             THEN [up EXCEPT ![c] = Append(@, RestartFailed(m.from))] ELSE up
  /\ UNCHANGED <<serverVars, met, playerVars, copyVars, threadVars, acts, history>>

ClientHandles(c) ==
  \/ LearnPlayers(c) \/ LearnArrival(c) \/ LearnDeparture(c) \/ LearnCheat(c) \/ ObeyToggle(c)
  \/ LearnMap(c) \/ LearnSector(c) \/ LearnNames(c) \/ ShowBulletin(c) \/ Show(c)
  \/ ShowScores(c) \/ ShowNotification(c) \/ ShowWarning(c) \/ ObeyRestart(c)

-----------------------------------------------------------------------------
(* The system.                                                             *)

Acts(c) ==
  \/ Connect(c) \/ ToggleOwnCheat(c) \/ ToggleCheats(c) \/ SetBulletin(c) \/ Say(c)
  \/ Notify(c) \/ QueryScores(c) \/ Address(c) \/ AnnounceMap(c) \/ ChangeSector(c) \/ SetMap(c)
  \/ LoadLevel(c) \/ Leave(c) \/ EndGame(c)

Threads(c) ==
  \/ EnterName(c) \/ SendName(c) \/ SendPlace(c)
  \/ NetSendsName(c) \/ Assemble(c) \/ NetSendsMap(c)

Next ==
  \/ ConsoleToggleCheat \/ ConsoleBulletin
  \/ \E c \in Conn : \/ Acts(c) \/ Threads(c) \/ ServerHandles(c) \/ ClientHandles(c)
                     \/ StopHandling(c) \/ Depart(c) \/ RunCall(c)
                     \/ \E id \in Conn : BallArrives(c, id)

(* Threads run, streams deliver, the server learns of a lost connection:   *)
(* its timeout is two hours, but finite.  That one of them goes on while   *)
(* any can is all that is needed here.                                     *)
GoesOn(c) ==
  \/ Threads(c) \/ RunCall(c) \/ EndGame(c) \/ ServerHandles(c) \/ ClientHandles(c)
  \/ StopHandling(c) \/ Depart(c)
Fairness == WF_vars(\E c \in Conn : GoesOn(c))

Spec == Init /\ [][Next]_vars /\ Fairness

-----------------------------------------------------------------------------
(* Properties.                                                             *)

(* Copies of the roster can be relied on.  Whoever a relayed message is    *)
(* from, the receiver knows: get_username takes an unknown sender for the  *)
(* player, and an announcement by one ends the game.  That happens only in *)
(* what is left of a batch after cleanup has emptied db_.  And a player    *)
(* with a name is online, or the word that they left is on its way.        *)
Names(c, id) == id = c \/ (id \in DOMAIN mirror[c] /\ mirror[c][id].named)
Mentioned(m) == {m[f] : f \in DOMAIN m \cap {"from", "about"}}
RosterKnown ==
  /\ \A c \in Conn : status[c] = "in" =>
       /\ down[c] # <<>> /\ Head(down[c]).kind # "PlayerConnected" =>
            \A id \in Mentioned(Head(down[c])) : Names(c, id)
       /\ \A id \in DOMAIN mirror[c] :
            mirror[c][id].named =>
              id \in online \/ \E i \in 1 .. Len(down[c]) : down[c][i] = PlayerDisconnected(id)
  /\ \A c \in crashed : status[c] = "left"

(* A map a copy places somebody on has its name there, so that lists and   *)
(* announcements show the name: names go before maps, at login too.        *)
MapsNamed ==
  \A c \in Conn : status[c] = "in" =>
    \A id \in DOMAIN mirror[c] \ (nameless \cup {c}) :
      mirror[c][id].map \in known[c] \cup {NoMap}

(* Nothing in flight and no thread between two steps. *)
quiet ==
  \A c \in Conn : /\ up[c] = <<>> /\ down[c] = <<>>
                  /\ game[c] = "idle" /\ net[c] = "poll" /\ shown[c].calls = <<>>
                  /\ ~ (status[c] = "left" /\ c \in online)
Logged == {c \in Conn : status[c] = "in"}

(* At rest the server and everybody else have the cheat mode each player   *)
(* has, and a forced mode holds, whatever toggles crossed on the way; only *)
(* a mode the server was never told (switched between request and login,   *)
(* or on at a headless client's login) is wrong.  A spectator's mode means *)
(* nothing: it tells none and obeys none, and others may be told the one   *)
(* that is forced on it.                                                   *)
CheatsKnown ==
  quiet => \A c \in Logged \ (untold \cup Spectator) :
    /\ record[c].cheated = cheat[c]
    /\ \A d \in Logged \ {c} : mirror[d][c].cheated = cheat[c]
    /\ forced_cheat[c] \subseteq {cheat[c]}

(* At rest the server and everybody else have every player where they are, *)
(* unless the game's thread overtook the network's at login.               *)
PlacesKnown ==
  quiet => \A c \in Logged \ overtaken :
    /\ [map |-> record[c].map, sector |-> record[c].sector] = place[c]
    /\ \A d \in Logged \ {c} :
         [map |-> mirror[d][c].map, sector |-> mirror[d][c].sector] = place[c]

(* At rest everybody who is still there shows the bulletin that latecomers *)
(* will get; a bulletin that is cleared and set again between two frames   *)
(* ends games (EndGame).                                                   *)
BulletinKnown == quiet => \A c \in Logged : shown[c].text = bulletin

(* Answers to answers end: forced modes and toggles do not chase each      *)
(* other for ever.                                                         *)
AllSettle == <>[] quiet

=============================================================================
