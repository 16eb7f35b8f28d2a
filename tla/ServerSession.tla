--------------------------- MODULE ServerSession ---------------------------
(***************************************************************************)
(* The session layer of the BallanceMMO server: who is logged in, under    *)
(* which name, and what happens to the registries when connections come    *)
(* and go.  Three kinds of actor interleave:                               *)
(*                                                                         *)
(*   - the networking library (GameNetworkingSockets) and the peers behind *)
(*     it: connections open, carry messages and end at any time;           *)
(*   - the server thread (server::run): it takes the received messages,    *)
(*     handles all of them, then runs the queued status callbacks;         *)
(*   - the console thread (main): kick, ban, op, deop, reload, unban and   *)
(*     stop act on the same registries, with no lock around a command.     *)
(*                                                                         *)
(* A connection handle is never used for two connections, so a member of   *)
(* Conn lives once: idle, connecting, connected, ended, destroyed.         *)
(***************************************************************************)
EXTENDS Integers, Sequences, Functions

CONSTANTS
  Conn,         \* connection handles (HSteamNetConnection)
  NoConn,       \* k_HSteamNetConnection_Invalid
  Word,         \* nicknames, up to letter case and the spectator prefix
  Uuid,         \* player identities
  NoUuid,       \* "no entry" in a uuid-valued map
  NoNick,       \* "no entry" in a name-valued map; the default client name
  Logins,       \* the login requests peers may send
  Requests,     \* the other messages peers may send
  ConfigFiles,  \* what config.yml may hold when it is loaded
  Commands,     \* the console commands the operator may type
  ONCE_RECV_MSG_COUNT, \* how many messages the server thread takes at a time
  MaxRequests   \* bound on the requests one peer has in flight

-----------------------------------------------------------------------------
(* Names.  "*" in front makes a spectator; case matters to the op list and  *)
(* not to the registry of names in use.                                     *)

Nick == [word : Word, caps : BOOLEAN, spectator : BOOLEAN]
LowerNick == [word : Word, caps : {FALSE}, spectator : BOOLEAN]
RealNick == [word : Word, caps : BOOLEAN, spectator : {FALSE}]

to_lower(n) == [word |-> n.word, caps |-> FALSE, spectator |-> n.spectator]
get_real_nickname(n) == [word |-> n.word, caps |-> n.caps, spectator |-> FALSE]
get_spectator_nickname(n) == [word |-> n.word, caps |-> n.caps, spectator |-> TRUE]
is_spectator(n) == n # NoNick /\ n.spectator

(* A login request: the version is judged against the server's, wellFormed *)
(* stands for the length and the characters of the nickname.               *)
LoginRequest == [uuid : Uuid, nick : Nick,
                 version : {"current", "outdated", "newer"}, wellFormed : BOOLEAN]

Message == [code : {"LoginRequestV3"}, login : LoginRequest]
           \cup [code : {"KickRequestById"}, target : Conn]
           \cup [code : {"KickRequestByName"}, target : LowerNick]
           \cup [code : {"LegacyLogin", "FatalError", "Other"}]

(* The part of config.yml that sessions depend on. *)
Config == [op_mode : BOOLEAN, ghost_mode : BOOLEAN,
           banned_players : SUBSET Uuid,
           op_players : [RealNick -> Uuid \cup {NoUuid}],
           forced_names : [Uuid -> Nick \cup {NoNick}],
           reserved_names : [RealNick -> Uuid \cup {NoUuid}]]

LinkState == {"idle", "connecting", "connected", "ended", "destroyed"}

(* SteamNetConnectionStatusChangedCallback_t: "ended" is ClosedByPeer or    *)
(* ProblemDetectedLocally, "none" is what CloseConnection leaves behind.    *)
Event == [conn : Conn, old : {"none", "connecting", "connected", "ended"},
          new : {"connecting", "connected", "ended", "none"}]

TargetCommand == {"kick", "ban", "op", "deop"}
Command == TargetCommand \cup {"reload", "unban", "stop"}

(* The rest of set_op, once it has changed the op list. *)
OpStep == {"insert", "erase", "reconnect"}

(* The console thread: a command on a looked-up client and how far an op   *)
(* is with it, or how far a "stop" is with the connections left to close.  *)
ConsoleState ==
  [cmd : TargetCommand \cup OpStep, target : Conn, left : {{}}]
  \cup [cmd : {"idle", "closing", "sleeping", "exited"}, target : {NoConn},
        left : SUBSET Conn]

ASSUME SessionAssumption ==
  /\ NoConn \notin Conn
  /\ NoUuid \notin Uuid
  /\ NoNick \notin Nick
  /\ Logins \subseteq LoginRequest
  /\ Requests \subseteq {m \in Message : m.code # "LoginRequestV3"}
  /\ ConfigFiles \subseteq Config
  /\ Commands \subseteq Command
  /\ ONCE_RECV_MSG_COUNT \in Nat
  /\ MaxRequests \in Nat

-----------------------------------------------------------------------------
VARIABLES
  \* the networking library
  link,       \* its state of every connection
  helloed,    \* the peers that have sent their login request
  inbox,      \* messages received and not yet taken, per connection
  callbacks,  \* status changes queued for RunCallbacks
  \* the server thread
  phase,      \* where server::run is in its loop
  batch,      \* messages taken and not yet handled, per connection
  dispatch,   \* status changes taken and not yet handled
  running,    \* running_
  \* the registries
  clients,    \* keys of clients_
  name,       \* client_data::name
  uuid,       \* client_data::uuid
  username,   \* username_: lower-cased name -> connection
  ghost_spectator_clients,
  ticking,    \* ticking_
  roster,     \* what the reliable stream sent to a client makes it believe
  \* administration
  config,     \* config_
  console,    \* the command the console thread is executing
  raced,      \* a command used a client erased since it was looked up
  overtaken   \* history: clients made viewers by an op that they left before

netVars == <<link, helloed, inbox, callbacks>>
loopVars == <<phase, batch, dispatch, running>>
clientVars == <<clients, name, uuid, username, ghost_spectator_clients, ticking, roster>>
adminVars == <<config, console, raced, overtaken>>
vars == <<netVars, loopVars, clientVars, adminVars>>

Idle == [cmd |-> "idle", target |-> NoConn, left |-> {}]

(* get_client_count() > 1 *)
Crowded(S) == \E c, d \in S : c # d

Init ==
  /\ link = [c \in Conn |-> "idle"]
  /\ helloed = {}
  /\ inbox = [c \in Conn |-> <<>>]
  /\ callbacks = <<>>
  /\ phase = "loop"
  /\ batch = [c \in Conn |-> <<>>]
  /\ dispatch = <<>>
  /\ running = TRUE
  /\ clients = {}
  /\ name = [c \in Conn |-> NoNick]
  /\ uuid = [c \in Conn |-> NoUuid]
  /\ username = [n \in LowerNick |-> NoConn]
  /\ ghost_spectator_clients = {}
  /\ ticking = FALSE
  /\ roster = [c \in Conn |-> {}]
  /\ config \in ConfigFiles
  /\ console = Idle
  /\ raced = FALSE
  /\ overtaken = {}

-----------------------------------------------------------------------------
(* The networking library.                                                 *)

(* Mistake: a connection that is destroyed already reports its end again. *)
CloseAgain(c) ==
  /\ link' = [link EXCEPT ![c] = "destroyed"]
  /\ inbox' = [inbox EXCEPT ![c] = <<>>]
  /\ callbacks' = Append(callbacks, [conn |-> c, old |-> link[c], new |-> "none"])
  /\ UNCHANGED helloed

(* CloseConnection invalidates the handle, discards what was received on   *)
(* it and, unless it is destroyed already, queues a callback.              *)
Close(c) ==
  /\ link' = [link EXCEPT ![c] = "destroyed"]
  /\ inbox' = [inbox EXCEPT ![c] = <<>>]
  /\ callbacks' = IF link[c] \in {"connecting", "connected", "ended"}
                  THEN Append(callbacks, [conn |-> c, old |-> link[c], new |-> "none"])
                  ELSE callbacks
  /\ UNCHANGED helloed

PeerConnect(c) ==
  /\ link[c] = "idle"
  /\ link' = [link EXCEPT ![c] = "connecting"]
  /\ callbacks' = Append(callbacks, [conn |-> c, old |-> "none", new |-> "connecting"])
  /\ UNCHANGED <<helloed, inbox, loopVars, clientVars, adminVars>>

(* The peer closes, or the library gives it up after a timeout. *)
PeerEnd(c) ==
  /\ link[c] \in {"connecting", "connected"}
  /\ link' = [link EXCEPT ![c] = "ended"]
  /\ callbacks' = Append(callbacks, [conn |-> c, old |-> link[c], new |-> "ended"])
  /\ UNCHANGED <<helloed, inbox, loopVars, clientVars, adminVars>>

(* The clients log in once per connection, when it becomes connected. *)
PeerLogin(c) ==
  /\ link[c] = "connected" /\ c \notin helloed
  /\ \E l \in Logins :
       inbox' = [inbox EXCEPT ![c] = Append(@, [code |-> "LoginRequestV3", login |-> l])]
  /\ helloed' = helloed \cup {c}
  /\ UNCHANGED <<link, callbacks, loopVars, clientVars, adminVars>>

PeerRequest(c) ==
  /\ link[c] = "connected"
  /\ Len(inbox[c]) < MaxRequests
  /\ \E m \in Requests : inbox' = [inbox EXCEPT ![c] = Append(@, m)]
  /\ UNCHANGED <<link, helloed, callbacks, loopVars, clientVars, adminVars>>

-----------------------------------------------------------------------------
(* Permissions.                                                            *)

is_op(c) ==
  /\ name[c] # NoNick
  /\ uuid[c] \in Uuid
  /\ config.op_players[get_real_nickname(name[c])] = uuid[c]

op_online == \E c \in clients : is_op(c)

deny_action(c) == config.op_mode /\ op_online /\ ~ is_op(c)

is_name_reserved(n, u) == config.reserved_names[n] \notin {NoUuid, u}

(* Mistake: nobody looks whether the name is in use. *)
AcceptableTwice(l) ==
  /\ l.uuid \notin config.banned_players
  /\ l.version = "current"
  /\ l.wellFormed
  /\ ~ is_name_reserved(get_real_nickname(l.nick), l.uuid)

(* validate_client, without the wording of the reason. *)
Acceptable(l) ==
  /\ l.uuid \notin config.banned_players
  /\ l.version = "current"
  /\ username[to_lower(l.nick)] = NoConn
  /\ l.wellFormed
  /\ ~ is_name_reserved(get_real_nickname(l.nick), l.uuid)

(* The name a player gets: the forced one, with the prefix kept. *)
GrantedName(l) ==
  LET forced == config.forced_names[l.uuid]
  IN  IF forced = NoNick THEN l.nick
      ELSE IF is_spectator(l.nick) THEN get_spectator_nickname(forced)
      ELSE forced

(* get_client_id for a complete name. *)
get_client_id(n) == username[n]

-----------------------------------------------------------------------------
(* The server thread: poll_incoming_messages takes the oldest messages     *)
(* received, on_message handles every message of the batch, RunCallbacks   *)
(* takes the queued status changes and dispatches them in order.  Messages *)
(* of different peers may have been received in any order.                 *)

Receive ==
  /\ phase = "loop" /\ running
  /\ \E taken \in [Conn -> 0..ONCE_RECV_MSG_COUNT] :
       /\ \A c \in Conn : taken[c] <= Len(inbox[c])
       /\ LET total == FoldFunction(+, 0, taken)
          IN  \/ total = ONCE_RECV_MSG_COUNT
              \/ /\ total < ONCE_RECV_MSG_COUNT
                 /\ \A c \in Conn : taken[c] = Len(inbox[c])
       /\ batch' = [c \in Conn |-> SubSeq(inbox[c], 1, taken[c])]
       /\ inbox' = [c \in Conn |-> SubSeq(inbox[c], taken[c] + 1, Len(inbox[c]))]
  /\ phase' = "messages"
  /\ UNCHANGED <<link, helloed, callbacks, dispatch, running, clientVars, adminVars>>

RunCallbacks ==
  /\ phase = "messages" /\ \A c \in Conn : batch[c] = <<>>
  /\ dispatch' = callbacks
  /\ callbacks' = <<>>
  /\ phase' = "callbacks"
  /\ UNCHANGED <<link, helloed, inbox, batch, running, clientVars, adminVars>>

EndRound ==
  /\ phase = "callbacks" /\ dispatch = <<>>
  /\ phase' = "loop"
  /\ UNCHANGED <<netVars, batch, dispatch, running, clientVars, adminVars>>

Halt ==
  /\ phase = "loop" /\ ~ running
  /\ phase' = "halted"
  /\ UNCHANGED <<netVars, batch, dispatch, running, clientVars, adminVars>>

(* on_message is called with the oldest message of c in the batch. *)
Take(c, codes) ==
  /\ phase = "messages"
  /\ batch[c] # <<>> /\ Head(batch[c]).code \in codes
  /\ batch' = [batch EXCEPT ![c] = Tail(@)]
  /\ UNCHANGED <<phase, dispatch, running>>

KickCodes == {"KickRequestById", "KickRequestByName"}

(* Only logged-in clients may send anything but a login request. *)
RefuseStranger(c) ==
  /\ Take(c, KickCodes \cup {"FatalError", "Other"})
  /\ c \notin clients
  /\ Close(c)
  /\ UNCHANGED <<clientVars, adminVars>>

RefuseLegacyLogin(c) ==
  /\ Take(c, {"LegacyLogin"})
  /\ Close(c)
  /\ UNCHANGED <<clientVars, adminVars>>

(* Mistake: the refused peer is told so and left connected. *)
RefuseLoginOnly(c) ==
  /\ Take(c, {"LoginRequestV3"})
  /\ ~ Acceptable(Head(batch[c]).login)
  /\ UNCHANGED <<netVars, clientVars, adminVars>>

RefuseLogin(c) ==
  /\ Take(c, {"LoginRequestV3"})
  /\ ~ Acceptable(Head(batch[c]).login)
  /\ Close(c)
  /\ UNCHANGED <<clientVars, adminVars>>

(* The new client is told of everybody online, itself included; everybody  *)
(* else is told of the new client.  (Mistake: the others are not told.)    *)
ToldNobodyElse(c, S) == [roster EXCEPT ![c] = S]
ToldOfArrival(c, S) ==
  [d \in Conn |-> IF d = c THEN S
                  ELSE IF d \in clients THEN roster[d] \cup {c}
                  ELSE roster[d]]

Enter(c, n, u) ==
  /\ clients' = clients \cup {c}
  /\ name' = IF c \in clients THEN name ELSE [name EXCEPT ![c] = n]
  /\ uuid' = [uuid EXCEPT ![c] = u]
  /\ username' = [username EXCEPT ![to_lower(n)] = c]
  /\ ghost_spectator_clients' =
       IF is_spectator(n) \/ config.op_players[get_real_nickname(n)] = u
       THEN ghost_spectator_clients \cup {c} ELSE ghost_spectator_clients
  /\ roster' = ToldOfArrival(c, clients')
  /\ ticking' = (ticking \/ Crowded(clients'))

AcceptLogin(c) ==
  /\ Take(c, {"LoginRequestV3"})
  /\ LET l == Head(batch[c]).login
     IN  /\ Acceptable(l)
         /\ Enter(c, GrantedName(l), l.uuid)
  /\ UNCHANGED <<netVars, adminVars>>

KickTarget(m) ==
  IF m.code = "KickRequestById" THEN m.target ELSE get_client_id(m.target)

(* A kicked client stays registered until the callback of its closing. *)
OnKickRequest(c) ==
  /\ Take(c, KickCodes)
  /\ c \in clients
  /\ LET target == KickTarget(Head(batch[c]))
     IN  IF ~ deny_action(c) /\ target \in clients
         THEN Close(target) ELSE UNCHANGED netVars
  /\ UNCHANGED <<clientVars, adminVars>>

OnFatalError(c) ==
  /\ Take(c, {"FatalError"})
  /\ c \in clients
  /\ Close(c)
  /\ UNCHANGED <<clientVars, adminVars>>

OnOther(c) ==
  /\ Take(c, {"Other"})
  /\ c \in clients
  /\ UNCHANGED <<netVars, clientVars, adminVars>>

(* What cleanup_disconnected_client leaves in username_ (mistake: the name *)
(* is erased without its spectator prefix), in ghost_spectator_clients_    *)
(* (mistake: nothing is erased) and of the ticker (mistake: it stops when  *)
(* nobody is left).                                                        *)
NamesWithoutReal(c) ==
  IF name[c] = NoNick THEN username
  ELSE [username EXCEPT ![to_lower(get_real_nickname(name[c]))] = NoConn]
NamesWithout(c) ==
  IF name[c] = NoNick THEN username
  ELSE [username EXCEPT ![to_lower(name[c])] = NoConn]

ViewersKept(c) == ghost_spectator_clients
ViewersWithout(c) == ghost_spectator_clients \ {c}

TickingForOne(S) == ticking /\ S # {}
StillTicking(S) == ticking /\ Crowded(S)

(* cleanup_disconnected_client *)
Leave(c) ==
  /\ clients' = clients \ {c}
  /\ name' = [name EXCEPT ![c] = NoNick]
  /\ uuid' = [uuid EXCEPT ![c] = NoUuid]
  /\ username' = NamesWithout(c)
  /\ ghost_spectator_clients' = ViewersWithout(c)
  /\ roster' = [d \in Conn |-> IF d = c THEN {} ELSE roster[d] \ {c}]
  /\ ticking' = StillTicking(clients')

DispatchHead ==
  /\ phase = "callbacks" /\ dispatch # <<>>
  /\ dispatch' = Tail(dispatch)
  /\ UNCHANGED <<phase, batch, running>>

(* AcceptConnection fails when the connection has ended meanwhile. *)
OnConnecting ==
  /\ DispatchHead
  /\ Head(dispatch).new = "connecting"
  /\ LET c == Head(dispatch).conn
     IN  \/ /\ link[c] = "connecting"
            /\ link' = [link EXCEPT ![c] = "connected"]
            /\ callbacks' = Append(callbacks,
                 [conn |-> c, old |-> "connecting", new |-> "connected"])
            /\ UNCHANGED <<helloed, inbox>>
         \/ /\ link[c] # "connecting"
            /\ Close(c)
  /\ UNCHANGED <<clientVars, adminVars>>

OnConnected ==
  /\ DispatchHead
  /\ Head(dispatch).new = "connected"
  /\ UNCHANGED <<netVars, clientVars, adminVars>>

(* Only what was connected is cleaned up; a peer that never logged in is   *)
(* not in clients_ and there is nothing to clean up for it.  (Mistakes:    *)
(* "we will get callbacks here when we destroy connections, you can ignore *)
(* these" taken at its word; only these are not ignored.)                  *)
IsLeavingItself(e) == e.old = "connected" /\ e.new = "ended" /\ e.conn \in clients
IsLeavingByUs(e) == e.old = "connected" /\ e.new = "none" /\ e.conn \in clients
IsLeaving(e) == e.old = "connected" /\ e.conn \in clients

OnClosed ==
  /\ DispatchHead
  /\ Head(dispatch).new \in {"ended", "none"}
  /\ LET c == Head(dispatch).conn
     IN  /\ IF IsLeaving(Head(dispatch)) THEN Leave(c) ELSE UNCHANGED clientVars
         /\ Close(c)
  /\ UNCHANGED adminVars

-----------------------------------------------------------------------------
(* The console thread.  A command on a player first looks it up            *)
(* (client_exists) and then uses clients_[client]; nothing keeps the       *)
(* server thread from erasing the client in between.                       *)

ConsoleLookup(c) ==
  /\ console.cmd = "idle" /\ c \in clients
  /\ \E cmd \in Commands \cap TargetCommand :
       console' = [cmd |-> cmd, target |-> c, left |-> {}]
  /\ UNCHANGED <<netVars, loopVars, clientVars, config, raced, overtaken>>

(* The looked-up client is still there when the command uses it. *)
ConsoleUse(cmd) ==
  /\ console.cmd = cmd /\ console.target \in clients
  /\ console' = Idle
  /\ UNCHANGED <<loopVars, raced, overtaken>>

ConsoleKick ==
  /\ ConsoleUse("kick")
  /\ Close(console.target)
  /\ UNCHANGED <<clientVars, config>>

ConsoleBan ==
  /\ ConsoleUse("ban")
  /\ config' = [config EXCEPT !.banned_players = @ \cup ({uuid[console.target]} \cap Uuid)]
  /\ Close(console.target)
  /\ UNCHANGED clientVars

(* set_op(client, TRUE) reads the client and writes the op list.  All of   *)
(* set_op runs without a lock: the server thread may erase the client      *)
(* before each of the steps that follow.                                   *)
ConsoleOp ==
  LET c == console.target
      n == get_real_nickname(name[c])
  IN  /\ console.cmd = "op" /\ c \in clients /\ name[c] # NoNick
      /\ IF config.op_players[n] = uuid[c]
         THEN console' = Idle /\ UNCHANGED config
         ELSE /\ config' = [config EXCEPT !.op_players[n] = uuid[c]]
              /\ console' = [console EXCEPT !.cmd = "insert"]
      /\ UNCHANGED <<netVars, loopVars, clientVars, raced, overtaken>>

(* set_op(client, FALSE): the entry of the name goes, whoever's it is. *)
ConsoleDeop ==
  LET c == console.target
      n == get_real_nickname(name[c])
  IN  /\ console.cmd = "deop" /\ c \in clients /\ name[c] # NoNick
      /\ IF config.op_players[n] = NoUuid
         THEN console' = Idle /\ UNCHANGED config
         ELSE /\ config' = [config EXCEPT !.op_players[n] = NoUuid]
              /\ console' = [console EXCEPT !.cmd = "erase"]
      /\ UNCHANGED <<netVars, loopVars, clientVars, raced, overtaken>>

(* An operator sees the others in ghost mode, even one who has just left. *)
OpInsert ==
  /\ console.cmd = "insert"
  /\ console' = [console EXCEPT !.cmd = "reconnect"]
  /\ ghost_spectator_clients' = ghost_spectator_clients \cup {console.target}
  /\ overtaken' = overtaken \cup ({console.target} \ clients)
  /\ UNCHANGED <<netVars, loopVars, config, raced,
                 clients, name, uuid, username, ticking, roster>>

DeopErase ==
  /\ console.cmd = "erase"
  /\ console' = [console EXCEPT !.cmd = "reconnect"]
  /\ ghost_spectator_clients' = ghost_spectator_clients \ {console.target}
  /\ UNCHANGED <<netVars, loopVars, config, raced, overtaken,
                 clients, name, uuid, username, ticking, roster>>

(* In ghost mode the client is made to reconnect. *)
OpReconnect ==
  /\ console.cmd = "reconnect"
  /\ console' = Idle
  /\ IF config.ghost_mode THEN Close(console.target) ELSE UNCHANGED netVars
  /\ UNCHANGED <<loopVars, clientVars, config, raced, overtaken>>

(* The client was erased after the lookup: clients_[client] inserts a      *)
(* default entry.  The access is a data race; this is the outcome of the   *)
(* build when the two threads do not collide inside the map itself, and    *)
(* nothing is claimed of the states after it.                              *)
ConsoleStale ==
  /\ console.cmd \in TargetCommand /\ console.target \notin clients
  /\ console' = Idle
  /\ clients' = clients \cup {console.target}
  /\ raced' = TRUE
  /\ UNCHANGED <<netVars, loopVars, config, overtaken,
                 name, uuid, username, ghost_spectator_clients, ticking, roster>>

(* load_config: ops already seen stay in ghost_spectator_clients_. *)
ConsoleReload ==
  /\ console.cmd = "idle" /\ "reload" \in Commands
  /\ config' \in ConfigFiles
  /\ UNCHANGED <<netVars, loopVars, clientVars, console, raced, overtaken>>

ConsoleUnban ==
  /\ console.cmd = "idle" /\ "unban" \in Commands
  /\ \E u \in config.banned_players :
       config' = [config EXCEPT !.banned_players = @ \ {u}]
  /\ UNCHANGED <<netVars, loopVars, clientVars, console, raced, overtaken>>

(* shutdown: close everybody, stop ticking, sleep, clear running_. *)
ConsoleStop ==
  /\ console.cmd = "idle" /\ "stop" \in Commands
  /\ console' = [cmd |-> "closing", target |-> NoConn, left |-> clients]
  /\ UNCHANGED <<netVars, loopVars, clientVars, config, raced, overtaken>>

StopClose ==
  /\ console.cmd = "closing"
  /\ \E c \in console.left :
       /\ Close(c)
       /\ console' = [console EXCEPT !.left = @ \ {c}]
  /\ UNCHANGED <<loopVars, clientVars, config, raced, overtaken>>

StopTicking ==
  /\ console.cmd = "closing" /\ console.left = {}
  /\ console' = [console EXCEPT !.cmd = "sleeping"]
  /\ ticking' = FALSE
  /\ UNCHANGED <<netVars, loopVars, config, raced, overtaken,
                 clients, name, uuid, username, ghost_spectator_clients, roster>>

(* Mistake: running_ is left set. *)
StopRunningNot ==
  /\ console.cmd = "sleeping"
  /\ console' = [console EXCEPT !.cmd = "exited"]
  /\ UNCHANGED <<netVars, loopVars, clientVars, config, raced, overtaken>>

StopRunning ==
  /\ console.cmd = "sleeping"
  /\ console' = [console EXCEPT !.cmd = "exited"]
  /\ running' = FALSE
  /\ UNCHANGED <<netVars, phase, batch, dispatch, clientVars, config, raced, overtaken>>

-----------------------------------------------------------------------------
Peer(c) == PeerConnect(c) \/ PeerEnd(c) \/ PeerLogin(c) \/ PeerRequest(c)

OnMessage(c) ==
  \/ RefuseStranger(c) \/ RefuseLegacyLogin(c) \/ RefuseLogin(c) \/ AcceptLogin(c)
  \/ OnKickRequest(c) \/ OnFatalError(c) \/ OnOther(c)

OnStatusChanged == OnConnecting \/ OnConnected \/ OnClosed

ServerThread ==
  \/ Receive \/ RunCallbacks \/ EndRound \/ Halt
  \/ \E c \in Conn : OnMessage(c)
  \/ OnStatusChanged

ConsoleThread ==
  \/ \E c \in Conn : ConsoleLookup(c)
  \/ ConsoleKick \/ ConsoleBan \/ ConsoleStale
  \/ ConsoleOp \/ ConsoleDeop \/ OpInsert \/ DeopErase \/ OpReconnect
  \/ ConsoleReload \/ ConsoleUnban
  \/ ConsoleStop \/ StopClose \/ StopTicking \/ StopRunning

Next ==
  \/ \E c \in Conn : Peer(c)
  \/ ServerThread
  \/ ConsoleThread

Spec == Init /\ [][Next]_vars

(* The loop of server::run waits only for the clock, so the server thread  *)
(* never stops taking steps, and it takes messages in the order they were  *)
(* received, so nobody's are passed over for ever.  A "stop" once typed    *)
(* runs to its end.  Peers and the operator owe nothing.                   *)
FairSpec ==
  /\ Spec
  /\ WF_vars(ServerThread)
  /\ WF_vars(StopClose \/ StopTicking \/ StopRunning)
  /\ \A c \in Conn : SF_vars(Receive /\ batch'[c] # <<>>)

-----------------------------------------------------------------------------
(* Type invariant. *)
TypeOK ==
  /\ link \in [Conn -> LinkState]
  /\ helloed \subseteq Conn
  /\ inbox \in [Conn -> Seq(Message)]
  /\ callbacks \in Seq(Event)
  /\ phase \in {"loop", "messages", "callbacks", "halted"}
  /\ batch \in [Conn -> Seq(Message)]
  /\ dispatch \in Seq(Event)
  /\ running \in BOOLEAN
  /\ clients \subseteq Conn
  /\ name \in [Conn -> Nick \cup {NoNick}]
  /\ uuid \in [Conn -> Uuid \cup {NoUuid}]
  /\ username \in [LowerNick -> Conn \cup {NoConn}]
  /\ ghost_spectator_clients \subseteq Conn
  /\ ticking \in BOOLEAN
  /\ roster \in [Conn -> SUBSET Conn]
  /\ config \in Config
  /\ console \in ConsoleState
  /\ raced \in BOOLEAN
  /\ overtaken \subseteq Conn

(* The status change that makes the server clean up after c is on its way. *)
IsFarewell(e, c) == e.conn = c /\ e.old = "connected" /\ e.new \in {"ended", "none"}

FarewellPending(c) ==
  \/ \E i \in 1..Len(callbacks) : IsFarewell(callbacks[i], c)
  \/ \E i \in 1..Len(dispatch) : IsFarewell(dispatch[i], c)

(* A client that will be cleaned up after once its connection is gone. *)
Accounted(c) == link[c] = "connected" \/ FarewellPending(c)

(* A registered client either has a live connection or the callback that   *)
(* will unregister it is queued: however a connection ends -- by its peer, *)
(* by a kick from a handler or from the console, before or after its login *)
(* is handled -- cleanup_disconnected_client runs for it exactly because   *)
(* one callback with the old state Connected is dispatched for it.         *)
NoOrphan == ~ raced => \A c \in clients : Accounted(c)

(* username_ leads only to registered clients, and to each under the name  *)
(* it is registered with, so get_client_id never resolves to a client that *)
(* left or to another player.                                              *)
UsernameSound ==
  ~ raced => \A n \in LowerNick : username[n] # NoConn =>
    /\ username[n] \in clients
    /\ name[username[n]] # NoNick
    /\ to_lower(name[username[n]]) = n

(* No two clients are online under names that differ in case only          *)
(* (validate_client: "A player with the same username already exists").    *)
UniqueNames ==
  ~ raced => \A c, d \in clients :
    c # d => to_lower(name[c]) # to_lower(name[d])

(* Every client can be addressed by its name: commands, kick requests and  *)
(* the duplicate check all go through username_.                           *)
Findable ==
  ~ raced => \A c \in clients : username[to_lower(name[c])] = c

(* What the server has told a connected client adds up to who is online:   *)
(* LoginAcceptedV3, then PlayerConnectedV2 and PlayerDisconnected.         *)
RosterAgrees ==
  ~ raced => \A c \in clients : roster[c] = clients

(* The ticker runs exactly while there is somebody to relay to. *)
TicksForTwo ==
  ~ raced /\ console.cmd \notin {"sleeping", "exited"} => (ticking <=> Crowded(clients))

(* tick() in ghost mode sends to the members of this set.  Whoever leaves  *)
(* is out of it for good, however its departure falls between the steps of *)
(* an op or a deop, unless the op adds it after it has left.               *)
ViewersOnline ==
  ~ raced => ghost_spectator_clients \subseteq clients \cup overtaken

(* A client whose connection is gone is eventually unregistered. *)
GoneAreRemoved ==
  \A c \in Conn :
    (c \in clients /\ link[c] # "connected")
      ~> (c \notin clients \/ ~ running \/ raced)

(* "stop" ends the server thread: it is not kept alive by whatever the     *)
(* peers do while the connections are being closed.                        *)
StopHalts == console.cmd = "closing" ~> phase = "halted"

(* A login request that was received is eventually answered: its sender is *)
(* registered, or its connection is closed.                                *)
LoginsAnswered ==
  \A c \in Conn :
    (\E i \in 1..Len(inbox[c]) : inbox[c][i].code = "LoginRequestV3")
      ~> (c \in clients \/ link[c] # "connected" \/ ~ running)

-----------------------------------------------------------------------------
(* What makes the invariants above inductive.                              *)

(* The messages of a batch are all handled before the next callbacks are   *)
(* taken, and these before the next batch.                                 *)
Alternation ==
  /\ phase # "messages" => \A c \in Conn : batch[c] = <<>>
  /\ phase # "callbacks" => dispatch = <<>>

(* No message is handled after the cleanup of its connection: it would     *)
(* register or answer a client nobody will clean up after.                 *)
NothingAfterFarewell ==
  \A c \in Conn : inbox[c] # <<>> \/ batch[c] # <<>> => Accounted(c)

IsLogin(m) == m.code = "LoginRequestV3"
NoLogin(s) == \A i \in 1..Len(s) : ~ IsLogin(s[i])
SoleLogin(s) == \A i, j \in 1..Len(s) : IsLogin(s[i]) /\ IsLogin(s[j]) => i = j
Unhandled(c) == batch[c] \o inbox[c]

(* A connection is registered by its only login request. *)
LoginOnce ==
  ~ raced => \A c \in Conn :
    /\ c \in clients => c \in helloed
    /\ c \in clients \/ c \notin helloed => NoLogin(Unhandled(c))
    /\ SoleLogin(Unhandled(c))

(* The strengthening of the invariants that the proofs rest on. *)
Handled == Alternation /\ NothingAfterFarewell /\ LoginOnce

=============================================================================
