--------------------------- MODULE ClientSession ---------------------------
(***************************************************************************)
(* How the mod connects, logs in, disconnects and reconnects.  Four kinds  *)
(* of threads take part: the player's (game or console), the pool's (which *)
(* runs the io_context of the resolver and the reconnections), the network *)
(* thread and the ping thread.                                             *)
(*                                                                         *)
(* bml_mtx_ is held through cleanup, with its sleep of a second, and while *)
(* a thread is joined.  The status (connected, connecting) is read without *)
(* it.  A job posted to the pool begins at once.  The resolver completes   *)
(* its requests in order, one after another; a completion waits in the     *)
(* io_context until somebody runs it, and a stop does not remove it.       *)
(* Closing a connection withdraws its callbacks.                           *)
(***************************************************************************)
EXTENDS Naturals, Sequences, SequencesExt

CONSTANTS
  Addr, NoAddr,
  FirstAddr,     \* where the player connects first
  MaxCommands,   \* bound on what the player types
  MaxLogins      \* bound on the logins the server accepts

ASSUME ClientSessionAssumption ==
  /\ NoAddr \notin Addr /\ FirstAddr \subseteq Addr
  /\ {MaxCommands, MaxLogins} \subseteq Nat

VARIABLES
  lock,          \* bml_mtx_: "free" or who holds it: "user", "net", "handler"
  user,          \* where the player's thread is
  target,        \* the server it is to connect to next, if any
  server_addr_,
  resolving_endpoint_,
  ops,           \* requests to the resolver: [to, canceled]
  completions,   \* in the io_context: [to, ok]
  stopped,       \* whether the io_context is
  runs,          \* how many threads of the pool run it, and no handler
  handlers,      \* completions whose handler waits for the lock
  connection_,   \* [to, state, login]
  estate_,
  callbacks,     \* status changes to come
  net,           \* where the network thread is
  why,           \* why the connection it cleans up after has ended
  running_, logged_in_,
  ping,          \* where the ping thread is
  reconnection_count_,
  tasks,         \* reconnections: [sleeping, connecting]
  exited,        \* FatalError or terminate
  commands, logins, \* history, for the bounds
  mishaps        \* history: the races that have been lost, by name

userVars == <<user, target>>
resolverVars == <<resolving_endpoint_, ops, completions, stopped, runs, handlers>>
netVars == <<connection_, callbacks, net, why, running_>>
taskVars == <<reconnection_count_, tasks>>
bounds == <<commands, logins>>
vars == <<lock, userVars, server_addr_, resolverVars, netVars, estate_, logged_in_, ping,
          taskVars, exited, bounds, mishaps>>

NoConnection == [to |-> NoAddr, state |-> "none", login |-> "none"]

(* The player has typed the first command. *)
Init ==
  /\ lock = "free"
  /\ user = "connect" /\ target \in FirstAddr
  /\ server_addr_ = NoAddr
  /\ resolving_endpoint_ = FALSE
  /\ ops = <<>> /\ completions = <<>> /\ stopped = FALSE
  /\ runs = 0 /\ handlers = <<>>
  /\ connection_ = NoConnection /\ estate_ = "none" /\ callbacks = <<>>
  /\ net = "none" /\ why = "none"
  /\ running_ = FALSE /\ logged_in_ = FALSE
  /\ ping = "none"
  /\ reconnection_count_ = 0
  /\ tasks = [sleeping |-> 0, connecting |-> 0]
  /\ exited = FALSE
  /\ commands = 1 /\ logins = 0
  /\ mishaps = {}

connected == estate_ = "connected" /\ logged_in_
connecting == estate_ = "connecting" \/ resolving_endpoint_

(* A thread that has not started counts as one: it will be joined. *)
NetEnded == net \in {"none", "done"}
PingEnded == ping \in {"none", "done"}

(* client_cv_ has no predicate: who does not wait yet misses it.           *)
(* (Mistake: who waits is not woken.) *)
StillWaiting == ping
Notified == IF ping = "waiting" THEN "looping" ELSE ping

Mishap(happens, name) == mishaps' = IF happens THEN mishaps \cup {name} ELSE mishaps

-----------------------------------------------------------------------------
(* connect_to_server, once it has decided to: by the player's thread or by *)
(* a reconnection.  The old resolver is destroyed, which cancels what it   *)
(* has not completed.  What the decision was based on may have changed or  *)
(* not show: an attempt of another thread's, or one past its resolution    *)
(* that has not reached its first callback, may be under way.              *)
Canceled == [i \in DOMAIN ops |-> [ops[i] EXCEPT !.canceled = TRUE]]
UnderWay == resolving_endpoint_ \/ ~ NetEnded \/ handlers # <<>> \/ lock = "handler"
Abandoned == ops # <<>> \/ completions # <<>>

(* The pause before it, or the resolution after it, is long enough for a   *)
(* network thread or a run of the io_context that has been stopped to end. *)
Paused ==
  /\ running_ \/ net = "start" \/ NetEnded
  /\ stopped => runs = 0

Attempt(a) ==
  /\ Paused
  /\ resolving_endpoint_' = TRUE
  /\ stopped' = FALSE /\ runs' = runs + 1
  /\ server_addr_' = a
  /\ ops' = Append(Canceled, [to |-> a, canceled |-> FALSE])
  /\ mishaps' = mishaps \cup (IF UnderWay THEN {"overlap"} ELSE {})
                        \cup (IF Abandoned THEN {"abandoned"} ELSE {})
  /\ UNCHANGED <<lock, completions, handlers, netVars, estate_, logged_in_, ping,
                 reconnection_count_, exited, bounds>>

-----------------------------------------------------------------------------
(* cleanup, by the player's thread or the network thread: it wakes the     *)
(* ping thread, closes the connection if the network thread runs and then  *)
(* sleeps a second, and resets the rest.  (Mistake: the connection is left *)
(* open.) *)
LeftOpen == connection_
Closed == IF running_ THEN NoConnection ELSE connection_
Begin(who) ==
  /\ lock = "free" /\ lock' = who
  /\ ping' = Notified
  /\ running_' = FALSE
  /\ connection_' = Closed
  /\ callbacks' = IF running_ THEN <<>> ELSE callbacks
  /\ estate_' = IF running_ /\ connection_ # NoConnection THEN "none" ELSE estate_
  /\ Mishap(ping = "starting", "missed")

(* (Mistake: the login is not reset.) *)
StillLoggedIn == logged_in_
LoggedOut == FALSE
Finish(who) ==
  /\ lock = who /\ lock' = "free"
  /\ stopped' = TRUE
  /\ resolving_endpoint_' = FALSE
  /\ logged_in_' = LoggedOut
  /\ Mishap(Abandoned, "abandoned")

-----------------------------------------------------------------------------
(* The player.                                                             *)

Types == user = "idle" /\ commands < MaxCommands /\ commands' = commands + 1

(* connect: to a server one is connected or connecting to already, nothing *)
(* happens; with a connection to another, that one is disconnected first.  *)
Connect(a) ==
  /\ Types
  /\ ~ (a = server_addr_ /\ (connected \/ connecting))
  /\ target' = a
  /\ user' = IF connected \/ connecting THEN "disconnect" ELSE "connect"
  /\ UNCHANGED <<lock, server_addr_, resolverVars, netVars, estate_, logged_in_, ping,
                 taskVars, exited, logins, mishaps>>

Disconnect ==
  /\ Types
  /\ connected \/ connecting
  /\ user' = "disconnect" /\ target' = NoAddr
  /\ UNCHANGED <<lock, server_addr_, resolverVars, netVars, estate_, logged_in_, ping,
                 taskVars, exited, logins, mishaps>>

(* OnModifyConfig: the same server again, with the new name. *)
ModifyConfig ==
  /\ Types
  /\ connected \/ connecting
  /\ user' = "disconnect" /\ target' = server_addr_
  /\ UNCHANGED <<lock, server_addr_, resolverVars, netVars, estate_, logged_in_, ping,
                 taskVars, exited, logins, mishaps>>

UserCleans ==
  /\ user = "disconnect"
  /\ Begin("user")
  /\ user' = IF running_ THEN "sleep" ELSE "finish"
  /\ UNCHANGED <<target, server_addr_, resolverVars, net, why, logged_in_, taskVars, exited, bounds>>

(* A second is enough for the network thread to end or to want the lock. *)
LockWanted == net \in {"login", "on connected", "cleanup"}
UserSlept ==
  /\ user = "sleep"
  /\ NetEnded \/ LockWanted
  /\ user' = "finish"
  /\ UNCHANGED <<lock, target, server_addr_, resolverVars, netVars, estate_, logged_in_, ping,
                 taskVars, exited, bounds, mishaps>>

UserFinishes ==
  /\ user = "finish"
  /\ Finish("user")
  /\ user' = IF target = NoAddr THEN "idle" ELSE "connect"
  /\ UNCHANGED <<target, server_addr_, ops, completions, runs, handlers, netVars, estate_, ping,
                 taskVars, exited, bounds>>

UserConnects ==
  /\ user = "connect"
  /\ Attempt(target)
  /\ user' = "idle" /\ target' = NoAddr
  /\ UNCHANGED tasks

-----------------------------------------------------------------------------
(* The resolver and its io_context.                                        *)

resolverOnly == <<lock, userVars, server_addr_, netVars, estate_, logged_in_, ping, taskVars,
                  exited, bounds, mishaps>>

(* The resolver completes a request: canceled, found or not found. *)
Resolve ==
  /\ ops # <<>>
  /\ ops' = Tail(ops)
  /\ \E found \in BOOLEAN :
       completions' = Append(completions,
                             [to |-> Head(ops).to, ok |-> found /\ ~ Head(ops).canceled])
  /\ UNCHANGED <<resolving_endpoint_, stopped, runs, handlers, resolverOnly>>

RunReturns ==
  /\ runs > 0 /\ stopped
  /\ runs' = runs - 1
  /\ UNCHANGED <<resolving_endpoint_, ops, completions, stopped, handlers, resolverOnly>>

(* The handler, up to the lock: whichever attempt the completion is of. *)
Handler ==
  /\ runs > 0 /\ ~ stopped /\ completions # <<>>
  /\ completions' = Tail(completions)
  /\ handlers' = Append(handlers, Head(completions))
  /\ runs' = runs - 1
  /\ resolving_endpoint_' = FALSE
  /\ UNCHANGED <<ops, stopped, resolverOnly>>

HandlerLocks(i) ==
  /\ lock = "free"
  /\ handlers' = RemoveAt(handlers, i)

NothingFound ==
  \E i \in DOMAIN handlers :
    /\ HandlerLocks(i)
    /\ ~ handlers[i].ok
    /\ stopped' = TRUE
    /\ UNCHANGED <<resolving_endpoint_, ops, completions, runs, resolverOnly>>

(* connect; the network thread of the last connection is joined before the *)
(* one of this is made, with the lock. *)
HandlerConnects ==
  \E i \in DOMAIN handlers :
    /\ HandlerLocks(i)
    /\ handlers[i].ok
    /\ lock' = "handler"
    /\ connection_' = [to |-> handlers[i].to, state |-> "connecting", login |-> "none"]
    /\ callbacks' = Append(callbacks, [state |-> "connecting"])
    /\ UNCHANGED <<userVars, server_addr_, resolving_endpoint_, ops, completions, stopped, runs,
                   net, why, running_, estate_, logged_in_, ping, taskVars, exited, bounds,
                   mishaps>>

HandlerJoined ==
  /\ lock = "handler" /\ lock' = "free"
  /\ NetEnded /\ net' = "start"
  /\ stopped' = TRUE
  /\ ops' = Canceled
  /\ UNCHANGED <<userVars, server_addr_, resolving_endpoint_, completions, runs, handlers,
                 connection_, callbacks, why, running_, estate_, logged_in_, ping, taskVars,
                 exited, bounds, mishaps>>

-----------------------------------------------------------------------------
(* The library and the server.                                             *)

libraryOnly == <<lock, userVars, server_addr_, resolverVars, net, why, running_, estate_,
                 logged_in_, ping, taskVars, exited, commands, mishaps>>

Established ==
  /\ connection_.state = "connecting"
  /\ connection_' = [connection_ EXCEPT !.state = "connected"]
  /\ callbacks' = Append(callbacks, [state |-> "connected"])
  /\ UNCHANGED <<logins, libraryOnly>>

ServerAccepts ==
  /\ connection_.state = "connected" /\ connection_.login = "requested"
  /\ logins < MaxLogins /\ logins' = logins + 1
  /\ connection_' = [connection_ EXCEPT !.login = "accepting"]
  /\ UNCHANGED <<callbacks, libraryOnly>>

(* Why a connection may have ended: kicked, with a reason to reconnect     *)
(* (auto-reconnect, or the transport's), or another. *)
Reason == {"kicked", "reconnect", "other"}
Ended(state, reason) ==
  [state |-> state, early |-> connection_.state = "connecting", reason |-> reason]
Ends ==
  /\ connection_.state \in {"connecting", "connected"}
  /\ connection_' = [connection_ EXCEPT !.state = "ended"]
  /\ \E state \in {"closed by peer", "problem"}, reason \in Reason :
       callbacks' = Append(callbacks, Ended(state, reason))
  /\ UNCHANGED <<logins, libraryOnly>>

-----------------------------------------------------------------------------
(* The network thread: run, update.                                        *)

netOnly == <<userVars, server_addr_, resolverVars, taskVars, bounds>>

NetStarts ==
  /\ net = "start" /\ net' = "loop"
  /\ running_' = TRUE
  /\ UNCHANGED <<lock, connection_, callbacks, why, estate_, logged_in_, ping, exited, mishaps,
                 netOnly>>

NetLoops ==
  /\ net = "loop" \/ (net = "callbacks" /\ callbacks = <<>>)
  /\ net' = IF running_ THEN "poll" ELSE "done"
  /\ UNCHANGED <<lock, connection_, callbacks, why, running_, estate_, logged_in_, ping, exited,
                 mishaps, netOnly>>

(* The poll of a connection that is closed is a fatal error. *)
NetPolls ==
  /\ net = "poll"
  /\ net' = IF connection_.login = "accepting" THEN "login" ELSE "callbacks"
  /\ connection_' = IF connection_.login = "accepting"
                    THEN [connection_ EXCEPT !.login = "accepted"] ELSE connection_
  /\ exited' = (connection_ = NoConnection)
  /\ UNCHANGED <<lock, callbacks, why, running_, estate_, logged_in_, ping, mishaps, netOnly>>

(* LoginAcceptedV3: one who is logged in is only told the players anew. *)
NetLogsIn ==
  /\ net = "login" /\ net' = "callbacks"
  /\ lock = "free"
  /\ logged_in_' = TRUE
  /\ ping' = IF logged_in_ THEN ping ELSE Notified
  /\ reconnection_count_' = IF logged_in_ THEN reconnection_count_ ELSE 0
  /\ Mishap(connection_ = NoConnection, "late")
  /\ UNCHANGED <<lock, userVars, server_addr_, resolverVars, connection_, callbacks, why,
                 running_, estate_, tasks, exited, bounds>>

(* RunCallbacks: on_connection_status_changed, up to the lock.  Closed by  *)
(* the server while connecting: nothing is cleaned up, the thread goes on. *)
NetCallback ==
  /\ net = "callbacks" /\ callbacks # <<>>
  /\ LET e == Head(callbacks)
         refused == e.state = "closed by peer" /\ e.early IN
       /\ estate_' = e.state
       /\ net' = CASE e.state = "connecting" \/ refused -> "callbacks"
                   [] e.state = "connected" -> "on connected"
                   [] OTHER -> "cleanup"
       /\ why' = IF e.state \in {"connecting", "connected"} \/ refused THEN why
                 ELSE IF e.state = "problem" /\ e.reason = "kicked" THEN "other" ELSE e.reason
  /\ callbacks' = Tail(callbacks)
  /\ UNCHANGED <<lock, connection_, running_, logged_in_, ping, exited, mishaps, netOnly>>

(* Connected: the login is requested, then the last ping thread joined.    *)
NetRequests ==
  /\ net = "on connected" /\ net' = "join ping"
  /\ lock = "free" /\ lock' = "net"
  /\ connection_' = IF connection_.state = "connected"
                    THEN [connection_ EXCEPT !.login = "requested"] ELSE connection_
  /\ Mishap(connection_ = NoConnection, "late")
  /\ UNCHANGED <<callbacks, why, running_, estate_, logged_in_, ping, exited, netOnly>>

NetJoinedPing ==
  /\ net = "join ping" /\ net' = "callbacks"
  /\ PingEnded /\ ping' = "starting"
  /\ lock' = "free"
  /\ UNCHANGED <<connection_, callbacks, why, running_, estate_, logged_in_, exited, mishaps,
                 netOnly>>

NetCleans ==
  /\ net = "cleanup" /\ net' = "finish"
  /\ Begin("net")
  /\ UNCHANGED <<why, logged_in_, exited, netOnly>>

(* reconnect, three times.  (Mistake: each counts as the first.) *)
Enough == reconnection_count_ >= 3
FirstAgain == 1
Counted == reconnection_count_ + 1
Reconnect ==
  /\ reconnection_count_' = IF Enough THEN 0 ELSE Counted
  /\ tasks' = IF Enough THEN tasks ELSE [tasks EXCEPT !.sleeping = @ + 1]

(* After a kick the game ends. *)
NetFinishes ==
  /\ net = "finish" /\ net' = "callbacks"
  /\ Finish("net")
  /\ exited' = (why = "kicked")
  /\ IF why = "reconnect" THEN Reconnect ELSE UNCHANGED taskVars
  /\ why' = "none"
  /\ UNCHANGED <<userVars, server_addr_, ops, completions, runs, handlers, connection_, callbacks,
                 running_, estate_, ping, bounds>>

-----------------------------------------------------------------------------
(* The ping thread.                                                        *)

pingOnly == <<lock, userVars, server_addr_, resolverVars, netVars, estate_, logged_in_, taskVars,
              exited, bounds, mishaps>>

PingWaits ==
  /\ ping = "starting" /\ ping' = "waiting"
  /\ UNCHANGED pingOnly

PingEnds ==
  /\ ping = "looping" /\ ~ connected
  /\ ping' = "done"
  /\ UNCHANGED pingOnly

-----------------------------------------------------------------------------
(* Reconnections, in the pool.                                             *)

taskOnly == <<lock, userVars, server_addr_, resolverVars, netVars, estate_, logged_in_, ping,
              exited, bounds, mishaps>>

TaskWakes ==
  /\ tasks.sleeping > 0
  /\ tasks' = [tasks EXCEPT !.sleeping = @ - 1,
                            !.connecting = IF connecting \/ connected THEN @ ELSE @ + 1]
  /\ UNCHANGED <<reconnection_count_, taskOnly>>

TaskConnects ==
  /\ tasks.connecting > 0
  /\ tasks' = [tasks EXCEPT !.connecting = @ - 1]
  /\ Attempt(server_addr_)
  /\ UNCHANGED userVars

-----------------------------------------------------------------------------

Command == (\E a \in Addr : Connect(a)) \/ Disconnect \/ ModifyConfig
UserStep == UserCleans \/ UserSlept \/ UserFinishes \/ UserConnects
PoolStep == RunReturns \/ Handler \/ NothingFound \/ HandlerConnects \/ HandlerJoined
NetStep == \/ NetStarts \/ NetLoops \/ NetPolls \/ NetLogsIn \/ NetCallback
           \/ NetRequests \/ NetJoinedPing \/ NetCleans \/ NetFinishes
PingStep == PingWaits \/ PingEnds
TaskStep == TaskWakes \/ TaskConnects
Library == Resolve \/ Established \/ ServerAccepts \/ Ends

(* Races after which a thread that is joined may never end.  What comes    *)
(* after one is not modelled. *)
lost == mishaps \cap {"overlap", "missed", "late"} # {}

Next == ~ exited /\ ~ lost /\ (Command \/ UserStep \/ PoolStep \/ NetStep \/ PingStep \/ TaskStep \/ Library)

(* The scheduler runs every thread and the resolver answers; the player    *)
(* need not type, nor the server answer.                                   *)
Running(step) == ~ exited /\ ~ lost /\ step
Fairness ==
  /\ WF_vars(Running(UserStep)) /\ WF_vars(Running(PoolStep)) /\ WF_vars(Running(NetStep))
  /\ WF_vars(Running(PingStep)) /\ WF_vars(Running(TaskStep)) /\ WF_vars(Running(Resolve))

Spec == Init /\ [][Next]_vars /\ Fairness

-----------------------------------------------------------------------------
(* Properties.                                                             *)

(* bml_mtx_ is given back, though it is held while threads are joined that *)
(* may want it, unless one of three races has been lost: an attempt began  *)
(* while another was under way, or with the network thread of one that the *)
(* server refused; a ping thread had not begun to wait when cleanup woke   *)
(* it; a callback or a login was handled after its connection's cleanup.   *)
GivenBack == lock # "free" ~> (lock = "free" \/ exited \/ lost)

(* Who is connected has been accepted by the server on this connection.    *)
ConnectedIsAccepted ==
  connected => connection_.login = "accepted" \/ lost

(* The connection is to the server that was asked for last, unless two     *)
(* attempts overlapped, or one was given up before its address was         *)
(* resolved: its completion is left in the io_context and taken for that   *)
(* of the next attempt.                                                    *)
WhereAsked ==
  connection_ # NoConnection =>
    connection_.to = server_addr_ \/ lost \/ "abandoned" \in mishaps

(* After three attempts the reconnections end, however often each fails.   *)
GivesUp == <>[](lost \/ exited \/ tasks = [sleeping |-> 0, connecting |-> 0])
=============================================================================
