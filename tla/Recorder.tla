------------------------------ MODULE Recorder ------------------------------
(***************************************************************************)
(* The flight recorder of the headless client: the network thread fills    *)
(* message_queue_, the record thread empties it into the file, and the     *)
(* main thread starts both, reconnects and stops.                          *)
(*                                                                         *)
(* running_ is atomic; the two condition variables are used without        *)
(* holding their mutex while the condition changes, so a thread may wait   *)
(* for a notification that has already been given.  A wait that ends       *)
(* without one (C++ allows it) is left out.  An entry is its place in the  *)
(* order of arrival.                                                       *)
(***************************************************************************)
EXTENDS Integers, Sequences

CONSTANTS
  MaxReceived,      \* bound on the entries
  MaxConnections,   \* bound on the connections
  ONCE_RECV_MSG_COUNT, \* most messages of one poll
  SleepIsLong       \* whether the second a stop sleeps outlasts what the
                    \* other threads are in the middle of

ASSUME RecorderAssumption ==
  /\ {MaxReceived, MaxConnections} \subseteq Nat
  /\ ONCE_RECV_MSG_COUNT \in Nat \ {0}
  /\ SleepIsLong \in BOOLEAN

VARIABLES
  main,          \* where the main thread is
  net,           \* where client_thread is
  rec,           \* where record_thread is
  running_,
  connection_,   \* what connection_ names: "live", "ended" (by the peer, the
                 \* callback still to come) or "dead" (no connection)
  batch,         \* messages of this poll not handled yet
  queue,         \* message_queue_
  written,       \* the file
  over,          \* "no", "ended" or "crashed" (FatalError exits)
  received,      \* history: how many entries were enqueued
  stopped,       \* history: a stop was typed
  connections    \* history, for the bound

threadVars == <<main, net, rec>>
queueVars == <<queue, written>>
history == <<received, stopped, connections>>
vars == <<threadVars, running_, connection_, batch, queueVars, over, history>>

Main == {"test", "before wait", "waiting", "loop", "typing", "join to reconnect",
         "close", "sleep", "drain", "drained one", "join net", "join rec"}
Net == {"start", "loop", "poll", "enqueue", "callbacks", "done"}
Rec == {"none", "loop", "test", "before wait", "waiting", "write", "written one", "done"}

(* setup_recorder has opened the file, connect has succeeded, and the      *)
(* network thread has been started.                                        *)
Init ==
  /\ main = "test" /\ net = "start" /\ rec = "none"
  /\ running_ = FALSE
  /\ connection_ = "live"
  /\ batch = 0
  /\ queue = <<>> /\ written = <<>>
  /\ over = "no"
  /\ received = 0
  /\ stopped = FALSE
  /\ connections = 1

MainGoes(from, to) == main = from /\ main' = to
NetGoes(from, to) == net = from /\ net' = to
RecGoes(from, to) == rec = from /\ rec' = to

(* notify_one, notify_all: message_available_cv_ has one waiter at most.   *)
WakeRec == IF rec = "waiting" THEN "test" ELSE rec
WakeMain == IF main = "waiting" THEN "test" ELSE main

-----------------------------------------------------------------------------
(* The network thread: run.                                                *)

Start ==
  /\ NetGoes("start", "loop")
  /\ running_' = TRUE
  /\ main' = WakeMain
  /\ UNCHANGED <<rec, connection_, batch, queueVars, over, history>>

NetLoop ==
  /\ NetGoes("loop", IF running_ THEN "poll" ELSE "done")
  /\ UNCHANGED <<main, rec, running_, connection_, batch, queueVars, over, history>>

(* ReceiveMessagesOnConnection.  On a handle that is closed it returns an  *)
(* error, and FatalError ends the program on the spot.                     *)
Batches == 0 .. ONCE_RECV_MSG_COUNT
Poll ==
  /\ connection_ # "dead"
  /\ NetGoes("poll", "enqueue")
  /\ \E n \in Batches :
       /\ received + n <= MaxReceived
       /\ batch' = n
  /\ UNCHANGED <<main, rec, running_, connection_, queueVars, over, history>>

PollClosed ==
  /\ connection_ = "dead"
  /\ NetGoes("poll", "done")
  /\ over' = "crashed"
  /\ UNCHANGED <<main, rec, running_, connection_, batch, queueVars, history>>

(* The record thread holds message_queue_mutex_ while it writes. *)
QueueLocked == rec \in {"write", "written one"}

(* enqueue_log_message. *)
Enqueue ==
  /\ net = "enqueue" /\ batch > 0
  /\ ~ QueueLocked
  /\ queue' = Append(queue, received + 1)
  /\ received' = received + 1
  /\ rec' = WakeRec
  /\ batch' = batch - 1
  /\ UNCHANGED <<main, net, running_, connection_, written, over, stopped, connections>>

Polled ==
  /\ batch = 0
  /\ NetGoes("enqueue", "callbacks")
  /\ UNCHANGED <<main, rec, running_, connection_, batch, queueVars, over, history>>

(* RunCallbacks: on_connection_status_changed for a connection that has    *)
(* ended; nobody is notified.                                              *)
Callbacks ==
  /\ NetGoes("callbacks", "loop")
  /\ IF connection_ = "ended"
       THEN running_' = FALSE /\ connection_' = "dead"
       ELSE UNCHANGED <<running_, connection_>>
  /\ UNCHANGED <<main, rec, batch, queueVars, over, history>>

(* Closed by the server, or a problem detected locally. *)
ConnectionEnds ==
  /\ connection_ = "live"
  /\ connection_' = "ended"
  /\ UNCHANGED <<threadVars, running_, batch, queueVars, over, history>>

-----------------------------------------------------------------------------
(* The record thread: while (running()) write_record().                    *)

RecLoop ==
  /\ RecGoes("loop", IF running_ THEN "test" ELSE "done")
  /\ UNCHANGED <<main, net, running_, connection_, batch, queueVars, over, history>>

(* The condition of the wait, under a mutex that nobody else takes... *)
RecTest ==
  /\ RecGoes("test", IF queue = <<>> /\ running_ THEN "before wait" ELSE "write")
  /\ UNCHANGED <<main, net, running_, connection_, batch, queueVars, over, history>>

(* ... and the wait, which misses what was notified in between. *)
RecWait ==
  /\ RecGoes("before wait", "waiting")
  /\ UNCHANGED <<main, net, running_, connection_, batch, queueVars, over, history>>

(* write, then pop_front; on a list that another thread has emptied the    *)
(* pop is taken to do nothing.  (Mistake: the entry stays.) *)
NothingPopped == queue
Popped == IF queue = <<>> THEN <<>> ELSE Tail(queue)
Write ==
  /\ queue # <<>>
  /\ RecGoes("write", "written one")
  /\ written' = Append(written, Head(queue))
  /\ UNCHANGED <<main, net, running_, connection_, batch, queue, over, history>>

Pop ==
  /\ RecGoes("written one", "write")
  /\ queue' = Popped
  /\ UNCHANGED <<main, net, running_, connection_, batch, written, over, history>>

Flush ==
  /\ queue = <<>>
  /\ RecGoes("write", "loop")
  /\ UNCHANGED <<main, net, running_, connection_, batch, queueVars, over, history>>

-----------------------------------------------------------------------------
(* The main thread.                                                        *)

mainOnly == <<net, running_, connection_, batch, queueVars, over, history>>

(* wait_till_started: the test is made without the mutex. *)
TestStarted ==
  /\ MainGoes("test", IF running_ THEN "loop" ELSE "before wait")
  /\ UNCHANGED <<rec, mainOnly>>

WaitStarted ==
  /\ MainGoes("before wait", "waiting")
  /\ UNCHANGED <<rec, mainOnly>>

(* The loop of commands; the record thread is started before it. *)
MainLoop ==
  /\ MainGoes("loop", IF running_ THEN "typing" ELSE "join net")
  /\ rec' = IF rec = "none" THEN "loop" ELSE rec
  /\ UNCHANGED mainOnly

(* Any command but the two below: nothing changes here. *)
OtherCommand ==
  /\ MainGoes("typing", "loop")
  /\ UNCHANGED <<rec, mainOnly>>

TypeReconnect ==
  /\ MainGoes("typing", "join to reconnect")
  /\ UNCHANGED <<rec, mainOnly>>

(* The command "reconnect", once the network thread has ended; the record  *)
(* thread is left as it is.                                                *)
Reconnect ==
  /\ net = "done"
  /\ connections < MaxConnections
  /\ MainGoes("join to reconnect", "test")
  /\ connection_' = "live"
  /\ net' = "start"
  /\ connections' = connections + 1
  /\ UNCHANGED <<rec, running_, batch, queueVars, over, received, stopped>>

(* connect has failed. *)
CannotConnect ==
  /\ net = "done"
  /\ MainGoes("join to reconnect", "loop")
  /\ UNCHANGED <<rec, mainOnly>>

(* shutdown, for a stop or the end of the input. *)
Stop ==
  /\ MainGoes("typing", "close")
  /\ running_' = FALSE
  /\ stopped' = TRUE
  /\ UNCHANGED <<net, rec, connection_, batch, queueVars, over, received, connections>>

Close ==
  /\ MainGoes("close", "sleep")
  /\ connection_' = "dead"
  /\ UNCHANGED <<net, rec, running_, batch, queueVars, over, history>>

(* One second.  (Mistake: no sleep.) *)
NoSleep == TRUE
Slept == SleepIsLong => net = "done" /\ rec \in {"waiting", "done"}
Sleep ==
  /\ Slept
  /\ MainGoes("sleep", "drain")
  /\ UNCHANGED <<rec, mainOnly>>

(* The queue is emptied without its mutex.  (Mistake: what is left in the  *)
(* queue is dropped.) *)
NothingLeft == TRUE
QueueDrained == queue = <<>>
Drain ==
  /\ ~ QueueDrained
  /\ MainGoes("drain", "drained one")
  /\ written' = IF queue = <<>> THEN written ELSE Append(written, Head(queue))
  /\ UNCHANGED <<net, rec, running_, connection_, batch, queue, over, history>>

DrainPop ==
  /\ MainGoes("drained one", "drain")
  /\ queue' = Popped
  /\ UNCHANGED <<net, rec, running_, connection_, batch, written, over, history>>

(* message_available_cv_.notify_all.  (Mistake: it is left out.) *)
WakesNobody == rec
StopWakes == WakeRec
NotifyAll ==
  /\ QueueDrained
  /\ MainGoes("drain", "loop")
  /\ rec' = StopWakes
  /\ UNCHANGED mainOnly

JoinNet ==
  /\ net = "done"
  /\ MainGoes("join net", "join rec")
  /\ UNCHANGED <<rec, mainOnly>>

End ==
  /\ main = "join rec" /\ rec = "done"
  /\ over' = "ended"
  /\ UNCHANGED <<threadVars, running_, connection_, batch, queueVars, history>>

-----------------------------------------------------------------------------

NetStep == Start \/ NetLoop \/ Poll \/ PollClosed \/ Enqueue \/ Polled \/ Callbacks
RecStep == RecLoop \/ RecTest \/ RecWait \/ Write \/ Pop \/ Flush
Command == OtherCommand \/ TypeReconnect \/ Stop
MainStep == \/ TestStarted \/ WaitStarted \/ MainLoop \/ Reconnect \/ CannotConnect
            \/ Close \/ Sleep \/ Drain \/ DrainPop \/ NotifyAll \/ JoinNet \/ End

Next == over = "no" /\ (NetStep \/ RecStep \/ Command \/ MainStep \/ ConnectionEnds)

(* The scheduler runs every thread; nobody has to type, and no connection  *)
(* has to end.                                                             *)
Running(step) == over = "no" /\ step
Fairness ==
  /\ WF_vars(Running(NetStep))
  /\ WF_vars(Running(RecStep))
  /\ WF_vars(Running(MainStep))

Spec == Init /\ [][Next]_vars /\ Fairness

-----------------------------------------------------------------------------
(* Properties.                                                             *)

(* The state keeps its types. *)
TypeOK ==
  /\ main \in Main /\ net \in Net /\ rec \in Rec
  /\ running_ \in BOOLEAN
  /\ connection_ \in {"live", "ended", "dead"}
  /\ batch \in 0 .. ONCE_RECV_MSG_COUNT
  /\ queue \in Seq(Nat) /\ written \in Seq(Nat)
  /\ over \in {"no", "ended", "crashed"}
  /\ received \in 0 .. MaxReceived
  /\ stopped \in BOOLEAN
  /\ connections \in Nat

(* What is still to be written: an entry written but not popped is not. *)
Pending ==
  IF rec = "written one" \/ main = "drained one" THEN Tail(queue) ELSE queue

(* The file and the queue hold what arrived, once each and in order, while *)
(* one thread adds to the queue and two others write it out and remove it, *)
(* one of them without a lock.  (enqueue_log_message, write_record,        *)
(* shutdown)                                                               *)
InOrder ==
  /\ Len(written) + Len(Pending) = received
  /\ \A i \in 1 .. Len(written) : written[i] = i
  /\ \A i \in 1 .. Len(Pending) : Pending[i] = Len(written) + i

(* After a stop that is not cut short nothing that arrived is missing from *)
(* the file, whatever the two unprotected waits have missed before.        *)
SavedByStop == stopped /\ over = "ended" => Len(written) = received

(* A stop ends the program: both threads are joined, though the record     *)
(* thread may have been waiting for an entry that never came.              *)
StopEnds == stopped ~> over # "no"

(* The recorder implements the log it promises. *)
Log == INSTANCE RecordLog WITH saved <- written
LogSpec == Log!Spec
=============================================================================
