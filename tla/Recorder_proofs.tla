--------------------------- MODULE Recorder_proofs ---------------------------
(***************************************************************************)
(* Theorems about Recorder: the file is in order, a stop saves everything, *)
(* and the recorder implements RecordLog.  They assume that the second a   *)
(* stop sleeps is long enough: without it shutdown and record_thread take  *)
(* entries from the same queue at the same time.                           *)
(***************************************************************************)
EXTENDS Recorder, SequenceTheorems, TLAPS

-----------------------------------------------------------------------------
(* The inductive invariant.                                                *)

(* While shutdown drains the queue nobody else touches it. *)
DrainsAlone ==
  main \in {"drain", "drained one"} => net = "done" /\ rec \in {"waiting", "done"}

(* An entry that is written and not popped is still there. *)
OnePending == rec = "written one" \/ main = "drained one" => queue # <<>>

(* The network thread has ended because running_ was cleared. *)
NetDone == net = "done" => ~ running_ \/ over = "crashed"

(* After a stop the main thread drains the queue, then only joins. *)
Stopping == {"close", "sleep", "drain", "drained one"}
JoinsDrained ==
  stopped /\ main \notin Stopping =>
    main \in {"loop", "join net", "join rec"} /\ net = "done" /\ queue = <<>>

EndJoined == over = "ended" => main = "join rec"

(* Polls stop at the bound. *)
Bounded == received + batch <= MaxReceived

IInv ==
  /\ TypeOK /\ Bounded
  /\ DrainsAlone /\ OnePending /\ NetDone /\ JoinsDrained /\ EndJoined
  /\ InOrder

-----------------------------------------------------------------------------
(* Types.                                                                  *)

LEMMA TypeNext ==
  ASSUME TypeOK, Bounded, Next
  PROVE  TypeOK' /\ Bounded'
<1>1. CASE Start
  BY <1>1, RecorderAssumption
  DEF TypeOK, Bounded, Main, Net, Rec, Start, NetGoes, WakeMain, threadVars, queueVars,
      history
<1>2. CASE NetLoop
  BY <1>2, RecorderAssumption, ZenonT(60)
  DEF TypeOK, Bounded, Main, Net, Rec, NetLoop, NetGoes, threadVars, queueVars, history
<1>3. CASE Poll
  BY <1>3, RecorderAssumption, ZenonT(60)
  DEF TypeOK, Bounded, Main, Net, Rec, Poll, NetGoes, Batches, threadVars, queueVars,
      history
<1>4. CASE PollClosed
  BY <1>4, RecorderAssumption
  DEF TypeOK, Bounded, Main, Net, Rec, PollClosed, NetGoes, threadVars, queueVars,
      history
<1>5. CASE Enqueue
  <2>1. received \in Nat /\ received + 1 \in Nat /\ batch \in Nat
    BY RecorderAssumption DEF TypeOK
  <2>2. queue' \in Seq(Nat)
    BY <1>5, <2>1, AppendProperties DEF Enqueue, TypeOK
  <2>3. /\ received' = received + 1 /\ batch' = batch - 1 /\ batch > 0
        /\ rec' \in Rec
        /\ UNCHANGED <<main, net, running_, connection_, written, over, stopped, connections>>
    BY <1>5 DEF Enqueue, WakeRec, TypeOK, Rec
  <2>4. received' \in 0 .. MaxReceived /\ batch' \in 0 .. ONCE_RECV_MSG_COUNT /\ Bounded'
    BY <2>1, <2>3, RecorderAssumption DEF TypeOK, Bounded
  <2>5. QED BY <2>2, <2>3, <2>4 DEF TypeOK
<1>6. CASE Polled
  BY <1>6, RecorderAssumption, ZenonT(60)
  DEF TypeOK, Bounded, Main, Net, Rec, Polled, NetGoes, threadVars, queueVars, history
<1>7. CASE Callbacks
  BY <1>7, RecorderAssumption, ZenonT(60)
  DEF TypeOK, Bounded, Main, Net, Rec, Callbacks, NetGoes, threadVars, queueVars,
      history
<1>8. CASE RecLoop
  BY <1>8, RecorderAssumption, ZenonT(60)
  DEF TypeOK, Bounded, Main, Net, Rec, RecLoop, RecGoes, threadVars, queueVars, history
<1>9. CASE RecTest
  BY <1>9, RecorderAssumption, ZenonT(60)
  DEF TypeOK, Bounded, Main, Net, Rec, RecTest, RecGoes, threadVars, queueVars, history
<1>10. CASE RecWait
  BY <1>10, RecorderAssumption, ZenonT(60)
  DEF TypeOK, Bounded, Main, Net, Rec, RecWait, RecGoes, threadVars, queueVars, history
<1>11. CASE Write
  BY <1>11, HeadTailProperties, AppendProperties, ZenonT(60)
  DEF TypeOK, Bounded, Main, Net, Rec, Write, RecGoes, threadVars, queueVars, history
<1>12. CASE Pop
  BY <1>12, HeadTailProperties, ZenonT(60)
  DEF TypeOK, Bounded, Main, Net, Rec, Pop, RecGoes, Popped, threadVars, queueVars,
      history
<1>13. CASE Flush
  BY <1>13, RecorderAssumption, ZenonT(60)
  DEF TypeOK, Bounded, Main, Net, Rec, Flush, RecGoes, threadVars, queueVars, history
<1>14. CASE OtherCommand
  BY <1>14, RecorderAssumption, ZenonT(60)
  DEF TypeOK, Bounded, Main, Net, Rec, OtherCommand, MainGoes, mainOnly, threadVars,
      queueVars, history
<1>15. CASE TypeReconnect
  BY <1>15, RecorderAssumption
  DEF TypeOK, Bounded, Main, Net, Rec, TypeReconnect, MainGoes, mainOnly, threadVars,
      queueVars, history
<1>16. CASE Stop
  BY <1>16, RecorderAssumption
  DEF TypeOK, Bounded, Main, Net, Rec, Stop, MainGoes, threadVars, queueVars, history
<1>17. CASE TestStarted
  BY <1>17, RecorderAssumption, ZenonT(60)
  DEF TypeOK, Bounded, Main, Net, Rec, TestStarted, MainGoes, mainOnly, threadVars,
      queueVars, history
<1>18. CASE WaitStarted
  BY <1>18, RecorderAssumption, ZenonT(60)
  DEF TypeOK, Bounded, Main, Net, Rec, WaitStarted, MainGoes, mainOnly, threadVars,
      queueVars, history
<1>19. CASE MainLoop
  BY <1>19, RecorderAssumption
  DEF TypeOK, Bounded, Main, Net, Rec, MainLoop, MainGoes, mainOnly, threadVars,
      queueVars, history
<1>20. CASE Reconnect
  <2>1. connections \in Nat /\ connections' = connections + 1
    BY <1>20 DEF TypeOK, Reconnect
  <2>2. /\ main' = "test" /\ connection_' = "live" /\ net' = "start"
        /\ UNCHANGED <<rec, running_, batch, queue, written, over, received, stopped>>
    BY <1>20 DEF Reconnect, MainGoes, queueVars
  <2>3. connections' \in Nat
    BY <2>1
  <2>4. main' \in Main /\ net' \in Net
    BY <2>2 DEF Main, Net
  <2>5. QED BY <2>2, <2>3, <2>4 DEF TypeOK, Bounded
<1>21. CASE CannotConnect
  BY <1>21, RecorderAssumption
  DEF TypeOK, Bounded, Main, Net, Rec, CannotConnect, MainGoes, mainOnly, threadVars,
      queueVars, history
<1>22. CASE Close
  BY <1>22, RecorderAssumption
  DEF TypeOK, Bounded, Main, Net, Rec, Close, MainGoes, threadVars, queueVars, history
<1>23. CASE Sleep
  BY <1>23, RecorderAssumption
  DEF TypeOK, Bounded, Main, Net, Rec, Sleep, MainGoes, Slept, mainOnly, threadVars,
      queueVars, history
<1>24. CASE Drain
  BY <1>24, HeadTailProperties, AppendProperties
  DEF TypeOK, Bounded, Main, Net, Rec, Drain, MainGoes, QueueDrained, threadVars,
      queueVars, history
<1>25. CASE DrainPop
  BY <1>25, HeadTailProperties, ZenonT(60)
  DEF TypeOK, Bounded, Main, Net, Rec, DrainPop, MainGoes, Popped, threadVars,
      queueVars, history
<1>26. CASE NotifyAll
  BY <1>26, RecorderAssumption
  DEF TypeOK, Bounded, Main, Net, Rec, NotifyAll, MainGoes, QueueDrained, StopWakes,
      WakeRec, mainOnly, threadVars, queueVars, history
<1>27. CASE JoinNet
  BY <1>27, RecorderAssumption
  DEF TypeOK, Bounded, Main, Net, Rec, JoinNet, MainGoes, mainOnly, threadVars,
      queueVars, history
<1>28. CASE End
  BY <1>28, RecorderAssumption
  DEF TypeOK, Bounded, Main, Net, Rec, End, threadVars, queueVars, history
<1>29. CASE ConnectionEnds
  <2>1. /\ connection_' = "ended"
        /\ UNCHANGED <<main, net, rec, running_, batch, queue, written, over, received,
                       stopped, connections>>
    BY <1>29 DEF ConnectionEnds, threadVars, queueVars, history
  <2>2. QED BY <2>1 DEF TypeOK, Bounded
<1>30. QED
  BY <1>1, <1>2, <1>3, <1>4, <1>5, <1>6, <1>7, <1>8, <1>9, <1>10, <1>11, <1>12, <1>13,
     <1>14, <1>15, <1>16, <1>17, <1>18, <1>19, <1>20, <1>21, <1>22, <1>23, <1>24, <1>25,
     <1>26, <1>27, <1>28, <1>29
  DEF Next, NetStep, RecStep, Command, MainStep

-----------------------------------------------------------------------------
(* Who may touch the queue.                                                *)

LEMMA ControlNext ==
  ASSUME SleepIsLong, IInv, Next
  PROVE  DrainsAlone' /\ OnePending' /\ NetDone' /\ JoinsDrained' /\ EndJoined'
<1> USE DEF IInv
<1>0. over = "no"
  BY DEF Next
<1>1. CASE Start
  BY <1>0, <1>1, RecorderAssumption
  DEF TypeOK, DrainsAlone, OnePending, NetDone, JoinsDrained, EndJoined, Stopping,
      Start, NetGoes, WakeMain, threadVars, queueVars, history
<1>2. CASE NetLoop
  BY <1>0, <1>2, RecorderAssumption
  DEF TypeOK, DrainsAlone, OnePending, NetDone, JoinsDrained, EndJoined, Stopping,
      NetLoop, NetGoes, threadVars, queueVars, history
<1>3. CASE Poll
  BY <1>0, <1>3, RecorderAssumption
  DEF TypeOK, DrainsAlone, OnePending, NetDone, JoinsDrained, EndJoined, Stopping, Poll,
      NetGoes, Batches, threadVars, queueVars, history
<1>4. CASE PollClosed
  BY <1>0, <1>4, RecorderAssumption
  DEF TypeOK, DrainsAlone, OnePending, NetDone, JoinsDrained, EndJoined, Stopping,
      PollClosed, NetGoes, threadVars, queueVars, history
<1>5. CASE Enqueue
  BY <1>0, <1>5, RecorderAssumption
  DEF TypeOK, DrainsAlone, OnePending, NetDone, JoinsDrained, EndJoined, Stopping,
      Enqueue, WakeRec, QueueLocked, threadVars, queueVars, history
<1>6. CASE Polled
  BY <1>0, <1>6, RecorderAssumption
  DEF TypeOK, DrainsAlone, OnePending, NetDone, JoinsDrained, EndJoined, Stopping,
      Polled, NetGoes, threadVars, queueVars, history
<1>7. CASE Callbacks
  BY <1>0, <1>7, RecorderAssumption
  DEF TypeOK, DrainsAlone, OnePending, NetDone, JoinsDrained, EndJoined, Stopping,
      Callbacks, NetGoes, threadVars, queueVars, history
<1>8. CASE RecLoop
  BY <1>0, <1>8, RecorderAssumption
  DEF TypeOK, DrainsAlone, OnePending, NetDone, JoinsDrained, EndJoined, Stopping,
      RecLoop, RecGoes, threadVars, queueVars, history
<1>9. CASE RecTest
  BY <1>0, <1>9, RecorderAssumption
  DEF TypeOK, DrainsAlone, OnePending, NetDone, JoinsDrained, EndJoined, Stopping,
      RecTest, RecGoes, threadVars, queueVars, history
<1>10. CASE RecWait
  BY <1>0, <1>10, RecorderAssumption
  DEF TypeOK, DrainsAlone, OnePending, NetDone, JoinsDrained, EndJoined, Stopping,
      RecWait, RecGoes, threadVars, queueVars, history
<1>11. CASE Write
  BY <1>0, <1>11, RecorderAssumption
  DEF TypeOK, DrainsAlone, OnePending, NetDone, JoinsDrained, EndJoined, Stopping,
      Write, RecGoes, threadVars, queueVars, history
<1>12. CASE Pop
  BY <1>0, <1>12, RecorderAssumption
  DEF TypeOK, DrainsAlone, OnePending, NetDone, JoinsDrained, EndJoined, Stopping, Pop,
      RecGoes, Popped, threadVars, queueVars, history
<1>13. CASE Flush
  BY <1>0, <1>13, RecorderAssumption
  DEF TypeOK, DrainsAlone, OnePending, NetDone, JoinsDrained, EndJoined, Stopping,
      Flush, RecGoes, threadVars, queueVars, history
<1>14. CASE OtherCommand
  BY <1>0, <1>14, RecorderAssumption
  DEF TypeOK, DrainsAlone, OnePending, NetDone, JoinsDrained, EndJoined, Stopping,
      OtherCommand, MainGoes, mainOnly, threadVars, queueVars, history
<1>15. CASE TypeReconnect
  BY <1>0, <1>15, RecorderAssumption
  DEF TypeOK, DrainsAlone, OnePending, NetDone, JoinsDrained, EndJoined, Stopping,
      TypeReconnect, MainGoes, mainOnly, threadVars, queueVars, history
<1>16. CASE Stop
  BY <1>0, <1>16, RecorderAssumption
  DEF TypeOK, DrainsAlone, OnePending, NetDone, JoinsDrained, EndJoined, Stopping, Stop,
      MainGoes, threadVars, queueVars, history
<1>17. CASE TestStarted
  BY <1>0, <1>17, RecorderAssumption
  DEF TypeOK, DrainsAlone, OnePending, NetDone, JoinsDrained, EndJoined, Stopping,
      TestStarted, MainGoes, mainOnly, threadVars, queueVars, history
<1>18. CASE WaitStarted
  BY <1>0, <1>18, RecorderAssumption
  DEF TypeOK, DrainsAlone, OnePending, NetDone, JoinsDrained, EndJoined, Stopping,
      WaitStarted, MainGoes, mainOnly, threadVars, queueVars, history
<1>19. CASE MainLoop
  BY <1>0, <1>19, RecorderAssumption
  DEF TypeOK, DrainsAlone, OnePending, NetDone, JoinsDrained, EndJoined, Stopping,
      MainLoop, MainGoes, mainOnly, threadVars, queueVars, history
<1>20. CASE Reconnect
  BY <1>0, <1>20, RecorderAssumption
  DEF TypeOK, DrainsAlone, OnePending, NetDone, JoinsDrained, EndJoined, Stopping,
      Reconnect, MainGoes, threadVars, queueVars, history
<1>21. CASE CannotConnect
  BY <1>0, <1>21, RecorderAssumption
  DEF TypeOK, DrainsAlone, OnePending, NetDone, JoinsDrained, EndJoined, Stopping,
      CannotConnect, MainGoes, mainOnly, threadVars, queueVars, history
<1>22. CASE Close
  BY <1>0, <1>22, RecorderAssumption
  DEF TypeOK, DrainsAlone, OnePending, NetDone, JoinsDrained, EndJoined, Stopping,
      Close, MainGoes, threadVars, queueVars, history
<1>23. CASE Sleep
  BY <1>0, <1>23, RecorderAssumption
  DEF TypeOK, DrainsAlone, OnePending, NetDone, JoinsDrained, EndJoined, Stopping,
      Sleep, MainGoes, Slept, mainOnly, threadVars, queueVars, history
<1>24. CASE Drain
  BY <1>0, <1>24, RecorderAssumption
  DEF TypeOK, DrainsAlone, OnePending, NetDone, JoinsDrained, EndJoined, Stopping,
      Drain, MainGoes, QueueDrained, threadVars, queueVars, history
<1>25. CASE DrainPop
  BY <1>0, <1>25, RecorderAssumption
  DEF TypeOK, DrainsAlone, OnePending, NetDone, JoinsDrained, EndJoined, Stopping,
      DrainPop, MainGoes, Popped, threadVars, queueVars, history
<1>26. CASE NotifyAll
  BY <1>0, <1>26, RecorderAssumption
  DEF TypeOK, DrainsAlone, OnePending, NetDone, JoinsDrained, EndJoined, Stopping,
      NotifyAll, MainGoes, QueueDrained, StopWakes, WakeRec, mainOnly, threadVars,
      queueVars, history
<1>27. CASE JoinNet
  BY <1>0, <1>27, RecorderAssumption
  DEF TypeOK, DrainsAlone, OnePending, NetDone, JoinsDrained, EndJoined, Stopping,
      JoinNet, MainGoes, mainOnly, threadVars, queueVars, history
<1>28. CASE End
  BY <1>0, <1>28, RecorderAssumption
  DEF TypeOK, DrainsAlone, OnePending, NetDone, JoinsDrained, EndJoined, Stopping, End,
      threadVars, queueVars, history
<1>29. CASE ConnectionEnds
  BY <1>0, <1>29, RecorderAssumption
  DEF TypeOK, DrainsAlone, OnePending, NetDone, JoinsDrained, EndJoined, Stopping,
      ConnectionEnds, threadVars, queueVars, history
<1>30. QED
  BY <1>1, <1>2, <1>3, <1>4, <1>5, <1>6, <1>7, <1>8, <1>9, <1>10, <1>11, <1>12, <1>13,
     <1>14, <1>15, <1>16, <1>17, <1>18, <1>19, <1>20, <1>21, <1>22, <1>23, <1>24, <1>25,
     <1>26, <1>27, <1>28, <1>29
  DEF Next, NetStep, RecStep, Command, MainStep

-----------------------------------------------------------------------------
(* The order of entries.                                                   *)

Follows(w, q, n) ==
  /\ Len(w) + Len(q) = n
  /\ \A i \in 1 .. Len(w) : w[i] = i
  /\ \A i \in 1 .. Len(q) : q[i] = Len(w) + i

LEMMA OneArrives ==
  ASSUME NEW w \in Seq(Nat), NEW q \in Seq(Nat), NEW n \in Nat, Follows(w, q, n)
  PROVE  Follows(w, Append(q, n + 1), n + 1)
<1>1. Len(w) \in Nat /\ Len(q) \in Nat
  BY LenProperties
<1>2. /\ Len(Append(q, n + 1)) = Len(q) + 1
      /\ \A i \in 1 .. Len(q) : Append(q, n + 1)[i] = q[i]
      /\ Append(q, n + 1)[Len(q) + 1] = n + 1
  BY AppendProperties
<1>3. ASSUME NEW i \in 1 .. Len(q) + 1 PROVE Append(q, n + 1)[i] = Len(w) + i
  <2>1. CASE i = Len(q) + 1
    BY <1>1, <1>2, <2>1 DEF Follows
  <2>2. CASE i # Len(q) + 1
    <3>1. i \in 1 .. Len(q)
      BY <1>1, <2>2
    <3>2. QED BY <1>2, <3>1 DEF Follows
  <2>3. QED BY <2>1, <2>2
<1>4. QED BY <1>1, <1>2, <1>3 DEF Follows

LEMMA OneSaved ==
  ASSUME NEW w \in Seq(Nat), NEW q \in Seq(Nat), NEW n \in Nat, Follows(w, q, n), q # <<>>
  PROVE  /\ Head(q) = Len(w) + 1 /\ Len(w) < n
         /\ Follows(Append(w, Head(q)), Tail(q), n)
<1>1. Len(w) \in Nat /\ Len(q) \in Nat \ {0}
  BY LenProperties, EmptySeq
<1>2. Head(q) = q[1] /\ Head(q) \in Nat
  BY HeadTailProperties
<1>3. Head(q) = Len(w) + 1
  BY <1>1, <1>2 DEF Follows
<1>4. /\ Len(Append(w, Head(q))) = Len(w) + 1
      /\ \A i \in 1 .. Len(w) : Append(w, Head(q))[i] = w[i]
      /\ Append(w, Head(q))[Len(w) + 1] = Head(q)
  BY <1>2, AppendProperties
<1>5. /\ Len(Tail(q)) = Len(q) - 1
      /\ \A i \in 1 .. Len(Tail(q)) : Tail(q)[i] = q[i + 1]
  BY HeadTailProperties
<1>6. ASSUME NEW i \in 1 .. Len(w) + 1 PROVE Append(w, Head(q))[i] = i
  <2>1. CASE i = Len(w) + 1
    BY <1>3, <1>4, <2>1
  <2>2. CASE i # Len(w) + 1
    <3>1. i \in 1 .. Len(w)
      BY <1>1, <2>2
    <3>2. QED BY <1>4, <3>1 DEF Follows
  <2>3. QED BY <2>1, <2>2
<1>7. ASSUME NEW i \in 1 .. Len(q) - 1 PROVE Tail(q)[i] = Len(w) + 1 + i
  <2>1. i + 1 \in 1 .. Len(q)
    BY <1>1
  <2>2. Tail(q)[i] = q[i + 1]
    BY <1>5
  <2>3. QED BY <1>1, <2>1, <2>2 DEF Follows
<1>8. Len(w) + Len(q) = n
  BY DEF Follows
<1>9. Len(w) + 1 + (Len(q) - 1) = n /\ Len(w) < n
  BY <1>1, <1>8
<1>10. Len(Tail(q)) = Len(q) - 1
  BY <1>5
<1>11. QED BY <1>3, <1>4, <1>6, <1>7, <1>9, <1>10 DEF Follows

LEMMA SameOrder ==
  ASSUME InOrder, UNCHANGED <<received, written>>, Pending' = Pending
  PROVE  InOrder'
BY DEF InOrder

(* What writes and pops leave of the queue. *)
LEMMA PendingWhole ==
  ASSUME IInv, rec # "written one", main # "drained one"
  PROVE  Pending = queue /\ Follows(written, queue, received)
BY DEF IInv, InOrder, Follows, Pending

LEMMA OrderNext ==
  ASSUME SleepIsLong, IInv, Next
  PROVE  InOrder'
<1> USE DEF IInv
<1>0. /\ over = "no" /\ received \in Nat
      /\ queue \in Seq(Nat) /\ written \in Seq(Nat)
  BY RecorderAssumption DEF Next, TypeOK
<1>1. CASE Enqueue
  <2>1. rec # "written one" /\ main # "drained one"
    BY <1>1 DEF Enqueue, QueueLocked, DrainsAlone
  <2>2. Follows(written, Append(queue, received + 1), received + 1)
    BY <1>0, <2>1, PendingWhole, OneArrives
  <2>3. /\ queue' = Append(queue, received + 1) /\ received' = received + 1
        /\ written' = written /\ main' = main /\ rec' \in {rec, "test"}
    BY <1>1 DEF Enqueue, WakeRec
  <2>4. Pending' = queue'
    BY <2>1, <2>3 DEF Pending
  <2>5. Follows(written', Pending', received')
    BY <2>2, <2>3, <2>4
  <2>6. QED BY <2>5 DEF InOrder, Follows
<1>2. CASE Write
  <2>1. rec # "written one" /\ main # "drained one" /\ queue # <<>>
    BY <1>2 DEF Write, RecGoes, DrainsAlone
  <2>2. Follows(Append(written, Head(queue)), Tail(queue), received)
    BY <1>0, <2>1, PendingWhole, OneSaved
  <2>3. /\ written' = Append(written, Head(queue)) /\ queue' = queue
        /\ received' = received /\ rec' = "written one"
    BY <1>2 DEF Write, RecGoes, history
  <2>4. Pending' = Tail(queue)
    BY <2>3 DEF Pending
  <2>5. Follows(written', Pending', received')
    BY <2>2, <2>3, <2>4
  <2>6. QED BY <2>5 DEF InOrder, Follows
<1>3. CASE Pop
  <2>1. main # "drained one" /\ rec = "written one" /\ queue # <<>>
    BY <1>3 DEF Pop, RecGoes, DrainsAlone, OnePending
  <2>2. /\ queue' = Tail(queue) /\ rec' = "write" /\ main' = main
        /\ UNCHANGED <<received, written>>
    BY <1>3, <2>1 DEF Pop, Popped, RecGoes, history
  <2>3. Pending' = Pending
    BY <2>1, <2>2 DEF Pending
  <2>4. QED BY <2>2, <2>3, SameOrder
<1>4. CASE Drain
  <2>1. rec # "written one" /\ main # "drained one" /\ queue # <<>>
    BY <1>4 DEF Drain, MainGoes, DrainsAlone, QueueDrained
  <2>2. Follows(Append(written, Head(queue)), Tail(queue), received)
    BY <1>0, <2>1, PendingWhole, OneSaved
  <2>3. /\ written' = Append(written, Head(queue)) /\ queue' = queue
        /\ received' = received /\ main' = "drained one"
    BY <1>4, <2>1 DEF Drain, MainGoes, history
  <2>4. Pending' = Tail(queue)
    BY <2>3 DEF Pending
  <2>5. Follows(written', Pending', received')
    BY <2>2, <2>3, <2>4
  <2>6. QED BY <2>5 DEF InOrder, Follows
<1>5. CASE DrainPop
  <2>1. main = "drained one" /\ rec # "written one" /\ queue # <<>>
    BY <1>5 DEF DrainPop, MainGoes, DrainsAlone, OnePending
  <2>2. /\ queue' = Tail(queue) /\ main' = "drain" /\ rec' = rec
        /\ UNCHANGED <<received, written>>
    BY <1>5, <2>1 DEF DrainPop, Popped, MainGoes, history
  <2>3. Pending' = Pending
    BY <2>1, <2>2 DEF Pending
  <2>4. QED BY <2>2, <2>3, SameOrder
(* No other step writes, pops or adds. *)
<1>6. CASE NetStep /\ ~ Enqueue
  <2>1. UNCHANGED <<received, written, queue, rec>> /\ Pending' = Pending
    BY <1>6 DEF NetStep, Start, NetLoop, Poll, PollClosed, Polled, Callbacks, NetGoes,
                WakeMain, queueVars, history, Pending
  <2>2. QED BY <2>1, SameOrder
<1>7. CASE RecStep /\ ~ Write /\ ~ Pop
  <2>1. UNCHANGED <<received, written, queue, main>> /\ Pending' = Pending
    BY <1>7 DEF RecStep, RecLoop, RecTest, RecWait, Flush, RecGoes, queueVars, history,
                Pending
  <2>2. QED BY <2>1, SameOrder
<1>8. CASE Command
  <2>1. UNCHANGED <<received, written, queue, rec>> /\ Pending' = Pending
    BY <1>8 DEF Command, OtherCommand, TypeReconnect, Stop, MainGoes, mainOnly, queueVars,
                history, Pending
  <2>2. QED BY <2>1, SameOrder
<1>9. CASE MainStep /\ ~ Drain /\ ~ DrainPop
  <2>1. UNCHANGED <<received, written, queue>> /\ Pending' = Pending
    BY <1>9 DEF MainStep, TestStarted, WaitStarted, MainLoop, Reconnect, CannotConnect,
                Close, Sleep, NotifyAll, StopWakes, WakeRec, JoinNet, End, MainGoes,
                mainOnly, threadVars, queueVars, history, Pending
  <2>2. QED BY <2>1, SameOrder
<1>10. CASE ConnectionEnds
  <2>1. UNCHANGED <<received, written, queue, rec, main>> /\ Pending' = Pending
    BY <1>10 DEF ConnectionEnds, threadVars, queueVars, history, Pending
  <2>2. QED BY <2>1, SameOrder
<1>11. QED
  BY <1>1, <1>2, <1>3, <1>4, <1>5, <1>6, <1>7, <1>8, <1>9, <1>10 DEF Next

-----------------------------------------------------------------------------
(* Theorems.                                                               *)

LEMMA TypeInit ==
  ASSUME Init
  PROVE  TypeOK /\ Bounded
<1>1. main \in Main /\ net \in Net /\ rec \in Rec
  BY DEF Init, Main, Net, Rec
<1>2. /\ batch \in 0 .. ONCE_RECV_MSG_COUNT /\ received \in 0 .. MaxReceived
      /\ connections \in Nat /\ received + batch <= MaxReceived
  BY RecorderAssumption DEF Init
<1>3. queue \in Seq(Nat) /\ written \in Seq(Nat)
  BY EmptySeq DEF Init
<1>4. QED BY <1>1, <1>2, <1>3 DEF Init, TypeOK, Bounded

(* The state of the recorder keeps its types. *)
THEOREM TypeCorrect == Spec => []TypeOK
<1>1. Init => TypeOK /\ Bounded
  BY TypeInit
<1>2. TypeOK /\ Bounded /\ [Next]_vars => TypeOK' /\ Bounded'
  <2>1. ASSUME TypeOK, Bounded, UNCHANGED vars PROVE TypeOK' /\ Bounded'
    BY <2>1 DEF TypeOK, Bounded, vars, threadVars, queueVars, history
  <2>2. QED BY <2>1, TypeNext
<1>3. QED BY <1>1, <1>2, PTL DEF Spec

LEMMA Invariance == ASSUME SleepIsLong PROVE Spec => []IInv
<1>1. Init => IInv
  <2>1. ASSUME Init PROVE TypeOK /\ Bounded
    BY <2>1, TypeInit
  <2>2. ASSUME Init PROVE InOrder
    BY <2>2, EmptySeq DEF Init, InOrder, Pending
  <2>3. ASSUME Init
        PROVE  DrainsAlone /\ OnePending /\ NetDone /\ JoinsDrained /\ EndJoined
    BY <2>3 DEF Init, DrainsAlone, OnePending, NetDone, JoinsDrained, EndJoined
  <2>4. QED BY <2>1, <2>2, <2>3 DEF IInv
<1>2. IInv /\ [Next]_vars => IInv'
  <2>1. ASSUME IInv, UNCHANGED vars PROVE IInv'
    BY <2>1 DEF IInv, TypeOK, Bounded, DrainsAlone, OnePending, NetDone, JoinsDrained,
                EndJoined, InOrder, Pending, vars, threadVars, queueVars, history
  <2>2. ASSUME IInv, Next PROVE IInv'
    BY <2>2, TypeNext, ControlNext, OrderNext DEF IInv
  <2>3. QED BY <2>1, <2>2
<1>3. QED BY <1>1, <1>2, PTL DEF Spec

(* File and queue together hold what arrived, once each and in order. *)
THEOREM FileInOrder == ASSUME SleepIsLong PROVE Spec => []InOrder
<1>1. IInv => InOrder
  BY DEF IInv
<1>2. QED BY <1>1, Invariance, PTL

(* A stop that runs to its end leaves nothing out of the file. *)
THEOREM StopSaves == ASSUME SleepIsLong PROVE Spec => []SavedByStop
<1>1. ASSUME IInv, stopped, over = "ended" PROVE Len(written) = received
  <2>1. main = "join rec" /\ queue = <<>>
    BY <1>1 DEF IInv, EndJoined, JoinsDrained, Stopping
  <2>2. rec # "written one"
    BY <1>1, <2>1 DEF IInv, OnePending
  <2>3. Follows(written, <<>>, received)
    BY <1>1, <2>1, <2>2, PendingWhole
  <2>4. Len(written) \in Nat
    BY <1>1, LenProperties DEF IInv, TypeOK
  <2>5. QED BY <2>3, <2>4, EmptySeq DEF Follows
<1>2. IInv => SavedByStop
  BY <1>1 DEF SavedByStop
<1>3. QED BY <1>2, Invariance, PTL

(* The recorder implements the log: every step of a thread is an arrival,  *)
(* an entry saved, or nothing the log knows of.                            *)
THEOREM ImplementsLog == ASSUME SleepIsLong PROVE Spec => LogSpec
<1>1. Init => Log!Init
  BY DEF Init, Log!Init
<1>2. IInv /\ [Next]_vars => [Log!Receive \/ Log!Save]_Log!logVars
  <2>1. ASSUME IInv, Enqueue PROVE Log!Receive
    BY <2>1 DEF Enqueue, Log!Receive
  <2>2. ASSUME IInv, Write \/ Drain PROVE Log!Save
    <3>1. /\ received \in Nat /\ queue \in Seq(Nat) /\ written \in Seq(Nat)
      BY <2>2, RecorderAssumption DEF IInv, TypeOK
    <3>2. rec # "written one" /\ main # "drained one" /\ queue # <<>>
      BY <2>2 DEF Write, Drain, RecGoes, MainGoes, IInv, DrainsAlone, QueueDrained
    <3>3. Head(queue) = Len(written) + 1 /\ Len(written) < received
      BY <2>2, <3>1, <3>2, PendingWhole, OneSaved
    <3>4. written' = Append(written, Head(queue)) /\ received' = received
      BY <2>2, <3>2 DEF Write, Drain, history
    <3>5. QED BY <3>3, <3>4 DEF Log!Save
  <2>3. ASSUME Next, ~ Enqueue, ~ Write, ~ Drain PROVE UNCHANGED <<received, written>>
    <3>1. CASE NetStep
      BY <2>3, <3>1 DEF NetStep, Start, NetLoop, Poll, PollClosed, Polled, Callbacks,
                        queueVars, history
    <3>2. CASE RecStep
      BY <2>3, <3>2 DEF RecStep, RecLoop, RecTest, RecWait, Pop, Flush, queueVars, history
    <3>3. CASE Command
      BY <3>3 DEF Command, OtherCommand, TypeReconnect, Stop, mainOnly, queueVars, history
    <3>4. CASE MainStep
      BY <2>3, <3>4 DEF MainStep, TestStarted, WaitStarted, MainLoop, Reconnect,
                        CannotConnect, Close, Sleep, DrainPop, NotifyAll, JoinNet, End,
                        mainOnly, queueVars, history
    <3>5. CASE ConnectionEnds
      BY <3>5 DEF ConnectionEnds, queueVars, history
    <3>6. QED BY <2>3, <3>1, <3>2, <3>3, <3>4, <3>5 DEF Next
  <2>4. ASSUME UNCHANGED vars PROVE UNCHANGED <<received, written>>
    BY <2>4 DEF vars, queueVars, history
  <2>5. QED BY <2>1, <2>2, <2>3, <2>4 DEF Log!logVars
<1>3. QED BY <1>1, <1>2, Invariance, PTL DEF Spec, LogSpec, Log!Spec

=============================================================================
