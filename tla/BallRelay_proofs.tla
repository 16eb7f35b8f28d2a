-------------------------- MODULE BallRelay_proofs --------------------------
(* Theorems about BallRelay for every value of its constants. *)
EXTENDS BallRelay, SequenceTheorems, TLAPS

(* A channel holds nothing but what it held and what is sent. *)
LEMMA SentAddsOne ==
  ASSUME NEW channel, NEW m, NEW c \in Sent(channel, m)
  PROVE  c \subseteq channel \cup {m}
BY DEF Sent

(* What is in flight after a poll was in flight before, one poll younger, and *)
(* was not too old to stay.                                                   *)
LEMMA AgedMessages ==
  ASSUME NEW channel, channel \subseteq Messages, NEW a \in Aged(channel)
  PROVE  /\ a \in Messages
         /\ \E m \in channel :
              /\ m.age + 1 < MaxAge
              /\ a.age = m.age + 1
              /\ a.type = m.type
              /\ m.type = "TimedBallState" => a.pos = m.pos /\ a.torn = m.torn
<1>1. PICK m \in channel : m.age + 1 < MaxAge /\ a = [m EXCEPT !.age = @ + 1]
  BY DEF Aged
<1>2. m \in Messages
  OBVIOUS
<1>3. CASE m \in [type : {"TimedBallState"}, pos : Positions, age : 0..(MaxAge - 1), torn : BOOLEAN]
  <2>1. m.age + 1 \in 0..(MaxAge - 1)
    BY <1>1, <1>3, RelayAssumption
  <2>2. a \in [type : {"TimedBallState"}, pos : Positions, age : 0..(MaxAge - 1), torn : BOOLEAN]
    BY <1>1, <1>3, <2>1
  <2>3. a.age = m.age + 1 /\ a.type = m.type /\ a.pos = m.pos /\ a.torn = m.torn
    BY <1>1, <1>3
  <2>4. QED BY <1>1, <2>2, <2>3 DEF Messages
<1>4. CASE m \in [type : {"Timestamp"}, age : 0..(MaxAge - 1)]
  <2>1. m.age + 1 \in 0..(MaxAge - 1)
    BY <1>1, <1>4, RelayAssumption
  <2>2. a \in [type : {"Timestamp"}, age : 0..(MaxAge - 1)]
    BY <1>1, <1>4, <2>1
  <2>3. a.age = m.age + 1 /\ a.type = m.type /\ m.type # "TimedBallState"
    BY <1>1, <1>4
  <2>4. QED BY <1>1, <2>2, <2>3 DEF Messages
<1>5. QED BY <1>2, <1>3, <1>4 DEF Messages

(* The two kinds of message that are sent. *)
LEMMA SentMessages ==
  ASSUME NEW age \in 0..(MaxAge - 1)
  PROVE  /\ Stamp(age) \in Messages
         /\ Stamp(age).age = age
         /\ Stamp(age).type # "TimedBallState"
         /\ \A pos \in Positions, torn \in BOOLEAN :
              /\ State(pos, age, torn) \in Messages
              /\ State(pos, age, torn).age = age
              /\ State(pos, age, torn).pos = pos
              /\ State(pos, age, torn).torn = torn
BY DEF Stamp, State, Messages

(* What a message holds. *)
LEMMA MessageFields ==
  ASSUME NEW m \in Messages
  PROVE  /\ m.age \in 0..(MaxAge - 1)
         /\ m.type = "TimedBallState" => m.pos \in Positions /\ m.torn \in BOOLEAN
         /\ m.type \in {"TimedBallState", "Timestamp"}
BY DEF Messages

-----------------------------------------------------------------------------
Steps == {"idle", "count", "copy", "send", "clear", "reset", "stamp"}
Tasks == [step : Steps, pos : Positions, count : Nat, forced : BOOLEAN]
Records == [pos : Positions, age : 0..MaxAge, torn : BOOLEAN]
Kept == [pos : Positions \cup {Hidden}, age : Ages, torn : BOOLEAN]
Viewers == [pos : Positions \cup {Hidden}, age : Ages, lag : Int, torn : BOOLEAN,
            turned : BOOLEAN]

(* The part of TypeOK a step disturbs, under the names above. *)
SenderOK ==
  /\ ball \in Positions /\ changed \in BOOLEAN /\ counter \in Nat /\ posted \in 0..1
  /\ task \in [Workers -> Tasks]
  /\ late \in 0..MaxLate
ServerOK ==
  /\ record \in Records
  /\ due \subseteq {"state", "timestamp"}
  /\ ghost_mode \in BOOLEAN /\ reloads \in 0..MaxReloads
ViewerOK == viewer \in Viewers /\ time_diff \in Int /\ upset \in BOOLEAN

LEMMA Typed ==
  TypeOK <=> /\ SenderOK /\ ServerOK /\ ViewerOK
             /\ up \subseteq Messages /\ down \subseteq Messages
             /\ reliable \in Seq(Kept)
BY DEF TypeOK, SenderOK, ServerOK, ViewerOK, Steps, Tasks, Records, Kept, Viewers

LEMMA TypedNext ==
  TypeOK' <=> /\ SenderOK' /\ ServerOK' /\ ViewerOK'
              /\ up' \subseteq Messages /\ down' \subseteq Messages
              /\ reliable' \in Seq(Kept)
BY DEF TypeOK, SenderOK, ServerOK, ViewerOK, Steps, Tasks, Records, Kept, Viewers

(* What a step leaves alone keeps its types. *)
LEMMA Unchanged ==
  /\ SenderOK /\ UNCHANGED sender => SenderOK'
  /\ ServerOK /\ UNCHANGED server => ServerOK'
  /\ ViewerOK /\ UNCHANGED shown => ViewerOK'
BY DEF SenderOK, ServerOK, ViewerOK, sender, server, shown

(* The records that are kept for a type's sake. *)
LEMMA Fields ==
  /\ \A p \in Positions, a \in 0..MaxAge, t \in BOOLEAN :
       [pos |-> p, age |-> a, torn |-> t] \in Records
  /\ \A p \in Positions \cup {Hidden}, a \in Ages, t \in BOOLEAN :
       [pos |-> p, age |-> a, torn |-> t] \in Kept
BY DEF Records, Kept

LEMMA KeptFields ==
  ASSUME NEW r \in Kept
  PROVE  r.pos \in Positions \cup {Hidden} /\ r.age \in Ages /\ r.torn \in BOOLEAN
BY DEF Kept

LEMMA RecordFields ==
  ASSUME NEW r \in Records
  PROVE  r.pos \in Positions /\ r.age \in 0..MaxAge /\ r.torn \in BOOLEAN
BY DEF Records

LEMMA ViewerFields ==
  ASSUME NEW r \in Viewers
  PROVE  /\ r.pos \in Positions \cup {Hidden} /\ r.age \in Ages /\ r.lag \in Int
         /\ r.torn \in BOOLEAN /\ r.turned \in BOOLEAN
BY DEF Viewers

(* A poll later. *)
LEMMA OlderType ==
  /\ \A r \in Records :
       /\ Older(r) \in Records /\ Older(r).pos = r.pos /\ Older(r).torn = r.torn
       /\ Older(r).age = (IF r.age < MaxAge THEN r.age + 1 ELSE r.age)
  /\ \A r \in Kept :
       /\ Older(r) \in Kept /\ Older(r).pos = r.pos /\ Older(r).torn = r.torn
       /\ Older(r).age = (IF r.age < MaxAge THEN r.age + 1 ELSE r.age)
<1>1. ASSUME NEW r \in Records
      PROVE  /\ Older(r) \in Records /\ Older(r).pos = r.pos /\ Older(r).torn = r.torn
             /\ Older(r).age = (IF r.age < MaxAge THEN r.age + 1 ELSE r.age)
  <2>1. (IF r.age < MaxAge THEN r.age + 1 ELSE r.age) \in 0..MaxAge
    BY RecordFields, RelayAssumption
  <2>2. QED BY <2>1 DEF Older, Records
<1>2. ASSUME NEW r \in Kept
      PROVE  /\ Older(r) \in Kept /\ Older(r).pos = r.pos /\ Older(r).torn = r.torn
             /\ Older(r).age = (IF r.age < MaxAge THEN r.age + 1 ELSE r.age)
  <2>1. (IF r.age < MaxAge THEN r.age + 1 ELSE r.age) \in Ages
    BY KeptFields, RelayAssumption DEF Ages
  <2>2. QED BY <2>1 DEF Older, Kept
<1>3. QED BY <1>1, <1>2

LEMMA OlderViewer ==
  ASSUME ViewerOK, Poll
  PROVE  /\ viewer' \in Viewers
         /\ viewer'.pos = viewer.pos /\ viewer'.torn = viewer.torn
         /\ viewer'.turned = viewer.turned
         /\ viewer'.age = (IF viewer.age < MaxAge THEN viewer.age + 1 ELSE viewer.age)
<1>1. viewer \in Viewers
  BY DEF ViewerOK
<1>2. (IF viewer.age < MaxAge THEN viewer.age + 1 ELSE viewer.age) \in Ages
  BY <1>1, ViewerFields, RelayAssumption DEF Ages
<1>3. /\ Older(viewer) \in Viewers /\ Older(viewer).pos = viewer.pos
      /\ Older(viewer).torn = viewer.torn /\ Older(viewer).turned = viewer.turned
      /\ Older(viewer).age = (IF viewer.age < MaxAge THEN viewer.age + 1 ELSE viewer.age)
      /\ Older(viewer).lag = viewer.lag
  BY <1>1, <1>2 DEF Older, Viewers
<1>4. PICK l : l = IF viewer.lag + Unit < OldLag THEN viewer.lag + Unit ELSE OldLag
  OBVIOUS
<1>5. l \in Int
  BY <1>1, <1>4, ViewerFields, RelayAssumption DEF OldLag
<1>6. viewer' = [Older(viewer) EXCEPT !.lag = l]
  BY <1>3, <1>4 DEF Poll, Viewers
<1>7. QED BY <1>3, <1>5, <1>6 DEF Viewers

LEMMA TypeInit == Init => TypeOK
<1> SUFFICES ASSUME Init PROVE TypeOK
  OBVIOUS
<1>1. 0 \in Positions /\ MaxAge \in 0..MaxAge /\ MaxAge \in Ages
  BY RelayAssumption DEF Positions, Ages
<1>2. Idle \in Tasks
  BY <1>1 DEF Idle, Tasks, Steps
<1>3. SenderOK
  <2>1. task \in [Workers -> Tasks]
    <3>1. task = [w \in Workers |-> Idle]
      BY DEF Init
    <3>2. QED BY <1>2, <3>1
  <2>2. ball \in Positions /\ changed \in BOOLEAN /\ counter \in Nat /\ posted \in 0..1
    <3>1. ball = 0 /\ counter = 0 /\ posted = 0 /\ changed \in BOOLEAN
      BY Zenon DEF Init
    <3>2. counter \in Nat /\ posted \in 0..1
      BY <3>1
    <3>3. QED BY <1>1, <3>1, <3>2, Zenon
  <2>3. late \in 0..MaxLate
    BY RelayAssumption DEF Init
  <2>4. QED BY <2>1, <2>2, <2>3 DEF SenderOK
<1>4. ServerOK
  <2>1. record \in Records
    BY <1>1, Fields DEF Init
  <2>2. due \subseteq {"state", "timestamp"} /\ ghost_mode \in BOOLEAN
    BY DEF Init
  <2>3. reloads \in 0..MaxReloads
    BY RelayAssumption DEF Init
  <2>4. QED BY <2>1, <2>2, <2>3 DEF ServerOK
<1>5. ViewerOK
  <2>1. OldLag \in Int /\ NoDiff \in Int
    BY RelayAssumption DEF OldLag, NoDiff
  <2>2. viewer \in Viewers
    BY <1>1, <2>1 DEF Init, Viewers
  <2>3. QED BY <2>1, <2>2 DEF Init, ViewerOK
<1>6. reliable \in Seq(Kept) /\ up \subseteq Messages /\ down \subseteq Messages
  BY DEF Init
<1>7. QED BY <1>3, <1>4, <1>5, <1>6, Typed

(* What is reliably under way after a poll. *)
LEMMA PolledReliable ==
  ASSUME TypeOK, Poll
  PROVE  /\ reliable' \in Seq(Kept)
         /\ Len(reliable') = Len(reliable) /\ Len(reliable) \in Nat
         /\ reliable' = <<>> <=> reliable = <<>>
         /\ \A i \in 1..Len(reliable) : /\ reliable[i] \in Kept
                                        /\ reliable'[i].pos = reliable[i].pos
                                        /\ reliable'[i].torn = reliable[i].torn
                                        /\ reliable'[i].age = reliable[i].age + 1
                                        /\ reliable[i].age + 1 < MaxAge
<1>1. reliable \in Seq(Kept) /\ reliable' = [i \in DOMAIN reliable |-> Older(reliable[i])]
  BY Typed DEF Poll
<1>2. Len(reliable) \in Nat /\ DOMAIN reliable = 1..Len(reliable)
  BY <1>1
<1>3. \A i \in 1..Len(reliable) : reliable[i] \in Kept
  BY <1>1, <1>2
<1>4. \A i \in 1..Len(reliable) : Older(reliable[i]) \in Kept
  BY <1>3, OlderType
<1>5. reliable' \in [1..Len(reliable) -> Kept]
  BY <1>1, <1>2, <1>4
<1>6. reliable' \in Seq(Kept)
  BY <1>2, <1>5, SeqDef
<1>7. Len(reliable') = Len(reliable)
  BY <1>2, <1>5, <1>6
<1>8. reliable' = <<>> <=> reliable = <<>>
  BY <1>1, <1>2, <1>6, <1>7, EmptySeq
<1>9. \A i \in 1..Len(reliable) : reliable[i].age + 1 < MaxAge
  BY <1>2 DEF Poll
<1>10. \A i \in 1..Len(reliable) : /\ reliable'[i].pos = reliable[i].pos
                                   /\ reliable'[i].torn = reliable[i].torn
                                   /\ reliable'[i].age = reliable[i].age + 1
  <2>1. TAKE i \in 1..Len(reliable)
  <2>2. reliable[i].age < MaxAge
    BY <1>3, <1>9, KeptFields, RelayAssumption DEF Ages
  <2>3. reliable'[i] = Older(reliable[i])
    BY <1>1, <1>2
  <2>4. QED BY <1>3, <2>2, <2>3, OlderType
<1>11. QED BY <1>2, <1>3, <1>6, <1>7, <1>8, <1>9, <1>10

(* A poll keeps the types. *)
LEMMA PollType == TypeOK /\ Poll => TypeOK'
<1> SUFFICES ASSUME TypeOK, Poll PROVE TypeOK'
  OBVIOUS
<1>1. SenderOK /\ ServerOK /\ ViewerOK /\ up \subseteq Messages /\ down \subseteq Messages
  BY Typed
<1>2. ball' \in Positions /\ changed' \in BOOLEAN
  <2>1. ball \in Positions /\ changed \in BOOLEAN
    BY <1>1 DEF SenderOK
  <2>2. CASE UNCHANGED <<ball, changed>>
    BY <2>1, <2>2
  <2>3. CASE ball < MaxMoves /\ ball' = ball + 1 /\ changed' = TRUE
    <3>1. ball' \in Positions
      BY <2>1, <2>3, RelayAssumption DEF Positions
    <3>2. QED BY <2>3, <3>1
  <2>4. QED BY <2>2, <2>3 DEF Poll
<1>3. posted' \in 0..1
  BY <1>1 DEF Poll, Working, SenderOK
<1>4. late' \in 0..MaxLate
  BY <1>1, RelayAssumption DEF Poll, SenderOK
<1>5. SenderOK'
  BY <1>1, <1>2, <1>3, <1>4 DEF SenderOK, Poll
<1>6. up' \subseteq Messages /\ down' \subseteq Messages
  BY <1>1, AgedMessages DEF Poll
<1>7. record' \in Records
  BY <1>1, OlderType DEF Poll, ServerOK
<1>8. ServerOK'
  BY <1>1, <1>7 DEF ServerOK, Poll
<1>9. ViewerOK'
  BY <1>1, OlderViewer DEF ViewerOK, Poll
<1>10. QED BY <1>5, <1>6, <1>8, <1>9, PolledReliable, TypedNext

(* The steps of the pool keep the types. *)
LEMMA TaskType ==
  ASSUME TypeOK, NEW w \in Workers, Task(w)
  PROVE  TypeOK'
<1>1. /\ SenderOK /\ ServerOK /\ ViewerOK /\ up \subseteq Messages /\ down \subseteq Messages
      /\ reliable \in Seq(Kept)
  BY Typed
<1>2. /\ ball \in Positions /\ 0 \in Positions /\ counter \in Nat /\ posted \in 0..1
      /\ task \in [Workers -> Tasks] /\ task[w] \in Tasks /\ changed \in BOOLEAN
      /\ late \in 0..MaxLate
  BY <1>1, RelayAssumption DEF SenderOK, Positions
<1>3. task[w].pos \in Positions /\ task[w].count \in Nat /\ task[w].forced \in BOOLEAN
  BY <1>2 DEF Tasks
<1>4. Idle \in Tasks
  BY <1>2 DEF Idle, Tasks, Steps
<1>5. UNCHANGED <<server, shown, down, reliable>>
  BY DEF Task, Begin, Choose, Copy, SendState, Clear, Reset, SendStamp
<1>6. ASSUME ball' = ball, changed' \in BOOLEAN, counter' \in Nat, posted' \in 0..1,
             late' = late, up' \subseteq Messages,
             NEW t \in Tasks, task' = [task EXCEPT ![w] = t]
      PROVE  TypeOK'
  <2>1. SenderOK'
    BY <1>2, <1>6 DEF SenderOK
  <2>2. QED BY <1>1, <1>5, <1>6, <2>1, Unchanged, TypedNext
<1>7. CASE Begin(w)
  <2>1. [Idle EXCEPT !.step = "count", !.count = counter] \in Tasks
    BY <1>2, <1>4 DEF Tasks, Steps
  <2>2. posted' \in 0..1
    BY <1>2, <1>7 DEF Begin
  <2>3. QED BY <1>1, <1>2, <1>6, <1>7, <2>1, <2>2 DEF Begin
<1>8. CASE Choose(w)
  <2>1. counter' \in Nat /\ Forced(counter') \in BOOLEAN
    BY <1>3, <1>8 DEF Choose, Counted, Forced
  <2>2. [Idle EXCEPT !.step = IF changed \/ Forced(counter') THEN "copy" ELSE "stamp",
                     !.forced = Forced(counter')] \in Tasks
    BY <1>4, <2>1 DEF Tasks, Steps
  <2>3. QED BY <1>1, <1>2, <1>6, <1>8, <2>1, <2>2 DEF Choose
<1>9. CASE Copy(w)
  <2>1. [task[w] EXCEPT !.step = "send", !.pos = ball] \in Tasks
    BY <1>2 DEF Tasks, Steps
  <2>2. task' = [task EXCEPT ![w] = [task[w] EXCEPT !.step = "send", !.pos = ball]]
    BY <1>2, <1>9 DEF Copy, Tasks
  <2>3. QED BY <1>1, <1>2, <1>6, <1>9, <2>1, <2>2 DEF Copy
<1>10. CASE SendState(w)
  <2>1. [task[w] EXCEPT !.step = "clear", !.pos = 0] \in Tasks
    BY <1>2 DEF Tasks, Steps
  <2>2. task' = [task EXCEPT ![w] = [task[w] EXCEPT !.step = "clear", !.pos = 0]]
    BY <1>2, <1>10 DEF SendState, Tasks
  <2>3. PICK torn \in BOOLEAN : torn = (task[w].pos # ball)
    OBVIOUS
  <2>4. up' \subseteq Messages
    <3>1. State(task[w].pos, 0, torn) \in Messages
      <4>1. 0 \in 0..(MaxAge - 1)
        BY RelayAssumption
      <4>2. QED BY <1>3, <2>3, <4>1, SentMessages, Zenon
    <3>2. up' \in Sent(up, State(task[w].pos, 0, torn))
      <4>1. up' \in Sent(up, State(task[w].pos, 0, task[w].pos # ball))
        BY <1>10, Zenon DEF SendState
      <4>2. QED BY <2>3, <4>1, Zenon
    <3>3. QED BY <1>1, <3>1, <3>2, SentAddsOne
  <2>5. QED BY <1>1, <1>2, <1>6, <1>10, <2>1, <2>2, <2>4 DEF SendState
<1>11. CASE Clear(w)
  <2>1. [Idle EXCEPT !.step = IF task[w].forced THEN "reset" ELSE "idle"] \in Tasks
    BY <1>4 DEF Tasks, Steps
  <2>2. QED BY <1>1, <1>2, <1>6, <1>11, <2>1 DEF Clear
<1>12. CASE Reset(w)
  BY <1>1, <1>2, <1>4, <1>6, <1>12 DEF Reset
<1>13. CASE SendStamp(w)
  <2>1. Stamp(0) \in Messages
    BY SentMessages, RelayAssumption
  <2>2. up' \subseteq Messages
    BY <1>1, <1>13, <2>1, SentAddsOne DEF SendStamp
  <2>3. QED BY <1>1, <1>2, <1>4, <1>6, <1>13, <2>2 DEF SendStamp
<1>14. QED BY <1>7, <1>8, <1>9, <1>10, <1>11, <1>12, <1>13 DEF Task

(* What the steps of the pool leave alone. *)
LEMMA TaskLeaves ==
  ASSUME NEW w \in Workers, Task(w)
  PROVE  UNCHANGED <<ball, late, server, down, reliable, shown>>
BY DEF Task, Begin, Choose, Copy, SendState, Clear, Reset, SendStamp

(* What the server records of a message. *)
LEMMA Recorded ==
  ASSUME TypeOK, NEW m \in up, OnTimedBallState(m) \/ OnTimestamp(m)
  PROVE  /\ UNCHANGED <<sender, ghost_mode, reloads, down, reliable, shown>>
         /\ up' \subseteq up
         /\ due' \subseteq {"state", "timestamp"}
         /\ record' \in Records
         /\ \/ UNCHANGED record
            \/ /\ m.type = "TimedBallState" /\ m.age <= record.age
               /\ record'.pos = m.pos /\ record'.age = m.age /\ record'.torn = m.torn
            \/ /\ m.age <= record.age
               /\ record'.pos = record.pos /\ record'.age = m.age
               /\ record'.torn = record.torn
<1>1. record \in Records /\ due \subseteq {"state", "timestamp"} /\ m \in Messages
  BY Typed DEF ServerOK
<1>2. m.age \in 0..MaxAge
  BY <1>1, MessageFields, RelayAssumption
<1>3. CASE OnTimedBallState(m)
  <2>1. m.pos \in Positions /\ m.torn \in BOOLEAN /\ m.type = "TimedBallState"
    BY <1>1, <1>3, MessageFields DEF OnTimedBallState
  <2>2. [pos |-> m.pos, age |-> m.age, torn |-> m.torn] \in Records
    BY <1>2, <2>1, Fields
  <2>3. PICK r \in Records : r = [pos |-> m.pos, age |-> m.age, torn |-> m.torn]
    BY <2>2
  <2>4. r.pos = m.pos /\ r.age = m.age /\ r.torn = m.torn
    BY <2>3
  <2>5. /\ UNCHANGED <<sender, ghost_mode, reloads, down, reliable, shown>>
        /\ up' \subseteq up
        /\ \/ m.age <= record.age /\ record' = r /\ due' = due \cup {"state"}
           \/ UNCHANGED <<record, due>>
    BY <1>3, <2>3 DEF OnTimedBallState, NotOlder
  <2>6. QED BY <1>1, <2>1, <2>4, <2>5
<1>4. CASE OnTimestamp(m)
  <2>1. PICK r : r = [record EXCEPT !.age = m.age]
    OBVIOUS
  <2>2. r \in Records /\ r.pos = record.pos /\ r.age = m.age /\ r.torn = record.torn
    BY <1>1, <1>2, <2>1 DEF Records
  <2>3. QED BY <1>1, <1>4, <2>1, <2>2 DEF OnTimestamp, NotOlder
<1>5. QED BY <1>3, <1>4

(* What a tick sends, *)
LEMMA Ticked ==
  ASSUME TypeOK, Tick
  PROVE  /\ UNCHANGED <<sender, up, record, ghost_mode, reloads, reliable, shown>>
         /\ due' \subseteq {"state", "timestamp"}
         /\ down' \subseteq Messages
         /\ \/ UNCHANGED down
            \/ /\ ~ghost_mode
               /\ \A m \in down' :
                    \/ m \in down
                    \/ /\ m.age = record.age
                       /\ m.type = "TimedBallState" => m.pos = record.pos /\ m.torn = record.torn
<1>1. record \in Records /\ down \subseteq Messages
  BY Typed DEF ServerOK
<1>2. CASE UNCHANGED down
  BY <1>1, <1>2 DEF Tick
<1>3. CASE /\ ~ghost_mode /\ record.age < MaxAge
           /\ down' \in Sent(down, IF "state" \in due THEN State(record.pos, record.age, record.torn)
                                   ELSE Stamp(record.age))
  <2>1. record.age \in 0..(MaxAge - 1) /\ record.pos \in Positions /\ record.torn \in BOOLEAN
    BY <1>1, <1>3, RecordFields, RelayAssumption
  <2>2. PICK sent : sent = IF "state" \in due THEN State(record.pos, record.age, record.torn)
                           ELSE Stamp(record.age)
    OBVIOUS
  <2>3. /\ sent \in Messages /\ sent.age = record.age
        /\ sent.type = "TimedBallState" => sent.pos = record.pos /\ sent.torn = record.torn
    BY <2>1, <2>2, SentMessages
  <2>4. down' \subseteq down \cup {sent}
    BY <1>3, <2>2, SentAddsOne
  <2>5. QED BY <1>1, <1>3, <2>3, <2>4 DEF Tick
<1>4. QED BY <1>2, <1>3 DEF Tick

(* and what a reload does. *)
LEMMA Reloaded ==
  ASSUME TypeOK, Reload
  PROVE  /\ UNCHANGED <<sender, up, record, due, down, viewer, time_diff>>
         /\ ghost_mode' = ~ghost_mode /\ upset' = FALSE /\ reloads' \in 0..MaxReloads
         /\ reliable' \in Seq(Kept) /\ reliable' # <<>>
         /\ Len(reliable) \in Nat /\ Len(reliable') = Len(reliable) + 1
         /\ \A i \in 1..Len(reliable) : reliable'[i] = reliable[i]
         /\ ghost_mode' => /\ reliable'[Len(reliable')].pos = Hidden
                           /\ reliable'[Len(reliable')].age = record.age - 1
         /\ ~ghost_mode' => reliable'[Len(reliable')] = record
<1>1. record \in Records /\ reliable \in Seq(Kept) /\ reloads \in 0..MaxReloads
  BY Typed DEF ServerOK
<1>2. PICK added : added = IF ghost_mode' THEN Hiding ELSE Shown
  OBVIOUS
<1>3. Hiding \in Kept /\ Hiding.pos = Hidden /\ Hiding.age = record.age - 1
  <2>1. record.age - HideLead \in Ages
    BY <1>1, RecordFields, RelayAssumption DEF HideLead, Ages
  <2>2. QED BY <2>1, Fields DEF Hiding, HideLead
<1>4. Shown \in Kept /\ Shown = record
  BY <1>1, RelayAssumption DEF Records, Kept, Ages, Shown
<1>5. added \in Kept
  BY <1>2, <1>3, <1>4
<1>6. reliable' = Append(reliable, added)
  BY <1>2 DEF Reload
<1>7. /\ reliable' \in Seq(Kept) /\ reliable' # <<>> /\ Len(reliable) \in Nat
      /\ Len(reliable') = Len(reliable) + 1 /\ reliable'[Len(reliable')] = added
      /\ \A i \in 1..Len(reliable) : reliable'[i] = reliable[i]
  BY <1>1, <1>5, <1>6, AppendProperties
<1>8. reloads' \in 0..MaxReloads
  BY <1>1, RelayAssumption DEF Reload
<1>9. QED BY <1>2, <1>3, <1>4, <1>7, <1>8 DEF Reload

(* The steps of the server keep the types. *)
LEMMA ServerType ==
  ASSUME TypeOK,
         Tick \/ Reload \/ \E m \in up : OnTimedBallState(m) \/ OnTimestamp(m)
  PROVE  TypeOK'
<1>1. /\ SenderOK /\ ServerOK /\ ViewerOK /\ up \subseteq Messages /\ down \subseteq Messages
      /\ reliable \in Seq(Kept)
  BY Typed
<1>2. ASSUME NEW m \in up, OnTimedBallState(m) \/ OnTimestamp(m) PROVE TypeOK'
  <2>1. ServerOK'
    BY <1>1, <1>2, Recorded DEF ServerOK
  <2>2. SenderOK' /\ ViewerOK'
    BY <1>1, <1>2, Recorded, Unchanged
  <2>3. QED BY <1>1, <1>2, <2>1, <2>2, Recorded, TypedNext
<1>3. CASE Tick
  <2>1. ServerOK'
    BY <1>1, <1>3, Ticked DEF ServerOK
  <2>2. SenderOK' /\ ViewerOK'
    BY <1>1, <1>3, Ticked, Unchanged
  <2>3. QED BY <1>1, <1>3, <2>1, <2>2, Ticked, TypedNext
<1>4. CASE Reload
  <2>1. ServerOK'
    BY <1>1, <1>4, Reloaded DEF ServerOK
  <2>2. SenderOK' /\ ViewerOK'
    BY <1>1, <1>4, Reloaded, Unchanged DEF ViewerOK
  <2>3. QED BY <1>1, <1>4, <2>1, <2>2, Reloaded, TypedNext
<1>5. QED BY <1>2, <1>3, <1>4

(* An average is a number. *)
LEMMA AverageType ==
  ASSUME time_diff \in Int, NEW age \in Ages, NEW average \in Averages(age)
  PROVE  average \in Int /\ Lag(age, average) \in Int
<1>1. Unit * age \in Int
  BY RelayAssumption DEF Ages
<1>2. average \in Int
  BY <1>1 DEF Averages
<1>3. QED BY <1>1, <1>2 DEF Lag

(* What the viewer makes of a state that is newer once it is recalibrated. *)
LEMMA TakenType ==
  ASSUME time_diff \in Int, NEW m, m.pos \in Positions \cup {Hidden}, m.age \in Ages,
         m.torn \in BOOLEAN, NEW average \in Averages(m.age)
  PROVE  /\ Taken(m, average) \in Viewers
         /\ Taken(m, average).pos = m.pos /\ Taken(m, average).age = m.age
         /\ Taken(m, average).torn = m.torn /\ Taken(m, average).turned = FALSE
<1>1. Lag(m.age, average) \in Int
  BY AverageType
<1>2. QED BY <1>1 DEF Taken, Viewers

LEMMA RestampedType ==
  ASSUME time_diff \in Int, viewer \in Viewers, NEW m, m.age \in Ages,
         NEW average \in Averages(m.age)
  PROVE  /\ Restamped(m, average) \in Viewers
         /\ Restamped(m, average).pos = viewer.pos /\ Restamped(m, average).age = m.age
         /\ Restamped(m, average).torn = viewer.torn
         /\ Restamped(m, average).turned = (viewer.turned \/ m.age > viewer.age)
<1>1. Lag(m.age, average) \in Int /\ viewer.turned \in BOOLEAN
  BY AverageType, ViewerFields
<1>2. (viewer.turned \/ m.age > viewer.age) \in BOOLEAN
  OBVIOUS
<1>3. QED BY <1>1, <1>2 DEF Restamped, Viewers

(* A message that reaches the viewer is refused or taken; until the average    *)
(* turns two stamps round, just those are taken whose stamp is the newer one.  *)
LEMMA BallStatesSeen ==
  ASSUME TypeOK, NEW m \in down, OnBallStates(m)
  PROVE  /\ UNCHANGED <<sender, up, server, reliable>>
         /\ down' \subseteq down
         /\ viewer' \in Viewers /\ time_diff' \in Int /\ upset' \in BOOLEAN
         /\ ~upset' => ~upset
         /\ \/ UNCHANGED viewer /\ (~upset' => ~(m.age < viewer.age))
            \/ /\ viewer'.age = m.age /\ (~upset' => m.age < viewer.age)
               /\ \/ /\ m.type = "TimedBallState" /\ viewer'.pos = m.pos
                     /\ viewer'.torn = m.torn /\ viewer'.turned = FALSE
                  \/ /\ viewer'.pos = viewer.pos /\ viewer'.torn = viewer.torn
                     /\ viewer'.turned = (viewer.turned \/ m.age > viewer.age)
<1>1. /\ time_diff \in Int /\ viewer \in Viewers /\ upset \in BOOLEAN
      /\ m \in Messages /\ m.age \in Ages
      /\ m.type = "TimedBallState" => m.pos \in Positions \cup {Hidden} /\ m.torn \in BOOLEAN
  BY Typed, MessageFields, RelayAssumption DEF ViewerOK, Ages
<1>2. UNCHANGED <<sender, up, server, reliable>> /\ down' \subseteq down
  BY DEF OnBallStates
<1>3. PICK average \in Averages(m.age) :
        /\ Recalibrate(m, average)
        /\ viewer' = IF ~Newer(m, average) THEN viewer
                     ELSE IF m.type = "TimedBallState" THEN Taken(m, average)
                     ELSE Restamped(m, average)
  BY DEF OnBallStates
<1>4. time_diff' = average /\ upset' = (upset \/ Newer(m, average) # (m.age < viewer.age))
  BY <1>3 DEF Recalibrate
<1>5. time_diff' \in Int
  BY <1>1, <1>3, <1>4, AverageType
<1>6. CASE ~Newer(m, average)
  BY <1>1, <1>2, <1>3, <1>4, <1>5, <1>6
<1>7. CASE Newer(m, average) /\ m.type = "TimedBallState"
  <2>1. viewer' = Taken(m, average)
    BY <1>3, <1>7
  <2>2. QED BY <1>1, <1>2, <1>3, <1>4, <1>5, <1>7, <2>1, TakenType
<1>8. CASE Newer(m, average) /\ m.type # "TimedBallState"
  <2>1. viewer' = Restamped(m, average)
    BY <1>3, <1>8
  <2>2. QED BY <1>1, <1>2, <1>3, <1>4, <1>5, <1>8, <2>1, RestampedType
<1>9. QED BY <1>6, <1>7, <1>8

LEMMA ReliableStatesSeen ==
  ASSUME TypeOK, OnReliableStates
  PROVE  /\ UNCHANGED <<sender, up, server, down>>
         /\ reliable # <<>> /\ reliable' \in Seq(Kept)
         /\ Len(reliable) \in Nat \ {0} /\ Len(reliable') = Len(reliable) - 1
         /\ \A i \in 1..Len(reliable') : reliable'[i] = reliable[i + 1]
         /\ reliable[1] \in Kept
         /\ viewer' \in Viewers /\ time_diff' \in Int /\ upset' \in BOOLEAN
         /\ ~upset' => ~upset
         /\ \/ UNCHANGED viewer /\ (~upset' => ~(reliable[1].age < viewer.age))
            \/ /\ viewer'.age = reliable[1].age /\ (~upset' => reliable[1].age < viewer.age)
               /\ viewer'.pos = reliable[1].pos
               /\ viewer'.torn = reliable[1].torn /\ viewer'.turned = FALSE
<1>1. /\ time_diff \in Int /\ viewer \in Viewers /\ upset \in BOOLEAN
      /\ reliable \in Seq(Kept) /\ reliable # <<>> /\ reliable' = Tail(reliable)
  BY Typed DEF ViewerOK, OnReliableStates
<1>2. /\ UNCHANGED <<sender, up, server, down>>
      /\ Len(reliable) \in Nat \ {0} /\ reliable' \in Seq(Kept)
      /\ Len(reliable') = Len(reliable) - 1
      /\ \A i \in 1..Len(reliable') : reliable'[i] = reliable[i + 1]
      /\ Head(reliable) = reliable[1] /\ reliable[1] \in Kept
  <2>1. UNCHANGED <<sender, up, server, down>>
    BY DEF OnReliableStates
  <2>2. QED BY <1>1, <2>1, HeadTailProperties
<1>3. PICK m : m = reliable[1]
  OBVIOUS
<1>4. m.pos \in Positions \cup {Hidden} /\ m.age \in Ages /\ m.torn \in BOOLEAN
  BY <1>2, <1>3, KeptFields
<1>5. CASE upset' = TRUE /\ UNCHANGED <<viewer, time_diff>>
  BY <1>1, <1>2, <1>5
<1>6. CASE \E average \in Averages(m.age) :
             /\ Recalibrate(m, average)
             /\ viewer' = IF Newer(m, average) THEN Taken(m, average) ELSE viewer
  <2>1. PICK average \in Averages(m.age) :
             /\ Recalibrate(m, average)
             /\ viewer' = IF Newer(m, average) THEN Taken(m, average) ELSE viewer
    BY <1>6
  <2>2. time_diff' = average /\ upset' = (upset \/ Newer(m, average) # (m.age < viewer.age))
    BY <2>1 DEF Recalibrate
  <2>3. time_diff' \in Int
    BY <1>1, <1>4, <2>1, <2>2, AverageType
  <2>4. CASE ~Newer(m, average)
    BY <1>1, <1>2, <1>3, <2>1, <2>2, <2>3, <2>4
  <2>5. CASE Newer(m, average)
    <3>1. viewer' = Taken(m, average)
      BY <2>1, <2>5
    <3>2. /\ viewer' \in Viewers /\ viewer'.pos = m.pos /\ viewer'.age = m.age
          /\ viewer'.torn = m.torn /\ viewer'.turned = FALSE
      BY <1>1, <1>4, <2>1, <3>1, TakenType
    <3>3. upset' \in BOOLEAN /\ (~upset' => ~upset /\ m.age < viewer.age)
      BY <1>1, <2>2, <2>5
    <3>4. QED BY <1>2, <1>3, <2>3, <3>2, <3>3
  <2>6. QED BY <2>4, <2>5
<1>7. QED BY <1>2, <1>3, <1>5, <1>6 DEF OnReliableStates

(* The steps of the viewer keep the types. *)
LEMMA ViewerType ==
  ASSUME TypeOK, OnReliableStates \/ \E m \in down : OnBallStates(m)
  PROVE  TypeOK'
<1>1. /\ SenderOK /\ ServerOK /\ up \subseteq Messages /\ down \subseteq Messages
      /\ reliable \in Seq(Kept)
  BY Typed
<1>2. ASSUME NEW m \in down, OnBallStates(m) PROVE TypeOK'
  <2>1. SenderOK' /\ ServerOK'
    BY <1>1, <1>2, BallStatesSeen, Unchanged
  <2>2. ViewerOK'
    BY <1>2, BallStatesSeen DEF ViewerOK
  <2>3. QED BY <1>1, <1>2, <2>1, <2>2, BallStatesSeen, TypedNext
<1>3. CASE OnReliableStates
  <2>1. SenderOK' /\ ServerOK'
    BY <1>1, <1>3, ReliableStatesSeen, Unchanged
  <2>2. ViewerOK'
    BY <1>3, ReliableStatesSeen DEF ViewerOK
  <2>3. QED BY <1>1, <1>3, <2>1, <2>2, ReliableStatesSeen, TypedNext
<1>4. QED BY <1>2, <1>3

LEMMA TypeStep == TypeOK /\ [Next]_vars => TypeOK'
<1>1. ASSUME TypeOK, UNCHANGED vars PROVE TypeOK'
  <2>1. UNCHANGED <<sender, up, server, down, reliable, shown>>
    BY <1>1 DEF vars
  <2>2. QED BY <1>1, <2>1, Unchanged, Typed, TypedNext
<1>2. QED BY <1>1, PollType, TaskType, ServerType, ViewerType DEF Next

(* Every variable of the relay keeps its type, however many threads the pool *)
(* has (local_state_handler_base.h, server.cpp:941-958, game_state.h).        *)
THEOREM TypeCorrect == Spec => []TypeOK
BY TypeInit, TypeStep, PTL DEF Spec

-----------------------------------------------------------------------------
(* Nothing the viewer has or will get shows the ball with a stamp newer than *)
(* the server's.                                                             *)
NoneAhead ==
  /\ \A m \in down : m.age >= record.age
  /\ viewer.pos # Hidden => viewer.age >= record.age
  /\ \A i \in 1..Len(reliable) :
       reliable[i].pos # Hidden => reliable[i].age >= record.age

Last == reliable[Len(reliable)]

(* In ghost mode, while nothing was upset, the message that hides the ball is *)
(* the last reliable one under way, and newer than everything that shows it;  *)
(* once it has arrived, the viewer hides the ball under a stamp that nothing  *)
(* in flight is newer than.                                                   *)
Covered ==
  ghost_mode /\ ~upset =>
    /\ reliable = <<>> =>
         /\ viewer.pos = Hidden
         /\ \A m \in down : m.age >= viewer.age
    /\ reliable # <<>> =>
         /\ Last.pos = Hidden
         /\ \A m \in down : m.age > Last.age
         /\ viewer.pos # Hidden => viewer.age > Last.age
         /\ \A i \in 1..(Len(reliable) - 1) :
              reliable[i].pos # Hidden => reliable[i].age > Last.age

HideInv == NoneAhead /\ Covered

LEMMA HideInit == Init => HideInv
BY RelayAssumption DEF Init, HideInv, NoneAhead, Covered, Hidden

(* What the steps below rely on of the types. *)
LEMMA HideTypes ==
  ASSUME TypeOK
  PROVE  /\ record \in Records /\ record.age \in 0..MaxAge /\ record.pos \in Positions
         /\ viewer.age \in Ages /\ upset \in BOOLEAN
         /\ reliable \in Seq(Kept) /\ Len(reliable) \in Nat
         /\ \A i \in 1..Len(reliable) : reliable[i] \in Kept /\ reliable[i].age \in Ages
         /\ reliable # <<>> => Len(reliable) \in 1..Len(reliable)
         /\ down \subseteq Messages
         /\ \A m \in down : m.age \in 0..(MaxAge - 1)
<1>1. record \in Records /\ record.age \in 0..MaxAge /\ record.pos \in Positions
  BY Typed, RecordFields DEF ServerOK
<1>2. viewer.age \in Ages /\ upset \in BOOLEAN
  BY Typed, ViewerFields DEF ViewerOK
<1>3. reliable \in Seq(Kept) /\ Len(reliable) \in Nat
  BY Typed
<1>4. \A i \in 1..Len(reliable) : reliable[i] \in Kept
  BY <1>3
<1>5. \A i \in 1..Len(reliable) : reliable[i].age \in Ages
  BY <1>4, KeptFields
<1>6. reliable # <<>> => Len(reliable) \in 1..Len(reliable)
  BY <1>3
<1>7. down \subseteq Messages
  BY Typed
<1>8. \A m \in down : m.age \in 0..(MaxAge - 1)
  BY <1>7, MessageFields
<1>9. QED BY <1>1, <1>2, <1>3, <1>4, <1>5, <1>6, <1>7, <1>8

(* A hidden ball has no position the ball can be in. *)
LEMMA HiddenIsNowhere == \A p \in Positions : p # Hidden
BY RelayAssumption DEF Positions, Hidden

(* A poll makes everything one older, and nothing older than the stamps that *)
(* no longer age.                                                            *)
LEMMA PollHides == TypeOK /\ HideInv /\ Poll => HideInv'
<1> SUFFICES ASSUME TypeOK, HideInv, Poll PROVE HideInv'
  OBVIOUS
<1> USE RelayAssumption, HideTypes
<1>1. /\ record'.age = (IF record.age < MaxAge THEN record.age + 1 ELSE record.age)
      /\ viewer'.age = (IF viewer.age < MaxAge THEN viewer.age + 1 ELSE viewer.age)
      /\ viewer'.pos = viewer.pos
  <2>1. record' = Older(record)
    BY DEF Poll
  <2>2. QED BY <2>1, OlderType, OlderViewer, Typed
<1>2. /\ Len(reliable') = Len(reliable)
      /\ reliable' = <<>> <=> reliable = <<>>
      /\ \A i \in 1..Len(reliable) : /\ reliable'[i].pos = reliable[i].pos
                                     /\ reliable'[i].age = reliable[i].age + 1
                                     /\ reliable[i].age + 1 < MaxAge
  BY PolledReliable
<1>3. \A a \in down' : \E m \in down : a.age = m.age + 1
  BY AgedMessages DEF Poll
<1>4. NoneAhead'
  <2>1. \A a \in down' : a.age >= record'.age
    BY <1>1, <1>3 DEF HideInv, NoneAhead
  <2>2. viewer'.pos # Hidden => viewer'.age >= record'.age
    BY <1>1 DEF HideInv, NoneAhead, Ages
  <2>3. \A i \in 1..Len(reliable') :
          reliable'[i].pos # Hidden => reliable'[i].age >= record'.age
    <3>1. \A i \in 1..Len(reliable) :
            reliable[i].pos # Hidden => reliable[i].age >= record.age
      BY DEF HideInv, NoneAhead
    <3>2. /\ record'.age <= record.age + 1 /\ record.age \in Int /\ record'.age \in Int
          /\ \A i \in 1..Len(reliable) : reliable[i].age \in Int
      BY <1>1 DEF Ages
    <3>3. ASSUME NEW i \in 1..Len(reliable), reliable'[i].pos # Hidden
          PROVE  reliable'[i].age >= record'.age
      <4>1. reliable[i].age >= record.age
        BY <1>2, <3>1, <3>3
      <4>2. reliable'[i].age = reliable[i].age + 1 /\ reliable[i].age \in Int
        BY <1>2, <3>2
      <4>3. QED BY <3>2, <4>1, <4>2
    <3>4. QED BY <1>2, <3>3
  <2>4. QED BY <2>1, <2>2, <2>3 DEF NoneAhead
<1>5. Covered'
  <2> SUFFICES ASSUME ghost_mode', ~upset'
               PROVE  /\ reliable' = <<>> =>
                           /\ viewer'.pos = Hidden
                           /\ \A m \in down' : m.age >= viewer'.age
                      /\ reliable' # <<>> =>
                           /\ Last'.pos = Hidden
                           /\ \A m \in down' : m.age > Last'.age
                           /\ viewer'.pos # Hidden => viewer'.age > Last'.age
                           /\ \A i \in 1..(Len(reliable') - 1) :
                                reliable'[i].pos # Hidden => reliable'[i].age > Last'.age
    BY DEF Covered
  <2>1. ghost_mode /\ ~upset
    BY DEF Poll
  <2>2. ASSUME reliable' = <<>>
        PROVE  viewer'.pos = Hidden /\ \A m \in down' : m.age >= viewer'.age
    <3>1. viewer.pos = Hidden /\ \A m \in down : m.age >= viewer.age
      BY <1>2, <2>1, <2>2 DEF HideInv, Covered
    <3>2. QED BY <1>1, <1>3, <3>1 DEF Ages
  <2>3. ASSUME reliable' # <<>>
        PROVE  /\ Last'.pos = Hidden
               /\ \A m \in down' : m.age > Last'.age
               /\ viewer'.pos # Hidden => viewer'.age > Last'.age
               /\ \A i \in 1..(Len(reliable') - 1) :
                    reliable'[i].pos # Hidden => reliable'[i].age > Last'.age
    <3>1. /\ Last.pos = Hidden
          /\ \A m \in down : m.age > Last.age
          /\ viewer.pos # Hidden => viewer.age > Last.age
          /\ \A i \in 1..(Len(reliable) - 1) :
               reliable[i].pos # Hidden => reliable[i].age > Last.age
      BY <1>2, <2>1, <2>3 DEF HideInv, Covered
    <3>2. Len(reliable) \in 1..Len(reliable)
      BY <1>2, <2>3
    <3>3. Last'.pos = Hidden /\ Last'.age = Last.age + 1 /\ Last.age + 1 < MaxAge /\ Last.age \in Ages
      BY <1>2, <3>1, <3>2 DEF Last
    <3>4. \A m \in down' : m.age > Last'.age
      BY <1>3, <3>1, <3>3 DEF Ages
    <3>5. viewer'.pos # Hidden => viewer'.age > Last'.age
      BY <1>1, <3>1, <3>3 DEF Ages
    <3>6. \A i \in 1..(Len(reliable') - 1) :
            reliable'[i].pos # Hidden => reliable'[i].age > Last'.age
      <4>1. \A i \in 1..(Len(reliable') - 1) : i \in 1..Len(reliable) /\ i \in 1..(Len(reliable) - 1)
        BY <1>2
      <4>2. \A i \in 1..(Len(reliable') - 1) :
              reliable[i].pos # Hidden => reliable[i].age > Last.age
        BY <1>2, <3>1
      <4>3. \A i \in 1..(Len(reliable') - 1) :
              /\ reliable'[i].pos = reliable[i].pos
              /\ reliable'[i].age = reliable[i].age + 1
              /\ reliable[i].age \in Ages
        BY <1>2, <4>1
      <4>4. Last'.age = Last.age + 1 /\ Last.age \in Ages
        BY <3>3
      <4>5. ASSUME NEW i \in 1..(Len(reliable') - 1), reliable'[i].pos # Hidden
            PROVE  reliable'[i].age > Last'.age
        <5>1. reliable[i].age > Last.age
          BY <4>2, <4>3, <4>5
        <5>2. \A a, b \in Ages : a > b => a + 1 > b + 1
          BY DEF Ages
        <5>3. QED BY <4>3, <4>4, <5>1, <5>2
      <4>6. QED BY <4>5
    <3>7. QED BY <3>3, <3>4, <3>5, <3>6
  <2>4. QED BY <2>2, <2>3
<1>6. QED BY <1>4, <1>5 DEF HideInv

(* The server's stamp only becomes newer; what it sends carries that stamp,   *)
(* and the message that hides the ball one that is newer still.               *)
LEMMA ServerHides ==
  ASSUME TypeOK, HideInv,
         Tick \/ Reload \/ \E m \in up : OnTimedBallState(m) \/ OnTimestamp(m)
  PROVE  HideInv'
<1> USE RelayAssumption, HideTypes
<1>1. ASSUME NEW m \in up, OnTimedBallState(m) \/ OnTimestamp(m) PROVE HideInv'
  <2>1. m.age \in 0..(MaxAge - 1)
    BY MessageFields, Typed
  <2>2. record'.age <= record.age /\ record'.age \in Int
    BY <1>1, <2>1, Recorded
  <2>3. UNCHANGED <<ghost_mode, down, reliable, viewer, upset>>
    BY <1>1, Recorded DEF shown
  <2>4. NoneAhead'
    BY <2>2, <2>3 DEF HideInv, NoneAhead, Ages
  <2>5. Covered'
    BY <2>3 DEF HideInv, Covered, Last
  <2>6. QED BY <2>4, <2>5 DEF HideInv
<1>2. CASE Tick
  <2>1. UNCHANGED <<record, ghost_mode, reliable, viewer, upset>>
    BY <1>2, Ticked DEF shown
  <2>2. CASE UNCHANGED down
    BY <2>1, <2>2 DEF HideInv, NoneAhead, Covered, Last
  <2>3. CASE ~ghost_mode /\ \A m \in down' : m \in down \/ m.age = record.age
    <3>1. NoneAhead'
      BY <2>1, <2>3 DEF HideInv, NoneAhead
    <3>2. Covered'
      BY <2>1, <2>3 DEF Covered
    <3>3. QED BY <3>1, <3>2 DEF HideInv
  <2>4. QED BY <1>2, <2>2, <2>3, Ticked
<1>3. CASE Reload
  <2>1. UNCHANGED <<record, down, viewer>> /\ Last' = reliable'[Len(reliable')]
    BY <1>3, Reloaded DEF Last
  <2>2. /\ Len(reliable') = Len(reliable) + 1 /\ reliable' # <<>>
        /\ \A i \in 1..Len(reliable) : reliable'[i] = reliable[i]
    BY <1>3, Reloaded
  <2>3. /\ ghost_mode' => Last'.pos = Hidden /\ Last'.age = record.age - 1
        /\ ~ghost_mode' => Last' = record
    BY <1>3, <2>1, Reloaded
  <2>4. NoneAhead'
    <3>1. \A i \in 1..Len(reliable') : i \in 1..Len(reliable) \/ i = Len(reliable')
      BY <2>2
    <3>2. Last'.pos # Hidden => Last'.age >= record.age
      BY <2>3
    <3>3. \A i \in 1..Len(reliable') :
            reliable'[i].pos # Hidden => reliable'[i].age >= record.age
      BY <2>1, <2>2, <3>1, <3>2 DEF HideInv, NoneAhead
    <3>4. QED BY <2>1, <3>3 DEF HideInv, NoneAhead
  <2>5. Covered'
    <3>1. CASE ~ghost_mode'
      BY <3>1 DEF Covered
    <3>2. CASE ghost_mode'
      <4>1. \A m \in down' : m.age > Last'.age
        BY <2>1, <2>3, <3>2 DEF HideInv, NoneAhead
      <4>2. viewer'.pos # Hidden => viewer'.age > Last'.age
        BY <2>1, <2>3, <3>2 DEF HideInv, NoneAhead, Ages
      <4>3. \A i \in 1..(Len(reliable') - 1) :
              reliable'[i].pos # Hidden => reliable'[i].age > Last'.age
        BY <2>2, <2>3, <3>2 DEF HideInv, NoneAhead, Ages
      <4>4. QED BY <2>2, <2>3, <3>2, <4>1, <4>2, <4>3 DEF Covered
    <3>3. QED BY <3>1, <3>2
  <2>6. QED BY <2>4, <2>5 DEF HideInv
<1>4. QED BY <1>1, <1>2, <1>3

(* A ball state that arrives shows the ball with the stamp it carries. *)
LEMMA BallStatesHide ==
  ASSUME TypeOK, HideInv, NEW m \in down, OnBallStates(m)
  PROVE  HideInv'
<1> USE RelayAssumption, HideTypes
<1>1. /\ UNCHANGED <<record, ghost_mode, reliable>> /\ down' \subseteq down
      /\ ~upset' => ~upset
  BY BallStatesSeen DEF server
<1>2. \/ UNCHANGED viewer
      \/ viewer'.age = m.age /\ (~upset' => m.age < viewer.age)
  BY BallStatesSeen
<1>3. m.age >= record.age
  BY DEF HideInv, NoneAhead
<1>4. NoneAhead'
  <2>1. viewer'.pos # Hidden => viewer'.age >= record'.age
    BY <1>1, <1>2, <1>3 DEF HideInv, NoneAhead
  <2>2. QED BY <1>1, <2>1 DEF HideInv, NoneAhead
<1>5. Covered'
  <2>1. CASE ~(ghost_mode' /\ ~upset')
    BY <2>1 DEF Covered
  <2>2. CASE ghost_mode /\ ~upset' /\ reliable = <<>>
    <3>1. viewer.pos = Hidden /\ \A x \in down : x.age >= viewer.age
      BY <1>1, <2>2 DEF HideInv, Covered
    <3>2. UNCHANGED viewer
      BY <1>2, <2>2, <3>1 DEF Ages
    <3>3. QED BY <1>1, <2>2, <3>1, <3>2 DEF Covered
  <2>3. CASE ghost_mode /\ ~upset' /\ reliable # <<>>
    <3>1. /\ Last.pos = Hidden
          /\ \A x \in down : x.age > Last.age
          /\ viewer.pos # Hidden => viewer.age > Last.age
          /\ \A i \in 1..(Len(reliable) - 1) :
               reliable[i].pos # Hidden => reliable[i].age > Last.age
      BY <1>1, <2>3 DEF HideInv, Covered
    <3>2. viewer'.pos # Hidden => viewer'.age > Last.age
      BY <1>2, <3>1
    <3>3. Last' = Last
      BY <1>1 DEF Last
    <3>4. QED BY <1>1, <2>3, <3>1, <3>2, <3>3 DEF Covered
  <2>4. QED BY <1>1, <2>1, <2>2, <2>3
<1>6. QED BY <1>4, <1>5 DEF HideInv

(* A reliable state that is not dropped. *)
LEMMA ReliableStatesHide == TypeOK /\ HideInv /\ OnReliableStates => HideInv'
<1> SUFFICES ASSUME TypeOK, HideInv, OnReliableStates PROVE HideInv'
  OBVIOUS
<1> USE RelayAssumption, HideTypes
<1> DEFINE first == reliable[1]
<1>1. /\ UNCHANGED <<record, ghost_mode, down>>
      /\ reliable # <<>>
      /\ Len(reliable) \in Nat \ {0}
      /\ Len(reliable') = Len(reliable) - 1
      /\ reliable' \in Seq(Kept)
      /\ \A i \in 1..Len(reliable') : reliable'[i] = reliable[i + 1]
      /\ first \in Kept
  BY ReliableStatesSeen DEF server
<1>2. \/ UNCHANGED viewer
      \/ viewer'.pos = first.pos /\ viewer'.age = first.age
  BY ReliableStatesSeen
<1>3. /\ ~upset' => ~upset
      /\ \/ UNCHANGED viewer /\ (~upset' => ~(first.age < viewer.age))
         \/ /\ viewer'.pos = first.pos /\ viewer'.age = first.age
            /\ ~upset' => first.age < viewer.age
      /\ first.age \in Ages
  BY <1>1, ReliableStatesSeen, KeptFields
<1>4. NoneAhead'
  <2>1. first.pos # Hidden => first.age >= record.age
    BY <1>1 DEF HideInv, NoneAhead
  <2>2. viewer'.pos # Hidden => viewer'.age >= record'.age
    BY <1>1, <1>2, <2>1 DEF HideInv, NoneAhead
  <2>3. \A i \in 1..Len(reliable') : i + 1 \in 1..Len(reliable)
    BY <1>1
  <2>4. \A i \in 1..Len(reliable') :
          reliable'[i].pos # Hidden => reliable'[i].age >= record'.age
    BY <1>1, <2>3 DEF HideInv, NoneAhead
  <2>5. QED BY <1>1, <2>2, <2>4 DEF HideInv, NoneAhead
<1>5. Covered'
  <2>1. CASE ~(ghost_mode' /\ ~upset')
    BY <2>1 DEF Covered
  <2>2. CASE ghost_mode' /\ ~upset'
    <3>1. /\ Last.pos = Hidden
          /\ \A x \in down : x.age > Last.age
          /\ viewer.pos # Hidden => viewer.age > Last.age
          /\ \A i \in 1..(Len(reliable) - 1) :
               reliable[i].pos # Hidden => reliable[i].age > Last.age
      BY <1>1, <1>3, <2>2 DEF HideInv, Covered
    <3>2. Last.age \in Ages
      BY <1>1 DEF Last
    <3>3. CASE Len(reliable) = 1
      <4>1. reliable' = <<>> /\ Last = first
        BY <1>1, <3>3, EmptySeq DEF Last
      <4>2. viewer'.pos = Hidden /\ viewer'.age <= Last.age
        <5>1. CASE first.age < viewer.age
          BY <1>3, <2>2, <3>1, <3>2, <4>1, <5>1 DEF Ages
        <5>2. CASE ~(first.age < viewer.age)
          BY <1>1, <1>3, <2>2, <3>1, <4>1, <5>2 DEF Ages
        <5>3. QED BY <5>1, <5>2
      <4>3. viewer'.age \in Ages
        BY <1>2, <1>3
      <4>4. \A x \in down' : x.age >= viewer'.age
        BY <1>1, <3>1, <3>2, <4>2, <4>3 DEF Ages
      <4>5. QED BY <4>1, <4>2, <4>4 DEF Covered
    <3>4. CASE Len(reliable) # 1
      <4>1. Len(reliable') \in Nat \ {0} /\ reliable' # <<>> /\ 1 \in 1..(Len(reliable) - 1)
        <5>1. Len(reliable') \in Nat \ {0} /\ 1 \in 1..(Len(reliable) - 1)
          BY <1>1, <3>4
        <5>2. reliable' # <<>>
          BY <5>1, EmptySeq
        <5>3. QED BY <5>1, <5>2
      <4>2. Last' = Last
        BY <1>1, <4>1 DEF Last
      <4>3. viewer'.pos # Hidden => viewer'.age > Last.age
        BY <1>2, <3>1, <4>1
      <4>4. \A i \in 1..(Len(reliable') - 1) :
              reliable'[i].pos # Hidden => reliable'[i].age > Last.age
        <5>1. \A i \in 1..(Len(reliable') - 1) :
                i + 1 \in 1..(Len(reliable) - 1) /\ i \in 1..Len(reliable')
          BY <1>1
        <5>2. QED BY <1>1, <3>1, <5>1
      <4>5. QED BY <1>1, <3>1, <4>1, <4>2, <4>3, <4>4 DEF Covered
    <3>5. QED BY <3>3, <3>4
  <2>3. QED BY <2>1, <2>2
<1>6. QED BY <1>4, <1>5 DEF HideInv

LEMMA HideStep == TypeOK /\ HideInv /\ [Next]_vars => HideInv'
<1> SUFFICES ASSUME TypeOK, HideInv, [Next]_vars PROVE HideInv'
  OBVIOUS
<1>1. ASSUME UNCHANGED <<server, down, reliable, shown>> PROVE HideInv'
  BY <1>1 DEF HideInv, NoneAhead, Covered, Last, server, shown
<1>2. CASE \E w \in Workers : Task(w)
  BY <1>1, <1>2, TaskLeaves
<1>3. CASE UNCHANGED vars
  BY <1>1, <1>3 DEF vars
<1>4. QED BY <1>2, <1>3, PollHides, ServerHides, BallStatesHide, ReliableStatesHide DEF Next

(* In ghost mode no ball shows on the viewer's screen once the message that  *)
(* hides it has arrived, whatever was still in flight when it was sent        *)
(* (server.cpp:218-232): the stamp it carries is ahead of every state sent    *)
(* before.  So it is unless since the reload the viewer has dropped a         *)
(* reliable state or its average of the delays, weighted in any way, has      *)
(* turned two stamps round (game_state.h:128-150).                            *)
THEOREM HiddenStaysHidden == Spec => []HideWins
<1>1. Init /\ []TypeOK /\ [][Next]_vars => []HideInv
  BY HideInit, HideStep, PTL
<1>2. HideInv => HideWins
  BY DEF HideInv, Covered, HideWins
<1>3. QED BY <1>1, <1>2, TypeCorrect, PTL DEF Spec

-----------------------------------------------------------------------------
(* On the way to the server: a state that was not torn carries the newest *)
(* position there was, and one sent later none before it.                 *)
States(channel) == {m \in channel : m.type = "TimedBallState"}

InOrder ==
  /\ \A w \in Workers : task[w].step = "send" => task[w].pos <= ball
  /\ \A m \in States(up) : m.pos <= ball /\ (~m.torn /\ m.age = 0 => m.pos = ball)
  /\ \A m, n \in States(up) : ~m.torn /\ m.age <= n.age => m.pos >= n.pos

(* The ball has come as far as p in every place from which a state that was *)
(* not torn can still reach the server's record.                            *)
Reached(p) ==
  /\ p <= ball
  /\ ~record.torn => p <= record.pos
  /\ \A m \in States(up) : ~m.torn /\ m.age <= record.age => p <= m.pos

(* What is on its way from the server to the viewer, reliably or not. *)
ByState(x) == \E m \in States(down) : x.pos = m.pos /\ x.age = m.age /\ x.torn = m.torn
ByReliable(x) == \E i \in 1..Len(reliable) : x = reliable[i]
Balls == {x \in Kept : x.pos # Hidden /\ (ByState(x) \/ ByReliable(x))}

(* Of these, one that was not torn and has the newer stamp shows the ball no *)
(* further back; so it is against what the viewer shows, unless that was     *)
(* given an older stamp than it had.                                         *)
ShownInOrder ==
  /\ Reached(record.pos) /\ Reached(viewer.pos)
  /\ \A x \in Balls : Reached(x.pos)
  /\ \A x \in Balls : ~x.torn /\ ~viewer.turned /\ x.age < viewer.age => x.pos >= viewer.pos
  /\ \A x, y \in Balls : ~x.torn /\ x.age < y.age => x.pos >= y.pos

StepInv == InOrder /\ ShownInOrder

(* What a state under way holds. *)
LEMMA StatesTyped ==
  ASSUME NEW channel, channel \subseteq Messages
  PROVE  \A m \in States(channel) : /\ m.pos \in Positions /\ m.age \in 0..(MaxAge - 1)
                                    /\ m.torn \in BOOLEAN
BY MessageFields DEF States

(* Positions can be compared; a hidden ball is behind all of them. *)
LEMMA PlacesAreNumbers ==
  /\ Positions \subseteq Int /\ Hidden \in Int /\ Ages \subseteq Int
  /\ \A p \in Positions : Hidden < p
  /\ 0 \in Positions
BY RelayAssumption DEF Positions, Hidden, Ages

(* What the steps below rely on of the types. *)
LEMMA StepTypes ==
  ASSUME TypeOK
  PROVE  /\ ball \in Positions /\ ball \in Int
         /\ \A w \in Workers : task[w].pos \in Int
         /\ record.pos \in Positions /\ record.pos \in Int
         /\ record.age \in 0..MaxAge /\ record.age \in Int /\ record.torn \in BOOLEAN
         /\ viewer.pos \in Positions \cup {Hidden} /\ viewer.pos \in Int
         /\ viewer.age \in Ages /\ viewer.age \in Int
         /\ viewer.torn \in BOOLEAN /\ viewer.turned \in BOOLEAN
         /\ \A m \in States(up) : m.pos \in Positions /\ m.pos \in Int /\ m.age \in Nat
         /\ \A m \in States(down) : m.pos \in Positions /\ m.pos \in Int /\ m.age \in Nat
         /\ \A x \in Balls : x.pos \in Positions /\ x.pos \in Int /\ x.age \in Int
<1>1. ball \in Positions /\ ball \in Int
  BY Typed, PlacesAreNumbers DEF SenderOK
<1>2. ASSUME NEW w \in Workers PROVE task[w].pos \in Int
  <2>1. task[w] \in Tasks
    BY Typed DEF SenderOK
  <2>2. QED BY <2>1, PlacesAreNumbers DEF Tasks
<1>3. record.pos \in Positions /\ record.age \in 0..MaxAge /\ record.torn \in BOOLEAN
  BY Typed, RecordFields DEF ServerOK
<1>4. /\ viewer.pos \in Positions \cup {Hidden} /\ viewer.age \in Ages
      /\ viewer.torn \in BOOLEAN /\ viewer.turned \in BOOLEAN
  BY Typed, ViewerFields DEF ViewerOK
<1>5. \A m \in States(up) : m.pos \in Positions /\ m.age \in 0..(MaxAge - 1)
  BY Typed, StatesTyped
<1>6. \A m \in States(down) : m.pos \in Positions /\ m.age \in 0..(MaxAge - 1)
  BY Typed, StatesTyped
<1>7. \A x \in Balls : x.pos \in Positions /\ x.age \in Ages
  BY KeptFields DEF Balls
<1>8. record.pos \in Int /\ viewer.age \in Int /\ viewer.pos \in Int
  BY <1>3, <1>4, PlacesAreNumbers
<1>9. record.age \in Int
  BY <1>3
<1>10. \A a \in 0..(MaxAge - 1) : a \in Nat
  OBVIOUS
<1>11. /\ \A x \in Balls : x.pos \in Int /\ x.age \in Int
       /\ \A m \in States(up) : m.pos \in Int /\ m.age \in Nat
       /\ \A m \in States(down) : m.pos \in Int /\ m.age \in Nat
  BY <1>5, <1>6, <1>7, <1>10, PlacesAreNumbers, Zenon
<1>12. QED BY <1>1, <1>2, <1>3, <1>4, <1>5, <1>6, <1>7, <1>8, <1>9, <1>11, Zenon

(* Nothing is under way at first. *)
LEMMA StepInit == Init => StepInv
<1> SUFFICES ASSUME Init PROVE StepInv
  OBVIOUS
<1>1. States(up) = {} /\ States(down) = {}
  BY DEF Init, States
<1>2. Balls = {}
  <2>1. Len(reliable) = 0
    BY DEF Init
  <2>2. QED BY <1>1, <2>1 DEF Balls, ByState, ByReliable
<1>3. ball = 0 /\ record.pos = 0 /\ viewer.pos = 0
  BY DEF Init
<1>4. \A w \in Workers : task[w].step # "send"
  <2>1. task = [w \in Workers |-> Idle]
    BY DEF Init
  <2>2. QED BY <2>1 DEF Idle
<1>5. InOrder
  BY <1>1, <1>4 DEF InOrder
<1>6. ShownInOrder
  BY <1>1, <1>2, <1>3 DEF ShownInOrder, Reached
<1>7. QED BY <1>5, <1>6 DEF StepInv

(* Ages do not turn, however old. *)
LEMMA OlderInOrder ==
  ASSUME NEW a \in Int, NEW b \in Int, NEW c \in Int, a < MaxAge - 1,
         c = IF b < MaxAge THEN b + 1 ELSE b
  PROVE  /\ a + 1 <= c => a <= b
         /\ a + 1 < c => a < b
BY RelayAssumption

(* What the viewer will get after a poll it would have got before. *)
LEMMA PolledBalls ==
  ASSUME TypeOK, Poll
  PROVE  \A x \in Balls' : \E y \in Balls : /\ x.pos = y.pos /\ x.age = y.age + 1
                                            /\ x.torn = y.torn /\ y.age < MaxAge - 1
<1> SUFFICES ASSUME NEW x \in Balls'
             PROVE  \E y \in Balls : /\ x.pos = y.pos /\ x.age = y.age + 1
                                     /\ x.torn = y.torn /\ y.age < MaxAge - 1
  OBVIOUS
<1>1. x \in Kept /\ x.pos # Hidden /\ (ByState(x)' \/ ByReliable(x)')
  BY DEF Balls
<1>2. CASE ByState(x)'
  <2>1. PICK a \in down' : /\ a.type = "TimedBallState" /\ x.pos = a.pos /\ x.age = a.age
                           /\ x.torn = a.torn
    BY <1>2 DEF ByState, States
  <2>2. a \in Aged(down) /\ down \subseteq Messages
    BY <2>1, Typed DEF Poll
  <2>3. PICK m \in down : /\ m.age + 1 < MaxAge /\ a.age = m.age + 1 /\ a.type = m.type
                          /\ m.type = "TimedBallState" => a.pos = m.pos /\ a.torn = m.torn
    BY <2>2, AgedMessages
  <2>4. m \in States(down) /\ a.pos = m.pos /\ a.torn = m.torn
    BY <2>1, <2>3 DEF States
  <2>5. m.pos \in Positions /\ m.age \in 0..(MaxAge - 1) /\ m.torn \in BOOLEAN
    BY <2>2, <2>4, StatesTyped
  <2>6. PICK y : y = [pos |-> m.pos, age |-> m.age, torn |-> m.torn]
    OBVIOUS
  <2>7. m.age \in Ages /\ m.pos # Hidden
    BY <2>5, HiddenIsNowhere, RelayAssumption DEF Ages
  <2>8. y \in Kept /\ y.pos = m.pos /\ y.age = m.age /\ y.torn = m.torn
    BY <2>5, <2>6, <2>7, Fields
  <2>9. y \in Balls
    BY <2>4, <2>7, <2>8 DEF Balls, ByState
  <2>10. m.age < MaxAge - 1
    BY <2>3, <2>5, RelayAssumption
  <2>11. QED BY <2>1, <2>3, <2>4, <2>8, <2>9, <2>10
<1>3. CASE ByReliable(x)'
  <2>1. PICK i \in 1..Len(reliable') : x = reliable'[i]
    BY <1>3 DEF ByReliable
  <2>2. i \in 1..Len(reliable)
    BY <2>1, PolledReliable
  <2>3. /\ reliable[i] \in Kept /\ x.pos = reliable[i].pos /\ x.torn = reliable[i].torn
        /\ x.age = reliable[i].age + 1 /\ reliable[i].age + 1 < MaxAge
    BY <2>1, <2>2, PolledReliable
  <2>4. reliable[i] \in Balls
    BY <1>1, <2>2, <2>3 DEF Balls, ByReliable
  <2>5. reliable[i].age < MaxAge - 1
    BY <2>3, <2>4, StepTypes, RelayAssumption
  <2>6. QED BY <2>3, <2>4, <2>5
<1>4. QED BY <1>1, <1>2, <1>3

(* What the server will get after a poll it would have got before. *)
LEMMA PolledStates ==
  ASSUME TypeOK, Poll
  PROVE  \A a \in States(up)' : \E m \in States(up) : /\ a.pos = m.pos /\ a.age = m.age + 1
                                                      /\ a.torn = m.torn /\ m.age < MaxAge - 1
<1> SUFFICES ASSUME NEW a \in States(up)'
             PROVE  \E m \in States(up) : /\ a.pos = m.pos /\ a.age = m.age + 1
                                          /\ a.torn = m.torn /\ m.age < MaxAge - 1
  OBVIOUS
<1>1. a \in Aged(up) /\ a.type = "TimedBallState" /\ up \subseteq Messages
  BY Typed DEF Poll, States
<1>2. PICK m \in up : /\ m.age + 1 < MaxAge /\ a.age = m.age + 1 /\ a.type = m.type
                      /\ m.type = "TimedBallState" => a.pos = m.pos /\ a.torn = m.torn
  BY <1>1, AgedMessages
<1>3. m \in States(up) /\ a.pos = m.pos /\ a.torn = m.torn
  BY <1>1, <1>2 DEF States
<1>4. m.age < MaxAge - 1
  BY <1>2, <1>3, StepTypes, RelayAssumption
<1>5. QED BY <1>2, <1>3, <1>4

(* How far the ball has come, as a poll leaves it. *)
LEMMA PolledReached ==
  ASSUME TypeOK, Poll
  PROVE  /\ ball' \in Int /\ ball <= ball'
         /\ record'.pos = record.pos /\ record'.torn = record.torn
         /\ record'.age = (IF record.age < MaxAge THEN record.age + 1 ELSE record.age)
         /\ \A p \in Int : Reached(p) => Reached(p)'
<1>1. ball' \in Int /\ ball <= ball'
  BY StepTypes DEF Poll
<1>2. /\ record'.pos = record.pos /\ record'.torn = record.torn
      /\ record'.age = (IF record.age < MaxAge THEN record.age + 1 ELSE record.age)
  BY OlderType, Typed DEF Poll, ServerOK
<1>3. ASSUME NEW p \in Int, Reached(p) PROVE Reached(p)'
  <2>1. p <= ball' /\ (~record'.torn => p <= record'.pos)
    BY <1>1, <1>2, <1>3, StepTypes DEF Reached
  <2>2. ASSUME NEW a \in States(up)', ~a.torn, a.age <= record'.age
        PROVE  p <= a.pos
    <3>1. PICK m \in States(up) : /\ a.pos = m.pos /\ a.age = m.age + 1
                                  /\ a.torn = m.torn /\ m.age < MaxAge - 1
      BY PolledStates
    <3>2. m.age \in Int /\ record.age \in Int /\ record'.age \in Int
      BY <1>2, StepTypes, RelayAssumption
    <3>3. m.age <= record.age
      BY <1>2, <2>2, <3>1, <3>2, OlderInOrder
    <3>4. QED BY <1>3, <2>2, <3>1, <3>3 DEF Reached
  <2>3. QED BY <2>1, <2>2 DEF Reached
<1>4. QED BY <1>1, <1>2, <1>3

(* A poll takes nothing back. *)
LEMMA PollInOrder == TypeOK /\ StepInv /\ Poll => StepInv'
<1> SUFFICES ASSUME TypeOK, StepInv, Poll PROVE StepInv'
  OBVIOUS
<1>1. InOrder /\ ShownInOrder
  BY DEF StepInv
<1>2. /\ viewer'.pos = viewer.pos /\ viewer'.turned = viewer.turned
      /\ viewer'.age = (IF viewer.age < MaxAge THEN viewer.age + 1 ELSE viewer.age)
  BY OlderViewer, Typed
<1>3. InOrder'
  <2>1. ASSUME NEW w \in Workers, task'[w].step = "send" PROVE task'[w].pos <= ball'
    <3>1. task'[w] = task[w]
      BY DEF Poll
    <3>2. task[w].pos <= ball
      BY <1>1, <2>1, <3>1 DEF InOrder
    <3>3. QED BY <3>1, <3>2, PolledReached, StepTypes
  <2>2. ASSUME NEW a \in States(up)'
        PROVE  a.pos <= ball' /\ a.age # 0
    <3>1. PICK m \in States(up) : a.pos = m.pos /\ a.age = m.age + 1
      BY PolledStates
    <3>2. m.pos <= ball /\ m.age \in Nat /\ m.pos \in Int
      BY <1>1, StepTypes DEF InOrder
    <3>3. QED BY <3>1, <3>2, PolledReached, StepTypes
  <2>3. ASSUME NEW a \in States(up)', NEW b \in States(up)', ~a.torn, a.age <= b.age
        PROVE  a.pos >= b.pos
    <3>1. PICK m \in States(up) : a.pos = m.pos /\ a.age = m.age + 1 /\ a.torn = m.torn
      BY PolledStates
    <3>2. PICK n \in States(up) : b.pos = n.pos /\ b.age = n.age + 1
      BY PolledStates
    <3>3. m.age \in Nat /\ n.age \in Nat
      BY StepTypes
    <3>4. m.age <= n.age /\ ~m.torn
      BY <2>3, <3>1, <3>2, <3>3
    <3>5. m.pos >= n.pos
      BY <1>1, <3>4 DEF InOrder
    <3>6. QED BY <3>1, <3>2, <3>5
  <2>4. QED BY <2>1, <2>2, <2>3 DEF InOrder
<1>4. ShownInOrder'
  <2>1. Reached(record.pos)' /\ Reached(viewer.pos)'
    <3>1. Reached(record.pos) /\ Reached(viewer.pos)
      BY <1>1 DEF ShownInOrder
    <3>2. PICK p, q : p = record.pos /\ q = viewer.pos
      OBVIOUS
    <3>3. Reached(p)' /\ Reached(q)'
      BY <3>1, <3>2, PolledReached, StepTypes
    <3>4. p = record'.pos /\ q = viewer'.pos
      BY <1>2, <3>2, PolledReached
    <3>5. QED BY <3>3, <3>4 DEF Reached
  <2>2. ASSUME NEW x \in Balls'
        PROVE  /\ Reached(x.pos)'
               /\ ~x.torn /\ ~viewer'.turned /\ x.age < viewer'.age => x.pos >= viewer'.pos
    <3>1. PICK y \in Balls : /\ x.pos = y.pos /\ x.age = y.age + 1
                             /\ x.torn = y.torn /\ y.age < MaxAge - 1
      BY PolledBalls
    <3>2. /\ Reached(y.pos)
          /\ ~y.torn /\ ~viewer.turned /\ y.age < viewer.age => y.pos >= viewer.pos
      BY <1>1 DEF ShownInOrder
    <3>3. y.age \in Int /\ y.pos \in Int /\ viewer.age \in Int /\ viewer'.age \in Int
      BY <1>2, StepTypes, RelayAssumption
    <3>4. Reached(x.pos)'
      BY <3>1, <3>2, <3>3, PolledReached
    <3>5. x.age < viewer'.age => y.age < viewer.age
      BY <1>2, <3>1, <3>3, OlderInOrder
    <3>6. QED BY <1>2, <3>1, <3>2, <3>4, <3>5
  <2>3. ASSUME NEW x \in Balls', NEW y \in Balls', ~x.torn, x.age < y.age
        PROVE  x.pos >= y.pos
    <3>1. PICK u \in Balls : x.pos = u.pos /\ x.age = u.age + 1 /\ x.torn = u.torn
      BY PolledBalls
    <3>2. PICK v \in Balls : y.pos = v.pos /\ y.age = v.age + 1
      BY PolledBalls
    <3>3. u.age \in Int /\ v.age \in Int
      BY StepTypes
    <3>4. u.age < v.age /\ ~u.torn
      BY <2>3, <3>1, <3>2, <3>3
    <3>5. u.pos >= v.pos
      BY <1>1, <3>4 DEF ShownInOrder
    <3>6. QED BY <3>1, <3>2, <3>5
  <2>4. QED BY <2>1, <2>2, <2>3 DEF ShownInOrder
<1>5. QED BY <1>3, <1>4 DEF StepInv

(* What the viewer will get depends on the two channels only. *)
LEMMA BallsSame ==
  ASSUME UNCHANGED <<down, reliable>>
  PROVE  Balls' = Balls
BY DEF Balls, ByState, ByReliable, States

(* What a step may do to the ball, the record and the channel to the server *)
(* without undoing how far the ball has come.                               *)
LEMMA ShownKept ==
  ASSUME ShownInOrder, UNCHANGED viewer, Balls' \subseteq Balls, Reached(record.pos)',
         \A p \in Int : Reached(p) => Reached(p)',
         viewer.pos \in Int, \A x \in Balls : x.pos \in Int
  PROVE  ShownInOrder'
<1>1. Reached(viewer.pos)'
  <2>1. PICK p \in Int : p = viewer.pos
    OBVIOUS
  <2>2. Reached(p)'
    BY <2>1 DEF ShownInOrder
  <2>3. QED BY <2>1, <2>2 DEF Reached
<1>2. \A x \in Balls' : Reached(x.pos)'
  BY DEF ShownInOrder
<1>3. QED BY <1>1, <1>2 DEF ShownInOrder

(* The pool sends no position the ball has not reached, and the newest under *)
(* the newest stamp unless the state is torn.                                *)
LEMMA TaskInOrder ==
  ASSUME TypeOK, StepInv, NEW w \in Workers, Task(w)
  PROVE  StepInv'
<1>1. UNCHANGED <<ball, record, down, reliable, viewer>>
  BY TaskLeaves DEF server, shown
<1>2. InOrder /\ ShownInOrder
  BY DEF StepInv
<1>3. task \in [Workers -> Tasks]
  BY Typed DEF SenderOK
<1>4. ASSUME \A v \in Workers : task'[v].step = "send" => task'[v].pos <= ball,
             \A a \in States(up)' :
               \/ a \in States(up)
               \/ a.age = 0 /\ a.pos <= ball /\ (~a.torn => a.pos = ball) /\ a.pos \in Int
      PROVE  StepInv'
  <2>1. \A a \in States(up)' : /\ a.pos <= ball /\ a.pos \in Int /\ a.age \in Nat
                               /\ ~a.torn /\ a.age = 0 => a.pos = ball
    BY <1>2, <1>4, StepTypes DEF InOrder
  <2>2. ASSUME NEW a \in States(up)', NEW b \in States(up)', ~a.torn, a.age <= b.age
        PROVE  a.pos >= b.pos
    <3>1. /\ a.pos \in Int /\ b.pos \in Int /\ a.age \in Nat /\ b.age \in Nat
          /\ b.pos <= ball
      BY <2>1
    <3>2. CASE a \in States(up) /\ b \in States(up)
      BY <1>2, <2>2, <3>2 DEF InOrder
    <3>3. CASE a \notin States(up) \/ b \notin States(up)
      <4>1. a.age = 0
        BY <1>4, <2>2, <3>1, <3>3
      <4>2. a.pos = ball
        BY <2>1, <2>2, <4>1
      <4>3. QED BY <3>1, <4>2
    <3>4. QED BY <3>2, <3>3
  <2>3. InOrder'
    BY <1>1, <1>4, <2>1, <2>2 DEF InOrder
  <2>4. ASSUME NEW p \in Int, Reached(p) PROVE Reached(p)'
    <3>1. \A a \in States(up)' : ~a.torn /\ a.age <= record.age => p <= a.pos
      BY <1>4, <2>1, <2>4 DEF Reached
    <3>2. QED BY <1>1, <2>4, <3>1 DEF Reached
  <2>5. Reached(record.pos)'
    <3>1. PICK p \in Int : p = record.pos
      BY StepTypes
    <3>2. Reached(p)'
      BY <1>2, <2>4, <3>1 DEF ShownInOrder
    <3>3. QED BY <1>1, <3>1, <3>2 DEF Reached
  <2>6. Balls' \subseteq Balls
    BY <1>1, BallsSame
  <2>7. QED BY <1>1, <1>2, <2>3, <2>4, <2>5, <2>6, StepTypes, ShownKept DEF StepInv
<1>5. ASSUME NEW t, task' = [task EXCEPT ![w] = t], t.step = "send" => t.pos <= ball
      PROVE  \A v \in Workers : task'[v].step = "send" => task'[v].pos <= ball
  <2>1. \A v \in Workers : task'[v] = IF v = w THEN t ELSE task[v]
    BY <1>3, <1>5
  <2>2. QED BY <1>2, <1>5, <2>1 DEF InOrder
<1>6. CASE Begin(w)
  <2>1. [Idle EXCEPT !.step = "count", !.count = counter].step # "send"
    BY DEF Idle
  <2>2. QED BY <1>4, <1>5, <1>6, <2>1 DEF Begin, States
<1>7. CASE Choose(w)
  <2>1. PICK t : t = [Idle EXCEPT !.step = IF changed \/ Forced(counter') THEN "copy" ELSE "stamp",
                                  !.forced = Forced(counter')]
    OBVIOUS
  <2>2. t.step # "send"
    BY <2>1 DEF Idle
  <2>3. task' = [task EXCEPT ![w] = t] /\ UNCHANGED up
    BY <1>7, <2>1 DEF Choose
  <2>4. QED BY <1>4, <1>5, <2>2, <2>3 DEF States
<1>8. CASE Copy(w)
  <2>1. PICK t : t = [task[w] EXCEPT !.step = "send", !.pos = ball]
    OBVIOUS
  <2>2. t.pos <= ball
    BY <1>3, <2>1, StepTypes DEF Tasks
  <2>3. task' = [task EXCEPT ![w] = t] /\ UNCHANGED up
    BY <1>3, <1>8, <2>1 DEF Copy, Tasks
  <2>4. QED BY <1>4, <1>5, <2>2, <2>3 DEF States
<1>9. CASE SendState(w)
  <2>1. PICK t : t = [task[w] EXCEPT !.step = "clear", !.pos = 0]
    OBVIOUS
  <2>2. t.step # "send"
    BY <1>3, <2>1 DEF Tasks
  <2>3. task' = [task EXCEPT ![w] = t]
    BY <1>3, <1>9, <2>1 DEF SendState, Tasks
  <2>4. PICK torn \in BOOLEAN : torn = (task[w].pos # ball)
    OBVIOUS
  <2>5. up' \in Sent(up, State(task[w].pos, 0, torn))
    <3>1. up' \in Sent(up, State(task[w].pos, 0, task[w].pos # ball))
      BY <1>9, Zenon DEF SendState
    <3>2. QED BY <2>4, <3>1, Zenon
  <2>6. task[w].pos <= ball /\ task[w].pos \in Int
    BY <1>2, <1>9, StepTypes DEF SendState, InOrder
  <2>7. PICK s : s = State(task[w].pos, 0, torn)
    OBVIOUS
  <2>8. s.age = 0 /\ s.pos = task[w].pos /\ s.torn = torn
    BY <2>7 DEF State
  <2>9. \A a \in States(up)' : a \in States(up) \/ a = s
    BY <2>5, <2>7, SentAddsOne DEF States
  <2>10. QED BY <1>4, <1>5, <2>2, <2>3, <2>4, <2>6, <2>8, <2>9
<1>10. CASE Clear(w)
  <2>1. PICK t : t = [Idle EXCEPT !.step = IF task[w].forced THEN "reset" ELSE "idle"]
    OBVIOUS
  <2>2. t.step # "send"
    BY <2>1 DEF Idle
  <2>3. task' = [task EXCEPT ![w] = t] /\ UNCHANGED up
    BY <1>10, <2>1 DEF Clear
  <2>4. QED BY <1>4, <1>5, <2>2, <2>3 DEF States
<1>11. CASE Reset(w)
  <2>1. Idle.step # "send"
    BY DEF Idle
  <2>2. QED BY <1>4, <1>5, <1>11, <2>1 DEF Reset, States
<1>12. CASE SendStamp(w)
  <2>1. Idle.step # "send" /\ Stamp(0).type # "TimedBallState"
    BY DEF Idle, Stamp
  <2>2. \A a \in States(up)' : a \in States(up)
    BY <1>12, <2>1, SentAddsOne DEF SendStamp, States
  <2>3. QED BY <1>4, <1>5, <1>12, <2>1, <2>2 DEF SendStamp
<1>13. QED BY <1>6, <1>7, <1>8, <1>9, <1>10, <1>11, <1>12 DEF Task

(* The server's record goes back only to a torn state; what it will take is no *)
(* further back than any place the ball has been seen in.                      *)
LEMMA RecordInOrder ==
  ASSUME TypeOK, StepInv, NEW m \in up, OnTimedBallState(m) \/ OnTimestamp(m)
  PROVE  StepInv'
<1>1. UNCHANGED <<task, ball, down, reliable, viewer>> /\ up' \subseteq up
  BY Recorded DEF sender, shown
<1>2. InOrder /\ ShownInOrder
  BY DEF StepInv
<1>3. /\ m \in Messages /\ m.age \in Int /\ record.age \in Int /\ record.pos \in Int
      /\ m.type = "TimedBallState" => m \in States(up) /\ m.pos \in Int /\ m.torn \in BOOLEAN
  BY StepTypes, Typed, MessageFields DEF States
<1>4. States(up)' \subseteq States(up) /\ \A n \in States(up) : n.age \in Int /\ n.pos \in Int
  BY <1>1, StepTypes DEF States
<1>5. InOrder'
  BY <1>1, <1>2, <1>4 DEF InOrder
<1>6. /\ record'.age <= record.age /\ record'.age \in Int
      /\ \/ record'.pos = record.pos /\ record'.torn = record.torn
         \/ /\ m.type = "TimedBallState" /\ m.age <= record.age
            /\ record'.pos = m.pos /\ record'.age = m.age /\ record'.torn = m.torn
  BY <1>3, Recorded
<1>7. ASSUME NEW p \in Int, Reached(p) PROVE Reached(p)'
  <2>1. \A n \in States(up) : n.age <= record'.age => n.age <= record.age
    BY <1>3, <1>4, <1>6
  <2>2. \A n \in States(up)' : ~n.torn /\ n.age <= record'.age => p <= n.pos
    BY <1>4, <1>7, <2>1 DEF Reached
  <2>3. ~record'.torn => p <= record'.pos
    BY <1>3, <1>6, <1>7 DEF Reached
  <2>4. QED BY <1>1, <1>7, <2>2, <2>3 DEF Reached
<1>8. Reached(record.pos)'
  <2>1. CASE record'.pos = record.pos
    <3>1. PICK p \in Int : p = record.pos
      BY <1>3
    <3>2. Reached(p)'
      BY <1>2, <1>7, <3>1 DEF ShownInOrder
    <3>3. QED BY <2>1, <3>1, <3>2 DEF Reached
  <2>2. CASE /\ m.type = "TimedBallState" /\ m.age <= record.age
             /\ record'.pos = m.pos /\ record'.age = m.age /\ record'.torn = m.torn
    <3>1. m \in States(up) /\ m.pos \in Int
      BY <1>3, <2>2
    <3>2. m.pos <= ball /\ \A n \in States(up) : ~n.torn /\ n.age <= m.age => m.pos <= n.pos
      BY <1>2, <1>4, <3>1 DEF InOrder
    <3>3. QED BY <1>1, <1>4, <2>2, <3>1, <3>2 DEF Reached
  <2>3. QED BY <1>6, <2>1, <2>2
<1>9. Balls' \subseteq Balls
  BY <1>1, BallsSame
<1>10. QED BY <1>1, <1>2, <1>5, <1>7, <1>8, <1>9, StepTypes, ShownKept DEF StepInv

(* What shows the ball and is not older than the record carries its place. *)
LEMMA RecordJoins ==
  ASSUME TypeOK, NoneAhead, ShownInOrder, UNCHANGED <<ball, up, record, viewer>>,
         \A x \in Balls' : \/ x \in Balls
                           \/ x.pos = record.pos /\ x.age = record.age /\ x.torn = record.torn
  PROVE  ShownInOrder'
<1>1. ASSUME NEW x \in Balls
      PROVE  x.age >= record.age /\ x.age \in Int /\ x.pos \in Int
  <2>1. x.pos # Hidden /\ (ByState(x) \/ ByReliable(x))
    BY DEF Balls
  <2>2. x.age >= record.age
    BY <2>1 DEF ByState, ByReliable, States, NoneAhead
  <2>3. QED BY <2>2, StepTypes
<1>2. Reached(record.pos) /\ Reached(viewer.pos) /\ \A p \in Int : Reached(p)' <=> Reached(p)
  BY DEF ShownInOrder, Reached, States
<1>3. Reached(record.pos)' /\ Reached(viewer.pos)'
  BY <1>2 DEF Reached, States
<1>4. ASSUME NEW x \in Balls'
      PROVE  /\ Reached(x.pos)'
             /\ ~x.torn /\ ~viewer'.turned /\ x.age < viewer'.age => x.pos >= viewer'.pos
  <2>1. CASE x \in Balls
    BY <1>1, <1>2, <2>1 DEF ShownInOrder
  <2>2. CASE x.pos = record.pos /\ x.age = record.age /\ x.torn = record.torn
    <3>1. Reached(x.pos)'
      BY <1>2, <2>2, StepTypes
    <3>2. ~record.torn => viewer.pos <= record.pos
      BY <1>2 DEF Reached
    <3>3. QED BY <2>2, <3>1, <3>2, StepTypes
  <2>3. QED BY <2>1, <2>2
<1>5. ASSUME NEW x \in Balls', NEW y \in Balls', ~x.torn, x.age < y.age
      PROVE  x.pos >= y.pos
  <2>1. record.age \in Int /\ record.pos \in Int
    BY StepTypes
  <2>2. CASE y \in Balls /\ x \in Balls
    BY <1>5, <2>2 DEF ShownInOrder
  <2>3. CASE y \in Balls /\ x.pos = record.pos /\ x.torn = record.torn
    <3>1. Reached(y.pos) /\ y.pos \in Int
      BY <1>1, <2>3 DEF ShownInOrder
    <3>2. QED BY <1>5, <2>1, <2>3, <3>1 DEF Reached
  <2>4. CASE y.pos = record.pos /\ y.age = record.age /\ x \in Balls
    <3>1. FALSE
      BY <1>1, <1>5, <2>1, <2>4
    <3>2. QED BY <3>1
  <2>5. CASE y.pos = record.pos /\ x.pos = record.pos
    BY <2>1, <2>5
  <2>6. QED BY <2>2, <2>3, <2>4, <2>5
<1>6. QED BY <1>3, <1>4, <1>5 DEF ShownInOrder

(* A tick sends the record. *)
LEMMA TickInOrder ==
  ASSUME TypeOK, StepInv, NoneAhead, Tick
  PROVE  StepInv'
<1>1. UNCHANGED <<task, ball, up, record, reliable, viewer>>
  BY Ticked DEF sender, shown
<1>2. InOrder /\ ShownInOrder
  BY DEF StepInv
<1>3. InOrder'
  BY <1>1, <1>2 DEF InOrder, States
<1>4. \A x \in Balls' : \/ x \in Balls
                        \/ x.pos = record.pos /\ x.age = record.age /\ x.torn = record.torn
  <2>1. TAKE x \in Balls'
  <2>2. x \in Kept /\ x.pos # Hidden
    BY DEF Balls
  <2>3. CASE ByReliable(x)'
    <3>1. ByReliable(x)
      BY <1>1, <2>3 DEF ByReliable
    <3>2. QED BY <2>2, <3>1 DEF Balls
  <2>4. CASE ByState(x)'
    <3>1. PICK m \in down' : /\ m.type = "TimedBallState" /\ x.pos = m.pos /\ x.age = m.age
                             /\ x.torn = m.torn
      BY <2>4 DEF ByState, States
    <3>2. CASE m \in down
      <4>1. ByState(x)
        BY <3>1, <3>2 DEF ByState, States
      <4>2. QED BY <2>2, <4>1 DEF Balls
    <3>3. CASE m \notin down
      BY <3>1, <3>3, Ticked
    <3>4. QED BY <3>2, <3>3
  <2>5. QED BY <2>3, <2>4 DEF Balls
<1>5. QED BY <1>1, <1>2, <1>3, <1>4, RecordJoins DEF StepInv

(* A reload sends the record or hides the ball. *)
LEMMA ReloadInOrder ==
  ASSUME TypeOK, StepInv, NoneAhead, Reload
  PROVE  StepInv'
<1>1. UNCHANGED <<task, ball, up, record, down, viewer>>
  BY Reloaded DEF sender
<1>2. InOrder /\ ShownInOrder
  BY DEF StepInv
<1>3. InOrder'
  BY <1>1, <1>2 DEF InOrder, States
<1>4. \A x \in Balls' : \/ x \in Balls
                        \/ x.pos = record.pos /\ x.age = record.age /\ x.torn = record.torn
  <2>1. TAKE x \in Balls'
  <2>2. x \in Kept /\ x.pos # Hidden
    BY DEF Balls
  <2>3. CASE ByState(x)'
    <3>1. ByState(x)
      BY <1>1, <2>3 DEF ByState, States
    <3>2. QED BY <2>2, <3>1 DEF Balls
  <2>4. CASE ByReliable(x)'
    <3>1. PICK i \in 1..Len(reliable') : x = reliable'[i]
      BY <2>4 DEF ByReliable
    <3>2. CASE i = Len(reliable')
      BY <2>2, <3>1, <3>2, Reloaded
    <3>3. CASE i # Len(reliable')
      <4>1. i \in 1..Len(reliable)
        BY <3>1, <3>3, Reloaded
      <4>2. ByReliable(x)
        BY <3>1, <4>1, Reloaded DEF ByReliable
      <4>3. QED BY <2>2, <4>2 DEF Balls
    <3>4. QED BY <3>2, <3>3
  <2>5. QED BY <2>3, <2>4 DEF Balls
<1>5. QED BY <1>1, <1>2, <1>3, <1>4, RecordJoins DEF StepInv

(* What the viewer takes it takes out of what was on its way. *)
LEMMA ViewerTakes ==
  ASSUME TypeOK, TypeOK', OnReliableStates \/ \E m \in down : OnBallStates(m)
  PROVE  /\ UNCHANGED <<sender, up, server>>
         /\ Balls' \subseteq Balls
         /\ \/ UNCHANGED viewer
            \/ /\ viewer'.pos = viewer.pos
               /\ ~viewer'.turned => ~viewer.turned /\ viewer'.age <= viewer.age
            \/ viewer'.pos = Hidden
            \/ \E x \in Balls :
                 viewer'.pos = x.pos /\ viewer'.age = x.age /\ viewer'.torn = x.torn
<1>1. ASSUME NEW m \in down, OnBallStates(m)
      PROVE  /\ UNCHANGED <<sender, up, server>>
             /\ Balls' \subseteq Balls
             /\ \/ UNCHANGED viewer
                \/ /\ viewer'.pos = viewer.pos
                   /\ ~viewer'.turned => ~viewer.turned /\ viewer'.age <= viewer.age
                \/ viewer'.pos = Hidden
                \/ \E x \in Balls :
                     viewer'.pos = x.pos /\ viewer'.age = x.age /\ viewer'.torn = x.torn
  <2>1. UNCHANGED <<sender, up, server, reliable>> /\ down' \subseteq down
    BY <1>1, BallStatesSeen
  <2>2. Balls' \subseteq Balls
    BY <2>1 DEF Balls, ByState, ByReliable, States
  <2>3. \/ UNCHANGED viewer
        \/ /\ m.type = "TimedBallState" /\ viewer'.pos = m.pos /\ viewer'.age = m.age
           /\ viewer'.torn = m.torn
        \/ /\ viewer'.pos = viewer.pos /\ viewer'.age = m.age
           /\ viewer'.turned = (viewer.turned \/ m.age > viewer.age)
    BY <1>1, BallStatesSeen
  <2>4. CASE /\ m.type = "TimedBallState" /\ viewer'.pos = m.pos /\ viewer'.age = m.age
             /\ viewer'.torn = m.torn
    <3>1. m \in States(down) /\ down \subseteq Messages
      BY <2>4, Typed DEF States
    <3>2. m.pos \in Positions /\ m.age \in 0..(MaxAge - 1) /\ m.torn \in BOOLEAN
      BY <3>1, StatesTyped
    <3>3. PICK x : x = [pos |-> m.pos, age |-> m.age, torn |-> m.torn]
      OBVIOUS
    <3>4. m.pos # Hidden /\ m.age \in Ages
      BY <3>2, HiddenIsNowhere, RelayAssumption DEF Ages
    <3>5. x \in Kept /\ x.pos = m.pos /\ x.age = m.age /\ x.torn = m.torn
      BY <3>2, <3>3, <3>4, Fields
    <3>6. x \in Balls
      BY <3>1, <3>4, <3>5 DEF Balls, ByState
    <3>7. QED BY <2>1, <2>2, <2>4, <3>5, <3>6
  <2>5. CASE /\ viewer'.pos = viewer.pos /\ viewer'.age = m.age
             /\ viewer'.turned = (viewer.turned \/ m.age > viewer.age)
    <3>1. m.age \in Int /\ viewer.age \in Int
      BY Typed, MessageFields, StepTypes
    <3>2. ~viewer'.turned => ~viewer.turned /\ ~(m.age > viewer.age)
      BY <2>5, Zenon
    <3>3. ~(m.age > viewer.age) => viewer'.age <= viewer.age
      BY <2>5, <3>1
    <3>4. QED BY <2>1, <2>2, <2>5, <3>2, <3>3, Zenon
  <2>6. QED BY <2>1, <2>2, <2>3, <2>4, <2>5
<1>2. ASSUME OnReliableStates
      PROVE  /\ UNCHANGED <<sender, up, server>>
             /\ Balls' \subseteq Balls
             /\ \/ UNCHANGED viewer
                \/ viewer'.pos = Hidden
                \/ \E x \in Balls :
                     viewer'.pos = x.pos /\ viewer'.age = x.age /\ viewer'.torn = x.torn
  <2>1. /\ UNCHANGED <<sender, up, server, down>>
        /\ Len(reliable) \in Nat \ {0} /\ Len(reliable') = Len(reliable) - 1
        /\ \A i \in 1..Len(reliable') : reliable'[i] = reliable[i + 1]
        /\ reliable[1] \in Kept
    BY <1>2, ReliableStatesSeen
  <2>2. Balls' \subseteq Balls
    <3>1. SUFFICES ASSUME NEW x \in Balls' PROVE x \in Balls
      OBVIOUS
    <3>2. x \in Kept /\ x.pos # Hidden
      BY DEF Balls
    <3>3. CASE ByState(x)'
      <4>1. ByState(x)
        BY <2>1, <3>3 DEF ByState, States
      <4>2. QED BY <3>2, <4>1 DEF Balls
    <3>4. CASE ByReliable(x)'
      <4>1. PICK i \in 1..Len(reliable') : x = reliable'[i]
        BY <3>4 DEF ByReliable
      <4>2. i + 1 \in 1..Len(reliable) /\ x = reliable[i + 1]
        BY <2>1, <4>1
      <4>3. ByReliable(x)
        BY <4>2 DEF ByReliable
      <4>4. QED BY <3>2, <4>3 DEF Balls
    <3>5. QED BY <3>3, <3>4 DEF Balls
  <2>3. PICK h : h = reliable[1]
    OBVIOUS
  <2>4. h \in Kept /\ ByReliable(h)
    BY <2>1, <2>3 DEF ByReliable
  <2>5. h.pos # Hidden => h \in Balls
    BY <2>4 DEF Balls
  <2>6. \/ UNCHANGED viewer
        \/ viewer'.pos = h.pos /\ viewer'.age = h.age /\ viewer'.torn = h.torn
    BY <1>2, <2>3, ReliableStatesSeen
  <2>7. QED BY <2>1, <2>2, <2>5, <2>6
<1>3. QED BY <1>1, <1>2

LEMMA ViewerInOrder ==
  ASSUME TypeOK, TypeOK', StepInv, OnReliableStates \/ \E m \in down : OnBallStates(m)
  PROVE  StepInv'
<1>1. UNCHANGED <<task, ball, up, record>> /\ Balls' \subseteq Balls
  BY ViewerTakes DEF sender, server
<1>2. InOrder /\ ShownInOrder
  BY DEF StepInv
<1>3. InOrder'
  BY <1>1, <1>2 DEF InOrder, States
<1>4. \A p \in Int : Reached(p) => Reached(p)'
  BY <1>1 DEF Reached, States
<1>5. CASE UNCHANGED viewer
  <2>1. Reached(record.pos)'
    BY <1>1, <1>2 DEF ShownInOrder, Reached, States
  <2>2. QED BY <1>1, <1>2, <1>3, <1>4, <1>5, <2>1, StepTypes, ShownKept DEF StepInv
<1>6. CASE \/ /\ viewer'.pos = viewer.pos
              /\ ~viewer'.turned => ~viewer.turned /\ viewer'.age <= viewer.age
           \/ viewer'.pos = Hidden
           \/ \E x \in Balls :
                viewer'.pos = x.pos /\ viewer'.age = x.age /\ viewer'.torn = x.torn
  <2>1. viewer'.pos \in Int /\ viewer'.age \in Int
    BY TypedNext, ViewerFields, PlacesAreNumbers DEF ViewerOK
  <2>2. Reached(record.pos)' /\ \A x \in Balls' : Reached(x.pos)'
    <3>1. Reached(record.pos)'
      BY <1>1, <1>2 DEF ShownInOrder, Reached, States
    <3>2. QED BY <1>1, <1>2, <1>4, <3>1, StepTypes DEF ShownInOrder
  <2>3. Reached(viewer.pos)'
    <3>1. PICK p \in Int : p = viewer'.pos
      BY <2>1
    <3>2. Reached(Hidden)
      BY StepTypes, PlacesAreNumbers DEF Reached
    <3>3. Reached(p)
      BY <1>2, <1>6, <3>1, <3>2 DEF ShownInOrder
    <3>4. Reached(p)'
      BY <1>4, <3>3
    <3>5. QED BY <3>1, <3>4 DEF Reached
  <2>4. ASSUME NEW y \in Balls', ~y.torn, ~viewer'.turned, y.age < viewer'.age
        PROVE  y.pos >= viewer'.pos
    <3>1. y \in Balls /\ y.pos \in Int /\ y.age \in Int /\ Hidden <= y.pos
      BY <1>1, StepTypes, PlacesAreNumbers
    <3>2. CASE /\ viewer'.pos = viewer.pos
               /\ ~viewer.turned /\ viewer'.age <= viewer.age
      <4>1. y.age < viewer.age
        BY <2>1, <2>4, <3>1, <3>2, StepTypes
      <4>2. QED BY <1>2, <2>4, <3>1, <3>2, <4>1 DEF ShownInOrder
    <3>3. CASE viewer'.pos = Hidden
      BY <3>1, <3>3
    <3>4. CASE \E x \in Balls :
                 viewer'.pos = x.pos /\ viewer'.age = x.age /\ viewer'.torn = x.torn
      BY <1>2, <2>4, <3>1, <3>4 DEF ShownInOrder
    <3>5. QED BY <1>6, <2>4, <3>2, <3>3, <3>4
  <2>5. \A x, y \in Balls' : ~x.torn /\ x.age < y.age => x.pos >= y.pos
    BY <1>1, <1>2 DEF ShownInOrder
  <2>6. ShownInOrder'
    BY <2>2, <2>3, <2>4, <2>5 DEF ShownInOrder
  <2>7. QED BY <1>3, <2>6 DEF StepInv
<1>7. QED BY <1>5, <1>6, ViewerTakes

(* Every step keeps what is under way in order. *)
LEMMA StepStep == TypeOK /\ TypeOK' /\ NoneAhead /\ StepInv /\ [Next]_vars => StepInv'
<1> SUFFICES ASSUME TypeOK, TypeOK', NoneAhead, StepInv, [Next]_vars PROVE StepInv'
  OBVIOUS
<1>1. CASE UNCHANGED vars
  <2>1. UNCHANGED <<ball, task, up, record, down, reliable, viewer>>
    BY <1>1 DEF vars, sender, server, shown
  <2>2. Balls' = Balls
    BY <2>1, BallsSame
  <2>3. QED BY <2>1, <2>2 DEF StepInv, InOrder, ShownInOrder, Reached, States
<1>2. QED BY <1>1, PollInOrder, TaskInOrder, RecordInOrder, TickInOrder, ReloadInOrder,
             ViewerInOrder DEF Next

-----------------------------------------------------------------------------
(* The action NoStepBack allows. *)
NoBack ==
  /\ record'.pos < record.pos => record'.torn
  /\ viewer.pos # Hidden /\ viewer'.pos # Hidden /\ viewer'.pos < viewer.pos
       => viewer'.torn \/ viewer.turned \/ viewer'.age >= viewer.age

(* A step that leaves both positions alone takes neither back. *)
LEMMA NothingBack ==
  ASSUME TypeOK, record'.pos = record.pos, viewer'.pos = viewer.pos
  PROVE  NoBack
BY StepTypes DEF NoBack

LEMMA StepGoesOn ==
  ASSUME TypeOK, TypeOK', StepInv, [Next]_vars
  PROVE  NoBack
<1>1. InOrder /\ ShownInOrder
  BY DEF StepInv
<1>2. CASE OnReliableStates \/ \E m \in down : OnBallStates(m)
  <2>1. record' = record
    BY <1>2, ViewerTakes DEF server
  <2>2. viewer'.age \in Int /\ viewer'.torn \in BOOLEAN
    BY TypedNext, ViewerFields, PlacesAreNumbers DEF ViewerOK
  <2>3. CASE viewer'.pos = viewer.pos
    BY <2>1, <2>3, NothingBack
  <2>4. CASE viewer'.pos = Hidden
    BY <2>1, <2>4, StepTypes DEF NoBack
  <2>5. CASE \E x \in Balls :
               viewer'.pos = x.pos /\ viewer'.age = x.age /\ viewer'.torn = x.torn
    <3>1. PICK x \in Balls :
               viewer'.pos = x.pos /\ viewer'.age = x.age /\ viewer'.torn = x.torn
      BY <2>5
    <3>2. ~x.torn /\ ~viewer.turned /\ x.age < viewer.age => x.pos >= viewer.pos
      BY <1>1 DEF ShownInOrder
    <3>3. x.pos \in Int /\ x.age \in Int
      BY StepTypes
    <3>4. QED BY <2>1, <3>1, <3>2, <3>3, StepTypes DEF NoBack
  <2>6. QED BY <1>2, <2>3, <2>4, <2>5, ViewerTakes
<1>3. ASSUME NEW m \in up, OnTimedBallState(m) \/ OnTimestamp(m) PROVE NoBack
  <2>1. viewer' = viewer
    BY <1>3, Recorded DEF shown
  <2>2. CASE record'.pos = record.pos
    BY <2>1, <2>2, NothingBack
  <2>3. CASE /\ m.type = "TimedBallState" /\ m.age <= record.age
             /\ record'.pos = m.pos /\ record'.torn = m.torn
    <3>1. m \in States(up)
      BY <2>3 DEF States
    <3>2. ~m.torn => record.pos <= m.pos
      BY <1>1, <2>3, <3>1 DEF ShownInOrder, Reached
    <3>3. m.pos \in Int
      BY <3>1, StepTypes
    <3>4. record'.pos < record.pos => record'.torn
      BY <2>3, <3>2, <3>3, StepTypes
    <3>5. QED BY <2>1, <3>4, StepTypes DEF NoBack
  <2>4. QED BY <1>3, <2>2, <2>3, Recorded
<1>4. CASE Poll
  BY <1>4, PolledReached, OlderViewer, Typed, NothingBack
<1>5. CASE \E w \in Workers : Task(w)
  BY <1>5, TaskLeaves, NothingBack DEF server, shown
<1>6. CASE Tick
  BY <1>6, Ticked, NothingBack DEF shown
<1>7. CASE Reload
  BY <1>7, Reloaded, NothingBack
<1>8. CASE UNCHANGED vars
  BY <1>8, NothingBack DEF vars, server, shown
<1>9. QED BY <1>2, <1>3, <1>4, <1>5, <1>6, <1>7, <1>8 DEF Next

(* However the messages overtake each other, however the tasks of the pool   *)
(* overlap and whatever weights the average of the delays has, a player's    *)
(* ball goes back on the server only through a state copied before a poll    *)
(* and stamped after it, and on a viewer's screen only so or where the       *)
(* average put an older stamp before a newer one (server.cpp:941-947,        *)
(* game_state.h:128-180, local_state_handler_base.h:40-43).                  *)
THEOREM NeverStepsBack == Spec => NoStepBack
<1>1. Init /\ []TypeOK /\ [][Next]_vars => []HideInv
  BY HideInit, HideStep, PTL
<1>2. HideInv => NoneAhead
  BY DEF HideInv
<1>3. Init /\ []TypeOK /\ []NoneAhead /\ [][Next]_vars => []StepInv
  BY StepInit, StepStep, PTL
<1>4. TypeOK /\ TypeOK' /\ StepInv /\ [Next]_vars => [NoBack]_vars
  BY StepGoesOn
<1>5. []TypeOK /\ []StepInv /\ [][Next]_vars => [][NoBack]_vars
  BY <1>4, PTL
<1>6. Spec => [][NoBack]_vars
  BY <1>1, <1>2, <1>3, <1>5, TypeCorrect, PTL DEF Spec
<1>7. QED BY <1>6 DEF NoStepBack, NoBack
=============================================================================
