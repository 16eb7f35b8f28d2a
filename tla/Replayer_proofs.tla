--------------------------- MODULE Replayer_proofs ---------------------------
(***************************************************************************)
(* Theorems about Replayer for every value of its constants: its types,    *)
(* where a seek lands, and the rosters: the viewers show the players of    *)
(* record_clients_, and these are the ones the entries played lead to.     *)
(***************************************************************************)
EXTENDS Replayer, FiniteSetTheorems, WellFoundedInduction, TLAPS

-----------------------------------------------------------------------------
(* The least element of a set of numbers, and the seek index. *)

LEMMA MinOfNat ==
  ASSUME NEW S \in SUBSET Nat, S # {}
  PROVE  Min(S) \in S /\ \A y \in S : Min(S) <= y
<1>1. ASSUME NEW a \in Nat, NEW b \in Nat, a < b
      PROVE  <<a, b>> \in OpToRel(<, Nat)
  <2>1. <<a, b>> \in Nat \X Nat /\ <<a, b>>[1] < <<a, b>>[2]
    BY <1>1
  <2> QED BY <2>1, Zenon DEF OpToRel
<1>2. PICK x \in S : \A y \in S : ~ (<<y, x>> \in OpToRel(<, Nat))
  BY NatLessThanWellFounded, WFMin
<1>3. \A y \in S : ~(y < x)
  BY <1>1, <1>2, Zenon
<1>4. \A y \in S : x <= y
  BY <1>3
<1> QED BY <1>4, Zenon DEF Min

LEMMA RecordFacts ==
  ASSUME NEW r \in Records
  PROVE  /\ Len(r) \in Nat /\ Len(r) > 0
         /\ \A i \in 1..Len(r) : /\ r[i] \in Entry
                                 /\ r[i].time \in Nat
                                 /\ r[i].code \in Code
                                 /\ r[i].players \subseteq Player
         /\ \A i, j \in 1..Len(r) : i <= j => r[i].time <= r[j].time
         /\ \A i \in 1..Len(r) : r[i].code = "LoginAcceptedV3" <=> i = 1
<1>1. r \in Seq(Entry) /\ WellFormed(r)
  BY ReplayerAssumption
<1>2. Len(r) \in Nat /\ Len(r) > 0
  BY <1>1 DEF WellFormed
<1>3. \A i \in 1..Len(r) : r[i] \in Entry
  BY <1>1
<1>4. \A i \in 1..Len(r) : r[i].time \in Nat /\ r[i].code \in Code /\ r[i].players \subseteq Player
  BY <1>3 DEF Entry
<1>5. \A i \in 1..Len(r) : \A j \in i+1..Len(r) : r[i].time <= r[j].time
  BY <1>1, Zenon DEF WellFormed
<1>6. \A i, j \in 1..Len(r) : i <= j => r[i].time <= r[j].time
  <2> SUFFICES ASSUME NEW i \in 1..Len(r), NEW j \in 1..Len(r), i <= j
               PROVE  r[i].time <= r[j].time
    OBVIOUS
  <2>1. CASE i = j
    BY <2>1, <1>4
  <2>2. CASE i # j
    BY <2>2, <1>2, <1>5
  <2> QED BY <2>1, <2>2
<1>7. \A i \in 1..Len(r) : r[i].code = "LoginAcceptedV3" <=> i = 1
  BY <1>1, Zenon DEF WellFormed
<1> QED BY <1>2, <1>3, <1>4, <1>6, <1>7

(* The same for the record loaded. *)
LEMMA Loaded ==
  ASSUME record \in Records
  PROVE  /\ Last \in Nat /\ Last > 0
         /\ \A i \in 1..Last : Time(i) \in Nat
         /\ \A i, j \in 1..Last : i <= j => Time(i) <= Time(j)
         /\ duration \in Nat
         /\ Last \in 1..Last
BY RecordFacts DEF Last, Time, duration

LEMMA Segments ==
  ASSUME NEW t \in Nat
  PROVE  /\ SegmentOf(t) \in Nat
         /\ \A s \in Nat : s <= t => SegmentOf(s) <= SegmentOf(t)
<1>1. SegmentLength \in Nat /\ SegmentLength > 0
  BY ReplayerAssumption
<1>2. \A s \in Nat : /\ SegmentOf(s) \in Int
                     /\ SegmentLength * SegmentOf(s) <= s
                     /\ s < SegmentLength * (SegmentOf(s) + 1)
  BY <1>1 DEF SegmentOf
<1>3. ASSUME NEW s \in Nat PROVE SegmentOf(s) \in Nat
  <2> DEFINE k == SegmentOf(s)
  <2>1. k \in Int /\ s < SegmentLength * (k + 1)
    BY <1>2
  <2>2. ASSUME k < 0 PROVE FALSE
    <3>1. k + 1 <= 0
      BY <2>1, <2>2
    <3> HIDE DEF k
    <3>2. SegmentLength * (k + 1) <= 0
      BY <2>1, <3>1, <1>1
    <3> QED BY <2>1, <3>2, <1>1
  <2> QED BY <2>1, <2>2
<1>4. ASSUME NEW s \in Nat, s <= t PROVE SegmentOf(s) <= SegmentOf(t)
  <2> DEFINE k == SegmentOf(s)  l == SegmentOf(t)
  <2>1. /\ k \in Int /\ l \in Int
        /\ SegmentLength * k <= s /\ t < SegmentLength * (l + 1)
    BY <1>2
  <2> HIDE DEF k, l
  <2>2. ASSUME k > l PROVE FALSE
    <3>1. SegmentLength * (l + 1) <= SegmentLength * k
      BY <2>1, <2>2, <1>1
    <3> QED BY <2>1, <3>1, <1>1, <1>4
  <2>3. k <= l
    BY <2>1, <2>2
  <2> QED BY <2>3 DEF k, l
<1> QED BY <1>3, <1>4

(* The segment a seek is placed at lies at or before its destination: the  *)
(* entry that first gets into a segment at or after that of the            *)
(* destination crosses, and is indexed no earlier than where it lies.      *)
LEMMA SegmentLands ==
  ASSUME record \in Records, NEW dest \in Nat, dest <= duration
  PROVE  LET s == Segment(SegmentOf(dest))
         IN  /\ s.position \in 1..Last /\ s.time \in Nat
             /\ \A i \in 1..Last : i < s.position => Time(i) < dest
             /\ s.time >= dest => \A i \in 1..Last : i >= s.position => Time(i) >= dest
<1> DEFINE k == SegmentOf(dest)
           C == {j \in Crossings : Indexed(j) >= k}
           i0 == Min(C)
<1>1. k \in Nat
  BY Segments
<1>2. CASE k = 0
  BY <1>2, Loaded DEF Segment
<1>3. CASE k # 0
  <2>1. Crossings \subseteq 1..Last /\ 1..Last \subseteq Nat
    BY DEF Crossings
  <2>2. ASSUME NEW j \in 1..Last PROVE Indexed(j) \in Nat /\ Indexed(j) >= SegmentOf(Time(j))
    <3>1. IsFiniteSet(1..Last)
      BY FS_Interval, Loaded
    <3>2. IsFiniteSet({n \in Crossings : n <= j})
      BY <3>1, <2>1, FS_Subset
    <3>3. Cardinality({n \in Crossings : n <= j}) \in Nat
      BY <3>2, FS_CardinalityType
    <3>4. SegmentOf(Time(j)) \in Nat
      BY Loaded, Segments
    <3> QED BY <3>3, <3>4 DEF Indexed
  <2>3. ASSUME NEW i \in 1..Last, SegmentOf(Time(i)) >= k
        PROVE  \E j \in C : j <= i
    <3> DEFINE B == {j \in 1..Last : SegmentOf(Time(j)) >= k}
    <3> DEFINE j0 == Min(B)
    <3>1. B \in SUBSET Nat /\ i \in B
      BY <2>3, <2>1
    <3>2. j0 \in B /\ \A j \in B : j0 <= j
      BY <3>1, MinOfNat
    <3> HIDE DEF j0
    <3>3. Before(j0) < k
      <4>1. CASE j0 = 1
        BY <4>1, <1>1, <1>3 DEF Before
      <4>2. CASE j0 # 1
        <5>1. j0 - 1 \in 1..Last /\ j0 - 1 < j0
          BY <3>2, <4>2, Loaded
        <5>2. j0 - 1 \notin B
          BY <5>1, <3>2
        <5>3. SegmentOf(Time(j0 - 1)) \in Nat
          BY <5>1, Loaded, Segments
        <5> QED BY <5>1, <5>2, <5>3, <1>1, <4>2 DEF Before
      <4> QED BY <4>1, <4>2
    <3>4. SegmentOf(Time(j0)) \in Nat /\ Before(j0) \in Nat
      <4>1. CASE j0 = 1
        BY <4>1, <3>2, Loaded, Segments DEF Before
      <4>2. CASE j0 # 1
        <5>1. j0 - 1 \in 1..Last
          BY <3>2, <4>2, Loaded
        <5> QED BY <5>1, <4>2, <3>2, Loaded, Segments DEF Before
      <4> QED BY <4>1, <4>2
    <3>5. j0 \in Crossings
      BY <3>2, <3>3, <3>4, <1>1 DEF Crossings
    <3>6. Indexed(j0) >= k
      BY <3>2, <3>4, <2>2, <1>1
    <3>7. j0 \in C /\ j0 <= i
      BY <3>1, <3>2, <3>5, <3>6
    <3> QED BY <3>7
  <2>4. C \in SUBSET Nat /\ C \subseteq 1..Last
    BY <2>1
  <2>5. \E j \in C : j <= Last
    <3>1. duration \in Nat /\ SegmentOf(duration) >= k
      BY Loaded, Segments
    <3> QED BY <3>1, <2>3, Loaded DEF duration
  <2>6. i0 \in C /\ \A j \in C : i0 <= j
    BY <2>4, <2>5, MinOfNat
  <2>7. Segment(k) = [position |-> i0, time |-> Time(i0)]
    BY <1>3 DEF Segment
  <2> HIDE DEF i0
  <2>8. ASSUME NEW i \in 1..Last, i < i0 PROVE Time(i) < dest
    <3>1. Time(i) \in Nat
      BY Loaded
    <3>2. ASSUME Time(i) >= dest PROVE FALSE
      <4>1. SegmentOf(Time(i)) >= k
        BY <3>1, <3>2, Segments
      <4>2. PICK j \in C : j <= i
        BY <4>1, <2>3
      <4> QED BY <4>2, <2>6, <2>8, <2>4
    <3> QED BY <3>1, <3>2
  <2>9. i0 \in 1..Last /\ Time(i0) \in Nat
    BY <2>4, <2>6, Loaded
  <2>10. Time(i0) >= dest => \A i \in 1..Last : i >= i0 => Time(i) >= dest
    BY <2>9, Loaded
  <2> HIDE DEF k
  <2>11. /\ Segment(k).position = i0 /\ Segment(k).time = Time(i0)
    BY <2>7
  <2>12. /\ Segment(k).position \in 1..Last /\ Segment(k).time \in Nat
         /\ \A i \in 1..Last : i < Segment(k).position => Time(i) < dest
         /\ Segment(k).time >= dest
            => \A i \in 1..Last : i >= Segment(k).position => Time(i) >= dest
    BY <2>8, <2>9, <2>10, <2>11
  <2> QED BY <2>12 DEF k
<1> QED BY <1>2, <1>3

-----------------------------------------------------------------------------
(* Where the threads can be together. *)
Mutex == locked <=> player.step = "sleep"
Paused == console.step \in {"join", "settle", "place", "forward", "rebuild", "tell"} => ~playing
Alone ==
  /\ console.step \in {"place", "forward", "rebuild", "tell"} => player.step # "read"
  /\ console.step \in {"forward", "rebuild", "tell"} => player.step # "sleep"
InRecord ==
  /\ player.step = "read" => next <= Last
  /\ player.step \in {"sleep", "parse", "broadcast"} => player.entry # 0
Control == Mutex /\ Paused /\ Alone /\ InRecord

(* What a seek knows of its destination: first it is in the record, then   *)
(* the stream is at or before it, then all that is before it has been read.*)
Landed ==
  /\ console.step \in {"place", "forward", "rebuild"} => console.dest <= duration
  /\ console.step = "forward" =>
       /\ \A i \in 1..Last : i < next => Time(i) < console.dest
       /\ now >= console.dest => \A i \in 1..Last : i >= next => Time(i) >= console.dest
  /\ console.step = "rebuild" =>
       \A i \in 1..Last : /\ Time(i) < console.dest => i < next
                          /\ i < next - 1 => Time(i) < console.dest

(* Whose login is handled. *)
LoginIn == IF login.step = "idle" THEN login.who = NoViewer ELSE login.who \in clients

TypeInv == TypeOK /\ Control /\ LoginIn /\ Landed

(* The record stays, and the parts of TypeOK. *)
StreamOK == record \in Records /\ next \in 1..Last+1 /\ now \in Nat
PlayerOK == player \in [step : PlayerStep, entry : 0..Last]
ConsoleOK == console \in [step : ConsoleStep, dest : Nat, after : {"idle", "join"}]
FlagsOK == {playing, running, seeking, locked, rebuilt, disturbed} \subseteq BOOLEAN
ViewersOK ==
  /\ login \in [step : LoginStep, who : Viewer \cup {NoViewer}, roster : SUBSET Player]
  /\ clients \subseteq Viewer /\ welcomed \subseteq clients /\ astray \subseteq clients
  /\ shown \in [Viewer -> SUBSET Player]
RosterOK == record_clients \subseteq Player

LEMMA Parts ==
  TypeOK <=> StreamOK /\ PlayerOK /\ ConsoleOK /\ FlagsOK /\ ViewersOK /\ RosterOK
BY DEF TypeOK, StreamOK, PlayerOK, ConsoleOK, FlagsOK, ViewersOK, RosterOK

LEMMA ForwardLands ==
  ASSUME TypeOK, Landed, ForwardSeek
  PROVE  /\ next' \in 1..Last+1 /\ now' \in Nat
         /\ \A i \in 1..Last : /\ Time(i) < console.dest => i < next'
                               /\ i < next' - 1 => Time(i) < console.dest
<1>1. /\ console.step = "forward" /\ console.dest \in Nat
      /\ next \in 1..Last+1 /\ now \in Nat /\ record \in Records
  BY DEF TypeOK, ForwardSeek
<1>2. /\ console.dest <= duration
      /\ \A i \in 1..Last : i < next => Time(i) < console.dest
      /\ now >= console.dest => \A i \in 1..Last : i >= next => Time(i) >= console.dest
  BY <1>1, Zenon DEF Landed
<1>3. CASE now >= console.dest
  <2>1. next' = next /\ now' = now
    BY <1>1, <1>3 DEF ForwardSeek
  <2> QED BY <1>1, <1>2, <1>3, <2>1, Loaded
<1>4. CASE now < console.dest
  <2> DEFINE R == Reached(console.dest)
             i0 == Min(R)
  <2>1. next' = i0 + 1 /\ now' = Time(next' - 1)
    BY <1>1, <1>4 DEF ForwardSeek
  <2>2. R \in SUBSET Nat /\ R \subseteq next..Last
    BY <1>1, Loaded DEF Reached
  <2>3. Last \in R
    <3>1. Time(Last) >= console.dest /\ Last \in 1..Last
      BY <1>1, <1>2, Loaded DEF duration
    <3>2. ~(Last < next)
      BY <1>1, <1>2, <3>1, Loaded
    <3> QED BY <1>1, <3>1, <3>2, Loaded DEF Reached
  <2>4. i0 \in R /\ \A i \in R : i0 <= i
    BY <2>2, <2>3, MinOfNat
  <2> HIDE DEF i0
  <2>5. i0 \in 1..Last /\ i0 >= next /\ Time(i0) >= console.dest
    BY <1>1, <2>4, Loaded DEF Reached
  <2>6. next' \in 1..Last+1 /\ now' = Time(i0) /\ now' \in Nat
    BY <1>1, <2>1, <2>5, Loaded
  <2>7. ASSUME NEW i \in 1..Last, Time(i) < console.dest PROVE i < next'
    BY <1>1, <2>1, <2>5, <2>7, Loaded
  <2>8. ASSUME NEW i \in 1..Last, i < next' - 1 PROVE Time(i) < console.dest
    <3>1. i < i0 /\ i \notin R
      BY <2>1, <2>4, <2>5, <2>8, <2>2
    <3> QED BY <1>1, <1>2, <3>1, Loaded DEF Reached
  <2> QED BY <2>6, <2>7, <2>8
<1> QED BY <1>1, <1>3, <1>4

LEMMA Kept ==
  ASSUME StreamOK /\ RosterOK /\ PlayerOK /\ ConsoleOK /\ FlagsOK /\ ViewersOK
  PROVE  /\ UNCHANGED stream => StreamOK'
         /\ UNCHANGED record_clients => RosterOK'
         /\ record' = record /\ UNCHANGED player => PlayerOK'
         /\ UNCHANGED console => ConsoleOK'
         /\ UNCHANGED <<switches, locked, history>> => FlagsOK'
         /\ UNCHANGED viewers => ViewersOK'
         /\ StreamOK' /\ RosterOK' /\ PlayerOK' /\ ConsoleOK' /\ FlagsOK' /\ ViewersOK' => TypeOK'
<1>1. UNCHANGED stream => StreamOK'
  BY DEF StreamOK, stream, Last
<1>2. UNCHANGED record_clients => RosterOK'
  BY DEF RosterOK
<1>3. record' = record /\ UNCHANGED player => PlayerOK'
  BY DEF PlayerOK, Last
<1>4. UNCHANGED console => ConsoleOK'
  BY DEF ConsoleOK
<1>5. UNCHANGED <<switches, locked, history>> => FlagsOK'
  BY DEF FlagsOK, switches, history
<1>6. UNCHANGED viewers => ViewersOK'
  BY DEF ViewersOK, viewers
<1>7. StreamOK' /\ RosterOK' /\ PlayerOK' /\ ConsoleOK' /\ FlagsOK' /\ ViewersOK' => TypeOK'
  BY DEF TypeOK, StreamOK, RosterOK, PlayerOK, ConsoleOK, FlagsOK, ViewersOK
<1> QED BY <1>1, <1>2, <1>3, <1>4, <1>5, <1>6, <1>7

LEMMA TypeStep == TypeInv /\ [Next]_vars => TypeOK'
<1> SUFFICES ASSUME TypeInv, [Next]_vars PROVE TypeOK'
  OBVIOUS
<1>1. /\ StreamOK /\ RosterOK /\ PlayerOK /\ ConsoleOK /\ FlagsOK /\ ViewersOK
      /\ Control /\ LoginIn /\ Landed /\ TypeOK
  BY Parts DEF TypeInv
<1>2. ASSUME Check PROVE TypeOK'
  <2>0. Check
    BY <1>2
  <2>1. PlayerOK'
    BY <2>0, <1>1 DEF PlayerOK, Check, PlayerStep, stream, Last
  <2>2. UNCHANGED stream /\ UNCHANGED record_clients /\ UNCHANGED console /\
       UNCHANGED <<switches, locked, history>> /\ UNCHANGED viewers /\ record' = record
    BY <2>0 DEF Check, stream
  <2> QED BY <1>1, <2>1, <2>2, Kept
<1>3. ASSUME Read PROVE TypeOK'
  <2>0. Read
    BY <1>3
  <2>1. StreamOK'
    <3>1. next \in 1..Last /\ Time(next) \in Nat
      BY <2>0, <1>1, Loaded DEF Read, InRecord, Control, StreamOK
    <3> QED BY <2>0, <1>1, <3>1, Loaded DEF StreamOK, Read, Last
  <2>2. PlayerOK'
    <3>1. next \in 1..Last
      BY <2>0, <1>1, Loaded DEF Read, InRecord, Control, StreamOK
    <3> QED BY <2>0, <1>1, <3>1, Loaded DEF StreamOK, PlayerOK, PlayerStep, Read, Last
  <2>3. FlagsOK'
    BY <2>0, <1>1 DEF FlagsOK, Read, switches, history
  <2>4. record' = record /\ UNCHANGED record_clients /\ UNCHANGED console /\ UNCHANGED viewers
    BY <2>0 DEF Read, stream
  <2> QED BY <1>1, <2>1, <2>2, <2>3, <2>4, Kept
<1>4. ASSUME Wake PROVE TypeOK'
  <2>0. Wake
    BY <1>4
  <2>1. PlayerOK'
    BY <2>0, <1>1 DEF PlayerOK, Wake, PlayerStep, stream, Last
  <2>2. FlagsOK'
    BY <2>0, <1>1 DEF FlagsOK, Wake, switches, history
  <2>3. UNCHANGED stream /\ UNCHANGED record_clients /\ UNCHANGED console /\
       UNCHANGED viewers /\ record' = record
    BY <2>0 DEF Wake, stream
  <2> QED BY <1>1, <2>1, <2>2, <2>3, Kept
<1>5. ASSUME Parse PROVE TypeOK'
  <2>0. Parse
    BY <1>5
  <2>1. RosterOK'
    <3>1. player.entry \in 1..Last
      BY <2>0, <1>1, Loaded DEF Parse, InRecord, Control, StreamOK, PlayerOK
    <3>2. held.players \subseteq Player
      BY <1>1, <3>1, RecordFacts DEF StreamOK, Last, held
    <3> QED BY <2>0, <1>1, <3>2 DEF RosterOK, Parse, Applied
  <2>2. PlayerOK'
    BY <2>0, <1>1 DEF PlayerOK, Parse, PlayerStep, stream, Last
  <2>3. FlagsOK'
    BY <2>0, <1>1 DEF FlagsOK, Parse, switches, history
  <2>4. UNCHANGED stream /\ UNCHANGED console /\ UNCHANGED viewers /\ record' = record
    BY <2>0 DEF Parse, stream
  <2> QED BY <1>1, <2>1, <2>2, <2>3, <2>4, Kept
<1>6. ASSUME Broadcast PROVE TypeOK'
  <2>0. Broadcast
    BY <1>6
  <2>1. PlayerOK'
    BY <2>0, <1>1 DEF PlayerOK, Broadcast, PlayerStep, stream, Last
  <2>2. FlagsOK'
    BY <2>0, <1>1 DEF FlagsOK, Broadcast, switches, history
  <2>3. ViewersOK'
    <3>1. player.entry \in 1..Last
      BY <2>0, <1>1, Loaded DEF Broadcast, InRecord, Control, StreamOK, PlayerOK
    <3>2. held.players \subseteq Player
      BY <1>1, <3>1, RecordFacts DEF StreamOK, Last, held
    <3>3. \A v \in Viewer : Heard(v, held) \subseteq Player
      BY <1>1, <3>2 DEF ViewersOK, Heard, Accepted, Applied
    <3>4. shown' \in [Viewer -> SUBSET Player]
      BY <2>0, <1>1, <3>3 DEF ViewersOK, Broadcast
    <3>5. Overtaken \subseteq clients
      BY <1>1 DEF Overtaken, LoginIn
    <3>6. clients' = clients /\ welcomed' \subseteq clients /\ astray' \subseteq clients /\ login' = login
      BY <2>0, <1>1, <3>5 DEF ViewersOK, Broadcast, Audience
    <3> QED BY <1>1, <3>4, <3>6 DEF ViewersOK
  <2>4. UNCHANGED stream /\ UNCHANGED record_clients /\ UNCHANGED console /\
       record' = record
    BY <2>0 DEF Broadcast, stream
  <2> QED BY <1>1, <2>1, <2>2, <2>3, <2>4, Kept
<1>7. ASSUME Leave PROVE TypeOK'
  <2>0. Leave
    BY <1>7
  <2>1. PlayerOK'
    BY <2>0, <1>1 DEF PlayerOK, Leave, PlayerStep, stream, Last
  <2>2. FlagsOK'
    BY <2>0, <1>1 DEF FlagsOK, Leave, switches, history
  <2>3. UNCHANGED stream /\ UNCHANGED record_clients /\ UNCHANGED console /\
       UNCHANGED viewers /\ record' = record
    BY <2>0 DEF Leave, stream
  <2> QED BY <1>1, <2>1, <2>2, <2>3, Kept
<1>8. ASSUME Play PROVE TypeOK'
  <2>0. Play
    BY <1>8
  <2>1. ConsoleOK'
    BY <2>0, <1>1 DEF ConsoleOK, Play, ConsoleStep, At
  <2>2. UNCHANGED stream /\ UNCHANGED record_clients /\ UNCHANGED player /\
       UNCHANGED <<switches, locked, history>> /\ UNCHANGED viewers /\ record' = record
    BY <2>0 DEF Play, stream
  <2> QED BY <1>1, <2>1, <2>2, Kept
<1>9. ASSUME Start PROVE TypeOK'
  <2>0. Start
    BY <1>9
  <2>1. PlayerOK'
    BY <2>0, <1>1 DEF PlayerOK, Start, PlayerStep, stream, Last
  <2>2. ConsoleOK'
    BY <2>0, <1>1 DEF ConsoleOK, Start, ConsoleStep
  <2>3. FlagsOK'
    BY <2>0, <1>1 DEF FlagsOK, Start, switches, history
  <2>4. UNCHANGED stream /\ UNCHANGED record_clients /\ UNCHANGED viewers /\
       record' = record
    BY <2>0 DEF Start, stream
  <2> QED BY <1>1, <2>1, <2>2, <2>3, <2>4, Kept
<1>10. ASSUME Pause PROVE TypeOK'
  <2>0. Pause
    BY <1>10
  <2>1. FlagsOK'
    BY <2>0, <1>1 DEF FlagsOK, Pause, switches, history
  <2>2. UNCHANGED stream /\ UNCHANGED record_clients /\ UNCHANGED player /\
       UNCHANGED console /\ UNCHANGED viewers /\ record' = record
    BY <2>0 DEF Pause, stream
  <2> QED BY <1>1, <2>1, <2>2, Kept
<1>11. ASSUME NEW t \in Destinations, Seek(t) PROVE TypeOK'
  <2>0. Seek(t)
    BY <1>11
  <2>1. ConsoleOK'
    <3>1. t \in Nat
      BY <1>1, Loaded DEF Destinations, StreamOK
    <3> QED BY <2>0, <3>1 DEF ConsoleOK, ConsoleStep, Seek
  <2>2. FlagsOK'
    BY <2>0, <1>1 DEF FlagsOK, Seek, switches, history
  <2>3. UNCHANGED stream /\ UNCHANGED record_clients /\ UNCHANGED player /\
       UNCHANGED viewers /\ record' = record
    BY <2>0 DEF Seek, stream
  <2> QED BY <1>1, <2>1, <2>2, <2>3, Kept
<1>12. ASSUME Settle PROVE TypeOK'
  <2>0. Settle
    BY <1>12
  <2>1. ConsoleOK'
    BY <2>0, <1>1 DEF ConsoleOK, Settle, ConsoleStep, At
  <2>2. FlagsOK'
    BY <2>0, <1>1 DEF FlagsOK, Settle, switches, history
  <2>3. UNCHANGED stream /\ UNCHANGED record_clients /\ UNCHANGED player /\
       UNCHANGED viewers /\ record' = record
    BY <2>0 DEF Settle, stream
  <2> QED BY <1>1, <2>1, <2>2, <2>3, Kept
<1>13. ASSUME Reposition PROVE TypeOK'
  <2>0. Reposition
    BY <1>13
  <2>1. StreamOK'
    <3> DEFINE s == Segment(SegmentOf(console.dest))
    <3>1. console.step = "place" /\ console.dest \in Nat /\ console.dest <= duration
      BY <2>0, <1>1 DEF Reposition, ConsoleOK, Landed
    <3>2. s.position \in 1..Last /\ s.time \in Nat
      BY <1>1, <3>1, SegmentLands DEF StreamOK
    <3>3. next' = s.position /\ now' = s.time /\ record' = record
      BY <2>0 DEF Reposition
    <3> QED BY <1>1, <3>2, <3>3, Loaded DEF StreamOK, Last
  <2>2. ConsoleOK'
    BY <2>0, <1>1 DEF ConsoleOK, Reposition, ConsoleStep, At
  <2>3. record' = record /\ UNCHANGED record_clients /\ UNCHANGED player /\ UNCHANGED <<switches, locked, history>> /\ UNCHANGED viewers
    BY <2>0 DEF Reposition, stream
  <2> QED BY <1>1, <2>1, <2>2, <2>3, Kept
<1>14. ASSUME ForwardSeek PROVE TypeOK'
  <2>0. ForwardSeek
    BY <1>14
  <2>1. StreamOK'
    <3>1. next' \in 1..Last+1 /\ now' \in Nat
      BY <2>0, <1>1, ForwardLands
    <3> QED BY <2>0, <1>1, <3>1 DEF StreamOK, ForwardSeek, Last
  <2>2. ConsoleOK'
    BY <2>0, <1>1 DEF ConsoleOK, ForwardSeek, ConsoleStep, At
  <2>3. record' = record /\ UNCHANGED record_clients /\ UNCHANGED player /\ UNCHANGED <<switches, locked, history>> /\ UNCHANGED viewers
    BY <2>0 DEF ForwardSeek, stream
  <2> QED BY <1>1, <2>1, <2>2, <2>3, Kept
<1>15. ASSUME Rebuild PROVE TypeOK'
  <2>0. Rebuild
    BY <1>15
  <2>1. RosterOK'
    BY <2>0, <1>1 DEF RosterOK, Rebuild, OnlineAt
  <2>2. ConsoleOK'
    BY <2>0, <1>1 DEF ConsoleOK, Rebuild, ConsoleStep, At
  <2>3. FlagsOK'
    BY <2>0, <1>1 DEF FlagsOK, Rebuild, Unclear, switches, history
  <2>4. UNCHANGED stream /\ UNCHANGED player /\ UNCHANGED viewers /\ record' = record
    BY <2>0 DEF Rebuild, stream
  <2> QED BY <1>1, <2>1, <2>2, <2>3, <2>4, Kept
<1>16. ASSUME Tell PROVE TypeOK'
  <2>0. Tell
    BY <1>16
  <2>1. ConsoleOK'
    BY <2>0, <1>1 DEF ConsoleOK, Tell, ConsoleStep, At
  <2>2. FlagsOK'
    BY <2>0, <1>1 DEF FlagsOK, Tell, SeekingAfter, switches, history
  <2>3. ViewersOK'
    <3>1. \A v \in Viewer : Accepted(v, record_clients) \subseteq Player
      BY <1>1 DEF ViewersOK, RosterOK, Accepted
    <3>2. shown' \in [Viewer -> SUBSET Player]
      BY <2>0, <1>1, <3>1 DEF ViewersOK, Tell
    <3>3. Overtaken \subseteq clients
      BY <1>1 DEF Overtaken, LoginIn
    <3>4. clients' = clients /\ welcomed' \subseteq clients /\ astray' \subseteq clients /\ login' = login
      BY <2>0, <1>1, <3>3 DEF ViewersOK, Tell, Audience
    <3> QED BY <1>1, <3>2, <3>4 DEF ViewersOK
  <2>4. UNCHANGED stream /\ UNCHANGED record_clients /\ UNCHANGED player /\ record' = record
    BY <2>0 DEF Tell, stream
  <2> QED BY <1>1, <2>1, <2>2, <2>3, <2>4, Kept
<1>17. ASSUME Stop PROVE TypeOK'
  <2>0. Stop
    BY <1>17
  <2>1. ConsoleOK'
    BY <2>0, <1>1 DEF ConsoleOK, Stop, ConsoleStep, At
  <2>2. FlagsOK'
    BY <2>0, <1>1 DEF FlagsOK, Stop, switches, history
  <2>3. UNCHANGED stream /\ UNCHANGED record_clients /\ UNCHANGED player /\
       UNCHANGED viewers /\ record' = record
    BY <2>0 DEF Stop, stream
  <2> QED BY <1>1, <2>1, <2>2, <2>3, Kept
<1>18. ASSUME Stopped PROVE TypeOK'
  <2>0. Stopped
    BY <1>18
  <2>1. ConsoleOK'
    BY <2>0, <1>1 DEF ConsoleOK, Stopped, ConsoleStep, At
  <2>2. UNCHANGED stream /\ UNCHANGED record_clients /\ UNCHANGED player /\
       UNCHANGED <<switches, locked, history>> /\ UNCHANGED viewers /\ record' = record
    BY <2>0 DEF Stopped, stream
  <2> QED BY <1>1, <2>1, <2>2, Kept
<1>19. ASSUME NEW v \in Viewer, LoginRequest(v) PROVE TypeOK'
  <2>0. LoginRequest(v)
    BY <1>19
  <2>1. ViewersOK'
    BY <2>0, <1>1 DEF ViewersOK, LoginRequest, LoginStep, viewers
  <2>2. UNCHANGED stream /\ UNCHANGED record_clients /\ UNCHANGED player /\
       UNCHANGED console /\ UNCHANGED <<switches, locked, history>> /\ record' = record
    BY <2>0 DEF LoginRequest, stream
  <2> QED BY <1>1, <2>1, <2>2, Kept
<1>20. ASSUME CopyRoster PROVE TypeOK'
  <2>0. CopyRoster
    BY <1>20
  <2>1. ViewersOK'
    <3>1. login' \in [step : LoginStep, who : Viewer \cup {NoViewer}, roster : SUBSET Player]
      BY <2>0, <1>1 DEF ViewersOK, RosterOK, LoginStep, CopyRoster
    <3> QED BY <2>0, <1>1, <3>1 DEF ViewersOK, CopyRoster
  <2>2. UNCHANGED stream /\ UNCHANGED record_clients /\ UNCHANGED player /\
       UNCHANGED console /\ UNCHANGED <<switches, locked, history>> /\ record' = record
    BY <2>0 DEF CopyRoster, stream
  <2> QED BY <1>1, <2>1, <2>2, Kept
<1>21. ASSUME Welcome PROVE TypeOK'
  <2>0. Welcome
    BY <1>21
  <2>1. ViewersOK'
    <3>1. login.who \in clients /\ login.roster \subseteq Player /\ clients \subseteq Viewer
      BY <2>0, <1>1 DEF ViewersOK, LoginIn, Welcome
    <3>2. Accepted(login.who, login.roster) \subseteq Player
      BY <1>1, <3>1 DEF ViewersOK, Accepted
    <3>3. shown' \in [Viewer -> SUBSET Player]
      BY <2>0, <1>1, <3>1, <3>2 DEF ViewersOK, Welcome
    <3>4. login' \in [step : LoginStep, who : Viewer \cup {NoViewer}, roster : SUBSET Player]
      BY <2>0 DEF LoginStep, Welcome
    <3> QED BY <2>0, <1>1, <3>1, <3>3, <3>4 DEF ViewersOK, Welcome
  <2>2. UNCHANGED stream /\ UNCHANGED record_clients /\ UNCHANGED player /\
       UNCHANGED console /\ UNCHANGED <<switches, locked, history>> /\ record' = record
    BY <2>0 DEF Welcome, stream
  <2> QED BY <1>1, <2>1, <2>2, Kept
<1>22. ASSUME NEW v \in Viewer, Cleanup(v) PROVE TypeOK'
  <2>0. Cleanup(v)
    BY <1>22
  <2>1. ViewersOK'
    BY <2>0, <1>1 DEF ViewersOK, Cleanup, Welcomed, viewers
  <2>2. UNCHANGED stream /\ UNCHANGED record_clients /\ UNCHANGED player /\
       UNCHANGED console /\ UNCHANGED <<switches, locked, history>> /\ record' = record
    BY <2>0 DEF Cleanup, stream
  <2> QED BY <1>1, <2>1, <2>2, Kept
<1>23. CASE UNCHANGED vars
  BY <1>1, <1>23, Kept DEF vars, stream
<1> QED BY <1>2, <1>3, <1>4, <1>5, <1>6, <1>7, <1>8, <1>9, <1>10, <1>11, <1>12, <1>13,
    <1>14, <1>15, <1>16, <1>17, <1>18, <1>19, <1>20, <1>21, <1>22, <1>23
  DEF Next, PlayerThread, ConsoleThread, Type, ServerThread

(* The threads keep out of each other's way. *)
LEMMA ControlStep == TypeInv /\ [Next]_vars => Control'
<1> SUFFICES ASSUME TypeInv, [Next]_vars PROVE Control'
  OBVIOUS
<1>1. Control /\ PlayerOK /\ ConsoleOK /\ StreamOK
  BY Parts DEF TypeInv
<1>2. ASSUME Check PROVE Control'
  BY <1>1, <1>2, Loaded DEF PlayerOK, StreamOK, Control, Mutex, Paused, Alone, InRecord,
      Check, stream, switches, Last
<1>3. ASSUME Read PROVE Control'
  BY <1>1, <1>3, Loaded DEF PlayerOK, StreamOK, Control, Mutex, Paused, Alone, InRecord,
      Read, stream, switches, Last
<1>4. ASSUME Wake PROVE Control'
  BY <1>1, <1>4, Loaded DEF PlayerOK, StreamOK, Control, Mutex, Paused, Alone, InRecord,
      Wake, stream, switches, Last
<1>5. ASSUME Parse PROVE Control'
  BY <1>1, <1>5, Loaded DEF PlayerOK, StreamOK, Control, Mutex, Paused, Alone, InRecord,
      Parse, stream, switches, Last
<1>6. ASSUME Broadcast PROVE Control'
  BY <1>1, <1>6, Loaded DEF PlayerOK, StreamOK, Control, Mutex, Paused, Alone, InRecord,
      Broadcast, stream, switches, Last
<1>7. ASSUME Leave PROVE Control'
  BY <1>1, <1>7, Loaded DEF PlayerOK, StreamOK, Control, Mutex, Paused, Alone, InRecord,
      Leave, stream, switches, Last
<1>8. ASSUME Play PROVE Control'
  BY <1>1, <1>8, Loaded DEF PlayerOK, StreamOK, Control, Mutex, Paused, Alone, InRecord,
      Play, Typed, At, stream, switches, Last
<1>9. ASSUME Start PROVE Control'
  BY <1>1, <1>9, Loaded DEF PlayerOK, StreamOK, Control, Mutex, Paused, Alone, InRecord,
      Start, stream, switches, Last
<1>10. ASSUME Pause PROVE Control'
  BY <1>1, <1>10, Loaded DEF PlayerOK, StreamOK, Control, Mutex, Paused, Alone, InRecord,
      Pause, Typed, stream, switches, Last
<1>11. ASSUME NEW t \in Destinations, Seek(t) PROVE Control'
  BY <1>1, <1>11, Loaded DEF PlayerOK, StreamOK, Control, Mutex, Paused, Alone, InRecord,
      Seek, Typed, stream, switches, Last
<1>12. ASSUME Settle PROVE Control'
  BY <1>1, <1>12 DEF ConsoleOK, Control, Mutex, Paused, Alone, InRecord, Settle, At,
      stream, switches, Last
<1>13. ASSUME Reposition PROVE Control'
  BY <1>1, <1>13, Loaded DEF PlayerOK, StreamOK, Control, Mutex, Paused, Alone, InRecord,
      Reposition, At, stream, switches, Last
<1>14. ASSUME ForwardSeek PROVE Control'
  BY <1>1, <1>14, Loaded DEF PlayerOK, StreamOK, Control, Mutex, Paused, Alone, InRecord,
      ForwardSeek, At, stream, switches, Last
<1>15. ASSUME Rebuild PROVE Control'
  BY <1>1, <1>15, Loaded DEF PlayerOK, StreamOK, Control, Mutex, Paused, Alone, InRecord,
      Rebuild, At, stream, switches, Last
<1>16. ASSUME Tell PROVE Control'
  BY <1>1, <1>16, Loaded DEF PlayerOK, StreamOK, Control, Mutex, Paused, Alone, InRecord,
      Tell, At, stream, switches, Last
<1>17. ASSUME Stop PROVE Control'
  BY <1>1, <1>17, Loaded DEF PlayerOK, StreamOK, Control, Mutex, Paused, Alone, InRecord,
      Stop, Typed, At, stream, switches, Last
<1>18. ASSUME Stopped PROVE Control'
  BY <1>1, <1>18, Loaded DEF PlayerOK, StreamOK, Control, Mutex, Paused, Alone, InRecord,
      Stopped, At, stream, switches, Last
<1>19. ASSUME NEW v \in Viewer, LoginRequest(v) PROVE Control'
  BY <1>1, <1>19, Loaded DEF PlayerOK, StreamOK, Control, Mutex, Paused, Alone, InRecord,
      LoginRequest, stream, switches, Last
<1>20. ASSUME CopyRoster PROVE Control'
  BY <1>1, <1>20, Loaded DEF PlayerOK, StreamOK, Control, Mutex, Paused, Alone, InRecord,
      CopyRoster, stream, switches, Last
<1>21. ASSUME Welcome PROVE Control'
  BY <1>1, <1>21, Loaded DEF PlayerOK, StreamOK, Control, Mutex, Paused, Alone, InRecord,
      Welcome, stream, switches, Last
<1>22. ASSUME NEW v \in Viewer, Cleanup(v) PROVE Control'
  BY <1>1, <1>22, Loaded DEF PlayerOK, StreamOK, Control, Mutex, Paused, Alone, InRecord,
      Cleanup, stream, switches, Last
<1>23. CASE UNCHANGED vars
  BY <1>1, <1>23 DEF Control, Mutex, Paused, Alone, InRecord, vars, stream, switches, Last
<1> QED BY <1>2, <1>3, <1>4, <1>5, <1>6, <1>7, <1>8, <1>9, <1>10, <1>11, <1>12, <1>13,
    <1>14, <1>15, <1>16, <1>17, <1>18, <1>19, <1>20, <1>21, <1>22, <1>23
  DEF Next, PlayerThread, ConsoleThread, Type, ServerThread

LEMMA LoginInStep == TypeInv /\ [Next]_vars => LoginIn'
<1> SUFFICES ASSUME TypeInv, [Next]_vars PROVE LoginIn'
  OBVIOUS
<1>1. LoginIn /\ ViewersOK
  BY Parts DEF TypeInv
<1>2. ASSUME NEW v \in Viewer, LoginRequest(v) \/ Cleanup(v) PROVE LoginIn'
  BY <1>1, <1>2, ReplayerAssumption DEF LoginIn, LoginRequest, Cleanup
<1>3. ASSUME CopyRoster \/ Welcome PROVE LoginIn'
  BY <1>1, <1>3 DEF LoginIn, CopyRoster, Welcome
<1>4. ASSUME PlayerThread PROVE UNCHANGED <<login, clients>>
  BY <1>4 DEF PlayerThread, Check, Read, Wake, Parse, Broadcast, Leave, viewers
<1>5. ASSUME ConsoleThread PROVE UNCHANGED <<login, clients>>
  BY <1>5 DEF ConsoleThread, Start, Settle, Reposition, ForwardSeek, Rebuild, Tell,
      Stopped, viewers
<1>6. ASSUME Type PROVE UNCHANGED <<login, clients>>
  BY <1>6 DEF Type, Play, Pause, Seek, Stop, viewers
<1>7. ASSUME UNCHANGED vars PROVE UNCHANGED <<login, clients>>
  BY <1>7 DEF vars, viewers
<1>8. UNCHANGED <<login, clients>> => LoginIn'
  BY <1>1 DEF LoginIn
<1> QED BY <1>2, <1>3, <1>4, <1>5, <1>6, <1>7, <1>8 DEF Next, ServerThread

(* What a seek knows is kept by the other threads: they leave the stream   *)
(* alone, or read it while no seek does.                                   *)
LEMMA LandedStep == TypeInv /\ [Next]_vars => Landed'
<1> SUFFICES ASSUME TypeInv, [Next]_vars PROVE Landed'
  OBVIOUS
<1>1. /\ StreamOK /\ PlayerOK /\ ConsoleOK /\ Control /\ Landed /\ TypeOK
  BY Parts DEF TypeInv
<1>2. ASSUME UNCHANGED <<stream, console>> PROVE Landed'
  BY <1>1, <1>2 DEF Landed, stream, Last, Time, duration
<1>3. CASE Read
  <2>1. console.step \notin {"place", "forward", "rebuild"}
    BY <1>1, <1>3 DEF Control, Alone, Read
  <2> QED BY <2>1, <1>3, Zenon DEF Landed, Read
<1>4. CASE Reposition
  <2> DEFINE s == Segment(SegmentOf(console.dest))
  <2>1. /\ console.step = "place" /\ console.dest \in Nat /\ console.dest <= duration
        /\ record \in Records
    BY <1>1, <1>4 DEF Reposition, ConsoleOK, Landed, StreamOK
  <2>2. /\ \A i \in 1..Last : i < s.position => Time(i) < console.dest
        /\ s.time >= console.dest => \A i \in 1..Last : i >= s.position => Time(i) >= console.dest
    BY <2>1, SegmentLands
  <2> HIDE DEF s
  <2>3. /\ next' = s.position /\ now' = s.time /\ record' = record
        /\ console'.step = "forward" /\ console'.dest = console.dest
    BY <1>4 DEF Reposition, At, s
  <2> QED BY <2>1, <2>2, <2>3 DEF Landed, Last, Time, duration
<1>5. CASE ForwardSeek
  <2>1. \A i \in 1..Last : /\ Time(i) < console.dest => i < next'
                           /\ i < next' - 1 => Time(i) < console.dest
    BY <1>1, <1>5, ForwardLands
  <2>2. /\ record' = record /\ console.step = "forward"
        /\ console'.step = "rebuild" /\ console'.dest = console.dest
    BY <1>5 DEF ForwardSeek, At
  <2> QED BY <1>1, <2>1, <2>2 DEF Landed, Last, Time, duration
<1>6. CASE Settle
  <2>1. CASE console.dest <= duration
    <3>1. /\ console'.step = "place" /\ console'.dest = console.dest
          /\ record' = record
      BY <1>1, <1>6, <2>1, Loaded DEF Settle, At, ConsoleOK, StreamOK, stream
    <3> QED BY <2>1, <3>1 DEF Landed, duration, Last, Time
  <2>2. CASE console.dest > duration
    <3>1. console'.step \in {"idle", "join"}
      BY <1>1, <1>6, <2>2, Loaded DEF Settle, At, ConsoleOK, StreamOK
    <3> QED BY <3>1 DEF Landed
  <2> QED BY <1>1, <2>1, <2>2, Loaded DEF ConsoleOK, StreamOK
<1>7. ASSUME \/ Play \/ (\E t \in Destinations : Seek(t)) \/ Stop \/ Start
             \/ Rebuild \/ Tell \/ Stopped
      PROVE  Landed'
  <2>1. console'.step \notin {"place", "forward", "rebuild"}
    BY <1>1, <1>7 DEF Play, Seek, Stop, Start, Rebuild, Tell, Stopped, At, ConsoleOK
  <2> QED BY <2>1 DEF Landed
<1>8. ASSUME \/ Check \/ Wake \/ Parse \/ Broadcast \/ Leave \/ Pause \/ ServerThread
             \/ UNCHANGED vars
      PROVE  UNCHANGED <<stream, console>>
  BY <1>8 DEF Check, Wake, Parse, Broadcast, Leave, Pause, ServerThread, LoginRequest,
              CopyRoster, Welcome, Cleanup, vars
<1> QED BY <1>2, <1>3, <1>4, <1>5, <1>6, <1>7, <1>8
  DEF Next, PlayerThread, ConsoleThread, Type

LEMMA TypeInit == Init => TypeInv
<1> SUFFICES ASSUME Init PROVE TypeInv
  OBVIOUS
<1>1. record \in Records /\ Last \in Nat /\ Last > 0
  BY Loaded DEF Init
<1>2. TypeOK
  <2>1. StreamOK
    BY <1>1 DEF Init, StreamOK
  <2>2. PlayerOK /\ ConsoleOK
    BY <1>1 DEF Init, PlayerOK, ConsoleOK, PlayerStep, ConsoleStep
  <2>3. FlagsOK
    BY DEF Init, FlagsOK
  <2>4. ViewersOK
    BY DEF Init, ViewersOK, LoginStep
  <2>5. RosterOK
    BY DEF Init, RosterOK, Online
  <2> QED BY <2>1, <2>2, <2>3, <2>4, <2>5, Parts
<1>3. Control /\ LoginIn /\ Landed
  BY DEF Init, Control, Mutex, Paused, Alone, InRecord, LoginIn, Landed
<1> QED BY <1>2, <1>3 DEF TypeInv

LEMMA Inductive == Spec => []TypeInv
<1>1. TypeInv /\ [Next]_vars => TypeInv'
  BY TypeStep, ControlStep, LoginInStep, LandedStep DEF TypeInv
<1> QED BY TypeInit, <1>1, PTL DEF Spec

(* Type correctness. *)
THEOREM TypeCorrect == Spec => []TypeOK
<1>1. TypeInv => TypeOK
  BY DEF TypeInv
<1> QED BY Inductive, <1>1, PTL

(* Every seek lands: the index never places the stream after the            *)
(* destination, and forward_seek passes all that is before it and at most   *)
(* one entry that is not.                                                   *)
THEOREM SeeksLand == Spec => SeekLands
<1> DEFINE Landing ==
      console.step = "forward" /\ console'.step = "rebuild"
      => \A i \in 1..Last : /\ Time(i) < console.dest => i < next'
                            /\ i < next' - 1 => Time(i) < console.dest
<1>1. TypeInv /\ [Next]_vars => Landing
  <2> SUFFICES ASSUME TypeInv, [Next]_vars,
                      console.step = "forward", console'.step = "rebuild"
               PROVE  \A i \in 1..Last : /\ Time(i) < console.dest => i < next'
                                         /\ i < next' - 1 => Time(i) < console.dest
    OBVIOUS
  <2>1. ForwardSeek
    BY DEF Next, PlayerThread, Check, Read, Wake, Parse, Broadcast, Leave, ConsoleThread,
        Start,
           Settle, Reposition, Rebuild, Tell, Stopped, Type, Typed, Play, Pause, Seek, Stop,
           ServerThread, LoginRequest, CopyRoster, Welcome, Cleanup, vars
  <2> QED BY <2>1, ForwardLands DEF TypeInv
<1>2. Spec => [][Landing]_vars
  BY Inductive, <1>1, PTL DEF Spec
<1> QED BY <1>2 DEF SeekLands

-----------------------------------------------------------------------------
(* What an entry does to a set of players. *)
LEMMA AppliedFacts ==
  ASSUME NEW e \in Entry, NEW S, NEW T
  PROVE  /\ Applied(Applied(S, e), e) = Applied(S, e)
         /\ S \subseteq T => Applied(S, e) \subseteq Applied(T, e)
         /\ Applied(S \cup T, e) = Applied(S, e) \cup Applied(T, e)
         /\ ~Changes(e) => Applied(S, e) = S
         /\ Welcomes(e) => Applied(S, e) = e.players /\ Changes(e)
<1>1. CASE e.code = "LoginAcceptedV3"
  BY <1>1 DEF Applied, Changes, Welcomes
<1>2. CASE e.code = "PlayerConnectedV2"
  BY <1>2 DEF Applied, Changes, Welcomes
<1>3. CASE e.code = "PlayerDisconnected"
  BY <1>3 DEF Applied, Changes, Welcomes
<1>4. CASE e.code = "Other"
  BY <1>4 DEF Applied, Changes, Welcomes
<1> QED BY <1>1, <1>2, <1>3, <1>4 DEF Entry, Code

(* The player thread has parsed an entry that it is about to broadcast, so *)
(* that the viewers are one entry behind record_clients_.                  *)
Ahead == player.step = "broadcast" /\ ~rebuilt
Lead(S) == IF Ahead THEN Applied(S, held) ELSE S

(* Viewers who are out show nothing; those who are in have been welcomed.  *)
Present ==
  /\ \A v \in Viewer \ clients : shown[v] = {} /\ v \notin welcomed
  /\ \A v \in clients : v # login.who => v \in welcomed
(* Broadcasting the entry again would change nothing. *)
Fixed == Lead(record_clients) = record_clients
(* Each viewer is where record_clients_ is, up to the entry about to be    *)
(* broadcast; so is the copy made for a login, and what a viewer shows     *)
(* before it is welcomed is a part of it.                                  *)
InAgree == \A v \in clients \ astray : v # login.who => Lead(shown[v]) = record_clients
CopyAgrees ==
  login.step = "copied" /\ login.who \notin astray => Lead(login.roster) = record_clients
EnteringAgrees ==
  login.step # "idle" /\ login.who \notin welcomed \cup astray
  => Lead(shown[login.who]) \subseteq record_clients
Agree == console.step # "tell" => InAgree /\ CopyAgrees /\ EnteringAgrees

RosterInv == Present /\ Fixed /\ Agree

LEMMA RosterInit == Init => RosterInv
BY DEF Init, RosterInv, Present, Fixed, Agree, InAgree, CopyAgrees, EnteringAgrees, Lead,
    Ahead

(* Steps that move neither the rosters nor the player thread past a parse  *)
(* or a broadcast, nor a seek past its telling.                            *)
LEMMA QuietStep ==
  ASSUME RosterInv, UNCHANGED <<record, record_clients, viewers, rebuilt>>,
         \/ UNCHANGED player
         \/ player.step # "broadcast" /\ player'.step # "broadcast",
         console.step # "tell" \/ console'.step = "tell"
  PROVE  RosterInv'
<1>1. UNCHANGED <<record_clients, login, clients, shown, welcomed, astray>>
  BY DEF viewers
<1>2. CASE UNCHANGED player
  BY <1>1, <1>2 DEF RosterInv, Present, Fixed, Agree, InAgree, CopyAgrees, EnteringAgrees,
                    Lead, Ahead, held
<1>3. CASE player.step # "broadcast" /\ player'.step # "broadcast"
  BY <1>1, <1>3 DEF RosterInv, Present, Fixed, Agree, InAgree, CopyAgrees, EnteringAgrees,
                    Lead, Ahead
<1> QED BY <1>2, <1>3

(* The entry the player thread holds is one. *)
LEMMA HeldFacts ==
  ASSUME TypeInv, player.step \in {"sleep", "parse", "broadcast"}
  PROVE  held \in Entry /\ player.entry \in 1..Last
<1>1. player.entry \in 1..Last
  BY Parts, Loaded DEF TypeInv, PlayerOK, StreamOK, Control, InRecord
<1> QED BY <1>1, Parts, RecordFacts DEF TypeInv, StreamOK, held, Last

LEMMA ParseStep ==
  ASSUME TypeInv, RosterInv, Parse
  PROVE  RosterInv'
<1>1. held \in Entry
  BY HeldFacts DEF Parse
<1>2. /\ held' = held /\ Ahead' /\ ~Ahead
      /\ record_clients' = Applied(record_clients, held)
      /\ UNCHANGED <<console, login, clients, shown, welcomed, astray>>
  BY DEF Parse, Ahead, held, viewers, stream
<1>3. Present' /\ Fixed'
  BY <1>1, <1>2, AppliedFacts DEF RosterInv, Present, Fixed, Lead
<1>4. ASSUME console.step # "tell" PROVE InAgree' /\ CopyAgrees' /\ EnteringAgrees'
  <2>1. InAgree /\ CopyAgrees /\ EnteringAgrees
    BY <1>4 DEF RosterInv, Agree
  <2>2. InAgree' /\ CopyAgrees'
    BY <2>1, <1>2 DEF InAgree, CopyAgrees, Lead
  <2>3. EnteringAgrees'
    BY <2>1, <1>1, <1>2, AppliedFacts DEF EnteringAgrees, Lead
  <2> QED BY <2>2, <2>3
<1> QED BY <1>2, <1>3, <1>4 DEF RosterInv, Agree

LEMMA BroadcastStep ==
  ASSUME TypeInv, RosterInv, Broadcast
  PROVE  RosterInv'
<1>1. held \in Entry /\ LoginIn /\ ViewersOK
  BY HeldFacts, Parts DEF Broadcast, TypeInv
<1>2. /\ ~Ahead' /\ player.step = "broadcast"
      /\ UNCHANGED <<record, record_clients, console, login, clients>>
      /\ \A v \in Viewer : shown'[v] = IF v \in clients THEN Heard(v, held) ELSE shown[v]
      /\ welcomed' = IF Welcomes(held) THEN welcomed \cup clients ELSE welcomed
      /\ ~Changes(held) => astray' = astray
      /\ Changes(held) /\ rebuilt => astray' = clients
      /\ Changes(held) /\ ~rebuilt => astray' = astray \cup Overtaken
  BY DEF Broadcast, Ahead, stream, Audience
<1>3. Present' /\ Fixed'
  BY <1>1, <1>2 DEF RosterInv, Present, Fixed, Lead, ViewersOK
<1>4. ASSUME console.step # "tell" PROVE InAgree' /\ CopyAgrees' /\ EnteringAgrees'
  <2>1. InAgree /\ CopyAgrees /\ EnteringAgrees /\ Present
    BY <1>4 DEF RosterInv, Agree
  <2>2. CASE ~Changes(held)
    <3>1. ~Welcomes(held) /\ \A S : Applied(S, held) = S
      BY <1>1, <2>2, AppliedFacts
    <3>2. astray' = astray /\ welcomed' = welcomed
      BY <1>2, <2>2, <3>1
    <3>3. \A v \in Viewer : Heard(v, held) = shown[v]
      BY <3>1 DEF Heard
    <3>4. \A v \in Viewer : shown'[v] = shown[v]
      BY <1>2, <3>3
    <3>5. \A S : Lead(S) = S
      BY <3>1 DEF Lead
    <3> QED BY <1>1, <1>2, <2>1, <3>2, <3>4, <3>5 DEF InAgree, CopyAgrees, EnteringAgrees,
        Lead, ViewersOK, LoginIn
  <2>3. CASE Changes(held) /\ rebuilt
    <3>1. astray' = clients
      BY <1>2, <2>3
    <3> QED BY <1>1, <1>2, <3>1 DEF InAgree, CopyAgrees, EnteringAgrees, LoginIn
  <2>4. CASE Changes(held) /\ ~rebuilt
    <3>1. astray' = astray \cup Overtaken /\ Ahead
      BY <1>2, <2>4 DEF Ahead
    <3>2. ASSUME NEW v \in clients \ astray', v # login.who
          PROVE  shown'[v] = record_clients
      <4>1. v \in Viewer /\ v \in welcomed /\ Applied(shown[v], held) = record_clients
        BY <1>1, <2>1, <3>1, <3>2 DEF ViewersOK, Present, InAgree, Lead
      <4>2. Heard(v, held) = Applied(shown[v], held)
        BY <1>1, <4>1, AppliedFacts DEF Heard, Accepted
      <4> QED BY <1>2, <3>2, <4>1, <4>2
    <3>3. InAgree'
      BY <1>2, <3>2 DEF InAgree, Lead
    <3>4. CopyAgrees'
      BY <1>2, <3>1 DEF CopyAgrees, Overtaken
    <3>5. ASSUME login.step # "idle", login.who \notin welcomed' \cup astray'
          PROVE  shown'[login.who] \subseteq record_clients
      <4>1. login.who \in clients /\ login.who \in Viewer /\ login.who \notin welcomed \cup astray
        BY <1>1, <1>2, <3>1, <3>5 DEF LoginIn, ViewersOK
      <4>2. ~Welcomes(held)
        BY <1>2, <3>5, <4>1
      <4>3. shown'[login.who] = Applied(shown[login.who], held)
        BY <1>2, <4>1, <4>2 DEF Heard
      <4> QED BY <2>1, <3>1, <3>5, <4>1, <4>3 DEF EnteringAgrees, Lead
    <3>6. EnteringAgrees'
      BY <1>2, <3>5 DEF EnteringAgrees, Lead
    <3> QED BY <3>3, <3>4, <3>6
  <2> QED BY <2>2, <2>3, <2>4
<1> QED BY <1>2, <1>3, <1>4 DEF RosterInv, Agree

LEMMA RebuildStep ==
  ASSUME RosterInv, Rebuild
  PROVE  RosterInv'
<1>1. /\ ~Ahead' /\ console'.step = "tell"
      /\ UNCHANGED <<login, clients, shown, welcomed>>
  BY DEF Rebuild, At, Ahead, viewers
<1> QED BY <1>1 DEF RosterInv, Present, Fixed, Agree, Lead

LEMMA TellStep ==
  ASSUME TypeInv, RosterInv, Tell
  PROVE  RosterInv'
<1>1. LoginIn /\ ViewersOK
  BY Parts DEF TypeInv
<1>2. /\ UNCHANGED <<record_clients, login, clients>>
      /\ \A S : Lead(S)' = Lead(S)
      /\ \A v \in Viewer :
           shown'[v] = IF v \in clients THEN Accepted(v, record_clients) ELSE shown[v]
      /\ welcomed' = welcomed \cup clients
      /\ astray' = Overtaken
  BY DEF Tell, Audience, stream, history, Lead, Ahead, held
<1>3. Present' /\ Fixed'
  BY <1>1, <1>2 DEF RosterInv, Present, Fixed, ViewersOK, Lead
<1>4. ASSUME NEW v \in clients, v # login.who
      PROVE  Lead(shown[v])' = record_clients'
  <2>1. v \in Viewer /\ v \in welcomed
    BY <1>1, <1>4 DEF ViewersOK, RosterInv, Present
  <2>2. shown'[v] = record_clients
    BY <1>2, <1>4, <2>1 DEF Accepted
  <2> QED BY <1>2, <1>3, <2>2 DEF Fixed, Lead
<1>5. InAgree'
  BY <1>2, <1>4 DEF InAgree
<1>6. CopyAgrees'
  BY <1>2 DEF CopyAgrees, Overtaken
<1>7. EnteringAgrees'
  BY <1>1, <1>2 DEF EnteringAgrees, LoginIn
<1> QED BY <1>3, <1>5, <1>6, <1>7 DEF RosterInv, Agree

LEMMA LoginRequestStep ==
  ASSUME TypeInv, RosterInv, NEW v \in Viewer, LoginRequest(v)
  PROVE  RosterInv'
<1>1. LoginIn /\ ViewersOK /\ NoViewer \notin Viewer
  BY Parts, ReplayerAssumption DEF TypeInv
<1>2. /\ login.who = NoViewer /\ v \notin clients
      /\ login'.step = "entered" /\ login'.who = v /\ clients' = clients \cup {v}
      /\ UNCHANGED <<record_clients, console, shown, welcomed, astray>>
      /\ \A S : Lead(S)' = Lead(S)
  BY <1>1 DEF LoginRequest, LoginIn, stream, history, Lead, Ahead, held
<1>3. Present' /\ Fixed'
  BY <1>1, <1>2 DEF RosterInv, Present, Fixed, ViewersOK, Lead
<1>4. ASSUME console.step # "tell" PROVE InAgree' /\ CopyAgrees' /\ EnteringAgrees'
  <2>1. InAgree
    BY <1>4 DEF RosterInv, Agree
  <2>2. InAgree' /\ CopyAgrees'
    BY <1>1, <1>2, <2>1 DEF InAgree, CopyAgrees, ViewersOK, Lead
  <2>3. Lead({}) \subseteq Lead(record_clients)
    <3>1. CASE Ahead
      <4>1. held \in Entry
        BY <3>1, HeldFacts DEF Ahead
      <4> QED BY <3>1, <4>1, AppliedFacts DEF Lead
    <3>2. CASE ~Ahead
      BY <3>2 DEF Lead
    <3> QED BY <3>1, <3>2
  <2>4. shown[v] = {}
    BY <1>2 DEF RosterInv, Present
  <2>5. EnteringAgrees'
    BY <1>2, <2>3, <2>4 DEF EnteringAgrees, RosterInv, Fixed, Lead
  <2> QED BY <2>2, <2>5
<1> QED BY <1>2, <1>3, <1>4 DEF RosterInv, Agree

LEMMA CopyRosterStep ==
  ASSUME RosterInv, CopyRoster
  PROVE  RosterInv'
<1>1. /\ login.step = "entered"
      /\ login'.step = "copied" /\ login'.who = login.who /\ login'.roster = record_clients
      /\ UNCHANGED <<record_clients, console, clients, shown, welcomed, astray>>
      /\ \A S : Lead(S)' = Lead(S)
  BY DEF CopyRoster, stream, history, Lead, Ahead, held
<1>2. Present' /\ Fixed'
  BY <1>1 DEF RosterInv, Present, Fixed, Lead
<1>3. ASSUME console.step # "tell" PROVE InAgree' /\ CopyAgrees' /\ EnteringAgrees'
  <2>1. InAgree /\ EnteringAgrees /\ Fixed
    BY <1>3 DEF RosterInv, Agree
  <2> QED BY <1>1, <2>1 DEF InAgree, CopyAgrees, EnteringAgrees, Fixed, Lead
<1> QED BY <1>1, <1>2, <1>3 DEF RosterInv, Agree

LEMMA WelcomeStep ==
  ASSUME TypeInv, RosterInv, Welcome
  PROVE  RosterInv'
<1>1. LoginIn /\ ViewersOK /\ NoViewer \notin Viewer
  BY Parts, ReplayerAssumption DEF TypeInv
<1> DEFINE w == login.who
<1>2. /\ login.step = "copied" /\ w \in clients /\ w \in Viewer
      /\ login'.step = "idle" /\ login'.who = NoViewer
      /\ welcomed' = welcomed \cup {w}
      /\ \A v \in Viewer : shown'[v] = IF v = w THEN Accepted(w, login.roster) ELSE shown[v]
      /\ UNCHANGED <<record_clients, console, clients, astray>>
      /\ \A S : Lead(S)' = Lead(S)
  BY <1>1 DEF Welcome, LoginIn, ViewersOK, stream, history, Lead, Ahead, held
<1>3. Present' /\ Fixed'
  BY <1>1, <1>2 DEF RosterInv, Present, Fixed, ViewersOK, Lead
<1>4. ASSUME console.step # "tell" PROVE InAgree'
  <2>1. InAgree /\ CopyAgrees /\ EnteringAgrees
    BY <1>4 DEF RosterInv, Agree
  <2>2. ASSUME w \notin astray PROVE Lead(Accepted(w, login.roster)) = record_clients
    <3>1. Lead(login.roster) = record_clients
      BY <1>2, <2>1, <2>2 DEF CopyAgrees
    <3>2. CASE w \in welcomed
      BY <3>1, <3>2 DEF Accepted
    <3>3. CASE w \notin welcomed
      <4>1. Lead(shown[w]) \subseteq record_clients
        BY <1>2, <2>1, <2>2, <3>3 DEF EnteringAgrees
      <4>2. Lead(shown[w] \cup login.roster) = Lead(shown[w]) \cup Lead(login.roster)
        <5>1. CASE Ahead
          <6>1. held \in Entry
            BY <5>1, HeldFacts DEF Ahead
          <6> QED BY <5>1, <6>1, AppliedFacts DEF Lead
        <5>2. CASE ~Ahead
          BY <5>2 DEF Lead
        <5> QED BY <5>1, <5>2
      <4> QED BY <3>1, <3>3, <4>1, <4>2 DEF Accepted
    <3> QED BY <3>2, <3>3
  <2>3. ASSUME NEW v \in clients \ astray PROVE Lead(shown'[v]) = record_clients
    BY <1>1, <1>2, <2>1, <2>2, <2>3 DEF InAgree, ViewersOK
  <2> QED BY <1>2, <2>3 DEF InAgree, Lead
<1>5. CopyAgrees' /\ EnteringAgrees'
  BY <1>2 DEF CopyAgrees, EnteringAgrees
<1> QED BY <1>2, <1>3, <1>4, <1>5 DEF RosterInv, Agree

LEMMA CleanupStep ==
  ASSUME TypeInv, RosterInv, NEW u \in Viewer, Cleanup(u)
  PROVE  RosterInv'
<1>1. LoginIn /\ ViewersOK /\ NoViewer \notin Viewer
  BY Parts, ReplayerAssumption DEF TypeInv
<1>2. /\ login.step = "idle" /\ login.who = NoViewer
      /\ clients' = clients \ {u} /\ welcomed' = welcomed \ {u} /\ astray' = astray \ {u}
      /\ \A v \in Viewer : shown'[v] = IF v = u THEN {} ELSE shown[v]
      /\ UNCHANGED <<record_clients, console, login>>
      /\ \A S : Lead(S)' = Lead(S)
  BY <1>1 DEF Cleanup, Welcomed, LoginIn, ViewersOK, stream, history, Lead, Ahead, held
<1>3. Present' /\ Fixed'
  BY <1>1, <1>2 DEF RosterInv, Present, Fixed, ViewersOK, Lead
<1>4. ASSUME console.step # "tell" PROVE InAgree'
  <2>1. InAgree
    BY <1>4 DEF RosterInv, Agree
  <2>2. ASSUME NEW v \in clients' \ astray' PROVE Lead(shown'[v]) = record_clients
    BY <1>1, <1>2, <2>1, <2>2 DEF InAgree, ViewersOK
  <2> QED BY <1>2, <2>2 DEF InAgree, Lead
<1>5. CopyAgrees' /\ EnteringAgrees'
  BY <1>2 DEF CopyAgrees, EnteringAgrees
<1> QED BY <1>2, <1>3, <1>4, <1>5 DEF RosterInv, Agree

-----------------------------------------------------------------------------
LEMMA RosterStep == TypeInv /\ RosterInv /\ [Next]_vars => RosterInv'
<1> SUFFICES ASSUME TypeInv, RosterInv, [Next]_vars PROVE RosterInv'
  OBVIOUS
<1> DEFINE Quiet ==
      /\ UNCHANGED <<record, record_clients, viewers, rebuilt>>
      /\ UNCHANGED player \/ (player.step # "broadcast" /\ player'.step # "broadcast")
      /\ console.step # "tell" \/ console'.step = "tell"
<1>1. Quiet => RosterInv'
  BY QuietStep
<1>2. Check \/ Read \/ Wake \/ Leave => Quiet
  BY DEF Check, Read, Wake, Leave, stream, history
<1>3. Play \/ Pause \/ Stop \/ (\E t \in Destinations : Seek(t)) => Quiet
  BY DEF Play, Pause, Stop, Seek, Typed, At, stream, history
<1>4. Start \/ Settle \/ Reposition \/ ForwardSeek \/ Stopped => Quiet
  BY DEF Start, Settle, Reposition, ForwardSeek, Stopped, At, stream, history
<1>5. UNCHANGED vars => Quiet
  BY DEF vars, stream, history
<1> HIDE DEF Quiet
<1>6. PlayerThread => RosterInv'
  BY <1>1, <1>2, ParseStep, BroadcastStep DEF PlayerThread
<1>7. ConsoleThread \/ Type => RosterInv'
  BY <1>1, <1>3, <1>4, RebuildStep, TellStep DEF ConsoleThread, Type
<1>8. ServerThread => RosterInv'
  BY LoginRequestStep, CopyRosterStep, WelcomeStep, CleanupStep DEF ServerThread
<1> QED BY <1>1, <1>5, <1>6, <1>7, <1>8 DEF Next

(* Between broadcasts every viewer who is in, and to whom nothing was sent *)
(* out of order, shows exactly the players of record_clients_.             *)
THEOREM RostersAgreeReplay == Spec => []RosterAgrees
<1>1. RosterInv => RosterAgrees
  BY DEF RosterInv, Agree, InAgree, Lead, Ahead, RosterAgrees
<1> QED BY Inductive, RosterInit, RosterStep, <1>1, PTL DEF Spec

-----------------------------------------------------------------------------
(* The players online after an entry are those before it, with the entry   *)
(* applied.                                                                *)
LEMMA OnlineStep ==
  ASSUME NEW r \in Records, NEW n \in 1..Len(r)
  PROVE  Online(r, n) = Applied(Online(r, n-1), r[n])
<1>1. /\ Len(r) \in Nat /\ n \in Nat /\ r[n].code \in Code /\ r[n].players \subseteq Player
      /\ r[n].code = "LoginAcceptedV3" <=> n = 1
  BY RecordFacts
<1>2. ASSUME NEW p \in Player
      PROVE  p \in Online(r, n) <=> \/ Joins(r, n, p)
                                    \/ p \in Online(r, n-1) /\ ~Leaves(r, n, p)
  BY <1>1 DEF Online
<1>3. Online(r, n) \subseteq Player /\ Online(r, n-1) \subseteq Player
  BY DEF Online
<1>4. CASE r[n].code = "LoginAcceptedV3"
  <2>1. Online(r, n-1) = {}
    BY <1>1, <1>4 DEF Online
  <2> QED BY <1>1, <1>2, <1>3, <1>4, <2>1 DEF Applied, Joins
<1>5. CASE r[n].code = "PlayerConnectedV2"
  BY <1>1, <1>2, <1>3, <1>5 DEF Applied, Joins, Leaves
<1>6. CASE r[n].code = "PlayerDisconnected"
  BY <1>1, <1>2, <1>3, <1>6 DEF Applied, Joins, Leaves
<1>7. CASE r[n].code = "Other"
  BY <1>1, <1>2, <1>3, <1>7 DEF Applied, Joins, Leaves
<1> QED BY <1>1, <1>4, <1>5, <1>6, <1>7 DEF Code

(* Unless it is unclear, whom the timeline has online at the destination   *)
(* of a seek is whom the entries before the place it lands at have.        *)
LEMMA RebuiltRight ==
  ASSUME TypeInv, Rebuild, ~Unclear(console.dest)
  PROVE  OnlineAt(console.dest) = Online(record, next - 1)
<1> DEFINE dest == console.dest
<1>1. /\ record \in Records /\ next \in 1..Last+1 /\ Last \in Nat /\ dest \in Nat
      /\ \A i \in 1..Last : Time(i) \in Nat
      /\ \A i \in 1..Last : Time(i) < dest => i < next
  BY Loaded DEF TypeInv, TypeOK, Landed, Rebuild
<1> HIDE DEF dest
<1>2. ASSUME NEW i \in 1..Last, Changes(record[i])
      PROVE  /\ i < next <=> Time(i) <= dest
             /\ i < next <=> ~(Time(i) >= dest)
  <2>1. Time(i) >= dest => ~(i < next) /\ Time(i) # dest
    BY <1>2 DEF Unclear, dest
  <2> QED BY <1>1, <2>1
<1>3. ASSUME NEW i \in 1..Last, NEW p
      PROVE  Joins(record, i, p) \/ Leaves(record, i, p) => Changes(record[i])
  BY DEF Joins, Leaves, Changes
<1>4. ASSUME NEW p \in Player PROVE p \in OnlineAt(dest) <=> p \in Online(record, next - 1)
  <2>1. ASSUME p \in OnlineAt(dest) PROVE p \in Online(record, next - 1)
    <3>1. PICK i \in 1..Last : /\ Joins(record, i, p) /\ Time(i) <= dest
                               /\ \A j \in i+1..Last : Leaves(record, j, p) => Time(j) >= dest
      BY <2>1 DEF OnlineAt
    <3>2. i \in 1..next-1
      BY <1>1, <1>2, <1>3, <3>1
    <3>3. ASSUME NEW j \in i+1..next-1 PROVE ~Leaves(record, j, p)
      BY <1>1, <1>2, <1>3, <3>1
    <3> QED BY <3>1, <3>2, <3>3 DEF Online
  <2>2. ASSUME p \in Online(record, next - 1) PROVE p \in OnlineAt(dest)
    <3>1. PICK i \in 1..next-1 : /\ Joins(record, i, p)
                                 /\ \A j \in i+1..next-1 : ~Leaves(record, j, p)
      BY <2>2 DEF Online
    <3>2. i \in 1..Last /\ Time(i) <= dest
      BY <1>1, <1>2, <1>3, <3>1
    <3>3. ASSUME NEW j \in i+1..Last, Leaves(record, j, p) PROVE Time(j) >= dest
      BY <1>1, <1>2, <1>3, <3>1, <3>2, <3>3
    <3> QED BY <3>1, <3>2, <3>3 DEF OnlineAt
  <2> QED BY <2>1, <2>2
<1> QED BY <1>4 DEF OnlineAt, Online, dest

(* What the player thread holds: an entry of before the last seek, or the  *)
(* one before the next.                                                    *)
Rebuilt == rebuilt => player.step \in {"parse", "broadcast"}
Sought == console.step \in {"forward", "rebuild"}
HeldIsLast ==
  player.step \in {"sleep", "parse"} /\ ~rebuilt /\ ~Sought => player.entry = next - 1
RecordInv == Rebuilt /\ HeldIsLast /\ PlaysRecord

LEMMA RecordInit == Init => RecordInv
BY DEF Init, RecordInv, Rebuilt, HeldIsLast, PlaysRecord

(* Steps that move neither the stream, nor the roster, nor the player      *)
(* thread past a parse, nor a seek past its rebuilding.                    *)
LEMMA StillStep ==
  ASSUME RecordInv, UNCHANGED <<record, next, record_clients, rebuilt, disturbed>>,
         \/ UNCHANGED player
         \/ player.step \notin {"sleep", "parse"} /\ player'.step \notin {"sleep", "parse"} /\ ~rebuilt
         \/ player.step = "sleep" /\ player'.step = "parse" /\ player'.entry = player.entry,
         Sought' <=> Sought
  PROVE  RecordInv'
<1>1. CASE UNCHANGED player
  BY <1>1 DEF RecordInv, Rebuilt, HeldIsLast, PlaysRecord, Played, Sought
<1>2. CASE player.step \notin {"sleep", "parse"} /\ player'.step \notin {"sleep", "parse"} /\ ~rebuilt
  BY <1>2 DEF RecordInv, Rebuilt, HeldIsLast, PlaysRecord, Played, Sought
<1>3. CASE player.step = "sleep" /\ player'.step = "parse" /\ player'.entry = player.entry
  BY <1>3 DEF RecordInv, Rebuilt, HeldIsLast, PlaysRecord, Played, Sought
<1> QED BY <1>1, <1>2, <1>3

LEMMA ReadRecord ==
  ASSUME TypeInv, RecordInv, Read
  PROVE  RecordInv'
<1>1. /\ player.step = "read" /\ ~rebuilt /\ rebuilt' = rebuilt
      /\ record' = record /\ record_clients' = record_clients /\ console' = console
      /\ next' = next + 1 /\ next \in 1..Last /\ Last \in Nat /\ record \in Records
  BY Loaded DEF Read, RecordInv, Rebuilt, TypeInv, TypeOK, Control, InRecord
<1>2. CASE player'.step = "sleep" /\ player'.entry = next /\ disturbed' = disturbed
  <2>1. Played' = next - 1 /\ Played = next - 1
    BY <1>1, <1>2 DEF Played
  <2> QED BY <1>1, <1>2, <2>1 DEF RecordInv, Rebuilt, HeldIsLast, PlaysRecord, Sought
<1>3. CASE player'.step = "leave" /\ disturbed' = (disturbed \/ Changes(record[next]))
  <2>1. Played' = next /\ Played = next - 1
    BY <1>1, <1>3 DEF Played
  <2>2. ~Changes(record[next]) => Online(record, next) = Online(record, next - 1)
    <3>1. Online(record, next) = Applied(Online(record, next-1), record[next])
      BY <1>1, OnlineStep DEF Last
    <3> QED BY <3>1 DEF Changes, Applied
  <2> QED BY <1>1, <1>3, <2>1, <2>2 DEF RecordInv, Rebuilt, HeldIsLast, PlaysRecord, Sought
<1> QED BY <1>2, <1>3 DEF Read

LEMMA ParseRecord ==
  ASSUME TypeInv, RecordInv, Parse
  PROVE  RecordInv'
<1>1. /\ player.step = "parse" /\ player'.step = "broadcast" /\ ~rebuilt'
      /\ record' = record /\ next' = next /\ console' = console
      /\ record_clients' = Applied(record_clients, held)
      /\ disturbed' = IF rebuilt THEN disturbed \/ Changes(held) ELSE disturbed /\ ~Welcomes(held)
      /\ next \in 1..Last+1 /\ Last \in Nat /\ record \in Records
      /\ player.entry \in 1..Last
  BY Loaded DEF Parse, stream, TypeInv, TypeOK, Control, InRecord
<1>2. Rebuilt' /\ HeldIsLast' /\ Played' = next - 1
  BY <1>1 DEF Rebuilt, HeldIsLast, Played
<1>3. ASSUME ~disturbed', ~Sought PROVE record_clients' = Online(record, next - 1)
  <2>1. CASE rebuilt
    <3>1. ~disturbed /\ ~Changes(held) /\ Played = next - 1
      BY <1>1, <1>3, <2>1 DEF Played
    <3> QED BY <1>1, <1>3, <3>1 DEF RecordInv, PlaysRecord, Sought, Changes, Applied
  <2>2. CASE ~rebuilt
    <3>1. player.entry = next - 1 /\ Played = next - 2
      BY <1>1, <1>3, <2>2 DEF RecordInv, HeldIsLast, Played
    <3>2. Online(record, next - 1) = Applied(Online(record, next - 2), held)
      <4>1. next - 1 \in 1..Len(record) /\ (next - 1) - 1 = next - 2
        BY <1>1, <3>1 DEF Last
      <4> QED BY <1>1, <3>1, <4>1, OnlineStep DEF held
    <3>3. CASE disturbed
      BY <1>1, <1>3, <2>2, <3>2, <3>3 DEF Welcomes, Applied
    <3>4. CASE ~disturbed
      BY <1>1, <1>3, <3>1, <3>2, <3>4 DEF RecordInv, PlaysRecord, Sought
    <3> QED BY <3>3, <3>4
  <2> QED BY <2>1, <2>2
<1> QED BY <1>1, <1>2, <1>3 DEF RecordInv, PlaysRecord, Sought

LEMMA BroadcastRecord ==
  ASSUME RecordInv, Broadcast
  PROVE  RecordInv'
<1>1. /\ player.step = "broadcast" /\ player'.step = "check" /\ ~rebuilt'
      /\ UNCHANGED <<record, next, console, record_clients, disturbed>>
  BY DEF Broadcast, stream
<1> QED BY <1>1 DEF RecordInv, Rebuilt, HeldIsLast, PlaysRecord, Played

LEMMA RebuildRecord ==
  ASSUME TypeInv, RecordInv, Rebuild
  PROVE  RecordInv'
<1>1. /\ console.step = "rebuild" /\ console'.step = "tell"
      /\ UNCHANGED <<record, next, player>>
      /\ record_clients' = OnlineAt(console.dest)
      /\ disturbed' = Unclear(console.dest)
      /\ rebuilt' = (player.step \in {"parse", "broadcast"})
  BY DEF Rebuild, At, stream
<1>2. player.step # "sleep"
  BY <1>1 DEF TypeInv, Control, Alone
<1>3. Rebuilt' /\ HeldIsLast' /\ Played' = next - 1
  BY <1>1, <1>2 DEF Rebuilt, HeldIsLast, Played
<1> QED BY <1>1, <1>3, RebuiltRight DEF RecordInv, PlaysRecord

(* While a seek is on its way to the roster nothing is promised of it.     *)
LEMMA SeekingRecord ==
  ASSUME RecordInv, Reposition \/ ForwardSeek
  PROVE  RecordInv'
<1>1. Sought' /\ UNCHANGED <<player, rebuilt>>
  BY DEF Reposition, ForwardSeek, At, Sought, history
<1> QED BY <1>1 DEF RecordInv, Rebuilt, HeldIsLast, PlaysRecord, Sought

LEMMA RecordStep == TypeInv /\ RecordInv /\ [Next]_vars => RecordInv'
<1> SUFFICES ASSUME TypeInv, RecordInv, [Next]_vars PROVE RecordInv'
  OBVIOUS
<1> DEFINE Still ==
      /\ UNCHANGED <<record, next, record_clients, rebuilt, disturbed>>
      /\ \/ UNCHANGED player
         \/ player.step \notin {"sleep", "parse"} /\ player'.step \notin {"sleep", "parse"} /\ ~rebuilt
         \/ player.step = "sleep" /\ player'.step = "parse" /\ player'.entry = player.entry
      /\ Sought' <=> Sought
<1>1. Still => RecordInv'
  BY StillStep
<1>2. Check \/ Wake \/ Leave => Still
  BY DEF Check, Wake, Leave, stream, history, Sought, RecordInv, Rebuilt
<1>3. Play \/ Pause \/ Stop \/ (\E t \in Destinations : Seek(t)) => Still
  BY DEF Play, Pause, Stop, Seek, Typed, At, stream, history, Sought
<1>4. Start \/ Stopped => Still
  BY DEF Start, Stopped, At, stream, history, Sought, RecordInv, Rebuilt
<1>5. Settle \/ Tell => Still
  BY DEF Settle, Tell, At, stream, history, Sought, TypeInv, TypeOK
<1>6. ServerThread => Still
  BY DEF ServerThread, LoginRequest, CopyRoster, Welcome, Cleanup, stream, history, Sought
<1>7. UNCHANGED vars => Still
  BY DEF vars, stream, history, Sought
<1> HIDE DEF Still
<1>8. PlayerThread => RecordInv'
  BY <1>1, <1>2, ReadRecord, ParseRecord, BroadcastRecord DEF PlayerThread
<1>9. ConsoleThread \/ Type => RecordInv'
  BY <1>1, <1>3, <1>4, <1>5, RebuildRecord, SeekingRecord DEF ConsoleThread, Type
<1> QED BY <1>1, <1>6, <1>7, <1>8, <1>9 DEF Next

(* record_clients_ is what the entries played lead to, from wherever a     *)
(* seek has put the stream.                                                *)
THEOREM PlaysTheRecord == Spec => []PlaysRecord
<1>1. RecordInv => PlaysRecord
  BY DEF RecordInv
<1> QED BY Inductive, RecordInit, RecordStep, <1>1, PTL DEF Spec
=============================================================================
