------------------------- MODULE MatchBoard_proofs --------------------------
(***************************************************************************)
(* Theorems about MatchBoard for every value of its constants: its types,  *)
(* what the boards record through any number of rounds, and what a client  *)
(* will show once it has handled all that the server has sent it.          *)
(***************************************************************************)
EXTENDS MatchBoard, SequenceTheorems, WellFoundedInduction, TLAPS

(* The records the server and the clients start from have their types. *)
LEMMA EmptyBoards ==
  /\ NoForfeits \in [Player -> Nat]
  /\ NoRankings \in Rankings
  /\ Absent \in Board
  /\ \A timed \in BOOLEAN : NewBoard(timed) \in Board
<1>1. NoForfeits \in [Player -> Nat]
  BY DEF NoForfeits
<1>2. NoRankings \in Rankings
  BY <1>1 DEF NoRankings, Rankings
<1>3. Absent \in Board
  BY <1>1 DEF Absent, Board
<1>4. \A timed \in BOOLEAN : NewBoard(timed) \in Board
  BY <1>3 DEF NewBoard, Board
<1>5. QED BY <1>1, <1>2, <1>3, <1>4

(* Spending keeps the bounds natural numbers. *)
LEMMA SpendType ==
  ASSUME NEW what \in {"joins", "played", "loads", "typed"}, Spend(what), TypeOK
  PROVE  left' \in [joins : Nat, played : Nat, loads : Nat, typed : Nat]
<1>1. left \in [joins : Nat, played : Nat, loads : Nat, typed : Nat]
  BY DEF TypeOK
<1>2. left[what] \in Nat
  BY <1>1
<1>3. left[what] - 1 \in Nat
  BY <1>2 DEF Spend
<1>4. [left EXCEPT ![what] = left[what] - 1]
        \in [joins : Nat, played : Nat, loads : Nat, typed : Nat]
  BY <1>1, <1>3
<1>5. QED BY <1>4 DEF Spend

(* What a player sends has the type of what it sends. *)
LEMMA SendType ==
  ASSUME NEW p \in Player, NEW m \in UpMessage, Send(p, m), TypeOK
  PROVE  outbox' \in [Player -> Seq(UpMessage)]
<1>1. Append(outbox[p], m) \in Seq(UpMessage)
  BY AppendProperties DEF TypeOK
<1>2. QED BY <1>1 DEF Send, TypeOK

(* Taking a message leaves a sequence, and the message is one. *)
LEMMA TakeType ==
  ASSUME NEW p \in Player, NEW code, Take(p, code), TypeOK
  PROVE  /\ Head(outbox[p]) \in UpMessage
         /\ Head(outbox[p]).code = code
         /\ outbox' \in [Player -> Seq(UpMessage)]
         /\ UNCHANGED <<clientVars, left>>
<1>1. outbox[p] \in Seq(UpMessage) /\ outbox[p] # <<>>
  BY DEF Take, TypeOK
<1>2. Head(outbox[p]) \in UpMessage /\ Tail(outbox[p]) \in Seq(UpMessage)
  BY <1>1, HeadTailProperties
<1>3. QED BY <1>2 DEF Take, TypeOK

(* A broadcast of a message leaves sequences of messages. *)
LEMMA BroadcastType ==
  ASSUME NEW m \in DownMessage, Broadcast(m), TypeOK
  PROVE  inbox' \in [Player -> Seq(DownMessage)]
<1>1. \A q \in Player : Append(inbox[q], m) \in Seq(DownMessage)
  BY AppendProperties DEF TypeOK
<1>2. QED BY <1>1 DEF Broadcast, TypeOK

(* Clearing and recording keep the type of a client's boards. *)
LEMMA AppliedType ==
  ASSUME NEW boards \in [Map -> Rankings], NEW m \in DownMessage
  PROVE  Applied(boards, m) \in [Map -> Rankings]
<1>1. CASE m.code = "Go"
  BY <1>1, EmptyBoards DEF Applied, Cleared, DownMessage
<1>2. CASE m.code = "DidNotFinish"
  <2>1. m.map \in Map /\ m.player \in Player
    BY <1>2 DEF DownMessage
  <2>2. [boards[m.map].forfeits EXCEPT ![m.player] = @ + 1] \in [Player -> Nat]
    BY <2>1 DEF Rankings
  <2>3. [boards[m.map] EXCEPT !.forfeits[m.player] = @ + 1] \in Rankings
    BY <2>1, <2>2 DEF Rankings
  <2>4. QED BY <1>2, <2>1, <2>3 DEF Applied, Recorded
<1>3. CASE m.code = "LevelFinish"
  <2>1. m.map \in Map /\ m.entry \in Finish
    BY <1>3 DEF DownMessage
  <2>2. [boards[m.map] EXCEPT !.finished = @ \cup {m.entry}] \in Rankings
    BY <2>1 DEF Rankings
  <2>3. QED BY <1>3, <2>1, <2>2 DEF Applied, Recorded
<1>4. QED BY <1>1, <1>2, <1>3 DEF DownMessage

(* "Go!" keeps the types of the board, the flags and what is sent. *)
LEMMA GoType ==
  ASSUME NEW p \in Player, NEW m \in Map, NEW wanted \in BOOLEAN, NEW timed \in BOOLEAN,
         Go(p, m, wanted, timed), TypeOK, BoardAssumption
  PROVE  /\ board' \in [Map -> Board]
         /\ dnf' \subseteq Player
         /\ inbox' \in [Player -> Seq(DownMessage)]
         /\ synced' \in [Player -> SUBSET Map]
<1>1. CASE deny_action(p)
  BY <1>1 DEF Go, TypeOK
<1>2. CASE ~ deny_action(p)
  <2>1. (wanted \/ force_restart_level) \in BOOLEAN
    OBVIOUS
  <2>2. [code |-> "Go", map |-> m, force |-> (wanted \/ force_restart_level)] \in DownMessage
    BY <2>1 DEF DownMessage
  <2>3. inbox' \in [Player -> Seq(DownMessage)]
    <3>1. Broadcast([code |-> "Go", map |-> m, force |-> (wanted \/ force_restart_level)])
      BY <1>2 DEF Go
    <3>2. QED BY <2>2, <3>1, BroadcastType
  <2>4. board' \in [Map -> Board]
    <3>1. board' = Cleared(board, m, wanted \/ force_restart_level, NewBoard(timed))
      BY <1>2 DEF Go
    <3>2. NewBoard(timed) \in Board /\ board \in [Map -> Board]
      BY EmptyBoards DEF TypeOK
    <3>3. QED BY <3>1, <3>2 DEF Cleared
  <2>5. dnf' \subseteq Player
    BY <1>2 DEF Go, FlagsAfterGo
  <2>6. synced' = [q \in Player |-> IF q \notin clients THEN synced[q]
                     ELSE IF wanted \/ force_restart_level THEN Map ELSE synced[q] \cup {m}]
    BY <1>2 DEF Go
  <2>7. synced \in [Player -> SUBSET Map]
    BY DEF TypeOK
  <2>8. synced' \in [Player -> SUBSET Map]
    BY <2>6, <2>7
  <2>9. QED BY <2>3, <2>4, <2>5, <2>8
<1>3. QED BY <1>1, <1>2

(* A forfeit counted on a board leaves a board. *)
LEMMA ForfeitRecorded ==
  ASSUME NEW b \in Board, NEW p \in Player
  PROVE  [b EXCEPT !.forfeits[p] = @ + 1] \in Board
<1>1. b.forfeits \in [Player -> Nat]
  BY DEF Board
<1>2. [b.forfeits EXCEPT ![p] = @ + 1] \in [Player -> Nat]
  BY <1>1
<1>3. QED BY <1>2 DEF Board

(* So does a forfeit. *)
LEMMA ForfeitType ==
  ASSUME NEW p \in Player, NEW m \in Map, Forfeit(p, m), TypeOK
  PROVE  /\ board' \in [Map -> Board]
         /\ dnf' \subseteq Player
         /\ inbox' \in [Player -> Seq(DownMessage)]
<1>1. [code |-> "DidNotFinish", map |-> m, player |-> p] \in DownMessage
  BY DEF DownMessage
<1>2. inbox' \in [Player -> Seq(DownMessage)]
  BY <1>1, BroadcastType DEF Forfeit
<1>3. board[m] \in Board
  BY DEF TypeOK
<1>4. [board[m] EXCEPT !.forfeits[p] = @ + 1] \in Board
  BY <1>3, ForfeitRecorded
<1>5. board' \in [Map -> Board]
  BY <1>4 DEF Forfeit, TypeOK
<1>6. dnf' \subseteq Player
  BY DEF Forfeit, TypeOK
<1>7. QED BY <1>2, <1>5, <1>6

(* A finish added to a board counts its rank up and leaves a board. *)
LEMMA FinishRecorded ==
  ASSUME NEW b \in Board, NEW e \in Finish
  PROVE  [b EXCEPT !.rank = @ + 1, !.finished = @ \cup {e}] \in Board
<1> DEFINE c == [b EXCEPT !.rank = b.rank + 1]
<1>1. c \in Board /\ c.finished = b.finished
  BY DEF Board
<1>2. [c EXCEPT !.finished = c.finished \cup {e}] \in Board
  BY <1>1 DEF Board
<1>3. QED BY <1>1, <1>2

(* TypeOK is inductive: every step of the clients, the server thread and   *)
(* the console keeps it.                                                   *)
THEOREM TypeCorrect == Spec => []TypeOK
<1>1. Init => TypeOK
  <2>1. SUFFICES ASSUME Init PROVE TypeOK OBVIOUS
  <2>2. current_map \in [Player -> Map] /\ here \in [Player -> Map]
    BY <2>1 DEF Init
  <2>3. board \in [Map -> Board] /\ shown \in [Player -> [Map -> Rankings]]
    BY <2>1, EmptyBoards DEF Init
  <2>4. left \in [joins : Nat, played : Nat, loads : Nat, typed : Nat]
    BY <2>1, BoardAssumption DEF Init, BoardAssumption
  <2>5. QED BY <2>1, <2>2, <2>3, <2>4, EmptySeq DEF Init, TypeOK
<1>2. TypeOK /\ [Next]_vars => TypeOK'
  <2>1. SUFFICES ASSUME TypeOK, [Next]_vars PROVE TypeOK' OBVIOUS
  <2>2. ASSUME NEW p \in Player, Join(p) PROVE TypeOK'
    BY <2>1, <2>2, SpendType DEF Join, clientVars, TypeOK
  <2>3. ASSUME NEW p \in Player, Leave(p) PROVE TypeOK'
    BY <2>1, <2>3, EmptyBoards, EmptySeq DEF Leave, clientVars, TypeOK
  <2>4. ASSUME NEW p \in Player, LoadMap(p) PROVE TypeOK'
    <3>1. PICK m \in Map : here' = [here EXCEPT ![p] = m] /\ Send(p, [code |-> "CurrentMap", map |-> m])
      BY <2>4 DEF LoadMap
    <3>2. [code |-> "CurrentMap", map |-> m] \in UpMessage
      BY DEF UpMessage
    <3>3. outbox' \in [Player -> Seq(UpMessage)]
      BY <2>1, <3>1, <3>2, SendType
    <3>4. QED BY <2>1, <2>4, <3>1, <3>3, SpendType DEF LoadMap, serverVars, TypeOK
  <2>5. ASSUME NEW p \in Player, OnLevelFinish(p) PROVE TypeOK'
    BY <2>1, <2>5, SpendType DEF OnLevelFinish, serverVars, TypeOK
  <2>6. ASSUME NEW p \in Player, SendFinish(p) PROVE TypeOK'
    <3>1. [code |-> "LevelFinish", map |-> here[p]] \in UpMessage
      BY <2>1 DEF UpMessage, TypeOK
    <3>2. outbox' \in [Player -> Seq(UpMessage)]
      BY <2>1, <2>6, <3>1, SendType DEF SendFinish
    <3>3. QED BY <2>1, <2>6, <3>2 DEF SendFinish, serverVars, TypeOK
  <2>7. ASSUME NEW p \in Player, send_dnf_message(p) PROVE TypeOK'
    <3>1. [code |-> "DidNotFinish", map |-> here[p]] \in UpMessage
      BY <2>1 DEF UpMessage, TypeOK
    <3>2. outbox' \in [Player -> Seq(UpMessage)]
      BY <2>1, <2>7, <3>1, SendType DEF send_dnf_message
    <3>3. QED BY <2>1, <2>7, <3>2, SpendType DEF send_dnf_message, serverVars, TypeOK
  <2>8. ASSUME NEW p \in Player, send_countdown_message(p) PROVE TypeOK'
    <3>1. PICK force \in BOOLEAN : Send(p, [code |-> "Go", map |-> here[p], force |-> force])
      BY <2>8 DEF send_countdown_message
    <3>2. [code |-> "Go", map |-> here[p], force |-> force] \in UpMessage
      BY <2>1 DEF UpMessage, TypeOK
    <3>3. outbox' \in [Player -> Seq(UpMessage)]
      BY <2>1, <3>1, <3>2, SendType
    <3>4. QED BY <2>1, <2>8, <3>3, SpendType
           DEF send_countdown_message, serverVars, clientVars, TypeOK
  <2>9. ASSUME NEW p \in Player, SendWarning(p) PROVE TypeOK'
    <3>1. [code |-> "SeriousWarning"] \in UpMessage
      BY DEF UpMessage
    <3>2. outbox' \in [Player -> Seq(UpMessage)]
      BY <2>1, <2>9, <3>1, SendType DEF SendWarning
    <3>3. QED BY <2>1, <2>9, <3>2, SpendType DEF SendWarning, serverVars, TypeOK
  <2>10. ASSUME NEW p \in Player, OnBroadcast(p) PROVE TypeOK'
    <3>1. inbox[p] \in Seq(DownMessage) /\ inbox[p] # <<>>
      BY <2>1, <2>10 DEF OnBroadcast, TypeOK
    <3>2. Head(inbox[p]) \in DownMessage /\ Tail(inbox[p]) \in Seq(DownMessage)
      BY <3>1, HeadTailProperties
    <3>3. Applied(shown[p], Head(inbox[p])) \in [Map -> Rankings]
      BY <2>1, <3>2, AppliedType DEF TypeOK
    <3>4. \A ingame \in BOOLEAN : ForfeitAfter(p, Head(inbox[p]), ingame) \in BOOLEAN
      BY <2>1 DEF ForfeitAfter, TypeOK
    <3>5. did_not_finish_' \in [Player -> BOOLEAN]
      BY <2>1, <2>10, <3>4 DEF OnBroadcast, TypeOK
    <3>6. QED BY <2>1, <2>10, <3>2, <3>3, <3>5 DEF OnBroadcast, serverVars, TypeOK
  <2>11. ASSUME NEW p \in Player, OnMessage(p) PROVE TypeOK'
    <3>1. CASE OnCountdown(p)
      <4>1. Take(p, "Go") BY <3>1 DEF OnCountdown
      <4>2. Head(outbox[p]).map \in Map /\ Head(outbox[p]).force \in BOOLEAN
        BY <2>1, <4>1, TakeType DEF UpMessage
      <4>3. Go(p, Head(outbox[p]).map, Head(outbox[p]).force, TRUE)
        BY <3>1 DEF OnCountdown
      <4>4. /\ board' \in [Map -> Board]
            /\ dnf' \subseteq Player
            /\ inbox' \in [Player -> Seq(DownMessage)]
            /\ synced' \in [Player -> SUBSET Map]
        BY <2>1, <4>2, <4>3, GoType, BoardAssumption
      <4>5. outbox' \in [Player -> Seq(UpMessage)] /\ UNCHANGED <<clientVars, left>>
        BY <2>1, <4>1, TakeType
      <4>6. QED BY <2>1, <3>1, <4>4, <4>5 DEF OnCountdown, clientVars, TypeOK
    <3>2. CASE OnDidNotFinish(p)
      <4>1. Take(p, "DidNotFinish") BY <3>2 DEF OnDidNotFinish
      <4>2. Head(outbox[p]).map \in Map
        BY <2>1, <4>1, TakeType DEF UpMessage
      <4>3. QED BY <2>1, <3>2, <4>1, <4>2, TakeType, ForfeitType
             DEF OnDidNotFinish, clientVars, TypeOK
    <3>3. CASE OnLevelFinishV2(p)
      <4> DEFINE m == Head(outbox[p]).map
                 entry == [player |-> p, rank |-> NextPlace(m)]
      <4>1. Take(p, "LevelFinish") BY <3>3 DEF OnLevelFinishV2
      <4>2. m \in Map
        BY <2>1, <4>1, TakeType DEF UpMessage
      <4>3. board[m] \in Board /\ entry \in Finish
        <5>1. board[m] \in Board
          BY <2>1, <4>2 DEF TypeOK
        <5>2. NextPlace(m) \in Nat
          BY <5>1 DEF Board, NextPlace
        <5>3. QED BY <5>1, <5>2 DEF Finish
      <4>4. [code |-> "LevelFinish", map |-> m, entry |-> entry] \in DownMessage
        BY <4>2, <4>3 DEF DownMessage
      <4>5. inbox' \in [Player -> Seq(DownMessage)]
        BY <2>1, <3>3, <4>4, BroadcastType DEF OnLevelFinishV2
      <4>6. board' = [board EXCEPT ![m].rank = @ + 1, ![m].finished = @ \cup {entry}]
        BY <3>3 DEF OnLevelFinishV2
      <4>7. [board[m] EXCEPT !.rank = @ + 1, !.finished = @ \cup {entry}] \in Board
        BY <4>3, FinishRecorded
      <4>8. board' \in [Map -> Board]
        BY <2>1, <4>2, <4>6, <4>7 DEF TypeOK
      <4>9. QED BY <2>1, <3>3, <4>1, <4>5, <4>8, TakeType
             DEF OnLevelFinishV2, clientVars, TypeOK
    <3>4. CASE OnCurrentMap(p)
      <4>1. Take(p, "CurrentMap") BY <3>4 DEF OnCurrentMap
      <4>2. Head(outbox[p]).map \in Map
        BY <2>1, <4>1, TakeType DEF UpMessage
      <4>3. QED BY <2>1, <3>4, <4>1, <4>2, TakeType DEF OnCurrentMap, clientVars, TypeOK
    <3>5. CASE OnSeriousWarning(p)
      <4>1. Take(p, "SeriousWarning") BY <3>5 DEF OnSeriousWarning
      <4>2. CASE UNCHANGED <<board, dnf, inbox>>
        BY <2>1, <3>5, <4>1, <4>2, TakeType DEF OnSeriousWarning, clientVars, TypeOK
      <4>3. CASE Forfeit(p, current_map[p])
        <5>1. current_map[p] \in Map BY <2>1 DEF TypeOK
        <5>2. QED BY <2>1, <3>5, <4>1, <4>3, <5>1, TakeType, ForfeitType
               DEF OnSeriousWarning, clientVars, TypeOK
      <4>4. QED BY <3>5, <4>2, <4>3 DEF OnSeriousWarning
    <3>6. QED BY <2>11, <3>1, <3>2, <3>3, <3>4, <3>5 DEF OnMessage
  <2>12. ASSUME NEW p \in Player, ConsoleCountdown(p) PROVE TypeOK'
    <3>1. PICK m \in Map : Go(p, m, FALSE, FALSE)
      BY <2>12 DEF ConsoleCountdown
    <3>2. QED BY <2>1, <2>12, <3>1, GoType, SpendType, BoardAssumption
           DEF ConsoleCountdown, Type, clientVars, TypeOK
  <2>13. ASSUME NEW p \in Player, ConsoleDnf(p) PROVE TypeOK'
    <3>1. current_map[p] \in Map BY <2>1 DEF TypeOK
    <3>2. QED BY <2>1, <2>13, <3>1, ForfeitType, SpendType
           DEF ConsoleDnf, Type, clientVars, TypeOK
  <2>14. ASSUME ConsoleCountdownForced PROVE TypeOK'
    <3>1. PICK m \in Map : Broadcast([code |-> "Go", map |-> m, force |-> TRUE])
      BY <2>14 DEF ConsoleCountdownForced
    <3>2. [code |-> "Go", map |-> m, force |-> TRUE] \in DownMessage
      BY DEF DownMessage
    <3>3. inbox' \in [Player -> Seq(DownMessage)]
      BY <2>1, <3>1, <3>2, BroadcastType
    <3>4. QED BY <2>1, <2>14, <3>3, SpendType
           DEF ConsoleCountdownForced, Type, clientVars, TypeOK
  <2>15. CASE UNCHANGED vars
    BY <2>1, <2>15 DEF vars, serverVars, clientVars, TypeOK
  <2>16. QED BY <2>1, <2>2, <2>3, <2>4, <2>5, <2>6, <2>7, <2>8, <2>9, <2>10, <2>11,
                <2>12, <2>13, <2>14, <2>15 DEF Next, Client, Console
<1>3. QED BY <1>1, <1>2, PTL DEF Spec

-----------------------------------------------------------------------------
(* How a step may change what is told apart of one board. *)
Same(m) == board'[m].rank = board[m].rank /\ board'[m].finished = board[m].finished
Emptied(m) == board'[m].rank = 0 /\ board'[m].finished = {}
OnePlaceMore(m) ==
  \E e \in Finish : /\ e.rank = board[m].rank + 1
                    /\ board'[m].rank = board[m].rank + 1
                    /\ board'[m].finished = board[m].finished \cup {e}

(* A forfeit changes the forfeits of one board only. *)
LEMMA ForfeitSame ==
  ASSUME NEW p \in Player, NEW m \in Map, Forfeit(p, m), TypeOK
  PROVE  \A x \in Map : /\ Same(x)
                        /\ \A q \in Player : board'[x].forfeits[q] >= board[x].forfeits[q]
<1> SUFFICES ASSUME NEW x \in Map
             PROVE  Same(x) /\ \A q \in Player : board'[x].forfeits[q] >= board[x].forfeits[q]
  OBVIOUS
<1>1. board \in [Map -> Board] /\ board[x] \in Board
  BY DEF TypeOK
<1>2. board' = [board EXCEPT ![m].forfeits[p] = @ + 1]
  BY DEF Forfeit
<1>3. board[x].forfeits \in [Player -> Nat]
  BY <1>1 DEF Board
<1>4. CASE x = m
  <2>1. board'[x] = [board[x] EXCEPT !.forfeits[p] = @ + 1]
    BY <1>1, <1>2, <1>4
  <2>2. Same(x)
    BY <1>1, <2>1 DEF Same, Board
  <2>3. board'[x].forfeits = [board[x].forfeits EXCEPT ![p] = @ + 1]
    BY <1>1, <2>1 DEF Board
  <2>4. QED BY <1>3, <2>2, <2>3
<1>5. CASE x # m
  <2>1. board'[x] = board[x]
    BY <1>1, <1>2, <1>5
  <2>2. QED BY <1>3, <2>1 DEF Same
<1>6. QED BY <1>4, <1>5

(* "Go!" leaves a board as it is or empties it. *)
LEMMA GoEmpties ==
  ASSUME NEW p \in Player, NEW m \in Map, NEW wanted, NEW timed,
         Go(p, m, wanted, timed), TypeOK
  PROVE  \A x \in Map : Same(x) \/ Emptied(x)
<1>1. CASE deny_action(p)
  BY <1>1 DEF Go, Same
<1>2. CASE ~ deny_action(p)
  <2>1. board' = Cleared(board, m, wanted \/ force_restart_level, NewBoard(timed))
    BY <1>2 DEF Go
  <2>2. NewBoard(timed).rank = 0 /\ NewBoard(timed).finished = {}
    BY DEF NewBoard, Absent
  <2>3. board \in [Map -> Board]
    BY SMTT(30) DEF TypeOK
  <2>4. QED BY <2>1, <2>2, <2>3 DEF Cleared, Same, Emptied
<1>3. QED BY <1>1, <1>2

(* The step of a finish, on the board of its map and on the others. *)
LEMMA FinishPlaces ==
  ASSUME NEW p \in Player, OnLevelFinishV2(p), TypeOK
  PROVE  /\ Head(outbox[p]).map \in Map
         /\ \A x \in Map : x # Head(outbox[p]).map => board'[x] = board[x]
         /\ LET m == Head(outbox[p]).map
                e == [player |-> p, rank |-> NextPlace(m)]
            IN  /\ e \in Finish /\ e.rank = board[m].rank + 1
                /\ board'[m].rank = board[m].rank + 1
                /\ board'[m].finished = board[m].finished \cup {e}
                /\ board'[m].forfeits = board[m].forfeits
                /\ Broadcast([code |-> "LevelFinish", map |-> m, entry |-> e])
<1> DEFINE m == Head(outbox[p]).map
           e == [player |-> p, rank |-> NextPlace(m)]
<1>1. Take(p, "LevelFinish")
  BY DEF OnLevelFinishV2
<1>2. m \in Map
  BY <1>1, TakeType DEF UpMessage
<1>3. board \in [Map -> Board] /\ board[m] \in Board
  BY <1>2 DEF TypeOK
<1>4. e \in Finish /\ e.rank = board[m].rank + 1
  BY <1>3 DEF Board, NextPlace, Finish
<1>5. /\ board' = [board EXCEPT ![m].rank = @ + 1, ![m].finished = @ \cup {e}]
      /\ Broadcast([code |-> "LevelFinish", map |-> m, entry |-> e])
  BY DEF OnLevelFinishV2
<1>6. \A x \in Map : x # m => board'[x] = board[x]
  BY <1>3, <1>5
<1>7. /\ board'[m].rank = board[m].rank + 1
      /\ board'[m].finished = board[m].finished \cup {e}
      /\ board'[m].forfeits = board[m].forfeits
  <2> DEFINE b == [board[m] EXCEPT !.rank = board[m].rank + 1]
             c == [b EXCEPT !.finished = b.finished \cup {e}]
  <2>1. b \in Board /\ b.rank = board[m].rank + 1 /\ b.finished = board[m].finished
        /\ b.forfeits = board[m].forfeits
    BY <1>3 DEF Board
  <2>2. c.rank = b.rank /\ c.finished = b.finished \cup {e} /\ c.forfeits = b.forfeits
    BY <2>1, SMTT(30) DEF Board
  <2>3. board'[m] = c
    BY <1>2, <1>3, <1>5
  <2>4. QED BY <2>1, <2>2, <2>3
<1>8. QED BY <1>2, <1>4, <1>5, <1>6, <1>7

(* Of one board, a step changes nothing, empties it or adds one place. *)
LEMMA BoardStep ==
  ASSUME TypeOK, [Next]_vars
  PROVE  \A m \in Map : Same(m) \/ Emptied(m) \/ OnePlaceMore(m)
<1>1. ASSUME NEW p \in Player, Leave(p) PROVE \A m \in Map : Same(m) \/ Emptied(m)
  BY <1>1 DEF Leave, Same, Emptied, Absent
<1>2. ASSUME NEW p \in Player, OnCountdown(p) PROVE \A m \in Map : Same(m) \/ Emptied(m)
  <2>1. Head(outbox[p]).map \in Map
    BY <1>2, TakeType DEF OnCountdown, UpMessage
  <2>2. Go(p, Head(outbox[p]).map, Head(outbox[p]).force, TRUE)
    BY <1>2 DEF OnCountdown
  <2>3. QED BY <2>1, <2>2, GoEmpties
<1>3. ASSUME NEW p \in Player, OnDidNotFinish(p) PROVE \A m \in Map : Same(m)
  <2>1. Head(outbox[p]).map \in Map
    BY <1>3, TakeType DEF OnDidNotFinish, UpMessage
  <2>2. QED BY <1>3, <2>1, ForfeitSame DEF OnDidNotFinish
<1>4. ASSUME NEW p \in Player, OnLevelFinishV2(p)
      PROVE  \A m \in Map : Same(m) \/ OnePlaceMore(m)
  BY <1>4, FinishPlaces DEF Same, OnePlaceMore
<1>5. ASSUME NEW p \in Player, OnSeriousWarning(p) PROVE \A m \in Map : Same(m)
  <2>1. CASE UNCHANGED <<board, dnf, inbox>>
    BY <2>1 DEF Same
  <2>2. CASE Forfeit(p, current_map[p])
    <3>1. current_map[p] \in Map BY DEF TypeOK
    <3>2. QED BY <2>2, <3>1, ForfeitSame
  <2>3. QED BY <1>5, <2>1, <2>2 DEF OnSeriousWarning
<1>6. ASSUME NEW p \in Player, ConsoleCountdown(p) PROVE \A m \in Map : Same(m) \/ Emptied(m)
  BY <1>6, GoEmpties DEF ConsoleCountdown
<1>7. ASSUME NEW p \in Player, ConsoleDnf(p) PROVE \A m \in Map : Same(m)
  <2>1. current_map[p] \in Map BY DEF TypeOK
  <2>2. QED BY <1>7, <2>1, ForfeitSame DEF ConsoleDnf
<1>8. ASSUME NEW p \in Player, Join(p) \/ Client(p) \/ OnCurrentMap(p) \/ UNCHANGED vars
      PROVE  \A m \in Map : Same(m)
  BY <1>8 DEF Join, Client, LoadMap, OnLevelFinish, SendFinish, send_dnf_message,
              send_countdown_message, SendWarning, OnBroadcast, OnCurrentMap,
              serverVars, vars, Same
<1>9. ASSUME ConsoleCountdownForced \/ UNCHANGED vars PROVE \A m \in Map : Same(m)
  BY <1>9 DEF ConsoleCountdownForced, serverVars, vars, Same
<1>10. QED BY <1>1, <1>2, <1>3, <1>4, <1>5, <1>6, <1>7, <1>8, <1>9
       DEF Next, OnMessage, Console

(* The places of a board are counted out once each, from one upwards, over *)
(* rounds started, forced and cleared.                                     *)
THEOREM PlacesCountedOut == Spec => []RanksArePlaces
<1>1. Init => RanksArePlaces
  BY DEF Init, Absent, RanksArePlaces
<1>2. TypeOK /\ RanksArePlaces /\ [Next]_vars => RanksArePlaces'
  <2>1. SUFFICES ASSUME TypeOK, RanksArePlaces, [Next]_vars, NEW m \in Map
                 PROVE  /\ \A e, f \in board'[m].finished : e.rank = f.rank => e = f
                        /\ {e.rank : e \in board'[m].finished} = 1..board'[m].rank
    BY DEF RanksArePlaces
  <2>2. board[m].rank \in Nat
    BY <2>1 DEF TypeOK, Board
  <2>3. /\ \A e, f \in board[m].finished : e.rank = f.rank => e = f
        /\ {e.rank : e \in board[m].finished} = 1..board[m].rank
    BY <2>1 DEF RanksArePlaces
  <2>4. CASE Same(m)
    BY <2>3, <2>4 DEF Same
  <2>5. CASE Emptied(m)
    BY <2>5 DEF Emptied
  <2>6. CASE OnePlaceMore(m)
    <3>1. PICK new \in Finish : /\ new.rank = board[m].rank + 1
                                /\ board'[m].rank = board[m].rank + 1
                                /\ board'[m].finished = board[m].finished \cup {new}
      BY <2>6 DEF OnePlaceMore
    <3>2. \A e \in board[m].finished : e.rank \in 1..board[m].rank
      BY <2>3
    <3>3. \A e \in board[m].finished : e.rank # new.rank
      BY <2>2, <3>1, <3>2
    <3>4. \A e, f \in board'[m].finished : e.rank = f.rank => e = f
      BY <2>3, <3>1, <3>3
    <3>5. {e.rank : e \in board'[m].finished} = {e.rank : e \in board[m].finished} \cup {new.rank}
      BY <3>1
    <3>6. 1..(board[m].rank + 1) = 1..board[m].rank \cup {board[m].rank + 1}
      BY <2>2
    <3>7. QED BY <2>3, <3>1, <3>4, <3>5, <3>6
  <2>7. QED BY <2>1, <2>4, <2>5, <2>6, BoardStep
<1>3. QED BY <1>1, <1>2, TypeCorrect, PTL DEF Spec

-----------------------------------------------------------------------------
(* A broadcast reaches nobody who is not registered. *)
LEMMA BroadcastRegistered ==
  ASSUME NEW m, Broadcast(m), TypeOK, Registered
  PROVE  \A q \in Player \ clients : inbox'[q] = <<>>
BY DEF Broadcast, Registered

(* A message taken is of a registered player; nobody else's outbox fills.  *)
LEMMA TakeRegistered ==
  ASSUME NEW p \in Player, NEW code, Take(p, code), TypeOK, Registered
  PROVE  /\ p \in clients
         /\ \A q \in Player \ clients : outbox'[q] = <<>>
BY DEF Take, TypeOK, Registered

LEMMA SendRegistered ==
  ASSUME NEW p \in Player, NEW m, Send(p, m), TypeOK, Registered
  PROVE  \A q \in Player \ clients : outbox'[q] = <<>>
BY DEF Send, TypeOK, Registered

(* "Go!" flags nobody and tells only the registered. *)
LEMMA GoRegistered ==
  ASSUME NEW p \in Player, NEW m \in Map, NEW wanted, NEW timed,
         Go(p, m, wanted, timed), TypeOK, Registered
  PROVE  /\ dnf' \subseteq clients
         /\ \A q \in Player \ clients : inbox'[q] = <<>> /\ synced'[q] = {}
<1>1. CASE deny_action(p)
  BY <1>1 DEF Go, Registered
<1>2. CASE ~ deny_action(p)
  <2>1. /\ dnf' = {}
        /\ Broadcast([code |-> "Go", map |-> m, force |-> (wanted \/ force_restart_level)])
        /\ synced' = [q \in Player |-> IF q \notin clients THEN synced[q]
                        ELSE IF wanted \/ force_restart_level THEN Map ELSE synced[q] \cup {m}]
    BY <1>2 DEF Go, FlagsAfterGo
  <2>2. QED BY <2>1, BroadcastRegistered DEF Registered
<1>3. QED BY <1>1, <1>2

(* A forfeit flags whom it is of. *)
LEMMA ForfeitRegistered ==
  ASSUME NEW p \in clients, NEW m \in Map, Forfeit(p, m), TypeOK, Registered
  PROVE  /\ dnf' \subseteq clients
         /\ \A q \in Player \ clients : inbox'[q] = <<>>
BY BroadcastRegistered DEF Forfeit, Registered

(* Only registered players are heard, flagged and told. *)
THEOREM OnlyRegistered == Spec => []Registered
<1>1. Init => Registered
  BY DEF Init, Registered
<1>2. TypeOK /\ Registered /\ [Next]_vars => Registered'
  <2>1. SUFFICES ASSUME TypeOK, Registered, [Next]_vars PROVE Registered'
    OBVIOUS
  <2>2. ASSUME NEW p \in Player, Join(p) PROVE Registered'
    BY <2>1, <2>2 DEF Join, Registered
  <2>3. ASSUME NEW p \in Player, Leave(p) PROVE Registered'
    BY <2>1, <2>3 DEF Leave, Registered, TypeOK
  <2>4. ASSUME NEW p \in Player, Client(p) PROVE Registered'
    <3>1. CASE OnLevelFinish(p)
      BY <2>1, <3>1 DEF OnLevelFinish, serverVars, Registered
    <3>2. CASE OnBroadcast(p)
      <4>1. p \in clients
        BY <2>1, <3>2 DEF OnBroadcast, Registered
      <4>2. QED BY <2>1, <3>2, <4>1 DEF OnBroadcast, serverVars, Registered, TypeOK
    <3>3. CASE LoadMap(p)
      BY <2>1, <3>3, SendRegistered DEF LoadMap, serverVars, Registered
    <3>4. CASE SendFinish(p)
      BY <2>1, <3>4, SendRegistered DEF SendFinish, serverVars, Registered
    <3>5. CASE send_dnf_message(p)
      BY <2>1, <3>5, SendRegistered DEF send_dnf_message, serverVars, Registered
    <3>6. CASE send_countdown_message(p)
      BY <2>1, <3>6, SendRegistered DEF send_countdown_message, serverVars, Registered
    <3>7. CASE SendWarning(p)
      BY <2>1, <3>7, SendRegistered DEF SendWarning, serverVars, Registered
    <3>8. QED BY <2>4, <3>1, <3>2, <3>3, <3>4, <3>5, <3>6, <3>7 DEF Client
  <2>5. ASSUME NEW p \in Player, OnCountdown(p) PROVE Registered'
    <3>1. Take(p, "Go") /\ Head(outbox[p]).map \in Map
      BY <2>1, <2>5, TakeType DEF OnCountdown, UpMessage
    <3>2. Go(p, Head(outbox[p]).map, Head(outbox[p]).force, TRUE) /\ clients' = clients
      BY <2>5 DEF OnCountdown
    <3>3. QED BY <2>1, <3>1, <3>2, TakeRegistered, GoRegistered DEF Registered
  <2>6. ASSUME NEW p \in Player, OnDidNotFinish(p) PROVE Registered'
    <3>1. Take(p, "DidNotFinish") /\ Head(outbox[p]).map \in Map
      BY <2>1, <2>6, TakeType DEF OnDidNotFinish, UpMessage
    <3>2. QED BY <2>1, <2>6, <3>1, TakeRegistered, ForfeitRegistered
           DEF OnDidNotFinish, Registered
  <2>7. ASSUME NEW p \in Player, OnLevelFinishV2(p) PROVE Registered'
    <3>1. \E m : Broadcast(m)
      BY <2>7 DEF OnLevelFinishV2
    <3>2. QED BY <2>1, <2>7, <3>1, TakeRegistered, BroadcastRegistered
           DEF OnLevelFinishV2, Registered
  <2>8. ASSUME NEW p \in Player, OnCurrentMap(p) PROVE Registered'
    BY <2>1, <2>8, TakeRegistered DEF OnCurrentMap, Registered
  <2>9. ASSUME NEW p \in Player, OnSeriousWarning(p) PROVE Registered'
    <3>1. CASE UNCHANGED <<board, dnf, inbox>>
      BY <2>1, <2>9, <3>1, TakeRegistered DEF OnSeriousWarning, Registered
    <3>2. CASE Forfeit(p, current_map[p])
      <4>1. current_map[p] \in Map BY <2>1 DEF TypeOK
      <4>2. QED BY <2>1, <2>9, <3>2, <4>1, TakeRegistered, ForfeitRegistered
             DEF OnSeriousWarning, Registered
    <3>3. QED BY <2>9, <3>1, <3>2 DEF OnSeriousWarning
  <2>10. ASSUME NEW p \in Player, ConsoleCountdown(p) PROVE Registered'
    BY <2>1, <2>10, GoRegistered DEF ConsoleCountdown, Type, Registered
  <2>11. ASSUME NEW p \in Player, ConsoleDnf(p) PROVE Registered'
    <3>1. current_map[p] \in Map BY <2>1 DEF TypeOK
    <3>2. QED BY <2>1, <2>11, <3>1, ForfeitRegistered DEF ConsoleDnf, Type, Registered
  <2>12. ASSUME ConsoleCountdownForced PROVE Registered'
    <3>1. \E m : Broadcast(m)
      BY <2>12 DEF ConsoleCountdownForced
    <3>2. QED BY <2>1, <2>12, <3>1, BroadcastRegistered
           DEF ConsoleCountdownForced, Type, Registered
  <2>13. CASE UNCHANGED vars
    BY <2>1, <2>13 DEF vars, serverVars, Registered
  <2>14. QED BY <2>1, <2>2, <2>3, <2>4, <2>5, <2>6, <2>7, <2>8, <2>9, <2>10, <2>11,
                <2>12, <2>13 DEF Next, OnMessage, Console
<1>3. QED BY <1>1, <1>2, TypeCorrect, PTL DEF Spec

-----------------------------------------------------------------------------
(* Recording a forfeit lists whom it flags and unlists nobody. *)
LEMMA ForfeitLists ==
  ASSUME NEW p \in Player, NEW m \in Map, Forfeit(p, m), TypeOK, ForfeitersListed
  PROVE  ForfeitersListed'
<1> SUFFICES ASSUME NEW q \in dnf'
             PROVE  \E x \in Map : board'[x].forfeits[q] > 0
  BY DEF ForfeitersListed
<1>1. CASE q = p
  <2>1. board[m] \in Board /\ board \in [Map -> Board]
    BY DEF TypeOK
  <2>2. board[m].forfeits \in [Player -> Nat]
    BY <2>1 DEF Board
  <2>3. board'[m] = [board[m] EXCEPT !.forfeits[p] = @ + 1]
    BY <2>1 DEF Forfeit
  <2>4. board'[m].forfeits = [board[m].forfeits EXCEPT ![p] = @ + 1]
    BY <2>1, <2>3 DEF Board
  <2>5. board'[m].forfeits[p] = board[m].forfeits[p] + 1
    BY <2>2, <2>4
  <2>6. board[m].forfeits[p] \in Nat
    BY <2>2
  <2>7. QED BY <1>1, <2>5, <2>6
<1>2. CASE q # p
  <2>1. q \in dnf /\ q \in Player
    BY <1>2 DEF Forfeit, TypeOK
  <2>2. PICK x \in Map : board[x].forfeits[q] > 0
    BY <2>1 DEF ForfeitersListed
  <2>3. board'[x].forfeits[q] >= board[x].forfeits[q]
    BY <2>1, ForfeitSame
  <2>4. board[x].forfeits[q] \in Nat
    BY <2>1 DEF TypeOK, Board
  <2>5. board'[x].forfeits[q] \in Nat
    BY <2>1, ForfeitType DEF Board
  <2>6. QED BY <2>2, <2>3, <2>4, <2>5
<1>3. QED BY <1>1, <1>2

(* A "Go!" unflags everybody or changes nothing. *)
LEMMA GoUnflags ==
  ASSUME NEW p \in Player, NEW m \in Map, NEW wanted, NEW timed,
         Go(p, m, wanted, timed), ForfeitersListed
  PROVE  ForfeitersListed'
<1>1. CASE deny_action(p)
  BY <1>1 DEF Go, ForfeitersListed
<1>2. CASE ~ deny_action(p)
  BY <1>2 DEF Go, FlagsAfterGo, ForfeitersListed
<1>3. QED BY <1>1, <1>2

(* Whoever is flagged as having forfeited is listed on some board. *)
THEOREM FlaggedAreListed == Spec => []ForfeitersListed
<1>1. Init => ForfeitersListed
  BY DEF Init, ForfeitersListed
<1>2. TypeOK /\ Registered /\ ForfeitersListed /\ [Next]_vars => ForfeitersListed'
  <2>1. SUFFICES ASSUME TypeOK, Registered, ForfeitersListed, [Next]_vars
                 PROVE  ForfeitersListed'
    OBVIOUS
  <2>2. ASSUME NEW p \in Player, Leave(p) PROVE ForfeitersListed'
    <3>1. CASE clients' = {}
      BY <2>1, <2>2, <3>1 DEF Leave, Registered, ForfeitersListed
    <3>2. CASE clients' # {}
      BY <2>1, <2>2, <3>2 DEF Leave, ForfeitersListed
    <3>3. QED BY <3>1, <3>2
  <2>3. ASSUME NEW p \in Player, OnCountdown(p) PROVE ForfeitersListed'
    <3>1. Head(outbox[p]).map \in Map
      BY <2>1, <2>3, TakeType DEF OnCountdown, UpMessage
    <3>2. QED BY <2>1, <2>3, <3>1, GoUnflags DEF OnCountdown
  <2>4. ASSUME NEW p \in Player, OnDidNotFinish(p) PROVE ForfeitersListed'
    <3>1. Head(outbox[p]).map \in Map
      BY <2>1, <2>4, TakeType DEF OnDidNotFinish, UpMessage
    <3>2. QED BY <2>1, <2>4, <3>1, ForfeitLists DEF OnDidNotFinish
  <2>5. ASSUME NEW p \in Player, OnLevelFinishV2(p) PROVE ForfeitersListed'
    <3>1. \A x \in Map : board'[x].forfeits = board[x].forfeits
      BY <2>1, <2>5, FinishPlaces
    <3>2. QED BY <2>1, <2>5, <3>1 DEF OnLevelFinishV2, ForfeitersListed
  <2>6. ASSUME NEW p \in Player, OnSeriousWarning(p) PROVE ForfeitersListed'
    <3>1. CASE UNCHANGED <<board, dnf, inbox>>
      BY <2>1, <3>1 DEF ForfeitersListed
    <3>2. CASE Forfeit(p, current_map[p])
      <4>1. current_map[p] \in Map BY <2>1 DEF TypeOK
      <4>2. QED BY <2>1, <3>2, <4>1, ForfeitLists
    <3>3. QED BY <2>6, <3>1, <3>2 DEF OnSeriousWarning
  <2>7. ASSUME NEW p \in Player, ConsoleCountdown(p) PROVE ForfeitersListed'
    BY <2>1, <2>7, GoUnflags DEF ConsoleCountdown
  <2>8. ASSUME NEW p \in Player, ConsoleDnf(p) PROVE ForfeitersListed'
    <3>1. current_map[p] \in Map BY <2>1 DEF TypeOK
    <3>2. QED BY <2>1, <2>8, <3>1, ForfeitLists DEF ConsoleDnf
  <2>9. ASSUME NEW p \in Player, Join(p) \/ Client(p) \/ OnCurrentMap(p)
        PROVE  ForfeitersListed'
    <3>1. UNCHANGED <<board, dnf>>
      BY <2>9 DEF Join, Client, LoadMap, OnLevelFinish, SendFinish, send_dnf_message,
                  send_countdown_message, SendWarning, OnBroadcast, OnCurrentMap, serverVars
    <3>2. QED BY <2>1, <3>1 DEF ForfeitersListed
  <2>10. ASSUME ConsoleCountdownForced \/ UNCHANGED vars PROVE ForfeitersListed'
    BY <2>1, <2>10 DEF ConsoleCountdownForced, vars, serverVars, ForfeitersListed
  <2>11. QED BY <2>1, <2>2, <2>3, <2>4, <2>5, <2>6, <2>7, <2>8, <2>9, <2>10
         DEF Next, OnMessage, Console
<1>3. QED BY <1>1, <1>2, TypeCorrect, OnlyRegistered, PTL DEF Spec

-----------------------------------------------------------------------------
(* What a client makes of a whole queue of broadcasts.  FoldLeft is defined *)
(* by a recursive function over sets of positions; what is needed of it is *)
(* shown from there, by induction over the length of the queue.            *)

(* Every non-empty set of numbers has a least one. *)
LEMMA LeastNumber ==
  ASSUME NEW T \in SUBSET Nat, T # {}
  PROVE  \E n \in T : \A k \in T : n <= k
<1>1. PICK R : R = OpToRel(<, Nat)
  OBVIOUS
<1>2. IsWellFoundedOn(R, Nat)
  BY <1>1, NatLessThanWellFounded
<1>3. PICK n \in T : \A k \in T : ~ (<<k, n>> \in R)
  BY <1>2, WFMin
<1>4. ASSUME NEW k \in T, k < n PROVE <<k, n>> \in R
  BY <1>1, <1>4 DEF OpToRel
<1>5. \A k \in T : ~ (k < n)
  BY <1>3, <1>4, Zenon
<1>6. n \in Nat /\ \A k \in T : k \in Nat
  OBVIOUS
<1>7. QED BY <1>5, <1>6

(* What holds of zero and goes from each number to the next holds of all. *)
LEMMA Upwards ==
  ASSUME NEW S, 0 \in S, \A n \in Nat : n \in S => n + 1 \in S
  PROVE  Nat \subseteq S
<1>1. SUFFICES ASSUME Nat \ S # {} PROVE FALSE
  OBVIOUS
<1>2. PICK n \in Nat \ S : \A k \in Nat \ S : n <= k
  BY <1>1, LeastNumber
<1>3. n # 0 /\ n - 1 \in Nat /\ n - 1 \in S
  BY <1>2
<1>4. QED BY <1>2, <1>3

(* One turn of the fold: S are the positions of s that are folded by f. *)
Turn(f, s, base, S) == IF S = {} THEN base ELSE Applied(f[S \ {Max(S)}], s[Max(S)])
Folds(f, s, base, D) == f = [S \in SUBSET D |-> Turn(f, s, base, S)]

(* The fold is the value of that function at all positions.                *)
LEMMA FoldDef ==
  ASSUME NEW base, NEW s
  PROVE  FoldLeft(Applied, base, s) = (CHOOSE f : Folds(f, s, base, DOMAIN s))[DOMAIN s]
BY DEF FoldLeft, MapThenFoldSet, Turn, Folds

(* The last position of the first n + 1, and what is left without it.      *)
LEMMA LastOfUpTo ==
  ASSUME NEW n \in Nat
  PROVE  /\ Max(1..n + 1) = n + 1 /\ (1..n + 1) \ {n + 1} = 1..n
         /\ \A S \in SUBSET (1..n + 1) : n + 1 \in S => Max(S) = n + 1
<1>1. ASSUME NEW S \in SUBSET (1..n + 1), n + 1 \in S
      PROVE  Max(S) = n + 1
  <2>1. \A y \in S : y \in Nat /\ n + 1 >= y
    OBVIOUS
  <2>2. \A x \in S : (\A y \in S : x >= y) => x = n + 1
    BY <1>1, <2>1
  <2>3. \E x \in S : \A y \in S : x >= y
    BY <1>1, <2>1
  <2>4. QED BY <2>2, <2>3 DEF Max
<1>2. n + 1 \in 1..n + 1 /\ (1..n + 1) \ {n + 1} = 1..n
  OBVIOUS
<1>3. QED BY <1>1, <1>2

(* The fold is defined. *)
LEMMA FoldExists ==
  ASSUME NEW base, NEW s, NEW n \in Nat
  PROVE  \E f : Folds(f, s, base, 1..n)
<1> DEFINE T == {k \in Nat : \E f : Folds(f, s, base, 1..k)}
<1>1. 0 \in T
  <2>1. PICK f : f = [S \in SUBSET (1..0) |-> base]
    OBVIOUS
  <2>2. \A S \in SUBSET (1..0) : S = {}
    OBVIOUS
  <2>3. \A S \in SUBSET (1..0) : Turn(f, s, base, S) = base
    BY <2>2 DEF Turn
  <2>4. [S \in SUBSET (1..0) |-> Turn(f, s, base, S)] = [S \in SUBSET (1..0) |-> base]
    BY <2>3
  <2>5. QED BY <2>1, <2>4 DEF Folds
<1>2. ASSUME NEW k \in Nat, k \in T
      PROVE  k + 1 \in T
  <2>1. PICK g : g = [S \in SUBSET (1..k) |-> Turn(g, s, base, S)]
    BY <1>2 DEF Folds
  <2>2. PICK f : f = [S \in SUBSET (1..k + 1) |->
                        IF k + 1 \in S THEN Applied(g[S \ {k + 1}], s[k + 1]) ELSE g[S]]
    OBVIOUS
  <2>3. ASSUME NEW S \in SUBSET (1..k + 1)
        PROVE  f[S] = Turn(f, s, base, S)
    <3>1. CASE k + 1 \in S
      <4>1. Max(S) = k + 1 /\ S # {}
        BY <3>1, LastOfUpTo
      <4>2. S \ {k + 1} \in SUBSET (1..k + 1) /\ k + 1 \notin S \ {k + 1}
        OBVIOUS
      <4>3. f[S \ {k + 1}] = g[S \ {k + 1}]
        BY <2>2, <4>2
      <4>4. f[S] = Applied(g[S \ {k + 1}], s[k + 1])
        BY <2>2, <3>1
      <4>5. Turn(f, s, base, S) = Applied(f[S \ {k + 1}], s[k + 1])
        BY <4>1 DEF Turn
      <4>6. QED BY <4>3, <4>4, <4>5
    <3>2. CASE k + 1 \notin S
      <4>1. S \in SUBSET (1..k)
        BY <3>2
      <4>2. f[S] = g[S] /\ g[S] = Turn(g, s, base, S)
        BY <2>1, <2>2, <3>2, <4>1
      <4>3. S \ {Max(S)} \in SUBSET (1..k + 1) /\ k + 1 \notin S \ {Max(S)}
        BY <3>2
      <4>4. f[S \ {Max(S)}] = g[S \ {Max(S)}]
        BY <2>2, <4>3
      <4>5. Turn(f, s, base, S) = Turn(g, s, base, S)
        BY <4>4 DEF Turn
      <4>6. QED BY <4>2, <4>5
    <3>3. QED BY <3>1, <3>2
  <2>4. f = [S \in SUBSET (1..k + 1) |-> Turn(f, s, base, S)]
    <3>1. \A S \in SUBSET (1..k + 1) : f[S] = Turn(f, s, base, S)
      BY <2>3
    <3>2. f = [S \in SUBSET (1..k + 1) |-> f[S]]
      BY <2>2
    <3>3. QED BY <3>1, <3>2
  <2>5. QED BY <2>4 DEF Folds
<1>3. Nat \subseteq T
  BY <1>1, <1>2, Upwards
<1>4. QED BY <1>3

(* v[i] is what is shown after i messages. *)
Steps(v, base, s, n) == v[0] = base /\ \A i \in 1..n : v[i] = Applied(v[i - 1], s[i])
Chain(v, base, s) == Steps(v, base, s, Len(s))

(* The fold is where the chain ends, and there is one chain only.          *)
LEMMA FoldIsChain ==
  ASSUME NEW M, NEW s \in Seq(M), NEW base
  PROVE  \E v : Chain(v, base, s) /\ FoldLeft(Applied, base, s) = v[Len(s)]
<1>1. PICK n \in Nat : n = Len(s) /\ DOMAIN s = 1..n
  OBVIOUS
<1>2. PICK f : f = CHOOSE g : Folds(g, s, base, 1..n)
  OBVIOUS
<1>3. Folds(f, s, base, 1..n)
  BY <1>2, FoldExists, Zenon
<1>4. FoldLeft(Applied, base, s) = f[1..n]
  BY <1>1, <1>2, FoldDef
<1>5. PICK v : v = [i \in 0..n |-> f[1..i]]
  OBVIOUS
<1>6. \A S \in SUBSET (1..n) : f[S] = Turn(f, s, base, S)
  BY <1>3 DEF Folds
<1>7. v[0] = base
  <2>1. 1..0 = {} /\ 0 \in 0..n /\ {} \in SUBSET (1..n)
    OBVIOUS
  <2>2. v[0] = f[{}]
    BY <1>5, <2>1
  <2>3. QED BY <1>6, <2>1, <2>2 DEF Turn
<1>8. ASSUME NEW i \in 1..n
      PROVE  v[i] = Applied(v[i - 1], s[i])
  <2>1. PICK k \in Nat : i = k + 1 /\ k = i - 1
    <3>1. i - 1 \in Nat /\ i = (i - 1) + 1
      OBVIOUS
    <3>2. QED BY <3>1
  <2>2. Max(1..i) = i /\ (1..i) \ {i} = 1..k
    <3>1. /\ Max(1..k + 1) = k + 1 /\ (1..k + 1) \ {k + 1} = 1..k
      BY <2>1, LastOfUpTo
    <3>2. QED BY <2>1, <3>1
  <2>3. 1..i # {} /\ 1..i \in SUBSET (1..n) /\ k \in 0..n /\ i \in 0..n
    <3>1. n \in Nat /\ k \in Nat /\ i = k + 1 /\ k + 1 <= n
      BY <1>1, <2>1
    <3>2. k + 1 \in 1..k + 1 /\ k \in 0..n /\ k + 1 \in 0..n
      BY <3>1
    <3>3. \A j \in 1..k + 1 : j \in 1..n
      BY <3>1
    <3>4. QED BY <3>1, <3>2, <3>3
  <2>4. f[1..i] = Applied(f[1..k], s[i])
    BY <1>6, <2>2, <2>3 DEF Turn
  <2>5. v[i] = f[1..i] /\ v[k] = f[1..k]
    BY <1>5, <2>3
  <2>6. QED BY <2>1, <2>4, <2>5
<1>9. v[n] = f[1..n]
  BY <1>5
<1>10. QED BY <1>1, <1>4, <1>7, <1>8, <1>9 DEF Chain, Steps

LEMMA ChainsAgree ==
  ASSUME NEW s, NEW base, NEW n \in Nat, NEW v, NEW w,
         Steps(v, base, s, n), Steps(w, base, s, n)
  PROVE  v[n] = w[n]
<1> DEFINE T == {k \in Nat : k <= n => v[k] = w[k]}
<1>1. 0 \in T
  BY DEF Steps
<1>2. ASSUME NEW k \in Nat, k \in T
      PROVE  k + 1 \in T
  <2>1. ASSUME k + 1 <= n
        PROVE  v[k + 1] = w[k + 1]
    <3>1. k + 1 \in 1..n /\ (k + 1) - 1 = k /\ v[k] = w[k]
      BY <1>2, <2>1
    <3>2. v[k + 1] = Applied(v[k], s[k + 1]) /\ w[k + 1] = Applied(w[k], s[k + 1])
      BY <3>1 DEF Steps
    <3>3. QED BY <3>1, <3>2
  <2>2. QED BY <2>1
<1>3. Nat \subseteq T
  BY <1>1, <1>2, Upwards
<1>4. QED BY <1>3

(* A message that arrives is applied last; the first is applied first. *)
LEMMA FoldAppend ==
  ASSUME NEW M, NEW s \in Seq(M), NEW m \in M, NEW base
  PROVE  FoldLeft(Applied, base, Append(s, m)) = Applied(FoldLeft(Applied, base, s), m)
<1>10. Append(s, m) \in Seq(M)
  BY AppendProperties
<1>1. PICK t \in Seq(M) : t = Append(s, m)
  BY <1>10
<1>0. Len(s) \in Nat
  BY LenProperties
<1>2. PICK n \in Nat : n = Len(s)
  BY <1>0, Zenon
<1>3. Len(t) = n + 1 /\ t[n + 1] = m /\ \A i \in 1..n : t[i] = s[i]
  BY <1>1, <1>2, AppendProperties
<1>4. PICK v : Chain(v, base, t) /\ FoldLeft(Applied, base, t) = v[n + 1]
  BY <1>3, FoldIsChain
<1>5. PICK w : Chain(w, base, s) /\ FoldLeft(Applied, base, s) = w[n]
  BY <1>2, FoldIsChain
<1>6. \A i \in 1..n : v[i] = Applied(v[i - 1], s[i]) /\ w[i] = Applied(w[i - 1], s[i])
  BY <1>2, <1>3, <1>4, <1>5 DEF Chain, Steps
<1>7. v[n] = w[n]
  <2>1. Steps(v, base, s, n) /\ Steps(w, base, s, n)
    BY <1>4, <1>5, <1>6 DEF Chain, Steps
  <2>2. n \in Nat
    BY <1>2
  <2>3. QED BY <2>1, <2>2, ChainsAgree
<1>8. v[n + 1] = Applied(v[n], m)
  <2>1. n + 1 \in 1..n + 1 /\ (n + 1) - 1 = n
    OBVIOUS
  <2>2. QED BY <1>3, <1>4, <2>1 DEF Chain, Steps
<1>9. QED BY <1>1, <1>4, <1>5, <1>7, <1>8

(* What is done first need not be done again.                              *)
LEMMA FoldTail ==
  ASSUME NEW M, NEW s \in Seq(M), s # <<>>, NEW base
  PROVE  FoldLeft(Applied, base, s) = FoldLeft(Applied, Applied(base, Head(s)), Tail(s))
<1>1. PICK t \in Seq(M) : t = Tail(s)
  BY HeadTailProperties
<1>2. PICK n \in Nat : n = Len(t) /\ Len(s) = n + 1 /\ Head(s) = s[1] /\ \A i \in 1..n : t[i] = s[i + 1]
  BY <1>1, HeadTailProperties
<1>3. PICK b : b = Applied(base, Head(s))
  OBVIOUS
<1>4. PICK v : Chain(v, base, s) /\ FoldLeft(Applied, base, s) = v[n + 1]
  BY <1>2, FoldIsChain
<1>5. PICK w : Chain(w, b, t) /\ FoldLeft(Applied, b, t) = w[n]
  BY <1>2, FoldIsChain
<1>6. PICK u : u = [i \in 0..n |-> v[i + 1]]
  OBVIOUS
<1>7. u[0] = b
  <2>1. 0 \in 0..n /\ 1 \in 1..n + 1 /\ 1 - 1 = 0 /\ 0 + 1 = 1
    OBVIOUS
  <2>2. v[1] = Applied(v[0], s[1]) /\ v[0] = base
    BY <1>2, <1>4, <2>1 DEF Chain, Steps
  <2>3. QED BY <1>2, <1>3, <1>6, <2>1, <2>2
<1>8. ASSUME NEW i \in 1..n
      PROVE  u[i] = Applied(u[i - 1], t[i])
  <2>1. i + 1 \in 1..n + 1 /\ (i + 1) - 1 = i /\ i \in 0..n /\ i - 1 \in 0..n /\ (i - 1) + 1 = i
    OBVIOUS
  <2>2. v[i + 1] = Applied(v[i], s[i + 1])
    BY <1>2, <1>4, <2>1 DEF Chain, Steps
  <2>3. u[i] = v[i + 1] /\ u[i - 1] = v[i]
    BY <1>6, <2>1
  <2>4. QED BY <1>2, <2>2, <2>3
<1>9. u[n] = w[n]
  <2>1. Steps(u, b, t, n)
    BY <1>7, <1>8 DEF Steps
  <2>2. Steps(w, b, t, n) /\ n \in Nat
    BY <1>2, <1>5 DEF Chain
  <2>3. QED BY <2>1, <2>2, ChainsAgree
<1>10. u[n] = v[n + 1]
  BY <1>6
<1>11. QED BY <1>1, <1>3, <1>4, <1>5, <1>9, <1>10

(* What a queue of broadcasts makes of boards has their type. *)
LEMMA FoldType ==
  ASSUME NEW base \in [Map -> Rankings], NEW s \in Seq(DownMessage)
  PROVE  FoldLeft(Applied, base, s) \in [Map -> Rankings]
<1>1. PICK v : Chain(v, base, s) /\ FoldLeft(Applied, base, s) = v[Len(s)]
  BY FoldIsChain
<1>2. PICK n : n = Len(s)
  OBVIOUS
<1>3. n \in Nat /\ \A i \in 1..n : s[i] \in DownMessage
  BY <1>2, LenProperties, ElementOfSeq
<1>4. v[0] = base /\ \A i \in 1..n : v[i] = Applied(v[i - 1], s[i])
  BY <1>1, <1>2 DEF Chain, Steps
<1> DEFINE T == {k \in Nat : k <= n => v[k] \in [Map -> Rankings]}
<1>5. 0 \in T
  BY <1>4
<1>6. ASSUME NEW k \in Nat, k \in T
      PROVE  k + 1 \in T
  <2>1. ASSUME k + 1 <= n
        PROVE  v[k + 1] \in [Map -> Rankings]
    <3>1. k + 1 \in 1..n /\ (k + 1) - 1 = k /\ v[k] \in [Map -> Rankings]
      BY <1>3, <1>6, <2>1
    <3>2. s[k + 1] \in DownMessage /\ v[k + 1] = Applied(v[k], s[k + 1])
      BY <1>3, <1>4, <3>1
    <3>3. Applied(v[k], s[k + 1]) \in [Map -> Rankings]
      BY <3>1, <3>2, AppliedType
    <3>4. QED BY <3>2, <3>3
  <2>2. QED BY <2>1
<1>7. Nat \subseteq T
  BY <1>5, <1>6, Upwards
<1>8. QED BY <1>1, <1>2, <1>3, <1>7

(* What p will show once it has handled all that is under way to it. *)
Later(p) == FoldLeft(Applied, shown[p], inbox[p])
Alike(r, b) == r.finished = b.finished /\ r.forfeits = b.forfeits

LEMMA MirrorIsLater ==
  MirrorsServer <=> \A p \in clients : \A m \in synced[p] : Alike(Later(p)[m], board[m])
BY DEF MirrorsServer, Later, Alike

LEMMA LaterType ==
  ASSUME NEW p \in Player, TypeOK
  PROVE  Later(p) \in [Map -> Rankings]
<1>1. shown[p] \in [Map -> Rankings] /\ inbox[p] \in Seq(DownMessage)
  BY DEF TypeOK
<1>2. QED BY <1>1, FoldType DEF Later

(* A broadcast is applied last; handling one changes nothing. *)
LEMMA BroadcastLater ==
  ASSUME NEW p \in clients, NEW msg \in DownMessage, Broadcast(msg), UNCHANGED shown, TypeOK
  PROVE  Later(p)' = Applied(Later(p), msg)
<1>1. p \in Player /\ inbox[p] \in Seq(DownMessage)
  BY DEF TypeOK
<1>2. inbox'[p] = Append(inbox[p], msg) /\ shown'[p] = shown[p]
  BY <1>1 DEF Broadcast
<1>3. FoldLeft(Applied, shown[p], Append(inbox[p], msg))
        = Applied(FoldLeft(Applied, shown[p], inbox[p]), msg)
  BY <1>1, FoldAppend
<1>4. QED BY <1>2, <1>3 DEF Later

LEMMA DeliveryLater ==
  ASSUME NEW p \in Player, NEW q \in Player, OnBroadcast(q), TypeOK
  PROVE  Later(p)' = Later(p)
<1>1. CASE p = q
  <2>1. inbox[p] \in Seq(DownMessage) /\ inbox[p] # <<>>
    BY <1>1 DEF OnBroadcast, TypeOK
  <2>2. inbox'[p] = Tail(inbox[p]) /\ shown'[p] = Applied(shown[p], Head(inbox[p]))
    BY <1>1 DEF OnBroadcast, TypeOK
  <2>3. FoldLeft(Applied, shown[p], inbox[p])
          = FoldLeft(Applied, Applied(shown[p], Head(inbox[p])), Tail(inbox[p]))
    BY <2>1, FoldTail
  <2>4. QED BY <2>2, <2>3 DEF Later
<1>2. CASE p # q
  <2>1. inbox'[p] = inbox[p] /\ shown'[p] = shown[p]
    BY <1>2 DEF OnBroadcast, TypeOK
  <2>2. QED BY <2>1 DEF Later
<1>3. QED BY <1>1, <1>2

LEMMA LaterSame ==
  ASSUME NEW p, inbox'[p] = inbox[p], shown'[p] = shown[p]
  PROVE  Later(p)' = Later(p)
BY DEF Later

(* What each broadcast does to one board. *)
LEMMA GoApplied ==
  ASSUME NEW boards \in [Map -> Rankings], NEW x \in Map, NEW force \in BOOLEAN, NEW m \in Map
  PROVE  LET msg == [code |-> "Go", map |-> x, force |-> force]
         IN  Applied(boards, msg)[m] = IF force \/ m = x THEN NoRankings ELSE boards[m]
BY DEF Applied, Cleared

LEMMA ForfeitApplied ==
  ASSUME NEW boards \in [Map -> Rankings], NEW x \in Map, NEW q \in Player, NEW m \in Map
  PROVE  LET msg == [code |-> "DidNotFinish", map |-> x, player |-> q]
         IN  /\ Applied(boards, msg)[m].finished = boards[m].finished
             /\ Applied(boards, msg)[m].forfeits
                  = IF m = x THEN [boards[m].forfeits EXCEPT ![q] = @ + 1] ELSE boards[m].forfeits
<1> DEFINE msg == [code |-> "DidNotFinish", map |-> x, player |-> q]
<1>1. Applied(boards, msg) = [boards EXCEPT ![x].forfeits[q] = @ + 1]
  BY DEF Applied, Recorded
<1>2. boards[x] \in Rankings /\ boards[m] \in Rankings
  OBVIOUS
<1>3. PICK r : r = [boards[x] EXCEPT !.forfeits[q] = @ + 1]
  OBVIOUS
<1>4. r.finished = boards[x].finished /\ r.forfeits = [boards[x].forfeits EXCEPT ![q] = @ + 1]
  BY <1>2, <1>3 DEF Rankings
<1>5. Applied(boards, msg)[m] = IF m = x THEN r ELSE boards[m]
  BY <1>1, <1>3
<1>6. CASE m = x
  BY <1>4, <1>5, <1>6
<1>7. CASE m # x
  BY <1>5, <1>7
<1>8. QED BY <1>6, <1>7

LEMMA FinishApplied ==
  ASSUME NEW boards \in [Map -> Rankings], NEW x \in Map, NEW e \in Finish, NEW m \in Map
  PROVE  LET msg == [code |-> "LevelFinish", map |-> x, entry |-> e]
         IN  /\ Applied(boards, msg)[m].forfeits = boards[m].forfeits
             /\ Applied(boards, msg)[m].finished
                  = IF m = x THEN boards[m].finished \cup {e} ELSE boards[m].finished
<1> DEFINE msg == [code |-> "LevelFinish", map |-> x, entry |-> e]
<1>1. Applied(boards, msg) = [boards EXCEPT ![x].finished = @ \cup {e}]
  BY DEF Applied, Recorded
<1>2. boards[x] \in Rankings /\ boards[m] \in Rankings
  OBVIOUS
<1>3. PICK r : r = [boards[x] EXCEPT !.finished = @ \cup {e}]
  OBVIOUS
<1>4. r.forfeits = boards[x].forfeits /\ r.finished = boards[x].finished \cup {e}
  BY <1>2, <1>3 DEF Rankings
<1>5. Applied(boards, msg)[m] = IF m = x THEN r ELSE boards[m]
  BY <1>1, <1>3
<1>6. CASE m = x
  BY <1>4, <1>5, <1>6
<1>7. CASE m # x
  BY <1>5, <1>7
<1>8. QED BY <1>6, <1>7

(* What the server does to its own board is what the broadcast does. *)
Mirrored(p, m) == Alike(Later(p)[m], board[m])

LEMMA GoAlike ==
  ASSUME NEW q \in Player, NEW x \in Map, NEW wanted \in BOOLEAN, NEW timed \in BOOLEAN,
         Go(q, x, wanted, timed), UNCHANGED <<clients, shown>>, TypeOK, BoardAssumption,
         MirrorsServer
  PROVE  MirrorsServer'
<1> SUFFICES ASSUME NEW p \in clients', NEW m \in synced'[p]
             PROVE  Mirrored(p, m)'
  BY DEF MirrorsServer, Mirrored, Later, Alike
<1>0. p \in clients /\ p \in Player
  BY DEF TypeOK
<1>1. \A y \in synced[p] : Alike(Later(p)[y], board[y])
  BY <1>0, MirrorIsLater
<1>2. CASE deny_action(q)
  <2>1. UNCHANGED <<board, inbox, synced>>
    BY <1>2 DEF Go
  <2>2. Later(p)' = Later(p)
    BY <2>1, LaterSame
  <2>3. QED BY <1>1, <2>1, <2>2 DEF Mirrored
<1>3. CASE ~ deny_action(q)
  <2>1. PICK force \in BOOLEAN : force = (wanted \/ force_restart_level)
    OBVIOUS
  <2> DEFINE msg == [code |-> "Go", map |-> x, force |-> force]
  <2>2. /\ board' = Cleared(board, x, force, NewBoard(timed))
        /\ Broadcast(msg)
        /\ synced'[p] = IF force THEN Map ELSE synced[p] \cup {x}
    BY <1>0, <1>3, <2>1 DEF Go
  <2>3. msg \in DownMessage
    BY DEF DownMessage
  <2>4. m \in Map /\ board \in [Map -> Board]
    <3>1. synced[p] \subseteq Map /\ board \in [Map -> Board]
      BY <1>0 DEF TypeOK
    <3>2. QED BY <2>2, <3>1
  <2>5. Later(p) \in [Map -> Rankings]
    BY <1>0, LaterType
  <2>6. Later(p)' = Applied(Later(p), msg)
    BY <1>0, <2>2, <2>3, BroadcastLater
  <2>7. Later(p)'[m] = IF force \/ m = x THEN NoRankings ELSE Later(p)[m]
    BY <2>4, <2>5, <2>6, GoApplied
  <2>8. CASE force \/ m = x
    <3>1. board'[m] = NewBoard(timed)
      BY <2>2, <2>4, <2>8 DEF Cleared
    <3>2. Alike(NoRankings, NewBoard(timed))
      BY DEF Alike, NoRankings, NewBoard, Absent
    <3>3. Later(p)'[m] = NoRankings
      BY <2>7, <2>8
    <3>4. QED BY <3>1, <3>2, <3>3 DEF Mirrored
  <2>9. CASE ~ (force \/ m = x)
    <3>1. board'[m] = board[m] /\ m \in synced[p]
      BY <2>2, <2>4, <2>9 DEF Cleared
    <3>2. Later(p)'[m] = Later(p)[m]
      BY <2>7, <2>9
    <3>3. QED BY <1>1, <3>1, <3>2 DEF Mirrored
  <2>10. QED BY <2>8, <2>9
<1>4. QED BY <1>2, <1>3

LEMMA ForfeitAlike ==
  ASSUME NEW q \in Player, NEW x \in Map, Forfeit(q, x),
         UNCHANGED <<clients, shown, synced>>, TypeOK, MirrorsServer
  PROVE  MirrorsServer'
<1> SUFFICES ASSUME NEW p \in clients, NEW m \in synced[p]
             PROVE  Mirrored(p, m)'
  BY DEF MirrorsServer, Mirrored, Later, Alike
<1> DEFINE msg == [code |-> "DidNotFinish", map |-> x, player |-> q]
<1>1. p \in Player /\ m \in Map /\ board \in [Map -> Board]
  BY DEF TypeOK
<1>2. Alike(Later(p)[m], board[m])
  BY MirrorIsLater
<1>3. msg \in DownMessage /\ Broadcast(msg)
  BY DEF Forfeit, DownMessage
<1>4. Later(p) \in [Map -> Rankings]
  BY <1>1, LaterType
<1>5. Later(p)' = Applied(Later(p), msg)
  BY <1>3, BroadcastLater
<1>6. /\ Later(p)'[m].finished = Later(p)[m].finished
      /\ Later(p)'[m].forfeits
           = IF m = x THEN [Later(p)[m].forfeits EXCEPT ![q] = @ + 1] ELSE Later(p)[m].forfeits
  BY <1>1, <1>4, <1>5, ForfeitApplied
<1>7. board'[m].finished = board[m].finished
  BY <1>1, ForfeitSame DEF Same
<1>8. board'[m].forfeits
        = IF m = x THEN [board[m].forfeits EXCEPT ![q] = @ + 1] ELSE board[m].forfeits
  <2>1. board' = [board EXCEPT ![x].forfeits[q] = @ + 1]
    BY DEF Forfeit
  <2>2. board[x] \in Board
    BY <1>1
  <2>3. PICK r : r = [board[x] EXCEPT !.forfeits[q] = @ + 1]
    OBVIOUS
  <2>4. r.forfeits = [board[x].forfeits EXCEPT ![q] = @ + 1]
    BY <2>2, <2>3 DEF Board
  <2>5. board'[m] = IF m = x THEN r ELSE board[m]
    BY <1>1, <2>1, <2>3
  <2>6. CASE m = x
    BY <2>4, <2>5, <2>6
  <2>7. CASE m # x
    BY <2>5, <2>7
  <2>8. QED BY <2>6, <2>7
<1>9. QED BY <1>2, <1>6, <1>7, <1>8 DEF Mirrored, Alike

LEMMA FinishAlike ==
  ASSUME NEW q \in Player, OnLevelFinishV2(q), TypeOK, MirrorsServer
  PROVE  MirrorsServer'
<1>1. UNCHANGED <<clients, shown, synced>>
  BY DEF OnLevelFinishV2, Take, clientVars
<1> SUFFICES ASSUME NEW p \in clients, NEW m \in synced[p]
             PROVE  Mirrored(p, m)'
  BY <1>1 DEF MirrorsServer, Mirrored, Later, Alike
<1>2. PICK x : x = Head(outbox[q]).map
  OBVIOUS
<1>3. PICK e : e = [player |-> q, rank |-> NextPlace(x)]
  OBVIOUS
<1> DEFINE msg == [code |-> "LevelFinish", map |-> x, entry |-> e]
<1>4. x \in Map /\ e \in Finish /\ Broadcast(msg)
  BY <1>2, <1>3, FinishPlaces
<1>5. msg \in DownMessage
  BY <1>4 DEF DownMessage
<1>6. p \in Player /\ m \in Map /\ board \in [Map -> Board]
  BY DEF TypeOK
<1>7. Alike(Later(p)[m], board[m])
  BY MirrorIsLater
<1>8. Later(p) \in [Map -> Rankings]
  BY <1>6, LaterType
<1>9. Later(p)' = Applied(Later(p), msg)
  BY <1>1, <1>4, <1>5, BroadcastLater
<1>10. /\ Later(p)'[m].forfeits = Later(p)[m].forfeits
       /\ Later(p)'[m].finished
            = IF m = x THEN Later(p)[m].finished \cup {e} ELSE Later(p)[m].finished
  <2>1. PICK B \in [Map -> Rankings] : B = Later(p)
    BY <1>8
  <2>2. x \in Map /\ e \in Finish /\ m \in Map
    BY <1>4, <1>6
  <2>3. /\ Applied(B, msg)[m].forfeits = B[m].forfeits
        /\ Applied(B, msg)[m].finished = IF m = x THEN B[m].finished \cup {e} ELSE B[m].finished
    BY <2>2, FinishApplied, SMTT(30)
  <2>4. QED BY <1>9, <2>1, <2>3
<1>11. board'[m].finished = IF m = x THEN board[m].finished \cup {e} ELSE board[m].finished
  BY <1>2, <1>3, <1>6, FinishPlaces
<1>12. board'[m].forfeits = board[m].forfeits
  <2>1. CASE m = x
    BY <1>2, <2>1, FinishPlaces
  <2>2. CASE m # x
    <3>1. board'[m] = board[m]
      BY <1>2, <1>6, <2>2, FinishPlaces
    <3>2. QED BY <3>1
  <2>3. QED BY <2>1, <2>2
<1>13. QED BY <1>7, <1>10, <1>11, <1>12 DEF Mirrored, Alike

(* What a client will show of a map, from its last "Go!" on, is what the   *)
(* server has on record: the finishes and the forfeits, however rounds,    *)
(* finishes and forfeits of all players were interleaved.                  *)
THEOREM ClientsMirrorServer == Spec => []MirrorsServer
<1>1. Init => MirrorsServer
  BY DEF Init, MirrorsServer
<1>2. TypeOK /\ Registered /\ MirrorsServer /\ [Next]_vars => MirrorsServer'
  <2>1. SUFFICES ASSUME TypeOK, Registered, MirrorsServer, [Next]_vars
                 PROVE  MirrorsServer'
    OBVIOUS
  <2>2. ASSUME UNCHANGED <<board, inbox, shown, synced>>, clients' = clients
        PROVE  MirrorsServer'
    BY <2>1, <2>2 DEF MirrorsServer
  <2>3. ASSUME NEW q \in Player, Join(q) PROVE MirrorsServer'
    <3>1. synced'[q] = {}
      BY <2>1, <2>3 DEF Join, Registered
    <3>2. UNCHANGED <<board, inbox, shown, synced>> /\ clients' = clients \cup {q}
      BY <2>3 DEF Join, clientVars
    <3>3. QED BY <2>1, <3>1, <3>2 DEF MirrorsServer
  <2>4. ASSUME NEW q \in Player, Leave(q) PROVE MirrorsServer'
    <3>1. SUFFICES ASSUME NEW p \in clients', NEW m \in synced'[p]
                   PROVE  Mirrored(p, m)'
      BY DEF MirrorsServer, Mirrored, Later, Alike
    <3>2. p \in clients /\ p # q /\ p \in Player /\ board' = board
      BY <2>1, <2>4 DEF Leave, TypeOK
    <3>3. inbox'[p] = inbox[p] /\ synced'[p] = synced[p] /\ shown' = shown
      BY <2>1, <2>4, <3>2 DEF Leave, clientVars, TypeOK
    <3>4. Later(p)' = Later(p)
      BY <3>3, LaterSame
    <3>5. Alike(Later(p)[m], board[m])
      BY <2>1, <3>2, <3>3, MirrorIsLater
    <3>6. QED BY <3>2, <3>4, <3>5 DEF Mirrored
  <2>5. ASSUME NEW q \in Player, OnBroadcast(q) PROVE MirrorsServer'
    <3>1. UNCHANGED <<board, synced, clients>>
      BY <2>5 DEF OnBroadcast, serverVars
    <3>2. \A p \in clients : p \in Player /\ synced[p] \subseteq Map
      BY <2>1 DEF TypeOK
    <3>3. SUFFICES ASSUME NEW p \in clients, NEW m \in synced[p]
                   PROVE  Mirrored(p, m)'
      BY <3>1 DEF MirrorsServer, Mirrored, Later, Alike
    <3>4. Later(p)' = Later(p)
      BY <2>1, <2>5, <3>2, DeliveryLater
    <3>5. Alike(Later(p)[m], board[m])
      BY <2>1, MirrorIsLater
    <3>6. QED BY <3>1, <3>4, <3>5 DEF Mirrored
  <2>6. ASSUME NEW q \in Player, OnCountdown(q) PROVE MirrorsServer'
    <3>1. Head(outbox[q]).map \in Map /\ Head(outbox[q]).force \in BOOLEAN
      BY <2>1, <2>6, TakeType DEF OnCountdown, UpMessage
    <3>2. UNCHANGED <<clients, shown>>
      BY <2>6 DEF OnCountdown, Take, clientVars
    <3>3. Go(q, Head(outbox[q]).map, Head(outbox[q]).force, TRUE)
      BY <2>6 DEF OnCountdown
    <3>4. QED BY <2>1, <3>1, <3>2, <3>3, GoAlike, BoardAssumption
  <2>7. ASSUME NEW q \in Player, OnDidNotFinish(q) PROVE MirrorsServer'
    <3>1. Head(outbox[q]).map \in Map
      BY <2>1, <2>7, TakeType DEF OnDidNotFinish, UpMessage
    <3>2. UNCHANGED <<clients, shown, synced>> /\ Forfeit(q, Head(outbox[q]).map)
      BY <2>7 DEF OnDidNotFinish, Take, clientVars
    <3>3. QED BY <2>1, <3>1, <3>2, ForfeitAlike
  <2>8. ASSUME NEW q \in Player, OnSeriousWarning(q) PROVE MirrorsServer'
    <3>1. UNCHANGED <<clients, shown, synced>>
      BY <2>8 DEF OnSeriousWarning, Take, clientVars
    <3>2. CASE UNCHANGED <<board, dnf, inbox>>
      BY <2>2, <3>1, <3>2
    <3>3. CASE Forfeit(q, current_map[q])
      <4>1. current_map[q] \in Map BY <2>1 DEF TypeOK
      <4>2. QED BY <2>1, <3>1, <3>3, <4>1, ForfeitAlike
    <3>4. QED BY <2>8, <3>2, <3>3 DEF OnSeriousWarning
  <2>9. ASSUME NEW q \in Player, ConsoleCountdown(q) PROVE MirrorsServer'
    <3>1. PICK m \in Map : Go(q, m, FALSE, FALSE)
      BY <2>9 DEF ConsoleCountdown
    <3>2. UNCHANGED <<clients, shown>>
      BY <2>9 DEF ConsoleCountdown, Type, clientVars
    <3>3. QED BY <2>1, <3>1, <3>2, GoAlike, BoardAssumption
  <2>10. ASSUME NEW q \in Player, ConsoleDnf(q) PROVE MirrorsServer'
    <3>1. current_map[q] \in Map BY <2>1 DEF TypeOK
    <3>2. UNCHANGED <<clients, shown, synced>> /\ Forfeit(q, current_map[q])
      BY <2>10 DEF ConsoleDnf, Type, clientVars
    <3>3. QED BY <2>1, <3>1, <3>2, ForfeitAlike
  <2>11. ASSUME ConsoleCountdownForced PROVE MirrorsServer'
    <3>1. \A p \in clients' : synced'[p] = {}
      BY <2>1, <2>11 DEF ConsoleCountdownForced, Type, TypeOK
    <3>2. QED BY <3>1 DEF MirrorsServer
  <2>12. ASSUME NEW q \in Player,
                \/ LoadMap(q) \/ OnLevelFinish(q) \/ SendFinish(q) \/ send_dnf_message(q)
                \/ send_countdown_message(q) \/ SendWarning(q) \/ OnCurrentMap(q)
         PROVE  MirrorsServer'
    <3>1. UNCHANGED <<board, inbox, shown, synced>> /\ clients' = clients
      BY <2>12 DEF LoadMap, OnLevelFinish, SendFinish, send_dnf_message,
                   send_countdown_message, SendWarning, OnCurrentMap, Take,
                   serverVars, clientVars
    <3>2. QED BY <2>2, <3>1
  <2>13. CASE UNCHANGED vars
    BY <2>2, <2>13 DEF vars, serverVars, clientVars
  <2>14. QED BY <2>1, <2>3, <2>4, <2>5, <2>6, <2>7, <2>8, <2>9, <2>10, <2>11, <2>12, <2>13,
                FinishAlike DEF Next, Client, OnMessage, Console
<1>3. QED BY <1>1, <1>2, TypeCorrect, OnlyRegistered, PTL DEF Spec

=============================================================================
