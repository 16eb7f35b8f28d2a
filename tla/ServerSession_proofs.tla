------------------------ MODULE ServerSession_proofs ------------------------
(***************************************************************************)
(* Theorems about ServerSession for every value of its constants: its      *)
(* types, its connections, and the registries: who is in clients_, under   *)
(* which name, and what everybody has been told of it.                     *)
(***************************************************************************)
EXTENDS ServerSession, SequenceTheorems, TLAPS

(* Closing a connection keeps the types of the network variables. *)
LEMMA CloseType ==
  ASSUME NEW c \in Conn, Close(c), TypeOK
  PROVE  /\ link' \in [Conn -> LinkState]
         /\ helloed' \subseteq Conn
         /\ inbox' \in [Conn -> Seq(Message)]
         /\ callbacks' \in Seq(Event)
<1>1. link' \in [Conn -> LinkState] /\ helloed' \subseteq Conn
  BY DEF Close, TypeOK, LinkState
<1>2. inbox' \in [Conn -> Seq(Message)]
  BY DEF Close, TypeOK
<1>3. callbacks' \in Seq(Event)
  <2>1. CASE link[c] \in {"connecting", "connected", "ended"}
    <3>1. [conn |-> c, old |-> link[c], new |-> "none"] \in Event
      BY <2>1 DEF Event
    <3>2. QED BY <2>1, <3>1, AppendProperties DEF Close, TypeOK
  <2>2. CASE link[c] \notin {"connecting", "connected", "ended"}
    BY <2>2 DEF Close, TypeOK
  <2>3. QED BY <2>1, <2>2
<1>4. QED BY <1>1, <1>2, <1>3

(* Taking a message keeps the types of the loop variables, and the message *)
(* is one.                                                                 *)
LEMMA TakeType ==
  ASSUME NEW c \in Conn, NEW codes, Take(c, codes), TypeOK
  PROVE  /\ Head(batch[c]) \in Message
         /\ Head(batch[c]).code \in codes
         /\ phase' \in {"loop", "messages", "callbacks", "halted"}
         /\ batch' \in [Conn -> Seq(Message)]
         /\ dispatch' \in Seq(Event)
         /\ running' \in BOOLEAN
<1>1. batch[c] \in Seq(Message) /\ batch[c] # <<>>
  BY DEF Take, TypeOK
<1>2. Head(batch[c]) \in Message /\ Tail(batch[c]) \in Seq(Message)
  BY <1>1, HeadTailProperties
<1>3. QED BY <1>2 DEF Take, TypeOK

(* A login request carries a login, and the name granted for it is a name. *)
LEMMA LoginType ==
  ASSUME NEW m \in Message, m.code \in {"LoginRequestV3"}, TypeOK
  PROVE  /\ m.login \in LoginRequest
         /\ m.login.uuid \in Uuid
         /\ m.login.nick \in Nick
         /\ GrantedName(m.login) \in Nick
<1>1. m.login \in LoginRequest
  BY DEF Message
<1>2. m.login.uuid \in Uuid /\ m.login.nick \in Nick
  BY <1>1 DEF LoginRequest
<1>3. config.forced_names[m.login.uuid] \in Nick \cup {NoNick}
  BY <1>2 DEF TypeOK, Config
<1>4. ASSUME NEW n \in Nick PROVE get_spectator_nickname(n) \in Nick
  BY DEF Nick, get_spectator_nickname
<1>5. GrantedName(m.login) \in Nick
  BY <1>2, <1>3, <1>4 DEF GrantedName
<1>6. QED BY <1>1, <1>2, <1>5

LEMMA NameType ==
  ASSUME NEW n \in Nick
  PROVE  to_lower(n) \in LowerNick /\ get_real_nickname(n) \in RealNick
BY DEF Nick, LowerNick, RealNick, to_lower, get_real_nickname

RegistryTypeOK ==
  /\ clients \subseteq Conn
  /\ name \in [Conn -> Nick \cup {NoNick}]
  /\ uuid \in [Conn -> Uuid \cup {NoUuid}]
  /\ username \in [LowerNick -> Conn \cup {NoConn}]
  /\ ghost_spectator_clients \subseteq Conn
  /\ ticking \in BOOLEAN
  /\ roster \in [Conn -> SUBSET Conn]

LEMMA EnterType ==
  ASSUME NEW c \in Conn, NEW n \in Nick, NEW u \in Uuid, Enter(c, n, u), TypeOK
  PROVE  RegistryTypeOK'
<1>1. clients' \subseteq Conn /\ clients \subseteq Conn
  BY DEF Enter, ToldOfArrival, TypeOK
<1>2. name' \in [Conn -> Nick \cup {NoNick}] /\ uuid' \in [Conn -> Uuid \cup {NoUuid}]
  BY DEF Enter, ToldOfArrival, TypeOK
<1>3. username' \in [LowerNick -> Conn \cup {NoConn}]
  BY NameType DEF Enter, ToldOfArrival, TypeOK
<1>4. ghost_spectator_clients' \subseteq Conn
  BY DEF Enter, ToldOfArrival, TypeOK
<1>5. ticking' \in BOOLEAN
  BY DEF Enter, ToldOfArrival, TypeOK
<1>6. roster' \in [Conn -> SUBSET Conn]
  BY <1>1 DEF Enter, ToldOfArrival, TypeOK
<1>7. QED BY <1>1, <1>2, <1>3, <1>4, <1>5, <1>6 DEF RegistryTypeOK

LEMMA LeaveType ==
  ASSUME NEW c \in Conn, Leave(c), TypeOK
  PROVE  RegistryTypeOK'
<1>1. clients' \subseteq Conn
  BY DEF Leave, NamesWithout, ViewersWithout, StillTicking, TypeOK
<1>2. name' \in [Conn -> Nick \cup {NoNick}] /\ uuid' \in [Conn -> Uuid \cup {NoUuid}]
  BY DEF Leave, NamesWithout, ViewersWithout, StillTicking, TypeOK
<1>3. username' \in [LowerNick -> Conn \cup {NoConn}]
  BY DEF Leave, NamesWithout, ViewersWithout, StillTicking, TypeOK
<1>4. ghost_spectator_clients' \subseteq Conn
  BY DEF Leave, NamesWithout, ViewersWithout, StillTicking, TypeOK
<1>5. ticking' \in BOOLEAN
  BY DEF Leave, NamesWithout, ViewersWithout, StillTicking, TypeOK
<1>6. roster' \in [Conn -> SUBSET Conn]
  BY DEF Leave, NamesWithout, ViewersWithout, StillTicking, TypeOK
<1>7. QED BY <1>1, <1>2, <1>3, <1>4, <1>5, <1>6 DEF RegistryTypeOK


(* What a step has to keep, grouped as the actions leave it alone. *)
NetTypeOK ==
  /\ link \in [Conn -> LinkState]
  /\ helloed \subseteq Conn
  /\ inbox \in [Conn -> Seq(Message)]
  /\ callbacks \in Seq(Event)

LoopTypeOK ==
  /\ phase \in {"loop", "messages", "callbacks", "halted"}
  /\ batch \in [Conn -> Seq(Message)]
  /\ dispatch \in Seq(Event)
  /\ running \in BOOLEAN

AdminTypeOK ==
  /\ config \in Config
  /\ console \in ConsoleState
  /\ raced \in BOOLEAN
  /\ overtaken \subseteq Conn

LEMMA TypeParts == TypeOK <=> NetTypeOK /\ LoopTypeOK /\ RegistryTypeOK /\ AdminTypeOK
BY DEF TypeOK, NetTypeOK, LoopTypeOK, RegistryTypeOK, AdminTypeOK

LEMMA TypePartsPrime ==
  ASSUME NetTypeOK', LoopTypeOK', RegistryTypeOK', AdminTypeOK'
  PROVE  TypeOK'
BY DEF TypeOK, NetTypeOK, LoopTypeOK, RegistryTypeOK, AdminTypeOK

LEMMA UnchangedType ==
  ASSUME TypeOK
  PROVE  /\ UNCHANGED netVars => NetTypeOK'
         /\ UNCHANGED loopVars => LoopTypeOK'
         /\ UNCHANGED clientVars => RegistryTypeOK'
         /\ UNCHANGED adminVars => AdminTypeOK'
<1>1. NetTypeOK /\ LoopTypeOK /\ RegistryTypeOK /\ AdminTypeOK
  BY TypeParts
<1>2. UNCHANGED netVars => NetTypeOK'
  BY <1>1 DEF netVars, NetTypeOK
<1>3. UNCHANGED loopVars => LoopTypeOK'
  BY <1>1 DEF loopVars, LoopTypeOK
<1>4. UNCHANGED clientVars => RegistryTypeOK'
  BY <1>1 DEF clientVars, RegistryTypeOK
<1>5. UNCHANGED adminVars => AdminTypeOK'
  BY <1>1 DEF adminVars, AdminTypeOK
<1>6. QED BY <1>2, <1>3, <1>4, <1>5

LEMMA DispatchType ==
  ASSUME DispatchHead, TypeOK
  PROVE  /\ Head(dispatch) \in Event
         /\ Head(dispatch).conn \in Conn
         /\ LoopTypeOK'
<1>1. dispatch \in Seq(Event) /\ dispatch # <<>>
  BY DEF DispatchHead, TypeOK
<1>2. Head(dispatch) \in Event /\ Tail(dispatch) \in Seq(Event)
  BY <1>1, HeadTailProperties
<1>3. Head(dispatch).conn \in Conn
  BY <1>2 DEF Event
<1>4. LoopTypeOK'
  BY <1>2 DEF DispatchHead, TypeOK, LoopTypeOK
<1>5. QED BY <1>2, <1>3, <1>4

LEMMA PeerKeepsType ==
  ASSUME NEW c \in Conn, Peer(c), TypeOK
  PROVE  TypeOK'
<1>1. UNCHANGED <<loopVars, clientVars, adminVars>>
  BY DEF Peer, PeerConnect, PeerEnd, PeerLogin, PeerRequest
<1>2. LoopTypeOK' /\ RegistryTypeOK' /\ AdminTypeOK'
  BY <1>1, UnchangedType
<1>3. ASSUME NEW e \in Event PROVE Append(callbacks, e) \in Seq(Event)
  BY AppendProperties DEF TypeOK
<1>4. ASSUME NEW m \in Message
      PROVE  [inbox EXCEPT ![c] = Append(@, m)] \in [Conn -> Seq(Message)]
  BY AppendProperties DEF TypeOK
<1>5. NetTypeOK'
  <2>1. CASE PeerConnect(c)
    <3>1. [conn |-> c, old |-> "none", new |-> "connecting"] \in Event
      BY DEF Event
    <3>2. QED BY <2>1, <3>1, <1>3 DEF PeerConnect, TypeOK, NetTypeOK, LinkState
  <2>2. CASE PeerEnd(c)
    <3>1. [conn |-> c, old |-> link[c], new |-> "ended"] \in Event
      BY <2>2 DEF Event, PeerEnd
    <3>2. QED BY <2>2, <3>1, <1>3 DEF PeerEnd, TypeOK, NetTypeOK, LinkState
  <2>3. CASE PeerLogin(c)
    <3>1. PICK l \in Logins :
            inbox' = [inbox EXCEPT ![c] = Append(@, [code |-> "LoginRequestV3", login |-> l])]
      BY <2>3 DEF PeerLogin
    <3>2. l \in LoginRequest
      BY SessionAssumption
    <3>3. [code |-> "LoginRequestV3", login |-> l] \in Message
      BY <3>2 DEF Message
    <3>4. QED BY <2>3, <3>1, <3>3, <1>4 DEF PeerLogin, TypeOK, NetTypeOK
  <2>4. CASE PeerRequest(c)
    <3>1. PICK m \in Requests : inbox' = [inbox EXCEPT ![c] = Append(@, m)]
      BY <2>4 DEF PeerRequest
    <3>2. m \in Message
      BY SessionAssumption
    <3>3. QED BY <2>4, <3>1, <3>2, <1>4 DEF PeerRequest, TypeOK, NetTypeOK
  <2>5. QED BY <2>1, <2>2, <2>3, <2>4 DEF Peer
<1>6. QED BY <1>2, <1>5, TypePartsPrime

LEMMA NetUnchangedOrClosed ==
  ASSUME NEW c \in Conn, Close(c) \/ UNCHANGED netVars, TypeOK
  PROVE  NetTypeOK'
BY CloseType, UnchangedType DEF NetTypeOK

LEMMA OnMessageKeepsType ==
  ASSUME NEW c \in Conn, OnMessage(c), TypeOK
  PROVE  TypeOK'
<1>1. ASSUME NEW codes, Take(c, codes) PROVE LoopTypeOK' /\ Head(batch[c]) \in Message
  BY <1>1, TakeType DEF LoopTypeOK
<1>2. CASE RefuseStranger(c) \/ RefuseLegacyLogin(c) \/ RefuseLogin(c)
           \/ OnFatalError(c) \/ OnOther(c)
  <2>1. LoopTypeOK'
    BY <1>1, <1>2 DEF RefuseStranger, RefuseLegacyLogin, RefuseLogin, OnFatalError, OnOther
  <2>2. (Close(c) \/ UNCHANGED netVars) /\ UNCHANGED <<clientVars, adminVars>>
    BY <1>2 DEF RefuseStranger, RefuseLegacyLogin, RefuseLogin, OnFatalError, OnOther
  <2>3. NetTypeOK'
    BY <2>2, NetUnchangedOrClosed
  <2>4. RegistryTypeOK' /\ AdminTypeOK'
    BY <2>2, UnchangedType
  <2>5. QED BY <2>1, <2>3, <2>4, TypePartsPrime
<1>3. CASE AcceptLogin(c)
  <2>1. LoopTypeOK' /\ Head(batch[c]) \in Message /\ Head(batch[c]).code \in {"LoginRequestV3"}
    BY <1>3, <1>1, TakeType DEF AcceptLogin
  <2>2. /\ Enter(c, GrantedName(Head(batch[c]).login), Head(batch[c]).login.uuid)
        /\ UNCHANGED <<netVars, adminVars>>
    BY <1>3 DEF AcceptLogin
  <2>3. RegistryTypeOK'
    BY <2>1, <2>2, LoginType, EnterType
  <2>4. QED BY <2>1, <2>2, <2>3, UnchangedType, TypePartsPrime
<1>4. CASE OnKickRequest(c)
  <2>1. LoopTypeOK'
    BY <1>4, <1>1 DEF OnKickRequest
  <2>2. /\ UNCHANGED <<clientVars, adminVars>>
        /\ UNCHANGED netVars \/ \E target \in clients : Close(target)
    BY <1>4 DEF OnKickRequest
  <2>3. NetTypeOK'
    BY <2>2, NetUnchangedOrClosed DEF TypeOK
  <2>4. QED BY <2>1, <2>2, <2>3, UnchangedType, TypePartsPrime
<1>5. QED BY <1>2, <1>3, <1>4 DEF OnMessage

LEMMA OnStatusChangedKeepsType ==
  ASSUME OnStatusChanged, TypeOK
  PROVE  TypeOK'
<1> DEFINE c == Head(dispatch).conn
<1>1. LoopTypeOK' /\ c \in Conn /\ AdminTypeOK'
  BY DispatchType, UnchangedType DEF OnStatusChanged, OnConnecting, OnConnected, OnClosed, IsLeaving
<1>2. CASE OnConnecting
  <2>1. RegistryTypeOK'
    BY <1>2, UnchangedType DEF OnConnecting
  <2>2. CASE Close(c)
    BY <1>1, <2>1, <2>2, NetUnchangedOrClosed, TypePartsPrime
  <2>3. CASE ~ Close(c)
    <3>1. /\ link[c] = "connecting"
          /\ link' = [link EXCEPT ![c] = "connected"]
          /\ callbacks' = Append(callbacks,
                            [conn |-> c, old |-> "connecting", new |-> "connected"])
          /\ UNCHANGED <<helloed, inbox>>
      BY <1>2, <2>3 DEF OnConnecting
    <3>2. [conn |-> c, old |-> "connecting", new |-> "connected"] \in Event
      BY <1>1 DEF Event
    <3>3. callbacks' \in Seq(Event)
      BY <3>1, <3>2, AppendProperties DEF TypeOK
    <3>4. NetTypeOK'
      BY <1>1, <3>1, <3>3 DEF TypeOK, NetTypeOK, LinkState
    <3>5. QED BY <1>1, <2>1, <3>4, TypePartsPrime
  <2>4. QED BY <2>2, <2>3
<1>3. CASE OnConnected
  BY <1>1, <1>3, UnchangedType, TypePartsPrime DEF OnConnected
<1>4. CASE OnClosed
  <2>1. Close(c) /\ (Leave(c) \/ UNCHANGED clientVars)
    BY <1>4 DEF OnClosed, IsLeaving
  <2>2. NetTypeOK'
    BY <1>1, <2>1, NetUnchangedOrClosed
  <2>3. RegistryTypeOK'
    BY <1>1, <2>1, LeaveType, UnchangedType
  <2>4. QED BY <1>1, <2>2, <2>3, TypePartsPrime
<1>5. QED BY <1>2, <1>3, <1>4 DEF OnStatusChanged

(* What is taken of a connection's messages and what is left make them up. *)
LEMMA ReceiveSplits ==
  ASSUME Receive, TypeOK, NEW c \in Conn
  PROVE  /\ batch'[c] \in Seq(Message) /\ inbox'[c] \in Seq(Message)
         /\ batch'[c] \o inbox'[c] = inbox[c]
<1>1. PICK taken \in [Conn -> 0..ONCE_RECV_MSG_COUNT] :
        /\ \A d \in Conn : taken[d] <= Len(inbox[d])
        /\ batch' = [d \in Conn |-> SubSeq(inbox[d], 1, taken[d])]
        /\ inbox' = [d \in Conn |-> SubSeq(inbox[d], taken[d] + 1, Len(inbox[d]))]
  BY DEF Receive
<1> DEFINE s == inbox[c]
           k == taken[c]
<1>2. s \in Seq(Message) /\ Len(s) \in Nat /\ k \in 0..Len(s)
  BY <1>1, LenProperties, SessionAssumption DEF TypeOK
<1>3. \A i \in 1..Len(s) : s[i] \in Message
  BY <1>2, ElementOfSeq
<1>4. SubSeq(s, 1, k) \in Seq(Message)
  BY <1>2, <1>3, SubSeqProperties
<1>5. SubSeq(s, k + 1, Len(s)) \in Seq(Message)
  BY <1>2, <1>3, SubSeqProperties
<1>6. SubSeq(s, 1, k) \o SubSeq(s, k + 1, Len(s)) = SubSeq(s, 1, Len(s))
  <2>1. 1 \in 1..Len(s) + 1 /\ k \in 1 - 1..Len(s) /\ Len(s) \in k..Len(s)
    BY <1>2
  <2>2. QED BY <1>2, <2>1, ConcatAdjacentSubSeq, Zenon
<1>7. SubSeq(s, 1, Len(s)) = s
  BY <1>2, SubSeqFull
<1>8. QED BY <1>1, <1>4, <1>5, <1>6, <1>7

LEMMA ServerThreadKeepsType ==
  ASSUME ServerThread, TypeOK
  PROVE  TypeOK'
<1>1. CASE Receive \/ RunCallbacks \/ EndRound \/ Halt
  <2>1. UNCHANGED <<clientVars, adminVars>>
    BY <1>1 DEF Receive, RunCallbacks, EndRound, Halt
  <2>2. RegistryTypeOK' /\ AdminTypeOK'
    BY <2>1, UnchangedType
  <2>3. <<>> \in Seq(Message) /\ <<>> \in Seq(Event)
    BY EmptySeq
  <2>4. Receive => batch' \in [Conn -> Seq(Message)] /\ inbox' \in [Conn -> Seq(Message)]
    <3>1. ASSUME Receive
          PROVE  /\ DOMAIN batch' = Conn /\ DOMAIN inbox' = Conn
                 /\ batch' = [c \in Conn |-> batch'[c]] /\ inbox' = [c \in Conn |-> inbox'[c]]
      BY <3>1 DEF Receive
    <3>2. QED BY <3>1, ReceiveSplits
  <2>5. LoopTypeOK' /\ NetTypeOK'
    BY <1>1, <2>3, <2>4 DEF Receive, RunCallbacks, EndRound, Halt, TypeOK, LoopTypeOK, NetTypeOK,
                            netVars, loopVars
  <2>6. QED BY <2>2, <2>5, TypePartsPrime
<1>2. CASE \E c \in Conn : OnMessage(c)
  BY <1>2, OnMessageKeepsType
<1>3. CASE OnStatusChanged
  BY <1>3, OnStatusChangedKeepsType
<1>4. QED BY <1>1, <1>2, <1>3 DEF ServerThread

LEMMA ConsoleKeepsType ==
  ASSUME ConsoleThread, TypeOK
  PROVE  TypeOK'
<1> DEFINE C == ConsoleState
<1>1. Idle \in C
  BY DEF Idle, ConsoleState
<1>2. /\ console \in C /\ config \in Config /\ raced \in BOOLEAN
      /\ overtaken \subseteq Conn /\ clients \subseteq Conn
  BY DEF TypeOK
<1>3. CASE \E c \in Conn : ConsoleLookup(c)
  <2>1. console' \in C
    BY <1>3 DEF ConsoleLookup, ConsoleState
  <2>2. AdminTypeOK'
    BY <1>2, <1>3, <2>1 DEF ConsoleLookup, AdminTypeOK
  <2>3. UNCHANGED <<netVars, loopVars, clientVars>>
    BY <1>3 DEF ConsoleLookup
  <2>4. QED BY <2>2, <2>3, UnchangedType, TypePartsPrime
<1>4. ASSUME NEW cmd, ConsoleUse(cmd)
      PROVE  /\ console.target \in Conn /\ console.target \in clients
             /\ console' \in C /\ raced' \in BOOLEAN /\ overtaken' \subseteq Conn
             /\ LoopTypeOK'
  BY <1>1, <1>2, <1>4, UnchangedType DEF ConsoleUse
<1>5. ASSUME NEW n \in RealNick, NEW u \in Uuid \cup {NoUuid}
      PROVE  [config EXCEPT !.op_players[n] = u] \in Config
  BY <1>2 DEF Config
<1>6. CASE ConsoleKick
  <2>1. AdminTypeOK'
    BY <1>2, <1>4, <1>6 DEF ConsoleKick, AdminTypeOK
  <2>2. NetTypeOK'
    BY <1>4, <1>6, NetUnchangedOrClosed DEF ConsoleKick
  <2>3. QED BY <1>4, <1>6, <2>1, <2>2, UnchangedType, TypePartsPrime DEF ConsoleKick
<1>7. CASE ConsoleBan
  <2>1. [config EXCEPT !.banned_players = @ \cup ({uuid[console.target]} \cap Uuid)] \in Config
    BY <1>2 DEF Config
  <2>2. AdminTypeOK'
    BY <2>1, <1>4, <1>7 DEF ConsoleBan, AdminTypeOK
  <2>3. NetTypeOK'
    BY <1>4, <1>7, NetUnchangedOrClosed DEF ConsoleBan
  <2>4. QED BY <1>4, <1>7, <2>2, <2>3, UnchangedType, TypePartsPrime DEF ConsoleBan
<1>8. ASSUME NEW c \in clients, name[c] # NoNick
      PROVE  /\ get_real_nickname(name[c]) \in RealNick
             /\ uuid[c] \in Uuid \cup {NoUuid}
  BY <1>2, <1>8, NameType DEF TypeOK
<1>9. CASE ConsoleOp \/ ConsoleDeop
  <2> DEFINE c == console.target
             n == get_real_nickname(name[c])
  <2>1. c \in Conn /\ c \in clients /\ name[c] # NoNick /\ console.left = {}
    BY <1>2, <1>9 DEF ConsoleOp, ConsoleDeop, ConsoleState, TargetCommand, OpStep
  <2>2. \/ console' = Idle
        \/ console' = [console EXCEPT !.cmd = "insert"]
        \/ console' = [console EXCEPT !.cmd = "erase"]
    BY <1>9 DEF ConsoleOp, ConsoleDeop
  <2>3. console' \in C
    BY <1>1, <1>2, <1>9, <2>1, <2>2
       DEF ConsoleOp, ConsoleDeop, ConsoleState, TargetCommand, OpStep
  <2>4. \/ config' = config
        \/ config' = [config EXCEPT !.op_players[n] = uuid[c]]
        \/ config' = [config EXCEPT !.op_players[n] = NoUuid]
    BY <1>9 DEF ConsoleOp, ConsoleDeop
  <2>5. config' \in Config
    BY <1>2, <1>5, <1>8, <2>1, <2>4
  <2>6. UNCHANGED <<netVars, loopVars, clientVars, raced, overtaken>>
    BY <1>9 DEF ConsoleOp, ConsoleDeop
  <2>7. AdminTypeOK'
    BY <1>2, <2>3, <2>5, <2>6 DEF AdminTypeOK
  <2>8. QED BY <2>6, <2>7, UnchangedType, TypePartsPrime
<1>10. CASE OpInsert \/ DeopErase \/ OpReconnect
  <2>1. console.target \in Conn /\ console' \in C
    BY <1>1, <1>2, <1>10
       DEF OpInsert, DeopErase, OpReconnect, ConsoleState, TargetCommand, OpStep
  <2>2. /\ UNCHANGED <<loopVars, config, raced>>
        /\ overtaken' = overtaken \/ overtaken' = overtaken \cup ({console.target} \ clients)
    BY <1>10 DEF OpInsert, DeopErase, OpReconnect
  <2>3. AdminTypeOK'
    BY <1>2, <2>1, <2>2 DEF AdminTypeOK
  <2>4. NetTypeOK'
    <3>1. Close(console.target) \/ UNCHANGED netVars
      BY <1>10 DEF OpInsert, DeopErase, OpReconnect
    <3>2. QED BY <2>1, <3>1, NetUnchangedOrClosed
  <2>5. RegistryTypeOK'
    BY <1>10, <2>1 DEF OpInsert, DeopErase, OpReconnect, clientVars, TypeOK, RegistryTypeOK
  <2>6. QED BY <2>2, <2>3, <2>4, <2>5, UnchangedType, TypePartsPrime
<1>11. CASE ConsoleStale
  <2>1. console.target \in Conn
    BY <1>2, <1>11 DEF ConsoleStale, ConsoleState, TargetCommand, OpStep
  <2>2. RegistryTypeOK'
    BY <1>11, <2>1 DEF ConsoleStale, TypeOK, RegistryTypeOK
  <2>3. AdminTypeOK'
    BY <1>1, <1>2, <1>11 DEF ConsoleStale, AdminTypeOK
  <2>4. QED BY <1>11, <2>2, <2>3, UnchangedType, TypePartsPrime DEF ConsoleStale
<1>12. CASE ConsoleReload \/ ConsoleUnban
  <2>1. ASSUME NEW u PROVE [config EXCEPT !.banned_players = @ \ {u}] \in Config
    BY <1>2 DEF Config
  <2>2. config' \in Config /\ UNCHANGED <<netVars, loopVars, clientVars, console, raced, overtaken>>
    BY <1>12, <2>1, SessionAssumption DEF ConsoleReload, ConsoleUnban
  <2>3. AdminTypeOK'
    BY <1>2, <2>2 DEF AdminTypeOK
  <2>4. QED BY <2>2, <2>3, UnchangedType, TypePartsPrime
<1>13. CASE ConsoleStop
  <2>1. console' \in C
    BY <1>2, <1>13 DEF ConsoleStop, ConsoleState
  <2>2. AdminTypeOK'
    BY <1>2, <1>13, <2>1 DEF ConsoleStop, AdminTypeOK
  <2>3. QED BY <1>13, <2>2, UnchangedType, TypePartsPrime DEF ConsoleStop
<1>14. CASE StopClose
  <2>1. PICK c \in console.left : Close(c) /\ console' = [console EXCEPT !.left = @ \ {c}]
    BY <1>14 DEF StopClose
  <2>2. c \in Conn /\ console' \in C
    BY <1>2, <1>14, <2>1 DEF StopClose, ConsoleState, TargetCommand, OpStep
  <2>3. AdminTypeOK'
    BY <1>2, <1>14, <2>2 DEF StopClose, AdminTypeOK
  <2>4. NetTypeOK'
    BY <2>1, <2>2, NetUnchangedOrClosed
  <2>5. QED BY <1>14, <2>3, <2>4, UnchangedType, TypePartsPrime DEF StopClose
<1>15. CASE StopTicking
  <2>1. AdminTypeOK'
    BY <1>2, <1>15 DEF StopTicking, AdminTypeOK, ConsoleState, TargetCommand, OpStep
  <2>2. RegistryTypeOK'
    BY <1>15 DEF StopTicking, TypeOK, RegistryTypeOK
  <2>3. QED BY <1>15, <2>1, <2>2, UnchangedType, TypePartsPrime DEF StopTicking
<1>16. CASE StopRunning
  <2>1. AdminTypeOK'
    BY <1>2, <1>16 DEF StopRunning, AdminTypeOK, ConsoleState, TargetCommand, OpStep
  <2>2. LoopTypeOK'
    BY <1>16 DEF StopRunning, TypeOK, LoopTypeOK
  <2>3. QED BY <1>16, <2>1, <2>2, UnchangedType, TypePartsPrime DEF StopRunning
<1>17. QED BY <1>3, <1>6, <1>7, <1>9, <1>10, <1>11, <1>12, <1>13, <1>14, <1>15, <1>16
         DEF ConsoleThread

LEMMA InitType == Init => TypeOK
<1>1. ASSUME Init PROVE TypeOK
  <2>1. config \in Config
    BY <1>1, SessionAssumption DEF Init
  <2>2. console \in ConsoleState
    BY <1>1 DEF Init, Idle, ConsoleState
  <2>3. <<>> \in Seq(Message) /\ <<>> \in Seq(Event)
    BY EmptySeq
  <2>4. QED BY <1>1, <2>1, <2>2, <2>3 DEF Init, TypeOK, LinkState
<1>2. QED BY <1>1

LEMMA StutterKeepsType ==
  ASSUME UNCHANGED vars, TypeOK
  PROVE  TypeOK'
BY UnchangedType, TypePartsPrime DEF vars

(* Every variable keeps its type, whatever the connections, the players,   *)
(* the messages and the configuration files are.                           *)
THEOREM TypeCorrect == Spec => []TypeOK
<1>1. ASSUME [Next]_vars, TypeOK PROVE TypeOK'
  BY <1>1, PeerKeepsType, ServerThreadKeepsType, ConsoleKeepsType, StutterKeepsType DEF Next
<1>2. QED BY InitType, <1>1, PTL DEF Spec

-----------------------------------------------------------------------------
(* NoOrphan.  Once the callback that will clean up after a connection is   *)
(* queued it stays queued, in order, until it is dispatched; Alternation   *)
(* says that no message is being handled then, and NothingAfterFarewell    *)
(* that what was received before it is handled before it.                  *)

FarewellKept(c) ==
  /\ \/ UNCHANGED callbacks
     \/ \E e \in Event : callbacks' = Append(callbacks, e)
  /\ \/ UNCHANGED dispatch
     \/ /\ dispatch # <<>> /\ dispatch' = Tail(dispatch)
        /\ ~ IsFarewell(Head(dispatch), c)

LEMMA FarewellStays ==
  ASSUME NEW c \in Conn, TypeOK, FarewellPending(c), FarewellKept(c)
  PROVE  FarewellPending(c)'
<1>1. callbacks \in Seq(Event) /\ dispatch \in Seq(Event)
  BY DEF TypeOK
<1>2. ASSUME NEW i \in 1..Len(callbacks), IsFarewell(callbacks[i], c)
      PROVE  FarewellPending(c)'
  <2>1. i \in 1..Len(callbacks') /\ callbacks'[i] = callbacks[i]
    BY <1>1, AppendProperties DEF FarewellKept
  <2>2. IsFarewell(callbacks[i], c)'
    BY <1>2, <2>1 DEF IsFarewell
  <2>3. QED BY <2>1, <2>2, <1>2 DEF FarewellPending, IsFarewell
<1>3. ASSUME NEW i \in 1..Len(dispatch), IsFarewell(dispatch[i], c)
      PROVE  FarewellPending(c)'
  <2>1. CASE UNCHANGED dispatch
    BY <1>3, <2>1 DEF FarewellPending, IsFarewell
  <2>2. CASE /\ dispatch # <<>> /\ dispatch' = Tail(dispatch)
             /\ ~ IsFarewell(Head(dispatch), c)
    <3>1. i # 1
      BY <1>1, <1>3, <2>2, HeadTailProperties
    <3>2. i - 1 \in 1..Len(dispatch') /\ dispatch'[i - 1] = dispatch[i]
      BY <1>1, <1>3, <2>2, <3>1, HeadTailProperties
    <3>3. QED BY <1>3, <3>2 DEF FarewellPending, IsFarewell
  <2>3. QED BY <2>1, <2>2 DEF FarewellKept
<1>4. QED BY <1>2, <1>3 DEF FarewellPending

(* Closing a connection queues one callback at most, and the farewell of a *)
(* connection that was open.                                               *)
LEMMA CloseAccounts ==
  ASSUME NEW d \in Conn, Close(d), TypeOK,
         NEW c \in Conn, Accounted(c),
         \/ UNCHANGED dispatch
         \/ /\ dispatch # <<>> /\ dispatch' = Tail(dispatch)
            /\ ~ IsFarewell(Head(dispatch), c)
  PROVE  Accounted(c)'
<1>1. \/ UNCHANGED callbacks
      \/ \E e \in Event : callbacks' = Append(callbacks, e)
  BY DEF Close, Event
<1>2. CASE FarewellPending(c)
  BY <1>1, <1>2, FarewellStays DEF FarewellKept, Accounted
<1>3. CASE link[c] = "connected" /\ c # d
  BY <1>3 DEF Close, TypeOK, Accounted
<1>4. CASE link[c] = "connected" /\ c = d
  <2> DEFINE e == [conn |-> c, old |-> "connected", new |-> "none"]
  <2>1. callbacks' = Append(callbacks, e)
    BY <1>4 DEF Close
  <2>2. e \in Event /\ callbacks \in Seq(Event)
    BY DEF Event, TypeOK
  <2>3. Len(callbacks) + 1 \in 1..Len(callbacks') /\ callbacks'[Len(callbacks) + 1] = e
    BY <2>1, <2>2, AppendProperties
  <2>4. IsFarewell(e, c)
    BY DEF IsFarewell
  <2>5. FarewellPending(c)'
    BY <2>3, <2>4 DEF FarewellPending, IsFarewell
  <2>6. QED BY <2>5 DEF Accounted
<1>5. QED BY <1>2, <1>3, <1>4 DEF Accounted

LEMMA PeerAccounts ==
  ASSUME NEW d \in Conn, Peer(d), TypeOK, NEW c \in Conn, Accounted(c)
  PROVE  Accounted(c)'
<1>1. UNCHANGED dispatch
  BY DEF Peer, PeerConnect, PeerEnd, PeerLogin, PeerRequest, loopVars
<1>2. \/ UNCHANGED callbacks
      \/ \E e \in Event : callbacks' = Append(callbacks, e)
  BY DEF Peer, PeerConnect, PeerEnd, PeerLogin, PeerRequest, Event
<1>3. CASE FarewellPending(c)
  BY <1>1, <1>2, <1>3, FarewellStays DEF FarewellKept, Accounted
<1>4. CASE link[c] = "connected"
  <2>1. CASE PeerEnd(d) /\ c = d
    <3> DEFINE e == [conn |-> c, old |-> "connected", new |-> "ended"]
    <3>1. callbacks' = Append(callbacks, e)
      BY <1>4, <2>1 DEF PeerEnd
    <3>2. e \in Event /\ callbacks \in Seq(Event)
      BY DEF Event, TypeOK
    <3>3. /\ Len(callbacks) + 1 \in 1..Len(callbacks')
          /\ callbacks'[Len(callbacks) + 1] = e
      BY <3>1, <3>2, AppendProperties
    <3>4. IsFarewell(e, c)
      BY DEF IsFarewell
    <3>5. FarewellPending(c)'
      BY <3>3, <3>4 DEF FarewellPending, IsFarewell
    <3>6. QED BY <3>5 DEF Accounted
  <2>2. CASE ~ (PeerEnd(d) /\ c = d)
    <3>1. link'[c] = link[c]
      BY <1>4, <2>2 DEF Peer, PeerConnect, PeerEnd, PeerLogin, PeerRequest, TypeOK
    <3>2. QED BY <1>4, <3>1 DEF Accounted
  <2>3. QED BY <2>1, <2>2
<1>5. QED BY <1>3, <1>4 DEF Accounted

OrphanInv == TypeOK /\ Alternation /\ NothingAfterFarewell /\ NoOrphan

LEMMA OrphanInit == Init => OrphanInv
<1>1. ASSUME Init PROVE Alternation /\ NothingAfterFarewell /\ NoOrphan
  BY <1>1 DEF Init, Alternation, NothingAfterFarewell, NoOrphan
<1>2. QED BY <1>1, InitType DEF OrphanInv

LEMMA OrphanPeer ==
  ASSUME NEW d \in Conn, Peer(d), OrphanInv
  PROVE  (Alternation /\ NothingAfterFarewell /\ NoOrphan)'
<1>1. TypeOK /\ Alternation /\ NothingAfterFarewell /\ NoOrphan
  BY DEF OrphanInv
<1>2. UNCHANGED <<loopVars, clientVars, adminVars>>
  BY DEF Peer, PeerConnect, PeerEnd, PeerLogin, PeerRequest
<1>3. Alternation'
  BY <1>1, <1>2 DEF Alternation, loopVars
<1>4. NothingAfterFarewell'
  <2>1. SUFFICES ASSUME NEW c \in Conn, inbox'[c] # <<>> \/ batch'[c] # <<>>
                 PROVE  Accounted(c)'
    BY DEF NothingAfterFarewell
  <2>2. inbox[c] # <<>> \/ batch[c] # <<>> \/ link[c] = "connected"
    BY <1>1, <1>2, <2>1
       DEF Peer, PeerConnect, PeerEnd, PeerLogin, PeerRequest, loopVars, TypeOK
  <2>3. Accounted(c)
    BY <1>1, <2>2 DEF NothingAfterFarewell, Accounted
  <2>4. QED BY <1>1, <2>3, PeerAccounts
<1>5. NoOrphan'
  <2>1. ASSUME ~ raced, NEW c \in clients PROVE Accounted(c)'
    BY <1>1, <2>1, PeerAccounts DEF NoOrphan, TypeOK
  <2>2. QED BY <1>2, <2>1 DEF NoOrphan, clientVars, adminVars
<1>6. QED BY <1>3, <1>4, <1>5

(* Close(t) for some t, or nothing at all, happens to the network. *)
ClosesOne == UNCHANGED netVars \/ \E t \in Conn : Close(t)

LEMMA ClosesOneAccounts ==
  ASSUME ClosesOne, TypeOK, NEW c \in Conn,
         \/ UNCHANGED dispatch
         \/ /\ dispatch # <<>> /\ dispatch' = Tail(dispatch)
            /\ ~ IsFarewell(Head(dispatch), c)
  PROVE  /\ Accounted(c) => Accounted(c)'
         /\ inbox'[c] # <<>> => inbox[c] # <<>>
<1>1. CASE UNCHANGED netVars
  <2>1. Accounted(c) => Accounted(c)'
    BY <1>1, FarewellStays DEF netVars, Accounted, FarewellKept
  <2>2. QED BY <1>1, <2>1 DEF netVars
<1>2. CASE \E t \in Conn : Close(t)
  BY <1>2, CloseAccounts DEF Close, TypeOK
<1>3. QED BY <1>1, <1>2 DEF ClosesOne

LEMMA OrphanMessage ==
  ASSUME NEW d \in Conn, OnMessage(d), OrphanInv
  PROVE  (Alternation /\ NothingAfterFarewell /\ NoOrphan)'
<1>1. TypeOK /\ Alternation /\ NothingAfterFarewell /\ NoOrphan
  BY DEF OrphanInv
<1>2. PICK codes : Take(d, codes)
  BY DEF OnMessage, RefuseStranger, RefuseLegacyLogin, RefuseLogin, AcceptLogin,
         OnKickRequest, OnFatalError, OnOther
<1>3. /\ phase = "messages" /\ batch[d] # <<>>
      /\ UNCHANGED <<phase, dispatch>>
      /\ \A c \in Conn : batch'[c] # <<>> => batch[c] # <<>>
  BY <1>1, <1>2 DEF Take, TypeOK
<1>4. ClosesOne
  BY <1>1 DEF OnMessage, RefuseStranger, RefuseLegacyLogin, RefuseLogin, AcceptLogin,
         OnKickRequest, OnFatalError, OnOther, ClosesOne, TypeOK
<1>5. clients' \subseteq clients \cup {d} /\ raced' = raced
  BY DEF OnMessage, RefuseStranger, RefuseLegacyLogin, RefuseLogin, AcceptLogin, Enter, ToldOfArrival,
         OnKickRequest, OnFatalError, OnOther, clientVars, adminVars
<1>6. Alternation'
  BY <1>1, <1>3 DEF Alternation
<1>7. NothingAfterFarewell'
  BY <1>1, <1>3, <1>4, ClosesOneAccounts DEF NothingAfterFarewell
<1>8. NoOrphan'
  <2>1. Accounted(d)
    BY <1>1, <1>3 DEF NothingAfterFarewell
  <2>2. ASSUME ~ raced, NEW c \in clients \cup {d} PROVE Accounted(c)'
    BY <1>1, <1>3, <1>4, <2>1, <2>2, ClosesOneAccounts DEF NoOrphan, TypeOK
  <2>3. QED BY <1>5, <2>2 DEF NoOrphan
<1>9. QED BY <1>6, <1>7, <1>8

LEMMA OrphanStatus ==
  ASSUME OnStatusChanged, OrphanInv
  PROVE  (Alternation /\ NothingAfterFarewell /\ NoOrphan)'
<1> DEFINE e == Head(dispatch)
<1>1. TypeOK /\ Alternation /\ NothingAfterFarewell /\ NoOrphan
  BY DEF OrphanInv
<1>2. DispatchHead /\ raced' = raced
  BY DEF OnStatusChanged, OnConnecting, OnConnected, OnClosed, IsLeaving, adminVars
<1>3. /\ phase = "callbacks" /\ phase' = phase
      /\ dispatch # <<>> /\ dispatch' = Tail(dispatch)
      /\ \A c \in Conn : batch'[c] = <<>>
  BY <1>1, <1>2 DEF DispatchHead, Alternation
<1>4. e \in Event /\ e.conn \in Conn
  BY <1>1, <1>2, DispatchType
<1>5. Alternation'
  BY <1>3 DEF Alternation
<1>6. ASSUME NEW c \in Conn, ~ IsFarewell(e, c)
      PROVE  /\ Accounted(c) => Accounted(c)'
             /\ inbox'[c] # <<>> => inbox[c] # <<>>
             /\ c \in clients' => c \in clients
  <2>1. CASE ClosesOne
    <3>1. clients' \subseteq clients
      BY DEF OnStatusChanged, OnConnecting, OnConnected, OnClosed, IsLeaving, Leave, NamesWithout, ViewersWithout, StillTicking, clientVars
    <3>2. QED BY <1>1, <1>3, <1>6, <2>1, <3>1, ClosesOneAccounts
  <2>2. CASE ~ ClosesOne
    <3>1. /\ OnConnecting /\ link[e.conn] = "connecting"
          /\ link' = [link EXCEPT ![e.conn] = "connected"]
          /\ callbacks' = Append(callbacks,
                            [conn |-> e.conn, old |-> "connecting", new |-> "connected"])
          /\ UNCHANGED <<inbox, clients>>
      BY <1>4, <2>2 DEF OnStatusChanged, OnConnecting, OnConnected, OnClosed, IsLeaving, ClosesOne, clientVars
    <3>2. [conn |-> e.conn, old |-> "connecting", new |-> "connected"] \in Event
      BY <1>4 DEF Event
    <3>3. link[c] = "connected" => link'[c] = "connected"
      BY <1>1, <3>1 DEF TypeOK
    <3>4. FarewellPending(c) => FarewellPending(c)'
      BY <1>1, <1>3, <1>6, <3>1, <3>2, FarewellStays DEF FarewellKept
    <3>5. QED BY <3>1, <3>3, <3>4 DEF Accounted
  <2>3. QED BY <2>1, <2>2
<1>7. ASSUME NEW c \in Conn, IsFarewell(e, c)
      PROVE  c \notin clients' /\ inbox'[c] = <<>>
  <2>1. e.conn = c /\ e.old = "connected" /\ OnClosed
    BY <1>7 DEF IsFarewell, OnStatusChanged, OnConnecting, OnConnected
  <2>2. Close(c)
    BY <2>1 DEF OnClosed, IsLeaving
  <2>3. c \in clients => Leave(c)
    BY <2>1 DEF OnClosed, IsLeaving
  <2>4. c \notin clients => UNCHANGED clientVars
    BY <2>1 DEF OnClosed, IsLeaving
  <2>5. QED BY <1>1, <2>2, <2>3, <2>4 DEF Close, Leave, NamesWithout, ViewersWithout, StillTicking, clientVars, TypeOK
<1>8. NothingAfterFarewell'
  BY <1>1, <1>3, <1>6, <1>7 DEF NothingAfterFarewell
<1>9. NoOrphan'
  <2>1. clients' \subseteq Conn
    BY <1>1, OnStatusChangedKeepsType DEF TypeOK
  <2>2. ASSUME ~ raced, NEW c \in clients' PROVE Accounted(c)'
    BY <1>1, <1>6, <1>7, <2>1, <2>2 DEF NoOrphan
  <2>3. QED BY <1>2, <2>2 DEF NoOrphan
<1>10. QED BY <1>5, <1>8, <1>9

LEMMA OrphanLoop ==
  ASSUME Receive \/ RunCallbacks \/ EndRound \/ Halt, OrphanInv
  PROVE  (Alternation /\ NothingAfterFarewell /\ NoOrphan)'
<1>1. TypeOK /\ Alternation /\ NothingAfterFarewell /\ NoOrphan
  BY DEF OrphanInv
<1>2. /\ UNCHANGED <<link, clients, raced>>
      /\ \/ UNCHANGED <<callbacks, dispatch>>
         \/ dispatch = <<>> /\ dispatch' = callbacks /\ callbacks' = <<>>
  BY <1>1 DEF Receive, RunCallbacks, EndRound, Halt, netVars, clientVars, adminVars, Alternation
<1>3. Alternation'
  BY <1>1 DEF Receive, RunCallbacks, EndRound, Halt, Alternation
<1>4. ASSUME NEW c PROVE Accounted(c) => Accounted(c)'
  <2>1. FarewellPending(c) => FarewellPending(c)'
    BY <1>2 DEF FarewellPending, IsFarewell
  <2>2. QED BY <1>2, <2>1 DEF Accounted
<1>5. ASSUME NEW c \in Conn, inbox'[c] # <<>> \/ batch'[c] # <<>>
      PROVE  inbox[c] # <<>> \/ batch[c] # <<>>
  <2>1. CASE Receive
    <3>1. /\ batch'[c] \in Seq(Message) /\ inbox'[c] \in Seq(Message)
          /\ batch'[c] \o inbox'[c] = inbox[c]
      BY <1>1, <2>1, ReceiveSplits
    <3>2. \A s, t \in Seq(Message) : s \o t = <<>> => s = <<>> /\ t = <<>>
      BY ConcatEqualIffEmpty
    <3>3. QED BY <1>5, <3>1, <3>2
  <2>2. CASE RunCallbacks \/ EndRound \/ Halt
    BY <1>5, <2>2 DEF RunCallbacks, EndRound, Halt, netVars
  <2>3. QED BY <2>1, <2>2
<1>6. NothingAfterFarewell'
  BY <1>1, <1>4, <1>5 DEF NothingAfterFarewell
<1>7. NoOrphan'
  BY <1>1, <1>2, <1>4 DEF NoOrphan
<1>8. QED BY <1>3, <1>6, <1>7

LEMMA OrphanConsole ==
  ASSUME ConsoleThread, OrphanInv
  PROVE  (Alternation /\ NothingAfterFarewell /\ NoOrphan)'
<1>1. TypeOK /\ Alternation /\ NothingAfterFarewell /\ NoOrphan
  BY DEF OrphanInv
<1>2. ClosesOne
  BY <1>1 DEF ConsoleThread, ConsoleLookup, ConsoleKick, ConsoleBan, ConsoleOp, ConsoleDeop, OpInsert, DeopErase, OpReconnect,
        
         ConsoleStale, ConsoleReload, ConsoleUnban, ConsoleStop, StopClose, StopTicking,
         StopRunning, ConsoleUse, ClosesOne, TypeOK, ConsoleState, TargetCommand, OpStep
<1>3. UNCHANGED <<phase, batch, dispatch>> /\ (UNCHANGED <<clients, raced>> \/ raced')
  BY DEF ConsoleThread, ConsoleLookup, ConsoleKick, ConsoleBan, ConsoleOp, ConsoleDeop, OpInsert, DeopErase, OpReconnect,
        
         ConsoleStale, ConsoleReload, ConsoleUnban, ConsoleStop, StopClose, StopTicking,
         StopRunning, ConsoleUse, loopVars, clientVars
<1>4. Alternation'
  BY <1>1, <1>3 DEF Alternation
<1>5. NothingAfterFarewell'
  BY <1>1, <1>2, <1>3, ClosesOneAccounts DEF NothingAfterFarewell
<1>6. NoOrphan'
  BY <1>1, <1>2, <1>3, ClosesOneAccounts DEF NoOrphan, TypeOK
<1>7. QED BY <1>4, <1>5, <1>6

LEMMA OrphanInvariant == Spec => []OrphanInv
<1>1. ASSUME [Next]_vars, OrphanInv PROVE OrphanInv'
  <2>1. TypeOK'
    BY <1>1, PeerKeepsType, ServerThreadKeepsType, ConsoleKeepsType, StutterKeepsType
       DEF Next, OrphanInv
  <2>2. CASE \E c \in Conn : Peer(c)
    BY <1>1, <2>1, <2>2, OrphanPeer DEF OrphanInv
  <2>3. CASE ServerThread
    BY <1>1, <2>1, <2>3, OrphanLoop, OrphanMessage, OrphanStatus DEF ServerThread, OrphanInv
  <2>4. CASE ConsoleThread
    BY <1>1, <2>1, <2>4, OrphanConsole DEF OrphanInv
  <2>5. CASE UNCHANGED vars
    BY <1>1, <2>1, <2>5 DEF OrphanInv, Alternation, NothingAfterFarewell, NoOrphan, Accounted,
       FarewellPending, IsFarewell, vars, netVars, loopVars, clientVars, adminVars
  <2>6. QED BY <1>1, <2>2, <2>3, <2>4, <2>5 DEF Next
<1>2. QED BY OrphanInit, <1>1, PTL DEF Spec

(* However connections end -- a peer leaves or times out, a handler or the *)
(* console closes them, before or after their login is handled -- no       *)
(* client stays registered without the callback that unregisters it.       *)
THEOREM NothingOrphaned == Spec => []NoOrphan
<1>1. OrphanInv => NoOrphan
  BY DEF OrphanInv
<1>2. QED BY OrphanInvariant, <1>1, PTL

-----------------------------------------------------------------------------
(* A connection's messages, as the actions change them.                    *)

LEMMA TakenLogins ==
  ASSUME NEW s \in Seq(Message), NEW t \in Seq(Message), s # <<>>
  PROVE  /\ SoleLogin(s \o t) => SoleLogin(Tail(s) \o t)
         /\ NoLogin(s \o t) => NoLogin(Tail(s) \o t)
         /\ SoleLogin(s \o t) /\ IsLogin(Head(s)) => NoLogin(Tail(s) \o t)
         /\ NoLogin(s \o t) => ~ IsLogin(Head(s))
<1> DEFINE u == s \o t
           v == Tail(s) \o t
<1>1. Tail(s) \in Seq(Message) /\ Len(Tail(s)) = Len(s) - 1 /\ Len(s) \in Nat \ {0}
      /\ \A i \in 1..Len(Tail(s)) : Tail(s)[i] = s[i + 1]
  BY HeadTailProperties, EmptySeq
<1>2. Len(t) \in Nat
  BY LenProperties
<1>3. Len(u) = Len(s) + Len(t) /\ Len(v) = Len(s) - 1 + Len(t)
  BY <1>1, ConcatProperties
<1>4. ASSUME NEW i \in 1..Len(v) PROVE i + 1 \in 1..Len(u) /\ v[i] = u[i + 1]
  <2>1. i + 1 \in 1..Len(s) + Len(t)
    BY <1>1, <1>2, <1>3
  <2>2. v[i] = IF i <= Len(s) - 1 THEN Tail(s)[i] ELSE t[i - (Len(s) - 1)]
    BY <1>1, <1>2, <1>3, ConcatProperties
  <2>3. u[i + 1] = IF i + 1 <= Len(s) THEN s[i + 1] ELSE t[i + 1 - Len(s)]
    BY <2>1, ConcatProperties
  <2>4. QED BY <1>1, <1>2, <1>3, <2>1, <2>2, <2>3
<1>5. 1 \in 1..Len(u) /\ u[1] = Head(s)
  BY <1>1, <1>2, <1>3, ConcatProperties
<1>6. ASSUME SoleLogin(u) PROVE SoleLogin(v)
  BY <1>4, <1>6, <1>1, <1>2, <1>3 DEF SoleLogin
<1>7. ASSUME NoLogin(u) PROVE NoLogin(v) /\ ~ IsLogin(Head(s))
  BY <1>4, <1>5, <1>7 DEF NoLogin
<1>8. ASSUME SoleLogin(u), IsLogin(Head(s)) PROVE NoLogin(v)
  <2>1. ASSUME NEW i \in 1..Len(v), IsLogin(v[i]) PROVE FALSE
    BY <1>1, <1>2, <1>3, <1>4, <1>5, <1>8, <2>1 DEF SoleLogin
  <2>2. QED BY <2>1 DEF NoLogin
<1>9. QED BY <1>6, <1>7, <1>8

LEMMA SentLogins ==
  ASSUME NEW s \in Seq(Message), NEW t \in Seq(Message), NEW m \in Message
  PROVE  /\ NoLogin(s \o t) => SoleLogin(s \o Append(t, m))
         /\ SoleLogin(s \o t) /\ ~ IsLogin(m) => SoleLogin(s \o Append(t, m))
         /\ NoLogin(s \o t) /\ ~ IsLogin(m) => NoLogin(s \o Append(t, m))
<1> DEFINE u == s \o t
           v == s \o Append(t, m)
<1>1. u \in Seq(Message) /\ v = Append(u, m)
  BY ConcatProperties, ConcatAssociative, AppendIsConcat
<1>2. Len(u) \in Nat /\ Len(v) = Len(u) + 1 /\ v[Len(u) + 1] = m
      /\ \A i \in 1..Len(u) : v[i] = u[i]
  BY <1>1, AppendProperties, LenProperties
<1>3. ASSUME NEW i \in 1..Len(v), IsLogin(v[i])
      PROVE  \/ i \in 1..Len(u) /\ IsLogin(u[i])
             \/ i = Len(u) + 1 /\ IsLogin(m)
  BY <1>2, <1>3
<1>4. ASSUME NoLogin(u) PROVE SoleLogin(v)
  BY <1>3, <1>4 DEF NoLogin, SoleLogin
<1>5. ASSUME SoleLogin(u), ~ IsLogin(m) PROVE SoleLogin(v)
  <2>1. ASSUME NEW i \in 1..Len(v), NEW j \in 1..Len(v), IsLogin(v[i]), IsLogin(v[j])
        PROVE  i = j
    BY <1>3, <1>5, <2>1 DEF SoleLogin
  <2>2. QED BY <2>1 DEF SoleLogin
<1>6. ASSUME NoLogin(u), ~ IsLogin(m) PROVE NoLogin(v)
  BY <1>3, <1>6 DEF NoLogin
<1>7. QED BY <1>4, <1>5, <1>6

LEMMA ClosedLogins ==
  ASSUME NEW s \in Seq(Message), NEW t \in Seq(Message)
  PROVE  /\ SoleLogin(s \o t) => SoleLogin(s \o <<>>)
         /\ NoLogin(s \o t) => NoLogin(s \o <<>>)
<1>1. s \o <<>> = s /\ <<>> \in Seq(Message)
  BY ConcatEmptySeq, EmptySeq
<1>2. /\ Len(s) \in Nat /\ Len(t) \in Nat /\ Len(s \o t) = Len(s) + Len(t)
      /\ \A i \in 1..Len(s) : (s \o t)[i] = s[i]
  BY ConcatProperties, LenProperties
<1>3. QED BY <1>1, <1>2 DEF SoleLogin, NoLogin

-----------------------------------------------------------------------------
LEMMA LoginOnceInit == Init => LoginOnce
<1>1. ASSUME Init, NEW c \in Conn PROVE Unhandled(c) = <<>>
  BY <1>1, ConcatEmptySeq, EmptySeq DEF Init, Unhandled
<1>2. ASSUME Init, NEW c \in Conn PROVE NoLogin(Unhandled(c)) /\ SoleLogin(Unhandled(c))
  BY <1>1, <1>2 DEF NoLogin, SoleLogin
<1>3. QED BY <1>2 DEF Init, LoginOnce

LEMMA LoginOncePeer ==
  ASSUME NEW d \in Conn, Peer(d), TypeOK, LoginOnce
  PROVE  LoginOnce'
<1>1. UNCHANGED <<batch, clients, raced>>
  BY DEF Peer, PeerConnect, PeerEnd, PeerLogin, PeerRequest, loopVars, clientVars, adminVars
<1>2. batch[d] \in Seq(Message) /\ inbox[d] \in Seq(Message)
  BY DEF TypeOK
<1>3. CASE UNCHANGED <<helloed, inbox>>
  BY <1>1, <1>3 DEF LoginOnce, Unhandled
<1>4. CASE PeerLogin(d)
  <2>1. PICK l \in Logins :
          inbox' = [inbox EXCEPT ![d] = Append(@, [code |-> "LoginRequestV3", login |-> l])]
    BY <1>4 DEF PeerLogin
  <2>2. l \in LoginRequest
    BY SessionAssumption
  <2>3. [code |-> "LoginRequestV3", login |-> l] \in Message
    BY <2>2 DEF Message
  <2>4. d \notin helloed /\ helloed' = helloed \cup {d}
    BY <1>4 DEF PeerLogin
  <2>5. ASSUME ~ raced, NEW c \in Conn, c # d
        PROVE  Unhandled(c)' = Unhandled(c) /\ (c \in helloed' <=> c \in helloed)
    BY <1>1, <2>1, <2>4, <2>5 DEF Unhandled, TypeOK
  <2>6. ASSUME ~ raced
        PROVE  d \notin clients /\ d \in helloed' /\ SoleLogin(Unhandled(d)')
    <3>1. d \notin clients /\ NoLogin(batch[d] \o inbox[d])
      BY <2>4, <2>6 DEF LoginOnce, Unhandled
    <3>2. Unhandled(d)' = batch[d] \o Append(inbox[d], [code |-> "LoginRequestV3", login |-> l])
      BY <1>1, <2>1 DEF Unhandled, TypeOK
    <3>3. QED BY <1>2, <2>3, <2>4, <3>1, <3>2, SentLogins
  <2>7. QED BY <1>1, <2>5, <2>6 DEF LoginOnce, NoLogin, SoleLogin
<1>5. CASE PeerRequest(d)
  <2>1. PICK m \in Requests : inbox' = [inbox EXCEPT ![d] = Append(@, m)]
    BY <1>5 DEF PeerRequest
  <2>2. m \in Message /\ ~ IsLogin(m)
    BY SessionAssumption DEF IsLogin
  <2>3. ASSUME NEW c \in Conn, c # d PROVE Unhandled(c)' = Unhandled(c)
    BY <1>1, <2>1, <2>3 DEF Unhandled, TypeOK
  <2>4. Unhandled(d)' = batch[d] \o Append(inbox[d], m)
    BY <1>1, <2>1 DEF Unhandled, TypeOK
  <2>5. /\ SoleLogin(Unhandled(d)) => SoleLogin(Unhandled(d)')
        /\ NoLogin(Unhandled(d)) => NoLogin(Unhandled(d)')
    BY <1>2, <2>2, <2>4, SentLogins DEF Unhandled
  <2>6. helloed' = helloed
    BY <1>5 DEF PeerRequest
  <2>7. QED BY <1>1, <2>3, <2>5, <2>6 DEF LoginOnce, NoLogin, SoleLogin
<1>6. QED BY <1>3, <1>4, <1>5 DEF Peer, PeerConnect, PeerEnd

(* Closing connections can only lose messages. *)
LEMMA LosesMessages ==
  ASSUME ClosesOne, TypeOK, NEW c \in Conn, NEW b \in Seq(Message)
  PROVE  /\ SoleLogin(b \o inbox[c]) => SoleLogin(b \o inbox'[c])
         /\ NoLogin(b \o inbox[c]) => NoLogin(b \o inbox'[c])
         /\ helloed' = helloed
<1>1. helloed' = helloed /\ (inbox'[c] = inbox[c] \/ inbox'[c] = <<>>)
  BY DEF ClosesOne, Close, netVars, TypeOK
<1>2. inbox[c] \in Seq(Message)
  BY DEF TypeOK
<1>3. QED BY <1>1, <1>2, ClosedLogins

LEMMA LoginOnceMessage ==
  ASSUME NEW d \in Conn, OnMessage(d), TypeOK, LoginOnce
  PROVE  LoginOnce'
<1>1. PICK codes : Take(d, codes)
  BY DEF OnMessage, RefuseStranger, RefuseLegacyLogin, RefuseLogin, AcceptLogin,
         OnKickRequest, OnFatalError, OnOther
<1>2. /\ batch[d] \in Seq(Message) /\ batch[d] # <<>> /\ Tail(batch[d]) \in Seq(Message)
      /\ \A c \in Conn : batch'[c] = IF c = d THEN Tail(batch[c]) ELSE batch[c]
  BY <1>1, HeadTailProperties DEF Take, TypeOK
<1>3. ClosesOne
  BY DEF OnMessage, RefuseStranger, RefuseLegacyLogin, RefuseLogin, AcceptLogin,
         OnKickRequest, OnFatalError, OnOther, ClosesOne, TypeOK
<1>4. raced' = raced /\ clients' \subseteq clients \cup {d}
  BY DEF OnMessage, RefuseStranger, RefuseLegacyLogin, RefuseLogin, AcceptLogin, Enter, ToldOfArrival,
         OnKickRequest, OnFatalError, OnOther, clientVars, adminVars
<1>5. d \in clients' => d \in clients \/ IsLogin(Head(batch[d]))
  BY DEF OnMessage, RefuseStranger, RefuseLegacyLogin, RefuseLogin, AcceptLogin, Enter, ToldOfArrival, Take,
         OnKickRequest, OnFatalError, OnOther, clientVars, IsLogin
<1>6. SUFFICES ASSUME ~ raced, NEW c \in Conn
               PROVE  /\ c \in clients' => c \in helloed'
                      /\ c \in clients' \/ c \notin helloed' => NoLogin(Unhandled(c)')
                      /\ SoleLogin(Unhandled(c)')
  BY <1>4 DEF LoginOnce, NoLogin, SoleLogin
<1>7. /\ c \in clients => c \in helloed
      /\ c \in clients \/ c \notin helloed => NoLogin(batch[c] \o inbox[c])
      /\ SoleLogin(batch[c] \o inbox[c])
  BY <1>6 DEF LoginOnce, Unhandled
<1>8. CASE c # d
  <2>1. batch[c] \in Seq(Message) /\ Unhandled(c)' = batch[c] \o inbox'[c]
    BY <1>2, <1>8 DEF TypeOK, Unhandled
  <2>2. QED BY <1>3, <1>4, <1>7, <1>8, <2>1, LosesMessages
<1>9. CASE c = d
  <2>1. inbox[d] \in Seq(Message) /\ Unhandled(d)' = Tail(batch[d]) \o inbox'[d]
    BY <1>2 DEF TypeOK, Unhandled
  <2>2. /\ SoleLogin(Tail(batch[d]) \o inbox[d])
        /\ d \in clients \/ d \notin helloed => NoLogin(Tail(batch[d]) \o inbox[d])
        /\ IsLogin(Head(batch[d])) => d \in helloed /\ NoLogin(Tail(batch[d]) \o inbox[d])
    BY <1>2, <1>7, <1>9, <2>1, TakenLogins
  <2>3. QED BY <1>2, <1>3, <1>5, <1>7, <1>9, <2>1, <2>2, LosesMessages
<1>10. QED BY <1>8, <1>9

LEMMA LoginOnceElsewhere ==
  ASSUME OnStatusChanged \/ ConsoleThread, TypeOK, LoginOnce
  PROVE  LoginOnce'
<1>1. /\ batch' = batch
      /\ (clients' \subseteq clients /\ raced' = raced) \/ raced'
  BY DEF OnStatusChanged, OnConnecting, OnConnected, OnClosed, IsLeaving, Leave, NamesWithout, ViewersWithout, StillTicking, DispatchHead,
         ConsoleThread, ConsoleLookup, ConsoleKick, ConsoleBan, ConsoleOp, ConsoleDeop, OpInsert, DeopErase, OpReconnect,
        
         ConsoleStale, ConsoleReload, ConsoleUnban, ConsoleStop, StopClose, StopTicking,
         StopRunning, ConsoleUse, loopVars, clientVars, adminVars
<1>2. ASSUME NEW c \in Conn
      PROVE  /\ SoleLogin(Unhandled(c)) => SoleLogin(Unhandled(c)')
             /\ NoLogin(Unhandled(c)) => NoLogin(Unhandled(c)')
             /\ helloed' = helloed
  <2>1. batch[c] \in Seq(Message)
    BY DEF TypeOK
  <2>2. CASE ClosesOne
    BY <1>1, <2>1, <2>2, LosesMessages DEF Unhandled
  <2>3. CASE ~ ClosesOne
    <3>1. ConsoleThread => ClosesOne
      BY DEF ConsoleThread, ConsoleLookup, ConsoleKick, ConsoleBan, ConsoleOp, ConsoleDeop, OpInsert, DeopErase, OpReconnect,
        
         ConsoleStale, ConsoleReload, ConsoleUnban, ConsoleStop, StopClose, StopTicking,
         StopRunning, ConsoleUse, ClosesOne, TypeOK, ConsoleState, TargetCommand, OpStep
    <3>2. OnStatusChanged /\ Head(dispatch).conn \in Conn
      BY <2>3, <3>1, DispatchType DEF OnStatusChanged, OnConnecting, OnConnected, OnClosed, IsLeaving
    <3>3. UNCHANGED <<helloed, inbox>>
      BY <2>3, <3>2 DEF OnStatusChanged, OnConnecting, OnConnected, OnClosed, IsLeaving, ClosesOne
    <3>4. QED BY <1>1, <3>3 DEF Unhandled
  <2>4. QED BY <2>2, <2>3
<1>3. QED BY <1>1, <1>2 DEF LoginOnce, NoLogin, SoleLogin

LEMMA LoginOnceLoop ==
  ASSUME Receive \/ RunCallbacks \/ EndRound \/ Halt, TypeOK, Alternation, LoginOnce
  PROVE  LoginOnce'
<1>1. UNCHANGED <<helloed, clients, raced>>
  BY DEF Receive, RunCallbacks, EndRound, Halt, netVars, clientVars, adminVars
<1>2. ASSUME NEW c \in Conn PROVE Unhandled(c)' = Unhandled(c)
  <2>1. CASE Receive
    <3>1. batch[c] = <<>> /\ inbox[c] \in Seq(Message)
      BY <2>1 DEF Receive, Alternation, TypeOK
    <3>2. QED BY <2>1, <3>1, ReceiveSplits, ConcatEmptySeq DEF Unhandled
  <2>2. CASE RunCallbacks \/ EndRound \/ Halt
    BY <2>2 DEF RunCallbacks, EndRound, Halt, netVars, Unhandled
  <2>3. QED BY <2>1, <2>2
<1>3. QED BY <1>1, <1>2 DEF LoginOnce, NoLogin, SoleLogin

LEMMA LoginOnceInvariant == Spec => []LoginOnce
<1>1. ASSUME [Next]_vars, OrphanInv, LoginOnce PROVE LoginOnce'
  <2>1. TypeOK /\ Alternation
    BY <1>1 DEF OrphanInv
  <2>2. CASE UNCHANGED vars
    BY <1>1, <2>2 DEF LoginOnce, Unhandled, NoLogin, SoleLogin,
                      vars, netVars, loopVars, clientVars, adminVars
  <2>3. QED BY <1>1, <2>1, <2>2, LoginOncePeer, LoginOnceMessage, LoginOnceElsewhere, LoginOnceLoop
            DEF Next, ServerThread
<1>2. QED BY LoginOnceInit, OrphanInvariant, <1>1, PTL DEF Spec

-----------------------------------------------------------------------------
(* What a step can do to the registries: nothing, let a client in under a  *)
(* free name on a connection that had none, or let one go.                 *)

Enters(c, l) ==
  /\ c \notin clients
  /\ Acceptable(l)
  /\ Enter(c, GrantedName(l), l.uuid)
  /\ UNCHANGED <<config, console>>

LEMMA RegistryStep ==
  ASSUME [Next]_vars, TypeOK, LoginOnce, ~ raced'
  PROVE  /\ ~ raced
         /\ \/ UNCHANGED <<clients, name, uuid, username, roster>>
            \/ \E c \in Conn, l \in LoginRequest : GrantedName(l) \in Nick /\ Enters(c, l)
            \/ \E c \in clients : Leave(c) /\ UNCHANGED console
<1>1. ~ raced
  BY DEF Next, Peer, PeerConnect, PeerEnd, PeerLogin, PeerRequest, ServerThread, Receive,
         RunCallbacks, EndRound, Halt, OnMessage, RefuseStranger, RefuseLegacyLogin, RefuseLogin,
         AcceptLogin, OnKickRequest, OnFatalError, OnOther, OnStatusChanged, OnConnecting,
         OnConnected, OnClosed, IsLeaving, ConsoleThread, ConsoleLookup, ConsoleKick, ConsoleBan, ConsoleOp,
         ConsoleDeop, OpInsert, DeopErase, OpReconnect,
         ConsoleStale, ConsoleReload, ConsoleUnban, ConsoleStop, StopClose,
         StopTicking, StopRunning, ConsoleUse, vars, adminVars
<1>2. CASE UNCHANGED vars \/ \E c \in Conn : Peer(c)
  <2>1. UNCHANGED clientVars
    BY <1>2 DEF vars, Peer, PeerConnect, PeerEnd, PeerLogin, PeerRequest
  <2>2. QED BY <1>1, <2>1 DEF clientVars
<1>3. CASE Receive \/ RunCallbacks \/ EndRound \/ Halt
  <2>1. UNCHANGED clientVars
    BY <1>3 DEF Receive, RunCallbacks, EndRound, Halt
  <2>2. QED BY <1>1, <2>1 DEF clientVars
<1>4. ASSUME NEW c \in Conn, OnMessage(c)
      PROVE  \/ UNCHANGED <<clients, name, uuid, username, roster>>
             \/ \E d \in Conn, l \in LoginRequest : GrantedName(l) \in Nick /\ Enters(d, l)
  <2>1. CASE AcceptLogin(c)
    <3> DEFINE m == Head(batch[c])
    <3>1. m \in Message /\ m.code \in {"LoginRequestV3"}
      BY <2>1, TakeType DEF AcceptLogin
    <3>2. m.login \in LoginRequest /\ GrantedName(m.login) \in Nick
      BY <3>1, LoginType
    <3>3. batch[c] \in Seq(Message) /\ inbox[c] \in Seq(Message) /\ batch[c] # <<>>
      BY <2>1 DEF AcceptLogin, Take, TypeOK
    <3>4. c \notin clients
      BY <1>1, <3>1, <3>3, TakenLogins DEF LoginOnce, Unhandled, IsLogin
    <3>5. Enters(c, m.login)
      BY <2>1, <3>4 DEF AcceptLogin, Enters, adminVars
    <3>6. QED BY <3>2, <3>5
  <2>2. CASE ~ AcceptLogin(c)
    <3>1. UNCHANGED clientVars
      BY <1>4, <2>2 DEF OnMessage, RefuseStranger, RefuseLegacyLogin, RefuseLogin,
                        OnKickRequest, OnFatalError, OnOther
    <3>2. QED BY <3>1 DEF clientVars
  <2>3. QED BY <2>1, <2>2
<1>5. CASE OnStatusChanged
  BY <1>1, <1>5 DEF OnStatusChanged, OnConnecting, OnConnected, OnClosed, IsLeaving, clientVars, adminVars
<1>6. CASE ConsoleThread
  BY <1>1, <1>6 DEF ConsoleThread, ConsoleLookup, ConsoleKick, ConsoleBan, ConsoleOp, ConsoleDeop, OpInsert, DeopErase, OpReconnect,
        
         ConsoleStale, ConsoleReload, ConsoleUnban, ConsoleStop, StopClose, StopTicking,
         StopRunning, clientVars
<1>7. QED BY <1>1, <1>2, <1>3, <1>4, <1>5, <1>6 DEF Next, ServerThread

-----------------------------------------------------------------------------
LEMMA UsernameSoundStep ==
  ASSUME [Next]_vars, TypeOK, LoginOnce, UsernameSound
  PROVE  UsernameSound'
<1>1. SUFFICES ASSUME ~ raced', NEW n \in LowerNick, username'[n] # NoConn
               PROVE  /\ username'[n] \in clients'
                      /\ name'[username'[n]] # NoNick
                      /\ to_lower(name'[username'[n]]) = n
  BY DEF UsernameSound
<1>2. /\ username[n] # NoConn =>
           /\ username[n] \in clients
           /\ name[username[n]] # NoNick
           /\ to_lower(name[username[n]]) = n
      /\ username[n] \in Conn \cup {NoConn}
  BY <1>1, RegistryStep DEF UsernameSound, TypeOK
<1>3. CASE UNCHANGED <<clients, name, uuid, username, roster>>
  BY <1>1, <1>2, <1>3
<1>4. ASSUME NEW c \in Conn, NEW l \in LoginRequest, GrantedName(l) \in Nick, Enters(c, l)
      PROVE  /\ username'[n] \in clients'
             /\ name'[username'[n]] # NoNick
             /\ to_lower(name'[username'[n]]) = n
  <2> DEFINE g == GrantedName(l)
  <2>1. /\ c \notin clients /\ clients' = clients \cup {c}
        /\ name' = [name EXCEPT ![c] = g]
        /\ username' = [username EXCEPT ![to_lower(g)] = c]
    BY <1>4 DEF Enters, Enter, ToldOfArrival
  <2>2. g # NoNick
    BY <1>4, SessionAssumption
  <2>3. CASE n = to_lower(g)
    BY <2>1, <2>2, <2>3 DEF TypeOK
  <2>4. CASE n # to_lower(g)
    <3>1. username'[n] = username[n] /\ username[n] # c
      BY <1>1, <1>2, <2>1, <2>4 DEF TypeOK
    <3>2. QED BY <1>1, <1>2, <2>1, <3>1 DEF TypeOK
  <2>5. QED BY <2>3, <2>4
<1>5. ASSUME NEW c \in clients, Leave(c)
      PROVE  /\ username'[n] \in clients'
             /\ name'[username'[n]] # NoNick
             /\ to_lower(name'[username'[n]]) = n
  <2>1. c \in Conn /\ clients' = clients \ {c} /\ name' = [name EXCEPT ![c] = NoNick]
    BY <1>5 DEF Leave, NamesWithout, ViewersWithout, StillTicking, TypeOK
  <2>2. username'[n] = username[n] /\ username[n] # c
    <3>1. CASE username[n] = c
      <4>1. username' = [username EXCEPT ![n] = NoConn]
        BY <1>1, <1>2, <1>5, <2>1, <3>1, SessionAssumption DEF Leave, NamesWithout, ViewersWithout, StillTicking
      <4>2. QED BY <1>1, <4>1 DEF TypeOK
    <3>2. CASE username[n] # c
      <4>1. username'[n] = username[n] \/ username'[n] = NoConn
        BY <1>5 DEF Leave, NamesWithout, ViewersWithout, StillTicking, TypeOK
      <4>2. QED BY <1>1, <3>2, <4>1
    <3>3. QED BY <3>1, <3>2
  <2>3. QED BY <1>1, <1>2, <2>1, <2>2 DEF TypeOK
<1>6. QED BY <1>1, <1>3, <1>4, <1>5, RegistryStep

(* A name never leads to a client that has left, nor to another player:    *)
(* whatever is resolved by name (a kick, a private message) meets the      *)
(* client of that name or nobody.                                          *)
THEOREM NamesLeadToTheirClients == Spec => []UsernameSound
<1>1. Init => UsernameSound
  BY DEF Init, UsernameSound
<1>2. ASSUME [Next]_vars, OrphanInv, LoginOnce, UsernameSound PROVE UsernameSound'
  BY <1>2, UsernameSoundStep DEF OrphanInv
<1>3. QED BY <1>1, <1>2, OrphanInvariant, LoginOnceInvariant, PTL DEF Spec

-----------------------------------------------------------------------------
(* Unique names, while config.yml forces no name on anybody.  The forced   *)
(* name replaces the requested one after validate_client has judged the    *)
(* requested one, so with forced names neither theorem holds.              *)

NoForcedNames == \A f \in ConfigFiles, u \in Uuid : f.forced_names[u] = NoNick

OwnNames == \A u \in Uuid : config.forced_names[u] = NoNick

LEMMA OwnNamesStep ==
  ASSUME NoForcedNames, [Next]_vars, OwnNames, TypeOK
  PROVE  OwnNames'
<1>1. \/ UNCHANGED config
      \/ config' \in ConfigFiles
      \/ \E b : config' = [config EXCEPT !.banned_players = b]
      \/ \E o : config' = [config EXCEPT !.op_players = o]
  BY DEF Next, Peer, PeerConnect, PeerEnd, PeerLogin, PeerRequest, ServerThread, Receive,
         RunCallbacks, EndRound, Halt, OnMessage, RefuseStranger, RefuseLegacyLogin, RefuseLogin,
         AcceptLogin, OnKickRequest, OnFatalError, OnOther, OnStatusChanged, OnConnecting,
         OnConnected, OnClosed, IsLeaving, ConsoleThread, ConsoleLookup, ConsoleKick, ConsoleBan, ConsoleOp,
         ConsoleDeop, OpInsert, DeopErase, OpReconnect,
         ConsoleStale, ConsoleReload, ConsoleUnban, ConsoleStop, StopClose,
         StopTicking, StopRunning, vars, adminVars
<1>2. config \in Config
  BY DEF TypeOK
<1>3. config' \in ConfigFiles \/ config'.forced_names = config.forced_names
  BY <1>1, <1>2 DEF Config
<1>4. QED BY <1>3 DEF OwnNames, NoForcedNames

FindableInv ==
  ~ raced => \A c \in clients : name[c] # NoNick /\ username[to_lower(name[c])] = c

LEMMA FindableStep ==
  ASSUME [Next]_vars, TypeOK, LoginOnce, OwnNames, FindableInv
  PROVE  FindableInv'
<1>1. SUFFICES ASSUME ~ raced', NEW d \in clients'
               PROVE  name'[d] # NoNick /\ username'[to_lower(name'[d])] = d
  BY DEF FindableInv
<1>2. \A c \in clients : name[c] # NoNick /\ username[to_lower(name[c])] = c
  BY <1>1, RegistryStep DEF FindableInv
<1>3. CASE UNCHANGED <<clients, name, uuid, username, roster>>
  BY <1>1, <1>2, <1>3
<1>4. ASSUME NEW c \in Conn, NEW l \in LoginRequest, GrantedName(l) \in Nick, Enters(c, l)
      PROVE  name'[d] # NoNick /\ username'[to_lower(name'[d])] = d
  <2>1. l.uuid \in Uuid /\ l.nick \in Nick /\ l.nick # NoNick
    BY SessionAssumption DEF LoginRequest
  <2>2. GrantedName(l) = l.nick
    BY <2>1 DEF OwnNames, GrantedName
  <2>3. /\ c \notin clients /\ clients' = clients \cup {c}
        /\ name' = [name EXCEPT ![c] = l.nick]
        /\ username' = [username EXCEPT ![to_lower(l.nick)] = c]
        /\ username[to_lower(l.nick)] = NoConn
    BY <1>4, <2>2 DEF Enters, Enter, ToldOfArrival, Acceptable
  <2>4. to_lower(l.nick) \in LowerNick
    BY <2>1, NameType
  <2>5. CASE d = c
    BY <2>1, <2>3, <2>4, <2>5 DEF TypeOK
  <2>6. CASE d # c
    <3>1. d \in clients /\ name'[d] = name[d]
      BY <1>1, <2>3, <2>6 DEF TypeOK
    <3>2. to_lower(name[d]) # to_lower(l.nick)
      BY <1>2, <2>3, <3>1, SessionAssumption DEF TypeOK
    <3>3. to_lower(name[d]) \in LowerNick
      BY <1>2, <3>1, NameType DEF TypeOK
    <3>4. QED BY <1>2, <2>3, <3>1, <3>2, <3>3 DEF TypeOK
  <2>7. QED BY <2>5, <2>6
<1>5. ASSUME NEW c \in clients, Leave(c)
      PROVE  name'[d] # NoNick /\ username'[to_lower(name'[d])] = d
  <2>1. /\ d \in clients /\ d # c
        /\ name'[d] = name[d]
        /\ name[c] # NoNick
        /\ username' = [username EXCEPT ![to_lower(name[c])] = NoConn]
    BY <1>1, <1>2, <1>5 DEF Leave, NamesWithout, ViewersWithout, StillTicking, TypeOK
  <2>2. to_lower(name[d]) # to_lower(name[c])
    BY <1>2, <2>1
  <2>3. to_lower(name[d]) \in LowerNick
    BY <1>2, <2>1, NameType DEF TypeOK
  <2>4. QED BY <1>2, <2>1, <2>2, <2>3 DEF TypeOK
<1>6. QED BY <1>1, <1>3, <1>4, <1>5, RegistryStep

LEMMA FindableInvariant ==
  ASSUME NoForcedNames
  PROVE  Spec => []FindableInv
<1>1. Init => OwnNames /\ FindableInv
  BY DEF Init, NoForcedNames, OwnNames, FindableInv
<1>2. ASSUME [Next]_vars, OrphanInv, LoginOnce, OwnNames, FindableInv
      PROVE  OwnNames' /\ FindableInv'
  BY <1>2, OwnNamesStep, FindableStep DEF OrphanInv
<1>3. QED BY <1>1, <1>2, OrphanInvariant, LoginOnceInvariant, PTL DEF Spec

(* Every client can be addressed by its name. *)
THEOREM EveryoneFindable ==
  ASSUME NoForcedNames
  PROVE  Spec => []Findable
<1>1. FindableInv => Findable
  BY DEF FindableInv, Findable
<1>2. QED BY <1>1, FindableInvariant, PTL

(* No two clients are online under names that differ in case only. *)
THEOREM NoDuplicateNames ==
  ASSUME NoForcedNames
  PROVE  Spec => []UniqueNames
<1>1. FindableInv => UniqueNames
  BY DEF FindableInv, UniqueNames
<1>2. QED BY <1>1, FindableInvariant, PTL

-----------------------------------------------------------------------------
(* Every client has been told of exactly the clients that are online. *)
THEOREM RostersAgree == Spec => []RosterAgrees
<1>1. Init => RosterAgrees
  BY DEF Init, RosterAgrees
<1>2. ASSUME [Next]_vars, TypeOK, LoginOnce, RosterAgrees PROVE RosterAgrees'
  <2>1. SUFFICES ASSUME ~ raced', NEW d \in clients' PROVE roster'[d] = clients'
    BY DEF RosterAgrees
  <2>2. \A c \in clients : roster[c] = clients
    BY <1>2, <2>1, RegistryStep DEF RosterAgrees
  <2>3. ASSUME NEW c \in Conn, NEW l \in LoginRequest, Enters(c, l)
        PROVE  roster'[d] = clients'
    <3>1. /\ c \notin clients /\ clients' = clients \cup {c}
          /\ roster' = [x \in Conn |-> IF x = c THEN clients'
                                      ELSE IF x \in clients THEN roster[x] \cup {c}
                                      ELSE roster[x]]
      BY <2>3 DEF Enters, Enter, ToldOfArrival
    <3>2. QED BY <1>2, <2>1, <2>2, <3>1 DEF TypeOK
  <2>4. ASSUME NEW c \in clients, Leave(c) PROVE roster'[d] = clients'
    <3>1. /\ clients' = clients \ {c}
          /\ roster' = [x \in Conn |-> IF x = c THEN {} ELSE roster[x] \ {c}]
      BY <2>4 DEF Leave, NamesWithout, ViewersWithout, StillTicking
    <3>2. QED BY <1>2, <2>1, <2>2, <3>1 DEF TypeOK
  <2>5. CASE UNCHANGED <<clients, name, uuid, username, roster>>
    BY <2>1, <2>2, <2>5
  <2>6. QED BY <1>2, <2>1, <2>3, <2>4, <2>5, RegistryStep
<1>3. QED BY <1>1, <1>2, TypeCorrect, LoginOnceInvariant, PTL DEF Spec

-----------------------------------------------------------------------------
(* Who is relayed to, and who sees the others in ghost mode.               *)

(* Besides arrivals and departures only op and deop change who sees, and   *)
(* only a stop stops the ticking; a stop once begun is not taken back.     *)
LEMMA RelayStep ==
  ASSUME [Next]_vars, TypeOK, LoginOnce, ~ raced'
  PROVE  /\ ~ raced
         /\ console.cmd \in {"sleeping", "exited"} => console'.cmd \in {"sleeping", "exited"}
         /\ \/ UNCHANGED <<clients, ghost_spectator_clients, ticking>>
            \/ \E c \in Conn, l \in LoginRequest : Enters(c, l)
            \/ \E c \in clients : Leave(c)
            \/ OpInsert \/ DeopErase \/ StopTicking
         /\ overtaken \subseteq overtaken'
<1>1. /\ ~ raced
      /\ \/ UNCHANGED <<clients, name, uuid, username, roster>>
         \/ \E c \in Conn, l \in LoginRequest : GrantedName(l) \in Nick /\ Enters(c, l)
         \/ \E c \in clients : Leave(c) /\ UNCHANGED console
  BY RegistryStep
<1>2. CASE UNCHANGED vars \/ \E c \in Conn : Peer(c)
  BY <1>1, <1>2 DEF vars, Peer, PeerConnect, PeerEnd, PeerLogin, PeerRequest, clientVars, adminVars
<1>3. CASE Receive \/ RunCallbacks \/ EndRound \/ Halt
  BY <1>1, <1>3 DEF Receive, RunCallbacks, EndRound, Halt, clientVars, adminVars
<1>4. ASSUME NEW c \in Conn, OnMessage(c)
      PROVE  /\ UNCHANGED <<console, overtaken>>
             /\ \/ UNCHANGED <<clients, ghost_spectator_clients, ticking>>
                \/ \E d \in Conn, l \in LoginRequest : Enters(d, l)
                \/ \E d \in clients : Leave(d)
  <2>1. CASE AcceptLogin(c)
    <3>1. UNCHANGED <<console, overtaken>>
      BY <2>1 DEF AcceptLogin, adminVars
    <3>2. clients' # clients
      <4> DEFINE m == Head(batch[c])
      <4>2. m \in Message /\ m.code \in {"LoginRequestV3"}
        BY <2>1, TakeType DEF AcceptLogin
      <4>3. batch[c] \in Seq(Message) /\ inbox[c] \in Seq(Message) /\ batch[c] # <<>>
        BY <2>1 DEF AcceptLogin, Take, TypeOK
      <4>4. c \notin clients
        BY <1>1, <4>2, <4>3, TakenLogins DEF LoginOnce, Unhandled, IsLogin
      <4>5. clients' = clients \cup {c}
        BY <2>1 DEF AcceptLogin, Enter
      <4> QED BY <4>4, <4>5
    <3> QED BY <1>1, <3>1, <3>2
  <2>2. CASE ~ AcceptLogin(c)
    BY <1>4, <2>2 DEF OnMessage, RefuseStranger, RefuseLegacyLogin, RefuseLogin,
                      OnKickRequest, OnFatalError, OnOther, clientVars, adminVars
  <2> QED BY <2>1, <2>2
<1>5. CASE OnStatusChanged
  BY <1>1, <1>5 DEF OnStatusChanged, OnConnecting, OnConnected, OnClosed, IsLeaving, clientVars, adminVars
<1>6. CASE ConsoleThread
  <2>1. console.cmd \in {"sleeping", "exited"} => console'.cmd \in {"sleeping", "exited"}
    BY <1>6 DEF ConsoleThread, ConsoleLookup, ConsoleKick, ConsoleBan, ConsoleOp, ConsoleDeop, OpInsert, DeopErase, OpReconnect,
        
         ConsoleStale, ConsoleReload, ConsoleUnban, ConsoleStop, StopClose, StopTicking,
         StopRunning, ConsoleUse, TargetCommand, OpStep, TypeOK, ConsoleState
  <2>2. \/ UNCHANGED <<clients, ghost_spectator_clients, ticking>>
        \/ OpInsert \/ DeopErase \/ StopTicking
    BY <1>1, <1>6 DEF ConsoleThread, ConsoleLookup, ConsoleKick, ConsoleBan,
         ConsoleOp, ConsoleDeop, OpReconnect, ConsoleStale, ConsoleReload, ConsoleUnban, ConsoleStop, StopClose,
         StopRunning, clientVars
  <2>3. overtaken \subseteq overtaken'
    BY <1>6 DEF ConsoleThread, ConsoleLookup, ConsoleKick, ConsoleBan, ConsoleOp, ConsoleDeop,
         OpInsert, DeopErase, OpReconnect, ConsoleStale, ConsoleReload, ConsoleUnban,
         ConsoleStop, StopClose, StopTicking, StopRunning, ConsoleUse
  <2> QED BY <1>1, <2>1, <2>2, <2>3
<1> QED BY <1>1, <1>2, <1>3, <1>4, <1>5, <1>6 DEF Next, ServerThread

(* In ghost mode the ticker sends to nobody who has left, the clients that *)
(* an op reached after their departure excepted.                           *)
THEOREM ViewersAreOnline == Spec => []ViewersOnline
<1>1. Init => ViewersOnline
  BY DEF Init, ViewersOnline
<1>2. ASSUME [Next]_vars, TypeOK, LoginOnce, ViewersOnline PROVE ViewersOnline'
  <2>1. SUFFICES ASSUME ~ raced'
                 PROVE  ghost_spectator_clients' \subseteq clients' \cup overtaken'
    BY DEF ViewersOnline
  <2>2. /\ ghost_spectator_clients \subseteq clients \cup overtaken
        /\ overtaken \subseteq overtaken'
    BY <1>2, <2>1, RelayStep DEF ViewersOnline
  <2>3. ASSUME NEW c \in Conn, NEW l \in LoginRequest, Enters(c, l)
        PROVE  ghost_spectator_clients' \subseteq clients' \cup overtaken'
    BY <2>2, <2>3 DEF Enters, Enter
  <2>4. ASSUME NEW c \in clients, Leave(c)
        PROVE  ghost_spectator_clients' \subseteq clients' \cup overtaken'
    BY <2>2, <2>4 DEF Leave, ViewersWithout
  <2>5. CASE OpInsert \/ DeopErase
    BY <2>2, <2>5 DEF OpInsert, DeopErase
  <2>6. CASE StopTicking \/ UNCHANGED <<clients, ghost_spectator_clients, ticking>>
    BY <2>2, <2>6 DEF StopTicking
  <2> QED BY <1>2, <2>1, <2>3, <2>4, <2>5, <2>6, RelayStep
<1> QED BY <1>1, <1>2, TypeCorrect, LoginOnceInvariant, PTL DEF Spec

(* The ticker runs exactly while two are online, until a stop. *)
THEOREM TicksWhileTwo == Spec => []TicksForTwo
<1>1. Init => TicksForTwo
  BY DEF Init, TicksForTwo, Crowded
<1>2. ASSUME [Next]_vars, TypeOK, LoginOnce, TicksForTwo PROVE TicksForTwo'
  <2>1. SUFFICES ASSUME ~ raced', console'.cmd \notin {"sleeping", "exited"}
                 PROVE  ticking' <=> Crowded(clients')
    BY DEF TicksForTwo
  <2>2. ticking <=> Crowded(clients)
    BY <1>2, <2>1, RelayStep DEF TicksForTwo
  <2>3. ASSUME NEW c \in Conn, NEW l \in LoginRequest, Enters(c, l)
        PROVE  ticking' <=> Crowded(clients')
    BY <2>2, <2>3 DEF Enters, Enter, Crowded
  <2>4. ASSUME NEW c \in clients, Leave(c) PROVE ticking' <=> Crowded(clients')
    BY <2>2, <2>4 DEF Leave, StillTicking, Crowded
  <2>5. CASE OpInsert \/ DeopErase \/ UNCHANGED <<clients, ghost_spectator_clients, ticking>>
    BY <2>2, <2>5 DEF OpInsert, DeopErase
  <2>6. ~ StopTicking
    BY <2>1, <1>2 DEF StopTicking, TypeOK, ConsoleState
  <2> QED BY <1>2, <2>1, <2>3, <2>4, <2>5, <2>6, RelayStep
<1> QED BY <1>1, <1>2, TypeCorrect, LoginOnceInvariant, PTL DEF Spec

=============================================================================
