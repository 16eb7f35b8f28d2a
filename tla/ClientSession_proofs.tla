-------------------------- MODULE ClientSession_proofs -----------------------
(***************************************************************************)
(* Theorems about ClientSession.  Next is disabled once a race is lost, so *)
(* the invariant speaks of the states before that: one attempt is under    *)
(* way at a time, who may own the connection is known, a connection comes  *)
(* up once, and so there is one login and one ping thread of it.           *)
(***************************************************************************)
EXTENDS ClientSession, SequenceTheorems, TLAPS

-----------------------------------------------------------------------------
(* The types.                                                              *)

Address == Addr \cup {NoAddr}
Request == [to : Address, canceled : BOOLEAN]
Completion == [to : Address, ok : BOOLEAN]
Link == [to : Address, state : {"none", "connecting", "connected", "ended"},
         login : {"none", "requested", "accepting", "accepted"}]
Change == [state : {"connecting", "connected"}]
          \cup [state : {"closed by peer", "problem"}, early : BOOLEAN, reason : Reason]

PlayerTypeOK ==
  /\ user \in {"idle", "connect", "disconnect", "sleep", "finish"}
  /\ target \in Address /\ server_addr_ \in Address
  /\ commands \in Nat

ResolverTypeOK ==
  /\ resolving_endpoint_ \in BOOLEAN /\ stopped \in BOOLEAN
  /\ ops \in Seq(Request)
  /\ completions \in Seq(Completion) /\ handlers \in Seq(Completion)
  /\ runs \in Nat

LinkTypeOK ==
  /\ connection_ \in Link
  /\ estate_ \in {"none", "connecting", "connected", "closed by peer", "problem"}
  /\ callbacks \in Seq(Change)

ThreadTypeOK ==
  /\ lock \in {"free", "user", "net", "handler"}
  /\ net \in {"none", "start", "loop", "poll", "login", "callbacks", "on connected",
              "join ping", "cleanup", "finish", "done"}
  /\ why \in Reason \cup {"none"}
  /\ ping \in {"none", "starting", "waiting", "looping", "done"}
  /\ running_ \in BOOLEAN /\ logged_in_ \in BOOLEAN /\ exited \in BOOLEAN

TaskTypeOK ==
  /\ reconnection_count_ \in Nat /\ logins \in Nat
  /\ tasks \in [sleeping : Nat, connecting : Nat]
  /\ mishaps \subseteq {"overlap", "missed", "late", "abandoned"}

TypeOK == PlayerTypeOK /\ ResolverTypeOK /\ LinkTypeOK /\ ThreadTypeOK /\ TaskTypeOK

-----------------------------------------------------------------------------
(* What the steps change.                                                  *)

Quiet == Command \/ UserSlept \/ PingStep
NetQuiet == NetStarts \/ NetLoops \/ NetPolls \/ NetLogsIn \/ NetCallback
NetOwns == NetRequests \/ NetJoinedPing \/ NetCleans
LibraryStep == Established \/ ServerAccepts \/ Ends

LEMMA Steps ==
  ASSUME Next
  PROVE  \/ Quiet \/ UserCleans \/ UserFinishes \/ UserConnects
         \/ PoolStep \/ NetQuiet \/ NetOwns \/ NetFinishes
         \/ TaskWakes \/ TaskConnects \/ Resolve \/ LibraryStep
BY DEF Next, Quiet, NetQuiet, NetOwns, LibraryStep, UserStep, NetStep, TaskStep, Library

LEMMA ResolverSteps ==
  ASSUME Quiet \/ UserCleans \/ NetQuiet \/ NetOwns \/ TaskWakes \/ LibraryStep
  PROVE  UNCHANGED resolverVars
<1>1. Quiet => UNCHANGED resolverVars
  BY DEF Quiet, Command, Connect, Disconnect, ModifyConfig, UserSlept, PingStep, PingWaits,
         PingEnds, pingOnly
<1>2. UserCleans \/ TaskWakes => UNCHANGED resolverVars
  BY DEF UserCleans, TaskWakes, taskOnly
<1>3. NetQuiet \/ NetOwns => UNCHANGED resolverVars
  BY DEF NetQuiet, NetOwns, NetStarts, NetLoops, NetPolls, NetLogsIn, NetCallback, NetRequests,
         NetJoinedPing, NetCleans, netOnly
<1>4. LibraryStep => UNCHANGED resolverVars
  BY DEF LibraryStep, Established, ServerAccepts, Ends, libraryOnly
<1>5. QED BY <1>1, <1>2, <1>3, <1>4

linkVars == <<connection_, estate_, callbacks>>
LEMMA LinkSteps ==
  ASSUME Next
  PROVE  \/ UNCHANGED linkVars
         \/ UserCleans \/ HandlerConnects \/ NetPolls \/ NetCallback \/ NetRequests
         \/ NetCleans \/ LibraryStep
<1>1. Quiet => UNCHANGED linkVars
  BY DEF linkVars, Quiet, Command, Connect, Disconnect, ModifyConfig, UserSlept, PingStep,
         PingWaits, PingEnds, pingOnly, netVars
<1>2. UserFinishes \/ UserConnects \/ TaskWakes \/ TaskConnects => UNCHANGED linkVars
  BY DEF linkVars, UserFinishes, UserConnects, Attempt, TaskWakes, TaskConnects, taskOnly, netVars
<1>3. RunReturns \/ Handler \/ NothingFound \/ HandlerJoined \/ Resolve => UNCHANGED linkVars
  BY DEF linkVars, RunReturns, Handler, NothingFound, HandlerJoined, Resolve, resolverOnly, netVars
<1>4. NetStarts \/ NetLoops \/ NetLogsIn \/ NetJoinedPing \/ NetFinishes => UNCHANGED linkVars
  BY DEF linkVars, NetStarts, NetLoops, NetLogsIn, NetJoinedPing, NetFinishes, netOnly
<1>5. QED BY Steps, <1>1, <1>2, <1>3, <1>4 DEF PoolStep, NetQuiet, NetOwns

threadVars == <<lock, net, why, running_, logged_in_, ping, exited>>
LEMMA ThreadSteps ==
  ASSUME Next
  PROVE  \/ UNCHANGED threadVars
         \/ UserCleans \/ UserFinishes \/ HandlerConnects \/ HandlerJoined \/ NetStep \/ PingStep
<1>1. Command \/ UserSlept => UNCHANGED threadVars
  BY DEF threadVars, Command, Connect, Disconnect, ModifyConfig, UserSlept, netVars
<1>2. UserConnects \/ TaskWakes \/ TaskConnects => UNCHANGED threadVars
  BY DEF threadVars, UserConnects, Attempt, TaskWakes, TaskConnects, taskOnly, netVars
<1>3. RunReturns \/ Handler \/ Resolve => UNCHANGED threadVars
  BY DEF threadVars, RunReturns, Handler, Resolve, resolverOnly, netVars
<1>4. NothingFound => UNCHANGED threadVars
  BY DEF threadVars, NothingFound, resolverOnly, netVars
<1>5. LibraryStep => UNCHANGED threadVars
  BY DEF threadVars, LibraryStep, Established, ServerAccepts, Ends, libraryOnly
<1>6. QED BY <1>1, <1>2, <1>3, <1>4, <1>5
          DEF Next, UserStep, PoolStep, TaskStep, Library, LibraryStep

-----------------------------------------------------------------------------
(* The types hold.                                                         *)

LEMMA CanceledType ==
  ASSUME ops \in Seq(Request)
  PROVE  /\ Canceled \in Seq(Request) /\ Len(Canceled) = Len(ops)
         /\ \A i \in DOMAIN ops : Canceled[i].to = ops[i].to
<1>1. DOMAIN ops = 1..Len(ops) /\ Len(ops) \in Nat /\ \A i \in 1..Len(ops) : ops[i] \in Request
  BY LenProperties, ElementOfSeq
<1>2. Canceled = [i \in 1..Len(ops) |-> [ops[i] EXCEPT !.canceled = TRUE]]
  BY <1>1 DEF Canceled
<1>3. \A i \in 1..Len(ops) : [ops[i] EXCEPT !.canceled = TRUE] \in Request
                             /\ [ops[i] EXCEPT !.canceled = TRUE].to = ops[i].to
  BY <1>1 DEF Request
<1>4. Canceled \in [1..Len(ops) -> Request]
  BY <1>2, <1>3
<1>5. Canceled \in Seq(Request)
  BY <1>1, <1>4, SeqDef
<1>6. DOMAIN Canceled = 1..Len(ops)
  BY <1>2
<1>7. Len(Canceled) = Len(ops)
  BY <1>1, <1>5, <1>6, LenProperties
<1>8. QED BY <1>1, <1>2, <1>3, <1>5, <1>7

LEMMA RemovedType ==
  ASSUME NEW S, NEW s \in Seq(S), NEW i \in DOMAIN s
  PROVE  /\ RemoveAt(s, i) \in Seq(S) /\ Len(RemoveAt(s, i)) = Len(s) - 1
         /\ Len(s) <= 1 => RemoveAt(s, i) = <<>>
<1>1. Len(s) \in Nat /\ i \in 1..Len(s) /\ \A j \in 1..Len(s) : s[j] \in S
  BY LenProperties, ElementOfSeq
<1>2. i - 1 \in Int /\ i + 1 \in Int /\ Len(s) \in Int /\ 1 \in Int
  BY <1>1
<1>3. \A j \in 1..i - 1 : s[j] \in S
  BY <1>1
<1>4. \A j \in i + 1..Len(s) : s[j] \in S
  BY <1>1
<1>5. SubSeq(s, 1, i - 1) \in Seq(S) /\ Len(SubSeq(s, 1, i - 1)) = i - 1
  BY <1>1, <1>2, <1>3, SubSeqProperties
<1>6. SubSeq(s, i + 1, Len(s)) \in Seq(S) /\ Len(SubSeq(s, i + 1, Len(s))) = Len(s) - i
  BY <1>1, <1>2, <1>4, SubSeqProperties
<1> DEFINE a == SubSeq(s, 1, i - 1)
           b == SubSeq(s, i + 1, Len(s))
<1> HIDE DEF a, b
<1>7. RemoveAt(s, i) \in Seq(S) /\ Len(RemoveAt(s, i)) = Len(s) - 1
  <2>1. RemoveAt(s, i) = a \o b
    BY DEF RemoveAt, a, b
  <2>2. a \in Seq(S) /\ b \in Seq(S) /\ Len(a) = i - 1 /\ Len(b) = Len(s) - i
    BY <1>5, <1>6 DEF a, b
  <2>3. a \o b \in Seq(S) /\ Len(a \o b) = Len(a) + Len(b)
    BY <2>2, ConcatProperties
  <2>4. QED BY <1>1, <2>1, <2>2, <2>3
<1>8. ASSUME Len(s) <= 1 PROVE RemoveAt(s, i) = <<>>
  BY <1>1, <1>7, <1>8, EmptySeq
<1>9. QED BY <1>7, <1>8

LEMMA PlayerType == TypeOK /\ Next => PlayerTypeOK'
<1> SUFFICES ASSUME TypeOK, Next PROVE PlayerTypeOK'
  OBVIOUS
<1> USE DEF TypeOK, PlayerTypeOK, Address
<1>1. CASE Command
  BY <1>1 DEF Command, Connect, Disconnect, ModifyConfig, Types
<1>2. CASE UserCleans \/ UserSlept \/ UserFinishes
  BY <1>2 DEF UserCleans, UserSlept, UserFinishes, bounds
<1>3. CASE UserConnects \/ TaskConnects
  BY <1>3 DEF UserConnects, TaskConnects, Attempt, bounds, userVars
<1>4. CASE PoolStep \/ Resolve
  BY <1>4 DEF PoolStep, RunReturns, Handler, NothingFound, HandlerConnects, HandlerJoined, Resolve,
              resolverOnly, userVars, bounds
<1>5. CASE NetStep
  BY <1>5 DEF NetStep, NetStarts, NetLoops, NetPolls, NetLogsIn, NetCallback, NetRequests,
              NetJoinedPing, NetCleans, NetFinishes, netOnly, userVars, bounds
<1>6. CASE PingStep \/ TaskWakes
  BY <1>6 DEF PingStep, PingWaits, PingEnds, pingOnly, TaskWakes, taskOnly, userVars, bounds
<1>7. CASE LibraryStep
  BY <1>7 DEF LibraryStep, Established, ServerAccepts, Ends, libraryOnly, userVars
<1>8. QED BY <1>1, <1>2, <1>3, <1>4, <1>5, <1>6, <1>7 
          DEF Next, UserStep, TaskStep, Library, LibraryStep

LEMMA AttemptOps ==
  ASSUME TypeOK, NEW a \in Address, Attempt(a)
  PROVE  /\ ops' \in Seq(Request)
         /\ ops = <<>> => \A i \in DOMAIN ops' : ops'[i].to = a
<1> DEFINE r == [to |-> a, canceled |-> FALSE]
<1>1. Canceled \in Seq(Request) /\ Len(Canceled) = Len(ops) /\ r \in Request
  BY CanceledType DEF TypeOK, ResolverTypeOK, Request
<1>2. ops' = Append(Canceled, r)
  BY DEF Attempt
<1>3. ASSUME ops = <<>>, NEW i \in DOMAIN ops' PROVE ops'[i].to = a
  <2>1. Canceled = <<>>
    BY <1>1, <1>3, EmptySeq
  <2>2. ops' = <<r>>
    BY <1>2, <2>1
  <2>3. QED BY <1>3, <2>2
<1>4. QED BY <1>1, <1>2, <1>3, AppendProperties

LEMMA ResolverType == TypeOK /\ Next => ResolverTypeOK'
<1> SUFFICES ASSUME TypeOK, Next PROVE ResolverTypeOK'
  OBVIOUS
<1> USE DEF ResolverTypeOK
<1>0. ResolverTypeOK /\ target \in Address /\ server_addr_ \in Address
  BY DEF TypeOK, PlayerTypeOK
<1>1. CASE UNCHANGED resolverVars
  BY <1>0, <1>1 DEF resolverVars
<1>2. CASE UserFinishes \/ NetFinishes
  BY <1>0, <1>2 DEF UserFinishes, NetFinishes, Finish
<1>3. ASSUME NEW a \in Address, Attempt(a) PROVE ResolverTypeOK'
  <2>1. ops' \in Seq(Request)
    BY <1>3, AttemptOps
  <2>2. runs' = runs + 1 /\ resolving_endpoint_' = TRUE /\ stopped' = FALSE
        /\ UNCHANGED <<completions, handlers>>
    BY <1>3 DEF Attempt
  <2>3. runs' \in Nat
    BY <1>0, <2>2
  <2>4. QED BY <1>0, <2>1, <2>2, <2>3
<1>4. CASE UserConnects \/ TaskConnects
  BY <1>0, <1>3, <1>4 DEF UserConnects, TaskConnects
<1>5. CASE RunReturns
  BY <1>0, <1>5 DEF RunReturns
<1>6. CASE Handler
  <2>1. completions' \in Seq(Completion) /\ handlers' \in Seq(Completion)
    BY <1>0, <1>6, HeadTailProperties, AppendProperties DEF Handler
  <2>2. runs > 0 /\ runs' = runs - 1 /\ resolving_endpoint_' = FALSE
        /\ UNCHANGED <<ops, stopped>>
    BY <1>6 DEF Handler
  <2>3. runs' \in Nat
    BY <1>0, <2>2
  <2>4. QED BY <1>0, <2>1, <2>2, <2>3
<1>7. CASE NothingFound
  <2>1. handlers' \in Seq(Completion)
    BY <1>0, <1>7, RemovedType DEF NothingFound, HandlerLocks
  <2>2. QED BY <1>0, <1>7, <2>1 DEF NothingFound
<1>8. CASE HandlerConnects
  <2>1. handlers' \in Seq(Completion)
    BY <1>0, <1>8, RemovedType DEF HandlerConnects, HandlerLocks
  <2>2. QED BY <1>0, <1>8, <2>1 DEF HandlerConnects
<1>9. CASE HandlerJoined
  BY <1>0, <1>9, CanceledType DEF HandlerJoined
<1>10. CASE Resolve
  <2>1. PICK found \in BOOLEAN : completions' = Append(completions,
               [to |-> Head(ops).to, ok |-> found /\ ~ Head(ops).canceled])
    BY <1>0, <1>10 DEF Resolve
  <2>2. Head(ops) \in Request /\ ops' \in Seq(Request)
    BY <1>0, <1>10, HeadTailProperties DEF Resolve
  <2>3. [to |-> Head(ops).to, ok |-> found /\ ~ Head(ops).canceled] \in Completion
    BY <1>0, <2>2 DEF Request, Completion
  <2>4. completions' \in Seq(Completion)
    BY <1>0, <2>1, <2>3, AppendProperties
  <2>5. QED BY <1>0, <1>10, <2>2, <2>4 DEF Resolve
<1>11. QED BY Steps, ResolverSteps, <1>1, <1>2, <1>4, <1>5, <1>6, <1>7, <1>8, <1>9, <1>10 DEF PoolStep

LEMMA LinkType == TypeOK /\ Next => LinkTypeOK'
<1> SUFFICES ASSUME TypeOK, Next PROVE LinkTypeOK'
  OBVIOUS
<1> USE DEF LinkTypeOK
<1>0. LinkTypeOK /\ NoConnection \in Link
  BY DEF TypeOK, NoConnection, Link, Address
<1>1. CASE UNCHANGED linkVars
  BY <1>0, <1>1 DEF linkVars
<1>2. CASE UserCleans \/ NetCleans
  BY <1>0, <1>2, EmptySeq DEF UserCleans, NetCleans, Begin, Closed
<1>3. CASE HandlerConnects
  <2>1. PICK i \in DOMAIN handlers : HandlerConnects!(i)
    BY <1>3 DEF HandlerConnects
  <2>2. handlers[i] \in Completion
    BY <2>1, ElementOfSeq, LenProperties DEF TypeOK, ResolverTypeOK
  <2>3. [to |-> handlers[i].to, state |-> "connecting", login |-> "none"] \in Link
    BY <2>2 DEF Link, Completion
  <2>4. [state |-> "connecting"] \in Change
    BY DEF Change
  <2>5. callbacks' \in Seq(Change)
    BY <1>0, <2>1, <2>4, AppendProperties
  <2>6. QED BY <1>0, <2>1, <2>3, <2>5
<1>4. CASE NetPolls \/ NetRequests
  <2>1. connection_' \in Link
    BY <1>0, <1>4 DEF NetPolls, NetRequests, Link
  <2>2. QED BY <1>0, <1>4, <2>1 DEF NetPolls, NetRequests
<1>5. CASE NetCallback
  <2>1. Head(callbacks) \in Change /\ Tail(callbacks) \in Seq(Change)
    BY <1>0, <1>5, HeadTailProperties DEF NetCallback
  <2>2. estate_' = Head(callbacks).state /\ callbacks' = Tail(callbacks)
        /\ connection_' = connection_
    BY <1>5 DEF NetCallback
  <2>3. QED BY <1>0, <2>1, <2>2 DEF Change
<1>6. CASE LibraryStep
  <2>1. connection_' \in Link /\ estate_' = estate_
    BY <1>0, <1>6 DEF LibraryStep, Established, ServerAccepts, Ends, libraryOnly, Link
  <2>2. CASE Established
    <3>1. [state |-> "connected"] \in Change
      BY DEF Change
    <3>2. QED BY <1>0, <2>1, <2>2, <3>1, AppendProperties DEF Established
  <2>3. CASE Ends
    <3>1. PICK state \in {"closed by peer", "problem"}, reason \in Reason :
            callbacks' = Append(callbacks, Ended(state, reason))
      BY <2>3 DEF Ends
    <3>2. Ended(state, reason) \in Change
      BY DEF Ended, Change
    <3>3. QED BY <1>0, <2>1, <3>1, <3>2, AppendProperties
  <2>4. CASE ServerAccepts
    BY <1>0, <2>1, <2>4 DEF ServerAccepts
  <2>5. QED BY <1>6, <2>2, <2>3, <2>4 DEF LibraryStep
<1>7. QED BY LinkSteps, <1>1, <1>2, <1>3, <1>4, <1>5, <1>6

LEMMA ThreadType == TypeOK /\ Next => ThreadTypeOK'
<1> SUFFICES ASSUME TypeOK, Next PROVE ThreadTypeOK'
  OBVIOUS
<1> USE DEF ThreadTypeOK
<1>0. ThreadTypeOK
  BY DEF TypeOK
<1>1. CASE UNCHANGED threadVars
  BY <1>0, <1>1 DEF threadVars
<1>2. CASE UserCleans
  BY <1>0, <1>2 DEF UserCleans, Begin, Notified
<1>3. CASE UserFinishes
  BY <1>0, <1>3 DEF UserFinishes, Finish, LoggedOut, netVars
<1>4. CASE HandlerConnects \/ HandlerJoined
  BY <1>0, <1>4 DEF HandlerConnects, HandlerJoined
<1>5. CASE NetStarts \/ NetLoops \/ NetPolls
  BY <1>0, <1>5 DEF NetStarts, NetLoops, NetPolls
<1>6. CASE NetLogsIn
  BY <1>0, <1>6 DEF NetLogsIn, Notified
<1>7. CASE NetCallback
  <2>1. Head(callbacks) \in Change
    BY <1>7, HeadTailProperties DEF NetCallback, TypeOK, LinkTypeOK
  <2>2. net' \in {"callbacks", "on connected", "cleanup"}
    BY <1>7 DEF NetCallback
  <2>3. why' \in Reason \cup {"none"}
    BY <1>0, <1>7, <2>1 DEF NetCallback, Change, Reason
  <2>4. UNCHANGED <<lock, ping, running_, logged_in_, exited>>
    BY <1>7 DEF NetCallback
  <2>5. QED BY <1>0, <2>2, <2>3, <2>4
<1>8. CASE NetRequests \/ NetJoinedPing
  BY <1>0, <1>8 DEF NetRequests, NetJoinedPing
<1>9. CASE NetCleans
  BY <1>0, <1>9 DEF NetCleans, Begin, Notified
<1>10. CASE NetFinishes
  BY <1>0, <1>10 DEF NetFinishes, Finish, LoggedOut
<1>11. CASE PingStep
  BY <1>0, <1>11 DEF PingStep, PingWaits, PingEnds, pingOnly, netVars
<1>12. QED BY ThreadSteps, <1>1, <1>2, <1>3, <1>4, <1>5, <1>6, <1>7, <1>8, <1>9, <1>10, <1>11 DEF NetStep

LEMMA TaskType == TypeOK /\ Next => TaskTypeOK'
<1> SUFFICES ASSUME TypeOK, Next PROVE TaskTypeOK'
  OBVIOUS
<1> USE DEF TaskTypeOK
<1>0. TaskTypeOK
  BY DEF TypeOK
<1>1. CASE Quiet
  BY <1>0, <1>1 DEF Quiet, Command, Connect, Disconnect, ModifyConfig, UserSlept, PingStep,
                    PingWaits, PingEnds, pingOnly, taskVars, bounds
<1>2. CASE UserCleans \/ UserFinishes
  BY <1>0, <1>2 DEF UserCleans, UserFinishes, Begin, Finish, Mishap, taskVars, bounds
<1>3. CASE UserConnects
  BY <1>0, <1>3 DEF UserConnects, Attempt, bounds
<1>4. CASE PoolStep \/ Resolve
  BY <1>0, <1>4 DEF PoolStep, RunReturns, Handler, NothingFound, HandlerConnects, HandlerJoined,
                    Resolve, resolverOnly, taskVars, bounds
<1>5. CASE NetStarts \/ NetLoops \/ NetPolls \/ NetCallback \/ NetJoinedPing
  BY <1>0, <1>5 DEF NetStarts, NetLoops, NetPolls, NetCallback, NetJoinedPing, netOnly,
                    taskVars, bounds
<1>6. CASE NetLogsIn \/ NetRequests \/ NetCleans
  <2>1. mishaps' \subseteq {"overlap", "missed", "late", "abandoned"}
    BY <1>0, <1>6 DEF NetLogsIn, NetRequests, NetCleans, Begin, Mishap
  <2>2. logins' = logins /\ tasks' = tasks
    BY <1>6 DEF NetLogsIn, NetRequests, NetCleans, netOnly, taskVars, bounds
  <2>3. reconnection_count_' \in {reconnection_count_, 0}
    BY <1>6 DEF NetLogsIn, NetRequests, NetCleans, netOnly, taskVars
  <2>4. QED BY <1>0, <2>1, <2>2, <2>3
<1>7. CASE NetFinishes
  <2>1. logins' = logins /\ mishaps' \subseteq {"overlap", "missed", "late", "abandoned"}
    BY <1>0, <1>7 DEF NetFinishes, Finish, Mishap, bounds
  <2>2. \/ reconnection_count_' \in Nat /\ tasks' = [tasks EXCEPT !.sleeping = @ + 1]
        \/ reconnection_count_' \in Nat /\ tasks' = tasks
    BY <1>0, <1>7 DEF NetFinishes, Reconnect, Counted, taskVars
  <2>3. QED BY <1>0, <2>1, <2>2
<1>8. CASE TaskWakes
  <2>1. UNCHANGED <<reconnection_count_, logins, mishaps>>
    BY <1>8 DEF TaskWakes, taskOnly, bounds
  <2>2. tasks.sleeping > 0
        /\ \/ tasks' = [tasks EXCEPT !.sleeping = @ - 1, !.connecting = @ + 1]
           \/ tasks' = [tasks EXCEPT !.sleeping = @ - 1, !.connecting = @]
    BY <1>8 DEF TaskWakes
  <2>3. tasks' \in [sleeping : Nat, connecting : Nat]
    <3>1. tasks.sleeping - 1 \in Nat /\ tasks.connecting + 1 \in Nat
          /\ tasks.connecting \in Nat
      BY <1>0, <2>2
    <3>2. QED BY <1>0, <2>2, <3>1
  <2>4. QED BY <1>0, <2>1, <2>3
<1>9. CASE TaskConnects
  <2>1. UNCHANGED <<reconnection_count_, logins>>
        /\ mishaps' \subseteq {"overlap", "missed", "late", "abandoned"}
    BY <1>0, <1>9 DEF TaskConnects, Attempt, bounds
  <2>2. tasks.connecting > 0 /\ tasks' = [tasks EXCEPT !.connecting = @ - 1]
    BY <1>9 DEF TaskConnects
  <2>3. QED BY <1>0, <2>1, <2>2
<1>10. CASE LibraryStep
  <2>1. UNCHANGED <<reconnection_count_, tasks, mishaps>>
    BY <1>10 DEF LibraryStep, Established, ServerAccepts, Ends, libraryOnly, taskVars
  <2>2. logins' \in {logins, logins + 1}
    BY <1>10 DEF LibraryStep, Established, ServerAccepts, Ends
  <2>3. QED BY <1>0, <2>1, <2>2
<1>11. QED BY Steps, <1>1, <1>2, <1>3, <1>4, <1>5, <1>6, <1>7, <1>8, <1>9, <1>10 DEF NetQuiet, NetOwns

LEMMA TypeInit == Init => TypeOK
<1> SUFFICES ASSUME Init PROVE TypeOK
  OBVIOUS
<1>1. PlayerTypeOK
  BY ClientSessionAssumption DEF Init, PlayerTypeOK, Address
<1>2. ResolverTypeOK
  BY EmptySeq DEF Init, ResolverTypeOK
<1>3. LinkTypeOK
  BY EmptySeq DEF Init, LinkTypeOK, NoConnection, Link, Address
<1>4. ThreadTypeOK /\ TaskTypeOK
  BY DEF Init, ThreadTypeOK, TaskTypeOK
<1>5. QED BY <1>1, <1>2, <1>3, <1>4 DEF TypeOK

LEMMA TypeStutters == TypeOK /\ UNCHANGED vars => TypeOK'
<1> SUFFICES ASSUME TypeOK, UNCHANGED vars PROVE TypeOK'
  OBVIOUS
<1> USE DEF TypeOK, vars
<1>1. PlayerTypeOK'
  BY DEF PlayerTypeOK, userVars, bounds
<1>2. ResolverTypeOK'
  BY DEF ResolverTypeOK, resolverVars
<1>3. LinkTypeOK'
  BY DEF LinkTypeOK, netVars
<1>4. ThreadTypeOK'
  BY DEF ThreadTypeOK, netVars
<1>5. TaskTypeOK'
  BY DEF TaskTypeOK, taskVars, bounds
<1>6. QED BY <1>1, <1>2, <1>3, <1>4, <1>5

(* Every variable keeps to its type, for every number of servers, commands *)
(* and logins.                                                             *)
THEOREM TypeCorrect == Spec => []TypeOK
<1>1. TypeOK /\ [Next]_vars => TypeOK'
  BY TypeStutters, PlayerType, ResolverType, LinkType, ThreadType, TaskType DEF TypeOK
<1>2. QED BY TypeInit, <1>1, PTL DEF Spec

-----------------------------------------------------------------------------
(* The invariant, while no race is lost.                                   *)

(* One attempt at a time: the run of the io_context that will take its     *)
(* completion, its handler, or the handler's connection being set up.      *)
OneAttempt ==
  /\ Len(handlers) <= 1
  /\ ~ stopped => runs <= 1
  /\ ~ stopped /\ runs > 0 =>
       resolving_endpoint_ /\ handlers = <<>> /\ lock # "handler" /\ NetEnded
  /\ handlers # <<>> => (stopped \/ runs = 0) /\ lock # "handler" /\ NetEnded
  /\ lock = "handler" => (stopped \/ runs = 0) /\ NetEnded

(* There is a connection while the network thread runs or is being started *)
(* for it, and nothing is left of a connection that is closed.             *)
Owned ==
  /\ running_ => net \notin {"none", "start", "done"}
  /\ connection_ # NoConnection <=> running_ \/ lock = "handler" \/ net = "start"
  /\ connection_.state = "none" <=> connection_ = NoConnection
  /\ connection_ = NoConnection => estate_ = "none" /\ callbacks = <<>>

Locked ==
  /\ lock = "user" <=> user \in {"sleep", "finish"}
  /\ lock = "net" <=> net \in {"join ping", "finish"}

(* A connection is up once, and asked for nothing before.                  *)
Up(i) == callbacks[i].state = "connected"
NoneUp == \A i \in DOMAIN callbacks : ~ Up(i)
OnceUp == \A i, j \in DOMAIN callbacks : Up(i) /\ Up(j) => i = j
ConnectedOnce ==
  /\ OnceUp
  /\ net = "on connected" => NoneUp
  /\ connection_.state = "connecting" => NoneUp /\ net # "on connected"
  /\ ~ NoneUp \/ net = "on connected" \/ connection_.state = "connecting" =>
       connection_.login = "none"

LoginsAccepted ==
  /\ net = "login" => connection_ = NoConnection \/ connection_.login = "accepted"
  /\ logged_in_ => \/ connection_ # NoConnection /\ connection_.login = "accepted"
                   \/ connection_ = NoConnection /\ (lock = "user" \/ net = "finish")

(* A ping thread that may wait is of the connection that is, which was up. *)
PingsOnce ==
  /\ ping \in {"starting", "waiting"} \/ net = "join ping" =>
       /\ connection_ # NoConnection /\ connection_.state # "connecting"
       /\ NoneUp /\ net # "on connected"
  /\ net = "join ping" => ping \notin {"starting", "waiting"} /\ ~ logged_in_

(* Whatever is under way is to the server that was asked for last.         *)
To(s) == \A i \in DOMAIN s : s[i].to = server_addr_
AllTo ==
  "abandoned" \notin mishaps =>
    /\ To(ops) /\ To(completions) /\ To(handlers)
    /\ connection_ # NoConnection => connection_.to = server_addr_

Control == OneAttempt /\ Owned /\ Locked /\ ConnectedOnce /\ LoginsAccepted /\ PingsOnce /\ AllTo
IInv == TypeOK /\ (lost \/ Control)

LEMMA NoOverlap ==
  ASSUME NEW a, Attempt(a), ~ lost'
  PROVE  ~ resolving_endpoint_ /\ NetEnded /\ handlers = <<>> /\ lock # "handler"
BY DEF Attempt, lost, UnderWay

LEMMA OneAttemptStep ==
  ASSUME TypeOK, Control, Next, ~ lost'
  PROVE  OneAttempt'
<1>0. ResolverTypeOK /\ OneAttempt
  BY DEF TypeOK, Control
<1>1. ASSUME UNCHANGED resolverVars, lock' = "handler" <=> lock = "handler", NetEnded' <=> NetEnded
      PROVE  OneAttempt'
  BY <1>0, <1>1 DEF OneAttempt, resolverVars
<1>2. CASE Quiet \/ UserCleans \/ TaskWakes \/ LibraryStep
  <2>1. UNCHANGED resolverVars /\ net' = net
    BY <1>2, ResolverSteps DEF Quiet, Command, Connect, Disconnect, ModifyConfig, UserSlept,
         PingStep, PingWaits, PingEnds, pingOnly, UserCleans, TaskWakes, taskOnly, LibraryStep,
         Established, ServerAccepts, Ends, libraryOnly, netVars
  <2>2. lock' = "handler" <=> lock = "handler"
    BY <1>2 DEF Quiet, Command, Connect, Disconnect, ModifyConfig, UserSlept,
         PingStep, PingWaits, PingEnds, pingOnly, UserCleans, Begin, TaskWakes, taskOnly, LibraryStep,
         Established, ServerAccepts, Ends, libraryOnly
  <2>3. QED BY <1>1, <2>1, <2>2 DEF NetEnded
<1>3. CASE NetQuiet \/ NetOwns
  <2>1. UNCHANGED resolverVars /\ ~ NetEnded
    BY <1>3, ResolverSteps DEF NetQuiet, NetStarts, NetLoops, NetPolls, NetLogsIn, NetCallback,
         NetOwns, NetRequests, NetJoinedPing, NetCleans, NetEnded
  <2>2. lock' # "handler"
    BY <1>0, <1>3, <2>1 DEF OneAttempt, NetQuiet, NetStarts, NetLoops, NetPolls, NetLogsIn,
         NetCallback, NetOwns, NetRequests, NetJoinedPing, NetCleans, Begin
  <2>3. QED BY <1>0, <2>1, <2>2 DEF OneAttempt, resolverVars
<1>4. ASSUME NEW a, Attempt(a) PROVE OneAttempt'
  <2>1. ~ resolving_endpoint_ /\ NetEnded /\ handlers = <<>> /\ lock # "handler"
    BY <1>4, NoOverlap
  <2>2. runs = 0
    BY <1>0, <1>4, <2>1 DEF OneAttempt, Attempt, Paused, ResolverTypeOK
  <2>3. runs' = 1 /\ resolving_endpoint_' /\ UNCHANGED <<handlers, lock, net>>
    BY <1>4, <2>2 DEF Attempt, netVars
  <2>4. QED BY <1>0, <2>1, <2>3 DEF OneAttempt, NetEnded
<1>5. CASE UserConnects \/ TaskConnects
  BY <1>4, <1>5 DEF UserConnects, TaskConnects
<1>6. CASE UserFinishes \/ NetFinishes
  <2>1. stopped' = TRUE /\ handlers' = handlers /\ lock' = "free"
    BY <1>6 DEF UserFinishes, NetFinishes, Finish
  <2>2. handlers # <<>> => NetEnded'
    BY <1>0, <1>6 DEF OneAttempt, UserFinishes, NetFinishes, NetEnded, netVars
  <2>3. QED BY <1>0, <2>1, <2>2 DEF OneAttempt
<1>7. CASE RunReturns \/ Resolve
  BY <1>0, <1>7 DEF OneAttempt, ResolverTypeOK, RunReturns, Resolve, resolverOnly, NetEnded, netVars
<1>8. CASE Handler
  <2>1. runs = 1 /\ handlers = <<>> /\ lock # "handler" /\ NetEnded
    BY <1>0, <1>8 DEF OneAttempt, ResolverTypeOK, Handler
  <2>2. handlers' = <<Head(completions)>> /\ runs' = 0 /\ UNCHANGED <<lock, net>>
    BY <1>8, <2>1 DEF Handler, resolverOnly, netVars
  <2>3. Len(handlers') = 1
    BY <2>2
  <2>4. QED BY <2>1, <2>2, <2>3 DEF OneAttempt, NetEnded
<1>9. ASSUME NEW i \in DOMAIN handlers, HandlerLocks(i)
      PROVE  handlers' = <<>> /\ Len(handlers') = 0 /\ (stopped \/ runs = 0) /\ NetEnded
  <2>1. handlers' = <<>>
    BY <1>0, <1>9, RemovedType DEF HandlerLocks, OneAttempt, ResolverTypeOK
  <2>2. handlers # <<>>
    BY <1>9
  <2>3. QED BY <1>0, <2>1, <2>2 DEF OneAttempt
<1>10. CASE NothingFound
  <2>1. stopped' = TRUE /\ lock' = "free"
    BY <1>10 DEF NothingFound, HandlerLocks, resolverOnly
  <2>2. handlers' = <<>> /\ Len(handlers') = 0
    BY <1>9, <1>10 DEF NothingFound
  <2>3. QED BY <2>1, <2>2 DEF OneAttempt
<1>11. CASE HandlerConnects
  <2>1. UNCHANGED <<stopped, runs, net>>
    BY <1>11 DEF HandlerConnects
  <2>2. handlers' = <<>> /\ Len(handlers') = 0 /\ (stopped \/ runs = 0) /\ NetEnded
    BY <1>9, <1>11 DEF HandlerConnects
  <2>3. QED BY <1>0, <2>1, <2>2 DEF OneAttempt, ResolverTypeOK, NetEnded
<1>12. CASE HandlerJoined
  <2>1. handlers = <<>>
    BY <1>0, <1>12 DEF OneAttempt, HandlerJoined
  <2>2. QED BY <1>0, <1>12, <2>1 DEF OneAttempt, HandlerJoined
<1>13. QED BY Steps, <1>2, <1>3, <1>5, <1>6, <1>7, <1>8, <1>10, <1>11, <1>12 DEF PoolStep

LEMMA LockedStep ==
  ASSUME TypeOK, Control, Next, ~ lost'
  PROVE  Locked'
<1>0. Locked /\ ThreadTypeOK /\ PlayerTypeOK /\ OneAttempt
  BY DEF Control, TypeOK
<1> USE DEF Locked
<1>1. CASE Command
  BY <1>0, <1>1 DEF Command, Connect, Disconnect, ModifyConfig, Types, netVars
<1>2. CASE UserCleans \/ UserSlept
  BY <1>0, <1>2 DEF UserCleans, UserSlept, Begin, netVars
<1>3. CASE UserFinishes \/ UserConnects
  BY <1>0, <1>3 DEF UserFinishes, Finish, UserConnects, Attempt, netVars
<1>4. CASE RunReturns \/ Handler \/ NothingFound \/ Resolve
  BY <1>0, <1>4 DEF RunReturns, Handler, NothingFound, Resolve, resolverOnly, userVars, netVars
<1>5. CASE HandlerConnects
  BY <1>0, <1>5 DEF HandlerConnects, HandlerLocks, userVars
<1>6. CASE HandlerJoined
  BY <1>0, <1>6 DEF HandlerJoined, userVars
<1>7. CASE NetStarts \/ NetLoops \/ NetPolls \/ NetLogsIn
  BY <1>0, <1>7 DEF NetStarts, NetLoops, NetPolls, NetLogsIn, netOnly, userVars
<1>8. CASE NetCallback
  <2>1. net = "callbacks" /\ net' \in {"callbacks", "on connected", "cleanup"}
    BY <1>8 DEF NetCallback
  <2>2. UNCHANGED <<lock, user>>
    BY <1>8 DEF NetCallback, netOnly, userVars
  <2>3. QED BY <1>0, <2>1, <2>2
<1>9. CASE NetRequests \/ NetJoinedPing
  BY <1>0, <1>9 DEF NetRequests, NetJoinedPing, netOnly, userVars
<1>10. CASE NetCleans \/ NetFinishes
  BY <1>0, <1>10 DEF NetCleans, NetFinishes, Begin, Finish, netOnly, userVars
<1>11. CASE PingStep \/ TaskStep
  BY <1>0, <1>11 DEF PingStep, PingWaits, PingEnds, pingOnly, TaskStep, TaskWakes, TaskConnects,
       Attempt, taskOnly, userVars, netVars
<1>12. CASE LibraryStep
  BY <1>0, <1>12 DEF LibraryStep, Established, ServerAccepts, Ends, libraryOnly, userVars
<1>13. QED BY <1>1, <1>2, <1>3, <1>4, <1>5, <1>6, <1>7, <1>8, <1>9, <1>10, <1>11, <1>12
          DEF Next, UserStep, PoolStep, NetStep, Library, LibraryStep

LEMMA LinkFields ==
  ASSUME NEW c \in Link, NEW v
  PROVE  /\ [c EXCEPT !.login = v].state = c.state /\ [c EXCEPT !.login = v].login = v
         /\ [c EXCEPT !.login = v].to = c.to
         /\ [c EXCEPT !.state = v].login = c.login /\ [c EXCEPT !.state = v].state = v
         /\ [c EXCEPT !.state = v].to = c.to
BY DEF Link

LEMMA NoFields == NoConnection.state = "none" /\ NoConnection.login = "none"
BY DEF NoConnection

LEMMA OwnedStep ==
  ASSUME TypeOK, Control, Next, ~ lost'
  PROVE  Owned'
<1>0. Owned /\ Locked /\ OneAttempt /\ LinkTypeOK /\ ThreadTypeOK
  BY DEF Control, TypeOK
<1> USE DEF Owned
<1>1. CASE UNCHANGED linkVars /\ UNCHANGED threadVars
  BY <1>0, <1>1 DEF linkVars, threadVars
<1>2. CASE UserFinishes \/ PingStep
  BY <1>0, <1>2 DEF UserFinishes, Finish, PingStep, PingWaits, PingEnds, pingOnly, netVars
<1>3. ASSUME NEW who \in {"user", "net"}, Begin(who),
             net' = net \/ (net = "cleanup" /\ net' = "finish")
      PROVE  Owned'
  <2>1. CASE running_
    <3>1. connection_' = NoConnection /\ estate_' = "none" /\ callbacks' = <<>>
          /\ running_' = FALSE /\ lock' # "handler" /\ net' # "start"
      BY <1>0, <1>3, <2>1 DEF Begin, Closed
    <3>2. QED BY <3>1 DEF NoConnection
  <2>2. CASE ~ running_
    <3>1. UNCHANGED <<connection_, estate_, callbacks>> /\ running_' = FALSE
          /\ lock = "free" /\ lock' # "handler" /\ (net' = "start" <=> net = "start")
      BY <1>3, <2>2 DEF Begin, Closed
    <3>2. QED BY <1>0, <2>2, <3>1
  <2>3. QED BY <2>1, <2>2
<1>4. CASE UserCleans
  BY <1>3, <1>4 DEF UserCleans
<1>5. CASE NetCleans
  BY <1>3, <1>5 DEF NetCleans
<1>6. CASE HandlerConnects
  <2>1. connection_'.state = "connecting" /\ lock' = "handler" /\ UNCHANGED <<net, running_>>
    BY <1>6 DEF HandlerConnects
  <2>2. connection_' # NoConnection
    BY <2>1 DEF NoConnection
  <2>3. NetEnded
    BY <1>0, <1>6 DEF HandlerConnects, OneAttempt
  <2>4. QED BY <1>0, <2>1, <2>2, <2>3 DEF NetEnded
<1>7. CASE HandlerJoined
  <2>1. lock = "handler" /\ lock' = "free" /\ NetEnded /\ net' = "start"
        /\ UNCHANGED <<connection_, estate_, callbacks, running_>>
    BY <1>7 DEF HandlerJoined
  <2>2. QED BY <1>0, <2>1 DEF NetEnded
<1>8. CASE NetStarts \/ NetLoops \/ NetLogsIn \/ NetJoinedPing
  <2>1. UNCHANGED <<connection_, estate_, callbacks>> /\ lock # "handler" /\ lock' # "handler"
    BY <1>0, <1>8 DEF NetStarts, NetLoops, NetLogsIn, NetJoinedPing, OneAttempt, NetEnded
  <2>2. CASE NetStarts
    BY <1>0, <2>1, <2>2 DEF NetStarts
  <2>3. CASE NetLoops
    <3>1. running_' = running_ /\ net \in {"loop", "callbacks"}
          /\ net' = IF running_ THEN "poll" ELSE "done"
      BY <2>3 DEF NetLoops
    <3>2. QED BY <1>0, <2>1, <3>1
  <2>4. CASE NetLogsIn \/ NetJoinedPing
    <3>1. net \in {"login", "join ping"} /\ net' = "callbacks" /\ running_' = running_
      BY <2>4 DEF NetLogsIn, NetJoinedPing
    <3>2. QED BY <1>0, <2>1, <3>1
  <2>5. QED BY <1>8, <2>2, <2>3, <2>4
<1>9. CASE NetFinishes
  BY <1>0, <1>9 DEF NetFinishes, Finish
<1>10. CASE NetPolls \/ NetRequests
  <2>1. connection_'.state = connection_.state /\ (connection_ = NoConnection => connection_' = connection_)
    <3>1. connection_ = NoConnection => connection_.login = "none" /\ connection_.state = "none"
      BY DEF NoConnection
    <3>2. CASE NetPolls
      BY <1>0, <3>1, <3>2, LinkFields DEF NetPolls, LinkTypeOK
    <3>3. CASE NetRequests
      BY <1>0, <3>1, <3>3, LinkFields DEF NetRequests, LinkTypeOK
    <3>4. QED BY <1>10, <3>2, <3>3
  <2>2. UNCHANGED <<running_, estate_, callbacks>>
        /\ (lock' = "handler" <=> lock = "handler") /\ net # "start" /\ net' \notin {"none", "start", "done"}
    BY <1>10 DEF NetPolls, NetRequests
  <2>3. connection_' = NoConnection => connection_ = NoConnection
    BY <1>0, <2>1 DEF NoConnection
  <2>4. lock # "handler"
    BY <1>0, <1>10 DEF OneAttempt, NetPolls, NetRequests, NetEnded
  <2>5. QED BY <1>0, <2>1, <2>2, <2>3, <2>4
<1>11. CASE NetCallback
  <2>1. net = "callbacks" /\ net' \in {"callbacks", "on connected", "cleanup"}
        /\ UNCHANGED <<lock, running_, connection_>> /\ callbacks # <<>>
    BY <1>11 DEF NetCallback
  <2>2. QED BY <1>0, <2>1
<1>12. CASE LibraryStep
  <2>1. connection_.state \in {"connecting", "connected"}
        /\ connection_'.state \in {"connected", "ended"}
    BY <1>0, <1>12 DEF LibraryStep, Established, ServerAccepts, Ends, LinkTypeOK, Link
  <2>2. connection_ # NoConnection /\ connection_' # NoConnection
    BY <2>1 DEF NoConnection
  <2>3. UNCHANGED <<lock, net, running_>>
    BY <1>12 DEF LibraryStep, Established, ServerAccepts, Ends, libraryOnly
  <2>4. QED BY <1>0, <2>1, <2>2, <2>3
<1>13. QED BY LinkSteps, ThreadSteps, <1>1, <1>2, <1>4, <1>5, <1>6, <1>7, <1>8, <1>9, <1>10, <1>11,
              <1>12 DEF NetStep

(* The callbacks, as one is added and as one is handled.                   *)
LEMMA AddedCallback ==
  ASSUME LinkTypeOK, NEW e \in Change, callbacks' = Append(callbacks, e)
  PROVE  /\ e.state # "connected" => (NoneUp' <=> NoneUp) /\ (OnceUp => OnceUp')
         /\ NoneUp => OnceUp'
<1>1. Len(callbacks) \in Nat /\ DOMAIN callbacks = 1..Len(callbacks)
  BY LenProperties DEF LinkTypeOK
<1>2. /\ DOMAIN callbacks' = 1..Len(callbacks) + 1 /\ callbacks'[Len(callbacks) + 1] = e
      /\ \A i \in 1..Len(callbacks) : callbacks'[i] = callbacks[i]
  <2>1. callbacks \in Seq(Change)
    BY DEF LinkTypeOK
  <2>2. callbacks' \in Seq(Change) /\ Len(callbacks') = Len(callbacks) + 1
        /\ callbacks'[Len(callbacks) + 1] = e
        /\ \A i \in 1..Len(callbacks) : callbacks'[i] = callbacks[i]
    BY <2>1, AppendProperties
  <2>3. DOMAIN callbacks' = 1..Len(callbacks')
    BY <2>2, LenProperties
  <2>4. QED BY <2>2, <2>3
<1>3. \A i \in DOMAIN callbacks' : i \in DOMAIN callbacks \/ i = Len(callbacks) + 1
  BY <1>1, <1>2
<1>4. \A i \in DOMAIN callbacks : i \in DOMAIN callbacks' /\ (Up(i)' <=> Up(i))
  BY <1>1, <1>2 DEF Up
<1>5. (callbacks'[Len(callbacks) + 1].state = "connected") <=> e.state = "connected"
  BY <1>2
<1>6. ASSUME NEW i \in DOMAIN callbacks', Up(i)'
      PROVE  \/ i \in DOMAIN callbacks /\ Up(i)
             \/ i = Len(callbacks) + 1 /\ e.state = "connected"
  <2>1. CASE i \in DOMAIN callbacks
    BY <1>4, <1>6, <2>1
  <2>2. CASE i = Len(callbacks) + 1
    BY <1>5, <1>6, <2>2 DEF Up
  <2>3. QED BY <1>3, <2>1, <2>2
<1>7. QED BY <1>4, <1>6 DEF NoneUp, OnceUp

LEMMA TakenCallback ==
  ASSUME LinkTypeOK, callbacks # <<>>, callbacks' = Tail(callbacks)
  PROVE  /\ NoneUp => NoneUp' /\ Head(callbacks).state # "connected"
         /\ OnceUp => OnceUp'
         /\ OnceUp /\ Head(callbacks).state = "connected" => NoneUp'
<1>1. Len(callbacks) \in Nat \ {0} /\ DOMAIN callbacks = 1..Len(callbacks)
  BY LenProperties, EmptySeq DEF LinkTypeOK
<1>2. callbacks' \in Seq(Change) /\ Len(callbacks') = Len(callbacks) - 1
      /\ \A i \in 1..Len(callbacks) - 1 : callbacks'[i] = callbacks[i + 1]
  BY <1>1, HeadTailProperties DEF LinkTypeOK
<1>3. DOMAIN callbacks' = 1..Len(callbacks) - 1
  BY <1>2, LenProperties
<1>4. \A i \in DOMAIN callbacks' : i + 1 \in DOMAIN callbacks /\ i + 1 # 1 /\ (Up(i)' <=> Up(i + 1))
  BY <1>1, <1>2, <1>3 DEF Up
<1>5. 1 \in DOMAIN callbacks /\ (Up(1) <=> Head(callbacks).state = "connected")
  BY <1>1 DEF Up
<1>6. NoneUp => NoneUp' /\ Head(callbacks).state # "connected"
  BY <1>4, <1>5 DEF NoneUp
<1>7. ASSUME OnceUp PROVE OnceUp'
  <2>1. ASSUME NEW i \in DOMAIN callbacks', NEW j \in DOMAIN callbacks', Up(i)', Up(j)' PROVE i = j
    <3>1. i + 1 = j + 1
      BY <1>4, <1>7, <2>1 DEF OnceUp
    <3>2. QED BY <1>3, <3>1
  <2>2. QED BY <2>1 DEF OnceUp
<1>8. OnceUp /\ Head(callbacks).state = "connected" => NoneUp'
  BY <1>4, <1>5 DEF NoneUp, OnceUp
<1>9. QED BY <1>6, <1>7, <1>8

LEMMA ConnectedOnceStep ==
  ASSUME TypeOK, Control, Next, ~ lost'
  PROVE  ConnectedOnce'
<1>0. ConnectedOnce /\ OneAttempt /\ Owned /\ LinkTypeOK /\ ThreadTypeOK
  BY DEF Control, TypeOK
<1> USE DEF ConnectedOnce
<1>1. ASSUME callbacks' = callbacks PROVE (NoneUp' <=> NoneUp) /\ (OnceUp' <=> OnceUp)
  BY <1>1 DEF NoneUp, OnceUp, Up
<1>2. CASE UNCHANGED linkVars /\ net' # "on connected"
  BY <1>0, <1>1, <1>2 DEF linkVars
<1>3. CASE UNCHANGED linkVars /\ net' = net
  BY <1>0, <1>1, <1>3 DEF linkVars
<1>4. CASE UserFinishes \/ PingStep
  BY <1>0, <1>3, <1>4 DEF UserFinishes, PingStep, PingWaits, PingEnds, pingOnly, netVars, linkVars
<1>5. ASSUME NEW who, Begin(who), net' # "on connected" \/ net' = net PROVE ConnectedOnce'
  <2>1. CASE running_
    <3>1. connection_' = NoConnection /\ callbacks' = <<>>
      BY <1>5, <2>1 DEF Begin, Closed
    <3>2. NoneUp' /\ OnceUp'
      BY <3>1 DEF NoneUp, OnceUp
    <3>3. QED BY <3>1, <3>2 DEF NoConnection
  <2>2. CASE ~ running_
    <3>1. UNCHANGED linkVars
      BY <1>5, <2>2 DEF Begin, Closed, linkVars
    <3>2. QED BY <1>2, <1>3, <1>5, <3>1
  <2>3. QED BY <2>1, <2>2
<1>6. CASE UserCleans
  BY <1>5, <1>6 DEF UserCleans
<1>7. CASE NetCleans
  BY <1>5, <1>7 DEF NetCleans
<1>8. CASE HandlerConnects
  <2>1. handlers # <<>> /\ lock = "free"
    BY <1>8 DEF HandlerConnects, HandlerLocks
  <2>e. NetEnded
    BY <1>0, <2>1 DEF OneAttempt
  <2>2. callbacks = <<>>
    BY <1>0, <2>1, <2>e DEF Owned, NetEnded
  <2>3. connection_'.login = "none" /\ net' = net
        /\ callbacks' = Append(callbacks, [state |-> "connecting"])
    BY <1>8 DEF HandlerConnects
  <2>4. [state |-> "connecting"] \in Change /\ [state |-> "connecting"].state = "connecting"
    BY DEF Change
  <2>5. NoneUp
    BY <2>2 DEF NoneUp
  <2>6. NoneUp' /\ OnceUp'
    BY <1>0, <2>3, <2>4, <2>5, AddedCallback
  <2>7. QED BY <2>e, <2>3, <2>6 DEF NetEnded
<1>9. CASE HandlerJoined \/ NetStarts \/ NetLoops \/ NetLogsIn \/ NetJoinedPing \/ NetFinishes
  BY <1>2, <1>9 DEF HandlerJoined, NetStarts, NetLoops, NetLogsIn, NetJoinedPing, NetFinishes, linkVars
<1>10. CASE NetPolls
  <2>1. connection_'.state = connection_.state
        /\ (connection_.login # "accepting" => connection_'.login = connection_.login)
    BY <1>0, <1>10 DEF NetPolls, LinkTypeOK, Link
  <2>2. callbacks' = callbacks /\ net' # "on connected"
    BY <1>10 DEF NetPolls
  <2>3. connection_.login = "accepting" \/ connection_'.login = connection_.login
    BY <2>1
  <2>4. QED BY <1>0, <1>1, <2>1, <2>2, <2>3
<1>11. CASE NetRequests
  <2>1. connection_'.state = connection_.state /\ callbacks' = callbacks /\ net' = "join ping"
        /\ net = "on connected"
    BY <1>0, <1>11 DEF NetRequests, LinkTypeOK, Link
  <2>2. QED BY <1>0, <1>1, <2>1
<1>12. CASE NetCallback
  <2>1. callbacks # <<>> /\ callbacks' = Tail(callbacks) /\ connection_' = connection_
    BY <1>12 DEF NetCallback
  <2>2. /\ NoneUp => NoneUp' /\ Head(callbacks).state # "connected"
        /\ OnceUp => OnceUp'
        /\ OnceUp /\ Head(callbacks).state = "connected" => NoneUp'
    BY <1>0, <2>1, TakenCallback
  <2>3. net' = "on connected" => Head(callbacks).state = "connected"
    BY <1>12 DEF NetCallback
  <2>4. QED BY <1>0, <2>1, <2>2, <2>3
<1>13. CASE Established
  <2>1. connection_.state = "connecting" /\ connection_' = [connection_ EXCEPT !.state = "connected"]
        /\ callbacks' = Append(callbacks, [state |-> "connected"]) /\ net' = net
    BY <1>13 DEF Established, libraryOnly
  <2>2. connection_'.state = "connected" /\ connection_'.login = connection_.login
    BY <1>0, <2>1 DEF LinkTypeOK, Link
  <2>3. [state |-> "connected"] \in Change
    BY DEF Change
  <2>4. NoneUp => OnceUp'
    BY <1>0, <2>1, <2>3, AddedCallback
  <2>5. QED BY <1>0, <2>1, <2>2, <2>4
<1>14. CASE ServerAccepts
  <2>1. connection_.login = "requested" /\ connection_.state = "connected"
        /\ connection_' = [connection_ EXCEPT !.login = "accepting"] /\ callbacks' = callbacks /\ net' = net
    BY <1>14 DEF ServerAccepts, libraryOnly
  <2>2. connection_'.state = connection_.state
    BY <1>0, <2>1 DEF LinkTypeOK, Link
  <2>3. QED BY <1>0, <1>1, <2>1, <2>2
<1>15. CASE Ends
  <2>1. connection_' = [connection_ EXCEPT !.state = "ended"] /\ net' = net
    BY <1>15 DEF Ends, libraryOnly
  <2>2. connection_'.state = "ended" /\ connection_'.login = connection_.login
    BY <1>0, <2>1 DEF LinkTypeOK, Link
  <2>3. PICK state \in {"closed by peer", "problem"}, reason \in Reason :
          callbacks' = Append(callbacks, Ended(state, reason))
    BY <1>15 DEF Ends
  <2>4. Ended(state, reason) \in Change /\ Ended(state, reason).state # "connected"
    BY DEF Ended, Change
  <2>5. (NoneUp' <=> NoneUp) /\ (OnceUp => OnceUp')
    BY <1>0, <2>3, <2>4, AddedCallback
  <2>6. QED BY <1>0, <2>1, <2>2, <2>5
<1>16. CASE UNCHANGED linkVars /\ UNCHANGED threadVars
  BY <1>3, <1>16 DEF threadVars
<1>17. QED BY LinkSteps, ThreadSteps, <1>16, <1>4, <1>6, <1>7, <1>8, <1>9, <1>10, <1>11, <1>12,
              <1>13, <1>14, <1>15 DEF NetStep, LibraryStep

LEMMA LoginsAcceptedStep ==
  ASSUME TypeOK, Control, Next, ~ lost'
  PROVE  LoginsAccepted'
<1>0. LoginsAccepted /\ ConnectedOnce /\ OneAttempt /\ Owned /\ Locked /\ LinkTypeOK /\ ThreadTypeOK
  BY DEF Control, TypeOK
<1> USE DEF LoginsAccepted
<1>1. CASE UNCHANGED linkVars /\ UNCHANGED threadVars
  BY <1>0, <1>1 DEF linkVars, threadVars
<1>2. CASE PingStep
  BY <1>0, <1>2 DEF PingStep, PingWaits, PingEnds, pingOnly, netVars
<1>3. ASSUME NEW who, Begin(who), (who = "user" /\ net' = net) \/ net' = "finish",
             logged_in_' = logged_in_, lock' = who
      PROVE  LoginsAccepted'
  <2>1. lock = "free"
    BY <1>3 DEF Begin
  <2>2. CASE running_
    BY <1>0, <1>3, <2>2 DEF Begin, Closed
  <2>3. CASE ~ running_
    <3>1. connection_' = connection_
      BY <1>3, <2>3 DEF Begin, Closed
    <3>2. QED BY <1>0, <1>3, <2>1, <3>1
  <2>4. QED BY <2>2, <2>3
<1>4. CASE UserCleans
  BY <1>3, <1>4 DEF UserCleans, Begin
<1>5. CASE NetCleans
  BY <1>3, <1>5 DEF NetCleans, Begin
<1>6. CASE UserFinishes \/ NetFinishes
  BY <1>0, <1>6 DEF UserFinishes, NetFinishes, Finish, LoggedOut, netVars
<1>7. CASE HandlerConnects
  <2>1. handlers # <<>> /\ lock = "free" /\ net' = net /\ logged_in_' = logged_in_
    BY <1>7 DEF HandlerConnects, HandlerLocks
  <2>2. NetEnded
    BY <1>0, <2>1 DEF OneAttempt
  <2>3. connection_ = NoConnection
    BY <1>0, <2>1, <2>2 DEF Owned, NetEnded
  <2>4. ~ logged_in_
    BY <1>0, <2>1, <2>2, <2>3 DEF NetEnded
  <2>5. QED BY <2>1, <2>2, <2>4 DEF NetEnded
<1>8. CASE HandlerJoined
  <2>1. connection_ # NoConnection /\ net' = "start" /\ UNCHANGED <<connection_, logged_in_>>
    BY <1>0, <1>8 DEF HandlerJoined, Owned
  <2>2. QED BY <1>0, <2>1
<1>9. CASE NetStarts \/ NetLoops \/ NetCallback \/ NetJoinedPing
  <2>1. UNCHANGED <<connection_, logged_in_>> /\ net # "finish" /\ net' # "login"
    BY <1>9 DEF NetStarts, NetLoops, NetCallback, NetJoinedPing
  <2>2. lock' = lock \/ lock # "user"
    BY <1>0, <1>9 DEF NetStarts, NetLoops, NetCallback, NetJoinedPing, Locked
  <2>3. QED BY <1>0, <2>1, <2>2
<1>10. CASE NetPolls
  <2>1. UNCHANGED <<lock, logged_in_>> /\ net = "poll"
    BY <1>10 DEF NetPolls
  <2>2. CASE connection_.login = "accepting"
    <3>1. connection_'.login = "accepted" /\ connection_' # NoConnection
      BY <1>0, <1>10, <2>2 DEF NetPolls, LinkTypeOK, Link, NoConnection
    <3>2. QED BY <3>1
  <2>3. CASE connection_.login # "accepting"
    <3>1. connection_' = connection_ /\ net' = "callbacks"
      BY <1>10, <2>3 DEF NetPolls
    <3>2. QED BY <1>0, <2>1, <3>1
  <2>4. QED BY <2>2, <2>3
<1>11. CASE NetLogsIn
  <2>1. connection_ # NoConnection /\ net = "login"
    BY <1>11 DEF NetLogsIn, Mishap, lost
  <2>2. net' = "callbacks" /\ connection_' = connection_
    BY <1>11 DEF NetLogsIn
  <2>3. QED BY <1>0, <2>1, <2>2
<1>12. CASE NetRequests
  <2>1. connection_ # NoConnection /\ net = "on connected" /\ lock = "free" /\ net' = "join ping"
        /\ logged_in_' = logged_in_
    BY <1>12 DEF NetRequests, Mishap, lost
  <2>2. ~ logged_in_
    BY <1>0, <2>1 DEF ConnectedOnce
  <2>3. QED BY <2>1, <2>2
<1>13. CASE LibraryStep
  <2>1. UNCHANGED <<lock, net, logged_in_>>
    BY <1>13 DEF LibraryStep, Established, ServerAccepts, Ends, libraryOnly
  <2>2. connection_.state \in {"connecting", "connected"}
    BY <1>13 DEF LibraryStep, Established, ServerAccepts, Ends
  <2>3. connection_ # NoConnection
    BY <2>2 DEF NoConnection
  <2>4. CASE ServerAccepts
    <3>1. connection_.login # "accepted"
      BY <2>4 DEF ServerAccepts
    <3>2. QED BY <1>0, <2>1, <2>3, <3>1
  <2>5. CASE Established \/ Ends
    <3>1. connection_'.login = connection_.login /\ connection_'.state # "none"
      BY <1>0, <2>5 DEF Established, Ends, LinkTypeOK, Link
    <3>2. connection_' # NoConnection
      BY <3>1 DEF NoConnection
    <3>3. QED BY <1>0, <2>1, <2>3, <3>1, <3>2
  <2>6. QED BY <1>13, <2>4, <2>5 DEF LibraryStep
<1>14. QED BY LinkSteps, ThreadSteps, <1>1, <1>2, <1>4, <1>5, <1>6, <1>7, <1>8, <1>9, <1>10, <1>11,
              <1>12, <1>13 DEF NetStep

LEMMA PingsOnceStep ==
  ASSUME TypeOK, Control, Next, ~ lost'
  PROVE  PingsOnce'
<1>0. PingsOnce /\ LoginsAccepted /\ ConnectedOnce /\ OneAttempt /\ Owned /\ Locked
      /\ LinkTypeOK /\ ThreadTypeOK
  BY DEF Control, TypeOK
<1> USE DEF PingsOnce
<1>1. ASSUME callbacks' = callbacks PROVE NoneUp' <=> NoneUp
  BY <1>1 DEF NoneUp, Up
<1>2. CASE UNCHANGED linkVars /\ UNCHANGED threadVars
  BY <1>0, <1>1, <1>2 DEF linkVars, threadVars
<1>3. CASE PingStep
  <2>1. UNCHANGED <<net, logged_in_, connection_, callbacks>>
    BY <1>3 DEF PingStep, PingWaits, PingEnds, pingOnly, netVars
  <2>2. ping' \in {"starting", "waiting"} => ping \in {"starting", "waiting"}
    BY <1>3 DEF PingStep, PingWaits, PingEnds
  <2>3. QED BY <1>0, <1>1, <2>1, <2>2
<1>4. ASSUME NEW who, Begin(who) PROVE ping' \notin {"starting", "waiting"}
  BY <1>0, <1>4 DEF Begin, Notified, Mishap, lost, ThreadTypeOK
<1>5. CASE UserCleans \/ NetCleans
  <2>1. ping' \notin {"starting", "waiting"}
    BY <1>4, <1>5 DEF UserCleans, NetCleans
  <2>2. net' # "join ping"
    BY <1>0, <1>5 DEF UserCleans, NetCleans, Begin, Locked
  <2>3. QED BY <2>1, <2>2
<1>6. CASE UserFinishes \/ NetFinishes
  <2>1. UNCHANGED <<connection_, callbacks, ping>> /\ ((net' # "join ping" /\ net' # "on connected") \/ net' = net)
    BY <1>6 DEF UserFinishes, NetFinishes, Finish, netVars
  <2>2. UNCHANGED <<connection_, callbacks, ping>> /\ logged_in_' = FALSE
    BY <1>6 DEF UserFinishes, NetFinishes, Finish, LoggedOut, netVars
  <2>3. QED BY <1>0, <1>1, <2>1, <2>2
<1>7. CASE HandlerConnects
  <2>1. handlers # <<>> /\ lock = "free" /\ UNCHANGED <<net, ping>>
    BY <1>7 DEF HandlerConnects, HandlerLocks
  <2>2. NetEnded
    BY <1>0, <2>1 DEF OneAttempt
  <2>3. connection_ = NoConnection
    BY <1>0, <2>1, <2>2 DEF Owned, NetEnded
  <2>4. QED BY <1>0, <2>1, <2>2, <2>3 DEF NetEnded
<1>8. CASE HandlerJoined \/ NetStarts \/ NetLoops
  <2>1. UNCHANGED <<connection_, callbacks, ping>> /\ net' \notin {"join ping", "on connected"}
    BY <1>8 DEF HandlerJoined, NetStarts, NetLoops
  <2>2. QED BY <1>0, <1>1, <2>1
<1>9. CASE NetPolls
  <2>1. connection_'.state = connection_.state
    BY <1>0, <1>9 DEF NetPolls, LinkTypeOK, Link
  <2>2. UNCHANGED <<callbacks, ping>> /\ net' \notin {"join ping", "on connected"}
    BY <1>9 DEF NetPolls
  <2>3. connection_ # NoConnection => connection_' # NoConnection
    BY <1>0, <2>1, NoFields DEF Owned
  <2>4. QED BY <1>0, <1>1, <2>1, <2>2, <2>3
<1>10. CASE NetLogsIn
  <2>1. UNCHANGED <<connection_, callbacks>> /\ net' \notin {"join ping", "on connected"}
    BY <1>10 DEF NetLogsIn
  <2>2. ping' \in {"starting", "waiting"} => ping \in {"starting", "waiting"}
    BY <1>10 DEF NetLogsIn, Notified
  <2>3. QED BY <1>0, <1>1, <2>1, <2>2
<1>11. CASE NetCallback
  <2>1. callbacks # <<>> /\ callbacks' = Tail(callbacks) /\ UNCHANGED <<connection_, ping>>
    BY <1>11 DEF NetCallback
  <2>2. NoneUp => NoneUp' /\ Head(callbacks).state # "connected"
    BY <1>0, <2>1, TakenCallback
  <2>3. net' # "join ping" /\ (net' = "on connected" => Head(callbacks).state = "connected")
    BY <1>11 DEF NetCallback
  <2>4. QED BY <1>0, <2>1, <2>2, <2>3
<1>12. CASE NetRequests
  <2>1. connection_ # NoConnection /\ net = "on connected" /\ net' = "join ping"
        /\ UNCHANGED <<callbacks, ping, logged_in_>>
    BY <1>12 DEF NetRequests, Mishap, lost
  <2>2. NoneUp /\ connection_.state # "connecting" /\ connection_.login = "none"
        /\ ping \notin {"starting", "waiting"}
    BY <1>0, <2>1 DEF ConnectedOnce
  <2>3. ~ logged_in_
    BY <1>0, <2>1, <2>2 DEF LoginsAccepted
  <2>4. connection_'.state = connection_.state
    BY <1>0, <1>12, LinkFields DEF NetRequests, LinkTypeOK
  <2>5. connection_' # NoConnection
    BY <1>0, <2>1, <2>4, NoFields DEF Owned
  <2>6. QED BY <1>1, <2>1, <2>2, <2>3, <2>4, <2>5
<1>13. CASE NetJoinedPing
  <2>1. net = "join ping" /\ net' = "callbacks" /\ UNCHANGED <<connection_, callbacks>>
    BY <1>13 DEF NetJoinedPing
  <2>2. QED BY <1>0, <1>1, <2>1
<1>14. CASE LibraryStep
  <2>1. UNCHANGED <<net, logged_in_, ping>>
    BY <1>14 DEF LibraryStep, Established, ServerAccepts, Ends, libraryOnly
  <2>2. CASE Established
    BY <1>0, <2>1, <2>2 DEF Established
  <2>3. CASE ServerAccepts
    <3>1. connection_'.state = "connected" /\ callbacks' = callbacks
      BY <1>0, <2>3 DEF ServerAccepts, LinkTypeOK, Link
    <3>2. connection_' # NoConnection
      BY <3>1 DEF NoConnection
    <3>3. QED BY <1>0, <1>1, <2>1, <3>1, <3>2
  <2>4. CASE Ends
    <3>1. connection_'.state = "ended"
      BY <1>0, <2>4 DEF Ends, LinkTypeOK, Link
    <3>2. connection_' # NoConnection
      BY <3>1 DEF NoConnection
    <3>3. PICK state \in {"closed by peer", "problem"}, reason \in Reason :
            callbacks' = Append(callbacks, Ended(state, reason))
      BY <2>4 DEF Ends
    <3>4. Ended(state, reason) \in Change /\ Ended(state, reason).state # "connected"
      BY DEF Ended, Change
    <3>5. NoneUp' <=> NoneUp
      BY <1>0, <3>3, <3>4, AddedCallback
    <3>6. QED BY <1>0, <2>1, <3>1, <3>2, <3>5
  <2>5. QED BY <1>14, <2>2, <2>3, <2>4 DEF LibraryStep
<1>15. QED BY LinkSteps, ThreadSteps, <1>2, <1>3, <1>5, <1>6, <1>7, <1>8, <1>9, <1>10, <1>11,
              <1>12, <1>13, <1>14 DEF NetStep

LEMMA AddedTo ==
  ASSUME NEW S, NEW s \in Seq(S), NEW e \in S, To(s), e.to = server_addr_
  PROVE  To(Append(s, e))
<1>1. Len(s) \in Nat /\ DOMAIN s = 1..Len(s)
  BY LenProperties
<1>2. Append(s, e) \in Seq(S) /\ Len(Append(s, e)) = Len(s) + 1 /\ Append(s, e)[Len(s) + 1] = e
      /\ \A i \in 1..Len(s) : Append(s, e)[i] = s[i]
  BY AppendProperties
<1>3. DOMAIN Append(s, e) = 1..Len(s) + 1
  BY <1>2, LenProperties
<1>4. QED BY <1>1, <1>2, <1>3 DEF To

LEMMA TakenTo ==
  ASSUME NEW S, NEW s \in Seq(S), s # <<>>, To(s)
  PROVE  To(Tail(s)) /\ Head(s).to = server_addr_ /\ Head(s) \in S /\ Tail(s) \in Seq(S)
<1>1. Len(s) \in Nat \ {0} /\ DOMAIN s = 1..Len(s)
  BY LenProperties, EmptySeq
<1>2. Tail(s) \in Seq(S) /\ Len(Tail(s)) = Len(s) - 1 /\ Head(s) \in S
      /\ \A i \in 1..Len(s) - 1 : Tail(s)[i] = s[i + 1]
  BY <1>1, HeadTailProperties
<1>3. DOMAIN Tail(s) = 1..Len(s) - 1
  BY <1>2, LenProperties
<1>4. ASSUME NEW i \in DOMAIN Tail(s) PROVE Tail(s)[i].to = server_addr_
  <2>1. i + 1 \in DOMAIN s /\ Tail(s)[i] = s[i + 1]
    BY <1>1, <1>2, <1>3
  <2>2. QED BY <2>1 DEF To
<1>5. 1 \in DOMAIN s /\ Head(s) = s[1]
  BY <1>1
<1>6. QED BY <1>2, <1>4, <1>5 DEF To

LEMMA AllToStep ==
  ASSUME TypeOK, Control, Next, ~ lost'
  PROVE  AllTo'
<1>0. AllTo /\ OneAttempt /\ Owned /\ LinkTypeOK /\ ResolverTypeOK
  BY DEF Control, TypeOK
<1>1. "abandoned" \in mishaps => "abandoned" \in mishaps'
  <2>1. UNCHANGED mishaps \/ (\E b, n : Mishap(b, n)) \/ mishaps \subseteq mishaps'
    BY Steps DEF Quiet, Command, Connect, Disconnect, ModifyConfig, UserSlept, PingStep,
       PingWaits, PingEnds, pingOnly, UserCleans, UserFinishes, Begin, Finish, UserConnects, TaskConnects,
       Attempt, PoolStep, RunReturns, Handler, NothingFound, HandlerConnects, HandlerJoined,
       Resolve, resolverOnly, NetQuiet, NetStarts, NetLoops, NetPolls, NetLogsIn, NetCallback,
       NetOwns, NetRequests, NetJoinedPing, NetCleans, NetFinishes, TaskWakes, taskOnly,
       LibraryStep, Established, ServerAccepts, Ends, libraryOnly
  <2>2. QED BY <2>1 DEF Mishap
<1> SUFFICES ASSUME "abandoned" \notin mishaps'
             PROVE  /\ To(ops)' /\ To(completions)' /\ To(handlers)'
                    /\ connection_' # NoConnection => connection_'.to = server_addr_'
  BY DEF AllTo
<1>2. /\ To(ops) /\ To(completions) /\ To(handlers)
      /\ connection_ # NoConnection => connection_.to = server_addr_
  BY <1>0, <1>1 DEF AllTo
<1>3. ASSUME server_addr_' = server_addr_
      PROVE  /\ ops' = ops => To(ops)'
             /\ completions' = completions => To(completions)'
             /\ handlers' = handlers => To(handlers)'
             /\ connection_' = connection_ =>
                  (connection_' # NoConnection => connection_'.to = server_addr_')
  BY <1>2, <1>3 DEF To
<1>4. CASE UNCHANGED <<server_addr_, ops, completions, handlers, connection_>>
  BY <1>3, <1>4
<1>5. CASE Quiet \/ UserFinishes \/ RunReturns \/ TaskWakes
  BY <1>4, <1>5 DEF Quiet, Command, Connect, Disconnect, ModifyConfig, UserSlept, PingStep,
       PingWaits, PingEnds, pingOnly, UserFinishes, RunReturns, resolverOnly, TaskWakes, taskOnly,
       resolverVars, netVars
<1>6. CASE NetStarts \/ NetLoops \/ NetLogsIn \/ NetCallback \/ NetJoinedPing \/ NetFinishes
  BY <1>4, <1>6 DEF NetStarts, NetLoops, NetLogsIn, NetCallback, NetJoinedPing, NetFinishes,
       netOnly, resolverVars
<1>7. CASE UserCleans \/ NetCleans
  <2>1. UNCHANGED <<server_addr_, ops, completions, handlers>>
        /\ connection_' \in {connection_, NoConnection}
    BY <1>7 DEF UserCleans, NetCleans, Begin, Closed, netOnly, resolverVars
  <2>2. QED BY <1>3, <2>1
<1>8. ASSUME NEW a \in Address, Attempt(a)
      PROVE  /\ To(ops)' /\ To(completions)' /\ To(handlers)'
             /\ connection_' # NoConnection => connection_'.to = server_addr_'
  <2>1. handlers = <<>> /\ NetEnded /\ lock # "handler"
    BY <1>8, NoOverlap
  <2>2. ops = <<>> /\ completions = <<>>
    BY <1>8 DEF Attempt, Abandoned
  <2>3. handlers' = <<>> /\ completions' = <<>> /\ connection_' = connection_ /\ server_addr_' = a
    BY <1>8, <2>1, <2>2 DEF Attempt, netVars
  <2>4. connection_ = NoConnection
    BY <1>0, <2>1 DEF Owned, NetEnded
  <2>5. \A i \in DOMAIN ops' : ops'[i].to = a
    BY <1>8, <2>2, AttemptOps
  <2>6. QED BY <2>3, <2>4, <2>5 DEF To
<1>9. CASE UserConnects \/ TaskConnects
  BY <1>8, <1>9 DEF UserConnects, TaskConnects, TypeOK, PlayerTypeOK
<1>10. CASE Resolve
  <2>1. UNCHANGED <<server_addr_, handlers, connection_>> /\ ops # <<>> /\ ops' = Tail(ops)
    BY <1>10 DEF Resolve, resolverOnly, netVars
  <2>2. PICK found \in BOOLEAN : completions' = Append(completions,
               [to |-> Head(ops).to, ok |-> found /\ ~ Head(ops).canceled])
    BY <1>10 DEF Resolve
  <2> DEFINE e == [to |-> Head(ops).to, ok |-> found /\ ~ Head(ops).canceled]
  <2>3. To(Tail(ops)) /\ Head(ops).to = server_addr_ /\ Head(ops) \in Request
    BY <1>0, <1>2, <2>1, TakenTo DEF ResolverTypeOK
  <2>4. e \in Completion /\ e.to = server_addr_
    BY <2>3 DEF Request, Completion
  <2> HIDE DEF e
  <2>5. completions' = Append(completions, e)
    BY <2>2 DEF e
  <2>6. To(Append(completions, e))
    BY <1>0, <1>2, <2>4, AddedTo DEF ResolverTypeOK
  <2>7. To(ops)' /\ To(completions)'
    BY <2>1, <2>3, <2>5, <2>6 DEF To
  <2>8. QED BY <1>3, <2>1, <2>7
<1>11. CASE Handler
  <2>1. UNCHANGED <<server_addr_, ops, connection_>> /\ completions # <<>>
        /\ completions' = Tail(completions) /\ handlers' = Append(handlers, Head(completions))
    BY <1>11 DEF Handler, resolverOnly, netVars
  <2>2. To(Tail(completions)) /\ Head(completions).to = server_addr_ /\ Head(completions) \in Completion
    BY <1>0, <1>2, <2>1, TakenTo DEF ResolverTypeOK
  <2>3. To(Append(handlers, Head(completions)))
    BY <1>0, <1>2, <2>2, AddedTo DEF ResolverTypeOK
  <2>4. To(completions)' /\ To(handlers)'
    BY <2>1, <2>2, <2>3 DEF To
  <2>5. QED BY <1>3, <2>1, <2>4
<1>12. ASSUME NEW i \in DOMAIN handlers, HandlerLocks(i) PROVE To(handlers)'
  <2>1. handlers' = <<>>
    BY <1>0, <1>12, RemovedType DEF HandlerLocks, OneAttempt, ResolverTypeOK
  <2>2. QED BY <2>1 DEF To
<1>13. CASE NothingFound
  <2>1. UNCHANGED <<server_addr_, ops, completions, connection_>>
    BY <1>13 DEF NothingFound, resolverOnly, netVars
  <2>2. To(handlers)'
    BY <1>12, <1>13 DEF NothingFound
  <2>3. QED BY <1>3, <2>1, <2>2
<1>14. CASE HandlerConnects
  <2>1. PICK i \in DOMAIN handlers : HandlerConnects!(i)
    BY <1>14 DEF HandlerConnects
  <2>2. UNCHANGED <<server_addr_, ops, completions>> /\ connection_'.to = handlers[i].to
    BY <2>1
  <2>3. To(handlers)'
    BY <1>12, <2>1
  <2>4. QED BY <1>2, <1>3, <2>2, <2>3 DEF To
<1>15. CASE HandlerJoined
  <2>1. ops' = Canceled /\ UNCHANGED <<server_addr_, completions, handlers, connection_>>
    BY <1>15 DEF HandlerJoined
  <2>2. Canceled \in Seq(Request) /\ Len(Canceled) = Len(ops)
        /\ \A i \in DOMAIN ops : Canceled[i].to = ops[i].to
    BY <1>0, CanceledType DEF ResolverTypeOK
  <2>3. DOMAIN Canceled = DOMAIN ops
    BY DEF Canceled
  <2>4. To(ops)'
    BY <1>2, <2>1, <2>2, <2>3 DEF To
  <2>5. QED BY <1>3, <2>1, <2>4
<1>16. CASE NetPolls \/ NetRequests \/ LibraryStep
  <2>1. UNCHANGED <<server_addr_, ops, completions, handlers>>
    BY <1>16 DEF NetPolls, NetRequests, netOnly, LibraryStep, Established, ServerAccepts, Ends,
                 libraryOnly, resolverVars
  <2>2. /\ [connection_ EXCEPT !.login = "accepted"].to = connection_.to
        /\ [connection_ EXCEPT !.login = "requested"].to = connection_.to
        /\ [connection_ EXCEPT !.login = "accepting"].to = connection_.to
        /\ [connection_ EXCEPT !.state = "connected"].to = connection_.to
        /\ [connection_ EXCEPT !.state = "ended"].to = connection_.to
    BY <1>0 DEF LinkTypeOK, Link
  <2>3. connection_'.to = connection_.to
    <3>1. CASE NetPolls
      BY <2>2, <3>1 DEF NetPolls
    <3>2. CASE NetRequests
      BY <2>2, <3>2 DEF NetRequests
    <3>3. CASE LibraryStep
      BY <2>2, <3>3 DEF LibraryStep, Established, ServerAccepts, Ends
    <3>4. QED BY <1>16, <3>1, <3>2, <3>3
  <2>4. connection_ = NoConnection => connection_' = connection_
    BY <1>16, NoFields DEF NetPolls, NetRequests, LibraryStep, Established, ServerAccepts, Ends
  <2>5. QED BY <1>2, <1>3, <2>1, <2>3, <2>4
<1>17. QED BY Steps, <1>5, <1>6, <1>7, <1>9, <1>10, <1>11, <1>13, <1>14, <1>15, <1>16
          DEF PoolStep, NetQuiet, NetOwns

-----------------------------------------------------------------------------
(* The theorems.                                                           *)

LEMMA ControlInit == Init => Control
<1> SUFFICES ASSUME Init PROVE Control
  OBVIOUS
<1>1. Len(handlers) = 0
  BY EmptySeq DEF Init
<1>2. OneAttempt /\ Owned /\ Locked
  BY <1>1, NoFields DEF Init, OneAttempt, Owned, Locked, NetEnded
<1>3. NoneUp /\ OnceUp
  BY DEF Init, NoneUp, OnceUp
<1>4. ConnectedOnce /\ LoginsAccepted /\ PingsOnce
  BY <1>3, NoFields DEF Init, ConnectedOnce, LoginsAccepted, PingsOnce
<1>5. AllTo
  BY DEF Init, AllTo, To
<1>6. QED BY <1>2, <1>4, <1>5 DEF Control

LEMMA Stutters == UNCHANGED vars => (Control' <=> Control) /\ (lost' <=> lost)
<1> SUFFICES ASSUME UNCHANGED vars PROVE (Control' <=> Control) /\ (lost' <=> lost)
  OBVIOUS
<1> USE DEF vars, userVars, resolverVars, netVars, taskVars, bounds
<1>1. (OneAttempt' <=> OneAttempt) /\ (Owned' <=> Owned) /\ (Locked' <=> Locked)
  BY DEF OneAttempt, Owned, Locked, NetEnded
<1>2. (NoneUp' <=> NoneUp) /\ (OnceUp' <=> OnceUp)
  BY DEF NoneUp, OnceUp, Up
<1>3. (ConnectedOnce' <=> ConnectedOnce) /\ (LoginsAccepted' <=> LoginsAccepted)
      /\ (PingsOnce' <=> PingsOnce)
  BY <1>2 DEF ConnectedOnce, LoginsAccepted, PingsOnce
<1>4. AllTo' <=> AllTo
  BY DEF AllTo, To
<1>5. lost' <=> lost
  BY DEF lost
<1>6. QED BY <1>1, <1>3, <1>4, <1>5 DEF Control

LEMMA Invariance == Spec => []IInv
<1>1. Init => IInv
  BY TypeInit, ControlInit DEF IInv
<1>2. ASSUME IInv, Next PROVE IInv'
  <2>1. TypeOK'
    BY <1>2, PlayerType, ResolverType, LinkType, ThreadType, TaskType DEF IInv, TypeOK
  <2>2. ASSUME ~ lost' PROVE Control'
    <3>1. TypeOK /\ Control
      BY <1>2 DEF IInv, Next
    <3>2. QED BY <1>2, <2>2, <3>1, OneAttemptStep, OwnedStep, LockedStep, ConnectedOnceStep,
                 LoginsAcceptedStep, PingsOnceStep, AllToStep DEF Control
  <2>3. QED BY <2>1, <2>2 DEF IInv
<1>3. ASSUME IInv, UNCHANGED vars PROVE IInv'
  BY <1>3, TypeStutters, Stutters DEF IInv
<1>4. QED BY <1>1, <1>2, <1>3, PTL DEF Spec

(* The game shows the player as connected only when the server has         *)
(* accepted the login on this very connection.                             *)
THEOREM AcceptedHere == Spec => []ConnectedIsAccepted
<1>1. IInv => ConnectedIsAccepted
  <2> SUFFICES ASSUME Control, connected PROVE connection_.login = "accepted"
    BY DEF IInv, ConnectedIsAccepted
  <2>1. estate_ = "connected" /\ logged_in_
    BY DEF connected
  <2>2. connection_ # NoConnection
    BY <2>1 DEF Control, Owned
  <2>3. QED BY <2>1, <2>2 DEF Control, LoginsAccepted
<1>2. QED BY Invariance, <1>1, PTL

(* The connection leads where the player, or the reconnection, asked last. *)
THEOREM LeadsWhereAsked == Spec => []WhereAsked
<1>1. IInv => WhereAsked
  BY DEF IInv, Control, AllTo, WhereAsked
<1>2. QED BY Invariance, <1>1, PTL

(* Whoever joins a thread while it holds bml_mtx_ joins one that is past   *)
(* every wait of its own: the network thread has ended, and the ping       *)
(* thread has ended or is about to, for it finds the player disconnected.  *)
JoinsReturn ==
  ~ lost =>
    /\ lock = "handler" => NetEnded
    /\ net = "join ping" => PingEnded \/ (ping = "looping" /\ ~ connected)

THEOREM JoinsAreShort == Spec => []JoinsReturn
<1>1. IInv => JoinsReturn
  BY DEF IInv, TypeOK, ThreadTypeOK, Control, OneAttempt, PingsOnce, JoinsReturn, PingEnded, connected
<1>2. QED BY Invariance, <1>1, PTL
=============================================================================
