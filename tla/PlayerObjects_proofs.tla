------------------------- MODULE PlayerObjects_proofs ------------------------
(***************************************************************************)
(* Theorems about PlayerObjects: no frame reads a ball that is not there,  *)
(* and what is drawn goes with the players, for any number of players,     *)
(* levels, keys, commands, logins and cheat modes.  The argument is about  *)
(* what each thread has left to do: which steps hold which lock, what must *)
(* follow a step, and what an object or an entry still waits for.          *)
(***************************************************************************)
EXTENDS PlayerObjects, SequenceTheorems, TLAPS

-----------------------------------------------------------------------------
(* The types.                                                              *)

OpsOf(t) ==
  CASE t = "game" -> {"read", "unset", "update", "check", "draw", "drawn", "players", "init", "made",
                      "start", "destroy", "toggle", "object", "entry", "no entry", "no object",
                      "unlock"}
    [] t = "net" -> {"clear", "destroy", "fill", "unlock", "write"}
    [] t = "console" -> {"destroy", "players", "init", "made", "no entry", "no object", "clear",
                         "log out", "unlock"}
Op == OpsOf("game") \cup OpsOf("net") \cup OpsOf("console")
Step == [op : Op, ids : SUBSET Id] \cup [op : {"write"}, ids : SUBSET Id, cheated : SUBSET BOOLEAN]
Object == [balls : BOOLEAN, label : {NoLabel, Label(TRUE), Label(FALSE)}]

StoreTypeOK ==
  /\ DOMAIN states_ \subseteq Id /\ \A id \in DOMAIN states_ : states_[id] \in BOOLEAN
  /\ DOMAIN objects_ \subseteq Id /\ \A id \in DOMAIN objects_ : objects_[id] \in Object
  /\ pending_cheat_flush_ \in BOOLEAN /\ revived \subseteq Id

GameTypeOK ==
  /\ template_init_ \in BOOLEAN /\ ingame \in BOOLEAN /\ flush \in BOOLEAN
  /\ crashed \in BOOLEAN /\ crossed \in BOOLEAN /\ stranded \in BOOLEAN
  /\ scheduled \subseteq Id
  /\ left \in [{"levels", "commands", "logins", "cheats"} -> Nat]

SessionTypeOK ==
  /\ logged_in_ \in BOOLEAN /\ batch \in BOOLEAN /\ own_ball_visible_ \in BOOLEAN
  /\ gone \subseteq Peer
  /\ bml_mtx_ \in Thread \cup {Free} /\ db_mutex \in Thread \cup {Free}

CodeTypeOK == code \in [Thread -> Seq(Step)]

TypeOK == StoreTypeOK /\ GameTypeOK /\ SessionTypeOK /\ CodeTypeOK

-----------------------------------------------------------------------------
(* What a thread has left to do, as the actions change it.                 *)

Steps(s) == {s[i] : i \in DOMAIN s}

(* Nothing follows the step that gives the last lock back; db_ is given    *)
(* back when nothing else needs it; and what must follow does.             *)
Closes == {"unlock", "drawn", "update", "start", "toggle", "write"}
Ends(s) == \A i \in DOMAIN s : s[i].op \in Closes => i = Len(s)
First(s) == \A i \in DOMAIN s : s[i].op = "draw" => i = 1
Only(s, a, b) == \A i, j \in DOMAIN s : s[i].op = a /\ j > i => s[j].op = b
Then(s, a, b) == \A i \in DOMAIN s : s[i].op = a => i + 1 \in DOMAIN s /\ s[i + 1].op = b
Orderly(s) ==
  /\ Ends(s) /\ First(s)
  /\ Only(s, "players", "start") /\ Only(s, "made", "start") /\ Only(s, "log out", "unlock")
  /\ Then(s, "clear", "destroy") /\ Then(s, "no entry", "no object") /\ Then(s, "object", "entry")

LEMMA SOf ==
  ASSUME NEW op \in Op, NEW ids \in SUBSET Id
  PROVE  S(op) \in Step /\ Of(op, ids) \in Step /\ S(op).op = op /\ Of(op, ids).op = op
         /\ S(op).ids = {} /\ Of(op, ids).ids = ids
BY DEF S, Of, Step

LEMMA OpNames ==
  /\ {"read", "unset", "update", "check", "draw", "drawn", "players", "init", "made",
      "start", "destroy", "toggle", "object", "entry", "no entry", "no object", "unlock"} \subseteq Op
  /\ {"clear", "fill", "write", "log out"} \subseteq Op
BY DEF Op, OpsOf

(* The first step is taken off. *)
LEMMA Beheaded ==
  ASSUME NEW s \in Seq(Step), s # <<>>
  PROVE  /\ Tail(s) \in Seq(Step) /\ Head(s) \in Step
         /\ DOMAIN s = 1..Len(s) /\ Len(s) \in Nat \ {0} /\ Head(s) = s[1] /\ 1 \in DOMAIN s
         /\ DOMAIN Tail(s) = 1..Len(s) - 1 /\ Len(Tail(s)) = Len(s) - 1
         /\ \A i \in DOMAIN Tail(s) : i + 1 \in DOMAIN s /\ Tail(s)[i] = s[i + 1]
         /\ \A i \in DOMAIN s : i # 1 => i - 1 \in DOMAIN Tail(s) /\ Tail(s)[i - 1] = s[i]
<1>1. DOMAIN s = 1..Len(s) /\ Len(s) \in Nat \ {0}
  BY LenProperties, EmptySeq
<1>2. Tail(s) \in Seq(Step) /\ Head(s) \in Step /\ Len(Tail(s)) = Len(s) - 1
      /\ \A i \in 1..Len(s) - 1 : Tail(s)[i] = s[i + 1]
  BY <1>1, HeadTailProperties
<1>3. DOMAIN Tail(s) = 1..Len(s) - 1
  BY <1>2, LenProperties
<1>4. Head(s) = s[1] /\ 1 \in DOMAIN s
  BY <1>1
<1>5. \A i \in DOMAIN Tail(s) : i + 1 \in DOMAIN s /\ Tail(s)[i] = s[i + 1]
  BY <1>1, <1>2, <1>3
<1>6. ASSUME NEW i \in DOMAIN s, i # 1 PROVE i - 1 \in DOMAIN Tail(s) /\ Tail(s)[i - 1] = s[i]
  <2>1. i - 1 \in 1..Len(s) - 1 /\ (i - 1) + 1 = i
    BY <1>1, <1>6
  <2>2. QED BY <1>2, <1>3, <2>1
<1>7. QED BY <1>1, <1>2, <1>3, <1>4, <1>5, <1>6

LEMMA TailSteps ==
  ASSUME NEW s \in Seq(Step), s # <<>>
  PROVE  Steps(s) = {Head(s)} \cup Steps(Tail(s)) /\ Steps(s) \subseteq Step
<1>1. Steps(s) \subseteq {Head(s)} \cup Steps(Tail(s))
  <2>1. ASSUME NEW i \in DOMAIN s PROVE s[i] \in {Head(s)} \cup Steps(Tail(s))
    <3>1. CASE i = 1
      BY <3>1, Beheaded
    <3>2. CASE i # 1
      BY <2>1, <3>2, Beheaded DEF Steps
    <3>3. QED BY <3>1, <3>2
  <2>2. QED BY <2>1 DEF Steps
<1>2. {Head(s)} \cup Steps(Tail(s)) \subseteq Steps(s)
  BY Beheaded DEF Steps
<1>3. Steps(s) \subseteq Step
  BY ElementOfSeq, LenProperties DEF Steps
<1>4. QED BY <1>1, <1>2, <1>3

LEMMA TailOrderly ==
  ASSUME NEW s \in Seq(Step), s # <<>>, Orderly(s)
  PROVE  /\ Orderly(Tail(s))
         /\ Head(s).op \in Closes => Tail(s) = <<>>
         /\ Head(s).op \in {"players", "made"} => \A x \in Steps(Tail(s)) : x.op = "start"
         /\ Head(s).op = "log out" => \A x \in Steps(Tail(s)) : x.op = "unlock"
         /\ Head(s).op = "clear" => \E x \in Steps(Tail(s)) : x.op = "destroy"
         /\ Head(s).op = "no entry" => \E x \in Steps(Tail(s)) : x.op = "no object"
         /\ Head(s).op = "object" => Tail(s) # <<>> /\ Head(Tail(s)).op = "entry"
         /\ \A x \in Steps(Tail(s)) : x.op # "draw"
<1> DEFINE u == Tail(s)
<1>1. DOMAIN s = 1..Len(s) /\ Len(s) \in Nat \ {0} /\ Head(s) = s[1] /\ 1 \in DOMAIN s
      /\ u \in Seq(Step) /\ DOMAIN u = 1..Len(s) - 1 /\ Len(u) = Len(s) - 1
  BY Beheaded
<1>2. \A i \in DOMAIN u : i + 1 \in DOMAIN s /\ u[i] = s[i + 1]
  BY Beheaded
<1>3. \A i \in DOMAIN s : i # 1 => i - 1 \in DOMAIN u /\ u[i - 1] = s[i]
  BY Beheaded
<1> HIDE DEF u
<1>4. Ends(u)
  <2>1. ASSUME NEW i \in DOMAIN u, u[i].op \in Closes PROVE i = Len(u)
    <3>1. i + 1 = Len(s)
      BY <1>2, <2>1 DEF Orderly, Ends
    <3>2. QED BY <1>1, <2>1, <3>1
  <2>2. QED BY <2>1 DEF Ends
<1>5. \A i \in DOMAIN u : u[i].op # "draw"
  <2>1. ASSUME NEW i \in DOMAIN u PROVE i + 1 # 1
    BY <1>1, <2>1
  <2>2. QED BY <1>2, <2>1 DEF Orderly, First
<1>6. ASSUME NEW a, NEW b, Only(s, a, b)
      PROVE  Only(u, a, b) /\ (Head(s).op = a => \A i \in DOMAIN u : u[i].op = b)
  <2>1. ASSUME NEW i \in DOMAIN u, NEW j \in DOMAIN u, u[i].op = a, j > i PROVE u[j].op = b
    <3>1. i + 1 \in DOMAIN s /\ j + 1 \in DOMAIN s /\ j + 1 > i + 1
      BY <1>1, <1>2, <2>1
    <3>2. QED BY <1>2, <1>6, <2>1, <3>1 DEF Only
  <2>2. ASSUME Head(s).op = a, NEW j \in DOMAIN u PROVE u[j].op = b
    <3>1. j + 1 \in DOMAIN s /\ j + 1 > 1
      BY <1>1, <1>2, <2>2
    <3>2. QED BY <1>1, <1>2, <1>6, <2>2, <3>1 DEF Only
  <2>3. QED BY <2>1, <2>2 DEF Only
<1>7. ASSUME NEW a, NEW b, Then(s, a, b)
      PROVE  /\ Then(u, a, b)
             /\ Head(s).op = a => 1 \in DOMAIN u /\ u[1].op = b
  <2>1. ASSUME NEW i \in DOMAIN u, u[i].op = a PROVE i + 1 \in DOMAIN u /\ u[i + 1].op = b
    <3>1. i + 1 \in DOMAIN s /\ s[i + 1].op = a
      BY <1>2, <2>1
    <3>2. (i + 1) + 1 \in DOMAIN s /\ s[(i + 1) + 1].op = b
      BY <1>7, <3>1 DEF Then
    <3>3. i + 1 \in DOMAIN u
      BY <1>1, <2>1, <3>2
    <3>4. QED BY <1>2, <3>2, <3>3
  <2>2. ASSUME Head(s).op = a PROVE 1 \in DOMAIN u /\ u[1].op = b
    <3>1. 1 + 1 \in DOMAIN s /\ s[1 + 1].op = b
      BY <1>1, <1>7, <2>2 DEF Then
    <3>2. 1 \in DOMAIN u
      BY <1>1, <3>1
    <3>3. QED BY <1>2, <3>1, <3>2
  <2>3. QED BY <2>1, <2>2 DEF Then
<1>8. Orderly(u)
  BY <1>4, <1>5, <1>6, <1>7 DEF Orderly, First
<1>9. Head(s).op \in Closes => u = <<>>
  <2>1. Head(s).op \in Closes => Len(s) = 1
    BY <1>1 DEF Orderly, Ends
  <2>2. QED BY <1>1, <2>1, EmptySeq
<1>10. \A x \in Steps(u) : \E i \in DOMAIN u : x = u[i]
  BY DEF Steps
<1>11. /\ Head(s).op \in {"players", "made"} => \A i \in DOMAIN u : u[i].op = "start"
       /\ Head(s).op = "log out" => \A i \in DOMAIN u : u[i].op = "unlock"
  BY <1>6 DEF Orderly
<1>12. /\ Head(s).op = "clear" => \E i \in DOMAIN u : u[i].op = "destroy"
       /\ Head(s).op = "no entry" => \E i \in DOMAIN u : u[i].op = "no object"
  BY <1>7 DEF Orderly
<1>13. Head(s).op = "object" => 1 \in DOMAIN u /\ u[1].op = "entry"
  BY <1>7 DEF Orderly
<1>14. 1 \in DOMAIN u => u # <<>> /\ Head(u) = u[1]
  <2>1. u # <<>> => Head(u) = u[1]
    BY <1>1, Beheaded
  <2>2. QED BY <2>1, EmptySeq
<1>15. \A i \in DOMAIN u : u[i] \in Steps(u)
  BY DEF Steps
<1>16. /\ Head(s).op \in {"players", "made"} => \A x \in Steps(u) : x.op = "start"
       /\ Head(s).op = "log out" => \A x \in Steps(u) : x.op = "unlock"
       /\ \A x \in Steps(u) : x.op # "draw"
  BY <1>5, <1>10, <1>11
<1>17. /\ Head(s).op = "clear" => \E x \in Steps(u) : x.op = "destroy"
       /\ Head(s).op = "no entry" => \E x \in Steps(u) : x.op = "no object"
  BY <1>12, <1>15
<1>18. Head(s).op = "object" => u # <<>> /\ Head(u).op = "entry"
  BY <1>13, <1>14
<1>19. QED BY <1>8, <1>9, <1>16, <1>17, <1>18 DEF u

(* A step is put before others. *)
LEMMA Consed ==
  ASSUME NEW s \in Seq(Step), NEW x \in Step
  PROVE  /\ <<x>> \o s \in Seq(Step) /\ <<x>> \o s # <<>>
         /\ Head(<<x>> \o s) = x /\ Tail(<<x>> \o s) = s
         /\ Steps(<<x>> \o s) = {x} \cup Steps(s)
<1> DEFINE u == <<x>> \o s
<1>1. <<x>> \in Seq(Step) /\ Len(<<x>>) = 1 /\ Len(s) \in Nat
  BY LenProperties
<1>2. u \in Seq(Step) /\ Len(u) = 1 + Len(s)
      /\ \A i \in 1..1 + Len(s) : u[i] = IF i <= 1 THEN <<x>>[i] ELSE s[i - 1]
  BY <1>1, ConcatProperties
<1> HIDE DEF u
<1>3. u[1] = x /\ u # <<>>
  BY <1>1, <1>2, EmptySeq
<1>4. Head(u) = x
  BY <1>2, <1>3
<1>5. Tail(u) \in Seq(Step) /\ Len(Tail(u)) = Len(s) /\ \A i \in 1..Len(s) : Tail(u)[i] = u[i + 1]
  BY <1>1, <1>2, <1>3, HeadTailProperties
<1>6. \A i \in 1..Len(s) : Tail(u)[i] = s[i]
  <2>1. ASSUME NEW i \in 1..Len(s) PROVE Tail(u)[i] = s[i]
    <3>1. i + 1 \in 1..1 + Len(s) /\ ~ (i + 1 <= 1) /\ (i + 1) - 1 = i
      BY <1>1, <2>1
    <3>2. QED BY <1>2, <1>5, <2>1, <3>1
  <2>2. QED BY <2>1
<1>7. Tail(u) = s
  BY <1>5, <1>6, SeqEqual
<1>8. Steps(u) = {x} \cup Steps(s)
  BY <1>2, <1>3, <1>4, <1>7, TailSteps
<1>9. QED BY <1>2, <1>3, <1>4, <1>7, <1>8 DEF u

(* A step may be put before others if what must follow it does.            *)
Allowed(x, s) ==
  /\ x.op \in Closes => s = <<>>
  /\ \A y \in Steps(s) : y.op # "draw"
  /\ x.op \in {"players", "made"} => \A y \in Steps(s) : y.op = "start"
  /\ x.op = "log out" => \A y \in Steps(s) : y.op = "unlock"
  /\ x.op = "clear" => s # <<>> /\ Head(s).op = "destroy"
  /\ x.op = "no entry" => s # <<>> /\ Head(s).op = "no object"
  /\ x.op = "object" => s # <<>> /\ Head(s).op = "entry"

LEMMA Lengthened ==
  ASSUME NEW s \in Seq(Step), s # <<>>, Orderly(Tail(s)), Allowed(Head(s), Tail(s))
  PROVE  Orderly(s)
<1> DEFINE u == Tail(s)
<1>1. DOMAIN s = 1..Len(s) /\ Len(s) \in Nat \ {0} /\ Head(s) = s[1] /\ 1 \in DOMAIN s
      /\ u \in Seq(Step) /\ DOMAIN u = 1..Len(s) - 1 /\ Len(u) = Len(s) - 1
  BY Beheaded
<1>2. \A i \in DOMAIN u : i + 1 \in DOMAIN s /\ u[i] = s[i + 1]
  BY Beheaded
<1>3. \A i \in DOMAIN s : i # 1 => i - 1 \in DOMAIN u /\ u[i - 1] = s[i]
  BY Beheaded
<1>4. Orderly(u) /\ Allowed(s[1], u)
  BY <1>1
<1>5. u # <<>> => 1 \in DOMAIN u /\ Head(u) = u[1]
  BY <1>1, Beheaded
<1>6. u = <<>> => Len(s) = 1
  <2>1. u = <<>> => Len(u) = 0
    BY EmptySeq
  <2> DEFINE m == Len(s)
             n == Len(u)
  <2>2. m \in Nat /\ n = m - 1
    BY <1>1
  <2> HIDE DEF u, m, n
  <2>3. n = 0 => m = 1
    BY <2>2
  <2>4. QED BY <2>1, <2>3 DEF m, n
<1> HIDE DEF u
<1>7. \A i \in DOMAIN u : u[i] \in Steps(u)
  BY DEF Steps
<1>8. Ends(s)
  <2>1. ASSUME NEW i \in DOMAIN s, s[i].op \in Closes PROVE i = Len(s)
    <3>1. CASE i = 1
      BY <1>4, <1>6, <2>1, <3>1 DEF Allowed
    <3>2. CASE i # 1
      <4>1. i - 1 \in DOMAIN u /\ u[i - 1].op \in Closes
        BY <1>3, <2>1, <3>2
      <4>2. i - 1 = Len(u)
        BY <1>4, <4>1 DEF Orderly, Ends
      <4>3. QED BY <1>1, <2>1, <4>2
    <3>3. QED BY <3>1, <3>2
  <2>2. QED BY <2>1 DEF Ends
<1>9. First(s)
  <2>1. ASSUME NEW i \in DOMAIN s, s[i].op = "draw", i # 1 PROVE FALSE
    <3>1. i - 1 \in DOMAIN u /\ u[i - 1].op = "draw"
      BY <1>3, <2>1
    <3>2. QED BY <1>4, <1>7, <3>1 DEF Allowed
  <2>2. QED BY <2>1 DEF First
<1>10. ASSUME NEW a, NEW b, Only(u, a, b), s[1].op = a => \A y \in Steps(u) : y.op = b
       PROVE  Only(s, a, b)
  <2>1. ASSUME NEW i \in DOMAIN s, NEW j \in DOMAIN s, s[i].op = a, j > i PROVE s[j].op = b
    <3>1. j # 1 /\ j - 1 \in DOMAIN u /\ u[j - 1] = s[j]
      BY <1>1, <1>3, <2>1
    <3>2. CASE i = 1
      BY <1>7, <1>10, <2>1, <3>1, <3>2
    <3>3. CASE i # 1
      <4>1. i - 1 \in DOMAIN u /\ u[i - 1].op = a /\ j - 1 > i - 1
        BY <1>1, <1>3, <2>1, <3>3
      <4>2. QED BY <1>10, <3>1, <4>1 DEF Only
    <3>4. QED BY <3>2, <3>3
  <2>2. QED BY <2>1 DEF Only
<1>11. ASSUME NEW a, NEW b, Then(u, a, b), s[1].op = a => u # <<>> /\ Head(u).op = b
       PROVE  Then(s, a, b)
  <2>1. ASSUME NEW i \in DOMAIN s, s[i].op = a PROVE i + 1 \in DOMAIN s /\ s[i + 1].op = b
    <3>1. CASE i = 1
      <4>1. 1 \in DOMAIN u /\ u[1].op = b
        BY <1>5, <1>11, <2>1, <3>1
      <4>2. QED BY <1>2, <3>1, <4>1
    <3>2. CASE i # 1
      <4>1. i - 1 \in DOMAIN u /\ u[i - 1].op = a
        BY <1>3, <2>1, <3>2
      <4>2. (i - 1) + 1 \in DOMAIN u /\ u[(i - 1) + 1].op = b /\ (i - 1) + 1 = i
        BY <1>1, <1>11, <2>1, <4>1 DEF Then
      <4>3. QED BY <1>2, <4>2
    <3>3. QED BY <3>1, <3>2
  <2>2. QED BY <2>1 DEF Then
<1>12. Only(s, "players", "start") /\ Only(s, "made", "start") /\ Only(s, "log out", "unlock")
  BY <1>4, <1>10 DEF Orderly, Allowed
<1>13. Then(s, "clear", "destroy") /\ Then(s, "no entry", "no object") /\ Then(s, "object", "entry")
  BY <1>4, <1>11 DEF Orderly, Allowed
<1>14. QED BY <1>8, <1>9, <1>12, <1>13 DEF Orderly

LEMMA EmptyOrderly ==
  <<>> \in Seq(Step) /\ Orderly(<<>>) /\ Steps(<<>>) = {}
BY DEF Orderly, Ends, First, Only, Then, Steps

(* x before s, whose place is given by its first step.                     *)
LEMMA Prefixed ==
  ASSUME NEW s \in Seq(Step), NEW x \in Step, Orderly(s), Allowed(x, s)
  PROVE  /\ <<x>> \o s \in Seq(Step) /\ <<x>> \o s # <<>>
         /\ Head(<<x>> \o s) = x /\ Tail(<<x>> \o s) = s
         /\ Steps(<<x>> \o s) = {x} \cup Steps(s) /\ Orderly(<<x>> \o s)
<1> DEFINE u == <<x>> \o s
<1>1. u \in Seq(Step) /\ u # <<>> /\ Head(u) = x /\ Tail(u) = s /\ Steps(u) = {x} \cup Steps(s)
  BY Consed
<1> HIDE DEF u
<1>2. Orderly(u)
  BY <1>1, Lengthened
<1>3. QED BY <1>1, <1>2 DEF u

LEMMA SameSequence ==
  ASSUME NEW s \in Seq(Step), NEW u \in Seq(Step), s # <<>>, u # <<>>,
         Head(s) = Head(u), Tail(s) = Tail(u)
  PROVE  s = u
<1>1. /\ Len(s) \in Nat \ {0} /\ Len(Tail(s)) = Len(s) - 1
      /\ Len(u) \in Nat \ {0} /\ Len(Tail(u)) = Len(u) - 1
      /\ DOMAIN s = 1..Len(s) /\ DOMAIN u = 1..Len(u) /\ Head(s) = s[1] /\ Head(u) = u[1]
  BY Beheaded
<1> DEFINE m == Len(s)
           n == Len(u)
           k == Len(Tail(s))
<1>2. m = n
  <2>1. m \in Nat \ {0} /\ n \in Nat \ {0} /\ k = m - 1 /\ k = n - 1
    BY <1>1
  <2> HIDE DEF m, n, k
  <2>2. QED BY <2>1
<1>3. ASSUME NEW i \in 1..Len(s) PROVE s[i] = u[i]
  <2>1. CASE i = 1
    BY <1>1, <2>1
  <2>2. CASE i # 1
    <3>1. i \in DOMAIN s /\ i \in DOMAIN u
      BY <1>1, <1>2, <1>3
    <3>2. Tail(s)[i - 1] = s[i]
      BY <2>2, <3>1, Beheaded
    <3>3. Tail(u)[i - 1] = u[i]
      BY <2>2, <3>1, Beheaded
    <3>4. QED BY <3>2, <3>3
  <2>3. QED BY <2>1, <2>2, SMTT(30)
<1>4. QED BY <1>2, <1>3, SeqEqual

LEMMA Joins ==
  ASSUME NEW s \in Seq(Step), NEW x \in Step, NEW y \in Step
  PROVE  /\ <<>> \o s = s /\ s \o <<>> = s
         /\ <<x, y>> \o s = <<x>> \o (<<y>> \o s)
         /\ <<x>> \o <<y>> = <<x, y>>
<1>1. <<>> \o s = s /\ s \o <<>> = s
  BY ConcatEmptySeq
<1>2. <<x>> \in Seq(Step) /\ <<y>> \in Seq(Step) /\ <<x, y>> \in Seq(Step)
  OBVIOUS
<1>3. <<x>> \o <<y>> = <<x, y>>
  <2> DEFINE u == <<x>> \o <<y>>
             v == <<x, y>>
  <2>1. u \in Seq(Step) /\ u # <<>> /\ Head(u) = x /\ Tail(u) = <<y>>
    BY <1>2, Consed
  <2>2. v \in Seq(Step) /\ v # <<>> /\ Head(v) = x /\ Tail(v) = <<y>>
    BY <1>2
  <2> HIDE DEF u, v
  <2>3. u = v
    BY <2>1, <2>2, SameSequence
  <2>4. QED BY <2>3 DEF u, v
<1>4. <<x, y>> \o s = <<x>> \o (<<y>> \o s)
  <2>1. (<<x>> \o <<y>>) \o s = <<x>> \o (<<y>> \o s)
    BY <1>2, ConcatAssociative
  <2>2. QED BY <1>3, <2>1
<1>5. QED BY <1>1, <1>3, <1>4

(* The plans: what the actions leave a thread to do.                       *)
LEMMA Planned ==
  ASSUME NEW s \in Seq(Step), s # <<>>, NEW u \in Seq(Step), Tail(s) = u,
         Orderly(u), Allowed(Head(s), u)
  PROVE  Orderly(s) /\ Steps(s) = {Head(s)} \cup Steps(u)
BY Lengthened, TailSteps

LEMMA Tuples ==
  ASSUME NEW x \in Step, NEW y \in Step, NEW z \in Step
  PROVE  /\ <<x>> \in Seq(Step) /\ <<x>> # <<>> /\ Head(<<x>>) = x /\ Tail(<<x>>) = <<>>
         /\ <<x, y>> \in Seq(Step) /\ <<x, y>> # <<>> /\ Head(<<x, y>>) = x /\ Tail(<<x, y>>) = <<y>>
         /\ <<x, y, z>> \in Seq(Step) /\ <<x, y, z>> # <<>>
         /\ Head(<<x, y, z>>) = x /\ Tail(<<x, y, z>>) = <<y, z>>
OBVIOUS

LEMMA Single ==
  ASSUME NEW x \in Step, x.op \notin {"clear", "no entry", "object"}
  PROVE  <<x>> \in Seq(Step) /\ <<x>> # <<>> /\ Head(<<x>>) = x /\ Steps(<<x>>) = {x} /\ Orderly(<<x>>)
<1> DEFINE s == <<x>>
<1>1. s \in Seq(Step) /\ s # <<>> /\ Head(s) = x /\ Tail(s) = <<>>
  BY Tuples
<1>2. Allowed(x, <<>>)
  BY EmptyOrderly DEF Allowed
<1> HIDE DEF s
<1>3. Orderly(s) /\ Steps(s) = {x} \cup Steps(<<>>)
  BY <1>1, <1>2, EmptyOrderly, Planned
<1>4. QED BY <1>1, <1>3, EmptyOrderly DEF s

(* Where two steps may come one after the other. *)
Follows(y, x) ==
  /\ x.op \notin Closes /\ y.op \notin {"draw", "clear", "no entry", "object"}
  /\ x.op \in {"players", "made"} => y.op = "start"
  /\ x.op = "log out" => y.op = "unlock"
  /\ x.op = "clear" => y.op = "destroy"
  /\ x.op = "no entry" => y.op = "no object"
  /\ x.op = "object" => y.op = "entry"

LEMMA FollowsAllowed ==
  ASSUME NEW x, NEW y, Follows(y, x), NEW s, Steps(s) = {y}, s # <<>>, Head(s) = y
  PROVE  Allowed(x, s)
BY DEF Follows, Allowed

Plan(w, ops) ==
  /\ w \in Seq(Step) /\ w # <<>> /\ Orderly(w) /\ \A x \in Steps(w) : x.op \in ops

LEMMA SinglePlan ==
  ASSUME NEW x \in Step, x.op \notin {"clear", "no entry", "object"}, NEW ops, x.op \in ops
  PROVE  Plan(<<x>>, ops)
<1> DEFINE s == <<x>>
<1>1. s \in Seq(Step) /\ s # <<>> /\ Steps(s) = {x} /\ Orderly(s)
  BY Single
<1> HIDE DEF s
<1>2. Plan(s, ops)
  BY <1>1 DEF Plan
<1>3. QED BY <1>2 DEF s

LEMMA PairPlan ==
  ASSUME NEW x \in Step, NEW y \in Step, Follows(y, x), NEW ops, x.op \in ops, y.op \in ops
  PROVE  Plan(<<x, y>>, ops) /\ Steps(<<x, y>>) = {x, y} /\ Head(<<x, y>>) = x
<1> DEFINE s == <<x, y>>
           u == <<y>>
<1>1. s \in Seq(Step) /\ s # <<>> /\ Head(s) = x /\ Tail(s) = u
  BY Tuples
<1>2. y.op \notin {"clear", "no entry", "object"}
  BY DEF Follows
<1>3. u \in Seq(Step) /\ u # <<>> /\ Head(u) = y /\ Steps(u) = {y} /\ Orderly(u)
  BY <1>2, Single
<1> HIDE DEF s, u
<1>4. Allowed(x, u)
  BY <1>3, FollowsAllowed
<1>5. Orderly(s) /\ Steps(s) = {x, y}
  BY <1>1, <1>3, <1>4, Planned
<1>6. Plan(s, ops) /\ Steps(s) = {x, y} /\ Head(s) = x
  BY <1>1, <1>5 DEF Plan
<1>7. QED BY <1>6 DEF s

LEMMA FramePlan ==
  Plan(<<S("read"), S("unset"), S("update")>>, {"read", "unset", "update"})
<1> DEFINE x == S("read")
           y == S("unset")
           z == S("update")
           s == <<x, y, z>>
           u == <<y, z>>
<1>1. x \in Step /\ y \in Step /\ z \in Step /\ x.op = "read" /\ y.op = "unset" /\ z.op = "update"
  BY SOf, OpNames
<1> HIDE DEF x, y, z
<1>2. s \in Seq(Step) /\ s # <<>> /\ Head(s) = x /\ Tail(s) = u
  BY <1>1, Tuples
<1>3. Follows(z, y)
  BY <1>1 DEF Follows, Closes
<1>4. Plan(u, {"unset", "update"})
  BY <1>1, <1>3, PairPlan
<1> HIDE DEF s, u
<1>5. Allowed(x, u)
  BY <1>1, <1>4 DEF Allowed, Closes, Plan
<1>6. Orderly(s) /\ Steps(s) = {x} \cup Steps(u)
  BY <1>2, <1>4, <1>5, Planned DEF Plan
<1>7. Plan(s, {"read", "unset", "update"})
  BY <1>1, <1>2, <1>4, <1>6 DEF Plan
<1>8. QED BY <1>7 DEF s, x, y, z

LEMMA DrawPlan ==
  /\ Plan(<<S("drawn")>>, {"drawn"})
  /\ \A ids \in SUBSET Id :
       /\ Plan(<<Of("check", ids), S("drawn")>>, {"check", "drawn"})
       /\ Steps(<<Of("check", ids), S("drawn")>>) = {Of("check", ids), S("drawn")}
<1> DEFINE y == S("drawn")
<1>1. y \in Step /\ y.op = "drawn"
  BY SOf, OpNames
<1> HIDE DEF y
<1>2. Plan(<<y>>, {"drawn"})
  BY <1>1, SinglePlan
<1>3. ASSUME NEW ids \in SUBSET Id
      PROVE  /\ Plan(<<Of("check", ids), y>>, {"check", "drawn"})
             /\ Steps(<<Of("check", ids), y>>) = {Of("check", ids), y}
  <2> DEFINE x == Of("check", ids)
  <2>1. x \in Step /\ x.op = "check"
    BY SOf, OpNames
  <2> HIDE DEF x
  <2>2. Follows(y, x)
    BY <1>1, <2>1 DEF Follows, Closes
  <2>3. x.op \in {"check", "drawn"} /\ y.op \in {"check", "drawn"}
    BY <1>1, <2>1
  <2>4. Plan(<<x, y>>, {"check", "drawn"}) /\ Steps(<<x, y>>) = {x, y}
    BY <1>1, <2>1, <2>2, <2>3, PairPlan
  <2>5. QED BY <2>4 DEF x
<1>4. QED BY <1>2, <1>3 DEF y

LEMMA LevelPlans ==
  /\ Plan(<<S("players"), S("start")>>, {"players", "start"})
  /\ Plan(<<S("destroy")>>, {"destroy"})
  /\ Plan(reload, {"destroy", "players"}) /\ Head(reload).op = "destroy"
<1> DEFINE x == S("players")
           y == S("start")
           z == S("destroy")
<1>1. /\ x \in Step /\ x.op = "players" /\ y \in Step /\ y.op = "start"
      /\ z \in Step /\ z.op = "destroy"
  BY SOf, OpNames
<1> HIDE DEF x, y, z
<1>2. Follows(y, x) /\ Follows(x, z)
  BY <1>1 DEF Follows, Closes
<1>3. /\ x.op \in {"players", "start"} /\ y.op \in {"players", "start"}
      /\ x.op \in {"destroy", "players"} /\ z.op \in {"destroy", "players"}
      /\ z.op \in {"destroy"} /\ z.op \notin {"clear", "no entry", "object"}
  BY <1>1
<1>4. Plan(<<x, y>>, {"players", "start"})
  BY <1>1, <1>2, <1>3, PairPlan
<1>5. Plan(<<z>>, {"destroy"})
  BY <1>1, <1>3, SinglePlan
<1>6. Plan(<<z, x>>, {"destroy", "players"}) /\ Head(<<z, x>>) = z
  BY <1>1, <1>2, <1>3, PairPlan
<1> DEFINE r == <<z, x>>
<1> HIDE DEF r
<1>7. Plan(r, {"destroy", "players"}) /\ Head(r) = z
  BY <1>6 DEF r
<1>8. Head(r).op = "destroy"
  BY <1>1, <1>7
<1>9. r = reload
  BY DEF r, reload, x, z
<1>10. QED BY <1>4, <1>5, <1>7, <1>8, <1>9 DEF x, y, z

LEMMA TogglePlan == Plan(<<S("toggle")>>, {"toggle"})
<1> DEFINE x == S("toggle")
<1>1. x \in Step /\ x.op = "toggle"
  BY SOf, OpNames
<1> HIDE DEF x
<1>2. Plan(<<x>>, {"toggle"})
  BY <1>1, SinglePlan
<1>3. QED BY <1>2 DEF x

LEMMA WritePlan ==
  ASSUME NEW id \in Id, NEW c \in SUBSET BOOLEAN
  PROVE  Plan(<<[op |-> "write", ids |-> {id}, cheated |-> c]>>, {"write"})
<1> DEFINE x == [op |-> "write", ids |-> {id}, cheated |-> c]
<1>1. x \in Step /\ x.op = "write"
  BY DEF Step
<1> HIDE DEF x
<1>2. x.op \in {"write"} /\ x.op \notin {"clear", "no entry", "object"}
  BY <1>1
<1>3. Plan(<<x>>, {"write"})
  BY <1>1, <1>2, SinglePlan
<1>4. QED BY <1>3 DEF x

LEMMA PrefixPlan ==
  ASSUME NEW x \in Step, NEW s, NEW ops, Plan(s, ops), Allowed(x, s)
  PROVE  /\ Plan(<<x>> \o s, ops \cup {x.op}) /\ Head(<<x>> \o s) = x
         /\ x \in Steps(<<x>> \o s) /\ Steps(s) \subseteq Steps(<<x>> \o s)
<1> DEFINE u == <<x>> \o s
<1>1. s \in Seq(Step) /\ Orderly(s) /\ \A y \in Steps(s) : y.op \in ops
  BY DEF Plan
<1>2. u \in Seq(Step) /\ u # <<>> /\ Head(u) = x /\ Steps(u) = {x} \cup Steps(s) /\ Orderly(u)
  BY <1>1, Prefixed
<1> HIDE DEF u
<1>3. Plan(u, ops \cup {x.op})
  BY <1>1, <1>2 DEF Plan
<1>4. QED BY <1>2, <1>3 DEF u

(* Two steps before others, where each may come before what follows it. *)
LEMMA TwoPrefixed ==
  ASSUME NEW x \in Step, NEW y \in Step, NEW s, NEW ops, Plan(s, ops), Allowed(y, s),
         x.op \notin Closes \cup {"players", "made", "log out"},
         "draw" \notin ops, y.op # "draw",
         x.op = "clear" => y.op = "destroy",
         x.op = "no entry" => y.op = "no object",
         x.op = "object" => y.op = "entry"
  PROVE  /\ Plan(<<x, y>> \o s, ops \cup {x.op, y.op}) /\ Head(<<x, y>> \o s) = x
         /\ x \in Steps(<<x, y>> \o s) /\ Steps(s) \subseteq Steps(<<x, y>> \o s)
<1> DEFINE u == <<y>> \o s
           w == <<x>> \o u
<1>1. Plan(u, ops \cup {y.op}) /\ Head(u) = y /\ Steps(s) \subseteq Steps(u)
  BY PrefixPlan
<1>2. <<x, y>> \o s = w
  BY Joins DEF Plan
<1> HIDE DEF u
<1>3. u # <<>> /\ \A z \in Steps(u) : z.op # "draw"
  BY <1>1 DEF Plan
<1>4. Allowed(x, u)
  BY <1>1, <1>3 DEF Allowed
<1>5. /\ Plan(w, (ops \cup {y.op}) \cup {x.op}) /\ Head(w) = x
      /\ x \in Steps(w) /\ Steps(u) \subseteq Steps(w)
  BY <1>1, <1>4, PrefixPlan
<1> HIDE DEF w
<1>6. (ops \cup {y.op}) \cup {x.op} = ops \cup {x.op, y.op}
  OBVIOUS
<1>7. Plan(w, ops \cup {x.op, y.op}) /\ Steps(s) \subseteq Steps(w)
  BY <1>1, <1>5, <1>6
<1>8. QED BY <1>2, <1>5, <1>7

LEMMA TogglePlans ==
  /\ Plan(<<S("no entry"), S("no object")>> \o <<S("unlock")>>, {"no entry", "no object", "unlock"})
  /\ Plan(<<S("object"), S("entry")>> \o <<S("unlock")>>, {"object", "entry", "unlock"})
<1> DEFINE a == S("no entry")
           b == S("no object")
           c == S("object")
           d == S("entry")
           u == S("unlock")
<1>1. /\ a \in Step /\ a.op = "no entry" /\ b \in Step /\ b.op = "no object"
      /\ c \in Step /\ c.op = "object" /\ d \in Step /\ d.op = "entry"
      /\ u \in Step /\ u.op = "unlock"
  BY SOf, OpNames
<1> HIDE DEF a, b, c, d, u
<1> DEFINE s == <<u>>
<1>2. Plan(s, {"unlock"})
  BY <1>1, SinglePlan
<1> HIDE DEF s
<1>3. Allowed(b, s) /\ Allowed(d, s)
  BY <1>1, <1>2 DEF Allowed, Plan, Closes
<1>4. Plan(<<a, b>> \o s, {"unlock"} \cup {a.op, b.op})
  BY <1>1, <1>2, <1>3, TwoPrefixed DEF Closes
<1>5. Plan(<<c, d>> \o s, {"unlock"} \cup {c.op, d.op})
  BY <1>1, <1>2, <1>3, TwoPrefixed DEF Closes
<1>6. /\ {"unlock"} \cup {a.op, b.op} = {"no entry", "no object", "unlock"}
      /\ {"unlock"} \cup {c.op, d.op} = {"object", "entry", "unlock"}
  BY <1>1
<1>7. QED BY <1>4, <1>5, <1>6 DEF a, b, c, d, u, s

LEMMA LoginPlans ==
  ASSUME NEW online \in SUBSET Id
  PROVE  /\ Plan(<<>> \o <<Of("fill", online), S("unlock")>>, {"fill", "unlock"})
         /\ Plan(PlayersFirst \o <<Of("fill", online), S("unlock")>>,
                 {"clear", "destroy", "fill", "unlock"})
<1> DEFINE a == S("clear")
           b == S("destroy")
           x == Of("fill", online)
           u == S("unlock")
<1>1. /\ a \in Step /\ a.op = "clear" /\ b \in Step /\ b.op = "destroy"
      /\ x \in Step /\ x.op = "fill" /\ u \in Step /\ u.op = "unlock"
  BY SOf, OpNames
<1> HIDE DEF a, b, x, u
<1> DEFINE s == <<x, u>>
<1>2. Follows(u, x) /\ x.op \in {"fill", "unlock"} /\ u.op \in {"fill", "unlock"}
  BY <1>1 DEF Follows, Closes
<1>3. Plan(s, {"fill", "unlock"})
  BY <1>1, <1>2, PairPlan
<1> HIDE DEF s
<1>4. Allowed(b, s)
  BY <1>1, <1>3 DEF Allowed, Plan, Closes
<1>5. Plan(<<a, b>> \o s, {"fill", "unlock"} \cup {a.op, b.op})
  BY <1>1, <1>3, <1>4, TwoPrefixed DEF Closes
<1>6. {"fill", "unlock"} \cup {a.op, b.op} = {"clear", "destroy", "fill", "unlock"}
  BY <1>1
<1>7. <<>> \o s = s
  BY <1>1, <1>3, Joins DEF Plan
<1>8. <<a, b>> = PlayersFirst
  BY DEF a, b, PlayersFirst
<1>9. Plan(<<>> \o s, {"fill", "unlock"})
  BY <1>3, <1>7
<1>10. Plan(PlayersFirst \o s, {"clear", "destroy", "fill", "unlock"})
  BY <1>5, <1>6, <1>8
<1>11. QED BY <1>9, <1>10 DEF x, u, s

CleanupPlan(own) ==
  (IF own THEN <<S("no entry"), S("no object")>> ELSE <<>>)
  \o PlayersFirst \o <<S("log out"), S("unlock")>>

LEMMA CleanupPlans ==
  ASSUME NEW own
  PROVE  /\ Plan(CleanupPlan(own), {"no entry", "no object", "clear", "destroy", "log out", "unlock"})
         /\ \E x \in Steps(CleanupPlan(own)) : x.op = "clear"
<1> DEFINE a == S("clear")
           b == S("destroy")
           x == S("log out")
           u == S("unlock")
           c == S("no entry")
           d == S("no object")
           ops == {"no entry", "no object", "clear", "destroy", "log out", "unlock"}
<1>1. /\ a \in Step /\ a.op = "clear" /\ b \in Step /\ b.op = "destroy"
      /\ x \in Step /\ x.op = "log out" /\ u \in Step /\ u.op = "unlock"
      /\ c \in Step /\ c.op = "no entry" /\ d \in Step /\ d.op = "no object"
  BY SOf, OpNames
<1> HIDE DEF a, b, x, u, c, d
<1> DEFINE s == <<x, u>>
           p == <<a, b>>
           h == <<c, d>>
<1>2. Follows(u, x) /\ x.op \in ops /\ u.op \in ops
  BY <1>1 DEF Follows, Closes
<1>3. Plan(s, ops)
  BY <1>1, <1>2, PairPlan
<1>4. s \in Seq(Step) /\ p \in Seq(Step) /\ h \in Seq(Step)
  BY <1>1, Tuples
<1> HIDE DEF s
<1>5. Allowed(b, s)
  BY <1>1, <1>3 DEF Allowed, Plan, Closes
<1>6. Plan(p \o s, ops \cup {a.op, b.op}) /\ a \in Steps(p \o s) /\ Head(p \o s) = a
  BY <1>1, <1>3, <1>5, TwoPrefixed DEF Closes
<1>7. ops \cup {a.op, b.op} = ops /\ ops \cup {c.op, d.op} = ops
  BY <1>1
<1> DEFINE q == p \o s
<1> HIDE DEF q, p
<1>8. Plan(q, ops) /\ a \in Steps(q) /\ Head(q) = a
  BY <1>6, <1>7 DEF q
<1>9. Allowed(d, q)
  BY <1>1, <1>8 DEF Allowed, Plan, Closes
<1>10. Plan(h \o q, ops \cup {c.op, d.op}) /\ Steps(q) \subseteq Steps(h \o q)
  BY <1>1, <1>8, <1>9, TwoPrefixed DEF Closes
<1>11. Plan(h \o q, ops) /\ a \in Steps(h \o q)
  BY <1>7, <1>8, <1>10
<1> HIDE DEF h
<1>12. (h \o p) \o s = h \o q /\ (<<>> \o p) \o s = q
  <2>1. (h \o p) \o s = h \o (p \o s)
    BY <1>4, ConcatAssociative
  <2>2. <<>> \o p = p
    BY <1>4, ConcatEmptySeq
  <2>3. QED BY <2>1, <2>2 DEF q
<1>13. CASE own
  <2>1. CleanupPlan(own) = h \o q
    BY <1>12, <1>13 DEF CleanupPlan, PlayersFirst, h, p, s, a, b, c, d, x, u
  <2>2. QED BY <1>1, <1>11, <2>1
<1>14. CASE ~ own
  <2>1. CleanupPlan(own) = q
    BY <1>12, <1>14 DEF CleanupPlan, PlayersFirst, p, s, a, b, x, u
  <2>2. QED BY <1>1, <1>8, <2>1
<1>15. QED BY <1>13, <1>14

-----------------------------------------------------------------------------
(* The inductive invariant.                                                *)

ToDo(t) == Steps(code[t])
Will(t, op) == \E x \in ToDo(t) : x.op = op

(* Steps under bml_mtx_, and steps with db_ locked.                        *)
BmlOps(t) ==
  CASE t = "game" -> {"read", "unset", "update", "check", "draw", "drawn", "object", "entry",
                      "no entry", "no object", "unlock"}
    [] t = "net" -> {"clear", "destroy", "fill", "unlock"}
    [] t = "console" -> {"no entry", "no object", "clear", "log out", "unlock"}
DbOps == {"init", "made", "check", "draw", "drawn"}

(* Who has such a step left holds the lock, and while db_ is locked the    *)
(* players a loop has left are in it.                                      *)
Held(t, x) ==
  /\ x.op \in OpsOf(t)
  /\ x.op \in BmlOps(t) => bml_mtx_ = t
  /\ x.op \in DbOps => db_mutex = t
  /\ x.op \in {"init", "check", "draw"} => x.ids \subseteq DOMAIN states_
Locking == \A t \in Thread : \A x \in ToDo(t) : Held(t, x)

Order == \A t \in Thread : Orderly(code[t])

(* Of the commands, only reload destroys objects without bml_mtx_.         *)
ConsoleDestroys == Will("console", "destroy") => code["console"] = reload \/ bml_mtx_ = "console"

(* The balls are loaded before a level runs, and what is made then has     *)
(* them: the game's thread runs no level until it is done with the key.    *)
BallsLoaded ==
  /\ ingame => template_init_
  /\ \A x \in ToDo("game") : x.op \in BmlOps("game") => template_init_
  /\ template_init_ => \A id \in DOMAIN objects_ : objects_[id].balls
TogglesLoaded == \A x \in ToDo("game") : x.op = "toggle" => template_init_

(* What a frame is about to draw it has checked.                           *)
DrawsMade ==
  \A x \in ToDo("game") : x.op = "draw" => x.ids \subseteq DOMAIN objects_ \/ crossed

(* An object without a player will be removed, or its player is to come.   *)
Accounted(id) ==
  \/ id \in DOMAIN states_ \/ id \in scheduled
  \/ \E t \in Thread : Will(t, "destroy")
  \/ id = Me /\ \E t \in Thread : Will(t, "no object") \/ Will(t, "entry")
ObjectsAccounted == \A id \in DOMAIN objects_ : Accounted(id)

(* Between cleanup's clear and the next login only what the network thread *)
(* had left, or the key that waited for cleanup, brings an entry back.     *)
Cleared == ~ logged_in_ \/ (Will("console", "log out") /\ ~ Will("console", "clear"))
OnlyRevived == Cleared => DOMAIN states_ \subseteq revived

Control ==
  /\ Locking /\ Order /\ ConsoleDestroys /\ BallsLoaded /\ TogglesLoaded /\ DrawsMade
  /\ ObjectsAccounted /\ OnlyRevived
IInv == TypeOK /\ (crashed => crossed \/ stranded) /\ (~ crashed => Control)

-----------------------------------------------------------------------------
(* What a thread has left to do, from one state to the next.               *)

LEMMA Given ==
  ASSUME CodeTypeOK, NEW t \in Thread, NEW w \in Seq(Step), Starts(t, w)
  PROVE  /\ CodeTypeOK' /\ code'[t] = w /\ ToDo(t)' = Steps(w)
         /\ \A u \in Thread : u # t => code'[u] = code[u] /\ ToDo(u)' = ToDo(u)
<1>1. CodeTypeOK' /\ code'[t] = w /\ \A u \in Thread : u # t => code'[u] = code[u]
  BY DEF CodeTypeOK, Starts
<1>2. QED BY <1>1 DEF ToDo

LEMMA Heads ==
  ASSUME CodeTypeOK, NEW t \in Thread, NEW op, At(t, op)
  PROVE  /\ code[t] \in Seq(Step) /\ code[t] # <<>> /\ Head(code[t]) \in Step
         /\ Head(code[t]).op = op /\ These(t) = Head(code[t]).ids /\ These(t) \subseteq Id
         /\ Tail(code[t]) \in Seq(Step) /\ ~ crashed
         /\ ToDo(t) = {Head(code[t])} \cup Steps(Tail(code[t]))
<1>1. code[t] \in Seq(Step) /\ code[t] # <<>> /\ Head(code[t]).op = op /\ ~ crashed
  BY DEF CodeTypeOK, At
<1>2. Head(code[t]) \in Step /\ Tail(code[t]) \in Seq(Step)
  BY <1>1, Beheaded
<1>3. These(t) = Head(code[t]).ids
  BY DEF These
<1>4. \A x \in Step : x.ids \subseteq Id
  BY DEF Step
<1>5. ToDo(t) = {Head(code[t])} \cup Steps(Tail(code[t]))
  BY <1>1, TailSteps DEF ToDo
<1>6. QED BY <1>1, <1>2, <1>3, <1>4, <1>5

LEMMA Stepped ==
  ASSUME CodeTypeOK, NEW t \in Thread, NEW op, At(t, op), Done(t)
  PROVE  /\ CodeTypeOK' /\ code'[t] = Tail(code[t]) /\ ToDo(t) = {Head(code[t])} \cup ToDo(t)'
         /\ \A u \in Thread : u # t => code'[u] = code[u] /\ ToDo(u)' = ToDo(u)
<1>1. Tail(code[t]) \in Seq(Step) /\ ToDo(t) = {Head(code[t])} \cup Steps(Tail(code[t]))
  BY Heads
<1>2. QED BY <1>1, Given DEF Done

(* What OneDone leaves of the loop. *)
Loop(t, id) ==
  IF These(t) = {id} THEN Tail(code[t])
  ELSE <<[Head(code[t]) EXCEPT !.ids = @ \ {id}]>> \o Tail(code[t])

LEMMA LoopLeft ==
  ASSUME CodeTypeOK, NEW t \in Thread, NEW op, op \in {"init", "check"}, At(t, op), NEW id
  PROVE  /\ Loop(t, id) \in Seq(Step)
         /\ Steps(Tail(code[t])) \subseteq Steps(Loop(t, id))
         /\ \A x \in Steps(Loop(t, id)) :
              \/ x \in Steps(Tail(code[t]))
              \/ x.op = op /\ x.ids \subseteq These(t)
         /\ Orderly(code[t]) => Orderly(Loop(t, id)) /\ \A x \in Steps(Loop(t, id)) : x.op # "draw"
<1> DEFINE h == Head(code[t])
           k == [h EXCEPT !.ids = @ \ {id}]
           u == Tail(code[t])
<1>1. code[t] \in Seq(Step) /\ code[t] # <<>> /\ h \in Step /\ h.op = op /\ These(t) = h.ids
      /\ u \in Seq(Step)
  BY Heads
<1>2. k \in Step /\ k.op = op /\ k.ids = h.ids \ {id}
  <2>1. \A x \in Step : [x EXCEPT !.ids = @ \ {id}] \in Step
                        /\ [x EXCEPT !.ids = @ \ {id}].op = x.op
                        /\ [x EXCEPT !.ids = @ \ {id}].ids = x.ids \ {id}
    BY DEF Step
  <2>2. QED BY <1>1, <2>1
<1>3. Orderly(code[t]) => Orderly(u) /\ \A x \in Steps(u) : x.op # "draw"
  BY <1>1, TailOrderly
<1>4. Loop(t, id) = IF These(t) = {id} THEN u ELSE <<k>> \o u
  BY DEF Loop
<1> HIDE DEF u, h, k
<1>5. CASE These(t) = {id}
  BY <1>1, <1>3, <1>4, <1>5 DEF u
<1>6. CASE These(t) # {id}
  <2> DEFINE w == <<k>> \o u
  <2>1. w \in Seq(Step) /\ w # <<>> /\ Head(w) = k /\ Tail(w) = u /\ Steps(w) = {k} \cup Steps(u)
    BY <1>1, <1>2, Consed
  <2> HIDE DEF w
  <2>2. Loop(t, id) = w
    BY <1>4, <1>6 DEF w
  <2>3. k.op \notin Closes \cup {"players", "made", "log out", "clear", "no entry", "object", "draw"}
    BY <1>2 DEF Closes
  <2>4. Orderly(code[t]) => Allowed(k, u)
    BY <1>3, <2>3 DEF Allowed
  <2>5. Orderly(code[t]) => Orderly(w)
    BY <1>3, <2>1, <2>4, Lengthened
  <2>6. Orderly(code[t]) => \A x \in Steps(w) : x.op # "draw"
    BY <1>3, <2>1, <2>3
  <2>7. \A x \in Steps(w) : x \in Steps(u) \/ (x.op = op /\ x.ids \subseteq These(t))
    BY <1>1, <1>2, <2>1
  <2>8. QED BY <2>1, <2>2, <2>5, <2>6, <2>7 DEF u
<1>7. QED BY <1>5, <1>6

-----------------------------------------------------------------------------
(* Every reachable state is well typed.                                    *)

LEMMA InitTyped == Init => TypeOK
<1> SUFFICES ASSUME Init PROVE TypeOK
  OBVIOUS
<1>1. StoreTypeOK
  <2>1. \A f : f = <<>> => DOMAIN f = {}
    OBVIOUS
  <2>2. DOMAIN states_ = {} /\ DOMAIN objects_ = {}
    BY <2>1 DEF Init
  <2>3. pending_cheat_flush_ = FALSE /\ revived = {}
    BY DEF Init
  <2>4. QED BY <2>2, <2>3 DEF StoreTypeOK
<1>2. GameTypeOK
  BY PlayerObjectsAssumption DEF Init, GameTypeOK
<1>3. SessionTypeOK
  BY DEF Init, SessionTypeOK, Free
<1>4. CodeTypeOK
  BY EmptyOrderly DEF Init, CodeTypeOK
<1>5. QED BY <1>1, <1>2, <1>3, <1>4 DEF TypeOK

LEMMA CodeTyped ==
  ASSUME TypeOK, Next
  PROVE  CodeTypeOK'
<1> USE DEF TypeOK
<1>1. \A t \in Thread, w \in Seq(Step) : Starts(t, w) => CodeTypeOK'
  BY Given
<1>2. \A t \in Thread : \A op : At(t, op) /\ Done(t) => CodeTypeOK'
  BY Stepped
<1>3. CodeTypeOK /\ (UNCHANGED code => CodeTypeOK')
  BY DEF CodeTypeOK
<1>4. "game" \in Thread /\ "net" \in Thread /\ "console" \in Thread
  BY DEF Thread
<1>5. ASSUME NEW t \in Thread, Goes(t) PROVE CodeTypeOK'
  <2>1. CASE \/ Destroy(t) \/ Made(t) \/ ShowEntry(t) \/ HideEntry(t) \/ HideObject(t) \/ Unlock(t)
             \/ Clear(t) \/ LogOut(t)
    BY <1>2, <2>1 DEF Destroy, Made, ShowEntry, HideEntry, HideObject, Unlock, Clear, LogOut
  <2>2. CASE InitPlayers(t)
    <3> DEFINE others == DOMAIN states_ \ {Me}
               x == Of("init", others)
               y == S("made")
    <3>1. others \in SUBSET Id
      BY DEF StoreTypeOK
    <3>2. x \in Step /\ y \in Step
      BY <3>1, SOf, OpNames
    <3>3. Tail(code[t]) \in Seq(Step)
      BY <2>2, Heads DEF InitPlayers
    <3>4. Done(t) \/ Starts(t, <<x, y>> \o Tail(code[t]))
      BY <2>2 DEF InitPlayers
    <3> HIDE DEF x, y
    <3>5. <<x, y>> \o Tail(code[t]) \in Seq(Step)
      BY <3>2, <3>3, Joins, Consed
    <3>6. At(t, "players")
      BY <2>2 DEF InitPlayers
    <3>7. QED BY <1>1, <1>2, <3>4, <3>5, <3>6
  <2>3. CASE InitPlayer(t)
    <3>1. PICK id \in These(t) : OneDone(t, id, <<>>)
      BY <2>3 DEF InitPlayer
    <3>2. Loop(t, id) \in Seq(Step)
      BY <2>3, LoopLeft DEF InitPlayer
    <3>3. Starts(t, <<>> \o Loop(t, id))
      BY <3>1 DEF OneDone, Loop
    <3>4. <<>> \o Loop(t, id) = Loop(t, id)
      BY <3>2, ConcatEmptySeq
    <3>5. QED BY <1>1, <3>2, <3>3, <3>4
  <2>4. CASE ShowObject(t)
    <3>1. PICK ch \in BOOLEAN :
            Starts(t, <<Of("entry", IF ch THEN {Me} ELSE {})>> \o Tail(Tail(code[t])))
      BY <2>4 DEF ShowObject
    <3> DEFINE x == Of("entry", IF ch THEN {Me} ELSE {})
    <3>2. x \in Step
      <4>1. (IF ch THEN {Me} ELSE {}) \in SUBSET Id
        BY DEF Id
      <4>2. QED BY <4>1, SOf, OpNames
    <3>3. code[t] \in Seq(Step) /\ At(t, "object") /\ Tail(code[t]) \in Seq(Step)
      BY <2>4, Heads DEF ShowObject
    <3>4. QED
      <4>1. CASE Tail(code[t]) # <<>>
        <5>1. Tail(Tail(code[t])) \in Seq(Step)
          BY <3>3, <4>1, Beheaded
        <5> HIDE DEF x
        <5>2. <<x>> \o Tail(Tail(code[t])) \in Seq(Step)
          BY <3>2, <5>1, Consed
        <5>3. QED BY <1>1, <3>1, <5>2 DEF x
      <4>2. CASE Tail(code[t]) = <<>>
        <5>1. Tail(Tail(code[t])) = <<>>
          BY <4>2
        <5> HIDE DEF x
        <5>2. <<x>> \o <<>> \in Seq(Step)
          BY <3>2, EmptyOrderly, Consed
        <5>3. QED BY <1>1, <3>1, <5>1, <5>2 DEF x
      <4>3. QED BY <4>1, <4>2
  <2>5. QED BY <1>5, <2>1, <2>2, <2>3, <2>4 DEF Goes
<1>6. ASSUME Check PROVE CodeTypeOK'
  <2>1. PICK id \in These("game") : OneDone("game", id, <<Of("draw", {id})>>)
    BY <1>6 DEF Check
  <2>2. At("game", "check") /\ These("game") \subseteq Id
    BY <1>4, <1>6, Heads DEF Check
  <2> DEFINE x == Of("draw", {id})
  <2>3. x \in Step
    <3>1. {id} \in SUBSET Id
      BY <2>1, <2>2
    <3>2. QED BY <3>1, SOf, OpNames
  <2> HIDE DEF x
  <2>4. Loop("game", id) \in Seq(Step)
    BY <1>4, <2>2, LoopLeft
  <2>5. Starts("game", <<x>> \o Loop("game", id))
    BY <2>1 DEF OneDone, Loop, x
  <2>6. <<x>> \o Loop("game", id) \in Seq(Step)
    BY <2>3, <2>4, Consed
  <2>7. QED BY <1>1, <1>4, <2>5, <2>6
<1>7. ASSUME \/ ReadFlush \/ UnsetFlush \/ Draw \/ Drawn \/ UpdateFails \/ SkipDraw \/ StartLevel
             \/ Fill \/ \E id \in Id : Write(id)
      PROVE  CodeTypeOK'
  BY <1>2, <1>4, <1>7
     DEF ReadFlush, UnsetFlush, Draw, Drawn, UpdateFails, SkipDraw, StartLevel, Fill, Write
<1>8. ASSUME RunScheduled \/ LoadBalls \/ PlayerConnected \/ PlayerDisconnected \/ ShowWithoutHandler
      PROVE  CodeTypeOK'
  BY <1>3, <1>8 DEF RunScheduled, LoadBalls, PlayerConnected, PlayerDisconnected, ShowWithoutHandler
<1>9. ASSUME Frame \/ LoadLevel \/ StartMenu \/ PressReload \/ TypeReload \/ ToggleOwnBall
      PROVE  CodeTypeOK'
  BY <1>1, <1>4, <1>9, FramePlan, LevelPlans, TogglePlan
     DEF Frame, LoadLevel, StartMenu, PressReload, TypeReload, Reloads, ToggleOwnBall, Plan
<1>10. ASSUME Update PROVE CodeTypeOK'
  <2>1. DOMAIN states_ \in SUBSET Id
    BY DEF StoreTypeOK
  <2>2. \/ Starts("game", <<S("drawn")>>)
        \/ Starts("game", <<Of("check", DOMAIN states_), S("drawn")>>)
    BY <1>10 DEF Update
  <2>3. <<S("drawn")>> \in Seq(Step) /\ <<Of("check", DOMAIN states_), S("drawn")>> \in Seq(Step)
    BY <2>1, DrawPlan DEF Plan
  <2>4. QED BY <1>1, <1>4, <2>2, <2>3
<1>11. ASSUME ToggleLocked PROVE CodeTypeOK'
  <2>1. \/ Starts("game", <<S("no entry"), S("no object")>> \o <<S("unlock")>>)
        \/ Starts("game", <<S("object"), S("entry")>> \o <<S("unlock")>>)
    BY <1>11 DEF ToggleLocked
  <2>2. QED BY <1>1, <1>4, <2>1, TogglePlans DEF Plan
<1>12. ASSUME Cleanup PROVE CodeTypeOK'
  <2>1. Starts("console", CleanupPlan(own_ball_visible_))
    BY <1>12 DEF Cleanup, CleanupPlan
  <2>2. CleanupPlan(own_ball_visible_) \in Seq(Step)
    BY CleanupPlans DEF Plan
  <2>3. QED BY <1>1, <1>4, <2>1, <2>2
<1>13. ASSUME LoginAccepted PROVE CodeTypeOK'
  <2>1. PICK online \in SUBSET (Peer \ gone) :
          Starts("net", (IF logged_in_ THEN PlayersFirst ELSE <<>>)
                        \o <<Of("fill", online), S("unlock")>>)
    BY <1>13 DEF LoginAccepted
  <2>2. online \in SUBSET Id
    BY <2>1 DEF Id
  <2>3. \/ Starts("net", <<>> \o <<Of("fill", online), S("unlock")>>)
        \/ Starts("net", PlayersFirst \o <<Of("fill", online), S("unlock")>>)
    BY <2>1
  <2>4. /\ <<>> \o <<Of("fill", online), S("unlock")>> \in Seq(Step)
        /\ PlayersFirst \o <<Of("fill", online), S("unlock")>> \in Seq(Step)
    BY <2>2, LoginPlans DEF Plan
  <2>5. QED BY <1>1, <1>4, <2>3, <2>4
<1>14. ASSUME CheatState \/ \E id \in Id : LatencyData(id) PROVE CodeTypeOK'
  <2>1. \E id \in Id, c \in SUBSET BOOLEAN :
          Starts("net", <<[op |-> "write", ids |-> {id}, cheated |-> c]>>)
    BY <1>14 DEF CheatState, LatencyData, StoreTypeOK
  <2>2. \A id \in Id, c \in SUBSET BOOLEAN :
          <<[op |-> "write", ids |-> {id}, cheated |-> c]>> \in Seq(Step)
    BY WritePlan DEF Plan
  <2>3. QED BY <1>1, <1>4, <2>1, <2>2
<1>15. QED
  BY <1>5, <1>6, <1>7, <1>8, <1>9, <1>10, <1>11, <1>12, <1>13, <1>14 DEF Next, FrameGoes

LEMMA StoreTyped ==
  ASSUME TypeOK, Next
  PROVE  StoreTypeOK'
<1> USE DEF TypeOK
<1> DEFINE vs == <<states_, objects_, pending_cheat_flush_, revived>>
<1>1. UNCHANGED vs => StoreTypeOK'
  BY DEF StoreTypeOK
<1>2. "game" \in Thread /\ "net" \in Thread /\ "console" \in Thread
  BY DEF Thread
<1>3. /\ Label(TRUE) \in {NoLabel, Label(TRUE), Label(FALSE)}
      /\ \A ch : Label(ch) \in {NoLabel, Label(TRUE), Label(FALSE)}
  BY DEF Label
<1>4. template_init_ \in BOOLEAN /\ Empty \in Object /\ \A ch : [balls |-> Copied, label |-> Label(ch)] \in Object
  BY <1>3 DEF GameTypeOK, Copied, Empty, Object
<1>5. \A id \in Id : \A ch : /\ DOMAIN WithPlayer(id, ch) \subseteq Id
                             /\ \A d \in DOMAIN WithPlayer(id, ch) : WithPlayer(id, ch)[d] \in Object
  BY <1>4 DEF WithPlayer, With, StoreTypeOK
<1>6. \A W : DOMAIN Without(objects_, W) \subseteq Id
             /\ \A d \in DOMAIN Without(objects_, W) : Without(objects_, W)[d] \in Object
  BY DEF Without, StoreTypeOK
<1>7. \A W : DOMAIN Without(states_, W) \subseteq Id
             /\ \A d \in DOMAIN Without(states_, W) : Without(states_, W)[d] \in BOOLEAN
  BY DEF Without, StoreTypeOK
<1>8. \A id \in Id, ch \in BOOLEAN : DOMAIN With(states_, id, ch) \subseteq Id
                                     /\ \A d \in DOMAIN With(states_, id, ch) : With(states_, id, ch)[d] \in BOOLEAN
  BY DEF With, StoreTypeOK
<1>9. DOMAIN <<>> = {} /\ Me \in Id /\ Peer \subseteq Id
  BY DEF Id
<1>10. ASSUME UNCHANGED dbVars, objects_' = <<>> \/ (\E W : objects_' = Without(objects_, W))
                                                   \/ (\E id \in Id : \E ch : objects_' = WithPlayer(id, ch))
       PROVE  StoreTypeOK'
  BY <1>5, <1>6, <1>9, <1>10 DEF StoreTypeOK, dbVars
<1>11. ASSUME NEW t \in Thread, Goes(t) PROVE StoreTypeOK'
  <2>1. CASE InitPlayers(t) \/ Made(t) \/ Unlock(t) \/ LogOut(t)
    BY <1>1, <2>1 DEF InitPlayers, Made, Unlock, LogOut, dbVars
  <2>2. CASE Destroy(t)
    BY <1>10, <2>2 DEF Destroy
  <2>3. CASE InitPlayer(t)
    <3>1. At(t, "init") /\ These(t) \subseteq Id
      BY <2>3, Heads DEF InitPlayer
    <3>2. PICK id \in These(t) : objects_' = WithPlayer(id, states_[id])
      BY <2>3 DEF InitPlayer
    <3>3. QED BY <1>10, <2>3, <3>1, <3>2 DEF InitPlayer
  <2>4. CASE ShowObject(t)
    BY <1>9, <1>10, <2>4 DEF ShowObject
  <2>5. CASE HideObject(t)
    BY <1>10, <2>5 DEF HideObject
  <2>6. CASE ShowEntry(t)
    <3>1. (These(t) # {}) \in BOOLEAN
      OBVIOUS
    <3>2. states_' = states_ \/ states_' = With(states_, Me, These(t) # {})
      BY <2>6 DEF ShowEntry
    <3>3. UNCHANGED <<pending_cheat_flush_, objects_>> /\ revived' \subseteq Id
      BY <1>9, <2>6 DEF ShowEntry, StoreTypeOK
    <3>4. CASE states_' = states_
      BY <3>3, <3>4 DEF StoreTypeOK
    <3>5. CASE states_' = With(states_, Me, These(t) # {})
      BY <1>8, <1>9, <3>1, <3>3, <3>5 DEF StoreTypeOK
    <3>6. QED BY <3>2, <3>4, <3>5
  <2>7. CASE HideEntry(t)
    BY <1>7, <2>7 DEF HideEntry, StoreTypeOK
  <2>8. CASE Clear(t)
    <3>1. states_' = <<>> /\ revived' = {} /\ UNCHANGED <<pending_cheat_flush_, objects_>>
      BY <2>8 DEF Clear
    <3>2. DOMAIN states_' = {}
      BY <1>9, <3>1
    <3>3. QED BY <3>1, <3>2 DEF StoreTypeOK
  <2>9. QED BY <1>11, <2>1, <2>2, <2>3, <2>4, <2>5, <2>6, <2>7, <2>8 DEF Goes
<1>12. ASSUME \/ ReadFlush \/ Drawn \/ SkipDraw \/ Frame \/ Update \/ LoadLevel \/ StartLevel
              \/ StartMenu \/ ToggleOwnBall \/ ToggleLocked \/ ShowWithoutHandler
              \/ PressReload \/ TypeReload \/ Cleanup \/ LoginAccepted \/ CheatState \/ \E id \in Id : LatencyData(id)
       PROVE  StoreTypeOK'
  BY <1>1, <1>12
     DEF ReadFlush, Drawn, SkipDraw, Frame, Update, LoadLevel, StartLevel, StartMenu, ToggleOwnBall,
         ToggleLocked, ShowWithoutHandler, PressReload, TypeReload, Reloads, Cleanup, LoginAccepted, CheatState, LatencyData, dbVars
<1>13. ASSUME UnsetFlush \/ UpdateFails PROVE StoreTypeOK'
  <2>1. UNCHANGED <<states_, revived, objects_>> /\ pending_cheat_flush_' \in BOOLEAN
    BY <1>13 DEF UnsetFlush, UpdateFails, StoreTypeOK, GameTypeOK
  <2>2. QED BY <2>1 DEF StoreTypeOK
<1>14. ASSUME Check PROVE StoreTypeOK'
  <2>1. PICK id \in These("game") : objects_' = MadeNow(id)
    BY <1>14 DEF Check
  <2>2. At("game", "check") /\ id \in Id
    BY <1>2, <1>14, <2>1, Heads DEF Check
  <2>3. UNCHANGED dbVars
    BY <1>14 DEF Check
  <2>4. CASE objects_' = objects_
    BY <1>1, <2>3, <2>4 DEF dbVars
  <2>5. CASE objects_' = WithPlayer(id, states_[id])
    BY <1>2, <1>10, <2>2, <2>3, <2>5
  <2>6. QED BY <2>1, <2>4, <2>5 DEF MadeNow
<1>15. ASSUME Draw PROVE StoreTypeOK'
  <2>1. PICK id \in These("game") :
          IF HasBalls(id)
          THEN objects_' = IF flush THEN [objects_ EXCEPT ![id].label = Label(states_[id])] ELSE objects_
          ELSE objects_' = With(objects_, id, Empty)
    BY <1>15 DEF Draw
  <2>2. At("game", "draw") /\ id \in Id
    BY <1>2, <1>15, <2>1, Heads DEF Draw
  <2>3. UNCHANGED dbVars
    BY <1>15 DEF Draw
  <2>4. CASE objects_' = objects_
    BY <1>1, <2>3, <2>4 DEF dbVars
  <2>5. CASE HasBalls(id) /\ objects_' = [objects_ EXCEPT ![id].label = Label(states_[id])]
    <3>1. \A o \in Object : \A ch : [o EXCEPT !.label = Label(ch)] \in Object
      BY <1>3 DEF Object
    <3>2. id \in DOMAIN objects_
      BY <2>5 DEF HasBalls
    <3>3. DOMAIN objects_' \subseteq Id /\ \A d \in DOMAIN objects_' : objects_'[d] \in Object
      BY <2>5, <3>1, <3>2 DEF StoreTypeOK
    <3>4. QED BY <2>3, <3>3 DEF StoreTypeOK, dbVars
  <2>6. CASE objects_' = With(objects_, id, Empty)
    <3>1. DOMAIN objects_' \subseteq Id /\ \A d \in DOMAIN objects_' : objects_'[d] \in Object
      BY <1>4, <2>2, <2>6 DEF StoreTypeOK, With
    <3>2. QED BY <2>3, <3>1 DEF StoreTypeOK, dbVars
  <2>7. QED BY <2>1, <2>4, <2>5, <2>6
<1>16. ASSUME RunScheduled \/ LoadBalls PROVE StoreTypeOK'
  BY <1>2, <1>10, <1>16 DEF RunScheduled, LoadBalls
<1>17. ASSUME Fill PROVE StoreTypeOK'
  <2>1. At("net", "fill") /\ These("net") \subseteq Id
    BY <1>2, <1>17, Heads DEF Fill
  <2>2. /\ states_' = [d \in DOMAIN states_ \cup These("net") |->
                          IF d \in DOMAIN states_ THEN states_[d] ELSE FALSE]
        /\ UNCHANGED <<pending_cheat_flush_, revived, objects_>>
    BY <1>17 DEF Fill
  <2>3. DOMAIN states_' \subseteq Id /\ \A d \in DOMAIN states_' : states_'[d] \in BOOLEAN
    BY <2>1, <2>2 DEF StoreTypeOK
  <2>4. QED BY <2>2, <2>3 DEF StoreTypeOK
<1>18. ASSUME PlayerConnected PROVE StoreTypeOK'
  <2>1. PICK p \in Peer : /\ states_' = With(states_, p, FALSE)
                          /\ revived' = IF logged_in_ THEN revived ELSE revived \cup {p}
    BY <1>18 DEF PlayerConnected
  <2>2. UNCHANGED <<pending_cheat_flush_, objects_>>
    BY <1>18 DEF PlayerConnected
  <2>3. revived' \subseteq Id
    BY <1>9, <2>1 DEF StoreTypeOK
  <2>4. QED BY <1>8, <1>9, <2>1, <2>2, <2>3 DEF StoreTypeOK
<1>19. ASSUME PlayerDisconnected PROVE StoreTypeOK'
  <2>1. PICK p \in Peer : states_' = Without(states_, {p})
    BY <1>19 DEF PlayerDisconnected
  <2>2. UNCHANGED <<pending_cheat_flush_, revived, objects_>>
    BY <1>19 DEF PlayerDisconnected
  <2>3. QED BY <1>7, <2>1, <2>2 DEF StoreTypeOK
<1>20. ASSUME NEW id \in Id, Write(id) PROVE StoreTypeOK'
  <2> DEFINE m == Head(code["net"])
             old == IF id \in DOMAIN states_ THEN states_[id] ELSE FALSE
             new == IF m.cheated = {} THEN old ELSE TRUE \in m.cheated
  <2>1. /\ states_' = With(states_, id, new)
        /\ revived' = IF id \in DOMAIN states_ THEN revived ELSE revived \cup {id}
        /\ pending_cheat_flush_' = TRUE /\ UNCHANGED objects_
    BY <1>20 DEF Write, Flushed
  <2>2. new \in BOOLEAN
    <3>1. old \in BOOLEAN
      BY DEF StoreTypeOK
    <3>2. \A c : (TRUE \in c) \in BOOLEAN
      OBVIOUS
    <3> HIDE DEF old, m
    <3>3. QED BY <3>1, <3>2
  <2> HIDE DEF new
  <2>3. QED BY <1>8, <2>1, <2>2 DEF StoreTypeOK
<1>21. QED
  BY <1>11, <1>12, <1>13, <1>14, <1>15, <1>16, <1>17, <1>18, <1>19, <1>20 DEF Next, FrameGoes

LEMMA GameTyped ==
  ASSUME TypeOK, Next
  PROVE  GameTypeOK'
<1> USE DEF TypeOK
<1> DEFINE fs == <<template_init_, ingame, flush, crashed, crossed, stranded, scheduled>>
<1>1. UNCHANGED <<gameVars, left>> => GameTypeOK'
  BY DEF GameTypeOK, gameVars
<1>2. ASSUME NEW k \in {"levels", "commands", "logins", "cheats"}, Act(k), UNCHANGED fs
      PROVE  GameTypeOK'
  <2>1. left' \in [{"levels", "commands", "logins", "cheats"} -> Nat]
    BY <1>2 DEF Act, GameTypeOK
  <2>2. QED BY <1>2, <2>1 DEF GameTypeOK
<1>3. ASSUME NEW t \in Thread, Goes(t) PROVE GameTypeOK'
  <2>1. CASE Destroy(t)
    <3>1. crossed' \in BOOLEAN
      <4>1. (At("game", "draw") /\ t = "console" /\ code[t] = reload) \in BOOLEAN
        BY Zenon
      <4>2. crossed \in BOOLEAN
        BY DEF GameTypeOK
      <4>3. QED BY <2>1, <4>1, <4>2 DEF Destroy
    <3>2. QED BY <2>1, <3>1 DEF Destroy, GameTypeOK
  <2>2. CASE \/ InitPlayers(t) \/ InitPlayer(t) \/ Made(t) \/ ShowObject(t) \/ ShowEntry(t)
             \/ HideEntry(t) \/ HideObject(t) \/ Unlock(t) \/ Clear(t) \/ LogOut(t)
    BY <1>1, <2>2 DEF InitPlayers, InitPlayer, Made, ShowObject, ShowEntry, HideEntry, HideObject,
                      Unlock, Clear, LogOut
  <2>3. QED BY <1>3, <2>1, <2>2 DEF Goes
<1>4. ASSUME \/ Frame \/ UnsetFlush \/ UpdateFails \/ Update \/ Check \/ SkipDraw \/ Drawn
             \/ ToggleLocked \/ Cleanup
             \/ Fill \/ PlayerConnected \/ \E id \in Id : LatencyData(id) \/ Write(id)
      PROVE  GameTypeOK'
  BY <1>1, <1>4 DEF Frame, UnsetFlush, UpdateFails, Update, Check, SkipDraw, Drawn, ToggleLocked,
                    Cleanup, Fill, PlayerConnected, LatencyData, Write
<1>5. ASSUME \/ LoadLevel \/ PressReload \/ TypeReload \/ ToggleOwnBall \/ LoginAccepted \/ CheatState
      PROVE  GameTypeOK'
  BY <1>2, <1>5 DEF LoadLevel, PressReload, TypeReload, Reloads, ToggleOwnBall, LoginAccepted,
                    CheatState, gameVars
<1>6. ASSUME ReadFlush PROVE GameTypeOK'
  BY <1>6 DEF ReadFlush, GameTypeOK, StoreTypeOK
<1>7. ASSUME Draw PROVE GameTypeOK'
  <2>1. crashed' \in BOOLEAN /\ UNCHANGED <<template_init_, ingame, flush, crossed, stranded, scheduled, left>>
    BY <1>7 DEF Draw, GameTypeOK
  <2>2. QED BY <2>1 DEF GameTypeOK
<1>8. ASSUME RunScheduled \/ LoadBalls \/ StartLevel \/ StartMenu PROVE GameTypeOK'
  BY <1>8 DEF RunScheduled, LoadBalls, StartLevel, StartMenu, GameTypeOK
<1>9. ASSUME PlayerDisconnected PROVE GameTypeOK'
  BY <1>9 DEF PlayerDisconnected, GameTypeOK, Id
<1>10. ASSUME ShowWithoutHandler PROVE GameTypeOK'
  BY <1>10 DEF ShowWithoutHandler, GameTypeOK
<1>11. QED
  BY <1>3, <1>4, <1>5, <1>6, <1>7, <1>8, <1>9, <1>10 DEF Next, FrameGoes

LEMMA SessionTyped ==
  ASSUME TypeOK, Next
  PROVE  SessionTypeOK'
<1> USE DEF TypeOK
<1> DEFINE locks == bml_mtx_' \in Thread \cup {Free} /\ db_mutex' \in Thread \cup {Free}
<1>1. "game" \in Thread /\ "net" \in Thread /\ "console" \in Thread
  BY DEF Thread
<1>2. UNCHANGED lockVars => locks
  BY DEF SessionTypeOK, lockVars
<1>3. UNCHANGED <<sessionVars, lockVars>> => SessionTypeOK'
  BY DEF SessionTypeOK, sessionVars, lockVars
<1>4. ASSUME UNCHANGED sessionVars, locks PROVE SessionTypeOK'
  BY <1>4 DEF SessionTypeOK, sessionVars
<1>5. bml_mtx_ \in Thread \cup {Free} /\ db_mutex \in Thread \cup {Free}
  BY DEF SessionTypeOK
<1>6. ASSUME NEW t \in Thread, Goes(t) PROVE SessionTypeOK'
  <2>1. CASE Destroy(t) \/ InitPlayer(t) \/ ShowObject(t) \/ HideEntry(t) \/ Clear(t)
    BY <1>3, <2>1 DEF Destroy, InitPlayer, ShowObject, HideEntry, Clear
  <2>2. CASE InitPlayers(t) \/ Made(t) \/ Unlock(t)
    <3>1. locks
      BY <1>5, <1>6, <2>2 DEF InitPlayers, Made, Unlock
    <3>2. QED BY <1>4, <2>2, <3>1 DEF InitPlayers, Made, Unlock
  <2>3. CASE ShowEntry(t) \/ HideObject(t) \/ LogOut(t)
    BY <2>3 DEF ShowEntry, HideObject, LogOut, SessionTypeOK, lockVars
  <2>4. QED BY <1>6, <2>1, <2>2, <2>3 DEF Goes
<1>7. ASSUME \/ ReadFlush \/ UnsetFlush \/ Check \/ Draw \/ SkipDraw \/ RunScheduled \/ LoadBalls
             \/ LoadLevel \/ StartLevel \/ StartMenu \/ PressReload \/ TypeReload \/ ToggleOwnBall
             \/ ShowWithoutHandler \/ \E id \in Id : Write(id)
      PROVE  SessionTypeOK'
  BY <1>3, <1>7 DEF ReadFlush, UnsetFlush, Check, Draw, SkipDraw, RunScheduled, LoadBalls, LoadLevel,
                    StartLevel, StartMenu, PressReload, TypeReload, Reloads, ToggleOwnBall,
                    ShowWithoutHandler, Write
<1>8. ASSUME Frame \/ UpdateFails \/ Update \/ Drawn \/ ToggleLocked \/ Cleanup PROVE SessionTypeOK'
  <2>1. locks
    BY <1>1, <1>5, <1>8 DEF Frame, UpdateFails, Update, Drawn, ToggleLocked, Cleanup
  <2>2. QED BY <1>4, <1>8, <2>1 DEF Frame, UpdateFails, Update, Drawn, ToggleLocked, Cleanup
<1>9. ASSUME LoginAccepted PROVE SessionTypeOK'
  <2>1. locks
    BY <1>1, <1>5, <1>9 DEF LoginAccepted
  <2>2. QED BY <1>9, <2>1 DEF LoginAccepted, SessionTypeOK
<1>10. ASSUME Fill \/ PlayerConnected \/ CheatState \/ (\E id \in Id : LatencyData(id))
       PROVE  SessionTypeOK'
  BY <1>10 DEF Fill, PlayerConnected, CheatState, LatencyData, Handles, SessionTypeOK, lockVars
<1>11. ASSUME PlayerDisconnected PROVE SessionTypeOK'
  BY <1>11 DEF PlayerDisconnected, Handles, SessionTypeOK, lockVars
<1>12. QED
  BY <1>6, <1>7, <1>8, <1>9, <1>10, <1>11 DEF Next, FrameGoes

LEMMA NextTyped == TypeOK /\ [Next]_vars => TypeOK'
<1>1. CASE Next
  BY <1>1, StoreTyped, GameTyped, SessionTyped, CodeTyped DEF TypeOK
<1>2. CASE UNCHANGED vars
  BY <1>2 DEF vars, dbVars, lockVars, gameVars, sessionVars, TypeOK, StoreTypeOK, GameTypeOK,
              SessionTypeOK, CodeTypeOK
<1>3. QED BY <1>1, <1>2

(* What the threads hold and have left to do is well typed: the objects    *)
(* and entries are of players, and what a thread has left is steps.        *)
THEOREM TypeCorrect == Spec => []TypeOK
<1>1. QED BY InitTyped, NextTyped, PTL DEF Spec

-----------------------------------------------------------------------------
(* What a step of one thread does to what there is to do.                  *)

(* t gets done with steps called one of lost, and plans some called one of *)
(* new.                                                                    *)
Moves(t, lost, new) ==
  /\ \A u \in Thread : u # t => code'[u] = code[u] /\ ToDo(u)' = ToDo(u)
  /\ Orderly(code'[t])
  /\ \A x \in ToDo(t) : x \in ToDo(t)' \/ x.op \in lost
  /\ \A x \in ToDo(t)' : x \in ToDo(t) \/ x.op \in new

LEMMA StepMoves ==
  ASSUME CodeTypeOK, Order, NEW t \in Thread, NEW op, At(t, op), Done(t)
  PROVE  /\ Moves(t, {op}, {}) /\ ToDo(t)' \subseteq ToDo(t)
         /\ Head(code[t]) \in ToDo(t) /\ Head(code[t]).op = op /\ ~ crashed
         /\ op \in Closes => ToDo(t)' = {}
         /\ op \in {"players", "made"} => \A x \in ToDo(t)' : x.op = "start"
         /\ op = "log out" => \A x \in ToDo(t)' : x.op = "unlock"
         /\ op = "clear" => Will(t, "destroy")'
         /\ op = "no entry" => Will(t, "no object")'
         /\ \A x \in ToDo(t)' : x.op # "draw"
<1> DEFINE s == code[t]
           h == Head(s)
           u == Tail(s)
<1>1. s \in Seq(Step) /\ s # <<>> /\ h.op = op /\ ~ crashed /\ Orderly(s)
  BY Heads DEF Order
<1>2. code'[t] = u /\ ToDo(t) = {h} \cup ToDo(t)'
      /\ \A v \in Thread : v # t => code'[v] = code[v] /\ ToDo(v)' = ToDo(v)
  BY Stepped
<1>3. ToDo(t)' = Steps(u)
  BY <1>2 DEF ToDo
<1>4. /\ Orderly(u)
      /\ op \in Closes => u = <<>>
      /\ op \in {"players", "made"} => \A x \in Steps(u) : x.op = "start"
      /\ op = "log out" => \A x \in Steps(u) : x.op = "unlock"
      /\ op = "clear" => \E x \in Steps(u) : x.op = "destroy"
      /\ op = "no entry" => \E x \in Steps(u) : x.op = "no object"
      /\ \A x \in Steps(u) : x.op # "draw"
  BY <1>1, TailOrderly
<1> HIDE DEF s, h, u
<1>5. Moves(t, {op}, {})
  BY <1>1, <1>2, <1>4 DEF Moves
<1>6. op = "clear" => Will(t, "destroy")'
  BY <1>3, <1>4 DEF Will
<1>7. op = "no entry" => Will(t, "no object")'
  BY <1>3, <1>4 DEF Will
<1>8. op \in Closes => ToDo(t)' = {}
  BY <1>3, <1>4, EmptyOrderly
<1>9. h \in ToDo(t) /\ ToDo(t)' \subseteq ToDo(t)
  BY <1>2
<1>10. QED BY <1>1, <1>3, <1>4, <1>5, <1>6, <1>7, <1>8, <1>9 DEF s, h

LEMMA PlanMoves ==
  ASSUME CodeTypeOK, NEW t \in Thread, NEW w, NEW ops, Starts(t, w), Plan(w, ops),
         NEW lost, \A x \in ToDo(t) : x.op \in lost
  PROVE  Moves(t, lost, ops) /\ ToDo(t)' = Steps(w) /\ \A x \in ToDo(t)' : x.op \in ops
<1>1. code'[t] = w /\ ToDo(t)' = Steps(w)
      /\ \A v \in Thread : v # t => code'[v] = code[v] /\ ToDo(v)' = ToDo(v)
  BY Given DEF Plan
<1>2. QED BY <1>1 DEF Moves, Plan

LEMMA IdleEmpty ==
  ASSUME NEW t \in Thread, Idle(t)
  PROVE  ToDo(t) = {} /\ ~ crashed
BY EmptyOrderly DEF Idle, ToDo

LEMMA StaysMoves ==
  ASSUME Order, UNCHANGED code
  PROVE  Moves("game", {}, {}) /\ \A t \in Thread : ToDo(t)' = ToDo(t)
BY DEF Moves, Order, ToDo, Thread

-----------------------------------------------------------------------------
(* When each part of the invariant stays.                                  *)

LEMMA OrderKept ==
  ASSUME CodeTypeOK, Order, NEW t \in Thread, NEW lost, NEW new, Moves(t, lost, new)
  PROVE  Order'
BY DEF Order, Moves

Keeps(t) ==
  /\ bml_mtx_ = t => bml_mtx_' = t
  /\ db_mutex = t => db_mutex' = t /\ DOMAIN states_ \subseteq DOMAIN states_'

LEMMA LockingKept ==
  ASSUME Locking, NEW t \in Thread, NEW lost, NEW new, Moves(t, lost, new),
         \A u \in Thread : u # t => Keeps(u),
         \A x \in ToDo(t)' : (x \in ToDo(t) /\ Keeps(t)) \/ Held(t, x)'
  PROVE  Locking'
<1>1. ASSUME NEW u \in Thread, NEW x, Held(u, x), Keeps(u) PROVE Held(u, x)'
  <2>1. OpsOf(u)' = OpsOf(u) /\ BmlOps(u)' = BmlOps(u) /\ DbOps' = DbOps
    BY DEF OpsOf, BmlOps, DbOps
  <2>2. {"init", "check", "draw"} \subseteq DbOps
    BY DEF DbOps
  <2>3. QED BY <1>1, <2>1, <2>2 DEF Held, Keeps
<1>2. ASSUME NEW u \in Thread, NEW x \in ToDo(u)' PROVE Held(u, x)'
  <2>1. CASE u # t
    BY <1>1, <1>2, <2>1 DEF Moves, Locking
  <2>2. CASE u = t
    BY <1>1, <1>2, <2>2 DEF Locking
  <2>3. QED BY <2>1, <2>2
<1>3. QED BY <1>2 DEF Locking

LEMMA DestroysKept ==
  ASSUME ConsoleDestroys, NEW t \in Thread, NEW lost, NEW new, Moves(t, lost, new),
         bml_mtx_ = "console" => bml_mtx_' = "console" \/ ~ Will("console", "destroy")',
         t = "console" => /\ "destroy" \notin new
                          /\ code["console"] = reload => ~ Will("console", "destroy")'
  PROVE  ConsoleDestroys'
<1>1. "console" \in Thread
  BY DEF Thread
<1>2. CASE t # "console"
  BY <1>1, <1>2 DEF Moves, ConsoleDestroys, Will
<1>3. CASE t = "console"
  <2>1. Will("console", "destroy")' => Will("console", "destroy")
    BY <1>3 DEF Moves, Will
  <2>2. QED BY <1>3, <2>1 DEF ConsoleDestroys
<1>4. QED BY <1>2, <1>3

LEMMA BallsKept ==
  ASSUME BallsLoaded, NEW t \in Thread, NEW lost, NEW new, Moves(t, lost, new),
         UNCHANGED template_init_, ingame' => template_init_,
         t = "game" /\ new \cap BmlOps("game") # {} => template_init_,
         \A id \in DOMAIN objects_' : \/ id \in DOMAIN objects_ /\ objects_'[id].balls = objects_[id].balls
                                      \/ objects_'[id].balls = template_init_
  PROVE  BallsLoaded'
<1>1. "game" \in Thread
  BY DEF Thread
<1>2. ASSUME NEW x \in ToDo("game")', x.op \in BmlOps("game") PROVE template_init_
  <2>1. CASE x \in ToDo("game")
    BY <1>2, <2>1 DEF BallsLoaded
  <2>2. CASE x \notin ToDo("game")
    BY <1>1, <1>2, <2>2 DEF Moves
  <2>3. QED BY <2>1, <2>2
<1>3. template_init_ => \A id \in DOMAIN objects_' : objects_'[id].balls
  BY DEF BallsLoaded
<1>4. BmlOps("game")' = BmlOps("game")
  BY DEF BmlOps
<1>5. QED BY <1>2, <1>3, <1>4 DEF BallsLoaded

LEMMA TogglesKept ==
  ASSUME TogglesLoaded, NEW t \in Thread, NEW lost, NEW new, Moves(t, lost, new),
         UNCHANGED template_init_, t = "game" /\ "toggle" \in new => template_init_
  PROVE  TogglesLoaded'
<1>1. "game" \in Thread
  BY DEF Thread
<1>2. ASSUME NEW x \in ToDo("game")', x.op = "toggle" PROVE template_init_
  BY <1>1, <1>2 DEF Moves, TogglesLoaded
<1>3. QED BY <1>2 DEF TogglesLoaded

LEMMA DrawsKept ==
  ASSUME DrawsMade, NEW t \in Thread, NEW lost, NEW new, Moves(t, lost, new), crossed => crossed',
         "draw" \notin new,
         \/ DOMAIN objects_ \subseteq DOMAIN objects_'
         \/ (\A x \in ToDo("game")' : x.op # "draw") \/ crossed'
  PROVE  DrawsMade'
<1>1. "game" \in Thread
  BY DEF Thread
<1>2. ASSUME NEW x \in ToDo("game")', x.op = "draw" PROVE x.ids \subseteq DOMAIN objects_' \/ crossed'
  <2>1. x \in ToDo("game")
    BY <1>1, <1>2 DEF Moves
  <2>2. QED BY <1>2, <2>1 DEF DrawsMade
<1>3. QED BY <1>2 DEF DrawsMade

LEMMA WillStay ==
  ASSUME NEW t \in Thread, NEW lost, NEW new, Moves(t, lost, new), NEW u \in Thread, NEW op,
         op \notin lost, Will(u, op)
  PROVE  Will(u, op)'
BY DEF Moves, Will

LEMMA AccountedKept ==
  ASSUME ObjectsAccounted, NEW t \in Thread, NEW lost, NEW new, Moves(t, lost, new),
         lost \cap {"destroy", "no object", "entry"} = {},
         DOMAIN states_ \subseteq DOMAIN states_', scheduled \subseteq scheduled',
         \A id \in DOMAIN objects_' : id \in DOMAIN objects_ \/ id \in DOMAIN states_'
  PROVE  ObjectsAccounted'
<1>1. ASSUME NEW id \in DOMAIN objects_, Accounted(id) PROVE Accounted(id)'
  <2>1. ASSUME NEW u \in Thread, NEW op \in {"destroy", "no object", "entry"}, Will(u, op)
        PROVE  Will(u, op)'
    BY <2>1, WillStay
  <2>2. QED BY <1>1, <2>1 DEF Accounted
<1>2. ASSUME NEW id \in DOMAIN states_' PROVE Accounted(id)'
  BY <1>2 DEF Accounted
<1>3. QED BY <1>1, <1>2 DEF ObjectsAccounted

LEMMA RevivedKept ==
  ASSUME OnlyRevived, NEW t \in Thread, NEW lost, NEW new, Moves(t, lost, new),
         UNCHANGED logged_in_, "clear" \notin lost,
         t = "console" /\ "log out" \in new => Will("console", "clear")',
         DOMAIN states_' \subseteq DOMAIN states_, UNCHANGED revived
  PROVE  OnlyRevived'
<1>1. "console" \in Thread
  BY DEF Thread
<1>2. Will("console", "clear") => Will("console", "clear")'
  BY <1>1, WillStay
<1>3. Will("console", "log out")' => Will("console", "log out") \/ Will("console", "clear")'
  BY <1>1 DEF Moves, Will
<1>4. Cleared' => Cleared
  BY <1>2, <1>3 DEF Cleared
<1>5. QED BY <1>4 DEF OnlyRevived

-----------------------------------------------------------------------------
(* Steps that change neither objects nor entries.                          *)

LEMMA Quiet ==
  ASSUME TypeOK, Control, NEW t \in Thread, NEW lost, NEW new, Moves(t, lost, new),
         UNCHANGED <<states_, revived, objects_, scheduled, logged_in_, template_init_, crossed>>,
         Locking', ingame' => template_init_,
         bml_mtx_ = "console" => bml_mtx_' = "console" \/ ~ Will("console", "destroy")',
         t = "console" => /\ "destroy" \notin new
                          /\ code["console"] = reload => ~ Will("console", "destroy")',
         t = "console" /\ "log out" \in new => Will("console", "clear")',
         t = "game" /\ new \cap BmlOps("game") # {} => template_init_,
         t = "game" /\ "toggle" \in new => template_init_,
         lost \cap {"destroy", "no object", "entry", "clear"} = {}, "draw" \notin new
  PROVE  Control'
<1> USE DEF Control
<1>1. Order'
  BY OrderKept DEF TypeOK
<1>2. ConsoleDestroys'
  BY DestroysKept
<1>3. BallsLoaded'
  BY BallsKept
<1>4. TogglesLoaded'
  BY TogglesKept
<1>5. DrawsMade'
  BY DrawsKept
<1>6. ObjectsAccounted'
  BY AccountedKept
<1>7. OnlyRevived'
  BY RevivedKept
<1>8. QED BY <1>1, <1>2, <1>3, <1>4, <1>5, <1>6, <1>7

LEMMA SameKeeps ==
  ASSUME UNCHANGED lockVars, DOMAIN states_ \subseteq DOMAIN states_' \/ DbFree
  PROVE  \A u \in Thread : Keeps(u)
BY DEF lockVars, DbFree, Free, Thread, Keeps

LEMMA ReloadFirst ==
  ASSUME TypeOK, NEW t \in Thread, NEW op, At(t, op), code[t] = reload
  PROVE  op = "destroy"
<1>1. Head(code[t]).op = op
  BY Heads DEF TypeOK
<1>2. Head(reload).op = "destroy"
  BY LevelPlans
<1>3. QED BY <1>1, <1>2

LEMMA QuietStep ==
  ASSUME TypeOK, Control, NEW t \in Thread, NEW op, At(t, op), Done(t),
         UNCHANGED <<states_, revived, objects_, scheduled, logged_in_, template_init_, crossed>>,
         Locking', ingame' => template_init_,
         bml_mtx_ = "console" => bml_mtx_' = "console" \/ (t = "console" /\ op \in Closes),
         op \notin {"destroy", "no object", "entry", "clear"}
  PROVE  Control'
<1>1. Moves(t, {op}, {}) /\ (op \in Closes => ToDo(t)' = {})
  BY StepMoves DEF TypeOK, Control
<1>2. t = "console" /\ op \in Closes => ~ Will("console", "destroy")'
  BY <1>1 DEF Will
<1>3. t = "console" => code["console"] # reload
  BY ReloadFirst
<1> DEFINE lost == {op}
           new == {}
<1>4. /\ bml_mtx_ = "console" => bml_mtx_' = "console" \/ ~ Will("console", "destroy")'
      /\ t = "console" => /\ "destroy" \notin new
                          /\ code["console"] = reload => ~ Will("console", "destroy")'
      /\ lost \cap {"destroy", "no object", "entry", "clear"} = {} /\ "draw" \notin new
      /\ new \cap BmlOps("game") = {} /\ "toggle" \notin new /\ "log out" \notin new
  BY <1>2, <1>3
<1>5. Moves(t, lost, new)
  BY <1>1
<1> HIDE DEF lost, new
<1>6. QED BY <1>4, <1>5, Quiet

(* The thread that gives the lock back in its last step. *)
LEMMA QuietEnd ==
  ASSUME TypeOK, Control, NEW t \in Thread, NEW op, At(t, op), Done(t),
         op \in Closes \cap BmlOps(t),
         UNCHANGED <<states_, revived, objects_, scheduled, logged_in_, template_init_, crossed>>,
         UNCHANGED ingame, bml_mtx_' = Free, db_mutex' = db_mutex \/ db_mutex = t
  PROVE  Control'
<1>1. Moves(t, {op}, {}) /\ ToDo(t)' = {} /\ Head(code[t]) \in ToDo(t) /\ Head(code[t]).op = op
  BY StepMoves DEF TypeOK, Control
<1>2. bml_mtx_ = t
  BY <1>1 DEF Control, Locking, Held
<1>3. \A u \in Thread : u # t => Keeps(u)
  BY <1>2 DEF Keeps
<1>4. Locking'
  BY <1>1, <1>3, LockingKept DEF Control
<1>5. ingame' => template_init_
  BY DEF Control, BallsLoaded
<1>6. bml_mtx_ = "console" => t = "console" /\ op \in Closes
  BY <1>2
<1>7. op \notin {"destroy", "no object", "entry", "clear"}
  BY DEF Closes
<1>8. QED BY <1>4, <1>5, <1>6, <1>7, QuietStep

LEMMA QuietPass ==
  ASSUME TypeOK, Control, NEW t \in Thread, NEW op, At(t, op), Done(t),
         UNCHANGED <<states_, revived, objects_, scheduled, logged_in_, template_init_, crossed>>,
         UNCHANGED lockVars, ingame' => template_init_,
         op \notin {"destroy", "no object", "entry", "clear"}
  PROVE  Control'
<1>1. Moves(t, {op}, {}) /\ ToDo(t)' \subseteq ToDo(t)
  BY StepMoves DEF TypeOK, Control
<1>2. \A u \in Thread : Keeps(u)
  BY SameKeeps
<1>3. Locking'
  BY <1>1, <1>2, LockingKept DEF Control
<1>4. bml_mtx_ = "console" => bml_mtx_' = "console"
  BY DEF lockVars
<1>5. QED BY <1>3, <1>4, QuietStep

(* A thread that begins with nothing to do. *)
LEMMA QuietPlan ==
  ASSUME TypeOK, Control, NEW t \in Thread, NEW w, NEW ops, Idle(t), Starts(t, w), Plan(w, ops),
         UNCHANGED <<states_, revived, objects_, scheduled, logged_in_, template_init_, crossed>>,
         UNCHANGED db_mutex, bml_mtx_' = bml_mtx_ \/ (BmlFree /\ bml_mtx_' = t),
         ops \subseteq OpsOf(t), ops \cap DbOps = {},
         ops \cap BmlOps(t) # {} => bml_mtx_' = t, ingame' => template_init_,
         t = "console" /\ "destroy" \in ops => bml_mtx_' = "console" \/ w = reload,
         t = "console" /\ "log out" \in ops => \E x \in Steps(w) : x.op = "clear",
         t = "game" /\ ops \cap BmlOps("game") # {} => template_init_,
         t = "game" /\ "toggle" \in ops => template_init_
  PROVE  Control'
<1>1. ToDo(t) = {}
  BY IdleEmpty
<1>2. Moves(t, {}, ops) /\ ToDo(t)' = Steps(w) /\ \A x \in ToDo(t)' : x.op \in ops
  BY <1>1, PlanMoves DEF TypeOK
<1>3. code'[t] = w
  BY Given DEF TypeOK, Plan
<1>4. {"init", "check", "draw"} \subseteq DbOps
  BY DEF DbOps
<1>5. \A u \in Thread : u # t => Keeps(u)
  BY DEF Keeps, BmlFree, Free, Thread
<1>6. \A x \in ToDo(t)' : Held(t, x)'
  <2>1. OpsOf(t)' = OpsOf(t) /\ BmlOps(t)' = BmlOps(t) /\ DbOps' = DbOps
    BY DEF OpsOf, BmlOps, DbOps
  <2>2. QED BY <1>2, <1>4, <2>1 DEF Held
<1>7. Locking'
  BY <1>2, <1>5, <1>6, LockingKept DEF Control
<1> USE DEF Control
<1>8. Order'
  BY <1>2, OrderKept DEF TypeOK
<1>9. ConsoleDestroys'
  <2>1. "console" \in Thread
    BY DEF Thread
  <2>2. CASE t = "console"
    BY <1>2, <1>3, <2>2 DEF ConsoleDestroys, Will
  <2>3. CASE t # "console"
    <3>1. bml_mtx_ = "console" => bml_mtx_' = "console"
      BY <1>5, <2>1, <2>3 DEF Keeps
    <3>2. QED BY <1>2, <2>1, <2>3, <3>1 DEF Moves, ConsoleDestroys, Will
  <2>4. QED BY <2>2, <2>3
<1>10. BallsLoaded'
  BY <1>2, BallsKept
<1>11. TogglesLoaded'
  BY <1>2, TogglesKept
<1>12. DrawsMade'
  <2>1. "draw" \notin ops
    BY <1>4
  <2>2. QED BY <1>2, <2>1, DrawsKept
<1>13. ObjectsAccounted'
  BY <1>2, AccountedKept
<1>14. OnlyRevived'
  <2>1. t = "console" /\ "log out" \in ops => Will("console", "clear")'
    BY <1>2 DEF Will
  <2>2. QED BY <1>2, <2>1, RevivedKept
<1>15. QED BY <1>7, <1>8, <1>9, <1>10, <1>11, <1>12, <1>13, <1>14

LEMMA QuietPasses ==
  ASSUME TypeOK, Control,
         \/ ReadFlush \/ UnsetFlush \/ SkipDraw \/ StartLevel
         \/ \E t \in Thread : Made(t) \/ Unlock(t)
         \/ UpdateFails \/ Drawn
  PROVE  Control'
<1>1. "game" \in Thread
  BY DEF Thread
<1>2. ingame => template_init_
  BY DEF Control, BallsLoaded
<1>3. CASE ReadFlush
  <2>1. At("game", "read") /\ Done("game") /\ UNCHANGED lockVars /\ UNCHANGED ingame
        /\ UNCHANGED <<states_, revived, objects_, scheduled, logged_in_, template_init_, crossed>>
    BY <1>3 DEF ReadFlush, dbVars, sessionVars
  <2>2. QED BY <1>1, <1>2, <2>1, QuietPass
<1>4. CASE UnsetFlush
  <2>1. At("game", "unset") /\ Done("game") /\ UNCHANGED lockVars /\ UNCHANGED ingame
        /\ UNCHANGED <<states_, revived, objects_, scheduled, logged_in_, template_init_, crossed>>
    BY <1>4 DEF UnsetFlush, gameVars, sessionVars
  <2>2. QED BY <1>1, <1>2, <2>1, QuietPass
<1>5. CASE SkipDraw
  <2>1. At("game", "draw") /\ Done("game") /\ UNCHANGED lockVars /\ UNCHANGED ingame
        /\ UNCHANGED <<states_, revived, objects_, scheduled, logged_in_, template_init_, crossed>>
    BY <1>5 DEF SkipDraw, dbVars, gameVars, sessionVars
  <2>2. QED BY <1>1, <1>2, <2>1, QuietPass
<1>6. CASE StartLevel
  <2>1. At("game", "start") /\ Done("game") /\ UNCHANGED lockVars /\ ingame' = template_init_
        /\ UNCHANGED <<states_, revived, objects_, scheduled, logged_in_, template_init_, crossed>>
    BY <1>6 DEF StartLevel, dbVars, sessionVars
  <2>2. QED BY <1>1, <2>1, QuietPass
<1>7. ASSUME NEW t \in Thread, Made(t) PROVE Control'
  <2>1. At(t, "made") /\ Done(t) /\ db_mutex' = Free /\ UNCHANGED bml_mtx_ /\ UNCHANGED ingame
        /\ UNCHANGED <<states_, revived, objects_, scheduled, logged_in_, template_init_, crossed>>
    BY <1>7 DEF Made, dbVars, gameVars, sessionVars
  <2>2. /\ Moves(t, {"made"}, {}) /\ Head(code[t]) \in ToDo(t) /\ Head(code[t]).op = "made"
        /\ ToDo(t)' \subseteq ToDo(t) /\ \A x \in ToDo(t)' : x.op = "start"
    BY <2>1, StepMoves DEF TypeOK, Control
  <2>3. db_mutex = t
    BY <2>2 DEF Control, Locking, Held, DbOps
  <2>4. \A u \in Thread : u # t => Keeps(u)
    BY <2>1, <2>3 DEF Keeps
  <2>5. ASSUME NEW x \in ToDo(t)' PROVE Held(t, x)'
    <3>1. x \in ToDo(t) /\ x.op = "start"
      BY <2>2, <2>5
    <3>2. OpsOf(t)' = OpsOf(t) /\ BmlOps(t)' = BmlOps(t) /\ DbOps' = DbOps
      BY DEF OpsOf, BmlOps, DbOps
    <3>3. x.op \in OpsOf(t)
      BY <3>1 DEF Control, Locking, Held
    <3>4. "start" \notin BmlOps(t) /\ "start" \notin DbOps \cup {"init", "check", "draw"}
      BY DEF BmlOps, DbOps, Thread
    <3>5. QED BY <3>1, <3>2, <3>3, <3>4 DEF Held
  <2>6. Locking'
    BY <2>2, <2>4, <2>5, LockingKept DEF Control
  <2>7. QED BY <1>2, <2>1, <2>6, QuietStep
<1>8. ASSUME NEW t \in Thread, Unlock(t) PROVE Control'
  <2>1. At(t, "unlock") /\ Done(t) /\ bml_mtx_' = Free /\ UNCHANGED db_mutex /\ UNCHANGED ingame
        /\ UNCHANGED <<states_, revived, objects_, scheduled, logged_in_, template_init_, crossed>>
    BY <1>8 DEF Unlock, dbVars, gameVars, sessionVars
  <2>2. "unlock" \in Closes \cap BmlOps(t)
    BY DEF Closes, BmlOps, Thread
  <2>3. QED BY <2>1, <2>2, QuietEnd
<1>9. CASE UpdateFails
  <2>1. At("game", "update") /\ Done("game") /\ bml_mtx_' = Free /\ UNCHANGED db_mutex /\ UNCHANGED ingame
        /\ UNCHANGED <<states_, revived, objects_, scheduled, logged_in_, template_init_, crossed>>
    BY <1>9 DEF UpdateFails, gameVars, sessionVars
  <2>2. "update" \in Closes \cap BmlOps("game")
    BY DEF Closes, BmlOps
  <2>3. QED BY <1>1, <2>1, <2>2, QuietEnd
<1>10. CASE Drawn
  <2>1. At("game", "drawn") /\ Done("game") /\ bml_mtx_' = Free /\ UNCHANGED ingame
        /\ UNCHANGED <<states_, revived, objects_, scheduled, logged_in_, template_init_, crossed>>
    BY <1>10 DEF Drawn, dbVars, gameVars, sessionVars
  <2>2. "drawn" \in Closes \cap BmlOps("game")
    BY DEF Closes, BmlOps
  <2>3. db_mutex = "game"
    <3>1. Head(code["game"]) \in ToDo("game") /\ Head(code["game"]).op = "drawn"
      BY <1>1, <2>1, StepMoves DEF TypeOK, Control
    <3>2. QED BY <1>1, <3>1 DEF Control, Locking, Held, DbOps
  <2>4. QED BY <1>1, <2>1, <2>2, <2>3, QuietEnd
<1>11. QED BY <1>3, <1>4, <1>5, <1>6, <1>7, <1>8, <1>9, <1>10

LEMMA QuietPlans ==
  ASSUME TypeOK, Control,
         \/ Frame \/ LoadLevel \/ StartMenu \/ PressReload \/ TypeReload \/ ToggleOwnBall \/ Cleanup
         \/ LoginAccepted \/ CheatState \/ \E id \in Id : LatencyData(id)
  PROVE  Control'
<1> DEFINE kept == UNCHANGED <<states_, revived, objects_, scheduled, logged_in_, template_init_, crossed>>
<1>1. "game" \in Thread /\ "net" \in Thread /\ "console" \in Thread
      /\ "console" # "game" /\ "console" # "net" /\ "net" # "game"
  BY DEF Thread
<1>2. ingame => template_init_
  BY DEF Control, BallsLoaded
<1>3. CASE Frame
  <2>1. /\ Idle("game") /\ Starts("game", <<S("read"), S("unset"), S("update")>>) /\ kept
        /\ UNCHANGED db_mutex /\ BmlFree /\ bml_mtx_' = "game" /\ UNCHANGED ingame /\ ingame
    BY <1>3 DEF Frame, dbVars, gameVars, sessionVars
  <2> DEFINE ops == {"read", "unset", "update"}
  <2>2. ops \subseteq OpsOf("game") /\ ops \cap DbOps = {} /\ "toggle" \notin ops
    BY DEF OpsOf, DbOps
  <2> HIDE DEF ops
  <2>3. Plan(<<S("read"), S("unset"), S("update")>>, ops)
    BY FramePlan DEF ops
  <2>4. QED BY <1>1, <1>2, <2>1, <2>2, <2>3, QuietPlan
<1>4. CASE LoadLevel
  <2>1. /\ Idle("game") /\ Starts("game", <<S("players"), S("start")>>) /\ kept
        /\ UNCHANGED db_mutex /\ UNCHANGED bml_mtx_ /\ UNCHANGED ingame
    BY <1>4 DEF LoadLevel, dbVars, lockVars, gameVars, sessionVars
  <2> DEFINE ops == {"players", "start"}
  <2>2. ops \subseteq OpsOf("game") /\ ops \cap DbOps = {} /\ "toggle" \notin ops
        /\ ops \cap BmlOps("game") = {}
    BY DEF OpsOf, DbOps, BmlOps
  <2> HIDE DEF ops
  <2>3. Plan(<<S("players"), S("start")>>, ops)
    BY LevelPlans DEF ops
  <2>4. QED BY <1>1, <1>2, <2>1, <2>2, <2>3, QuietPlan
<1>5. CASE StartMenu
  <2>1. /\ Idle("game") /\ Starts("game", <<S("destroy")>>) /\ kept
        /\ UNCHANGED db_mutex /\ UNCHANGED bml_mtx_ /\ ingame' = FALSE
    BY <1>5 DEF StartMenu, dbVars, lockVars, sessionVars
  <2> DEFINE ops == {"destroy"}
  <2>2. ops \subseteq OpsOf("game") /\ ops \cap DbOps = {} /\ "toggle" \notin ops
        /\ ops \cap BmlOps("game") = {}
    BY DEF OpsOf, DbOps, BmlOps
  <2> HIDE DEF ops
  <2>3. Plan(<<S("destroy")>>, ops)
    BY LevelPlans DEF ops
  <2>4. QED BY <1>1, <1>2, <2>1, <2>2, <2>3, QuietPlan
<1>6. ASSUME NEW t \in {"game", "console"}, Reloads(t) PROVE Control'
  <2>1. /\ Idle(t) /\ Starts(t, reload) /\ kept
        /\ UNCHANGED db_mutex /\ UNCHANGED bml_mtx_ /\ UNCHANGED ingame
    BY <1>6 DEF Reloads, dbVars, lockVars, gameVars, sessionVars
  <2> DEFINE ops == {"destroy", "players"}
  <2>2. ops \subseteq OpsOf(t) /\ ops \cap DbOps = {} /\ "toggle" \notin ops
        /\ ops \cap BmlOps(t) = {} /\ "log out" \notin ops
    BY <1>6 DEF OpsOf, DbOps, BmlOps
  <2> HIDE DEF ops
  <2>3. Plan(reload, ops)
    BY LevelPlans DEF ops
  <2>4. t \in Thread
    BY <1>1, <1>6
  <2>5. QED BY <1>2, <2>1, <2>2, <2>3, <2>4, QuietPlan
<1>7. CASE ToggleOwnBall
  <2>1. /\ Idle("game") /\ Starts("game", <<S("toggle")>>) /\ kept
        /\ UNCHANGED db_mutex /\ UNCHANGED bml_mtx_ /\ UNCHANGED ingame /\ ingame
    BY <1>7 DEF ToggleOwnBall, dbVars, lockVars, gameVars, sessionVars
  <2> DEFINE ops == {"toggle"}
  <2>2. ops \subseteq OpsOf("game") /\ ops \cap DbOps = {} /\ ops \cap BmlOps("game") = {}
    BY DEF OpsOf, DbOps, BmlOps
  <2> HIDE DEF ops
  <2>3. Plan(<<S("toggle")>>, ops)
    BY TogglePlan DEF ops
  <2>4. QED BY <1>1, <1>2, <2>1, <2>2, <2>3, QuietPlan
<1>8. CASE Cleanup
  <2>1. /\ Idle("console") /\ kept /\ UNCHANGED db_mutex /\ BmlFree /\ bml_mtx_' = "console"
        /\ UNCHANGED ingame /\ Starts("console", CleanupPlan(own_ball_visible_))
    BY <1>8 DEF Cleanup, CleanupPlan, dbVars, gameVars, sessionVars
  <2> DEFINE ops == {"no entry", "no object", "clear", "destroy", "log out", "unlock"}
             w == CleanupPlan(own_ball_visible_)
  <2>2. Plan(w, ops) /\ \E x \in Steps(w) : x.op = "clear"
    BY CleanupPlans
  <2>3. ops \subseteq OpsOf("console") /\ ops \cap DbOps = {}
    BY DEF OpsOf, DbOps
  <2> HIDE DEF ops, w
  <2>4. Starts("console", w)
    BY <2>1 DEF w
  <2>5. QED BY <1>1, <1>2, <2>1, <2>2, <2>3, <2>4, QuietPlan
<1>9. CASE LoginAccepted
  <2>1. /\ Idle("net") /\ kept /\ UNCHANGED db_mutex /\ BmlFree /\ bml_mtx_' = "net"
        /\ UNCHANGED ingame
    BY <1>9 DEF LoginAccepted, dbVars, gameVars
  <2>2. PICK online \in SUBSET (Peer \ gone) :
          Starts("net", (IF logged_in_ THEN PlayersFirst ELSE <<>>)
                        \o <<Of("fill", online), S("unlock")>>)
    BY <1>9 DEF LoginAccepted
  <2>3. online \in SUBSET Id
    BY <2>2 DEF Id
  <2>4. \/ Starts("net", <<>> \o <<Of("fill", online), S("unlock")>>)
        \/ Starts("net", PlayersFirst \o <<Of("fill", online), S("unlock")>>)
    BY <2>2
  <2>5. ASSUME NEW w, NEW ops, Starts("net", w), Plan(w, ops),
               ops \subseteq {"clear", "destroy", "fill", "unlock"}
        PROVE  Control'
    <3>1. ops \subseteq OpsOf("net") /\ ops \cap DbOps = {}
      BY <2>5 DEF OpsOf, DbOps
    <3>2. QED BY <1>1, <1>2, <2>1, <2>5, <3>1, QuietPlan
  <2>6. QED BY <2>3, <2>4, <2>5, LoginPlans
<1>10. CASE CheatState \/ \E id \in Id : LatencyData(id)
  <2>1. /\ Idle("net") /\ kept /\ UNCHANGED db_mutex /\ UNCHANGED bml_mtx_ /\ UNCHANGED ingame
    BY <1>10 DEF CheatState, LatencyData, Handles, dbVars, lockVars, gameVars
  <2>2. PICK id \in Id, c \in SUBSET BOOLEAN :
          Starts("net", <<[op |-> "write", ids |-> {id}, cheated |-> c]>>)
    BY <1>10 DEF CheatState, LatencyData, TypeOK, StoreTypeOK
  <2> DEFINE w == <<[op |-> "write", ids |-> {id}, cheated |-> c]>>
             ops == {"write"}
  <2>3. Plan(w, ops)
    BY WritePlan
  <2>4. ops \subseteq OpsOf("net") /\ ops \cap DbOps = {} /\ ops \cap BmlOps("net") = {}
    BY DEF OpsOf, DbOps, BmlOps
  <2>5. Starts("net", w)
    BY <2>2
  <2> HIDE DEF w, ops
  <2>6. QED BY <1>1, <1>2, <2>1, <2>3, <2>4, <2>5, QuietPlan
<1>11. QED
  BY <1>3, <1>4, <1>5, <1>6, <1>7, <1>8, <1>9, <1>10 DEF PressReload, TypeReload

(* The key has waited for the lock: the session may be over by now. *)
LEMMA ToggleLockedKeeps ==
  ASSUME TypeOK, Control, ToggleLocked
  PROVE  Control'
<1>1. "game" \in Thread /\ "console" # "game"
  BY DEF Thread
<1>2. /\ At("game", "toggle") /\ BmlFree /\ bml_mtx_' = "game" /\ UNCHANGED db_mutex
      /\ UNCHANGED ingame
      /\ UNCHANGED <<states_, revived, objects_, scheduled, logged_in_, template_init_, crossed>>
  BY DEF ToggleLocked, dbVars, gameVars, sessionVars
<1>3. Head(code["game"]) \in ToDo("game") /\ Head(code["game"]).op = "toggle"
      /\ \A x \in ToDo("game") : x.op = "toggle"
  <2>1. code["game"] \in Seq(Step) /\ code["game"] # <<>> /\ Head(code["game"]).op = "toggle"
        /\ ToDo("game") = {Head(code["game"])} \cup Steps(Tail(code["game"]))
    BY <1>1, <1>2, Heads DEF TypeOK
  <2>2. Tail(code["game"]) = <<>>
    BY <1>1, <2>1, TailOrderly DEF Control, Order, Closes
  <2>3. QED BY <2>1, <2>2, EmptyOrderly
<1>4. template_init_
  BY <1>3 DEF Control, TogglesLoaded
<1>5. \A u \in Thread : u # "game" => Keeps(u)
  BY <1>2 DEF Keeps, BmlFree, Free, Thread
<1> DEFINE lost == {"toggle"}
<1>6. lost \cap {"destroy", "no object", "entry", "clear"} = {} /\ \A x \in ToDo("game") : x.op \in lost
  BY <1>3
<1> HIDE DEF lost
<1>7. ASSUME NEW w, NEW ops, Starts("game", w), Plan(w, ops),
             ops \subseteq {"no entry", "no object", "object", "entry", "unlock"}
      PROVE  Control'
  <2>1. ops \subseteq OpsOf("game") /\ ops \cap DbOps = {} /\ "draw" \notin ops /\ "toggle" \notin ops
    BY <1>7 DEF OpsOf, DbOps
  <2>2. Moves("game", lost, ops) /\ \A x \in ToDo("game")' : x.op \in ops
    BY <1>1, <1>6, <1>7, PlanMoves DEF TypeOK
  <2>3. ASSUME NEW x \in ToDo("game")' PROVE Held("game", x)'
    <3>1. OpsOf("game")' = OpsOf("game") /\ DbOps' = DbOps /\ {"init", "check", "draw"} \subseteq DbOps
      BY DEF OpsOf, DbOps
    <3>2. x.op \in ops
      BY <2>2, <2>3
    <3>3. QED BY <1>2, <2>1, <3>1, <3>2 DEF Held
  <2>4. Locking'
    BY <1>1, <1>5, <2>2, <2>3, LockingKept DEF Control
  <2>5. bml_mtx_ # "console" /\ (ingame' => template_init_)
    BY <1>2, <1>4 DEF BmlFree, Free
  <2>6. QED BY <1>1, <1>2, <1>4, <1>6, <2>1, <2>2, <2>4, <2>5, Quiet
<1>8. \/ Starts("game", <<S("no entry"), S("no object")>> \o <<S("unlock")>>)
      \/ Starts("game", <<S("object"), S("entry")>> \o <<S("unlock")>>)
  BY DEF ToggleLocked
<1>9. QED BY <1>7, <1>8, TogglePlans

-----------------------------------------------------------------------------
(* Loops over the players, with db_ locked.                                *)

LEMMA DbHeld ==
  ASSUME Locking, DbFree, NEW t \in Thread
  PROVE  \A x \in ToDo(t) : x.op \notin DbOps
BY DEF Locking, Held, DbFree, Free, Thread

LEMMA InitPlayersKeeps ==
  ASSUME TypeOK, Control, NEW t \in Thread, InitPlayers(t)
  PROVE  Control'
<1> DEFINE others == DOMAIN states_ \ {Me}
           x == Of("init", others)
           y == S("made")
           s == Tail(code[t])
<1>1. /\ At(t, "players") /\ DbFree /\ UNCHANGED bml_mtx_ /\ UNCHANGED ingame
      /\ UNCHANGED <<states_, revived, objects_, scheduled, logged_in_, template_init_, crossed>>
  BY DEF InitPlayers, dbVars, gameVars, sessionVars
<1>2. ingame => template_init_
  BY DEF Control, BallsLoaded
<1>3. CASE Done(t) /\ UNCHANGED db_mutex
  <2>1. UNCHANGED lockVars
    BY <1>1, <1>3 DEF lockVars
  <2>2. QED BY <1>1, <1>2, <1>3, <2>1, QuietPass
<1>4. CASE db_mutex' = t /\ Starts(t, <<x, y>> \o s)
  <2>1. /\ code[t] \in Seq(Step) /\ code[t] # <<>> /\ Head(code[t]).op = "players" /\ s \in Seq(Step)
        /\ Head(code[t]) \in Step /\ ToDo(t) = {Head(code[t])} \cup Steps(s)
    BY <1>1, Heads DEF TypeOK
  <2>2. Orderly(s) /\ \A z \in Steps(s) : z.op = "start"
    BY <2>1, TailOrderly DEF Control, Order
  <2>3. others \in SUBSET Id
    BY DEF TypeOK, StoreTypeOK
  <2>4. x \in Step /\ x.op = "init" /\ x.ids = others /\ y \in Step /\ y.op = "made"
    BY <2>3, SOf, OpNames
  <2>5. others \subseteq DOMAIN states_'
    BY <1>1
  <2> HIDE DEF x, y, s, others
  <2> DEFINE v == <<y>> \o s
             w == <<x>> \o v
  <2>6. Allowed(y, s)
    BY <2>2, <2>4 DEF Allowed, Closes
  <2>7. v \in Seq(Step) /\ v # <<>> /\ Steps(v) = {y} \cup Steps(s) /\ Orderly(v)
    BY <2>1, <2>2, <2>4, <2>6, Prefixed
  <2>8. <<x, y>> \o s = w
    BY <2>1, <2>4, Joins
  <2> HIDE DEF v
  <2>9. Allowed(x, v)
    BY <2>2, <2>4, <2>7 DEF Allowed, Closes
  <2>10. w \in Seq(Step) /\ w # <<>> /\ Steps(w) = {x} \cup Steps(v) /\ Orderly(w)
    BY <2>4, <2>7, <2>9, Prefixed
  <2> HIDE DEF w
  <2>11. /\ code'[t] = w /\ ToDo(t)' = Steps(w)
         /\ \A u \in Thread : u # t => code'[u] = code[u] /\ ToDo(u)' = ToDo(u)
    BY <1>4, <2>8, <2>10, Given DEF TypeOK
  <2>12. ToDo(t)' = {x, y} \cup Steps(s)
    BY <2>7, <2>10, <2>11
  <2> DEFINE lost == {"players"}
             new == {"init", "made"}
  <2>13. Moves(t, lost, new)
    BY <2>1, <2>4, <2>10, <2>11, <2>12 DEF Moves
  <2>14. \A u \in Thread : u # t => Keeps(u)
    BY <1>1 DEF Keeps, DbFree, Free, Thread
  <2>15. \A z \in Steps(s) : Held(t, z)'
    <3>1. OpsOf(t)' = OpsOf(t) /\ BmlOps(t)' = BmlOps(t) /\ DbOps' = DbOps
      BY DEF OpsOf, BmlOps, DbOps
    <3>2. "start" \notin BmlOps(t) /\ "start" \notin DbOps \cup {"init", "check", "draw"}
      BY DEF BmlOps, DbOps, Thread
    <3>3. \A z \in Steps(s) : z.op = "start" /\ z.op \in OpsOf(t)
      BY <2>1, <2>2 DEF Control, Locking, Held
    <3>4. QED BY <3>1, <3>2, <3>3 DEF Held
  <2>16. ASSUME NEW z \in {x, y} PROVE Held(t, z)'
    <3>1. OpsOf(t)' = OpsOf(t) /\ BmlOps(t)' = BmlOps(t) /\ DbOps' = DbOps
      BY DEF OpsOf, BmlOps, DbOps
    <3>2. "players" \in OpsOf(t)
      BY <2>1 DEF Control, Locking, Held
    <3>3. "init" \in OpsOf(t) /\ "made" \in OpsOf(t)
      BY <3>2 DEF OpsOf, Thread
    <3>4. "init" \notin BmlOps(t) /\ "made" \notin BmlOps(t)
      BY DEF BmlOps, Thread
    <3>5. CASE z = x
      BY <1>4, <2>4, <2>5, <3>1, <3>3, <3>4, <3>5 DEF Held
    <3>6. CASE z = y
      BY <1>4, <2>4, <3>1, <3>3, <3>4, <3>6 DEF Held
    <3>7. QED BY <2>16, <3>5, <3>6
  <2>17. Locking'
    <3>1. ASSUME NEW z \in ToDo(t)' PROVE Held(t, z)'
      BY <2>12, <2>15, <2>16, <3>1
    <3>2. QED BY <2>13, <2>14, <3>1, LockingKept DEF Control
  <2>18. t = "console" => code["console"] # reload
    BY <1>1, ReloadFirst
  <2>19. new \cap BmlOps("game") = {}
    BY DEF BmlOps
  <2>20. /\ lost \cap {"destroy", "no object", "entry", "clear"} = {} /\ "draw" \notin new
         /\ "toggle" \notin new /\ "log out" \notin new /\ "destroy" \notin new
    OBVIOUS
  <2> HIDE DEF lost, new
  <2>21. QED BY <1>1, <1>2, <2>13, <2>17, <2>18, <2>19, <2>20, Quiet
<1>5. CASE others = {}
  BY <1>3, <1>5 DEF InitPlayers
<1>6. CASE others # {}
  <2>1. db_mutex' = t /\ Starts(t, <<x, y>> \o s)
    BY <1>6 DEF InitPlayers
  <2>2. QED BY <1>4, <2>1
<1>7. QED BY <1>5, <1>6

LEMMA UpdateKeeps ==
  ASSUME TypeOK, Control, Update
  PROVE  Control'
<1>1. "game" \in Thread /\ "console" # "game"
  BY DEF Thread
<1>2. /\ At("game", "update") /\ DbFree /\ db_mutex' = "game" /\ UNCHANGED bml_mtx_ /\ UNCHANGED ingame
      /\ UNCHANGED <<states_, revived, objects_, scheduled, logged_in_, template_init_, crossed>>
  BY DEF Update, dbVars, gameVars, sessionVars
<1>3. \A x \in ToDo("game") : x.op = "update"
  <2>1. code["game"] \in Seq(Step) /\ code["game"] # <<>> /\ Head(code["game"]).op = "update"
        /\ ToDo("game") = {Head(code["game"])} \cup Steps(Tail(code["game"]))
    BY <1>1, <1>2, Heads DEF TypeOK
  <2>2. Tail(code["game"]) = <<>>
    BY <1>1, <2>1, TailOrderly DEF Control, Order, Closes
  <2>3. QED BY <2>1, <2>2, EmptyOrderly
<1>4. Head(code["game"]) \in ToDo("game") /\ Head(code["game"]).op = "update"
  BY <1>1, <1>2, Heads DEF TypeOK
<1>5. bml_mtx_ = "game" /\ template_init_
  BY <1>1, <1>4 DEF Control, Locking, Held, BmlOps, BallsLoaded
<1>6. DOMAIN states_ \in SUBSET Id
  BY DEF TypeOK, StoreTypeOK
<1> DEFINE ids == DOMAIN states_
           w1 == <<S("drawn")>>
           w2 == <<Of("check", ids), S("drawn")>>
           new == {"check", "drawn"}
           lost == {"update"}
<1>7. PICK w : w \in {w1, w2} /\ Starts("game", w)
  BY DEF Update
<1>8. /\ Of("check", ids).op = "check" /\ Of("check", ids).ids = ids /\ S("drawn").op = "drawn"
  BY <1>6, SOf, OpNames
<1>9. Plan(w, new) /\ \A x \in Steps(w) : x.op = "check" => x.ids = ids
  <2>1. CASE w = w1
    <3>1. Plan(w1, {"drawn"})
      BY DrawPlan
    <3> HIDE DEF w1
    <3>2. QED BY <2>1, <3>1 DEF Plan
  <2>2. CASE w = w2
    <3>1. Plan(w2, new) /\ Steps(w2) = {Of("check", ids), S("drawn")}
      BY <1>6, DrawPlan
    <3> HIDE DEF w2
    <3>2. QED BY <1>8, <2>2, <3>1
  <2>3. QED BY <1>7, <2>1, <2>2
<1> HIDE DEF w1, w2
<1>10. Moves("game", lost, new) /\ ToDo("game")' = Steps(w) /\ \A x \in ToDo("game")' : x.op \in new
  BY <1>1, <1>3, <1>7, <1>9, PlanMoves DEF TypeOK
<1>11. \A u \in Thread : u # "game" => Keeps(u)
  BY <1>2 DEF Keeps, DbFree, Free, Thread
<1>12. ASSUME NEW x \in ToDo("game")' PROVE Held("game", x)'
  <2>1. new \subseteq OpsOf("game")' /\ "drawn" \notin {"init", "check", "draw"}
    BY DEF OpsOf
  <2>2. x.op \in new /\ (x.op = "check" => x.ids = ids)
    BY <1>9, <1>10
  <2>3. bml_mtx_' = "game" /\ db_mutex' = "game" /\ DOMAIN states_' = ids
    BY <1>2, <1>5
  <2>4. QED BY <2>1, <2>2, <2>3 DEF Held
<1>13. Locking'
  BY <1>1, <1>10, <1>11, <1>12, LockingKept DEF Control
<1>14. /\ lost \cap {"destroy", "no object", "entry", "clear"} = {} /\ "draw" \notin new
       /\ "toggle" \notin new
  OBVIOUS
<1>15. ingame' => template_init_
  BY <1>5
<1> HIDE DEF lost, new
<1>16. QED BY <1>1, <1>2, <1>5, <1>10, <1>13, <1>14, <1>15, Quiet

LEMMA InitPlayerKeeps ==
  ASSUME TypeOK, Control, NEW t \in Thread, InitPlayer(t)
  PROVE  Control'
<1>1. PICK id \in These(t) : objects_' = WithPlayer(id, states_[id]) /\ OneDone(t, id, <<>>)
  BY DEF InitPlayer
<1>2. At(t, "init") /\ UNCHANGED <<states_, revived, scheduled, logged_in_, template_init_, crossed, ingame>>
      /\ UNCHANGED lockVars
  BY DEF InitPlayer, dbVars, gameVars, sessionVars
<1>3. /\ Head(code[t]).op = "init" /\ Head(code[t]) \in ToDo(t) /\ These(t) = Head(code[t]).ids
      /\ ToDo(t) = {Head(code[t])} \cup Steps(Tail(code[t]))
  BY <1>2, Heads DEF TypeOK
<1> DEFINE w == Loop(t, id)
           lost == {"init"}
           new == {"init"}
<1>4. /\ w \in Seq(Step) /\ Steps(Tail(code[t])) \subseteq Steps(w) /\ Orderly(w)
      /\ \A x \in Steps(w) : \/ x \in Steps(Tail(code[t]))
                             \/ x.op = "init" /\ x.ids \subseteq These(t)
  BY <1>2, LoopLeft DEF TypeOK, Control, Order
<1>5. Starts(t, w)
  <2>1. Starts(t, <<>> \o w)
    BY <1>1 DEF OneDone, Loop
  <2> HIDE DEF w
  <2>2. QED BY <1>4, <2>1, ConcatEmptySeq
<1> HIDE DEF w
<1>6. /\ code'[t] = w /\ ToDo(t)' = Steps(w)
      /\ \A u \in Thread : u # t => code'[u] = code[u] /\ ToDo(u)' = ToDo(u)
  BY <1>4, <1>5, Given DEF TypeOK
<1>7. Moves(t, lost, new)
  BY <1>3, <1>4, <1>6 DEF Moves
<1>8. \A u \in Thread : Keeps(u)
  BY <1>2, SameKeeps
<1>9. Held(t, Head(code[t]))
  BY <1>3 DEF Control, Locking
<1>10. ASSUME NEW x \in ToDo(t)' PROVE x \in ToDo(t) \/ Held(t, x)'
  <2>1. CASE x.op = "init" /\ x.ids \subseteq These(t)
    <3>1. OpsOf(t)' = OpsOf(t) /\ BmlOps(t)' = BmlOps(t) /\ DbOps' = DbOps
      BY DEF OpsOf, BmlOps, DbOps
    <3>2. "init" \in DbOps /\ "init" \notin BmlOps(t)
      BY DEF DbOps, BmlOps, Thread
    <3>3. QED BY <1>2, <1>3, <1>9, <2>1, <3>1, <3>2 DEF Held, lockVars
  <2>2. QED BY <1>3, <1>4, <1>6, <2>1
<1>11. id \in DOMAIN states_
  BY <1>1, <1>3, <1>9 DEF Held
<1>12. /\ DOMAIN objects_' = DOMAIN objects_ \cup {id} /\ objects_'[id].balls = template_init_
       /\ \A d \in DOMAIN objects_ : d # id => objects_'[d] = objects_[d]
  BY <1>1 DEF WithPlayer, With, Copied
<1> USE DEF Control
<1>13. Locking'
  BY <1>7, <1>8, <1>10, LockingKept
<1>14. Order'
  BY <1>7, OrderKept DEF TypeOK
<1>15. bml_mtx_' = bml_mtx_
  BY <1>2 DEF lockVars
<1>16. ConsoleDestroys'
  <2>1. t = "console" => code["console"] # reload
    BY <1>2, ReloadFirst
  <2>2. "destroy" \notin new
    OBVIOUS
  <2> HIDE DEF new, lost
  <2>3. QED BY <1>7, <1>15, <2>1, <2>2, DestroysKept
<1>17. BallsLoaded'
  <2>1. new \cap BmlOps("game") = {}
    BY DEF BmlOps
  <2>2. ingame' => template_init_
    BY <1>2 DEF BallsLoaded
  <2>3. \A d \in DOMAIN objects_' : \/ d \in DOMAIN objects_ /\ objects_'[d].balls = objects_[d].balls
                                    \/ objects_'[d].balls = template_init_
    BY <1>12
  <2> HIDE DEF new, lost
  <2>4. QED BY <1>2, <1>7, <2>1, <2>2, <2>3, BallsKept
<1>18. TogglesLoaded'
  BY <1>2, <1>7, TogglesKept
<1>19. DrawsMade'
  BY <1>2, <1>7, <1>12, DrawsKept
<1>20. ObjectsAccounted'
  BY <1>2, <1>7, <1>11, <1>12, AccountedKept
<1>21. OnlyRevived'
  BY <1>2, <1>7, RevivedKept
<1>22. QED BY <1>13, <1>14, <1>16, <1>17, <1>18, <1>19, <1>20, <1>21

LEMMA CheckKeeps ==
  ASSUME TypeOK, Control, Check
  PROVE  Control'
<1>1. "game" \in Thread /\ "console" # "game"
  BY DEF Thread
<1>2. PICK id \in These("game") : /\ objects_' = MadeNow(id)
                                  /\ OneDone("game", id, <<Of("draw", {id})>>)
  BY DEF Check
<1>3. /\ At("game", "check") /\ UNCHANGED lockVars
      /\ UNCHANGED <<states_, revived, scheduled, logged_in_, template_init_, crossed, ingame>>
  BY DEF Check, dbVars, gameVars, sessionVars
<1>4. /\ Head(code["game"]).op = "check" /\ Head(code["game"]) \in ToDo("game")
      /\ These("game") = Head(code["game"]).ids /\ These("game") \subseteq Id
      /\ ToDo("game") = {Head(code["game"])} \cup Steps(Tail(code["game"]))
  BY <1>1, <1>3, Heads DEF TypeOK
<1> DEFINE s == Loop("game", id)
           y == Of("draw", {id})
           w == <<y>> \o s
           lost == {"check"}
           new == {"check", "draw"}
<1>5. /\ s \in Seq(Step) /\ Steps(Tail(code["game"])) \subseteq Steps(s) /\ Orderly(s)
      /\ \A x \in Steps(s) : x.op # "draw"
      /\ \A x \in Steps(s) : \/ x \in Steps(Tail(code["game"]))
                             \/ x.op = "check" /\ x.ids \subseteq These("game")
  BY <1>1, <1>3, LoopLeft DEF TypeOK, Control, Order
<1>6. y \in Step /\ y.op = "draw" /\ y.ids = {id}
  <2>1. {id} \in SUBSET Id
    BY <1>2, <1>4
  <2>2. QED BY <2>1, SOf, OpNames
<1>7. Starts("game", w)
  BY <1>2 DEF OneDone, Loop
<1> HIDE DEF s, y
<1>8. Allowed(y, s)
  BY <1>5, <1>6 DEF Allowed, Closes
<1>9. w \in Seq(Step) /\ w # <<>> /\ Steps(w) = {y} \cup Steps(s) /\ Orderly(w)
  BY <1>5, <1>6, <1>8, Prefixed
<1> HIDE DEF w
<1>10. /\ code'["game"] = w /\ ToDo("game")' = Steps(w)
       /\ \A u \in Thread : u # "game" => code'[u] = code[u] /\ ToDo(u)' = ToDo(u)
  BY <1>1, <1>7, <1>9, Given DEF TypeOK
<1>11. Moves("game", lost, new)
  BY <1>4, <1>5, <1>6, <1>9, <1>10 DEF Moves
<1>12. \A u \in Thread : Keeps(u)
  BY <1>3, SameKeeps
<1>13. Held("game", Head(code["game"]))
  BY <1>1, <1>4 DEF Control, Locking
<1>14. bml_mtx_ = "game" /\ db_mutex = "game" /\ These("game") \subseteq DOMAIN states_
  BY <1>4, <1>13 DEF Held, BmlOps, DbOps
<1>15. ASSUME NEW x \in ToDo("game")' PROVE x \in ToDo("game") \/ Held("game", x)'
  <2>1. CASE x.op \in new /\ x.ids \subseteq These("game")
    <3>1. new \subseteq OpsOf("game")'
      BY DEF OpsOf
    <3>2. QED BY <1>3, <1>14, <2>1, <3>1 DEF Held, lockVars
  <2>2. CASE x = y
    BY <1>2, <1>6, <2>1, <2>2
  <2>3. CASE x \in Steps(s)
    BY <1>4, <1>5, <2>1, <2>3
  <2>4. QED BY <1>9, <1>10, <1>15, <2>2, <2>3
<1>16. template_init_
  BY <1>4 DEF Control, BallsLoaded, BmlOps
<1>17. /\ DOMAIN objects_' = DOMAIN objects_ \cup {id}
       /\ \A d \in DOMAIN objects_' : objects_'[d].balls = template_init_ \/ (d \in DOMAIN objects_ /\ objects_'[d] = objects_[d])
  BY <1>2 DEF MadeNow, WithPlayer, With, Copied
<1> USE DEF Control
<1>18. Locking'
  BY <1>1, <1>11, <1>12, <1>15, LockingKept
<1>19. Order'
  BY <1>1, <1>11, OrderKept DEF TypeOK
<1>20. ConsoleDestroys'
  <2>1. bml_mtx_' = bml_mtx_
    BY <1>3 DEF lockVars
  <2>2. QED BY <1>1, <1>11, <2>1, DestroysKept
<1>21. BallsLoaded'
  <2>1. ingame' => template_init_
    BY <1>16
  <2>2. \A d \in DOMAIN objects_' : \/ d \in DOMAIN objects_ /\ objects_'[d].balls = objects_[d].balls
                                    \/ objects_'[d].balls = template_init_
    BY <1>17
  <2>3. QED BY <1>1, <1>3, <1>11, <1>16, <2>1, <2>2, BallsKept
<1>22. TogglesLoaded'
  BY <1>1, <1>3, <1>11, TogglesKept
<1>23. DrawsMade'
  <2>1. ASSUME NEW x \in ToDo("game")', x.op = "draw" PROVE x.ids \subseteq DOMAIN objects_'
    <3>1. x = y
      BY <1>5, <1>9, <1>10, <2>1
    <3>2. QED BY <1>6, <1>17, <3>1
  <2>2. QED BY <2>1 DEF DrawsMade
<1>24. ObjectsAccounted'
  BY <1>1, <1>2, <1>3, <1>11, <1>14, <1>17, AccountedKept
<1>25. OnlyRevived'
  BY <1>1, <1>3, <1>11, RevivedKept
<1>26. QED BY <1>18, <1>19, <1>20, <1>21, <1>22, <1>23, <1>24, <1>25

(* The frame finds the balls it reads, or reload has been crossed.         *)
LEMMA DrawKeeps ==
  ASSUME TypeOK, Control, Draw
  PROVE  (crashed' => crossed') /\ (~ crashed' => Control')
<1>1. "game" \in Thread /\ "console" # "game"
  BY DEF Thread
<1>2. PICK id \in These("game") :
        IF HasBalls(id)
        THEN /\ objects_' = IF flush THEN [objects_ EXCEPT ![id].label = Label(states_[id])] ELSE objects_
             /\ UNCHANGED crashed
        ELSE objects_' = With(objects_, id, Empty) /\ crashed' = TRUE
  BY DEF Draw
<1>3. /\ At("game", "draw") /\ Done("game") /\ UNCHANGED lockVars /\ UNCHANGED ingame
      /\ UNCHANGED <<states_, revived, scheduled, logged_in_, template_init_, crossed>>
  BY DEF Draw, dbVars, sessionVars
<1>4. /\ Moves("game", {"draw"}, {}) /\ ToDo("game")' \subseteq ToDo("game") /\ ~ crashed
      /\ Head(code["game"]) \in ToDo("game") /\ Head(code["game"]).op = "draw"
  BY <1>1, <1>3, StepMoves DEF TypeOK, Control
<1>5. These("game") = Head(code["game"]).ids
  BY <1>1, <1>3, Heads DEF TypeOK
<1>6. template_init_
  BY <1>4 DEF Control, BallsLoaded, BmlOps
<1>7. HasBalls(id) \/ crossed
  BY <1>2, <1>4, <1>5, <1>6 DEF Control, DrawsMade, BallsLoaded, HasBalls
<1>8. CASE ~ HasBalls(id)
  BY <1>2, <1>3, <1>7, <1>8
<1>9. CASE HasBalls(id)
  <2>1. /\ DOMAIN objects_' = DOMAIN objects_
        /\ \A d \in DOMAIN objects_ : objects_'[d].balls = objects_[d].balls
    <3>1. CASE objects_' = objects_
      BY <3>1
    <3>2. CASE objects_' = [objects_ EXCEPT ![id].label = Label(states_[id])]
      <4>1. \A o \in Object : \A l : [o EXCEPT !.label = l].balls = o.balls
        BY DEF Object
      <4>2. \A d \in DOMAIN objects_ : objects_[d] \in Object
        BY DEF TypeOK, StoreTypeOK
      <4>3. QED BY <3>2, <4>1, <4>2
    <3>3. QED BY <1>2, <1>9, <3>1, <3>2
  <2>2. ~ crashed'
    BY <1>2, <1>4, <1>9
  <2>3. \A u \in Thread : Keeps(u)
    BY <1>3, SameKeeps
  <2> USE DEF Control
  <2>4. Locking'
    BY <1>1, <1>4, <2>3, LockingKept
  <2>5. Order'
    BY <1>1, <1>4, OrderKept DEF TypeOK
  <2>6. ConsoleDestroys'
    <3>1. bml_mtx_' = bml_mtx_
      BY <1>3 DEF lockVars
    <3>2. QED BY <1>1, <1>4, <3>1, DestroysKept
  <2>7. BallsLoaded'
    <3>1. ingame' => template_init_
      BY <1>6
    <3>2. QED BY <1>1, <1>3, <1>4, <1>6, <2>1, <3>1, BallsKept
  <2>8. TogglesLoaded'
    BY <1>1, <1>3, <1>4, TogglesKept
  <2>9. DrawsMade'
    BY <1>1, <1>3, <1>4, <2>1, DrawsKept
  <2>10. ObjectsAccounted'
    BY <1>1, <1>3, <1>4, <2>1, AccountedKept
  <2>11. OnlyRevived'
    BY <1>1, <1>3, <1>4, RevivedKept
  <2>12. QED BY <2>2, <2>4, <2>5, <2>6, <2>7, <2>8, <2>9, <2>10, <2>11
<1>10. QED BY <1>8, <1>9

-----------------------------------------------------------------------------
(* Objects are destroyed, or the player's own is.                          *)

LEMMA DrawFirst ==
  ASSUME TypeOK, Order, ~ crashed, NEW x \in ToDo("game"), x.op = "draw"
  PROVE  At("game", "draw")
<1>1. code["game"] \in Seq(Step) /\ Orderly(code["game"])
  BY DEF TypeOK, CodeTypeOK, Order, Thread
<1>2. PICK i \in DOMAIN code["game"] : x = code["game"][i]
  BY DEF ToDo, Steps
<1>3. code["game"] # <<>>
  <2>1. \A f : f = <<>> => DOMAIN f = {}
    OBVIOUS
  <2>2. QED BY <1>2, <2>1
<1>4. i = 1
  BY <1>1, <1>2 DEF Orderly, First
<1>5. Head(code["game"]) = code["game"][1]
  BY <1>1, <1>3, Beheaded
<1>6. QED BY <1>2, <1>3, <1>4, <1>5 DEF At

(* While another thread has bml_mtx_ nothing is being drawn. *)
LEMMA NoneDrawn ==
  ASSUME Locking, bml_mtx_ # "game"
  PROVE  \A x \in ToDo("game") : x.op # "draw"
BY DEF Locking, Held, BmlOps, Thread

LEMMA DestroyKeeps ==
  ASSUME TypeOK, Control, NEW t \in Thread, Destroy(t)
  PROVE  Control'
<1>1. "game" \in Thread /\ "console" \in Thread
  BY DEF Thread
<1>2. /\ At(t, "destroy") /\ Done(t) /\ UNCHANGED lockVars /\ UNCHANGED ingame /\ objects_' = <<>>
      /\ UNCHANGED <<states_, revived, scheduled, logged_in_, template_init_>>
      /\ crossed' = (crossed \/ (At("game", "draw") /\ t = "console" /\ code[t] = reload))
  BY DEF Destroy, dbVars, sessionVars
<1>3. /\ Moves(t, {"destroy"}, {}) /\ ToDo(t)' \subseteq ToDo(t) /\ ~ crashed
      /\ Head(code[t]) \in ToDo(t) /\ Head(code[t]).op = "destroy"
      /\ \A x \in ToDo(t)' : x.op # "draw"
  BY <1>2, StepMoves DEF TypeOK, Control
<1>4. DOMAIN objects_' = {}
  <2>1. \A f : f = <<>> => DOMAIN f = {}
    OBVIOUS
  <2>2. QED BY <1>2, <2>1
<1>5. \A u \in Thread : Keeps(u)
  BY <1>2, SameKeeps
<1>6. bml_mtx_' = bml_mtx_ /\ (ingame' => template_init_)
  BY <1>2 DEF lockVars, Control, BallsLoaded
<1> USE DEF Control
<1>7. Locking'
  BY <1>3, <1>5, LockingKept
<1>8. Order'
  BY <1>3, OrderKept DEF TypeOK
<1>9. ConsoleDestroys'
  <2>1. ASSUME t = "console", code["console"] = reload PROVE ~ Will("console", "destroy")'
    <3>1. code'["console"] = Tail(code["console"])
      BY <1>2, <2>1, Stepped DEF TypeOK
    <3> DEFINE x == S("players")
               y == S("destroy")
    <3>2. x \in Step /\ x.op = "players" /\ y \in Step
      BY SOf, OpNames
    <3>3. reload = <<y, x>>
      BY DEF reload
    <3> HIDE DEF x, y
    <3>4. Tail(reload) = <<x>>
      BY <3>2, <3>3, Tuples
    <3>5. x.op \notin {"clear", "no entry", "object"}
      BY <3>2
    <3>6. Steps(<<x>>) = {x}
      BY <3>2, <3>5, Single
    <3>7. ToDo("console")' = {x}
      BY <2>1, <3>1, <3>4, <3>6 DEF ToDo
    <3>8. QED BY <3>2, <3>7 DEF Will
  <2>2. QED BY <1>3, <1>6, <2>1, DestroysKept
<1>10. BallsLoaded'
  BY <1>2, <1>3, <1>4, <1>6, BallsKept
<1>11. TogglesLoaded'
  BY <1>2, <1>3, TogglesKept
<1>12. DrawsMade'
  <2>1. (\A x \in ToDo("game")' : x.op # "draw") \/ crossed'
    <3>1. CASE t = "game"
      BY <1>3, <3>1
    <3>2. CASE t # "game"
      <4>1. ToDo("game")' = ToDo("game")
        BY <1>1, <1>3, <3>2 DEF Moves
      <4>2. CASE t = "net"
        <5>1. bml_mtx_ = "net"
          BY <1>3, <4>2 DEF Locking, Held, BmlOps
        <5>2. QED BY <4>1, <5>1, NoneDrawn
      <4>3. CASE t = "console"
        <5>1. code["console"] = reload \/ bml_mtx_ = "console"
          BY <1>3, <4>3 DEF ConsoleDestroys, Will
        <5>2. CASE bml_mtx_ = "console"
          BY <4>1, <5>2, NoneDrawn
        <5>3. CASE code["console"] = reload
          BY <1>2, <1>3, <4>1, <4>3, <5>3, DrawFirst
        <5>4. QED BY <5>1, <5>2, <5>3
      <4>4. QED BY <3>2, <4>2, <4>3 DEF Thread
    <3>3. QED BY <3>1, <3>2
  <2>2. crossed => crossed'
    BY <1>2
  <2>3. QED BY <1>3, <2>1, <2>2, DrawsKept
<1>13. ObjectsAccounted'
  BY <1>4 DEF ObjectsAccounted
<1>14. OnlyRevived'
  BY <1>2, <1>3, RevivedKept
<1>15. QED BY <1>7, <1>8, <1>9, <1>10, <1>11, <1>12, <1>13, <1>14

LEMMA HideObjectKeeps ==
  ASSUME TypeOK, Control, NEW t \in Thread, HideObject(t)
  PROVE  Control'
<1>1. "game" \in Thread /\ "console" \in Thread
  BY DEF Thread
<1>2. /\ At(t, "no object") /\ Done(t) /\ UNCHANGED lockVars /\ UNCHANGED ingame
      /\ objects_' = Without(objects_, {Me})
      /\ UNCHANGED <<states_, revived, scheduled, logged_in_, template_init_, crossed>>
  BY DEF HideObject, dbVars, gameVars
<1>3. /\ Moves(t, {"no object"}, {}) /\ ToDo(t)' \subseteq ToDo(t)
      /\ Head(code[t]) \in ToDo(t) /\ Head(code[t]).op = "no object"
      /\ \A x \in ToDo(t)' : x.op # "draw"
  BY <1>2, StepMoves DEF TypeOK, Control
<1>4. /\ DOMAIN objects_' = DOMAIN objects_ \ {Me}
      /\ \A d \in DOMAIN objects_' : objects_'[d] = objects_[d]
  BY <1>2 DEF Without
<1>5. \A u \in Thread : Keeps(u)
  BY <1>2, SameKeeps
<1>6. bml_mtx_' = bml_mtx_ /\ (ingame' => template_init_)
  BY <1>2 DEF lockVars, Control, BallsLoaded
<1> USE DEF Control
<1>7. Locking'
  BY <1>3, <1>5, LockingKept
<1>8. Order'
  BY <1>3, OrderKept DEF TypeOK
<1>9. ConsoleDestroys'
  <2>1. t = "console" => code["console"] # reload
    BY <1>2, ReloadFirst
  <2>2. QED BY <1>3, <1>6, <2>1, DestroysKept
<1>10. BallsLoaded'
  BY <1>2, <1>3, <1>4, <1>6, BallsKept
<1>11. TogglesLoaded'
  BY <1>2, <1>3, TogglesKept
<1>12. DrawsMade'
  <2>1. \A x \in ToDo("game")' : x.op # "draw"
    <3>1. CASE t = "game"
      BY <1>3, <3>1
    <3>2. CASE t # "game"
      <4>1. ToDo("game")' = ToDo("game")
        BY <1>1, <1>3, <3>2 DEF Moves
      <4>2. bml_mtx_ = t
        <5>1. Held(t, Head(code[t]))
          BY <1>3 DEF Locking
        <5>2. "no object" \in OpsOf(t)
          BY <1>3, <5>1 DEF Held
        <5>3. "no object" \in BmlOps(t)
          BY <5>2 DEF OpsOf, BmlOps, Thread
        <5>4. QED BY <1>3, <5>1, <5>3 DEF Held
      <4>3. QED BY <3>2, <4>1, <4>2, NoneDrawn
    <3>3. QED BY <3>1, <3>2
  <2>2. QED BY <1>2, <1>3, <2>1, DrawsKept
<1>13. ObjectsAccounted'
  <2>1. ASSUME NEW id \in DOMAIN objects_' PROVE Accounted(id)'
    <3>1. Accounted(id) /\ id # Me
      BY <1>4, <2>1 DEF ObjectsAccounted
    <3>2. ASSUME NEW u \in Thread, Will(u, "destroy") PROVE Will(u, "destroy")'
      <4> DEFINE lost == {"no object"}
      <4>1. "destroy" \notin lost /\ Moves(t, lost, {})
        BY <1>3
      <4> HIDE DEF lost
      <4>2. QED BY <3>2, <4>1, WillStay
    <3>3. QED BY <1>2, <3>1, <3>2 DEF Accounted
  <2>2. QED BY <2>1 DEF ObjectsAccounted
<1>14. OnlyRevived'
  BY <1>2, <1>3, RevivedKept
<1>15. QED BY <1>7, <1>8, <1>9, <1>10, <1>11, <1>12, <1>13, <1>14

LEMMA ShowObjectKeeps ==
  ASSUME TypeOK, Control, NEW t \in Thread, ShowObject(t)
  PROVE  Control'
<1>1. PICK ch \in BOOLEAN :
        /\ objects_' = WithPlayer(Me, ch)
        /\ Starts(t, <<Of("entry", IF ch THEN {Me} ELSE {})>> \o Tail(Tail(code[t])))
  BY DEF ShowObject
<1>2. /\ At(t, "object") /\ UNCHANGED lockVars /\ UNCHANGED ingame
      /\ UNCHANGED <<states_, revived, scheduled, logged_in_, template_init_, crossed>>
  BY DEF ShowObject, dbVars, gameVars, sessionVars
<1> DEFINE y == Of("entry", IF ch THEN {Me} ELSE {})
           s == Tail(code[t])
           v == Tail(s)
           w == <<y>> \o v
           lost == {"object", "entry"}
           new == {"entry"}
<1>3. /\ code[t] \in Seq(Step) /\ code[t] # <<>> /\ Head(code[t]).op = "object" /\ s \in Seq(Step)
      /\ Head(code[t]) \in ToDo(t) /\ ToDo(t) = {Head(code[t])} \cup Steps(s)
  BY <1>2, Heads DEF TypeOK
<1>4. Orderly(s) /\ s # <<>> /\ Head(s).op = "entry" /\ \A x \in Steps(s) : x.op # "draw"
  BY <1>3, TailOrderly DEF Control, Order
<1>5. v \in Seq(Step) /\ Steps(s) = {Head(s)} \cup Steps(v)
  BY <1>3, <1>4, Beheaded, TailSteps
<1>6. Orderly(v)
  BY <1>3, <1>4, TailOrderly
<1>7. y \in Step /\ y.op = "entry"
  <2>1. (IF ch THEN {Me} ELSE {}) \in SUBSET Id
    BY DEF Id
  <2>2. QED BY <2>1, SOf, OpNames
<1>8. Starts(t, w)
  BY <1>1
<1> HIDE DEF y, s, v
<1>9. Allowed(y, v)
  BY <1>4, <1>5, <1>7 DEF Allowed, Closes
<1>10. w \in Seq(Step) /\ w # <<>> /\ Steps(w) = {y} \cup Steps(v) /\ Orderly(w)
  BY <1>5, <1>6, <1>7, <1>9, Prefixed
<1> HIDE DEF w
<1>11. /\ code'[t] = w /\ ToDo(t)' = Steps(w)
       /\ \A u \in Thread : u # t => code'[u] = code[u] /\ ToDo(u)' = ToDo(u)
  BY <1>8, <1>10, Given DEF TypeOK
<1>12. Moves(t, lost, new)
  BY <1>3, <1>4, <1>5, <1>7, <1>10, <1>11 DEF Moves
<1>13. \A u \in Thread : Keeps(u)
  BY <1>2, SameKeeps
<1>14. Held(t, Head(code[t]))
  BY <1>3 DEF Control, Locking
<1>15. t = "game" /\ bml_mtx_ = "game" /\ template_init_
  <2>1. "object" \in OpsOf(t)
    BY <1>3, <1>14 DEF Held
  <2>2. t = "game"
    BY <2>1 DEF OpsOf, Thread
  <2>3. QED BY <1>3, <1>14, <2>2 DEF Held, BmlOps, Control, BallsLoaded
<1>16. ASSUME NEW x \in ToDo(t)' PROVE x \in ToDo(t) \/ Held(t, x)'
  <2>1. CASE x.op = "entry"
    <3>1. "entry" \in OpsOf("game")' /\ "entry" \notin DbOps' \cup {"init", "check", "draw"}
      BY DEF OpsOf, DbOps
    <3>2. bml_mtx_' = "game"
      BY <1>2, <1>15 DEF lockVars
    <3>3. QED BY <1>15, <2>1, <3>1, <3>2 DEF Held
  <2>2. CASE x.op # "entry"
    BY <1>3, <1>5, <1>7, <1>10, <1>11, <2>2
  <2>3. QED BY <2>1, <2>2
<1>17. /\ DOMAIN objects_' = DOMAIN objects_ \cup {Me} /\ objects_'[Me].balls = template_init_
       /\ \A d \in DOMAIN objects_ : d # Me => objects_'[d] = objects_[d]
  BY <1>1 DEF WithPlayer, With, Copied
<1> USE DEF Control
<1>18. Locking'
  BY <1>12, <1>13, <1>16, LockingKept
<1>19. Order'
  BY <1>12, OrderKept DEF TypeOK
<1>20. ConsoleDestroys'
  <2>1. bml_mtx_' = bml_mtx_ /\ t # "console"
    BY <1>2, <1>15 DEF lockVars
  <2>2. QED BY <1>12, <2>1, DestroysKept
<1>21. BallsLoaded'
  <2>1. \A d \in DOMAIN objects_' : \/ d \in DOMAIN objects_ /\ objects_'[d].balls = objects_[d].balls
                                    \/ objects_'[d].balls = template_init_
    BY <1>17
  <2>2. QED BY <1>2, <1>12, <1>15, <2>1, BallsKept
<1>22. TogglesLoaded'
  BY <1>2, <1>12, <1>15, TogglesKept
<1>23. DrawsMade'
  BY <1>2, <1>12, <1>17, DrawsKept
<1>24. ObjectsAccounted'
  <2>1. Will(t, "entry")'
    BY <1>7, <1>10, <1>11 DEF Will
  <2>2. ASSUME NEW id \in DOMAIN objects_' PROVE Accounted(id)'
    <3>1. CASE id = Me
      BY <2>1, <3>1 DEF Accounted
    <3>2. CASE id # Me
      <4>1. Accounted(id)
        BY <1>17, <2>2, <3>2 DEF ObjectsAccounted
      <4>2. ASSUME NEW u \in Thread, Will(u, "destroy") PROVE Will(u, "destroy")'
        <5>1. "destroy" \notin lost
          OBVIOUS
        <5> HIDE DEF lost
        <5>2. QED BY <1>12, <4>2, <5>1, WillStay
      <4>3. QED BY <1>2, <3>2, <4>1, <4>2 DEF Accounted
    <3>3. QED BY <3>1, <3>2
  <2>3. QED BY <2>2 DEF ObjectsAccounted
<1>25. OnlyRevived'
  BY <1>2, <1>12, RevivedKept
<1>26. QED BY <1>18, <1>19, <1>20, <1>21, <1>22, <1>23, <1>24, <1>25

-----------------------------------------------------------------------------
(* Entries are written, all but those of a loop that has db_ locked.       *)

(* What a thread's own step in db_ keeps, whatever it does to the entries. *)
LEMMA EntriesStep ==
  ASSUME TypeOK, Control, NEW t \in Thread, NEW op, At(t, op), Done(t), DbFree,
         op \in {"entry", "no entry", "clear", "fill", "write"},
         UNCHANGED lockVars,
         UNCHANGED <<objects_, scheduled, template_init_, ingame, crossed>>, logged_in_ => logged_in_'
  PROVE  /\ Moves(t, {op}, {}) /\ Head(code[t]) \in ToDo(t) /\ Head(code[t]).op = op
         /\ Held(t, Head(code[t])) /\ ToDo(t)' \subseteq ToDo(t)
         /\ op = "clear" => Will(t, "destroy")'
         /\ op = "no entry" => Will(t, "no object")'
         /\ \A u \in Thread : Will(u, "destroy") => Will(u, "destroy")'
         /\ Locking' /\ Order' /\ ConsoleDestroys' /\ BallsLoaded' /\ TogglesLoaded' /\ DrawsMade'
<1> DEFINE lost == {op}
<1>1. /\ Moves(t, lost, {}) /\ Head(code[t]) \in ToDo(t) /\ Head(code[t]).op = op
      /\ ToDo(t)' \subseteq ToDo(t)
      /\ op = "clear" => Will(t, "destroy")'
      /\ op = "no entry" => Will(t, "no object")'
  BY StepMoves DEF TypeOK, Control
<1>2. \A u \in Thread : Keeps(u)
  BY SameKeeps
<1>3. "destroy" \notin lost
  OBVIOUS
<1>4. Moves(t, {op}, {})
  BY <1>1
<1> HIDE DEF lost
<1> USE DEF Control
<1>5. Locking'
  BY <1>1, <1>2, LockingKept
<1>6. Order'
  BY <1>1, OrderKept DEF TypeOK
<1>7. ConsoleDestroys'
  <2>1. t = "console" => code["console"] # reload
    BY ReloadFirst
  <2>2. bml_mtx_' = bml_mtx_
    BY DEF lockVars
  <2>3. QED BY <1>1, <2>1, <2>2, DestroysKept
<1>8. BallsLoaded'
  <2>1. ingame' => template_init_
    BY DEF BallsLoaded
  <2>2. QED BY <1>1, <2>1, BallsKept
<1>9. TogglesLoaded'
  BY <1>1, TogglesKept
<1>10. DrawsMade'
  BY <1>1, DrawsKept
<1>11. Held(t, Head(code[t]))
  BY <1>1 DEF Locking
<1>12. \A u \in Thread : Will(u, "destroy") => Will(u, "destroy")'
  BY <1>1, <1>3, WillStay
<1>13. QED BY <1>1, <1>4, <1>5, <1>6, <1>7, <1>8, <1>9, <1>10, <1>11, <1>12

LEMMA ShowEntryKeeps ==
  ASSUME TypeOK, Control, NEW t \in Thread, ShowEntry(t)
  PROVE  Control'
<1>1. /\ At(t, "entry") /\ Done(t) /\ DbFree /\ UNCHANGED lockVars /\ UNCHANGED logged_in_
      /\ UNCHANGED <<objects_, scheduled, template_init_, ingame, crossed>>
  BY DEF ShowEntry, gameVars
<1>2. /\ Moves(t, {"entry"}, {}) /\ Head(code[t]) \in ToDo(t) /\ Head(code[t]).op = "entry"
      /\ Held(t, Head(code[t])) /\ \A u \in Thread : Will(u, "destroy") => Will(u, "destroy")'
      /\ Locking' /\ Order' /\ ConsoleDestroys' /\ BallsLoaded' /\ TogglesLoaded' /\ DrawsMade'
  BY <1>1, EntriesStep
<1>3. t = "game" /\ bml_mtx_' = "game"
  <2>1. "entry" \in OpsOf(t)
    BY <1>2 DEF Held
  <2>2. t = "game"
    BY <2>1 DEF OpsOf, Thread
  <2>3. bml_mtx_ = "game"
    BY <1>2, <2>2 DEF Held, BmlOps
  <2>4. QED BY <1>1, <2>2, <2>3 DEF lockVars
<1>4. ObjectsAccounted'
  <2>1. DOMAIN states_' = DOMAIN states_ \cup {Me}
    BY DEF ShowEntry, With
  <2>2. ASSUME NEW id \in DOMAIN objects_' PROVE Accounted(id)'
    <3>1. Accounted(id)
      BY <1>1, <2>2 DEF Control, ObjectsAccounted
    <3>2. CASE id = Me
      BY <2>1, <3>2 DEF Accounted
    <3>3. CASE id # Me
      BY <1>1, <1>2, <2>1, <3>1, <3>3 DEF Accounted
    <3>4. QED BY <3>2, <3>3
  <2>3. QED BY <2>2 DEF ObjectsAccounted
<1>5. ~ Will("console", "log out")'
  BY <1>2, <1>3 DEF Will, Locking, Held, BmlOps, Thread
<1>6. OnlyRevived'
  <2>1. /\ DOMAIN states_' = DOMAIN states_ \cup {Me}
        /\ revived' = IF logged_in_ THEN revived ELSE revived \cup {Me}
    BY DEF ShowEntry, With
  <2>2. ~ logged_in_ => DOMAIN states_ \subseteq revived
    BY DEF Control, OnlyRevived, Cleared
  <2>3. QED BY <1>1, <1>5, <2>1, <2>2 DEF OnlyRevived, Cleared
<1>7. QED BY <1>2, <1>4, <1>6 DEF Control

LEMMA HideEntryKeeps ==
  ASSUME TypeOK, Control, NEW t \in Thread, HideEntry(t)
  PROVE  Control'
<1>1. /\ At(t, "no entry") /\ Done(t) /\ DbFree /\ UNCHANGED lockVars /\ UNCHANGED logged_in_
      /\ UNCHANGED <<objects_, scheduled, template_init_, ingame, crossed, revived>>
  BY DEF HideEntry, gameVars, sessionVars
<1>2. /\ Moves(t, {"no entry"}, {}) /\ Will(t, "no object")'
      /\ \A u \in Thread : Will(u, "destroy") => Will(u, "destroy")'
      /\ Locking' /\ Order' /\ ConsoleDestroys' /\ BallsLoaded' /\ TogglesLoaded' /\ DrawsMade'
  BY <1>1, EntriesStep
<1>3. DOMAIN states_' = DOMAIN states_ \ {Me}
  BY DEF HideEntry, Without
<1>4. ObjectsAccounted'
  <2>1. ASSUME NEW id \in DOMAIN objects_' PROVE Accounted(id)'
    <3>1. Accounted(id)
      BY <1>1, <2>1 DEF Control, ObjectsAccounted
    <3>2. CASE id = Me
      BY <1>2, <3>2 DEF Accounted
    <3>3. CASE id # Me
      BY <1>1, <1>2, <1>3, <3>1, <3>3 DEF Accounted
    <3>4. QED BY <3>2, <3>3
  <2>2. QED BY <2>1 DEF ObjectsAccounted
<1>5. OnlyRevived'
  BY <1>1, <1>2, <1>3, RevivedKept DEF Control
<1>6. QED BY <1>2, <1>4, <1>5 DEF Control

LEMMA ClearKeeps ==
  ASSUME TypeOK, Control, NEW t \in Thread, Clear(t)
  PROVE  Control'
<1>1. /\ At(t, "clear") /\ Done(t) /\ DbFree /\ UNCHANGED lockVars /\ UNCHANGED logged_in_
      /\ UNCHANGED <<objects_, scheduled, template_init_, ingame, crossed>>
      /\ states_' = <<>>
  BY DEF Clear, gameVars, sessionVars
<1>2. /\ Will(t, "destroy")'
      /\ Locking' /\ Order' /\ ConsoleDestroys' /\ BallsLoaded' /\ TogglesLoaded' /\ DrawsMade'
  BY <1>1, EntriesStep
<1>3. DOMAIN states_' = {}
  <2>1. \A f : f = <<>> => DOMAIN f = {}
    OBVIOUS
  <2>2. QED BY <1>1, <2>1
<1>4. ObjectsAccounted'
  BY <1>2 DEF ObjectsAccounted, Accounted
<1>5. OnlyRevived'
  BY <1>3 DEF OnlyRevived
<1>6. QED BY <1>2, <1>4, <1>5 DEF Control

LEMMA FillKeeps ==
  ASSUME TypeOK, Control, Fill
  PROVE  Control'
<1>1. "net" \in Thread /\ "console" \in Thread /\ "net" # "console"
  BY DEF Thread
<1>2. /\ At("net", "fill") /\ Done("net") /\ DbFree /\ UNCHANGED lockVars /\ logged_in_' = TRUE
      /\ UNCHANGED <<objects_, scheduled, template_init_, ingame, crossed>>
  BY DEF Fill, gameVars
<1>3. /\ Moves("net", {"fill"}, {}) /\ Head(code["net"]).op = "fill" /\ Held("net", Head(code["net"]))
      /\ Locking' /\ Order' /\ ConsoleDestroys' /\ BallsLoaded' /\ TogglesLoaded' /\ DrawsMade'
  BY <1>1, <1>2, EntriesStep
<1>4. DOMAIN states_ \subseteq DOMAIN states_'
  BY DEF Fill
<1>5. ObjectsAccounted'
  BY <1>1, <1>2, <1>3, <1>4, AccountedKept DEF Control
<1>6. bml_mtx_' = "net"
  BY <1>2, <1>3 DEF Held, BmlOps, lockVars
<1>7. ~ Will("console", "log out")'
  BY <1>1, <1>3, <1>6 DEF Will, Locking, Held, BmlOps
<1>8. OnlyRevived'
  BY <1>2, <1>7 DEF OnlyRevived, Cleared
<1>9. QED BY <1>3, <1>5, <1>8 DEF Control

LEMMA WriteKeeps ==
  ASSUME TypeOK, Control, NEW id \in Id, Write(id)
  PROVE  Control'
<1>1. "net" \in Thread /\ "console" \in Thread /\ "net" # "console"
  BY DEF Thread
<1>2. /\ At("net", "write") /\ Done("net") /\ DbFree /\ UNCHANGED lockVars /\ UNCHANGED logged_in_
      /\ UNCHANGED <<objects_, scheduled, template_init_, ingame, crossed>>
  BY DEF Write, gameVars, sessionVars
<1>3. /\ Moves("net", {"write"}, {})
      /\ Locking' /\ Order' /\ ConsoleDestroys' /\ BallsLoaded' /\ TogglesLoaded' /\ DrawsMade'
  BY <1>1, <1>2, EntriesStep
<1>4. /\ DOMAIN states_' = DOMAIN states_ \cup {id}
      /\ revived' = IF id \in DOMAIN states_ THEN revived ELSE revived \cup {id}
  BY DEF Write, With
<1>5. ObjectsAccounted'
  BY <1>1, <1>2, <1>3, <1>4, AccountedKept DEF Control
<1>6. ToDo("console")' = ToDo("console")
  BY <1>1, <1>3 DEF Moves
<1>7. Cleared' => Cleared
  BY <1>2, <1>6 DEF Cleared, Will
<1>8. OnlyRevived'
  BY <1>4, <1>7 DEF Control, OnlyRevived
<1>9. QED BY <1>3, <1>5, <1>8 DEF Control

(* Who has the command left that ends the session holds bml_mtx_. *)
LEMMA LogOutKeeps ==
  ASSUME TypeOK, Control, NEW t \in Thread, LogOut(t)
  PROVE  Control'
<1>1. "game" \in Thread /\ "console" \in Thread /\ "game" # "console"
  BY DEF Thread
<1>2. /\ At(t, "log out") /\ Done(t) /\ UNCHANGED lockVars /\ UNCHANGED ingame /\ logged_in_' = FALSE
      /\ UNCHANGED <<states_, revived, objects_, scheduled, template_init_, crossed>>
  BY DEF LogOut, dbVars, gameVars
<1>3. /\ Moves(t, {"log out"}, {}) /\ ToDo(t)' \subseteq ToDo(t)
      /\ Head(code[t]) \in ToDo(t) /\ Head(code[t]).op = "log out"
      /\ \A x \in ToDo(t)' : x.op = "unlock"
  BY <1>2, StepMoves DEF TypeOK, Control
<1>4. t = "console" /\ bml_mtx_ = "console"
  <2>1. Held(t, Head(code[t]))
    BY <1>3 DEF Control, Locking
  <2>2. "log out" \in OpsOf(t)
    BY <1>3, <2>1 DEF Held
  <2>3. t = "console"
    BY <2>2 DEF OpsOf, Thread
  <2>4. QED BY <1>3, <2>1, <2>3 DEF Held, BmlOps
<1>5. \A u \in Thread : Keeps(u)
  BY <1>2, SameKeeps
<1>6. bml_mtx_' = bml_mtx_ /\ (ingame' => template_init_)
  BY <1>2 DEF lockVars, Control, BallsLoaded
<1> USE DEF Control
<1>7. Locking'
  BY <1>3, <1>5, LockingKept
<1>8. Order'
  BY <1>3, OrderKept DEF TypeOK
<1>9. ConsoleDestroys'
  BY <1>4, <1>6 DEF ConsoleDestroys
<1>10. BallsLoaded'
  BY <1>2, <1>3, <1>6, BallsKept
<1>11. TogglesLoaded'
  BY <1>2, <1>3, TogglesKept
<1>12. DrawsMade'
  BY <1>2, <1>3, DrawsKept
<1>13. ObjectsAccounted'
  BY <1>2, <1>3, AccountedKept
<1>14. OnlyRevived'
  <2>1. \A x \in ToDo("console") : x \in ToDo("console")' \/ x.op = "log out"
    BY <1>1, <1>3, <1>4 DEF Moves
  <2>2. ~ Will("console", "clear")
    BY <1>3, <1>4, <2>1 DEF Will
  <2>3. Will("console", "log out")
    BY <1>3, <1>4 DEF Will
  <2>4. DOMAIN states_ \subseteq revived
    BY <2>2, <2>3 DEF OnlyRevived, Cleared
  <2>5. QED BY <1>2, <2>4 DEF OnlyRevived
<1>15. QED BY <1>7, <1>8, <1>9, <1>10, <1>11, <1>12, <1>13, <1>14

-----------------------------------------------------------------------------
(* Arrivals, departures and what the game's timers do.                     *)

(* What a step keeps that leaves every thread's steps as they are. *)
LEMMA StillSteps ==
  ASSUME TypeOK, Control, UNCHANGED code, UNCHANGED lockVars, UNCHANGED logged_in_,
         template_init_ => template_init_',
         DOMAIN states_ \subseteq DOMAIN states_' \/ DbFree
  PROVE  /\ Moves("game", {}, {}) /\ \A t \in Thread : ToDo(t)' = ToDo(t)
         /\ Locking' /\ Order' /\ ConsoleDestroys' /\ TogglesLoaded'
         /\ \A u \in Thread : \A op : Will(u, op) => Will(u, op)'
         /\ Cleared' => Cleared
<1>1. "game" \in Thread /\ "console" \in Thread
  BY DEF Thread
<1> USE DEF Control
<1>2. Moves("game", {}, {}) /\ \A t \in Thread : ToDo(t)' = ToDo(t)
  BY StaysMoves
<1>3. \A u \in Thread : Keeps(u)
  BY SameKeeps
<1>4. Locking'
  BY <1>1, <1>2, <1>3, LockingKept
<1>5. Order'
  BY <1>1, <1>2, OrderKept DEF TypeOK
<1>6. ConsoleDestroys'
  BY <1>1, <1>2 DEF ConsoleDestroys, Will, lockVars
<1>7. TogglesLoaded'
  BY <1>1, <1>2 DEF TogglesLoaded
<1>8. \A u \in Thread : \A op : Will(u, op) <=> Will(u, op)'
  BY <1>2 DEF Will
<1>9. Cleared' => Cleared
  BY <1>1, <1>8 DEF Cleared
<1>10. QED BY <1>2, <1>4, <1>5, <1>6, <1>7, <1>8, <1>9

LEMMA RunScheduledKeeps ==
  ASSUME TypeOK, Control, RunScheduled
  PROVE  Control'
<1>1. "game" \in Thread
  BY DEF Thread
<1>2. /\ Idle("game") /\ UNCHANGED code /\ UNCHANGED lockVars /\ UNCHANGED ingame
      /\ objects_' = Without(objects_, scheduled)
      /\ UNCHANGED <<states_, revived, logged_in_, template_init_, crossed>>
  BY DEF RunScheduled, dbVars, sessionVars
<1>3. /\ Moves("game", {}, {}) /\ \A t \in Thread : ToDo(t)' = ToDo(t)
      /\ Locking' /\ Order' /\ ConsoleDestroys' /\ TogglesLoaded'
      /\ \A u \in Thread : \A op : Will(u, op) => Will(u, op)'
      /\ Cleared' => Cleared
  BY <1>2, StillSteps
<1>4. /\ DOMAIN objects_' = DOMAIN objects_ \ scheduled
      /\ \A d \in DOMAIN objects_' : objects_'[d] = objects_[d]
  BY <1>2 DEF Without
<1>5. ToDo("game")' = {}
  BY <1>1, <1>2, <1>3, IdleEmpty
<1>6. BallsLoaded'
  BY <1>2, <1>4, <1>5 DEF Control, BallsLoaded
<1>7. DrawsMade'
  BY <1>5 DEF DrawsMade
<1>8. ObjectsAccounted'
  <2>1. ASSUME NEW id \in DOMAIN objects_' PROVE Accounted(id)'
    <3>1. Accounted(id) /\ id \notin scheduled
      BY <1>4, <2>1 DEF Control, ObjectsAccounted
    <3>2. QED BY <1>2, <1>3, <3>1 DEF Accounted
  <2>2. QED BY <2>1 DEF ObjectsAccounted
<1>9. OnlyRevived'
  BY <1>2, <1>3 DEF Control, OnlyRevived
<1>10. QED BY <1>3, <1>6, <1>7, <1>8, <1>9 DEF Control

LEMMA LoadBallsKeeps ==
  ASSUME TypeOK, Control, LoadBalls
  PROVE  Control'
<1>1. "game" \in Thread
  BY DEF Thread
<1>2. /\ Idle("game") /\ UNCHANGED code /\ UNCHANGED lockVars /\ UNCHANGED ingame
      /\ objects_' = <<>> /\ template_init_' = TRUE
      /\ UNCHANGED <<states_, revived, logged_in_, crossed>>
  BY DEF LoadBalls, dbVars, sessionVars
<1>3. /\ Moves("game", {}, {}) /\ \A t \in Thread : ToDo(t)' = ToDo(t)
      /\ Locking' /\ Order' /\ ConsoleDestroys' /\ TogglesLoaded'
      /\ Cleared' => Cleared
  BY <1>2, StillSteps
<1>4. DOMAIN objects_' = {}
  <2>1. \A f : f = <<>> => DOMAIN f = {}
    OBVIOUS
  <2>2. QED BY <1>2, <2>1
<1>5. ToDo("game")' = {}
  BY <1>1, <1>2, <1>3, IdleEmpty
<1>6. BallsLoaded'
  BY <1>2, <1>4, <1>5 DEF BallsLoaded
<1>7. DrawsMade'
  BY <1>5 DEF DrawsMade
<1>8. ObjectsAccounted'
  BY <1>4 DEF ObjectsAccounted
<1>9. OnlyRevived'
  BY <1>2, <1>3 DEF Control, OnlyRevived
<1>10. QED BY <1>3, <1>6, <1>7, <1>8, <1>9 DEF Control

LEMMA PlayerConnectedKeeps ==
  ASSUME TypeOK, Control, PlayerConnected
  PROVE  Control'
<1>1. "game" \in Thread /\ "console" \in Thread
  BY DEF Thread
<1>2. /\ BmlFree /\ DbFree /\ UNCHANGED code /\ UNCHANGED lockVars
      /\ UNCHANGED <<objects_, logged_in_, template_init_, ingame, scheduled, crossed>>
  BY DEF PlayerConnected, gameVars
<1>3. /\ Moves("game", {}, {}) /\ \A t \in Thread : ToDo(t)' = ToDo(t)
      /\ Locking' /\ Order' /\ ConsoleDestroys' /\ TogglesLoaded'
      /\ Cleared' => Cleared
  BY <1>2, StillSteps
<1>4. PICK p \in Peer : /\ DOMAIN states_' = DOMAIN states_ \cup {p}
                        /\ revived' = IF logged_in_ THEN revived ELSE revived \cup {p}
  BY DEF PlayerConnected, With
<1>5. BallsLoaded'
  BY <1>1, <1>2, <1>3 DEF Control, BallsLoaded, BmlOps
<1>6. DrawsMade'
  BY <1>1, <1>2, <1>3 DEF Control, DrawsMade
<1>7. ObjectsAccounted'
  BY <1>1, <1>2, <1>3, <1>4, AccountedKept DEF Control
<1>8. OnlyRevived'
  <2>1. ~ Will("console", "log out")
    BY <1>1, <1>2 DEF Control, Locking, Held, BmlOps, BmlFree, Free, Will
  <2>2. QED BY <1>3, <1>4, <2>1 DEF Control, OnlyRevived, Cleared
<1>9. QED BY <1>3, <1>5, <1>6, <1>7, <1>8 DEF Control

LEMMA PlayerDisconnectedKeeps ==
  ASSUME TypeOK, Control, PlayerDisconnected
  PROVE  Control'
<1>1. "game" \in Thread
  BY DEF Thread
<1>2. /\ DbFree /\ UNCHANGED code /\ UNCHANGED lockVars
      /\ UNCHANGED <<objects_, logged_in_, template_init_, ingame, revived, crossed>>
  BY DEF PlayerDisconnected
<1>3. /\ Moves("game", {}, {}) /\ \A t \in Thread : ToDo(t)' = ToDo(t)
      /\ Locking' /\ Order' /\ ConsoleDestroys' /\ TogglesLoaded'
      /\ \A u \in Thread : \A op : Will(u, op) => Will(u, op)'
      /\ Cleared' => Cleared
  BY <1>2, StillSteps
<1>4. PICK p : DOMAIN states_' = DOMAIN states_ \ {p} /\ scheduled' = scheduled \cup {p}
  BY DEF PlayerDisconnected, Without
<1>5. BallsLoaded'
  BY <1>1, <1>2, <1>3 DEF Control, BallsLoaded, BmlOps
<1>6. DrawsMade'
  BY <1>1, <1>2, <1>3 DEF Control, DrawsMade
<1>7. ObjectsAccounted'
  <2>1. ASSUME NEW id \in DOMAIN objects_' PROVE Accounted(id)'
    <3>1. Accounted(id)
      BY <1>2, <2>1 DEF Control, ObjectsAccounted
    <3>2. CASE id = p
      BY <1>4, <3>2 DEF Accounted
    <3>3. CASE id # p
      BY <1>3, <1>4, <3>1, <3>3 DEF Accounted
    <3>4. QED BY <3>2, <3>3
  <2>2. QED BY <2>1 DEF ObjectsAccounted
<1>8. OnlyRevived'
  BY <1>2, <1>3, <1>4 DEF Control, OnlyRevived
<1>9. QED BY <1>3, <1>5, <1>6, <1>7, <1>8 DEF Control

-----------------------------------------------------------------------------
(* The invariant, and what follows from it.                                *)

LEMMA InitControl == Init => IInv
<1> SUFFICES ASSUME Init PROVE IInv
  OBVIOUS
<1>1. TypeOK /\ ~ crashed
  BY InitTyped DEF Init
<1>2. \A t \in Thread : code[t] = <<>> /\ ToDo(t) = {}
  BY EmptyOrderly DEF Init, ToDo
<1>3. "game" \in Thread /\ "console" \in Thread
  BY DEF Thread
<1>4. DOMAIN states_ = {} /\ DOMAIN objects_ = {} /\ ~ ingame
  <2>1. \A f : f = <<>> => DOMAIN f = {}
    OBVIOUS
  <2>2. QED BY <2>1 DEF Init
<1>5. Locking
  BY <1>2 DEF Locking
<1>6. Order
  BY <1>2, EmptyOrderly DEF Order
<1>7. ConsoleDestroys /\ BallsLoaded /\ TogglesLoaded /\ DrawsMade
  BY <1>2, <1>3, <1>4 DEF ConsoleDestroys, BallsLoaded, TogglesLoaded, DrawsMade, Will
<1>8. ObjectsAccounted /\ OnlyRevived
  BY <1>4 DEF ObjectsAccounted, OnlyRevived
<1>9. QED BY <1>1, <1>5, <1>6, <1>7, <1>8 DEF IInv, Control

LEMMA NextNotCrashed == TypeOK /\ Next => ~ crashed
<1> SUFFICES ASSUME TypeOK, Next PROVE ~ crashed
  OBVIOUS
<1>1. \A t \in Thread : Goes(t) => ~ crashed
  BY DEF Goes, At, Destroy, InitPlayers, InitPlayer, Made, ShowObject, ShowEntry, HideEntry,
         HideObject, Unlock, Clear, LogOut
<1>2. \/ FrameGoes \/ UpdateFails \/ Update \/ SkipDraw \/ StartLevel \/ ToggleLocked
      \/ ShowWithoutHandler \/ Fill \/ (\E id \in Id : Write(id))
      => ~ crashed
  BY DEF FrameGoes, ToggleLocked, ShowWithoutHandler, At, ReadFlush, UnsetFlush, Check, Draw, Drawn, UpdateFails, Update, SkipDraw,
         StartLevel, Fill, Write
<1>3. \/ Frame \/ RunScheduled \/ LoadBalls \/ LoadLevel \/ StartMenu \/ ToggleOwnBall
      \/ PressReload \/ TypeReload \/ Cleanup \/ LoginAccepted
      => ~ crashed
  BY DEF Idle, Frame, RunScheduled, LoadBalls, LoadLevel, StartMenu, ToggleOwnBall, PressReload,
         TypeReload, Reloads, Cleanup, LoginAccepted
<1>4. PlayerConnected \/ PlayerDisconnected \/ CheatState \/ (\E id \in Id : LatencyData(id)) => ~ crashed
  BY DEF Handles, Idle, PlayerConnected, PlayerDisconnected, CheatState, LatencyData
<1>5. QED BY <1>1, <1>2, <1>3, <1>4 DEF Next

(* Only a frame that draws can find a ball missing, and only the key that  *)
(* outlived the session the handler.                                       *)
LEMMA CrashedKept == TypeOK /\ Next => Draw \/ ShowWithoutHandler \/ UNCHANGED crashed
<1> SUFFICES ASSUME TypeOK, Next, ~ Draw, ~ ShowWithoutHandler PROVE UNCHANGED crashed
  OBVIOUS
<1>1. \A t \in Thread : Goes(t) => UNCHANGED crashed
  BY DEF Goes, Destroy, InitPlayers, InitPlayer, Made, ShowObject, ShowEntry, HideEntry,
         HideObject, Unlock, Clear, LogOut, gameVars
<1>2. \/ FrameGoes \/ UpdateFails \/ Update \/ SkipDraw \/ StartLevel \/ ToggleLocked \/ Fill
      \/ (\E id \in Id : Write(id))
      => UNCHANGED crashed
  BY DEF FrameGoes, ToggleLocked, ReadFlush, UnsetFlush, Check, Drawn, UpdateFails, Update, SkipDraw,
         StartLevel, Fill, Write, gameVars
<1>3. \/ Frame \/ RunScheduled \/ LoadBalls \/ LoadLevel \/ StartMenu \/ ToggleOwnBall
      \/ PressReload \/ TypeReload \/ Cleanup \/ LoginAccepted
      => UNCHANGED crashed
  BY DEF Frame, RunScheduled, LoadBalls, LoadLevel, StartMenu, ToggleOwnBall, PressReload,
         TypeReload, Reloads, Cleanup, LoginAccepted, gameVars
<1>4. PlayerConnected \/ PlayerDisconnected \/ CheatState \/ (\E id \in Id : LatencyData(id))
      => UNCHANGED crashed
  BY DEF PlayerConnected, PlayerDisconnected, CheatState, LatencyData, gameVars
<1>5. QED BY <1>1, <1>2, <1>3, <1>4 DEF Next

LEMMA NextControl == IInv /\ [Next]_vars => IInv'
<1> SUFFICES ASSUME IInv, [Next]_vars PROVE IInv'
  OBVIOUS
<1>1. TypeOK'
  BY NextTyped DEF IInv
<1>2. CASE Next
  <2>1. TypeOK /\ ~ crashed /\ Control
    BY <1>2, NextNotCrashed DEF IInv
  <2>2. CASE Draw
    BY <1>1, <2>1, <2>2, DrawKeeps DEF IInv
  <2>3. CASE ShowWithoutHandler
    BY <1>1, <2>3 DEF ShowWithoutHandler, IInv
  <2>4. CASE ~ Draw /\ ~ ShowWithoutHandler
    <3>1. ~ crashed'
      BY <1>2, <2>1, <2>4, CrashedKept
    <3>2. ASSUME NEW t \in Thread, Goes(t) PROVE Control'
      <4>1. CASE Made(t) \/ Unlock(t)
        BY <2>1, <4>1, QuietPasses
      <4>2. CASE Destroy(t) \/ InitPlayers(t) \/ InitPlayer(t) \/ ShowObject(t) \/ HideObject(t)
        BY <2>1, <4>2, DestroyKeeps, InitPlayersKeeps, InitPlayerKeeps, ShowObjectKeeps,
           HideObjectKeeps
      <4>3. CASE ShowEntry(t) \/ HideEntry(t) \/ Clear(t) \/ LogOut(t)
        BY <2>1, <4>3, ShowEntryKeeps, HideEntryKeeps, ClearKeeps, LogOutKeeps
      <4>4. QED BY <3>2, <4>1, <4>2, <4>3 DEF Goes
    <3>3. ASSUME ReadFlush \/ UnsetFlush \/ SkipDraw \/ StartLevel \/ UpdateFails \/ Drawn
          PROVE  Control'
      BY <2>1, <3>3, QuietPasses
    <3>4. ASSUME \/ Frame \/ LoadLevel \/ StartMenu \/ PressReload \/ TypeReload \/ ToggleOwnBall
                 \/ Cleanup \/ LoginAccepted \/ CheatState \/ \E id \in Id : LatencyData(id)
          PROVE  Control'
      BY <2>1, <3>4, QuietPlans
    <3>5. ASSUME Update \/ Check \/ ToggleLocked \/ Fill \/ \E id \in Id : Write(id) PROVE Control'
      BY <2>1, <3>5, UpdateKeeps, CheckKeeps, ToggleLockedKeeps, FillKeeps, WriteKeeps
    <3>6. ASSUME RunScheduled \/ LoadBalls \/ PlayerConnected \/ PlayerDisconnected PROVE Control'
      BY <2>1, <3>6, RunScheduledKeeps, LoadBallsKeeps, PlayerConnectedKeeps,
         PlayerDisconnectedKeeps
    <3>7. Control'
      BY <1>2, <2>4, <3>2, <3>3, <3>4, <3>5, <3>6 DEF Next, FrameGoes
    <3>8. QED BY <1>1, <3>1, <3>7 DEF IInv
  <2>5. QED BY <2>2, <2>3, <2>4
<1>3. CASE UNCHANGED vars
  <2>1. UNCHANGED <<states_, objects_, revived, template_init_, ingame, logged_in_, bml_mtx_,
                    db_mutex, code, scheduled, crashed, crossed, stranded>>
    BY <1>3 DEF vars, dbVars, lockVars, gameVars, sessionVars
  <2>2. ASSUME Control PROVE Control'
    <3>1. Locking' /\ Order' /\ ConsoleDestroys' /\ TogglesLoaded'
      BY <2>1, <2>2, StillSteps DEF IInv, lockVars
    <3>2. BallsLoaded' /\ DrawsMade'
      BY <2>1, <2>2 DEF Control, BallsLoaded, DrawsMade, BmlOps, ToDo
    <3>3. ObjectsAccounted' /\ OnlyRevived'
      BY <2>1, <2>2 DEF Control, ObjectsAccounted, Accounted, OnlyRevived, Cleared, Will, ToDo
    <3>4. QED BY <3>1, <3>2, <3>3 DEF Control
  <2>3. QED BY <1>1, <2>1, <2>2 DEF IInv
<1>4. QED BY <1>2, <1>3

LEMMA Invariance == Spec => []IInv
<1>1. QED BY InitControl, NextControl, PTL DEF Spec

(* No frame reads the balls of an entry that has none, unless reload in    *)
(* the console window has destroyed the objects in the middle of a frame:  *)
(* whatever levels, keys, logins, departures and cleanup come between.     *)
(* The only other crash is the key's that waited for cleanup and then asks *)
(* a handler that is gone.                                                 *)
THEOREM FramesFindBalls == Spec => []BallsThere
<1>1. IInv => BallsThere
  BY DEF IInv, BallsThere
<1>2. QED BY <1>1, Invariance, PTL

(* Between frames and messages who has an object is in db_, and after a    *)
(* session db_ holds only whom the last of the network's messages, or a    *)
(* key pressed before its end, brought back.                               *)
THEOREM DrawnAreInDb == Spec => []ObjectsGoWithPlayers
<1>1. ASSUME IInv PROVE ObjectsGoWithPlayers
  <2>1. SUFFICES ASSUME atRest, ~ crashed
                 PROVE  /\ DOMAIN objects_ \subseteq DOMAIN states_
                        /\ ~ logged_in_ => DOMAIN states_ \subseteq revived
    BY DEF ObjectsGoWithPlayers
  <2>2. \A t \in Thread : ToDo(t) = {}
    BY <2>1, EmptyOrderly DEF atRest, ToDo
  <2>3. Control /\ scheduled = {}
    BY <1>1, <2>1 DEF IInv, atRest
  <2>4. \A id \in DOMAIN objects_ : id \in DOMAIN states_
    BY <2>2, <2>3 DEF Control, ObjectsAccounted, Accounted, Will
  <2>5. ~ logged_in_ => DOMAIN states_ \subseteq revived
    BY <2>3 DEF Control, OnlyRevived, Cleared
  <2>6. QED BY <2>4, <2>5
<1>2. QED BY <1>1, Invariance, PTL
=============================================================================
