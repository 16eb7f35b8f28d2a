------------------------ MODULE Announcements_proofs ------------------------
(***************************************************************************)
(* What the proofs of Announcements rest on: a stream of messages to a     *)
(* connection is read from its end, for what the connection will know once *)
(* it has handled all of it, and from each of its messages, for what the   *)
(* messages before it have told.                                           *)
(***************************************************************************)
EXTENDS Announcements, SequenceTheorems, TLAPS

-----------------------------------------------------------------------------
(* Types.                                                                  *)

Where == [map : Map \cup {NoMap}, sector : Sector]
Entry == [named : BOOLEAN, cheated : BOOLEAN, map : Map \cup {NoMap}, sector : Sector]
Entries == UNION {[S -> Entry] : S \in SUBSET Conn}
Records == {r \in Entries : \A c \in DOMAIN r : r[c].named}

UpMsg ==
  UNION {[kind : {"LoginRequest", "CheatState", "CheatToggle"}, cheated : BOOLEAN],
         [kind : {"MapNames"}, maps : SUBSET Map],
         [kind : {"CurrentMap"}, map : Map \cup {NoMap}, sector : Sector,
          type : {"Announcement", "EnteringMap"}],
         [kind : {"CurrentSector"}, sector : Sector],
         [kind : {"PermanentNotification"}, text : Text],
         [kind : {"PrivateChat", "RestartRequest", "RestartRequestFailed"}, about : Conn],
         [kind : {"Chat", "ScoreList", "ImportantNotification", "HashData"}]}

DownMsg ==
  UNION {[kind : {"LoginAccepted"}, online : Records],
         [kind : {"PlayerConnected", "OwnedCheatState", "OwnedCheatToggle"},
          from : Conn, cheated : BOOLEAN],
         [kind : {"CheatToggle"}, cheated : BOOLEAN],
         [kind : {"MapNames"}, maps : SUBSET Map],
         [kind : {"CurrentMap"}, from : Conn, map : Map \cup {NoMap}, sector : Sector,
          type : {"Announcement", "EnteringMap"}],
         [kind : {"CurrentSector"}, from : Conn, sector : Sector],
         [kind : {"PermanentNotification"}, text : Text],
         [kind : {"RestartRequest"}, from : Conn, about : Conn],
         [kind : {"RestartRequestFailed"}, about : Conn],
         [kind : {"PlayerDisconnected", "Chat", "ImportantNotification", "PrivateChat"},
          from : Conn],
         [kind : {"ActionDenied", "ScoreList", "PublicNotification"}]}

ServerTypeOK == record \in Records /\ map_names_ \subseteq Map /\ bulletin \in Text
StreamTypeOK ==
  up \in [Conn -> Seq(UpMsg)] /\ down \in [Conn -> Seq(DownMsg)] /\ met \in [Conn -> SUBSET Conn]
PlayerTypeOK ==
  /\ status \in [Conn -> {"out", "joining", "in", "left"}]
  /\ cheat \in [Conn -> BOOLEAN]
  /\ place \in [Conn -> Where]
Display == [text : Text, calls : Seq([text : Text, updates : BOOLEAN])]
CopyTypeOK ==
  /\ known \in [Conn -> SUBSET Map] /\ mirror \in [Conn -> Entries]
  /\ shown \in [Conn -> Display] /\ \A c \in Conn \ Mod : shown[c].calls = <<>>
ThreadTypeOK ==
  /\ game \in [Conn -> {"idle", "loaded", "name", "sector"}]
  /\ net \in [Conn -> {"poll", "logged in", "named", "assembled"}]
  /\ \A c \in Conn : game[c] # "idle" => place[c].map \in Map
  /\ carried \in [Conn -> Where]
  /\ crashed \subseteq Conn
ActsTypeOK ==
  /\ acts \in [ActKind -> Nat]
  /\ untold \subseteq Conn /\ overtaken \subseteq Conn /\ nameless \subseteq Conn

TypeOK ==
  ServerTypeOK /\ StreamTypeOK /\ PlayerTypeOK /\ CopyTypeOK /\ ThreadTypeOK /\ ActsTypeOK

-----------------------------------------------------------------------------
(* Whom a message introduces, takes away and needs.                        *)

Brings(m) ==
  CASE m.kind = "PlayerConnected" -> {m.from}
    [] m.kind = "LoginAccepted" -> DOMAIN m.online
    [] OTHER -> {}
Takes(m) == IF m.kind = "PlayerDisconnected" THEN {m.from} ELSE {}
Needs(m) == IF m.kind = "PlayerConnected" THEN {} ELSE Mentioned(m)

-----------------------------------------------------------------------------
(* Sessions: how far each connection is.                                   *)

Active(c) == status[c] \in {"joining", "in"}

(* What is shown once the calls have been run. *)
Ending(sh) == IF sh.calls = <<>> THEN sh.text ELSE sh.calls[Len(sh.calls)].text

(* The request is the first message of a connection and the only one of    *)
(* its kind; what the server is sent before it has been handled are cheat  *)
(* modes; once a departure has been handled nothing comes any more.        *)
NoRequest(s) == \A i \in 1 .. Len(s) : s[i].kind # "LoginRequest"
Asking(s) == \A i \in 1 .. Len(s) : s[i].kind = IF i = 1 THEN "LoginRequest" ELSE "CheatState"
Stage(st, on, s) ==
  /\ st = "out" => Len(s) = 0
  /\ on => st # "out" /\ NoRequest(s)
  /\ ~ on => st # "in" /\ Asking(s) /\ (st = "joining" => Len(s) # 0)
Requested(c) ==
  /\ Stage(status[c], c \in online, up[c])
  /\ c \notin online /\ status[c] # "left" => Len(down[c]) = 0 /\ known[c] = {} /\ Ending(shown[c]) = ""

(* The threads of the mod send while the player is logged in. *)
InSession(c) ==
  /\ game[c] # "idle" => c \in Mod
  /\ game[c] \in {"name", "sector"} => status[c] = "in"
  /\ net[c] # "poll" => c \in Mod /\ status[c] \in {"in", "left"}
  /\ c \in crashed => status[c] = "left"

(* The acceptance of a login comes once, with nothing but names before it. *)
NoList(s) == \A i \in 1 .. Len(s) : s[i].kind # "LoginAccepted"
ListOnce(s) ==
  \E i \in 1 .. Len(s) :
    /\ s[i].kind = "LoginAccepted"
    /\ \A j \in 1 .. i - 1 : s[j].kind = "MapNames"
    /\ \A j \in i + 1 .. Len(s) : s[j].kind # "LoginAccepted"
Greeted(c) ==
  /\ status[c] = "in" => NoList(down[c])
  /\ status[c] = "joining" /\ c \in online => ListOnce(down[c])

(* Who is reported as gone is gone for good. *)
Gone == {id \in Conn : id \notin online /\ status[id] = "left" /\ Len(up[id]) = 0}
Reports(s, P) == \A i \in 1 .. Len(s) : Takes(s[i]) \subseteq P
GoneForGood == \A c \in Conn : Reports(down[c], Gone)

Sessions == (\A c \in Conn : Requested(c) /\ InSession(c) /\ Greeted(c)) /\ GoneForGood

-----------------------------------------------------------------------------
(* The roster: what a connection c with the messages s before it, which    *)
(* knows the players K, needs, and what it will know: the players on.      *)

(* Whom a message needs has been introduced, and not taken away. *)
NeedsMet(c, s, K) ==
  \A i \in 1 .. Len(s) : \A id \in Needs(s[i]) \ {c} :
    /\ id \in K \/ \E j \in 1 .. i - 1 : id \in Brings(s[j])
    /\ \A j \in 1 .. i - 1 : id \notin Takes(s[j])
(* All who are online will be known. *)
EndsKnown(c, s, K, on) ==
  \A id \in on \ {c} :
    /\ id \in K \/ \E j \in 1 .. Len(s) : id \in Brings(s[j])
    /\ \A j \in 1 .. Len(s) : id \notin Takes(s[j])
(* Who is introduced is online or will be taken away. *)
Accounted(s, K, on) ==
  /\ \A id \in K : id \in on \/ \E j \in 1 .. Len(s) : id \in Takes(s[j])
  /\ \A i \in 1 .. Len(s) : \A id \in Brings(s[i]) :
       id \in on \/ \E j \in i + 1 .. Len(s) : id \in Takes(s[j])
(* Nobody is introduced twice. *)
Once(c, s, K) ==
  \A i \in 1 .. Len(s) : \A id \in Brings(s[i]) \ {c} :
    id \notin K /\ \A j \in 1 .. i - 1 : id \notin Brings(s[j])

Roster(c, s, K, on) ==
  NeedsMet(c, s, K) /\ EndsKnown(c, s, K, on) /\ Accounted(s, K, on) /\ Once(c, s, K)

Named(f) == {id \in DOMAIN f : f[id].named}
Knows(c) == IF status[c] = "in" THEN Named(mirror[c]) ELSE {}

Rosters ==
  /\ \A c \in online : Active(c) => Roster(c, down[c], Knows(c), online)
  /\ \A c \in Mod : Named(mirror[c]) = DOMAIN mirror[c]

-----------------------------------------------------------------------------
(* Names of maps.                                                          *)

Naming(m) == IF m.kind = "MapNames" THEN m.maps ELSE {}
Puts(m, id, x) ==
  \/ m.kind = "CurrentMap" /\ m.from = id /\ m.map = x
  \/ m.kind = "LoginAccepted" /\ id \in DOMAIN m.online /\ m.online[id].map = x

(* A map has its name among M or gets it from the messages s. *)
Gets(s, M, x) == x \in M \/ \E i \in 1 .. Len(s) : x \in Naming(s[i])
Only(s, M) == \A i \in 1 .. Len(s) : Naming(s[i]) \subseteq M

(* What the server says to a client that knows the names k, when it knows  *)
(* M itself: a map, but for those of players in nl, comes after its name.  *)
NamedBefore(c, s, k, nl) ==
  \A i \in 1 .. Len(s) : \A id \in Conn \ (nl \cup {c}), x \in Map :
    Puts(s[i], id, x) => x \in k \/ \E j \in 1 .. i - 1 : x \in Naming(s[j])
Heard(c, s, k, nl, M) == NamedBefore(c, s, k, nl) /\ (\A x \in M : Gets(s, k, x)) /\ Only(s, M)

(* What a client says to the server. *)
UpNamed(s, M) ==
  \A i \in 1 .. Len(s) :
    s[i].kind = "CurrentMap" =>
      s[i].map \in M \cup {NoMap} \/ \E j \in 1 .. i - 1 : s[i].map \in Naming(s[j])

(* The names k of a client are on their way to the server, or known there, *)
(* but for the one the game thread g is about to send; so is that of the   *)
(* map q the network thread n is about to send, unless they crossed.       *)
Telling(c, s, k, M, g, p, n, q, nl) ==
  /\ Only(s, k)
  /\ \A x \in k : (g = "name" /\ x = p) \/ Gets(s, M, x)
  /\ g \in {"name", "sector"} => p \in k
  /\ c \notin nl => /\ g = "sector" => Gets(s, M, p)
                    /\ n = "assembled" /\ q # NoMap => Gets(s, M, q)

Recorded(c) == record[c].map \in map_names_ \cup {NoMap} /\ UpNamed(up[c], map_names_)
Hears(c) == Heard(c, down[c], known[c], nameless, map_names_)
Own(c) ==
  Telling(c, up[c], known[c], map_names_, game[c], place[c].map, net[c], carried[c].map, nameless)
NamedMaps(c) ==
  \A id \in DOMAIN mirror[c] \ (nameless \cup {c}) : mirror[c][id].map \in known[c] \cup {NoMap}
Maps ==
  /\ \A c \in online \ nameless : Recorded(c)
  /\ \A c \in online : Active(c) => Hears(c) /\ Own(c)
  /\ \A c \in Conn : status[c] = "in" => NamedMaps(c)

-----------------------------------------------------------------------------
(* The bulletin.                                                           *)

EndsShowing(s, sh, b) ==
  \/ sh = b /\ \A i \in 1 .. Len(s) : s[i].kind # "PermanentNotification"
  \/ \E i \in 1 .. Len(s) :
       /\ s[i].kind = "PermanentNotification" /\ s[i].text = b
       /\ \A j \in i + 1 .. Len(s) : s[j].kind # "PermanentNotification"
Bulletins == \A c \in online : Active(c) => EndsShowing(down[c], Ending(shown[c]), bulletin)
-----------------------------------------------------------------------------
(* What is told of a player: cheat mode, map and sector.  An announcement  *)
(* of a map is a place to headless clients only ("any").                   *)

Topic == {"cheated", "map", "sector"}
Ear == {"any", "entering"}
Of(d) == IF d \in Mod THEN "entering" ELSE "any"
Places(m, q) == m.kind = "CurrentMap" /\ (q = "any" \/ m.type = "EnteringMap")

(* A message of a player, and what others are told about e. *)
Says(t, q, m) ==
  \/ t = "cheated" /\ m.kind \in {"LoginRequest", "CheatState"}
  \/ t \in {"map", "sector"} /\ Places(m, q)
  \/ t = "sector" /\ m.kind = "CurrentSector"
Sets(t, q, m, e) ==
  \/ m.kind = "LoginAccepted" /\ e \in DOMAIN m.online
  \/ m.kind = "PlayerConnected" /\ m.from = e
  \/ t = "cheated" /\ m.kind = "OwnedCheatState" /\ m.from = e
  \/ t \in {"map", "sector"} /\ Places(m, q) /\ m.from = e
  \/ t = "sector" /\ m.kind = "CurrentSector" /\ m.from = e
To(t, m, e) ==
  CASE m.kind = "LoginAccepted" -> m.online[e][t]
    [] m.kind = "PlayerConnected" -> Player(m.cheated, Nowhere)[t]
    [] OTHER -> m[t]

(* The last word on it in a stream is v; there is none. *)
SaysLast(t, q, s, v) ==
  \E i \in 1 .. Len(s) :
    Says(t, q, s[i]) /\ s[i][t] = v /\ \A j \in i + 1 .. Len(s) : ~ Says(t, q, s[j])
Silent(t, q, s) == \A i \in 1 .. Len(s) : ~ Says(t, q, s[i])
SetsLast(t, q, s, e, v) ==
  \E i \in 1 .. Len(s) :
    Sets(t, q, s[i], e) /\ To(t, s[i], e) = v /\ \A j \in i + 1 .. Len(s) : ~ Sets(t, q, s[j], e)
Leaves(t, q, s, e) == \A i \in 1 .. Len(s) : ~ Sets(t, q, s[i], e)

(* Once it has heard everything, d has v for e: it shows it now, in W, or  *)
(* will be told.                                                           *)
Ends(t, q, s, e, W, v) == SetsLast(t, q, s, e, v) \/ (v \in W /\ Leaves(t, q, s, e))
Shown(t, d, e) == IF status[d] = "in" /\ e \in DOMAIN mirror[d] THEN {mirror[d][e][t]} ELSE {}
Agrees(t, d, e, v) == Ends(t, Of(d), down[d], e, Shown(t, d, e), v)

-----------------------------------------------------------------------------
(* Cheat modes.                                                            *)

(* On record and with everybody else, and not to be forced. *)
OnRecord(c, v) ==
  /\ c \in online /\ record[c].cheated = v /\ ~ Forced(c, v)
  /\ \A d \in online \ {c} : Active(d) => Agrees("cheated", d, c, v)
(* What will turn a player's mode around is on its way. *)
Opposite(ch) == CheatToggle(~ ch)
TurnedAround(c, v) == Forced(c, v) /\ \E i \in 1 .. Len(down[c]) : down[c][i] = Opposite(v)
Believed(c, v) ==
  \/ SaysLast("cheated", "any", up[c], v)
  \/ Silent("cheated", "any", up[c]) /\ (OnRecord(c, v) \/ TurnedAround(c, v))

(* What the server was told: not the mode of a player who is untold. *)
ToldTo(c, v) == (v = cheat[c]) <=> (c \notin untold)
Due(c) == c \notin Spectator /\ Active(c) /\ (c \notin untold \/ status[c] = "joining")
ModeKnown(c) ==
  /\ status[c] = "out" => c \notin untold
  /\ Due(c) => \A v \in BOOLEAN : ToldTo(c, v) => Believed(c, v)
Cheats == \A c \in Conn : ModeKnown(c)

-----------------------------------------------------------------------------
(* Places.                                                                 *)

OnServer(t, q, c, v) ==
  SaysLast(t, q, up[c], v) \/ (Silent(t, q, up[c]) /\ record[c][t] = v)
WithOther(t, d, c, v) ==
  SaysLast(t, Of(d), up[c], v) \/ (Silent(t, Of(d), up[c]) /\ Agrees(t, d, c, v))
Followed(t, c, v) ==
  /\ \A q \in Ear : OnServer(t, q, c, v)
  /\ \A d \in online \ {c} : Active(d) => WithOther(t, d, c, v)

(* No thread is about to tell where the player is. *)
AtRest(c) ==
  /\ Active(c) /\ c \notin overtaken /\ game[c] = "idle" /\ net[c] = "poll"
  /\ c \in Mod => status[c] = "in"
Unplaced(c) == c \notin Mod /\ status[c] \in {"out", "joining"} => place[c] = Nowhere
Carrying(c) == c \notin overtaken /\ net[c] = "assembled" => carried[c] = place[c]
Settled(c) == AtRest(c) => \A t \in {"map", "sector"} : Followed(t, c, place[c][t])
Whereabouts == (\A c \in Conn : Unplaced(c) /\ Carrying(c)) /\ \A c \in online : Settled(c)

-----------------------------------------------------------------------------
(* Streams and entries.                                                    *)

(* A sequence put after another. *)
LEMMA Joined ==
  ASSUME NEW S, NEW s \in Seq(S), NEW w \in Seq(S)
  PROVE  /\ s \o w \in Seq(S) /\ Len(s \o w) = Len(s) + Len(w)
         /\ Len(s) \in Nat /\ Len(w) \in Nat
         /\ \A i \in 1 .. Len(s) : (s \o w)[i] = s[i]
         /\ \A i \in 1 .. Len(w) : (s \o w)[Len(s) + i] = w[i]
         /\ \A i \in 1 .. Len(s \o w) :
              \/ i \in 1 .. Len(s)
              \/ i - Len(s) \in 1 .. Len(w) /\ (s \o w)[i] = w[i - Len(s)]
OBVIOUS

(* A message put after a sequence. *)
LEMMA Appended ==
  ASSUME NEW S, NEW s \in Seq(S), NEW m \in S
  PROVE  /\ Append(s, m) \in Seq(S) /\ Len(Append(s, m)) = Len(s) + 1 /\ Len(s) \in Nat
         /\ \A i \in 1 .. Len(s) : Append(s, m)[i] = s[i]
         /\ Append(s, m)[Len(s) + 1] = m
         /\ \A i \in 1 .. Len(Append(s, m)) : i \in 1 .. Len(s) \/ i = Len(s) + 1
         /\ Append(s, m) = s \o <<m>> /\ <<m>> \in Seq(S)
         /\ Len(<<m>>) = 1 /\ <<m>>[1] = m
<1>1. Append(s, m) = s \o <<m>> BY AppendIsConcat
<1>2. QED BY <1>1

(* What is left when the first is taken. *)
LEMMA Taken ==
  ASSUME NEW S, NEW s \in Seq(S), s # <<>>
  PROVE  /\ Tail(s) \in Seq(S) /\ Len(s) \in Nat \ {0} /\ Len(Tail(s)) = Len(s) - 1
         /\ Head(s) = s[1] /\ Head(s) \in S /\ 1 \in 1 .. Len(s)
         /\ \A i \in 1 .. Len(Tail(s)) : Tail(s)[i] = s[i + 1] /\ i + 1 \in 1 .. Len(s)
OBVIOUS

LEMMA NonEmpty == ASSUME NEW S, NEW s \in Seq(S) PROVE (s # <<>>) <=> (Len(s) # 0)
OBVIOUS

(* Entries after some, or one, has been written over them. *)
LEMMA OverIs ==
  \A f, g : /\ DOMAIN Over(f, g) = DOMAIN f \cup DOMAIN g
            /\ \A k \in DOMAIN g : Over(f, g)[k] = g[k]
            /\ \A k \in DOMAIN f \ DOMAIN g : Over(f, g)[k] = f[k]
BY DEF Over

LEMMA WithIs ==
  \A f, k, v : /\ DOMAIN With(f, k, v) = DOMAIN f \cup {k}
               /\ With(f, k, v)[k] = v
               /\ \A d \in DOMAIN f \ {k} : With(f, k, v)[d] = f[d]
BY DEF With, Over

(* A message of c is one with a field more. *)
LEMMA FromIs ==
  ASSUME NEW c
  PROVE  /\ \A ch : From(c, [kind |-> "OwnedCheatState", cheated |-> ch])
                      = [kind |-> "OwnedCheatState", from |-> c, cheated |-> ch]
         /\ \A ch : From(c, [kind |-> "OwnedCheatToggle", cheated |-> ch])
                      = [kind |-> "OwnedCheatToggle", from |-> c, cheated |-> ch]
         /\ \A m, s, t : From(c, [kind |-> "CurrentMap", map |-> m, sector |-> s, type |-> t])
                      = [kind |-> "CurrentMap", from |-> c, map |-> m, sector |-> s, type |-> t]
         /\ \A s : From(c, [kind |-> "CurrentSector", sector |-> s])
                      = [kind |-> "CurrentSector", from |-> c, sector |-> s]
         /\ \A d : From(c, [kind |-> "RestartRequest", about |-> d])
                      = [kind |-> "RestartRequest", from |-> c, about |-> d]
         /\ From(c, Said) = [kind |-> "Chat", from |-> c]
         /\ From(c, Important) = [kind |-> "ImportantNotification", from |-> c]
<1>1. ASSUME NEW m
      PROVE  From(c, m) = [k \in DOMAIN m \cup {"from"} |-> IF k \in {"from"} THEN c ELSE m[k]]
  BY DEF From, With, Over
<1>2. ASSUME NEW ch, NEW kd, NEW m, m = [kind |-> kd, cheated |-> ch]
      PROVE  From(c, m) = [kind |-> kd, from |-> c, cheated |-> ch]
  <2>1. DOMAIN m = {"kind", "cheated"} BY <1>2
  <2>2. PICK f : f = [k \in DOMAIN m \cup {"from"} |-> IF k \in {"from"} THEN c ELSE m[k]] OBVIOUS
  <2>3. DOMAIN f = {"kind", "cheated", "from"} BY <2>1, <2>2
  <2>4. f["kind"] = kd /\ f["from"] = c /\ f["cheated"] = ch BY <2>1, <2>2, <1>2
  <2>5. f = [k \in DOMAIN f |-> f[k]] BY <2>2
  <2>6. f = [kind |-> kd, from |-> c, cheated |-> ch] BY <2>3, <2>4, <2>5
  <2>7. QED BY <1>1, <2>2, <2>6
<1>3. ASSUME NEW x, NEW t, NEW u, NEW m, m = [kind |-> "CurrentMap", map |-> x, sector |-> t, type |-> u]
      PROVE  From(c, m) = [kind |-> "CurrentMap", from |-> c, map |-> x, sector |-> t, type |-> u]
  <2>1. DOMAIN m = {"kind", "map", "sector", "type"} BY <1>3
  <2>2. PICK f : f = [k \in DOMAIN m \cup {"from"} |-> IF k \in {"from"} THEN c ELSE m[k]] OBVIOUS
  <2>3. DOMAIN f = {"kind", "map", "sector", "type", "from"} BY <2>1, <2>2
  <2>4. f["kind"] = "CurrentMap" /\ f["from"] = c /\ f["map"] = x /\ f["sector"] = t /\ f["type"] = u
    BY <2>1, <2>2, <1>3
  <2>5. f = [k \in DOMAIN f |-> f[k]] BY <2>2
  <2>6. f = [kind |-> "CurrentMap", from |-> c, map |-> x, sector |-> t, type |-> u]
    BY <2>3, <2>4, <2>5
  <2>7. QED BY <1>1, <2>2, <2>6
<1>4. ASSUME NEW x, NEW m, m = [kind |-> "CurrentSector", sector |-> x]
      PROVE  From(c, m) = [kind |-> "CurrentSector", from |-> c, sector |-> x]
  <2>1. DOMAIN m = {"kind", "sector"} BY <1>4
  <2>2. PICK f : f = [k \in DOMAIN m \cup {"from"} |-> IF k \in {"from"} THEN c ELSE m[k]] OBVIOUS
  <2>3. DOMAIN f = {"kind", "sector", "from"} BY <2>1, <2>2
  <2>4. f["kind"] = "CurrentSector" /\ f["from"] = c /\ f["sector"] = x BY <2>1, <2>2, <1>4
  <2>5. f = [k \in DOMAIN f |-> f[k]] BY <2>2
  <2>6. f = [kind |-> "CurrentSector", from |-> c, sector |-> x] BY <2>3, <2>4, <2>5
  <2>7. QED BY <1>1, <2>2, <2>6
<1>5. ASSUME NEW d, NEW m, m = [kind |-> "RestartRequest", about |-> d]
      PROVE  From(c, m) = [kind |-> "RestartRequest", from |-> c, about |-> d]
  <2>1. DOMAIN m = {"kind", "about"} BY <1>5
  <2>2. PICK f : f = [k \in DOMAIN m \cup {"from"} |-> IF k \in {"from"} THEN c ELSE m[k]] OBVIOUS
  <2>3. DOMAIN f = {"kind", "about", "from"} BY <2>1, <2>2
  <2>4. f["kind"] = "RestartRequest" /\ f["from"] = c /\ f["about"] = d BY <2>1, <2>2, <1>5
  <2>5. f = [k \in DOMAIN f |-> f[k]] BY <2>2
  <2>6. f = [kind |-> "RestartRequest", from |-> c, about |-> d] BY <2>3, <2>4, <2>5
  <2>7. QED BY <1>1, <2>2, <2>6
<1>6. ASSUME NEW kd, NEW m, m = [kind |-> kd]
      PROVE  From(c, m) = [kind |-> kd, from |-> c]
  <2>1. DOMAIN m = {"kind"} BY <1>6
  <2>2. PICK f : f = [k \in DOMAIN m \cup {"from"} |-> IF k \in {"from"} THEN c ELSE m[k]] OBVIOUS
  <2>3. DOMAIN f = {"kind", "from"} BY <2>1, <2>2
  <2>4. f["kind"] = kd /\ f["from"] = c BY <2>1, <2>2, <1>6
  <2>5. f = [k \in DOMAIN f |-> f[k]] BY <2>2
  <2>6. f = [kind |-> kd, from |-> c] BY <2>3, <2>4, <2>5
  <2>7. QED BY <1>1, <2>2, <2>6
<1>7. QED BY <1>2, <1>3, <1>4, <1>5, <1>6 DEF Said, Important
-----------------------------------------------------------------------------
(* Messages.                                                               *)

(* What a message to the server carries. *)
LEMMA UpFacts ==
  ASSUME NEW m \in UpMsg
  PROVE  /\ m.kind \in {"LoginRequest", "CheatState", "CheatToggle"} => m.cheated \in BOOLEAN
         /\ m.kind = "MapNames" => m.maps \subseteq Map
         /\ m.kind = "CurrentMap" =>
              /\ m = [kind |-> "CurrentMap", map |-> m.map, sector |-> m.sector, type |-> m.type]
              /\ m.map \in Map \cup {NoMap} /\ m.sector \in Sector
              /\ m.type \in {"Announcement", "EnteringMap"}
         /\ m.kind = "CurrentSector" =>
              m = [kind |-> "CurrentSector", sector |-> m.sector] /\ m.sector \in Sector
         /\ m.kind = "PermanentNotification" => m.text \in Text
         /\ m.kind \in {"PrivateChat", "RestartRequest", "RestartRequestFailed"} =>
              m = [kind |-> m.kind, about |-> m.about] /\ m.about \in Conn
BY DEF UpMsg

(* What a message to a client carries. *)
LEMMA DownFacts ==
  ASSUME NEW m \in DownMsg
  PROVE  /\ m.kind = "LoginAccepted" => m.online \in Records
         /\ m.kind \in {"PlayerConnected", "OwnedCheatState"} =>
              m.from \in Conn /\ m.cheated \in BOOLEAN
         /\ m.kind \in {"CheatToggle", "OwnedCheatToggle"} => m.cheated \in BOOLEAN
         /\ m.kind = "PlayerDisconnected" =>
              m.from \in Conn /\ m = PlayerDisconnected(m.from)
         /\ m.kind = "MapNames" => m.maps \subseteq Map
         /\ m.kind = "CurrentMap" =>
              /\ m.from \in Conn
              /\ m.map \in Map \cup {NoMap} /\ m.sector \in Sector
              /\ m.type \in {"Announcement", "EnteringMap"}
         /\ m.kind = "CurrentSector" => m.from \in Conn /\ m.sector \in Sector
         /\ m.kind = "PermanentNotification" => m.text \in Text
         /\ m.kind = "RestartRequest" => m.from \in Conn /\ m.about \in Conn
BY DEF DownMsg, PlayerDisconnected

(* Whom it names. *)
LEMMA MentionedFacts ==
  ASSUME NEW m
  PROVE  /\ m = [kind |-> m.kind, from |-> m.from] => Mentioned(m) = {m.from}
         /\ m = [kind |-> m.kind, from |-> m.from, cheated |-> m.cheated] => Mentioned(m) = {m.from}
         /\ m = [kind |-> m.kind, from |-> m.from, sector |-> m.sector] => Mentioned(m) = {m.from}
         /\ m = [kind |-> m.kind, from |-> m.from, map |-> m.map, sector |-> m.sector,
                 type |-> m.type] => Mentioned(m) = {m.from}
         /\ m = [kind |-> m.kind, from |-> m.from, about |-> m.about] =>
              Mentioned(m) = {m.from, m.about}
         /\ m = [kind |-> m.kind, about |-> m.about] => Mentioned(m) = {m.about}
         /\ m = [kind |-> m.kind] => Mentioned(m) = {}
         /\ m = [kind |-> m.kind, maps |-> m.maps] => Mentioned(m) = {}
         /\ m = [kind |-> m.kind, text |-> m.text] => Mentioned(m) = {}
         /\ m = [kind |-> m.kind, cheated |-> m.cheated] => Mentioned(m) = {}
         /\ m = [kind |-> m.kind, online |-> m.online] => Mentioned(m) = {}
BY DEF Mentioned

LEMMA NamesOf ==
  ASSUME NEW m \in DownMsg
  PROVE  /\ m.kind \in {"PlayerConnected", "OwnedCheatState", "OwnedCheatToggle", "PlayerDisconnected",
                       "Chat", "ImportantNotification", "PrivateChat", "CurrentMap", "CurrentSector"} =>
              Mentioned(m) = {m.from} /\ m.from \in Conn
         /\ m.kind = "RestartRequest" => Mentioned(m) = {m.from, m.about}
         /\ m.kind = "RestartRequestFailed" => Mentioned(m) = {m.about}
         /\ m.kind \in {"LoginAccepted", "CheatToggle", "MapNames", "PermanentNotification",
                       "ActionDenied", "ScoreList", "PublicNotification"} => Mentioned(m) = {}
BY MentionedFacts DEF DownMsg

(* What clients send. *)
LEMMA Sendable ==
  /\ \A ch \in BOOLEAN : /\ LoginRequest(ch) \in UpMsg /\ CheatState(ch) \in UpMsg
                         /\ CheatToggle(ch) \in UpMsg
  /\ \A M \in SUBSET Map : MapNames(M) \in UpMsg
  /\ \A p \in Where, t \in {"Announcement", "EnteringMap"} : CurrentMap(p, t) \in UpMsg
  /\ \A s \in Sector : CurrentSector(s) \in UpMsg
  /\ \A t \in Text : Bulletin(t) \in UpMsg
  /\ \A d \in Conn : /\ Whispered(d) \in UpMsg /\ RestartRequest(d) \in UpMsg
                     /\ RestartFailed(d) \in UpMsg
  /\ Said \in UpMsg /\ ScoreList \in UpMsg /\ Important \in UpMsg /\ HashData \in UpMsg
BY DEF UpMsg, Where, LoginRequest, CheatState, CheatToggle, MapNames, CurrentMap, CurrentSector,
       Bulletin, Whispered, RestartRequest, RestartFailed, Said, ScoreList, Important, HashData

(* What the server sends. *)
LEMMA Tellable ==
  /\ \A r \in Records : LoginAccepted(r) \in DownMsg
  /\ \A c \in Conn : PlayerDisconnected(c) \in DownMsg
  /\ \A c \in Conn, ch \in BOOLEAN : PlayerConnected(c, ch) \in DownMsg
  /\ \A ch \in BOOLEAN : CheatToggle(ch) \in DownMsg
  /\ \A M \in SUBSET Map : MapNames(M) \in DownMsg
  /\ \A t \in Text : Bulletin(t) \in DownMsg
  /\ ActionDenied \in DownMsg /\ ScoreList \in DownMsg /\ Warning \in DownMsg
BY DEF DownMsg, LoginAccepted, PlayerDisconnected, PlayerConnected, CheatToggle, MapNames, Bulletin,
       ActionDenied, ScoreList, Warning

(* What it relays. *)
LEMMA Relayed ==
  ASSUME NEW c \in Conn, NEW m \in UpMsg
  PROVE  /\ \A ch \in BOOLEAN :
              /\ From(c, [kind |-> "OwnedCheatState", cheated |-> ch])
                   = [kind |-> "OwnedCheatState", from |-> c, cheated |-> ch]
              /\ From(c, [kind |-> "OwnedCheatState", cheated |-> ch]) \in DownMsg
              /\ From(c, [kind |-> "OwnedCheatToggle", cheated |-> ch])
                   = [kind |-> "OwnedCheatToggle", from |-> c, cheated |-> ch]
              /\ From(c, [kind |-> "OwnedCheatToggle", cheated |-> ch]) \in DownMsg
         /\ m.kind = "CurrentMap" =>
              /\ From(c, m) \in DownMsg
              /\ From(c, m) = [kind |-> "CurrentMap", from |-> c, map |-> m.map, sector |-> m.sector,
                               type |-> m.type]
         /\ m.kind = "CurrentSector" =>
              /\ From(c, m) \in DownMsg
              /\ From(c, m) = [kind |-> "CurrentSector", from |-> c, sector |-> m.sector]
         /\ m.kind = "RestartRequest" =>
              /\ From(c, m) \in DownMsg
              /\ From(c, m) = [kind |-> "RestartRequest", from |-> c, about |-> m.about]
         /\ From(c, Said) \in DownMsg /\ From(c, Said) = [kind |-> "Chat", from |-> c]
         /\ From(c, Important) \in DownMsg
         /\ From(c, Important) = [kind |-> "ImportantNotification", from |-> c]
         /\ [kind |-> "PrivateChat", from |-> c] \in DownMsg
         /\ m.kind \in {"MapNames", "PermanentNotification", "RestartRequestFailed"} => m \in DownMsg
<1>1. \A ch \in BOOLEAN :
        /\ [kind |-> "OwnedCheatState", from |-> c, cheated |-> ch] \in DownMsg
        /\ [kind |-> "OwnedCheatToggle", from |-> c, cheated |-> ch] \in DownMsg
  BY DEF DownMsg
<1>2. \A x \in Map \cup {NoMap}, s \in Sector, t \in {"Announcement", "EnteringMap"} :
        [kind |-> "CurrentMap", from |-> c, map |-> x, sector |-> s, type |-> t] \in DownMsg
  BY DEF DownMsg
<1>3. /\ \A s \in Sector : [kind |-> "CurrentSector", from |-> c, sector |-> s] \in DownMsg
      /\ \A d \in Conn : [kind |-> "RestartRequest", from |-> c, about |-> d] \in DownMsg
      /\ \A k \in {"Chat", "ImportantNotification", "PrivateChat"} :
           [kind |-> k, from |-> c] \in DownMsg
  BY DEF DownMsg
<1>4. m.kind \in {"MapNames", "PermanentNotification", "RestartRequestFailed"} => m \in DownMsg
  BY DEF UpMsg, DownMsg
<1>5. ASSUME m.kind = "CurrentMap"
      PROVE  From(c, m) = [kind |-> "CurrentMap", from |-> c, map |-> m.map, sector |-> m.sector, type |-> m.type] /\ From(c, m) \in DownMsg
  <2>1. m = [kind |-> "CurrentMap", map |-> m.map, sector |-> m.sector, type |-> m.type] /\ m.map \in Map \cup {NoMap} /\ m.sector \in Sector /\ m.type \in {"Announcement", "EnteringMap"}
    BY UpFacts, <1>5
  <2>2. From(c, [kind |-> "CurrentMap", map |-> m.map, sector |-> m.sector, type |-> m.type]) = [kind |-> "CurrentMap", from |-> c, map |-> m.map, sector |-> m.sector, type |-> m.type]
    BY FromIs
  <2>3. [kind |-> "CurrentMap", from |-> c, map |-> m.map, sector |-> m.sector, type |-> m.type] \in DownMsg
    BY <2>1, <1>2
  <2>4. QED BY <2>1, <2>2, <2>3, Zenon
<1>6. ASSUME m.kind = "CurrentSector"
      PROVE  From(c, m) = [kind |-> "CurrentSector", from |-> c, sector |-> m.sector] /\ From(c, m) \in DownMsg
  <2>1. m = [kind |-> "CurrentSector", sector |-> m.sector] /\ m.sector \in Sector BY UpFacts, <1>6
  <2>2. From(c, [kind |-> "CurrentSector", sector |-> m.sector]) = [kind |-> "CurrentSector", from |-> c, sector |-> m.sector]
    BY FromIs
  <2>3. [kind |-> "CurrentSector", from |-> c, sector |-> m.sector] \in DownMsg BY <2>1, <1>3
  <2>4. QED BY <2>1, <2>2, <2>3, Zenon
<1>7. ASSUME m.kind = "RestartRequest"
      PROVE  From(c, m) = [kind |-> "RestartRequest", from |-> c, about |-> m.about] /\ From(c, m) \in DownMsg
  <2>1. m = [kind |-> "RestartRequest", about |-> m.about] /\ m.about \in Conn BY UpFacts, <1>7
  <2>2. From(c, [kind |-> "RestartRequest", about |-> m.about]) = [kind |-> "RestartRequest", from |-> c, about |-> m.about]
    BY FromIs
  <2>3. [kind |-> "RestartRequest", from |-> c, about |-> m.about] \in DownMsg BY <2>1, <1>3
  <2>4. QED BY <2>1, <2>2, <2>3, Zenon
<1>8. QED BY <1>1, <1>3, <1>4, <1>5, <1>6, <1>7, FromIs

LEMMA RelayedIs ==
  ASSUME NEW c \in Conn, NEW h \in UpMsg, NEW m
  PROVE  /\ \A ch \in BOOLEAN : m = From(c, [kind |-> "OwnedCheatState", cheated |-> ch]) =>
              m \in DownMsg /\ m.kind = "OwnedCheatState" /\ m.from = c /\ m.cheated = ch
         /\ \A ch \in BOOLEAN : m = From(c, [kind |-> "OwnedCheatToggle", cheated |-> ch]) =>
              m \in DownMsg /\ m.kind = "OwnedCheatToggle" /\ m.from = c /\ m.cheated = ch
         /\ m = From(c, h) /\ h.kind = "CurrentMap" =>
              /\ m \in DownMsg /\ m.kind = "CurrentMap" /\ m.from = c
              /\ m.map = h.map /\ m.sector = h.sector /\ m.type = h.type
         /\ m = From(c, h) /\ h.kind = "CurrentSector" =>
              m \in DownMsg /\ m.kind = "CurrentSector" /\ m.from = c /\ m.sector = h.sector
         /\ m = From(c, h) /\ h.kind = "RestartRequest" =>
              m \in DownMsg /\ m.kind = "RestartRequest" /\ m.from = c /\ m.about = h.about
         /\ m = From(c, Said) => m \in DownMsg /\ m.kind = "Chat" /\ m.from = c
         /\ m = From(c, Important) =>
              m \in DownMsg /\ m.kind = "ImportantNotification" /\ m.from = c
         /\ m = [kind |-> "PrivateChat", from |-> c] =>
              m \in DownMsg /\ m.kind = "PrivateChat" /\ m.from = c
<1>1. ASSUME NEW ch \in BOOLEAN, m = From(c, [kind |-> "OwnedCheatState", cheated |-> ch])
      PROVE  m \in DownMsg /\ m.kind = "OwnedCheatState" /\ m.from = c /\ m.cheated = ch
  <2>1. From(c, [kind |-> "OwnedCheatState", cheated |-> ch]) = [kind |-> "OwnedCheatState", from |-> c, cheated |-> ch] /\ From(c, [kind |-> "OwnedCheatState", cheated |-> ch]) \in DownMsg
    BY <1>1, Relayed
  <2>2. m = [kind |-> "OwnedCheatState", from |-> c, cheated |-> ch] BY <2>1, <1>1, Zenon
  <2>3. m \in DownMsg BY <2>1, <1>1, Zenon
  <2>4. QED BY <2>2, <2>3
<1>2. ASSUME NEW ch \in BOOLEAN, m = From(c, [kind |-> "OwnedCheatToggle", cheated |-> ch])
      PROVE  m \in DownMsg /\ m.kind = "OwnedCheatToggle" /\ m.from = c /\ m.cheated = ch
  <2>1. From(c, [kind |-> "OwnedCheatToggle", cheated |-> ch]) = [kind |-> "OwnedCheatToggle", from |-> c, cheated |-> ch] /\ From(c, [kind |-> "OwnedCheatToggle", cheated |-> ch]) \in DownMsg
    BY <1>2, Relayed
  <2>2. m = [kind |-> "OwnedCheatToggle", from |-> c, cheated |-> ch] BY <2>1, <1>2, Zenon
  <2>3. m \in DownMsg BY <2>1, <1>2, Zenon
  <2>4. QED BY <2>2, <2>3
<1>3. ASSUME m = From(c, h), h.kind = "CurrentMap"
      PROVE  m \in DownMsg /\ m.kind = "CurrentMap" /\ m.from = c /\ m.map = h.map /\ m.sector = h.sector /\ m.type = h.type
  <2>1. From(c, h) = [kind |-> "CurrentMap", from |-> c, map |-> h.map, sector |-> h.sector, type |-> h.type] /\ From(c, h) \in DownMsg
    BY <1>3, Relayed
  <2>2. m = [kind |-> "CurrentMap", from |-> c, map |-> h.map, sector |-> h.sector, type |-> h.type]
    BY <2>1, <1>3, Zenon
  <2>3. m \in DownMsg BY <2>1, <1>3, Zenon
  <2>4. QED BY <2>2, <2>3
<1>4. ASSUME m = From(c, h), h.kind = "CurrentSector"
      PROVE  m \in DownMsg /\ m.kind = "CurrentSector" /\ m.from = c /\ m.sector = h.sector
  <2>1. From(c, h) = [kind |-> "CurrentSector", from |-> c, sector |-> h.sector] /\ From(c, h) \in DownMsg
    BY <1>4, Relayed
  <2>2. m = [kind |-> "CurrentSector", from |-> c, sector |-> h.sector] BY <2>1, <1>4, Zenon
  <2>3. m \in DownMsg BY <2>1, <1>4, Zenon
  <2>4. QED BY <2>2, <2>3
<1>5. ASSUME m = From(c, h), h.kind = "RestartRequest"
      PROVE  m \in DownMsg /\ m.kind = "RestartRequest" /\ m.from = c /\ m.about = h.about
  <2>1. From(c, h) = [kind |-> "RestartRequest", from |-> c, about |-> h.about] /\ From(c, h) \in DownMsg
    BY <1>5, Relayed
  <2>2. m = [kind |-> "RestartRequest", from |-> c, about |-> h.about] BY <2>1, <1>5, Zenon
  <2>3. m \in DownMsg BY <2>1, <1>5, Zenon
  <2>4. QED BY <2>2, <2>3
<1>6. ASSUME m = From(c, Said)
      PROVE  m \in DownMsg /\ m.kind = "Chat" /\ m.from = c
  <2>1. From(c, Said) = [kind |-> "Chat", from |-> c] /\ From(c, Said) \in DownMsg BY <1>6, Relayed
  <2>2. m = [kind |-> "Chat", from |-> c] BY <2>1, <1>6, Zenon
  <2>3. m \in DownMsg BY <2>1, <1>6, Zenon
  <2>4. QED BY <2>2, <2>3
<1>7. ASSUME m = From(c, Important)
      PROVE  m \in DownMsg /\ m.kind = "ImportantNotification" /\ m.from = c
  <2>1. From(c, Important) = [kind |-> "ImportantNotification", from |-> c] /\ From(c, Important) \in DownMsg
    BY <1>7, Relayed
  <2>2. m = [kind |-> "ImportantNotification", from |-> c] BY <2>1, <1>7, Zenon
  <2>3. m \in DownMsg BY <2>1, <1>7, Zenon
  <2>4. QED BY <2>2, <2>3
<1>8. m = [kind |-> "PrivateChat", from |-> c] => m \in DownMsg /\ m.kind = "PrivateChat" /\ m.from = c
  BY DEF DownMsg
<1>9. QED BY <1>1, <1>2, <1>3, <1>4, <1>5, <1>6, <1>7, <1>8
-----------------------------------------------------------------------------
(* Entries.                                                                *)

LEMMA EntriesAre ==
  /\ \A f \in Entries : DOMAIN f \subseteq Conn /\ \A d \in DOMAIN f : f[d] \in Entry
  /\ \A f, S : S \subseteq Conn /\ f = [d \in S |-> f[d]] /\ (\A d \in S : f[d] \in Entry) => f \in Entries
  /\ \A f \in Records : f \in Entries
BY DEF Entries, Records

LEMMA Entered ==
  ASSUME NEW f \in Entries, NEW k \in Conn, NEW v \in Entry
  PROVE  With(f, k, v) \in Entries
<1>1. With(f, k, v) = [d \in DOMAIN f \cup {k} |-> IF d \in {k} THEN v ELSE f[d]] BY DEF With, Over
<1>2. PICK g : g = With(f, k, v) OBVIOUS
<1>3. DOMAIN g = DOMAIN f \cup {k} /\ g = [d \in DOMAIN g |-> g[d]] BY <1>1, <1>2
<1>4. \A d \in DOMAIN g : g[d] \in Entry BY <1>1, <1>2, <1>3, EntriesAre
<1>5. QED BY <1>2, <1>3, <1>4, EntriesAre

LEMMA Removed ==
  ASSUME NEW f \in Entries, NEW k
  PROVE  /\ Without(f, k) \in Entries /\ DOMAIN Without(f, k) = DOMAIN f \ {k}
         /\ \A d \in DOMAIN f \ {k} : Without(f, k)[d] = f[d]
<1>1. PICK g : g = Without(f, k) OBVIOUS
<1>2. DOMAIN g = DOMAIN f \ {k} /\ g = [d \in DOMAIN g |-> g[d]] /\ \A d \in DOMAIN g : g[d] = f[d]
  BY <1>1 DEF Without
<1>3. QED BY <1>1, <1>2, EntriesAre

LEMMA Nobody == <<>> \in Entries /\ <<>> \in Records /\ DOMAIN <<>> = {}
<1>1. \A f : f = <<>> => DOMAIN f = {} /\ f = [d \in {} |-> f[d]] OBVIOUS
<1>2. <<>> \in Entries /\ DOMAIN <<>> = {} BY <1>1, EntriesAre
<1>3. QED BY <1>2 DEF Records

LEMMA Joins ==
  ASSUME NEW ch \in BOOLEAN
  PROVE  /\ Player(ch, Nowhere) \in Entry /\ Unnamed \in Entry /\ Nowhere \in Where
         /\ Player(ch, Nowhere).named /\ ~ Unnamed.named
         /\ Player(ch, Nowhere).map = NoMap /\ Unnamed.map = NoMap
         /\ Player(ch, Nowhere).cheated = ch
BY AnnouncementsAssumption DEF Player, Nowhere, Unnamed, Entry, Where

(* What a message changes of an entry. *)
Change(g) ==
  /\ DOMAIN g \subseteq {"cheated", "map", "sector"}
  /\ "cheated" \in DOMAIN g => g["cheated"] \in BOOLEAN
  /\ "map" \in DOMAIN g => g["map"] \in Map \cup {NoMap}
  /\ "sector" \in DOMAIN g => g["sector"] \in Sector

LEMMA ChangeKeeps ==
  ASSUME NEW e \in Entry, NEW g, Change(g)
  PROVE  /\ Over(e, g) \in Entry /\ Over(e, g).named = e.named
         /\ Over(e, g).cheated = IF "cheated" \in DOMAIN g THEN g["cheated"] ELSE e.cheated
         /\ Over(e, g).map = IF "map" \in DOMAIN g THEN g["map"] ELSE e.map
         /\ Over(e, g).sector = IF "sector" \in DOMAIN g THEN g["sector"] ELSE e.sector
<1>1. PICK f : f = Over(e, g) OBVIOUS
<1>2. DOMAIN e = {"named", "cheated", "map", "sector"} BY DEF Entry
<1>3. DOMAIN f = {"named", "cheated", "map", "sector"} /\ f = [k \in DOMAIN f |-> f[k]]
  BY <1>1, <1>2 DEF Over, Change
<1>4. /\ f["named"] = e["named"]
      /\ f["cheated"] = IF "cheated" \in DOMAIN g THEN g["cheated"] ELSE e["cheated"]
      /\ f["map"] = IF "map" \in DOMAIN g THEN g["map"] ELSE e["map"]
      /\ f["sector"] = IF "sector" \in DOMAIN g THEN g["sector"] ELSE e["sector"]
  BY <1>1, <1>2 DEF Over, Change
<1>5. e["named"] \in BOOLEAN /\ e["cheated"] \in BOOLEAN /\ e["map"] \in Map \cup {NoMap}
        /\ e["sector"] \in Sector
  BY DEF Entry
<1>6. f = [named |-> f["named"], cheated |-> f["cheated"], map |-> f["map"], sector |-> f["sector"]]
  BY <1>3
<1>7. f["named"] \in BOOLEAN /\ f["cheated"] \in BOOLEAN /\ f["map"] \in Map \cup {NoMap}
        /\ f["sector"] \in Sector
  BY <1>4, <1>5 DEF Change
<1>8. f \in Entry BY <1>6, <1>7 DEF Entry
<1>9. QED BY <1>1, <1>4, <1>8

LEMMA Changes ==
  /\ Change(<<>>)
  /\ \A ch \in BOOLEAN : Change([cheated |-> ch])
  /\ \A x \in Map \cup {NoMap}, s \in Sector : Change([map |-> x, sector |-> s])
  /\ \A x \in Map \cup {NoMap} : Change([map |-> x])
  /\ \A s \in Sector : Change([sector |-> s])
<1>1. Change(<<>>) BY Nobody DEF Change
<1>2. QED BY <1>1 DEF Change

LEMMA ChangedIs ==
  ASSUME CopyTypeOK, NEW c \in Conn, NEW id \in Conn, NEW g, Change(g)
  PROVE  /\ Changed(c, id, g) \in [Conn -> Entries]
         /\ \A d \in Conn \ {c} : Changed(c, id, g)[d] = mirror[d]
         /\ \A k \in DOMAIN mirror[c] \ {id} :
              k \in DOMAIN Changed(c, id, g)[c] /\ Changed(c, id, g)[c][k] = mirror[c][k]
         /\ id \in DOMAIN mirror[c] =>
              /\ DOMAIN Changed(c, id, g)[c] = DOMAIN mirror[c]
              /\ Changed(c, id, g)[c][id] = Over(mirror[c][id], g)
         /\ id \notin DOMAIN mirror[c] /\ c \in Mod => Changed(c, id, g) = mirror
         /\ id \notin DOMAIN mirror[c] /\ c \notin Mod =>
              /\ DOMAIN Changed(c, id, g)[c] = DOMAIN mirror[c] \cup {id}
              /\ Changed(c, id, g)[c][id] = Over(Unnamed, g)
<1> DEFINE old == IF id \in DOMAIN mirror[c] THEN mirror[c][id] ELSE Unnamed
           new == With(mirror[c], id, Over(old, g))
<1>1. mirror \in [Conn -> Entries] /\ mirror[c] \in Entries BY DEF CopyTypeOK
<1>2. old \in Entry BY <1>1, EntriesAre, Joins
<1>3. Over(old, g) \in Entry BY <1>2, ChangeKeeps
<1>4. new \in Entries BY <1>1, <1>3, Entered
<1>5. /\ DOMAIN new = DOMAIN mirror[c] \cup {id} /\ new[id] = Over(old, g)
      /\ \A d \in DOMAIN mirror[c] \ {id} : new[d] = mirror[c][d]
  <2>1. PICK e : e = Over(old, g) OBVIOUS
  <2>2. PICK f : f = mirror[c] OBVIOUS
  <2>3. new = With(f, id, e) BY <2>1, <2>2
  <2> HIDE DEF old, new
  <2>4. DOMAIN With(f, id, e) = DOMAIN f \cup {id} BY WithIs
  <2>5. With(f, id, e)[id] = e BY WithIs
  <2>6. \A d \in DOMAIN f \ {id} : With(f, id, e)[d] = f[d] BY WithIs
  <2>7. QED BY <2>1, <2>2, <2>3, <2>4, <2>5, <2>6
<1>6. Changed(c, id, g) = IF c \in Mod /\ id \notin DOMAIN mirror[c] THEN mirror
                          ELSE [mirror EXCEPT ![c] = new]
  BY DEF Changed
<1>7. id \in DOMAIN mirror[c] => old = mirror[c][id] OBVIOUS
<1>8. id \notin DOMAIN mirror[c] => old = Unnamed OBVIOUS
<1> HIDE DEF old, new
<1>9. QED BY <1>1, <1>4, <1>5, <1>6, <1>7, <1>8
-----------------------------------------------------------------------------
(* Every reachable state is well typed.                                    *)

LEMMA StreamsTyped ==
  ASSUME StreamTypeOK, NEW c \in Conn
  PROVE  /\ \A m \in UpMsg : [up EXCEPT ![c] = Append(@, m)] \in [Conn -> Seq(UpMsg)]
         /\ \A m \in DownMsg : \A S : Told(down, S, m) \in [Conn -> Seq(DownMsg)]
         /\ up[c] # <<>> => /\ [up EXCEPT ![c] = Tail(@)] \in [Conn -> Seq(UpMsg)]
                            /\ Head(up[c]) \in UpMsg
         /\ down[c] # <<>> => /\ [down EXCEPT ![c] = Tail(@)] \in [Conn -> Seq(DownMsg)]
                              /\ Head(down[c]) \in DownMsg
BY DEF StreamTypeOK, Told

LEMMA ActTyped ==
  ASSUME ActsTypeOK, NEW k \in ActKind, Act(k)
  PROVE  acts' \in [ActKind -> Nat]
BY DEF ActsTypeOK, Act

LEMMA InitTyped == Init => TypeOK
<1> SUFFICES ASSUME Init PROVE TypeOK OBVIOUS
<1>0. \A S : <<>> \in Seq(S) OBVIOUS
<1> USE AnnouncementsAssumption, Nobody DEF Init
<1>1. ServerTypeOK BY DEF ServerTypeOK
<1>3. StreamTypeOK BY <1>0 DEF StreamTypeOK
<1>4. Nowhere \in Where BY Joins
<1>5. PlayerTypeOK BY <1>4 DEF PlayerTypeOK
<1>6. CopyTypeOK
  <2>1. \A c \in Conn : shown[c] = [text |-> "", calls |-> <<>>] OBVIOUS
  <2>2. [text |-> "", calls |-> <<>>] \in Display BY <1>0 DEF Display
  <2>3. QED BY <2>1, <2>2 DEF CopyTypeOK
<1>7. ThreadTypeOK BY <1>4 DEF ThreadTypeOK
<1>8. ActsTypeOK BY DEF ActsTypeOK
<1>9. QED BY <1>1, <1>3, <1>5, <1>6, <1>7, <1>8 DEF TypeOK

(* What players and the game thread of the mod do. *)
LEMMA ActsTyped ==
  ASSUME TypeOK, NEW c \in Conn, Acts(c)
  PROVE  TypeOK'
<1> USE DEF ActKind, serverVars, streamVars, playerVars, copyVars, threadVars, history
<1>0. /\ ServerTypeOK /\ StreamTypeOK /\ PlayerTypeOK /\ CopyTypeOK /\ ThreadTypeOK /\ ActsTypeOK
      /\ up \in [Conn -> Seq(UpMsg)] /\ down \in [Conn -> Seq(DownMsg)]
      /\ met \in [Conn -> SUBSET Conn]
  BY DEF TypeOK, StreamTypeOK
<1>1. \A m \in UpMsg : [up EXCEPT ![c] = Append(@, m)] \in [Conn -> Seq(UpMsg)]
  BY <1>0, StreamsTyped
<1>2. \A g : Change(g) => OwnChanged(c, g) \in [Conn -> Entries]
  BY <1>0, ChangedIs DEF CopyTypeOK, OwnChanged
<1>3. UNCHANGED serverVars => ServerTypeOK' BY <1>0 DEF ServerTypeOK
<1>4. UNCHANGED <<down, met>> /\ up' \in [Conn -> Seq(UpMsg)] => StreamTypeOK'
  BY <1>0 DEF StreamTypeOK
<1>5. UNCHANGED playerVars => PlayerTypeOK' BY <1>0 DEF PlayerTypeOK
<1>6. UNCHANGED copyVars => CopyTypeOK' BY <1>0 DEF CopyTypeOK
<1>7. UNCHANGED <<place, threadVars>> => ThreadTypeOK' BY <1>0 DEF ThreadTypeOK
<1>8. UNCHANGED <<acts, history>> => ActsTypeOK' BY <1>0 DEF ActsTypeOK
<1>9. (\E k \in ActKind : Act(k)) =>
        acts' \in [ActKind -> Nat]
  BY <1>0, ActTyped
<1>10. acts' \in [ActKind -> Nat]
         /\ UNCHANGED history => ActsTypeOK'
  BY <1>0 DEF ActsTypeOK
<1>11. CASE Connect(c)
  <2>1. PICK b \in BOOLEAN : b = (c \in Mod \ Spectator /\ cheat[c]) OBVIOUS
  <2>2. up' \in [Conn -> Seq(UpMsg)] BY <1>1, <1>11, <2>1, Sendable DEF Connect, Sends
  <2>3. acts' \in [ActKind -> Nat] BY <1>9, <1>11 DEF Connect, ActKind
  <2>4. ActsTypeOK' BY <1>0, <1>11, <2>3 DEF Connect, ActsTypeOK
  <2>5. PlayerTypeOK' BY <1>0, <1>11 DEF Connect, PlayerTypeOK
  <2>6. ServerTypeOK' /\ StreamTypeOK' /\ CopyTypeOK' /\ ThreadTypeOK'
    BY <1>3, <1>4, <1>6, <1>7, <1>11, <2>2 DEF Connect
  <2>7. QED BY <2>4, <2>5, <2>6 DEF TypeOK
<1>12. CASE ToggleOwnCheat(c)
  BY <1>0, <1>1, <1>12, Sendable, <1>9, <1>3, <1>4, <1>6, <1>7 DEF ToggleOwnCheat, PlayerTypeOK,
     ActsTypeOK, TypeOK
<1>13. CASE \/ ToggleCheats(c) \/ SetBulletin(c) \/ Say(c) \/ Notify(c) \/ QueryScores(c) \/ Address(c)
  <2>1. up' \in [Conn -> Seq(UpMsg)]
    <3>1. \A d \in DOMAIN mirror[c] : d \in Conn BY <1>0, EntriesAre DEF CopyTypeOK
    <3>2. \E m \in UpMsg : Sends(c, m)
      BY <1>13, <3>1, Sendable
         DEF ToggleCheats, SetBulletin, Say, Notify, QueryScores, Address
    <3>3. QED BY <1>1, <3>2 DEF Sends
  <2>2. UNCHANGED <<serverVars, down, met, playerVars, copyVars, threadVars, history>>
    BY <1>13 DEF ToggleCheats, SetBulletin, Say, Notify, QueryScores, Address
  <2>3. acts' \in [ActKind -> Nat]
    BY <1>9, <1>13 DEF ToggleCheats, SetBulletin, Say, Notify, QueryScores, Address
  <2>4. QED BY <1>3, <1>4, <1>5, <1>6, <1>7, <1>10, <2>1, <2>2, <2>3 DEF TypeOK
<1>14. CASE AnnounceMap(c)
  <2>1. up' \in [Conn -> Seq(UpMsg)]
    <3>1. place[c] \in Where BY <1>0 DEF PlayerTypeOK
    <3>2. QED BY <1>1, <1>14, <3>1, Sendable DEF AnnounceMap, Sends
  <2>2. ActsTypeOK' BY <1>9, <1>14, <1>0 DEF AnnounceMap, ActsTypeOK
  <2>3. ServerTypeOK' /\ StreamTypeOK' /\ PlayerTypeOK' /\ CopyTypeOK' /\ ThreadTypeOK'
    BY <1>3, <1>4, <1>5, <1>6, <1>7, <1>14, <2>1 DEF AnnounceMap
  <2>4. QED BY <2>2, <2>3 DEF TypeOK
<1>15. CASE ChangeSector(c)
  <2>1. PICK s \in Sector : /\ place' = [place EXCEPT ![c].sector = s]
                            /\ mirror' = OwnChanged(c, [sector |-> s])
                            /\ IF status[c] = "in" THEN Sends(c, CurrentSector(s)) ELSE UNCHANGED up
    BY <1>15 DEF ChangeSector
  <2>2. up' \in [Conn -> Seq(UpMsg)] BY <1>0, <1>1, <2>1, Sendable DEF Sends
  <2>3. PlayerTypeOK' /\ \A d \in Conn : place'[d].map = place[d].map
    BY <1>0, <1>15, <2>1 DEF ChangeSector, PlayerTypeOK, Where
  <2>4. CopyTypeOK' BY <1>0, <1>2, <1>15, <2>1, Changes DEF ChangeSector, CopyTypeOK
  <2>5. ThreadTypeOK' BY <1>0, <1>15, <2>3 DEF ChangeSector, ThreadTypeOK
  <2>6. ActsTypeOK' BY <1>9, <1>15, <1>0 DEF ChangeSector, ActsTypeOK
  <2>7. ServerTypeOK' /\ StreamTypeOK' BY <1>3, <1>4, <1>15, <2>2 DEF ChangeSector
  <2>8. QED BY <2>3, <2>4, <2>5, <2>6, <2>7 DEF TypeOK
<1>16. CASE SetMap(c)
  <2>1. PICK m \in Map, withName \in BOOLEAN :
          /\ place' = [place EXCEPT ![c] = [map |-> m, sector |-> 0]]
          /\ mirror' = OwnChanged(c, [map |-> m])
          /\ up' = [up EXCEPT ![c] = (IF withName THEN Append(@, MapNames({m})) ELSE @)
                                     \o <<CurrentMap([map |-> m, sector |-> 0], "EnteringMap")>>]
          /\ known' = IF withName THEN [known EXCEPT ![c] = @ \cup {m}] ELSE known
          /\ nameless' = IF withName THEN nameless ELSE nameless \cup {c}
    BY <1>16 DEF SetMap
  <2>2. [map |-> m, sector |-> 0] \in Where BY AnnouncementsAssumption DEF Where
  <2>3. up' \in [Conn -> Seq(UpMsg)]
    <3>1. PICK s : s = IF withName THEN Append(up[c], MapNames({m})) ELSE up[c] OBVIOUS
    <3>2. PICK e : e = CurrentMap([map |-> m, sector |-> 0], "EnteringMap") OBVIOUS
    <3>3. s \in Seq(UpMsg) /\ e \in UpMsg BY <1>0, <2>2, <3>1, <3>2, Sendable
    <3>4. s \o <<e>> \in Seq(UpMsg) BY <3>3
    <3>5. up' = [up EXCEPT ![c] = s \o <<e>>] BY <2>1, <3>1, <3>2
    <3>6. QED BY <1>0, <3>4, <3>5
  <2>4. PlayerTypeOK' BY <1>0, <1>16, <2>1, <2>2 DEF SetMap, PlayerTypeOK
  <2>5. CopyTypeOK' BY <1>0, <1>2, <1>16, <2>1, Changes DEF SetMap, CopyTypeOK
  <2>6. ThreadTypeOK' BY <1>0, <1>16, <2>1 DEF SetMap, ThreadTypeOK, PlayerTypeOK
  <2>7. ActsTypeOK' BY <1>9, <1>16, <1>0, <2>1 DEF SetMap, ActsTypeOK
  <2>8. ServerTypeOK' /\ StreamTypeOK' BY <1>3, <1>4, <1>16, <2>3 DEF SetMap
  <2>9. QED BY <2>4, <2>5, <2>6, <2>7, <2>8 DEF TypeOK
<1>17. CASE LoadLevel(c)
  <2>1. PICK m \in Map : place' = [place EXCEPT ![c].map = m] BY <1>17 DEF LoadLevel
  <2>2. PlayerTypeOK' BY <1>0, <1>17, <2>1, ZenonT(60) DEF LoadLevel, PlayerTypeOK, Where
  <2>3. ThreadTypeOK'
    <3>1. \A d \in Conn : place'[d].map = IF d = c THEN m ELSE place[d].map
      BY <1>0, <2>1 DEF PlayerTypeOK, Where
    <3>2. QED BY <1>0, <1>17, <3>1 DEF LoadLevel, ThreadTypeOK
  <2>4. ActsTypeOK' BY <1>9, <1>17, <1>0 DEF LoadLevel, ActsTypeOK
  <2>5. UNCHANGED <<serverVars, down, met, up, copyVars>> BY <1>17 DEF LoadLevel
  <2>6. ServerTypeOK' /\ StreamTypeOK' /\ CopyTypeOK' BY <1>0, <1>3, <1>4, <1>6, <2>5
  <2>7. QED BY <2>2, <2>3, <2>4, <2>6 DEF TypeOK
<1>18. CASE GoesOffline(c) /\ acts' \in [ActKind -> Nat]
  <2>1. PlayerTypeOK' BY <1>0, <1>18 DEF GoesOffline, PlayerTypeOK
  <2>2. CopyTypeOK'
    <3>1. PICK e : e = <<>> OBVIOUS
    <3>2. e \in Entries /\ "" \in Text BY <3>1, Nobody, AnnouncementsAssumption
    <3>3. \/ UNCHANGED copyVars
          \/ /\ mirror' = [mirror EXCEPT ![c] = e] /\ known' = [known EXCEPT ![c] = {}]
             /\ shown' = [shown EXCEPT ![c].text = ""]
      BY <1>18, <3>1 DEF GoesOffline
    <3>4. /\ known \in [Conn -> SUBSET Map] /\ shown \in [Conn -> Display] /\ mirror \in [Conn -> Entries]
          /\ \A d \in Conn \ Mod : shown[d].calls = <<>>
      BY <1>0 DEF CopyTypeOK
    <3>5. CASE /\ mirror' = [mirror EXCEPT ![c] = e] /\ known' = [known EXCEPT ![c] = {}]
               /\ shown' = [shown EXCEPT ![c].text = ""]
      <4>1. shown' \in [Conn -> Display] /\ \A d \in Conn : shown'[d].calls = shown[d].calls
        BY <3>2, <3>4, <3>5 DEF Display
      <4>2. QED BY <3>2, <3>4, <3>5, <4>1 DEF CopyTypeOK
    <3>6. QED BY <1>6, <3>3, <3>5
  <2>3. ThreadTypeOK' BY <1>0, <1>18 DEF GoesOffline, ThreadTypeOK
  <2>4. ActsTypeOK' BY <1>10, <1>18 DEF GoesOffline
  <2>5. ServerTypeOK' /\ StreamTypeOK' BY <1>0, <1>3, <1>4, <1>18 DEF GoesOffline
  <2>6. QED BY <2>1, <2>2, <2>3, <2>4, <2>5 DEF TypeOK
<1>19. CASE Leave(c) \/ EndGame(c)
  <2>1. acts' \in [ActKind -> Nat]
    <3>1. CASE Leave(c) BY <1>9, <3>1 DEF Leave, ActKind
    <3>2. CASE EndGame(c) BY <1>0, <3>2 DEF EndGame, ActsTypeOK
    <3>3. QED BY <1>19, <3>1, <3>2
  <2>2. QED BY <1>18, <1>19, <2>1 DEF Leave, EndGame
<1>20. QED BY <1>11, <1>12, <1>13, <1>14, <1>15, <1>16, <1>17, <1>19 DEF Acts

(* What the network thread sends last. *)
LEMMA MapSent ==
  ASSUME NEW c \in Conn, NetSendsMap(c), up \in [Conn -> Seq(UpMsg)], NEW m \in UpMsg,
         m = CurrentMap(carried[c], "EnteringMap")
  PROVE  \/ status[c] # "in" /\ up' = up
         \/ /\ status[c] = "in"
            /\ \/ up' = [up EXCEPT ![c] = Append(@, m)]
               \/ up' = [up EXCEPT ![c] = Append(Append(@, m), HashData)]
<1>1. HashData \in UpMsg /\ up[c] \in Seq(UpMsg) BY Sendable
<1>2. PICK r \in Seq(UpMsg) : r = up[c] BY <1>1
<1>s. PICK s \in Seq(UpMsg) : s = Append(r, m) BY Appended
<1>t. s = r \o <<m>> BY <1>s, Appended
<1>3. s \o <<HashData>> = Append(s, HashData) /\ s \o <<>> = s BY <1>1, Appended
<1>4. \/ status[c] # "in" /\ up' = up
      \/ status[c] = "in" /\ (\/ up' = [up EXCEPT ![c] = s \o <<HashData>>]
                             \/ up' = [up EXCEPT ![c] = s \o <<>>])
  BY <1>2, <1>t DEF NetSendsMap, If
<1>5. QED BY <1>2, <1>s, <1>3, <1>4

(* What the threads of the mod do. *)
LEMMA ThreadsTyped ==
  ASSUME TypeOK, NEW c \in Conn, Threads(c)
  PROVE  TypeOK'
<1> USE DEF serverVars, streamVars, playerVars, copyVars, history
<1>0. /\ ServerTypeOK /\ StreamTypeOK /\ PlayerTypeOK /\ CopyTypeOK /\ ThreadTypeOK /\ ActsTypeOK
      /\ up \in [Conn -> Seq(UpMsg)] /\ down \in [Conn -> Seq(DownMsg)]
      /\ met \in [Conn -> SUBSET Conn] /\ up[c] \in Seq(UpMsg)
  BY DEF TypeOK, StreamTypeOK
<1>1. /\ place[c] \in Where /\ carried[c] \in Where
      /\ game[c] # "idle" => place[c].map \in Map
      /\ place[c].map # NoMap => place[c].map \in Map
  BY <1>0 DEF PlayerTypeOK, ThreadTypeOK, Where
<1>2. \A m \in UpMsg : [up EXCEPT ![c] = Append(@, m)] \in [Conn -> Seq(UpMsg)]
  BY <1>0, StreamsTyped
<1>3. \A m, n \in UpMsg : up[c] \o <<m, n>> \in Seq(UpMsg) /\ up[c] \o <<m>> \in Seq(UpMsg) BY <1>0
<1>4. ServerTypeOK'
  BY <1>0 DEF Threads, EnterName, SendName, SendPlace, NetSendsName, Assemble, NetSendsMap, ServerTypeOK
<1>5. StreamTypeOK'
  <2>1. UNCHANGED <<down, met>>
    BY DEF Threads, EnterName, SendName, SendPlace, NetSendsName, Assemble, NetSendsMap
  <2>2. up' \in [Conn -> Seq(UpMsg)]
    <3>1. CASE EnterName(c) \/ Assemble(c) BY <1>0, <3>1 DEF EnterName, Assemble
    <3>2. CASE SendName(c) BY <1>1, <1>2, <3>2, Sendable DEF SendName, Sends
    <3>3. CASE SendPlace(c)
      <4>1. PICK s \in Sector : up' = [up EXCEPT ![c] = @ \o Entering(c, s)] BY <3>3 DEF SendPlace
      <4>2. PICK m : m = CurrentMap([place[c] EXCEPT !.sector = s], "EnteringMap") OBVIOUS
      <4>3. PICK n : n = CurrentSector(s) OBVIOUS
      <4>4. [place[c] EXCEPT !.sector = s] \in Where BY <1>1 DEF Where
      <4>5. m \in UpMsg /\ n \in UpMsg BY <4>2, <4>3, <4>4, Sendable
      <4>6. Entering(c, s) = <<m>> \/ Entering(c, s) = <<n, m>>
        <5>1. Entering(c, s) = (IF s = place[c].sector THEN <<>> ELSE <<n>>) \o <<m>>
          BY <4>2, <4>3 DEF Entering, NewSector
        <5>2. <<>> \o <<m>> = <<m>> BY <4>5
        <5>3. <<n>> \o <<m>> = <<n, m>>
          <6>1. PICK t : t = <<n>> \o <<m>> OBVIOUS
          <6>2. t \in Seq(UpMsg) /\ Len(t) = 2 /\ t[1] = n /\ t[2] = m BY <4>5, <6>1
          <6>3. PICK u : u = <<n, m>> OBVIOUS
          <6>4. u \in Seq(UpMsg) /\ Len(u) = 2 /\ u[1] = n /\ u[2] = m BY <4>5, <6>3
          <6>5. t = u BY <6>2, <6>4, SeqEqual
          <6>6. QED BY <6>1, <6>3, <6>5
        <5>4. CASE s = place[c].sector BY <5>1, <5>2, <5>4, Zenon
        <5>5. CASE s # place[c].sector BY <5>1, <5>3, <5>5, Zenon
        <5>6. QED BY <5>4, <5>5
      <4>7. up[c] \o Entering(c, s) \in Seq(UpMsg) BY <1>3, <4>5, <4>6
      <4>8. QED BY <1>0, <4>1, <4>7
    <3>4. CASE NetSendsName(c) BY <1>0, <1>1, <1>2, <3>4, Sendable DEF NetSendsName
    <3>5. CASE NetSendsMap(c)
      <4>1. PICK m : m = CurrentMap(carried[c], "EnteringMap") OBVIOUS
      <4>2. m \in UpMsg /\ HashData \in UpMsg BY <1>1, <4>1, Sendable
      <4>3. up \in [Conn -> Seq(UpMsg)] BY <1>0
      <4>4. \/ up' = up \/ up' = [up EXCEPT ![c] = Append(@, m)]
            \/ up' = [up EXCEPT ![c] = Append(Append(@, m), HashData)]
        BY <3>5, <4>1, <4>2, <4>3, MapSent
      <4>5. QED
        <5>1. PICK s \in Seq(UpMsg) : s = Append(up[c], m) BY <1>0, <4>2, Appended
        <5>2. Append(s, HashData) \in Seq(UpMsg) BY <4>2, Appended
        <5>3. up' = up \/ up' = [up EXCEPT ![c] = s] \/ up' = [up EXCEPT ![c] = Append(s, HashData)]
          BY <4>4, <5>1
        <5>4. QED BY <4>3, <5>2, <5>3
    <3>6. QED BY <3>1, <3>2, <3>3, <3>4, <3>5 DEF Threads
  <2>3. QED BY <1>0, <2>1, <2>2 DEF StreamTypeOK
<1>6. PlayerTypeOK' /\ \A d \in Conn : place'[d].map = place[d].map
  <2>1. CASE SendPlace(c) BY <1>0, <2>1 DEF SendPlace, PlayerTypeOK, Where
  <2>2. CASE ~ SendPlace(c)
    BY <1>0, <2>2 DEF Threads, EnterName, SendName, NetSendsName, Assemble, NetSendsMap, PlayerTypeOK
  <2>3. QED BY <2>1, <2>2
<1>7. CopyTypeOK'
  <2>1. UNCHANGED <<shown, mirror>>
    BY DEF Threads, EnterName, SendName, SendPlace, NetSendsName, Assemble, NetSendsMap
  <2>2. known' \in [Conn -> SUBSET Map]
    <3>1. known \in [Conn -> SUBSET Map] BY <1>0 DEF CopyTypeOK
    <3>2. \/ known' = known
          \/ known' = [known EXCEPT ![c] = @ \cup {place[c].map}] /\ place[c].map \in Map
      BY <1>1 DEF Threads, EnterName, SendName, SendPlace, NetSendsName, Assemble, NetSendsMap
    <3>3. QED BY <3>1, <3>2
  <2>3. QED BY <1>0, <2>1, <2>2 DEF CopyTypeOK
<1>8. ThreadTypeOK'
  <2>1. crashed' = crashed
    BY DEF Threads, EnterName, SendName, SendPlace, NetSendsName, Assemble, NetSendsMap
  <2>2. /\ game' \in [Conn -> {"idle", "loaded", "name", "sector"}]
        /\ \A d \in Conn : game'[d] # "idle" => game[d] # "idle"
    BY <1>0 DEF Threads, EnterName, SendName, SendPlace, NetSendsName, Assemble, NetSendsMap,
       ThreadTypeOK
  <2>3. net' \in [Conn -> {"poll", "logged in", "named", "assembled"}]
    BY <1>0 DEF Threads, EnterName, SendName, SendPlace, NetSendsName, Assemble, NetSendsMap,
       ThreadTypeOK
  <2>4. carried' \in [Conn -> Where]
    BY <1>0, Joins, <1>1 DEF ThreadTypeOK, Threads, EnterName, SendName, SendPlace, NetSendsName,
       Assemble, NetSendsMap, threadVars
  <2>5. QED BY <1>0, <1>6, <2>1, <2>2, <2>3, <2>4 DEF ThreadTypeOK
<1>9. ActsTypeOK'
  BY <1>0 DEF Threads, EnterName, SendName, SendPlace, NetSendsName, Assemble, NetSendsMap, ActsTypeOK
<1>10. QED BY <1>4, <1>5, <1>6, <1>7, <1>8, <1>9 DEF TypeOK

(* What is changed of a record. *)
CheatSet(r, c, ch, g) ==
  /\ g \in Records /\ DOMAIN g = DOMAIN r
  /\ \A d \in DOMAIN r : /\ g[d].map = r[d].map /\ g[d].sector = r[d].sector
                         /\ g[d].cheated = IF d = c THEN ch ELSE r[d].cheated
SectorSet(r, c, s, g) ==
  /\ g \in Records /\ DOMAIN g = DOMAIN r
  /\ \A d \in DOMAIN r : /\ g[d].map = r[d].map /\ g[d].cheated = r[d].cheated
                         /\ g[d].sector = IF d = c THEN s ELSE r[d].sector
PlaceSet(r, c, x, s, g) ==
  /\ g \in Records /\ DOMAIN g = DOMAIN r
  /\ \A d \in DOMAIN r : /\ g[d].cheated = r[d].cheated
                         /\ g[d].map = IF d = c THEN x ELSE r[d].map
                         /\ g[d].sector = IF d = c THEN s ELSE r[d].sector

LEMMA RecordChanges ==
  ASSUME NEW r \in Records, NEW c \in Conn
  PROVE  /\ \A ch \in BOOLEAN : \A g : g = [r EXCEPT ![c].cheated = ch] => CheatSet(r, c, ch, g)
         /\ \A s \in Sector : \A g : g = [r EXCEPT ![c].sector = s] => SectorSet(r, c, s, g)
         /\ \A x \in Map \cup {NoMap}, s \in Sector : \A g :
              g = [r EXCEPT ![c].map = x, ![c].sector = s] => PlaceSet(r, c, x, s, g)
<1>1. r \in Entries /\ (\A d \in DOMAIN r : r[d] \in Entry /\ r[d].named) /\ DOMAIN r \subseteq Conn
  BY EntriesAre DEF Records
<1>2. ASSUME NEW ch \in BOOLEAN, NEW g, g = [r EXCEPT ![c].cheated = ch]
      PROVE  /\ g \in Records /\ DOMAIN g = DOMAIN r
             /\ \A d \in DOMAIN r : /\ g[d].map = r[d].map /\ g[d].sector = r[d].sector
                                    /\ g[d].cheated = IF d = c THEN ch ELSE r[d].cheated
  <2>1. DOMAIN g = DOMAIN r BY <1>1, <1>2
  <2>2. \A d \in DOMAIN r : g[d] = IF d = c THEN [r[d] EXCEPT !.cheated = ch] ELSE r[d]
    BY <1>1, <1>2
  <2>3. ASSUME NEW e \in Entry, NEW f, f = [e EXCEPT !.cheated = ch]
        PROVE  f \in Entry /\ f.named = e.named /\ f.map = e.map /\ f.sector = e.sector /\ f.cheated = ch
    BY <2>3 DEF Entry
  <2>4. \A d \in DOMAIN r : g[d] \in Entry /\ g[d].named BY <1>1, <2>2, <2>3
  <2>5. ASSUME c \in DOMAIN r PROVE g[c].map = r[c].map /\ g[c].sector = r[c].sector /\ g[c].cheated = ch
    <3>1. PICK e \in Entry : e = r[c] BY <1>1, <2>5
    <3>2. PICK f : f = g[c] OBVIOUS
    <3>3. f.map = e.map /\ f.sector = e.sector /\ f.cheated = ch BY <2>2, <2>3, <2>5, <3>1, <3>2
    <3>4. QED BY <3>1, <3>2, <3>3
  <2>6. \A d \in DOMAIN r \ {c} : g[d] = r[d] BY <2>2
  <2>7. g \in Records
    <3>1. \A d \in DOMAIN g : g[d] \in Entry /\ g[d].named BY <2>1, <2>4
    <3>2. PICK S \in SUBSET Conn : r \in [S -> Entry] BY <1>1 DEF Entries
    <3>3. g \in [S -> Entry] BY <3>2, <1>2 DEF Entry
    <3>4. g \in Entries BY <3>3 DEF Entries
    <3>5. QED BY <3>1, <3>4 DEF Records
  <2>8. QED BY <2>1, <2>5, <2>6, <2>7
<1>3. ASSUME NEW s \in Sector, NEW g, g = [r EXCEPT ![c].sector = s]
      PROVE  /\ g \in Records /\ DOMAIN g = DOMAIN r
             /\ \A d \in DOMAIN r : /\ g[d].map = r[d].map /\ g[d].cheated = r[d].cheated
                                    /\ g[d].sector = IF d = c THEN s ELSE r[d].sector
  <2>1. DOMAIN g = DOMAIN r BY <1>1, <1>3
  <2>2. \A d \in DOMAIN r : g[d] = IF d = c THEN [r[d] EXCEPT !.sector = s] ELSE r[d] BY <1>1, <1>3
  <2>3. ASSUME NEW e \in Entry, NEW f, f = [e EXCEPT !.sector = s]
        PROVE  f \in Entry /\ f.named = e.named /\ f.map = e.map /\ f.sector = s /\ f.cheated = e.cheated
    BY <2>3 DEF Entry
  <2>4. \A d \in DOMAIN r : g[d] \in Entry /\ g[d].named BY <1>1, <2>2, <2>3
  <2>5. ASSUME c \in DOMAIN r PROVE g[c].map = r[c].map /\ g[c].sector = s /\ g[c].cheated = r[c].cheated
    <3>1. PICK e \in Entry : e = r[c] BY <1>1, <2>5
    <3>2. PICK f : f = g[c] OBVIOUS
    <3>3. f.map = e.map /\ f.sector = s /\ f.cheated = e.cheated BY <2>2, <2>3, <2>5, <3>1, <3>2
    <3>4. QED BY <3>1, <3>2, <3>3
  <2>6. \A d \in DOMAIN r \ {c} : g[d] = r[d] BY <2>2
  <2>7. g \in Records
    <3>1. \A d \in DOMAIN g : g[d] \in Entry /\ g[d].named BY <2>1, <2>4
    <3>2. PICK S \in SUBSET Conn : r \in [S -> Entry] BY <1>1 DEF Entries
    <3>3. g \in [S -> Entry] BY <3>2, <1>3 DEF Entry
    <3>4. g \in Entries BY <3>3 DEF Entries
    <3>5. QED BY <3>1, <3>4 DEF Records
  <2>8. QED BY <2>1, <2>5, <2>6, <2>7
<1>4. ASSUME NEW x \in Map \cup {NoMap}, NEW s \in Sector, NEW g,
             g = [r EXCEPT ![c].map = x, ![c].sector = s]
      PROVE  /\ g \in Records /\ DOMAIN g = DOMAIN r
             /\ \A d \in DOMAIN r : /\ g[d].cheated = r[d].cheated
                                    /\ g[d].map = IF d = c THEN x ELSE r[d].map
                                    /\ g[d].sector = IF d = c THEN s ELSE r[d].sector
  <2>1. DOMAIN g = DOMAIN r BY <1>1, <1>4
  <2>2. \A d \in DOMAIN r : g[d] = IF d = c THEN [r[d] EXCEPT !.map = x, !.sector = s] ELSE r[d]
    BY <1>1, <1>4
  <2>3. ASSUME NEW e \in Entry, NEW f, f = [e EXCEPT !.map = x, !.sector = s]
        PROVE  f \in Entry /\ f.named = e.named /\ f.map = x /\ f.sector = s /\ f.cheated = e.cheated
    BY <2>3 DEF Entry
  <2>4. \A d \in DOMAIN r : g[d] \in Entry /\ g[d].named BY <1>1, <2>2, <2>3
  <2>5. ASSUME c \in DOMAIN r PROVE g[c].map = x /\ g[c].sector = s /\ g[c].cheated = r[c].cheated
    <3>1. PICK e \in Entry : e = r[c] BY <1>1, <2>5
    <3>2. PICK f : f = g[c] OBVIOUS
    <3>3. f.map = x /\ f.sector = s /\ f.cheated = e.cheated BY <2>2, <2>3, <2>5, <3>1, <3>2
    <3>4. QED BY <3>1, <3>2, <3>3
  <2>6. \A d \in DOMAIN r \ {c} : g[d] = r[d] BY <2>2
  <2>7. g \in Records
    <3>1. \A d \in DOMAIN g : g[d] \in Entry /\ g[d].named BY <2>1, <2>4
    <3>2. PICK S \in SUBSET Conn : r \in [S -> Entry] BY <1>1 DEF Entries
    <3>3. g \in [S -> Entry] BY <3>2, <1>4 DEF Entry
    <3>4. g \in Entries BY <3>3 DEF Entries
    <3>5. QED BY <3>1, <3>4 DEF Records
  <2>8. QED BY <2>1, <2>5, <2>6, <2>7
<1>5. QED BY <1>2, <1>3, <1>4 DEF CheatSet, SectorSet, PlaceSet

LEMMA RecordJoins ==
  ASSUME NEW r \in Records, NEW c \in Conn, NEW ch \in BOOLEAN
  PROVE  /\ With(r, c, Player(ch, Nowhere)) \in Records
         /\ DOMAIN With(r, c, Player(ch, Nowhere)) = DOMAIN r \cup {c}
         /\ \A d \in DOMAIN r \ {c} : With(r, c, Player(ch, Nowhere))[d] = r[d]
         /\ With(r, c, Player(ch, Nowhere))[c] = Player(ch, Nowhere)
<1>1. PICK e : e = Player(ch, Nowhere) OBVIOUS
<1>2. e \in Entry /\ e.named BY <1>1, Joins
<1>3. PICK g : g = With(r, c, e) OBVIOUS
<1>4. DOMAIN With(r, c, e) = DOMAIN r \cup {c} BY WithIs
<1>5. With(r, c, e)[c] = e BY WithIs
<1>6. \A d \in DOMAIN r \ {c} : With(r, c, e)[d] = r[d] BY WithIs
<1>7. r \in Entries /\ \A d \in DOMAIN r : r[d].named BY DEF Records
<1>8. g \in Entries BY <1>2, <1>3, <1>7, Entered
<1>9. \A d \in DOMAIN g : g[d].named BY <1>2, <1>3, <1>4, <1>5, <1>6, <1>7
<1>10. With(r, c, e) \in Records BY <1>3, <1>8, <1>9 DEF Records
<1>11. QED BY <1>1, <1>4, <1>5, <1>6, <1>10

LEMMA RecordLeaves ==
  ASSUME NEW r \in Records, NEW c
  PROVE  Without(r, c) \in Records
<1>1. r \in Entries /\ \A d \in DOMAIN r : r[d].named BY DEF Records
<1>2. PICK g : g = Without(r, c) OBVIOUS
<1>3. g \in Entries /\ DOMAIN g = DOMAIN r \ {c} BY <1>1, <1>2, Removed
<1>4. \A d \in DOMAIN r \ {c} : Without(r, c)[d] = r[d] BY <1>1, Removed
<1>5. QED BY <1>1, <1>2, <1>3, <1>4 DEF Records

(* What is sent to whoever logs in. *)
LEMMA WelcomeIs ==
  ASSUME ServerTypeOK, NEW c \in Conn, NEW r \in Records, NEW ch \in BOOLEAN
  PROVE  \E a, t, b \in Seq(DownMsg) :
           /\ Welcome(c, r, ch) = a \o <<LoginAccepted(r)>> \o t \o b
           /\ a = If(map_names_ # {}, MapNames(map_names_))
           /\ t = If(Forced(c, ch), CheatToggle(~ ch))
           /\ b = If(bulletin # "", Bulletin(bulletin))
           /\ <<LoginAccepted(r)>> \in Seq(DownMsg)
<1> DEFINE a == If(map_names_ # {}, MapNames(map_names_))
           t == If(Forced(c, ch), CheatToggle(~ ch))
           b == If(bulletin # "", Bulletin(bulletin))
<1>1. map_names_ \subseteq Map /\ bulletin \in Text /\ (~ ch) \in BOOLEAN BY DEF ServerTypeOK
<1>2. \A test : \A m \in DownMsg : If(test, m) \in Seq(DownMsg) BY DEF If
<1>3. a \in Seq(DownMsg) /\ t \in Seq(DownMsg) /\ b \in Seq(DownMsg) BY <1>1, <1>2, Tellable
<1>4. LoginAccepted(r) \in DownMsg BY Tellable
<1>5. <<LoginAccepted(r)>> \in Seq(DownMsg) BY <1>4
<1>6. Welcome(c, r, ch) = a \o <<LoginAccepted(r)>> \o t \o b BY DEF Welcome
<1>7. QED BY <1>3, <1>5, <1>6

(* All the server's handlers that tell one message to a set of clients, and *)
(* what they tell.                                                         *)
Relaying(c) ==
  \/ ServerScores(c) \/ ServerNotification(c) \/ ServerWhisper(c) \/ ServerRestart(c)
  \/ ServerRestartFailed(c) \/ ServerCheatState(c) \/ ServerCheatToggle(c) \/ ServerCurrentMap(c)
  \/ ServerCurrentSector(c) \/ ServerMapNames(c) \/ ServerBulletin(c) \/ ServerChat(c)

RelayOf(c, S, m) ==
  /\ down' = Told(down, S, m)
  /\ S \subseteq online \cup {c} /\ Mentioned(m) \subseteq online \cup {c}
  /\ m.kind \notin {"PlayerConnected", "PlayerDisconnected", "LoginAccepted"}
  /\ IF m.kind = "MapNames"
     THEN Head(up[c]) = m /\ S = online \ {c} /\ map_names_' = map_names_ \cup m.maps
     ELSE map_names_' = map_names_ /\ Head(up[c]).kind # "MapNames"
  /\ IF m.kind = "PermanentNotification"
     THEN S = online /\ bulletin' = m.text ELSE bulletin' = bulletin
  /\ m.kind = "CurrentMap" =>
       Head(up[c]).kind = "CurrentMap" /\ m.from = c /\ m.map = Head(up[c]).map
  /\ m.kind \in {"OwnedCheatState", "CurrentSector"} => Head(up[c]).kind \in {"CheatState", "CurrentSector"}

LEMMA RelayIs ==
  ASSUME TypeOK, NEW c \in Conn, Relaying(c)
  PROVE  /\ \E S, m : m \in DownMsg /\ RelayOf(c, S, m)
         /\ up[c] # <<>> /\ up' = [up EXCEPT ![c] = Tail(@)]
         /\ UNCHANGED <<met, playerVars, copyVars, threadVars, acts, history>>
         /\ Head(up[c]).kind # "LoginRequest"
<1> USE DEF serverVars, Receives, ServerOnly
<1>1. /\ up[c] # <<>> /\ up' = [up EXCEPT ![c] = Tail(@)]
      /\ UNCHANGED <<met, playerVars, copyVars, threadVars, acts, history>>
      /\ Head(up[c]).kind # "LoginRequest"
  BY DEF Relaying, ServerScores, ServerNotification, ServerWhisper, ServerRestart, ServerRestartFailed,
     ServerCheatState, ServerCheatToggle, ServerCurrentMap, ServerCurrentSector, ServerMapNames,
     ServerBulletin, ServerChat
<1> SUFFICES \E S, m : m \in DownMsg /\ RelayOf(c, S, m) BY <1>1
<1>2. PICK h \in UpMsg : h = Head(up[c]) BY <1>1, StreamsTyped DEF TypeOK
<1>3. /\ ActionDenied \in DownMsg /\ ActionDenied.kind = "ActionDenied" /\ Mentioned(ActionDenied) = {}
  BY Tellable, NamesOf DEF ActionDenied
<1>4. ASSUME UNCHANGED <<map_names_, bulletin>>, h.kind # "MapNames", down' = Told(down, {c}, ActionDenied)
      PROVE  \E S, m : m \in DownMsg /\ RelayOf(c, S, m)
  BY <1>2, <1>3, <1>4, Zenon DEF RelayOf
<1>5. ASSUME UNCHANGED <<map_names_, bulletin>>, h.kind # "MapNames", NEW m \in DownMsg,
             Mentioned(m) \subseteq online \cup {c},
             m.kind \notin {"PlayerConnected", "PlayerDisconnected", "LoginAccepted", "MapNames",
                            "PermanentNotification", "CurrentMap"},
             m.kind \in {"OwnedCheatState", "CurrentSector"} => h.kind \in {"CheatState", "CurrentSector"},
             \/ Broadcast(m) \/ BroadcastExcept(c, m)
             \/ \E S : down' = Told(down, S, m) /\ S \subseteq online \cup {c}
      PROVE  \E S, n : n \in DownMsg /\ RelayOf(c, S, n)
  <2>1. PICK S : down' = Told(down, S, m) /\ S \subseteq online \cup {c}
    BY <1>5 DEF Broadcast, BroadcastExcept
  <2>2. RelayOf(c, S, m) BY <1>2, <1>5, <2>1 DEF RelayOf
  <2>3. QED BY <2>2
<1>6. CASE ServerScores(c) BY Tellable, NamesOf, <1>2, <1>5, <1>6, <1>4 DEF ScoreList, ServerScores
<1>7. CASE ServerNotification(c)
  <2>1. PICK m : m = From(c, Important) OBVIOUS
  <2>2. m \in DownMsg /\ m.kind = "ImportantNotification" /\ m.from = c BY <1>2, <2>1, RelayedIs
  <2>3. Mentioned(m) = {c} BY <2>2, NamesOf
  <2>4. h.kind # "MapNames" /\ UNCHANGED <<map_names_, bulletin>>
          /\ (down' = Told(down, {c}, ActionDenied) \/ Broadcast(m))
    BY <1>2, <1>7, <2>1 DEF ServerNotification
  <2>5. QED BY <1>4, <1>5, <2>2, <2>3, <2>4
<1>8. CASE ServerWhisper(c)
  <2>1. PICK m : m = [kind |-> "PrivateChat", from |-> c] OBVIOUS
  <2>2. m \in DownMsg /\ m.kind = "PrivateChat" /\ m.from = c BY <1>2, <2>1, RelayedIs
  <2>3. Mentioned(m) = {c} BY <2>2, NamesOf
  <2>4. h.kind # "MapNames" /\ UNCHANGED <<map_names_, bulletin>>
          /\ \/ down' = Told(down, {c}, ActionDenied)
             \/ \E S : down' = Told(down, S, m) /\ S \subseteq online \cup {c}
    BY <1>2, <1>8, <2>1 DEF ServerWhisper
  <2>5. QED BY <1>4, <1>5, <2>2, <2>3, <2>4
<1>9. CASE ServerRestart(c)
  <2>1. PICK m : m = From(c, h) OBVIOUS
  <2>2. m \in DownMsg /\ m.kind = "RestartRequest" /\ m.from = c /\ m.about = h.about
    BY <1>2, <1>9, <2>1, RelayedIs DEF ServerRestart
  <2>3. Mentioned(m) = {c, h.about} BY <2>2, NamesOf
  <2>4. h.kind # "MapNames" /\ UNCHANGED <<map_names_, bulletin>>
          /\ (down' = Told(down, {c}, ActionDenied) \/ (h.about \in online /\ Broadcast(m)))
    BY <1>2, <1>9, <2>1 DEF ServerRestart
  <2>5. QED BY <1>4, <1>5, <2>2, <2>3, <2>4
<1>10. CASE ServerRestartFailed(c)
  <2>1. h \in DownMsg /\ h.kind = "RestartRequestFailed"
    BY <1>2, <1>10, Relayed DEF ServerRestartFailed
  <2>2. Mentioned(h) = {h.about} BY <2>1, NamesOf
  <2>3. UNCHANGED <<map_names_, bulletin>>
          /\ (UNCHANGED down \/ (h.about \in online /\ Broadcast(h)))
    BY <1>2, <1>10 DEF ServerRestartFailed
  <2>4. CASE UNCHANGED down BY <2>4, <1>3, <1>5, <2>1, <2>3 DEF TypeOK, StreamTypeOK, Told
  <2>5. CASE h.about \in online /\ Broadcast(h) BY <1>5, <2>1, <2>2, <2>3, <2>5
  <2>6. QED BY <2>3, <2>4, <2>5
<1>11. CASE ServerCheatState(c)
  <2>1. h.kind = "CheatState" /\ h.cheated \in BOOLEAN /\ (~ h.cheated) \in BOOLEAN
    BY <1>2, <1>11, UpFacts DEF ServerCheatState
  <2>2. PICK m : m = From(c, [kind |-> "OwnedCheatState", cheated |-> h.cheated]) OBVIOUS
  <2>3. m \in DownMsg /\ m.kind = "OwnedCheatState" /\ m.from = c BY <1>2, <2>1, <2>2, RelayedIs
  <2>4. Mentioned(m) = {c} BY <2>3, NamesOf
  <2>5. PICK n : n = CheatToggle(~ h.cheated) OBVIOUS
  <2>6. n \in DownMsg /\ n.kind = "CheatToggle" BY <2>1, <2>5, Tellable DEF CheatToggle
  <2>7. Mentioned(n) = {} BY <2>6, NamesOf
  <2>8. UNCHANGED <<map_names_, bulletin>> /\ (down' = Told(down, {c}, n) \/ Broadcast(m))
    BY <1>2, <1>11, <2>2, <2>5 DEF ServerCheatState
  <2>9. CASE down' = Told(down, {c}, n) BY <1>5, <2>1, <2>6, <2>7, <2>8, <2>9
  <2>10. CASE Broadcast(m) BY <1>5, <2>1, <2>3, <2>4, <2>8, <2>10
  <2>11. QED BY <2>8, <2>9, <2>10
<1>12. CASE ServerCheatToggle(c)
  <2>1. h.kind = "CheatToggle" /\ h.cheated \in BOOLEAN
    BY <1>2, <1>12, UpFacts DEF ServerCheatToggle
  <2>2. PICK m : m = From(c, [kind |-> "OwnedCheatToggle", cheated |-> h.cheated]) OBVIOUS
  <2>3. m \in DownMsg /\ m.kind = "OwnedCheatToggle" /\ m.from = c BY <1>2, <2>1, <2>2, RelayedIs
  <2>4. Mentioned(m) = {c} BY <2>3, NamesOf
  <2>5. UNCHANGED <<map_names_, bulletin>>
          /\ (down' = Told(down, {c}, ActionDenied) \/ Broadcast(m))
    BY <1>2, <1>12, <2>2 DEF ServerCheatToggle
  <2>6. QED BY <1>4, <1>5, <2>1, <2>3, <2>4, <2>5
<1>13. CASE ServerCurrentMap(c)
  <2>1. h.kind = "CurrentMap" BY <1>2, <1>13 DEF ServerCurrentMap
  <2>2. PICK m : m = From(c, h) OBVIOUS
  <2>3. m \in DownMsg /\ m.kind = "CurrentMap" /\ m.from = c /\ m.map = h.map
    BY <1>2, <2>1, <2>2, RelayedIs
  <2>4. Mentioned(m) = {c} BY <2>3, NamesOf
  <2>5. UNCHANGED <<map_names_, bulletin>> /\ \E S : down' = Told(down, S, m) /\ S \subseteq online
    BY <1>2, <1>13, <2>2 DEF ServerCurrentMap, Broadcast, BroadcastExcept
  <2>6. PICK S : down' = Told(down, S, m) /\ S \subseteq online BY <2>5
  <2>7. RelayOf(c, S, m) BY <1>2, <2>1, <2>3, <2>4, <2>5, <2>6 DEF RelayOf
  <2>8. QED BY <2>3, <2>7
<1>14. CASE ServerCurrentSector(c)
  <2>1. h.kind = "CurrentSector" BY <1>2, <1>14 DEF ServerCurrentSector
  <2>2. PICK m : m = From(c, h) OBVIOUS
  <2>3. m \in DownMsg /\ m.kind = "CurrentSector" /\ m.from = c BY <1>2, <2>1, <2>2, RelayedIs
  <2>4. Mentioned(m) = {c} BY <2>3, NamesOf
  <2>5. UNCHANGED <<map_names_, bulletin>> /\ BroadcastExcept(c, m)
    BY <1>2, <1>14, <2>2 DEF ServerCurrentSector
  <2>6. QED BY <1>5, <2>1, <2>3, <2>4, <2>5
<1>15. CASE ServerMapNames(c)
  <2>1. h \in DownMsg /\ h.kind = "MapNames" BY <1>2, <1>15, Relayed DEF ServerMapNames
  <2>2. Mentioned(h) = {} BY <2>1, NamesOf
  <2>3. RelayOf(c, online \ {c}, h)
    BY <1>2, <1>15, <2>1, <2>2 DEF ServerMapNames, RelayOf, BroadcastExcept
  <2>4. QED BY <2>1, <2>3
<1>16. CASE ServerBulletin(c)
  BY <1>2, <1>16, Relayed, NamesOf, <1>4 DEF ServerBulletin, RelayOf, Broadcast
<1>17. CASE ServerChat(c)
  <2>1. PICK m : m = From(c, Said) OBVIOUS
  <2>2. m \in DownMsg /\ m.kind = "Chat" /\ m.from = c BY <1>2, <2>1, RelayedIs
  <2>3. Mentioned(m) = {c} BY <2>2, NamesOf
  <2>4. h.kind # "MapNames" /\ UNCHANGED <<map_names_, bulletin>> /\ Broadcast(m)
    BY <1>2, <1>17, <2>1 DEF ServerChat
  <2>5. QED BY <1>5, <2>2, <2>3, <2>4
<1>18. QED
  BY <1>1, <1>6, <1>7, <1>8, <1>9, <1>10, <1>11, <1>12, <1>13, <1>14, <1>15, <1>16, <1>17 DEF Relaying

(* The console tells everybody. *)
LEMMA ConsoleIs ==
  ASSUME TypeOK, ConsoleToggleCheat \/ ConsoleBulletin
  PROVE  /\ \E m \in DownMsg :
              /\ down' = Told(down, online, m)
              /\ \/ m.kind = "CheatToggle" /\ bulletin' = bulletin
                 \/ m.kind = "PermanentNotification" /\ bulletin' = m.text
         /\ bulletin' \in Text
         /\ \E k \in ActKind : Act(k)
         /\ UNCHANGED <<record, map_names_, up, met, playerVars, copyVars, threadVars, history>>
<1> USE DEF ActKind
<1>0. bulletin \in Text BY DEF TypeOK, ServerTypeOK
<1>1. CASE ConsoleToggleCheat
  <2>1. PICK ch \in BOOLEAN : Broadcast(CheatToggle(ch)) BY <1>1 DEF ConsoleToggleCheat
  <2>2. CheatToggle(ch) \in DownMsg /\ CheatToggle(ch).kind = "CheatToggle"
    BY <2>1, Tellable DEF CheatToggle
  <2>3. QED BY <1>0, <1>1, <2>1, <2>2 DEF ConsoleToggleCheat, Broadcast, serverVars
<1>2. CASE ConsoleBulletin
  <2>1. PICK t \in Text : bulletin' = t /\ Broadcast(Bulletin(t)) BY <1>2 DEF ConsoleBulletin
  <2>2. /\ Bulletin(t) \in DownMsg /\ Bulletin(t).kind = "PermanentNotification"
        /\ Bulletin(t).text = t
    BY <2>1, Tellable DEF Bulletin
  <2>3. QED BY <1>2, <2>1, <2>2 DEF ConsoleBulletin, Broadcast
<1>3. QED BY <1>1, <1>2

(* What the server's handlers do. *)
LEMMA ServerTyped ==
  ASSUME TypeOK, NEW c \in Conn, ServerHandles(c)
  PROVE  TypeOK'
<1> USE DEF playerVars, copyVars, threadVars, history, ServerOnly
<1>0. /\ ServerTypeOK /\ StreamTypeOK /\ PlayerTypeOK /\ CopyTypeOK /\ ThreadTypeOK /\ ActsTypeOK
      /\ up \in [Conn -> Seq(UpMsg)] /\ down \in [Conn -> Seq(DownMsg)]
      /\ met \in [Conn -> SUBSET Conn]
      /\ record \in Records /\ map_names_ \subseteq Map /\ bulletin \in Text
  BY SMTT(30) DEF TypeOK, StreamTypeOK, ServerTypeOK
<1>1. /\ up[c] # <<>> /\ up' = [up EXCEPT ![c] = Tail(@)]
      /\ UNCHANGED <<playerVars, copyVars, threadVars, acts, history>>
  BY DEF ServerHandles, ServerScores, ServerNotification, ServerWhisper, ServerRestart,
     ServerRestartFailed, ServerCheatState, ServerCheatToggle, ServerCurrentMap, ServerCurrentSector,
     ServerMapNames, ServerBulletin, ServerChat, ServerHashes, ServerLogin, Receives
<1>2. PlayerTypeOK' /\ CopyTypeOK' /\ ThreadTypeOK' /\ ActsTypeOK'
  BY <1>0, <1>1 DEF PlayerTypeOK, CopyTypeOK, ThreadTypeOK, ActsTypeOK
<1>3. up' \in [Conn -> Seq(UpMsg)] /\ Head(up[c]) \in UpMsg BY <1>0, <1>1, StreamsTyped
<1>4. ServerTypeOK'
  <2>1. CASE ServerLogin(c)
    BY <1>3, <2>1, UpFacts, <1>0, RecordJoins DEF ServerLogin, Receives, ServerTypeOK
  <2>2. CASE ServerCheatState(c)
    BY <1>3, <2>2, UpFacts, <1>0, RecordChanges DEF ServerCheatState, Receives, CheatRecorded, CheatSet,
       ServerTypeOK
  <2>3. CASE ServerCurrentMap(c)
    <3>0. PICK x, s : x = Head(up[c]).map /\ s = Head(up[c]).sector OBVIOUS
    <3>1. x \in Map \cup {NoMap} /\ s \in Sector
      BY <1>3, <2>3, <3>0, UpFacts DEF ServerCurrentMap, Receives
    <3>2. record' = record \/ record' = [record EXCEPT ![c].map = x, ![c].sector = s]
      BY <2>3, <3>0 DEF ServerCurrentMap
    <3>3. \A g : g = [record EXCEPT ![c].map = x, ![c].sector = s] => PlaceSet(record, c, x, s, g)
      BY <1>0, RecordChanges, <3>1
    <3>4. record' \in Records /\ UNCHANGED <<map_names_, bulletin>>
      BY <1>0, <2>3, <3>2, <3>3 DEF ServerCurrentMap, PlaceSet
    <3>5. QED BY <1>0, <3>3, <3>4 DEF ServerTypeOK
  <2>4. CASE ServerCurrentSector(c)
    <3>0. PICK s : s = Head(up[c]).sector OBVIOUS
    <3>1. s \in Sector BY <1>3, <2>4, <3>0, UpFacts DEF ServerCurrentSector, Receives
    <3>2. record' = [record EXCEPT ![c].sector = s] BY <2>4, <3>0 DEF ServerCurrentSector
    <3>3. \A g : g = [record EXCEPT ![c].sector = s] => SectorSet(record, c, s, g)
      BY <1>0, RecordChanges, <3>1
    <3>4. record' \in Records /\ UNCHANGED <<map_names_, bulletin>>
      BY <1>0, <2>4, <3>2, <3>3 DEF ServerCurrentSector, SectorSet
    <3>5. QED BY <1>0, <3>3, <3>4 DEF ServerTypeOK
  <2>5. CASE ServerMapNames(c)
    BY <1>3, <2>5, UpFacts, <1>0 DEF ServerMapNames, Receives, ServerTypeOK
  <2>6. CASE ServerBulletin(c)
    BY <1>3, <2>6, UpFacts, <1>0 DEF ServerBulletin, Receives, ServerTypeOK
  <2>7. CASE UNCHANGED serverVars BY <1>0, <2>7 DEF ServerTypeOK, serverVars
  <2>8. QED
    BY <2>1, <2>2, <2>3, <2>4, <2>5, <2>6, <2>7
       DEF ServerHandles, ServerScores, ServerNotification, ServerWhisper, ServerRestart,
           ServerRestartFailed, ServerCheatToggle, ServerChat, ServerHashes
<1>5. StreamTypeOK'
  <2>1. CASE Relaying(c) BY <2>1, RelayIs, <1>0, StreamsTyped, <1>3 DEF RelayOf, StreamTypeOK
  <2>2. CASE ServerHashes(c)
    <3>1. PICK n \in 0 .. acts["modified"] :
            down' = [d \in Conn |-> down[d] \o [f \in 1 .. (IF d \in online THEN n ELSE 0) |-> Warning]]
      BY <2>2 DEF ServerHashes
    <3>2. n \in Nat BY <1>0 DEF ActsTypeOK
    <3>3. \A k \in Nat : [f \in 1 .. k |-> Warning] \in Seq(DownMsg) BY Tellable
    <3>4. \A d \in Conn : [f \in 1 .. (IF d \in online THEN n ELSE 0) |-> Warning] \in Seq(DownMsg)
      BY <3>2, <3>3
    <3>5. \A s, w \in Seq(DownMsg) : s \o w \in Seq(DownMsg) BY Joined
    <3>6. \A d \in Conn :
            down[d] \o [f \in 1 .. (IF d \in online THEN n ELSE 0) |-> Warning] \in Seq(DownMsg)
      BY <1>0, <3>4, <3>5
    <3>7. UNCHANGED met BY <2>2 DEF ServerHashes
    <3>8. QED BY <1>0, <1>3, <3>1, <3>6, <3>7 DEF StreamTypeOK
  <2>3. CASE ServerLogin(c)
    <3>1. PICK ch : ch = Head(up[c]).cheated OBVIOUS
    <3>2. ch \in BOOLEAN BY <1>3, <2>3, <3>1, UpFacts DEF ServerLogin, Receives
    <3>3. PICK r : r = With(record, c, Player(ch, Nowhere)) OBVIOUS
    <3>4. r \in Records /\ DOMAIN r \subseteq Conn BY <1>0, <3>2, <3>3, RecordJoins, EntriesAre
    <3>5. down' = [Introduced(c, ch) EXCEPT ![c] = @ \o Welcome(c, r, ch)]
      BY <2>3, <3>1, <3>3 DEF ServerLogin
    <3>6. \A s, w \in Seq(DownMsg) : s \o w \in Seq(DownMsg) BY Joined
    <3>7. PICK a, t, b \in Seq(DownMsg) :
            /\ Welcome(c, r, ch) = a \o <<LoginAccepted(r)>> \o t \o b
            /\ a = If(map_names_ # {}, MapNames(map_names_))
            /\ t = If(Forced(c, ch), CheatToggle(~ ch))
            /\ b = If(bulletin # "", Bulletin(bulletin))
            /\ <<LoginAccepted(r)>> \in Seq(DownMsg)
      BY <1>0, <3>2, <3>4, WelcomeIs, Zenon
    <3>8. Welcome(c, r, ch) \in Seq(DownMsg)
      <4>1. PICK e \in Seq(DownMsg) : e = <<LoginAccepted(r)>> BY <3>7
      <4>2. a \o e \in Seq(DownMsg) BY <3>6
      <4>3. a \o e \o t \in Seq(DownMsg) BY <3>6, <4>2
      <4>4. a \o e \o t \o b \in Seq(DownMsg) BY <3>6, <4>3
      <4>5. QED BY <3>7, <4>1, <4>4
    <3>9. Introduced(c, ch) \in [Conn -> Seq(DownMsg)]
      BY <3>2, Tellable, <1>0, StreamsTyped DEF Introduced
    <3>10. down' \in [Conn -> Seq(DownMsg)] BY <3>5, <3>6, <3>8, <3>9
    <3>11. met' \in [Conn -> SUBSET Conn] BY <2>3, <3>1, <3>3, <1>0, <3>4, SMTT(30) DEF ServerLogin
    <3>12. QED BY <1>3, <3>10, <3>11 DEF StreamTypeOK
  <2>4. QED BY <2>1, <2>2, <2>3 DEF ServerHandles, Relaying
<1>6. QED BY <1>2, <1>4, <1>5 DEF TypeOK

(* A client handles the message h. *)
MirrorAfter(c, h) ==
  CASE h.kind = "LoginAccepted" ->
         [mirror EXCEPT ![c] = IF c \in Mod THEN Without(h.online, c) ELSE h.online]
    [] h.kind = "PlayerConnected" ->
         IF c \in Mod /\ h.from \in DOMAIN mirror[c] THEN mirror
         ELSE [mirror EXCEPT ![c] = With(@, h.from, Player(h.cheated, Nowhere))]
    [] h.kind = "PlayerDisconnected" -> [mirror EXCEPT ![c] = Without(@, h.from)]
    [] h.kind = "OwnedCheatState" -> Changed(c, h.from, [cheated |-> h.cheated])
    [] h.kind = "CurrentMap" /\ ~ (c \in Mod /\ h.type = "Announcement") ->
         Changed(c, h.from, [map |-> h.map, sector |-> h.sector])
    [] h.kind = "CurrentSector" -> Changed(c, h.from, [sector |-> h.sector])
    [] OTHER -> mirror
ShownAfter(c, t) ==
  IF c \in Mod
  THEN [shown EXCEPT ![c].calls =
          Append(@, [text |-> t, updates |-> t # "" /\ shown[c].text # ""])]
  ELSE [shown EXCEPT ![c].text = t]
CopyAfter(c, h) ==
  /\ mirror' = MirrorAfter(c, h)
  /\ known' = IF h.kind = "MapNames" THEN [known EXCEPT ![c] = @ \cup h.maps] ELSE known
  /\ shown' = IF h.kind = "PermanentNotification" THEN ShownAfter(c, h.text) ELSE shown
StatusAfter(c, h) ==
  IF h.kind = "LoginAccepted"
  THEN /\ status' = [status EXCEPT ![c] = IF @ = "joining" THEN "in" ELSE @]
       /\ net' = [net EXCEPT ![c] = IF c \in Mod THEN "logged in" ELSE @]
  ELSE status' = status /\ net' = net
CrashAfter(c, h) ==
  crashed' = IF /\ h.kind = "CurrentMap" /\ c \in Mod /\ h.type = "Announcement"
                /\ h.from # c /\ h.from \notin DOMAIN mirror[c]
             THEN crashed \cup {c} ELSE crashed
Toggles(h) == h.kind \in {"CheatToggle", "OwnedCheatToggle"}
Answers(c, h) ==
  Toggles(h) /\ h.cheated # cheat[c] /\ c \notin Spectator /\ status[c] # "left"
AnswerAfter(c, h) ==
  /\ cheat' = IF Toggles(h) /\ c \notin Spectator THEN [cheat EXCEPT ![c] = h.cheated] ELSE cheat
  /\ untold' = IF Answers(c, h) THEN untold \ {c} ELSE untold
  /\ \/ Answers(c, h) /\ up' = [up EXCEPT ![c] = Append(@, CheatState(h.cheated))]
     \/ ~ Answers(c, h) /\ up' = up
     \/ ~ Answers(c, h) /\ status[c] # "left" /\ h.kind = "RestartRequest"
          /\ up' = [up EXCEPT ![c] = Append(@, RestartFailed(h.from))]

LEMMA HandlingIs ==
  ASSUME NEW c \in Conn, NEW h, ClientHandles(c), h = Head(down[c])
  PROVE  /\ CopyAfter(c, h) /\ StatusAfter(c, h) /\ CrashAfter(c, h) /\ AnswerAfter(c, h)
         /\ down[c] # <<>> /\ down' = [down EXCEPT ![c] = Tail(@)]
         /\ status[c] \in {"joining", "in", "left"} /\ c \notin crashed /\ net[c] = "poll"
         /\ status[c] = "left" => c \in Mod
         /\ UNCHANGED <<serverVars, met, place, game, carried, acts, overtaken, nameless>>
<1> USE DEF CopyAfter, MirrorAfter, StatusAfter, CrashAfter, AnswerAfter, Answers, Toggles, CopyOnly,
            playerVars, copyVars, threadVars, history
<1>1. /\ down[c] # <<>> /\ down' = [down EXCEPT ![c] = Tail(@)]
      /\ status[c] \in {"joining", "in", "left"} /\ c \notin crashed /\ net[c] = "poll"
      /\ status[c] = "left" => c \in Mod
      /\ UNCHANGED <<serverVars, met, place, game, carried, acts, overtaken, nameless>>
  BY DEF ClientHandles, Handles, LearnPlayers, LearnArrival, LearnDeparture, LearnCheat, ObeyToggle,
         LearnMap, LearnSector, LearnNames, ShowBulletin, Show, ShowScores, ShowNotification,
         ShowWarning, ObeyRestart
<1> SUFFICES CopyAfter(c, h) /\ StatusAfter(c, h) /\ CrashAfter(c, h) /\ AnswerAfter(c, h)
  BY <1>1, Zenon
<1>2. CASE LearnPlayers(c) BY <1>2 DEF LearnPlayers, Handles
<1>3. CASE LearnArrival(c) BY <1>3 DEF LearnArrival, Handles
<1>4. CASE LearnDeparture(c) BY <1>4 DEF LearnDeparture, Handles
<1>5. CASE LearnCheat(c) BY <1>5 DEF LearnCheat, Handles
<1>6. CASE ObeyToggle(c) BY <1>6 DEF ObeyToggle, Handles
<1>7. CASE LearnMap(c) BY <1>7 DEF LearnMap, Handles
<1>8. CASE LearnSector(c) BY <1>8 DEF LearnSector, Handles
<1>9. CASE LearnNames(c) BY <1>9 DEF LearnNames, Handles
<1>10. CASE ShowBulletin(c) BY <1>10 DEF ShowBulletin, ShownAfter, Handles
<1>11. CASE Show(c) \/ ShowScores(c) \/ ShowNotification(c) \/ ShowWarning(c)
  BY <1>11 DEF Show, ShowScores, ShowNotification, ShowWarning, Handles
<1>12. CASE ObeyRestart(c) BY <1>12 DEF ObeyRestart, Handles
<1>13. QED BY <1>2, <1>3, <1>4, <1>5, <1>6, <1>7, <1>8, <1>9, <1>10, <1>11, <1>12 DEF ClientHandles

(* What is known after a message of a kind. *)
LEMMA MirrorTyped ==
  ASSUME CopyTypeOK, NEW c \in Conn, NEW h \in DownMsg
  PROVE  MirrorAfter(c, h) \in [Conn -> Entries]
<1>1. mirror \in [Conn -> Entries] /\ mirror[c] \in Entries BY DEF CopyTypeOK
<1>2. CASE h.kind = "LoginAccepted" BY <1>2, DownFacts, EntriesAre, Removed, <1>1 DEF MirrorAfter
<1>3. CASE h.kind = "PlayerConnected" BY <1>3, DownFacts, Joins, <1>1, Entered DEF MirrorAfter
<1>4. CASE h.kind = "PlayerDisconnected" BY <1>1, Removed, <1>4 DEF MirrorAfter
<1>5. CASE h.kind = "OwnedCheatState" BY <1>5, DownFacts, Changes, ChangedIs DEF MirrorAfter
<1>6. CASE h.kind = "CurrentMap" BY <1>6, DownFacts, Changes, <1>1, ChangedIs DEF MirrorAfter
<1>7. CASE h.kind = "CurrentSector" BY <1>7, DownFacts, Changes, ChangedIs DEF MirrorAfter
<1>8. CASE h.kind \notin {"LoginAccepted", "PlayerConnected", "PlayerDisconnected", "OwnedCheatState",
                          "CurrentMap", "CurrentSector"}
  BY <1>1, <1>8 DEF MirrorAfter
<1>9. QED BY <1>2, <1>3, <1>4, <1>5, <1>6, <1>7, <1>8

(* A bulletin ends up shown; nobody else's changes. *)
LEMMA ShownTyped ==
  ASSUME CopyTypeOK, NEW c \in Conn, NEW t \in Text
  PROVE  /\ ShownAfter(c, t) \in [Conn -> Display]
         /\ \A d \in Conn \ Mod : ShownAfter(c, t)[d].calls = <<>>
         /\ \A d \in Conn \ {c} : ShownAfter(c, t)[d] = shown[d]
         /\ Ending(ShownAfter(c, t)[c]) = t
<1>1. shown \in [Conn -> Display] /\ \A d \in Conn \ Mod : shown[d].calls = <<>> BY DEF CopyTypeOK
<1>2. PICK u \in BOOLEAN : u = (t # "" /\ shown[c].text # "") OBVIOUS
<1>3. ShownAfter(c, t) = IF c \in Mod THEN [shown EXCEPT ![c].calls = Append(@, [text |-> t, updates |-> u])]
                         ELSE [shown EXCEPT ![c].text = t]
  BY <1>2, Zenon DEF ShownAfter
<1>4. CASE c \in Mod
  <2>0. PICK s \in Seq([text : Text, updates : BOOLEAN]), r \in [text : Text, updates : BOOLEAN] :
          s = shown[c].calls /\ r = [text |-> t, updates |-> u]
    BY <1>1, <1>2 DEF Display
  <2>1. PICK k \in Seq([text : Text, updates : BOOLEAN]) : k = Append(s, r) BY Appended
  <2>2. k # <<>> /\ k[Len(k)].text = t
    <3>1. Len(k) = Len(s) + 1 /\ k[Len(s) + 1] = r /\ Len(s) \in Nat BY <2>1, Appended
    <3>2. QED BY <2>0, <3>1, NonEmpty
  <2>3. ShownAfter(c, t) = [shown EXCEPT ![c].calls = k] BY <1>3, <1>4, <2>0, <2>1
  <2>4. QED BY <1>1, <1>4, <2>2, <2>3 DEF Display, Ending
<1>5. CASE c \notin Mod
  <2>1. ShownAfter(c, t) = [shown EXCEPT ![c].text = t] BY <1>3, <1>5
  <2>2. QED BY <1>1, <1>5, <2>1 DEF Display, Ending
<1>6. QED BY <1>4, <1>5

LEMMA ClientTyped ==
  ASSUME TypeOK, NEW c \in Conn, ClientHandles(c)
  PROVE  TypeOK'
<1> USE DEF serverVars
<1>0. /\ ServerTypeOK /\ StreamTypeOK /\ PlayerTypeOK /\ CopyTypeOK /\ ThreadTypeOK /\ ActsTypeOK
      /\ up \in [Conn -> Seq(UpMsg)] /\ down \in [Conn -> Seq(DownMsg)]
      /\ met \in [Conn -> SUBSET Conn]
  BY DEF TypeOK, StreamTypeOK
<1>1. PICK h : h = Head(down[c]) OBVIOUS
<1>2. /\ CopyAfter(c, h) /\ StatusAfter(c, h) /\ CrashAfter(c, h) /\ AnswerAfter(c, h)
      /\ down[c] # <<>> /\ down' = [down EXCEPT ![c] = Tail(@)]
      /\ UNCHANGED <<serverVars, met, place, game, carried, acts, overtaken, nameless>>
  BY <1>1, HandlingIs
<1>3. h \in DownMsg /\ down' \in [Conn -> Seq(DownMsg)] BY <1>0, <1>1, <1>2, StreamsTyped
<1>4. ServerTypeOK' BY <1>0, <1>2 DEF ServerTypeOK
<1>5. Toggles(h) => h.cheated \in BOOLEAN BY <1>3, DownFacts DEF Toggles
<1>6. StreamTypeOK'
  <2>1. Answers(c, h) => CheatState(h.cheated) \in UpMsg BY <1>5, Sendable DEF Answers
  <2>2. h.kind = "RestartRequest" => RestartFailed(h.from) \in UpMsg BY <1>3, Sendable DEF DownMsg
  <2>3. up' \in [Conn -> Seq(UpMsg)]
    <3>1. \A m \in UpMsg : [up EXCEPT ![c] = Append(@, m)] \in [Conn -> Seq(UpMsg)]
      BY <1>0, StreamsTyped
    <3>2. CASE up' = up BY <1>0, <3>2
    <3>3. CASE Answers(c, h) /\ up' = [up EXCEPT ![c] = Append(@, CheatState(h.cheated))]
      BY <2>1, <3>1, <3>3
    <3>4. CASE h.kind = "RestartRequest" /\ up' = [up EXCEPT ![c] = Append(@, RestartFailed(h.from))]
      BY <2>2, <3>1, <3>4
    <3>5. QED BY <1>2, <3>2, <3>3, <3>4 DEF AnswerAfter
  <2>4. QED BY <1>0, <1>2, <1>3, <2>3 DEF StreamTypeOK
<1>7. PlayerTypeOK' BY <1>0, <1>2, <1>5 DEF PlayerTypeOK, StatusAfter, AnswerAfter
<1>8. CopyTypeOK'
  <2>1. mirror' \in [Conn -> Entries] BY <1>0, <1>2, <1>3, MirrorTyped DEF CopyAfter
  <2>2. known' \in [Conn -> SUBSET Map] BY <1>0, <1>2, <1>3, DownFacts DEF CopyAfter, CopyTypeOK
  <2>3. shown' \in [Conn -> Display] /\ \A d \in Conn \ Mod : shown'[d].calls = <<>>
    <3>1. CASE h.kind = "PermanentNotification"
      <4>1. h.text \in Text /\ shown' = ShownAfter(c, h.text)
        BY <1>2, <1>3, <3>1, DownFacts DEF CopyAfter
      <4>2. QED BY <1>0, <4>1, ShownTyped
    <3>2. CASE h.kind # "PermanentNotification" BY <1>0, <1>2, <3>2 DEF CopyAfter, CopyTypeOK
    <3>3. QED BY <3>1, <3>2
  <2>4. QED BY <2>1, <2>2, <2>3 DEF CopyTypeOK
<1>9. ThreadTypeOK' BY <1>0, <1>2 DEF ThreadTypeOK, StatusAfter, CrashAfter
<1>10. ActsTypeOK' BY <1>0, <1>2 DEF ActsTypeOK, AnswerAfter
<1>11. QED BY <1>4, <1>6, <1>7, <1>8, <1>9, <1>10 DEF TypeOK

(* Running a call changes what is shown, not what will be. *)
LEMMA RunningShows ==
  ASSUME CopyTypeOK, NEW c \in Conn, RunCall(c)
  PROVE  /\ shown' \in [Conn -> Display]
         /\ \A d \in Conn \ Mod : shown'[d].calls = <<>>
         /\ \A d \in Conn : Ending(shown'[d]) = Ending(shown[d])
<1>1. shown \in [Conn -> Display] /\ \A d \in Conn \ Mod : shown[d].calls = <<>> BY DEF CopyTypeOK
<1>2. PICK k \in Seq([text : Text, updates : BOOLEAN]) : k = shown[c].calls BY <1>1 DEF Display
<1>3. k # <<>> /\ shown' = [shown EXCEPT ![c] = [text |-> Head(k).text, calls |-> Tail(k)]]
  BY <1>1, <1>2 DEF RunCall
<1>4. c \in Mod BY <1>1, <1>2, <1>3
<1>s. PICK z \in Seq([text : Text, updates : BOOLEAN]) : z = Tail(k) BY <1>2, <1>3, Taken
<1>t. /\ Len(k) \in Nat /\ Len(k) # 0 /\ Len(z) = Len(k) - 1 /\ Head(k) = k[1] /\ 1 \in 1 .. Len(k)
      /\ \A i \in 1 .. Len(z) : z[i] = k[i + 1]
  BY <1>2, <1>3, <1>s, Taken
<1>5. /\ Head(k).text \in Text /\ z \in Seq([text : Text, updates : BOOLEAN])
      /\ z = <<>> => k[Len(k)] = Head(k)
      /\ z # <<>> => z[Len(z)] = k[Len(k)]
  <2>1. Head(k) \in [text : Text, updates : BOOLEAN] BY <1>2, <1>3, Taken
  <2>2. z = <<>> <=> Len(z) = 0 BY <1>s, NonEmpty
  <2>3. QED BY <1>s, <1>t, <2>1, <2>2
<1>6. shown'[c] = [text |-> Head(k).text, calls |-> Tail(k)] /\ \A d \in Conn \ {c} : shown'[d] = shown[d]
  BY <1>1, <1>3
<1>7. Ending(shown'[c]) = Ending(shown[c])
  <2>1. Ending(shown[c]) = k[Len(k)].text BY <1>2, <1>3 DEF Ending
  <2>2. Ending(shown'[c]) = IF Tail(k) = <<>> THEN Head(k).text ELSE Tail(k)[Len(Tail(k))].text
    BY <1>6 DEF Ending
  <2>3. CASE Tail(k) = <<>> BY <1>s, <1>5, <2>1, <2>2, <2>3
  <2>4. CASE Tail(k) # <<>> BY <1>s, <1>5, <2>1, <2>2, <2>4
  <2>5. QED BY <2>3, <2>4
<1>8. shown' \in [Conn -> Display] BY <1>1, <1>3, <1>s, <1>5 DEF Display
<1>9. QED BY <1>1, <1>4, <1>6, <1>7, <1>8

(* Nothing happens, or nothing but that a call is run. *)
Resting ==
  /\ UNCHANGED <<serverVars, streamVars, playerVars, known, mirror, threadVars, acts, history>>
  /\ shown' = shown \/ \E c \in Conn : RunCall(c)

LEMMA RestingKeeps ==
  ASSUME CopyTypeOK, Resting
  PROVE  /\ CopyTypeOK' /\ \A d \in Conn : Ending(shown'[d]) = Ending(shown[d])
<1>1. CASE shown' = shown BY <1>1 DEF Resting, CopyTypeOK
<1>2. ASSUME NEW c \in Conn, RunCall(c)
      PROVE  /\ shown' \in [Conn -> Display] /\ \A d \in Conn \ Mod : shown'[d].calls = <<>>
             /\ \A d \in Conn : Ending(shown'[d]) = Ending(shown[d])
  BY <1>2, RunningShows
<1>3. QED BY <1>1, <1>2 DEF Resting, CopyTypeOK

LEMMA RestingIs ==
  ASSUME (\E c \in Conn : RunCall(c)) \/ UNCHANGED vars
  PROVE  Resting
BY DEF Resting, RunCall, vars, copyVars, streamVars, CopyOnly

(* The rest of what happens. *)
LEMMA RestTyped ==
  ASSUME TypeOK, NEW c \in Conn,
         StopHandling(c) \/ Depart(c) \/ \E id \in Conn : BallArrives(c, id)
  PROVE  TypeOK'
<1> USE DEF serverVars, streamVars, playerVars, copyVars, threadVars, history
<1>0. /\ ServerTypeOK /\ StreamTypeOK /\ PlayerTypeOK /\ CopyTypeOK /\ ThreadTypeOK /\ ActsTypeOK
      /\ up \in [Conn -> Seq(UpMsg)] /\ down \in [Conn -> Seq(DownMsg)]
      /\ met \in [Conn -> SUBSET Conn]
  BY DEF TypeOK, StreamTypeOK
<1>1. PlayerTypeOK' /\ ActsTypeOK'
  BY <1>0 DEF StopHandling, Depart, BallArrives, PlayerTypeOK, ActsTypeOK
<1>2. CASE StopHandling(c)
  <2>1. ServerTypeOK' /\ CopyTypeOK' /\ ThreadTypeOK'
    BY <1>0, <1>2 DEF StopHandling, ServerTypeOK, CopyTypeOK, ThreadTypeOK
  <2>2. PICK e : e = <<>> OBVIOUS
  <2>3. e \in Seq(DownMsg) BY <2>2
  <2>4. down' = [down EXCEPT ![c] = e] /\ UNCHANGED <<up, met>> BY <1>2, <2>2 DEF StopHandling
  <2>5. StreamTypeOK' BY <1>0, <2>3, <2>4 DEF StreamTypeOK
  <2>6. QED BY <1>1, <2>1, <2>5 DEF TypeOK
<1>3. CASE Depart(c)
  <2>1. CopyTypeOK' /\ ThreadTypeOK' BY <1>0, <1>3 DEF Depart, CopyTypeOK, ThreadTypeOK
  <2>2. ServerTypeOK' BY <1>0, <1>3, RecordLeaves, AnnouncementsAssumption DEF ServerTypeOK, Depart
  <2>3. PICK e : e = <<>> OBVIOUS
  <2>4. e \in Seq(UpMsg) BY <2>3
  <2>5. up' = [up EXCEPT ![c] = e] /\ UNCHANGED met BY <1>3, <2>3 DEF Depart
  <2>6. down' \in [Conn -> Seq(DownMsg)]
    BY Tellable, <1>0, <1>3, StreamsTyped DEF Depart, DepartTold
  <2>7. StreamTypeOK' BY <1>0, <2>4, <2>5, <2>6 DEF StreamTypeOK
  <2>8. QED BY <1>1, <2>1, <2>2, <2>7 DEF TypeOK
<1>4. ASSUME NEW id \in Conn, BallArrives(c, id)
      PROVE  TypeOK'
  BY <1>0, <1>4, Changes, ChangedIs, <1>1 DEF BallArrives, ServerTypeOK, StreamTypeOK, ThreadTypeOK,
     CopyTypeOK, TypeOK
<1>5. QED BY <1>2, <1>3, <1>4

LEMMA ConsoleTyped ==
  ASSUME TypeOK, ConsoleToggleCheat \/ ConsoleBulletin
  PROVE  TypeOK'
<1> USE DEF playerVars, copyVars, threadVars, history
<1>0. /\ ServerTypeOK /\ StreamTypeOK /\ PlayerTypeOK /\ CopyTypeOK /\ ThreadTypeOK /\ ActsTypeOK
      /\ up \in [Conn -> Seq(UpMsg)] /\ down \in [Conn -> Seq(DownMsg)]
  BY DEF TypeOK, StreamTypeOK
<1>1. PICK m \in DownMsg : down' = Told(down, online, m) BY ConsoleIs
<1>2. /\ bulletin' \in Text
      /\ \E k \in ActKind : Act(k)
      /\ UNCHANGED <<record, map_names_, up, met, playerVars, copyVars, threadVars, history>>
  BY ConsoleIs
<1>3. down' \in [Conn -> Seq(DownMsg)] BY <1>1 DEF Told, TypeOK, StreamTypeOK
<1>4. StreamTypeOK' BY <1>0, <1>2, <1>3 DEF StreamTypeOK
<1>5. ServerTypeOK' /\ PlayerTypeOK' /\ CopyTypeOK' /\ ThreadTypeOK'
  BY <1>0, <1>2 DEF ServerTypeOK, PlayerTypeOK, CopyTypeOK, ThreadTypeOK
<1>6. ActsTypeOK' BY <1>0, <1>2, ActTyped DEF ActsTypeOK
<1>7. QED BY <1>4, <1>5, <1>6 DEF TypeOK

LEMMA NextTyped == TypeOK /\ [Next]_vars => TypeOK'
<1> SUFFICES ASSUME TypeOK, [Next]_vars PROVE TypeOK' OBVIOUS
<1>1. CASE (\E c \in Conn : RunCall(c)) \/ UNCHANGED vars
  <2>1. Resting BY <1>1, RestingIs
  <2>2. CopyTypeOK' BY <2>1, RestingKeeps DEF TypeOK
  <2>3. QED
    BY <2>1, <2>2 DEF Resting, TypeOK, ServerTypeOK, StreamTypeOK, PlayerTypeOK, ThreadTypeOK, ActsTypeOK,
       serverVars, streamVars, playerVars, threadVars, history
<1>2. QED
  BY <1>1, ActsTyped, ThreadsTyped, ServerTyped, ClientTyped, RestTyped, ConsoleTyped DEF Next

(* The variables hold what they should. *)
THEOREM TypeCorrect == Spec => []TypeOK
<1>1. QED BY InitTyped, NextTyped, PTL DEF Spec

-----------------------------------------------------------------------------
(* The roster and the streams.                                             *)

(* Whom the messages of each kind introduce, take away and need. *)
LEMMA BringsIs ==
  ASSUME NEW m \in DownMsg
  PROVE  /\ m.kind \notin {"PlayerConnected", "LoginAccepted"} => Brings(m) = {}
         /\ m.kind = "PlayerConnected" => Brings(m) = {m.from} /\ Needs(m) = {}
         /\ m.kind = "LoginAccepted" => Brings(m) = DOMAIN m.online /\ Needs(m) = {}
         /\ m.kind # "PlayerDisconnected" => Takes(m) = {}
         /\ m.kind = "PlayerDisconnected" => Takes(m) = {m.from}
         /\ m.kind # "PlayerConnected" => Needs(m) = Mentioned(m)
BY NamesOf DEF Brings, Takes, Needs

(* Messages that need nobody who is not online. *)
LEMMA RosterGrows ==
  ASSUME NEW c, NEW K, NEW on, NEW s \in Seq(DownMsg), NEW w \in Seq(DownMsg), Roster(c, s, K, on),
         \A i \in 1 .. Len(w) : Brings(w[i]) = {} /\ Takes(w[i]) = {} /\ Needs(w[i]) \ {c} \subseteq on
  PROVE  Roster(c, s \o w, K, on)
<1>1. PICK t \in Seq(DownMsg) : t = s \o w BY Joined
<1>2. /\ Len(s) \in Nat /\ Len(w) \in Nat /\ Len(t) = Len(s) + Len(w)
      /\ \A i \in 1 .. Len(s) : t[i] = s[i]
      /\ \A i \in 1 .. Len(t) :
           \/ i \in 1 .. Len(s)
           \/ i - Len(s) \in 1 .. Len(w) /\ t[i] = w[i - Len(s)]
  BY <1>1, Joined
<1>3. \A i \in 1 .. Len(t) : i \notin 1 .. Len(s) =>
        Brings(t[i]) = {} /\ Takes(t[i]) = {} /\ Needs(t[i]) \ {c} \subseteq on
  BY <1>2
<1>4. NeedsMet(c, t, K)
  <2> SUFFICES ASSUME NEW i \in 1 .. Len(t), NEW id \in Needs(t[i]) \ {c}
               PROVE  /\ id \in K \/ \E j \in 1 .. i - 1 : id \in Brings(t[j])
                      /\ \A j \in 1 .. i - 1 : id \notin Takes(t[j])
    BY DEF NeedsMet
  <2>1. CASE i \in 1 .. Len(s)
    <3>1. id \in Needs(s[i]) \ {c} BY <1>2, <2>1
    <3>2. /\ id \in K \/ \E j \in 1 .. i - 1 : id \in Brings(s[j])
          /\ \A j \in 1 .. i - 1 : id \notin Takes(s[j])
      BY <2>1, <3>1 DEF Roster, NeedsMet
    <3>3. \A j \in 1 .. i - 1 : t[j] = s[j] BY <1>2, <2>1
    <3>4. QED BY <3>2, <3>3
  <2>2. CASE i \notin 1 .. Len(s)
    <3>1. id \in on \ {c} BY <1>3, <2>2
    <3>2. /\ id \in K \/ \E j \in 1 .. Len(s) : id \in Brings(s[j])
          /\ \A j \in 1 .. Len(s) : id \notin Takes(s[j])
      BY <3>1 DEF Roster, EndsKnown
    <3>3. 1 .. Len(s) \subseteq 1 .. i - 1 /\ 1 .. i - 1 \subseteq 1 .. Len(t) BY <1>2, <2>2
    <3>4. \A j \in 1 .. i - 1 : id \notin Takes(t[j]) BY <1>2, <1>3, <3>2, <3>3
    <3>5. QED BY <1>2, <3>2, <3>3, <3>4
  <2>3. QED BY <2>1, <2>2
<1>5. EndsKnown(c, t, K, on)
  <2> SUFFICES ASSUME NEW id \in on \ {c}
               PROVE  /\ id \in K \/ \E j \in 1 .. Len(t) : id \in Brings(t[j])
                      /\ \A j \in 1 .. Len(t) : id \notin Takes(t[j])
    BY DEF EndsKnown
  <2>1. /\ id \in K \/ \E j \in 1 .. Len(s) : id \in Brings(s[j])
        /\ \A j \in 1 .. Len(s) : id \notin Takes(s[j])
    BY DEF Roster, EndsKnown
  <2>2. QED BY <1>2, <1>3, <2>1, SMTT(30)
<1>6. Accounted(t, K, on)
  <2>1. \A id \in K : id \in on \/ \E j \in 1 .. Len(t) : id \in Takes(t[j])
    BY <1>2 DEF Roster, Accounted
  <2>2. ASSUME NEW i \in 1 .. Len(t), NEW id \in Brings(t[i])
        PROVE  id \in on \/ \E j \in i + 1 .. Len(t) : id \in Takes(t[j])
    BY <1>2, <1>3, <2>2 DEF Roster, Accounted
  <2>3. QED BY <2>1, <2>2 DEF Accounted
<1>7. Once(c, t, K)
  <2> SUFFICES ASSUME NEW i \in 1 .. Len(t), NEW id \in Brings(t[i]) \ {c}
               PROVE  id \notin K /\ \A j \in 1 .. i - 1 : id \notin Brings(t[j])
    BY DEF Once
  <2>1. i \in 1 .. Len(s) /\ id \in Brings(s[i]) \ {c} BY <1>2, <1>3
  <2>2. id \notin K /\ \A j \in 1 .. i - 1 : id \notin Brings(s[j]) BY <2>1 DEF Roster, Once
  <2>3. QED BY <1>2, <2>1, <2>2
<1>8. QED BY <1>1, <1>4, <1>5, <1>6, <1>7 DEF Roster

(* One message more, whatever it is. *)
LEMMA RosterEnds ==
  ASSUME NEW c, NEW K, NEW on, NEW S, NEW s \in Seq(DownMsg), NEW m \in DownMsg, Roster(c, s, K, on),
         S = (on \cup Brings(m)) \ Takes(m), Brings(m) \cap Takes(m) = {},
         Needs(m) \ {c} \subseteq on, Brings(m) \cap on = {},
         \A j \in 1 .. Len(s) : Takes(s[j]) \cap Brings(m) = {}
  PROVE  Roster(c, Append(s, m), K, S)
<1>1. PICK t \in Seq(DownMsg) : t = Append(s, m) BY Appended
<1>2. /\ Len(s) \in Nat /\ Len(t) = Len(s) + 1 /\ t[Len(s) + 1] = m
      /\ \A i \in 1 .. Len(s) : t[i] = s[i]
      /\ \A i \in 1 .. Len(t) : i \in 1 .. Len(s) \/ i = Len(s) + 1
  BY <1>1, Appended
<1>3. ASSUME NEW id \in on \ {c}
      PROVE  /\ id \in K \/ \E j \in 1 .. Len(s) : id \in Brings(s[j])
             /\ \A j \in 1 .. Len(s) : id \notin Takes(s[j])
  BY DEF Roster, EndsKnown
<1>4. NeedsMet(c, t, K)
  <2> SUFFICES ASSUME NEW i \in 1 .. Len(t), NEW id \in Needs(t[i]) \ {c}
               PROVE  /\ id \in K \/ \E j \in 1 .. i - 1 : id \in Brings(t[j])
                      /\ \A j \in 1 .. i - 1 : id \notin Takes(t[j])
    BY DEF NeedsMet
  <2>1. CASE i \in 1 .. Len(s) BY <1>2, <2>1 DEF Roster, NeedsMet
  <2>2. CASE i = Len(s) + 1 BY <1>2, <2>2, <1>3
  <2>3. QED BY <1>2, <2>1, <2>2
<1>5. EndsKnown(c, t, K, S)
  <2> SUFFICES ASSUME NEW id \in S \ {c}
               PROVE  /\ id \in K \/ \E j \in 1 .. Len(t) : id \in Brings(t[j])
                      /\ \A j \in 1 .. Len(t) : id \notin Takes(t[j])
    BY DEF EndsKnown
  <2>1. id \notin Takes(m) /\ (id \in on \/ id \in Brings(m)) OBVIOUS
  <2>2. CASE id \in on BY <1>2, <1>3, <2>1, <2>2
  <2>3. CASE id \in Brings(m) BY <1>2, <2>1, <2>3
  <2>4. QED BY <2>1, <2>2, <2>3
<1>6. Accounted(t, K, S) BY <1>2 DEF Roster, Accounted
<1>7. Once(c, t, K)
  <2> SUFFICES ASSUME NEW i \in 1 .. Len(t), NEW id \in Brings(t[i]) \ {c}
               PROVE  id \notin K /\ \A j \in 1 .. i - 1 : id \notin Brings(t[j])
    BY DEF Once
  <2>1. CASE i \in 1 .. Len(s)
    <3>1. id \notin K /\ \A j \in 1 .. i - 1 : id \notin Brings(s[j]) BY <1>2, <2>1 DEF Roster, Once
    <3>2. QED BY <1>2, <2>1, <3>1
  <2>2. CASE i = Len(s) + 1 BY <1>2, <2>2 DEF Roster, Accounted
  <2>3. QED BY <1>2, <2>1, <2>2
<1>8. QED BY <1>1, <1>4, <1>5, <1>6, <1>7 DEF Roster

(* A list of players sent after what needs and introduces nobody. *)
LEMMA RosterStarts ==
  ASSUME NEW c, NEW s \in Seq(DownMsg), NEW m \in DownMsg, Needs(m) = {}, Takes(m) = {},
         \A i \in 1 .. Len(s) : Brings(s[i]) = {} /\ Takes(s[i]) = {} /\ Needs(s[i]) = {}
  PROVE  Roster(c, s \o <<m>>, {}, Brings(m))
<1>1. PICK t \in Seq(DownMsg) : t = Append(s, m) BY Appended
<1>2. /\ Len(s) \in Nat /\ Len(t) = Len(s) + 1 /\ t[Len(s) + 1] = m /\ t = s \o <<m>>
      /\ \A i \in 1 .. Len(s) : t[i] = s[i]
      /\ \A i \in 1 .. Len(t) : i \in 1 .. Len(s) \/ i = Len(s) + 1
  BY <1>1, Appended
<1>3. \A i \in 1 .. Len(t) :
        Takes(t[i]) = {} /\ Needs(t[i]) = {} /\ (i # Len(s) + 1 => Brings(t[i]) = {})
  BY <1>2
<1>4. NeedsMet(c, t, {}) BY <1>3 DEF NeedsMet
<1>5. EndsKnown(c, t, {}, Brings(m))
  <2>1. Len(s) + 1 \in 1 .. Len(t) BY <1>2
  <2>2. QED BY <1>2, <1>3, <2>1 DEF EndsKnown
<1>6. Accounted(t, {}, Brings(m)) BY <1>2, <1>3 DEF Accounted
<1>7. Once(c, t, {})
  <2>1. ASSUME NEW i \in 1 .. Len(t), NEW id \in Brings(t[i])
        PROVE  \A j \in 1 .. i - 1 : id \notin Brings(t[j])
    <3>1. i = Len(s) + 1 BY <1>3, <2>1
    <3>2. \A j \in 1 .. i - 1 : j \in 1 .. Len(t) /\ j # Len(s) + 1 BY <1>2, <3>1
    <3>3. QED BY <1>3, <3>2
  <2>2. QED BY <2>1 DEF Once
<1>8. QED BY <1>2, <1>4, <1>5, <1>6, <1>7 DEF Roster

(* The first message is handled. *)
LEMMA RosterTaken ==
  ASSUME NEW c, NEW K, NEW L, NEW on, NEW s \in Seq(DownMsg), s # <<>>, Roster(c, s, K, on),
         (K \cup Brings(Head(s))) \ (Takes(Head(s)) \cup {c}) \subseteq L,
         L \subseteq (K \cup Brings(Head(s))) \ Takes(Head(s))
  PROVE  Roster(c, Tail(s), L, on)
<1>1. PICK t \in Seq(DownMsg) : t = Tail(s) BY Taken
<1>2. PICK h \in DownMsg : h = Head(s) BY Taken
<1>3. /\ Len(s) \in Nat \ {0} /\ Len(t) = Len(s) - 1 /\ s[1] = h /\ 1 \in 1 .. Len(s)
      /\ \A i \in 1 .. Len(t) : t[i] = s[i + 1] /\ i + 1 \in 1 .. Len(s)
  BY <1>1, <1>2, Taken
<1>4. \A j \in 2 .. Len(s) : j - 1 \in 1 .. Len(t) /\ s[j] = t[j - 1] BY <1>3
<1>5. /\ (K \cup Brings(h)) \ (Takes(h) \cup {c}) \subseteq L
      /\ L \subseteq (K \cup Brings(h)) \ Takes(h)
  BY <1>2
<1>6. NeedsMet(c, t, L)
  <2> SUFFICES ASSUME NEW i \in 1 .. Len(t), NEW id \in Needs(t[i]) \ {c}
               PROVE  /\ id \in L \/ \E j \in 1 .. i - 1 : id \in Brings(t[j])
                      /\ \A j \in 1 .. i - 1 : id \notin Takes(t[j])
    BY DEF NeedsMet
  <2>1. /\ id \in K \/ \E j \in 1 .. i : id \in Brings(s[j])
        /\ \A j \in 1 .. i : id \notin Takes(s[j])
    <3>1. i + 1 \in 1 .. Len(s) /\ id \in Needs(s[i + 1]) \ {c} /\ i + 1 - 1 = i BY <1>3
    <3>2. QED BY <3>1 DEF Roster, NeedsMet
  <2>2. \A j \in 1 .. i - 1 : id \notin Takes(t[j])
    <3>1. \A j \in 1 .. i - 1 : j \in 1 .. Len(t) /\ j + 1 \in 1 .. i BY <1>3
    <3>2. QED BY <1>3, <2>1, <3>1
  <2>3. id \notin Takes(h)
    <3>1. 1 \in 1 .. i OBVIOUS
    <3>2. QED BY <1>3, <2>1, <3>1
  <2>4. CASE id \in K BY <1>5, <2>2, <2>3, <2>4
  <2>5. ASSUME NEW j \in 1 .. i, id \in Brings(s[j])
        PROVE  id \in L \/ \E q \in 1 .. i - 1 : id \in Brings(t[q])
    BY <1>3, <1>5, <2>3, <2>5, <1>4
  <2>6. QED BY <2>1, <2>2, <2>4, <2>5
<1>7. EndsKnown(c, t, L, on)
  <2> SUFFICES ASSUME NEW id \in on \ {c}
               PROVE  /\ id \in L \/ \E j \in 1 .. Len(t) : id \in Brings(t[j])
                      /\ \A j \in 1 .. Len(t) : id \notin Takes(t[j])
    BY DEF EndsKnown
  <2>1. /\ id \in K \/ \E j \in 1 .. Len(s) : id \in Brings(s[j])
        /\ \A j \in 1 .. Len(s) : id \notin Takes(s[j])
    BY DEF Roster, EndsKnown
  <2>2. id \notin Takes(h) /\ \A j \in 1 .. Len(t) : id \notin Takes(t[j]) BY <1>3, <2>1
  <2>3. CASE id \in K BY <1>5, <2>2, <2>3
  <2>4. ASSUME NEW j \in 1 .. Len(s), id \in Brings(s[j])
        PROVE  id \in L \/ \E q \in 1 .. Len(t) : id \in Brings(t[q])
    <3>1. CASE j = 1 BY <1>3, <1>5, <2>2, <2>4, <3>1
    <3>2. CASE j # 1 BY <1>3, <1>4, <2>4, <3>2
    <3>3. QED BY <3>1, <3>2
  <2>5. QED BY <2>1, <2>2, <2>3, <2>4
<1>8. Accounted(t, L, on)
  <2>1. ASSUME NEW id, id \notin Takes(h), id \in K \/ id \in Brings(h)
        PROVE  id \in on \/ \E j \in 1 .. Len(t) : id \in Takes(t[j])
    <3>1. id \in on \/ \E j \in 1 .. Len(s) : id \in Takes(s[j]) BY <1>3, <2>1 DEF Roster, Accounted
    <3>2. ASSUME NEW j \in 1 .. Len(s), id \in Takes(s[j])
          PROVE  \E q \in 1 .. Len(t) : id \in Takes(t[q])
      <4>1. j # 1 BY <1>3, <2>1, <3>2
      <4>2. QED BY <1>3, <1>4, <3>2, <4>1
    <3>3. QED BY <3>1, <3>2
  <2>2. ASSUME NEW i \in 1 .. Len(t), NEW id \in Brings(t[i])
        PROVE  id \in on \/ \E j \in i + 1 .. Len(t) : id \in Takes(t[j])
    BY <1>3, <2>2, <1>4 DEF Roster, Accounted
  <2>3. QED BY <1>5, <2>1, <2>2 DEF Accounted
<1>9. Once(c, t, L)
  <2> SUFFICES ASSUME NEW i \in 1 .. Len(t), NEW id \in Brings(t[i]) \ {c}
               PROVE  id \notin L /\ \A j \in 1 .. i - 1 : id \notin Brings(t[j])
    BY DEF Once
  <2>1. id \notin K /\ \A j \in 1 .. i : id \notin Brings(s[j])
    <3>1. i + 1 \in 1 .. Len(s) /\ id \in Brings(s[i + 1]) \ {c} /\ i + 1 - 1 = i BY <1>3
    <3>2. ASSUME NEW k \in 1 .. Len(s), id \in Brings(s[k]) \ {c}
          PROVE  id \notin K /\ \A j \in 1 .. k - 1 : id \notin Brings(s[j])
      BY <3>2 DEF Roster, Once
    <3>3. QED BY <3>1, <3>2
  <2>2. \A j \in 1 .. i - 1 : j \in 1 .. Len(t) /\ j + 1 \in 1 .. i BY <1>3
  <2>3. 1 \in 1 .. i OBVIOUS
  <2>4. QED BY <1>3, <1>5, <2>1, <2>2, <2>3
<1>10. QED BY <1>1, <1>6, <1>7, <1>8, <1>9 DEF Roster

-----------------------------------------------------------------------------
(* What streams start with and hold, when something is added or taken.     *)

LEMMA Requests ==
  ASSUME NEW s \in Seq(UpMsg)
  PROVE  /\ \A m \in UpMsg :
              /\ Append(s, m) \in Seq(UpMsg) /\ Len(Append(s, m)) # 0
              /\ NoRequest(s) /\ m.kind # "LoginRequest" => NoRequest(Append(s, m))
              /\ Len(s) = 0 /\ m.kind = "LoginRequest" => Asking(Append(s, m))
              /\ Len(s) # 0 /\ Asking(s) /\ m.kind = "CheatState" => Asking(Append(s, m))
         /\ s # <<>> => /\ NoRequest(s) \/ Asking(s) => NoRequest(Tail(s))
                        /\ NoRequest(s) => Head(s).kind # "LoginRequest"
                        /\ Asking(s) => Head(s).kind = "LoginRequest"
                        /\ Tail(s) \in Seq(UpMsg) /\ Head(s) \in UpMsg
<1>1. ASSUME NEW m \in UpMsg
      PROVE  /\ Append(s, m) \in Seq(UpMsg) /\ Len(Append(s, m)) # 0
             /\ NoRequest(s) /\ m.kind # "LoginRequest" => NoRequest(Append(s, m))
             /\ Len(s) = 0 /\ m.kind = "LoginRequest" => Asking(Append(s, m))
             /\ Len(s) # 0 /\ Asking(s) /\ m.kind = "CheatState" => Asking(Append(s, m))
  <2>1. PICK t \in Seq(UpMsg) : t = Append(s, m) BY Appended
  <2>2. /\ Len(s) \in Nat /\ Len(t) = Len(s) + 1 /\ t[Len(s) + 1] = m
        /\ \A i \in 1 .. Len(s) : t[i] = s[i]
        /\ \A i \in 1 .. Len(t) : i \in 1 .. Len(s) \/ i = Len(s) + 1
    BY <2>1, Appended
  <2>3. QED BY <2>1, <2>2 DEF NoRequest, Asking
<1>2. ASSUME s # <<>>
      PROVE  /\ NoRequest(s) \/ Asking(s) => NoRequest(Tail(s))
             /\ NoRequest(s) => Head(s).kind # "LoginRequest"
             /\ Asking(s) => Head(s).kind = "LoginRequest"
             /\ Tail(s) \in Seq(UpMsg) /\ Head(s) \in UpMsg
  <2>1. PICK t \in Seq(UpMsg) : t = Tail(s) BY <1>2, Taken
  <2>2. PICK h \in UpMsg : h = Head(s) BY <1>2, Taken
  <2>3. /\ Len(s) \in Nat \ {0} /\ Len(t) = Len(s) - 1 /\ s[1] = h /\ 1 \in 1 .. Len(s)
        /\ \A i \in 1 .. Len(t) : t[i] = s[i + 1] /\ i + 1 \in 1 .. Len(s)
    BY <1>2, <2>1, <2>2, Taken
  <2>4. /\ NoRequest(s) => h.kind # "LoginRequest"
        /\ Asking(s) => h.kind = "LoginRequest"
    BY <2>3 DEF NoRequest, Asking
  <2>5. NoRequest(s) \/ Asking(s) => NoRequest(t) BY <2>3 DEF NoRequest, Asking
  <2>6. QED BY <2>1, <2>2, <2>4, <2>5
<1>3. QED BY <1>1, <1>2

LEMMA Lists ==
  ASSUME NEW s \in Seq(DownMsg)
  PROVE  /\ \A w \in Seq(DownMsg) : NoList(w) =>
              /\ NoList(s) => NoList(s \o w)
              /\ ListOnce(s) => ListOnce(s \o w)
         /\ s # <<>> =>
              /\ NoList(s) => NoList(Tail(s)) /\ Head(s).kind # "LoginAccepted"
              /\ ListOnce(s) => \/ Head(s).kind = "LoginAccepted" /\ NoList(Tail(s))
                                \/ Head(s).kind = "MapNames" /\ ListOnce(Tail(s))
<1>1. ASSUME NEW w \in Seq(DownMsg), NoList(w)
      PROVE  /\ NoList(s) => NoList(s \o w)
             /\ ListOnce(s) => ListOnce(s \o w)
  <2>1. PICK t \in Seq(DownMsg) : t = s \o w BY Joined
  <2>2. /\ Len(s) \in Nat /\ Len(w) \in Nat /\ Len(t) = Len(s) + Len(w)
        /\ \A i \in 1 .. Len(s) : t[i] = s[i]
        /\ \A i \in 1 .. Len(t) :
             \/ i \in 1 .. Len(s)
             \/ i - Len(s) \in 1 .. Len(w) /\ t[i] = w[i - Len(s)]
    BY <2>1, Joined
  <2>3. NoList(s) => NoList(t) BY <1>1, <2>2 DEF NoList
  <2>4. ASSUME NEW i \in 1 .. Len(s), s[i].kind = "LoginAccepted",
               \A j \in 1 .. i - 1 : s[j].kind = "MapNames",
               \A j \in i + 1 .. Len(s) : s[j].kind # "LoginAccepted"
        PROVE  ListOnce(t)
    <3>1. i \in 1 .. Len(t) /\ t[i].kind = "LoginAccepted" BY <2>2, <2>4
    <3>2. \A j \in 1 .. i - 1 : t[j].kind = "MapNames" BY <2>2, <2>4, SMTT(30)
    <3>3. \A j \in i + 1 .. Len(t) : t[j].kind # "LoginAccepted"
      BY <1>1, <2>2, <2>4, SMTT(30) DEF NoList
    <3>4. QED BY <3>1, <3>2, <3>3 DEF ListOnce
  <2>5. QED BY <2>1, <2>3, <2>4 DEF ListOnce
<1>2. ASSUME s # <<>>
      PROVE  /\ NoList(s) => NoList(Tail(s)) /\ Head(s).kind # "LoginAccepted"
             /\ ListOnce(s) => \/ Head(s).kind = "LoginAccepted" /\ NoList(Tail(s))
                               \/ Head(s).kind = "MapNames" /\ ListOnce(Tail(s))
  <2>1. PICK t \in Seq(DownMsg) : t = Tail(s) BY <1>2, Taken
  <2>2. PICK h \in DownMsg : h = Head(s) BY <1>2, Taken
  <2>3. /\ Len(s) \in Nat \ {0} /\ Len(t) = Len(s) - 1 /\ s[1] = h /\ 1 \in 1 .. Len(s)
        /\ \A i \in 1 .. Len(t) : t[i] = s[i + 1] /\ i + 1 \in 1 .. Len(s)
    BY <1>2, <2>1, <2>2, Taken
  <2>4. NoList(s) => NoList(t) /\ h.kind # "LoginAccepted" BY <2>3 DEF NoList
  <2>5. ASSUME NEW i \in 1 .. Len(s), s[i].kind = "LoginAccepted",
               \A j \in 1 .. i - 1 : s[j].kind = "MapNames",
               \A j \in i + 1 .. Len(s) : s[j].kind # "LoginAccepted"
        PROVE  \/ h.kind = "LoginAccepted" /\ NoList(t)
               \/ h.kind = "MapNames" /\ ListOnce(t)
    <3>1. CASE i = 1 BY <2>3, <3>1, <2>5 DEF NoList
    <3>2. CASE i # 1
      <4>1. i - 1 \in 1 .. Len(t) /\ 1 \in 1 .. i - 1 BY <2>3, <3>2
      <4>2. h.kind = "MapNames" /\ t[i - 1].kind = "LoginAccepted" BY <2>3, <2>5, <4>1
      <4>3. \A j \in 1 .. i - 1 - 1 : j \in 1 .. Len(t) /\ j + 1 \in 1 .. i - 1 BY <2>3
      <4>4. \A j \in i - 1 + 1 .. Len(t) : j \in 1 .. Len(t) /\ j + 1 \in i + 1 .. Len(s) BY <2>3
      <4>5. \A j \in 1 .. i - 1 - 1 : t[j].kind = "MapNames" BY <2>3, <2>5, <4>3
      <4>6. \A j \in i - 1 + 1 .. Len(t) : t[j].kind # "LoginAccepted" BY <2>3, <2>5, <4>4
      <4>7. QED BY <4>1, <4>2, <4>5, <4>6 DEF ListOnce
    <3>3. QED BY <3>1, <3>2
  <2>6. QED BY <2>1, <2>2, <2>4, <2>5 DEF ListOnce
<1>3. QED BY <1>1, <1>2

(* A list with nothing but names before it and no other list after it. *)
LEMMA ListSent ==
  ASSUME NEW a \in Seq(DownMsg), NEW m \in DownMsg, m.kind = "LoginAccepted",
         \A i \in 1 .. Len(a) : a[i].kind = "MapNames"
  PROVE  ListOnce(a \o <<m>>)
<1>1. PICK t \in Seq(DownMsg) : t = Append(a, m) BY Appended
<1>2. /\ Len(a) \in Nat /\ Len(t) = Len(a) + 1 /\ t[Len(a) + 1] = m /\ t = a \o <<m>>
      /\ \A i \in 1 .. Len(a) : t[i] = a[i]
  BY <1>1, Appended
<1>3. Len(a) + 1 \in 1 .. Len(t) /\ t[Len(a) + 1].kind = "LoginAccepted" BY <1>2
<1>4. \A j \in 1 .. Len(a) + 1 - 1 : t[j].kind = "MapNames" BY <1>2
<1>5. \A j \in Len(a) + 1 + 1 .. Len(t) : t[j].kind # "LoginAccepted" BY <1>2
<1>6. QED BY <1>2, <1>3, <1>4, <1>5 DEF ListOnce

LEMMA ReportsKept ==
  ASSUME NEW s \in Seq(DownMsg), NEW P, NEW Q, P \subseteq Q
  PROVE  /\ Reports(s, P) => Reports(s, Q)
         /\ \A w \in Seq(DownMsg) : Reports(s, P) /\ Reports(w, Q) => Reports(s \o w, Q)
         /\ s # <<>> /\ Reports(s, P) => Reports(Tail(s), Q) /\ Takes(Head(s)) \subseteq Q
<1>1. Reports(s, P) => Reports(s, Q) BY DEF Reports
<1>2. ASSUME NEW w \in Seq(DownMsg), Reports(s, P), Reports(w, Q)
      PROVE  Reports(s \o w, Q)
  <2>1. PICK t \in Seq(DownMsg) : t = s \o w BY Joined
  <2>2. /\ \A i \in 1 .. Len(s) : t[i] = s[i]
        /\ \A i \in 1 .. Len(t) :
             \/ i \in 1 .. Len(s)
             \/ i - Len(s) \in 1 .. Len(w) /\ t[i] = w[i - Len(s)]
    BY <2>1, Joined
  <2>3. Reports(t, Q) BY <1>2, <2>2 DEF Reports
  <2>4. QED BY <2>1, <2>3
<1>3. ASSUME s # <<>>, Reports(s, P)
      PROVE  Reports(Tail(s), Q) /\ Takes(Head(s)) \subseteq Q
  <2>1. PICK t \in Seq(DownMsg) : t = Tail(s) BY <1>3, Taken
  <2>2. /\ Head(s) = s[1] /\ 1 \in 1 .. Len(s)
        /\ \A i \in 1 .. Len(t) : t[i] = s[i + 1] /\ i + 1 \in 1 .. Len(s)
    BY <1>3, <2>1, Taken
  <2>3. Reports(t, Q) BY <1>3, <2>2 DEF Reports
  <2>4. QED BY <1>3, <2>1, <2>2, <2>3 DEF Reports
<1>4. QED BY <1>1, <1>2, <1>3

-----------------------------------------------------------------------------
(* What players and threads do.                                            *)

(* What the game thread sends when a level is loaded. *)
LEMMA EnteringIs ==
  ASSUME NEW c, NEW s \in Sector, NEW m, NEW n, NEW z \in Seq(UpMsg), m \in UpMsg, n \in UpMsg,
         n = CurrentMap([place[c] EXCEPT !.sector = s], "EnteringMap"), m = CurrentSector(s)
  PROVE  \/ s = place[c].sector /\ z \o Entering(c, s) = Append(z, n)
         \/ s # place[c].sector /\ z \o Entering(c, s) = Append(Append(z, m), n)
<1>1. Entering(c, s) = (IF s = place[c].sector THEN <<>> ELSE <<m>>) \o <<n>>
  BY DEF Entering, NewSector
<1>2. <<>> \o <<n>> = <<n>> OBVIOUS
<1>4. z \o <<n>> = Append(z, n) BY Appended
<1>5. z \o (<<m>> \o <<n>>) = Append(Append(z, m), n)
  <2>1. z \o (<<m>> \o <<n>>) = (z \o <<m>>) \o <<n>>
    <3>1. PICK a, b : a = <<m>> /\ b = <<n>> OBVIOUS
    <3>2. a \in Seq(UpMsg) /\ b \in Seq(UpMsg) BY <3>1
    <3>3. z \o (a \o b) = (z \o a) \o b BY <3>2, ConcatAssociative, SMTT(30)
    <3>4. QED BY <3>1, <3>3
  <2>2. z \o <<m>> = Append(z, m) /\ Append(z, m) \in Seq(UpMsg) BY Appended
  <2>3. Append(z, m) \o <<n>> = Append(Append(z, m), n) BY <2>2, Appended
  <2>4. QED BY <2>1, <2>2, <2>3
<1>6. CASE s = place[c].sector BY <1>1, <1>2, <1>4, <1>6, Zenon
<1>7. CASE s # place[c].sector BY <1>1, <1>5, <1>7, Zenon
<1>8. QED BY <1>6, <1>7

(* What fits the session c is in. *)
Fits(c, m) ==
  /\ status[c] # "left"
  /\ (status[c] = "out") <=> (m.kind = "LoginRequest")
  /\ status[c] = "joining" => m.kind = "CheatState"
SendsOne(c, m) == Fits(c, m) /\ up' = [up EXCEPT ![c] = Append(@, m)]
SendsTwo(c, m, n) ==
  /\ status[c] = "in" /\ Fits(c, m) /\ Fits(c, n)
  /\ up' = [up EXCEPT ![c] = Append(Append(@, m), n)]
Moves(c) ==
  \/ status' = status /\ up' = up
  \/ status' = status /\ status[c] # "out" /\ \E m \in UpMsg : SendsOne(c, m)
  \/ status' = status /\ \E m, n \in UpMsg : SendsTwo(c, m, n)
  \/ /\ status[c] = "out" /\ status' = [status EXCEPT ![c] = "joining"]
     /\ \E m \in UpMsg : SendsOne(c, m)
  \/ /\ status[c] \in {"joining", "in"} /\ status' = [status EXCEPT ![c] = "left"]
     /\ game' = [game EXCEPT ![c] = "idle"] /\ up' = up

LEMMA ActsMove ==
  ASSUME TypeOK, NEW c \in Conn, Acts(c)
  PROVE  Moves(c)
<1>0. /\ \A x \in BOOLEAN : LoginRequest(x).kind = "LoginRequest" /\ CheatState(x).kind = "CheatState"
      /\ \A s : CurrentSector(s).kind = "CurrentSector" /\ MapNames(s).kind = "MapNames"
      /\ \A p, t : CurrentMap(p, t).kind = "CurrentMap"
      /\ up \in [Conn -> Seq(UpMsg)] /\ up[c] \in Seq(UpMsg) /\ cheat[c] \in BOOLEAN
      /\ place[c] \in Where
  BY DEF LoginRequest, CheatState, CurrentSector, MapNames, CurrentMap, TypeOK, StreamTypeOK, PlayerTypeOK
<1>1. CASE Connect(c)
  <2>1. PICK m : m = LoginRequest(c \in Mod \ Spectator /\ cheat[c]) OBVIOUS
  <2>2. m \in UpMsg /\ m.kind = "LoginRequest" BY <1>0, <2>1, Sendable
  <2>3. SendsOne(c, m) /\ status[c] = "out" /\ status' = [status EXCEPT ![c] = "joining"]
    BY <1>1, <2>1, <2>2 DEF Connect, Sends, SendsOne, Fits
  <2>4. QED BY <2>2, <2>3 DEF Moves
<1>2. CASE ToggleOwnCheat(c)
  <2>1. PICK m : m = CheatState(~ cheat[c]) OBVIOUS
  <2>2. (~ cheat[c]) \in BOOLEAN OBVIOUS
  <2>3. m \in UpMsg /\ m.kind = "CheatState" BY <1>0, <2>1, <2>2, Sendable
  <2>4. status' = status /\ (up' = up \/ (status[c] # "out" /\ SendsOne(c, m)))
    BY <1>2, <2>1, <2>3 DEF ToggleOwnCheat, Tells, SendsOne, Fits, playerVars
  <2>5. QED BY <2>3, <2>4 DEF Moves
<1>3. CASE \/ ToggleCheats(c) \/ SetBulletin(c) \/ Say(c) \/ Notify(c) \/ QueryScores(c) \/ Address(c)
  BY EntriesAre, <1>3, Sendable DEF TypeOK, CopyTypeOK, ToggleCheats, SetBulletin, Say, Notify,
     QueryScores, Address, CheatToggle, Bulletin, Said, Important, ScoreList, Whispered, RestartRequest,
     playerVars, Moves, SendsOne, Fits, Sends
<1>4. CASE AnnounceMap(c)
  <2>1. PICK m : m = CurrentMap(place[c], "Announcement") OBVIOUS
  <2>2. m \in UpMsg /\ m.kind = "CurrentMap" BY <1>0, <2>1, Sendable
  <2>3. status' = status /\ status[c] # "out" /\ SendsOne(c, m)
    BY <1>4, <2>1, <2>2 DEF AnnounceMap, Sends, SendsOne, Fits, playerVars
  <2>4. QED BY <2>2, <2>3 DEF Moves
<1>5. CASE ChangeSector(c)
  <2>1. PICK s \in Sector : IF status[c] = "in" THEN Sends(c, CurrentSector(s)) ELSE UNCHANGED up
    BY <1>5 DEF ChangeSector
  <2>2. PICK m : m = CurrentSector(s) OBVIOUS
  <2>3. m \in UpMsg /\ m.kind = "CurrentSector" BY <1>0, <2>2, Sendable
  <2>4. status' = status /\ (up' = up \/ (status[c] # "out" /\ SendsOne(c, m)))
    BY <1>5, <2>1, <2>2, <2>3 DEF ChangeSector, Sends, SendsOne, Fits
  <2>5. QED BY <2>3, <2>4 DEF Moves
<1>6. CASE SetMap(c)
  <2>1. PICK x \in Map, withName \in BOOLEAN :
          up' = [up EXCEPT ![c] = (IF withName THEN Append(@, MapNames({x})) ELSE @)
                                  \o <<CurrentMap([map |-> x, sector |-> 0], "EnteringMap")>>]
    BY <1>6 DEF SetMap
  <2>2. PICK m, n : m = MapNames({x}) /\ n = CurrentMap([map |-> x, sector |-> 0], "EnteringMap")
    OBVIOUS
  <2>3. m \in UpMsg /\ m.kind = "MapNames" /\ n \in UpMsg /\ n.kind = "CurrentMap"
    BY AnnouncementsAssumption, <1>0, <2>2, Sendable, ZenonT(60) DEF Where
  <2>4. up[c] \o <<n>> = Append(up[c], n) /\ Append(up[c], m) \o <<n>> = Append(Append(up[c], m), n)
    BY <1>0, <2>3, Appended
  <2>5. \/ up' = [up EXCEPT ![c] = @ \o <<n>>]
        \/ up' = [up EXCEPT ![c] = Append(@, m) \o <<n>>]
    BY <2>1, <2>2
  <2>6. \/ up' = [up EXCEPT ![c] = Append(@, n)]
        \/ up' = [up EXCEPT ![c] = Append(Append(@, m), n)]
    BY <2>4, <2>5
  <2>7. status' = status /\ status[c] = "in" BY <1>6 DEF SetMap
  <2>8. SendsOne(c, n) \/ SendsTwo(c, m, n) BY <2>3, <2>6, <2>7 DEF SendsOne, SendsTwo, Fits
  <2>9. QED BY <2>3, <2>7, <2>8 DEF Moves
<1>7. CASE LoadLevel(c) BY <1>7 DEF LoadLevel, Moves, streamVars
<1>8. CASE Leave(c) \/ EndGame(c) BY <1>8 DEF Leave, EndGame, GoesOffline, Moves, streamVars
<1>9. QED BY <1>1, <1>2, <1>3, <1>4, <1>5, <1>6, <1>7, <1>8 DEF Acts

LEMMA ThreadsMove ==
  ASSUME TypeOK, NEW c \in Conn, InSession(c), Threads(c)
  PROVE  Moves(c) /\ status' = status
<1>0. /\ \A s : CurrentSector(s).kind = "CurrentSector" /\ MapNames(s).kind = "MapNames"
      /\ \A p, t : CurrentMap(p, t).kind = "CurrentMap"
      /\ HashData.kind = "HashData"
      /\ up \in [Conn -> Seq(UpMsg)] /\ up[c] \in Seq(UpMsg)
      /\ place[c] \in Where /\ carried[c] \in Where
      /\ game[c] # "idle" => place[c].map \in Map
      /\ place[c].map # NoMap => place[c].map \in Map
  BY DEF HashData, CurrentSector, MapNames, CurrentMap, TypeOK, StreamTypeOK, PlayerTypeOK, ThreadTypeOK, Where
<1>1. status' = status
  BY DEF Threads, EnterName, SendName, SendPlace, NetSendsName, Assemble, NetSendsMap, playerVars
<1>2. CASE EnterName(c) \/ Assemble(c) BY <1>1, <1>2 DEF EnterName, Assemble, Moves, streamVars
<1>3. CASE SendName(c) \/ NetSendsName(c)
  <2>1. PICK m : m = MapNames({place[c].map}) OBVIOUS
  <2>2. m.kind = "MapNames" /\ (place[c].map \in Map => m \in UpMsg) BY <1>0, <2>1, Sendable
  <2>3. \/ up' = up
        \/ /\ place[c].map \in Map /\ status[c] = "in"
           /\ up' = [up EXCEPT ![c] = Append(@, m)]
    BY <1>0, <1>3, <2>1 DEF SendName, NetSendsName, Sends, InSession
  <2>4. up' = up \/ (m \in UpMsg /\ status[c] # "out" /\ SendsOne(c, m))
    BY <2>2, <2>3 DEF SendsOne, Fits
  <2>5. QED BY <1>1, <2>4 DEF Moves
<1>4. CASE SendPlace(c)
  <2>1. PICK s \in Sector : up' = [up EXCEPT ![c] = @ \o Entering(c, s)] BY <1>4 DEF SendPlace
  <2>2. PICK n : n = CurrentMap([place[c] EXCEPT !.sector = s], "EnteringMap") OBVIOUS
  <2>3. PICK m : m = CurrentSector(s) OBVIOUS
  <2>4. m \in UpMsg /\ n \in UpMsg /\ m.kind = "CurrentSector" /\ n.kind = "CurrentMap"
    BY <1>0, <2>2, <2>3, Sendable DEF Where
  <2>5. up[c] \o Entering(c, s) = Append(up[c], n) \/ up[c] \o Entering(c, s) = Append(Append(up[c], m), n)
    BY <1>0, <2>2, <2>3, <2>4, EnteringIs
  <2>6. status[c] = "in" BY <1>4 DEF SendPlace, InSession
  <2>7. SendsOne(c, n) \/ SendsTwo(c, m, n) BY <2>1, <2>4, <2>5, <2>6 DEF SendsOne, SendsTwo, Fits
  <2>8. QED BY <1>1, <2>4, <2>6, <2>7 DEF Moves
<1>5. CASE NetSendsMap(c)
  <2>1. PICK m : m = CurrentMap(carried[c], "EnteringMap") OBVIOUS
  <2>2. m \in UpMsg /\ HashData \in UpMsg /\ m.kind = "CurrentMap" BY <1>0, <2>1, Sendable
  <2>3. up' = up \/ (status[c] = "in" /\ SendsOne(c, m)) \/ SendsTwo(c, m, HashData)
    BY <1>0, <1>5, <2>1, <2>2, MapSent DEF SendsOne, SendsTwo, Fits
  <2>4. QED BY <1>1, <2>2, <2>3 DEF Moves
<1>6. QED BY <1>1, <1>2, <1>3, <1>4, <1>5 DEF Threads

-----------------------------------------------------------------------------
(* Sessions.                                                               *)

LEMMA InitSessions == Init => Sessions
<1> SUFFICES ASSUME Init PROVE Sessions OBVIOUS
<1>1. PICK e : e = <<>> OBVIOUS
<1>2. Len(e) = 0 /\ DOMAIN e = {} BY <1>1, Nobody
<1>3. \A c \in Conn : up[c] = e /\ down[c] = e BY <1>1 DEF Init
<1>4. \A c \in Conn : status[c] = "out" /\ known[c] = {} /\ Ending(shown[c]) = ""
        /\ game[c] = "idle" /\ net[c] = "poll" /\ c \notin crashed
  BY DEF Init, Ending
<1>5. \A c \in Conn : c \notin online BY <1>1, <1>2 DEF Init, online
<1>6. Asking(e) /\ \A P : Reports(e, P) BY <1>2 DEF Asking, Reports
<1>7. \A c \in Conn : Requested(c) BY <1>2, <1>3, <1>4, <1>5, <1>6 DEF Requested, Stage
<1>8. \A c \in Conn : InSession(c) /\ Greeted(c) BY <1>4 DEF InSession, Greeted
<1>9. GoneForGood BY <1>3, <1>6 DEF GoneForGood
<1>10. QED BY <1>7, <1>8, <1>9 DEF Sessions

(* What players and threads leave alone. *)
LEMMA MoveFrame ==
  ASSUME TypeOK, NEW c \in Conn, Acts(c) \/ Threads(c)
  PROVE  /\ UNCHANGED <<record, map_names_, bulletin, down, met, crashed>>
         /\ \A d \in Conn \ {c} :
              /\ status'[d] = status[d] /\ up'[d] = up[d] /\ known'[d] = known[d] /\ shown'[d] = shown[d]
              /\ mirror'[d] = mirror[d] /\ game'[d] = game[d] /\ net'[d] = net[d]
              /\ place'[d] = place[d] /\ carried'[d] = carried[d] /\ cheat'[d] = cheat[d]
         /\ overtaken' \ {c} = overtaken \ {c} /\ nameless' \ {c} = nameless \ {c}
         /\ untold' \ {c} = untold \ {c}
<1> USE DEF serverVars, streamVars, playerVars, copyVars, threadVars, history
<1>1. UNCHANGED <<record, map_names_, bulletin, down, met, crashed>>
  BY DEF Acts, Connect, ToggleOwnCheat, ToggleCheats, SetBulletin, Say, Notify, QueryScores, Address,
         AnnounceMap, ChangeSector, SetMap, LoadLevel, Leave, EndGame, GoesOffline,
         Threads, EnterName, SendName, SendPlace, NetSendsName, Assemble, NetSendsMap
<1>2. /\ status \in [Conn -> {"out", "joining", "in", "left"}] /\ cheat \in [Conn -> BOOLEAN]
      /\ place \in [Conn -> Where] /\ known \in [Conn -> SUBSET Map] /\ shown \in [Conn -> Display]
      /\ mirror \in [Conn -> Entries] /\ carried \in [Conn -> Where]
      /\ game \in [Conn -> {"idle", "loaded", "name", "sector"}]
      /\ net \in [Conn -> {"poll", "logged in", "named", "assembled"}]
      /\ up \in [Conn -> Seq(UpMsg)]
  BY DEF TypeOK, PlayerTypeOK, CopyTypeOK, ThreadTypeOK, StreamTypeOK
<1>3. \A f, d : d \in Conn \ {c} => OwnChanged(c, f)[d] = mirror[d] BY <1>2 DEF OwnChanged, Changed
<1>4. /\ overtaken' \ {c} = overtaken \ {c} /\ nameless' \ {c} = nameless \ {c}
      /\ untold' \ {c} = untold \ {c}
  BY DEF Acts, Connect, ToggleOwnCheat, ToggleCheats, SetBulletin, Say, Notify, QueryScores, Address,
         AnnounceMap, ChangeSector, SetMap, LoadLevel, Leave, EndGame, GoesOffline,
         Threads, EnterName, SendName, SendPlace, NetSendsName, Assemble, NetSendsMap
<1>5. ASSUME NEW d \in Conn \ {c}
      PROVE  /\ status'[d] = status[d] /\ up'[d] = up[d] /\ known'[d] = known[d]
             /\ shown'[d] = shown[d] /\ mirror'[d] = mirror[d] /\ game'[d] = game[d]
             /\ net'[d] = net[d] /\ place'[d] = place[d] /\ carried'[d] = carried[d]
             /\ cheat'[d] = cheat[d]
  <2>1. CASE Threads(c)
    BY <1>2, <2>1, ZenonT(60)
       DEF Threads, EnterName, SendName, SendPlace, NetSendsName, Assemble, NetSendsMap, Sends
  <2>2. CASE \/ Connect(c) \/ ToggleOwnCheat(c) \/ ToggleCheats(c) \/ SetBulletin(c) \/ Say(c)
             \/ Notify(c) \/ QueryScores(c) \/ Address(c) \/ AnnounceMap(c)
    BY <1>2, <2>2
       DEF Connect, ToggleOwnCheat, ToggleCheats, SetBulletin, Say, Notify, QueryScores, Address,
           AnnounceMap, Sends
  <2>3. CASE ChangeSector(c)
    <3>1. PICK s \in Sector : mirror' = OwnChanged(c, [sector |-> s]) BY <2>3 DEF ChangeSector
    <3>2. PICK f : f = [sector |-> s] OBVIOUS
    <3>3. mirror'[d] = mirror[d] BY <1>3, <3>1, <3>2
    <3>4. QED BY <1>2, <2>3, <3>3 DEF ChangeSector, Sends
  <2>4. CASE SetMap(c)
    <3>1. PICK x \in Map : mirror' = OwnChanged(c, [map |-> x]) BY <2>4 DEF SetMap
    <3>2. PICK f : f = [map |-> x] OBVIOUS
    <3>3. mirror'[d] = mirror[d] BY <1>3, <3>1, <3>2
    <3>4. place'[d] = place[d] BY <2>4, <1>2 DEF SetMap
    <3>5. known'[d] = known[d]
      <4>1. known' = known \/ \E k : known' = [known EXCEPT ![c] = k] BY <2>4 DEF SetMap
      <4>2. QED BY <1>2, <4>1
    <3>6. up'[d] = up[d] BY <2>4, <1>2 DEF SetMap
    <3>7. UNCHANGED <<status, shown, game, net, carried, cheat>> BY <2>4 DEF SetMap, threadVars
    <3>8. QED BY <3>3, <3>4, <3>5, <3>6, <3>7
  <2>5. CASE LoadLevel(c) BY <1>2, <2>5 DEF LoadLevel
  <2>6. CASE GoesOffline(c)
    <3>1. PICK e : e = <<>> OBVIOUS
    <3>2. \/ UNCHANGED copyVars
          \/ /\ mirror' = [mirror EXCEPT ![c] = e] /\ known' = [known EXCEPT ![c] = {}]
             /\ shown' = [shown EXCEPT ![c].text = ""]
      BY <2>6, <3>1 DEF GoesOffline
    <3>3. mirror'[d] = mirror[d] /\ known'[d] = known[d] /\ shown'[d] = shown[d] BY <1>2, <3>2
    <3>4. /\ status'[d] = status[d] /\ game'[d] = game[d]
          /\ UNCHANGED <<up, cheat, place, net, carried>>
      BY <1>2, <2>6 DEF GoesOffline
    <3>5. QED BY <3>3, <3>4
  <2>7. QED BY <2>1, <2>2, <2>3, <2>4, <2>5, <2>6 DEF Acts, Leave, EndGame
<1>6. QED BY <1>1, <1>4, <1>5

LEMMA MoveSessions ==
  ASSUME TypeOK, Sessions, NEW c \in Conn, Acts(c) \/ Threads(c)
  PROVE  Sessions'
<1> USE DEF online
<1>1. Moves(c) /\ Requested(c) /\ InSession(c) /\ Greeted(c) BY ActsMove, ThreadsMove DEF Sessions
<1>2. /\ UNCHANGED <<record, down, crashed>>
      /\ \A d \in Conn \ {c} :
           /\ status'[d] = status[d] /\ up'[d] = up[d] /\ known'[d] = known[d] /\ shown'[d] = shown[d]
           /\ game'[d] = game[d] /\ net'[d] = net[d]
  BY MoveFrame
<1>3. /\ status \in [Conn -> {"out", "joining", "in", "left"}]
      /\ game \in [Conn -> {"idle", "loaded", "name", "sector"}]
      /\ net \in [Conn -> {"poll", "logged in", "named", "assembled"}]
      /\ up \in [Conn -> Seq(UpMsg)] /\ up[c] \in Seq(UpMsg) /\ down \in [Conn -> Seq(DownMsg)]
  BY DEF TypeOK, PlayerTypeOK, ThreadTypeOK, StreamTypeOK
<1>4. ASSUME NEW d \in Conn \ {c}
      PROVE  Requested(d)' /\ InSession(d)' /\ Greeted(d)'
  BY <1>2 DEF Sessions, Requested, InSession, Greeted
<1>5. \/ UNCHANGED <<known, shown>>
      \/ c \in online
      \/ status'[c] = "left"
  <2>1. status[c] = "in" \/ net[c] # "poll" => c \in online \/ status'[c] = "left"
    BY <1>1, <1>3 DEF Requested, InSession, Moves, Stage
  <2>2. CASE Acts(c)
    BY <1>1, <1>3, <2>1, <2>2
       DEF Acts, Connect, ToggleOwnCheat, ToggleCheats, SetBulletin, Say, Notify, QueryScores,
           Address, AnnounceMap, ChangeSector, SetMap, LoadLevel, Leave, EndGame, GoesOffline, copyVars
  <2>3. CASE Threads(c)
    BY <2>1, <2>3
       DEF Threads, EnterName, SendName, SendPlace, NetSendsName, Assemble, NetSendsMap, copyVars
  <2>4. QED BY <2>2, <2>3
<1>6. Requested(c)'
  <2>1. Stage(status[c], c \in online, up[c]) BY <1>1 DEF Requested
  <2>2. Stage(status'[c], c \in online, up'[c])
    <3>1. CASE status' = status /\ up' = up BY <2>1, <3>1
    <3>2. ASSUME NEW m \in UpMsg, SendsOne(c, m), status[c] # "out", status' = status
          PROVE  Stage(status'[c], c \in online, up'[c])
      <4>1. up'[c] = Append(up[c], m) /\ Fits(c, m) BY <1>3, <3>2 DEF SendsOne
      <4>2. CASE c \in online
        <5>1. NoRequest(up[c]) BY <2>1, <4>2 DEF Stage
        <5>2. NoRequest(up'[c]) BY <1>3, <3>2, <4>1, <5>1, Requests DEF Fits
        <5>3. QED BY <3>2, <4>2, <5>2 DEF Stage
      <4>3. CASE c \notin online
        <5>1. Asking(up[c]) /\ status[c] # "in" /\ (status[c] = "joining" => Len(up[c]) # 0)
          BY <2>1, <4>3 DEF Stage
        <5>2. status[c] = "joining" /\ m.kind = "CheatState" BY <1>3, <3>2, <4>1, <5>1 DEF Fits
        <5>3. Asking(up'[c]) /\ Len(up'[c]) # 0
          <6>1. PICK s \in Seq(UpMsg) : s = up[c] BY <1>3
          <6>2. Asking(Append(s, m)) /\ Len(Append(s, m)) # 0 BY <5>1, <5>2, <6>1, Requests
          <6>3. QED BY <4>1, <6>1, <6>2, Zenon
        <5>4. QED BY <3>2, <4>3, <5>2, <5>3 DEF Stage
      <4>4. QED BY <4>2, <4>3
    <3>3. ASSUME NEW m \in UpMsg, NEW n \in UpMsg, SendsTwo(c, m, n), status' = status
          PROVE  Stage(status'[c], c \in online, up'[c])
      BY <1>3, <3>3, Requests, <2>1 DEF SendsTwo, Stage, Fits
    <3>4. ASSUME NEW m \in UpMsg, SendsOne(c, m), status[c] = "out", status'[c] = "joining"
          PROVE  Stage(status'[c], c \in online, up'[c])
      <4>1. up'[c] = Append(up[c], m) /\ Fits(c, m) BY <1>3, <3>4 DEF SendsOne
      <4>2. Len(up[c]) = 0 /\ c \notin online /\ m.kind = "LoginRequest"
        BY <2>1, <3>4, <4>1 DEF Fits, Stage
      <4>3. Asking(up'[c]) /\ Len(up'[c]) # 0
        <5>1. PICK s \in Seq(UpMsg) : s = up[c] BY <1>3
        <5>2. Asking(Append(s, m)) /\ Len(Append(s, m)) # 0 BY <4>2, <5>1, Requests
        <5>3. QED BY <4>1, <5>1, <5>2, Zenon
      <4>4. QED BY <3>4, <4>2, <4>3 DEF Stage
    <3>5. CASE status[c] \in {"joining", "in"} /\ status'[c] = "left" /\ up' = up
      BY <2>1, <3>5 DEF Stage
    <3>6. QED BY <1>1, <1>3, <3>1, <3>2, <3>3, <3>4, <3>5 DEF Moves
  <2>3. status[c] = "left" => status'[c] = "left" BY <1>1, <1>3 DEF Moves
  <2>4. QED BY <1>1, <1>2, <1>5, <2>2, <2>3 DEF Requested
<1>7. InSession(c)'
  BY <1>1, <1>3, <1>2 DEF Acts, Connect, ToggleOwnCheat, ToggleCheats, SetBulletin, Say, Notify,
     QueryScores, Address, AnnounceMap, ChangeSector, SetMap, LoadLevel, Leave, EndGame, GoesOffline, threadVars, Threads,
     EnterName, SendName, SendPlace, NetSendsName, Assemble, NetSendsMap, InSession, Moves
<1>8. Greeted(c)' BY <1>1, <1>3, <1>2 DEF Moves, Requested, Stage, Greeted
<1>9. GoneForGood'
  <2>1. status[c] = "left" => status'[c] = "left" /\ up'[c] = up[c]
    BY <1>1, <1>3 DEF Moves, SendsOne, SendsTwo, Fits
  <2>2. Gone \subseteq Gone' BY <1>2, <2>1 DEF Gone
  <2>3. \A d \in Conn : Reports(down[d], Gone') BY <1>3, <2>2, ReportsKept DEF Sessions, GoneForGood
  <2>4. QED BY <1>2, <2>3 DEF GoneForGood
<1>10. QED BY <1>4, <1>6, <1>7, <1>8, <1>9 DEF Sessions

-----------------------------------------------------------------------------
(* What the server says while nobody comes or goes.                        *)

Plain(w) ==
  \A i \in 1 .. Len(w) :
    /\ w[i].kind \notin {"PlayerConnected", "PlayerDisconnected", "LoginAccepted"}
    /\ Mentioned(w[i]) \subseteq online
Adds(w) ==
  /\ w \in [Conn -> Seq(DownMsg)]
  /\ \A d \in Conn : down'[d] = down[d] \o w[d]
Speech(w) ==
  Adds(w) /\ \A d \in Conn : Plain(w[d]) /\ (d \notin online => Len(w[d]) = 0)

LEMMA ToldAdds ==
  ASSUME StreamTypeOK, NEW m \in DownMsg, NEW S, down' = Told(down, S, m)
  PROVE  \E w : Adds(w) /\ \A d \in Conn :
           \/ d \in S /\ Len(w[d]) = 1 /\ w[d][1] = m
           \/ d \notin S /\ Len(w[d]) = 0
<1>1. PICK w : w = [d \in Conn |-> IF d \in S THEN <<m>> ELSE <<>>] OBVIOUS
<1>2. down \in [Conn -> Seq(DownMsg)] BY DEF StreamTypeOK
<1>3. ASSUME NEW d \in Conn
      PROVE  /\ w[d] \in Seq(DownMsg) /\ down'[d] = down[d] \o w[d]
             /\ \/ d \in S /\ Len(w[d]) = 1 /\ w[d][1] = m
                \/ d \notin S /\ Len(w[d]) = 0
  <2>1. PICK s \in Seq(DownMsg) : s = down[d] BY <1>2
  <2>2. CASE d \in S
    <3>1. w[d] = <<m>> BY <1>1, <2>2
    <3>2. down'[d] = Append(s, m) BY <2>1, <2>2 DEF Told
    <3>3. Append(s, m) = s \o <<m>> /\ <<m>> \in Seq(DownMsg) /\ Len(<<m>>) = 1 /\ <<m>>[1] = m
      BY Appended
    <3>4. QED BY <2>1, <2>2, <3>1, <3>2, <3>3, Zenon
  <2>3. CASE d \notin S
    <3>1. w[d] = <<>> BY <1>1, <2>3
    <3>2. down'[d] = s BY <2>1, <2>3 DEF Told
    <3>3. s \o <<>> = s /\ <<>> \in Seq(DownMsg) /\ Len(<<>>) = 0 OBVIOUS
    <3>4. QED BY <2>1, <2>3, <3>1, <3>2, <3>3, Zenon
  <2>4. QED BY <2>2, <2>3
<1>4. w \in [Conn -> Seq(DownMsg)] BY <1>1, <1>3
<1>5. QED BY <1>3, <1>4 DEF Adds

(* What is received while somebody is not logged in is a request. *)
LEMMA ReceivedFrom ==
  ASSUME TypeOK, Sessions, NEW c \in Conn, up[c] # <<>>
  PROVE  /\ Head(up[c]).kind = "LoginRequest" => c \notin online
         /\ Head(up[c]).kind # "LoginRequest" => c \in online
         /\ c \notin online => status[c] \in {"joining", "left"}
<1>1. up[c] \in Seq(UpMsg) /\ status[c] \in {"out", "joining", "in", "left"}
  BY DEF TypeOK, StreamTypeOK, PlayerTypeOK
<1>2. Stage(status[c], c \in online, up[c]) BY DEF Sessions, Requested
<1>3. Len(up[c]) # 0
  <2>1. PICK s \in Seq(UpMsg) : s = up[c] BY <1>1
  <2>2. Len(s) # 0 BY <2>1
  <2>3. QED BY <2>1, <2>2
<1>4. CASE c \in online BY <1>1, <1>2, <1>4, Requests DEF Stage
<1>5. CASE c \notin online BY <1>2, <1>3, <1>5, <1>1, Requests DEF Stage
<1>6. QED BY <1>4, <1>5

Speaks(c) ==
  \/ up' = up
  \/ c \in online /\ up[c] # <<>> /\ up' = [up EXCEPT ![c] = Tail(@)]

LEMMA Speaking ==
  ASSUME TypeOK, Sessions, NEW c \in Conn,
         Relaying(c) \/ ServerHashes(c) \/ ConsoleToggleCheat \/ ConsoleBulletin
  PROVE  /\ (\E w : Speech(w)) /\ Speaks(c)
         /\ DOMAIN record' = DOMAIN record
         /\ UNCHANGED <<playerVars, copyVars, threadVars, history>>
<1>0. StreamTypeOK /\ record \in Records BY DEF TypeOK, ServerTypeOK
<1>1. CASE Relaying(c)
  <2>1. PICK S, m : m \in DownMsg /\ RelayOf(c, S, m) BY <1>1, RelayIs
  <2>2. /\ up[c] # <<>> /\ up' = [up EXCEPT ![c] = Tail(@)]
        /\ UNCHANGED <<playerVars, copyVars, threadVars, history>>
        /\ Head(up[c]).kind # "LoginRequest"
    BY <1>1, RelayIs
  <2>3. c \in online BY <2>2, ReceivedFrom
  <2>4. /\ down' = Told(down, S, m) /\ S \subseteq online /\ Mentioned(m) \subseteq online
        /\ m.kind \notin {"PlayerConnected", "PlayerDisconnected", "LoginAccepted"}
    BY <2>1, <2>3 DEF RelayOf
  <2>5. PICK w : Adds(w) /\ \A d \in Conn : \/ d \in S /\ Len(w[d]) = 1 /\ w[d][1] = m
                                            \/ d \notin S /\ Len(w[d]) = 0
    BY <1>0, <2>1, <2>4, ToldAdds
  <2>6. Speech(w) BY <2>4, <2>5 DEF Speech, Plain
  <2>7. DOMAIN record' = DOMAIN record
    BY <1>1 DEF Relaying, ServerScores, ServerNotification, ServerWhisper, ServerRestart, ServerRestartFailed,
       ServerCheatState, ServerCheatToggle, ServerCurrentMap, ServerCurrentSector, ServerMapNames,
       ServerBulletin, ServerChat, CheatRecorded, serverVars
  <2>8. QED BY <2>2, <2>3, <2>6, <2>7 DEF Speaks
<1>2. CASE ServerHashes(c)
  <2>1. /\ up[c] # <<>> /\ up' = [up EXCEPT ![c] = Tail(@)]
        /\ UNCHANGED <<playerVars, copyVars, threadVars, history>>
        /\ Head(up[c]).kind # "LoginRequest" /\ record' = record
    BY <1>2 DEF ServerHashes, Receives, ServerOnly, serverVars
  <2>2. c \in online BY <2>1, ReceivedFrom
  <2>3. PICK n \in 0 .. acts["modified"] :
          down' = [d \in Conn |-> down[d] \o [f \in 1 .. (IF d \in online THEN n ELSE 0) |-> Warning]]
    BY <1>2 DEF ServerHashes
  <2>4. n \in Nat BY DEF TypeOK, ActsTypeOK
  <2>5. PICK w : w = [d \in Conn |-> [f \in 1 .. (IF d \in online THEN n ELSE 0) |-> Warning]]
    OBVIOUS
  <2>6. ASSUME NEW k \in Nat, NEW v, v = [f \in 1 .. k |-> Warning]
        PROVE  v \in Seq(DownMsg) /\ Len(v) = k /\ Plain(v)
    BY Tellable, NamesOf, <2>6 DEF Warning, Plain
  <2>7. \A d \in Conn : /\ w[d] \in Seq(DownMsg) /\ Plain(w[d])
                        /\ d \notin online => Len(w[d]) = 0
    BY <2>5, <2>4, <2>6
  <2>8. w \in [Conn -> Seq(DownMsg)] BY <2>5, <2>7
  <2>9. \A d \in Conn : down'[d] = down[d] \o w[d] BY <2>3, <2>5
  <2>10. QED BY <2>1, <2>2, <2>7, <2>8, <2>9 DEF Speech, Adds, Speaks
<1>3. CASE ConsoleToggleCheat \/ ConsoleBulletin
  <2>1. PICK m \in DownMsg : /\ down' = Told(down, online, m)
                             /\ m.kind \in {"CheatToggle", "PermanentNotification"}
    BY <1>3, ConsoleIs
  <2>2. UNCHANGED <<record, up, playerVars, copyVars, threadVars, history>> BY <1>3, ConsoleIs
  <2>3. Mentioned(m) = {} BY <2>1, NamesOf
  <2>4. PICK w : Adds(w) /\ \A d \in Conn : \/ d \in online /\ Len(w[d]) = 1 /\ w[d][1] = m
                                            \/ d \notin online /\ Len(w[d]) = 0
    BY <1>0, <2>1, ToldAdds
  <2>5. Speech(w) BY <2>1, <2>3, <2>4 DEF Speech, Plain
  <2>6. QED BY <2>2, <2>5 DEF Speaks
<1>4. QED BY <1>1, <1>2, <1>3

LEMMA SpeakSessions ==
  ASSUME TypeOK, Sessions, NEW c \in Conn,
         Relaying(c) \/ ServerHashes(c) \/ ConsoleToggleCheat \/ ConsoleBulletin
  PROVE  Sessions'
<1>1. PICK w : Speech(w) BY Speaking
<1>2. /\ Speaks(c) /\ online' = online
      /\ UNCHANGED <<status, known, shown, game, net, crashed>>
  BY Speaking DEF online, playerVars, copyVars, threadVars
<1>3. /\ up \in [Conn -> Seq(UpMsg)] /\ down \in [Conn -> Seq(DownMsg)] /\ w \in [Conn -> Seq(DownMsg)]
      /\ \A d \in Conn : /\ down'[d] = down[d] \o w[d] /\ Plain(w[d])
                         /\ d \notin online => Len(w[d]) = 0
  BY <1>1 DEF TypeOK, StreamTypeOK, Speech, Adds
<1>4. \A d \in Conn \ online : up'[d] = up[d] BY <1>2, <1>3 DEF Speaks
<1>5. ASSUME NEW d \in Conn
      PROVE  Requested(d)'
  <2>1. Requested(d) BY DEF Sessions
  <2>2. Stage(status[d], d \in online, up'[d])
    <3>1. CASE d \notin online BY <1>4, <2>1, <3>1 DEF Requested
    <3>2. CASE d \in online
      <4>1. NoRequest(up[d]) /\ status[d] # "out" BY <2>1, <3>2 DEF Requested, Stage
      <4>2. up'[d] = up[d] \/ (up[d] # <<>> /\ up'[d] = Tail(up[d])) BY <1>2, <1>3 DEF Speaks
      <4>3. NoRequest(up'[d]) BY <1>3, <4>1, <4>2, Requests
      <4>4. QED BY <3>2, <4>1, <4>3 DEF Stage
    <3>3. QED BY <3>1, <3>2
  <2>3. d \notin online /\ Len(down[d]) = 0 => Len(down'[d]) = 0 BY <1>3, Joined
  <2>4. QED BY <1>2, <2>1, <2>2, <2>3 DEF Requested
<1>6. ASSUME NEW d \in Conn
      PROVE  InSession(d)'
  BY <1>2 DEF Sessions, InSession
<1>7. ASSUME NEW d \in Conn
      PROVE  Greeted(d)'
  <2>1. Greeted(d) BY DEF Sessions
  <2>2. NoList(w[d]) BY <1>3 DEF NoList, Plain
  <2>3. /\ NoList(down[d]) => NoList(down'[d])
        /\ ListOnce(down[d]) => ListOnce(down'[d])
    BY <1>3, <2>2, Lists
  <2>4. QED BY <1>2, <2>1, <2>3 DEF Greeted
<1>8. GoneForGood'
  <2>1. Gone \subseteq Gone' BY <1>2, <1>4 DEF Gone
  <2>2. ASSUME NEW d \in Conn
        PROVE  Reports(down'[d], Gone')
    <3>1. Reports(w[d], Gone')
      <4>1. \A i \in 1 .. Len(w[d]) : w[d][i] \in DownMsg /\ w[d][i].kind # "PlayerDisconnected"
        BY <1>3 DEF Plain
      <4>2. \A i \in 1 .. Len(w[d]) : Takes(w[d][i]) = {} BY <4>1, BringsIs
      <4>3. QED BY <4>2 DEF Reports
    <3>2. Reports(down[d], Gone) BY DEF Sessions, GoneForGood
    <3>3. PICK s, v \in Seq(DownMsg) : s = down[d] /\ v = w[d] BY <1>3
    <3>4. Reports(s \o v, Gone') BY <2>1, <3>1, <3>2, <3>3, ReportsKept
    <3>5. QED BY <1>3, <3>3, <3>4, Zenon
  <2>3. QED BY <2>2 DEF GoneForGood
<1>9. QED BY <1>5, <1>6, <1>7, <1>8 DEF Sessions

-----------------------------------------------------------------------------
(* Coming and going.                                                       *)

(* What is said to whoever logs in, around the list. *)
Greets(c, ch, a, t, b) ==
  /\ a = If(map_names_ # {}, MapNames(map_names_))
  /\ t = If(Forced(c, ch), Opposite(ch))
  /\ b = If(bulletin # "", Bulletin(bulletin))

LEMMA GreetsIs ==
  ASSUME NEW c, NEW ch, NEW a, NEW t, NEW b, Greets(c, ch, a, t, b)
  PROVE  /\ \/ map_names_ = {} /\ Len(a) = 0
            \/ map_names_ # {} /\ Len(a) = 1 /\ a[1] = MapNames(map_names_)
         /\ \/ ~ Forced(c, ch) /\ Len(t) = 0
            \/ Forced(c, ch) /\ Len(t) = 1 /\ t[1] = Opposite(ch)
         /\ \/ bulletin = "" /\ Len(b) = 0
            \/ bulletin # "" /\ Len(b) = 1 /\ b[1] = Bulletin(bulletin)
<1>1. \A m : Len(<<m>>) = 1 /\ <<m>>[1] = m /\ Len(<<>>) = 0 OBVIOUS
<1>2. /\ a = (IF map_names_ # {} THEN <<MapNames(map_names_)>> ELSE <<>>)
      /\ t = (IF Forced(c, ch) THEN <<Opposite(ch)>> ELSE <<>>)
      /\ b = (IF bulletin # "" THEN <<Bulletin(bulletin)>> ELSE <<>>)
  BY Zenon DEF Greets, If
<1>3. \/ map_names_ = {} /\ Len(a) = 0
      \/ map_names_ # {} /\ Len(a) = 1 /\ a[1] = MapNames(map_names_)
  BY <1>1, <1>2, Zenon
<1>4. \/ ~ Forced(c, ch) /\ Len(t) = 0
      \/ Forced(c, ch) /\ Len(t) = 1 /\ t[1] = Opposite(ch)
  BY <1>1, <1>2, Zenon
<1>5. \/ bulletin = "" /\ Len(b) = 0
      \/ bulletin # "" /\ Len(b) = 1 /\ b[1] = Bulletin(bulletin)
  BY <1>1, <1>2, Zenon
<1>6. QED BY <1>3, <1>4, <1>5

LEMMA LoginIs ==
  ASSUME TypeOK, Sessions, NEW c \in Conn, ServerLogin(c)
  PROVE  /\ c \notin online /\ status[c] \in {"joining", "left"}
         /\ up[c] # <<>> /\ up' = [up EXCEPT ![c] = Tail(@)]
         /\ UNCHANGED <<map_names_, bulletin, playerVars, copyVars, threadVars, acts, history>>
         /\ record' \in Records /\ online' = online \cup {c}
         /\ record'[c] = Player(Head(up[c]).cheated, Nowhere)
         /\ \A d \in online : record'[d] = record[d]
         /\ \E x \in BOOLEAN : \A d \in Conn \ {c} :
              \/ d \in online /\ down'[d] = Append(down[d], PlayerConnected(c, x))
              \/ d \notin online /\ down'[d] = down[d]
         /\ \E a, t, b \in Seq(DownMsg) :
              /\ down'[c] = down[c] \o (a \o <<LoginAccepted(record')>> \o t \o b)
              /\ Greets(c, Head(up[c]).cheated, a, t, b)
<1>0. /\ record \in Records /\ ServerTypeOK /\ up \in [Conn -> Seq(UpMsg)]
      /\ down \in [Conn -> Seq(DownMsg)]
  BY DEF TypeOK, ServerTypeOK, StreamTypeOK
<1>1. /\ up[c] # <<>> /\ up' = [up EXCEPT ![c] = Tail(@)] /\ Head(up[c]).kind = "LoginRequest"
      /\ UNCHANGED <<map_names_, bulletin, playerVars, copyVars, threadVars, acts, history>>
  BY DEF ServerLogin, Receives
<1>2. c \notin online /\ status[c] \in {"joining", "left"} BY <1>1, ReceivedFrom
<1>3. PICK ch : ch = Head(up[c]).cheated OBVIOUS
<1>4. ch \in BOOLEAN
  <2>1. Head(up[c]) \in UpMsg BY <1>0, <1>1, Taken
  <2>2. QED BY <1>1, <1>3, <2>1, UpFacts
<1>5. PICK r : r = With(record, c, Player(ch, Nowhere)) OBVIOUS
<1>6. /\ record' = r
      /\ down' = [Introduced(c, ch) EXCEPT ![c] = @ \o Welcome(c, r, ch)]
  BY <1>3, <1>5 DEF ServerLogin
<1>7. /\ r \in Records /\ DOMAIN r = online \cup {c} /\ r[c] = Player(ch, Nowhere)
      /\ \A d \in online : r[d] = record[d]
  <2>1. /\ With(record, c, Player(ch, Nowhere)) \in Records
        /\ DOMAIN With(record, c, Player(ch, Nowhere)) = DOMAIN record \cup {c}
        /\ \A d \in DOMAIN record \ {c} : With(record, c, Player(ch, Nowhere))[d] = record[d]
        /\ With(record, c, Player(ch, Nowhere))[c] = Player(ch, Nowhere)
    BY <1>0, <1>4, RecordJoins
  <2>2. \A d \in online : d \in DOMAIN record \ {c} BY <1>2 DEF online
  <2>3. QED BY <1>5, <2>1, <2>2, Zenon DEF online
<1>8. PICK x : x = IF Forced(c, ch) THEN ~ ch ELSE ch OBVIOUS
<1>9. x \in BOOLEAN BY <1>4, <1>8
<1>10. \A d \in Conn : Introduced(c, ch)[d] =
         IF d \in online \ {c} THEN Append(down[d], PlayerConnected(c, x)) ELSE down[d]
  BY <1>8 DEF Introduced, Told
<1>11. DOMAIN Introduced(c, ch) = Conn BY DEF Introduced, Told
<1>12. \A d \in Conn \ {c} : down'[d] = Introduced(c, ch)[d] BY <1>6, <1>11
<1>13. down'[c] = down[c] \o Welcome(c, r, ch) BY <1>6, <1>11, <1>10
<1>14. \E a, t, b \in Seq(DownMsg) :
         /\ down'[c] = down[c] \o (a \o <<LoginAccepted(r)>> \o t \o b)
         /\ Greets(c, ch, a, t, b)
  <2>1. PICK a, t, b \in Seq(DownMsg) :
          /\ Welcome(c, r, ch) = a \o <<LoginAccepted(r)>> \o t \o b
          /\ a = If(map_names_ # {}, MapNames(map_names_))
          /\ t = If(Forced(c, ch), CheatToggle(~ ch))
          /\ b = If(bulletin # "", Bulletin(bulletin))
          /\ <<LoginAccepted(r)>> \in Seq(DownMsg)
    BY <1>0, <1>4, <1>7, WelcomeIs, Zenon
  <2>2. down'[c] = down[c] \o (a \o <<LoginAccepted(r)>> \o t \o b) BY <1>13, <2>1, Zenon
  <2>3. Greets(c, ch, a, t, b) BY <2>1, Zenon DEF Greets, Opposite
  <2>4. QED BY <2>2, <2>3, Zenon
<1>15. \E y \in BOOLEAN : \A d \in Conn \ {c} :
         \/ d \in online /\ down'[d] = Append(down[d], PlayerConnected(c, y))
         \/ d \notin online /\ down'[d] = down[d]
  BY <1>10, <1>12, <1>9
<1>16. online' = online \cup {c} BY <1>6, <1>7 DEF online
<1>17. record' \in Records /\ record'[c] = Player(Head(up[c]).cheated, Nowhere)
       /\ \A d \in online : record'[d] = record[d]
  BY <1>3, <1>6, <1>7
<1>18. \E a, t, b \in Seq(DownMsg) :
         /\ down'[c] = down[c] \o (a \o <<LoginAccepted(record')>> \o t \o b)
         /\ Greets(c, Head(up[c]).cheated, a, t, b)
  BY <1>3, <1>6, <1>14, Zenon
<1>19. QED BY <1>1, <1>2, <1>15, <1>16, <1>17, <1>18

(* The messages of a greeting: e ends with the list, w is said after it. *)
GreetingIs(r, a, t, b, e, w, m) ==
  /\ e \in Seq(DownMsg) /\ w \in Seq(DownMsg) /\ m \in DownMsg
  /\ m = LoginAccepted(r) /\ m.kind = "LoginAccepted" /\ m.online = r
  /\ e = a \o <<m>> /\ w = t \o b
  /\ a \o <<LoginAccepted(r)>> \o t \o b = e \o w
  /\ \A i \in 1 .. Len(a) : a[i].kind = "MapNames"
  /\ \A i \in 1 .. Len(w) : w[i].kind \in {"CheatToggle", "PermanentNotification"}
LEMMA Greeting ==
  ASSUME NEW r \in Records, NEW c, NEW ch, NEW a \in Seq(DownMsg), NEW t \in Seq(DownMsg),
         NEW b \in Seq(DownMsg), Greets(c, ch, a, t, b)
  PROVE  \E e, w, m : GreetingIs(r, a, t, b, e, w, m)
<1>1. PICK m : m = LoginAccepted(r) OBVIOUS
<1>2. m \in DownMsg /\ m.kind = "LoginAccepted" /\ m.online = r BY <1>1, Tellable DEF LoginAccepted
<1>3. PICK q : q = <<m>> OBVIOUS
<1>4. q \in Seq(DownMsg) BY <1>2, <1>3
<1>5. PICK e, w : e = a \o q /\ w = t \o b OBVIOUS
<1>6. e \in Seq(DownMsg) /\ w \in Seq(DownMsg) BY <1>4, <1>5, Joined
<1>7. e \o t \o b = e \o w
  <2>1. e \o (t \o b) = (e \o t) \o b BY <1>6, ConcatAssociative, SMTT(30)
  <2>2. QED BY <1>5, <2>1
<1>8. a \o <<LoginAccepted(r)>> \o t \o b = e \o w BY <1>1, <1>3, <1>5, <1>7, Zenon
<1>9. /\ Len(a) = 0 \/ (Len(a) = 1 /\ a[1].kind = "MapNames")
      /\ Len(t) = 0 \/ (Len(t) = 1 /\ t[1].kind = "CheatToggle")
      /\ Len(b) = 0 \/ (Len(b) = 1 /\ b[1].kind = "PermanentNotification")
  <2>1. /\ MapNames(map_names_).kind = "MapNames" /\ Opposite(ch).kind = "CheatToggle"
        /\ Bulletin(bulletin).kind = "PermanentNotification"
    BY DEF MapNames, Opposite, CheatToggle, Bulletin
  <2>2. /\ Len(a) = 0 \/ (Len(a) = 1 /\ a[1] = MapNames(map_names_))
        /\ Len(t) = 0 \/ (Len(t) = 1 /\ t[1] = Opposite(ch))
        /\ Len(b) = 0 \/ (Len(b) = 1 /\ b[1] = Bulletin(bulletin))
    BY GreetsIs
  <2>3. QED BY <2>1, <2>2
<1>10. \A i \in 1 .. Len(a) : a[i].kind = "MapNames" BY <1>9
<1>11. \A i \in 1 .. Len(w) : w[i].kind \in {"CheatToggle", "PermanentNotification"}
  <2>1. \A i \in 1 .. Len(w) :
          \/ i \in 1 .. Len(t) /\ w[i] = t[i]
          \/ i - Len(t) \in 1 .. Len(b) /\ w[i] = b[i - Len(t)]
    BY <1>5, Joined
  <2>2. QED BY <1>9, <2>1
<1>12. e = a \o <<m>> BY <1>3, <1>5, Zenon
<1>13. GreetingIs(r, a, t, b, e, w, m)
  BY <1>1, <1>2, <1>5, <1>6, <1>8, <1>10, <1>11, <1>12 DEF GreetingIs
<1>14. QED BY <1>13

LEMMA LoginSessions ==
  ASSUME TypeOK, Sessions, NEW c \in Conn, ServerLogin(c)
  PROVE  Sessions'
<1>1. /\ c \notin online /\ status[c] \in {"joining", "left"}
      /\ up[c] # <<>> /\ up' = [up EXCEPT ![c] = Tail(@)]
      /\ UNCHANGED <<status, known, shown, game, net, crashed>>
      /\ record' \in Records /\ online' = online \cup {c}
  BY LoginIs DEF playerVars, copyVars, threadVars
<1>2. /\ up \in [Conn -> Seq(UpMsg)] /\ down \in [Conn -> Seq(DownMsg)] /\ ServerTypeOK
      /\ down' \in [Conn -> Seq(DownMsg)]
  BY ServerTyped DEF TypeOK, StreamTypeOK, ServerHandles
<1>3. PICK x \in BOOLEAN : \A d \in Conn \ {c} :
        \/ d \in online /\ down'[d] = Append(down[d], PlayerConnected(c, x))
        \/ d \notin online /\ down'[d] = down[d]
  BY LoginIs
<1>4. PICK p \in DownMsg : p = PlayerConnected(c, x) /\ p.kind = "PlayerConnected"
  BY Tellable DEF PlayerConnected
<1>5. PICK q \in Seq(DownMsg) : q = <<p>> /\ Len(q) = 1 /\ q[1] = p
  <2>1. <<p>> \in Seq(DownMsg) /\ Len(<<p>>) = 1 /\ <<p>>[1] = p BY <1>4
  <2>2. QED BY <2>1
<1>6. NoList(q) /\ Reports(q, {}) BY <1>4, <1>5, BringsIs DEF NoList, Reports
<1>7. \A d \in Conn \ {c} : down'[d] = down[d] \/ down'[d] = down[d] \o q
  <2>1. \A s \in Seq(DownMsg) : Append(s, p) = s \o q BY <1>5, Appended
  <2>2. QED BY <1>2, <1>3, <1>4, <2>1
<1>8. PICK r, ch : r = record' /\ ch = Head(up[c]).cheated OBVIOUS
<1>9. PICK a, t, b \in Seq(DownMsg) :
        /\ down'[c] = down[c] \o (a \o <<LoginAccepted(r)>> \o t \o b)
        /\ Greets(c, ch, a, t, b)
  BY <1>8, LoginIs
<1>10. PICK e, w, m : GreetingIs(r, a, t, b, e, w, m)
  <2>1. r \in Records BY <1>1, <1>8
  <2>2. QED BY <1>9, <2>1, Greeting
<1>11. /\ down'[c] = down[c] \o (e \o w)
       /\ a \in Seq(DownMsg) /\ e \in Seq(DownMsg) /\ w \in Seq(DownMsg) /\ m \in DownMsg
       /\ m.kind = "LoginAccepted" /\ e = a \o <<m>>
       /\ \A i \in 1 .. Len(a) : a[i].kind = "MapNames"
       /\ \A i \in 1 .. Len(w) : w[i].kind \in {"CheatToggle", "PermanentNotification"}
  <2>1. down'[c] = down[c] \o (e \o w) BY <1>9, <1>10, Zenon DEF GreetingIs
  <2>2. QED BY <1>9, <1>10, <2>1 DEF GreetingIs
<1>12. ListOnce(e) /\ NoList(w) /\ Reports(e \o w, {})
  <2>1. ListOnce(e) BY <1>11, ListSent
  <2>2. NoList(w) BY <1>11 DEF NoList
  <2>3. Reports(w, {})
    <3>1. \A i \in 1 .. Len(w) : w[i] \in DownMsg /\ w[i].kind # "PlayerDisconnected"
      <4>1. PICK v \in Seq(DownMsg) : v = w BY <1>11
      <4>2. \A i \in 1 .. Len(v) : v[i] \in DownMsg BY <4>1
      <4>3. \A i \in 1 .. Len(w) : w[i].kind # "PlayerDisconnected" BY <1>11
      <4>4. QED BY <4>1, <4>2, <4>3
    <3>2. QED BY <3>1, BringsIs DEF Reports
  <2>4. Reports(e, {})
    <3>1. \A i \in 1 .. Len(e) : e[i] \in DownMsg /\ e[i].kind # "PlayerDisconnected"
      <4>1. PICK g \in Seq(DownMsg) : g = Append(a, m) BY <1>11, Appended
      <4>2. g = e /\ \A i \in 1 .. Len(g) : (i \in 1 .. Len(a) /\ g[i] = a[i]) \/ g[i] = m
        BY <1>11, <4>1, Appended
      <4>3. QED BY <1>11, <4>2
    <3>2. QED BY <3>1, BringsIs DEF Reports
  <2>5. QED BY <1>11, <2>1, <2>2, <2>3, <2>4, ReportsKept
<1>13. e \o w \in Seq(DownMsg) BY <1>11, Joined
<1>14. \A d \in Conn \ {c} : (d \in online' <=> d \in online) /\ up'[d] = up[d] BY <1>1, <1>2
<1>15. ASSUME NEW d \in Conn
       PROVE  Requested(d)'
  <2>1. Requested(d) BY DEF Sessions
  <2>2. CASE d # c
    <3>1. d \notin online => down'[d] = down[d] BY <1>3, <2>2
    <3>2. d \in online' <=> d \in online BY <1>14, <2>2
    <3>3. (d \in online') = (d \in online) BY <3>2
    <3>4. QED BY <1>1, <1>14, <2>1, <2>2, <3>1, <3>3 DEF Requested
  <2>3. CASE d = c
    <3>1. Asking(up[c]) BY <1>1, <2>1, <2>3 DEF Requested, Stage
    <3>2. up'[c] = Tail(up[c]) /\ NoRequest(Tail(up[c])) BY <1>1, <1>2, <3>1, Requests
    <3>3. Stage(status[c], TRUE, up'[c]) BY <1>1, <3>2 DEF Stage
    <3>4. (c \in online') = TRUE BY <1>1
    <3>5. QED BY <1>1, <2>3, <3>3, <3>4 DEF Requested
  <2>4. QED BY <2>2, <2>3
<1>16. ASSUME NEW d \in Conn
       PROVE  InSession(d)'
  BY <1>1 DEF Sessions, InSession
<1>17. ASSUME NEW d \in Conn
       PROVE  Greeted(d)'
  <2>1. Greeted(d) BY DEF Sessions
  <2>2. CASE d # c
    <3>1. /\ NoList(down[d]) => NoList(down'[d])
          /\ ListOnce(down[d]) => ListOnce(down'[d])
      BY <1>2, <1>5, <1>6, <1>7, <2>2, Lists
    <3>2. QED BY <1>1, <1>14, <2>1, <2>2, <3>1 DEF Greeted
  <2>3. CASE d = c /\ status[c] = "joining"
    <3>1. Len(down[c]) = 0 BY <1>1, <2>3 DEF Sessions, Requested
    <3>2. PICK s \in Seq(DownMsg) : s = down[c] BY <1>2
    <3>3. s = <<>> BY <3>1, <3>2
    <3>4. <<>> \o (e \o w) = e \o w BY <1>13
    <3>5. down'[c] = e \o w BY <1>11, <3>2, <3>3, <3>4, Zenon
    <3>6. ListOnce(e \o w) BY <1>11, <1>12, Lists
    <3>7. QED BY <1>1, <2>3, <3>5, <3>6 DEF Greeted
  <2>4. CASE d = c /\ status[c] # "joining" BY <1>1, <2>4 DEF Greeted
  <2>5. QED BY <2>2, <2>3, <2>4
<1>18. GoneForGood'
  <2>1. Gone \subseteq Gone' BY <1>1, <1>2, <1>14 DEF Gone
  <2>2. ASSUME NEW d \in Conn
        PROVE  Reports(down'[d], Gone')
    <3>1. Reports(down[d], Gone) BY DEF Sessions, GoneForGood
    <3>2. PICK s \in Seq(DownMsg) : s = down[d] BY <1>2
    <3>3. ASSUME NEW v \in Seq(DownMsg), Reports(v, {})
          PROVE  Reports(s \o v, Gone')
      BY <3>3, ReportsKept, <2>1, <3>1, <3>2
    <3>4. Reports(s, Gone') BY <2>1, <3>1, <3>2, ReportsKept
    <3>5. down'[d] = s \/ down'[d] = s \o q \/ down'[d] = s \o (e \o w) BY <1>7, <1>11, <3>2
    <3>6. Reports(s \o q, Gone') /\ Reports(s \o (e \o w), Gone') BY <1>6, <1>12, <1>13, <3>3
    <3>7. QED BY <3>4, <3>5, <3>6, Zenon
  <2>3. QED BY <2>2 DEF GoneForGood
<1>19. QED BY <1>15, <1>16, <1>17, <1>18 DEF Sessions

LEMMA DepartSessions ==
  ASSUME TypeOK, Sessions, NEW c \in Conn, Depart(c)
  PROVE  Sessions'
<1>1. PICK z : z = <<>> OBVIOUS
<1>2. /\ c \in online /\ status[c] = "left" /\ up' = [up EXCEPT ![c] = z]
      /\ UNCHANGED <<status, known, shown, game, net, crashed>>
      /\ online' = online \ {c}
      /\ down' = Told(down, online \ {c}, PlayerDisconnected(c))
  BY <1>1 DEF Depart, playerVars, copyVars, threadVars, DepartTold, online, Without
<1>3. /\ up \in [Conn -> Seq(UpMsg)] /\ down \in [Conn -> Seq(DownMsg)] /\ StreamTypeOK
  BY DEF TypeOK, StreamTypeOK
<1>4. PICK p \in DownMsg : p = PlayerDisconnected(c) /\ p.kind = "PlayerDisconnected" /\ p.from = c
  BY Tellable DEF PlayerDisconnected
<1>5. PICK w : Adds(w) /\ \A d \in Conn :
        \/ d \in online \ {c} /\ Len(w[d]) = 1 /\ w[d][1] = p
        \/ d \notin online \ {c} /\ Len(w[d]) = 0
  <2>1. down' = Told(down, online \ {c}, p) BY <1>2, <1>4, Zenon
  <2>2. QED BY <1>3, <1>4, <2>1, ToldAdds
<1>6. /\ w \in [Conn -> Seq(DownMsg)]
      /\ \A d \in Conn : down'[d] = down[d] \o w[d]
  BY <1>5 DEF Adds
<1>7. Len(z) = 0 /\ Asking(z) BY <1>1 DEF Asking
<1>8. \A d \in Conn \ {c} : (d \in online') = (d \in online) /\ up'[d] = up[d] BY <1>2, <1>3
<1>9. ASSUME NEW d \in Conn
      PROVE  Requested(d)'
  <2>1. Requested(d) BY DEF Sessions
  <2>2. CASE d # c
    <3>1. d \notin online /\ Len(down[d]) = 0 => Len(down'[d]) = 0 BY <1>3, <1>6, Joined, <1>5
    <3>2. QED BY <1>2, <1>8, <2>1, <2>2, <3>1 DEF Requested
  <2>3. CASE d = c BY <1>2, <1>3, <1>7, <2>3 DEF Stage, Requested
  <2>4. QED BY <2>2, <2>3
<1>10. ASSUME NEW d \in Conn
       PROVE  InSession(d)'
  BY <1>2 DEF Sessions, InSession
<1>11. ASSUME NEW d \in Conn
       PROVE  Greeted(d)'
  <2>1. Greeted(d) BY DEF Sessions
  <2>2. NoList(w[d]) BY <1>4, <1>5 DEF NoList
  <2>3. /\ NoList(down[d]) => NoList(down'[d])
        /\ ListOnce(down[d]) => ListOnce(down'[d])
    BY <1>3, <1>6, <2>2, Lists
  <2>4. QED BY <1>2, <2>1, <2>3 DEF Greeted
<1>12. GoneForGood'
  <2>1. Gone \subseteq Gone' /\ c \in Gone'
    <3>1. up'[c] = z BY <1>2, <1>3
    <3>2. QED BY <1>2, <1>7, <1>8, <3>1 DEF Gone
  <2>2. ASSUME NEW d \in Conn
        PROVE  Reports(down'[d], Gone')
    <3>1. Reports(down[d], Gone) BY DEF Sessions, GoneForGood
    <3>2. PICK s, v \in Seq(DownMsg) : s = down[d] /\ v = w[d] BY <1>3, <1>6
    <3>3. Takes(p) = {c} BY <1>4, BringsIs
    <3>4. Reports(v, Gone') BY <1>5, <2>1, <3>2, <3>3 DEF Reports
    <3>5. Reports(s \o v, Gone') BY <2>1, <3>1, <3>2, <3>4, ReportsKept
    <3>6. QED BY <1>6, <3>2, <3>5, Zenon
  <2>3. QED BY <2>2 DEF GoneForGood
<1>13. QED BY <1>9, <1>10, <1>11, <1>12 DEF Sessions

-----------------------------------------------------------------------------
(* The clients' handlers and sessions.                                     *)

(* Who handles messages is online, or has left; and whoever they are about *)
(* is known.                                                               *)
LEMMA HandledIn ==
  ASSUME TypeOK, Sessions, Rosters, NEW c \in Conn, ClientHandles(c), NEW h, h = Head(down[c])
  PROVE  /\ h \in DownMsg /\ Len(down[c]) # 0
         /\ c \in online \/ (status[c] = "left" /\ status'[c] = "left" /\ up'[c] = up[c])
         /\ c \in online /\ Active(c) => Roster(c, down[c], Knows(c), online)
         /\ status[c] = "joining" => c \in online /\ h.kind \in {"LoginAccepted", "MapNames"}
         /\ status[c] = "in" => c \in online /\ h.kind # "LoginAccepted"
         /\ crashed' = crashed \/ (status[c] = "left" /\ crashed' = crashed \cup {c})
<1>1. /\ StatusAfter(c, h) /\ CrashAfter(c, h) /\ AnswerAfter(c, h)
      /\ down[c] # <<>> /\ status[c] \in {"joining", "in", "left"}
  BY HandlingIs
<1>2. /\ down[c] \in Seq(DownMsg) /\ status \in [Conn -> {"out", "joining", "in", "left"}]
  BY DEF TypeOK, StreamTypeOK, PlayerTypeOK
<1>3. h \in DownMsg /\ Len(down[c]) # 0 BY <1>1, <1>2, Taken, NonEmpty
<1>4. Requested(c) /\ Greeted(c) BY DEF Sessions
<1>5. c \in online \/ status[c] = "left" BY <1>1, <1>3, <1>4 DEF Requested
<1>6. status[c] = "left" => status'[c] = "left" /\ up'[c] = up[c]
  BY <1>1, <1>2 DEF StatusAfter, AnswerAfter, Answers
<1>7. c \in online /\ Active(c) => Roster(c, down[c], Knows(c), online) BY DEF Rosters
<1>8. status[c] = "joining" => c \in online /\ h.kind \in {"LoginAccepted", "MapNames"}
  BY <1>1, <1>2, <1>4, <1>5, Lists DEF Greeted
<1>9. status[c] = "in" => c \in online /\ h.kind # "LoginAccepted"
  BY <1>1, <1>2, <1>4, <1>5, Lists DEF Greeted
<1>10. crashed' = crashed \/ (status[c] = "left" /\ crashed' = crashed \cup {c})
  <2>1. CASE crashed' = crashed BY <2>1
  <2>2. CASE crashed' # crashed
    BY <1>1, <2>2, <1>8, <1>5, <1>7, <1>3, BringsIs, NamesOf, <1>2, Taken DEF CrashAfter, Active,
       Roster, NeedsMet, Knows, Named
  <2>3. QED BY <2>1, <2>2
<1>11. QED BY <1>3, <1>5, <1>6, <1>7, <1>8, <1>9, <1>10

LEMMA ClientSessions ==
  ASSUME TypeOK, Sessions, Rosters, NEW c \in Conn, ClientHandles(c)
  PROVE  Sessions'
<1>1. PICK h : h = Head(down[c]) OBVIOUS
<1>2. /\ CopyAfter(c, h) /\ StatusAfter(c, h) /\ AnswerAfter(c, h)
      /\ down[c] # <<>> /\ down' = [down EXCEPT ![c] = Tail(@)]
      /\ status[c] \in {"joining", "in", "left"} /\ net[c] = "poll"
      /\ UNCHANGED <<record, game>>
  BY <1>1, HandlingIs DEF serverVars
<1>3. /\ h \in DownMsg /\ Len(down[c]) # 0
      /\ c \in online \/ (status[c] = "left" /\ status'[c] = "left" /\ up'[c] = up[c])
      /\ status[c] = "joining" => c \in online /\ h.kind \in {"LoginAccepted", "MapNames"}
      /\ status[c] = "in" => c \in online /\ h.kind # "LoginAccepted"
      /\ crashed' = crashed \/ (status[c] = "left" /\ crashed' = crashed \cup {c})
  BY <1>1, HandledIn
<1>4. /\ up \in [Conn -> Seq(UpMsg)] /\ down \in [Conn -> Seq(DownMsg)]
      /\ status \in [Conn -> {"out", "joining", "in", "left"}]
      /\ net \in [Conn -> {"poll", "logged in", "named", "assembled"}]
      /\ known \in [Conn -> SUBSET Map] /\ CopyTypeOK
  BY DEF TypeOK, StreamTypeOK, PlayerTypeOK, ThreadTypeOK, CopyTypeOK
<1>5. /\ down'[c] = Tail(down[c])
      /\ \A d \in Conn \ {c} : /\ down'[d] = down[d] /\ up'[d] = up[d] /\ status'[d] = status[d]
                               /\ net'[d] = net[d] /\ known'[d] = known[d] /\ shown'[d] = shown[d]
  <2>1. \A d \in Conn \ {c} : shown'[d] = shown[d]
    <3>1. h.kind = "PermanentNotification" => h.text \in Text BY <1>3, DownFacts
    <3>2. CASE h.kind = "PermanentNotification"
      <4>1. shown' = ShownAfter(c, h.text) BY <1>2, <3>2 DEF CopyAfter
      <4>2. CopyTypeOK BY <1>4
      <4>3. h.text \in Text BY <3>1, <3>2
      <4>4. \A d \in Conn \ {c} : ShownAfter(c, h.text)[d] = shown[d] BY <4>2, <4>3, ShownTyped
      <4>5. QED BY <4>1, <4>4
    <3>3. CASE h.kind # "PermanentNotification" BY <1>2, <3>3 DEF CopyAfter
    <3>4. QED BY <3>2, <3>3
  <2>2. QED BY <1>2, <1>4, <2>1 DEF CopyAfter, StatusAfter, AnswerAfter
<1>6. online' = online BY <1>2 DEF online
<1>7. status'[c] = IF h.kind = "LoginAccepted" /\ status[c] = "joining" THEN "in" ELSE status[c]
  BY <1>2, <1>4 DEF StatusAfter
<1>8. ASSUME NEW d \in Conn \ {c}
      PROVE  Requested(d)' /\ InSession(d)' /\ Greeted(d)'
  <2>1. Requested(d) /\ InSession(d) /\ Greeted(d) BY DEF Sessions
  <2>2. /\ down'[d] = down[d] /\ up'[d] = up[d] /\ status'[d] = status[d] /\ net'[d] = net[d]
        /\ known'[d] = known[d] /\ shown'[d] = shown[d] /\ game'[d] = game[d]
        /\ (d \in online') = (d \in online) /\ (d \in crashed' => d \in crashed)
    BY <1>2, <1>3, <1>5, <1>6
  <2>3. Requested(d)' BY <2>1, <2>2 DEF Requested
  <2>4. InSession(d)' BY <2>1, <2>2 DEF InSession
  <2>5. Greeted(d)' BY <2>1, <2>2 DEF Greeted
  <2>6. QED BY <2>3, <2>4, <2>5
<1>9. Requested(c) /\ InSession(c) /\ Greeted(c) BY DEF Sessions
<1>10. Requested(c)'
  <2>1. CASE c \notin online BY <1>6, <1>3, <1>9, <2>1 DEF Requested
  <2>2. CASE c \in online
    <3>1. NoRequest(up[c]) BY <1>9, <2>2 DEF Requested, Stage
    <3>2. NoRequest(up'[c])
      <4>1. CASE up' = up BY <3>1, <4>1
      <4>2. CASE Answers(c, h) /\ up' = [up EXCEPT ![c] = Append(@, CheatState(h.cheated))]
        <5>1. PICK m : m = CheatState(h.cheated) OBVIOUS
        <5>2. m \in UpMsg /\ m.kind = "CheatState"
          BY <1>3, <4>2, DownFacts, <5>1, Sendable DEF Answers, Toggles, CheatState
        <5>3. up'[c] = Append(up[c], m) BY <1>4, <4>2, <5>1
        <5>4. m \in UpMsg /\ m.kind # "LoginRequest" /\ up[c] \in Seq(UpMsg) BY <1>4, <5>2
        <5>5. NoRequest(Append(up[c], m)) BY <3>1, <5>4, Requests, Zenon
        <5>6. QED BY <5>3, <5>5
      <4>3. CASE h.kind = "RestartRequest" /\ up' = [up EXCEPT ![c] = Append(@, RestartFailed(h.from))]
        <5>1. PICK m : m = RestartFailed(h.from) OBVIOUS
        <5>2. m \in UpMsg /\ m.kind = "RestartRequestFailed"
          BY <1>3, <4>3, DownFacts, <5>1, Sendable DEF RestartFailed
        <5>3. up'[c] = Append(up[c], m) BY <1>4, <4>3, <5>1
        <5>4. m \in UpMsg /\ m.kind # "LoginRequest" /\ up[c] \in Seq(UpMsg) BY <1>4, <5>2
        <5>5. NoRequest(Append(up[c], m)) BY <3>1, <5>4, Requests, Zenon
        <5>6. QED BY <5>3, <5>5
      <4>4. QED BY <1>2, <4>1, <4>2, <4>3 DEF AnswerAfter
    <3>3. status'[c] # "out" BY <1>2, <1>7
    <3>4. Stage(status'[c], TRUE, up'[c]) BY <3>2, <3>3 DEF Stage
    <3>5. (c \in online') = TRUE BY <1>6, <2>2
    <3>6. QED BY <3>4, <3>5 DEF Requested
  <2>3. QED BY <2>1, <2>2
<1>11. InSession(c)' BY <1>2, <1>3, <1>4, <1>7, <1>9 DEF StatusAfter, InSession
<1>12. Greeted(c)' BY <1>7, <1>2, <1>4, <1>9, Lists, <1>5, <1>3, <1>1 DEF Greeted
<1>13. GoneForGood'
  <2>1. Gone \subseteq Gone' BY <1>3, <1>5, <1>6 DEF Gone
  <2>2. ASSUME NEW d \in Conn
        PROVE  Reports(down'[d], Gone')
    BY <1>2, <1>4, <1>5, <2>1, ReportsKept DEF Sessions, GoneForGood
  <2>3. QED BY <2>2 DEF GoneForGood
<1>14. QED BY <1>8, <1>10, <1>11, <1>12, <1>13 DEF Sessions

LEMMA RestSessions ==
  ASSUME TypeOK, Sessions, NEW c \in Conn, StopHandling(c) \/ \E id \in Conn : BallArrives(c, id)
  PROVE  Sessions'
<1>1. PICK z : z = <<>> OBVIOUS
<1>2. Len(z) = 0 /\ \A P : Reports(z, P) BY <1>1 DEF Reports
<1>3. UNCHANGED <<record, up, status, known, shown, game, crashed>>
  BY DEF StopHandling, BallArrives, serverVars, streamVars, playerVars, copyVars, threadVars
<1>4. /\ up \in [Conn -> Seq(UpMsg)] /\ down \in [Conn -> Seq(DownMsg)]
      /\ net \in [Conn -> {"poll", "logged in", "named", "assembled"}]
  BY DEF TypeOK, StreamTypeOK, ThreadTypeOK
<1>5. \/ down' = down /\ net' = net
      \/ status[c] = "left" /\ down' = [down EXCEPT ![c] = z] /\ net' = [net EXCEPT ![c] = "poll"]
  BY <1>1 DEF StopHandling, BallArrives, streamVars, threadVars
<1>6. online' = online /\ Gone' = Gone BY <1>3 DEF online, Gone
<1>7. ASSUME NEW d \in Conn
      PROVE  Requested(d)' /\ InSession(d)' /\ Greeted(d)'
  BY <1>4, <1>5, <1>3, <1>6 DEF Sessions, Requested, InSession, Greeted
<1>8. GoneForGood' BY <1>4, <1>5, <1>2, <1>6 DEF Sessions, GoneForGood
<1>9. QED BY <1>7, <1>8 DEF Sessions

-----------------------------------------------------------------------------
(* Who is known by name.                                                   *)

LEMMA ChangedNames ==
  ASSUME CopyTypeOK, NEW c \in Conn, NEW id \in Conn, NEW g, Change(g), NEW d \in Conn
  PROVE  /\ Named(Changed(c, id, g)[d]) = Named(mirror[d])
         /\ d \in Mod => DOMAIN Changed(c, id, g)[d] = DOMAIN mirror[d]
<1>1. PICK f : f = Changed(c, id, g) OBVIOUS
<1>2. mirror \in [Conn -> Entries] /\ \A e \in Entries : \A k \in DOMAIN e : e[k] \in Entry
  BY EntriesAre DEF CopyTypeOK
<1>3. /\ f \in [Conn -> Entries] /\ (d # c => f[d] = mirror[d])
      /\ \A k \in DOMAIN mirror[c] \ {id} : k \in DOMAIN f[c] /\ f[c][k] = mirror[c][k]
      /\ id \in DOMAIN mirror[c] =>
           DOMAIN f[c] = DOMAIN mirror[c] /\ f[c][id] = Over(mirror[c][id], g)
      /\ id \notin DOMAIN mirror[c] /\ c \in Mod => f = mirror
      /\ id \notin DOMAIN mirror[c] /\ c \notin Mod =>
           DOMAIN f[c] = DOMAIN mirror[c] \cup {id} /\ f[c][id] = Over(Unnamed, g)
  BY <1>1, ChangedIs
<1>4. id \in DOMAIN mirror[c] => Over(mirror[c][id], g).named = mirror[c][id].named
  BY <1>2, ChangeKeeps
<1>5. ~ Over(Unnamed, g).named BY Joins, ChangeKeeps
<1>6. CASE d # c BY <1>1, <1>3, <1>6
<1>7. CASE d = c /\ id \in DOMAIN mirror[c] BY <1>3, <1>7, <1>4, <1>1 DEF Named
<1>8. CASE d = c /\ id \notin DOMAIN mirror[c] /\ c \in Mod BY <1>1, <1>3, <1>8
<1>9. CASE d = c /\ id \notin DOMAIN mirror[c] /\ c \notin Mod BY <1>3, <1>5, <1>9, <1>1 DEF Named
<1>10. QED BY <1>6, <1>7, <1>8, <1>9

LEMMA OwnChangedNames ==
  ASSUME CopyTypeOK, NEW c \in Conn, NEW g, Change(g)
  PROVE  /\ Named(OwnChanged(c, g)[c]) = Named(mirror[c])
         /\ c \in Mod => DOMAIN OwnChanged(c, g)[c] = DOMAIN mirror[c]
BY ChangedNames DEF OwnChanged

(* Players and threads get to know nobody. *)
LEMMA MoveNames ==
  ASSUME TypeOK, NEW c \in Conn, Acts(c) \/ Threads(c)
  PROVE  \/ /\ Named(mirror'[c]) = Named(mirror[c])
            /\ c \in Mod => DOMAIN mirror'[c] = DOMAIN mirror[c]
         \/ status'[c] = "left" /\ DOMAIN mirror'[c] = {}
<1>0. CopyTypeOK /\ mirror \in [Conn -> Entries] /\ status \in [Conn -> {"out", "joining", "in", "left"}]
  BY DEF TypeOK, CopyTypeOK, PlayerTypeOK
<1>1. CASE mirror' = mirror BY <1>1
<1>2. CASE ChangeSector(c)
  <2>1. PICK s \in Sector : mirror' = OwnChanged(c, [sector |-> s]) BY <1>2 DEF ChangeSector
  <2>2. PICK g : g = [sector |-> s] OBVIOUS
  <2>3. Change(g) BY <2>2, Changes
  <2>4. QED BY <1>0, <2>1, <2>2, <2>3, OwnChangedNames
<1>3. CASE SetMap(c)
  <2>1. PICK x \in Map : mirror' = OwnChanged(c, [map |-> x]) BY <1>3 DEF SetMap
  <2>2. PICK g : g = [map |-> x] OBVIOUS
  <2>3. Change(g) BY <2>2, Changes
  <2>4. QED BY <1>0, <2>1, <2>2, <2>3, OwnChangedNames
<1>4. CASE GoesOffline(c)
  <2>1. PICK z : z = <<>> OBVIOUS
  <2>2. mirror' = mirror \/ (mirror' = [mirror EXCEPT ![c] = z] /\ status' = [status EXCEPT ![c] = "left"])
    BY <1>4, <2>1 DEF GoesOffline, copyVars
  <2>3. DOMAIN z = {} BY <2>1, Nobody
  <2>4. QED BY <1>0, <1>1, <2>2, <2>3
<1>5. QED
  BY <1>1, <1>2, <1>3, <1>4
     DEF Acts, Leave, EndGame, Connect, ToggleOwnCheat, ToggleCheats, SetBulletin, Say, Notify, QueryScores, Address,
         AnnounceMap, LoadLevel, copyVars,
         Threads, EnterName, SendName, SendPlace, NetSendsName, Assemble, NetSendsMap

(* Whom a client knows after a message. *)
LEMMA HandledNames ==
  ASSUME CopyTypeOK, NEW c \in Conn, NEW h \in DownMsg, NEW L, L = Named(MirrorAfter(c, h)[c])
  PROVE  /\ h.kind = "LoginAccepted" =>
              DOMAIN h.online \ {c} \subseteq L /\ L \subseteq DOMAIN h.online
         /\ h.kind # "LoginAccepted" /\ (c \in Mod => Named(mirror[c]) = DOMAIN mirror[c]) =>
              L = (Named(mirror[c]) \cup Brings(h)) \ Takes(h)
         /\ (c \in Mod => Named(mirror[c]) = DOMAIN mirror[c]) =>
              (c \in Mod => L = DOMAIN MirrorAfter(c, h)[c])
         /\ \A d \in Conn \ {c} : MirrorAfter(c, h)[d] = mirror[d]
<1>1. mirror \in [Conn -> Entries] /\ mirror[c] \in Entries BY DEF CopyTypeOK
<1>2. PICK f : f = MirrorAfter(c, h) OBVIOUS
<1>3. L = Named(f[c]) BY <1>2
<1> SUFFICES
      /\ h.kind = "LoginAccepted" => DOMAIN h.online \ {c} \subseteq L /\ L \subseteq DOMAIN h.online
      /\ h.kind # "LoginAccepted" /\ (c \in Mod => Named(mirror[c]) = DOMAIN mirror[c]) =>
           L = (Named(mirror[c]) \cup Brings(h)) \ Takes(h)
      /\ (c \in Mod => Named(mirror[c]) = DOMAIN mirror[c]) => (c \in Mod => L = DOMAIN f[c])
      /\ \A d \in Conn \ {c} : f[d] = mirror[d]
  BY <1>2
<1>4. CASE h.kind = "LoginAccepted"
  <2>1. PICK r \in Records : r = h.online BY <1>4, DownFacts
  <2>2. r \in Entries /\ \A d \in DOMAIN r : r[d].named BY <2>1 DEF Records
  <2>3. PICK v : v = Without(r, c) OBVIOUS
  <2>4. DOMAIN v = DOMAIN r \ {c} /\ \A d \in DOMAIN v : v[d].named
    <3>1. DOMAIN Without(r, c) = DOMAIN r \ {c} /\ \A d \in DOMAIN r \ {c} : Without(r, c)[d] = r[d]
      BY <2>2, Removed
    <3>2. QED BY <2>2, <2>3, <3>1
  <2>5. f = [mirror EXCEPT ![c] = IF c \in Mod THEN v ELSE r]
    BY <1>2, <1>4, <2>1, <2>3 DEF MirrorAfter
  <2>6. f[c] = (IF c \in Mod THEN v ELSE r) /\ \A d \in Conn \ {c} : f[d] = mirror[d] BY <1>1, <2>5
  <2>7. Named(v) = DOMAIN v /\ Named(r) = DOMAIN r BY <2>2, <2>4 DEF Named
  <2>8. QED BY <1>3, <1>4, <2>1, <2>4, <2>6, <2>7
<1>5. CASE h.kind = "PlayerConnected"
  <2>1. PICK v, id : v = Player(h.cheated, Nowhere) /\ id = h.from OBVIOUS
  <2>2. v.named /\ Brings(h) = {id} /\ Takes(h) = {} BY <1>5, <2>1, Joins, DownFacts, BringsIs
  <2>3. PICK w : w = With(mirror[c], id, v) OBVIOUS
  <2>4. /\ DOMAIN w = DOMAIN mirror[c] \cup {id} /\ w[id] = v
        /\ \A d \in DOMAIN mirror[c] \ {id} : w[d] = mirror[c][d]
    <3>1. PICK q : q = mirror[c] OBVIOUS
    <3>2. DOMAIN With(q, id, v) = DOMAIN q \cup {id} BY WithIs
    <3>3. With(q, id, v)[id] = v BY WithIs
    <3>4. \A d \in DOMAIN q \ {id} : With(q, id, v)[d] = q[d] BY WithIs
    <3>5. QED BY <2>3, <3>1, <3>2, <3>3, <3>4
  <2>5. Named(w) = Named(mirror[c]) \cup {id} BY <2>2, <2>4 DEF Named
  <2>6. \/ f = mirror /\ c \in Mod /\ id \in DOMAIN mirror[c]
        \/ f = [mirror EXCEPT ![c] = w]
    BY <1>2, <1>5, <2>1, <2>3 DEF MirrorAfter
  <2>7. CASE f = mirror /\ c \in Mod /\ id \in DOMAIN mirror[c] BY <1>3, <1>5, <2>2, <2>7
  <2>8. CASE f = [mirror EXCEPT ![c] = w] BY <1>1, <2>8, <1>3, <1>5, <2>2, <2>4, <2>5
  <2>9. QED BY <2>6, <2>7, <2>8
<1>6. CASE h.kind = "PlayerDisconnected"
  <2>1. PICK id : id = h.from OBVIOUS
  <2>2. Brings(h) = {} /\ Takes(h) = {id} BY <1>6, <2>1, BringsIs
  <2>3. PICK w : w = Without(mirror[c], id) OBVIOUS
  <2>4. DOMAIN w = DOMAIN mirror[c] \ {id} /\ \A d \in DOMAIN mirror[c] \ {id} : w[d] = mirror[c][d]
    BY <1>1, <2>3, Removed
  <2>5. Named(w) = Named(mirror[c]) \ {id} BY <2>4 DEF Named
  <2>6. f = [mirror EXCEPT ![c] = w] BY <1>2, <1>6, <2>1, <2>3 DEF MirrorAfter
  <2>7. f[c] = w /\ \A d \in Conn \ {c} : f[d] = mirror[d] BY <1>1, <2>6
  <2>8. QED BY <1>3, <1>6, <2>2, <2>4, <2>5, <2>7
<1>7. CASE h.kind \notin {"LoginAccepted", "PlayerConnected", "PlayerDisconnected"}
  <2>1. f = mirror \/ \E id \in Conn : \E g : Change(g) /\ f = Changed(c, id, g)
    BY DownFacts, Changes, <1>2, <1>7 DEF MirrorAfter
  <2>2. \A d \in Conn : Named(f[d]) = Named(mirror[d]) /\ (d \in Mod => DOMAIN f[d] = DOMAIN mirror[d])
    BY <2>1, ChangedNames
  <2>3. \A d \in Conn \ {c} : f[d] = mirror[d] BY <2>1, ChangedIs
  <2>4. Brings(h) = {} /\ Takes(h) = {} BY <1>7, BringsIs
  <2>5. QED BY <1>3, <1>7, <2>2, <2>3, <2>4
<1>8. QED BY <1>4, <1>5, <1>6, <1>7

-----------------------------------------------------------------------------
(* The roster, step by step.                                               *)

LEMMA InitRosters == Init => Rosters
<1> SUFFICES ASSUME Init PROVE Rosters OBVIOUS
<1>1. PICK e : e = <<>> OBVIOUS
<1>2. DOMAIN e = {} /\ record = e /\ \A c \in Conn : mirror[c] = e BY <1>1, Nobody DEF Init
<1>3. Mod \subseteq Conn BY AnnouncementsAssumption
<1>4. QED BY <1>2, <1>3 DEF Rosters, online, Named

LEMMA MoveRosters ==
  ASSUME TypeOK, Sessions, Rosters, NEW c \in Conn, Acts(c) \/ Threads(c)
  PROVE  Rosters'
<1>1. /\ UNCHANGED <<record, down>>
      /\ \A d \in Conn \ {c} : status'[d] = status[d] /\ mirror'[d] = mirror[d]
  BY MoveFrame
<1>2. \/ /\ Named(mirror'[c]) = Named(mirror[c])
         /\ c \in Mod => DOMAIN mirror'[c] = DOMAIN mirror[c]
      \/ status'[c] = "left" /\ DOMAIN mirror'[c] = {}
  BY MoveNames
<1>3. Moves(c) /\ Stage(status[c], c \in online, up[c])
  BY ActsMove, ThreadsMove DEF Sessions, Requested
<1>4. status \in [Conn -> {"out", "joining", "in", "left"}] BY DEF TypeOK, PlayerTypeOK
<1>5. \/ status'[c] = status[c]
      \/ c \notin online
      \/ status'[c] = "left"
  BY <1>3, <1>4 DEF Stage, Moves
<1>6. online' = online /\ online \subseteq Conn /\ Mod \subseteq Conn
  BY <1>1, AnnouncementsAssumption, EntriesAre DEF online, TypeOK, ServerTypeOK, Records
<1>7. ASSUME NEW d \in online, Active(d)'
      PROVE  Roster(d, down'[d], Knows(d)', online')
  BY <1>2, <1>5, <1>7, <1>1, <1>6 DEF Active, Knows, Rosters
<1>8. ASSUME NEW d \in Mod
      PROVE  Named(mirror'[d]) = DOMAIN mirror'[d]
  BY <1>1, <1>6, <1>2 DEF Rosters, Named
<1>9. QED BY <1>6, <1>7, <1>8 DEF Rosters

LEMMA SpeakRosters ==
  ASSUME TypeOK, Sessions, Rosters, NEW c \in Conn,
         Relaying(c) \/ ServerHashes(c) \/ ConsoleToggleCheat \/ ConsoleBulletin
  PROVE  Rosters'
<1>1. PICK w : Speech(w) BY Speaking
<1>2. online' = online /\ UNCHANGED <<status, mirror>> BY Speaking DEF online, playerVars, copyVars
<1>3. /\ down \in [Conn -> Seq(DownMsg)] /\ w \in [Conn -> Seq(DownMsg)]
      /\ \A d \in Conn : down'[d] = down[d] \o w[d] /\ Plain(w[d])
  BY <1>1 DEF TypeOK, StreamTypeOK, Speech, Adds
<1>4. online \subseteq Conn BY EntriesAre DEF online, TypeOK, ServerTypeOK, Records
<1>5. ASSUME NEW d \in online, Active(d)
      PROVE  Roster(d, down'[d], Knows(d), online)
  <2>1. Roster(d, down[d], Knows(d), online) BY <1>5 DEF Rosters
  <2>2. PICK s, v \in Seq(DownMsg) : s = down[d] /\ v = w[d] BY <1>3, <1>4
  <2>3. ASSUME NEW i \in 1 .. Len(v)
        PROVE  Brings(v[i]) = {} /\ Takes(v[i]) = {} /\ Needs(v[i]) \ {d} \subseteq online
    <3>1. /\ v[i] \in DownMsg /\ Mentioned(v[i]) \subseteq online
          /\ v[i].kind \notin {"PlayerConnected", "PlayerDisconnected", "LoginAccepted"}
      BY <1>3, <1>4, <2>2 DEF Plain
    <3>2. QED BY <3>1, BringsIs
  <2>4. Roster(d, s \o v, Knows(d), online) BY <2>1, <2>2, <2>3, RosterGrows
  <2>5. QED BY <1>3, <1>4, <2>2, <2>4, Zenon
<1>6. ASSUME NEW d \in online, Active(d)'
      PROVE  Roster(d, down'[d], Knows(d)', online')
  BY <1>2, <1>6, <1>5 DEF Active, Knows
<1>7. QED BY <1>2, <1>6 DEF Rosters

LEMMA LoginRosters ==
  ASSUME TypeOK, Sessions, Rosters, NEW c \in Conn, ServerLogin(c)
  PROVE  Rosters'
<1>1. /\ c \notin online /\ status[c] \in {"joining", "left"} /\ up[c] # <<>>
      /\ UNCHANGED <<status, mirror>>
      /\ record' \in Records /\ online' = online \cup {c}
  BY LoginIs DEF playerVars, copyVars
<1>2. /\ up \in [Conn -> Seq(UpMsg)] /\ down \in [Conn -> Seq(DownMsg)] /\ ServerTypeOK
  BY DEF TypeOK, StreamTypeOK
<1>3. online \subseteq Conn BY EntriesAre DEF online, TypeOK, ServerTypeOK, Records
<1>4. \A d \in Conn : Active(d)' = Active(d) /\ Knows(d)' = Knows(d) BY <1>1 DEF Active, Knows
<1>5. ASSUME NEW d \in online, Active(d)
      PROVE  Roster(d, down'[d], Knows(d), online')
  <2>1. PICK x \in BOOLEAN : \A q \in Conn \ {c} :
          \/ q \in online /\ down'[q] = Append(down[q], PlayerConnected(c, x))
          \/ q \notin online /\ down'[q] = down[q]
    BY LoginIs
  <2>2. PICK m : m = PlayerConnected(c, x) OBVIOUS
  <2>3. m \in DownMsg /\ m.kind = "PlayerConnected" /\ m.from = c
    BY <2>1, <2>2, Tellable DEF PlayerConnected
  <2>4. Brings(m) = {c} /\ Takes(m) = {} /\ Needs(m) = {} BY <2>3, BringsIs
  <2>5. PICK s \in Seq(DownMsg) : s = down[d] BY <1>2, <1>3
  <2>6. down'[d] = Append(s, m) BY <1>1, <1>3, <2>1, <2>2, <2>5
  <2>7. \A j \in 1 .. Len(s) : c \notin Takes(s[j])
    BY <1>1, <1>2, NonEmpty, <1>3, <2>5 DEF Gone, Sessions, GoneForGood, Reports
  <2>8. Roster(d, s, Knows(d), online) BY <1>5, <2>5 DEF Rosters
  <2>9. Roster(d, Append(s, m), Knows(d), online') BY <1>1, <2>4, <2>7, <2>3, <2>5, <2>8, RosterEnds
  <2>10. QED BY <2>6, <2>9
<1>6. ASSUME Active(c)
      PROVE  Roster(c, down'[c], Knows(c), online')
  <2>1. status[c] = "joining" /\ Knows(c) = {} /\ Len(down[c]) = 0
    BY <1>1, <1>6 DEF Active, Knows, Sessions, Requested
  <2>2. PICK r, ch : r = record' /\ ch = Head(up[c]).cheated OBVIOUS
  <2>3. PICK a, t, b \in Seq(DownMsg) :
          /\ down'[c] = down[c] \o (a \o <<LoginAccepted(r)>> \o t \o b)
          /\ Greets(c, ch, a, t, b)
    BY <2>2, LoginIs
  <2>4. PICK e, w, m : GreetingIs(r, a, t, b, e, w, m)
    <3>1. r \in Records BY <1>1, <2>2
    <3>2. QED BY <2>3, <3>1, Greeting
  <2>5. /\ a \in Seq(DownMsg) /\ e \in Seq(DownMsg) /\ w \in Seq(DownMsg) /\ m \in DownMsg
        /\ m.kind = "LoginAccepted" /\ m.online = r /\ e = a \o <<m>>
        /\ \A i \in 1 .. Len(a) : a[i].kind = "MapNames"
        /\ \A i \in 1 .. Len(w) : w[i].kind \in {"CheatToggle", "PermanentNotification"}
    BY <2>3, <2>4 DEF GreetingIs
  <2>6. down'[c] = e \o w
    <3>1. PICK s \in Seq(DownMsg) : s = down[c] BY <1>2
    <3>2. s = <<>> BY <2>1, <3>1
    <3>3. PICK v \in Seq(DownMsg) : v = e \o w BY <2>5, Joined
    <3>4. <<>> \o v = v OBVIOUS
    <3>5. QED BY <2>3, <2>4, <3>1, <3>2, <3>3, <3>4, Zenon DEF GreetingIs
  <2>7. Brings(m) = online' /\ Takes(m) = {} /\ Needs(m) = {} BY <2>5, BringsIs, <2>2 DEF online
  <2>8. \A i \in 1 .. Len(a) : Brings(a[i]) = {} /\ Takes(a[i]) = {} /\ Needs(a[i]) = {}
    <3>1. PICK s \in Seq(DownMsg) : s = a BY <2>5
    <3>2. \A i \in 1 .. Len(s) : s[i] \in DownMsg BY <3>1
    <3>3. \A i \in 1 .. Len(a) : a[i] \in DownMsg /\ a[i].kind = "MapNames" BY <2>5, <3>1, <3>2
    <3>4. QED BY <3>3, BringsIs, NamesOf
  <2>9. \A i \in 1 .. Len(w) : Brings(w[i]) = {} /\ Takes(w[i]) = {} /\ Needs(w[i]) \ {c} \subseteq online'
    <3>1. PICK s \in Seq(DownMsg) : s = w BY <2>5
    <3>2. \A i \in 1 .. Len(s) : s[i] \in DownMsg BY <3>1
    <3>3. \A i \in 1 .. Len(w) : w[i] \in DownMsg /\ w[i].kind \in {"CheatToggle", "PermanentNotification"}
      BY <2>5, <3>1, <3>2
    <3>4. QED BY <3>3, BringsIs, NamesOf
  <2>10. Roster(c, a \o <<m>>, {}, Brings(m)) BY <2>5, <2>7, <2>8, RosterStarts
  <2>11. Roster(c, e, {}, online') BY <2>5, <2>7, <2>10, Zenon
  <2>12. Roster(c, e \o w, {}, online') BY <2>5, <2>9, <2>11, RosterGrows
  <2>13. QED BY <2>1, <2>6, <2>12, Zenon
<1>7. \A d \in online' : Active(d)' => Roster(d, down'[d], Knows(d)', online')
  BY <1>1, <1>3, <1>4, <1>5, <1>6
<1>8. QED BY <1>1, <1>7 DEF Rosters

LEMMA DepartRosters ==
  ASSUME TypeOK, Sessions, Rosters, NEW c \in Conn, Depart(c)
  PROVE  Rosters'
<1>1. /\ c \in online /\ status[c] = "left" /\ UNCHANGED <<status, mirror>>
      /\ online' = online \ {c}
      /\ down' = Told(down, online \ {c}, PlayerDisconnected(c))
  BY DEF Depart, playerVars, copyVars, DepartTold, online, Without
<1>2. down \in [Conn -> Seq(DownMsg)] BY DEF TypeOK, StreamTypeOK
<1>3. online \subseteq Conn BY EntriesAre DEF online, TypeOK, ServerTypeOK, Records
<1>4. PICK m : m = PlayerDisconnected(c) OBVIOUS
<1>5. m \in DownMsg /\ m.kind = "PlayerDisconnected" /\ m.from = c
  BY <1>4, Tellable DEF PlayerDisconnected
<1>6. Brings(m) = {} /\ Takes(m) = {c} /\ Needs(m) = {c} BY <1>5, BringsIs, NamesOf
<1>7. ASSUME NEW d \in online', Active(d)'
      PROVE  Roster(d, down'[d], Knows(d)', online')
  <2>1. d \in online \ {c} /\ Active(d) /\ Knows(d)' = Knows(d) BY <1>1, <1>7 DEF Active, Knows
  <2>2. PICK s \in Seq(DownMsg) : s = down[d] BY <1>2, <1>3, <2>1
  <2>3. down'[d] = Append(s, m) BY <1>1, <1>3, <1>4, <2>1, <2>2 DEF Told
  <2>4. Roster(d, s, Knows(d), online) BY <2>1, <2>2 DEF Rosters
  <2>5. Roster(d, Append(s, m), Knows(d), online') BY <1>1, <1>6, <1>5, <2>2, <2>4, RosterEnds
  <2>6. QED BY <2>1, <2>3, <2>5
<1>8. QED BY <1>1, <1>7 DEF Rosters

LEMMA ClientRosters ==
  ASSUME TypeOK, Sessions, Rosters, NEW c \in Conn, ClientHandles(c)
  PROVE  Rosters'
<1>1. PICK h : h = Head(down[c]) OBVIOUS
<1>2. /\ CopyAfter(c, h) /\ StatusAfter(c, h)
      /\ down[c] # <<>> /\ down' = [down EXCEPT ![c] = Tail(@)]
      /\ record' = record
  BY <1>1, HandlingIs DEF serverVars
<1>3. /\ h \in DownMsg
      /\ c \in online /\ Active(c) => Roster(c, down[c], Knows(c), online)
      /\ status[c] = "joining" => h.kind \in {"LoginAccepted", "MapNames"}
      /\ status[c] = "in" => h.kind # "LoginAccepted"
  BY <1>1, HandledIn
<1>4. /\ down \in [Conn -> Seq(DownMsg)] /\ CopyTypeOK /\ mirror \in [Conn -> Entries]
      /\ status \in [Conn -> {"out", "joining", "in", "left"}]
  BY DEF TypeOK, StreamTypeOK, PlayerTypeOK, CopyTypeOK
<1>5. /\ down'[c] = Tail(down[c]) /\ mirror' = MirrorAfter(c, h)
      /\ \A d \in Conn \ {c} : down'[d] = down[d] /\ status'[d] = status[d]
      /\ status'[c] = IF h.kind = "LoginAccepted" /\ status[c] = "joining" THEN "in" ELSE status[c]
  BY <1>2, <1>4 DEF CopyAfter, StatusAfter
<1>6. c \in Mod => Named(mirror[c]) = DOMAIN mirror[c] BY DEF Rosters
<1>7. /\ \A d \in Conn \ {c} : mirror'[d] = mirror[d]
      /\ c \in Mod => Named(mirror'[c]) = DOMAIN mirror'[c]
      /\ h.kind = "LoginAccepted" =>
           /\ DOMAIN h.online \ {c} \subseteq Named(mirror'[c])
           /\ Named(mirror'[c]) \subseteq DOMAIN h.online
      /\ h.kind # "LoginAccepted" =>
           Named(mirror'[c]) = (Named(mirror[c]) \cup Brings(h)) \ Takes(h)
  BY <1>3, <1>4, <1>5, <1>6, HandledNames
<1>8. online' = online /\ online \subseteq Conn /\ Mod \subseteq Conn
  BY <1>2, AnnouncementsAssumption, EntriesAre DEF online, TypeOK, ServerTypeOK, Records
<1>9. ASSUME c \in online, Active(c)'
      PROVE  Roster(c, down'[c], Knows(c)', online')
  <2>1. Active(c) BY <1>4, <1>5, <1>9 DEF Active
  <2>2. /\ (Knows(c) \cup Brings(h)) \ (Takes(h) \cup {c}) \subseteq Knows(c)'
        /\ Knows(c)' \subseteq (Knows(c) \cup Brings(h)) \ Takes(h)
    BY <1>3, <1>5, <1>7, BringsIs, <2>1 DEF Knows, Active
  <2>3. \E s \in Seq(DownMsg) : \E K, L : s = down[c] /\ K = Knows(c) /\ L = Knows(c)' BY <1>4
  <2>s. PICK s, K, L : s \in Seq(DownMsg) /\ s = down[c] /\ K = Knows(c) /\ L = Knows(c)' BY <2>3
  <2>4. Roster(c, Tail(s), L, online) BY <1>1, <1>2, <1>3, <1>9, <2>1, <2>s, <2>2, RosterTaken
  <2>5. QED BY <1>5, <1>8, <2>s, <2>4
<1>10. ASSUME NEW d \in online \ {c}, Active(d)'
       PROVE  Roster(d, down'[d], Knows(d)', online')
  BY <1>5, <1>7, <1>8, <1>10 DEF Active, Knows, Rosters
<1>11. ASSUME NEW d \in Mod
       PROVE  Named(mirror'[d]) = DOMAIN mirror'[d]
  BY <1>7, <1>8 DEF Rosters
<1>12. \A d \in online' : Active(d)' => Roster(d, down'[d], Knows(d)', online') BY <1>8, <1>9, <1>10
<1>13. QED BY <1>11, <1>12 DEF Rosters

LEMMA RestRosters ==
  ASSUME TypeOK, Sessions, Rosters, NEW c \in Conn, StopHandling(c) \/ \E id \in Conn : BallArrives(c, id)
  PROVE  Rosters'
<1>1. CopyTypeOK /\ down \in [Conn -> Seq(DownMsg)] BY DEF TypeOK, StreamTypeOK
<1>2. record' = record /\ status' = status BY DEF StopHandling, BallArrives, serverVars, playerVars
<1>3. online' = online /\ online \subseteq Conn /\ Mod \subseteq Conn
  BY <1>2, AnnouncementsAssumption, EntriesAre DEF online, TypeOK, ServerTypeOK, Records
<1>4. \A d \in Conn : /\ Named(mirror'[d]) = Named(mirror[d])
                      /\ d \in Mod => DOMAIN mirror'[d] = DOMAIN mirror[d]
  BY <1>1, Changes, ChangedNames DEF StopHandling, BallArrives, copyVars
<1>5. \A d \in Conn : down'[d] = down[d] \/ status[d] = "left"
  <2>1. PICK z : z = <<>> OBVIOUS
  <2>2. down' = down \/ (status[c] = "left" /\ down' = [down EXCEPT ![c] = z])
    BY <2>1 DEF StopHandling, BallArrives, streamVars
  <2>3. QED BY <1>1, <2>2
<1>6. ASSUME NEW d \in online, Active(d)'
      PROVE  Roster(d, down'[d], Knows(d)', online')
  BY <1>2, <1>3, <1>4, <1>5, <1>6 DEF Active, Knows, Rosters
<1>7. QED BY <1>3, <1>4, <1>6 DEF Rosters

-----------------------------------------------------------------------------
(* The roster is known.                                                    *)

(* A step by whom, and of what sort. *)
LEMMA StepIs ==
  ASSUME [Next]_vars
  PROVE  \/ Resting
         \/ ConsoleToggleCheat \/ ConsoleBulletin
         \/ \E c \in Conn : \/ Acts(c) \/ Threads(c) \/ Relaying(c) \/ ServerHashes(c)
                            \/ ServerLogin(c) \/ ClientHandles(c) \/ Depart(c)
                            \/ StopHandling(c) \/ \E id \in Conn : BallArrives(c, id)
BY RestingIs DEF Next, ServerHandles, Relaying

LEMMA NobodyThere ==
  ASSUME TypeOK, Conn = {}
  PROVE  Sessions /\ Rosters
BY EntriesAre, AnnouncementsAssumption DEF TypeOK, ServerTypeOK, Records, online, Sessions, Rosters,
   GoneForGood

LEMMA NextSessions ==
  ASSUME TypeOK, Sessions, Rosters, [Next]_vars
  PROVE  Sessions'
<1>1. CASE Resting
  <2>1. \A d \in Conn : Ending(shown'[d]) = Ending(shown[d]) BY <1>1, RestingKeeps DEF TypeOK
  <2>2. \A d \in Conn : Requested(d)'
    BY <1>1, <2>1 DEF Resting, serverVars, streamVars, playerVars, Sessions, Requested, online
  <2>3. QED
    BY <1>1, <2>2 DEF Resting, serverVars, streamVars, playerVars, threadVars, history,
       Sessions, InSession, Greeted, GoneForGood, Gone, online
<1>2. CASE Conn = {}
  <2>1. TypeOK' BY NextTyped
  <2>2. QED BY <1>2, <2>1, NobodyThere DEF Sessions, GoneForGood
<1>3. CASE Conn # {}
  <2>1. PICK d \in Conn : TRUE BY <1>3
  <2>2. ConsoleToggleCheat \/ ConsoleBulletin => Sessions' BY <2>1, SpeakSessions
  <2>3. QED
    BY <1>1, <2>2, StepIs, MoveSessions, SpeakSessions, LoginSessions, DepartSessions, ClientSessions,
       RestSessions
<1>4. QED BY <1>2, <1>3

LEMMA NextRosters ==
  ASSUME TypeOK, Sessions, Rosters, [Next]_vars
  PROVE  Rosters'
<1>1. CASE Resting
  BY <1>1 DEF Resting, serverVars, streamVars, playerVars, threadVars, history,
     Rosters, Knows, Active, online
<1>2. CASE Conn = {}
  <2>1. online' = {}
    <3>1. TypeOK' BY NextTyped
    <3>2. QED BY <1>2, <3>1, EntriesAre DEF TypeOK, ServerTypeOK, Records, online
  <2>2. Mod = {} BY <1>2, AnnouncementsAssumption
  <2>3. QED BY <2>1, <2>2 DEF Rosters
<1>3. CASE Conn # {}
  <2>1. PICK d \in Conn : TRUE BY <1>3
  <2>2. ConsoleToggleCheat \/ ConsoleBulletin => Rosters' BY <2>1, SpeakRosters
  <2>3. QED
    BY <1>1, <2>2, StepIs, MoveRosters, SpeakRosters, LoginRosters, DepartRosters, ClientRosters,
       RestRosters
<1>4. QED BY <1>2, <1>3

LEMMA RostersKnown == TypeOK /\ Sessions /\ Rosters => RosterKnown
<1> SUFFICES ASSUME TypeOK, Sessions, Rosters PROVE RosterKnown OBVIOUS
<1>1. /\ status \in [Conn -> {"out", "joining", "in", "left"}] /\ down \in [Conn -> Seq(DownMsg)]
      /\ crashed \subseteq Conn
  BY DEF TypeOK, StreamTypeOK, PlayerTypeOK, ThreadTypeOK
<1>2. ASSUME NEW c \in Conn, status[c] = "in"
      PROVE  Roster(c, down[c], Named(mirror[c]), online)
  <2>1. c \in online BY <1>2 DEF Sessions, Requested, Stage
  <2>2. QED BY <1>2, <2>1 DEF Rosters, Active, Knows
<1>3. ASSUME NEW c \in Conn, status[c] = "in", down[c] # <<>>, Head(down[c]).kind # "PlayerConnected",
             NEW id \in Mentioned(Head(down[c]))
      PROVE  Names(c, id)
  <2>1. PICK h : h = Head(down[c]) OBVIOUS
  <2>2. h = down[c][1] /\ 1 \in 1 .. Len(down[c]) BY <1>1, <1>3, <2>1, Taken
  <2>3. id \in Needs(h) BY <1>3, <2>1 DEF Needs
  <2>4. id = c \/ id \in Named(mirror[c]) BY <1>2, <1>3, <2>2, <2>3 DEF Roster, NeedsMet
  <2>5. QED BY <2>4 DEF Names, Named
<1>4. ASSUME NEW c \in Conn, status[c] = "in", NEW id \in DOMAIN mirror[c], mirror[c][id].named
      PROVE  id \in online \/ \E i \in 1 .. Len(down[c]) : down[c][i] = PlayerDisconnected(id)
  <2>1. id \in online \/ \E i \in 1 .. Len(down[c]) : id \in Takes(down[c][i])
    BY <1>2, <1>4 DEF Roster, Accounted, Named
  <2>2. ASSUME NEW i \in 1 .. Len(down[c]), id \in Takes(down[c][i])
        PROVE  down[c][i] = PlayerDisconnected(id)
    <3>1. PICK m \in DownMsg : m = down[c][i] BY <1>1
    <3>2. m.kind = "PlayerDisconnected" /\ id = m.from BY <2>2, <3>1 DEF Takes
    <3>3. QED BY <3>1, <3>2, DownFacts
  <2>3. QED BY <2>1, <2>2
<1>5. \A c \in crashed : status[c] = "left" BY <1>1 DEF Sessions, InSession
<1>6. QED BY <1>3, <1>4, <1>5 DEF RosterKnown

LEMMA InitKnown == Init => TypeOK /\ Sessions /\ Rosters
BY InitTyped, InitSessions, InitRosters

LEMMA NextKnown == TypeOK /\ Sessions /\ Rosters /\ [Next]_vars => TypeOK' /\ Sessions' /\ Rosters'
BY NextTyped, NextSessions, NextRosters

(* Whoever a client is told about, it knows, no exception ends the game of  *)
(* somebody who has not left, and whom it knows is online, or the word that *)
(* they left is on its way.                                                *)
THEOREM RosterIsKnown == Spec => []RosterKnown
<1>1. TypeOK /\ Sessions /\ Rosters => RosterKnown BY RostersKnown
<1>2. QED BY <1>1, InitKnown, NextKnown, PTL DEF Spec

-----------------------------------------------------------------------------
(* The bulletin and the streams.                                           *)

LEMMA Single ==
  ASSUME NEW S, NEW s \in Seq(S), Len(s) = 1
  PROVE  s = <<s[1]>>
OBVIOUS

LEMMA ShowingKept ==
  ASSUME NEW sh, NEW b, NEW s \in Seq(DownMsg), NEW w \in Seq(DownMsg), EndsShowing(s, sh, b),
         \A i \in 1 .. Len(w) : w[i].kind # "PermanentNotification"
  PROVE  EndsShowing(s \o w, sh, b)
<1>1. PICK t \in Seq(DownMsg) : t = s \o w BY Joined
<1>2. /\ Len(s) \in Nat /\ Len(w) \in Nat /\ Len(t) = Len(s) + Len(w)
      /\ \A i \in 1 .. Len(s) : t[i] = s[i] /\ i \in 1 .. Len(t)
      /\ \A i \in 1 .. Len(t) :
           \/ i \in 1 .. Len(s)
           \/ t[i].kind # "PermanentNotification"
  BY <1>1, Joined
<1>3. CASE sh = b /\ \A i \in 1 .. Len(s) : s[i].kind # "PermanentNotification"
  BY <1>1, <1>2, <1>3 DEF EndsShowing
<1>4. ASSUME NEW i \in 1 .. Len(s), s[i].kind = "PermanentNotification", s[i].text = b,
             \A j \in i + 1 .. Len(s) : s[j].kind # "PermanentNotification"
      PROVE  EndsShowing(t, sh, b)
  <2>1. i \in 1 .. Len(t) /\ t[i] = s[i] BY <1>2
  <2>2. ASSUME NEW j \in i + 1 .. Len(t)
        PROVE  t[j].kind # "PermanentNotification"
    <3>1. j \in 1 .. Len(t) BY <1>2
    <3>2. j \in 1 .. Len(s) => j \in i + 1 .. Len(s) BY <1>2
    <3>3. QED BY <1>2, <1>4, <3>1, <3>2
  <2>3. QED BY <1>4, <2>1, <2>2 DEF EndsShowing
<1>5. QED BY <1>1, <1>3, <1>4 DEF EndsShowing

LEMMA ShowingSet ==
  ASSUME NEW sh, NEW s \in Seq(DownMsg), NEW m \in DownMsg, m.kind = "PermanentNotification"
  PROVE  EndsShowing(Append(s, m), sh, m.text)
<1>1. PICK t \in Seq(DownMsg) : t = Append(s, m) BY Appended
<1>2. Len(s) \in Nat /\ Len(t) = Len(s) + 1 /\ t[Len(s) + 1] = m BY <1>1, Appended
<1>3. PICK i : i = Len(s) + 1 OBVIOUS
<1>4. i \in 1 .. Len(t) /\ t[i] = m /\ \A j \in i + 1 .. Len(t) : FALSE BY <1>2, <1>3
<1>5. QED BY <1>1, <1>4 DEF EndsShowing

LEMMA ShowingTaken ==
  ASSUME NEW sh, NEW b, NEW s \in Seq(DownMsg), s # <<>>, EndsShowing(s, sh, b), NEW now,
         now = IF Head(s).kind = "PermanentNotification" THEN Head(s).text ELSE sh
  PROVE  EndsShowing(Tail(s), now, b)
<1>1. PICK t \in Seq(DownMsg) : t = Tail(s) BY Taken
<1>2. /\ Len(s) \in Nat \ {0} /\ Len(t) = Len(s) - 1 /\ Head(s) = s[1] /\ 1 \in 1 .. Len(s)
      /\ \A i \in 1 .. Len(t) : t[i] = s[i + 1] /\ i + 1 \in 1 .. Len(s)
  BY <1>1, Taken
<1>3. CASE sh = b /\ \A i \in 1 .. Len(s) : s[i].kind # "PermanentNotification"
  BY <1>1, <1>2, <1>3 DEF EndsShowing
<1>4. ASSUME NEW i \in 1 .. Len(s), s[i].kind = "PermanentNotification", s[i].text = b,
             \A j \in i + 1 .. Len(s) : s[j].kind # "PermanentNotification"
      PROVE  EndsShowing(t, now, b)
  <2>1. \A j \in 1 .. Len(t) : j \in i .. Len(t) => t[j].kind # "PermanentNotification"
    BY <1>2, <1>4
  <2>2. CASE i = 1 BY <1>2, <1>4, <2>1, <2>2 DEF EndsShowing
  <2>3. CASE i # 1
    <3>1. PICK k : k = i - 1 OBVIOUS
    <3>2. k \in 1 .. Len(t) /\ t[k] = s[i] BY <1>2, <2>3, <3>1
    <3>3. \A j \in k + 1 .. Len(t) : j \in 1 .. Len(t) /\ j \in i .. Len(t) BY <1>2, <2>3, <3>1
    <3>4. QED BY <1>4, <2>1, <3>2, <3>3 DEF EndsShowing
  <2>4. QED BY <2>2, <2>3
<1>5. QED BY <1>1, <1>3, <1>4 DEF EndsShowing

-----------------------------------------------------------------------------
(* The bulletin, step by step.                                             *)

LEMMA InitBulletins == Init => Bulletins
<1> SUFFICES ASSUME Init PROVE Bulletins OBVIOUS
<1>1. online = {} BY Nobody DEF Init, online
<1>2. QED BY <1>1 DEF Bulletins

(* Players leave what they show, and threads too. *)
LEMMA MoveShown ==
  ASSUME TypeOK, NEW c \in Conn, Acts(c) \/ Threads(c)
  PROVE  shown'[c] = shown[c] \/ status'[c] = "left"
BY DEF Leave, EndGame, GoesOffline, TypeOK, PlayerTypeOK, Acts, Threads, Connect, ToggleOwnCheat, ToggleCheats, SetBulletin,
   Say, Notify, QueryScores, Address, AnnounceMap, ChangeSector, SetMap, LoadLevel, EnterName, SendName,
   SendPlace, NetSendsName, Assemble, NetSendsMap, copyVars

LEMMA MoveBulletins ==
  ASSUME TypeOK, Sessions, Bulletins, NEW c \in Conn, Acts(c) \/ Threads(c)
  PROVE  Bulletins'
<1>1. /\ UNCHANGED <<record, bulletin, down>>
      /\ \A d \in Conn \ {c} : status'[d] = status[d] /\ shown'[d] = shown[d]
  BY MoveFrame
<1>2. shown'[c] = shown[c] \/ status'[c] = "left" BY MoveShown
<1>3. Moves(c) /\ Stage(status[c], c \in online, up[c])
  BY ActsMove, ThreadsMove DEF Sessions, Requested
<1>4. status \in [Conn -> {"out", "joining", "in", "left"}] BY DEF TypeOK, PlayerTypeOK
<1>5. status'[c] = status[c] \/ c \notin online \/ status'[c] = "left"
  BY <1>3, <1>4 DEF Stage, Moves
<1>6. online' = online /\ online \subseteq Conn
  BY <1>1, EntriesAre DEF online, TypeOK, ServerTypeOK, Records
<1>7. ASSUME NEW d \in online, Active(d)'
      PROVE  EndsShowing(down'[d], Ending(shown'[d]), bulletin')
  BY <1>1, <1>2, <1>5, <1>6, <1>7 DEF Active, Bulletins
<1>8. QED BY <1>6, <1>7 DEF Bulletins

(* A message to everybody, or one that is not a bulletin to some. *)
LEMMA ToldBulletins ==
  ASSUME TypeOK, Bulletins, NEW S, NEW m \in DownMsg, down' = Told(down, S, m),
         UNCHANGED <<status, shown>>, online' \subseteq online,
         IF m.kind = "PermanentNotification"
         THEN S = online /\ bulletin' = m.text ELSE bulletin' = bulletin
  PROVE  Bulletins'
<1>1. down \in [Conn -> Seq(DownMsg)] /\ online \subseteq Conn
  BY EntriesAre DEF TypeOK, StreamTypeOK, ServerTypeOK, Records, online
<1>2. ASSUME NEW d \in online', Active(d)'
      PROVE  EndsShowing(down'[d], Ending(shown'[d]), bulletin')
  <2>1. d \in online /\ Active(d) BY <1>2 DEF Active
  <2>2. PICK s \in Seq(DownMsg) : s = down[d] BY <1>1, <2>1
  <2>3. EndsShowing(s, Ending(shown[d]), bulletin) BY <2>1, <2>2 DEF Bulletins
  <2>4. CASE m.kind = "PermanentNotification" BY <1>1, <2>1, <2>2, <2>4, ShowingSet DEF Told
  <2>5. CASE m.kind # "PermanentNotification"
    <3>1. down'[d] = s \/ down'[d] = Append(s, m) BY <1>1, <2>1, <2>2 DEF Told
    <3>2. PICK w \in Seq(DownMsg) : w = <<m>> /\ Len(w) = 1 /\ w[1] = m
      <4>1. <<m>> \in Seq(DownMsg) /\ Len(<<m>>) = 1 /\ <<m>>[1] = m OBVIOUS
      <4>2. QED BY <4>1
    <3>3. EndsShowing(s \o w, Ending(shown[d]), bulletin)
      <4>1. \A i \in 1 .. Len(w) : w[i].kind # "PermanentNotification" BY <2>5, <3>2
      <4>2. QED BY <2>2, <2>3, <3>2, <4>1, ShowingKept
    <3>4. Append(s, m) = s \o w BY <3>2, Appended
    <3>5. QED BY <2>3, <2>5, <3>1, <3>3, <3>4
  <2>6. QED BY <2>4, <2>5
<1>3. QED BY <1>2 DEF Bulletins

LEMMA SpeakBulletins ==
  ASSUME TypeOK, Sessions, Bulletins, NEW c \in Conn,
         Relaying(c) \/ ServerHashes(c) \/ ConsoleToggleCheat \/ ConsoleBulletin
  PROVE  Bulletins'
<1>1. online' = online /\ UNCHANGED <<status, shown>> BY Speaking DEF online, playerVars, copyVars
<1>2. CASE Relaying(c)
  <2>1. PICK S, m : m \in DownMsg /\ RelayOf(c, S, m) BY <1>2, RelayIs
  <2>2. /\ down' = Told(down, S, m)
        /\ IF m.kind = "PermanentNotification"
           THEN S = online /\ bulletin' = m.text ELSE bulletin' = bulletin
    BY <2>1 DEF RelayOf
  <2>3. QED BY <1>1, <2>1, <2>2, ToldBulletins
<1>3. CASE ConsoleToggleCheat \/ ConsoleBulletin
  <2>1. PICK m \in DownMsg :
          /\ down' = Told(down, online, m)
          /\ IF m.kind = "PermanentNotification" THEN bulletin' = m.text ELSE bulletin' = bulletin
    <3>1. CASE ConsoleToggleCheat
      <4>1. PICK ch \in BOOLEAN : down' = Told(down, online, CheatToggle(ch))
        BY <3>1 DEF ConsoleToggleCheat, Broadcast
      <4>2. CheatToggle(ch) \in DownMsg /\ CheatToggle(ch).kind # "PermanentNotification"
        BY Tellable DEF CheatToggle
      <4>3. bulletin' = bulletin BY <3>1 DEF ConsoleToggleCheat, serverVars
      <4>4. QED BY <4>1, <4>2, <4>3
    <3>2. CASE ConsoleBulletin
      <4>1. PICK t \in Text : bulletin' = t /\ down' = Told(down, online, Bulletin(t))
        BY <3>2 DEF ConsoleBulletin, Broadcast
      <4>2. /\ Bulletin(t) \in DownMsg /\ Bulletin(t).kind = "PermanentNotification"
            /\ Bulletin(t).text = t
        BY Tellable DEF Bulletin
      <4>3. QED BY <4>1, <4>2
    <3>3. QED BY <1>3, <3>1, <3>2
  <2>2. QED BY <1>1, <2>1, ToldBulletins
<1>4. CASE ServerHashes(c)
  <2>1. PICK n \in 0 .. acts["modified"] :
          down' = [d \in Conn |-> down[d] \o [f \in 1 .. (IF d \in online THEN n ELSE 0) |-> Warning]]
    BY <1>4 DEF ServerHashes
  <2>2. n \in Nat BY DEF TypeOK, ActsTypeOK
  <2>3. bulletin' = bulletin BY <1>4 DEF ServerHashes, serverVars
  <2>4. down \in [Conn -> Seq(DownMsg)] /\ online \subseteq Conn
    BY EntriesAre DEF TypeOK, StreamTypeOK, ServerTypeOK, Records, online
  <2>5. Warning \in DownMsg /\ Warning.kind = "PublicNotification" BY Tellable DEF Warning
  <2>6. ASSUME NEW d \in online, Active(d)'
        PROVE  EndsShowing(down'[d], Ending(shown'[d]), bulletin')
    <3>1. PICK w : w = [f \in 1 .. n |-> Warning] OBVIOUS
    <3>2. w \in Seq(DownMsg) /\ \A i \in 1 .. Len(w) : w[i].kind # "PermanentNotification"
      BY <2>2, <2>5, <3>1
    <3>3. down'[d] = down[d] \o w BY <2>1, <2>4, <3>1
    <3>4. PICK s \in Seq(DownMsg) : s = down[d] BY <2>4
    <3>5. EndsShowing(s, Ending(shown[d]), bulletin) BY <1>1, <2>6, <3>4 DEF Bulletins, Active
    <3>6. EndsShowing(s \o w, Ending(shown[d]), bulletin) BY <3>2, <3>5, ShowingKept
    <3>7. QED BY <1>1, <2>3, <3>3, <3>4, <3>6
  <2>7. QED BY <1>1, <2>6 DEF Bulletins
<1>5. QED BY <1>2, <1>3, <1>4

LEMMA LoginBulletins ==
  ASSUME TypeOK, Sessions, Bulletins, NEW c \in Conn, ServerLogin(c)
  PROVE  Bulletins'
<1>1. /\ c \notin online /\ status[c] \in {"joining", "left"}
      /\ UNCHANGED <<status, shown, bulletin>>
      /\ record' \in Records /\ online' = online \cup {c}
  BY LoginIs DEF playerVars, copyVars
<1>2. down \in [Conn -> Seq(DownMsg)] /\ online \subseteq Conn
  BY EntriesAre DEF TypeOK, StreamTypeOK, ServerTypeOK, Records, online
<1>3. ASSUME NEW d \in online, Active(d)
      PROVE  EndsShowing(down'[d], Ending(shown[d]), bulletin)
  <2>1. PICK x \in BOOLEAN : \A q \in Conn \ {c} :
          \/ q \in online /\ down'[q] = Append(down[q], PlayerConnected(c, x))
          \/ q \notin online /\ down'[q] = down[q]
    BY LoginIs
  <2>2. PICK m : m = PlayerConnected(c, x) OBVIOUS
  <2>3. m \in DownMsg /\ m.kind = "PlayerConnected" BY <2>1, <2>2, Tellable DEF PlayerConnected
  <2>4. PICK s \in Seq(DownMsg) : s = down[d] BY <1>2
  <2>5. down'[d] = Append(s, m) BY <1>1, <1>2, <2>1, <2>2, <2>4
  <2>6. PICK w \in Seq(DownMsg) : w = <<m>> /\ Len(w) = 1 /\ w[1] = m
    <3>1. <<m>> \in Seq(DownMsg) /\ Len(<<m>>) = 1 /\ <<m>>[1] = m BY <2>3
    <3>2. QED BY <3>1
  <2>7. EndsShowing(s, Ending(shown[d]), bulletin) BY <1>3, <2>4 DEF Bulletins
  <2>8. EndsShowing(s \o w, Ending(shown[d]), bulletin)
    <3>1. \A i \in 1 .. Len(w) : w[i].kind # "PermanentNotification" BY <2>3, <2>6
    <3>2. QED BY <2>4, <2>6, <2>7, <3>1, ShowingKept
  <2>9. Append(s, m) = s \o w BY <2>3, <2>6, Appended
  <2>10. QED BY <2>5, <2>8, <2>9
<1>4. ASSUME Active(c)
      PROVE  EndsShowing(down'[c], Ending(shown[c]), bulletin)
  <2>1. status[c] = "joining" /\ Ending(shown[c]) = "" /\ Len(down[c]) = 0
    BY <1>1, <1>4 DEF Active, Sessions, Requested
  <2>2. PICK r, ch : r = record' /\ ch = Head(up[c]).cheated OBVIOUS
  <2>3. PICK a, t, b \in Seq(DownMsg) :
          /\ down'[c] = down[c] \o (a \o <<LoginAccepted(r)>> \o t \o b)
          /\ Greets(c, ch, a, t, b)
    BY <2>2, LoginIs
  <2>4. PICK y \in DownMsg : y = LoginAccepted(r) /\ y.kind = "LoginAccepted"
    BY <1>1, <2>2, Tellable DEF LoginAccepted
  <2>5. PICK e \in Seq(DownMsg) : e = <<y>> /\ Len(e) = 1 /\ e[1] = y
    <3>1. <<y>> \in Seq(DownMsg) /\ Len(<<y>>) = 1 /\ <<y>>[1] = y BY <2>4
    <3>2. QED BY <3>1
  <2>6. /\ \A i \in 1 .. Len(a) : a[i].kind # "PermanentNotification"
        /\ \A i \in 1 .. Len(e) : e[i].kind # "PermanentNotification"
        /\ \A i \in 1 .. Len(t) : t[i].kind # "PermanentNotification"
    <3>1. MapNames(map_names_).kind = "MapNames" /\ Opposite(ch).kind = "CheatToggle"
      BY DEF MapNames, Opposite, CheatToggle
    <3>2. /\ Len(a) = 0 \/ (Len(a) = 1 /\ a[1] = MapNames(map_names_))
          /\ Len(t) = 0 \/ (Len(t) = 1 /\ t[1] = Opposite(ch))
      BY <2>3, GreetsIs
    <3>3. \A i \in 1 .. Len(a) : a[i].kind # "PermanentNotification" BY <3>1, <3>2
    <3>4. \A i \in 1 .. Len(t) : t[i].kind # "PermanentNotification" BY <3>1, <3>2
    <3>5. QED BY <2>4, <2>5, <3>3, <3>4
  <2>7. PICK n \in Seq(DownMsg) : n = <<>> /\ Len(n) = 0
    <3>1. <<>> \in Seq(DownMsg) /\ Len(<<>>) = 0 OBVIOUS
    <3>2. QED BY <3>1
  <2>8. EndsShowing(n, "", "") BY <2>7 DEF EndsShowing
  <2>9. n \o a \in Seq(DownMsg) /\ EndsShowing(n \o a, "", "")
    BY <2>6, <2>7, <2>8, ShowingKept, Joined
  <2>10. n \o a = a BY <2>7
  <2>11. EndsShowing(a, "", "") BY <2>9, <2>10
  <2>12. a \o e \in Seq(DownMsg) /\ EndsShowing(a \o e, "", "") BY <2>6, <2>11, ShowingKept, Joined
  <2>13. (a \o e) \o t \in Seq(DownMsg) /\ EndsShowing((a \o e) \o t, "", "")
    BY <2>6, <2>12, ShowingKept, Joined
  <2>14. PICK g \in Seq(DownMsg) : g = (a \o e) \o t BY <2>13
  <2>15. EndsShowing(g \o b, "", bulletin)
    <3>1. CASE bulletin = "" /\ Len(b) = 0
      <4>1. EndsShowing(g, "", bulletin) BY <2>13, <2>14, <3>1
      <4>2. \A i \in 1 .. Len(b) : b[i].kind # "PermanentNotification"
        <5>1. Len(b) = 0 BY <3>1
        <5>2. QED BY <5>1
      <4>3. QED BY <4>1, <4>2, ShowingKept
    <3>2. CASE bulletin # "" /\ Len(b) = 1 /\ b[1] = Bulletin(bulletin)
      <4>1. PICK m : m = Bulletin(bulletin) OBVIOUS
      <4>2. m \in DownMsg /\ m.kind = "PermanentNotification" /\ m.text = bulletin
        BY <4>1, Tellable DEF Bulletin, TypeOK, ServerTypeOK
      <4>3. PICK v \in Seq(DownMsg) : v = b OBVIOUS
      <4>4. v = <<m>> BY <3>2, <4>1, <4>3, Single
      <4>5. g \o v = Append(g, m) BY <4>2, <4>4, Appended
      <4>6. EndsShowing(Append(g, m), "", bulletin) BY <4>2, ShowingSet
      <4>7. QED BY <4>3, <4>5, <4>6, Zenon
    <3>3. QED BY <2>3, <3>1, <3>2, GreetsIs, ZenonT(60)
  <2>16. down'[c] = g \o b
    <3>1. PICK s \in Seq(DownMsg) : s = down[c] BY <1>2
    <3>2. s = <<>> BY <2>1, <3>1, NonEmpty
    <3>3. PICK v \in Seq(DownMsg) : v = g \o b BY Joined
    <3>4. <<>> \o v = v OBVIOUS
    <3>5. a \o <<LoginAccepted(r)>> \o t \o b = g \o b BY <2>4, <2>5, <2>14, Zenon
    <3>6. QED BY <2>3, <3>1, <3>2, <3>3, <3>4, <3>5, Zenon
  <2>17. QED BY <2>1, <2>15, <2>16, Zenon
<1>5. ASSUME NEW d \in online', Active(d)'
      PROVE  EndsShowing(down'[d], Ending(shown'[d]), bulletin')
  BY <1>1, <1>3, <1>4, <1>5 DEF Active
<1>6. QED BY <1>5 DEF Bulletins

LEMMA DepartBulletins ==
  ASSUME TypeOK, Bulletins, NEW c \in Conn, Depart(c)
  PROVE  Bulletins'
<1>1. /\ c \in online /\ UNCHANGED <<status, shown>> /\ online' = online \ {c}
      /\ down' = Told(down, online \ {c}, PlayerDisconnected(c))
      /\ online = {c} \/ bulletin' = bulletin
  BY DEF Depart, playerVars, copyVars, DepartTold, online, Without
<1>2. CASE online = {c} BY <1>1, <1>2 DEF Bulletins
<1>3. CASE bulletin' = bulletin
  <2>1. PICK m : m = PlayerDisconnected(c) OBVIOUS
  <2>2. m \in DownMsg /\ m.kind = "PlayerDisconnected" BY <2>1, Tellable DEF PlayerDisconnected
  <2>3. QED BY <1>1, <1>3, <2>1, <2>2, ToldBulletins
<1>4. QED BY <1>1, <1>2, <1>3

LEMMA ClientBulletins ==
  ASSUME TypeOK, Sessions, Rosters, Bulletins, NEW c \in Conn, ClientHandles(c)
  PROVE  Bulletins'
<1>1. PICK h : h = Head(down[c]) OBVIOUS
<1>2. /\ CopyAfter(c, h) /\ StatusAfter(c, h)
      /\ down[c] # <<>> /\ down' = [down EXCEPT ![c] = Tail(@)]
      /\ UNCHANGED <<record, bulletin>>
  BY <1>1, HandlingIs DEF serverVars
<1>3. /\ down \in [Conn -> Seq(DownMsg)] /\ online \subseteq Conn
      /\ status \in [Conn -> {"out", "joining", "in", "left"}] /\ CopyTypeOK
  BY EntriesAre DEF TypeOK, StreamTypeOK, ServerTypeOK, Records, online, PlayerTypeOK
<1>4. /\ down'[c] = Tail(down[c])
      /\ Ending(shown'[c]) = IF h.kind = "PermanentNotification" THEN h.text ELSE Ending(shown[c])
      /\ Active(c)' => Active(c)
      /\ \A d \in Conn \ {c} : down'[d] = down[d] /\ status'[d] = status[d] /\ shown'[d] = shown[d]
  <2>1. CASE h.kind = "PermanentNotification"
    <3>1. h \in DownMsg BY <1>1, <1>2, <1>3, Taken
    <3>2. h.text \in Text /\ shown' = ShownAfter(c, h.text)
      BY <1>2, <2>1, <3>1, DownFacts DEF CopyAfter
    <3>3. Ending(shown'[c]) = h.text /\ \A d \in Conn \ {c} : shown'[d] = shown[d]
      BY <1>3, <3>2, ShownTyped
    <3>4. status' = status BY <1>2, <2>1 DEF StatusAfter
    <3>5. QED BY <1>2, <1>3, <2>1, <3>3, <3>4 DEF Active
  <2>2. CASE h.kind # "PermanentNotification" BY <1>2, <1>3, <2>2 DEF CopyAfter, StatusAfter, Active
  <2>3. QED BY <2>1, <2>2
<1>5. online' = online BY <1>2 DEF online
<1>6. ASSUME NEW d \in online, Active(d)'
      PROVE  EndsShowing(down'[d], Ending(shown'[d]), bulletin')
  <2>1. CASE d # c BY <1>2, <1>3, <1>4, <1>6, <2>1 DEF Active, Bulletins
  <2>2. CASE d = c
    <3>1. PICK s \in Seq(DownMsg) : s = down[c] BY <1>3
    <3>2. EndsShowing(s, Ending(shown[c]), bulletin) BY <1>4, <1>6, <2>2, <3>1 DEF Bulletins
    <3>3. EndsShowing(Tail(s), Ending(shown'[c]), bulletin)
      BY <1>1, <1>2, <1>4, <3>1, <3>2, ShowingTaken
    <3>4. QED BY <1>2, <1>4, <2>2, <3>1, <3>3
  <2>3. QED BY <2>1, <2>2
<1>7. QED BY <1>5, <1>6 DEF Bulletins

LEMMA RestBulletins ==
  ASSUME TypeOK, Bulletins, NEW c \in Conn, StopHandling(c) \/ \E id \in Conn : BallArrives(c, id)
  PROVE  Bulletins'
<1>1. UNCHANGED <<record, bulletin, status, shown>>
  BY DEF StopHandling, BallArrives, serverVars, playerVars, copyVars
<1>2. online' = online /\ online \subseteq Conn /\ down \in [Conn -> Seq(DownMsg)]
  BY <1>1, EntriesAre DEF online, TypeOK, ServerTypeOK, Records, StreamTypeOK
<1>3. \A d \in Conn : down'[d] = down[d] \/ status[d] = "left"
  <2>1. PICK z : z = <<>> OBVIOUS
  <2>2. down' = down \/ (status[c] = "left" /\ down' = [down EXCEPT ![c] = z])
    BY <2>1 DEF StopHandling, BallArrives, streamVars
  <2>3. QED BY <1>2, <2>2
<1>4. ASSUME NEW d \in online', Active(d)'
      PROVE  EndsShowing(down'[d], Ending(shown'[d]), bulletin')
  BY <1>1, <1>2, <1>3, <1>4 DEF Active, Bulletins
<1>5. QED BY <1>4 DEF Bulletins

LEMMA NextBulletins ==
  ASSUME TypeOK, Sessions, Rosters, Bulletins, [Next]_vars
  PROVE  Bulletins'
<1>1. CASE Resting
  <2>1. \A d \in Conn : Ending(shown'[d]) = Ending(shown[d]) BY <1>1, RestingKeeps DEF TypeOK
  <2>2. online \subseteq Conn BY EntriesAre DEF TypeOK, ServerTypeOK, Records, online
  <2>3. QED
    BY <1>1, <2>1, <2>2 DEF Resting, serverVars, streamVars, playerVars, Bulletins, Active, online
<1>2. CASE Conn = {}
  BY NextTyped, <1>2, EntriesAre DEF TypeOK, ServerTypeOK, Records, online, Bulletins
<1>3. CASE Conn # {}
  <2>1. PICK d \in Conn : TRUE BY <1>3
  <2>2. ConsoleToggleCheat \/ ConsoleBulletin => Bulletins' BY <2>1, SpeakBulletins
  <2>3. QED
    BY <1>1, <2>2, StepIs, MoveBulletins, SpeakBulletins, LoginBulletins, DepartBulletins,
       ClientBulletins, RestBulletins
<1>4. QED BY <1>2, <1>3

LEMMA BulletinsKnown == TypeOK /\ Sessions /\ Bulletins => BulletinKnown
<1> SUFFICES ASSUME Sessions, Bulletins, quiet, NEW c \in Logged PROVE shown[c].text = bulletin
  BY DEF BulletinKnown
<1>1. c \in Conn /\ status[c] = "in" /\ down[c] = <<>> /\ Ending(shown[c]) = shown[c].text
  BY DEF Logged, quiet, Ending
<1>2. c \in online BY <1>1 DEF Sessions, Requested, Stage
<1>3. EndsShowing(<<>>, Ending(shown[c]), bulletin) BY <1>1, <1>2 DEF Bulletins, Active
<1>4. Len(<<>>) = 0 OBVIOUS
<1>5. QED BY <1>1, <1>3, <1>4 DEF EndsShowing

(* Once all that was sent has been handled, and every call run, every      *)
(* client that is still there shows the bulletin whoever comes next gets.  *)
THEOREM BulletinIsKnown == Spec => []BulletinKnown
<1>1. TypeOK /\ Sessions /\ Bulletins => BulletinKnown BY BulletinsKnown
<1>2. Init => TypeOK /\ Sessions /\ Rosters /\ Bulletins BY InitKnown, InitBulletins
<1>3. TypeOK /\ Sessions /\ Rosters /\ Bulletins /\ [Next]_vars
        => TypeOK' /\ Sessions' /\ Rosters' /\ Bulletins'
  BY NextKnown, NextBulletins
<1>4. QED BY <1>1, <1>2, <1>3, PTL DEF Spec

-----------------------------------------------------------------------------
(* Names of maps and the streams.                                          *)

LEMMA GetsMore ==
  ASSUME NEW S, NEW s \in Seq(S), NEW M, NEW x, Gets(s, M, x)
  PROVE  /\ \A w \in Seq(S) : Gets(s \o w, M, x)
         /\ \A m \in S : Gets(Append(s, m), M, x)
         /\ s # <<>> => Gets(Tail(s), M \cup Naming(Head(s)), x)
         /\ \A N : M \subseteq N => Gets(s, N, x)
<1>1. ASSUME NEW w \in Seq(S)
      PROVE  Gets(s \o w, M, x)
  <2>1. PICK t : t = s \o w OBVIOUS
  <2>2. \A i \in 1 .. Len(s) : i \in 1 .. Len(t) /\ t[i] = s[i] BY <2>1, Joined
  <2>3. Gets(t, M, x) BY <2>2 DEF Gets
  <2>4. QED BY <2>1, <2>3
<1>2. ASSUME NEW m \in S
      PROVE  Gets(Append(s, m), M, x)
  <2>1. Append(s, m) = s \o <<m>> /\ <<m>> \in Seq(S) BY Appended
  <2>2. QED BY <1>1, <2>1
<1>3. ASSUME s # <<>>
      PROVE  Gets(Tail(s), M \cup Naming(Head(s)), x)
  <2>1. PICK t \in Seq(S) : t = Tail(s) BY <1>3, Taken
  <2>2. /\ Len(s) \in Nat \ {0} /\ Len(t) = Len(s) - 1 /\ Head(s) = s[1]
        /\ \A i \in 1 .. Len(t) : t[i] = s[i + 1]
    BY <1>3, <2>1, Taken
  <2>3. CASE x \in M BY <2>3 DEF Gets
  <2>4. ASSUME NEW i \in 1 .. Len(s), x \in Naming(s[i])
        PROVE  Gets(t, M \cup Naming(Head(s)), x)
    <3>1. CASE i = 1 BY <2>2, <2>4, <3>1 DEF Gets
    <3>2. CASE i # 1
      <4>1. i - 1 \in 1 .. Len(t) /\ t[i - 1] = s[i] BY <2>2, <3>2
      <4>2. QED BY <2>4, <4>1 DEF Gets
    <3>3. QED BY <3>1, <3>2
  <2>5. QED BY <2>1, <2>3, <2>4 DEF Gets
<1>4. ASSUME NEW N, M \subseteq N
      PROVE  Gets(s, N, x)
  BY <1>4 DEF Gets
<1>5. QED BY <1>1, <1>2, <1>3, <1>4

LEMMA GetsNow ==
  ASSUME NEW S, NEW s \in Seq(S), NEW m \in S, NEW M, NEW x, x \in Naming(m)
  PROVE  Gets(Append(s, m), M, x)
<1>1. PICK t : t = Append(s, m) OBVIOUS
<1>2. Len(s) \in Nat /\ Len(t) = Len(s) + 1 /\ t[Len(s) + 1] = m BY <1>1, Appended
<1>3. PICK i : i = Len(s) + 1 OBVIOUS
<1>4. i \in 1 .. Len(t) /\ t[i] = m BY <1>2, <1>3
<1>5. QED BY <1>1, <1>4 DEF Gets

LEMMA OnlyKept ==
  ASSUME NEW S, NEW s \in Seq(S), NEW M, Only(s, M)
  PROVE  /\ \A w \in Seq(S) : Only(w, M) => Only(s \o w, M)
         /\ \A m \in S : Naming(m) \subseteq M => Only(Append(s, m), M)
         /\ s # <<>> => Only(Tail(s), M) /\ Naming(Head(s)) \subseteq M
         /\ \A N : M \subseteq N => Only(s, N)
<1>1. ASSUME NEW w \in Seq(S), Only(w, M)
      PROVE  Only(s \o w, M)
  <2>1. PICK t : t = s \o w OBVIOUS
  <2>2. \A i \in 1 .. Len(t) : \/ i \in 1 .. Len(s) /\ t[i] = s[i]
                               \/ i - Len(s) \in 1 .. Len(w) /\ t[i] = w[i - Len(s)]
    BY <2>1, Joined
  <2>3. Only(t, M) BY <1>1, <2>2 DEF Only
  <2>4. QED BY <2>1, <2>3
<1>2. ASSUME NEW m \in S, Naming(m) \subseteq M
      PROVE  Only(Append(s, m), M)
  <2>1. PICK t : t = Append(s, m) OBVIOUS
  <2>2. \A i \in 1 .. Len(t) : (i \in 1 .. Len(s) /\ t[i] = s[i]) \/ t[i] = m BY <2>1, Appended
  <2>3. Only(t, M) BY <1>2, <2>2 DEF Only
  <2>4. QED BY <2>1, <2>3
<1>3. ASSUME s # <<>>
      PROVE  Only(Tail(s), M) /\ Naming(Head(s)) \subseteq M
  <2>1. PICK t : t = Tail(s) OBVIOUS
  <2>2. /\ Head(s) = s[1] /\ 1 \in 1 .. Len(s)
        /\ \A i \in 1 .. Len(t) : t[i] = s[i + 1] /\ i + 1 \in 1 .. Len(s)
    BY <1>3, <2>1, Taken
  <2>3. Only(t, M) /\ Naming(Head(s)) \subseteq M BY <2>2 DEF Only
  <2>4. QED BY <2>1, <2>3
<1>4. ASSUME NEW N, M \subseteq N
      PROVE  Only(s, N)
  BY <1>4 DEF Only
<1>5. QED BY <1>1, <1>2, <1>3, <1>4

LEMMA UpNamedKept ==
  ASSUME NEW S, NEW s \in Seq(S), NEW M, UpNamed(s, M)
  PROVE  /\ \A m \in S : (m.kind = "CurrentMap" => m.map = NoMap \/ Gets(s, M, m.map))
                           => UpNamed(Append(s, m), M)
         /\ s # <<>> => UpNamed(Tail(s), M \cup Naming(Head(s)))
         /\ s # <<>> /\ Head(s).kind = "CurrentMap" => Head(s).map \in M \cup {NoMap}
         /\ \A N : M \subseteq N => UpNamed(s, N)
<1>1. ASSUME NEW m \in S, m.kind = "CurrentMap" => m.map = NoMap \/ Gets(s, M, m.map)
      PROVE  UpNamed(Append(s, m), M)
  <2>1. PICK t : t = Append(s, m) OBVIOUS
  <2>2. /\ Len(s) \in Nat /\ Len(t) = Len(s) + 1 /\ t[Len(s) + 1] = m
        /\ \A i \in 1 .. Len(s) : t[i] = s[i]
    BY <2>1, Appended
  <2>3. ASSUME NEW i \in 1 .. Len(t), t[i].kind = "CurrentMap"
        PROVE  t[i].map \in M \cup {NoMap} \/ \E j \in 1 .. i - 1 : t[i].map \in Naming(t[j])
    BY <2>2, <2>3, <1>1 DEF UpNamed, Gets
  <2>4. QED BY <2>1, <2>3 DEF UpNamed
<1>2. ASSUME s # <<>>
      PROVE  /\ UpNamed(Tail(s), M \cup Naming(Head(s)))
             /\ Head(s).kind = "CurrentMap" => Head(s).map \in M \cup {NoMap}
  <2>1. PICK t \in Seq(S) : t = Tail(s) BY <1>2, Taken
  <2>2. /\ Len(s) \in Nat \ {0} /\ Len(t) = Len(s) - 1 /\ Head(s) = s[1] /\ 1 \in 1 .. Len(s)
        /\ \A i \in 1 .. Len(t) : t[i] = s[i + 1] /\ i + 1 \in 1 .. Len(s)
    BY <1>2, <2>1, Taken
  <2>3. Head(s).kind = "CurrentMap" => Head(s).map \in M \cup {NoMap} BY <2>2 DEF UpNamed
  <2>4. ASSUME NEW i \in 1 .. Len(t), t[i].kind = "CurrentMap"
        PROVE  \/ t[i].map \in (M \cup Naming(Head(s))) \cup {NoMap}
               \/ \E j \in 1 .. i - 1 : t[i].map \in Naming(t[j])
    <3>1. t[i].map \in M \cup {NoMap} \/ \E j \in 1 .. i : t[i].map \in Naming(s[j])
      <4>1. i + 1 - 1 = i OBVIOUS
      <4>2. QED BY <2>2, <2>4, <4>1 DEF UpNamed
    <3>2. ASSUME NEW j \in 1 .. i, t[i].map \in Naming(s[j])
          PROVE  \/ t[i].map \in Naming(Head(s))
                 \/ \E l \in 1 .. i - 1 : t[i].map \in Naming(t[l])
      <4>1. CASE j = 1 BY <2>2, <3>2, <4>1
      <4>2. CASE j # 1
        <5>1. j - 1 \in 1 .. i - 1 /\ t[j - 1] = s[j] BY <2>2, <4>2
        <5>2. QED BY <3>2, <5>1
      <4>3. QED BY <4>1, <4>2
    <3>3. QED BY <3>1, <3>2
  <2>5. UpNamed(t, M \cup Naming(Head(s))) BY <2>4 DEF UpNamed
  <2>6. QED BY <2>1, <2>3, <2>5
<1>3. ASSUME NEW N, M \subseteq N
      PROVE  UpNamed(s, N)
  BY <1>3 DEF UpNamed
<1>4. QED BY <1>1, <1>2, <1>3

LEMMA NamedBeforeKept ==
  ASSUME NEW c, NEW s \in Seq(DownMsg), NEW k, NEW nl, NamedBefore(c, s, k, nl)
  PROVE  /\ \A w \in Seq(DownMsg) :
              (\A i \in 1 .. Len(w) : \A id \in Conn \ (nl \cup {c}), x \in Map :
                 Puts(w[i], id, x) => Gets(s, k, x))
                => NamedBefore(c, s \o w, k, nl)
         /\ s # <<>> => NamedBefore(c, Tail(s), k \cup Naming(Head(s)), nl)
         /\ s # <<>> => \A id \in Conn \ (nl \cup {c}), x \in Map : Puts(Head(s), id, x) => x \in k
         /\ \A l, n : k \subseteq l /\ nl \subseteq n => NamedBefore(c, s, l, n)
<1>1. ASSUME NEW w \in Seq(DownMsg),
             \A i \in 1 .. Len(w) : \A id \in Conn \ (nl \cup {c}), x \in Map :
               Puts(w[i], id, x) => Gets(s, k, x)
      PROVE  NamedBefore(c, s \o w, k, nl)
  <2>1. PICK t : t = s \o w OBVIOUS
  <2>2. /\ Len(s) \in Nat /\ Len(t) \in Nat
        /\ \A i \in 1 .. Len(s) : t[i] = s[i]
        /\ \A i \in 1 .. Len(t) : \/ i \in 1 .. Len(s)
                                  \/ i - Len(s) \in 1 .. Len(w) /\ t[i] = w[i - Len(s)]
    BY <2>1, Joined
  <2>3. ASSUME NEW i \in 1 .. Len(t), NEW id \in Conn \ (nl \cup {c}), NEW x \in Map, Puts(t[i], id, x)
        PROVE  x \in k \/ \E j \in 1 .. i - 1 : x \in Naming(t[j])
    <3>1. CASE i \in 1 .. Len(s) BY <2>2, <2>3, <3>1 DEF NamedBefore
    <3>2. CASE i \notin 1 .. Len(s)
      <4>1. i - Len(s) \in 1 .. Len(w) /\ t[i] = w[i - Len(s)] BY <2>2, <3>2
      <4>2. Gets(s, k, x) BY <1>1, <2>3, <4>1
      <4>3. \A j \in 1 .. Len(s) : j \in 1 .. i - 1 /\ t[j] = s[j] BY <2>2, <3>2
      <4>4. QED BY <4>2, <4>3 DEF Gets
    <3>3. QED BY <3>1, <3>2
  <2>4. QED BY <2>1, <2>3 DEF NamedBefore
<1>2. ASSUME s # <<>>
      PROVE  /\ NamedBefore(c, Tail(s), k \cup Naming(Head(s)), nl)
             /\ \A id \in Conn \ (nl \cup {c}), x \in Map : Puts(Head(s), id, x) => x \in k
  <2>1. PICK t \in Seq(DownMsg) : t = Tail(s) BY <1>2, Taken
  <2>2. /\ Len(s) \in Nat \ {0} /\ Len(t) = Len(s) - 1 /\ Head(s) = s[1] /\ 1 \in 1 .. Len(s)
        /\ \A i \in 1 .. Len(t) : t[i] = s[i + 1] /\ i + 1 \in 1 .. Len(s)
    BY <1>2, <2>1, Taken
  <2>3. ASSUME NEW id \in Conn \ (nl \cup {c}), NEW x \in Map, Puts(Head(s), id, x)
        PROVE  x \in k
    BY <2>2, <2>3 DEF NamedBefore
  <2>4. ASSUME NEW i \in 1 .. Len(t), NEW id \in Conn \ (nl \cup {c}), NEW x \in Map, Puts(t[i], id, x)
        PROVE  x \in k \cup Naming(Head(s)) \/ \E j \in 1 .. i - 1 : x \in Naming(t[j])
    <3>1. x \in k \/ \E j \in 1 .. i : x \in Naming(s[j])
      <4>1. i + 1 - 1 = i OBVIOUS
      <4>2. QED BY <2>2, <2>4, <4>1 DEF NamedBefore
    <3>2. ASSUME NEW j \in 1 .. i, x \in Naming(s[j])
          PROVE  x \in Naming(Head(s)) \/ \E l \in 1 .. i - 1 : x \in Naming(t[l])
      <4>1. CASE j = 1 BY <2>2, <3>2, <4>1
      <4>2. CASE j # 1
        <5>1. j - 1 \in 1 .. i - 1 /\ t[j - 1] = s[j] BY <2>2, <4>2
        <5>2. QED BY <3>2, <5>1
      <4>3. QED BY <4>1, <4>2
    <3>3. QED BY <3>1, <3>2
  <2>5. NamedBefore(c, t, k \cup Naming(Head(s)), nl) BY <2>4 DEF NamedBefore
  <2>6. QED BY <2>1, <2>3, <2>5
<1>3. ASSUME NEW l, NEW n, k \subseteq l, nl \subseteq n
      PROVE  NamedBefore(c, s, l, n)
  BY <1>3 DEF NamedBefore
<1>4. QED BY <1>1, <1>2, <1>3

-----------------------------------------------------------------------------
(* Names of maps: what a client hears.                                     *)

Mute(m) == Naming(m) = {} /\ \A id, x : ~ Puts(m, id, x)

LEMMA Muted ==
  \A m : m.kind \notin {"MapNames", "CurrentMap", "LoginAccepted"} => Mute(m)
BY DEF Mute, Naming, Puts

(* Other messages, and the server learns nothing. *)
LEMMA HeardKept ==
  ASSUME NEW c, NEW s \in Seq(DownMsg), NEW k, NEW nl, NEW M, Heard(c, s, k, nl, M),
         NEW w \in Seq(DownMsg), \A i \in 1 .. Len(w) : Mute(w[i])
  PROVE  Heard(c, s \o w, k, nl, M)
BY NamedBeforeKept, GetsMore, OnlyKept DEF Heard, Mute, Only

(* A message, with which the server may have learnt a name. *)
LEMMA HeardNow ==
  ASSUME NEW c, NEW s \in Seq(DownMsg), NEW k, NEW nl, NEW M, Heard(c, s, k, nl, M),
         NEW m \in DownMsg,
         \A id \in Conn \ (nl \cup {c}), x \in Map : Puts(m, id, x) => x \in M
  PROVE  Heard(c, Append(s, m), k, nl, M \cup Naming(m))
<1>1. NamedBefore(c, s, k, nl) /\ (\A x \in M : Gets(s, k, x)) /\ Only(s, M) BY DEF Heard
<1>2. PICK w \in Seq(DownMsg) : w = <<m>> /\ Len(w) = 1 /\ w[1] = m
  <2>1. <<m>> \in Seq(DownMsg) /\ Len(<<m>>) = 1 /\ <<m>>[1] = m OBVIOUS
  <2>2. QED BY <2>1
<1>3. Append(s, m) = s \o w BY <1>2, Appended
<1>4. NamedBefore(c, s \o w, k, nl)
  <2>1. \A i \in 1 .. Len(w) : \A id \in Conn \ (nl \cup {c}), x \in Map :
          Puts(w[i], id, x) => Gets(s, k, x)
    BY <1>1, <1>2
  <2>2. QED BY <1>1, <1>2, <2>1, NamedBeforeKept
<1>5. \A x \in M \cup Naming(m) : Gets(Append(s, m), k, x) BY <1>1, GetsMore, GetsNow
<1>6. Only(Append(s, m), M \cup Naming(m))
  <2>1. Only(s, M \cup Naming(m)) BY <1>1, OnlyKept
  <2>2. QED BY <2>1, OnlyKept
<1>7. QED BY <1>3, <1>4, <1>5, <1>6 DEF Heard

(* A message has been handled. *)
LEMMA HeardTaken ==
  ASSUME NEW c, NEW s \in Seq(DownMsg), NEW k, NEW nl, NEW M, Heard(c, s, k, nl, M), s # <<>>
  PROVE  /\ Heard(c, Tail(s), k \cup Naming(Head(s)), nl, M)
         /\ Naming(Head(s)) \subseteq M
         /\ \A id \in Conn \ (nl \cup {c}), x \in Map : Puts(Head(s), id, x) => x \in k
BY NamedBeforeKept, GetsMore, OnlyKept DEF Heard

(* Names the client has already, and players whose names may come late. *)
LEMMA HeardMore ==
  ASSUME NEW c, NEW s \in Seq(DownMsg), NEW k, NEW nl, NEW M, Heard(c, s, k, nl, M),
         NEW l, NEW n, k \subseteq l, nl \subseteq n
  PROVE  /\ Heard(c, s, l, n, M)
         /\ \A N \in SUBSET l : Heard(c, s, l, n, M \cup N)
<1>1. NamedBefore(c, s, k, nl) /\ (\A x \in M : Gets(s, k, x)) /\ Only(s, M) BY DEF Heard
<1>2. NamedBefore(c, s, l, n) BY <1>1, NamedBeforeKept
<1>3. \A x \in M : Gets(s, l, x) BY <1>1, GetsMore
<1>4. \A N \in SUBSET l : \A x \in M \cup N : Gets(s, l, x) BY <1>3 DEF Gets
<1>5. \A N : Only(s, M \cup N) BY <1>1, OnlyKept
<1>6. QED BY <1>1, <1>2, <1>3, <1>4, <1>5 DEF Heard

(* The beginning: names, the list, and what comes after it. *)
LEMMA HeardFirst ==
  ASSUME NEW c, NEW nl, NEW M \in SUBSET Map, NEW r \in Records, NEW m \in DownMsg,
         m.kind = "LoginAccepted", m.online = r,
         \A id \in DOMAIN r \ (nl \cup {c}) : r[id].map \in M \cup {NoMap},
         NEW a \in Seq(DownMsg),
         \/ M = {} /\ Len(a) = 0
         \/ M # {} /\ Len(a) = 1 /\ a[1] = MapNames(M),
         NEW w \in Seq(DownMsg), \A i \in 1 .. Len(w) : Mute(w[i])
  PROVE  Heard(c, Append(a, m) \o w, {}, nl, M)
<1>1. MapNames(M).kind = "MapNames" /\ MapNames(M).maps = M BY DEF MapNames
<1>2. Heard(c, a, {}, nl, M) BY <1>1 DEF Heard, NamedBefore, Only, Naming, Puts, Gets
<1>3. \A id \in Conn \ (nl \cup {c}), x \in Map : Puts(m, id, x) => x \in M
  BY AnnouncementsAssumption DEF Puts
<1>4. Naming(m) = {} BY DEF Naming
<1>5. PICK t \in Seq(DownMsg) : t = Append(a, m) BY Appended
<1>6. Heard(c, t, {}, nl, M) BY <1>2, <1>3, <1>5, HeardNow, <1>4
<1>7. QED BY <1>5, <1>6, HeardKept

-----------------------------------------------------------------------------
(* Names of maps: what a client tells.                                     *)

LEMMA TellingKept ==
  ASSUME NEW c, NEW s \in Seq(UpMsg), NEW k, NEW M, NEW g, NEW p, NEW n, NEW q, NEW nl,
         Telling(c, s, k, M, g, p, n, q, nl)
  PROVE  /\ \A m \in UpMsg : Naming(m) \subseteq k => Telling(c, Append(s, m), k, M, g, p, n, q, nl)
         /\ s # <<>> => /\ Telling(c, Tail(s), k, M \cup Naming(Head(s)), g, p, n, q, nl)
                        /\ Naming(Head(s)) \subseteq k
         /\ \A N, l : M \subseteq N /\ nl \subseteq l => Telling(c, s, k, N, g, p, n, q, l)
         /\ \A N \in SUBSET M : Telling(c, s, k \cup N, M, g, p, n, q, nl)
         /\ \A o, u : o # "assembled" => Telling(c, s, k, M, g, p, o, u, nl)
<1>1. Only(s, k) /\ (g \in {"name", "sector"} => p \in k) BY DEF Telling
<1>2. ASSUME NEW m \in UpMsg, Naming(m) \subseteq k
      PROVE  Telling(c, Append(s, m), k, M, g, p, n, q, nl)
  BY <1>1, <1>2, OnlyKept, GetsMore DEF Telling
<1>3. ASSUME s # <<>>
      PROVE  /\ Telling(c, Tail(s), k, M \cup Naming(Head(s)), g, p, n, q, nl)
             /\ Naming(Head(s)) \subseteq k
  BY <1>1, <1>3, OnlyKept, GetsMore DEF Telling
<1>4. ASSUME NEW N, NEW l, M \subseteq N, nl \subseteq l
      PROVE  Telling(c, s, k, N, g, p, n, q, l)
  BY <1>4, GetsMore DEF Telling
<1>5. ASSUME NEW N \in SUBSET M
      PROVE  Telling(c, s, k \cup N, M, g, p, n, q, nl)
  BY <1>1, OnlyKept DEF Gets, Telling
<1>6. ASSUME NEW o, NEW u, o # "assembled"
      PROVE  Telling(c, s, k, M, g, p, o, u, nl)
  BY <1>6 DEF Telling
<1>7. QED BY <1>2, <1>3, <1>4, <1>5, <1>6

LEMMA TellingSaid ==
  ASSUME NEW c, NEW s \in Seq(UpMsg), NEW k, NEW M, NEW g, NEW p, NEW n, NEW q, NEW nl,
         Telling(c, s, k, M, g, p, n, q, nl), NEW m, m \in UpMsg, Naming(m) \subseteq k,
         NEW t, t = Append(s, m)
  PROVE  Telling(c, t, k, M, g, p, n, q, nl)
BY TellingKept

LEMMA UpNamedSaid ==
  ASSUME NEW s \in Seq(UpMsg), NEW M, UpNamed(s, M), NEW m, m \in UpMsg, NEW t, t = Append(s, m),
         m.kind # "CurrentMap" \/ m.map = NoMap \/ Gets(s, M, m.map)
  PROVE  UpNamed(t, M)
BY UpNamedKept

-----------------------------------------------------------------------------
(* Names of maps: players and threads.                                     *)

NamesFirst(c) == Own(c) /\ (c \notin nameless => UpNamed(up[c], map_names_))

LEMMA QuietOwn ==
  ASSUME TypeOK, NEW c \in Conn, NamesFirst(c), UNCHANGED <<map_names_, known, game, net, carried, nameless>>,
         place'[c].map = place[c].map,
         \/ up'[c] = up[c]
         \/ \E m \in UpMsg : m.kind \notin {"MapNames", "CurrentMap"} /\ up'[c] = Append(up[c], m)
  PROVE  NamesFirst(c)'
<1>1. up[c] \in Seq(UpMsg) BY DEF TypeOK, StreamTypeOK
<1>2. /\ Telling(c, up[c], known[c], map_names_, game[c], place[c].map, net[c], carried[c].map, nameless)
      /\ c \notin nameless => UpNamed(up[c], map_names_)
  BY DEF NamesFirst, Own
<1>3. /\ Telling(c, up'[c], known[c], map_names_, game[c], place[c].map, net[c], carried[c].map, nameless)
      /\ c \notin nameless => UpNamed(up'[c], map_names_)
  <2>1. CASE up'[c] = up[c] BY <1>2, <2>1
  <2>2. ASSUME NEW m \in UpMsg, m.kind \notin {"MapNames", "CurrentMap"}, up'[c] = Append(up[c], m)
        PROVE  /\ Telling(c, up'[c], known[c], map_names_, game[c], place[c].map, net[c], carried[c].map, nameless)
               /\ c \notin nameless => UpNamed(up'[c], map_names_)
    <3>1. Naming(m) = {} BY <2>2 DEF Naming
    <3>2. Telling(c, Append(up[c], m), known[c], map_names_, game[c], place[c].map, net[c], carried[c].map, nameless)
      BY <1>1, <1>2, <3>1, TellingKept
    <3>3. c \notin nameless => UpNamed(Append(up[c], m), map_names_)
      BY <1>1, <1>2, <2>2, UpNamedKept
    <3>4. QED BY <2>2, <3>2, <3>3
  <2>3. QED BY <2>1, <2>2
<1>4. QED BY <1>3 DEF NamesFirst, Own

(* Messages that are not about maps, or none. *)
LEMMA ActsQuietly ==
  ASSUME TypeOK, NEW c \in Conn, NamesFirst(c),
         \/ Connect(c) \/ ToggleOwnCheat(c) \/ ToggleCheats(c) \/ SetBulletin(c) \/ Say(c)
         \/ Notify(c) \/ QueryScores(c) \/ Address(c) \/ ChangeSector(c)
  PROVE  NamesFirst(c)'
<1> USE DEF serverVars, streamVars, playerVars, copyVars, threadVars, history
<1>1. /\ up \in [Conn -> Seq(UpMsg)] /\ place \in [Conn -> Where] /\ place[c] \in Where
      /\ cheat[c] \in BOOLEAN /\ (~ cheat[c]) \in BOOLEAN /\ (c \in Mod \ Spectator /\ cheat[c]) \in BOOLEAN
  BY DEF TypeOK, StreamTypeOK, PlayerTypeOK
<1>2. /\ UNCHANGED <<map_names_, known, game, net, carried, nameless>>
  BY DEF Connect, ToggleOwnCheat, ToggleCheats, SetBulletin, Say, Notify, QueryScores, Address, ChangeSector
<1>3. place'[c].map = place[c].map
  <2>1. CASE ChangeSector(c)
    <3>1. PICK s \in Sector : place' = [place EXCEPT ![c].sector = s] BY <2>1 DEF ChangeSector
    <3>2. QED BY <1>1, <3>1 DEF Where
  <2>2. CASE place' = place BY <2>2
  <2>3. QED BY <2>1, <2>2 DEF Connect, ToggleOwnCheat, ToggleCheats, SetBulletin, Say, Notify, QueryScores, Address
<1>4. \/ up'[c] = up[c]
      \/ \E m \in UpMsg : m.kind \notin {"MapNames", "CurrentMap"} /\ up'[c] = Append(up[c], m)
  <2>1. \A m \in UpMsg : Sends(c, m) => up'[c] = Append(up[c], m) BY <1>1 DEF Sends
  <2>2. CASE Connect(c)
    <3>1. PICK m : m = LoginRequest(c \in Mod \ Spectator /\ cheat[c]) OBVIOUS
    <3>2. m \in UpMsg /\ m.kind = "LoginRequest" BY Sendable, <1>1, <3>1 DEF LoginRequest
    <3>3. Sends(c, m) BY <2>2, <3>1 DEF Connect
    <3>4. QED BY <2>1, <3>2, <3>3
  <2>3. CASE ToggleOwnCheat(c)
    <3>1. PICK m : m = CheatState(~ cheat[c]) OBVIOUS
    <3>2. m \in UpMsg /\ m.kind = "CheatState" BY Sendable, <1>1, <3>1 DEF CheatState
    <3>3. up' = up \/ up' = [up EXCEPT ![c] = Append(@, m)] BY <2>3, <3>1 DEF ToggleOwnCheat
    <3>4. QED BY <1>1, <3>2, <3>3
  <2>4. CASE ToggleCheats(c) \/ SetBulletin(c) \/ Say(c) \/ Notify(c) \/ QueryScores(c) \/ Address(c)
    BY EntriesAre, <2>4, Sendable, <2>1 DEF TypeOK, CopyTypeOK, ToggleCheats, SetBulletin, Say, Notify,
       QueryScores, Address, CheatToggle, Bulletin, Said, Important, ScoreList, Whispered,
       RestartRequest
  <2>5. CASE ChangeSector(c)
    <3>1. PICK s \in Sector : IF status[c] = "in" THEN Sends(c, CurrentSector(s)) ELSE UNCHANGED up
      BY <2>5 DEF ChangeSector
    <3>2. CurrentSector(s) \in UpMsg /\ CurrentSector(s).kind = "CurrentSector"
      BY Sendable DEF CurrentSector
    <3>3. QED BY <2>1, <3>1, <3>2
  <2>6. QED BY <2>2, <2>3, <2>4, <2>5
<1>5. QED BY <1>2, <1>3, <1>4, QuietOwn

(* A map is announced, set, loaded. *)
LEMMA ActsOwn ==
  ASSUME TypeOK, NEW c \in Conn, InSession(c), NamesFirst(c), Acts(c)
  PROVE  NamesFirst(c)' \/ status'[c] = "left"
<1>0. /\ up \in [Conn -> Seq(UpMsg)] /\ up[c] \in Seq(UpMsg) /\ place \in [Conn -> Where] /\ place[c] \in Where
      /\ known \in [Conn -> SUBSET Map] /\ status \in [Conn -> {"out", "joining", "in", "left"}]
      /\ game \in [Conn -> {"idle", "loaded", "name", "sector"}]
  BY DEF TypeOK, StreamTypeOK, PlayerTypeOK, CopyTypeOK, ThreadTypeOK
<1>s. up[c] \in Seq(UpMsg) BY DEF TypeOK, StreamTypeOK
<1>1. /\ Telling(c, up[c], known[c], map_names_, game[c], place[c].map, net[c], carried[c].map, nameless)
      /\ c \notin nameless => UpNamed(up[c], map_names_)
  BY DEF NamesFirst, Own
<1>2. CASE AnnounceMap(c)
  <2>1. PICK m : m = CurrentMap(place[c], "Announcement") OBVIOUS
  <2>2. m \in UpMsg /\ m.kind = "CurrentMap" /\ m.map = place[c].map /\ Naming(m) = {}
    BY <1>0, <2>1, Sendable DEF CurrentMap, Naming
  <2>3. /\ up'[c] = Append(up[c], m) /\ game[c] = "idle"
        /\ UNCHANGED <<map_names_, known, game, place, net, carried>>
        /\ nameless' = IF place[c].map \in known[c] THEN nameless ELSE nameless \cup {c}
    BY <1>0, <1>2, <2>1 DEF AnnounceMap, Sends, serverVars, playerVars, copyVars, threadVars
  <2>4. Telling(c, up'[c], known[c], map_names_, game[c], place[c].map, net[c], carried[c].map, nameless)
    BY <2>2, <2>3, <1>1, <1>s, TellingSaid
  <2>5. Own(c)' BY <2>3, <2>4 DEF Telling, Own
  <2>6. c \notin nameless' => UpNamed(up'[c], map_names_)
    BY <1>1, <2>2, <2>3, <1>s, UpNamedSaid DEF Telling
  <2>7. QED BY <2>3, <2>5, <2>6 DEF NamesFirst
<1>3. CASE SetMap(c)
  <2>1. PICK x \in Map, withName \in BOOLEAN :
          /\ place' = [place EXCEPT ![c] = [map |-> x, sector |-> 0]]
          /\ up' = [up EXCEPT ![c] = (IF withName THEN Append(@, MapNames({x})) ELSE @)
                                     \o <<CurrentMap([map |-> x, sector |-> 0], "EnteringMap")>>]
          /\ known' = IF withName THEN [known EXCEPT ![c] = @ \cup {x}] ELSE known
          /\ nameless' = IF withName THEN nameless ELSE nameless \cup {c}
    BY <1>3 DEF SetMap
  <2>2. PICK m, n : m = MapNames({x}) /\ n = CurrentMap([map |-> x, sector |-> 0], "EnteringMap")
    OBVIOUS
  <2>3. /\ m \in UpMsg /\ m.kind = "MapNames" /\ Naming(m) = {x}
        /\ n \in UpMsg /\ n.kind = "CurrentMap" /\ n.map = x /\ Naming(n) = {}
    BY AnnouncementsAssumption, <2>2, Sendable DEF Where, MapNames, CurrentMap, Naming
  <2>4. game[c] = "idle" /\ net[c] = "poll" /\ UNCHANGED <<map_names_, game, net, carried>>
    BY <1>3 DEF SetMap, serverVars, threadVars, InSession
  <2>5. /\ up[c] \o <<n>> = Append(up[c], n) /\ Append(up[c], m) \o <<n>> = Append(Append(up[c], m), n)
        /\ Append(up[c], m) \in Seq(UpMsg)
    BY <1>0, <2>3, Appended
  <2>6. CASE withName
    <3>1. PICK s \in Seq(UpMsg) : s = Append(up[c], m) BY <2>5
    <3>2. up'[c] = Append(s, n) BY <2>1, <2>2, <2>6, <1>0, <2>5, <3>1
    <3>3. known'[c] = known[c] \cup {x} /\ nameless' = nameless BY <1>0, <2>1, <2>6
    <3>4. Gets(s, map_names_, x) BY <1>0, <2>3, <3>1, GetsNow
    <3>5. Gets(Append(s, n), map_names_, x) BY <2>3, <3>4, GetsMore
    <3>6. Only(Append(s, n), known'[c])
      <4>1. Only(up[c], known'[c]) BY <1>0, <1>1, <3>3, OnlyKept DEF Telling
      <4>2. Only(s, known'[c]) BY <1>0, <2>3, <3>1, <3>3, <4>1, OnlyKept
      <4>3. QED BY <2>3, <4>2, OnlyKept
    <3>7. \A y \in known[c] : Gets(Append(s, n), map_names_, y)
      BY <1>1, <2>4, <1>0, <2>3, <3>1, GetsMore DEF Telling
    <3>8. Own(c)' BY <2>4, <3>2, <3>3, <3>5, <3>6, <3>7 DEF Own, Telling
    <3>9. c \notin nameless => UpNamed(Append(s, n), map_names_)
      <4>1. c \notin nameless => UpNamed(s, map_names_) BY <1>0, <1>1, <2>3, <3>1, UpNamedKept
      <4>2. QED BY <2>3, <3>4, <4>1, UpNamedKept
    <3>10. QED BY <2>4, <3>2, <3>3, <3>8, <3>9 DEF NamesFirst
  <2>7. CASE ~ withName
    <3>1. up'[c] = Append(up[c], n) BY <2>1, <2>2, <2>7, <1>0, <2>5
    <3>2. known' = known /\ nameless' = nameless \cup {c} BY <2>1, <2>7
    <3>3. Telling(c, up'[c], known[c], map_names_, game[c], place[c].map, net[c], carried[c].map, nameless)
      BY <2>3, <1>1, <1>s, <3>1, TellingSaid
    <3>4. Own(c)' BY <2>4, <3>2, <3>3 DEF Own, Telling
    <3>5. QED BY <3>2, <3>4 DEF NamesFirst
  <2>8. QED BY <2>6, <2>7
<1>4. CASE LoadLevel(c)
  BY <1>0, <1>4, <1>1 DEF LoadLevel, serverVars, streamVars, copyVars, Own, Telling, NamesFirst
<1>5. CASE Leave(c) \/ EndGame(c) BY <1>0, <1>5 DEF Leave, EndGame, GoesOffline
<1>6. QED BY <1>2, <1>3, <1>4, <1>5, ActsQuietly DEF Acts

LEMMA ThreadsOwn ==
  ASSUME TypeOK, NEW c \in Conn, InSession(c), NamesFirst(c), Threads(c)
  PROVE  status[c] \in {"joining", "in"} => NamesFirst(c)'
<1> SUFFICES ASSUME status[c] \in {"joining", "in"} PROVE NamesFirst(c)' OBVIOUS
<1>0. /\ up \in [Conn -> Seq(UpMsg)] /\ up[c] \in Seq(UpMsg) /\ place \in [Conn -> Where] /\ place[c] \in Where
      /\ known \in [Conn -> SUBSET Map] /\ carried \in [Conn -> Where] /\ carried[c] \in Where
      /\ game \in [Conn -> {"idle", "loaded", "name", "sector"}]
      /\ net \in [Conn -> {"poll", "logged in", "named", "assembled"}]
      /\ game[c] # "idle" => place[c].map \in Map
      /\ place[c].map # NoMap => place[c].map \in Map
  BY DEF TypeOK, StreamTypeOK, PlayerTypeOK, CopyTypeOK, ThreadTypeOK, Where
<1>s. up[c] \in Seq(UpMsg) BY DEF TypeOK, StreamTypeOK
<1>1. /\ Telling(c, up[c], known[c], map_names_, game[c], place[c].map, net[c], carried[c].map, nameless)
      /\ c \notin nameless => UpNamed(up[c], map_names_)
  BY DEF NamesFirst, Own
<1>n. PICK m : m = MapNames({place[c].map}) OBVIOUS
<1>o. m.kind = "MapNames" /\ Naming(m) = {place[c].map} /\ (place[c].map \in Map => m \in UpMsg)
  BY <1>n, Sendable DEF MapNames, Naming
<1>2. CASE EnterName(c)
  <2>1. /\ UNCHANGED <<map_names_, up, place, net, carried, nameless>> /\ game[c] = "loaded"
        /\ game'[c] = IF status[c] # "in" THEN "idle"
                      ELSE IF place[c].map \in known[c] THEN "sector" ELSE "name"
        /\ known'[c] = IF status[c] = "in" THEN known[c] \cup {place[c].map} ELSE known[c]
    BY <1>0, <1>2 DEF EnterName, serverVars, streamVars, playerVars, history
  <2>2. Only(up[c], known'[c]) BY <2>1, <1>s, <1>1, OnlyKept DEF Telling
  <2>3. Own(c)' BY <1>1, <2>1, <2>2 DEF Own, Telling
  <2>4. QED BY <1>1, <2>1, <2>3 DEF NamesFirst
<1>3. CASE SendName(c)
  <2>1. /\ UNCHANGED <<map_names_, known, place, net, carried, nameless>> /\ game[c] = "name"
        /\ game'[c] = "sector" /\ up'[c] = Append(up[c], m) /\ m \in UpMsg
    BY <1>0, <1>3, <1>n, <1>o DEF SendName, Sends, serverVars, playerVars, copyVars, history
  <2>2. Gets(up'[c], map_names_, place[c].map) BY <1>s, <1>o, <2>1, GetsNow
  <2>3. \A x : Gets(up[c], map_names_, x) => Gets(up'[c], map_names_, x) BY <1>s, <2>1, GetsMore
  <2>4. Only(up'[c], known[c]) BY <1>1, <1>o, <2>1, <1>s, OnlyKept DEF Telling
  <2>5. Own(c)' BY <1>1, <2>1, <2>2, <2>3, <2>4 DEF Own, Telling
  <2>6. c \notin nameless => UpNamed(up'[c], map_names_) BY <1>o, <2>1, <1>1, <1>s, UpNamedSaid
  <2>7. QED BY <2>1, <2>5, <2>6 DEF NamesFirst
<1>4. CASE SendPlace(c)
  <2>1. PICK s \in Sector : /\ up' = [up EXCEPT ![c] = @ \o Entering(c, s)]
                            /\ place' = [place EXCEPT ![c].sector = s]
    BY <1>4 DEF SendPlace
  <2>2. PICK n : n = CurrentMap([place[c] EXCEPT !.sector = s], "EnteringMap") OBVIOUS
  <2>3. PICK t : t = CurrentSector(s) OBVIOUS
  <2>4. /\ t \in UpMsg /\ t.kind = "CurrentSector" /\ Naming(t) = {}
        /\ n \in UpMsg /\ n.kind = "CurrentMap" /\ n.map = place[c].map /\ Naming(n) = {}
    BY <1>0, <2>2, <2>3, Sendable DEF Where, CurrentSector, CurrentMap, Naming
  <2>5. up[c] \o Entering(c, s) = Append(up[c], n) \/ up[c] \o Entering(c, s) = Append(Append(up[c], t), n)
    BY <1>s, <2>2, <2>3, <2>4, EnteringIs
  <2>6. up'[c] = Append(up[c], n) \/ up'[c] = Append(Append(up[c], t), n) BY <1>0, <2>1, <2>5
  <2>7. PICK z \in Seq(UpMsg) : up'[c] = Append(z, n) /\ (z = up[c] \/ z = Append(up[c], t))
    BY <1>0, <2>4, Appended, <2>6
  <2>8. /\ Telling(c, z, known[c], map_names_, game[c], place[c].map, net[c], carried[c].map, nameless)
        /\ c \notin nameless => UpNamed(z, map_names_)
    <3>1. Telling(c, Append(up[c], t), known[c], map_names_, game[c], place[c].map, net[c], carried[c].map, nameless)
      BY <2>4, <1>1, <1>s, TellingSaid
    <3>2. c \notin nameless => UpNamed(Append(up[c], t), map_names_)
      BY <1>0, <1>1, <2>4, UpNamedKept
    <3>3. QED BY <1>1, <2>7, <3>1, <3>2
  <2>9. /\ UNCHANGED <<map_names_, known, net, carried, nameless>> /\ game[c] = "sector"
        /\ game'[c] = "idle" /\ place'[c].map = place[c].map
    BY <1>0, <2>1, <1>4 DEF Where, SendPlace, serverVars, copyVars
  <2>10. Telling(c, up'[c], known[c], map_names_, game[c], place[c].map, net[c], carried[c].map, nameless)
    BY <2>4, <2>7, <2>8, TellingSaid
  <2>11. Own(c)' BY <2>9, <2>10 DEF Own, Telling
  <2>12. c \notin nameless => UpNamed(up'[c], map_names_)
    BY <2>4, <2>8, <2>9, <2>7, UpNamedSaid DEF Telling
  <2>13. QED BY <2>9, <2>11, <2>12 DEF NamesFirst
<1>5. CASE NetSendsName(c)
  <2>1. /\ net[c] = "logged in" /\ net'[c] = "named"
        /\ UNCHANGED <<map_names_, game, place, carried>>
        /\ nameless' = IF game[c] = "name" THEN nameless \cup {c} ELSE nameless
        /\ \/ place[c].map \in known[c] \cup {NoMap} /\ known'[c] = known[c] /\ up'[c] = up[c]
           \/ /\ place[c].map \notin known[c] \cup {NoMap} /\ known'[c] = known[c] \cup {place[c].map}
              /\ up'[c] = IF status[c] = "in" THEN Append(up[c], m) ELSE up[c]
    BY <1>0, <1>5, <1>n DEF NetSendsName, serverVars, playerVars
  <2>2. status[c] = "in" BY <2>1 DEF InSession
  <2>3. nameless \subseteq nameless' BY <2>1
  <2>4. CASE known'[c] = known[c] /\ up'[c] = up[c]
    BY <1>1, <2>1, <2>3, <2>4 DEF Own, Telling, NamesFirst
  <2>5. CASE /\ place[c].map \notin known[c] \cup {NoMap} /\ known'[c] = known[c] \cup {place[c].map}
             /\ up'[c] = Append(up[c], m)
    <3>1. m \in UpMsg BY <1>0, <1>o, <2>5
    <3>2. Gets(up'[c], map_names_, place[c].map) BY <1>s, <1>o, <2>5, <3>1, GetsNow
    <3>3. \A x : Gets(up[c], map_names_, x) => Gets(up'[c], map_names_, x)
      <4>1. up'[c] = Append(up[c], m) BY <2>5
      <4>2. QED BY <1>s, <3>1, <4>1, GetsMore
    <3>4. Only(up'[c], known'[c]) BY <1>s, <1>1, <2>5, OnlyKept, <1>o, <3>1 DEF Telling
    <3>5. Own(c)' BY <1>1, <2>1, <2>3, <2>5, <3>2, <3>3, <3>4 DEF Own, Telling
    <3>6. c \notin nameless => UpNamed(up'[c], map_names_)
      BY <1>o, <2>5, <1>1, <1>s, <3>1, UpNamedSaid
    <3>7. QED BY <2>1, <2>3, <3>5, <3>6 DEF NamesFirst
  <2>6. QED BY <2>1, <2>2, <2>4, <2>5
<1>6. CASE Assemble(c)
  BY <1>0, <1>6, <1>1 DEF Assemble, serverVars, streamVars, playerVars, copyVars, Telling, Own,
     NamesFirst
<1>7. CASE NetSendsMap(c)
  <2>1. PICK t : t = CurrentMap(carried[c], "EnteringMap") OBVIOUS
  <2>2. /\ t \in UpMsg /\ t.kind = "CurrentMap" /\ t.map = carried[c].map /\ Naming(t) = {}
        /\ HashData \in UpMsg /\ HashData.kind = "HashData" /\ Naming(HashData) = {}
    BY <1>0, <2>1, Sendable DEF CurrentMap, HashData, Naming
  <2>4. /\ net[c] = "assembled" /\ net'[c] = "poll"
        /\ UNCHANGED <<map_names_, known, game, place, nameless>>
    BY <1>0, <1>7 DEF NetSendsMap, serverVars, playerVars, copyVars, history
  <2>5. PICK r \in Seq(UpMsg) : r = Append(up[c], t) BY <1>0, <2>2, Appended
  <2>6. PICK z \in Seq(UpMsg) : z \in {up[c], r} /\ up'[c] \in {z, Append(z, HashData)}
    <3>1. \/ up'[c] = up[c] \/ up'[c] = Append(up[c], t)
          \/ up'[c] = Append(Append(up[c], t), HashData)
      <4>1. t \in UpMsg BY <2>2
      <4>2. up \in [Conn -> Seq(UpMsg)] BY <1>0
      <4>3. \/ up' = up \/ up' = [up EXCEPT ![c] = Append(@, t)]
            \/ up' = [up EXCEPT ![c] = Append(Append(@, t), HashData)]
        BY <1>7, <2>1, <4>1, <4>2, MapSent
      <4>4. QED BY <4>2, <4>3
    <3>2. CASE up'[c] = up[c] BY <1>0, <3>2
    <3>3. CASE up'[c] = Append(up[c], t) BY <2>5, <3>3
    <3>4. CASE up'[c] = Append(Append(up[c], t), HashData) BY <2>5, <3>4
    <3>5. QED BY <3>1, <3>2, <3>3, <3>4
  <2>s. z = up[c] \/ z = Append(up[c], t) BY <2>5, <2>6
  <2>7. Telling(c, z, known[c], map_names_, game[c], place[c].map, net[c], carried[c].map, nameless)
    BY <2>2, <2>s, <1>1, <1>s, TellingSaid
  <2>8. Telling(c, up'[c], known[c], map_names_, game[c], place[c].map, net[c], carried[c].map, nameless)
    BY <2>2, <2>6, <2>7, TellingSaid
  <2>9. Own(c)' BY <2>4, <2>8 DEF Own, Telling
  <2>10. c \notin nameless => UpNamed(up'[c], map_names_)
    <3>1. c \notin nameless => UpNamed(z, map_names_)
      BY <1>1, <2>2, <2>4, <2>s, <1>s, UpNamedSaid DEF Telling
    <3>2. QED BY <2>2, <2>6, <3>1, UpNamedSaid
  <2>11. QED BY <2>4, <2>9, <2>10 DEF NamesFirst
<1>8. QED BY <1>2, <1>3, <1>4, <1>5, <1>6, <1>7 DEF Threads

-----------------------------------------------------------------------------
(* Names of maps, step by step.                                            *)

LEMMA InitMaps == Init => Maps
<1> SUFFICES ASSUME Init PROVE Maps OBVIOUS
<1>1. online = {} BY Nobody DEF Init, online
<1>2. \A c \in Conn : status[c] = "out" BY DEF Init
<1>3. QED BY <1>1, <1>2 DEF Maps

(* A change of an entry. *)
LEMMA ChangedOthers ==
  ASSUME CopyTypeOK, NEW c \in Conn, NEW id \in Conn, NEW g, Change(g), NEW f, f = Changed(c, id, g)
  PROVE  \A k \in DOMAIN f[c] : k # id => k \in DOMAIN mirror[c] /\ f[c][k] = mirror[c][k]
BY ChangedIs

(* What players and threads do to the copies. *)
LEMMA MoveCopies ==
  ASSUME TypeOK, NEW c \in Conn, Acts(c) \/ Threads(c), status'[c] # "left" \/ status[c] = "left"
  PROVE  /\ known[c] \subseteq known'[c]
         /\ \A id \in DOMAIN mirror'[c] :
              id # c => id \in DOMAIN mirror[c] /\ mirror'[c][id] = mirror[c][id]
<1>0. /\ CopyTypeOK /\ mirror \in [Conn -> Entries] /\ known \in [Conn -> SUBSET Map]
      /\ status \in [Conn -> {"out", "joining", "in", "left"}]
  BY DEF TypeOK, CopyTypeOK, PlayerTypeOK
<1>1. ~ Leave(c) /\ ~ EndGame(c) BY <1>0 DEF Leave, EndGame, GoesOffline
<1>2. known[c] \subseteq known'[c]
  <2>1. known' = known \/ \E x : known' = [known EXCEPT ![c] = @ \cup {x}]
    BY <1>1 DEF Acts, Threads, Connect, ToggleOwnCheat, ToggleCheats, SetBulletin, Say, Notify,
       QueryScores, Address, AnnounceMap, ChangeSector, SetMap, LoadLevel, EnterName, SendName, SendPlace,
       NetSendsName, Assemble, NetSendsMap, copyVars
  <2>2. QED BY <1>0, <2>1
<1>3. CASE mirror' = mirror BY <1>2, <1>3
<1>4. ASSUME NEW g, Change(g), mirror' = OwnChanged(c, g)
      PROVE  \A id \in DOMAIN mirror'[c] :
               id # c => id \in DOMAIN mirror[c] /\ mirror'[c][id] = mirror[c][id]
  BY <1>4, <1>0, ChangedOthers DEF OwnChanged
<1>5. CASE ChangeSector(c)
  <2>1. PICK s \in Sector : mirror' = OwnChanged(c, [sector |-> s]) BY <1>5 DEF ChangeSector
  <2>2. PICK g : g = [sector |-> s] OBVIOUS
  <2>3. Change(g) BY <2>1, <2>2, Changes
  <2>4. QED BY <1>2, <1>4, <2>1, <2>2, <2>3
<1>6. CASE SetMap(c)
  <2>1. PICK x \in Map : mirror' = OwnChanged(c, [map |-> x]) BY <1>6 DEF SetMap
  <2>2. PICK g : g = [map |-> x] OBVIOUS
  <2>3. Change(g) BY <2>1, <2>2, Changes
  <2>4. QED BY <1>2, <1>4, <2>1, <2>2, <2>3
<1>7. QED
  BY <1>1, <1>3, <1>5, <1>6
     DEF Acts, Connect, ToggleOwnCheat, ToggleCheats, SetBulletin, Say, Notify, QueryScores, Address,
         AnnounceMap, LoadLevel, copyVars,
         Threads, EnterName, SendName, SendPlace, NetSendsName, Assemble, NetSendsMap

LEMMA NamelessGrows ==
  ASSUME NEW c \in Conn, Acts(c) \/ Threads(c)
  PROVE  nameless \subseteq nameless'
BY DEF Acts, Connect, ToggleOwnCheat, ToggleCheats, SetBulletin, Say, Notify, QueryScores, Address,
       AnnounceMap, ChangeSector, SetMap, LoadLevel, Leave, EndGame, GoesOffline, history,
       Threads, EnterName, SendName, SendPlace, NetSendsName, Assemble, NetSendsMap

LEMMA MoveMaps ==
  ASSUME TypeOK, Sessions, Maps, NEW c \in Conn, Acts(c) \/ Threads(c)
  PROVE  Maps'
<1>1. /\ UNCHANGED <<record, map_names_, down>>
      /\ \A d \in Conn \ {c} :
           /\ status'[d] = status[d] /\ up'[d] = up[d] /\ known'[d] = known[d]
           /\ mirror'[d] = mirror[d] /\ game'[d] = game[d] /\ net'[d] = net[d]
           /\ place'[d] = place[d] /\ carried'[d] = carried[d]
      /\ nameless' \ {c} = nameless \ {c} /\ nameless \subseteq nameless'
  BY MoveFrame, NamelessGrows
<1>2. Moves(c) /\ Stage(status[c], c \in online, up[c]) /\ InSession(c)
  BY ActsMove, ThreadsMove DEF Sessions, Requested
<1>3. /\ status \in [Conn -> {"out", "joining", "in", "left"}]
      /\ \A d \in Conn : up[d] \in Seq(UpMsg)
      /\ \A d \in Conn : down[d] \in Seq(DownMsg)
      /\ online \subseteq Conn
  BY EntriesAre DEF TypeOK, PlayerTypeOK, StreamTypeOK, ServerTypeOK, Records, online
<1>4. /\ c \in online => /\ \/ status'[c] = status[c] /\ (status[c] = "left" => up'[c] = up[c])
                            \/ status'[c] = "left" /\ up'[c] = up[c]
                         /\ status[c] # "out"
      /\ status'[c] = "in" => status[c] = "in"
  BY <1>2, <1>3 DEF Stage, Moves, SendsOne, SendsTwo, Fits
<1>5. online' = online BY <1>1 DEF online
<1>6. ASSUME c \in online, Active(c)
      PROVE  NamesFirst(c)' \/ (status'[c] = "left" /\ up'[c] = up[c])
  BY <1>6, <1>2, ActsOwn, ThreadsOwn, <1>4 DEF Maps, Recorded, NamesFirst, Active
<1>7. ASSUME NEW d \in online \ nameless'
      PROVE  Recorded(d)'
  BY <1>1, <1>3, <1>7, <1>4, <1>6 DEF Maps, Recorded, Active, NamesFirst
<1>8. ASSUME NEW d \in online, Active(d)'
      PROVE  Hears(d)' /\ Own(d)'
  <2>1. Active(d) /\ d \in Conn BY <1>1, <1>3, <1>4, <1>8 DEF Active
  <2>2. Hears(d) /\ Own(d) BY <2>1 DEF Maps
  <2>3. known[d] \subseteq known'[d] BY <1>8, <1>1, <2>1, MoveCopies DEF Active
  <2>4. Hears(d)' BY <1>3, <2>1, <2>2, <1>1, <2>3, HeardMore DEF Hears
  <2>5. CASE d # c
    <3>1. /\ Telling(d, up[d], known[d], map_names_, game[d], place[d].map, net[d], carried[d].map, nameless)
          /\ up[d] \in Seq(UpMsg)
      BY <1>3, <2>1, <2>2 DEF Own
    <3>a. map_names_ \subseteq map_names_ /\ nameless \subseteq nameless' BY <1>1
    <3>2. Telling(d, up[d], known[d], map_names_, game[d], place[d].map, net[d], carried[d].map, nameless')
      BY <3>a, <3>1, TellingKept
    <3>3. QED BY <1>1, <2>1, <2>4, <2>5, <3>2 DEF Own
  <2>6. CASE d = c
    <3>1. NamesFirst(c)' BY <1>6, <1>8, <2>1, <2>6 DEF Active
    <3>2. QED BY <2>4, <2>6, <3>1 DEF NamesFirst
  <2>7. QED BY <2>5, <2>6
<1>9. ASSUME NEW d \in Conn, status'[d] = "in"
      PROVE  NamedMaps(d)'
  BY <1>1, <1>4, <1>9, MoveCopies DEF Maps, NamedMaps
<1>10. QED BY <1>5, <1>7, <1>8, <1>9 DEF Maps

(* What the record says of maps changes with a player's word only. *)
LEMMA PlacesRecorded ==
  ASSUME TypeOK, NEW c \in Conn, Relaying(c) \/ ServerHashes(c)
  PROVE  \A d \in online :
           \/ record'[d].map = record[d].map
           \/ d = c /\ Head(up[c]).kind = "CurrentMap" /\ record'[d].map = Head(up[c]).map
<1>0. record \in Records /\ up \in [Conn -> Seq(UpMsg)] /\ StreamTypeOK
  BY DEF TypeOK, ServerTypeOK, StreamTypeOK
<1>1. CASE record' = record BY <1>1
<1>2. CASE ServerCheatState(c)
  <2>1. PICK h : h = Head(up[c]) OBVIOUS
  <2>2. h \in UpMsg /\ h.kind = "CheatState"
    BY <1>0, <1>2, <2>1, StreamsTyped DEF ServerCheatState, Receives
  <2>3. record' = record \/ record' = [record EXCEPT ![c].cheated = h.cheated]
    BY <1>2, <2>1 DEF ServerCheatState, CheatRecorded
  <2>4. h.cheated \in BOOLEAN BY <2>2, UpFacts
  <2>5. QED BY <1>0, <1>1, <2>3, <2>4, RecordChanges DEF CheatSet, online
<1>3. CASE ServerCurrentSector(c)
  <2>1. PICK h : h = Head(up[c]) OBVIOUS
  <2>2. h \in UpMsg /\ h.kind = "CurrentSector"
    BY <1>0, <1>3, <2>1, StreamsTyped DEF ServerCurrentSector, Receives
  <2>3. record' = [record EXCEPT ![c].sector = h.sector] BY <1>3, <2>1 DEF ServerCurrentSector
  <2>4. h.sector \in Sector BY <2>2, UpFacts
  <2>5. QED BY <1>0, <2>3, <2>4, RecordChanges DEF SectorSet, online
<1>4. CASE ServerCurrentMap(c)
  <2>1. PICK h : h = Head(up[c]) OBVIOUS
  <2>2. h \in UpMsg /\ h.kind = "CurrentMap"
    BY <1>0, <1>4, <2>1, StreamsTyped DEF ServerCurrentMap, Receives
  <2>3. record' = record \/ record' = [record EXCEPT ![c].map = h.map, ![c].sector = h.sector]
    BY <1>4, <2>1 DEF ServerCurrentMap
  <2>4. h.map \in Map \cup {NoMap} /\ h.sector \in Sector BY <2>2, UpFacts
  <2>5. record' = record \/ PlaceSet(record, c, h.map, h.sector, record')
    BY <1>0, RecordChanges, <2>3, <2>4
  <2>6. QED BY <2>1, <2>2, <2>5 DEF PlaceSet, online
<1>5. QED
  BY <1>1, <1>2, <1>3, <1>4
     DEF Relaying, ServerScores, ServerNotification, ServerWhisper, ServerRestart, ServerRestartFailed,
         ServerCheatToggle, ServerMapNames, ServerBulletin, ServerChat, ServerHashes, serverVars

(* What the server learns does no harm. *)
LEMMA NamedMore ==
  ASSUME NEW s, NEW M, NEW N, M \subseteq N
  PROVE  /\ UpNamed(s, M) => UpNamed(s, N)
         /\ \A c, k, g, p, n, q, nl :
              Telling(c, s, k, M, g, p, n, q, nl) => Telling(c, s, k, N, g, p, n, q, nl)
BY DEF Gets, UpNamed, Telling

(* A message of a player has been handled, and everybody hears in order.   *)
LEMMA TakenMaps ==
  ASSUME TypeOK, Maps, NEW c \in Conn, c \in online, up[c] # <<>>, up' = [up EXCEPT ![c] = Tail(@)],
         map_names_' = map_names_ \cup Naming(Head(up[c])), DOMAIN record' = DOMAIN record,
         UNCHANGED <<playerVars, copyVars, threadVars, history>>,
         \A d \in online :
           \/ record'[d].map = record[d].map
           \/ d = c /\ Head(up[c]).kind = "CurrentMap" /\ record'[d].map = Head(up[c]).map,
         \A d \in online : Active(d) => Heard(d, down'[d], known[d], nameless, map_names_')
  PROVE  Maps'
<1> USE DEF playerVars, copyVars, threadVars, history
<1>1. /\ up \in [Conn -> Seq(UpMsg)] /\ online \subseteq Conn
  BY EntriesAre DEF TypeOK, StreamTypeOK, ServerTypeOK, Records, online
<1>2. online' = online /\ map_names_ \subseteq map_names_' BY DEF online
<1>3. /\ up'[c] = Tail(up[c]) /\ up[c] \in Seq(UpMsg)
      /\ \A d \in Conn \ {c} : up'[d] = up[d] /\ up[d] \in Seq(UpMsg)
  BY <1>1
<1>4. ASSUME NEW d \in online \ nameless
      PROVE  Recorded(d)'
  <2>1. record[d].map \in map_names_ \cup {NoMap} /\ UpNamed(up[d], map_names_)
    BY <1>4 DEF Maps, Recorded
  <2>2. UpNamed(up'[d], map_names_') BY <1>3, <2>1, UpNamedKept, <1>1, <1>4, <1>2, NamedMore
  <2>3. record'[d].map \in map_names_' \cup {NoMap} BY <1>2, <2>1, <1>3, UpNamedKept, <1>4
  <2>4. QED BY <2>2, <2>3 DEF Recorded
<1>5. ASSUME NEW d \in online, Active(d)'
      PROVE  Hears(d)' /\ Own(d)'
  <2>1. Active(d) /\ d \in Conn BY <1>1, <1>5 DEF Active
  <2>2. Hears(d)' BY <2>1 DEF Hears
  <2>3. Telling(d, up[d], known[d], map_names_, game[d], place[d].map, net[d], carried[d].map, nameless)
    BY <2>1 DEF Maps, Own
  <2>4. Telling(d, up'[d], known[d], map_names_', game[d], place[d].map, net[d], carried[d].map, nameless)
    <3>1. CASE d = c
      <4>1. Telling(c, Tail(up[c]), known[c], map_names_ \cup Naming(Head(up[c])), game[c], place[c].map,
                    net[c], carried[c].map, nameless)
        <5>1. up[c] \in Seq(UpMsg) /\ up[c] # <<>> BY <1>3
        <5>2. Telling(c, up[c], known[c], map_names_, game[c], place[c].map, net[c], carried[c].map, nameless)
          BY <2>3, <3>1
        <5>3. QED BY <5>1, <5>2, TellingKept
      <4>2. QED BY <1>3, <3>1, <4>1
    <3>2. CASE d # c
      <4>1. up[d] \in Seq(UpMsg) /\ up'[d] = up[d] BY <1>3, <2>1, <3>2
      <4>2. Telling(d, up[d], known[d], map_names_', game[d], place[d].map, net[d], carried[d].map, nameless)
        BY <1>2, <2>3, NamedMore, ZenonT(60)
      <4>3. QED BY <4>1, <4>2
    <3>3. QED BY <3>1, <3>2
  <2>5. QED BY <2>2, <2>4 DEF Own
<1>6. ASSUME NEW d \in Conn, status'[d] = "in"
      PROVE  NamedMaps(d)'
  BY <1>6 DEF Maps, NamedMaps
<1>7. QED BY <1>2, <1>4, <1>5, <1>6 DEF Maps

LEMMA RelayMaps ==
  ASSUME TypeOK, Sessions, Maps, NEW c \in Conn, Relaying(c)
  PROVE  Maps'
<1>1. PICK S, m : m \in DownMsg /\ RelayOf(c, S, m) BY RelayIs
<1>2. /\ up[c] # <<>> /\ up' = [up EXCEPT ![c] = Tail(@)] /\ Head(up[c]).kind # "LoginRequest"
      /\ DOMAIN record' = DOMAIN record /\ UNCHANGED <<playerVars, copyVars, threadVars, history>>
  BY RelayIs, Speaking
<1>3. /\ c \in online
      /\ \A d \in online :
           \/ record'[d].map = record[d].map
           \/ d = c /\ Head(up[c]).kind = "CurrentMap" /\ record'[d].map = Head(up[c]).map
  BY <1>2, ReceivedFrom, PlacesRecorded
<1>4. /\ down \in [Conn -> Seq(DownMsg)] /\ online \subseteq Conn /\ up \in [Conn -> Seq(UpMsg)]
  BY EntriesAre DEF TypeOK, StreamTypeOK, ServerTypeOK, Records, online
<1>5. \A d \in Conn : down'[d] = IF d \in S THEN Append(down[d], m) ELSE down[d]
  BY <1>1, <1>4 DEF RelayOf, Told
<1>6. map_names_' = map_names_ \cup Naming(Head(up[c])) BY <1>1 DEF RelayOf, Naming
<1>7. ASSUME NEW d \in online, Active(d)
      PROVE  Heard(d, down'[d], known[d], nameless, map_names_')
  <2>1. PICK s \in Seq(DownMsg) : s = down[d] BY <1>4
  <2>2. Heard(d, s, known[d], nameless, map_names_) BY <1>7, <2>1 DEF Maps, Hears
  <2>3. CASE m.kind = "MapNames"
    <3>1. Head(up[c]) = m /\ S = online \ {c} /\ map_names_' = map_names_ \cup Naming(m)
      BY <1>1, <1>6, <2>3 DEF RelayOf
    <3>2. CASE d = c
      <4>1. up[c] \in Seq(UpMsg) BY <1>4
      <4>2. Telling(c, up[c], known[c], map_names_, game[c], place[c].map, net[c], carried[c].map, nameless)
        BY <1>7, <3>2 DEF Maps, Own
      <4>3. Naming(Head(up[c])) \subseteq known[c] BY <1>2, <4>1, <4>2, TellingKept
      <4>4. Heard(d, s, known[d], nameless, map_names_ \cup Naming(m))
        BY <3>1, <3>2, <4>3, <2>2, HeardMore
      <4>5. down'[d] = s BY <1>4, <1>5, <2>1, <3>1, <3>2
      <4>6. QED BY <3>1, <4>4, <4>5
    <3>3. CASE d # c
      <4>1. \A id \in Conn \ (nameless \cup {d}), x \in Map : Puts(m, id, x) => x \in map_names_
        BY <2>3 DEF Puts
      <4>2. Heard(d, Append(s, m), known[d], nameless, map_names_ \cup Naming(m))
        BY <1>1, <2>2, <4>1, HeardNow
      <4>3. down'[d] = Append(s, m) BY <1>4, <1>5, <2>1, <3>1, <3>3
      <4>4. QED BY <3>1, <4>2, <4>3
    <3>4. QED BY <3>2, <3>3
  <2>4. CASE m.kind # "MapNames"
    <3>1. map_names_' = map_names_ /\ Naming(m) = {} BY <1>1, <2>4 DEF RelayOf, Naming
    <3>2. ASSUME NEW id \in Conn \ (nameless \cup {d}), NEW x \in Map, Puts(m, id, x)
          PROVE  x \in map_names_
      <4>1. Head(up[c]).kind = "CurrentMap" /\ m.from = c /\ m.map = Head(up[c]).map /\ id = c /\ m.map = x
        BY <1>1, <3>2 DEF RelayOf, Puts
      <4>2. UpNamed(up[c], map_names_) /\ up[c] \in Seq(UpMsg)
        BY <1>3, <1>4, <4>1 DEF Maps, Recorded
      <4>3. Head(up[c]).map \in map_names_ \cup {NoMap} BY <1>2, <4>1, <4>2, UpNamedKept
      <4>4. QED BY <4>1, <4>3, AnnouncementsAssumption
    <3>3. Heard(d, Append(s, m), known[d], nameless, map_names_ \cup Naming(m))
      BY <1>1, <2>2, <3>2, HeardNow
    <3>4. map_names_ \cup Naming(m) = map_names_' BY <3>1
    <3>5. down'[d] = Append(s, m) \/ down'[d] = s BY <1>4, <1>5, <2>1
    <3>6. QED BY <2>2, <3>1, <3>3, <3>4, <3>5
  <2>5. QED BY <2>3, <2>4
<1>8. QED BY <1>2, <1>3, <1>6, <1>7, TakenMaps

LEMMA HashMaps ==
  ASSUME TypeOK, Sessions, Maps, NEW c \in Conn, ServerHashes(c)
  PROVE  Maps'
<1>1. /\ up[c] # <<>> /\ up' = [up EXCEPT ![c] = Tail(@)] /\ Head(up[c]).kind = "HashData"
      /\ UNCHANGED serverVars /\ UNCHANGED <<playerVars, copyVars, threadVars, history>>
  BY DEF ServerHashes, Receives, ServerOnly
<1>2. /\ c \in online
      /\ \A d \in online :
           \/ record'[d].map = record[d].map
           \/ d = c /\ Head(up[c]).kind = "CurrentMap" /\ record'[d].map = Head(up[c]).map
  BY <1>1, ReceivedFrom, PlacesRecorded
<1>3. PICK n \in 0 .. acts["modified"] :
        down' = [d \in Conn |-> down[d] \o [f \in 1 .. (IF d \in online THEN n ELSE 0) |-> Warning]]
  BY DEF ServerHashes
<1>4. n \in Nat BY <1>3 DEF TypeOK, ActsTypeOK
<1>5. down \in [Conn -> Seq(DownMsg)] /\ online \subseteq Conn
  BY EntriesAre DEF TypeOK, StreamTypeOK, ServerTypeOK, Records, online
<1>6. Warning \in DownMsg /\ Mute(Warning) BY Tellable, Muted DEF Warning
<1>7. map_names_' = map_names_ \cup Naming(Head(up[c])) /\ map_names_' = map_names_
  BY <1>1 DEF Naming, serverVars
<1>8. ASSUME NEW d \in online, Active(d)
      PROVE  Heard(d, down'[d], known[d], nameless, map_names_')
  <2>1. PICK w : w = [f \in 1 .. n |-> Warning] OBVIOUS
  <2>2. w \in Seq(DownMsg) /\ \A i \in 1 .. Len(w) : Mute(w[i]) BY <1>4, <1>6, <2>1
  <2>3. PICK s \in Seq(DownMsg) : s = down[d] BY <1>5
  <2>4. down'[d] = s \o w BY <1>3, <1>5, <2>1, <2>3
  <2>5. Heard(d, s, known[d], nameless, map_names_) BY <1>8, <2>3 DEF Maps, Hears
  <2>6. Heard(d, s \o w, known[d], nameless, map_names_) BY <2>2, <2>5, HeardKept
  <2>7. QED BY <1>7, <2>4, <2>6
<1>9. DOMAIN record' = DOMAIN record BY <1>1 DEF serverVars
<1>10. QED BY <1>1, <1>2, <1>7, <1>8, <1>9, TakenMaps

(* A mute message, to some. *)
LEMMA ToldMaps ==
  ASSUME TypeOK, Maps, NEW S, NEW m \in DownMsg, Mute(m), down' = Told(down, S, m),
         UNCHANGED <<record, map_names_, up, playerVars, copyVars, threadVars, history>>
  PROVE  Maps'
<1> USE DEF playerVars, copyVars, threadVars, history
<1>1. down \in [Conn -> Seq(DownMsg)] /\ online \subseteq Conn /\ online' = online
  BY EntriesAre DEF TypeOK, StreamTypeOK, ServerTypeOK, Records, online
<1>2. ASSUME NEW d \in online, Active(d)
      PROVE  Hears(d)'
  <2>1. PICK s \in Seq(DownMsg) : s = down[d] BY <1>1
  <2>2. Heard(d, s, known[d], nameless, map_names_) BY <1>2, <2>1 DEF Maps, Hears
  <2>3. Heard(d, Append(s, m), known[d], nameless, map_names_ \cup Naming(m))
    BY <2>2, HeardNow DEF Mute
  <2>4. map_names_ \cup Naming(m) = map_names_ BY DEF Mute
  <2>5. down'[d] = s \/ down'[d] = Append(s, m) BY <1>1, <2>1 DEF Told
  <2>6. QED BY <2>2, <2>3, <2>4, <2>5 DEF Hears
<1>3. \A d \in online \ nameless : Recorded(d)' BY DEF Maps, Recorded
<1>4. \A d \in online : Active(d) => Own(d)' BY DEF Maps, Own
<1>5. \A d \in Conn : status[d] = "in" => NamedMaps(d)' BY DEF Maps, NamedMaps
<1>6. \A d \in online : Active(d)' => Active(d) BY DEF Active
<1>7. QED BY <1>1, <1>2, <1>3, <1>4, <1>5, <1>6 DEF Maps

LEMMA ConsoleMaps ==
  ASSUME TypeOK, Maps, ConsoleToggleCheat \/ ConsoleBulletin
  PROVE  Maps'
<1>1. PICK m \in DownMsg : /\ down' = Told(down, online, m)
                           /\ m.kind \in {"CheatToggle", "PermanentNotification"}
  BY ConsoleIs
<1>2. Mute(m) BY <1>1, Muted
<1>3. UNCHANGED <<record, map_names_, up, playerVars, copyVars, threadVars, history>> BY ConsoleIs
<1>4. QED BY <1>1, <1>2, <1>3, ToldMaps

LEMMA LoginMaps ==
  ASSUME TypeOK, Sessions, Maps, NEW c \in Conn, ServerLogin(c)
  PROVE  Maps'
<1>1. /\ c \notin online /\ status[c] \in {"joining", "left"} /\ up[c] # <<>>
      /\ up' = [up EXCEPT ![c] = Tail(@)]
      /\ UNCHANGED <<map_names_, status, place, known, mirror, game, net, carried, nameless>>
      /\ record' \in Records /\ online' = online \cup {c}
      /\ record'[c] = Player(Head(up[c]).cheated, Nowhere)
      /\ \A d \in online : record'[d] = record[d]
  BY LoginIs DEF playerVars, copyVars, threadVars, history
<1>2. /\ up \in [Conn -> Seq(UpMsg)] /\ down \in [Conn -> Seq(DownMsg)] /\ map_names_ \in SUBSET Map
      /\ online \subseteq Conn
  BY EntriesAre DEF TypeOK, StreamTypeOK, ServerTypeOK, Records, online
<1>3. PICK v \in Seq(UpMsg) : v = Tail(up[c]) /\ \A i \in 1 .. Len(v) : v[i].kind = "CheatState"
  <2>1. Asking(up[c]) BY <1>1 DEF Sessions, Requested, Stage
  <2>2. PICK s \in Seq(UpMsg) : s = up[c] BY <1>2
  <2>3. PICK t \in Seq(UpMsg) : t = Tail(s) /\ \A i \in 1 .. Len(t) : t[i] = s[i + 1] /\ i + 1 \in 1 .. Len(s)
    BY <1>1, <2>2, Taken
  <2>4. \A i \in 1 .. Len(t) : s[i + 1].kind = "CheatState" BY <2>3, <2>1, <2>2 DEF Asking
  <2>5. QED BY <2>2, <2>3, <2>4
<1>4. up'[c] = v /\ \A d \in Conn \ {c} : up'[d] = up[d] BY <1>1, <1>2, <1>3
<1>5. ASSUME NEW d \in online' \ nameless'
      PROVE  Recorded(d)'
  <2>1. CASE d = c
    <3>1. record'[c].map = NoMap BY <1>1 DEF Player, Nowhere
    <3>2. UpNamed(v, map_names_) BY <1>3 DEF UpNamed
    <3>3. QED BY <1>1, <1>4, <2>1, <3>1, <3>2 DEF Recorded
  <2>2. CASE d # c BY <1>1, <1>2, <1>4, <1>5, <2>2 DEF Maps, Recorded
  <2>3. QED BY <2>1, <2>2
<1>6. ASSUME NEW d \in online, Active(d)
      PROVE  Hears(d)' /\ Own(d)'
  <2>1. PICK x \in BOOLEAN : \A q \in Conn \ {c} :
          \/ q \in online /\ down'[q] = Append(down[q], PlayerConnected(c, x))
          \/ q \notin online /\ down'[q] = down[q]
    BY LoginIs
  <2>2. PICK m : m = PlayerConnected(c, x) OBVIOUS
  <2>3. m \in DownMsg /\ Mute(m) BY <2>1, <2>2, Tellable, Muted DEF PlayerConnected
  <2>4. PICK s \in Seq(DownMsg) : s = down[d] BY <1>2
  <2>5. down'[d] = Append(s, m) BY <1>1, <1>2, <2>1, <2>2, <2>4
  <2>6. Heard(d, s, known[d], nameless, map_names_) BY <1>6, <2>4 DEF Maps, Hears
  <2>7. Heard(d, Append(s, m), known[d], nameless, map_names_ \cup Naming(m))
    BY <2>3, <2>6, HeardNow DEF Mute
  <2>8. map_names_ \cup Naming(m) = map_names_ BY <2>3 DEF Mute
  <2>9. Hears(d)' BY <1>1, <2>5, <2>7, <2>8 DEF Hears
  <2>10. Own(d) /\ up'[d] = up[d] BY <1>1, <1>2, <1>4, <1>6 DEF Maps
  <2>11. QED BY <1>1, <2>9, <2>10 DEF Own
<1>7. ASSUME Active(c)
      PROVE  Hears(c)' /\ Own(c)'
  <2>1. status[c] = "joining" /\ known[c] = {} /\ Len(down[c]) = 0
    BY <1>1, <1>7 DEF Active, Sessions, Requested
  <2>2. PICK r, ch : r = record' /\ ch = Head(up[c]).cheated OBVIOUS
  <2>3. PICK a, t, b \in Seq(DownMsg) :
          /\ down'[c] = down[c] \o (a \o <<LoginAccepted(r)>> \o t \o b)
          /\ Greets(c, ch, a, t, b)
    BY <2>2, LoginIs
  <2>4. PICK e, w, m : GreetingIs(r, a, t, b, e, w, m)
    <3>1. r \in Records BY <1>1, <2>2
    <3>2. QED BY <2>3, <3>1, Greeting
  <2>5. /\ a \in Seq(DownMsg) /\ e \in Seq(DownMsg) /\ w \in Seq(DownMsg) /\ m \in DownMsg
        /\ m.kind = "LoginAccepted" /\ m.online = r /\ e = a \o <<m>>
        /\ \A i \in 1 .. Len(w) : w[i].kind \in {"CheatToggle", "PermanentNotification"}
    BY <2>3, <2>4 DEF GreetingIs
  <2>6. down'[c] = e \o w
    <3>1. PICK s \in Seq(DownMsg) : s = down[c] BY <1>2
    <3>2. s = <<>> BY <2>1, <3>1
    <3>3. PICK u \in Seq(DownMsg) : u = e \o w BY <2>5, Joined
    <3>4. <<>> \o u = u OBVIOUS
    <3>5. QED BY <2>3, <2>4, <3>1, <3>2, <3>3, <3>4, Zenon DEF GreetingIs
  <2>7. Heard(c, Append(a, m) \o w, {}, nameless, map_names_)
    <3>1. r \in Records /\ \A id \in DOMAIN r \ (nameless \cup {c}) : r[id].map \in map_names_ \cup {NoMap}
      BY <1>1, <2>2 DEF online, Maps, Recorded
    <3>2. \/ map_names_ = {} /\ Len(a) = 0
          \/ map_names_ # {} /\ Len(a) = 1 /\ a[1] = MapNames(map_names_)
      BY <2>3, GreetsIs
    <3>3. \A i \in 1 .. Len(w) : Mute(w[i]) BY <2>5, Muted
    <3>4. map_names_ \in SUBSET Map BY <1>2
    <3>5. m \in DownMsg /\ m.kind = "LoginAccepted" /\ m.online = r /\ a \in Seq(DownMsg) /\ w \in Seq(DownMsg)
      BY <2>5
    <3>6. QED BY <3>1, <3>2, <3>3, <3>4, <3>5, HeardFirst
  <2>8. Append(a, m) = e BY <2>5, Appended
  <2>9. Hears(c)' BY <1>1, <2>1, <2>6, <2>7, <2>8 DEF Hears
  <2>10. game[c] \notin {"name", "sector"} /\ net[c] = "poll"
    BY <2>1 DEF Sessions, TypeOK, ThreadTypeOK, InSession
  <2>11. Only(v, {}) BY <1>3 DEF Only, Naming
  <2>12. Own(c)' BY <1>1, <1>4, <2>1, <2>10, <2>11 DEF Own, Telling
  <2>13. QED BY <2>9, <2>12
<1>8. ASSUME NEW d \in online', Active(d)'
      PROVE  Hears(d)' /\ Own(d)'
  BY <1>1, <1>6, <1>7, <1>8 DEF Active
<1>9. \A d \in Conn : status'[d] = "in" => NamedMaps(d)' BY <1>1 DEF Maps, NamedMaps
<1>10. QED BY <1>5, <1>8, <1>9 DEF Maps

LEMMA DepartMaps ==
  ASSUME TypeOK, Maps, NEW c \in Conn, Depart(c)
  PROVE  Maps'
<1>1. /\ c \in online /\ online' = online \ {c}
      /\ \A d \in online \ {c} : record'[d] = record[d]
      /\ down' = Told(down, online \ {c}, PlayerDisconnected(c))
      /\ UNCHANGED <<status, place, known, mirror, game, net, carried, nameless>>
      /\ online = {c} \/ map_names_' = map_names_
  BY DEF Depart, playerVars, copyVars, threadVars, history, DepartTold, online, Without
<1>2. /\ up \in [Conn -> Seq(UpMsg)] /\ down \in [Conn -> Seq(DownMsg)] /\ online \subseteq Conn
  BY EntriesAre DEF TypeOK, StreamTypeOK, ServerTypeOK, Records, online
<1>3. \A d \in Conn \ {c} : up'[d] = up[d]
  <2>1. PICK z : z = <<>> OBVIOUS
  <2>2. up' = [up EXCEPT ![c] = z] BY <2>1 DEF Depart
  <2>3. QED BY <1>2, <2>2
<1>4. PICK m : m = PlayerDisconnected(c) OBVIOUS
<1>5. m \in DownMsg /\ Mute(m) BY <1>4, Tellable, Muted DEF PlayerDisconnected
<1>6. ASSUME NEW d \in online' \ nameless'
      PROVE  Recorded(d)'
  BY <1>1, <1>6, <1>2, <1>3 DEF Maps, Recorded
<1>7. ASSUME NEW d \in online', Active(d)'
      PROVE  Hears(d)' /\ Own(d)'
  <2>1. d \in online /\ d # c /\ map_names_' = map_names_ /\ Active(d) BY <1>1, <1>7 DEF Active
  <2>2. Hears(d) /\ Own(d) /\ up'[d] = up[d] BY <1>2, <1>3, <2>1 DEF Maps
  <2>3. PICK s \in Seq(DownMsg) : s = down[d] BY <1>2, <2>1
  <2>4. down'[d] = Append(s, m) BY <1>1, <1>2, <1>4, <2>1, <2>3 DEF Told
  <2>5. Heard(d, Append(s, m), known[d], nameless, map_names_ \cup Naming(m))
    BY <1>5, <2>2, <2>3, HeardNow DEF Mute, Hears
  <2>6. map_names_ \cup Naming(m) = map_names_ BY <1>5 DEF Mute
  <2>7. QED BY <1>1, <2>1, <2>2, <2>4, <2>5, <2>6 DEF Hears, Own
<1>8. \A d \in Conn : status'[d] = "in" => NamedMaps(d)' BY <1>1 DEF Maps, NamedMaps
<1>9. QED BY <1>6, <1>7, <1>8 DEF Maps

(* Where a copy places players after a message. *)
LEMMA PlacedAfter ==
  ASSUME CopyTypeOK, NEW c \in Conn, NEW h \in DownMsg, NEW f, f = MirrorAfter(c, h)
  PROVE  /\ \A d \in Conn \ {c} : f[d] = mirror[d]
         /\ \A id \in DOMAIN f[c] :
              \/ f[c][id].map = NoMap
              \/ Puts(h, id, f[c][id].map)
              \/ /\ h.kind # "LoginAccepted"
                 /\ id \in DOMAIN mirror[c] /\ f[c][id].map = mirror[c][id].map
<1>0. mirror \in [Conn -> Entries] /\ mirror[c] \in Entries /\ \A k \in DOMAIN mirror[c] : mirror[c][k] \in Entry
  BY EntriesAre DEF CopyTypeOK
<1>1. \A d \in Conn \ {c} : f[d] = mirror[d] BY HandledNames
<1>2. CASE h.kind = "LoginAccepted"
  <2>1. PICK r \in Records : r = h.online BY <1>2, DownFacts
  <2>2. PICK v : v = Without(r, c) OBVIOUS
  <2>3. \A d \in DOMAIN v : d \in DOMAIN r /\ v[d] = r[d] BY <2>2 DEF Without
  <2>4. f = [mirror EXCEPT ![c] = IF c \in Mod THEN v ELSE r] BY <1>2, <2>1, <2>2 DEF MirrorAfter
  <2>5. f[c] = v \/ f[c] = r BY <1>0, <2>4
  <2>6. \A id \in DOMAIN f[c] : Puts(h, id, f[c][id].map) BY <1>2, <2>1, <2>3, <2>5 DEF Puts
  <2>7. QED BY <1>1, <2>6
<1>3. CASE h.kind = "PlayerConnected"
  <2>1. PICK v, id : v = Player(h.cheated, Nowhere) /\ id = h.from OBVIOUS
  <2>2. v.map = NoMap BY <2>1 DEF Player, Nowhere
  <2>3. PICK w : w = With(mirror[c], id, v) OBVIOUS
  <2>4. \A d \in DOMAIN w : (d = id /\ w[d] = v) \/ (d \in DOMAIN mirror[c] /\ w[d] = mirror[c][d])
    <3>1. PICK q : q = mirror[c] OBVIOUS
    <3>2. DOMAIN With(q, id, v) = DOMAIN q \cup {id} BY WithIs
    <3>3. With(q, id, v)[id] = v BY WithIs
    <3>4. \A d \in DOMAIN q \ {id} : With(q, id, v)[d] = q[d] BY WithIs
    <3>5. QED BY <2>3, <3>1, <3>2, <3>3, <3>4
  <2>5. f = mirror \/ f = [mirror EXCEPT ![c] = w] BY <1>3, <2>1, <2>3 DEF MirrorAfter
  <2>6. f[c] = mirror[c] \/ f[c] = w BY <1>0, <2>5
  <2>7. QED BY <1>1, <1>3, <2>2, <2>4, <2>6
<1>4. CASE h.kind = "PlayerDisconnected"
  <2>1. PICK w : w = Without(mirror[c], h.from) OBVIOUS
  <2>2. \A d \in DOMAIN w : d \in DOMAIN mirror[c] /\ w[d] = mirror[c][d] BY <2>1 DEF Without
  <2>3. f = [mirror EXCEPT ![c] = w] BY <1>4, <2>1 DEF MirrorAfter
  <2>4. f[c] = w BY <1>0, <2>3
  <2>5. QED BY <1>1, <1>4, <2>2, <2>4
<1>5. ASSUME NEW k \in Conn, NEW g, Change(g), f = Changed(c, k, g),
             "map" \in DOMAIN g => h.kind = "CurrentMap" /\ h.from = k /\ h.map = g["map"],
             h.kind # "LoginAccepted", NEW id \in DOMAIN f[c]
      PROVE  \/ f[c][id].map = NoMap
             \/ Puts(h, id, f[c][id].map)
             \/ id \in DOMAIN mirror[c] /\ f[c][id].map = mirror[c][id].map
  <2>1. CASE id # k BY <1>5, <2>1, ChangedOthers
  <2>2. CASE id = k /\ k \in DOMAIN mirror[c] BY <1>5, <2>2, ChangedIs, <1>0, ChangeKeeps DEF Puts
  <2>3. CASE id = k /\ k \notin DOMAIN mirror[c]
    <3>1. c \notin Mod BY <1>5, <2>3, ChangedIs
    <3>2. f[c][k] = Over(Unnamed, g) BY <1>5, <2>3, <3>1, ChangedIs
    <3>3. Unnamed \in Entry /\ Unnamed.map = NoMap BY Joins
    <3>4. f[c][k].map = IF "map" \in DOMAIN g THEN g["map"] ELSE NoMap
      BY <1>5, <3>2, <3>3, ChangeKeeps
    <3>5. QED BY <1>5, <2>3, <3>4 DEF Puts
  <2>4. QED BY <2>1, <2>2, <2>3
<1>6. CASE h.kind \notin {"LoginAccepted", "PlayerConnected", "PlayerDisconnected"}
  <2>1. \/ f = mirror
        \/ \E k, g : /\ k \in Conn /\ Change(g) /\ f = Changed(c, k, g)
                     /\ "map" \in DOMAIN g => h.kind = "CurrentMap" /\ h.from = k /\ h.map = g["map"]
    <3>1. CASE h.kind = "OwnedCheatState"
      <4>1. PICK g : g = [cheated |-> h.cheated] OBVIOUS
      <4>2. h.from \in Conn /\ Change(g) /\ "map" \notin DOMAIN g BY <3>1, <4>1, DownFacts, Changes
      <4>3. f = Changed(c, h.from, g) BY <3>1, <4>1 DEF MirrorAfter
      <4>4. QED BY <4>2, <4>3
    <3>2. CASE h.kind = "CurrentMap"
      <4>1. PICK g : g = [map |-> h.map, sector |-> h.sector] OBVIOUS
      <4>2. h.from \in Conn /\ Change(g) /\ h.map = g["map"] BY <3>2, <4>1, DownFacts, Changes
      <4>3. f = mirror \/ f = Changed(c, h.from, g) BY <3>2, <4>1 DEF MirrorAfter
      <4>4. QED BY <3>2, <4>2, <4>3
    <3>3. CASE h.kind = "CurrentSector"
      <4>1. PICK g : g = [sector |-> h.sector] OBVIOUS
      <4>2. h.from \in Conn /\ Change(g) /\ "map" \notin DOMAIN g BY <3>3, <4>1, DownFacts, Changes
      <4>3. f = Changed(c, h.from, g) BY <3>3, <4>1 DEF MirrorAfter
      <4>4. QED BY <4>2, <4>3
    <3>4. QED BY <1>6, <3>1, <3>2, <3>3 DEF MirrorAfter
  <2>2. CASE f = mirror BY <1>6, <2>2
  <2>3. CASE f # mirror
    <3>1. PICK k, g : /\ k \in Conn /\ Change(g) /\ f = Changed(c, k, g)
                      /\ "map" \in DOMAIN g =>
                           h.kind = "CurrentMap" /\ h.from = k /\ h.map = g["map"]
      BY <2>1, <2>3
    <3>2. \A id \in DOMAIN f[c] :
            \/ f[c][id].map = NoMap
            \/ Puts(h, id, f[c][id].map)
            \/ id \in DOMAIN mirror[c] /\ f[c][id].map = mirror[c][id].map
      BY <1>5, <1>6, <3>1
    <3>3. QED BY <1>1, <1>6, <3>2
  <2>4. QED BY <2>2, <2>3
<1>7. QED BY <1>2, <1>3, <1>4, <1>6

LEMMA ClientMaps ==
  ASSUME TypeOK, Sessions, Rosters, Maps, NEW c \in Conn, ClientHandles(c)
  PROVE  Maps'
<1>1. PICK h : h = Head(down[c]) OBVIOUS
<1>2. /\ CopyAfter(c, h) /\ StatusAfter(c, h) /\ AnswerAfter(c, h)
      /\ down[c] # <<>> /\ down' = [down EXCEPT ![c] = Tail(@)]
      /\ net[c] = "poll" /\ UNCHANGED <<record, map_names_, place, game, carried, nameless>>
  BY <1>1, HandlingIs DEF serverVars
<1>3. /\ h \in DownMsg
      /\ status[c] = "joining" => c \in online /\ h.kind \in {"LoginAccepted", "MapNames"}
      /\ status[c] = "in" => c \in online /\ h.kind # "LoginAccepted"
  BY <1>1, HandledIn
<1>4. /\ CopyTypeOK /\ known \in [Conn -> SUBSET Map] /\ mirror \in [Conn -> Entries]
      /\ down \in [Conn -> Seq(DownMsg)] /\ up \in [Conn -> Seq(UpMsg)] /\ online \subseteq Conn
      /\ status \in [Conn -> {"out", "joining", "in", "left"}]
      /\ net \in [Conn -> {"poll", "logged in", "named", "assembled"}]
  BY EntriesAre DEF TypeOK, StreamTypeOK, ServerTypeOK, Records, online, PlayerTypeOK, CopyTypeOK,
     ThreadTypeOK
<1>5. PICK k : k = known[c] \cup Naming(h) OBVIOUS
<1>6. /\ known'[c] = k /\ down'[c] = Tail(down[c]) /\ net'[c] \in {"poll", "logged in"}
      /\ \A d \in Conn \ {c} : /\ known'[d] = known[d] /\ down'[d] = down[d] /\ net'[d] = net[d]
                               /\ status'[d] = status[d]
      /\ status'[c] = "in" => \/ status[c] = "in"
                              \/ status[c] = "joining" /\ h.kind = "LoginAccepted"
      /\ status'[c] = "joining" => status[c] = "joining"
  BY <1>2, <1>4, <1>5 DEF CopyAfter, StatusAfter, Naming
<1>7. \/ up'[c] = up[c]
      \/ \E m \in UpMsg : /\ up'[c] = Append(up[c], m)
                          /\ m.kind \notin {"MapNames", "CurrentMap"}
  <2>1. CASE up' = up BY <2>1
  <2>2. CASE Answers(c, h) /\ up' = [up EXCEPT ![c] = Append(@, CheatState(h.cheated))]
    BY <1>3, <2>2, DownFacts, Sendable, <1>4 DEF Answers, Toggles, CheatState
  <2>3. CASE h.kind = "RestartRequest" /\ up' = [up EXCEPT ![c] = Append(@, RestartFailed(h.from))]
    BY <1>3, <2>3, DownFacts, Sendable, <1>4 DEF RestartFailed
  <2>4. QED BY <1>2, <2>1, <2>2, <2>3 DEF AnswerAfter
<1>8. \A d \in Conn \ {c} : up'[d] = up[d] BY <1>2, <1>4 DEF AnswerAfter
<1>9. online' = online BY <1>2 DEF online
<1>10. ASSUME NEW d \in online \ nameless
       PROVE  Recorded(d)'
  <2>1. record[d].map \in map_names_ \cup {NoMap} /\ UpNamed(up[d], map_names_)
    BY <1>10 DEF Maps, Recorded
  <2>2. UpNamed(up'[d], map_names_)
    <3>1. CASE d = c BY <1>4, <2>1, <3>1, UpNamedSaid, <1>7
    <3>2. CASE d # c BY <1>4, <1>8, <1>10, <2>1, <3>2
    <3>3. QED BY <3>1, <3>2
  <2>3. QED BY <1>2, <2>1, <2>2 DEF Recorded
<1>11. ASSUME NEW d \in online, Active(d)', d # c
       PROVE  Hears(d)' /\ Own(d)'
  BY <1>4, <1>6, <1>11, <1>2, <1>8 DEF Active, Maps, Hears, Own
<1>12. ASSUME status[c] \in {"joining", "in"}
       PROVE  /\ Hears(c)' /\ Own(c)' /\ known[c] \subseteq k
              /\ \A id \in Conn \ (nameless \cup {c}), x \in Map : Puts(h, id, x) => x \in known[c]
  <2>1. Hears(c) /\ Own(c) BY <1>3, <1>12 DEF Maps, Active
  <2>2. PICK s \in Seq(DownMsg) : s = down[c] BY <1>4
  <2>3. Heard(c, s, known[c], nameless, map_names_) /\ s # <<>> /\ h = Head(s)
    BY <1>1, <1>2, <2>1, <2>2 DEF Hears
  <2>4. /\ Heard(c, Tail(s), k, nameless, map_names_) /\ Naming(h) \subseteq map_names_
        /\ \A id \in Conn \ (nameless \cup {c}), x \in Map : Puts(h, id, x) => x \in known[c]
    BY <1>5, <2>3, HeardTaken
  <2>5. Hears(c)' BY <1>2, <1>6, <2>2, <2>4 DEF Hears
  <2>6. up[c] \in Seq(UpMsg) BY <1>4
  <2>7. Telling(c, up[c], k, map_names_, game[c], place[c].map, net[c], carried[c].map, nameless)
    BY <2>1, <2>4, <1>5, <2>6, TellingKept DEF Own
  <2>8. Telling(c, up[c], k, map_names_, game[c], place[c].map, net'[c], carried[c].map, nameless)
    <3>1. net'[c] # "assembled" BY <1>6
    <3>2. QED BY <2>6, <2>7, <3>1, TellingKept
  <2>9. ASSUME NEW m \in UpMsg, up'[c] = Append(up[c], m), m.kind \notin {"MapNames", "CurrentMap"}
        PROVE  Telling(c, up'[c], k, map_names_, game[c], place[c].map, net'[c], carried[c].map, nameless)
    BY <2>9, <2>6, <2>8, TellingSaid DEF Naming
  <2>10. Telling(c, up'[c], k, map_names_, game[c], place[c].map, net'[c], carried[c].map, nameless)
    BY <1>7, <2>8, <2>9
  <2>11. Own(c)' BY <1>2, <1>6, <2>10 DEF Own
  <2>12. QED BY <1>5, <2>4, <2>5, <2>11
<1>13. \A d \in online : Active(d)' => Hears(d)' /\ Own(d)' BY <1>6, <1>11, <1>12 DEF Active
<1>14. PICK f : f = MirrorAfter(c, h) OBVIOUS
<1>15. /\ mirror' = f
       /\ \A d \in Conn \ {c} : f[d] = mirror[d]
       /\ \A id \in DOMAIN f[c] :
            \/ f[c][id].map = NoMap
            \/ Puts(h, id, f[c][id].map)
            \/ /\ h.kind # "LoginAccepted"
               /\ id \in DOMAIN mirror[c] /\ f[c][id].map = mirror[c][id].map
  <2>1. CopyTypeOK /\ h \in DownMsg BY <1>3, <1>4
  <2>2. mirror' = f BY <1>2, <1>14 DEF CopyAfter
  <2>3. /\ \A d \in Conn \ {c} : f[d] = mirror[d]
        /\ \A id \in DOMAIN f[c] :
             \/ f[c][id].map = NoMap
             \/ Puts(h, id, f[c][id].map)
             \/ /\ h.kind # "LoginAccepted"
                /\ id \in DOMAIN mirror[c] /\ f[c][id].map = mirror[c][id].map
    BY <1>14, <2>1, PlacedAfter
  <2>4. QED BY <2>2, <2>3
<1>16. ASSUME NEW d \in Conn \ {c}, status'[d] = "in"
       PROVE  NamedMaps(d)'
  BY <1>6, <1>15, <1>16, <1>2 DEF Maps, NamedMaps
<1>17. ASSUME status'[c] = "in"
       PROVE  NamedMaps(c)'
  <2>1. status[c] \in {"joining", "in"} /\ (h.kind # "LoginAccepted" => status[c] = "in")
    BY <1>6, <1>17
  <2>2. ASSUME NEW id \in DOMAIN f[c], id \notin nameless, id # c
        PROVE  f[c][id].map \in k \cup {NoMap}
    <3>1. CASE Puts(h, id, f[c][id].map)
      <4>1. f \in [Conn -> Entries] BY <1>3, <1>4, <1>14, MirrorTyped
      <4>2. id \in Conn /\ f[c][id] \in Entry BY <2>2, <4>1, EntriesAre
      <4>3. f[c][id].map \in Map \cup {NoMap} BY <4>2 DEF Entry
      <4>4. QED BY <1>12, <2>1, <2>2, <3>1, <4>2, <4>3
    <3>2. CASE h.kind # "LoginAccepted" /\ id \in DOMAIN mirror[c] /\ f[c][id].map = mirror[c][id].map
      BY <2>1, <3>2, <2>2, <1>12 DEF Maps, NamedMaps
    <3>3. QED BY <1>15, <2>2, <3>1, <3>2
  <2>3. QED BY <1>2, <1>6, <1>15, <2>2 DEF NamedMaps
<1>18. \A d \in Conn : status'[d] = "in" => NamedMaps(d)' BY <1>16, <1>17
<1>19. QED BY <1>2, <1>9, <1>10, <1>13, <1>18 DEF Maps

LEMMA RestMaps ==
  ASSUME TypeOK, Maps, NEW c \in Conn, StopHandling(c) \/ \E id \in Conn : BallArrives(c, id)
  PROVE  Maps'
<1>1. UNCHANGED <<record, map_names_, up, status, place, known, game, carried, nameless>>
  BY DEF StopHandling, BallArrives, serverVars, streamVars, playerVars, copyVars, threadVars, history
<1>2. /\ online' = online /\ online \subseteq Conn /\ CopyTypeOK /\ mirror \in [Conn -> Entries]
      /\ down \in [Conn -> Seq(DownMsg)] /\ net \in [Conn -> {"poll", "logged in", "named", "assembled"}]
  BY <1>1, EntriesAre
     DEF online, TypeOK, ServerTypeOK, Records, StreamTypeOK, CopyTypeOK, ThreadTypeOK
<1>3. \A d \in Conn : (down'[d] = down[d] /\ net'[d] = net[d]) \/ status[d] = "left"
  <2>1. PICK z : z = <<>> OBVIOUS
  <2>2. \/ down' = down /\ net' = net
        \/ status[c] = "left" /\ down' = [down EXCEPT ![c] = z] /\ net' = [net EXCEPT ![c] = "poll"]
    BY <2>1 DEF StopHandling, BallArrives, streamVars, threadVars
  <2>3. QED BY <1>2, <2>2
<1>4. \A d \in Conn : \A id \in DOMAIN mirror'[d] :
        mirror'[d][id].map = NoMap \/ (id \in DOMAIN mirror[d] /\ mirror'[d][id] = mirror[d][id])
  <2>1. CASE StopHandling(c) BY <2>1 DEF StopHandling, copyVars
  <2>2. ASSUME NEW id \in Conn, BallArrives(c, id)
        PROVE  \A d \in Conn : \A j \in DOMAIN mirror'[d] :
                 mirror'[d][j].map = NoMap \/ (j \in DOMAIN mirror[d] /\ mirror'[d][j] = mirror[d][j])
    <3>1. PICK g, f : g = <<>> /\ f = Changed(c, id, g) OBVIOUS
    <3>2. Change(g) /\ DOMAIN g = {} BY <3>1, Changes, Nobody
    <3>3. c \notin Mod /\ id \notin DOMAIN mirror[c] /\ mirror' = f BY <2>2, <3>1 DEF BallArrives
    <3>a. CopyTypeOK /\ id \in Conn /\ Change(g) /\ f = Changed(c, id, g) BY <1>2, <2>2, <3>1, <3>2
    <3>b. id \notin DOMAIN mirror[c] /\ c \notin Mod BY <3>3
    <3>4. f[c][id] = Over(Unnamed, g) /\ \A d \in Conn \ {c} : f[d] = mirror[d]
      BY <3>a, <3>b, ChangedIs
    <3>5. \A j \in DOMAIN f[c] : j # id => j \in DOMAIN mirror[c] /\ f[c][j] = mirror[c][j]
      BY <3>a, ChangedOthers
    <3>6. f[c][id].map = NoMap
      <4>1. Unnamed \in Entry /\ Unnamed.map = NoMap BY Joins
      <4>2. Over(Unnamed, g).map = IF "map" \in DOMAIN g THEN g["map"] ELSE Unnamed.map
        BY <3>2, <4>1, ChangeKeeps
      <4>3. QED BY <3>2, <3>4, <4>1, <4>2
    <3>7. QED BY <3>3, <3>4, <3>5, <3>6
  <2>3. QED BY <2>1, <2>2
<1>5. ASSUME NEW d \in online \ nameless
      PROVE  Recorded(d)'
  BY <1>1, <1>5 DEF Maps, Recorded
<1>6. ASSUME NEW d \in online, Active(d)'
      PROVE  Hears(d)' /\ Own(d)'
  BY <1>1, <1>2, <1>3, <1>6 DEF Active, Maps, Hears, Own
<1>7. ASSUME NEW d \in Conn, status'[d] = "in"
      PROVE  NamedMaps(d)'
  <2>1. NamedMaps(d) BY <1>1, <1>7 DEF Maps
  <2>2. QED BY <1>1, <1>4, <2>1 DEF NamedMaps
<1>8. QED BY <1>1, <1>2, <1>5, <1>6, <1>7 DEF Maps

LEMMA NextMaps ==
  ASSUME TypeOK, Sessions, Rosters, Maps, [Next]_vars
  PROVE  Maps'
BY NextTyped, EntriesAre, StepIs, MoveMaps, RelayMaps, HashMaps, ConsoleMaps, LoginMaps, DepartMaps,
   ClientMaps, RestMaps DEF Resting, serverVars, streamVars, playerVars, threadVars, history,
   Maps, Recorded, Hears, Own, NamedMaps, Active, online, TypeOK, ServerTypeOK, Records

(* A map a copy places somebody on has its name there: names go before     *)
(* maps from the player to the server, from the server to whoever was      *)
(* there, and in what the server tells whoever comes later.                *)
THEOREM MapsAreNamed == Spec => []MapsNamed
<1>1. Maps => MapsNamed BY DEF Maps, NamedMaps, MapsNamed
<1>2. Init => TypeOK /\ Sessions /\ Rosters /\ Maps BY InitKnown, InitMaps
<1>3. TypeOK /\ Sessions /\ Rosters /\ Maps /\ [Next]_vars
        => TypeOK' /\ Sessions' /\ Rosters' /\ Maps'
  BY NextKnown, NextMaps
<1>4. QED BY <1>1, <1>2, <1>3, PTL DEF Spec
-----------------------------------------------------------------------------
(* What is said of a player, and the streams.                              *)

(* Something else is said. *)
LEMMA SaysKept ==
  ASSUME NEW t, NEW q, NEW s \in Seq(UpMsg), NEW m, m \in UpMsg, ~ Says(t, q, m), NEW z, z = Append(s, m)
  PROVE  /\ Silent(t, q, s) => Silent(t, q, z)
         /\ \A v : SaysLast(t, q, s, v) => SaysLast(t, q, z, v)
BY Appended DEF SaysLast, Silent

(* It is said. *)
LEMMA SaysNow ==
  ASSUME NEW t, NEW q, NEW s \in Seq(UpMsg), NEW m, m \in UpMsg, Says(t, q, m), NEW z, z = Append(s, m)
  PROVE  SaysLast(t, q, z, m[t])
<1>1. /\ Len(s) \in Nat /\ Len(z) = Len(s) + 1 /\ z[Len(s) + 1] = m BY Appended
<1>2. PICK i : i = Len(s) + 1 OBVIOUS
<1>3. i \in 1 .. Len(z) /\ z[i] = m /\ \A j \in i + 1 .. Len(z) : FALSE BY <1>1, <1>2
<1>4. QED BY <1>3 DEF SaysLast

(* It is heard. *)
LEMMA SaysTaken ==
  ASSUME NEW t, NEW q, NEW s \in Seq(UpMsg), s # <<>>, NEW h, h = Head(s), NEW z, z = Tail(s)
  PROVE  /\ Silent(t, q, s) => Silent(t, q, z) /\ ~ Says(t, q, h)
         /\ \A v : SaysLast(t, q, s, v) =>
              SaysLast(t, q, z, v) \/ (Says(t, q, h) /\ h[t] = v /\ Silent(t, q, z))
<1>1. /\ Len(s) \in Nat \ {0} /\ Len(z) = Len(s) - 1 /\ h = s[1] /\ 1 \in 1 .. Len(s)
      /\ \A i \in 1 .. Len(z) : z[i] = s[i + 1] /\ i + 1 \in 1 .. Len(s)
  BY Taken
<1>2. ASSUME NEW v, NEW i \in 1 .. Len(s), Says(t, q, s[i]), s[i][t] = v,
             \A j \in i + 1 .. Len(s) : ~ Says(t, q, s[j])
      PROVE  SaysLast(t, q, z, v) \/ (Says(t, q, h) /\ h[t] = v /\ Silent(t, q, z))
  <2>1. \A j \in 1 .. Len(z) : j \in i .. Len(z) => ~ Says(t, q, z[j]) BY <1>1, <1>2
  <2>2. CASE i = 1 BY <1>1, <1>2, <2>1, <2>2 DEF Silent
  <2>3. CASE i # 1
    <3>1. PICK k : k = i - 1 OBVIOUS
    <3>2. k \in 1 .. Len(z) /\ z[k] = s[i] BY <1>1, <2>3, <3>1
    <3>3. \A j \in k + 1 .. Len(z) : j \in 1 .. Len(z) /\ j \in i .. Len(z) BY <1>1, <2>3, <3>1
    <3>4. QED BY <1>2, <2>1, <3>2, <3>3 DEF SaysLast
  <2>4. QED BY <2>2, <2>3
<1>3. ASSUME Silent(t, q, s)
      PROVE  Silent(t, q, z) /\ ~ Says(t, q, h)
  BY <1>1, <1>3 DEF Silent
<1>4. QED BY <1>2, <1>3 DEF SaysLast

(* Others are told something else. *)
LEMMA EndsKept ==
  ASSUME NEW t, NEW q, NEW s \in Seq(DownMsg), NEW e, NEW W, NEW v, Ends(t, q, s, e, W, v),
         NEW w \in Seq(DownMsg), Leaves(t, q, w, e), NEW X, W \subseteq X, NEW z, z = s \o w
  PROVE  Ends(t, q, z, e, X, v)
<1>1. /\ Len(s) \in Nat /\ Len(w) \in Nat /\ Len(z) = Len(s) + Len(w)
      /\ \A i \in 1 .. Len(s) : z[i] = s[i] /\ i \in 1 .. Len(z)
      /\ \A i \in 1 .. Len(z) :
           i \in 1 .. Len(s) \/ (i - Len(s) \in 1 .. Len(w) /\ z[i] = w[i - Len(s)])
  BY Joined
<1>2. \A i \in 1 .. Len(z) : i \in 1 .. Len(s) \/ ~ Sets(t, q, z[i], e) BY <1>1 DEF Leaves
<1>3. ASSUME NEW i \in 1 .. Len(s), Sets(t, q, s[i], e), To(t, s[i], e) = v,
             \A j \in i + 1 .. Len(s) : ~ Sets(t, q, s[j], e)
      PROVE  SetsLast(t, q, z, e, v)
  <2>1. i \in 1 .. Len(z) /\ z[i] = s[i] BY <1>1
  <2>2. ASSUME NEW j \in i + 1 .. Len(z)
        PROVE  ~ Sets(t, q, z[j], e)
    BY <1>1, <1>2, <1>3
  <2>3. QED BY <1>3, <2>1, <2>2 DEF SetsLast
<1>4. ASSUME Leaves(t, q, s, e)
      PROVE  Leaves(t, q, z, e)
  BY <1>1, <1>2, <1>4 DEF Leaves
<1>5. QED BY <1>3, <1>4 DEF Ends, SetsLast

(* They are told. *)
LEMMA EndsNow ==
  ASSUME NEW t, NEW q, NEW s \in Seq(DownMsg), NEW e, NEW X, NEW m, m \in DownMsg, Sets(t, q, m, e),
         NEW z, z = Append(s, m)
  PROVE  Ends(t, q, z, e, X, To(t, m, e))
<1>1. /\ Len(s) \in Nat /\ Len(z) = Len(s) + 1 /\ z[Len(s) + 1] = m BY Appended
<1>2. PICK i : i = Len(s) + 1 OBVIOUS
<1>3. i \in 1 .. Len(z) /\ z[i] = m /\ \A j \in i + 1 .. Len(z) : FALSE BY <1>1, <1>2
<1>4. QED BY <1>3 DEF Ends, SetsLast

(* They hear it. *)
LEMMA EndsTaken ==
  ASSUME NEW t, NEW q, NEW s \in Seq(DownMsg), s # <<>>, NEW e, NEW W, NEW v, Ends(t, q, s, e, W, v),
         NEW h, h = Head(s), NEW z, z = Tail(s), NEW X,
         Sets(t, q, h, e) => To(t, h, e) \in X, ~ Sets(t, q, h, e) => W \subseteq X
  PROVE  Ends(t, q, z, e, X, v)
<1>1. /\ Len(s) \in Nat \ {0} /\ Len(z) = Len(s) - 1 /\ h = s[1] /\ 1 \in 1 .. Len(s)
      /\ \A i \in 1 .. Len(z) : z[i] = s[i + 1] /\ i + 1 \in 1 .. Len(s)
  BY Taken
<1>2. ASSUME NEW i \in 1 .. Len(s), Sets(t, q, s[i], e), To(t, s[i], e) = v,
             \A j \in i + 1 .. Len(s) : ~ Sets(t, q, s[j], e)
      PROVE  Ends(t, q, z, e, X, v)
  <2>1. \A j \in 1 .. Len(z) : j \in i .. Len(z) => ~ Sets(t, q, z[j], e) BY <1>1, <1>2
  <2>2. CASE i = 1 BY <1>1, <2>1, <2>2, <1>2 DEF Leaves, Ends
  <2>3. CASE i # 1
    <3>1. PICK k : k = i - 1 OBVIOUS
    <3>2. k \in 1 .. Len(z) /\ z[k] = s[i] BY <1>1, <2>3, <3>1
    <3>3. \A j \in k + 1 .. Len(z) : j \in 1 .. Len(z) /\ j \in i .. Len(z) BY <1>1, <2>3, <3>1
    <3>4. QED BY <1>2, <2>1, <3>2, <3>3 DEF Ends, SetsLast
  <2>4. QED BY <2>2, <2>3
<1>3. ASSUME v \in W, Leaves(t, q, s, e)
      PROVE  Ends(t, q, z, e, X, v)
  BY <1>1, <1>3 DEF Leaves, Ends
<1>4. QED BY <1>2, <1>3 DEF Ends, SetsLast

-----------------------------------------------------------------------------
(* What others are told, and what they make of it.                         *)

LEMMA FieldKept ==
  ASSUME NEW e \in Entry, NEW g, Change(g), NEW t \in Topic
  PROVE  Over(e, g)[t] = IF t \in DOMAIN g THEN g[t] ELSE e[t]
BY OverIs DEF Entry, Topic

(* The messages that set nothing. *)
LEMMA SetsNothing ==
  ASSUME NEW m, m.kind \notin {"LoginAccepted", "PlayerConnected", "OwnedCheatState", "CurrentMap", "CurrentSector"}
  PROVE  \A t, q, e : ~ Sets(t, q, m, e)
BY DEF Sets, Places

(* A message sets what it says, and leaves the rest. *)
LEMMA SetAfter ==
  ASSUME CopyTypeOK, NEW c \in Conn, NEW h \in DownMsg, NEW f, f = MirrorAfter(c, h), NEW t \in Topic,
         NEW e \in Conn, e # c, NEW q, q = Of(c),
         c \in Mod /\ h.kind = "PlayerConnected" /\ h.from = e => e \notin DOMAIN mirror[c],
         h.kind \in {"OwnedCheatState", "CurrentMap", "CurrentSector"} /\ h.from = e => e \in DOMAIN mirror[c]
  PROVE  /\ Sets(t, q, h, e) => e \in DOMAIN f[c] /\ f[c][e][t] = To(t, h, e)
         /\ /\ ~ Sets(t, q, h, e) /\ h.kind # "LoginAccepted" /\ e \in DOMAIN mirror[c]
            /\ ~ (h.kind = "PlayerDisconnected" /\ h.from = e)
            => e \in DOMAIN f[c] /\ f[c][e][t] = mirror[c][e][t]
<1>0. /\ mirror \in [Conn -> Entries] /\ mirror[c] \in Entries
      /\ \A k \in DOMAIN mirror[c] : mirror[c][k] \in Entry
  BY EntriesAre DEF CopyTypeOK
<1>1. CASE h.kind = "LoginAccepted"
  <2>1. PICK r \in Records : r = h.online BY <1>1, DownFacts
  <2>2. PICK v : v = Without(r, c) OBVIOUS
  <2>3. \A d \in DOMAIN r \ {c} : d \in DOMAIN v /\ v[d] = r[d] BY <2>2 DEF Without
  <2>4. f = [mirror EXCEPT ![c] = IF c \in Mod THEN v ELSE r] BY <1>1, <2>1, <2>2 DEF MirrorAfter
  <2>5. f[c] = v \/ f[c] = r BY <1>0, <2>4
  <2>6. e \in DOMAIN r => e \in DOMAIN f[c] /\ f[c][e] = r[e] BY <2>3, <2>5
  <2>7. Sets(t, q, h, e) => e \in DOMAIN r /\ To(t, h, e) = r[e][t]
    BY <1>1, <2>1 DEF Sets, To, Places
  <2>8. QED BY <1>1, <2>6, <2>7
<1>2. CASE h.kind = "PlayerConnected"
  <2>1. PICK v, id : v = Player(h.cheated, Nowhere) /\ id = h.from OBVIOUS
  <2>2. (Sets(t, q, h, e) <=> e = id) /\ To(t, h, e) = v[t] BY <1>2, <2>1 DEF Sets, To, Places
  <2>3. PICK w : w = With(mirror[c], id, v) OBVIOUS
  <2>4. /\ id \in DOMAIN w /\ w[id] = v
        /\ \A d \in DOMAIN mirror[c] \ {id} : d \in DOMAIN w /\ w[d] = mirror[c][d]
    <3>1. PICK p : p = mirror[c] OBVIOUS
    <3>2. DOMAIN With(p, id, v) = DOMAIN p \cup {id} BY WithIs
    <3>3. With(p, id, v)[id] = v BY WithIs
    <3>4. \A d \in DOMAIN p \ {id} : With(p, id, v)[d] = p[d] BY WithIs
    <3>5. QED BY <2>3, <3>1, <3>2, <3>3, <3>4
  <2>5. \/ f = mirror /\ c \in Mod /\ id \in DOMAIN mirror[c]
        \/ f = [mirror EXCEPT ![c] = w]
    BY <1>2, <2>1, <2>3 DEF MirrorAfter
  <2>6. (f[c] = mirror[c] /\ e # id) \/ f[c] = w BY <1>0, <1>2, <2>1, <2>5
  <2>7. QED BY <2>2, <2>4, <2>6
<1>3. CASE h.kind = "PlayerDisconnected"
  <2>1. PICK w : w = Without(mirror[c], h.from) OBVIOUS
  <2>2. \A d \in DOMAIN mirror[c] : d # h.from => d \in DOMAIN w /\ w[d] = mirror[c][d]
    BY <2>1 DEF Without
  <2>3. f = [mirror EXCEPT ![c] = w] BY <1>3, <2>1 DEF MirrorAfter
  <2>4. f[c] = w BY <1>0, <2>3
  <2>5. ~ Sets(t, q, h, e) BY <1>3, SetsNothing
  <2>6. QED BY <1>3, <2>2, <2>4, <2>5
<1>4. ASSUME NEW g, Change(g), h.from \in Conn, f = Changed(c, h.from, g),
             h.kind \in {"OwnedCheatState", "CurrentMap", "CurrentSector"},
             Sets(t, q, h, e) <=> (t \in DOMAIN g /\ h.from = e),
             t \in DOMAIN g => g[t] = h[t]
      PROVE  /\ Sets(t, q, h, e) => e \in DOMAIN f[c] /\ f[c][e][t] = To(t, h, e)
             /\ ~ Sets(t, q, h, e) /\ e \in DOMAIN mirror[c] =>
                  e \in DOMAIN f[c] /\ f[c][e][t] = mirror[c][e][t]
  BY <1>4, ChangedIs, <1>0, FieldKept DEF To
<1>5. CASE h.kind = "OwnedCheatState"
  <2>1. PICK g : g = [cheated |-> h.cheated] OBVIOUS
  <2>2. h.from \in Conn /\ Change(g) BY <1>5, <2>1, DownFacts, Changes
  <2>3. f = Changed(c, h.from, g) BY <1>5, <2>1 DEF MirrorAfter
  <2>4. (Sets(t, q, h, e) <=> (t \in DOMAIN g /\ h.from = e)) /\ (t \in DOMAIN g => g[t] = h[t])
    BY <2>1, <1>5 DEF Sets, Places
  <2>5. QED BY <1>4, <1>5, <2>2, <2>3, <2>4
<1>6. CASE h.kind = "CurrentMap"
  <2>1. PICK g : g = [map |-> h.map, sector |-> h.sector] OBVIOUS
  <2>2. h.from \in Conn /\ Change(g) /\ h.type \in {"Announcement", "EnteringMap"}
    BY <1>6, <2>1, DownFacts, Changes
  <2>3. t \in DOMAIN g <=> t \in {"map", "sector"} BY <2>1
  <2>4. CASE c \in Mod /\ h.type = "Announcement" BY <1>6, <2>4 DEF MirrorAfter, Sets, Places, Of
  <2>5. CASE ~ (c \in Mod /\ h.type = "Announcement")
    BY <1>6, <2>1, <2>5, <2>2, <2>3, <1>4 DEF MirrorAfter, Of, Sets, Places
  <2>6. QED BY <2>4, <2>5
<1>7. CASE h.kind = "CurrentSector"
  <2>1. PICK g : g = [sector |-> h.sector] OBVIOUS
  <2>2. h.from \in Conn /\ Change(g) BY <1>7, <2>1, DownFacts, Changes
  <2>3. f = Changed(c, h.from, g) BY <1>7, <2>1 DEF MirrorAfter
  <2>4. (Sets(t, q, h, e) <=> (t \in DOMAIN g /\ h.from = e)) /\ (t \in DOMAIN g => g[t] = h[t])
    BY <2>1, <1>7 DEF Sets, Places
  <2>5. QED BY <1>4, <1>7, <2>2, <2>3, <2>4
<1>8. CASE h.kind \notin {"LoginAccepted", "PlayerConnected", "PlayerDisconnected", "OwnedCheatState",
                          "CurrentMap", "CurrentSector"}
  BY <1>8, SetsNothing DEF MirrorAfter
<1>9. QED BY <1>1, <1>2, <1>3, <1>5, <1>6, <1>7, <1>8

(* What a step leaves of the agreement of d about e. *)
LEMMA AgreesAdded ==
  ASSUME StreamTypeOK, NEW t, NEW d \in Conn, NEW e, NEW v, Agrees(t, d, e, v), UNCHANGED <<status, mirror>>,
         NEW w, w \in Seq(DownMsg), Leaves(t, Of(d), w, e), down'[d] = down[d] \o w
  PROVE  Agrees(t, d, e, v)'
<1>1. PICK s \in Seq(DownMsg) : s = down[d] BY DEF StreamTypeOK
<1>2. PICK W : W = Shown(t, d, e) OBVIOUS
<1>3. Shown(t, d, e)' = W BY <1>2 DEF Shown
<1>4. PICK q : q = Of(d) OBVIOUS
<1>5. PICK z : z = down'[d] OBVIOUS
<1>6. Ends(t, q, s, e, W, v) BY <1>1, <1>2, <1>4 DEF Agrees
<1>7. z = s \o w /\ Leaves(t, q, w, e) BY <1>1, <1>4, <1>5
<1>8. Ends(t, q, z, e, W, v) BY <1>6, <1>7, EndsKept
<1>9. QED BY <1>3, <1>4, <1>5, <1>8 DEF Agrees

LEMMA AgreesSet ==
  ASSUME StreamTypeOK, NEW t, NEW d \in Conn, NEW e,
         NEW m, m \in DownMsg, Sets(t, Of(d), m, e), down'[d] = Append(down[d], m)
  PROVE  Agrees(t, d, e, To(t, m, e))'
<1>1. PICK s \in Seq(DownMsg) : s = down[d] BY DEF StreamTypeOK
<1>2. PICK q : q = Of(d) OBVIOUS
<1>3. PICK z : z = down'[d] OBVIOUS
<1>4. z = Append(s, m) /\ Sets(t, q, m, e) BY <1>1, <1>2, <1>3
<1>5. PICK X : X = Shown(t, d, e)' OBVIOUS
<1>6. PICK v : v = To(t, m, e) OBVIOUS
<1>7. Ends(t, q, z, e, X, v) BY <1>4, <1>6, EndsNow
<1>8. QED BY <1>2, <1>3, <1>5, <1>6, <1>7 DEF Agrees

LEMMA Alone ==
  ASSUME NEW m, m \in DownMsg
  PROVE  /\ <<m>> \in Seq(DownMsg) /\ \A t, q, e : ~ Sets(t, q, m, e) => Leaves(t, q, <<m>>, e)
         /\ \A s \in Seq(DownMsg) : Append(s, m) = s \o <<m>>
<1>1. PICK w \in Seq(DownMsg) : w = <<m>> /\ Len(w) = 1 /\ w[1] = m
  <2>1. <<m>> \in Seq(DownMsg) /\ Len(<<m>>) = 1 /\ <<m>>[1] = m OBVIOUS
  <2>2. QED BY <2>1
<1>2. \A t, q, e : ~ Sets(t, q, m, e) => Leaves(t, q, w, e) BY <1>1 DEF Leaves
<1>3. \A s \in Seq(DownMsg) : Append(s, m) = s \o w BY <1>1, Appended
<1>4. QED BY <1>1, <1>2, <1>3

LEMMA AgreesTold ==
  ASSUME StreamTypeOK, NEW t, NEW d \in Conn, NEW e, NEW v, Agrees(t, d, e, v), UNCHANGED <<status, mirror>>,
         NEW m, m \in DownMsg, down'[d] \in {down[d], Append(down[d], m)},
         Sets(t, Of(d), m, e) /\ down'[d] # down[d] => To(t, m, e) = v
  PROVE  Agrees(t, d, e, v)'
<1>1. down[d] \in Seq(DownMsg) BY DEF StreamTypeOK
<1>2. CASE down'[d] = down[d] BY <1>2 DEF Agrees, Shown
<1>3. CASE down'[d] # down[d] /\ Sets(t, Of(d), m, e) BY <1>3, AgreesSet
<1>4. CASE down'[d] = Append(down[d], m) /\ ~ Sets(t, Of(d), m, e)
  <2>1. PICK w : w = <<m>> OBVIOUS
  <2>2. w \in Seq(DownMsg) /\ Leaves(t, Of(d), w, e) BY <1>4, <2>1, Alone
  <2>3. down'[d] = down[d] \o w BY <1>1, <1>4, <2>1, Alone
  <2>4. QED BY <2>2, <2>3, AgreesAdded
<1>5. QED BY <1>2, <1>3, <1>4

(* Players and threads. *)
LEMMA MoveShows ==
  ASSUME TypeOK, NEW c \in Conn, Acts(c) \/ Threads(c), status'[c] # "left" \/ status[c] = "left"
  PROVE  \A id \in DOMAIN mirror[c] :
           id # c => id \in DOMAIN mirror'[c] /\ mirror'[c][id] = mirror[c][id]
<1>0. /\ CopyTypeOK /\ mirror \in [Conn -> Entries]
      /\ status \in [Conn -> {"out", "joining", "in", "left"}]
  BY DEF TypeOK, CopyTypeOK, PlayerTypeOK
<1>1. ~ Leave(c) /\ ~ EndGame(c) BY <1>0 DEF Leave, EndGame, GoesOffline
<1>2. CASE mirror' = mirror BY <1>2
<1>3. ASSUME NEW g, Change(g), mirror' = OwnChanged(c, g)
      PROVE  \A id \in DOMAIN mirror[c] :
               id # c => id \in DOMAIN mirror'[c] /\ mirror'[c][id] = mirror[c][id]
  BY <1>3, <1>0, ChangedIs DEF OwnChanged
<1>4. CASE ChangeSector(c)
  <2>1. PICK s \in Sector : mirror' = OwnChanged(c, [sector |-> s]) BY <1>4 DEF ChangeSector
  <2>2. PICK g : g = [sector |-> s] OBVIOUS
  <2>3. Change(g) BY <2>1, <2>2, Changes
  <2>4. QED BY <1>3, <2>1, <2>2, <2>3
<1>5. CASE SetMap(c)
  <2>1. PICK x \in Map : mirror' = OwnChanged(c, [map |-> x]) BY <1>5 DEF SetMap
  <2>2. PICK g : g = [map |-> x] OBVIOUS
  <2>3. Change(g) BY <2>1, <2>2, Changes
  <2>4. QED BY <1>3, <2>1, <2>2, <2>3
<1>6. QED
  BY <1>1, <1>2, <1>4, <1>5
     DEF Acts, Connect, ToggleOwnCheat, ToggleCheats, SetBulletin, Say, Notify, QueryScores, Address,
         AnnounceMap, LoadLevel, copyVars,
         Threads, EnterName, SendName, SendPlace, NetSendsName, Assemble, NetSendsMap

LEMMA AgreesMoves ==
  ASSUME TypeOK, Sessions, NEW c \in Conn, Acts(c) \/ Threads(c),
         NEW d \in Conn, d \in online, Active(d)'
  PROVE  /\ Active(d)
         /\ \A t, v : \A e \in Conn \ {d} : Agrees(t, d, e, v) => Agrees(t, d, e, v)'
<1>1. /\ UNCHANGED <<record, down>>
      /\ \A b \in Conn \ {c} : status'[b] = status[b] /\ mirror'[b] = mirror[b]
  BY MoveFrame
<1>2. Moves(c) /\ Stage(status[c], c \in online, up[c])
  BY ActsMove, ThreadsMove DEF Sessions, Requested
<1>3. status \in [Conn -> {"out", "joining", "in", "left"}] /\ down[d] \in Seq(DownMsg)
  BY DEF TypeOK, PlayerTypeOK, StreamTypeOK
<1>4. status'[c] = status[c] \/ c \notin online \/ status'[c] = "left"
  BY <1>2, <1>3 DEF Stage, Moves
<1>5. Active(d) /\ status'[d] = status[d] BY <1>1, <1>4 DEF Active
<1>6. \A e \in DOMAIN mirror[d] : e # d => e \in DOMAIN mirror'[d] /\ mirror'[d][e] = mirror[d][e]
  BY <1>5, MoveShows, <1>1 DEF Active
<1>7. ASSUME NEW t, NEW v, NEW e \in Conn \ {d}, Agrees(t, d, e, v)
      PROVE  Agrees(t, d, e, v)'
  BY <1>5, <1>6, <1>1, <1>7 DEF Shown, Agrees, Ends
<1>8. QED BY <1>5, <1>7

(* A client handles a message. *)
LEMMA AgreesHeard ==
  ASSUME TypeOK, Sessions, Rosters, NEW c \in Conn, ClientHandles(c),
         NEW d \in Conn, d \in online, Active(d)'
  PROVE  /\ Active(d)
         /\ \A t \in Topic, e \in online \ {d} : \A v : Agrees(t, d, e, v) => Agrees(t, d, e, v)'
<1>1. PICK h : h = Head(down[c]) OBVIOUS
<1>2. /\ CopyAfter(c, h) /\ StatusAfter(c, h)
      /\ down[c] # <<>> /\ down' = [down EXCEPT ![c] = Tail(@)]
  BY <1>1, HandlingIs
<1>3. /\ h \in DownMsg
      /\ c \in online /\ Active(c) => Roster(c, down[c], Knows(c), online)
      /\ status[c] = "joining" => h.kind \in {"LoginAccepted", "MapNames"}
      /\ status[c] = "in" => h.kind # "LoginAccepted"
  BY <1>1, HandledIn
<1>4. /\ CopyTypeOK /\ mirror \in [Conn -> Entries] /\ down \in [Conn -> Seq(DownMsg)]
      /\ status \in [Conn -> {"out", "joining", "in", "left"}] /\ online \subseteq Conn
  BY EntriesAre DEF TypeOK, StreamTypeOK, ServerTypeOK, Records, online, PlayerTypeOK, CopyTypeOK
<1>5. PICK f : f = MirrorAfter(c, h) OBVIOUS
<1>6. /\ mirror' = f /\ \A b \in Conn \ {c} : f[b] = mirror[b]
      /\ \A b \in Conn \ {c} : status'[b] = status[b] /\ down'[b] = down[b]
      /\ down'[c] = Tail(down[c])
  <2>1. \A b \in Conn \ {c} : f[b] = mirror[b] BY <1>3, <1>4, <1>5, HandledNames
  <2>2. mirror' = f BY <1>2, <1>5 DEF CopyAfter
  <2>3. \A b \in Conn \ {c} : status'[b] = status[b] /\ down'[b] = down[b]
    BY <1>2, <1>4 DEF StatusAfter
  <2>4. down'[c] = Tail(down[c]) BY <1>2, <1>4
  <2>5. QED BY <2>1, <2>2, <2>3, <2>4
<1>7. Active(d) BY <1>2, <1>4, <1>6 DEF Active, StatusAfter
<1>8. ASSUME d # c, NEW t \in Topic, NEW e \in online \ {d}, NEW v, Agrees(t, d, e, v)
      PROVE  Agrees(t, d, e, v)'
  BY <1>6, <1>8 DEF Agrees, Shown
<1>9. ASSUME d = c, NEW t \in Topic, NEW e \in online \ {d}, NEW v, Agrees(t, d, e, v)
      PROVE  Agrees(t, d, e, v)'
  <2>1. PICK s \in Seq(DownMsg) : s = down[c] BY <1>4
  <2>2. s # <<>> /\ h = Head(s) /\ h = s[1] /\ 1 \in 1 .. Len(s) BY <1>1, <1>2, <2>1, Taken
  <2>3. PICK q : q = Of(c) OBVIOUS
  <2>4. PICK W, X : W = Shown(t, c, e) /\ X = Shown(t, c, e)' OBVIOUS
  <2>5. Ends(t, q, s, e, W, v) BY <1>9, <2>1, <2>3, <2>4 DEF Agrees
  <2>6. Roster(c, s, Knows(c), online) /\ status[c] \in {"joining", "in"}
    BY <1>3, <1>7, <1>9, <2>1 DEF Active
  <2>7. e # c /\ e \in Conn BY <1>4, <1>9
  <2>8. /\ h.kind = "PlayerDisconnected" => h.from # e
        /\ h.kind = "PlayerConnected" /\ h.from = e => e \notin Knows(c)
        /\ h.kind \in {"OwnedCheatState", "CurrentMap", "CurrentSector"} /\ h.from = e => e \in Knows(c)
    BY <1>3, BringsIs, <1>9, <2>2, <2>6, <2>7, NamesOf DEF Roster, EndsKnown, Once, NeedsMet
  <2>9. CASE status[c] = "in"
    <3>1. Knows(c) = Named(mirror[c]) /\ (c \in Mod => Knows(c) = DOMAIN mirror[c])
      BY <2>9 DEF Knows, Rosters
    <3>2. \A k : k \in Knows(c) => k \in DOMAIN mirror[c] BY <3>1 DEF Named
    <3>3. /\ c \in Mod /\ h.kind = "PlayerConnected" /\ h.from = e => e \notin DOMAIN mirror[c]
          /\ h.kind \in {"OwnedCheatState", "CurrentMap", "CurrentSector"} /\ h.from = e =>
               e \in DOMAIN mirror[c]
      BY <2>8, <3>1, <3>2
    <3>4. /\ Sets(t, q, h, e) => e \in DOMAIN f[c] /\ f[c][e][t] = To(t, h, e)
          /\ ~ Sets(t, q, h, e) /\ e \in DOMAIN mirror[c] =>
               e \in DOMAIN f[c] /\ f[c][e][t] = mirror[c][e][t]
      BY <1>3, <1>4, <1>5, <2>3, <2>7, <3>3, SetAfter, <2>8, <2>9
    <3>5. status'[c] = "in" BY <1>2, <1>4, <2>9 DEF StatusAfter
    <3>6. X = IF e \in DOMAIN f[c] THEN {f[c][e][t]} ELSE {} BY <1>6, <2>4, <3>5 DEF Shown
    <3>7. W = IF e \in DOMAIN mirror[c] THEN {mirror[c][e][t]} ELSE {} BY <2>4, <2>9 DEF Shown
    <3>8. Sets(t, q, h, e) => To(t, h, e) \in X BY <3>4, <3>6
    <3>9. ~ Sets(t, q, h, e) => W \subseteq X BY <3>4, <3>6, <3>7
    <3>10. PICK z : z = Tail(s) OBVIOUS
    <3>11. Ends(t, q, z, e, X, v) BY <2>2, <2>5, <3>8, <3>9, <3>10, EndsTaken
    <3>12. down'[c] = z BY <1>6, <2>1, <3>10
    <3>13. QED BY <1>9, <2>3, <2>4, <3>11, <3>12 DEF Agrees
  <2>10. CASE status[c] = "joining"
    <3>1. W = {} BY <2>4, <2>10 DEF Shown
    <3>2. Sets(t, q, h, e) => To(t, h, e) \in X
      <4>1. ASSUME Sets(t, q, h, e)
            PROVE  To(t, h, e) \in X
        <5>1. h.kind = "LoginAccepted" BY <1>3, <2>10, <4>1, SetsNothing
        <5>2. status'[c] = "in" BY <1>2, <1>4, <2>10, <5>1 DEF StatusAfter
        <5>3. /\ CopyTypeOK /\ h \in DownMsg /\ f = MirrorAfter(c, h) /\ e \in Conn /\ e # c /\ q = Of(c)
              /\ h.kind # "PlayerConnected" /\ h.kind \notin {"OwnedCheatState", "CurrentMap", "CurrentSector"}
          BY <1>3, <1>4, <1>5, <2>3, <2>7, <5>1
        <5>4. e \in DOMAIN f[c] /\ f[c][e][t] = To(t, h, e) BY <4>1, <5>3, SetAfter
        <5>5. QED BY <1>6, <2>4, <5>2, <5>4 DEF Shown
      <4>2. QED BY <4>1
    <3>3. PICK z : z = Tail(s) OBVIOUS
    <3>4. Ends(t, q, z, e, X, v)
      <4>1. ~ Sets(t, q, h, e) => W \subseteq X BY <3>1
      <4>2. QED BY <2>2, <2>5, <3>2, <3>3, <4>1, EndsTaken
    <3>5. down'[c] = z BY <1>6, <2>1, <3>3
    <3>6. QED BY <1>9, <2>3, <2>4, <3>4, <3>5 DEF Agrees
  <2>11. QED BY <2>6, <2>9, <2>10
<1>10. QED BY <1>7, <1>8, <1>9

(* The rest. *)
LEMMA AgreesRest ==
  ASSUME TypeOK, NEW c \in Conn, StopHandling(c) \/ \E id \in Conn : BallArrives(c, id),
         NEW d \in Conn, Active(d)'
  PROVE  Active(d) /\ \A t, e, v : Agrees(t, d, e, v) => Agrees(t, d, e, v)'
<1>1. status' = status /\ CopyTypeOK /\ mirror \in [Conn -> Entries] /\ down \in [Conn -> Seq(DownMsg)]
  BY DEF StopHandling, BallArrives, playerVars, TypeOK, CopyTypeOK, StreamTypeOK
<1>2. Active(d) BY <1>1 DEF Active
<1>3. down'[d] = down[d]
  <2>1. PICK z : z = <<>> OBVIOUS
  <2>2. down' = down \/ (status[c] = "left" /\ down' = [down EXCEPT ![c] = z])
    BY <2>1 DEF StopHandling, BallArrives, streamVars
  <2>3. QED BY <1>1, <1>2, <2>2 DEF Active
<1>4. \A e \in DOMAIN mirror[d] : e \in DOMAIN mirror'[d] /\ mirror'[d][e] = mirror[d][e]
  <2>1. CASE StopHandling(c) BY <2>1 DEF StopHandling, copyVars
  <2>2. ASSUME NEW id \in Conn, BallArrives(c, id)
        PROVE  \A e \in DOMAIN mirror[d] : e \in DOMAIN mirror'[d] /\ mirror'[d][e] = mirror[d][e]
    <3>1. PICK g, f : g = <<>> /\ f = Changed(c, id, g) OBVIOUS
    <3>2. Change(g) BY <3>1, Changes
    <3>3. id \notin DOMAIN mirror[c] /\ mirror' = f BY <2>2, <3>1 DEF BallArrives
    <3>4. /\ \A b \in Conn \ {c} : f[b] = mirror[b]
          /\ \A k \in DOMAIN mirror[c] \ {id} : k \in DOMAIN f[c] /\ f[c][k] = mirror[c][k]
      BY <1>1, <3>1, <3>2, ChangedIs
    <3>5. QED BY <3>3, <3>4
  <2>3. QED BY <2>1, <2>2
<1>5. ASSUME NEW t, NEW e, NEW v, Agrees(t, d, e, v)
      PROVE  Agrees(t, d, e, v)'
  BY <1>1, <1>4, <1>3, <1>5 DEF Shown, Agrees, Ends
<1>6. QED BY <1>2, <1>5

-----------------------------------------------------------------------------
(* What the server hears and says.                                         *)

(* A relay: of nothing, of a cheat mode, of a place. *)
Idle(c, h, S, m) ==
  /\ h.kind \notin {"LoginRequest", "CheatState", "CurrentMap", "CurrentSector"}
  /\ m.kind \notin {"LoginAccepted", "PlayerConnected", "OwnedCheatState", "CurrentMap", "CurrentSector"}
  /\ record' = record
Forcing(c, h, S, m) ==
  /\ h.kind = "CheatState" /\ Forced(c, h.cheated)
  /\ S = {c} /\ m = Opposite(h.cheated) /\ m.kind = "CheatToggle" /\ record' = record
Cheating(c, h, S, m) ==
  /\ h.kind = "CheatState" /\ ~ Forced(c, h.cheated) /\ S = online
  /\ m.kind = "OwnedCheatState" /\ m.from = c /\ m.cheated = h.cheated
  /\ CheatSet(record, c, h.cheated, record')
Announcing(c, h, S, m) ==
  /\ h.kind = "CurrentMap" /\ h.type = "Announcement" /\ S = online
  /\ m.kind = "CurrentMap" /\ m.from = c /\ m.map = h.map /\ m.sector = h.sector /\ m.type = h.type
  /\ record' = record
Arriving(c, h, S, m) ==
  /\ h.kind = "CurrentMap" /\ h.type = "EnteringMap" /\ S = online \ {c}
  /\ m.kind = "CurrentMap" /\ m.from = c /\ m.map = h.map /\ m.sector = h.sector /\ m.type = h.type
  /\ PlaceSet(record, c, h.map, h.sector, record')
Advancing(c, h, S, m) ==
  /\ h.kind = "CurrentSector" /\ S = online \ {c}
  /\ m.kind = "CurrentSector" /\ m.from = c /\ m.sector = h.sector
  /\ SectorSet(record, c, h.sector, record')
Relays(c, h, S, m) ==
  \/ Idle(c, h, S, m) \/ Forcing(c, h, S, m) \/ Cheating(c, h, S, m)
  \/ Announcing(c, h, S, m) \/ Arriving(c, h, S, m) \/ Advancing(c, h, S, m)

LEMMA RelayTells ==
  ASSUME TypeOK, Sessions, NEW c \in Conn, Relaying(c), NEW h, h = Head(up[c])
  PROVE  /\ h \in UpMsg /\ c \in online /\ up[c] # <<>> /\ up' = [up EXCEPT ![c] = Tail(@)]
         /\ UNCHANGED <<playerVars, copyVars, threadVars, history>>
         /\ \E S, m : m \in DownMsg /\ down' = Told(down, S, m) /\ Relays(c, h, S, m)
<1>1. /\ up[c] # <<>> /\ up' = [up EXCEPT ![c] = Tail(@)] /\ h.kind # "LoginRequest"
      /\ UNCHANGED <<playerVars, copyVars, threadVars, history>>
  BY RelayIs
<1>2. h \in UpMsg /\ c \in online BY <1>1, StreamsTyped, ReceivedFrom DEF TypeOK
<1>3. record \in Records BY DEF TypeOK, ServerTypeOK
<1>4. CASE ServerCheatState(c)
  <2>1. h.kind = "CheatState" /\ h.cheated \in BOOLEAN /\ (~ h.cheated) \in BOOLEAN
    BY <1>2, <1>4, UpFacts DEF ServerCheatState, Receives
  <2>2. PICK m : m = From(c, [kind |-> "OwnedCheatState", cheated |-> h.cheated]) OBVIOUS
  <2>3. m \in DownMsg /\ m.kind = "OwnedCheatState" /\ m.from = c /\ m.cheated = h.cheated
    BY <1>2, <2>1, <2>2, RelayedIs
  <2>4. PICK n : n = Opposite(h.cheated) OBVIOUS
  <2>5. n \in DownMsg /\ n.kind = "CheatToggle" BY <2>1, <2>4, Tellable DEF Opposite, CheatToggle
  <2>6. CASE Forced(c, h.cheated)
    BY <1>4, <2>4, <2>6, <2>1, <2>5, <1>1, <1>2 DEF ServerCheatState, Opposite, Forcing, Relays
  <2>7. CASE ~ Forced(c, h.cheated)
    BY <1>4, <2>2, <2>7, <1>3, <2>1, RecordChanges, <2>3, <1>1, <1>2 DEF ServerCheatState,
       CheatRecorded, Broadcast, Cheating, Relays
  <2>8. QED BY <2>6, <2>7
<1>5. CASE ServerCurrentMap(c)
  <2>1. /\ h.kind = "CurrentMap" /\ h.map \in Map \cup {NoMap} /\ h.sector \in Sector
        /\ h.type \in {"Announcement", "EnteringMap"}
    BY <1>2, <1>5, UpFacts DEF ServerCurrentMap, Receives
  <2>2. PICK m : m = From(c, h) OBVIOUS
  <2>3. /\ m \in DownMsg /\ m.kind = "CurrentMap" /\ m.from = c
        /\ m.map = h.map /\ m.sector = h.sector /\ m.type = h.type
    BY <1>2, <2>1, <2>2, RelayedIs
  <2>4. CASE h.type = "Announcement"
    BY <1>5, <2>2, <2>4, <2>1, <2>3, <1>1, <1>2 DEF ServerCurrentMap, Broadcast, Announcing, Relays
  <2>5. CASE h.type = "EnteringMap"
    BY <1>5, <2>2, <2>5, <1>3, RecordChanges, <2>1, <2>3, <1>1, <1>2 DEF ServerCurrentMap,
       BroadcastExcept, Arriving, Relays
  <2>6. QED BY <2>1, <2>4, <2>5
<1>6. CASE ServerCurrentSector(c)
  <2>1. h.kind = "CurrentSector" /\ h.sector \in Sector
    BY <1>2, <1>6, UpFacts DEF ServerCurrentSector, Receives
  <2>2. PICK m : m = From(c, h) OBVIOUS
  <2>3. m \in DownMsg /\ m.kind = "CurrentSector" /\ m.from = c /\ m.sector = h.sector
    BY <1>2, <2>1, <2>2, RelayedIs
  <2>4. /\ down' = Told(down, online \ {c}, m)
        /\ record' = [record EXCEPT ![c].sector = h.sector]
    BY <1>6, <2>2 DEF ServerCurrentSector, BroadcastExcept
  <2>5. SectorSet(record, c, h.sector, record') BY <1>3, <2>1, <2>4, RecordChanges
  <2>6. Advancing(c, h, online \ {c}, m) BY <2>1, <2>3, <2>5 DEF Advancing
  <2>7. QED BY <1>1, <1>2, <2>3, <2>4, <2>6 DEF Relays
<1>7. CASE ~ ServerCheatState(c) /\ ~ ServerCurrentMap(c) /\ ~ ServerCurrentSector(c)
  <2>1. /\ h.kind \notin {"CheatState", "CurrentMap", "CurrentSector"}
        /\ record' = record
    BY <1>7
       DEF Relaying, ServerScores, ServerNotification, ServerWhisper, ServerRestart, ServerRestartFailed,
           ServerCheatToggle, ServerMapNames, ServerBulletin, ServerChat, serverVars, Receives
  <2>2. PICK S, m : m \in DownMsg /\ RelayOf(c, S, m) BY RelayIs
  <2>3. Idle(c, h, S, m) BY <1>1, <2>1, <2>2 DEF RelayOf, Idle
  <2>4. down' = Told(down, S, m) BY <2>2 DEF RelayOf
  <2>5. QED BY <1>1, <1>2, <2>2, <2>3, <2>4 DEF Relays
<1>8. QED BY <1>4, <1>5, <1>6, <1>7

(* A message, told to some. *)
LEMMA AgreesSpoken ==
  ASSUME StreamTypeOK, NEW t, NEW d \in Conn, NEW e, NEW v, Agrees(t, d, e, v), UNCHANGED <<status, mirror>>,
         NEW S, NEW m, m \in DownMsg, down' = Told(down, S, m), ~ Sets(t, Of(d), m, e)
  PROVE  Agrees(t, d, e, v)'
BY AgreesTold DEF Told

LEMMA AgreesRelayed ==
  ASSUME StreamTypeOK, NEW t, NEW d \in Conn, NEW e, NEW S, NEW m, m \in DownMsg, down' = Told(down, S, m),
         d \in S, Sets(t, Of(d), m, e)
  PROVE  Agrees(t, d, e, To(t, m, e))'
<1>1. down'[d] = Append(down[d], m) BY DEF Told
<1>2. QED BY <1>1, AgreesSet

(* Warnings. *)
LEMMA AgreesWarned ==
  ASSUME TypeOK, NEW c \in Conn, ServerHashes(c),
         NEW t, NEW d \in Conn, NEW e, NEW v, Agrees(t, d, e, v)
  PROVE  Agrees(t, d, e, v)'
<1>1. UNCHANGED <<status, mirror>> /\ StreamTypeOK /\ down \in [Conn -> Seq(DownMsg)]
  BY DEF ServerHashes, ServerOnly, playerVars, copyVars, TypeOK, StreamTypeOK
<1>2. PICK n \in 0 .. acts["modified"] :
        down' = [b \in Conn |-> down[b] \o [f \in 1 .. (IF b \in online THEN n ELSE 0) |-> Warning]]
  BY DEF ServerHashes
<1>3. PICK k \in Nat : k = IF d \in online THEN n ELSE 0
  <2>1. n \in Nat BY <1>2 DEF TypeOK, ActsTypeOK
  <2>2. QED BY <2>1
<1>4. PICK w : w = [f \in 1 .. k |-> Warning] OBVIOUS
<1>5. Warning \in DownMsg /\ Warning.kind = "PublicNotification" BY Tellable DEF Warning
<1>6. w \in Seq(DownMsg) /\ \A i \in 1 .. Len(w) : w[i] = Warning BY <1>3, <1>4, <1>5
<1>7. Leaves(t, Of(d), w, e)
  <2>1. ~ Sets(t, Of(d), Warning, e) BY <1>5, SetsNothing
  <2>2. QED BY <1>6, <2>1 DEF Leaves
<1>8. down'[d] = down[d] \o w BY <1>2, <1>3, <1>4
<1>9. QED BY <1>1, <1>6, <1>7, <1>8, AgreesAdded
-----------------------------------------------------------------------------
(* Whom others are told of at a login, and what the newcomer is.           *)

LEMMA Introducing ==
  ASSUME TypeOK, Sessions, NEW c \in Conn, ServerLogin(c), NEW ch, ch = Head(up[c]).cheated
  PROVE  /\ Head(up[c]) \in UpMsg /\ Head(up[c]).kind = "LoginRequest" /\ ch \in BOOLEAN
         /\ \E x \in BOOLEAN : /\ x = IF Forced(c, ch) THEN ~ ch ELSE ch
                               /\ \A d \in online : d # c /\ down'[d] = Append(down[d], PlayerConnected(c, x))
<1>0. /\ online \subseteq Conn /\ up \in [Conn -> Seq(UpMsg)] /\ down \in [Conn -> Seq(DownMsg)]
  BY EntriesAre, SMTT(30) DEF TypeOK, ServerTypeOK, StreamTypeOK, Records, online
<1>1. Head(up[c]).kind = "LoginRequest" /\ up[c] # <<>> /\ c \notin online
  BY LoginIs DEF ServerLogin, Receives
<1>2. Head(up[c]) \in UpMsg BY <1>0, <1>1, Taken
<1>3. ch \in BOOLEAN BY <1>1, <1>2, UpFacts
<1>4. PICK x : x = IF Forced(c, ch) THEN ~ ch ELSE ch OBVIOUS
<1>5. x \in BOOLEAN BY <1>3, <1>4
<1>6. PICK r : r = With(record, c, Player(ch, Nowhere)) OBVIOUS
<1>7. down' = [Introduced(c, ch) EXCEPT ![c] = @ \o Welcome(c, r, ch)] BY <1>6 DEF ServerLogin
<1>8. \A d \in Conn : Introduced(c, ch)[d] =
         IF d \in online \ {c} THEN Append(down[d], PlayerConnected(c, x)) ELSE down[d]
  BY <1>4 DEF Introduced, Told
<1>9. DOMAIN Introduced(c, ch) = Conn BY DEF Introduced, Told
<1>10. \A d \in Conn \ {c} : down'[d] = Introduced(c, ch)[d] BY <1>7, <1>9
<1>11. \A d \in online : d # c /\ down'[d] = Append(down[d], PlayerConnected(c, x))
  BY <1>0, <1>1, <1>8, <1>10
<1>12. QED BY <1>1, <1>2, <1>3, <1>4, <1>5, <1>11

(* Those who are there. *)
LEMMA AgreesIntroduced ==
  ASSUME TypeOK, Sessions, NEW c \in Conn, ServerLogin(c), NEW ch, ch = Head(up[c]).cheated,
         NEW d \in online
  PROVE  /\ Active(d)' => Active(d)
         /\ \A t, v : \A e \in Conn : e # c /\ Agrees(t, d, e, v) => Agrees(t, d, e, v)'
         /\ ~ Forced(c, ch) => Agrees("cheated", d, c, ch)'
         /\ \A t \in {"map", "sector"} : Agrees(t, d, c, Nowhere[t])'
<1>1. /\ UNCHANGED <<status, mirror>> /\ StreamTypeOK /\ d \in Conn
  BY LoginIs, EntriesAre DEF playerVars, copyVars, TypeOK, ServerTypeOK, Records, online
<1>2. PICK x \in BOOLEAN : /\ x = IF Forced(c, ch) THEN ~ ch ELSE ch
                           /\ \A b \in online : down'[b] = Append(down[b], PlayerConnected(c, x))
  BY Introducing
<1>3. PICK m : m = PlayerConnected(c, x) OBVIOUS
<1>4. m \in DownMsg /\ m.kind = "PlayerConnected" /\ m.from = c /\ m.cheated = x
  BY <1>2, <1>3, Tellable DEF PlayerConnected
<1>5. down'[d] = Append(down[d], m) BY <1>2, <1>3
<1>6. ASSUME NEW t, NEW v, NEW e \in Conn, e # c, Agrees(t, d, e, v)
      PROVE  Agrees(t, d, e, v)'
  BY <1>4, <1>6, <1>5, <1>1, AgreesTold DEF Sets, Places
<1>7. \A t : Agrees(t, d, c, To(t, m, c))' BY <1>4, <1>1, <1>5, AgreesSet DEF Sets
<1>8. To("cheated", m, c) = x /\ To("map", m, c) = Nowhere["map"] /\ To("sector", m, c) = Nowhere["sector"]
  BY <1>4 DEF To, Player, Nowhere
<1>9. Active(d)' => Active(d) BY <1>1 DEF Active
<1>10. Agrees("cheated", d, c, x)' /\ Agrees("map", d, c, Nowhere["map"])' /\ Agrees("sector", d, c, Nowhere["sector"])'
  BY <1>7, <1>8
<1>11. ~ Forced(c, ch) => Agrees("cheated", d, c, ch)' BY <1>2, <1>10
<1>12. QED BY <1>6, <1>9, <1>10, <1>11

(* Whoever comes. *)
LEMMA GreetsForced ==
  ASSUME NEW c, NEW ch, NEW a, NEW t, NEW b, Greets(c, ch, a, t, b), Forced(c, ch)
  PROVE  Len(t) = 1 /\ t[1] = Opposite(ch)
BY GreetsIs

LEMMA AgreesGreeted ==
  ASSUME TypeOK, Sessions, NEW c \in Conn, ServerLogin(c), NEW ch, ch = Head(up[c]).cheated, Active(c)'
  PROVE  /\ \A t \in Topic, e \in online : e # c /\ Agrees(t, c, e, record[e][t])'
         /\ Forced(c, ch) => TurnedAround(c, ch)'
<1>1. /\ c \notin online /\ status' = status /\ status[c] \in {"joining", "left"}
      /\ record' \in Records /\ online' = online \cup {c}
      /\ \A d \in online : record'[d] = record[d]
  BY LoginIs DEF playerVars
<1>2. down \in [Conn -> Seq(DownMsg)] BY DEF TypeOK, StreamTypeOK
<1>3. Len(down[c]) = 0 BY <1>1 DEF Active, Sessions, Requested
<1>4. PICK r : r = record' OBVIOUS
<1>5. PICK a, u, b \in Seq(DownMsg) :
        /\ down'[c] = down[c] \o (a \o <<LoginAccepted(r)>> \o u \o b)
        /\ Greets(c, ch, a, u, b)
  BY <1>4, LoginIs
<1>6. PICK e, w, m : GreetingIs(r, a, u, b, e, w, m)
  <2>1. r \in Records BY <1>1, <1>4
  <2>2. QED BY <1>5, <2>1, Greeting
<1>7. /\ a \in Seq(DownMsg) /\ e \in Seq(DownMsg) /\ w \in Seq(DownMsg) /\ m \in DownMsg
      /\ m.kind = "LoginAccepted" /\ m.online = r /\ e = a \o <<m>> /\ w = u \o b
      /\ \A i \in 1 .. Len(w) : w[i].kind \in {"CheatToggle", "PermanentNotification"}
  BY <1>5, <1>6 DEF GreetingIs
<1>8. down'[c] = e \o w
  <2>1. PICK s \in Seq(DownMsg) : s = down[c] BY <1>2
  <2>2. s = <<>> BY <1>3, <2>1
  <2>3. PICK z \in Seq(DownMsg) : z = e \o w BY <1>7, Joined
  <2>4. <<>> \o z = z OBVIOUS
  <2>5. QED BY <1>5, <1>6, <2>1, <2>2, <2>3, <2>4, Zenon DEF GreetingIs
<1>9. PICK z : z = down'[c] OBVIOUS
<1>10. ASSUME NEW t \in Topic, NEW k \in online
       PROVE  k # c /\ Agrees(t, c, k, record[k][t])'
  <2>1. PICK q : q = Of(c) OBVIOUS
  <2>2. PICK X : X = Shown(t, c, k)' OBVIOUS
  <2>3. k \in DOMAIN r /\ r[k] = record[k] BY <1>1, <1>4, <1>10 DEF online
  <2>4. Sets(t, q, m, k) /\ To(t, m, k) = record[k][t] BY <1>7, <2>3 DEF Sets, To
  <2>5. PICK v : v = record[k][t] OBVIOUS
  <2>6. Ends(t, q, e, k, X, v)
    <3>1. e = Append(a, m) BY <1>7, Appended
    <3>2. Ends(t, q, e, k, X, To(t, m, k)) BY <1>7, <2>4, <3>1, EndsNow
    <3>3. QED BY <2>4, <2>5, <3>2
  <2>7. Leaves(t, q, w, k) BY <1>7, SetsNothing DEF Leaves
  <2>8. Ends(t, q, z, k, X, v) BY <1>7, <1>8, <1>9, <2>6, <2>7, EndsKept
  <2>9. QED BY <1>1, <1>9, <2>1, <2>2, <2>5, <2>8 DEF Agrees
<1>11. ASSUME Forced(c, ch)
       PROVE  TurnedAround(c, ch)'
  <2>1. u \in Seq(DownMsg) /\ Len(u) = 1 /\ u[1] = Opposite(ch) BY <1>5, <1>11, GreetsForced
  <2>2. 1 \in 1 .. Len(w) /\ w[1] = Opposite(ch)
    <3>1. 1 \in 1 .. Len(u) /\ w = u \o b BY <1>7, <2>1
    <3>2. Len(w) = Len(u) + Len(b) /\ Len(u) \in Nat /\ Len(b) \in Nat /\ w[1] = u[1]
      BY <1>5, <3>1, Joined
    <3>3. QED BY <2>1, <3>1, <3>2
  <2>3. PICK i : i = Len(e) + 1 OBVIOUS
  <2>4. i \in 1 .. Len(z) /\ z[i] = w[1] BY <1>7, <1>8, <1>9, <2>2, <2>3, Joined, SMTT(30)
  <2>5. QED BY <1>9, <1>11, <2>2, <2>4 DEF TurnedAround
<1>12. QED BY <1>10, <1>11

(* Whoever goes. *)
LEMMA AgreesDeparted ==
  ASSUME TypeOK, NEW c \in Conn, Depart(c), NEW d \in online', Active(d)'
  PROVE  /\ d \in online \ {c} /\ Active(d)
         /\ \A t, e, v : Agrees(t, d, e, v) => Agrees(t, d, e, v)'
<1>1. /\ online' = online \ {c} /\ UNCHANGED <<status, mirror>> /\ StreamTypeOK /\ online \subseteq Conn
      /\ down' = Told(down, online \ {c}, PlayerDisconnected(c))
  BY EntriesAre DEF Depart, DepartTold, Without, online, playerVars, copyVars, TypeOK, ServerTypeOK, Records
<1>2. PICK m : m = PlayerDisconnected(c) OBVIOUS
<1>3. m \in DownMsg /\ m.kind = "PlayerDisconnected" BY <1>2, Tellable DEF PlayerDisconnected
<1>4. ASSUME NEW t, NEW e, NEW v, Agrees(t, d, e, v)
      PROVE  Agrees(t, d, e, v)'
  BY <1>3, SetsNothing, <1>1, <1>2, <1>4, AgreesSpoken
<1>5. Active(d) BY <1>1 DEF Active
<1>6. QED BY <1>1, <1>4, <1>5

(* A message stays in its place, until it is first. *)
LEMMA StillThere ==
  ASSUME NEW s \in Seq(DownMsg), NEW x
  PROVE  /\ \A w \in Seq(DownMsg) : (\E i \in 1 .. Len(s) : s[i] = x) =>
              \E i \in 1 .. Len(s \o w) : (s \o w)[i] = x
         /\ \A m \in DownMsg : (\E i \in 1 .. Len(s) : s[i] = x) =>
              \E i \in 1 .. Len(Append(s, m)) : Append(s, m)[i] = x
         /\ s # <<>> /\ (\E i \in 1 .. Len(s) : s[i] = x) =>
              Head(s) = x \/ \E i \in 1 .. Len(Tail(s)) : Tail(s)[i] = x
<1>1. ASSUME NEW w \in Seq(DownMsg), NEW i \in 1 .. Len(s), s[i] = x
      PROVE  \E k \in 1 .. Len(s \o w) : (s \o w)[k] = x
  BY <1>1, Joined
<1>2. ASSUME NEW m \in DownMsg, NEW i \in 1 .. Len(s), s[i] = x
      PROVE  \E k \in 1 .. Len(Append(s, m)) : Append(s, m)[k] = x
  BY <1>2, Appended
<1>3. ASSUME s # <<>>, NEW i \in 1 .. Len(s), s[i] = x, Head(s) # x
      PROVE  \E k \in 1 .. Len(Tail(s)) : Tail(s)[k] = x
  <2>1. /\ Len(s) \in Nat \ {0} /\ Len(Tail(s)) = Len(s) - 1 /\ Head(s) = s[1]
        /\ \A k \in 1 .. Len(Tail(s)) : Tail(s)[k] = s[k + 1]
    BY <1>3, Taken
  <2>2. PICK k : k = i - 1 OBVIOUS
  <2>3. k \in 1 .. Len(Tail(s)) /\ k + 1 = i BY <1>3, <2>1, <2>2
  <2>4. QED BY <1>3, <2>1, <2>3
<1>4. QED BY <1>1, <1>2, <1>3
-----------------------------------------------------------------------------
(* Cheat modes.                                                            *)

(* What is said last, or not at all, stays so. *)
Keeps(t, q, s, z) ==
  /\ Silent(t, q, s) => Silent(t, q, z)
  /\ \A v : SaysLast(t, q, s, v) => SaysLast(t, q, z, v)

LEMMA KeepsIs ==
  ASSUME NEW t, NEW q, NEW s \in Seq(UpMsg)
  PROVE  /\ Keeps(t, q, s, s)
         /\ \A m \in UpMsg : ~ Says(t, q, m) => Keeps(t, q, s, Append(s, m))
         /\ \A m, n \in UpMsg :
              ~ Says(t, q, m) /\ ~ Says(t, q, n) => Keeps(t, q, s, Append(Append(s, m), n))
<1>1. Keeps(t, q, s, s) BY DEF Keeps
<1>2. ASSUME NEW r \in Seq(UpMsg), NEW m \in UpMsg, ~ Says(t, q, m), NEW z, z = Append(r, m)
      PROVE  Keeps(t, q, r, z)
  BY <1>2, SaysKept DEF Keeps
<1>3. ASSUME NEW m \in UpMsg, NEW n \in UpMsg, ~ Says(t, q, m), ~ Says(t, q, n)
      PROVE  Keeps(t, q, s, Append(Append(s, m), n))
  <2>1. PICK r \in Seq(UpMsg) : r = Append(s, m) BY <1>3, Appended
  <2>2. Keeps(t, q, s, r) BY <1>2, <1>3, <2>1
  <2>3. PICK z : z = Append(r, n) OBVIOUS
  <2>4. Keeps(t, q, r, z) BY <1>2, <1>3, <2>1, <2>3
  <2>5. Keeps(t, q, s, z) BY <2>2, <2>4 DEF Keeps
  <2>6. QED BY <2>1, <2>3, <2>5
<1>4. QED BY <1>1, <1>2, <1>3

(* What can be sent that is silent on cheat modes. *)
Unsaid(c) ==
  \/ up'[c] = up[c]
  \/ \E m \in UpMsg : m.kind \notin {"LoginRequest", "CheatState"} /\ up'[c] = Append(up[c], m)
  \/ \E m, n \in UpMsg :
       /\ m.kind \notin {"LoginRequest", "CheatState"} /\ n.kind \notin {"LoginRequest", "CheatState"}
       /\ up'[c] = Append(Append(up[c], m), n)

LEMMA UnsaidKeeps ==
  ASSUME StreamTypeOK, NEW c \in Conn, Unsaid(c)
  PROVE  Keeps("cheated", "any", up[c], up'[c])
<1>1. PICK s \in Seq(UpMsg) : s = up[c] BY DEF StreamTypeOK
<1>2. \A m : m.kind \notin {"LoginRequest", "CheatState"} => ~ Says("cheated", "any", m) BY DEF Says
<1>3. CASE up'[c] = s BY <1>1, <1>3, KeepsIs
<1>4. ASSUME NEW m \in UpMsg, m.kind \notin {"LoginRequest", "CheatState"}, up'[c] = Append(s, m)
      PROVE  Keeps("cheated", "any", s, up'[c])
  BY <1>2, <1>4, KeepsIs
<1>5. ASSUME NEW m \in UpMsg, NEW n \in UpMsg, m.kind \notin {"LoginRequest", "CheatState"},
             n.kind \notin {"LoginRequest", "CheatState"}, up'[c] = Append(Append(s, m), n)
      PROVE  Keeps("cheated", "any", s, up'[c])
  BY <1>2, <1>5, KeepsIs
<1>6. QED BY <1>1, <1>3, <1>4, <1>5 DEF Unsaid

(* Players and threads, but for a request and a switch. *)
LEMMA ActsUnsaid ==
  ASSUME TypeOK, NEW c \in Conn, Acts(c), ~ Connect(c), ~ ToggleOwnCheat(c)
  PROVE  /\ cheat' = cheat /\ untold' = untold /\ status'[c] \in {status[c], "left"}
         /\ Unsaid(c)
<1>0. /\ \A x \in BOOLEAN : CheatToggle(x).kind = "CheatToggle"
      /\ \A s : CurrentSector(s).kind = "CurrentSector" /\ MapNames(s).kind = "MapNames"
      /\ \A p, t : CurrentMap(p, t).kind = "CurrentMap"
      /\ up \in [Conn -> Seq(UpMsg)] /\ up[c] \in Seq(UpMsg)
      /\ place[c] \in Where /\ status \in [Conn -> {"out", "joining", "in", "left"}]
  BY DEF CheatToggle, CurrentSector, MapNames, CurrentMap, TypeOK, StreamTypeOK, PlayerTypeOK
<1>1. /\ cheat' = cheat /\ untold' = untold /\ status'[c] \in {status[c], "left"}
  BY <1>0 DEF Acts, ToggleCheats, SetBulletin, Say, Notify, QueryScores, Address, AnnounceMap, ChangeSector,
         SetMap, LoadLevel, Leave, EndGame, GoesOffline, playerVars, history
<1>2. CASE \/ ToggleCheats(c) \/ SetBulletin(c) \/ Say(c) \/ Notify(c) \/ QueryScores(c) \/ Address(c)
  <2>1. \A d \in DOMAIN mirror[c] : d \in Conn BY EntriesAre DEF TypeOK, CopyTypeOK
  <2>2. \E m \in UpMsg : m.kind \notin {"LoginRequest", "CheatState"} /\ Sends(c, m)
    BY <1>2, <2>1, Sendable
       DEF ToggleCheats, SetBulletin, Say, Notify, QueryScores, Address, CheatToggle, Bulletin, Said,
           Important, ScoreList, Whispered, RestartRequest
  <2>3. QED BY <1>0, <1>1, <2>2 DEF Sends, Unsaid
<1>3. CASE AnnounceMap(c)
  <2>1. PICK m : m = CurrentMap(place[c], "Announcement") OBVIOUS
  <2>2. m \in UpMsg /\ m.kind = "CurrentMap" BY <1>0, <2>1, Sendable
  <2>3. up'[c] = Append(up[c], m) BY <1>0, <1>3, <2>1 DEF AnnounceMap, Sends
  <2>4. QED BY <1>1, <2>2, <2>3 DEF Unsaid
<1>4. CASE ChangeSector(c)
  <2>1. PICK s \in Sector : IF status[c] = "in" THEN Sends(c, CurrentSector(s)) ELSE UNCHANGED up
    BY <1>4 DEF ChangeSector
  <2>2. PICK m : m = CurrentSector(s) OBVIOUS
  <2>3. m \in UpMsg /\ m.kind = "CurrentSector" BY <1>0, <2>1, <2>2, Sendable
  <2>4. up'[c] = up[c] \/ up'[c] = Append(up[c], m) BY <1>0, <2>1, <2>2 DEF Sends
  <2>5. QED BY <1>1, <2>3, <2>4 DEF Unsaid
<1>5. CASE SetMap(c)
  <2>1. PICK x \in Map, withName \in BOOLEAN :
          up' = [up EXCEPT ![c] = (IF withName THEN Append(@, MapNames({x})) ELSE @)
                                  \o <<CurrentMap([map |-> x, sector |-> 0], "EnteringMap")>>]
    BY <1>5 DEF SetMap
  <2>2. PICK m, n : m = MapNames({x}) /\ n = CurrentMap([map |-> x, sector |-> 0], "EnteringMap")
    OBVIOUS
  <2>3. m \in UpMsg /\ m.kind = "MapNames" /\ n \in UpMsg /\ n.kind = "CurrentMap"
    BY <2>1, AnnouncementsAssumption, <1>0, <2>2, Sendable DEF Where
  <2>4. up[c] \o <<n>> = Append(up[c], n) /\ Append(up[c], m) \o <<n>> = Append(Append(up[c], m), n)
    BY <1>0, <2>3, Appended
  <2>5. \/ up'[c] = up[c] \o <<n>>
        \/ up'[c] = Append(up[c], m) \o <<n>>
    BY <1>0, <2>1, <2>2
  <2>6. QED BY <1>1, <2>3, <2>4, <2>5 DEF Unsaid
<1>6. CASE LoadLevel(c) \/ Leave(c) \/ EndGame(c)
  BY <1>1, <1>6 DEF LoadLevel, Leave, EndGame, GoesOffline, streamVars, Unsaid
<1>7. QED BY <1>1, <1>2, <1>3, <1>4, <1>5, <1>6 DEF Acts

LEMMA ThreadsUnsaid ==
  ASSUME TypeOK, NEW c \in Conn, InSession(c), Threads(c)
  PROVE  /\ cheat' = cheat /\ untold' = untold /\ status'[c] = status[c]
         /\ Unsaid(c)
<1>0. /\ \A s : CurrentSector(s).kind = "CurrentSector" /\ MapNames(s).kind = "MapNames"
      /\ \A p, t : CurrentMap(p, t).kind = "CurrentMap"
      /\ HashData.kind = "HashData"
      /\ up \in [Conn -> Seq(UpMsg)] /\ up[c] \in Seq(UpMsg)
      /\ place[c] \in Where /\ carried[c] \in Where
      /\ game[c] # "idle" => place[c].map \in Map
      /\ place[c].map # NoMap => place[c].map \in Map
  BY DEF HashData, CurrentSector, MapNames, CurrentMap, TypeOK, StreamTypeOK, PlayerTypeOK, ThreadTypeOK, Where
<1>1. cheat' = cheat /\ untold' = untold /\ status'[c] = status[c]
  BY DEF Threads, EnterName, SendName, SendPlace, NetSendsName, Assemble, NetSendsMap, playerVars, history
<1>2. CASE EnterName(c) \/ Assemble(c) BY <1>1, <1>2 DEF EnterName, Assemble, Unsaid, streamVars
<1>3. CASE SendName(c) \/ NetSendsName(c)
  <2>1. PICK m : m = MapNames({place[c].map}) OBVIOUS
  <2>2. m.kind = "MapNames" /\ (place[c].map \in Map => m \in UpMsg) BY <1>0, <2>1, Sendable
  <2>3. up'[c] = up[c] \/ (place[c].map \in Map /\ up'[c] = Append(up[c], m))
    BY <1>0, <1>3, <2>1 DEF SendName, NetSendsName, Sends
  <2>4. QED BY <1>1, <2>2, <2>3 DEF Unsaid
<1>4. CASE SendPlace(c)
  <2>1. PICK s \in Sector : up' = [up EXCEPT ![c] = @ \o Entering(c, s)] BY <1>4 DEF SendPlace
  <2>2. PICK n : n = CurrentMap([place[c] EXCEPT !.sector = s], "EnteringMap") OBVIOUS
  <2>3. PICK m : m = CurrentSector(s) OBVIOUS
  <2>4. m \in UpMsg /\ n \in UpMsg /\ m.kind = "CurrentSector" /\ n.kind = "CurrentMap"
    BY <1>0, <2>1, <2>2, <2>3, Sendable DEF Where
  <2>5. up[c] \o Entering(c, s) = Append(up[c], n) \/ up[c] \o Entering(c, s) = Append(Append(up[c], m), n)
    BY <1>0, <2>1, <2>2, <2>3, <2>4, EnteringIs
  <2>6. up'[c] = up[c] \o Entering(c, s) BY <1>0, <2>1
  <2>7. QED BY <1>1, <2>4, <2>5, <2>6 DEF Unsaid
<1>5. CASE NetSendsMap(c)
  <2>1. PICK m : m = CurrentMap(carried[c], "EnteringMap") OBVIOUS
  <2>2. m \in UpMsg /\ HashData \in UpMsg /\ m.kind = "CurrentMap" BY <1>0, <2>1, Sendable
  <2>3. \/ up'[c] = up[c]
        \/ up'[c] = Append(up[c], m)
        \/ up'[c] = Append(Append(up[c], m), HashData)
    BY <1>0, <1>5, <2>1, <2>2, MapSent
  <2>4. QED BY <1>0, <1>1, <2>2, <2>3 DEF Unsaid
<1>6. QED BY <1>1, <1>2, <1>3, <1>4, <1>5 DEF Threads
(* What becomes of a belief. *)
LEMMA BelievedKept ==
  ASSUME NEW c, NEW v, Believed(c, v), Keeps("cheated", "any", up[c], up'[c]),
         OnRecord(c, v) => OnRecord(c, v)', TurnedAround(c, v) => TurnedAround(c, v)'
  PROVE  Believed(c, v)'
BY DEF Believed, Keeps

LEMMA RecordKept ==
  ASSUME NEW c, NEW v, OnRecord(c, v), c \in online', record'[c].cheated = record[c].cheated,
         \A d \in online' \ {c} : Active(d)' =>
           /\ d \in online /\ Active(d)
           /\ Agrees("cheated", d, c, v) => Agrees("cheated", d, c, v)'
  PROVE  OnRecord(c, v)'
BY DEF OnRecord

LEMMA TurnedKept ==
  ASSUME StreamTypeOK, NEW c \in Conn, NEW v, TurnedAround(c, v),
         \/ down'[c] = down[c]
         \/ \E m \in DownMsg : down'[c] = Append(down[c], m)
         \/ \E w \in Seq(DownMsg) : down'[c] = down[c] \o w
  PROVE  TurnedAround(c, v)'
<1>1. PICK s \in Seq(DownMsg) : s = down[c] BY DEF StreamTypeOK
<1>2. PICK x : x = Opposite(v) OBVIOUS
<1>3. \E i \in 1 .. Len(s) : s[i] = x BY <1>1, <1>2 DEF TurnedAround
<1>4. PICK z : z = down'[c] OBVIOUS
<1>5. \E i \in 1 .. Len(z) : z[i] = x BY <1>3, StillThere, <1>1, <1>4
<1>6. Forced(c, v) BY DEF TurnedAround
<1>7. QED BY <1>2, <1>4, <1>5, <1>6 DEF TurnedAround

LEMMA ModeKept ==
  ASSUME NEW c, ModeKnown(c), status'[c] \in {status[c], "left"}, cheat'[c] = cheat[c],
         c \in untold' <=> c \in untold,
         \A v \in BOOLEAN : Active(c)' /\ Believed(c, v) => Believed(c, v)'
  PROVE  ModeKnown(c)'
BY DEF ModeKnown, Due, Active, ToldTo

(* Players and threads. *)
LEMMA ConnectMode ==
  ASSUME TypeOK, Sessions, NEW c \in Conn, ModeKnown(c), Connect(c)
  PROVE  ModeKnown(c)'
<1>1. /\ status[c] = "out" /\ status'[c] = "joining" /\ c \notin untold /\ cheat'[c] = cheat[c]
      /\ up \in [Conn -> Seq(UpMsg)] /\ cheat[c] \in BOOLEAN
  BY DEF Connect, ModeKnown, TypeOK, StreamTypeOK, PlayerTypeOK
<1>2. PICK x \in BOOLEAN : x = (c \in Mod \ Spectator /\ cheat[c]) BY <1>1
<1>3. PICK m : m = LoginRequest(x) OBVIOUS
<1>4. m \in UpMsg /\ Says("cheated", "any", m) /\ m["cheated"] = x
  BY <1>2, <1>3, Sendable DEF LoginRequest, Says
<1>5. PICK s \in Seq(UpMsg) : s = up[c] BY <1>1
<1>6. PICK z : z = Append(s, m) OBVIOUS
<1>7. up'[c] = z
  <2>1. m = LoginRequest(c \in Mod \ Spectator /\ cheat[c]) BY <1>2, <1>3, Zenon
  <2>2. Sends(c, m) BY <2>1 DEF Connect
  <2>3. QED BY <1>1, <1>5, <1>6, <2>2 DEF Sends
<1>8. SaysLast("cheated", "any", z, x) BY <1>4, <1>6, SaysNow
<1>9. ASSUME c \notin Spectator, NEW v \in BOOLEAN, ToldTo(c, v)'
      PROVE  v = x
  BY <1>1, <1>9, <1>2 DEF ToldTo, Connect
<1>10. c \notin Spectator => \A v \in BOOLEAN : ToldTo(c, v)' => Believed(c, v)'
  BY <1>7, <1>8, <1>9 DEF Believed
<1>11. QED BY <1>1, <1>10 DEF ModeKnown, Due

LEMMA ToggleMode ==
  ASSUME TypeOK, Sessions, NEW c \in Conn, ModeKnown(c), ToggleOwnCheat(c)
  PROVE  ModeKnown(c)'
<1>1. /\ status[c] # "left" /\ status' = status /\ UNCHANGED <<record, down, mirror>>
      /\ up \in [Conn -> Seq(UpMsg)] /\ cheat[c] \in BOOLEAN
      /\ status[c] \in {"out", "joining", "in", "left"}
  BY DEF ToggleOwnCheat, serverVars, copyVars, TypeOK, StreamTypeOK, PlayerTypeOK
<1>2. PICK x \in BOOLEAN : x = ~ cheat[c] BY <1>1
<1>3. cheat'[c] = x BY <1>2 DEF ToggleOwnCheat, TypeOK, PlayerTypeOK
<1>4. CASE Tells(c)
  <2>1. PICK m : m = CheatState(x) OBVIOUS
  <2>2. m \in UpMsg /\ Says("cheated", "any", m) /\ m["cheated"] = x
    BY <1>2, <2>1, Sendable DEF CheatState, Says
  <2>3. PICK s \in Seq(UpMsg) : s = up[c] BY <1>1
  <2>4. PICK z : z = Append(s, m) OBVIOUS
  <2>5. up'[c] = z
    <3>1. m = CheatState(~ cheat[c]) BY <1>2, <2>1, Zenon
    <3>2. up' = [up EXCEPT ![c] = Append(@, m)] BY <1>4, <3>1 DEF ToggleOwnCheat
    <3>3. QED BY <1>1, <2>3, <2>4, <3>2
  <2>6. SaysLast("cheated", "any", z, x) BY <2>2, <2>4, SaysNow
  <2>7. c \notin untold' BY <1>4 DEF ToggleOwnCheat
  <2>8. \A v \in BOOLEAN : ToldTo(c, v)' => Believed(c, v)'
    BY <1>3, <2>5, <2>6, <2>7 DEF ToldTo, Believed
  <2>9. QED BY <2>7, <2>8 DEF ModeKnown
<1>5. CASE ~ Tells(c)
  BY <1>5, <1>1, <1>3, <1>2 DEF ToggleOwnCheat, Tells, ModeKnown, Due, Active, ToldTo, Believed,
     OnRecord, TurnedAround, online, Agrees, Shown
<1>6. QED BY <1>4, <1>5

LEMMA MoveCheats ==
  ASSUME TypeOK, Sessions, Cheats, NEW c \in Conn, Acts(c) \/ Threads(c)
  PROVE  Cheats'
<1>1. /\ UNCHANGED <<record, down>>
      /\ \A d \in Conn \ {c} : status'[d] = status[d] /\ up'[d] = up[d] /\ cheat'[d] = cheat[d]
      /\ untold' \ {c} = untold \ {c}
  BY MoveFrame
<1>2. online \subseteq Conn /\ StreamTypeOK /\ up \in [Conn -> Seq(UpMsg)]
  BY EntriesAre DEF TypeOK, ServerTypeOK, Records, online, StreamTypeOK
<1>3. ASSUME NEW b \in Conn, NEW v, Believed(b, v), Keeps("cheated", "any", up[b], up'[b])
      PROVE  Believed(b, v)'
  BY <1>1, <1>2, AgreesMoves, RecordKept, <1>3, BelievedKept DEF online, OnRecord, TurnedAround
<1>4. ASSUME NEW b \in Conn \ {c}
      PROVE  ModeKnown(b)'
  <2>1. PICK s \in Seq(UpMsg) : s = up[b] BY <1>2
  <2>2. Keeps("cheated", "any", up[b], up'[b]) BY <1>1, <2>1, KeepsIs
  <2>3. \A v \in BOOLEAN : Active(b)' /\ Believed(b, v) => Believed(b, v)' BY <1>3, <2>2
  <2>4. ModeKnown(b) /\ status'[b] = status[b] /\ cheat'[b] = cheat[b] /\ (b \in untold' <=> b \in untold)
    BY <1>1 DEF Cheats
  <2>5. QED BY <2>3, <2>4, ModeKept
<1>5. ModeKnown(c)'
  BY ConnectMode, ToggleMode, ActsUnsaid, ThreadsUnsaid, <1>2, UnsaidKeeps, <1>3, ModeKept DEF Cheats,
     Sessions
<1>6. QED BY <1>4, <1>5 DEF Cheats
(* The server hears a mode, or something else. *)
LEMMA RelayCheats ==
  ASSUME TypeOK, Sessions, Cheats, NEW c \in Conn, Relaying(c)
  PROVE  Cheats'
<1>1. PICK h : h = Head(up[c]) OBVIOUS
<1>2. /\ h \in UpMsg /\ c \in online /\ up[c] # <<>> /\ up' = [up EXCEPT ![c] = Tail(@)]
      /\ UNCHANGED <<playerVars, copyVars, threadVars, history>>
      /\ \E S, m : m \in DownMsg /\ down' = Told(down, S, m) /\ Relays(c, h, S, m)
  BY <1>1, RelayTells
<1>3. PICK S, m : m \in DownMsg /\ down' = Told(down, S, m) /\ Relays(c, h, S, m) BY <1>2
<1>4. /\ online \subseteq Conn /\ StreamTypeOK /\ up \in [Conn -> Seq(UpMsg)]
      /\ UNCHANGED <<status, mirror>> /\ cheat' = cheat /\ untold' = untold
  BY <1>2, EntriesAre DEF TypeOK, ServerTypeOK, Records, online, StreamTypeOK, playerVars, copyVars, history
<1>5. online' = online
  BY <1>3 DEF Relays, Idle, Forcing, Cheating, Announcing, Arriving, Advancing, CheatSet, PlaceSet, SectorSet, online
<1>6. ASSUME NEW b \in online, b # c \/ ~ Cheating(c, h, S, m)
      PROVE  /\ record'[b].cheated = record[b].cheated
             /\ \A q : ~ Sets("cheated", q, m, b)
  BY <1>3, <1>6 DEF Relays, Idle, Forcing, Cheating, Announcing, Arriving, Advancing,
                    CheatSet, PlaceSet, SectorSet, online, Sets
<1>7. ASSUME NEW b \in Conn, b # c \/ ~ Cheating(c, h, S, m), NEW v, OnRecord(b, v)
      PROVE  OnRecord(b, v)'
  BY <1>7, <1>6, <1>4, <1>5, <1>3, AgreesSpoken, RecordKept DEF OnRecord, Active
<1>8. ASSUME NEW b \in Conn, NEW v, TurnedAround(b, v)
      PROVE  TurnedAround(b, v)'
  BY <1>3, <1>4, <1>8, TurnedKept DEF Told
<1>9. ASSUME NEW b \in Conn \ {c}
      PROVE  ModeKnown(b)'
  <2>1. up'[b] = up[b] /\ ModeKnown(b) BY <1>2, <1>4 DEF Cheats
  <2>2. PICK s \in Seq(UpMsg) : s = up[b] BY <1>4
  <2>3. Keeps("cheated", "any", up[b], up'[b]) BY <2>1, <2>2, KeepsIs
  <2>4. \A v \in BOOLEAN : Believed(b, v) => Believed(b, v)' BY <1>7, <1>8, <2>3, BelievedKept
  <2>5. status'[b] \in {status[b], "left"} /\ cheat'[b] = cheat[b] /\ (b \in untold' <=> b \in untold)
    BY <1>4
  <2>6. QED BY <2>1, <2>4, <2>5, ModeKept
<1>10. ModeKnown(c)'
  <2>1. PICK s \in Seq(UpMsg) : s = up[c] BY <1>4
  <2>2. PICK z : z = Tail(s) OBVIOUS
  <2>3. up'[c] = z /\ s # <<>> /\ h = Head(s) BY <1>1, <1>2, <1>4, <2>1, <2>2
  <2>4. /\ Silent("cheated", "any", s) => Silent("cheated", "any", z) /\ ~ Says("cheated", "any", h)
        /\ \A v : SaysLast("cheated", "any", s, v) =>
             \/ SaysLast("cheated", "any", z, v)
             \/ Says("cheated", "any", h) /\ h["cheated"] = v /\ Silent("cheated", "any", z)
    BY <2>2, <2>3, SaysTaken
  <2>5. ASSUME NEW v \in BOOLEAN, SaysLast("cheated", "any", s, v)
        PROVE  Believed(c, v)'
    <3>1. CASE SaysLast("cheated", "any", z, v) BY <2>3, <3>1 DEF Believed
    <3>2. CASE Says("cheated", "any", h) /\ h["cheated"] = v /\ Silent("cheated", "any", z)
      <4>1. h.kind \in {"LoginRequest", "CheatState"} /\ h.cheated = v BY <3>2 DEF Says
      <4>2. Forcing(c, h, S, m) \/ Cheating(c, h, S, m)
        BY <1>3, <4>1 DEF Relays, Idle, Announcing, Arriving, Advancing
      <4>3. CASE Forcing(c, h, S, m)
        <5>1. Forced(c, v) /\ down'[c] = Append(down[c], m) /\ m = Opposite(v)
          BY <1>3, <4>1, <4>3 DEF Forcing, Told
        <5>2. PICK r \in Seq(DownMsg) : r = down[c] BY <1>4 DEF StreamTypeOK
        <5>3. Len(r) + 1 \in 1 .. Len(Append(r, m)) /\ Append(r, m)[Len(r) + 1] = m
          BY <1>3, Appended
        <5>4. TurnedAround(c, v)' BY <5>1, <5>2, <5>3 DEF TurnedAround, Forced
        <5>5. QED BY <2>3, <3>2, <5>4 DEF Believed
      <4>4. CASE Cheating(c, h, S, m)
        <5>1. /\ ~ Forced(c, v) /\ S = online /\ m.kind = "OwnedCheatState" /\ m.from = c /\ m.cheated = v
              /\ record'[c].cheated = v
          BY <1>2, <4>1, <4>4 DEF Cheating, CheatSet, online
        <5>2. (\A q : Sets("cheated", q, m, c)) /\ To("cheated", m, c) = v BY <5>1 DEF Sets, To
        <5>3. \A d \in online : Agrees("cheated", d, c, To("cheated", m, c))'
          BY <1>3, <1>4, <5>1, <5>2, AgreesRelayed
        <5>4. OnRecord(c, v)' BY <1>5, <5>2, <5>3, <1>2, <5>1 DEF Forced, OnRecord
        <5>5. QED BY <2>3, <3>2, <5>4 DEF Believed
      <4>5. QED BY <4>2, <4>3, <4>4
    <3>3. QED BY <2>4, <2>5, <3>1, <3>2
  <2>6. ASSUME NEW v \in BOOLEAN, Silent("cheated", "any", s), OnRecord(c, v) \/ TurnedAround(c, v)
        PROVE  Believed(c, v)'
    BY <2>4, <2>6, <1>7, <1>8, <2>3 DEF Says, Cheating, Believed
  <2>7. \A v \in BOOLEAN : Believed(c, v) => Believed(c, v)' BY <2>1, <2>5, <2>6 DEF Believed
  <2>8. ModeKnown(c) /\ status'[c] \in {status[c], "left"} /\ cheat'[c] = cheat[c] /\ (c \in untold' <=> c \in untold)
    BY <1>4 DEF Cheats
  <2>9. QED BY <2>7, <2>8, ModeKept
<1>11. QED BY <1>9, <1>10 DEF Cheats
(* Where nothing is recorded. *)
LEMMA SilentCheats ==
  ASSUME TypeOK, Cheats, UNCHANGED <<status, record>>, cheat' = cheat, untold' = untold,
         \A b \in Conn : Keeps("cheated", "any", up[b], up'[b]),
         \A b \in Conn, d \in online : Active(d)' => \A v :
           Agrees("cheated", d, b, v) => Agrees("cheated", d, b, v)',
         \A b \in Conn : Active(b)' => \A v : TurnedAround(b, v) => TurnedAround(b, v)'
  PROVE  Cheats'
BY EntriesAre, RecordKept, BelievedKept, ModeKept DEF TypeOK, ServerTypeOK, Records, online, OnRecord,
   Active, Cheats

LEMMA HashCheats ==
  ASSUME TypeOK, Sessions, Cheats, NEW c \in Conn, ServerHashes(c)
  PROVE  Cheats'
<1>1. /\ up[c] # <<>> /\ up' = [up EXCEPT ![c] = Tail(@)] /\ Head(up[c]).kind = "HashData"
      /\ UNCHANGED serverVars /\ UNCHANGED <<playerVars, copyVars, threadVars, history>>
  BY DEF ServerHashes, Receives, ServerOnly
<1>2. UNCHANGED <<status, record>> /\ cheat' = cheat /\ untold' = untold
  BY <1>1 DEF serverVars, playerVars, history
<1>3. up \in [Conn -> Seq(UpMsg)] /\ StreamTypeOK /\ online \subseteq Conn
  BY EntriesAre DEF TypeOK, StreamTypeOK, ServerTypeOK, Records, online
<1>4. ASSUME NEW b \in Conn
      PROVE  Keeps("cheated", "any", up[b], up'[b])
  <2>1. PICK s \in Seq(UpMsg) : s = up[b] BY <1>3
  <2>2. CASE b # c BY <1>1, <1>3, <2>1, <2>2, KeepsIs
  <2>3. CASE b = c
    <3>1. PICK h, z : h = Head(s) /\ z = Tail(s) OBVIOUS
    <3>2. s # <<>> /\ up'[c] = z BY <1>1, <1>3, <2>1, <2>3, <3>1
    <3>3. ~ Says("cheated", "any", h) BY <1>1, <2>1, <2>3, <3>1 DEF Says
    <3>4. /\ Silent("cheated", "any", s) => Silent("cheated", "any", z)
          /\ \A v : SaysLast("cheated", "any", s, v) => SaysLast("cheated", "any", z, v)
      BY <3>1, <3>2, <3>3, SaysTaken
    <3>5. QED BY <2>1, <2>3, <3>2, <3>4 DEF Keeps
  <2>4. QED BY <2>2, <2>3
<1>5. \A b \in Conn, d \in online : Active(d)' => \A v :
        Agrees("cheated", d, b, v) => Agrees("cheated", d, b, v)'
  BY <1>3, AgreesWarned
<1>6. ASSUME NEW b \in Conn, NEW v, TurnedAround(b, v)
      PROVE  TurnedAround(b, v)'
  <2>1. PICK n \in 0 .. acts["modified"] :
          down' = [d \in Conn |-> down[d] \o [f \in 1 .. (IF d \in online THEN n ELSE 0) |-> Warning]]
    BY DEF ServerHashes
  <2>2. PICK k \in Nat : k = IF b \in online THEN n ELSE 0
    <3>1. n \in Nat BY <2>1 DEF TypeOK, ActsTypeOK
    <3>2. QED BY <3>1
  <2>3. PICK w : w = [f \in 1 .. k |-> Warning] OBVIOUS
  <2>4. w \in Seq(DownMsg) BY <2>2, <2>3, Tellable
  <2>5. down'[b] = down[b] \o w BY <2>1, <2>2, <2>3
  <2>6. QED BY <1>3, <1>6, <2>4, <2>5, TurnedKept
<1>7. QED BY <1>2, <1>4, <1>5, <1>6, SilentCheats

LEMMA ConsoleCheats ==
  ASSUME TypeOK, Cheats, ConsoleToggleCheat \/ ConsoleBulletin
  PROVE  Cheats'
<1>1. PICK m \in DownMsg : /\ down' = Told(down, online, m)
                           /\ m.kind \in {"CheatToggle", "PermanentNotification"}
  BY ConsoleIs
<1>2. UNCHANGED <<status, record, mirror>> /\ cheat' = cheat /\ untold' = untold /\ up' = up
  BY ConsoleIs DEF playerVars, copyVars, history
<1>3. up \in [Conn -> Seq(UpMsg)] /\ StreamTypeOK /\ online \subseteq Conn
  BY EntriesAre DEF TypeOK, StreamTypeOK, ServerTypeOK, Records, online
<1>4. ASSUME NEW b \in Conn
      PROVE  Keeps("cheated", "any", up[b], up'[b])
  <2>1. PICK s \in Seq(UpMsg) : s = up[b] BY <1>3
  <2>2. QED BY <1>2, <2>1, KeepsIs
<1>5. ASSUME NEW b \in Conn, NEW d \in online, NEW v, Agrees("cheated", d, b, v)
      PROVE  Agrees("cheated", d, b, v)'
  BY <1>1, SetsNothing, <1>2, <1>3, <1>5, AgreesSpoken
<1>6. ASSUME NEW b \in Conn, NEW v, TurnedAround(b, v)
      PROVE  TurnedAround(b, v)'
  BY <1>1, <1>3, <1>6, TurnedKept DEF Told
<1>7. QED BY <1>2, <1>4, <1>5, <1>6, SilentCheats

LEMMA RestCheats ==
  ASSUME TypeOK, Cheats, NEW c \in Conn, StopHandling(c) \/ \E id \in Conn : BallArrives(c, id)
  PROVE  Cheats'
<1>1. UNCHANGED <<status, record>> /\ cheat' = cheat /\ untold' = untold /\ up' = up
  BY DEF StopHandling, BallArrives, serverVars, streamVars, playerVars, history
<1>2. up \in [Conn -> Seq(UpMsg)] /\ down \in [Conn -> Seq(DownMsg)] /\ online \subseteq Conn
  BY EntriesAre DEF TypeOK, StreamTypeOK, ServerTypeOK, Records, online
<1>3. ASSUME NEW b \in Conn
      PROVE  Keeps("cheated", "any", up[b], up'[b])
  <2>1. PICK s \in Seq(UpMsg) : s = up[b] BY <1>2
  <2>2. QED BY <1>1, <2>1, KeepsIs
<1>4. \A b \in Conn, d \in online : Active(d)' => \A v :
        Agrees("cheated", d, b, v) => Agrees("cheated", d, b, v)'
  BY <1>2, AgreesRest
<1>5. ASSUME NEW b \in Conn, Active(b)', NEW v, TurnedAround(b, v)
      PROVE  TurnedAround(b, v)'
  <2>1. PICK z : z = <<>> OBVIOUS
  <2>2. down' = down \/ (status[c] = "left" /\ down' = [down EXCEPT ![c] = z])
    BY <2>1 DEF StopHandling, BallArrives, streamVars
  <2>3. down'[b] = down[b] BY <1>1, <1>2, <1>5, <2>2 DEF Active
  <2>4. QED BY <1>5, <2>3 DEF TurnedAround
<1>6. QED BY <1>1, <1>3, <1>4, <1>5, SilentCheats
(* Somebody comes. *)
LEMMA LoginCheats ==
  ASSUME TypeOK, Sessions, Cheats, NEW c \in Conn, ServerLogin(c)
  PROVE  Cheats'
<1>1. /\ c \notin online /\ up[c] # <<>> /\ up' = [up EXCEPT ![c] = Tail(@)]
      /\ status' = status /\ cheat' = cheat /\ untold' = untold
      /\ online' = online \cup {c} /\ record'[c] = Player(Head(up[c]).cheated, Nowhere)
      /\ \A d \in online : record'[d] = record[d]
  BY LoginIs DEF playerVars, history
<1>2. PICK h : h = Head(up[c]) OBVIOUS
<1>3. PICK ch : ch = Head(up[c]).cheated OBVIOUS
<1>4. PICK x \in BOOLEAN : \A d \in Conn \ {c} :
        \/ d \in online /\ down'[d] = Append(down[d], PlayerConnected(c, x))
        \/ d \notin online /\ down'[d] = down[d]
  BY LoginIs
<1>5. PICK m : m = PlayerConnected(c, x) OBVIOUS
<1>6. m \in DownMsg BY <1>4, <1>5, Tellable
<1>7. /\ online \subseteq Conn /\ StreamTypeOK /\ up \in [Conn -> Seq(UpMsg)]
  BY EntriesAre DEF TypeOK, ServerTypeOK, Records, online, StreamTypeOK
<1>8. /\ h \in UpMsg /\ h.kind = "LoginRequest" /\ ch \in BOOLEAN /\ h.cheated = ch
  BY <1>2, <1>3, Introducing
<1>9. ASSUME NEW b \in Conn \ {c}
      PROVE  ModeKnown(b)'
  <2>1. ModeKnown(b) /\ status'[b] \in {status[b], "left"} /\ cheat'[b] = cheat[b] /\ (b \in untold' <=> b \in untold)
    BY <1>1 DEF Cheats
  <2>2. PICK s \in Seq(UpMsg) : s = up[b] BY <1>7
  <2>3. Keeps("cheated", "any", up[b], up'[b]) BY <1>1, <1>7, <2>2, KeepsIs
  <2>4. ASSUME NEW v, OnRecord(b, v)
        PROVE  OnRecord(b, v)'
    BY <2>4, <1>1, <1>3, AgreesIntroduced, AgreesGreeted DEF OnRecord, Active, Topic, Forced
  <2>5. ASSUME NEW v, TurnedAround(b, v)
        PROVE  TurnedAround(b, v)'
    BY <1>4, <1>5, <1>6, <1>7, <2>5, TurnedKept
  <2>6. \A v \in BOOLEAN : Believed(b, v) => Believed(b, v)' BY <2>3, <2>4, <2>5, BelievedKept
  <2>7. QED BY <2>1, <2>6, ModeKept
<1>10. ModeKnown(c)'
  <2>1. ModeKnown(c) /\ status'[c] \in {status[c], "left"} /\ cheat'[c] = cheat[c] /\ (c \in untold' <=> c \in untold)
    BY <1>1 DEF Cheats
  <2>2. ASSUME Active(c)', NEW v \in BOOLEAN, Believed(c, v)
        PROVE  Believed(c, v)'
    <3>1. Len(down[c]) = 0 BY <1>1, <2>2 DEF Active, Sessions, Requested
    <3>2. PICK s \in Seq(UpMsg) : s = up[c] BY <1>7
    <3>3. PICK z : z = Tail(s) OBVIOUS
    <3>4. up'[c] = z /\ s # <<>> /\ h = Head(s) BY <1>1, <1>2, <1>7, <3>2, <3>3
    <3>5. ~ OnRecord(c, v) /\ ~ TurnedAround(c, v) BY <1>1, <3>1 DEF OnRecord, TurnedAround
    <3>6. SaysLast("cheated", "any", s, v) BY <2>2, <3>2, <3>5 DEF Believed
    <3>7. \/ SaysLast("cheated", "any", z, v)
          \/ Says("cheated", "any", h) /\ h["cheated"] = v /\ Silent("cheated", "any", z)
      BY <3>3, <3>4, <3>6, SaysTaken
    <3>8. CASE SaysLast("cheated", "any", z, v) BY <3>4, <3>8 DEF Believed
    <3>9. CASE h["cheated"] = v /\ Silent("cheated", "any", z)
      <4>1. v = ch BY <1>8, <3>9
      <4>2. CASE Forced(c, ch) BY <1>3, <2>2, <4>2, AgreesGreeted, <3>4, <3>9, <4>1 DEF Believed
      <4>3. CASE ~ Forced(c, ch)
        <5>1. ASSUME NEW d \in online' \ {c}, Active(d)'
              PROVE  Agrees("cheated", d, c, ch)'
          <6>1. d \in online BY <1>1, <5>1
          <6>2. QED BY <1>3, <4>3, <6>1, AgreesIntroduced
        <5>2. c \in online' /\ ~ Forced(c, ch)' BY <1>1, <4>3 DEF Forced
        <5>3. record'[c].cheated = ch BY <1>1, <1>3 DEF Player
        <5>4. OnRecord(c, ch)' BY <5>1, <5>2, <5>3 DEF OnRecord
        <5>5. QED BY <3>4, <3>9, <4>1, <5>4 DEF Believed
      <4>4. QED BY <4>2, <4>3
    <3>10. QED BY <3>7, <3>8, <3>9
  <2>3. QED BY <2>1, <2>2, ModeKept
<1>11. QED BY <1>9, <1>10 DEF Cheats

(* Somebody goes. *)
LEMMA DepartCheats ==
  ASSUME TypeOK, Cheats, NEW c \in Conn, Depart(c)
  PROVE  Cheats'
<1>1. /\ status[c] = "left" /\ status' = status /\ cheat' = cheat /\ untold' = untold
      /\ down' = Told(down, online \ {c}, PlayerDisconnected(c))
  BY DEF Depart, DepartTold, playerVars, history
<1>2. up \in [Conn -> Seq(UpMsg)] /\ StreamTypeOK /\ record \in Records
  BY DEF TypeOK, StreamTypeOK, ServerTypeOK
<1>3. PICK m : m = PlayerDisconnected(c) OBVIOUS
<1>4. m \in DownMsg BY <1>3, Tellable
<1>5. \A b \in Conn \ {c} : up'[b] = up[b]
  <2>1. PICK z : z = <<>> OBVIOUS
  <2>2. up' = [up EXCEPT ![c] = z] BY <2>1 DEF Depart
  <2>3. QED BY <1>2, <2>2
<1>6. /\ online' = online \ {c} /\ \A b \in online \ {c} : record'[b] = record[b]
  BY DEF Depart, Without, online
<1>7. ASSUME NEW b \in Conn \ {c}, NEW v, OnRecord(b, v)
      PROVE  OnRecord(b, v)'
  <2>1. b \in online' /\ record'[b].cheated = record[b].cheated BY <1>6, <1>7 DEF OnRecord
  <2>2. ASSUME NEW d \in online' \ {b}, Active(d)'
        PROVE  /\ d \in online /\ Active(d)
               /\ Agrees("cheated", d, b, v) => Agrees("cheated", d, b, v)'
    <3>1. d \in online' BY <2>2
    <3>2. QED BY <2>2, <3>1, AgreesDeparted
  <2>3. QED BY <1>7, <2>1, <2>2, RecordKept
<1>8. ASSUME NEW b \in Conn, NEW v, TurnedAround(b, v)
      PROVE  TurnedAround(b, v)'
  BY <1>1, <1>3, <1>2, <1>4, <1>8, TurnedKept DEF Told
<1>9. ASSUME NEW b \in Conn \ {c}
      PROVE  ModeKnown(b)'
  <2>1. PICK s \in Seq(UpMsg) : s = up[b] BY <1>2
  <2>2. Keeps("cheated", "any", up[b], up'[b]) BY <1>5, <2>1, KeepsIs
  <2>3. \A v \in BOOLEAN : Believed(b, v) => Believed(b, v)' BY <1>7, <1>8, <2>2, BelievedKept
  <2>4. ModeKnown(b) /\ status'[b] \in {status[b], "left"} /\ cheat'[b] = cheat[b] /\ (b \in untold' <=> b \in untold)
    BY <1>1 DEF Cheats
  <2>5. QED BY <2>3, <2>4, ModeKept
<1>10. ModeKnown(c)' BY <1>1 DEF ModeKnown, Due, Active
<1>11. QED BY <1>9, <1>10 DEF Cheats
(* A client hears something, and answers or not. *)
LEMMA ClientCheats ==
  ASSUME TypeOK, Sessions, Rosters, Cheats, NEW c \in Conn, ClientHandles(c)
  PROVE  Cheats'
<1>1. PICK h : h = Head(down[c]) OBVIOUS
<1>2. /\ StatusAfter(c, h) /\ AnswerAfter(c, h)
      /\ down[c] # <<>> /\ down' = [down EXCEPT ![c] = Tail(@)]
      /\ status[c] \in {"joining", "in", "left"} /\ record' = record
  BY <1>1, HandlingIs DEF serverVars
<1>3. /\ h \in DownMsg
      /\ status[c] = "joining" => h.kind \in {"LoginAccepted", "MapNames"}
  BY <1>1, HandledIn
<1>4. /\ online \subseteq Conn /\ up \in [Conn -> Seq(UpMsg)] /\ down \in [Conn -> Seq(DownMsg)]
      /\ status \in [Conn -> {"out", "joining", "in", "left"}] /\ cheat \in [Conn -> BOOLEAN]
  BY EntriesAre DEF TypeOK, ServerTypeOK, Records, online, StreamTypeOK, PlayerTypeOK
<1>5. online' = online BY <1>2 DEF online
<1>6. \A b \in Conn \ {c} : /\ status'[b] = status[b] /\ cheat'[b] = cheat[b] /\ up'[b] = up[b]
                            /\ down'[b] = down[b] /\ (b \in untold' <=> b \in untold)
  BY <1>2, <1>4 DEF StatusAfter, AnswerAfter
<1>7. ASSUME NEW b \in Conn, NEW v, OnRecord(b, v)
      PROVE  OnRecord(b, v)'
  BY <1>2, <1>5, <1>7, <1>4, AgreesHeard, RecordKept DEF OnRecord, Topic
<1>8. ASSUME NEW b \in Conn \ {c}
      PROVE  ModeKnown(b)'
  <2>1. ModeKnown(b) /\ status'[b] \in {status[b], "left"} /\ cheat'[b] = cheat[b] /\ (b \in untold' <=> b \in untold)
    BY <1>6 DEF Cheats
  <2>2. PICK s \in Seq(UpMsg) : s = up[b] BY <1>4
  <2>3. Keeps("cheated", "any", up[b], up'[b]) BY <1>6, <2>2, KeepsIs
  <2>4. \A v : TurnedAround(b, v) => TurnedAround(b, v)' BY <1>6 DEF TurnedAround
  <2>5. \A v \in BOOLEAN : Believed(b, v) => Believed(b, v)' BY <1>7, <2>3, <2>4, BelievedKept
  <2>6. QED BY <2>1, <2>5, ModeKept
<1>9. PICK s \in Seq(UpMsg) : s = up[c] BY <1>4
<1>10. ModeKnown(c) /\ status'[c] # "out" /\ (Active(c)' => Active(c))
       /\ (status'[c] = "joining" => status[c] = "joining")
  BY <1>2, <1>4 DEF Cheats, StatusAfter, Active
<1>11. ASSUME Answers(c, h)
       PROVE  ModeKnown(c)'
  <2>1. /\ Toggles(h) /\ cheat' = [cheat EXCEPT ![c] = h.cheated] /\ untold' = untold \ {c}
        /\ up' = [up EXCEPT ![c] = Append(@, CheatState(h.cheated))]
    BY <1>2, <1>11 DEF AnswerAfter, Answers
  <2>2. PICK x \in BOOLEAN : x = h.cheated BY <1>3, <2>1, DownFacts DEF Toggles
  <2>3. PICK m : m = CheatState(x) OBVIOUS
  <2>4. m \in UpMsg /\ Says("cheated", "any", m) /\ m["cheated"] = x
    BY <2>2, <2>3, Sendable DEF CheatState, Says
  <2>5. PICK z : z = Append(s, m) OBVIOUS
  <2>6. up'[c] = z BY <1>4, <1>9, <2>1, <2>2, <2>3, <2>5
  <2>7. SaysLast("cheated", "any", z, m["cheated"]) BY <2>4, <2>5, SaysNow
  <2>8. c \notin untold' /\ cheat'[c] = x BY <1>4, <2>1, <2>2
  <2>9. \A v \in BOOLEAN : ToldTo(c, v)' => Believed(c, v)'
    BY <2>4, <2>6, <2>7, <2>8 DEF ToldTo, Believed
  <2>10. QED BY <2>8, <2>9 DEF ModeKnown
<1>12. ASSUME ~ Answers(c, h)
       PROVE  ModeKnown(c)'
  <2>1. /\ untold' = untold
        /\ cheat' = IF Toggles(h) /\ c \notin Spectator THEN [cheat EXCEPT ![c] = h.cheated] ELSE cheat
        /\ \/ up' = up
           \/ h.kind = "RestartRequest" /\ up' = [up EXCEPT ![c] = Append(@, RestartFailed(h.from))]
    BY <1>2, <1>12 DEF AnswerAfter
  <2>2. Keeps("cheated", "any", up[c], up'[c])
    <3>1. CASE up' = up BY <1>9, <3>1, KeepsIs
    <3>2. CASE h.kind = "RestartRequest" /\ up' = [up EXCEPT ![c] = Append(@, RestartFailed(h.from))]
      <4>1. PICK m : m = RestartFailed(h.from) OBVIOUS
      <4>2. m \in UpMsg /\ ~ Says("cheated", "any", m)
        BY <1>3, <3>2, <4>1, DownFacts, Sendable DEF RestartFailed, Says
      <4>3. up'[c] = Append(s, m) BY <1>4, <1>9, <3>2, <4>1
      <4>4. QED BY <1>9, <4>2, <4>3, KeepsIs
    <3>3. QED BY <2>1, <3>1, <3>2
  <2>3. status'[c] = "out" => c \notin untold' BY <1>10
  <2>4. ASSUME Due(c)', NEW v \in BOOLEAN, ToldTo(c, v)'
        PROVE  Believed(c, v)'
    <3>1. c \notin Spectator /\ Active(c) /\ status[c] # "left" /\ (c \notin untold \/ status[c] = "joining")
      BY <1>10, <2>1, <2>4 DEF Due, Active
    <3>2. Toggles(h) => h.cheated = cheat[c] BY <1>12, <3>1 DEF Answers
    <3>3. cheat'[c] = cheat[c] BY <1>4, <2>1, <3>2
    <3>4. ToldTo(c, v) BY <2>1, <2>4, <3>3 DEF ToldTo
    <3>5. Believed(c, v) BY <1>10, <2>4, <3>1, <3>4 DEF ModeKnown, Due
    <3>6. TurnedAround(c, v) => TurnedAround(c, v)'
      <4>1. ASSUME TurnedAround(c, v)
            PROVE  TurnedAround(c, v)'
        <5>1. PICK y : y = Opposite(v) OBVIOUS
        <5>2. PICK r \in Seq(DownMsg) : r = down[c] BY <1>4
        <5>3. r # <<>> /\ h = Head(r) /\ \E i \in 1 .. Len(r) : r[i] = y
          BY <1>1, <1>2, <4>1, <5>1, <5>2 DEF TurnedAround
        <5>4. h # y
          <6>1. SUFFICES ASSUME h = y PROVE FALSE OBVIOUS
          <6>2. Toggles(h) /\ h.cheated = ~ v /\ h.kind = "CheatToggle"
            BY <5>1, <6>1 DEF Opposite, CheatToggle, Toggles
          <6>3. cheat[c] # v BY <2>4, <3>2, <6>2
          <6>4. c \in untold BY <3>4, <6>3 DEF ToldTo
          <6>5. status[c] = "joining" BY <3>1, <6>4
          <6>6. QED BY <1>3, <6>2, <6>5
        <5>5. PICK z : z = Tail(r) OBVIOUS
        <5>6. \E i \in 1 .. Len(z) : z[i] = y BY <5>3, <5>4, <5>5, StillThere, ZenonT(60)
        <5>7. down'[c] = z BY <1>2, <1>4, <5>2, <5>5
        <5>8. Forced(c, v)' BY <4>1 DEF TurnedAround, Forced
        <5>9. QED BY <5>1, <5>6, <5>7, <5>8 DEF TurnedAround
      <4>2. QED BY <4>1
    <3>7. QED BY <1>7, <2>2, <3>5, <3>6, BelievedKept
  <2>5. QED BY <2>3, <2>4 DEF ModeKnown
<1>13. ModeKnown(c)' BY <1>11, <1>12
<1>14. QED BY <1>8, <1>13 DEF Cheats

LEMMA InitCheats == Init => Cheats
BY DEF Init, Cheats, ModeKnown, Due, Active

LEMMA NextCheats ==
  ASSUME TypeOK, Sessions, Rosters, Cheats, [Next]_vars
  PROVE  Cheats'
<1>1. CASE Resting
  <2>1. UNCHANGED <<status, record, mirror>> /\ cheat' = cheat /\ untold' = untold /\ up' = up /\ down' = down
    BY <1>1 DEF Resting, serverVars, streamVars, playerVars, history
  <2>2. ASSUME NEW b \in Conn
        PROVE  Keeps("cheated", "any", up[b], up'[b])
    <3>1. PICK s \in Seq(UpMsg) : s = up[b] BY DEF TypeOK, StreamTypeOK
    <3>2. QED BY <2>1, <3>1, KeepsIs
  <2>3. \A b, d, v : Agrees("cheated", d, b, v) => Agrees("cheated", d, b, v)'
    BY <2>1 DEF Agrees, Shown
  <2>4. \A b, v : TurnedAround(b, v) => TurnedAround(b, v)' BY <2>1 DEF TurnedAround, Forced
  <2>5. QED BY <2>1, <2>2, <2>3, <2>4, SilentCheats
<1>2. CASE Conn # {}
  <2>1. PICK d \in Conn : TRUE BY <1>2
  <2>2. QED
    BY <1>1, StepIs, MoveCheats, RelayCheats, HashCheats, ConsoleCheats, LoginCheats, DepartCheats,
       ClientCheats, RestCheats
<1>3. CASE Conn = {} BY <1>3 DEF Cheats
<1>4. QED BY <1>2, <1>3

(* At rest everything has been said and heard. *)
LEMMA AtQuiet ==
  ASSUME TypeOK, Sessions, quiet, NEW c \in Logged
  PROVE  /\ c \in online /\ c \in Conn /\ Active(c)
         /\ \A t, q, v : ~ SaysLast(t, q, up[c], v)
         /\ \A t, e, v : Agrees(t, c, e, v) => e \in DOMAIN mirror[c] /\ mirror[c][e][t] = v
<1>1. c \in Conn /\ status[c] = "in" /\ Active(c) /\ up[c] = <<>> /\ down[c] = <<>>
  BY DEF Logged, quiet, Active
<1>2. c \in online BY <1>1 DEF Sessions, Requested, Stage
<1>3. Len(<<>>) = 0 OBVIOUS
<1>4. \A t, q, v : ~ SaysLast(t, q, up[c], v) BY <1>1, <1>3 DEF SaysLast
<1>5. ASSUME NEW t, NEW e, NEW v, Agrees(t, c, e, v)
      PROVE  e \in DOMAIN mirror[c] /\ mirror[c][e][t] = v
  BY <1>1, <1>3, <1>5 DEF Agrees, Ends, SetsLast, Shown
<1>6. QED BY <1>1, <1>2, <1>4, <1>5

LEMMA CheatsAreRight == TypeOK /\ Sessions /\ Cheats => CheatsKnown
<1> SUFFICES ASSUME TypeOK, Sessions, Cheats, quiet, NEW c \in Logged \ (untold \cup Spectator)
             PROVE  /\ record[c].cheated = cheat[c]
                    /\ \A d \in Logged \ {c} : mirror[d][c].cheated = cheat[c]
                    /\ forced_cheat[c] \subseteq {cheat[c]}
  BY DEF CheatsKnown
<1>1. /\ c \in online /\ c \in Conn /\ Active(c)
      /\ \A t, q, v : ~ SaysLast(t, q, up[c], v)
  BY AtQuiet
<1>2. cheat[c] \in BOOLEAN BY <1>1 DEF TypeOK, PlayerTypeOK
<1>3. PICK v \in BOOLEAN : v = cheat[c] BY <1>2
<1>4. Believed(c, v) BY <1>1, <1>3 DEF Cheats, Due, ToldTo, ModeKnown
<1>5. ~ TurnedAround(c, v) BY <1>1 DEF quiet, TurnedAround
<1>6. OnRecord(c, v) BY <1>1, <1>4, <1>5 DEF Believed
<1>7. ASSUME NEW d \in Logged \ {c}
      PROVE  mirror[d][c].cheated = v
  BY <1>7, AtQuiet, <1>6 DEF OnRecord
<1>8. forced_cheat[c] \subseteq {v} BY <1>1, <1>6, AnnouncementsAssumption DEF OnRecord, Forced
<1>9. record[c].cheated = v BY <1>6 DEF OnRecord
<1>10. QED BY <1>3, <1>7, <1>8, <1>9

(* At rest the server and everybody else have the cheat mode that a player *)
(* has who is no spectator, and it is not the opposite of a mode forced on *)
(* them, however toggles, forced toggles and answers crossed on the way.   *)
THEOREM CheatsAreKnown == Spec => []CheatsKnown
<1>1. TypeOK /\ Sessions /\ Cheats => CheatsKnown BY CheatsAreRight
<1>2. Init => TypeOK /\ Sessions /\ Rosters /\ Cheats BY InitKnown, InitCheats
<1>3. TypeOK /\ Sessions /\ Rosters /\ Cheats /\ [Next]_vars
        => TypeOK' /\ Sessions' /\ Rosters' /\ Cheats'
  BY NextKnown, NextCheats
<1>4. QED BY <1>1, <1>2, <1>3, PTL DEF Spec
-----------------------------------------------------------------------------
(* Places.                                                                 *)

(* What says a place, and what does not. *)
LEMMA PlacesSaid ==
  /\ \A t \in {"map", "sector"} : \A q, m : m.kind \notin {"CurrentMap", "CurrentSector"} => ~ Says(t, q, m)
  /\ \A t \in {"map", "sector"} : \A q, p, m :
       m = CurrentMap(p, "EnteringMap") => Says(t, q, m) /\ m[t] = p[t]
  /\ \A t \in {"map", "sector"} : \A p, m : m = CurrentMap(p, "Announcement") =>
       Says(t, "any", m) /\ m[t] = p[t] /\ ~ Says(t, "entering", m)
  /\ \A q, s, m : m = CurrentSector(s) =>
       Says("sector", q, m) /\ m["sector"] = s /\ ~ Says("map", q, m)
BY DEF Says, Places, CurrentMap, CurrentSector

(* Everybody is still told, or is told now. *)
LEMMA FollowedStep ==
  ASSUME NEW t, NEW c, NEW v,
         \A q \in Ear : \/ SaysLast(t, q, up'[c], v)
                        \/ Keeps(t, q, up[c], up'[c]) /\ Followed(t, c, v),
         record'[c][t] = record[c][t],
         \A d \in online' \ {c} : Active(d)' =>
           /\ d \in online /\ Active(d)
           /\ Agrees(t, d, c, v) => Agrees(t, d, c, v)'
  PROVE  Followed(t, c, v)'
<1>1. ASSUME NEW q \in Ear
      PROVE  OnServer(t, q, c, v)'
  BY <1>1 DEF OnServer, Followed, Keeps
<1>2. ASSUME NEW d \in online' \ {c}, Active(d)'
      PROVE  WithOther(t, d, c, v)'
  <2>1. PICK q \in Ear : q = Of(d) BY DEF Ear, Of
  <2>2. CASE SaysLast(t, q, up'[c], v) BY <2>1, <2>2 DEF WithOther
  <2>3. CASE Keeps(t, q, up[c], up'[c]) /\ Followed(t, c, v)
    BY <1>2, <2>3, <2>1 DEF Followed, WithOther, Keeps
  <2>4. QED BY <2>1, <2>2, <2>3
<1>3. QED BY <1>1, <1>2 DEF Followed

(* What a player or thread does to a player's place: it is where it was, or *)
(* that is said last.                                                      *)
Stands(t, q, c) ==
  \/ SaysLast(t, q, up'[c], place'[c][t])
  \/ Keeps(t, q, up[c], up'[c]) /\ AtRest(c) /\ place'[c][t] = place[c][t]

LEMMA ActsStand ==
  ASSUME TypeOK, NEW c \in Conn, status[c] # "out", InSession(c), Unplaced(c), Acts(c), AtRest(c)'
  PROVE  \A t \in {"map", "sector"}, q \in Ear : Stands(t, q, c)
<1>0. /\ up \in [Conn -> Seq(UpMsg)] /\ up[c] \in Seq(UpMsg) /\ place \in [Conn -> Where]
      /\ place[c] \in Where /\ status \in [Conn -> {"out", "joining", "in", "left"}]
      /\ game \in [Conn -> {"idle", "loaded", "name", "sector"}]
  BY DEF TypeOK, StreamTypeOK, PlayerTypeOK, ThreadTypeOK
<1>1. PICK s \in Seq(UpMsg) : s = up[c] BY <1>0
<1>2. CASE \/ ToggleOwnCheat(c) \/ ToggleCheats(c) \/ SetBulletin(c) \/ Say(c) \/ Notify(c)
           \/ QueryScores(c) \/ Address(c)
  <2>1. /\ status' = status /\ UNCHANGED threadVars /\ overtaken' = overtaken /\ place' = place
    BY <1>2 DEF ToggleOwnCheat, ToggleCheats, SetBulletin, Say, Notify, QueryScores, Address,
                playerVars, history
  <2>2. AtRest(c) BY <2>1 DEF AtRest, Active, threadVars
  <2>3. up'[c] = s \/ \E m \in UpMsg : m.kind \notin {"CurrentMap", "CurrentSector"} /\ up'[c] = Append(s, m)
    <3>1. \A d \in DOMAIN mirror[c] : d \in Conn BY EntriesAre DEF TypeOK, CopyTypeOK
    <3>2. CASE ToggleOwnCheat(c)
      <4>1. PICK m : m = CheatState(~ cheat[c]) OBVIOUS
      <4>2. m \in UpMsg /\ m.kind = "CheatState"
        BY <4>1, Sendable DEF TypeOK, PlayerTypeOK, CheatState
      <4>3. up' = up \/ up' = [up EXCEPT ![c] = Append(@, m)] BY <3>2, <4>1 DEF ToggleOwnCheat
      <4>4. QED BY <1>0, <1>1, <4>2, <4>3
    <3>3. CASE ~ ToggleOwnCheat(c)
      BY <1>2, <3>1, <3>3, Sendable, <1>0, <1>1 DEF ToggleCheats, SetBulletin, Say, Notify, QueryScores,
         Address, CheatToggle, Bulletin, Said, Important, ScoreList, Whispered, RestartRequest, Sends
    <3>4. QED BY <3>2, <3>3
  <2>4. \A t \in {"map", "sector"} : \A q : Keeps(t, q, s, up'[c])
    <3>1. ASSUME NEW t \in {"map", "sector"}, NEW q
          PROVE  Keeps(t, q, s, up'[c])
      <4>1. \A m \in UpMsg : m.kind \notin {"CurrentMap", "CurrentSector"} => ~ Says(t, q, m)
        BY <3>1, PlacesSaid
      <4>2. CASE up'[c] = s BY <1>1, <4>2, KeepsIs
      <4>3. ASSUME NEW m \in UpMsg, m.kind \notin {"CurrentMap", "CurrentSector"}, up'[c] = Append(s, m)
            PROVE  Keeps(t, q, s, up'[c])
        BY <1>1, <4>1, <4>3, KeepsIs
      <4>4. QED BY <2>3, <4>2, <4>3
    <3>2. QED BY <3>1
  <2>5. QED BY <1>1, <2>1, <2>2, <2>4 DEF Stands
<1>3. CASE AnnounceMap(c)
  <2>1. /\ status' = status /\ UNCHANGED threadVars /\ overtaken' = overtaken /\ place' = place
        /\ Sends(c, CurrentMap(place[c], "Announcement"))
    BY <1>3 DEF AnnounceMap, playerVars
  <2>2. AtRest(c) BY <2>1 DEF AtRest, Active, threadVars
  <2>3. PICK m : m = CurrentMap(place[c], "Announcement") OBVIOUS
  <2>4. m \in UpMsg BY <1>0, <2>3, Sendable
  <2>5. PICK z : z = Append(s, m) OBVIOUS
  <2>6. up'[c] = z BY <1>0, <1>1, <2>1, <2>3, <2>5 DEF Sends
  <2>7. \A t \in {"map", "sector"} : Says(t, "any", m) /\ m[t] = place[c][t] /\ ~ Says(t, "entering", m)
    BY <2>3, PlacesSaid
  <2>8. ASSUME NEW t \in {"map", "sector"}
        PROVE  Stands(t, "any", c) /\ Stands(t, "entering", c)
    BY <2>4, <2>5, <2>7, SaysNow, KeepsIs, <1>1, <2>1, <2>2, <2>6 DEF Stands
  <2>9. QED BY <2>8 DEF Ear
<1>4. CASE ChangeSector(c)
  <2>1. PICK r \in Sector : /\ place' = [place EXCEPT ![c].sector = r]
                            /\ IF status[c] = "in" THEN Sends(c, CurrentSector(r)) ELSE UNCHANGED up
    BY <1>4 DEF ChangeSector
  <2>2. /\ status' = status /\ UNCHANGED threadVars /\ place[c].map # NoMap /\ status[c] # "left"
        /\ overtaken' = IF net[c] = "assembled" THEN overtaken \cup {c} ELSE overtaken
    BY <1>4 DEF ChangeSector
  <2>3. status[c] = "in" BY <2>2, <1>0 DEF AtRest, Unplaced, Nowhere
  <2>4. AtRest(c) BY <2>2 DEF AtRest, Active, threadVars
  <2>5. PICK m : m = CurrentSector(r) OBVIOUS
  <2>6. m \in UpMsg BY <2>1, <2>5, Sendable
  <2>7. PICK z : z = Append(s, m) OBVIOUS
  <2>8. up'[c] = z BY <1>0, <1>1, <2>1, <2>3, <2>5, <2>7 DEF Sends
  <2>9. place'[c].map = place[c].map /\ place'[c].sector = r BY <1>0, <2>1 DEF Where
  <2>10. ASSUME NEW q
         PROVE  Stands("map", q, c) /\ Stands("sector", q, c)
    <3>1. Says("sector", q, m) /\ m["sector"] = r /\ ~ Says("map", q, m) BY <2>5, PlacesSaid
    <3>2. SaysLast("sector", q, z, m["sector"]) BY <2>6, <2>7, <3>1, SaysNow
    <3>3. Keeps("map", q, s, z) BY <2>6, <2>7, <3>1, KeepsIs
    <3>4. QED BY <1>1, <2>4, <2>8, <2>9, <3>1, <3>2, <3>3 DEF Stands
  <2>11. QED BY <2>10
<1>5. CASE SetMap(c)
  <2>1. PICK x \in Map, withName \in BOOLEAN :
          /\ place' = [place EXCEPT ![c] = [map |-> x, sector |-> 0]]
          /\ up' = [up EXCEPT ![c] = (IF withName THEN Append(@, MapNames({x})) ELSE @)
                                     \o <<CurrentMap([map |-> x, sector |-> 0], "EnteringMap")>>]
    BY <1>5 DEF SetMap
  <2>2. PICK p : p = [map |-> x, sector |-> 0] OBVIOUS
  <2>3. PICK m, n : m = MapNames({x}) /\ n = CurrentMap(p, "EnteringMap") OBVIOUS
  <2>4. p \in Where /\ m \in UpMsg /\ n \in UpMsg
    <3>1. p \in Where BY <2>1, <2>2, AnnouncementsAssumption DEF Where
    <3>2. QED BY <2>1, <2>3, <3>1, Sendable
  <2>5. PICK r \in Seq(UpMsg) : r = IF withName THEN Append(s, m) ELSE s BY <2>4, Appended
  <2>6. PICK z : z = Append(r, n) OBVIOUS
  <2>7. up'[c] = z
    <3>1. up'[c] = r \o <<n>> BY <1>0, <1>1, <2>1, <2>2, <2>3, <2>5
    <3>2. QED BY <2>4, <2>6, <3>1, Appended
  <2>8. place'[c] = p BY <1>0, <2>1, <2>2
  <2>9. ASSUME NEW t \in {"map", "sector"}, NEW q
        PROVE  Stands(t, q, c)
    <3>1. Says(t, q, n) /\ n[t] = p[t] BY <2>3, PlacesSaid
    <3>2. SaysLast(t, q, z, n[t]) BY <2>4, <2>6, <3>1, SaysNow
    <3>3. QED BY <2>7, <2>8, <3>1, <3>2 DEF Stands
  <2>10. QED BY <2>9
<1>6. CASE Connect(c) \/ LoadLevel(c) \/ Leave(c) \/ EndGame(c)
  BY <1>0, <1>6 DEF Connect, LoadLevel, Leave, EndGame, GoesOffline, AtRest, Active
<1>7. QED BY <1>2, <1>3, <1>4, <1>5, <1>6 DEF Acts
LEMMA ThreadsStand ==
  ASSUME TypeOK, NEW c \in Conn, InSession(c), Carrying(c), Threads(c), AtRest(c)'
  PROVE  \A t \in {"map", "sector"}, q \in Ear : Stands(t, q, c)
<1>0. /\ up \in [Conn -> Seq(UpMsg)] /\ up[c] \in Seq(UpMsg) /\ place \in [Conn -> Where]
      /\ place[c] \in Where /\ carried[c] \in Where /\ status \in [Conn -> {"out", "joining", "in", "left"}]
      /\ game \in [Conn -> {"idle", "loaded", "name", "sector"}]
      /\ net \in [Conn -> {"poll", "logged in", "named", "assembled"}]
  BY DEF TypeOK, StreamTypeOK, PlayerTypeOK, ThreadTypeOK
<1>1. PICK s \in Seq(UpMsg) : s = up[c] BY <1>0
<1>2. CASE EnterName(c) \/ SendName(c) \/ NetSendsName(c) \/ Assemble(c)
  BY <1>0, <1>2 DEF EnterName, InSession, playerVars, AtRest, SendName, NetSendsName, Assemble
<1>3. CASE SendPlace(c)
  <2>1. PICK r \in Sector : /\ place' = [place EXCEPT ![c].sector = r]
                            /\ up' = [up EXCEPT ![c] = @ \o Entering(c, r)]
    BY <1>3 DEF SendPlace
  <2>2. PICK p : p = [place[c] EXCEPT !.sector = r] OBVIOUS
  <2>3. PICK n : n = CurrentMap(p, "EnteringMap") OBVIOUS
  <2>4. PICK m : m = CurrentSector(r) OBVIOUS
  <2>5. m \in UpMsg /\ n \in UpMsg /\ p \in Where
    <3>1. p \in Where BY <1>0, <2>1, <2>2 DEF Where
    <3>2. QED BY <2>1, <2>3, <2>4, <3>1, Sendable
  <2>6. s \o Entering(c, r) = Append(s, n) \/ s \o Entering(c, r) = Append(Append(s, m), n)
    BY <2>2, <2>3, <2>5, <2>1, <2>4, EnteringIs
  <2>7. PICK y \in Seq(UpMsg) : up'[c] = Append(y, n) BY <1>0, <1>1, <2>1, <2>6, <2>5, Appended
  <2>8. place'[c] = p BY <1>0, <2>1, <2>2 DEF Where
  <2>9. ASSUME NEW t \in {"map", "sector"}, NEW q
        PROVE  Stands(t, q, c)
    <3>1. Says(t, q, n) /\ n[t] = p[t] BY <2>3, PlacesSaid
    <3>2. PICK z : z = up'[c] OBVIOUS
    <3>3. SaysLast(t, q, z, n[t]) BY <2>5, <2>7, <3>1, <3>2, SaysNow
    <3>4. QED BY <2>8, <3>1, <3>2, <3>3 DEF Stands
  <2>10. QED BY <2>9
<1>4. CASE NetSendsMap(c)
  <2>1. status' = status /\ place' = place /\ overtaken' = overtaken /\ net[c] = "assembled" /\ c \in Mod
    BY <1>4 DEF NetSendsMap, playerVars, history, InSession
  <2>2. status[c] = "in" /\ carried[c] = place[c] BY <2>1 DEF AtRest, Carrying
  <2>3. PICK n : n = CurrentMap(carried[c], "EnteringMap") OBVIOUS
  <2>4. n \in UpMsg /\ HashData \in UpMsg /\ HashData.kind = "HashData"
    BY <1>0, <2>3, Sendable DEF HashData
  <2>5. PICK y \in Seq(UpMsg) : y = Append(s, n) BY <2>4, Appended
  <2>6. PICK z : z = Append(y, HashData) OBVIOUS
  <2>7. up'[c] \in {y, z}
    <3>1. up'[c] = Append(up[c], n) \/ up'[c] = Append(Append(up[c], n), HashData)
      <4>1. n \in UpMsg BY <2>4
      <4>2. up \in [Conn -> Seq(UpMsg)] BY <1>0
      <4>3. \/ status[c] # "in"
            \/ up' = [up EXCEPT ![c] = Append(@, n)]
            \/ up' = [up EXCEPT ![c] = Append(Append(@, n), HashData)]
        BY <1>4, <2>3, <4>1, <4>2, MapSent
      <4>4. QED BY <2>2, <4>2, <4>3
    <3>2. QED BY <1>1, <2>5, <2>6, <3>1
  <2>8. ASSUME NEW t \in {"map", "sector"}, NEW q
        PROVE  Stands(t, q, c)
    <3>1. Says(t, q, n) /\ n[t] = carried[c][t] BY <2>3, PlacesSaid
    <3>2. SaysLast(t, q, y, n[t]) BY <2>4, <2>5, <3>1, SaysNow
    <3>3. ~ Says(t, q, HashData) BY <2>4, PlacesSaid
    <3>4. SaysLast(t, q, z, n[t]) BY <2>4, <2>6, <3>2, <3>3, SaysKept
    <3>5. QED BY <2>1, <2>2, <2>7, <3>1, <3>2, <3>4 DEF Stands
  <2>9. QED BY <2>8
<1>5. QED BY <1>2, <1>3, <1>4 DEF Threads

(* Headless clients are nowhere before they are in; what is carried is the  *)
(* player's place.                                                         *)
LEMMA MoveCarries ==
  ASSUME TypeOK, NEW c \in Conn, InSession(c), Unplaced(c), Carrying(c), Acts(c) \/ Threads(c)
  PROVE  Unplaced(c)' /\ Carrying(c)'
<1>0. /\ status \in [Conn -> {"out", "joining", "in", "left"}] /\ place \in [Conn -> Where]
      /\ net \in [Conn -> {"poll", "logged in", "named", "assembled"}] /\ carried \in [Conn -> Where]
  BY DEF TypeOK, PlayerTypeOK, ThreadTypeOK
<1>1. CASE \/ ToggleOwnCheat(c) \/ ToggleCheats(c) \/ SetBulletin(c) \/ Say(c) \/ Notify(c)
           \/ QueryScores(c) \/ Address(c) \/ AnnounceMap(c) \/ EnterName(c) \/ SendName(c)
  BY <1>1 DEF ToggleOwnCheat, ToggleCheats, SetBulletin, Say, Notify, QueryScores, Address, AnnounceMap,
     EnterName, SendName, playerVars, threadVars, history, Unplaced, Carrying
<1>2. CASE Connect(c) BY <1>2 DEF Connect, threadVars, Unplaced, Carrying
<1>3. CASE ChangeSector(c) BY <1>3 DEF ChangeSector, threadVars, Unplaced, Nowhere, Carrying
<1>4. CASE SetMap(c) BY <1>4 DEF SetMap, threadVars, InSession, Unplaced, Carrying
<1>5. CASE LoadLevel(c) \/ SendPlace(c)
  BY <1>5 DEF LoadLevel, SendPlace, InSession, Unplaced, Carrying
<1>6. CASE Leave(c) \/ EndGame(c)
  BY <1>0, <1>6 DEF Leave, EndGame, GoesOffline, history, Unplaced, Carrying
<1>7. CASE NetSendsName(c) \/ Assemble(c) \/ NetSendsMap(c)
  BY <1>7, <1>0, ZenonT(60) DEF NetSendsName, Assemble, NetSendsMap, playerVars, Unplaced, Carrying
<1>8. QED BY <1>1, <1>2, <1>3, <1>4, <1>5, <1>6, <1>7 DEF Acts, Threads

LEMMA MovePlaces ==
  ASSUME TypeOK, Sessions, Whereabouts, NEW c \in Conn, Acts(c) \/ Threads(c)
  PROVE  Whereabouts'
<1>1. /\ record' = record
      /\ \A d \in Conn \ {c} : /\ status'[d] = status[d] /\ up'[d] = up[d] /\ game'[d] = game[d]
                               /\ net'[d] = net[d] /\ place'[d] = place[d] /\ carried'[d] = carried[d]
      /\ overtaken' \ {c} = overtaken \ {c}
  BY MoveFrame
<1>2. online' = online /\ online \subseteq Conn /\ up \in [Conn -> Seq(UpMsg)]
  BY <1>1, EntriesAre DEF TypeOK, ServerTypeOK, Records, online, StreamTypeOK
<1>3. ASSUME NEW b \in Conn
      PROVE  Unplaced(b)' /\ Carrying(b)'
  BY MoveCarries, <1>1 DEF Sessions, Whereabouts, Unplaced, Carrying
<1>4. ASSUME NEW b \in online, NEW t, NEW d \in online' \ {b}, Active(d)', NEW v
      PROVE  /\ d \in online /\ Active(d)
             /\ Agrees(t, d, b, v) => Agrees(t, d, b, v)'
  BY <1>2, <1>4, AgreesMoves
<1>5. ASSUME NEW b \in online, AtRest(b)', NEW t \in {"map", "sector"}
      PROVE  Followed(t, b, place[b][t])'
  <2>1. \A q \in Ear : Stands(t, q, b)
    <3>1. CASE b = c
      BY <3>1, <1>5, ActsStand, ThreadsStand DEF Sessions, Whereabouts, Requested, Stage
    <3>2. CASE b # c
      <4>1. PICK s \in Seq(UpMsg) : s = up[b] BY <1>2
      <4>2. \A q : Keeps(t, q, up[b], up'[b]) BY <1>1, <1>2, <3>2, <4>1, KeepsIs
      <4>3. AtRest(b) BY <1>1, <1>2, <1>5, <3>2 DEF AtRest, Active
      <4>4. place'[b] = place[b] BY <1>1, <1>2, <3>2
      <4>5. QED BY <4>2, <4>3, <4>4 DEF Stands
    <3>3. QED BY <3>1, <3>2
  <2>2. PICK v : v = place'[b][t] OBVIOUS
  <2>3. \A q \in Ear : SaysLast(t, q, up'[b], v) \/ (Keeps(t, q, up[b], up'[b]) /\ Followed(t, b, v))
    BY <2>1, <2>2 DEF Whereabouts, Settled, Stands
  <2>4. Followed(t, b, v)' BY <1>4, <1>1, <2>3, FollowedStep
  <2>5. QED BY <2>2, <2>4
<1>6. ASSUME NEW b \in online
      PROVE  Settled(b)'
  BY <1>5 DEF Settled
<1>7. QED BY <1>2, <1>3, <1>6 DEF Whereabouts
(* Where nothing is recorded and nobody moves. *)
LEMMA SilentPlaces ==
  ASSUME TypeOK, Whereabouts, UNCHANGED <<record, place, carried, overtaken>>,
         \A b \in Conn : /\ status'[b] \in {"out", "joining"} => status[b] \in {"out", "joining"}
                         /\ net'[b] = "assembled" => net[b] = "assembled",
         \A b \in online : AtRest(b)' =>
           AtRest(b) /\ \A t \in {"map", "sector"}, q \in Ear : Keeps(t, q, up[b], up'[b]),
         \A d \in online : Active(d)' =>
           Active(d) /\ \A t \in {"map", "sector"}, b \in online \ {d} : \A v :
                          Agrees(t, d, b, v) => Agrees(t, d, b, v)'
  PROVE  Whereabouts'
<1>1. online' = online /\ online \subseteq Conn
  BY EntriesAre DEF TypeOK, ServerTypeOK, Records, online
<1>2. ASSUME NEW b \in Conn
      PROVE  Unplaced(b)' /\ Carrying(b)'
  BY DEF Whereabouts, Unplaced, Carrying
<1>3. ASSUME NEW b \in online, AtRest(b)', NEW t \in {"map", "sector"}
      PROVE  Followed(t, b, place[b][t])'
  <2>1. AtRest(b) /\ \A q \in Ear : Keeps(t, q, up[b], up'[b]) BY <1>3
  <2>2. PICK v : v = place[b][t] OBVIOUS
  <2>3. Followed(t, b, v) BY <1>3, <2>1, <2>2 DEF Whereabouts, Settled
  <2>4. ASSUME NEW d \in online' \ {b}, Active(d)'
        PROVE  /\ d \in online /\ Active(d)
               /\ Agrees(t, d, b, v) => Agrees(t, d, b, v)'
    BY <1>1, <1>3, <2>4
  <2>5. record'[b][t] = record[b][t] OBVIOUS
  <2>6. Followed(t, b, v)' BY <2>1, <2>3, <2>4, <2>5, FollowedStep
  <2>7. QED BY <2>2, <2>6
<1>4. ASSUME NEW b \in online
      PROVE  Settled(b)'
  BY <1>3 DEF Settled
<1>5. QED BY <1>1, <1>2, <1>4 DEF Whereabouts

LEMMA HashPlaces ==
  ASSUME TypeOK, Sessions, Whereabouts, NEW c \in Conn, ServerHashes(c)
  PROVE  Whereabouts'
<1>1. /\ up[c] # <<>> /\ up' = [up EXCEPT ![c] = Tail(@)] /\ Head(up[c]).kind = "HashData"
      /\ UNCHANGED serverVars /\ UNCHANGED <<playerVars, copyVars, threadVars, history>>
  BY DEF ServerHashes, Receives, ServerOnly
<1>2. UNCHANGED <<record, place, carried, overtaken>> /\ UNCHANGED <<status, game, net>>
  BY <1>1 DEF serverVars, playerVars, threadVars, history
<1>3. up \in [Conn -> Seq(UpMsg)] /\ online \subseteq Conn
  BY EntriesAre DEF TypeOK, StreamTypeOK, ServerTypeOK, Records, online
<1>4. ASSUME NEW b \in Conn, NEW t \in {"map", "sector"}, NEW q
      PROVE  Keeps(t, q, up[b], up'[b])
  <2>1. PICK s \in Seq(UpMsg) : s = up[b] BY <1>3
  <2>2. CASE b # c BY <1>1, <1>3, <2>1, <2>2, KeepsIs
  <2>3. CASE b = c
    <3>1. PICK h, z : h = Head(s) /\ z = Tail(s) OBVIOUS
    <3>2. s # <<>> /\ up'[c] = z BY <1>1, <1>3, <2>1, <2>3, <3>1
    <3>3. ~ Says(t, q, h)
      <4>1. h.kind = "HashData" BY <1>1, <2>1, <2>3, <3>1
      <4>2. QED BY <4>1, PlacesSaid
    <3>4. /\ Silent(t, q, s) => Silent(t, q, z)
          /\ \A v : SaysLast(t, q, s, v) => SaysLast(t, q, z, v)
      BY <3>1, <3>2, <3>3, SaysTaken
    <3>5. QED BY <2>1, <2>3, <3>2, <3>4 DEF Keeps
  <2>4. QED BY <2>2, <2>3
<1>5. ASSUME NEW d \in online, Active(d)'
      PROVE  Active(d) /\ \A t, b, v : Agrees(t, d, b, v) => Agrees(t, d, b, v)'
  BY <1>2, <1>5, <1>3, AgreesWarned DEF Active
<1>6. \A b \in online : AtRest(b)' =>
        AtRest(b) /\ \A t \in {"map", "sector"}, q \in Ear : Keeps(t, q, up[b], up'[b])
  BY <1>2, <1>3, <1>4 DEF AtRest, Active
<1>7. \A b \in Conn : /\ status'[b] \in {"out", "joining"} => status[b] \in {"out", "joining"}
                      /\ net'[b] = "assembled" => net[b] = "assembled"
  BY <1>2
<1>8. QED BY <1>2, <1>5, <1>6, <1>7, SilentPlaces

LEMMA ConsolePlaces ==
  ASSUME TypeOK, Whereabouts, ConsoleToggleCheat \/ ConsoleBulletin
  PROVE  Whereabouts'
<1>1. PICK m \in DownMsg : /\ down' = Told(down, online, m)
                           /\ m.kind \in {"CheatToggle", "PermanentNotification"}
  BY ConsoleIs
<1>2. UNCHANGED <<record, place, carried, overtaken>> /\ UNCHANGED <<status, game, net, up>> /\ mirror' = mirror
  BY ConsoleIs DEF playerVars, copyVars, threadVars, history
<1>3. up \in [Conn -> Seq(UpMsg)] /\ online \subseteq Conn /\ StreamTypeOK
  BY EntriesAre DEF TypeOK, StreamTypeOK, ServerTypeOK, Records, online
<1>4. ASSUME NEW b \in Conn, NEW t, NEW q
      PROVE  Keeps(t, q, up[b], up'[b])
  <2>1. PICK s \in Seq(UpMsg) : s = up[b] BY <1>3
  <2>2. QED BY <1>2, <2>1, KeepsIs
<1>5. ASSUME NEW d \in online, Active(d)'
      PROVE  Active(d) /\ \A t, b, v : Agrees(t, d, b, v) => Agrees(t, d, b, v)'
  BY <1>2, <1>5, <1>1, SetsNothing, <1>3, AgreesSpoken DEF Active
<1>6. \A b \in online : AtRest(b)' =>
        AtRest(b) /\ \A t \in {"map", "sector"}, q \in Ear : Keeps(t, q, up[b], up'[b])
  BY <1>2, <1>3, <1>4 DEF AtRest, Active
<1>7. \A b \in Conn : /\ status'[b] \in {"out", "joining"} => status[b] \in {"out", "joining"}
                      /\ net'[b] = "assembled" => net[b] = "assembled"
  BY <1>2
<1>8. QED BY <1>2, <1>5, <1>6, <1>7, SilentPlaces

LEMMA RestPlaces ==
  ASSUME TypeOK, Whereabouts, NEW c \in Conn, StopHandling(c) \/ \E id \in Conn : BallArrives(c, id)
  PROVE  Whereabouts'
<1>1. UNCHANGED <<record, place, carried, overtaken>> /\ UNCHANGED <<status, game, up>>
  BY DEF StopHandling, BallArrives, serverVars, streamVars, playerVars, threadVars, history
<1>2. net \in [Conn -> {"poll", "logged in", "named", "assembled"}] BY DEF TypeOK, ThreadTypeOK
<1>3. /\ \A b \in Conn : net'[b] = "assembled" => net[b] = "assembled"
      /\ \A b \in Conn : status[b] # "left" => net'[b] = net[b]
  BY <1>2 DEF StopHandling, BallArrives, threadVars
<1>4. up \in [Conn -> Seq(UpMsg)] /\ online \subseteq Conn
  BY EntriesAre DEF TypeOK, StreamTypeOK, ServerTypeOK, Records, online
<1>5. ASSUME NEW b \in Conn, NEW t, NEW q
      PROVE  Keeps(t, q, up[b], up'[b])
  <2>1. PICK s \in Seq(UpMsg) : s = up[b] BY <1>4
  <2>2. QED BY <1>1, <2>1, KeepsIs
<1>6. \A d \in online : Active(d)' => Active(d) /\ \A t, b, v : Agrees(t, d, b, v) => Agrees(t, d, b, v)'
  BY <1>4, AgreesRest
<1>7. \A b \in online : AtRest(b)' =>
        AtRest(b) /\ \A t \in {"map", "sector"}, q \in Ear : Keeps(t, q, up[b], up'[b])
  BY <1>1, <1>3, <1>4, <1>5 DEF AtRest, Active
<1>8. \A b \in Conn : status'[b] \in {"out", "joining"} => status[b] \in {"out", "joining"} BY <1>1
<1>9. QED BY <1>1, <1>3, <1>6, <1>7, <1>8, SilentPlaces

LEMMA ClientPlaces ==
  ASSUME TypeOK, Sessions, Rosters, Whereabouts, NEW c \in Conn, ClientHandles(c)
  PROVE  Whereabouts'
<1>1. PICK h : h = Head(down[c]) OBVIOUS
<1>2. /\ StatusAfter(c, h) /\ AnswerAfter(c, h)
      /\ status[c] \in {"joining", "in", "left"} /\ net[c] = "poll"
      /\ UNCHANGED <<record, place, carried, overtaken>> /\ game' = game
  BY <1>1, HandlingIs DEF serverVars
<1>3. h \in DownMsg BY <1>1, HandledIn
<1>4. /\ up \in [Conn -> Seq(UpMsg)] /\ online \subseteq Conn
      /\ status \in [Conn -> {"out", "joining", "in", "left"}]
      /\ net \in [Conn -> {"poll", "logged in", "named", "assembled"}]
  BY EntriesAre DEF TypeOK, StreamTypeOK, ServerTypeOK, PlayerTypeOK, ThreadTypeOK, Records, online
<1>5. /\ \A b \in Conn \ {c} : status'[b] = status[b] /\ net'[b] = net[b] /\ up'[b] = up[b]
      /\ status'[c] = status[c] \/ (status[c] = "joining" /\ status'[c] = "in" /\ h.kind = "LoginAccepted")
      /\ net'[c] = net[c] \/ net'[c] = "logged in"
      /\ h.kind = "LoginAccepted" /\ c \in Mod => net'[c] = "logged in"
  BY <1>2, <1>4 DEF StatusAfter, AnswerAfter
<1>6. ASSUME NEW t \in {"map", "sector"}, NEW q
      PROVE  Keeps(t, q, up[c], up'[c])
  <2>1. PICK s \in Seq(UpMsg) : s = up[c] BY <1>4
  <2>2. CASE up' = up BY <2>1, <2>2, KeepsIs
  <2>3. CASE Answers(c, h) /\ up' = [up EXCEPT ![c] = Append(@, CheatState(h.cheated))]
    <3>1. PICK m : m = CheatState(h.cheated) OBVIOUS
    <3>2. m \in UpMsg /\ m.kind = "CheatState"
      BY <1>3, <2>3, <3>1, DownFacts, Sendable DEF Answers, Toggles, CheatState
    <3>3. ~ Says(t, q, m) BY <3>2, PlacesSaid
    <3>4. up'[c] = Append(s, m) BY <1>4, <2>1, <2>3, <3>1
    <3>5. QED BY <2>1, <3>2, <3>3, <3>4, KeepsIs
  <2>4. CASE h.kind = "RestartRequest" /\ up' = [up EXCEPT ![c] = Append(@, RestartFailed(h.from))]
    <3>1. PICK m : m = RestartFailed(h.from) OBVIOUS
    <3>2. m \in UpMsg /\ m.kind = "RestartRequestFailed"
      BY <1>3, <2>4, <3>1, DownFacts, Sendable DEF RestartFailed
    <3>3. ~ Says(t, q, m) BY <3>2, PlacesSaid
    <3>4. up'[c] = Append(s, m) BY <1>4, <2>1, <2>4, <3>1
    <3>5. QED BY <2>1, <3>2, <3>3, <3>4, KeepsIs
  <2>5. QED BY <1>2, <2>2, <2>3, <2>4 DEF AnswerAfter
<1>7. ASSUME NEW b \in online, AtRest(b)', NEW t \in {"map", "sector"}, NEW q
      PROVE  AtRest(b) /\ Keeps(t, q, up[b], up'[b])
  <2>1. CASE b = c
    <3>1. AtRest(c) BY <1>2, <1>5, <1>7, <2>1 DEF AtRest, Active
    <3>2. QED BY <1>6, <1>7, <2>1, <3>1
  <2>2. CASE b # c
    <3>1. PICK s \in Seq(UpMsg) : s = up[b] BY <1>4
    <3>2. Keeps(t, q, up[b], up'[b]) BY <1>4, <1>5, <2>2, <3>1, KeepsIs
    <3>3. AtRest(b) BY <1>2, <1>4, <1>5, <1>7, <2>2 DEF AtRest, Active
    <3>4. QED BY <3>2, <3>3
  <2>3. QED BY <2>1, <2>2
<1>8. ASSUME NEW d \in online, Active(d)'
      PROVE  /\ Active(d)
             /\ \A t \in {"map", "sector"}, b \in online \ {d} : \A v :
                  Agrees(t, d, b, v) => Agrees(t, d, b, v)'
  BY <1>4, <1>8, AgreesHeard DEF Topic
<1>9. \A b \in Conn : /\ status'[b] \in {"out", "joining"} => status[b] \in {"out", "joining"}
                      /\ net'[b] = "assembled" => net[b] = "assembled"
  BY <1>5
<1>10. \A b \in online : AtRest(b)' =>
        AtRest(b) /\ \A t \in {"map", "sector"}, q \in Ear : Keeps(t, q, up[b], up'[b])
  BY <1>7
<1>11. QED BY <1>2, <1>8, <1>9, <1>10, SilentPlaces
(* What a relay does about the place of the player who is relayed. *)
LEMMA RelaysPlace ==
  ASSUME NEW c \in Conn, c \in online, NEW h, NEW S, NEW m, Relays(c, h, S, m), NEW t \in {"map", "sector"}
  PROVE  /\ \A e, q : e # c => ~ Sets(t, q, m, e)
         /\ \A e \in online : e # c => record'[e][t] = record[e][t]
         /\ \A q \in Ear : ~ Says(t, q, h) => ~ Sets(t, q, m, c)
         /\ \A q \in Ear : Says(t, q, h) =>
              Sets(t, q, m, c) /\ To(t, m, c) = h[t] /\ online \ {c} \subseteq S
         /\ ~ Says(t, "entering", h) => record'[c][t] = record[c][t]
         /\ Says(t, "entering", h) => record'[c][t] = h[t] /\ Says(t, "any", h)
         /\ online' = online
<1> USE DEF Sets, Says, Places, To, online
<1>1. CASE Idle(c, h, S, m) BY <1>1 DEF Idle
<1>2. CASE Forcing(c, h, S, m) BY <1>2 DEF Forcing
<1>3. CASE Cheating(c, h, S, m) BY <1>3 DEF Cheating, CheatSet
<1>4. CASE Announcing(c, h, S, m) BY <1>4 DEF Announcing, Ear
<1>5. CASE Arriving(c, h, S, m) BY <1>5 DEF Arriving, PlaceSet, Ear
<1>6. CASE Advancing(c, h, S, m) BY <1>6 DEF Advancing, SectorSet, Ear
<1>7. QED BY <1>1, <1>2, <1>3, <1>4, <1>5, <1>6 DEF Relays

(* Silence of all kinds is silence of one kind. *)
LEMMA SilentMore ==
  ASSUME NEW t, NEW s, Silent(t, "any", s)
  PROVE  \A q \in Ear : Silent(t, q, s)
BY DEF Silent, Says, Places, Ear

LEMMA FollowedRelayed ==
  ASSUME TypeOK, Sessions, NEW c \in Conn, Relaying(c), NEW t \in {"map", "sector"}, NEW v, Followed(t, c, v)
  PROVE  Followed(t, c, v)'
<1>1. PICK h : h = Head(up[c]) OBVIOUS
<1>2. /\ c \in online /\ up[c] # <<>> /\ up' = [up EXCEPT ![c] = Tail(@)]
      /\ UNCHANGED <<playerVars, copyVars, threadVars, history>>
      /\ \E S, m : m \in DownMsg /\ down' = Told(down, S, m) /\ Relays(c, h, S, m)
  BY <1>1, RelayTells
<1>3. PICK S, m : m \in DownMsg /\ down' = Told(down, S, m) /\ Relays(c, h, S, m) BY <1>2
<1>4. /\ \A q \in Ear : ~ Says(t, q, h) => ~ Sets(t, q, m, c)
      /\ \A q \in Ear : Says(t, q, h) =>
           Sets(t, q, m, c) /\ To(t, m, c) = h[t] /\ online \ {c} \subseteq S
      /\ ~ Says(t, "entering", h) => record'[c][t] = record[c][t]
      /\ Says(t, "entering", h) => record'[c][t] = h[t] /\ Says(t, "any", h)
      /\ online' = online
  BY <1>2, <1>3, RelaysPlace
<1>5. online \subseteq Conn /\ StreamTypeOK /\ up \in [Conn -> Seq(UpMsg)] /\ UNCHANGED <<status, mirror>>
  BY <1>2, EntriesAre DEF TypeOK, ServerTypeOK, Records, online, StreamTypeOK, playerVars, copyVars
<1>6. PICK s \in Seq(UpMsg) : s = up[c] BY <1>5
<1>7. PICK z : z = Tail(s) OBVIOUS
<1>8. up'[c] = z /\ s # <<>> /\ h = Head(s) BY <1>1, <1>2, <1>5, <1>6, <1>7
<1>9. \A q : /\ Silent(t, q, s) => Silent(t, q, z) /\ ~ Says(t, q, h)
             /\ SaysLast(t, q, s, v) =>
                  SaysLast(t, q, z, v) \/ (Says(t, q, h) /\ h[t] = v /\ Silent(t, q, z))
  BY <1>7, <1>8, SaysTaken
<1>10. \A q \in Ear : SaysLast(t, q, s, v) \/ (Silent(t, q, s) /\ record[c][t] = v)
  BY <1>6 DEF Followed, OnServer
<1>11. Ear = {"any", "entering"} BY DEF Ear
(* What is taken was the last word: the record has it. *)
<1>12. ASSUME NEW q \in Ear
       PROVE  SaysLast(t, q, z, v) \/ (Silent(t, q, z) /\ record'[c][t] = v)
  <2>1. CASE q = "entering" BY <1>4, <1>9, <1>10, <2>1
  <2>2. CASE q = "any" BY <2>2, <1>9, <1>10, <1>11, SilentMore, <1>4 DEF SaysLast, Silent
  <2>3. QED BY <1>11, <2>1, <2>2
<1>13. ASSUME NEW d \in online' \ {c}, Active(d)'
       PROVE  WithOther(t, d, c, v)'
  <2>1. d \in online \ {c} /\ d \in Conn /\ Active(d) BY <1>4, <1>5, <1>13 DEF Active
  <2>2. PICK q \in Ear : q = Of(d) BY DEF Ear, Of
  <2>3. SaysLast(t, q, s, v) \/ (Silent(t, q, s) /\ Agrees(t, d, c, v))
    BY <1>6, <2>1, <2>2 DEF Followed, WithOther
  <2>4. CASE SaysLast(t, q, z, v) BY <1>8, <2>2, <2>4 DEF WithOther
  <2>5. CASE Says(t, q, h) /\ h[t] = v /\ Silent(t, q, z)
    BY <1>4, <2>1, <2>2, <2>5, <1>3, <1>5, AgreesRelayed, <1>8 DEF WithOther
  <2>6. CASE Silent(t, q, s) /\ Agrees(t, d, c, v)
    BY <1>4, <1>9, <2>2, <2>6, <1>3, <1>5, <2>1, AgreesSpoken, <1>8 DEF WithOther
  <2>7. QED BY <1>9, <2>3, <2>4, <2>5, <2>6
<1>14. ASSUME NEW q \in Ear
       PROVE  OnServer(t, q, c, v)'
  BY <1>8, <1>12 DEF OnServer
<1>15. QED BY <1>13, <1>14 DEF Followed

LEMMA RelayPlaces ==
  ASSUME TypeOK, Sessions, Whereabouts, NEW c \in Conn, Relaying(c)
  PROVE  Whereabouts'
<1>1. PICK h : h = Head(up[c]) OBVIOUS
<1>2. /\ c \in online /\ up' = [up EXCEPT ![c] = Tail(@)]
      /\ UNCHANGED <<playerVars, copyVars, threadVars, history>>
      /\ \E S, m : m \in DownMsg /\ down' = Told(down, S, m) /\ Relays(c, h, S, m)
  BY <1>1, RelayTells
<1>3. PICK S, m : m \in DownMsg /\ down' = Told(down, S, m) /\ Relays(c, h, S, m) BY <1>2
<1>4. /\ online' = online
      /\ \A e \in online, t \in {"map", "sector"} : e # c =>
           record'[e][t] = record[e][t] /\ \A q : ~ Sets(t, q, m, e)
  BY <1>2, <1>3, RelaysPlace
<1>5. /\ online \subseteq Conn /\ StreamTypeOK /\ up \in [Conn -> Seq(UpMsg)]
      /\ UNCHANGED <<status, mirror>> /\ UNCHANGED <<place, game, net, carried, overtaken>>
  BY <1>2, EntriesAre DEF TypeOK, ServerTypeOK, Records, online, StreamTypeOK, playerVars, copyVars,
                          threadVars, history
<1>6. ASSUME NEW b \in Conn
      PROVE  Unplaced(b)' /\ Carrying(b)'
  BY <1>5 DEF Whereabouts, Unplaced, Carrying
<1>7. ASSUME NEW b \in online, AtRest(b)', NEW t \in {"map", "sector"}
      PROVE  Followed(t, b, place[b][t])'
  <2>1. AtRest(b) BY <1>5, <1>7 DEF AtRest, Active
  <2>2. PICK v : v = place[b][t] /\ v = place'[b][t] BY <1>5
  <2>3. Followed(t, b, v) BY <1>7, <2>1, <2>2 DEF Whereabouts, Settled
  <2>4. CASE b = c
    <3>1. Followed(t, b, v)' BY <2>3, <2>4, FollowedRelayed
    <3>2. QED BY <2>2, <3>1
  <2>5. CASE b # c
    <3>1. PICK s \in Seq(UpMsg) : s = up[b] BY <1>5
    <3>2. \A q : Keeps(t, q, up[b], up'[b]) BY <1>2, <1>5, <2>5, <3>1, KeepsIs
    <3>3. record'[b][t] = record[b][t] /\ \A q : ~ Sets(t, q, m, b) BY <1>4, <2>5
    <3>4. ASSUME NEW d \in online' \ {b}, Active(d)'
          PROVE  /\ d \in online /\ Active(d)
                 /\ Agrees(t, d, b, v) => Agrees(t, d, b, v)'
      BY <1>4, <1>5, <3>4, <1>3, <3>3, AgreesSpoken DEF Active
    <3>5. Followed(t, b, v)' BY <2>3, <3>2, <3>3, <3>4, FollowedStep
    <3>6. QED BY <2>2, <3>5
  <2>6. QED BY <2>4, <2>5
<1>8. ASSUME NEW b \in online
      PROVE  Settled(b)'
  BY <1>7 DEF Settled
<1>9. QED BY <1>4, <1>6, <1>8 DEF Whereabouts
(* Whoever comes is nowhere, or has said nothing of it yet. *)
LEMMA LoginPlaces ==
  ASSUME TypeOK, Sessions, Whereabouts, NEW c \in Conn, ServerLogin(c)
  PROVE  Whereabouts'
<1>1. /\ c \notin online /\ up[c] # <<>> /\ up' = [up EXCEPT ![c] = Tail(@)]
      /\ UNCHANGED <<playerVars, copyVars, threadVars, history>>
      /\ online' = online \cup {c} /\ record'[c] = Player(Head(up[c]).cheated, Nowhere)
      /\ \A d \in online : record'[d] = record[d]
  BY LoginIs
<1>2. PICK ch : ch = Head(up[c]).cheated OBVIOUS
<1>3. /\ online \subseteq Conn /\ up \in [Conn -> Seq(UpMsg)]
      /\ UNCHANGED <<status, place, game, net, carried, overtaken>>
      /\ status \in [Conn -> {"out", "joining", "in", "left"}]
  BY <1>1, EntriesAre DEF TypeOK, ServerTypeOK, Records, online, StreamTypeOK, PlayerTypeOK, playerVars,
                          threadVars, history
<1>4. ASSUME NEW b \in Conn
      PROVE  Unplaced(b)' /\ Carrying(b)'
  BY <1>3 DEF Whereabouts, Unplaced, Carrying
<1>5. ASSUME NEW b \in online, AtRest(b)', NEW t \in {"map", "sector"}
      PROVE  Followed(t, b, place[b][t])'
  <2>1. AtRest(b) BY <1>3, <1>5 DEF AtRest, Active
  <2>2. PICK v : v = place[b][t] /\ v = place'[b][t] BY <1>3
  <2>3. /\ \A q \in Ear : OnServer(t, q, b, v)
        /\ \A d \in online \ {b} : Active(d) => WithOther(t, d, b, v)
    BY <1>5, <2>1, <2>2 DEF Whereabouts, Settled, Followed
  <2>4. b # c /\ up'[b] = up[b] /\ record'[b] = record[b] BY <1>1, <1>3
  <2>5. \A q \in Ear : OnServer(t, q, b, v)' BY <2>3, <2>4 DEF OnServer
  <2>6. ASSUME NEW d \in online \ {b}, Active(d)'
        PROVE  WithOther(t, d, b, v)'
    BY <1>3, <2>3, <2>6, <1>2, AgreesIntroduced, <2>4 DEF Active, WithOther
  <2>7. Active(c)' => WithOther(t, c, b, v)'
    <3>1. ASSUME Active(c)'
          PROVE  WithOther(t, c, b, v)'
      <4>1. PICK q \in Ear : q = Of(c) BY DEF Ear, Of
      <4>2. CASE SaysLast(t, q, up[b], v) BY <2>4, <4>1, <4>2 DEF WithOther
      <4>3. CASE Silent(t, q, up[b]) /\ record[b][t] = v
        BY <1>2, <3>1, AgreesGreeted, <2>4, <4>3, <1>5, <4>1 DEF Topic, WithOther
      <4>4. QED BY <2>3, <4>2, <4>3 DEF OnServer
    <3>2. QED BY <3>1
  <2>8. \A d \in online' \ {b} : d \in online \ {b} \/ d = c BY <1>1
  <2>9. Followed(t, b, v)' BY <2>5, <2>6, <2>7, <2>8 DEF Followed
  <2>10. QED BY <2>2, <2>9
<1>6. ASSUME AtRest(c)', NEW t \in {"map", "sector"}
      PROVE  Followed(t, c, place[c][t])'
  <2>1. Stage(status[c], c \in online, up[c]) BY DEF Sessions, Requested
  <2>2. Asking(up[c]) /\ status[c] # "in" /\ Active(c)
    BY <1>1, <1>3, <1>6, <2>1 DEF Stage, AtRest, Active
  <2>3. status[c] = "joining" /\ c \notin Mod BY <1>3, <1>6, <2>2 DEF AtRest, Active
  <2>4. PICK v : v = Nowhere[t] OBVIOUS
  <2>5. place[c] = Nowhere /\ place'[c] = Nowhere BY <1>3, <2>3 DEF Whereabouts, Unplaced
  <2>6. PICK s \in Seq(UpMsg) : s = up[c] BY <1>3
  <2>7. PICK z : z = Tail(s) OBVIOUS
  <2>8. up'[c] = z /\ s # <<>> BY <1>1, <1>3, <2>6, <2>7
  <2>9. \A i \in 1 .. Len(z) : z[i].kind = "CheatState" BY <2>7, <2>8, Taken, <2>2, <2>6 DEF Asking
  <2>10. \A q : Silent(t, q, z) BY <2>9, PlacesSaid DEF Silent
  <2>11. record'[c][t] = v BY <1>1, <2>4 DEF Player
  <2>12. \A q \in Ear : OnServer(t, q, c, v)' BY <2>8, <2>10, <2>11 DEF OnServer
  <2>13. ASSUME NEW d \in online' \ {c}, Active(d)'
         PROVE  WithOther(t, d, c, v)'
    BY <1>1, <2>13, <1>2, AgreesIntroduced, <2>4, <2>8, <2>10 DEF WithOther
  <2>14. Followed(t, c, v)' BY <2>12, <2>13 DEF Followed
  <2>15. QED BY <2>4, <2>5, <2>14
<1>7. ASSUME NEW b \in online'
      PROVE  Settled(b)'
  <2>1. b \in online \/ b = c BY <1>1
  <2>2. QED BY <1>5, <1>6, <2>1 DEF Settled
<1>8. QED BY <1>4, <1>7 DEF Whereabouts

LEMMA DepartPlaces ==
  ASSUME TypeOK, Whereabouts, NEW c \in Conn, Depart(c)
  PROVE  Whereabouts'
<1>1. UNCHANGED <<status, place, game, net, carried, overtaken>>
  BY DEF Depart, playerVars, threadVars, history
<1>2. up \in [Conn -> Seq(UpMsg)] /\ online \subseteq Conn
  BY EntriesAre DEF TypeOK, StreamTypeOK, ServerTypeOK, Records, online
<1>3. \A b \in Conn \ {c} : up'[b] = up[b]
  <2>1. PICK z : z = <<>> OBVIOUS
  <2>2. up' = [up EXCEPT ![c] = z] BY <2>1 DEF Depart
  <2>3. QED BY <1>2, <2>2
<1>4. /\ online' = online \ {c} /\ \A b \in online \ {c} : record'[b] = record[b]
  BY DEF Depart, Without, online
<1>5. ASSUME NEW b \in Conn
      PROVE  Unplaced(b)' /\ Carrying(b)'
  BY <1>1 DEF Whereabouts, Unplaced, Carrying
<1>6. ASSUME NEW b \in online', AtRest(b)', NEW t \in {"map", "sector"}
      PROVE  Followed(t, b, place[b][t])'
  <2>1. AtRest(b) /\ b \in online \ {c} BY <1>1, <1>4, <1>6 DEF AtRest, Active
  <2>2. PICK v : v = place[b][t] /\ v = place'[b][t] BY <1>1
  <2>3. Followed(t, b, v) BY <1>6, <2>1, <2>2 DEF Whereabouts, Settled
  <2>4. PICK s \in Seq(UpMsg) : s = up[b] BY <1>2, <2>1
  <2>5. \A q : Keeps(t, q, up[b], up'[b]) BY <1>2, <1>3, <2>1, <2>4, KeepsIs
  <2>6. record'[b][t] = record[b][t] BY <1>4, <2>1
  <2>7. ASSUME NEW d \in online' \ {b}, Active(d)'
        PROVE  /\ d \in online /\ Active(d)
               /\ Agrees(t, d, b, v) => Agrees(t, d, b, v)'
    <3>1. d \in online' BY <2>7
    <3>2. QED BY <2>7, <3>1, AgreesDeparted
  <2>8. Followed(t, b, v)' BY <2>3, <2>5, <2>6, <2>7, FollowedStep
  <2>9. QED BY <2>2, <2>8
<1>7. ASSUME NEW b \in online'
      PROVE  Settled(b)'
  BY <1>6, <1>7 DEF Settled
<1>8. QED BY <1>5, <1>7 DEF Whereabouts

LEMMA InitPlaces == Init => Whereabouts
BY Nobody DEF Init, Whereabouts, Unplaced, Carrying, online

LEMMA NextPlaces ==
  ASSUME TypeOK, Sessions, Rosters, Whereabouts, [Next]_vars
  PROVE  Whereabouts'
<1>1. CASE Resting
  <2>1. /\ UNCHANGED <<status, record, mirror, up, down>>
        /\ UNCHANGED <<place, game, net, carried, overtaken>>
    BY <1>1 DEF Resting, serverVars, streamVars, playerVars, threadVars, history
  <2>2. online \subseteq Conn BY EntriesAre DEF TypeOK, ServerTypeOK, Records, online
  <2>3. ASSUME NEW b \in Conn, NEW t, NEW q
        PROVE  Keeps(t, q, up[b], up'[b])
    <3>1. PICK s \in Seq(UpMsg) : s = up[b] BY DEF TypeOK, StreamTypeOK
    <3>2. QED BY <2>1, <3>1, KeepsIs
  <2>4. \A d : Active(d)' => Active(d) /\ \A t, b, v : Agrees(t, d, b, v) => Agrees(t, d, b, v)'
    BY <2>1 DEF Agrees, Shown, Active
  <2>5. \A b \in online : AtRest(b)' =>
          AtRest(b) /\ \A t \in {"map", "sector"}, q \in Ear : Keeps(t, q, up[b], up'[b])
    BY <2>1, <2>2, <2>3 DEF AtRest, Active
  <2>6. \A b \in Conn : /\ status'[b] \in {"out", "joining"} => status[b] \in {"out", "joining"}
                        /\ net'[b] = "assembled" => net[b] = "assembled"
    BY <2>1
  <2>7. QED BY <2>1, <2>4, <2>5, <2>6, SilentPlaces
<1>2. CASE Conn # {}
  <2>1. PICK d \in Conn : TRUE BY <1>2
  <2>2. QED
    BY <1>1, StepIs, MovePlaces, RelayPlaces, HashPlaces, ConsolePlaces, LoginPlaces, DepartPlaces,
       ClientPlaces, RestPlaces
<1>3. CASE Conn = {}
  BY NextTyped, <1>3, EntriesAre DEF TypeOK, ServerTypeOK, Records, online, Whereabouts
<1>4. QED BY <1>2, <1>3

LEMMA PlacesAreRight == TypeOK /\ Sessions /\ Whereabouts => PlacesKnown
<1> SUFFICES ASSUME TypeOK, Sessions, Whereabouts, quiet, NEW c \in Logged \ overtaken
             PROVE  /\ [map |-> record[c].map, sector |-> record[c].sector] = place[c]
                    /\ \A d \in Logged \ {c} :
                         [map |-> mirror[d][c].map, sector |-> mirror[d][c].sector] = place[c]
  BY DEF PlacesKnown
<1>1. /\ c \in online /\ c \in Conn /\ Active(c)
      /\ \A t, q, v : ~ SaysLast(t, q, up[c], v)
  BY AtQuiet
<1>2. status[c] = "in" /\ game[c] = "idle" /\ net[c] = "poll" BY <1>1 DEF Logged, quiet
<1>3. \A t \in {"map", "sector"} : Followed(t, c, place[c][t])
  BY <1>1, <1>2 DEF Whereabouts, Settled, AtRest
<1>4. place[c] = [map |-> place[c]["map"], sector |-> place[c]["sector"]]
  <2>1. place[c] \in Where BY <1>1 DEF TypeOK, PlayerTypeOK
  <2>2. QED BY <2>1 DEF Where
<1>5. \A t \in {"map", "sector"} : record[c][t] = place[c][t]
  BY <1>3, <1>1 DEF Ear, Followed, OnServer
<1>6. ASSUME NEW d \in Logged \ {c}
      PROVE  \A t \in {"map", "sector"} : mirror[d][c][t] = place[c][t]
  BY <1>6, AtQuiet, <1>3, <1>1 DEF Followed, WithOther
<1>7. [map |-> record[c].map, sector |-> record[c].sector] = place[c] BY <1>4, <1>5
<1>8. ASSUME NEW d \in Logged \ {c}
      PROVE  [map |-> mirror[d][c].map, sector |-> mirror[d][c].sector] = place[c]
  BY <1>4, <1>6, <1>8
<1>9. QED BY <1>7, <1>8

(* At rest the server and everybody else have every player on the map and   *)
(* in the sector they are in, whichever of the two threads of a mod told    *)
(* it, unless the game's overtook the network's.                           *)
THEOREM PlacesAreKnown == Spec => []PlacesKnown
<1>1. TypeOK /\ Sessions /\ Whereabouts => PlacesKnown BY PlacesAreRight
<1>2. Init => TypeOK /\ Sessions /\ Rosters /\ Whereabouts BY InitKnown, InitPlaces
<1>3. TypeOK /\ Sessions /\ Rosters /\ Whereabouts /\ [Next]_vars
        => TypeOK' /\ Sessions' /\ Rosters' /\ Whereabouts'
  BY NextKnown, NextPlaces
<1>4. QED BY <1>1, <1>2, <1>3, PTL DEF Spec
=============================================================================
