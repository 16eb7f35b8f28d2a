--------------------------- MODULE PlayerObjects ---------------------------
(***************************************************************************)
(* What the mod draws of the other players: a ball and a name label for    *)
(* everyone in db_ (game_state), made and updated by objects_              *)
(* (game_objects) in every frame of the game.                              *)
(*                                                                         *)
(* Three threads share the two.  The game's draws, loads levels and reads  *)
(* keys; the network's changes db_ as messages arrive; a third runs what   *)
(* is typed in the console window.  Three locks: bml_mtx_ of the mod, one  *)
(* mutex in db_ and one in objects_; frames and messages about the roster  *)
(* hold the first, other messages, levels, keys and commands do not.       *)
(*                                                                         *)
(* A thread's code is the sequence of critical sections it has left.  Each *)
(* is one step; only for_each and try_for_each_const keep db_ locked over  *)
(* several.  Spectating is not part of the default build and left out.     *)
(***************************************************************************)
EXTENDS Naturals, Sequences

CONSTANTS
  Peer,        \* the other players: connection numbers, never used again
  Me,          \* assigned_id_
  Budgets      \* bounds: levels, keys and commands, logins, cheat modes

ASSUME PlayerObjectsAssumption ==
  /\ Me \notin Peer
  /\ Budgets \subseteq [{"levels", "commands", "logins", "cheats"} -> Nat]

Id == Peer \cup {Me}
Thread == {"game", "net", "console"}

VARIABLES
  states_,     \* of db_: cheated, of every player it has
  objects_,    \* of every entry, whether it has its balls, and its label
  pending_cheat_flush_,
  own_ball_visible_,
  template_init_,  \* the balls to copy are loaded
  ingame,      \* IsIngame: a level is running
  logged_in_,
  gone,        \* players who left
  bml_mtx_, db_mutex,  \* who holds the lock: a thread, or ""
  code,        \* what each thread has left to do
  flush,       \* the game's local of that name
  scheduled,   \* objects that timers of the game will remove
  batch,       \* the network thread has messages of the session left
  crashed,     \* the game has read a ball, or the handler, that is not there
  left,        \* what is left of the budget
  crossed,     \* history: reload destroyed objects in the middle of a frame
  stranded,    \* history: it was the handler, which cleanup had reset
  revived      \* history: entries made again after cleanup

dbVars == <<states_, pending_cheat_flush_, revived>>
lockVars == <<bml_mtx_, db_mutex>>
gameVars == <<template_init_, ingame, flush, scheduled, crashed, crossed,
              stranded>>
sessionVars == <<logged_in_, gone, batch, own_ball_visible_>>
vars == <<dbVars, objects_, lockVars, code, gameVars, sessionVars, left>>

Free == ""
NoLabel == "none"
Label(ch) == IF ch THEN "cheater" ELSE "plain"
Empty == [balls |-> FALSE, label |-> NoLabel]

Init ==
  /\ states_ = <<>> /\ objects_ = <<>>
  /\ pending_cheat_flush_ = FALSE /\ own_ball_visible_ = FALSE
  /\ template_init_ = FALSE /\ ingame = FALSE /\ logged_in_ = FALSE
  /\ gone = {}
  /\ bml_mtx_ = Free /\ db_mutex = Free
  /\ code = [t \in Thread |-> <<>>]
  /\ flush = FALSE /\ scheduled = {} /\ batch = FALSE /\ crashed = FALSE
  /\ left \in Budgets
  /\ crossed = FALSE /\ stranded = FALSE /\ revived = {}

Act(kind) == left[kind] > 0 /\ left' = [left EXCEPT ![kind] = @ - 1]

With(f, id, v) == [d \in DOMAIN f \cup {id} |-> IF d = id THEN v ELSE f[d]]
Without(f, S) == [d \in DOMAIN f \ S |-> f[d]]

-----------------------------------------------------------------------------
(* Steps.                                                                  *)

S(op) == [op |-> op, ids |-> {}]
Of(op, ids) == [op |-> op, ids |-> ids]
Idle(t) == code[t] = <<>> /\ ~ crashed
At(t, op) == code[t] # <<>> /\ Head(code[t]).op = op /\ ~ crashed
These(t) == Head(code[t]).ids
Starts(t, steps) == code' = [code EXCEPT ![t] = steps]
Done(t) == Starts(t, Tail(code[t]))

(* A loop has dealt with one of its players. *)
OneDone(t, id, steps) ==
  Starts(t, steps \o (IF These(t) = {id} THEN Tail(code[t])
                      ELSE <<[Head(code[t]) EXCEPT !.ids = @ \ {id}]>> \o Tail(code[t])))

DbFree == db_mutex = Free
BmlFree == bml_mtx_ = Free

(* try_to_lock fails while somebody is, or may be, in a section. *)
DbSteps == {"clear", "entry", "no entry", "fill", "write"}
ObjectSteps == {"destroy", "init", "object", "no object"}
Within(steps) == \E t \in Thread \ {"game"} : code[t] # <<>> /\ Head(code[t]).op \in steps

-----------------------------------------------------------------------------
(* game_objects.                                                           *)

(* init_spirit_ball copies a template.  More copies for who has balls are  *)
(* kept beside them and not used. *)
Copied == template_init_
WithPlayer(id, ch) == With(objects_, id, [balls |-> Copied, label |-> Label(ch)])

reload == <<S("destroy"), S("players")>>

(* destroy_all_objects.  reload in the console window has no lock that     *)
(* keeps a frame from running.                                             *)
Destroy(t) ==
  /\ At(t, "destroy")
  /\ objects_' = <<>>
  /\ crossed' = (crossed \/ (At("game", "draw") /\ t = "console" /\ code[t] = reload))
  /\ Done(t)
  /\ UNCHANGED <<dbVars, lockVars, template_init_, ingame, flush, scheduled, crashed,
                 stranded, sessionVars, left>>

(* init_players: for_each keeps db_ locked while each is made. *)
InitPlayers(t) ==
  /\ At(t, "players") /\ DbFree
  /\ LET others == DOMAIN states_ \ {Me} IN
       IF others = {} THEN Done(t) /\ UNCHANGED db_mutex
       ELSE /\ db_mutex' = t
            /\ Starts(t, <<Of("init", others), S("made")>> \o Tail(code[t]))
  /\ UNCHANGED <<dbVars, objects_, bml_mtx_, gameVars, sessionVars, left>>

InitPlayer(t) ==
  /\ At(t, "init")
  /\ \E id \in These(t) : objects_' = WithPlayer(id, states_[id]) /\ OneDone(t, id, <<>>)
  /\ UNCHANGED <<dbVars, lockVars, gameVars, sessionVars, left>>

Made(t) ==
  /\ At(t, "made")
  /\ db_mutex' = Free
  /\ Done(t)
  /\ UNCHANGED <<dbVars, objects_, bml_mtx_, gameVars, sessionVars, left>>

-----------------------------------------------------------------------------
(* The game's thread: frames.                                              *)

(* OnProcess.  Without bml_mtx_ nothing is drawn in this frame. *)
Frame ==
  /\ Idle("game") /\ logged_in_ /\ ingame /\ BmlFree
  /\ bml_mtx_' = "game"
  /\ Starts("game", <<S("read"), S("unset"), S("update")>>)
  /\ UNCHANGED <<dbVars, objects_, db_mutex, gameVars, sessionVars, left>>

(* db_.flush(): the flag is read, then cleared. *)
ReadFlush ==
  /\ At("game", "read")
  /\ flush' = pending_cheat_flush_
  /\ Done("game")
  /\ UNCHANGED <<dbVars, objects_, lockVars, template_init_, ingame, scheduled, crashed,
                 crossed, stranded, sessionVars, left>>

UnsetFlush ==
  /\ At("game", "unset")
  /\ pending_cheat_flush_' = FALSE
  /\ Done("game")
  /\ UNCHANGED <<states_, revived, objects_, lockVars, gameVars, sessionVars, left>>

UpdateFails ==
  /\ At("game", "update")
  /\ ~ DbFree \/ Within(DbSteps)
  /\ pending_cheat_flush_' = (pending_cheat_flush_ \/ flush)
  /\ bml_mtx_' = Free
  /\ Done("game")
  /\ UNCHANGED <<states_, revived, objects_, db_mutex, gameVars, sessionVars, left>>

Update ==
  /\ At("game", "update") /\ DbFree
  /\ db_mutex' = "game"
  /\ Starts("game", IF states_ = <<>> THEN <<S("drawn")>>
                    ELSE <<Of("check", DOMAIN states_), S("drawn")>>)
  /\ UNCHANGED <<dbVars, objects_, bml_mtx_, gameVars, sessionVars, left>>

(* Objects are made in the frame that first meets the player.  (Mistake:   *)
(* only when a level is loaded.)                                           *)
MadeBefore(id) == objects_
MadeNow(id) == IF id \in DOMAIN objects_ THEN objects_ ELSE WithPlayer(id, states_[id])
Check ==
  /\ At("game", "check")
  /\ \E id \in These("game") :
       /\ objects_' = MadeNow(id)
       /\ OneDone("game", id, <<Of("draw", {id})>>)
  /\ UNCHANGED <<dbVars, lockVars, gameVars, sessionVars, left>>

(* on_trafo, the first time it is drawn, and every frame after it. *)
HasBalls(id) == id \in DOMAIN objects_ /\ objects_[id].balls

(* objects_[id], and its balls by their index.  The label is written again *)
(* if something of it changed.                                             *)
Draw ==
  /\ At("game", "draw")
  /\ \E id \in These("game") :
       IF HasBalls(id)
       THEN /\ objects_' = IF flush THEN [objects_ EXCEPT ![id].label = Label(states_[id])]
                           ELSE objects_
            /\ UNCHANGED crashed
       ELSE objects_' = With(objects_, id, Empty) /\ crashed' = TRUE
  /\ Done("game")
  /\ UNCHANGED <<dbVars, lockVars, template_init_, ingame, flush, scheduled, crossed,
                 stranded, sessionVars, left>>

(* try_to_lock on objects_: this player has to wait for the next frame. *)
SkipDraw ==
  /\ At("game", "draw") /\ Within(ObjectSteps)
  /\ Done("game")
  /\ UNCHANGED <<dbVars, objects_, lockVars, gameVars, sessionVars, left>>

Drawn ==
  /\ At("game", "drawn")
  /\ db_mutex' = Free /\ bml_mtx_' = Free
  /\ Done("game")
  /\ UNCHANGED <<dbVars, objects_, gameVars, sessionVars, left>>

(* schedule_sync_call: a timer of the game's. *)
RunScheduled ==
  /\ Idle("game") /\ scheduled # {}
  /\ objects_' = Without(objects_, scheduled)
  /\ scheduled' = {}
  /\ UNCHANGED <<dbVars, lockVars, code, template_init_, ingame, flush, crashed, crossed,
                 stranded, sessionVars, left>>

-----------------------------------------------------------------------------
(* The game's thread: levels and keys.                                     *)

(* Balls.nmo, once. *)
LoadBalls ==
  /\ Idle("game") /\ ~ template_init_
  /\ objects_' = <<>>
  /\ template_init_' = TRUE
  /\ UNCHANGED <<dbVars, lockVars, code, ingame, flush, scheduled, crashed, crossed,
                 stranded, sessionVars, left>>

(* OnLoadObject of a map, from the menu or from another level. *)
LoadLevel ==
  /\ Act("levels")
  /\ Idle("game")
  /\ Starts("game", <<S("players"), S("start")>>)
  /\ UNCHANGED <<dbVars, objects_, lockVars, gameVars, sessionVars>>

(* Nothing is played before the balls are loaded. *)
StartLevel ==
  /\ At("game", "start")
  /\ ingame' = template_init_
  /\ Done("game")
  /\ UNCHANGED <<dbVars, objects_, lockVars, template_init_, flush, scheduled, crashed,
                 crossed, stranded, sessionVars, left>>

(* OnPostStartMenu *)
StartMenu ==
  /\ Idle("game") /\ ingame
  /\ ingame' = FALSE
  /\ Starts("game", <<S("destroy")>>)
  /\ UNCHANGED <<dbVars, objects_, lockVars, template_init_, flush, scheduled, crashed,
                 crossed, stranded, sessionVars, left>>

Reloads(t) ==
  /\ Act("commands")
  /\ Idle(t) /\ logged_in_ /\ ingame
  /\ Starts(t, reload)
  /\ UNCHANGED <<dbVars, objects_, lockVars, gameVars, sessionVars>>

(* F3 + A, or the command typed in the game.  The console window runs the  *)
(* command on a thread of its own. *)
PressReload == Reloads("game")
TypeReload == Reloads("console")

(* Ctrl + `: whether a session is on is asked before the lock is waited    *)
(* for, and not again when it is had.                                      *)
ToggleOwnBall ==
  /\ Act("commands")
  /\ Idle("game") /\ logged_in_ /\ ingame
  /\ Starts("game", <<S("toggle")>>)
  /\ UNCHANGED <<dbVars, objects_, lockVars, gameVars, sessionVars>>

(* toggle_own_spirit_ball *)
ToggleLocked ==
  /\ At("game", "toggle") /\ BmlFree
  /\ bml_mtx_' = "game"
  /\ Starts("game", (IF own_ball_visible_ THEN <<S("no entry"), S("no object")>>
                     ELSE <<S("object"), S("entry")>>) \o <<S("unlock")>>)
  /\ UNCHANGED <<dbVars, objects_, db_mutex, gameVars, sessionVars, left>>

ShowObject(t) ==
  /\ At(t, "object")
  /\ \E ch \in BOOLEAN :
       /\ objects_' = WithPlayer(Me, ch)
       /\ Starts(t, <<Of("entry", IF ch THEN {Me} ELSE {})>> \o Tail(Tail(code[t])))
  /\ UNCHANGED <<dbVars, lockVars, gameVars, sessionVars, left>>

(* create, and update with what local_state_handler_ holds.  After a       *)
(* session there is a handler only if another connection has made one.     *)
ShowEntry(t) ==
  /\ At(t, "entry") /\ DbFree
  /\ states_' = IF Me \in DOMAIN states_ THEN states_
                ELSE With(states_, Me, These(t) # {})
  /\ revived' = IF logged_in_ THEN revived ELSE revived \cup {Me}
  /\ own_ball_visible_' = TRUE
  /\ Done(t)
  /\ UNCHANGED <<pending_cheat_flush_, objects_, lockVars, gameVars, logged_in_,
                 gone, batch, left>>

ShowWithoutHandler ==
  /\ At("game", "entry") /\ DbFree /\ ~ logged_in_
  /\ crashed' = TRUE /\ stranded' = TRUE
  /\ UNCHANGED <<dbVars, objects_, lockVars, code, template_init_, ingame, flush, scheduled,
                 crossed, sessionVars, left>>

HideEntry(t) ==
  /\ At(t, "no entry") /\ DbFree
  /\ states_' = Without(states_, {Me})
  /\ Done(t)
  /\ UNCHANGED <<pending_cheat_flush_, revived, objects_, lockVars, gameVars, sessionVars, left>>

HideObject(t) ==
  /\ At(t, "no object")
  /\ objects_' = Without(objects_, {Me})
  /\ own_ball_visible_' = FALSE
  /\ Done(t)
  /\ UNCHANGED <<dbVars, lockVars, gameVars, logged_in_, gone, batch, left>>

Unlock(t) ==
  /\ At(t, "unlock")
  /\ bml_mtx_' = Free
  /\ Done(t)
  /\ UNCHANGED <<dbVars, objects_, db_mutex, gameVars, sessionVars, left>>

-----------------------------------------------------------------------------
(* The end of a session: cleanup, called by the command disconnect.        *)

(* Players first, then what was drawn of them.  (Mistake: the other way.)  *)
ObjectsFirst == <<S("destroy"), S("clear")>>
PlayersFirst == <<S("clear"), S("destroy")>>
Cleanup ==
  /\ Idle("console") /\ logged_in_ /\ BmlFree
  /\ bml_mtx_' = "console"
  /\ Starts("console", (IF own_ball_visible_ THEN <<S("no entry"), S("no object")>> ELSE <<>>)
                       \o PlayersFirst \o <<S("log out"), S("unlock")>>)
  /\ UNCHANGED <<dbVars, objects_, db_mutex, gameVars, sessionVars, left>>

Clear(t) ==
  /\ At(t, "clear") /\ DbFree
  /\ states_' = <<>>
  /\ revived' = {}
  /\ Done(t)
  /\ UNCHANGED <<pending_cheat_flush_, objects_, lockVars, gameVars, sessionVars, left>>

(* The network thread may have more to handle of what it took. *)
LogOut(t) ==
  /\ At(t, "log out")
  /\ logged_in_' = FALSE
  /\ batch' \in BOOLEAN
  /\ Done(t)
  /\ UNCHANGED <<dbVars, objects_, lockVars, gameVars, gone, own_ball_visible_, left>>

-----------------------------------------------------------------------------
(* The network thread's messages.                                          *)

(* In a session, or in what is left of the batch: the last of it. *)
Handles ==
  /\ Idle("net")
  /\ logged_in_ \/ batch
  /\ batch' = FALSE

(* LoginAcceptedV3: the first of a session, or another, from the replayer. *)
LoginAccepted ==
  /\ Act("logins")
  /\ Idle("net") /\ BmlFree
  /\ bml_mtx_' = "net"
  /\ batch' = FALSE
  /\ \E online \in SUBSET (Peer \ gone) :
       Starts("net", (IF logged_in_ THEN PlayersFirst ELSE <<>>)
                     \o <<Of("fill", online), S("unlock")>>)
  /\ UNCHANGED <<dbVars, objects_, db_mutex, gameVars, logged_in_, gone, own_ball_visible_>>

(* create, for everyone the message names: who has an entry keeps it. *)
Fill ==
  /\ At("net", "fill") /\ DbFree
  /\ states_' = [d \in DOMAIN states_ \cup These("net") |->
                   IF d \in DOMAIN states_ THEN states_[d] ELSE FALSE]
  /\ logged_in_' = TRUE
  /\ Done("net")
  /\ UNCHANGED <<pending_cheat_flush_, revived, objects_, lockVars, gameVars, gone, batch,
                 own_ball_visible_, left>>

(* create under bml_mtx_, by which nobody sees it half done. *)
PlayerConnected ==
  /\ Handles /\ BmlFree /\ DbFree
  /\ \E p \in Peer \ (gone \cup DOMAIN states_) :
       /\ states_' = With(states_, p, FALSE)
       /\ revived' = IF logged_in_ THEN revived ELSE revived \cup {p}
  /\ UNCHANGED <<pending_cheat_flush_, objects_, lockVars, code, gameVars, logged_in_, gone,
                 own_ball_visible_, left>>

PlayerDisconnected ==
  /\ Handles /\ BmlFree /\ DbFree
  /\ \E p \in Peer \cap DOMAIN states_ :
       /\ states_' = Without(states_, {p})
       /\ scheduled' = scheduled \cup {p}
       /\ gone' = gone \cup {p}
  /\ UNCHANGED <<pending_cheat_flush_, revived, objects_, lockVars, code, template_init_,
                 ingame, flush, crashed, crossed, stranded, logged_in_, own_ball_visible_, left>>

(* OwnedCheatState and LatencyData: exists() is asked without the lock and *)
(* states_[id] written with it.                                            *)
CheatState ==
  /\ Act("cheats")
  /\ Handles
  /\ \E id \in DOMAIN states_, ch \in BOOLEAN :
       Starts("net", <<[op |-> "write", ids |-> {id}, cheated |-> {ch}]>>)
  /\ UNCHANGED <<dbVars, objects_, lockVars, gameVars, logged_in_, gone, own_ball_visible_>>

LatencyData(id) ==
  /\ Handles
  /\ id \in DOMAIN states_
  /\ Starts("net", <<[op |-> "write", ids |-> {id}, cheated |-> {}]>>)
  /\ UNCHANGED <<dbVars, objects_, lockVars, gameVars, logged_in_, gone, own_ball_visible_, left>>

(* (Mistake: only a change of cheat mode sets the flag.) *)
FlushedByCheats(m) == pending_cheat_flush_ \/ m.cheated # {}
Flushed(m) == TRUE
Write(id) ==
  /\ At("net", "write") /\ These("net") = {id} /\ DbFree
  /\ LET m == Head(code["net"])
         old == IF id \in DOMAIN states_ THEN states_[id] ELSE FALSE IN
       /\ states_' = With(states_, id, IF m.cheated = {} THEN old ELSE TRUE \in m.cheated)
       /\ revived' = IF id \in DOMAIN states_ THEN revived ELSE revived \cup {id}
       /\ pending_cheat_flush_' = Flushed(m)
  /\ Done("net")
  /\ UNCHANGED <<objects_, lockVars, gameVars, sessionVars, left>>

-----------------------------------------------------------------------------
(* The system.                                                             *)

Goes(t) ==
  \/ Destroy(t) \/ InitPlayers(t) \/ InitPlayer(t) \/ Made(t)
  \/ ShowObject(t) \/ ShowEntry(t) \/ HideEntry(t) \/ HideObject(t) \/ Unlock(t)
  \/ Clear(t) \/ LogOut(t)

FrameGoes == ReadFlush \/ UnsetFlush \/ Check \/ Draw \/ Drawn

Next ==
  \/ \E t \in Thread : Goes(t)
  \/ Frame \/ FrameGoes \/ UpdateFails \/ Update \/ SkipDraw \/ RunScheduled
  \/ LoadBalls \/ LoadLevel \/ StartLevel \/ StartMenu
  \/ ToggleOwnBall \/ ToggleLocked \/ ShowWithoutHandler
  \/ PressReload \/ TypeReload \/ Cleanup
  \/ LoginAccepted \/ Fill \/ PlayerConnected \/ PlayerDisconnected
  \/ CheatState
  \/ \E id \in Id : LatencyData(id) \/ Write(id)

(* Threads run, and the server sends latencies every few seconds.  Frames  *)
(* and messages come at times of their own: a frame that finds a lock      *)
(* taken is followed by one that does not, and not every latency falls     *)
(* between the two steps of flush.                                         *)
Fairness ==
  /\ \A t \in Thread : WF_vars(Goes(t))
  /\ WF_vars(FrameGoes) /\ WF_vars(StartLevel) /\ WF_vars(RunScheduled)
  /\ WF_vars(ToggleLocked)
  /\ SF_vars(Frame) /\ SF_vars(Update) /\ SF_vars(Draw)
  /\ WF_vars(Fill)
  /\ \A id \in Id : /\ WF_vars(Write(id))
                    /\ SF_vars(LatencyData(id) /\ code["game"] = <<>>)
                    /\ SF_vars(Write(id) /\ ~ At("game", "unset"))

Spec == Init /\ [][Next]_vars /\ Fairness

-----------------------------------------------------------------------------
(* Properties.                                                             *)

(* No frame reads the balls of an entry that has none: levels, keys,       *)
(* logins, departures and cleanup cannot bring it about in any order.      *)
(* Only reload in the console window can, in the middle of a frame.        *)
BallsThere == crashed /\ ~ stranded => crossed

atRest == (\A t \in Thread : code[t] = <<>>) /\ scheduled = {}

(* What is drawn goes with the player: between frames and messages nobody  *)
(* has an object who is not in db_, and after a session db_ is empty but   *)
(* for what the last of the batch, or a key pressed before its end,        *)
(* brought back.                                                           *)
ObjectsGoWithPlayers ==
  atRest /\ ~ crashed =>
    /\ DOMAIN objects_ \subseteq DOMAIN states_
    /\ ~ logged_in_ => DOMAIN states_ \subseteq revived

(* Everyone in db_ comes to have a ball and a label with the cheat mode    *)
(* they have, although a flag set between flush's two steps is lost, and   *)
(* frames that find a lock taken skip a player: the next latencies set it  *)
(* again.                                                                  *)
Stands(id, ch) ==
  ingame /\ logged_in_ /\ ~ crashed /\ id \in DOMAIN states_ /\ states_[id] = ch
Labelled(id, ch) ==
  HasBalls(id) /\ objects_[id].label = Label(ch)
LabelsFollow ==
  \A id \in Id, ch \in BOOLEAN : Stands(id, ch) ~> (Labelled(id, ch) \/ ~ Stands(id, ch))

=============================================================================
