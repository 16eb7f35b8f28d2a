--------------------------- MODULE MCAnnouncements ---------------------------
(***************************************************************************)
(* Two of three log in: a player with the mod and a spectator, on whom     *)
(* cheats are forced, and one at a headless client, who is an operator.    *)
(***************************************************************************)
EXTENDS Announcements

MCForced == [c \in Conn |-> IF c \in Mod THEN {TRUE} ELSE {}]

Players == [k \in ActKind |-> IF k = "players" THEN 2 ELSE 0]
WithSpectator == [k \in ActKind |-> IF k \in {"players", "spectators"} THEN 1 ELSE 0]

(* Two acts of a kind, or one and a departure; words and warnings leave    *)
(* nothing behind, so they meet departures only.  A bulletin is set,       *)
(* cleared and set again.  A spectator differs in cheats and requests.     *)
MCBudgets ==
  {[Players EXCEPT ![k] = 2] : k \in {"cheats", "places"}}
    \cup {[Players EXCEPT !["texts"] = 3]}
    \cup {[Players EXCEPT ![k] = 1, !["leaves"] = 1] : k \in {"cheats", "places", "texts", "words"}}
    \cup {[Players EXCEPT !["modified"] = 1, !["leaves"] = 1]}
    \cup {[WithSpectator EXCEPT ![k] = 1] : k \in {"cheats", "words"}}

=============================================================================
