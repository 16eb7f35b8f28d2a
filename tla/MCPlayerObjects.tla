--------------------------- MODULE MCPlayerObjects ---------------------------
(***************************************************************************)
(* One other player and the player's own ball.  Either levels change and a *)
(* command or key is given, or a second login follows, and cheat modes     *)
(* change.                                                                 *)
(***************************************************************************)
EXTENDS PlayerObjects

Budget(l, c, n, h) == [levels |-> l, commands |-> c, logins |-> n, cheats |-> h]
MCBudgets == {Budget(2, 1, 1, 0), Budget(1, 2, 1, 0), Budget(1, 1, 2, 0), Budget(1, 1, 1, 1)}

=============================================================================
