-------------------------- MODULE MCServerSession --------------------------
(* Small instances of ServerSession for TLC. *)
EXTENDS ServerSession, TLC

CONSTANTS c1, c2, foo, u1, u2

N(w, caps, spec) == [word |-> w, caps |-> caps, spectator |-> spec]
Login(u, n) == [uuid |-> u, nick |-> n, version |-> "current", wellFormed |-> TRUE]

NoOps == [n \in RealNick |-> NoUuid]
NoForced == [u \in Uuid |-> NoNick]

PlainConfig == [op_mode |-> TRUE, ghost_mode |-> FALSE, banned_players |-> {},
                op_players |-> NoOps, forced_names |-> NoForced, reserved_names |-> NoOps]

(* u1 is operator under the name foo, and players do not see each other. *)
GhostConfig == [PlainConfig EXCEPT !.ghost_mode = TRUE,
                                   !.op_players[N(foo, FALSE, FALSE)] = u1]

PlainConfigs == {PlainConfig}
ReloadedConfigs == {PlainConfig, GhostConfig}

(* Two players and three spellings of one name: "foo" and "Foo" clash,     *)
(* "*foo" may be online beside either; and a name that is too long.        *)
SmallLogins == {Login(u1, N(foo, FALSE, FALSE)),
                Login(u2, N(foo, TRUE, FALSE)),
                Login(u2, N(foo, FALSE, TRUE)),
                [Login(u1, N(foo, TRUE, TRUE)) EXCEPT !.wellFormed = FALSE]}
TwoPlayers == {Login(u1, N(foo, FALSE, FALSE)), Login(u2, N(foo, FALSE, TRUE))}

KickAndChat == {[code |-> "KickRequestByName", target |-> N(foo, FALSE, FALSE)],
                [code |-> "Other"]}
EveryRequest == KickAndChat
                \cup {[code |-> "LegacyLogin"], [code |-> "FatalError"]}
                \cup [code : {"KickRequestById"}, target : Conn]

ConnSymmetry == Permutations(Conn)
=============================================================================
