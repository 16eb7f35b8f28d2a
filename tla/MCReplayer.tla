----------------------------- MODULE MCReplayer -----------------------------
(* Records for TLC: players who come and go at the edges of segments of    *)
(* two time units, at the same time as other entries, and after a gap of   *)
(* several segments.                                                       *)
EXTENDS Replayer

CONSTANTS a, b, v

LoginAccepted(time, players) == [time |-> time, code |-> "LoginAcceptedV3", players |-> players]
Connected(time, p) == [time |-> time, code |-> "PlayerConnectedV2", players |-> {p}]
Disconnected(time, p) == [time |-> time, code |-> "PlayerDisconnected", players |-> {p}]
Other(time) == [time |-> time, code |-> "Other", players |-> {}]

ComeAndGo == <<LoginAccepted(0, {a}), Connected(1, b), Other(2), Disconnected(4, a)>>
Gap == <<LoginAccepted(1, {a, b}), Other(1), Disconnected(5, b), Connected(5, b)>>
Crowd == <<LoginAccepted(2, {b}), Connected(2, a), Disconnected(3, b), Other(4)>>
MCRecords == {ComeAndGo, Gap, Crowd}
=============================================================================
