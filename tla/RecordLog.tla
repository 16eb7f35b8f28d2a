----------------------------- MODULE RecordLog -----------------------------
(***************************************************************************)
(* What a flight recorder promises: it saves what it received, once each   *)
(* and in the order of arrival.  Entries are told apart by their place in  *)
(* that order.  When an entry is saved is left open.                       *)
(***************************************************************************)
EXTENDS Naturals, Sequences

VARIABLES
  received,      \* how many entries have arrived
  saved          \* the entries in the file

logVars == <<received, saved>>

Init == received = 0 /\ saved = <<>>

Receive ==
  /\ received' = received + 1
  /\ UNCHANGED saved

Save ==
  /\ Len(saved) < received
  /\ saved' = Append(saved, Len(saved) + 1)
  /\ UNCHANGED received

Spec == Init /\ [][Receive \/ Save]_logVars
=============================================================================
