----------------------------- MODULE IdleNotifyMC -----------------------------
(* Timeouts for the instances of IdleNotify: two ticks for a notification  *)
(* that obeys inhibitors, one for one that does not.                       *)
EXTENDS IdleNotify

MCTimeout == [n \in Notifs |-> IF n \in Obeying THEN 2 ELSE 1]
===============================================================================
