----------------------------- MODULE WorkspacesMC -----------------------------
(* Instances of Workspaces: Tidy for its invariants, Loose for a run that  *)
(* leaves things behind.                                                   *)
EXTENDS Workspaces
CONSTANTS A, B, S, X

(* Windows, a special workspace and pins; no rules. *)
WindowSetup ==
  [bound |-> [w \in 1..4 |-> None], persistent |-> <<>>,
   default |-> [m \in Real |-> IF m = A THEN 1 ELSE None],
   hide |-> TRUE, asked |-> {1, S}, windows |-> {X}, lonely |-> FALSE]

(* Rules, and outputs that all go. *)
RuleSetup ==
  [bound |-> [w \in 1..5 |-> IF w = 2 THEN B ELSE None], persistent |-> <<2>>,
   default |-> [m \in Real |-> IF m = A THEN 1 ELSE None],
   hide |-> FALSE, asked |-> {2}, windows |-> {}, lonely |-> TRUE]

Tidy == {WindowSetup, RuleSetup}
Loose == {[WindowSetup EXCEPT !.lonely = TRUE]}
===============================================================================
