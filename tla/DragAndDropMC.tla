---------------------------- MODULE DragAndDropMC ----------------------------
(***************************************************************************)
(* Two clients with a surface each, two data sources and two offers at a   *)
(* time.  The first source, the second surface and the second device may   *)
(* go; the second source may be dragged again.                             *)
(***************************************************************************)
EXTENDS DragAndDrop, TLC

CONSTANTS c1, c2, x1, x2

OneEach == x1 :> c1 @@ x2 :> c2
=============================================================================
