---------------------------- MODULE MCStudioRoom ----------------------------
(***************************************************************************)
(* Two tabs in the room of a crew; one loads another crew.                 *)
(***************************************************************************)
EXTENDS StudioRoom

Renames == {SessionOf("collab", 2, 0, 1)}
=============================================================================
