---------------------------- MODULE MCPortalChat ----------------------------
(***************************************************************************)
(* Two chats beside one write. *)
(***************************************************************************)
EXTENDS PortalChat

CONSTANTS c1, c2, w1
=============================================================================
