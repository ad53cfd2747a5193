------------------------------- MODULE MCChat -------------------------------
(***************************************************************************)
(* A small instance of Chat: the panel and the icon of one cell, which     *)
(* share its room.                                                         *)
(***************************************************************************)
EXTENDS Chat

CONSTANTS panel, icon, cell

Joins == [c \in Component |-> cell]
=============================================================================
