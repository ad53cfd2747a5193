---------------------------- MODULE MCPublicLink ----------------------------
(***************************************************************************)
(* A small instance of PublicLink: one password, which is mandatory or     *)
(* not, three requests, of which the first loads the link when there is    *)
(* one already, and one failure.                                           *)
(***************************************************************************)
EXTENDS PublicLink
=============================================================================
