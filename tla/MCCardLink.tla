----------------------------- MODULE MCCardLink -----------------------------
(***************************************************************************)
(* CardLink with an ID of three characters, one of which is the code of    *)
(* the Game-ID command itself.                                             *)
(***************************************************************************)
EXTENDS CardLink

MCGameId == <<99, 33, 49>>
MCFits == BOOLEAN
=============================================================================
