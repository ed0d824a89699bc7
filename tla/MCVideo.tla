------------------------------ MODULE MCVideo ------------------------------
(***************************************************************************)
(* Video with a screen of four columns and two rows of log.  The first and *)
(* the last character of the font, those beside them, and both ends of an  *)
(* atlas row occur; the title is at its margin, the subtitle centred.      *)
(***************************************************************************)
EXTENDS Video

MCTitle == <<80, 122>>
MCSubtitle == <<32, 118>>
MCLogs == {<<<<>>>>, <<<<47, 48, 122, 123>>>>, <<<<31, 255>>, <<>>>>, <<<<33>>, <<65, 32, 79, 122>>>>}
=============================================================================
