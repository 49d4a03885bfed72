------------------------------ MODULE MCCapture -----------------------------
(* An instance of Capture for TLC: a title that stays on the screen while  *)
(* other texts come and go.                                                *)
EXTENDS Capture
CONSTANTS title, a, b, c, d
MCScreens == {<<title, a>>, <<title, b, c>>, <<title, d>>, <<a, title, a>>}
=============================================================================
