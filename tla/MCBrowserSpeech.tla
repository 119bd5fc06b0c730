--------------------------- MODULE MCBrowserSpeech ---------------------------
(***************************************************************************)
(* Instances of BrowserSpeech for TLC.                                     *)
(***************************************************************************)
EXTENDS BrowserSpeech
=============================================================================
