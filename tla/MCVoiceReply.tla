---------------------------- MODULE MCVoiceReply ----------------------------
(***************************************************************************)
(* Instances of VoiceReply for TLC.                                        *)
(***************************************************************************)
EXTENDS VoiceReply
=============================================================================
