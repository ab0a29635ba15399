-------------------------- MODULE MCVoiceRegistry --------------------------
(***************************************************************************)
(* Three calls over two auditions, with one operation id or none, for new  *)
(* voices and for given ones.                                              *)
(***************************************************************************)
EXTENDS VoiceRegistry

CONSTANTS b1, b2
MCBundle == {b1, b2}
=============================================================================
