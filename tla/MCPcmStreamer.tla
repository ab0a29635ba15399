---------------------------- MODULE MCPcmStreamer ----------------------------
(***************************************************************************)
(* The worker's streamer alone, for the two texts that it contradicts:     *)
(* utterances of up to six samples of three levels, cut in every way into  *)
(* chunks of up to three, are enough for an onset near the start of its    *)
(* chunk and for an utterance without any.                                 *)
(***************************************************************************)
EXTENDS PcmStreamer
=============================================================================
