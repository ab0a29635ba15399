--------------------------- MODULE MCSpeechOutput ---------------------------
(***************************************************************************)
(* What becomes of speech, and of its text, on the way out: two scenes     *)
(* that share no state, the worker's streamer and an API request.  A       *)
(* behaviour is one scene; the variables of the other stay as they are.    *)
(*                                                                         *)
(* The streamer gets every utterance of up to nine samples of three        *)
(* levels, in every way of cutting it into chunks of up to three: shorter  *)
(* and longer than a block, an onset on either side of a chunk border, an  *)
(* end before, at and after the tail's cap.                                *)
(*                                                                         *)
(* The request has every text of up to five characters over a letter, a    *)
(* wide one, a space, a comma and a full stop, cut into pieces of two and  *)
(* three bytes; two pieces have up to five samples, from a quarter of the  *)
(* speed to four times it.                                                 *)
(***************************************************************************)
EXTENDS PcmStreamer, SpeechApi

CONSTANT MaxLength
Characters == {<<"a">>, <<"w", "_">>, <<" ">>, <<",">>, <<".">>}
MCTexts == UNION {{FlattenSeq(t) : t \in [1..n -> Characters]} : n \in 1..MaxLength}
MCSpeeds == {<<1, 4>>, <<3, 4>>, <<1, 1>>, <<5, 4>>, <<5, 2>>, <<4, 1>>}

VARIABLE scene
ovars == <<vars, svars, scene>>

AnyRequest == CHOOSE r \in Requests : TRUE

MCInit == /\ scene \in {"stream", "request"}
          /\ Init /\ ApiInit
          /\ scene = "stream" => request = AnyRequest

MCNext == \/ scene = "stream" /\ Next /\ UNCHANGED <<svars, scene>>
          \/ scene = "request" /\ ApiNext /\ UNCHANGED <<vars, scene>>

MCSpec == MCInit /\ [][MCNext]_ovars
=============================================================================
