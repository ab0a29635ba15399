--------------------------- MODULE SpeechService ---------------------------
(***************************************************************************)
(* What a speech worker promises to the program that drives it, without    *)
(* its threads, its channel, its cancellation set or its engine.           *)
(*                                                                         *)
(* Requests are numbered in the order in which they are accepted.  The     *)
(* replies come in that order and never interleave: READY first, then for  *)
(* each request an optional START, the audio CHUNKs after it, and exactly  *)
(* one final frame, DONE or ERROR.  The service may stop by itself only    *)
(* after it has stopped accepting and has answered every request; it may   *)
(* give up at any moment when its output is lost.                          *)
(***************************************************************************)
EXTENDS Naturals, Sequences

VARIABLES accepted,  \* how many requests were accepted
          open,      \* TRUE while requests are accepted
          wire,      \* the frames written, each with the number of its request
          status     \* "running", "stopped" or "aborted"

svars == <<accepted, open, wire, status>>

Final == {"DONE", "ERROR"}
OutType == {"READY", "START", "CHUNK"} \union Final
OutFrame == [type : OutType, n : Nat]

\* Between replies: the last frame ends a reply, or is READY.
Between(w) == w # <<>> /\ w[Len(w)].type \in Final \union {"READY"}
\* In a reply whose START is out and whose final frame is not.
Within(w) == w # <<>> /\ w[Len(w)].type \in {"START", "CHUNK"}
\* How many replies are complete.  Meant for a nonempty wire.
Answered(w) == IF Between(w) THEN w[Len(w)].n ELSE w[Len(w)].n - 1

SInit == /\ accepted = 0
         /\ open = TRUE
         /\ wire = <<>>
         /\ status = "running"

Accept == /\ open /\ status = "running"
          /\ accepted' = accepted + 1
          /\ UNCHANGED <<open, wire, status>>

Close == /\ open /\ status = "running"
         /\ open' = FALSE
         /\ UNCHANGED <<accepted, wire, status>>

Say(type, n) == /\ status = "running"
                /\ wire' = Append(wire, [type |-> type, n |-> n])
                /\ UNCHANGED <<accepted, open, status>>

Greet == wire = <<>> /\ Say("READY", 0)

Begin == /\ Between(wire) /\ Answered(wire) < accepted
         /\ Say("START", Answered(wire) + 1)

Audio == Within(wire) /\ Say("CHUNK", wire[Len(wire)].n)

Reply == /\ \/ Within(wire)
            \/ Between(wire) /\ Answered(wire) < accepted
         /\ \E type \in Final : Say(type, Answered(wire) + 1)

Stop == /\ status = "running" /\ ~open
        /\ Between(wire) /\ Answered(wire) = accepted
        /\ status' = "stopped"
        /\ UNCHANGED <<accepted, open, wire>>

Abort == /\ status = "running"
         /\ status' = "aborted"
         /\ UNCHANGED <<accepted, open, wire>>

SNext == Accept \/ Close \/ Greet \/ Begin \/ Audio \/ Reply \/ Stop \/ Abort

SSpec == SInit /\ [][SNext]_svars
============================================================================
