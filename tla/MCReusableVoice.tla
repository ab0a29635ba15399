-------------------------- MODULE MCReusableVoice --------------------------
(***************************************************************************)
(* Two auditions that are to have the same name, so that a save is         *)
(* retried, collides, crosses another or loses its call.  Either three     *)
(* saves are made, through one service or one of them by hand, or two      *)
(* through two services, one after the other or beside each other.         *)
(***************************************************************************)
EXTENDS ReusableVoice

CONSTANTS b1, b2, w1
MCBundle == {b1, b2}
MCWord == {w1}

\* bounds: saves while one service was started, and through two.
MaxAlone == 3
MaxShared == 2
MCNext == /\ Next
          /\ IF proc'[2] = "new" THEN saves' + byHand' <= MaxAlone
                                 ELSE saves' <= MaxShared /\ byHand' = 0

MCSpec == /\ Init /\ [][MCNext]_vars
          /\ \A h \in Handler : WF_vars(HandlerStep(h))
          /\ \A c \in Call : WF_vars(Calls(c))
=============================================================================
