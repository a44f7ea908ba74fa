---------------------------- MODULE MCSourceSide ----------------------------
(* The goroutines beside the log streams for TLC: Health, fed by the probe *)
(* and the attachments, and the decoder of a stream.  They share no state, *)
(* so a behaviour in which one of them moves shows all there is to see of  *)
(* it.  One of two containers is configured as "/b".                       *)
EXTENDS Health, LogDecoder

VARIABLE moving     \* the part that moves

MCNormalized == [c \in {"a", "/b"} |-> IF c = "/b" THEN "b" ELSE c]

SideInit == moving \in {"health", "decoder"} /\ Init /\ DecoderInit

SideNext ==
  /\ UNCHANGED moving
  /\ \/ moving = "health" /\ Next /\ UNCHANGED decoderVars
     \/ moving = "decoder" /\ DecoderNext /\ UNCHANGED vars

SideSpec == SideInit /\ [][SideNext]_<<moving, vars, decoderVars>>
=============================================================================
