---------------------------- MODULE MCProcessor ----------------------------
(* Instances of Processor for TLC: rule 1 alerts at once, rule 2 waits for *)
(* two lines after its trigger.  The second line is too long for rule 1,   *)
(* whose limit falls inside its second character; with the first line      *)
(* before it, it is one byte too long for rule 2, and with the third one   *)
(* after it, it just fits.                                                 *)
EXTENDS Processor

MCRaisable == {<<>>, <<1>>, <<1, 2>>}
MCBefore == <<2, 3>>
MCAfter == <<0, 2>>
MCMaxBytes == <<3, 7>>
MCText == <<<<1, 1>>, <<1, 0, 1, 0, 0>>, <<1>>, <<1, 0>>>>
=============================================================================
