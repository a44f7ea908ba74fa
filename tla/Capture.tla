------------------------------ MODULE Capture ------------------------------
(***************************************************************************)
(* internal/context/capture.go: what Capture.Lines makes of the context    *)
(* of an alert.  A line is the sequence of its bytes: 1 is the first byte  *)
(* of a character, 0 a byte that continues one (10xxxxxx in UTF-8).        *)
(***************************************************************************)
EXTENDS Integers, Sequences

(* index counts from 0, as in Go.                                          *)
isUTF8Boundary(line, index) == index = Len(line) \/ line[index + 1] # 0

(* Back from maxBytes to the start of a character.                         *)
truncateUTF8(line, maxBytes) ==
  IF Len(line) <= maxBytes
  THEN line
  ELSE SubSeq(line, 1, CHOOSE k \in 0 .. maxBytes :
                         /\ k = 0 \/ isUTF8Boundary(line, k)
                         /\ \A j \in k + 1 .. maxBytes : ~isUTF8Boundary(line, j))

(* Definitions named Bad... are faulty variants used to test properties.   *)
BadFitting(lines, budget) ==
  LET loop[i \in 0 .. Len(lines)] ==
        IF i = 0 THEN [taken |-> <<>>, remaining |-> budget, full |-> FALSE]
        ELSE LET acc == loop[i - 1]
             IN IF acc.full \/ Len(lines[i]) > acc.remaining
                THEN [acc EXCEPT !.full = TRUE]
                ELSE [acc EXCEPT !.taken = Append(@, lines[i]),
                                 !.remaining = @ - Len(lines[i]) - 1]
  IN loop[Len(lines)]

(* Lines' two loops: lines are taken, each with a separator, up to the     *)
(* first one that does not fit.                                            *)
Fitting(lines, budget) ==
  LET loop[i \in 0 .. Len(lines)] ==
        IF i = 0 THEN [taken |-> <<>>, remaining |-> budget, full |-> FALSE]
        ELSE LET acc == loop[i - 1]
             IN IF acc.full \/ Len(lines[i]) + 1 > acc.remaining
                THEN [acc EXCEPT !.full = TRUE]
                ELSE [acc EXCEPT !.taken = Append(@, lines[i]),
                                 !.remaining = @ - (Len(lines[i]) + 1)]
  IN loop[Len(lines)]

Backward(lines) == [i \in 1 .. Len(lines) |-> lines[Len(lines) - i + 1]]

(* Capture.Lines.                                                          *)
CaptureLines(before, trigger, after, maxBytes) ==
  LET near == Fitting(Backward(before), maxBytes - Len(trigger))
      rest == Fitting(after, near.remaining)
  IN CASE maxBytes <= 0 -> <<>>
       [] maxBytes > 0 /\ Len(trigger) >= maxBytes -> <<truncateUTF8(trigger, maxBytes)>>
       [] OTHER -> Backward(near.taken) \o <<trigger>> \o rest.taken

(* The length of some lines with a separator between any two.              *)
Joined(lines) ==
  LET sum[i \in 0 .. Len(lines)] == IF i = 0 THEN -1 ELSE sum[i - 1] + Len(lines[i]) + 1
  IN sum[Len(lines)]

(* What the comment of Lines promises: the trigger always, then the        *)
(* nearest lines before it while they fit, then lines after it in what is  *)
(* left.  A trigger that is too long by itself is cut before a character,  *)
(* as late as fits.                                                        *)
Promised(lines, before, trigger, after, maxBytes) ==
  LET b(k) == SubSeq(before, Len(before) - k + 1, Len(before)) \o <<trigger>>
      a(k) == SubSeq(after, 1, k)
  IN /\ Joined(lines) <= maxBytes
     /\ IF Len(trigger) > maxBytes
        THEN \E k \in 0 .. maxBytes :
               /\ lines = <<SubSeq(trigger, 1, k)>>
               /\ k = 0 \/ trigger[k + 1] = 1
               /\ \A j \in k + 1 .. maxBytes : trigger[j + 1] = 0
        ELSE \E i \in 0 .. Len(before), j \in 0 .. Len(after) :
               /\ lines = b(i) \o a(j)
               /\ i < Len(before) => Joined(b(i + 1)) > maxBytes
               /\ j < Len(after) => Joined(b(i) \o a(j + 1)) > maxBytes
=============================================================================
