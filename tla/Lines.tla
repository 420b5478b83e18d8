------------------------------- MODULE Lines -------------------------------
(***************************************************************************)
(* What remains of a text without some of its lines.                       *)
(***************************************************************************)
EXTENDS Naturals, Sequences

Drop(seq, out) ==
  LET kept[n \in 0 .. Len(seq)] ==
        IF n = 0 THEN <<>>
        ELSE IF seq[n] \in out THEN kept[n - 1] ELSE Append(kept[n - 1], seq[n])
  IN  kept[Len(seq)]
=============================================================================
