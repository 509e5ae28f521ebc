---------------------------- MODULE TextPreview ----------------------------
(***************************************************************************)
(* The preview of a file (readFilePreview, truncateToValidUtf8): a file of *)
(* more than MaxFull bytes is cut after Truncated bytes, and then back to  *)
(* the end of a character.  Of a byte only its part in UTF-8 is kept: a    *)
(* character of its own, the lead of 2 to 4 bytes, a continuation.         *)
(***************************************************************************)
EXTENDS Naturals, Sequences, SequencesExt

CONSTANTS
  MaxFull,   \* MAX_FULL_PREVIEW_BYTES
  Truncated  \* TRUNCATED_PREVIEW_BYTES

ASCII == 1
Continuation == 0

(* Variant with a fault: a lead of four bytes is taken for one of three.   *)
ExpectedAtMostTwo(byte) == IF byte > 2 THEN 2 ELSE byte - 1

(* The continuations that a lead asks for; bytes that are none ask for 0.  *)
Expected(byte) == IF byte \in 2..4 THEN byte - 1 ELSE 0

(* The loop looks at four bytes from the end.                              *)
Continuations(buf) ==
  LET n == CHOOSE n \in 0..4 :
             /\ n <= Len(buf)
             /\ \A i \in 1..n : buf[Len(buf) + 1 - i] = Continuation
             /\ n = 4 \/ n = Len(buf) \/ buf[Len(buf) - n] # Continuation
  IN n

TruncateToValidUtf8(buf) ==
  LET n == Continuations(buf)
      lead == Len(buf) - n
  IN IF n = 4 \/ lead = 0 \/ buf[lead] = ASCII THEN SubSeq(buf, 1, lead)
     ELSE IF n < Expected(buf[lead]) THEN SubSeq(buf, 1, lead - 1)
     ELSE buf

ReadFilePreview(bytes) ==
  IF Len(bytes) > MaxFull THEN TruncateToValidUtf8(SubSeq(bytes, 1, Truncated)) ELSE bytes

-----------------------------------------------------------------------------
(* A text is the sequence of the lengths of its characters.                *)
Character(length) == [i \in 1..length |-> IF i = 1 THEN length ELSE Continuation]
Bytes(text) == FlattenSeq([i \in DOMAIN text |-> Character(text[i])])

(* Of a text the preview has whole characters only, all of them if the     *)
(* text is short, and otherwise as many as fit.                            *)
PreviewIsWhole(text) ==
  LET shown == ReadFilePreview(Bytes(text))
      fits(n) == Len(Bytes(SubSeq(text, 1, n))) <= Truncated
  IN IF Len(Bytes(text)) <= MaxFull
     THEN shown = Bytes(text)
     ELSE \E n \in 0..(Len(text) - 1) :
            shown = Bytes(SubSeq(text, 1, n)) /\ fits(n) /\ ~fits(n + 1)
=============================================================================
