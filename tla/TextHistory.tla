---------------------------- MODULE TextHistory ----------------------------
(***************************************************************************)
(* What a backend that keeps no session of its own gets of the stored      *)
(* conversation: restoreTextHistory (Pi, Claude) and restoreHistory of     *)
(* DeepSeekAgent.  The newest characters are kept, up to a maximum.  A     *)
(* message is [type, length]; what is kept of one is [of, length], its     *)
(* number and how many of its last characters.                             *)
(***************************************************************************)
EXTENDS Naturals, Sequences, FiniteSets

Types == {"user", "assistant", "tool", "status"}
Quoted == {"user", "assistant", "tool"}
Spoken == {"user", "assistant"}

Lesser(a, b) == IF a < b THEN a ELSE b

(* content.slice(-remaining): with nothing remaining it would be the whole *)
(* content.                                                                *)
LastOf(length, remaining) == IF remaining = 0 THEN length ELSE Lesser(length, remaining)

Start(max) == [remaining |-> max, kept |-> <<>>, over |-> FALSE]

(* Variant with a fault: the end of the space is noticed one message late. *)
QuoteOver(messages, state, n) ==
  LET length == LastOf(messages[n].length, state.remaining)
  IN IF messages[n].type \notin Quoted \/ state.over THEN state
     ELSE [remaining |-> state.remaining - Lesser(length, state.remaining),
           kept |-> <<[of |-> n, length |-> length]>> \o state.kept,
           over |-> state.remaining = 0]

(* One turn of the loop of restoreTextHistory.                             *)
Quote(messages, state, n) ==
  LET length == LastOf(messages[n].length, state.remaining)
  IN IF messages[n].type \notin Quoted \/ state.over \/ state.remaining = 0 THEN state
     ELSE [remaining |-> state.remaining - length,
           kept |-> <<[of |-> n, length |-> length]>> \o state.kept, over |-> FALSE]

(* One turn of the loop of DeepSeekAgent.restoreHistory.                   *)
Restore(messages, state, n) ==
  LET length == LastOf(messages[n].length, state.remaining)
      left == state.remaining - length
  IN IF messages[n].type \notin Spoken \/ state.over THEN state
     ELSE [remaining |-> left, over |-> left = 0,
           kept |-> IF length = 0 THEN state.kept
                    ELSE <<[of |-> n, length |-> length]>> \o state.kept]

(* The loops go from the newest message to the oldest.                     *)
RestoreTextHistory(messages, max) ==
  LET after[n \in 0..Len(messages)] ==
        IF n = 0 THEN Start(max) ELSE Quote(messages, after[n - 1], Len(messages) + 1 - n)
  IN after[Len(messages)].kept
RestoreHistory(messages, max) ==
  LET after[n \in 0..Len(messages)] ==
        IF n = 0 THEN Start(max) ELSE Restore(messages, after[n - 1], Len(messages) + 1 - n)
  IN after[Len(messages)].kept

-----------------------------------------------------------------------------
(* A character that is kept is the one of a message at a distance from its *)
(* end.                                                                    *)
Characters(kept) == UNION {{kept[i].of} \X (1..kept[i].length) : i \in DOMAIN kept}

(* All but the first of what is kept is whole; nothing after the first is  *)
(* missing; and if anything is cut or missing the space is used up.        *)
NewestOf(messages, kept, types, max) ==
  LET length(n) == messages[n].length
      total == Cardinality(Characters(kept))
      from == IF kept = <<>> THEN Len(messages) + 1 ELSE kept[1].of
      ofTypes == {n \in DOMAIN messages : messages[n].type \in types /\ length(n) > 0}
  IN /\ total <= max
     /\ \A i \in 2..Len(kept) : kept[i].of > kept[i - 1].of /\ kept[i].length = length(kept[i].of)
     /\ \A i \in DOMAIN kept : messages[kept[i].of].type \in types
     /\ {n \in ofTypes : n >= from} \subseteq {kept[i].of : i \in DOMAIN kept}
     /\ (\E n \in ofTypes : n < from) \/ (kept # <<>> /\ kept[1].length < length(from))
          => total = max

(* A conversation that is restored again is the same.                      *)
Again(messages, max) ==
  LET kept == RestoreTextHistory(messages, max)
      restored == [i \in DOMAIN kept |-> [messages[kept[i].of] EXCEPT !.length = kept[i].length]]
  IN RestoreTextHistory(restored, max)

(* A backend gets the newest text of the conversation, as much as fits,    *)
(* in order; that ClaudeAgent restores it when the session is opened, after *)
(* every turn and for the prompt changes nothing.                          *)
HistoryIsNewest(messages, max) ==
  /\ NewestOf(messages, RestoreTextHistory(messages, max), Quoted, max)
  /\ NewestOf(messages, RestoreHistory(messages, max), Spoken, max)
  /\ Len(Again(messages, max)) = Len(RestoreTextHistory(messages, max))
  /\ \A i \in DOMAIN Again(messages, max) :
       Again(messages, max)[i] = [of |-> i, length |-> RestoreTextHistory(messages, max)[i].length]
=============================================================================
