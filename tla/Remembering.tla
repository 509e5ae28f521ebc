---------------------------- MODULE Remembering ----------------------------
(***************************************************************************)
(* What is left of the messages that an agent remembers, [type, turn,      *)
(* text], when its history is restored: restoreTextHistory and             *)
(* DeepSeekAgent.restoreHistory as loops over their texts.                 *)
(***************************************************************************)
EXTENDS Naturals, Sequences, FiniteSets

History == INSTANCE TextHistory

Lengths(messages) ==
  [i \in DOMAIN messages |-> [type |-> messages[i].type, length |-> Len(messages[i].text)]]

(* content.slice(-n) *)
LastWords(text, n) == SubSeq(text, Len(text) - n + 1, Len(text))
Trimmed(messages, kept) ==
  [i \in DOMAIN kept |->
     [messages[kept[i].of] EXCEPT !.text = LastWords(@, kept[i].length)]]

Characters(messages) == UNION {{i} \X (1..Len(messages[i].text)) : i \in DOMAIN messages}

(* The end of a conversation: its newest messages, the first of them       *)
(* perhaps without its beginning, and all of them unless they fill the     *)
(* space.                                                                  *)
IsNewestOf(newest, messages, max) ==
  LET gone == Len(messages) - Len(newest)
  IN /\ Len(newest) <= Len(messages)
     /\ \A i \in 2..Len(newest) : newest[i] = messages[gone + i]
     /\ newest # <<>> => \E n \in 1..Len(messages[gone + 1].text) :
          newest[1] = [messages[gone + 1] EXCEPT !.text = LastWords(@, n)]
     /\ newest # messages => Cardinality(Characters(newest)) >= max
=============================================================================
