------------------------------ MODULE MCQueues ------------------------------
(* Three queues that share no state, on small instances: the snapshots of  *)
(* a session on their way to the file (DebouncedSaves), the events of a    *)
(* turn (EventQueue), and the subtasks that wait for a slot                *)
(* (ResearchTools).  The first state says which of them moves; the others  *)
(* rest in their initial state, in which nothing of theirs is due.         *)
EXTENDS EventQueue, DebouncedSaves, ResearchTools

VARIABLE part

ASSUME QueuesAssumption == SavesAssumption /\ ResearchAssumption

QueuesInit ==
  part \in {"saves", "events", "subtasks"} /\ SavesInit /\ Init /\ ResearchInit
QueuesNext ==
  \/ part = "saves" /\ SavesNext /\ UNCHANGED <<part, vars, researchVars>>
  \/ part = "events" /\ Next /\ UNCHANGED <<part, savesVars, researchVars>>
  \/ part = "subtasks" /\ ResearchNext /\ UNCHANGED <<part, savesVars, vars>>

QueuesSpec ==
  /\ QueuesInit /\ [][QueuesNext]_<<part, savesVars, vars, researchVars>>
  /\ SavesFairness /\ Fairness /\ ResearchFairness
=============================================================================
