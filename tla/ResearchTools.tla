--------------------------- MODULE ResearchTools ---------------------------
(***************************************************************************)
(* The subtasks that runs delegate to isolated agents (ResearchTools and   *)
(* ResearchSlots): the slots they share, their queue, the budget of a      *)
(* run, the time limit of a subtask, the cancellation of a run, and the    *)
(* report that each subtask leaves in a file.                              *)
(*                                                                         *)
(* What runs without an await is one action: a call of delegate_research   *)
(* starts all its subtasks up to their wait for a slot, and a subtask that *)
(* ends gives its slot to the next at once.                                *)
(***************************************************************************)
EXTENDS Naturals, Sequences, FiniteSets

CONSTANTS
  Runs,        \* the runs, each with the signal that cancels it
  Calls,       \* the calls of delegate_research, numbers
  Subtasks,    \* the subtasks, numbers
  MaxSlots,    \* slots for all runs together (3)
  MaxSubtasks, \* subtasks of one run (6)
  MaxFaults    \* bound on the writes that fail

VARIABLES
  cancelled, \* the runs whose signal has aborted
  expired,   \* the subtasks whose time limit has passed
  slots,     \* active of ResearchSlots
  waiters,   \* its queue
  calls,     \* [run, subs, state] of each call
  phase,     \* where a subtask is
  status,    \* its record, after the end of the process what it said last
  report,    \* its file
  scope,     \* the subtasks of each run so far
  faults, power

researchVars == <<cancelled, expired, slots, waiters, calls, phase, status, report, scope,
                  faults, power>>

ResearchAssumption == IsFiniteSet(Subtasks) /\ MaxSlots \in Nat /\ MaxSubtasks \in Nat

Final == {"completed", "failed", "cancelled"}
NoCall == [run |-> "none", subs |-> {}, state |-> "unused"]

ResearchInit ==
  /\ cancelled = {} /\ expired = {}
  /\ slots = 0 /\ waiters = <<>>
  /\ calls = [k \in Calls |-> NoCall]
  /\ phase = [c \in Subtasks |-> "unused"] /\ status = [c \in Subtasks |-> "none"]
  /\ report = [c \in Subtasks |-> "none"]
  /\ scope = [r \in Runs |-> 0]
  /\ faults = 0 /\ power = "on"

CallOf(c) == CHOOSE k \in Calls : c \in calls[k].subs
RunOf(c) == calls[CallOf(c)].run
Stopped(c) == c \in expired \/ RunOf(c) \in cancelled
Orders(set) == {q \in [1..Cardinality(set) -> set] : {q[i] : i \in DOMAIN q} = set}

(* Calls and subtasks are numbered as they come.                           *)
First(set, unused) == \A x \in set, y \in unused \ set : x < y

(* delegate_research.  The first reports that cannot be written end their  *)
(* subtasks at once; of the others as many as there are free slots get one.*)
Delegate(k, r, subs, unwritten) ==
  LET asking == subs \ unwritten
      free == IF MaxSlots - slots < Cardinality(asking) THEN MaxSlots - slots
                                                        ELSE Cardinality(asking)
  IN /\ calls[k].state = "unused" /\ r \notin cancelled
     /\ subs # {} /\ \A c \in subs : phase[c] = "unused"
     /\ First({k}, {j \in Calls : calls[j].state = "unused"})
     /\ First(subs, {c \in Subtasks : phase[c] = "unused"})
     /\ scope[r] + Cardinality(subs) <= MaxSubtasks
     /\ faults + Cardinality(unwritten) <= MaxFaults
     /\ faults' = faults + Cardinality(unwritten)
     /\ scope' = [scope EXCEPT ![r] = @ + Cardinality(subs)]
     /\ calls' = [calls EXCEPT ![k] = [run |-> r, subs |-> subs, state |-> "waiting"]]
     /\ \E order \in Orders(asking) :
          LET granted == {order[i] : i \in 1..free}
          IN /\ waiters' = waiters \o SubSeq(order, free + 1, Len(order))
             /\ slots' = slots + free
             /\ phase' = [c \in Subtasks |->
                            IF c \in unwritten THEN "rejected"
                            ELSE IF c \in granted THEN "granted"
                            ELSE IF c \in asking THEN "waiting" ELSE phase[c]]
     /\ status' = [c \in Subtasks |-> IF c \in subs THEN "queued" ELSE status[c]]
     /\ report' = [c \in Subtasks |-> IF c \in asking THEN "queued" ELSE report[c]]
     /\ UNCHANGED <<cancelled, expired>>

(* The queue without some of its members, the others in their order.       *)
Without(queue, cs) ==
  LET left == {i \in 1..Len(queue) : queue[i] \notin cs}
  IN [j \in 1..Cardinality(left) |->
        queue[CHOOSE i \in left : Cardinality({h \in left : h <= i}) = j]]

(* Variant with a fault: they leave the queue and nobody tells them.       *)
WithdrawnUntold(cs) == waiters' = Without(waiters, cs) /\ UNCHANGED phase

(* An abort takes those that wait out of the queue.                        *)
Withdrawn(cs) ==
  /\ waiters' = Without(waiters, cs)
  /\ phase' = [c \in Subtasks |-> IF c \in cs /\ phase[c] = "waiting" THEN "refused" ELSE phase[c]]

CancelRun(r) ==
  /\ r \notin cancelled /\ scope[r] > 0
  /\ cancelled' = cancelled \cup {r}
  /\ Withdrawn(UNION {calls[k].subs : k \in {k \in Calls : calls[k].run = r}})
  /\ UNCHANGED <<expired, slots, calls, status, report, scope, faults>>

Expire(c) ==
  /\ phase[c] \in {"waiting", "granted", "running"} /\ c \notin expired
  /\ expired' = expired \cup {c}
  /\ Withdrawn({c})
  /\ UNCHANGED <<cancelled, slots, calls, status, report, scope, faults>>

(* Variant with a fault: the slot is given back even if none was granted.  *)
ReleasedToAlways(c, last) ==
  IF waiters = <<>>
  THEN phase' = [phase EXCEPT ![c] = last] /\ slots' = slots - 1 /\ UNCHANGED waiters
  ELSE /\ phase' = [phase EXCEPT ![c] = last, ![Head(waiters)] = "granted"]
       /\ waiters' = Tail(waiters) /\ UNCHANGED slots

(* The catch and finally blocks: the slot, if there is one, goes to the    *)
(* first that waits, then the last report is written, in place.            *)
ReleasedTo(c, last) ==
  IF phase[c] = "refused"
  THEN phase' = [phase EXCEPT ![c] = last] /\ UNCHANGED <<slots, waiters>>
  ELSE IF waiters = <<>>
  THEN phase' = [phase EXCEPT ![c] = last] /\ slots' = slots - 1 /\ UNCHANGED waiters
  ELSE /\ phase' = [phase EXCEPT ![c] = last, ![Head(waiters)] = "granted"]
       /\ waiters' = Tail(waiters) /\ UNCHANGED slots

Ends(c, with) ==
  /\ status' = [status EXCEPT ![c] = IF Stopped(c) THEN "cancelled" ELSE with]
  /\ \/ report' = [report EXCEPT ![c] = status'[c]] /\ ReleasedTo(c, "ended") /\ UNCHANGED faults
     \/ faults < MaxFaults /\ faults' = faults + 1 /\ ReleasedTo(c, "rejected")
        /\ \E left \in {report[c], "torn"} : report' = [report EXCEPT ![c] = left]
  /\ UNCHANGED <<cancelled, expired, calls, scope>>

EndRefused(c) == phase[c] = "refused" /\ Ends(c, "cancelled")

(* The slot was granted: the folder and the report come before the agent.  *)
Begin(c) ==
  /\ phase[c] = "granted" /\ ~Stopped(c)
  /\ phase' = [phase EXCEPT ![c] = "running"]
  /\ status' = [status EXCEPT ![c] = "running"] /\ report' = [report EXCEPT ![c] = "running"]
  /\ UNCHANGED <<cancelled, expired, slots, waiters, calls, scope, faults>>
EndAtStart(c) ==
  /\ phase[c] = "granted"
  /\ Stopped(c) \/ faults < MaxFaults
  /\ Ends(c, "failed")

(* The agent answers, fails, or ends since it was destroyed.               *)
EndAnswered(c) == phase[c] = "running" /\ ~Stopped(c) /\ Ends(c, "completed")
EndFailed(c) == phase[c] = "running" /\ ~Stopped(c) /\ Ends(c, "failed")
EndStopped(c) == phase[c] = "running" /\ Stopped(c) /\ Ends(c, "cancelled")

(* Variant with a fault: reports that were not written are passed over.    *)
ReturnAnyway(k) ==
  /\ calls[k].state = "waiting"
  /\ \A c \in calls[k].subs : phase[c] \in {"ended", "rejected"}
  /\ calls' = [calls EXCEPT ![k].state = "answered"]
  /\ UNCHANGED <<cancelled, expired, slots, waiters, phase, status, report, scope, faults>>

(* Every subtask is awaited, even when the report of one was not written.  *)
Return(k) ==
  /\ calls[k].state = "waiting"
  /\ \A c \in calls[k].subs : phase[c] \in {"ended", "rejected"}
  /\ calls' = [calls EXCEPT ![k].state =
                 IF \E c \in calls[k].subs : phase[c] = "rejected" THEN "failed" ELSE "answered"]
  /\ UNCHANGED <<cancelled, expired, slots, waiters, phase, status, report, scope, faults>>

(* The program stops, perhaps while a report is written; nobody waits for  *)
(* a call any more.                                                        *)
EndProcess ==
  /\ power' = "off"
  /\ \E torn \in SUBSET {c \in Subtasks : phase[c] \in {"granted", "running", "refused"}} :
       /\ Cardinality(torn) <= 1
       /\ report' = [c \in Subtasks |-> IF c \in torn THEN "torn" ELSE report[c]]
  /\ phase' = [c \in Subtasks |-> "gone"]
  /\ calls' = [k \in Calls |-> [calls[k] EXCEPT !.state = IF @ = "waiting" THEN "gone" ELSE @]]
  /\ slots' = 0 /\ waiters' = <<>>
  /\ UNCHANGED <<cancelled, expired, status, scope, faults>>

(* A start (recoverSession) rewrites, of the sessions whose header is      *)
(* listed, the reports that say that their subtask goes on; a rewrite that *)
(* fails is passed over and may leave a torn file.  (Only last reports are *)
(* too long to be looked at.)                                              *)
Recover ==
  /\ power # "on" /\ power' = "recovered"
  /\ \E listed \in SUBSET Runs :
       LET orphans == {c \in Subtasks : report[c] \in {"queued", "running"} /\ RunOf(c) \in listed}
       IN \E unwritten \in SUBSET orphans : \E torn \in SUBSET unwritten :
            /\ faults + Cardinality(unwritten) <= MaxFaults
            /\ faults' = faults + Cardinality(unwritten)
            /\ report' = [c \in Subtasks |->
                            IF c \in torn THEN "torn"
                            ELSE IF c \in orphans \ unwritten THEN "interrupted" ELSE report[c]]
  /\ UNCHANGED <<cancelled, expired, slots, waiters, calls, phase, status, scope>>

Steps ==
  \/ \E k \in Calls : \/ \E r \in Runs : \E subs \in SUBSET Subtasks :
                           \E unwritten \in SUBSET subs : Delegate(k, r, subs, unwritten)
                      \/ Return(k)
  \/ \E r \in Runs : CancelRun(r)
  \/ \E c \in Subtasks : \/ Expire(c) \/ EndRefused(c) \/ Begin(c) \/ EndAtStart(c)
                         \/ EndAnswered(c) \/ EndFailed(c) \/ EndStopped(c)
ResearchNext ==
  \/ power = "on" /\ UNCHANGED power /\ Steps
  \/ power = "on" /\ EndProcess
  \/ Recover

ResearchSpec == ResearchInit /\ [][ResearchNext]_researchVars

(* Timers fire, a destroyed agent ends its stream (ChatEnds of PiHost), a  *)
(* continuation that is due runs.  Agents need not answer.                 *)
Running(A) == power = "on" /\ UNCHANGED power /\ A
ResearchFairness ==
  /\ \A c \in Subtasks :
       /\ WF_researchVars(Running(Expire(c))) /\ WF_researchVars(Running(EndRefused(c)))
       /\ WF_researchVars(Running(Begin(c) \/ EndAtStart(c)))
       /\ WF_researchVars(Running(EndStopped(c)))
  /\ \A k \in Calls : WF_researchVars(Running(Return(k)))

FairResearchSpec == ResearchSpec /\ ResearchFairness

-----------------------------------------------------------------------------
(* A slot is held by exactly the subtasks that were granted one and have   *)
(* not ended, none is free while somebody waits, nobody waits whose run    *)
(* was cancelled or whose time is over, and the subtasks of a run are      *)
(* within its budget, all its calls together (ResearchSlots, execute).     *)
Holders == {c \in Subtasks : phase[c] \in {"granted", "running"}}
LimitsHold ==
  /\ slots = Cardinality(Holders) /\ slots <= MaxSlots
  /\ waiters # <<>> => slots = MaxSlots
  /\ \A i \in DOMAIN waiters : phase[waiters[i]] = "waiting" /\ ~Stopped(waiters[i])
  /\ \A c \in Subtasks : phase[c] = "waiting" => \E i \in DOMAIN waiters : waiters[i] = c
  /\ power = "on" =>
       \A r \in Runs :
         Cardinality(UNION {calls[k].subs : k \in {k \in Calls : calls[k].run = r}}) <= MaxSubtasks

(* A call that answers names reports that say of every subtask what became *)
(* of it, and go on saying so when the program stops and starts; and no    *)
(* report that says how its subtask ended says anything else than what it  *)
(* was, whatever writes fail, are torn or come after (runChild,            *)
(* recoverSession).                                                        *)
ReportsAreTrue ==
  /\ \A k \in Calls : calls[k].state = "answered" =>
       \A c \in calls[k].subs : report[c] = status[c] /\ status[c] \in Final
  /\ \A c \in Subtasks : report[c] \in Final => report[c] = status[c]

(* Every call of delegate_research returns, whatever becomes of its        *)
(* subtasks and however long they would have had to wait for a slot.       *)
DelegationsEnd == \A k \in Calls : calls[k].state = "waiting" ~> calls[k].state # "waiting"
=============================================================================
