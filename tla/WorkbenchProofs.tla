-------------------------- MODULE WorkbenchProofs --------------------------
(***************************************************************************)
(* Workbench for any sessions, runs, texts, clicks and lost connections.   *)
(***************************************************************************)
EXTENDS Workbench, PicksProofs, TLAPS

-----------------------------------------------------------------------------
(* What is under way and what it may say *)

Numbers == 0..MaxRuns
Names == {"user", "text", "tool"} \X Numbers
Requests == Nat \X Nat
Counts == {[n \in 1..k |-> n] : k \in Nat}
Message == [id : Names, req : Requests, text : Counts]
Entry == [id : Names, snap : Counts \cup {None}, delta : {<<>>}, full : Counts \cup {None}]

Users == [k : {"user"}, s : Sessions, m : Message, reply : BOOLEAN]
Deltas == [k : {"delta"}, s : Sessions, id : Names, text : Seq(Nat), snap : Counts]
Completes == [k : {"complete"}, s : Sessions, id : Names, text : Counts]
Tools == [k : {"tool"}, s : Sessions]
Statuses == [k : {"status"}, s : Sessions, r : Numbers]
Whys == {"connected", "sent", "status"}
Lists == [k : {"list"}, why : Whys, busy : SUBSET Sessions]
Loads == [k : {"messages"}, s : Sessions, data : Seq(Message)]
Acks == [k : {"sent"}, ok : BOOLEAN]
Events == Users \cup Deltas \cup Completes \cup Tools \cup Statuses
Packets == Events \cup Lists \cup Loads \cup Acks
Asks == [k : {"list"}, why : Whys] \cup [k : {"messages"}, s : Sessions]
        \cup [k : {"send"}, s : Sessions, request : Requests]

Unique(messages) == \A i, j \in DOMAIN messages : messages[i].id = messages[j].id => i = j

\* The messages of a session, in its file or on their way into it.
IdsOf(s) == Texts(stored[s]) \cup Texts(transcript[s])

\* Whatever the window has been sent is of its session, or is not for it;
\* an answer to a load is of the session that is selected.
Sound(e) ==
  /\ e.k = "user" => e.m.id \in IdsOf(e.s)
  /\ e.k \in {"delta", "complete"} => e.id \in IdsOf(e.s)
  /\ e.k = "messages" => e.s = sel /\ Unique(e.data) /\ Texts(e.data) \subseteq IdsOf(e.s)
True == {e \in Packets : Sound(e)}
Wanted == {a \in Asks : a.k = "messages" => a.s = sel}

ServerTypes ==
  /\ runs \in Numbers
  /\ stored \in [Sessions -> Seq(Message)] /\ transcript \in [Sessions -> Seq(Message)]
  /\ segment \in [Sessions -> Names \cup {NoId}]
  /\ process \in [Sessions -> Numbers]

\* Nothing is twice in a file or in a transcript, nothing has the number of a
\* run to come, and the segment being written is in the transcript.
Apart ==
  /\ \A s \in Sessions : Unique(stored[s]) /\ Unique(transcript[s])
  /\ \A s \in Sessions : process[s] <= runs /\ \A id \in IdsOf(s) : id[2] <= runs
  /\ \A s \in Sessions : segment[s] # NoId => Has(transcript[s], segment[s])

UnsentOK ==
  /\ unsent \in [Sessions -> (Events \cap True) \cup {NoEvent}]
  /\ \A s \in Sessions : unsent[s] # NoEvent => unsent[s].s = s

LinkOK ==
  /\ online \in BOOLEAN
  /\ wire \in Seq(True) /\ asks \in Seq(Wanted)
  /\ ~online => asks = <<>> /\ wire = <<>>

SelectionOK ==
  /\ selected \in Sessions \cup {NoSession} /\ effected = sel
  /\ selected = NoSession => sel = NoSession
  /\ sel \in Sessions \/ (sel = NoSession /\ load # "timer" /\ batch = <<>> /\ shown = <<>>)

ViewOK ==
  /\ shown \in Seq(Message) /\ Unique(shown)
  /\ batch \in Seq(Entry) /\ Unique(batch)
  /\ sel \in Sessions => Texts(shown) \cup Texts(batch) \subseteq IdsOf(sel)

RestOK ==
  /\ busy \subseteq Sessions /\ load \in {"none", "sent", "timer"}
  /\ observed \in Numbers /\ feedback \in Numbers
  /\ batchTimer = (batch # <<>>)
  /\ text \in Nat /\ ids \in Nat
  /\ slot \in [s : Sessions \cup {NoSession}, request : Requests]

Inv == ServerTypes /\ Apart /\ UnsentOK /\ LinkOK /\ SelectionOK /\ ViewOK /\ RestOK

-----------------------------------------------------------------------------
(* Sequences *)

LEMMA SeqMono ==
  ASSUME NEW A, NEW B, A \subseteq B, NEW q \in Seq(A)
  PROVE  q \in Seq(B)
OBVIOUS

\* A text that goes on where it stopped is still 1, 2, ...
LEMMA CountGrows ==
  ASSUME NEW t \in Counts
  PROVE  Append(t, Len(t) + 1) \in Counts
<1>1. PICK k \in Nat : t = [n \in 1..k |-> n]
  BY DEF Counts
<1>2. t \in Seq(Nat) /\ Len(t) = k /\ \A n \in 1..k : t[n] = n
  BY <1>1
<1>3. PICK l : l = Append(t, k + 1)
  OBVIOUS
<1>4. l \in Seq(Nat) /\ Len(l) = k + 1 /\ \A n \in 1..(k + 1) : l[n] = n
  BY <1>2, <1>3
<1>5. l = [n \in 1..(k + 1) |-> n]
  BY <1>4
<1>6. PICK j \in Nat : j = k + 1
  OBVIOUS
<1>7. l \in Counts
  BY ONLY <1>5, <1>6, j \in Nat, Zenon DEF Counts
<1>8. Append(t, Len(t) + 1) = l
  BY <1>2, <1>3
<1>9. QED
  BY <1>7, <1>8

LEMMA NoText == <<>> \in Counts
<1>1. [n \in 1..0 |-> n] = <<>>
  OBVIOUS
<1>2. QED
  BY <1>1 DEF Counts

LEMMA InTexts ==
  ASSUME NEW q, NEW id
  PROVE  id \in Texts(q) <=> Has(q, id)
BY Zenon DEF Texts, Has

LEMMA BesidesIs ==
  ASSUME NEW A, NEW q \in Seq(A), NEW p
  PROVE  /\ Besides(q, p) \in Seq(A)
         /\ Unique(q) => Unique(Besides(q, p))
         /\ Texts(Besides(q, p)) = Texts(q) \ Texts(p)
<1>1. PICK P : P = {i \in DOMAIN q : ~Has(p, q[i].id)}
  OBVIOUS
<1>2. PICK r : r = Besides(q, p)
  OBVIOUS
<1>3. r = Picked(q, P)
  BY <1>1, <1>2 DEF Besides
<1>4. r \in Seq(A) /\ \E g : Picks(q, P, r, Len(q), g)
  BY <1>3, PickedIs
<1>5. PICK g : Picks(q, P, r, Len(q), g)
  BY <1>4
<1>6. DOMAIN r = 1..Len(r) /\ DOMAIN q = 1..Len(q) /\ P \subseteq 1..Len(q) /\ P \cap (1..Len(q)) = P
  BY <1>1, <1>4
<1>7. /\ \A k \in DOMAIN r : g[k] \in P /\ g[k] \in DOMAIN q /\ r[k] = q[g[k]]
      /\ \A i \in P : \E k \in DOMAIN r : g[k] = i
  BY <1>5, <1>6 DEF Picks
<1>8. \A j, k \in DOMAIN r : g[j] = g[k] => j = k
  <2>1. SUFFICES ASSUME NEW j \in 1..Len(r), NEW k \in 1..Len(r), g[j] = g[k], j # k PROVE FALSE
    BY <1>6
  <2>2. g[j] \in Nat /\ g[k] \in Nat
    BY <1>6, <1>7
  <2>3. (j < k => g[j] < g[k]) /\ (k < j => g[k] < g[j])
    BY <1>5 DEF Picks
  <2>4. j < k \/ k < j
    BY <2>1, <1>4
  <2>5. QED
    BY ONLY <2>1, <2>2, <2>3, <2>4
<1>9. Unique(q) => Unique(r)
  <2>1. SUFFICES ASSUME Unique(q), NEW j \in DOMAIN r, NEW k \in DOMAIN r, r[j].id = r[k].id
                 PROVE  j = k
    BY Zenon DEF Unique
  <2>2. q[g[j]].id = q[g[k]].id /\ g[j] \in DOMAIN q /\ g[k] \in DOMAIN q
    BY <1>7, <2>1
  <2>3. g[j] = g[k]
    BY <2>1, <2>2, Zenon DEF Unique
  <2>4. QED
    BY <1>8, <2>3, Zenon
<1>10. \A id : id \in Texts(r) => id \in Texts(q) /\ id \notin Texts(p)
  <2>1. SUFFICES ASSUME NEW k \in DOMAIN r
                 PROVE  Has(q, r[k].id) /\ ~Has(p, r[k].id)
    BY Zenon, InTexts DEF Texts
  <2>2. r[k] = q[g[k]] /\ g[k] \in DOMAIN q /\ g[k] \in P
    BY <1>7, Zenon
  <2>3. ~Has(p, q[g[k]].id)
    BY <1>1, <2>2
  <2>4. QED
    BY <2>2, <2>3, Zenon DEF Has
<1>11. \A id : id \in Texts(q) /\ id \notin Texts(p) => id \in Texts(r)
  <2>1. SUFFICES ASSUME NEW id, id \in Texts(q), id \notin Texts(p) PROVE id \in Texts(r)
    BY Zenon
  <2>2. PICK i \in DOMAIN q : q[i].id = id
    BY <2>1, Zenon DEF Texts
  <2>3. ~Has(p, id)
    BY <2>1, Zenon DEF Texts, Has
  <2>4. i \in P
    BY <1>1, <2>2, <2>3
  <2>5. PICK k \in DOMAIN r : g[k] = i
    BY <1>7, <2>4, Zenon
  <2>6. r[k].id = id
    BY <1>7, <2>2, <2>5
  <2>7. QED
    BY <2>6, Zenon DEF Texts
<1>12. QED
  BY <1>2, <1>4, <1>9, <1>10, <1>11

LEMMA JoinIs ==
  ASSUME NEW A, NEW y \in Seq(A), NEW z \in Seq(A), Unique(y), Unique(z),
         Texts(y) \cap Texts(z) = {}
  PROVE  y \o z \in Seq(A) /\ Unique(y \o z) /\ Texts(y \o z) = Texts(y) \cup Texts(z)
<1>1. PICK w : w = y \o z
  OBVIOUS
<1>2. PICK m \in Nat, n \in Nat : m = Len(y) /\ n = Len(z)
  OBVIOUS
<1>3. /\ w \in Seq(A) /\ DOMAIN y = 1..m /\ DOMAIN z = 1..n /\ DOMAIN w = 1..(m + n)
      /\ \A i \in 1..m : w[i] = y[i]
      /\ \A i \in 1..n : w[m + i] = z[i]
  BY <1>1, <1>2
<1>4. \A i \in 1..(m + n) : i \in 1..m \/ (i - m \in 1..n /\ w[i] = z[i - m])
  <2>1. SUFFICES ASSUME NEW i \in 1..(m + n), i \notin 1..m PROVE i - m \in 1..n /\ w[i] = z[i - m]
    BY Zenon
  <2>2. i - m \in 1..n /\ m + (i - m) = i
    BY <2>1
  <2>3. QED
    BY <1>3, <2>2
<1>5. \A i \in 1..m : \A j \in 1..n : y[i].id # z[j].id
  BY <1>3 DEF Texts
<1>6. Unique(w)
  <2>1. SUFFICES ASSUME NEW i \in 1..(m + n), NEW j \in 1..(m + n), w[i].id = w[j].id PROVE i = j
    BY <1>3, Zenon DEF Unique
  <2>2. CASE i \in 1..m /\ j \in 1..m
    BY <1>3, <2>1, <2>2 DEF Unique
  <2>3. CASE i \in 1..m /\ j \notin 1..m
    BY <1>3, <1>4, <1>5, <2>1, <2>3
  <2>4. CASE i \notin 1..m /\ j \in 1..m
    BY <1>3, <1>4, <1>5, <2>1, <2>4
  <2>5. CASE i \notin 1..m /\ j \notin 1..m
    <3>1. i - m \in 1..n /\ j - m \in 1..n /\ z[i - m].id = z[j - m].id
      BY <1>4, <2>1, <2>5
    <3>2. i - m = j - m
      BY <1>3, <3>1, Zenon DEF Unique
    <3>3. QED
      BY <3>2
  <2>6. QED
    BY <2>2, <2>3, <2>4, <2>5
<1>7. \A id : id \in Texts(w) => id \in Texts(y) \cup Texts(z)
  <2>1. SUFFICES ASSUME NEW i \in 1..(m + n) PROVE w[i].id \in Texts(y) \cup Texts(z)
    BY <1>3, Zenon DEF Texts
  <2>2. QED
    BY <1>3, <1>4 DEF Texts
<1>8. \A id : id \in Texts(y) => id \in Texts(w)
  <2>1. SUFFICES ASSUME NEW id, id \in Texts(y) PROVE \E j \in DOMAIN w : w[j].id = id
    BY Zenon, InTexts DEF Has
  <2>2. PICK i \in DOMAIN y : y[i].id = id
    BY <2>1, Zenon, InTexts DEF Has
  <2>3. i \in DOMAIN w /\ w[i].id = id
    BY <1>3, <2>2
  <2>4. QED
    BY <2>3, Zenon
<1>9. \A id : id \in Texts(z) => id \in Texts(w)
  <2>1. SUFFICES ASSUME NEW id, id \in Texts(z) PROVE \E j \in DOMAIN w : w[j].id = id
    BY Zenon, InTexts DEF Has
  <2>2. PICK i \in DOMAIN z : z[i].id = id
    BY <2>1, Zenon, InTexts DEF Has
  <2>3. m + i \in DOMAIN w /\ w[m + i].id = id
    BY <1>3, <2>2
  <2>4. QED
    BY <2>3, Zenon
<1>10. QED
  BY <1>1, <1>3, <1>6, <1>7, <1>8, <1>9

\* A sequence that names the same messages in the same places.
LEMMA SameNames ==
  ASSUME NEW q, NEW p, DOMAIN p = DOMAIN q, \A i \in DOMAIN q : p[i].id = q[i].id
  PROVE  Texts(p) = Texts(q) /\ (Unique(q) => Unique(p))
<1>1. \A id : Has(p, id) <=> Has(q, id)
  BY Zenon DEF Has
<1>2. \A id : id \in Texts(p) <=> id \in Texts(q)
  BY <1>1, InTexts
<1>3. Unique(q) => Unique(p)
  BY Zenon DEF Unique
<1>4. QED
  BY <1>2, <1>3

LEMMA OneMore ==
  ASSUME NEW A, NEW q \in Seq(A), Unique(q), NEW m \in A, m.id \notin Texts(q)
  PROVE  Append(q, m) \in Seq(A) /\ Unique(Append(q, m)) /\ Texts(Append(q, m)) = Texts(q) \cup {m.id}
<1>1. PICK z : z = <<m>>
  OBVIOUS
<1>2. z \in Seq(A) /\ DOMAIN z = {1} /\ z[1] = m
  BY <1>1
<1>3. Unique(z)
  BY <1>2 DEF Unique
<1>4. \A id : id \in Texts(z) <=> id = m.id
  BY <1>2 DEF Texts
<1>5. Append(q, m) = q \o z
  BY <1>1
<1>6. Texts(q) \cap Texts(z) = {}
  BY <1>4
<1>7. q \o z \in Seq(A) /\ Unique(q \o z) /\ Texts(q \o z) = Texts(q) \cup Texts(z)
  BY <1>2, <1>3, <1>6, JoinIs
<1>8. QED
  BY <1>4, <1>5, <1>7

-----------------------------------------------------------------------------
(* What the operators of the model make of messages and entries *)

\* The merge with a file keeps what the file has and adds what it has not.
LEMMA MergedIs ==
  ASSUME NEW s \in Sessions, stored[s] \in Seq(Message), Unique(stored[s]),
         NEW q \in Seq(Message), Unique(q)
  PROVE  /\ Merged(s, q) \in Seq(Message) /\ Unique(Merged(s, q))
         /\ Texts(Merged(s, q)) = Texts(stored[s]) \cup Texts(q)
<1>1. PICK now : now = [i \in DOMAIN stored[s] |->
                          IF Has(q, stored[s][i].id)
                          THEN q[CHOOSE j \in DOMAIN q : q[j].id = stored[s][i].id]
                          ELSE stored[s][i]]
  OBVIOUS
<1>2. PICK new : new = Besides(q, stored[s])
  OBVIOUS
<1>3. Merged(s, q) = now \o new
  BY <1>1, <1>2, Zenon DEF Merged
<1>4. PICK old \in Seq(Message) : old = stored[s]
  OBVIOUS
<1>5. ASSUME NEW i \in DOMAIN old PROVE now[i] \in Message /\ now[i].id = old[i].id
  <2>1. CASE Has(q, old[i].id)
    <3>1. PICK j : j = CHOOSE k \in DOMAIN q : q[k].id = old[i].id
      OBVIOUS
    <3>2. j \in DOMAIN q /\ q[j].id = old[i].id
      BY <2>1, <3>1, Zenon DEF Has
    <3>3. now[i] = q[j]
      BY <1>1, <1>4, <2>1, <3>1, Zenon
    <3>4. QED
      BY <3>2, <3>3
  <2>2. CASE ~Has(q, old[i].id)
    <3>1. now[i] = old[i]
      BY <1>1, <1>4, <2>2, Zenon
    <3>2. QED
      BY <3>1
  <2>3. QED
    BY <2>1, <2>2
<1>6. PICK n \in Nat : n = Len(old) /\ DOMAIN old = 1..n
  OBVIOUS
<1>7. DOMAIN now = DOMAIN old /\ now \in [DOMAIN old -> Message]
  <2>1. DOMAIN now = DOMAIN old
    BY ONLY <1>1, <1>4
  <2>2. now = [i \in DOMAIN now |-> now[i]]
    BY ONLY <1>1
  <2>3. QED
    BY <1>5, <2>1, <2>2
<1>8. now \in Seq(Message)
  <2>1. now \in [1..n -> Message]
    BY ONLY <1>6, <1>7
  <2>2. QED
    BY ONLY <2>1, n \in Nat
<1>9. Unique(now) /\ Texts(now) = Texts(old)
  BY <1>4, <1>5, <1>7, SameNames
<1>10. new \in Seq(Message) /\ Unique(new) /\ Texts(new) = Texts(q) \ Texts(old)
  BY <1>2, <1>4, BesidesIs
<1>11. Texts(now) \cap Texts(new) = {}
  BY <1>9, <1>10
<1>12. now \o new \in Seq(Message) /\ Unique(now \o new) /\ Texts(now \o new) = Texts(now) \cup Texts(new)
  BY <1>8, <1>9, <1>10, <1>11, JoinIs
<1>13. QED
  BY <1>3, <1>4, <1>9, <1>10, <1>12

LEMMA UpdatedIs ==
  ASSUME NEW e \in Entry, NEW t \in Counts
  PROVE  Updated(e, t) \in Counts
<1>1. t \in Seq(Nat) /\ t \o <<>> = t
  BY DEF Counts
<1>2. e.snap # None => e.snap \in Counts /\ e.snap \in Seq(Nat) /\ e.snap \o <<>> = e.snap
  BY DEF Entry, Counts
<1>3. e.delta = <<>>
  BY DEF Entry
<1>4. e.full # None => e.full \in Counts
  BY DEF Entry
<1>5. CASE e.full # None
  BY <1>4, <1>5, Zenon DEF Updated
<1>6. CASE e.full = None /\ e.snap # None
  BY <1>2, <1>3, <1>6, Zenon DEF Updated
<1>7. CASE e.full = None /\ e.snap = None
  BY <1>1, <1>3, <1>7, Zenon DEF Updated
<1>8. QED
  BY <1>5, <1>6, <1>7

\* What is shown after a batch is what was shown and what the batch names.
LEMMA AppliedIs ==
  ASSUME NEW q \in Seq(Entry), Unique(q), shown \in Seq(Message), Unique(shown)
  PROVE  /\ Applied(q) \in Seq(Message) /\ Unique(Applied(q))
         /\ Texts(Applied(q)) = Texts(shown) \cup Texts(q)
<1>1. PICK was \in Seq(Message) : was = shown
  OBVIOUS
<1>2. PICK now : now = [i \in DOMAIN shown |->
                          IF Has(q, shown[i].id)
                          THEN [shown[i] EXCEPT !.text =
                                  Updated(q[CHOOSE k \in DOMAIN q : q[k].id = shown[i].id], shown[i].text)]
                          ELSE shown[i]]
  OBVIOUS
<1>3. PICK more : more = Besides(q, shown)
  OBVIOUS
<1>4. PICK new : new = [i \in DOMAIN more |-> [id |-> more[i].id, req |-> NoRequest,
                                               text |-> Updated(more[i], <<>>)]]
  OBVIOUS
<1>5. Applied(q) = now \o new
  BY <1>2, <1>3, <1>4, Zenon DEF Applied
<1>6. ASSUME NEW i \in DOMAIN was PROVE now[i] \in Message /\ now[i].id = was[i].id
  <2>1. was[i] \in Message /\ was[i].text \in Counts
    <3>1. was[i] \in Message
      OBVIOUS
    <3>2. QED
      BY ONLY <3>1 DEF Message
  <2>2. CASE Has(q, was[i].id)
    <3>1. PICK j : j = CHOOSE k \in DOMAIN q : q[k].id = was[i].id
      OBVIOUS
    <3>2. j \in DOMAIN q
      BY <2>2, <3>1, Zenon DEF Has
    <3>3. q[j] \in Entry
      BY <3>2
    <3>4. PICK t \in Counts : t = Updated(q[j], was[i].text)
      BY <2>1, <3>3, UpdatedIs
    <3>5. now[i] = [was[i] EXCEPT !.text = t]
      BY <1>1, <1>2, <2>2, <3>1, <3>4, Zenon
    <3>6. QED
      BY ONLY <2>1, <3>4, <3>5 DEF Message
  <2>3. CASE ~Has(q, was[i].id)
    BY <1>1, <1>2, <2>1, <2>3, Zenon
  <2>4. QED
    BY <2>2, <2>3
<1>7. PICK n \in Nat : n = Len(was) /\ DOMAIN was = 1..n
  OBVIOUS
<1>8. DOMAIN now = DOMAIN was /\ now \in [DOMAIN was -> Message]
  BY <1>1, <1>2, <1>6
<1>9. now \in Seq(Message) /\ Unique(now) /\ Texts(now) = Texts(was)
  <2>1. now \in Seq(Message)
    BY <1>7, <1>8
  <2>2. QED
    BY <1>1, <1>6, <1>8, <2>1, SameNames
<1>10. more \in Seq(Entry) /\ Unique(more) /\ Texts(more) = Texts(q) \ Texts(was)
  BY <1>1, <1>3, BesidesIs
<1>11. ASSUME NEW i \in DOMAIN more PROVE new[i] \in Message /\ new[i].id = more[i].id
  <2>1. more[i] \in Entry /\ more[i].id \in Names
    <3>1. more[i] \in Entry
      BY <1>10
    <3>2. QED
      BY ONLY <3>1 DEF Entry
  <2>2. PICK t \in Counts : t = Updated(more[i], <<>>)
    BY <2>1, NoText, UpdatedIs
  <2>3. new[i] = [id |-> more[i].id, req |-> NoRequest, text |-> t]
    BY <1>4, <2>2, Zenon
  <2>4. NoRequest \in Requests
    BY DEF NoRequest, Requests
  <2>5. QED
    BY <2>1, <2>3, <2>4 DEF Message
<1>12. PICK l \in Nat : l = Len(more) /\ DOMAIN more = 1..l
  BY <1>10
<1>13. DOMAIN new = DOMAIN more /\ new \in [DOMAIN more -> Message]
  BY <1>4, <1>11
<1>14. new \in Seq(Message) /\ Unique(new) /\ Texts(new) = Texts(more)
  <2>1. new \in Seq(Message)
    BY <1>12, <1>13
  <2>2. QED
    BY <1>10, <1>11, <1>13, <2>1, SameNames
<1>15. Texts(now) \cap Texts(new) = {}
  BY <1>9, <1>10, <1>14
<1>16. now \o new \in Seq(Message) /\ Unique(now \o new) /\ Texts(now \o new) = Texts(now) \cup Texts(new)
  BY <1>9, <1>14, <1>15, JoinIs
<1>17. QED
  BY <1>1, <1>5, <1>9, <1>10, <1>14, <1>16

\* The batch after an event has one entry more at most, that of its message.
LEMMA AccumulatedIs ==
  ASSUME NEW e \in Deltas \cup Completes, batch \in Seq(Entry), Unique(batch)
  PROVE  /\ Accumulated(e) \in Seq(Entry) /\ Unique(Accumulated(e)) /\ Accumulated(e) # <<>>
         /\ Texts(Accumulated(e)) = Texts(batch) \cup {e.id}
<1>1. /\ e.id \in Names
      /\ e.k = "complete" => e.text \in Counts
      /\ e.k # "complete" => e.snap \in Counts
  BY DEF Deltas, Completes
<1>2. PICK b \in Seq(Entry) : b = batch
  OBVIOUS
<1>3. PICK old : old = IF Has(b, e.id) THEN b ELSE Append(b, NewEntry(e.id))
  OBVIOUS
<1>4. NewEntry(e.id) \in Entry /\ NewEntry(e.id).id = e.id
  BY <1>1 DEF NewEntry, Entry
<1>5. /\ old \in Seq(Entry) /\ Unique(old) /\ Texts(old) = Texts(b) \cup {e.id}
  <2>1. CASE Has(b, e.id)
    <3>1. old = b
      BY <1>3, <2>1
    <3>2. e.id \in Texts(b)
      BY <2>1, InTexts
    <3>3. QED
      BY <1>2, <3>1, <3>2
  <2>2. CASE ~Has(b, e.id)
    <3>1. PICK n \in Entry : n = NewEntry(e.id) /\ n.id = e.id
      BY <1>4
    <3>2. old = Append(b, n)
      BY <1>3, <2>2, <3>1
    <3>3. n.id \notin Texts(b)
      BY <2>2, <3>1, InTexts
    <3>4. Append(b, n) \in Seq(Entry) /\ Unique(Append(b, n)) /\ Texts(Append(b, n)) = Texts(b) \cup {n.id}
      BY <1>2, <3>3, OneMore
    <3>5. QED
      BY <3>1, <3>2, <3>4
  <2>3. QED
    BY <2>1, <2>2
<1>6. PICK a : a = Accumulated(e)
  OBVIOUS
<1>7. a = [i \in DOMAIN old |->
             IF old[i].id = e.id
             THEN IF e.k = "complete" THEN [old[i] EXCEPT !.full = e.text]
                                      ELSE [old[i] EXCEPT !.snap = e.snap, !.delta = <<>>]
             ELSE old[i]]
  BY <1>2, <1>3, <1>6, Zenon DEF Accumulated
<1>8. DOMAIN a = DOMAIN old
  BY <1>7, Zenon
<1>9. ASSUME NEW i \in DOMAIN old PROVE a[i] \in Entry /\ a[i].id = old[i].id
  <2>1. PICK o \in Entry : o = old[i]
    BY <1>5
  <2>2. /\ o.id \in Names /\ o.snap \in Counts \cup {None} /\ o.delta = <<>> /\ o.full \in Counts \cup {None}
        /\ o = [id |-> o.id, snap |-> o.snap, delta |-> o.delta, full |-> o.full]
    BY DEF Entry
  <2>3. CASE o.id = e.id /\ e.k = "complete"
    <3>1. a[i] = [o EXCEPT !.full = e.text]
      BY <1>7, <2>1, <2>3, Zenon
    <3>2. a[i] = [id |-> o.id, snap |-> o.snap, delta |-> o.delta, full |-> e.text]
      BY ONLY <2>2, <3>1
    <3>3. QED
      BY ONLY <1>1, <2>1, <2>2, <2>3, <3>2 DEF Entry
  <2>4. CASE o.id = e.id /\ e.k # "complete"
    <3>1. a[i] = [o EXCEPT !.snap = e.snap, !.delta = <<>>]
      BY <1>7, <2>1, <2>4, Zenon
    <3>2. a[i] = [id |-> o.id, snap |-> e.snap, delta |-> <<>>, full |-> o.full]
      BY ONLY <2>2, <3>1
    <3>3. QED
      BY ONLY <1>1, <2>1, <2>2, <2>4, <3>2 DEF Entry
  <2>5. CASE o.id # e.id
    <3>1. a[i] = o
      BY <1>7, <2>1, <2>5, Zenon
    <3>2. QED
      BY <2>1, <3>1
  <2>6. QED
    BY <2>3, <2>4, <2>5
<1>10. a \in Seq(Entry) /\ Len(a) = Len(old)
  <2>1. PICK n \in Nat : n = Len(old) /\ DOMAIN old = 1..n
    BY <1>5
  <2>2. a \in [1..n -> Entry]
    <3>1. a = [i \in DOMAIN a |-> a[i]]
      BY ONLY <1>7, Zenon
    <3>2. QED
      BY <1>8, <1>9, <2>1, <3>1
  <2>3. QED
    BY <1>8, <2>1, <2>2
<1>11. Unique(a) /\ Texts(a) = Texts(old)
  BY <1>5, <1>8, <1>9, SameNames
<1>12. a # <<>>
  <2>1. e.id \in Texts(a)
    BY <1>5, <1>11
  <2>2. Has(a, e.id)
    BY <2>1, InTexts
  <2>3. DOMAIN a # {}
    BY <2>2, Zenon DEF Has
  <2>4. QED
    BY <2>3
<1>13. QED
  BY <1>2, <1>5, <1>6, <1>10, <1>11, <1>12

LEMMA ContentIs ==
  ASSUME NEW s \in Sessions, transcript[s] \in Seq(Message),
         segment[s] # NoId => Has(transcript[s], segment[s])
  PROVE  Content(s) \in Counts /\ More(s) \in Counts
<1>1. Content(s) \in Counts
  <2>1. CASE segment[s] = NoId
    BY <2>1, NoText DEF Content
  <2>2. CASE segment[s] # NoId
    <3>1. PICK t \in Seq(Message) : t = transcript[s]
      OBVIOUS
    <3>2. PICK i : i = CHOOSE j \in DOMAIN t : t[j].id = segment[s]
      OBVIOUS
    <3>3. i \in DOMAIN t
      BY <2>2, <3>1, <3>2, Zenon DEF Has
    <3>4. t[i] \in Message
      BY <3>3
    <3>5. t[i].text \in Counts
      BY ONLY <3>4 DEF Message
    <3>6. Content(s) = t[i].text
      BY <2>2, <3>1, <3>2, Zenon DEF Content
    <3>7. QED
      BY <3>5, <3>6
  <2>3. QED
    BY <2>1, <2>2
<1>2. QED
  BY <1>1, CountGrows DEF More

\* A transcript grows by one message at most.
LEMMA GrownIs ==
  ASSUME NEW s \in Sessions, transcript[s] \in Seq(Message), Unique(transcript[s]),
         NEW id \in Names, NEW t \in Counts
  PROVE  /\ Grown(s, id, t) \in Seq(Message) /\ Unique(Grown(s, id, t))
         /\ Texts(Grown(s, id, t)) = Texts(transcript[s]) \cup {id}
<1>1. PICK q \in Seq(Message) : q = transcript[s]
  OBVIOUS
<1>2. PICK a : a = Grown(s, id, t)
  OBVIOUS
<1>3. CASE Has(q, id)
  <2>1. a = [i \in DOMAIN q |-> IF q[i].id = id THEN [q[i] EXCEPT !.text = t] ELSE q[i]]
    BY <1>1, <1>2, <1>3, Zenon DEF Grown
  <2>2. DOMAIN a = DOMAIN q
    BY <2>1
  <2>3. ASSUME NEW i \in DOMAIN q PROVE a[i] \in Message /\ a[i].id = q[i].id
    <3>1. PICK o \in Message : o = q[i]
      OBVIOUS
    <3>2. a[i] = IF o.id = id THEN [o EXCEPT !.text = t] ELSE o
      BY <2>1, <3>1, Zenon
    <3>3. QED
      BY ONLY t \in Counts, o \in Message, <3>1, <3>2 DEF Message
  <2>4. a \in Seq(Message)
    <3>1. PICK n \in Nat : n = Len(q) /\ DOMAIN q = 1..n
      OBVIOUS
    <3>2. a = [i \in DOMAIN a |-> a[i]]
      BY ONLY <2>1
    <3>3. a \in [1..n -> Message]
      BY <2>2, <2>3, <3>1, <3>2
    <3>4. QED
      BY <3>3
  <2>5. Unique(a) /\ Texts(a) = Texts(q)
    BY <1>1, <2>2, <2>3, SameNames
  <2>6. id \in Texts(q)
    BY <1>3, InTexts
  <2>7. QED
    BY <1>1, <1>2, <2>4, <2>5, <2>6
<1>4. CASE ~Has(q, id)
  <2>1. PICK m : m = [id |-> id, req |-> NoRequest, text |-> t]
    OBVIOUS
  <2>2. m \in Message /\ m.id = id
    BY <2>1 DEF Message, NoRequest, Requests
  <2>3. a = Append(q, m)
    BY <1>1, <1>2, <1>4, <2>1, Zenon DEF Grown
  <2>4. id \notin Texts(q)
    BY <1>4, InTexts
  <2>5. Append(q, m) \in Seq(Message) /\ Unique(Append(q, m)) /\ Texts(Append(q, m)) = Texts(q) \cup {m.id}
    BY <1>1, <2>2, <2>4, OneMore
  <2>6. QED
    BY <1>1, <1>2, <2>2, <2>3, <2>5
<1>5. QED
  BY <1>3, <1>4

-----------------------------------------------------------------------------
(* What every step keeps *)

windowVars == <<viewVars, batchVars, loadVars, runVars, sendVars>>

\* No session loses a message.
Grow == \A s \in Sessions :
  Texts(stored[s]) \cup Texts(transcript[s]) \subseteq Texts(stored'[s]) \cup Texts(transcript'[s])

LEMMA KindOf ==
  ASSUME NEW e \in Packets
  PROVE  /\ e.k = "user" => e \in Users
         /\ e.k = "delta" => e \in Deltas
         /\ e.k = "complete" => e \in Completes
         /\ e.k = "tool" => e \in Tools
         /\ e.k = "status" => e \in Statuses
         /\ e.k = "list" => e \in Lists
         /\ e.k = "messages" => e \in Loads
         /\ e.k = "sent" => e \in Acks
         /\ e.k \in {"user", "delta", "complete", "tool", "status", "messages"} => e.s \in Sessions
         /\ e \in Events => e.k # "messages"
         /\ e.k \in {"user", "delta", "complete", "tool", "status", "messages", "list", "sent"}
BY DEF Packets, Events, Users, Deltas, Completes, Tools, Statuses, Lists, Loads, Acks

LEMMA SoundKept ==
  ASSUME NEW e \in Packets, Sound(e), Grow, e.k = "messages" => sel' = sel
  PROVE  Sound(e)'
<1>1. e.k = "user" => e.s \in Sessions /\ e.m.id \in Texts(stored[e.s]) \cup Texts(transcript[e.s])
  BY KindOf DEF Sound, IdsOf
<1>2. e.k \in {"delta", "complete"} =>
        e.s \in Sessions /\ e.id \in Texts(stored[e.s]) \cup Texts(transcript[e.s])
  BY KindOf DEF Sound, IdsOf
<1>3. e.k = "messages" =>
        /\ e.s \in Sessions /\ e.s = sel' /\ Unique(e.data)
        /\ Texts(e.data) \subseteq Texts(stored[e.s]) \cup Texts(transcript[e.s])
  BY KindOf DEF Sound, IdsOf
<1>4. e.s \in Sessions => Texts(stored[e.s]) \cup Texts(transcript[e.s])
                            \subseteq Texts(stored'[e.s]) \cup Texts(transcript'[e.s])
  BY DEF Grow
<1>5. e.k = "user" => e.m.id \in Texts(stored'[e.s]) \cup Texts(transcript'[e.s])
  BY <1>1, <1>4
<1>6. e.k \in {"delta", "complete"} => e.id \in Texts(stored'[e.s]) \cup Texts(transcript'[e.s])
  BY <1>2, <1>4
<1>7. e.k = "messages" => /\ e.s = sel' /\ Unique(e.data)
                          /\ Texts(e.data) \subseteq Texts(stored'[e.s]) \cup Texts(transcript'[e.s])
  BY <1>3, <1>4
<1>8. QED
  BY <1>5, <1>6, <1>7 DEF Sound, IdsOf

LEMMA TrueKept ==
  ASSUME Grow, sel' = sel
  PROVE  True \subseteq True' /\ Wanted = Wanted'
<1>1. ASSUME NEW e \in True PROVE e \in True'
  <2>1. e \in Packets /\ Sound(e)
    BY DEF True
  <2>2. Sound(e)'
    BY <2>1, SoundKept
  <2>3. QED
    BY <2>1, <2>2 DEF True
<1>2. Wanted = Wanted'
  BY DEF Wanted
<1>3. QED
  BY <1>1, <1>2

LEMMA LinkKept ==
  ASSUME LinkOK, Grow, sel' = sel, UNCHANGED linkVars
  PROVE  LinkOK'
<1>1. PICK w : w = wire
  OBVIOUS
<1>2. PICK A : A = True
  OBVIOUS
<1>3. PICK B : B = True'
  OBVIOUS
<1>4. A \subseteq B /\ w \in Seq(A)
  BY <1>1, <1>2, <1>3, TrueKept DEF LinkOK
<1>5. w \in Seq(B)
  BY <1>4, SeqMono
<1>6. wire' \in Seq(True')
  BY <1>1, <1>3, <1>5 DEF linkVars
<1>7. asks' \in Seq(Wanted')
  BY TrueKept DEF LinkOK, linkVars
<1>8. QED
  BY <1>6, <1>7 DEF LinkOK, linkVars

LEMMA WindowKept ==
  ASSUME SelectionOK, ViewOK, RestOK, Grow, UNCHANGED windowVars
  PROVE  SelectionOK' /\ ViewOK' /\ RestOK'
<1>1. UNCHANGED <<selected, effected, sel, shown, busy, clicks, batch, batchTimer, load, moved,
                  observed, feedback, submitting, slot, text, ids>>
  BY DEF windowVars, viewVars, batchVars, loadVars, runVars, sendVars
<1>2. SelectionOK'
  BY <1>1 DEF SelectionOK
<1>3. ViewOK'
  <2>1. sel \in Sessions => Texts(shown) \cup Texts(batch) \subseteq Texts(stored'[sel]) \cup Texts(transcript'[sel])
    BY DEF ViewOK, IdsOf, Grow
  <2>2. QED
    BY <1>1, <2>1 DEF ViewOK, IdsOf
<1>4. RestOK'
  BY <1>1 DEF RestOK
<1>5. QED
  BY <1>2, <1>3, <1>4

LEMMA UnsentKept ==
  ASSUME UnsentOK, Grow, UNCHANGED unsent
  PROVE  UnsentOK'
<1>1. ASSUME NEW s \in Sessions, unsent[s] # NoEvent
      PROVE  unsent[s] \in Events /\ unsent[s] \in True'
  <2>1. PICK e : e = unsent[s]
    OBVIOUS
  <2>2. e \in Events /\ e \in Packets /\ Sound(e)
    BY <1>1, <2>1 DEF UnsentOK, True
  <2>3. Sound(e)'
    BY <2>2, KindOf, SoundKept
  <2>4. QED
    BY <2>1, <2>2, <2>3 DEF True
<1>2. \A s \in Sessions : unsent[s] \in (Events \cap True') \cup {NoEvent}
  BY <1>1
<1>3. unsent \in [Sessions -> (Events \cap True') \cup {NoEvent}]
  BY <1>2 DEF UnsentOK
<1>4. QED
  BY <1>3 DEF UnsentOK

\* An event that says what is true then may become the one to be sent.
LEMMA UnsentStep ==
  ASSUME UnsentOK, Grow, NEW s \in Sessions, NEW e, e = NoEvent \/ (e \in Events /\ e.s = s /\ Sound(e)'),
         unsent' = [unsent EXCEPT ![s] = e]
  PROVE  UnsentOK'
<1>1. ASSUME NEW r \in Sessions, unsent'[r] # NoEvent
      PROVE  unsent'[r] \in Events /\ unsent'[r] \in True' /\ unsent'[r].s = r
  <2>1. CASE r = s
    <3>1. unsent'[r] = e
      BY <2>1 DEF UnsentOK
    <3>2. e \in Packets
      BY <1>1, <3>1 DEF Packets
    <3>3. QED
      BY <1>1, <2>1, <3>1, <3>2 DEF True
  <2>2. CASE r # s
    <3>1. PICK f : f = unsent[r]
      OBVIOUS
    <3>2. unsent'[r] = f
      BY <2>2, <3>1 DEF UnsentOK
    <3>3. f \in Events /\ f \in Packets /\ Sound(f) /\ f.s = r
      BY <1>1, <3>1, <3>2 DEF UnsentOK, True
    <3>4. Sound(f)'
      BY <3>3, KindOf, SoundKept
    <3>5. QED
      BY <3>2, <3>3, <3>4 DEF True
  <2>3. QED
    BY <2>1, <2>2
<1>2. \A r \in Sessions : unsent'[r] \in (Events \cap True') \cup {NoEvent}
  BY <1>1
<1>3. unsent' \in [Sessions -> (Events \cap True') \cup {NoEvent}]
  BY <1>2 DEF UnsentOK
<1>4. QED
  BY <1>1, <1>3 DEF UnsentOK

-----------------------------------------------------------------------------
(* The steps of the server *)

\* One session is written, and nothing that it had is missing after that.
LEMMA Writes ==
  ASSUME ServerTypes, Apart, NEW s \in Sessions, NEW p \in Seq(Message), NEW q \in Seq(Message),
         Unique(p), Unique(q), NEW g \in Names \cup {NoId}, g # NoId => Has(q, g),
         Texts(stored[s]) \cup Texts(transcript[s]) \subseteq Texts(p) \cup Texts(q),
         \A id \in Texts(p) \cup Texts(q) : id[2] <= runs',
         stored' = [stored EXCEPT ![s] = p], transcript' = [transcript EXCEPT ![s] = q],
         segment' = [segment EXCEPT ![s] = g],
         runs' \in Numbers, runs <= runs',
         process' \in [Sessions -> Numbers], \A r \in Sessions : process'[r] <= runs'
  PROVE  ServerTypes' /\ Apart' /\ Grow
<1>1. ServerTypes'
  BY DEF ServerTypes
<1>2. \A r \in Sessions : /\ stored'[r] = IF r = s THEN p ELSE stored[r]
                          /\ transcript'[r] = IF r = s THEN q ELSE transcript[r]
                          /\ segment'[r] = IF r = s THEN g ELSE segment[r]
  BY DEF ServerTypes
<1>3. Grow
  BY <1>2 DEF Grow
<1>4. \A r \in Sessions : Unique(stored'[r]) /\ Unique(transcript'[r])
  BY <1>2 DEF Apart
<1>5. \A r \in Sessions : segment'[r] # NoId => Has(transcript'[r], segment'[r])
  BY <1>2 DEF Apart
<1>6. ASSUME NEW r \in Sessions, NEW id, id \in Texts(stored'[r]) \cup Texts(transcript'[r])
      PROVE  id[2] <= runs'
  <2>1. CASE r = s
    BY <1>2, <1>6, <2>1
  <2>2. CASE r # s
    <3>1. id \in Texts(stored[r]) \cup Texts(transcript[r])
      BY <1>2, <1>6, <2>2
    <3>2. id[2] <= runs
      BY <3>1 DEF Apart, IdsOf
    <3>3. id[2] \in Nat
      <4>1. Has(stored[r], id) \/ Has(transcript[r], id)
        BY <3>1, InTexts
      <4>2. PICK m \in Message : m.id = id
        <5>1. stored[r] \in Seq(Message) /\ transcript[r] \in Seq(Message)
          BY DEF ServerTypes
        <5>2. QED
          BY <4>1, <5>1 DEF Has
      <4>3. m.id \in Names
        BY DEF Message
      <4>4. QED
        BY <4>2, <4>3 DEF Names, Numbers
    <3>4. runs \in Nat /\ runs' \in Nat
      BY DEF ServerTypes, Numbers
    <3>5. QED
      BY <3>2, <3>3, <3>4
  <2>3. QED
    BY <2>1, <2>2
<1>7. Apart'
  <2>1. \A r \in Sessions : \A id \in IdsOf(r)' : id[2] <= runs'
    BY <1>6 DEF IdsOf
  <2>2. QED
    BY <1>4, <1>5, <2>1 DEF Apart
<1>8. QED
  BY <1>1, <1>3, <1>7

\* The files and transcripts stay as they are.
LEMMA FilesKept ==
  ASSUME ServerTypes, Apart, UNCHANGED <<stored, transcript, segment, process, runs>>
  PROVE  ServerTypes' /\ Apart' /\ Grow
<1>1. ServerTypes'
  BY DEF ServerTypes
<1>2. Apart'
  BY DEF Apart, IdsOf
<1>3. Grow
  BY DEF Grow
<1>4. QED
  BY <1>1, <1>2, <1>3

LEMMA AcceptStep ==
  ASSUME ServerTypes, Apart, UnsentOK, NEW s \in Sessions, NEW request \in Requests,
         NEW reply \in BOOLEAN, runs < MaxRuns, Accept(s, request, reply)
  PROVE  ServerTypes' /\ Apart' /\ Grow /\ UnsentOK'
<1>1. PICK m : m = UserMessage(request)
  OBVIOUS
<1>2. runs \in Nat /\ MaxRuns \in Nat /\ runs + 1 \in Numbers
  BY WorkbenchAssumption DEF ServerTypes, Numbers
<1>3. /\ m = [id |-> <<"user", runs + 1>>, req |-> request, text |-> <<>>]
      /\ m.id = <<"user", runs + 1>> /\ m.id \in Names /\ m \in Message
  BY <1>1, <1>2, NoText DEF UserMessage, Message, Names
<1>4. PICK old \in Seq(Message) : old = stored[s]
  BY DEF ServerTypes
<1>5. PICK t \in Seq(Message) : t = transcript[s]
  BY DEF ServerTypes
<1>6. m.id \notin Texts(old) /\ m.id[2] = runs + 1
  BY <1>2, <1>3, <1>4 DEF Apart, IdsOf
<1>7. PICK p : p = Append(old, m)
  OBVIOUS
<1>8. p \in Seq(Message) /\ Unique(p) /\ Texts(p) = Texts(old) \cup {m.id}
  BY <1>3, <1>4, <1>6, <1>7, OneMore DEF Apart
<1>9. /\ stored' = [stored EXCEPT ![s] = p] /\ process' = [process EXCEPT ![s] = runs + 1]
      /\ runs' = runs + 1 /\ UNCHANGED <<transcript, segment>>
      /\ unsent' = [unsent EXCEPT ![s] = [k |-> "user", s |-> s, m |-> m, reply |-> reply]]
  BY <1>1, <1>4, <1>7 DEF Accept
<1>10. /\ transcript' = [transcript EXCEPT ![s] = t] /\ segment' = [segment EXCEPT ![s] = segment[s]]
       /\ segment[s] \in Names \cup {NoId} /\ (segment[s] # NoId => Has(t, segment[s]))
       /\ Unique(t)
  BY <1>5, <1>9 DEF ServerTypes, Apart
<1>11. \A id \in Texts(p) \cup Texts(t) : id[2] <= runs'
  <2>1. SUFFICES ASSUME NEW id \in Texts(p) \cup Texts(t) PROVE id[2] <= runs + 1
    BY <1>9
  <2>2. CASE id = m.id
    BY <1>2, <1>6, <2>2
  <2>3. CASE id # m.id
    <3>1. Has(old, id) \/ Has(t, id)
      BY <1>8, <2>3, InTexts
    <3>2. PICK n \in Message : n.id = id
      BY <3>1 DEF Has
    <3>3. n.id \in Names
      BY DEF Message
    <3>4. id[2] \in Nat
      BY <3>2, <3>3 DEF Names, Numbers
    <3>5. id[2] <= runs
      BY <1>4, <1>5, <1>8, <2>3 DEF Apart, IdsOf
    <3>6. QED
      BY <1>2, <3>4, <3>5
  <2>4. QED
    BY <2>2, <2>3
<1>12. process' \in [Sessions -> Numbers] /\ \A r \in Sessions : process'[r] <= runs'
  <2>1. \A r \in Sessions : process[r] \in Nat /\ process[r] <= runs
    BY DEF ServerTypes, Apart, Numbers
  <2>2. QED
    BY <1>2, <1>9, <2>1 DEF ServerTypes
<1>13. runs' \in Numbers /\ runs <= runs'
  BY <1>2, <1>9
<1>14. Texts(stored[s]) \cup Texts(transcript[s]) \subseteq Texts(p) \cup Texts(t)
  BY <1>4, <1>5, <1>8
<1>15. ServerTypes' /\ Apart' /\ Grow
  BY <1>8, <1>9, <1>10, <1>11, <1>12, <1>13, <1>14, Writes
<1>16. PICK e : e = [k |-> "user", s |-> s, m |-> m, reply |-> reply]
  OBVIOUS
<1>17. e \in Events /\ e.s = s /\ e.k = "user" /\ e.m = m
  BY <1>3, <1>16 DEF Events, Users
<1>18. Sound(e)'
  <2>1. stored'[s] = p
    BY <1>9 DEF ServerTypes
  <2>2. e.m.id \in Texts(stored'[e.s])
    BY <1>8, <1>17, <2>1
  <2>3. QED
    BY <1>17, <2>2 DEF Sound, IdsOf
<1>19. UnsentOK'
  <2>1. unsent' = [unsent EXCEPT ![s] = e]
    BY <1>9, <1>16
  <2>2. QED
    BY <1>15, <1>17, <1>18, <2>1, UnsentStep
<1>20. QED
  BY <1>15, <1>19

\* What a run writes to its session: an event about a message of the new
\* transcript becomes the one to be sent.
LEMMA RunWrites ==
  ASSUME ServerTypes, Apart, UnsentOK, NEW s \in Sessions, NEW id \in Names, id[2] = process[s],
         NEW q \in Seq(Message), Unique(q), Texts(q) = Texts(transcript[s]) \cup {id},
         NEW g \in Names \cup {NoId}, g # NoId => Has(q, g),
         NEW e \in Events, e.s = s, e.k # "user", e.k \in {"delta", "complete"} => e.id = id,
         stored' = [stored EXCEPT ![s] = Merged(s, q)] \/ UNCHANGED stored,
         transcript' = [transcript EXCEPT ![s] = q], segment' = [segment EXCEPT ![s] = g],
         unsent' = [unsent EXCEPT ![s] = e], UNCHANGED <<process, runs>>
  PROVE  ServerTypes' /\ Apart' /\ Grow /\ UnsentOK'
<1>1. stored[s] \in Seq(Message) /\ transcript[s] \in Seq(Message) /\ Unique(stored[s])
  BY DEF ServerTypes, Apart
<1>2. /\ Merged(s, q) \in Seq(Message) /\ Unique(Merged(s, q))
      /\ Texts(Merged(s, q)) = Texts(stored[s]) \cup Texts(q)
  BY <1>1, MergedIs
<1>3. PICK p \in Seq(Message) : /\ stored' = [stored EXCEPT ![s] = p] /\ Unique(p)
                                /\ Texts(stored[s]) \subseteq Texts(p)
                                /\ Texts(p) \subseteq Texts(stored[s]) \cup Texts(q)
  <2>1. CASE stored' = [stored EXCEPT ![s] = Merged(s, q)]
    BY <1>2, <2>1
  <2>2. CASE UNCHANGED stored
    <3>1. stored' = [stored EXCEPT ![s] = stored[s]]
      BY <2>2 DEF ServerTypes
    <3>2. QED
      BY <1>1, <3>1
  <2>3. QED
    BY <2>1, <2>2
<1>4. process[s] \in Nat /\ process[s] <= runs
  BY DEF ServerTypes, Apart, Numbers
<1>5. \A i \in Texts(p) \cup Texts(q) : i[2] <= runs'
  BY <1>3, <1>4 DEF Apart, IdsOf
<1>6. /\ Texts(stored[s]) \cup Texts(transcript[s]) \subseteq Texts(p) \cup Texts(q)
      /\ runs' \in Numbers /\ runs <= runs' /\ process' \in [Sessions -> Numbers]
      /\ \A r \in Sessions : process'[r] <= runs'
  BY <1>3 DEF ServerTypes, Apart, Numbers
<1>7. ServerTypes' /\ Apart' /\ Grow
  BY <1>3, <1>5, <1>6, Writes
<1>8. transcript'[s] = q
  BY DEF ServerTypes
<1>9. Sound(e)'
  <2>1. e \in Packets
    BY DEF Packets
  <2>2. e.k # "messages"
    BY <2>1, KindOf
  <2>3. id \in Texts(transcript'[s])
    BY <1>8
  <2>4. QED
    BY <2>2, <2>3 DEF Sound, IdsOf
<1>10. UnsentOK'
  BY <1>7, <1>9, UnsentStep
<1>11. QED
  BY <1>7, <1>10

LEMMA GrowsBy ==
  ASSUME ServerTypes, Apart, NEW s \in Sessions, NEW id \in Names, NEW t \in Counts
  PROVE  /\ Grown(s, id, t) \in Seq(Message) /\ Unique(Grown(s, id, t))
         /\ Texts(Grown(s, id, t)) = Texts(transcript[s]) \cup {id}
BY GrownIs DEF ServerTypes, Apart

LEMMA NameOf ==
  ASSUME ServerTypes, NEW s \in Sessions, NEW w \in {"text", "tool"}
  PROVE  \E id \in Names : id = <<w, process[s]>> /\ id[2] = process[s]
<1>1. PICK n \in Numbers : n = process[s]
  BY DEF ServerTypes
<1>2. <<w, n>> \in Names /\ <<w, n>>[2] = n
  BY DEF Names
<1>3. QED
  BY <1>1, <1>2

LEMMA ConsumeDeltaStep ==
  ASSUME ServerTypes, Apart, UnsentOK, NEW s \in Sessions, ConsumeDelta(s)
  PROVE  ServerTypes' /\ Apart' /\ Grow /\ UnsentOK'
<1>1. PICK id \in Names : id = <<"text", process[s]>> /\ id[2] = process[s]
  BY NameOf
<1>2. Content(s) \in Counts /\ More(s) \in Counts
  BY ContentIs DEF ServerTypes, Apart
<1>3. PICK q \in Seq(Message) : /\ q = Grown(s, id, More(s)) /\ Unique(q)
                                /\ Texts(q) = Texts(transcript[s]) \cup {id}
  BY <1>2, GrowsBy
<1>4. Has(q, id)
  BY <1>3, InTexts
<1>5. PICK e : e = DeltaEvent(s, id)
  OBVIOUS
<1>6. e \in Events /\ e.k = "delta" /\ e.s = s /\ e.id = id
  <2>1. Len(Content(s)) \in Nat
    BY <1>2 DEF Counts
  <2>2. <<Len(Content(s)) + 1>> \in Seq(Nat)
    BY <2>1
  <2>3. e \in Deltas /\ e.k = "delta" /\ e.s = s /\ e.id = id
    BY <1>2, <1>5, <2>2 DEF DeltaEvent, Deltas
  <2>4. QED
    BY <2>3 DEF Events
<1>7. /\ transcript' = [transcript EXCEPT ![s] = q] /\ segment' = [segment EXCEPT ![s] = id]
      /\ unsent' = [unsent EXCEPT ![s] = e] /\ UNCHANGED <<process, runs>>
      /\ stored' = [stored EXCEPT ![s] = Merged(s, q)] \/ UNCHANGED stored
  BY <1>1, <1>3, <1>5, Zenon DEF ConsumeDelta, Consuming
<1>8. QED
  BY <1>1, <1>3, <1>4, <1>6, <1>7, RunWrites

LEMMA ConsumeCompleteStep ==
  ASSUME ServerTypes, Apart, UnsentOK, NEW s \in Sessions, ConsumeComplete(s)
  PROVE  ServerTypes' /\ Apart' /\ Grow /\ UnsentOK'
<1>1. PICK id \in Names : id = <<"text", process[s]>> /\ id[2] = process[s]
  BY NameOf
<1>2. More(s) \in Counts
  BY ContentIs DEF ServerTypes, Apart
<1>3. PICK q \in Seq(Message) : /\ q = Grown(s, id, More(s)) /\ Unique(q)
                                /\ Texts(q) = Texts(transcript[s]) \cup {id}
  BY <1>2, GrowsBy
<1>4. PICK e : e = [k |-> "complete", s |-> s, id |-> id, text |-> More(s)]
  OBVIOUS
<1>5. e \in Events /\ e.k = "complete" /\ e.s = s /\ e.id = id
  <2>1. e \in Completes /\ e.k = "complete" /\ e.s = s /\ e.id = id
    BY <1>2, <1>4 DEF Completes
  <2>2. QED
    BY <2>1 DEF Events
<1>6. /\ transcript' = [transcript EXCEPT ![s] = q] /\ segment' = [segment EXCEPT ![s] = NoId]
      /\ unsent' = [unsent EXCEPT ![s] = e] /\ UNCHANGED <<process, runs>>
      /\ stored' = [stored EXCEPT ![s] = Merged(s, q)]
  BY <1>1, <1>3, <1>4, Zenon DEF ConsumeComplete, Consuming
<1>7. QED
  BY <1>1, <1>3, <1>5, <1>6, RunWrites

LEMMA ConsumeToolStep ==
  ASSUME ServerTypes, Apart, UnsentOK, NEW s \in Sessions, ConsumeTool(s)
  PROVE  ServerTypes' /\ Apart' /\ Grow /\ UnsentOK'
<1>1. PICK id \in Names : id = <<"tool", process[s]>> /\ id[2] = process[s]
  BY NameOf
<1>2. PICK q \in Seq(Message) : /\ q = Grown(s, id, <<>>) /\ Unique(q)
                                /\ Texts(q) = Texts(transcript[s]) \cup {id}
  BY NoText, GrowsBy
<1>3. PICK g \in Names \cup {NoId} : g = segment[s]
  BY DEF ServerTypes
<1>4. g # NoId => Has(q, g)
  <2>1. SUFFICES ASSUME g # NoId PROVE Has(q, g)
    OBVIOUS
  <2>2. g \in Texts(transcript[s])
    BY <1>3, <2>1, InTexts DEF Apart
  <2>3. QED
    BY <1>2, <2>2, InTexts
<1>5. PICK e : e = [k |-> "tool", s |-> s]
  OBVIOUS
<1>6. e \in Events /\ e.s = s /\ e.k # "user" /\ e.k \notin {"delta", "complete"}
  BY <1>5 DEF Events, Tools
<1>7. /\ transcript' = [transcript EXCEPT ![s] = q]
      /\ unsent' = [unsent EXCEPT ![s] = e] /\ UNCHANGED <<process, runs>>
      /\ stored' = [stored EXCEPT ![s] = Merged(s, q)]
  BY <1>1, <1>2, <1>5, Zenon DEF ConsumeTool, Consuming
<1>8. segment' = [segment EXCEPT ![s] = g]
  <2>1. segment' = segment
    BY Zenon DEF ConsumeTool
  <2>2. QED
    BY <1>3, <2>1 DEF ServerTypes
<1>9. QED
  BY <1>1, <1>2, <1>4, <1>6, <1>7, <1>8, RunWrites

LEMMA FlushLastStep ==
  ASSUME ServerTypes, Apart, UnsentOK, NEW s \in Sessions, FlushLast(s)
  PROVE  ServerTypes' /\ Apart' /\ Grow /\ UnsentOK'
<1>1. PICK q \in Seq(Message) : q = transcript[s] /\ Unique(q)
  BY DEF ServerTypes, Apart
<1>2. PICK p \in Seq(Message) : /\ p = Merged(s, q) /\ Unique(p)
                                /\ Texts(p) = Texts(stored[s]) \cup Texts(q)
  BY <1>1, MergedIs DEF ServerTypes, Apart
<1>3. PICK z \in Seq(Message) : z = <<>> /\ Unique(z) /\ Texts(z) = {}
  <2>1. <<>> \in Seq(Message) /\ DOMAIN <<>> = {}
    OBVIOUS
  <2>2. Unique(<<>>)
    BY <2>1 DEF Unique
  <2>3. Texts(<<>>) = {}
    BY <2>1 DEF Texts
  <2>4. QED
    BY <2>1, <2>2, <2>3
<1>4. PICK e : e = [k |-> "status", s |-> s, r |-> process[s]]
  OBVIOUS
<1>5. e \in Events /\ e.k = "status" /\ e.s = s
  BY <1>4 DEF Events, Statuses, ServerTypes
<1>6. /\ transcript' = [transcript EXCEPT ![s] = z] /\ segment' = [segment EXCEPT ![s] = NoId]
      /\ unsent' = [unsent EXCEPT ![s] = e] /\ UNCHANGED <<process, runs>>
      /\ stored' = [stored EXCEPT ![s] = p]
  BY <1>1, <1>2, <1>3, <1>4 DEF FlushLast, Consuming
<1>7. /\ Texts(stored[s]) \cup Texts(transcript[s]) \subseteq Texts(p) \cup Texts(z)
      /\ \A i \in Texts(p) \cup Texts(z) : i[2] <= runs'
      /\ runs' \in Numbers /\ runs <= runs' /\ process' \in [Sessions -> Numbers]
      /\ \A r \in Sessions : process'[r] <= runs'
  BY <1>1, <1>2, <1>3, <1>6 DEF ServerTypes, Apart, IdsOf, Numbers
<1>8. ServerTypes' /\ Apart' /\ Grow
  BY <1>2, <1>3, <1>6, <1>7, Writes
<1>9. Sound(e)'
  BY <1>4 DEF Sound
<1>10. UnsentOK'
  BY <1>5, <1>6, <1>8, <1>9, UnsentStep
<1>11. QED
  BY <1>8, <1>10

-----------------------------------------------------------------------------
(* The steps of the connection *)

LEMMA WireIn ==
  ASSUME LinkOK, Grow, sel' = sel
  PROVE  wire \in Seq(True') /\ asks \in Seq(Wanted')
<1>1. PICK w : w = wire
  OBVIOUS
<1>2. PICK A : A = True
  OBVIOUS
<1>3. PICK B : B = True'
  OBVIOUS
<1>4. A \subseteq B /\ w \in Seq(A)
  BY <1>1, <1>2, <1>3, TrueKept DEF LinkOK
<1>5. w \in Seq(B)
  BY <1>4, SeqMono
<1>6. asks \in Seq(Wanted')
  BY TrueKept DEF LinkOK
<1>7. QED
  BY <1>1, <1>3, <1>5, <1>6

LEMMA Longer ==
  ASSUME NEW B, NEW q \in Seq(B), NEW a \in B, NEW b \in B
  PROVE  q \o <<a, b>> \in Seq(B) /\ Append(q, a) \in Seq(B)
OBVIOUS

LEMMA AckIs == ASSUME NEW ok \in BOOLEAN PROVE Sent(ok) \in True /\ Sent(ok) \in True'
<1>1. PICK e : e = Sent(ok)
  OBVIOUS
<1>2. e \in Packets /\ e.k = "sent"
  BY <1>1 DEF Sent, Packets, Acks
<1>3. Sound(e) /\ Sound(e)'
  BY <1>2 DEF Sound
<1>4. QED
  BY <1>1, <1>2, <1>3 DEF True

LEMMA OtherSendsStep ==
  ASSUME Inv, NEW s \in Sessions, OtherSends(s)
  PROVE  Inv'
<1>1. NoRequest \in Requests /\ FALSE \in BOOLEAN
  BY DEF NoRequest, Requests
<1>2. runs < MaxRuns /\ Accept(s, NoRequest, FALSE) /\ UNCHANGED linkVars /\ UNCHANGED windowVars
  BY DEF OtherSends, windowVars
<1>3. ServerTypes' /\ Apart' /\ Grow /\ UnsentOK'
  BY <1>1, <1>2, AcceptStep DEF Inv
<1>4. sel' = sel
  BY <1>2 DEF windowVars, viewVars
<1>5. LinkOK'
  BY <1>2, <1>3, <1>4, LinkKept DEF Inv
<1>6. SelectionOK' /\ ViewOK' /\ RestOK'
  BY <1>2, <1>3, WindowKept DEF Inv
<1>7. QED
  BY <1>3, <1>5, <1>6 DEF Inv

LEMMA ConsumeStep ==
  ASSUME Inv, NEW s \in Sessions,
         ConsumeDelta(s) \/ ConsumeComplete(s) \/ ConsumeTool(s) \/ FlushLast(s)
  PROVE  Inv'
<1>1. ServerTypes' /\ Apart' /\ Grow /\ UnsentOK'
  BY ConsumeDeltaStep, ConsumeCompleteStep, ConsumeToolStep, FlushLastStep DEF Inv
<1>2. UNCHANGED linkVars /\ UNCHANGED windowVars
  BY DEF ConsumeDelta, ConsumeComplete, ConsumeTool, FlushLast, Consuming, windowVars
<1>3. sel' = sel
  BY <1>2 DEF windowVars, viewVars
<1>4. LinkOK'
  BY <1>1, <1>2, <1>3, LinkKept DEF Inv
<1>5. SelectionOK' /\ ViewOK' /\ RestOK'
  BY <1>1, <1>2, WindowKept DEF Inv
<1>6. QED
  BY <1>1, <1>4, <1>5 DEF Inv

\* The files and transcripts stay, whether a run ends or not.
LEMMA RunEnds ==
  ASSUME ServerTypes, Apart, UNCHANGED <<stored, transcript, segment, runs>>,
         NEW s \in Sessions, process' = [process EXCEPT ![s] = 0] \/ UNCHANGED process
  PROVE  ServerTypes' /\ Apart' /\ Grow
<1>1. process' \in [Sessions -> Numbers] /\ \A r \in Sessions : process'[r] <= runs
  <2>1. 0 \in Numbers /\ runs \in Nat /\ 0 <= runs
    BY WorkbenchAssumption DEF ServerTypes, Numbers
  <2>2. process \in [Sessions -> Numbers] /\ \A r \in Sessions : process[r] <= runs
    BY DEF ServerTypes, Apart
  <2>3. QED
    BY ONLY <2>1, <2>2, process' = [process EXCEPT ![s] = 0] \/ UNCHANGED process
<1>2. ServerTypes'
  BY <1>1 DEF ServerTypes
<1>3. Apart'
  BY <1>1 DEF Apart, IdsOf
<1>4. Grow
  BY DEF Grow
<1>5. QED
  BY <1>2, <1>3, <1>4

LEMMA EmitStep ==
  ASSUME Inv, NEW s \in Sessions, Emit(s)
  PROVE  Inv'
<1>1. PICK e : e = unsent[s]
  OBVIOUS
<1>2. e \in True
  BY <1>1 DEF Inv, UnsentOK, Emit
<1>3. /\ UNCHANGED <<stored, transcript, segment, runs>> /\ UNCHANGED <<online, asks, drops>>
      /\ UNCHANGED windowVars /\ unsent' = [unsent EXCEPT ![s] = NoEvent]
  BY DEF Emit, windowVars
<1>4. process' = [process EXCEPT ![s] = 0] \/ UNCHANGED process
  BY DEF Emit
<1>5. ServerTypes' /\ Apart' /\ Grow
  BY <1>3, <1>4, RunEnds DEF Inv
<1>6. UnsentOK'
  BY <1>3, <1>5, UnsentStep DEF Inv
<1>7. sel' = sel
  BY <1>3 DEF windowVars, viewVars
<1>8. PICK B : B = True'
  OBVIOUS
<1>9. e \in B /\ wire \in Seq(B) /\ Sent(TRUE) \in B
  BY <1>2, <1>5, <1>7, <1>8, TrueKept, WireIn, AckIs DEF Inv
<1>10. wire' \in Seq(B) /\ (~online => wire' = wire)
  <2>1. \/ wire' = wire
        \/ online /\ wire' = wire \o <<e, Sent(TRUE)>>
        \/ online /\ wire' = Append(wire, e)
    BY <1>1 DEF Emit
  <2>2. wire \o <<e, Sent(TRUE)>> \in Seq(B) /\ Append(wire, e) \in Seq(B)
    BY <1>9, Longer
  <2>3. QED
    BY <1>9, <2>1, <2>2
<1>11. LinkOK'
  <2>1. wire' \in Seq(True')
    BY <1>8, <1>10
  <2>2. asks' \in Seq(Wanted')
    BY <1>3, <1>5, <1>7, WireIn DEF Inv
  <2>3. QED
    BY <1>3, <1>10, <2>1, <2>2 DEF LinkOK, Inv
<1>12. SelectionOK' /\ ViewOK' /\ RestOK'
  BY <1>3, <1>5, WindowKept DEF Inv
<1>13. QED
  BY <1>5, <1>6, <1>11, <1>12 DEF Inv

LEMMA AskOf ==
  ASSUME LinkOK, asks # <<>>
  PROVE  /\ Head(asks) \in Asks /\ Tail(asks) \in Seq(Wanted) /\ online
         /\ Head(asks).k = "messages" => Head(asks).s = sel /\ Head(asks).s \in Sessions
         /\ Head(asks).k = "list" => Head(asks).why \in Whys
         /\ Head(asks).k = "send" => Head(asks).s \in Sessions /\ Head(asks).request \in Requests
<1>1. PICK B : B = Wanted
  OBVIOUS
<1>2. asks \in Seq(B)
  BY <1>1 DEF LinkOK
<1>3. PICK a \in B : a = Head(asks)
  BY <1>2
<1>4. Tail(asks) \in Seq(B)
  BY <1>2
<1>5. a \in Asks /\ (a.k = "messages" => a.s = sel)
  BY <1>1 DEF Wanted
<1>6. /\ a.k = "messages" => a.s \in Sessions
      /\ a.k = "list" => a.why \in Whys
      /\ a.k = "send" => a.s \in Sessions /\ a.request \in Requests
  BY <1>5 DEF Asks
<1>7. online
  BY DEF LinkOK
<1>8. QED
  BY <1>1, <1>3, <1>4, <1>5, <1>6, <1>7

\* The window does not change and the server does, or answers.
LEMMA AnswerKeeps ==
  ASSUME Inv, Answer, ServerTypes', Apart', Grow, UnsentOK', wire' \in Seq(True')
  PROVE  Inv'
<1>1. /\ asks # <<>> /\ asks' = Tail(asks) /\ UNCHANGED windowVars /\ online' = online
  BY DEF Answer, windowVars
<1>2. sel' = sel
  BY <1>1 DEF windowVars, viewVars
<1>3. asks' \in Seq(Wanted')
  BY <1>1, <1>2, AskOf, TrueKept DEF Inv
<1>4. LinkOK'
  BY <1>1, <1>3, AskOf DEF Inv, LinkOK
<1>5. SelectionOK' /\ ViewOK' /\ RestOK'
  BY <1>1, WindowKept DEF Inv
<1>6. QED
  BY <1>4, <1>5 DEF Inv

LEMMA ServerKept ==
  ASSUME Inv, UNCHANGED serverVars
  PROVE  ServerTypes' /\ Apart' /\ Grow /\ UnsentOK'
<1>1. ServerTypes' /\ Apart' /\ Grow
  BY FilesKept DEF Inv, serverVars
<1>2. UnsentOK'
  BY <1>1, UnsentKept DEF Inv, serverVars
<1>3. QED
  BY <1>1, <1>2

LEMMA AnswerStep ==
  ASSUME Inv, Answer
  PROVE  Inv'
<1>1. asks # <<>> /\ sel' = sel
  BY DEF Answer, viewVars
<1>2. ASSUME NEW e, e \in True, UNCHANGED serverVars, wire' = Append(wire, e) PROVE Inv'
  <2>1. ServerTypes' /\ Apart' /\ Grow /\ UnsentOK'
    BY <1>2, ServerKept
  <2>2. PICK B : B = True'
    OBVIOUS
  <2>3. e \in B /\ wire \in Seq(B)
    BY <1>1, <1>2, <2>1, <2>2, TrueKept, WireIn DEF Inv
  <2>4. wire' \in Seq(B)
    BY <1>2, <2>3, Longer
  <2>5. QED
    BY <2>1, <2>2, <2>4, AnswerKeeps
<1>3. ASSUME ServerTypes', Apart', Grow, UnsentOK', wire' = wire PROVE Inv'
  <2>1. wire' \in Seq(True')
    BY <1>1, <1>3, WireIn DEF Inv
  <2>2. QED
    BY <1>3, <2>1, AnswerKeeps
<1>4. CASE AnswerList
  <2>1. PICK e : e = [k |-> "list", why |-> Head(asks).why, busy |-> {s \in Sessions : process[s] # 0}]
    OBVIOUS
  <2>2. Head(asks).k = "list" /\ wire' = Append(wire, e) /\ UNCHANGED serverVars
    BY <1>4, <2>1, Zenon DEF AnswerList
  <2>3. Head(asks).why \in Whys /\ {s \in Sessions : process[s] # 0} \in SUBSET Sessions
    BY <1>1, <2>2, AskOf DEF Inv
  <2>4. e \in Packets /\ e.k = "list"
    BY <2>1, <2>3 DEF Packets, Lists
  <2>5. e \in True
    BY <2>4 DEF True, Sound
  <2>6. QED
    BY <1>2, <2>2, <2>5
<1>5. CASE AnswerMessages
  <2>1. PICK s : s = Head(asks).s
    OBVIOUS
  <2>2. PICK e : e = [k |-> "messages", s |-> s, data |-> stored[s]]
    OBVIOUS
  <2>3. Head(asks).k = "messages" /\ wire' = Append(wire, e) /\ UNCHANGED serverVars
    BY <1>5, <2>1, <2>2, Zenon DEF AnswerMessages
  <2>4. s \in Sessions /\ s = sel
    BY <1>1, <2>1, <2>3, AskOf DEF Inv
  <2>5. stored[s] \in Seq(Message) /\ Unique(stored[s])
    BY <2>4 DEF Inv, ServerTypes, Apart
  <2>6. e \in Packets /\ e.k = "messages" /\ e.s = s /\ e.data = stored[s]
    BY <2>2, <2>4, <2>5 DEF Packets, Loads
  <2>7. e \in True
    BY <2>4, <2>5, <2>6 DEF True, Sound, IdsOf
  <2>8. QED
    BY <1>2, <2>3, <2>7
<1>6. CASE AnswerSend
  <2>1. PICK s : s = Head(asks).s
    OBVIOUS
  <2>2. PICK request : request = Head(asks).request
    OBVIOUS
  <2>3. s \in Sessions /\ request \in Requests
    BY <1>1, <1>6, <2>1, <2>2, AskOf DEF Inv, AnswerSend
  <2>4. CASE unsent[s].k = "user" /\ unsent' = [unsent EXCEPT ![s].reply = TRUE]
             /\ UNCHANGED <<wire, stored, transcript, segment, process, runs>>
    <3>1. ServerTypes' /\ Apart' /\ Grow
      BY <2>4, FilesKept DEF Inv
    <3>2. PICK e : e = unsent[s]
      OBVIOUS
    <3>3. e \in Events /\ e.k = "user" /\ e.s = s /\ Sound(e)
      <4>1. e # NoEvent
        BY <2>4, <3>2 DEF NoEvent
      <4>2. QED
        BY <2>3, <2>4, <3>2, <4>1 DEF Inv, UnsentOK, True
    <3>4. e \in Users
      BY <3>3, KindOf DEF Packets
    <3>5. PICK f : f = [e EXCEPT !.reply = TRUE]
      OBVIOUS
    <3>6. f \in Users /\ f.k = "user" /\ f.s = s /\ f.m = e.m
      BY <3>3, <3>4, <3>5 DEF Users
    <3>7. f \in Events /\ f \in Packets
      BY <3>6 DEF Events, Packets
    <3>8. Sound(f)
      BY <3>3, <3>6 DEF Sound
    <3>9. Sound(f)'
      BY <3>1, <3>6, <3>7, <3>8, SoundKept
    <3>10. unsent' = [unsent EXCEPT ![s] = f]
      BY <2>4, <3>2, <3>5
    <3>11. UnsentOK'
      BY <2>3, <3>1, <3>6, <3>7, <3>9, <3>10, UnsentStep DEF Inv
    <3>12. QED
      BY <1>3, <2>4, <3>1, <3>11
  <2>5. CASE wire' = Append(wire, Sent(TRUE)) /\ UNCHANGED serverVars
    BY <1>2, <2>5, AckIs
  <2>6. CASE wire' = Append(wire, Sent(FALSE)) /\ UNCHANGED serverVars
    BY <1>2, <2>6, AckIs
  <2>7. CASE runs # MaxRuns /\ Accept(s, request, TRUE) /\ UNCHANGED wire
    <3>1. runs < MaxRuns
      BY <2>7, WorkbenchAssumption DEF Inv, ServerTypes, Numbers
    <3>2. ServerTypes' /\ Apart' /\ Grow /\ UnsentOK'
      BY <2>3, <2>7, <3>1, AcceptStep DEF Inv
    <3>3. QED
      BY <1>3, <2>7, <3>2
  <2>8. QED
    BY <1>6, <2>1, <2>2, <2>4, <2>5, <2>6, <2>7, Zenon DEF AnswerSend
<1>7. QED
  BY <1>4, <1>5, <1>6 DEF Answer

-----------------------------------------------------------------------------
(* The steps of the window *)

LEMMA OthersIs ==
  ASSUME NEW A, NEW q \in Seq(A)
  PROVE  Others(q) \in Seq({x \in A : x.k # "messages"})
<1>1. PICK P : P = {i \in DOMAIN q : q[i].k # "messages"}
  OBVIOUS
<1>2. PICK r : r = Others(q)
  OBVIOUS
<1>3. r = Picked(q, P)
  BY <1>1, <1>2 DEF Others
<1>4. r \in Seq(A) /\ \E g : Picks(q, P, r, Len(q), g)
  BY <1>3, PickedIs
<1>5. PICK g : Picks(q, P, r, Len(q), g)
  BY <1>4
<1>6. PICK n \in Nat : n = Len(r) /\ DOMAIN r = 1..n
  BY <1>4
<1>7. ASSUME NEW k \in 1..n PROVE r[k] \in A /\ r[k].k # "messages"
  <2>1. r[k] \in A
    BY <1>4, <1>6
  <2>2. g[k] \in P /\ r[k] = q[g[k]]
    BY <1>5, <1>6 DEF Picks
  <2>3. QED
    BY <1>1, <2>1, <2>2
<1>8. r \in Seq({x \in A : x.k # "messages"})
  <2>1. PICK B : B = {x \in A : x.k # "messages"}
    OBVIOUS
  <2>2. \A k \in 1..n : r[k] \in B
    BY <1>7, <2>1
  <2>3. r \in Seq(B)
    BY <1>4, <1>6, <2>2
  <2>4. QED
    BY <2>1, <2>3
<1>9. QED
  BY <1>2, <1>8

LEMMA EmptyIs ==
  ASSUME NEW A, NEW q \in Seq(A), Texts(q) = {}
  PROVE  q = <<>>
<1>1. DOMAIN q = {}
  BY DEF Texts
<1>2. QED
  BY <1>1

LEMMA OfEmpty == Texts(<<>>) = {} /\ Unique(<<>>)
<1>1. DOMAIN <<>> = {}
  OBVIOUS
<1>2. QED
  BY <1>1 DEF Texts, Unique

\* The batch and what is shown, applied at once.
LEMMA FlushIs ==
  ASSUME SelectionOK, ViewOK, NEW b \in Seq(Entry), Unique(b),
         sel \in Sessions => Texts(b) \subseteq IdsOf(sel),
         sel = NoSession => b = <<>>,
         Flush(b), sel' = sel, UNCHANGED <<stored, transcript>>
  PROVE  /\ ViewOK' /\ batch' = <<>> /\ batchTimer' = (batch' # <<>>)
         /\ sel \notin Sessions => shown' = <<>>
<1>1. /\ Applied(b) \in Seq(Message) /\ Unique(Applied(b))
      /\ Texts(Applied(b)) = Texts(shown) \cup Texts(b)
  BY AppliedIs DEF ViewOK
<1>2. shown' = Applied(b) /\ batch' = <<>> /\ batchTimer' = FALSE
  BY DEF Flush
<1>3. batch' \in Seq(Entry) /\ Unique(batch') /\ Texts(batch') = {}
  BY <1>2, OfEmpty
<1>4. sel \in Sessions => Texts(shown') \cup Texts(batch') \subseteq IdsOf(sel)
  BY <1>1, <1>2, <1>3 DEF ViewOK
<1>5. ViewOK'
  BY <1>1, <1>2, <1>3, <1>4 DEF ViewOK, IdsOf
<1>6. sel \notin Sessions => shown' = <<>>
  <2>1. SUFFICES ASSUME sel \notin Sessions PROVE shown' = <<>>
    OBVIOUS
  <2>2. shown = <<>> /\ b = <<>>
    BY <2>1 DEF SelectionOK
  <2>3. Texts(shown) = {} /\ Texts(b) = {}
    BY <2>2, OfEmpty
  <2>4. Texts(Applied(b)) = {}
    BY <1>1, <2>3
  <2>5. QED
    BY <1>1, <1>2, <2>4, EmptyIs
<1>7. batchTimer' = (batch' # <<>>)
  BY <1>2
<1>8. QED
  BY <1>2, <1>5, <1>6, <1>7

\* A new load replaces the older ones, and is of the session then selected.
LEMMA LoadIs ==
  ASSUME NEW before \in Seq(Asks), NEW s \in Sessions, sel' = s, LoadAfter(before, s),
         online \/ before = <<>>
  PROVE  /\ asks' \in Seq(Wanted') /\ load' \in {"none", "sent"}
         /\ ~online => asks' = <<>>
<1>1. CASE online
  <2>1. PICK a : a = [k |-> "messages", s |-> s]
    OBVIOUS
  <2>2. load' = "sent" /\ asks' = Append(Others(before), a)
    BY <1>1, <2>1 DEF LoadAfter
  <2>3. PICK B : B = Wanted'
    OBVIOUS
  <2>4. a \in B
    BY <2>1, <2>3 DEF Wanted, Asks
  <2>5. {x \in Asks : x.k # "messages"} \subseteq B
    BY <2>3 DEF Wanted
  <2>6. Others(before) \in Seq(B)
    BY <2>5, OthersIs, SeqMono
  <2>7. Append(Others(before), a) \in Seq(B)
    BY <2>4, <2>6, Longer
  <2>8. QED
    BY <1>1, <2>2, <2>3, <2>7
<1>2. CASE ~online
  BY <1>2 DEF LoadAfter
<1>3. QED
  BY <1>1, <1>2

LEMMA AsksAre ==
  ASSUME LinkOK
  PROVE  asks \in Seq(Asks) /\ (~online => asks = <<>>)
<1>1. PICK B : B = Wanted
  OBVIOUS
<1>2. asks \in Seq(B) /\ B \subseteq Asks
  BY <1>1 DEF LinkOK, Wanted
<1>3. asks \in Seq(Asks)
  BY <1>2, SeqMono
<1>4. QED
  BY <1>3 DEF LinkOK

\* Asking for something else than the messages of a session.
LEMMA AskMore ==
  ASSUME LinkOK, NEW a \in Asks, a.k # "messages"
  PROVE  Append(asks, a) \in Seq(Wanted) /\ Append(asks, a) \in Seq(Asks)
<1>1. PICK B : B = Wanted
  OBVIOUS
<1>2. asks \in Seq(B) /\ a \in B
  BY <1>1 DEF LinkOK, Wanted
<1>3. QED
  BY <1>1, <1>2, AsksAre, Longer

LEMMA BatchTimerStep ==
  ASSUME Inv, BatchTimer
  PROVE  Inv'
<1>1. /\ UNCHANGED serverVars /\ UNCHANGED linkVars /\ Flush(batch) /\ batchTimer
      /\ UNCHANGED <<selected, effected, sel, busy, clicks, load>> /\ UNCHANGED runVars /\ UNCHANGED sendVars
  BY DEF BatchTimer, FlushBatch
<1>2. ServerTypes' /\ Apart' /\ Grow /\ UnsentOK'
  BY <1>1, ServerKept
<1>3. LinkOK'
  BY <1>1, <1>2, LinkKept DEF Inv
<1>4. sel \in Sessions
  BY <1>1 DEF Inv, RestOK, SelectionOK
<1>5. sel # NoSession
  BY <1>4, WorkbenchAssumption
<1>6. ViewOK' /\ batch' = <<>> /\ batchTimer' = (batch' # <<>>)
  BY <1>1, <1>4, <1>5, FlushIs DEF Inv, ViewOK, serverVars
<1>7. SelectionOK'
  BY <1>1, <1>4 DEF Inv, SelectionOK
<1>8. RestOK'
  BY <1>1, <1>6 DEF Inv, RestOK, runVars, sendVars
<1>9. QED
  BY <1>2, <1>3, <1>6, <1>7, <1>8 DEF Inv

LEMMA RetryTimerStep ==
  ASSUME Inv, RetryTimer
  PROVE  Inv'
<1>1. /\ UNCHANGED serverVars /\ UNCHANGED <<online, wire, drops>> /\ UNCHANGED viewVars
      /\ UNCHANGED batchVars /\ UNCHANGED runVars /\ UNCHANGED sendVars
      /\ LoadAfter(asks, sel) /\ load = "timer"
  BY DEF RetryTimer
<1>2. ServerTypes' /\ Apart' /\ Grow /\ UnsentOK'
  BY <1>1, ServerKept
<1>3. sel \in Sessions /\ sel' = sel
  BY <1>1 DEF Inv, SelectionOK, viewVars
<1>4. asks' \in Seq(Wanted') /\ load' \in {"none", "sent"} /\ (~online => asks' = <<>>)
  BY <1>1, <1>3, LoadIs, AsksAre DEF Inv
<1>5. wire \in Seq(True')
  BY <1>2, <1>3, WireIn DEF Inv
<1>6. LinkOK'
  BY <1>1, <1>4, <1>5 DEF Inv, LinkOK
<1>7. SelectionOK'
  BY <1>1, <1>3, <1>4 DEF Inv, SelectionOK, viewVars, batchVars
<1>8. ViewOK'
  BY <1>1 DEF Inv, ViewOK, viewVars, batchVars, serverVars, IdsOf
<1>9. RestOK'
  BY <1>1, <1>4 DEF Inv, RestOK, viewVars, batchVars, runVars, sendVars
<1>10. QED
  BY <1>2, <1>6, <1>7, <1>8, <1>9 DEF Inv

LEMMA SelectStep ==
  ASSUME Inv, NEW s \in Sessions, Select(s)
  PROVE  Inv'
<1>1. /\ UNCHANGED serverVars /\ UNCHANGED linkVars /\ selected' = s
      /\ UNCHANGED <<effected, sel, shown, busy>> /\ UNCHANGED batchVars
      /\ UNCHANGED loadVars /\ UNCHANGED runVars /\ UNCHANGED sendVars
  BY DEF Select
<1>2. ServerTypes' /\ Apart' /\ Grow /\ UnsentOK'
  BY <1>1, ServerKept
<1>3. LinkOK'
  BY <1>1, <1>2, LinkKept DEF Inv
<1>4. SelectionOK'
  BY <1>1, WorkbenchAssumption DEF Inv, SelectionOK, batchVars, loadVars
<1>5. ViewOK'
  BY <1>1 DEF Inv, ViewOK, batchVars, serverVars, IdsOf
<1>6. RestOK'
  BY <1>1 DEF Inv, RestOK, batchVars, loadVars, runVars, sendVars
<1>7. QED
  BY <1>2, <1>3, <1>4, <1>5, <1>6 DEF Inv

\* Without answers to loads the wire says as much of another selection.
LEMMA WireElsewhere ==
  ASSUME Inv, UNCHANGED serverVars
  PROVE  Others(wire) \in Seq(True')
<1>1. PICK A : A = True
  OBVIOUS
<1>2. PICK B : B = {x \in A : x.k # "messages"}
  OBVIOUS
<1>3. Others(wire) \in Seq(B)
  BY <1>1, <1>2, OthersIs DEF Inv, LinkOK
<1>4. ASSUME NEW e \in B PROVE e \in True'
  <2>1. e \in Packets /\ Sound(e) /\ e.k # "messages"
    BY <1>1, <1>2 DEF True
  <2>2. Grow
    BY ServerKept
  <2>3. Sound(e)'
    BY <2>1, <2>2, SoundKept
  <2>4. QED
    BY <2>1, <2>3 DEF True
<1>5. PICK C : C = True'
  OBVIOUS
<1>6. B \subseteq C
  BY <1>4, <1>5
<1>7. QED
  BY <1>3, <1>5, <1>6, SeqMono

LEMMA SelectionEffectStep ==
  ASSUME Inv, SelectionEffect
  PROVE  Inv'
<1>1. /\ UNCHANGED serverVars /\ UNCHANGED <<online, drops, selected, busy, clicks>> /\ UNCHANGED sendVars
      /\ LoadAfter(asks, selected) /\ wire' = Others(wire) /\ effected # selected
      /\ effected' = selected /\ sel' = selected /\ shown' = <<>> /\ batch' = <<>> /\ batchTimer' = FALSE
      /\ observed' = 0 /\ feedback' = 0
  BY DEF SelectionEffect, CancelBatch
<1>2. ServerTypes' /\ Apart' /\ Grow /\ UnsentOK'
  BY <1>1, ServerKept
<1>3. selected \in Sessions
  BY <1>1 DEF Inv, SelectionOK
<1>4. asks' \in Seq(Wanted') /\ load' \in {"none", "sent"} /\ (~online => asks' = <<>>)
  BY <1>1, <1>3, LoadIs, AsksAre DEF Inv
<1>5. wire' \in Seq(True')
  BY <1>1, WireElsewhere
<1>6. ~online => wire' = <<>>
  <2>1. SUFFICES ASSUME ~online PROVE Others(wire) = <<>>
    BY <1>1
  <2>2. PICK q : q = wire
    OBVIOUS
  <2>3. q = <<>> /\ DOMAIN q = {} /\ q \in Seq({})
    BY <2>1, <2>2 DEF Inv, LinkOK
  <2>4. Others(q) \in Seq({x \in {} : x.k # "messages"})
    BY <2>3, OthersIs
  <2>5. {x \in {} : x.k # "messages"} = {}
    OBVIOUS
  <2>6. Others(q) \in Seq({})
    BY <2>4, <2>5
  <2>7. Others(q) = <<>>
    BY <2>6
  <2>8. QED
    BY <2>2, <2>7
<1>7. LinkOK'
  BY <1>1, <1>4, <1>5, <1>6 DEF Inv, LinkOK
<1>8. SelectionOK'
  BY <1>1, <1>3, WorkbenchAssumption DEF Inv, SelectionOK
<1>9. ViewOK'
  <2>1. <<>> \in Seq(Message) /\ <<>> \in Seq(Entry) /\ Unique(<<>>) /\ Texts(<<>>) = {}
    BY OfEmpty
  <2>2. QED
    BY <1>1, <2>1 DEF ViewOK
<1>10. RestOK'
  <2>1. 0 \in Numbers
    BY WorkbenchAssumption DEF Numbers
  <2>2. batchTimer' = (batch' # <<>>)
    BY <1>1
  <2>3. QED
    BY <1>1, <1>4, <2>1, <2>2 DEF Inv, RestOK, sendVars
<1>11. QED
  BY <1>2, <1>7, <1>8, <1>9, <1>10 DEF Inv

LEMMA SendStep ==
  ASSUME Inv, Send
  PROVE  Inv'
<1>1. /\ UNCHANGED serverVars /\ UNCHANGED <<online, wire, drops, selected, effected, sel, busy>>
      /\ UNCHANGED <<load, text>> /\ UNCHANGED runVars /\ Flush(batch) /\ online
      /\ selected # NoSession /\ effected = selected
      /\ slot' = [s |-> selected, request |-> Request] /\ ids' = Request[2]
      /\ asks' = Append(asks, [k |-> "send", s |-> selected, request |-> Request])
  BY DEF Send, FlushBatch
<1>2. ServerTypes' /\ Apart' /\ Grow /\ UnsentOK'
  BY <1>1, ServerKept
<1>3. sel \in Sessions /\ selected = sel /\ sel # NoSession
  BY <1>1 DEF Inv, SelectionOK
<1>4. ViewOK' /\ batch' = <<>> /\ batchTimer' = (batch' # <<>>)
  BY <1>1, <1>3, FlushIs DEF Inv, ViewOK, serverVars
<1>5. PICK r \in Requests : r = Request /\ r[2] \in Nat
  <2>1. slot.request \in Requests
    BY DEF Inv, RestOK
  <2>2. <<text, ids + 1>> \in Requests
    BY DEF Inv, RestOK, Requests
  <2>3. Request \in Requests
    BY <2>1, <2>2 DEF Request
  <2>4. QED
    BY <2>3 DEF Requests
<1>6. PICK a : a = [k |-> "send", s |-> selected, request |-> r]
  OBVIOUS
<1>7. a \in Asks /\ a.k # "messages"
  BY <1>3, <1>6 DEF Asks
<1>8. asks' \in Seq(Wanted')
  <2>1. asks' = Append(asks, a)
    BY <1>1, <1>5, <1>6
  <2>2. Wanted' = Wanted
    BY <1>1, <1>2, TrueKept
  <2>3. QED
    BY <1>7, <2>1, <2>2, AskMore DEF Inv
<1>9. wire \in Seq(True')
  BY <1>1, <1>2, WireIn DEF Inv
<1>10. LinkOK'
  BY <1>1, <1>8, <1>9 DEF Inv, LinkOK
<1>11. SelectionOK'
  BY <1>1, <1>3 DEF Inv, SelectionOK
<1>12. RestOK'
  <2>1. slot' \in [s : Sessions \cup {NoSession}, request : Requests] /\ ids' \in Nat
    BY <1>1, <1>3, <1>5
  <2>2. QED
    BY <1>1, <1>4, <2>1 DEF Inv, RestOK, runVars
<1>13. QED
  BY <1>2, <1>4, <1>10, <1>11, <1>12 DEF Inv

LEMMA ConnectStep ==
  ASSUME Inv, Connect
  PROVE  Inv'
<1>1. /\ UNCHANGED serverVars /\ UNCHANGED viewVars /\ UNCHANGED batchVars /\ UNCHANGED loadVars
      /\ UNCHANGED sendVars /\ online' = TRUE /\ wire' = wire /\ observed' = 0 /\ feedback' = 0
      /\ asks' \in {<<ListFor("connected"), ListFor("connected")>>, <<ListFor("connected")>>}
  BY DEF Connect
<1>2. ServerTypes' /\ Apart' /\ Grow /\ UnsentOK' /\ sel' = sel
  BY <1>1, ServerKept DEF viewVars
<1>3. asks' \in Seq(Wanted')
  <2>1. PICK B : B = Wanted'
    OBVIOUS
  <2>2. PICK a : a = ListFor("connected")
    OBVIOUS
  <2>3. a \in B
    BY <2>1, <2>2 DEF ListFor, Wanted, Asks, Whys
  <2>4. <<a, a>> \in Seq(B) /\ <<a>> \in Seq(B)
    BY <2>3
  <2>5. QED
    BY <1>1, <2>1, <2>2, <2>4
<1>4. wire \in Seq(True')
  BY <1>2, WireIn DEF Inv
<1>5. LinkOK'
  BY <1>1, <1>3, <1>4 DEF LinkOK
<1>6. SelectionOK'
  BY <1>1 DEF Inv, SelectionOK, viewVars, batchVars, loadVars
<1>7. ViewOK'
  BY <1>1 DEF Inv, ViewOK, viewVars, batchVars, serverVars, IdsOf
<1>8. RestOK'
  <2>1. 0 \in Numbers
    BY WorkbenchAssumption DEF Numbers
  <2>2. QED
    BY <1>1, <2>1 DEF Inv, RestOK, viewVars, batchVars, loadVars, sendVars
<1>9. QED
  BY <1>2, <1>5, <1>6, <1>7, <1>8 DEF Inv

LEMMA DropStep ==
  ASSUME Inv, Drop
  PROVE  Inv'
<1>1. /\ UNCHANGED <<stored, transcript, segment, process, runs>>
      /\ UNCHANGED <<selected, effected, sel, busy, clicks, slot, text, ids>>
      /\ online' = FALSE /\ asks' = <<>> /\ wire' = <<>> /\ observed' = 0 /\ feedback' = 0
      /\ Flush(batch) /\ load' = IF load = "sent" THEN "none" ELSE load
  BY DEF Drop, FlushBatch
<1>2. unsent' = [s \in Sessions |-> IF unsent[s].k = "user" THEN [unsent[s] EXCEPT !.reply = FALSE]
                                                           ELSE unsent[s]]
  BY Zenon DEF Drop
<1>3. ServerTypes' /\ Apart' /\ Grow
  BY <1>1, FilesKept DEF Inv
<1>4. ASSUME NEW s \in Sessions, unsent'[s] # NoEvent
      PROVE  unsent'[s] \in Events /\ unsent'[s] \in True' /\ unsent'[s].s = s
  <2>1. PICK e : e = unsent[s]
    OBVIOUS
  <2>2. unsent'[s] = IF e.k = "user" THEN [e EXCEPT !.reply = FALSE] ELSE e
    BY <1>2, <2>1
  <2>3. PICK f : f = unsent'[s]
    OBVIOUS
  <2>4. e # NoEvent
    BY <1>4, <2>2 DEF NoEvent
  <2>5. e \in Events /\ e.s = s /\ Sound(e)
    BY <2>1, <2>4 DEF Inv, UnsentOK, True
  <2>6. f \in Events /\ f \in Packets /\ f.s = s /\ Sound(f)
    <3>1. CASE e.k = "user"
      <4>1. e \in Users
        BY <2>5, <3>1, KindOf DEF Packets
      <4>2. f = [e EXCEPT !.reply = FALSE]
        BY <2>2, <2>3, <3>1
      <4>3. f \in Users /\ f.k = "user" /\ f.s = e.s /\ f.m = e.m
        BY <4>1, <4>2 DEF Users
      <4>4. f \in Events /\ f \in Packets
        BY <4>3 DEF Events, Packets
      <4>5. Sound(f)
        BY <2>5, <3>1, <4>3 DEF Sound
      <4>6. QED
        BY <2>5, <4>3, <4>4, <4>5
    <3>2. CASE e.k # "user"
      <4>1. f = e
        BY <2>2, <2>3, <3>2
      <4>2. QED
        BY <2>5, <4>1 DEF Packets
    <3>3. QED
      BY <3>1, <3>2
  <2>7. Sound(f)'
    BY <1>3, <2>6, KindOf, SoundKept
  <2>8. QED
    BY <2>3, <2>6, <2>7 DEF True
<1>5. UnsentOK'
  <2>1. \A s \in Sessions : unsent'[s] \in (Events \cap True') \cup {NoEvent}
    BY <1>4
  <2>2. PICK B : B = (Events \cap True') \cup {NoEvent}
    OBVIOUS
  <2>3. unsent' \in [Sessions -> B]
    <3>1. unsent' = [s \in Sessions |-> unsent'[s]]
      BY <1>2
    <3>2. QED
      BY <2>1, <2>2, <3>1
  <2>4. QED
    BY <1>4, <2>2, <2>3 DEF UnsentOK
<1>6. LinkOK'
  <2>1. PICK B : B = True'
    OBVIOUS
  <2>2. PICK C : C = Wanted'
    OBVIOUS
  <2>3. <<>> \in Seq(B) /\ <<>> \in Seq(C)
    OBVIOUS
  <2>4. QED
    BY <1>1, <2>1, <2>2, <2>3 DEF LinkOK
<1>7. sel = NoSession => batch = <<>>
  BY WorkbenchAssumption DEF Inv, SelectionOK
<1>8. /\ ViewOK' /\ batch' = <<>> /\ batchTimer' = (batch' # <<>>)
      /\ sel \notin Sessions => shown' = <<>>
  BY <1>1, <1>7, FlushIs DEF Inv, ViewOK
<1>9. SelectionOK'
  BY <1>1, <1>8 DEF Inv, SelectionOK
<1>10. RestOK'
  <2>1. 0 \in Numbers
    BY WorkbenchAssumption DEF Numbers
  <2>2. QED
    BY <1>1, <1>8, <2>1 DEF Inv, RestOK
<1>11. QED
  BY <1>3, <1>5, <1>6, <1>8, <1>9, <1>10 DEF Inv

-----------------------------------------------------------------------------
(* What the window reads *)

LEMMA ReadLink ==
  ASSUME Inv, Read
  PROVE  /\ M \in Packets /\ Sound(M) /\ online /\ online' = online /\ sel' = sel
         /\ UNCHANGED serverVars /\ wire' \in Seq(True') /\ Wanted' = Wanted
<1>1. /\ UNCHANGED serverVars /\ online' = online /\ wire # <<>>
      /\ wire' = Others(Tail(wire)) \/ wire' = Tail(wire)
  BY DEF Read
<1>2. sel' = sel
  BY DEF Read, ReadList, ReadMessages, ReadSent, ReadUser, ReadText, ReadOther, ReadElsewhere,
         ReadStatus, viewVars
<1>3. Grow
  BY <1>1, ServerKept
<1>4. PICK B : B = True'
  OBVIOUS
<1>5. wire \in Seq(B)
  BY <1>2, <1>3, <1>4, WireIn DEF Inv
<1>6. Tail(wire) \in Seq(B)
  BY <1>1, <1>5
<1>7. Others(Tail(wire)) \in Seq({x \in B : x.k # "messages"})
  BY <1>6, OthersIs
<1>8. {x \in B : x.k # "messages"} \subseteq B
  OBVIOUS
<1>9. Others(Tail(wire)) \in Seq(B)
  BY <1>7, <1>8, SeqMono
<1>10. M \in True
  <2>1. PICK A : A = True
    OBVIOUS
  <2>2. wire \in Seq(A)
    BY <2>1 DEF Inv, LinkOK
  <2>3. Head(wire) \in A
    BY <1>1, <2>2
  <2>4. QED
    BY <2>1, <2>3 DEF M
<1>11. online
  BY <1>1 DEF Inv, LinkOK
<1>12. Wanted' = Wanted
  BY <1>2 DEF Wanted
<1>13. QED
  BY <1>1, <1>2, <1>4, <1>6, <1>9, <1>10, <1>11, <1>12 DEF True

LEMMA ReadKeeps ==
  ASSUME Inv, Read, asks' \in Seq(Wanted'), SelectionOK', ViewOK', RestOK'
  PROVE  Inv'
<1>1. ServerTypes' /\ Apart' /\ Grow /\ UnsentOK'
  BY ReadLink, ServerKept
<1>2. LinkOK'
  BY ReadLink DEF LinkOK, Inv
<1>3. QED
  BY <1>1, <1>2 DEF Inv

LEMMA ReadListStep ==
  ASSUME Inv, Read, ReadList
  PROVE  asks' \in Seq(Wanted') /\ SelectionOK' /\ ViewOK' /\ RestOK'
<1>1. /\ M.k = "list" /\ busy' = M.busy
      /\ UNCHANGED <<effected, sel, shown, clicks>> /\ UNCHANGED batchVars /\ UNCHANGED runVars
      /\ UNCHANGED <<slot, ids>> /\ text' \in {text, text + 1}
  BY DEF ReadList
<1>2. \/ UNCHANGED <<asks, load, selected>>
      \/ sel # NoSession /\ LoadAfter(asks, sel) /\ UNCHANGED selected
      \/ sel = NoSession /\ selected' \in Sessions /\ UNCHANGED <<asks, load>>
  BY DEF ReadList
<1>3. /\ M \in Packets /\ Sound(M) /\ online /\ sel' = sel /\ UNCHANGED serverVars /\ Wanted' = Wanted
  BY ReadLink
<1>4. busy' \subseteq Sessions
  <2>1. PICK m : m = M
    OBVIOUS
  <2>2. m \in Lists
    BY <1>1, <1>3, <2>1, KindOf
  <2>3. m.busy \subseteq Sessions
    BY <2>2 DEF Lists
  <2>4. QED
    BY <1>1, <2>1, <2>3
<1>5. /\ asks' \in Seq(Wanted') /\ load' \in {"none", "sent", "timer"}
      /\ load' = "timer" => load = "timer"
  <2>1. CASE UNCHANGED <<asks, load>>
    BY <1>3, <2>1 DEF Inv, LinkOK, RestOK
  <2>2. CASE sel # NoSession /\ LoadAfter(asks, sel)
    <3>1. sel \in Sessions
      BY <2>2 DEF Inv, SelectionOK
    <3>2. asks' \in Seq(Wanted') /\ load' \in {"none", "sent"}
      BY <1>3, <2>2, <3>1, LoadIs, AsksAre DEF Inv
    <3>3. QED
      BY <3>2
  <2>3. QED
    BY <1>2, <2>1, <2>2
<1>6. SelectionOK'
  BY <1>1, <1>2, <1>5, WorkbenchAssumption DEF Inv, SelectionOK, batchVars
<1>7. ViewOK'
  BY <1>1, <1>3 DEF Inv, ViewOK, batchVars, serverVars, IdsOf
<1>8. RestOK'
  BY <1>1, <1>4, <1>5 DEF Inv, RestOK, batchVars, runVars
<1>9. QED
  BY <1>5, <1>6, <1>7, <1>8

LEMMA ReadMessagesStep ==
  ASSUME Inv, Read, ReadMessages
  PROVE  asks' \in Seq(Wanted') /\ SelectionOK' /\ ViewOK' /\ RestOK'
<1>1. /\ M.k = "messages" /\ UNCHANGED <<asks, selected, effected, sel, busy, clicks>>
      /\ UNCHANGED batchVars /\ UNCHANGED runVars /\ UNCHANGED sendVars
      /\ load' \in {"timer", "none"} /\ shown' \in {shown, M.data}
  BY DEF ReadMessages
<1>2. /\ M \in Packets /\ Sound(M) /\ online /\ sel' = sel /\ UNCHANGED serverVars /\ Wanted' = Wanted
  BY ReadLink
<1>3. PICK m : m = M
  OBVIOUS
<1>4. m \in Loads /\ m.s = sel /\ Unique(m.data) /\ Texts(m.data) \subseteq IdsOf(m.s)
  BY <1>1, <1>2, <1>3, KindOf DEF Sound
<1>5. m.data \in Seq(Message) /\ sel \in Sessions
  BY <1>4 DEF Loads
<1>6. asks' \in Seq(Wanted')
  BY <1>1, <1>2 DEF Inv, LinkOK
<1>7. SelectionOK'
  BY <1>1, <1>5 DEF Inv, SelectionOK, batchVars
<1>8. shown' \in Seq(Message) /\ Unique(shown') /\ Texts(shown') \subseteq IdsOf(sel)
  BY <1>1, <1>3, <1>4, <1>5 DEF Inv, ViewOK
<1>9. ViewOK'
  BY <1>1, <1>2, <1>5, <1>8 DEF Inv, ViewOK, batchVars, serverVars, IdsOf
<1>10. RestOK'
  BY <1>1 DEF Inv, RestOK, batchVars, runVars, sendVars
<1>11. QED
  BY <1>6, <1>7, <1>9, <1>10

LEMMA ListIs ==
  ASSUME NEW why \in Whys
  PROVE  ListFor(why) \in Asks /\ ListFor(why).k # "messages"
BY DEF ListFor, Asks, Whys

LEMMA ReadSentStep ==
  ASSUME Inv, Read, ReadSent
  PROVE  asks' \in Seq(Wanted') /\ SelectionOK' /\ ViewOK' /\ RestOK'
<1>1. /\ UNCHANGED viewVars /\ UNCHANGED batchVars /\ UNCHANGED loadVars /\ UNCHANGED runVars
      /\ UNCHANGED <<text, ids>> /\ slot' \in {slot, NoSlot}
      /\ asks' \in {asks, Append(asks, ListFor("sent"))}
  BY DEF ReadSent
<1>2. sel' = sel /\ UNCHANGED serverVars /\ Wanted' = Wanted
  BY ReadLink
<1>3. asks' \in Seq(Wanted')
  <2>1. asks \in Seq(Wanted)
    BY DEF Inv, LinkOK
  <2>2. ListFor("sent") \in Asks /\ ListFor("sent").k # "messages"
    BY ListIs DEF Whys
  <2>3. Append(asks, ListFor("sent")) \in Seq(Wanted)
    BY <2>2, AskMore DEF Inv
  <2>4. QED
    BY <1>1, <1>2, <2>1, <2>3
<1>4. SelectionOK'
  BY <1>1 DEF Inv, SelectionOK, viewVars, batchVars, loadVars
<1>5. ViewOK'
  BY <1>1, <1>2 DEF Inv, ViewOK, viewVars, batchVars, serverVars, IdsOf
<1>6. RestOK'
  <2>1. NoSlot \in [s : Sessions \cup {NoSession}, request : Requests]
    BY DEF NoSlot, NoRequest, Requests
  <2>2. QED
    BY <1>1, <2>1 DEF Inv, RestOK, viewVars, batchVars, loadVars, runVars
<1>7. QED
  BY <1>3, <1>4, <1>5, <1>6

LEMMA ReadAsideStep ==
  ASSUME Inv, Read, ReadOther \/ ReadElsewhere
  PROVE  asks' \in Seq(Wanted') /\ SelectionOK' /\ ViewOK' /\ RestOK'
<1>1. /\ UNCHANGED asks /\ UNCHANGED viewVars /\ UNCHANGED batchVars /\ UNCHANGED load
      /\ UNCHANGED runVars /\ UNCHANGED sendVars
  BY DEF ReadOther, ReadElsewhere, loadVars
<1>2. sel' = sel /\ UNCHANGED serverVars /\ Wanted' = Wanted
  BY ReadLink
<1>3. asks' \in Seq(Wanted')
  BY <1>1, <1>2 DEF Inv, LinkOK
<1>4. SelectionOK'
  BY <1>1 DEF Inv, SelectionOK, viewVars, batchVars
<1>5. ViewOK'
  BY <1>1, <1>2 DEF Inv, ViewOK, viewVars, batchVars, serverVars, IdsOf
<1>6. RestOK'
  BY <1>1 DEF Inv, RestOK, viewVars, batchVars, runVars, sendVars
<1>7. QED
  BY <1>3, <1>4, <1>5, <1>6

LEMMA ReadUserStep ==
  ASSUME Inv, Read, ReadUser
  PROVE  asks' \in Seq(Wanted') /\ SelectionOK' /\ ViewOK' /\ RestOK'
<1>1. /\ M.k = "user" /\ busy' = busy \cup {M.s}
      /\ UNCHANGED <<asks, selected, effected, sel, clicks, load>> /\ UNCHANGED sendVars
  BY DEF ReadUser
<1>2. /\ M \in Packets /\ Sound(M) /\ sel' = sel /\ UNCHANGED serverVars /\ Wanted' = Wanted
  BY ReadLink
<1>3. PICK m : m = M
  OBVIOUS
<1>4. m \in Users /\ m.m.id \in IdsOf(m.s)
  BY <1>1, <1>2, <1>3, KindOf DEF Sound
<1>5. m.s \in Sessions /\ m.m \in Message
  BY <1>4 DEF Users
<1>6. m.m.id[2] \in Numbers
  <2>1. m.m.id \in Names
    BY <1>5 DEF Message
  <2>2. QED
    BY <2>1 DEF Names
<1>7. asks' \in Seq(Wanted')
  BY <1>1, <1>2 DEF Inv, LinkOK
<1>8. busy' \subseteq Sessions
  BY <1>1, <1>3, <1>5 DEF Inv, RestOK
<1>9. CASE M.s # sel
  <2>1. UNCHANGED shown /\ UNCHANGED batchVars /\ UNCHANGED runVars
    BY <1>9 DEF ReadUser
  <2>2. SelectionOK'
    BY <1>1, <2>1 DEF Inv, SelectionOK, batchVars
  <2>3. ViewOK'
    BY <1>1, <1>2, <2>1 DEF Inv, ViewOK, batchVars, serverVars, IdsOf
  <2>4. RestOK'
    BY <1>1, <1>8, <2>1 DEF Inv, RestOK, batchVars, runVars, sendVars
  <2>5. QED
    BY <1>7, <2>2, <2>3, <2>4
<1>10. CASE M.s = sel
  <2>1. PICK a : a = Applied(batch)
    OBVIOUS
  <2>2. /\ a \in Seq(Message) /\ Unique(a) /\ Texts(a) = Texts(shown) \cup Texts(batch)
    BY <2>1, AppliedIs DEF Inv, ViewOK
  <2>3. /\ shown' = IF Has(a, m.m.id) THEN a ELSE Append(a, m.m)
        /\ batch' = <<>> /\ batchTimer' = FALSE
        /\ observed' = m.m.id[2] /\ feedback' = m.m.id[2]
    BY <1>3, <1>10, <2>1 DEF ReadUser
  <2>4. sel \in Sessions
    BY <1>3, <1>5, <1>10
  <2>5. shown' \in Seq(Message) /\ Unique(shown') /\ Texts(shown') \subseteq IdsOf(sel)
    <3>1. Texts(a) \subseteq IdsOf(sel) /\ m.m.id \in IdsOf(sel)
      BY <1>3, <1>4, <1>10, <2>2, <2>4 DEF Inv, ViewOK
    <3>2. CASE Has(a, m.m.id)
      BY <2>2, <2>3, <3>1, <3>2
    <3>3. CASE ~Has(a, m.m.id)
      <4>1. m.m.id \notin Texts(a)
        BY <3>3, InTexts
      <4>2. /\ Append(a, m.m) \in Seq(Message) /\ Unique(Append(a, m.m))
            /\ Texts(Append(a, m.m)) = Texts(a) \cup {m.m.id}
        BY <1>5, <2>2, <4>1, OneMore
      <4>3. QED
        BY <2>3, <3>1, <3>3, <4>2
    <3>4. QED
      BY <3>2, <3>3
  <2>6. SelectionOK'
    BY <1>1, <2>4 DEF Inv, SelectionOK
  <2>7. ViewOK'
    <3>1. <<>> \in Seq(Entry) /\ Unique(<<>>) /\ Texts(<<>>) = {}
      BY OfEmpty
    <3>2. QED
      BY <1>1, <1>2, <2>3, <2>5, <3>1 DEF ViewOK, serverVars, IdsOf
  <2>8. RestOK'
    <3>1. batchTimer' = (batch' # <<>>)
      BY <2>3
    <3>2. QED
      BY <1>1, <1>6, <1>8, <2>3, <3>1 DEF Inv, RestOK, sendVars
  <2>9. QED
    BY <1>7, <2>6, <2>7, <2>8
<1>11. QED
  BY <1>9, <1>10

LEMMA ReadTextStep ==
  ASSUME Inv, Read, ReadText
  PROVE  asks' \in Seq(Wanted') /\ SelectionOK' /\ ViewOK' /\ RestOK'
<1>1. /\ M.k \in {"delta", "complete"} /\ M.s = sel
      /\ UNCHANGED <<asks, selected, effected, sel, busy, clicks, load>>
      /\ UNCHANGED runVars /\ UNCHANGED sendVars
  BY DEF ReadText
<1>2. /\ M \in Packets /\ Sound(M) /\ sel' = sel /\ UNCHANGED serverVars /\ Wanted' = Wanted
  BY ReadLink
<1>3. PICK m : m = M
  OBVIOUS
<1>4. m \in Deltas \cup Completes /\ m.s \in Sessions /\ m.s = sel /\ m.id \in IdsOf(sel)
  BY <1>1, <1>2, <1>3, KindOf DEF Sound
<1>5. PICK b : b = Accumulated(m)
  OBVIOUS
<1>6. b \in Seq(Entry) /\ Unique(b) /\ b # <<>> /\ Texts(b) = Texts(batch) \cup {m.id}
  BY <1>4, <1>5, AccumulatedIs DEF Inv, ViewOK
<1>7. sel # NoSession /\ Texts(b) \subseteq IdsOf(sel)
  BY <1>4, <1>6, WorkbenchAssumption DEF Inv, ViewOK
<1>8. /\ ViewOK' /\ batchTimer' = (batch' # <<>>)
  <2>1. CASE batch' = b /\ batchTimer' = TRUE /\ UNCHANGED shown
    <3>1. ViewOK'
      BY <1>1, <1>2, <1>4, <1>6, <1>7, <2>1 DEF Inv, ViewOK, serverVars, IdsOf
    <3>2. batchTimer' = (batch' # <<>>)
      BY <1>6, <2>1
    <3>3. QED
      BY <3>1, <3>2
  <2>2. CASE Flush(b)
    BY <1>1, <1>2, <1>4, <1>6, <1>7, <2>2, FlushIs DEF Inv, serverVars
  <2>3. QED
    BY <1>3, <1>5, <2>1, <2>2 DEF ReadText
<1>9. asks' \in Seq(Wanted')
  BY <1>1, <1>2 DEF Inv, LinkOK
<1>10. SelectionOK'
  BY <1>1, <1>4 DEF Inv, SelectionOK
<1>11. RestOK'
  BY <1>1, <1>8 DEF Inv, RestOK, runVars, sendVars
<1>12. QED
  BY <1>8, <1>9, <1>10, <1>11

LEMMA ReadStatusStep ==
  ASSUME Inv, Read, ReadStatus
  PROVE  asks' \in Seq(Wanted') /\ SelectionOK' /\ ViewOK' /\ RestOK'
<1>1. /\ M.k = "status" /\ busy' = busy \ {M.s}
      /\ UNCHANGED <<selected, effected, sel, clicks>> /\ UNCHANGED sendVars
  BY DEF ReadStatus
<1>2. /\ M \in Packets /\ online /\ sel' = sel /\ UNCHANGED serverVars /\ Wanted' = Wanted
  BY ReadLink
<1>3. busy' \subseteq Sessions
  BY <1>1 DEF Inv, RestOK
<1>4. /\ Append(asks, ListFor("status")) \in Seq(Wanted)
      /\ Append(asks, ListFor("status")) \in Seq(Asks)
  BY ListIs, AskMore DEF Inv, Whys
<1>5. CASE M.s # sel
  <2>1. /\ asks' = Append(asks, ListFor("status"))
        /\ UNCHANGED shown /\ UNCHANGED batchVars /\ UNCHANGED loadVars /\ UNCHANGED runVars
    BY <1>5 DEF ReadStatus
  <2>2. SelectionOK'
    BY <1>1, <2>1 DEF Inv, SelectionOK, batchVars, loadVars
  <2>3. ViewOK'
    BY <1>1, <1>2, <2>1 DEF Inv, ViewOK, batchVars, serverVars, IdsOf
  <2>4. RestOK'
    BY <1>1, <1>3, <2>1 DEF Inv, RestOK, batchVars, loadVars, runVars, sendVars
  <2>5. QED
    BY <1>2, <1>4, <2>1, <2>2, <2>3, <2>4
<1>6. CASE M.s = sel
  <2>1. /\ Flush(batch) /\ LoadAfter(Append(asks, ListFor("status")), sel)
        /\ (observed' = 0 /\ feedback' = 0) \/ UNCHANGED runVars
    BY <1>6 DEF ReadStatus, FlushBatch
  <2>2. sel \in Sessions /\ sel # NoSession
    BY <1>1, <1>2, <1>6, KindOf, WorkbenchAssumption
  <2>3. ViewOK' /\ batch' = <<>> /\ batchTimer' = (batch' # <<>>)
    BY <1>1, <1>2, <2>1, <2>2, FlushIs DEF Inv, ViewOK, serverVars
  <2>4. asks' \in Seq(Wanted') /\ load' \in {"none", "sent"}
    BY <1>2, <1>4, <2>1, <2>2, LoadIs
  <2>5. SelectionOK'
    BY <1>1, <2>2, <2>4 DEF Inv, SelectionOK
  <2>6. RestOK'
    <3>1. 0 \in Numbers
      BY WorkbenchAssumption DEF Numbers
    <3>2. QED
      BY <1>1, <1>3, <2>1, <2>3, <2>4, <3>1 DEF Inv, RestOK, runVars, sendVars
  <2>7. QED
    BY <2>3, <2>4, <2>5, <2>6
<1>7. QED
  BY <1>5, <1>6

LEMMA ReadStep ==
  ASSUME Inv, Read
  PROVE  Inv'
<1>1. asks' \in Seq(Wanted') /\ SelectionOK' /\ ViewOK' /\ RestOK'
  <2>1. \/ ReadList \/ ReadMessages \/ ReadSent \/ ReadUser
        \/ ReadText \/ ReadOther \/ ReadElsewhere \/ ReadStatus
    BY DEF Read
  <2>2. QED
    BY <2>1, ReadListStep, ReadMessagesStep, ReadSentStep, ReadUserStep, ReadTextStep,
       ReadAsideStep, ReadStatusStep
<1>2. QED
  BY <1>1, ReadKeeps

-----------------------------------------------------------------------------
(* The theorem *)

LEMMA InvInit == Init => Inv
<1> SUFFICES ASSUME Init PROVE Inv
  OBVIOUS
<1>1. 0 \in Numbers
  BY WorkbenchAssumption DEF Numbers
<1>2. \A s \in Sessions : stored[s] = <<>> /\ transcript[s] = <<>>
  BY DEF Init
<1>3. ServerTypes
  <2>1. <<>> \in Seq(Message)
    OBVIOUS
  <2>2. QED
    BY <1>1, <2>1 DEF Init, ServerTypes
<1>4. Apart
  <2>1. \A s \in Sessions : IdsOf(s) = {}
    BY <1>2, OfEmpty DEF IdsOf
  <2>2. \A s \in Sessions : Unique(stored[s]) /\ Unique(transcript[s])
    BY <1>2, OfEmpty
  <2>3. \A s \in Sessions : process[s] <= runs /\ segment[s] = NoId
    BY DEF Init
  <2>4. QED
    BY <2>1, <2>2, <2>3 DEF Apart
<1>5. UnsentOK
  <2>1. PICK B : B = (Events \cap True) \cup {NoEvent}
    OBVIOUS
  <2>2. unsent \in [Sessions -> B] /\ \A s \in Sessions : unsent[s] = NoEvent
    BY <2>1 DEF Init
  <2>3. QED
    BY <2>1, <2>2 DEF UnsentOK
<1>6. LinkOK
  <2>1. PICK B, C : B = True /\ C = Wanted
    OBVIOUS
  <2>2. <<>> \in Seq(B) /\ <<>> \in Seq(C)
    OBVIOUS
  <2>3. QED
    BY <2>1, <2>2 DEF Init, LinkOK
<1>7. SelectionOK
  BY DEF Init, SelectionOK
<1>8. ViewOK
  <2>1. <<>> \in Seq(Message) /\ <<>> \in Seq(Entry)
    OBVIOUS
  <2>2. QED
    BY <2>1, OfEmpty DEF Init, ViewOK
<1>9. RestOK
  <2>1. NoSlot \in [s : Sessions \cup {NoSession}, request : Requests]
    BY DEF NoSlot, NoRequest, Requests
  <2>2. QED
    BY <1>1, <2>1 DEF Init, RestOK
<1>10. QED
  BY <1>3, <1>4, <1>5, <1>6, <1>7, <1>8, <1>9 DEF Inv

LEMMA InvNext == Inv /\ [Next]_vars => Inv'
<1> SUFFICES ASSUME Inv, [Next]_vars PROVE Inv'
  OBVIOUS
<1>1. CASE Next
  <2>1. ASSUME NEW s \in Sessions, OtherSends(s) PROVE Inv'
    BY <2>1, OtherSendsStep
  <2>2. ASSUME NEW s \in Sessions,
               ConsumeDelta(s) \/ ConsumeComplete(s) \/ ConsumeTool(s) \/ FlushLast(s)
        PROVE  Inv'
    BY <2>2, ConsumeStep
  <2>3. ASSUME NEW s \in Sessions, Emit(s) PROVE Inv'
    BY <2>3, EmitStep
  <2>4. ASSUME NEW s \in Sessions, Select(s) PROVE Inv'
    BY <2>4, SelectStep
  <2>5. QED
    BY <1>1, <2>1, <2>2, <2>3, <2>4, AnswerStep, BatchTimerStep, RetryTimerStep,
       SelectionEffectStep, SendStep, ReadStep, ConnectStep, DropStep DEF Next
<1>2. CASE UNCHANGED vars
  <2>1. UNCHANGED serverVars /\ UNCHANGED linkVars /\ UNCHANGED windowVars /\ sel' = sel
    BY <1>2 DEF vars, windowVars, viewVars
  <2>2. ServerTypes' /\ Apart' /\ Grow /\ UnsentOK'
    BY <2>1, ServerKept
  <2>3. LinkOK'
    BY <2>1, <2>2, LinkKept DEF Inv
  <2>4. SelectionOK' /\ ViewOK' /\ RestOK'
    BY <2>1, <2>2, WindowKept DEF Inv
  <2>5. QED
    BY <2>2, <2>3, <2>4 DEF Inv
<1>3. QED
  BY <1>1, <1>2

LEMMA InvShows == Inv => ShowsTheSession
<1> SUFFICES ASSUME Inv, NEW i \in DOMAIN shown
             PROVE  /\ sel # NoSession /\ shown[i].id \in Texts(stored[sel]) \cup Texts(transcript[sel])
                    /\ shown[i].text = [n \in DOMAIN shown[i].text |-> n]
                    /\ \A j \in DOMAIN shown : shown[i].id = shown[j].id => i = j
  BY Zenon DEF ShowsTheSession
<1>1. PICK q \in Seq(Message) : q = shown
  BY DEF Inv, ViewOK
<1>2. PICK m \in Message : m = shown[i]
  BY <1>1
<1>3. sel \in Sessions
  <2>1. shown # <<>>
    BY <1>1
  <2>2. QED
    BY <2>1 DEF Inv, SelectionOK
<1>4. sel # NoSession
  BY <1>3, WorkbenchAssumption
<1>5. m.id \in Texts(shown)
  BY <1>2, Zenon, InTexts DEF Has
<1>6. m.id \in IdsOf(sel)
  BY <1>3, <1>5 DEF Inv, ViewOK
<1>7. m.text = [n \in DOMAIN m.text |-> n]
  <2>1. m.text \in Counts
    BY DEF Message
  <2>2. PICK k \in Nat : m.text = [n \in 1..k |-> n]
    BY <2>1 DEF Counts
  <2>3. QED
    BY <2>2
<1>8. \A j \in DOMAIN shown : shown[i].id = shown[j].id => i = j
  BY Zenon DEF Inv, ViewOK, Unique
<1>9. QED
  BY <1>2, <1>4, <1>6, <1>7, <1>8 DEF IdsOf

LEMMA InvTypes == Inv => TypeOK
BY DEF Inv, SelectionOK, RestOK, LinkOK, TypeOK, Numbers

(* What is shown is of the selected session, each message once and each    *)
(* text a beginning of what was written, in whatever order deltas,         *)
(* snapshots, complete texts and loads arrive and connections are lost     *)
(* (applyPendingBatch, loadMessages and the checks of selectedRef).        *)
THEOREM ShownIsOfTheSession == Spec => []ShowsTheSession
<1>1. Spec => []Inv
  BY InvInit, InvNext, PTL DEF Spec
<1>2. QED
  BY <1>1, InvShows, PTL

(* The variables of the window keep their types: the effect of a selection *)
(* and selectedRef agree, the timer of the batch is armed while there is   *)
(* one, and nothing is under way without a connection (useWorkbench).      *)
THEOREM WindowIsTyped == Spec => []TypeOK
<1>1. Spec => []Inv
  BY InvInit, InvNext, PTL DEF Spec
<1>2. QED
  BY <1>1, InvTypes, PTL

-----------------------------------------------------------------------------
(* What a quiet window shows: the order of what is under way               *)

\* What the window takes from a packet for whether a session is processing.
Fixes(m, s) == m.k = "list" \/ (m.k \in {"user", "status"} /\ m.s = s)
Tells(m, s) == IF m.k = "list" THEN s \in m.busy ELSE m.k = "user"

\* Whether it will show s as processing, from now on by b, when it has read w.
Ends(w, s, b, r) ==
  /\ \A i \in DOMAIN w :
       Fixes(w[i], s) /\ (\A j \in DOMAIN w : i < j => ~Fixes(w[j], s)) => (Tells(w[i], s) <=> r # 0)
  /\ (\A i \in DOMAIN w : ~Fixes(w[i], s)) => (s \in b <=> r # 0)

\* The end of a run of s comes later.
Over(w, s, n) == \E j \in DOMAIN w : n < j /\ w[j].k = "status" /\ w[j].s = s
OverRun(w, s, r, n) ==
  \E j \in DOMAIN w : n < j /\ w[j].k = "status" /\ w[j].s = s /\ w[j].r = r
Order(w, s, r) == \A i \in DOMAIN w :
  /\ w[i].k \in {"delta", "complete", "tool"} /\ w[i].s = s => r # 0 \/ Over(w, s, i)
  /\ w[i].k = "user" /\ w[i].s = s =>
       w[i].m.id[2] # 0 /\ (r = w[i].m.id[2] \/ OverRun(w, s, w[i].m.id[2], i))

\* t is what is behind position n of w, perhaps without answers to loads.
IsKept(w, t, n, g) ==
  /\ g \in [DOMAIN t -> DOMAIN w]
  /\ \A k \in DOMAIN t : t[k] = w[g[k]] /\ n < g[k]
  /\ \A j, k \in DOMAIN t : j < k => g[j] < g[k]
  /\ \A i \in DOMAIN w : n < i /\ w[i].k # "messages" => \E k \in DOMAIN t : g[k] = i
Kept(w, t, n) == \E g : IsKept(w, t, n, g)

LEMMA TailKept ==
  ASSUME NEW S, NEW w \in Seq(S), w # <<>>
  PROVE  Kept(w, Tail(w), 1) /\ Tail(w) \in Seq(S)
<1>1. PICK l \in Nat : l = Len(w)
  OBVIOUS
<1>2. PICK t : t = Tail(w)
  OBVIOUS
<1>3. /\ l # 0 /\ DOMAIN w = 1..l /\ t \in Seq(S) /\ DOMAIN t = 1..(l - 1)
      /\ \A k \in 1..(l - 1) : t[k] = w[k + 1]
  BY <1>1, <1>2
<1>4. PICK g : g = [k \in 1..(l - 1) |-> k + 1]
  OBVIOUS
<1>5. /\ g \in [1..(l - 1) -> 1..l] /\ \A k \in 1..(l - 1) : g[k] = k + 1 /\ 1 < g[k]
      /\ \A i \in 1..l : 1 < i => i - 1 \in 1..(l - 1) /\ g[i - 1] = i
  BY <1>3, <1>4
<1>6. \A j, k \in 1..(l - 1) : j < k => g[j] < g[k]
  BY <1>5
<1>7. IsKept(w, t, 1, g)
  BY <1>3, <1>5, <1>6 DEF IsKept
<1>8. QED
  BY <1>2, <1>3, <1>7 DEF Kept

LEMMA OthersKept ==
  ASSUME NEW S, NEW w \in Seq(S)
  PROVE  Kept(w, Others(w), 0) /\ Others(w) \in Seq(S)
<1>1. PICK P : P = {i \in DOMAIN w : w[i].k # "messages"}
  OBVIOUS
<1>2. PICK t : t = Others(w)
  OBVIOUS
<1>3. t = Picked(w, P)
  BY <1>1, <1>2 DEF Others
<1>4. t \in Seq(S) /\ \E g : Picks(w, P, t, Len(w), g)
  BY <1>3, PickedIs
<1>5. PICK g : Picks(w, P, t, Len(w), g)
  BY <1>4
<1>6. DOMAIN w = 1..Len(w) /\ DOMAIN t = 1..Len(t) /\ Len(w) \in Nat
  BY <1>4
<1>7. P \cap (1..Len(w)) = P /\ P \subseteq DOMAIN w
  BY <1>1, <1>6
<1>8. /\ g \in [DOMAIN t -> P] /\ \A k \in DOMAIN t : t[k] = w[g[k]]
      /\ \A j, k \in DOMAIN t : j < k => g[j] < g[k]
      /\ \A i \in P : \E k \in DOMAIN t : g[k] = i
  BY <1>5, <1>6, <1>7, Zenon DEF Picks
<1>9. \A k \in DOMAIN t : g[k] \in DOMAIN w
  BY <1>7, <1>8
<1>10. \A i \in DOMAIN w : 0 < i
  BY <1>6
<1>11. g \in [DOMAIN t -> DOMAIN w]
  BY <1>8, <1>9
<1>12. IsKept(w, t, 0, g)
  BY <1>1, <1>8, <1>9, <1>10, <1>11 DEF IsKept
<1>13. QED
  BY <1>2, <1>4, <1>12 DEF Kept

LEMMA KeptTwice ==
  ASSUME NEW S, NEW w \in Seq(S), NEW t \in Seq(S), NEW u \in Seq(S), NEW n \in Nat,
         Kept(w, t, n), Kept(t, u, 0)
  PROVE  Kept(w, u, n)
<1>1. PICK g, h : IsKept(w, t, n, g) /\ IsKept(t, u, 0, h)
  BY DEF Kept
<1>2. PICK f : f = [k \in DOMAIN u |-> g[h[k]]]
  OBVIOUS
<1>3. /\ g \in [DOMAIN t -> DOMAIN w] /\ h \in [DOMAIN u -> DOMAIN t]
      /\ \A k \in DOMAIN u : u[k] = t[h[k]]
      /\ \A k \in DOMAIN t : t[k] = w[g[k]] /\ n < g[k]
  BY <1>1 DEF IsKept
<1>4. f \in [DOMAIN u -> DOMAIN w] /\ \A k \in DOMAIN u : f[k] = g[h[k]] /\ u[k] = w[f[k]] /\ n < f[k]
  BY <1>2, <1>3
<1>5. \A j, k \in DOMAIN u : j < k => f[j] < f[k]
  <2>1. SUFFICES ASSUME NEW j \in DOMAIN u, NEW k \in DOMAIN u, j < k PROVE f[j] < f[k]
    OBVIOUS
  <2>2. h[j] < h[k] /\ h[j] \in DOMAIN t /\ h[k] \in DOMAIN t
    BY <1>1, <1>3, <2>1 DEF IsKept
  <2>3. g[h[j]] < g[h[k]]
    BY <1>1, <2>2 DEF IsKept
  <2>4. QED
    BY <1>4, <2>3
<1>6. ASSUME NEW i \in DOMAIN w, n < i, w[i].k # "messages" PROVE \E k \in DOMAIN u : f[k] = i
  <2>1. PICK m \in DOMAIN t : g[m] = i
    BY <1>1, <1>6 DEF IsKept
  <2>2. t[m].k # "messages" /\ 0 < m
    BY <1>3, <1>6, <2>1
  <2>3. PICK k \in DOMAIN u : h[k] = m
    BY <1>1, <2>2 DEF IsKept
  <2>4. QED
    BY <1>4, <2>1, <2>3
<1>7. IsKept(w, u, n, f)
  BY <1>4, <1>5, <1>6, Zenon DEF IsKept
<1>8. QED
  BY <1>7 DEF Kept

LEMMA KeptAfter ==
  ASSUME NEW S, NEW w \in Seq(S), NEW t \in Seq(S), NEW n, NEW g, IsKept(w, t, n, g),
         NEW k \in DOMAIN t, NEW j \in DOMAIN w, g[k] < j, n \in Nat, w[j].k # "messages"
  PROVE  \E m \in DOMAIN t : k < m /\ t[m] = w[j]
<1>1. /\ g \in [DOMAIN t -> DOMAIN w] /\ n < g[k]
      /\ \A i \in DOMAIN t : t[i] = w[g[i]]
      /\ DOMAIN t = 1..Len(t) /\ DOMAIN w = 1..Len(w) /\ Len(w) \in Nat /\ Len(t) \in Nat
  BY DEF IsKept
<1>2. n < j
  BY <1>1
<1>3. PICK m \in DOMAIN t : g[m] = j
  BY <1>2 DEF IsKept
<1>4. k < m
  <2>1. SUFFICES ASSUME m < k \/ m = k PROVE FALSE
    BY <1>1
  <2>2. m < k => g[m] < g[k]
    BY DEF IsKept
  <2>3. PICK x \in Nat : x = g[k]
    BY <1>1
  <2>4. j \in Nat
    BY <1>1
  <2>5. j < x \/ j = x
    BY <1>3, <2>1, <2>2, <2>3
  <2>6. x < j
    BY <2>3
  <2>7. QED
    BY ONLY <2>4, <2>5, <2>6, x \in Nat
<1>5. QED
  BY <1>1, <1>3, <1>4

LEMMA KeptOrder ==
  ASSUME NEW S, NEW w \in Seq(S), NEW t \in Seq(S), NEW n \in Nat, NEW s, NEW r,
         Kept(w, t, n), Order(w, s, r)
  PROVE  Order(t, s, r)
<1>1. PICK g : IsKept(w, t, n, g)
  BY DEF Kept
<1>2. SUFFICES ASSUME NEW k \in DOMAIN t
               PROVE  /\ t[k].k \in {"delta", "complete", "tool"} /\ t[k].s = s => r # 0 \/ Over(t, s, k)
                      /\ t[k].k = "user" /\ t[k].s = s =>
                           t[k].m.id[2] # 0 /\ (r = t[k].m.id[2] \/ OverRun(t, s, t[k].m.id[2], k))
  BY Zenon DEF Order
<1>3. PICK i \in DOMAIN w : i = g[k] /\ t[k] = w[i]
  BY <1>1 DEF IsKept
<1>4. ASSUME Over(w, s, i) PROVE Over(t, s, k)
  <2>1. PICK j \in DOMAIN w : i < j /\ w[j].k = "status" /\ w[j].s = s
    BY <1>4 DEF Over
  <2>2. w[j].k # "messages" /\ g[k] < j
    BY <1>3, <2>1
  <2>3. PICK m \in DOMAIN t : k < m /\ t[m] = w[j]
    BY <1>1, <2>2, KeptAfter
  <2>4. QED
    BY <2>1, <2>3 DEF Over
<1>5. ASSUME NEW x, OverRun(w, s, x, i) PROVE OverRun(t, s, x, k)
  <2>1. PICK j \in DOMAIN w : i < j /\ w[j].k = "status" /\ w[j].s = s /\ w[j].r = x
    BY <1>5 DEF OverRun
  <2>2. w[j].k # "messages" /\ g[k] < j
    BY <1>3, <2>1
  <2>3. PICK m \in DOMAIN t : k < m /\ t[m] = w[j]
    BY <1>1, <2>2, KeptAfter
  <2>4. QED
    BY <2>1, <2>3 DEF OverRun
<1>6. /\ w[i].k \in {"delta", "complete", "tool"} /\ w[i].s = s => r # 0 \/ Over(w, s, i)
      /\ w[i].k = "user" /\ w[i].s = s =>
           w[i].m.id[2] # 0 /\ (r = w[i].m.id[2] \/ OverRun(w, s, w[i].m.id[2], i))
  BY Zenon DEF Order
<1>7. QED
  BY <1>3, <1>4, <1>5, <1>6

LEMMA FixKind ==
  ASSUME NEW m, NEW s, Fixes(m, s)
  PROVE  m.k # "messages"
BY DEF Fixes

LEMMA KeptEnds ==
  ASSUME NEW S, NEW w \in Seq(S), NEW t \in Seq(S), NEW n \in {0, 1}, NEW s, NEW r, NEW b, NEW c,
         Kept(w, t, n), Ends(w, s, b, r),
         n = 0 => b = c,
         n = 1 => w # <<>> /\ (s \in c <=> IF Fixes(w[1], s) THEN Tells(w[1], s) ELSE s \in b)
  PROVE  Ends(t, s, c, r)
<1>1. PICK g : IsKept(w, t, n, g) /\ n \in Nat
  BY DEF Kept
<1>2. DOMAIN w = 1..Len(w) /\ Len(w) \in Nat /\ DOMAIN t = 1..Len(t) /\ Len(t) \in Nat
  OBVIOUS
<1>3. ASSUME NEW k \in DOMAIN t, Fixes(t[k], s), \A m \in DOMAIN t : k < m => ~Fixes(t[m], s)
      PROVE  Tells(t[k], s) <=> r # 0
  <2>1. PICK i \in DOMAIN w : i = g[k] /\ t[k] = w[i]
    BY <1>1 DEF IsKept
  <2>2. ASSUME NEW j \in DOMAIN w, i < j, Fixes(w[j], s) PROVE FALSE
    <3>1. w[j].k # "messages" /\ g[k] < j
      BY <2>1, <2>2, FixKind
    <3>2. PICK m \in DOMAIN t : k < m /\ t[m] = w[j]
      BY <1>1, <3>1, KeptAfter
    <3>3. QED
      BY <1>3, <2>2, <3>2
  <2>3. QED
    BY <1>3, <2>1, <2>2, Zenon DEF Ends
<1>4. ASSUME \A k \in DOMAIN t : ~Fixes(t[k], s) PROVE s \in c <=> r # 0
  <2>1. ASSUME NEW j \in DOMAIN w, n < j PROVE ~Fixes(w[j], s)
    <3>1. SUFFICES ASSUME Fixes(w[j], s) PROVE FALSE
      OBVIOUS
    <3>2. w[j].k # "messages"
      BY <3>1, FixKind
    <3>3. PICK k \in DOMAIN t : g[k] = j
      BY <1>1, <2>1, <3>2 DEF IsKept
    <3>4. t[k] = w[j]
      BY <1>1, <3>3 DEF IsKept
    <3>5. QED
      BY <1>4, <3>1, <3>4
  <2>2. CASE n = 0
    <3>1. \A j \in DOMAIN w : ~Fixes(w[j], s)
      BY <1>2, <2>1, <2>2
    <3>2. QED
      BY <2>2, <3>1, Zenon DEF Ends
  <2>3. CASE n = 1
    <3>1. 1 \in DOMAIN w /\ \A j \in DOMAIN w : 1 < j => ~Fixes(w[j], s)
      BY <1>2, <2>1, <2>3
    <3>2. CASE Fixes(w[1], s)
      <4>1. Tells(w[1], s) <=> r # 0
        BY <3>1, <3>2, Zenon DEF Ends
      <4>2. s \in c <=> Tells(w[1], s)
        BY <2>3, <3>2, Zenon
      <4>3. QED
        BY <4>1, <4>2, Zenon
    <3>3. CASE ~Fixes(w[1], s)
      <4>1. \A j \in DOMAIN w : ~Fixes(w[j], s)
        <5>1. \A j \in DOMAIN w : j = 1 \/ 1 < j
          BY <1>2
        <5>2. QED
          BY <3>1, <3>3, <5>1
      <4>2. s \in b <=> r # 0
        BY <4>1, Zenon DEF Ends
      <4>3. s \in c <=> s \in b
        BY <2>3, <3>3, Zenon
      <4>4. QED
        BY <4>2, <4>3, Zenon
    <3>4. QED
      BY <3>2, <3>3
  <2>4. QED
    BY <2>2, <2>3
<1>5. QED
  BY <1>3, <1>4, Zenon DEF Ends

\* One more packet.
LEMMA MoreIs ==
  ASSUME NEW S, NEW w \in Seq(S), NEW m \in S
  PROVE  /\ Append(w, m) \in Seq(S) /\ Len(w) \in Nat
         /\ DOMAIN w = 1..Len(w) /\ DOMAIN Append(w, m) = 1..(Len(w) + 1)
         /\ \A k \in 1..Len(w) : Append(w, m)[k] = w[k]
         /\ Append(w, m)[Len(w) + 1] = m
OBVIOUS

LEMMA MoreEnds ==
  ASSUME NEW S, NEW w \in Seq(S), NEW m \in S, NEW s, NEW r, NEW b,
         IF Fixes(m, s) THEN Tells(m, s) <=> r # 0 ELSE Ends(w, s, b, r)
  PROVE  Ends(Append(w, m), s, b, r)
<1>1. PICK t, l : t = Append(w, m) /\ l = Len(w)
  OBVIOUS
<1>2. /\ l \in Nat /\ DOMAIN w = 1..l /\ DOMAIN t = 1..(l + 1) /\ t[l + 1] = m
      /\ \A k \in 1..l : t[k] = w[k]
  BY <1>1, MoreIs
<1>3. \A i \in DOMAIN t : i = l + 1 \/ (i \in DOMAIN w /\ i < l + 1 /\ t[i] = w[i])
  BY <1>2
<1>4. l + 1 \in DOMAIN t /\ \A i \in DOMAIN w : i \in DOMAIN t /\ t[i] = w[i]
  BY <1>2
<1>5. CASE Fixes(m, s)
  <2>1. Tells(m, s) <=> r # 0
    BY <1>5
  <2>2. ASSUME NEW i \in DOMAIN t, \A j \in DOMAIN t : i < j => ~Fixes(t[j], s) PROVE i = l + 1
    BY <1>2, <1>3, <1>4, <1>5, <2>2
  <2>3. Ends(t, s, b, r)
    BY <1>2, <1>4, <1>5, <2>1, <2>2, Zenon DEF Ends
  <2>4. QED
    BY <1>1, <2>3
<1>6. CASE ~Fixes(m, s)
  <2>1. Ends(w, s, b, r)
    BY <1>6
  <2>2. ASSUME NEW i \in DOMAIN t, Fixes(t[i], s), \A j \in DOMAIN t : i < j => ~Fixes(t[j], s)
        PROVE  Tells(t[i], s) <=> r # 0
    <3>1. i \in DOMAIN w /\ t[i] = w[i]
      BY <1>2, <1>3, <1>6, <2>2
    <3>2. \A j \in DOMAIN w : i < j => ~Fixes(w[j], s)
      BY <1>4, <2>2
    <3>3. QED
      BY <2>1, <2>2, <3>1, <3>2, Zenon DEF Ends
  <2>3. ASSUME \A i \in DOMAIN t : ~Fixes(t[i], s) PROVE s \in b <=> r # 0
    <3>1. \A i \in DOMAIN w : ~Fixes(w[i], s)
      BY <1>4, <2>3
    <3>2. QED
      BY <2>1, <3>1, Zenon DEF Ends
  <2>4. Ends(t, s, b, r)
    BY <2>2, <2>3, Zenon DEF Ends
  <2>5. QED
    BY <1>1, <2>4
<1>7. QED
  BY <1>5, <1>6

LEMMA ElementsMore ==
  ASSUME NEW S, NEW q \in Seq(S), NEW m \in S
  PROVE  \A x : x \in Elements(Append(q, m)) <=> x \in Elements(q) \/ x = m
<1>1. PICK t, l : t = Append(q, m) /\ l = Len(q)
  OBVIOUS
<1>2. /\ l \in Nat /\ DOMAIN q = 1..l /\ DOMAIN t = 1..(l + 1) /\ t[l + 1] = m
      /\ \A k \in 1..l : t[k] = q[k]
  BY <1>1, MoreIs
<1>3. \A i \in DOMAIN t : i = l + 1 \/ (i \in DOMAIN q /\ t[i] = q[i])
  BY <1>2
<1>4. l + 1 \in DOMAIN t /\ \A i \in DOMAIN q : i \in DOMAIN t /\ t[i] = q[i]
  BY <1>2
<1>5. \A x : x \in Elements(t) => x \in Elements(q) \/ x = m
  BY <1>2, <1>3 DEF Elements
<1>6. \A x : x \in Elements(q) => x \in Elements(t)
  BY <1>4 DEF Elements
<1>7. m \in Elements(t)
  BY <1>2, <1>4, ElementsIs, Zenon
<1>8. QED
  BY <1>1, <1>5, <1>6, <1>7, Zenon

LEMMA ElementsTail ==
  ASSUME NEW S, NEW q \in Seq(S), q # <<>>
  PROVE  /\ \A x : x \in Elements(q) <=> x \in Elements(Tail(q)) \/ x = Head(q)
         /\ 1 \in DOMAIN q /\ q[1] = Head(q) /\ Head(q) \in S /\ Tail(q) \in Seq(S)
<1>1. PICK t, h, l : t = Tail(q) /\ h = Head(q) /\ l = Len(q)
  OBVIOUS
<1>2. /\ l \in Nat /\ l # 0 /\ DOMAIN q = 1..l /\ DOMAIN t = 1..(l - 1) /\ q[1] = h /\ h \in S /\ t \in Seq(S)
      /\ \A k \in 1..(l - 1) : t[k] = q[k + 1]
  BY <1>1
<1>3. 1 \in DOMAIN q /\ \A i \in DOMAIN q : i = 1 \/ (i - 1 \in DOMAIN t /\ t[i - 1] = q[i])
  BY <1>2
<1>4. \A i \in DOMAIN t : i + 1 \in DOMAIN q /\ t[i] = q[i + 1]
  BY <1>2
<1>5. \A x : x \in Elements(q) => x \in Elements(t) \/ x = h
  BY <1>2, <1>3 DEF Elements
<1>6. \A x : x \in Elements(t) => x \in Elements(q)
  BY <1>4 DEF Elements
<1>7. h \in Elements(q)
  BY <1>2, <1>3, ElementsIs, Zenon
<1>8. QED
  BY <1>1, <1>2, <1>3, <1>5, <1>6, <1>7, Zenon

LEMMA KeptElements ==
  ASSUME NEW S, NEW w \in Seq(S), NEW t \in Seq(S), NEW n \in Nat, Kept(w, t, n)
  PROVE  /\ \A x : x \in Elements(t) => x \in Elements(w)
         /\ \A j \in DOMAIN w : n < j /\ w[j].k # "messages" => w[j] \in Elements(t)
         /\ n = 0 => \A x : x \in Elements(w) /\ x.k # "messages" => x \in Elements(t)
<1>1. PICK g : IsKept(w, t, n, g)
  BY DEF Kept
<1>2. /\ \A k \in DOMAIN t : g[k] \in DOMAIN w /\ t[k] = w[g[k]]
      /\ \A i \in DOMAIN w : n < i /\ w[i].k # "messages" => \E k \in DOMAIN t : g[k] = i
  BY <1>1 DEF IsKept
<1>3. \A x : x \in Elements(t) => x \in Elements(w)
  BY <1>2 DEF Elements
<1>4. \A j \in DOMAIN w : n < j /\ w[j].k # "messages" => w[j] \in Elements(t)
  BY <1>2 DEF Elements
<1>5. \A j \in DOMAIN w : 0 < j
  OBVIOUS
<1>6. n = 0 => \A x : x \in Elements(w) /\ x.k # "messages" => x \in Elements(t)
  BY <1>4, <1>5, ElementsIs, Zenon
<1>7. QED
  BY <1>3, <1>4, <1>6

LEMMA NoLoads ==
  ASSUME NEW S, NEW w \in Seq(S)
  PROVE  \A x : x \in Elements(Others(w)) => x.k # "messages"
<1>1. PICK P : P = {i \in DOMAIN w : w[i].k # "messages"}
  OBVIOUS
<1>2. PICK p : p = Picked(w, P)
  OBVIOUS
<1>3. \A k \in DOMAIN p : \E n \in DOMAIN w : n \in P /\ p[k] = w[n]
  BY <1>2, PickedElements
<1>4. \A k \in DOMAIN p : p[k].k # "messages"
  BY <1>1, <1>3
<1>5. \A x : x \in Elements(p) => x.k # "messages"
  BY <1>4 DEF Elements
<1>6. Others(w) = p
  BY <1>1, <1>2 DEF Others
<1>7. QED
  BY <1>5, <1>6

LEMMA MoreOrder ==
  ASSUME NEW S, NEW w \in Seq(S), NEW m \in S, NEW s, NEW r, Order(w, s, r),
         m.k \in {"delta", "complete", "tool"} /\ m.s = s => r # 0,
         m.k = "user" /\ m.s = s => m.m.id[2] # 0 /\ r = m.m.id[2]
  PROVE  Order(Append(w, m), s, r)
<1>1. PICK t, l : t = Append(w, m) /\ l = Len(w)
  OBVIOUS
<1>2. /\ l \in Nat /\ DOMAIN w = 1..l /\ DOMAIN t = 1..(l + 1) /\ t[l + 1] = m
      /\ \A k \in 1..l : t[k] = w[k]
  BY <1>1, MoreIs
<1>3. \A i \in DOMAIN t : i = l + 1 \/ (i \in DOMAIN w /\ t[i] = w[i])
  BY <1>2
<1>4. \A i \in DOMAIN w : i \in DOMAIN t /\ t[i] = w[i]
  BY <1>2
<1>5. \A i : Over(w, s, i) => Over(t, s, i)
  BY <1>4 DEF Over
<1>6. \A i, x : OverRun(w, s, x, i) => OverRun(t, s, x, i)
  BY <1>4 DEF OverRun
<1>7. Order(t, s, r)
  BY <1>2, <1>3, <1>5, <1>6, Zenon DEF Order
<1>8. QED
  BY <1>1, <1>7

\* With the status event the run is over, and what was sent of it is behind.
LEMMA OrderEnds ==
  ASSUME NEW S, NEW w \in Seq(S), NEW m \in S, NEW s, NEW r, Order(w, s, r),
         m.k = "status" /\ m.s = s /\ m.r = r
  PROVE  Order(Append(w, m), s, 0)
<1>1. PICK t, l : t = Append(w, m) /\ l = Len(w)
  OBVIOUS
<1>2. /\ l \in Nat /\ DOMAIN w = 1..l /\ DOMAIN t = 1..(l + 1) /\ t[l + 1] = m
      /\ \A k \in 1..l : t[k] = w[k]
  BY <1>1, MoreIs
<1>3. \A i \in DOMAIN t : i = l + 1 \/ (i \in DOMAIN w /\ i < l + 1 /\ t[i] = w[i])
  BY <1>2
<1>4. l + 1 \in DOMAIN t /\ \A i \in DOMAIN w : i \in DOMAIN t /\ t[i] = w[i]
  BY <1>2
<1>5. \A i, x : OverRun(w, s, x, i) => OverRun(t, s, x, i)
  BY <1>4 DEF OverRun
<1>6. \A i : i < l + 1 => Over(t, s, i) /\ OverRun(t, s, r, i)
  BY <1>2, <1>4 DEF Over, OverRun
<1>7. Order(t, s, 0)
  BY <1>2, <1>3, <1>5, <1>6, Zenon DEF Order
<1>8. QED
  BY <1>1, <1>7

LEMMA OrderStarts ==
  ASSUME NEW w, NEW s, NEW r, Order(w, s, 0)
  PROVE  Order(w, s, r)
BY Zenon DEF Order

LEMMA NothingThere ==
  /\ \A s, r : Order(<<>>, s, r)
  /\ \A x : x \notin Elements(<<>>)
  /\ \A s, b, r : (s \in b <=> r # 0) <=> Ends(<<>>, s, b, r)
<1>1. \A i \in DOMAIN <<>> : FALSE
  OBVIOUS
<1>2. \A x : x \notin Elements(<<>>)
  BY <1>1, ElementsIs, Zenon
<1>3. QED
  BY <1>1, <1>2, Zenon DEF Order, Ends

-----------------------------------------------------------------------------
(* What holds between the server, what is under way and the window         *)

\* The end of a run of s, or of run r of it, is on its way to the window.
Ended(w, s) == \E m \in Elements(w) : m.k = "status" /\ m.s = s
EndedRun(w, s, r) == \E m \in Elements(w) : m.k = "status" /\ m.s = s /\ m.r = r
Asked(q) == \E m \in Elements(q) : m.k = "list"
Greets(q) == \E m \in Elements(q) : m.k = "list" /\ m.why = "connected"

\* An event that is not broadcast yet is of the run in progress.
RunOf(e, r) ==
  e # NoEvent => r # 0 /\ (e.k = "user" => e.m.id[2] = r) /\ (e.k = "status" => e.r = r)
RunsUnsent == \A s \in Sessions : RunOf(unsent[s], process[s])

\* What was sent of a run is of the one in progress, or its end is behind.
EndsFollow == \A s \in Sessions : Order(wire, s, process[s])

\* A list was asked for, or what is under way says what is true in the end.
BusyFollows ==
  online => Asked(asks) \/ \A s \in Sessions : unsent[s].k # "user" => Ends(wire, s, busy, process[s])

BatchEnds ==
  /\ ~online => batch = <<>>
  /\ batch # <<>> => process[sel] # 0 \/ Ended(wire, sel)
FeedbackEnds ==
  online /\ feedback # 0 =>
    /\ observed = feedback /\ sel \in Sessions
    /\ process[sel] = feedback \/ EndedRun(wire, sel, feedback)

\* Where no run is in progress, no end of one and no answer to a new
\* connection is under way, what was loaded is what the file holds.
Calm ==
  online /\ sel \in Sessions /\ process[sel] = 0 /\ ~Ended(wire, sel) /\ ~Greets(asks) /\ ~Greets(wire)
ShownFollows ==
  Calm => /\ load = "none" => shown = stored[sel]
          /\ \A m \in Elements(wire) : m.k = "messages" => m.data = stored[sel]

Follows == RunsUnsent /\ EndsFollow /\ BusyFollows /\ BatchEnds /\ FeedbackEnds /\ ShownFollows

LEMMA RunsAre ==
  ASSUME Inv, NEW s \in Sessions
  PROVE  process[s] \in Nat /\ (unsent[s] # NoEvent => unsent[s] \in Events /\ unsent[s].s = s)
<1>1. process[s] \in Nat
  BY WorkbenchAssumption DEF Inv, ServerTypes, Numbers
<1>2. QED
  BY <1>1 DEF Inv, UnsentOK

LEMMA NoEventIs == NoEvent.k = "none"
BY DEF NoEvent

\* A step of the run of s, or its start, of which nothing is sent yet.
LEMMA RunGoesOn ==
  ASSUME Inv, Follows, NEW s \in Sessions, UNCHANGED windowVars, UNCHANGED <<online, wire>>,
         \A t \in Sessions \ {s} :
           stored'[t] = stored[t] /\ process'[t] = process[t] /\ unsent'[t] = unsent[t],
         process'[s] # 0, process[s] # 0 => process'[s] = process[s],
         RunOf(unsent'[s], process'[s]),
         unsent'[s].k # "user" => process[s] # 0 /\ unsent[s].k # "user",
         Asked(asks) => Asked(asks'), Greets(asks) => Greets(asks')
  PROVE  Follows'
<1>1. \A t \in Sessions : process'[t] = process[t] \/ (t = s /\ process[s] = 0)
  OBVIOUS
<1>2. RunsUnsent'
  <2>1. SUFFICES ASSUME NEW t \in Sessions PROVE RunOf(unsent'[t], process'[t])
    BY DEF RunsUnsent
  <2>2. CASE t = s
    BY <2>2
  <2>3. CASE t # s
    <3>1. RunOf(unsent[t], process[t])
      BY DEF Follows, RunsUnsent
    <3>2. unsent'[t] = unsent[t] /\ process'[t] = process[t]
      BY <2>3
    <3>3. QED
      BY <3>1, <3>2
  <2>4. QED
    BY <2>2, <2>3
<1>3. EndsFollow'
  <2>1. SUFFICES ASSUME NEW t \in Sessions PROVE Order(wire, t, process'[t])
    BY DEF EndsFollow
  <2>2. Order(wire, t, process[t])
    BY DEF Follows, EndsFollow
  <2>3. CASE process'[t] = process[t]
    BY <2>2, <2>3
  <2>4. CASE process[t] = 0
    BY <2>2, <2>4, OrderStarts
  <2>5. QED
    BY <1>1, <2>3, <2>4
<1>4. BusyFollows'
  <2>1. SUFFICES ASSUME online, ~Asked(asks'), NEW t \in Sessions, unsent'[t].k # "user"
                 PROVE  Ends(wire, t, busy, process'[t])
    BY DEF BusyFollows, windowVars, viewVars
  <2>2. unsent[t].k # "user" /\ process'[t] = process[t]
    BY <2>1
  <2>3. Ends(wire, t, busy, process[t])
    BY <2>1, <2>2 DEF Follows, BusyFollows
  <2>4. QED
    BY <2>2, <2>3
<1>5. UNCHANGED <<batch, observed, feedback, sel, load, shown>>
  BY DEF windowVars, viewVars, batchVars, loadVars, runVars
<1>6. BatchEnds'
  <2>1. (~online => batch = <<>>) /\ (batch # <<>> => process[sel] # 0 \/ Ended(wire, sel))
    BY DEF Follows, BatchEnds
  <2>2. batch # <<>> => sel \in Sessions
    BY DEF Inv, SelectionOK
  <2>3. batch # <<>> => process'[sel] # 0 \/ Ended(wire, sel)
    BY <1>1, <2>1, <2>2
  <2>4. QED
    BY <1>5, <2>1, <2>3 DEF BatchEnds
<1>7. FeedbackEnds'
  <2>1. online /\ feedback # 0 => /\ observed = feedback /\ sel \in Sessions
                                  /\ process[sel] = feedback \/ EndedRun(wire, sel, feedback)
    BY DEF Follows, FeedbackEnds
  <2>2. online /\ feedback # 0 => process'[sel] = feedback \/ EndedRun(wire, sel, feedback)
    BY <1>1, <2>1
  <2>3. QED
    BY <1>5, <2>1, <2>2 DEF FeedbackEnds
<1>8. ShownFollows'
  <2>1. SUFFICES ASSUME Calm'
                 PROVE  /\ load = "none" => shown = stored'[sel]
                        /\ \A m \in Elements(wire) : m.k = "messages" => m.data = stored'[sel]
    BY <1>5 DEF ShownFollows
  <2>2. /\ online /\ sel \in Sessions /\ process'[sel] = 0 /\ ~Ended(wire, sel)
        /\ ~Greets(asks') /\ ~Greets(wire)
    BY <1>5, <2>1 DEF Calm
  <2>3. sel # s /\ process[sel] = 0 /\ stored'[sel] = stored[sel]
    BY <2>2
  <2>4. Calm
    BY <2>2, <2>3 DEF Calm
  <2>5. QED
    BY <2>3, <2>4 DEF Follows, ShownFollows
<1>9. QED
  BY <1>2, <1>3, <1>4, <1>6, <1>7, <1>8 DEF Follows

LEMMA AcceptFollows ==
  ASSUME Inv, Follows, NEW s \in Sessions, process[s] = 0, NEW request, NEW reply,
         Accept(s, request, reply), UNCHANGED windowVars, UNCHANGED <<online, wire>>,
         Asked(asks) => Asked(asks'), Greets(asks) => Greets(asks')
  PROVE  Follows'
<1>1. PICK e : e = [k |-> "user", s |-> s, m |-> UserMessage(request), reply |-> reply]
  OBVIOUS
<1>2. /\ stored' = [stored EXCEPT ![s] = Append(@, UserMessage(request))]
      /\ process' = [process EXCEPT ![s] = runs + 1]
      /\ unsent' = [unsent EXCEPT ![s] = e]
  BY <1>1 DEF Accept
<1>3. /\ DOMAIN stored = Sessions /\ DOMAIN process = Sessions /\ DOMAIN unsent = Sessions
      /\ runs \in Nat
  BY WorkbenchAssumption DEF Inv, ServerTypes, UnsentOK, Numbers
<1>4. \A t \in Sessions \ {s} :
        stored'[t] = stored[t] /\ process'[t] = process[t] /\ unsent'[t] = unsent[t]
  BY <1>2, <1>3
<1>5. process'[s] = runs + 1 /\ unsent'[s] = e /\ runs + 1 # 0
  BY <1>2, <1>3
<1>6. e.k = "user" /\ e.m.id[2] = runs + 1
  BY <1>1 DEF UserMessage
<1>7. RunOf(unsent'[s], process'[s])
  BY <1>5, <1>6 DEF RunOf
<1>8. QED
  BY <1>4, <1>5, <1>6, <1>7, RunGoesOn

LEMMA OtherSendsFollows ==
  ASSUME Inv, Follows, NEW s \in Sessions, OtherSends(s)
  PROVE  Follows'
<1>1. process[s] = 0 /\ Accept(s, NoRequest, FALSE) /\ UNCHANGED windowVars /\ UNCHANGED <<online, asks, wire>>
  BY DEF OtherSends, windowVars, linkVars
<1>2. QED
  BY <1>1, AcceptFollows

LEMMA ConsumeFollows ==
  ASSUME Inv, Follows, NEW s \in Sessions,
         ConsumeDelta(s) \/ ConsumeComplete(s) \/ ConsumeTool(s) \/ FlushLast(s)
  PROVE  Follows'
<1>1. /\ process[s] # 0 /\ unsent[s] = NoEvent /\ UNCHANGED process
      /\ UNCHANGED windowVars /\ UNCHANGED <<online, asks, wire>>
  BY DEF ConsumeDelta, ConsumeComplete, ConsumeTool, FlushLast, Consuming, windowVars, linkVars
<1>2. DOMAIN stored = Sessions /\ DOMAIN unsent = Sessions
  BY DEF Inv, ServerTypes, UnsentOK
<1>3. PICK e : /\ unsent' = [unsent EXCEPT ![s] = e]
               /\ e.k \in {"delta", "complete", "tool", "status"}
               /\ e.k = "status" => e.r = process[s]
  <2>1. CASE ConsumeDelta(s)
    <3>1. PICK e : e = DeltaEvent(s, <<"text", process[s]>>)
      OBVIOUS
    <3>2. unsent' = [unsent EXCEPT ![s] = e]
      BY <2>1, <3>1, Zenon DEF ConsumeDelta
    <3>3. e.k \in {"delta", "complete", "tool", "status"} /\ (e.k = "status" => e.r = process[s])
      BY <3>1 DEF DeltaEvent
    <3>4. QED
      BY <3>2, <3>3
  <2>2. CASE ConsumeComplete(s)
    <3>1. PICK e : e = [k |-> "complete", s |-> s, id |-> <<"text", process[s]>>, text |-> More(s)]
      OBVIOUS
    <3>2. unsent' = [unsent EXCEPT ![s] = e]
      BY <2>2, <3>1, Zenon DEF ConsumeComplete
    <3>3. e.k \in {"delta", "complete", "tool", "status"} /\ (e.k = "status" => e.r = process[s])
      BY <3>1
    <3>4. QED
      BY <3>2, <3>3
  <2>3. CASE ConsumeTool(s)
    <3>1. PICK e : e = [k |-> "tool", s |-> s]
      OBVIOUS
    <3>2. unsent' = [unsent EXCEPT ![s] = e]
      BY <2>3, <3>1, Zenon DEF ConsumeTool
    <3>3. e.k \in {"delta", "complete", "tool", "status"} /\ (e.k = "status" => e.r = process[s])
      BY <3>1
    <3>4. QED
      BY <3>2, <3>3
  <2>4. CASE FlushLast(s)
    <3>1. PICK e : e = [k |-> "status", s |-> s, r |-> process[s]]
      OBVIOUS
    <3>2. unsent' = [unsent EXCEPT ![s] = e]
      BY <2>4, <3>1, Zenon DEF FlushLast
    <3>3. e.k \in {"delta", "complete", "tool", "status"} /\ (e.k = "status" => e.r = process[s])
      BY <3>1
    <3>4. QED
      BY <3>2, <3>3
  <2>5. QED
    BY <2>1, <2>2, <2>3, <2>4
<1>4. \A t \in Sessions \ {s} : stored'[t] = stored[t]
  <2>1. (\E f : stored' = [stored EXCEPT ![s] = f]) \/ stored' = stored
    BY DEF ConsumeDelta, ConsumeComplete, ConsumeTool, FlushLast
  <2>2. QED
    BY <1>2, <2>1
<1>5. \A t \in Sessions \ {s} : process'[t] = process[t] /\ unsent'[t] = unsent[t]
  BY <1>1, <1>2, <1>3
<1>6. unsent'[s] = e /\ process'[s] = process[s]
  BY <1>1, <1>2, <1>3
<1>7. RunOf(unsent'[s], process'[s])
  BY <1>1, <1>3, <1>6 DEF RunOf
<1>8. unsent'[s].k # "user" => process[s] # 0 /\ unsent[s].k # "user"
  BY <1>1, NoEventIs
<1>9. QED
  BY <1>1, <1>4, <1>5, <1>6, <1>7, <1>8, RunGoesOn

\* What is added to the wire takes nothing away.
LEMMA WireMore ==
  ASSUME NEW S, NEW w \in Seq(S), NEW m \in S, NEW t, t = Append(w, m)
  PROVE  /\ \A s : Ended(w, s) => Ended(t, s)
         /\ \A s, r : EndedRun(w, s, r) => EndedRun(t, s, r)
         /\ Greets(w) => Greets(t)
         /\ m \in Elements(t)
         /\ \A x \in Elements(t) : x \in Elements(w) \/ x = m
<1>1. \A x : x \in Elements(t) <=> x \in Elements(w) \/ x = m
  BY ElementsMore
<1>2. QED
  BY <1>1 DEF Ended, EndedRun, Greets

LEMMA AsksAfter ==
  ASSUME LinkOK, asks # <<>>
  PROVE  /\ Head(asks).k # "list" => (Asked(asks) => Asked(Tail(asks)))
         /\ Greets(asks) => Greets(Tail(asks)) \/ (Head(asks).k = "list" /\ Head(asks).why = "connected")
<1>1. PICK B : B = Wanted
  OBVIOUS
<1>2. asks \in Seq(B)
  BY <1>1 DEF LinkOK
<1>3. \A x : x \in Elements(asks) <=> x \in Elements(Tail(asks)) \/ x = Head(asks)
  BY <1>2, ElementsTail
<1>4. QED
  BY <1>3 DEF Asked, Greets

\* A packet that says nothing of a run: of the answers, all but lists.
LEMMA AsideMore ==
  ASSUME NEW S, NEW w \in Seq(S), NEW m \in S, m.k \in {"sent", "messages"}, NEW t, t = Append(w, m)
  PROVE  /\ \A s, r : Order(w, s, r) => Order(t, s, r)
         /\ \A s, b, r : Ends(w, s, b, r) => Ends(t, s, b, r)
<1>1. ASSUME NEW s, NEW r, Order(w, s, r) PROVE Order(t, s, r)
  BY <1>1, MoreOrder
<1>2. ASSUME NEW s, NEW b, NEW r, Ends(w, s, b, r) PROVE Ends(t, s, b, r)
  <2>1. ~Fixes(m, s)
    BY DEF Fixes
  <2>2. IF Fixes(m, s) THEN Tells(m, s) <=> r # 0 ELSE Ends(w, s, b, r)
    BY <1>2, <2>1, Zenon
  <2>3. QED
    BY <2>2, MoreEnds
<1>3. QED
  BY <1>1, <1>2

\* An event of s is broadcast; u is what is under way with it.
LEMMA SentOn ==
  ASSUME Inv, Follows, online, NEW s \in Sessions, unsent[s] # NoEvent,
         NEW p, p = IF unsent[s].k = "status" THEN [process EXCEPT ![s] = 0] ELSE process,
         NEW u, u = Append(wire, unsent[s])
  PROVE  /\ u \in Seq(Packets)
         /\ \A t \in Sessions : Order(u, t, p[t])
         /\ Asked(asks) \/ \A t \in Sessions : t = s \/ unsent[t].k # "user" => Ends(u, t, busy, p[t])
         /\ \A t \in Sessions : p[t] = process[t] \/ (t = s /\ p[t] = 0 /\ Ended(u, t) /\ EndedRun(u, t, process[t]))
         /\ p[s] = 0 => Ended(u, s)
<1>1. PICK e : e = unsent[s]
  OBVIOUS
<1>2. e \in Events /\ e.s = s /\ e \in Packets /\ wire \in Seq(Packets)
  <2>1. True \subseteq Packets
    BY DEF True
  <2>2. PICK B : B = True
    OBVIOUS
  <2>3. wire \in Seq(B) /\ B \subseteq Packets
    BY <2>1, <2>2 DEF Inv, LinkOK
  <2>4. wire \in Seq(Packets)
    BY <2>3, SeqMono
  <2>5. QED
    BY <1>1, <2>4, RunsAre DEF Packets
<1>3. e.k \in {"user", "delta", "complete", "tool", "status"}
  BY <1>2 DEF Events, Users, Deltas, Completes, Tools, Statuses
<1>4. /\ process[s] # 0 /\ (e.k = "user" => e.m.id[2] = process[s])
      /\ e.k = "status" => e.r = process[s]
  BY <1>1 DEF Follows, RunsUnsent, RunOf
<1>5. /\ DOMAIN process = Sessions
      /\ \A t \in Sessions : t # s => p[t] = process[t]
      /\ p[s] = IF e.k = "status" THEN 0 ELSE process[s]
  BY <1>1 DEF Inv, ServerTypes
<1>6. \A t \in Sessions : Order(wire, t, process[t])
  BY DEF Follows, EndsFollow
<1>7. ASSUME NEW t \in Sessions PROVE Order(u, t, p[t])
  <2>1. CASE t # s
    BY <1>1, <1>2, <1>5, <1>6, <2>1, MoreOrder
  <2>2. CASE t = s /\ e.k = "status"
    <3>1. p[t] = 0 /\ Order(wire, t, process[t]) /\ e.r = process[t] /\ e.s = t
      BY <1>2, <1>4, <1>5, <1>6, <2>2
    <3>2. QED
      BY <1>1, <1>2, <2>2, <3>1, OrderEnds
  <2>3. CASE t = s /\ e.k # "status"
    <3>1. p[t] = process[t] /\ Order(wire, t, process[t]) /\ process[t] # 0
      BY <1>4, <1>5, <1>6, <2>3
    <3>2. e.k = "user" => e.m.id[2] # 0 /\ process[t] = e.m.id[2]
      BY <1>4, <2>3
    <3>3. QED
      BY <1>1, <1>2, <3>1, <3>2, MoreOrder
  <2>4. QED
    BY <2>1, <2>2, <2>3
<1>8. ASSUME ~Asked(asks), NEW t \in Sessions, t = s \/ unsent[t].k # "user"
      PROVE  Ends(u, t, busy, p[t])
  <2>1. unsent[t].k # "user" => Ends(wire, t, busy, process[t])
    BY <1>8 DEF Follows, BusyFollows
  <2>2. CASE t # s
    <3>1. ~Fixes(e, t) /\ Ends(wire, t, busy, p[t])
      BY <1>2, <1>3, <1>5, <1>8, <2>1, <2>2 DEF Fixes
    <3>2. IF Fixes(e, t) THEN Tells(e, t) <=> p[t] # 0 ELSE Ends(wire, t, busy, p[t])
      BY <3>1, Zenon
    <3>3. QED
      BY <1>1, <1>2, <3>2, MoreEnds
  <2>3. CASE t = s /\ e.k \in {"user", "status"}
    <3>1. Fixes(e, t) /\ (Tells(e, t) <=> p[t] # 0)
      BY <1>2, <1>4, <1>5, <2>3 DEF Fixes, Tells
    <3>2. IF Fixes(e, t) THEN Tells(e, t) <=> p[t] # 0 ELSE Ends(wire, t, busy, p[t])
      BY <3>1, Zenon
    <3>3. QED
      BY <1>1, <1>2, <3>2, MoreEnds
  <2>4. CASE t = s /\ e.k \notin {"user", "status"}
    <3>1. ~Fixes(e, t) /\ Ends(wire, t, busy, p[t])
      BY <1>1, <1>3, <1>5, <2>1, <2>4 DEF Fixes
    <3>2. IF Fixes(e, t) THEN Tells(e, t) <=> p[t] # 0 ELSE Ends(wire, t, busy, p[t])
      BY <3>1, Zenon
    <3>3. QED
      BY <1>1, <1>2, <3>2, MoreEnds
  <2>5. QED
    BY <2>2, <2>3, <2>4
<1>9. e \in Elements(u)
  BY <1>1, <1>2, WireMore
<1>10. e.k = "status" => Ended(u, s) /\ EndedRun(u, s, process[s])
  BY <1>2, <1>4, <1>9 DEF Ended, EndedRun
<1>11. \A t \in Sessions : p[t] = process[t] \/ (t = s /\ p[t] = 0 /\ Ended(u, t) /\ EndedRun(u, t, process[t]))
  BY <1>5, <1>10
<1>12. p[s] = 0 => Ended(u, s)
  BY <1>4, <1>5, <1>10
<1>13. u \in Seq(Packets)
  BY <1>1, <1>2, MoreIs
<1>14. QED
  BY <1>7, <1>8, <1>11, <1>12, <1>13

\* More is under way, and the window has read nothing of it.
LEMMA Delivered ==
  ASSUME Inv, Follows, online, UNCHANGED windowVars, UNCHANGED <<online, stored>>,
         \A s \in Sessions : \/ process'[s] = process[s]
                             \/ process'[s] = 0 /\ Ended(wire', s) /\ EndedRun(wire', s, process[s]),
         \A s : Ended(wire, s) => Ended(wire', s),
         \A s, r : EndedRun(wire, s, r) => EndedRun(wire', s, r),
         Greets(wire) => Greets(wire'),
         \A x \in Elements(wire') : x.k = "messages" => x \in Elements(wire) \/ x.data = stored[sel],
         Greets(asks) => Greets(asks') \/ Greets(wire')
  PROVE  BatchEnds' /\ FeedbackEnds' /\ ShownFollows'
<1>1. UNCHANGED <<batch, observed, feedback, sel, load, shown>>
  BY DEF windowVars, viewVars, batchVars, loadVars, runVars
<1>2. BatchEnds'
  <2>1. batch # <<>> => sel \in Sessions
    BY DEF Inv, SelectionOK
  <2>2. batch # <<>> => process[sel] # 0 \/ Ended(wire, sel)
    BY DEF Follows, BatchEnds
  <2>3. batch # <<>> => process'[sel] # 0 \/ Ended(wire', sel)
    BY <2>1, <2>2
  <2>4. QED
    BY <1>1, <2>3 DEF BatchEnds
<1>3. FeedbackEnds'
  <2>1. feedback # 0 => /\ observed = feedback /\ sel \in Sessions
                        /\ process[sel] = feedback \/ EndedRun(wire, sel, feedback)
    BY DEF Follows, FeedbackEnds
  <2>2. feedback # 0 => process'[sel] = feedback \/ EndedRun(wire', sel, feedback)
    BY <2>1
  <2>3. QED
    BY <1>1, <2>1, <2>2 DEF FeedbackEnds
<1>4. ShownFollows'
  <2>1. SUFFICES ASSUME Calm'
                 PROVE  /\ load = "none" => shown = stored[sel]
                        /\ \A m \in Elements(wire') : m.k = "messages" => m.data = stored[sel]
    BY <1>1 DEF ShownFollows
  <2>2. /\ sel \in Sessions /\ process'[sel] = 0 /\ ~Ended(wire', sel)
        /\ ~Greets(asks') /\ ~Greets(wire')
    BY <1>1, <2>1 DEF Calm
  <2>3. process[sel] = 0 /\ ~Ended(wire, sel) /\ ~Greets(asks) /\ ~Greets(wire)
    BY <2>2
  <2>4. Calm
    BY <2>2, <2>3 DEF Calm
  <2>5. /\ load = "none" => shown = stored[sel]
        /\ \A m \in Elements(wire) : m.k = "messages" => m.data = stored[sel]
    BY <2>4 DEF Follows, ShownFollows
  <2>6. QED
    BY <2>5
<1>5. QED
  BY <1>2, <1>3, <1>4

LEMMA TwoMore ==
  ASSUME NEW B, NEW q \in Seq(B), NEW a \in B, NEW b \in B
  PROVE  q \o <<a, b>> = Append(Append(q, a), b)
<1>1. PICK z, u, n : z = <<a, b>> /\ u = Append(q, a) /\ n = Len(q)
  OBVIOUS
<1>2. z \in Seq(B) /\ Len(z) = 2 /\ z[1] = a /\ z[2] = b
  BY <1>1
<1>3. u \in Seq(B) /\ Len(u) = n + 1 /\ n \in Nat /\ u[n + 1] = a /\ \A i \in 1..n : u[i] = q[i]
  BY <1>1, MoreIs
<1>4. PICK x, y : x = q \o z /\ y = Append(u, b)
  OBVIOUS
<1>5. x \in Seq(B) /\ Len(x) = n + 2 /\ x[n + 1] = a /\ x[n + 2] = b /\ \A i \in 1..n : x[i] = q[i]
  BY <1>1, <1>2, <1>4
<1>6. /\ y \in Seq(B) /\ Len(y) = n + 2 /\ y[n + 2] = b
      /\ \A i \in 1..(n + 1) : y[i] = u[i]
  <2>1. Len(u) + 1 = n + 2
    BY <1>3
  <2>2. y \in Seq(B) /\ DOMAIN y = 1..(Len(u) + 1) /\ Len(y) = Len(u) + 1 /\ y[Len(u) + 1] = b
        /\ \A i \in 1..Len(u) : y[i] = u[i]
    BY <1>3, <1>4, MoreIs
  <2>3. QED
    BY <1>3, <2>1, <2>2
<1>7. \A i \in 1..(n + 2) : i = n + 2 \/ i = n + 1 \/ i \in 1..n
  BY <1>3
<1>8. n + 1 \in 1..(n + 1) /\ \A i \in 1..n : i \in 1..(n + 1)
  BY <1>3
<1>9. \A i \in 1..(n + 2) : x[i] = y[i]
  BY ONLY <1>3, <1>5, <1>6, <1>7, <1>8, Zenon
<1>10. x = y
  BY ONLY <1>3, <1>5, <1>6, <1>9
<1>11. QED
  BY <1>1, <1>4, <1>10

LEMMA EmitFollows ==
  ASSUME Inv, Follows, NEW s \in Sessions, Emit(s)
  PROVE  Follows'
<1>1. /\ unsent[s] # NoEvent /\ unsent' = [unsent EXCEPT ![s] = NoEvent]
      /\ process' = IF unsent[s].k = "status" THEN [process EXCEPT ![s] = 0] ELSE process
      /\ UNCHANGED windowVars /\ UNCHANGED <<stored, online, asks>>
  BY DEF Emit, windowVars
<1>2. DOMAIN unsent = Sessions /\ DOMAIN process = Sessions
  BY DEF Inv, UnsentOK, ServerTypes
<1>3. RunsUnsent'
  <2>1. SUFFICES ASSUME NEW t \in Sessions PROVE RunOf(unsent'[t], process'[t])
    BY DEF RunsUnsent
  <2>2. CASE t = s
    BY <1>1, <1>2, <2>2 DEF RunOf
  <2>3. CASE t # s
    <3>1. unsent'[t] = unsent[t] /\ process'[t] = process[t]
      BY <1>1, <1>2, <2>3
    <3>2. RunOf(unsent[t], process[t])
      BY DEF Follows, RunsUnsent
    <3>3. QED
      BY <3>1, <3>2
  <2>4. QED
    BY <2>2, <2>3
<1>4. CASE ~online
  <2>1. wire = <<>> /\ wire' = wire
    BY <1>4 DEF Emit, Inv, LinkOK
  <2>2. EndsFollow'
    BY <2>1, NothingThere DEF EndsFollow
  <2>3. BusyFollows' /\ FeedbackEnds'
    BY <1>1, <1>4 DEF BusyFollows, FeedbackEnds
  <2>4. BatchEnds'
    BY <1>1, <1>4 DEF BatchEnds, Follows, windowVars, batchVars
  <2>5. ShownFollows'
    BY <1>1, <1>4 DEF ShownFollows, Calm
  <2>6. QED
    BY <1>3, <2>2, <2>3, <2>4, <2>5 DEF Follows
<1>5. CASE online
  <2>1. PICK u, v : u = Append(wire, unsent[s]) /\ v = Append(u, Sent(TRUE))
    OBVIOUS
  <2>2. wire' = u \/ wire' = v
    <3>1. \/ wire' = wire \o <<unsent[s], Sent(TRUE)>>
          \/ wire' = Append(wire, unsent[s])
      BY <1>5 DEF Emit
    <3>2. wire \o <<unsent[s], Sent(TRUE)>> = v
      <4>1. PICK B : B = True
        OBVIOUS
      <4>2. wire \in Seq(B) /\ unsent[s] \in B /\ Sent(TRUE) \in B
        BY <1>1, <4>1, AckIs DEF Inv, LinkOK, UnsentOK
      <4>3. PICK a \in B, b \in B : a = unsent[s] /\ b = Sent(TRUE)
        BY <4>2
      <4>4. wire \o <<a, b>> = Append(Append(wire, a), b)
        BY <4>2, TwoMore
      <4>5. QED
        BY ONLY <2>1, <4>3, <4>4, Zenon
    <3>3. QED
      BY <2>1, <3>1, <3>2
  <2>3. /\ u \in Seq(Packets)
        /\ \A t \in Sessions : Order(u, t, process'[t])
        /\ Asked(asks) \/ \A t \in Sessions : t = s \/ unsent[t].k # "user" => Ends(u, t, busy, process'[t])
        /\ \A t \in Sessions : \/ process'[t] = process[t]
                               \/ t = s /\ process'[t] = 0 /\ Ended(u, t) /\ EndedRun(u, t, process[t])
        /\ process'[s] = 0 => Ended(u, s)
    BY <1>1, <1>5, <2>1, SentOn
  <2>4. Sent(TRUE).k = "sent" /\ Sent(TRUE) \in Packets
    BY DEF Sent, Packets, Acks
  <2>5. /\ \A t, r : Order(u, t, r) => Order(v, t, r)
        /\ \A t, b, r : Ends(u, t, b, r) => Ends(v, t, b, r)
    BY <2>1, <2>3, <2>4, AsideMore
  <2>6. /\ \A t : Ended(u, t) => Ended(v, t)
        /\ \A t, r : EndedRun(u, t, r) => EndedRun(v, t, r)
        /\ Greets(u) => Greets(v)
        /\ \A x \in Elements(v) : x \in Elements(u) \/ x = Sent(TRUE)
    <3>1. PICK a \in Packets : a = Sent(TRUE)
      BY <2>4
    <3>2. u \in Seq(Packets) /\ v = Append(u, a)
      BY <2>1, <2>3, <3>1
    <3>3. QED
      BY <3>1, <3>2, WireMore
  <2>7. PICK B : B = True
    OBVIOUS
  <2>8. wire \in Seq(B) /\ unsent[s] \in B /\ unsent[s].k # "messages"
    <3>1. unsent[s] \in Events
      BY <1>1, RunsAre
    <3>2. unsent[s].k # "messages"
      BY <3>1 DEF Events, Users, Deltas, Completes, Tools, Statuses
    <3>3. QED
      BY <1>1, <2>7, <3>2 DEF Inv, LinkOK, UnsentOK
  <2>9. /\ \A t : Ended(wire, t) => Ended(u, t)
        /\ \A t, r : EndedRun(wire, t, r) => EndedRun(u, t, r)
        /\ Greets(wire) => Greets(u)
        /\ \A x \in Elements(u) : x \in Elements(wire) \/ x = unsent[s]
    BY <2>1, <2>8, WireMore
  <2>10. EndsFollow'
    <3>1. SUFFICES ASSUME NEW t \in Sessions PROVE Order(wire', t, process'[t])
      BY DEF EndsFollow
    <3>2. QED
      BY <2>2, <2>3, <2>5
  <2>11. BusyFollows'
    <3>1. SUFFICES ASSUME ~Asked(asks), NEW t \in Sessions, unsent'[t].k # "user"
                   PROVE  Ends(wire', t, busy, process'[t])
      BY <1>1 DEF BusyFollows, windowVars, viewVars
    <3>2. t = s \/ unsent[t].k # "user"
      BY <1>1, <1>2, <3>1
    <3>3. Ends(u, t, busy, process'[t])
      BY <2>3, <3>1, <3>2
    <3>4. QED
      BY <2>2, <2>5, <3>3
  <2>12. BatchEnds' /\ FeedbackEnds' /\ ShownFollows'
    <3>1. \A t : Ended(wire, t) => Ended(wire', t)
      BY <2>2, <2>6, <2>9
    <3>2. \A t, r : EndedRun(wire, t, r) => EndedRun(wire', t, r)
      BY <2>2, <2>6, <2>9
    <3>3. Greets(wire) => Greets(wire')
      BY <2>2, <2>6, <2>9
    <3>4. \A t \in Sessions : \/ process'[t] = process[t]
                              \/ process'[t] = 0 /\ Ended(wire', t) /\ EndedRun(wire', t, process[t])
      BY <2>2, <2>3, <2>6
    <3>5. \A x \in Elements(wire') : x.k = "messages" => x \in Elements(wire) \/ x.data = stored[sel]
      BY <2>2, <2>4, <2>6, <2>8, <2>9
    <3>6. QED
      BY <1>1, <1>5, <3>1, <3>2, <3>3, <3>4, <3>5, Delivered
  <2>13. QED
    BY <1>3, <2>10, <2>11, <2>12 DEF Follows
<1>6. QED
  BY <1>4, <1>5

LEMMA WireIs ==
  ASSUME LinkOK
  PROVE  wire \in Seq(Packets)
<1>1. PICK B : B = True
  OBVIOUS
<1>2. wire \in Seq(B) /\ B \subseteq Packets
  BY <1>1 DEF LinkOK, True
<1>3. QED
  BY <1>2, SeqMono

\* The runs do not change, and what is sent is no event of one.
LEMMA AnswerAdds ==
  ASSUME Inv, Follows, online, UNCHANGED windowVars, UNCHANGED online, UNCHANGED serverVars,
         NEW e \in Packets, wire' = Append(wire, e),
         e.k = "messages" => e.data = stored[sel],
         Greets(asks) => Greets(asks') \/ (e.k = "list" /\ e.why = "connected"),
         \/ e.k \in {"sent", "messages"} /\ (Asked(asks) => Asked(asks'))
         \/ e.k = "list" /\ \A s \in Sessions : s \in e.busy <=> process[s] # 0
  PROVE  Follows'
<1>1. UNCHANGED <<stored, process, unsent, busy>>
  BY DEF serverVars, windowVars, viewVars
<1>2. wire \in Seq(Packets)
  BY WireIs DEF Inv
<1>3. RunsUnsent'
  BY <1>1 DEF Follows, RunsUnsent
<1>4. EndsFollow'
  <2>1. SUFFICES ASSUME NEW s \in Sessions PROVE Order(wire', s, process[s])
    BY <1>1 DEF EndsFollow
  <2>2. Order(wire, s, process[s])
    BY DEF Follows, EndsFollow
  <2>3. e.k \notin {"delta", "complete", "tool", "user"}
    OBVIOUS
  <2>4. QED
    BY <1>2, <2>2, <2>3, MoreOrder
<1>5. BusyFollows'
  <2>1. SUFFICES ASSUME ~Asked(asks'), NEW s \in Sessions, unsent[s].k # "user"
                 PROVE  Ends(wire', s, busy, process[s])
    BY <1>1 DEF BusyFollows
  <2>2. CASE e.k \in {"sent", "messages"} /\ (Asked(asks) => Asked(asks'))
    <3>1. Ends(wire, s, busy, process[s])
      BY <2>1, <2>2 DEF Follows, BusyFollows
    <3>2. QED
      BY <1>2, <2>2, <3>1, AsideMore
  <2>3. CASE e.k = "list" /\ \A t \in Sessions : t \in e.busy <=> process[t] # 0
    <3>1. Fixes(e, s) /\ (Tells(e, s) <=> process[s] # 0)
      BY <2>3 DEF Fixes, Tells
    <3>2. IF Fixes(e, s) THEN Tells(e, s) <=> process[s] # 0 ELSE Ends(wire, s, busy, process[s])
      BY <3>1, Zenon
    <3>3. QED
      BY <1>2, <3>2, MoreEnds
  <2>4. QED
    BY <2>2, <2>3
<1>6. /\ \A s : Ended(wire, s) => Ended(wire', s)
      /\ \A s, r : EndedRun(wire, s, r) => EndedRun(wire', s, r)
      /\ Greets(wire) => Greets(wire')
      /\ e \in Elements(wire')
      /\ \A x \in Elements(wire') : x \in Elements(wire) \/ x = e
  <2>1. PICK w, t : w = wire /\ w \in Seq(Packets) /\ t = Append(w, e) /\ t = wire'
    BY <1>2
  <2>2. /\ \A s : Ended(w, s) => Ended(t, s)
        /\ \A s, r : EndedRun(w, s, r) => EndedRun(t, s, r)
        /\ Greets(w) => Greets(t)
        /\ e \in Elements(t)
        /\ \A x \in Elements(t) : x \in Elements(w) \/ x = e
    BY <2>1, WireMore
  <2>3. QED
    BY <2>1, <2>2
<1>7. e.k = "list" /\ e.why = "connected" => Greets(wire')
  BY <1>6 DEF Greets
<1>8. Greets(asks) => Greets(asks') \/ Greets(wire')
  BY <1>7
<1>9. \A x \in Elements(wire') : x.k = "messages" => x \in Elements(wire) \/ x.data = stored[sel]
  BY <1>6
<1>10. BatchEnds' /\ FeedbackEnds' /\ ShownFollows'
  BY <1>1, <1>6, <1>8, <1>9, Delivered
<1>11. QED
  BY <1>3, <1>4, <1>5, <1>10 DEF Follows

LEMMA AnswerFollows ==
  ASSUME Inv, Follows, Answer
  PROVE  Follows'
<1>1. /\ asks # <<>> /\ asks' = Tail(asks) /\ UNCHANGED windowVars /\ UNCHANGED online
  BY DEF Answer, windowVars
<1>2. online /\ (Head(asks).k # "list" => (Asked(asks) => Asked(asks')))
      /\ (Greets(asks) => Greets(asks') \/ (Head(asks).k = "list" /\ Head(asks).why = "connected"))
  BY <1>1, AskOf, AsksAfter DEF Inv
<1>3. CASE AnswerList
  <2>1. PICK e : e = [k |-> "list", why |-> Head(asks).why, busy |-> {s \in Sessions : process[s] # 0}]
    OBVIOUS
  <2>2. Head(asks).k = "list" /\ wire' = Append(wire, e) /\ UNCHANGED serverVars
    BY <1>3, <2>1, Zenon DEF AnswerList
  <2>3. Head(asks).why \in Whys
    BY <1>1, <2>2, AskOf DEF Inv
  <2>4. /\ e \in Packets /\ e.k = "list" /\ e.why = Head(asks).why
        /\ \A s \in Sessions : s \in e.busy <=> process[s] # 0
    BY <2>1, <2>3 DEF Packets, Lists
  <2>5. QED
    BY <1>1, <1>2, <2>2, <2>4, AnswerAdds
<1>4. CASE AnswerMessages
  <2>1. PICK s : s = Head(asks).s
    OBVIOUS
  <2>2. PICK e : e = [k |-> "messages", s |-> s, data |-> stored[s]]
    OBVIOUS
  <2>3. Head(asks).k = "messages" /\ wire' = Append(wire, e) /\ UNCHANGED serverVars
    BY <1>4, <2>1, <2>2, Zenon DEF AnswerMessages
  <2>4. s \in Sessions /\ s = sel
    BY <1>1, <2>1, <2>3, AskOf DEF Inv
  <2>5. stored[s] \in Seq(Message)
    BY <2>4 DEF Inv, ServerTypes
  <2>6. e \in Packets /\ e.k = "messages" /\ e.data = stored[sel]
    BY <2>2, <2>4, <2>5 DEF Packets, Loads
  <2>7. QED
    BY <1>1, <1>2, <2>3, <2>6, AnswerAdds
<1>5. CASE AnswerSend
  <2>1. PICK s, request : s = Head(asks).s /\ request = Head(asks).request
    OBVIOUS
  <2>2. s \in Sessions /\ Head(asks).k = "send"
    BY <1>1, <1>5, <2>1, AskOf DEF Inv, AnswerSend
  <2>3. (Asked(asks) => Asked(asks')) /\ (Greets(asks) => Greets(asks'))
    BY <1>2, <2>2
  <2>4. ASSUME NEW ok \in BOOLEAN, wire' = Append(wire, Sent(ok)), UNCHANGED serverVars PROVE Follows'
    <3>1. PICK e : e = Sent(ok)
      OBVIOUS
    <3>2. e \in Packets /\ e.k = "sent"
      BY <3>1 DEF Sent, Packets, Acks
    <3>3. QED
      BY <1>1, <1>2, <2>3, <2>4, <3>1, <3>2, AnswerAdds
  <2>5. CASE unsent[s].k = "user" /\ unsent' = [unsent EXCEPT ![s].reply = TRUE]
             /\ UNCHANGED <<wire, stored, transcript, segment, process, runs>>
    <3>1. PICK e : e = unsent[s]
      OBVIOUS
    <3>2. e \in Users
      <4>1. e # NoEvent
        BY <2>5, <3>1 DEF NoEvent
      <4>2. e \in Events
        BY <2>2, <3>1, <4>1, RunsAre
      <4>3. QED
        BY <2>5, <3>1, <4>2, KindOf DEF Packets
    <3>3. PICK f : f = [e EXCEPT !.reply = TRUE]
      OBVIOUS
    <3>4. f.k = "user" /\ f.m = e.m
      BY <3>2, <3>3 DEF Users
    <3>5. DOMAIN unsent = Sessions
      BY DEF Inv, UnsentOK
    <3>6. unsent'[s] = f /\ \A t \in Sessions \ {s} : unsent'[t] = unsent[t]
      BY <2>2, <2>5, <3>1, <3>3, <3>5
    <3>7. RunOf(e, process[s]) /\ e # NoEvent /\ e.k = "user"
      BY <2>2, <2>5, <3>1, NoEventIs DEF Follows, RunsUnsent
    <3>8. RunOf(f, process[s]) /\ process[s] # 0
      BY <3>4, <3>7 DEF RunOf
    <3>9. \A t \in Sessions \ {s} :
            stored'[t] = stored[t] /\ process'[t] = process[t] /\ unsent'[t] = unsent[t]
      BY <2>5, <3>6
    <3>10. unsent'[s].k = "user" /\ process'[s] = process[s] /\ RunOf(unsent'[s], process'[s])
      BY <2>5, <3>4, <3>6, <3>8
    <3>11. UNCHANGED <<online, wire>>
      BY <1>1, <2>5
    <3>12. QED
      BY <1>1, <2>2, <2>3, <3>8, <3>9, <3>10, <3>11, RunGoesOn
  <2>6. CASE ~(process[s] # 0 \/ runs = MaxRuns) /\ Accept(s, request, TRUE) /\ UNCHANGED wire
    <3>1. process[s] = 0 /\ UNCHANGED <<online, wire>>
      BY <1>1, <2>6
    <3>2. QED
      BY <1>1, <2>2, <2>3, <2>6, <3>1, AcceptFollows
  <2>7. wire' = Append(wire, Sent(TRUE)) /\ UNCHANGED serverVars => Follows'
    BY <2>4
  <2>8. wire' = Append(wire, Sent(FALSE)) /\ UNCHANGED serverVars => Follows'
    BY <2>4
  <2>9. QED
    BY <1>5, <2>1, <2>5, <2>6, <2>7, <2>8, Zenon DEF AnswerSend
<1>6. QED
  BY <1>3, <1>4, <1>5 DEF Answer

LEMMA AppliedNone ==
  ASSUME shown \in Seq(Message)
  PROVE  Applied(<<>>) = shown
<1>1. PICK was \in Seq(Message) : was = shown
  OBVIOUS
<1>2. PICK now : now = [i \in DOMAIN shown |->
                          IF Has(<<>>, shown[i].id)
                          THEN [shown[i] EXCEPT !.text =
                                  Updated(<<>>[CHOOSE k \in DOMAIN <<>> : <<>>[k].id = shown[i].id], shown[i].text)]
                          ELSE shown[i]]
  OBVIOUS
<1>3. PICK more : more = Besides(<<>>, shown)
  OBVIOUS
<1>4. PICK new : new = [i \in DOMAIN more |-> [id |-> more[i].id, req |-> NoRequest,
                                               text |-> Updated(more[i], <<>>)]]
  OBVIOUS
<1>5. Applied(<<>>) = now \o new
  BY <1>2, <1>3, <1>4, Zenon DEF Applied
<1>6. \A id : ~Has(<<>>, id)
  <2>1. \A i \in DOMAIN <<>> : FALSE
    OBVIOUS
  <2>2. QED
    BY <2>1, Zenon DEF Has
<1>7. now = was
  <2>1. now = [i \in DOMAIN was |-> was[i]]
    <3>1. DOMAIN now = DOMAIN was
      BY ONLY <1>1, <1>2
    <3>2. \A i \in DOMAIN was : now[i] = was[i]
      BY <1>1, <1>2, <1>6, Zenon
    <3>3. now = [i \in DOMAIN now |-> now[i]]
      BY ONLY <1>2
    <3>4. QED
      BY ONLY <3>1, <3>2, <3>3
  <2>2. QED
    BY <1>1, <2>1
<1>8. more = <<>>
  <2>1. <<>> \in Seq({})
    OBVIOUS
  <2>2. more \in Seq({})
    BY <1>3, <2>1, BesidesIs
  <2>3. QED
    BY <2>2
<1>9. new = <<>>
  <2>1. DOMAIN more = {}
    BY <1>8
  <2>2. DOMAIN new = {} /\ new = [i \in DOMAIN new |-> new[i]]
    BY ONLY <1>4, <2>1
  <2>3. QED
    BY ONLY <2>2
<1>10. was \o <<>> = was
  OBVIOUS
<1>11. QED
  BY <1>1, <1>5, <1>7, <1>9, <1>10

LEMMA AsksMore ==
  ASSUME NEW S, NEW q \in Seq(S), NEW a
  PROVE  /\ Asked(q) => Asked(Append(Others(q), a)) /\ Asked(Append(q, a))
         /\ Greets(q) => Greets(Append(Others(q), a)) /\ Greets(Append(q, a))
         /\ Asked(q) => Asked(Others(q))
         /\ Greets(q) => Greets(Others(q))
         /\ a.k = "list" => Asked(Append(Others(q), a)) /\ Asked(Append(q, a))
<1>1. PICK T : T = S \cup {a}
  OBVIOUS
<1>2. a \in T /\ q \in Seq(T)
  BY <1>1, SeqMono
<1>3. Kept(q, Others(q), 0) /\ Others(q) \in Seq(T)
  BY <1>2, OthersKept
<1>4. \A x : x \in Elements(q) /\ x.k # "messages" => x \in Elements(Others(q))
  BY <1>2, <1>3, KeptElements
<1>5. \A x : x \in Elements(Append(q, a)) <=> x \in Elements(q) \/ x = a
  BY <1>2, ElementsMore
<1>6. PICK o : o = Others(q)
  OBVIOUS
<1>7. \A x : x \in Elements(Append(o, a)) <=> x \in Elements(o) \/ x = a
  BY <1>2, <1>3, <1>6, ElementsMore
<1>8. (Asked(q) => Asked(o)) /\ (Greets(q) => Greets(o))
  BY <1>4, <1>6 DEF Asked, Greets
<1>9. (Asked(o) => Asked(Append(o, a))) /\ (Greets(o) => Greets(Append(o, a)))
  BY <1>7 DEF Asked, Greets
<1>10. (Asked(q) => Asked(Append(q, a))) /\ (Greets(q) => Greets(Append(q, a)))
  BY <1>5 DEF Asked, Greets
<1>11. a.k = "list" => Asked(Append(o, a)) /\ Asked(Append(q, a))
  BY <1>5, <1>7 DEF Asked
<1>12. QED
  BY <1>6, <1>8, <1>9, <1>10, <1>11

\* A new load asks for as much as was asked for, and there is none before it.
LEMMA LoadAsks ==
  ASSUME NEW S, NEW before \in Seq(S), NEW s, LoadAfter(before, s)
  PROVE  /\ Asked(before) => Asked(asks')
         /\ Greets(before) => Greets(asks')
         /\ online => load' = "sent"
BY AsksMore DEF LoadAfter

\* The window acts and neither reads nor changes its selection.
LEMMA WindowActs ==
  ASSUME Inv, Follows, UNCHANGED serverVars, UNCHANGED <<online, wire, sel, busy, observed, feedback>>,
         Asked(asks) => Asked(asks'), Greets(asks) => Greets(asks'),
         batch' = batch \/ batch' = <<>>,
         online /\ load' = "none" => load = "none" /\ (shown' = shown \/ batch # <<>>)
  PROVE  Follows'
<1>1. UNCHANGED <<stored, process, unsent>>
  BY DEF serverVars
<1>2. RunsUnsent' /\ EndsFollow'
  BY <1>1 DEF Follows, RunsUnsent, EndsFollow
<1>3. BusyFollows'
  BY <1>1 DEF Follows, BusyFollows
<1>4. BatchEnds'
  BY <1>1 DEF Follows, BatchEnds
<1>5. FeedbackEnds'
  BY <1>1 DEF Follows, FeedbackEnds
<1>6. ShownFollows'
  <2>1. SUFFICES ASSUME Calm'
                 PROVE  /\ load' = "none" => shown' = stored[sel]
                        /\ \A m \in Elements(wire) : m.k = "messages" => m.data = stored[sel]
    BY <1>1 DEF ShownFollows
  <2>2. /\ online /\ sel \in Sessions /\ process[sel] = 0 /\ ~Ended(wire, sel)
        /\ ~Greets(asks) /\ ~Greets(wire)
    BY <1>1, <2>1 DEF Calm
  <2>3. Calm
    BY <2>2 DEF Calm
  <2>4. batch = <<>>
    BY <2>2 DEF Follows, BatchEnds
  <2>5. /\ load = "none" => shown = stored[sel]
        /\ \A m \in Elements(wire) : m.k = "messages" => m.data = stored[sel]
    BY <2>3 DEF Follows, ShownFollows
  <2>6. QED
    BY <2>2, <2>4, <2>5
<1>7. QED
  BY <1>2, <1>3, <1>4, <1>5, <1>6 DEF Follows

LEMMA SelectFollows ==
  ASSUME Inv, Follows, NEW s \in Sessions, Select(s)
  PROVE  Follows'
BY WindowActs DEF Select, linkVars, batchVars, loadVars, runVars

LEMMA BatchTimerFollows ==
  ASSUME Inv, Follows, BatchTimer
  PROVE  Follows'
<1>1. batch # <<>>
  BY DEF BatchTimer, Inv, RestOK
<1>2. QED
  BY <1>1, WindowActs DEF BatchTimer, FlushBatch, Flush, linkVars, runVars

LEMMA RetryTimerFollows ==
  ASSUME Inv, Follows, RetryTimer
  PROVE  Follows'
<1>1. asks \in Seq(Asks)
  BY AsksAre DEF Inv
<1>2. (Asked(asks) => Asked(asks')) /\ (Greets(asks) => Greets(asks')) /\ (online => load' = "sent")
  BY <1>1, LoadAsks DEF RetryTimer
<1>3. QED
  BY <1>2, WindowActs DEF RetryTimer, viewVars, batchVars, runVars

LEMMA SendFollows ==
  ASSUME Inv, Follows, Send
  PROVE  Follows'
<1>1. asks \in Seq(Asks)
  BY AsksAre DEF Inv
<1>2. (Asked(asks) => Asked(asks')) /\ (Greets(asks) => Greets(asks'))
  BY <1>1, AsksMore DEF Send
<1>3. shown' = shown \/ batch # <<>>
  BY AppliedNone DEF Send, FlushBatch, Flush, Inv, ViewOK
<1>4. UNCHANGED <<online, wire, sel, busy, observed, feedback, load>> /\ batch' = <<>> /\ UNCHANGED serverVars
  BY DEF Send, FlushBatch, Flush, runVars
<1>5. QED
  BY <1>2, <1>3, <1>4, WindowActs

LEMMA SelectionEffectFollows ==
  ASSUME Inv, Follows, SelectionEffect
  PROVE  Follows'
<1>1. /\ UNCHANGED <<stored, process, unsent>> /\ UNCHANGED <<online, busy>>
      /\ LoadAfter(asks, selected) /\ wire' = Others(wire) /\ batch' = <<>> /\ feedback' = 0
  BY DEF SelectionEffect, CancelBatch, serverVars
<1>2. Kept(wire, wire', 0) /\ wire' \in Seq(Packets) /\ wire \in Seq(Packets)
  BY <1>1, WireIs, OthersKept DEF Inv
<1>3. asks \in Seq(Asks)
  BY AsksAre DEF Inv
<1>4. (Asked(asks) => Asked(asks')) /\ (online => load' = "sent")
  BY <1>1, <1>3, LoadAsks
<1>5. RunsUnsent'
  BY <1>1 DEF Follows, RunsUnsent
<1>6. EndsFollow'
  <2>1. SUFFICES ASSUME NEW s \in Sessions PROVE Order(wire', s, process[s])
    BY <1>1 DEF EndsFollow
  <2>2. Order(wire, s, process[s])
    BY DEF Follows, EndsFollow
  <2>3. QED
    BY <1>2, <2>2, KeptOrder
<1>7. BusyFollows'
  <2>1. SUFFICES ASSUME online, ~Asked(asks'), NEW s \in Sessions, unsent[s].k # "user"
                 PROVE  Ends(wire', s, busy, process[s])
    BY <1>1 DEF BusyFollows
  <2>2. Ends(wire, s, busy, process[s])
    BY <1>4, <2>1 DEF Follows, BusyFollows
  <2>3. PICK n \in {0, 1} : n = 0
    OBVIOUS
  <2>4. QED
    BY <1>2, <2>2, <2>3, KeptEnds
<1>8. BatchEnds' /\ FeedbackEnds'
  BY <1>1 DEF BatchEnds, FeedbackEnds
<1>9. ShownFollows'
  <2>1. \A x \in Elements(wire') : x.k # "messages"
    BY <1>1, <1>2, NoLoads
  <2>2. online' => load' # "none"
    BY <1>1, <1>4
  <2>3. QED
    BY <2>1, <2>2 DEF ShownFollows, Calm
<1>10. QED
  BY <1>5, <1>6, <1>7, <1>8, <1>9 DEF Follows

LEMMA ConnectFollows ==
  ASSUME Inv, Follows, Connect
  PROVE  Follows'
<1>1. /\ UNCHANGED <<stored, process, unsent>> /\ UNCHANGED <<wire, sel, batch>> /\ ~online /\ feedback' = 0
      /\ asks' \in {<<ListFor("connected"), ListFor("connected")>>, <<ListFor("connected")>>}
  BY DEF Connect, serverVars, viewVars, batchVars
<1>2. Asked(asks') /\ Greets(asks')
  <2>1. PICK a : a = ListFor("connected")
    OBVIOUS
  <2>2. a.k = "list" /\ a.why = "connected"
    BY <2>1 DEF ListFor
  <2>3. PICK q : q = asks'
    OBVIOUS
  <2>4. 1 \in DOMAIN q /\ q[1] = a
    BY <1>1, <2>1, <2>3
  <2>5. a \in Elements(q)
    BY <2>4 DEF Elements
  <2>6. QED
    BY <2>2, <2>3, <2>5 DEF Asked, Greets
<1>3. RunsUnsent' /\ EndsFollow'
  BY <1>1 DEF Follows, RunsUnsent, EndsFollow
<1>4. BusyFollows' /\ FeedbackEnds' /\ ShownFollows'
  BY <1>1, <1>2 DEF BusyFollows, FeedbackEnds, ShownFollows, Calm
<1>5. BatchEnds'
  BY <1>1 DEF Follows, BatchEnds
<1>6. QED
  BY <1>3, <1>4, <1>5 DEF Follows

LEMMA DropFollows ==
  ASSUME Inv, Follows, Drop
  PROVE  Follows'
<1>1. UNCHANGED process /\ online' = FALSE /\ wire' = <<>> /\ batch' = <<>>
  BY DEF Drop, FlushBatch, Flush
<1>2. unsent' = [s \in Sessions |-> IF unsent[s].k = "user" THEN [unsent[s] EXCEPT !.reply = FALSE]
                                                           ELSE unsent[s]]
  BY Zenon DEF Drop
<1>3. RunsUnsent'
  <2>1. SUFFICES ASSUME NEW s \in Sessions PROVE RunOf(unsent'[s], process[s])
    BY <1>1 DEF RunsUnsent
  <2>2. PICK e : e = unsent[s]
    OBVIOUS
  <2>3. unsent'[s] = IF e.k = "user" THEN [e EXCEPT !.reply = FALSE] ELSE e
    BY <1>2, <2>2
  <2>4. RunOf(e, process[s])
    BY <2>2 DEF Follows, RunsUnsent
  <2>5. CASE e.k = "user"
    <3>1. e # NoEvent
      BY <2>5, NoEventIs
    <3>2. e \in Users
      <4>1. e \in Events
        BY <2>2, <3>1, RunsAre
      <4>2. QED
        BY <2>5, <4>1, KindOf DEF Packets
    <3>3. PICK f : f = [e EXCEPT !.reply = FALSE]
      OBVIOUS
    <3>4. f.k = "user" /\ f.m = e.m
      BY <3>2, <3>3 DEF Users
    <3>5. RunOf(f, process[s])
      BY <2>4, <2>5, <3>1, <3>4 DEF RunOf
    <3>6. QED
      BY <2>3, <2>5, <3>3, <3>5
  <2>6. CASE e.k # "user"
    BY <2>3, <2>4, <2>6
  <2>7. QED
    BY <2>5, <2>6
<1>4. EndsFollow'
  BY <1>1, NothingThere DEF EndsFollow
<1>5. BusyFollows' /\ BatchEnds' /\ FeedbackEnds' /\ ShownFollows'
  BY <1>1 DEF BusyFollows, BatchEnds, FeedbackEnds, ShownFollows, Calm
<1>6. QED
  BY <1>3, <1>4, <1>5 DEF Follows

-----------------------------------------------------------------------------
(* What the window reads tells it no more than is so *)

LEMMA ReadWire ==
  ASSUME Inv, Read
  PROVE  /\ wire \in Seq(Packets) /\ wire' \in Seq(Packets) /\ Kept(wire, wire', 1)
         /\ wire # <<>> /\ 1 \in DOMAIN wire /\ wire[1] = M
         /\ \A x \in Elements(wire') : x \in Elements(wire)
         /\ \A x \in Elements(wire) : x = M \/ x.k = "messages" \/ x \in Elements(wire')
         /\ Reloads => \A x \in Elements(wire') : x.k # "messages"
<1>1. wire # <<>> /\ wire \in Seq(Packets) /\ wire' = IF Reloads THEN Others(Tail(wire)) ELSE Tail(wire)
  BY WireIs DEF Inv, Read
<1>2. PICK t, o : t = Tail(wire) /\ o = Others(t)
  OBVIOUS
<1>3. Kept(wire, t, 1) /\ t \in Seq(Packets)
  BY <1>1, <1>2, TailKept
<1>4. Kept(t, o, 0) /\ o \in Seq(Packets) /\ \A x \in Elements(o) : x.k # "messages"
  BY <1>2, <1>3, OthersKept, NoLoads
<1>5. Kept(wire, o, 1)
  BY <1>1, <1>3, <1>4, KeptTwice
<1>6. wire' \in {t, o} /\ (Reloads => wire' = o)
  BY <1>1, <1>2
<1>7. Kept(wire, wire', 1) /\ wire' \in Seq(Packets) /\ (Reloads => \A x \in Elements(wire') : x.k # "messages")
  BY <1>3, <1>4, <1>5, <1>6
<1>8. /\ \A x : x \in Elements(wire) <=> x \in Elements(t) \/ x = Head(wire)
      /\ 1 \in DOMAIN wire /\ wire[1] = Head(wire)
  BY <1>1, <1>2, ElementsTail
<1>9. /\ \A x : x \in Elements(o) => x \in Elements(t)
      /\ \A x : x \in Elements(t) /\ x.k # "messages" => x \in Elements(o)
  BY <1>3, <1>4, KeptElements
<1>10. /\ \A x \in Elements(wire') : x \in Elements(wire)
       /\ \A x \in Elements(wire) : x = M \/ x.k = "messages" \/ x \in Elements(wire')
  BY <1>6, <1>8, <1>9 DEF M
<1>11. QED
  BY <1>1, <1>7, <1>8, <1>10 DEF M

\* What was sent of a run that is not in progress has the end of it behind.
LEMMA EndBehind ==
  ASSUME Inv, Follows, Read, NEW s \in Sessions, M.s = s
  PROVE  /\ M.k \in {"delta", "complete", "tool"} => process[s] # 0 \/ Ended(wire', s)
         /\ M.k = "user" => /\ M.m.id[2] # 0
                            /\ process[s] = M.m.id[2] \/ EndedRun(wire', s, M.m.id[2])
<1>1. PICK m, w, t : m = M /\ w = wire /\ t = wire'
  OBVIOUS
<1>2. w \in Seq(Packets) /\ t \in Seq(Packets) /\ Kept(w, t, 1) /\ 1 \in DOMAIN w /\ w[1] = m
  BY <1>1, ReadWire
<1>3. \A j \in DOMAIN w : 1 < j /\ w[j].k # "messages" => w[j] \in Elements(t)
  BY <1>2, KeptElements
<1>4. Order(w, s, process[s])
  BY <1>1 DEF Follows, EndsFollow
<1>5. Over(w, s, 1) => Ended(t, s)
  BY <1>3 DEF Over, Ended
<1>6. \A r : OverRun(w, s, r, 1) => EndedRun(t, s, r)
  BY <1>3 DEF OverRun, EndedRun
<1>7. /\ w[1].k \in {"delta", "complete", "tool"} /\ w[1].s = s => process[s] # 0 \/ Over(w, s, 1)
      /\ w[1].k = "user" /\ w[1].s = s =>
           w[1].m.id[2] # 0 /\ (process[s] = w[1].m.id[2] \/ OverRun(w, s, w[1].m.id[2], 1))
  BY <1>2, <1>4, Zenon DEF Order
<1>8. m.s = s
  BY <1>1
<1>9. /\ m.k \in {"delta", "complete", "tool"} => process[s] # 0 \/ Ended(t, s)
      /\ m.k = "user" => m.m.id[2] # 0 /\ (process[s] = m.m.id[2] \/ EndedRun(t, s, m.m.id[2]))
  BY <1>2, <1>5, <1>6, <1>7, <1>8, Zenon
<1>10. QED
  BY <1>1, <1>9, Zenon

LEMMA ReadServer ==
  ASSUME Inv, Follows, Read
  PROVE  RunsUnsent' /\ EndsFollow'
<1>1. UNCHANGED <<process, unsent>>
  BY DEF Read, serverVars
<1>2. RunsUnsent'
  BY <1>1 DEF Follows, RunsUnsent
<1>3. EndsFollow'
  <2>1. SUFFICES ASSUME NEW s \in Sessions PROVE Order(wire', s, process[s])
    BY <1>1 DEF EndsFollow
  <2>2. Order(wire, s, process[s])
    BY DEF Follows, EndsFollow
  <2>3. QED
    BY <2>2, ReadWire, KeptOrder
<1>4. QED
  BY <1>2, <1>3

LEMMA ReadBusy ==
  ASSUME Inv, Follows, Read, Asked(asks) => Asked(asks'),
         \A s \in Sessions : s \in busy' <=> IF Fixes(M, s) THEN Tells(M, s) ELSE s \in busy
  PROVE  BusyFollows'
<1>1. UNCHANGED <<process, unsent, online>>
  BY DEF Read, serverVars
<1>2. SUFFICES ASSUME online, ~Asked(asks'), NEW s \in Sessions, unsent[s].k # "user"
               PROVE  Ends(wire', s, busy', process[s])
  BY <1>1 DEF BusyFollows
<1>3. Ends(wire, s, busy, process[s])
  BY <1>2 DEF Follows, BusyFollows
<1>4. PICK w, t, b, n : w = wire /\ t = wire' /\ b = busy' /\ n = 1
  OBVIOUS
<1>5. w \in Seq(Packets) /\ t \in Seq(Packets) /\ Kept(w, t, n) /\ w # <<>> /\ w[1] = M /\ n \in {0, 1} /\ n # 0
  BY <1>4, ReadWire
<1>6. s \in b <=> IF Fixes(w[1], s) THEN Tells(w[1], s) ELSE s \in busy
  BY <1>4, <1>5, Zenon
<1>7. Ends(w, s, busy, process[s])
  BY <1>3, <1>4
<1>8. Ends(t, s, b, process[s])
  BY <1>5, <1>6, <1>7, KeptEnds
<1>9. QED
  BY <1>4, <1>8

LEMMA ReadKeepsBatch ==
  ASSUME Inv, Follows, Read, UNCHANGED sel, batch' = batch, ~(M.k = "status" /\ M.s = sel)
  PROVE  BatchEnds'
<1>1. UNCHANGED <<process, online>>
  BY DEF Read, serverVars
<1>2. Ended(wire, sel) => Ended(wire', sel)
  BY ReadWire DEF Ended
<1>3. QED
  BY <1>1, <1>2 DEF Follows, BatchEnds

LEMMA ReadKeepsFeedback ==
  ASSUME Inv, Follows, Read, UNCHANGED <<sel, observed, feedback>>,
         ~(M.k = "status" /\ M.s = sel) \/ M.r # observed
  PROVE  FeedbackEnds'
<1>1. UNCHANGED <<process, online>>
  BY DEF Read, serverVars
<1>2. feedback = observed => (EndedRun(wire, sel, feedback) => EndedRun(wire', sel, feedback))
  BY ReadWire DEF EndedRun
<1>3. QED
  BY <1>1, <1>2 DEF Follows, FeedbackEnds

LEMMA ReadKeepsShown ==
  ASSUME Inv, Follows, Read, UNCHANGED sel,
         ~(M.k = "status" /\ M.s = sel), ~(M.k = "list" /\ M.why = "connected"),
         Greets(asks) => Greets(asks'),
         \/ load' = "none" => load = "none" /\ shown' = shown
         \/ M.k = "messages" /\ shown' = M.data
  PROVE  ShownFollows'
<1>1. UNCHANGED <<stored, process, online>>
  BY DEF Read, serverVars
<1>2. Ended(wire, sel) => Ended(wire', sel)
  BY ReadWire DEF Ended
<1>3. Greets(wire) => Greets(wire')
  BY ReadWire DEF Greets
<1>4. Calm' => Calm
  BY <1>1, <1>2, <1>3 DEF Calm
<1>5. (\A x \in Elements(wire') : x \in Elements(wire)) /\ M \in Elements(wire)
  <2>1. 1 \in DOMAIN wire /\ wire[1] = M /\ \A x \in Elements(wire') : x \in Elements(wire)
    BY ReadWire
  <2>2. QED
    BY <2>1 DEF Elements
<1>6. QED
  BY <1>1, <1>4, <1>5 DEF Follows, ShownFollows

\* Nothing that was loaded before is shown after this.
LEMMA ReadReloads ==
  ASSUME Inv, Follows, Read, Reloads, load' = "sent"
  PROVE  ShownFollows'
<1>1. \A x \in Elements(wire') : x.k # "messages"
  BY ReadWire
<1>2. load' # "none"
  OBVIOUS
<1>3. QED
  BY <1>1, <1>2 DEF ShownFollows

\* Of a run of the selected session, while it is in progress or its end to come.
LEMMA ReadOfRun ==
  ASSUME Inv, Follows, Read, UNCHANGED sel, sel \in Sessions, M.s = sel,
         M.k \in {"user", "delta", "complete", "tool"}
  PROVE  ShownFollows' /\ (process[sel] # 0 \/ Ended(wire', sel))
<1>1. UNCHANGED process
  BY DEF Read, serverVars
<1>2. process[sel] # 0 \/ Ended(wire', sel)
  <2>1. CASE M.k = "user"
    <3>1. PICK x : x = M.m.id[2]
      OBVIOUS
    <3>2. x # 0 /\ (process[sel] = x \/ EndedRun(wire', sel, x))
      BY <2>1, <3>1, EndBehind
    <3>3. QED
      BY <3>2 DEF Ended, EndedRun
  <2>2. CASE M.k # "user"
    BY <2>2, EndBehind
  <2>3. QED
    BY <2>1, <2>2
<1>3. ~Calm'
  BY <1>1, <1>2 DEF Calm
<1>4. QED
  BY <1>2, <1>3 DEF ShownFollows

LEMMA BusyKept ==
  ASSUME Inv, Follows, Read, Asked(asks) => Asked(asks'), busy' = busy,
         M.k \notin {"list", "user", "status"}
  PROVE  BusyFollows'
<1>1. ASSUME NEW s \in Sessions PROVE s \in busy' <=> IF Fixes(M, s) THEN Tells(M, s) ELSE s \in busy
  <2>1. ~Fixes(M, s)
    BY DEF Fixes
  <2>2. QED
    BY <2>1, Zenon
<1>2. QED
  BY <1>1, ReadBusy

LEMMA ReadListFollows ==
  ASSUME Inv, Follows, Read, ReadList
  PROVE  BusyFollows' /\ BatchEnds' /\ FeedbackEnds' /\ ShownFollows'
<1>1. M.k = "list" /\ busy' = M.busy /\ UNCHANGED <<sel, shown, batch, observed, feedback>>
  BY DEF ReadList, batchVars, runVars
<1>2. asks \in Seq(Asks) /\ online
  BY AsksAre, ReadLink DEF Inv
<1>3. \/ M.why # "connected" /\ UNCHANGED <<asks, load>>
      \/ M.why = "connected" /\ sel # NoSession /\ LoadAfter(asks, sel)
      \/ M.why = "connected" /\ sel = NoSession /\ UNCHANGED <<asks, load>>
  BY DEF ReadList
<1>4. LoadAfter(asks, sel) =>
        (Asked(asks) => Asked(asks')) /\ (Greets(asks) => Greets(asks')) /\ load' = "sent"
  BY <1>2, LoadAsks
<1>5. (Asked(asks) => Asked(asks')) /\ (Greets(asks) => Greets(asks'))
  BY <1>3, <1>4
<1>6. ASSUME NEW s \in Sessions PROVE s \in busy' <=> IF Fixes(M, s) THEN Tells(M, s) ELSE s \in busy
  <2>1. Fixes(M, s) /\ (Tells(M, s) <=> s \in busy')
    BY <1>1 DEF Fixes, Tells
  <2>2. QED
    BY <2>1, Zenon
<1>7. BusyFollows'
  BY <1>5, <1>6, ReadBusy
<1>8. BatchEnds' /\ FeedbackEnds'
  BY <1>1, ReadKeepsBatch, ReadKeepsFeedback
<1>9. ShownFollows'
  <2>1. CASE M.why # "connected" /\ UNCHANGED <<asks, load>>
    BY <1>1, <1>5, <2>1, ReadKeepsShown
  <2>2. CASE M.why = "connected" /\ sel # NoSession /\ LoadAfter(asks, sel)
    BY <1>1, <1>4, <2>2, ReadReloads DEF Reloads
  <2>3. CASE sel = NoSession
    BY <1>1, <2>3, WorkbenchAssumption DEF ShownFollows, Calm
  <2>4. QED
    BY <1>3, <2>1, <2>2, <2>3
<1>10. QED
  BY <1>7, <1>8, <1>9

LEMMA ReadMessagesFollows ==
  ASSUME Inv, Follows, Read, ReadMessages
  PROVE  BusyFollows' /\ BatchEnds' /\ FeedbackEnds' /\ ShownFollows'
<1>1. /\ M.k = "messages" /\ UNCHANGED <<asks, sel, busy, batch, observed, feedback>>
      /\ (load' = "timer" /\ shown' = shown) \/ (load' = "none" /\ shown' = M.data)
  BY DEF ReadMessages, batchVars, runVars
<1>2. BusyFollows'
  BY <1>1, BusyKept
<1>3. BatchEnds' /\ FeedbackEnds'
  BY <1>1, ReadKeepsBatch, ReadKeepsFeedback
<1>4. ShownFollows'
  BY <1>1, ReadKeepsShown
<1>5. QED
  BY <1>2, <1>3, <1>4

LEMMA ReadSentFollows ==
  ASSUME Inv, Follows, Read, ReadSent
  PROVE  BusyFollows' /\ BatchEnds' /\ FeedbackEnds' /\ ShownFollows'
<1>1. /\ M.k = "sent" /\ UNCHANGED <<sel, shown, busy, batch, load, observed, feedback>>
      /\ asks' = Append(asks, ListFor("sent")) \/ asks' = asks
  BY DEF ReadSent, viewVars, batchVars, loadVars, runVars
<1>2. asks \in Seq(Asks)
  BY AsksAre DEF Inv
<1>3. (Asked(asks) => Asked(asks')) /\ (Greets(asks) => Greets(asks'))
  BY <1>1, <1>2, AsksMore
<1>4. BusyFollows'
  BY <1>1, <1>3, BusyKept
<1>5. BatchEnds' /\ FeedbackEnds'
  BY <1>1, ReadKeepsBatch, ReadKeepsFeedback
<1>6. ShownFollows'
  BY <1>1, <1>3, ReadKeepsShown
<1>7. QED
  BY <1>4, <1>5, <1>6

LEMMA ReadElsewhereFollows ==
  ASSUME Inv, Follows, Read, ReadElsewhere
  PROVE  BusyFollows' /\ BatchEnds' /\ FeedbackEnds' /\ ShownFollows'
<1>1. /\ M.k \in {"delta", "complete", "tool"}
      /\ UNCHANGED <<asks, sel, shown, busy, batch, load, observed, feedback>>
  BY DEF ReadElsewhere, viewVars, batchVars, loadVars, runVars
<1>2. BusyFollows'
  BY <1>1, BusyKept
<1>3. BatchEnds' /\ FeedbackEnds'
  BY <1>1, ReadKeepsBatch, ReadKeepsFeedback
<1>4. ShownFollows'
  BY <1>1, ReadKeepsShown
<1>5. QED
  BY <1>2, <1>3, <1>4

LEMMA ReadTextFollows ==
  ASSUME Inv, Follows, Read, ReadText \/ ReadOther
  PROVE  BusyFollows' /\ BatchEnds' /\ FeedbackEnds' /\ ShownFollows'
<1>1. /\ M.k \in {"delta", "complete", "tool"} /\ M.s = sel
      /\ UNCHANGED <<asks, sel, busy, observed, feedback>>
  BY DEF ReadText, ReadOther, viewVars, runVars
<1>2. sel \in Sessions /\ online' = online /\ UNCHANGED process /\ online
  <2>1. PICK m : m = M
    OBVIOUS
  <2>2. m \in Packets /\ m.k \in {"delta", "complete", "tool"} /\ m.s = sel
    BY <1>1, <2>1, ReadLink
  <2>3. sel \in Sessions
    BY <2>2, KindOf
  <2>4. QED
    BY <2>3, ReadLink DEF serverVars
<1>3. BusyFollows'
  BY <1>1, BusyKept
<1>4. ShownFollows' /\ (process[sel] # 0 \/ Ended(wire', sel))
  BY <1>1, <1>2, ReadOfRun
<1>5. BatchEnds'
  BY <1>1, <1>2, <1>4 DEF BatchEnds
<1>6. FeedbackEnds'
  BY <1>1, ReadKeepsFeedback
<1>7. QED
  BY <1>3, <1>4, <1>5, <1>6

LEMMA ReadUserFollows ==
  ASSUME Inv, Follows, Read, ReadUser
  PROVE  BusyFollows' /\ BatchEnds' /\ FeedbackEnds' /\ ShownFollows'
<1>1. M.k = "user" /\ busy' = busy \cup {M.s} /\ UNCHANGED <<asks, sel, load>>
  BY DEF ReadUser
<1>2. ASSUME NEW s \in Sessions PROVE s \in busy' <=> IF Fixes(M, s) THEN Tells(M, s) ELSE s \in busy
  <2>1. (Fixes(M, s) <=> M.s = s) /\ Tells(M, s)
    BY <1>1 DEF Fixes, Tells
  <2>2. s \in busy' <=> s \in busy \/ s = M.s
    BY <1>1
  <2>3. QED
    BY <2>1, <2>2, Zenon
<1>3. BusyFollows'
  BY <1>1, <1>2, ReadBusy
<1>4. CASE M.s # sel
  <2>1. UNCHANGED <<shown, batch, observed, feedback>>
    BY <1>4 DEF ReadUser, batchVars, runVars
  <2>2. BatchEnds' /\ FeedbackEnds'
    BY <1>1, <2>1, ReadKeepsBatch, ReadKeepsFeedback
  <2>3. ShownFollows'
    BY <1>1, <2>1, ReadKeepsShown
  <2>4. QED
    BY <1>3, <2>2, <2>3
<1>5. CASE M.s = sel
  <2>1. PICK x : x = M.m.id[2]
    OBVIOUS
  <2>2. batch' = <<>> /\ observed' = x /\ feedback' = x
    BY <1>5, <2>1 DEF ReadUser
  <2>3. sel \in Sessions /\ UNCHANGED process
    <3>1. PICK m : m = M
      OBVIOUS
    <3>2. m \in Packets /\ m.k = "user" /\ m.s = sel
      BY <1>1, <1>5, <3>1, ReadLink
    <3>3. sel \in Sessions
      BY <3>2, KindOf
    <3>4. QED
      BY <3>3, ReadLink DEF serverVars
  <2>4. process[sel] = x \/ EndedRun(wire', sel, x)
    BY <1>1, <1>5, <2>1, <2>3, EndBehind
  <2>5. FeedbackEnds'
    BY <1>1, <2>2, <2>3, <2>4 DEF FeedbackEnds
  <2>6. BatchEnds'
    BY <2>2 DEF BatchEnds
  <2>7. ShownFollows'
    BY <1>1, <1>5, <2>3, ReadOfRun
  <2>8. QED
    BY <1>3, <2>5, <2>6, <2>7
<1>6. QED
  BY <1>4, <1>5

LEMMA ReadStatusFollows ==
  ASSUME Inv, Follows, Read, ReadStatus
  PROVE  BusyFollows' /\ BatchEnds' /\ FeedbackEnds' /\ ShownFollows'
<1>1. M.k = "status" /\ busy' = busy \ {M.s} /\ UNCHANGED sel
  BY DEF ReadStatus
<1>2. asks \in Seq(Asks) /\ online
  BY AsksAre, ReadLink DEF Inv
<1>3. PICK q : q = Append(asks, ListFor("status"))
  OBVIOUS
<1>4. q \in Seq(Asks) /\ (Asked(asks) => Asked(q)) /\ (Greets(asks) => Greets(q))
  <2>1. ListFor("status") \in Asks
    BY DEF ListFor, Asks, Whys
  <2>2. q \in Seq(Asks)
    BY <1>2, <1>3, <2>1
  <2>3. QED
    BY <1>2, <1>3, <2>2, AsksMore
<1>5. \/ M.s # sel /\ asks' = q /\ UNCHANGED <<shown, batch, load, observed, feedback>>
      \/ /\ M.s = sel /\ LoadAfter(q, sel) /\ batch' = <<>>
         /\ IF observed \in {0, M.r} THEN feedback' = 0 ELSE UNCHANGED <<observed, feedback>>
  BY <1>3 DEF ReadStatus, batchVars, loadVars, runVars, FlushBatch, Flush
<1>6. LoadAfter(q, sel) =>
        (Asked(q) => Asked(asks')) /\ (Greets(q) => Greets(asks')) /\ load' = "sent"
  BY <1>2, <1>4, LoadAsks
<1>7. (Asked(asks) => Asked(asks')) /\ (Greets(asks) => Greets(asks'))
  BY <1>4, <1>5, <1>6
<1>8. ASSUME NEW s \in Sessions PROVE s \in busy' <=> IF Fixes(M, s) THEN Tells(M, s) ELSE s \in busy
  <2>1. (Fixes(M, s) <=> M.s = s) /\ ~Tells(M, s)
    BY <1>1 DEF Fixes, Tells
  <2>2. s \in busy' <=> s \in busy /\ s # M.s
    BY <1>1
  <2>3. QED
    BY <2>1, <2>2, Zenon
<1>9. BusyFollows'
  BY <1>7, <1>8, ReadBusy
<1>10. CASE M.s # sel
  <2>1. UNCHANGED <<shown, batch, load, observed, feedback>>
    BY <1>5, <1>10
  <2>2. BatchEnds' /\ FeedbackEnds'
    BY <1>1, <1>10, <2>1, ReadKeepsBatch, ReadKeepsFeedback
  <2>3. ShownFollows'
    BY <1>1, <1>7, <1>10, <2>1, ReadKeepsShown
  <2>4. QED
    BY <1>9, <2>2, <2>3
<1>11. CASE M.s = sel
  <2>1. batch' = <<>> /\ load' = "sent"
    BY <1>5, <1>6, <1>11
  <2>2. BatchEnds'
    BY <2>1 DEF BatchEnds
  <2>3. ShownFollows'
    BY <1>1, <1>11, <2>1, ReadReloads DEF Reloads
  <2>4. FeedbackEnds'
    <3>1. CASE observed \in {0, M.r}
      BY <1>5, <1>11, <3>1 DEF FeedbackEnds
    <3>2. CASE observed \notin {0, M.r}
      BY <1>1, <1>5, <1>11, <3>2, ReadKeepsFeedback
    <3>3. QED
      BY <3>1, <3>2
  <2>5. QED
    BY <1>9, <2>2, <2>3, <2>4
<1>12. QED
  BY <1>10, <1>11

LEMMA ReadFollows ==
  ASSUME Inv, Follows, Read
  PROVE  Follows'
<1>1. BusyFollows' /\ BatchEnds' /\ FeedbackEnds' /\ ShownFollows'
  <2>1. \/ ReadList \/ ReadMessages \/ ReadSent \/ ReadUser
        \/ ReadText \/ ReadOther \/ ReadElsewhere \/ ReadStatus
    BY DEF Read
  <2>2. QED
    BY <2>1, ReadListFollows, ReadMessagesFollows, ReadSentFollows, ReadUserFollows,
       ReadTextFollows, ReadElsewhereFollows, ReadStatusFollows
<1>2. QED
  BY <1>1, ReadServer DEF Follows

LEMMA FollowsInit == Init => Follows
<1> SUFFICES ASSUME Init PROVE Follows
  OBVIOUS
<1>1. \A s \in Sessions : unsent[s] = NoEvent
  BY DEF Init
<1>2. RunsUnsent
  BY <1>1 DEF RunsUnsent, RunOf
<1>3. EndsFollow
  BY NothingThere DEF Init, EndsFollow
<1>4. BusyFollows /\ BatchEnds /\ FeedbackEnds /\ ShownFollows
  BY DEF Init, BusyFollows, BatchEnds, FeedbackEnds, ShownFollows, Calm
<1>5. QED
  BY <1>2, <1>3, <1>4 DEF Follows

LEMMA FollowsNext == Inv /\ Follows /\ [Next]_vars => Follows'
<1> SUFFICES ASSUME Inv, Follows, [Next]_vars PROVE Follows'
  OBVIOUS
<1>1. CASE Next
  <2>1. ASSUME NEW s \in Sessions, OtherSends(s) PROVE Follows'
    BY <2>1, OtherSendsFollows
  <2>2. ASSUME NEW s \in Sessions,
               ConsumeDelta(s) \/ ConsumeComplete(s) \/ ConsumeTool(s) \/ FlushLast(s)
        PROVE  Follows'
    BY <2>2, ConsumeFollows
  <2>3. ASSUME NEW s \in Sessions, Emit(s) PROVE Follows'
    BY <2>3, EmitFollows
  <2>4. ASSUME NEW s \in Sessions, Select(s) PROVE Follows'
    BY <2>4, SelectFollows
  <2>5. QED
    BY <1>1, <2>1, <2>2, <2>3, <2>4, AnswerFollows, BatchTimerFollows, RetryTimerFollows,
       SelectionEffectFollows, SendFollows, ReadFollows, ConnectFollows, DropFollows DEF Next
<1>2. CASE UNCHANGED vars
  BY <1>2, WindowActs DEF vars, linkVars, viewVars, batchVars, loadVars, runVars
<1>3. QED
  BY <1>1, <1>2

LEMMA FollowsTells == Inv /\ Follows => QuietIsTrue
<1> SUFFICES ASSUME Inv, Follows, online, Settled
             PROVE  /\ busy = {s \in Sessions : process[s] # 0}
                    /\ sel # NoSession /\ process[sel] = 0 => shown = stored[sel] /\ feedback = 0
  BY DEF QuietIsTrue
<1>1. asks = <<>> /\ wire = <<>> /\ load = "none" /\ \A s \in Sessions : unsent[s] = NoEvent
  BY DEF Settled
<1>2. ~Asked(asks) /\ ~Greets(asks) /\ ~Greets(wire) /\ ~Ended(wire, sel) /\ \A r : ~EndedRun(wire, sel, r)
  BY <1>1, NothingThere DEF Asked, Greets, Ended, EndedRun
<1>3. ASSUME NEW s \in Sessions PROVE s \in busy <=> process[s] # 0
  <2>1. unsent[s].k # "user"
    BY <1>1, NoEventIs
  <2>2. Ends(<<>>, s, busy, process[s])
    BY <1>1, <1>2, <2>1 DEF Follows, BusyFollows
  <2>3. QED
    BY <2>2, NothingThere
<1>4. busy \subseteq Sessions
  BY DEF Inv, RestOK
<1>5. busy = {s \in Sessions : process[s] # 0}
  BY <1>3, <1>4
<1>6. ASSUME sel # NoSession, process[sel] = 0 PROVE shown = stored[sel] /\ feedback = 0
  <2>1. sel \in Sessions
    BY <1>6 DEF Inv, SelectionOK
  <2>2. Calm
    BY <1>2, <1>6, <2>1 DEF Calm
  <2>3. shown = stored[sel]
    BY <1>1, <2>2 DEF Follows, ShownFollows
  <2>4. feedback = 0
    BY <1>2, <1>6 DEF Follows, FeedbackEnds
  <2>5. QED
    BY <2>3, <2>4
<1>7. QED
  BY <1>5, <1>6

(* Once nothing is under way, a connected window shows as busy exactly the *)
(* sessions that have a run, and of an idle selected session exactly what  *)
(* its file holds and no run, whatever events lost connections took away   *)
(* (loadMessages and refresh after a status and after a connection).       *)
THEOREM QuietTellsTheTruth == Spec => []QuietIsTrue
<1>1. Inv /\ Follows /\ [Next]_vars => (Inv /\ Follows)'
  BY InvNext, FollowsNext
<1>2. Spec => [](Inv /\ Follows)
  BY <1>1, InvInit, FollowsInit, PTL DEF Spec
<1>3. QED
  BY <1>2, FollowsTells, PTL
=============================================================================
