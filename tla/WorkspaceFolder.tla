--------------------------- MODULE WorkspaceFolder ---------------------------
(***************************************************************************)
(* A workspace as a folder that is opened, used, closed and moved:         *)
(* workspace.json, the directories and files of the sessions, and what a   *)
(* start, a list, a load, a save and a new session make of them.           *)
(*                                                                         *)
(* A save of a session is one action (SessionStore shows why it may be);   *)
(* it goes to the root that the header names, which is where the session   *)
(* was made.  Of a header only what decides is kept: whether it fits into  *)
(* the 8192 bytes that the list reads, the root, the working directory,    *)
(* the archive mark, and whether its last run is said to be running.       *)
(***************************************************************************)
EXTENDS Naturals, Sequences, Picks

CONSTANTS
  Roots,       \* the directories in which the workspace can be
  Bases,       \* date and slug of a session id
  MaxSuffix,   \* bound on the sessions of one base
  MaxMessages, \* bound on the messages
  MaxMoves, MaxFailures

VARIABLES
  place,   \* the directory in which it is
  folder,  \* of each directory: [config, sessions]
  host,    \* "off" or "open"
  making,  \* sessions whose first save is under way
  active,  \* sessions with a run
  known,   \* history: the id under which the workspace was opened first
  born,    \* history: sessions whose first save has ended, not deleted since
  sent,    \* history: the messages whose save has ended
  unended, \* history: sessions whose last run ended without a save
  damaged, \* history: messages and headers (0) that something made unreadable
  count, moves, failures

folderVars == <<place, folder, host, making, active, known, born, sent, unended, damaged,
                count, moves, failures>>
histories == <<known, born, sent, unended, damaged>>
bounds == <<count, moves, failures>>

Ids == Bases \X (1..MaxSuffix)
Here == "own"   \* the token for the directory of the session itself

NoSession == [is |-> "none", header |-> "short", root |-> "none", work |-> Here,
              archived |-> FALSE, run |-> "none", lines |-> <<>>]
OnlyDirectory == [NoSession EXCEPT !.is = "directory"]
NoFolder == [config |-> "none", id |-> 0, sessions |-> [i \in Ids |-> NoSession]]

FolderInit ==
  /\ place \in Roots /\ folder = [r \in Roots |-> NoFolder] /\ host = "off"
  /\ making = {} /\ active = {} /\ known = 0 /\ born = {} /\ unended = {}
  /\ sent = [i \in Ids |-> <<>>] /\ damaged = {}
  /\ count = 0 /\ moves = 0 /\ failures = 0

-----------------------------------------------------------------------------
(* Reading *)

Sessions == folder[place].sessions
Directories == {i \in Ids : Sessions[i].is # "none"}
Loads(i) == Sessions[i].is = "file" /\ Sessions[i].header # "bad"
Readable(lines) == Picked(lines, {n \in DOMAIN lines : lines[n].readable})
Messages(i) == Readable(Sessions[i].lines)
Headers == {i \in Ids : Sessions[i].is = "file" /\ Sessions[i].header = "short"}
SessionList == {i \in Headers : ~Sessions[i].archived}

(* Paths: {{SESSION_PATH}} stands for the directory of the file.           *)
Portable(path, dir) == IF path = dir THEN Here ELSE path
Expanded(path, dir) == IF path = Here THEN dir ELSE path

(* writeSnapshot, for what a load at this place gave: the root is the one  *)
(* of the header.                                                          *)
Saved(f, i, session) ==
  [f EXCEPT ![session.root].sessions[i] =
     [session EXCEPT !.work = Portable(Expanded(session.work, place), session.root)]]
Session(i) == [Sessions[i] EXCEPT !.lines = Messages(i)]

-----------------------------------------------------------------------------
(* The start: the workspace is loaded or made, and runs that the end of    *)
(* the process cut off are marked.  A workspace.json that was cut off      *)
(* itself can neither be loaded nor made again.                            *)
Interrupted == {i \in Headers : Sessions[i].run = "running"}
Recovered ==
  [r \in Roots |-> [folder[r] EXCEPT !.sessions = [i \in Ids |->
     IF i \in Interrupted /\ Sessions[i].root = r
     THEN Saved(folder, i, [Session(i) EXCEPT !.run = "ended"])[r].sessions[i]
     ELSE @[i]]]]

StartLoaded ==
  /\ host = "off" /\ folder[place].config = "whole"
  /\ host' = "open" /\ folder' = Recovered
  /\ known' = (IF known = 0 THEN folder[place].id ELSE known)
  /\ UNCHANGED <<place, making, active, born, sent, unended, damaged>> /\ UNCHANGED bounds

StartMade ==
  /\ host = "off" /\ folder[place].config = "none"
  /\ folder' = [folder EXCEPT ![place].config = "whole", ![place].id = known + 1]
  /\ host' = "open" /\ known' = known + 1
  /\ UNCHANGED <<place, making, active, born, sent, unended, damaged>> /\ UNCHANGED bounds

StartCut ==
  /\ host = "off" /\ folder[place].config = "none" /\ failures < MaxFailures
  /\ folder' = [folder EXCEPT ![place].config = "cut"] /\ failures' = failures + 1
  /\ UNCHANGED <<place, host, making, active, count, moves>> /\ UNCHANGED histories

Stop ==
  /\ host = "open" /\ host' = "off" /\ making' = {} /\ active' = {}
  /\ UNCHANGED <<place, folder>> /\ UNCHANGED histories /\ UNCHANGED bounds

(* Variant with a fault: only what the user sees is avoided.               *)
UniqueIdsListed(existing) ==
  {i \in Ids : i \notin SessionList /\ \A n \in 1..(i[2] - 1) : <<i[1], n>> \in SessionList}

(* generateUniqueSessionId *)
UniqueIds(existing) ==
  {i \in Ids : i \notin existing /\ \A n \in 1..(i[2] - 1) : <<i[1], n>> \in existing}

(* createSession: the directory at once, then the first save.              *)
Create(i) ==
  /\ host = "open" /\ i \in UniqueIds(Directories)
  /\ folder' = [folder EXCEPT ![place].sessions[i] =
                  IF @.is = "none" THEN OnlyDirectory ELSE @]
  /\ making' = making \cup {i}
  /\ UNCHANGED <<place, host, active>> /\ UNCHANGED histories /\ UNCHANGED bounds
Created(i) ==
  /\ i \in making /\ making' = making \ {i} /\ born' = born \cup {i}
  /\ folder' = Saved(folder, i, [NoSession EXCEPT !.is = "file", !.root = place, !.work = place])
  /\ UNCHANGED <<place, host, active, known, sent, unended, damaged>> /\ UNCHANGED bounds
CreateFailed(i) ==
  /\ i \in making /\ failures < MaxFailures
  /\ making' = making \ {i} /\ failures' = failures + 1
  /\ UNCHANGED <<place, folder, host, active, count, moves>> /\ UNCHANGED histories

(* mutateSession *)
Mutates(i, session) == host = "open" /\ Loads(i) /\ folder' = Saved(folder, i, session)
Line(m) == [message |-> m, readable |-> TRUE]

(* The message and the mark of the run go into one save.                   *)
Submit(i) ==
  /\ i \in born \ active /\ count < MaxMessages
  /\ Mutates(i, [Session(i) EXCEPT !.run = "running", !.header = "short",
                                   !.lines = Append(@, Line(count + 1))])
  /\ active' = active \cup {i} /\ count' = count + 1
  /\ sent' = [sent EXCEPT ![i] = Append(@, count + 1)] /\ unended' = unended \ {i}
  /\ UNCHANGED <<place, host, making, known, born, damaged, moves, failures>>

(* The end of the run is stored with its error, which may be long.         *)
EndRun(i, length) ==
  /\ i \in active /\ active' = active \ {i}
  /\ Mutates(i, [Session(i) EXCEPT !.run = "ended", !.header = length])
  /\ UNCHANGED <<place, host, making>> /\ UNCHANGED histories /\ UNCHANGED bounds
EndRunUnsaved(i) ==
  /\ i \in active /\ active' = active \ {i} /\ host = "open"
  /\ Loads(i) => failures < MaxFailures /\ failures' = failures + 1
  /\ ~Loads(i) => UNCHANGED failures
  /\ unended' = unended \cup {i}
  /\ UNCHANGED <<place, folder, host, making, known, born, sent, damaged, count, moves>>

Archive(i, flag) ==
  /\ i \in born /\ Sessions[i].archived # flag
  /\ Mutates(i, [Session(i) EXCEPT !.archived = flag])
  /\ UNCHANGED <<place, host, making, active>> /\ UNCHANGED histories /\ UNCHANGED bounds

Delete(i) ==
  /\ host = "open" /\ i \in born \ active
  /\ folder' = [folder EXCEPT ![place].sessions[i] = NoSession]
  /\ born' = born \ {i} /\ sent' = [sent EXCEPT ![i] = <<>>] /\ damaged' = damaged \ {<<i, 0>>}
  /\ UNCHANGED <<place, host, making, active, known, unended>> /\ UNCHANGED bounds

-----------------------------------------------------------------------------
(* The world: a line becomes unreadable, the folder is moved.              *)

Damage(i, n) ==
  /\ failures < MaxFailures /\ failures' = failures + 1
  /\ Sessions[i].is = "file"
  /\ IF n = 0
     THEN /\ folder' = [folder EXCEPT ![place].sessions[i].header = "bad"]
          /\ damaged' = damaged \cup {<<i, 0>>}
     ELSE /\ n \in DOMAIN Sessions[i].lines
          /\ folder' = [folder EXCEPT ![place].sessions[i].lines[n].readable = FALSE]
          /\ damaged' = damaged \cup {<<i, Sessions[i].lines[n].message>>}
  /\ UNCHANGED <<place, host, making, active, known, born, sent, unended, count, moves>>

MoveFolder(r) ==
  /\ host = "off" /\ moves < MaxMoves /\ moves' = moves + 1
  /\ r # place /\ folder[r] = NoFolder
  /\ place' = r /\ folder' = [folder EXCEPT ![r] = folder[place], ![place] = NoFolder]
  /\ UNCHANGED <<host, making, active, count, failures>> /\ UNCHANGED histories

FolderNext ==
  \/ StartLoaded \/ StartMade \/ StartCut \/ Stop
  \/ \E i \in Ids :
       \/ Create(i) \/ Created(i) \/ CreateFailed(i)
       \/ Submit(i) \/ EndRunUnsaved(i) \/ Delete(i)
       \/ \E length \in {"short", "long"} : EndRun(i, length)
       \/ \E flag \in BOOLEAN : Archive(i, flag)
       \/ \E n \in 0..MaxMessages : Damage(i, n)
  \/ \E r \in Roots : MoveFolder(r)

FolderSpec == FolderInit /\ [][FolderNext]_folderVars

-----------------------------------------------------------------------------
Undamaged(i) == Picked(sent[i], {n \in DOMAIN sent[i] : <<i, sent[i][n]>> \notin damaged})
Contents(lines) == [n \in DOMAIN lines |-> lines[n].message]
KeepsAll(i) == Loads(i) /\ Contents(Messages(i)) = Undamaged(i)
Whole == {i \in born : <<i, 0>> \notin damaged}

(* In an open workspace every session that was made and not deleted has    *)
(* its file, every message that was saved and is readable, in order, and   *)
(* the directory of this place to work in, unless its header became        *)
(* unreadable; it is listed unless it is archived or its header is too     *)
(* long; and no run is said to be going on that is not, unless its end     *)
(* could not be saved.  Nothing else is listed, and the workspace keeps    *)
(* its id.  Of a session that was made in another place before the folder  *)
(* was moved only what was there then is sure (createSession, loadSession, *)
(* listSessionHeaders, recoverWorkspace, startRuntime).                    *)
FolderIsTrue ==
  host = "open" =>
    /\ \A i \in Whole : Loads(i) /\ Expanded(Sessions[i].work, place) = place
    /\ \A i \in Whole :
         /\ Sessions[i].root = place => KeepsAll(i)
         /\ i \in SessionList <=> ~Sessions[i].archived /\ Sessions[i].header = "short"
         /\ Sessions[i].root = place /\ Sessions[i].run = "running" => i \in active \cup unended
    /\ SessionList \subseteq born
    /\ folder[place].id = known

(* jsonl.ts:9 says that session folders survive moves: what is sent to a   *)
(* session after a move is in the session like all the rest.               *)
MovedSessionsKeepAll == host = "open" => \A i \in Whole : KeepsAll(i)
=============================================================================
