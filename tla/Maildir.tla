------------------------------ MODULE Maildir -------------------------------
(***************************************************************************)
(* A maildir between the deliveries of qmail-local (maildir_child in       *)
(* qmail-local.c) and the sessions of qmail-pop3d (with maildir.c).  A     *)
(* file is named after the second in which its delivery began and the pid; *)
(* a pid is taken not to come twice in a second, so that the name of a     *)
(* message is its delivery: n stands for it in tmp/, new/ and cur/.        *)
(*                                                                         *)
(* A unit of time is half a day for the alarm and for the age at which     *)
(* maildir_clean removes a file, and a second for the times in new/ and    *)
(* cur/: only their order matters.  Directories are written synchronously; *)
(* the data of a file is safe after fsync().                               *)
(***************************************************************************)
EXTENDS Naturals

CONSTANTS
  Mail,         \* deliveries
  Session,      \* qmail-pop3d processes
  Alarm,        \* 86400 s: the life of a delivery
  OldFile,      \* 129600 s: the age of a file that is left over in tmp/
  MaxClock,     \* bound: the time
  MaxCrash      \* bound: crashes of the machine

ASSUME MaildirAssumption ==
  /\ MaxClock \in Nat /\ MaxCrash \in Nat
  /\ Alarm \in Nat /\ OldFile \in Nat /\ Alarm < OldFile

VARIABLES
  time,         \* now()
  tmp, new, cur,\* the messages with a file there
  data,         \* data[n]: "none", "part", "whole" or "synced"
  began,        \* began[n]: when the delivery began
  stamp,        \* stamp[n]: time of the last write, st_mtime
  step,         \* step[n]: "todo", "write", "fsync", "link", "unlink", "over"
  result,       \* result[n]: "", "ok" (exit 0) or "temp", as qmail-local sees it
  pop,          \* pop[s]: "idle", "new" and "cur" (to be scanned), "open", "quit"
  since,        \* since[s]: time of the scan
  list,         \* list[s]: entries <<directory, message>> of the session
  dele,         \* dele[s]: those with flagdeleted
  there,        \* history: messages that were there when the scan began
  removed,      \* history: messages that a client has deleted
  crashes

dirs == <<tmp, new, cur>>
mails == <<data, began, stamp, step, result>>
pops == <<pop, since, list, dele, there>>
mdVars == <<time, dirs, mails, pops, removed, crashes>>

NoSessions ==
  /\ pop' = [s \in Session |-> "idle"] /\ since' = [s \in Session |-> 0]
  /\ list' = [s \in Session |-> {}] /\ dele' = [s \in Session |-> {}]
  /\ there' = [s \in Session |-> {}]

MaildirInit ==
  /\ time = 0 /\ removed = {} /\ crashes = 0
  /\ tmp = {} /\ new = {} /\ cur = {}
  /\ data = [n \in Mail |-> "none"] /\ began = [n \in Mail |-> 0]
  /\ stamp = [n \in Mail |-> 0] /\ step = [n \in Mail |-> "todo"]
  /\ result = [n \in Mail |-> ""]
  /\ pop = [s \in Session |-> "idle"] /\ since = [s \in Session |-> 0]
  /\ list = [s \in Session |-> {}] /\ dele = [s \in Session |-> {}]
  /\ there = [s \in Session |-> {}]

Live == {n \in Mail : step[n] \notin {"todo", "over"}}

-----------------------------------------------------------------------------
(* maildir_child(): a name that is not in tmp/, alarm(), open_excl().      *)
Open(n) ==
  /\ step[n] = "todo" /\ step' = [step EXCEPT ![n] = "write"]
  /\ tmp' = tmp \union {n} /\ data' = [data EXCEPT ![n] = "part"]
  /\ began' = [began EXCEPT ![n] = time] /\ stamp' = [stamp EXCEPT ![n] = time]
  /\ UNCHANGED <<time, new, cur, result, pops, removed, crashes>>

(* The message is copied and flushed.                                      *)
Copy(n) ==
  /\ step[n] = "write" /\ step' = [step EXCEPT ![n] = "fsync"]
  /\ data' = [data EXCEPT ![n] = "whole"] /\ stamp' = [stamp EXCEPT ![n] = time]
  /\ UNCHANGED <<time, dirs, began, result, pops, removed, crashes>>

SyncFile(n) ==
  /\ step[n] = "fsync" /\ step' = [step EXCEPT ![n] = "link"]
  /\ data' = [data EXCEPT ![n] = "synced"]
  /\ UNCHANGED <<time, dirs, began, stamp, result, pops, removed, crashes>>

LinkNew(n) ==
  /\ step[n] = "link" /\ n \in tmp
  /\ new' = new \union {n} /\ step' = [step EXCEPT ![n] = "unlink"]
  /\ UNCHANGED <<time, tmp, cur, data, began, stamp, result, pops, removed, crashes>>

(* tryunlinktmp() and _exit(), as qmail-local hears of it.                 *)
Exits(n, r) ==
  /\ step' = [step EXCEPT ![n] = "over"] /\ result' = [result EXCEPT ![n] = r]

Delivered(n) ==
  /\ step[n] = "unlink" /\ tmp' = tmp \ {n} /\ Exits(n, "ok")
  /\ UNCHANGED <<time, new, cur, data, began, stamp, pops, removed, crashes>>

(* A failed call: the file is removed, exit 1 or 4.                        *)
FailMail(n) ==
  /\ step[n] \in {"write", "fsync", "link"} /\ tmp' = tmp \ {n} /\ Exits(n, "temp")
  /\ UNCHANGED <<time, new, cur, data, began, stamp, pops, removed, crashes>>

(* sigalrm(), wherever the child is: the file is removed, exit 3.          *)
SigAlarm(n) ==
  /\ n \in Live /\ time >= began[n] + Alarm /\ tmp' = tmp \ {n} /\ Exits(n, "temp")
  /\ UNCHANGED <<time, new, cur, data, began, stamp, pops, removed, crashes>>

(* The child is killed, and qmail-local says so.                           *)
Killed(n) ==
  /\ n \in Live /\ Exits(n, "temp")
  /\ UNCHANGED <<time, dirs, data, began, stamp, pops, removed, crashes>>

-----------------------------------------------------------------------------
(* getlist(): maildir_clean(); the time of the scan is taken.              *)
StaleAtAlarm == {n \in tmp : time >= began[n] + Alarm}   \* mutant
Stale == {n \in tmp : time > began[n] + OldFile}

GetList(s) ==
  /\ pop[s] = "idle" /\ pop' = [pop EXCEPT ![s] = "new"]
  /\ tmp' = tmp \ Stale
  /\ since' = [since EXCEPT ![s] = time]
  /\ there' = [there EXCEPT ![s] = {n \in new \union cur : stamp[n] < time}]
  /\ UNCHANGED <<time, new, cur, mails, list, dele, removed, crashes>>

(* append(): the files of a directory that are older than the scan.        *)
Scan(s, dir, files) ==
  list' = [list EXCEPT ![s] = @ \union {<<dir, n>> : n \in {m \in files : stamp[m] < since[s]}}]

ScanNew(s) ==
  /\ pop[s] = "new" /\ pop' = [pop EXCEPT ![s] = "cur"] /\ Scan(s, "new", new)
  /\ UNCHANGED <<time, dirs, mails, since, dele, there, removed, crashes>>

ScanCur(s) ==
  /\ pop[s] = "cur" /\ pop' = [pop EXCEPT ![s] = "open"] /\ Scan(s, "cur", cur)
  /\ UNCHANGED <<time, dirs, mails, since, dele, there, removed, crashes>>

Pop3Dele(s, e) ==
  /\ pop[s] = "open" /\ e \in list[s] \ dele[s]
  /\ dele' = [dele EXCEPT ![s] = @ \union {e}]
  /\ UNCHANGED <<time, dirs, mails, pop, since, list, there, removed, crashes>>

Pop3Rset(s) ==
  /\ pop[s] = "open" /\ dele[s] # {} /\ dele' = [dele EXCEPT ![s] = {}]
  /\ UNCHANGED <<time, dirs, mails, pop, since, list, there, removed, crashes>>

Pop3Quit(s) ==
  /\ pop[s] = "open" /\ pop' = [pop EXCEPT ![s] = "quit"]
  /\ UNCHANGED <<time, dirs, mails, since, list, dele, there, removed, crashes>>

(* One message in QUIT: unlink() if it is deleted, rename() to cur/ if it  *)
(* is in new/.  Both may fail because another session was first.           *)
QuitUnlink(s, e) ==
  /\ pop[s] = "quit" /\ e \in list[s] \cap dele[s]
  /\ IF e[1] = "new" THEN new' = new \ {e[2]} /\ UNCHANGED cur
                     ELSE cur' = cur \ {e[2]} /\ UNCHANGED new
  /\ removed' = IF e[2] \in (IF e[1] = "new" THEN new ELSE cur)
                  THEN removed \union {e[2]} ELSE removed
  /\ list' = [list EXCEPT ![s] = @ \ {e}]
  /\ UNCHANGED <<time, tmp, mails, pop, since, dele, there, crashes>>

QuitRename(s, e) ==
  /\ pop[s] = "quit" /\ e \in list[s] \ dele[s] /\ e[1] = "new"
  /\ IF e[2] \in new THEN new' = new \ {e[2]} /\ cur' = cur \union {e[2]}
                     ELSE UNCHANGED <<new, cur>>
  /\ list' = [list EXCEPT ![s] = @ \ {e}]
  /\ UNCHANGED <<time, tmp, mails, pop, since, dele, there, removed, crashes>>

(* The session ends: after QUIT, or because the client hangs up.           *)
Pop3Die(s) ==
  /\ pop[s] # "idle" /\ pop' = [pop EXCEPT ![s] = "idle"]
  /\ since' = [since EXCEPT ![s] = 0] /\ list' = [list EXCEPT ![s] = {}]
  /\ dele' = [dele EXCEPT ![s] = {}] /\ there' = [there EXCEPT ![s] = {}]
  /\ UNCHANGED <<time, dirs, mails, removed, crashes>>

-----------------------------------------------------------------------------
(* Time goes on; an alarm that is due comes first.                         *)
MaildirTick ==
  /\ time < MaxClock /\ \A n \in Live : time < began[n] + Alarm
  /\ time' = time + 1
  /\ UNCHANGED <<dirs, mails, pops, removed, crashes>>

(* The machine crashes: data that has not been synced is lost.             *)
MachineCrash ==
  /\ crashes < MaxCrash /\ crashes' = crashes + 1
  /\ data' = [n \in Mail |-> IF data[n] = "whole" THEN "part" ELSE data[n]]
  /\ step' = [n \in Mail |-> IF n \in Live THEN "over" ELSE step[n]]
  /\ result' = [n \in Mail |-> IF n \in Live THEN "temp" ELSE result[n]]
  /\ NoSessions
  /\ UNCHANGED <<time, dirs, began, stamp, removed>>

MaildirNext ==
  \/ \E n \in Mail :
       \/ Open(n) \/ Copy(n) \/ SyncFile(n) \/ LinkNew(n) \/ Delivered(n)
       \/ FailMail(n) \/ SigAlarm(n) \/ Killed(n)
  \/ \E s \in Session :
       \/ GetList(s) \/ ScanNew(s) \/ ScanCur(s) \/ Pop3Rset(s) \/ Pop3Quit(s)
       \/ \E e \in list[s] : Pop3Dele(s, e) \/ QuitUnlink(s, e) \/ QuitRename(s, e)
       \/ Pop3Die(s)
  \/ MaildirTick \/ MachineCrash

MaildirSpec == MaildirInit /\ [][MaildirNext]_mdVars

-----------------------------------------------------------------------------
(* A delivery that was reported as done has its whole message on disk in   *)
(* new/ or cur/ until a client who has it on the list deletes it, though   *)
(* sessions move and delete files at the same time and machines crash.     *)
Kept ==
  \A n \in Mail : result[n] = "ok" /\ n \notin removed =>
    data[n] = "synced" /\ n \in new \union cur

(* Readers see whole messages only.                                        *)
WholeOnly == \A n \in new \union cur : data[n] = "synced"

(* maildir_clean never removes the file of a delivery that goes on.        *)
CleanSpares == Live \subseteq tmp

(* A session lists every message that was there before its scan, though    *)
(* others move messages from new/ to cur/ while it scans.                  *)
AllListed ==
  \A s \in Session : pop[s] = "open" =>
    \A n \in there[s] \ removed : \E e \in list[s] : e[2] = n

(* The four together: nobody loses a message that was reported delivered, *)
(* sees half a message, or is told less than what is there.               *)
MaildirSafe == Kept /\ WholeOnly /\ CleanSpares /\ AllListed
=============================================================================
