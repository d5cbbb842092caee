------------------------------ MODULE QueueDir ------------------------------
(***************************************************************************)
(* The queue directory of netqmail and the three programs that write to    *)
(* it: any number of qmail-queue processes, one qmail-send and its         *)
(* qmail-clean.  A message is known by the inode number of its mess/ file; *)
(* the directories say which of the states S1 to S5 of INTERNALS it is in. *)
(*                                                                         *)
(* A step is one system call that changes a directory, or one fsync: any   *)
(* process may die, and any other process may run, between two steps.      *)
(* Directory operations are durable when they return (INTERNALS, section   *)
(* 1: the filesystem is crashproof); what has been written to a file is    *)
(* durable from the fsync on, and the sets body, env and fsynced hold only *)
(* what has reached the disk.  A crash of the computer is therefore the    *)
(* death of every process with nothing in between.                         *)
(*                                                                         *)
(* How a recipient is delivered to is the subject of QmailSend; here all   *)
(* the deliveries of one local/ or remote/ file are the action Delivered.  *)
(***************************************************************************)
EXTENDS Naturals, FiniteSets

CONSTANTS
  Id,         \* inode numbers of mess/ and pid/ files
  Msg,        \* messages; each is brought by a qmail-queue process of its own
  Chan,       \* the channels, local and remote
  None,       \* no such file, no such message, no such inode
  DEATH,      \* qmail-queue sets its alarm to this age
  Slack,      \* the longest time from the alarm to the death of the process
  OSSIFIED,   \* qmail-send may remove what is older than this
  MaxFaults   \* bound: deaths of daemons and failed calls in one behaviour

(* "must be below q-s's OSSIFIED": not only the alarm but the death of the *)
(* process has to come before the cleanup.                                 *)
ASSUME TimeAssumption ==
  /\ DEATH \in Nat /\ Slack \in Nat /\ OSSIFIED \in Nat /\ MaxFaults \in Nat
  /\ DEATH + Slack < OSSIFIED

ASSUME NoneAssumption == None \notin Id /\ None \notin Msg

VARIABLES
  pc,         \* pc[m]: where the qmail-queue process of m is
  ino,        \* ino[m]: its messnum, None before pidopen
  age,        \* age[m]: seconds since it set its alarm
  pidf,       \* pidf[i]: whose pid/ file has inode i
  mess,       \* mess[i]: the message in mess/i
  intd,       \* intd[i]: the message whose envelope is in intd/i
  todo,       \* todo[i]: the message whose envelope is in todo/i
  info,       \* info[i]: the message whose sender is in info/i
  chan,       \* chan[c][i]: the message whose recipients are in local/i, remote/i
  bounce,     \* bounce[i]: the message whose failures are in bounce/i
  fage,       \* fage[i]: age of the file with inode i, no further than OSSIFIED + 1
  body,       \* messages whose text is on disk
  env,        \* messages whose envelope is on disk
  fsynced,    \* messages whose info/, local/ and remote/ files are on disk
  spc,        \* where qmail-send is
  sid,        \* the message number it works on
  sroute,     \* todo_do: channels still to unlink, then the channels created
  todofd,     \* todo_do: the message whose envelope its open descriptor of todo/ reads
  unscanned,  \* pqstart: entries of info/ still to add
  pqchan,     \* pqchan[c]: message numbers in the queue of channel c, or in a job
  pqdone,     \* message numbers waiting for messdone
  exitasap,   \* flagexitasap
  cpc,        \* where qmail-clean is
  creq,       \* the request it has been sent
  cid,        \* and the message number in it
  creply,     \* its answer
  faults,     \* failures so far
  accepted,   \* history: messages that were linked into todo/
  committed,  \* history: messages whose todo_do came to its end
  routed,     \* history: channels of the recipients of a committed message
  finished    \* history: channels in which all recipients are DONE

qvars == <<pc, ino, age>>
dirs  == <<pidf, mess, intd, todo, info, chan, bounce>>
disk  == <<body, env, fsynced>>
svars == <<spc, sid, sroute, todofd, unscanned, pqchan, pqdone, exitasap>>
cvars == <<cpc, creq, cid, creply>>
hist  == <<accepted, committed, routed, finished>>
vars  == <<qvars, dirs, fage, disk, svars, cvars, faults, hist>>

Ended == {"idle", "dead", "done"}
QueuePc == Ended \cup
  {"armed", "pid", "linked", "mess", "written", "intd", "envelope",
   "undo_intd", "undo_mess"}
SendPc == {"down", "scan", "idle", "unlink_chan", "unlink_info", "create_info",
   "preprocess", "todo_wait", "bounce", "eliminate", "foop_wait", "check"}
CleanPc == {"gone", "idle", "first", "second", "answered"}

NoChan(i) == \A c \in Chan : chan[c][i] = None

Live(m) == pc[m] \notin Ended

Keep(f, i) == f                           \* mutation: an unlink() is left out
Unlink(f, i) == [f EXCEPT ![i] = None]

(* An inode number is reused once no directory entry and no open file holds it. *)
Free(i) == /\ pidf[i] = None /\ mess[i] = None
           /\ \A m \in Msg : Live(m) => ino[m] # i

Init ==
  /\ pc = [m \in Msg |-> "idle"] /\ ino = [m \in Msg |-> None]
  /\ age = [m \in Msg |-> 0]
  /\ pidf = [i \in Id |-> None] /\ mess = [i \in Id |-> None]
  /\ intd = [i \in Id |-> None] /\ todo = [i \in Id |-> None]
  /\ info = [i \in Id |-> None] /\ chan = [c \in Chan |-> [i \in Id |-> None]]
  /\ bounce = [i \in Id |-> None] /\ fage = [i \in Id |-> 0]
  /\ body = {} /\ env = {} /\ fsynced = {}
  /\ spc = "down" /\ sid = None /\ sroute = {} /\ todofd = None
  /\ unscanned = {} /\ pqchan = [c \in Chan |-> {}] /\ pqdone = {} /\ exitasap = FALSE
  /\ cpc = "gone" /\ creq = "foop" /\ cid = None /\ creply = TRUE
  /\ faults = 0
  /\ accepted = {} /\ committed = {} /\ routed = [m \in Msg |-> {}] /\ finished = [m \in Msg |-> {}]

-----------------------------------------------------------------------------
(* qmail-queue                                                             *)

Goto(m, l) == pc' = [pc EXCEPT ![m] = l]

(* main: starttime = now(), alarm(DEATH). *)
Arm(m) ==
  /\ pc[m] = "idle" /\ Goto(m, "armed")
  /\ UNCHANGED <<ino, age, dirs, fage, disk, svars, cvars, faults, hist>>

(* pidopen and fstat: the file system picks the number. *)
PidOpen(m) ==
  /\ pc[m] = "armed" /\ Goto(m, "pid")
  /\ \E i \in Id :
       /\ Free(i)
       /\ ino' = [ino EXCEPT ![m] = i]
       /\ pidf' = [pidf EXCEPT ![i] = m]
       /\ fage' = [fage EXCEPT ![i] = 0]
  /\ UNCHANGED <<age, mess, intd, todo, info, chan, bounce, disk, svars, cvars, faults, hist>>

(* link(pidfn,messfn); an existing mess/ file or a vanished pid/ file is die(64). *)
LinkMess(m) ==
  /\ pc[m] = "pid"
  /\ IF mess[ino[m]] = None /\ pidf[ino[m]] = m
       THEN Goto(m, "linked") /\ mess' = [mess EXCEPT ![ino[m]] = m]
       ELSE Goto(m, "dead") /\ UNCHANGED mess
  /\ UNCHANGED <<ino, age, pidf, intd, todo, info, chan, bounce, fage, disk, svars, cvars,
                 faults, hist>>

(* unlink(pidfn); flagmademess = 1.  A vanished pid/ file is die(63). *)
UnlinkPid(m) ==
  /\ pc[m] = "linked"
  /\ Goto(m, IF pidf[ino[m]] = m THEN "mess" ELSE "dead")
  /\ pidf' = Unlink(pidf, ino[m])
  /\ UNCHANGED <<ino, age, mess, intd, todo, info, chan, bounce, fage, disk, svars, cvars,
                 faults, hist>>

NoFsync(onDisk, m) == onDisk              \* mutation: fsync() left out
Fsync(onDisk, m) == onDisk \cup {m}

(* substdio_copy, substdio_flush, fsync(messfd). *)
WriteMess(m) ==
  /\ pc[m] = "mess" /\ Goto(m, "written")
  /\ body' = Fsync(body, m)
  /\ UNCHANGED <<ino, age, dirs, fage, env, fsynced, svars, cvars, faults, hist>>

(* open_excl(intdfn); flagmadeintd = 1.  An existing file is die(65). *)
OpenIntd(m) ==
  /\ pc[m] = "written"
  /\ IF intd[ino[m]] = None
       THEN Goto(m, "intd") /\ intd' = [intd EXCEPT ![ino[m]] = m]
       ELSE Goto(m, "dead") /\ UNCHANGED intd
  /\ UNCHANGED <<ino, age, pidf, mess, todo, info, chan, bounce, fage, disk, svars, cvars,
                 faults, hist>>

(* The envelope is copied from descriptor 1, then fsync(intdfd). *)
WriteEnvelope(m) ==
  /\ pc[m] = "intd" /\ Goto(m, "envelope")
  /\ env' = Fsync(env, m)
  /\ UNCHANGED <<ino, age, dirs, fage, body, fsynced, svars, cvars, faults, hist>>

(* link(intdfn,todofn): from here on the message is queued. *)
LinkTodo(m) ==
  /\ pc[m] = "envelope"
  /\ IF todo[ino[m]] = None /\ intd[ino[m]] = m
       THEN /\ Goto(m, "done") /\ todo' = [todo EXCEPT ![ino[m]] = m]
            /\ accepted' = accepted \cup {m}
       ELSE Goto(m, "dead") /\ UNCHANGED <<todo, accepted>>
  /\ UNCHANGED <<ino, age, pidf, mess, intd, info, chan, bounce, fage, disk, svars, cvars,
                 faults, committed, routed, finished>>

(* cleanup(): intd/ first, if it was made, then mess/. *)
UndoMessOnly(l) == "undo_mess"       \* mutation: flagmadeintd is not set
UndoFrom(l) == IF l = "intd" THEN "undo_intd" ELSE "undo_mess"

(* die_write and die_read. *)
GiveUp(m) ==
  /\ pc[m] \in {"mess", "intd"} /\ Goto(m, UndoFrom(pc[m]))
  /\ UNCHANGED <<ino, age, dirs, fage, disk, svars, cvars, faults, hist>>

UndoIntd(m) ==
  /\ pc[m] = "undo_intd" /\ Goto(m, "undo_mess")
  /\ intd' = Unlink(intd, ino[m])
  /\ UNCHANGED <<ino, age, pidf, mess, todo, info, chan, bounce, fage, disk, svars, cvars,
                 faults, hist>>

UndoMess(m) ==
  /\ pc[m] = "undo_mess" /\ Goto(m, "dead")
  /\ mess' = Unlink(mess, ino[m])
  /\ UNCHANGED <<ino, age, pidf, intd, todo, info, chan, bounce, fage, disk, svars, cvars,
                 faults, hist>>

(* An end without cleanup(): SIGALRM, the other exits of main, a kill. *)
QueueDie(m) ==
  /\ Live(m) /\ Goto(m, "dead")
  /\ UNCHANGED <<ino, age, dirs, fage, disk, svars, cvars, faults, hist>>

-----------------------------------------------------------------------------
(* qmail-send                                                              *)

Begin(l, i) == spc' = l /\ sid' = i
Idle == spc' = "idle" /\ sid' = None

(* A request to qmail-clean; without one, cleandied() sets flagexitasap. *)
Request(what, i, wait) ==
  IF cpc = "gone"
    THEN Idle /\ exitasap' = TRUE /\ UNCHANGED cvars
    ELSE /\ Begin(wait, i) /\ cpc' = "first" /\ creq' = what /\ cid' = i
         /\ UNCHANGED <<exitasap, creply>>

(* main, up to pqstart: the list of info/ is read.  The qmail-clean of an   *)
(* earlier qmail-send has read its pipe to the end by now (see QueueOrphan). *)
StartSend ==
  /\ spc = "down" /\ cpc \in {"gone", "idle", "answered"}
  /\ Begin("scan", None) /\ unscanned' = {i \in Id : info[i] # None}
  /\ cpc' = "idle" /\ exitasap' = FALSE
  /\ UNCHANGED <<qvars, dirs, fage, disk, sroute, todofd, pqchan, pqdone, creq, cid, creply,
                 faults, hist>>

HasInfo(i) == info[i] # None              \* mutation: todo/ is not looked for
Preprocessed(i) == info[i] # None /\ todo[i] = None

(* pqdone is for the message without a recipient left. *)
DoneIfNever(i, none) == pqdone            \* mutation: such a message is forgotten
DoneIf(i, none) == IF none THEN pqdone \cup {i} ELSE pqdone

(* pqadd: "look, ma, dad crashed writing info!" when todo/ still exists. *)
PqAdd(i) ==
  /\ spc = "scan" /\ i \in unscanned
  /\ unscanned' = unscanned \ {i}
  /\ IF Preprocessed(i)
       THEN /\ pqchan' = [c \in Chan |-> IF chan[c][i] # None THEN pqchan[c] \cup {i}
                                                              ELSE pqchan[c]]
            /\ pqdone' = DoneIf(i, NoChan(i))
       ELSE UNCHANGED <<pqchan, pqdone>>
  /\ UNCHANGED <<qvars, dirs, fage, disk, spc, sid, sroute, todofd, exitasap, cvars, faults, hist>>

PqStarted ==
  /\ spc = "scan" /\ unscanned = {} /\ Idle
  /\ UNCHANGED <<qvars, dirs, fage, disk, sroute, todofd, unscanned, pqchan, pqdone, exitasap,
                 cvars, faults, hist>>

(* todo_do for one entry of todo/, as far as the first unlink.  The file    *)
(* stays open to the end: what becomes of its name does not matter to it.   *)
TodoOpen(i) ==
  /\ spc = "idle" /\ ~exitasap
  /\ todo[i] # None /\ mess[i] # None
  /\ Begin("unlink_chan", i) /\ sroute' = Chan /\ todofd' = todo[i]
  /\ UNCHANGED <<qvars, dirs, fage, disk, unscanned, pqchan, pqdone, exitasap, cvars,
                 faults, hist>>

UnlinkOld(f, i) == Unlink(f, i)

(* What an interrupted todo_do left in local/ and remote/ goes first. *)
TodoUnlinkChan(c) ==
  /\ spc = "unlink_chan" /\ c \in sroute
  /\ chan' = [chan EXCEPT ![c] = UnlinkOld(@, sid)]
  /\ sroute' = sroute \ {c}
  /\ spc' = IF sroute = {c} THEN "unlink_info" ELSE spc
  /\ UNCHANGED <<qvars, pidf, mess, intd, todo, info, bounce, fage, disk, sid, todofd, unscanned,
                 pqchan, pqdone, exitasap, cvars, faults, hist>>

TodoUnlinkInfo ==
  /\ spc = "unlink_info" /\ spc' = "create_info"
  /\ info' = Unlink(info, sid)
  /\ UNCHANGED <<qvars, pidf, mess, intd, todo, chan, bounce, fage, disk, sid, sroute, todofd,
                 unscanned, pqchan, pqdone, exitasap, cvars, faults, hist>>

(* open_excl(info/): the new files are not on disk before their fsync. *)
TodoCreateInfo ==
  /\ spc = "create_info" /\ spc' = "preprocess"
  /\ info' = [info EXCEPT ![sid] = todofd]
  /\ fsynced' = fsynced \ {todofd}
  /\ UNCHANGED <<qvars, pidf, mess, intd, todo, chan, bounce, fage, body, env, sid, sroute, todofd,
                 unscanned, pqchan, pqdone, exitasap, cvars, faults, hist>>

(* The first recipient that rewrite() sends to channel c: open_excl. *)
TodoCreateChan(c) ==
  /\ spc = "preprocess" /\ c \notin sroute /\ chan[c][sid] = None
  /\ chan' = [chan EXCEPT ![c][sid] = todofd]
  /\ sroute' = sroute \cup {c}
  /\ UNCHANGED <<qvars, pidf, mess, intd, todo, info, bounce, fage, disk, spc, sid,
                 todofd, unscanned, pqchan, pqdone, exitasap, cvars, faults, hist>>

(* The end of the envelope: every file is fsynced, then todo/ may go. *)
TodoCommit ==
  /\ spc = "preprocess"
  /\ fsynced' = Fsync(fsynced, todofd)
  /\ committed' = committed \cup {todofd}
  /\ routed' = [routed EXCEPT ![todofd] = sroute]
  /\ todofd' = None
  /\ Request("todo", sid, "todo_wait")
  /\ UNCHANGED <<qvars, dirs, fage, body, env, sroute, unscanned, pqchan, pqdone, faults,
                 accepted, finished>>

(* fail: a call of todo_do did not succeed; the next run starts over. *)
TodoFail ==
  /\ spc \in {"unlink_chan", "unlink_info", "create_info", "preprocess"}
  /\ faults < MaxFaults /\ faults' = faults + 1
  /\ Idle /\ todofd' = None
  /\ UNCHANGED <<qvars, dirs, fage, disk, sroute, unscanned, pqchan, pqdone, exitasap,
                 cvars, hist>>

(* The answer: '+', and the message enters the priority queues; or not. *)
TodoDone ==
  /\ spc = "todo_wait" /\ cpc = "answered"
  /\ cpc' = "idle" /\ Idle
  /\ pqchan' = [c \in Chan |-> IF creply /\ c \in sroute THEN pqchan[c] \cup {sid}
                                                        ELSE pqchan[c]]
  /\ pqdone' = DoneIf(sid, creply /\ sroute = {})
  /\ UNCHANGED <<qvars, dirs, fage, disk, sroute, todofd, unscanned, exitasap, creq, cid, creply,
                 faults, hist>>

(* A recipient failed for good: addbounce. *)
AddBounce(i, c) ==
  /\ spc = "idle" /\ i \in pqchan[c] /\ chan[c][i] # None
  /\ bounce' = [bounce EXCEPT ![i] = chan[c][i]]
  /\ UNCHANGED <<qvars, pidf, mess, intd, todo, info, chan, fage, disk, svars, cvars, faults,
                 hist>>

(* job_close, when every recipient of the file is DONE. *)
Delivered(i, c) ==
  /\ spc = "idle" /\ i \in pqchan[c] /\ chan[c][i] # None
  /\ chan' = [chan EXCEPT ![c][i] = None]
  /\ finished' = [finished EXCEPT ![chan[c][i]] = @ \cup {c}]
  /\ pqchan' = [pqchan EXCEPT ![c] = @ \ {i}]
  /\ pqdone' = DoneIf(i, \A b \in Chan \ {c} : chan[b][i] = None)
  /\ UNCHANGED <<qvars, pidf, mess, intd, todo, info, bounce, fage, disk, spc, sid, sroute,
                 todofd, unscanned, exitasap, cvars, faults, accepted, committed, routed>>

(* messdone: the stat() calls before injectbounce(). *)
Messdone(i) ==
  /\ spc = "idle" /\ i \in pqdone
  /\ pqdone' = pqdone \ {i}
  /\ IF NoChan(i) /\ Preprocessed(i)
       THEN Begin("bounce", i)
       ELSE UNCHANGED <<spc, sid>>
  /\ UNCHANGED <<qvars, dirs, fage, disk, sroute, todofd, unscanned, pqchan, exitasap, cvars,
                 faults, hist>>

UnlinkBounce(f, i) == Unlink(f, i)

(* injectbounce: the bounce message is queued, if there is one, and bounce/ goes. *)
InjectBounce ==
  /\ spc = "bounce" /\ spc' = "eliminate"
  /\ bounce' = UnlinkBounce(bounce, sid)
  /\ UNCHANGED <<qvars, pidf, mess, intd, todo, info, chan, fage, disk, sid, sroute, todofd,
                 unscanned, pqchan, pqdone, exitasap, cvars, faults, hist>>

UnlinkInfo(f, i) == Unlink(f, i)

(* unlink(info/), "we can relax", and the request for intd/ and mess/. *)
Eliminate ==
  /\ spc = "eliminate"
  /\ info' = UnlinkInfo(info, sid)
  /\ Request("foop", sid, "foop_wait")
  /\ UNCHANGED <<qvars, pidf, mess, intd, todo, chan, bounce, fage, disk, sroute, todofd,
                 unscanned, pqchan, pqdone, faults, hist>>

(* fail: the message goes back to pqdone. *)
MessdoneFail ==
  /\ spc \in {"bounce", "eliminate"}
  /\ faults < MaxFaults /\ faults' = faults + 1
  /\ pqdone' = pqdone \cup {sid} /\ Idle
  /\ UNCHANGED <<qvars, dirs, fage, disk, sroute, todofd, unscanned, pqchan, exitasap, cvars,
                 hist>>

OverdueAtDeath(i) == fage[i] >= DEATH     \* mutation: OSSIFIED is not above DEATH
Overdue(i) == fage[i] > OSSIFIED

(* cleanup_do: the stat() of an entry of mess/, for its age. *)
CleanupStat(i) ==
  /\ spc = "idle" /\ mess[i] # None /\ Overdue(i)
  /\ Begin("check", i)
  /\ UNCHANGED <<qvars, dirs, fage, disk, sroute, todofd, unscanned, pqchan, pqdone, exitasap,
                 cvars, faults, hist>>

NoInfo(i) == info[i] = None               \* mutation: todo/ is not looked for
Leftover(i) == info[i] = None /\ todo[i] = None

(* cleanup_do: neither info/ nor todo/ exists. *)
CleanupAsk ==
  /\ spc = "check"
  /\ IF Leftover(sid)
       THEN Request("foop", sid, "foop_wait")
       ELSE Idle /\ UNCHANGED <<exitasap, cvars>>
  /\ UNCHANGED <<qvars, dirs, fage, disk, sroute, todofd, unscanned, pqchan, pqdone,
                 faults, hist>>

(* The answer to foop/ is only logged. *)
FoopDone ==
  /\ spc = "foop_wait" /\ cpc = "answered"
  /\ cpc' = "idle" /\ Idle
  /\ UNCHANGED <<qvars, dirs, fage, disk, sroute, todofd, unscanned, pqchan, pqdone, exitasap,
                 creq, cid, creply, faults, hist>>

(* What qmail-send forgets when it ends. *)
Forget ==
  /\ Begin("down", None) /\ sroute' = {} /\ todofd' = None /\ unscanned' = {}
  /\ pqchan' = [c \in Chan |-> {}] /\ pqdone' = {} /\ exitasap' = FALSE

(* The main loop ends, once flagexitasap is set. *)
SendExit ==
  /\ spc = "idle" /\ exitasap /\ Forget
  /\ UNCHANGED <<qvars, dirs, fage, disk, cvars, faults, hist>>

SendDie ==
  /\ spc # "down" /\ faults < MaxFaults /\ faults' = faults + 1
  /\ Forget
  /\ UNCHANGED <<qvars, dirs, fage, disk, cvars, hist>>

(* read() of the answer returns 0: qmail-clean has died. *)
CleanDied ==
  /\ spc \in {"todo_wait", "foop_wait"} /\ cpc = "gone"
  /\ Idle /\ exitasap' = TRUE
  /\ UNCHANGED <<qvars, dirs, fage, disk, sroute, todofd, unscanned, pqchan, pqdone, cvars, faults,
                 hist>>

-----------------------------------------------------------------------------
(* qmail-clean                                                             *)

CleanIntd ==
  /\ cpc = "first" /\ cpc' = "second"
  /\ intd' = Unlink(intd, cid)
  /\ UNCHANGED <<qvars, pidf, mess, todo, info, chan, bounce, fage, disk, svars, creq, cid,
                 creply, faults, hist>>

UnlinkMess(f, i) == Unlink(f, i)

CleanLast ==
  /\ cpc = "second" /\ cpc' = "answered" /\ creply' = TRUE
  /\ IF creq = "foop" THEN mess' = UnlinkMess(mess, cid) /\ UNCHANGED todo
                      ELSE todo' = Unlink(todo, cid) /\ UNCHANGED mess
  /\ UNCHANGED <<qvars, pidf, intd, info, chan, bounce, fage, disk, svars, creq, cid, faults,
                 hist>>

(* An unlink fails with something else than ENOENT: '!'. *)
CleanFail ==
  /\ cpc \in {"first", "second"} /\ cpc' = "answered" /\ creply' = FALSE
  /\ faults < MaxFaults /\ faults' = faults + 1
  /\ UNCHANGED <<qvars, dirs, fage, disk, svars, creq, cid, hist>>

(* cleanuppid, between two requests. *)
CleanPid(i) ==
  /\ cpc = "idle" /\ pidf[i] # None /\ fage[i] >= OSSIFIED
  /\ pidf' = Unlink(pidf, i)
  /\ UNCHANGED <<qvars, mess, intd, todo, info, chan, bounce, fage, disk, svars, cvars,
                 faults, hist>>

CleanDie ==
  /\ cpc # "gone" /\ cpc' = "gone"
  /\ faults < MaxFaults /\ faults' = faults + 1
  /\ UNCHANGED <<qvars, dirs, fage, disk, svars, creq, cid, creply, hist>>

-----------------------------------------------------------------------------
(* The alarm ends a process at most Slack seconds after DEATH. *)
NoAlarm == TRUE                           \* mutation: alarm() is not called
AlarmDone == \A m \in Msg : Live(m) => age[m] < DEATH + Slack

(* A second passes: not before a process whose alarm is overdue has died. *)
Tick ==
  /\ AlarmDone
  /\ age' = [m \in Msg |-> IF Live(m) THEN age[m] + 1 ELSE age[m]]
  /\ fage' = [i \in Id |-> IF fage[i] > OSSIFIED THEN fage[i] ELSE fage[i] + 1]
  /\ UNCHANGED <<pc, ino, dirs, disk, svars, cvars, faults, hist>>

QmailQueue(m) ==
  \/ Arm(m) \/ PidOpen(m) \/ LinkMess(m) \/ UnlinkPid(m) \/ WriteMess(m) \/ OpenIntd(m)
  \/ WriteEnvelope(m) \/ LinkTodo(m) \/ GiveUp(m) \/ UndoIntd(m) \/ UndoMess(m)
  \/ QueueDie(m)

QmailSend ==
  \/ StartSend \/ PqStarted \/ TodoUnlinkInfo \/ TodoCreateInfo \/ TodoCommit \/ TodoFail
  \/ TodoDone \/ InjectBounce \/ Eliminate \/ MessdoneFail \/ CleanupAsk \/ FoopDone
  \/ SendExit \/ SendDie \/ CleanDied
  \/ \E i \in Id : PqAdd(i) \/ TodoOpen(i) \/ Messdone(i) \/ CleanupStat(i)
  \/ \E c \in Chan : TodoUnlinkChan(c) \/ TodoCreateChan(c)
  \/ \E i \in Id, c \in Chan : AddBounce(i, c) \/ Delivered(i, c)

QmailClean ==
  CleanIntd \/ CleanLast \/ CleanFail \/ CleanDie \/ \E i \in Id : CleanPid(i)

Next == (\E m \in Msg : QmailQueue(m)) \/ QmailSend \/ QmailClean \/ Tick

Spec == Init /\ [][Next]_vars

-----------------------------------------------------------------------------
QueueTypeOK ==
  /\ pc \in [Msg -> QueuePc] /\ ino \in [Msg -> Id \cup {None}]
  /\ age \in [Msg -> 0 .. DEATH + Slack]

DirTypeOK ==
  /\ pidf \in [Id -> Msg \cup {None}] /\ mess \in [Id -> Msg \cup {None}]
  /\ intd \in [Id -> Msg \cup {None}] /\ todo \in [Id -> Msg \cup {None}]
  /\ info \in [Id -> Msg \cup {None}] /\ bounce \in [Id -> Msg \cup {None}]
  /\ chan \in [Chan -> [Id -> Msg \cup {None}]]
  /\ fage \in [Id -> 0 .. OSSIFIED + 1]
  /\ body \subseteq Msg /\ env \subseteq Msg /\ fsynced \subseteq Msg

SendTypeOK ==
  /\ spc \in SendPc /\ sid \in Id \cup {None} /\ sroute \subseteq Chan
  /\ todofd \in Msg \cup {None}
  /\ unscanned \subseteq Id /\ pqchan \in [Chan -> SUBSET Id] /\ pqdone \subseteq Id
  /\ exitasap \in BOOLEAN

CleanTypeOK ==
  /\ cpc \in CleanPc /\ creq \in {"todo", "foop"} /\ cid \in Id \cup {None}
  /\ creply \in BOOLEAN

HistTypeOK ==
  /\ accepted \subseteq Msg /\ committed \subseteq Msg
  /\ routed \in [Msg -> SUBSET Chan] /\ finished \in [Msg -> SUBSET Chan]
  /\ faults \in 0 .. MaxFaults

(* Every variable has its type. *)
TypeOK ==
  QueueTypeOK /\ DirTypeOK /\ SendTypeOK /\ CleanTypeOK /\ HistTypeOK

S1(i) == /\ mess[i] = None /\ intd[i] = None /\ todo[i] = None /\ info[i] = None
         /\ NoChan(i) /\ bounce[i] = None
S2(i) == /\ mess[i] # None /\ intd[i] = None /\ todo[i] = None /\ info[i] = None
         /\ NoChan(i) /\ bounce[i] = None
S3(i) == /\ mess[i] # None /\ intd[i] # None /\ todo[i] = None /\ info[i] = None
         /\ NoChan(i) /\ bounce[i] = None
S4(i) == mess[i] # None /\ todo[i] # None /\ bounce[i] = None
S5(i) == mess[i] # None /\ intd[i] = None /\ todo[i] = None /\ info[i] # None

(* INTERNALS, section 2, "all possible states for a message": whatever dies *)
(* and whenever, the files of a message number are in one of S1 to S5.      *)
QueueStates == \A i \in Id : S1(i) \/ S2(i) \/ S3(i) \/ S4(i) \/ S5(i)

(* INTERNALS, section 3: a number that the file system has just given to a  *)
(* qmail-queue is that of no message, so its link() and open_excl() succeed *)
(* and no file of an earlier message is taken for one of the new message.   *)
FreshNumber == \A m \in Msg : pc[m] = "pid" => S1(ino[m])

(* The files of one number belong to one message. *)
OneOwner ==
  \A i \in Id :
    /\ {intd[i], todo[i], info[i], bounce[i]} \subseteq {None, mess[i]}
    /\ \A c \in Chan : chan[c][i] \in {None, mess[i]}

(* Before todo/ exists, the whole message and its whole envelope are on     *)
(* disk: the fsync() calls of qmail-queue come before the link().           *)
QueuedIntact ==
  \A i \in Id : todo[i] # None => mess[i] = todo[i] /\ todo[i] \in body /\ todo[i] \in env

(* A message that was queued is still to be preprocessed, or is kept with   *)
(* the files of every channel in which it has recipients left; it is gone   *)
(* only when it has none.                                                   *)
NoLoss ==
  \A m \in accepted : LET i == ino[m] IN
    \/ todo[i] = m /\ mess[i] = m
    \/ m \in committed /\ routed[m] \subseteq finished[m]
    \/ /\ todo[i] = None /\ mess[i] = m /\ info[i] = m /\ m \in fsynced
       /\ \A c \in routed[m] : c \in finished[m] \/ chan[c][i] = m

(* When todo/ is gone, local/ and remote/ hold the recipients of the last   *)
(* run of todo_do and no channel that is finished comes back: nothing that  *)
(* an interrupted run left behind is delivered a second time.               *)
NoRedelivery ==
  \A i \in Id, c \in Chan : LET m == chan[c][i] IN
    m # None /\ todo[i] = None => c \in routed[m] \ finished[m]

(* The comments at the priority queues: pqchan is "-todo +info" with the    *)
(* file of the channel, pqdone is "-todo +info -local -remote", where no    *)
(* stat() fails; after a restart as well.                                   *)
PqMeaning ==
  /\ \A c \in Chan : \A i \in pqchan[c] :
       todo[i] = None /\ info[i] # None /\ chan[c][i] # None
  /\ \A i \in pqdone : todo[i] = None /\ info[i] # None /\ NoChan(i)

(* A message in S5 is in memory as long as qmail-send runs: in pqdone or in *)
(* the queue of each channel that is left, or being worked on.              *)
Remembered ==
  spc \notin {"down", "scan"} /\ ~exitasap =>
    \A i \in Id : S5(i) /\ sid # i =>
      /\ \A c \in Chan : chan[c][i] # None => i \in pqchan[c]
      /\ NoChan(i) => i \in pqdone

(* mess/ is removed only by its own qmail-queue before the message is       *)
(* queued, or when that process has ended and the message either never was  *)
(* queued or has been delivered: the 36 hours of qmail-send and the alarm   *)
(* of qmail-queue keep them apart.                                          *)
CleanupSafe ==
  [][\A i \in Id : LET m == mess[i] IN m # None /\ mess'[i] # m =>
       \/ pc[m] = "undo_mess" /\ m \notin accepted
       \/ ~Live(m) /\ (m \in accepted => /\ m \in committed /\ todo[i] = None
                                      /\ routed[m] \subseteq finished[m])
    ]_vars

-----------------------------------------------------------------------------
(* qmail-send and qmail-clean keep running and are started again; the main  *)
(* loop comes back to every duty, readdir to every entry, and a delivery    *)
(* ends some day because flagdying turns deferral into failure.  Nothing    *)
(* makes a qmail-queue go on, but time passes and its alarm ends it.        *)
Fairness ==
  /\ WF_vars(StartSend) /\ WF_vars(PqStarted) /\ WF_vars(TodoUnlinkInfo)
  /\ WF_vars(TodoCreateInfo) /\ WF_vars(TodoCommit) /\ WF_vars(TodoDone)
  /\ WF_vars(InjectBounce) /\ WF_vars(Eliminate) /\ WF_vars(CleanupAsk) /\ WF_vars(FoopDone)
  /\ WF_vars(CleanDied) /\ WF_vars(CleanIntd) /\ WF_vars(CleanLast) /\ SF_vars(SendExit)
  /\ \A i \in Id : WF_vars(PqAdd(i)) /\ SF_vars(TodoOpen(i)) /\ SF_vars(Messdone(i))
                   /\ SF_vars(CleanupStat(i))
  /\ \A c \in Chan : WF_vars(TodoUnlinkChan(c))
  /\ \A i \in Id, c \in Chan : SF_vars(Delivered(i, c))
  /\ \A m \in Msg : WF_vars(QueueDie(m) /\ age[m] >= DEATH)
  /\ WF_vars(Tick)

FairSpec == Spec /\ Fairness

(* A queued message ends: its number becomes free again. *)
QueuedEnds == \A m \in Msg : m \in accepted ~> (\A i \in Id : mess[i] # m)

(* What a qmail-queue that died leaves in mess/ and intd/ is removed. *)
LeftoversGo ==
  \A m \in Msg : (pc[m] = "dead" /\ m \notin accepted)
                 ~> \A i \in Id : mess[i] # m /\ intd[i] # m
=============================================================================
