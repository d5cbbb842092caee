------------------------------ MODULE Trigger -------------------------------
(***************************************************************************)
(* lock/trigger, the named pipe by which a qmail-queue that has linked its *)
(* message into todo/ wakes up a qmail-send that sleeps in select(), and   *)
(* the scans of todo/ that follow.  One step is one system call; the pipe  *)
(* is modelled as INTERNALS, section 7, and the code use it.               *)
(***************************************************************************)
EXTENDS Naturals

CONSTANTS
  Msg,               \* messages; each is brought by a qmail-queue of its own
  HASNAMEDPIPEBUG1,  \* trigger_set opens the pipe for writing too
  MaxFaults          \* bound: deaths of processes and failed calls

ASSUME TriggerAssumption ==
  MaxFaults \in Nat /\ HASNAMEDPIPEBUG1 \in BOOLEAN

VARIABLES
  qpc,      \* qpc[m]: where the qmail-queue of m is
  todo,     \* messages in todo/
  reader,   \* whether qmail-send has the pipe open
  buf,      \* whether there is a byte in the pipe
  hup,      \* whether the pipe has had a writer since it was opened for reading
  due,      \* recent >= nexttodorun
  spc,      \* where qmail-send is
  left,     \* entries of todo/ that readdir() will return
  failed,   \* messages that todo_do tried in vain
  faults,
  unread    \* history: the last opendir() failed

pipe == <<reader, buf, hup>>
vars == <<qpc, todo, pipe, due, spc, left, failed, faults, unread>>

QueuePc == {"start", "linked", "opened", "written", "done", "killed"}
SendPc  == {"down", "select", "close", "reopen", "opendir", "readdir"}

Init ==
  /\ qpc = [m \in Msg |-> "start"] /\ todo = {}
  /\ reader = FALSE /\ buf = FALSE /\ hup = FALSE /\ due = FALSE
  /\ spc = "down" /\ left = {} /\ failed = {} /\ faults = 0
  /\ unread = FALSE

Writers == {m \in Msg : qpc[m] \in {"opened", "written"}}

(* select() says readable: a byte, or the end of file after a writer.  With *)
(* fdw open there is always a writer.                                       *)
Readable == reader /\ (buf \/ (hup /\ Writers = {} /\ ~HASNAMEDPIPEBUG1))

(* What is in a pipe is gone when nobody has it open. *)
Kept(isOpen) == buf                       \* mutation: it stays
Drained(isOpen) == buf /\ isOpen

Fault == faults < MaxFaults /\ faults' = faults + 1
Goto(m, l) == qpc' = [qpc EXCEPT ![m] = l]

-----------------------------------------------------------------------------
(* qmail-queue                                                             *)

LinkTodo(m) ==
  /\ qpc[m] = "start" /\ Goto(m, "linked")
  /\ todo' = todo \cup {m}
  /\ UNCHANGED <<pipe, due, spc, left, failed, faults, unread>>

(* triggerpull: open_write() is O_NDELAY and fails without a reader. *)
OpenTrigger(m) ==
  /\ qpc[m] = "linked"
  /\ IF reader THEN Goto(m, "opened") /\ hup' = TRUE
               ELSE Goto(m, "done") /\ UNCHANGED hup
  /\ UNCHANGED <<todo, reader, buf, due, spc, left, failed, faults, unread>>

(* "if it fails, bummer": EPIPE, or the pipe is full. *)
WriteTrigger(m) ==
  /\ qpc[m] = "opened" /\ Goto(m, "written")
  /\ buf' = (buf \/ reader)
  /\ UNCHANGED <<todo, reader, hup, due, spc, left, failed, faults, unread>>

CloseTrigger(m) ==
  /\ qpc[m] = "written" /\ Goto(m, "done")
  /\ buf' = Drained(reader \/ Writers # {m})
  /\ UNCHANGED <<todo, reader, hup, due, spc, left, failed, faults, unread>>

(* Killed after the link and before the byte. *)
QueueDie(m) ==
  /\ qpc[m] \in {"linked", "opened"} /\ Fault /\ Goto(m, "killed")
  /\ buf' = Drained(reader \/ Writers \ {m} # {})
  /\ UNCHANGED <<todo, reader, hup, due, spc, left, failed, unread>>

-----------------------------------------------------------------------------
(* qmail-send                                                              *)

(* todo_init: nexttodorun = now(), trigger_set(). *)
Start ==
  /\ spc = "down" /\ spc' = "select"
  /\ reader' = TRUE /\ hup' = (Writers # {}) /\ due' = TRUE
  /\ UNCHANGED <<qpc, todo, buf, left, failed, faults, unread>>

Awake == Readable \/ due

(* select() returns, and todo_do goes on to trigger_set(). *)
Wake ==
  /\ spc = "select" /\ Awake /\ spc' = "close"
  /\ UNCHANGED <<qpc, todo, pipe, due, left, failed, faults, unread>>

(* trigger_set() and then opendir(). *)
ScanFirst(l) ==              \* mutation: opendir() before the pipe is open again
  CASE l = "close" -> "opendir" [] l = "opendir" -> "reopen" [] l = "reopen" -> "readdir"
ScanOrder(l) ==
  CASE l = "close" -> "reopen" [] l = "reopen" -> "opendir" [] l = "opendir" -> "readdir"

TriggerClose ==
  /\ spc = "close" /\ spc' = ScanOrder(spc)
  /\ reader' = FALSE /\ buf' = Drained(Writers # {})
  /\ UNCHANGED <<qpc, todo, hup, due, left, failed, faults, unread>>

TriggerOpen ==
  /\ spc = "reopen" /\ spc' = ScanOrder(spc)
  /\ reader' = TRUE /\ hup' = (Writers # {})
  /\ UNCHANGED <<qpc, todo, buf, due, left, failed, faults, unread>>

(* nexttodorun = recent + SLEEP_TODO *)
OpenDir ==
  /\ spc = "opendir" /\ spc' = ScanOrder(spc)
  /\ left' = todo /\ due' = FALSE /\ unread' = FALSE
  /\ UNCHANGED <<qpc, todo, pipe, failed, faults>>

(* pausedir: ten seconds later back to the main loop, nexttodorun as it was. *)
OpenDirFail ==
  /\ spc = "opendir" /\ Fault /\ spc' = "select" /\ unread' = TRUE
  /\ UNCHANGED <<qpc, todo, pipe, due, left, failed>>

(* One entry in each turn of the main loop, at last those that came after   *)
(* opendir(), which readdir() may return or not.                            *)
ReadDir(m) ==
  /\ spc = "readdir" /\ m \in todo /\ (m \in left \/ m \notin failed)
  /\ left' = left \ {m}
  /\ \/ todo' = todo \ {m} /\ UNCHANGED <<failed, faults>>
     \/ Fault /\ failed' = failed \cup {m} /\ UNCHANGED todo
  /\ UNCHANGED <<qpc, pipe, due, spc, unread>>

EndOfDir ==
  /\ spc = "readdir" /\ left = {} /\ spc' = "select"
  /\ UNCHANGED <<qpc, todo, pipe, due, left, failed, faults, unread>>

SendDie ==
  /\ spc # "down" /\ Fault /\ spc' = "down"
  /\ reader' = FALSE /\ buf' = Drained(Writers # {}) /\ left' = {}
  /\ UNCHANGED <<qpc, todo, hup, due, failed, unread>>

(* SLEEP_TODO seconds have passed since the last scan. *)
TimeOut ==
  /\ spc # "down" /\ ~due /\ due' = TRUE
  /\ UNCHANGED <<qpc, todo, pipe, spc, left, failed, faults, unread>>

-----------------------------------------------------------------------------
Pull(m) == LinkTodo(m) \/ OpenTrigger(m) \/ WriteTrigger(m) \/ CloseTrigger(m) \/ QueueDie(m)

TodoDo ==
  \/ Start \/ Wake \/ TriggerClose \/ TriggerOpen \/ OpenDir \/ OpenDirFail \/ EndOfDir
  \/ SendDie \/ TimeOut \/ \E m \in Msg : ReadDir(m)

Next == TodoDo \/ \E m \in Msg : Pull(m)

Spec == Init /\ [][Next]_vars

-----------------------------------------------------------------------------
(* Every variable has its type; a pipe that nobody has open is empty, and   *)
(* qmail-send has it open except inside trigger_set().                      *)
TypeOK ==
  /\ qpc \in [Msg -> QueuePc] /\ todo \subseteq Msg /\ left \subseteq todo /\ failed \subseteq Msg
  /\ reader \in BOOLEAN /\ buf \in BOOLEAN /\ hup \in BOOLEAN /\ due \in BOOLEAN
  /\ unread \in BOOLEAN
  /\ spc \in SendPc /\ faults \in 0 .. MaxFaults
  /\ reader <=> spc \notin {"down", "reopen"}
  /\ buf => reader \/ Writers # {}

(* What the trigger is for: qmail-send does not sleep over a message        *)
(* whose qmail-queue has pulled the trigger, wherever the pull fell between *)
(* the close(), the open(), the opendir() and the readdir() calls: not      *)
(* unless todo_do has tried that message already, or an opendir() that      *)
(* failed has made trigger_set() throw the pull away for nothing.           *)
NoMissedWakeup ==
  spc = "select" /\ ~Readable /\ ~due /\ ~unread =>
    \A m \in todo : qpc[m] \in {"written", "done"} => m \in failed

-----------------------------------------------------------------------------
(* qmail-send runs and its clock goes on; a qmail-queue that has opened the *)
(* pipe goes on to close it.                                                *)
Fairness ==
  /\ WF_vars(Start) /\ WF_vars(Wake) /\ WF_vars(TriggerClose) /\ WF_vars(TriggerOpen)
  /\ WF_vars(OpenDir) /\ WF_vars(EndOfDir) /\ WF_vars(TimeOut)
  /\ \A m \in Msg : /\ WF_vars(m \in left /\ ReadDir(m))
                    /\ WF_vars(WriteTrigger(m) \/ CloseTrigger(m))

FairSpec == Spec /\ Fairness

(* "Critical timing feature #2: if triggered, respond within fixed time":   *)
(* each message is found, whoever was killed before pulling the trigger and *)
(* whatever failed.                                                         *)
FoundInTime == \A m \in Msg : m \in todo ~> m \notin todo
=============================================================================
