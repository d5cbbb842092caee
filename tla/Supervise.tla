----------------------------- MODULE Supervise ------------------------------
(***************************************************************************)
(* supervise.c: one service, the commands that svc writes into             *)
(* supervise/control, the death of the service and SIGCHLD, which is       *)
(* unblocked only while supervise waits in iopause().  The handler writes  *)
(* into selfpipe, which iopause() watches.                                 *)
(*                                                                         *)
(* The commands a, h and i are t with another signal; they differ in what  *)
(* the service makes of them, not in what supervise does.  The death of    *)
(* supervise itself is left out: the service would live on unsupervised.   *)
(***************************************************************************)
EXTENDS Naturals, Sequences

CONSTANTS
  Kid,        \* process ids for the service
  MaxCmd,     \* bound: commands in the fifo
  ForkFails   \* whether fork() can fail

ASSUME SuperviseAssumption ==
  Kid \subseteq Nat \ {0} /\ MaxCmd \in Nat /\ ForkFails \in BOOLEAN

Command == {"d", "u", "o", "t", "k", "p", "c", "x"}

VARIABLES
  svpc,        \* "boot", "pause" in iopause(), "reap", "command", "gone"
  flagwant, flagwantup, flagexit, flagpaused,
  pid,         \* the child that supervise knows of, 0 means down
  selfpipe,    \* whether there are bytes in selfpipe
  sigchld,     \* whether SIGCHLD is pending
  control,     \* commands in the fifo
  status,      \* contents of supervise/status, or Old
  st,          \* st[k]: "run", "stop" (stopped), "zombie" or "gone"
  termed,      \* children that have been sent SIGTERM
  unforked     \* history: whether the last fork() failed

flags == <<flagwant, flagwantup, flagexit, flagpaused>>
kids  == <<st, termed>>
svVars == <<svpc, flags, pid, selfpipe, sigchld, control, status, kids, unforked>>

(* What announce() and pidchange() write.                                  *)
Status(p, paused, want, wantup) ==
  [pid |-> p, paused |-> p # 0 /\ paused,
   want |-> IF want THEN (IF wantup THEN "u" ELSE "d") ELSE "0"]

Now == Status(pid, flagpaused, flagwant, flagwantup)

(* The file after an announce() that failed: what it says, of an earlier   *)
(* state or of an earlier supervise, is not kept.                          *)
Old == [pid |-> 0, paused |-> FALSE, want |-> "?"]

(* announce() writes status.new and renames it; when the open, the write   *)
(* or the rename fails it warns and returns, and nobody repeats it.        *)
Announce == status' = Now' \/ status' = Old

SuperviseInit ==
  /\ svpc = "boot" /\ flagwant = TRUE /\ flagwantup \in BOOLEAN
  /\ flagexit = FALSE /\ flagpaused = FALSE /\ pid = 0
  /\ selfpipe = FALSE /\ sigchld = FALSE /\ control = <<>>
  /\ status = Now \/ status = Old
  /\ st = [k \in Kid |-> "gone"] /\ termed = {} /\ unforked = FALSE

-----------------------------------------------------------------------------
(* trystart() when the children are s and selfpipe holds b.                *)
TryStart(s, b) ==
  \/ \E k \in Kid :
       /\ s[k] = "gone" /\ st' = [s EXCEPT ![k] = "run"]
       /\ pid' = k /\ termed' = termed \ {k} /\ flagpaused' = FALSE
       /\ selfpipe' = b /\ unforked' = FALSE
  \/ /\ ForkFails
     /\ st' = s /\ pid' = 0 /\ selfpipe' = TRUE /\ unforked' = TRUE
     /\ UNCHANGED <<flagpaused, termed>>

(* The loop of doit() goes back to its start.                              *)
Again == svpc' = IF flagexit' /\ pid' = 0 THEN "gone" ELSE "pause"

(* main(), up to the call of doit().                                       *)
Boot ==
  /\ svpc = "boot" /\ svpc' = "pause"
  /\ IF flagwantup THEN TryStart(st, selfpipe)
                   ELSE UNCHANGED <<kids, pid, selfpipe, flagpaused, unforked>>
  /\ UNCHANGED <<flagwant, flagwantup, flagexit, sigchld, control>>
  /\ Announce

(* iopause() returns: there is something to read, or an hour has passed.   *)
SvWake ==
  /\ svpc = "pause" /\ (selfpipe \/ control # <<>>)
  /\ svpc' = "reap"
  /\ UNCHANGED <<flags, pid, selfpipe, sigchld, control, status, kids, unforked>>

SvTimeout ==
  /\ svpc = "pause" /\ svpc' = "reap"
  /\ UNCHANGED <<flags, pid, selfpipe, sigchld, control, status, kids, unforked>>

(* The handler of SIGCHLD, trigger(), runs only while supervise waits.     *)
SvSigchld ==
  /\ svpc = "pause" /\ sigchld
  /\ sigchld' = FALSE /\ selfpipe' = TRUE
  /\ UNCHANGED <<svpc, flags, pid, control, status, kids, unforked>>

(* selfpipe is emptied; then wait_nohang() until it has found the service  *)
(* or finds nothing more.                                                  *)
Died   == pid # 0 /\ st[pid] = "zombie"
Buried == [k \in Kid |-> IF st[k] = "zombie" THEN "gone" ELSE st[k]]

ReapNone ==
  /\ svpc = "reap" /\ ~Died
  /\ svpc' = "command" /\ selfpipe' = FALSE /\ st' = Buried
  /\ UNCHANGED <<flags, pid, sigchld, control, status, termed, unforked>>

ReapRestart ==
  /\ svpc = "reap" /\ Died
  /\ ~flagexit /\ flagwant /\ flagwantup
  /\ TryStart(Buried, FALSE)
  /\ svpc' = "command"
  /\ UNCHANGED <<flagwant, flagwantup, flagexit, sigchld, control>>
  /\ Announce

ReapDown ==
  /\ svpc = "reap" /\ Died
  /\ flagexit \/ ~flagwant \/ ~flagwantup
  /\ pid' = 0 /\ st' = Buried /\ selfpipe' = FALSE
  /\ svpc' = IF flagexit THEN "gone" ELSE "command"
  /\ UNCHANGED <<flags, sigchld, control, termed, unforked>>
  /\ Announce

-----------------------------------------------------------------------------
(* One command is read from the fifo, if there is one.                     *)
NoCommand ==
  /\ svpc = "command" /\ control = <<>>
  /\ UNCHANGED <<flags, pid, selfpipe, sigchld, control, status, kids, unforked>>
  /\ Again

Read(c) ==
  /\ svpc = "command" /\ control # <<>> /\ Head(control) = c
  /\ control' = Tail(control)

Alive == pid # 0 /\ st[pid] \in {"run", "stop"}
To(s) == st' = IF Alive THEN [st EXCEPT ![pid] = s] ELSE st
NoTerm == UNCHANGED termed      \* a mutant: SIGTERM is not sent
Term  == termed' = IF Alive THEN termed \union {pid} ELSE termed

(* A child that stops, goes on or ends raises SIGCHLD.                     *)
Raised == sigchld' = (sigchld \/ st' # st)

CmdDown ==
  /\ Read("d")
  /\ flagwant' = TRUE /\ flagwantup' = FALSE
  /\ flagpaused' = IF pid # 0 THEN FALSE ELSE flagpaused
  /\ Term /\ To("run") /\ Raised
  /\ UNCHANGED <<flagexit, pid, selfpipe, unforked>>
  /\ Announce /\ Again

(* A mutant: u and o start the service without a look at pid.              *)
ForkAnyway == TRUE

(* u and o call trystart() only for a service that is down.                *)
IsDown == pid = 0

CmdUp ==
  /\ Read("u")
  /\ flagwant' = TRUE /\ flagwantup' = TRUE
  /\ IF IsDown THEN TryStart(st, selfpipe)
               ELSE UNCHANGED <<kids, pid, selfpipe, flagpaused, unforked>>
  /\ UNCHANGED <<flagexit, sigchld>>
  /\ Announce /\ Again

CmdOnce ==
  /\ Read("o")
  /\ flagwant' = FALSE
  /\ IF IsDown THEN TryStart(st, selfpipe)
               ELSE UNCHANGED <<kids, pid, selfpipe, flagpaused, unforked>>
  /\ UNCHANGED <<flagwantup, flagexit, sigchld>>
  /\ Announce /\ Again

CmdTerm ==
  /\ Read("t") /\ Term
  /\ UNCHANGED <<flags, pid, selfpipe, sigchld, status, st, unforked>>
  /\ Again

CmdKill ==
  /\ Read("k") /\ To("zombie") /\ Raised
  /\ UNCHANGED <<flags, pid, selfpipe, status, termed, unforked>>
  /\ Again

CmdPause ==
  /\ Read("p") /\ flagpaused' = TRUE /\ To("stop") /\ Raised
  /\ UNCHANGED <<flagwant, flagwantup, flagexit, pid, selfpipe, termed, unforked>>
  /\ Announce /\ Again

CmdCont ==
  /\ Read("c") /\ flagpaused' = FALSE /\ To("run") /\ Raised
  /\ UNCHANGED <<flagwant, flagwantup, flagexit, pid, selfpipe, termed, unforked>>
  /\ Announce /\ Again

CmdExit ==
  /\ Read("x") /\ flagexit' = TRUE
  /\ UNCHANGED <<flagwant, flagwantup, flagpaused, pid, selfpipe, sigchld, kids, unforked>>
  /\ Announce /\ Again

(* svc writes a command.                                                   *)
Svc ==
  /\ svpc # "gone" /\ Len(control) < MaxCmd
  /\ \E c \in Command : control' = Append(control, c)
  /\ UNCHANGED <<svpc, flags, pid, selfpipe, sigchld, status, kids, unforked>>

(* The service exits, by itself or for a signal it has got.                *)
KidExit(k) ==
  /\ st[k] = "run"
  /\ st' = [st EXCEPT ![k] = "zombie"] /\ sigchld' = TRUE /\ termed' = termed \ {k}
  /\ UNCHANGED <<svpc, flags, pid, selfpipe, control, status, unforked>>

-----------------------------------------------------------------------------
SuperviseStep ==
  \/ Boot \/ SvWake \/ SvSigchld \/ ReapNone \/ ReapRestart \/ ReapDown
  \/ NoCommand \/ CmdDown \/ CmdUp \/ CmdOnce \/ CmdTerm \/ CmdKill
  \/ CmdPause \/ CmdCont \/ CmdExit

SuperviseNext == SuperviseStep \/ SvTimeout \/ Svc \/ \E k \in Kid : KidExit(k)

(* supervise and the handler run; a service that has got SIGTERM and is    *)
(* not stopped ends.  Nobody has to send a command or to wait an hour.     *)
SuperviseFairness ==
  /\ WF_svVars(SuperviseStep)
  /\ \A k \in Kid : WF_svVars(k \in termed /\ KidExit(k))

SuperviseSpec == SuperviseInit /\ [][SuperviseNext]_svVars
SuperviseFair == SuperviseSpec /\ SuperviseFairness

-----------------------------------------------------------------------------
SuperviseTypeOK ==
  /\ svpc \in {"boot", "pause", "reap", "command", "gone"}
  /\ flagwant \in BOOLEAN /\ flagwantup \in BOOLEAN
  /\ flagexit \in BOOLEAN /\ flagpaused \in BOOLEAN
  /\ pid \in Kid \union {0} /\ selfpipe \in BOOLEAN /\ sigchld \in BOOLEAN
  /\ st \in [Kid -> {"run", "stop", "zombie", "gone"}]
  /\ termed \subseteq Kid /\ unforked \in BOOLEAN /\ control \in Seq(Command)

(* pid is the one child that has not been waited for: no second copy of    *)
(* the service runs, and no signal goes to a process id that is free.      *)
KnownChild ==
  /\ \A k \in Kid : st[k] # "gone" => k = pid
  /\ pid # 0 => st[pid] # "gone"

(* supervise does not wait while it has to deal with a death.              *)
DeathNoticed ==
  svpc = "pause" /\ Died => sigchld \/ selfpipe

(* Whenever supervise waits, supervise/status tells svstat the truth,      *)
(* unless the last announce() failed: then svstat is told an old state     *)
(* until the next command or death.  And a service that is wanted up is    *)
(* down only if fork() failed.                                             *)
StatusTrue ==
  svpc = "pause" => status = Now \/ status = Old

DownReason ==
  svpc = "pause" /\ flagwant /\ flagwantup /\ pid = 0 => unforked

(* What a reader of the code would defend: supervise knows its child, does *)
(* not miss its death, tells the truth about it where it can, restarts it. *)
SuperviseSafe == KnownChild /\ DeathNoticed /\ StatusTrue /\ DownReason

(* svc -d: the service ends, also one that was stopped with svc -p, unless *)
(* another command comes.                                                  *)
DownObeyed ==
  svpc = "pause" /\ flagwant /\ ~flagwantup
    ~> pid = 0 \/ control # <<>> \/ flagpaused

(* A service that has ended and is wanted up is started again (FAQ 7.1 of  *)
(* netqmail: "The supervise process will kill qmail, wait for it to stop,  *)
(* and restart it").  It is not if fork() fails: trystart() is over after  *)
(* its 60 seconds, and nothing in doit() calls it again.                   *)
ComesUp ==
  Died /\ flagwant /\ flagwantup /\ ~flagexit
    ~> (pid # 0 /\ ~Died) \/ ~flagwant \/ ~flagwantup \/ flagexit \/ control # <<>>
=============================================================================
