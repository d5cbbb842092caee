------------------------------- MODULE Svscan -------------------------------
(***************************************************************************)
(* svscan.c: every five seconds svscan waits for its dead children, reads  *)
(* the directory /service and starts what is there and does not run: one   *)
(* supervise for each directory and, if it has a subdirectory log, another *)
(* that reads from the first through a pipe which svscan keeps open.       *)
(*                                                                         *)
(* A directory is known by device and inode, whatever its name; that the   *)
(* inode of a removed directory is not given away while svscan knows it is *)
(* assumed.  What supervise and the services do is in Supervise.           *)
(***************************************************************************)
EXTENDS Naturals, FiniteSets

CONSTANTS
  Dir,        \* directories that may be in /service
  LogDir,     \* those with a subdirectory log
  SERVICES,   \* the size of the table x[]
  MaxFail     \* bound: system calls that fail

ASSUME SvscanAssumption ==
  LogDir \subseteq Dir /\ SERVICES \in Nat \ {0} /\ MaxFail \in Nat

VARIABLES
  service,    \* directories that are in /service
  x,          \* the table: [dir, active, pid, pidlog, pipe], a pipe 0 is none
  proc,       \* children not waited for: [pid, dir, log, pipe, dead]
  scan,       \* "reap", "read" between opendir and closedir, "sleep"
  toread,     \* names that readdir() may still return
  svFailed    \* calls that have failed

svscanVars == <<service, x, proc, scan, toread, svFailed>>

SvscanInit ==
  /\ service \in SUBSET Dir /\ x = {} /\ proc = {}
  /\ scan = "reap" /\ toread = {} /\ svFailed = 0

Fail == svFailed < MaxFail /\ svFailed' = svFailed + 1

Pids  == {p.pid : p \in proc}
Pipes == {e.pipe : e \in x} \union {p.pipe : p \in proc} \union {0}
Fresh(used) == CHOOSE n \in 0 .. Cardinality(used) : n \notin used

-----------------------------------------------------------------------------
(* wait_nohang() finds a dead child.                                       *)
Reap(p) ==
  /\ scan = "reap" /\ p.dead
  /\ proc' = proc \ {p}
  /\ x' = {[e EXCEPT !.pid    = IF @ = p.pid THEN 0 ELSE @,
                     !.pidlog = IF @ = p.pid THEN 0 ELSE @] : e \in x}
  /\ UNCHANGED <<service, scan, toread, svFailed>>

(* No more dead children: nothing is active until it is read.  A name that *)
(* comes or goes during the scan may be returned or not.                   *)
Opendir ==
  /\ scan = "reap" /\ ~ \E p \in proc : p.dead
  /\ x' = {[e EXCEPT !.active = FALSE] : e \in x}
  /\ \/ /\ \E names \in SUBSET Dir : service \subseteq names /\ toread' = names
        /\ scan' = "read" /\ UNCHANGED svFailed
     \/ scan' = "sleep" /\ Fail /\ UNCHANGED toread
  /\ UNCHANGED <<service, proc>>

Known(d) == \E e \in x : e.dir = d
New(d)   == [dir |-> d, active |-> FALSE, pid |-> 0, pidlog |-> 0,
             pipe |-> IF d \in LogDir THEN Fresh(Pipes) ELSE 0]

(* start(), where it returns without an entry: the directory has gone, the *)
(* table is full, stat() or pipe() fails.                                  *)
StartNot(d) ==
  /\ scan = "read" /\ d \in toread /\ toread' = toread \ {d}
  /\ \/ /\ d \notin service \/ (~Known(d) /\ Cardinality(x) >= SERVICES)
        /\ UNCHANGED svFailed
     \/ d \in service /\ Fail
  /\ UNCHANGED <<service, x, proc, scan>>

(* start(): the entry of d, an old or a new one, gets the process ids p of *)
(* the service and q of its log; the first fork() that fails ends it.      *)
StartDir(d) ==
  /\ scan = "read" /\ d \in toread /\ toread' = toread \ {d}
  /\ d \in service /\ (Known(d) \/ Cardinality(x) < SERVICES)
  /\ LET e == IF Known(d) THEN CHOOSE e \in x : e.dir = d ELSE New(d)
         p == IF e.pid = 0 THEN Fresh(Pids \union {0}) ELSE e.pid
         q == IF e.pipe # 0 /\ e.pidlog = 0 THEN Fresh(Pids \union {0, p}) ELSE e.pidlog
     IN \E r \in {<<p, q>>, <<p, e.pidlog>>, <<e.pid, e.pidlog>>} :
          /\ IF r = <<p, q>> THEN UNCHANGED svFailed ELSE Fail
          /\ x' = (x \ {e}) \union {[e EXCEPT !.active = TRUE, !.pid = r[1], !.pidlog = r[2]]}
          /\ proc' = proc \union
               {[pid |-> n, dir |-> d, log |-> n = r[2], pipe |-> e.pipe, dead |-> FALSE] :
                  n \in {r[1], r[2]} \ ({0} \union Pids)}
  /\ UNCHANGED <<service, scan>>

ReadError ==
  /\ scan = "read" /\ scan' = "sleep" /\ toread' = {} /\ Fail
  /\ UNCHANGED <<service, x, proc>>

(* The whole directory was read: entries that it does not have any more    *)
(* and that have no process are removed, their pipes closed.               *)
IdleMain(e) == ~e.active /\ e.pid = 0     \* a mutant: the log may still run
Idle(e)     == ~e.active /\ e.pid = 0 /\ e.pidlog = 0

EndOfScan ==
  /\ scan = "read" /\ toread = {} /\ scan' = "sleep"
  /\ x' = {e \in x : ~Idle(e)}
  /\ UNCHANGED <<service, proc, toread, svFailed>>

FiveSeconds ==
  /\ scan = "sleep" /\ scan' = "reap"
  /\ UNCHANGED <<service, x, proc, toread, svFailed>>

(* Directories are linked into /service and removed; a supervise ends.     *)
Place(d) ==
  /\ service' = IF d \in service THEN service \ {d} ELSE service \union {d}
  /\ UNCHANGED <<x, proc, scan, toread, svFailed>>

Die(p) ==
  /\ ~p.dead
  /\ proc' = (proc \ {p}) \union {[p EXCEPT !.dead = TRUE]}
  /\ UNCHANGED <<service, x, scan, toread, svFailed>>

-----------------------------------------------------------------------------
SvscanStep ==
  \/ Opendir \/ ReadError \/ EndOfScan \/ FiveSeconds
  \/ \E p \in proc : Reap(p)
  \/ \E d \in Dir : StartNot(d) \/ StartDir(d)

SvscanNext ==
  SvscanStep \/ (\E d \in Dir : Place(d)) \/ (\E p \in proc : Die(p))

SvscanSpec == SvscanInit /\ [][SvscanNext]_svscanVars

-----------------------------------------------------------------------------
(* No directory has two supervise processes, whatever comes, goes or dies  *)
(* while it is read; a service writes where its log reads, also after      *)
(* either was started again, and svscan holds that pipe while one is left, *)
(* so that nothing written is lost with a log that ends.                   *)
OneEach  == \A p, q \in proc : p.dir = q.dir /\ p.log = q.log => p = q
SamePipe == \A p, q \in proc : p.dir = q.dir => p.pipe = q.pipe
PipeHeld == \A p \in proc : \E e \in x : e.dir = p.dir /\ e.pipe = p.pipe
SvscanSafe == OneEach /\ SamePipe /\ PipeHeld /\ Cardinality(x) <= SERVICES

(* A directory that stays has its supervise and the one of its log, unless *)
(* the table is full without it.                                           *)
Runs(d, log) == \E p \in proc : p.dir = d /\ p.log = log /\ ~p.dead
Supervised ==
  \A d \in Dir, log \in BOOLEAN :
    d \in service /\ (log => d \in LogDir) /\ ~Runs(d, log)
      ~> Runs(d, log) \/ d \notin service \/ (~Known(d) /\ Cardinality(x) >= SERVICES)
=============================================================================
