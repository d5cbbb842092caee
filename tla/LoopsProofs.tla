----------------------------- MODULE LoopsProofs ----------------------------
(***************************************************************************)
(* The safety of loops that wait for several things: SuperviseSafe of      *)
(* Supervise, for any set of process ids, any number of commands and whether*)
(* or not fork() can fail; SvscanSafe of Svscan, for any directories, any  *)
(* size of the table and any number of failures; CountTrue of Tcpserver, for*)
(* any number of clients and any limit; NoMissedWakeup of Trigger, for any *)
(* number of messages and failures, with or without HASNAMEDPIPEBUG1;      *)
(* MultilogSafe of Multilog, for any size and number of files, any text and*)
(* any number of deaths.                                                   *)
(***************************************************************************)
EXTENDS Trigger, Supervise, Svscan, Tcpserver, Multilog, FiniteSetTheorems, SequenceTheorems,
        WellFoundedInduction, TLAPS

(* Between two system calls as well: a death has been signalled and the    *)
(* signal is pending or has left its byte; the status is behind only after *)
(* a failed announce(); a service wanted up is down before Boot, after the *)
(* end or for a failed fork() only.                                        *)
Signalled == Died => sigchld \/ selfpipe
Told      == status = Now \/ status = Old
Reason    == svpc \notin {"boot", "gone"} /\ flagwant /\ flagwantup /\ pid = 0 => unforked
Unstarted == svpc = "boot" => pid = 0

SuperviseInv == SuperviseTypeOK /\ KnownChild /\ Signalled /\ Told /\ Reason /\ Unstarted

LEMMA SuperviseInitOK == SuperviseInit => SuperviseInv
  <1> SUFFICES ASSUME SuperviseInit PROVE SuperviseInv  OBVIOUS
  <1> USE SuperviseAssumption DEF SuperviseInit
  <1>1. SuperviseTypeOK
    <2>1. st \in [Kid -> {"run", "stop", "zombie", "gone"}]  OBVIOUS
    <2>2. control \in Seq(Command)  OBVIOUS
    <2>3. flagwantup \in BOOLEAN  OBVIOUS
    <2>4. termed \subseteq Kid /\ pid \in Kid \union {0} /\ svpc = "boot"
      OBVIOUS
    <2> QED  BY <2>1, <2>2, <2>3, <2>4 DEF SuperviseTypeOK
  <1>2. KnownChild  BY DEF KnownChild
  <1>3. Signalled  BY DEF Signalled, Died
  <1>4. Told  BY DEF Told, Now, Status
  <1>5. Reason /\ Unstarted  BY DEF Reason, Unstarted
  <1> QED  BY <1>1, <1>2, <1>3, <1>4, <1>5 DEF SuperviseInv

(* Where no child is left, trystart() leaves one child that supervise      *)
(* knows, or the reason why there is none.                                 *)
LEMMA TryStartOK ==
  ASSUME SuperviseTypeOK, NEW b \in BOOLEAN,
         NEW s \in [Kid -> {"run", "stop", "zombie", "gone"}],
         \A k \in Kid : s[k] = "gone", TryStart(s, b)
  PROVE  /\ pid' \in Kid \union {0} /\ selfpipe' \in BOOLEAN /\ flagpaused' \in BOOLEAN
         /\ st' \in [Kid -> {"run", "stop", "zombie", "gone"}]
         /\ termed' \subseteq Kid /\ unforked' \in BOOLEAN
         /\ KnownChild' /\ ~Died' /\ (pid' = 0 => unforked')
  <1> USE SuperviseAssumption DEF SuperviseTypeOK, KnownChild, Died
  <1>1. CASE \E k \in Kid : /\ s[k] = "gone" /\ st' = [s EXCEPT ![k] = "run"]
                            /\ pid' = k /\ termed' = termed \ {k} /\ flagpaused' = FALSE
                            /\ selfpipe' = b /\ unforked' = FALSE
    BY <1>1
  <1>2. CASE /\ st' = s /\ pid' = 0 /\ selfpipe' = TRUE /\ unforked' = TRUE
             /\ UNCHANGED <<flagpaused, termed>>
    BY <1>2
  <1> QED  BY <1>1, <1>2 DEF TryStart

(* Before the first start and while the service is down nobody runs.       *)
LEMMA DownGone == ASSUME SuperviseInv, pid = 0 PROVE \A k \in Kid : st[k] = "gone"
  BY SuperviseAssumption DEF SuperviseInv, KnownChild

LEMMA BuriedOK ==
  ASSUME SuperviseInv
  PROVE  /\ Buried \in [Kid -> {"run", "stop", "zombie", "gone"}]
         /\ Died => \A k \in Kid : Buried[k] = "gone"
         /\ ~Died => Buried = st
  <1> USE SuperviseAssumption DEF SuperviseInv, SuperviseTypeOK, KnownChild, Buried, Died
  <1>1. Buried \in [Kid -> {"run", "stop", "zombie", "gone"}]  OBVIOUS
  <1>2. Died => \A k \in Kid : Buried[k] = "gone"  OBVIOUS
  <1>3. ASSUME ~Died PROVE Buried = st
    <2>1. \A k \in Kid : st[k] # "zombie"  BY <1>3
    <2>2. \A k \in Kid : Buried[k] = st[k]  BY <2>1
    <2> QED  BY <2>2
  <1> QED  BY <1>1, <1>2, <1>3

(* An action that starts the service, or would if it were down, and        *)
(* announces.                                                              *)
LEMMA StartOK ==
  ASSUME SuperviseInv, NEW b \in BOOLEAN,
         NEW s \in [Kid -> {"run", "stop", "zombie", "gone"}],
         \A k \in Kid : s[k] = "gone", TryStart(s, b), Announce,
         svpc' \in {"pause", "command", "gone"}, flagwant' \in BOOLEAN,
         flagwantup' \in BOOLEAN, flagexit' \in BOOLEAN, sigchld' \in BOOLEAN,
         control' \in Seq(Command)
  PROVE  SuperviseInv'
  <1>0. /\ pid' \in Kid \union {0} /\ selfpipe' \in BOOLEAN /\ flagpaused' \in BOOLEAN
        /\ st' \in [Kid -> {"run", "stop", "zombie", "gone"}]
        /\ termed' \subseteq Kid /\ unforked' \in BOOLEAN
        /\ KnownChild' /\ ~Died' /\ (pid' = 0 => unforked')
    BY TryStartOK DEF SuperviseInv
  <1>1. SuperviseTypeOK'  BY <1>0 DEF SuperviseTypeOK
  <1>2. Signalled'  BY <1>0 DEF Signalled
  <1>3. Told'  BY DEF Told, Announce
  <1>4. Reason' /\ Unstarted'  BY <1>0 DEF Reason, Unstarted
  <1> QED  BY <1>0, <1>1, <1>2, <1>3, <1>4 DEF SuperviseInv

LEMMA BootOK == ASSUME SuperviseInv, Boot PROVE SuperviseInv'
  <1> USE DEF SuperviseInv, Boot
  <1>0. pid = 0 /\ \A k \in Kid : st[k] = "gone"  BY DownGone DEF Unstarted
  <1>1. CASE flagwantup
    BY <1>0, <1>1, StartOK DEF SuperviseTypeOK
  <1>2. CASE ~flagwantup
    <2>1. SuperviseTypeOK'  BY <1>2 DEF SuperviseTypeOK, kids
    <2>2. KnownChild' /\ Signalled'
      BY <1>2 DEF KnownChild, Signalled, Died, kids
    <2>3. Told'  BY DEF Told, Announce
    <2>4. Reason' /\ Unstarted'  BY <1>2 DEF Reason, Unstarted
    <2> QED  BY <2>1, <2>2, <2>3, <2>4
  <1> QED  BY <1>1, <1>2 DEF SuperviseTypeOK

(* The wait, the handler and the fifo.                                     *)
LEMMA WaitOK == ASSUME SuperviseInv, SvWake \/ SvTimeout \/ SvSigchld \/ Svc PROVE SuperviseInv'
  <1> USE DEF SuperviseInv, SvWake, SvTimeout, SvSigchld, Svc, flags, kids
  <1>1. UNCHANGED <<flagwant, flagwantup, flagexit, flagpaused, pid, status, st, termed, unforked>>
    OBVIOUS
  <1>2. SuperviseTypeOK'
    <2>1. control' \in Seq(Command)  BY DEF SuperviseTypeOK
    <2>2. sigchld' \in BOOLEAN /\ selfpipe' \in BOOLEAN  BY DEF SuperviseTypeOK
    <2>3. svpc' \in {"boot", "pause", "reap", "command", "gone"}  BY DEF SuperviseTypeOK
    <2> QED  BY <1>1, <2>1, <2>2, <2>3 DEF SuperviseTypeOK
  <1>3. KnownChild' /\ Told'  BY <1>1 DEF KnownChild, Told, Now
  <1>4. Signalled'  BY <1>1 DEF Signalled, Died
  <1>5. Reason' /\ Unstarted'  BY <1>1 DEF Reason, Unstarted
  <1> QED  BY <1>2, <1>3, <1>4, <1>5

LEMMA ReapNoneOK == ASSUME SuperviseInv, ReapNone PROVE SuperviseInv'
  <1> USE DEF SuperviseInv, ReapNone, flags
  <1>0. st' = st  BY BuriedOK
  <1>1. SuperviseTypeOK'  BY <1>0 DEF SuperviseTypeOK
  <1>2. KnownChild' /\ Told'  BY <1>0 DEF KnownChild, Told, Now
  <1>3. Signalled'  BY <1>0 DEF Signalled, Died
  <1>4. Reason' /\ Unstarted'  BY DEF Reason, Unstarted
  <1> QED  BY <1>1, <1>2, <1>3, <1>4

LEMMA ReapRestartOK == ASSUME SuperviseInv, ReapRestart PROVE SuperviseInv'
  BY BuriedOK, StartOK DEF ReapRestart, SuperviseInv, SuperviseTypeOK

(* The service ended and is not wanted any more.                           *)
LEMMA ReapDownOK == ASSUME SuperviseInv, ReapDown PROVE SuperviseInv'
  <1> USE DEF SuperviseInv, ReapDown, flags
  <1>0. st' = Buried /\ st' \in [Kid -> {"run", "stop", "zombie", "gone"}]
        /\ \A k \in Kid : st'[k] = "gone"
    BY BuriedOK
  <1>1. SuperviseTypeOK'  BY <1>0 DEF SuperviseTypeOK
  <1>2. KnownChild' /\ Signalled'
    BY <1>0, SuperviseAssumption DEF KnownChild, Signalled, Died
  <1>3. Told'  BY DEF Told, Announce
  <1>4. Reason' /\ Unstarted'  BY DEF Reason, Unstarted
  <1> QED  BY <1>1, <1>2, <1>3, <1>4

(* A command is taken from the fifo, the service goes from s to s' by a    *)
(* signal, and the flags that changed are announced.                       *)
LEMMA SignalOK ==
  ASSUME SuperviseInv, svpc' \in {"pause", "gone"}, control' \in Seq(Command),
         NEW s \in {"run", "stop", "zombie"}, To(s) \/ st' = st, Raised \/ (st' = st /\ sigchld' = sigchld),
         UNCHANGED <<pid, selfpipe, unforked>>, termed' \subseteq Kid, Told',
         flagwant' \in BOOLEAN, flagwantup' \in BOOLEAN,
         flagexit' \in BOOLEAN, flagpaused' \in BOOLEAN,
         svpc' = "gone" \/ (flagwant' /\ flagwantup' => flagwant /\ flagwantup),
         svpc = "command"
  PROVE  SuperviseInv'
  <1> USE SuperviseAssumption DEF SuperviseInv
  <1>1. /\ st' \in [Kid -> {"run", "stop", "zombie", "gone"}]
        /\ \A k \in Kid : (st'[k] = "gone") <=> (st[k] = "gone")
    BY DEF SuperviseTypeOK, To, Alive
  <1>2. sigchld' \in BOOLEAN /\ (sigchld => sigchld') /\ (st' # st => sigchld')
    BY DEF SuperviseTypeOK, Raised
  <1>3. SuperviseTypeOK'  BY <1>1, <1>2 DEF SuperviseTypeOK
  <1>4. KnownChild'
    <2>1. \A k \in Kid : st'[k] # "gone" => k = pid'  BY <1>1 DEF KnownChild
    <2>2. pid' # 0 => st'[pid'] # "gone"  BY <1>1 DEF KnownChild, SuperviseTypeOK
    <2> QED  BY <2>1, <2>2 DEF KnownChild
  <1>5. Signalled'  BY <1>2 DEF Signalled, Died
  <1>6. Reason' /\ Unstarted'  BY DEF Reason, Unstarted
  <1> QED  BY <1>3, <1>4, <1>5, <1>6

LEMMA AgainOK == ASSUME Again PROVE svpc' \in {"pause", "gone"}
  BY DEF Again

LEMMA ReadOK ==
  ASSUME SuperviseInv, NEW c, Read(c)
  PROVE  svpc = "command" /\ control' \in Seq(Command)
  BY DEF Read, SuperviseInv, SuperviseTypeOK

LEMMA NoCommandOK == ASSUME SuperviseInv, NoCommand PROVE SuperviseInv'
  <1>1. Told'  BY DEF SuperviseInv, NoCommand, Told, Now, flags
  <1> QED  BY <1>1, SignalOK, AgainOK DEF NoCommand, SuperviseInv, SuperviseTypeOK, flags, kids

LEMMA TermOK == ASSUME SuperviseInv, Term PROVE termed' \subseteq Kid
  BY SuperviseAssumption DEF Term, Alive, SuperviseInv, SuperviseTypeOK

(* The commands that only send a signal, or only set a flag.               *)
LEMMA CmdSignalOK ==
  ASSUME SuperviseInv, CmdDown \/ CmdTerm \/ CmdKill \/ CmdPause \/ CmdCont \/ CmdExit
  PROVE  SuperviseInv'
  <1>1. CASE CmdDown
    <2>1. Told'  BY <1>1 DEF CmdDown, Told, Announce
    <2>2. svpc' \in {"pause", "gone"} /\ svpc = "command" /\ control' \in Seq(Command)
          /\ termed' \subseteq Kid
      BY <1>1, AgainOK, ReadOK, TermOK DEF CmdDown
    <2>3. flagpaused' \in BOOLEAN /\ flagexit' \in BOOLEAN
      BY <1>1 DEF CmdDown, SuperviseInv, SuperviseTypeOK
    <2> QED  BY <1>1, <2>1, <2>2, <2>3, SignalOK DEF CmdDown
  <1>2. CASE CmdTerm
    <2>1. Told'  BY <1>2 DEF CmdTerm, Told, Now, flags, SuperviseInv
    <2>2. svpc' \in {"pause", "gone"} /\ svpc = "command" /\ control' \in Seq(Command)
          /\ termed' \subseteq Kid
      BY <1>2, AgainOK, ReadOK, TermOK DEF CmdTerm
    <2> QED  BY <1>2, <2>1, <2>2, SignalOK DEF CmdTerm, flags, SuperviseInv, SuperviseTypeOK
  <1>3. CASE CmdKill
    <2>1. Told'  BY <1>3 DEF CmdKill, Told, Now, flags, SuperviseInv
    <2>2. svpc' \in {"pause", "gone"} /\ svpc = "command" /\ control' \in Seq(Command)
      BY <1>3, AgainOK, ReadOK DEF CmdKill
    <2> QED  BY <1>3, <2>1, <2>2, SignalOK DEF CmdKill, flags, SuperviseInv, SuperviseTypeOK
  <1>4. CASE CmdPause
    <2>1. Told'  BY <1>4 DEF CmdPause, Told, Announce
    <2>2. svpc' \in {"pause", "gone"} /\ svpc = "command" /\ control' \in Seq(Command)
      BY <1>4, AgainOK, ReadOK DEF CmdPause
    <2> QED  BY <1>4, <2>1, <2>2, SignalOK DEF CmdPause, SuperviseInv, SuperviseTypeOK
  <1>5. CASE CmdCont
    <2>1. Told'  BY <1>5 DEF CmdCont, Told, Announce
    <2>2. svpc' \in {"pause", "gone"} /\ svpc = "command" /\ control' \in Seq(Command)
      BY <1>5, AgainOK, ReadOK DEF CmdCont
    <2> QED  BY <1>5, <2>1, <2>2, SignalOK DEF CmdCont, SuperviseInv, SuperviseTypeOK
  <1>6. CASE CmdExit
    <2>1. Told'  BY <1>6 DEF CmdExit, Told, Announce
    <2>2. svpc' \in {"pause", "gone"} /\ svpc = "command" /\ control' \in Seq(Command)
      BY <1>6, AgainOK, ReadOK DEF CmdExit
    <2> QED  BY <1>6, <2>1, <2>2, SignalOK DEF CmdExit, kids, SuperviseInv, SuperviseTypeOK
  <1> QED  BY <1>1, <1>2, <1>3, <1>4, <1>5, <1>6

(* u and o leave a running service alone.                                  *)
LEMMA CmdStartOK == ASSUME SuperviseInv, CmdUp \/ CmdOnce PROVE SuperviseInv'
  <1> USE SuperviseAssumption
  <1>1. svpc' \in {"pause", "gone"} /\ svpc = "command" /\ control' \in Seq(Command)
    BY AgainOK, ReadOK DEF CmdUp, CmdOnce
  <1>2. flagwant' \in BOOLEAN /\ flagwantup' \in BOOLEAN
        /\ flagexit' \in BOOLEAN /\ sigchld' \in BOOLEAN
    BY DEF CmdUp, CmdOnce, SuperviseInv, SuperviseTypeOK
  <1>3. Announce  BY DEF CmdUp, CmdOnce
  <1>4. CASE IsDown
    <2>1. \A k \in Kid : st[k] = "gone"  BY <1>4, DownGone DEF IsDown
    <2>2. TryStart(st, selfpipe)  BY <1>4 DEF CmdUp, CmdOnce
    <2>3. st \in [Kid -> {"run", "stop", "zombie", "gone"}] /\ selfpipe \in BOOLEAN
      BY DEF SuperviseInv, SuperviseTypeOK
    <2> QED  BY <1>1, <1>2, <1>3, <2>1, <2>2, <2>3, StartOK
  <1>5. CASE ~IsDown
    <2>0. UNCHANGED <<st, termed, pid, selfpipe, flagpaused, unforked, sigchld>> /\ pid # 0
      BY <1>5 DEF CmdUp, CmdOnce, IsDown, kids
    <2>1. SuperviseTypeOK'  BY <1>1, <1>2, <2>0 DEF SuperviseInv, SuperviseTypeOK
    <2>2. KnownChild'  BY <2>0 DEF SuperviseInv, KnownChild
    <2>3. Signalled'  BY <2>0 DEF SuperviseInv, Signalled, Died
    <2>5. Reason' /\ Unstarted'  BY <1>1, <2>0 DEF Reason, Unstarted
    <2>4. Told'  BY <1>3 DEF Told, Announce
    <2> QED  BY <2>1, <2>2, <2>3, <2>4, <2>5 DEF SuperviseInv
  <1> QED  BY <1>4, <1>5

LEMMA KidExitOK == ASSUME SuperviseInv, NEW k \in Kid, KidExit(k) PROVE SuperviseInv'
  <1> USE SuperviseAssumption DEF SuperviseInv, KidExit, flags
  <1>1. SuperviseTypeOK'  BY DEF SuperviseTypeOK
  <1>2. KnownChild'  BY DEF KnownChild, SuperviseTypeOK
  <1>3. Signalled'  BY DEF Signalled
  <1>4. Told'  BY DEF Told, Now
  <1>5. Reason' /\ Unstarted'  BY DEF Reason, Unstarted
  <1> QED  BY <1>1, <1>2, <1>3, <1>4, <1>5

LEMMA SuperviseInvariance == SuperviseSpec => []SuperviseInv
  <1>1. SuperviseInv /\ [SuperviseNext]_svVars => SuperviseInv'
    <2> SUFFICES ASSUME SuperviseInv, [SuperviseNext]_svVars PROVE SuperviseInv'  OBVIOUS
    <2>1. CASE SuperviseNext
      BY <2>1, BootOK, WaitOK, ReapNoneOK, ReapRestartOK, ReapDownOK, NoCommandOK,
         CmdSignalOK, CmdStartOK, KidExitOK DEF SuperviseNext, SuperviseStep
    <2>2. CASE UNCHANGED svVars
      <3> USE <2>2 DEF svVars, flags, kids, SuperviseInv
      <3>1. SuperviseTypeOK'  BY DEF SuperviseTypeOK
      <3>2. KnownChild' /\ Told'  BY DEF KnownChild, Told, Now
      <3>3. Signalled' /\ Reason' /\ Unstarted'
        BY DEF Signalled, Died, Reason, Unstarted
      <3> QED  BY <3>1, <3>2, <3>3
    <2> QED  BY <2>1, <2>2
  <1> QED  BY SuperviseInitOK, <1>1, PTL DEF SuperviseSpec

(* However commands of svc, deaths of the service and failures of fork()   *)
(* and announce() fall together, supervise.c has at most one child and     *)
(* knows it, has the signal of its death before it waits, shows svstat its *)
(* true state unless its last announce() failed, and leaves a service that *)
(* is wanted up down only when fork() failed.                              *)
THEOREM SuperviseHolds == SuperviseSpec => []SuperviseSafe
  <1>1. SuperviseInv => SuperviseSafe
    BY DEF SuperviseInv, SuperviseSafe, DeathNoticed, StatusTrue, DownReason,
           Signalled, Told, Reason
  <1> QED  BY SuperviseInvariance, <1>1, PTL
-----------------------------------------------------------------------------
(* svscan: what its table, its children and the numbers of both have to do *)
(* with each other between any two steps.  An entry is for a directory,    *)
(* each child is in the entry of its directory, by its number and with the *)
(* pipe it was given, and no number in the table is that of a process that *)
(* svscan has waited for.                                                  *)
Entry == [dir : Dir, active : BOOLEAN, pid : Nat, pidlog : Nat, pipe : Nat]
Child == [pid : Nat \ {0}, dir : Dir, log : BOOLEAN, pipe : Nat, dead : BOOLEAN]
Its(e, p) == /\ e.dir = p.dir /\ e.pipe = p.pipe
             /\ p.pid = IF p.log THEN e.pidlog ELSE e.pid

SvscanTypes == /\ x \subseteq Entry /\ proc \subseteq Child
               /\ IsFiniteSet(x) /\ IsFiniteSet(Pids) /\ IsFiniteSet(Pipes)
OneEntry == \A e, f \in x : e.dir = f.dir => e = f
OnePid   == \A p, q \in proc : p.pid = q.pid => p = q
Entered  == \A p \in proc : \E e \in x : Its(e, p)
NoneGone == \A e \in x : {e.pid, e.pidlog} \subseteq Pids \union {0}
Small    == Cardinality(x) <= SERVICES

SvscanInv == SvscanTypes /\ OneEntry /\ OnePid /\ Entered /\ NoneGone /\ Small

(* The kernel has a number that is not in use.                             *)
LEMMA FreshNew ==
  ASSUME NEW used, IsFiniteSet(used)
  PROVE  Fresh(used) \in Nat /\ Fresh(used) \notin used
  <1> DEFINE c == Cardinality(used)
  <1>1. c \in Nat  BY FS_CardinalityType
  <1>2. \E n \in 0 .. c : n \notin used
    <2> SUFFICES ASSUME 0 .. c \in SUBSET used PROVE FALSE  OBVIOUS
    <2>1. Cardinality(0 .. c) = c + 1  BY <1>1, FS_Interval
    <2>2. Cardinality(0 .. c) <= c  BY FS_Subset
    <2> QED  BY <1>1, <2>1, <2>2
  <1>3. Fresh(used) \in 0 .. c /\ Fresh(used) \notin used  BY <1>2 DEF Fresh
  <1> QED  BY <1>1, <1>3

(* A change of each entry makes the table no larger.                       *)
LEMMA NoLarger ==
  ASSUME NEW S, IsFiniteSet(S), NEW T, NEW g \in [S -> T]
  PROVE  LET R == {g[e] : e \in S}
         IN  IsFiniteSet(R) /\ Cardinality(R) <= Cardinality(S)
  <1> DEFINE R == {g[e] : e \in S}
  <1>1. g \in Surjection(S, R)  BY DEF Surjection
  <1> QED  BY <1>1, FS_Surjection

(* Below the limit there is room for one more.                            *)
LEMMA OneMore ==
  ASSUME NEW S, NEW a, IsFiniteSet(S), NEW n \in Nat, Cardinality(S) \in Nat, Cardinality(S) < n
  PROVE  IsFiniteSet(S \union {a}) /\ Cardinality(S \union {a}) <= n
  <1>1. Cardinality(S \union {a}) = IF a \in S THEN Cardinality(S) ELSE Cardinality(S) + 1
    BY FS_AddElement
  <1>2. IsFiniteSet(S \union {a})  BY FS_AddElement
  <1> QED  BY <1>1, <1>2

(* The sets of numbers in use stay finite when they lose members.          *)
LEMMA FewerFinite ==
  ASSUME SvscanTypes, Pids' \subseteq Pids, Pipes' \subseteq Pipes
  PROVE  IsFiniteSet(Pids') /\ IsFiniteSet(Pipes')
  BY FS_Subset DEF SvscanTypes

LEMMA SvscanInitOK == SvscanInit => SvscanInv
  <1> SUFFICES ASSUME SvscanInit PROVE SvscanInv  OBVIOUS
  <1>1. Pids = {} /\ Pipes = {0}  BY DEF SvscanInit, Pids, Pipes
  <1>2. SvscanTypes
    BY <1>1, FS_EmptySet, FS_Singleton DEF SvscanInit, SvscanTypes
  <1>3. Small  BY FS_EmptySet, SvscanAssumption DEF SvscanInit, Small
  <1> QED
    BY <1>2, <1>3 DEF SvscanInit, SvscanInv, OneEntry, OnePid, Entered, NoneGone

LEMMA ReapOK == ASSUME SvscanInv, NEW p \in proc, Reap(p) PROVE SvscanInv'
  <1> USE DEF SvscanInv, SvscanTypes
  <1> DEFINE rest(n) == IF n = p.pid THEN 0 ELSE n
             g == [e \in x |-> [e EXCEPT !.pid = rest(@), !.pidlog = rest(@)]]
  <1>1. \A e \in x : /\ g[e] \in Entry /\ g[e].dir = e.dir /\ g[e].pipe = e.pipe
                     /\ g[e].pid = rest(e.pid) /\ g[e].pidlog = rest(e.pidlog)
    BY DEF Entry
  <1>2. x' = {g[e] : e \in x} /\ proc' = proc \ {p}  BY DEF Reap
  <1> HIDE DEF g
  <1>3. g \in [x -> Entry]  BY <1>1 DEF g
  <1>4. IsFiniteSet(x') /\ Cardinality(x') <= Cardinality(x)
    BY <1>2, <1>3, NoLarger
  <1>5. Pids' = Pids \ {p.pid}  BY <1>2 DEF Pids, OnePid
  <1>6. Pipes' \subseteq Pipes  BY <1>1, <1>2 DEF Pipes
  <1>7. SvscanTypes'
    BY <1>1, <1>2, <1>4, <1>5, <1>6, FewerFinite
  <1>8. OneEntry'  BY <1>1, <1>2 DEF OneEntry
  <1>9. OnePid'  BY <1>2 DEF OnePid
  <1>10. Entered'
    <2> SUFFICES ASSUME NEW q \in proc, q # p PROVE \E e \in x : Its(g[e], q)
      BY <1>2 DEF Entered
    <2>1. PICK e \in x : Its(e, q)  BY DEF Entered
    <2>2. q.pid # p.pid  BY DEF OnePid
    <2> QED  BY <1>1, <2>1, <2>2 DEF Its
  <1>11. NoneGone'  BY <1>1, <1>2, <1>5 DEF NoneGone
  <1>12. Small'
    BY <1>4, FS_CardinalityType, SvscanAssumption DEF Small
  <1> QED  BY <1>7, <1>8, <1>9, <1>10, <1>11, <1>12

LEMMA OpendirOK == ASSUME SvscanInv, Opendir PROVE SvscanInv'
  <1> USE DEF SvscanInv, SvscanTypes
  <1> DEFINE g == [e \in x |-> [e EXCEPT !.active = FALSE]]
  <1>1. \A e \in x : /\ g[e] \in Entry /\ g[e].dir = e.dir /\ g[e].pipe = e.pipe
                     /\ g[e].pid = e.pid /\ g[e].pidlog = e.pidlog
    BY DEF Entry
  <1>2. x' = {g[e] : e \in x} /\ proc' = proc  BY DEF Opendir
  <1> HIDE DEF g
  <1>3. g \in [x -> Entry]  BY <1>1 DEF g
  <1>4. IsFiniteSet(x') /\ Cardinality(x') <= Cardinality(x)
    BY <1>2, <1>3, NoLarger
  <1>5. Pids' = Pids  BY <1>2 DEF Pids
  <1>6. Pipes' \subseteq Pipes  BY <1>1, <1>2 DEF Pipes
  <1>7. SvscanTypes'
    BY <1>1, <1>2, <1>4, <1>5, <1>6, FewerFinite
  <1>8. OneEntry'  BY <1>1, <1>2 DEF OneEntry
  <1>9. OnePid' /\ NoneGone'  BY <1>1, <1>2, <1>5 DEF OnePid, NoneGone
  <1>10. Entered'
    <2> SUFFICES ASSUME NEW q \in proc PROVE \E e \in x : Its(g[e], q)
      BY <1>2 DEF Entered
    <2>1. PICK e \in x : Its(e, q)  BY DEF Entered
    <2> QED  BY <1>1, <2>1 DEF Its
  <1>11. Small'
    BY <1>4, FS_CardinalityType, SvscanAssumption DEF Small
  <1> QED  BY <1>7, <1>8, <1>9, <1>10, <1>11

(* start() with an old or a new entry, whichever of its fork()s succeed:   *)
(* only what was 0 in the entry changes, to a number that nobody has.      *)
LEMMA StartDirOK == ASSUME SvscanInv, NEW d \in Dir, StartDir(d) PROVE SvscanInv'
  <1> USE DEF SvscanInv, SvscanTypes
  <1> DEFINE e == IF Known(d) THEN CHOOSE f \in x : f.dir = d ELSE New(d)
             p == IF e.pid = 0 THEN Fresh(Pids \union {0}) ELSE e.pid
             q == IF e.pipe # 0 /\ e.pidlog = 0 THEN Fresh(Pids \union {0, p}) ELSE e.pidlog
  <1>1. /\ Fresh(Pipes) \in Nat
        /\ Fresh(Pids \union {0}) \in Nat \ (Pids \union {0})
        /\ Fresh(Pids \union {0, p}) \in Nat \ (Pids \union {0, p})
    <2>1. IsFiniteSet(Pids \union {0}) /\ IsFiniteSet((Pids \union {0}) \union {p})
      BY FS_AddElement
    <2>2. (Pids \union {0}) \union {p} = Pids \union {0, p}  OBVIOUS
    <2> QED  BY <2>1, <2>2, FreshNew
  <1>2. /\ e \in Entry /\ e.dir = d /\ {e.pid, e.pidlog} \subseteq Pids \union {0}
        /\ Known(d) => e \in x
        /\ \A f \in x : f # e => f.dir # d
    <2>1. CASE Known(d)
      <3>1. e \in x /\ e.dir = d  BY <2>1 DEF Known
      <3> QED  BY <2>1, <3>1 DEF OneEntry, NoneGone
    <2>2. CASE ~Known(d)
      <3>1. e = New(d)  BY <2>2
      <3>2. New(d) \in Entry /\ New(d).dir = d /\ New(d).pid = 0 /\ New(d).pidlog = 0
        BY <1>1 DEF New, Entry
      <3> QED  BY <2>2, <3>1, <3>2 DEF Known
    <2> QED  BY <2>1, <2>2
  <1>3. PICK r \in {<<p, q>>, <<p, e.pidlog>>, <<e.pid, e.pidlog>>} :
          /\ x' = (x \ {e}) \union {[e EXCEPT !.active = TRUE, !.pid = r[1], !.pidlog = r[2]]}
          /\ proc' = proc \union
               {[pid |-> n, dir |-> d, log |-> n = r[2], pipe |-> e.pipe, dead |-> FALSE] :
                  n \in {r[1], r[2]} \ ({0} \union Pids)}
    BY DEF StartDir
  <1>4. /\ r[1] \in Nat /\ r[2] \in Nat
        /\ e.pid # 0 => r[1] = e.pid
        /\ e.pidlog # 0 => r[2] = e.pidlog
    <2>1. e.pid \in Nat /\ e.pidlog \in Nat  BY <1>2 DEF Entry
    <2>2. p \in Nat /\ (e.pid # 0 => p = e.pid)  BY <1>1, <2>1
    <2>3. q \in Nat /\ (e.pidlog # 0 => q = e.pidlog)  BY <1>1, <2>1
    <2> HIDE DEF e, p, q
    <2> QED  BY <1>3, <2>1, <2>2, <2>3
  <1> DEFINE new == [e EXCEPT !.active = TRUE, !.pid = r[1], !.pidlog = r[2]]
             started == {[pid |-> n, dir |-> d, log |-> n = r[2], pipe |-> e.pipe, dead |-> FALSE] :
                           n \in {r[1], r[2]} \ ({0} \union Pids)}
  <1>5. /\ new \in Entry /\ new.dir = d /\ new.pipe = e.pipe
        /\ new.pid = r[1] /\ new.pidlog = r[2]
    <2> HIDE DEF e, p, q
    <2> QED  BY <1>2, <1>4 DEF Entry
  <1>6. \A c \in started :
          /\ c \in Child /\ c.pid \notin Pids /\ c.pid \in {r[1], r[2]} /\ Its(new, c)
          /\ \A b \in started : b.pid = c.pid => b = c
    <2> HIDE DEF new, e, p, q
    <2>1. e.pipe \in Nat  BY <1>2 DEF Entry
    <2> DEFINE c(n) == [pid |-> n, dir |-> d, log |-> n = r[2], pipe |-> e.pipe, dead |-> FALSE]
    <2>2. ASSUME NEW n \in {r[1], r[2]} \ ({0} \union Pids)
          PROVE  c(n) \in Child /\ c(n).pid = n /\ Its(new, c(n))
      <3>1. n \in Nat \ {0}  BY <1>4
      <3>2. c(n) \in Child  BY <2>1, <3>1 DEF Child
      <3> QED  BY <1>5, <3>2 DEF Its
    <2>3. started = {c(n) : n \in {r[1], r[2]} \ ({0} \union Pids)}  OBVIOUS
    <2> HIDE DEF c, started
    <2> QED  BY <2>2, <2>3
  <1>7. x' = (x \ {e}) \union {new} /\ proc' = proc \union started  BY <1>3
  <1> HIDE DEF e, p, q, new, started
  <1>8. Pids' \subseteq (Pids \union {r[1]}) \union {r[2]}  BY <1>6, <1>7 DEF Pids
  <1>9. {r[1], r[2]} \subseteq Pids' \union {0} /\ Pids \subseteq Pids'
    <2>1. Pids \subseteq Pids'  BY <1>7 DEF Pids
    <2>2. ASSUME NEW n \in {r[1], r[2]} \ ({0} \union Pids)
          PROVE  \E c \in started : c.pid = n
      <3> DEFINE c == [pid |-> n, dir |-> d, log |-> n = r[2], pipe |-> e.pipe, dead |-> FALSE]
      <3>1. c \in started /\ c.pid = n  BY DEF started
      <3> QED  BY <3>1
    <2> QED  BY <1>7, <2>1, <2>2 DEF Pids
  <1>10. Pipes' \subseteq Pipes \union {e.pipe}
    <2>1. \A c \in started : c.pipe = e.pipe  BY <1>5, <1>6 DEF Its
    <2> QED  BY <1>5, <1>7, <2>1 DEF Pipes
  <1>11. IsFiniteSet(Pids') /\ IsFiniteSet(Pipes')
    <2>1. IsFiniteSet((Pids \union {r[1]}) \union {r[2]}) /\ IsFiniteSet(Pipes \union {e.pipe})
      BY FS_AddElement
    <2> QED  BY <1>8, <1>10, <2>1, FS_Subset
  <1>12. IsFiniteSet(x') /\ Small'
    <2>1. IsFiniteSet(x \ {e}) /\ Cardinality(x \ {e}) < SERVICES
      <3>1. CASE e \in x
        <4>1. Cardinality(x \ {e}) = Cardinality(x) - 1  BY <3>1, FS_RemoveElement
        <4>2. Cardinality(x) \in Nat  BY FS_CardinalityType
        <4> QED  BY <4>1, <4>2, FS_RemoveElement, SvscanAssumption DEF Small
      <3>2. CASE e \notin x
        <4>1. Cardinality(x) < SERVICES
          BY <1>2, <3>2, FS_CardinalityType, SvscanAssumption DEF StartDir
        <4> QED  BY <3>2, <4>1, FS_RemoveElement
      <3> QED  BY <3>1, <3>2
    <2>2. Cardinality(x \ {e}) \in Nat  BY <2>1, FS_CardinalityType
    <2> QED  BY <1>7, <2>1, <2>2, OneMore, SvscanAssumption DEF Small
  <1>13. SvscanTypes'  BY <1>5, <1>6, <1>7, <1>11, <1>12
  <1>14. OneEntry'  BY <1>2, <1>5, <1>7 DEF OneEntry
  <1>15. OnePid'  BY <1>6, <1>7 DEF OnePid, Pids
  <1>16. Entered'
    <2> SUFFICES ASSUME NEW c \in proc' PROVE \E f \in x' : Its(f, c)  BY DEF Entered
    <2>1. CASE c \in started  BY <1>6, <1>7, <2>1
    <2>2. CASE c \in proc
      <3>1. PICK f \in x : Its(f, c)  BY <2>2 DEF Entered
      <3>2. CASE f # e  BY <1>7, <3>1, <3>2
      <3>3. CASE f = e
        <4>1. c.pid # 0  BY <2>2 DEF Child
        <4>2. Its(new, c)  BY <1>2, <1>4, <1>5, <3>1, <3>3, <4>1 DEF Its
        <4> QED  BY <1>7, <4>2
      <3> QED  BY <3>2, <3>3
    <2> QED  BY <1>7, <2>1, <2>2
  <1>17. NoneGone'  BY <1>5, <1>7, <1>9 DEF NoneGone
  <1> QED  BY <1>12, <1>13, <1>14, <1>15, <1>16, <1>17

(* Only an entry that has neither child is thrown away.                    *)
LEMMA EndOfScanOK == ASSUME SvscanInv, EndOfScan PROVE SvscanInv'
  <1> USE DEF SvscanInv, SvscanTypes
  <1>1. x' = {e \in x : ~Idle(e)} /\ proc' = proc  BY DEF EndOfScan
  <1>2. Pids' = Pids /\ Pipes' \subseteq Pipes  BY <1>1 DEF Pids, Pipes
  <1>3. IsFiniteSet(x') /\ Small'
    BY <1>1, FS_Subset, FS_CardinalityType, SvscanAssumption DEF Small
  <1>4. SvscanTypes'  BY <1>1, <1>2, <1>3, FewerFinite
  <1>5. Entered'
    <2> SUFFICES ASSUME NEW p \in proc PROVE \E e \in x' : Its(e, p)  BY <1>1 DEF Entered
    <2>1. PICK e \in x : Its(e, p)  BY DEF Entered
    <2>2. p.pid # 0  BY DEF Child
    <2> QED  BY <1>1, <2>1, <2>2 DEF Its, Idle
  <1>6. OneEntry' /\ OnePid' /\ NoneGone'
    BY <1>1, <1>2 DEF OneEntry, OnePid, NoneGone
  <1> QED  BY <1>3, <1>4, <1>5, <1>6

LEMMA DieOK == ASSUME SvscanInv, NEW p \in proc, Die(p) PROVE SvscanInv'
  <1> USE DEF SvscanInv, SvscanTypes
  <1> DEFINE z == [p EXCEPT !.dead = TRUE]
  <1>1. /\ z \in Child /\ z.pid = p.pid /\ z.dir = p.dir
        /\ z.log = p.log /\ z.pipe = p.pipe
    BY DEF Child
  <1>2. proc' = (proc \ {p}) \union {z} /\ x' = x  BY DEF Die
  <1> HIDE DEF z
  <1>3. Pids' = Pids /\ Pipes' \subseteq Pipes  BY <1>1, <1>2 DEF Pids, Pipes
  <1>4. SvscanTypes'  BY <1>1, <1>2, <1>3, FewerFinite
  <1>5. OnePid'  BY <1>1, <1>2 DEF OnePid
  <1>6. Entered'  BY <1>1, <1>2 DEF Entered, Its
  <1>7. OneEntry' /\ NoneGone' /\ Small'
    BY <1>2, <1>3 DEF OneEntry, NoneGone, Small
  <1> QED  BY <1>4, <1>5, <1>6, <1>7

(* The other steps change neither the table nor the children.              *)
LEMMA SameTableOK == ASSUME SvscanInv, UNCHANGED <<x, proc>> PROVE SvscanInv'
  <1>1. Pids' = Pids /\ Pipes' = Pipes  BY DEF Pids, Pipes
  <1> QED
    BY <1>1 DEF SvscanInv, SvscanTypes, OneEntry, OnePid, Entered, NoneGone, Small

LEMMA SvscanInvariance == SvscanSpec => []SvscanInv
  <1>1. SvscanInv /\ [SvscanNext]_svscanVars => SvscanInv'
    <2> SUFFICES ASSUME SvscanInv, [SvscanNext]_svscanVars PROVE SvscanInv'  OBVIOUS
    <2>1. CASE UNCHANGED <<x, proc>>  BY <2>1, SameTableOK
    <2>2. CASE \E p \in proc : Reap(p) \/ Die(p)  BY <2>2, ReapOK, DieOK
    <2>3. CASE Opendir \/ EndOfScan  BY <2>3, OpendirOK, EndOfScanOK
    <2>4. CASE \E d \in Dir : StartDir(d)  BY <2>4, StartDirOK
    <2>5. ReadError \/ FiveSeconds \/ (\E d \in Dir : StartNot(d) \/ Place(d))
            => UNCHANGED <<x, proc>>
      BY DEF ReadError, FiveSeconds, StartNot, Place
    <2>6. UNCHANGED svscanVars => UNCHANGED <<x, proc>>  BY DEF svscanVars
    <2> QED  BY <2>1, <2>2, <2>3, <2>4, <2>5, <2>6 DEF SvscanNext, SvscanStep
  <1> QED  BY SvscanInitOK, <1>1, PTL DEF SvscanSpec

(* Whatever directories come and go, whatever dies, and whichever calls    *)
(* fail while svscan.c reads /service: no directory gets a second          *)
(* supervise, a service and its log share the pipe that svscan holds open, *)
(* and the table never has more entries than its size.                     *)
THEOREM SvscanHolds == SvscanSpec => []SvscanSafe
  <1>1. SvscanInv => SvscanSafe
    <2> SUFFICES ASSUME SvscanInv PROVE SvscanSafe  OBVIOUS
    <2> USE DEF SvscanInv
    <2>1. OneEach
      <3> SUFFICES ASSUME NEW p \in proc, NEW q \in proc, p.dir = q.dir, p.log = q.log
                   PROVE  p = q
        BY DEF OneEach
      <3>1. PICK e \in x : Its(e, p)  BY DEF Entered
      <3>2. PICK f \in x : Its(f, q)  BY DEF Entered
      <3>3. e = f  BY <3>1, <3>2 DEF OneEntry, Its
      <3>4. p.pid = q.pid  BY <3>1, <3>2, <3>3 DEF Its
      <3> QED  BY <3>4 DEF OnePid
    <2>2. SamePipe  BY DEF SamePipe, Entered, OneEntry, Its
    <2>3. PipeHeld  BY DEF PipeHeld, Entered, Its
    <2> QED  BY <2>1, <2>2, <2>3 DEF SvscanSafe, Small
  <1> QED  BY SvscanInvariance, <1>1, PTL

-----------------------------------------------------------------------------
\* A connection is only taken below the limit, and the count can only fall
\* until the fork.
Room == loopAt \in {"accept", "fork"} => numchildren < limit

TcpserverInv == TcpserverTypeOK /\ CountTrue /\ Room

\* Everything counted is finite.
LEMMA Finite ==
  ASSUME NEW state
  PROVE  /\ IsFiniteSet(In(state)) /\ Cardinality(In(state)) \in Nat
         /\ IsFiniteSet(Children) /\ Cardinality(Children) \in Nat
  <1>1. In("served") \subseteq Client /\ In("zombie") \subseteq Client
        /\ In(state) \subseteq Client /\ Children \subseteq Client
    BY DEF In, Children
  <1>2. IsFiniteSet(In(state)) /\ IsFiniteSet(Children)
    BY <1>1, FS_Subset, TcpserverAssumption
  <1> QED  BY <1>2, FS_CardinalityType

\* A child is served or a zombie, not both.
LEMMA Parts == Cardinality(Children) = Cardinality(In("served")) + Cardinality(In("zombie"))
  <1>1. IsFiniteSet(In("served")) /\ IsFiniteSet(In("zombie"))  BY Finite
  <1>2. In("served") \cap In("zombie") = {}  BY DEF In
  <1>3. Cardinality(In("served") \cap In("zombie")) = 0  BY <1>2, FS_EmptySet
  <1>4. Cardinality(In("served") \union In("zombie"))
          = Cardinality(In("served")) + Cardinality(In("zombie"))
              - Cardinality(In("served") \cap In("zombie"))
    BY <1>1, FS_Union
  <1> QED  BY <1>1, <1>3, <1>4, FS_CardinalityType DEF Children

LEMMA TcpserverInitOK == TcpserverInit => TcpserverInv
  <1> SUFFICES ASSUME TcpserverInit PROVE TcpserverInv  OBVIOUS
  <1> USE TcpserverAssumption DEF TcpserverInit
  <1>1. Children = {} /\ In("zombie") = {}  BY DEF Children, In
  <1>2. Cardinality(Children) = 0  BY <1>1, FS_EmptySet
  <1>3. TcpserverTypeOK /\ Room  BY DEF TcpserverTypeOK, Room
  <1> QED  BY <1>1, <1>2, <1>3 DEF TcpserverInv, CountTrue

\* One run of the handler, however many children ended for the one signal,
\* brings the counter down to the children still served.
LEMMA HandledOK ==
  ASSUME TcpserverInv, Handled
  PROVE  /\ conn' \in [Client -> {"no", "waiting", "held", "served", "zombie", "gone"}]
         /\ numchildren' \in Nat /\ chldPending' = FALSE
         /\ CountTrue' /\ numchildren' <= numchildren
  <1> USE DEF Handled
  <1>1. conn' \in [Client -> {"no", "waiting", "held", "served", "zombie", "gone"}]
    BY DEF TcpserverInv, TcpserverTypeOK
  <1>2. In("zombie")' = {} /\ In("served")' = In("served")
    BY DEF TcpserverInv, TcpserverTypeOK, In
  <1>3. Children' = In("served")  BY <1>2 DEF Children
  <1>4. numchildren = Cardinality(In("served")) + Cardinality(In("zombie"))
    BY Parts DEF TcpserverInv, CountTrue
  <1>5. Cardinality(In("served")) \in Nat /\ Cardinality(In("zombie")) \in Nat
    BY Finite
  <1>6. numchildren' = Cardinality(In("served"))  BY <1>4, <1>5
  <1>7. numchildren' <= numchildren /\ numchildren <= limit /\ limit \in Nat
    BY <1>4, <1>5, <1>6, TcpserverAssumption DEF TcpserverInv, CountTrue
  <1>8. CountTrue'
    <2>1. numchildren' = Cardinality(Children')  BY <1>3, <1>6
    <2>2. numchildren' <= limit  BY <1>4, <1>5, <1>6, <1>7
    <2> QED  BY <1>2, <2>1, <2>2 DEF CountTrue
  <1> QED  BY <1>1, <1>5, <1>6, <1>7, <1>8

\* Steps that neither make nor end a child.
LEMMA SameOK ==
  ASSUME TcpserverInv, Children' = Children, In("zombie")' = In("zombie"),
         UNCHANGED <<numchildren, chldPending>>, TcpserverTypeOK', Room'
  PROVE  TcpserverInv'
  BY DEF TcpserverInv, CountTrue

LEMMA LookOK == ASSUME TcpserverInv, Look PROVE TcpserverInv'
  <1> USE TcpserverAssumption DEF Look
  <1>1. Children' = Children /\ In("zombie")' = In("zombie")  BY DEF Children, In
  <1>2. TcpserverTypeOK'  BY DEF TcpserverInv, TcpserverTypeOK
  <1>3. Room'  BY DEF TcpserverInv, TcpserverTypeOK, Room
  <1> QED  BY <1>1, <1>2, <1>3, SameOK

LEMMA SigchldOK == ASSUME TcpserverInv, Sigchld \/ SigchldHolding PROVE TcpserverInv'
  <1>1. /\ conn' \in [Client -> {"no", "waiting", "held", "served", "zombie", "gone"}]
        /\ numchildren' \in Nat /\ chldPending' = FALSE
        /\ CountTrue' /\ numchildren' <= numchildren
    BY HandledOK DEF Sigchld, SigchldHolding
  <1>2. loopAt' \in {"look", "fork"} /\ (loopAt' = "fork" => loopAt = "fork")
    BY DEF Sigchld, SigchldHolding
  <1>3. TcpserverTypeOK'  BY <1>1, <1>2 DEF TcpserverTypeOK
  <1>4. Room'  BY <1>1, <1>2, TcpserverAssumption DEF Room, TcpserverInv, TcpserverTypeOK
  <1> QED  BY <1>1, <1>3, <1>4 DEF TcpserverInv

LEMMA AcceptConnectOK ==
  ASSUME TcpserverInv, NEW c \in Client, Accept(c) \/ Connect(c)
  PROVE  TcpserverInv'
  <1> USE DEF Accept, Connect
  <1>1. TcpserverTypeOK'  BY DEF TcpserverInv, TcpserverTypeOK
  <1>2. In("served")' = In("served") /\ In("zombie")' = In("zombie")
    BY DEF TcpserverInv, TcpserverTypeOK, In
  <1>3. Room'  BY DEF TcpserverInv, Room
  <1> QED  BY <1>1, <1>2, <1>3, SameOK DEF Children

LEMMA ForkOK == ASSUME TcpserverInv, NEW c \in Client, Fork(c) PROVE TcpserverInv'
  <1> USE DEF Fork
  <1>1. TcpserverTypeOK' /\ Room'  BY DEF TcpserverInv, TcpserverTypeOK, Room
  <1>2. In("zombie")' = In("zombie")  BY DEF TcpserverInv, TcpserverTypeOK, In
  <1>3. CASE conn' = [conn EXCEPT ![c] = "gone"] /\ UNCHANGED numchildren
    <2>1. In("served")' = In("served")  BY <1>3 DEF TcpserverInv, TcpserverTypeOK, In
    <2> QED  BY <1>1, <1>2, <1>3, <2>1, SameOK DEF Children
  <1>4. CASE conn' = [conn EXCEPT ![c] = "served"] /\ numchildren' = numchildren + 1
    <2>1. In("served")' = In("served") \union {c}
      BY <1>4 DEF TcpserverInv, TcpserverTypeOK, In
    <2>2. Children' = Children \union {c} /\ c \notin Children
      BY <1>2, <2>1 DEF Children, In
    <2>3. Cardinality(Children') = Cardinality(Children) + 1
      BY <2>2, Finite, FS_AddElement
    <2>4. numchildren' <= limit
      BY <1>4, TcpserverAssumption DEF TcpserverInv, Room, TcpserverTypeOK
    <2> QED  BY <1>1, <1>2, <1>4, <2>3, <2>4 DEF TcpserverInv, CountTrue
  <1> QED  BY <1>3, <1>4

\* A child that ends is still counted, and its signal is pending.
LEMMA ChildEndsOK == ASSUME TcpserverInv, NEW c \in Client, ChildEnds(c) PROVE TcpserverInv'
  <1> USE DEF ChildEnds
  <1>1. TcpserverTypeOK' /\ Room'  BY DEF TcpserverInv, TcpserverTypeOK, Room
  <1>2. Children' = Children  BY DEF TcpserverInv, TcpserverTypeOK, Children, In
  <1> QED  BY <1>1, <1>2 DEF TcpserverInv, CountTrue

LEMMA TcpserverInvariance == TcpserverSpec => []TcpserverInv
  <1>1. TcpserverInv /\ [TcpserverNext]_tcpserverVars => TcpserverInv'
    <2> SUFFICES ASSUME TcpserverInv, [TcpserverNext]_tcpserverVars PROVE TcpserverInv'  OBVIOUS
    <2>1. CASE TcpserverNext
      BY <2>1, LookOK, SigchldOK, AcceptConnectOK, ForkOK, ChildEndsOK DEF TcpserverNext
    <2>2. CASE UNCHANGED tcpserverVars
      <3> USE <2>2 DEF tcpserverVars
      <3>1. Children' = Children /\ In("zombie")' = In("zombie")  BY DEF Children, In
      <3>2. TcpserverTypeOK' /\ Room'  BY DEF TcpserverInv, TcpserverTypeOK, Room
      <3> QED  BY <3>1, <3>2, SameOK
    <2> QED  BY <2>1, <2>2
  <1> QED  BY TcpserverInitOK, <1>1, PTL DEF TcpserverSpec

\* However many children end for one SIGCHLD, and wherever in the loop of
\* tcpserver.c it is handled, numchildren is the number of children not yet
\* waited for, never above limit, and a child to be waited for has its signal
\* pending.
THEOREM CountHolds == TcpserverSpec => []CountTrue
  <1>1. TcpserverInv => CountTrue  BY DEF TcpserverInv
  <1> QED  BY TcpserverInvariance, <1>1, PTL

-----------------------------------------------------------------------------
(***************************************************************************)
(* trigger_set() and trigger_pull().                                        *)
(***************************************************************************)
(* What makes NoMissedWakeup inductive: from opendir() on, a message that   *)
(* was pulled for is still to be read, or has left its byte in the pipe.    *)
Pulled(m) == qpc[m] \in {"written", "done"}

Heard ==
  ~unread /\ spc \in {"readdir", "select"} =>
    \A m \in todo : Pulled(m) => m \in left \/ buf \/ due \/ m \in failed

NothingLeft == spc # "readdir" => left = {}

TInv == TypeOK /\ Heard /\ NothingLeft

-----------------------------------------------------------------------------
LEMMA InitInv == Init => TypeOK /\ Heard /\ NothingLeft
<1> SUFFICES ASSUME Init PROVE TypeOK /\ Heard /\ NothingLeft
  OBVIOUS
<1>1. qpc \in [Msg -> QueuePc] /\ faults \in 0 .. MaxFaults
  BY TriggerAssumption DEF TriggerAssumption, Init, QueuePc
<1>2. TypeOK
  BY <1>1 DEF Init, TypeOK, SendPc
<1>3. Heard /\ NothingLeft
  BY DEF Init, Heard, NothingLeft
<1> QED BY <1>2, <1>3

(* A step of a qmail-queue keeps the types and what is known of todo/. *)
LEMMA PullInv ==
  ASSUME TInv, NEW m \in Msg, Pull(m)
  PROVE  TInv'
<1> USE DEF TInv, TypeOK, Heard, NothingLeft, Pulled, pipe, Goto
<1>1. CASE LinkTodo(m)
  BY <1>1 DEF LinkTodo, Writers, QueuePc
<1>2. CASE OpenTrigger(m)
  <2>1. m \in Writers' \/ reader \/ ~buf \/ Writers' = Writers
    BY <1>2 DEF OpenTrigger, Writers
  <2>2. buf' => reader' \/ Writers' # {}
    BY <1>2, <2>1 DEF OpenTrigger, Writers
  <2> QED BY <1>2, <2>2 DEF OpenTrigger, QueuePc
<1>3. CASE WriteTrigger(m)
  BY <1>3 DEF WriteTrigger, Writers, QueuePc
<1>4. CASE CloseTrigger(m)
  <2>1. Writers' = Writers \ {m} /\ m \in Writers
    BY <1>4 DEF CloseTrigger, Writers
  <2>2. buf' => reader' \/ Writers' # {}
    BY <1>4, <2>1 DEF CloseTrigger, Drained
  <2> QED BY <1>4, <2>2 DEF CloseTrigger, Drained, QueuePc
<1>5. CASE QueueDie(m)
  <2>1. Writers' = Writers \ {m}
    BY <1>5 DEF QueueDie, Writers
  <2>2. buf' => reader' \/ Writers' # {}
    BY <1>5, <2>1 DEF QueueDie, Drained
  <2> QED BY <1>5, <2>2, TriggerAssumption
      DEF QueueDie, Drained, QueuePc, Fault, TriggerAssumption
<1> QED BY <1>1, <1>2, <1>3, <1>4, <1>5 DEF Pull

(* A step of qmail-send does. *)
LEMMA TodoDoInv ==
  ASSUME TInv, TodoDo
  PROVE  TInv'
<1> USE TriggerAssumption
    DEF TInv, TypeOK, Heard, NothingLeft, Pulled, pipe, SendPc, TriggerAssumption
<1>1. CASE Start
  BY <1>1 DEF Start, Writers
<1>2. CASE Wake
  BY <1>2 DEF Wake, Writers
<1>3. CASE TriggerClose
  <2>1. reader' = FALSE /\ spc' = "reopen" /\ Writers' = Writers /\ left = {}
        /\ UNCHANGED <<qpc, todo, hup, due, left, failed, faults, unread>>
    BY <1>3 DEF TriggerClose, ScanOrder, Writers
  <2>2. buf' \in BOOLEAN /\ (buf' => Writers' # {})
    BY <1>3, <2>1 DEF TriggerClose, Drained
  <2> QED BY <2>1, <2>2
<1>4. CASE TriggerOpen
  BY <1>4 DEF TriggerOpen, ScanOrder, Writers
<1>5. CASE OpenDir
  BY <1>5 DEF OpenDir, ScanOrder, Writers
<1>6. CASE OpenDirFail
  BY <1>6 DEF OpenDirFail, Fault, Writers
<1>7. CASE EndOfDir
  BY <1>7 DEF EndOfDir, Writers
<1>8. CASE SendDie
  <2>1. reader' = FALSE /\ spc' = "down" /\ Writers' = Writers
        /\ UNCHANGED <<qpc, todo, hup, due, failed, unread>>
    BY <1>8 DEF SendDie, Writers
  <2>2. buf' \in BOOLEAN /\ (buf' => Writers' # {})
    BY <1>8, <2>1 DEF SendDie, Drained
  <2>3. faults' \in 0 .. MaxFaults /\ left' = {}
    BY <1>8 DEF SendDie, Fault
  <2> QED BY <2>1, <2>2, <2>3
<1>9. CASE TimeOut
  BY <1>9 DEF TimeOut, Writers
<1>10. CASE \E m \in Msg : ReadDir(m)
  BY <1>10 DEF ReadDir, Fault, Writers
<1> QED BY <1>1, <1>2, <1>3, <1>4, <1>5, <1>6, <1>7, <1>8, <1>9, <1>10 DEF TodoDo

(* Trigger's invariant, for every value of the constants: whoever pulled    *)
(* the trigger and was not tried is still to be read, or can be read from   *)
(* the pipe.                                                                *)
THEOREM Invariance == Spec => []TInv
<1>1. Init => TInv
  BY InitInv DEF TInv
<1>2. TInv /\ [Next]_vars => TInv'
  <2>1. ASSUME TInv, UNCHANGED vars PROVE TInv'
    BY <2>1 DEF TInv, TypeOK, Heard, NothingLeft, Pulled, Writers, vars, pipe
  <2> QED BY <2>1, PullInv, TodoDoInv DEF Next
<1> QED BY <1>1, <1>2, PTL DEF Spec

(* The types, and who holds the pipe open when. *)
THEOREM TypeCorrect == Spec => []TypeOK
<1>1. TInv => TypeOK
  BY DEF TInv
<1> QED BY <1>1, Invariance, PTL

(* A pull that the sleeping qmail-send has not heard does not exist, unless *)
(* opendir() failed: the order of close(), open(), opendir() and readdir()  *)
(* in todo_do is right.                                                     *)
THEOREM NoMissedWakeupHolds == Spec => []NoMissedWakeup
<1>1. TInv => NoMissedWakeup
  BY DEF TInv, TypeOK, Heard, NothingLeft, Pulled, NoMissedWakeup, Readable, QueuePc
<1> QED BY <1>1, Invariance, PTL
-----------------------------------------------------------------------------
(* multilog: FlattenSeq joins the texts of the @-files.                    *)

(* Induction over a set of naturals.                                       *)
LEMMA Induct ==
  ASSUME NEW T \in SUBSET Nat, 0 \in T, \A n \in T : n + 1 \in T
  PROVE  T = Nat
  <1> DEFINE R == {ss \in Nat \X Nat : ss[1] < ss[2]}
  <1>1. IsWellFoundedOn(R, Nat)  BY NatLessThanWellFounded, Zenon DEF OpToRel
  <1>2. SUFFICES ASSUME Nat \ T # {} PROVE FALSE  OBVIOUS
  <1>3. PICK m \in Nat \ T : \A k \in Nat \ T : <<k, m>> \notin R  BY <1>1, <1>2, WFMin, Zenon
  <1>4. m # 0 /\ m \in Nat  BY <1>3
  <1>5. m - 1 \in Nat /\ m - 1 < m /\ (m - 1) + 1 = m  BY <1>4
  <1>6. m - 1 \in T
    <2>1. SUFFICES ASSUME m - 1 \notin T PROVE FALSE  OBVIOUS
    <2>2. <<m - 1, m>> \notin R  BY <1>3, <1>5, <2>1
    <2> QED  BY <1>4, <1>5, <2>2
  <1> QED  BY <1>3, <1>5, <1>6

(* f[n] joins the first n of the sequences s.                              *)
Joins(s, n, f) ==
  \A k \in 1 .. n : f[k] = IF k = 1 THEN s[k] ELSE f[k - 1] \o s[k]

LEMMA JoinsExists ==
  ASSUME NEW B, NEW s \in Seq(Seq(B))
  PROVE  \E f \in [1 .. Len(s) -> Seq(B)] : Joins(s, Len(s), f)
  <1> DEFINE T == {m \in Nat : m <= Len(s) => \E f \in [1 .. m -> Seq(B)] : Joins(s, m, f)}
  <1>1. 0 \in T
    <2>1. [k \in 1 .. 0 |-> << >>] \in [1 .. 0 -> Seq(B)]  OBVIOUS
    <2>2. \A f : Joins(s, 0, f)  BY DEF Joins
    <2> QED  BY <2>1, <2>2
  <1>2. ASSUME NEW m \in T PROVE m + 1 \in T
    <2>1. SUFFICES ASSUME m + 1 <= Len(s)
                   PROVE  \E f \in [1 .. m + 1 -> Seq(B)] : Joins(s, m + 1, f)
      OBVIOUS
    <2>2. m \in Nat /\ m <= Len(s) /\ s[m + 1] \in Seq(B)  BY <2>1
    <2>3. PICK f \in [1 .. m -> Seq(B)] : Joins(s, m, f)  BY <2>2
    <2> DEFINE t == IF m + 1 = 1 THEN s[m + 1] ELSE f[m] \o s[m + 1]
               g == [k \in 1 .. m + 1 |-> IF k = m + 1 THEN t ELSE f[k]]
    <2>4. t \in Seq(B)
      <3>1. CASE m = 0  BY <2>2, <3>1
      <3>2. CASE m # 0
        <4>1. m \in 1 .. m  BY <2>2, <3>2
        <4> QED  BY <2>2, <2>3, <3>2, <4>1, ConcatProperties
      <3> QED  BY <3>1, <3>2
    <2>5. g[m + 1] = t /\ \A k \in 1 .. m : g[k] = f[k]
      <3>1. \A k \in 1 .. m : k \in 1 .. m + 1 /\ k # m + 1  BY <2>2
      <3>2. m + 1 \in 1 .. m + 1  BY <2>2
      <3> HIDE DEF t
      <3> QED  BY <3>1, <3>2
    <2>6. \A k \in 1 .. m + 1 : k = m + 1 \/ k \in 1 .. m  BY <2>2
    <2>7. \A k \in 1 .. m + 1 : g[k] \in Seq(B)
      <3> HIDE DEF g, t
      <3> QED  BY <2>3, <2>4, <2>5, <2>6
    <2>8. g \in [1 .. m + 1 -> Seq(B)]
      <3> HIDE DEF t
      <3> QED  BY <2>7
    <2>9. Joins(s, m + 1, g)
      <3> HIDE DEF g
      <3>1. SUFFICES ASSUME NEW k \in 1 .. m + 1
                     PROVE  g[k] = IF k = 1 THEN s[k] ELSE g[k - 1] \o s[k]
        BY DEF Joins
      <3>2. k = 1 \/ k - 1 \in 1 .. m  BY <2>2
      <3>3. CASE k = m + 1
        <4>1. m = 0 \/ g[m] = f[m]  BY <2>2, <2>5
        <4>2. (m + 1) - 1 = m /\ (m + 1 = 1 <=> m = 0)  BY <2>2
        <4> QED  BY <2>5, <3>3, <4>1, <4>2
      <3>4. CASE k # m + 1
        <4>1. k \in 1 .. m  BY <2>6, <3>4
        <4> HIDE DEF t
        <4> QED  BY <2>3, <2>5, <3>2, <4>1 DEF Joins
      <3> QED  BY <3>3, <3>4
    <2> QED  BY <2>8, <2>9
  <1> HIDE DEF T
  <1>3. T = Nat
    <2>1. T \in SUBSET Nat  BY DEF T
    <2> QED  BY <1>1, <1>2, <2>1, Induct
  <1>4. Len(s) \in T  BY <1>3
  <1> QED  BY <1>4 DEF T

LEMMA JoinsOne ==
  ASSUME NEW s, NEW n \in Nat, NEW f, NEW g, Joins(s, n, f), Joins(s, n, g)
  PROVE  \A k \in 1 .. n : f[k] = g[k]
  <1> DEFINE T == {m \in Nat : m + 1 <= n => f[m + 1] = g[m + 1]}
  <1>1. 0 \in T  BY DEF Joins
  <1>2. ASSUME NEW m \in T PROVE m + 1 \in T
    <2>1. SUFFICES ASSUME (m + 1) + 1 <= n PROVE f[(m + 1) + 1] = g[(m + 1) + 1]  OBVIOUS
    <2>2. (m + 1) + 1 \in 1 .. n /\ ((m + 1) + 1) - 1 = m + 1 /\ (m + 1) + 1 # 1  BY <2>1
    <2>3. f[m + 1] = g[m + 1]  BY <2>1
    <2>4. f[(m + 1) + 1] = f[m + 1] \o s[(m + 1) + 1]  BY <2>2 DEF Joins
    <2>5. g[(m + 1) + 1] = g[m + 1] \o s[(m + 1) + 1]  BY <2>2 DEF Joins
    <2> QED  BY <2>3, <2>4, <2>5
  <1> HIDE DEF T
  <1>3. T = Nat
    <2>1. T \in SUBSET Nat  BY DEF T
    <2> QED  BY <1>1, <1>2, <2>1, Induct
  <1>4. ASSUME NEW k \in 1 .. n PROVE f[k] = g[k]
    <2>1. k - 1 \in T /\ (k - 1) + 1 = k  BY <1>3
    <2> QED  BY <2>1 DEF T
  <1> QED  BY <1>4

LEMMA FlattenIs ==
  ASSUME NEW B, NEW s \in Seq(Seq(B)), s # << >>, NEW f, Joins(s, Len(s), f)
  PROVE  FlattenSeq(s) = f[Len(s)]
  <1> DEFINE n == Len(s)
             F(h) == [k \in 1 .. n |-> IF k = 1 THEN s[k] ELSE h[k - 1] \o s[k]]
             c == CHOOSE h : h = F(h)
  <1>1. n \in Nat /\ n # 0  OBVIOUS
  <1>2. FlattenSeq(s) = c[n]  BY <1>1 DEF FlattenSeq
  <1>3. PICK h \in [1 .. n -> Seq(B)] : Joins(s, n, h)  BY JoinsExists
  <1>4. h = F(h)
    <2>1. \A k \in 1 .. n : h[k] = F(h)[k]  BY <1>3 DEF Joins
    <2>2. h = [k \in 1 .. n |-> h[k]]  BY <1>3
    <2> QED  BY <2>1, <2>2
  <1>5. c = F(c)
    <2> HIDE DEF F
    <2> QED  BY <1>4
  <1> HIDE DEF c
  <1>6. Joins(s, n, c)
    <2>1. \A k \in 1 .. n : F(c)[k] = IF k = 1 THEN s[k] ELSE c[k - 1] \o s[k]  OBVIOUS
    <2> HIDE DEF F
    <2> QED  BY <1>5, <2>1 DEF Joins
  <1>7. Joins(s, n, f)  OBVIOUS
  <1>8. n \in 1 .. n  BY <1>1
  <1> HIDE DEF n
  <1>9. c[n] = f[n]  BY <1>1, <1>6, <1>7, <1>8, JoinsOne
  <1> QED  BY <1>2, <1>9 DEF n

LEMMA FlattenEmpty == FlattenSeq(<< >>) = << >>
  BY DEF FlattenSeq

LEMMA FlattenType ==
  ASSUME NEW B, NEW s \in Seq(Seq(B))
  PROVE  FlattenSeq(s) \in Seq(B)
  <1>1. CASE s = << >>
    <2>1. << >> \in Seq(B)  OBVIOUS
    <2> QED  BY <1>1, <2>1, FlattenEmpty, Zenon
  <1>2. CASE s # << >>
    <2>1. PICK f \in [1 .. Len(s) -> Seq(B)] : Joins(s, Len(s), f)  BY JoinsExists
    <2>2. Len(s) \in 1 .. Len(s)  BY <1>2
    <2>3. f[Len(s)] \in Seq(B)  BY <2>1, <2>2
    <2>4. FlattenSeq(s) = f[Len(s)]  BY <1>2, <2>1, FlattenIs, Zenon
    <2> QED  BY <2>3, <2>4
  <1> QED  BY <1>1, <1>2

Associative(B) == \A a, b, c \in Seq(B) : (a \o b) \o c = a \o (b \o c)

LEMMA Assoc == ASSUME NEW B PROVE Associative(B)
  BY ConcatAssociative DEF Associative

(* One sequence more at the end.                                           *)
LEMMA FlattenAppend ==
  ASSUME NEW B, NEW s \in Seq(Seq(B)), NEW t \in Seq(B)
  PROVE  FlattenSeq(Append(s, t)) = FlattenSeq(s) \o t
  <1> DEFINE v == Append(s, t)
             n == Len(s)
  <1>1. /\ v \in Seq(Seq(B)) /\ v # << >> /\ Len(v) = n + 1 /\ v[n + 1] = t /\ n \in Nat
        /\ \A k \in 1 .. n : v[k] = s[k]
    <2>1. v \in Seq(Seq(B)) /\ n \in Nat  OBVIOUS
    <2>2. Len(v) = n + 1 /\ v[n + 1] = t /\ \A k \in 1 .. n : v[k] = s[k]
      BY AppendProperties
    <2> HIDE DEF v
    <2> QED  BY <2>1, <2>2
  <1>2. PICK g \in [1 .. Len(v) -> Seq(B)] : Joins(v, Len(v), g)  BY <1>1, JoinsExists
  <1>3. FlattenSeq(v) = g[n + 1]  BY <1>1, <1>2, FlattenIs
  <1>4. n + 1 \in 1 .. n + 1 /\ (n + 1) - 1 = n /\ (n + 1 = 1 <=> n = 0)  BY <1>1
  <1> HIDE DEF v
  <1>5. g[n + 1] = IF n = 0 THEN t ELSE g[n] \o t
    <2>1. g[n + 1] = IF n + 1 = 1 THEN v[n + 1] ELSE g[(n + 1) - 1] \o v[n + 1]
      BY <1>1, <1>2, <1>4 DEF Joins
    <2> QED  BY <1>1, <1>4, <2>1
  <1>6. CASE s = << >>
    <2>1. n = 0  BY <1>6
    <2> QED  BY <1>3, <1>5, <1>6, <2>1, FlattenEmpty DEF v
  <1>7. CASE s # << >>
    <2>1. n # 0  BY <1>7
    <2>2. \A k \in 1 .. n : k \in 1 .. n + 1  BY <1>1
    <2>3. Joins(s, n, g)  BY <1>1, <1>2, <2>2 DEF Joins
    <2>4. FlattenSeq(s) = g[n]  BY <1>7, <2>3, FlattenIs
    <2> QED  BY <1>3, <1>5, <2>1, <2>4 DEF v
  <1> QED  BY <1>6, <1>7

(* The first sequence and the others.                                      *)
LEMMA FlattenTail ==
  ASSUME NEW B, NEW s \in Seq(Seq(B)), s # << >>
  PROVE  FlattenSeq(s) = s[1] \o FlattenSeq(Tail(s))
  <1>0. Associative(B)  BY Assoc, Zenon
  <1> DEFINE t == Tail(s)
             n == Len(t)
  <1>1. t \in Seq(Seq(B)) /\ n \in Nat /\ Len(s) = n + 1 /\ s[1] \in Seq(B)
        /\ \A k \in 1 .. n : t[k] = s[k + 1] /\ t[k] \in Seq(B)
    OBVIOUS
  <1>2. PICK f \in [1 .. n + 1 -> Seq(B)] : Joins(s, n + 1, f)  BY <1>1, JoinsExists
  <1>3. FlattenSeq(s) = f[n + 1]  BY <1>1, <1>2, FlattenIs
  <1>4. PICK g \in [1 .. n -> Seq(B)] : Joins(t, n, g)  BY <1>1, JoinsExists
  <1>5. f[1] = s[1]  BY <1>1, <1>2 DEF Joins
  <1> HIDE DEF t, n
  <1>6. ASSUME n # 0 PROVE f[n + 1] = s[1] \o g[n]
    <2> DEFINE T == {m \in Nat : m + 1 <= n => f[(m + 1) + 1] = s[1] \o g[m + 1]}
    <2>1. 0 \in T
      <3>0. 1 \in 1 .. n /\ 1 + 1 = 2  BY <1>1, <1>6
      <3>1. g[1] = t[1] /\ t[1] = s[2]
        <4>1. g[1] = t[1]  BY <1>4, <3>0 DEF Joins
        <4>2. t[1] = s[2]  BY <1>1, <3>0
        <4> QED  BY <4>1, <4>2
      <3>2. 2 \in 1 .. n + 1 /\ 2 - 1 = 1 /\ 2 # 1  BY <1>1, <3>0
      <3>3. f[2] = f[1] \o s[2]  BY <1>2, <3>2 DEF Joins
      <3>4. (0 + 1) + 1 = 2 /\ 0 + 1 = 1  OBVIOUS
      <3> QED  BY <1>5, <3>1, <3>3, <3>4
    <2>2. ASSUME NEW m \in T PROVE m + 1 \in T
      <3>1. SUFFICES ASSUME (m + 1) + 1 <= n
                     PROVE  f[((m + 1) + 1) + 1] = s[1] \o g[(m + 1) + 1]
        BY m + 1 \in Nat
      <3>0. m \in Nat /\ (m + 1 <= n => f[(m + 1) + 1] = s[1] \o g[m + 1])  OBVIOUS
      <3> HIDE DEF T
      <3>8. m + 1 <= n  BY <1>1, <3>0, <3>1
      <3> DEFINE j == m + 1
      <3>2. j \in 1 .. n /\ j + 1 \in 1 .. n /\ (j + 1) - 1 = j /\ j + 1 # 1
            /\ (j + 1) + 1 \in 1 .. n + 1 /\ ((j + 1) + 1) - 1 = j + 1 /\ (j + 1) + 1 # 1
        <4>1. n \in Nat /\ m \in Nat  BY <1>1, <3>0
        <4> QED  BY <3>1, <4>1
      <3>3. f[j + 1] = s[1] \o g[j]  BY <3>0, <3>8
      <3> HIDE DEF j
      <3>4. f[(j + 1) + 1] = f[j + 1] \o s[(j + 1) + 1]  BY <1>2, <3>2 DEF Joins
      <3>5. g[j + 1] = g[j] \o t[j + 1] /\ t[j + 1] = s[(j + 1) + 1]
        BY <1>1, <1>4, <3>2 DEF Joins
      <3>6. g[j] \in Seq(B) /\ t[j + 1] \in Seq(B)  BY <1>1, <1>4, <3>2
      <3>7. (s[1] \o g[j]) \o t[j + 1] = s[1] \o (g[j] \o t[j + 1])
        <4>1. PICK a \in Seq(B) : a = s[1]  BY <1>1
        <4>2. PICK b \in Seq(B) : b = g[j]  BY <3>6
        <4>3. PICK c \in Seq(B) : c = t[j + 1]  BY <3>6
        <4>4. (a \o b) \o c = a \o (b \o c)  BY <1>0, Zenon DEF Associative
        <4> QED  BY <4>1, <4>2, <4>3, <4>4
      <3> QED  BY <3>3, <3>4, <3>5, <3>7 DEF j
    <2> HIDE DEF T
    <2>3. T = Nat
      <3>1. T \in SUBSET Nat  BY DEF T
      <3> QED  BY <2>1, <2>2, <3>1, Induct
    <2>4. n - 1 \in T /\ (n - 1) + 1 = n  BY <1>1, <1>6, <2>3
    <2> QED  BY <1>1, <2>4, SMTT(20) DEF T
  <1>7. CASE n = 0
    <2>1. t = << >>  BY <1>1, <1>7 DEF n
    <2>2. s[1] \in Seq(B) /\ n + 1 = 1  BY <1>1, <1>7
    <2>3. s[1] \o << >> = s[1]  BY <2>2, ConcatEmptySeq, Zenon
    <2>4. FlattenSeq(s) = s[1]  BY <1>3, <1>5, <2>2
    <2>5. FlattenSeq(t) = << >>  BY <2>1, FlattenEmpty
    <2> QED  BY <2>3, <2>4, <2>5 DEF t
  <1>8. CASE n # 0
    <2>1. t # << >>  BY <1>8 DEF n
    <2>2. FlattenSeq(t) = g[n]  BY <1>1, <1>4, <2>1, FlattenIs DEF n
    <2> QED  BY <1>3, <1>6, <1>8, <2>2 DEF t
  <1> QED  BY <1>7, <1>8

Bytes == {"x", "n"}
File  == [text : Seq(Bytes), synced : Nat, x : BOOLEAN, cut : BOOLEAN]

FilesOK == node \in [Ino -> File] /\ \A j \in Ino : node[j].synced <= Len(node[j].text)

MlTypes ==
  /\ mpc \in {"down", "run", "full", "rename", "create", "process", "processing", "psync",
              "pmode", "punlink", "finish", "unlink", "fit", "old", "new", "quit"}
  /\ processor \in BOOLEAN /\ forced \in BOOLEAN
  /\ bytes \in 0 .. Size /\ outb \in Seq(Bytes)
  /\ current \in Ino \union {0} /\ previous \in Ino \union {0} /\ processed \in Ino \union {0}
  /\ FilesOK
  /\ logs \in Seq(Ino \X {"s", "u"})
  /\ logDeaths \in 0 .. MaxLogDeath

(* No file has two of the three names, none has two @-names, and a file    *)
(* that has an @-name beside one of the three is the newest @-file.        *)
MlNames ==
  /\ current = previous \/ current = processed => current = 0
  /\ previous = processed => previous = 0
  /\ \A j, k \in DOMAIN logs : logs[j][1] = logs[k][1] => j = k
  /\ \A j \in {current, previous, processed} : j \in Rotated => j = logs[Len(logs)][1]
  /\ current \in Rotated => previous = 0 /\ processed = 0
  /\ previous \in Rotated => processed = 0
  /\ processed \in Rotated => previous = 0 /\ node[processed].x

(* On disk, whole.                                                         *)
OnDisk(j) == ~node[j].cut /\ node[j].synced = Len(node[j].text)

(* Nothing in it where a newline ends a file.                              *)
NoLate(t) == \A k \in (Size - Tail0) .. Len(t) : t[k] # "n"

LogsKept == \A k \in DOMAIN logs : logs[k][2] = "s" => OnDisk(logs[k][1])

MlKept ==
  /\ previous # 0 => OnDisk(previous) /\ ~node[previous].x
  /\ processed # 0 /\ node[processed].x =>
       OnDisk(processed) /\ (previous # 0 => node[processed].text = node[previous].text)
  /\ LogsKept
  /\ current # 0 /\ node[current].x =>
       /\ mpc = "down" /\ previous = 0 /\ processed = 0 /\ current \notin Rotated
       /\ OnDisk(current) /\ Len(node[current].text) <= Size /\ NoLate(node[current].text)

(* The current file is new and empty.                                      *)
Young == current # 0 /\ current \notin Rotated /\ node[current] = Empty /\ bytes = 0

(* The current file is being written.                                      *)
Open == /\ current # 0 /\ current \notin Rotated /\ previous = 0 /\ processed = 0
        /\ bytes = Len(node[current].text) /\ ~node[current].cut /\ ~node[current].x

(* A newline late in the file is followed by another one that still fits.  *)
MlRun ==
  /\ mpc \in {"run", "full", "rename", "quit"} => Open
  /\ mpc \in {"rename", "quit"} => OnDisk(current)
  /\ mpc = "run" => \/ NoLate(node[current].text)
                    \/ \E k \in 1 .. Len(outb) : outb[k] = "n" /\ bytes + k <= Size
  /\ mpc = "quit" => NoLate(node[current].text)
  /\ mpc = "full" /\ ~forced =>
       \/ node[current].text[Len(node[current].text)] = "n"
       \/ Len(node[current].text) = Size /\ NoLate(node[current].text)

MlRotate ==
  /\ mpc \in {"create", "process", "processing", "psync", "pmode", "punlink"} =>
       previous # 0 /\ previous \notin Rotated
  /\ mpc = "create" => current = 0 /\ processed = 0
  /\ mpc = "process" => processed = 0
  /\ mpc \in {"process", "processing", "psync", "pmode", "punlink"} => Young
  /\ mpc \in {"processing", "psync", "pmode", "punlink"} =>
       processed # 0 /\ processed \notin Rotated /\ ~node[processed].cut
  /\ mpc \in {"psync", "pmode", "punlink"} => node[processed].text = node[previous].text
  /\ mpc \in {"pmode", "punlink"} => OnDisk(processed)
  /\ mpc = "processing" => node[processed] = Empty
  /\ mpc = "punlink" => node[processed].x

(* finish() is called of these three files, in five places.                *)
MlFinish ==
  /\ mpc \in {"finish", "unlink", "fit"} =>
       /\ \/ fin = <<"previous", "s", "run">> /\ processed = 0 /\ Young
                                              /\ (mpc = "finish" => previous # 0)
          \/ fin = <<"processed", "s", "run">> /\ previous = 0 /\ Young
          \/ fin = <<"processed", "s", "old">> /\ previous = 0
          \/ fin = <<"previous", "u", "old">> /\ processed = 0
          \/ fin = <<"current", "u", "new">> /\ previous = 0 /\ processed = 0
  /\ mpc \in {"finish", "unlink"} /\ fin[1] = "processed" => processed # 0 /\ node[processed].x
  /\ mpc = "unlink" => FinFile # 0 /\ FinFile \in Rotated
  /\ mpc = "fit" => FinFile = 0
  /\ mpc \in {"old", "new"} => previous = 0 /\ processed = 0
  /\ mpc = "new" => current = 0

MlFew == Len(logs) <= Num + logDeaths /\ (mpc \notin {"unlink", "fit"} => Len(logs) < Num + logDeaths)

MlInv == /\ MlTypes /\ MlNames /\ MlKept /\ MlRun /\ MlRotate /\ MlFinish /\ MlFew
         /\ NothingLost

(* A set of naturals that is not empty has a least element.                *)
LEMMA LeastNat ==
  ASSUME NEW T \in SUBSET Nat, T # {}
  PROVE  \E m \in T : \A k \in T : m <= k
  <1> DEFINE R == {ss \in Nat \X Nat : ss[1] < ss[2]}
  <1>1. IsWellFoundedOn(R, Nat)  BY NatLessThanWellFounded, Zenon DEF OpToRel
  <1>2. PICK m \in T : \A k \in T : <<k, m>> \notin R  BY <1>1, WFMin, Zenon
  <1>3. ASSUME NEW k \in T PROVE m <= k
    <2>1. <<k, m>> \notin R  BY <1>2
    <2>2. k \in Nat /\ m \in Nat  OBVIOUS
    <2> QED  BY <2>1, <2>2
  <1> QED  BY <1>3

(* The @-files, the file on its way to one, and current, as Found joins    *)
(* them.                                                                   *)
Arch == FlattenSeq([k \in DOMAIN logs |-> node[logs[k][1]].text])
Mid  == IF previous # 0 THEN TextOf(node, previous)
        ELSE IF processed # 0 /\ node[processed].x THEN TextOf(node, processed) ELSE << >>
Cur  == TextOf(node, current)

-----------------------------------------------------------------------------
(* A new file.                                                             *)
LEMMA NewInoOK ==
  ASSUME MlTypes, Len(logs) < Num + logDeaths, current = 0 \/ processed = 0
  PROVE  /\ NewIno \in Ino /\ NewIno # 0 /\ NewIno \notin Rotated
         /\ NewIno # current /\ NewIno # previous /\ NewIno # processed
  <1> USE MultilogAssumption DEF MlTypes
  <1>1. IsFiniteSet(Rotated) /\ Cardinality(Rotated) <= Len(logs) /\ Cardinality(Rotated) \in Nat
    <2> DEFINE h == [k \in 1 .. Len(logs) |-> logs[k][1]]
    <2>1. Len(logs) \in Nat  OBVIOUS
    <2>2. h \in Surjection(1 .. Len(logs), Rotated)
      <3>1. DOMAIN logs = 1 .. Len(logs)  OBVIOUS
      <3>2. Rotated = {h[k] : k \in 1 .. Len(logs)}  BY <3>1 DEF Rotated
      <3>3. h \in [1 .. Len(logs) -> Rotated]  BY <3>1 DEF Rotated
      <3> HIDE DEF h
      <3> QED  BY <3>2, <3>3 DEF Surjection
    <2> HIDE DEF h
    <2>3. ExistsSurjection(1 .. Len(logs), Rotated)  BY <2>2 DEF ExistsSurjection
    <2>4. Cardinality(Rotated) <= Len(logs)  BY <2>1, <2>3, FS_SurjCardinalityBound
    <2>5. Rotated \in SUBSET Ino  BY DEF Rotated
    <2>6. IsFiniteSet(Rotated)  BY <2>5, FS_Subset
    <2> QED  BY <2>4, <2>6, FS_CardinalityType
  <1>2. PICK a : Rotated \union ({current, previous, processed} \ {0})
                   \subseteq (Rotated \union {a}) \union {previous}
    BY Zenon
  <1> DEFINE U == (Rotated \union {a}) \union {previous}
  <1>3. IsFiniteSet(U) /\ Cardinality(U) <= Cardinality(Rotated) + 2
    <2> DEFINE V == Rotated \union {a}
               c == Cardinality(Rotated)
    <2>1. c \in Nat /\ c + 1 \in Nat /\ c < c + 1 /\ c + 1 + 1 = c + 2 /\ c + 2 \in Nat  BY <1>1
    <2>2. IsFiniteSet(V) /\ Cardinality(V) <= c + 1  BY <1>1, <2>1, OneMore
    <2>3. Cardinality(V) \in Nat  BY <2>2, FS_CardinalityType
    <2> HIDE DEF V, c
    <2>4. Cardinality(V) < c + 2  BY <2>1, <2>2, <2>3
    <2>5. IsFiniteSet(V \union {previous}) /\ Cardinality(V \union {previous}) <= c + 2
      BY <2>1, <2>2, <2>3, <2>4, OneMore
    <2> QED  BY <2>5 DEF V, c
  <1>4. FreeIno # {}
    <2>1. SUFFICES ASSUME FreeIno = {} PROVE FALSE  OBVIOUS
    <2>2. Ino \subseteq U  BY <1>2, <2>1 DEF FreeIno
    <2>3. Cardinality(Ino) <= Cardinality(U)  BY <1>3, <2>2, FS_Subset
    <2>4. Cardinality(U) \in Nat /\ Cardinality(Ino) \in Nat  BY <1>3, FS_CardinalityType
    <2>5. Len(logs) \in Nat  OBVIOUS
    <2> HIDE DEF U
    <2> QED  BY <1>1, <1>3, <2>3, <2>4, <2>5
  <1>5. PICK m \in FreeIno : \A k \in FreeIno : m <= k
    <2>1. FreeIno \in SUBSET Nat  BY DEF FreeIno
    <2> QED  BY <1>4, <2>1, LeastNat
  <1>6. NewIno \in FreeIno  BY <1>5 DEF NewIno
  <1>7. NewIno \in Ino /\ NewIno \notin Rotated /\ NewIno \notin {current, previous, processed}
    BY <1>6 DEF FreeIno
  <1> QED  BY <1>7

LEMMA NoTextLost ==
  ASSUME MlTypes, NothingLost, UNCHANGED <<logs, text>>, Mid' = Mid, Cur' = Cur,
         \A j \in Rotated : node'[j].text = node[j].text
  PROVE  NothingLost'
  <1>1. \A k \in DOMAIN logs : logs[k][1] \in Rotated  BY DEF Rotated
  <1>2. [k \in DOMAIN logs |-> node'[logs[k][1]].text] = [k \in DOMAIN logs |-> node[logs[k][1]].text]
    BY <1>1
  <1>3. Arch' = Arch  BY <1>2 DEF Arch
  <1> QED  BY <1>3 DEF NothingLost, Found, Arch, Mid, Cur

(* What Found joins.                                                       *)
LEMMA PartsOK ==
  ASSUME MlTypes
  PROVE  /\ Arch \in Seq(Bytes) /\ Mid \in Seq(Bytes) /\ Cur \in Seq(Bytes)
         /\ NothingLost <=> text = (Arch \o Mid) \o Cur
         /\ [k \in DOMAIN logs |-> node[logs[k][1]].text] \in Seq(Seq(Bytes))
         /\ Rotated \subseteq Ino
  <1> USE DEF MlTypes, FilesOK, File
  <1>1. [k \in DOMAIN logs |-> node[logs[k][1]].text] \in Seq(Seq(Bytes))
    <2>1. \A k \in 1 .. Len(logs) : logs[k][1] \in Ino  BY SMTT(20)
    <2>2. \A k \in 1 .. Len(logs) : node[logs[k][1]].text \in Seq(Bytes)  BY <2>1
    <2>3. DOMAIN logs = 1 .. Len(logs) /\ Len(logs) \in Nat  OBVIOUS
    <2> QED  BY <2>2, <2>3
  <1>2. Arch \in Seq(Bytes)  BY <1>1, FlattenType DEF Arch
  <1>3. \A j \in Ino \union {0} : TextOf(node, j) \in Seq(Bytes)  BY MultilogAssumption DEF TextOf
  <1>4. Mid \in Seq(Bytes) /\ Cur \in Seq(Bytes)  BY <1>3 DEF Mid, Cur
  <1>5. Rotated \subseteq Ino  BY SMTT(20) DEF Rotated
  <1> QED  BY <1>1, <1>2, <1>4, <1>5 DEF NothingLost, Found, Arch, Mid, Cur

(* One file that is not an @-file becomes v.                               *)
LEMMA OneFile ==
  ASSUME FilesOK, LogsKept, Rotated \subseteq Ino, NEW i \in Ino \ Rotated,
         NEW v \in File, v.synced <= Len(v.text),
         node' = [node EXCEPT ![i] = v], UNCHANGED logs
  PROVE  /\ FilesOK' /\ LogsKept' /\ node'[i] = v
         /\ \A j \in Ino \ {i} : node'[j] = node[j]
         /\ \A j \in Rotated : node'[j] = node[j]
  <1>1. node'[i] = v /\ \A j \in Ino \ {i} : node'[j] = node[j]  BY DEF FilesOK
  <1>2. node' \in [Ino -> File]  BY DEF FilesOK
  <1>3. \A j \in Rotated : node'[j] = node[j]  BY <1>1
  <1>4. FilesOK'  BY <1>1, <1>2 DEF FilesOK
  <1>5. \A k \in DOMAIN logs : logs[k][1] \in Rotated  BY DEF Rotated
  <1>6. LogsKept'  BY <1>3, <1>5 DEF LogsKept, OnDisk
  <1> QED  BY <1>1, <1>3, <1>4, <1>6

(* What fsync() and the processor do to a file.                            *)
LEMMA FileChanged ==
  ASSUME NEW p \in File, NEW t \in Seq(Bytes)
  PROVE  /\ [p EXCEPT !.synced = Len(p.text)] \in File
         /\ [p EXCEPT !.synced = Len(p.text)].text = p.text
         /\ [p EXCEPT !.synced = Len(p.text)].synced = Len(p.text)
         /\ [p EXCEPT !.text = t] \in File
         /\ [p EXCEPT !.text = t].text = t
         /\ [p EXCEPT !.text = t].synced = p.synced
  <1>1. p.text \in Seq(Bytes)  BY DEF File
  <1>2. Len(p.text) \in Nat  BY <1>1
  <1> QED  BY <1>1, <1>2 DEF File

LEMMA SameFiles ==
  ASSUME FilesOK, LogsKept, UNCHANGED <<node, logs>>
  PROVE  FilesOK' /\ LogsKept' /\ Rotated' = Rotated
  <1>1. FilesOK'  BY DEF FilesOK
  <1>2. LogsKept'  BY DEF LogsKept, OnDisk
  <1> QED  BY <1>1, <1>2 DEF Rotated

LEMMA Ends ==
  ASSUME NEW B, NEW a \in Seq(B), NEW b \in Seq(B)
  PROVE  (a \o << >>) \o b = a \o b /\ (a \o b) \o << >> = a \o b
  <1>1. a \o << >> = a  BY ConcatEmptySeq
  <1>2. a \o b \in Seq(B)  BY ConcatProperties
  <1>3. (a \o b) \o << >> = a \o b  BY <1>2, ConcatEmptySeq
  <1> QED  BY <1>1, <1>3

LEMMA AppendIs ==
  ASSUME NEW B, NEW s \in Seq(B), NEW b \in B
  PROVE  Append(s, b) = [k \in 1 .. Len(s) + 1 |-> IF k = Len(s) + 1 THEN b ELSE s[k]]
  <1> DEFINE w == [k \in 1 .. Len(s) + 1 |-> IF k = Len(s) + 1 THEN b ELSE s[k]]
             v == Append(s, b)
  <1>1. Len(s) \in Nat /\ Len(s) + 1 \in Nat  OBVIOUS
  <1>2. \A k \in 1 .. Len(s) + 1 : k # Len(s) + 1 => k \in 1 .. Len(s)  BY <1>1
  <1>3. \A k \in 1 .. Len(s) : s[k] \in B  OBVIOUS
  <1>4. w \in [1 .. Len(s) + 1 -> B]  BY <1>2, <1>3
  <1>5. w \in Seq(B) /\ Len(w) = Len(s) + 1
    <2> HIDE DEF w
    <2> QED  BY <1>1, <1>4
  <1>6. v \in Seq(B) /\ Len(v) = Len(s) + 1 /\ v[Len(s) + 1] = b /\ \A k \in 1 .. Len(s) : v[k] = s[k]
    BY AppendProperties
  <1>7. \A k \in 1 .. Len(s) + 1 : w[k] = IF k = Len(s) + 1 THEN b ELSE s[k]  OBVIOUS
  <1> HIDE DEF v, w
  <1>8. \A k \in 1 .. Len(v) : v[k] = w[k]  BY <1>2, <1>6, <1>7
  <1>9. v = w  BY <1>5, <1>6, <1>8, SeqEqual
  <1> QED  BY <1>9 DEF v, w

LEMMA Regroup ==
  ASSUME NEW B, NEW a \in Seq(B), NEW b \in Seq(B), NEW c \in Seq(B), NEW h \in Seq(B)
  PROVE  /\ ((h \o a) \o b) \o c = h \o ((a \o b) \o c)
         /\ (a \o b) \o c \in Seq(B)
  <1>1. (h \o a) \o b = h \o (a \o b)  BY ConcatAssociative
  <1>2. a \o b \in Seq(B)  BY ConcatProperties
  <1>3. PICK d \in Seq(B) : d = a \o b  BY <1>2
  <1>0. Associative(B)  BY Assoc, Zenon
  <1>4. (h \o d) \o c = h \o (d \o c)  BY <1>0, ZenonT(30) DEF Associative
  <1>5. d \o c \in Seq(B)  BY ConcatProperties
  <1> QED  BY <1>1, <1>3, <1>4, <1>5

LEMMA RestIs ==
  ASSUME NEW B, NEW w \in Seq(B), NEW r \in Seq(B), NEW m \in Nat \ {0}, NEW n \in Nat,
         n = Len(w)
  PROVE  n = m - 1 + Len(r) /\ (\A k \in 1 .. Len(r) : w[m + k - 1] = r[k])
           => SubSeq(w, m, n) = r
  <1>1. /\ SubSeq(w, m, n) \in Seq(B) /\ Len(SubSeq(w, m, n)) = IF m <= n THEN n - m + 1 ELSE 0
        /\ \A k \in 1 .. n - m + 1 : SubSeq(w, m, n)[k] = w[m + k - 1]
    <2>1. \A k \in m .. n : k \in 1 .. Len(w)  OBVIOUS
    <2>2. \A k \in m .. n : w[k] \in B  BY <2>1
    <2> QED  BY <2>2, SubSeqProperties
  <1> SUFFICES ASSUME n = m - 1 + Len(r), \A k \in 1 .. Len(r) : w[m + k - 1] = r[k]
               PROVE  SubSeq(w, m, n) = r
    OBVIOUS
  <1>2. Len(r) \in Nat /\ n - m + 1 = Len(r)  OBVIOUS
  <1>3. m <= n \/ Len(r) = 0  BY <1>2
  <1>4. PICK v : v = SubSeq(w, m, n)  OBVIOUS
  <1>5. Len(v) = Len(r) /\ \A k \in 1 .. Len(r) : v[k] = r[k]  BY <1>1, <1>2, <1>3, <1>4
  <1>6. v \in Seq(B)  BY <1>1, <1>4
  <1>7. v = r  BY <1>5, <1>6, SeqEqual
  <1> QED  BY <1>4, <1>7

(* Without the first of the parts that were joined.                        *)
LEMMA FirstGone ==
  ASSUME NEW B, NEW h \in Seq(B), NEW r \in Seq(B), NEW w, w = h \o r
  PROVE  SubSeq(w, Len(h) + 1, Len(w)) = r
  <1>1. w \in Seq(B) /\ Len(w) = Len(h) + Len(r) /\ Len(h) \in Nat /\ Len(r) \in Nat
    BY ConcatProperties
  <1>2. \A k \in 1 .. Len(h) + Len(r) : w[k] = IF k <= Len(h) THEN h[k] ELSE r[k - Len(h)]
    BY ConcatProperties
  <1>3. \A k \in 1 .. Len(r) : w[(Len(h) + 1) + k - 1] = r[k]
    <2>1. SUFFICES ASSUME NEW k \in 1 .. Len(r) PROVE w[(Len(h) + 1) + k - 1] = r[k]  OBVIOUS
    <2>2. (Len(h) + 1) + k - 1 \in 1 .. Len(h) + Len(r) /\ ~((Len(h) + 1) + k - 1 <= Len(h))
         /\ ((Len(h) + 1) + k - 1) - Len(h) = k
      BY <1>1
    <2> QED  BY <1>2, <2>2
  <1>4. PICK m \in Nat \ {0}, n \in Nat : m = Len(h) + 1 /\ n = Len(w)  BY <1>1
  <1>5. n = Len(w) /\ n = m - 1 + Len(r) /\ \A k \in 1 .. Len(r) : w[m + k - 1] = r[k]
    BY <1>1, <1>3, <1>4
  <1>6. SubSeq(w, m, n) = r  BY <1>1, <1>5, RestIs
  <1> QED  BY <1>4, <1>6

LEMMA DropOK ==
  ASSUME FilesOK, LogsKept, Rotated \subseteq Ino, NEW d \in Ino \union {0}, Drop(d), UNCHANGED logs
  PROVE  FilesOK' /\ LogsKept' /\ \A j \in Ino : j # d \/ j \in Rotated => node'[j] = node[j]
  <1>1. CASE d # 0 /\ d \notin Rotated
    <2>1. Empty \in File /\ Empty.synced <= Len(Empty.text)  BY DEF Empty, File
    <2>2. node' = [node EXCEPT ![d] = Empty]  BY <1>1 DEF Drop, FreedFile
    <2>3. d \in Ino \ Rotated  BY <1>1
    <2> QED  BY <1>1, <2>1, <2>2, <2>3, OneFile
  <1>2. CASE ~(d # 0 /\ d \notin Rotated)
    <2>1. node' = node  BY <1>2 DEF Drop
    <2> QED  BY <2>1, SameFiles
  <1> QED  BY <1>1, <1>2

LEMMA SeqIs == ASSUME NEW B, NEW s \in Seq(B) PROVE s = [k \in 1 .. Len(s) |-> s[k]]
  OBVIOUS

LEMMA FullSyncOK == ASSUME MlInv, FullSync PROVE MlInv'
  <1> USE MultilogAssumption DEF MlInv, MlTypes, At, Go, names
  <1> DEFINE v == [node[current] EXCEPT !.synced = Len(node[current].text)]
  <1>9. current \in Ino \ Rotated /\ v \in File /\ v.synced <= Len(v.text)
        /\ node' = [node EXCEPT ![current] = v]
    <2>1. current \in Ino \ Rotated /\ node' = [node EXCEPT ![current] = v]
      BY DEF FullSync, MlRun, Open
    <2>2. node[current] \in File  BY <2>1 DEF FilesOK
    <2>3. node[current].text \in Seq(Bytes)  BY <2>2 DEF File
    <2>4. Len(node[current].text) \in Nat  BY <2>3
    <2>5. v \in File /\ v.synced <= Len(v.text)
      <3>1. v.text = node[current].text /\ v.synced = Len(node[current].text) /\ v \in File
        BY <2>2, <2>3, FileChanged
      <3> HIDE DEF v
      <3> QED  BY <2>4, <3>1
    <2> QED  BY <2>1, <2>5
  <1>10. /\ FilesOK' /\ LogsKept' /\ node'[current] = v
         /\ \A j \in Ino \ {current} : node'[j] = node[j]
         /\ \A j \in Rotated : node'[j] = node[j]
    <2> HIDE DEF v
    <2>1. Rotated \subseteq Ino  BY PartsOK
    <2>2. FilesOK /\ LogsKept  BY DEF MlKept
    <2> QED  BY <1>9, <2>1, <2>2, OneFile DEF FullSync
  <1>1. MlTypes'  BY <1>10 DEF FullSync
  <1>2. MlNames'  BY <1>10, SMTT(20) DEF FullSync, MlNames, Rotated
  <1>3. MlKept'  BY <1>10 DEF FullSync, MlKept, MlRun, Open
  <1>4. MlRun'
    <2>1. current' = current /\ Rotated' = Rotated /\ previous' = previous /\ processed' = processed
          /\ bytes' = bytes /\ mpc' = "rename" /\ outb' = outb
      BY DEF FullSync, Rotated
    <2>2. node[current] \in File  BY <1>9 DEF FilesOK
    <2>3. v.text = node[current].text /\ v.synced = Len(v.text) /\ v.cut = node[current].cut
          /\ v.x = node[current].x
      BY <2>2
    <2>4. Open  BY DEF FullSync, MlRun
    <2> HIDE DEF v
    <2>5. Open' /\ OnDisk(current)'  BY <1>10, <2>1, <2>3, <2>4 DEF OnDisk, Open
    <2>6. mpc' = "quit" => NoLate(node[current].text)'
      <3>1. mpc' = "quit" => mpc = "run" /\ outb = << >>  BY DEF FullSync
      <3>2. mpc' = "quit" => NoLate(node[current].text)  BY <3>1 DEF MlRun
      <3> QED  BY <1>10, <2>1, <2>3, <3>2
    <2> QED  BY <2>1, <2>5, <2>6 DEF MlRun
  <1>5. MlRotate'  BY <1>10 DEF FullSync, MlRotate
  <1>6. MlFinish'  BY <1>10 DEF FullSync, MlFinish
  <1>7. MlFew'  BY <1>10 DEF FullSync, MlFew
  <1>8. NothingLost'
    <2>1. Mid' = Mid /\ Cur' = Cur  BY <1>10 DEF FullSync, Mid, Cur, Rotated, TextOf
    <2>2. \A j \in Rotated : node'[j].text = node[j].text  BY <1>10
    <2> QED  BY <2>1, <2>2, NoTextLost DEF FullSync
  <1> QED  BY <1>1, <1>2, <1>3, <1>4, <1>5, <1>6, <1>7, <1>8

LEMMA QuitSyncOK == ASSUME MlInv, QuitSync PROVE MlInv'
  <1> USE MultilogAssumption DEF MlInv, MlTypes, At, Go, names
  <1> DEFINE v == [node[current] EXCEPT !.synced = Len(node[current].text)]
  <1>9. current \in Ino \ Rotated /\ v \in File /\ v.synced <= Len(v.text)
        /\ node' = [node EXCEPT ![current] = v]
    <2>1. current \in Ino \ Rotated /\ node' = [node EXCEPT ![current] = v]
      BY DEF QuitSync, MlRun, Open
    <2>2. node[current] \in File  BY <2>1 DEF FilesOK
    <2>3. node[current].text \in Seq(Bytes)  BY <2>2 DEF File
    <2>4. Len(node[current].text) \in Nat  BY <2>3
    <2>5. v \in File /\ v.synced <= Len(v.text)
      <3>1. v.text = node[current].text /\ v.synced = Len(node[current].text) /\ v \in File
        BY <2>2, <2>3, FileChanged
      <3> HIDE DEF v
      <3> QED  BY <2>4, <3>1
    <2> QED  BY <2>1, <2>5
  <1>10. /\ FilesOK' /\ LogsKept' /\ node'[current] = v
         /\ \A j \in Ino \ {current} : node'[j] = node[j]
         /\ \A j \in Rotated : node'[j] = node[j]
    <2> HIDE DEF v
    <2>1. Rotated \subseteq Ino  BY PartsOK
    <2>2. FilesOK /\ LogsKept  BY DEF MlKept
    <2> QED  BY <1>9, <2>1, <2>2, OneFile DEF QuitSync
  <1>1. MlTypes'  BY <1>10 DEF QuitSync
  <1>2. MlNames'  BY <1>10 DEF QuitSync, MlNames, Rotated
  <1>3. MlKept'  BY <1>10 DEF QuitSync, MlKept, MlRun, Open
  <1>4. MlRun'
    <2>1. current' = current /\ Rotated' = Rotated /\ previous' = previous /\ processed' = processed
          /\ bytes' = bytes /\ mpc' = "quit" /\ outb' = outb
      BY DEF QuitSync, Rotated
    <2>2. node[current] \in File  BY <1>9 DEF FilesOK
    <2>3. v.text = node[current].text /\ v.synced = Len(v.text) /\ v.cut = node[current].cut
          /\ v.x = node[current].x
      BY <2>2
    <2>4. Open  BY DEF QuitSync, MlRun
    <2> HIDE DEF v
    <2>5. Open' /\ OnDisk(current)'  BY <1>10, <2>1, <2>3, <2>4 DEF OnDisk, Open
    <2>6. mpc' = "quit" => NoLate(node[current].text)'
      <3>1. mpc' = "quit" => mpc = "run" /\ outb = << >>  BY DEF QuitSync
      <3>2. mpc' = "quit" => NoLate(node[current].text)  BY <3>1 DEF MlRun
      <3> QED  BY <1>10, <2>1, <2>3, <3>2
    <2> QED  BY <2>1, <2>5, <2>6 DEF MlRun
  <1>5. MlRotate'  BY <1>10 DEF QuitSync, MlRotate
  <1>6. MlFinish'  BY <1>10 DEF QuitSync, MlFinish
  <1>7. MlFew'  BY <1>10 DEF QuitSync, MlFew
  <1>8. NothingLost'
    <2>1. Mid' = Mid /\ Cur' = Cur  BY <1>10 DEF QuitSync, Mid, Cur, Rotated, TextOf
    <2>2. \A j \in Rotated : node'[j].text = node[j].text  BY <1>10
    <2> QED  BY <2>1, <2>2, NoTextLost DEF QuitSync
  <1> QED  BY <1>1, <1>2, <1>3, <1>4, <1>5, <1>6, <1>7, <1>8

LEMMA QuitModeOK == ASSUME MlInv, QuitMode PROVE MlInv'
  <1> USE MultilogAssumption DEF MlInv, MlTypes, At, Go, names
  <1> DEFINE v == [node[current] EXCEPT !.x = TRUE]
  <1>9. current \in Ino \ Rotated /\ v \in File /\ v.synced <= Len(v.text)
        /\ node' = [node EXCEPT ![current] = v]
    BY DEF QuitMode, FilesOK, MlRun, Open, File
  <1>10. /\ FilesOK' /\ LogsKept' /\ node'[current] = v
         /\ \A j \in Ino \ {current} : node'[j] = node[j]
         /\ \A j \in Rotated : node'[j] = node[j]
    <2> HIDE DEF v
    <2>1. Rotated \subseteq Ino  BY PartsOK
    <2>2. FilesOK /\ LogsKept  BY DEF MlKept
    <2> QED  BY <1>9, <2>1, <2>2, OneFile DEF QuitMode
  <1>1. MlTypes'  BY <1>10 DEF QuitMode
  <1>2. MlNames'  BY <1>10, SMTT(20) DEF QuitMode, MlNames, Rotated
  <1>3. MlKept'  BY <1>10, SMTT(20) DEF QuitMode, MlKept, MlRun, OnDisk, Open, Rotated
  <1>4. MlRun'  BY <1>10 DEF QuitMode, MlRun
  <1>5. MlRotate'  BY <1>10 DEF QuitMode, MlRotate
  <1>6. MlFinish'  BY <1>10 DEF QuitMode, MlFinish
  <1>7. MlFew'  BY <1>10 DEF QuitMode, MlFew
  <1>8. NothingLost'
    <2>1. Mid' = Mid /\ Cur' = Cur  BY <1>10 DEF QuitMode, Mid, Cur, MlNames, Rotated, TextOf
    <2>2. \A j \in Rotated : node'[j].text = node[j].text  BY <1>10
    <2> QED  BY <2>1, <2>2, NoTextLost DEF QuitMode
  <1> QED  BY <1>1, <1>2, <1>3, <1>4, <1>5, <1>6, <1>7, <1>8

LEMMA RestartCleanOK == ASSUME MlInv, RestartClean PROVE MlInv'
  <1> USE MultilogAssumption DEF MlInv, MlTypes, At, Go, names
  <1> DEFINE v == [node[current] EXCEPT !.x = FALSE]
  <1>9. current \in Ino \ Rotated /\ v \in File /\ v.synced <= Len(v.text)
        /\ node' = [node EXCEPT ![current] = v]
    BY DEF RestartClean, FilesOK, MlKept, File
  <1>10. /\ FilesOK' /\ LogsKept' /\ node'[current] = v
         /\ \A j \in Ino \ {current} : node'[j] = node[j]
         /\ \A j \in Rotated : node'[j] = node[j]
    <2> HIDE DEF v
    <2>1. Rotated \subseteq Ino  BY PartsOK
    <2>2. FilesOK /\ LogsKept  BY DEF MlKept
    <2> QED  BY <1>9, <2>1, <2>2, OneFile DEF RestartClean
  <1>11. /\ UNCHANGED <<outb, names, logs, fin, text, taken, logDeaths>>
         /\ mpc = "down" /\ mpc' = "run" /\ forced' = FALSE /\ processor' \in BOOLEAN
         /\ current # 0 /\ node[current].x /\ bytes' = Len(node[current].text)
    BY DEF RestartClean
  <1>12. /\ v.text = node[current].text /\ v.synced = node[current].synced
         /\ v.cut = node[current].cut /\ v.x = FALSE
    BY <1>9
  <1>13. Rotated' = Rotated  BY <1>11 DEF Rotated
  <1>14. /\ previous = 0 /\ processed = 0 /\ current \notin Rotated
         /\ OnDisk(current) /\ Len(node[current].text) <= Size /\ NoLate(node[current].text)
    BY <1>11 DEF MlKept
  <1> HIDE DEF v
  <1>1. MlTypes'
    <2>1. bytes' \in 0 .. Size
      <3>1. node[current].text \in Seq(Bytes)  BY <1>9 DEF FilesOK, File
      <3> QED  BY <1>11, <1>14, <3>1
    <2> QED  BY <1>10, <1>11, <2>1
  <1>2. MlNames'  BY <1>10, SMTT(20) DEF RestartClean, MlNames, Rotated
  <1>3. MlKept'  BY <1>10, <1>11, <1>12, <1>13, <1>14 DEF MlKept
  <1>4. MlRun'
    <2>1. Open'  BY <1>10, <1>11, <1>12, <1>13, <1>14 DEF OnDisk, Open
    <2>2. NoLate(node[current].text)'  BY <1>10, <1>11, <1>12, <1>14
    <2> QED  BY <1>11, <2>1, <2>2 DEF MlRun
  <1>5. MlRotate'  BY <1>10 DEF RestartClean, MlRotate
  <1>6. MlFinish'  BY <1>10 DEF RestartClean, MlFinish
  <1>7. MlFew'  BY <1>10 DEF RestartClean, MlFew
  <1>8. NothingLost'
    <2>1. Mid' = Mid /\ Cur' = Cur
      BY <1>10, SMTT(20) DEF RestartClean, Mid, Cur, MlNames, Rotated, TextOf
    <2>2. \A j \in Rotated : node'[j].text = node[j].text  BY <1>10
    <2> QED  BY <2>1, <2>2, NoTextLost DEF RestartClean
  <1> QED  BY <1>1, <1>2, <1>3, <1>4, <1>5, <1>6, <1>7, <1>8

LEMMA ProcessRunOK == ASSUME MlInv, ProcessRun PROVE MlInv'
  <1> USE MultilogAssumption DEF MlInv, MlTypes, At, Go, names
  <1> DEFINE v == [node[processed] EXCEPT !.text = node[previous].text]
  <1>9. processed \in Ino \ Rotated /\ v \in File /\ v.synced <= Len(v.text)
        /\ node' = [node EXCEPT ![processed] = v]
    <2>1. previous \in Ino /\ processed \in Ino \ Rotated /\ node' = [node EXCEPT ![processed] = v]
      BY DEF ProcessRun, MlRotate
    <2>2. node[processed] \in File /\ node[previous] \in File  BY <2>1 DEF FilesOK
    <2>3. node[processed].text \in Seq(Bytes) /\ node[previous].text \in Seq(Bytes)
      BY <2>2 DEF File
    <2>4. Len(node[processed].text) \in Nat  BY <2>3
    <2>5. v \in File /\ v.synced <= Len(v.text)
      <3>1. node[processed] = Empty  BY DEF ProcessRun, MlRotate
      <3>2. v.text = node[previous].text /\ v.synced = node[processed].synced /\ v \in File
        BY <2>2, <2>3, FileChanged
      <3>3. Len(node[previous].text) \in Nat  BY <2>3
      <3> HIDE DEF v
      <3> QED  BY <3>1, <3>2, <3>3 DEF Empty
    <2> QED  BY <2>1, <2>5
  <1>10. /\ FilesOK' /\ LogsKept' /\ node'[processed] = v
         /\ \A j \in Ino \ {processed} : node'[j] = node[j]
         /\ \A j \in Rotated : node'[j] = node[j]
    <2> HIDE DEF v
    <2>1. Rotated \subseteq Ino  BY PartsOK
    <2>2. FilesOK /\ LogsKept  BY DEF MlKept
    <2> QED  BY <1>9, <2>1, <2>2, OneFile DEF ProcessRun
  <1>11. /\ UNCHANGED <<names, logs, bytes>> /\ Rotated' = Rotated
         /\ mpc' = "psync" /\ mpc = "processing"
         /\ previous # 0 /\ previous \notin Rotated /\ Young
         /\ processed # 0 /\ processed \notin Rotated /\ ~node[processed].cut
         /\ current \in Ino /\ previous \in Ino
         /\ node'[current] = node[current] /\ node'[previous] = node[previous]
    <2>1. /\ UNCHANGED <<names, logs, bytes>> /\ Rotated' = Rotated
          /\ mpc' = "psync" /\ mpc = "processing"
      BY DEF ProcessRun, Rotated
    <2>2. /\ previous # 0 /\ previous \notin Rotated /\ Young
          /\ processed # 0 /\ processed \notin Rotated /\ ~node[processed].cut
          /\ mpc # "processing" => node[processed].text = node[previous].text
          /\ mpc = "pmode" => OnDisk(processed)
          /\ current \in Ino /\ previous \in Ino
      BY <2>1 DEF MlRotate, Young
    <2>3. current # processed /\ previous # processed  BY <2>2 DEF MlNames
    <2>4. node'[current] = node[current] /\ node'[previous] = node[previous]  BY <1>10, <2>2, <2>3
    <2> QED  BY <2>1, <2>2, <2>4
  <1>1. MlTypes'  BY <1>10 DEF ProcessRun
  <1>2. MlNames'  BY <1>10 DEF ProcessRun, MlNames, Rotated
  <1>3. MlKept'
    <2>1. ~node'[processed].x
      <3>1. node[processed] = Empty  BY DEF ProcessRun, MlRotate
      <3>2. node[processed] \in File  BY <1>9 DEF FilesOK
      <3> QED  BY <1>10, <3>1, <3>2 DEF Empty, File
    <2>2. previous # 0 => (OnDisk(previous) /\ ~node[previous].x)'
      BY <1>10, <1>11 DEF MlKept, OnDisk
    <2>3. node'[current] = node[current] /\ mpc = "processing" /\ UNCHANGED names
      BY <1>11
    <2>4. current # 0 => ~node'[current].x  BY <2>3 DEF MlKept
    <2> HIDE DEF v
    <2> QED  BY <1>10, <1>11, <2>1, <2>2, <2>4 DEF MlKept
  <1>4. MlRun'  BY <1>10 DEF ProcessRun, MlRun
  <1>5. MlRotate'
    <2>5. node[processed] \in File  BY <1>9 DEF FilesOK
    <2>6. v.text = node[previous].text /\ v.cut = node[processed].cut
      BY <2>5
    <2> HIDE DEF v
    <2>7. ~node'[processed].cut /\ node'[processed].text = node'[previous].text
      BY <1>10, <1>11, <2>6
    <2>8. mpc' \in {"pmode", "punlink"} => OnDisk(processed)'  BY <1>10, <1>11, <2>6
    <2>9. mpc' = "punlink" => node'[processed].x  BY <1>10, <1>11, <2>6
    <2>10. Young'  BY <1>11 DEF Young
    <2> QED  BY <1>11, <2>7, <2>8, <2>9, <2>10 DEF MlRotate
  <1>6. MlFinish'  BY <1>10 DEF ProcessRun, MlFinish
  <1>7. MlFew'  BY <1>10 DEF ProcessRun, MlFew
  <1>8. NothingLost'
    <2>1. Mid' = Mid /\ Cur' = Cur
      BY <1>10 DEF ProcessRun, Mid, Cur, MlNames, MlRotate, Rotated, TextOf
    <2>2. \A j \in Rotated : node'[j].text = node[j].text  BY <1>10
    <2> QED  BY <2>1, <2>2, NoTextLost DEF ProcessRun
  <1> QED  BY <1>1, <1>2, <1>3, <1>4, <1>5, <1>6, <1>7, <1>8

LEMMA ProcessSyncOK == ASSUME MlInv, ProcessSync PROVE MlInv'
  <1> USE MultilogAssumption DEF MlInv, MlTypes, At, Go, names
  <1> DEFINE v == [node[processed] EXCEPT !.synced = Len(node[processed].text)]
  <1>9. processed \in Ino \ Rotated /\ v \in File /\ v.synced <= Len(v.text)
        /\ node' = [node EXCEPT ![processed] = v]
    BY DEF ProcessSync, FilesOK, MlRotate, MlKept, OnDisk, File
  <1>10. /\ FilesOK' /\ LogsKept' /\ node'[processed] = v
         /\ \A j \in Ino \ {processed} : node'[j] = node[j]
         /\ \A j \in Rotated : node'[j] = node[j]
    <2> HIDE DEF v
    <2>1. Rotated \subseteq Ino  BY PartsOK
    <2>2. FilesOK /\ LogsKept  BY DEF MlKept
    <2> QED  BY <1>9, <2>1, <2>2, OneFile DEF ProcessSync
  <1>1. MlTypes'  BY <1>10 DEF ProcessSync
  <1>2. MlNames'  BY <1>10 DEF ProcessSync, MlNames, Rotated
  <1>3. MlKept'  BY <1>10, SMTT(20) DEF ProcessSync, MlKept, OnDisk
  <1>4. MlRun'  BY <1>10 DEF ProcessSync, MlRun
  <1>5. MlRotate'
    <2>1. /\ UNCHANGED <<names, logs, bytes>> /\ Rotated' = Rotated
          /\ mpc' = "pmode" /\ mpc = "psync"
      BY DEF ProcessSync, Rotated
    <2>2. /\ previous # 0 /\ previous \notin Rotated /\ Young
          /\ processed # 0 /\ processed \notin Rotated /\ ~node[processed].cut
          /\ mpc # "processing" => node[processed].text = node[previous].text
          /\ mpc = "pmode" => OnDisk(processed)
          /\ current \in Ino /\ previous \in Ino
      BY <2>1 DEF MlRotate, Young
    <2>3. current # processed /\ previous # processed  BY <2>2 DEF MlNames
    <2>4. node'[current] = node[current] /\ node'[previous] = node[previous]  BY <1>10, <2>2, <2>3
    <2>5. node[processed] \in File  BY <1>9 DEF FilesOK
    <2>6. v.text = node[processed].text /\ v.cut = node[processed].cut /\ v.synced = Len(v.text)
      BY <2>5
    <2> HIDE DEF v
    <2>7. ~node'[processed].cut /\ node'[processed].text = node'[previous].text
      BY <1>10, <2>1, <2>2, <2>4, <2>6
    <2>8. mpc' \in {"pmode", "punlink"} => OnDisk(processed)'  BY <1>10, <2>1, <2>2, <2>6 DEF OnDisk
    <2>9. mpc' = "punlink" => node'[processed].x  BY <1>10, <2>1, <2>6
    <2>10. Young'  BY <2>1, <2>2, <2>4 DEF Young
    <2> QED  BY <2>1, <2>2, <2>7, <2>8, <2>9, <2>10 DEF MlRotate
  <1>6. MlFinish'  BY <1>10 DEF ProcessSync, MlFinish
  <1>7. MlFew'  BY <1>10 DEF ProcessSync, MlFew
  <1>8. NothingLost'
    <2>1. Mid' = Mid /\ Cur' = Cur  BY <1>10 DEF ProcessSync, Mid, Cur, Rotated, TextOf
    <2>2. \A j \in Rotated : node'[j].text = node[j].text  BY <1>10
    <2> QED  BY <2>1, <2>2, NoTextLost DEF ProcessSync
  <1> QED  BY <1>1, <1>2, <1>3, <1>4, <1>5, <1>6, <1>7, <1>8

LEMMA ProcessModeOK == ASSUME MlInv, ProcessMode PROVE MlInv'
  <1> USE MultilogAssumption DEF MlInv, MlTypes, At, Go, names
  <1> DEFINE v == [node[processed] EXCEPT !.x = TRUE]
  <1>9. processed \in Ino \ Rotated /\ v \in File /\ v.synced <= Len(v.text)
        /\ node' = [node EXCEPT ![processed] = v]
    BY DEF ProcessMode, FilesOK, MlRotate, File
  <1>10. /\ FilesOK' /\ LogsKept' /\ node'[processed] = v
         /\ \A j \in Ino \ {processed} : node'[j] = node[j]
         /\ \A j \in Rotated : node'[j] = node[j]
    <2> HIDE DEF v
    <2>1. Rotated \subseteq Ino  BY PartsOK
    <2>2. FilesOK /\ LogsKept  BY DEF MlKept
    <2> QED  BY <1>9, <2>1, <2>2, OneFile DEF ProcessMode
  <1>1. MlTypes'  BY <1>10 DEF ProcessMode
  <1>2. MlNames'  BY <1>10 DEF ProcessMode, MlNames, Rotated
  <1>3. MlKept'  BY <1>10 DEF ProcessMode, MlKept, MlNames, MlRotate, OnDisk
  <1>4. MlRun'  BY <1>10 DEF ProcessMode, MlRun
  <1>5. MlRotate'
    <2>1. /\ UNCHANGED <<names, logs, bytes>> /\ Rotated' = Rotated
          /\ mpc' = "punlink" /\ mpc = "pmode"
      BY DEF ProcessMode, Rotated
    <2>2. /\ previous # 0 /\ previous \notin Rotated /\ Young
          /\ processed # 0 /\ processed \notin Rotated /\ ~node[processed].cut
          /\ mpc # "processing" => node[processed].text = node[previous].text
          /\ mpc = "pmode" => OnDisk(processed)
          /\ current \in Ino /\ previous \in Ino
      BY <2>1 DEF MlRotate, Young
    <2>3. current # processed /\ previous # processed  BY <2>2 DEF MlNames
    <2>4. node'[current] = node[current] /\ node'[previous] = node[previous]  BY <1>10, <2>2, <2>3
    <2>5. node[processed] \in File  BY <1>9 DEF FilesOK
    <2>6. v.text = node[processed].text /\ v.cut = node[processed].cut /\ v.x = TRUE
          /\ v.synced = node[processed].synced
      BY <2>5
    <2> HIDE DEF v
    <2>7. ~node'[processed].cut /\ node'[processed].text = node'[previous].text
      BY <1>10, <2>1, <2>2, <2>4, <2>6
    <2>8. mpc' \in {"pmode", "punlink"} => OnDisk(processed)'  BY <1>10, <2>1, <2>2, <2>6 DEF OnDisk
    <2>9. mpc' = "punlink" => node'[processed].x  BY <1>10, <2>1, <2>6
    <2>10. Young'  BY <2>1, <2>2, <2>4 DEF Young
    <2> QED  BY <2>1, <2>2, <2>7, <2>8, <2>9, <2>10 DEF MlRotate
  <1>6. MlFinish'  BY <1>10 DEF ProcessMode, MlFinish
  <1>7. MlFew'  BY <1>10 DEF ProcessMode, MlFew
  <1>8. NothingLost'
    <2>1. Mid' = Mid /\ Cur' = Cur  BY <1>10 DEF ProcessMode, Mid, Cur, MlRotate, Rotated, TextOf
    <2>2. \A j \in Rotated : node'[j].text = node[j].text  BY <1>10
    <2> QED  BY <2>1, <2>2, NoTextLost DEF ProcessMode
  <1> QED  BY <1>1, <1>2, <1>3, <1>4, <1>5, <1>6, <1>7, <1>8

LEMMA FullCreateOK == ASSUME MlInv, FullCreate PROVE MlInv'
  <1> USE MultilogAssumption DEF MlInv, MlTypes, At, Go, names
  <1>0. PICK i \in Ino : i = NewIno /\ i # 0 /\ i \notin Rotated /\ i # current /\ i # previous
                         /\ i # processed
    BY NewInoOK DEF MlFew, FullCreate, MlRotate
  <1> DEFINE v == Empty
  <1>9. i \in Ino \ Rotated /\ v \in File /\ v.synced <= Len(v.text)
        /\ node' = [node EXCEPT ![i] = v]
    BY <1>0 DEF FullCreate, Empty, FreedFile, File
  <1>10. /\ FilesOK' /\ LogsKept' /\ node'[i] = v
         /\ \A j \in Ino \ {i} : node'[j] = node[j]
         /\ \A j \in Rotated : node'[j] = node[j]
    <2> HIDE DEF v
    <2>1. Rotated \subseteq Ino  BY PartsOK
    <2>2. FilesOK /\ LogsKept  BY DEF MlKept
    <2> QED  BY <1>9, <2>1, <2>2, OneFile DEF FullCreate
  <1>1. MlTypes'  BY <1>0, <1>10 DEF FullCreate, Finish
  <1>2. MlNames'  BY <1>0, <1>10 DEF FullCreate, MlNames, Rotated
  <1>3. MlKept'
    <2>1. current' = i /\ previous' = previous /\ processed' = processed  BY <1>0 DEF FullCreate
    <2>2. node'[i].x = FALSE  BY <1>10 DEF Empty
    <2>3. previous # 0 => node'[previous] = node[previous]  BY <1>0, <1>10
    <2>4. processed # 0 => node'[processed] = node[processed]  BY <1>0, <1>10
    <2>5. MlKept  OBVIOUS
    <2> HIDE DEF MlInv, MlTypes, At, Go, names, v
    <2> QED  BY <1>10, <2>1, <2>2, <2>3, <2>4, <2>5 DEF MlKept, OnDisk
  <1>4. MlRun'  BY <1>0, <1>10 DEF FullCreate, MlRun, Finish
  <1>5. MlRotate'  BY <1>0, <1>10 DEF FullCreate, MlRotate, Young, Rotated, Finish
  <1>6. MlFinish'  BY <1>0, <1>10 DEF FullCreate, MlRotate, MlFinish, Young, Rotated, Finish
  <1>7. MlFew'  BY <1>0, <1>10 DEF FullCreate, MlFew
  <1>8. NothingLost'
    <2>1. Mid' = Mid /\ Cur' = Cur
      BY <1>0, <1>10 DEF FullCreate, Mid, Cur, MlNames, MlRotate, Rotated, TextOf, Empty
    <2>2. \A j \in Rotated : node'[j].text = node[j].text  BY <1>0, <1>10
    <2> QED  BY <2>1, <2>2, NoTextLost DEF FullCreate
  <1> QED  BY <1>1, <1>2, <1>3, <1>4, <1>5, <1>6, <1>7, <1>8

LEMMA ProcessOpenOK == ASSUME MlInv, ProcessOpen PROVE MlInv'
  <1> USE MultilogAssumption DEF MlInv, MlTypes, At, Go, names
  <1>0. PICK i \in Ino : i = NewIno /\ i # 0 /\ i \notin Rotated /\ i # current /\ i # previous
                         /\ i # processed
    BY NewInoOK DEF MlFew, ProcessOpen, MlRotate
  <1> DEFINE v == Empty
  <1>9. i \in Ino \ Rotated /\ v \in File /\ v.synced <= Len(v.text)
        /\ node' = [node EXCEPT ![i] = v]
    BY <1>0 DEF ProcessOpen, Empty, FreedFile, File
  <1>10. /\ FilesOK' /\ LogsKept' /\ node'[i] = v
         /\ \A j \in Ino \ {i} : node'[j] = node[j]
         /\ \A j \in Rotated : node'[j] = node[j]
    <2> HIDE DEF v
    <2>1. Rotated \subseteq Ino  BY PartsOK
    <2>2. FilesOK /\ LogsKept  BY DEF MlKept
    <2> QED  BY <1>9, <2>1, <2>2, OneFile DEF ProcessOpen
  <1>1. MlTypes'  BY <1>0, <1>10 DEF ProcessOpen
  <1>2. MlNames'  BY <1>0, <1>10 DEF ProcessOpen, MlNames, MlRotate, Rotated
  <1>3. MlKept'  BY <1>0, <1>10 DEF ProcessOpen, MlKept, MlRun, OnDisk, Empty
  <1>4. MlRun'  BY <1>0, <1>10 DEF ProcessOpen, MlRun
  <1>5. MlRotate'  BY <1>0, <1>10 DEF ProcessOpen, MlRotate, Young, Rotated, Empty
  <1>6. MlFinish'  BY <1>0, <1>10 DEF ProcessOpen, MlFinish
  <1>7. MlFew'  BY <1>0, <1>10 DEF ProcessOpen, MlFew
  <1>8. NothingLost'
    <2>1. Mid' = Mid /\ Cur' = Cur
      BY <1>0, <1>10 DEF ProcessOpen, Mid, Cur, MlRotate, MlFinish, Rotated, TextOf
    <2>2. \A j \in Rotated : node'[j].text = node[j].text  BY <1>0, <1>10
    <2> QED  BY <2>1, <2>2, NoTextLost DEF ProcessOpen
  <1> QED  BY <1>1, <1>2, <1>3, <1>4, <1>5, <1>6, <1>7, <1>8

LEMMA RestartNewOK == ASSUME MlInv, RestartNew PROVE MlInv'
  <1> USE MultilogAssumption DEF MlInv, MlTypes, At, Go, names
  <1>0. PICK i \in Ino : i = NewIno /\ i # 0 /\ i \notin Rotated /\ i # current /\ i # previous
                         /\ i # processed
    BY NewInoOK DEF MlFew, RestartNew, MlFinish
  <1> DEFINE v == Empty
  <1>9. i \in Ino \ Rotated /\ v \in File /\ v.synced <= Len(v.text)
        /\ node' = [node EXCEPT ![i] = v]
    BY <1>0 DEF RestartNew, Empty, FreedFile, File
  <1>10. /\ FilesOK' /\ LogsKept' /\ node'[i] = v
         /\ \A j \in Ino \ {i} : node'[j] = node[j]
         /\ \A j \in Rotated : node'[j] = node[j]
    <2> HIDE DEF v
    <2>1. Rotated \subseteq Ino  BY PartsOK
    <2>2. FilesOK /\ LogsKept  BY DEF MlKept
    <2> QED  BY <1>9, <2>1, <2>2, OneFile DEF RestartNew
  <1>1. MlTypes'  BY <1>0, <1>10 DEF RestartNew
  <1>2. MlNames'  BY <1>0, <1>10 DEF RestartNew, MlNames, Rotated
  <1>3. MlKept'  BY <1>0, <1>10 DEF RestartNew, MlKept, MlFinish, Empty
  <1>4. MlRun'  BY <1>0, <1>10 DEF RestartNew, MlRun, MlFinish, Open, Rotated, NoLate, Empty
  <1>5. MlRotate'  BY <1>0, <1>10 DEF RestartNew, MlRotate
  <1>6. MlFinish'  BY <1>0, <1>10 DEF RestartNew, MlFinish
  <1>7. MlFew'  BY <1>0, <1>10 DEF RestartNew, MlFew
  <1>8. NothingLost'
    <2>1. Mid' = Mid /\ Cur' = Cur  BY <1>0, <1>10 DEF RestartNew, Mid, Cur, MlFinish, TextOf, Empty
    <2>2. \A j \in Rotated : node'[j].text = node[j].text  BY <1>0, <1>10
    <2> QED  BY <2>1, <2>2, NoTextLost DEF RestartNew
  <1> QED  BY <1>1, <1>2, <1>3, <1>4, <1>5, <1>6, <1>7, <1>8

LEMMA ReadMoreOK == ASSUME MlInv, ReadMore PROVE MlInv'
  <1> USE MultilogAssumption DEF MlInv, MlTypes, At, Go, names
  <1>9. FilesOK' /\ LogsKept' /\ Rotated' = Rotated  BY SameFiles DEF ReadMore, MlKept
  <1>10. Rotated \subseteq Ino /\ Len(logs) \in Nat  BY PartsOK
  <1>1. MlTypes'
    <2>1. outb' \in Seq(Bytes)
      <3>1. PICK n \in 1 .. MaxBuf : \E s \in [1 .. n -> Bytes] : outb' = s  BY DEF ReadMore, Bytes
      <3> QED  BY <3>1
    <2> QED  BY <1>9, <2>1 DEF ReadMore
  <1>2. MlNames'  BY <1>9 DEF ReadMore, MlNames
  <1>3. MlKept'  BY <1>9 DEF ReadMore, MlKept, MlRun, Open
  <1>4. MlRun'  BY <1>9 DEF ReadMore, MlRun, Open
  <1>5. MlRotate'  BY <1>9 DEF ReadMore, MlRotate
  <1>6. MlFinish'  BY <1>9 DEF ReadMore, MlFinish
  <1>7. MlFew'  BY <1>9 DEF ReadMore, MlFew
  <1>8. NothingLost'
    <2>1. Mid' = Mid /\ Cur' = Cur  BY <1>9 DEF ReadMore, Mid, Cur, TextOf
    <2>2. \A j \in Rotated : node'[j].text = node[j].text  BY <1>9 DEF ReadMore
    <2> QED  BY <2>1, <2>2, NoTextLost DEF ReadMore
  <1> QED  BY <1>1, <1>2, <1>3, <1>4, <1>5, <1>6, <1>7, <1>8

LEMMA ForceRotateOK == ASSUME MlInv, ForceRotate PROVE MlInv'
  <1> USE MultilogAssumption DEF MlInv, MlTypes, At, Go, names
  <1>9. FilesOK' /\ LogsKept' /\ Rotated' = Rotated  BY SameFiles DEF ForceRotate, MlKept
  <1>10. Rotated \subseteq Ino /\ Len(logs) \in Nat  BY PartsOK
  <1>1. MlTypes'  BY <1>9 DEF ForceRotate
  <1>2. MlNames'  BY <1>9 DEF ForceRotate, MlNames
  <1>3. MlKept'  BY <1>9 DEF ForceRotate, MlKept, MlRun, Open
  <1>4. MlRun'  BY <1>9 DEF ForceRotate, MlRun, Open
  <1>5. MlRotate'  BY <1>9 DEF ForceRotate, MlRotate
  <1>6. MlFinish'  BY <1>9 DEF ForceRotate, MlFinish
  <1>7. MlFew'  BY <1>9 DEF ForceRotate, MlFew
  <1>8. NothingLost'
    <2>1. Mid' = Mid /\ Cur' = Cur  BY <1>9 DEF ForceRotate, Mid, Cur, TextOf
    <2>2. \A j \in Rotated : node'[j].text = node[j].text  BY <1>9 DEF ForceRotate
    <2> QED  BY <2>1, <2>2, NoTextLost DEF ForceRotate
  <1> QED  BY <1>1, <1>2, <1>3, <1>4, <1>5, <1>6, <1>7, <1>8

LEMMA CWriteFullOK == ASSUME MlInv, CWriteFull PROVE MlInv'
  <1> USE MultilogAssumption DEF MlInv, MlTypes, At, Go, names
  <1>9. FilesOK' /\ LogsKept' /\ Rotated' = Rotated  BY SameFiles DEF CWriteFull, MlKept
  <1>10. Rotated \subseteq Ino /\ Len(logs) \in Nat  BY PartsOK
  <1>1. MlTypes'  BY <1>9 DEF CWriteFull
  <1>2. MlNames'  BY <1>9 DEF CWriteFull, MlNames
  <1>3. MlKept'  BY <1>9 DEF CWriteFull, MlKept, MlRun, Open
  <1>4. MlRun'
    <2>1. bytes = Size /\ Open  BY DEF CWriteFull, MlRun
    <2>2. NoLate(node[current].text)
      <3>1. \A k \in 1 .. Len(outb) : k \in Nat /\ k # 0  OBVIOUS
      <3> QED  BY <2>1, <3>1, SMTT(20) DEF CWriteFull, MlRun, Open
    <2>3. UNCHANGED <<node, names, bytes>> /\ mpc' = "full"  BY DEF CWriteFull
    <2> QED  BY <1>9, <2>1, <2>2, <2>3 DEF MlRun, Open
  <1>5. MlRotate'  BY <1>9 DEF CWriteFull, MlRotate
  <1>6. MlFinish'  BY <1>9 DEF CWriteFull, MlFinish
  <1>7. MlFew'  BY <1>9 DEF CWriteFull, MlFew
  <1>8. NothingLost'
    <2>1. Mid' = Mid /\ Cur' = Cur  BY <1>9 DEF CWriteFull, Mid, Cur, TextOf
    <2>2. \A j \in Rotated : node'[j].text = node[j].text  BY <1>9 DEF CWriteFull
    <2> QED  BY <2>1, <2>2, NoTextLost DEF CWriteFull
  <1> QED  BY <1>1, <1>2, <1>3, <1>4, <1>5, <1>6, <1>7, <1>8

LEMMA FullRenameOK == ASSUME MlInv, FullRename PROVE MlInv'
  <1> USE MultilogAssumption DEF MlInv, MlTypes, At, Go, names
  <1>9. FilesOK' /\ LogsKept' /\ Rotated' = Rotated  BY SameFiles DEF FullRename, MlKept
  <1>10. Rotated \subseteq Ino /\ Len(logs) \in Nat  BY PartsOK
  <1>1. MlTypes'  BY <1>9 DEF FullRename
  <1>2. MlNames'
    <2>1. current # 0 /\ current \notin Rotated /\ previous = 0 /\ processed = 0
      BY DEF FullRename, MlRun, Open
    <2> QED  BY <1>9, <1>10, <2>1 DEF FullRename, MlNames
  <1>3. MlKept'  BY <1>9 DEF FullRename, MlKept, MlRun, OnDisk, Open
  <1>4. MlRun'  BY <1>9 DEF FullRename, MlRun
  <1>5. MlRotate'  BY <1>9 DEF FullRename, MlRun, MlRotate, Open
  <1>6. MlFinish'  BY <1>9 DEF FullRename, MlFinish
  <1>7. MlFew'  BY <1>9 DEF FullRename, MlFew
  <1>8. NothingLost'
    <2>1. current # 0 /\ current \notin Rotated /\ previous = 0 /\ processed = 0
      BY DEF FullRename, MlRun, Open
    <2>2. UNCHANGED <<node, logs, text>> /\ previous' = current /\ current' = 0
      BY DEF FullRename
    <2>3. Mid = << >> /\ Cur = node[current].text  BY <2>1 DEF Mid, Cur, TextOf
    <2>4. Mid' = node[current].text /\ Cur' = << >>  BY <1>9, <2>1, <2>2 DEF Mid, Cur, TextOf
    <2>5. Arch' = Arch  BY <2>2 DEF Arch
    <2>6. (Arch \o << >>) \o Cur = Arch \o Cur /\ (Arch \o Cur) \o << >> = Arch \o Cur
      BY PartsOK, Ends
    <2>7. text = (Arch \o Mid) \o Cur  BY PartsOK
    <2>8. text' = (Arch' \o Mid') \o Cur'  BY <2>2, <2>3, <2>4, <2>5, <2>6, <2>7
    <2> QED  BY <2>8 DEF NothingLost, Found, Arch, Mid, Cur
  <1> QED  BY <1>1, <1>2, <1>3, <1>4, <1>5, <1>6, <1>7, <1>8

LEMMA FinNoneOK == ASSUME MlInv, FinNone PROVE MlInv'
  <1> USE MultilogAssumption DEF MlInv, MlTypes, At, Go, names
  <1>9. FilesOK' /\ LogsKept' /\ Rotated' = Rotated  BY SameFiles DEF FinNone, MlKept
  <1>10. Rotated \subseteq Ino /\ Len(logs) \in Nat  BY PartsOK
  <1>1. MlTypes'  BY <1>9 DEF FinNone, MlFinish
  <1>2. MlNames'  BY <1>9 DEF FinNone, MlNames
  <1>3. MlKept'  BY <1>9, SMTT(20) DEF FinNone, MlKept, MlFinish, FinFile
  <1>4. MlRun'  BY <1>9, SMTT(20) DEF FinNone, MlRun, MlFinish, FinFile
  <1>5. MlRotate'  BY <1>9 DEF FinNone, MlRotate, MlFinish
  <1>6. MlFinish'  BY <1>9, SMTT(20) DEF FinNone, MlFinish, FinFile
  <1>7. MlFew'  BY <1>9 DEF FinNone, MlFew
  <1>8. NothingLost'
    <2>1. Mid' = Mid /\ Cur' = Cur  BY <1>9 DEF FinNone, Mid, Cur, TextOf
    <2>2. \A j \in Rotated : node'[j].text = node[j].text  BY <1>9 DEF FinNone
    <2> QED  BY <2>1, <2>2, NoTextLost DEF FinNone
  <1> QED  BY <1>1, <1>2, <1>3, <1>4, <1>5, <1>6, <1>7, <1>8

LEMMA FinUnlinkOK == ASSUME MlInv, FinUnlink PROVE MlInv'
  <1> USE MultilogAssumption DEF MlInv, MlTypes, At, Go, names
  <1>9. FilesOK' /\ LogsKept' /\ Rotated' = Rotated  BY SameFiles DEF FinUnlink, MlKept
  <1>10. Rotated \subseteq Ino /\ Len(logs) \in Nat  BY PartsOK
  <1>1. MlTypes'  BY <1>9 DEF FinUnlink
  <1>2. MlNames'  BY <1>9 DEF FinUnlink, MlNames, MlFinish
  <1>3. MlKept'  BY <1>9 DEF FinUnlink, MlKept, MlFinish
  <1>4. MlRun'  BY <1>9 DEF FinUnlink, MlRun
  <1>5. MlRotate'  BY <1>9 DEF FinUnlink, MlRotate
  <1>6. MlFinish'  BY <1>9, SMTT(20) DEF FinUnlink, MlFinish, Young, FinFile
  <1>7. MlFew'  BY <1>9 DEF FinUnlink, MlFew
  <1>8. NothingLost'
    <2>1. Mid' = Mid /\ Cur' = Cur  BY <1>9 DEF FinUnlink, Mid, Cur, MlFinish, FinFile, TextOf
    <2>2. \A j \in Rotated : node'[j].text = node[j].text  BY <1>9 DEF FinUnlink
    <2> QED  BY <2>1, <2>2, NoTextLost DEF FinUnlink
  <1> QED  BY <1>1, <1>2, <1>3, <1>4, <1>5, <1>6, <1>7, <1>8

LEMMA FilesFitOK == ASSUME MlInv, FilesFit PROVE MlInv'
  <1> USE MultilogAssumption DEF MlInv, MlTypes, At, Go, names
  <1>9. FilesOK' /\ LogsKept' /\ Rotated' = Rotated  BY SameFiles DEF FilesFit, MlKept
  <1>10. Rotated \subseteq Ino /\ Len(logs) \in Nat  BY PartsOK
  <1>1. MlTypes'  BY <1>9 DEF FilesFit, MlFinish
  <1>2. MlNames'  BY <1>9 DEF FilesFit, MlNames
  <1>3. MlKept'  BY <1>9, SMTT(20) DEF FilesFit, MlKept, MlFinish, FinFile
  <1>4. MlRun'
    <2>1. mpc' = fin[3] /\ UNCHANGED <<names, node, logs, bytes, outb>>  BY DEF FilesFit
    <2>2. fin[3] \in {"run", "old", "new"} /\ (fin[3] = "run" => previous = 0 /\ processed = 0 /\ Young)
      BY SMTT(20) DEF FilesFit, MlFinish, Young, FinFile
    <2>3. Young => Len(node[current].text) = 0  BY DEF Young, Empty
    <2>4. fin[3] = "run" => Open /\ NoLate(node[current].text)
      BY <2>2, <2>3 DEF Young, Open, NoLate, Empty
    <2> QED  BY <1>9, <2>1, <2>2, <2>4 DEF MlRun, Open
  <1>5. MlRotate'  BY <1>9 DEF FilesFit, MlRotate, MlFinish, Young
  <1>6. MlFinish'
    <2>1. mpc' = fin[3] /\ UNCHANGED names  BY DEF FilesFit
    <2>2. fin[3] \in {"run", "old", "new"} /\ (fin[3] # "run" => previous = 0 /\ processed = 0)
          /\ (fin[3] = "new" => current = 0)
      BY SMTT(20) DEF FilesFit, MlFinish, FinFile
    <2> QED  BY <2>1, <2>2 DEF MlFinish
  <1>7. MlFew'  BY <1>9 DEF FilesFit, MlFew
  <1>8. NothingLost'
    <2>1. Mid' = Mid /\ Cur' = Cur  BY <1>9 DEF FilesFit, Mid, Cur, TextOf
    <2>2. \A j \in Rotated : node'[j].text = node[j].text  BY <1>9 DEF FilesFit
    <2> QED  BY <2>1, <2>2, NoTextLost DEF FilesFit
  <1> QED  BY <1>1, <1>2, <1>3, <1>4, <1>5, <1>6, <1>7, <1>8

LEMMA RestartOldOK == ASSUME MlInv, RestartOld PROVE MlInv'
  <1> USE MultilogAssumption DEF MlInv, MlTypes, At, Go, names
  <1>9. FilesOK' /\ LogsKept' /\ Rotated' = Rotated  BY SameFiles DEF RestartOld, MlKept
  <1>10. Rotated \subseteq Ino /\ Len(logs) \in Nat  BY PartsOK
  <1>1. MlTypes'  BY <1>9 DEF RestartOld, Finish
  <1>2. MlNames'  BY <1>9 DEF RestartOld, MlNames
  <1>3. MlKept'  BY <1>9 DEF RestartOld, MlKept, MlFinish
  <1>4. MlRun'  BY <1>9 DEF RestartOld, MlRun, Finish
  <1>5. MlRotate'  BY <1>9 DEF RestartOld, MlRotate, Finish
  <1>6. MlFinish'  BY <1>9 DEF RestartOld, MlFinish, Finish
  <1>7. MlFew'  BY <1>9 DEF RestartOld, MlFew
  <1>8. NothingLost'
    <2>1. Mid' = Mid /\ Cur' = Cur  BY <1>9 DEF RestartOld, Mid, Cur, TextOf
    <2>2. \A j \in Rotated : node'[j].text = node[j].text  BY <1>9 DEF RestartOld
    <2> QED  BY <2>1, <2>2, NoTextLost DEF RestartOld
  <1> QED  BY <1>1, <1>2, <1>3, <1>4, <1>5, <1>6, <1>7, <1>8

LEMMA KillLogOK == ASSUME MlInv, KillLog PROVE MlInv'
  <1> USE MultilogAssumption DEF MlInv, MlTypes, At, Go, names
  <1>9. FilesOK' /\ LogsKept' /\ Rotated' = Rotated  BY SameFiles DEF KillLog, MlKept
  <1>10. Rotated \subseteq Ino /\ Len(logs) \in Nat  BY PartsOK
  <1>1. MlTypes'
    <2>1. << >> \in Seq(Bytes) /\ outb' = << >>  BY DEF KillLog
    <2>2. logDeaths' \in 0 .. MaxLogDeath  BY DEF KillLog
    <2>3. UNCHANGED <<processor, names, node, logs>> /\ bytes' = 0 /\ forced' = FALSE
          /\ mpc' = "down"
      BY DEF KillLog
    <2>4. bytes' \in 0 .. Size  BY <2>3
    <2> QED  BY <1>9, <2>1, <2>2, <2>3, <2>4
  <1>2. MlNames'  BY <1>9 DEF KillLog, MlNames
  <1>3. MlKept'  BY <1>9 DEF KillLog, MlKept, OnDisk
  <1>4. MlRun'  BY <1>9 DEF KillLog, MlRun
  <1>5. MlRotate'  BY <1>9 DEF KillLog, MlRotate
  <1>6. MlFinish'  BY <1>9 DEF KillLog, MlFinish
  <1>7. MlFew'
    <2>1. logs' = logs /\ logDeaths' = logDeaths + 1 /\ mpc' = "down"  BY DEF KillLog
    <2>2. logDeaths \in Nat /\ Num \in Nat  OBVIOUS
    <2> QED  BY <1>10, <2>1, <2>2 DEF MlFew
  <1>8. NothingLost'
    <2>1. Mid' = Mid /\ Cur' = Cur  BY <1>9 DEF KillLog, Mid, Cur, TextOf
    <2>2. \A j \in Rotated : node'[j].text = node[j].text  BY <1>9 DEF KillLog
    <2> QED  BY <2>1, <2>2, NoTextLost DEF KillLog
  <1> QED  BY <1>1, <1>2, <1>3, <1>4, <1>5, <1>6, <1>7, <1>8

LEMMA UnlinkPreviousOK == ASSUME MlInv, UnlinkPrevious PROVE MlInv'
  <1> USE MultilogAssumption DEF MlInv, MlTypes
  <1>1. /\ mpc = "punlink" /\ mpc' = "finish" /\ fin' = <<"processed", "s", "run">>
        /\ previous' = 0
        /\ UNCHANGED <<processor, bytes, outb, current, processed, logs, forced, text, taken, logDeaths>>
    BY DEF UnlinkPrevious, At, Go, Finish
  <1>2. /\ previous # 0 /\ previous \notin Rotated /\ Young /\ processed # 0 /\ processed \notin Rotated
        /\ node[processed].text = node[previous].text /\ OnDisk(processed) /\ node[processed].x
    BY <1>1 DEF MlRotate
  <1>3. previous # current /\ previous # processed  BY <1>2 DEF MlNames
  <1>4. node' = [node EXCEPT ![previous] = Empty]
    BY <1>1, <1>2 DEF UnlinkPrevious, Drop, FreedFile
  <1>5. Rotated' = Rotated /\ Rotated \subseteq Ino  BY <1>1, PartsOK DEF Rotated
  <1>6. /\ FilesOK' /\ LogsKept' /\ \A j \in Ino \ {previous} : node'[j] = node[j]
        /\ \A j \in Rotated : node'[j] = node[j]
    <2>1. Empty \in File /\ Empty.synced <= Len(Empty.text)  BY DEF Empty, File
    <2>2. previous \in Ino \ Rotated  BY <1>2
    <2> QED  BY <1>1, <1>4, <1>5, <2>1, <2>2, OneFile DEF MlKept
  <1>7. node'[current] = node[current] /\ node'[processed] = node[processed]
    BY <1>2, <1>3, <1>6 DEF Young
  <1>8. Young'  BY <1>1, <1>2, <1>5, <1>7 DEF Young
  <1>9. MlTypes'  BY <1>1, <1>6
  <1>10. MlNames'  BY <1>1, <1>2, <1>5, <1>7 DEF MlNames
  <1>11. MlKept'  BY <1>1, <1>2, <1>6, <1>7, <1>8 DEF MlKept, OnDisk, Young, Empty
  <1>12. MlRun' /\ MlRotate' /\ MlFew'  BY <1>1 DEF MlRun, MlRotate, MlFew
  <1>13. MlFinish'  BY <1>1, <1>2, <1>7, <1>8 DEF MlFinish
  <1>14. NothingLost'
    <2>1. Mid' = Mid /\ Cur' = Cur
      BY <1>1, <1>2, <1>5, <1>7 DEF Mid, Cur, TextOf
    <2> QED  BY <1>1, <1>6, <2>1, NoTextLost
  <1> QED  BY <1>9, <1>10, <1>11, <1>12, <1>13, <1>14

LEMMA FinLinkOK == ASSUME MlInv, FinLink PROVE MlInv'
  <1> USE MultilogAssumption DEF MlInv, MlTypes
  <1> DEFINE i == FinFile
  <1>1. /\ mpc = "finish" /\ mpc' = "unlink" /\ i # 0
        /\ logs' = IF i \in Rotated THEN logs ELSE Append(logs, <<i, fin[2]>>)
        /\ UNCHANGED <<processor, bytes, outb, current, previous, processed, node, fin, forced, text,
                       taken, logDeaths>>
    BY DEF FinLink, At, Go, names
  <1>2. /\ \/ fin = <<"previous", "s", "run">> /\ processed = 0 /\ Young /\ previous # 0
           \/ fin = <<"processed", "s", "run">> /\ previous = 0 /\ Young
           \/ fin = <<"processed", "s", "old">> /\ previous = 0
           \/ fin = <<"previous", "u", "old">> /\ processed = 0
           \/ fin = <<"current", "u", "new">> /\ previous = 0 /\ processed = 0
        /\ fin[1] = "processed" => processed # 0 /\ node[processed].x
    BY <1>1 DEF MlFinish
  <1>3. Rotated \subseteq Ino /\ Len(logs) \in Nat  BY PartsOK
  <1>4. i' = i /\ i \in Ino  BY <1>1, <1>2 DEF FinFile
  <1>5. \/ i = previous /\ fin[1] = "previous" /\ processed = 0
        \/ i = processed /\ fin[1] = "processed" /\ previous = 0 /\ node[processed].x
        \/ i = current /\ fin[1] = "current" /\ previous = 0 /\ processed = 0
    BY <1>2, SMTT(20) DEF FinFile
  <1>6. fin[2] = "s" => OnDisk(i)
    BY <1>1, <1>2, SMTT(20) DEF FinFile, MlKept
  <1> HIDE DEF i
  <1>7. Len(logs') = IF i \in Rotated THEN Len(logs) ELSE Len(logs) + 1
    BY <1>1
  <1>8. /\ Rotated' = Rotated \union {i} /\ logs' \in Seq(Ino \X {"s", "u"}) /\ LogsKept'
        /\ \A j, k \in DOMAIN logs' : logs'[j][1] = logs'[k][1] => j = k
        /\ i \notin Rotated => logs'[Len(logs')][1] = i
    <2>1. CASE i \in Rotated  BY <1>1, <2>1 DEF Rotated, MlNames, LogsKept, MlKept, OnDisk
    <2>2. CASE i \notin Rotated
      <3>1. fin[2] \in {"s", "u"}  BY <1>2
      <3>2. /\ logs' \in Seq(Ino \X {"s", "u"}) /\ Len(logs') = Len(logs) + 1
            /\ logs'[Len(logs) + 1] = <<i, fin[2]>> /\ \A k \in 1 .. Len(logs) : logs'[k] = logs[k]
            /\ DOMAIN logs' = 1 .. Len(logs) + 1 /\ DOMAIN logs = 1 .. Len(logs)
        BY <1>1, <1>4, <2>2, <3>1
      <3>3. \A k \in 1 .. Len(logs) + 1 : k \in 1 .. Len(logs) \/ k = Len(logs) + 1  BY <1>3
      <3>4. \A k \in 1 .. Len(logs) : logs[k][1] # i  BY <2>2, <3>2 DEF Rotated
      <3>5. 1 .. Len(logs) + 1 = 1 .. Len(logs) \union {Len(logs) + 1}  BY <1>3
      <3>6. Rotated' = Rotated \union {i}
        BY <3>2, <3>5 DEF Rotated
      <3>7. LogsKept'  BY <1>1, <1>6, <3>2, <3>3 DEF LogsKept, MlKept, OnDisk
      <3>8. \A j, k \in DOMAIN logs' : logs'[j][1] = logs'[k][1] => j = k
        BY <3>2, <3>3, <3>4 DEF MlNames
      <3> QED  BY <3>2, <3>6, <3>7, <3>8
    <2> QED  BY <2>1, <2>2
  <1>9. FilesOK'  BY <1>1 DEF FilesOK
  <1>10. MlTypes'  BY <1>1, <1>8, <1>9
  <1>11. i \notin Rotated => \A j \in {current, previous, processed} \ {i} : j \notin Rotated
    BY <1>1, <1>3, <1>5 DEF MlNames
  <1>12. MlNames'
    <2>1. CASE i \in Rotated
      <3>1. Rotated' = Rotated /\ logs' = logs  BY <1>1, <1>8, <2>1
      <3> QED  BY <1>1, <3>1 DEF MlNames
    <2>2. CASE i \notin Rotated
      <3>1. \A j \in {current, previous, processed} : j \in Rotated' <=> j = i
        BY <1>8, <1>11, <2>2
      <3>2. /\ current = i => previous = 0 /\ processed = 0
            /\ previous = i => processed = 0
            /\ processed = i => previous = 0 /\ node[processed].x
        BY <1>1, <1>5 DEF MlNames
      <3> QED  BY <1>1, <1>8, <2>2, <3>1, <3>2 DEF MlNames
    <2> QED  BY <2>1, <2>2
  <1>13. MlKept'  BY <1>1, <1>8 DEF MlKept, OnDisk
  <1>14. MlRun' /\ MlRotate'  BY <1>1 DEF MlRun, MlRotate
  <1>15. fin[3] = "run" => Young'
    <2>1. fin[3] = "run" => Young /\ current # i  BY <1>1, <1>2, <1>5 DEF MlNames, Young
    <2> QED  BY <1>1, <1>8, <2>1 DEF Young
  <1>16. MlFinish'
    <2>1. FinFile' # 0 /\ FinFile' \in Rotated'  BY <1>1, <1>4, <1>8 DEF i
    <2> QED  BY <1>1, <1>2, <1>15, <2>1 DEF MlFinish
  <1>17. MlFew'  BY <1>1, <1>3, <1>7 DEF MlFew
  <1>18. NothingLost'
    <2>1. CASE i \in Rotated
      <3>1. Rotated' = Rotated /\ logs' = logs  BY <1>1, <1>8, <2>1
      <3>2. Mid' = Mid /\ Cur' = Cur  BY <1>1, <3>1 DEF Mid, Cur, TextOf
      <3> QED  BY <1>1, <3>1, <3>2, NoTextLost
    <2>2. CASE i \notin Rotated
      <3> DEFINE s == [k \in DOMAIN logs |-> node[logs[k][1]].text]
                 t == node[i].text
      <3>1. s \in Seq(Seq(Bytes)) /\ t \in Seq(Bytes) /\ Len(s) = Len(logs)
        BY <1>3, <1>4, PartsOK DEF FilesOK, File
      <3>2. [k \in DOMAIN logs' |-> node[logs'[k][1]].text] = Append(s, t)
        <4>1. /\ logs' = Append(logs, <<i, fin[2]>>) /\ Len(logs') = Len(logs) + 1
              /\ DOMAIN logs' = 1 .. Len(logs) + 1 /\ DOMAIN logs = 1 .. Len(logs)
              /\ logs'[Len(logs) + 1] = <<i, fin[2]>> /\ \A k \in 1 .. Len(logs) : logs'[k] = logs[k]
          BY <1>1, <2>2
        <4>2. \A k \in 1 .. Len(logs) + 1 : k \in 1 .. Len(logs) \/ k = Len(logs) + 1  BY <1>3
        <4>3. \A k \in 1 .. Len(logs) : s[k] = node[logs[k][1]].text  BY <4>1
        <4>4. Append(s, t) = [k \in 1 .. Len(logs) + 1 |-> IF k = Len(logs) + 1 THEN t ELSE s[k]]
          <5> HIDE DEF s, t
          <5>1. Append(s, t) = [k \in 1 .. Len(s) + 1 |-> IF k = Len(s) + 1 THEN t ELSE s[k]]
            BY <3>1, AppendIs
          <5> QED  BY <3>1, <5>1
        <4> HIDE DEF s
        <4>5. \A k \in 1 .. Len(logs) + 1 :
                node[logs'[k][1]].text = IF k = Len(logs) + 1 THEN t ELSE s[k]
          BY <1>3, <4>1, <4>2, <4>3
        <4> HIDE DEF t
        <4> QED  BY <4>1, <4>4, <4>5
      <3>3. Arch' = Arch \o t
        <4>1. Arch' = FlattenSeq(Append(s, t))  BY <1>1, <3>2 DEF Arch
        <4>2. Arch = FlattenSeq(s)  BY DEF Arch
        <4> HIDE DEF s, t
        <4> QED  BY <3>1, <4>1, <4>2, FlattenAppend
      <3>4. \A j \in {current, previous, processed} : j \in Rotated' <=> j = i
        BY <1>8, <1>11, <2>2
      <3>5. /\ Mid' = << >> /\ Mid \in {t, << >>} /\ Cur \in {t, Cur'} /\ Cur' \in {Cur, << >>}
            /\ \/ Mid = t /\ Cur' = Cur
               \/ Mid = << >> /\ Cur = t /\ Cur' = << >>
        BY <1>1, <1>3, <1>5, <1>8, <1>11, <2>2, <3>4 DEF Mid, Cur, TextOf, MlNames
      <3>6. Arch \in Seq(Bytes) /\ Cur \in Seq(Bytes) /\ text = (Arch \o Mid) \o Cur  BY PartsOK
      <3> HIDE DEF t
      <3>7. (Arch \o t) \in Seq(Bytes) /\ ((Arch \o t) \o << >>) \o Cur = (Arch \o t) \o Cur
            /\ ((Arch \o t) \o << >>) \o << >> = Arch \o t
            /\ (Arch \o << >>) \o t = Arch \o t
        <4>1. Arch \o t \in Seq(Bytes)  BY <3>1, <3>6, ConcatProperties
        <4>2. (Arch \o t) \o << >> = Arch \o t  BY <4>1, ConcatEmptySeq
        <4> QED  BY <3>1, <3>6, <4>1, <4>2, Ends
      <3>8. text' = (Arch' \o Mid') \o Cur'  BY <1>1, <3>3, <3>5, <3>6, <3>7
      <3> QED  BY <3>8 DEF NothingLost, Found, Arch, Mid, Cur
    <2> QED  BY <2>1, <2>2
  <1> QED  BY <1>10, <1>12, <1>13, <1>14, <1>16, <1>17, <1>18

LEMMA RestartDirtyOK == ASSUME MlInv, RestartDirty PROVE MlInv'
  <1> USE MultilogAssumption DEF MlInv, MlTypes
  <1>1. /\ mpc = "down" /\ mpc' = "finish" /\ processor' \in BOOLEAN /\ forced' = FALSE
        /\ ~(current # 0 /\ node[current].x)
        /\ UNCHANGED <<bytes, outb, current, logs, text, taken, logDeaths>>
    BY DEF RestartDirty, At, Go, Finish
  <1>2. \/ /\ processed # 0 /\ node[processed].x /\ previous' = 0 /\ processed' = processed
           /\ fin' = <<"processed", "s", "old">> /\ Drop(previous)
        \/ /\ ~(processed # 0 /\ node[processed].x) /\ processed' = 0 /\ previous' = previous
           /\ fin' = <<"previous", "u", "old">> /\ Drop(processed)
    BY DEF RestartDirty, Finish
  <1>3. Rotated' = Rotated /\ Rotated \subseteq Ino /\ 0 \notin Rotated  BY <1>1, PartsOK DEF Rotated
  <1>4. Drop(previous) \/ Drop(processed)  BY <1>2
  <1>5. PICK d \in {previous, processed} :
           /\ Drop(d)
           /\ d = previous \/ ~(processed # 0 /\ node[processed].x)
           /\ d = processed \/ (processed # 0 /\ node[processed].x)
    BY <1>2
  <1>6. FilesOK' /\ LogsKept' /\ \A j \in Ino : j # d \/ j \in Rotated => node'[j] = node[j]
    BY <1>1, <1>3, <1>5, DropOK DEF MlKept
  <1>7. MlRun' /\ MlRotate' /\ MlFew'  BY <1>1 DEF MlRun, MlRotate, MlFew
  <1>8. CASE processed # 0 /\ node[processed].x
    <2>1. previous' = 0 /\ processed' = processed /\ fin' = <<"processed", "s", "old">> /\ d = previous
      BY <1>2, <1>5, <1>8
    <2>2. processed # d /\ (current # 0 => current # d)  BY <1>8, <2>1 DEF MlNames
    <2>3. node'[processed] = node[processed] /\ (current # 0 => node'[current] = node[current])
      BY <1>6, <1>8, <2>2
    <2>4. MlTypes'  BY <1>1, <1>6, <2>1
    <2>5. MlNames'  BY <1>1, <1>3, <2>1, <2>3 DEF MlNames
    <2>6. MlKept'  BY <1>1, <1>6, <1>8, <2>1, <2>3 DEF MlKept, OnDisk
    <2>7. MlFinish'  BY <1>1, <1>8, <2>1, <2>3 DEF MlFinish
    <2>8. Mid' = Mid /\ Cur' = Cur
      <3>1. previous # 0 => previous \notin Rotated /\ processed \notin Rotated
                            /\ node[processed].text = node[previous].text
        BY <1>8 DEF MlNames, MlKept
      <3> QED  BY <1>1, <1>3, <1>8, <2>1, <2>3, <3>1 DEF Mid, Cur, TextOf
    <2>9. NothingLost'  BY <1>1, <1>3, <1>6, <2>8, NoTextLost
    <2> QED  BY <1>7, <2>4, <2>5, <2>6, <2>7, <2>9
  <1>9. CASE ~(processed # 0 /\ node[processed].x)
    <2>1. previous' = previous /\ processed' = 0 /\ fin' = <<"previous", "u", "old">> /\ d = processed
      BY <1>2, <1>5, <1>9
    <2>2. (previous # 0 => previous # d) /\ (current # 0 => current # d)  BY <2>1 DEF MlNames
    <2>3. /\ previous # 0 => node'[previous] = node[previous]
          /\ current # 0 => node'[current] = node[current]
      BY <1>6, <2>2
    <2>4. MlTypes'  BY <1>1, <1>6, <2>1
    <2>5. MlNames'  BY <1>1, <1>3, <2>1, <2>3 DEF MlNames
    <2>6. MlKept'  BY <1>1, <1>6, <1>9, <2>1, <2>3 DEF MlKept, OnDisk
    <2>7. MlFinish'  BY <1>1, <2>1, <2>3 DEF MlFinish
    <2>8. Mid' = Mid /\ Cur' = Cur
      BY <1>1, <1>3, <1>9, <2>1, <2>3 DEF Mid, Cur, TextOf
    <2>9. NothingLost'  BY <1>1, <1>3, <1>6, <2>8, NoTextLost
    <2> QED  BY <1>7, <2>4, <2>5, <2>6, <2>7, <2>9
  <1> QED  BY <1>8, <1>9

LEMMA FitRemoveOK == ASSUME MlInv, FitRemove PROVE MlInv'
  <1> USE MultilogAssumption DEF MlInv, MlTypes
  <1> DEFINE i == Head(logs)[1]
             h == node[i].text
  <1>1. /\ mpc = "fit" /\ mpc' = "fit" /\ Len(logs) >= Num /\ logs' = Tail(logs)
        /\ text' = SubSeq(text, Len(h) + 1, Len(text)) /\ node' = [node EXCEPT ![i] = Empty]
        /\ UNCHANGED <<processor, bytes, outb, current, previous, processed, fin, forced, taken,
                       logDeaths>>
    BY DEF FitRemove, At, names, FreedFile
  <1>2. Rotated \subseteq Ino /\ Len(logs) \in Nat /\ 0 \notin Ino  BY PartsOK
  <1>3. Len(logs) >= 2 /\ logs # << >>  BY <1>1, <1>2
  <1>4. /\ logs' \in Seq(Ino \X {"s", "u"}) /\ Len(logs') = Len(logs) - 1 /\ Head(logs) = logs[1]
        /\ \A k \in 1 .. Len(logs) - 1 : logs'[k] = logs[k + 1]
        /\ DOMAIN logs = 1 .. Len(logs) /\ DOMAIN logs' = 1 .. Len(logs) - 1
    BY <1>1, <1>3, HeadTailProperties
  <1>5. i = logs[1][1] /\ 1 \in 1 .. Len(logs) /\ Len(logs) \in 1 .. Len(logs) /\ i \in Rotated
    <2>1. i = logs[1][1] /\ 1 \in 1 .. Len(logs) /\ Len(logs) \in 1 .. Len(logs)
      BY <1>2, <1>3, <1>4
    <2> HIDE DEF i
    <2>2. DOMAIN logs = 1 .. Len(logs)  BY <1>4
    <2> QED  BY <2>1, <2>2 DEF Rotated
  <1>6. i \in Ino /\ i # 0 /\ i \notin {current, previous, processed}
    <2>1. SUFFICES ASSUME i \in {current, previous, processed} PROVE FALSE  BY <1>2, <1>5
    <2>2. i = logs[Len(logs)][1]  BY <1>5, <2>1 DEF MlNames
    <2>3. Len(logs) = 1  BY <1>4, <1>5, <2>2 DEF MlNames
    <2> QED  BY <1>3, <2>3
  <1> HIDE DEF i
  <1>7. \A k \in 1 .. Len(logs) - 1 : k + 1 \in 1 .. Len(logs) /\ k + 1 # 1  BY <1>2
  <1>8. \A k \in 1 .. Len(logs) - 1 : logs[k + 1][1] # i
    BY <1>4, <1>5, <1>7 DEF MlNames
  <1>9. /\ node'[i] = Empty /\ \A j \in Ino \ {i} : node'[j] = node[j]
    BY <1>1, <1>6 DEF FilesOK
  <1>10. FilesOK'
    <2>1. Empty \in File /\ Empty.synced = 0 /\ Len(Empty.text) = 0  BY DEF Empty, File
    <2>2. node' \in [Ino -> File]  BY <1>1, <2>1 DEF FilesOK
    <2> QED  BY <1>9, <2>1, <2>2, SMTT(20) DEF FilesOK
  <1>11. LogsKept'
    <2>1. \A k \in 1 .. Len(logs) - 1 : logs[k + 1][1] \in Ino  BY <1>7
    <2>2. \A k \in 1 .. Len(logs) - 1 : node'[logs[k + 1][1]] = node[logs[k + 1][1]]
      BY <1>8, <1>9, <2>1
    <2>3. \A k \in 1 .. Len(logs) : logs[k][2] = "s" => OnDisk(logs[k][1])
      BY <1>4 DEF LogsKept, MlKept
    <2>4. \A k \in 1 .. Len(logs) - 1 : logs[k + 1][2] = "s" => OnDisk(logs[k + 1][1])
      BY <1>7, <2>3
    <2>5. \A k \in 1 .. Len(logs) - 1 : logs'[k][2] = "s" =>
            ~node'[logs'[k][1]].cut /\ node'[logs'[k][1]].synced = Len(node'[logs'[k][1]].text)
      <3>1. SUFFICES ASSUME NEW k \in 1 .. Len(logs) - 1, logs'[k][2] = "s"
                     PROVE  /\ ~node'[logs'[k][1]].cut
                            /\ node'[logs'[k][1]].synced = Len(node'[logs'[k][1]].text)
        OBVIOUS
      <3>2. logs'[k] = logs[k + 1]  BY <1>4
      <3>3. PICK f : f = logs[k + 1][1] /\ node'[f] = node[f]  BY <2>2
      <3>4. OnDisk(f)  BY <2>4, <3>1, <3>2, <3>3
      <3> QED  BY <3>2, <3>3, <3>4 DEF OnDisk
    <2>6. DOMAIN logs' = 1 .. Len(logs) - 1  BY <1>4
    <2> QED  BY <2>5, <2>6 DEF LogsKept, OnDisk
  <1>12. Rotated' \subseteq Rotated
    <2>1. \A k \in 1 .. Len(logs) - 1 : logs[k + 1][1] \in Rotated  BY <1>4, <1>7 DEF Rotated
    <2>2. \A k \in 1 .. Len(logs) - 1 : logs'[k][1] \in Rotated  BY <1>4, <2>1
    <2>3. DOMAIN logs' = 1 .. Len(logs) - 1  BY <1>4
    <2> HIDE DEF Rotated
    <2>4. Rotated' = {logs'[k][1] : k \in 1 .. Len(logs) - 1}  BY <2>3 DEF Rotated
    <2> QED  BY <2>2, <2>4
  <1>13. \A j \in {current, previous, processed} : j \in Rotated' <=> j \in Rotated
    <2>1. SUFFICES ASSUME NEW j \in {current, previous, processed}, j \in Rotated PROVE j \in Rotated'
      BY <1>12
    <2>2. j = logs[Len(logs)][1]  BY <2>1 DEF MlNames
    <2>3. Len(logs) - 1 \in 1 .. Len(logs) - 1 /\ (Len(logs) - 1) + 1 = Len(logs)  BY <1>2, <1>3
    <2>4. logs'[Len(logs) - 1][1] = j  BY <1>4, <2>2, <2>3
    <2> QED  BY <1>4, <2>3, <2>4 DEF Rotated
  <1>14. /\ \A j \in {current, previous, processed} : j # 0 => node'[j] = node[j]
    BY <1>6, <1>9
  <1>15. MlTypes'  BY <1>1, <1>4, <1>10
  <1>16. MlNames'
    <2>1. \A j, k \in DOMAIN logs' : logs'[j][1] = logs'[k][1] => j = k
      <3>1. SUFFICES ASSUME NEW j \in 1 .. Len(logs) - 1, NEW k \in 1 .. Len(logs) - 1,
                            logs[j + 1][1] = logs[k + 1][1]
                     PROVE  j = k
        BY <1>4
      <3>2. j + 1 = k + 1  BY <1>4, <1>7, <3>1 DEF MlNames
      <3> QED  BY <3>2
    <2>2. \A j \in {current, previous, processed} : j \in Rotated' => j = logs'[Len(logs')][1]
      <3>1. Len(logs) - 1 \in 1 .. Len(logs) - 1 /\ (Len(logs) - 1) + 1 = Len(logs)  BY <1>2, <1>3
      <3>2. logs'[Len(logs')] = logs[Len(logs)]  BY <1>4, <3>1
      <3> QED  BY <1>13, <3>2 DEF MlNames
    <2>3. processed \in Rotated => node'[processed].x = node[processed].x
      BY <1>2, <1>14
    <2> QED  BY <1>1, <1>13, <2>1, <2>2, <2>3 DEF MlNames
  <1>17. MlKept'  BY <1>1, <1>11, <1>13, <1>14 DEF MlKept, OnDisk
  <1>18. MlRun' /\ MlRotate'  BY <1>1 DEF MlRun, MlRotate
  <1>19. Young => Young'  BY <1>1, <1>13, <1>14 DEF Young
  <1>20. FinFile' = FinFile  BY <1>1 DEF FinFile
  <1>21. MlFinish'  BY <1>1, <1>19, <1>20 DEF MlFinish
  <1>22. MlFew'  BY <1>1, <1>2, <1>4 DEF MlFew
  <1>23. NothingLost'
    <2> DEFINE s == [k \in DOMAIN logs |-> node[logs[k][1]].text]
    <2>1. s \in Seq(Seq(Bytes)) /\ Len(s) = Len(logs) /\ s[1] = h /\ s # << >>
      <3>1. s \in Seq(Seq(Bytes))  BY PartsOK
      <3>2. s[1] = h  BY <1>4, <1>5
      <3>3. Len(s) = Len(logs)  BY <1>2, <1>4
      <3> HIDE DEF s
      <3> QED  BY <1>3, <3>1, <3>2, <3>3
    <2>2. [k \in DOMAIN logs' |-> node'[logs'[k][1]].text] = Tail(s)
      <3>1. \A k \in 1 .. Len(logs) - 1 : node'[logs'[k][1]].text = s[k + 1]
        <4>1. \A k \in 1 .. Len(logs) - 1 : logs[k + 1][1] \in Ino \ {i}  BY <1>7, <1>8
        <4> QED  BY <1>4, <1>7, <1>9, <4>1
      <3> HIDE DEF s
      <3>2. Tail(s) \in Seq(Seq(Bytes)) /\ Len(Tail(s)) = Len(logs) - 1
            /\ \A k \in 1 .. Len(logs) - 1 : Tail(s)[k] = s[k + 1]
        BY <2>1, HeadTailProperties
      <3>3. PICK z : z = Tail(s)  OBVIOUS
      <3>4. z \in Seq(Seq(Bytes)) /\ Len(z) = Len(logs) - 1  BY <3>2, <3>3
      <3>5. z = [k \in 1 .. Len(logs) - 1 |-> z[k]]  BY <3>4, SeqIs
      <3>6. \A k \in 1 .. Len(logs) - 1 : z[k] = node'[logs'[k][1]].text  BY <3>1, <3>2, <3>3
      <3>7. DOMAIN logs' = 1 .. Len(logs) - 1  BY <1>4
      <3> QED  BY <3>3, <3>5, <3>6, <3>7
    <2>3. Arch = FlattenSeq(s) /\ Arch' = FlattenSeq(Tail(s))  BY <2>2 DEF Arch
    <2> HIDE DEF s
    <2>4. Arch = h \o Arch'  BY <2>1, <2>3, FlattenTail
    <2>5. Arch' \in Seq(Bytes) /\ h \in Seq(Bytes)
      <3>1. Tail(s) \in Seq(Seq(Bytes))  BY <2>1, HeadTailProperties
      <3>2. h \in Seq(Bytes)  BY <1>6 DEF FilesOK, File
      <3> QED  BY <2>3, <3>1, <3>2, FlattenType
    <2>6. Mid' = Mid /\ Cur' = Cur  BY <1>1, <1>13, <1>14 DEF Mid, Cur, TextOf
    <2>7. text = ((h \o Arch') \o Mid) \o Cur /\ Mid \in Seq(Bytes) /\ Cur \in Seq(Bytes)
      BY <2>4, PartsOK
    <2> HIDE DEF h
    <2>8. text' = (Arch' \o Mid) \o Cur
      <3>1. text' = SubSeq(text, Len(h) + 1, Len(text))  BY <1>1
      <3>2. PICK a \in Seq(Bytes) : a = Arch'  BY <2>5
      <3>3. PICK m \in Seq(Bytes), c \in Seq(Bytes) : m = Mid /\ c = Cur  BY <2>7
      <3>4. text = ((h \o a) \o m) \o c  BY <2>7, <3>2, <3>3
      <3>5. h \in Seq(Bytes)  BY <2>5
      <3>6. ((h \o a) \o m) \o c = h \o ((a \o m) \o c) /\ (a \o m) \o c \in Seq(Bytes)
        BY <3>5, Regroup, Zenon
      <3>7. PICK w \in Seq(Bytes) : w = (a \o m) \o c  BY <3>6, Zenon
      <3>8. text = h \o w  BY <3>4, <3>6, <3>7, Zenon
      <3>9. SubSeq(text, Len(h) + 1, Len(text)) = w  BY <3>5, <3>8, FirstGone, ZenonT(30)
      <3> QED  BY <3>1, <3>2, <3>3, <3>7, <3>9, Zenon
    <2> QED  BY <2>6, <2>8 DEF NothingLost, Found, Arch, Mid, Cur
  <1> QED  BY <1>15, <1>16, <1>17, <1>18, <1>21, <1>22, <1>23

LEMMA CrashLogOK == ASSUME MlInv, CrashLog PROVE MlInv'
  <1> USE MultilogAssumption DEF MlInv, MlTypes
  <1>1. /\ mpc' = "down" /\ logDeaths < MaxLogDeath /\ logDeaths' = logDeaths + 1
        /\ outb' = << >> /\ bytes' = 0 /\ forced' = FALSE
        /\ UNCHANGED <<processor, current, previous, processed, logs>>
    BY DEF CrashLog, Go, names
  <1>13. /\ node' = [j \in Ino |-> [node[j] EXCEPT
                      !.text = SubSeq(@, 1, node[j].synced),
                      !.cut = @ \/ node[j].synced < Len(node[j].text)]]
         /\ text' = Found(node')
    BY DEF CrashLog
  <1>2. ASSUME NEW j \in Ino
        PROVE  /\ node'[j] \in File /\ node'[j].synced <= Len(node'[j].text)
               /\ node'[j].x = node[j].x
               /\ OnDisk(j) => OnDisk(j)' /\ node'[j].text = node[j].text
    <2>1. PICK p \in File : p = node[j] /\ p.synced <= Len(p.text)  BY DEF FilesOK
    <2>2. node'[j] = [p EXCEPT !.text = SubSeq(p.text, 1, p.synced),
                               !.cut = p.cut \/ p.synced < Len(p.text)]
      BY <1>13, <2>1
    <2>3. p.text \in Seq(Bytes) /\ Len(p.text) \in Nat /\ p.synced \in Nat /\ p.cut \in BOOLEAN
      BY DEF File
    <2>4. PICK t : t = SubSeq(p.text, 1, p.synced)  OBVIOUS
    <2>5. t \in Seq(Bytes) /\ Len(t) = p.synced  BY <2>1, <2>3, <2>4
    <2>6. PICK c \in BOOLEAN : c <=> p.cut \/ p.synced < Len(p.text)  OBVIOUS
    <2>7. node'[j] = [p EXCEPT !.text = t, !.cut = c]
      <3>1. c = (p.cut \/ p.synced < Len(p.text))  BY <2>6
      <3> QED  BY <2>2, <2>4, <3>1
    <2>8. /\ node'[j] \in File /\ node'[j].text = t /\ node'[j].synced = p.synced
          /\ node'[j].cut = c /\ node'[j].x = p.x
      BY <2>5, <2>7 DEF File
    <2>9. ASSUME OnDisk(j) PROVE t = p.text /\ ~c
      <3>1. ~p.cut /\ p.synced = Len(p.text)  BY <2>1, <2>9 DEF OnDisk
      <3>2. t = p.text  BY <2>3, <2>4, <3>1, SubSeqFull
      <3>3. ~(p.synced < Len(p.text))  BY <2>3, <3>1
      <3> QED  BY <2>6, <3>1, <3>2, <3>3
    <2>10. OnDisk(j) => OnDisk(j)' /\ node'[j].text = node[j].text
      BY <2>1, <2>5, <2>8, <2>9 DEF OnDisk
    <2> QED  BY <2>1, <2>3, <2>5, <2>8, <2>10
  <1>3. FilesOK'
    <2>1. node' \in [Ino -> File]
      <3>1. node' = [j \in Ino |-> node'[j]]  BY <1>13
      <3>2. \A j \in Ino : node'[j] \in File  BY <1>2
      <3> QED  BY <3>1, <3>2
    <2> QED  BY <1>2, <2>1 DEF FilesOK
  <1>4. Rotated' = Rotated /\ Rotated \subseteq Ino /\ Len(logs) \in Nat
    BY <1>1, PartsOK DEF Rotated
  <1>5. LogsKept'
    <2>1. \A k \in DOMAIN logs : logs[k][1] \in Ino  OBVIOUS
    <2>2. \A k \in DOMAIN logs : logs[k][2] = "s" => OnDisk(logs[k][1])  BY DEF MlKept, LogsKept
    <2>3. \A j \in Ino : OnDisk(j) => ~node'[j].cut /\ node'[j].synced = Len(node'[j].text)
      BY <1>2 DEF OnDisk
    <2> QED  BY <1>1, <2>1, <2>2, <2>3 DEF LogsKept, OnDisk
  <1>6. MlTypes'
    <2>1. logDeaths' \in 0 .. MaxLogDeath /\ bytes' \in 0 .. Size /\ << >> \in Seq(Bytes)  BY <1>1
    <2> QED  BY <1>1, <1>3, <2>1
  <1>7. \A j \in {current, previous, processed} : j # 0 =>
          node'[j].x = node[j].x /\ (OnDisk(j) => OnDisk(j)' /\ node'[j].text = node[j].text)
    BY <1>2
  <1>8. MlNames'  BY <1>1, <1>4, <1>7 DEF MlNames
  <1>9. MlKept'  BY <1>1, <1>4, <1>5, <1>7 DEF MlKept
  <1>10. MlRun' /\ MlRotate' /\ MlFinish'  BY <1>1 DEF MlRun, MlRotate, MlFinish
  <1>11. MlFew'
    <2>1. logDeaths \in Nat /\ Num \in Nat  OBVIOUS
    <2> QED  BY <1>1, <1>4, <2>1 DEF MlFew
  <1>12. NothingLost'
    <2>1. PICK nd : nd = node' /\ text' = Found(nd)  BY <1>13
    <2> QED  BY <1>1, <1>4, <2>1 DEF NothingLost, Found, TextOf
  <1> QED  BY <1>6, <1>8, <1>9, <1>10, <1>11, <1>12

(* c_write() hands over at least one byte and no more than fit; a newline  *)
(* that closes the file is the last byte of what it hands over.            *)
LEMMA ChunkIs ==
  ASSUME outb \in Seq(Bytes), outb # << >>, bytes \in 0 .. Size, bytes < Size
  PROVE  /\ Chunk \in 1 .. Len(outb) /\ bytes + Chunk <= Size
         /\ \A k \in 1 .. Len(outb) :
              outb[k] = "n" /\ bytes + k <= Size /\ bytes + k >= Size - Tail0
                => outb[Chunk] = "n" /\ k <= Chunk
  <1> USE MultilogAssumption
  <1> DEFINE len == IF Len(outb) >= Size - bytes THEN Size - bytes ELSE Len(outb)
             nl  == Newlines(outb, len)
             top == CHOOSE k \in nl : \A l \in nl : l <= k
  <1>1. Chunk = IF bytes + len >= Size - Tail0 /\ nl # {} THEN top ELSE len  BY DEF Chunk
  <1>2. Len(outb) \in Nat /\ Len(outb) > 0  OBVIOUS
  <1>3. /\ len \in 1 .. Len(outb) /\ bytes + len <= Size
        /\ \A k \in 1 .. Len(outb) : bytes + k <= Size => k <= len
    BY <1>2
  <1>4. nl = {k \in 1 .. len : outb[k] = "n"}  BY DEF Newlines
  <1> HIDE DEF len, nl
  <1>5. nl # {} => top \in nl /\ \A l \in nl : l <= top
    <2>1. SUFFICES ASSUME nl # {} PROVE \E k \in nl : \A l \in nl : l <= k  BY Zenon
    <2> DEFINE T == {len - k : k \in nl}
    <2>2. T \in SUBSET Nat /\ T # {}  BY <1>2, <1>3, <1>4, <2>1
    <2>3. PICK m \in T : \A k \in T : m <= k  BY <2>2, LeastNat, Zenon
    <2>4. PICK k \in nl : m = len - k  BY <2>3
    <2>5. ASSUME NEW l \in nl PROVE l <= k
      <3>1. m <= len - l  BY <2>3
      <3>2. l \in Int /\ k \in Int /\ len \in Int  BY <1>2, <1>3, <1>4
      <3> QED  BY <2>4, <3>1, <3>2
    <2> QED  BY <2>5
  <1> HIDE DEF top
  <1>6. Chunk \in 1 .. Len(outb) /\ Chunk <= len
    <2>1. nl # {} => top \in 1 .. len  BY <1>4, <1>5
    <2> QED  BY <1>1, <1>2, <1>3, <2>1
  <1>7. bytes + Chunk <= Size  BY <1>2, <1>3, <1>6
  <1>8. ASSUME NEW k \in 1 .. Len(outb),
               outb[k] = "n", bytes + k <= Size, bytes + k >= Size - Tail0
        PROVE  outb[Chunk] = "n" /\ k <= Chunk
    <2>1. k \in nl  BY <1>2, <1>3, <1>4, <1>8
    <2>2. bytes + len >= Size - Tail0  BY <1>2, <1>3, <1>8
    <2>3. Chunk = top  BY <1>1, <2>1, <2>2
    <2> QED  BY <1>4, <1>5, <2>1, <2>3
  <1> QED  BY <1>6, <1>7, <1>8

(* What was written of a buffer, and the rest of it.                       *)
LEMMA PieceIs ==
  ASSUME NEW B, NEW s \in Seq(B), NEW n \in 1 .. Len(s)
  PROVE  /\ SubSeq(s, 1, n) \in Seq(B) /\ Len(SubSeq(s, 1, n)) = n
         /\ \A k \in 1 .. n : SubSeq(s, 1, n)[k] = s[k]
         /\ SubSeq(s, n + 1, Len(s)) \in Seq(B) /\ Len(SubSeq(s, n + 1, Len(s))) = Len(s) - n
         /\ \A k \in 1 .. Len(s) - n : SubSeq(s, n + 1, Len(s))[k] = s[n + k]
  <1>1. Len(s) \in Nat  OBVIOUS
  <1>2. \A k \in 1 .. n : s[k] \in B  BY <1>1
  <1>3. /\ SubSeq(s, 1, n) \in Seq(B) /\ Len(SubSeq(s, 1, n)) = n
        /\ \A k \in 1 .. n : SubSeq(s, 1, n)[k] = s[k]
    BY <1>1, <1>2
  <1>4. PICK m \in Nat : m = n + 1  BY <1>1
  <1>5. \A k \in m .. Len(s) : s[k] \in B  BY <1>1, <1>4
  <1>6. /\ SubSeq(s, m, Len(s)) \in Seq(B) /\ Len(SubSeq(s, m, Len(s))) = Len(s) - n
        /\ \A k \in 1 .. Len(s) - n : SubSeq(s, m, Len(s))[k] = s[n + k]
    BY <1>1, <1>4, <1>5
  <1> QED  BY <1>3, <1>4, <1>6

LEMMA JoinIs ==
  ASSUME NEW B, NEW a \in Seq(B), NEW b \in Seq(B), NEW t, t = a \o b
  PROVE  /\ t \in Seq(B) /\ Len(t) = Len(a) + Len(b)
         /\ \A k \in 1 .. Len(a) + Len(b) : t[k] = IF k <= Len(a) THEN a[k] ELSE b[k - Len(a)]
  BY ConcatProperties

Cut(B, s, n, p, r) ==
  /\ p \in Seq(B) /\ Len(p) = n /\ \A k \in 1 .. n : p[k] = s[k]
  /\ r \in Seq(B) /\ Len(r) = Len(s) - n /\ \A k \in 1 .. Len(s) - n : r[k] = s[n + k]

LEMMA CutIs ==
  ASSUME NEW B, NEW s \in Seq(B), NEW n \in 1 .. Len(s), NEW p, NEW r,
         p = SubSeq(s, 1, n), r = SubSeq(s, n + 1, Len(s))
  PROVE  Cut(B, s, n, p, r)
  BY PieceIs DEF Cut

LEMMA CWriteOK == ASSUME MlInv, CWrite PROVE MlInv'
  <1>51. Associative(Bytes)  BY Assoc, Zenon
  <1> USE MultilogAssumption DEF MlInv, MlTypes
  <1>1. /\ mpc = "run" /\ outb # << >> /\ bytes < Size /\ forced' = FALSE
        /\ UNCHANGED <<processor, current, previous, processed, logs, fin, taken, logDeaths>>
    BY DEF CWrite, At, names
  <1>2. PICK n \in 1 .. Chunk :
          /\ node' = [node EXCEPT ![current].text = @ \o SubSeq(outb, 1, n)]
          /\ text' = text \o SubSeq(outb, 1, n)
          /\ outb' = SubSeq(outb, n + 1, Len(outb))
          /\ bytes' = bytes + n
          /\ mpc' = IF bytes' >= Size - Tail0 /\ outb[n] = "n" THEN "full" ELSE "run"
    BY DEF CWrite
  <1>3. /\ Chunk \in 1 .. Len(outb) /\ bytes + Chunk <= Size
        /\ \A k \in 1 .. Len(outb) :
             outb[k] = "n" /\ bytes + k <= Size /\ bytes + k >= Size - Tail0
               => outb[Chunk] = "n" /\ k <= Chunk
    <2>1. outb \in Seq(Bytes) /\ bytes \in 0 .. Size  OBVIOUS
    <2> QED  BY <1>1, <2>1, ChunkIs, Zenon
  <1>4. Len(outb) \in Nat /\ n \in 1 .. Len(outb) /\ n <= Chunk  BY <1>3
  <1>5. PICK p : p = SubSeq(outb, 1, n)  OBVIOUS
  <1>6. /\ p \in Seq(Bytes) /\ Len(p) = n /\ \A k \in 1 .. n : p[k] = outb[k]
        /\ outb' \in Seq(Bytes) /\ Len(outb') = Len(outb) - n
        /\ \A k \in 1 .. Len(outb) - n : outb'[k] = outb[n + k]
    <2>1. outb \in Seq(Bytes) /\ n \in 1 .. Len(outb)  BY <1>4
    <2>2. PICK s \in Seq(Bytes), m \in 1 .. Len(outb) : s = outb /\ m = n  BY <2>1
    <2>3. PICK r : r = outb'  OBVIOUS
    <2>4. m \in 1 .. Len(s) /\ p = SubSeq(s, 1, m) /\ r = SubSeq(s, m + 1, Len(s))
      BY <1>2, <1>5, <2>2, <2>3
    <2>5. Cut(Bytes, s, m, p, r)  BY <2>4, CutIs, Zenon
    <2> QED  BY <2>2, <2>3, <2>5 DEF Cut
  <1>7. Open  BY <1>1 DEF MlRun
  <1>8. current \in Ino \ Rotated /\ current # 0 /\ previous = 0 /\ processed = 0  BY <1>7 DEF Open
  <1>9. PICK f \in File : f = node[current] /\ f.synced <= Len(f.text)  BY <1>8 DEF FilesOK
  <1>10. /\ f.text \in Seq(Bytes) /\ Len(f.text) = bytes /\ ~f.cut /\ ~f.x /\ f.synced \in Nat
    BY <1>7, <1>9 DEF Open, File
  <1>11. PICK t : t = f.text \o p  OBVIOUS
  <1>12. /\ t \in Seq(Bytes) /\ Len(t) = bytes + n
         /\ \A k \in 1 .. bytes + n : t[k] = IF k <= bytes THEN f.text[k] ELSE p[k - bytes]
    <2>1. p \in Seq(Bytes) /\ f.text \in Seq(Bytes)  BY <1>6, <1>10
    <2>2. Len(p) = n /\ Len(f.text) = bytes  BY <1>6, <1>10
    <2>3. PICK a \in Seq(Bytes) : a = f.text  BY <2>1
    <2>4. t = a \o p  BY <1>11, <2>3
    <2>5. /\ t \in Seq(Bytes) /\ Len(t) = Len(a) + Len(p)
          /\ \A k \in 1 .. Len(a) + Len(p) : t[k] = IF k <= Len(a) THEN a[k] ELSE p[k - Len(a)]
      BY <2>1, <2>4, JoinIs
    <2> QED  BY <2>2, <2>3, <2>5
  <1>13. PICK v : v = [f EXCEPT !.text = t]  OBVIOUS
  <1>14. v \in File /\ v.text = t /\ v.synced = f.synced /\ ~v.cut /\ ~v.x
    BY <1>10, <1>12, <1>13 DEF File
  <1>15. node' = [node EXCEPT ![current] = v]
    <2>1. node' = [node EXCEPT ![current] =
                     [node[current] EXCEPT !.text = node[current].text \o SubSeq(outb, 1, n)]]
      BY <1>2
    <2> QED  BY <1>5, <1>9, <1>11, <1>13, <2>1
  <1>16. v.synced <= Len(v.text)  BY <1>4, <1>9, <1>10, <1>12, <1>14
  <1>17. Rotated \subseteq Ino /\ 0 \notin Rotated  BY PartsOK
  <1>18. /\ FilesOK' /\ LogsKept' /\ node'[current] = v
         /\ \A j \in Rotated : node'[j] = node[j]
    BY <1>1, <1>8, <1>14, <1>15, <1>16, <1>17, OneFile DEF MlKept
  <1>19. Rotated' = Rotated  BY <1>1 DEF Rotated
  <1>20. bytes' \in 0 .. Size /\ bytes' = bytes + n
    <2>1. bytes' = bytes + n  BY <1>2
    <2>2. PICK d \in Nat : d = Chunk /\ bytes + d <= Size  BY <1>3, <1>4
    <2>3. n \in Nat /\ n <= d  BY <1>4, <2>2
    <2> QED  BY <2>1, <2>2, <2>3
  <1>21. mpc' \in {"run", "full"}  BY <1>2
  <1>22. MlTypes'  BY <1>1, <1>6, <1>18, <1>20, <1>21
  <1>23. MlNames'  BY <1>1, <1>8, <1>17, <1>19 DEF MlNames
  <1>24. MlKept'  BY <1>1, <1>8, <1>14, <1>18 DEF MlKept
  <1>25. Open'  BY <1>1, <1>8, <1>12, <1>14, <1>18, <1>19, <1>20 DEF Open
  <1>26. mpc' = "full" => t[Len(t)] = "n"
    <2>1. SUFFICES ASSUME outb[n] = "n" PROVE t[Len(t)] = "n"  BY <1>2
    <2>2. /\ bytes + n \in 1 .. bytes + n /\ ~(bytes + n <= bytes)
          /\ (bytes + n) - bytes = n /\ n \in 1 .. n
      BY <1>4
    <2> QED  BY <1>6, <1>12, <2>1, <2>2
  <1> DEFINE Late(k) == outb[k] = "n" /\ bytes + k <= Size /\ bytes + k >= Size - Tail0
  <1>27. mpc' = "run" => NoLate(t) \/ \E k \in 1 .. Len(outb') : outb'[k] = "n" /\ bytes' + k <= Size
    <2>1. SUFFICES ASSUME ~(bytes + n >= Size - Tail0 /\ outb[n] = "n")
                   PROVE  NoLate(t) \/ \E k \in 1 .. Len(outb') : outb'[k] = "n" /\ bytes' + k <= Size
      BY <1>2, <1>20
    <2>2. CASE \E k \in 1 .. Len(outb) : Late(k)
      <3>1. PICK k \in 1 .. Len(outb) : Late(k)  BY <2>2
      <3>2. outb[Chunk] = "n" /\ k <= Chunk  BY <1>3, <3>1
      <3>3. bytes + Chunk >= Size - Tail0  BY <1>3, <1>4, <3>1, <3>2
      <3>4. n # Chunk  BY <2>1, <3>2, <3>3
      <3>5. PICK d \in Nat : d = Chunk - n  BY <1>3, <1>4
      <3>6. d \in 1 .. Len(outb) - n /\ n + d = Chunk  BY <1>3, <1>4, <3>4, <3>5
      <3>7. outb'[d] = "n" /\ d \in 1 .. Len(outb')  BY <1>6, <3>2, <3>6
      <3>8. bytes' + d <= Size  BY <1>3, <1>4, <1>20, <3>6
      <3> QED  BY <3>7, <3>8
    <2>3. CASE \A k \in 1 .. Len(outb) : ~Late(k)
      <3>1. NoLate(f.text)
        <4>1. SUFFICES ASSUME NEW j \in (Size - Tail0) .. Len(f.text),
                              NEW k \in 1 .. Len(outb), outb[k] = "n", bytes + k <= Size
                       PROVE  FALSE
          BY <1>1, <1>9 DEF MlRun, NoLate
        <4>2. bytes + k >= Size - Tail0  BY <1>4, <1>10, <4>1
        <4> QED  BY <2>3, <4>1, <4>2
      <3>2. SUFFICES ASSUME NEW k \in (Size - Tail0) .. Len(t), t[k] = "n" PROVE FALSE  BY DEF NoLate
      <3>3. k \in 1 .. bytes + n  BY <1>4, <1>12
      <3>4. k > bytes
        <4>1. SUFFICES ASSUME k <= bytes PROVE FALSE  BY <1>4, <3>3
        <4>2. k \in (Size - Tail0) .. Len(f.text)  BY <1>10, <3>3, <4>1
        <4>3. f.text[k] = "n"  BY <1>12, <3>2, <3>3, <4>1
        <4> QED  BY <3>1, <4>2, <4>3 DEF NoLate
      <3>5. PICK d \in Nat : d = k - bytes  BY <3>3, <3>4
      <3>6. d \in 1 .. n /\ bytes + d = k /\ d \in 1 .. Len(outb)  BY <1>4, <3>3, <3>4, <3>5
      <3>7. outb[d] = "n"
        <4>1. t[k] = p[d]
          <5>1. t[k] = IF k <= bytes THEN f.text[k] ELSE p[k - bytes]  BY <1>12, <3>3
          <5>2. k - bytes = d  BY <3>5
          <5>3. ~(k <= bytes)  BY <1>10, <3>3, <3>4
          <5> QED  BY <5>1, <5>2, <5>3
        <4>2. p[d] = outb[d]  BY <1>6, <3>6
        <4> QED  BY <3>2, <4>1, <4>2
      <3>8. k <= Size /\ k >= Size - Tail0  BY <1>3, <1>4, <1>12
      <3> QED  BY <2>3, <3>6, <3>7, <3>8
    <2> QED  BY <2>2, <2>3
  <1>28. MlRun'  BY <1>14, <1>18, <1>1, <1>21, <1>25, <1>26, <1>27 DEF MlRun, NoLate
  <1>29. MlRotate' /\ MlFinish'  BY <1>21 DEF MlRotate, MlFinish
  <1>30. MlFew'  BY <1>1, <1>21 DEF MlFew
  <1>31. NothingLost'
    <2>1. \A k \in DOMAIN logs : logs[k][1] \in Rotated  BY DEF Rotated
    <2>2. [k \in DOMAIN logs |-> node'[logs[k][1]].text] = [k \in DOMAIN logs |-> node[logs[k][1]].text]
      BY <1>18, <2>1
    <2>3. Arch' = Arch  BY <1>1, <2>2 DEF Arch
    <2>4. Mid = << >> /\ Mid' = << >>  BY <1>1, <1>8 DEF Mid
    <2>5. Cur = f.text /\ Cur' = t  BY <1>1, <1>8, <1>9, <1>14, <1>18, <1>19 DEF Cur, TextOf
    <2>6. PICK a \in Seq(Bytes), c \in Seq(Bytes) : a = Arch /\ c = Cur  BY PartsOK
    <2>7. PICK e \in Seq(Bytes) : e = a \o << >>  BY ConcatEmptySeq
    <2>8. text = e \o c  BY <2>4, <2>6, <2>7, PartsOK
    <2>9. text' = (e \o c) \o p  BY <1>2, <1>5, <2>8
    <2>10. (e \o c) \o p = e \o (c \o p)
      <3>1. p \in Seq(Bytes)  BY <1>6
      <3> QED  BY <1>51, <3>1, ZenonT(30) DEF Associative
    <2>11. Cur' = c \o p  BY <1>11, <2>5, <2>6
    <2>12. text' = (Arch' \o Mid') \o Cur'  BY <2>3, <2>4, <2>6, <2>7, <2>9, <2>10, <2>11, Zenon
    <2> QED  BY <2>12 DEF NothingLost, Found, Arch, Mid, Cur
  <1> QED  BY <1>22, <1>23, <1>24, <1>28, <1>29, <1>30, <1>31

LEMMA MlInitOK == ASSUME MultilogInit PROVE MlInv
  <1> USE MultilogAssumption
  <1>1. Empty \in File /\ Empty.synced = 0 /\ Len(Empty.text) = 0  BY DEF Empty, File
  <1>2. FilesOK  BY <1>1 DEF MultilogInit, FilesOK
  <1>3. DOMAIN logs = {} /\ Len(logs) = 0 /\ logs \in Seq(Ino \X {"s", "u"})  BY DEF MultilogInit
  <1>4. Rotated = {}  BY <1>3 DEF Rotated
  <1>5. MlTypes
    <2>1. /\ mpc = "down" /\ processor = FALSE /\ bytes = 0 /\ outb = << >>
          /\ current = 0 /\ previous = 0 /\ processed = 0 /\ forced = FALSE /\ logDeaths = 0
      BY DEF MultilogInit
    <2>2. outb \in Seq(Bytes) /\ bytes \in 0 .. Size /\ logDeaths \in 0 .. MaxLogDeath  BY <2>1
    <2>3. processor \in BOOLEAN /\ forced \in BOOLEAN  BY <2>1, Zenon
    <2> QED  BY <1>2, <1>3, <2>1, <2>2, <2>3 DEF MlTypes
  <1>6. MlNames  BY <1>3, <1>4 DEF MultilogInit, MlNames
  <1>7. MlKept  BY <1>3 DEF MultilogInit, MlKept, LogsKept
  <1>8. MlRun /\ MlRotate /\ MlFinish  BY DEF MultilogInit, MlRun, MlRotate, MlFinish
  <1>9. MlFew  BY <1>3 DEF MultilogInit, MlFew
  <1>10. NothingLost
    <2>1. [k \in DOMAIN logs |-> node[logs[k][1]].text] = << >>  BY <1>3
    <2>2. Arch = << >>  BY <2>1, FlattenEmpty DEF Arch
    <2>3. Mid = << >> /\ Cur = << >> /\ text = << >>  BY DEF MultilogInit, Mid, Cur, TextOf
    <2> QED  BY <1>5, <2>2, <2>3, PartsOK
  <1> QED  BY <1>5, <1>6, <1>7, <1>8, <1>9, <1>10 DEF MlInv

LEMMA MlStutter == ASSUME MlInv, UNCHANGED mlVars PROVE MlInv'
  <1>1. UNCHANGED <<mpc, processor, bytes, outb, current, previous, processed, node, logs, fin,
                    forced, text, taken, logDeaths>>
    BY DEF mlVars, names
  <1>2. Rotated' = Rotated  BY <1>1 DEF Rotated
  <1>3. Open' = Open /\ Young' = Young /\ FinFile' = FinFile  BY <1>1, <1>2 DEF Open, Young, FinFile
  <1>4. \A j : OnDisk(j)' = OnDisk(j)  BY <1>1 DEF OnDisk
  <1>5. LogsKept' /\ FilesOK' /\ MlTypes' /\ MlFew'
    BY <1>1, <1>4 DEF MlInv, MlTypes, MlKept, LogsKept, FilesOK, MlFew
  <1>6. MlNames'  BY <1>1, <1>2 DEF MlInv, MlNames
  <1>7. MlKept'  BY <1>1, <1>2, <1>4, <1>5 DEF MlInv, MlKept
  <1>8. MlRun'  BY <1>1, <1>3, <1>4 DEF MlInv, MlRun
  <1>9. MlRotate'  BY <1>1, <1>2, <1>3, <1>4 DEF MlInv, MlRotate
  <1>10. MlFinish'  BY <1>1, <1>2, <1>3 DEF MlInv, MlFinish
  <1>11. NothingLost'  BY <1>1, <1>2 DEF MlInv, NothingLost, Found, TextOf
  <1> QED  BY <1>5, <1>6, <1>7, <1>8, <1>9, <1>10, <1>11 DEF MlInv

LEMMA MlStepOK == ASSUME MlInv, [MultilogNext]_mlVars PROVE MlInv'
  <1>1. CASE ReadMore \/ ForceRotate \/ CWriteFull
    BY <1>1, ReadMoreOK, ForceRotateOK, CWriteFullOK, Zenon
  <1>2. CASE CWrite  BY <1>2, CWriteOK, Zenon
  <1>3. CASE FullSync \/ FullRename \/ FullCreate
    BY <1>3, FullSyncOK, FullRenameOK, FullCreateOK, Zenon
  <1>4. CASE ProcessOpen \/ ProcessRun \/ ProcessSync \/ ProcessMode \/ UnlinkPrevious
    BY <1>4, ProcessOpenOK, ProcessRunOK, ProcessSyncOK, ProcessModeOK, UnlinkPreviousOK, Zenon
  <1>5. CASE FinNone \/ FinLink \/ FinUnlink \/ FilesFit \/ FitRemove
    BY <1>5, FinNoneOK, FinLinkOK, FinUnlinkOK, FilesFitOK, FitRemoveOK, Zenon
  <1>6. CASE RestartClean \/ RestartDirty \/ RestartOld \/ RestartNew
    BY <1>6, RestartCleanOK, RestartDirtyOK, RestartOldOK, RestartNewOK, Zenon
  <1>7. CASE QuitSync \/ QuitMode \/ KillLog \/ CrashLog
    BY <1>7, QuitSyncOK, QuitModeOK, KillLogOK, CrashLogOK, Zenon
  <1>8. CASE UNCHANGED mlVars  BY <1>8, MlStutter, Zenon
  <1> QED  BY <1>1, <1>2, <1>3, <1>4, <1>5, <1>6, <1>7, <1>8, Zenon DEF MultilogNext

LEMMA MlInvSafe == ASSUME MlInv PROVE MultilogSafe
  <1> USE MultilogAssumption DEF MlInv
  <1>1. NothingLost  OBVIOUS
  <1>2. SafeMarked
    <2>1. Len(logs) \in Nat /\ logDeaths \in Nat  BY DEF MlTypes
    <2>2. Len(logs) <= Num + logDeaths  BY <2>1 DEF MlFew
    <2>3. LogsKept /\ (current # 0 /\ node[current].x => OnDisk(current))  BY DEF MlKept
    <2> QED  BY <2>2, <2>3 DEF SafeMarked, LogsKept, OnDisk
  <1>3. LinesWhole
    <2>1. bytes <= Size  BY DEF MlTypes
    <2>2. ASSUME mpc = "full", ~forced
          PROVE  LET t == node[current].text IN
                 \/ t[Len(t)] = "n"
                 \/ Len(t) = Size /\ \A k \in (Size - Tail0) .. Size : t[k] # "n"
      BY <2>2 DEF MlRun, NoLate
    <2> QED  BY <2>1, <2>2 DEF LinesWhole
  <1> QED  BY <1>1, <1>2, <1>3 DEF MultilogSafe

(* Wherever multilog is killed or the machine crashes, nothing that was    *)
(* written is lost but what filesfit() removes, what is marked as safe is on*)
(* disk, and files end where they may; for any size, number of files and   *)
(* deaths.                                                                 *)
THEOREM MultilogHolds == MultilogSpec => []MultilogSafe
  <1>1. MultilogInit => MlInv  BY MlInitOK
  <1>2. MlInv /\ [MultilogNext]_mlVars => MlInv'  BY MlStepOK
  <1>3. MlInv => MultilogSafe  BY MlInvSafe
  <1> QED  BY <1>1, <1>2, <1>3, PTL DEF MultilogSpec
=============================================================================
