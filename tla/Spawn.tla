------------------------------- MODULE Spawn --------------------------------
(***************************************************************************)
(* spawn.c, the common part of qmail-lspawn and qmail-rspawn, between      *)
(* qmail-send and the programs that deliver: commands with the number of a *)
(* slot, children, their output on a pipe each, SIGCHLD (unblocked only    *)
(* around select), and the reports.                                        *)
(*                                                                         *)
(* The bytes of a command come in pieces: the steps that only collect them *)
(* are left out, and so is the text of a report, except how much of what   *)
(* the child wrote it has.  qmail-send appears with what QmailSend says of it: it gives  *)
(* a slot one command at a time.                                           *)
(***************************************************************************)
EXTENDS Naturals, Sequences

CONSTANTS
  Slot,         \* delivery numbers below auto_spawn
  truncreport,  \* most bytes of a report (qmail-lspawn), 0 if there is no such limit
                \* (qmail-rspawn)
  Notice,       \* bytes that make room for "Error report too long, sorry."
  MaxText,      \* bound: the child of delivery n writes at most n * MaxText bytes
  MaxDel        \* bound: deliveries

ASSUME SpawnAssumption ==
  /\ MaxDel \in Nat /\ {truncreport, Notice, MaxText} \subseteq Nat
  /\ truncreport # 0 => Notice <= truncreport

Del == 1 .. MaxDel

VARIABLES
  assigned,     \* qmail-send: assigned[s], the delivery it waits for, 0 if none
  lastdel,      \* deliveries so far
  sendup,       \* whether qmail-send runs
  cmdq,         \* pipe of commands, <<slot, delivery>>
  reps,         \* pipe of reports
  dpc,          \* "top", "select", "ready" (select has returned), "more" (one
                \* read() of commands gave another one), "read", "gone"
  rfds,         \* slots that select found readable
  rcmd,         \* whether it found descriptor 0 readable
  flagreading, flagwriting,
  d,            \* d[s]: struct delivery
  kst,          \* kst[n]: child of delivery n, "new", "run", "zombie", "gone"
  kopen,        \* kopen[n]: the child or a child of it may write to the pipe
  wrote,        \* wrote[n]: what it has written
  inpipe        \* inpipe[n]: the part that spawn has not read

sender == <<assigned, lastdel, sendup>>
pipes  == <<cmdq, reps>>
kidsd  == <<kst, kopen, wrote, inpipe>>
loopd  == <<dpc, rfds, rcmd>>
flagsd == <<flagreading, flagwriting>>
spawnVars == <<sender, pipes, loopd, flagsd, d, kidsd>>

(* used, whether fdout is open, whether the child is dead as far as spawn  *)
(* knows (pid = 0), its status, the output so far in bytes of the child,   *)
(* whether it has been cut; del is the delivery.                           *)
Unused == [used |-> FALSE, out |-> FALSE, dead |-> FALSE, code |-> 0, output |-> 0,
           cut |-> FALSE, del |-> 0]

SpawnInit ==
  /\ assigned = [s \in Slot |-> 0] /\ lastdel = 0 /\ sendup = TRUE
  /\ cmdq = <<>> /\ reps = <<>> /\ dpc = "top" /\ rfds = {} /\ rcmd = FALSE
  /\ flagreading = TRUE /\ flagwriting = TRUE /\ d = [s \in Slot |-> Unused]
  /\ kst = [n \in Del |-> "new"] /\ kopen = [n \in Del |-> FALSE]
  /\ wrote = [n \in Del |-> 0] /\ inpipe = [n \in Del |-> 0]

(* The exit status of the child of delivery n.                             *)
Code(n) == n

Busy == {s \in Slot : d[s].used}

-----------------------------------------------------------------------------
(* qmail-send: del_start() and comm_do(), del_dochan(), and its end.       *)
Send(s) ==
  /\ sendup /\ assigned[s] = 0 /\ lastdel < MaxDel
  /\ lastdel' = lastdel + 1 /\ assigned' = [assigned EXCEPT ![s] = lastdel']
  /\ cmdq' = Append(cmdq, <<s, lastdel'>>)
  /\ UNCHANGED <<sendup, reps, loopd, flagsd, d, kidsd>>

Hear ==
  /\ sendup /\ reps # <<>>
  /\ assigned' = [assigned EXCEPT ![Head(reps).slot] = 0]
  /\ reps' = Tail(reps)
  /\ UNCHANGED <<lastdel, sendup, cmdq, loopd, flagsd, d, kidsd>>

SendEnds ==
  /\ sendup /\ sendup' = FALSE /\ reps' = <<>> /\ assigned' = [s \in Slot |-> 0]
  /\ UNCHANGED <<lastdel, cmdq, loopd, flagsd, d, kidsd>>

-----------------------------------------------------------------------------
(* okwrite(): after the first failure reports go nowhere.                  *)
Write(r) ==
  /\ reps' = IF sendup /\ flagwriting THEN Append(reps, r) ELSE reps
  /\ flagwriting' = (flagwriting /\ sendup)

Top ==
  /\ dpc = "top"
  /\ dpc' = IF ~flagreading /\ Busy = {} THEN "gone" ELSE "select"
  /\ UNCHANGED <<sender, pipes, rfds, rcmd, flagsd, d, kidsd>>

(* What select() finds readable: there are bytes, or nobody can write.     *)
PipeReadable(s) == inpipe[d[s].del] > 0 \/ (~kopen[d[s].del] /\ ~d[s].out)

Select ==
  /\ dpc = "select" /\ dpc' = "ready"
  /\ rfds' = {s \in Busy : PipeReadable(s)}
  /\ rcmd' = (flagreading /\ (cmdq # <<>> \/ ~sendup))
  /\ rfds' # {} \/ rcmd'
  /\ UNCHANGED <<sender, pipes, flagsd, d, kidsd>>

(* sigchld(): all dead children are waited for.  It may come before        *)
(* select() sleeps, interrupt it, or come after it has returned.           *)
Zombies == {n \in Del : kst[n] = "zombie"}

(* Its end of the pipe is closed with it.                                  *)
DeadChild(s) == [d[s] EXCEPT !.out = FALSE, !.dead = TRUE, !.code = Code(d[s].del)]

SigchldD ==
  /\ dpc \in {"select", "ready"} /\ Zombies # {}
  /\ kst' = [n \in Del |-> IF n \in Zombies THEN "gone" ELSE kst[n]]
  /\ d' = [s \in Slot |-> IF d[s].used /\ ~d[s].dead /\ d[s].del \in Zombies
                          THEN DeadChild(s)
                          ELSE d[s]]
  /\ \/ UNCHANGED dpc
     \/ dpc = "select" /\ dpc' = "top"
  /\ UNCHANGED <<sender, pipes, rfds, rcmd, flagsd, kopen, wrote, inpipe>>

(* getcmd(): end of file; or docmd(), which refuses a slot in use, fails   *)
(* in one of the ways answered by err(), or forks.                         *)
Err(s, n) ==
  Write([slot |-> s, del |-> n, err |-> TRUE, code |-> 0, text |-> 0, cut |-> FALSE])

(* The parent keeps its end of the pipe, so that the end of file comes     *)
(* after the death.                                                        *)
BegunClosed(n) == [Unused EXCEPT !.used = TRUE, !.del = n]             \* mutant
Begun(n) == [Unused EXCEPT !.used = TRUE, !.out = TRUE, !.del = n]

NoGetcmd ==
  /\ dpc = "ready" /\ ~rcmd /\ dpc' = "read"
  /\ UNCHANGED <<sender, pipes, rfds, rcmd, flagsd, d, kidsd>>

GetcmdEof ==
  /\ dpc = "ready" /\ rcmd /\ cmdq = <<>>
  /\ flagreading' = FALSE /\ dpc' = "read"
  /\ UNCHANGED <<sender, pipes, rfds, rcmd, flagwriting, d, kidsd>>

(* The next command; one read() may give several.                          *)
NextCommand(s, n) ==
  /\ \/ dpc = "ready" /\ rcmd
     \/ dpc = "more"
  /\ cmdq # <<>> /\ Head(cmdq) = <<s, n>> /\ cmdq' = Tail(cmdq)
  /\ \/ dpc' = "read"
     \/ dpc' = "more" /\ cmdq' # <<>>

DocmdErr(s, n) ==
  /\ NextCommand(s, n) /\ Err(s, n)
  /\ UNCHANGED <<sender, rfds, rcmd, flagreading, d, kidsd>>

Docmd(s, n) ==
  /\ NextCommand(s, n) /\ ~d[s].used
  /\ d' = [d EXCEPT ![s] = Begun(n)]
  /\ kst' = [kst EXCEPT ![n] = "run"] /\ kopen' = [kopen EXCEPT ![n] = TRUE]
  /\ UNCHANGED <<sender, reps, rfds, rcmd, flagsd, wrote, inpipe>>

(* r bytes more: a report that is too long ends in a notice, for which a   *)
(* part of it that had been kept goes.  The one to three bytes that can    *)
(* come after the notice are left out.                                     *)
ReadInto(e, r) ==
  IF e.cut THEN e
  ELSE IF truncreport # 0 /\ e.output + r > truncreport
       THEN [e EXCEPT !.output = truncreport - Notice, !.cut = TRUE]
       ELSE [e EXCEPT !.output = @ + r]

(* The slots that select() found readable: some output, or its end.        *)
ReadOutput(s) ==
  /\ dpc = "read" /\ s \in rfds /\ inpipe[d[s].del] > 0
  /\ rfds' = rfds \ {s}
  /\ d' = [d EXCEPT ![s] = ReadInto(d[s], inpipe[d[s].del])]
  /\ inpipe' = [inpipe EXCEPT ![d[s].del] = 0]
  /\ UNCHANGED <<sender, pipes, dpc, rcmd, flagsd, kst, kopen, wrote>>

ReportD(s) ==
  /\ dpc = "read" /\ s \in rfds /\ inpipe[d[s].del] = 0
  /\ rfds' = rfds \ {s}
  /\ Write([slot |-> s, del |-> d[s].del, err |-> FALSE,
            code |-> d[s].code, text |-> d[s].output, cut |-> d[s].cut])
  /\ d' = [d EXCEPT ![s] = Unused]
  /\ UNCHANGED <<sender, cmdq, dpc, rcmd, flagreading, kidsd>>

LoopEnd ==
  /\ dpc = "read" /\ rfds = {} /\ dpc' = "top" /\ rcmd' = FALSE
  /\ UNCHANGED <<sender, pipes, rfds, flagsd, d, kidsd>>

-----------------------------------------------------------------------------
(* The children: they write, close the pipe before they exit, or leave it  *)
(* open to a child of theirs.                                              *)
KidWrite(n) ==
  /\ kopen[n] /\ wrote[n] < n * MaxText
  /\ wrote' = [wrote EXCEPT ![n] = @ + 1] /\ inpipe' = [inpipe EXCEPT ![n] = @ + 1]
  /\ UNCHANGED <<sender, pipes, loopd, flagsd, d, kst, kopen>>

KidClose(n) ==
  /\ kopen[n] /\ kopen' = [kopen EXCEPT ![n] = FALSE]
  /\ UNCHANGED <<sender, pipes, loopd, flagsd, d, kst, wrote, inpipe>>

KidEnds(n) ==
  /\ kst[n] = "run" /\ kst' = [kst EXCEPT ![n] = "zombie"]
  /\ UNCHANGED <<sender, pipes, loopd, flagsd, d, kopen, wrote, inpipe>>

SpawnStep ==
  \/ Top \/ Select \/ NoGetcmd \/ GetcmdEof
  \/ \E s \in Slot, n \in Del : DocmdErr(s, n) \/ Docmd(s, n)
  \/ \E s \in Slot : ReadOutput(s) \/ ReportD(s)
  \/ LoopEnd

KidStep(n) == KidClose(n) \/ KidEnds(n)

SpawnNext ==
  \/ \E s \in Slot : Send(s)
  \/ Hear \/ SendEnds \/ SpawnStep \/ SigchldD
  \/ \E n \in Del : KidWrite(n) \/ KidStep(n)

(* spawn, the handler and qmail-send run; every delivery ends (qmail-local *)
(* and qmail-remote have time-outs) and lets go of the pipe.               *)
SpawnFairness ==
  /\ WF_spawnVars(SpawnStep) /\ WF_spawnVars(SigchldD) /\ WF_spawnVars(Hear)
  /\ \A n \in Del : WF_spawnVars(KidClose(n)) /\ WF_spawnVars(KidEnds(n))

SpawnSpec == SpawnInit /\ [][SpawnNext]_spawnVars
SpawnFair == SpawnSpec /\ SpawnFairness

-----------------------------------------------------------------------------
(* A report is about the delivery that qmail-send waits for in that slot,  *)
(* sent once, after the child has died, with its status and all its text:  *)
(* so a slot is not used again too early and no command is refused.  The   *)
(* text of qmail-lspawn may be cut, but only if it was too long as a whole;*)
(* then the report keeps its beginning.                                    *)
Attributed ==
  /\ \A k \in DOMAIN reps :
       LET r == reps[k] IN
       /\ assigned[r.slot] = r.del
       /\ \A l \in DOMAIN reps : reps[l].slot = r.slot => l = k
       /\ ~r.err => /\ kst[r.del] = "gone" /\ r.code = Code(r.del)
                    /\ r.text = IF r.cut THEN truncreport - Notice ELSE wrote[r.del]
                    /\ r.cut => truncreport # 0 /\ wrote[r.del] > truncreport
  /\ sendup => \A s \in Busy : assigned[s] = d[s].del /\ \A k \in DOMAIN reps : reps[k].slot # s
  /\ sendup => \A k \in DOMAIN cmdq : assigned[cmdq[k][1]] = cmdq[k][2] /\ cmdq[k][1] \notin Busy

(* spawn leaves only when no delivery is going on.                         *)
LeavesLast == dpc = "gone" => \A n \in Del : kst[n] \in {"new", "gone"}

SpawnSafe == Attributed /\ LeavesLast

(* Each delivery is reported while qmail-send lives; afterwards spawn ends.*)
Answered ==
  /\ \A s \in Slot, n \in Del : assigned[s] = n ~> assigned[s] # n
  /\ ~sendup ~> dpc = "gone"
=============================================================================
