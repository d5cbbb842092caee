----------------------------- MODULE QmailSend ------------------------------
(***************************************************************************)
(* The inside of qmail-send: priority queues, passes over local/ and       *)
(* remote/ files, jobs, delivery slots, the pipes to qmail-lspawn and      *)
(* qmail-rspawn, bounces, the orderly exit and the restart after a crash.  *)
(* One step is one call that the main loop makes, cut where a crash in the *)
(* middle of it leaves different files behind (spc names the place).       *)
(*                                                                         *)
(* Retry times are left out: what is in a priority queue may be due at any *)
(* time (Schedule has the times).  The files of a message are known to     *)
(* QueueDir as todo/, info/, local/, remote/ and bounce/; here stage, rec  *)
(* and note stand for them.                                                *)
(***************************************************************************)
EXTENDS Naturals, Sequences, FiniteSets

CONSTANTS
  Id,           \* messages
  Chan,         \* channels
  None,         \* no message
  MaxRcpt,      \* bound: recipients of a message in one channel
  Conc,         \* concurrency[c] after the limit of the spawn program
  NumJobs,      \* numjobs, the sum of concurrency[c]
  PqAddFails,   \* whether stat() can fail in pqadd
  MaxFaults     \* bound: crashes, deaths of spawn programs and failed calls

ASSUME ConstAssumption ==
  /\ Conc \in [Chan -> Nat] /\ MaxRcpt \in Nat /\ NumJobs \in Nat /\ MaxFaults \in Nat
  /\ PqAddFails \in BOOLEAN /\ None \notin Id
  /\ IsFiniteSet(Chan) /\ \A c \in Chan : Conc[c] <= NumJobs

Job == 1 .. NumJobs
Slot(c) == 1 .. Conc[c]
Rcpt == Chan \X Id \X (1 .. MaxRcpt)   \* <<c, i, k>>: record k of file c of message i

VARIABLES
  stage,      \* stage[i]: "todo", "partial" (todo/ and info/), "info", "gone"
  rec,        \* rec[c][i]: the records "T" and "D" of the file, <<>> without file
  note,       \* recipients with a note in a bounce/ file
  pqchan,     \* pqchan[c][i]: how often message i is in the priority queue
  pqdone, pqfail,
  pass,       \* pass[c]: message, job and next record
  jo,         \* jo[j]: struct job
  del,        \* del[c][s]: struct del, job 0 if unused
  comm,       \* comm[c]: the slot whose command is in comm_buf[c], 0 if empty
  alive,      \* flagspawnalive
  out,        \* out[c]: slots the spawn program has a command for
  rep,        \* rep[c]: slots with a report on its way back, <<s, result>>
  exitasap,   \* flagexitasap
  spc, cur,   \* place in the main loop, and what is worked on there
  old,        \* messages older than queuelifetime
  faults,
  unclean,    \* history: messages whose request to qmail-clean got no answer
  blind,      \* history: messages whose stat() failed while todo/ still existed
  size,       \* history: size[c][i], number of recipients after preprocessing
  delivered,  \* history: recipients that have got the message
  twice,      \* history: recipients that have got it again
  excused,    \* history: recipients whose report or mark was lost
  bounced     \* history: recipients named in a bounce message that was queued

files == <<stage, rec, note>>
pqs   == <<pqchan, pqdone, pqfail>>
spawn == <<out, rep>>
loop  == <<spc, cur>>
hist  == <<size, delivered, twice, excused, bounced>>
lapse == <<unclean, blind>>
vars  == <<files, pqs, pass, jo, del, comm, alive, spawn, exitasap, loop, old, faults, lapse, hist>>

NoPass == [id |-> None, j |-> 0, pos |-> 0]
NoJob  == [refs |-> 0, id |-> None, chan |-> None, numtodo |-> 0, eof |-> FALSE, dying |-> FALSE]
NoDel  == [j |-> 0, pos |-> 0]

(* What a qmail-send knows when it starts. *)
Blank ==
  /\ pass' = [c \in Chan |-> NoPass] /\ jo' = [j \in Job |-> NoJob]
  /\ del' = [c \in Chan |-> [s \in Slot(c) |-> NoDel]]
  /\ comm' = [c \in Chan |-> 0] /\ alive' = [c \in Chan |-> TRUE]
  /\ out' = [c \in Chan |-> {}] /\ rep' = [c \in Chan |-> {}]
  /\ exitasap' = FALSE /\ cur' = None /\ unclean' = {} /\ blind' = {}

Init ==
  /\ stage = [i \in Id |-> "todo"] /\ rec = [c \in Chan |-> [i \in Id |-> <<>>]]
  /\ note = {}
  /\ pqchan = [c \in Chan |-> [i \in Id |-> 0]]
  /\ pqdone = [i \in Id |-> 0] /\ pqfail = [i \in Id |-> 0]
  /\ pass = [c \in Chan |-> NoPass] /\ jo = [j \in Job |-> NoJob]
  /\ del = [c \in Chan |-> [s \in Slot(c) |-> NoDel]]
  /\ comm = [c \in Chan |-> 0] /\ alive = [c \in Chan |-> TRUE]
  /\ out = [c \in Chan |-> {}] /\ rep = [c \in Chan |-> {}]
  /\ exitasap = FALSE /\ spc = "down" /\ cur = None /\ old = {} /\ faults = 0
  /\ unclean = {} /\ blind = {}
  /\ size = [c \in Chan |-> [i \in Id |-> 0]]
  /\ delivered = {} /\ twice = {} /\ excused = {} /\ bounced = {}

Faults(n) == faults + n <= MaxFaults /\ faults' = faults + n
Fault == Faults(1)
NoFault == Faults(0)

HasFile(i) == \E c \in Chan : rec[c][i] # <<>>
Used(c) == {s \in Slot(c) : del[c][s].j # 0}
RcptOf(c, s) == <<c, jo[del[c][s].j].id, del[c][s].pos>>

-----------------------------------------------------------------------------
(* pqstart: pqadd() for every entry of info/; the messages of F, where a   *)
(* stat() fails, go to pqfail.  A message that is still in todo/ is left   *)
(* to todo_do.                                                             *)
Start ==
  /\ spc = "down" /\ spc' = "loop"
  /\ \E F \in SUBSET {i \in Id : PqAddFails /\ stage[i] \in {"partial", "info"}} :
       LET add == {i \in Id \ F : stage[i] = "info"} IN
       /\ pqchan' = [c \in Chan |-> [i \in Id |-> IF i \in add /\ rec[c][i] # <<>> THEN 1 ELSE 0]]
       /\ pqdone' = [i \in Id |-> IF i \in add /\ ~HasFile(i) THEN 1 ELSE 0]
       /\ pqfail' = [i \in Id |-> IF i \in F THEN 1 ELSE 0]
       /\ blind' = {i \in F : stage[i] = "partial"}
  /\ UNCHANGED <<files, pass, jo, del, comm, alive, spawn, exitasap, cur, old, faults, unclean,
                 hist>>

(* pass_do: an entry of pqfail is due, pqadd() again. *)
RunPqFail(i) ==
  /\ spc = "loop" /\ pqfail[i] > 0
  /\ pqfail' = [pqfail EXCEPT ![i] = @ - 1]
  /\ IF stage[i] = "info"
       THEN /\ pqchan' = [c \in Chan |->
                           [pqchan[c] EXCEPT ![i] = IF rec[c][i] # <<>> THEN @ + 1 ELSE @]]
            /\ pqdone' = [pqdone EXCEPT ![i] = IF HasFile(i) THEN @ ELSE @ + 1]
       ELSE UNCHANGED <<pqchan, pqdone>>
  /\ UNCHANGED <<files, pass, jo, del, comm, alive, spawn, exitasap, loop, old, faults, hist,
                 lapse>>

(* todo_do: rewrite() sends each recipient to one channel; qmail-clean     *)
(* removes todo/, and the message enters the priority queues.              *)
Preprocess(i, n) ==
  /\ stage' = [stage EXCEPT ![i] = "info"]
  /\ rec' = [c \in Chan |-> [rec[c] EXCEPT ![i] = [k \in 1 .. n[c] |-> "T"]]]
  /\ size' = [c \in Chan |-> [size[c] EXCEPT ![i] = n[c]]]

TodoDo(i) ==
  /\ spc = "loop" /\ ~exitasap /\ stage[i] \in {"todo", "partial"}
  /\ \E n \in [Chan -> 0 .. MaxRcpt] :
       /\ Preprocess(i, n)
       /\ pqchan' = [c \in Chan |-> [pqchan[c] EXCEPT ![i] = IF n[c] > 0 THEN @ + 1 ELSE @]]
       /\ pqdone' = [pqdone EXCEPT ![i] = IF \A c \in Chan : n[c] = 0 THEN @ + 1 ELSE @]
  /\ UNCHANGED <<note, pqfail, pass, jo, del, comm, alive, spawn, exitasap, loop, old, faults,
                 lapse, delivered, twice, excused, bounced>>

(* The request cannot be written or gets no answer: cleandied().  todo/ may *)
(* be gone all the same; this qmail-send has put the message nowhere.       *)
TodoCleanDied(i) ==
  /\ spc = "loop" /\ ~exitasap /\ stage[i] \in {"todo", "partial"} /\ Fault
  /\ exitasap' = TRUE
  /\ \/ \E n \in [Chan -> 0 .. MaxRcpt] : Preprocess(i, n) /\ unclean' = unclean \cup {i}
     \/ stage' = [stage EXCEPT ![i] = "partial"] /\ UNCHANGED <<rec, size, unclean>>
  /\ UNCHANGED <<note, pqs, pass, jo, del, comm, alive, spawn, loop, old, blind,
                 delivered, twice, excused, bounced>>

(* A todo_do that fails, or whose qmail-clean does, leaves todo/ and info/. *)
TodoPartial(i) ==
  /\ spc = "loop" /\ ~exitasap /\ stage[i] = "todo" /\ Fault
  /\ stage' = [stage EXCEPT ![i] = "partial"]
  /\ UNCHANGED <<rec, note, pqs, pass, jo, del, comm, alive, spawn, exitasap, loop, old, hist,
                 lapse>>

-----------------------------------------------------------------------------
(* Jobs.                                                                   *)

(* job_close: the last one out removes the file, if all is DONE, or puts   *)
(* the message back into the queue of the channel.                         *)
NoneLeft(b) == b.numtodo = 0              \* mutation: flaghiteof is not looked at
AllDone(b) == b.eof /\ b.numtodo = 0

Remove(b, n) ==
  /\ rec' = [rec EXCEPT ![b.chan][b.id] = <<>>]
  /\ UNCHANGED pqchan
  /\ \/ /\ Faults(n)       \* another file: more channels going
        /\ pqdone' = IF \E c \in Chan \ {b.chan} : rec[c][b.id] # <<>>
                       THEN pqdone ELSE [pqdone EXCEPT ![b.id] = @ + 1]
     \/ /\ Faults(n + 1)   \* stat() fails, "this is the only reason for HOPEFULLY"
        /\ pqdone' = [pqdone EXCEPT ![b.id] = @ + 1]

Forget(b) == UNCHANGED <<rec, pqchan, pqdone>>   \* mutation: no prioq_insert()
Requeue(b) ==
  /\ pqchan' = [pqchan EXCEPT ![b.chan][b.id] = @ + 1]
  /\ UNCHANGED <<rec, pqdone>>

(* jobs is jo with what the caller has just assigned, n its own failures. *)
JobClose(jobs, j, n) == LET b == jobs[j] IN
  IF b.refs > 1
    THEN /\ jo' = [jobs EXCEPT ![j].refs = @ - 1]
         /\ UNCHANGED <<rec, pqchan, pqdone>> /\ Faults(n)
    ELSE /\ jo' = [jobs EXCEPT ![j] = NoJob]
         /\ \/ AllDone(b) /\ Remove(b, n)
            \/ AllDone(b) /\ Requeue(b) /\ Faults(n + 1)     \* unlink() fails
            \/ ~AllDone(b) /\ Requeue(b) /\ Faults(n)

-----------------------------------------------------------------------------
(* Passes.                                                                 *)

FreeJob(j) == jo[j].refs = 0 /\ \A k \in Job : k < j => jo[k].refs > 0

TakenNot(q, i) == q                       \* mutation: prioq_delmin() left out
Taken(q, i) == [q EXCEPT ![i] = @ - 1]

(* pass_dochan, first half: a message that is due gets a job. *)
OpenPass(c, i) ==
  /\ spc = "loop" /\ ~exitasap /\ pass[c] = NoPass /\ pqchan[c][i] > 0
  /\ rec[c][i] # <<>> /\ stage[i] = "info"       \* or "trouble opening": back to pqchan
  /\ \E j \in Job :
       /\ FreeJob(j)
       /\ pass' = [pass EXCEPT ![c] = [id |-> i, j |-> j, pos |-> 1]]
       /\ jo' = [jo EXCEPT ![j] = [NoJob EXCEPT !.refs = 1, !.id = i, !.chan = c,
                                                !.dying = i \in old]]
  /\ pqchan' = [pqchan EXCEPT ![c] = Taken(@, i)]
  /\ UNCHANGED <<files, pqdone, pqfail, del, comm, alive, spawn, exitasap, loop, old, faults,
                 hist, lapse>>

Referred(b) == [b EXCEPT !.refs = @ + 1]         \* mutation: ++numtodo left out
Started(b) == [b EXCEPT !.numtodo = @ + 1, !.refs = @ + 1]

DelAvail(c) == alive[c] /\ comm[c] = 0 /\ Cardinality(Used(c)) < Conc[c]

(* pass_dochan, second half, where del_avail(c): a NOT DONE record, del_start. *)
ReadT(c) == LET p == pass[c] IN
  /\ spc = "loop" /\ ~exitasap /\ p # NoPass /\ DelAvail(c)
  /\ p.pos <= Len(rec[c][p.id]) /\ rec[c][p.id][p.pos] = "T"
  /\ LET s == CHOOSE s \in Slot(c) \ Used(c) : \A t \in Slot(c) \ Used(c) : s <= t IN
     /\ del' = [del EXCEPT ![c][s] = [j |-> p.j, pos |-> p.pos]]
     /\ comm' = [comm EXCEPT ![c] = s]
  /\ jo' = [jo EXCEPT ![p.j] = Started(@)]
  /\ pass' = [pass EXCEPT ![c].pos = @ + 1]
  /\ UNCHANGED <<files, pqs, alive, spawn, exitasap, loop, old, faults, hist, lapse>>

(* A DONE record. *)
ReadD(c) == LET p == pass[c] IN
  /\ spc = "loop" /\ ~exitasap /\ p # NoPass /\ DelAvail(c)
  /\ p.pos <= Len(rec[c][p.id]) /\ rec[c][p.id][p.pos] = "D"
  /\ pass' = [pass EXCEPT ![c].pos = @ + 1]
  /\ UNCHANGED <<files, pqs, jo, del, comm, alive, spawn, exitasap, loop, old, faults, hist,
                 lapse>>

(* The end of the file. *)
ReadEnd(c) == LET p == pass[c] IN
  /\ spc = "loop" /\ ~exitasap /\ p # NoPass /\ DelAvail(c)
  /\ p.pos > Len(rec[c][p.id])
  /\ JobClose([jo EXCEPT ![p.j].eof = TRUE], p.j, 0)
  /\ pass' = [pass EXCEPT ![c] = NoPass]
  /\ UNCHANGED <<stage, note, pqfail, del, comm, alive, spawn, exitasap, loop, old, hist, lapse>>

(* read() fails, or the record is neither T nor D: the pass ends early. *)
ReadFail(c) == LET p == pass[c] IN
  /\ spc = "loop" /\ ~exitasap /\ p # NoPass /\ DelAvail(c)
  /\ JobClose(jo, p.j, 1)
  /\ pass' = [pass EXCEPT ![c] = NoPass]
  /\ UNCHANGED <<stage, note, pqfail, del, comm, alive, spawn, exitasap, loop, old, hist, lapse>>

-----------------------------------------------------------------------------
(* The pipes and the spawn program at their other end.                     *)

(* comm_do: the last byte of the command is written. *)
CommDo(c) ==
  /\ spc = "loop" /\ alive[c] /\ comm[c] # 0
  /\ out' = [out EXCEPT ![c] = @ \cup {comm[c]}] /\ comm' = [comm EXCEPT ![c] = 0]
  /\ UNCHANGED <<files, pqs, pass, jo, del, alive, rep, exitasap, loop, old, faults, hist,
                 lapse>>

Receive(X) == delivered' = delivered \cup X /\ twice' = twice \cup (X \cap delivered)

(* Success, deferral or failure, in any order among the slots. *)
SpawnReport(c, s, r) ==
  /\ s \in out[c] /\ out' = [out EXCEPT ![c] = @ \ {s}]
  /\ rep' = [rep EXCEPT ![c] = @ \cup {<<s, r>>}]
  /\ IF r = "K" THEN Receive({RcptOf(c, s)}) ELSE UNCHANGED <<delivered, twice>>
  /\ UNCHANGED <<files, pqs, pass, jo, del, comm, alive, exitasap, loop, old, faults, size,
                 excused, bounced, lapse>>

-----------------------------------------------------------------------------
(* Deliveries.                                                             *)

(* del_dochan, a report: deferral turns into failure when flagdying, and a *)
(* failure is noted in bounce/ before the record is marked.                *)
Verdict(c, s, r) == IF r = "Z" /\ jo[del[c][s].j].dying THEN "D" ELSE r

NotedIfSo(c, s, r) ==        \* mutation: flagdying is looked at after addbounce
  IF r = "D" THEN note \cup {RcptOf(c, s)} ELSE note
Noted(c, s, r) ==
  IF Verdict(c, s, r) = "D" THEN note \cup {RcptOf(c, s)} ELSE note

Report(c, s, r) ==
  /\ spc = "loop" /\ alive[c] /\ <<s, r>> \in rep[c]
  /\ rep' = [rep EXCEPT ![c] = @ \ {<<s, r>>}]
  /\ cur' = <<c, s>>
  /\ spc' = IF Verdict(c, s, r) = "Z" THEN "close" ELSE "mark"
  /\ note' = Noted(c, s, r)
  /\ UNCHANGED <<stage, rec, pqs, pass, jo, del, comm, alive, out, exitasap, old, faults, hist,
                 lapse>>

(* markdone, and --numtodo. *)
Mark == LET c == cur[1] s == cur[2] j == del[c][s].j i == jo[j].id IN
  /\ spc = "mark" /\ spc' = "close"
  /\ \/ /\ rec' = [rec EXCEPT ![c][i][del[c][s].pos] = "D"] /\ NoFault /\ UNCHANGED excused
     \/ /\ Fault      \* "message will be delivered twice!"
        /\ excused' = excused \cup {RcptOf(c, s)} /\ UNCHANGED rec
  /\ jo' = [jo EXCEPT ![j].numtodo = @ - 1]
  /\ UNCHANGED <<stage, note, pqs, pass, del, comm, alive, spawn, exitasap, cur, old, size,
                 delivered, twice, bounced, lapse>>

(* job_close, and the slot is free again. *)
Close == LET c == cur[1] s == cur[2] IN
  /\ spc = "close" /\ spc' = "loop" /\ cur' = None
  /\ JobClose(jo, del[c][s].j, 0)
  /\ del' = [del EXCEPT ![c][s] = NoDel]
  /\ UNCHANGED <<stage, note, pqfail, pass, comm, alive, spawn, exitasap, old, hist, lapse>>

-----------------------------------------------------------------------------
(* The end of a message.                                                   *)

(* messdone, the stat() calls. *)
Messdone(i) ==
  /\ spc = "loop" /\ pqdone[i] > 0
  /\ pqdone' = [pqdone EXCEPT ![i] = @ - 1]
  /\ IF ~HasFile(i) /\ stage[i] = "info" THEN spc' = "inject" /\ cur' = i ELSE UNCHANGED loop
  /\ UNCHANGED <<files, pqchan, pqfail, pass, jo, del, comm, alive, spawn, exitasap, old,
                 faults, hist, lapse>>

NotesOf(i) == {x \in note : x[2] = i}

(* injectbounce: qmail-queue has accepted the bounce message. *)
Inject ==
  /\ spc = "inject" /\ spc' = "unlink_bounce"
  /\ bounced' = bounced \cup NotesOf(cur)
  /\ UNCHANGED <<files, pqs, pass, jo, del, comm, alive, spawn, exitasap, cur, old, faults,
                 size, delivered, twice, excused, lapse>>

UnlinkBounce ==
  /\ spc = "unlink_bounce" /\ spc' = "unlink_info"
  /\ note' = note \ NotesOf(cur)
  /\ UNCHANGED <<stage, rec, pqs, pass, jo, del, comm, alive, spawn, exitasap, cur, old,
                 faults, hist, lapse>>

(* "we can relax": mess/ is the business of qmail-clean, alive or not. *)
UnlinkInfo ==
  /\ spc = "unlink_info" /\ spc' = "loop" /\ cur' = None
  /\ stage' = [stage EXCEPT ![cur] = "gone"]
  /\ \/ NoFault /\ UNCHANGED exitasap
     \/ Fault /\ exitasap' = TRUE      \* cleandied()
  /\ UNCHANGED <<rec, note, pqs, pass, jo, del, comm, alive, spawn, old, lapse, hist>>

Again(i) == [pqdone EXCEPT ![i] = @ + 1]

(* fail: the message goes back to pqdone. *)
MessdoneFail ==
  /\ spc \in {"inject", "unlink_bounce", "unlink_info"} /\ Fault
  /\ spc' = "loop" /\ cur' = None
  /\ pqdone' = Again(cur)
  /\ UNCHANGED <<files, pqchan, pqfail, pass, jo, del, comm, alive, spawn, exitasap, old, hist,
                 lapse>>

-----------------------------------------------------------------------------
(* Signals, time, exits.                                                   *)

(* recent > birth + lifetime from now on. *)
Expire(i) ==
  /\ i \notin old /\ old' = old \cup {i}
  /\ UNCHANGED <<files, pqs, pass, jo, del, comm, alive, spawn, exitasap, loop, faults, hist,
                 lapse>>

(* SIGTERM *)
Term ==
  /\ spc # "down" /\ ~exitasap /\ Fault /\ exitasap' = TRUE
  /\ UNCHANGED <<files, pqs, pass, jo, del, comm, alive, spawn, loop, old, hist, lapse>>

(* spawndied: the reports that were on their way are lost. *)
SpawnDied(c) ==
  /\ spc = "loop" /\ alive[c] /\ Fault
  /\ alive' = [alive EXCEPT ![c] = FALSE] /\ exitasap' = TRUE
  /\ out' = [out EXCEPT ![c] = {}] /\ rep' = [rep EXCEPT ![c] = {}]
  /\ \E X \in SUBSET {RcptOf(c, s) : s \in out[c]} : Receive(X)
  /\ excused' = excused \cup {RcptOf(c, s) : s \in Used(c)}
  /\ UNCHANGED <<files, pqs, pass, jo, del, comm, loop, old, lapse, size, bounced>>

NoPqs == /\ pqchan' = [c \in Chan |-> [i \in Id |-> 0]]
         /\ pqdone' = [i \in Id |-> 0] /\ pqfail' = [i \in Id |-> 0]

(* The end of the main loop and pqfinish. *)
ExitNow == TRUE                           \* mutation: del_canexit() is not asked
CanExit == \A c \in Chan : alive[c] => Used(c) = {}

Exit ==
  /\ spc = "loop" /\ exitasap /\ CanExit
  /\ spc' = "down" /\ Blank /\ NoPqs
  /\ UNCHANGED <<files, old, faults, hist>>

(* A crash: deliveries in progress may still succeed, nobody hears of it. *)
Crash ==
  /\ spc # "down" /\ Fault
  /\ spc' = "down" /\ Blank /\ NoPqs
  /\ LET busy == UNION {{RcptOf(c, s) : s \in Used(c)} : c \in Chan} IN
     /\ excused' = excused \cup busy
     /\ \E X \in SUBSET UNION {{RcptOf(c, s) : s \in out[c]} : c \in Chan} : Receive(X)
  /\ UNCHANGED <<files, old, size, bounced>>

(* main: nothing is left to do, select() waits. *)
Sleep ==
  /\ spc = "loop" /\ \A i \in Id : stage[i] = "gone"
  /\ UNCHANGED vars

-----------------------------------------------------------------------------
Result == {"K", "Z", "D"}

Next ==
  \/ Start \/ Mark \/ Close \/ Inject \/ UnlinkBounce \/ UnlinkInfo \/ MessdoneFail
  \/ Term \/ Exit \/ Crash \/ Sleep
  \/ \E i \in Id : RunPqFail(i) \/ TodoDo(i) \/ TodoCleanDied(i) \/ TodoPartial(i)
                    \/ Messdone(i) \/ Expire(i)
  \/ \E c \in Chan : \/ ReadT(c) \/ ReadD(c) \/ ReadEnd(c) \/ ReadFail(c) \/ CommDo(c)
                     \/ SpawnDied(c)
  \/ \E c \in Chan, i \in Id : OpenPass(c, i)
  \/ \E c \in Chan, r \in Result : \E s \in Slot(c) : SpawnReport(c, s, r) \/ Report(c, s, r)

Spec == Init /\ [][Next]_vars

-----------------------------------------------------------------------------
(* Every variable has its type; the counters stay in their bounds. *)
TypeOK ==
  /\ stage \in [Id -> {"todo", "partial", "info", "gone"}]
  /\ rec \in [Chan -> [Id -> UNION {[1 .. n -> {"T", "D"}] : n \in 0 .. MaxRcpt}]]
  /\ note \subseteq Rcpt
  /\ pqchan \in [Chan -> [Id -> Nat]] /\ pqdone \in [Id -> Nat] /\ pqfail \in [Id -> Nat]
  /\ \A c \in Chan : pass[c] = NoPass \/ (pass[c].id \in Id /\ pass[c].j \in Job)
  /\ \A j \in Job : jo[j].numtodo \in 0 .. MaxRcpt /\ jo[j].refs \in 0 .. MaxRcpt + 1
  /\ \A c \in Chan : \A s \in Slot(c) : del[c][s].j \in 0 .. NumJobs
  /\ \A c \in Chan : comm[c] \in 0 .. Conc[c] /\ out[c] \subseteq Used(c)
  /\ alive \in [Chan -> BOOLEAN] /\ exitasap \in BOOLEAN
  /\ old \cup unclean \cup blind \subseteq Id
  /\ delivered \cup twice \cup excused \cup bounced \subseteq Rcpt

(* The use counts: refs counts the slots of a job and the pass that reads   *)
(* its file, so a job is closed by the last of them and by no other.        *)
JobRefs ==
  \A j \in Job : jo[j].refs =
    Cardinality({cs \in Chan \X (1 .. NumJobs) : cs[2] \in Used(cs[1])
                                                  /\ del[cs[1]][cs[2]].j = j})
    + Cardinality({c \in Chan : pass[c].j = j})

(* A file is removed only when each of its recipients is DONE: one that was *)
(* read but found no slot, or was deferred, keeps the file.                 *)
RemovedWhenDone ==
  [][\A c \in Chan, i \in Id : rec[c][i] # <<>> /\ rec'[c][i] = <<>> =>
       \A k \in 1 .. Len(rec[c][i]) : rec[c][i][k] = "D" \/ <<c, i, k>> \in excused]_vars

(* INTERNALS, section 5: a recipient that is not NOT DONE any more has got  *)
(* the message, or is noted in bounce/, or has been named in a bounce; no   *)
(* crash of qmail-send between two steps loses one.                         *)
Accounted ==
  \A c \in Chan, i \in Id : \A k \in 1 .. size[c][i] :
    \/ rec[c][i] # <<>> /\ rec[c][i][k] = "T"
    \/ <<c, i, k>> \in delivered \cup note \cup bounced

(* The last user of a job closes it, and no other: two deliveries to one    *)
(* recipient are never under way at the same time.                          *)
OneDelivery ==
  /\ JobRefs
  /\ \A c \in Chan : \A s, t \in Used(c) : RcptOf(c, s) = RcptOf(c, t) => s = t

(* A recipient gets the message again only when a crash, a dead spawn       *)
(* program or a failed markdone() has lost the first report: not after a    *)
(* deferral of others, a restart by SIGTERM or a file that could not be     *)
(* removed.                                                                 *)
TwiceOnlyExcused == twice \subseteq excused

(* A preprocessed message without recipients left waits for messdone. *)
DoneRemembered ==
  spc # "down" => \A i \in Id \ unclean :
    stage[i] = "info" /\ ~HasFile(i) /\ cur # i => pqdone[i] + pqfail[i] > 0

(* Queues and jobs in which file c of message i is. *)
Places(c, i) ==
  pqchan[c][i] + Cardinality({j \in Job : jo[j].refs > 0 /\ jo[j].id = i /\ jo[j].chan = c})

(* The comment at pqchan, "-todo +info" and the file of the channel, holds  *)
(* of each entry, and a file with recipients is in the queue of its channel *)
(* or has a job, and is so once; pqfail holds what could not be looked at;  *)
(* a message without recipients left waits for messdone.  When qmail-clean  *)
(* dies under todo_do, its message is nowhere until qmail-send, which is to *)
(* exit, is started again; where a stat() failed while todo/ existed, see   *)
(* PqChanComment.                                                           *)
OnePlace ==
  /\ DoneRemembered
  /\ spc # "down" => \A c \in Chan : \A i \in {k \in Id \ blind : pqfail[k] = 0} :
       Places(c, i) = IF stage[i] = "info" /\ rec[c][i] # <<>> /\ i \notin unclean THEN 1 ELSE 0
  /\ unclean # {} => exitasap

-----------------------------------------------------------------------------
(* The main loop calls each of its parts again and again and goes through   *)
(* due entries in turn; the spawn programs answer; lifetimes end; qmail-send *)
(* is started again.                                                        *)
Fairness ==
  /\ WF_vars(Start) /\ WF_vars(Mark) /\ WF_vars(Close) /\ WF_vars(Inject)
  /\ WF_vars(UnlinkBounce) /\ WF_vars(UnlinkInfo) /\ WF_vars(Exit)
  /\ \A i \in Id : WF_vars(RunPqFail(i)) /\ WF_vars(TodoDo(i)) /\ WF_vars(Messdone(i))
                   /\ WF_vars(Expire(i))
  /\ \A c \in Chan : /\ WF_vars(ReadT(c) \/ ReadD(c) \/ ReadEnd(c)) /\ WF_vars(CommDo(c))
                     /\ \A i \in Id : WF_vars(OpenPass(c, i))
                     /\ \A s \in Slot(c) : /\ WF_vars(\E r \in Result : SpawnReport(c, s, r))
                                           /\ WF_vars(\E r \in Result : Report(c, s, r))

FairSpec == Spec /\ Fairness

(* Each message comes to its end. *)
EachEnds == \A i \in Id : <>(stage[i] = "gone")

(* The comment at pqchan: "-todo +info", and the file of the channel exists. *)
PqChanComment ==
  spc # "down" => \A c \in Chan, i \in Id :
    pqchan[c][i] > 0 => stage[i] = "info" /\ rec[c][i] # <<>>

(* qmail-send(8): with concurrencylocal 0 "local deliveries will be put on  *)
(* hold", and only these: the recipients in remote/ are still attended to.  *)
OthersGoOn ==
  \A c \in Chan, i \in Id : Conc[c] > 0 /\ rec[c][i] # <<>> ~> rec[c][i] = <<>>
=============================================================================
