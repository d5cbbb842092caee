------------------------------ MODULE Multilog ------------------------------
(***************************************************************************)
(* One cyclic log of multilog.c: how bytes get into current, how a full    *)
(* current becomes an @-file (through previous and, with a processor,      *)
(* processed), and what restart() makes of the files it finds after        *)
(* multilog was killed at any point or the machine crashed.                *)
(*                                                                         *)
(* A byte is "x" or "n", a newline.  Time stamps of @-files grow, so that  *)
(* logs is in their order.  The files state and newstate, which only       *)
(* the processor reads, are left out, as are retries of failed calls: they *)
(* repeat the call.  The processor keeps every byte.                       *)
(***************************************************************************)
EXTENDS Naturals, Sequences, FiniteSets, SequencesExt

CONSTANTS
  Ino,          \* inodes
  Size,         \* d->size
  Tail0,        \* 2000: the end of a file where lines are not broken
  Num,          \* d->num
  MaxBuf,       \* bytes that are read at once
  MaxText,      \* bound: bytes read
  MaxLogDeath   \* bound: kills and crashes

ASSUME MultilogAssumption ==
  /\ Ino \subseteq Nat \ {0} /\ Size \in Nat /\ Tail0 \in Nat /\ Tail0 < Size
  /\ Num \in Nat \ {0, 1} /\ MaxBuf \in Nat /\ MaxText \in Nat /\ MaxLogDeath \in Nat
  /\ IsFiniteSet(Ino) /\ Cardinality(Ino) >= Num + MaxLogDeath + 2  \* a new file finds one

VARIABLES
  mpc,          \* where multilog is; "down" when it does not run
  processor,    \* whether there is a processor
  bytes,        \* d->bytes
  outb,         \* bytes read and not yet written
  current, previous, processed,  \* inodes, 0 without file
  node,         \* node[i]: text, synced (bytes on disk), x (mode 0100), cut
  logs,      \* the @-files, <<inode, code>>
  fin,          \* finish(): the file and its code, and where it goes on
  forced,       \* whether the rotation was asked for by SIGALRM
  text,         \* history: what was written and not removed by filesfit()
  taken,        \* number of bytes read
  logDeaths

names == <<current, previous, processed>>
mlVars == <<mpc, processor, bytes, outb, names, node, logs, fin, forced, text, taken, logDeaths>>

Empty == [text |-> <<>>, synced |-> 0, x |-> FALSE, cut |-> FALSE]
NoFin == <<0, "u", "run">>

MultilogInit ==
  /\ mpc = "down" /\ processor = FALSE /\ bytes = 0 /\ outb = <<>>
  /\ current = 0 /\ previous = 0 /\ processed = 0
  /\ node = [i \in Ino |-> Empty] /\ logs = <<>> /\ fin = NoFin
  /\ forced = FALSE /\ text = <<>> /\ taken = 0 /\ logDeaths = 0

Rotated == {logs[k][1] : k \in DOMAIN logs}
FreeIno == Ino \ (Rotated \union {current, previous, processed})

(* A new file; the inode of a file without a name is free again.           *)
NewIno == CHOOSE i \in FreeIno : \A j \in FreeIno : i <= j
FreedFile(i) == [node EXCEPT ![i] = Empty]
Drop(i) == node' = IF i # 0 /\ i \notin Rotated THEN FreedFile(i) ELSE node

At(l) == mpc = l
Go(l) == mpc' = l

-----------------------------------------------------------------------------
(* flushread(): everything read so far has been written; then read().      *)
ReadMore ==
  /\ At("run") /\ outb = <<>>
  /\ \E n \in 1 .. MaxBuf :
       /\ taken + n <= MaxText /\ taken' = taken + n
       /\ \E s \in [1 .. n -> {"x", "n"}] : outb' = s
  /\ UNCHANGED <<mpc, processor, bytes, names, node, logs, fin, forced, text, logDeaths>>

(* flushread() after SIGALRM: a log that is not empty is rotated.          *)
ForceRotate ==
  /\ At("run") /\ outb = <<>> /\ bytes > 0 /\ Go("full") /\ forced' = TRUE
  /\ UNCHANGED <<processor, bytes, outb, names, node, logs, fin, text, taken, logDeaths>>

(* c_write(): how much of the buffer is handed to write().                 *)
Newlines(s, n) == {k \in 1 .. n : s[k] = "n"}

Chunk ==
  LET len == IF Len(outb) >= Size - bytes THEN Size - bytes ELSE Len(outb)
      nl  == Newlines(outb, len)
  IN  IF bytes + len >= Size - Tail0 /\ nl # {}
        THEN CHOOSE k \in nl : \A l \in nl : l <= k
        ELSE len

(* write() may take less than it is given.                                 *)
CWrite ==
  /\ At("run") /\ outb # <<>> /\ bytes < Size
  /\ \E w \in 1 .. Chunk :
       /\ node' = [node EXCEPT ![current].text = @ \o SubSeq(outb, 1, w)]
       /\ text' = text \o SubSeq(outb, 1, w)
       /\ outb' = SubSeq(outb, w + 1, Len(outb))
       /\ bytes' = bytes + w
       /\ mpc' = IF bytes' >= Size - Tail0 /\ outb[w] = "n" THEN "full" ELSE "run"
  /\ forced' = FALSE
  /\ UNCHANGED <<processor, names, logs, fin, taken, logDeaths>>

CWriteFull ==
  /\ At("run") /\ outb # <<>> /\ bytes >= Size /\ Go("full") /\ forced' = FALSE
  /\ UNCHANGED <<processor, bytes, outb, names, node, logs, fin, text, taken, logDeaths>>

-----------------------------------------------------------------------------
(* fullcurrent(), one system call after the other.                         *)
NoFullSync ==                                                 \* mutant
  /\ At("full") /\ Go("rename")
  /\ UNCHANGED <<processor, bytes, outb, names, node, logs, fin, forced, text, taken, logDeaths>>

FullSync ==
  /\ At("full") /\ Go("rename")
  /\ node' = [node EXCEPT ![current].synced = Len(node[current].text)]
  /\ UNCHANGED <<processor, bytes, outb, names, logs, fin, forced, text, taken, logDeaths>>

FullRename ==
  /\ At("rename") /\ Go("create")
  /\ previous' = current /\ current' = 0
  /\ UNCHANGED <<processor, bytes, outb, processed, node, logs, fin, forced, text, taken, logDeaths>>

Finish(file, code, next) == Go("finish") /\ fin' = <<file, code, next>>

FullCreate ==
  /\ At("create")
  /\ current' = NewIno /\ node' = FreedFile(NewIno)
  /\ bytes' = 0
  /\ IF processor THEN Go("process") /\ UNCHANGED fin ELSE Finish("previous", "s", "run")
  /\ UNCHANGED <<processor, outb, previous, processed, logs, forced, text, taken, logDeaths>>

(* startprocessor() opens processed; the processor writes it.              *)
ProcessOpen ==
  /\ At("process") /\ Go("processing")
  /\ processed' = NewIno /\ node' = FreedFile(NewIno)
  /\ UNCHANGED <<processor, bytes, outb, current, previous, logs, fin, forced, text, taken, logDeaths>>

ProcessRun ==
  /\ At("processing") /\ Go("psync")
  /\ node' = [node EXCEPT ![processed].text = node[previous].text]
  /\ UNCHANGED <<processor, bytes, outb, names, logs, fin, forced, text, taken, logDeaths>>

ProcessSync ==
  /\ At("psync") /\ Go("pmode")
  /\ node' = [node EXCEPT ![processed].synced = Len(node[processed].text)]
  /\ UNCHANGED <<processor, bytes, outb, names, logs, fin, forced, text, taken, logDeaths>>

ProcessMode ==
  /\ At("pmode") /\ Go("punlink") /\ node' = [node EXCEPT ![processed].x = TRUE]
  /\ UNCHANGED <<processor, bytes, outb, names, logs, fin, forced, text, taken, logDeaths>>

UnlinkPrevious ==
  /\ At("punlink") /\ previous' = 0 /\ Drop(previous) /\ Finish("processed", "s", "run")
  /\ UNCHANGED <<processor, bytes, outb, current, processed, logs, forced, text, taken, logDeaths>>

-----------------------------------------------------------------------------
(* finish(): the file gets an @-name unless it has one already, then loses *)
(* its old name; then filesfit() until there are fewer than num.           *)
FinFile == CASE fin[1] = "previous" -> previous
             [] fin[1] = "processed" -> processed
             [] OTHER -> current

FinNone ==
  /\ At("finish") /\ FinFile = 0 /\ Go(fin[3]) /\ fin' = NoFin
  /\ UNCHANGED <<processor, bytes, outb, names, node, logs, forced, text, taken, logDeaths>>

FinLink ==
  /\ At("finish") /\ FinFile # 0 /\ Go("unlink")
  /\ logs' = IF FinFile \in Rotated THEN logs
                                        ELSE Append(logs, <<FinFile, fin[2]>>)
  /\ UNCHANGED <<processor, bytes, outb, names, node, fin, forced, text, taken, logDeaths>>

FinUnlink ==
  /\ At("unlink") /\ Go("fit")
  /\ previous'  = IF fin[1] = "previous" THEN 0 ELSE previous
  /\ processed' = IF fin[1] = "processed" THEN 0 ELSE processed
  /\ current'   = IF fin[1] = "current" THEN 0 ELSE current
  /\ UNCHANGED <<processor, bytes, outb, node, logs, fin, forced, text, taken, logDeaths>>

FilesFit ==
  /\ At("fit") /\ Len(logs) < Num /\ Go(fin[3]) /\ fin' = NoFin
  /\ UNCHANGED <<processor, bytes, outb, names, node, logs, forced, text, taken, logDeaths>>

FitRemove ==
  /\ At("fit") /\ Len(logs) >= Num
  /\ LET i == Head(logs)[1] IN
       /\ text' = SubSeq(text, Len(node[i].text) + 1, Len(text)) /\ node' = FreedFile(i)
  /\ logs' = Tail(logs)
  /\ UNCHANGED <<mpc, processor, bytes, outb, names, fin, forced, taken, logDeaths>>

-----------------------------------------------------------------------------
(* restart(): a current with mode 0100 was left by c_quit() and goes on.   *)
RestartClean ==
  /\ At("down") /\ current # 0 /\ node[current].x /\ Go("run")
  /\ processor' \in BOOLEAN
  /\ node' = [node EXCEPT ![current].x = FALSE]
  /\ bytes' = Len(node[current].text) /\ forced' = FALSE
  /\ UNCHANGED <<outb, names, logs, fin, text, taken, logDeaths>>

RestartDirty ==
  /\ At("down") /\ ~(current # 0 /\ node[current].x)
  /\ processor' \in BOOLEAN /\ forced' = FALSE
  /\ IF processed # 0 /\ node[processed].x
       THEN /\ previous' = 0 /\ Drop(previous) /\ UNCHANGED processed
            /\ Finish("processed", "s", "old")
       ELSE /\ processed' = 0 /\ Drop(processed) /\ UNCHANGED previous
            /\ Finish("previous", "u", "old")
  /\ UNCHANGED <<bytes, outb, current, logs, text, taken, logDeaths>>

RestartOld ==
  /\ At("old") /\ Finish("current", "u", "new")
  /\ UNCHANGED <<processor, bytes, outb, names, node, logs, forced, text, taken, logDeaths>>

RestartNew ==
  /\ At("new") /\ Go("run")
  /\ current' = NewIno /\ node' = FreedFile(NewIno)
  /\ bytes' = 0
  /\ UNCHANGED <<processor, outb, previous, processed, logs, fin, forced, text, taken, logDeaths>>

(* c_quit() at the end of the input or after SIGTERM: fsync(), fchmod().   *)
QuitSync ==
  /\ At("run") /\ outb = <<>> /\ Go("quit")
  /\ node' = [node EXCEPT ![current].synced = Len(node[current].text)]
  /\ UNCHANGED <<processor, bytes, outb, names, logs, fin, forced, text, taken, logDeaths>>

QuitMode ==
  /\ At("quit") /\ Go("down") /\ node' = [node EXCEPT ![current].x = TRUE]
  /\ UNCHANGED <<processor, bytes, outb, names, logs, fin, forced, text, taken, logDeaths>>

(* multilog is killed: what is in its buffer was never written.            *)
KillLog ==
  /\ ~At("down") /\ Go("down") /\ logDeaths < MaxLogDeath /\ logDeaths' = logDeaths + 1
  /\ outb' = <<>> /\ fin' = NoFin /\ bytes' = 0 /\ forced' = FALSE
  /\ UNCHANGED <<processor, names, node, logs, text, taken>>

(* What a reader of the directory finds, oldest first; a file with two     *)
(* names counts once, and processed counts once it takes the place of      *)
(* previous.                                                               *)
TextOf(nd, i) == IF i = 0 \/ i \in Rotated THEN <<>> ELSE nd[i].text

Found(nd) ==
  LET arch == FlattenSeq([k \in DOMAIN logs |-> nd[logs[k][1]].text])
      mid  == IF previous # 0 THEN TextOf(nd, previous)
              ELSE IF processed # 0 /\ nd[processed].x THEN TextOf(nd, processed) ELSE <<>>
  IN  arch \o mid \o TextOf(nd, current)

(* The machine crashes: bytes that have not been synced are lost.          *)
CrashLog ==
  LET nd == [i \in Ino |-> [node[i] EXCEPT
               !.text = SubSeq(@, 1, node[i].synced),
               !.cut = @ \/ node[i].synced < Len(node[i].text)]]
  IN
  /\ logDeaths < MaxLogDeath /\ logDeaths' = logDeaths + 1
  /\ node' = nd /\ text' = Found(nd)
  /\ Go("down") /\ outb' = <<>> /\ fin' = NoFin /\ bytes' = 0 /\ forced' = FALSE
  /\ UNCHANGED <<processor, names, logs, taken>>

MultilogNext ==
  \/ ReadMore \/ ForceRotate \/ CWrite \/ CWriteFull
  \/ FullSync \/ FullRename \/ FullCreate
  \/ ProcessOpen \/ ProcessRun \/ ProcessSync \/ ProcessMode \/ UnlinkPrevious
  \/ FinNone \/ FinLink \/ FinUnlink \/ FilesFit \/ FitRemove
  \/ RestartClean \/ RestartDirty \/ RestartOld \/ RestartNew
  \/ QuitSync \/ QuitMode \/ KillLog \/ CrashLog

MultilogSpec == MultilogInit /\ [][MultilogNext]_mlVars

-----------------------------------------------------------------------------
(* Wherever multilog is killed, the files hold what was written, in order  *)
(* and once, but for the oldest files that filesfit() has removed.         *)
NothingLost == text = Found(node)

(* An @-file that ends in s, and a current with mode 0100, are on disk and *)
(* never lost a byte; there are at most num @-files, and one more for each *)
(* time that multilog was killed before filesfit().                        *)
SafeMarked ==
  /\ \A k \in DOMAIN logs : logs[k][2] = "s" =>
       LET f == node[logs[k][1]] IN ~f.cut /\ f.synced = Len(f.text)
  /\ current # 0 /\ node[current].x => node[current].synced = Len(node[current].text)
  /\ Len(logs) <= Num + logDeaths

(* A file is closed after a newline, or because it has size bytes without  *)
(* a newline in its last 2000, or because of SIGALRM; it is never larger.  *)
LinesWhole ==
  /\ bytes <= Size
  /\ mpc = "full" /\ ~forced =>
       LET t == node[current].text IN
       \/ t[Len(t)] = "n"
       \/ Len(t) = Size /\ \A k \in (Size - Tail0) .. Size : t[k] # "n"

(* The three together.                                                     *)
MultilogSafe == NothingLost /\ SafeMarked /\ LinesWhole
=============================================================================
