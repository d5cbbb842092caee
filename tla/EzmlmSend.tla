----------------------------- MODULE EzmlmSend -----------------------------
(***************************************************************************)
(* Posting to a mailing list (ezmlm-0.53/ezmlm-send.c) and changing its    *)
(* subscribers (subscribe.c), which share dir/lock.  A post takes the next *)
(* number, archives the message under it, writes dir/num, reads the files  *)
(* of subscribers one by one and hands the message to qmail-queue; if that *)
(* fails it takes the number back.  Any process may die at any step; a     *)
(* post that did not succeed is tried again by qmail.                      *)
(***************************************************************************)
EXTENDS Integers, FiniteSets

CONSTANTS
  Post, Admin,   \* posts, and requests to subscribe or unsubscribe: processes
  Addr, File,    \* addresses and the files subscribers/X they hash to
  FileOf,        \* [Addr -> File]; 53 files in the code, read in order
  LastFile,      \* files are 1 .. LastFile
  MaxNum,        \* bound: numbers of messages
  MaxSendDeath   \* bound: failures and deaths of processes

ASSUME EzmlmSendAssumption ==
  /\ LastFile \in Nat \ {0} /\ File = 1 .. LastFile
  /\ FileOf \in [Addr -> File] /\ Post \intersect Admin = {} /\ "none" \notin Post \union Admin
  /\ {MaxNum, MaxSendDeath} \subseteq Nat

VARIABLES
  lockedBy,  \* the process that holds dir/lock, or "none"
  num,       \* dir/num
  archive,   \* [1 .. MaxNum -> [text, whole, exec]]: archive/: what, all on disk, mode 0744
  subs,      \* [File -> subscribers in it]
  at,        \* [Post \union Admin -> step]
  mine,      \* [Post -> [num, next, rcpts]]: msgnum, the next file, recipients so far
  task,      \* [Admin -> [addr, add, new]]: the request and the file as rewritten
  queued,    \* history: messages in qmail's queue: [num, msg, rcpts, subs, killed],
             \* killed if qmail-queue did not live to say that it had queued it
  wanted,    \* history: the subscribers, by the requests that were reported done
  sendDeaths

ezVars == <<lockedBy, num, archive, subs, at, mine, task, queued, wanted, sendDeaths>>

Process == Post \union Admin
Members(s) == UNION {s[f] : f \in File}

EzmlmSendInit ==
  /\ lockedBy = "none" /\ num = 0 /\ sendDeaths = 0
  /\ archive = [n \in 1 .. MaxNum |-> [text |-> "none", whole |-> FALSE, exec |-> FALSE]]
  /\ subs = [f \in File |-> {}] /\ wanted = {}
  /\ at = [p \in Process |-> "start"]
  /\ mine = [p \in Post |-> [num |-> 0, next |-> 1, rcpts |-> {}]]
  /\ LET a == CHOOSE a \in Addr : TRUE
     IN  task = [q \in Admin |-> [addr |-> a, add |-> TRUE, new |-> {}]]
  /\ queued = {}

Step(p, from, to) == at[p] = from /\ at' = [at EXCEPT ![p] = to]

\* lockfile() or lock_ex: the mutant goes on without it.
LockNot(p) == lockedBy' = p
Lock(p) == lockedBy = "none" /\ lockedBy' = p

\* The lock, then num is read.
PostLock(p) ==
  /\ Lock(p) /\ num < MaxNum
  /\ Step(p, "start", "numbered")
  /\ mine' = [mine EXCEPT ![p] = [num |-> num + 1, next |-> 1, rcpts |-> {}]]
  /\ UNCHANGED <<num, archive, subs, task, queued, wanted, sendDeaths>>

\* open_trunc: a file left by an earlier post keeps its mode.
ArchiveOpen(p) ==
  /\ Step(p, "numbered", "copying")
  /\ archive' = [archive EXCEPT ![mine[p].num] = [@ EXCEPT !.text = p, !.whole = FALSE]]
  /\ UNCHANGED <<lockedBy, num, subs, mine, task, queued, wanted, sendDeaths>>

\* The message is written and fsynced, then the mode is changed.
ArchiveSync(p) ==
  /\ Step(p, "copying", "synced")
  /\ archive' = [archive EXCEPT ![mine[p].num].whole = TRUE]
  /\ UNCHANGED <<lockedBy, num, subs, mine, task, queued, wanted, sendDeaths>>

ArchiveChmod(p) ==
  /\ Step(p, "synced", "archived")
  /\ archive' = [archive EXCEPT ![mine[p].num].exec = TRUE]
  /\ UNCHANGED <<lockedBy, num, subs, mine, task, queued, wanted, sendDeaths>>

\* numwrite: numnew is written, fsynced and renamed to num.
NumWrite(p) ==
  /\ Step(p, "archived", "reading")
  /\ num' = mine[p].num
  /\ UNCHANGED <<lockedBy, archive, subs, mine, task, queued, wanted, sendDeaths>>

\* The files of subscribers, one after the other.
ReadFile(p) ==
  /\ at[p] = "reading" /\ mine[p].next <= LastFile
  /\ mine' = [mine EXCEPT ![p].next = @ + 1, ![p].rcpts = @ \union subs[mine[p].next]]
  /\ UNCHANGED <<lockedBy, num, archive, subs, at, task, queued, wanted, sendDeaths>>

Finished(p) == at[p] = "reading" /\ mine[p].next > LastFile

Accept(p, killed) == queued' = queued \union
  {[num |-> mine[p].num, msg |-> p, rcpts |-> mine[p].rcpts, subs |-> Members(subs),
    killed |-> killed]}

\* qmail_close: the message is queued, or it failed and the number is taken back:
\* also if qmail-queue was killed, which may be after the message was queued.
Close(p) ==
  /\ Finished(p)
  /\ Accept(p, FALSE)
  /\ at' = [at EXCEPT ![p] = "done"]
  /\ lockedBy' = "none"
  /\ UNCHANGED <<num, archive, subs, mine, task, wanted, sendDeaths>>

CloseFails(p) ==
  /\ Finished(p)
  /\ sendDeaths < MaxSendDeath /\ sendDeaths' = sendDeaths + 1
  /\ num' = mine[p].num - 1
  /\ at' = [at EXCEPT ![p] = "start"]
  /\ lockedBy' = "none"
  /\ UNCHANGED queued \/ Accept(p, TRUE)
  /\ UNCHANGED <<archive, subs, mine, task, wanted>>

\* The process dies or gives up (die_archive, die_nomem...); the lock goes with
\* it.  Its message may have been queued just before.
SendDies(p) ==
  /\ lockedBy = p
  /\ sendDeaths < MaxSendDeath /\ sendDeaths' = sendDeaths + 1
  /\ lockedBy' = "none"
  /\ at' = [at EXCEPT ![p] = "start"]
  /\ \/ UNCHANGED queued
     \/ p \in Post /\ Finished(p) /\ Accept(p, FALSE)
  /\ UNCHANGED <<num, archive, subs, mine, task, wanted>>

\* subscribe(): under the lock the file is copied with the change to Xn, synced
\* and renamed over X.
SubscribeLock(q, a, add) ==
  /\ Lock(q)
  /\ Step(q, "start", "locked")
  /\ task' = [task EXCEPT ![q] = [addr |-> a, add |-> add, new |-> {}]]
  /\ UNCHANGED <<num, archive, subs, mine, queued, wanted, sendDeaths>>

SubscribeCopy(q) ==
  LET a == task[q].addr
      old == subs[FileOf[a]]
  IN  /\ Step(q, "locked", "copied")
      /\ task' = [task EXCEPT ![q].new = IF task[q].add THEN old \union {a} ELSE old \ {a}]
      /\ UNCHANGED <<lockedBy, num, archive, subs, mine, queued, wanted, sendDeaths>>

SubscribeRename(q) ==
  LET a == task[q].addr
  IN  /\ Step(q, "copied", "done")
      /\ subs' = [subs EXCEPT ![FileOf[a]] = task[q].new]
      /\ wanted' = IF task[q].add THEN wanted \union {a} ELSE wanted \ {a}
      /\ lockedBy' = "none"
      /\ UNCHANGED <<num, archive, mine, task, queued, sendDeaths>>

EzmlmSendNext ==
  \/ \E p \in Post :
       \/ PostLock(p) \/ ArchiveOpen(p) \/ ArchiveSync(p) \/ ArchiveChmod(p)
       \/ NumWrite(p) \/ ReadFile(p)
       \/ Close(p) \/ CloseFails(p)
  \/ \E q \in Admin :
       \/ \E a \in Addr, add \in BOOLEAN : SubscribeLock(q, a, add)
       \/ SubscribeCopy(q) \/ SubscribeRename(q)
  \/ \E p \in Process : SendDies(p)

EzmlmSendSpec == EzmlmSendInit /\ [][EzmlmSendNext]_ezVars

(***************************************************************************)
(* Properties.                                                             *)
(***************************************************************************)
\* A number names one message, whichever posts failed, died or were repeated
\* around it, and num has passed it.  Only a qmail-queue killed after its last
\* link() breaks that: ezmlm-send takes back the number of a message that goes
\* out, and the next post gets the number, and the archive file, too.
NumberedOnce ==
  /\ \A s \in queued : s.num <= IF s.killed THEN num + 1 ELSE num
  /\ \A s, t \in queued : ~s.killed /\ ~t.killed /\ s.num = t.num => s.msg = t.msg

\* A message that went out, but for a number taken back like that, is in the
\* archive under its number, whole and with the mode that lets ezmlm-manage
\* give it out, and stays there.
Archived == \A s \in queued : ~s.killed =>
  archive[s.num] = [text |-> s.msg, whole |-> TRUE, exec |-> TRUE]

\* A post goes to the subscribers of one moment although it reads them file by
\* file, and no request for a change is lost to another.
OneMoment == \A s \in queued : s.rcpts = s.subs
NoChangeLost == Members(subs) = wanted

EzmlmSendSafe == NumberedOnce /\ Archived /\ OneMoment /\ NoChangeLost

\* ezmlm.5: "ezmlm-send turns on the owner-execute bit after safely writing the
\* message to disk", which ezmlm-manage relies on to give out a message.
ExecMeansWhole == \A n \in DOMAIN archive : archive[n].exec => archive[n].whole
=============================================================================
