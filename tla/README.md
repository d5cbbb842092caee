# Models and proofs for this qmail tree

This directory holds TLA+ specifications of the programs in `src/`, the TLC
configurations that check them on small instances, and proofs that TLAPS checks
for every instance. The repository is a collection: netqmail 1.06 with patches,
daemontools 0.76, ucspi-tcp 0.88, djbdns 1.05, ezmlm 0.53 and two releases of
ezmlm-idx, mess822 0.58 and some small tools. The mail queue of netqmail is its
centre and is modelled first; below, file names without a directory are those of
`src/src/netqmail-1.06/`.

## The system and its parts

### Modelled

| part | state it keeps | operations | talks to | modules |
|---|---|---|---|---|
| queue directory | `pid/`, `mess/`, `intd/`, `todo/`, `info/`, `local/`, `remote/`, `bounce/` | open, link, unlink, fsync, stat, readdir | is the shared state of the three programs below | QueueDir, QueueLife, QueueRefinement |
| `qmail-queue` | its place in `main`, `flagmademess`, `flagmadeintd`, the alarm | takes one message into the queue, or cleans up | directory, trigger | QueueDir, Trigger |
| `qmail-send`, files | the place in `todo_do`, `messdone`, `cleanup_do` | preprocess, route, eliminate, clean up | directory, qmail-clean | QueueDir |
| `qmail-send`, scheduling | `pqchan`, `pqdone`, `pqfail`, `pass`, `jo`, `d`, `comm_buf`, `flagspawnalive`, `flagexitasap` | passes, jobs, deliveries, bounces, exit | spawn programs over pipes | QmailSend |
| `qmail-send`, times | heap of retry times, clock | `nextretry`, `pqrun`, `prioq_*` | | Prioq, Schedule |
| `qmail-clean` | the request being carried out | `foop/`, `todo/`, `cleanuppid` | qmail-send over two pipes | QueueDir, QueueOrphan |
| `lock/trigger` | the named pipe | `triggerpull`, `trigger_set`, `trigger_pulled` | qmail-queue, qmail-send | Trigger |
| SMTP: `qmail-remote.c`, `qmail-smtpd.c`, `qmail.c` | `flagcritical`, `seenmail`, `flagbarf`, `bytestooverflow`, `flagerr`, the pipes of qmail-queue | one message from the greeting to the report | each other over a connection that may be cut, qmail-queue, qmail-rspawn | Smtp |
| `qmail-local.c` | the line of `.qmail`, `flagforwardonly`, recipients, exit; the mbox and its lock | one delivery, tried again | programs, qmail-queue, other deliveries | Local |
| `spawn.c` (qmail-lspawn, qmail-rspawn) | slot table `d[]`, children, their output, SIGCHLD | a command, a fork, a report | qmail-send, the delivering children | Spawn (and, from qmail-send's side, QmailSend) |
| a maildir | `tmp/`, `new/`, `cur/`, the alarm, the list of a session | a delivery of qmail-local, a session of qmail-pop3d, `maildir_clean` | users' programs | Maildir |
| `tcpto.c` | `queue/lock/tcpto`, its lock, each process's copy | `tcpto`, `tcpto_err`, two cleanings | all qmail-remote | Tcpto |
| `supervise.c` | `pid`, `flagexit`, `flagwant`, `flagwantup`, `selfpipe`, the fifo | commands of svc, SIGCHLD, forks | svc, the service | Supervise |
| `svscan.c` | the table `x[]` with pids and pipes, the scan | start a supervise for each directory and log, forget what has gone | `/service`, its children | Svscan |
| `multilog.c` | `current`, `previous`, `processed`, @-files and their modes, the buffer | write, rotate, restart, quit | the processor | Multilog |
| dnscache: `cache.c` | the ring, the hash chains | `cache_set`, `cache_get` | query.c | Cache |
| dnscache: `dns_transmit.c` | socket, id, current server, round, time-out | one question to a list of servers | servers, qmerge.c | Transmit |
| dnscache: `query.c` | level, names, aliases, `loop` | one client's question | qmerge.c, the cache | Query |
| dnscache: `qmerge.c`, main loop of `dnscache.c` | table of transmissions in use, clients | start, io, get, free | query.c, dns_transmit.c | Qmerge |
| `tcpserver.c` | `numchildren`, the signal mask | accept, fork, wait | clients, its children | Tcpserver |
| ezmlm: `ezmlm-send.c`, `subscribe.c` | `num`, archive, subscriber files, `lock` | post, subscribe, unsubscribe | qmail-queue | EzmlmSend |
| ezmlm: `ezmlm-return.c`, `ezmlm-warn.c` | `bounce/d`, `h`, `w` of an address | bounces, warnings, probes | the subscriber's mailer | EzmlmBounce |
| ezmlm-idx 7.0.2: `ezmlm-store.c`, `ezmlm-moderate.c`, `ezmlm-clean.c` | `mod/pending`, `mod/accepted`, `mod/rejected`, `mod/lock` | store, accept, reject, time out | moderators, ezmlm-send, each other | Moderate |
| ezmlm-idx 7.0.2: `ezmlm-manage.c` | subscribers, the cookies in mail, a text and its `_` file, `lock` | request, confirm, edit | subscribers, moderators, anyone | Manage |

What is hard about them: three kinds of process share a directory without a lock
and may die between any two system calls; the number of a message is an inode
number and is used again; cleanups are kept from live messages by age alone; the
files, the queues in memory and the jobs say the same thing in three ways and
have to agree after each failure; reports come back in any order, while the pass
that asked for them is still reading; and two processes synchronise over the
opening and closing of a pipe.

What makes each part correct:

* directory: a message number is in one of the five states of `INTERNALS`, moves
  between them only as described there, and no accepted message is lost, cut
  short, mixed with another one, or removed too early;
* scheduling: each recipient is DONE only when it was delivered to or is in a
  bounce; each message is in one queue or one job; no two deliveries to one
  recipient at once; no second delivery unless a report was lost; each message
  comes to its end;
* times: the heap yields the earliest message, the retry is in the future, the
  last attempt comes once and in bounded time;
* trigger: no sleep over a message whose trigger was pulled, and each message is
  found in the end;
* the loops (trigger, supervise, svscan, spawn, tcpserver, dnscache): nothing that
  happens between the look and the wait is missed, counters and tables
  follow the processes they stand for, and nobody waits for ever;
* mail on its way (SMTP, qmail-local): each side believes of the other only what is
  so, texts come through to the last byte, a delivery that says 0 has done every
  line, and what another delivery has written stays;
* the shared stores (tcpto, maildir, log, cache, lists): whoever dies, and
  whatever others do meanwhile, what was promised is still there, once.

### Not modelled

| part | why not |
|---|---|
| netqmail: `qmail-inject.c`, `token822.c`, `quote.c`, other header and address programs | sequential parsing, no state kept |
| `qmail-start.c` | its forks and pipes; that it does not supervise is in QueueDir and QueueOrphan |
| `rewrite()`, control files, SIGHUP in qmail-send | routing is a free choice in the models; rereading changes only that choice |
| the rest of `qmail-remote.c` and `qmail-smtpd.c` | choice among MX addresses, `addrmangle`, the syntax of addresses, `.cdb` look-ups: parsing and DNS data |
| the rest of `qmail-local.c`, `qmail-lspawn.c`, `qmail-rspawn.c` | the search for a `.qmail` file, extensions, `users/cdb`, setuid, wording of reports |
| daemontools: `readproctitle.c`, `svc.c`, `svok.c`, `svstat.c` and the small tools | they send one command or read one file |
| multilog: patterns, time stamps, `state`, retries of failed calls | data, or the same call again |
| djbdns: `tinydns.c` and the other servers, `dnsq*` tools | stateless answers from a constant database |
| ezmlm 0.53: `ezmlm-manage.c`, `ezmlm-reject.c` | the same cookies as in Manage, with fewer options; a filter |
| ezmlm-idx 7.0.2: `ezmlm-confirm.c`, the archive (`ezmlm-get`, `-archive`, `-idx`, `-cgi`), digests (`-tstdig`), `-split`, `-gate`, `ezmlm-make`, SQL back ends | mostly formatting of an archive that others have written; no shared state beyond what EzmlmSend and Moderate have |
| ezmlm-idx 5.1.2 | an earlier release of the same programs |
| mess822, qgreylist, qgrey, qtools, qmail-conf, `scripts/`, patches in `doc/` | filters, command line tools, configuration |

Most of the lines of the repository are in the last four rows of this table, in libraries that every package
repeats (`stralloc`, `substdio`, `alloc`), and in two releases of the same ezmlm-idx.

## Modules

**QueueDir** is the core. A step is one system call that changes a directory, or
one `fsync`. `pc[m]` is the place of the qmail-queue that brings message `m`,
`spc` that of qmail-send, `cpc` that of qmail-clean; `mess[i]`, `todo[i]` and so on
name the message whose data is in the file with number `i`. Keeping the *message*
in the file is what lets properties speak of reuse: a stale file under a
reused number is visible as a file of somebody else. `accepted`, `committed`,
`routed` and `finished` are history variables. A file written without `fsync`
counts as being on disk at once except for message text, envelope and
`todo_do`'s files, whose fsync is a step of its own; a crash of the machine is
then the death of all processes. `qmail-queue` may give up with `cleanup()` or die
without it at every step. `Delivered` stands for everything that QmailSend
does between taking a message out of `pqchan` and the removal of its
`local/` or `remote/` file, and `AddBounce` for a note written on the way. `todofd` is
`todo_do`'s open descriptor of `todo/`: what it writes to `info/` and the channel files is what
it has opened, also when the name has gone meanwhile.

**QueueLife** is the abstract specification: the five states of `INTERNALS`,
section 2, and the moves of sections 3 to 6. **QueueRefinement** maps the files of
QueueDir to it.

**QueueOrphan** drops one assumption of QueueDir, see the findings.

**QmailSend** is the inside of qmail-send: passes that read a file record by
record, jobs with use counts, slots, the command in `comm_buf`, reports in
flight, the mark in the file and the note in `bounce/`, the end of a message, the
orderly exit and the restart. The files of a message are abstracted to `stage`, its
records and its notes. A call of the main loop is one step unless a crash in its
middle would leave different files behind; then `spc` names the place. Retry
times are left out: whatever is in a queue may be due. When the write to qmail-clean, or the read of its answer, fails
under `todo_do` (TodoCleanDied), the message is in no queue although its files are there, until the
restart; `unclean` names it. `blind` names a message whose `stat()` failed while it was in `todo/` and `info/`.

**Schedule** has the times instead: `pqchan[c]` is the array of **Prioq**, which
translates `prioq_insert` and `prioq_delmin` hole by hole. A job ends with every recipient done, with some deferred, or
cut short: `job_close` does not ask for `flagdying`, so a `getln` error, an unknown record, a mangled report (CutShort)
or a failing `unlink` (UnlinkFails) puts a message off whose lifetime is over. Restarts are not in it, and `now()` is
taken to be `recent`.

**Trigger** has the system calls on `lock/trigger` on both sides, and `todo_do` as
far as its timing is concerned.

**Spawn** is `spawn.c` between qmail-send and the children: what select found is used
after commands have changed the slots, a child's output outlives it on a pipe, and the
handler runs only around select. It takes from QmailSend that a slot gets one command at a time.
Text is counted in bytes; `ReadInto` cuts it to `truncreport`, which is 3000 in qmail-lspawn and 0, no limit, in qmail-rspawn.
Once cut, one to three bytes of what follows may stay behind the notice before it is cut again; these are left out.

**Smtp** is one message over one connection. Both `blast()` functions go through a text byte by byte (`Stuff`, `Read`);
everything else is a process that reads, writes, waits, times out or is killed. `quit()` writes QUIT before it reports, and
when that fails `dropped()` reports instead; `temp_nomem()` may end each reading of a reply (NoMemory). **Local** is
the body of qmail-local: instructions in order, forwards last, and `mailfile()` among other
deliveries to the same mbox.

**Tcpto** is the table that all qmail-remote processes rewrite. **Maildir** has the child that
delivers, sessions of qmail-pop3d, and their common cleaning of `tmp/`. A file is named by its
time and pid; that a pid does not come twice in a second is assumed, and a file's access time
is taken to be that of its creation. **Supervise**, **Svscan**, **Multilog** and **Tcpserver** are one
program each; `announce()` may fail (its `status.new` cannot be opened, written or
renamed): it warns and returns, and the file keeps what it had (`Old`) until the next change. The death of supervise itself is left out of Supervise and is in Svscan, where a child is
all that svscan sees of it. Svscan knows a directory by its inode. A directory that is deleted for good while only its log's
supervise is left might see its inode given to another service, which would then get the old entry, log and pipe; Svscan assumes that this
does not happen, as with directories that are linked into `/service` and kept elsewhere.

**Transmit** is one question to a list of servers, **Query** a client's question with its levels,
**Qmerge** the table by which clients share transmissions, **Cache** the ring of bytes with its
chains, at the real offsets; the exclusive or of two offsets is a
function of their bits. They are apart because each is used by the next through a narrow
door: a transmission yields an answer or fails, a query ends or asks again.

**EzmlmSend** is a post with `num`, the archive and the subscriber files under `lock`; a `qmail_close` that fails may
leave the message queued (a qmail-queue killed after its last `link`), while the number is taken back;
**EzmlmBounce** the life of one address that bounces; **Moderate** a post that several moderators
answer while it times out; **Manage** the requests and cookies by which lists change, and the
edits of a list's texts.

**MCQueueDir**, **MCQmailSend** and **MCEzmlmSend** instantiate modules for TLC. **MCMail**,
**MCLoops** and **MCStores** instantiate several that share nothing: `part`, chosen at the start, says
whose behaviour it is, so that a run is the union of what the parts can do, and fairness is asked
for in its own part only.

**QueueDirProofs**, **QmailSendProofs**, **DnscacheProofs**, **LoopsProofs**, **MailProofs**, **SmtpProofs**,
**ScheduleProofs** and **EzmlmProofs** hold the theorems.

A definition marked as a mutation or mutant is not used; each is a plausible mistake in the
definition that follows it, and makes a property fail when put in its place.

## Runs

| run | asks | instance and bounds |
|---|---|---|
| queue_safety | five states, owner, numbering, durability, no loss, no redelivery, meaning of the queues, memory, cleanup, refinement | 1 number, 2 messages, both channels, 2 failures; DEATH 1, OSSIFIED 2 |
| queue_live | queued messages end, leftovers go | 1 number, 1 message, both channels, 2 failures |
| queue_orphan | is an accepted message ever lost, when an old qmail-clean is late? (yes) | 1 number, 2 messages, 1 failure |
| mail | heap and retry times; SMTP; qmail-local | see below |
| send_conc | use counts, one delivery at a time, no second one, nobody forgotten, removal | 1 channel, 3 recipients, 2 slots, 2 failures |
| send_live | one place for a message, each ends | both channels, 1 recipient and slot each, 2 failures, failing `stat` at start |
| send_hold | does the other channel go on? (no) | concurrencylocal 0, concurrencyremote 1 |
| send_pqfail | is `pqchan` as its comment says? (no) | 1 recipient, 2 failures |
| loops | nothing missed, counters right, everyone answered | see below |
| stores | what was promised is there, once | see below |
| supervise_fork | does a wanted service come up again? (no) | 1 command, failing `fork` |
| ezmlm_exec | is an executable archive file whole? (no) | 2 posts, 3 addresses, 1 death |

| part of a run | properties | instance and bounds |
|---|---|---|
| mail: Schedule | HeapRight, OnceMore, NotAtOnce | 4 messages, 1 job, lifetime 2, clock to 5, 1 message at a time put off after its lifetime |
| mail: Smtp | SmtpSafe | every text of up to 3 bytes, 2 recipients, one refused, limit 2 |
| mail: Local | LocalSafe | 2 deliveries, 5 `.qmail` files, 2 writes per message, 2 tries, 1 death |
| loops: Trigger | NoMissedWakeup, WaitEnds | 2 messages, 2 failures |
| loops: Supervise | SuperviseSafe, WaitEnds | 1 command in the fifo at a time, 2 pids |
| loops: Svscan | SvscanSafe, WaitEnds | 2 directories, one with a log, 2 entries, 1 failure |
| loops: Spawn | SpawnSafe, WaitEnds | 2 slots, 2 deliveries that write up to 1 and 2 bytes, truncreport 1 |
| loops: Tcpserver | CountTrue, WaitEnds | 4 clients, limit 2 |
| loops: Transmit | TransmitSafe, WaitEnds | 2 servers of each of 7 kinds |
| loops: Query | QuerySafe, WaitEnds | 3 levels, 2 name servers, loop to 8 |
| stores: Tcpto | TcptoSafe | 2 processes, 2 addresses, 2 records |
| stores: Maildir | MaildirSafe | 1 delivery, 2 sessions, 1 crash |
| stores: Multilog | MultilogSafe | 3 bytes a file, 2 files, 4 bytes, 1 death |
| stores: Cache | CacheSafe | 3 keys, two of one chain, two sizes, 128 bytes, depth 1 |
| stores: Qmerge | QmergeSafe | 3 clients, 2 questions |
| stores: EzmlmSend | EzmlmSendSafe | 2 posts, 2 requests, 3 addresses in 2 files, 1 death or failure |
| stores: EzmlmBounce | TwentyDays | 1 address, ages to 30 days, 1 death |
| stores: Moderate | ModerateSafe | 1 post, 2 answers, 2 file names, 2 failures |
| stores: Manage | ManageSafe | 2 people, one a moderator, list and digest, 3 sets of options, 2 cookies, 3 dates; 2 editors, 3 texts, 1 death |

Why the bounds are enough. *Numbers and messages:* an action of QueueDir touches
the files of one number only, and numbers interact through nothing but the
single working place of qmail-send and qmail-clean; what matters is that
messages *share* a number, one after the other or (if something is wrong)
at once, so two messages compete for one number; that more numbers change nothing is
part of what QueueDirProofs shows. *Failures:* each hazard
is about what one or two failures leave behind for the recovery; two
allow a failure during the recovery from the first. Deaths of qmail-queue are not
counted, so they are unbounded. *Times:* only the order of DEATH, Slack and OSSIFIED
matters. *Recipients:* three records and two slots give a pass that ends before,
between and after the reports, and a record behind one that was deferred.
*Heap:* four elements have every shape of the sinking hole: no child, one child,
two children, the last element being the right one. *Square root:* ages up to
5 use each of its two bits, though not both at once; ScheduleProofs has the rest. *Texts:* the automata of `blast()` look
back at most three bytes, and a text of three between what the protocol adds passes through each
state. *Reports:* the second child can write one byte more than the
limit, in one read or in two; the first stays below it. *Ring:* 128 bytes hold two or three entries, so that each eviction, wrap-around and
chain of two occurs. *Shared transmissions:* three clients and two questions give a client that joins,
one that is dropped while another holds its entry, and a table that is full.
*Cookies:* two suffice for a confirmed request beside a stale or a foreign one.

Deadlock checking is off in send_hold, where the system really stops, and in mail, loops, stores,
supervise_fork and ezmlm_exec, whose parts end (a message is delivered, a question answered, the bounded
commands used up).

## Fairness

*QueueDir:* weak fairness for each step of qmail-send and qmail-clean that the
program takes without waiting (they are sequential programs on one machine),
for the start of a new qmail-send and for the clock; strong fairness for those
that the main loop comes back to (an entry of `todo/`, of `pqdone`, of the
cleanup list, the end of a delivery), since the loop
calls each duty in turn while other duties make it busy again and again. The end
of a delivery is fair because `flagdying` makes the last deferral a failure. A
qmail-queue is never assumed to go on; only its alarm is.
*QmailSend:* weak fairness for the parts of the main loop, for the spawn
programs' answers and for the end of the lifetime. Failures, signals and crashes have none.
*Trigger:* weak fairness for qmail-send and its clock, and for a qmail-queue
that has opened the pipe and was not killed.
*Supervise:* weak fairness for supervise and the handler, and for the end of a service that has got SIGTERM
and is not stopped; nobody has to send a command, and the time-out of an hour is not assumed.
*Svscan:* weak fairness for svscan's own loop; directories, deaths and failures have none.
*Spawn:* weak fairness for spawn, its handler and qmail-send's reading, and for the end of each
child and of its hold on the pipe (qmail-local and qmail-remote have time-outs).
*Tcpserver:* weak fairness for the loop, signals and ends of children; strong fairness for the accept of each
waiting client, since the kernel's queue is first come, first served.
*Transmit:* weak fairness for the deadline, which `dns_transmit_io` sets for iopause; answers have none.
*Query:* weak fairness for its steps, since a transmission ends (QuestionEnds).

## Proofs

The theorems hold for every value of the constants that the named assumptions
allow; `tlapm` checks each down to the last leaf.

**QueueDirProofs** proves of QueueDir, for any number of messages, inode numbers,
channels and failures: TypeOK, OneOwner, QueueStates, FreshNumber, QueuedIntact,
NoLoss, NoRedelivery and PqMeaning as invariants, and the action property
CleanupSafe. It assumes `NoneAssumption` (None is no number and no message) and
`TimeAssumption`, whose one condition is that qmail-queue is dead before its files are
old enough for qmail-send's cleanup, `DEATH + Slack < OSSIFIED`.

None of these properties is inductive as it stands, so the proof goes through
`IInv`, with one named part for each thing an argument about the code would use:

| part | says | needed because |
|---|---|---|
| Numbers | a `pid/` or `mess/` file has the number of its message; two live qmail-queues have different numbers | else an `unlink` by name could hit a file of somebody else |
| Places | which files a live qmail-queue has at each line of `main` | FreshNumber, and the safety of its cleanup |
| OneOwner | the files of a number belong to the message in `mess/` | what the other parts say of a number is about one message |
| Queued | on disk before `todo/`; nobody else has `info/`, `local/`, `remote/`, `bounce/` | QueuedIntact; a live qmail-queue's number is of no interest to qmail-send |
| Ages | the file of a live qmail-queue is no older than its alarm | with TimeAssumption: cleanup finds only files of dead processes |
| Shape | without `todo/`, no `info/` means no `local/`, `remote/`, `bounce/`; `info/` means no `intd/` | QueueStates; `info/` may decide alone what cleanup removes |
| Ledger | what the files of a queued message, or their absence, say about its recipients | NoLoss, NoRedelivery, CleanupSafe |
| SendAt | what qmail-send has established about the number it works on | the system calls it makes in sequence rely on the earlier ones |
| CleanAt | what a request in the pipe relies on until qmail-clean has carried it out, even after qmail-send has died | the request outlives the test that led to it |
| PqMeaning | `pqchan` and `pqdone` mean what their comments say | `Delivered` and `messdone` start from there |

`Frame` says which variables a part is about, so that a step need not mention
the parts it leaves alone. There is one lemma per program (QueueStep, CleanStep,
TickStep) and, for qmail-send, one per duty of its main loop (RestartStep, TodoStep,
DoneStep, CleanupStep), with one step per action and under it one per part the
action can disturb. `Invariance` puts them together; each property then follows
from `IInv` in a few lines.

Its second half proves that QueueDir implements QueueLife (ImplementsLife): the
initial states correspond, and each step maps to one move for one number or to a stutter.
There is a lemma for each system call that moves a number from one state to another;
`TodoLife` says that nothing `todo_do` does below `todo/` counts, and `NoMove` covers the rest.
It also proves Remembered. Its strengthening `Recall` also says where a
message is during `pqstart` (still in `unscanned`) and that an answer `!` to a `todo/` request
means that `todo/` is still there.

**QmailSendProofs** proves of QmailSend, for any number of messages, channels, recipients, slots, jobs and failures:
TypeOK, OneDelivery, TwiceOnlyExcused, Accounted and OnePlace as invariants, and the action property RemovedWhenDone.
It assumes `ConstAssumption` (no channel has more slots than there are jobs) and `~PqAddFails`, that no `stat()` of `pqadd`
fails: send_pqfail shows two entries for one message where it does. OnePlace excuses the message that qmail-clean was lost
with; `Astray` says of it that it is in no queue and no job, and that qmail-send is on its way out. The argument is that the four records qmail-send keeps of
a delivery, the letter in the file, the slot, the use counts of the job and the report on its way, agree at every step.
`IInv` has a part for each agreement:

| part | says | needed because |
|---|---|---|
| Types | functions and records all the way down; `pqfail` is empty | every step replaces one field of one record |
| JobRefs | `refs` is the number of slots and passes that name the job | `job_close` acts when the count gets to 0 |
| Live | a slot and a pass name an open job of their channel, whose file is there; the pass is ahead of the slots of its job | a report marks the right record, and a record is given to one slot |
| Files | a file is as long as it was written, and is there only for a preprocessed message | records outside the file do not exist |
| Distinct | two slots of a channel are not about the same record | OneDelivery |
| Placed | a file is in `pqchan` once or has one open job | OnePlace; a second job would deliver to the same recipients |
| OneStage | a slot's delivery is in one place: its command, the spawn program, its report, or the hands of `del_dochan` | one report for each delivery |
| Marks | the record of a slot whose report is not dealt with is `T` | nobody is delivered to after a mark |
| Counted | `numtodo` is at least the number of `T` records that have a slot or were read, but for those that were delivered or noted and whose mark failed | RemovedWhenDone: the count does not get to 0 before the work is done |
| Received | who has got the message has a mark, or a report on its way, or is excused | TwiceOnlyExcused |
| Reported | a success on its way was a delivery, and a failure has its note before the mark | Accounted |
| Ending | a message without files waits for `messdone` or is in it | OnePlace |

There is one lemma per action. The three callers of `job_close`, the end of a file, a read that fails and the end of a
delivery, share JobCloseFacts, what it does to the job and the file, and ReleaseOK, which gives up one reference
to a job and keeps `IInv`.

The TypeOK of QueueDir, Trigger and QmailSend are no run's property: they are lemmas of the proofs.

**DnscacheProofs** proves the safety of dnscache part by part. QuerySafe, for any depth, table sizes and cap of `loop`: the strengthening `Budget`
counts what `loop` has already been charged for: the questions sent, the levels at work, and one more while a
list of servers is ready to be asked. A level costs a new name, and leaving it gives its charge to the question
below; this is why failed transmissions and lame servers, which charge nothing, cannot outrun `loop`.
TransmitSafe, for any number of servers and whatever each does: the tries of a question are numbered, and the
strengthening `Behind` says that each try behind, at a server that works, has had its time-out counted (`BehindUdp` by
round and server, `BehindTcp` by server); `Where` bounds the try by the step, so that a question that gives up has
all the tries behind it. QmergeSafe, for any number of clients and any set of questions: an entry that needs a get has
been polled for a live client whose turn to look is still to come (`Moving`), and a place that is free holds nothing until a
client has been dropped (`Quiet`). That there is room for one more query (RoomForOne) is a counting argument: there are as
many entries as places, and the client that asks has let go of its own.

CacheSafe, for any size of the cache, any keys, hashes, values and lifetimes, and any depth: `Ring` is the picture at the top
of `cache.c` with the places of the entries; `Chain` gives the entries of a bucket as a sequence, newest first, in
which each link is the exclusive or of its neighbours; `Newest` says that the newest entry with a key is what
was stored last for it. All three are about any memory, because they hold in the middle of `cache_set` too: after
the writer's turn (TurnOK), after each eviction (EvictOK: the oldest entry is the last of its chain, so its link is
the position before it) and after the new entry is in (LinkOK). The loop ends because each turn leaves one entry
less (MakeRoomOK), and it leaves room unless the entry is larger than the ring (CacheMakesRoom). `WalkChain` then follows the
chain as `cache_get` does. A link leads on because `^` is associative and its own inverse (XorLaws). Those
laws, and that the table takes at most a sixteenth of the memory (HsizeIs), are facts about recursive functions; TurnsExist and Induct prove
them by induction over a set of naturals, which the well-foundedness of `<` gives.

**LoopsProofs** proves SuperviseSafe for any process ids and any commands, whether or not `fork` fails.
That the status file is true excepts an `announce()` that failed, which nothing repeats. SuperviseSafe speaks of the moments when supervise waits; `Signalled`, `Told` and `Reason` say the same of every
place between two system calls (a death has its SIGCHLD pending or its byte in `selfpipe`), and `Unstarted` that
nothing was started before the boot.
It also proves SvscanSafe of Svscan, for any directories, any size of the table and any number of failed calls. SvscanSafe is
about the children; the strengthening ties them to the table: `Entered` (each child is in the entry of its directory,
by number and pipe), `OneEntry`, `OnePid`, and `NoneGone` (no number in the table is that of a process already waited for, so
that a 0 means that there is no child).

CountTrue of Tcpserver holds for any number of clients and any limit. `Room` says that the loop accepts and
forks below the limit only: signals may lower the count in between, nothing raises it.

NoMissedWakeup of Trigger, with its TypeOK, holds for any number of messages and failures and with or
without `HASNAMEDPIPEBUG1` (TriggerAssumption). The strengthening is `Heard`: from `opendir` on, a message that was
pulled for is still to be read or has left its byte in the pipe.

MultilogSafe holds for any size and number of files, any text and any number of deaths. MultilogAssumption asks
for enough inodes, two more than the @-files that `Num` and the deaths can leave, so that a new file always finds one; `MlFew`
counts the @-files. `MlNames` says that no file has two of the names `current`, `previous` and `processed`, or two
@-names; a file with an @-name beside one of the three is the newest @-file, left by a death inside `finish()`. `MlKept` says
what is on disk: `previous`, `processed` once it has its mode, an @-file that ends in `s`, a `current` of mode 0744. `MlRun`
relates `current` to the buffer and to `bytes` while multilog reads, and `MlRotate` and `MlFinish` say at which step of
`fullcurrent()` which names are there, and of which file `finish()` is called in each of its five places.

**MailProofs** proves the safety of four programs that a delivery runs through.

* SpawnSafe, for any number of slots, deliveries and bytes. A delivery has its command in the pipe, a slot in `d`, or a
  report: `Commands`, `Slots` and `Reports` say of each which of the other two are excluded and what qmail-send waits for
  meanwhile. `Slots` also counts the bytes: what was read and what is in the pipe is what the child wrote, unless the slot is `cut`; then
  more than `truncreport` bytes were written and what is kept is the same for any number of them (`Retained`, `Whole`). `Readable` says
  that `select()` stays right until `spawn` acts on it; that an end of file is read only when the child
  has exited and everybody has let go of the pipe is what makes the report complete.
* TcptoSafe, for any number of processes, addresses and records, and any hold times. While a qmail-remote has the lock, its copy in
  `tcpto_buf` is still right for its address, because the table is as it was read or has been zeroed by
  `tcpto_clean`, which takes no lock (`HeldCopy`); `Backed` ties the count and the time in a record to time-outs that
  happened, and `Single` that an address has one record.
* MaildirSafe, for any number of messages, sessions and crashes, if the alarm comes before a file in `tmp/` is old
  (MaildirAssumption, `Alarm < OldFile`). `InTime` says so of each live delivery, `Files` where its file is at each step, and
  `Scans` where the messages are that a session has still to list: in `cur/` or on the list once `new/` has been read, since
  other sessions move files from `new/` to `cur/` and never back.
* LocalSafe, for any number of deliveries, lines and pieces. `ControlOK` ties the counts and flags of `main` to the
  lines it has been through: `did` is all lines before `line`, which is why 0 means that the file was finished; `recips` is
  not 0 after a forward; `forwardonly` and `xbit` are what the lines so far made them. Of the mbox, `LockHeld`
  says who has the lock, `WritingOK` that what a delivery has written lies behind the place where it found the end, and
  `HolderAlone` that with a lock nothing else does, so that cutting the file back to that place loses nobody else's
  message. `WholeMessages` is NoScraps with the length at which the holder began: the message it completes then
  fits on a boundary.

**SmtpProofs** proves SmtpSafe, for any texts, any recipients and any limit; SmtpAssumption says only that there is a
recipient and that texts are sequences of the four kinds of bytes. It has two halves.

* RoundTrip is about the two `blast()` functions alone: what qmail-smtpd takes is what qmail-remote was given, and no
  proper part of what was sent ends a message. What each function computes along a text is a function of positions
  (`Goes`); that both agree for every text is an induction on its length (`EchoedAll`), whose step is the table of what one byte
  does in the sender (`Stuffing`) and in each state of the receiver (`ReadOne`). `Echoed` carries the state
  through: 1 after a newline, 0 or 4 within a line. The induction is over a set of numbers (`Induct`), which the
  provers can do.
* `SmtpInv` is about the conversation. Its claim has two exceptions, both deferrals without "Possible duplicate!" of a message that was
  queued: a qmail-queue or qmail-smtpd killed just after it, and, when the 250 has come and `flagcritical` is cleared, a QUIT that cannot be
  written or memory that runs out (`heard`). There is one message at a time and none before the last is answered (`SentOK`,
  `RepliesOK`), so the state of one side bounds that of the other; `Meaning` says what the next reply will tell
  qmail-remote, `Before` that nothing is queued until the text was sent, `OutOK` what the letters written so far say of the first
  recipient, `QueueOK` which exit codes of qmail-queue go with a message in `todo/`. `NoMore` is why a failure is final: no
  text that ends is on its way, and qmail-queue does not have it all. Only after a refused recipient may qmail-remote
  report failure with a text still on its way; it is then for the others.

**ScheduleProofs** proves HeapRight, OnceMore and NotAtOnce, for any messages, a heap of any size, any lifetime, chanskip and
number of bits; ScheduleAssumption says that the clock stays below 4^(HighBit + 1), where `squareroot` is right. It has three
layers.

* What the recursive functions compute, `prioq_insert`, `prioq_delmin`, `squareroot` and the shift `shl`. Each is proved in two
  steps: a function that satisfies the equations exists, built up from its last value (RaisedExists, SunkExists, RootedExists,
  ShlIs), so the one that CHOOSE takes satisfies them too; and a value is right if the one it calls is (RiseOK, SinkOK, BitPart).
  Both are inductions over a set of numbers (`Induct`). RiseOK and SinkOK carry a hole down or up the heap: the entries outside
  it are in order, and those below it are not due before those above it. BitPart carries the square of the bits found so far.
* `SchedInv`: the array is a heap, and each message is in it or in a job once from its arrival to its end (InsertOK and
  DelminOK count the occurrences).
* `OnceInv`: what waits is not late, unless a fault cut its last attempt short (`spoilt`), and is due by the last try after the lifetime (`Last`) or within `SLEEP_SYSFAIL` (`Calm`);
  a job that is not dying has its next retry by then; and no message is born after `recent` unless the clock was set back.
  NotAtOnce is a fact about one step: the next try of a message lies after `recent` because the root grows with the age.

**EzmlmProofs** proves the safety of the mailing lists.

* EzmlmSendSafe, for any posts, subscribers and deaths. A message whose qmail-queue was killed (`killed`) keeps a number that was
  taken back, at most one above `num`; all others are numbered once. `OneHolder` says that who is in the middle of something has the lock;
  `NumberingOf` and `ChangingOf` what its holder has done so far; `Hashed` that an address is in the file it hashes to
  only, so that the files read one by one add up to the list of one moment. `ByHolder` reduces each step to what it does for its own process.
* TwentyDays, for any number of deaths: a warning and a `w` are ten days younger than the first bounce, a
  probe twenty (`Since`). None of the four sets of ages is compared with another, so deaths and resubscriptions, which leave
  files of several ages behind, do not matter.
* ModerateSafe, for any posts, answers, deaths and failures. That a post is sent, rejected or returned once needs a count of what may
  still happen to it: `Bounded` adds to what has happened to a name one for a file that nobody is about to
  remove (`Left`) and one for an ezmlm-send that outlived its ezmlm-moderate (`Orphaned`), and to the two names of a post one for an
  ezmlm-store that will be run again (`Again`); the sum is at most 1, and a failure adds 1. The other parts are
  what each program knows while it holds `mod/lock` (`StoreOK`, `ClickOK`, `CleanOK`), that names are given out in order (`Names`), and
  what a stub tells (`StubsOK`).
* ManageSafe, for any people, options, texts and lifetimes of cookies. `CookieOK` says for each kind of cookie whom it was mailed to, and who had
  agreed by then: this is why a change needs to look at its last cookie only. Consent is never taken back (`StillSaid`), so
  neither repetition nor delay of a request matters. Where removal is moderated a moderator's cookie is needed for a moderator who leaves, too. `EditingOK` says that what an editor replaces under the lock is what he saw.

The assumptions on names (`ModerateAssumption`, `EzmlmSendAssumption`, `ManageAssumption`) only say that no process is
called like a value that means "nobody", and that the names ezmlm-store makes, which start with the time and the process id, can be ordered.

Only model-checked: QueueOrphan and the other four properties of the runs that fail; and OnePlace where
`stat()` may fail (send_live), for the messages that are not in `blind`.
Out of the prover's reach: the properties under fairness (QueuedEnds, LeftoversGo, EachEnds, WaitEnds with its
parts FoundInTime, Answered, DownObeyed, Supervised, Taken, QuestionEnds and QueryEnds), which need ENABLED.

## Findings

* *queue_orphan* (`qmail-send.c:1542`, `BLURB:10`): `lock/sendmutex` goes with a
  killed qmail-send, but the request in the pipe to its qmail-clean does not. The run has a `foop/` request for a leftover:
  the next qmail-send finds the same leftover and has it removed, a new message gets the number and is queued, and the old
  qmail-clean then removes its `mess/` file. One kill is enough. A `todo/` request does less: the next
  `todo_do` has `todo/` open already and writes `info/` and the channel files all the same, so that it takes one more failure,
  of that `todo_do` before `info/` is written, to leave the message in S2, to be deleted after 36 hours.
  QueueDir assumes that the old qmail-clean has read its pipe to the end before the next qmail-send starts.
* *send_hold* (`qmail-send.c:1068`): a pass takes a job before it knows of a free slot.
  With one concurrency 0 and the other 1 there is one job, and the held channel keeps it.
* *send_pqfail* (`qmail-send.c:433`): a `stat()` failure in `pqadd` for a message with
  both `todo/` and `info/` makes a second entry for it in `pqchan`.

* *supervise_fork* (`supervise.c:94`): after a failed `fork()` supervise sleeps, pulls its own trigger and goes
  round its loop, in which nothing starts a service that is already known to be down.
* *ezmlm_exec* (`ezmlm-send.c:220`): `open_trunc()` keeps the mode of an archive file that a post left executable
  before it died, and the next post fills that file in the reader's sight.

Two more disagreements of code and documents are in what a passing property has to say:

* ManageSafe (`ezmlm-manage.c:847-849`): a comment says that unsubscription is moderated "unless the target == sender == a
  moderator"; the branch has no such exception, and LeaveAgreed asks for a moderator's cookie for that moderator too.
* EzmlmSendSafe (`ezmlm-send.c:315`, `ezmlm.5:74-77`): messages are "numbered from 1 upwards", but the number of a message
  that a killed qmail-queue had queued is given to the next post, with its archive file. NumberedOnce and Archived except it
  (`killed`), and fail without the exception.

Other things the models show, without a run of their own:

* qmail-send(8) says that after `queuelifetime` qmail-send "will try the message once more". Each fault in such an attempt, a read error in the
  channel file, a mangled report, an `unlink` that fails, puts it off to one more (OnceMore excepts it by `spoilt`).
* After a 250 for its text, qmail-remote defers without "Possible duplicate!" if QUIT cannot be written, since `flagcritical` has been cleared
  (VerdictTrue excepts it by `heard`); the message is then delivered twice without a word.
* A failed `announce()` leaves svstat with an old state until the service or a command changes it again.
* A failing write to qmail-clean, or a missing answer, under `todo_do` leaves the message in no queue; qmail-send ends its deliveries,
  exits, and finds it when it is started again.
* `trigger_set()` comes before `opendir()`, so an `opendir()` that fails has thrown the pull away, and the message waits
  for `SLEEP_TODO`, up to 25 minutes. NoMissedWakeup excludes it by name (`unread`).
* A merged transmission walks the list of servers in the query that started it. When the tables are full and that
  client is dropped, the others' transmission goes on over a list that a new query may fill (ServersStay excludes
  it by `dropped`). A lame answer zeroes an address in the starter's list only; another query may rejoin the same
  entry until `loop` ends it.
* ezmlm-warn unlinks a file of more than 35 days and then dies on opening it, to go on in its next run. An address
  that leaves while it has `d` and `h` leaves `h` behind; when it comes back, its bounces are added to `h` but
  start no `d`, and it is never warned.
* After a crash between `numwrite()` and the end of the queueing of a post, `num` is ahead by one.
* `maildir2mbox` takes the lock of an mbox whose inode its `rename` then replaces.
* ezmlm-store's retry leaves an orphan in `mod/pending`, which is later returned as timed out; when the notice of a timed-out post
  cannot be queued, ezmlm-clean stops there, and all that is behind it waits for it.
* When the answer to a moderator's request cannot be queued after the subscriber has been added, the repeated request
  finds nothing to do, and the new subscriber is never told; a repeated edit fails because its cookie
  is over a text that is no longer there.
* ezmlm-confirm locks `mod/confirmlock` and ezmlm-clean `mod/lock`; they share `mod/unconfirmed`, which neither
  Moderate nor Manage has.

## Plan

1. QueueDir, QueueLife, QmailSend, Trigger, Prioq and Schedule with their runs: done.
2. Proofs about QueueDir, QmailSend, Trigger, Query, Transmit, Qmerge, Supervise, Svscan, Tcpserver, Multilog, Spawn, Tcpto, Maildir,
   Schedule, Smtp, Local, Cache, EzmlmSend, EzmlmBounce, Moderate and Manage: done.
3. Spawn, Maildir, Multilog, Supervise, Tcpto, Cache, Transmit, Query, Qmerge, Tcpserver, EzmlmSend, EzmlmBounce, Smtp,
   Local, Moderate, Manage, Svscan: done.
4. Lost writes: a variant of QueueDir in which files without `fsync` may come back shorter
   after a crash of the machine.
5. ezmlm-confirm beside ezmlm-clean; TCP clients of dnscache.
6. Further proofs: OnePlace where `stat()` may fail.
