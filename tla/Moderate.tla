------------------------------ MODULE Moderate ------------------------------
(***************************************************************************)
(* A moderated list (ezmlm-idx-7.0.2): ezmlm-store keeps a post in         *)
(* mod/pending and mails the moderators how to accept or reject it,        *)
(* ezmlm-moderate does what one of them asked for and leaves a stub in     *)
(* mod/accepted or mod/rejected, ezmlm-clean gives back what nobody        *)
(* answered in time.  They share mod/lock.  Every one of them may die at   *)
(* any doing and is then run again by qmail; requests may be repeated.      *)
(***************************************************************************)
EXTENDS Integers, FiniteSets

CONSTANTS
  Store, Click,  \* posts, and the answers of moderators: deliveries to a program
  Cleaner,         \* the process ezmlm-clean
  Base,          \* bound: names of files, time.pid, each given out once
  MaxModFault    \* bound: deaths of processes, failures of qmail-queue and calls

ASSUME ModerateAssumption ==
  /\ Store \intersect Click = {} /\ Cleaner \notin Store \union Click
  /\ {"none", "nobody", "ezmlm-send"} \intersect (Store \union Click \union {Cleaner}) = {}
  /\ Base \subseteq Nat /\ MaxModFault \in Nat

VARIABLES
  modLock,    \* who holds mod/lock, or "none"
  pending,    \* [Base -> "none", "partly", "synced" or "exec"]: mod/pending
  stubs,      \* [Base -> SUBSET {"accept", "reject"}]: mod/accepted, mod/rejected
  overdue,    \* the names older than modtime
  returning,  \* flagreturn: are posts that timed out returned to their authors?
  doing,      \* [Store \union Click \union {Cleaner} -> what it does next]
  postOf,     \* [Base -> Store or Nobody]: the post stored under a name
  ask,        \* [Click -> [base, act]]
  seen,       \* the files ezmlm-clean has passed in mod/pending
  offered,    \* history: the names in requests queued for the moderators
  fate,       \* history: [Base -> [accept, reject, timeout]]: how often it got each
  told,       \* history: [Click -> the answer the moderator got, or "none"]
  orphan,     \* the post ezmlm-send still works on, {} or {b}: its parent has died
  modFaults

files == <<pending, stubs, postOf>>
answers == <<ask, told>>
fixed == <<overdue, returning>>
past == <<offered, fate>>
modVars == <<modLock, doing, seen, orphan, modFaults, files, answers, fixed, past>>

Nobody == "nobody"
Act == {"accept", "reject"}

ModerateInit ==
  /\ modLock = "none" /\ overdue = {} /\ returning \in BOOLEAN
  /\ pending = [b \in Base |-> "none"] /\ stubs = [b \in Base |-> {}]
  /\ doing = [p \in Store \union Click \union {Cleaner} |-> "start"]
  /\ postOf = [b \in Base |-> Nobody]
  /\ ask = [c \in Click |-> [base |-> CHOOSE b \in Base : TRUE, act |-> "accept"]]
  /\ seen = {} /\ offered = {} /\ modFaults = 0
  /\ fate = [b \in Base |-> [a \in Act \union {"timeout"} |-> 0]]
  /\ told = [c \in Click |-> "none"] /\ orphan = {}

Goes(p, from, to) == doing[p] = from /\ doing' = [doing EXCEPT ![p] = to]
Fault == modFaults < MaxModFault /\ modFaults' = modFaults + 1

\* lockfile("mod/lock"); the mutant goes on without it.
TakeLockNot(p) == modLock' = p
TakeLock(p) == modLock = "none" /\ modLock' = p
Unlock == modLock' = "none"

\* ezmlm-store takes the lock and opens a file no one has, without the x bit.
StoreOpen(s, b) ==
  /\ Goes(s, "start", "copying") /\ TakeLock(s)
  /\ postOf[b] = Nobody /\ \A c \in Base : c < b => postOf[c] # Nobody
  /\ postOf' = [postOf EXCEPT ![b] = s] /\ pending' = [pending EXCEPT ![b] = "partly"]
  /\ UNCHANGED <<orphan, stubs, seen, modFaults, answers, fixed, past>>

\* The file of this run of ezmlm-store: the last it opened.
Mine(s, b) == modLock = s /\ postOf[b] = s /\ \A c \in Base : postOf[c] = s => c <= b

\* The post was copied to the end and is on the disk; or a header of a list in
\* it (ERR_LOOPING, ERR_MAILING_LIST): the file goes and the author hears of it.
StoreSync(s, b) ==
  /\ Mine(s, b) /\ Goes(s, "copying", "synced")
  /\ pending' = [pending EXCEPT ![b] = "synced"]
  /\ UNCHANGED <<orphan, modLock, stubs, postOf, seen, modFaults, answers, fixed,
                 past>>

StoreRefuse(s, b) ==
  /\ Mine(s, b) /\ Goes(s, "copying", "refused") /\ Unlock
  /\ pending' = [pending EXCEPT ![b] = "none"]
  /\ UNCHANGED <<orphan, stubs, postOf, seen, modFaults, answers, fixed, past>>

StoreChmod(s, b) ==
  /\ Mine(s, b) /\ Goes(s, "synced", "mailing")
  /\ pending' = [pending EXCEPT ![b] = "exec"]
  /\ UNCHANGED <<orphan, modLock, stubs, postOf, seen, modFaults, answers, fixed,
                 past>>

\* close(fdlock) and qmail_close; qmail-queue, forked with the lock, keeps it
\* until it ends.
StoreMail(s, b) ==
  /\ Mine(s, b) /\ Goes(s, "mailing", "stored") /\ Unlock
  /\ offered' = offered \union {b}
  /\ UNCHANGED <<orphan, seen, fate, modFaults, files, answers, fixed>>

\* A process dies or gives up with 111, whatever it has done stays done.
Dies(p) ==
  /\ modLock = p /\ Fault /\ Unlock
  /\ doing' = [doing EXCEPT ![p] = "start"]
  /\ seen' = IF p = Cleaner THEN {} ELSE seen
  /\ \/ UNCHANGED past
     \* Just after qmail-queue had taken its message.
     \/ /\ p \in Store /\ doing[p] = "mailing"
        /\ offered' = offered \union {b \in Base : Mine(p, b)}
        /\ UNCHANGED fate
     \/ /\ p \in Click /\ doing[p] \in {"accepting", "rejecting"}
        /\ fate' = [fate EXCEPT ![ask[p].base][ask[p].act] = @ + 1]
        /\ UNCHANGED offered
  /\ UNCHANGED <<orphan, files, answers, fixed>>

\* ezmlm-moderate dies while ezmlm-send runs, which goes on, with the lock.
OrphanSend(c) ==
  /\ modLock = c /\ Goes(c, "accepting", "start") /\ Fault
  /\ modLock' = "ezmlm-send" /\ orphan' = {ask[c].base}
  /\ UNCHANGED <<seen, files, answers, fixed, past>>

OrphanEnds(b) ==
  /\ b \in orphan /\ orphan' = {} /\ Unlock
  /\ fate' \in {fate, [fate EXCEPT ![b].accept = @ + 1]}
  /\ UNCHANGED <<doing, seen, offered, modFaults, files, answers, fixed>>

\* A moderator answers a request; ezmlm-moderate checks the cookie and waits for
\* the lock.  A delivery that is repeated asks for the same.
ClickLock(c, b, a) ==
  /\ Goes(c, "start", "look") /\ TakeLock(c)
  /\ b \in offered
  /\ ask[c] = [base |-> b, act |-> a] \/ told[c] = "none"
  /\ ask' = [ask EXCEPT ![c] = [base |-> b, act |-> a]]
  /\ told' = [told EXCEPT ![c] = "later"]
  /\ UNCHANGED <<orphan, seen, modFaults, files, fixed, past>>

\* checkfile(): what became of it.
Outcome(b) ==
  CASE pending[b] # "none" -> "pending"
    [] pending[b] = "none" /\ "accept" \in stubs[b] -> "accept"
    [] pending[b] = "none" /\ "accept" \notin stubs[b] /\ "reject" \in stubs[b] -> "reject"
    [] OTHER -> "timeout"

ClickLook(c) ==
  LET b == ask[c].base
  IN  /\ modLock = c /\ doing[c] = "look"
      /\ IF Outcome(b) = "pending"
         THEN /\ doing' = [doing EXCEPT
                   ![c] = IF ask[c].act = "accept" THEN "accepting" ELSE "rejecting"]
              /\ UNCHANGED <<modLock, told>>
         ELSE /\ doing' = [doing EXCEPT ![c] = "end"] /\ Unlock
              /\ told' = [told EXCEPT ![c] = Outcome(b)]
      /\ UNCHANGED <<orphan, ask, seen, modFaults, files, fixed, past>>

\* ezmlm-send, or the mail to the author, is done ...
ClickDo(c) ==
  /\ modLock = c
  /\ doing[c] \in {"accepting", "rejecting"} /\ doing' = [doing EXCEPT ![c] = "stub"]
  /\ fate' = [fate EXCEPT ![ask[c].base][ask[c].act] = @ + 1]
  /\ UNCHANGED <<orphan, modLock, seen, offered, modFaults, files, answers, fixed>>

\* ... ezmlm-send refuses the post for good: the moderator hears of it ...
ClickRefused(c) ==
  /\ modLock = c /\ Goes(c, "accepting", "end") /\ Unlock
  /\ told' = [told EXCEPT ![c] = "failed"]
  /\ UNCHANGED <<orphan, ask, seen, modFaults, files, fixed, past>>

\* ... then the stub, then the file goes; whether these two succeed is ignored.
ClickStub(c) ==
  LET b == ask[c].base
  IN  /\ modLock = c /\ Goes(c, "stub", "unlink")
      /\ \/ stubs' = [stubs EXCEPT ![b] = @ \union {ask[c].act}] /\ UNCHANGED modFaults
         \/ Fault /\ UNCHANGED stubs
      /\ UNCHANGED <<orphan, modLock, pending, postOf, seen, answers, fixed, past>>

ClickUnlink(c) ==
  /\ modLock = c /\ Goes(c, "unlink", "end") /\ Unlock
  /\ \/ pending' = [pending EXCEPT ![ask[c].base] = "none"] /\ UNCHANGED modFaults
     \/ Fault /\ UNCHANGED pending
  /\ told' = [told EXCEPT ![c] = ask[c].act]
  /\ UNCHANGED <<orphan, stubs, postOf, ask, seen, fixed, past>>

\* Time passes: a name is older than modtime, 120 hours unless set.
Overdue(b) ==
  /\ postOf[b] # Nobody /\ b \notin overdue /\ overdue' = overdue \union {b}
  /\ UNCHANGED <<orphan, modLock, returning, doing, seen, modFaults, files, answers,
                 past>>

CleanLock ==
  /\ Goes(Cleaner, "start", "cleaning") /\ TakeLock(Cleaner) /\ seen' = {}
  /\ UNCHANGED <<orphan, modFaults, files, answers, fixed, past>>

Timed(b) == doing[Cleaner] = "cleaning" /\ b \in overdue /\ b \notin seen /\ pending[b] # "none"

\* dodir("mod/pending/"): sendnotice() to the author of a whole post, if posts
\* are returned, and then unlink; only unlink otherwise.
CleanNotice(b) ==
  /\ Timed(b) /\ returning /\ pending[b] = "exec"
  /\ fate' = [fate EXCEPT ![b].timeout = @ + 1]
  /\ doing' = [doing EXCEPT ![Cleaner] = "noticed"] /\ seen' = seen \union {b}
  /\ UNCHANGED <<orphan, modLock, offered, modFaults, files, answers, fixed>>

CleanUnlink(b) ==
  /\ \/ Timed(b) /\ ~ (returning /\ pending[b] = "exec") /\ UNCHANGED doing
     \/ /\ doing[Cleaner] = "noticed" /\ b \in seen /\ pending[b] # "none"
        /\ doing' = [doing EXCEPT ![Cleaner] = "cleaning"]
  /\ pending' = [pending EXCEPT ![b] = "none"]
  /\ UNCHANGED <<orphan, modLock, stubs, postOf, seen, modFaults, answers, fixed,
                 past>>

\* dodir("mod/accepted/"), dodir("mod/rejected/"), and the end.
CleanStubs ==
  /\ Goes(Cleaner, "cleaning", "start") /\ ~ \E b \in Base : Timed(b)
  /\ stubs' = [b \in Base |-> IF b \in overdue THEN {} ELSE stubs[b]]
  /\ Unlock
  /\ UNCHANGED <<orphan, pending, postOf, seen, modFaults, answers, fixed, past>>

ModerateNext ==
  \/ \E s \in Store, b \in Base :
       \/ StoreOpen(s, b) \/ StoreSync(s, b) \/ StoreRefuse(s, b)
       \/ StoreChmod(s, b) \/ StoreMail(s, b)
  \/ \E p \in Store \union Click \union {Cleaner} : Dies(p)
  \/ \E c \in Click :
       \/ \E b \in Base, a \in Act : ClickLock(c, b, a)
       \/ ClickLook(c) \/ ClickDo(c) \/ ClickRefused(c) \/ ClickStub(c)
       \/ ClickUnlink(c) \/ OrphanSend(c)
  \/ \E b \in Base : Overdue(b) \/ OrphanEnds(b) \/ CleanNotice(b) \/ CleanUnlink(b)
  \/ CleanLock \/ CleanStubs

ModerateSpec == ModerateInit /\ [][ModerateNext]_modVars

(***************************************************************************)
(* Properties.                                                             *)
(***************************************************************************)
Total(b) == fate[b].accept + fate[b].reject + fate[b].timeout

\* A post is sent to the list, rejected or returned once, however many
\* moderators answer while it times out; every further time needs a failure.
OneFate == \A b, c \in Base :
  postOf[b] = postOf[c] /\ postOf[b] # Nobody =>
    IF b = c THEN Total(b) <= 1 + modFaults ELSE Total(b) + Total(c) <= 1 + modFaults

\* A post ezmlm-store took stays in mod/pending, whole, until the list or its
\* author has it, or the list does not return posts and it timed out.
PostKept == \A b \in offered :
  \/ pending[b] = "exec" \/ Total(b) > 0
  \/ ~ returning /\ b \in overdue

\* A moderator who is told that a post was accepted, rejected or timed out is
\* told the truth, unless a stub could not be written.
ToldTruth == \A c \in Click :
  LET b == ask[c].base
  IN  /\ told[c] \in Act => fate[b][told[c]] > 0
      /\ told[c] = "timeout" => b \in overdue \/ modFaults > 0

ModerateSafe == OneFate /\ PostKept /\ ToldTruth
=============================================================================
