------------------------------ MODULE Schedule ------------------------------
(***************************************************************************)
(* When qmail-send tries the messages of one channel: the heap pqchan[c],  *)
(* nextretry with its squareroot, flagdying, SIGALRM, and a clock that     *)
(* somebody may set back.  What a pass does with a file is the subject of  *)
(* QmailSend; here a job ends with every recipient DONE, with some         *)
(* deferred, or cut short by a fault.  now() is read as recent.            *)
(***************************************************************************)
EXTENDS Prioq, Integers, FiniteSets

CONSTANTS
  Id,          \* messages
  None,        \* no time
  lifetime,    \* control/queuelifetime
  chanskip,    \* 10 or 20 in the code
  SLEEP_SYSFAIL,  \* 123 in the code
  HighBit,     \* 15 in the code: squareroot is right below 4 ^ (HighBit + 1)
  NumJobs,     \* jobs that the channel can have
  MaxBirth,    \* bound: no message comes later
  MaxCut,      \* bound: messages that a fault has put off after their lifetime, at a time
  MaxTime      \* bound: the clock stops there

(* 1 << j *)
shl[j \in 0 .. 2 * (HighBit + 1)] == IF j = 0 THEN 1 ELSE 2 * shl[j - 1]

ASSUME ScheduleAssumption ==
  /\ lifetime \in Nat /\ chanskip \in Nat \ {0} /\ HighBit \in Nat /\ NumJobs \in Nat
  /\ SLEEP_SYSFAIL \in Nat \ {0}
  /\ MaxCut \in Nat /\ MaxBirth \in Nat /\ MaxTime \in Nat /\ MaxTime < shl[2 * (HighBit + 1)]
  /\ None \notin Nat

VARIABLES
  p,         \* pqchan[c]
  jobs,      \* what jo[j] keeps of an attempt: id, retry and flagdying
  recent,    \* the clock of the main loop
  born,      \* born[i]: the time of info/, None before todo_do
  setback,   \* history: the clock has been set back
  late,      \* history: messages whose latest attempt was after their lifetime
  spoilt,       \* history: those of them whose latest attempt a fault has cut short
  done       \* history: messages whose file is removed

vars == <<p, jobs, recent, born, setback, late, spoilt, done>>

-----------------------------------------------------------------------------
LessOnly(a, b) == a < b                   \* mutation: < for <=
AtMost(a, b) == a <= b

(* One bit after another, from the highest. *)
squareroot(x) ==
  LET bit[j \in 0 .. HighBit + 1] ==  \* y and yy once the bits j and above are set
        IF j = HighBit + 1 THEN [y |-> 0, yy |-> 0]
        ELSE LET b   == bit[j + 1]
                 y21 == b.y * shl[j + 1] + shl[j + j]
             IN  IF AtMost(y21, x - b.yy) THEN [y |-> b.y + shl[j], yy |-> b.yy + y21] ELSE b
  IN  bit[0].y

NoSkip(n) == n                            \* mutation: chanskip left out
Skip(n) == n + chanskip

nextretry(birth, now) ==
  LET n == Skip(IF birth > now THEN 0 ELSE squareroot(now - birth))
  IN  birth + n * n

DyingLater(birth, now) == now > birth + 2 * lifetime     \* mutation: twice the lifetime
Dying(birth, now) == now > birth + lifetime

Init ==
  /\ p = <<>> /\ jobs = {} /\ recent = 0 /\ born = [i \in Id |-> None]
  /\ setback = FALSE /\ late = {} /\ spoilt = {} /\ done = {}

(* The end of todo_do: due at once. *)
Queue(i) ==
  /\ born[i] = None /\ recent <= MaxBirth
  /\ born' = [born EXCEPT ![i] = recent]
  /\ p' = Insert(p, [dt |-> recent, id |-> i])
  /\ UNCHANGED <<jobs, recent, setback, late, spoilt, done>>

(* pass_dochan: prioq_min, the look at the time, prioq_delmin, job_open. *)
Attempt ==
  /\ Cardinality(jobs) < NumJobs
  /\ p # <<>> /\ p[1].dt <= recent
  /\ LET i == p[1].id IN
     /\ jobs' = jobs \cup {[id |-> i, retry |-> nextretry(born[i], recent),
                            dying |-> Dying(born[i], recent)]}
     /\ late' = IF recent > born[i] + lifetime THEN late \cup {i} ELSE late \ {i}
     /\ spoilt' = spoilt \ {i}
  /\ p' = Delmin(p)
  /\ UNCHANGED <<recent, born, setback, done>>

(* pass_dochan, "trouble opening": later again. *)
Trouble ==
  /\ Cardinality(jobs) < NumJobs
  /\ p # <<>> /\ p[1].dt <= recent
  /\ p' = Insert(Delmin(p), [p[1] EXCEPT !.dt = recent + SLEEP_SYSFAIL])
  /\ UNCHANGED <<jobs, recent, born, setback, late, spoilt, done>>

(* job_close, the file read to its end, some recipient deferred: a report  *)
(* of "Z" does that, unless flagdying makes it a failure.                  *)
Deferred(j) ==
  /\ j \in jobs /\ ~j.dying
  /\ jobs' = jobs \ {j}
  /\ p' = Insert(p, [dt |-> j.retry, id |-> j.id])
  /\ UNCHANGED <<recent, born, setback, late, spoilt, done>>

PutOff(j) == spoilt' = spoilt \cup ({j.id} \cap late) /\ Cardinality(spoilt') <= MaxCut

(* The job is cut short: getln fails, a record is of no known type or a    *)
(* report is mangled.  job_close does not ask for flagdying.               *)
CutShort(j) ==
  /\ j \in jobs /\ jobs' = jobs \ {j}
  /\ p' = Insert(p, [dt |-> j.retry, id |-> j.id])
  /\ PutOff(j)
  /\ UNCHANGED <<recent, born, setback, late, done>>

(* job_close, every recipient DONE. *)
Done(j) ==
  /\ j \in jobs /\ jobs' = jobs \ {j}
  /\ done' = done \cup {j.id}
  /\ UNCHANGED <<p, recent, born, setback, late, spoilt>>

(* The same, but unlink() fails. *)
UnlinkFails(j) ==
  /\ j \in jobs /\ jobs' = jobs \ {j}
  /\ p' = Insert(p, [dt |-> recent + SLEEP_SYSFAIL, id |-> j.id])
  /\ PutOff(j)
  /\ UNCHANGED <<recent, born, setback, late, done>>

(* SIGALRM: "immediate"; what is in a job keeps its retry time. *)
PqRun ==
  /\ p' = [k \in DOMAIN p |-> [p[k] EXCEPT !.dt = recent]]
  /\ UNCHANGED <<jobs, recent, born, setback, late, spoilt, done>>

Clock ==
  /\ recent < MaxTime /\ recent' = recent + 1
  /\ UNCHANGED <<p, jobs, born, setback, late, spoilt, done>>

SetBack ==
  /\ \E t \in 0 .. recent - 1 : recent' = t
  /\ setback' = TRUE
  /\ UNCHANGED <<p, jobs, born, late, spoilt, done>>

Next ==
  \/ Attempt \/ Trouble \/ PqRun \/ Clock \/ SetBack
  \/ \E i \in Id : Queue(i)
  \/ \E j \in jobs : Deferred(j) \/ CutShort(j) \/ Done(j) \/ UnlinkFails(j)

Spec == Init /\ [][Next]_vars

-----------------------------------------------------------------------------
(* What prioq_min returns is due no later than anything else: nothing that  *)
(* is due waits behind something that is not.                               *)
MinIsLeast == \A k \in DOMAIN p : p[1].dt <= p[k].dt

(* Neither the rising nor the sinking hole loses or doubles a message: one  *)
(* that has recipients left is in the heap or in a job, once.               *)
NotLost ==
  \A i \in Id : Cardinality({k \in DOMAIN p : p[k].id = i}) + Cardinality({j \in jobs : j.id = i})
             = IF born[i] # None /\ i \notin done THEN 1 ELSE 0

(* The heap does its work through every sequence of insertions, deletions   *)
(* and SIGALRMs: nothing is lost, and nothing due waits behind another.     *)
HeapRight == MinIsLeast /\ NotLost

(* The comment at squareroot, "result^2 <= x < (result + 1)^2", for what    *)
(* nextretry hands it.                                                      *)
SquareRoot ==
  \A i \in Id : born[i] # None /\ recent >= born[i] =>
    LET x == recent - born[i]  y == squareroot(x)
    IN  y * y <= x /\ x < (y + 1) * (y + 1)

(* A deferred message is not tried again in the same second, however old it *)
(* is and wherever the clock stands: no busy loop.                          *)
NotAtOnce == [][\A j \in jobs' \ jobs : j.retry > recent]_vars

(* qmail-send(8), queuelifetime: "after this time expires, qmail-send will  *)
(* try the message once more".  It waits again after such an attempt only   *)
(* where a fault has cut that attempt short: every further attempt takes a  *)
(* fault of its own.  And the wait for the last attempt is bounded, by the  *)
(* root of the lifetime, or of the age after a fault, unless somebody sets  *)
(* the clock back.                                                          *)
OnceMore ==
  LET n == squareroot(lifetime) + chanskip
      last(i) == born[i] + n * n
  IN
  /\ SquareRoot
  /\ \A k \in DOMAIN p : LET i == p[k].id IN
       /\ i \in late => i \in spoilt
       /\ ~setback => \/ p[k].dt <= last(i) \/ p[k].dt <= recent + SLEEP_SYSFAIL
                      \/ i \in spoilt /\ p[k].dt <= nextretry(born[i], recent)
=============================================================================
