-------------------------------- MODULE Local -------------------------------
(***************************************************************************)
(* qmail-local (netqmail-1.06): the instructions of a .qmail file, carried *)
(* out in order with the forwards kept for last, and mailfile(), which     *)
(* appends to an mbox that other deliveries append to at the same time.    *)
(* A delivery that ends with 111, or is killed, is tried again from the    *)
(* first instruction.                                                      *)
(*                                                                         *)
(* A message is Parts pieces, of which a write() takes some.  The programs *)
(* that a .qmail file names are free to do and return anything.            *)
(***************************************************************************)
EXTENDS Integers, Sequences, FiniteSets

CONSTANTS Delivery,    \* messages for the same user
          Nobody,      \* not one of them
          Cmds,        \* the .qmail files: sequences of kinds of instructions
          Parts, MaxLocalDeath, MaxTry

Kind == {"mbox", "maildir", "program", "forward", "+list", "#"}
LocalAssumption == /\ Parts \in Nat \ {0} /\ MaxLocalDeath \in Nat
                   /\ Cmds \subseteq Seq(Kind) /\ Nobody \notin Delivery
ASSUME LocalAssumption

VARIABLES
  cmds, xbit,          \* the .qmail file and its execute bit
  nolocks,             \* the file system has no locks: lock_ex() fails
  lpc, line, forwardonly, recips, exit, \* each qmail-local, and its exit code
  did,                 \* history: the instructions that it has carried out
  mbox, disk, pos, holder,                \* the mbox, how much is on disk, the lock
  forwards,            \* the times that each message was queued again
  whole,               \* history: those whose mailfile() has returned
  localDeaths, tries

procVars  == <<lpc, line, forwardonly, recips, exit, did>>
fileVars  == <<mbox, disk, pos, holder>>
localVars == <<cmds, xbit, nolocks, procVars, fileVars, forwards, whole,
               localDeaths, tries>>

LocalInit ==
  /\ cmds \in Cmds /\ xbit \in BOOLEAN /\ nolocks \in BOOLEAN
  /\ lpc = [d \in Delivery |-> "start"] /\ line = [d \in Delivery |-> 1]
  /\ forwardonly = [d \in Delivery |-> xbit]
  /\ recips = [d \in Delivery |-> 0] /\ exit = [d \in Delivery |-> "none"]
  /\ did = [d \in Delivery |-> {}]
  /\ mbox = << >> /\ disk = 0 /\ pos = [d \in Delivery |-> 0] /\ holder = Nobody
  /\ forwards = [d \in Delivery |-> 0] /\ whole = {} /\ localDeaths = 0
  /\ tries = [d \in Delivery |-> 1]

-----------------------------------------------------------------------------
Now(d)     == cmds[line[d]]
Doing(d, k) == lpc[d] = "next" /\ line[d] <= Len(cmds) /\ Now(d) = k
ToNext(d)  == /\ lpc' = [lpc EXCEPT ![d] = "next"] /\ line' = [line EXCEPT ![d] = @ + 1]
              /\ did' = [did EXCEPT ![d] = @ \cup {line[d]}]
Exit(d, x) == lpc' = [lpc EXCEPT ![d] = "gone"] /\ exit' = [exit EXCEPT ![d] = x]

(* bouncexf(): a message that has been here ends with 100.                 *)
Bouncexf(d) ==
  /\ lpc[d] = "start"
  /\ \/ lpc' = [lpc EXCEPT ![d] = "next"] /\ UNCHANGED exit
     \/ Exit(d, "100")
  /\ UNCHANGED <<line, forwardonly, recips, did, fileVars, forwards, whole>>

(* A comment, +list, or an address to remember.                            *)
Note(d) ==
  /\ \/ Doing(d, "#") /\ UNCHANGED <<forwardonly, recips>>
     \/ /\ Doing(d, "+list") /\ forwardonly' = [forwardonly EXCEPT ![d] = TRUE]
        /\ UNCHANGED recips
     \/ /\ Doing(d, "forward") /\ recips' = [recips EXCEPT ![d] = @ + 1]
        /\ UNCHANGED forwardonly
  /\ ToNext(d)
  /\ UNCHANGED <<exit, fileVars, forwards, whole>>

ForwardOnly(d) ==
  /\ \E k \in {"mbox", "maildir", "program"} : Doing(d, k)
  /\ forwardonly[d] /\ Exit(d, "111")
  /\ UNCHANGED <<line, forwardonly, recips, did, fileVars, forwards, whole>>

(* maildir() and mailprogram(): the child ends with 0, 99 (the rest of the *)
(* file is skipped), 100 or another code.                                  *)
Child(d) ==
  /\ ~ forwardonly[d]
  /\ \/ (Doing(d, "maildir") \/ Doing(d, "program")) /\ ToNext(d) /\ UNCHANGED exit
     \/ /\ Doing(d, "program")
        /\ lpc' = [lpc EXCEPT ![d] = "forward"]
        /\ did' = [did EXCEPT ![d] = @ \cup {line[d]}] /\ UNCHANGED <<line, exit>>
     \/ Doing(d, "program") /\ Exit(d, "100") /\ UNCHANGED <<line, did>>
     \/ (Doing(d, "maildir") \/ Doing(d, "program")) /\ Exit(d, "111") /\ UNCHANGED <<line, did>>
  /\ UNCHANGED <<forwardonly, recips, fileVars, forwards, whole>>

-----------------------------------------------------------------------------
(* mailfile(): open_append().                                              *)
OpenMbox(d) ==
  /\ Doing(d, "mbox") /\ ~ forwardonly[d]
  /\ \/ lpc' = [lpc EXCEPT ![d] = "lock"] /\ UNCHANGED exit
     \/ Exit(d, "111")
  /\ UNCHANGED <<line, forwardonly, recips, did, fileVars, forwards, whole>>

(* lock_ex(), or its time-out after 30 seconds; then seek_end().           *)
Free == holder = Nobody

LockMbox(d) ==
  /\ lpc[d] = "lock"
  /\ \/ /\ ~ nolocks /\ Free /\ holder' = d
        /\ lpc' = [lpc EXCEPT ![d] = "write"] /\ pos' = [pos EXCEPT ![d] = Len(mbox)]
        /\ UNCHANGED exit
     \/ /\ nolocks /\ lpc' = [lpc EXCEPT ![d] = "write"]
        /\ pos' = [pos EXCEPT ![d] = Len(mbox)] /\ UNCHANGED <<exit, holder>>
     \/ ~ nolocks /\ ~ Free /\ Exit(d, "111") /\ UNCHANGED <<pos, holder>>
  /\ UNCHANGED <<line, forwardonly, recips, did, mbox, disk, forwards, whole>>

(* How much of d has been written in this attempt.                         *)
Written(d) == Cardinality({n \in pos[d] + 1 .. Len(mbox) : mbox[n][1] = d})

(* One write(): the next pieces, at the end of the file.                   *)
WriteMbox(d) ==
  /\ lpc[d] = "write" /\ Written(d) < Parts
  /\ \E n \in Written(d) + 1 .. Parts :
       mbox' = mbox \o [k \in 1 .. n - Written(d) |-> <<d, Written(d) + k>>]
  /\ UNCHANGED <<procVars, disk, pos, holder, forwards, whole>>

Released(d) == holder' = IF holder = d THEN Nobody ELSE holder

(* fsync() and close().                                                    *)
SyncMbox(d) ==
  /\ lpc[d] = "write" /\ Written(d) = Parts
  /\ disk' = Len(mbox) /\ whole' = whole \cup {d}
  /\ Released(d) /\ ToNext(d)
  /\ UNCHANGED <<forwardonly, recips, exit, mbox, pos, forwards>>

(* writeerrs, or the message cannot be read: what this attempt has written *)
(* is cut off, if the file is locked.                                      *)
Untruncated(d) == mbox                                              \* mutant
Truncated(d) == IF holder = d THEN SubSeq(mbox, 1, pos[d]) ELSE mbox

WriteErrs(d) ==
  /\ lpc[d] = "write" /\ Exit(d, "111")
  /\ mbox' = Truncated(d)
  /\ disk' = IF disk > Len(mbox') THEN Len(mbox') ELSE disk
  /\ Released(d)
  /\ UNCHANGED <<line, forwardonly, recips, did, pos, forwards, whole>>

-----------------------------------------------------------------------------
(* The end of the file: mailforward() if there are addresses.              *)
LastLine(d) == lpc[d] = "forward" \/ (lpc[d] = "next" /\ line[d] > Len(cmds))
Requeued(d) == forwards' = [forwards EXCEPT ![d] = @ + 1]

Mailforward(d) ==
  /\ LastLine(d)
  /\ \/ /\ recips[d] > 0 /\ lpc' = [lpc EXCEPT ![d] = "end"] /\ Requeued(d)
        /\ UNCHANGED exit
     \/ recips[d] > 0 /\ (\E x \in {"100", "111"} : Exit(d, x)) /\ UNCHANGED forwards
     \/ recips[d] = 0 /\ Exit(d, "0") /\ UNCHANGED forwards
  /\ UNCHANGED <<line, forwardonly, recips, did, fileVars, whole>>

LocalEnd(d) ==
  /\ lpc[d] = "end" /\ Exit(d, "0")
  /\ UNCHANGED <<line, forwardonly, recips, did, fileVars, forwards, whole>>

Work(d) ==
  /\ \/ Bouncexf(d) \/ Note(d) \/ ForwardOnly(d) \/ Child(d) \/ OpenMbox(d) \/ LockMbox(d)
     \/ WriteMbox(d) \/ SyncMbox(d) \/ WriteErrs(d) \/ Mailforward(d) \/ LocalEnd(d)
  /\ UNCHANGED <<cmds, xbit, nolocks, localDeaths, tries>>

-----------------------------------------------------------------------------
(* qmail-local is killed, or the qmail-queue that it forwards to is killed *)
(* after its link(), which qmail-local takes for a failure.                *)
LocalDies(d) ==
  /\ localDeaths < MaxLocalDeath /\ localDeaths' = localDeaths + 1
  /\ \/ lpc[d] # "gone" /\ Exit(d, "killed") /\ Released(d) /\ UNCHANGED forwards
     \/ /\ LastLine(d) /\ recips[d] > 0 /\ Exit(d, "111") /\ Requeued(d)
        /\ UNCHANGED holder
  /\ UNCHANGED <<cmds, xbit, nolocks, line, forwardonly, recips, did, mbox, disk, pos, whole, tries>>

(* The machine crashes: what has not been synced may be lost.              *)
LocalCrash ==
  /\ localDeaths < MaxLocalDeath /\ localDeaths' = localDeaths + 1
  /\ \E n \in disk .. Len(mbox) : mbox' = SubSeq(mbox, 1, n) /\ disk' = n
  /\ lpc' = [d \in Delivery |-> "gone"] /\ holder' = Nobody
  /\ exit' = [d \in Delivery |-> IF lpc[d] = "gone" THEN exit[d] ELSE "killed"]
  /\ UNCHANGED <<cmds, xbit, nolocks, line, forwardonly, recips, did, pos, forwards, whole, tries>>

(* qmail-send tries again what was deferred.                               *)
Retry(d) ==
  /\ lpc[d] = "gone" /\ exit[d] \in {"111", "killed"}
  /\ tries[d] < MaxTry /\ tries' = [tries EXCEPT ![d] = @ + 1]
  /\ lpc' = [lpc EXCEPT ![d] = "start"] /\ exit' = [exit EXCEPT ![d] = "none"]
  /\ line' = [line EXCEPT ![d] = 1] /\ did' = [did EXCEPT ![d] = {}]
  /\ forwardonly' = [forwardonly EXCEPT ![d] = xbit] /\ recips' = [recips EXCEPT ![d] = 0]
  /\ UNCHANGED <<cmds, xbit, nolocks, fileVars, forwards, whole, localDeaths>>

LocalNext == LocalCrash \/ \E d \in Delivery : Work(d) \/ LocalDies(d) \/ Retry(d)

LocalSpec == LocalInit /\ [][LocalNext]_localVars

-----------------------------------------------------------------------------
(***************************************************************************)
(* Properties.                                                             *)
(***************************************************************************)

LocalTypeOK ==
  /\ \A d \in Delivery :
       /\ lpc[d] \in {"start", "next", "lock", "write", "forward", "end", "gone"}
       /\ line[d] \in 1 .. Len(cmds) + 1 /\ did[d] \subseteq DOMAIN cmds
       /\ pos[d] \in 0 .. Len(mbox) \/ lpc[d] # "write"
  /\ disk \in 0 .. Len(mbox) /\ holder \in Delivery \cup {Nobody}

\* A message that mailfile() has delivered stays in the mbox, on disk and in one
\* piece (without locks, with all its pieces), whatever other deliveries write,
\* cut off or leave behind when they die.
StaysInMbox ==
  \A d \in whole :
    IF nolocks
      THEN \A k \in 1 .. Parts : \E n \in 1 .. disk : mbox[n] = <<d, k>>
      ELSE \E n \in 0 .. disk - Parts : \A k \in 1 .. Parts : mbox[n + k] = <<d, k>>

\* With locks, and as long as nobody is killed, the mbox is whole messages one
\* after the other, and at its end what the delivery with the lock has written.
NoScraps ==
  ~ nolocks /\ localDeaths = 0 =>
    /\ \A n \in 1 .. Len(mbox) :
         /\ mbox[n][2] = ((n - 1) % Parts) + 1
         /\ mbox[n][2] > 1 => mbox[n - 1][1] = mbox[n][1]
    /\ Len(mbox) % Parts # 0 => holder = mbox[Len(mbox)][1]

\* Exit 0 is for a message that has gone through every instruction up to the end,
\* or to a program that ended with 99, and has been forwarded if any of them says
\* so; with the execute bit or after +list, through no file and no program.
ZeroMeansDone ==
  \A d \in Delivery : exit[d] = "0" =>
    \E n \in 0 .. Len(cmds) :
      /\ did[d] = 1 .. n
      /\ n < Len(cmds) => n > 0 /\ cmds[n] = "program"
      /\ (\E k \in did[d] : cmds[k] = "forward") => forwards[d] > 0
      /\ \A k \in did[d] : cmds[k] \in {"mbox", "maildir", "program"} =>
           ~ xbit /\ \A j \in 1 .. k : cmds[j] # "+list"

\* However often a message comes back because of a file or a program, it is
\* forwarded once, and once more for each process that was killed.
ForwardedOnce == \A d \in Delivery : forwards[d] <= 1 + localDeaths

\* The four together.
LocalSafe == LocalTypeOK /\ StaysInMbox /\ NoScraps /\ ZeroMeansDone /\ ForwardedOnce
=============================================================================
