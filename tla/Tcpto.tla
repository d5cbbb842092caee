------------------------------- MODULE Tcpto --------------------------------
(***************************************************************************)
(* tcpto.c and tcpto_clean.c: the table in queue/lock/tcpto of addresses   *)
(* that do not answer, shared by all qmail-remote processes under a lock,  *)
(* zeroed by qmail-tcpok under the lock, and by qmail-send, when it gets   *)
(* SIGALRM, without it.                                                    *)
(*                                                                         *)
(* A record is an address, a count and a time; count 0 is a free record.   *)
(* The time has units of which 120 seconds are Gap, the hold of a process  *)
(* (it depends on the pid) Hold[p], and the weight of a count in the       *)
(* search for the oldest record Weight.                                    *)
(***************************************************************************)
EXTENDS Naturals

CONSTANTS
  Remote,      \* qmail-remote processes
  Ip,          \* addresses of mail exchangers
  NoIp,        \* address of a record never used
  Record,      \* positions in the table
  Gap,         \* 120 seconds
  Hold,        \* Hold[p]: (60 + (pid & 31)) << 6 seconds
  Weight,      \* 1 << 10 seconds
  MaxCount,    \* a count does not exceed 10
  MaxTcptoTime \* bound: the time

ASSUME TcptoAssumption ==
  /\ Record \subseteq Nat /\ Gap \in Nat /\ Weight \in Nat /\ MaxTcptoTime \in Nat
  /\ Hold \in [Remote -> Nat] /\ MaxCount \in Nat \ {0, 1} /\ NoIp \notin Ip

VARIABLES
  table,       \* the file
  rpc,         \* rpc[p]: "idle", "try" (connecting), "err" (holds the lock)
  host,        \* host[p]: the address that p works on
  wasthere,    \* flagwasthere of p
  failed,      \* failed[p]: flagerr, when rpc[p] = "err"
  buf,         \* buf[p]: tcpto_buf
  clock,       \* now()
  heard         \* history: heard[ip], times of the time-outs recorded since the
               \* last recorded connection or loss of the record

tcptoVars == <<table, rpc, host, wasthere, failed, buf, clock, heard>>

FreeRecord  == [ip |-> NoIp, count |-> 0, when |-> 0]
Blank == [r \in Record |-> FreeRecord]

TcptoInit ==
  /\ table = Blank
  /\ rpc = [p \in Remote |-> "idle"] /\ host = [p \in Remote |-> NoIp]
  /\ wasthere = [p \in Remote |-> FALSE] /\ failed = [p \in Remote |-> FALSE]
  /\ buf = [p \in Remote |-> Blank] /\ clock = 0
  /\ heard = [i \in Ip |-> {}]

(* lock_ex() succeeds: the lock is held from there to close(fdlock).       *)
Unlocked == \A p \in Remote : rpc[p] # "err"

(* The first record with address i in t.                                   *)
Has(t, i) == \E r \in Record : t[r].ip = i
FindIp(t, i) == CHOOSE r \in Record :
                t[r].ip = i /\ \A s \in Record : s < r => t[s].ip # i

Skipped(p, e) == e.count >= 2 /\ clock < e.when + Hold[p]

-----------------------------------------------------------------------------
(* tcpto(): the table is read under the lock; an address that is to be     *)
(* skipped is left alone for this time.                                    *)
Check(p, i) ==
  /\ rpc[p] = "idle" /\ Unlocked
  /\ ~(Has(table, i) /\ Skipped(p, table[FindIp(table, i)]))
  /\ rpc' = [rpc EXCEPT ![p] = "try"] /\ host' = [host EXCEPT ![p] = i]
  /\ wasthere' = [wasthere EXCEPT ![p] = Has(table, i)]
  /\ UNCHANGED <<table, failed, buf, clock, heard>>

(* close(fdlock), or nothing to tell: the process forgets what it had.     *)
Leave(p) ==
  /\ rpc' = [rpc EXCEPT ![p] = "idle"] /\ host' = [host EXCEPT ![p] = NoIp]
  /\ wasthere' = [wasthere EXCEPT ![p] = FALSE]
  /\ failed' = [failed EXCEPT ![p] = FALSE] /\ buf' = [buf EXCEPT ![p] = Blank]

(* The connection is made, or fails for another reason than a time-out,    *)
(* and the address was not in the table: nothing is written.               *)
NothingToTell(p) ==
  /\ rpc[p] = "try" /\ ~wasthere[p] /\ Leave(p)
  /\ UNCHANGED <<table, clock, heard>>

(* tcpto_err() up to the read() under the lock.                            *)
ErrRead(p, err) ==
  /\ rpc[p] = "try" /\ Unlocked /\ (err \/ wasthere[p])
  /\ rpc' = [rpc EXCEPT ![p] = "err"]
  /\ failed' = [failed EXCEPT ![p] = err]
  /\ buf' = [buf EXCEPT ![p] = table]
  /\ UNCHANGED <<table, host, wasthere, clock, heard>>

(* The record of an address in the table is rewritten, from the copy.      *)
Cap(n) == IF n > MaxCount THEN MaxCount ELSE n

NeverEarly(e) == FALSE       \* mutant
Early(e) == e.count # 0 /\ clock < e.when + Gap

ErrUpdate(p) ==
  LET i == host[p]
      r == FindIp(buf[p], i)
      e == buf[p][r]
  IN
  /\ rpc[p] = "err" /\ Has(buf[p], i) /\ (failed[p] => ~Early(e))
  /\ table' = [table EXCEPT ![r] =
                 IF failed[p] THEN [e EXCEPT !.count = Cap(@ + 1), !.when = clock]
                              ELSE [e EXCEPT !.count = 0]]
  /\ heard' = [heard EXCEPT ![i] = IF failed[p] THEN @ \union {clock} ELSE {}]
  /\ Leave(p) /\ UNCHANGED clock

(* Nothing is written: a second time-out too soon, or a connection to an   *)
(* address that is not in the table any more.                              *)
ErrLeave(p) ==
  LET i == host[p] IN
  /\ rpc[p] = "err"
  /\ IF Has(buf[p], i) THEN failed[p] /\ Early(buf[p][FindIp(buf[p], i)]) ELSE ~failed[p]
  /\ Leave(p) /\ UNCHANGED <<table, clock, heard>>

(* A time-out of a new address: the first free record, or else the first   *)
(* of those with the least when + count << 10.                             *)
AgeRecord(e) == e.when + e.count * Weight

Victim(t, r) ==
  IF \E s \in Record : t[s].count = 0
    THEN t[r].count = 0 /\ \A s \in Record : s < r => t[s].count # 0
    ELSE \A s \in Record : AgeRecord(t[r]) <= AgeRecord(t[s]) /\ (s < r => AgeRecord(t[r]) # AgeRecord(t[s]))

ErrInsert(p) ==
  LET i == host[p] IN
  /\ rpc[p] = "err" /\ failed[p] /\ ~Has(buf[p], i)
  /\ \E r \in Record :
       /\ Victim(buf[p], r)
       /\ table' = [table EXCEPT ![r] = [ip |-> i, count |-> 1, when |-> clock]]
       /\ heard' = [j \in Ip |-> IF j = i THEN {clock}
                                ELSE IF j = buf[p][r].ip THEN {} ELSE heard[j]]
  /\ Leave(p) /\ UNCHANGED clock

(* tcpto_clean() of qmail-send does not ask for the lock, and a process    *)
(* that holds it may write one record back; qmail-tcpok does, so that what *)
(* it does is the same without such a process.  The 1024 bytes are one     *)
(* write().                                                                *)
Clean ==
  /\ table' = Blank
  /\ heard' = [i \in Ip |-> IF \E p \in Remote : rpc[p] = "err" /\ host[p] = i
                             THEN heard[i] ELSE {}]
  /\ UNCHANGED <<rpc, host, wasthere, failed, buf, clock>>

TcptoTick ==
  /\ clock < MaxTcptoTime /\ clock' = clock + 1
  /\ UNCHANGED <<table, rpc, host, wasthere, failed, buf, heard>>

TcptoNext ==
  \/ \E p \in Remote :
       \/ \E i \in Ip : Check(p, i)
       \/ NothingToTell(p)
       \/ \E err \in BOOLEAN : ErrRead(p, err)
       \/ ErrUpdate(p) \/ ErrLeave(p) \/ ErrInsert(p)
  \/ Clean \/ TcptoTick

TcptoSpec == TcptoInit /\ [][TcptoNext]_tcptoVars

-----------------------------------------------------------------------------
TableEntry == [ip : Ip \union {NoIp}, count : 0 .. MaxCount, when : Nat]

TcptoTypeOK ==
  /\ table \in [Record -> TableEntry] /\ buf \in [Remote -> [Record -> TableEntry]]
  /\ rpc \in [Remote -> {"idle", "try", "err"}] /\ host \in [Remote -> Ip \union {NoIp}]
  /\ wasthere \in [Remote -> BOOLEAN] /\ failed \in [Remote -> BOOLEAN]
  /\ clock \in Nat /\ heard \in [Ip -> SUBSET Nat]

(* An address has one record, whatever processes and cleanings do at the   *)
(* same time.                                                              *)
OneRecord ==
  \A r, s \in Record : table[r].ip = table[s].ip /\ table[r].ip # NoIp => r = s

(* qmail-remote passes over an address (count at least 2) only for two     *)
(* time-outs, the second at the time of the record and the first at least  *)
(* 120 seconds before, with no recorded connection to the address between. *)
TwoTimeouts ==
  \A r \in Record : table[r].count >= 2 =>
    \E t \in heard[table[r].ip] : t + Gap <= table[r].when /\ table[r].when \in heard[table[r].ip]

TcptoSafe == OneRecord /\ TwoTimeouts
=============================================================================
