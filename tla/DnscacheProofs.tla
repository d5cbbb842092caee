--------------------------- MODULE DnscacheProofs ---------------------------
(***************************************************************************)
(* The safety of dnscache, part by part: QuerySafe of Query, for every     *)
(* depth, table size and cap; TransmitSafe of Transmit, for any number of  *)
(* servers and whatever they do; QmergeSafe of Qmerge, for any number of   *)
(* clients and any set of questions; CacheSafe of Cache, for any size,     *)
(* keys, data and depth.                                                   *)
(***************************************************************************)
EXTENDS Query, Transmit, Qmerge, Cache, FiniteSetTheorems, WellFoundedInduction, TLAPS

\* Each level at work, and a server list not yet asked, was paid for too.
Budget == asks + level + (IF qstep = "havens" THEN 1 ELSE 0) <= loop

QueryInv ==
  /\ QueryTypeOK
  /\ NamesFreed
  /\ AsksPaid
  /\ ~Ended => Budget /\ loop < MaxLoop

\* A client's question begins with everything empty (query_start).
LEMMA QueryInitOK == QueryInit => QueryInv
  <1> USE QueryAssumption DEF QueryInit, QueryInv, Levels, Ended
  <1>1. QueryInit => QueryTypeOK  BY DEF QueryTypeOK
  <1>2. QueryInit => NamesFreed /\ AsksPaid /\ Budget /\ loop < MaxLoop
    BY DEF NamesFreed, AsksPaid, Budget
  <1> QED  BY <1>1, <1>2

\* cleanup(z) frees every name, whatever loop stands at.
LEMMA EndOK ==
  ASSUME QueryInv, NEW how \in {"done", "died"}, End(how),
         loop' \in Nat, loop <= loop', loop' <= MaxLoop
  PROVE  QueryInv'
  <1> USE QueryAssumption DEF End, QueryInv, Ended
  <1>1. QueryTypeOK'  BY DEF QueryTypeOK, Levels
  <1>2. NamesFreed'  BY DEF NamesFreed
  <1>3. AsksPaid'  BY DEF AsksPaid, QueryTypeOK
  <1> QED  BY <1>1, <1>2, <1>3

\* LOWERLEVEL gives back the level it leaves, so a packet need not pay for it.
LEMMA LowerOK ==
  ASSUME QueryInv, ~Ended, level # 0, NEW n \in 0 .. MaxServers, LowerLevel(n),
         loop' \in Nat, loop <= loop', loop' < MaxLoop
  PROVE  QueryInv'
  <1> USE QueryAssumption DEF LowerLevel, QueryInv
  <1>1. level \in Levels /\ level' \in Levels /\ level' = level - 1
    BY DEF QueryTypeOK, Levels
  <1>2. QueryTypeOK'
    <2>1. ns' \in [Levels -> 0 .. MaxNs]  BY <1>1 DEF QueryTypeOK
    <2>2. servers' \in [Levels -> 0 .. MaxServers]
      <3>1. servers[level - 1] \in 0 .. MaxServers  BY <1>1 DEF QueryTypeOK
      <3> QED  BY <1>1, <3>1 DEF QueryTypeOK
    <2>3. named' \subseteq Levels  BY DEF QueryTypeOK
    <2> QED  BY <1>1, <2>1, <2>2, <2>3 DEF QueryTypeOK
  <1>3. NamesFreed'
    <2>1. named = 0 .. level  BY DEF NamesFreed
    <2>2. named' = 0 .. level'  BY <1>1, <2>1 DEF Levels
    <2> QED  BY <2>2 DEF NamesFreed, Ended
  <1>4. AsksPaid'  BY DEF AsksPaid, QueryTypeOK
  <1>5. Budget'  BY <1>1 DEF Budget, QueryTypeOK, Levels
  <1> QED  BY <1>2, <1>3, <1>4, <1>5

\* An answer, at whichever level.
LEMMA ConcludeOK ==
  ASSUME QueryInv, ~Ended, NEW n \in 0 .. MaxServers, Conclude(n),
         loop' \in Nat, loop <= loop', loop' < MaxLoop
  PROVE  QueryInv'
  <1>1. CASE level = 0  BY <1>1, EndOK, QueryAssumption DEF Conclude
  <1>2. CASE level # 0  BY <1>2, LowerOK DEF Conclude
  <1> QED  BY <1>1, <1>2

\* An alias starts the level over under a new name.
LEMMA CnameOK ==
  ASSUME QueryInv, ~Ended, Cname, loop' = loop + 1, loop' < MaxLoop
  PROVE  QueryInv'
  <1>0. loop \in Nat /\ loop' \in Nat /\ loop <= loop' /\ loop' <= MaxLoop
    BY QueryAssumption DEF QueryInv, QueryTypeOK
  <1>1. CASE level = 0 /\ alias = MaxAlias  BY <1>0, <1>1, EndOK DEF Cname
  <1>2. CASE ~(level = 0 /\ alias = MaxAlias)
    <2> USE QueryAssumption, <1>0, <1>2 DEF Cname, QueryInv
    <2>1. QueryTypeOK'  BY DEF QueryTypeOK
    <2>2. NamesFreed'  BY DEF NamesFreed, Ended
    <2>3. AsksPaid'  BY DEF AsksPaid, QueryTypeOK
    <2>4. Budget'  BY DEF Budget, QueryTypeOK, Levels
    <2> QED  BY <2>1, <2>2, <2>3, <2>4
  <1> QED  BY <1>1, <1>2

\* HaveZone, Lame and Referral go to HAVENS at the same level: what was paid
\* in loop buys the next question.
LEMMA HaveNsOK ==
  ASSUME QueryInv, ~Ended, qstep # "havens", qstep' = "havens",
         ns' \in [Levels -> 0 .. MaxNs], servers' \in [Levels -> 0 .. MaxServers],
         UNCHANGED <<level, named, alias, asks>>,
         loop' = loop + 1, loop' < MaxLoop
  PROVE  QueryInv'
  <1> USE QueryAssumption DEF QueryInv
  <1>1. QueryTypeOK'  BY DEF QueryTypeOK
  <1>2. NamesFreed'  BY DEF NamesFreed, Ended
  <1>3. AsksPaid'  BY DEF AsksPaid, QueryTypeOK
  <1>4. Budget'  BY DEF Budget, QueryTypeOK, Levels
  <1> QED  BY <1>1, <1>2, <1>3, <1>4

LEMMA NewNameOK == ASSUME QueryInv, NewName PROVE QueryInv'
  <1>0. /\ ~Ended /\ loop \in Nat /\ loop' \in Nat /\ loop <= loop' /\ loop' <= MaxLoop
        /\ loop' = loop + 1 /\ qstep = "newname"
    BY QueryAssumption DEF NewName, QueryInv, QueryTypeOK, Ended
  <1>1. CASE End("died")  BY <1>0, <1>1, EndOK
  <1>2. CASE loop' # MaxLoop
    <2>0. loop' < MaxLoop  BY <1>0, <1>2, QueryAssumption
    <2>1. CASE \E n \in 0 .. MaxServers : Conclude(n)  BY <1>0, <2>0, <2>1, ConcludeOK
    <2>2. CASE Cname  BY <1>0, <2>0, <2>2, CnameOK
    <2>3. CASE HaveZone
      <3>1. ns' \in [Levels -> 0 .. MaxNs] /\ servers' \in [Levels -> 0 .. MaxServers]
        BY <2>3, QueryAssumption DEF HaveZone, QueryInv, QueryTypeOK
      <3> QED  BY <1>0, <2>0, <2>3, <3>1, HaveNsOK DEF HaveZone
    <2> QED  BY <1>1, <1>2, <2>1, <2>2, <2>3 DEF NewName
  <1> QED  BY <1>1, <1>2 DEF NewName

LEMMA LookUpNsOK == ASSUME QueryInv, LookUpNs PROVE QueryInv'
  <1> USE QueryAssumption DEF LookUpNs, QueryInv
  <1>0. level \in Levels /\ level + 1 \in Levels  BY DEF QueryTypeOK, Levels
  <1>1. QueryTypeOK'
    <2>1. ns' \in [Levels -> 0 .. MaxNs]  BY <1>0 DEF QueryTypeOK
    <2>2. named' \subseteq Levels  BY <1>0 DEF QueryTypeOK
    <2> QED  BY <1>0, <2>1, <2>2 DEF QueryTypeOK
  <1>2. NamesFreed'
    <2>1. named = 0 .. level  BY DEF NamesFreed, Ended
    <2>2. named' = 0 .. level'  BY <1>0, <2>1 DEF Levels
    <2> QED  BY <2>2 DEF NamesFreed, Ended
  <1>3. AsksPaid'  BY DEF AsksPaid
  <1>4. Budget' /\ (loop < MaxLoop)'  BY <1>0 DEF Budget, QueryTypeOK, Levels, Ended
  <1> QED  BY <1>1, <1>2, <1>3, <1>4

LEMMA AskOK == ASSUME QueryInv, Ask PROVE QueryInv'
  <1>0. ~Ended /\ loop \in Nat /\ loop' = loop /\ loop < MaxLoop /\ 0 \in 0 .. MaxServers
    BY QueryAssumption DEF Ask, QueryInv, QueryTypeOK, Ended
  <1>1. CASE Conclude(0)  BY <1>0, <1>1, ConcludeOK
  <1>2. CASE End("died")
    BY <1>0, <1>2, EndOK, QueryAssumption
  <1>3. CASE qstep' = "asked" /\ ~Conclude(0) /\ ~End("died")
    <2> USE QueryAssumption, <1>0, <1>3 DEF Ask, QueryInv
    <2>1. ns' = [ns EXCEPT ![level] = 0] /\ asks' = asks + 1
          /\ UNCHANGED <<level, named, servers, alias>>
      BY DEF Budget, QueryTypeOK, Levels, AsksPaid
    <2>2. QueryTypeOK'  BY <2>1 DEF QueryTypeOK
    <2>3. NamesFreed'  BY <2>1 DEF NamesFreed, Ended
    <2>4. Budget'  BY <2>1 DEF Budget, QueryTypeOK, Levels
    <2>5. AsksPaid'  BY <2>1 DEF Budget, AsksPaid, QueryTypeOK, Levels
    <2> QED  BY <2>2, <2>3, <2>4, <2>5
  <1> QED  BY <1>1, <1>2, <1>3 DEF Ask

LEMMA NoAnswerOK == ASSUME QueryInv, NoAnswer PROVE QueryInv'
  <1>0. ~Ended /\ loop \in Nat /\ loop' = loop /\ loop < MaxLoop /\ 0 \in 0 .. MaxServers
    BY QueryAssumption DEF NoAnswer, QueryInv, QueryTypeOK, Ended
  <1> QED  BY <1>0, ConcludeOK DEF NoAnswer

LEMMA HavePacketOK == ASSUME QueryInv, HavePacket PROVE QueryInv'
  <1>0. /\ ~Ended /\ loop \in Nat /\ loop' \in Nat /\ loop <= loop' /\ loop' <= MaxLoop
        /\ loop' = loop + 1 /\ qstep = "asked"
    BY QueryAssumption DEF HavePacket, PacketCounted, QueryInv, QueryTypeOK, Ended
  <1>1. CASE End("died")  BY <1>0, <1>1, EndOK
  <1>2. CASE loop' # MaxLoop
    <2>0. loop' < MaxLoop  BY <1>0, <1>2, QueryAssumption
    <2>1. CASE \E n \in 0 .. MaxServers : Conclude(n)  BY <1>0, <2>0, <2>1, ConcludeOK
    <2>2. CASE Cname  BY <1>0, <2>0, <2>2, CnameOK
    <2>3. CASE Lame
      <3>1. ns' \in [Levels -> 0 .. MaxNs] /\ servers' \in [Levels -> 0 .. MaxServers]
        BY <2>3, QueryAssumption DEF Lame, QueryInv, QueryTypeOK
      <3> QED  BY <1>0, <2>0, <2>3, <3>1, HaveNsOK DEF Lame
    <2>4. CASE Referral
      <3>1. ns' \in [Levels -> 0 .. MaxNs] /\ servers' \in [Levels -> 0 .. MaxServers]
        BY <2>4, QueryAssumption DEF Referral, QueryInv, QueryTypeOK
      <3> QED  BY <1>0, <2>0, <2>4, <3>1, HaveNsOK DEF Referral
    <2> QED  BY <1>1, <1>2, <2>1, <2>2, <2>3, <2>4 DEF HavePacket
  <1> QED  BY <1>1, <1>2 DEF HavePacket

LEMMA Invariance == QuerySpec => []QueryInv
  <1>1. QueryInv /\ [QueryNext]_queryVars => QueryInv'
    <2> SUFFICES ASSUME QueryInv, [QueryNext]_queryVars PROVE QueryInv'  OBVIOUS
    <2>1. CASE QueryNext
      BY <2>1, NewNameOK, LookUpNsOK, AskOK, NoAnswerOK, HavePacketOK DEF QueryNext
    <2>2. CASE UNCHANGED queryVars
      BY <2>2 DEF queryVars, QueryInv, QueryTypeOK, NamesFreed, AsksPaid, Budget, Ended
    <2> QED  BY <2>1, <2>2
  <1> QED  BY QueryInitOK, <1>1, PTL DEF QuerySpec

\* However the cache, the roots and the packets answer: the names held by a
\* client's question in query.c are those of the levels at work, none is left
\* when it ends, and each question it sends was paid for by one step of loop.
THEOREM QueryHolds == QuerySpec => []QuerySafe
  <1>1. QueryInv => QuerySafe  BY DEF QueryInv, QuerySafe
  <1> QED  BY Invariance, <1>1, PTL

-----------------------------------------------------------------------------
\* dns_transmit.c: the tries of a question are numbered, first those by UDP,
\* round by round, then, from 0 again, those by TCP.  Of a try that is behind,
\* at a server that works, a time-out has been counted.
Asked    == {"connect", "send", "length", "body"}
Works(s) == nature[s] \in {"works", "truncates"}

TransmitTypeOK ==
  /\ tstep \in {"idle", "udp", "got", "failed"} \union Asked
  /\ try \in Nat /\ rounds \in {0, 1} /\ tcp \in BOOLEAN /\ broke \in BOOLEAN
  /\ nature \in [0 .. Servers - 1 -> Natures]
  /\ lost \in [0 .. Servers - 1 -> Nat]

\* The first try by UDP.
From == IF rounds = 1 THEN Servers ELSE 0

Where ==
  /\ tstep = "idle" => ~tcp
  /\ tstep = "udp" => ~tcp /\ try \in From .. 4 * Servers - 1
  /\ tstep \in Asked => tcp /\ try < Servers

BehindUdp(n) == \A k \in From .. n - 1 :
  Works(Server(k)) => lost[Server(k)] >= Round(k) + 1 - rounds
BehindTcp(n) == \A s \in 0 .. n - 1 : Works(s) => lost[s] >= 1

Behind ==
  /\ tstep = "udp" => BehindUdp(try)
  /\ tstep \in Asked => BehindTcp(try)

TransmitInv == TransmitTypeOK /\ Where /\ Behind /\ TransmitSafe

\* Which server and round a number stands for.
LEMMA Turns ==
  /\ \A k \in Nat : Server(k) \in 0 .. Servers - 1 /\ Round(k) \in Nat
  /\ \A s \in 0 .. Servers - 1 :
       /\ Server(s) = s /\ Round(s) = 0
       /\ Server(3 * Servers + s) = s /\ Round(3 * Servers + s) = 3
  <1> USE TransmitAssumption DEF Server, Round
  <1>1. \A k \in Nat : Server(k) \in 0 .. Servers - 1 /\ Round(k) \in Nat
    OBVIOUS
  <1>2. \A s \in 0 .. Servers - 1 : Server(s) = s /\ Round(s) = 0
    OBVIOUS
  <1>3. \A s \in 0 .. Servers - 1 :
          Server(3 * Servers + s) = s /\ Round(3 * Servers + s) = 3
    OBVIOUS
  <1> QED  BY <1>1, <1>2, <1>3

\* The try before, at the same server, is one round earlier.
LEMMA RoundBefore ==
  ASSUME NEW k \in Nat, k >= Servers
  PROVE  Server(k - Servers) = Server(k) /\ Round(k - Servers) = Round(k) - 1
  BY TransmitAssumption DEF Server, Round

LEMMA FirstRounds ==
  ASSUME NEW k \in Nat
  PROVE  /\ k < Servers => Round(k) = 0
         /\ k < 2 * Servers => Round(k) <= 1
  BY TransmitAssumption DEF Round

\* From try n on, by UDP: the servers passed over cannot be sent to.
LEMMA ThisUdpOK ==
  ASSUME TransmitTypeOK, ~tcp, HeldRight, tstep \in {"idle", "udp"},
         NEW n \in From .. 4 * Servers, ThisUdp(n),
         UNCHANGED <<rounds, nature, tcp>>, lost' \in [0 .. Servers - 1 -> Nat],
         \A k \in From .. n - 1 :
           Works(Server(k)) => lost'[Server(k)] >= Round(k) + 1 - rounds
  PROVE  TransmitInv'
  <1> USE TransmitAssumption DEF TransmitTypeOK
  <1>1. PICK m \in n .. 4 * Servers :
          /\ FirstTry(m, n, 4 * Servers)
          /\ \/ /\ m < 4 * Servers
                /\ tstep' = "udp" /\ try' = m /\ pos' = 0
                /\ held' = {"query", "socket"} \union (held \ {"socket"})
                /\ UNCHANGED broke
             \/ m = 4 * Servers /\ Free("failed") /\ UNCHANGED broke
             \/ m < 4 * Servers /\ Free("failed") /\ broke' = TRUE
    BY DEF ThisUdp
  <1>2. \A k \in From .. m - 1 :
          Works(Server(k)) => lost'[Server(k)] >= Round(k) + 1 - rounds
    <2> SUFFICES ASSUME NEW k \in From .. m - 1, Works(Server(k))
                 PROVE  lost'[Server(k)] >= Round(k) + 1 - rounds
      OBVIOUS
    <2>1. From \in Nat  BY DEF From
    <2>2. CASE k < n  BY <2>1, <2>2
    <2>3. CASE k >= n
      <3>1. ~Usable(Server(k))  BY <1>1, <2>1, <2>3 DEF FirstTry
      <3> QED  BY <3>1 DEF Usable, Works
    <2> QED  BY <2>1, <2>2, <2>3
  <1>3. From \in 0 .. Servers /\ m \in From .. 4 * Servers  BY DEF From
  <1>4. TransmitTypeOK'
    <2>1. broke' \in BOOLEAN /\ tcp' \in BOOLEAN  BY <1>1
    <2>2. tstep' \in {"udp", "failed"} /\ try' \in Nat  BY <1>1, <1>3 DEF Free
    <2> QED  BY <2>1, <2>2
  <1>5. Where'  BY <1>1, <1>3 DEF Where, Free, Asked, From
  <1>6. Behind'  BY <1>1, <1>2 DEF Behind, BehindUdp, Works, Free, Asked, From
  <1>7. HeldRight'  BY <1>1 DEF HeldRight, Free
  <1>8. EachHadItsChance'
    <2> SUFFICES ASSUME tstep' = "failed", ~broke', NEW s \in 0 .. Servers - 1, Works(s)
                 PROVE  lost'[s] >= 4 - rounds
      BY DEF EachHadItsChance, Works
    <2>1. m = 4 * Servers  BY <1>1
    <2>2. 3 * Servers + s \in From .. m - 1  BY <1>3, <2>1
    <2>3. Server(3 * Servers + s) = s /\ Round(3 * Servers + s) = 3
      BY Turns
    <2>4. lost'[s] >= 3 + 1 - rounds  BY <1>2, <2>2, <2>3
    <2> QED  BY <2>4
  <1> QED  BY <1>4, <1>5, <1>6, <1>7, <1>8 DEF TransmitInv, TransmitSafe

\* The same by TCP, where one time-out is all that a server gets.
LEMMA ThisTcpOK ==
  ASSUME TransmitTypeOK, HeldRight, tstep \in {"idle", "udp"} \union Asked,
         NEW n \in 0 .. Servers, ThisTcp(n),
         UNCHANGED <<rounds, nature>>, tcp' = TRUE, lost' \in [0 .. Servers - 1 -> Nat],
         \A s \in 0 .. n - 1 : Works(s) => lost'[s] >= 1
  PROVE  TransmitInv'
  <1> USE TransmitAssumption DEF TransmitTypeOK
  <1>1. PICK m \in n .. Servers :
          /\ FirstTry(m, n, Servers)
          /\ \/ /\ m < Servers
                /\ tstep' \in {"connect", "send"} /\ try' = m /\ pos' = 0
                /\ held' = {"query", "socket"} \union (held \ {"socket", "packet"})
                /\ UNCHANGED broke
             \/ m = Servers /\ Free("failed") /\ UNCHANGED broke
             \/ m < Servers /\ Free("failed") /\ broke' = TRUE
    BY DEF ThisTcp
  <1>2. \A s \in 0 .. m - 1 : Works(s) => lost'[s] >= 1
    <2> SUFFICES ASSUME NEW s \in 0 .. m - 1, Works(s), s >= n PROVE FALSE
      OBVIOUS
    <2>1. ~Usable(Server(s))  BY <1>1 DEF FirstTry
    <2>2. Server(s) = s  BY Turns
    <2> QED  BY <2>1, <2>2 DEF Usable, Works
  <1>3. TransmitTypeOK'
    <2>1. broke' \in BOOLEAN /\ tcp' \in BOOLEAN  BY <1>1
    <2>2. tstep' \in {"connect", "send", "failed"} /\ try' \in Nat  BY <1>1 DEF Free
    <2> QED  BY <2>1, <2>2 DEF Asked
  <1>4. Where'  BY <1>1 DEF Where, Free, Asked
  <1>5. Behind'  BY <1>1, <1>2 DEF Behind, BehindTcp, Works, Free, Asked
  <1>6. HeldRight'  BY <1>1 DEF HeldRight, Free, Asked
  <1>7. EachHadItsChance'
    <2> SUFFICES ASSUME tstep' = "failed", ~broke', NEW s \in 0 .. Servers - 1, Works(s)
                 PROVE  lost'[s] >= 1
      BY DEF EachHadItsChance, Works
    <2>1. m = Servers  BY <1>1
    <2> QED  BY <1>2, <2>1
  <1> QED  BY <1>3, <1>4, <1>5, <1>6, <1>7 DEF TransmitInv, TransmitSafe

\* The next try, when the one that ends was at a server that does not work, or
\* its time-out has been counted.
LEMMA NextTryOK ==
  ASSUME TransmitInv, Asking, NextTry, UNCHANGED <<rounds, nature, tcp>>,
         \/ lost' = lost /\ ~Works(Cur)
         \/ lost' = [lost EXCEPT ![Cur] = @ + 1]
  PROVE  TransmitInv'
  <1> USE TransmitAssumption DEF TransmitInv, TransmitSafe, TransmitTypeOK
  <1>1. Cur \in 0 .. Servers - 1  BY Turns DEF Cur
  <1>2. /\ lost' \in [0 .. Servers - 1 -> Nat]
        /\ \A s \in 0 .. Servers - 1 : lost'[s] >= lost[s]
        /\ Works(Cur) => lost'[Cur] = lost[Cur] + 1
    BY <1>1, SMTT(20)
  <1>3. CASE tstep = "udp"
    <2>1. ThisUdp(try + 1) /\ ~tcp  BY <1>3 DEF NextTry, Where
    <2>2. From \in 0 .. Servers /\ try \in From .. 4 * Servers - 1
      BY <1>3 DEF Where, From
    <2>3. ASSUME NEW k \in From .. try, Works(Server(k))
          PROVE  lost'[Server(k)] >= Round(k) + 1 - rounds
      <3>1. k \in Nat /\ Server(k) \in 0 .. Servers - 1 /\ Round(k) \in Nat
        <4>1. k \in Nat  BY <2>2
        <4> QED  BY <4>1, Turns
      <3>2. CASE k < try
        <4>1. lost[Server(k)] >= Round(k) + 1 - rounds
          BY <1>3, <2>2, <2>3, <3>2 DEF Behind, BehindUdp
        <4> QED  BY <1>2, <3>1, <4>1
      <3>3. CASE k = try
        <4>1. lost'[Server(k)] = lost[Server(k)] + 1  BY <1>2, <2>3, <3>3 DEF Cur
        <4>2. lost[Server(k)] >= Round(k) - rounds
          <5>0. lost[Server(k)] \in Nat  BY <3>1
          <5>1. CASE k < From + Servers
            <6>1. Round(k) <= rounds  BY <3>1, <5>1, FirstRounds DEF From
            <6> QED  BY <3>1, <5>0, <6>1
          <5>2. CASE k >= From + Servers
            <6>1. k >= Servers /\ k - Servers \in From .. try - 1
              BY <2>2, <3>1, <3>3, <5>2
            <6>2. /\ Server(k - Servers) = Server(k)
                  /\ Round(k - Servers) = Round(k) - 1
              BY <3>1, <6>1, RoundBefore
            <6>3. lost[Server(k)] >= (Round(k) - 1) + 1 - rounds
              BY <1>3, <2>3, <6>1, <6>2 DEF Behind, BehindUdp
            <6> QED  BY <3>1, <6>3
          <5> QED  BY <2>2, <3>1, <5>1, <5>2
        <4> QED  BY <3>1, <4>1, <4>2
      <3> QED  BY <2>2, <3>1, <3>2, <3>3
    <2>4. try + 1 \in From .. 4 * Servers  BY <2>2
    <2>5. \A k \in From .. (try + 1) - 1 :
            Works(Server(k)) => lost'[Server(k)] >= Round(k) + 1 - rounds
      BY <2>2, <2>3
    <2> QED  BY <1>2, <1>3, <2>1, <2>4, <2>5, ThisUdpOK
  <1>4. CASE tstep # "udp"
    <2>1. ThisTcp(try + 1) /\ tstep \in Asked /\ tcp /\ try < Servers
      BY <1>4 DEF NextTry, Asking, Asked, Where
    <2>2. Cur = try
      <3>1. try \in 0 .. Servers - 1  BY <2>1
      <3> QED  BY <3>1, Turns DEF Cur
    <2>3. ASSUME NEW s \in 0 .. (try + 1) - 1, Works(s) PROVE lost'[s] >= 1
      <3>1. s \in 0 .. Servers - 1 /\ lost[s] \in Nat  BY <2>1
      <3>2. CASE s = try  BY <1>2, <2>2, <2>3, <3>1, <3>2
      <3>3. CASE s < try
        <4>1. lost[s] >= 1  BY <2>1, <2>3, <3>3 DEF Behind, BehindTcp
        <4> QED  BY <1>2, <3>1, <4>1
      <3> QED  BY <3>2, <3>3
    <2>4. try + 1 \in 0 .. Servers  BY <2>1
    <2> QED  BY <1>2, <2>1, <2>3, <2>4, ThisTcpOK
  <1> QED  BY <1>3, <1>4

LEMMA FirstTcpOK ==
  ASSUME TransmitInv, tstep \in {"idle", "udp"}, FirstTcp, UNCHANGED <<rounds, nature>>
  PROVE  TransmitInv'
  <1> USE TransmitAssumption DEF TransmitInv, TransmitSafe, TransmitTypeOK
  <1>1. ThisTcp(0) /\ tcp' = TRUE /\ lost' \in [0 .. Servers - 1 -> Nat]
    BY DEF FirstTcp
  <1>2. \A s \in 0 .. 0 - 1 : Works(s) => lost'[s] >= 1  OBVIOUS
  <1>3. 0 \in 0 .. Servers  OBVIOUS
  <1> QED  BY <1>1, <1>2, <1>3, ThisTcpOK

LEMMA StartQuestionOK == ASSUME TransmitInv, StartQuestion PROVE TransmitInv'
  <1> USE TransmitAssumption DEF TransmitInv, TransmitSafe, TransmitTypeOK
  <1>1. CASE ThisUdp(rounds * Servers) /\ UNCHANGED <<tcp, lost>>
    <2>1. From = rounds * Servers /\ From \in From .. 4 * Servers  BY DEF From
    <2>2. ~tcp /\ tstep = "idle"  BY DEF StartQuestion, Where
    <2>3. ThisUdp(From)  BY <1>1, <2>1
    <2>4. \A k \in From .. From - 1 :
            Works(Server(k)) => lost'[Server(k)] >= Round(k) + 1 - rounds
      BY <2>1
    <2> QED  BY <1>1, <2>1, <2>2, <2>3, <2>4, ThisUdpOK DEF StartQuestion
  <1>2. CASE FirstTcp  BY <1>2, FirstTcpOK DEF StartQuestion
  <1> QED  BY <1>1, <1>2 DEF StartQuestion

\* A step within one try, an answer, or the end for want of memory.
LEMMA SameTryOK ==
  ASSUME TransmitInv, UNCHANGED <<rounds, nature, tcp, lost>>,
         \/ UdpAnswer \/ TcpWrite \/ TcpLength
         \/ TcpConnected /\ tstep' = "send" /\ UNCHANGED <<try, held, broke>>
         \/ tstep = "body" /\ UNCHANGED <<tstep, try, held, broke>>
         \/ tstep = "body" /\ tstep' = "got" /\ held' = {"packet"} /\ UNCHANGED <<try, broke>>
  PROVE  TransmitInv'
  <1> USE DEF TransmitInv, TransmitSafe, TransmitTypeOK, Asked, Free,
              UdpAnswer, TcpWrite, TcpLength, TcpConnected
  <1>1. TransmitTypeOK'  OBVIOUS
  <1>2. Where'  BY DEF Where
  <1>3. Behind'  BY DEF Where, Behind, BehindUdp, BehindTcp, Works
  <1>4. HeldRight'  BY DEF HeldRight
  <1>5. EachHadItsChance'  BY DEF EachHadItsChance
  <1> QED  BY <1>1, <1>2, <1>3, <1>4, <1>5

LEMMA TransmitInitOK == TransmitInit => TransmitInv
  <1> SUFFICES ASSUME TransmitInit PROVE TransmitInv  OBVIOUS
  <1> USE TransmitAssumption DEF TransmitInit
  <1>1. TransmitTypeOK  BY DEF TransmitTypeOK
  <1>2. Where /\ Behind  BY DEF Where, Behind, Asked
  <1>3. HeldRight /\ EachHadItsChance  BY DEF HeldRight, EachHadItsChance
  <1> QED  BY <1>1, <1>2, <1>3 DEF TransmitInv, TransmitSafe

LEMMA TransmitInvariance == TransmitSpec => []TransmitInv
  <1>1. TransmitInv /\ [TransmitNext]_transmitVars => TransmitInv'
    <2> SUFFICES ASSUME TransmitInv, [TransmitNext]_transmitVars PROVE TransmitInv'
      OBVIOUS
    <2>1. CASE StartQuestion  BY <2>1, StartQuestionOK
    <2>2. CASE Timeout
      BY <2>2, NextTryOK DEF Timeout, Frame
    <2>3. CASE UdpRefused \/ UdpFailed
      <3>1. Asking /\ NextTry /\ ~Works(Cur)
        BY <2>3 DEF UdpRefused, UdpFailed, Asking, Works
      <3> QED  BY <2>3, <3>1, NextTryOK DEF UdpRefused, UdpFailed, Same
    <2>4. CASE UdpTruncated
      BY <2>4, FirstTcpOK DEF UdpTruncated, Frame
    <2>5. CASE UdpAnswer \/ TcpWrite \/ TcpLength
      BY <2>5, SameTryOK DEF UdpAnswer, TcpWrite, TcpLength, Same
    <2>6. CASE TcpConnected
      <3>1. CASE TakesTcp(Cur)
        <4>1. tstep' = "send" /\ UNCHANGED <<try, held, broke>> /\ Same
          BY <2>6, <3>1 DEF TcpConnected
        <4> QED  BY <2>6, <4>1, SameTryOK DEF Same
      <3>2. CASE ~TakesTcp(Cur)
        <4>1. Asking /\ NextTry /\ ~Works(Cur) /\ Same
          BY <2>6, <3>2 DEF TcpConnected, Asking, TakesTcp, Works
        <4> QED  BY <4>1, NextTryOK DEF Same
      <3> QED  BY <3>1, <3>2
    <2>7. CASE TcpRead
      <3>1. CASE nature[Cur] = "fails" /\ NextTry
        <4>1. Asking /\ ~Works(Cur) /\ Same
          BY <2>7, <3>1 DEF TcpRead, Asking, Works
        <4> QED  BY <3>1, <4>1, NextTryOK DEF Same
      <3>2. CASE UNCHANGED <<tstep, try, held, broke>>
        BY <2>7, <3>2, SameTryOK DEF TcpRead, Same
      <3>3. CASE tstep' = "got" /\ held' = {"packet"} /\ UNCHANGED <<try, broke>>
        BY <2>7, <3>3, SameTryOK DEF TcpRead, Same
      <3> QED  BY <2>7, <3>1, <3>2, <3>3 DEF TcpRead
    <2>8. CASE UNCHANGED transmitVars
      <3> USE <2>8 DEF transmitVars
      <3>1. TransmitTypeOK' /\ Where'
        BY DEF TransmitInv, TransmitTypeOK, Where, From
      <3>2. Behind'  BY DEF TransmitInv, Behind, BehindUdp, BehindTcp, Works, From
      <3>3. TransmitSafe'
        BY DEF TransmitInv, TransmitSafe, HeldRight, EachHadItsChance
      <3> QED  BY <3>1, <3>2, <3>3 DEF TransmitInv
    <2> QED
      BY <2>1, <2>2, <2>3, <2>4, <2>5, <2>6, <2>7, <2>8 DEF TransmitNext
  <1> QED  BY TransmitInitOK, <1>1, PTL DEF TransmitSpec

\* For any number of servers, whatever each of them is like: on every way
\* through dns_transmit.c a question owns just what its place needs, and it
\* fails only after every server that works has timed out in every round.
THEOREM TransmitHolds == TransmitSpec => []TransmitSafe
  BY TransmitInvariance, PTL DEF TransmitInv

-----------------------------------------------------------------------------
\* qmerge.c and the main loop of dnscache.c: only an entry that a live client
\* waits for, and whose turn to look is still to come, needs a get; a place
\* that is free holds nothing until a client has been dropped.
Moving == \A e \in Entry : state[e] = 1 =>
  /\ poller[e] \in live /\ qm[poller[e]] = e
  /\ 1 <= turn /\ turn <= poller[e]
Quiet == ~dropped => \A c \in Client \ live : qm[c] = 0

QmergeInv ==
  QmergeTypeOK /\ HoldersCounted /\ NoneTwice /\ Moving /\ Quiet /\ ServersStay

\* A set of naturals that is not empty has a least element.
LEMMA LeastNat ==
  ASSUME NEW T \in SUBSET Nat, T # {}
  PROVE  \E m \in T : \A k \in T : m <= k
  <1> DEFINE R == {ss \in Nat \X Nat : ss[1] < ss[2]}
  <1>1. IsWellFoundedOn(R, Nat)  BY NatLessThanWellFounded, Zenon DEF OpToRel
  <1>2. PICK m \in T : \A k \in T : <<k, m>> \notin R  BY <1>1, WFMin, Zenon
  <1>3. ASSUME NEW k \in T PROVE m <= k
    <2>1. <<k, m>> \notin R  BY <1>2
    <2>2. k \in Nat /\ m \in Nat  OBVIOUS
    <2> QED  BY <2>1, <2>2
  <1> QED  BY <1>3

LEMMA LowestIn == ASSUME NEW T \in SUBSET Nat, T # {} PROVE Lowest(T) \in T
  BY LeastNat DEF Lowest

\* Whoever else holds an entry: their number is its count without c.
LEMMA FreedCounts ==
  ASSUME QmergeTypeOK, HoldersCounted, NEW c \in Client, NEW e \in Entry
  PROVE  /\ IsFiniteSet(Holders(e) \ {c})
         /\ Freed(c)[e] = Cardinality(Holders(e) \ {c}) /\ Freed(c)[e] \in Nat
         /\ Freed(c)[e] <= active[e]
  <1> USE QmergeAssumption DEF QmergeTypeOK, Client, Entry
  <1>1. IsFiniteSet(Holders(e))
    <2>1. IsFiniteSet(1 .. MaxClient)  BY FS_Interval
    <2> QED  BY <2>1, FS_Subset DEF Holders
  <1>2. active[e] = Cardinality(Holders(e)) /\ active[e] \in Nat
    BY DEF HoldersCounted
  <1>3. IsFiniteSet(Holders(e) \ {c})  BY <1>1, FS_RemoveElement
  <1>0. Freed(c)[e] = IF e = qm[c] /\ active[e] > 0 THEN active[e] - 1 ELSE active[e]
    BY DEF Freed
  <1>4. CASE qm[c] = e
    <2>1. c \in Holders(e)  BY <1>4 DEF Holders
    <2>2. Cardinality(Holders(e) \ {c}) = Cardinality(Holders(e)) - 1
      BY <1>1, <2>1, FS_RemoveElement
    <2>3. Cardinality(Holders(e) \ {c}) \in Nat  BY <1>3, FS_CardinalityType
    <2>4. active[e] > 0 /\ active[e] - 1 = Cardinality(Holders(e) \ {c})
      BY <1>2, <2>2, <2>3, SMTT(20)
    <2>5. Freed(c)[e] = active[e] - 1  BY <1>0, <1>4, <2>4
    <2>6. active[e] - 1 <= active[e]  BY <1>2
    <2> QED  BY <1>3, <2>3, <2>4, <2>5, <2>6
  <1>5. CASE qm[c] # e
    <2>1. Holders(e) \ {c} = Holders(e)  BY <1>5 DEF Holders
    <2>2. Freed(c)[e] = active[e]  BY <1>0, <1>5
    <2>3. Cardinality(Holders(e) \ {c}) = active[e]  BY <1>2, <2>1
    <2>4. active[e] <= active[e]  BY <1>2
    <2> QED  BY <1>2, <1>3, <2>2, <2>3, <2>4
  <1> QED  BY <1>4, <1>5

LEMMA FreedType ==
  ASSUME QmergeTypeOK, HoldersCounted, NEW c \in Client
  PROVE  Freed(c) \in [Entry -> Nat]
  <1>1. \A e \in Entry : Freed(c)[e] \in Nat  BY FreedCounts
  <1> QED  BY <1>1 DEF Freed

\* There are as many entries as clients, so one is free without c.
LEMMA RoomOK == ASSUME QmergeTypeOK, HoldersCounted PROVE RoomForOne
  <1> SUFFICES ASSUME NEW c \in Client, \A e \in Entry : Freed(c)[e] # 0 PROVE FALSE
    BY DEF RoomForOne
  <1> USE QmergeAssumption
  <1>1. \A e \in Entry : \E b \in Client \ {c} : qm[b] = e
    <2> SUFFICES ASSUME NEW e \in Entry, Holders(e) \ {c} = {} PROVE FALSE
      BY DEF Holders
    <2>1. Freed(c)[e] = Cardinality({})  BY FreedCounts
    <2> QED  BY <2>1, FS_EmptySet
  <1> DEFINE g == [b \in Client \ {c} |-> IF qm[b] \in Entry THEN qm[b] ELSE 1]
  <1>2. g \in Surjection(Client \ {c}, Entry)
    <2>1. g \in [Client \ {c} -> Entry]  BY DEF Entry
    <2>2. \A e \in Entry : \E b \in Client \ {c} : g[b] = e  BY <1>1
    <2> QED  BY <2>1, <2>2 DEF Surjection
  <1>3. /\ IsFiniteSet(Client) /\ Cardinality(Client) = MaxClient
        /\ Cardinality(Entry) = MaxClient
    BY FS_Interval DEF Client, Entry
  <1>4. IsFiniteSet(Client \ {c}) /\ Cardinality(Client \ {c}) = MaxClient - 1
    BY <1>3, FS_RemoveElement
  <1>5. Cardinality(Entry) <= Cardinality(Client \ {c})  BY <1>2, <1>4, FS_Surjection
  <1> QED  BY <1>3, <1>4, <1>5

\* qmerge_free() counts the query out.
LEMMA LetGoOK ==
  ASSUME QmergeTypeOK, HoldersCounted, NEW c \in Client, LetGo(c)
  PROVE  /\ HoldersCounted' /\ active' \in [Entry -> Nat]
         /\ qm' = [qm EXCEPT ![c] = 0] /\ UNCHANGED <<key, wants, starter>>
         /\ \A e \in Entry : active'[e] <= active[e]
  <1> USE DEF QmergeTypeOK
  <1>1. /\ active' = Freed(c) /\ qm' = [qm EXCEPT ![c] = 0]
        /\ UNCHANGED <<key, wants, starter>>
    BY DEF LetGo
  <1>2. active' \in [Entry -> Nat] /\ \A e \in Entry : active'[e] <= active[e]
    BY <1>1, FreedType, FreedCounts
  <1>3. \A e \in Entry : Holders(e)' = Holders(e) \ {c}
    <2> SUFFICES ASSUME NEW e \in Entry
                 PROVE  \A b \in Client : qm'[b] = e <=> qm[b] = e /\ b # c
      BY DEF Holders
    <2>1. e # 0  BY QmergeAssumption DEF Entry
    <2> QED  BY <1>1, <2>1
  <1>4. ASSUME NEW e \in Entry PROVE active'[e] = Cardinality(Holders(e)')
    BY <1>1, <1>3, FreedCounts
  <1>5. ASSUME NEW e \in Entry, NEW b \in Holders(e)' PROVE wants'[b] = key'[e]
    BY <1>1, <1>3, <1>5 DEF HoldersCounted
  <1>6. HoldersCounted'  BY <1>4, <1>5 DEF HoldersCounted
  <1> QED  BY <1>1, <1>2, <1>6

\* qmerge_start(): the query holds entry e and no other, which is one that asks
\* the same or one that nobody else holds.
LEMMA StartQueryOK ==
  ASSUME QmergeTypeOK, HoldersCounted, NoneTwice, NEW c \in Client, NEW k \in QKey,
         NEW states, StartQuery(c, k, states)
  PROVE  \E e \in Entry :
           /\ HoldersCounted' /\ active' \in [Entry -> Nat]
           /\ qm' = [qm EXCEPT ![c] = e]
           /\ key' = [key EXCEPT ![e] = k] /\ wants' = [wants EXCEPT ![c] = k]
           /\ \A f \in Entry : active'[f] > 0 => f = e \/ active[f] > 0
           /\ \A f, g \in Entry :
                active'[f] > 0 /\ active'[g] > 0 /\ key'[f] = key'[g] => f = g
           /\ \/ active[e] > 0 /\ state' = states /\ starter' = starter
              \/ /\ \A b \in Client : qm[b] = e => b = c
                 /\ state' = [states EXCEPT ![e] = 0]
                 /\ starter' = [starter EXCEPT ![e] = c]
  <1> USE DEF QmergeTypeOK
  <1> DEFINE left == Freed(c)
             same == {e \in Entry : left[e] > 0 /\ key[e] = k}
             spare == {e \in Entry : left[e] = 0}
             e == IF same # {} THEN Lowest(same) ELSE Lowest(spare)
  <1>1. /\ same \union spare # {}
        /\ active' = [left EXCEPT ![e] = @ + 1]
        /\ qm' = [qm EXCEPT ![c] = e]
        /\ key' = [key EXCEPT ![e] = k]
        /\ wants' = [wants EXCEPT ![c] = k]
        /\ state' = IF same # {} THEN states ELSE [states EXCEPT ![e] = 0]
        /\ starter' = IF same # {} THEN starter ELSE [starter EXCEPT ![e] = c]
    BY DEF StartQuery
  <1>2. same \in SUBSET Nat /\ spare \in SUBSET Nat  BY QmergeAssumption DEF Entry
  <1>3. IF same # {} THEN e \in same ELSE e \in spare
    <2> HIDE DEF same, spare
    <2> QED  BY <1>1, <1>2, LowestIn
  <1>4. /\ left \in [Entry -> Nat]
        /\ \A f \in Entry : left[f] = Cardinality(Holders(f) \ {c}) /\ left[f] <= active[f]
        /\ \A f \in Entry : IsFiniteSet(Holders(f) \ {c})
    BY FreedType, FreedCounts
  <1>5. /\ e \in Entry
        /\ same # {} => left[e] > 0 /\ key[e] = k
        /\ same = {} => left[e] = 0 /\ \A f \in Entry : left[f] > 0 => key[f] # k
    BY <1>3, <1>4
  <1> HIDE DEF left, e
  <1>6. \A f \in Entry : Holders(f)' = IF f = e THEN (Holders(f) \ {c}) \union {c}
                                               ELSE Holders(f) \ {c}
    BY <1>1, <1>5 DEF Holders
  <1>7. active' \in [Entry -> Nat] /\ \A f \in Entry :
          active'[f] = IF f = e THEN left[f] + 1 ELSE left[f]
    BY <1>1, <1>4, <1>5
  <1>8. HoldersCounted'
    <2>1. ASSUME NEW f \in Entry PROVE active'[f] = Cardinality(Holders(f)')
      <3>1. Cardinality((Holders(e) \ {c}) \union {c}) = Cardinality(Holders(e) \ {c}) + 1
        BY <1>4, <1>5, FS_AddElement
      <3> QED  BY <1>4, <1>5, <1>6, <1>7, <3>1
    <2>2. ASSUME NEW f \in Entry, NEW b \in Holders(f)' PROVE wants'[b] = key'[f]
      <3>1. CASE b = c
        <4>1. f = e  BY <1>6, <2>2, <3>1
        <4> QED  BY <1>1, <1>5, <3>1, <4>1
      <3>2. CASE b # c
        <4>1. b \in Holders(f) \ {c} /\ wants[b] = key[f] /\ wants'[b] = wants[b]
          BY <1>1, <1>6, <2>2, <3>2 DEF HoldersCounted, Holders
        <4>2. CASE f # e  BY <1>1, <1>5, <4>1, <4>2
        <4>3. CASE f = e
          <5>1. Holders(e) \ {c} # {}  BY <4>1, <4>3
          <5>2. left[e] # 0  BY <1>4, <1>5, <5>1, FS_EmptySet
          <5> QED  BY <1>1, <1>5, <4>1, <4>3, <5>2
        <4> QED  BY <4>2, <4>3
      <3> QED  BY <3>1, <3>2
    <2> QED  BY <2>1, <2>2 DEF HoldersCounted
  <1>9. \A f \in Entry : active'[f] > 0 => f = e \/ (left[f] > 0 /\ active[f] > 0)
    <2> SUFFICES ASSUME NEW f \in Entry, active'[f] > 0, f # e
                 PROVE  left[f] > 0 /\ active[f] > 0
      OBVIOUS
    <2>1. active'[f] = left[f]  BY <1>7
    <2>2. left[f] \in Nat /\ active[f] \in Nat /\ left[f] <= active[f]  BY <1>4
    <2> QED  BY <2>1, <2>2
  <1>10. ASSUME NEW f \in Entry, NEW g \in Entry,
                active'[f] > 0, active'[g] > 0, key'[f] = key'[g]
         PROVE  f = g
    <2>1. ASSUME NEW h \in Entry, h # e, active'[h] > 0, key'[h] = k PROVE FALSE
      <3>1. left[h] > 0 /\ active[h] > 0 /\ key[h] = k  BY <1>1, <1>5, <1>9, <2>1
      <3>2. same # {} /\ left[e] > 0 /\ key[e] = k  BY <1>5, <3>1
      <3>3. active[e] > 0
        <4>1. left[e] \in Nat /\ active[e] \in Nat /\ left[e] <= active[e]
          BY <1>4, <1>5
        <4> QED  BY <3>2, <4>1
      <3> QED  BY <1>5, <2>1, <3>1, <3>2, <3>3 DEF NoneTwice
    <2>2. key'[e] = k  BY <1>1, <1>5
    <2>3. CASE f # e /\ g # e
      <3>1. active[f] > 0 /\ active[g] > 0 /\ key[f] = key[g]
        BY <1>1, <1>5, <1>9, <1>10, <2>3
      <3> QED  BY <3>1 DEF NoneTwice
    <2> QED  BY <1>10, <2>1, <2>2, <2>3
  <1>11. \/ active[e] > 0 /\ state' = states /\ starter' = starter
         \/ /\ \A b \in Client : qm[b] = e => b = c
            /\ state' = [states EXCEPT ![e] = 0]
            /\ starter' = [starter EXCEPT ![e] = c]
    <2>1. CASE same # {}
      <3>1. active[e] > 0
        <4>1. left[e] \in Nat /\ active[e] \in Nat /\ left[e] <= active[e]
          BY <1>4, <1>5
        <4> QED  BY <1>5, <2>1, <4>1
      <3> QED  BY <1>1, <2>1, <3>1
    <2>2. CASE same = {}
      <3>1. Holders(e) \ {c} = {}  BY <1>4, <1>5, <2>2, FS_EmptySet
      <3> QED  BY <1>1, <2>2, <3>1 DEF Holders
    <2> QED  BY <2>1, <2>2
  <1> QED  BY <1>1, <1>5, <1>7, <1>8, <1>9, <1>10, <1>11

\* A server starts with no query: no entry is held.
LEMMA QmergeInitOK == QmergeInit => QmergeInv
  <1> SUFFICES ASSUME QmergeInit PROVE QmergeInv
    OBVIOUS
  <1>0. 0 \in 0 .. MaxClient + 1  BY QmergeAssumption
  <1> USE QmergeAssumption DEF QmergeInit
  <1>1. QmergeTypeOK
    <2> DEFINE k == CHOOSE k \in QKey : TRUE
    <2>1. k \in QKey  OBVIOUS
    <2>2. key = [e \in Entry |-> k] /\ wants = [c \in Client |-> k]  OBVIOUS
    <2> HIDE DEF k
    <2>3. key \in [Entry -> QKey] /\ wants \in [Client -> QKey]  BY <2>1, <2>2
    <2>4. MaxClient \in Nat \ {0}  OBVIOUS
    <2>5. /\ live \subseteq Client /\ qm \in [Client -> 0 .. MaxClient]
          /\ active \in [Entry -> Nat] /\ state \in [Entry -> {-1, 0, 1, 2}]
          /\ poller \in [Entry -> 0 .. MaxClient]
      BY <2>4
    <2>6. turn \in 0 .. MaxClient + 1 /\ dropped \in BOOLEAN  BY <1>0
    <2>7. starter \in [Entry -> Client]  BY <2>4 DEF Client
    <2> QED  BY <2>3, <2>5, <2>6, <2>7 DEF QmergeTypeOK
  <1>2. \A e \in Entry : Holders(e) = {}  BY DEF Holders, Entry
  <1>3. HoldersCounted  BY <1>2, FS_EmptySet DEF HoldersCounted
  <1>4. NoneTwice /\ Moving /\ Quiet /\ ServersStay
    BY DEF NoneTwice, Moving, Quiet, ServersStay
  <1> QED  BY <1>1, <1>3, <1>4 DEF QmergeInv

\* No transmission needs a get outside the turns in which the clients look.
LEMMA NoneMoving ==
  ASSUME QmergeTypeOK, Moving, turn = 0 \/ turn = MaxClient + 1
  PROVE  \A e \in Entry : state[e] # 1
  <1> SUFFICES ASSUME NEW e \in Entry, state[e] = 1 PROVE FALSE
    OBVIOUS
  <1>1. poller[e] \in 0 .. MaxClient /\ 1 <= turn /\ turn <= poller[e]
    BY DEF Moving, QmergeTypeOK
  <1> QED  BY <1>1, QmergeAssumption

\* What qmerge_get() makes of an entry: a query goes on when its transmission
\* is over, and when it does not, nothing but the need of a get is gone.
LEMMA GotOK ==
  ASSUME QmergeTypeOK, NoneTwice, NEW c \in live
  PROVE  /\ c \in Client /\ qm[c] \in Entry
         /\ Got(c) \ {0} \subseteq {-1, 2}
         /\ 0 \in Got(c) => state[qm[c]] \in {0, 1}
  <1>1. c \in Client /\ qm[c] \in Entry
    BY QmergeAssumption DEF QmergeTypeOK, NoneTwice, Entry
  <1>2. state[qm[c]] \in {-1, 0, 1, 2}  BY <1>1 DEF QmergeTypeOK
  <1>3. CASE state[qm[c]] = 1
    <2>1. Got(c) \subseteq {-1, 0, 2}  BY <1>3 DEF Got
    <2> QED  BY <1>1, <1>3, <2>1
  <1>4. CASE state[qm[c]] # 1
    <2>1. Got(c) = {state[qm[c]]}  BY <1>4 DEF Got
    <2> QED  BY <1>1, <1>2, <1>4, <2>1
  <1> QED  BY <1>3, <1>4

\* query_io() for every client: the first at an entry waits for it.
LEMMA SetUpOK == QmergeInv /\ SetUp => QmergeInv'
  <1> SUFFICES ASSUME QmergeInv, SetUp PROVE QmergeInv'
    OBVIOUS
  <1> USE DEF QmergeInv
  <1> DEFINE waits(e) == {c \in live : qm[c] = e}
             first(e) == IF state[e] = 0 /\ waits(e) # {} THEN Lowest(waits(e)) ELSE 0
  <1>1. /\ turn = 0 /\ turn' = 1
        /\ poller' = [e \in Entry |-> first(e)]
        /\ state' = [e \in Entry |-> IF first(e) # 0 THEN 1 ELSE state[e]]
        /\ UNCHANGED <<live, qm, active, key, wants, starter, dropped>>
    BY DEF SetUp
  <1>2. \A e \in Entry : state[e] # 1  BY <1>1, NoneMoving
  <1>3. ASSUME NEW e \in Entry
        PROVE  \/ first(e) = 0
               \/ /\ state[e] = 0 /\ first(e) \in live /\ qm[first(e)] = e
                  /\ first(e) \in Client
    <2>1. waits(e) \in SUBSET Nat /\ live \subseteq Client
      <3>1. live \subseteq Client  BY DEF QmergeTypeOK
      <3>2. Client \subseteq Nat  BY QmergeAssumption DEF Client
      <3>3. waits(e) \subseteq live  OBVIOUS
      <3> HIDE DEF waits
      <3> QED  BY <3>1, <3>2, <3>3
    <2>2. CASE state[e] = 0 /\ waits(e) # {}
      <3>1. first(e) = Lowest(waits(e))
        <4> HIDE DEF waits
        <4> QED  BY <2>2
      <3>2. Lowest(waits(e)) \in waits(e)
        <4> HIDE DEF waits
        <4> QED  BY <2>1, <2>2, LowestIn
      <3>3. Lowest(waits(e)) \in live /\ qm[Lowest(waits(e))] = e
        <4> DEFINE b == Lowest(waits(e))
        <4>1. b \in waits(e)  BY <3>2
        <4> HIDE DEF b
        <4>2. b \in live /\ qm[b] = e  BY <4>1
        <4> QED  BY <4>2 DEF b
      <3> HIDE DEF waits, first
      <3> QED  BY <2>1, <2>2, <3>1, <3>3
    <2>3. CASE ~(state[e] = 0 /\ waits(e) # {})  BY <2>3
    <2> QED  BY <2>2, <2>3
  <1> HIDE DEF first
  <1>4. QmergeTypeOK'
    <2>1. poller' \in [Entry -> 0 .. MaxClient]
      BY <1>1, <1>3, QmergeAssumption DEF Client
    <2>2. state' \in [Entry -> {-1, 0, 1, 2}]  BY <1>1 DEF QmergeTypeOK
    <2> QED  BY <1>1, <2>1, <2>2, QmergeAssumption DEF QmergeTypeOK
  <1>5. HoldersCounted' /\ NoneTwice' /\ Quiet'
    BY <1>1 DEF HoldersCounted, Holders, NoneTwice, Quiet
  <1>6. Moving'
    <2> SUFFICES ASSUME NEW e \in Entry, state'[e] = 1
                 PROVE  poller'[e] \in live /\ qm[poller'[e]] = e /\ 1 <= poller'[e]
      BY <1>1 DEF Moving
    <2>1. first(e) # 0 /\ poller'[e] = first(e)  BY <1>1, <1>2
    <2> QED  BY <1>3, <2>1, QmergeAssumption DEF Client
  <1>7. ServersStay'
    <2> SUFFICES ASSUME ~dropped, NEW e \in Entry, active[e] > 0, state'[e] \in {0, 1}
                 PROVE  qm[starter[e]] = e
      BY <1>1 DEF ServersStay
    <2>1. state[e] \in {0, 1}  BY <1>1, <1>3
    <2> QED  BY <2>1 DEF ServersStay
  <1> QED  BY <1>4, <1>5, <1>6, <1>7

\* query_get() says to wait on.
LEMMA LookNothingOK ==
  ASSUME QmergeInv, NEW c \in Client, LookNothing(c) PROVE QmergeInv'
  <1> USE DEF QmergeInv
  <1>1. /\ turn = c /\ c \in live /\ 0 \in Got(c) /\ turn' = c + 1
        /\ state' = [state EXCEPT ![qm[c]] = 0]
        /\ UNCHANGED <<live, qm, active, key, poller, wants, starter, dropped>>
    BY DEF LookNothing
  <1>2. qm[c] \in Entry /\ state[qm[c]] \in {0, 1}  BY <1>1, GotOK
  <1>3. QmergeTypeOK'
    <2>1. c + 1 \in 0 .. MaxClient + 1  BY QmergeAssumption DEF Client
    <2>2. state' \in [Entry -> {-1, 0, 1, 2}]  BY <1>1 DEF QmergeTypeOK
    <2> QED  BY <1>1, <2>1, <2>2 DEF QmergeTypeOK
  <1>4. HoldersCounted' /\ NoneTwice' /\ Quiet'
    BY <1>1 DEF HoldersCounted, Holders, NoneTwice, Quiet
  <1>5. \A e \in Entry : state'[e] = IF e = qm[c] THEN 0 ELSE state[e]
    BY <1>1 DEF QmergeTypeOK
  <1>6. Moving'
    <2> SUFFICES ASSUME NEW e \in Entry, state'[e] = 1
                 PROVE  /\ poller[e] \in live /\ qm[poller[e]] = e
                        /\ 1 <= c + 1 /\ c + 1 <= poller[e]
      BY <1>1 DEF Moving
    <2>1. e # qm[c] /\ state[e] = 1  BY <1>5
    <2>2. poller[e] \in live /\ qm[poller[e]] = e /\ c <= poller[e]
      BY <1>1, <2>1 DEF Moving
    <2>3. poller[e] # c /\ poller[e] \in 0 .. MaxClient
      BY <2>1, <2>2 DEF QmergeTypeOK
    <2> QED  BY <2>2, <2>3, QmergeAssumption DEF Client
  <1>7. ServersStay'  BY <1>1, <1>2, <1>5 DEF ServersStay
  <1> QED  BY <1>3, <1>4, <1>6, <1>7

\* While client c looks, only its own entry stops to need a get; those of the
\* clients still to look keep theirs.
LEMMA MovingStays ==
  ASSUME QmergeTypeOK, Moving, NEW c \in Client, turn = c, turn' = c + 1,
         live \ {c} \subseteq live', UNCHANGED poller,
         \A b \in Client : b # c => qm'[b] = qm[b],
         \A e \in Entry : state'[e] = 1 => state[e] = 1 /\ e # qm[c]
  PROVE  Moving'
  <1> SUFFICES ASSUME NEW e \in Entry, state'[e] = 1
               PROVE  /\ poller[e] \in live' /\ qm'[poller[e]] = e
                      /\ 1 <= c + 1 /\ c + 1 <= poller[e]
    BY DEF Moving
  <1>1. state[e] = 1 /\ e # qm[c]  OBVIOUS
  <1>2. poller[e] \in live /\ qm[poller[e]] = e /\ c <= poller[e]  BY <1>1 DEF Moving
  <1>3. poller[e] # c /\ poller[e] \in Client  BY <1>1, <1>2 DEF QmergeTypeOK
  <1> QED  BY <1>2, <1>3, QmergeAssumption DEF Client

\* The query of client c is over: it has got its answer, or none.
LEMMA LookEndsOK ==
  ASSUME QmergeInv, NEW c \in Client, LookEnds(c) PROVE QmergeInv'
  <1> USE DEF QmergeInv
  <1>1. /\ turn = c /\ c \in live /\ LetGo(c) /\ live' = live \ {c} /\ turn' = c + 1
        /\ UNCHANGED <<poller, dropped>>
    BY DEF LookEnds
  <1>2. PICK s \in Got(c) \ {0} : state' = [state EXCEPT ![qm[c]] = s]  BY DEF LookEnds
  <1>3. qm[c] \in Entry /\ s \in {-1, 2}  BY <1>1, GotOK
  <1>4. /\ HoldersCounted' /\ active' \in [Entry -> Nat]
        /\ qm' = [qm EXCEPT ![c] = 0] /\ UNCHANGED <<key, wants, starter>>
        /\ \A e \in Entry : active'[e] <= active[e]
    BY <1>1, LetGoOK
  <1>5. /\ \A e \in Entry : state'[e] = IF e = qm[c] THEN s ELSE state[e]
        /\ \A b \in Client : qm'[b] = IF b = c THEN 0 ELSE qm[b]
    BY <1>2, <1>4 DEF QmergeTypeOK
  <1>6. QmergeTypeOK'
    <2>1. c + 1 \in 0 .. MaxClient + 1 /\ 0 \in 0 .. MaxClient
      BY QmergeAssumption DEF Client
    <2>2. state' \in [Entry -> {-1, 0, 1, 2}] /\ qm' \in [Client -> 0 .. MaxClient]
      BY <1>2, <1>3, <1>4, <2>1 DEF QmergeTypeOK
    <2>3. live' \subseteq Client  BY <1>1 DEF QmergeTypeOK
    <2> QED  BY <1>1, <1>4, <2>1, <2>2, <2>3 DEF QmergeTypeOK
  <1>7. \A e \in Entry : active'[e] > 0 => active[e] > 0
    BY <1>4 DEF QmergeTypeOK
  <1>8. NoneTwice' /\ Quiet'
    BY <1>1, <1>4, <1>5, <1>7 DEF NoneTwice, Quiet, QmergeTypeOK
  <1>9. Moving'
    <2>1. \A e \in Entry : state'[e] = 1 => state[e] = 1 /\ e # qm[c]
      BY <1>3, <1>5
    <2>2. live \ {c} \subseteq live' /\ \A b \in Client : b # c => qm'[b] = qm[b]
      BY <1>1, <1>5
    <2> QED  BY <1>1, <2>1, <2>2, MovingStays
  <1>10. ServersStay'
    <2> SUFFICES ASSUME ~dropped, NEW e \in Entry, active'[e] > 0, state'[e] \in {0, 1}
                 PROVE  qm'[starter[e]] = e
      BY <1>1, <1>4 DEF ServersStay
    <2>1. e # qm[c] /\ state[e] \in {0, 1} /\ active[e] > 0  BY <1>3, <1>5, <1>7
    <2>2. qm[starter[e]] = e  BY <2>1 DEF ServersStay
    <2>3. starter[e] # c /\ starter[e] \in Client  BY <2>1, <2>2 DEF QmergeTypeOK
    <2> QED  BY <1>5, <2>2, <2>3
  <1> QED  BY <1>4, <1>6, <1>8, <1>9, <1>10

\* The query of client c asks on.
LEMMA LookAsksOK ==
  ASSUME QmergeInv, NEW c \in Client, NEW k \in QKey, LookAsks(c, k) PROVE QmergeInv'
  <1> USE DEF QmergeInv
  <1>1. turn = c /\ c \in live /\ turn' = c + 1 /\ UNCHANGED <<live, poller, dropped>>
    BY DEF LookAsks
  <1>2. PICK s \in Got(c) \ {0} : StartQuery(c, k, [state EXCEPT ![qm[c]] = s])
    BY DEF LookAsks
  <1>3. qm[c] \in Entry /\ s \in {-1, 2}  BY <1>1, GotOK
  <1> DEFINE states == [state EXCEPT ![qm[c]] = s]
  <1>12. /\ states \in [Entry -> {-1, 0, 1, 2}]
         /\ \A f \in Entry : states[f] = IF f = qm[c] THEN s ELSE state[f]
    BY <1>3 DEF QmergeTypeOK
  <1>13. StartQuery(c, k, states)  BY <1>2
  <1> HIDE DEF states
  <1>4. PICK e \in Entry :
           /\ HoldersCounted' /\ active' \in [Entry -> Nat]
           /\ qm' = [qm EXCEPT ![c] = e]
           /\ key' = [key EXCEPT ![e] = k] /\ wants' = [wants EXCEPT ![c] = k]
           /\ \A f \in Entry : active'[f] > 0 => f = e \/ active[f] > 0
           /\ \A f, g \in Entry :
                active'[f] > 0 /\ active'[g] > 0 /\ key'[f] = key'[g] => f = g
           /\ \/ active[e] > 0 /\ state' = states /\ starter' = starter
              \/ /\ \A b \in Client : qm[b] = e => b = c
                 /\ state' = [states EXCEPT ![e] = 0]
                 /\ starter' = [starter EXCEPT ![e] = c]
    BY <1>13, StartQueryOK
  <1>5. /\ states \in [Entry -> {-1, 0, 1, 2}]
        /\ \A f \in Entry : states[f] = IF f = qm[c] THEN s ELSE state[f]
        /\ \A b \in Client : qm'[b] = IF b = c THEN e ELSE qm[b]
    BY <1>4, <1>12 DEF QmergeTypeOK
  <1>6. QmergeTypeOK'
    <2>1. e \in 0 .. MaxClient /\ c + 1 \in 0 .. MaxClient + 1
      BY QmergeAssumption DEF Entry, Client
    <2>2. /\ qm' \in [Client -> 0 .. MaxClient] /\ key' \in [Entry -> QKey]
          /\ wants' \in [Client -> QKey]
      BY <1>4, <2>1 DEF QmergeTypeOK
    <2>3. state' \in [Entry -> {-1, 0, 1, 2}] /\ starter' \in [Entry -> Client]
      BY <1>4, <1>5, ZenonT(30) DEF QmergeTypeOK
    <2> QED  BY <1>1, <1>4, <2>1, <2>2, <2>3 DEF QmergeTypeOK
  <1>7. NoneTwice'
    <2>1. \A b \in live : qm'[b] # 0
      BY <1>5, QmergeAssumption DEF NoneTwice, QmergeTypeOK, Entry
    <2> QED  BY <1>1, <1>4, <2>1 DEF NoneTwice
  <1>8. Quiet'  BY <1>1, <1>5 DEF Quiet
  <1>9. \A f \in Entry : state'[f] = 1 => state[f] = 1 /\ f # qm[c]
    BY <1>3, <1>4, <1>5
  <1>10. Moving'
    <2>1. live \ {c} \subseteq live' /\ \A b \in Client : b # c => qm'[b] = qm[b]
      BY <1>1, <1>5
    <2> QED  BY <1>1, <1>9, <2>1, MovingStays
  <1>11. ServersStay'
    <2> SUFFICES ASSUME ~dropped, NEW f \in Entry, active'[f] > 0, state'[f] \in {0, 1}
                 PROVE  qm'[starter'[f]] = f
      BY <1>1 DEF ServersStay
    <2>1. CASE f = e /\ starter' = [starter EXCEPT ![e] = c]
      BY <1>5, <2>1 DEF QmergeTypeOK
    <2>2. CASE ~(f = e /\ starter' = [starter EXCEPT ![e] = c])
      <3>1. state'[f] = states[f] /\ starter'[f] = starter[f] /\ active[f] > 0
        BY <1>4, <1>5, <2>2 DEF QmergeTypeOK
      <3>2. f # qm[c] /\ state[f] \in {0, 1}  BY <1>3, <1>5, <3>1
      <3>3. qm[starter[f]] = f  BY <3>1, <3>2 DEF ServersStay
      <3>4. starter[f] # c /\ starter[f] \in Client  BY <3>2, <3>3 DEF QmergeTypeOK
      <3> QED  BY <1>5, <3>1, <3>3, <3>4
    <2> QED  BY <2>1, <2>2
  <1> QED  BY <1>4, <1>6, <1>7, <1>8, <1>10, <1>11

LEMMA PassOverOK ==
  ASSUME QmergeInv, NEW c \in Client, PassOver(c) PROVE QmergeInv'
  <1> USE DEF QmergeInv
  <1>1. /\ turn = c /\ c \notin live /\ turn' = c + 1
        /\ UNCHANGED <<live, qm, active, key, state, poller, wants, starter, dropped>>
    BY DEF PassOver
  <1>2. QmergeTypeOK'  BY <1>1, QmergeAssumption DEF QmergeTypeOK, Client
  <1>3. HoldersCounted' /\ NoneTwice' /\ Quiet' /\ ServersStay'
    BY <1>1 DEF HoldersCounted, Holders, NoneTwice, Quiet, ServersStay
  <1>4. Moving'
    <2> SUFFICES ASSUME NEW e \in Entry, state[e] = 1
                 PROVE  /\ poller[e] \in live /\ qm[poller[e]] = e
                        /\ 1 <= c + 1 /\ c + 1 <= poller[e]
      BY <1>1 DEF Moving
    <2>1. poller[e] \in live /\ qm[poller[e]] = e /\ c <= poller[e] /\ poller[e] # c
      BY <1>1 DEF Moving
    <2>2. poller[e] \in 0 .. MaxClient  BY DEF QmergeTypeOK
    <2> QED  BY <2>1, <2>2, QmergeAssumption DEF Client
  <1> QED  BY <1>2, <1>3, <1>4

\* A new client takes a place, at worst that of a client it drops, and asks.
LEMMA NewClientOK ==
  ASSUME QmergeInv, NEW c \in Client, NEW k \in QKey, NewClient(c, k) PROVE QmergeInv'
  <1> USE DEF QmergeInv
  <1>1. /\ turn = MaxClient + 1 /\ turn' = 0 /\ (c \notin live \/ live = Client)
        /\ dropped' = (dropped \/ live = Client) /\ live' = live \union {c}
        /\ StartQuery(c, k, state) /\ UNCHANGED poller
    BY DEF NewClient, NewAt
  <1>2. \A f \in Entry : state[f] # 1  BY <1>1, NoneMoving
  <1>3. PICK e \in Entry :
           /\ HoldersCounted' /\ active' \in [Entry -> Nat]
           /\ qm' = [qm EXCEPT ![c] = e]
           /\ key' = [key EXCEPT ![e] = k] /\ wants' = [wants EXCEPT ![c] = k]
           /\ \A f \in Entry : active'[f] > 0 => f = e \/ active[f] > 0
           /\ \A f, g \in Entry :
                active'[f] > 0 /\ active'[g] > 0 /\ key'[f] = key'[g] => f = g
           /\ \/ active[e] > 0 /\ state' = state /\ starter' = starter
              \/ /\ \A b \in Client : qm[b] = e => b = c
                 /\ state' = [state EXCEPT ![e] = 0]
                 /\ starter' = [starter EXCEPT ![e] = c]
    BY <1>1, StartQueryOK
  <1>4. \A b \in Client : qm'[b] = IF b = c THEN e ELSE qm[b]
    BY <1>3 DEF QmergeTypeOK
  <1>5. QmergeTypeOK'
    <2>1. e \in 0 .. MaxClient /\ 0 \in 0 .. MaxClient + 1
      BY QmergeAssumption DEF Entry
    <2>2. /\ qm' \in [Client -> 0 .. MaxClient] /\ key' \in [Entry -> QKey]
          /\ wants' \in [Client -> QKey]
      BY <1>3, <2>1 DEF QmergeTypeOK
    <2>3. state' \in [Entry -> {-1, 0, 1, 2}] /\ starter' \in [Entry -> Client]
      BY <1>3 DEF QmergeTypeOK
    <2>4. live' \subseteq Client /\ dropped' \in BOOLEAN  BY <1>1 DEF QmergeTypeOK
    <2> QED  BY <1>1, <1>3, <2>1, <2>2, <2>3, <2>4 DEF QmergeTypeOK
  <1>6. NoneTwice'
    <2>1. \A b \in live' : qm'[b] # 0
      BY <1>1, <1>4, QmergeAssumption DEF NoneTwice, QmergeTypeOK, Entry
    <2> QED  BY <1>3, <2>1 DEF NoneTwice
  <1>7. Moving' /\ Quiet'
    <2>1. \A f \in Entry : state'[f] # 1  BY <1>2, <1>3 DEF QmergeTypeOK
    <2> QED  BY <1>1, <1>4, <2>1 DEF Moving, Quiet
  <1>8. ServersStay'
    <2> SUFFICES ASSUME ~dropped', NEW f \in Entry, active'[f] > 0, state'[f] \in {0, 1}
                 PROVE  qm'[starter'[f]] = f
      BY DEF ServersStay
    <2>1. ~dropped /\ qm[c] = 0  BY <1>1 DEF Quiet, QmergeTypeOK
    <2>2. CASE f = e /\ starter' = [starter EXCEPT ![e] = c]
      BY <1>4, <2>2 DEF QmergeTypeOK
    <2>3. CASE ~(f = e /\ starter' = [starter EXCEPT ![e] = c])
      <3>1. state'[f] = state[f] /\ starter'[f] = starter[f] /\ active[f] > 0
        BY <1>3, <2>3 DEF QmergeTypeOK
      <3>2. qm[starter[f]] = f /\ f # 0
        BY <2>1, <3>1, QmergeAssumption DEF ServersStay, Entry
      <3>3. starter[f] # c /\ starter[f] \in Client  BY <2>1, <3>2 DEF QmergeTypeOK
      <3> QED  BY <1>4, <3>1, <3>2, <3>3
    <2> QED  BY <2>2, <2>3
  <1> QED  BY <1>3, <1>5, <1>6, <1>7, <1>8

\* A new client that is answered at once, or asks nothing.
LEMMA NewAnsweredOK ==
  ASSUME QmergeInv, NEW c \in Client, NewAnswered(c) PROVE QmergeInv'
  <1> USE DEF QmergeInv
  <1>1. /\ turn = MaxClient + 1 /\ turn' = 0 /\ (c \notin live \/ live = Client)
        /\ dropped' = (dropped \/ live = Client) /\ live' = live \ {c}
        /\ LetGo(c) \/ UNCHANGED <<qm, active, key, wants, starter>>
        /\ UNCHANGED <<state, poller>>
    BY DEF NewAnswered, NewAt
  <1>2. \A f \in Entry : state[f] # 1  BY <1>1, NoneMoving
  <1>3. /\ HoldersCounted' /\ active' \in [Entry -> Nat]
        /\ qm' \in [Client -> 0 .. MaxClient]
        /\ UNCHANGED <<key, wants, starter>>
        /\ \A e \in Entry : active'[e] <= active[e]
        /\ \A b \in Client : b # c => qm'[b] = qm[b]
        /\ qm'[c] = 0 \/ qm' = qm
    <2>1. CASE LetGo(c)
      BY <2>1, LetGoOK, QmergeAssumption DEF QmergeTypeOK
    <2>2. CASE UNCHANGED <<qm, active, key, wants, starter>>
      <3>1. HoldersCounted'  BY <2>2 DEF HoldersCounted, Holders
      <3> QED  BY <2>2, <3>1 DEF QmergeTypeOK
    <2> QED  BY <1>1, <2>1, <2>2
  <1>4. QmergeTypeOK'  BY <1>1, <1>3, QmergeAssumption DEF QmergeTypeOK
  <1>5. \A e \in Entry : active'[e] > 0 => active[e] > 0
    BY <1>3 DEF QmergeTypeOK
  <1>6. NoneTwice'  BY <1>1, <1>3, <1>5 DEF NoneTwice, QmergeTypeOK
  <1>7. Moving'  BY <1>1, <1>2 DEF Moving
  <1>8. ~dropped' => ~dropped /\ qm[c] = 0 /\ qm'[c] = 0
    BY <1>1, <1>3 DEF Quiet, QmergeTypeOK
  <1>9. Quiet'  BY <1>1, <1>3, <1>8 DEF Quiet
  <1>10. ServersStay'
    <2> SUFFICES ASSUME ~dropped', NEW f \in Entry, active'[f] > 0, state[f] \in {0, 1}
                 PROVE  qm'[starter[f]] = f
      BY <1>1, <1>3 DEF ServersStay
    <2>1. qm[starter[f]] = f /\ f # 0
      BY <1>5, <1>8, QmergeAssumption DEF ServersStay, Entry
    <2>2. starter[f] # c /\ starter[f] \in Client  BY <1>8, <2>1 DEF QmergeTypeOK
    <2> QED  BY <1>3, <2>1, <2>2
  <1> QED  BY <1>3, <1>4, <1>6, <1>7, <1>9, <1>10

LEMMA NoNewOK == QmergeInv /\ NoNew => QmergeInv'
  <1> SUFFICES ASSUME QmergeInv, NoNew PROVE QmergeInv'
    OBVIOUS
  <1> USE DEF QmergeInv
  <1>1. /\ turn = MaxClient + 1 /\ turn' = 0
        /\ UNCHANGED <<live, qm, active, key, state, poller, wants, starter, dropped>>
    BY DEF NoNew
  <1>2. \A f \in Entry : state[f] # 1  BY <1>1, NoneMoving
  <1>3. QmergeTypeOK' /\ Moving'
    BY <1>1, <1>2, QmergeAssumption DEF QmergeTypeOK, Moving
  <1>4. HoldersCounted' /\ NoneTwice' /\ Quiet' /\ ServersStay'
    BY <1>1 DEF HoldersCounted, Holders, NoneTwice, Quiet, ServersStay
  <1> QED  BY <1>3, <1>4

LEMMA QmergeNextOK == QmergeInv /\ [QmergeNext]_qmergeVars => QmergeInv'
  <1> SUFFICES ASSUME QmergeInv, [QmergeNext]_qmergeVars PROVE QmergeInv'
    OBVIOUS
  <1>1. CASE UNCHANGED qmergeVars
    <2> USE DEF qmergeVars
    <2>1. QmergeTypeOK' /\ HoldersCounted'
      BY <1>1 DEF QmergeInv, QmergeTypeOK, HoldersCounted, Holders
    <2>2. NoneTwice' /\ Moving'  BY <1>1 DEF QmergeInv, NoneTwice, Moving
    <2>3. Quiet' /\ ServersStay'  BY <1>1 DEF QmergeInv, Quiet, ServersStay
    <2> QED  BY <2>1, <2>2, <2>3 DEF QmergeInv
  <1>2. CASE SetUp \/ NoNew  BY <1>2, SetUpOK, NoNewOK
  <1>3. ASSUME NEW c \in Client,
               LookNothing(c) \/ LookEnds(c) \/ PassOver(c) \/ NewAnswered(c)
        PROVE  QmergeInv'
    BY <1>3, LookNothingOK, LookEndsOK, PassOverOK, NewAnsweredOK
  <1>4. ASSUME NEW c \in Client, NEW k \in QKey, LookAsks(c, k) \/ NewClient(c, k)
        PROVE  QmergeInv'
    BY <1>4, LookAsksOK, NewClientOK
  <1> QED  BY <1>1, <1>2, <1>3, <1>4 DEF QmergeNext

LEMMA QmergeInvSafe == QmergeInv => QmergeSafe
  <1> SUFFICES ASSUME QmergeInv PROVE QmergeSafe
    OBVIOUS
  <1>1. RoomForOne  BY RoomOK DEF QmergeInv
  <1>2. WaitedForOnce
    BY DEF QmergeInv, QmergeTypeOK, Moving, WaitedForOnce, Holders
  <1> QED  BY <1>1, <1>2 DEF QmergeInv, QmergeSafe

\* qmerge.c under the main loop of dnscache, for any number of clients and any
\* set of questions: an entry counts its queries and asks what they want, none
\* asks what another does, there is always room for one more, each that a live
\* query waits for has one descriptor polled, and its servers stay in place.
THEOREM QmergeHolds == QmergeSpec => []QmergeSafe
  <1>1. QmergeInit => QmergeInv  BY QmergeInitOK
  <1>2. QmergeInv /\ [QmergeNext]_qmergeVars => QmergeInv'  BY QmergeNextOK
  <1>3. QmergeInv => QmergeSafe  BY QmergeInvSafe
  <1> QED  BY <1>1, <1>2, <1>3, PTL DEF QmergeSpec

\* Induction over a set of naturals.
LEMMA Induct ==
  ASSUME NEW T \in SUBSET Nat, 0 \in T, \A n \in T : n + 1 \in T
  PROVE  T = Nat
  <1> DEFINE R == {ss \in Nat \X Nat : ss[1] < ss[2]}
  <1>1. IsWellFoundedOn(R, Nat)  BY NatLessThanWellFounded, Zenon DEF OpToRel
  <1>2. SUFFICES ASSUME Nat \ T # {} PROVE FALSE  OBVIOUS
  <1>3. PICK m \in Nat \ T : \A k \in Nat \ T : <<k, m>> \notin R  BY <1>1, <1>2, WFMin, Zenon
  <1>4. m # 0 /\ m \in Nat  BY <1>3
  <1>5. m - 1 \in Nat /\ m - 1 < m /\ (m - 1) + 1 = m  BY <1>4
  <1>6. m - 1 \in T
    <2>1. SUFFICES ASSUME m - 1 \notin T PROVE FALSE  OBVIOUS
    <2>2. <<m - 1, m>> \notin R  BY <1>3, <1>5, <2>1
    <2> QED  BY <1>4, <1>5, <2>2
  <1> QED  BY <1>3, <1>5, <1>6

\* A value that is changed again and again.
Turned(x, st, n, f) == f[0] = x /\ \A j \in 1 .. n : f[j] = st[f[j - 1]]

\* Whatever can be changed can be changed n times.
LEMMA TurnsExist ==
  ASSUME NEW S, NEW x \in S, NEW st \in [S -> S], NEW n \in Nat
  PROVE  \E f \in [0 .. n -> S] : Turned(x, st, n, f)
  <1> DEFINE T == {m \in Nat : \E f \in [0 .. m -> S] : Turned(x, st, m, f)}
  <1>1. 0 \in T
    <2>1. [j \in 0 .. 0 |-> x] \in [0 .. 0 -> S] /\ [j \in 0 .. 0 |-> x][0] = x  OBVIOUS
    <2>2. 1 .. 0 = {}  OBVIOUS
    <2> QED  BY <2>1, <2>2 DEF Turned
  <1>2. ASSUME NEW m \in T PROVE m + 1 \in T
    <2>1. PICK f \in [0 .. m -> S] : Turned(x, st, m, f)  OBVIOUS
    <2>2. m \in Nat /\ m + 1 \notin 0 .. m /\ 0 \in 0 .. m /\ m \in 0 .. m  OBVIOUS
    <2> DEFINE g == [j \in 0 .. m + 1 |-> IF j = m + 1 THEN st[f[m]] ELSE f[j]]
    <2>3. \A j \in 0 .. m + 1 : j = m + 1 \/ j \in 0 .. m  BY <2>2
    <2>4. g[m + 1] = st[f[m]] /\ \A j \in 0 .. m : g[j] = f[j]
      <3>1. \A j \in 0 .. m : j \in 0 .. m + 1 /\ j # m + 1  BY <2>2
      <3>2. m + 1 \in 0 .. m + 1  BY <2>2
      <3> QED  BY <3>1, <3>2
    <2>5. g \in [0 .. m + 1 -> S]  BY <2>1, <2>2, <2>3
    <2> HIDE DEF g
    <2>6. ASSUME NEW j \in 1 .. m + 1 PROVE g[j] = st[g[j - 1]]
      <3>1. CASE j = m + 1
        <4>1. j - 1 = m  BY <2>2, <3>1
        <4> QED  BY <2>2, <2>4, <3>1, <4>1
      <3>2. CASE j # m + 1
        <4>1. j \in 1 .. m /\ j \in 0 .. m /\ j - 1 \in 0 .. m  BY <2>2, <3>2
        <4> QED  BY <2>1, <2>4, <4>1 DEF Turned
      <3> QED  BY <3>1, <3>2
    <2>7. g[0] = x  BY <2>1, <2>2, <2>4 DEF Turned
    <2>8. Turned(x, st, m + 1, g)  BY <2>6, <2>7 DEF Turned
    <2> QED  BY <2>2, <2>5, <2>8
  <1> HIDE DEF T
  <1>3. T \in SUBSET Nat  BY DEF T
  <1>4. T = Nat  BY <1>1, <1>2, <1>3, Induct
  <1> QED  BY <1>4 DEF T

\* What it is after k turns does not depend on how many follow.
LEMMA TurnsAgree ==
  ASSUME NEW x, NEW st, NEW m \in Nat, NEW n \in Nat, NEW f, NEW g,
         Turned(x, st, m, f), Turned(x, st, n, g), NEW k \in Nat, k <= m, k <= n
  PROVE  f[k] = g[k]
  <1> DEFINE T == {j \in Nat : j <= m /\ j <= n => f[j] = g[j]}
  <1>1. 0 \in T  BY DEF Turned
  <1>2. ASSUME NEW j \in T PROVE j + 1 \in T
    <2>1. SUFFICES ASSUME j + 1 <= m, j + 1 <= n PROVE f[j + 1] = g[j + 1]  OBVIOUS
    <2>2. j \in Nat /\ j + 1 \in 1 .. m /\ j + 1 \in 1 .. n /\ (j + 1) - 1 = j
          /\ j <= m /\ j <= n
      BY <2>1
    <2>3. f[j] = g[j]  BY <2>2
    <2> QED  BY <2>2, <2>3 DEF Turned
  <1> HIDE DEF T
  <1>3. T \in SUBSET Nat  BY DEF T
  <1>4. T = Nat  BY <1>1, <1>2, <1>3, Induct
  <1> QED  BY <1>4 DEF T

\* The values of all turns, in one function.
LEMMA TurnsForEver ==
  ASSUME NEW S, NEW x \in S, NEW st \in [S -> S]
  PROVE  \E f \in [Nat -> S] : f[0] = x /\ \A n \in Nat : f[n + 1] = st[f[n]]
  <1> DEFINE F(n) == CHOOSE f \in [0 .. n -> S] : Turned(x, st, n, f)
             g == [n \in Nat |-> F(n)[n]]
  <1>1. ASSUME NEW n \in Nat PROVE F(n) \in [0 .. n -> S] /\ Turned(x, st, n, F(n))
    BY TurnsExist
  <1> HIDE DEF F
  <1>2. g \in [Nat -> S]
    <2>1. ASSUME NEW n \in Nat PROVE F(n)[n] \in S
      <3>1. n \in 0 .. n  OBVIOUS
      <3> QED  BY <1>1, <3>1
    <2> QED  BY <2>1
  <1>3. g[0] = x  BY <1>1 DEF Turned
  <1>4. ASSUME NEW n \in Nat PROVE g[n + 1] = st[g[n]]
    <2>1. n + 1 \in Nat /\ n + 1 \in 1 .. n + 1 /\ (n + 1) - 1 = n /\ n <= n + 1 /\ n <= n
      OBVIOUS
    <2>2. F(n + 1)[n + 1] = st[F(n + 1)[n]]  BY <1>1, <2>1 DEF Turned
    <2>3. F(n + 1)[n] = F(n)[n]  BY <1>1, <2>1, TurnsAgree
    <2> QED  BY <2>1, <2>2, <2>3
  <1> QED  BY <1>2, <1>3, <1>4

(***************************************************************************)
(* The exclusive or.                                                       *)

(***************************************************************************)
(* There is a function that is what xor is defined to be: the a-th turn    *)
(* gets the values for the first number a right.                           *)
LEMMA XorExists ==
  \E g \in [Nat -> [Nat -> Nat]] : \A a, b \in Nat :
    g[a][b] = IF a = 0 THEN b ELSE 2 * g[a \div 2][b \div 2] + ((a + b) % 2)
  <1> DEFINE S == [Nat -> [Nat -> Nat]]
             Bits(h, a, b) == IF a = 0 THEN b ELSE 2 * h[a \div 2][b \div 2] + ((a + b) % 2)
             st == [h \in S |-> [a \in Nat |-> [b \in Nat |-> Bits(h, a, b)]]]
             x == [a \in Nat |-> [b \in Nat |-> 0]]
  <1>1. st \in [S -> S]
    <2>1. ASSUME NEW h \in S, NEW a \in Nat, NEW b \in Nat PROVE Bits(h, a, b) \in Nat
      <3>1. a \div 2 \in Nat /\ b \div 2 \in Nat /\ (a + b) % 2 \in Nat  OBVIOUS
      <3>2. PICK v \in Nat : v = h[a \div 2][b \div 2]  BY <3>1
      <3>3. PICK r \in Nat : r = (a + b) % 2  BY <3>1
      <3>4. Bits(h, a, b) = IF a = 0 THEN b ELSE 2 * v + r  BY <3>2, <3>3
      <3> HIDE DEF Bits
      <3> QED  BY <3>4
    <2> HIDE DEF Bits
    <2> QED  BY <2>1
  <1>2. x \in S  OBVIOUS
  <1>3. PICK f \in [Nat -> S] : f[0] = x /\ \A n \in Nat : f[n + 1] = st[f[n]]
    <2> HIDE DEF S, st, x
    <2> QED  BY <1>1, <1>2, TurnsForEver
  <1>4. ASSUME NEW n \in Nat, NEW a \in Nat
        PROVE  f[n + 1][a] = [b \in Nat |-> Bits(f[n], a, b)]
    <2>1. f[n] \in S /\ f[n + 1] = st[f[n]]  BY <1>3
    <2> HIDE DEF Bits
    <2>2. st[f[n]] = [k \in Nat |-> [b \in Nat |-> Bits(f[n], k, b)]]  BY <2>1
    <2> HIDE DEF st
    <2> QED  BY <2>1, <2>2
  <1> HIDE DEF st, x
  <1> DEFINE T == {n \in Nat : \A a \in 0 .. n : f[n + 2][a] = f[n + 1][a]}
  <1>5. 0 \in T
    <2>1. ASSUME NEW a \in 0 .. 0 PROVE f[0 + 2][a] = f[0 + 1][a]
      <3> HIDE DEF Bits
      <3>1. a = 0 /\ a \in Nat /\ 0 + 2 = 1 + 1 /\ 1 \in Nat /\ 0 \in Nat  OBVIOUS
      <3>2. f[1 + 1][a] = [b \in Nat |-> Bits(f[1], a, b)]  BY <1>4, <3>1, Zenon
      <3>3. f[0 + 1][a] = [b \in Nat |-> Bits(f[0], a, b)]  BY <1>4, <3>1, Zenon
      <3> USE DEF Bits
      <3> QED  BY <3>1, <3>2, <3>3
    <2> QED  BY <2>1
  <1>6. ASSUME NEW n \in T PROVE n + 1 \in T
    <2>1. n \in Nat /\ n + 1 \in Nat /\ n + 2 \in Nat /\ (n + 1) + 2 = (n + 2) + 1 /\ (n + 1) + 1 = n + 2
      OBVIOUS
    <2>2. \A a \in 0 .. n : f[n + 2][a] = f[n + 1][a]  OBVIOUS
    <2>3. ASSUME NEW a \in 0 .. n + 1 PROVE f[(n + 1) + 2][a] = f[(n + 1) + 1][a]
      <3>1. a \in Nat /\ (a = 0 \/ a \div 2 \in 0 .. n)  BY <2>1
      <3> HIDE DEF Bits
      <3>2. f[(n + 2) + 1][a] = [b \in Nat |-> Bits(f[n + 2], a, b)]
        BY <1>4, <2>1, <3>1, Zenon
      <3>3. f[(n + 1) + 1][a] = [b \in Nat |-> Bits(f[n + 1], a, b)]
        BY <1>4, <2>1, <3>1, Zenon
      <3>4. ASSUME NEW b \in Nat PROVE Bits(f[n + 2], a, b) = Bits(f[n + 1], a, b)
        BY <2>2, <3>1 DEF Bits
      <3>5. [b \in Nat |-> Bits(f[n + 2], a, b)] = [b \in Nat |-> Bits(f[n + 1], a, b)]
        BY <3>4, Zenon
      <3> QED  BY <2>1, <3>2, <3>3, <3>5
    <2> QED  BY <2>1, <2>3
  <1> HIDE DEF T
  <1>7. T = Nat
    <2>1. T \in SUBSET Nat  BY DEF T
    <2> QED  BY <1>5, <1>6, <2>1, Induct
  <1>8. ASSUME NEW a \in Nat, NEW n \in Nat PROVE a <= n => f[n + 1][a] = f[a + 1][a]
    <2> DEFINE U == {k \in Nat : f[(a + k) + 1][a] = f[a + 1][a]}
    <2>1. 0 \in U
      <3>1. (a + 0) + 1 = a + 1  OBVIOUS
      <3> QED  BY <3>1
    <2>2. ASSUME NEW k \in U PROVE k + 1 \in U
      <3>1. a + k \in Nat /\ a \in 0 .. a + k /\ (a + (k + 1)) + 1 = (a + k) + 2  OBVIOUS
      <3>2. f[(a + k) + 2][a] = f[(a + k) + 1][a]  BY <1>7, <3>1, Zenon DEF T
      <3> QED  BY <3>1, <3>2
    <2> HIDE DEF U
    <2>3. U \in SUBSET Nat  BY DEF U
    <2>4. U = Nat  BY <2>1, <2>2, <2>3, Induct
    <2>5. SUFFICES ASSUME a <= n PROVE f[n + 1][a] = f[a + 1][a]  OBVIOUS
    <2>6. n - a \in U /\ a + (n - a) = n  BY <2>4, <2>5
    <2> QED  BY <2>6 DEF U
  <1> DEFINE g == [a \in Nat |-> f[a + 1][a]]
  <1>9. g \in S
    <2>1. ASSUME NEW a \in Nat PROVE f[a + 1][a] \in [Nat -> Nat]
      <3>1. a + 1 \in Nat  OBVIOUS
      <3> QED  BY <1>3, <3>1
    <2> QED  BY <2>1
  <1>10. ASSUME NEW a \in Nat, NEW b \in Nat PROVE g[a][b] = Bits(g, a, b)
    <2>1. g[a][b] = Bits(f[a], a, b)
      <3> HIDE DEF Bits
      <3>1. f[a + 1][a] = [bb \in Nat |-> Bits(f[a], a, bb)]  BY <1>4, Zenon
      <3> QED  BY <3>1
    <2>2. CASE a = 0  BY <2>1, <2>2
    <2>3. CASE a # 0
      <3>1. PICK h \in Nat : h = a \div 2 /\ h <= a - 1  BY <2>3
      <3>2. a - 1 \in Nat /\ (a - 1) + 1 = a  BY <2>3
      <3>3. f[a][h] = f[h + 1][h]  BY <1>8, <3>1, <3>2
      <3>4. g[h] = f[a][h]  BY <3>1, <3>3
      <3> HIDE DEF g
      <3> QED  BY <2>1, <2>3, <3>1, <3>4
    <2> QED  BY <2>2, <2>3
  <1> HIDE DEF g
  <1> QED  BY <1>9, <1>10

\* So xor is one, and gives numbers.
LEMMA XorStep ==
  ASSUME NEW a \in Nat, NEW b \in Nat
  PROVE  /\ a ^^ b \in Nat
         /\ a ^^ b = IF a = 0 THEN b ELSE 2 * ((a \div 2) ^^ (b \div 2)) + ((a + b) % 2)
  <1> DEFINE S == [Nat -> [Nat -> Nat]]
             Bits(h, k, l) == IF k = 0 THEN l ELSE 2 * h[k \div 2][l \div 2] + ((k + l) % 2)
             F(h) == [k \in Nat |-> [l \in Nat |-> Bits(h, k, l)]]
  <1>1. PICK g \in S : \A k, l \in Nat : g[k][l] = Bits(g, k, l)  BY XorExists
  <1>2. xor = CHOOSE h : h = F(h)  BY DEF xor
  <1> HIDE DEF Bits
  <1>3. g = F(g)
    <2>1. \A k \in Nat : g[k] = F(g)[k]
      <3> SUFFICES ASSUME NEW k \in Nat PROVE g[k] = F(g)[k]  OBVIOUS
      <3>1. g[k] = [l \in Nat |-> g[k][l]]  BY <1>1
      <3> QED  BY <1>1, <3>1
    <2>2. g = [k \in Nat |-> g[k]]  BY <1>1
    <2> QED  BY <2>1, <2>2
  <1>4. xor = F(xor)
    <2> HIDE DEF F
    <2> QED  BY <1>2, <1>3
  <1>5. \A k, l \in Nat : xor[k][l] = Bits(xor, k, l)
    <2>1. \A k, l \in Nat : F(xor)[k][l] = Bits(xor, k, l)  OBVIOUS
    <2> HIDE DEF F
    <2> QED  BY <1>4, <2>1
  <1> USE DEF Bits
  <1> DEFINE T == {n \in Nat : \A k \in 0 .. n : \A l \in Nat : xor[k][l] \in Nat}
  <1>6. 0 \in T
    <2>1. SUFFICES ASSUME NEW k \in 0 .. 0, NEW l \in Nat PROVE xor[k][l] \in Nat  OBVIOUS
    <2>2. k = 0 /\ k \in Nat  OBVIOUS
    <2> QED  BY <1>5, <2>2
  <1>7. ASSUME NEW n \in T PROVE n + 1 \in T
    <2>4. n \in Nat /\ \A k \in 0 .. n : \A l \in Nat : xor[k][l] \in Nat  OBVIOUS
    <2>5. n + 1 \in Nat  BY <2>4
    <2>1. SUFFICES ASSUME NEW k \in 0 .. n + 1, NEW l \in Nat PROVE xor[k][l] \in Nat
      BY <2>5, Zenon
    <2>2. CASE k = 0  BY <1>5, <2>2
    <2>3. CASE k # 0
      <3>1. k \in Nat /\ k \div 2 \in 0 .. n /\ l \div 2 \in Nat /\ (k + l) % 2 \in Nat
        <4>1. n \in Nat /\ k \in Nat /\ 1 <= k /\ k <= n + 1  BY <2>3, <2>4
        <4>2. k \div 2 \in Nat /\ k \div 2 <= n  BY <4>1, SMTT(20)
        <4>3. l \div 2 \in Nat /\ (k + l) % 2 \in Nat  BY <4>1
        <4> QED  BY <4>1, <4>2, <4>3
      <3>2. PICK v \in Nat : v = xor[k \div 2][l \div 2]  BY <2>4, <3>1
      <3>3. xor[k][l] = 2 * v + ((k + l) % 2)  BY <1>5, <2>3, <3>1, <3>2
      <3> QED  BY <3>1, <3>3
    <2> QED  BY <2>2, <2>3
  <1> HIDE DEF T
  <1>8. T = Nat
    <2>1. T \in SUBSET Nat  BY DEF T
    <2> QED  BY <1>6, <1>7, <2>1, Induct
  <1>9. xor[a][b] \in Nat
    <2>1. a \in T /\ a \in 0 .. a  BY <1>8
    <2> QED  BY <2>1 DEF T
  <1> QED  BY <1>5, <1>9 DEF ^^

\* One bit at a time, whatever the first number is.
LEMMA XorBit ==
  ASSUME NEW a \in Nat, NEW b \in Nat
  PROVE  /\ a ^^ b \in Nat
         /\ (a ^^ b) \div 2 = (a \div 2) ^^ (b \div 2)
         /\ (a ^^ b) % 2 = (a + b) % 2
  <1>1. a \div 2 \in Nat /\ b \div 2 \in Nat /\ (a + b) % 2 \in {0, 1}  OBVIOUS
  <1>2. PICK v \in Nat : v = (a \div 2) ^^ (b \div 2)  BY <1>1, XorStep
  <1>3. CASE a = 0
    <2>1. a ^^ b = b  BY <1>3, XorStep
    <2>2. v = b \div 2
      <3>1. a \div 2 = 0  BY <1>3
      <3> QED  BY <1>1, <1>2, <3>1, XorStep
    <2> QED  BY <1>2, <1>3, <2>1, <2>2
  <1>4. CASE a # 0
    <2>1. PICK r \in {0, 1} : r = (a + b) % 2  BY <1>1
    <2>2. a ^^ b = 2 * v + r  BY <1>2, <1>4, <2>1, XorStep
    <2>3. (2 * v + r) \div 2 = v /\ (2 * v + r) % 2 = r  OBVIOUS
    <2> QED  BY <1>2, <2>1, <2>2, <2>3
  <1> QED  BY <1>3, <1>4

\* The laws that make the links of cache.c work, by induction on the bits.
LEMMA XorLaws ==
  ASSUME NEW a \in Nat, NEW b \in Nat, NEW d \in Nat
  PROVE  /\ a ^^ b \in Nat /\ 0 ^^ a = a /\ a ^^ 0 = a /\ a ^^ a = 0
         /\ a ^^ b = b ^^ a
         /\ (a ^^ b) ^^ d = a ^^ (b ^^ d)
  <1> DEFINE Laws(k) == \A l, m \in Nat :
               /\ k ^^ 0 = k /\ k ^^ k = 0 /\ k ^^ l = l ^^ k
               /\ (k ^^ l) ^^ m = k ^^ (l ^^ m)
             T == {n \in Nat : \A k \in 0 .. n : Laws(k)}
  <1>1. \A k \in Nat : 0 ^^ k = k  BY XorStep
  <1>2. \A k \in Nat : k ^^ 0 = k
    <2> DEFINE U == {n \in Nat : \A k \in 0 .. n : k ^^ 0 = k}
    <2>1. 0 \in U
      <3>1. \A k \in 0 .. 0 : k = 0  OBVIOUS
      <3> QED  BY <1>1, <3>1
    <2>2. ASSUME NEW n \in U PROVE n + 1 \in U
      <3>1. SUFFICES ASSUME NEW k \in 0 .. n + 1 PROVE k ^^ 0 = k  OBVIOUS
      <3>2. CASE k = 0  BY <1>1, <3>2
      <3>3. CASE k # 0
        <4>1. k \in Nat /\ k \div 2 \in 0 .. n /\ k = 2 * (k \div 2) + ((k + 0) % 2) /\ 0 \div 2 = 0
          BY <3>3
        <4>2. (k \div 2) ^^ 0 = k \div 2  BY <4>1
        <4>3. k ^^ 0 = 2 * ((k \div 2) ^^ (0 \div 2)) + ((k + 0) % 2)  BY <3>3, <4>1, XorStep
        <4> QED  BY <4>1, <4>2, <4>3
      <3> QED  BY <3>2, <3>3
    <2> HIDE DEF U
    <2>3. U \in SUBSET Nat  BY DEF U
    <2>4. U = Nat  BY <2>1, <2>2, <2>3, Induct
    <2>5. ASSUME NEW k \in Nat PROVE k ^^ 0 = k
      <3>1. k \in U /\ k \in 0 .. k  BY <2>4
      <3> QED  BY <3>1 DEF U
    <2> QED  BY <2>5
  <1>3. Laws(0)
    <2> SUFFICES ASSUME NEW l \in Nat, NEW m \in Nat
                 PROVE  0 ^^ 0 = 0 /\ 0 ^^ l = l ^^ 0 /\ (0 ^^ l) ^^ m = 0 ^^ (l ^^ m)
      OBVIOUS
    <2>1. l ^^ m \in Nat  BY XorStep
    <2> QED  BY <1>1, <1>2, <2>1
  <1>4. 0 \in T
    <2>1. \A k \in 0 .. 0 : k = 0  OBVIOUS
    <2> HIDE DEF Laws
    <2> QED  BY <1>3, <2>1
  <1>5. ASSUME NEW n \in T PROVE n + 1 \in T
    <2>1. n \in Nat /\ \A k \in 0 .. n : Laws(k)  OBVIOUS
    <2>2. ASSUME NEW k \in 0 .. n + 1, k # 0 PROVE Laws(k)
      <3> SUFFICES ASSUME NEW l \in Nat, NEW m \in Nat
                   PROVE  /\ k ^^ 0 = k /\ k ^^ k = 0 /\ k ^^ l = l ^^ k
                          /\ (k ^^ l) ^^ m = k ^^ (l ^^ m)
        OBVIOUS
      <3>1. k \in Nat /\ k \div 2 \in 0 .. n  BY <2>1, <2>2
      <3>2. PICK p \in 0 .. n : p = k \div 2 /\ p \in Nat  BY <2>1, <3>1
      <3>3. PICK q \in Nat : q = l \div 2  OBVIOUS
      <3>4. PICK r \in Nat : r = m \div 2  OBVIOUS
      <3>5. p ^^ p = 0 /\ p ^^ q = q ^^ p /\ (p ^^ q) ^^ r = p ^^ (q ^^ r)
        BY <2>1, <3>3, <3>4
      <3>7. \A u, v \in Nat : u \div 2 = v \div 2 /\ u % 2 = v % 2 => u = v  OBVIOUS
      <3>8. k ^^ k = 0
        <4>1. /\ k ^^ k \in Nat /\ (k ^^ k) \div 2 = (k \div 2) ^^ (k \div 2)
              /\ (k ^^ k) % 2 = (k + k) % 2
          BY <3>1, XorBit, ZenonT(40)
        <4>2. (k + k) % 2 = 0 /\ 0 \div 2 = 0 /\ 0 % 2 = 0  BY <3>1
        <4> QED  BY <3>2, <3>5, <3>7, <4>1, <4>2
      <3>9. k ^^ l = l ^^ k
        <4>1. /\ k ^^ l \in Nat /\ (k ^^ l) \div 2 = (k \div 2) ^^ (l \div 2)
              /\ (k ^^ l) % 2 = (k + l) % 2
          BY <3>1, XorBit, ZenonT(40)
        <4>2. /\ l ^^ k \in Nat /\ (l ^^ k) \div 2 = (l \div 2) ^^ (k \div 2)
              /\ (l ^^ k) % 2 = (l + k) % 2
          BY <3>1, XorBit, ZenonT(40)
        <4>3. k + l = l + k  BY <3>1
        <4> QED  BY <3>2, <3>3, <3>5, <3>7, <4>1, <4>2, <4>3
      <3>10. (k ^^ l) ^^ m = k ^^ (l ^^ m)
        <4>1. PICK u \in Nat : u = k ^^ l  BY <3>1, XorStep
        <4>2. PICK v \in Nat : v = l ^^ m  BY XorStep
        <4>3. u \div 2 = (k \div 2) ^^ (l \div 2) /\ u % 2 = (k + l) % 2
          BY <3>1, <4>1, XorBit, ZenonT(40)
        <4>4. v \div 2 = (l \div 2) ^^ (m \div 2) /\ v % 2 = (l + m) % 2
          BY <4>2, XorBit, ZenonT(40)
        <4>5. /\ u ^^ m \in Nat /\ (u ^^ m) \div 2 = (u \div 2) ^^ (m \div 2)
              /\ (u ^^ m) % 2 = (u + m) % 2
          BY XorBit, ZenonT(40)
        <4>6. /\ k ^^ v \in Nat /\ (k ^^ v) \div 2 = (k \div 2) ^^ (v \div 2)
              /\ (k ^^ v) % 2 = (k + v) % 2
          BY <3>1, XorBit, ZenonT(40)
        <4>8. (u ^^ m) \div 2 = (k ^^ v) \div 2
          <5>1. (u ^^ m) \div 2 = (p ^^ q) ^^ r  BY <3>2, <3>3, <3>4, <4>3, <4>5
          <5>2. (k ^^ v) \div 2 = p ^^ (q ^^ r)  BY <3>2, <3>3, <3>4, <4>4, <4>6
          <5> QED  BY <3>5, <5>1, <5>2
        <4>7. (u + m) % 2 = (k + v) % 2  BY <3>1, <4>3, <4>4
        <4> QED  BY <3>7, <4>1, <4>2, <4>5, <4>6, <4>7, <4>8
      <3> QED  BY <1>2, <3>1, <3>8, <3>9, <3>10
    <2> HIDE DEF Laws
    <2>3. \A k \in 0 .. n + 1 : Laws(k)  BY <1>3, <2>2
    <2> QED  BY <2>1, <2>3
  <1> HIDE DEF T
  <1>6. T = Nat
    <2>1. T \in SUBSET Nat  BY DEF T
    <2> QED  BY <1>4, <1>5, <2>1, Induct
  <1>7. Laws(a)
    <2>1. a \in T /\ a \in 0 .. a  BY <1>6
    <2> QED  BY <2>1 DEF T
  <1> QED  BY <1>1, <1>7, XorStep

(***************************************************************************)
(* The size of the hash table.                                             *)

(***************************************************************************)
(* What is assumed of the constants, one by one.                           *)
LEMMA ConstsAre ==
  /\ size \in Nat /\ 100 <= size
  /\ KeyLen \in [Key -> Nat \ {0}] /\ KeyHash \in [Key -> Bucket] /\ DataLen \in [Data -> Nat]
  /\ Ttl \subseteq Nat /\ MaxDepth \in Nat /\ MaxTtl \in Nat \ {0} /\ MaxNow \in Nat
  <1>1. cachesize \in Nat  BY CacheAssumption
  <1>2. size \in Nat /\ 100 <= size  BY <1>1, SMT DEF size
  <1>3. KeyLen \in [Key -> Nat \ {0}] /\ KeyHash \in [Key -> Bucket] /\ DataLen \in [Data -> Nat]
    BY CacheAssumption
  <1>4. Ttl \subseteq Nat /\ MaxDepth \in Nat /\ MaxTtl \in Nat \ {0} /\ MaxNow \in Nat
    BY CacheAssumption
  <1> QED  BY <1>2, <1>3, <1>4

\* The table takes at most a sixteenth of the memory.
LEMMA HsizeIs ==
  /\ size \in Nat /\ hsize \in Nat /\ 4 <= hsize /\ 16 * hsize <= size
  /\ \A b \in Bucket : b \in Nat /\ b < hsize
  <1> DEFINE S == {h \in Nat : 4 <= h /\ 16 * h <= size}
             st == [h \in S |-> IF h <= size \div 32 THEN 2 * h ELSE h]
             F(f) == [i \in 0 .. 25 |-> IF i = 0 THEN 4
                                        ELSE LET last == f[i - 1]
                                             IN IF last <= size \div 32 THEN 2 * last ELSE last]
  <1>1. size \in Nat /\ 100 <= size  BY ConstsAre
  <1>2. 4 \in S  BY <1>1
  <1>3. st \in [S -> S]
    <2>1. ASSUME NEW h \in S, h <= size \div 32 PROVE 2 * h \in S
      <3>1. PICK z \in Nat : z = size  BY <1>1
      <3>2. h \in Nat /\ 4 <= h /\ h <= z \div 32  BY <2>1, <3>1
      <3>3. 32 * (z \div 32) <= z  OBVIOUS
      <3> QED  BY <3>1, <3>2, <3>3
    <2> QED  BY <2>1
  <1>4. PICK f \in [0 .. 25 -> S] : Turned(4, st, 25, f)
    <2> HIDE DEF S, st
    <2> QED  BY <1>2, <1>3, TurnsExist
  <1>5. f = F(f)
    <2>1. ASSUME NEW i \in 0 .. 25 PROVE f[i] = F(f)[i]
      <3>1. CASE i = 0  BY <1>4, <3>1 DEF Turned
      <3>2. CASE i # 0
        <4>1. i \in 1 .. 25 /\ i - 1 \in 0 .. 25  BY <3>2
        <4>2. f[i] = st[f[i - 1]] /\ f[i - 1] \in S  BY <1>4, <4>1 DEF Turned
        <4> HIDE DEF S
        <4> QED  BY <3>2, <4>2
      <3> QED  BY <3>1, <3>2
    <2>2. f = [i \in 0 .. 25 |-> f[i]] /\ F(f) = [i \in 0 .. 25 |-> F(f)[i]]  BY <1>4
    <2> HIDE DEF F
    <2> QED  BY <2>1, <2>2
  <1>6. doubled = CHOOSE h : h = F(h)  BY DEF doubled
  <1>7. doubled = F(doubled)
    <2> HIDE DEF F
    <2> QED  BY <1>5, <1>6
  <1>8. F(doubled)[0] = 4 /\ \A i \in 1 .. 25 : F(doubled)[i] = IF doubled[i - 1] <= size \div 32 THEN 2 * doubled[i - 1] ELSE doubled[i - 1]
    OBVIOUS
  <1>9. doubled[0] = 4 /\ \A i \in 1 .. 25 : doubled[i] = IF doubled[i - 1] <= size \div 32 THEN 2 * doubled[i - 1] ELSE doubled[i - 1]
    <2> HIDE DEF F
    <2> QED  BY <1>7, <1>8
  <1> HIDE DEF F
  <1> DEFINE T == {n \in Nat : n <= 25 => doubled[n] \in S}
  <1>10. T = Nat
    <2>1. 0 \in T  BY <1>2, <1>9
    <2>2. ASSUME NEW n \in T PROVE n + 1 \in T
      <3>1. SUFFICES ASSUME n + 1 <= 25 PROVE doubled[n + 1] \in S  OBVIOUS
      <3>2. n \in Nat /\ n + 1 \in 1 .. 25 /\ (n + 1) - 1 = n /\ n <= 25  BY <3>1
      <3>3. PICK h \in S : h = doubled[n]  BY <3>2
      <3>4. doubled[n + 1] = st[h]
        <4> HIDE DEF S
        <4> QED  BY <1>9, <3>2, <3>3
      <3> HIDE DEF S, st
      <3> QED  BY <1>3, <3>4
    <2> HIDE DEF T
    <2>3. T \in SUBSET Nat  BY DEF T
    <2> QED  BY <2>1, <2>2, <2>3, Induct
  <1>11. hsize \in S
    <2>1. 25 \in T /\ 25 <= 25  BY <1>10
    <2> HIDE DEF S
    <2> QED  BY <2>1 DEF T, hsize
  <1> QED  BY <1>1, <1>11 DEF Bucket

(***************************************************************************)
(* What is in the memory, in the middle of cache_set as well.              *)

(***************************************************************************)
CacheEntry == [key : Key, data : Data, link : Nat, expire : Nat \ {0}]
Entries == UNION {[P -> CacheEntry] : P \in SUBSET Nat}
Store == [writer : Nat, oldest : Nat, unused : Nat, head : [Bucket -> Nat], entry : Entries]

EndOf(m, p) == p + Len20(m.entry[p])
Here(m, b) == {p \in DOMAIN m.entry : KeyHash[m.entry[p].key] = b}

\* The comment of cache.c, and where entries may lie: an entry ends before the
\* next one begins.
Ring(m) ==
  /\ hsize <= m.writer /\ m.writer <= m.oldest /\ m.oldest <= m.unused /\ m.unused <= size
  /\ m.oldest = m.unused => m.unused = size
  /\ \A p \in DOMAIN m.entry :
       /\ hsize <= p
       /\ p < m.writer => /\ EndOf(m, p) <= m.writer
                          /\ EndOf(m, p) \in DOMAIN m.entry \/ EndOf(m, p) = m.writer
       /\ p >= m.writer => /\ m.oldest <= p /\ EndOf(m, p) <= m.unused
                           /\ EndOf(m, p) \in DOMAIN m.entry \/ EndOf(m, p) = m.unused
  /\ \A p, q \in DOMAIN m.entry : p < q => EndOf(m, p) <= q
  /\ m.writer > hsize => hsize \in DOMAIN m.entry
  /\ m.oldest < m.unused => m.oldest \in DOMAIN m.entry

\* The chain of bucket b: its n entries, newest first, between the head link
\* and the end, each linked to both neighbours.
Chain(m, b, n, t) ==
  /\ t \in [0 .. n + 1 -> Nat] /\ t[0] = b /\ t[n + 1] = 0 /\ m.head[b] = t[1]
  /\ \A i \in 1 .. n : t[i] \in Here(m, b) /\ m.entry[t[i]].link = t[i - 1] ^^ t[i + 1]
  /\ \A p \in Here(m, b) : \E i \in 1 .. n : t[i] = p
  /\ \A i, j \in 1 .. n : i < j => Newer(m, t[i], t[j])

\* The newest entry with a key is what was stored last for it.
Newest(m, lat) ==
  \A p \in DOMAIN m.entry :
    (\A q \in DOMAIN m.entry : m.entry[q].key = m.entry[p].key => ~Newer(m, q, p))
      => lat[m.entry[p].key] = [data |-> m.entry[p].data, expire |-> m.entry[p].expire]

Good(m) ==
  /\ m \in Store /\ IsFiniteSet(DOMAIN m.entry) /\ Ring(m)
  /\ \A b \in Bucket : \E n \in Nat : \E t \in [0 .. n + 1 -> Nat] : Chain(m, b, n, t)

\* The types of what is in memory.
LEMMA StoreIs ==
  ASSUME NEW m \in Store
  PROVE  /\ m.writer \in Nat /\ m.oldest \in Nat /\ m.unused \in Nat
         /\ m.head \in [Bucket -> Nat]
         /\ m.entry \in Entries /\ DOMAIN m.entry \in SUBSET Nat
         /\ m.entry \in [DOMAIN m.entry -> CacheEntry]
         /\ \A p \in DOMAIN m.entry : /\ p \in Nat /\ m.entry[p] \in CacheEntry
                                      /\ Len20(m.entry[p]) \in Nat /\ Len20(m.entry[p]) >= 21
                                      /\ EndOf(m, p) \in Nat /\ p < EndOf(m, p)
                                      /\ KeyHash[m.entry[p].key] \in Bucket
  <1>1. PICK P \in SUBSET Nat : m.entry \in [P -> CacheEntry]  BY DEF Store, Entries
  <1>2. DOMAIN m.entry = P  BY <1>1
  <1>3. ASSUME NEW p \in DOMAIN m.entry
        PROVE  /\ p \in Nat /\ m.entry[p] \in CacheEntry
               /\ Len20(m.entry[p]) \in Nat /\ Len20(m.entry[p]) >= 21
               /\ EndOf(m, p) \in Nat /\ p < EndOf(m, p)
               /\ KeyHash[m.entry[p].key] \in Bucket
    <2>1. p \in Nat /\ m.entry[p] \in CacheEntry  BY <1>1, <1>2
    <2>2. m.entry[p].key \in Key /\ m.entry[p].data \in Data  BY <2>1 DEF CacheEntry
    <2>3. KeyLen[m.entry[p].key] \in Nat \ {0} /\ DataLen[m.entry[p].data] \in Nat
          /\ KeyHash[m.entry[p].key] \in Bucket
      BY <2>2, ConstsAre
    <2>4. Len20(m.entry[p]) \in Nat /\ Len20(m.entry[p]) >= 21  BY <2>3 DEF Len20
    <2> QED  BY <2>1, <2>3, <2>4 DEF EndOf
  <1> QED  BY <1>1, <1>2, <1>3 DEF Store

LEMMA EntriesAre ==
  ASSUME NEW e, DOMAIN e \in SUBSET Nat, e \in [DOMAIN e -> CacheEntry]
  PROVE  e \in Entries
  BY DEF Entries

\* Of two entries one is the newer.
LEMMA NewerOrder ==
  ASSUME NEW m, m.writer \in Nat, NEW p \in Nat, NEW q \in Nat
  PROVE  /\ Newer(m, p, q) => p # q /\ ~Newer(m, q, p)
         /\ p # q => Newer(m, p, q) \/ Newer(m, q, p)
  BY DEF Newer

\* A position is a bucket's or an entry's, never both.
LEMMA Words ==
  ASSUME NEW m \in Store, Ring(m)
  PROVE  /\ \A b \in Bucket : Get4(m, b) = m.head[b]
         /\ \A p \in DOMAIN m.entry : p \notin Bucket /\ p # 0 /\ Get4(m, p) = m.entry[p].link
         /\ \A b \in Bucket : \A w \in Nat : Set4(m, b, w) = [m EXCEPT !.head[b] = w]
         /\ \A p \in DOMAIN m.entry : \A w \in Nat : Set4(m, p, w) = [m EXCEPT !.entry[p].link = w]
  <1>1. \A p \in DOMAIN m.entry : p \notin Bucket /\ p # 0  BY StoreIs, HsizeIs DEF Ring
  <1> QED  BY <1>1 DEF Get4, Set4

\* The writer's turn makes the new entries the old ones.
LEMMA TurnIs ==
  ASSUME NEW m \in Store
  PROVE  /\ Turn(m) \in Store /\ Turn(m).entry = m.entry /\ Turn(m).head = m.head
         /\ Turn(m).writer = hsize /\ Turn(m).oldest = hsize /\ Turn(m).unused = m.writer
  BY HsizeIs DEF Store, Turn

\* With the old part used up every entry lies before the writer.
LEMMA AllNew ==
  ASSUME NEW m \in Store, Ring(m), m.oldest = m.unused
  PROVE  \A p \in DOMAIN m.entry : p < m.writer
  BY StoreIs, HsizeIs DEF Ring

LEMMA TurnOK ==
  ASSUME NEW m, Good(m), m.oldest = m.unused, m.writer > hsize
  PROVE  /\ Good(Turn(m)) /\ Turn(m).oldest < Turn(m).unused /\ Turn(m).entry = m.entry
         /\ \A lat : Newest(m, lat) => Newest(Turn(m), lat)
  <1> DEFINE z == Turn(m)
  <1>1. m \in Store /\ IsFiniteSet(DOMAIN m.entry) /\ Ring(m)  BY DEF Good
  <1>2. /\ z \in Store /\ z.entry = m.entry /\ z.head = m.head
        /\ z.writer = hsize /\ z.oldest = hsize /\ z.unused = m.writer
    BY <1>1, TurnIs
  <1> HIDE DEF z
  <1>3. /\ m.writer \in Nat /\ hsize \in Nat /\ m.oldest \in Nat /\ size \in Nat
        /\ \A p \in DOMAIN m.entry : p \in Nat /\ p < m.writer /\ p >= hsize
    BY <1>1, StoreIs, HsizeIs, AllNew DEF Ring
  <1>4. Ring(z)  BY <1>1, <1>2, <1>3 DEF Ring, EndOf
  <1>5. \A p, q \in DOMAIN m.entry : Newer(z, p, q) <=> Newer(m, p, q)
    BY <1>2, <1>3 DEF Newer
  <1>6. ASSUME NEW b \in Bucket
        PROVE  \E n \in Nat : \E t \in [0 .. n + 1 -> Nat] : Chain(z, b, n, t)
    <2>1. PICK n \in Nat : \E t \in [0 .. n + 1 -> Nat] : Chain(m, b, n, t)  BY DEF Good
    <2>2. PICK t \in [0 .. n + 1 -> Nat] : Chain(m, b, n, t)  BY <2>1
    <2>3. Here(z, b) = Here(m, b) /\ Here(m, b) \subseteq DOMAIN m.entry  BY <1>2 DEF Here
    <2>4. Chain(z, b, n, t)  BY <1>2, <1>5, <2>2, <2>3 DEF Chain
    <2> QED  BY <2>4
  <1>7. \A lat : Newest(m, lat) => Newest(z, lat)  BY <1>2, <1>5 DEF Newest
  <1>8. Good(z)  BY <1>1, <1>2, <1>4, <1>6 DEF Good
  <1> QED  BY <1>2, <1>3, <1>7, <1>8 DEF z

(***************************************************************************)
(* Eviction.                                                               *)

(***************************************************************************)
(* The oldest entry is the last of its chain.                              *)
LEMMA LastInChain ==
  ASSUME NEW m \in Store, Ring(m), m.oldest \in DOMAIN m.entry, m.oldest < m.unused,
         NEW b, m.oldest \in Here(m, b), NEW n \in Nat, NEW t, Chain(m, b, n, t)
  PROVE  n >= 1 /\ t[n] = m.oldest
  <1>1. PICK i \in 1 .. n : t[i] = m.oldest  BY DEF Chain
  <1>2. i = n
    <2>1. SUFFICES ASSUME i < n PROVE FALSE  BY <1>1
    <2>2. i + 1 \in 1 .. n /\ n \in 1 .. n  BY <2>1
    <2>3. Newer(m, t[i], t[n]) /\ t[n] \in DOMAIN m.entry  BY <2>1, <2>2 DEF Chain, Here
    <2>4. m.oldest >= m.writer /\ m.oldest \in Nat /\ m.writer \in Nat /\ t[n] \in Nat
          /\ (t[n] < m.writer \/ t[n] >= m.oldest)
      BY <2>3, StoreIs DEF Ring
    <2> QED  BY <1>1, <2>3, <2>4 DEF Newer
  <1> QED  BY <1>1, <1>2

\* What eviction leaves: the last of the n entries of chain t is cut off.
Evicted(m, b, n, t, z) ==
  /\ z \in Store /\ z.writer = m.writer
  /\ z.head = IF n = 1 THEN [m.head EXCEPT ![b] = 0] ELSE m.head
  /\ DOMAIN z.entry = DOMAIN m.entry \ {m.oldest}
  /\ \A p \in DOMAIN z.entry :
       z.entry[p] = IF n > 1 /\ p = t[n - 1] THEN [m.entry[p] EXCEPT !.link = t[n - 2]]
                    ELSE m.entry[p]
  /\ z.oldest = IF EndOf(m, m.oldest) = m.unused THEN size ELSE EndOf(m, m.oldest)
  /\ z.unused = IF EndOf(m, m.oldest) = m.unused THEN size ELSE m.unused

\* The oldest entry's link leads to the one before it in the chain, or to the
\* bucket, and the link there gets the end of the chain.
LEMMA EvictIs ==
  ASSUME NEW m \in Store, Ring(m), m.oldest \in DOMAIN m.entry, m.oldest < m.unused,
         NEW b \in Bucket, m.oldest \in Here(m, b), NEW n \in Nat, NEW t, Chain(m, b, n, t),
         NEW z, z = Evict(m)
  PROVE  Evicted(m, b, n, t, z)
  <1> DEFINE o == m.oldest
             before == Get4(m, o)
             cut == Set4(m, before, Get4(m, before) ^^ o)
             rest == [p \in DOMAIN m.entry \ {o} |-> cut.entry[p]]
             after == EndOf(m, o)
  <1>1. n >= 1 /\ t[n] = o  BY LastInChain
  <1>2. t \in [0 .. n + 1 -> Nat] /\ n \in 1 .. n /\ n - 1 \in 0 .. n + 1 /\ n \in 0 .. n + 1
    <2>1. t \in [0 .. n + 1 -> Nat]  BY DEF Chain
    <2>2. n \in 1 .. n /\ n - 1 \in 0 .. n + 1 /\ n \in 0 .. n + 1  BY <1>1
    <2> QED  BY <2>1, <2>2
  <1>3. o \in Nat /\ t[n - 1] \in Nat  BY <1>1, <1>2
  <1>4. before = t[n - 1]
    <2>1. before = m.entry[o].link  BY Words
    <2>2. m.entry[t[n]].link = t[n - 1] ^^ t[n + 1] /\ t[n + 1] = 0  BY <1>2 DEF Chain
    <2> QED  BY <1>1, <1>3, <2>1, <2>2, XorLaws
  <1>5. /\ m.head \in [Bucket -> Nat] /\ m.entry \in [DOMAIN m.entry -> CacheEntry]
        /\ DOMAIN m.entry \in SUBSET Nat
    BY StoreIs
  <1>8. z = [cut EXCEPT !.entry = rest,
                        !.oldest = IF after = m.unused THEN size ELSE after,
                        !.unused = IF after = m.unused THEN size ELSE @]
    BY DEF Evict, EndOf
  <1>9. after \in Nat /\ size \in Nat  BY StoreIs, ConstsAre
  <1>10. ASSUME NEW d, d \in Store, d.writer = m.writer, d.unused = m.unused,
                DOMAIN d.entry = DOMAIN m.entry, d = cut
         PROVE  /\ z \in Store /\ z.writer = m.writer /\ z.head = d.head
                /\ DOMAIN z.entry = DOMAIN m.entry \ {o}
                /\ \A p \in DOMAIN z.entry : z.entry[p] = d.entry[p]
                /\ z.oldest = IF after = m.unused THEN size ELSE after
                /\ z.unused = IF after = m.unused THEN size ELSE m.unused
    <2>1. rest = [p \in DOMAIN d.entry \ {o} |-> d.entry[p]]  BY <1>10
    <2>2. d.entry \in [DOMAIN d.entry -> CacheEntry]  BY <1>10, StoreIs
    <2> HIDE DEF rest, cut, after
    <2>3. rest \in Entries
      <3>1. DOMAIN rest \in SUBSET Nat /\ rest \in [DOMAIN rest -> CacheEntry]  BY <1>5, <1>10, <2>1, <2>2
      <3> QED  BY <3>1, EntriesAre
    <2>4. d \in Store  BY <1>10
    <2>5. PICK v : v = IF after = m.unused THEN size ELSE after  OBVIOUS
    <2>6. PICK u : u = IF after = m.unused THEN size ELSE m.unused  OBVIOUS
    <2>7. v \in Nat /\ u \in Nat  BY <1>9, <2>4, <2>5, <2>6, <1>10 DEF Store
    <2>8. z = [[[d EXCEPT !.entry = rest] EXCEPT !.oldest = v] EXCEPT !.unused = u]
      <3>1. d.unused = m.unused  BY <1>10
      <3>2. z = [d EXCEPT !.entry = rest, !.oldest = v, !.unused = u]
        BY <1>8, <1>10, <2>4, <2>5, <2>6, <3>1 DEF Store
      <3> QED  BY <3>2, <2>4 DEF Store
    <2>9. /\ z \in Store /\ z.writer = d.writer /\ z.head = d.head /\ z.entry = rest
          /\ z.oldest = v /\ z.unused = u
      BY <2>3, <2>4, <2>7, <2>8 DEF Store
    <2>10. DOMAIN z.entry = DOMAIN m.entry \ {o} /\ \A p \in DOMAIN z.entry : z.entry[p] = d.entry[p]
      BY <2>1, <2>9, <1>10
    <2> QED  BY <1>10, <2>5, <2>6, <2>9, <2>10
  <1>6. CASE n = 1
    <2>1. before = b /\ Get4(m, b) = o  BY <1>1, <1>4, <1>6, Words DEF Chain
    <2>2. o ^^ o = 0  BY <1>3, XorLaws
    <2>3. cut = [m EXCEPT !.head[b] = 0]  BY <2>1, <2>2, Words
    <2>4. PICK d : d = [m EXCEPT !.head[b] = 0]  OBVIOUS
    <2>5. /\ d \in Store /\ d.writer = m.writer /\ d.unused = m.unused /\ d.entry = m.entry
          /\ d.head = [m.head EXCEPT ![b] = 0]
      BY <2>4 DEF Store
    <2> HIDE DEF cut, rest, after
    <2>6. DOMAIN d.entry = DOMAIN m.entry /\ d = cut  BY <2>3, <2>4, <2>5
    <2> QED  BY <1>6, <1>10, <2>5, <2>6 DEF after, Evicted
  <1>7. CASE n > 1
    <2>1. n - 1 \in 1 .. n /\ n - 2 \in 0 .. n + 1 /\ (n - 1) - 1 = n - 2 /\ (n - 1) + 1 = n
      BY <1>7
    <2>2. t[n - 1] \in DOMAIN m.entry /\ m.entry[t[n - 1]].link = t[n - 2] ^^ t[n]
      BY <2>1 DEF Chain, Here
    <2>3. t[n - 2] \in Nat  BY <1>2, <2>1
    <2>4. Get4(m, before) ^^ o = t[n - 2]
      <3>1. Get4(m, before) = t[n - 2] ^^ o  BY <1>1, <1>4, <2>2, Words
      <3>2. (t[n - 2] ^^ o) ^^ o = t[n - 2] ^^ (o ^^ o) /\ o ^^ o = 0 /\ t[n - 2] ^^ 0 = t[n - 2]
        BY <1>3, <2>3, XorLaws
      <3> QED  BY <3>1, <3>2
    <2>5. cut = [m EXCEPT !.entry[t[n - 1]].link = t[n - 2]]
      <3>1. cut = Set4(m, t[n - 1], t[n - 2])  BY <1>4, <2>4
      <3> HIDE DEF cut
      <3>2. PICK q \in DOMAIN m.entry : q = t[n - 1]  BY <2>2
      <3>3. PICK w \in Nat : w = t[n - 2]  BY <2>3
      <3>4. Set4(m, q, w) = [m EXCEPT !.entry[q].link = w]
        <4>1. q \notin Bucket  BY Words
        <4> QED  BY <4>1 DEF Set4
      <3> QED  BY <3>1, <3>2, <3>3, <3>4
    <2>6. PICK q : q = t[n - 1]  OBVIOUS
    <2>7. PICK w \in Nat : w = t[n - 2]  BY <2>3
    <2>8. PICK e : e = [m.entry EXCEPT ![q].link = w]  OBVIOUS
    <2>9. q \in DOMAIN m.entry /\ m.entry[q] \in CacheEntry  BY <2>2, <2>6, StoreIs
    <2>10. /\ DOMAIN e = DOMAIN m.entry /\ e \in [DOMAIN m.entry -> CacheEntry]
           /\ \A p \in DOMAIN e : e[p] = IF p = q THEN [m.entry[p] EXCEPT !.link = w] ELSE m.entry[p]
      BY <1>5, <2>8, <2>9 DEF CacheEntry
    <2>11. e \in Entries  BY <1>5, <2>10, EntriesAre
    <2>12. PICK d : d = [m EXCEPT !.entry = e]  OBVIOUS
    <2>13. /\ d \in Store /\ d.writer = m.writer /\ d.unused = m.unused /\ d.entry = e
           /\ d.head = m.head
      BY <2>11, <2>12 DEF Store
    <2> HIDE DEF cut, rest, after
    <2>14. d = cut
      <3>1. cut = [m EXCEPT !.entry[q].link = w]  BY <2>5, <2>6, <2>7
      <3> QED  BY <2>8, <2>12, <3>1 DEF Store
    <2> QED  BY <1>7, <1>10, <2>6, <2>7, <2>10, <2>13, <2>14 DEF after, Evicted
  <1> QED  BY <1>1, <1>6, <1>7

\* Eviction keeps the memory in order.
LEMMA EvictOK ==
  ASSUME NEW m, Good(m), m.oldest < m.unused, NEW z, z = Evict(m)
  PROVE  /\ Good(z) /\ DOMAIN z.entry = DOMAIN m.entry \ {m.oldest} /\ m.oldest \in DOMAIN m.entry
         /\ \A lat : Newest(m, lat) => Newest(z, lat)
  <1>1. m \in Store /\ IsFiniteSet(DOMAIN m.entry) /\ Ring(m)  BY DEF Good
  <1>2. PICK o : o = m.oldest  OBVIOUS
  <1>2a. o \in DOMAIN m.entry /\ o \in Nat  BY <1>1, <1>2, StoreIs DEF Ring
  <1>3. PICK b \in Bucket : b = KeyHash[m.entry[o].key] /\ o \in Here(m, b)
    BY <1>1, <1>2a, StoreIs DEF Here
  <1>4. PICK n \in Nat : \E t \in [0 .. n + 1 -> Nat] : Chain(m, b, n, t)  BY <1>3 DEF Good
  <1>5. PICK t \in [0 .. n + 1 -> Nat] : Chain(m, b, n, t)  BY <1>4
  <1>6. n >= 1 /\ t[n] = o  BY <1>1, <1>2, <1>2a, <1>3, <1>5, LastInChain
  <1>7. /\ z \in Store /\ z.writer = m.writer
        /\ z.head = IF n = 1 THEN [m.head EXCEPT ![b] = 0] ELSE m.head
        /\ DOMAIN z.entry = DOMAIN m.entry \ {o}
        /\ \A p \in DOMAIN z.entry :
             z.entry[p] = IF n > 1 /\ p = t[n - 1] THEN [m.entry[p] EXCEPT !.link = t[n - 2]]
                          ELSE m.entry[p]
        /\ z.oldest = IF EndOf(m, o) = m.unused THEN size ELSE EndOf(m, o)
        /\ z.unused = IF EndOf(m, o) = m.unused THEN size ELSE m.unused
    <2>1. m \in Store /\ Ring(m) /\ m.oldest \in DOMAIN m.entry /\ m.oldest \in Here(m, b)
      BY <1>1, <1>2, <1>2a, <1>3
    <2>2. Evicted(m, b, n, t, z)  BY <1>5, <2>1, EvictIs
    <2> QED  BY <1>2, <2>2 DEF Evicted
  <1>8. \A p \in DOMAIN z.entry : /\ p \in DOMAIN m.entry /\ p \in Nat /\ m.entry[p] \in CacheEntry
                                  /\ z.entry[p].key = m.entry[p].key
                                  /\ z.entry[p].data = m.entry[p].data
                                  /\ z.entry[p].expire = m.entry[p].expire
                                  /\ EndOf(z, p) = EndOf(m, p) /\ EndOf(m, p) \in Nat
    <2> SUFFICES ASSUME NEW p \in DOMAIN z.entry
                 PROVE  /\ p \in DOMAIN m.entry /\ p \in Nat /\ m.entry[p] \in CacheEntry
                        /\ z.entry[p].key = m.entry[p].key
                        /\ z.entry[p].data = m.entry[p].data
                        /\ z.entry[p].expire = m.entry[p].expire
                        /\ EndOf(z, p) = EndOf(m, p) /\ EndOf(m, p) \in Nat
      OBVIOUS
    <2>1. p \in DOMAIN m.entry /\ p \in Nat /\ m.entry[p] \in CacheEntry /\ EndOf(m, p) \in Nat
      BY <1>1, <1>7, StoreIs
    <2>2. /\ z.entry[p].key = m.entry[p].key /\ z.entry[p].data = m.entry[p].data
          /\ z.entry[p].expire = m.entry[p].expire
      BY <1>7, <2>1 DEF CacheEntry
    <2> QED  BY <2>1, <2>2 DEF EndOf, Len20
  <1>9. \A p, q \in DOMAIN m.entry : Newer(z, p, q) <=> Newer(m, p, q)  BY <1>7 DEF Newer
  <1>10. Ring(z)
    <2>1. /\ m.writer \in Nat /\ m.oldest \in Nat /\ m.unused \in Nat /\ hsize \in Nat /\ size \in Nat
          /\ \A p \in DOMAIN m.entry : p \in Nat /\ EndOf(m, p) \in Nat /\ p < EndOf(m, p)
      BY <1>1, StoreIs, HsizeIs
    <2>2. /\ o >= m.writer /\ EndOf(m, o) <= m.unused
          /\ EndOf(m, o) \in DOMAIN m.entry \/ EndOf(m, o) = m.unused
      BY <1>1, <1>2, <1>2a, <2>1 DEF Ring
    <2>3. \A p \in DOMAIN z.entry : p >= m.writer => p > o /\ EndOf(m, o) <= p
      BY <1>1, <1>2, <1>2a, <1>7, <2>1 DEF Ring
    <2>4. /\ m.writer > hsize => hsize \in DOMAIN z.entry
          /\ \A p, q \in DOMAIN z.entry : p < q => EndOf(z, p) <= q
      BY <1>1, <1>2, <1>2a, <1>7, <1>8, <2>1, <2>2 DEF Ring
    <2>5. /\ hsize <= z.writer /\ z.writer <= z.oldest /\ z.oldest <= z.unused /\ z.unused <= size
          /\ z.oldest = z.unused => z.unused = size
          /\ z.oldest < z.unused => z.oldest \in DOMAIN z.entry
      BY <1>1, <1>2, <1>2a, <1>7, <2>1, <2>2 DEF Ring
    <2>6. ASSUME NEW p \in DOMAIN z.entry
          PROVE  /\ hsize <= p
                 /\ p < m.writer => /\ EndOf(m, p) <= m.writer
                                    /\ EndOf(m, p) \in DOMAIN z.entry \/ EndOf(m, p) = m.writer
                 /\ p >= m.writer => /\ z.oldest <= p /\ EndOf(m, p) <= z.unused
                                     /\ EndOf(m, p) \in DOMAIN z.entry \/ EndOf(m, p) = z.unused
      <3>1. p \in DOMAIN m.entry /\ p \in Nat /\ EndOf(m, p) \in Nat /\ p < EndOf(m, p)
        BY <1>7, <2>1
      <3>2. /\ hsize <= p
            /\ p < m.writer => /\ EndOf(m, p) <= m.writer
                               /\ EndOf(m, p) \in DOMAIN m.entry \/ EndOf(m, p) = m.writer
            /\ p >= m.writer => /\ EndOf(m, p) <= m.unused
                                /\ EndOf(m, p) \in DOMAIN m.entry \/ EndOf(m, p) = m.unused
        BY <1>1, <3>1 DEF Ring
      <3>3. CASE p < m.writer  BY <1>7, <2>1, <2>2, <3>1, <3>2, <3>3
      <3>4. CASE p >= m.writer
        <4>1. p > o /\ EndOf(m, o) <= p  BY <2>3, <3>4
        <4>2. EndOf(m, o) # m.unused  BY <1>2a, <2>1, <3>1, <3>2, <3>4, <4>1
        <4>3. EndOf(m, p) # o  BY <1>2a, <3>1, <4>1
        <4> QED  BY <1>7, <2>1, <3>1, <3>2, <3>4, <4>1, <4>2, <4>3
      <3> QED  BY <2>1, <3>1, <3>3, <3>4
    <2> QED  BY <1>7, <1>8, <2>4, <2>5, <2>6 DEF Ring
  <1>11. ASSUME NEW d \in Bucket
         PROVE  \E k \in Nat : \E s \in [0 .. k + 1 -> Nat] : Chain(z, d, k, s)
    <2>1. Here(z, d) = Here(m, d) \ {o}  BY <1>7, <1>8 DEF Here
    <2>2. \A i, j \in 1 .. n : i # j => t[i] # t[j]
      <3>1. ASSUME NEW i \in 1 .. n, NEW j \in 1 .. n, i < j PROVE t[i] # t[j]
        <4>1. Newer(m, t[i], t[j])  BY <1>5, <3>1 DEF Chain
        <4>2. m.writer \in Nat  BY <1>1, StoreIs
        <4>3. t[i] \in Nat /\ t[j] \in Nat
          <5>1. i \in 0 .. n + 1 /\ j \in 0 .. n + 1  OBVIOUS
          <5> QED  BY <5>1
        <4> QED  BY <4>1, <4>2, <4>3, NewerOrder
      <3> QED  BY <3>1
    <2>3. CASE d = b
      <3> DEFINE s == [i \in 0 .. n |-> IF i = n THEN 0 ELSE t[i]]
      <3>1. n - 1 \in Nat /\ (n - 1) + 1 = n  BY <1>6
      <3>2. s \in [0 .. (n - 1) + 1 -> Nat] /\ s[0] = b /\ s[n] = 0
        <4>1. \A i \in 0 .. n : s[i] \in Nat
          <5>1. \A i \in 0 .. n : i \in 0 .. n + 1  OBVIOUS
          <5> QED  BY <5>1
        <4>2. s \in [0 .. n -> Nat]  BY <4>1
        <4>3. t[0] = b /\ 0 \in 0 .. n /\ n \in 0 .. n /\ n # 0  BY <1>5, <1>6 DEF Chain
        <4> QED  BY <3>1, <4>2, <4>3
      <3>3. z.head[b] = s[1]
        <4>1. m.head[b] = t[1] /\ m.head \in [Bucket -> Nat]  BY <1>1, <1>5, StoreIs DEF Chain
        <4>2. 1 \in 0 .. n  BY <1>6
        <4>3. CASE n = 1  BY <1>7, <4>1, <4>2, <4>3
        <4>4. CASE n > 1  BY <1>7, <4>1, <4>2, <4>4
        <4> QED  BY <1>6, <4>3, <4>4
      <3>4. \A i \in 1 .. n - 1 : s[i] = t[i] /\ i \in 1 .. n  OBVIOUS
      <3>5. ASSUME NEW i \in 1 .. n - 1
            PROVE  s[i] \in Here(z, b) /\ z.entry[s[i]].link = s[i - 1] ^^ s[i + 1]
        <4>1. i \in 1 .. n /\ i # n /\ n \in 1 .. n /\ i - 1 \in 0 .. n /\ i + 1 \in 0 .. n /\ i - 1 # n
          OBVIOUS
        <4>2. t[i] \in Here(m, b) /\ m.entry[t[i]].link = t[i - 1] ^^ t[i + 1]
          BY <1>5, <4>1 DEF Chain
        <4>3. t[i] \in Here(z, b)  BY <1>6, <2>1, <2>2, <2>3, <4>1, <4>2
        <4>4. t[i] \in DOMAIN z.entry  BY <4>3 DEF Here
        <4>5. s[i - 1] = t[i - 1]  BY <4>1
        <4>6. CASE i = n - 1
          <5>1. z.entry[t[i]].link = t[n - 2]
            <6>1. z.entry[t[i]] = [m.entry[t[i]] EXCEPT !.link = t[n - 2]]
              <7>1. n > 1  BY <4>6
              <7> QED  BY <1>7, <4>4, <4>6, <7>1
            <6>2. m.entry[t[i]] \in CacheEntry  BY <1>8, <4>4
            <6> QED  BY <6>1, <6>2 DEF CacheEntry
          <5>2. s[i + 1] = 0 /\ i - 1 = n - 2 /\ t[n - 2] \in Nat
            BY <4>1, <4>6
          <5>3. t[n - 2] ^^ 0 = t[n - 2]  BY <5>2, XorLaws
          <5> HIDE DEF s
          <5> QED  BY <3>4, <4>3, <4>5, <5>1, <5>2, <5>3
        <4>7. CASE i # n - 1
          <5>1. n - 1 \in 1 .. n /\ n > 1  BY <4>7
          <5>2. t[i] # t[n - 1]  BY <2>2, <4>1, <4>7, <5>1
          <5>3. z.entry[t[i]] = m.entry[t[i]]  BY <1>7, <4>4, <5>2
          <5>4. s[i + 1] = t[i + 1]  BY <4>1, <4>7
          <5> HIDE DEF s
          <5> QED  BY <3>4, <4>2, <4>3, <4>5, <5>3, <5>4
        <4> QED  BY <4>6, <4>7
      <3>6. ASSUME NEW p \in Here(z, b) PROVE \E i \in 1 .. n - 1 : s[i] = p
        <4>1. p \in Here(m, b) /\ p # o  BY <2>1, <2>3
        <4>2. PICK i \in 1 .. n : t[i] = p  BY <1>5, <4>1 DEF Chain
        <4>3. i # n  BY <1>6, <4>1, <4>2
        <4> QED  BY <3>4, <4>2, <4>3
      <3>7. ASSUME NEW i \in 1 .. n - 1, NEW j \in 1 .. n - 1, i < j PROVE Newer(z, s[i], s[j])
        <4>1. Newer(m, t[i], t[j]) /\ t[i] \in DOMAIN m.entry /\ t[j] \in DOMAIN m.entry
          BY <1>5, <3>4, <3>7 DEF Chain, Here
        <4> QED  BY <1>9, <3>4, <4>1
      <3> HIDE DEF s
      <3>8. Chain(z, b, n - 1, s)  BY <3>1, <3>2, <3>3, <3>5, <3>6, <3>7 DEF Chain
      <3> QED  BY <2>3, <3>1, <3>2, <3>8
    <2>4. CASE d # b
      <3>1. PICK k \in Nat : \E s \in [0 .. k + 1 -> Nat] : Chain(m, d, k, s)  BY DEF Good
      <3>2. PICK s \in [0 .. k + 1 -> Nat] : Chain(m, d, k, s)  BY <3>1
      <3>3. o \notin Here(m, d)  BY <1>3, <2>4 DEF Here
      <3>4. Here(z, d) = Here(m, d)  BY <2>1, <3>3
      <3>5. z.head[d] = m.head[d]  BY <1>1, <1>7, <2>4, StoreIs
      <3>6. ASSUME NEW p \in Here(m, d) PROVE z.entry[p] = m.entry[p]
        <4>1. p \in DOMAIN z.entry  BY <3>4 DEF Here
        <4>2. n > 1 => t[n - 1] \in Here(m, b)
          <5>1. n > 1 => n - 1 \in 1 .. n  OBVIOUS
          <5> QED  BY <1>5, <5>1 DEF Chain
        <4>3. n > 1 => p # t[n - 1]  BY <2>4, <4>2 DEF Here
        <4> QED  BY <1>7, <4>1, <4>3
      <3>7. Here(m, d) \subseteq DOMAIN m.entry  BY DEF Here
      <3>8. Chain(z, d, k, s)  BY <1>9, <3>2, <3>4, <3>5, <3>6, <3>7 DEF Chain
      <3> QED  BY <3>8
    <2> QED  BY <2>3, <2>4
  <1>12. \A lat : Newest(m, lat) => Newest(z, lat)
    <2>1. \A p \in DOMAIN m.entry : ~Newer(m, o, p)
      BY <1>1, <1>2, <1>2a, StoreIs DEF Ring, Newer
    <2>2. ASSUME NEW lat, Newest(m, lat), NEW p \in DOMAIN z.entry,
                 \A q \in DOMAIN z.entry : z.entry[q].key = z.entry[p].key => ~Newer(z, q, p)
          PROVE  lat[z.entry[p].key] = [data |-> z.entry[p].data, expire |-> z.entry[p].expire]
      <3>1. \A q \in DOMAIN m.entry : m.entry[q].key = m.entry[p].key => ~Newer(m, q, p)
        BY <1>7, <1>8, <1>9, <2>1, <2>2
      <3> QED  BY <1>8, <2>2, <3>1 DEF Newest
    <2> QED  BY <2>2 DEF Newest
  <1>13. IsFiniteSet(DOMAIN z.entry)  BY <1>1, <1>7, FS_Subset
  <1> QED  BY <1>2, <1>2a, <1>7, <1>10, <1>11, <1>12, <1>13 DEF Good

(***************************************************************************)
(* The new entry.                                                          *)

(***************************************************************************)
(* What Link leaves: entry e in front of the n entries of chain t.         *)
Linked(m, b, n, t, e, z) ==
  /\ z \in Store /\ z.writer = EndOf(z, m.writer) /\ z.writer = m.writer + Len20(e)
  /\ z.oldest = m.oldest /\ z.unused = m.unused
  /\ z.head = [m.head EXCEPT ![b] = m.writer]
  /\ DOMAIN z.entry = DOMAIN m.entry \union {m.writer}
  /\ z.entry[m.writer] = [e EXCEPT !.link = b ^^ t[1]]
  /\ \A p \in DOMAIN m.entry :
       z.entry[p] = IF n >= 1 /\ p = t[1] THEN [m.entry[p] EXCEPT !.link = m.writer ^^ t[2]]
                    ELSE m.entry[p]

\* No entry lies at the writer when there is room.
LEMMA WriterFree ==
  ASSUME NEW m \in Store, Ring(m), NEW len \in Nat, len > 0, m.writer + len <= m.oldest
  PROVE  m.writer \notin DOMAIN m.entry
  BY StoreIs DEF Ring

\* The new entry's link joins the bucket to the first entry of its chain, whose
\* link learns the new position in place of the bucket's.
LEMMA LinkIs ==
  ASSUME NEW m \in Store, Ring(m), NEW e \in CacheEntry, m.writer + Len20(e) <= m.oldest,
         NEW b \in Bucket, b = KeyHash[e.key], NEW n \in Nat, NEW t, Chain(m, b, n, t),
         NEW z, z = Link(m, e)
  PROVE  Linked(m, b, n, t, e, z)
  <1> DEFINE old == Get4(m, b)
             told == IF old = 0 THEN m ELSE Set4(m, old, (Get4(m, old) ^^ b) ^^ m.writer)
             new == [e EXCEPT !.link = old ^^ b]
  <1>1. PICK w \in Nat : w = m.writer  BY StoreIs
  <1>2. old = t[1] /\ old \in Nat  BY Words, StoreIs DEF Chain
  <1>3. Len20(e) \in Nat /\ Len20(e) > 0
    <2>1. e.key \in Key /\ e.data \in Data  BY DEF CacheEntry
    <2>2. KeyLen[e.key] \in Nat /\ DataLen[e.data] \in Nat  BY <2>1, ConstsAre
    <2> QED  BY <2>2 DEF Len20
  <1>4. w \notin DOMAIN m.entry  BY <1>1, <1>3, WriterFree
  <1>5. b \in Nat  BY HsizeIs DEF Bucket
  <1>6. z = [told EXCEPT !.entry = [p \in DOMAIN @ \union {m.writer} |->
                                      IF p = m.writer THEN new ELSE @[p]],
                         !.head[b] = m.writer,
                         !.writer = @ + Len20(e)]
    BY DEF Link
  <1>7. PICK a : a = new  OBVIOUS
  <1>8. a = [e EXCEPT !.link = b ^^ t[1]] /\ a \in CacheEntry /\ Len20(a) = Len20(e)
    <2>1. old ^^ b = b ^^ t[1] /\ old ^^ b \in Nat  BY <1>2, <1>5, XorLaws
    <2> HIDE DEF old
    <2>2. a = [e EXCEPT !.link = b ^^ t[1]]  BY <1>7, <2>1
    <2>3. a \in CacheEntry /\ a.key = e.key /\ a.data = e.data  BY <1>7, <2>1 DEF CacheEntry
    <2> QED  BY <2>2, <2>3 DEF Len20
  <1>9. ASSUME NEW d \in Store, d = told, d.writer = w, d.oldest = m.oldest, d.unused = m.unused,
               d.head = m.head, DOMAIN d.entry = DOMAIN m.entry
        PROVE  /\ z \in Store /\ z.writer = w + Len20(e)
               /\ z.oldest = m.oldest /\ z.unused = m.unused
               /\ z.head = [m.head EXCEPT ![b] = w]
               /\ DOMAIN z.entry = DOMAIN m.entry \union {w}
               /\ z.entry[w] = a
               /\ \A p \in DOMAIN m.entry : z.entry[p] = d.entry[p]
    <2> HIDE DEF told, new
    <2>1. PICK f : f = [p \in DOMAIN d.entry \union {w} |-> IF p = w THEN a ELSE d.entry[p]]
      OBVIOUS
    <2>2. PICK h : h = [d.head EXCEPT ![b] = w]  OBVIOUS
    <2>3. PICK v : v = w + Len20(e)  OBVIOUS
    <2>4. d.entry \in [DOMAIN d.entry -> CacheEntry] /\ DOMAIN d.entry \in SUBSET Nat  BY StoreIs
    <2>5. f \in Entries
      <3>1. DOMAIN f \in SUBSET Nat /\ f \in [DOMAIN f -> CacheEntry]  BY <1>8, <2>1, <2>4
      <3> QED  BY <3>1, EntriesAre
    <2>6. h \in [Bucket -> Nat]  BY <2>2 DEF Store
    <2>7. v \in Nat  BY <1>3, <2>3
    <2>8. z = [d EXCEPT !.entry = f, !.head = h, !.writer = v]
      <3>1. z = [d EXCEPT !.entry = [p \in DOMAIN @ \union {w} |-> IF p = w THEN a ELSE @[p]],
                          !.head[b] = w,
                          !.writer = @ + Len20(e)]
        BY <1>1, <1>6, <1>7, <1>9
      <3>2. z = [d EXCEPT !.entry = [p \in DOMAIN d.entry \union {w} |-> IF p = w THEN a ELSE d.entry[p]],
                          !.head = [d.head EXCEPT ![b] = w],
                          !.writer = d.writer + Len20(e)]
        BY <3>1 DEF Store
      <3> QED  BY <1>9, <2>1, <2>2, <2>3, <3>2
    <2>9. /\ z \in Store /\ z.writer = v /\ z.oldest = d.oldest /\ z.unused = d.unused
          /\ z.head = h /\ z.entry = f
      BY <2>5, <2>6, <2>7, <2>8 DEF Store
    <2> QED  BY <1>4, <1>9, <2>1, <2>2, <2>3, <2>9
  <1>10. ASSUME NEW d \in Store, d = told, d.writer = w, d.oldest = m.oldest, d.unused = m.unused,
                d.head = m.head, DOMAIN d.entry = DOMAIN m.entry,
                \A p \in DOMAIN m.entry :
                  d.entry[p] = IF n >= 1 /\ p = t[1] THEN [m.entry[p] EXCEPT !.link = w ^^ t[2]]
                               ELSE m.entry[p]
         PROVE  Linked(m, b, n, t, e, z)
    <2> HIDE DEF told, new
    <2>1. /\ z \in Store /\ z.writer = w + Len20(e)
          /\ z.oldest = m.oldest /\ z.unused = m.unused
          /\ z.head = [m.head EXCEPT ![b] = w]
          /\ DOMAIN z.entry = DOMAIN m.entry \union {w}
          /\ z.entry[w] = a
          /\ \A p \in DOMAIN m.entry : z.entry[p] = d.entry[p]
      BY <1>9, <1>10
    <2>2. z.writer = EndOf(z, w)  BY <1>8, <2>1 DEF EndOf
    <2> QED  BY <1>1, <1>8, <1>10, <2>1, <2>2 DEF Linked
  <1>11. CASE n = 0
    <2>1. told = m  BY <1>2, <1>11 DEF Chain
    <2> HIDE DEF told
    <2> QED  BY <1>1, <1>10, <1>11, <2>1
  <1>12. CASE n >= 1
    <2>1. 1 \in 1 .. n /\ 2 \in 0 .. n + 1  BY <1>12
    <2>2. PICK q \in DOMAIN m.entry : q = t[1]  BY <2>1 DEF Chain, Here
    <2>3. q # 0 /\ q \notin Bucket /\ Get4(m, q) = m.entry[q].link  BY <2>2, Words
    <2>4. PICK r \in Nat : r = t[2]  BY <2>1 DEF Chain
    <2>5. m.entry[q].link = b ^^ r
      <3>1. m.entry[t[1]].link = t[1 - 1] ^^ t[1 + 1] /\ t[0] = b  BY <2>1 DEF Chain
      <3> QED  BY <2>2, <2>4, <3>1
    <2>6. PICK u \in Nat : u = w ^^ r  BY <1>1, <2>4, XorLaws
    <2>7. (Get4(m, q) ^^ b) ^^ w = u
      <3>1. b ^^ r = r ^^ b /\ (r ^^ b) ^^ b = r ^^ (b ^^ b) /\ b ^^ b = 0 /\ r ^^ 0 = r
            /\ r ^^ w = w ^^ r
        BY <1>1, <1>5, <2>4, XorLaws
      <3> QED  BY <2>3, <2>5, <2>6, <3>1
    <2>8. told = Set4(m, q, u)
      <3>1. old = q  BY <1>2, <2>2
      <3> HIDE DEF old
      <3> QED  BY <1>1, <2>3, <2>7, <3>1
    <2> HIDE DEF told
    <2>9. told = [m EXCEPT !.entry[q].link = u]  BY <2>3, <2>8 DEF Set4
    <2>10. PICK f : f = [m.entry EXCEPT ![q].link = u]  OBVIOUS
    <2>11. q \in DOMAIN m.entry /\ m.entry[q] \in CacheEntry /\ m.entry \in [DOMAIN m.entry -> CacheEntry]
           /\ DOMAIN m.entry \in SUBSET Nat
      BY <2>2, StoreIs
    <2>12. /\ DOMAIN f = DOMAIN m.entry /\ f \in [DOMAIN m.entry -> CacheEntry]
           /\ \A p \in DOMAIN m.entry : f[p] = IF p = q THEN [m.entry[p] EXCEPT !.link = u] ELSE m.entry[p]
      BY <2>10, <2>11 DEF CacheEntry
    <2>13. f \in Entries  BY <2>11, <2>12, EntriesAre
    <2>14. PICK d : d = [m EXCEPT !.entry = f]  OBVIOUS
    <2>15. /\ d \in Store /\ d.writer = m.writer /\ d.oldest = m.oldest /\ d.unused = m.unused
           /\ d.entry = f /\ d.head = m.head
      BY <2>13, <2>14 DEF Store
    <2>16. d = told  BY <2>9, <2>10, <2>14 DEF Store
    <2>17. \A p \in DOMAIN m.entry :
             d.entry[p] = IF n >= 1 /\ p = t[1] THEN [m.entry[p] EXCEPT !.link = w ^^ t[2]]
                          ELSE m.entry[p]
      BY <1>12, <2>2, <2>4, <2>6, <2>12, <2>15
    <2>18. DOMAIN d.entry = DOMAIN m.entry  BY <2>12, <2>15
    <2> QED  BY <1>1, <1>10, <2>15, <2>16, <2>17, <2>18
  <1> QED  BY <1>11, <1>12

\* A new entry keeps the memory in order, and is what was stored last.
LEMMA LinkOK ==
  ASSUME NEW m, Good(m), NEW e \in CacheEntry, m.writer + Len20(e) <= m.oldest,
         NEW z, z = Link(m, e)
  PROVE  /\ Good(z)
         /\ \A lat : /\ Newest(m, lat) /\ e.key \in DOMAIN lat
                     => Newest(z, [lat EXCEPT ![e.key] = [data |-> e.data, expire |-> e.expire]])
  <1>1. m \in Store /\ IsFiniteSet(DOMAIN m.entry) /\ Ring(m)  BY DEF Good
  <1>2. PICK w \in Nat : w = m.writer  BY <1>1, StoreIs
  <1>2a. e.key \in Key /\ e.data \in Data  BY DEF CacheEntry
  <1>3. PICK b \in Bucket : b = KeyHash[e.key]  BY <1>2a, ConstsAre
  <1>4. PICK n \in Nat : \E t \in [0 .. n + 1 -> Nat] : Chain(m, b, n, t)  BY <1>3 DEF Good
  <1>5. PICK t \in [0 .. n + 1 -> Nat] : Chain(m, b, n, t)  BY <1>4
  <1>6. Len20(e) \in Nat /\ Len20(e) > 0
    <2>1. PICK k \in Nat : k = KeyLen[e.key]  BY <1>2a, ConstsAre
    <2>2. PICK l \in Nat : l = DataLen[e.data]  BY <1>2a, ConstsAre
    <2>3. Len20(e) = k + l + 20  BY <2>1, <2>2 DEF Len20
    <2> QED  BY <2>3
  <1>7. w \notin DOMAIN m.entry  BY <1>1, <1>2, <1>6, WriterFree
  <1>8. Linked(m, b, n, t, e, z)  BY <1>1, <1>3, <1>5, LinkIs
  <1>9. /\ z \in Store /\ z.writer = EndOf(z, w) /\ z.writer = w + Len20(e)
        /\ z.oldest = m.oldest /\ z.unused = m.unused
        /\ z.head = [m.head EXCEPT ![b] = w]
        /\ DOMAIN z.entry = DOMAIN m.entry \union {w}
        /\ z.entry[w] = [e EXCEPT !.link = b ^^ t[1]]
        /\ \A p \in DOMAIN m.entry :
             z.entry[p] = IF n >= 1 /\ p = t[1] THEN [m.entry[p] EXCEPT !.link = w ^^ t[2]]
                          ELSE m.entry[p]
    BY <1>2, <1>8 DEF Linked
  <1>10. /\ z.entry[w].key = e.key /\ z.entry[w].data = e.data /\ z.entry[w].expire = e.expire
         /\ z.entry[w].link = b ^^ t[1]
    BY <1>9 DEF CacheEntry
  <1>11. ASSUME NEW p \in DOMAIN m.entry
         PROVE  /\ p \in DOMAIN z.entry /\ p \in Nat /\ p # w
                /\ z.entry[p].key = m.entry[p].key
                /\ z.entry[p].data = m.entry[p].data
                /\ z.entry[p].expire = m.entry[p].expire
                /\ EndOf(z, p) = EndOf(m, p) /\ EndOf(m, p) \in Nat /\ p < EndOf(m, p)
                /\ p < w \/ p >= m.oldest
    <2>1. p \in Nat /\ m.entry[p] \in CacheEntry /\ EndOf(m, p) \in Nat /\ p < EndOf(m, p)
      BY <1>1, StoreIs
    <2>2. /\ z.entry[p].key = m.entry[p].key /\ z.entry[p].data = m.entry[p].data
          /\ z.entry[p].expire = m.entry[p].expire
      BY <1>9, <2>1, ZenonT(30) DEF CacheEntry
    <2>3. p < w \/ p >= m.oldest  BY <1>1, <1>2, <2>1 DEF Ring
    <2> QED  BY <1>7, <1>9, <2>1, <2>2, <2>3 DEF EndOf, Len20
  <1>12. /\ w \in Nat /\ m.oldest \in Nat /\ m.unused \in Nat /\ z.writer \in Nat /\ hsize \in Nat
         /\ size \in Nat /\ w < z.writer /\ z.writer <= m.oldest
    BY <1>1, <1>2, <1>6, <1>9, StoreIs, HsizeIs, SMTT(20)
  <1>13. /\ \A p, q \in DOMAIN m.entry : Newer(z, p, q) <=> Newer(m, p, q)
         /\ \A p \in DOMAIN m.entry : Newer(z, w, p) /\ ~Newer(z, p, w)
         /\ ~Newer(z, w, w)
    <2>1. \A p \in DOMAIN m.entry : p \in Nat /\ p # w /\ (p < z.writer <=> p < w) /\ (p < m.writer <=> p < w)
      BY <1>2, <1>11, <1>12
    <2>2. \A p, q \in DOMAIN m.entry : Newer(z, p, q) <=> Newer(m, p, q)
      BY <2>1 DEF Newer
    <2>3. \A p \in DOMAIN m.entry : Newer(z, w, p) /\ ~Newer(z, p, w)
      BY <1>12, <2>1 DEF Newer
    <2>4. ~Newer(z, w, w)  BY <1>12 DEF Newer
    <2> QED  BY <2>2, <2>3, <2>4
  <1>14. Ring(z)
    <2>1. /\ hsize <= z.writer /\ z.writer <= z.oldest /\ z.oldest <= z.unused /\ z.unused <= size
          /\ z.oldest = z.unused => z.unused = size
          /\ z.writer > hsize => hsize \in DOMAIN z.entry
          /\ z.oldest < z.unused => z.oldest \in DOMAIN z.entry
      BY <1>1, <1>2, <1>9, <1>12 DEF Ring
    <2>2. ASSUME NEW p \in DOMAIN z.entry
          PROVE  /\ hsize <= p
                 /\ p < z.writer => /\ EndOf(z, p) <= z.writer
                                    /\ EndOf(z, p) \in DOMAIN z.entry \/ EndOf(z, p) = z.writer
                 /\ p >= z.writer => /\ z.oldest <= p /\ EndOf(z, p) <= z.unused
                                     /\ EndOf(z, p) \in DOMAIN z.entry \/ EndOf(z, p) = z.unused
      <3>1. CASE p = w
        <4>1. hsize <= w  BY <1>1, <1>2 DEF Ring
        <4>2. EndOf(z, p) = z.writer  BY <1>9, <3>1
        <4>3. p < z.writer /\ ~(p >= z.writer)  BY <1>12, <3>1
        <4>4. EndOf(z, p) <= z.writer  BY <1>12, <4>2
        <4> QED  BY <3>1, <4>1, <4>2, <4>3, <4>4
      <3>2. CASE p \in DOMAIN m.entry
        <4>1. /\ hsize <= p
              /\ p < w => /\ EndOf(m, p) <= w
                          /\ EndOf(m, p) \in DOMAIN m.entry \/ EndOf(m, p) = w
              /\ p >= w => /\ m.oldest <= p /\ EndOf(m, p) <= m.unused
                           /\ EndOf(m, p) \in DOMAIN m.entry \/ EndOf(m, p) = m.unused
          BY <1>1, <1>2, <3>2 DEF Ring
        <4>2. p \in Nat /\ EndOf(z, p) = EndOf(m, p) /\ EndOf(m, p) \in Nat /\ (p < w \/ p >= m.oldest)
          BY <1>11, <3>2
        <4> QED  BY <1>9, <1>12, <4>1, <4>2
      <3> QED  BY <1>9, <3>1, <3>2
    <2>3. ASSUME NEW p \in DOMAIN z.entry, NEW q \in DOMAIN z.entry, p < q PROVE EndOf(z, p) <= q
      <3>1. CASE p \in DOMAIN m.entry /\ q \in DOMAIN m.entry
        <4>1. EndOf(m, p) <= q  BY <1>1, <2>3, <3>1 DEF Ring
        <4> QED  BY <1>11, <3>1, <4>1
      <3>2. CASE p = w /\ q \in DOMAIN m.entry
        <4>1. EndOf(z, p) = z.writer  BY <1>9, <3>2
        <4>2. q \in Nat /\ q >= m.oldest  BY <1>11, <1>12, <2>3, <3>2
        <4> QED  BY <1>12, <4>1, <4>2
      <3>3. CASE p \in DOMAIN m.entry /\ q = w
        <4>1. p < m.writer => EndOf(m, p) <= m.writer  BY <1>1, <3>3 DEF Ring
        <4> QED  BY <1>2, <1>11, <1>12, <2>3, <3>3, <4>1
      <3>4. CASE p = w /\ q = w  BY <1>12, <2>3, <3>4
      <3> QED  BY <1>9, <3>1, <3>2, <3>3, <3>4
    <2> QED  BY <2>1, <2>2, <2>3 DEF Ring
  <1>15. ASSUME NEW d \in Bucket
         PROVE  \E k \in Nat : \E s \in [0 .. k + 1 -> Nat] : Chain(z, d, k, s)
    <2>1. \A p \in DOMAIN m.entry : p \in Here(z, d) <=> p \in Here(m, d)
      BY <1>11 DEF Here
    <2>2. w \in Here(z, d) <=> d = b  BY <1>3, <1>9, <1>10 DEF Here
    <2>3. Here(z, d) \subseteq DOMAIN m.entry \union {w} /\ Here(m, d) \subseteq DOMAIN m.entry
      BY <1>9 DEF Here
    <2>4. CASE d = b
      <3> DEFINE s == [i \in 0 .. (n + 1) + 1 |-> IF i = 0 THEN b ELSE IF i = 1 THEN w ELSE t[i - 1]]
      <3>1. n + 1 \in Nat /\ (n + 1) + 1 \in Nat /\ t[0] = b /\ t[n + 1] = 0 /\ m.head[b] = t[1]
        BY <1>5 DEF Chain
      <3>2. /\ \A i \in 0 .. (n + 1) + 1 : s[i] = IF i = 0 THEN b ELSE IF i = 1 THEN w ELSE t[i - 1]
            /\ 0 \in 0 .. (n + 1) + 1 /\ 1 \in 0 .. (n + 1) + 1 /\ 2 \in 0 .. (n + 1) + 1
            /\ (n + 1) + 1 \in 0 .. (n + 1) + 1
        OBVIOUS
      <3>3. s \in [0 .. (n + 1) + 1 -> Nat]
        <4>1. b \in Nat  BY HsizeIs DEF Bucket
        <4>2. \A i \in 0 .. (n + 1) + 1 : i = 0 \/ i - 1 \in 0 .. n + 1  OBVIOUS
        <4>3. \A i \in 0 .. (n + 1) + 1 : (IF i = 0 THEN b ELSE IF i = 1 THEN w ELSE t[i - 1]) \in Nat
          BY <4>1, <4>2
        <4> QED  BY <4>3
      <3> HIDE DEF s
      <3>4. s[0] = b /\ s[1] = w /\ s[2] = t[1] /\ s[(n + 1) + 1] = 0
        <4>1. s[0] = b /\ s[1] = w  BY <3>2
        <4>2. s[2] = t[2 - 1]  BY <3>2
        <4>3. s[(n + 1) + 1] = t[((n + 1) + 1) - 1]  BY <3>2
        <4>4. 2 - 1 = 1 /\ ((n + 1) + 1) - 1 = n + 1  OBVIOUS
        <4> QED  BY <3>1, <4>1, <4>2, <4>3, <4>4
      <3>5. z.head[b] = s[1]  BY <1>1, <1>9, <3>4, StoreIs
      <3>6. ASSUME NEW i \in 1 .. n + 1
            PROVE  i = 1 \/ (i - 1 \in 1 .. n /\ s[i] = t[i - 1] /\ i # 0)
        <4>1. i \in 0 .. (n + 1) + 1 /\ i # 0  OBVIOUS
        <4>2. i # 1 => i - 1 \in 1 .. n  OBVIOUS
        <4> QED  BY <3>2, <4>1, <4>2
      <3>7. ASSUME NEW i \in 1 .. n + 1
            PROVE  s[i] \in Here(z, d) /\ z.entry[s[i]].link = s[i - 1] ^^ s[i + 1]
        <4>1. CASE i = 1
          <5>1. i - 1 = 0 /\ i + 1 = 2  BY <4>1
          <5> QED  BY <1>10, <2>2, <2>4, <3>4, <4>1, <5>1
        <4>2. CASE i = 2
          <5>1. 1 \in 1 .. n /\ 3 \in 0 .. (n + 1) + 1 /\ i - 1 = 1 /\ i + 1 = 3 /\ 3 - 1 = 2 /\ n >= 1
            BY <4>2
          <5>2. s[3] = t[2]  BY <3>2, <5>1
          <5>3. t[1] \in Here(m, b) /\ t[1] \in DOMAIN m.entry
            BY <1>5, <5>1 DEF Chain, Here
          <5>4. t[1] \in Here(z, d)  BY <2>1, <2>4, <5>3
          <5>5. z.entry[t[1]] = [m.entry[t[1]] EXCEPT !.link = w ^^ t[2]] /\ m.entry[t[1]] \in CacheEntry
            BY <1>1, <1>9, <5>1, <5>3, StoreIs
          <5>6. z.entry[t[1]].link = w ^^ t[2]  BY <5>5 DEF CacheEntry
          <5> QED  BY <3>4, <4>2, <5>1, <5>2, <5>4, <5>6
        <4>3. CASE i > 2
          <5>1. /\ i - 1 \in 1 .. n /\ 1 \in 1 .. n /\ 1 < i - 1
                /\ i \in 0 .. (n + 1) + 1 /\ i # 0 /\ i # 1
                /\ i - 1 \in 0 .. (n + 1) + 1 /\ i - 1 # 0 /\ i - 1 # 1
                /\ i + 1 \in 0 .. (n + 1) + 1 /\ i + 1 # 0 /\ i + 1 # 1
                /\ (i + 1) - 1 = (i - 1) + 1
            BY <4>3
          <5>2. s[i] = t[i - 1] /\ s[i - 1] = t[(i - 1) - 1] /\ s[i + 1] = t[(i - 1) + 1]
            BY <3>2, <5>1
          <5>3. PICK j \in 1 .. n : j = i - 1  BY <5>1
          <5>4. t[j] \in Here(m, b) /\ m.entry[t[j]].link = t[j - 1] ^^ t[j + 1]
            BY <1>5, <5>3 DEF Chain
          <5>5. t[j] \in DOMAIN m.entry  BY <5>4 DEF Here
          <5>6. t[j] # t[1]
            <6>1. Newer(m, t[1], t[j])  BY <1>5, <5>1, <5>3 DEF Chain
            <6>2. t[1] \in Nat /\ t[j] \in Nat
              <7>1. 1 \in 0 .. n + 1 /\ j \in 0 .. n + 1  OBVIOUS
              <7> QED  BY <7>1
            <6> QED  BY <1>2, <6>1, <6>2, NewerOrder
          <5>7. z.entry[t[j]] = m.entry[t[j]]  BY <1>9, <5>5, <5>6
          <5>8. t[j] \in Here(z, d)  BY <2>1, <2>4, <5>4, <5>5
          <5> QED  BY <5>2, <5>3, <5>4, <5>7, <5>8
        <4> QED  BY <4>1, <4>2, <4>3
      <3>8. ASSUME NEW p \in Here(z, d) PROVE \E i \in 1 .. n + 1 : s[i] = p
        <4>1. CASE p = w
          <5>1. 1 \in 1 .. n + 1  OBVIOUS
          <5> QED  BY <3>4, <4>1, <5>1
        <4>2. CASE p \in DOMAIN m.entry
          <5>1. p \in Here(m, b)  BY <2>1, <2>4, <4>2
          <5>2. PICK i \in 1 .. n : t[i] = p  BY <1>5, <5>1 DEF Chain
          <5>3. i + 1 \in 1 .. n + 1 /\ i + 1 # 1 /\ (i + 1) - 1 = i  OBVIOUS
          <5>4. s[i + 1] = t[i]  BY <3>6, <5>3
          <5> QED  BY <5>2, <5>3, <5>4
        <4> QED  BY <2>3, <4>1, <4>2
      <3>9. ASSUME NEW i \in 1 .. n + 1, NEW j \in 1 .. n + 1, i < j PROVE Newer(z, s[i], s[j])
        <4>1. j - 1 \in 1 .. n /\ s[j] = t[j - 1]  BY <3>6, <3>9
        <4>2. t[j - 1] \in DOMAIN m.entry  BY <1>5, <4>1 DEF Chain, Here
        <4>3. CASE i = 1  BY <1>13, <3>4, <4>1, <4>2, <4>3
        <4>4. CASE i # 1
          <5>1. i - 1 \in 1 .. n /\ s[i] = t[i - 1] /\ i - 1 < j - 1  BY <3>6, <3>9, <4>4
          <5>2. t[i - 1] \in DOMAIN m.entry  BY <1>5, <5>1 DEF Chain, Here
          <5>3. Newer(m, t[i - 1], t[j - 1])  BY <1>5, <4>1, <5>1 DEF Chain
          <5> QED  BY <1>13, <4>1, <4>2, <5>1, <5>2, <5>3
        <4> QED  BY <4>3, <4>4
      <3>10. Chain(z, b, n + 1, s)  BY <2>4, <3>3, <3>4, <3>5, <3>7, <3>8, <3>9 DEF Chain
      <3> QED  BY <2>4, <3>1, <3>3, <3>10
    <2>5. CASE d # b
      <3>1. PICK k \in Nat : \E s \in [0 .. k + 1 -> Nat] : Chain(m, d, k, s)  BY DEF Good
      <3>2. PICK s \in [0 .. k + 1 -> Nat] : Chain(m, d, k, s)  BY <3>1
      <3>3. Here(z, d) = Here(m, d)  BY <2>1, <2>2, <2>3, <2>5
      <3>4. z.head[d] = m.head[d]  BY <1>1, <1>9, <2>5, StoreIs
      <3>5. ASSUME NEW p \in Here(m, d) PROVE z.entry[p] = m.entry[p]
        <4>1. n >= 1 => t[1] \in Here(m, b)
          <5>1. n >= 1 => 1 \in 1 .. n  OBVIOUS
          <5> QED  BY <1>5, <5>1 DEF Chain
        <4>2. n >= 1 => p # t[1]  BY <2>5, <4>1 DEF Here
        <4> QED  BY <1>9, <2>3, <4>2
      <3>6. Chain(z, d, k, s)  BY <1>13, <2>3, <3>2, <3>3, <3>4, <3>5 DEF Chain
      <3> QED  BY <3>6
    <2> QED  BY <2>4, <2>5
  <1>16. ASSUME NEW lat, Newest(m, lat), e.key \in DOMAIN lat
         PROVE  Newest(z, [lat EXCEPT ![e.key] = [data |-> e.data, expire |-> e.expire]])
    <2> DEFINE new == [lat EXCEPT ![e.key] = [data |-> e.data, expire |-> e.expire]]
    <2>1. new[e.key] = [data |-> e.data, expire |-> e.expire]  BY <1>16
    <2>2. \A k : k # e.key /\ k \in DOMAIN lat => new[k] = lat[k]  OBVIOUS
    <2>3. \A k : k # e.key => new[k] = lat[k]  OBVIOUS
    <2> HIDE DEF new
    <2>4. ASSUME NEW p \in DOMAIN z.entry,
                 \A q \in DOMAIN z.entry : z.entry[q].key = z.entry[p].key => ~Newer(z, q, p)
          PROVE  new[z.entry[p].key] = [data |-> z.entry[p].data, expire |-> z.entry[p].expire]
      <3>1. CASE p = w  BY <1>10, <2>1, <3>1
      <3>2. CASE p \in DOMAIN m.entry
        <4>1. m.entry[p].key # e.key  BY <1>9, <1>10, <1>11, <1>13, <2>4, <3>2
        <4>2. \A q \in DOMAIN m.entry : m.entry[q].key = m.entry[p].key => ~Newer(m, q, p)
          BY <1>11, <1>13, <2>4, <3>2
        <4>3. lat[m.entry[p].key] = [data |-> m.entry[p].data, expire |-> m.entry[p].expire]
          BY <1>16, <3>2, <4>2 DEF Newest
        <4> QED  BY <1>11, <2>3, <3>2, <4>1, <4>3
      <3> QED  BY <1>9, <3>1, <3>2
    <2> QED  BY <2>4 DEF new, Newest
  <1>17. IsFiniteSet(DOMAIN z.entry)  BY <1>1, <1>9, FS_AddElement
  <1> QED  BY <1>9, <1>14, <1>15, <1>16, <1>17 DEF Good

(***************************************************************************)
(* The loop of cache_set.                                                  *)

(***************************************************************************)
(* One turn evicts one entry and keeps the memory in order.                *)
LEMMA OneTurnOK ==
  ASSUME NEW m, Good(m), NEW len \in Nat, Crowded(m, len), NEW z, z = OneTurn(m)
  PROVE  /\ Good(z) /\ \A lat : Newest(m, lat) => Newest(z, lat)
         /\ \E p \in DOMAIN m.entry : DOMAIN z.entry = DOMAIN m.entry \ {p}
  <1>1. m \in Store /\ Ring(m)  BY DEF Good
  <1>2. m.oldest \in Nat /\ m.unused \in Nat /\ m.writer \in Nat /\ hsize \in Nat  BY <1>1, StoreIs, HsizeIs
  <1>3. CASE m.oldest = m.unused
    <2>1. m.writer > hsize  BY <1>2, <1>3 DEF Crowded
    <2>2. PICK d : d = Turn(m)  OBVIOUS
    <2>3. /\ Good(d) /\ d.oldest < d.unused /\ d.entry = m.entry
          /\ \A lat : Newest(m, lat) => Newest(d, lat)
      BY <1>3, <2>1, <2>2, TurnOK
    <2>4. z = Evict(d)  BY <1>3, <2>2 DEF OneTurn
    <2>5. /\ Good(z) /\ DOMAIN z.entry = DOMAIN d.entry \ {d.oldest} /\ d.oldest \in DOMAIN d.entry
          /\ \A lat : Newest(d, lat) => Newest(z, lat)
      BY <2>3, <2>4, EvictOK
    <2> QED  BY <2>3, <2>5
  <1>4. CASE m.oldest # m.unused
    <2>1. m.oldest < m.unused  BY <1>1, <1>2, <1>4 DEF Ring
    <2>2. z = Evict(m)  BY <1>4 DEF OneTurn
    <2>3. /\ Good(z) /\ DOMAIN z.entry = DOMAIN m.entry \ {m.oldest} /\ m.oldest \in DOMAIN m.entry
          /\ \A lat : Newest(m, lat) => Newest(z, lat)
      BY <2>1, <2>2, EvictOK
    <2> QED  BY <2>3
  <1> QED  BY <1>3, <1>4

\* With no entry left there is nothing to evict.
LEMMA EmptyRoom ==
  ASSUME NEW m, Good(m), DOMAIN m.entry = {}, NEW len \in Nat
  PROVE  ~Crowded(m, len)
  <1>1. m \in Store /\ Ring(m)  BY DEF Good
  <1>2. m.oldest \in Nat /\ m.unused \in Nat /\ m.writer \in Nat /\ hsize \in Nat  BY <1>1, StoreIs, HsizeIs
  <1> QED  BY <1>1, <1>2 DEF Ring, Crowded

\* So does the loop, and it ends: each turn leaves one entry less.
LEMMA MakeRoomOK ==
  ASSUME NEW m, Good(m), NEW len \in Nat, NEW lat, Newest(m, lat), NEW z, z = MakeRoom(m, len)
  PROVE  Good(z) /\ Newest(z, lat) /\ ~Crowded(z, len)
  <1> DEFINE N == Cardinality(DOMAIN m.entry)
             S == {r \in Store : Good(r) /\ Newest(r, lat)}
             Next(r) == IF Crowded(r, len) THEN OneTurn(r) ELSE r
             st == [r \in S |-> Next(r)]
             F(f) == [i \in 0 .. N |-> IF i = 0 THEN m ELSE Next(f[i - 1])]
             room == CHOOSE f : f = F(f)
  <1>1. m \in S /\ IsFiniteSet(DOMAIN m.entry)  BY DEF Good
  <1>2. N \in Nat  BY <1>1, FS_CardinalityType
  <1>3. ASSUME NEW r \in S PROVE Next(r) \in S
    <2>1. Good(r) /\ Newest(r, lat) /\ r \in Store  OBVIOUS
    <2>2. CASE Crowded(r, len)
      <3>1. PICK y : y = OneTurn(r)  OBVIOUS
      <3>2. Good(y) /\ Newest(y, lat)  BY <2>1, <2>2, <3>1, OneTurnOK
      <3>3. y \in S  BY <3>2 DEF Good
      <3> HIDE DEF S
      <3> QED  BY <2>2, <3>1, <3>3
    <2>3. CASE ~Crowded(r, len)  BY <2>3
    <2> HIDE DEF S
    <2> QED  BY <2>2, <2>3
  <1> HIDE DEF Next, S, N
  <1>4. st \in [S -> S]  BY <1>3
  <1>5. PICK f \in [0 .. N -> S] : Turned(m, st, N, f)
    <2> HIDE DEF st
    <2> QED  BY <1>1, <1>2, <1>4, TurnsExist
  <1>6. f = F(f)
    <2>1. ASSUME NEW i \in 0 .. N PROVE f[i] = F(f)[i]
      <3>1. CASE i = 0  BY <1>5, <3>1 DEF Turned
      <3>2. CASE i # 0
        <4>1. i \in 1 .. N /\ i - 1 \in 0 .. N  BY <1>2, <3>2
        <4>2. f[i] = st[f[i - 1]] /\ f[i - 1] \in S  BY <1>5, <4>1 DEF Turned
        <4> QED  BY <3>2, <4>2
      <3> QED  BY <3>1, <3>2
    <2>2. f = [i \in 0 .. N |-> f[i]] /\ F(f) = [i \in 0 .. N |-> F(f)[i]]  BY <1>5
    <2> HIDE DEF F
    <2> QED  BY <2>1, <2>2
  <1>7. room = F(room)
    <2> HIDE DEF F
    <2> QED  BY <1>6
  <1> HIDE DEF room
  <1>8. z = room[N]  BY DEF MakeRoom, room, N, Next
  <1>9. room[0] = m /\ \A i \in 1 .. N : room[i] = Next(room[i - 1])
    <2>1. F(room)[0] = m /\ \A i \in 1 .. N : F(room)[i] = Next(room[i - 1])  BY <1>2
    <2> HIDE DEF F
    <2> QED  BY <1>7, <2>1
  <1> HIDE DEF F, st
  <1> DEFINE Ends(i) == /\ room[i] \in S
                        /\ Crowded(room[i], len) =>
                             /\ IsFiniteSet(DOMAIN room[i].entry)
                             /\ Cardinality(DOMAIN room[i].entry) + i <= N
             T == {i \in Nat : i <= N => Ends(i)}
  <1>10. 0 \in T
    <2>1. Cardinality(DOMAIN m.entry) + 0 <= N  BY <1>2 DEF N
    <2> QED  BY <1>1, <1>9, <2>1
  <1>11. ASSUME NEW i \in T PROVE i + 1 \in T
    <2>1. SUFFICES ASSUME i + 1 <= N PROVE Ends(i + 1)  OBVIOUS
    <2>2. i \in Nat /\ i + 1 \in 1 .. N /\ (i + 1) - 1 = i /\ Ends(i)  BY <1>2, <2>1
    <2>3. PICK r \in S : r = room[i]  BY <2>2
    <2>4. PICK y \in S : y = room[i + 1] /\ y = Next(r)  BY <1>3, <1>9, <2>2, <2>3
    <2>5. CASE ~Crowded(r, len)
      <3>1. y = r  BY <2>4, <2>5 DEF Next
      <3> QED  BY <2>4, <2>5, <3>1
    <2>6. CASE Crowded(r, len)
      <3>1. y = OneTurn(r) /\ Good(r)  BY <2>4, <2>6 DEF Next, S
      <3>2. PICK p \in DOMAIN r.entry : DOMAIN y.entry = DOMAIN r.entry \ {p}
        BY <2>6, <3>1, OneTurnOK
      <3>3. IsFiniteSet(DOMAIN r.entry) /\ Cardinality(DOMAIN r.entry) + i <= N
        BY <2>2, <2>3, <2>6
      <3>4. IsFiniteSet(DOMAIN y.entry) /\ Cardinality(DOMAIN y.entry) = Cardinality(DOMAIN r.entry) - 1
        <4>1. PICK P : P = DOMAIN r.entry  OBVIOUS
        <4>2. IsFiniteSet(P) /\ p \in P  BY <3>3, <4>1
        <4>3. IsFiniteSet(P \ {p}) /\ Cardinality(P \ {p}) = Cardinality(P) - 1
          BY <4>2, FS_RemoveElement
        <4> QED  BY <3>2, <4>1, <4>3
      <3>5. Cardinality(DOMAIN r.entry) \in Nat  BY <3>3, FS_CardinalityType
      <3>6. Cardinality(DOMAIN y.entry) + (i + 1) <= N  BY <1>2, <2>2, <3>3, <3>4, <3>5
      <3> QED  BY <2>4, <3>4, <3>6
    <2> QED  BY <2>5, <2>6
  <1> HIDE DEF Ends
  <1>12. T = Nat
    <2>1. T \in SUBSET Nat  OBVIOUS
    <2> HIDE DEF T
    <2> QED  BY <1>10, <1>11, <2>1, Induct
  <1>13. Ends(N)
    <2>1. N \in T /\ N <= N  BY <1>2, <1>12
    <2> QED  BY <2>1
  <1>14. Good(z) /\ Newest(z, lat)  BY <1>8, <1>13 DEF Ends, S
  <1>15. ~Crowded(z, len)
    <2>1. SUFFICES ASSUME Crowded(z, len) PROVE FALSE  OBVIOUS
    <2>2. IsFiniteSet(DOMAIN z.entry) /\ Cardinality(DOMAIN z.entry) + N <= N
      BY <1>8, <1>13, <2>1 DEF Ends
    <2>3. Cardinality(DOMAIN z.entry) = 0  BY <1>2, <2>2, FS_CardinalityType
    <2>4. DOMAIN z.entry = {}  BY <2>2, <2>3, FS_EmptySet
    <2> QED  BY <1>14, <2>1, <2>4, EmptyRoom
  <1> QED  BY <1>14, <1>15

(***************************************************************************)
(* Following a chain.                                                      *)

(***************************************************************************)
(* The walk of cache_get, turn by turn.                                    *)
LEMMA WalkIs ==
  ASSUME NEW m \in Store, NEW b \in Bucket, NEW n \in Nat, NEW walk, walk = Walk(m, b, n)
  PROVE  /\ walk[0] = [prevpos |-> b, pos |-> Get4(m, b)]
         /\ \A i \in 1 .. n :
              walk[i] = IF walk[i - 1].pos = 0 THEN walk[i - 1]
                        ELSE [prevpos |-> walk[i - 1].pos,
                              pos |-> walk[i - 1].prevpos ^^ Get4(m, walk[i - 1].pos)]
  <1> DEFINE S == [prevpos : Nat, pos : Nat]
             Next(w) == IF w.pos = 0 THEN w
                        ELSE [prevpos |-> w.pos, pos |-> w.prevpos ^^ Get4(m, w.pos)]
             x == [prevpos |-> b, pos |-> Get4(m, b)]
             st == [w \in S |-> Next(w)]
             F(f) == [i \in 0 .. n |-> IF i = 0 THEN x ELSE Next(f[i - 1])]
  <1>1. ASSUME NEW p \in Nat PROVE Get4(m, p) \in Nat
    <2>1. p \in DOMAIN m.entry => m.entry[p].link \in Nat  BY StoreIs DEF CacheEntry
    <2>2. p \in Bucket => m.head[p] \in Nat  BY StoreIs
    <2> QED  BY <2>1, <2>2 DEF Get4
  <1>2. x \in S
    <2>1. b \in Nat  BY HsizeIs
    <2> QED  BY <1>1, <2>1
  <1>3. ASSUME NEW w \in S PROVE Next(w) \in S
    <2>1. w.pos \in Nat /\ w.prevpos \in Nat  OBVIOUS
    <2>2. w.prevpos ^^ Get4(m, w.pos) \in Nat  BY <1>1, <2>1, XorLaws
    <2> QED  BY <2>1, <2>2
  <1> HIDE DEF Next, S, x
  <1>4. st \in [S -> S]  BY <1>3
  <1>5. PICK f \in [0 .. n -> S] : Turned(x, st, n, f)
    <2> HIDE DEF st
    <2> QED  BY <1>2, <1>4, TurnsExist
  <1>6. f = F(f)
    <2>1. ASSUME NEW i \in 0 .. n PROVE f[i] = F(f)[i]
      <3>1. CASE i = 0  BY <1>5, <3>1 DEF Turned
      <3>2. CASE i # 0
        <4>1. i \in 1 .. n /\ i - 1 \in 0 .. n  BY <3>2
        <4>2. f[i] = st[f[i - 1]] /\ f[i - 1] \in S  BY <1>5, <4>1 DEF Turned
        <4> QED  BY <3>2, <4>2
      <3> QED  BY <3>1, <3>2
    <2>2. f = [i \in 0 .. n |-> f[i]] /\ F(f) = [i \in 0 .. n |-> F(f)[i]]  BY <1>5
    <2> HIDE DEF F
    <2> QED  BY <2>1, <2>2
  <1>7. walk = CHOOSE g : g = F(g)  BY DEF Walk, x, Next
  <1>8. walk = F(walk)
    <2> HIDE DEF F
    <2> QED  BY <1>6, <1>7
  <1>9. F(walk)[0] = x /\ \A i \in 1 .. n : F(walk)[i] = Next(walk[i - 1])  OBVIOUS
  <1>10. walk[0] = x /\ \A i \in 1 .. n : walk[i] = Next(walk[i - 1])
    <2> HIDE DEF F
    <2> QED  BY <1>8, <1>9
  <1> QED  BY <1>10 DEF Next, x

\* Each turn of cache_get's loop goes to the next entry of the chain.
LEMMA WalkChain ==
  ASSUME NEW m, Good(m), NEW b \in Bucket, NEW k \in Nat, NEW t, Chain(m, b, k, t),
         NEW n \in Nat, NEW walk, walk = Walk(m, b, n)
  PROVE  \A i \in 0 .. n : /\ i <= k => walk[i].pos = t[i + 1]
                           /\ i >= k => walk[i].pos = 0
  <1> DEFINE At(i) == /\ i <= k => walk[i] = [prevpos |-> t[i], pos |-> t[i + 1]]
                      /\ i >= k => walk[i].pos = 0
             T == {i \in Nat : i <= n => At(i)}
  <1>1. m \in Store /\ Ring(m)  BY DEF Good
  <1>2. /\ walk[0] = [prevpos |-> b, pos |-> Get4(m, b)]
        /\ \A i \in 1 .. n :
             walk[i] = IF walk[i - 1].pos = 0 THEN walk[i - 1]
                       ELSE [prevpos |-> walk[i - 1].pos,
                             pos |-> walk[i - 1].prevpos ^^ Get4(m, walk[i - 1].pos)]
    BY <1>1, WalkIs
  <1>3. t[0] = b /\ t[k + 1] = 0 /\ m.head[b] = t[1] /\ t \in [0 .. k + 1 -> Nat]  BY DEF Chain
  <1>4. 0 \in T
    <2>1. Get4(m, b) = t[1]  BY <1>1, <1>3, Words
    <2>2. walk[0] = [prevpos |-> t[0], pos |-> t[0 + 1]]  BY <1>2, <1>3, <2>1
    <2>3. 0 >= k => walk[0].pos = 0  BY <1>3, <2>2
    <2> QED  BY <2>2, <2>3
  <1>5. ASSUME NEW i \in T PROVE i + 1 \in T
    <2>1. SUFFICES ASSUME i + 1 <= n PROVE At(i + 1)  OBVIOUS
    <2>2. i \in Nat /\ i + 1 \in 1 .. n /\ (i + 1) - 1 = i /\ At(i)  BY <2>1
    <2>3. PICK w : w = walk[i]  OBVIOUS
    <2>4. walk[i + 1] = IF w.pos = 0 THEN w
                        ELSE [prevpos |-> w.pos, pos |-> w.prevpos ^^ Get4(m, w.pos)]
      BY <1>2, <2>2, <2>3
    <2>5. CASE i >= k
      <3>1. walk[i + 1] = w /\ w.pos = 0  BY <2>2, <2>3, <2>4, <2>5
      <3> QED  BY <2>2, <2>5, <3>1
    <2>6. CASE i < k
      <3>1. /\ i + 1 \in 1 .. k /\ i \in 0 .. k + 1 /\ i + 2 \in 0 .. k + 1
            /\ (i + 1) + 1 = i + 2 /\ i <= k
        BY <2>2, <2>6
      <3>2. PICK p \in Nat : p = t[i]  BY <1>3, <3>1
      <3>3. PICK q \in DOMAIN m.entry : q = t[i + 1]  BY <3>1 DEF Chain, Here
      <3>4. PICK r \in Nat : r = t[i + 2]  BY <1>3, <3>1
      <3>5. m.entry[q].link = p ^^ r
        <4>1. m.entry[t[i + 1]].link = t[(i + 1) - 1] ^^ t[(i + 1) + 1]  BY <3>1 DEF Chain
        <4> QED  BY <2>2, <3>1, <3>2, <3>3, <3>4, <4>1
      <3>6. q # 0 /\ Get4(m, q) = p ^^ r  BY <1>1, <3>5, Words
      <3>7. p ^^ (p ^^ r) = r
        <4>1. (p ^^ p) ^^ r = p ^^ (p ^^ r) /\ p ^^ p = 0 /\ 0 ^^ r = r  BY <3>2, <3>4, XorLaws
        <4> QED  BY <4>1
      <3>8. w = [prevpos |-> p, pos |-> q]  BY <2>2, <2>3, <3>1, <3>2, <3>3
      <3>9. walk[i + 1] = [prevpos |-> q, pos |-> r]  BY <2>4, <3>6, <3>7, <3>8
      <3>10. i + 1 >= k => r = 0
        <4>1. i + 1 >= k => i + 2 = k + 1  BY <2>2, <2>6
        <4> QED  BY <1>3, <3>4, <4>1
      <3> QED  BY <3>1, <3>3, <3>4, <3>9, <3>10
    <2> QED  BY <2>2, <2>5, <2>6
  <1> HIDE DEF At
  <1>6. T = Nat
    <2>1. T \in SUBSET Nat  OBVIOUS
    <2> HIDE DEF T
    <2> QED  BY <1>4, <1>5, <2>1, Induct
  <1>7. SUFFICES ASSUME NEW i \in 0 .. n
                 PROVE  /\ i <= k => walk[i].pos = t[i + 1]
                        /\ i >= k => walk[i].pos = 0
    OBVIOUS
  <1>8. i \in T /\ i <= n  BY <1>6
  <1>9. At(i)  BY <1>8
  <1> QED  BY <1>9 DEF At

\* Different values are as many as their numbers.
LEMMA CountOnce ==
  ASSUME NEW k \in Nat, NEW t, \A i, j \in 1 .. k : i < j => t[i] # t[j]
  PROVE  IsFiniteSet({t[i] : i \in 1 .. k}) /\ Cardinality({t[i] : i \in 1 .. k}) = k
  <1> DEFINE U(n) == {t[i] : i \in 1 .. n}
             T == {n \in Nat : n <= k => IsFiniteSet(U(n)) /\ Cardinality(U(n)) = n}
  <1>1. 0 \in T
    <2>1. U(0) = {}  OBVIOUS
    <2> QED  BY <2>1, FS_EmptySet
  <1>2. ASSUME NEW n \in T PROVE n + 1 \in T
    <2>1. SUFFICES ASSUME n + 1 <= k PROVE IsFiniteSet(U(n + 1)) /\ Cardinality(U(n + 1)) = n + 1
      OBVIOUS
    <2>2. n \in Nat /\ n <= k /\ IsFiniteSet(U(n)) /\ Cardinality(U(n)) = n  BY <2>1
    <2>3. U(n + 1) = U(n) \union {t[n + 1]}
      <3>1. 1 .. n + 1 = (1 .. n) \union {n + 1}  BY <2>2
      <3> QED  BY <3>1
    <2>4. t[n + 1] \notin U(n)
      <3>1. ASSUME NEW i \in 1 .. n PROVE t[i] # t[n + 1]
        <4>1. i \in 1 .. k /\ n + 1 \in 1 .. k /\ i < n + 1  BY <2>1, <2>2
        <4> QED  BY <4>1
      <3> QED  BY <3>1
    <2> HIDE DEF U
    <2>5. PICK u : u = U(n)  OBVIOUS
    <2>6. IsFiniteSet(u \union {t[n + 1]}) /\ Cardinality(u \union {t[n + 1]}) = Cardinality(u) + 1
      BY <2>2, <2>4, <2>5, FS_AddElement
    <2> QED  BY <2>2, <2>3, <2>5, <2>6
  <1> HIDE DEF U
  <1>3. T = Nat
    <2>1. T \in SUBSET Nat  OBVIOUS
    <2> HIDE DEF T
    <2> QED  BY <1>1, <1>2, <2>1, Induct
  <1>4. k \in T /\ k <= k  BY <1>3
  <1> QED  BY <1>4 DEF U

\* A chain has each entry of its bucket once.
LEMMA ChainOnce ==
  ASSUME NEW m, Good(m), NEW b, NEW k \in Nat, NEW t, Chain(m, b, k, t)
  PROVE  /\ \A i, j \in 1 .. k : i < j => t[i] # t[j]
         /\ Here(m, b) = {t[i] : i \in 1 .. k} /\ Cardinality(Here(m, b)) = k
  <1>1. m \in Store /\ m.writer \in Nat  BY StoreIs DEF Good
  <1>2. \A i, j \in 1 .. k : i < j => t[i] # t[j]
    <2> SUFFICES ASSUME NEW i \in 1 .. k, NEW j \in 1 .. k, i < j PROVE t[i] # t[j]  OBVIOUS
    <2>1. Newer(m, t[i], t[j]) /\ t[i] \in DOMAIN m.entry /\ t[j] \in DOMAIN m.entry
      BY DEF Chain, Here
    <2>2. t[i] \in Nat /\ t[j] \in Nat  BY <1>1, <2>1, StoreIs
    <2> QED  BY <1>1, <2>1, <2>2, NewerOrder
  <1>3. Here(m, b) = {t[i] : i \in 1 .. k}  BY DEF Chain
  <1> QED  BY <1>2, <1>3, CountOnce

(***************************************************************************)
(* What dnscache gets from its cache.                                      *)

(***************************************************************************)
(* The three parts of CacheSafe follow from the order in memory.           *)
LEMMA RingIsExact == Good(mem) => RingExact
  <1> SUFFICES ASSUME Good(mem) PROVE RingExact  OBVIOUS
  <1>1. mem \in Store /\ Ring(mem)  BY DEF Good
  <1> DEFINE New == {p \in DOMAIN mem.entry : p < mem.writer}
             Old == DOMAIN mem.entry \ New
  <1>2. /\ mem.writer \in Nat /\ mem.oldest \in Nat /\ mem.unused \in Nat /\ hsize \in Nat
        /\ \A p \in DOMAIN mem.entry : p \in Nat /\ EndOf(mem, p) \in Nat /\ p < EndOf(mem, p)
    BY <1>1, StoreIs, HsizeIs
  <1>3. ASSUME NEW p \in DOMAIN mem.entry
        PROVE  IF p \in New THEN EndOf(mem, p) \in New \union {mem.writer}
               ELSE p >= mem.oldest /\ EndOf(mem, p) \in Old \union {mem.unused}
    <2>1. /\ p < mem.writer => /\ EndOf(mem, p) <= mem.writer
                               /\ EndOf(mem, p) \in DOMAIN mem.entry \/ EndOf(mem, p) = mem.writer
          /\ p >= mem.writer => /\ mem.oldest <= p
                                /\ EndOf(mem, p) \in DOMAIN mem.entry \/ EndOf(mem, p) = mem.unused
      BY <1>1 DEF Ring
    <2>2. p \in Nat /\ EndOf(mem, p) \in Nat /\ p < EndOf(mem, p)  BY <1>2
    <2>3. CASE p < mem.writer  BY <1>2, <2>1, <2>2, <2>3
    <2>4. CASE p >= mem.writer  BY <1>2, <2>1, <2>2, <2>4
    <2> QED  BY <1>2, <2>2, <2>3, <2>4
  <1>4. /\ hsize <= mem.writer /\ mem.writer <= mem.oldest /\ mem.oldest <= mem.unused /\ mem.unused <= size
        /\ mem.oldest = mem.unused => mem.unused = size
        /\ mem.writer > hsize => hsize \in New
        /\ mem.oldest < mem.unused => mem.oldest \in Old
    BY <1>1, <1>2 DEF Ring
  <1> QED  BY <1>3, <1>4 DEF RingExact, EndOf

\* As many turns as entries see the whole chain and its end.
LEMMA WalkAll ==
  ASSUME NEW m, Good(m), NEW b \in Bucket, NEW k \in Nat, NEW t, Chain(m, b, k, t)
  PROVE  \A i \in 0 .. k : Walk(m, b, k)[i].pos = t[i + 1]
  <1>1. PICK n \in Nat : n = k  OBVIOUS
  <1>2. PICK walk : walk = Walk(m, b, n)  OBVIOUS
  <1>3. \A i \in 0 .. n : /\ i <= k => walk[i].pos = t[i + 1]
                          /\ i >= k => walk[i].pos = 0
    BY <1>2, WalkChain
  <1>4. \A i \in 0 .. k : i <= k /\ i \in 0 .. n  BY <1>1
  <1> QED  BY <1>1, <1>2, <1>3, <1>4

LEMMA ChainsAreExact == Good(mem) => ChainsExact
  <1> SUFFICES ASSUME Good(mem), NEW b \in Bucket
               PROVE  LET here == {p \in DOMAIN mem.entry : KeyHash[mem.entry[p].key] = b}
                          n    == Cardinality(here)
                          walk == Walk(mem, b, n)
                      IN  /\ {walk[i].pos : i \in 0 .. n - 1} = here
                          /\ \A i \in 1 .. n - 1 : Newer(mem, walk[i - 1].pos, walk[i].pos)
                          /\ walk[n].pos = 0
    BY Zenon DEF ChainsExact
  <1>1. PICK k \in Nat : \E t \in [0 .. k + 1 -> Nat] : Chain(mem, b, k, t)  BY DEF Good
  <1>2. PICK t : Chain(mem, b, k, t)  BY <1>1
  <1>8. \A i \in 0 .. k : Walk(mem, b, k)[i].pos = t[i + 1]  BY <1>2, WalkAll
  <1>9. Here(mem, b) = {t[i] : i \in 1 .. k} /\ Cardinality(Here(mem, b)) = k  BY <1>2, ChainOnce
  <1>10. SUFFICES ASSUME NEW here, here = {p \in DOMAIN mem.entry : KeyHash[mem.entry[p].key] = b},
                         NEW n, n = Cardinality(here),
                         NEW walk, walk = Walk(mem, b, n)
                  PROVE  /\ {walk[i].pos : i \in 0 .. n - 1} = here
                         /\ \A i \in 1 .. n - 1 : Newer(mem, walk[i - 1].pos, walk[i].pos)
                         /\ walk[n].pos = 0
    BY Zenon
  <1>3. here = {t[i] : i \in 1 .. k} /\ n = k
    <2>1. here = Here(mem, b)  BY <1>10 DEF Here
    <2> QED  BY <1>9, <1>10, <2>1
  <1>4. \A i \in 0 .. k : walk[i].pos = t[i + 1]  BY <1>3, <1>8, <1>10
  <1>5. {walk[i].pos : i \in 0 .. n - 1} = here
    <2>1. ASSUME NEW i \in 0 .. n - 1 PROVE walk[i].pos \in here
      <3>1. i \in 0 .. k /\ i + 1 \in 1 .. k  BY <1>3
      <3> QED  BY <1>3, <1>4, <3>1
    <2>2. ASSUME NEW i \in 1 .. k PROVE \E j \in 0 .. n - 1 : walk[j].pos = t[i]
      <3>1. i - 1 \in 0 .. n - 1 /\ i - 1 \in 0 .. k /\ (i - 1) + 1 = i  BY <1>3
      <3>2. walk[i - 1].pos = t[i]  BY <1>4, <3>1
      <3> QED  BY <3>1, <3>2
    <2> DEFINE U == {walk[i].pos : i \in 0 .. n - 1}
    <2>3. ASSUME NEW p \in here PROVE p \in U
      <3>1. PICK i \in 1 .. k : p = t[i]  BY <1>3
      <3>2. PICK j \in 0 .. n - 1 : walk[j].pos = p  BY <2>2, <3>1
      <3> QED  BY <3>2
    <2>4. ASSUME NEW p \in U PROVE p \in here
      <3>1. PICK i \in 0 .. n - 1 : p = walk[i].pos  OBVIOUS
      <3> QED  BY <2>1, <3>1
    <2> HIDE DEF U
    <2>5. U = here  BY <2>3, <2>4
    <2> QED  BY <2>5 DEF U
  <1>6. ASSUME NEW i \in 1 .. n - 1 PROVE Newer(mem, walk[i - 1].pos, walk[i].pos)
    <2>1. i - 1 \in 0 .. k /\ i \in 0 .. k /\ (i - 1) + 1 = i /\ i \in 1 .. k /\ i + 1 \in 1 .. k
          /\ i < i + 1
      BY <1>3
    <2>2. walk[i - 1].pos = t[i] /\ walk[i].pos = t[i + 1]  BY <1>4, <2>1
    <2>3. Newer(mem, t[i], t[i + 1])  BY <1>2, <2>1 DEF Chain
    <2> QED  BY <2>2, <2>3
  <1>7. walk[n].pos = 0
    <2>1. k \in 0 .. k  OBVIOUS
    <2> QED  BY <1>2, <1>3, <1>4, <2>1 DEF Chain
  <1> QED  BY <1>5, <1>6, <1>7

\* The first hit is the newest entry with that key, which Newest knows; with no
\* hit each entry with that key has more than MaxDepth before it.
LEMMA LatestIsGot == Good(mem) /\ Newest(mem, latest) /\ now \in Nat => GetsLatest
  <1> SUFFICES ASSUME Good(mem), Newest(mem, latest), now \in Nat, NEW name \in Key,
                      NEW got, got = CacheGet(name),
                      NEW mine, mine = {p \in DOMAIN mem.entry : mem.entry[p].key = name}
               PROVE  LET depth(p) == Cardinality({q \in DOMAIN mem.entry :
                                        KeyHash[mem.entry[q].key] = KeyHash[name] /\ Newer(mem, q, p)})
                      IN  /\ got \in {Nothing, latest[name]}
                          /\ got = Nothing => \/ mine = {}
                                              \/ latest[name].expire < now
                                              \/ \A p \in mine : depth(p) > MaxDepth
    BY ZenonT(40) DEF GetsLatest
  <1> DEFINE depth(p) == Cardinality({q \in DOMAIN mem.entry :
                           KeyHash[mem.entry[q].key] = KeyHash[name] /\ Newer(mem, q, p)})
  <1>1. PICK b \in Bucket : b = KeyHash[name]  BY ConstsAre
  <1>2. PICK k \in Nat : \E t \in [0 .. k + 1 -> Nat] : Chain(mem, b, k, t)  BY DEF Good
  <1>3. PICK t : Chain(mem, b, k, t)  BY <1>2
  <1>4. mem \in Store /\ Ring(mem) /\ mem.writer \in Nat /\ MaxDepth \in Nat  BY ConstsAre, StoreIs DEF Good
  <1>5. PICK walk : walk = Walk(mem, b, MaxDepth)  OBVIOUS
  <1>6. \A i \in 0 .. MaxDepth : /\ i <= k => walk[i].pos = t[i + 1]
                                 /\ i >= k => walk[i].pos = 0
    BY <1>3, <1>4, <1>5, WalkChain
  <1> DEFINE hits == {i \in 0 .. MaxDepth :
                        walk[i].pos \in DOMAIN mem.entry /\ mem.entry[walk[i].pos].key = name}
             first == CHOOSE i \in hits : \A j \in hits : i <= j
             e == mem.entry[walk[first].pos]
  <1>7. got = IF hits = {} \/ e.expire < now THEN Nothing ELSE [data |-> e.data, expire |-> e.expire]
    BY <1>1, <1>5 DEF CacheGet
  <1>8. ASSUME NEW p \in mine
        PROVE  \E j \in 1 .. k : p = t[j] /\ (j - 1 <= MaxDepth => j - 1 \in hits /\ walk[j - 1].pos = p)
    <2>1. p \in Here(mem, b) /\ p \in DOMAIN mem.entry /\ mem.entry[p].key = name  BY <1>1 DEF Here
    <2>2. PICK j \in 1 .. k : t[j] = p  BY <1>3, <2>1 DEF Chain
    <2>3. j - 1 <= MaxDepth => j - 1 \in 0 .. MaxDepth /\ j - 1 <= k /\ (j - 1) + 1 = j
      BY <1>4
    <2>4. j - 1 <= MaxDepth => walk[j - 1].pos = p  BY <1>6, <2>2, <2>3
    <2> QED  BY <2>1, <2>2, <2>3, <2>4
  <1>9. CASE hits = {}
    <2>1. ASSUME NEW p \in mine PROVE depth(p) > MaxDepth
      <3>1. PICK j \in 1 .. k : p = t[j] /\ j - 1 > MaxDepth
        <4>1. PICK j \in 1 .. k : p = t[j] /\ (j - 1 <= MaxDepth => j - 1 \in hits /\ walk[j - 1].pos = p)
          BY <1>8
        <4>2. ~(j - 1 <= MaxDepth)  BY <1>9, <4>1
        <4> QED  BY <1>4, <4>1, <4>2
      <3>2. {q \in DOMAIN mem.entry : KeyHash[mem.entry[q].key] = KeyHash[name] /\ Newer(mem, q, p)}
              = {t[i] : i \in 1 .. j - 1}
        <4>1. ASSUME NEW q \in DOMAIN mem.entry, KeyHash[mem.entry[q].key] = KeyHash[name], Newer(mem, q, p)
              PROVE  \E i \in 1 .. j - 1 : q = t[i]
          <5>1. q \in Here(mem, b)  BY <1>1, <4>1 DEF Here
          <5>2. PICK i \in 1 .. k : t[i] = q  BY <1>3, <5>1 DEF Chain
          <5>3. p \in Nat /\ q \in Nat  BY <1>4, StoreIs
          <5>4. p # q /\ ~Newer(mem, p, q)  BY <1>4, <4>1, <5>3, NewerOrder
          <5>5. ~(j < i)  BY <1>3, <3>1, <5>2, <5>4 DEF Chain
          <5>6. i # j  BY <3>1, <5>2, <5>4
          <5>7. i \in 1 .. j - 1  BY <5>5, <5>6
          <5> QED  BY <5>2, <5>7
        <4>2. ASSUME NEW i \in 1 .. j - 1
              PROVE  t[i] \in DOMAIN mem.entry /\ KeyHash[mem.entry[t[i]].key] = KeyHash[name] /\ Newer(mem, t[i], p)
          <5>1. i \in 1 .. k /\ i < j  OBVIOUS
          <5>2. t[i] \in Here(mem, b) /\ Newer(mem, t[i], t[j])  BY <1>3, <5>1 DEF Chain
          <5> QED  BY <1>1, <3>1, <5>2 DEF Here
        <4> QED  BY <4>1, <4>2
      <3>3. j - 1 \in Nat /\ \A i, l \in 1 .. j - 1 : i < l => t[i] # t[l]
        <4>1. \A i \in 1 .. j - 1 : i \in 1 .. k  OBVIOUS
        <4>2. \A i, l \in 1 .. k : i < l => t[i] # t[l]  BY <1>3, ChainOnce
        <4> QED  BY <4>1, <4>2
      <3>4. Cardinality({t[i] : i \in 1 .. j - 1}) = j - 1  BY <3>3, CountOnce
      <3> QED  BY <3>1, <3>2, <3>4
    <2>2. got = Nothing  BY <1>7, <1>9
    <2> QED  BY <2>1, <2>2
  <1>10. CASE hits # {}
    <2>1. first \in hits /\ \A j \in hits : first <= j
      <3>1. hits \in SUBSET Nat  OBVIOUS
      <3> HIDE DEF hits
      <3>2. \E i \in hits : \A j \in hits : i <= j  BY <1>10, <3>1, LeastNat
      <3> QED  BY <3>2
    <2>2. PICK i \in 0 .. MaxDepth : i = first  BY <2>1
    <2>3. walk[i].pos \in DOMAIN mem.entry /\ mem.entry[walk[i].pos].key = name  BY <2>1, <2>2
    <2> HIDE DEF first
    <2>4. i < k /\ walk[i].pos = t[i + 1] /\ i + 1 \in 1 .. k
      <3>1. walk[i].pos # 0  BY <1>4, <2>3, Words
      <3>2. i < k  BY <1>6, <3>1
      <3> QED  BY <1>6, <3>2
    <2>5. PICK p \in DOMAIN mem.entry : p = walk[i].pos /\ p = t[i + 1] /\ mem.entry[p].key = name
      BY <2>3, <2>4
    <2>6. ASSUME NEW q \in DOMAIN mem.entry, mem.entry[q].key = name PROVE ~Newer(mem, q, p)
      <3>1. SUFFICES ASSUME Newer(mem, q, p) PROVE FALSE  OBVIOUS
      <3>2. q \in mine  BY <2>6
      <3>3. PICK j \in 1 .. k : q = t[j] /\ (j - 1 <= MaxDepth => j - 1 \in hits /\ walk[j - 1].pos = q)
        BY <1>8, <3>2
      <3>4. p \in Nat /\ q \in Nat  BY <1>4, StoreIs
      <3>5. p # q /\ ~Newer(mem, p, q)  BY <1>4, <3>1, <3>4, NewerOrder
      <3>6. ~(i + 1 < j)  BY <1>3, <2>4, <2>5, <3>3, <3>5 DEF Chain
      <3>7. j # i + 1  BY <2>5, <3>3, <3>5
      <3>8. j - 1 < i /\ j - 1 <= MaxDepth  BY <3>6, <3>7, <1>4
      <3>9. j - 1 \in hits  BY <3>3, <3>8
      <3> HIDE DEF hits
      <3> QED  BY <2>1, <2>2, <3>8, <3>9
    <2>7. latest[name] = [data |-> mem.entry[p].data, expire |-> mem.entry[p].expire]
      BY <2>5, <2>6 DEF Newest
    <2>8. e = mem.entry[p]  BY <2>2, <2>5
    <2>9. mem.entry[p].expire \in Nat \ {0}
      <3>1. mem.entry[p] \in CacheEntry  BY <1>4, StoreIs
      <3> QED  BY <3>1 DEF CacheEntry
    <2> HIDE DEF e, hits
    <2>10. got = IF mem.entry[p].expire < now THEN Nothing ELSE latest[name]
      BY <1>7, <1>10, <2>7, <2>8
    <2>11. latest[name].expire = mem.entry[p].expire /\ latest[name].expire # 0  BY <2>7, <2>9
    <2>12. Nothing.expire = 0  BY DEF Nothing
    <2>13. got = Nothing => latest[name].expire < now  BY <2>10, <2>11, <2>12
    <2>14. got \in {Nothing, latest[name]}  BY <2>10
    <2> QED  BY <2>13, <2>14
  <1> QED  BY <1>9, <1>10

\* The inductive invariant.
CacheInv == Good(mem) /\ Newest(mem, latest) /\ now \in Nat /\ DOMAIN latest = Key

\* cache_init leaves an empty ring and empty chains.
LEMMA CacheStart == CacheInit => CacheInv
  <1> SUFFICES ASSUME CacheInit PROVE CacheInv  OBVIOUS
  <1> DEFINE none == [p \in {} |-> 0]
             heads == [b \in Bucket |-> 0]
  <1>1. /\ mem = [writer |-> hsize, oldest |-> size, unused |-> size, head |-> heads, entry |-> none]
        /\ now = 0 /\ latest = [name \in Key |-> Nothing]
    BY DEF CacheInit
  <1>2. DOMAIN none = {} /\ none \in Entries
    <2>1. DOMAIN none \in SUBSET Nat /\ none \in [DOMAIN none -> CacheEntry]  OBVIOUS
    <2> HIDE DEF none
    <2>2. none \in Entries  BY <2>1, EntriesAre
    <2> QED  BY <2>2 DEF none
  <1>3. heads \in [Bucket -> Nat]  OBVIOUS
  <1>4. size \in Nat /\ hsize \in Nat /\ hsize <= size /\ \A b \in Bucket : b \in Nat  BY HsizeIs
  <1> HIDE DEF none
  <1>5. mem \in Store  BY <1>1, <1>2, <1>3, <1>4 DEF Store
  <1>6. mem.entry = none /\ mem.head = heads /\ mem.writer = hsize /\ mem.oldest = size /\ mem.unused = size
    BY <1>1
  <1>7. IsFiniteSet(DOMAIN mem.entry)  BY <1>2, <1>6, FS_EmptySet
  <1>8. Ring(mem)  BY <1>2, <1>4, <1>6 DEF Ring
  <1>9. ASSUME NEW b \in Bucket PROVE \E n \in Nat : \E t \in [0 .. n + 1 -> Nat] : Chain(mem, b, n, t)
    <2> DEFINE t == [i \in 0 .. 1 |-> IF i = 0 THEN b ELSE 0]
    <2>1. t \in [0 .. 0 + 1 -> Nat] /\ t[0] = b /\ t[0 + 1] = 0 /\ t[1] = 0  BY <1>4
    <2>2. Here(mem, b) = {} /\ 1 .. 0 = {}  BY <1>2, <1>6 DEF Here
    <2>3. mem.head[b] = 0  BY <1>6
    <2> HIDE DEF t
    <2>4. Chain(mem, b, 0, t)  BY <2>1, <2>2, <2>3 DEF Chain
    <2> QED  BY <2>1, <2>4
  <1>10. Newest(mem, latest)  BY <1>2, <1>6 DEF Newest
  <1> QED  BY <1>1, <1>5, <1>7, <1>8, <1>9, <1>10 DEF CacheInv, Good

\* cache_set and the clock keep it.
LEMMA CacheStep == CacheInv /\ [CacheNext]_cacheVars => CacheInv'
  <1> SUFFICES ASSUME CacheInv, [CacheNext]_cacheVars PROVE CacheInv'  OBVIOUS
  <1>1. ASSUME NEW name \in Key, NEW data \in Data, NEW ttl \in Ttl, CacheSet(name, data, ttl)
        PROVE  CacheInv'
    <2> DEFINE e == [key |-> name, data |-> data, link |-> 0, expire |-> now + LowerOf(ttl, MaxTtl)]
               room == MakeRoom(mem, Len20(e))
    <2>1. now + LowerOf(ttl, MaxTtl) \in Nat \ {0}
      <3>1. ttl \in Nat \ {0} /\ MaxTtl \in Nat \ {0} /\ now \in Nat
        BY <1>1, ConstsAre DEF CacheSet, CacheInv
      <3> QED  BY <3>1 DEF LowerOf
    <2>2. e \in CacheEntry  BY <2>1 DEF CacheEntry
    <2>3. Len20(e) \in Nat
      <3>1. KeyLen[name] \in Nat /\ DataLen[data] \in Nat  BY ConstsAre
      <3> QED  BY <3>1 DEF Len20
    <2>4. Good(room) /\ Newest(room, latest)  BY <2>3, MakeRoomOK DEF CacheInv
    <2>5. now' = now  BY <1>1 DEF CacheSet
    <2>6. CASE room.writer + Len20(e) <= room.oldest
      <3>1. /\ mem' = Link(room, e)
            /\ latest' = [latest EXCEPT ![name] = [data |-> data, expire |-> e.expire]]
        BY <1>1, <2>6 DEF CacheSet
      <3>2. e.key = name /\ e.data = data  OBVIOUS
      <3>3. PICK a \in CacheEntry : a = e  BY <2>2
      <3>4. PICK r : r = room  OBVIOUS
      <3> HIDE DEF e, room
      <3>5. Good(r) /\ r.writer + Len20(a) <= r.oldest /\ mem' = Link(r, a) /\ Newest(r, latest)
            /\ a.key \in DOMAIN latest
        BY <2>4, <2>6, <3>1, <3>2, <3>3, <3>4 DEF CacheInv
      <3>6. PICK z : z = mem'  OBVIOUS
      <3>7. Good(z) /\ Newest(z, [latest EXCEPT ![a.key] = [data |-> a.data, expire |-> a.expire]])
        BY <3>5, <3>6, LinkOK
      <3>8. latest' = [latest EXCEPT ![a.key] = [data |-> a.data, expire |-> a.expire]]
        BY <3>1, <3>2, <3>3
      <3>9. Good(mem') /\ Newest(mem', latest') /\ DOMAIN latest' = Key
        BY <3>6, <3>7, <3>8 DEF CacheInv
      <3>10. now' \in Nat  BY <2>5 DEF CacheInv
      <3>11. CacheInv' <=> Good(mem') /\ Newest(mem', latest') /\ now' \in Nat /\ DOMAIN latest' = Key
        BY DEF CacheInv, Good, Newest, Newer, Ring, Chain, EndOf, Here, Len20
      <3> QED  BY <3>9, <3>10, <3>11
    <2>7. CASE ~(room.writer + Len20(e) <= room.oldest)
      <3>1. mem' = room /\ latest' = latest  BY <1>1, <2>7 DEF CacheSet
      <3> HIDE DEF e, room
      <3>2. Good(mem') /\ Newest(mem', latest')  BY <2>4, <3>1
      <3> QED  BY <2>5, <3>1, <3>2 DEF CacheInv
    <2> QED  BY <2>6, <2>7
  <1>2. CASE CacheTick
    <2>1. now' = now + 1 /\ mem' = mem /\ latest' = latest  BY <1>2 DEF CacheTick
    <2> QED  BY <2>1 DEF CacheInv
  <1>3. CASE UNCHANGED cacheVars
    <2>1. now' = now /\ mem' = mem /\ latest' = latest  BY <1>3 DEF cacheVars
    <2> QED  BY <2>1 DEF CacheInv
  <1> QED  BY <1>1, <1>2, <1>3 DEF CacheNext

\* Between calls the memory is in order.
THEOREM CacheInvHolds == CacheSpec => []CacheInv
  <1> QED  BY CacheStart, CacheStep, PTL DEF CacheSpec

\* For any size, keys, values, depth and sequence of calls: the entries fill
\* the two parts of the ring without a gap or an overlap, following a bucket's
\* chain meets each of its entries once, newest first, and ends, and cache_get
\* gives what was last stored for a key or, when that was evicted, has expired
\* or lies too deep, nothing.
THEOREM CacheHolds == CacheSpec => []CacheSafe
  <1>1. CacheInv => CacheSafe
    BY RingIsExact, ChainsAreExact, LatestIsGot DEF CacheInv, CacheSafe
  <1> QED  BY <1>1, CacheInvHolds, PTL

\* The loop of cache_set ends within one turn per entry: either there is room
\* for the new entry, or it is larger than the ring.
RoomMade == \A word \in Key, data \in Data :
  LET len  == KeyLen[word] + DataLen[data] + 20
      room == MakeRoom(mem, len)
  IN  room.writer + len <= room.oldest \/ len > size - hsize

\* For any size, keys and values: cache_set finds room for an entry unless it
\* is larger than the ring; its loop never runs for ever and never gives up
\* with entries left to evict.
THEOREM CacheMakesRoom == CacheSpec => []RoomMade
  <1>1. CacheInv => RoomMade
    <2> SUFFICES ASSUME CacheInv, NEW word \in Key, NEW data \in Data,
                        NEW len, len = KeyLen[word] + DataLen[data] + 20,
                        NEW room, room = MakeRoom(mem, len)
                 PROVE  room.writer + len <= room.oldest \/ len > size - hsize
      BY Zenon DEF RoomMade
    <2>1. KeyLen[word] \in Nat /\ DataLen[data] \in Nat  BY ConstsAre
    <2>2. len \in Nat  BY <2>1
    <2>3. Good(room) /\ ~Crowded(room, len)  BY <2>2, MakeRoomOK DEF CacheInv
    <2>4. room \in Store /\ Ring(room)  BY <2>3 DEF Good
    <2>5. room.writer \in Nat /\ room.oldest \in Nat /\ room.unused \in Nat /\ hsize \in Nat /\ size \in Nat
      BY <2>4, StoreIs, HsizeIs
    <2>6. CASE room.oldest = room.unused /\ room.writer <= hsize
      <3>1. room.writer = hsize /\ room.oldest = size  BY <2>4, <2>5, <2>6 DEF Ring
      <3> QED  BY <2>2, <2>5, <3>1
    <2>7. CASE ~(room.writer + len > room.oldest)  BY <2>2, <2>5, <2>7
    <2> QED  BY <2>3, <2>6, <2>7 DEF Crowded
  <1> QED  BY <1>1, CacheInvHolds, PTL
=============================================================================
