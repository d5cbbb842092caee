------------------------------- MODULE Query -------------------------------
(***************************************************************************)
(* One client's question in dnscache (djbdns-1.05/query.c).  To ask a zone *)
(* it may first need the address of a name server, which is a question of  *)
(* its own one level up; aliases and referrals start a level over.  Every  *)
(* new name and every packet counts in loop, and a question whose loop     *)
(* reaches its cap dies.  Names are left out; what the cache, the roots    *)
(* and the packets say is free.                                            *)
(***************************************************************************)
EXTENDS Integers, FiniteSets

CONSTANTS
  MaxLevel,   \* QUERY_MAXLEVEL, 5
  MaxNs,      \* QUERY_MAXNS, 16
  MaxServers, \* places for addresses in servers[level], 16
  MaxAlias,   \* QUERY_MAXALIAS, 16
  MaxLoop     \* the cap of loop, 100

ASSUME QueryAssumption ==
  {MaxLevel, MaxNs, MaxServers, MaxAlias, MaxLoop} \subseteq Nat \ {0}

Levels == 0 .. MaxLevel - 1

VARIABLES
  qstep,    \* "newname" | "havens" | "asked" | "done" (doit gave 1) | "died" (gave -1)
  level,    \* the level at work
  loop,     \* new names and packets so far
  named,    \* levels whose name is held
  ns,       \* [Levels -> number of name servers still to look up]
  servers,  \* [Levels -> number of addresses to ask]
  alias,    \* aliases followed for the client's own name
  asks      \* history: questions handed to qmerge, counted up to MaxLoop + 1

queryVars == <<qstep, level, loop, named, ns, servers, alias, asks>>

QueryInit ==
  /\ qstep = "newname" /\ level = 0 /\ loop = 0 /\ named = {0}
  /\ ns = [l \in Levels |-> 0] /\ servers = [l \in Levels |-> 0]
  /\ alias = 0 /\ asks = 0

\* cleanup(z), after an answer or at DIE.
End(how) ==
  /\ qstep' = how /\ named' = {}
  /\ ns' = [l \in Levels |-> 0]
  /\ UNCHANGED <<level, servers, alias, asks>>

\* LOWERLEVEL, with n addresses found for the level below.
LowerLevel(n) ==
  /\ qstep' = "havens"
  /\ named' = named \ {level}
  /\ ns' = [ns EXCEPT ![level] = 0]
  /\ level' = level - 1
  /\ servers' = [servers EXCEPT ![level - 1] =
                   IF @ + n < MaxServers THEN @ + n ELSE MaxServers]
  /\ UNCHANGED <<alias, asks>>

\* An answer, NXDOMAIN or SERVFAIL: for the client, or for the level below.
Conclude(n) == IF level = 0 THEN End("done") ELSE LowerLevel(n)

\* CNAME: at level 0 the old name is kept as an alias, for at most MaxAlias.
Cname ==
  IF level = 0 /\ alias = MaxAlias THEN End("died")
  ELSE /\ qstep' = "newname"
       /\ alias' = IF level = 0 THEN alias + 1 ELSE alias
       /\ UNCHANGED <<level, named, ns, servers, asks>>

\* The closest zone with known servers: addresses of the roots, or names of
\* name servers from the cache (below level 2 only).
HaveZone ==
  /\ \/ /\ ns' = [ns EXCEPT ![level] = 0]
        /\ \E n \in 1 .. MaxServers : servers' = [servers EXCEPT ![level] = n]
     \/ /\ level < 2
        /\ \E n \in 1 .. MaxNs : ns' = [ns EXCEPT ![level] = n]
        /\ servers' = [servers EXCEPT ![level] = 0]
  /\ qstep' = "havens"
  /\ UNCHANGED <<level, named, alias, asks>>

NewName ==
  /\ qstep = "newname"
  /\ loop' = loop + 1
  /\ IF loop' = MaxLoop THEN End("died")
     ELSE \/ \E n \in 0 .. MaxServers : Conclude(n)   \* known here or cached
          \/ Cname                                    \* cached alias
          \/ HaveZone
          \/ End("died")                              \* no zone, no memory

\* HAVENS: a name server without an address is looked up one level up, as long
\* as there is one; then the servers are asked, if there are any.
LookUpNs ==
  /\ qstep = "havens" /\ ns[level] > 0 /\ level + 1 < MaxLevel
  /\ qstep' = "newname"
  /\ ns' = [ns EXCEPT ![level] = @ - 1]
  /\ level' = level + 1 /\ named' = named \union {level + 1}
  /\ UNCHANGED <<loop, servers, alias, asks>>

Ask ==
  /\ qstep = "havens"
  /\ ns[level] = 0 \/ level + 1 = MaxLevel
  /\ UNCHANGED loop
  /\ IF servers[level] = 0 THEN Conclude(0)     \* SERVFAIL
     ELSE \/ /\ qstep' = "asked" /\ asks' = IF asks > MaxLoop THEN asks ELSE asks + 1
             /\ ns' = [ns EXCEPT ![level] = 0]
             /\ UNCHANGED <<level, named, servers, alias>>
          \/ End("died")

\* The transmission failed: SERVFAIL, which does not count in loop.
NoAnswer ==
  /\ qstep = "asked"
  /\ Conclude(0)
  /\ UNCHANGED loop

\* A lame server's address is zeroed in the list of the query that started the
\* shared transmission, which need not be this one (qmerge).
Lame ==
  /\ qstep' = "havens"
  /\ \/ servers' = [servers EXCEPT ![level] = IF @ = 0 THEN 0 ELSE @ - 1]
     \/ UNCHANGED servers
  /\ UNCHANGED <<level, named, ns, alias, asks>>

Referral ==
  /\ qstep' = "havens"
  /\ servers' = [servers EXCEPT ![level] = 0]
  /\ \E n \in 0 .. MaxNs : ns' = [ns EXCEPT ![level] = n]
  /\ UNCHANGED <<level, named, alias, asks>>

Uncounted == UNCHANGED loop      \* mutant
PacketCounted == loop' = loop + 1

HavePacket ==
  /\ qstep = "asked"
  /\ PacketCounted
  /\ IF loop' = MaxLoop THEN End("died")
     ELSE \/ \E n \in 0 .. MaxServers : Conclude(n)
          \/ Cname \/ Lame \/ Referral
          \/ End("died")                        \* a malformed packet

QueryNext == NewName \/ LookUpNs \/ Ask \/ NoAnswer \/ HavePacket

QuerySpec == QueryInit /\ [][QueryNext]_queryVars

\* doit runs without a pause and a transmission ends (Transmit.QuestionEnds).
QueryFair == WF_queryVars(QueryNext)

(***************************************************************************)
(* Properties.                                                             *)
(***************************************************************************)
QueryTypeOK ==
  /\ qstep \in {"newname", "havens", "asked", "done", "died"}
  /\ level \in Levels /\ loop \in 0 .. MaxLoop /\ named \subseteq Levels
  /\ ns \in [Levels -> 0 .. MaxNs] /\ servers \in [Levels -> 0 .. MaxServers]
  /\ alias \in 0 .. MaxAlias /\ asks \in Nat

Ended == qstep \in {"done", "died"}

\* The names held are those of the levels at work, and none is left at the end.
NamesFreed == named = IF Ended THEN {} ELSE 0 .. level

\* The work a client's question can cause is bounded by loop, although failed
\* transmissions, lame servers and referrals do not themselves stop it: each
\* question sent is paid for by a new name or a packet.
AsksPaid == asks <= loop

\* Both: no name is leaked, and the work is bounded.
QuerySafe == NamesFreed /\ AsksPaid

\* Every client's question ends once it has begun.
QueryEnds == (loop > 0) ~> Ended
=============================================================================
