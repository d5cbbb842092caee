------------------------------ MODULE Transmit ------------------------------
(***************************************************************************)
(* One question of the resolver to a list of servers                       *)
(* (djbdns-1.05/dns_transmit.c).  By UDP every server is asked in turn, in *)
(* four rounds with longer and longer time-outs (three for a recursive     *)
(* question); a truncated answer moves the question to TCP, where every    *)
(* server is asked once.  Each try has a socket and an id of its own.      *)
(* Ids are drawn at random in the code and are taken to differ here; the   *)
(* packet's bytes are abstracted to what the code tells apart.             *)
(***************************************************************************)
EXTENDS Integers, FiniteSets

CONSTANTS
  Servers,     \* length of the list of servers; 16 in the code
  Bytes,       \* bytes of the question and of an answer, as read and written
  Nature       \* what a server may be like, a subset of Natures

Natures == {"unusable",    \* 0.0.0.0 in the list, or the send fails at once
            "works",       \* answers by UDP and by TCP
            "truncates",   \* the same, but its UDP answer has TC set
            "udp only",    \* answers by UDP, takes no TCP connection
            "fails",       \* answers SERVFAIL
            "refuses",     \* port unreachable, connection refused
            "silent"}

ASSUME TransmitAssumption ==
  Servers \in Nat \ {0} /\ Bytes \in Nat \ {0} /\ Nature \subseteq Natures

VARIABLES
  tstep,    \* tcpstate 0 "udp", 1 "connect", 2 "send", 3 and 4 "length", 5 "body"; "got", "failed"
  try,      \* udploop * Servers + curserver by UDP, curserver by TCP
  rounds,   \* the first udploop: 1 for a recursive question, else 0
  pos,      \* bytes of the question sent or of the answer read
  held,     \* of "query", "socket", "packet": what d owns
  nature,   \* [0 .. Servers-1 -> Nature]: what the servers are like
  tcp,      \* history: the question goes by TCP
  lost,     \* history: [0 .. Servers-1 -> tries that timed out, by UDP or by TCP]
  broke     \* history: no socket or no memory

transmitVars == <<tstep, try, rounds, pos, held, nature, tcp, lost, broke>>

\* curserver and udploop of a try.
Server(n) == n % Servers
Round(n)  == n \div Servers
Cur  == Server(try)
Loop == Round(try)
Usable(s) == nature[s] # "unusable"
TakesTcp(s) == nature[s] \in {"works", "truncates", "fails"}

\* m is the first try from n on at a server that can be sent to, or the end.
FirstTry(m, n, end) ==
  /\ \A k \in n .. m - 1 : ~Usable(Server(k))
  /\ m < end => Usable(Server(m))

Free(outcome) ==
  /\ tstep' = outcome /\ held' = {} /\ UNCHANGED <<try, pos>>

\* thisudp and thistcp from try n on: a new socket and id for the first server
\* that takes the question, or no server left.  A socket may be refused.
ThisUdp(n) ==
  \E m \in n .. 4 * Servers :
    /\ FirstTry(m, n, 4 * Servers)
    /\ \/ /\ m < 4 * Servers
          /\ tstep' = "udp" /\ try' = m /\ pos' = 0
          /\ held' = {"query", "socket"} \union (held \ {"socket"})
          /\ UNCHANGED broke
       \/ m = 4 * Servers /\ Free("failed") /\ UNCHANGED broke
       \/ m < 4 * Servers /\ Free("failed") /\ broke' = TRUE

ThisTcp(n) ==
  \E m \in n .. Servers :
    /\ FirstTry(m, n, Servers)
    /\ \/ /\ m < Servers
          /\ tstep' \in {"connect", "send"} /\ try' = m /\ pos' = 0
          /\ tstep' = "send" => TakesTcp(m)     \* connected at once
          /\ held' = {"query", "socket"} \union (held \ {"socket", "packet"})
          /\ UNCHANGED broke
       \/ m = Servers /\ Free("failed") /\ UNCHANGED broke
       \/ m < Servers /\ Free("failed") /\ broke' = TRUE

\* firsttcp starts at the first server again; the mutant goes on where UDP was.
TcpFromHere ==
  ThisTcp(Cur) /\ tcp' = TRUE /\ lost' = [s \in DOMAIN lost |-> 0]
FirstTcp == ThisTcp(0) /\ tcp' = TRUE /\ lost' = [s \in DOMAIN lost |-> 0]
NextTry  == IF tstep = "udp" THEN ThisUdp(try + 1) ELSE ThisTcp(try + 1)

TransmitInit ==
  /\ tstep = "idle" /\ try = 0 /\ pos = 0 /\ held = {}
  /\ tcp = FALSE /\ broke = FALSE
  /\ rounds \in {0, 1}
  /\ nature \in [0 .. Servers - 1 -> Nature]
  /\ lost = [s \in 0 .. Servers - 1 |-> 0]

\* dns_transmit_start; a name too long for 512 bytes goes by TCP at once.
StartQuestion ==
  /\ tstep = "idle"
  /\ \/ ThisUdp(rounds * Servers) /\ UNCHANGED <<tcp, lost>>
     \/ FirstTcp
  /\ UNCHANGED <<rounds, nature>>

Asking == tstep \in {"udp", "connect", "send", "length", "body"}
Frame  == UNCHANGED <<rounds, nature>>
Same   == UNCHANGED <<rounds, nature, tcp, lost>>

\* No event before the deadline, or a TCP connection that breaks.
Timeout ==
  /\ Asking
  /\ lost' = [lost EXCEPT ![Cur] = @ + 1]
  /\ NextTry
  /\ UNCHANGED tcp /\ Frame

\* recv on the UDP socket.  An answer to an earlier try, or one that is cut by
\* the buffer, is passed over (irrelevant), and in the third round so is a
\* server that fails: the wait goes on to the deadline.
UdpRefused ==
  /\ tstep = "udp" /\ nature[Cur] = "refuses" /\ Loop # 2
  /\ NextTry
  /\ Same

UdpTruncated ==
  /\ tstep = "udp" /\ nature[Cur] = "truncates"
  /\ FirstTcp
  /\ Frame

UdpFailed ==
  /\ tstep = "udp" /\ nature[Cur] = "fails" /\ Loop # 2
  /\ NextTry
  /\ Same

UdpAnswer ==
  /\ tstep = "udp" /\ nature[Cur] \in {"works", "udp only"}
  /\ \/ /\ tstep' = "got" /\ held' = {"packet"}
        /\ UNCHANGED <<try, pos, broke>>
     \/ /\ Free("failed") /\ broke' = TRUE          \* no memory for the packet
  /\ Same

TcpConnected ==
  /\ tstep = "connect"
  /\ IF TakesTcp(Cur)
       THEN tstep' = "send" /\ pos' = 0 /\ UNCHANGED <<try, held, broke>>
       ELSE nature[Cur] # "silent" /\ NextTry
  /\ Same

TcpWrite ==
  /\ tstep = "send"
  /\ pos' \in pos + 1 .. Bytes
  /\ tstep' = IF pos' = Bytes THEN "length" ELSE "send"
  /\ UNCHANGED <<try, held, broke>> /\ Same

\* The two bytes of the length, then memory for the answer.
TcpLength ==
  /\ tstep = "length"
  /\ \/ /\ tstep' = "body" /\ pos' = 0 /\ held' = held \union {"packet"}
        /\ UNCHANGED <<try, broke>>
     \/ /\ Free("failed") /\ broke' = TRUE
  /\ Same

\* The answer, in pieces; a bad one (SERVFAIL) moves on to the next server.
TcpRead ==
  /\ tstep = "body"
  /\ \/ /\ pos + 1 < Bytes
        /\ pos' \in pos + 1 .. Bytes - 1
        /\ UNCHANGED <<tstep, try, held, broke>>
     \/ /\ nature[Cur] # "fails"
        /\ tstep' = "got" /\ held' = {"packet"}
        /\ UNCHANGED <<try, pos, broke>>
     \/ /\ nature[Cur] = "fails"
        /\ NextTry
  /\ Same

TransmitNext ==
  \/ StartQuestion \/ Timeout \/ UdpRefused \/ UdpTruncated \/ UdpFailed \/ UdpAnswer
  \/ TcpConnected \/ TcpWrite \/ TcpLength \/ TcpRead

TransmitSpec == TransmitInit /\ [][TransmitNext]_transmitVars

\* The caller's loop comes back at the deadline at the latest.
TransmitFair == WF_transmitVars(StartQuestion) /\ WF_transmitVars(Timeout)

(***************************************************************************)
(* Properties.                                                             *)
(***************************************************************************)
\* What d owns at each point: nothing is freed twice, allocated over itself or
\* left behind, on any path from UDP to TCP and from one server to the next.
HeldRight ==
  held = CASE tstep \in {"idle", "failed"}                      -> {}
           [] tstep = "got"                                     -> {"packet"}
           [] tstep = "body"                                    -> {"query", "socket", "packet"}
           [] tstep \in {"udp", "connect", "send", "length"}    -> {"query", "socket"}

\* The question fails only after every server that works had its chances: by
\* UDP it timed out in every round, and after the move to TCP it timed out there
\* too.  Servers that fail, refuse or truncate use up no chance of another.
EachHadItsChance ==
  tstep = "failed" /\ ~broke =>
    \A s \in DOMAIN nature :
      nature[s] \in {"works", "truncates"} => lost[s] >= IF tcp THEN 1 ELSE 4 - rounds

\* Both: what a question owns, and what it has tried when it gives up.
TransmitSafe == HeldRight /\ EachHadItsChance

\* Every question ends, whatever its servers do.
QuestionEnds == (tstep # "idle") ~> (tstep \in {"got", "failed"})
=============================================================================
