------------------------------- MODULE Qmerge -------------------------------
(***************************************************************************)
(* Clients of dnscache share transmissions: a query that asks what another *)
(* is already asking joins it (djbdns-1.05/qmerge.c), in the main loop of  *)
(* dnscache.c.  One turn of the loop sets up the descriptors (query_io for *)
(* every client), waits, lets every client look (query_get, in the same    *)
(* order) and takes a new one.  A transmission (Transmit) is abstract: it  *)
(* yields an answer or fails.  What a query does with an answer (Query) is *)
(* free: it ends or asks again.                                            *)
(***************************************************************************)
EXTENDS Integers, FiniteSets

CONSTANTS
  MaxClient,   \* MAXUDP + MAXTCP: clients at a time, and entries of inprogress
  QKey         \* question, type and zone

ASSUME QmergeAssumption == MaxClient \in Nat \ {0} /\ QKey # {}

Client == 1 .. MaxClient     \* u[] and t[], in the order of the loop
Entry  == 1 .. MaxClient     \* inprogress[]

VARIABLES
  live,     \* clients whose query is under way
  qm,       \* [Client -> entry held by its query, 0 for none]; stays at u_drop
  active,   \* [Entry -> queries that hold it]
  key,      \* [Entry -> QKey]
  state,    \* [Entry -> -1 error | 0 need io | 1 need get | 2 got packet]
  poller,   \* [Entry -> client whose descriptor waits for it this turn, or 0]
  turn,     \* 0 set up | 1 .. MaxClient: that client looks | MaxClient + 1 new client
  wants,    \* history: [Client -> the question its query last asked]
  starter,  \* history: [Entry -> client in whose query the list of servers is]
  dropped   \* history: a client was dropped for want of room

qmergeVars == <<live, qm, active, key, state, poller, turn, wants, starter, dropped>>

QmergeTypeOK ==
  /\ live \subseteq Client /\ qm \in [Client -> 0 .. MaxClient]
  /\ active \in [Entry -> Nat] /\ key \in [Entry -> QKey]
  /\ state \in [Entry -> {-1, 0, 1, 2}] /\ poller \in [Entry -> 0 .. MaxClient]
  /\ turn \in 0 .. MaxClient + 1 /\ dropped \in BOOLEAN
  /\ wants \in [Client -> QKey] /\ starter \in [Entry -> Client]

QmergeInit ==
  /\ live = {} /\ qm = [c \in Client |-> 0]
  /\ active = [e \in Entry |-> 0] /\ state = [e \in Entry |-> 0]
  /\ poller = [e \in Entry |-> 0] /\ turn = 0 /\ dropped = FALSE
  /\ LET k == CHOOSE k \in QKey : TRUE
     IN  key = [e \in Entry |-> k] /\ wants = [c \in Client |-> k]
  /\ starter = [e \in Entry |-> 1]

\* qmerge_free: the counts once client c has let go of its entry.
NotFreed(c) == active      \* mutant
Freed(c) == [e \in Entry |-> IF e = qm[c] /\ active[e] > 0 THEN active[e] - 1
                             ELSE active[e]]

\* The query of c ends, or a client that has none is cleaned up.
LetGo(c) ==
  /\ active' = Freed(c)
  /\ qm' = [qm EXCEPT ![c] = 0]
  /\ UNCHANGED <<key, wants, starter>>

\* qmerge_start by c for k, given the states of the entries: let go, then join
\* the entry that asks the same, or start the first free one.
Lowest(S) == CHOOSE e \in S : \A f \in S : e <= f
StartQuery(c, k, states) ==
  LET left  == Freed(c)
      same  == {e \in Entry : left[e] > 0 /\ key[e] = k}
      spare == {e \in Entry : left[e] = 0}
  IN  /\ same \union spare # {}
      /\ LET e == IF same # {} THEN Lowest(same) ELSE Lowest(spare)
         IN  /\ active' = [left EXCEPT ![e] = @ + 1]
             /\ qm' = [qm EXCEPT ![c] = e]
             /\ key' = [key EXCEPT ![e] = k]
             /\ wants' = [wants EXCEPT ![c] = k]
             /\ state' = IF same # {} THEN states ELSE [states EXCEPT ![e] = 0]
             /\ starter' = IF same # {} THEN starter ELSE [starter EXCEPT ![e] = c]

\* query_io for every client in turn: the first to meet an entry in need of io
\* waits for it, the others wait for nothing.  Then iopause, for 120 s at most.
SetUp ==
  LET waits(e) == {c \in live : qm[c] = e}
      first(e) == IF state[e] = 0 /\ waits(e) # {} THEN Lowest(waits(e)) ELSE 0
  IN  /\ turn = 0
      /\ poller' = [e \in Entry |-> first(e)]
      /\ state' = [e \in Entry |-> IF first(e) # 0 THEN 1 ELSE state[e]]
      /\ turn' = 1
      /\ UNCHANGED <<live, qm, active, key, wants, starter, dropped>>

\* qmerge_get: the first to look at an entry in need of a get moves the
\* transmission on; only the client that waited for it can have an event.
Got(c) ==
  LET e == qm[c]
  IN  CASE state[e] = 1 -> IF poller[e] = c THEN {-1, 0, 2} ELSE {-1, 0}
        [] OTHER        -> {state[e]}

\* Client c looks: nothing yet, or its query goes on with an answer or a failure.
LookNothing(c) ==
  /\ turn = c /\ c \in live
  /\ 0 \in Got(c)
  /\ state' = [state EXCEPT ![qm[c]] = 0]
  /\ turn' = c + 1
  /\ UNCHANGED <<live, qm, active, key, poller, wants, starter, dropped>>

LookEnds(c) ==
  /\ turn = c /\ c \in live
  /\ \E s \in Got(c) \ {0} : state' = [state EXCEPT ![qm[c]] = s]
  /\ LetGo(c)
  /\ live' = live \ {c}
  /\ turn' = c + 1
  /\ UNCHANGED <<poller, dropped>>

LookAsks(c, k) ==
  /\ turn = c /\ c \in live
  /\ \E s \in Got(c) \ {0} : StartQuery(c, k, [state EXCEPT ![qm[c]] = s])
  /\ turn' = c + 1
  /\ UNCHANGED <<live, poller, dropped>>

PassOver(c) ==
  /\ turn = c /\ c \notin live
  /\ turn' = c + 1
  /\ UNCHANGED <<live, qm, active, key, state, poller, wants, starter, dropped>>

\* u_new and t_new: the client takes the place c of none, or of one that is
\* dropped because all are taken; its query keeps its entry until the place is
\* used again.  The packet may be no question (no query is started).
NewAt(c) ==
  /\ turn = MaxClient + 1 /\ turn' = 0
  /\ c \notin live \/ live = Client
  /\ dropped' = (dropped \/ live = Client)

NewClient(c, k) ==
  /\ NewAt(c)
  /\ live' = live \union {c}
  /\ StartQuery(c, k, state)
  /\ UNCHANGED poller

NewAnswered(c) ==
  /\ NewAt(c)
  /\ live' = live \ {c}
  /\ \/ LetGo(c)
     \/ UNCHANGED <<qm, active, key, wants, starter>>
  /\ UNCHANGED <<state, poller>>

NoNew ==
  /\ turn = MaxClient + 1 /\ turn' = 0
  /\ UNCHANGED <<live, qm, active, key, state, poller, wants, starter, dropped>>

QmergeNext ==
  \/ SetUp \/ NoNew
  \/ \E c \in Client : LookNothing(c) \/ LookEnds(c) \/ PassOver(c) \/ NewAnswered(c)
  \/ \E c \in Client, k \in QKey : LookAsks(c, k) \/ NewClient(c, k)

QmergeSpec == QmergeInit /\ [][QmergeNext]_qmergeVars

(***************************************************************************)
(* Properties.                                                             *)
(***************************************************************************)
Holders(e) == {c \in Client : qm[c] = e}

\* An entry counts the queries that hold it, those of dropped clients included,
\* so it is freed with the last one and no sooner; and it asks what they want.
HoldersCounted == \A e \in Entry :
  /\ active[e] = Cardinality(Holders(e))
  /\ \A c \in Holders(e) : wants[c] = key[e]

\* A live query always holds an entry, no two entries ask the same, and there
\* is room for one more query whenever one starts.
NoneTwice ==
  /\ \A c \in live : qm[c] # 0
  /\ \A e, f \in Entry : active[e] > 0 /\ active[f] > 0 /\ key[e] = key[f] => e = f
RoomForOne == \A c \in Client : \E e \in Entry : Freed(c)[e] = 0

\* While the loop waits, each transmission under way that a live query holds is
\* waited for by exactly one of them.
WaitedForOnce == turn = 1 =>
  \A e \in Entry : state[e] = 1 /\ Holders(e) \intersect live # {} =>
    poller[e] \in Holders(e) \intersect live

\* The list of servers a transmission walks lies in the query that started it:
\* until a client is dropped, that query still holds it.
ServersStay == ~dropped =>
  \A e \in Entry : active[e] > 0 /\ state[e] \in {0, 1} => qm[starter[e]] = e

QmergeSafe == HoldersCounted /\ NoneTwice /\ RoomForOne /\ WaitedForOnce /\ ServersStay
=============================================================================
