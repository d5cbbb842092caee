------------------------------- MODULE Cache -------------------------------
(***************************************************************************)
(* The answer cache of dnscache (djbdns-1.05/cache.c): one block of memory *)
(* with a hash table at its start and a ring of entries after it,          *)
(*                                                                         *)
(*    0      hsize       writer      oldest      unused      size          *)
(*    | table  | new entries |  free   | old entries |  free  |            *)
(*                                                                         *)
(* Entries are evicted in the order they were written.  A bucket's entries *)
(* form a chain, newest first; the link of an entry is the XOR of the      *)
(* positions before and after it, so that the oldest entry finds its       *)
(* predecessor without a second link.  Positions are the real offsets.     *)
(***************************************************************************)
EXTENDS Integers, Sequences, FiniteSets

CONSTANTS
  Key, KeyLen, KeyHash,  \* keys, their lengths and hash & (hsize - 4)
  Data, DataLen,         \* values and their lengths
  cachesize,             \* the size asked for
  MaxDepth,              \* how far a chain is followed; 100 in the code
  Ttl, MaxTtl, MaxNow    \* lifetimes, their cap (a week), the end of time

size ==
  IF cachesize > 1000000000 THEN 1000000000 ELSE IF cachesize < 100 THEN 100 ELSE cachesize

\* The loop of cache_init that doubles hsize, turn by turn.
doubled[i \in 0 .. 25] ==
  IF i = 0 THEN 4
  ELSE LET last == doubled[i - 1] IN IF last <= size \div 32 THEN 2 * last ELSE last

hsize == doubled[25]
Bucket == {b \in 0 .. hsize - 1 : b % 4 = 0}

ASSUME CacheAssumption ==
  /\ KeyLen \in [Key -> Nat \ {0}] /\ KeyHash \in [Key -> Bucket]
  /\ DataLen \in [Data -> Nat]
  /\ cachesize \in Nat
  /\ Ttl \subseteq Nat /\ {MaxDepth, MaxNow} \subseteq Nat /\ MaxTtl \in Nat \ {0}

VARIABLES
  mem,     \* [writer, oldest, unused, head, entry]: the memory x and its marks
  now,     \* the time
  latest   \* history: what was last stored for a key, or Nothing

cacheVars == <<mem, now, latest>>

Nothing == [data |-> 0, expire |-> 0]
Len20(e) == KeyLen[e.key] + DataLen[e.data] + 20

CacheInit ==
  /\ mem = [writer |-> hsize, oldest |-> size, unused |-> size,
          head |-> [b \in Bucket |-> 0], entry |-> [p \in {} |-> 0]]
  /\ now = 0
  /\ latest = [k \in Key |-> Nothing]

\* The exclusive or of two words, bit by bit.
xor[a \in Nat] ==
  [b \in Nat |-> IF a = 0 THEN b ELSE 2 * xor[a \div 2][b \div 2] + ((a + b) % 2)]

a ^^ b == xor[a][b]

\* get4 and set4 on the word at p: a bucket's head or an entry's link.  Words
\* of evicted entries stay in memory but nothing reaches them (ChainsExact).
Get4(m, p) ==
  CASE p \in Bucket         -> m.head[p]
    [] p \in DOMAIN m.entry -> m.entry[p].link
    [] OTHER                -> 0

Set4(m, p, w) ==
  CASE p \in Bucket         -> [m EXCEPT !.head[p] = w]
    [] p \in DOMAIN m.entry -> [m EXCEPT !.entry[p].link = w]
    [] OTHER                -> m

\* A mutant: the predecessor's link is left as it is.
EvictUncut(m) ==
  LET after == m.oldest + Len20(m.entry[m.oldest])
  IN  [m EXCEPT !.entry = [p \in DOMAIN m.entry \ {m.oldest} |-> m.entry[p]],
                !.oldest = IF after = m.unused THEN size ELSE after,
                !.unused = IF after = m.unused THEN size ELSE @]

\* One turn of the eviction loop: the entry at oldest is the last of its chain,
\* so its link is its predecessor's position, which is cut there.
Evict(m) ==
  LET pos   == Get4(m, m.oldest)
      cut   == Set4(m, pos, Get4(m, pos) ^^ m.oldest)
      after == m.oldest + Len20(m.entry[m.oldest])
      rest  == [p \in DOMAIN m.entry \ {m.oldest} |-> cut.entry[p]]
  IN  [cut EXCEPT !.entry = rest,
                  !.oldest = IF after = m.unused THEN size ELSE after,
                  !.unused = IF after = m.unused THEN size ELSE @]

\* The writer's turn back to the start of the ring, all entries being old.
Turn(m) == [m EXCEPT !.unused = m.writer, !.oldest = hsize, !.writer = hsize]

\* The loop of cache_set, turn by turn: each evicts an entry.  An entry larger
\* than the ring gets no room.
Crowded(m, len) ==
  m.writer + len > m.oldest /\ ~(m.oldest = m.unused /\ m.writer <= hsize)

OneTurn(m) == Evict(IF m.oldest = m.unused THEN Turn(m) ELSE m)

MakeRoom(m, len) ==
  LET n == Cardinality(DOMAIN m.entry)
      room[i \in 0 .. n] ==
        IF i = 0 THEN m
        ELSE LET r == room[i - 1] IN IF Crowded(r, len) THEN OneTurn(r) ELSE r
  IN  room[n]

\* The new entry goes first in its chain; the old head learns its position.
Link(m, e) ==
  LET bucket == KeyHash[e.key]
      old    == Get4(m, bucket)
      told   == IF old = 0 THEN m
                ELSE Set4(m, old, (Get4(m, old) ^^ bucket) ^^ m.writer)
      new    == [e EXCEPT !.link = old ^^ bucket]
  IN  [told EXCEPT !.entry = [p \in DOMAIN @ \union {m.writer} |->
                                IF p = m.writer THEN new ELSE @[p]],
                   !.head[bucket] = m.writer,
                   !.writer = @ + Len20(e)]

LowerOf(a, b) == IF a < b THEN a ELSE b

CacheSet(key, data, ttl) ==
  LET e    == [key |-> key, data |-> data, link |-> 0,
               expire |-> now + LowerOf(ttl, MaxTtl)]
      room == MakeRoom(mem, Len20(e))
      fits == room.writer + Len20(e) <= room.oldest
  IN  /\ ttl # 0
      /\ mem' = IF fits THEN Link(room, e) ELSE room
      /\ latest' = IF fits THEN [latest EXCEPT ![key] = [data |-> data, expire |-> e.expire]]
                   ELSE latest
      /\ UNCHANGED now

\* The loop of cache_get after each of its first n turns: two neighbours in the
\* chain of bucket b, and the link in between gives the next one.
Walk(m, b, n) ==
  LET walk[i \in 0 .. n] ==
        IF i = 0 THEN [prevpos |-> b, pos |-> Get4(m, b)]
        ELSE LET w == walk[i - 1]
             IN  IF w.pos = 0 THEN w
                 ELSE [prevpos |-> w.pos, pos |-> w.prevpos ^^ Get4(m, w.pos)]
  IN  walk

\* cache_get: the first entry of the chain with this key, unless it has expired
\* or lies too deep.
CacheGet(key) ==
  LET walk == Walk(mem, KeyHash[key], MaxDepth)
      hits == {i \in 0 .. MaxDepth :
                 walk[i].pos \in DOMAIN mem.entry /\ mem.entry[walk[i].pos].key = key}
      e    == mem.entry[walk[CHOOSE i \in hits : \A j \in hits : i <= j].pos]
  IN  IF hits = {} \/ e.expire < now THEN Nothing
      ELSE [data |-> e.data, expire |-> e.expire]

CacheTick ==
  /\ now < MaxNow
  /\ now' = now + 1
  /\ UNCHANGED <<mem, latest>>

CacheNext ==
  \/ \E key \in Key, data \in Data, ttl \in Ttl : CacheSet(key, data, ttl)
  \/ CacheTick

CacheSpec == CacheInit /\ [][CacheNext]_cacheVars

(***************************************************************************)
(* Properties.                                                             *)
(***************************************************************************)
CacheTypeOK ==
  /\ {mem.writer, mem.oldest, mem.unused} \subseteq hsize .. size
  /\ mem.head \in [Bucket -> 0 .. size]
  /\ \A p \in DOMAIN mem.entry : mem.entry[p].link \in 0 .. 2 * size

\* Entries before the writer are newer than those behind it; in each part they
\* lie in the order they were written.
Newer(m, p, q) == IF (p < m.writer) = (q < m.writer) THEN p > q ELSE p < m.writer

\* The comment at the top of cache.c, and the entries fill the two parts of the
\* ring without a gap or an overlap.
RingExact ==
  LET New == {p \in DOMAIN mem.entry : p < mem.writer}
      Old == DOMAIN mem.entry \ New
  IN
  /\ hsize <= mem.writer /\ mem.writer <= mem.oldest /\ mem.oldest <= mem.unused /\ mem.unused <= size
  /\ mem.oldest = mem.unused => mem.unused = size
  /\ \A p \in DOMAIN mem.entry :
       LET next == p + Len20(mem.entry[p])
       IN  IF p \in New THEN next \in New \union {mem.writer}
           ELSE p >= mem.oldest /\ next \in Old \union {mem.unused}
  /\ mem.writer > hsize => hsize \in New
  /\ mem.oldest < mem.unused => mem.oldest \in Old

\* Following a bucket's chain meets each entry of that bucket once, the newest
\* first, and ends: no link leads to an entry that was evicted or overwritten.
ChainsExact == \A b \in Bucket :
  LET here == {p \in DOMAIN mem.entry : KeyHash[mem.entry[p].key] = b}
      n    == Cardinality(here)
      walk == Walk(mem, b, n)
  IN  /\ {walk[i].pos : i \in 0 .. n - 1} = here
      /\ \A i \in 1 .. n - 1 : Newer(mem, walk[i - 1].pos, walk[i].pos)
      /\ walk[n].pos = 0

\* cache_get gives what was last stored for the key or nothing, never an answer
\* a later one replaced; and nothing only when that answer has been evicted,
\* has expired, or lies behind more than MaxDepth others.
GetsLatest == \A key \in Key :
  LET got   == CacheGet(key)
      mine  == {p \in DOMAIN mem.entry : mem.entry[p].key = key}
      depth(p) == Cardinality({q \in DOMAIN mem.entry :
                    KeyHash[mem.entry[q].key] = KeyHash[key] /\ Newer(mem, q, p)})
  IN  /\ got \in {Nothing, latest[key]}
      /\ got = Nothing => \/ mine = {}
                          \/ latest[key].expire < now
                          \/ \A p \in mine : depth(p) > MaxDepth

CacheSafe == RingExact /\ ChainsExact /\ GetsLatest
=============================================================================
