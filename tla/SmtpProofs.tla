------------------------------ MODULE SmtpProofs -----------------------------
(***************************************************************************)
(* Smtp for any texts, any recipients and any limit: what the blast() of   *)
(* qmail-remote sends is what the blast() of qmail-smtpd takes, byte for   *)
(* byte, and no part of it ends a message (RoundTrip); and SmtpSafe,       *)
(* wherever the connection is cut and whoever is killed.                   *)
(***************************************************************************)
EXTENDS Smtp, SequenceTheorems, WellFoundedInduction, TLAPS

Byte == {"a", ".", "r", "n"}

\* Induction over a set of naturals.
LEMMA Induct ==
  ASSUME NEW T \in SUBSET Nat, 0 \in T, \A n \in T : n + 1 \in T
  PROVE  T = Nat
<1>. DEFINE R == {ss \in Nat \X Nat : ss[1] < ss[2]}
<1>1. IsWellFoundedOn(R, Nat)  BY NatLessThanWellFounded, Zenon DEF OpToRel
<1>2. SUFFICES ASSUME Nat \ T # {} PROVE FALSE  OBVIOUS
<1>3. PICK m \in Nat \ T : \A k \in Nat \ T : <<k, m>> \notin R  BY <1>1, <1>2, WFMin, Zenon
<1>4. m # 0 /\ m \in Nat  BY <1>3
<1>5. m - 1 \in Nat /\ m - 1 < m /\ (m - 1) + 1 = m  BY <1>4
<1>6. m - 1 \in T
  <2>1. SUFFICES ASSUME m - 1 \notin T PROVE FALSE  OBVIOUS
  <2>2. <<m - 1, m>> \notin R  BY <1>3, <1>5, <2>1
  <2>. QED  BY <1>4, <1>5, <2>2
<1>. QED  BY <1>3, <1>5, <1>6

\* A function that goes through a sequence from its start: f[k] is what F makes of
\* f[k - 1] and the element k.  There is one.
Goes(F, b, w, n, f) == f[0] = b /\ \A k \in 1 .. n : f[k] = F[<<f[k - 1], w[k]>>]

LEMMA GoesExists ==
  ASSUME NEW S, NEW X, NEW b \in S, NEW F \in [S \X X -> S], NEW w \in Seq(X)
  PROVE  \E f \in [0 .. Len(w) -> S] : Goes(F, b, w, Len(w), f)
<1>. DEFINE T == {m \in Nat : m <= Len(w) => \E f \in [0 .. m -> S] : Goes(F, b, w, m, f)}
<1>1. 0 \in T
  <2>1. Goes(F, b, w, 0, [k \in 0 .. 0 |-> b])  BY DEF Goes
  <2>2. [k \in 0 .. 0 |-> b] \in [0 .. 0 -> S]  OBVIOUS
  <2>. QED  BY <2>1, <2>2
<1>2. ASSUME NEW m \in T PROVE m + 1 \in T
  <2>1. SUFFICES ASSUME m + 1 <= Len(w)
                 PROVE  \E f \in [0 .. m + 1 -> S] : Goes(F, b, w, m + 1, f)
    OBVIOUS
  <2>2. m \in Nat /\ m <= Len(w)  BY <2>1
  <2>3. PICK f \in [0 .. m -> S] : Goes(F, b, w, m, f)  BY <2>2
  <2>. DEFINE g == [k \in 0 .. m + 1 |-> IF k = m + 1 THEN F[<<f[m], w[m + 1]>>] ELSE f[k]]
  <2>4. \A k \in 0 .. m : g[k] = f[k]  BY <2>2
  <2>5. g[m + 1] = F[<<f[m], w[m + 1]>>]  BY <2>2
  <2>6. g[m + 1] \in S
    <3>1. f[m] \in S  BY <2>2, <2>3
    <3>2. w[m + 1] \in X  BY <2>1, <2>2
    <3>. QED  BY <2>5, <3>1, <3>2
  <2>7. g \in [0 .. m + 1 -> S]
    <3>1. ASSUME NEW k \in 0 .. m + 1 PROVE g[k] \in S
      <4>1. k \in 0 .. m \/ k = m + 1  BY <2>2
      <4>. QED  BY <2>3, <2>4, <2>6, <4>1
    <3>2. g = [k \in 0 .. m + 1 |-> g[k]]  OBVIOUS
    <3>. QED  BY <3>1, <3>2
  <2>. HIDE DEF g
  <2>8. ASSUME NEW k \in 1 .. m + 1 PROVE g[k] = F[<<g[k - 1], w[k]>>]
    <3>1. CASE k = m + 1
      <4>1. k - 1 = m /\ m \in 0 .. m  BY <2>2, <3>1
      <4>2. g[m] = f[m]  BY <2>4, <4>1
      <4>. QED  BY <2>5, <3>1, <4>1, <4>2
    <3>2. CASE k # m + 1
      <4>1. k \in 1 .. m /\ k \in 0 .. m /\ k - 1 \in 0 .. m  BY <2>2, <3>2
      <4>. QED  BY <2>3, <2>4, <4>1 DEF Goes
    <3>. QED  BY <3>1, <3>2
  <2>9. g[0] = b  BY <2>2, <2>3, <2>4 DEF Goes
  <2>. QED  BY <2>7, <2>8, <2>9 DEF Goes
<1>. HIDE DEF T
<1>3. T = Nat
  <2>1. T \in SUBSET Nat  BY DEF T
  <2>. QED  BY <1>1, <1>2, <2>1, Induct
<1>4. Len(w) \in T  BY <1>3
<1>. QED  BY <1>4 DEF T

\* One element more is one step more.
LEMMA GoesOn ==
  ASSUME NEW X, NEW F, NEW b, NEW w \in Seq(X), NEW x \in X, NEW f, NEW g,
         Goes(F, b, w, Len(w), f), Goes(F, b, Append(w, x), Len(w) + 1, g)
  PROVE  g[Len(w) + 1] = F[<<f[Len(w)], x>>]
<1>. DEFINE v == Append(w, x)
            n == Len(w)
<1>1. v[n + 1] = x /\ n \in Nat /\ \A k \in 1 .. n : w[k] = v[k]  OBVIOUS
<1>2. Goes(F, b, w, n, f) /\ Goes(F, b, v, n + 1, g)  OBVIOUS
<1>. HIDE DEF v, n
<1>3. \A k \in 1 .. n : g[k] = F[<<g[k - 1], w[k]>>]
  <2>1. \A k \in 1 .. n : k \in 1 .. n + 1  BY <1>1
  <2>. QED  BY <1>1, <1>2, <2>1 DEF Goes
<1>4. f[n] = g[n]
  <2>. DEFINE T == {k \in Nat : k <= n => f[k] = g[k]}
  <2>1. 0 \in T  BY <1>2 DEF Goes
  <2>2. ASSUME NEW k \in T PROVE k + 1 \in T
    <3>1. SUFFICES ASSUME k + 1 <= n PROVE f[k + 1] = g[k + 1]  OBVIOUS
    <3>2. k \in Nat /\ f[k] = g[k] /\ (k + 1) - 1 = k /\ k + 1 \in 1 .. n  BY <1>1, <3>1
    <3>3. f[k + 1] = F[<<f[(k + 1) - 1], w[k + 1]>>]  BY <1>2, <3>2 DEF Goes
    <3>4. g[k + 1] = F[<<g[(k + 1) - 1], w[k + 1]>>]  BY <1>3, <3>2
    <3>. QED  BY <3>2, <3>3, <3>4
  <2>. HIDE DEF T
  <2>3. T = Nat
    <3>1. T \in SUBSET Nat  BY DEF T
    <3>. QED  BY <2>1, <2>2, <3>1, Induct
  <2>. QED  BY <1>1, <2>3 DEF T
<1>5. n + 1 \in 1 .. n + 1 /\ (n + 1) - 1 = n  BY <1>1
<1>6. g[n + 1] = F[<<f[n], x>>]  BY <1>1, <1>2, <1>4, <1>5 DEF Goes
<1>. QED  BY <1>6 DEF n

-----------------------------------------------------------------------------
\* blast() of qmail-smtpd, byte by byte.
State == [at : 0 .. 6, text : Seq(Byte)]
Start == [at |-> 1, text |-> << >>]

LEMMA ReadType ==
  ASSUME NEW s \in State, NEW ch \in Byte
  PROVE  Read(s, ch) \in State
<1>1. s.at \in 0 .. 6 /\ s.text \in Seq(Byte) /\ s.at \in Int  BY DEF State
<1>2. CASE s.at \in {Ended, Stray}  BY <1>2 DEF Read
<1>3. CASE s.at \notin {Ended, Stray}
  <2>1. s.at \in {0, 1, 2, 3, 4}  BY <1>1, <1>3 DEF Ended, Stray
  <2>2. After(s.at, ch) \in 0 .. 6  BY <2>1 DEF After, Ended, Stray, Byte
  <2>3. Put(s.at, ch) \in Seq(Byte)
    <3>1. << >> \in Seq(Byte)  OBVIOUS
    <3>2. \A x \in Byte : <<x>> \in Seq(Byte)  OBVIOUS
    <3>3. \A x, y \in Byte : <<x, y>> \in Seq(Byte)  OBVIOUS
    <3>4. \A x, y, z \in Byte : <<x, y, z>> \in Seq(Byte)  OBVIOUS
    <3>5. "r" \in Byte /\ "." \in Byte  BY DEF Byte
    <3>. QED  BY <2>1, <3>1, <3>2, <3>3, <3>4, <3>5 DEF Put
  <2>4. s.text \o Put(s.at, ch) \in Seq(Byte)  BY <1>1, <2>3
  <2>. QED  BY <1>3, <2>2, <2>4 DEF Read, State
<1>. QED  BY <1>2, <1>3

ReadStep == [x \in State \X Byte |-> Read(x[1], x[2])]

LEMMA ReadStepType == ReadStep \in [State \X Byte -> State]
<1>1. \A x \in State \X Byte : x[1] \in State /\ x[2] \in Byte  OBVIOUS
<1>. QED  BY <1>1, ReadType DEF ReadStep

LEMMA BlastedIs ==
  ASSUME NEW w \in Seq(Byte)
  PROVE  \E f \in [0 .. Len(w) -> State] :
           Goes(ReadStep, Start, w, Len(w), f) /\ Blasted(w) = f[Len(w)]
<1>. DEFINE s == CHOOSE s : s = [k \in 0 .. Len(w) |->
                   IF k = 0 THEN [at |-> 1, text |-> << >>] ELSE Read(s[k - 1], w[k])]
            n == Len(w)
<1>1. Blasted(w) = s[n]  BY DEF Blasted
<1>2. n \in Nat  OBVIOUS
<1>3. PICK f \in [0 .. n -> State] : Goes(ReadStep, Start, w, n, f)
  <2>1. Start \in State  BY DEF Start, State
  <2>. QED  BY <2>1, ReadStepType, GoesExists
<1>4. \A k \in 1 .. n : f[k] = Read(f[k - 1], w[k])
  <2>1. \A k \in 1 .. n : f[k - 1] \in State /\ w[k] \in Byte  BY <1>2, <1>3
  <2>. QED  BY <1>3, <2>1 DEF Goes, ReadStep
<1>5. f = [k \in 0 .. n |->
             IF k = 0 THEN [at |-> 1, text |-> << >>] ELSE Read(f[k - 1], w[k])]
  <2>1. \A k \in 0 .. n : k = 0 \/ k \in 1 .. n  BY <1>2
  <2>2. \A k \in 0 .. n :
          f[k] = IF k = 0 THEN [at |-> 1, text |-> << >>] ELSE Read(f[k - 1], w[k])
    BY <1>3, <1>4, <2>1 DEF Goes, Start
  <2>3. f = [k \in 0 .. n |-> f[k]]  OBVIOUS
  <2>. QED  BY <2>2, <2>3
<1>6. s = [k \in 0 .. n |->
             IF k = 0 THEN [at |-> 1, text |-> << >>] ELSE Read(s[k - 1], w[k])]
  BY <1>5
<1>. HIDE DEF s, n
<1>7. \A k \in 0 .. n : s[k] = f[k]
  <2>. DEFINE T == {k \in Nat : k <= n => s[k] = f[k]}
  <2>1. 0 \in T  BY <1>2, <1>3, <1>6 DEF Goes, Start
  <2>2. ASSUME NEW k \in T PROVE k + 1 \in T
    <3>1. SUFFICES ASSUME k + 1 <= n PROVE s[k + 1] = f[k + 1]  OBVIOUS
    <3>2. k \in Nat /\ s[k] = f[k] /\ (k + 1) - 1 = k /\ k + 1 \in 1 .. n /\ k + 1 \in 0 .. n
          /\ k + 1 # 0
      BY <1>2, <3>1
    <3>. QED  BY <1>4, <1>6, <3>2
  <2>. HIDE DEF T
  <2>3. T = Nat
    <3>1. T \in SUBSET Nat  BY DEF T
    <3>. QED  BY <2>1, <2>2, <3>1, Induct
  <2>4. \A k \in 0 .. n : k \in T /\ k <= n  BY <1>2, <2>3
  <2>. QED  BY <2>4 DEF T
<1>8. n \in 0 .. n  BY <1>2
<1>. QED  BY <1>1, <1>3, <1>7, <1>8 DEF n

LEMMA BlastedEmpty == Blasted(<< >>) = Start
<1>1. << >> \in Seq(Byte) /\ Len(<< >>) = 0  OBVIOUS
<1>. QED  BY <1>1, BlastedIs DEF Goes

LEMMA BlastedAppend ==
  ASSUME NEW w \in Seq(Byte), NEW ch \in Byte
  PROVE  Blasted(Append(w, ch)) = Read(Blasted(w), ch) /\ Blasted(w) \in State
<1>1. Append(w, ch) \in Seq(Byte) /\ Len(Append(w, ch)) = Len(w) + 1 /\ Len(w) \in Nat  OBVIOUS
<1>2. PICK f \in [0 .. Len(w) -> State] :
             Goes(ReadStep, Start, w, Len(w), f) /\ Blasted(w) = f[Len(w)]
  BY BlastedIs
<1>3. PICK g : Goes(ReadStep, Start, Append(w, ch), Len(w) + 1, g)
               /\ Blasted(Append(w, ch)) = g[Len(w) + 1]
  BY <1>1, BlastedIs
<1>4. g[Len(w) + 1] = ReadStep[<<f[Len(w)], ch>>]  BY <1>2, <1>3, GoesOn
<1>5. f[Len(w)] \in State  BY <1>1, <1>2
<1>. QED  BY <1>2, <1>3, <1>4, <1>5 DEF ReadStep

-----------------------------------------------------------------------------
\* blast() of qmail-remote, byte by byte.
LEMMA StuffType ==
  ASSUME NEW o \in Seq(Byte), NEW ch \in Byte
  PROVE  Stuff(o, ch) \in Seq(Byte)
<1>1. << >> \in Seq(Byte) /\ <<".">> \in Seq(Byte) /\ <<"r", "n">> \in Seq(Byte) /\ <<ch>> \in Seq(Byte)
  BY DEF Byte
<1>. QED  BY <1>1 DEF Stuff

StuffStep == [x \in Seq(Byte) \X Byte |-> Stuff(x[1], x[2])]

LEMMA StuffStepType == StuffStep \in [Seq(Byte) \X Byte -> Seq(Byte)]
<1>1. \A x \in Seq(Byte) \X Byte : x[1] \in Seq(Byte) /\ x[2] \in Byte  OBVIOUS
<1>. QED  BY <1>1, StuffType DEF StuffStep

LEMMA StuffedIs ==
  ASSUME NEW t \in Seq(Byte)
  PROVE  \E f \in [0 .. Len(t) -> Seq(Byte)] :
           Goes(StuffStep, << >>, t, Len(t), f) /\ Stuffed(t) = f[Len(t)]
<1>. DEFINE o == CHOOSE o : o = [k \in 0 .. Len(t) |->
                   IF k = 0 THEN << >> ELSE Stuff(o[k - 1], t[k])]
            n == Len(t)
<1>1. Stuffed(t) = o[n]  BY DEF Stuffed
<1>2. n \in Nat  OBVIOUS
<1>3. PICK f \in [0 .. n -> Seq(Byte)] : Goes(StuffStep, << >>, t, n, f)
  <2>1. << >> \in Seq(Byte)  OBVIOUS
  <2>. QED  BY <2>1, StuffStepType, GoesExists
<1>4. \A k \in 1 .. n : f[k] = Stuff(f[k - 1], t[k])
  <2>1. \A k \in 1 .. n : f[k - 1] \in Seq(Byte) /\ t[k] \in Byte  BY <1>2, <1>3
  <2>. QED  BY <1>3, <2>1 DEF Goes, StuffStep
<1>5. f = [k \in 0 .. n |->
             IF k = 0 THEN << >> ELSE Stuff(f[k - 1], t[k])]
  <2>1. \A k \in 0 .. n : k = 0 \/ k \in 1 .. n  BY <1>2
  <2>2. \A k \in 0 .. n :
          f[k] = IF k = 0 THEN << >> ELSE Stuff(f[k - 1], t[k])
    BY <1>3, <1>4, <2>1 DEF Goes
  <2>3. f = [k \in 0 .. n |-> f[k]]  OBVIOUS
  <2>. QED  BY <2>2, <2>3
<1>6. o = [k \in 0 .. n |->
             IF k = 0 THEN << >> ELSE Stuff(o[k - 1], t[k])]
  BY <1>5
<1>. HIDE DEF o, n
<1>7. \A k \in 0 .. n : o[k] = f[k]
  <2>. DEFINE T == {k \in Nat : k <= n => o[k] = f[k]}
  <2>1. 0 \in T  BY <1>2, <1>3, <1>6 DEF Goes
  <2>2. ASSUME NEW k \in T PROVE k + 1 \in T
    <3>1. SUFFICES ASSUME k + 1 <= n PROVE o[k + 1] = f[k + 1]  OBVIOUS
    <3>2. k \in Nat /\ o[k] = f[k] /\ (k + 1) - 1 = k /\ k + 1 \in 1 .. n /\ k + 1 \in 0 .. n
          /\ k + 1 # 0
      BY <1>2, <3>1
    <3>. QED  BY <1>4, <1>6, <3>2
  <2>. HIDE DEF T
  <2>3. T = Nat
    <3>1. T \in SUBSET Nat  BY DEF T
    <3>. QED  BY <2>1, <2>2, <3>1, Induct
  <2>4. \A k \in 0 .. n : k \in T /\ k <= n  BY <1>2, <2>3
  <2>. QED  BY <2>4 DEF T
<1>8. n \in 0 .. n  BY <1>2
<1>. QED  BY <1>1, <1>3, <1>7, <1>8 DEF n

LEMMA StuffedEmpty == Stuffed(<< >>) = << >>
<1>1. << >> \in Seq(Byte) /\ Len(<< >>) = 0  OBVIOUS
<1>. QED  BY <1>1, StuffedIs DEF Goes

LEMMA StuffedAppend ==
  ASSUME NEW t \in Seq(Byte), NEW ch \in Byte
  PROVE  Stuffed(Append(t, ch)) = Stuff(Stuffed(t), ch) /\ Stuffed(t) \in Seq(Byte)
<1>1. Append(t, ch) \in Seq(Byte) /\ Len(Append(t, ch)) = Len(t) + 1 /\ Len(t) \in Nat  OBVIOUS
<1>2. PICK f \in [0 .. Len(t) -> Seq(Byte)] :
             Goes(StuffStep, << >>, t, Len(t), f) /\ Stuffed(t) = f[Len(t)]
  BY StuffedIs
<1>3. PICK g : Goes(StuffStep, << >>, Append(t, ch), Len(t) + 1, g)
               /\ Stuffed(Append(t, ch)) = g[Len(t) + 1]
  BY <1>1, StuffedIs
<1>4. g[Len(t) + 1] = StuffStep[<<f[Len(t)], ch>>]  BY <1>2, <1>3, GoesOn
<1>5. f[Len(t)] \in Seq(Byte)  BY <1>1, <1>2
<1>. QED  BY <1>2, <1>3, <1>4, <1>5 DEF StuffStep
-----------------------------------------------------------------------------
\* The two together.
LEMMA AppendEqual ==
  ASSUME NEW S, NEW s \in Seq(S), Len(s) # 0
  PROVE  \E u \in Seq(S), x \in S : s = Append(u, x) /\ Len(s) = Len(u) + 1
<1>. DEFINE n == Len(s) - 1
            u == SubSeq(s, 1, n)
<1>1. n \in Nat /\ Len(s) = n + 1 /\ \A k \in 1 .. n + 1 : s[k] \in S  OBVIOUS
<1>2. u \in Seq(S) /\ Len(u) = n /\ \A k \in 1 .. n : u[k] = s[k]
  <2>1. 1 \in Int /\ n \in Int /\ \A k \in 1 .. n : s[k] \in S  BY <1>1
  <2>2. /\ u \in Seq(S) /\ Len(u) = IF 1 <= n THEN n - 1 + 1 ELSE 0
        /\ \A k \in 1 .. n - 1 + 1 : u[k] = s[1 + k - 1]
    BY <2>1, SubSeqProperties
  <2>. HIDE DEF u, n
  <2>3. \A k \in 1 .. n : k \in 1 .. n - 1 + 1 /\ 1 + k - 1 = k  BY <1>1
  <2>4. \A k \in 1 .. n : u[k] = s[k]  BY <2>2, <2>3
  <2>. QED  BY <1>1, <2>2, <2>4
<1>3. s[n + 1] \in S  BY <1>1
<1>. HIDE DEF u, n
<1>4. /\ Append(u, s[n + 1]) \in Seq(S) /\ Len(Append(u, s[n + 1])) = n + 1
      /\ \A k \in 1 .. n : Append(u, s[n + 1])[k] = u[k]
      /\ Append(u, s[n + 1])[n + 1] = s[n + 1]
  BY <1>2, <1>3, AppendProperties
<1>5. \A k \in 1 .. Len(s) : s[k] = Append(u, s[n + 1])[k]
  <2>1. \A k \in 1 .. Len(s) : k \in 1 .. n \/ k = n + 1  BY <1>1
  <2>. QED  BY <1>2, <1>4, <2>1
<1>6. s = Append(u, s[n + 1])
  <2>1. Len(s) = Len(Append(u, s[n + 1]))  BY <1>1, <1>4
  <2>. QED  BY <1>4, <1>5, <2>1, SeqEqual
<1>. QED  BY <1>1, <1>2, <1>3, <1>6

LEMMA ConcatOne ==
  ASSUME NEW s \in Seq(Byte), NEW x \in Byte
  PROVE  s \o <<x>> = Append(s, x) /\ s \o << >> = s
  OBVIOUS

LEMMA ConcatTwo ==
  ASSUME NEW s \in Seq(Byte), NEW x \in Byte, NEW y \in Byte
  PROVE  s \o <<x, y>> = Append(Append(s, x), y)
  OBVIOUS

\* What one byte of the text adds to what goes out.
LEMMA Stuffing ==
  ASSUME NEW o \in Seq(Byte)
  PROVE  /\ \A ch \in {"a", "r"} : Stuff(o, ch) = Append(o, ch)
         /\ Stuff(o, "n") = Append(Append(o, "r"), "n")
         /\ Newline(o) => Stuff(o, ".") = Append(Append(o, "."), ".")
         /\ ~Newline(o) => Stuff(o, ".") = Append(o, ".")
<1>1. "a" \in Byte /\ "." \in Byte /\ "r" \in Byte /\ "n" \in Byte  BY DEF Byte
<1>2. ASSUME NEW ch \in {"a", "r"} PROVE Stuff(o, ch) = Append(o, ch)
  BY <1>1, ConcatOne DEF Stuff
<1>3. Stuff(o, "n") = Append(Append(o, "r"), "n")
  BY <1>1, ConcatOne, ConcatTwo DEF Stuff
<1>4. Newline(o) => Stuff(o, ".") = Append(Append(o, "."), ".")
  <2>1. o \o <<".">> = Append(o, ".") /\ Append(o, ".") \in Seq(Byte)  BY <1>1, ConcatOne
  <2>2. Append(o, ".") \o <<".">> = Append(Append(o, "."), ".")  BY <1>1, <2>1, ConcatOne
  <2>. QED  BY <2>1, <2>2 DEF Stuff
<1>5. ~Newline(o) => Stuff(o, ".") = Append(o, ".")
  BY <1>1, ConcatOne DEF Stuff
<1>. QED  BY <1>2, <1>3, <1>4, <1>5

\* Where qmail-smtpd is after a byte, and what it has put.
Reader(a, x) == [at |-> a, text |-> x]

LEMMA ReadOne ==
  ASSUME NEW x \in Seq(Byte)
  PROVE  /\ \A ch \in {"a", "."} : Read(Reader(0, x), ch) = Reader(0, Append(x, ch))
         /\ Read(Reader(0, x), "r") = Reader(4, x)
         /\ Read(Reader(1, x), "a") = Reader(0, Append(x, "a"))
         /\ Read(Reader(1, x), ".") = Reader(2, x)
         /\ Read(Reader(1, x), "r") = Reader(4, x)
         /\ Read(Reader(2, x), ".") = Reader(0, Append(x, "."))
         /\ Read(Reader(2, x), "r") = Reader(3, x)
         /\ Read(Reader(3, x), "n") = Reader(Ended, x)
         /\ \A ch \in {"a", "."} : Read(Reader(4, x), ch) = Reader(0, Append(Append(x, "r"), ch))
         /\ Read(Reader(4, x), "r") = Reader(4, Append(x, "r"))
         /\ Read(Reader(4, x), "n") = Reader(1, Append(x, "n"))
<1>1. "a" \in Byte /\ "." \in Byte /\ "r" \in Byte /\ "n" \in Byte  BY DEF Byte
<1>2. /\ x \o << >> = x /\ \A ch \in Byte : x \o <<ch>> = Append(x, ch)
      /\ \A ch \in Byte : x \o <<"r", ch>> = Append(Append(x, "r"), ch)
  BY <1>1, ConcatOne, ConcatTwo
<1>3. \A ch : Read(Reader(4, x), ch) = [at |-> After(4, ch), text |-> x \o Put(4, ch)]
  <2>1. Reader(4, x).at = 4 /\ Reader(4, x).text = x /\ 4 \notin {Ended, Stray}  BY DEF Reader, Ended, Stray
  <2>. QED  BY <2>1 DEF Read
<1>4. Read(Reader(0, x), "a") = Reader(0, Append(x, "a"))
  BY <1>1, <1>2 DEF Reader, Read, After, Put, Ended, Stray
<1>5. Read(Reader(0, x), ".") = Reader(0, Append(x, "."))
  BY <1>1, <1>2 DEF Reader, Read, After, Put, Ended, Stray
<1>6. Read(Reader(0, x), "r") = Reader(4, x)
  BY <1>1, <1>2 DEF Reader, Read, After, Put, Ended, Stray
<1>7. Read(Reader(1, x), "a") = Reader(0, Append(x, "a"))
  BY <1>1, <1>2 DEF Reader, Read, After, Put, Ended, Stray
<1>8. Read(Reader(1, x), ".") = Reader(2, x)
  BY <1>1, <1>2 DEF Reader, Read, After, Put, Ended, Stray
<1>9. Read(Reader(1, x), "r") = Reader(4, x)
  BY <1>1, <1>2 DEF Reader, Read, After, Put, Ended, Stray
<1>10. Read(Reader(2, x), ".") = Reader(0, Append(x, "."))
  BY <1>1, <1>2 DEF Reader, Read, After, Put, Ended, Stray
<1>11. Read(Reader(2, x), "r") = Reader(3, x)
  BY <1>1, <1>2 DEF Reader, Read, After, Put, Ended, Stray
<1>12. Read(Reader(3, x), "n") = Reader(Ended, x)
  BY <1>1, <1>2 DEF Reader, Read, After, Put, Ended, Stray
<1>13. Read(Reader(4, x), "a") = Reader(0, Append(Append(x, "r"), "a"))
  <2>1. After(4, "a") = 0 /\ Put(4, "a") = <<"r", "a">>  BY DEF After, Put
  <2>2. Read(Reader(4, x), "a") = [at |-> After(4, "a"), text |-> x \o Put(4, "a")]  BY <1>3
  <2>. QED  BY <1>1, <1>2, <2>1, <2>2 DEF Reader
<1>14. Read(Reader(4, x), ".") = Reader(0, Append(Append(x, "r"), "."))
  <2>1. After(4, ".") = 0 /\ Put(4, ".") = <<"r", ".">>  BY DEF After, Put
  <2>2. Read(Reader(4, x), ".") = [at |-> After(4, "."), text |-> x \o Put(4, ".")]  BY <1>3
  <2>. QED  BY <1>1, <1>2, <2>1, <2>2 DEF Reader
<1>15. Read(Reader(4, x), "r") = Reader(4, Append(x, "r"))
  <2>1. After(4, "r") = 4 /\ Put(4, "r") = <<"r">>  BY DEF After, Put
  <2>2. Read(Reader(4, x), "r") = [at |-> After(4, "r"), text |-> x \o Put(4, "r")]  BY <1>3
  <2>. QED  BY <1>1, <1>2, <2>1, <2>2 DEF Reader
<1>16. Read(Reader(4, x), "n") = Reader(1, Append(x, "n"))
  <2>1. After(4, "n") = 1 /\ Put(4, "n") = <<"n">>  BY DEF After, Put
  <2>2. Read(Reader(4, x), "n") = [at |-> After(4, "n"), text |-> x \o Put(4, "n")]  BY <1>3
  <2>. QED  BY <1>1, <1>2, <2>1, <2>2 DEF Reader
<1>. QED  BY <1>4, <1>5, <1>6, <1>7, <1>8, <1>9, <1>10, <1>11, <1>12, <1>13, <1>14, <1>15, <1>16

LEMMA Prefix ==
  ASSUME NEW w \in Seq(Byte), NEW ch \in Byte, NEW n \in 0 .. Len(w)
  PROVE  SubSeq(Append(w, ch), 1, n) = SubSeq(w, 1, n) /\ SubSeq(w, 1, n) \in Seq(Byte)
<1>1. /\ Len(w) \in Nat /\ n \in Nat /\ n <= Len(w) /\ Append(w, ch) \in Seq(Byte)
      /\ Len(Append(w, ch)) = Len(w) + 1 /\ \A k \in 1 .. n : Append(w, ch)[k] = w[k] /\ w[k] \in Byte
  OBVIOUS
<1>. QED  BY <1>1

\* No prefix of w is the end of a message.
Unended(w) == \A n \in 0 .. Len(w) : Blasted(SubSeq(w, 1, n)).at \in 0 .. 4

LEMMA UnendedAppend ==
  ASSUME NEW w \in Seq(Byte), NEW ch \in Byte, Unended(w), Blasted(Append(w, ch)).at \in 0 .. 4
  PROVE  Unended(Append(w, ch))
<1>. DEFINE v == Append(w, ch)
<1>1. v \in Seq(Byte) /\ Len(v) = Len(w) + 1 /\ Len(w) \in Nat  OBVIOUS
<1>. HIDE DEF v
<1>2. ASSUME NEW n \in 0 .. Len(v) PROVE Blasted(SubSeq(v, 1, n)).at \in 0 .. 4
  <2>1. CASE n \in 0 .. Len(w)
    <3>1. SubSeq(v, 1, n) = SubSeq(w, 1, n)  BY <2>1, Prefix DEF v
    <3>. QED  BY <2>1, <3>1 DEF Unended
  <2>2. CASE n = Len(v)
    <3>1. SubSeq(v, 1, n) = v  BY <1>1, <2>2, SubSeqFull
    <3>. QED  BY <3>1 DEF v
  <2>. QED  BY <1>1, <2>1, <2>2
<1>. QED  BY <1>2 DEF Unended, v

LEMMA NewlineAppend ==
  ASSUME NEW t \in Seq(Byte), NEW ch \in Byte
  PROVE  Newline(Append(t, ch)) <=> ch = "n"
<1>1. Append(t, ch) # << >> /\ Append(t, ch)[Len(Append(t, ch))] = ch  BY AppendProperties
<1>. QED  BY <1>1 DEF Newline

\* What qmail-smtpd has put is what qmail-remote has read, but for a carriage
\* return that may turn out to belong to the end of a line.
Echoed(t) ==
  /\ Stuffed(t) \in Seq(Byte) /\ Unended(Stuffed(t)) /\ (Newline(Stuffed(t)) <=> Newline(t))
  /\ \/ Newline(t) /\ Blasted(Stuffed(t)) = Reader(1, t)
     \/ ~Newline(t) /\ Blasted(Stuffed(t)) = Reader(0, t)
     \/ ~Newline(t) /\ \E u \in Seq(Byte) : t = Append(u, "r") /\ Blasted(Stuffed(t)) = Reader(4, u)

LEMMA Bytes == "a" \in Byte /\ "." \in Byte /\ "r" \in Byte /\ "n" \in Byte
  BY DEF Byte

LEMMA ReaderAt == \A a, x : Reader(a, x).at = a /\ Reader(a, x).text = x
  BY DEF Reader

LEMMA EchoedR ==
  ASSUME NEW t \in Seq(Byte), Echoed(t)
  PROVE  /\ Blasted(Append(Stuffed(t), "r")) = Reader(4, t)
         /\ Append(Stuffed(t), "r") \in Seq(Byte) /\ Unended(Append(Stuffed(t), "r"))
<1>. DEFINE o == Stuffed(t)
<1>1. o \in Seq(Byte) /\ Unended(o)  BY DEF Echoed
<1>. HIDE DEF o
<1>2. Blasted(Append(o, "r")) = Read(Blasted(o), "r")  BY <1>1, Bytes, BlastedAppend
<1>3. Read(Blasted(o), "r") = Reader(4, t)
  <2>1. CASE Blasted(o) = Reader(1, t)  BY <2>1, ReadOne
  <2>2. CASE Blasted(o) = Reader(0, t)  BY <2>2, ReadOne
  <2>3. ASSUME NEW u \in Seq(Byte), t = Append(u, "r"), Blasted(o) = Reader(4, u)
        PROVE  Read(Blasted(o), "r") = Reader(4, t)
    BY <2>3, ReadOne
  <2>. QED  BY <2>1, <2>2, <2>3 DEF Echoed, o
<1>4. Append(o, "r") \in Seq(Byte)  BY <1>1, Bytes
<1>5. Unended(Append(o, "r"))  BY <1>1, <1>2, <1>3, Bytes, ReaderAt, UnendedAppend
<1>. QED  BY <1>2, <1>3, <1>4, <1>5 DEF o

LEMMA EchoedAppend ==
  ASSUME NEW t \in Seq(Byte), NEW ch \in Byte, Echoed(t)
  PROVE  Echoed(Append(t, ch))
<1>. DEFINE o == Stuffed(t)
            v == Append(t, ch)
<1>1. o \in Seq(Byte) /\ Unended(o) /\ (Newline(o) <=> Newline(t))  BY DEF Echoed
<1>2. v \in Seq(Byte) /\ Stuffed(v) = Stuff(o, ch) /\ (Newline(v) <=> ch = "n")
  BY StuffedAppend, NewlineAppend
<1>. HIDE DEF o, v
<1>3. ASSUME NEW x \in {"a", "."}, ch = x, ~(x = "." /\ Newline(t)) PROVE Echoed(v)
  <2>1. Stuffed(v) = Append(o, x)  BY <1>1, <1>2, <1>3, Stuffing
  <2>2. x \in Byte /\ Blasted(Append(o, x)) = Read(Blasted(o), x)
    BY <1>1, Bytes, BlastedAppend
  <2>3. Read(Blasted(o), x) = Reader(0, v)
    <3>1. CASE Newline(t) /\ Blasted(o) = Reader(1, t)  BY <1>3, <3>1, ReadOne DEF v
    <3>2. CASE Blasted(o) = Reader(0, t)  BY <1>3, <3>2, ReadOne DEF v
    <3>3. ASSUME NEW u \in Seq(Byte), t = Append(u, "r"), Blasted(o) = Reader(4, u)
          PROVE  Read(Blasted(o), x) = Reader(0, v)
      BY <1>3, <3>3, ReadOne DEF v
    <3>. QED  BY <3>1, <3>2, <3>3 DEF Echoed, o
  <2>4. Unended(Append(o, x))  BY <1>1, <2>2, <2>3, ReaderAt, UnendedAppend
  <2>5. Append(o, x) \in Seq(Byte) /\ ~Newline(Append(o, x)) /\ ~Newline(v)
    BY <1>1, <1>2, <1>3, <2>2, NewlineAppend
  <2>. QED  BY <2>1, <2>2, <2>3, <2>4, <2>5 DEF Echoed
<1>4. ASSUME ch = ".", Newline(t) PROVE Echoed(v)
  <2>. DEFINE w == Append(o, ".")
  <2>1. Blasted(o) = Reader(1, t)  BY <1>4 DEF Echoed, o
  <2>2. w \in Seq(Byte) /\ Blasted(w) = Reader(2, t)
    BY <1>1, <2>1, Bytes, BlastedAppend, ReadOne
  <2>3. Unended(w)  BY <1>1, <2>2, Bytes, ReaderAt, UnendedAppend
  <2>4. Stuffed(v) = Append(w, ".")  BY <1>1, <1>2, <1>4, Stuffing
  <2>. HIDE DEF w
  <2>5. Append(w, ".") \in Seq(Byte) /\ Blasted(Append(w, ".")) = Reader(0, v)
    BY <1>4, <2>2, Bytes, BlastedAppend, ReadOne DEF v
  <2>6. Unended(Append(w, "."))  BY <2>2, <2>3, <2>5, Bytes, ReaderAt, UnendedAppend
  <2>7. ~Newline(Append(w, ".")) /\ ~Newline(v)  BY <1>2, <1>4, <2>2, Bytes, NewlineAppend
  <2>. QED  BY <2>4, <2>5, <2>6, <2>7 DEF Echoed
<1>5. ASSUME ch = "r" PROVE Echoed(v)
  <2>1. Stuffed(v) = Append(o, "r")  BY <1>1, <1>2, <1>5, Stuffing
  <2>2. /\ Blasted(Append(o, "r")) = Reader(4, t) /\ Append(o, "r") \in Seq(Byte)
        /\ Unended(Append(o, "r"))
    BY EchoedR DEF o
  <2>3. ~Newline(Append(o, "r")) /\ ~Newline(v)  BY <1>1, <1>2, <1>5, Bytes, NewlineAppend
  <2>4. v = Append(t, "r")  BY <1>5 DEF v
  <2>. QED  BY <2>1, <2>2, <2>3, <2>4 DEF Echoed
<1>6. ASSUME ch = "n" PROVE Echoed(v)
  <2>. DEFINE w == Append(o, "r")
  <2>1. Stuffed(v) = Append(w, "n")  BY <1>1, <1>2, <1>6, Stuffing
  <2>2. Blasted(w) = Reader(4, t) /\ w \in Seq(Byte) /\ Unended(w)  BY EchoedR DEF o
  <2>. HIDE DEF w
  <2>3. Append(w, "n") \in Seq(Byte) /\ Blasted(Append(w, "n")) = Reader(1, v)
    BY <1>6, <2>2, Bytes, BlastedAppend, ReadOne DEF v
  <2>4. Unended(Append(w, "n"))  BY <2>2, <2>3, Bytes, ReaderAt, UnendedAppend
  <2>5. Newline(Append(w, "n")) /\ Newline(v)  BY <1>2, <1>6, <2>2, Bytes, NewlineAppend
  <2>. QED  BY <2>1, <2>3, <2>4, <2>5 DEF Echoed
<1>. QED  BY <1>3, <1>4, <1>5, <1>6 DEF Byte, v

LEMMA EchoedAll == ASSUME NEW t \in Seq(Byte) PROVE Echoed(t)
<1>. DEFINE T == {n \in Nat : \A s \in Seq(Byte) : Len(s) = n => Echoed(s)}
<1>1. 0 \in T
  <2>1. Echoed(<< >>)
    <3>1. Newline(<< >>)  BY DEF Newline
    <3>2. Blasted(<< >>) = Reader(1, << >>)  BY BlastedEmpty DEF Start, Reader
    <3>3. Unended(<< >>)
      <4>1. ASSUME NEW n \in 0 .. Len(<< >>) PROVE Blasted(SubSeq(<< >>, 1, n)).at \in 0 .. 4
        <5>1. n \in Int /\ n < 1  OBVIOUS
        <5>2. SubSeq(<< >>, 1, n) = << >>  BY <5>1, SubSeqEmpty
        <5>3. Reader(1, << >>).at \in 0 .. 4  BY DEF Reader
        <5>. QED  BY <3>2, <5>2, <5>3, Zenon
      <4>. QED  BY <4>1 DEF Unended
    <3>4. << >> \in Seq(Byte)  OBVIOUS
    <3>. QED  BY <3>1, <3>2, <3>3, <3>4, StuffedEmpty DEF Echoed
  <2>2. \A s \in Seq(Byte) : Len(s) = 0 => s = << >>  OBVIOUS
  <2>. QED  BY <2>1, <2>2
<1>2. ASSUME NEW n \in T PROVE n + 1 \in T
  <2>1. SUFFICES ASSUME NEW s \in Seq(Byte), Len(s) = n + 1 PROVE Echoed(s)  OBVIOUS
  <2>2. n \in Nat /\ Len(s) # 0  BY <2>1
  <2>3. PICK u \in Seq(Byte), x \in Byte : s = Append(u, x) /\ Len(s) = Len(u) + 1
    BY <2>2, AppendEqual
  <2>4. Echoed(u)  BY <2>1, <2>2, <2>3
  <2>. QED  BY <2>3, <2>4, EchoedAppend
<1>. HIDE DEF T
<1>3. T = Nat
  <2>1. T \in SUBSET Nat  BY DEF T
  <2>. QED  BY <1>1, <1>2, <2>1, Induct
<1>4. Len(t) \in T  BY <1>3
<1>. QED  BY <1>4 DEF T

\* What blast() of qmail-smtpd takes is byte for byte what blast() of qmail-remote was
\* given, and no part of what is on its way before the last byte ends the message.
THEOREM RoundTrip ==
  ASSUME NEW t \in Seq(Byte)
  PROVE  /\ Stuffed(t) \in Seq(Byte)
         /\ \A n \in 0 .. Len(Stuffed(t)) : Blasted(SubSeq(Stuffed(t), 1, n)).at # Ended
         /\ Whole(t) => Blasted(Stuffed(t) \o Dot) = Reader(Ended, t)
         /\ Whole(t) => \A n \in 0 .. Len(Stuffed(t) \o Dot) - 1 :
                          Blasted(SubSeq(Stuffed(t) \o Dot, 1, n)).at # Ended
<1>. DEFINE o == Stuffed(t)
            w1 == Append(o, ".")
            w2 == Append(w1, "r")
            w3 == Append(w2, "n")
<1>1. o \in Seq(Byte) /\ Unended(o)  BY EchoedAll DEF Echoed
<1>2. Whole(t) => Blasted(o) = Reader(1, t)  BY EchoedAll DEF Echoed, Whole, Newline
<1>3. o \o Dot = w3
  <2>. HIDE DEF o
  <2>. QED  BY <1>1, Bytes DEF Dot
<1>. HIDE DEF o
<1>4. ASSUME NEW w, Unended(w), NEW n \in 0 .. Len(w) PROVE Blasted(SubSeq(w, 1, n)).at # Ended
  BY <1>4 DEF Unended, Ended
<1>5. ASSUME Whole(t)
      PROVE  Blasted(w3) = Reader(Ended, t) /\ Unended(w2) /\ w2 \in Seq(Byte)
  <2>1. Blasted(o) = Reader(1, t)  BY <1>2, <1>5
  <2>2. w1 \in Seq(Byte) /\ Blasted(w1) = Reader(2, t)  BY <1>1, <2>1, Bytes, BlastedAppend, ReadOne
  <2>3. Unended(w1)  BY <1>1, <2>2, Bytes, ReaderAt, UnendedAppend
  <2>. HIDE DEF w1
  <2>4. w2 \in Seq(Byte) /\ Blasted(w2) = Reader(3, t)  BY <2>2, Bytes, BlastedAppend, ReadOne
  <2>5. Unended(w2)  BY <2>2, <2>3, <2>4, Bytes, ReaderAt, UnendedAppend
  <2>. HIDE DEF w2
  <2>6. Blasted(w3) = Reader(Ended, t)  BY <2>4, Bytes, BlastedAppend, ReadOne
  <2>. QED  BY <2>4, <2>5, <2>6
<1>. HIDE DEF w2
<1>6. ASSUME Whole(t), NEW n \in 0 .. Len(w3) - 1 PROVE Blasted(SubSeq(w3, 1, n)).at # Ended
  <2>1. Len(w2) \in Nat /\ Len(w3) = Len(w2) + 1  BY <1>5, <1>6, Bytes
  <2>2. n \in 0 .. Len(w2)  BY <2>1
  <2>3. SubSeq(w3, 1, n) = SubSeq(w2, 1, n)  BY <1>5, <1>6, <2>2, Bytes, Prefix
  <2>. QED  BY <1>4, <1>5, <1>6, <2>2, <2>3
<1>. HIDE DEF w3
<1>. QED  BY <1>1, <1>3, <1>4, <1>5, <1>6 DEF o

-----------------------------------------------------------------------------
\* The inductive invariant.  Once qmail-smtpd is gone nothing in sent matters.
Alive == spc # "gone"

Verb(c) == CASE c = "helo" -> "HELO" [] c = "mail" -> "MAIL" [] c = "rcpt" -> "RCPT"
             [] c = "data" -> "DATA" [] c = "end" -> "TEXT" [] OTHER -> "none"

Msg(v, a) == [verb |-> v, arg |-> a]

\* A text on its way: no proper part of it ends the message, and if all of it does,
\* what comes out is g.
Ends(a) == Blasted(a).at = Ended
Carried(a, g) ==
  /\ a \in Seq(Byte)
  /\ \A n \in 0 .. Len(a) - 1 : ~Ends(SubSeq(a, 1, n))
  /\ Ends(a) => Whole(g) /\ Blasted(a).text = g

\* One message at a time, and none before the last one is answered.
SentOK == Alive /\ sent # << >> =>
  /\ sent = <<Msg(sent[1].verb, sent[1].arg)>> /\ replies = << >>
  /\ spc \in {"command", "text"}
  /\ cpc # "done" => cpc \notin {"greet", "blast"} /\ sent[1].verb = Verb(cpc)
  /\ cpc = "rcpt" => sent[1].arg = Rcpt[i]
  /\ sent[1].verb = "TEXT" => Carried(sent[1].arg, given)
  /\ sent[1].verb \notin {"TEXT", "QUIT"} => inTodo = << >>

RepliesOK == replies # << >> =>
  /\ replies[1] \in {2, 4, 5} /\ spc \notin {"greet", "close"}
  /\ replies = <<replies[1]>> \/ (replies = <<replies[1], 4>> /\ ~Alive)
  /\ cpc = "blast" => replies = <<4>> /\ ~Alive

\* Nothing more will be queued.
NoMore == /\ qq # "all"
          /\ Alive /\ sent # << >> /\ sent[1].verb = "TEXT" => ~Ends(sent[1].arg)

\* What the next reply tells qmail-remote.
Meaning ==
  /\ replies # << >> /\ cpc = "mail" /\ replies[1] = 2 /\ Alive => seenmail
  /\ replies # << >> /\ cpc = "rcpt" =>
       /\ replies[1] = 2 => Rcpt[i] \in rcptto
       /\ replies[1] = 5 => barf \/ Rcpt[i] \notin Good
       /\ replies[1] = 4 => ~Alive
  /\ replies # << >> /\ cpc = "end" =>
       /\ NoMore
       /\ replies[1] = 2 => inTodo # << >>
       /\ replies[1] = 4 => inTodo = << >> \/ lostExit
       /\ replies[1] = 5 => inTodo = << >>
  /\ replies = << >> /\ cpc = "end" /\ ~cut /\ spc \in {"greet", "command", "text"}
       => inTodo = << >>

\* Until qmail-remote has sent the text.
Before == cpc \notin {"end", "done"} =>
  inTodo = << >> /\ qq \notin {"all", "linked", "0"} /\ spc # "close"

\* What qmail-remote has written of its first recipient.
OutOK == cpc # "done" =>
  /\ critical <=> cpc = "end"
  /\ out \in Seq({"r", "s", "h"})
  /\ cpc \in {"greet", "helo", "mail"} => out = << >> /\ i = 1
  /\ cpc = "rcpt" => Len(out) = i - 1 /\ i <= Len(Rcpt)
  /\ cpc \in {"data", "blast", "end"} => out # << >>
  /\ out # << >> =>
       /\ out[1] = "r" => Rcpt[1] \in rcptto
       /\ out[1] = "h" => barf \/ Rcpt[1] \notin Good
       /\ out[1] = "s" => ~Alive /\ inTodo = << >> /\ qq # "all"

\* qmail-smtpd, and the qmail-queue it has started.
ServerOK ==
  /\ spc = "greet" => cpc \in {"greet", "done"}
  /\ cpc = "rcpt" /\ Alive => seenmail
  /\ spc \in {"greet", "command"} => qq = "none"
  /\ spc \in {"text", "close"} \/ qq # "none" => rcptto # {}
  /\ barf => rcptto = {}

Within(g) == Whole(g) /\ (databytes # 0 => Len(g) <= databytes)

QueueOK ==
  /\ inTodo # << >> => inTodo = <<[text |-> given, to |-> rcptto]>> /\ Within(given) /\ rcptto # {}
  /\ qq \in {"reads", "all", "temporary", "permanent"} => inTodo = << >>
  /\ qq \in {"linked", "0"} => inTodo # << >>
  /\ spc = "text" => inTodo = << >> /\ qq \notin {"none", "all"}
  /\ qq = "killed" /\ inTodo # << >> => lostExit /\ flagerr = "no"
  /\ qq \in {"all", "linked", "0"} => flagerr = "no"
  /\ qq = "all" => took = given /\ Within(given) /\ spc \in {"close", "gone"}

ForFirst == inTodo # << >> /\ Rcpt[1] \in rcptto

VerdictOK ==
  /\ verdict = "none" <=> cpc # "done"
  /\ verdict = "K" => ForFirst
  /\ verdict = "D" => /\ ~ForFirst
                      /\ \/ NoMore
                         \/ /\ barf \/ Rcpt[1] \notin Good
                            /\ Alive /\ sent # << >> => sent[1].verb \in {"TEXT", "QUIT"}
  /\ verdict = "Z" /\ ~warned => NoMore /\ (~ForFirst \/ lostExit \/ heard)

TypeInv ==
  /\ SmtpTypeOK
  /\ seenmail \in BOOLEAN /\ barf \in BOOLEAN /\ cut \in BOOLEAN /\ lostExit \in BOOLEAN
  /\ warned \in BOOLEAN /\ heard \in BOOLEAN
  /\ qq \in {"none", "reads", "all", "linked", "0", "temporary", "permanent", "killed"}

SmtpInv == /\ TypeInv /\ SentOK /\ RepliesOK /\ Meaning /\ Before /\ OutOK
           /\ ServerOK /\ QueueOK /\ VerdictOK

-----------------------------------------------------------------------------
\* What is assumed of the constants.
LEMMA Cons ==
  /\ Len(Rcpt) \in Nat /\ Len(Rcpt) >= 1
  /\ \A t \in Text : t \in Seq(Byte)
<1>1. Rcpt \in Seq({Rcpt[k] : k \in DOMAIN Rcpt}) /\ Rcpt # << >>  BY SmtpAssumption DEF SmtpAssumption
<1>2. Len(Rcpt) \in Nat /\ Len(Rcpt) # 0
  <2>. DEFINE S == {Rcpt[k] : k \in DOMAIN Rcpt}
  <2>1. Rcpt \in Seq(S)  BY <1>1
  <2>. HIDE DEF S
  <2>. QED  BY <1>1, <2>1
<1>. QED  BY <1>2, SmtpAssumption DEF SmtpAssumption, Byte

\* Sequences of one or two elements.
LEMMA Ones ==
  /\ \A x : <<x>> # << >> /\ <<x>>[1] = x /\ Head(<<x>>) = x /\ Tail(<<x>>) = << >>
  /\ \A x : Append(<< >>, x) = <<x>> /\ Len(<<x>>) = 1
  /\ \A x, y : Append(<<x>>, y) = <<x, y>> /\ <<x, y>> # << >> /\ <<x, y>>[1] = x
  /\ \A x, y : Head(<<x, y>>) = x /\ Tail(<<x, y>>) = <<y>> /\ Len(<<x, y>>) = 2
<1>1. \A x : <<x>> # << >> /\ <<x>>[1] = x /\ Head(<<x>>) = x /\ Tail(<<x>>) = << >>  OBVIOUS
<1>2. \A x : Append(<< >>, x) = <<x>> /\ Len(<<x>>) = 1  OBVIOUS
<1>3. ASSUME NEW x, NEW y PROVE Append(<<x>>, y) = <<x, y>>
  <2>. DEFINE p == Append(<<x>>, y)
  <2>1. <<x>> \in Seq({x, y}) /\ <<x, y>> \in Seq({x, y})  OBVIOUS
  <2>2. p \in Seq({x, y}) /\ Len(p) = 2  OBVIOUS
  <2>3. p[1] = x /\ p[2] = y  OBVIOUS
  <2>4. <<x, y>>[1] = x /\ <<x, y>>[2] = y /\ Len(<<x, y>>) = 2  OBVIOUS
  <2>. DEFINE q == <<x, y>>
  <2>. HIDE DEF p, q
  <2>5. \A k \in 1 .. 2 : p[k] = q[k]  BY <2>3, <2>4 DEF q
  <2>6. p = q  BY <2>1, <2>2, <2>4, <2>5, SeqEqual DEF q
  <2>. QED  BY <2>6 DEF p, q
<1>6. \A x, y : <<x, y>> # << >> /\ <<x, y>>[1] = x  OBVIOUS
<1>4. \A x, y : Head(<<x, y>>) = x /\ Len(<<x, y>>) = 2  OBVIOUS
<1>5. ASSUME NEW x, NEW y PROVE Tail(<<x, y>>) = <<y>>  OBVIOUS
<1>. QED  BY <1>1, <1>2, <1>3, <1>4, <1>5, <1>6

LEMMA Msgs ==
  /\ \A v, a : Msg(v, a).verb = v /\ Msg(v, a).arg = a
  /\ \A v, a, b : [Msg(v, a) EXCEPT !.arg = b] = Msg(v, b)
BY DEF Msg

\* The verdict on a report whose last letter is l.
LEMMA Reported ==
  ASSUME NEW o \in Seq({"r", "s", "h"}), NEW l \in {"K", "Z", "D"}
  PROVE  Report(Append(o, l)) = IF o # << >> /\ o[1] = "s" THEN "Z"
                                ELSE IF o # << >> /\ o[1] = "h" THEN "D" ELSE l
<1>. DEFINE p == Append(o, l)
<1>1. /\ Len(p) = Len(o) + 1 /\ Len(o) \in Nat /\ DOMAIN p = 1 .. Len(o) + 1
      /\ p[Len(o) + 1] = l /\ p # << >>
      /\ \A k \in 1 .. Len(o) : p[k] = o[k] /\ o[k] \in {"r", "s", "h"}
  OBVIOUS
<1>2. o # << >> => 1 \in 1 .. Len(o)  OBVIOUS
<1>3. o = << >> => p[1] = l  BY <1>1
<1>. HIDE DEF p
<1>4. Result(p) = l
  <2>. DEFINE f == {k \in DOMAIN p : p[k] \in {"K", "Z", "D"}}
  <2>1. f = {Len(o) + 1}  BY <1>1
  <2>2. (CHOOSE k \in f : \A j \in f : k <= j) = Len(o) + 1
    <3>1. \A j \in f : Len(o) + 1 <= j  BY <1>1, <2>1
    <3>. HIDE DEF f
    <3>. QED  BY <2>1, <3>1
  <2>. QED  BY <1>1, <2>1, <2>2 DEF Result
<1>5. CASE o = << >>  BY <1>1, <1>3, <1>4, <1>5 DEF Report, p
<1>6. CASE o # << >>
  <2>1. p[1] = o[1] /\ o[1] \in {"r", "s", "h"}  BY <1>1, <1>2, <1>6
  <2>. QED  BY <1>1, <1>4, <1>6, <2>1 DEF Report, p
<1>. QED  BY <1>5, <1>6

LEMMA HereIs == ASSUME SmtpInv PROVE Here <=> ForFirst
<1>1. CASE inTodo = << >>  BY <1>1 DEF Here, ForFirst
<1>2. CASE inTodo # << >>
  <2>1. inTodo = <<[text |-> given, to |-> rcptto]>>  BY <1>2 DEF SmtpInv, QueueOK
  <2>2. DOMAIN inTodo = {1} /\ inTodo[1].to = rcptto  BY <2>1
  <2>. QED  BY <1>2, <2>2 DEF Here, ForFirst
<1>. QED  BY <1>1, <1>2

\* What reading a reply takes, and what sending a message leaves.
LEMMA Replied ==
  ASSUME SmtpInv, NEW c, Code(c)
  PROVE  /\ c \in {2, 4, 5} /\ replies # << >> /\ replies[1] = c /\ spc \notin {"greet", "close"}
         /\ Alive => replies' = << >> /\ sent = << >>
         /\ replies' = << >> \/ (replies' = <<4>> /\ ~Alive)
<1>1. replies # << >> /\ Head(replies) = c /\ replies' = Tail(replies)  BY DEF Code
<1>2. /\ replies[1] \in {2, 4, 5} /\ spc \notin {"greet", "close"}
      /\ replies = <<replies[1]>> \/ (replies = <<replies[1], 4>> /\ ~Alive)
  BY <1>1 DEF SmtpInv, RepliesOK
<1>3. Alive => sent = << >>  BY <1>1 DEF SmtpInv, SentOK
<1>4. CASE replies = <<replies[1]>>
  <2>1. Head(replies) = replies[1] /\ Tail(replies) = << >>  BY <1>4, Ones, Zenon
  <2>. QED  BY <1>1, <1>2, <1>3, <2>1
<1>5. CASE replies = <<replies[1], 4>> /\ ~Alive
  <2>2. \A x : Head(<<x, 4>>) = x /\ Tail(<<x, 4>>) = <<4>>  OBVIOUS
  <2>1. Head(replies) = replies[1] /\ Tail(replies) = <<4>>  BY <1>5, <2>2, Zenon
  <2>. QED  BY <1>1, <1>2, <1>3, <1>5, <2>1
<1>. QED  BY <1>2, <1>4, <1>5

\* sent holds one message, v of a.
Only(v, a) == sent # << >> /\ sent = <<Msg(v, a)>> /\ sent[1].verb = v /\ sent[1].arg = a

LEMMA Sends ==
  ASSUME NEW v, NEW a, Send(v, a), sent = << >>
  PROVE  sent' = << >> \/ Only(v, a)'
<1>1. sent' = sent \/ sent' = Append(sent, Msg(v, a))  BY DEF Send, Msg
<1>2. CASE sent' = Append(sent, Msg(v, a))
  <2>1. sent' = <<Msg(v, a)>> /\ sent' # << >>  BY <1>2, Ones, Zenon
  <2>2. sent'[1] = Msg(v, a)  BY <2>1
  <2>3. sent'[1].verb = v /\ sent'[1].arg = a  BY <2>2 DEF Msg
  <2>. QED  BY <2>1, <2>2, <2>3 DEF Only
<1>. QED  BY <1>1, <1>2

\* qmail-remote ends.
LEMMA Done ==
  ASSUME SmtpInv, cpc # "done", cpc' = "done", i' \in 1 .. Len(Rcpt) + 1,
         critical' \in BOOLEAN, given' = given, cut' = cut,
         UNCHANGED <<serverVars, queueVars>>,
         verdict' \in {"K", "Z", "D", "crash"},
         replies' = replies \/ replies' = << >> \/ (replies' = << 4 >> /\ ~Alive
                                                    /\ spc \notin {"greet", "close"}),
         Alive => sent' = sent \/ (sent = << >> /\ replies' = << >> /\ spc # "greet" /\ spc # "close"
                                   /\ (sent' = << >> \/ Only("QUIT", 0)')),
         Alive /\ sent # << >> => replies' = << >>,
         verdict' = "K" => ForFirst,
         verdict' = "D" => ~ForFirst /\ (NoMore \/ barf \/ Rcpt[1] \notin Good)
                           /\ (~NoMore /\ Alive /\ sent # << >> => sent[1].verb \in {"TEXT", "QUIT"}),
         warned' \in BOOLEAN, heard' \in BOOLEAN,
         verdict' = "Z" /\ ~warned' => NoMore /\ (~ForFirst \/ lostExit \/ heard')
  PROVE  SmtpInv'
<1>. USE DEF SmtpInv, serverVars, queueVars
<1>1. TypeInv'  BY DEF TypeInv, SmtpTypeOK
<1>2. Alive' = Alive  BY DEF Alive
<1>3. SentOK'
  <2>1. SUFFICES ASSUME Alive, sent' # << >> PROVE SentOK'  BY <1>2 DEF SentOK
  <2>2. CASE sent' = sent
    <3>1. SentOK /\ replies' = << >>  BY <2>1, <2>2
    <3>. QED  BY <2>1, <2>2, <3>1 DEF SentOK
  <2>3. CASE Only("QUIT", 0)' /\ replies' = << >> /\ spc # "greet" /\ spc # "close"
    <3>1. spc \in {"command", "text"}  BY <2>1, <2>3 DEF Alive, TypeInv, SmtpTypeOK
    <3>2. sent' = <<Msg(sent'[1].verb, sent'[1].arg)>> /\ sent'[1].verb = "QUIT"
      BY <2>3, Zenon DEF Only
    <3>. QED  BY <2>3, <3>1, <3>2 DEF SentOK
  <2>. QED  BY <2>1, <2>2, <2>3
<1>4. RepliesOK'
  <2>1. CASE replies' = replies  BY <2>1, <1>2 DEF RepliesOK
  <2>2. CASE replies' = << >>  BY <2>2 DEF RepliesOK
  <2>3. CASE replies' = <<4>> /\ ~Alive /\ spc \notin {"greet", "close"}
    <3>1. replies'[1] = 4  BY <2>3
    <3>. QED  BY <2>3, <3>1, <1>2 DEF RepliesOK
  <2>. QED  BY <2>1, <2>2, <2>3
<1>5. Meaning' /\ Before' /\ OutOK'  BY DEF Meaning, Before, OutOK
<1>6. ServerOK' /\ QueueOK'  BY DEF ServerOK, QueueOK
<1>7. VerdictOK'
  <2>1. ForFirst' = ForFirst  BY DEF ForFirst
  <2>2. Alive /\ sent' # << >> => sent' = sent \/ sent'[1].verb = "QUIT"  BY DEF Only
  <2>3. NoMore => NoMore'  BY <1>2, <2>2 DEF NoMore
  <2>4. ASSUME verdict' = "D", ~NoMore
        PROVE  (barf \/ Rcpt[1] \notin Good)'
               /\ (Alive /\ sent' # << >> => sent'[1].verb \in {"TEXT", "QUIT"})
    BY <2>2, <2>4
  <2>. QED  BY <1>2, <2>1, <2>3, <2>4 DEF VerdictOK
<1>. QED  BY <1>1, <1>3, <1>4, <1>5, <1>6, <1>7

\* Before the text is sent nothing is queued, and nothing in sent is a text.
LEMMA Early ==
  ASSUME SmtpInv, cpc \notin {"end", "done"}
  PROVE  inTodo = << >> /\ NoMore /\ ~ForFirst
<1>1. inTodo = << >> /\ qq # "all"  BY DEF SmtpInv, Before
<1>2. Alive /\ sent # << >> => sent[1].verb = Verb(cpc)  BY DEF SmtpInv, SentOK
<1>3. cpc \in Reading \cup {"blast"}  BY DEF SmtpInv, TypeInv, SmtpTypeOK
<1>4. Verb(cpc) # "TEXT"  BY <1>3 DEF Verb, Reading
<1>. QED  BY <1>1, <1>2, <1>4 DEF NoMore, ForFirst

\* A recipient that is refused is in nothing that is queued.
LEMMA Refusal == ASSUME SmtpInv, barf \/ Rcpt[1] \notin Good PROVE ~ForFirst
<1>1. barf => rcptto = {}  BY DEF SmtpInv, ServerOK
<1>2. rcptto \subseteq Good  BY DEF SmtpInv, TypeInv, SmtpTypeOK
<1>. QED  BY <1>1, <1>2 DEF ForFirst

LEMMA EarlyEnd ==
  ASSUME SmtpInv, cpc \notin {"end", "done"}, cpc' = "done", verdict' \in {"Z", "D"},
         NEW c, Code(c), Send("QUIT", 0) \/ sent' = sent, i' \in 1 .. Len(Rcpt) + 1,
         warned' \in BOOLEAN, heard' \in BOOLEAN,
         critical' \in BOOLEAN, given' = given, cut' = cut, UNCHANGED <<serverVars, queueVars>>
  PROVE  SmtpInv'
<1>1. inTodo = << >> /\ NoMore /\ ~ForFirst  BY Early
<1>2. /\ c \in {2, 4, 5} /\ replies # << >> /\ replies[1] = c /\ spc \notin {"greet", "close"}
      /\ Alive => replies' = << >> /\ sent = << >>
      /\ replies' = << >> \/ (replies' = <<4>> /\ ~Alive)
  BY Replied
<1>3. Alive => sent' = << >> \/ Only("QUIT", 0)'
  <2>1. CASE Send("QUIT", 0)  BY <1>2, <2>1, Sends
  <2>2. CASE sent' = sent  BY <1>2, <2>2
  <2>. QED  BY <2>1, <2>2
<1>. QED  BY <1>1, <1>2, <1>3, Done

\* The verdict of a qmail-remote that ends.
LEMMA Ending ==
  ASSUME SmtpInv, cpc # "done", NEW l \in {"K", "Z", "D"}, End(l)
  PROVE  /\ cpc' = "done"
         /\ verdict' = IF out # << >> /\ out[1] = "s" THEN "Z"
                       ELSE IF out # << >> /\ out[1] = "h" THEN "D" ELSE l
<1>1. out \in Seq({"r", "s", "h"})  BY DEF SmtpInv, OutOK
<1>. QED  BY <1>1, Reported DEF End

LEMMA EarlyQuit ==
  ASSUME SmtpInv, cpc \notin {"end", "done"}, NEW l \in {"Z", "D"}, Quit(l), NEW c, Code(c),
         UNCHANGED <<i, critical, given, cut, warned, heard>>, UNCHANGED <<serverVars, queueVars>>
  PROVE  SmtpInv'
<1>1. PICK m \in {"Z", "D"} : End(m) /\ (Send("QUIT", 0) \/ sent' = sent)  BY DEF Quit
<1>2. cpc' = "done" /\ verdict' \in {"Z", "D"}
  <2>1. m \in {"K", "Z", "D"} /\ cpc # "done"  OBVIOUS
  <2>. QED  BY <1>1, <2>1, Ending
<1>3. i \in 1 .. Len(Rcpt) + 1 /\ critical \in BOOLEAN /\ warned \in BOOLEAN /\ heard \in BOOLEAN
  BY DEF SmtpInv, TypeInv, SmtpTypeOK
<1>. QED  BY <1>1, <1>2, <1>3, EarlyEnd

\* qmail-remote goes on.
LEMMA Onward ==
  ASSUME SmtpInv, NEW c, Code(c), cpc \in {"greet", "helo", "mail", "rcpt", "data"},
         cpc' \in {"helo", "mail", "rcpt", "data", "blast"}, NEW a,
         Alive => sent' = << >> \/ (cpc' # "blast" /\ Only(Verb(cpc), a)'),
         cpc' = "rcpt" => a = Rcpt[i'] /\ (Alive => seenmail),
         OutOK', i' \in 1 .. Len(Rcpt) + 1, verdict' = verdict,
         UNCHANGED <<critical, given, cut, warned, heard>>, UNCHANGED <<serverVars, queueVars>>
  PROVE  SmtpInv'
<1>. USE DEF SmtpInv, serverVars, queueVars
<1>1. TypeInv'  BY DEF TypeInv, SmtpTypeOK, Reading
<1>2. Alive' = Alive  BY DEF Alive
<1>3. inTodo = << >> /\ NoMore /\ ~ForFirst  BY Early
<1>4. /\ spc \notin {"greet", "close"}
      /\ Alive => replies' = << >> /\ sent = << >>
      /\ replies' = << >> \/ (replies' = <<4>> /\ ~Alive)
  BY Replied
<1>5. SentOK'
  <2>1. SUFFICES ASSUME Alive, sent' # << >> PROVE SentOK'  BY <1>2 DEF SentOK
  <2>2. Only(Verb(cpc), a)' /\ cpc' # "blast"  BY <2>1
  <2>3. spc \in {"command", "text"}  BY <1>4, <2>1 DEF Alive, TypeInv, SmtpTypeOK
  <2>4. /\ sent' = <<Msg(sent'[1].verb, sent'[1].arg)>>
        /\ sent'[1].verb = Verb(cpc') /\ sent'[1].arg = a
    BY <2>2 DEF Only
  <2>5. Verb(cpc') \in {"HELO", "MAIL", "RCPT", "DATA"}  BY <2>2 DEF Verb
  <2>. QED  BY <1>3, <1>4, <2>1, <2>2, <2>3, <2>4, <2>5 DEF SentOK
<1>6. RepliesOK'
  <2>1. CASE replies' = << >>  BY <2>1 DEF RepliesOK
  <2>2. CASE replies' = <<4>> /\ ~Alive
    <3>1. replies'[1] = 4  BY <2>2
    <3>. QED  BY <1>2, <1>4, <2>2, <3>1 DEF RepliesOK
  <2>. QED  BY <1>4, <2>1, <2>2
<1>7. Meaning'
  <2>1. replies' # << >> => ~Alive /\ replies'[1] = 4  BY <1>4
  <2>. QED  BY <1>2, <2>1 DEF Meaning
<1>8. Before'  BY DEF Before
<1>9. ServerOK'  BY <1>2, <1>4 DEF ServerOK
<1>10. QueueOK' /\ VerdictOK'  BY DEF QueueOK, VerdictOK
<1>. QED  BY <1>1, <1>5, <1>6, <1>7, <1>8, <1>9, <1>10

LEMMA GreetedInv ==
  ASSUME SmtpInv, Greeted, UNCHANGED <<i, critical, given, cut, warned, heard>>,
         UNCHANGED <<serverVars, queueVars>>
  PROVE  SmtpInv'
<1>1. ASSUME NEW u \in {"greet", "helo"}, cpc = u, NEW c, Code(c), UNCHANGED <<out, verdict>>,
             NEW v, v = IF u = "greet" THEN "helo" ELSE "mail", cpc' = v, Send(Verb(v), 0)
      PROVE  SmtpInv'
  <2>1. Alive => sent = << >>  BY <1>1, Replied
  <2>2. Alive => sent' = << >> \/ Only(Verb(v), 0)'  BY <1>1, <2>1, Sends
  <2>3. OutOK'  BY <1>1 DEF SmtpInv, OutOK
  <2>4. i \in 1 .. Len(Rcpt) + 1  BY DEF SmtpInv, TypeInv, SmtpTypeOK
  <2>5. cpc \in {"greet", "helo", "mail", "rcpt", "data"}
        /\ cpc' \in {"helo", "mail", "rcpt", "data", "blast"} /\ cpc' # "blast" /\ cpc' # "rcpt"
    BY <1>1
  <2>6. Alive => sent' = << >> \/ (cpc' # "blast" /\ Only(Verb(cpc), 0)')
    BY <1>1, <2>2, <2>5
  <2>. QED  BY <1>1, <2>3, <2>4, <2>5, <2>6, Onward
<1>2. CASE cpc = "greet" /\ Code(2) /\ cpc' = "helo" /\ Send("HELO", 0) /\ UNCHANGED <<out, verdict>>
  <2>1. Verb("helo") = "HELO"  BY DEF Verb
  <2>. QED  BY <1>1, <1>2, <2>1
<1>3. CASE cpc = "helo" /\ Code(2) /\ cpc' = "mail" /\ Send("MAIL", 0) /\ UNCHANGED <<out, verdict>>
  <2>1. Verb("mail") = "MAIL"  BY DEF Verb
  <2>. QED  BY <1>1, <1>3, <2>1
<1>4. CASE cpc \in {"greet", "helo"} /\ \E c \in {4, 5} : Code(c) /\ Quit("Z")
  <2>1. cpc \notin {"end", "done"}  BY <1>4
  <2>. QED  BY <1>4, <2>1, EarlyQuit
<1>. QED  BY <1>2, <1>3, <1>4 DEF Greeted

LEMMA MailAnsweredInv ==
  ASSUME SmtpInv, MailAnswered, UNCHANGED <<i, critical, given, cut, warned, heard>>,
         UNCHANGED <<serverVars, queueVars>>
  PROVE  SmtpInv'
<1>1. cpc = "mail"  BY DEF MailAnswered
<1>2. CASE \E c, l : c \in {4, 5} /\ l \in {"Z", "D"} /\ Code(c) /\ Quit(l)
  BY <1>1, <1>2, EarlyQuit
<1>3. CASE Code(2) /\ cpc' = "rcpt" /\ Send("RCPT", Rcpt[1]) /\ UNCHANGED <<out, verdict>>
  <2>1. (Alive => sent = << >>) /\ replies # << >> /\ replies[1] = 2  BY <1>3, Replied
  <2>2. Verb("rcpt") = "RCPT"  BY DEF Verb
  <2>3. Alive => sent' = << >> \/ Only(Verb("rcpt"), Rcpt[1])'  BY <1>3, <2>1, <2>2, Sends
  <2>4. i = 1 /\ out = << >> /\ ~critical  BY <1>1 DEF SmtpInv, OutOK
  <2>5. OutOK'  BY <1>3, <2>4, Cons DEF OutOK
  <2>6. Alive => seenmail  BY <1>1, <2>1 DEF SmtpInv, Meaning
  <2>7. i' \in 1 .. Len(Rcpt) + 1  BY DEF SmtpInv, TypeInv, SmtpTypeOK
  <2>8. cpc \in {"greet", "helo", "mail", "rcpt", "data"}
        /\ cpc' \in {"helo", "mail", "rcpt", "data", "blast"} /\ cpc' # "blast"
    BY <1>1, <1>3
  <2>9. Alive => sent' = << >> \/ (cpc' # "blast" /\ Only(Verb(cpc), Rcpt[1])')
    BY <1>3, <2>3, <2>8
  <2>10. Rcpt[1] = Rcpt[i']  BY <2>4
  <2>11. PICK c : Code(c)  BY <1>3, Zenon
  <2>. QED  BY <1>3, <2>5, <2>6, <2>7, <2>8, <2>9, <2>10, <2>11, Onward
<1>. QED  BY <1>2, <1>3 DEF MailAnswered

\* What qmail-remote has then written.
LEMMA Said ==
  ASSUME SmtpInv, cpc = "rcpt", NEW c, Code(c), NEW l,
         l = CASE c = 2 -> "r" [] c = 4 -> "s" [] c = 5 -> "h"
  PROVE  /\ Append(out, l) \in Seq({"r", "s", "h"}) /\ Append(out, l) # << >>
         /\ Len(Append(out, l)) = i
         /\ Append(out, l)[1] = "r" => Rcpt[1] \in rcptto
         /\ Append(out, l)[1] = "h" => barf \/ Rcpt[1] \notin Good
         /\ Append(out, l)[1] = "s" => ~Alive
<1>1. /\ out \in Seq({"r", "s", "h"}) /\ Len(out) = i - 1 /\ i \in Int
      /\ out # << >> => /\ out[1] = "r" => Rcpt[1] \in rcptto
                        /\ out[1] = "h" => barf \/ Rcpt[1] \notin Good
                        /\ out[1] = "s" => ~Alive
  BY DEF SmtpInv, OutOK, TypeInv, SmtpTypeOK
<1>2. c \in {2, 4, 5} /\ replies # << >> /\ replies[1] = c  BY Replied
<1>3. l \in {"r", "s", "h"}  BY <1>2
<1>4. /\ l = "r" => Rcpt[i] \in rcptto
      /\ l = "h" => barf \/ Rcpt[i] \notin Good
      /\ l = "s" => ~Alive
  BY <1>2 DEF SmtpInv, Meaning
<1>5. Append(out, l) \in Seq({"r", "s", "h"}) /\ Append(out, l) # << >> /\ Len(Append(out, l)) = i
  <2>1. /\ Append(out, l) \in Seq({"r", "s", "h"}) /\ Append(out, l) # << >>
        /\ Len(Append(out, l)) = Len(out) + 1
    BY <1>1, <1>3, AppendProperties
  <2>2. (i - 1) + 1 = i  BY <1>1
  <2>. QED  BY <1>1, <2>1, <2>2
<1>6. CASE out = << >>
  <2>1. i = 1  BY <1>1, <1>6
  <2>2. Append(out, l)[1] = l  BY <1>6, Ones, Zenon
  <2>. QED  BY <1>4, <1>5, <2>1, <2>2
<1>7. CASE out # << >>
  <2>1. Append(out, l)[1] = out[1]  BY <1>1, <1>3, <1>7
  <2>. QED  BY <1>1, <1>5, <1>7, <2>1
<1>. QED  BY <1>6, <1>7

LEMMA RcptAnsweredInv ==
  ASSUME SmtpInv, RcptAnswered, UNCHANGED <<critical, given, cut, warned, heard>>,
         UNCHANGED <<serverVars, queueVars>>
  PROVE  SmtpInv'
<1>12. PICK c \in {2, 4, 5} :
         LET l == CASE c = 2 -> "r" [] c = 4 -> "s" [] c = 5 -> "h" IN
         /\ Code(c) /\ i' = i + 1
         /\ \/ /\ i < Len(Rcpt)
               /\ out' = Append(out, l) /\ Send("RCPT", Rcpt[i + 1]) /\ UNCHANGED <<cpc, verdict>>
            \/ /\ i = Len(Rcpt)
               /\ out' = Append(out, l) /\ cpc' = "data" /\ Send("DATA", 0) /\ UNCHANGED verdict
            \/ /\ \A k \in DOMAIN Append(out, l) : Append(out, l)[k] # "r"
               /\ \/ out' = Append(Append(out, l), "D") /\ Send("QUIT", 0)
                  \/ out' = Append(Append(out, l), "Z") /\ UNCHANGED sent
               /\ cpc' = "done" /\ verdict' = Report(out')
  BY Zenon DEF RcptAnswered
<1>13. PICK l : l = CASE c = 2 -> "r" [] c = 4 -> "s" [] c = 5 -> "h"  OBVIOUS
<1>1. /\ c \in {2, 4, 5}
      /\ l = CASE c = 2 -> "r" [] c = 4 -> "s" [] c = 5 -> "h"
      /\ Code(c) /\ i' = i + 1
      /\ \/ /\ i < Len(Rcpt)
            /\ out' = Append(out, l) /\ Send("RCPT", Rcpt[i + 1]) /\ UNCHANGED <<cpc, verdict>>
         \/ /\ i = Len(Rcpt)
            /\ out' = Append(out, l) /\ cpc' = "data" /\ Send("DATA", 0) /\ UNCHANGED verdict
         \/ /\ \A k \in DOMAIN Append(out, l) : Append(out, l)[k] # "r"
            /\ \/ out' = Append(Append(out, l), "D") /\ Send("QUIT", 0)
               \/ out' = Append(Append(out, l), "Z") /\ UNCHANGED sent
            /\ cpc' = "done" /\ verdict' = Report(out')
  BY <1>12, <1>13
<1>. DEFINE said == Append(out, l)
<1>2. cpc = "rcpt"  BY DEF RcptAnswered
<1>3. /\ said \in Seq({"r", "s", "h"}) /\ said # << >> /\ Len(said) = i
      /\ said[1] = "r" => Rcpt[1] \in rcptto
      /\ said[1] = "h" => barf \/ Rcpt[1] \notin Good
      /\ said[1] = "s" => ~Alive
  BY <1>1, <1>2, Said
<1>4. i \in 1 .. Len(Rcpt) + 1 /\ Len(Rcpt) \in Nat /\ i <= Len(Rcpt)
      /\ critical = FALSE
  BY <1>2, Cons DEF SmtpInv, TypeInv, SmtpTypeOK, OutOK
<1>5. Alive => sent = << >> /\ seenmail  BY <1>1, <1>2, Replied DEF SmtpInv, ServerOK
<1>6. inTodo = << >> /\ NoMore  BY <1>2, Early
<1>7. i' \in 1 .. Len(Rcpt) + 1  BY <1>1, <1>4
<1>8. Verb("rcpt") = "RCPT" /\ Verb("data") = "DATA"  BY DEF Verb
<1>. HIDE DEF said
<1>9. CASE i < Len(Rcpt) /\ out' = said /\ Send("RCPT", Rcpt[i + 1]) /\ UNCHANGED <<cpc, verdict>>
  <2>1. PICK r : r = Rcpt[i + 1]  OBVIOUS
  <2>2. Alive => sent' = << >> \/ Only("RCPT", r)'  BY <1>5, <1>9, <2>1, Sends
  <2>3. OutOK'
    <3>1. Len(said) = i' - 1 /\ i' <= Len(Rcpt)  BY <1>1, <1>3, <1>4, <1>9
    <3>. QED  BY <1>2, <1>3, <1>4, <1>6, <1>9, <3>1 DEF OutOK, Alive, NoMore, serverVars, queueVars
  <2>4. r = Rcpt[i'] /\ cpc' = "rcpt"  BY <1>1, <1>2, <1>9, <2>1
  <2>5. Alive => sent' = << >> \/ (cpc' # "blast" /\ Only(Verb(cpc), r)')
    BY <1>8, <2>2, <2>4
  <2>. QED  BY <1>1, <1>2, <1>5, <1>7, <1>9, <2>3, <2>4, <2>5, Onward
<1>10. CASE out' = said /\ cpc' = "data" /\ Send("DATA", 0) /\ UNCHANGED verdict
  <2>2. Alive => sent' = << >> \/ Only("DATA", 0)'  BY <1>5, <1>10, Sends
  <2>3. OutOK'
    BY <1>3, <1>4, <1>6, <1>10 DEF OutOK, Alive, NoMore, serverVars, queueVars
  <2>4. Alive => sent' = << >> \/ (cpc' # "blast" /\ Only(Verb(cpc), 0)')
    BY <1>8, <1>10, <2>2
  <2>. QED  BY <1>1, <1>2, <1>7, <1>10, <2>3, <2>4, Onward
<1>11. CASE /\ \A k \in DOMAIN said : said[k] # "r"
            /\ \/ out' = Append(said, "D") /\ Send("QUIT", 0)
               \/ out' = Append(said, "Z") /\ UNCHANGED sent
            /\ cpc' = "done" /\ verdict' = Report(out')
  <2>1. PICK m \in {"Z", "D"} : out' = Append(said, m) /\ (Send("QUIT", 0) \/ sent' = sent)
    BY <1>11
  <2>2. m \in {"K", "Z", "D"}  OBVIOUS
  <2>3. Report(Append(said, m)) \in {"Z", "D"}  BY <1>3, <2>2, Reported
  <2>4. verdict' \in {"Z", "D"}  BY <1>11, <2>1, <2>3
  <2>5. critical' \in BOOLEAN /\ warned' \in BOOLEAN /\ heard' \in BOOLEAN
    BY <1>4 DEF SmtpInv, TypeInv
  <2>. QED  BY <1>1, <1>2, <1>7, <1>11, <2>1, <2>4, <2>5, EarlyEnd
<1>. QED  BY <1>1, <1>9, <1>10, <1>11 DEF said

LEMMA DataAnsweredInv ==
  ASSUME SmtpInv, DataAnswered, UNCHANGED <<i, critical, given, cut, warned, heard>>,
         UNCHANGED <<serverVars, queueVars>>
  PROVE  SmtpInv'
<1>1. cpc = "data"  BY DEF DataAnswered
<1>2. CASE \E c, l : c \in {4, 5} /\ l \in {"Z", "D"} /\ Code(c) /\ Quit(l)
  BY <1>1, <1>2, EarlyQuit
<1>3. CASE Code(2) /\ cpc' = "blast" /\ UNCHANGED <<sent, out, verdict>>
  <2>1. PICK c : Code(c)  BY <1>3, Zenon
  <2>2. Alive => sent' = << >>  BY <1>3, <2>1, Replied
  <2>3. OutOK'  BY <1>1, <1>3 DEF SmtpInv, OutOK, Alive, serverVars, queueVars
  <2>4. i \in 1 .. Len(Rcpt) + 1  BY DEF SmtpInv, TypeInv, SmtpTypeOK
  <2>. QED  BY <1>1, <1>3, <2>1, <2>2, <2>3, <2>4, Onward
<1>. QED  BY <1>2, <1>3 DEF DataAnswered

\* A prefix, and the prefixes of a prefix.
LEMMA Initial ==
  ASSUME NEW w \in Seq(Byte), NEW n \in 0 .. Len(w)
  PROVE  /\ SubSeq(w, 1, n) \in Seq(Byte) /\ Len(SubSeq(w, 1, n)) = n
         /\ \A m \in 0 .. n - 1 : SubSeq(SubSeq(w, 1, n), 1, m) = SubSeq(w, 1, m)
<1>1. Len(w) \in Nat /\ n \in Nat /\ n <= Len(w)  OBVIOUS
<1>2. SubSeq(w, 1, n) \in Seq(Byte) /\ Len(SubSeq(w, 1, n)) = n
      /\ \A k \in 1 .. n : SubSeq(w, 1, n)[k] = w[k]
  BY <1>1
<1>3. ASSUME NEW m \in 0 .. n - 1 PROVE SubSeq(SubSeq(w, 1, n), 1, m) = SubSeq(w, 1, m)
  <2>. DEFINE v == SubSeq(w, 1, n)
              x == SubSeq(v, 1, m)
              y == SubSeq(w, 1, m)
  <2>1. m \in Nat /\ m <= n  BY <1>1
  <2>2. y \in Seq(Byte) /\ Len(y) = m /\ \A k \in 1 .. m : y[k] = w[k]  BY <1>1, <2>1
  <2>3. v \in Seq(Byte) /\ Len(v) = n /\ \A k \in 1 .. n : v[k] = w[k]  BY <1>2
  <2>. HIDE DEF v
  <2>4. x \in Seq(Byte) /\ Len(x) = m /\ \A k \in 1 .. m : x[k] = v[k]  BY <1>1, <2>1, <2>3
  <2>. HIDE DEF x, y
  <2>5. ASSUME NEW k \in 1 .. m PROVE x[k] = y[k]
    <3>1. k \in 1 .. n  BY <1>1, <2>1
    <3>. QED  BY <2>2, <2>3, <2>4, <3>1
  <2>6. x = y  BY <2>2, <2>4, <2>5, SeqEqual
  <2>. QED  BY <2>6 DEF x, y, v
<1>. QED  BY <1>2, <1>3

LEMMA EndAnsweredInv ==
  ASSUME SmtpInv, EndAnswered, UNCHANGED <<i, given, cut>>, UNCHANGED <<serverVars, queueVars>>
  PROVE  SmtpInv'
<1>1. cpc = "end" /\ critical' = FALSE  BY DEF EndAnswered
<1>0. heard' = (Head(replies) = 2) /\ warned' = warned  BY DEF EndAnswered
<1>2. PICK c \in {2, 4, 5}, l \in {"K", "Z", "D"} :
         /\ Code(c) /\ End(l) /\ (Send("QUIT", 0) \/ sent' = sent)
         /\ c = 5 => l \in {"D", "Z"}
         /\ c = 4 => l = "Z"
         /\ c = 2 => l \in {"K", "Z"}
  BY DEF EndAnswered, Quit
<1>3. /\ replies # << >> /\ replies[1] = c /\ spc \notin {"greet", "close"}
      /\ Alive => replies' = << >> /\ sent = << >>
      /\ replies' = << >> \/ (replies' = <<4>> /\ ~Alive)
  BY <1>2, Replied
<1>4. Alive => sent' = << >> \/ Only("QUIT", 0)'
  <2>1. CASE Send("QUIT", 0)  BY <1>3, <2>1, Sends
  <2>2. CASE sent' = sent  BY <1>3, <2>2
  <2>. QED  BY <1>2, <2>1, <2>2
<1>5. cpc' = "done" /\ verdict' = IF out # << >> /\ out[1] = "s" THEN "Z"
                                  ELSE IF out # << >> /\ out[1] = "h" THEN "D" ELSE l
  BY <1>1, <1>2, Ending
<1>6. /\ NoMore
      /\ c = 2 => inTodo # << >>
      /\ c = 4 => inTodo = << >> \/ lostExit
      /\ c = 5 => inTodo = << >>
  BY <1>1, <1>3 DEF SmtpInv, Meaning
<1>7. /\ out # << >>
      /\ out[1] \in {"r", "s", "h"}
      /\ out[1] = "r" => Rcpt[1] \in rcptto
      /\ out[1] = "h" => ~ForFirst
      /\ out[1] = "s" => inTodo = << >>
  <2>1. out # << >> /\ out \in Seq({"r", "s", "h"})  BY <1>1 DEF SmtpInv, OutOK
  <2>2. out[1] \in {"r", "s", "h"}  BY <2>1
  <2>. QED  BY <1>1, <2>1, <2>2, Refusal DEF SmtpInv, OutOK
<1>8. verdict' = "K" => ForFirst  BY <1>2, <1>5, <1>6, <1>7 DEF ForFirst
<1>9. verdict' = "D" => ~ForFirst  BY <1>2, <1>5, <1>6, <1>7 DEF ForFirst
<1>10. verdict' = "Z" => ~ForFirst \/ lostExit \/ heard'
  <2>1. c = 2 => heard'  BY <1>0, <1>2 DEF Code
  <2>2. c # 2 => c = 4 \/ c = 5  BY <1>2
  <2>. QED  BY <1>6, <2>1, <2>2 DEF ForFirst
<1>11. i \in 1 .. Len(Rcpt) + 1  BY DEF SmtpInv, TypeInv, SmtpTypeOK
<1>12. verdict' \in {"K", "Z", "D"}  BY <1>2, <1>5
<1>13. cpc # "done" /\ critical' \in BOOLEAN  BY <1>1
<1>14. warned' \in BOOLEAN /\ heard' \in BOOLEAN  BY <1>0, Zenon DEF SmtpInv, TypeInv
<1>. QED  BY <1>3, <1>4, <1>5, <1>6, <1>8, <1>9, <1>10, <1>11, <1>12, <1>13, <1>14, Done

LEMMA DroppedInv == ASSUME SmtpInv, Dropped, UNCHANGED <<serverVars, queueVars>> PROVE SmtpInv'
<1>1. /\ cpc # "done" /\ End("Z") /\ warned' = critical
      /\ UNCHANGED <<i, critical, given, heard, netVars>>
  BY DEF Dropped, Reading
<1>2. cpc' = "done" /\ verdict' = IF out # << >> /\ out[1] = "s" THEN "Z"
                                  ELSE IF out # << >> /\ out[1] = "h" THEN "D" ELSE "Z"
  BY <1>1, Ending
<1>3. out # << >> /\ out[1] = "h" => barf \/ Rcpt[1] \notin Good
  BY <1>1 DEF SmtpInv, OutOK
<1>4. verdict' \in {"Z", "D"} /\ (verdict' = "D" => barf \/ Rcpt[1] \notin Good)
  BY <1>2, <1>3
<1>5. verdict' = "D" => ~ForFirst  BY <1>4, Refusal
<1>6. ~NoMore /\ Alive /\ sent # << >> => sent[1].verb \in {"TEXT", "QUIT"}
  <2>1. CASE cpc = "end"
    <3>1. Alive /\ sent # << >> => sent[1].verb = Verb(cpc)  BY <1>1 DEF SmtpInv, SentOK
    <3>2. Verb("end") = "TEXT"  BY DEF Verb
    <3>. QED  BY <2>1, <3>1, <3>2
  <2>2. CASE cpc # "end"  BY <1>1, <2>2, Early
  <2>. QED  BY <2>1, <2>2
<1>7. ~critical => NoMore /\ ~ForFirst
  <2>1. ~critical => cpc # "end"  BY <1>1 DEF SmtpInv, OutOK
  <2>. QED  BY <1>1, <2>1, Early
<1>8. i' \in 1 .. Len(Rcpt) + 1 /\ critical' \in BOOLEAN /\ critical' = critical
      /\ given' = given /\ cut' = cut /\ replies' = replies /\ sent' = sent
      /\ warned' \in BOOLEAN /\ heard' \in BOOLEAN
  BY <1>1 DEF SmtpInv, TypeInv, SmtpTypeOK, netVars
<1>9. Alive /\ sent # << >> => replies' = << >>  BY <1>8 DEF SmtpInv, SentOK
<1>. QED  BY <1>1, <1>2, <1>4, <1>5, <1>6, <1>7, <1>8, <1>9, Done

LEMMA NoMemoryInv == ASSUME SmtpInv, NoMemory, UNCHANGED <<serverVars, queueVars>> PROVE SmtpInv'
<1>1. /\ cpc # "done" /\ End("Z") /\ replies # << >>
      /\ heard' = (cpc = "end" /\ Head(replies) = 2)
      /\ UNCHANGED <<i, critical, given, warned, netVars>>
  BY DEF NoMemory, Reading
<1>2. cpc' = "done" /\ verdict' = IF out # << >> /\ out[1] = "s" THEN "Z"
                                  ELSE IF out # << >> /\ out[1] = "h" THEN "D" ELSE "Z"
  BY <1>1, Ending
<1>3. out # << >> /\ out[1] = "h" => barf \/ Rcpt[1] \notin Good
  BY <1>1 DEF SmtpInv, OutOK
<1>4. verdict' \in {"Z", "D"} /\ (verdict' = "D" => barf \/ Rcpt[1] \notin Good)
  BY <1>2, <1>3
<1>5. verdict' = "D" => ~ForFirst  BY <1>4, Refusal
<1>6. NoMore
  <2>1. CASE cpc = "end"  BY <1>1, <2>1 DEF SmtpInv, Meaning
  <2>2. CASE cpc # "end"  BY <1>1, <2>2, Early
  <2>. QED  BY <2>1, <2>2
<1>7. ~ForFirst \/ lostExit \/ heard'
  <2>1. CASE cpc = "end"
    <3>1. replies[1] \in {2, 4, 5} /\ Head(replies) = replies[1]
      BY <1>1 DEF SmtpInv, RepliesOK
    <3>2. CASE replies[1] = 2  BY <1>1, <2>1, <3>1, <3>2
    <3>3. CASE replies[1] # 2
      BY <1>1, <2>1, <3>1, <3>3 DEF SmtpInv, Meaning, ForFirst
    <3>. QED  BY <3>2, <3>3
  <2>2. CASE cpc # "end"  BY <1>1, <2>2, Early
  <2>. QED  BY <2>1, <2>2
<1>8. i' \in 1 .. Len(Rcpt) + 1 /\ critical' \in BOOLEAN
      /\ given' = given /\ cut' = cut /\ replies' = replies /\ sent' = sent
  BY <1>1 DEF SmtpInv, TypeInv, SmtpTypeOK, netVars
<1>9. warned' \in BOOLEAN /\ heard' \in BOOLEAN  BY <1>1, Zenon DEF SmtpInv, TypeInv
<1>10. Alive /\ sent # << >> => replies' = << >>  BY <1>8 DEF SmtpInv, SentOK
<1>. QED  BY <1>1, <1>2, <1>4, <1>5, <1>6, <1>7, <1>8, <1>9, <1>10, Done

LEMMA RemoteKilledInv ==
  ASSUME SmtpInv, RemoteKilled, UNCHANGED <<serverVars, queueVars>> PROVE SmtpInv'
<1>1. cpc # "done" /\ cpc' = "done" /\ verdict' = "crash"
      /\ UNCHANGED <<i, critical, given, warned, heard, netVars>>
  BY DEF RemoteKilled
<1>2. i' \in 1 .. Len(Rcpt) + 1 /\ critical' \in BOOLEAN
      /\ given' = given /\ cut' = cut /\ replies' = replies /\ sent' = sent
      /\ warned' \in BOOLEAN /\ heard' \in BOOLEAN
  BY <1>1 DEF SmtpInv, TypeInv, SmtpTypeOK, netVars
<1>3. Alive /\ sent # << >> => replies' = << >>  BY <1>2 DEF SmtpInv, SentOK
<1>. QED  BY <1>1, <1>2, <1>3, Done

\* Where qmail-remote is when it has the text to send.
LEMMA AtBlast ==
  ASSUME SmtpInv, cpc = "blast"
  PROVE  /\ inTodo = << >> /\ qq \notin {"all", "linked", "0"} /\ spc # "close" /\ spc # "greet"
         /\ Alive => sent = << >> /\ replies = << >>
         /\ replies # << >> => replies = <<4>> /\ ~Alive
BY DEF SmtpInv, Before, SentOK, RepliesOK, ServerOK

\* A text that is cut short ends nothing, and one that is whole ends it right.
LEMMA Sending ==
  ASSUME NEW t \in Seq(Byte)
  PROVE  /\ \A n \in 0 .. Len(Stuffed(t)) :
              /\ Carried(SubSeq(Stuffed(t), 1, n), t) /\ ~Ends(SubSeq(Stuffed(t), 1, n))
         /\ Whole(t) => Carried(Stuffed(t) \o Dot, t)
<1>. DEFINE o == Stuffed(t)
<1>1. /\ o \in Seq(Byte)
      /\ \A n \in 0 .. Len(o) : ~Ends(SubSeq(o, 1, n))
      /\ Whole(t) => Blasted(o \o Dot) = Reader(Ended, t)
      /\ Whole(t) => \A n \in 0 .. Len(o \o Dot) - 1 : ~Ends(SubSeq(o \o Dot, 1, n))
  BY RoundTrip DEF Ends
<1>. HIDE DEF o
<1>2. ASSUME NEW n \in 0 .. Len(o) PROVE Carried(SubSeq(o, 1, n), t) /\ ~Ends(SubSeq(o, 1, n))
  <2>1. /\ SubSeq(o, 1, n) \in Seq(Byte) /\ Len(SubSeq(o, 1, n)) = n
        /\ \A m \in 0 .. n - 1 : SubSeq(SubSeq(o, 1, n), 1, m) = SubSeq(o, 1, m)
    BY <1>1, Initial
  <2>2. \A m \in 0 .. n - 1 : m \in 0 .. Len(o)  BY <1>1
  <2>. QED  BY <1>1, <2>1, <2>2 DEF Carried
<1>3. Dot \in Seq(Byte)  BY Bytes DEF Dot
<1>4. o \o Dot \in Seq(Byte)  BY <1>1, <1>3
<1>5. ASSUME Whole(t) PROVE Carried(o \o Dot, t)
  <2>1. Blasted(o \o Dot).text = t  BY <1>1, <1>5, ReaderAt
  <2>. QED  BY <1>1, <1>4, <1>5, <2>1 DEF Carried
<1>. QED  BY <1>2, <1>5 DEF o

LEMMA BlastInv ==
  ASSUME SmtpInv, NEW t \in Text, BlastText(t), UNCHANGED <<replies, cut>>,
         UNCHANGED <<serverVars, queueVars>>
  PROVE  SmtpInv'
<1>. DEFINE a == Stuffed(t) \o Dot
<1>1. /\ cpc = "blast" /\ Whole(t) /\ given' = t /\ Send("TEXT", a)
      /\ critical' = TRUE /\ cpc' = "end" /\ UNCHANGED <<i, out, verdict, warned, heard>>
  BY DEF BlastText, Critical
<1>2. /\ inTodo = << >> /\ qq \notin {"all", "linked", "0"} /\ spc # "close" /\ spc # "greet"
      /\ Alive => sent = << >> /\ replies = << >>
      /\ replies # << >> => replies = <<4>> /\ ~Alive
  BY <1>1, AtBlast
<1>3. Carried(a, t)  BY <1>1, Cons, Sending
<1>. HIDE DEF a
<1>4. Alive => sent' = << >> \/ Only("TEXT", a)'  BY <1>1, <1>2, Sends
<1>5. Alive' = Alive  BY DEF Alive, serverVars
<1>. USE DEF SmtpInv, serverVars, queueVars
<1>6. TypeInv'  BY <1>1 DEF TypeInv, SmtpTypeOK, Reading
<1>7. SentOK'
  <2>1. SUFFICES ASSUME Alive, sent' # << >> PROVE SentOK'  BY <1>5 DEF SentOK
  <2>2. /\ sent' = <<Msg(sent'[1].verb, sent'[1].arg)>>
        /\ sent'[1].verb = "TEXT" /\ sent'[1].arg = a
    BY <1>4, <2>1 DEF Only
  <2>3. spc \in {"command", "text"}  BY <1>2, <2>1 DEF Alive, TypeInv, SmtpTypeOK
  <2>4. Verb("end") = "TEXT"  BY DEF Verb
  <2>. QED  BY <1>1, <1>2, <1>3, <2>1, <2>2, <2>3, <2>4 DEF SentOK
<1>8. RepliesOK'
  <2>1. replies # << >> => replies[1] = 4  BY <1>2
  <2>. QED  BY <1>1, <1>2, <1>5, <2>1 DEF RepliesOK
<1>9. Meaning'
  <2>1. replies # << >> => replies[1] = 4 /\ ~Alive  BY <1>2
  <2>2. ~Alive => NoMore'  BY <1>2, <1>5 DEF NoMore
  <2>. QED  BY <1>1, <1>2, <2>1, <2>2 DEF Meaning
<1>10. Before' /\ ServerOK'  BY <1>1, <1>2 DEF Before, ServerOK
<1>11. OutOK'  BY <1>1, <1>5 DEF OutOK
<1>12. QueueOK'  BY <1>1, <1>2 DEF QueueOK
<1>13. VerdictOK'  BY <1>1 DEF VerdictOK
<1>. QED  BY <1>6, <1>7, <1>8, <1>9, <1>10, <1>11, <1>12, <1>13

LEMMA BlastFailsInv ==
  ASSUME SmtpInv, NEW t \in Text, BlastFails(t), UNCHANGED <<replies, cut>>,
         UNCHANGED <<serverVars, queueVars>>
  PROVE  SmtpInv'
<1>1. PICK n \in 0 .. Len(Stuffed(t)), l \in {"Z", "D"} :
         /\ cpc = "blast" /\ given' = t /\ End(l) /\ Send("TEXT", SubSeq(Stuffed(t), 1, n))
         /\ UNCHANGED <<i, critical, warned, heard>>
  BY DEF BlastFails
<1>. DEFINE a == SubSeq(Stuffed(t), 1, n)
<1>2. /\ inTodo = << >> /\ qq \notin {"all", "linked", "0"} /\ spc # "close" /\ spc # "greet"
      /\ Alive => sent = << >> /\ replies = << >>
      /\ replies # << >> => replies = <<4>> /\ ~Alive
  BY <1>1, AtBlast
<1>3. Carried(a, t) /\ ~Ends(a)  BY <1>1, Cons, Sending
<1>4. Send("TEXT", a)  BY <1>1
<1>. HIDE DEF a
<1>5. Alive => sent' = << >> \/ Only("TEXT", a)'  BY <1>2, <1>4, Sends
<1>6. Alive' = Alive  BY DEF Alive, serverVars
<1>7. cpc' = "done" /\ verdict' \in {"Z", "D"}
  <2>1. cpc # "done" /\ l \in {"K", "Z", "D"}  BY <1>1
  <2>. QED  BY <1>1, <2>1, Ending
<1>. USE DEF SmtpInv, serverVars, queueVars
<1>8. TypeInv'  BY <1>1, <1>7 DEF TypeInv, SmtpTypeOK, Reading
<1>9. Alive /\ sent' # << >> => /\ sent' = <<Msg(sent'[1].verb, sent'[1].arg)>>
                               /\ sent'[1].verb = "TEXT" /\ sent'[1].arg = a
  BY <1>5 DEF Only
<1>10. SentOK'
  <2>1. SUFFICES ASSUME Alive, sent' # << >> PROVE SentOK'  BY <1>6 DEF SentOK
  <2>3. spc \in {"command", "text"}  BY <1>2, <2>1 DEF Alive, TypeInv, SmtpTypeOK
  <2>. QED  BY <1>1, <1>2, <1>3, <1>7, <1>9, <2>1, <2>3 DEF SentOK
<1>11. RepliesOK'
  <2>1. replies # << >> => replies[1] = 4  BY <1>2
  <2>. QED  BY <1>2, <1>6, <1>7, <2>1 DEF RepliesOK
<1>12. Meaning' /\ Before' /\ OutOK' /\ ServerOK'
  BY <1>2, <1>7 DEF Meaning, Before, OutOK, ServerOK
<1>13. QueueOK'  BY <1>2 DEF QueueOK
<1>14. NoMore'  BY <1>2, <1>3, <1>6, <1>9 DEF NoMore
<1>15. ~ForFirst'  BY <1>2 DEF ForFirst
<1>16. VerdictOK'  BY <1>7, <1>14, <1>15 DEF VerdictOK
<1>. QED  BY <1>8, <1>10, <1>11, <1>12, <1>13, <1>16

LEMMA ClientInv == ASSUME SmtpInv, ClientStep PROVE SmtpInv'
<1>1. UNCHANGED <<serverVars, queueVars>>  BY DEF ClientStep
<1>2. CASE /\ Greeted \/ MailAnswered \/ DataAnswered
           /\ UNCHANGED <<i, critical, given, cut, warned, heard>>
  BY <1>1, <1>2, GreetedInv, MailAnsweredInv, DataAnsweredInv
<1>3. CASE RcptAnswered /\ UNCHANGED <<critical, given, cut, warned, heard>>
  BY <1>1, <1>3, RcptAnsweredInv
<1>4. CASE EndAnswered /\ UNCHANGED <<i, given, cut>>  BY <1>1, <1>4, EndAnsweredInv
<1>5. CASE \E t \in Text : BlastText(t) /\ UNCHANGED <<replies, cut>>  BY <1>1, <1>5, BlastInv
<1>6. CASE \E t \in Text : BlastFails(t) /\ UNCHANGED <<replies, cut>>
  BY <1>1, <1>6, BlastFailsInv
<1>7. CASE Dropped  BY <1>1, <1>7, DroppedInv
<1>8. CASE RemoteKilled  BY <1>1, <1>8, RemoteKilledInv
<1>9. CASE NoMemory  BY <1>1, <1>9, NoMemoryInv
<1>. QED  BY <1>2, <1>3, <1>4, <1>5, <1>6, <1>7, <1>8, <1>9 DEF ClientStep

-----------------------------------------------------------------------------
\* What hearing a command takes, and what answering leaves.
LEMMA Heard ==
  ASSUME SmtpInv, NEW v, Hears(v)
  PROVE  /\ spc = "command" /\ sent # << >> /\ Head(sent) = sent[1] /\ sent[1].verb = v
         /\ sent' = << >> /\ replies = << >> /\ qq = "none"
         /\ v \notin {"TEXT", "QUIT"} => inTodo = << >>
         /\ cpc # "done" => cpc \notin {"greet", "blast"} /\ v = Verb(cpc)
<1>1. spc = "command" /\ sent # << >> /\ Head(sent).verb = v /\ sent' = Tail(sent)  BY DEF Hears
<1>2. /\ sent = <<Msg(sent[1].verb, sent[1].arg)>> /\ replies = << >>
      /\ cpc # "done" => cpc \notin {"greet", "blast"} /\ sent[1].verb = Verb(cpc)
      /\ sent[1].verb \notin {"TEXT", "QUIT"} => inTodo = << >>
  BY <1>1 DEF SmtpInv, SentOK, Alive
<1>3. Head(sent) = sent[1] /\ Tail(sent) = << >>
  <2>. DEFINE m == Msg(sent[1].verb, sent[1].arg)
  <2>1. sent = <<m>>  BY <1>2
  <2>. HIDE DEF m
  <2>2. sent[1] = m /\ Head(sent) = m /\ Tail(sent) = << >>  BY <2>1
  <2>. QED  BY <2>2
<1>4. qq = "none"  BY <1>1 DEF SmtpInv, ServerOK
<1>. QED  BY <1>1, <1>2, <1>3, <1>4

LEMMA Answers ==
  ASSUME NEW c, Answer(c), replies = << >>
  PROVE  \/ cut /\ replies' = << >>
         \/ ~cut /\ replies' = <<c>> /\ replies' # << >> /\ replies'[1] = c
<1>1. replies' = IF cut THEN replies ELSE Append(replies, c)  BY DEF Answer
<1>2. CASE ~cut
  <2>1. replies' = <<c>>  BY <1>1, <1>2, Ones
  <2>2. <<c>> # << >> /\ <<c>>[1] = c  BY Ones, Zenon
  <2>. QED  BY <1>2, <2>1, <2>2
<1>. QED  BY <1>1, <1>2

\* A command has been answered.
LEMMA Answering ==
  ASSUME SmtpInv, NEW v, Hears(v), NEW c \in {2, 4, 5}, Answer(c), spc' \notin {"greet", "close"},
         UNCHANGED clientVars
  PROVE  /\ SentOK' /\ RepliesOK' /\ sent' = << >>
         /\ replies' # << >> => ~cut /\ replies'[1] = c
         /\ replies' = << >> => cut
<1>1. /\ sent' = << >> /\ replies = << >>
      /\ cpc # "blast"
  BY Heard
<1>2. \/ cut /\ replies' = << >>
      \/ ~cut /\ replies' = <<c>> /\ replies' # << >> /\ replies'[1] = c
  BY <1>1, Answers
<1>3. SentOK'  BY <1>1 DEF SentOK
<1>4. RepliesOK'  BY <1>1, <1>2 DEF RepliesOK, clientVars
<1>. QED  BY <1>1, <1>2, <1>3, <1>4

\* What stays true of a command that qmail-smtpd hears and nothing is queued.
LEMMA Unqueued ==
  ASSUME SmtpInv, inTodo' = << >>, qq' # "all", sent' = << >>, inTodo = << >>,
         cpc' = cpc, verdict' = verdict
  PROVE  VerdictOK'
<1>1. NoMore' /\ ~ForFirst'  BY DEF NoMore, ForFirst
<1>2. verdict # "K"  BY DEF SmtpInv, VerdictOK, ForFirst
<1>. QED  BY <1>1, <1>2 DEF SmtpInv, VerdictOK

LEMMA GreetInv ==
  ASSUME SmtpInv, Greet, UNCHANGED <<clientVars, cut, verdict, inTodo, lostExit>>
  PROVE  SmtpInv'
<1>. USE DEF SmtpInv, clientVars
<1>1. /\ spc = "greet" /\ spc' = "command" /\ Answer(2)
      /\ UNCHANGED <<sent, seenmail, barf, rcptto, took, qq, flagerr>>
  BY DEF Greet
<1>2. replies = << >> /\ sent = << >> /\ qq = "none" /\ cpc \in {"greet", "done"}
  BY <1>1 DEF RepliesOK, SentOK, ServerOK, Alive
<1>3. replies' = << >> \/ (replies' = <<2>> /\ replies'[1] = 2)  BY <1>1, <1>2, Answers
<1>4. TypeInv'  BY <1>1 DEF TypeInv, SmtpTypeOK
<1>5. SentOK' /\ RepliesOK'  BY <1>1, <1>2, <1>3 DEF SentOK, RepliesOK
<1>6. Meaning' /\ Before' /\ ServerOK'  BY <1>1, <1>2 DEF Meaning, Before, ServerOK
<1>7. OutOK'  BY <1>1, <1>2 DEF OutOK
<1>8. QueueOK'  BY <1>1, <1>2 DEF QueueOK
<1>9. VerdictOK'
  <2>1. NoMore'  BY <1>1, <1>2 DEF NoMore
  <2>. QED  BY <1>1, <2>1 DEF VerdictOK, ForFirst
<1>. QED  BY <1>4, <1>5, <1>6, <1>7, <1>8, <1>9

LEMMA HeloInv ==
  ASSUME SmtpInv, Helo, UNCHANGED <<clientVars, cut, verdict, inTodo, lostExit>>
  PROVE  SmtpInv'
<1>1. /\ Hears("HELO") /\ Answer(2) /\ seenmail' = FALSE
      /\ UNCHANGED <<spc, barf, rcptto, took, qq, flagerr>>
  BY DEF Helo
<1>2. /\ spc = "command" /\ sent' = << >> /\ qq = "none" /\ inTodo = << >>
      /\ cpc # "done" => "HELO" = Verb(cpc)
  BY <1>1, Heard
<1>3. cpc \in {"helo", "done"}  BY <1>2 DEF Verb
<1>0. spc' \notin {"greet", "close"} /\ UNCHANGED clientVars  BY <1>1, <1>2
<1>4. SentOK' /\ RepliesOK'  BY <1>1, <1>2, <1>0, Answering
<1>. USE DEF SmtpInv, clientVars
<1>5. TypeInv'
  <2>1. SmtpTypeOK' /\ (cut \in BOOLEAN)' /\ (lostExit \in BOOLEAN)'
    BY <1>1 DEF TypeInv, SmtpTypeOK
  <2>2. seenmail' \in BOOLEAN  BY <1>1, Zenon DEF TypeInv
  <2>3. barf' \in BOOLEAN  BY <1>1, Zenon DEF TypeInv
  <2>. QED  BY <1>1, <2>1, <2>2, <2>3 DEF TypeInv
<1>6. Meaning' /\ Before' /\ ServerOK'  BY <1>1, <1>2, <1>3 DEF Meaning, Before, ServerOK
<1>7. OutOK'  BY <1>1, <1>2, <1>3 DEF OutOK
<1>8. QueueOK'  BY <1>1, <1>2 DEF QueueOK
<1>9. VerdictOK'  BY <1>1, <1>2, Unqueued
<1>. QED  BY <1>4, <1>5, <1>6, <1>7, <1>8, <1>9

LEMMA MailFromInv ==
  ASSUME SmtpInv, MailFrom, UNCHANGED <<clientVars, cut, verdict, inTodo, lostExit>>
  PROVE  SmtpInv'
<1>1. PICK c \in {2, 5} :
        /\ Hears("MAIL") /\ Answer(c)
        /\ \/ c = 5 /\ UNCHANGED <<seenmail, barf, rcptto>>
           \/ c = 2 /\ seenmail' = TRUE /\ rcptto' = {} /\ barf' \in BOOLEAN
        /\ UNCHANGED <<spc, took, qq, flagerr>>
  BY DEF MailFrom
<1>2. /\ spc = "command" /\ sent' = << >> /\ qq = "none" /\ inTodo = << >>
      /\ cpc # "done" => "MAIL" = Verb(cpc)
  BY <1>1, Heard
<1>3. cpc \in {"mail", "done"}  BY <1>2 DEF Verb
<1>0. spc' \notin {"greet", "close"} /\ UNCHANGED clientVars  BY <1>1, <1>2
<1>4. SentOK' /\ RepliesOK' /\ (replies' # << >> => replies'[1] = c)
  BY <1>1, <1>2, <1>0, Answering
<1>. USE DEF SmtpInv, clientVars
<1>5. TypeInv'
  <2>1. SmtpTypeOK' /\ (cut \in BOOLEAN)' /\ (lostExit \in BOOLEAN)'
    BY <1>1 DEF TypeInv, SmtpTypeOK
  <2>2. seenmail' \in BOOLEAN  BY <1>1, Zenon DEF TypeInv
  <2>3. barf' \in BOOLEAN  BY <1>1, Zenon DEF TypeInv
  <2>. QED  BY <1>1, <2>1, <2>2, <2>3 DEF TypeInv
<1>6. Meaning'  BY <1>1, <1>2, <1>3, <1>4 DEF Meaning
<1>7. Before' /\ ServerOK'  BY <1>1, <1>2, <1>3 DEF Before, ServerOK
<1>8. OutOK'  BY <1>1, <1>2, <1>3 DEF OutOK
<1>9. QueueOK'  BY <1>1, <1>2 DEF QueueOK
<1>10. VerdictOK'  BY <1>1, <1>2, Unqueued
<1>. QED  BY <1>4, <1>5, <1>6, <1>7, <1>8, <1>9, <1>10

LEMMA RcptToInv ==
  ASSUME SmtpInv, RcptTo, UNCHANGED <<clientVars, cut, verdict, inTodo, lostExit>>
  PROVE  SmtpInv'
<1>1. PICK c \in {2, 5}, r \in {Head(sent).arg} :
        /\ Hears("RCPT") /\ Answer(c) /\ r = Head(sent).arg
        /\ \/ c = 5 /\ Refused(r) /\ UNCHANGED rcptto
           \/ c = 2 /\ ~Refused(r) /\ rcptto' = rcptto \cup {r}
        /\ UNCHANGED <<spc, seenmail, barf, took, qq, flagerr>>
  BY DEF RcptTo
<1>2. /\ spc = "command" /\ sent # << >> /\ sent' = << >> /\ qq = "none" /\ inTodo = << >>
      /\ r = sent[1].arg
      /\ cpc # "done" => "RCPT" = Verb(cpc)
  BY <1>1, Heard
<1>3. cpc \in {"rcpt", "done"}  BY <1>2 DEF Verb
<1>0. spc' \notin {"greet", "close"} /\ UNCHANGED clientVars  BY <1>1, <1>2
<1>4. SentOK' /\ RepliesOK' /\ (replies' # << >> => replies'[1] = c)
  BY <1>1, <1>2, <1>0, Answering
<1>. USE DEF SmtpInv, clientVars
<1>5. TypeInv'  BY <1>1 DEF TypeInv, SmtpTypeOK, Refused
<1>6. cpc = "rcpt" => r = Rcpt[i] /\ seenmail  BY <1>2 DEF SentOK, ServerOK, Alive
<1>7. /\ c = 2 => r \in rcptto'
      /\ c = 5 /\ cpc = "rcpt" => barf \/ r \notin Good
  BY <1>1, <1>6 DEF Refused
<1>8. Meaning'
  <2>1. replies' # << >> /\ cpc' = "rcpt" =>
          /\ replies'[1] = 2 => Rcpt[i'] \in rcptto'
          /\ replies'[1] = 5 => barf' \/ Rcpt[i'] \notin Good
          /\ replies'[1] # 4
    BY <1>1, <1>4, <1>6, <1>7
  <2>. QED  BY <1>3, <2>1 DEF Meaning
<1>9. Before' /\ ServerOK'
  <2>1. c = 2 => ~barf  BY <1>1 DEF Refused
  <2>2. barf => rcptto = {}  BY DEF ServerOK
  <2>3. barf' => rcptto' = {}  BY <1>1, <2>1, <2>2
  <2>4. cpc = "rcpt" /\ Alive' => seenmail'  BY <1>1, <1>6
  <2>. QED  BY <1>1, <1>2, <1>3, <2>3, <2>4 DEF Before, ServerOK
<1>10. OutOK'  BY <1>1, <1>2, <1>3 DEF OutOK, Alive
<1>11. QueueOK'  BY <1>1, <1>2 DEF QueueOK
<1>12. VerdictOK'  BY <1>1, <1>2, Unqueued
<1>. QED  BY <1>4, <1>5, <1>8, <1>9, <1>10, <1>11, <1>12

LEMMA DataBeginsInv ==
  ASSUME SmtpInv, DataBegins, UNCHANGED <<clientVars, cut, verdict, inTodo, lostExit>>
  PROVE  SmtpInv'
<1>1. PICK c \in {2, 4} :
        /\ Hears("DATA") /\ Answer(c) /\ rcptto # {} /\ seenmail' = FALSE
        /\ \/ UNCHANGED <<spc, qq, flagerr>>
           \/ spc' = "text" /\ qq' = "reads" /\ flagerr' = "no"
        /\ UNCHANGED <<barf, rcptto, took>>
  BY DEF DataBegins
<1>2. /\ spc = "command" /\ sent' = << >> /\ qq = "none" /\ inTodo = << >>
      /\ cpc # "done" => "DATA" = Verb(cpc)
  BY <1>1, Heard
<1>3. cpc \in {"data", "done"}  BY <1>2 DEF Verb
<1>0. spc' \notin {"greet", "close"} /\ UNCHANGED clientVars  BY <1>1, <1>2
<1>4. SentOK' /\ RepliesOK'  BY <1>1, <1>2, <1>0, Answering
<1>. USE DEF SmtpInv, clientVars
<1>5. TypeInv'
  <2>1. SmtpTypeOK' /\ (cut \in BOOLEAN)' /\ (lostExit \in BOOLEAN)'
    BY <1>1 DEF TypeInv, SmtpTypeOK
  <2>2. seenmail' \in BOOLEAN  BY <1>1, Zenon DEF TypeInv
  <2>3. barf' \in BOOLEAN  BY <1>1, Zenon DEF TypeInv
  <2>. QED  BY <1>1, <2>1, <2>2, <2>3 DEF TypeInv
<1>6. Meaning' /\ Before' /\ ServerOK'  BY <1>1, <1>2, <1>3 DEF Meaning, Before, ServerOK
<1>7. OutOK'  BY <1>1, <1>2, <1>3 DEF OutOK, Alive
<1>8. QueueOK'  BY <1>1, <1>2 DEF QueueOK
<1>9. VerdictOK'
  <2>1. qq' # "all"  BY <1>1, <1>2
  <2>. QED  BY <1>1, <1>2, <2>1, Unqueued
<1>. QED  BY <1>4, <1>5, <1>6, <1>7, <1>8, <1>9

LEMMA TellsInv ==
  ASSUME SmtpInv, Tells, UNCHANGED <<clientVars, cut, verdict, inTodo, lostExit>>
  PROVE  SmtpInv'
<1>1. /\ Hears("QUIT") /\ spc' = "gone" /\ Answer(2)
      /\ UNCHANGED <<seenmail, barf, rcptto, took, qq, flagerr>>
  BY DEF Tells
<1>2. /\ spc = "command" /\ sent' = << >> /\ qq = "none"
      /\ cpc # "done" => "QUIT" = Verb(cpc)
  BY <1>1, Heard
<1>3. cpc = "done"  BY <1>2 DEF Verb
<1>0. spc' \notin {"greet", "close"} /\ UNCHANGED clientVars  BY <1>1, <1>2
<1>4. SentOK' /\ RepliesOK'  BY <1>1, <1>2, <1>0, Answering
<1>. USE DEF SmtpInv, clientVars
<1>5. TypeInv'  BY <1>1 DEF TypeInv, SmtpTypeOK
<1>6. Meaning' /\ Before' /\ ServerOK' /\ OutOK'
  BY <1>1, <1>2, <1>3 DEF Meaning, Before, ServerOK, OutOK
<1>7. QueueOK'  BY <1>1, <1>2 DEF QueueOK
<1>8. VerdictOK'
  <2>1. NoMore'  BY <1>1, <1>2 DEF NoMore
  <2>. QED  BY <1>1, <2>1 DEF VerdictOK, ForFirst
<1>. QED  BY <1>4, <1>5, <1>6, <1>7, <1>8

LEMMA TextEndsInv ==
  ASSUME SmtpInv, TextEnds, UNCHANGED <<clientVars, cut, verdict, inTodo, lostExit>>
  PROVE  SmtpInv'
<1>1. /\ spc = "text" /\ sent # << >> /\ Head(sent).verb = "TEXT"
      /\ Blasted(Head(sent).arg).at = Ended /\ took' = Blasted(Head(sent).arg).text
      /\ sent' = Tail(sent) /\ spc' = "close"
      /\ flagerr' \in {"no", "limit", "write"} /\ (flagerr' = "no" => ~Overflow(took'))
      /\ qq' = IF flagerr' = "no" /\ qq = "reads" THEN "all" ELSE qq
      /\ UNCHANGED <<replies, seenmail, barf, rcptto>>
  BY DEF TextEnds
<1>2. /\ Head(sent) = sent[1] /\ Tail(sent) = << >> /\ replies = << >>
      /\ cpc # "done" => cpc \notin {"greet", "blast"} /\ sent[1].verb = Verb(cpc)
      /\ sent[1].verb = "TEXT" => Carried(sent[1].arg, given)
  <2>. DEFINE m == Msg(sent[1].verb, sent[1].arg)
  <2>1. sent = <<m>> /\ SentOK /\ Alive  BY <1>1 DEF SmtpInv, SentOK, Alive
  <2>2. sent # << >> /\ SentOK /\ Alive  BY <1>1, <2>1
  <2>3. /\ replies = << >>
        /\ cpc # "done" => cpc \notin {"greet", "blast"} /\ sent[1].verb = Verb(cpc)
        /\ sent[1].verb = "TEXT" => Carried(sent[1].arg, given)
    BY <2>2 DEF SentOK
  <2>. HIDE DEF m
  <2>4. sent[1] = m /\ Head(sent) = m /\ Tail(sent) = << >>  BY <2>1
  <2>. QED  BY <2>3, <2>4
<1>3. sent[1].verb = "TEXT" /\ Ends(sent[1].arg) /\ sent' = << >>  BY <1>1, <1>2 DEF Ends
<1>4. Whole(given) /\ took' = given  BY <1>1, <1>2, <1>3 DEF Carried
<1>5. cpc \in {"end", "done"}
  <2>1. cpc # "done" => Verb(cpc) = "TEXT"  BY <1>2, <1>3
  <2>. QED  BY <2>1 DEF Verb
<1>6. ~NoMore  BY <1>1, <1>3 DEF NoMore, Alive
<1>7. flagerr' = "no" => Within(given)
  <2>0. << >> \in Seq(Byte)  OBVIOUS
  <2>1. given \in Seq(Byte)  BY <2>0, Cons DEF SmtpInv, TypeInv, SmtpTypeOK
  <2>2. Len(given) \in Nat /\ databytes \in Nat  BY <2>1, SmtpAssumption DEF SmtpAssumption
  <2>3. flagerr' = "no" => ~Overflow(given)  BY <1>1, <1>4
  <2>. QED  BY <1>4, <2>2, <2>3 DEF Within, Overflow
<1>. USE DEF SmtpInv, clientVars
<1>8. inTodo = << >> /\ qq \notin {"none", "all"}  BY <1>1 DEF QueueOK
<1>9. TypeInv'
  <2>1. SmtpTypeOK'  BY <1>1 DEF TypeInv, SmtpTypeOK
  <2>. QED  BY <1>1, <2>1 DEF TypeInv
<1>10. SentOK' /\ RepliesOK'  BY <1>1, <1>2, <1>3 DEF SentOK, RepliesOK
<1>11. Meaning' /\ Before'  BY <1>1, <1>2, <1>5 DEF Meaning, Before
<1>12. OutOK'  BY <1>1, <1>5 DEF OutOK, Alive
<1>13. ServerOK'  BY <1>1, <1>5 DEF ServerOK
<1>14. QueueOK'  BY <1>1, <1>4, <1>7, <1>8 DEF QueueOK
<1>15. VerdictOK'
  <2>1. ~ForFirst /\ ~ForFirst'  BY <1>8 DEF ForFirst
  <2>2. verdict # "K" /\ (verdict = "Z" => warned)
        /\ (verdict = "D" => barf \/ Rcpt[1] \notin Good)
    BY <1>6, <2>1 DEF VerdictOK
  <2>. QED  BY <1>1, <1>3, <2>1, <2>2 DEF VerdictOK
<1>. QED  BY <1>9, <1>10, <1>11, <1>12, <1>13, <1>14, <1>15

\* qmail-smtpd is gone, with its last reply or without.
LEMMA Gone ==
  ASSUME SmtpInv, Alive, spc' = "gone", UNCHANGED <<clientVars, cut, verdict, inTodo, lostExit>>,
         UNCHANGED <<seenmail, barf, rcptto, took, qq, flagerr>>,
         \/ replies' = replies
         \/ ~cut /\ spc # "close" /\ replies = << >> /\ replies' = << 4 >>
         \/ spc # "close" /\ replies = <<replies[1]>> /\ replies # << >>
            /\ replies' = <<replies[1], 4>>
  PROVE  SmtpInv'
<1>. USE DEF SmtpInv, clientVars
<1>1. ~Alive'  BY DEF Alive
<1>2. TypeInv'
  <2>1. SmtpTypeOK'  BY DEF TypeInv, SmtpTypeOK
  <2>. QED  BY <2>1 DEF TypeInv
<1>3. SentOK'  BY <1>1 DEF SentOK
<1>4. \/ replies' # << >> /\ replies # << >> /\ replies'[1] = replies[1]
      \/ replies' = << >> /\ replies = << >>
      \/ ~cut /\ spc \in {"greet", "command", "text"} /\ replies = << >>
         /\ replies' = <<4>> /\ replies' # << >> /\ replies'[1] = 4
  BY DEF Alive, TypeInv, SmtpTypeOK
<1>5. RepliesOK'
  <2>1. CASE replies' = replies
    BY <1>1, <2>1 DEF RepliesOK, Alive
  <2>2. CASE replies' = <<4>> /\ replies'[1] = 4  BY <1>1, <2>2 DEF RepliesOK
  <2>3. CASE replies # << >> /\ replies' = <<replies[1], 4>>
    <3>1. replies'[1] = replies[1] /\ cpc # "blast"  BY <2>3 DEF RepliesOK, Alive
    <3>2. replies[1] \in {2, 4, 5}  BY <2>3 DEF RepliesOK
    <3>. QED  BY <1>1, <2>3, <3>1, <3>2 DEF RepliesOK
  <2>. QED  BY <1>4, <2>1, <2>2, <2>3
<1>6. replies # << >> => spc # "close"  BY DEF RepliesOK
<1>7. NoMore => NoMore'  BY <1>1 DEF NoMore
<1>8. Meaning'
  <2>1. CASE replies' # << >> /\ replies # << >> /\ replies'[1] = replies[1]
    BY <1>1, <1>7, <2>1 DEF Meaning
  <2>2. CASE replies' = << >>  BY <2>2 DEF Meaning
  <2>3. CASE /\ ~cut /\ spc \in {"greet", "command", "text"} /\ replies = << >>
             /\ replies'[1] = 4
    <3>1. cpc = "end" => inTodo = << >>  BY <2>3 DEF Meaning
    <3>2. qq # "all"  BY <2>3 DEF ServerOK, QueueOK
    <3>3. NoMore'  BY <1>1, <3>2 DEF NoMore
    <3>. QED  BY <1>1, <2>3, <3>1, <3>3 DEF Meaning
  <2>. QED  BY <1>4, <2>1, <2>2, <2>3
<1>9. Before'  BY DEF Before
<1>10. OutOK'  BY <1>1 DEF OutOK
<1>11. ServerOK'  BY <1>1 DEF ServerOK
<1>12. QueueOK'  BY <1>1 DEF QueueOK
<1>13. VerdictOK'  BY <1>1, <1>7 DEF VerdictOK, ForFirst
<1>. QED  BY <1>2, <1>3, <1>5, <1>8, <1>9, <1>10, <1>11, <1>12, <1>13

LEMMA ServerGoneInv ==
  ASSUME SmtpInv, ServerEof \/ ServerDies, UNCHANGED <<clientVars, cut, verdict, inTodo, lostExit>>
  PROVE  SmtpInv'
<1>1. /\ Alive /\ spc' = "gone" /\ UNCHANGED <<seenmail, barf, rcptto, took, qq, flagerr>>
      /\ (spc # "close" /\ Answer(4)) \/ UNCHANGED replies
  BY DEF ServerEof, ServerDies, Alive
<1>2. CASE UNCHANGED replies  BY <1>1, <1>2, Gone
<1>3. CASE spc # "close" /\ Answer(4) /\ ~cut
  <2>1. replies' = Append(replies, 4)  BY <1>3 DEF Answer
  <2>2. CASE replies = << >>
    <3>1. replies' = <<4>>  BY <2>1, <2>2
    <3>. QED  BY <1>1, <1>3, <2>2, <3>1, Gone
  <2>3. CASE replies # << >>
    <3>1. replies = <<replies[1]>>  BY <1>1, <2>3 DEF SmtpInv, RepliesOK
    <3>2. \A x : Append(<<x>>, 4) = <<x, 4>>  BY Ones, Zenon
    <3>3. replies' = <<replies[1], 4>>  BY <2>1, <3>1, <3>2, Zenon
    <3>. QED  BY <1>1, <1>3, <2>3, <3>1, <3>3, Gone
  <2>. QED  BY <2>2, <2>3
<1>4. CASE Answer(4) /\ cut  BY <1>1, <1>2, <1>4 DEF Answer
<1>. QED  BY <1>1, <1>2, <1>3, <1>4

LEMMA ClosedInv ==
  ASSUME SmtpInv, NEW w \in {"0", "temporary", "permanent", "killed"}, Closed(w),
         UNCHANGED <<clientVars, cut, verdict, inTodo, lostExit>>
  PROVE  SmtpInv'
<1>1. PICK c \in {2, 4, 5} :
        /\ spc = "close" /\ qq = w /\ spc' = "command" /\ qq' = "none" /\ Answer(c)
        /\ c = 2 => w = "0" /\ flagerr = "no"
        /\ c = 5 => flagerr = "limit" \/ w = "permanent"
        /\ c = 4 => w # "permanent" /\ flagerr # "limit" /\ (w = "0" => flagerr # "no")
        /\ UNCHANGED <<sent, seenmail, barf, rcptto, took, flagerr>>
  BY DEF Closed
<1>2. sent = << >> /\ replies = << >> /\ Alive  BY <1>1 DEF SmtpInv, SentOK, RepliesOK, Alive
<1>3. \/ cut /\ replies' = << >>
      \/ ~cut /\ replies' = <<c>> /\ replies' # << >> /\ replies'[1] = c
  BY <1>1, <1>2, Answers
<1>. USE DEF SmtpInv, clientVars
<1>4. cpc \in {"end", "done"}  BY <1>1 DEF Before
<1>5. /\ c = 2 => inTodo # << >>
      /\ c = 4 => inTodo = << >> \/ lostExit
      /\ c = 5 => inTodo = << >>
  BY <1>1 DEF QueueOK
<1>6. TypeInv'
  <2>1. SmtpTypeOK'  BY <1>1 DEF TypeInv, SmtpTypeOK
  <2>. QED  BY <1>1, <2>1 DEF TypeInv
<1>7. NoMore'  BY <1>1, <1>2 DEF NoMore
<1>8. SentOK' /\ RepliesOK'  BY <1>1, <1>2, <1>3, <1>4 DEF SentOK, RepliesOK
<1>9. Meaning'  BY <1>1, <1>3, <1>4, <1>5, <1>7 DEF Meaning
<1>10. Before' /\ ServerOK'  BY <1>1, <1>4 DEF Before, ServerOK
<1>11. OutOK'  BY <1>1, <1>2, <1>4 DEF OutOK, Alive
<1>12. QueueOK'  BY <1>1 DEF QueueOK
<1>13. VerdictOK'  BY <1>1, <1>7 DEF VerdictOK, ForFirst
<1>. QED  BY <1>6, <1>8, <1>9, <1>10, <1>11, <1>12, <1>13

LEMMA ServerInv == ASSUME SmtpInv, ServerStep PROVE SmtpInv'
<1>1. UNCHANGED <<clientVars, cut, verdict, inTodo, lostExit>>  BY DEF ServerStep
<1>2. CASE Greet \/ Helo \/ MailFrom  BY <1>1, <1>2, GreetInv, HeloInv, MailFromInv
<1>3. CASE RcptTo \/ DataBegins \/ Tells  BY <1>1, <1>3, RcptToInv, DataBeginsInv, TellsInv
<1>4. CASE TextEnds \/ ServerEof \/ ServerDies  BY <1>1, <1>4, TextEndsInv, ServerGoneInv
<1>5. CASE \E w \in {"0", "temporary", "permanent", "killed"} : Closed(w)
  BY <1>1, <1>5, ClosedInv
<1>. QED  BY <1>2, <1>3, <1>4, <1>5 DEF ServerStep

-----------------------------------------------------------------------------
LEMMA QqLinkInv ==
  ASSUME SmtpInv, QqLink, UNCHANGED <<clientVars, netVars, serverVars, flagerr, verdict>>
  PROVE  SmtpInv'
<1>. USE DEF SmtpInv, clientVars, netVars, serverVars
<1>1. /\ qq = "all" /\ qq' = "linked" /\ lostExit' = lostExit
      /\ inTodo' = Append(inTodo, [text |-> took, to |-> rcptto])
  BY DEF QqLink, Complete
<1>2. /\ inTodo = << >> /\ spc \in {"close", "gone"} /\ took = given /\ Within(given)
      /\ flagerr = "no" /\ rcptto # {}
  BY <1>1 DEF QueueOK, ServerOK
<1>3. inTodo' = <<[text |-> given, to |-> rcptto]>> /\ inTodo' # << >>
  <2>. DEFINE m == [text |-> given, to |-> rcptto]
  <2>1. inTodo' = Append(<< >>, m)  BY <1>1, <1>2
  <2>. HIDE DEF m
  <2>2. Append(<< >>, m) = <<m>> /\ <<m>> # << >>  BY Ones, Zenon
  <2>3. inTodo' = <<m>> /\ inTodo' # << >>  BY <2>1, <2>2, Zenon
  <2>. QED  BY <2>3 DEF m
<1>4. ~NoMore /\ ~ForFirst  BY <1>1, <1>2 DEF NoMore, ForFirst
<1>5. Alive => sent = << >> /\ replies = << >>  BY <1>2 DEF SentOK, RepliesOK, Alive
<1>6. Alive' = Alive  BY DEF Alive
<1>7. TypeInv'
  <2>1. SmtpTypeOK'  BY DEF TypeInv, SmtpTypeOK
  <2>. QED  BY <1>1, <2>1 DEF TypeInv
<1>8. SentOK'  BY <1>5, <1>6 DEF SentOK
<1>9. RepliesOK'  BY <1>6 DEF RepliesOK
<1>10. Meaning'
  <2>1. cpc \in {"end", "done"}  BY <1>1, <1>2 DEF Before
  <2>. QED  BY <1>2, <1>4, <2>1 DEF Meaning
<1>11. Before'  BY <1>1 DEF Before
<1>12. OutOK'  BY <1>1, <1>6 DEF OutOK
<1>13. ServerOK'  BY <1>1, <1>2, <1>6 DEF ServerOK
<1>14. QueueOK'  BY <1>1, <1>2, <1>3 DEF QueueOK
<1>15. VerdictOK'
  <2>1. NoMore'  BY <1>1, <1>5, <1>6 DEF NoMore
  <2>2. verdict # "K" /\ (verdict = "Z" => warned)
        /\ (verdict = "D" => barf \/ Rcpt[1] \notin Good)
    BY <1>4 DEF VerdictOK
  <2>3. barf \/ Rcpt[1] \notin Good => ~ForFirst'
    <3>1. rcptto \subseteq Good /\ (barf => rcptto = {})  BY DEF TypeInv, SmtpTypeOK, ServerOK
    <3>. QED  BY <3>1 DEF ForFirst
  <2>. QED  BY <2>1, <2>2, <2>3 DEF VerdictOK
<1>. QED  BY <1>7, <1>8, <1>9, <1>10, <1>11, <1>12, <1>13, <1>14, <1>15

LEMMA QqEndsInv ==
  ASSUME SmtpInv, QqEnds, UNCHANGED <<clientVars, netVars, serverVars, flagerr, verdict>>
  PROVE  SmtpInv'
<1>. USE DEF SmtpInv, clientVars, netVars, serverVars
<1>1. /\ inTodo' = inTodo
      /\ \/ qq = "linked" /\ qq' = "0" /\ lostExit' = lostExit
         \/ qq = "linked" /\ qq' = "killed" /\ lostExit' = TRUE
         \/ /\ qq \in {"reads", "all"} /\ qq' \in {"temporary", "permanent", "killed"}
            /\ lostExit' = lostExit
  BY DEF QqEnds
<1>2. Alive' = Alive  BY DEF Alive
<1>3. lostExit => lostExit'  BY <1>1
<1>4. NoMore => NoMore'  BY <1>1, <1>2 DEF NoMore
<1>5. TypeInv'
  <2>1. SmtpTypeOK'  BY DEF TypeInv, SmtpTypeOK
  <2>2. lostExit' \in BOOLEAN  BY <1>1, Zenon DEF TypeInv
  <2>. QED  BY <1>1, <2>1, <2>2 DEF TypeInv
<1>6. SentOK' /\ RepliesOK'  BY <1>1, <1>2 DEF SentOK, RepliesOK
<1>7. Meaning'  BY <1>1, <1>2, <1>3, <1>4 DEF Meaning
<1>8. Before'  BY <1>1 DEF Before
<1>9. OutOK'  BY <1>1, <1>2 DEF OutOK
<1>10. ServerOK'  BY <1>1, <1>2 DEF ServerOK
<1>11. QueueOK'  BY <1>1 DEF QueueOK
<1>12. VerdictOK'  BY <1>1, <1>2, <1>3, <1>4 DEF VerdictOK, ForFirst
<1>. QED  BY <1>5, <1>6, <1>7, <1>8, <1>9, <1>10, <1>11, <1>12

\* A part of the replies, from the first.
LEMMA FewerReplies ==
  ASSUME SmtpInv, NEW n \in 0 .. Len(replies), replies' = SubSeq(replies, 1, n)
  PROVE  \/ replies' = << >>
         \/ replies # << >> /\ replies' # << >> /\ replies'[1] = replies[1]
            /\ (replies' = replies \/ replies' = <<replies[1]>>)
<1>1. CASE replies = << >>
  <2>1. n = 0  BY <1>1
  <2>. QED  BY <1>1, <2>1
<1>2. CASE replies # << >>
  <2>1. PICK x, y : replies = <<x>> \/ replies = <<x, y>>  BY <1>2 DEF SmtpInv, RepliesOK
  <2>0. <<x>> \in Seq({x, y}) /\ <<x, y>> \in Seq({x, y})  OBVIOUS
  <2>4. \A s \in Seq({x, y}) : SubSeq(s, 1, 0) = << >>  OBVIOUS
  <2>5. \A s \in Seq({x, y}) : SubSeq(s, 1, Len(s)) = s  BY SubSeqFull
  <2>6. Len(<<x>>) = 1 /\ Len(<<x, y>>) = 2  BY Ones
  <2>7. SubSeq(<<x>>, 1, 0) = << >> /\ SubSeq(<<x, y>>, 1, 0) = << >>  BY <2>0, <2>4
  <2>8. SubSeq(<<x>>, 1, 1) = <<x>> /\ SubSeq(<<x, y>>, 1, 2) = <<x, y>>
    BY <2>0, <2>5, <2>6
  <2>9. SubSeq(<<x, y>>, 1, 1) = <<x>>
    <3>. DEFINE p == SubSeq(<<x, y>>, 1, 1)
                q == <<x>>
    <3>1. p \in Seq({x, y}) /\ Len(p) = 1 /\ p[1] = x  OBVIOUS
    <3>2. q \in Seq({x, y}) /\ Len(q) = 1 /\ q[1] = x  OBVIOUS
    <3>. HIDE DEF p, q
    <3>3. \A k \in 1 .. Len(p) : p[k] = q[k]  BY <3>1, <3>2
    <3>4. p = q  BY <3>1, <3>2, <3>3, SeqEqual
    <3>. QED  BY <3>4 DEF p, q
  <2>2. CASE replies = <<x>>
    <3>1. n = 0 \/ n = 1  BY <2>2, <2>6
    <3>2. replies[1] = x  BY <2>2
    <3>3. CASE n = 0  BY <2>2, <2>7, <3>3
    <3>4. CASE n = 1
      <4>1. replies' = replies  BY <2>2, <2>8, <3>4
      <4>. QED  BY <1>2, <4>1
    <3>. QED  BY <3>1, <3>3, <3>4
  <2>3. CASE replies = <<x, y>>
    <3>1. n = 0 \/ n = 1 \/ n = 2  BY <2>3, <2>6
    <3>5. replies[1] = x /\ <<x>>[1] = x /\ <<x>> # << >>  BY <2>3
    <3>6. CASE n = 0  BY <2>3, <2>7, <3>6
    <3>7. CASE n = 1
      <4>1. replies' = <<x>>  BY <2>3, <2>9, <3>7
      <4>. QED  BY <1>2, <3>5, <4>1
    <3>8. CASE n = 2
      <4>1. replies' = replies  BY <2>3, <2>8, <3>8
      <4>. QED  BY <1>2, <4>1
    <3>. QED  BY <3>1, <3>6, <3>7, <3>8
  <2>. QED  BY <2>1, <2>2, <2>3
<1>. QED  BY <1>1, <1>2

LEMMA CutInv == ASSUME SmtpInv, Cut PROVE SmtpInv'
<1>1. /\ cut' = TRUE /\ UNCHANGED <<clientVars, serverVars, queueVars, verdict>>
      /\ \E n \in 0 .. Len(replies) : replies' = SubSeq(replies, 1, n)
      /\ \/ sent' = sent
         \/ sent' = << >>
         \/ /\ sent # << >> /\ sent[1].verb = "TEXT"
            /\ \E n \in 0 .. Len(sent[1].arg) - 1 :
                 sent' = <<[sent[1] EXCEPT !.arg = SubSeq(@, 1, n)]>>
  BY DEF Cut
<1>2. \/ replies' = << >>
      \/ replies # << >> /\ replies' # << >> /\ replies'[1] = replies[1]
         /\ (replies' = replies \/ replies' = <<replies[1]>>)
  BY <1>1, FewerReplies
<1>3. ASSUME Alive
      PROVE  \/ sent' = sent
             \/ sent' = << >>
             \/ /\ sent # << >> /\ sent[1].verb = "TEXT"
                /\ \E a : Only("TEXT", a)' /\ Carried(a, given) /\ ~Ends(a)
  <2>1. SUFFICES ASSUME sent # << >>, sent[1].verb = "TEXT", NEW n \in 0 .. Len(sent[1].arg) - 1,
                        sent' = <<[sent[1] EXCEPT !.arg = SubSeq(@, 1, n)]>>
                 PROVE  \E a : Only("TEXT", a)' /\ Carried(a, given) /\ ~Ends(a)
    BY <1>1
  <2>2. PICK b, a : b = sent[1].arg /\ a = SubSeq(b, 1, n)  OBVIOUS
  <2>3. sent = <<Msg("TEXT", b)>> /\ Carried(b, given)  BY <1>3, <2>1, <2>2 DEF SmtpInv, SentOK
  <2>4. sent[1] = Msg("TEXT", b)  BY <2>3
  <2>5. [Msg("TEXT", b) EXCEPT !.arg = a] = Msg("TEXT", a)  BY Msgs
  <2>6. sent' = <<Msg("TEXT", a)>>
    <3>1. [sent[1] EXCEPT !.arg = SubSeq(@, 1, n)] = [Msg("TEXT", b) EXCEPT !.arg = a]
      BY <2>2, <2>4
    <3>. QED  BY <2>1, <2>5, <3>1
  <2>7. Only("TEXT", a)'
    <3>1. sent' # << >> /\ sent'[1] = Msg("TEXT", a)  BY <2>6
    <3>2. sent'[1].verb = "TEXT" /\ sent'[1].arg = a  BY <3>1 DEF Msg
    <3>. QED  BY <2>6, <3>1, <3>2 DEF Only
  <2>8. b \in Seq(Byte) /\ \A m \in 0 .. Len(b) - 1 : ~Ends(SubSeq(b, 1, m))  BY <2>3 DEF Carried
  <2>9. n \in 0 .. Len(b) - 1 /\ n \in 0 .. Len(b)
    <3>1. Len(b) \in Nat  BY <2>8
    <3>. QED  BY <2>2, <3>1
  <2>10. ~Ends(a)  BY <2>2, <2>8, <2>9
  <2>11. /\ a \in Seq(Byte) /\ Len(a) = n
         /\ \A m \in 0 .. n - 1 : SubSeq(a, 1, m) = SubSeq(b, 1, m)
    BY <2>2, <2>8, <2>9, Initial
  <2>12. ASSUME NEW m \in 0 .. Len(a) - 1 PROVE ~Ends(SubSeq(a, 1, m))
    <3>1. m \in 0 .. n - 1  BY <2>11
    <3>2. Len(b) \in Nat  BY <2>8
    <3>3. m \in 0 .. Len(b) - 1  BY <2>9, <3>1, <3>2
    <3>. QED  BY <2>8, <2>11, <3>1, <3>3
  <2>13. Carried(a, given)  BY <2>10, <2>11, <2>12 DEF Carried
  <2>. QED  BY <2>7, <2>10, <2>13
<1>. USE DEF SmtpInv, clientVars, serverVars, queueVars
<1>4. Alive' = Alive  BY <1>1 DEF Alive
<1>5. TypeInv'
  <2>1. SmtpTypeOK'  BY <1>1 DEF TypeInv, SmtpTypeOK
  <2>2. cut' \in BOOLEAN  BY <1>1, Zenon
  <2>. QED  BY <1>1, <2>1, <2>2 DEF TypeInv
<1>6. Alive /\ sent # << >> => replies' = << >>  BY <1>2 DEF SentOK
<1>7. SentOK'
  <2>1. SUFFICES ASSUME Alive, sent' # << >> PROVE SentOK'  BY <1>4 DEF SentOK
  <2>2. CASE sent' = sent
    <3>1. SentOK /\ replies' = << >>  BY <1>6, <2>1, <2>2
    <3>. QED  BY <1>1, <2>1, <2>2, <3>1 DEF SentOK
  <2>3. CASE /\ sent # << >> /\ sent[1].verb = "TEXT"
             /\ \E a : Only("TEXT", a)' /\ Carried(a, given) /\ ~Ends(a)
    <3>1. PICK a : Only("TEXT", a)' /\ Carried(a, given)  BY <2>3
    <3>2. /\ sent' = <<Msg(sent'[1].verb, sent'[1].arg)>>
          /\ sent'[1].verb = "TEXT" /\ sent'[1].arg = a
      BY <3>1 DEF Only
    <3>3. /\ spc \in {"command", "text"}
          /\ cpc # "done" => cpc \notin {"greet", "blast"} /\ Verb(cpc) = "TEXT"
      BY <2>1, <2>3 DEF SentOK
    <3>4. cpc # "rcpt"
      <4>1. Verb("rcpt") # "TEXT"  BY DEF Verb
      <4>. QED  BY <3>3, <4>1
    <3>. QED  BY <1>1, <1>6, <2>3, <3>1, <3>2, <3>3, <3>4, <2>1 DEF SentOK
  <2>. QED  BY <1>3, <2>1, <2>2, <2>3
<1>8. RepliesOK'
  <2>1. CASE replies' = << >>  BY <2>1 DEF RepliesOK
  <2>2. CASE replies # << >> /\ replies' = replies
    BY <1>1, <1>4, <2>2 DEF RepliesOK
  <2>3. CASE replies # << >> /\ replies' # << >> /\ replies'[1] = replies[1]
             /\ replies' = <<replies[1]>>
    <3>1. /\ replies[1] \in {2, 4, 5} /\ spc \notin {"greet", "close"}
          /\ cpc = "blast" => replies = <<4>> /\ ~Alive
      BY <2>3 DEF RepliesOK
    <3>2. replies = <<4>> => replies' = <<4>>  BY <2>3
    <3>. QED  BY <1>1, <1>4, <2>3, <3>1, <3>2 DEF RepliesOK
  <2>. QED  BY <1>2, <2>1, <2>2, <2>3
<1>9. NoMore => NoMore'
  <2>1. SUFFICES ASSUME NoMore PROVE NoMore'  OBVIOUS
  <2>2. CASE ~Alive  BY <1>1, <1>4, <2>1, <2>2 DEF NoMore
  <2>3. CASE sent' = sent \/ sent' = << >>  BY <1>1, <1>4, <2>1, <2>3 DEF NoMore
  <2>4. CASE \E a : Only("TEXT", a)' /\ Carried(a, given) /\ ~Ends(a)
    <3>1. PICK a : Only("TEXT", a)' /\ ~Ends(a)  BY <2>4
    <3>2. sent'[1].arg = a  BY <3>1 DEF Only
    <3>. QED  BY <1>1, <1>4, <2>1, <3>1, <3>2 DEF NoMore
  <2>. QED  BY <1>3, <2>2, <2>3, <2>4
<1>10. Meaning'  BY <1>1, <1>2, <1>4, <1>9 DEF Meaning
<1>11. Before'  BY <1>1 DEF Before
<1>12. OutOK'  BY <1>1, <1>4 DEF OutOK
<1>13. ServerOK'  BY <1>1, <1>4 DEF ServerOK
<1>14. QueueOK'  BY <1>1 DEF QueueOK
<1>15. VerdictOK'
  <2>1. ForFirst' = ForFirst  BY <1>1 DEF ForFirst
  <2>2. Alive /\ sent' # << >> => sent # << >> /\ sent'[1].verb = sent[1].verb
    BY <1>3 DEF Only
  <2>. QED  BY <1>1, <1>4, <1>9, <2>1, <2>2 DEF VerdictOK
<1>. QED  BY <1>5, <1>7, <1>8, <1>10, <1>11, <1>12, <1>13, <1>14, <1>15

LEMMA InitInv == ASSUME SmtpInit PROVE SmtpInv
<1>. USE DEF SmtpInit
<1>1. TypeInv
  <2>1. 1 \in 1 .. Len(Rcpt) + 1  BY Cons
  <2>2. SmtpTypeOK  BY <2>1 DEF SmtpTypeOK, Reading
  <2>. QED  BY <2>2 DEF TypeInv
<1>2. SentOK /\ RepliesOK /\ Meaning /\ Before  BY DEF SentOK, RepliesOK, Meaning, Before
<1>3. OutOK  BY DEF OutOK
<1>4. ServerOK /\ QueueOK /\ VerdictOK  BY DEF ServerOK, QueueOK, VerdictOK
<1>. QED  BY <1>1, <1>2, <1>3, <1>4 DEF SmtpInv

LEMMA StepInv == ASSUME SmtpInv, [SmtpNext]_smtpVars PROVE SmtpInv'
<1>1. CASE ClientStep  BY <1>1, ClientInv
<1>2. CASE ServerStep  BY <1>2, ServerInv
<1>3. CASE QueueStep  BY <1>3, QqLinkInv, QqEndsInv DEF QueueStep
<1>4. CASE Cut  BY <1>4, CutInv
<1>5. CASE UNCHANGED smtpVars
  <2>. USE DEF SmtpInv, smtpVars, clientVars, netVars, serverVars, queueVars
  <2>1. TypeInv'  BY <1>5 DEF TypeInv, SmtpTypeOK
  <2>2. Alive' = Alive /\ NoMore' = NoMore /\ ForFirst' = ForFirst
    BY <1>5 DEF Alive, NoMore, ForFirst
  <2>3. SentOK'  BY <1>5, <2>2 DEF SentOK
  <2>4. RepliesOK'  BY <1>5, <2>2 DEF RepliesOK
  <2>5. Meaning'  BY <1>5, <2>2 DEF Meaning
  <2>6. Before' /\ ServerOK'  BY <1>5, <2>2 DEF Before, ServerOK
  <2>7. OutOK'  BY <1>5, <2>2 DEF OutOK
  <2>8. QueueOK'  BY <1>5 DEF QueueOK
  <2>9. VerdictOK'  BY <1>5, <2>2 DEF VerdictOK
  <2>. QED  BY <2>1, <2>3, <2>4, <2>5, <2>6, <2>7, <2>8, <2>9
<1>. QED  BY <1>1, <1>2, <1>3, <1>4, <1>5 DEF SmtpNext

LEMMA InvSafe == ASSUME SmtpInv PROVE SmtpSafe
<1>1. SmtpTypeOK  BY DEF SmtpInv, TypeInv
<1>2. VerdictTrue  BY HereIs DEF SmtpInv, VerdictOK, VerdictTrue
<1>3. QueuedWhole
  <2>1. CASE inTodo = << >>  BY <2>1 DEF QueuedWhole
  <2>2. CASE inTodo # << >>
    <3>1. /\ inTodo = <<[text |-> given, to |-> rcptto]>> /\ Within(given) /\ rcptto # {}
          /\ rcptto \subseteq Good
      BY <1>1, <2>2 DEF SmtpInv, QueueOK, SmtpTypeOK
    <3>2. Len(inTodo) = 1 /\ DOMAIN inTodo = {1}
          /\ inTodo[1].text = given /\ inTodo[1].to = rcptto
      BY <3>1
    <3>. QED  BY <3>1, <3>2 DEF QueuedWhole, Within
  <2>. QED  BY <2>1, <2>2
<1>. QED  BY <1>1, <1>2, <1>3 DEF SmtpSafe

\* Whatever is cut, killed or late, success means queued and failure not queued, and
\* so does a deferral without "Possible duplicate!", but for the two exceptions that
\* VerdictTrue names; what is queued is queued once and is byte for byte what was
\* given (SmtpSafe).
THEOREM SmtpHolds == SmtpSpec => []SmtpSafe
<1>1. SmtpInit => SmtpInv  BY InitInv
<1>2. SmtpInv /\ [SmtpNext]_smtpVars => SmtpInv'  BY StepInv
<1>3. SmtpInv => SmtpSafe  BY InvSafe
<1>. QED  BY <1>1, <1>2, <1>3, PTL DEF SmtpSpec
=============================================================================
