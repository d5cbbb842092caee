----------------------------- MODULE MailProofs -----------------------------
(***************************************************************************)
(* The safety of the programs a delivery runs through: SpawnSafe of Spawn, *)
(* for any number of slots, deliveries and bytes; TcptoSafe of Tcpto, for  *)
(* any number of qmail-remote processes and records; MaildirSafe of        *)
(* Maildir, for any number of messages, sessions and crashes; LocalSafe of *)
(* Local, for any number of deliveries, lines and pieces.                  *)
(***************************************************************************)
EXTENDS Spawn, Tcpto, Maildir, Local, FiniteSetTheorems, SequenceTheorems,
        WellFoundedInduction, TLAPS

Report == [slot : Slot, del : Del, err : BOOLEAN, code : Nat, text : Nat, cut : BOOLEAN]

SpawnTypeOK ==
  /\ assigned \in [Slot -> Nat] /\ lastdel \in 0 .. MaxDel /\ sendup \in BOOLEAN
  /\ cmdq \in Seq(Slot \X Del) /\ reps \in Seq(Report)
  /\ dpc \in {"top", "select", "ready", "more", "read", "gone"}
  /\ rfds \subseteq Slot /\ rcmd \in BOOLEAN
  /\ flagreading \in BOOLEAN /\ flagwriting \in BOOLEAN
  /\ d \in [Slot -> [used : BOOLEAN, out : BOOLEAN, dead : BOOLEAN, code : Nat,
                     output : Nat, cut : BOOLEAN, del : Nat]]
  /\ kst \in [Del -> {"new", "run", "zombie", "gone"}] /\ kopen \in [Del -> BOOLEAN]
  /\ wrote \in [Del -> Nat] /\ inpipe \in [Del -> Nat]

\* spawn.c: a delivery has a command in the pipe, a slot in d, or a report; a
\* slot has one of these at a time, and qmail-send, as long as it runs, waits
\* for the delivery that has it.
Fresh(n) == kst[n] = "new" /\ ~kopen[n] /\ wrote[n] = 0 /\ inpipe[n] = 0

Commands ==
  /\ \A n \in Del : n > lastdel => Fresh(n)
  /\ \A k \in DOMAIN cmdq :
       /\ cmdq[k][2] <= lastdel /\ Fresh(cmdq[k][2]) /\ cmdq[k][1] \notin Busy
       /\ sendup => assigned[cmdq[k][1]] = cmdq[k][2]
       /\ \A l \in DOMAIN cmdq :
            cmdq[k][1] = cmdq[l][1] \/ cmdq[k][2] = cmdq[l][2] => k = l

\* What is kept of what a child has written, and what a report has of it: all,
\* or the beginning of what was too much for a report.
Retained(cut, output, inp, wr) ==
  IF cut THEN truncreport # 0 /\ output = truncreport - Notice /\ wr > inp + truncreport
         ELSE output + inp = wr
Whole(cut, text, wr) ==
  IF cut THEN truncreport # 0 /\ text = truncreport - Notice /\ wr > truncreport
         ELSE text = wr

\* What struct delivery knows of its child and of the pipe from it.
Slots ==
  /\ \A s \in Busy :
       /\ d[s].del \in Del /\ d[s].del <= lastdel
       /\ d[s].out = ~d[s].dead
       /\ Retained(d[s].cut, d[s].output, inpipe[d[s].del], wrote[d[s].del])
       /\ IF d[s].dead THEN kst[d[s].del] = "gone" /\ d[s].code = Code(d[s].del)
                       ELSE kst[d[s].del] \in {"run", "zombie"}
       /\ sendup => assigned[s] = d[s].del
       /\ \A t \in Busy : d[s].del = d[t].del => s = t
  /\ \A n \in Del : kst[n] \in {"run", "zombie"} =>
       \E s \in Busy : d[s].del = n /\ ~d[s].dead

\* A slot that select() found readable has output, or its child and everybody
\* else has let go of the pipe.
Readable == \A s \in rfds : s \in Busy /\ PipeReadable(s)

Reports ==
  /\ reps # <<>> => sendup
  /\ sendup => flagwriting
  /\ \A k \in DOMAIN reps :
       /\ reps[k].del <= lastdel
       /\ assigned[reps[k].slot] = reps[k].del /\ reps[k].slot \notin Busy
       /\ \A l \in DOMAIN reps : reps[l].slot = reps[k].slot => l = k
       /\ \A l \in DOMAIN cmdq : cmdq[l][1] # reps[k].slot
       /\ ~reps[k].err => /\ kst[reps[k].del] = "gone" /\ ~kopen[reps[k].del]
                          /\ reps[k].code = Code(reps[k].del)
                          /\ Whole(reps[k].cut, reps[k].text, wrote[reps[k].del])

SpawnInv ==
  /\ SpawnTypeOK /\ Commands /\ Slots /\ Readable /\ Reports
  /\ dpc = "gone" => Busy = {}

-----------------------------------------------------------------------------
\* What is left of a pipe when its first element is taken, and what it is
\* when one is added.
LEMMA TailFacts ==
  ASSUME NEW S, NEW q \in Seq(S), q # <<>>
  PROVE  /\ Tail(q) \in Seq(S) /\ 1 \in DOMAIN q /\ Head(q) = q[1] /\ Head(q) \in S
         /\ DOMAIN Tail(q) \subseteq Nat
         /\ \A k \in DOMAIN Tail(q) : k + 1 \in DOMAIN q /\ k + 1 # 1 /\ Tail(q)[k] = q[k + 1]
  OBVIOUS

LEMMA AppendFacts ==
  ASSUME NEW S, NEW q \in Seq(S), NEW e \in S
  PROVE  /\ Append(q, e) \in Seq(S)
         /\ \A k \in DOMAIN Append(q, e) :
              \/ k \in DOMAIN q /\ Append(q, e)[k] = q[k]
              \/ k = Len(q) + 1 /\ k \notin DOMAIN q /\ Append(q, e)[k] = e
  OBVIOUS

LEMMA ReportedDel ==
  ASSUME SpawnInv
  PROVE  \A k \in DOMAIN reps : reps[k].del \in Del /\ reps[k].slot \in Slot
<1>1. \A k \in DOMAIN reps : reps[k] \in Report  BY DEF SpawnInv, SpawnTypeOK
<1>. QED  BY <1>1 DEF Report

\* A child writes one byte more; spawn reads r bytes.
LEMMA KeptWrite ==
  ASSUME NEW c, NEW o \in Nat, NEW i \in Nat, NEW w \in Nat, Retained(c, o, i, w)
  PROVE  Retained(c, o, i + 1, w + 1)
<1>1. CASE c
  <2>1. truncreport \in Nat /\ w > i + truncreport  BY <1>1, SpawnAssumption DEF Retained
  <2>2. w + 1 > i + 1 + truncreport  BY <2>1
  <2>. QED  BY <1>1, <2>2 DEF Retained
<1>2. CASE ~c  BY <1>2 DEF Retained
<1>. QED  BY <1>1, <1>2

LEMMA KeptRead ==
  ASSUME NEW r \in Nat, NEW w \in Nat,
         NEW e \in [used : BOOLEAN, out : BOOLEAN, dead : BOOLEAN, code : Nat,
                    output : Nat, cut : BOOLEAN, del : Nat],
         Retained(e.cut, e.output, r, w)
  PROVE  /\ ReadInto(e, r) \in [used : BOOLEAN, out : BOOLEAN, dead : BOOLEAN, code : Nat,
                                 output : Nat, cut : BOOLEAN, del : Nat]
         /\ ReadInto(e, r).used = e.used /\ ReadInto(e, r).out = e.out
         /\ ReadInto(e, r).dead = e.dead /\ ReadInto(e, r).code = e.code
         /\ ReadInto(e, r).del = e.del
         /\ Retained(ReadInto(e, r).cut, ReadInto(e, r).output, 0, w)
<1>. DEFINE Rec == [used : BOOLEAN, out : BOOLEAN, dead : BOOLEAN, code : Nat,
                    output : Nat, cut : BOOLEAN, del : Nat]
            long == truncreport # 0 /\ e.output + r > truncreport
            a == [e EXCEPT !.output = truncreport - Notice]
            b == [a EXCEPT !.cut = TRUE]
            c == [e EXCEPT !.output = e.output + r]
<1>0. truncreport \in Nat /\ Notice \in Nat /\ e.output \in Nat  BY SpawnAssumption
<1>1. CASE e.cut
  <2>1. ReadInto(e, r) = e  BY <1>1 DEF ReadInto
  <2>2. /\ truncreport # 0 /\ e.output = truncreport - Notice /\ w > r + truncreport
    BY <1>1 DEF Retained
  <2>3. w > 0 + truncreport  BY <1>0, <2>2
  <2>. QED  BY <1>1, <2>1, <2>2, <2>3 DEF Retained
<1>2. CASE ~e.cut /\ long
  <2>1. ReadInto(e, r) = b  BY <1>2 DEF ReadInto
  <2>2. truncreport - Notice \in Nat  BY <1>0, <1>2, SpawnAssumption
  <2>3. /\ a \in Rec /\ a.output = truncreport - Notice /\ a.used = e.used /\ a.out = e.out
        /\ a.dead = e.dead /\ a.code = e.code /\ a.del = e.del
    BY <2>2
  <2>. HIDE DEF a
  <2>4. /\ b \in Rec /\ b.output = truncreport - Notice /\ b.used = e.used /\ b.out = e.out
        /\ b.dead = e.dead /\ b.code = e.code /\ b.del = e.del /\ b.cut = TRUE
    BY <2>3
  <2>5. e.output + r = w  BY <1>2 DEF Retained
  <2>6. w > 0 + truncreport  BY <1>0, <1>2, <2>5
  <2>. HIDE DEF b
  <2>. QED  BY <1>2, <2>1, <2>4, <2>6 DEF Retained
<1>3. CASE ~e.cut /\ ~long
  <2>1. ReadInto(e, r) = c  BY <1>3 DEF ReadInto
  <2>2. /\ c \in Rec /\ c.output = e.output + r /\ c.used = e.used /\ c.out = e.out
        /\ c.dead = e.dead /\ c.code = e.code /\ c.del = e.del /\ c.cut = e.cut
    BY <1>0
  <2>3. e.output + r = w  BY <1>3 DEF Retained
  <2>4. c.output + 0 = w  BY <1>0, <2>2, <2>3
  <2>. HIDE DEF c
  <2>. QED  BY <1>3, <2>1, <2>2, <2>4 DEF Retained
<1>. QED  BY <1>1, <1>2, <1>3

LEMMA SpawnInitInv == ASSUME SpawnInit PROVE SpawnInv
<1>1. SpawnTypeOK
  <2>1. <<>> \in Seq(Slot \X Del) /\ <<>> \in Seq(Report) /\ 0 \in 0 .. MaxDel
    BY SpawnAssumption
  <2>. QED  BY <2>1 DEF SpawnInit, SpawnTypeOK, Unused
<1>2. Commands /\ Slots /\ Readable /\ Reports
  BY DEF SpawnInit, Commands, Slots, Readable, Reports, Fresh, Busy, Unused
<1>. QED  BY <1>1, <1>2 DEF SpawnInv, SpawnInit

\* spawn: steps that neither read nor write a pipe, a slot or a child.
LEMMA LoopSteps ==
  ASSUME SpawnInv, Top \/ Select \/ NoGetcmd \/ GetcmdEof \/ LoopEnd
  PROVE  SpawnInv'
<1>. DEFINE Same == /\ UNCHANGED <<sender, pipes, flagwriting, d, kidsd>>
                    /\ flagreading' \in BOOLEAN /\ rcmd' \in BOOLEAN
                    /\ dpc' \in {"top", "select", "ready", "more", "read", "gone"}
                    /\ rfds' = rfds \/ rfds' = {s \in Busy : PipeReadable(s)}
                    /\ dpc' = "gone" => Busy = {}
<1>1. Same
  BY DEF SpawnInv, SpawnTypeOK, Top, Select, NoGetcmd, GetcmdEof, LoopEnd, sender, pipes,
         flagsd, loopd, kidsd, Busy
<1>2. Busy' = Busy  BY <1>1 DEF Busy
<1>3. SpawnTypeOK'
  BY <1>1 DEF SpawnInv, SpawnTypeOK, Busy, sender, pipes, kidsd
<1>4. Commands' /\ Slots' /\ Reports'
  BY <1>1, <1>2 DEF SpawnInv, Commands, Slots, Reports, Fresh, sender, pipes, kidsd
<1>5. Readable'
  BY <1>1, <1>2 DEF SpawnInv, Readable, PipeReadable, kidsd
<1>. QED  BY <1>1, <1>2, <1>3, <1>4, <1>5 DEF SpawnInv

\* qmail-send gives a slot its next command.
LEMMA StepSend ==
  ASSUME SpawnInv, NEW s \in Slot, Send(s)
  PROVE  SpawnInv'
<1>. DEFINE n == lastdel + 1
<1>1. /\ sendup /\ assigned[s] = 0 /\ n \in Del /\ n > lastdel /\ lastdel \in Nat /\ n # 0
      /\ lastdel' = n /\ assigned' = [assigned EXCEPT ![s] = n]
      /\ cmdq' = Append(cmdq, <<s, n>>) /\ assigned \in [Slot -> Nat]
      /\ cmdq \in Seq(Slot \X Del) /\ <<s, n>> \in Slot \X Del
      /\ UNCHANGED <<sendup, reps, dpc, rfds, rcmd, flagreading, flagwriting, d,
                     kst, kopen, wrote, inpipe>>
  <2>1. MaxDel \in Nat  BY SpawnAssumption
  <2>2. lastdel \in 0 .. MaxDel /\ lastdel < MaxDel  BY DEF SpawnInv, SpawnTypeOK, Send
  <2>3. n \in Del /\ n > lastdel /\ lastdel \in Nat /\ n # 0  BY <2>1, <2>2 DEF Del
  <2>4. /\ assigned \in [Slot -> Nat] /\ cmdq \in Seq(Slot \X Del)
    BY DEF SpawnInv, SpawnTypeOK
  <2>5. <<s, n>> \in Slot \X Del  BY <2>3
  <2>. QED  BY <2>3, <2>4, <2>5 DEF Send, loopd, flagsd, kidsd
<1>a. Busy' = Busy /\ \A m \in Del : Fresh(m)' = Fresh(m)
  BY <1>1 DEF Busy, Fresh
<1>b. \A t \in Slot : assigned'[t] = IF t = s THEN n ELSE assigned[t]
  BY <1>1
<1>c. /\ cmdq' \in Seq(Slot \X Del)
      /\ \A k \in DOMAIN cmdq' : \/ k \in DOMAIN cmdq /\ cmdq'[k] = cmdq[k]
                                 \/ k = Len(cmdq) + 1 /\ k \notin DOMAIN cmdq /\ cmdq'[k] = <<s, n>>
  BY <1>1, AppendFacts
<1>d. s \notin Busy /\ \A k \in DOMAIN cmdq : /\ cmdq[k] \in Slot \X Del /\ cmdq[k][1] # s
                                              /\ cmdq[k][2] <= lastdel /\ cmdq[k][2] # n
  <2>1. ASSUME s \in Busy PROVE FALSE
    <3>1. d[s].del \in Del /\ assigned[s] = d[s].del  BY <1>1, <2>1 DEF SpawnInv, Slots
    <3>. QED  BY <1>1, <3>1 DEF Del
  <2>2. ASSUME NEW k \in DOMAIN cmdq
        PROVE  /\ cmdq[k] \in Slot \X Del /\ cmdq[k][1] # s /\ cmdq[k][2] <= lastdel /\ cmdq[k][2] # n
    <3>1. cmdq[k] \in Slot \X Del  BY <1>1
    <3>2. cmdq[k][2] <= lastdel /\ assigned[cmdq[k][1]] = cmdq[k][2]
      BY <1>1 DEF SpawnInv, Commands
    <3>. QED  BY <3>1, <3>2, <1>1 DEF Del
  <2>. QED  BY <2>1, <2>2
<1>2. SpawnTypeOK'
  <2>1. assigned' \in [Slot -> Nat] /\ lastdel' \in 0 .. MaxDel
    BY <1>1 DEF Del
  <2>. QED  BY <1>1, <1>c, <2>1 DEF SpawnInv, SpawnTypeOK
<1>3. Commands'
  <2>1. ASSUME NEW m \in Del, m > n PROVE Fresh(m)'
    BY <1>1, <1>a, <2>1 DEF SpawnInv, Commands, Del
  <2>2. Fresh(n)
    BY <1>1 DEF SpawnInv, Commands
  <2>3. ASSUME NEW k \in DOMAIN cmdq'
        PROVE  /\ cmdq'[k][2] <= n /\ Fresh(cmdq[k][2])' /\ cmdq'[k][1] \notin Busy
               /\ assigned'[cmdq'[k][1]] = cmdq'[k][2]
    <3>1. CASE k \in DOMAIN cmdq /\ cmdq'[k] = cmdq[k]
      <4>1. /\ cmdq[k][2] \in Del /\ cmdq[k][1] \in Slot /\ cmdq[k][2] <= lastdel
            /\ cmdq[k][1] # s
        BY <1>d, <3>1
      <4>2. Fresh(cmdq[k][2]) /\ cmdq[k][1] \notin Busy /\ assigned[cmdq[k][1]] = cmdq[k][2]
        BY <1>1, <3>1 DEF SpawnInv, Commands
      <4>3. Fresh(cmdq[k][2])'
        BY <4>1, <4>2, <3>1, <1>1 DEF Fresh
      <4>4. assigned'[cmdq'[k][1]] = cmdq'[k][2] /\ cmdq'[k][2] <= n
        BY <4>1, <4>2, <3>1, <1>1, <1>b DEF Del
      <4>. QED  BY <4>2, <4>3, <4>4, <3>1
    <3>2. CASE cmdq'[k] = <<s, n>>
      <4>1. cmdq'[k][1] = s /\ cmdq'[k][2] = n  BY <3>2
      <4>2. Fresh(cmdq[k][2])'  BY <4>1, <2>2, <1>1 DEF Fresh
      <4>. QED  BY <4>1, <4>2, <1>1, <1>b, <1>d DEF Del
    <3>. QED  BY <3>1, <3>2, <1>c
  <2>4. ASSUME NEW k \in DOMAIN cmdq', NEW l \in DOMAIN cmdq',
               cmdq'[k][1] = cmdq'[l][1] \/ cmdq'[k][2] = cmdq'[l][2]
        PROVE  k = l
    <3>1. CASE k \in DOMAIN cmdq /\ l \in DOMAIN cmdq /\ cmdq'[k] = cmdq[k] /\ cmdq'[l] = cmdq[l]
      BY <3>1, <2>4 DEF SpawnInv, Commands
    <3>2. CASE cmdq'[k] = <<s, n>> /\ k = Len(cmdq) + 1
      <4>1. cmdq'[k][1] = s /\ cmdq'[k][2] = n  BY <3>2
      <4>2. l \notin DOMAIN cmdq \/ cmdq'[l] # cmdq[l]
        BY <4>1, <2>4, <1>d
      <4>. QED  BY <4>2, <3>2, <1>c
    <3>3. CASE cmdq'[l] = <<s, n>> /\ l = Len(cmdq) + 1
      <4>1. cmdq'[l][1] = s /\ cmdq'[l][2] = n  BY <3>3
      <4>2. k \notin DOMAIN cmdq \/ cmdq'[k] # cmdq[k]
        BY <4>1, <2>4, <1>d
      <4>. QED  BY <4>2, <3>3, <1>c
    <3>. QED  BY <3>1, <3>2, <3>3, <1>c
  <2>. QED  BY <2>1, <2>3, <2>4, <1>1, <1>a DEF Commands
<1>4. Slots'
  BY <1>1, <1>a, <1>b, <1>d DEF SpawnInv, Slots, Del, Busy
<1>5. Readable'
  BY <1>1, <1>a DEF SpawnInv, Readable, PipeReadable
<1>6. Reports'
  <2>1. ASSUME NEW k \in DOMAIN reps
        PROVE  /\ reps[k].del <= n /\ reps[k].slot # s /\ reps[k].slot \in Slot
               /\ assigned'[reps[k].slot] = reps[k].del
    <3>1. reps[k] \in Report  BY DEF SpawnInv, SpawnTypeOK
    <3>2. reps[k].del <= lastdel /\ assigned[reps[k].slot] = reps[k].del
      BY DEF SpawnInv, Reports
    <3>. QED  BY <3>1, <3>2, <1>1, <1>b DEF Report, Del
  <2>2. ASSUME NEW k \in DOMAIN reps, NEW l \in DOMAIN cmdq'
        PROVE  cmdq'[l][1] # reps[k].slot
    BY <1>c, <2>1 DEF SpawnInv, Reports
  <2>. QED  BY <1>1, <1>a, <2>1, <2>2 DEF SpawnInv, Reports
<1>. QED  BY <1>1, <1>a, <1>2, <1>3, <1>4, <1>5, <1>6 DEF SpawnInv

\* qmail-send takes a report.
LEMMA StepHear ==
  ASSUME SpawnInv, Hear
  PROVE  SpawnInv'
<1>. DEFINE s == Head(reps).slot
<1>1. /\ sendup /\ reps # <<>> /\ reps \in Seq(Report) /\ reps' = Tail(reps)
      /\ assigned' = [assigned EXCEPT ![s] = 0] /\ assigned \in [Slot -> Nat]
      /\ UNCHANGED <<lastdel, sendup, cmdq, dpc, rfds, rcmd, flagreading, flagwriting, d,
                     kst, kopen, wrote, inpipe>>
  BY DEF SpawnInv, SpawnTypeOK, Hear, loopd, flagsd, kidsd
<1>a. Busy' = Busy /\ \A m \in Del : Fresh(m)' = Fresh(m)
  BY <1>1 DEF Busy, Fresh
<1>b. \A t \in Slot : assigned'[t] = IF t = s THEN 0 ELSE assigned[t]
  BY <1>1
<1>c. /\ reps' \in Seq(Report) /\ 1 \in DOMAIN reps /\ s = reps[1].slot
      /\ DOMAIN reps' \subseteq Nat
      /\ \A k \in DOMAIN reps' : k + 1 \in DOMAIN reps /\ k + 1 # 1 /\ reps'[k] = reps[k + 1]
  BY <1>1, TailFacts
<1>d. s \notin Busy /\ \A l \in DOMAIN cmdq : cmdq[l][1] # s
  BY <1>c DEF SpawnInv, Reports
<1>2. SpawnTypeOK'
  BY <1>1, <1>c DEF SpawnInv, SpawnTypeOK
<1>3. Commands'
  <2>1. ASSUME NEW k \in DOMAIN cmdq
        PROVE  /\ cmdq[k][2] \in Del /\ assigned'[cmdq[k][1]] = cmdq[k][2]
    <3>1. cmdq[k] \in Slot \X Del  BY DEF SpawnInv, SpawnTypeOK
    <3>. QED  BY <3>1, <1>1, <1>b, <1>d DEF SpawnInv, Commands
  <2>. QED  BY <2>1, <1>1, <1>a DEF SpawnInv, Commands
<1>4. Slots'
  BY <1>1, <1>a, <1>b, <1>d DEF SpawnInv, Slots, Busy
<1>5. Readable'
  BY <1>1, <1>a DEF SpawnInv, Readable, PipeReadable
<1>6. Reports'
  <2>1. ASSUME NEW k \in DOMAIN reps'
        PROVE  /\ reps'[k].del <= lastdel /\ assigned'[reps'[k].slot] = reps'[k].del
               /\ reps'[k].slot \notin Busy
               /\ \A l \in DOMAIN cmdq : cmdq[l][1] # reps'[k].slot
               /\ ~reps'[k].err => /\ kst[reps'[k].del] = "gone" /\ ~kopen[reps'[k].del]
                                  /\ reps'[k].code = Code(reps'[k].del)
                                  /\ Whole(reps'[k].cut, reps'[k].text, wrote[reps'[k].del])
    <3>1. k + 1 \in DOMAIN reps /\ k + 1 # 1 /\ reps'[k] = reps[k + 1] /\ reps[k + 1] \in Report
      BY <1>c, <1>1
    <3>2. reps[k + 1].slot # s
      BY <3>1, <1>c DEF SpawnInv, Reports
    <3>. QED  BY <3>1, <3>2, <1>b DEF SpawnInv, Reports, Report
  <2>2. ASSUME NEW k \in DOMAIN reps', NEW l \in DOMAIN reps', reps'[l].slot = reps'[k].slot
        PROVE  l = k
    <3>1. k + 1 \in DOMAIN reps /\ l + 1 \in DOMAIN reps /\ k \in Nat /\ l \in Nat
          /\ reps[l + 1].slot = reps[k + 1].slot
      BY <1>c, <2>2
    <3>2. k + 1 = l + 1
      BY <3>1 DEF SpawnInv, Reports
    <3>. QED  BY <3>1, <3>2
  <2>. QED  BY <2>1, <2>2, <1>1, <1>a DEF SpawnInv, Reports
<1>. QED  BY <1>1, <1>a, <1>2, <1>3, <1>4, <1>5, <1>6 DEF SpawnInv

\* qmail-send ends: nobody reads the reports.
LEMMA StepSendEnds ==
  ASSUME SpawnInv, SendEnds
  PROVE  SpawnInv'
<1>1. /\ sendup' = FALSE /\ reps' = <<>> /\ assigned' = [s \in Slot |-> 0]
      /\ UNCHANGED <<lastdel, cmdq, dpc, rfds, rcmd, flagreading, flagwriting, d,
                     kst, kopen, wrote, inpipe>>
  BY DEF SendEnds, loopd, flagsd, kidsd
<1>a. Busy' = Busy /\ \A m \in Del : Fresh(m)' = Fresh(m)
  BY <1>1 DEF Busy, Fresh
<1>2. SpawnTypeOK'
  <2>1. <<>> \in Seq(Report)  OBVIOUS
  <2>. QED  BY <1>1, <2>1 DEF SpawnInv, SpawnTypeOK
<1>3. Commands'
  <2>1. \A k \in DOMAIN cmdq : cmdq[k][2] \in Del  BY DEF SpawnInv, SpawnTypeOK
  <2>. QED  BY <2>1, <1>1, <1>a DEF SpawnInv, Commands
<1>4. Slots' /\ Readable' /\ Reports'
  BY <1>1, <1>a DEF SpawnInv, Slots, Readable, Reports, PipeReadable
<1>. QED  BY <1>1, <1>a, <1>2, <1>3, <1>4 DEF SpawnInv

\* The children: a child writes.
LEMMA StepKidWrite ==
  ASSUME SpawnInv, NEW n \in Del, KidWrite(n)
  PROVE  SpawnInv'
<1>1. /\ kopen[n] /\ wrote' = [wrote EXCEPT ![n] = wrote[n] + 1]
      /\ inpipe' = [inpipe EXCEPT ![n] = inpipe[n] + 1]
      /\ wrote \in [Del -> Nat] /\ inpipe \in [Del -> Nat]
      /\ UNCHANGED <<assigned, lastdel, sendup, cmdq, reps, dpc, rfds, rcmd, flagreading,
                     flagwriting, d, kst, kopen>>
  BY DEF SpawnInv, SpawnTypeOK, KidWrite, sender, pipes, loopd, flagsd
<1>a. Busy' = Busy /\ \A m \in Del : Fresh(m) => Fresh(m)'
  BY <1>1 DEF Busy, Fresh
<1>b. \A m \in Del : m # n => wrote'[m] = wrote[m] /\ inpipe'[m] = inpipe[m]
  BY <1>1
<1>2. SpawnTypeOK'
  <2>1. wrote[n] + 1 \in Nat /\ inpipe[n] + 1 \in Nat  BY <1>1
  <2>2. wrote' \in [Del -> Nat] /\ inpipe' \in [Del -> Nat]  BY <1>1, <2>1
  <2>. QED  BY <1>1, <2>2 DEF SpawnInv, SpawnTypeOK
<1>3. Commands'
  <2>1. \A k \in DOMAIN cmdq : cmdq[k][2] \in Del  BY DEF SpawnInv, SpawnTypeOK
  <2>2. \A m \in Del : m > lastdel => Fresh(m)'  BY <1>a DEF SpawnInv, Commands
  <2>3. \A k \in DOMAIN cmdq : Fresh(cmdq[k][2])'
    BY <1>1, <1>a, <2>1 DEF SpawnInv, Commands
  <2>. QED  BY <1>1, <1>a, <2>2, <2>3 DEF SpawnInv, Commands
<1>4. Slots'
  <2>1. ASSUME NEW s \in Busy
        PROVE  Retained(d[s].cut, d[s].output, inpipe'[d[s].del], wrote'[d[s].del])
    <3>1. /\ d[s].del \in Del /\ Retained(d[s].cut, d[s].output, inpipe[d[s].del], wrote[d[s].del])
          /\ d[s].output \in Nat
      BY DEF SpawnInv, SpawnTypeOK, Slots, Busy
    <3>2. CASE d[s].del # n  BY <3>1, <3>2, <1>b
    <3>3. CASE d[s].del = n
      <4>1. /\ inpipe[n] \in Nat /\ wrote[n] \in Nat
            /\ inpipe'[n] = inpipe[n] + 1 /\ wrote'[n] = wrote[n] + 1
        BY <1>1
      <4>2. Retained(d[s].cut, d[s].output, inpipe[n] + 1, wrote[n] + 1)
        BY <3>1, <3>3, <4>1, KeptWrite
      <4>. QED  BY <3>3, <4>1, <4>2
    <3>. QED  BY <3>2, <3>3
  <2>. QED  BY <2>1, <1>1, <1>a DEF SpawnInv, Slots
<1>5. Readable'
  <2>1. inpipe'[n] > 0  BY <1>1
  <2>. QED  BY <2>1, <1>1, <1>a, <1>b DEF SpawnInv, Readable, PipeReadable, Slots
<1>6. Reports'
  <2>1. ASSUME NEW k \in DOMAIN reps, ~reps[k].err
        PROVE  Whole(reps[k].cut, reps[k].text, wrote'[reps[k].del])
    <3>1. reps[k].del \in Del  BY ReportedDel
    <3>2. reps[k].del # n /\ Whole(reps[k].cut, reps[k].text, wrote[reps[k].del])
      BY <1>1, <2>1 DEF SpawnInv, Reports
    <3>. QED  BY <3>1, <3>2, <1>b
  <2>. QED  BY <2>1, <1>1, <1>a DEF SpawnInv, Reports
<1>. QED  BY <1>1, <1>a, <1>2, <1>3, <1>4, <1>5, <1>6 DEF SpawnInv

\* A child closes the pipe, or ends.
LEMMA StepKid ==
  ASSUME SpawnInv, NEW n \in Del, KidStep(n)
  PROVE  SpawnInv'
<1>1. /\ \/ kopen' = [kopen EXCEPT ![n] = FALSE] /\ kst' = kst /\ kopen[n]
         \/ kst' = [kst EXCEPT ![n] = "zombie"] /\ kst[n] = "run" /\ kopen' = kopen
      /\ kst \in [Del -> {"new", "run", "zombie", "gone"}] /\ kopen \in [Del -> BOOLEAN]
      /\ UNCHANGED <<assigned, lastdel, sendup, cmdq, reps, dpc, rfds, rcmd, flagreading,
                     flagwriting, d, wrote, inpipe>>
  BY DEF SpawnInv, SpawnTypeOK, KidStep, KidClose, KidEnds, sender, pipes, loopd, flagsd
<1>a. Busy' = Busy /\ \A m \in Del : Fresh(m) => Fresh(m)'
  BY <1>1 DEF Busy, Fresh
<1>b. ASSUME NEW m \in Del PROVE kopen'[m] => kopen[m]
  <2>1. CASE kopen' = kopen  BY <2>1
  <2>2. CASE kopen' = [kopen EXCEPT ![n] = FALSE]
    <3>1. CASE m = n  BY <1>1, <2>2, <3>1
    <3>2. CASE m # n  BY <1>1, <2>2, <3>2
    <3>. QED  BY <3>1, <3>2
  <2>. QED  BY <1>1, <2>1, <2>2
<1>c. \A m \in Del : kst'[m] = kst[m] \/ (kst[m] = "run" /\ kst'[m] = "zombie")
  BY <1>1
<1>2. SpawnTypeOK'
  BY <1>1 DEF SpawnInv, SpawnTypeOK
<1>3. Commands'
  <2>1. \A k \in DOMAIN cmdq : cmdq[k][2] \in Del  BY DEF SpawnInv, SpawnTypeOK
  <2>2. \A m \in Del : m > lastdel => Fresh(m)'  BY <1>a DEF SpawnInv, Commands
  <2>3. \A k \in DOMAIN cmdq : Fresh(cmdq[k][2])'
    BY <1>1, <1>a, <2>1 DEF SpawnInv, Commands
  <2>. QED  BY <1>1, <1>a, <2>2, <2>3 DEF SpawnInv, Commands
<1>4. Slots'
  BY <1>1, <1>a, <1>b, <1>c DEF SpawnInv, Slots
<1>5. Readable'
  <2>1. \A s \in Busy : d[s].del \in Del  BY DEF SpawnInv, Slots
  <2>. QED  BY <2>1, <1>1, <1>a, <1>b, <1>c DEF SpawnInv, Readable, PipeReadable
<1>6. Reports'
  <2>1. \A k \in DOMAIN reps : reps[k].del \in Del  BY ReportedDel
  <2>. QED  BY <2>1, <1>1, <1>a, <1>b, <1>c DEF SpawnInv, Reports
<1>. QED  BY <1>1, <1>a, <1>2, <1>3, <1>4, <1>5, <1>6 DEF SpawnInv

\* sigchld() waits for every dead child.
LEMMA StepSigchld ==
  ASSUME SpawnInv, SigchldD
  PROVE  SpawnInv'
<1>1. /\ dpc' \in {"top", "select", "ready"}
      /\ kst' = [n \in Del |-> IF n \in Zombies THEN "gone" ELSE kst[n]]
      /\ d' = [s \in Slot |-> IF d[s].used /\ ~d[s].dead /\ d[s].del \in Zombies
                              THEN DeadChild(s) ELSE d[s]]
      /\ UNCHANGED <<assigned, lastdel, sendup, cmdq, reps, rfds, rcmd, flagreading,
                     flagwriting, kopen, wrote, inpipe>>
  BY DEF SigchldD, sender, pipes, flagsd
<1>a. \A s \in Slot :
        /\ d'[s] \in [used : BOOLEAN, out : BOOLEAN, dead : BOOLEAN, code : Nat, output : Nat,
                      cut : BOOLEAN, del : Nat]
        /\ d'[s].used = d[s].used /\ d'[s].del = d[s].del /\ d'[s].output = d[s].output
        /\ d'[s].cut = d[s].cut
        /\ \/ d'[s] = d[s] /\ (~d[s].used \/ d[s].dead \/ d[s].del \notin Zombies)
           \/ /\ d[s].used /\ ~d[s].dead /\ d[s].del \in Zombies
              /\ d'[s].out = FALSE /\ d'[s].dead = TRUE /\ d'[s].code = Code(d[s].del)
  <2>. TAKE s \in Slot
  <2>1. d[s] \in [used : BOOLEAN, out : BOOLEAN, dead : BOOLEAN, code : Nat, output : Nat,
                  cut : BOOLEAN, del : Nat]
    BY DEF SpawnInv, SpawnTypeOK
  <2>. QED  BY <2>1, <1>1 DEF DeadChild, Code
<1>b. Busy' = Busy /\ \A m \in Del : Fresh(m) => Fresh(m)'
  BY <1>1, <1>a DEF Busy, Fresh, Zombies
<1>c. \A m \in Del : /\ kst'[m] = IF kst[m] = "zombie" THEN "gone" ELSE kst[m]
                     /\ m \in Zombies <=> kst[m] = "zombie"
  BY <1>1 DEF Zombies
<1>2. SpawnTypeOK'
  <2>1. kst' \in [Del -> {"new", "run", "zombie", "gone"}]
    BY <1>1 DEF SpawnInv, SpawnTypeOK
  <2>2. d' \in [Slot -> [used : BOOLEAN, out : BOOLEAN, dead : BOOLEAN, code : Nat,
                     output : Nat, cut : BOOLEAN, del : Nat]]
    BY <1>1, <1>a
  <2>. QED  BY <1>1, <2>1, <2>2 DEF SpawnInv, SpawnTypeOK
<1>3. Commands'
  <2>1. \A k \in DOMAIN cmdq : cmdq[k][2] \in Del  BY DEF SpawnInv, SpawnTypeOK
  <2>2. \A m \in Del : m > lastdel => Fresh(m)'  BY <1>b DEF SpawnInv, Commands
  <2>3. \A k \in DOMAIN cmdq : Fresh(cmdq[k][2])'
    BY <1>1, <1>b, <2>1 DEF SpawnInv, Commands
  <2>. QED  BY <1>1, <1>b, <2>2, <2>3 DEF SpawnInv, Commands
<1>4. Slots'
  <2>1. ASSUME NEW s \in Busy
        PROVE  /\ d'[s].del \in Del /\ d'[s].del <= lastdel /\ d'[s].out = ~d'[s].dead
               /\ Retained(d'[s].cut, d'[s].output, inpipe[d'[s].del], wrote[d'[s].del])
               /\ IF d'[s].dead THEN kst'[d'[s].del] = "gone" /\ d'[s].code = Code(d'[s].del)
                                ELSE kst'[d'[s].del] \in {"run", "zombie"}
               /\ sendup => assigned[s] = d'[s].del
    <3>1. s \in Slot  BY DEF Busy
    <3>2. /\ d[s].del \in Del /\ d[s].del <= lastdel /\ d[s].out = ~d[s].dead
          /\ Retained(d[s].cut, d[s].output, inpipe[d[s].del], wrote[d[s].del])
          /\ IF d[s].dead THEN kst[d[s].del] = "gone" /\ d[s].code = Code(d[s].del)
                          ELSE kst[d[s].del] \in {"run", "zombie"}
          /\ sendup => assigned[s] = d[s].del
      BY DEF SpawnInv, Slots
    <3>. QED  BY <3>1, <3>2, <1>a, <1>c DEF Busy
  <2>2. \A s, t \in Busy : d'[s].del = d'[t].del => s = t
    BY <1>a DEF SpawnInv, Slots, Busy
  <2>3. ASSUME NEW n \in Del, kst'[n] \in {"run", "zombie"}
        PROVE  \E s \in Busy : d'[s].del = n /\ ~d'[s].dead
    <3>1. kst[n] = "run"  BY <2>3, <1>c DEF SpawnInv, SpawnTypeOK
    <3>2. PICK s \in Busy : d[s].del = n /\ ~d[s].dead
      BY <3>1 DEF SpawnInv, Slots
    <3>3. s \in Slot /\ d[s].del \notin Zombies  BY <3>1, <3>2, <1>c DEF Busy
    <3>4. d'[s] = d[s]  BY <3>3, <1>a
    <3>. QED  BY <3>2, <3>4
  <2>. QED  BY <2>1, <2>2, <2>3, <1>1, <1>b, SMTT(20) DEF Slots, Code
<1>5. Readable'
  <2>1. ASSUME NEW s \in rfds
        PROVE  s \in Busy /\ (inpipe[d'[s].del] > 0 \/ (~kopen[d'[s].del] /\ ~d'[s].out))
    <3>1. s \in Busy /\ s \in Slot /\ PipeReadable(s)
      BY DEF SpawnInv, Readable, Busy
    <3>. QED  BY <3>1, <1>a DEF PipeReadable
  <2>. QED  BY <2>1, <1>1, <1>b DEF Readable, PipeReadable
<1>6. Reports'
  <2>1. \A k \in DOMAIN reps : reps[k].del \in Del  BY ReportedDel
  <2>. QED  BY <2>1, <1>1, <1>b, <1>c DEF SpawnInv, Reports
<1>. QED  BY <1>1, <1>2, <1>3, <1>4, <1>5, <1>6 DEF SpawnInv

\* spawn takes the next command: its delivery is fresh, its slot is free, and
\* neither is in what is left of the pipe.
LEMMA CommandTaken ==
  ASSUME SpawnInv, NEW s \in Slot, NEW n \in Del, NextCommand(s, n)
  PROVE  /\ n <= lastdel /\ Fresh(n) /\ s \notin Busy /\ (sendup => assigned[s] = n)
         /\ cmdq' \in Seq(Slot \X Del) /\ dpc' \in {"read", "more"}
         /\ \A k \in DOMAIN cmdq' :
              /\ cmdq'[k] \in Slot \X Del
              /\ cmdq'[k][1] # s /\ cmdq'[k][2] # n
              /\ cmdq'[k][2] <= lastdel /\ Fresh(cmdq'[k][2]) /\ cmdq'[k][1] \notin Busy
              /\ sendup => assigned[cmdq'[k][1]] = cmdq'[k][2]
              /\ \A j \in DOMAIN reps : cmdq'[k][1] # reps[j].slot
              /\ \A l \in DOMAIN cmdq' :
                   cmdq'[k][1] = cmdq'[l][1] \/ cmdq'[k][2] = cmdq'[l][2] => k = l
         /\ \A j \in DOMAIN reps : reps[j].slot # s
<1>1. /\ cmdq \in Seq(Slot \X Del) /\ cmdq # <<>> /\ cmdq' = Tail(cmdq)
      /\ Head(cmdq) = <<s, n>> /\ dpc' \in {"read", "more"}
  BY DEF NextCommand, SpawnInv, SpawnTypeOK
<1>2. /\ cmdq' \in Seq(Slot \X Del) /\ 1 \in DOMAIN cmdq /\ cmdq[1] = <<s, n>>
      /\ DOMAIN cmdq' \subseteq Nat
      /\ \A k \in DOMAIN cmdq' : k + 1 \in DOMAIN cmdq /\ k + 1 # 1 /\ cmdq'[k] = cmdq[k + 1]
  BY <1>1, TailFacts
<1>3. cmdq[1][1] = s /\ cmdq[1][2] = n  BY <1>2
<1>4. n <= lastdel /\ Fresh(n) /\ s \notin Busy /\ (sendup => assigned[s] = n)
  BY <1>2, <1>3 DEF SpawnInv, Commands
<1>5. \A j \in DOMAIN reps : reps[j].slot # s
  BY <1>2, <1>3 DEF SpawnInv, Reports
<1>6. ASSUME NEW k \in DOMAIN cmdq'
      PROVE  /\ cmdq'[k] \in Slot \X Del
             /\ cmdq'[k][1] # s /\ cmdq'[k][2] # n
             /\ cmdq'[k][2] <= lastdel /\ Fresh(cmdq'[k][2]) /\ cmdq'[k][1] \notin Busy
             /\ sendup => assigned[cmdq'[k][1]] = cmdq'[k][2]
             /\ \A j \in DOMAIN reps : cmdq'[k][1] # reps[j].slot
  <2>1. k + 1 \in DOMAIN cmdq /\ k + 1 # 1 /\ cmdq'[k] = cmdq[k + 1] /\ cmdq[k + 1] \in Slot \X Del
    BY <1>1, <1>2
  <2>2. cmdq[k + 1][1] # s /\ cmdq[k + 1][2] # n
    BY <2>1, <1>2, <1>3 DEF SpawnInv, Commands
  <2>. QED  BY <2>1, <2>2 DEF SpawnInv, Commands, Reports
<1>7. ASSUME NEW k \in DOMAIN cmdq', NEW l \in DOMAIN cmdq',
             cmdq'[k][1] = cmdq'[l][1] \/ cmdq'[k][2] = cmdq'[l][2]
      PROVE  k = l
  <2>1. /\ k + 1 \in DOMAIN cmdq /\ l + 1 \in DOMAIN cmdq /\ k \in Nat /\ l \in Nat
        /\ cmdq[k + 1][1] = cmdq[l + 1][1] \/ cmdq[k + 1][2] = cmdq[l + 1][2]
    BY <1>2, <1>7
  <2>2. k + 1 = l + 1  BY <2>1 DEF SpawnInv, Commands
  <2>. QED  BY <2>1, <2>2
<1>. QED  BY <1>1, <1>2, <1>4, <1>5, <1>6, <1>7

\* What is left of the commands keeps its part of the invariant.
LEMMA CommandsKept ==
  ASSUME SpawnInv, NEW s \in Slot, NEW n \in Del, NextCommand(s, n),
         UNCHANGED <<lastdel, sendup, assigned>>,
         \A m \in Del : m # n => /\ kst'[m] = kst[m] /\ kopen'[m] = kopen[m]
                                 /\ wrote'[m] = wrote[m] /\ inpipe'[m] = inpipe[m],
         Busy' \subseteq Busy \cup {s}
  PROVE  Commands'
<1>1. \A m \in Del : m # n /\ Fresh(m) => Fresh(m)'
  BY DEF Fresh
<1>2. ASSUME NEW m \in Del, m > lastdel PROVE Fresh(m)'
  <2>1. n <= lastdel /\ lastdel \in Nat  BY CommandTaken DEF SpawnInv, SpawnTypeOK
  <2>2. m # n  BY <1>2, <2>1 DEF Del
  <2>. QED  BY <1>1, <1>2, <2>2 DEF SpawnInv, Commands
<1>3. ASSUME NEW k \in DOMAIN cmdq'
      PROVE  /\ cmdq'[k][2] <= lastdel /\ cmdq'[k][1] \notin Busy'
             /\ kst'[cmdq'[k][2]] = "new" /\ ~kopen'[cmdq'[k][2]]
             /\ wrote'[cmdq'[k][2]] = 0 /\ inpipe'[cmdq'[k][2]] = 0
             /\ sendup => assigned[cmdq'[k][1]] = cmdq'[k][2]
             /\ \A l \in DOMAIN cmdq' :
                  cmdq'[k][1] = cmdq'[l][1] \/ cmdq'[k][2] = cmdq'[l][2] => k = l
  <2>1. /\ cmdq'[k] \in Slot \X Del /\ cmdq'[k][1] # s /\ cmdq'[k][2] # n
        /\ cmdq'[k][2] <= lastdel /\ Fresh(cmdq'[k][2]) /\ cmdq'[k][1] \notin Busy
        /\ sendup => assigned[cmdq'[k][1]] = cmdq'[k][2]
        /\ \A l \in DOMAIN cmdq' :
                  cmdq'[k][1] = cmdq'[l][1] \/ cmdq'[k][2] = cmdq'[l][2] => k = l
    BY CommandTaken
  <2>2. cmdq'[k][2] \in Del  BY <2>1
  <2>. QED  BY <2>1, <2>2 DEF Fresh
<1>. QED  BY <1>2, <1>3 DEF Commands, Fresh

\* docmd() refuses the command.
LEMMA StepDocmdErr ==
  ASSUME SpawnInv, NEW s \in Slot, NEW n \in Del, DocmdErr(s, n)
  PROVE  SpawnInv'
<1>. DEFINE r == [slot |-> s, del |-> n, err |-> TRUE, code |-> 0, text |-> 0, cut |-> FALSE]
<1>1. /\ NextCommand(s, n)
      /\ reps' = IF sendup /\ flagwriting THEN Append(reps, r) ELSE reps
      /\ flagwriting' = (flagwriting /\ sendup)
      /\ UNCHANGED <<assigned, lastdel, sendup, rfds, rcmd, flagreading, d,
                     kst, kopen, wrote, inpipe>>
  BY DEF DocmdErr, Err, Write, sender, kidsd
<1>a. Busy' = Busy  BY <1>1 DEF Busy
<1>b. Commands'
  BY <1>1, <1>a, CommandsKept
<1>c. /\ r \in Report /\ r.slot = s /\ r.del = n /\ r.err = TRUE /\ reps \in Seq(Report)
  BY DEF Report, SpawnInv, SpawnTypeOK
<1>d. /\ n <= lastdel /\ s \notin Busy /\ (sendup => assigned[s] = n)
      /\ cmdq' \in Seq(Slot \X Del) /\ dpc' \in {"read", "more"}
      /\ \A k \in DOMAIN cmdq' : cmdq'[k][1] # s /\ \A j \in DOMAIN reps : cmdq'[k][1] # reps[j].slot
      /\ \A j \in DOMAIN reps : reps[j].slot # s
  BY <1>1, CommandTaken
<1>. HIDE DEF r
<1>e. /\ reps' \in Seq(Report)
      /\ \A k \in DOMAIN reps' :
           \/ k \in DOMAIN reps /\ reps'[k] = reps[k]
           \/ k = Len(reps) + 1 /\ k \notin DOMAIN reps /\ reps'[k] = r
  BY <1>1, <1>c, AppendFacts
<1>2. SpawnTypeOK'
  BY <1>1, <1>d, <1>e DEF SpawnInv, SpawnTypeOK
<1>3. Slots' /\ Readable'
  BY <1>1, <1>a DEF SpawnInv, Slots, Readable, PipeReadable
<1>4. Reports'
  <2>1. CASE ~sendup
    BY <2>1, <1>1, <1>a DEF SpawnInv, Reports
  <2>2. CASE sendup
    <3>1. ASSUME NEW k \in DOMAIN reps'
          PROVE  /\ reps'[k].del <= lastdel
                 /\ assigned[reps'[k].slot] = reps'[k].del /\ reps'[k].slot \notin Busy
                 /\ \A l \in DOMAIN cmdq' : cmdq'[l][1] # reps'[k].slot
                 /\ ~reps'[k].err => /\ kst[reps'[k].del] = "gone" /\ ~kopen[reps'[k].del]
                                    /\ reps'[k].code = Code(reps'[k].del)
                                    /\ Whole(reps'[k].cut, reps'[k].text, wrote[reps'[k].del])
      <4>1. CASE k \in DOMAIN reps /\ reps'[k] = reps[k]
        BY <4>1, <1>d DEF SpawnInv, Reports
      <4>2. CASE reps'[k] = r
        BY <4>2, <1>c, <1>d, <2>2
      <4>. QED  BY <4>1, <4>2, <1>e
    <3>2. ASSUME NEW k \in DOMAIN reps', NEW l \in DOMAIN reps', reps'[l].slot = reps'[k].slot
          PROVE  l = k
      <4>1. CASE /\ k \in DOMAIN reps /\ reps'[k] = reps[k]
                 /\ l \in DOMAIN reps /\ reps'[l] = reps[l]
        BY <4>1, <3>2 DEF SpawnInv, Reports
      <4>. QED  BY <4>1, <3>2, <1>c, <1>d, <1>e
    <3>3. flagwriting' /\ (Code(0)' = Code(0))  BY <2>2, <1>1 DEF SpawnInv, Reports, Code
    <3>. QED  BY <3>1, <3>2, <3>3, <2>2, <1>1, <1>a DEF Reports, Code
  <2>. QED  BY <2>1, <2>2
<1>. QED  BY <1>a, <1>b, <1>d, <1>2, <1>3, <1>4 DEF SpawnInv

\* docmd() forks.
LEMMA StepDocmd ==
  ASSUME SpawnInv, NEW s \in Slot, NEW n \in Del, Docmd(s, n)
  PROVE  SpawnInv'
<1>1. /\ NextCommand(s, n) /\ ~d[s].used
      /\ d' = [d EXCEPT ![s] = Begun(n)]
      /\ kst' = [kst EXCEPT ![n] = "run"] /\ kopen' = [kopen EXCEPT ![n] = TRUE]
      /\ UNCHANGED <<assigned, lastdel, sendup, reps, rfds, rcmd, flagreading, flagwriting,
                     wrote, inpipe>>
  BY DEF Docmd, sender, flagsd
<1>a. /\ Begun(n) \in [used : BOOLEAN, out : BOOLEAN, dead : BOOLEAN, code : Nat,
                       output : Nat, cut : BOOLEAN, del : Nat]
      /\ Begun(n).used = TRUE /\ Begun(n).out = TRUE /\ Begun(n).dead = FALSE
      /\ Begun(n).output = 0 /\ Begun(n).cut = FALSE /\ Begun(n).del = n
  <2>1. n \in Nat  BY DEF Del
  <2>. DEFINE Rec == [used : BOOLEAN, out : BOOLEAN, dead : BOOLEAN, code : Nat,
                      output : Nat, cut : BOOLEAN, del : Nat]
              u == [Unused EXCEPT !.used = TRUE]
              o == [u EXCEPT !.out = TRUE]
  <2>2. /\ Unused \in Rec /\ Unused.out = FALSE /\ Unused.dead = FALSE /\ Unused.output = 0
        /\ Unused.cut = FALSE
    BY DEF Unused
  <2>3. u \in Rec /\ u.used = TRUE /\ u.dead = FALSE /\ u.output = 0 /\ u.cut = FALSE
    BY <2>2
  <2>. HIDE DEF u
  <2>4. o \in Rec /\ o.used = TRUE /\ o.out = TRUE /\ o.dead = FALSE /\ o.output = 0
        /\ o.cut = FALSE
    BY <2>3
  <2>5. Begun(n) = [o EXCEPT !.del = n]
    BY DEF Begun, u
  <2>. HIDE DEF o
  <2>. QED  BY <2>1, <2>4, <2>5
<1>b. /\ n <= lastdel /\ Fresh(n) /\ s \notin Busy /\ (sendup => assigned[s] = n)
      /\ cmdq' \in Seq(Slot \X Del) /\ dpc' \in {"read", "more"}
      /\ \A k \in DOMAIN cmdq' : \A j \in DOMAIN reps : cmdq'[k][1] # reps[j].slot
      /\ \A j \in DOMAIN reps : reps[j].slot # s
  BY <1>1, CommandTaken
<1>c. /\ kst \in [Del -> {"new", "run", "zombie", "gone"}] /\ kopen \in [Del -> BOOLEAN]
      /\ d \in [Slot -> [used : BOOLEAN, out : BOOLEAN, dead : BOOLEAN, code : Nat,
                         output : Nat, cut : BOOLEAN, del : Nat]]
  BY DEF SpawnInv, SpawnTypeOK
<1>. HIDE DEF Begun
<1>d. /\ \A t \in Slot : t # s => d'[t] = d[t]
      /\ d'[s] = Begun(n)
      /\ \A m \in Del : m # n => kst'[m] = kst[m] /\ kopen'[m] = kopen[m]
      /\ kst'[n] = "run"
  BY <1>1, <1>c
<1>e. Busy' = Busy \cup {s}
  BY <1>a, <1>c, <1>d DEF Busy
<1>f. \A t \in Busy : t # s /\ t \in Slot /\ d[t].del \in Del /\ d[t].del # n
  BY <1>b DEF SpawnInv, Slots, Busy, Fresh
<1>2. SpawnTypeOK'
  <2>1. kst' \in [Del -> {"new", "run", "zombie", "gone"}] /\ kopen' \in [Del -> BOOLEAN]
    BY <1>1, <1>c
  <2>2. d' \in [Slot -> [used : BOOLEAN, out : BOOLEAN, dead : BOOLEAN, code : Nat,
                         output : Nat, cut : BOOLEAN, del : Nat]]
    BY <1>1, <1>a, <1>c
  <2>. QED  BY <1>1, <1>b, <2>1, <2>2 DEF SpawnInv, SpawnTypeOK
<1>3. Commands'
  BY <1>1, <1>d, <1>e, CommandsKept
<1>4. Slots'
  <2>1. ASSUME NEW t \in Busy'
        PROVE  /\ d'[t].del \in Del /\ d'[t].del <= lastdel
               /\ d'[t].out = ~d'[t].dead
               /\ Retained(d'[t].cut, d'[t].output, inpipe[d'[t].del], wrote[d'[t].del])
               /\ IF d'[t].dead THEN kst'[d'[t].del] = "gone" /\ d'[t].code = Code(d'[t].del)
                                ELSE kst'[d'[t].del] \in {"run", "zombie"}
               /\ sendup => assigned[t] = d'[t].del
    <3>1. CASE t = s
      BY <3>1, <1>a, <1>b, <1>d DEF Fresh, Retained
    <3>2. CASE t \in Busy /\ t # s
      BY <3>2, <1>d, <1>f DEF SpawnInv, Slots
    <3>. QED  BY <3>1, <3>2, <1>e
  <2>2. ASSUME NEW t \in Busy', NEW u \in Busy', d'[t].del = d'[u].del
        PROVE  t = u
    <3>1. CASE t \in Busy /\ u \in Busy
      BY <3>1, <2>2, <1>d, <1>f DEF SpawnInv, Slots
    <3>. QED  BY <3>1, <2>2, <1>a, <1>d, <1>e, <1>f
  <2>3. ASSUME NEW m \in Del, kst'[m] \in {"run", "zombie"}
        PROVE  \E t \in Busy' : d'[t].del = m /\ ~d'[t].dead
    <3>1. CASE m = n
      BY <3>1, <1>a, <1>d, <1>e
    <3>2. CASE m # n
      <4>1. PICK t \in Busy : d[t].del = m /\ ~d[t].dead
        BY <3>2, <2>3, <1>d DEF SpawnInv, Slots
      <4>. QED  BY <4>1, <1>d, <1>e, <1>f
    <3>. QED  BY <3>1, <3>2
  <2>. QED  BY <2>1, <2>2, <2>3, <1>1 DEF Slots, Code
<1>5. Readable'
  <2>1. ASSUME NEW t \in rfds
        PROVE  t \in Busy' /\ (inpipe[d'[t].del] > 0 \/ (~kopen'[d'[t].del] /\ ~d'[t].out))
    <3>1. t \in Busy /\ PipeReadable(t)  BY DEF SpawnInv, Readable
    <3>. QED  BY <3>1, <1>d, <1>e, <1>f DEF PipeReadable
  <2>. QED  BY <2>1, <1>1 DEF Readable, PipeReadable
<1>6. Reports'
  <2>1. ASSUME NEW k \in DOMAIN reps
        PROVE  /\ reps[k].slot \notin Busy'
               /\ \A l \in DOMAIN cmdq' : cmdq'[l][1] # reps[k].slot
               /\ ~reps[k].err => kst'[reps[k].del] = "gone" /\ ~kopen'[reps[k].del]
    <3>1. reps[k].del \in Del /\ reps[k].slot \notin Busy
      BY ReportedDel DEF SpawnInv, Reports
    <3>2. ~reps[k].err => reps[k].del # n
      BY <1>b DEF SpawnInv, Reports, Fresh
    <3>. QED  BY <3>1, <3>2, <1>b, <1>d, <1>e DEF SpawnInv, Reports
  <2>. QED  BY <2>1, <1>1 DEF SpawnInv, Reports
<1>. QED  BY <1>b, <1>2, <1>3, <1>4, <1>5, <1>6 DEF SpawnInv

\* spawn reads what a child has written.
LEMMA StepReadOutput ==
  ASSUME SpawnInv, NEW s \in Slot, ReadOutput(s)
  PROVE  SpawnInv'
<1>. DEFINE n == d[s].del
            e == ReadInto(d[s], inpipe[n])
<1>1. /\ dpc = "read" /\ s \in rfds /\ inpipe[n] > 0 /\ rfds' = rfds \ {s}
      /\ d' = [d EXCEPT ![s] = e]
      /\ inpipe' = [inpipe EXCEPT ![n] = 0]
      /\ UNCHANGED <<assigned, lastdel, sendup, cmdq, reps, dpc, rcmd, flagreading, flagwriting,
                     kst, kopen, wrote>>
  BY DEF ReadOutput, sender, pipes, flagsd
<1>a. s \in Busy /\ n \in Del /\ \A t \in Busy : t # s => d[t].del # n
  BY <1>1 DEF SpawnInv, Readable, Slots
<1>b. /\ d \in [Slot -> [used : BOOLEAN, out : BOOLEAN, dead : BOOLEAN, code : Nat,
                         output : Nat, cut : BOOLEAN, del : Nat]]
      /\ inpipe \in [Del -> Nat]
  BY DEF SpawnInv, SpawnTypeOK
<1>c. /\ e \in [used : BOOLEAN, out : BOOLEAN, dead : BOOLEAN, code : Nat,
                output : Nat, cut : BOOLEAN, del : Nat]
      /\ e.used = d[s].used /\ e.out = d[s].out /\ e.dead = d[s].dead /\ e.code = d[s].code
      /\ e.del = n /\ Retained(e.cut, e.output, 0, wrote[n])
  <2>1. d[s] \in [used : BOOLEAN, out : BOOLEAN, dead : BOOLEAN, code : Nat,
                  output : Nat, cut : BOOLEAN, del : Nat]
        /\ inpipe[n] \in Nat
    BY <1>a, <1>b
  <2>2. wrote[n] \in Nat  BY <1>a DEF SpawnInv, SpawnTypeOK
  <2>3. Retained(d[s].cut, d[s].output, inpipe[n], wrote[n])  BY <1>a DEF SpawnInv, Slots
  <2>. QED  BY <2>1, <2>2, <2>3, KeptRead
<1>d. /\ d' = [d EXCEPT ![s] = e]
      /\ \A m \in Del : inpipe'[m] = IF m = n THEN 0 ELSE inpipe[m]
  BY <1>1, <1>b
<1>. HIDE DEF e
<1>e. \A t \in Slot : d'[t] = IF t = s THEN e ELSE d[t]
  BY <1>b, <1>d
<1>f. Busy' = Busy
  BY <1>b, <1>c, <1>e, <1>1, <1>d DEF Busy
<1>2. SpawnTypeOK'
  <2>1. d' \in [Slot -> [used : BOOLEAN, out : BOOLEAN, dead : BOOLEAN, code : Nat,
                         output : Nat, cut : BOOLEAN, del : Nat]]
    BY <1>b, <1>c, <1>d
  <2>2. inpipe' \in [Del -> Nat]  BY <1>1, <1>b
  <2>. QED  BY <1>1, <2>1, <2>2 DEF SpawnInv, SpawnTypeOK
<1>3. Commands'
  <2>1. \A m \in Del : Fresh(m) => Fresh(m)'
    BY <1>1, <1>d DEF Fresh
  <2>2. \A k \in DOMAIN cmdq : cmdq[k][2] \in Del  BY DEF SpawnInv, SpawnTypeOK
  <2>3. \A m \in Del : m > lastdel => Fresh(m)'  BY <2>1 DEF SpawnInv, Commands
  <2>4. \A k \in DOMAIN cmdq : Fresh(cmdq[k][2])'
    BY <1>1, <2>1, <2>2 DEF SpawnInv, Commands
  <2>. QED  BY <1>1, <1>f, <2>3, <2>4 DEF SpawnInv, Commands
<1>4. Slots'
  <2>1. ASSUME NEW t \in Busy
        PROVE  /\ d'[t].del = d[t].del /\ d'[t].out = d[t].out /\ d'[t].dead = d[t].dead
               /\ d'[t].code = d[t].code
    BY <1>c, <1>e DEF Busy
  <2>2. ASSUME NEW t \in Busy
        PROVE  Retained(d'[t].cut, d'[t].output, inpipe'[d'[t].del], wrote[d'[t].del])
    <3>1. /\ t \in Slot /\ d[t].del \in Del
          /\ Retained(d[t].cut, d[t].output, inpipe[d[t].del], wrote[d[t].del])
      BY DEF Busy, SpawnInv, Slots
    <3>2. CASE t = s
      BY <3>1, <3>2, <1>c, <1>d, <1>e
    <3>3. CASE t # s
      BY <3>1, <3>3, <1>a, <1>d, <1>e
    <3>. QED  BY <3>2, <3>3
  <2>. QED  BY <2>1, <2>2, <1>1, <1>f DEF SpawnInv, Slots
<1>5. Readable'
  <2>1. ASSUME NEW t \in rfds'
        PROVE  t \in Busy /\ (inpipe'[d'[t].del] > 0 \/ (~kopen[d'[t].del] /\ ~d'[t].out))
    <3>1. t \in rfds /\ t # s /\ t \in Busy /\ t \in Slot /\ PipeReadable(t)
      BY <1>1 DEF SpawnInv, Readable, Busy
    <3>2. d[t].del \in Del /\ d[t].del # n
      BY <3>1, <1>a DEF SpawnInv, Slots
    <3>. QED  BY <3>1, <3>2, <1>d, <1>e DEF PipeReadable
  <2>. QED  BY <2>1, <1>1, <1>f DEF Readable, PipeReadable
<1>6. Reports'
  BY <1>1, <1>f DEF SpawnInv, Reports
<1>. QED  BY <1>1, <1>2, <1>3, <1>4, <1>5, <1>6 DEF SpawnInv

\* report(): the slot becomes free.
LEMMA StepReportD ==
  ASSUME SpawnInv, NEW s \in Slot, ReportD(s)
  PROVE  SpawnInv'
<1>. DEFINE n == d[s].del
            r == [slot |-> s, del |-> d[s].del, err |-> FALSE, code |-> d[s].code,
                  text |-> d[s].output, cut |-> d[s].cut]
<1>1. /\ dpc = "read" /\ s \in rfds /\ inpipe[n] = 0 /\ rfds' = rfds \ {s}
      /\ reps' = IF sendup /\ flagwriting THEN Append(reps, r) ELSE reps
      /\ flagwriting' = (flagwriting /\ sendup)
      /\ d' = [d EXCEPT ![s] = Unused]
      /\ UNCHANGED <<assigned, lastdel, sendup, cmdq, dpc, rcmd, flagreading,
                     kst, kopen, wrote, inpipe>>
  BY DEF ReportD, Write, sender, kidsd
<1>a. /\ s \in Busy /\ n \in Del /\ n <= lastdel /\ d[s].dead /\ kst[n] = "gone" /\ ~kopen[n]
      /\ d[s].code = Code(n) /\ Whole(d[s].cut, d[s].output, wrote[n])
      /\ (sendup => assigned[s] = n)
      /\ \A t \in Busy : t # s => d[t].del # n
  <2>1. s \in Busy /\ ~kopen[n] /\ ~d[s].out
    BY <1>1 DEF SpawnInv, Readable, PipeReadable
  <2>2. d[s].output \in Nat  BY DEF SpawnInv, SpawnTypeOK
  <2>3. /\ n \in Del /\ n <= lastdel /\ (sendup => assigned[s] = n)
        /\ \A t \in Busy : t # s => d[t].del # n
    BY <2>1 DEF SpawnInv, Slots
  <2>4. d[s].out = ~d[s].dead /\ (d[s].dead => kst[n] = "gone" /\ d[s].code = Code(n))
    BY <2>1 DEF SpawnInv, Slots
  <2>5. d[s].dead  BY <2>1, <2>4
  <2>6. Retained(d[s].cut, d[s].output, inpipe[n], wrote[n])
    BY <2>1 DEF SpawnInv, Slots
  <2>7. Whole(d[s].cut, d[s].output, wrote[n])
    <3>1. truncreport \in Nat  BY SpawnAssumption
    <3>2. CASE d[s].cut  BY <1>1, <2>6, <3>1, <3>2 DEF Retained, Whole
    <3>3. CASE ~d[s].cut  BY <1>1, <2>2, <2>6, <3>3 DEF Retained, Whole
    <3>. QED  BY <3>2, <3>3
  <2>. QED  BY <1>1, <2>1, <2>3, <2>4, <2>5, <2>7
<1>b. /\ d \in [Slot -> [used : BOOLEAN, out : BOOLEAN, dead : BOOLEAN, code : Nat,
                         output : Nat, cut : BOOLEAN, del : Nat]]
      /\ Unused \in [used : BOOLEAN, out : BOOLEAN, dead : BOOLEAN, code : Nat,
                         output : Nat, cut : BOOLEAN, del : Nat]
      /\ Unused.used = FALSE /\ reps \in Seq(Report)
  BY DEF SpawnInv, SpawnTypeOK, Unused
<1>c. /\ r \in Report /\ r.slot = s /\ r.del = n /\ r.err = FALSE /\ r.code = Code(n)
      /\ Whole(r.cut, r.text, wrote[n])
  BY <1>a, <1>b DEF Report
<1>. HIDE DEF Unused, r
<1>d. /\ reps' \in Seq(Report)
      /\ \A k \in DOMAIN reps' :
           \/ k \in DOMAIN reps /\ reps'[k] = reps[k]
           \/ k = Len(reps) + 1 /\ k \notin DOMAIN reps /\ reps'[k] = r
  BY <1>1, <1>b, <1>c, AppendFacts
<1>e. \A t \in Slot : d'[t] = IF t = s THEN Unused ELSE d[t]
  BY <1>1, <1>b
<1>f. Busy' = Busy \ {s}
  BY <1>b, <1>e DEF Busy
<1>g. /\ \A k \in DOMAIN cmdq : sendup => cmdq[k][1] # s
      /\ \A j \in DOMAIN reps : reps[j].slot # s
  BY <1>a DEF SpawnInv, Commands, Reports
<1>2. SpawnTypeOK'
  <2>1. d' \in [Slot -> [used : BOOLEAN, out : BOOLEAN, dead : BOOLEAN, code : Nat,
                         output : Nat, cut : BOOLEAN, del : Nat]]
    BY <1>1, <1>b
  <2>. QED  BY <1>1, <1>d, <2>1 DEF SpawnInv, SpawnTypeOK
<1>3. Commands'
  BY <1>1, <1>f DEF SpawnInv, Commands, Fresh
<1>4. Slots'
  <2>1. ASSUME NEW t \in Busy' PROVE t \in Busy /\ t # s /\ d'[t] = d[t]
    BY <1>e, <1>f DEF Busy
  <2>2. ASSUME NEW m \in Del, kst[m] \in {"run", "zombie"}
        PROVE  \E t \in Busy' : d'[t].del = m /\ ~d'[t].dead
    <3>1. PICK t \in Busy : d[t].del = m /\ ~d[t].dead
      BY <2>2 DEF SpawnInv, Slots
    <3>2. t # s /\ t \in Slot  BY <3>1, <1>a DEF Busy
    <3>. QED  BY <3>1, <3>2, <1>e, <1>f
  <2>3. \A t \in Busy' :
          /\ d'[t].del \in Del /\ d'[t].del <= lastdel
          /\ d'[t].out = ~d'[t].dead
          /\ Retained(d'[t].cut, d'[t].output, inpipe[d'[t].del], wrote[d'[t].del])
          /\ IF d'[t].dead THEN kst[d'[t].del] = "gone" /\ d'[t].code = Code(d'[t].del)
                           ELSE kst[d'[t].del] \in {"run", "zombie"}
          /\ sendup => assigned[t] = d'[t].del
          /\ \A u \in Busy' : d'[t].del = d'[u].del => t = u
    BY <2>1 DEF SpawnInv, Slots
  <2>. QED  BY <2>2, <2>3, <1>1 DEF Slots, Code
<1>5. Readable'
  <2>1. ASSUME NEW t \in rfds'
        PROVE  t \in Busy' /\ (inpipe[d'[t].del] > 0 \/ (~kopen[d'[t].del] /\ ~d'[t].out))
    <3>1. t \in rfds /\ t # s /\ t \in Busy /\ t \in Slot /\ PipeReadable(t)
      BY <1>1 DEF SpawnInv, Readable, Busy
    <3>. QED  BY <3>1, <1>e, <1>f DEF PipeReadable
  <2>. QED  BY <2>1, <1>1 DEF Readable, PipeReadable
<1>6. Reports'
  <2>1. CASE ~sendup
    BY <2>1, <1>1, <1>f DEF SpawnInv, Reports
  <2>2. CASE sendup
    <3>1. ASSUME NEW k \in DOMAIN reps'
          PROVE  /\ reps'[k].del <= lastdel
                 /\ assigned[reps'[k].slot] = reps'[k].del /\ reps'[k].slot \notin Busy'
                 /\ \A l \in DOMAIN cmdq : cmdq[l][1] # reps'[k].slot
                 /\ ~reps'[k].err => /\ kst[reps'[k].del] = "gone" /\ ~kopen[reps'[k].del]
                                    /\ reps'[k].code = Code(reps'[k].del)
                                    /\ Whole(reps'[k].cut, reps'[k].text, wrote[reps'[k].del])
      <4>1. CASE k \in DOMAIN reps /\ reps'[k] = reps[k]
        BY <4>1, <1>f DEF SpawnInv, Reports
      <4>2. CASE reps'[k] = r
        BY <4>2, <1>a, <1>c, <1>f, <1>g, <2>2
      <4>. QED  BY <4>1, <4>2, <1>d
    <3>2. ASSUME NEW k \in DOMAIN reps', NEW l \in DOMAIN reps', reps'[l].slot = reps'[k].slot
          PROVE  l = k
      <4>1. CASE /\ k \in DOMAIN reps /\ reps'[k] = reps[k]
                 /\ l \in DOMAIN reps /\ reps'[l] = reps[l]
        BY <4>1, <3>2 DEF SpawnInv, Reports
      <4>. QED  BY <4>1, <3>2, <1>c, <1>d, <1>g
    <3>3. flagwriting'  BY <2>2, <1>1 DEF SpawnInv, Reports
    <3>. QED  BY <3>1, <3>2, <3>3, <2>2, <1>1 DEF Reports, Code
  <2>. QED  BY <2>1, <2>2
<1>. QED  BY <1>1, <1>2, <1>3, <1>4, <1>5, <1>6 DEF SpawnInv

LEMMA SpawnStutter ==
  ASSUME SpawnInv, UNCHANGED spawnVars
  PROVE  SpawnInv'
<1>1. UNCHANGED <<assigned, lastdel, sendup, cmdq, reps, dpc, rfds, rcmd, flagreading,
                  flagwriting, d, kst, kopen, wrote, inpipe>>
  BY DEF spawnVars, sender, pipes, kidsd, loopd, flagsd
<1>2. SpawnTypeOK'  BY <1>1 DEF SpawnInv, SpawnTypeOK
<1>3. Commands'  BY <1>1 DEF SpawnInv, Commands, Fresh, Busy
<1>4. Slots' /\ Readable' /\ Reports'
  BY <1>1 DEF SpawnInv, Slots, Readable, Reports, PipeReadable, Busy
<1>. QED  BY <1>1, <1>2, <1>3, <1>4 DEF SpawnInv, Busy

LEMMA SpawnInvSafe ==
  ASSUME SpawnInv
  PROVE  SpawnSafe
<1>1. Attributed
  <2>1. ASSUME sendup, NEW k \in DOMAIN reps, NEW s \in Busy PROVE reps[k].slot # s
    BY DEF SpawnInv, Reports
  <2>. QED  BY <2>1 DEF SpawnInv, Reports, Slots, Commands, Attributed, Whole
<1>2. LeavesLast
  BY DEF SpawnInv, Slots, LeavesLast, SpawnTypeOK
<1>. QED  BY <1>1, <1>2 DEF SpawnSafe

\* spawn.c: a report is about the delivery that qmail-send waits for in that
\* slot, tells the status of a child that has died and all its output (or, of
\* output longer than truncreport, the beginning), and comes once; and spawn
\* leaves only when no delivery is going on.
THEOREM SpawnHolds == SpawnSpec => []SpawnSafe
<1>1. SpawnInit => SpawnInv
  BY SpawnInitInv
<1>2. SpawnInv /\ [SpawnNext]_spawnVars => SpawnInv'
  <2>. SUFFICES ASSUME SpawnInv, [SpawnNext]_spawnVars PROVE SpawnInv'
    OBVIOUS
  <2>1. CASE \E s \in Slot : Send(s)  BY <2>1, StepSend
  <2>2. CASE Hear  BY <2>2, StepHear
  <2>3. CASE SendEnds  BY <2>3, StepSendEnds
  <2>4. CASE SpawnStep
    <3>1. CASE Top \/ Select \/ NoGetcmd \/ GetcmdEof \/ LoopEnd  BY <3>1, LoopSteps
    <3>2. CASE \E s \in Slot, n \in Del : DocmdErr(s, n) \/ Docmd(s, n)
      BY <3>2, StepDocmdErr, StepDocmd
    <3>3. CASE \E s \in Slot : ReadOutput(s) \/ ReportD(s)
      BY <3>3, StepReadOutput, StepReportD
    <3>. QED  BY <2>4, <3>1, <3>2, <3>3 DEF SpawnStep
  <2>5. CASE SigchldD  BY <2>5, StepSigchld
  <2>6. CASE \E n \in Del : KidWrite(n) \/ KidStep(n)  BY <2>6, StepKidWrite, StepKid
  <2>7. CASE UNCHANGED spawnVars  BY <2>7, SpawnStutter
  <2>. QED  BY <2>1, <2>2, <2>3, <2>4, <2>5, <2>6, <2>7 DEF SpawnNext
<1>. QED  BY <1>1, <1>2, SpawnInvSafe, PTL DEF SpawnSpec

-----------------------------------------------------------------------------
\* A set of naturals that is not empty has a least element.
LEMMA LeastNat ==
  ASSUME NEW T \in SUBSET Nat, T # {}
  PROVE  \E m \in T : \A k \in T : m <= k
  <1> DEFINE R == {ss \in Nat \X Nat : ss[1] < ss[2]}
  <1>1. IsWellFoundedOn(R, Nat)  BY NatLessThanWellFounded, Zenon DEF OpToRel
  <1>2. PICK m \in T : \A k \in T : <<k, m>> \notin R  BY <1>1, WFMin, Zenon
  <1>3. ASSUME NEW k \in T PROVE m <= k
    <2>1. <<k, m>> \notin R  BY <1>2
    <2>2. k \in Nat /\ m \in Nat  OBVIOUS
    <2> QED  BY <2>1, <2>2
  <1> QED  BY <1>3

\* tcpto.c: what a record of t says of its address: the time of a count is that
\* of a time-out, and at least 120 seconds before it there was another if the
\* count is 2 or more; a record that was never used counts nothing.
Backed(t, r) ==
  /\ t[r].count >= 1 => t[r].when \in heard[t[r].ip]
  /\ t[r].count >= 2 => \E u \in heard[t[r].ip] : u + Gap <= t[r].when
Single(t)  == \A r, s \in Record : t[r].ip = t[s].ip /\ t[r].ip # NoIp => r = s
NeverUsed(t)  == \A r \in Record : t[r].ip = NoIp => t[r].count = 0

\* Whoever holds the lock is alone, and its copy is still right for the address
\* it works on: the table is as it was read, or has been zeroed.
HeldCopy(p) ==
  /\ host[p] \in Ip
  /\ \A q \in Remote : rpc[q] = "err" => q = p
  /\ table = buf[p] \/ table = Blank
  /\ Single(buf[p]) /\ NeverUsed(buf[p])
  /\ \A r \in Record : buf[p][r].ip = host[p] => Backed(buf[p], r)

TcptoInv ==
  /\ TcptoTypeOK
  /\ Single(table) /\ NeverUsed(table)
  /\ \A r \in Record : table[r].ip # NoIp => Backed(table, r)
  /\ \A p \in Remote : rpc[p] # "idle" => host[p] \in Ip
  /\ \A p \in Remote : rpc[p] = "err" => HeldCopy(p)

\* The first record with an address is one of them.
LEMMA FindIpOK ==
  ASSUME NEW t, NEW i, Has(t, i)
  PROVE  FindIp(t, i) \in Record /\ t[FindIp(t, i)].ip = i
  <1> DEFINE S == {r \in Record : t[r].ip = i}
  <1>1. S \in SUBSET Nat /\ S # {}  BY TcptoAssumption DEF Has
  <1>2. PICK m \in S : \A k \in S : m <= k  BY <1>1, LeastNat
  <1>3. m \in Record /\ t[m].ip = i /\ \A s \in Record : s < m => t[s].ip # i
    <2>1. ASSUME NEW s \in Record, s < m, t[s].ip = i PROVE FALSE
      <3>1. s \in S /\ s \in Nat /\ m \in Nat  BY <1>1, <2>1
      <3> QED  BY <1>2, <2>1, <3>1
    <2> QED  BY <2>1
  <1> QED  BY <1>3 DEF FindIp

LEMMA BlankOK ==
  /\ Blank \in [Record -> TableEntry] /\ Single(Blank) /\ NeverUsed(Blank)
  /\ \A r \in Record : Blank[r].ip = NoIp
  BY TcptoAssumption DEF Blank, FreeRecord, TableEntry, Single, NeverUsed

LEMMA TcptoInitOK == TcptoInit => TcptoInv
  <1> SUFFICES ASSUME TcptoInit PROVE TcptoInv
    OBVIOUS
  <1>1. TcptoTypeOK  BY BlankOK, TcptoAssumption DEF TcptoInit, TcptoTypeOK
  <1> QED  BY <1>1, BlankOK DEF TcptoInit, TcptoInv

\* Leave() and the steps before the lock change no table and no history.
LEMMA LeaveOK ==
  ASSUME TcptoInv, NEW p \in Remote, Leave(p)
  PROVE  /\ \A q \in Remote : q # p => /\ rpc'[q] = rpc[q] /\ host'[q] = host[q]
                                       /\ buf'[q] = buf[q]
         /\ rpc'[p] = "idle"
         /\ rpc' \in [Remote -> {"idle", "try", "err"}]
         /\ host' \in [Remote -> Ip \union {NoIp}]
         /\ buf' \in [Remote -> [Record -> TableEntry]]
         /\ wasthere' \in [Remote -> BOOLEAN] /\ failed' \in [Remote -> BOOLEAN]
  BY BlankOK DEF TcptoInv, TcptoTypeOK, Leave

\* A process that leaves without a write.
LEMMA LeavesOK ==
  ASSUME TcptoInv, NEW p \in Remote, Leave(p), UNCHANGED <<table, clock, heard>>
  PROVE  TcptoInv'
  <1>1. TcptoTypeOK'  BY LeaveOK DEF TcptoInv, TcptoTypeOK
  <1>2. /\ Single(table)' /\ NeverUsed(table)'
        /\ \A r \in Record : table'[r].ip # NoIp => Backed(table, r)'
    BY DEF TcptoInv, Single, NeverUsed, Backed
  <1>3. ASSUME NEW q \in Remote, rpc'[q] # "idle"
        PROVE  host'[q] \in Ip /\ (rpc'[q] = "err" => HeldCopy(q)')
    <2>1. q # p /\ rpc'[q] = rpc[q] /\ host'[q] = host[q] /\ buf'[q] = buf[q]
      BY <1>3, LeaveOK
    <2>2. \A r \in Remote : rpc'[r] = "err" => rpc[r] = "err"  BY LeaveOK
    <2>3. host[q] \in Ip /\ (rpc[q] = "err" => HeldCopy(q))  BY <1>3, <2>1 DEF TcptoInv
    <2>4. ASSUME rpc'[q] = "err" PROVE HeldCopy(q)'
      <3>1. HeldCopy(q)  BY <2>1, <2>3, <2>4
      <3>2. /\ table' = buf'[q] \/ table' = Blank
            /\ \A r \in Remote : rpc'[r] = "err" => r = q
        BY <2>1, <2>2, <3>1 DEF HeldCopy
      <3>3. Single(buf[q])' /\ NeverUsed(buf[q])'
        BY <2>1, <3>1 DEF HeldCopy, Single, NeverUsed
      <3>4. \A r \in Record : buf'[q][r].ip = host'[q] => Backed(buf[q], r)'
        BY <2>1, <3>1 DEF HeldCopy, Backed
      <3> QED  BY <2>1, <2>3, <3>2, <3>3, <3>4 DEF HeldCopy
    <2> QED  BY <2>1, <2>3, <2>4
  <1> QED  BY <1>1, <1>2, <1>3 DEF TcptoInv

LEMMA CheckOK == ASSUME TcptoInv, NEW p \in Remote, NEW i \in Ip, Check(p, i) PROVE TcptoInv'
  <1> USE DEF Check
  <1>1. TcptoTypeOK'
    <2>1. Has(table, i) \in BOOLEAN  BY DEF Has
    <2>2. wasthere' \in [Remote -> BOOLEAN]  BY <2>1 DEF TcptoInv, TcptoTypeOK
    <2>3. /\ rpc' \in [Remote -> {"idle", "try", "err"}]
          /\ host' \in [Remote -> Ip \union {NoIp}]
      BY DEF TcptoInv, TcptoTypeOK
    <2> QED  BY <2>2, <2>3 DEF TcptoInv, TcptoTypeOK
  <1>2. /\ Single(table)' /\ NeverUsed(table)'
        /\ \A r \in Record : table'[r].ip # NoIp => Backed(table, r)'
    BY DEF TcptoInv, Single, NeverUsed, Backed
  <1>3. ASSUME NEW q \in Remote PROVE /\ rpc'[q] # "idle" => host'[q] \in Ip
                                      /\ rpc'[q] # "err"
    BY DEF TcptoInv, TcptoTypeOK, Unlocked
  <1> QED  BY <1>1, <1>2, <1>3 DEF TcptoInv

LEMMA ErrReadOK ==
  ASSUME TcptoInv, NEW p \in Remote, NEW err \in BOOLEAN, ErrRead(p, err)
  PROVE  TcptoInv'
  <1> USE DEF ErrRead
  <1>1. TcptoTypeOK'  BY DEF TcptoInv, TcptoTypeOK
  <1>2. /\ Single(table)' /\ NeverUsed(table)'
        /\ \A r \in Record : table'[r].ip # NoIp => Backed(table, r)'
    BY DEF TcptoInv, Single, NeverUsed, Backed
  <1>3. \A q \in Remote : rpc'[q] = "err" => q = p  BY DEF TcptoInv, TcptoTypeOK, Unlocked
  <1>4. host'[p] \in Ip /\ buf'[p] = table /\ table' = table /\ NoIp \notin Ip
    BY TcptoAssumption DEF TcptoInv, TcptoTypeOK
  <1>5. HeldCopy(p)'  BY <1>2, <1>3, <1>4 DEF HeldCopy, Single, NeverUsed, Backed
  <1>6. \A q \in Remote : rpc'[q] # "idle" => host'[q] \in Ip
    BY DEF TcptoInv, TcptoTypeOK
  <1> QED  BY <1>1, <1>2, <1>3, <1>5, <1>6 DEF TcptoInv

\* Nobody else holds the lock once the writer has left.
LEMMA WriterGone ==
  ASSUME TcptoInv, NEW p \in Remote, rpc[p] = "err", Leave(p)
  PROVE  \A q \in Remote : rpc'[q] # "err" /\ (rpc'[q] # "idle" => host'[q] \in Ip)
  BY LeaveOK DEF TcptoInv, HeldCopy

\* One record is written back: a second time-out that counts is at least 120
\* seconds after the one before it.
LEMMA ErrUpdateOK == ASSUME TcptoInv, NEW p \in Remote, ErrUpdate(p) PROVE TcptoInv'
  <1> DEFINE i == host[p]
             r == FindIp(buf[p], i)
             e == buf[p][r]
             f == IF failed[p] THEN [e EXCEPT !.count = Cap(@ + 1), !.when = clock]
                               ELSE [e EXCEPT !.count = 0]
  <1>1. /\ rpc[p] = "err" /\ Has(buf[p], i) /\ (failed[p] => ~Early(e))
        /\ table' = [table EXCEPT ![r] = f]
        /\ heard' = [heard EXCEPT ![i] = IF failed[p] THEN @ \union {clock} ELSE {}]
        /\ Leave(p) /\ clock' = clock
    BY DEF ErrUpdate
  <1>2. HeldCopy(p) /\ TcptoTypeOK  BY <1>1 DEF TcptoInv
  <1>3. r \in Record /\ e.ip = i /\ i \in Ip /\ NoIp \notin Ip /\ e \in TableEntry
    BY <1>1, <1>2, FindIpOK, TcptoAssumption DEF HeldCopy, TcptoTypeOK
  <1> HIDE DEF r, e
  <1>4. /\ f.ip = i /\ f.count \in 0 .. MaxCount /\ f.when \in Nat /\ f \in TableEntry
        /\ failed[p] => f.when = clock /\ (f.count >= 2 => e.count >= 1)
        /\ ~failed[p] => f.count = 0
    <2>1. /\ e = [ip |-> i, count |-> e.count, when |-> e.when]
          /\ e.count \in 0 .. MaxCount /\ e.when \in Nat /\ i \in Ip
      BY <1>3 DEF TableEntry
    <2>2. clock \in Nat /\ MaxCount \in Nat /\ MaxCount >= 2
      BY <1>2, TcptoAssumption DEF TcptoTypeOK
    <2>3. Cap(e.count + 1) \in 0 .. MaxCount /\ (Cap(e.count + 1) >= 2 => e.count >= 1)
      BY <2>1, <2>2 DEF Cap
    <2>4. CASE failed[p]
      <3>0. f = [e EXCEPT !.count = Cap(e.count + 1), !.when = clock]  BY <2>4
      <3>1. f = [ip |-> i, count |-> Cap(e.count + 1), when |-> clock]
        <4> DEFINE c == e.count   mark == e.when   n == Cap(e.count + 1)
        <4>1. e = [ip |-> i, count |-> c, when |-> mark]  BY <2>1
        <4>2. f = [e EXCEPT !.count = n, !.when = clock]  BY <3>0
        <4> HIDE DEF c, mark, n, f, i
        <4>3. f = [ip |-> i, count |-> n, when |-> clock]  BY <4>1, <4>2
        <4> QED  BY <4>3 DEF n
      <3> HIDE DEF f
      <3> QED  BY <2>1, <2>2, <2>3, <2>4, <3>1 DEF TableEntry
    <2>5. CASE ~failed[p]
      <3>1. f = [ip |-> i, count |-> 0, when |-> e.when]  BY <2>1, <2>5
      <3> HIDE DEF f
      <3> QED  BY <2>1, <2>2, <2>5, <3>1 DEF TableEntry
    <2> QED  BY <2>4, <2>5
  <1> HIDE DEF f
  <1>5. \A s \in Record : table'[s] = IF s = r THEN f ELSE table[s]
    BY <1>1, <1>2 DEF TcptoTypeOK
  <1>6. \A s \in Record : s # r => table[s].ip # i
    <2>1. CASE table = buf[p]  BY <1>2, <1>3, <2>1 DEF HeldCopy, Single, e
    <2>2. CASE table = Blank  BY <1>3, <2>2, BlankOK
    <2> QED  BY <1>2, <2>1, <2>2 DEF HeldCopy
  <1>7. TcptoTypeOK'
    <2>1. table' \in [Record -> TableEntry]  BY <1>1, <1>2, <1>4 DEF TcptoTypeOK
    <2>2. heard' \in [Ip -> SUBSET Nat]  BY <1>1, <1>2 DEF TcptoTypeOK
    <2> QED  BY <1>1, <1>2, <2>1, <2>2, LeaveOK DEF TcptoTypeOK
  <1>8. Single(table)'  BY <1>3, <1>4, <1>5, <1>6 DEF TcptoInv, Single
  <1>9. NeverUsed(table)'  BY <1>3, <1>4, <1>5 DEF TcptoInv, NeverUsed
  <1>10. ASSUME NEW s \in Record, table'[s].ip # NoIp PROVE Backed(table, s)'
    <2>1. CASE s # r
      <3>1. table'[s] = table[s] /\ table[s].ip # i /\ table[s].ip \in Ip
        BY <1>2, <1>5, <1>6, <1>10, <2>1 DEF TcptoTypeOK, TableEntry
      <3>2. heard'[table[s].ip] = heard[table[s].ip]  BY <1>1, <1>2, <3>1 DEF TcptoTypeOK
      <3>3. Backed(table, s)  BY <1>10, <3>1 DEF TcptoInv
      <3> QED  BY <3>1, <3>2, <3>3 DEF Backed
    <2>2. CASE s = r /\ failed[p]
      <3>1. table'[s] = f /\ heard'[i] = heard[i] \union {clock}
        BY <1>1, <1>2, <1>3, <1>5, <2>2 DEF TcptoTypeOK
      <3>2. ASSUME f.count >= 2 PROVE \E u \in heard[i] : u + Gap <= clock
        <4>1. e.count >= 1 /\ e.when \in heard[i]
          BY <1>2, <1>3, <1>4, <2>2, <3>2 DEF HeldCopy, Backed, e
        <4>2. ~(clock < e.when + Gap) /\ e.when \in Nat /\ clock \in Nat /\ e.count \in Nat
          BY <1>1, <1>2, <1>3, <2>2, <4>1, TcptoAssumption DEF Early, TcptoTypeOK, TableEntry
        <4> QED  BY <4>1, <4>2, TcptoAssumption
      <3> QED  BY <1>4, <2>2, <3>1, <3>2 DEF Backed
    <2>3. CASE s = r /\ ~failed[p]
      BY <1>4, <1>5, <2>3 DEF Backed
    <2> QED  BY <2>1, <2>2, <2>3
  <1> QED  BY <1>1, <1>7, <1>8, <1>9, <1>10, WriterGone DEF TcptoInv

LEMMA ErrInsertOK == ASSUME TcptoInv, NEW p \in Remote, ErrInsert(p) PROVE TcptoInv'
  <1> DEFINE i == host[p]
             f == [ip |-> i, count |-> 1, when |-> clock]
  <1>1. PICK r \in Record :
        /\ table' = [table EXCEPT ![r] = f]
        /\ heard' = [j \in Ip |-> IF j = i THEN {clock}
                                 ELSE IF j = buf[p][r].ip THEN {} ELSE heard[j]]
    BY DEF ErrInsert
  <1>2. rpc[p] = "err" /\ ~Has(buf[p], i) /\ Leave(p) /\ clock' = clock  BY DEF ErrInsert
  <1>3. HeldCopy(p) /\ TcptoTypeOK /\ i \in Ip /\ NoIp \notin Ip
    BY <1>2, TcptoAssumption DEF TcptoInv, HeldCopy
  <1>4. f \in TableEntry  BY <1>3, TcptoAssumption DEF TcptoTypeOK, TableEntry
  <1>5. \A s \in Record : table'[s] = IF s = r THEN f ELSE table[s]
    BY <1>1, <1>3 DEF TcptoTypeOK
  <1>6. ASSUME NEW s \in Record, s # r, table[s].ip # NoIp
        PROVE  table[s].ip # i /\ table[s].ip # buf[p][r].ip
    <2>1. CASE table = buf[p]
      BY <1>2, <1>3, <1>6, <2>1 DEF HeldCopy, Single, Has
    <2>2. CASE table = Blank  BY <1>6, <2>2, BlankOK
    <2> QED  BY <1>3, <2>1, <2>2 DEF HeldCopy
  <1>7. TcptoTypeOK'
    <2>1. table' \in [Record -> TableEntry]  BY <1>1, <1>3, <1>4 DEF TcptoTypeOK
    <2>2. heard' \in [Ip -> SUBSET Nat]  BY <1>1, <1>3 DEF TcptoTypeOK
    <2> QED  BY <1>2, <1>3, <2>1, <2>2, LeaveOK DEF TcptoTypeOK
  <1>8. Single(table)'  BY <1>3, <1>5, <1>6 DEF TcptoInv, Single
  <1>9. NeverUsed(table)'  BY <1>3, <1>5 DEF TcptoInv, NeverUsed
  <1>10. ASSUME NEW s \in Record, table'[s].ip # NoIp PROVE Backed(table, s)'
    <2>1. CASE s # r
      <3>1. table'[s] = table[s] /\ table[s].ip # NoIp /\ table[s].ip \in Ip
        BY <1>3, <1>5, <1>10, <2>1 DEF TcptoTypeOK, TableEntry
      <3>2. heard'[table[s].ip] = heard[table[s].ip]  BY <1>1, <1>6, <2>1, <3>1
      <3>3. Backed(table, s)  BY <3>1 DEF TcptoInv
      <3> QED  BY <3>1, <3>2, <3>3 DEF Backed
    <2>2. CASE s = r
      <3>1. table'[s] = f /\ heard'[i] = {clock}  BY <1>1, <1>3, <1>5, <2>2
      <3> QED  BY <3>1 DEF Backed
    <2> QED  BY <2>1, <2>2
  <1> QED  BY <1>2, <1>7, <1>8, <1>9, <1>10, WriterGone DEF TcptoInv

\* The table is zeroed without the lock.
LEMMA CleanOK == ASSUME TcptoInv, Clean PROVE TcptoInv'
  <1>1. TcptoTypeOK'  BY BlankOK DEF TcptoInv, TcptoTypeOK, Clean
  <1>2. /\ Single(table)' /\ NeverUsed(table)'
        /\ \A r \in Record : table'[r].ip # NoIp => Backed(table, r)'
    BY BlankOK DEF Clean, Single, NeverUsed
  <1>3. ASSUME NEW p \in Remote, rpc[p] = "err" PROVE HeldCopy(p)'
    <2>1. HeldCopy(p)  BY <1>3 DEF TcptoInv
    <2>2. heard'[host[p]] = heard[host[p]]  BY <1>3, <2>1 DEF Clean, HeldCopy
    <2>3. \A r \in Record : buf[p][r].ip = host[p] => Backed(buf[p], r)'
      BY <2>1, <2>2 DEF HeldCopy, Backed, Clean
    <2> QED  BY <2>1, <2>3 DEF HeldCopy, Clean, Single, NeverUsed
  <1>4. \A p \in Remote : rpc'[p] # "idle" => host'[p] \in Ip
    BY DEF TcptoInv, Clean
  <1> QED  BY <1>1, <1>2, <1>3, <1>4 DEF TcptoInv, Clean

LEMMA TcptoStutterOK ==
  ASSUME TcptoInv, UNCHANGED <<table, rpc, host, wasthere, failed, buf, heard>>, clock' \in Nat
  PROVE  TcptoInv'
  <1>1. TcptoTypeOK'  BY DEF TcptoInv, TcptoTypeOK
  <1> QED  BY <1>1 DEF TcptoInv, Single, NeverUsed, Backed, HeldCopy

LEMMA TcptoNextOK == TcptoInv /\ [TcptoNext]_tcptoVars => TcptoInv'
  <1> SUFFICES ASSUME TcptoInv, [TcptoNext]_tcptoVars PROVE TcptoInv'
    OBVIOUS
  <1>1. CASE UNCHANGED tcptoVars \/ TcptoTick
    <2>1. clock \in Nat  BY DEF TcptoInv, TcptoTypeOK
    <2> QED  BY <1>1, <2>1, TcptoStutterOK DEF tcptoVars, TcptoTick
  <1>2. CASE Clean  BY <1>2, CleanOK
  <1>3. ASSUME NEW p \in Remote, NEW i \in Ip, Check(p, i) PROVE TcptoInv'  BY <1>3, CheckOK
  <1>4. ASSUME NEW p \in Remote, NothingToTell(p) \/ ErrLeave(p) PROVE TcptoInv'
    BY <1>4, LeavesOK DEF NothingToTell, ErrLeave
  <1>5. ASSUME NEW p \in Remote, NEW err \in BOOLEAN, ErrRead(p, err) PROVE TcptoInv'
    BY <1>5, ErrReadOK
  <1>6. ASSUME NEW p \in Remote, ErrUpdate(p) \/ ErrInsert(p) PROVE TcptoInv'
    BY <1>6, ErrUpdateOK, ErrInsertOK
  <1> QED  BY <1>1, <1>2, <1>3, <1>4, <1>5, <1>6 DEF TcptoNext

\* The table of addresses that do not answer, for any processes, addresses,
\* records, times and weights: an address has one record, and is only passed
\* over after two time-outs 120 seconds apart with no connection in between.
THEOREM TcptoHolds == TcptoSpec => []TcptoSafe
  <1>1. TcptoInv => TcptoSafe
    <2> SUFFICES ASSUME TcptoInv PROVE TcptoSafe
      OBVIOUS
    <2>1. OneRecord  BY DEF TcptoInv, Single, OneRecord
    <2>2. ASSUME NEW r \in Record, table[r].count >= 2
          PROVE  \E t \in heard[table[r].ip] :
                   t + Gap <= table[r].when /\ table[r].when \in heard[table[r].ip]
      <3>1. table[r].count \in Nat /\ table[r].ip # NoIp
        BY <2>2, TcptoAssumption DEF TcptoInv, TcptoTypeOK, TableEntry, NeverUsed
      <3>2. Backed(table, r)  BY <3>1 DEF TcptoInv
      <3> QED  BY <2>2, <3>1, <3>2 DEF Backed
    <2> QED  BY <2>1, <2>2 DEF TcptoSafe, TwoTimeouts
  <1> QED  BY <1>1, TcptoInitOK, TcptoNextOK, PTL DEF TcptoSpec

-----------------------------------------------------------------------------
MaildirTypeOK ==
  /\ time \in Nat /\ crashes \in Nat
  /\ tmp \subseteq Mail /\ new \subseteq Mail /\ cur \subseteq Mail
  /\ data \in [Mail -> {"none", "part", "whole", "synced"}]
  /\ began \in [Mail -> Nat] /\ stamp \in [Mail -> Nat]
  /\ step \in [Mail -> {"todo", "write", "fsync", "link", "unlink", "over"}]
  /\ result \in [Mail -> {"", "ok", "temp"}]
  /\ pop \in [Session -> {"idle", "new", "cur", "open", "quit"}] /\ since \in [Session -> Nat]
  /\ list \in [Session -> SUBSET ({"new", "cur"} \X Mail)]
  /\ there \in [Session -> SUBSET Mail]

\* qmail-local.c, maildir_child(): where the files of a delivery are.
Files == \A n \in Mail :
  /\ n \in new \union cur => data[n] = "synced" /\ step[n] \in {"unlink", "over"}
  /\ step[n] \in {"link", "unlink"} => data[n] = "synced"
  /\ step[n] = "unlink" \/ result[n] = "ok" => n \in new \union cur \union removed

\* The alarm comes before the file in tmp/ is old.
InTime == \A n \in Live : n \in tmp /\ time <= began[n] + Alarm

\* qmail-pop3d: what was there when the scan began has not been written since,
\* and is where the scan has still to look, or on the list.
Listed(s, n) == \E e \in list[s] : e[2] = n
Scans == \A s \in Session :
  /\ \A n \in there[s] : step[n] \notin {"todo", "write"} /\ stamp[n] < since[s]
  /\ \A n \in there[s] \ removed :
       /\ pop[s] = "new"  => n \in new \union cur
       /\ pop[s] = "cur"  => n \in cur \/ Listed(s, n)
       /\ pop[s] = "open" => Listed(s, n)

MaildirInv == MaildirTypeOK /\ Files /\ InTime /\ Scans

-----------------------------------------------------------------------------
LEMMA TimeNat == ASSUME MaildirInv PROVE time \in Nat /\ crashes \in Nat
<1>1. MaildirTypeOK  BY DEF MaildirInv
<1>. QED  BY <1>1 DEF MaildirTypeOK

LEMMA MaildirInitInv == ASSUME MaildirInit PROVE MaildirInv
  BY DEF MaildirInit, MaildirInv, MaildirTypeOK, Files, InTime, Scans, Live

\* A step of a delivery, as far as the other deliveries and the sessions see it.
Deliver(n) ==
  \/ Open(n) \/ Copy(n) \/ SyncFile(n) \/ LinkNew(n) \/ Delivered(n)
  \/ FailMail(n) \/ SigAlarm(n) \/ Killed(n)

LEMMA DeliverFrame ==
  ASSUME MaildirInv, NEW n \in Mail, Deliver(n)
  PROVE  /\ UNCHANGED <<time, cur, removed, crashes, pop, since, list, there>>
         /\ new \subseteq new' /\ new' \subseteq new \union {n}
         /\ tmp \ {n} \subseteq tmp' /\ tmp' \subseteq tmp \union {n}
         /\ step[n] # "over" /\ (step[n] \notin {"todo", "write"} => stamp' = stamp)
         /\ step' \in [Mail -> {"todo", "write", "fsync", "link", "unlink", "over"}]
         /\ step'[n] # "todo" /\ (step'[n] = "write" => step[n] = "todo")
         /\ data' \in [Mail -> {"none", "part", "whole", "synced"}]
         /\ began' \in [Mail -> Nat] /\ stamp' \in [Mail -> Nat]
         /\ result' \in [Mail -> {"", "ok", "temp"}]
         /\ \A m \in Mail : m # n => /\ step'[m] = step[m] /\ data'[m] = data[m]
                                     /\ began'[m] = began[m] /\ result'[m] = result[m]
                                     /\ stamp'[m] = stamp[m]
<1>1. MaildirTypeOK  BY DEF MaildirInv
<1>2. CASE Open(n)  BY <1>1, <1>2 DEF MaildirTypeOK, Open, pops
<1>3. CASE Copy(n)  BY <1>1, <1>3 DEF MaildirTypeOK, Copy, pops, dirs
<1>4. CASE SyncFile(n)  BY <1>1, <1>4 DEF MaildirTypeOK, SyncFile, pops, dirs
<1>5. CASE LinkNew(n)  BY <1>1, <1>5 DEF MaildirTypeOK, LinkNew, pops
<1>6. CASE Delivered(n)  BY <1>1, <1>6 DEF MaildirTypeOK, Delivered, Exits, pops
<1>7. CASE FailMail(n)  BY <1>1, <1>7 DEF MaildirTypeOK, FailMail, Exits, pops
<1>8. CASE SigAlarm(n)  BY <1>1, <1>8 DEF MaildirTypeOK, SigAlarm, Exits, Live, pops
<1>9. CASE Killed(n)  BY <1>1, <1>9 DEF MaildirTypeOK, Killed, Exits, Live, pops, dirs
<1>. QED  BY <1>2, <1>3, <1>4, <1>5, <1>6, <1>7, <1>8, <1>9 DEF Deliver

\* What it does with its own file.
LEMMA DeliverOwn ==
  ASSUME MaildirInv, NEW n \in Mail, Deliver(n)
  PROVE  /\ n \in new' \union cur => data'[n] = "synced" /\ step'[n] \in {"unlink", "over"}
         /\ step'[n] \in {"link", "unlink"} => data'[n] = "synced"
         /\ step'[n] = "unlink" \/ result'[n] = "ok" => n \in new' \union cur \union removed
         /\ step'[n] \notin {"todo", "over"} => n \in tmp' /\ time <= began'[n] + Alarm
<1>1. /\ MaildirTypeOK
      /\ n \in new \union cur => data[n] = "synced" /\ step[n] \in {"unlink", "over"}
      /\ step[n] \in {"link", "unlink"} => data[n] = "synced"
      /\ step[n] = "unlink" \/ result[n] = "ok" => n \in new \union cur \union removed
      /\ step[n] \notin {"todo", "over"} => n \in tmp /\ time <= began[n] + Alarm
  <2>1. step[n] \notin {"todo", "over"} => n \in tmp /\ time <= began[n] + Alarm
    BY DEF MaildirInv, InTime, Live
  <2>2. Files /\ MaildirTypeOK  BY DEF MaildirInv
  <2>3. n \in new \union cur => data[n] = "synced" /\ step[n] \in {"unlink", "over"}
    BY <2>2 DEF Files
  <2>4. step[n] \in {"link", "unlink"} => data[n] = "synced"
    BY <2>2 DEF Files
  <2>5. step[n] = "unlink" \/ result[n] = "ok" => n \in new \union cur \union removed
    BY <2>2 DEF Files
  <2>. QED  BY <2>1, <2>2, <2>3, <2>4, <2>5
<1>2. CASE Open(n)
  <2>1. time <= time + Alarm  BY TimeNat, MaildirAssumption
  <2>. QED  BY <1>1, <1>2, <2>1 DEF MaildirTypeOK, Open
<1>3. CASE Copy(n)  BY <1>1, <1>3 DEF MaildirTypeOK, Copy, dirs
<1>4. CASE SyncFile(n)  BY <1>1, <1>4 DEF MaildirTypeOK, SyncFile, dirs
<1>5. CASE LinkNew(n)  BY <1>1, <1>5 DEF MaildirTypeOK, LinkNew
<1>6. CASE Delivered(n)  BY <1>1, <1>6 DEF MaildirTypeOK, Delivered, Exits
<1>7. CASE FailMail(n)  BY <1>1, <1>7 DEF MaildirTypeOK, FailMail, Exits
<1>8. CASE SigAlarm(n)  BY <1>1, <1>8 DEF MaildirTypeOK, SigAlarm, Exits, Live
<1>9. CASE Killed(n)  BY <1>1, <1>9 DEF MaildirTypeOK, Killed, Exits, Live, dirs
<1>. QED  BY <1>2, <1>3, <1>4, <1>5, <1>6, <1>7, <1>8, <1>9 DEF Deliver

LEMMA DeliverSafe ==
  ASSUME MaildirInv, NEW n \in Mail, Deliver(n)
  PROVE  MaildirInv'
<1>0. /\ UNCHANGED <<time, cur, removed, crashes, pop, since, list, there>>
      /\ new \subseteq new' /\ new' \subseteq new \union {n}
      /\ tmp \ {n} \subseteq tmp' /\ tmp' \subseteq tmp \union {n}
      /\ step[n] # "over" /\ (step[n] \notin {"todo", "write"} => stamp' = stamp)
      /\ step' \in [Mail -> {"todo", "write", "fsync", "link", "unlink", "over"}]
      /\ step'[n] # "todo" /\ (step'[n] = "write" => step[n] = "todo")
      /\ data' \in [Mail -> {"none", "part", "whole", "synced"}]
      /\ began' \in [Mail -> Nat] /\ stamp' \in [Mail -> Nat]
      /\ result' \in [Mail -> {"", "ok", "temp"}]
      /\ \A m \in Mail : m # n => /\ step'[m] = step[m] /\ data'[m] = data[m]
                                  /\ began'[m] = began[m] /\ result'[m] = result[m]
                                  /\ stamp'[m] = stamp[m]
  BY DeliverFrame
<1>1. MaildirTypeOK'
  BY <1>0 DEF MaildirInv, MaildirTypeOK
<1>2. Files'
  <2>1. ASSUME NEW m \in Mail
        PROVE  /\ m \in new' \union cur => data'[m] = "synced" /\ step'[m] \in {"unlink", "over"}
               /\ step'[m] \in {"link", "unlink"} => data'[m] = "synced"
               /\ step'[m] = "unlink" \/ result'[m] = "ok" => m \in new' \union cur \union removed
    <3>1. CASE m = n  BY <1>0, <3>1, DeliverOwn
    <3>2. CASE m # n  BY <1>0, <3>2 DEF MaildirInv, Files
    <3>. QED  BY <3>1, <3>2
  <2>. QED  BY <1>0, <2>1 DEF Files
<1>3. InTime'
  <2>1. ASSUME NEW m \in Mail, step'[m] \notin {"todo", "over"}
        PROVE  m \in tmp' /\ time <= began'[m] + Alarm
    <3>1. CASE m = n  BY <1>0, <2>1, <3>1, DeliverOwn
    <3>2. CASE m # n  BY <1>0, <2>1, <3>2 DEF MaildirInv, InTime, Live
    <3>. QED  BY <3>1, <3>2
  <2>. QED  BY <1>0, <2>1 DEF InTime, Live
<1>4. Scans'
  <2>1. ASSUME NEW s \in Session, NEW m \in there[s]
        PROVE  step'[m] \notin {"todo", "write"} /\ stamp'[m] < since[s]
    <3>1. m \in Mail /\ step[m] \notin {"todo", "write"} /\ stamp[m] < since[s]
      BY DEF MaildirInv, MaildirTypeOK, Scans
    <3>2. CASE m = n  BY <1>0, <3>1, <3>2
    <3>3. CASE m # n  BY <1>0, <3>1, <3>3
    <3>. QED  BY <3>2, <3>3
  <2>2. ASSUME NEW s \in Session, NEW m \in there[s] \ removed
        PROVE  /\ pop[s] = "new"  => m \in new' \union cur
               /\ pop[s] = "cur"  => m \in cur \/ Listed(s, m)
               /\ pop[s] = "open" => Listed(s, m)
    BY <1>0 DEF MaildirInv, Scans
  <2>3. \A s, m : Listed(s, m)' = Listed(s, m)  BY <1>0 DEF Listed
  <2>. QED  BY <1>0, <2>1, <2>2, <2>3 DEF Scans
<1>. QED  BY <1>1, <1>2, <1>3, <1>4 DEF MaildirInv

-----------------------------------------------------------------------------
\* The steps of qmail-pop3d leave the deliveries alone.
LEMMA GetListSafe ==
  ASSUME MaildirInv, NEW s \in Session, GetList(s)
  PROVE  MaildirInv'
<1>1. /\ MaildirTypeOK
      /\ pop[s] = "idle" /\ pop' = [pop EXCEPT ![s] = "new"]
      /\ tmp' = tmp \ Stale /\ since' = [since EXCEPT ![s] = time]
      /\ there' = [there EXCEPT ![s] = {n \in new \union cur : stamp[n] < time}]
      /\ UNCHANGED <<time, new, cur, data, began, stamp, step, result, list, removed, crashes>>
  BY DEF MaildirInv, GetList, mails
<1>2. MaildirTypeOK'
  BY <1>1 DEF MaildirTypeOK
<1>3. Files'
  BY <1>1 DEF MaildirInv, Files
<1>4. InTime'
  <2>1. ASSUME NEW n \in Live PROVE n \notin Stale
    <3>1. n \in Mail /\ time <= began[n] + Alarm  BY DEF MaildirInv, InTime, Live
    <3>2. began[n] \in Nat /\ time \in Nat  BY <1>1, <3>1 DEF MaildirTypeOK
    <3>. QED  BY <3>1, <3>2, MaildirAssumption DEF Stale
  <2>. QED  BY <1>1, <2>1 DEF MaildirInv, InTime, Live
<1>5. Scans'
  <2>1. ASSUME NEW t \in Session, NEW n \in there'[t]
        PROVE  step[n] \notin {"todo", "write"} /\ stamp[n] < since'[t]
    <3>1. CASE t = s  BY <1>1, <2>1, <3>1 DEF MaildirTypeOK, MaildirInv, Files
    <3>2. CASE t # s  BY <1>1, <2>1, <3>2 DEF MaildirTypeOK, MaildirInv, Scans
    <3>. QED  BY <3>1, <3>2
  <2>2. ASSUME NEW t \in Session, NEW n \in there'[t] \ removed
        PROVE  /\ pop'[t] = "new"  => n \in new \union cur
               /\ pop'[t] = "cur"  => n \in cur \/ Listed(t, n)
               /\ pop'[t] = "open" => Listed(t, n)
    <3>1. CASE t = s  BY <1>1, <2>2, <3>1 DEF MaildirTypeOK
    <3>2. CASE t # s  BY <1>1, <2>2, <3>2 DEF MaildirTypeOK, MaildirInv, Scans
    <3>. QED  BY <3>1, <3>2
  <2>3. \A t, n : Listed(t, n)' = Listed(t, n)  BY <1>1 DEF Listed
  <2>. QED  BY <1>1, <2>1, <2>2, <2>3 DEF Scans
<1>. QED  BY <1>2, <1>3, <1>4, <1>5 DEF MaildirInv

\* getlist() reads one directory.
LEMMA ScanSafe ==
  ASSUME MaildirInv, NEW s \in Session, ScanNew(s) \/ ScanCur(s)
  PROVE  MaildirInv'
<1>. DEFINE dir == IF pop[s] = "new" THEN "new" ELSE "cur"
            files == IF pop[s] = "new" THEN new ELSE cur
            to == IF pop[s] = "new" THEN "cur" ELSE "open"
            found == {<<dir, n>> : n \in {m \in files : stamp[m] < since[s]}}
<1>1. /\ MaildirTypeOK /\ pop[s] \in {"new", "cur"}
      /\ pop' = [pop EXCEPT ![s] = to] /\ list' = [list EXCEPT ![s] = @ \union found]
      /\ UNCHANGED <<time, tmp, new, cur, data, began, stamp, step, result, since, there,
                     removed, crashes>>
  <2>1. CASE ScanNew(s)  BY <2>1 DEF MaildirInv, ScanNew, Scan, mails, dirs
  <2>2. CASE ScanCur(s)  BY <2>2 DEF MaildirInv, ScanCur, Scan, mails, dirs
  <2>. QED  BY <2>1, <2>2
<1>2. MaildirTypeOK'
  <2>1. found \subseteq {"new", "cur"} \X Mail
    <3>1. dir \in {"new", "cur"} /\ files \subseteq Mail  BY <1>1 DEF MaildirTypeOK
    <3>. HIDE DEF dir, files
    <3>. QED  BY <3>1
  <2>2. list' \in [Session -> SUBSET ({"new", "cur"} \X Mail)]
    <3>. HIDE DEF found
    <3>. QED  BY <1>1, <2>1 DEF MaildirTypeOK
  <2>3. pop' \in [Session -> {"idle", "new", "cur", "open", "quit"}]
    BY <1>1 DEF MaildirTypeOK
  <2>. QED  BY <1>1, <2>2, <2>3 DEF MaildirTypeOK
<1>3. Files' /\ InTime'
  BY <1>1 DEF MaildirInv, Files, InTime, Live
<1>4. Scans'
  <2>1. \A t \in Session : list[t] \subseteq list'[t]
    BY <1>1 DEF MaildirTypeOK
  <2>2. \A t \in Session : \A n : Listed(t, n) => Listed(t, n)'
    BY <2>1 DEF Listed
  <2>3. ASSUME NEW n \in there[s], n \in files PROVE Listed(s, n)'
    <3>1. stamp[n] < since[s]  BY DEF MaildirInv, Scans
    <3>2. <<dir, n>> \in found  BY <2>3, <3>1
    <3>3. <<dir, n>> \in list'[s]  BY <1>1, <3>2 DEF MaildirTypeOK
    <3>4. <<dir, n>>[2] = n  OBVIOUS
    <3>. QED  BY <3>3, <3>4 DEF Listed
  <2>4. ASSUME NEW t \in Session, NEW n \in there[t] \ removed
        PROVE  /\ pop'[t] = "new"  => n \in new \union cur
               /\ pop'[t] = "cur"  => n \in cur \/ Listed(t, n)'
               /\ pop'[t] = "open" => Listed(t, n)'
    <3>1. /\ pop[t] = "new"  => n \in new \union cur
          /\ pop[t] = "cur"  => n \in cur \/ Listed(t, n)
          /\ pop[t] = "open" => Listed(t, n)
      BY DEF MaildirInv, Scans
    <3>2. CASE t = s
      <4>1. pop'[t] = to  BY <1>1, <3>2 DEF MaildirTypeOK
      <4>2. Listed(t, n) => Listed(t, n)'  BY <2>2
      <4>. QED  BY <1>1, <3>1, <3>2, <4>1, <4>2, <2>3
    <3>3. CASE t # s
      <4>1. pop'[t] = pop[t]  BY <1>1, <3>3 DEF MaildirTypeOK
      <4>2. Listed(t, n) => Listed(t, n)'  BY <2>2
      <4>. QED  BY <3>1, <4>1, <4>2
    <3>. QED  BY <3>2, <3>3
  <2>. QED  BY <1>1, <2>4 DEF MaildirInv, Scans
<1>. QED  BY <1>2, <1>3, <1>4 DEF MaildirInv

\* The commands DELE, RSET, QUIT, and the end of a session.
LEMMA CommandSafe ==
  ASSUME MaildirInv, NEW s \in Session,
         \/ Pop3Rset(s) \/ Pop3Quit(s) \/ Pop3Die(s)
         \/ \E e \in list[s] : Pop3Dele(s, e)
  PROVE  MaildirInv'
<1>1. /\ MaildirTypeOK
      /\ UNCHANGED <<time, tmp, new, cur, data, began, stamp, step, result, removed, crashes>>
      /\ \/ UNCHANGED <<pop, since, list, there>>
         \/ pop' = [pop EXCEPT ![s] = "quit"] /\ UNCHANGED <<since, list, there>>
         \/ /\ pop' = [pop EXCEPT ![s] = "idle"] /\ since' = [since EXCEPT ![s] = 0]
            /\ list' = [list EXCEPT ![s] = {}] /\ there' = [there EXCEPT ![s] = {}]
  <2>1. MaildirTypeOK  BY DEF MaildirInv
  <2>2. CASE Pop3Rset(s) \/ \E e \in list[s] : Pop3Dele(s, e)
    BY <2>1, <2>2 DEF Pop3Rset, Pop3Dele, mails, dirs
  <2>3. CASE Pop3Quit(s)  BY <2>1, <2>3 DEF Pop3Quit, mails, dirs
  <2>4. CASE Pop3Die(s)  BY <2>1, <2>4 DEF Pop3Die, mails, dirs
  <2>. QED  BY <2>2, <2>3, <2>4
<1>2. MaildirTypeOK'
  <2>1. /\ pop' \in [Session -> {"idle", "new", "cur", "open", "quit"}]
        /\ since' \in [Session -> Nat] /\ there' \in [Session -> SUBSET Mail]
        /\ list' \in [Session -> SUBSET ({"new", "cur"} \X Mail)]
    <3>1. /\ pop \in [Session -> {"idle", "new", "cur", "open", "quit"}]
          /\ since \in [Session -> Nat] /\ there \in [Session -> SUBSET Mail]
          /\ list \in [Session -> SUBSET ({"new", "cur"} \X Mail)]
      BY <1>1 DEF MaildirTypeOK
    <3>2. CASE UNCHANGED <<pop, since, list, there>>  BY <3>1, <3>2
    <3>3. CASE pop' = [pop EXCEPT ![s] = "quit"] /\ UNCHANGED <<since, list, there>>
      BY <3>1, <3>3
    <3>4. CASE /\ pop' = [pop EXCEPT ![s] = "idle"] /\ since' = [since EXCEPT ![s] = 0]
               /\ list' = [list EXCEPT ![s] = {}] /\ there' = [there EXCEPT ![s] = {}]
      BY <3>1, <3>4
    <3>. QED  BY <1>1, <3>2, <3>3, <3>4
  <2>. QED  BY <1>1, <2>1 DEF MaildirTypeOK
<1>3. Files' /\ InTime'
  BY <1>1 DEF MaildirInv, Files, InTime, Live
<1>4. \A t \in Session : \/ /\ pop'[t] = pop[t] /\ since'[t] = since[t]
                            /\ list'[t] = list[t] /\ there'[t] = there[t]
                         \/ /\ pop'[t] = "quit" /\ since'[t] = since[t] /\ there'[t] = there[t]
                         \/ pop'[t] = "idle" /\ there'[t] = {}
  <2>1. CASE UNCHANGED <<pop, since, list, there>>  BY <2>1
  <2>2. CASE pop' = [pop EXCEPT ![s] = "quit"] /\ UNCHANGED <<since, list, there>>
    BY <1>1, <2>2 DEF MaildirTypeOK
  <2>3. CASE /\ pop' = [pop EXCEPT ![s] = "idle"] /\ since' = [since EXCEPT ![s] = 0]
             /\ list' = [list EXCEPT ![s] = {}] /\ there' = [there EXCEPT ![s] = {}]
    BY <1>1, <2>3 DEF MaildirTypeOK
  <2>. QED  BY <1>1, <2>1, <2>2, <2>3
<1>5. Scans'
  BY <1>1, <1>4 DEF MaildirInv, Scans, Listed
<1>. QED  BY <1>2, <1>3, <1>5 DEF MaildirInv

\* QUIT moves or removes one file.
LEMMA QuitSafe ==
  ASSUME MaildirInv, NEW s \in Session, NEW e \in list[s], QuitUnlink(s, e) \/ QuitRename(s, e)
  PROVE  MaildirInv'
<1>1. /\ MaildirTypeOK /\ pop[s] = "quit" /\ e[2] \in Mail
      /\ list' = [list EXCEPT ![s] = @ \ {e}]
      /\ removed \subseteq removed' /\ cur \subseteq cur' \union removed'
      /\ new \union cur \subseteq new' \union cur' \union removed'
      /\ new' \union cur' \subseteq new \union cur
      /\ UNCHANGED <<time, tmp, data, began, stamp, step, result, pop, since, there, crashes>>
  <2>1. e \in {"new", "cur"} \X Mail  BY DEF MaildirInv, MaildirTypeOK
  <2>2. CASE QuitUnlink(s, e)
    BY <2>1, <2>2 DEF MaildirInv, QuitUnlink, mails
  <2>3. CASE QuitRename(s, e)
    BY <2>1, <2>3 DEF MaildirInv, QuitRename, mails
  <2>. QED  BY <2>2, <2>3
<1>2. MaildirTypeOK'
  <2>1. list' \in [Session -> SUBSET ({"new", "cur"} \X Mail)]  BY <1>1 DEF MaildirTypeOK
  <2>. QED  BY <1>1, <2>1 DEF MaildirTypeOK
<1>3. Files' /\ InTime'
  BY <1>1 DEF MaildirInv, Files, InTime, Live
<1>4. \A t \in Session : t # s => list'[t] = list[t]
  BY <1>1 DEF MaildirTypeOK
<1>5. Scans'
  <2>1. ASSUME NEW t \in Session, NEW n \in there[t] \ removed'
        PROVE  /\ pop[t] = "new"  => n \in new' \union cur'
               /\ pop[t] = "cur"  => n \in cur' \/ Listed(t, n)'
               /\ pop[t] = "open" => Listed(t, n)'
    <3>1. /\ n \notin removed
          /\ pop[t] = "new"  => n \in new \union cur
          /\ pop[t] = "cur"  => n \in cur \/ Listed(t, n)
          /\ pop[t] = "open" => Listed(t, n)
      BY <1>1 DEF MaildirInv, Scans
    <3>2. CASE t = s  BY <1>1, <3>2
    <3>3. CASE t # s
      <4>1. Listed(t, n)' = Listed(t, n)  BY <1>4, <3>3 DEF Listed
      <4>. QED  BY <1>1, <3>1, <4>1
    <3>. QED  BY <3>2, <3>3
  <2>. QED  BY <1>1, <2>1 DEF MaildirInv, Scans
<1>. QED  BY <1>2, <1>3, <1>5 DEF MaildirInv

-----------------------------------------------------------------------------
LEMMA TickSafe ==
  ASSUME MaildirInv, MaildirTick
  PROVE  MaildirInv'
<1>1. /\ MaildirTypeOK /\ time' = time + 1 /\ \A n \in Live : time < began[n] + Alarm
      /\ UNCHANGED <<tmp, new, cur, data, began, stamp, step, result, pop, since, list, there,
                     removed, crashes>>
  BY DEF MaildirInv, MaildirTick, dirs, mails, pops
<1>2. MaildirTypeOK'
  <2>1. time' \in Nat  BY <1>1, TimeNat
  <2>. QED  BY <1>1, <2>1 DEF MaildirTypeOK
<1>3. Files' /\ Scans'  BY <1>1 DEF MaildirInv, Files, Scans, Listed
<1>4. InTime'
  <2>1. ASSUME NEW n \in Live PROVE n \in tmp /\ time + 1 <= began[n] + Alarm
    <3>1. began[n] \in Nat /\ time \in Nat  BY <1>1 DEF MaildirTypeOK, Live
    <3>. QED  BY <1>1, <3>1, MaildirAssumption DEF MaildirInv, InTime
  <2>. QED  BY <1>1, <2>1 DEF InTime, Live
<1>. QED  BY <1>2, <1>3, <1>4 DEF MaildirInv

LEMMA MachineCrashSafe ==
  ASSUME MaildirInv, MachineCrash
  PROVE  MaildirInv'
<1>1. /\ MaildirTypeOK /\ crashes' = crashes + 1
      /\ data' = [n \in Mail |-> IF data[n] = "whole" THEN "part" ELSE data[n]]
      /\ step' = [n \in Mail |-> IF n \in Live THEN "over" ELSE step[n]]
      /\ result' = [n \in Mail |-> IF n \in Live THEN "temp" ELSE result[n]]
      /\ pop' = [s \in Session |-> "idle"] /\ since' = [s \in Session |-> 0]
      /\ list' = [s \in Session |-> {}] /\ there' = [s \in Session |-> {}]
      /\ UNCHANGED <<time, tmp, new, cur, began, stamp, removed>>
  BY DEF MaildirInv, MachineCrash, NoSessions, dirs
<1>2. MaildirTypeOK'
  <2>1. crashes' \in Nat  BY <1>1, TimeNat
  <2>2. /\ data' \in [Mail -> {"none", "part", "whole", "synced"}]
        /\ step' \in [Mail -> {"todo", "write", "fsync", "link", "unlink", "over"}]
        /\ result' \in [Mail -> {"", "ok", "temp"}]
    BY <1>1 DEF MaildirTypeOK
  <2>3. /\ pop' \in [Session -> {"idle", "new", "cur", "open", "quit"}]
        /\ since' \in [Session -> Nat] /\ there' \in [Session -> SUBSET Mail]
        /\ list' \in [Session -> SUBSET ({"new", "cur"} \X Mail)]
    BY <1>1
  <2>. QED  BY <1>1, <2>1, <2>2, <2>3 DEF MaildirTypeOK
<1>3. Files'  BY <1>1 DEF MaildirInv, MaildirTypeOK, Files, Live
<1>4. InTime' /\ Scans'  BY <1>1 DEF InTime, Live, Scans
<1>. QED  BY <1>2, <1>3, <1>4 DEF MaildirInv

LEMMA MaildirInvSafe ==
  ASSUME MaildirInv
  PROVE  MaildirSafe
<1>1. Kept /\ WholeOnly
  BY DEF MaildirInv, Files, MaildirTypeOK, Kept, WholeOnly
<1>2. CleanSpares /\ AllListed
  BY DEF MaildirInv, InTime, Scans, Listed, CleanSpares, AllListed
<1>. QED  BY <1>1, <1>2 DEF MaildirSafe

\* A maildir between qmail-local and qmail-pop3d: what was reported delivered
\* is whole and there until a client deletes it, readers see whole messages,
\* maildir_clean spares the deliveries that go on, and a session lists all
\* that was there before its scan.
THEOREM MaildirHolds == MaildirSpec => []MaildirSafe
<1>1. MaildirInit => MaildirInv
  BY MaildirInitInv
<1>2. MaildirInv /\ [MaildirNext]_mdVars => MaildirInv'
  <2>. SUFFICES ASSUME MaildirInv, [MaildirNext]_mdVars PROVE MaildirInv'
    OBVIOUS
  <2>1. CASE \E n \in Mail : Deliver(n)  BY <2>1, DeliverSafe
  <2>2. CASE \E s \in Session : GetList(s)  BY <2>2, GetListSafe
  <2>3. CASE \E s \in Session : ScanNew(s) \/ ScanCur(s)  BY <2>3, ScanSafe
  <2>4. CASE \E s \in Session : \/ Pop3Rset(s) \/ Pop3Quit(s) \/ Pop3Die(s)
                                \/ \E e \in list[s] : Pop3Dele(s, e)
    BY <2>4, CommandSafe
  <2>5. CASE \E s \in Session : \E e \in list[s] : QuitUnlink(s, e) \/ QuitRename(s, e)
    BY <2>5, QuitSafe
  <2>6. CASE MaildirTick  BY <2>6, TickSafe
  <2>7. CASE MachineCrash  BY <2>7, MachineCrashSafe
  <2>8. CASE UNCHANGED mdVars
    <3>1. UNCHANGED <<time, tmp, new, cur, data, began, stamp, step, result, pop, since, list,
                      there, removed, crashes>>
      BY <2>8 DEF mdVars, dirs, mails, pops
    <3>2. MaildirTypeOK'  BY <3>1 DEF MaildirInv, MaildirTypeOK
    <3>. QED  BY <3>1, <3>2 DEF MaildirInv, Files, InTime, Scans, Live, Listed
  <2>. QED  BY <2>1, <2>2, <2>3, <2>4, <2>5, <2>6, <2>7, <2>8 DEF MaildirNext, Deliver
<1>. QED  BY <1>1, <1>2, MaildirInvSafe, PTL DEF MaildirSpec

-----------------------------------------------------------------------------
Places == {"start", "next", "lock", "write", "forward", "end", "gone"}
Codes == {"none", "0", "100", "111", "killed"}

ControlTypeOK ==
  /\ cmds \in Seq(Kind) /\ xbit \in BOOLEAN /\ nolocks \in BOOLEAN
  /\ lpc \in [Delivery -> Places] /\ line \in [Delivery -> Nat]
  /\ forwardonly \in [Delivery -> BOOLEAN] /\ recips \in [Delivery -> Nat]
  /\ exit \in [Delivery -> Codes] /\ did \in [Delivery -> SUBSET Nat]
  /\ forwards \in [Delivery -> Nat] /\ localDeaths \in Nat

\* qmail-local.c, main(): what the counts and flags say of the instructions that
\* m has been through.
Through(m) ==
  /\ (\E k \in did[m] : cmds[k] = "forward") => recips[m] > 0
  /\ ~forwardonly[m] => ~xbit /\ \A k \in did[m] : cmds[k] # "+list"
  /\ \A k \in did[m] : cmds[k] \in {"mbox", "maildir", "program"} =>
       ~xbit /\ \A j \in 1 .. k : cmds[j] # "+list"

\* The whole file, or up to a program that ended with 99.
Finished(m) ==
  \E n \in 0 .. Len(cmds) : did[m] = 1 .. n /\ (n < Len(cmds) => n > 0 /\ cmds[n] = "program")

ControlOK(m) ==
  /\ line[m] \in 1 .. Len(cmds) + 1 /\ did[m] \subseteq DOMAIN cmds
  /\ Through(m)
  /\ lpc[m] = "start" => line[m] = 1
  /\ lpc[m] \in {"start", "next", "lock", "write"} => did[m] = 1 .. line[m] - 1
  /\ lpc[m] \in {"lock", "write"} =>
       line[m] <= Len(cmds) /\ cmds[line[m]] = "mbox" /\ ~forwardonly[m]
  /\ lpc[m] \in {"forward", "end"} \/ exit[m] = "0" => Finished(m)
  /\ (lpc[m] = "end" \/ exit[m] = "0") /\ recips[m] > 0 => forwards[m] > 0
  /\ exit[m] # "none" <=> lpc[m] = "gone"
  /\ forwards[m] <= localDeaths + (IF lpc[m] = "end" \/ exit[m] = "0" THEN 1 ELSE 0)

ControlInv == ControlTypeOK /\ \A m \in Delivery : ControlOK(m)

-----------------------------------------------------------------------------
MboxTypeOK ==
  /\ nolocks \in BOOLEAN /\ localDeaths \in Nat
  /\ lpc \in [Delivery -> Places] /\ mbox \in Seq(Delivery \X (1 .. Parts))
  /\ disk \in 0 .. Len(mbox) /\ pos \in [Delivery -> Nat]
  /\ holder \in Delivery \union {Nobody} /\ whole \subseteq Delivery

\* mailfile(): the lock is held from lock_ex() to close(), if there are locks.
LockHeld ==
  /\ nolocks => holder = Nobody
  /\ ~nolocks => \A m \in Delivery : lpc[m] = "write" <=> holder = m

\* What a delivery has written in this attempt is its first pieces, each of
\* them behind the place where it found the end of the file.
WritingOK(m) == lpc[m] = "write" =>
  /\ pos[m] <= Len(mbox) /\ Written(m) \in 0 .. Parts
  /\ \A k \in 1 .. Written(m) : \E n \in pos[m] + 1 .. Len(mbox) : mbox[n] = <<m, k>>

\* Behind the place where the holder of the lock began there is nothing but what
\* it has written, and nothing of that is on disk for sure.
HolderAlone == holder # Nobody =>
  /\ disk <= pos[holder]
  /\ \A n \in pos[holder] + 1 .. Len(mbox) : mbox[n] = <<holder, n - pos[holder]>>

\* With locks and no deaths, the mbox was whole messages when the holder began.
WholeMessages == ~nolocks /\ localDeaths = 0 =>
  /\ \A n \in 1 .. Len(mbox) :
       /\ mbox[n][2] = ((n - 1) % Parts) + 1
       /\ mbox[n][2] > 1 => mbox[n - 1][1] = mbox[n][1]
  /\ (IF holder = Nobody THEN Len(mbox) ELSE pos[holder]) % Parts = 0

MboxInv ==
  /\ MboxTypeOK /\ LockHeld /\ (\A m \in Delivery : WritingOK(m))
  /\ HolderAlone /\ WholeMessages /\ StaysInMbox

LocalInv == ControlInv /\ MboxInv

-----------------------------------------------------------------------------
\* A delivery is judged by what is its own.
LEMMA ControlOthers ==
  ASSUME ControlInv, ControlTypeOK', NEW m \in Delivery, localDeaths <= localDeaths',
         UNCHANGED <<cmds, xbit>>,
         \A e \in Delivery \ {m} :
           /\ lpc'[e] = lpc[e] /\ line'[e] = line[e] /\ forwardonly'[e] = forwardonly[e]
           /\ recips'[e] = recips[e] /\ exit'[e] = exit[e] /\ did'[e] = did[e]
           /\ forwards'[e] = forwards[e],
         ControlOK(m)'
  PROVE  ControlInv'
<1>1. ASSUME NEW e \in Delivery, e # m PROVE ControlOK(e)'
  <2>1. ControlOK(e)  BY DEF ControlInv
  <2>2. /\ lpc'[e] = lpc[e] /\ line'[e] = line[e] /\ forwardonly'[e] = forwardonly[e]
        /\ recips'[e] = recips[e] /\ exit'[e] = exit[e] /\ did'[e] = did[e]
        /\ forwards'[e] = forwards[e] /\ cmds' = cmds /\ xbit' = xbit
    BY <1>1
  <2>3. localDeaths \in Nat /\ localDeaths' \in Nat /\ forwards[e] \in Nat
    BY DEF ControlInv, ControlTypeOK
  <2>4. Through(e)'  BY <2>1, <2>2 DEF ControlOK, Through
  <2>5. Finished(e)' <=> Finished(e)  BY <2>2 DEF Finished
  <2>. QED  BY <2>1, <2>2, <2>3, <2>4, <2>5 DEF ControlOK
<1>. QED  BY <1>1 DEF ControlInv

LEMMA ControlInitOK == ASSUME LocalInit PROVE ControlInv
<1>1. ControlTypeOK  BY LocalAssumption DEF LocalInit, ControlTypeOK, LocalAssumption, Places, Codes
<1>2. ASSUME NEW m \in Delivery PROVE ControlOK(m)
  <2>1. Len(cmds) \in Nat  BY <1>1 DEF ControlTypeOK
  <2>2. /\ lpc[m] = "start" /\ line[m] = 1 /\ forwardonly[m] = xbit /\ recips[m] = 0
        /\ exit[m] = "none" /\ did[m] = {} /\ forwards[m] = 0 /\ localDeaths = 0
    BY DEF LocalInit
  <2>. QED  BY <1>1, <2>1, <2>2 DEF ControlOK, Through, ControlTypeOK
<1>. QED  BY <1>1, <1>2 DEF ControlInv

\* An instruction that was carried out, and the next.
LEMMA OneMoreLine ==
  ASSUME ControlInv, NEW m \in Delivery, lpc[m] \in {"next", "lock", "write"}, line[m] <= Len(cmds)
  PROVE  /\ line[m] \in Nat /\ Len(cmds) \in Nat /\ line[m] + 1 \in 1 .. Len(cmds) + 1
         /\ line[m] \in DOMAIN cmds /\ DOMAIN cmds = 1 .. Len(cmds)
         /\ did[m] \union {line[m]} = 1 .. line[m]
         /\ did[m] \union {line[m]} \in SUBSET Nat /\ did[m] \union {line[m]} \subseteq DOMAIN cmds
<1>1. ControlOK(m) /\ ControlTypeOK  BY DEF ControlInv
<1>2. Len(cmds) \in Nat /\ DOMAIN cmds = 1 .. Len(cmds)  BY <1>1, LenProperties DEF ControlTypeOK
<1>3. line[m] \in 1 .. Len(cmds) /\ did[m] = 1 .. line[m] - 1  BY <1>1, <1>2 DEF ControlOK
<1>. QED  BY <1>2, <1>3

LEMMA NoteOK ==
  ASSUME ControlInv, NEW m \in Delivery, Note(m), UNCHANGED <<cmds, xbit, nolocks, localDeaths>>
  PROVE  ControlInv'
<1>1. ControlTypeOK /\ ControlOK(m)  BY DEF ControlInv
<1>2. lpc[m] = "next" /\ line[m] <= Len(cmds) /\ cmds[line[m]] \in {"#", "+list", "forward"}
  BY DEF Note, Doing, Now
<1>3. /\ lpc' = [lpc EXCEPT ![m] = "next"] /\ line' = [line EXCEPT ![m] = @ + 1]
      /\ did' = [did EXCEPT ![m] = @ \union {line[m]}] /\ exit' = exit /\ forwards' = forwards
  BY DEF Note, ToNext
<1>4. /\ forwardonly' = IF cmds[line[m]] = "+list" THEN [forwardonly EXCEPT ![m] = TRUE] ELSE forwardonly
      /\ recips' = IF cmds[line[m]] = "forward" THEN [recips EXCEPT ![m] = @ + 1] ELSE recips
  BY DEF Note, Doing, Now
<1>5. /\ line[m] \in Nat /\ Len(cmds) \in Nat /\ line[m] + 1 \in 1 .. Len(cmds) + 1
      /\ line[m] \in DOMAIN cmds /\ did[m] \union {line[m]} = 1 .. line[m]
      /\ did[m] \union {line[m]} \in SUBSET Nat /\ did[m] \union {line[m]} \subseteq DOMAIN cmds
  BY <1>2, OneMoreLine
<1>6. ControlTypeOK'
  <2>1. lpc' \in [Delivery -> Places]  BY <1>1, <1>3 DEF ControlTypeOK, Places
  <2>2. line' \in [Delivery -> Nat]  BY <1>1, <1>3 DEF ControlTypeOK
  <2>3. did' \in [Delivery -> SUBSET Nat]  BY <1>1, <1>3, <1>5 DEF ControlTypeOK
  <2>4. forwardonly' \in [Delivery -> BOOLEAN] /\ recips' \in [Delivery -> Nat]
    BY <1>1, <1>4 DEF ControlTypeOK
  <2>. QED  BY <1>1, <1>3, <2>1, <2>2, <2>3, <2>4 DEF ControlTypeOK
<1>7. /\ lpc'[m] = "next" /\ line'[m] = line[m] + 1 /\ did'[m] = did[m] \union {line[m]}
      /\ exit'[m] = exit[m] /\ forwards'[m] = forwards[m]
      /\ (forwardonly'[m] <=> cmds[line[m]] = "+list" \/ forwardonly[m])
      /\ recips'[m] = recips[m] + (IF cmds[line[m]] = "forward" THEN 1 ELSE 0)
      /\ recips[m] \in Nat /\ forwardonly[m] \in BOOLEAN /\ exit[m] = "none"
  <2>1. recips[m] \in Nat /\ forwardonly[m] \in BOOLEAN  BY <1>1 DEF ControlTypeOK
  <2>2. exit[m] = "none"  BY <1>1, <1>2 DEF ControlOK
  <2>3. (forwardonly'[m] <=> cmds[line[m]] = "+list" \/ forwardonly[m])
    <3>1. CASE cmds[line[m]] = "+list"  BY <1>1, <1>4, <3>1 DEF ControlTypeOK
    <3>2. CASE cmds[line[m]] # "+list"  BY <1>4, <3>2
    <3>. QED  BY <3>1, <3>2
  <2>. QED  BY <1>1, <1>3, <1>4, <2>1, <2>2, <2>3 DEF ControlTypeOK
<1>8. Through(m)'
  <2>1. Through(m)  BY <1>1 DEF ControlOK
  <2>2. (\E k \in did'[m] : cmds[k] = "forward") => recips'[m] > 0
    BY <1>7, <2>1 DEF Through
  <2>3. ~forwardonly'[m] => ~xbit /\ \A k \in did'[m] : cmds[k] # "+list"
    BY <1>7, <2>1 DEF Through
  <2>4. ASSUME NEW k \in did'[m], cmds[k] \in {"mbox", "maildir", "program"}
        PROVE  ~xbit /\ \A j \in 1 .. k : cmds[j] # "+list"
    BY <1>2, <1>7, <2>1, <2>4 DEF Through
  <2>. QED  BY <2>2, <2>3, <2>4 DEF Through
<1>9. ControlOK(m)'
  BY <1>1, <1>2, <1>5, <1>7, <1>8 DEF ControlOK
<1>10. \A e \in Delivery \ {m} :
         /\ lpc'[e] = lpc[e] /\ line'[e] = line[e] /\ forwardonly'[e] = forwardonly[e]
         /\ recips'[e] = recips[e] /\ exit'[e] = exit[e] /\ did'[e] = did[e]
         /\ forwards'[e] = forwards[e]
  BY <1>1, <1>3, <1>4 DEF ControlTypeOK
<1>11. localDeaths <= localDeaths'  BY <1>1 DEF ControlTypeOK
<1>. QED  BY <1>6, <1>9, <1>10, <1>11, ControlOthers

\* What a step of m that changes neither its place in the file nor what it has
\* done leaves to show.
LEMMA PlaceOK ==
  ASSUME ControlInv, NEW m \in Delivery, NEW x \in Places, NEW c \in Codes,
         UNCHANGED <<cmds, xbit, nolocks, line, forwardonly, recips, did>>,
         localDeaths' \in Nat, localDeaths <= localDeaths',
         lpc' = [lpc EXCEPT ![m] = x], exit' = [exit EXCEPT ![m] = c],
         forwards' \in [Delivery -> Nat], \A e \in Delivery \ {m} : forwards'[e] = forwards[e],
         c # "none" <=> x = "gone",
         x = "start" => line[m] = 1,
         x \in {"start", "next", "lock", "write"} => lpc[m] \in {"start", "next", "lock", "write"},
         x \in {"lock", "write"} =>
           line[m] <= Len(cmds) /\ cmds[line[m]] = "mbox" /\ ~forwardonly[m],
         x \in {"forward", "end"} \/ c = "0" => Finished(m),
         (x = "end" \/ c = "0") /\ recips[m] > 0 => forwards'[m] > 0,
         forwards'[m] <= localDeaths' + (IF x = "end" \/ c = "0" THEN 1 ELSE 0)
  PROVE  ControlInv'
<1>1. ControlTypeOK /\ ControlOK(m)  BY DEF ControlInv
<1>2. ControlTypeOK'
  <2>1. lpc' \in [Delivery -> Places]  BY <1>1 DEF ControlTypeOK
  <2>2. exit' \in [Delivery -> Codes]  BY <1>1 DEF ControlTypeOK
  <2>. QED  BY <1>1, <2>1, <2>2 DEF ControlTypeOK
<1>3. lpc'[m] = x /\ exit'[m] = c  BY <1>1 DEF ControlTypeOK
<1>4. Through(m)'  BY <1>1 DEF ControlOK, Through
<1>5. Finished(m)' <=> Finished(m)  BY DEF Finished
<1>6. ControlOK(m)'  BY <1>1, <1>3, <1>4, <1>5 DEF ControlOK
<1>7. \A e \in Delivery \ {m} :
        /\ lpc'[e] = lpc[e] /\ line'[e] = line[e] /\ forwardonly'[e] = forwardonly[e]
        /\ recips'[e] = recips[e] /\ exit'[e] = exit[e] /\ did'[e] = did[e]
        /\ forwards'[e] = forwards[e]
  BY <1>1 DEF ControlTypeOK
<1>. QED  BY <1>2, <1>6, <1>7, ControlOthers

\* What a delivery that is at work knows, and what its exit leaves.
LEMMA ExitOK ==
  ASSUME ControlInv, NEW m \in Delivery, NEW c \in Codes, lpc[m] # "gone",
         UNCHANGED <<cmds, xbit, nolocks, line, forwardonly, recips, did>>, Exit(m, c),
         localDeaths' \in Nat, localDeaths <= localDeaths',
         forwards' \in [Delivery -> Nat], \A e \in Delivery \ {m} : forwards'[e] = forwards[e],
         c # "none", c = "0" => Finished(m) /\ (recips[m] > 0 => forwards'[m] > 0),
         forwards'[m] <= localDeaths' + (IF c = "0" THEN 1 ELSE 0)
  PROVE  ControlInv'
  BY PlaceOK DEF Exit, Places

LEMMA Counted ==
  ASSUME ControlInv, NEW m \in Delivery
  PROVE  /\ forwards \in [Delivery -> Nat] /\ forwards[m] \in Nat /\ localDeaths \in Nat
         /\ lpc[m] \in Places /\ exit[m] \in Codes /\ line[m] \in Nat /\ recips[m] \in Nat
         /\ exit[m] = "none" <=> lpc[m] # "gone"
         /\ lpc[m] \notin {"end", "gone"} => forwards[m] <= localDeaths
         /\ forwards[m] <= localDeaths + 1
<1>1. ControlTypeOK /\ ControlOK(m)  BY DEF ControlInv
<1>2. /\ forwards[m] \in Nat /\ localDeaths \in Nat /\ lpc[m] \in Places /\ exit[m] \in Codes
      /\ line[m] \in Nat /\ recips[m] \in Nat
  BY <1>1 DEF ControlTypeOK
<1>. QED  BY <1>1, <1>2 DEF ControlOK, ControlTypeOK

LEMMA BouncexfOK ==
  ASSUME ControlInv, NEW m \in Delivery, Bouncexf(m), UNCHANGED <<cmds, xbit, nolocks, localDeaths>>
  PROVE  ControlInv'
<1>1. lpc[m] = "start" /\ UNCHANGED <<line, forwardonly, recips, did, forwards>>  BY DEF Bouncexf
<1>2. /\ forwards \in [Delivery -> Nat] /\ forwards[m] \in Nat /\ localDeaths \in Nat
      /\ forwards[m] <= localDeaths /\ exit[m] = "none"
  BY <1>1, Counted
<1>3. CASE lpc' = [lpc EXCEPT ![m] = "next"] /\ UNCHANGED exit
  <2>1. exit' = [exit EXCEPT ![m] = "none"]  BY <1>2, <1>3 DEF ControlInv, ControlTypeOK
  <2>2. "next" \in Places /\ "none" \in Codes  BY DEF Places, Codes
  <2>3. localDeaths' \in Nat /\ localDeaths <= localDeaths'  BY <1>2
  <2>4. forwards' \in [Delivery -> Nat] /\ \A e \in Delivery \ {m} : forwards'[e] = forwards[e]
    BY <1>1, <1>2
  <2>5. forwards'[m] <= localDeaths' + 0  BY <1>1, <1>2
  <2>. QED  BY <1>1, <1>3, <2>1, <2>2, <2>3, <2>4, <2>5, PlaceOK
<1>4. CASE Exit(m, "100")  BY <1>1, <1>2, <1>4, ExitOK DEF Codes
<1>. QED  BY <1>3, <1>4 DEF Bouncexf
\* A file or a program has been carried out: the next line, or the forwards.
LEMMA DeliveredOK ==
  ASSUME ControlInv, NEW m \in Delivery, lpc[m] \in {"next", "lock", "write"}, line[m] <= Len(cmds),
         cmds[line[m]] \in {"mbox", "maildir", "program"}, ~forwardonly[m],
         did' = [did EXCEPT ![m] = @ \union {line[m]}],
         \/ lpc' = [lpc EXCEPT ![m] = "next"] /\ line' = [line EXCEPT ![m] = @ + 1]
         \/ /\ lpc' = [lpc EXCEPT ![m] = "forward"] /\ line' = line
            /\ cmds[line[m]] = "program",
         UNCHANGED <<cmds, xbit, nolocks, forwardonly, recips, exit, forwards, localDeaths>>
  PROVE  ControlInv'
<1>1. ControlTypeOK /\ ControlOK(m)  BY DEF ControlInv
<1>2. /\ line[m] \in Nat /\ Len(cmds) \in Nat /\ line[m] + 1 \in 1 .. Len(cmds) + 1
      /\ line[m] \in DOMAIN cmds /\ DOMAIN cmds = 1 .. Len(cmds)
      /\ did[m] \union {line[m]} = 1 .. line[m]
      /\ did[m] \union {line[m]} \in SUBSET Nat /\ did[m] \union {line[m]} \subseteq DOMAIN cmds
  BY OneMoreLine
<1>3. PICK x \in {"next", "forward"}, y \in {line[m], line[m] + 1} :
        /\ lpc' = [lpc EXCEPT ![m] = x] /\ line' = [line EXCEPT ![m] = y]
        /\ x = "next" => y = line[m] + 1
        /\ x = "forward" => y = line[m] /\ cmds[line[m]] = "program"
  BY <1>1 DEF ControlTypeOK
<1>4. ControlTypeOK'
  <2>1. lpc' \in [Delivery -> Places]  BY <1>1, <1>3 DEF ControlTypeOK, Places
  <2>2. line' \in [Delivery -> Nat]  BY <1>1, <1>2, <1>3 DEF ControlTypeOK
  <2>3. did' \in [Delivery -> SUBSET Nat]  BY <1>1, <1>2 DEF ControlTypeOK
  <2>. QED  BY <1>1, <2>1, <2>2, <2>3 DEF ControlTypeOK
<1>5. lpc'[m] = x /\ line'[m] = y /\ did'[m] = did[m] \union {line[m]}
  BY <1>1, <1>3 DEF ControlTypeOK
<1>6. Through(m)'
  <2>1. Through(m)  BY <1>1 DEF ControlOK
  <2>2. ~xbit /\ \A j \in 1 .. line[m] : cmds[j] # "+list"
    BY <1>2, <2>1 DEF Through
  <2>3. (\E k \in did'[m] : cmds[k] = "forward") => recips'[m] > 0
    BY <1>5, <2>1 DEF Through
  <2>4. ~forwardonly'[m] => ~xbit /\ \A k \in did'[m] : cmds[k] # "+list"
    BY <1>2, <1>5, <2>2
  <2>5. ASSUME NEW k \in did'[m] PROVE ~xbit /\ \A j \in 1 .. k : cmds[j] # "+list"
    BY <1>2, <1>5, <2>2
  <2>. QED  BY <2>3, <2>4, <2>5 DEF Through
<1>7. ASSUME x = "forward" PROVE Finished(m)'
  <2>1. line[m] \in 0 .. Len(cmds) /\ line[m] > 0  BY <1>2
  <2>2. did'[m] = 1 .. line[m]  BY <1>2, <1>5, Zenon
  <2>3. cmds[line[m]] = "program"  BY <1>3, <1>7
  <2>4. \E n \in 0 .. Len(cmds) : did'[m] = 1 .. n /\ (n < Len(cmds) => n > 0 /\ cmds[n] = "program")
    BY <2>1, <2>2, <2>3
  <2>. QED  BY <2>4 DEF Finished
<1>8. ControlOK(m)'
  <2>1. exit'[m] = "none" /\ forwards[m] \in Nat /\ localDeaths \in Nat /\ forwards[m] <= localDeaths
    BY Counted
  <2>2. line'[m] \in 1 .. Len(cmds) + 1 /\ did'[m] \subseteq DOMAIN cmds
    BY <1>2, <1>3, <1>5
  <2>3. lpc'[m] \in {"next", "forward"}  BY <1>3, <1>5
  <2>4. lpc'[m] = "next" => did'[m] = 1 .. line'[m] - 1
    <3>1. did'[m] = 1 .. line[m]  BY <1>2, <1>5, Zenon
    <3>2. lpc'[m] = "next" => line'[m] - 1 = line[m]  BY <1>2, <1>3, <1>5
    <3>. QED  BY <3>1, <3>2
  <2>. QED  BY <1>5, <1>6, <1>7, <2>1, <2>2, <2>3, <2>4 DEF ControlOK
<1>9. \A e \in Delivery \ {m} : lpc'[e] = lpc[e] /\ line'[e] = line[e] /\ did'[e] = did[e]
  BY <1>1, <1>3 DEF ControlTypeOK
<1>10. localDeaths <= localDeaths'  BY <1>1 DEF ControlTypeOK
<1>. QED  BY <1>4, <1>8, <1>9, <1>10, ControlOthers

LEMMA ChildOK ==
  ASSUME ControlInv, NEW m \in Delivery, ForwardOnly(m) \/ Child(m),
         UNCHANGED <<cmds, xbit, nolocks, localDeaths>>
  PROVE  ControlInv'
<1>1. lpc[m] = "next" /\ line[m] <= Len(cmds) /\ cmds[line[m]] \in {"mbox", "maildir", "program"}
  BY DEF ForwardOnly, Child, Doing, Now
<1>2. UNCHANGED <<forwardonly, recips, forwards>>  BY DEF ForwardOnly, Child
<1>3. /\ forwards \in [Delivery -> Nat] /\ localDeaths \in Nat /\ forwards[m] <= localDeaths
      /\ exit[m] = "none"
  BY <1>1, Counted
<1>4. ASSUME NEW c \in {"100", "111"}, Exit(m, c), UNCHANGED <<line, did>> PROVE ControlInv'
  BY <1>1, <1>2, <1>3, <1>4, ExitOK DEF Codes
<1>5. CASE ForwardOnly(m)  BY <1>4, <1>5 DEF ForwardOnly
<1>6. CASE Child(m) /\ ToNext(m) /\ UNCHANGED exit
  BY <1>1, <1>2, <1>6, DeliveredOK DEF Child, ToNext
<1>7. CASE /\ Child(m) /\ Doing(m, "program") /\ lpc' = [lpc EXCEPT ![m] = "forward"]
           /\ did' = [did EXCEPT ![m] = @ \cup {line[m]}] /\ UNCHANGED <<line, exit>>
  BY <1>1, <1>2, <1>7, DeliveredOK DEF Child, Doing, Now
<1>. QED  BY <1>4, <1>5, <1>6, <1>7 DEF Child

LEMMA MailfileOK ==
  ASSUME ControlInv, NEW m \in Delivery,
         OpenMbox(m) \/ LockMbox(m) \/ WriteMbox(m) \/ SyncMbox(m) \/ WriteErrs(m),
         UNCHANGED <<cmds, xbit, nolocks, localDeaths>>
  PROVE  ControlInv'
<1>1. ControlTypeOK /\ ControlOK(m)  BY DEF ControlInv
<1>2. /\ lpc[m] \in {"next", "lock", "write"} /\ line[m] <= Len(cmds) /\ cmds[line[m]] = "mbox"
      /\ ~forwardonly[m]
  BY <1>1 DEF OpenMbox, LockMbox, WriteMbox, SyncMbox, WriteErrs, Doing, Now, ControlOK
<1>3. UNCHANGED <<forwardonly, recips, forwards>>
  BY DEF OpenMbox, LockMbox, WriteMbox, SyncMbox, WriteErrs, procVars
<1>4. /\ forwards \in [Delivery -> Nat] /\ localDeaths \in Nat /\ forwards[m] \in Nat
      /\ forwards[m] <= localDeaths /\ exit[m] = "none"
  BY <1>2, Counted
<1>5. ASSUME Exit(m, "111"), UNCHANGED <<line, did>> PROVE ControlInv'
  BY <1>2, <1>3, <1>4, <1>5, ExitOK DEF Codes
<1>6. ASSUME NEW x \in {"lock", "write"}, lpc' = [lpc EXCEPT ![m] = x], UNCHANGED <<line, did, exit>>
      PROVE  ControlInv'
  <2>1. exit' = [exit EXCEPT ![m] = "none"]  BY <1>1, <1>4, <1>6 DEF ControlTypeOK
  <2>2. x \in Places /\ "none" \in Codes  BY DEF Places, Codes
  <2>3. localDeaths' \in Nat /\ localDeaths <= localDeaths'  BY <1>4
  <2>4. forwards' \in [Delivery -> Nat] /\ \A e \in Delivery \ {m} : forwards'[e] = forwards[e]
    BY <1>3, <1>4
  <2>5. forwards'[m] <= localDeaths' + 0  BY <1>3, <1>4
  <2>. QED  BY <1>2, <1>3, <1>6, <2>1, <2>2, <2>3, <2>4, <2>5, PlaceOK
<1>7. CASE OpenMbox(m)  BY <1>5, <1>6, <1>7 DEF OpenMbox
<1>8. CASE LockMbox(m)  BY <1>5, <1>6, <1>8 DEF LockMbox
<1>9. CASE WriteMbox(m)
  <2>1. UNCHANGED <<lpc, line, forwardonly, recips, exit, did, forwards>>  BY <1>9 DEF WriteMbox, procVars
  <2>2. ControlTypeOK'  BY <1>1, <2>1 DEF ControlTypeOK
  <2>3. ControlOK(m)'
    BY <1>1, <2>1 DEF ControlOK, Through, Finished
  <2>. QED  BY <1>4, <2>1, <2>2, <2>3, ControlOthers
<1>10. CASE SyncMbox(m)  BY <1>2, <1>3, <1>10, DeliveredOK DEF SyncMbox, ToNext
<1>11. CASE WriteErrs(m)  BY <1>5, <1>11 DEF WriteErrs
<1>. QED  BY <1>7, <1>8, <1>9, <1>10, <1>11

\* The end of the file.
LEMMA LastLineOK ==
  ASSUME ControlInv, NEW m \in Delivery, LastLine(m)
  PROVE  Finished(m) /\ lpc[m] \in {"next", "forward"}
<1>1. ControlTypeOK /\ ControlOK(m)  BY DEF ControlInv
<1>2. Len(cmds) \in Nat  BY <1>1 DEF ControlTypeOK
<1>3. CASE lpc[m] = "forward"  BY <1>1, <1>3 DEF ControlOK
<1>4. CASE lpc[m] = "next" /\ line[m] > Len(cmds)
  <2>1. did[m] = 1 .. Len(cmds)  BY <1>1, <1>2, <1>4 DEF ControlOK
  <2>. QED  BY <1>2, <1>4, <2>1 DEF Finished
<1>. QED  BY <1>3, <1>4 DEF LastLine

LEMMA MailforwardOK ==
  ASSUME ControlInv, NEW m \in Delivery, Mailforward(m) \/ LocalEnd(m),
         UNCHANGED <<cmds, xbit, nolocks, localDeaths>>
  PROVE  ControlInv'
<1>1. ControlTypeOK /\ ControlOK(m)  BY DEF ControlInv
<1>2. UNCHANGED <<line, forwardonly, recips, did>>  BY DEF Mailforward, LocalEnd
<1>3. /\ forwards \in [Delivery -> Nat] /\ localDeaths \in Nat /\ forwards[m] \in Nat
      /\ recips[m] \in Nat
  BY Counted
<1>4. CASE LocalEnd(m)
  <2>1. lpc[m] = "end" /\ Exit(m, "0") /\ forwards' = forwards  BY <1>4 DEF LocalEnd
  <2>2. Finished(m) /\ (recips[m] > 0 => forwards[m] > 0) /\ forwards[m] <= localDeaths + 1
    BY <1>1, <2>1 DEF ControlOK
  <2>. QED  BY <1>2, <1>3, <2>1, <2>2, ExitOK DEF Codes
<1>5. CASE Mailforward(m)
  <2>1. Finished(m) /\ lpc[m] \in {"next", "forward"}  BY <1>5, LastLineOK DEF Mailforward
  <2>2. forwards[m] <= localDeaths /\ exit[m] = "none"  BY <2>1, Counted
  <2>3. CASE recips[m] > 0 /\ lpc' = [lpc EXCEPT ![m] = "end"] /\ Requeued(m) /\ UNCHANGED exit
    <3>1. exit' = [exit EXCEPT ![m] = "none"]  BY <1>1, <2>2, <2>3 DEF ControlTypeOK
    <3>2. "end" \in Places /\ "none" \in Codes  BY DEF Places, Codes
    <3>3. localDeaths' \in Nat /\ localDeaths <= localDeaths'  BY <1>3
    <3>4. /\ forwards' \in [Delivery -> Nat] /\ forwards'[m] = forwards[m] + 1
          /\ \A e \in Delivery \ {m} : forwards'[e] = forwards[e]
      BY <1>3, <2>3 DEF Requeued
    <3>5. forwards'[m] <= localDeaths' + 1 /\ forwards'[m] > 0  BY <1>3, <2>2, <3>4
    <3>. QED  BY <1>2, <2>1, <2>3, <3>1, <3>2, <3>3, <3>4, <3>5, PlaceOK
  <2>4. ASSUME NEW c \in {"100", "111"}, Exit(m, c), UNCHANGED forwards PROVE ControlInv'
    BY <1>2, <1>3, <2>1, <2>2, <2>4, ExitOK DEF Codes
  <2>5. CASE recips[m] = 0 /\ Exit(m, "0") /\ UNCHANGED forwards
    BY <1>2, <1>3, <2>1, <2>2, <2>5, ExitOK DEF Codes
  <2>. QED  BY <1>5, <2>3, <2>4, <2>5 DEF Mailforward
<1>. QED  BY <1>4, <1>5

LEMMA LocalDiesOK ==
  ASSUME ControlInv, NEW m \in Delivery, LocalDies(m)
  PROVE  ControlInv'
<1>1. /\ UNCHANGED <<cmds, xbit, nolocks, line, forwardonly, recips, did>>
      /\ localDeaths' = localDeaths + 1
  BY DEF LocalDies
<1>2. /\ forwards \in [Delivery -> Nat] /\ localDeaths \in Nat /\ forwards[m] \in Nat
      /\ forwards[m] <= localDeaths + 1
  BY Counted
<1>3. CASE lpc[m] # "gone" /\ Exit(m, "killed") /\ UNCHANGED forwards
  BY <1>1, <1>2, <1>3, ExitOK DEF Codes
<1>4. CASE LastLine(m) /\ Exit(m, "111") /\ Requeued(m)
  <2>1. lpc[m] \in {"next", "forward"}  BY <1>4, LastLineOK
  <2>2. forwards[m] <= localDeaths  BY <2>1, Counted
  <2>3. /\ forwards' \in [Delivery -> Nat] /\ forwards'[m] = forwards[m] + 1
        /\ \A e \in Delivery \ {m} : forwards'[e] = forwards[e]
    BY <1>2, <1>4 DEF Requeued
  <2>. QED  BY <1>1, <1>2, <1>4, <2>1, <2>2, <2>3, ExitOK DEF Codes
<1>. QED  BY <1>3, <1>4 DEF LocalDies

LEMMA LocalCrashOK == ASSUME ControlInv, LocalCrash PROVE ControlInv'
<1>1. ControlTypeOK  BY DEF ControlInv
<1>2. /\ UNCHANGED <<cmds, xbit, nolocks, line, forwardonly, recips, did, forwards>>
      /\ localDeaths' = localDeaths + 1 /\ lpc' = [m \in Delivery |-> "gone"]
      /\ exit' = [m \in Delivery |-> IF lpc[m] = "gone" THEN exit[m] ELSE "killed"]
  BY DEF LocalCrash
<1>3. ControlTypeOK'  BY <1>1, <1>2 DEF ControlTypeOK, Places, Codes
<1>4. ASSUME NEW m \in Delivery PROVE ControlOK(m)'
  <2>1. ControlOK(m)  BY DEF ControlInv
  <2>2. /\ lpc'[m] = "gone" /\ exit'[m] = IF lpc[m] = "gone" THEN exit[m] ELSE "killed"
        /\ forwards[m] \in Nat /\ localDeaths \in Nat
    BY <1>1, <1>2 DEF ControlTypeOK
  <2>3. Through(m)'  BY <1>2, <2>1 DEF ControlOK, Through
  <2>4. Finished(m)' <=> Finished(m)  BY <1>2 DEF Finished
  <2>. QED  BY <1>2, <2>1, <2>2, <2>3, <2>4 DEF ControlOK
<1>. QED  BY <1>3, <1>4 DEF ControlInv

LEMMA RetryOK == ASSUME ControlInv, NEW m \in Delivery, Retry(m) PROVE ControlInv'
<1>1. ControlTypeOK /\ ControlOK(m)  BY DEF ControlInv
<1>2. /\ lpc[m] = "gone" /\ exit[m] # "0" /\ UNCHANGED <<cmds, xbit, nolocks, forwards, localDeaths>>
      /\ lpc' = [lpc EXCEPT ![m] = "start"] /\ exit' = [exit EXCEPT ![m] = "none"]
      /\ line' = [line EXCEPT ![m] = 1] /\ did' = [did EXCEPT ![m] = {}]
      /\ forwardonly' = [forwardonly EXCEPT ![m] = xbit] /\ recips' = [recips EXCEPT ![m] = 0]
  BY DEF Retry
<1>3. ControlTypeOK'  BY <1>1, <1>2 DEF ControlTypeOK, Places, Codes
<1>4. /\ lpc'[m] = "start" /\ exit'[m] = "none" /\ line'[m] = 1 /\ did'[m] = {}
      /\ forwardonly'[m] = xbit /\ recips'[m] = 0
  BY <1>1, <1>2 DEF ControlTypeOK
<1>5. Len(cmds) \in Nat /\ forwards[m] \in Nat /\ localDeaths \in Nat  BY <1>1 DEF ControlTypeOK
<1>6. ControlOK(m)'
  <2>1. Through(m)'  BY <1>2, <1>4 DEF Through
  <2>2. forwards[m] <= localDeaths  BY <1>1, <1>2, <1>5 DEF ControlOK
  <2>3. line'[m] \in 1 .. Len(cmds) + 1  BY <1>4, <1>5
  <2>4. did'[m] = 1 .. line'[m] - 1 /\ did'[m] \subseteq DOMAIN cmds
    <3>1. 1 .. 1 - 1 = {}  OBVIOUS
    <3>. QED  BY <1>4, <3>1
  <2>. QED  BY <1>2, <1>4, <1>5, <2>1, <2>2, <2>3, <2>4 DEF ControlOK
<1>7. \A e \in Delivery \ {m} :
        /\ lpc'[e] = lpc[e] /\ line'[e] = line[e] /\ forwardonly'[e] = forwardonly[e]
        /\ recips'[e] = recips[e] /\ exit'[e] = exit[e] /\ did'[e] = did[e]
  BY <1>1, <1>2 DEF ControlTypeOK
<1>. QED  BY <1>2, <1>3, <1>5, <1>6, <1>7, ControlOthers

-----------------------------------------------------------------------------
\* A multiple of P, and what comes after it.
LEMMA ModShift ==
  ASSUME NEW P \in Nat \ {0}, NEW a \in Nat, a % P = 0, NEW j \in 0 .. P - 1
  PROVE  (a + j) % P = j
  OBVIOUS

LEMMA ModTimes == ASSUME NEW P \in Nat \ {0}, NEW r \in Nat PROVE (P * r) % P = 0
  OBVIOUS

LEMMA ModNext == ASSUME NEW P \in Nat \ {0}, NEW a \in Nat, a % P = 0 PROVE (a + P) % P = 0
<1>. DEFINE q == a \div P
<1>1. q \in Nat  OBVIOUS
<1>2. a = (P * q) + (a % P)  OBVIOUS
<1>. HIDE DEF q
<1>3. P * q \in Nat  BY <1>1
<1>4. a = P * q  BY <1>2, <1>3
<1>5. P * (q + 1) = P * q + P  BY <1>1
<1>6. (P * (q + 1)) % P = 0  BY <1>1, ModTimes
<1>. QED  BY <1>4, <1>5, <1>6

LEMMA MboxFacts ==
  ASSUME MboxTypeOK
  PROVE  /\ Len(mbox) \in Nat /\ DOMAIN mbox = 1 .. Len(mbox) /\ disk \in Nat /\ disk <= Len(mbox)
         /\ \A n \in 1 .. Len(mbox) : mbox[n] \in Delivery \X (1 .. Parts)
         /\ \A m \in Delivery : pos[m] \in Nat /\ lpc[m] \in Places
         /\ Parts \in Nat \ {0} /\ Parts \in Nat /\ Parts >= 1 /\ Nobody \notin Delivery
<1>1. Len(mbox) \in Nat /\ DOMAIN mbox = 1 .. Len(mbox)  BY LenProperties DEF MboxTypeOK
<1>2. \A n \in 1 .. Len(mbox) : mbox[n] \in Delivery \X (1 .. Parts)
  BY ElementOfSeq DEF MboxTypeOK
<1>. QED  BY <1>1, <1>2, LocalAssumption DEF MboxTypeOK, LocalAssumption

\* The pieces of m behind its place.
Mine(m) == {n \in pos[m] + 1 .. Len(mbox) : mbox[n][1] = m}

LEMMA MineFinite ==
  ASSUME MboxTypeOK, NEW m \in Delivery
  PROVE  IsFiniteSet(Mine(m)) /\ Written(m) = Cardinality(Mine(m)) /\ Written(m) \in Nat
<1>1. pos[m] \in Nat /\ Len(mbox) \in Nat  BY MboxFacts
<1>2. IsFiniteSet(pos[m] + 1 .. Len(mbox))  BY <1>1, FS_Interval
<1>3. Mine(m) \subseteq pos[m] + 1 .. Len(mbox)  BY DEF Mine
<1>4. IsFiniteSet(Mine(m))  BY <1>2, <1>3, FS_Subset
<1>. QED  BY <1>4, FS_CardinalityType DEF Mine, Written

\* With locks, what follows the place of the holder is what it has written.
LEMMA HolderWritten ==
  ASSUME MboxInv, NEW m \in Delivery, lpc[m] = "write", ~nolocks
  PROVE  holder = m /\ Written(m) = Len(mbox) - pos[m]
<1>1. MboxTypeOK /\ LockHeld /\ HolderAlone /\ WritingOK(m)  BY DEF MboxInv
<1>2. holder = m  BY <1>1 DEF LockHeld
<1>3. pos[m] \in Nat /\ Len(mbox) \in Nat /\ pos[m] <= Len(mbox) /\ m # Nobody
  BY <1>1, MboxFacts DEF WritingOK
<1>4. Mine(m) = pos[m] + 1 .. Len(mbox)  BY <1>1, <1>2, <1>3 DEF Mine, HolderAlone
<1>5. Cardinality(pos[m] + 1 .. Len(mbox)) = Len(mbox) - pos[m]
  <2>1. pos[m] + 1 \in Int /\ Len(mbox) \in Int  BY <1>3
  <2>2. Cardinality(pos[m] + 1 .. Len(mbox)) =
          IF pos[m] + 1 > Len(mbox) THEN 0 ELSE Len(mbox) - (pos[m] + 1) + 1
    BY <2>1, FS_Interval
  <2>. QED  BY <1>3, <2>2
<1>. QED  BY <1>1, <1>2, <1>4, <1>5, MineFinite

LEMMA StaysSame ==
  ASSUME MboxInv, UNCHANGED <<whole, nolocks>>, disk' \in Nat, disk <= disk',
         \A n \in 1 .. disk : mbox'[n] = mbox[n]
  PROVE  StaysInMbox'
<1>1. StaysInMbox /\ MboxTypeOK  BY DEF MboxInv
<1>2. disk \in Nat /\ Parts \in Nat /\ Parts >= 1  BY <1>1, MboxFacts
<1>3. ASSUME NEW e \in whole, nolocks, NEW k \in 1 .. Parts
      PROVE  \E n \in 1 .. disk' : mbox'[n] = <<e, k>>
  <2>1. PICK n \in 1 .. disk : mbox[n] = <<e, k>>  BY <1>1, <1>3 DEF StaysInMbox
  <2>. QED  BY <1>2, <2>1
<1>4. ASSUME NEW e \in whole, ~nolocks
      PROVE  \E n \in 0 .. disk' - Parts : \A k \in 1 .. Parts : mbox'[n + k] = <<e, k>>
  <2>1. PICK n \in 0 .. disk - Parts : \A k \in 1 .. Parts : mbox[n + k] = <<e, k>>
    BY <1>1, <1>4 DEF StaysInMbox
  <2>0. n \in Int /\ 0 <= n /\ n <= disk - Parts  BY <1>2
  <2>2. ASSUME NEW k \in 1 .. Parts PROVE n + k \in 1 .. disk
    <3>1. k \in Int /\ 1 <= k /\ k <= Parts  BY <1>2
    <3>. QED  BY <1>2, <2>0, <3>1
  <2>3. \A x \in Nat : disk <= x => n \in 0 .. x - Parts  BY <1>2, <2>0
  <2>4. n \in 0 .. disk' - Parts  BY <2>3
  <2>. QED  BY <2>1, <2>2, <2>4
<1>. QED  BY <1>3, <1>4 DEF StaysInMbox

\* What is not mailfile() does not touch the mbox.
LEMMA MboxFrame ==
  ASSUME MboxInv, UNCHANGED <<nolocks, mbox, disk, pos, holder, whole>>,
         lpc' \in [Delivery -> Places], localDeaths' \in Nat, localDeaths <= localDeaths',
         \A e \in Delivery : lpc'[e] = "write" <=> lpc[e] = "write"
  PROVE  MboxInv'
<1>1. MboxTypeOK'  BY DEF MboxInv, MboxTypeOK
<1>2. LockHeld'  BY DEF MboxInv, LockHeld
<1>3. ASSUME NEW e \in Delivery PROVE WritingOK(e)'
  <2>1. Written(e)' = Written(e)  BY DEF Written
  <2>. QED  BY <2>1 DEF MboxInv, WritingOK
<1>4. HolderAlone'  BY DEF MboxInv, HolderAlone
<1>5. WholeMessages'
  <2>1. localDeaths' = 0 => localDeaths = 0  BY DEF MboxInv, MboxTypeOK
  <2>. QED  BY <2>1 DEF MboxInv, WholeMessages
<1>6. StaysInMbox'  BY DEF MboxInv, StaysInMbox
<1>. QED  BY <1>1, <1>2, <1>3, <1>4, <1>5, <1>6 DEF MboxInv

LEMMA MboxInitOK == ASSUME LocalInit PROVE MboxInv
<1>1. /\ mbox = << >> /\ disk = 0 /\ holder = Nobody /\ whole = {} /\ localDeaths = 0
      /\ lpc = [m \in Delivery |-> "start"] /\ pos = [m \in Delivery |-> 0] /\ nolocks \in BOOLEAN
  BY DEF LocalInit
<1>2. mbox \in Seq(Delivery \X (1 .. Parts)) /\ Len(mbox) = 0  BY <1>1, EmptySeq
<1>3. MboxTypeOK  BY <1>1, <1>2 DEF MboxTypeOK, Places
<1>4. LockHeld  BY <1>1, LocalAssumption DEF LockHeld, LocalAssumption
<1>5. \A m \in Delivery : WritingOK(m)  BY <1>1 DEF WritingOK
<1>6. HolderAlone  BY <1>1 DEF HolderAlone
<1>7. WholeMessages
  <2>1. 0 % Parts = 0  BY LocalAssumption DEF LocalAssumption
  <2>. QED  BY <1>1, <1>2, <2>1 DEF WholeMessages
<1>8. StaysInMbox  BY <1>1 DEF StaysInMbox
<1>. QED  BY <1>3, <1>4, <1>5, <1>6, <1>7, <1>8 DEF MboxInv

LEMMA LockMboxOK ==
  ASSUME MboxInv, NEW m \in Delivery, LockMbox(m), holder' # holder \/ nolocks,
         lpc' = [lpc EXCEPT ![m] = "write"], pos' = [pos EXCEPT ![m] = Len(mbox)],
         UNCHANGED <<nolocks, localDeaths>>
  PROVE  MboxInv'
<1>1. MboxTypeOK /\ LockHeld /\ HolderAlone /\ WholeMessages  BY DEF MboxInv
<1>2. /\ Len(mbox) \in Nat /\ disk \in Nat /\ disk <= Len(mbox) /\ Parts \in Nat \ {0}
      /\ Nobody \notin Delivery
  BY <1>1, MboxFacts
<1>3. UNCHANGED <<mbox, disk, whole>>  BY DEF LockMbox
<1>4. holder' = IF nolocks THEN holder ELSE m  BY DEF LockMbox
<1>5. ~nolocks => holder = Nobody  BY DEF LockMbox, Free
<1>6. /\ lpc'[m] = "write" /\ pos'[m] = Len(mbox)
      /\ \A e \in Delivery \ {m} : lpc'[e] = lpc[e] /\ pos'[e] = pos[e]
  BY <1>1 DEF MboxTypeOK
<1>7. MboxTypeOK'
  <2>1. lpc' \in [Delivery -> Places]  BY <1>1 DEF MboxTypeOK, Places
  <2>2. pos' \in [Delivery -> Nat]  BY <1>1, <1>2 DEF MboxTypeOK
  <2>. QED  BY <1>1, <1>3, <1>4, <2>1, <2>2 DEF MboxTypeOK
<1>8. LockHeld'
  BY <1>1, <1>2, <1>4, <1>5, <1>6 DEF LockHeld
<1>9. ASSUME NEW e \in Delivery PROVE WritingOK(e)'
  <2>1. CASE e = m
    <3>1. pos[m]' + 1 .. Len(mbox)' = {}  BY <1>2, <1>3, <1>6
    <3>2. Written(m)' = Cardinality({})
      <4>1. {n \in pos[m]' + 1 .. Len(mbox)' : mbox[n][1]' = m} = {}  BY <3>1
      <4>. QED  BY <4>1 DEF Written
    <3>3. Written(m)' = 0  BY <3>2, FS_EmptySet
    <3>4. 1 .. 0 = {}  OBVIOUS
    <3>. QED  BY <1>2, <1>3, <1>6, <2>1, <3>3, <3>4 DEF WritingOK
  <2>2. CASE e # m
    <3>1. Written(e)' = Written(e)  BY <1>3, <1>6, <2>2 DEF Written
    <3>2. WritingOK(e)  BY DEF MboxInv
    <3>. QED  BY <1>3, <1>6, <2>2, <3>1, <3>2 DEF WritingOK
  <2>. QED  BY <2>1, <2>2
<1>10. HolderAlone'
  <2>1. CASE nolocks  BY <1>1, <1>4, <2>1 DEF LockHeld, HolderAlone
  <2>2. CASE ~nolocks  BY <1>2, <1>3, <1>4, <1>6, <2>2 DEF HolderAlone
  <2>. QED  BY <2>1, <2>2
<1>11. WholeMessages'
  BY <1>1, <1>2, <1>3, <1>4, <1>5, <1>6 DEF WholeMessages
<1>12. StaysInMbox'  BY <1>2, <1>3, StaysSame
<1>. QED  BY <1>7, <1>8, <1>9, <1>10, <1>11, <1>12 DEF MboxInv

\* One write(): what is there stays, and the next pieces come behind it.
LEMMA Appended ==
  ASSUME MboxTypeOK, NEW m \in Delivery, NEW w \in Nat, NEW n \in w + 1 .. Parts,
         mbox' = mbox \o [k \in 1 .. n - w |-> <<m, w + k>>]
  PROVE  /\ mbox' \in Seq(Delivery \X (1 .. Parts)) /\ Len(mbox') = Len(mbox) + (n - w)
         /\ \A i \in 1 .. Len(mbox) : mbox'[i] = mbox[i]
         /\ \A i \in Len(mbox) + 1 .. Len(mbox) + (n - w) : mbox'[i] = <<m, w + (i - Len(mbox))>>
<1>. DEFINE S == Delivery \X (1 .. Parts)
<1>1. Len(mbox) \in Nat /\ Parts \in Nat  BY MboxFacts
<1>2. PICK l \in Nat : l = n - w /\ w + l = n /\ w + l <= Parts  BY <1>1
<1>. DEFINE more == [k \in 1 .. l |-> <<m, w + k>>]
<1>3. more \in [1 .. l -> S]
  <2>1. ASSUME NEW k \in 1 .. l PROVE w + k \in 1 .. Parts  BY <1>1, <1>2
  <2>. QED  BY <2>1
<1>4. \A k \in 1 .. l : more[k] = <<m, w + k>>  OBVIOUS
<1>5. mbox' = mbox \o more /\ mbox \in Seq(S)  BY <1>2 DEF MboxTypeOK
<1>. HIDE DEF more, S
<1>6. more \in Seq(S) /\ Len(more) = l  BY <1>3
<1>7. /\ mbox \o more \in Seq(S) /\ Len(mbox \o more) = Len(mbox) + l
      /\ \A i \in 1 .. Len(mbox) + l :
           (mbox \o more)[i] = IF i <= Len(mbox) THEN mbox[i] ELSE more[i - Len(mbox)]
  <2>1. /\ mbox \o more \in Seq(S) /\ Len(mbox \o more) = Len(mbox) + Len(more)
        /\ \A i \in 1 .. Len(mbox) + Len(more) :
             (mbox \o more)[i] = IF i <= Len(mbox) THEN mbox[i] ELSE more[i - Len(mbox)]
    BY <1>5, <1>6, ConcatProperties
  <2>. QED  BY <1>6, <2>1
<1>8. ASSUME NEW i \in 1 .. Len(mbox) PROVE mbox'[i] = mbox[i]
  <2>1. i \in 1 .. Len(mbox) + l /\ i <= Len(mbox)  BY <1>1
  <2>. QED  BY <1>5, <1>7, <2>1
<1>9. ASSUME NEW i \in Len(mbox) + 1 .. Len(mbox) + l
      PROVE  mbox'[i] = <<m, w + (i - Len(mbox))>>
  <2>1. i \in 1 .. Len(mbox) + l /\ ~(i <= Len(mbox)) /\ i - Len(mbox) \in 1 .. l
    BY <1>1
  <2>2. mbox'[i] = more[i - Len(mbox)]  BY <1>5, <1>7, <2>1
  <2>. QED  BY <1>4, <2>1, <2>2
<1>. QED  BY <1>2, <1>5, <1>7, <1>8, <1>9 DEF S
LEMMA WriteMboxOK ==
  ASSUME MboxInv, NEW m \in Delivery, WriteMbox(m), UNCHANGED <<nolocks, localDeaths>>
  PROVE  MboxInv'
<1>. DEFINE L == Len(mbox)
            p == pos[m]
            w == Written(m)
<1>1. MboxTypeOK /\ LockHeld /\ HolderAlone /\ WholeMessages /\ WritingOK(m)  BY DEF MboxInv
<1>2. /\ L \in Nat /\ disk \in Nat /\ disk <= L /\ Parts \in Nat /\ Parts >= 1 /\ p \in Nat
      /\ Nobody \notin Delivery /\ \A e \in Delivery : pos[e] \in Nat
  BY <1>1, MboxFacts
<1>3. lpc[m] = "write" /\ UNCHANGED <<lpc, disk, pos, holder, whole>>
  BY DEF WriteMbox, procVars
<1>4. w \in Nat /\ IsFiniteSet(Mine(m)) /\ w = Cardinality(Mine(m)) /\ p <= L
  BY <1>1, <1>3, MineFinite DEF WritingOK
<1>5. PICK n \in w + 1 .. Parts : mbox' = mbox \o [k \in 1 .. n - w |-> <<m, w + k>>]
  BY DEF WriteMbox
<1>6. ~nolocks => holder = m /\ m # Nobody /\ w = L - p  BY <1>2, <1>3, HolderWritten
<1>7. \A k \in 1 .. w : \E i \in p + 1 .. L : mbox[i] = <<m, k>>
  BY <1>1, <1>3 DEF WritingOK
<1>8. Mine(m) = {i \in p + 1 .. L : mbox[i][1] = m}  BY DEF Mine
<1>9. /\ mbox' \in Seq(Delivery \X (1 .. Parts)) /\ Len(mbox') = L + (n - w)
      /\ \A i \in 1 .. L : mbox'[i] = mbox[i]
      /\ \A i \in L + 1 .. L + (n - w) : mbox'[i] = <<m, w + (i - L)>>
  <2>. HIDE DEF w
  <2>. QED  BY <1>1, <1>4, <1>5, Appended
<1>. HIDE DEF w
<1>10. PICK M \in Nat : M = L + (n - w)  BY <1>2, <1>4
<1>11. Len(mbox') = M /\ pos'[m] = p  BY <1>3, <1>9, <1>10
<1>12. n \in Nat /\ w < n /\ n <= Parts /\ L < M /\ M = L + (n - w)  BY <1>2, <1>4, <1>10
<1>13. /\ \A i \in 1 .. L : mbox'[i] = mbox[i]
       /\ \A i \in L + 1 .. M : mbox'[i] = <<m, w + (i - L)>>
  BY <1>9, <1>10
<1>14. MboxTypeOK'
  <2>1. disk \in 0 .. M  BY <1>2, <1>12
  <2>. QED  BY <1>1, <1>3, <1>9, <1>11, <2>1 DEF MboxTypeOK
<1>15. LockHeld'  BY <1>1, <1>3 DEF LockHeld
<1>16. HolderAlone'
  <2>1. CASE nolocks  BY <1>1, <1>3, <2>1 DEF LockHeld, HolderAlone
  <2>2. CASE ~nolocks
    <3>1. disk <= p /\ \A i \in p + 1 .. L : mbox[i] = <<m, i - p>>
      BY <1>1, <1>6, <2>2 DEF HolderAlone
    <3>. HIDE DEF L, p
    <3>2. ASSUME NEW i \in p + 1 .. M PROVE mbox'[i] = <<m, i - p>>
      <4>1. CASE i <= L
        <5>1. i \in 1 .. L /\ i \in p + 1 .. L  BY <1>2, <4>1
        <5>. QED  BY <1>13, <3>1, <5>1
      <4>2. CASE i > L
        <5>1. i \in L + 1 .. M  BY <1>2, <1>12, <4>2
        <5>2. w + (i - L) = i - p  BY <1>2, <1>4, <1>6, <2>2
        <5>. QED  BY <1>13, <5>1, <5>2
      <4>. QED  BY <1>2, <4>1, <4>2
    <3>. QED  BY <1>3, <1>6, <1>11, <2>2, <3>1, <3>2 DEF HolderAlone, p
  <2>. QED  BY <2>1, <2>2
<1>17. ASSUME NEW e \in Delivery, e # m PROVE WritingOK(e)'
  <2>. DEFINE q == pos[e]
  <2>1. q \in Nat  BY <1>2
  <2>2. WritingOK(e)  BY DEF MboxInv
  <2>3. {i \in q + 1 .. M : mbox'[i][1] = e} = {i \in q + 1 .. L : mbox[i][1] = e}
    <3>. HIDE DEF L, q
    <3>1. ASSUME NEW i \in q + 1 .. M, mbox'[i][1] = e PROVE i \in q + 1 .. L /\ mbox[i][1] = e
      <4>1. i \in Int /\ q < i /\ i <= M  BY <2>1
      <4>2. CASE i <= L
        <5>1. i \in 1 .. L /\ i \in q + 1 .. L  BY <1>2, <2>1, <4>1, <4>2
        <5>. QED  BY <1>13, <3>1, <5>1
      <4>3. CASE i > L
        <5>1. i \in L + 1 .. M  BY <1>2, <4>1, <4>3
        <5>2. mbox'[i] = <<m, w + (i - L)>>  BY <1>13, <5>1
        <5>. QED  BY <1>17, <3>1, <5>2
      <4>. QED  BY <1>2, <4>1, <4>2, <4>3
    <3>2. ASSUME NEW i \in q + 1 .. L PROVE mbox'[i] = mbox[i] /\ i \in q + 1 .. M
      <4>1. i \in 1 .. L /\ i \in q + 1 .. M  BY <1>2, <1>12, <2>1
      <4>. QED  BY <1>13, <4>1
    <3>. QED  BY <3>1, <3>2
  <2>4. Written(e)' = Written(e)  BY <1>3, <1>11, <2>3 DEF Written
  <2>5. ASSUME lpc[e] = "write"
        PROVE  /\ q <= M /\ Written(e) \in 0 .. Parts
               /\ \A k \in 1 .. Written(e) : \E i \in q + 1 .. M : mbox'[i] = <<e, k>>
    <3>1. /\ q <= L /\ Written(e) \in 0 .. Parts
          /\ \A k \in 1 .. Written(e) : \E i \in q + 1 .. L : mbox[i] = <<e, k>>
      BY <2>2, <2>5 DEF WritingOK
    <3>. HIDE DEF L, q
    <3>2. q <= M  BY <1>2, <1>12, <2>1, <3>1
    <3>3. ASSUME NEW k \in 1 .. Written(e) PROVE \E i \in q + 1 .. M : mbox'[i] = <<e, k>>
      <4>1. PICK i \in q + 1 .. L : mbox[i] = <<e, k>>  BY <3>1
      <4>2. i \in 1 .. L /\ i \in q + 1 .. M  BY <1>2, <1>12, <2>1
      <4>. QED  BY <1>13, <4>1, <4>2
    <3>. QED  BY <3>1, <3>2, <3>3
  <2>. QED  BY <1>3, <1>11, <2>4, <2>5 DEF WritingOK
<1>18. WritingOK(m)'
  <2>. DEFINE More == L + 1 .. M
  <2>1. {i \in p + 1 .. M : mbox'[i][1] = m} = Mine(m) \union More
    <3>. HIDE DEF L, p, More
    <3>1. ASSUME NEW i \in p + 1 .. M, mbox'[i][1] = m PROVE i \in Mine(m) \union More
      <4>1. CASE i <= L
        <5>1. i \in 1 .. L /\ i \in p + 1 .. L  BY <1>2, <4>1
        <5>. QED  BY <1>8, <1>13, <3>1, <5>1
      <4>2. CASE i > L
        <5>1. i \in More  BY <1>2, <4>2 DEF More
        <5>. QED  BY <5>1
      <4>. QED  BY <1>2, <4>1, <4>2
    <3>2. ASSUME NEW i \in Mine(m) PROVE i \in p + 1 .. M /\ mbox'[i][1] = m
      <4>1. i \in p + 1 .. L /\ mbox[i][1] = m  BY <1>8
      <4>2. i \in 1 .. L /\ i \in p + 1 .. M  BY <1>2, <1>12, <4>1
      <4>. QED  BY <1>13, <4>1, <4>2
    <3>3. ASSUME NEW i \in More PROVE i \in p + 1 .. M /\ mbox'[i][1] = m
      <4>1. i \in L + 1 .. M  BY DEF More
      <4>2. i \in p + 1 .. M  BY <1>2, <1>4, <1>12, <4>1
      <4>3. mbox'[i] = <<m, w + (i - L)>>  BY <1>13, <4>1
      <4>. QED  BY <4>2, <4>3
    <3>. QED  BY <3>1, <3>2, <3>3
  <2>2. Written(m)' = Cardinality(Mine(m) \union More)  BY <1>3, <1>11, <2>1 DEF Written
  <2>. HIDE DEF L, p
  <2>3. Mine(m) \cap More = {}  BY <1>2, <1>8
  <2>4. IsFiniteSet(More) /\ Cardinality(More) = n - w
    <3>1. L + 1 \in Int /\ M \in Int  BY <1>2
    <3>2. IsFiniteSet(More) /\ Cardinality(More) = IF L + 1 > M THEN 0 ELSE M - (L + 1) + 1
      BY <3>1, FS_Interval
    <3>. HIDE DEF More
    <3>. QED  BY <1>2, <1>4, <1>12, <3>2
  <2>. HIDE DEF More
  <2>5. Cardinality(Mine(m) \union More) = Cardinality(Mine(m)) + Cardinality(More) - Cardinality({})
    BY <1>4, <2>3, <2>4, FS_Union
  <2>6. Cardinality(Mine(m) \union More) = n
    BY <1>4, <1>12, <2>4, <2>5, FS_EmptySet
  <2>7. Written(m)' = n  BY <2>2, <2>6
  <2>8. ASSUME NEW k \in 1 .. n PROVE \E i \in p + 1 .. M : mbox'[i] = <<m, k>>
    <3>1. CASE k <= w
      <4>1. k \in 1 .. w  BY <1>4, <3>1
      <4>2. PICK i \in p + 1 .. L : mbox[i] = <<m, k>>  BY <1>7, <4>1
      <4>3. i \in 1 .. L /\ i \in p + 1 .. M  BY <1>2, <1>12
      <4>. QED  BY <1>13, <4>2, <4>3
    <3>2. CASE k > w
      <4>1. L + (k - w) \in L + 1 .. M /\ w + ((L + (k - w)) - L) = k
        BY <1>2, <1>4, <1>12, <3>2
      <4>2. L + (k - w) \in p + 1 .. M  BY <1>2, <1>4, <1>12, <4>1
      <4>3. mbox'[L + (k - w)] = <<m, k>>  BY <1>13, <4>1
      <4>. QED  BY <4>2, <4>3
    <3>. QED  BY <1>4, <1>12, <3>1, <3>2
  <2>9. p <= M /\ n \in 0 .. Parts  BY <1>2, <1>4, <1>12
  <2>. QED  BY <1>11, <2>7, <2>8, <2>9 DEF WritingOK
<1>19. WholeMessages'
  <2>1. SUFFICES ASSUME ~nolocks, localDeaths = 0
                 PROVE  /\ \A i \in 1 .. M :
                             /\ mbox'[i][2] = ((i - 1) % Parts) + 1
                             /\ mbox'[i][2] > 1 => mbox'[i - 1][1] = mbox'[i][1]
                        /\ (IF holder = Nobody THEN M ELSE pos[holder]) % Parts = 0
    BY <1>3, <1>11 DEF WholeMessages
  <2>2. holder = m /\ m # Nobody /\ w = L - p  BY <1>6, <2>1
  <2>3. p % Parts = 0  BY <1>1, <2>1, <2>2 DEF WholeMessages
  <2>4. \A i \in 1 .. L :
          /\ mbox[i][2] = ((i - 1) % Parts) + 1
          /\ mbox[i][2] > 1 => mbox[i - 1][1] = mbox[i][1]
    BY <1>1, <2>1 DEF WholeMessages
  <2>5. \A i \in p + 1 .. M : mbox'[i] = <<m, i - p>>
    BY <1>3, <1>11, <1>16, <2>2 DEF HolderAlone
  <2>6. ASSUME NEW i \in 1 .. M
        PROVE  /\ mbox'[i][2] = ((i - 1) % Parts) + 1
               /\ mbox'[i][2] > 1 => mbox'[i - 1][1] = mbox'[i][1]
    <3>. HIDE DEF L, p
    <3>1. CASE i <= L
      <4>1. i \in 1 .. L  BY <1>2, <3>1
      <4>2. mbox'[i] = mbox[i] /\ mbox[i][2] = ((i - 1) % Parts) + 1
            /\ (mbox[i][2] > 1 => mbox[i - 1][1] = mbox[i][1])
        BY <1>13, <2>4, <4>1
      <4>3. i = 1 \/ i - 1 \in 1 .. L  BY <1>2, <4>1
      <4>4. i # 1 => mbox'[i - 1] = mbox[i - 1]  BY <1>13, <4>3
      <4>5. i = 1 => ((i - 1) % Parts) + 1 = 1  BY <1>2
      <4>. QED  BY <4>2, <4>4, <4>5
    <3>2. CASE i > L
      <4>1. PICK j \in Nat : i = p + j /\ j - 1 \in 0 .. Parts - 1 /\ p + (j - 1) = i - 1
        <5>1. i - p \in Nat /\ (i - p) - 1 \in 0 .. Parts - 1
          BY <1>2, <1>4, <1>12, <2>2, <3>2
        <5>. QED  BY <1>2, <5>1
      <4>2. i \in p + 1 .. M /\ i - p = j  BY <1>2, <4>1
      <4>3. mbox'[i] = <<m, j>>  BY <2>5, <4>2
      <4>4. (p + (j - 1)) % Parts = j - 1
        <5>1. Parts \in Nat \ {0}  BY <1>2
        <5>. QED  BY <1>2, <2>3, <4>1, <5>1, ModShift
      <4>5. ((i - 1) % Parts) + 1 = j  BY <4>1, <4>4
      <4>6. j > 1 => mbox'[i - 1][1] = m
        <5>1. j > 1 => i - 1 \in p + 1 .. M  BY <1>2, <4>1, <4>2
        <5>. QED  BY <2>5, <5>1
      <4>. QED  BY <4>3, <4>5, <4>6
    <3>. QED  BY <1>2, <3>1, <3>2
  <2>. QED  BY <2>2, <2>3, <2>6
<1>20. StaysInMbox'
  <2>1. \A i \in 1 .. disk : mbox'[i] = mbox[i]  BY <1>2, <1>13
  <2>. QED  BY <1>2, <1>3, <2>1, StaysSame
<1>. QED  BY <1>14, <1>15, <1>16, <1>17, <1>18, <1>19, <1>20 DEF MboxInv
\* fsync() and close(): all the pieces of m are behind its place and on disk.
LEMMA SyncMboxOK ==
  ASSUME MboxInv, NEW m \in Delivery, SyncMbox(m), UNCHANGED <<nolocks, localDeaths>>
  PROVE  MboxInv'
<1>. DEFINE L == Len(mbox)
            p == pos[m]
<1>1. MboxTypeOK /\ LockHeld /\ HolderAlone /\ WholeMessages /\ WritingOK(m) /\ StaysInMbox
  BY DEF MboxInv
<1>2. /\ L \in Nat /\ disk \in Nat /\ disk <= L /\ Parts \in Nat /\ Parts >= 1 /\ p \in Nat
      /\ Nobody \notin Delivery
  BY <1>1, MboxFacts
<1>3. /\ lpc[m] = "write" /\ Written(m) = Parts /\ disk' = L /\ whole' = whole \union {m}
      /\ lpc' = [lpc EXCEPT ![m] = "next"] /\ UNCHANGED <<mbox, pos>>
      /\ holder' = IF holder = m THEN Nobody ELSE holder
  BY DEF SyncMbox, ToNext, Released
<1>4. ~nolocks => holder = m /\ Parts = L - p  BY <1>3, HolderWritten
<1>5. p <= L /\ \A k \in 1 .. Parts : \E i \in p + 1 .. L : mbox[i] = <<m, k>>
  BY <1>1, <1>3 DEF WritingOK
<1>6. lpc'[m] = "next" /\ \A e \in Delivery \ {m} : lpc'[e] = lpc[e]
  BY <1>1, <1>3 DEF MboxTypeOK
<1>7. holder' = Nobody  BY <1>1, <1>2, <1>3, <1>4 DEF LockHeld
<1>8. MboxTypeOK'
  <2>1. lpc' \in [Delivery -> Places]  BY <1>1, <1>3 DEF MboxTypeOK, Places
  <2>2. disk' \in 0 .. L  BY <1>2, <1>3
  <2>. QED  BY <1>1, <1>3, <1>7, <2>1, <2>2 DEF MboxTypeOK
<1>9. LockHeld'
  BY <1>1, <1>2, <1>4, <1>6, <1>7 DEF LockHeld
<1>10. ASSUME NEW e \in Delivery PROVE WritingOK(e)'
  <2>1. WritingOK(e)  BY DEF MboxInv
  <2>2. Written(e)' = Written(e)  BY <1>3 DEF Written
  <2>3. lpc'[e] = "write" => lpc[e] = "write"  BY <1>6
  <2>. QED  BY <1>3, <2>1, <2>2, <2>3 DEF WritingOK
<1>11. HolderAlone'  BY <1>7 DEF HolderAlone
<1>12. WholeMessages'
  <2>1. ~nolocks /\ localDeaths = 0 => L % Parts = 0
    <3>1. SUFFICES ASSUME ~nolocks, localDeaths = 0 PROVE L % Parts = 0  OBVIOUS
    <3>2. p % Parts = 0 /\ L = p + Parts  BY <1>1, <1>2, <1>4, <3>1 DEF WholeMessages
    <3>3. Parts \in Nat \ {0}  BY <1>2
    <3>. QED  BY <1>2, <3>2, <3>3, ModNext
  <2>. QED  BY <1>1, <1>3, <1>7, <2>1 DEF WholeMessages
<1>13. ASSUME NEW e \in whole', nolocks, NEW k \in 1 .. Parts
       PROVE  \E i \in 1 .. L : mbox[i] = <<e, k>>
  <2>1. CASE e = m
    <3>1. PICK i \in p + 1 .. L : mbox[i] = <<m, k>>  BY <1>5
    <3>2. i \in 1 .. L  BY <1>2
    <3>. QED  BY <2>1, <3>1, <3>2
  <2>2. CASE e \in whole
    <3>1. PICK i \in 1 .. disk : mbox[i] = <<e, k>>  BY <1>1, <1>13, <2>2 DEF StaysInMbox
    <3>2. i \in 1 .. L  BY <1>2
    <3>. QED  BY <3>1, <3>2
  <2>. QED  BY <1>3, <2>1, <2>2
<1>14. ASSUME NEW e \in whole', ~nolocks
       PROVE  \E n \in 0 .. L - Parts : \A k \in 1 .. Parts : mbox[n + k] = <<e, k>>
  <2>1. CASE e = m
    <3>1. holder # Nobody  BY <1>2, <1>4, <1>14
    <3>2. \A i \in p + 1 .. L : mbox[i] = <<m, i - p>>  BY <1>1, <1>4, <1>14, <3>1 DEF HolderAlone
    <3>3. ASSUME NEW k \in 1 .. Parts PROVE mbox[p + k] = <<m, k>>
      <4>1. p + k \in p + 1 .. L /\ (p + k) - p = k  BY <1>2, <1>4, <1>14
      <4>. QED  BY <3>2, <4>1
    <3>4. p \in 0 .. L - Parts  BY <1>2, <1>4, <1>14
    <3>. QED  BY <2>1, <3>3, <3>4
  <2>2. CASE e \in whole
    <3>1. PICK n \in 0 .. disk - Parts : \A k \in 1 .. Parts : mbox[n + k] = <<e, k>>
      BY <1>1, <1>14, <2>2 DEF StaysInMbox
    <3>2. n \in 0 .. L - Parts  BY <1>2
    <3>. QED  BY <3>1, <3>2
  <2>. QED  BY <1>3, <2>1, <2>2
<1>15. StaysInMbox'
  <2>1. ASSUME NEW e \in whole', nolocks, NEW k \in 1 .. Parts
        PROVE  \E n \in 1 .. disk' : mbox'[n] = <<e, k>>
    <3>1. PICK i \in 1 .. L : mbox[i] = <<e, k>>  BY <1>13, <2>1
    <3>. QED  BY <1>3, <3>1
  <2>2. ASSUME NEW e \in whole', ~nolocks
        PROVE  \E n \in 0 .. disk' - Parts : \A k \in 1 .. Parts : mbox'[n + k] = <<e, k>>
    <3>1. PICK n \in 0 .. L - Parts : \A k \in 1 .. Parts : mbox[n + k] = <<e, k>>
      BY <1>14, <2>2
    <3>2. disk' - Parts = L - Parts  BY <1>3
    <3>. QED  BY <1>3, <3>1, <3>2
  <2>. QED  BY <2>1, <2>2 DEF StaysInMbox
<1>. QED  BY <1>8, <1>9, <1>10, <1>11, <1>12, <1>15 DEF MboxInv

\* What the holder of the lock has written is cut off; without locks nothing is.
LEMMA WriteErrsOK ==
  ASSUME MboxInv, NEW m \in Delivery, WriteErrs(m), UNCHANGED <<nolocks, localDeaths>>
  PROVE  MboxInv'
<1>. DEFINE L == Len(mbox)
            p == pos[m]
<1>1. MboxTypeOK /\ LockHeld /\ HolderAlone /\ WholeMessages /\ WritingOK(m)  BY DEF MboxInv
<1>2. /\ L \in Nat /\ disk \in Nat /\ disk <= L /\ Parts \in Nat /\ p \in Nat
      /\ Nobody \notin Delivery /\ \A i \in 1 .. L : mbox[i] \in Delivery \X (1 .. Parts)
  BY <1>1, MboxFacts
<1>3. /\ lpc[m] = "write" /\ lpc' = [lpc EXCEPT ![m] = "gone"] /\ UNCHANGED <<pos, whole>>
      /\ mbox' = Truncated(m) /\ disk' = IF disk > Len(mbox') THEN Len(mbox') ELSE disk
      /\ holder' = IF holder = m THEN Nobody ELSE holder
  BY DEF WriteErrs, Exit, Released
<1>4. p <= L  BY <1>1, <1>3 DEF WritingOK
<1>5. lpc'[m] = "gone" /\ \A e \in Delivery \ {m} : lpc'[e] = lpc[e]
  BY <1>1, <1>3 DEF MboxTypeOK
<1>6. holder' = Nobody  BY <1>1, <1>2, <1>3 DEF LockHeld
<1>7. PICK M \in 0 .. L : /\ mbox' \in Seq(Delivery \X (1 .. Parts)) /\ Len(mbox') = M
                          /\ \A i \in 1 .. M : mbox'[i] = mbox[i]
                          /\ M = IF nolocks THEN L ELSE p
  <2>1. CASE nolocks
    <3>1. mbox' = mbox  BY <1>1, <1>2, <1>3, <2>1 DEF LockHeld, Truncated
    <3>2. mbox \in Seq(Delivery \X (1 .. Parts))  BY <1>1 DEF MboxTypeOK
    <3>3. L \in 0 .. L  BY <1>2
    <3>. QED  BY <2>1, <3>1, <3>2, <3>3
  <2>2. CASE ~nolocks
    <3>1. mbox' = SubSeq(mbox, 1, p)  BY <1>1, <1>3, <2>2 DEF LockHeld, Truncated
    <3>2. \A i \in 1 .. p : mbox[i] \in Delivery \X (1 .. Parts)  BY <1>2, <1>4
    <3>3. /\ SubSeq(mbox, 1, p) \in Seq(Delivery \X (1 .. Parts))
          /\ Len(SubSeq(mbox, 1, p)) = IF 1 <= p THEN p - 1 + 1 ELSE 0
          /\ \A i \in 1 .. p - 1 + 1 : SubSeq(mbox, 1, p)[i] = mbox[1 + i - 1]
      BY <1>2, <3>2, SubSeqProperties
    <3>. HIDE DEF L, p
    <3>4. Len(SubSeq(mbox, 1, p)) = p /\ p - 1 + 1 = p  BY <1>2, <3>3
    <3>5. ASSUME NEW i \in 1 .. p PROVE SubSeq(mbox, 1, p)[i] = mbox[i]
      <4>1. 1 + i - 1 = i  BY <1>2
      <4>2. i \in 1 .. p - 1 + 1  BY <3>4
      <4>. QED  BY <3>3, <4>1, <4>2
    <3>6. p \in 0 .. L  BY <1>2, <1>4
    <3>. QED  BY <2>2, <3>1, <3>3, <3>4, <3>5, <3>6
  <2>. QED  BY <2>1, <2>2
<1>8. disk <= M
  <2>1. ~nolocks => holder = m /\ m # Nobody  BY <1>1, <1>2, <1>3 DEF LockHeld
  <2>2. ~nolocks => disk <= p  BY <1>1, <2>1 DEF HolderAlone
  <2>. QED  BY <1>2, <1>7, <2>2
<1>9. disk' = disk  BY <1>2, <1>3, <1>7, <1>8
<1>10. MboxTypeOK'
  <2>1. lpc' \in [Delivery -> Places]  BY <1>1, <1>3 DEF MboxTypeOK, Places
  <2>2. disk \in 0 .. M  BY <1>2, <1>7, <1>8
  <2>. QED  BY <1>1, <1>3, <1>6, <1>7, <1>9, <2>1, <2>2 DEF MboxTypeOK
<1>11. LockHeld'
  <2>1. ~nolocks => \A e \in Delivery \ {m} : lpc[e] # "write"  BY <1>1, <1>3 DEF LockHeld
  <2>. QED  BY <1>2, <1>5, <1>6, <2>1 DEF LockHeld
<1>12. ASSUME NEW e \in Delivery PROVE WritingOK(e)'
  <2>1. SUFFICES ASSUME lpc'[e] = "write" PROVE WritingOK(e)'  BY DEF WritingOK
  <2>2. lpc[e] = "write" /\ e # m  BY <1>5, <2>1
  <2>3. nolocks  BY <1>1, <1>3, <2>2 DEF LockHeld
  <2>4. mbox' = mbox  BY <1>1, <1>2, <1>3, <2>3 DEF LockHeld, Truncated
  <2>5. WritingOK(e)  BY DEF MboxInv
  <2>6. Written(e)' = Written(e)  BY <1>3, <2>4 DEF Written
  <2>. QED  BY <1>3, <2>2, <2>4, <2>5, <2>6 DEF WritingOK
<1>13. HolderAlone'  BY <1>6 DEF HolderAlone
<1>14. WholeMessages'
  <2>1. SUFFICES ASSUME ~nolocks, localDeaths = 0
                 PROVE  /\ \A i \in 1 .. M :
                             /\ mbox'[i][2] = ((i - 1) % Parts) + 1
                             /\ mbox'[i][2] > 1 => mbox'[i - 1][1] = mbox'[i][1]
                        /\ M % Parts = 0
    BY <1>6, <1>7 DEF WholeMessages
  <2>2. holder = m /\ M = p  BY <1>1, <1>3, <1>7, <2>1 DEF LockHeld
  <2>3. M % Parts = 0  BY <1>1, <1>2, <2>1, <2>2 DEF WholeMessages
  <2>4. \A i \in 1 .. L :
          /\ mbox[i][2] = ((i - 1) % Parts) + 1
          /\ mbox[i][2] > 1 => mbox[i - 1][1] = mbox[i][1]
    BY <1>1, <2>1 DEF WholeMessages
  <2>5. ASSUME NEW i \in 1 .. M
        PROVE  /\ mbox'[i][2] = ((i - 1) % Parts) + 1
               /\ mbox'[i][2] > 1 => mbox'[i - 1][1] = mbox'[i][1]
    <3>. HIDE DEF L, p
    <3>0. L \in Nat /\ M \in 0 .. L  BY <1>2
    <3>1. i \in 1 .. L /\ (i = 1 \/ i - 1 \in 1 .. M)  BY <3>0
    <3>2. mbox'[i] = mbox[i] /\ (i # 1 => mbox'[i - 1] = mbox[i - 1])  BY <1>7, <3>1
    <3>3. i = 1 => ((i - 1) % Parts) + 1 = 1
      <4>1. Parts \in Nat \ {0}  BY LocalAssumption DEF LocalAssumption
      <4>. QED  BY <4>1
    <3>. QED  BY <2>4, <3>1, <3>2, <3>3
  <2>. QED  BY <2>3, <2>5
<1>15. StaysInMbox'
  <2>0. disk \in Nat /\ M \in Nat  BY <1>2
  <2>1. \A i \in 1 .. disk : i \in 1 .. M  BY <1>8, <2>0
  <2>2. \A i \in 1 .. disk : mbox'[i] = mbox[i]  BY <1>7, <2>1
  <2>. QED  BY <1>2, <1>3, <1>9, <2>2, StaysSame
<1>. QED  BY <1>10, <1>11, <1>12, <1>13, <1>14, <1>15 DEF MboxInv

\* A killed process lets go of the lock and leaves what it has written.
LEMMA KilledOK ==
  ASSUME MboxInv, NEW m \in Delivery, lpc' = [lpc EXCEPT ![m] = "gone"], Released(m),
         localDeaths' = localDeaths + 1, UNCHANGED <<nolocks, mbox, disk, pos, whole>>
  PROVE  MboxInv'
<1>1. MboxTypeOK /\ LockHeld /\ HolderAlone  BY DEF MboxInv
<1>2. Nobody \notin Delivery /\ localDeaths \in Nat  BY <1>1, MboxFacts DEF MboxTypeOK
<1>3. holder' = IF holder = m THEN Nobody ELSE holder  BY DEF Released
<1>4. lpc'[m] = "gone" /\ \A e \in Delivery \ {m} : lpc'[e] = lpc[e]
  BY <1>1 DEF MboxTypeOK
<1>5. MboxTypeOK'
  <2>1. lpc' \in [Delivery -> Places]  BY <1>1 DEF MboxTypeOK, Places
  <2>. QED  BY <1>1, <1>2, <1>3, <2>1 DEF MboxTypeOK
<1>6. LockHeld'
  <2>1. nolocks => holder' = Nobody  BY <1>1, <1>3 DEF LockHeld
  <2>2. ASSUME ~nolocks, NEW e \in Delivery PROVE lpc'[e] = "write" <=> holder' = e
    <3>1. lpc[e] = "write" <=> holder = e  BY <1>1, <2>2 DEF LockHeld
    <3>2. CASE e = m  BY <1>2, <1>3, <1>4, <3>2
    <3>3. CASE e # m  BY <1>2, <1>3, <1>4, <3>1, <3>3
    <3>. QED  BY <3>2, <3>3
  <2>. QED  BY <2>1, <2>2 DEF LockHeld
<1>7. ASSUME NEW e \in Delivery PROVE WritingOK(e)'
  <2>1. Written(e)' = Written(e)  BY DEF Written
  <2>2. WritingOK(e)  BY DEF MboxInv
  <2>3. lpc'[e] = "write" => lpc[e] = "write"  BY <1>4
  <2>. QED  BY <2>1, <2>2, <2>3 DEF WritingOK
<1>8. HolderAlone'  BY <1>1, <1>3 DEF HolderAlone
<1>9. WholeMessages'
  <2>1. localDeaths' # 0  BY <1>2
  <2>. QED  BY <2>1 DEF WholeMessages
<1>10. StaysInMbox'  BY DEF MboxInv, StaysInMbox
<1>. QED  BY <1>5, <1>6, <1>7, <1>8, <1>9, <1>10 DEF MboxInv

LEMMA MboxCrashOK == ASSUME MboxInv, LocalCrash PROVE MboxInv'
<1>. DEFINE L == Len(mbox)
<1>1. MboxTypeOK  BY DEF MboxInv
<1>2. L \in Nat /\ disk \in Nat /\ disk <= L /\ \A i \in 1 .. L : mbox[i] \in Delivery \X (1 .. Parts)
  BY <1>1, MboxFacts
<1>3. PICK n \in disk .. L : mbox' = SubSeq(mbox, 1, n) /\ disk' = n  BY DEF LocalCrash
<1>4. /\ localDeaths' = localDeaths + 1 /\ lpc' = [m \in Delivery |-> "gone"] /\ holder' = Nobody
      /\ UNCHANGED <<nolocks, pos, whole>>
  BY DEF LocalCrash
<1>. HIDE DEF L
<1>5. n \in Nat /\ disk <= n /\ n <= L  BY <1>2
<1>6. \A i \in 1 .. n : mbox[i] \in Delivery \X (1 .. Parts)  BY <1>2, <1>5
<1>7. /\ SubSeq(mbox, 1, n) \in Seq(Delivery \X (1 .. Parts))
      /\ Len(SubSeq(mbox, 1, n)) = IF 1 <= n THEN n - 1 + 1 ELSE 0
      /\ \A i \in 1 .. n - 1 + 1 : SubSeq(mbox, 1, n)[i] = mbox[1 + i - 1]
  BY <1>5, <1>6, SubSeqProperties
<1>8. Len(SubSeq(mbox, 1, n)) = n /\ n - 1 + 1 = n  BY <1>5, <1>7
<1>9. ASSUME NEW i \in 1 .. disk PROVE mbox'[i] = mbox[i]
  <2>1. i \in 1 .. n - 1 + 1 /\ 1 + i - 1 = i  BY <1>2, <1>5
  <2>. QED  BY <1>3, <1>7, <2>1
<1>10. MboxTypeOK'
  <2>1. lpc' \in [Delivery -> Places]  BY <1>4 DEF Places
  <2>2. n \in 0 .. n /\ Len(mbox') = n  BY <1>3, <1>5, <1>8
  <2>3. disk' \in 0 .. Len(mbox')  BY <1>3, <2>2
  <2>. QED  BY <1>1, <1>3, <1>4, <1>7, <2>1, <2>3 DEF MboxTypeOK
<1>11. LockHeld'
  BY <1>4, LocalAssumption DEF LockHeld, LocalAssumption
<1>12. \A e \in Delivery : WritingOK(e)'  BY <1>4 DEF WritingOK
<1>13. HolderAlone'  BY <1>4 DEF HolderAlone
<1>14. WholeMessages'
  <2>1. localDeaths \in Nat  BY <1>1 DEF MboxTypeOK
  <2>2. localDeaths' # 0  BY <1>4, <2>1
  <2>. QED  BY <2>2 DEF WholeMessages
<1>15. StaysInMbox'
  <2>1. disk' \in Nat /\ disk <= disk'  BY <1>3, <1>5
  <2>. QED  BY <1>4, <1>9, <2>1, StaysSame
<1>. QED  BY <1>10, <1>11, <1>12, <1>13, <1>14, <1>15 DEF MboxInv

-----------------------------------------------------------------------------
LEMMA MboxStepOK ==
  ASSUME MboxInv, ControlInv, ControlInv', [LocalNext]_localVars
  PROVE  MboxInv'
<1>1. MboxTypeOK /\ lpc' \in [Delivery -> Places] /\ localDeaths \in Nat /\ localDeaths' \in Nat
  BY DEF MboxInv, ControlInv, ControlTypeOK
<1>2. ASSUME NEW m \in Delivery, lpc[m] # "write", lpc'[m] # "write",
             \A e \in Delivery \ {m} : lpc'[e] = lpc[e], localDeaths <= localDeaths',
             UNCHANGED <<nolocks, fileVars, whole>>
      PROVE  MboxInv'
  <2>1. \A e \in Delivery : lpc'[e] = "write" <=> lpc[e] = "write"  BY <1>2
  <2>. QED  BY <1>1, <1>2, <2>1, MboxFrame DEF fileVars
<1>3. ASSUME NEW m \in Delivery, Work(m) PROVE MboxInv'
  <2>1. UNCHANGED <<nolocks, localDeaths>> /\ localDeaths <= localDeaths'  BY <1>1, <1>3 DEF Work
  <2>2. CASE Bouncexf(m)
    BY <1>1, <1>2, <2>1, <2>2 DEF Bouncexf, Exit, MboxTypeOK
  <2>3. CASE Note(m) \/ ForwardOnly(m)
    BY <1>1, <1>2, <2>1, <2>3 DEF Note, ForwardOnly, Doing, ToNext, Exit, MboxTypeOK
  <2>4. CASE Child(m)
    BY <1>1, <1>2, <2>1, <2>4 DEF Child, Doing, ToNext, Exit, MboxTypeOK
  <2>5. CASE OpenMbox(m)
    BY <1>1, <1>2, <2>1, <2>5 DEF OpenMbox, Doing, Exit, MboxTypeOK
  <2>6. CASE LockMbox(m)
    <3>1. CASE holder' = m /\ Free /\ lpc' = [lpc EXCEPT ![m] = "write"] /\ pos' = [pos EXCEPT ![m] = Len(mbox)]
      <4>1. holder' # holder  BY <1>1, <3>1, LocalAssumption DEF Free, LocalAssumption
      <4>. QED  BY <2>1, <2>6, <3>1, <4>1, LockMboxOK
    <3>2. CASE nolocks /\ lpc' = [lpc EXCEPT ![m] = "write"] /\ pos' = [pos EXCEPT ![m] = Len(mbox)]
      BY <2>1, <2>6, <3>2, LockMboxOK
    <3>3. CASE Exit(m, "111") /\ UNCHANGED <<pos, holder>>
      BY <1>1, <1>2, <2>1, <2>6, <3>3 DEF LockMbox, Exit, MboxTypeOK, fileVars
    <3>. QED  BY <2>6, <3>1, <3>2, <3>3 DEF LockMbox
  <2>7. CASE WriteMbox(m)  BY <2>1, <2>7, WriteMboxOK
  <2>8. CASE SyncMbox(m)  BY <2>1, <2>8, SyncMboxOK
  <2>9. CASE WriteErrs(m)  BY <2>1, <2>9, WriteErrsOK
  <2>10. CASE Mailforward(m)
    <3>1. lpc[m] # "write" /\ UNCHANGED <<fileVars, whole>>  BY <2>10 DEF Mailforward, LastLine
    <3>2. \E x \in {"end", "gone"} : lpc' = [lpc EXCEPT ![m] = x]  BY <2>10 DEF Mailforward, Exit
    <3>. QED  BY <1>1, <1>2, <2>1, <3>1, <3>2 DEF MboxTypeOK
  <2>11. CASE LocalEnd(m)
    BY <1>1, <1>2, <2>1, <2>11 DEF LocalEnd, Exit, MboxTypeOK
  <2>. QED  BY <1>3, <2>2, <2>3, <2>4, <2>5, <2>6, <2>7, <2>8, <2>9, <2>10, <2>11 DEF Work
<1>4. ASSUME NEW m \in Delivery, LocalDies(m) PROVE MboxInv'
  <2>1. localDeaths' = localDeaths + 1 /\ UNCHANGED <<nolocks, mbox, disk, pos, whole>>
        /\ localDeaths <= localDeaths'
    BY <1>1, <1>4 DEF LocalDies
  <2>2. CASE Exit(m, "killed") /\ Released(m)  BY <2>1, <2>2, KilledOK DEF Exit
  <2>3. CASE LastLine(m) /\ Exit(m, "111") /\ UNCHANGED holder
    BY <1>1, <1>2, <2>1, <2>3 DEF LastLine, Exit, MboxTypeOK, fileVars
  <2>. QED  BY <1>4, <2>2, <2>3 DEF LocalDies
<1>5. ASSUME NEW m \in Delivery, Retry(m) PROVE MboxInv'
  <2>1. /\ lpc[m] = "gone" /\ lpc' = [lpc EXCEPT ![m] = "start"]
        /\ UNCHANGED <<nolocks, fileVars, whole, localDeaths>>
    BY <1>5 DEF Retry
  <2>2. lpc'[m] = "start" /\ (\A e \in Delivery \ {m} : lpc'[e] = lpc[e]) /\ localDeaths <= localDeaths'
    BY <1>1, <2>1 DEF MboxTypeOK
  <2>. QED  BY <1>2, <2>1, <2>2
<1>6. CASE LocalCrash  BY <1>6, MboxCrashOK
<1>7. CASE UNCHANGED localVars
  <2>1. UNCHANGED <<nolocks, mbox, disk, pos, holder, whole, lpc, localDeaths>>
    BY <1>7 DEF localVars, fileVars, procVars
  <2>2. localDeaths <= localDeaths'  BY <1>1, <2>1
  <2>3. \A e \in Delivery : lpc'[e] = "write" <=> lpc[e] = "write"  BY <2>1
  <2>. QED  BY <1>1, <2>1, <2>2, <2>3, MboxFrame
<1>. QED  BY <1>3, <1>4, <1>5, <1>6, <1>7 DEF LocalNext

LEMMA ControlStepOK == ASSUME ControlInv, [LocalNext]_localVars PROVE ControlInv'
<1>1. ASSUME NEW m \in Delivery, Work(m) PROVE ControlInv'
  <2>1. UNCHANGED <<cmds, xbit, nolocks, localDeaths>>  BY <1>1 DEF Work
  <2>. QED  BY <1>1, <2>1, BouncexfOK, NoteOK, ChildOK, MailfileOK, MailforwardOK DEF Work
<1>2. CASE UNCHANGED localVars
  <2>1. UNCHANGED <<cmds, xbit, nolocks, lpc, line, forwardonly, recips, exit, did, forwards, localDeaths>>
    BY <1>2 DEF localVars, procVars
  <2>2. ControlTypeOK'  BY <2>1 DEF ControlInv, ControlTypeOK
  <2>3. ASSUME NEW m \in Delivery PROVE ControlOK(m)'
    <3>1. ControlOK(m)  BY DEF ControlInv
    <3>2. Through(m)' <=> Through(m)  BY <2>1 DEF Through
    <3>3. Finished(m)' <=> Finished(m)  BY <2>1 DEF Finished
    <3>. QED  BY <2>1, <3>1, <3>2, <3>3 DEF ControlOK
  <2>. QED  BY <2>2, <2>3 DEF ControlInv
<1>. QED  BY <1>1, <1>2, LocalDiesOK, LocalCrashOK, RetryOK DEF LocalNext

LEMMA LocalInvSafe == ASSUME ControlInv, MboxInv PROVE LocalSafe
<1>1. ControlTypeOK /\ MboxTypeOK /\ LockHeld  BY DEF ControlInv, MboxInv
<1>2. LocalTypeOK
  <2>1. ASSUME NEW m \in Delivery
        PROVE  /\ lpc[m] \in {"start", "next", "lock", "write", "forward", "end", "gone"}
               /\ line[m] \in 1 .. Len(cmds) + 1 /\ did[m] \subseteq DOMAIN cmds
               /\ pos[m] \in 0 .. Len(mbox) \/ lpc[m] # "write"
    <3>1. ControlOK(m) /\ WritingOK(m)  BY DEF ControlInv, MboxInv
    <3>2. lpc[m] \in Places /\ pos[m] \in Nat /\ Len(mbox) \in Nat  BY <1>1, MboxFacts
    <3>3. lpc[m] = "write" => pos[m] \in 0 .. Len(mbox)  BY <3>1, <3>2 DEF WritingOK
    <3>. QED  BY <3>1, <3>2, <3>3 DEF ControlOK, Places
  <2>2. disk \in 0 .. Len(mbox) /\ holder \in Delivery \union {Nobody}  BY <1>1 DEF MboxTypeOK
  <2>. QED  BY <2>1, <2>2 DEF LocalTypeOK
<1>3. StaysInMbox  BY DEF MboxInv
<1>4. NoScraps
  <2>1. SUFFICES ASSUME ~nolocks, localDeaths = 0, Len(mbox) % Parts # 0
                 PROVE  holder = mbox[Len(mbox)][1]
    BY DEF MboxInv, WholeMessages, NoScraps
  <2>2. holder # Nobody /\ pos[holder] % Parts = 0  BY <2>1 DEF MboxInv, WholeMessages
  <2>3. holder \in Delivery /\ lpc[holder] = "write"  BY <1>1, <2>1, <2>2 DEF MboxTypeOK, LockHeld
  <2>4. pos[holder] \in Nat /\ Len(mbox) \in Nat /\ pos[holder] <= Len(mbox)
    BY <1>1, <2>3, MboxFacts DEF MboxInv, WritingOK
  <2>5. Len(mbox) \in pos[holder] + 1 .. Len(mbox)  BY <2>1, <2>2, <2>4
  <2>. QED  BY <2>2, <2>5 DEF MboxInv, HolderAlone
<1>5. ZeroMeansDone
  <2>1. SUFFICES ASSUME NEW m \in Delivery, exit[m] = "0"
                 PROVE  \E n \in 0 .. Len(cmds) :
                          /\ did[m] = 1 .. n
                          /\ n < Len(cmds) => n > 0 /\ cmds[n] = "program"
                          /\ (\E k \in did[m] : cmds[k] = "forward") => forwards[m] > 0
                          /\ \A k \in did[m] : cmds[k] \in {"mbox", "maildir", "program"} =>
                               ~xbit /\ \A j \in 1 .. k : cmds[j] # "+list"
    BY DEF ZeroMeansDone
  <2>2. ControlOK(m)  BY DEF ControlInv
  <2>3. Through(m) /\ Finished(m) /\ (recips[m] > 0 => forwards[m] > 0)  BY <2>1, <2>2 DEF ControlOK
  <2>. QED  BY <2>3 DEF Through, Finished
<1>6. ForwardedOnce
  <2>1. ASSUME NEW m \in Delivery PROVE forwards[m] <= 1 + localDeaths
    <3>1. forwards[m] <= localDeaths + 1 /\ forwards[m] \in Nat /\ localDeaths \in Nat  BY Counted
    <3>. QED  BY <3>1
  <2>. QED  BY <2>1 DEF ForwardedOnce
<1>. QED  BY <1>2, <1>3, <1>4, <1>5, <1>6 DEF LocalSafe

\* qmail-local: what mailfile() has delivered stays in the mbox, the mbox is whole
\* messages, exit 0 means that all instructions were carried out, and a message is
\* forwarded once.
THEOREM LocalHolds == LocalSpec => []LocalSafe
<1>1. LocalInit => ControlInv /\ MboxInv  BY ControlInitOK, MboxInitOK
<1>2. ControlInv /\ MboxInv /\ [LocalNext]_localVars => (ControlInv /\ MboxInv)'
  BY ControlStepOK, MboxStepOK
<1>3. ControlInv /\ MboxInv => LocalSafe  BY LocalInvSafe
<1>. QED  BY <1>1, <1>2, <1>3, PTL DEF LocalSpec

=============================================================================
