--------------------------- MODULE QueueDirProofs ---------------------------
(***************************************************************************)
(* QueueDir for any number of messages, inodes, channels and failures and  *)
(* any DEATH, Slack and OSSIFIED that TimeAssumption allows.               *)
(*                                                                         *)
(* The invariants of QueueDir are not inductive: that no file is lost      *)
(* depends on which number belongs to which process, on what qmail-send    *)
(* knows of the number it works on, and on the request qmail-clean has.    *)
(* IInv says these things, one named part each.                            *)
(*                                                                         *)
(* From it follow, in the second half, that QueueDir implements QueueLife, *)
(* each step of a program being a move of INTERNALS for one number or a    *)
(* change of no state; and Remembered, qmail-send has each message that is *)
(* in S5 in its priority queues, or is working on it, from pqstart() to    *)
(* its end.                                                                *)
(***************************************************************************)
EXTENDS QueueRefinement, TLAPS

(* A number belongs to the message whose pid/ or mess/ file it is, and to   *)
(* one live qmail-queue at most.                                            *)
Numbers ==
  /\ \A m \in Msg : pc[m] \in {"idle", "armed"} => ino[m] = None
  /\ \A m \in Msg : pc[m] \notin {"idle", "armed", "dead"} => ino[m] \in Id
  /\ \A i \in Id : pidf[i] # None => ino[pidf[i]] = i
  /\ \A i \in Id : mess[i] # None => ino[mess[i]] = i
  /\ \A l, m \in Msg : Live(l) /\ Live(m) /\ ino[l] = ino[m] /\ ino[m] # None => l = m

(* Which files a live qmail-queue has. *)
Places ==
  \A m \in Msg : LET i == ino[m] IN
    /\ Live(m) /\ i # None => pidf[i] \in {None, m}
    /\ pc[m] = "pid" => mess[i] = None
    /\ pc[m] \in {"linked", "mess", "written", "undo_mess"} => mess[i] = m /\ intd[i] = None
    /\ pc[m] \in {"intd", "envelope", "undo_intd"} => mess[i] = m /\ intd[i] = m

(* What is on disk, and that only queued messages have the later files. *)
Queued ==
  /\ \A m \in Msg : m \in accepted <=> pc[m] = "done"
  /\ \A m \in Msg \ accepted : finished[m] = {}
  /\ \A m \in Msg : pc[m] \in {"written", "intd", "envelope", "done"} => m \in body
  /\ \A m \in Msg : pc[m] \in {"envelope", "done"} => m \in env
  /\ \A i \in Id : todo[i] # None =>
       todo[i] \in accepted /\ bounce[i] = None /\ finished[todo[i]] = {}
  /\ \A i \in Id : info[i] # None => info[i] \in accepted
  /\ \A i \in Id : bounce[i] # None => bounce[i] \in accepted
  /\ \A c \in Chan, i \in Id : chan[c][i] # None => chan[c][i] \in accepted

(* The file of a live qmail-queue is younger than its alarm. *)
Ages == \A m \in Msg : Live(m) /\ ino[m] # None => fage[ino[m]] <= age[m]

(* Without todo/, info/ decides whether there are other files. *)
Shape ==
  \A i \in Id : todo[i] = None =>
    IF info[i] = None THEN NoChan(i) /\ bounce[i] = None ELSE intd[i] = None

(* What the files of a queued message say about its recipients. *)
Ledger ==
  /\ \A i \in Id : mess[i] \in accepted /\ todo[i] = None =>
       /\ mess[i] \in committed /\ mess[i] \in fsynced
       /\ \A c \in Chan : chan[c][i] # None <=> c \in routed[mess[i]] \ finished[mess[i]]
  /\ \A m \in accepted : mess[ino[m]] # m => m \in committed /\ routed[m] \subseteq finished[m]

Todoing == {"unlink_chan", "unlink_info", "create_info", "preprocess"}

(* What qmail-send knows of the number it works on. *)
SendAt ==
  /\ spc \notin {"down", "scan", "idle"} => sid \in Id
  /\ spc \in Todoing => todofd # None /\ todofd = todo[sid]
  /\ spc = "unlink_chan" => \A c \in Chan : chan[c][sid] # None => c \in sroute
  /\ spc \in {"unlink_info", "create_info"} => NoChan(sid) /\ sroute = {}
  /\ spc = "preprocess" => /\ info[sid] # None
                           /\ \A c \in Chan : chan[c][sid] # None <=> c \in sroute
  /\ spc = "todo_wait" /\ cpc = "answered" /\ creply =>
       /\ todo[sid] = None /\ info[sid] # None
       /\ \A c \in Chan : chan[c][sid] # None <=> c \in sroute
  /\ spc \in {"bounce", "eliminate"} =>
       todo[sid] = None /\ info[sid] # None /\ NoChan(sid) /\ sid \notin pqdone
  /\ spc = "eliminate" => bounce[sid] = None
  /\ spc = "check" => mess[sid] # None /\ fage[sid] > OSSIFIED

Busy == cpc \in {"first", "second"}

(* What a request to qmail-clean relies on, until it is carried out. *)
CleanAt ==
  /\ Busy => cid \in Id /\ spc \in {"down", "todo_wait", "foop_wait"}
  /\ Busy /\ spc # "down" => cid = sid /\ (spc = "todo_wait" <=> creq = "todo")
  /\ Busy /\ creq = "todo" =>
       /\ todo[cid] # None /\ info[cid] # None
       /\ todo[cid] \in committed /\ todo[cid] \in fsynced
       /\ \A c \in Chan : chan[c][cid] # None <=> c \in routed[todo[cid]]
  /\ Busy /\ spc = "todo_wait" => sroute = routed[todo[cid]]
  /\ Busy /\ creq = "foop" =>
       mess[cid] # None /\ ~Live(mess[cid]) /\ todo[cid] = None /\ info[cid] = None
  /\ cpc = "second" => intd[cid] = None

IInv ==
  /\ TypeOK /\ Numbers /\ Places /\ OneOwner /\ Queued /\ Ages /\ Shape /\ Ledger
  /\ SendAt /\ CleanAt /\ PqMeaning
-----------------------------------------------------------------------------
(* What a part of IInv is about: a step that leaves it alone keeps the part. *)
LEMMA Frame ==
  ASSUME IInv
  PROVE  /\ UNCHANGED qvars => QueueTypeOK'
         /\ UNCHANGED <<dirs, fage, disk>> => DirTypeOK'
         /\ UNCHANGED svars => SendTypeOK'
         /\ UNCHANGED cvars => CleanTypeOK'
         /\ UNCHANGED <<faults, hist>> => HistTypeOK'
         /\ UNCHANGED <<pc, ino, pidf, mess>> => Numbers'
         /\ UNCHANGED <<pc, ino, pidf, mess, intd>> => Places'
         /\ UNCHANGED <<mess, intd, todo, info, bounce, chan>> => OneOwner'
         /\ UNCHANGED <<pc, accepted, body, env, todo, bounce, finished, info, chan>> =>
             Queued'
         /\ UNCHANGED <<pc, ino, fage, age>> => Ages'
         /\ UNCHANGED <<todo, info, chan, bounce, intd>> => Shape'
         /\ UNCHANGED <<mess, accepted, todo, committed, fsynced, chan, routed, finished,
             ino>> => Ledger'
         /\ UNCHANGED <<spc, sid, todofd, todo, chan, sroute, info, cpc, creply, pqdone,
             bounce, mess, fage>> => SendAt'
         /\ UNCHANGED <<cpc, cid, spc, sid, creq, todo, info, committed, fsynced, chan,
             routed, sroute, mess, pc, intd>> => CleanAt'
         /\ UNCHANGED <<todo, info, chan, pqchan, pqdone>> => PqMeaning'
<1> USE DEF IInv, TypeOK, qvars, dirs, disk, svars, cvars, hist, Live, NoChan
<1>1. UNCHANGED qvars => QueueTypeOK'
  BY DEF QueueTypeOK
<1>2. UNCHANGED <<dirs, fage, disk>> => DirTypeOK'
  BY DEF DirTypeOK
<1>3. UNCHANGED svars => SendTypeOK'
  BY DEF SendTypeOK
<1>4. UNCHANGED cvars => CleanTypeOK'
  BY DEF CleanTypeOK
<1>5. UNCHANGED <<faults, hist>> => HistTypeOK'
  BY DEF HistTypeOK
<1>6. UNCHANGED <<pc, ino, pidf, mess>> => Numbers'
  BY DEF Numbers
<1>7. UNCHANGED <<pc, ino, pidf, mess, intd>> => Places'
  BY DEF Places
<1>8. UNCHANGED <<mess, intd, todo, info, bounce, chan>> => OneOwner'
  BY DEF OneOwner
<1>9. UNCHANGED <<pc, accepted, body, env, todo, bounce, finished, info, chan>> => Queued'
  BY DEF Queued
<1>10. UNCHANGED <<pc, ino, fage, age>> => Ages'
  BY DEF Ages
<1>11. UNCHANGED <<todo, info, chan, bounce, intd>> => Shape'
  BY DEF Shape
<1>12. UNCHANGED <<mess, accepted, todo, committed, fsynced, chan, routed, finished, ino>>
    => Ledger'
  BY DEF Ledger
<1>13. UNCHANGED <<spc, sid, todofd, todo, chan, sroute, info, cpc, creply, pqdone, bounce,
    mess, fage>> => SendAt'
  BY DEF SendAt, Todoing
<1>14. UNCHANGED <<cpc, cid, spc, sid, creq, todo, info, committed, fsynced, chan, routed,
    sroute, mess, pc, intd>> => CleanAt'
  BY DEF CleanAt, Busy
<1>15. UNCHANGED <<todo, info, chan, pqchan, pqdone>> => PqMeaning'
  BY DEF PqMeaning
<1> QED BY <1>1, <1>2, <1>3, <1>4, <1>5, <1>6, <1>7, <1>8, <1>9, <1>10, <1>11, <1>12,
    <1>13, <1>14, <1>15

(* A step of a qmail-queue. *)
LEMMA QueueStep ==
  ASSUME IInv, NEW m \in Msg, QmailQueue(m)
  PROVE  IInv'
<1> USE DEF IInv, TypeOK, qvars, dirs, disk, svars, cvars, hist, Goto, Unlink, Fsync, Live, Ended,
     QueuePc, SendPc, CleanPc, NoChan, Begin, Idle
<1>1. ASSUME QueueDie(m) PROVE IInv'
  <2>1. QueueTypeOK'
    BY <1>1 DEF QueueDie, QueueTypeOK
  <2>2. Numbers'
    BY <1>1 DEF QueueDie, Numbers
  <2>3. Places'
    BY <1>1 DEF QueueDie, Places
  <2>4. Queued'
    BY <1>1 DEF QueueDie, Queued
  <2>5. Ages'
    BY <1>1 DEF QueueDie, Ages
  <2>6. CleanAt'
    BY <1>1 DEF QueueDie, CleanAt, Busy
  <2> QED BY <1>1, <2>1, <2>2, <2>3, <2>4, <2>5, <2>6, Frame DEF QueueDie
<1>2. CASE Arm(m)
  <2>1. QueueTypeOK'
    BY <1>2 DEF Arm, QueueTypeOK
  <2>2. Numbers'
    BY <1>2 DEF Arm, Numbers
  <2>3. Places'
    BY <1>2 DEF Arm, QueueTypeOK, DirTypeOK, Numbers, Places
  <2>4. Queued'
    BY <1>2 DEF Arm, Queued
  <2>5. Ages'
    BY <1>2 DEF Arm, QueueTypeOK, DirTypeOK, Numbers, Ages
  <2>6. CleanAt'
    BY <1>2, NoneAssumption DEF Arm, QueueTypeOK, DirTypeOK, Numbers, CleanAt, Busy,
        NoneAssumption
  <2> QED BY <1>2, <2>1, <2>2, <2>3, <2>4, <2>5, <2>6, Frame DEF Arm
<1>3. CASE PidOpen(m)
  <2>1. QueueTypeOK'
    BY <1>3 DEF PidOpen, Free, QueueTypeOK
  <2>2. DirTypeOK'
    BY <1>3, TimeAssumption DEF PidOpen, Free, DirTypeOK, TimeAssumption
  <2>3. Numbers'
    BY <1>3, NoneAssumption DEF PidOpen, Free, QueueTypeOK, DirTypeOK, Numbers,
        NoneAssumption
  <2>4. Places'
    BY <1>3 DEF PidOpen, Free, QueueTypeOK, DirTypeOK, Places
  <2>5. Queued'
    BY <1>3, SMTT(20) DEF PidOpen, Free, Queued
  <2>6. Ages'
    BY <1>3 DEF PidOpen, Free, QueueTypeOK, DirTypeOK, Ages
  <2>7. Ledger'
    BY <1>3 DEF PidOpen, Free, QueueTypeOK, DirTypeOK, Queued, Ledger
  <2>8. SendAt'
    BY <1>3 DEF PidOpen, Free, SendAt, Todoing
  <2>9. CleanAt'
    BY <1>3 DEF PidOpen, Free, CleanAt, Busy
  <2> QED BY <1>3, <2>1, <2>2, <2>3, <2>4, <2>5, <2>6, <2>7, <2>8, <2>9, Frame DEF PidOpen,
      Free
<1>4. CASE LinkMess(m)
  <2>1. CASE mess[ino[m]] = None /\ pidf[ino[m]] = m
    <3>0. /\ pc[m] = "pid" /\ ino[m] \in Id
          /\ UNCHANGED <<ino, pidf, intd, todo, info, bounce, chan>>
          /\ UNCHANGED <<age, fage, disk, svars, cvars, faults, hist>>
          /\ \A l \in Msg : pc'[l] = IF l = m THEN "linked" ELSE pc[l]
          /\ \A j \in Id : mess'[j] = IF j = ino[m] THEN m ELSE mess[j]
      BY <1>4, <2>1 DEF LinkMess, Numbers, QueueTypeOK, DirTypeOK
    <3>1. QueueTypeOK'
      BY <3>0, <1>4 DEF LinkMess, QueueTypeOK
    <3>2. DirTypeOK'
      BY <3>0, <1>4 DEF LinkMess, DirTypeOK
    <3>3. Numbers'
      <4>1. \A i \in Id : mess'[i] # None => ino'[mess'[i]] = i
        BY <3>0 DEF Numbers
      <4>2. \A l, n \in Msg : Live(l)' /\ Live(n)' /\ ino'[l] = ino'[n] /\ ino'[l] # None => l = n
        BY <3>0 DEF Numbers
      <4>3. \A l \in Msg : pc'[l] \notin {"idle", "armed", "dead"} => ino'[l] \in Id
        BY <3>0 DEF Numbers
      <4> QED BY <3>0, <4>1, <4>2, <4>3 DEF Numbers
    <3>4. Places'
      BY <3>0, NoneAssumption DEF QueueTypeOK, DirTypeOK, Numbers, Places, OneOwner,
          NoneAssumption
    <3>5. OneOwner'
      BY <3>0, <1>4 DEF LinkMess, DirTypeOK, OneOwner
    <3>6. Queued'
      BY <3>0 DEF Queued
    <3>7. Ages'
      BY <3>0 DEF Ages
    <3>8. Ledger'
      <4>1. m \notin accepted
        BY <3>0 DEF Queued
      <4>2. \A i \in Id : mess'[i] \in accepted => mess'[i] = mess[i]
        BY <3>0, <4>1
      <4>3. \A l \in accepted : mess'[ino[l]] # l => mess[ino[l]] # l
        BY <3>0, <2>1, NoneAssumption DEF NoneAssumption, HistTypeOK, Queued, Numbers
      <4> QED BY <3>0, <4>2, <4>3 DEF Ledger
    <3>9. SendAt'
      BY <3>0, <1>4 DEF LinkMess, DirTypeOK, SendAt, Todoing
    <3>10. CleanAt'
      BY <3>0, <2>1 DEF DirTypeOK, CleanAt, Busy
    <3> QED BY <3>0, <3>1, <3>2, <3>3, <3>4, <3>5, <3>6, <3>7, <3>8, <3>9, <3>10, Frame DEF
        LinkMess
  <2>2. CASE ~(mess[ino[m]] = None /\ pidf[ino[m]] = m)
    <3>1. QueueDie(m)
      BY <1>4, <2>2 DEF LinkMess, QueueDie
    <3> QED BY <1>1, <3>1
  <2> QED BY <2>1, <2>2
<1>5. CASE UnlinkPid(m)
  <2>1. QueueTypeOK'
    BY <1>5 DEF UnlinkPid, QueueTypeOK
  <2>2. DirTypeOK'
    BY <1>5 DEF UnlinkPid, QueueTypeOK, DirTypeOK, Numbers
  <2>3. Numbers'
    BY <1>5 DEF UnlinkPid, Numbers
  <2>4. Places'
    BY <1>5 DEF UnlinkPid, Places
  <2>5. Queued'
    BY <1>5 DEF UnlinkPid, Queued
  <2>6. Ages'
    BY <1>5 DEF UnlinkPid, Ages
  <2>7. CleanAt'
    BY <1>5 DEF UnlinkPid, CleanAt, Busy
  <2> QED BY <1>5, <2>1, <2>2, <2>3, <2>4, <2>5, <2>6, <2>7, Frame DEF UnlinkPid
<1>6. CASE WriteMess(m)
  <2>1. QueueTypeOK'
    BY <1>6 DEF WriteMess, QueueTypeOK
  <2>2. DirTypeOK'
    BY <1>6 DEF WriteMess, DirTypeOK
  <2>3. Numbers'
    BY <1>6 DEF WriteMess, Numbers
  <2>4. Places'
    BY <1>6 DEF WriteMess, Places
  <2>5. Queued'
    BY <1>6 DEF WriteMess, Queued
  <2>6. Ages'
    BY <1>6 DEF WriteMess, Ages
  <2>7. CleanAt'
    BY <1>6 DEF WriteMess, CleanAt, Busy
  <2> QED BY <1>6, <2>1, <2>2, <2>3, <2>4, <2>5, <2>6, <2>7, Frame DEF WriteMess
<1>7. CASE OpenIntd(m)
  <2>1. CASE intd[ino[m]] = None
    <3>0. /\ pc[m] = "written" /\ ino[m] \in Id
          /\ UNCHANGED <<ino, pidf, mess, todo, info, bounce, chan>>
          /\ UNCHANGED <<age, fage, disk, svars, cvars, faults, hist>>
          /\ \A l \in Msg : pc'[l] = IF l = m THEN "intd" ELSE pc[l]
          /\ \A j \in Id : intd'[j] = IF j = ino[m] THEN m ELSE intd[j]
      BY <1>7, <2>1 DEF OpenIntd, Numbers, QueueTypeOK, DirTypeOK
    <3>1. QueueTypeOK'
      BY <3>0, <1>7 DEF OpenIntd, QueueTypeOK
    <3>2. DirTypeOK'
      BY <3>0, <1>7 DEF OpenIntd, DirTypeOK
    <3>3. Numbers'
      BY <3>0 DEF Numbers
    <3>4. Places'
      BY <3>0 DEF QueueTypeOK, DirTypeOK, Numbers, Places
    <3>5. OneOwner'
      BY <3>0 DEF Places, OneOwner
    <3>6. Queued'
      BY <3>0 DEF Queued
    <3>7. Ages'
      BY <3>0 DEF Ages
    <3>8. Shape'
      BY <3>0, NoneAssumption DEF Places, OneOwner, Queued, Shape, NoneAssumption
    <3>9. CleanAt'
      <4>1. todo[ino[m]] = None
        BY <3>0, NoneAssumption DEF NoneAssumption, Places, OneOwner, Queued
      <4>2. Busy => cid # ino[m]
        BY <3>0, <4>1 DEF Places, CleanAt, Busy, CleanTypeOK
      <4>3. cpc' = "second" => intd'[cid] = None
        BY <3>0, <4>2 DEF CleanAt, Busy
      <4>4. Busy /\ creq = "foop" => ~Live(mess[cid])'
        BY <3>0 DEF CleanAt, Busy, DirTypeOK
      <4> QED BY <3>0, <4>3, <4>4 DEF CleanAt, Busy
    <3> QED BY <3>0, <3>1, <3>2, <3>3, <3>4, <3>5, <3>6, <3>7, <3>8, <3>9, Frame DEF
        OpenIntd
  <2>2. CASE ~(intd[ino[m]] = None)
    <3>1. QueueDie(m)
      BY <1>7, <2>2 DEF OpenIntd, QueueDie
    <3> QED BY <1>1, <3>1
  <2> QED BY <2>1, <2>2
<1>8. CASE WriteEnvelope(m)
  <2>1. QueueTypeOK'
    BY <1>8 DEF WriteEnvelope, QueueTypeOK
  <2>2. DirTypeOK'
    BY <1>8 DEF WriteEnvelope, DirTypeOK
  <2>3. Numbers'
    BY <1>8 DEF WriteEnvelope, Numbers
  <2>4. Places'
    BY <1>8 DEF WriteEnvelope, Places
  <2>5. Queued'
    BY <1>8 DEF WriteEnvelope, Queued
  <2>6. Ages'
    BY <1>8 DEF WriteEnvelope, Ages
  <2>7. CleanAt'
    BY <1>8 DEF WriteEnvelope, CleanAt, Busy
  <2> QED BY <1>8, <2>1, <2>2, <2>3, <2>4, <2>5, <2>6, <2>7, Frame DEF WriteEnvelope
<1>9. CASE LinkTodo(m)
  <2>1. CASE todo[ino[m]] = None /\ intd[ino[m]] = m
    <3>0. /\ pc[m] = "envelope" /\ ino[m] \in Id
          /\ UNCHANGED <<ino, pidf, mess, intd, info, bounce, chan>>
          /\ UNCHANGED <<age, fage, disk, svars, cvars, faults, committed, routed, finished>>
          /\ accepted' = accepted \cup {m} /\ mess[ino[m]] = m
          /\ \A l \in Msg : pc'[l] = IF l = m THEN "done" ELSE pc[l]
          /\ \A j \in Id : todo'[j] = IF j = ino[m] THEN m ELSE todo[j]
      BY <1>9, <2>1 DEF LinkTodo, Numbers, Places, QueueTypeOK, DirTypeOK
    <3>1. QueueTypeOK'
      BY <3>0, <1>9 DEF LinkTodo, QueueTypeOK
    <3>2. DirTypeOK'
      BY <3>0, <1>9 DEF LinkTodo, DirTypeOK
    <3>3. HistTypeOK'
      BY <3>0 DEF HistTypeOK
    <3>4. Numbers'
      BY <3>0 DEF Numbers
    <3>5. Places'
      BY <3>0 DEF Places
    <3>6. OneOwner'
      BY <3>0 DEF OneOwner
    <3>7. Queued'
      <4>1. info[ino[m]] = None /\ bounce[ino[m]] = None
        BY <3>0, <2>1, NoneAssumption DEF NoneAssumption, Shape
      <4> QED BY <3>0, <4>1 DEF Queued
    <3>8. Ages'
      BY <3>0 DEF Ages
    <3>9. Shape'
      BY <3>0, NoneAssumption DEF Shape, NoneAssumption
    <3>10. Ledger'
      <4>1. \A i \in Id : mess[i] = m => i = ino[m]
        BY NoneAssumption DEF Numbers, NoneAssumption
      <4>2. \A i \in Id : mess'[i] \in accepted' /\ todo'[i] = None
                            => mess[i] \in accepted /\ todo[i] = None
        BY <3>0, <4>1, NoneAssumption DEF NoneAssumption
      <4>3. \A l \in accepted' : mess'[ino'[l]] # l => l \in accepted /\ mess[ino[l]] # l
        BY <3>0
      <4> QED BY <3>0, <4>2, <4>3 DEF Ledger
    <3>11. SendAt'
      BY <3>0, <2>1, NoneAssumption DEF Shape, SendAt, Todoing, NoneAssumption
    <3>12. CleanAt'
      BY <3>0, <2>1, NoneAssumption DEF DirTypeOK, Places, CleanAt, Busy, NoneAssumption
    <3>13. PqMeaning'
      BY <3>0, <2>1, NoneAssumption DEF SendTypeOK, Shape, PqMeaning, NoneAssumption
    <3> QED BY <3>0, <3>1, <3>2, <3>3, <3>4, <3>5, <3>6, <3>7, <3>8, <3>9, <3>10, <3>11,
        <3>12, <3>13, Frame, <1>9 DEF LinkTodo
  <2>2. CASE ~(todo[ino[m]] = None /\ intd[ino[m]] = m)
    <3>1. QueueDie(m)
      BY <1>9, <2>2 DEF LinkTodo, QueueDie
    <3> QED BY <1>1, <3>1
  <2> QED BY <2>1, <2>2
<1>10. CASE GiveUp(m)
  <2>1. QueueTypeOK'
    BY <1>10 DEF GiveUp, UndoFrom, QueueTypeOK
  <2>2. Numbers'
    BY <1>10 DEF GiveUp, UndoFrom, Numbers
  <2>3. Places'
    BY <1>10 DEF GiveUp, UndoFrom, Places
  <2>4. Queued'
    BY <1>10 DEF GiveUp, UndoFrom, Queued
  <2>5. Ages'
    BY <1>10 DEF GiveUp, UndoFrom, Ages
  <2>6. CleanAt'
    BY <1>10 DEF GiveUp, UndoFrom, CleanAt, Busy
  <2> QED BY <1>10, <2>1, <2>2, <2>3, <2>4, <2>5, <2>6, Frame DEF GiveUp, UndoFrom
<1>11. CASE UndoIntd(m)
  <2>1. QueueTypeOK'
    BY <1>11 DEF UndoIntd, QueueTypeOK
  <2>2. DirTypeOK'
    BY <1>11 DEF UndoIntd, QueueTypeOK, DirTypeOK, Numbers
  <2>3. Numbers'
    BY <1>11 DEF UndoIntd, Numbers
  <2>4. Places'
    BY <1>11 DEF UndoIntd, QueueTypeOK, DirTypeOK, Numbers, Places
  <2>5. OneOwner'
    BY <1>11 DEF UndoIntd, OneOwner
  <2>6. Queued'
    BY <1>11 DEF UndoIntd, Queued
  <2>7. Ages'
    BY <1>11 DEF UndoIntd, Ages
  <2>8. Shape'
    BY <1>11 DEF UndoIntd, Shape
  <2>9. CleanAt'
    BY <1>11 DEF UndoIntd, CleanAt, Busy
  <2> QED BY <1>11, <2>1, <2>2, <2>3, <2>4, <2>5, <2>6, <2>7, <2>8, <2>9, Frame DEF UndoIntd
<1>12. CASE UndoMess(m)
  <2>1. QueueTypeOK'
    BY <1>12 DEF UndoMess, QueueTypeOK
  <2>2. DirTypeOK'
    BY <1>12 DEF UndoMess, QueueTypeOK, DirTypeOK, Numbers
  <2>3. Numbers'
    BY <1>12 DEF UndoMess, Numbers
  <2>4. Places'
    BY <1>12 DEF UndoMess, QueueTypeOK, DirTypeOK, Places
  <2>5. OneOwner'
    BY <1>12 DEF UndoMess, QueueTypeOK, DirTypeOK, Places, OneOwner, Queued
  <2>6. Queued'
    BY <1>12 DEF UndoMess, Queued
  <2>7. Ages'
    BY <1>12 DEF UndoMess, Ages
  <2>8. Ledger'
    <3>1. /\ ino[m] \in Id /\ UNCHANGED <<ino, todo, chan, fsynced, hist>> /\ mess[ino[m]] = m
          /\ \A j \in Id : mess'[j] = IF j = ino[m] THEN None ELSE mess[j]
      BY <1>12 DEF UndoMess, Numbers, Places, QueueTypeOK, DirTypeOK
    <3>2. m \notin accepted
      BY <1>12 DEF UndoMess, Queued
    <3>3. \A i \in Id : mess'[i] \in accepted => mess'[i] = mess[i]
      BY <3>1, NoneAssumption DEF NoneAssumption, HistTypeOK
    <3>4. \A l \in accepted : mess'[ino[l]] # l => mess[ino[l]] # l
      BY <3>1, <3>2 DEF Numbers, Queued, HistTypeOK
    <3> QED BY <3>1, <3>3, <3>4 DEF Ledger
  <2>9. SendAt'
    BY <1>12, TimeAssumption, NoneAssumption DEF UndoMess, QueueTypeOK, DirTypeOK,
        SendTypeOK, Numbers, Places, Ages, SendAt, Todoing, TimeAssumption, NoneAssumption
  <2>10. CleanAt'
    BY <1>12 DEF UndoMess, QueueTypeOK, DirTypeOK, Places, CleanAt, Busy
  <2> QED BY <1>12, <2>1, <2>2, <2>3, <2>4, <2>5, <2>6, <2>7, <2>8, <2>9, <2>10, Frame DEF
      UndoMess
<1> QED BY <1>1, <1>2, <1>3, <1>4, <1>5, <1>6, <1>7, <1>8, <1>9, <1>10, <1>11, <1>12 DEF
    QmailQueue

(* qmail-send starts, reads info/, loses its qmail-clean, ends. *)
LEMMA RestartStep ==
  ASSUME IInv, StartSend \/ PqStarted \/ FoopDone \/ SendExit \/ SendDie \/ CleanDied
          \/ \E i \in Id : PqAdd(i)
  PROVE  IInv'
<1> USE DEF IInv, TypeOK, qvars, dirs, disk, svars, cvars, hist, Goto, Unlink, Fsync, Live, Ended,
     QueuePc, SendPc, CleanPc, NoChan, Begin, Idle
<1>1. CASE StartSend
  <2>1. SendTypeOK'
    BY <1>1, TimeAssumption DEF StartSend, QueueTypeOK, DirTypeOK, SendTypeOK, Numbers,
        Places, OneOwner, Queued, Ages, Shape, Ledger, SendAt, CleanAt, PqMeaning, Todoing,
        Busy, TimeAssumption
  <2>2. CleanTypeOK'
    BY <1>1 DEF StartSend, CleanTypeOK
  <2>3. SendAt'
    BY <1>1 DEF StartSend, SendAt, Todoing
  <2>4. CleanAt'
    BY <1>1 DEF StartSend, CleanAt, Busy
  <2> QED BY <1>1, <2>1, <2>2, <2>3, <2>4, Frame DEF StartSend
<1>2. CASE PqStarted
  <2>1. SendTypeOK'
    BY <1>2 DEF PqStarted, SendTypeOK
  <2>2. SendAt'
    BY <1>2 DEF PqStarted, SendAt, Todoing
  <2>3. CleanAt'
    BY <1>2 DEF PqStarted, CleanAt, Busy
  <2> QED BY <1>2, <2>1, <2>2, <2>3, Frame DEF PqStarted
<1>3. CASE FoopDone
  <2>1. SendTypeOK'
    BY <1>3 DEF FoopDone, SendTypeOK
  <2>2. CleanTypeOK'
    BY <1>3 DEF FoopDone, CleanTypeOK
  <2>3. SendAt'
    BY <1>3 DEF FoopDone, SendAt, Todoing
  <2>4. CleanAt'
    BY <1>3 DEF FoopDone, CleanAt, Busy
  <2> QED BY <1>3, <2>1, <2>2, <2>3, <2>4, Frame DEF FoopDone
<1>4. CASE SendExit
  <2>1. SendTypeOK'
    BY <1>4, TimeAssumption DEF SendExit, Forget, QueueTypeOK, DirTypeOK, SendTypeOK,
        Numbers, Places, OneOwner, Queued, Ages, Shape, Ledger, SendAt, CleanAt, PqMeaning,
        Todoing, Busy, TimeAssumption
  <2>2. SendAt'
    BY <1>4 DEF SendExit, Forget, SendAt, Todoing
  <2>3. CleanAt'
    BY <1>4 DEF SendExit, Forget, CleanAt, Busy
  <2>4. PqMeaning'
    BY <1>4 DEF SendExit, Forget, PqMeaning
  <2> QED BY <1>4, <2>1, <2>2, <2>3, <2>4, Frame DEF SendExit, Forget
<1>5. CASE SendDie
  <2>1. SendTypeOK'
    BY <1>5, TimeAssumption DEF SendDie, Forget, QueueTypeOK, DirTypeOK, SendTypeOK,
        Numbers, Places, OneOwner, Queued, Ages, Shape, Ledger, SendAt, CleanAt, PqMeaning,
        Todoing, Busy, TimeAssumption
  <2>2. HistTypeOK'
    BY <1>5, TimeAssumption DEF SendDie, Forget, HistTypeOK, TimeAssumption
  <2>3. SendAt'
    BY <1>5 DEF SendDie, Forget, SendAt, Todoing
  <2>4. CleanAt'
    BY <1>5 DEF SendDie, Forget, CleanAt, Busy
  <2>5. PqMeaning'
    BY <1>5 DEF SendDie, Forget, PqMeaning
  <2> QED BY <1>5, <2>1, <2>2, <2>3, <2>4, <2>5, Frame DEF SendDie, Forget
<1>6. CASE CleanDied
  <2>1. SendTypeOK'
    BY <1>6 DEF CleanDied, SendTypeOK
  <2>2. SendAt'
    BY <1>6 DEF CleanDied, SendAt, Todoing
  <2>3. CleanAt'
    BY <1>6 DEF CleanDied, CleanAt, Busy
  <2> QED BY <1>6, <2>1, <2>2, <2>3, Frame DEF CleanDied
<1>7. ASSUME NEW i \in Id, PqAdd(i) PROVE IInv'
  <2>1. SendTypeOK'
    BY <1>7 DEF PqAdd, DoneIf, Preprocessed, SendTypeOK
  <2>2. SendAt'
    BY <1>7 DEF PqAdd, DoneIf, Preprocessed, SendAt, Todoing
  <2>3. PqMeaning'
    BY <1>7 DEF PqAdd, DoneIf, Preprocessed, PqMeaning
  <2> QED BY <1>7, <2>1, <2>2, <2>3, Frame DEF PqAdd, DoneIf, Preprocessed
<1> QED BY <1>1, <1>2, <1>3, <1>4, <1>5, <1>6, <1>7

(* todo_do. *)
LEMMA TodoStep ==
  ASSUME IInv, TodoUnlinkInfo \/ TodoCreateInfo \/ TodoCommit \/ TodoFail \/ TodoDone
          \/ (\E i \in Id : TodoOpen(i)) \/ \E c \in Chan : TodoUnlinkChan(c) \/ TodoCreateChan(c)
  PROVE  IInv'
<1> USE DEF IInv, TypeOK, qvars, dirs, disk, svars, cvars, hist, Goto, Unlink, Fsync, Live, Ended,
     QueuePc, SendPc, CleanPc, NoChan, Begin, Idle
<1>1. ASSUME NEW i \in Id, TodoOpen(i) PROVE IInv'
  <2>1. SendTypeOK'
    BY <1>1 DEF TodoOpen, SendTypeOK, DirTypeOK
  <2>2. SendAt'
    BY <1>1 DEF TodoOpen, SendAt, Todoing
  <2>3. CleanAt'
    BY <1>1 DEF TodoOpen, CleanAt, Busy
  <2> QED BY <1>1, <2>1, <2>2, <2>3, Frame DEF TodoOpen
<1>2. ASSUME NEW c \in Chan, TodoUnlinkChan(c) PROVE IInv'
  <2>1. DirTypeOK'
    BY <1>2 DEF TodoUnlinkChan, UnlinkOld, DirTypeOK, SendTypeOK, SendAt, Todoing
  <2>2. SendTypeOK'
    BY <1>2 DEF TodoUnlinkChan, UnlinkOld, SendTypeOK
  <2>3. OneOwner'
    BY <1>2 DEF TodoUnlinkChan, UnlinkOld, OneOwner
  <2>4. Queued'
    BY <1>2 DEF TodoUnlinkChan, UnlinkOld, Queued
  <2>5. Shape'
    BY <1>2 DEF TodoUnlinkChan, UnlinkOld, Shape
  <2>6. Ledger'
    BY <1>2 DEF TodoUnlinkChan, UnlinkOld, DirTypeOK, SendTypeOK, Ledger, SendAt, Todoing
  <2>7. SendAt'
    BY <1>2 DEF TodoUnlinkChan, UnlinkOld, DirTypeOK, SendAt, Todoing
  <2>8. CleanAt'
    BY <1>2 DEF TodoUnlinkChan, UnlinkOld, CleanAt, Busy
  <2>9. PqMeaning'
    BY <1>2 DEF TodoUnlinkChan, UnlinkOld, DirTypeOK, SendTypeOK, SendAt, PqMeaning, Todoing
  <2> QED BY <1>2, <2>1, <2>2, <2>3, <2>4, <2>5, <2>6, <2>7, <2>8, <2>9, Frame DEF
      TodoUnlinkChan, UnlinkOld
<1>3. CASE TodoUnlinkInfo
  <2>1. DirTypeOK'
    BY <1>3 DEF TodoUnlinkInfo, DirTypeOK, SendTypeOK, SendAt, Todoing
  <2>2. SendTypeOK'
    BY <1>3 DEF TodoUnlinkInfo, SendTypeOK
  <2>3. OneOwner'
    BY <1>3 DEF TodoUnlinkInfo, OneOwner
  <2>4. Queued'
    BY <1>3 DEF TodoUnlinkInfo, Queued
  <2>5. Shape'
    BY <1>3 DEF TodoUnlinkInfo, DirTypeOK, SendTypeOK, Shape, SendAt, Todoing
  <2>6. SendAt'
    BY <1>3 DEF TodoUnlinkInfo, SendAt, Todoing
  <2>7. CleanAt'
    BY <1>3 DEF TodoUnlinkInfo, CleanAt, Busy
  <2>8. PqMeaning'
    BY <1>3 DEF TodoUnlinkInfo, DirTypeOK, SendTypeOK, SendAt, PqMeaning, Todoing
  <2> QED BY <1>3, <2>1, <2>2, <2>3, <2>4, <2>5, <2>6, <2>7, <2>8, Frame DEF TodoUnlinkInfo
<1>4. CASE TodoCreateInfo
  <2>1. DirTypeOK'
    BY <1>4 DEF TodoCreateInfo, DirTypeOK, SendTypeOK, SendAt, Todoing
  <2>2. SendTypeOK'
    BY <1>4 DEF TodoCreateInfo, SendTypeOK
  <2>3. OneOwner'
    BY <1>4 DEF TodoCreateInfo, OneOwner, SendAt, Todoing
  <2>4. Queued'
    BY <1>4 DEF TodoCreateInfo, Queued, SendAt, Todoing
  <2>5. Shape'
    BY <1>4 DEF TodoCreateInfo, DirTypeOK, SendTypeOK, Shape, SendAt, Todoing
  <2>6. Ledger'
    BY <1>4, TimeAssumption DEF TodoCreateInfo, QueueTypeOK, DirTypeOK, SendTypeOK, Numbers,
        Places, OneOwner, Queued, Ages, Shape, Ledger, SendAt, CleanAt, PqMeaning, Todoing,
        Busy, TimeAssumption
  <2>7. SendAt'
    <3>1. /\ sid \in Id /\ UNCHANGED <<sid, todofd, todo, chan, sroute, cpc>>
          /\ spc' = "preprocess" /\ info'[sid] = todofd /\ todofd # None
          /\ todofd = todo[sid] /\ NoChan(sid) /\ sroute = {}
      BY <1>4 DEF TodoCreateInfo, SendAt, Todoing, DirTypeOK
    <3> QED BY <3>1 DEF SendAt, Todoing
  <2>8. CleanAt'
    BY <1>4 DEF TodoCreateInfo, CleanAt, Busy
  <2>9. PqMeaning'
    BY <1>4 DEF TodoCreateInfo, DirTypeOK, SendTypeOK, SendAt, PqMeaning, Todoing
  <2> QED BY <1>4, <2>1, <2>2, <2>3, <2>4, <2>5, <2>6, <2>7, <2>8, <2>9, Frame DEF
      TodoCreateInfo
<1>5. ASSUME NEW c \in Chan, TodoCreateChan(c) PROVE IInv'
  <2>1. DirTypeOK'
    BY <1>5 DEF TodoCreateChan, DirTypeOK, SendTypeOK, SendAt, Todoing
  <2>2. SendTypeOK'
    BY <1>5 DEF TodoCreateChan, SendTypeOK
  <2>3. OneOwner'
    BY <1>5 DEF TodoCreateChan, OneOwner, SendAt, Todoing
  <2>4. Queued'
    BY <1>5 DEF TodoCreateChan, Queued, SendAt, Todoing
  <2>5. Shape'
    BY <1>5 DEF TodoCreateChan, Shape, SendAt, Todoing
  <2>6. Ledger'
    BY <1>5 DEF TodoCreateChan, Ledger, SendAt, Todoing
  <2>7. SendAt'
    BY <1>5 DEF TodoCreateChan, DirTypeOK, SendAt, Todoing
  <2>8. CleanAt'
    BY <1>5 DEF TodoCreateChan, CleanAt, Busy
  <2>9. PqMeaning'
    BY <1>5 DEF TodoCreateChan, PqMeaning, SendAt, Todoing
  <2> QED BY <1>5, <2>1, <2>2, <2>3, <2>4, <2>5, <2>6, <2>7, <2>8, <2>9, Frame DEF
      TodoCreateChan
<1>6. CASE TodoCommit
  <2>1. DirTypeOK'
    BY <1>6 DEF TodoCommit, Request, DirTypeOK, SendTypeOK, SendAt, Todoing
  <2>2. SendTypeOK'
    <3>1. CASE cpc = "gone"
      BY <1>6, <3>1 DEF TodoCommit, Request, SendTypeOK, SendAt, Todoing
    <3>2. CASE ~(cpc = "gone")
      BY <1>6, <3>2 DEF TodoCommit, Request, SendTypeOK, SendAt, Todoing
    <3> QED BY <3>1, <3>2
  <2>3. CleanTypeOK'
    BY <1>6 DEF TodoCommit, Request, DirTypeOK, SendTypeOK, CleanTypeOK
  <2>4. HistTypeOK'
    BY <1>6 DEF TodoCommit, Request, DirTypeOK, SendTypeOK, HistTypeOK, SendAt, Todoing
  <2>5. Ledger'
    BY <1>6, TimeAssumption DEF TodoCommit, Request, QueueTypeOK, DirTypeOK, SendTypeOK,
        Numbers, Places, OneOwner, Queued, Ages, Shape, Ledger, SendAt, CleanAt, PqMeaning,
        Todoing, Busy, TimeAssumption
  <2>6. SendAt'
    BY <1>6 DEF TodoCommit, Request, SendAt, Todoing
  <2>7. CleanAt'
    <3>1. CASE cpc = "gone"
      BY <1>6, <3>1, NoneAssumption DEF TodoCommit, Request, DirTypeOK, SendTypeOK,
          HistTypeOK, SendAt, CleanAt, Todoing, Busy, NoneAssumption
    <3>2. CASE ~(cpc = "gone")
      BY <1>6, <3>2, NoneAssumption DEF TodoCommit, Request, DirTypeOK, SendTypeOK,
          HistTypeOK, SendAt, CleanAt, Todoing, Busy, NoneAssumption
    <3> QED BY <3>1, <3>2
  <2> QED BY <1>6, <2>1, <2>2, <2>3, <2>4, <2>5, <2>6, <2>7, Frame DEF TodoCommit, Request
<1>7. CASE TodoFail
  <2>1. SendTypeOK'
    BY <1>7 DEF TodoFail, SendTypeOK
  <2>2. HistTypeOK'
    BY <1>7, TimeAssumption DEF TodoFail, HistTypeOK, TimeAssumption
  <2>3. SendAt'
    BY <1>7 DEF TodoFail, SendAt, Todoing
  <2>4. CleanAt'
    BY <1>7 DEF TodoFail, CleanAt, Busy
  <2> QED BY <1>7, <2>1, <2>2, <2>3, <2>4, Frame DEF TodoFail
<1>8. CASE TodoDone
  <2>1. SendTypeOK'
    BY <1>8 DEF TodoDone, DoneIf, DirTypeOK, SendTypeOK, SendAt, Todoing
  <2>2. CleanTypeOK'
    BY <1>8 DEF TodoDone, DoneIf, CleanTypeOK
  <2>3. SendAt'
    BY <1>8 DEF TodoDone, DoneIf, SendAt, Todoing
  <2>4. CleanAt'
    BY <1>8 DEF TodoDone, DoneIf, CleanAt, Busy
  <2>5. PqMeaning'
    BY <1>8 DEF TodoDone, DoneIf, DirTypeOK, SendTypeOK, SendAt, PqMeaning, Todoing
  <2> QED BY <1>8, <2>1, <2>2, <2>3, <2>4, <2>5, Frame DEF TodoDone, DoneIf
<1> QED BY <1>1, <1>2, <1>3, <1>4, <1>5, <1>6, <1>7, <1>8

(* A recipient is done with, and messdone. *)
LEMMA DoneStep ==
  ASSUME IInv, InjectBounce \/ Eliminate \/ MessdoneFail \/ (\E i \in Id : Messdone(i))
          \/ \E i \in Id, c \in Chan : AddBounce(i, c) \/ Delivered(i, c)
  PROVE  IInv'
<1> USE DEF IInv, TypeOK, qvars, dirs, disk, svars, cvars, hist, Goto, Unlink, Fsync, Live, Ended,
     QueuePc, SendPc, CleanPc, NoChan, Begin, Idle
<1>1. ASSUME NEW i \in Id, NEW c \in Chan, AddBounce(i, c) PROVE IInv'
  <2>1. DirTypeOK'
    BY <1>1 DEF AddBounce, DirTypeOK
  <2>2. OneOwner'
    BY <1>1 DEF AddBounce, OneOwner
  <2>3. Queued'
    BY <1>1 DEF AddBounce, DirTypeOK, SendTypeOK, Queued, PqMeaning
  <2>4. Shape'
    BY <1>1 DEF AddBounce, Shape
  <2>5. SendAt'
    BY <1>1 DEF AddBounce, SendAt, Todoing
  <2> QED BY <1>1, <2>1, <2>2, <2>3, <2>4, <2>5, Frame DEF AddBounce
<1>2. ASSUME NEW i \in Id, NEW c \in Chan, Delivered(i, c) PROVE IInv'
  <2>1. DirTypeOK'
    BY <1>2 DEF Delivered, DoneIf, DirTypeOK
  <2>2. SendTypeOK'
    BY <1>2 DEF Delivered, DoneIf, SendTypeOK
  <2>3. HistTypeOK'
    BY <1>2 DEF Delivered, DoneIf, DirTypeOK, SendTypeOK, HistTypeOK
  <2>4. OneOwner'
    BY <1>2 DEF Delivered, DoneIf, OneOwner
  <2>5. Queued'
    <3>1. /\ UNCHANGED <<pc, accepted, body, env, todo, info, bounce>> /\ todo[i] = None
          /\ \A b \in Chan, j \in Id : chan'[b][j] = IF b = c /\ j = i THEN None ELSE chan[b][j]
          /\ chan[c][i] \in accepted
          /\ \A m \in Msg : m # chan[c][i] => finished'[m] = finished[m]
      BY <1>2 DEF Delivered, PqMeaning, DirTypeOK, Queued, HistTypeOK
    <3>2. chan[c][i] = mess[i] /\ mess[i] # None
      BY <1>2, NoneAssumption DEF Delivered, OneOwner
    <3>3. \A j \in Id : todo[j] # None => todo[j] # chan[c][i]
      BY <3>1, <3>2 DEF OneOwner, Numbers, DirTypeOK
    <3> QED BY <3>1, <3>2, <3>3 DEF Queued, HistTypeOK, DirTypeOK
  <2>6. Shape'
    BY <1>2 DEF Delivered, DoneIf, Shape
  <2>7. Ledger'
    BY <1>2, NoneAssumption DEF Delivered, DoneIf, QueueTypeOK, DirTypeOK, HistTypeOK,
        Numbers, OneOwner, Ledger, NoneAssumption
  <2>8. SendAt'
    BY <1>2 DEF Delivered, DoneIf, SendAt, Todoing
  <2>9. CleanAt'
    BY <1>2 DEF Delivered, DoneIf, CleanAt, Busy
  <2>10. PqMeaning'
    BY <1>2 DEF Delivered, DoneIf, DirTypeOK, SendTypeOK, PqMeaning
  <2> QED BY <1>2, <2>1, <2>2, <2>3, <2>4, <2>5, <2>6, <2>7, <2>8, <2>9, <2>10, Frame DEF
      Delivered, DoneIf
<1>3. ASSUME NEW i \in Id, Messdone(i) PROVE IInv'
  <2>1. SendTypeOK'
    BY <1>3 DEF Messdone, Preprocessed, SendTypeOK
  <2>2. SendAt'
    BY <1>3 DEF Messdone, Preprocessed, SendAt, Todoing
  <2>3. CleanAt'
    BY <1>3 DEF Messdone, Preprocessed, CleanAt, Busy
  <2>4. PqMeaning'
    BY <1>3 DEF Messdone, Preprocessed, PqMeaning
  <2> QED BY <1>3, <2>1, <2>2, <2>3, <2>4, Frame DEF Messdone, Preprocessed
<1>4. CASE InjectBounce
  <2>1. DirTypeOK'
    BY <1>4 DEF InjectBounce, UnlinkBounce, DirTypeOK, SendTypeOK, SendAt, Todoing
  <2>2. SendTypeOK'
    BY <1>4 DEF InjectBounce, UnlinkBounce, SendTypeOK
  <2>3. OneOwner'
    BY <1>4 DEF InjectBounce, UnlinkBounce, OneOwner
  <2>4. Queued'
    BY <1>4 DEF InjectBounce, UnlinkBounce, Queued
  <2>5. Shape'
    BY <1>4 DEF InjectBounce, UnlinkBounce, Shape
  <2>6. SendAt'
    BY <1>4 DEF InjectBounce, UnlinkBounce, DirTypeOK, SendAt, Todoing
  <2>7. CleanAt'
    BY <1>4 DEF InjectBounce, UnlinkBounce, CleanAt, Busy
  <2> QED BY <1>4, <2>1, <2>2, <2>3, <2>4, <2>5, <2>6, <2>7, Frame DEF InjectBounce,
      UnlinkBounce
<1>5. CASE Eliminate
  <2>1. DirTypeOK'
    BY <1>5 DEF Eliminate, Request, UnlinkInfo, DirTypeOK, SendTypeOK, SendAt, Todoing
  <2>2. SendTypeOK'
    <3>1. CASE cpc = "gone"
      BY <1>5, <3>1 DEF Eliminate, Request, UnlinkInfo, SendTypeOK, SendAt, Todoing
    <3>2. CASE ~(cpc = "gone")
      BY <1>5, <3>2 DEF Eliminate, Request, UnlinkInfo, SendTypeOK, SendAt, Todoing
    <3> QED BY <3>1, <3>2
  <2>3. CleanTypeOK'
    BY <1>5 DEF Eliminate, Request, UnlinkInfo, DirTypeOK, SendTypeOK, CleanTypeOK
  <2>4. OneOwner'
    BY <1>5 DEF Eliminate, Request, UnlinkInfo, OneOwner
  <2>5. Queued'
    BY <1>5 DEF Eliminate, Request, UnlinkInfo, Queued
  <2>6. Shape'
    BY <1>5 DEF Eliminate, Request, UnlinkInfo, DirTypeOK, SendTypeOK, Shape, SendAt,
        Todoing
  <2>7. SendAt'
    BY <1>5 DEF Eliminate, Request, UnlinkInfo, SendAt, Todoing
  <2>8. CleanAt'
    BY <1>5, TimeAssumption DEF Eliminate, Request, UnlinkInfo, QueueTypeOK, DirTypeOK,
        SendTypeOK, Numbers, Places, OneOwner, Queued, Ages, Shape, Ledger, SendAt, CleanAt,
        PqMeaning, Todoing, Busy, TimeAssumption
  <2>9. PqMeaning'
    BY <1>5 DEF Eliminate, Request, UnlinkInfo, DirTypeOK, SendTypeOK, SendAt, PqMeaning,
        Todoing
  <2> QED BY <1>5, <2>1, <2>2, <2>3, <2>4, <2>5, <2>6, <2>7, <2>8, <2>9, Frame DEF
      Eliminate, Request, UnlinkInfo
<1>6. CASE MessdoneFail
  <2>1. SendTypeOK'
    BY <1>6 DEF MessdoneFail, DirTypeOK, SendTypeOK, SendAt, Todoing
  <2>2. HistTypeOK'
    BY <1>6, TimeAssumption DEF MessdoneFail, HistTypeOK, TimeAssumption
  <2>3. SendAt'
    BY <1>6 DEF MessdoneFail, SendAt, Todoing
  <2>4. CleanAt'
    BY <1>6 DEF MessdoneFail, CleanAt, Busy
  <2>5. PqMeaning'
    BY <1>6 DEF MessdoneFail, DirTypeOK, SendTypeOK, SendAt, PqMeaning, Todoing
  <2> QED BY <1>6, <2>1, <2>2, <2>3, <2>4, <2>5, Frame DEF MessdoneFail
<1> QED BY <1>1, <1>2, <1>3, <1>4, <1>5, <1>6

(* cleanup_do. *)
LEMMA CleanupStep ==
  ASSUME IInv, CleanupAsk \/ \E i \in Id : CleanupStat(i)
  PROVE  IInv'
<1> USE DEF IInv, TypeOK, qvars, dirs, disk, svars, cvars, hist, Goto, Unlink, Fsync, Live, Ended,
     QueuePc, SendPc, CleanPc, NoChan, Begin, Idle
<1>1. ASSUME NEW i \in Id, CleanupStat(i) PROVE IInv'
  <2>1. SendTypeOK'
    BY <1>1 DEF CleanupStat, Overdue, SendTypeOK
  <2>2. SendAt'
    BY <1>1 DEF CleanupStat, Overdue, SendAt, Todoing
  <2>3. CleanAt'
    BY <1>1 DEF CleanupStat, Overdue, CleanAt, Busy
  <2> QED BY <1>1, <2>1, <2>2, <2>3, Frame DEF CleanupStat, Overdue
<1>2. CASE CleanupAsk
  <2>1. SendTypeOK'
    <3>1. CASE Leftover(sid) /\ cpc # "gone"
      BY <1>2, <3>1 DEF CleanupAsk, Leftover, Request, SendTypeOK, SendAt, Todoing
    <3>2. CASE ~(Leftover(sid) /\ cpc # "gone")
      BY <1>2, <3>2 DEF CleanupAsk, Leftover, Request, SendTypeOK, SendAt, Todoing
    <3> QED BY <3>1, <3>2
  <2>2. CleanTypeOK'
    BY <1>2 DEF CleanupAsk, Leftover, Request, DirTypeOK, SendTypeOK, CleanTypeOK
  <2>3. SendAt'
    BY <1>2 DEF CleanupAsk, Leftover, Request, SendAt, Todoing
  <2>4. CleanAt'
    <3>1. CASE Leftover(sid) /\ cpc # "gone"
      BY <1>2, <3>1, TimeAssumption, NoneAssumption DEF CleanupAsk, Leftover, Request,
          QueueTypeOK, DirTypeOK, SendTypeOK, Numbers, Ages, SendAt, CleanAt, Todoing, Busy,
          TimeAssumption, NoneAssumption
    <3>2. CASE ~(Leftover(sid) /\ cpc # "gone")
      BY <1>2, <3>2 DEF CleanupAsk, Leftover, Request, SendTypeOK, SendAt, CleanAt, Todoing,
          Busy
    <3> QED BY <3>1, <3>2
  <2> QED BY <1>2, <2>1, <2>2, <2>3, <2>4, Frame DEF CleanupAsk, Leftover, Request
<1> QED BY <1>1, <1>2

(* A step of qmail-clean. *)
LEMMA CleanStep ==
  ASSUME IInv, QmailClean
  PROVE  IInv'
<1> USE DEF IInv, TypeOK, qvars, dirs, disk, svars, cvars, hist, Goto, Unlink, Fsync, Live, Ended,
     QueuePc, SendPc, CleanPc, NoChan, Begin, Idle
<1>1. CASE CleanIntd
  <2>1. DirTypeOK'
    BY <1>1 DEF CleanIntd, DirTypeOK, SendTypeOK, CleanAt, Busy
  <2>2. CleanTypeOK'
    BY <1>1 DEF CleanIntd, CleanTypeOK
  <2>3. Places'
    <3>1. /\ cid \in Id /\ UNCHANGED <<pc, ino, pidf, mess>> /\ Busy
          /\ \A j \in Id : intd'[j] = IF j = cid THEN None ELSE intd[j]
      BY <1>1 DEF CleanIntd, CleanAt, Busy, DirTypeOK
    <3>2. \A m \in Msg : Live(m) /\ mess[ino[m]] = m => cid # ino[m]
      <4>1. CASE creq = "todo"
        <5>1. todo[cid] \in accepted /\ mess[cid] = todo[cid]
          BY <3>1, <4>1 DEF CleanAt, OneOwner, Queued
        <5> QED BY <5>1 DEF Queued
      <4>2. CASE creq = "foop"
        BY <3>1, <4>2 DEF CleanAt
      <4> QED BY <4>1, <4>2 DEF CleanTypeOK
    <3> QED BY <3>1, <3>2 DEF Places, Numbers
  <2>4. OneOwner'
    BY <1>1 DEF CleanIntd, OneOwner
  <2>5. Shape'
    BY <1>1 DEF CleanIntd, Shape
  <2>6. SendAt'
    BY <1>1 DEF CleanIntd, SendAt, Todoing
  <2>7. CleanAt'
    BY <1>1 DEF CleanIntd, DirTypeOK, CleanAt, Busy
  <2> QED BY <1>1, <2>1, <2>2, <2>3, <2>4, <2>5, <2>6, <2>7, Frame DEF CleanIntd
<1>2. CASE CleanLast
  <2>1. DirTypeOK'
    BY <1>2 DEF CleanLast, UnlinkMess, DirTypeOK
  <2>2. CleanTypeOK'
    BY <1>2 DEF CleanLast, UnlinkMess, CleanTypeOK
  <2>3. Numbers'
    BY <1>2 DEF CleanLast, UnlinkMess, DirTypeOK, Numbers
  <2>4. Places'
    BY <1>2 DEF CleanLast, UnlinkMess, QueueTypeOK, DirTypeOK, SendTypeOK, Numbers, Places,
        CleanAt, Busy
  <2>5. OneOwner'
    BY <1>2, TimeAssumption DEF CleanLast, UnlinkMess, QueueTypeOK, DirTypeOK, SendTypeOK,
        Numbers, Places, OneOwner, Queued, Ages, Shape, Ledger, SendAt, CleanAt, PqMeaning,
        Todoing, Busy, TimeAssumption
  <2>6. Queued'
    BY <1>2 DEF CleanLast, UnlinkMess, DirTypeOK, Queued
  <2>7. Shape'
    <3>1. CASE creq = "foop"
      BY <1>2, <3>1 DEF CleanLast, Shape
    <3>2. CASE creq = "todo"
      <4>1. /\ cid \in Id /\ UNCHANGED <<info, chan, bounce, intd>>
            /\ intd[cid] = None /\ info[cid] # None
            /\ \A j \in Id : todo'[j] = IF j = cid THEN None ELSE todo[j]
        BY <1>2, <3>2 DEF CleanLast, CleanAt, Busy, DirTypeOK
      <4> QED BY <4>1 DEF Shape
    <3> QED BY <3>1, <3>2 DEF CleanTypeOK
  <2>8. Ledger'
    <3>1. CASE creq = "foop"
      <4>1. /\ cid \in Id /\ UNCHANGED <<ino, todo, chan, fsynced, hist>> /\ Busy
            /\ \A j \in Id : mess'[j] = IF j = cid THEN None ELSE mess[j]
        BY <1>2, <3>1 DEF CleanLast, CleanAt, Busy, DirTypeOK, UnlinkMess
      <4>2. \A c \in Chan : chan[c][cid] = None
        BY <3>1, <4>1 DEF CleanAt, Shape
      <4>3. mess[cid] \in accepted =>
              mess[cid] \in committed /\ routed[mess[cid]] \subseteq finished[mess[cid]]
        BY <3>1, <4>1, <4>2 DEF CleanAt, Ledger, HistTypeOK
      <4>4. \A i \in Id : mess'[i] \in accepted => mess'[i] = mess[i]
        BY <4>1, NoneAssumption DEF NoneAssumption, HistTypeOK
      <4>5. \A l \in accepted : mess'[ino[l]] # l => mess[ino[l]] # l \/ l = mess[cid]
        BY <4>1 DEF Numbers, Queued, HistTypeOK
      <4> QED BY <4>1, <4>3, <4>4, <4>5 DEF Ledger
    <3>2. CASE creq = "todo"
      <4>1. /\ cid \in Id /\ UNCHANGED <<ino, mess, chan, fsynced, hist>> /\ Busy
            /\ \A j \in Id : todo'[j] = IF j = cid THEN None ELSE todo[j]
        BY <1>2, <3>2 DEF CleanLast, CleanAt, Busy, DirTypeOK
      <4>2. mess[cid] = todo[cid] /\ finished[todo[cid]] = {}
        BY <3>2, <4>1 DEF CleanAt, OneOwner, Queued
      <4>3. /\ mess[cid] \in committed /\ mess[cid] \in fsynced
            /\ \A c \in Chan : chan[c][cid] # None
                                 <=> c \in routed[mess[cid]] \ finished[mess[cid]]
        BY <3>2, <4>1, <4>2 DEF CleanAt
      <4> QED BY <4>1, <4>3 DEF Ledger
    <3> QED BY <3>1, <3>2 DEF CleanTypeOK
  <2>9. SendAt'
    BY <1>2 DEF CleanLast, UnlinkMess, DirTypeOK, SendTypeOK, SendAt, CleanAt, Todoing, Busy
  <2>10. CleanAt'
    BY <1>2 DEF CleanLast, UnlinkMess, CleanAt, Busy
  <2>11. PqMeaning'
    BY <1>2 DEF CleanLast, UnlinkMess, DirTypeOK, SendTypeOK, PqMeaning
  <2> QED BY <1>2, <2>1, <2>2, <2>3, <2>4, <2>5, <2>6, <2>7, <2>8, <2>9, <2>10, <2>11, Frame
      DEF CleanLast, UnlinkMess
<1>3. CASE CleanFail
  <2>1. CleanTypeOK'
    BY <1>3, TimeAssumption DEF CleanFail, QueueTypeOK, DirTypeOK, SendTypeOK, CleanTypeOK,
        Numbers, Places, OneOwner, Queued, Ages, Shape, Ledger, SendAt, CleanAt, PqMeaning,
        Todoing, Busy, TimeAssumption
  <2>2. HistTypeOK'
    BY <1>3, TimeAssumption DEF CleanFail, HistTypeOK, TimeAssumption
  <2>3. SendAt'
    BY <1>3 DEF CleanFail, SendAt, Todoing
  <2>4. CleanAt'
    BY <1>3 DEF CleanFail, CleanAt, Busy
  <2> QED BY <1>3, <2>1, <2>2, <2>3, <2>4, Frame DEF CleanFail
<1>4. CASE CleanDie
  <2>1. CleanTypeOK'
    BY <1>4 DEF CleanDie, CleanTypeOK
  <2>2. HistTypeOK'
    BY <1>4, TimeAssumption DEF CleanDie, HistTypeOK, TimeAssumption
  <2>3. SendAt'
    BY <1>4 DEF CleanDie, SendAt, Todoing
  <2>4. CleanAt'
    BY <1>4 DEF CleanDie, CleanAt, Busy
  <2> QED BY <1>4, <2>1, <2>2, <2>3, <2>4, Frame DEF CleanDie
<1>5. ASSUME NEW i \in Id, CleanPid(i) PROVE IInv'
  <2>1. DirTypeOK'
    BY <1>5 DEF CleanPid, DirTypeOK
  <2>2. Numbers'
    BY <1>5 DEF CleanPid, Numbers
  <2>3. Places'
    BY <1>5 DEF CleanPid, Places
  <2> QED BY <1>5, <2>1, <2>2, <2>3, Frame DEF CleanPid
<1> QED BY <1>1, <1>2, <1>3, <1>4, <1>5 DEF QmailClean

(* A second passes. *)
LEMMA TickStep ==
  ASSUME IInv, Tick
  PROVE  IInv'
<1> USE DEF IInv, TypeOK, qvars, dirs, disk, svars, cvars, hist, Goto, Unlink, Fsync, Live, Ended,
     QueuePc, SendPc, CleanPc, NoChan, Begin, Idle
  <1>1. QueueTypeOK'
    BY TimeAssumption DEF Tick, AlarmDone, QueueTypeOK, TimeAssumption
  <1>2. DirTypeOK'
    BY TimeAssumption DEF Tick, AlarmDone, DirTypeOK, TimeAssumption
  <1>3. Ages'
    BY DEF Tick, AlarmDone, QueueTypeOK, DirTypeOK, Ages
  <1>4. SendAt'
    BY DEF Tick, AlarmDone, SendAt, Todoing
  <1> QED BY <1>1, <1>2, <1>3, <1>4, Frame DEF Tick, AlarmDone

(* An empty queue directory and no process running. *)
LEMMA InitInv == Init => IInv
<1> SUFFICES ASSUME Init PROVE IInv
  OBVIOUS
<1> USE DEF Init, NoChan, Live, Ended
<1>1. TypeOK
  <2>1. QueueTypeOK
    BY TimeAssumption DEF TimeAssumption, QueueTypeOK, QueuePc
  <2>2. DirTypeOK
    BY TimeAssumption DEF TimeAssumption, DirTypeOK
  <2>3. SendTypeOK /\ CleanTypeOK
    BY DEF SendTypeOK, CleanTypeOK, SendPc, CleanPc
  <2>4. HistTypeOK
    BY TimeAssumption DEF TimeAssumption, HistTypeOK
  <2> QED BY <2>1, <2>2, <2>3, <2>4 DEF TypeOK
<1>2. Numbers /\ Places /\ Ages
  BY NoneAssumption DEF NoneAssumption, Numbers, Places, Ages
<1>3. OneOwner /\ Queued /\ Shape
  BY DEF OneOwner, Queued, Shape
<1>4. Ledger
  BY DEF Ledger
<1>5. SendAt /\ CleanAt /\ PqMeaning
  BY DEF SendAt, CleanAt, PqMeaning, Todoing, Busy
<1> QED BY <1>1, <1>2, <1>3, <1>4, <1>5 DEF IInv

(* Every step of every program keeps IInv. *)
LEMMA NextInv == IInv /\ [Next]_vars => IInv'
<1> SUFFICES ASSUME IInv, [Next]_vars PROVE IInv'
  OBVIOUS
<1>1. CASE \E m \in Msg : QmailQueue(m)
  BY <1>1, QueueStep
<1>2. CASE QmailSend
  BY <1>2, RestartStep, TodoStep, DoneStep, CleanupStep DEF QmailSend
<1>3. CASE QmailClean
  BY <1>3, CleanStep
<1>4. CASE Tick
  BY <1>4, TickStep
<1>5. CASE UNCHANGED vars
  BY <1>5, Frame DEF vars, IInv, TypeOK, qvars, dirs, disk, svars, cvars, hist
<1> QED BY <1>1, <1>2, <1>3, <1>4, <1>5 DEF Next

(* Every part of IInv holds in every reachable state, whatever dies when.   *)
THEOREM Invariance == Spec => []IInv
<1> QED BY InitInv, NextInv, PTL DEF Spec

-----------------------------------------------------------------------------
(* Every variable of the queue directory and of its programs keeps its type. *)
THEOREM TypeCorrect == Spec => []TypeOK
<1>1. IInv => TypeOK
  BY DEF IInv
<1> QED BY <1>1, Invariance, PTL

(* The files of one number belong to one message: no file of an earlier     *)
(* message is left when the file system gives its number away again.        *)
THEOREM OneOwnerHolds == Spec => []OneOwner
<1>1. IInv => OneOwner
  BY DEF IInv
<1> QED BY <1>1, Invariance, PTL

(* Priority queues: what is in pqchan and pqdone has the files that their   *)
(* comments say, after a restart of qmail-send as well.                     *)
THEOREM PqMeaningHolds == Spec => []PqMeaning
<1>1. IInv => PqMeaning
  BY DEF IInv
<1> QED BY <1>1, Invariance, PTL

(* INTERNALS, section 2: the files of a number are always in one of S1 to S5. *)
THEOREM QueueStatesHold == Spec => []QueueStates
<1>1. IInv => QueueStates
  <2> SUFFICES ASSUME IInv, NEW i \in Id
               PROVE  S1(i) \/ S2(i) \/ S3(i) \/ S4(i) \/ S5(i)
    BY DEF QueueStates
  <2>1. CASE mess[i] = None
    BY <2>1 DEF IInv, OneOwner, S1, NoChan
  <2>2. CASE mess[i] # None /\ todo[i] # None
    BY <2>2 DEF IInv, Queued, S4
  <2>3. CASE mess[i] # None /\ todo[i] = None
    BY <2>3 DEF IInv, Shape, S2, S3, S5
  <2> QED BY <2>1, <2>2, <2>3
<1> QED BY <1>1, Invariance, PTL

(* INTERNALS, section 3: the number of a new pid/ file is that of no message. *)
THEOREM FreshNumberHolds == Spec => []FreshNumber
<1>1. IInv => FreshNumber
  <2> SUFFICES ASSUME IInv, NEW m \in Msg, pc[m] = "pid" PROVE S1(ino[m])
    BY DEF FreshNumber
  <2>1. ino[m] \in Id /\ mess[ino[m]] = None
    BY DEF IInv, Numbers, Places
  <2> QED BY <2>1 DEF IInv, OneOwner, S1, NoChan
<1> QED BY <1>1, Invariance, PTL

(* A message has its text and its envelope on disk before it is in todo/.   *)
THEOREM QueuedIntactHolds == Spec => []QueuedIntact
<1>1. IInv => QueuedIntact
  <2> SUFFICES ASSUME IInv, NEW i \in Id, todo[i] # None
               PROVE  mess[i] = todo[i] /\ todo[i] \in body /\ todo[i] \in env
    BY DEF QueuedIntact
  <2>1. mess[i] = todo[i]
    BY DEF IInv, OneOwner
  <2>2. todo[i] \in Msg /\ pc[todo[i]] = "done"
    BY DEF IInv, Queued, TypeOK, DirTypeOK
  <2> QED BY <2>1, <2>2 DEF IInv, Queued
<1> QED BY <1>1, Invariance, PTL

(* No queued message is lost: it is to be preprocessed, or it has its files *)
(* for every channel with recipients left, or all its recipients are DONE.  *)
THEOREM NoLossHolds == Spec => []NoLoss
<1>1. IInv => NoLoss
  <2> SUFFICES ASSUME IInv, NEW m \in accepted
      PROVE  \/ todo[ino[m]] = m /\ mess[ino[m]] = m
             \/ m \in committed /\ routed[m] \subseteq finished[m]
             \/ /\ todo[ino[m]] = None /\ mess[ino[m]] = m /\ info[ino[m]] = m
                /\ m \in fsynced
                /\ \A c \in routed[m] : c \in finished[m] \/ chan[c][ino[m]] = m
    BY DEF NoLoss
  <2> DEFINE i == ino[m]
  <2>1. m \in Msg /\ i \in Id
    BY DEF IInv, TypeOK, HistTypeOK, Queued, Numbers
  <2>2. CASE mess[i] # m
    BY <2>2 DEF IInv, Ledger
  <2>3. CASE mess[i] = m /\ todo[i] # None
    BY <2>1, <2>3 DEF IInv, OneOwner
  <2>4. CASE mess[i] = m /\ todo[i] = None
    <3>1. /\ m \in committed /\ m \in fsynced /\ routed[m] \subseteq Chan
          /\ \A c \in Chan : chan[c][i] # None <=> c \in routed[m] \ finished[m]
      BY <2>1, <2>4 DEF IInv, Ledger, TypeOK, HistTypeOK
    <3>2. CASE info[i] = None
      BY <2>1, <2>4, <3>1, <3>2 DEF IInv, Shape, NoChan
    <3>3. CASE info[i] # None
      BY <2>1, <2>4, <3>1, <3>3 DEF IInv, OneOwner
    <3> QED BY <3>2, <3>3
  <2> QED BY <2>2, <2>3, <2>4
<1> QED BY <1>1, Invariance, PTL

(* A recipient file that is there without todo/ is one of the last run of   *)
(* todo_do, for a channel that is not finished.                             *)
THEOREM NoRedeliveryHolds == Spec => []NoRedelivery
<1>1. IInv => NoRedelivery
  BY DEF IInv, NoRedelivery, OneOwner, Queued, Ledger
<1> QED BY <1>1, Invariance, PTL

(* mess/ is removed by its own qmail-queue before the message is queued, or *)
(* after that process has ended and the message has no recipient left.      *)
THEOREM CleanupHolds == Spec => CleanupSafe
<1> DEFINE Safe == \A i \in Id : LET m == mess[i] IN m # None /\ mess'[i] # m =>
       \/ pc[m] = "undo_mess" /\ m \notin accepted
       \/ ~Live(m) /\ (m \in accepted => /\ m \in committed /\ todo[i] = None
                                      /\ routed[m] \subseteq finished[m])
<1>1. IInv /\ [Next]_vars => [Safe]_vars
  <2> SUFFICES ASSUME IInv, Next, NEW i \in Id, mess[i] # None, mess'[i] # mess[i]
      PROVE  \/ pc[mess[i]] = "undo_mess" /\ mess[i] \notin accepted
             \/ ~Live(mess[i]) /\ (mess[i] \in accepted =>
                  /\ mess[i] \in committed /\ todo[i] = None
                  /\ routed[mess[i]] \subseteq finished[mess[i]])
    OBVIOUS
  <2>1. CASE \E m \in Msg : QmailQueue(m)
    <3>1. PICK m \in Msg : LinkMess(m) \/ UndoMess(m)
      BY <2>1 DEF QmailQueue, Arm, PidOpen, UnlinkPid, WriteMess, OpenIntd, WriteEnvelope,
          LinkTodo, GiveUp, UndoIntd, QueueDie, dirs
    <3>2. ino[m] \in Id /\ (LinkMess(m) => mess[ino[m]] = None)
      BY <3>1 DEF IInv, Numbers, Places, LinkMess, UndoMess
    <3>3. UndoMess(m) /\ i = ino[m]
      BY <3>1, <3>2 DEF LinkMess, UndoMess, Unlink, IInv, TypeOK, DirTypeOK
    <3> QED BY <3>3 DEF UndoMess, IInv, Places, Queued
  <2>2. CASE QmailSend
    <3>1. UNCHANGED mess
      BY <2>2 DEF QmailSend, StartSend, PqStarted, TodoUnlinkInfo, TodoCreateInfo, TodoCommit,
          TodoFail, TodoDone, InjectBounce, Eliminate, MessdoneFail, CleanupAsk, FoopDone,
          SendExit, SendDie, CleanDied, PqAdd, TodoOpen, Messdone, CleanupStat,
          TodoUnlinkChan, TodoCreateChan, AddBounce, Delivered, dirs
    <3> QED BY <3>1
  <2>3. CASE QmailClean
    <3>1. CleanLast
      BY <2>3 DEF QmailClean, CleanIntd, CleanFail, CleanDie, CleanPid, dirs
    <3>2. creq = "foop" /\ i = cid /\ Busy
      BY <3>1 DEF CleanLast, UnlinkMess, Unlink, Busy, IInv, TypeOK, DirTypeOK
    <3>3. todo[i] = None /\ ~Live(mess[i]) /\ NoChan(i)
      BY <3>2 DEF IInv, CleanAt, Shape
    <3> QED BY <3>3 DEF IInv, Ledger, TypeOK, HistTypeOK, NoChan
  <2>4. CASE Tick
    BY <2>4 DEF Tick, dirs
  <2> QED BY <2>1, <2>2, <2>3, <2>4 DEF Next
<1>2. Spec => [][Safe]_vars
  BY <1>1, Invariance, PTL DEF Spec
<1> QED BY <1>2 DEF CleanupSafe

-----------------------------------------------------------------------------
(* Number i goes from s to t and every other number stays where it is. *)
Moves(i, s, t) ==
  /\ StateOf(i) = s /\ StateOf(i)' = t
  /\ \A j \in Id \ {i} : StateOf(j)' = StateOf(j)

(* The files of every number but i stay as they are. *)
Others(i) ==
  \A j \in Id \ {i} :
    /\ mess'[j] = mess[j] /\ todo'[j] = todo[j] /\ info'[j] = info[j] /\ intd'[j] = intd[j]
    /\ \A c \in Chan : chan'[c][j] = chan[c][j]

(* Their states do, too, and what is left of them. *)
LEMMA OthersLemma ==
  ASSUME NEW i \in Id, Others(i)
  PROVE  \A j \in Id \ {i} : StateOf(j)' = StateOf(j) /\ Left(j)' = Left(j)
<1> TAKE j \in Id \ {i}
<1>1. StateOf(j)' = StateOf(j)
  BY DEF Others, StateOf
<1> QED BY <1>1 DEF Others, Left

(* The moves of QueueLife, number by number. *)
LEMMA MoveLemma ==
  ASSUME NEW i \in Id, NEW s, NEW t, Moves(i, s, t)
  PROVE  Life!Move(i, s, t)
  BY DEF Moves, Life!Move

(* Without a change of todo/ or info/, no message is over. *)
LEMMA OverLemma == UNCHANGED <<todo, info, accepted>> => UNCHANGED Over
  BY DEF Over

(* What no move of INTERNALS is about. *)
LEMMA NoMove ==
  UNCHANGED <<mess, todo, info, intd, chan, accepted>> => UNCHANGED Life!lifevars
  BY DEF Life!lifevars, StateOf, Left, Over

(* An empty queue directory has every number in S1. *)
LEMMA InitLife == Init => Life!Init
  BY DEF Init, Life!Init, StateOf, Left, Over

(* link(pidfn,messfn): S1 to S2. *)
LEMMA LinkMessLife ==
  ASSUME IInv, NEW m \in Msg, NEW i \in Id, i = ino[m], LinkMess(m),
         mess[i] = None, pidf[i] = m
  PROVE  Life!Receive(i)
<1>1. /\ UNCHANGED <<todo, info, intd, chan, accepted>>
      /\ mess' = [mess EXCEPT ![i] = m] /\ mess'[i] = m /\ Others(i)
  BY DEF LinkMess, IInv, TypeOK, DirTypeOK, Numbers, hist, Others
<1>2. todo[i] = None /\ info[i] = None /\ intd[i] = None
  BY <1>1 DEF IInv, OneOwner
<1>3. StateOf(i) = "S1" /\ StateOf(i)' = "S2"
  BY <1>1, <1>2, NoneAssumption DEF StateOf, NoneAssumption
<1>4. m \notin accepted /\ \A j \in Id : mess[j] # m
  BY <1>1, NoneAssumption DEF LinkMess, IInv, Numbers, Queued, NoneAssumption
<1>5. \A j \in Id : Left(j)' = Left(j)
  BY <1>1, <1>3, OthersLemma DEF Left
<1>6. UNCHANGED Over
  BY <1>1 DEF Over
<1> QED BY <1>1, <1>3, <1>4, <1>5, <1>6, OthersLemma, MoveLemma DEF Life!Receive, Moves

(* open_excl(intdfn): S2 to S3. *)
LEMMA OpenIntdLife ==
  ASSUME IInv, NEW m \in Msg, NEW i \in Id, i = ino[m], OpenIntd(m), intd[i] = None
  PROVE  Life!BeginEnvelope(i)
<1>1. /\ UNCHANGED <<mess, todo, info, chan, accepted>> /\ pc[m] = "written"
      /\ intd'[i] = m /\ Others(i)
  BY DEF OpenIntd, IInv, TypeOK, DirTypeOK, hist, Others
<1>2. mess[i] = m /\ m \notin accepted /\ todo[i] = None /\ info[i] = None
  BY <1>1, NoneAssumption DEF IInv, Places, OneOwner, Queued, NoneAssumption
<1>3. StateOf(i) = "S2" /\ StateOf(i)' = "S3"
  BY <1>1, <1>2, NoneAssumption DEF StateOf, NoneAssumption
<1>4. \A j \in Id : Left(j)' = Left(j)
  BY <1>1, <1>3, OthersLemma DEF Left
<1> QED BY <1>1, <1>2, <1>3, <1>4, OthersLemma, OverLemma, MoveLemma
    DEF Life!BeginEnvelope, Moves

(* cleanup(), first half: S3 to S2. *)
LEMMA UndoIntdLife ==
  ASSUME IInv, NEW m \in Msg, NEW i \in Id, i = ino[m], UndoIntd(m)
  PROVE  Life!DropEnvelope(i)
<1>1. /\ UNCHANGED <<mess, todo, info, chan, accepted>> /\ pc[m] = "undo_intd"
      /\ intd'[i] = None /\ Others(i)
  BY DEF UndoIntd, Unlink, IInv, TypeOK, DirTypeOK, hist, Others
<1>2. mess[i] = m /\ intd[i] = m /\ todo[i] = None /\ info[i] = None
  BY <1>1, NoneAssumption DEF IInv, Places, OneOwner, Queued, NoneAssumption
<1>3. StateOf(i) = "S3" /\ StateOf(i)' = "S2"
  BY <1>1, <1>2, NoneAssumption DEF StateOf, NoneAssumption
<1>4. \A j \in Id : Left(j)' = Left(j)
  BY <1>1, <1>3, OthersLemma DEF Left
<1> QED BY <1>1, <1>3, <1>4, OthersLemma, OverLemma, MoveLemma DEF Life!DropEnvelope, Moves

(* cleanup(), second half: S2 to S1. *)
LEMMA UndoMessLife ==
  ASSUME IInv, NEW m \in Msg, NEW i \in Id, i = ino[m], UndoMess(m)
  PROVE  Life!Remove(i)
<1>1. /\ UNCHANGED <<todo, info, intd, chan, accepted>> /\ pc[m] = "undo_mess"
      /\ mess' = [mess EXCEPT ![i] = None] /\ mess'[i] = None /\ Others(i)
  BY DEF UndoMess, Unlink, IInv, TypeOK, DirTypeOK, hist, Others
<1>2. /\ mess[i] = m /\ intd[i] = None /\ todo[i] = None /\ info[i] = None
      /\ m \notin accepted
  BY <1>1, NoneAssumption DEF IInv, Places, OneOwner, Queued, NoneAssumption
<1>3. StateOf(i) = "S2" /\ StateOf(i)' = "S1"
  BY <1>1, <1>2, NoneAssumption DEF StateOf, NoneAssumption
<1>4. \A j \in Id : Left(j)' = Left(j)
  BY <1>1, <1>3, OthersLemma DEF Left
<1> QED BY <1>1, <1>2, <1>3, <1>4, OthersLemma, OverLemma, MoveLemma DEF Life!Remove, Moves

(* link(intdfn,todofn): S3 to S4. *)
LEMMA LinkTodoLife ==
  ASSUME IInv, NEW m \in Msg, NEW i \in Id, i = ino[m], LinkTodo(m),
         todo[i] = None, intd[i] = m
  PROVE  Life!Queue(i)
<1>1. /\ UNCHANGED <<mess, info, intd, chan>> /\ pc[m] = "envelope"
      /\ accepted' = accepted \cup {m} /\ todo'[i] = m /\ Others(i)
  BY DEF LinkTodo, IInv, TypeOK, DirTypeOK, Others
<1>2. mess[i] = m /\ info[i] = None /\ m \notin accepted
  BY <1>1, NoneAssumption DEF IInv, Places, Shape, Queued, NoneAssumption
<1>3. StateOf(i) = "S3" /\ StateOf(i)' = "S4"
  BY <1>1, <1>2, NoneAssumption DEF StateOf, NoneAssumption
<1>4. \A j \in Id : Left(j)' = Left(j)
  BY <1>1, <1>3, OthersLemma DEF Left
<1>5. Over' = Over
  BY <1>1, <1>2 DEF Over, Others
<1> QED BY <1>1, <1>2, <1>3, <1>4, <1>5, OthersLemma, MoveLemma
    DEF Life!Queue, Moves

(* As long as todo/ exists, local/, remote/ and info/ may come and go.      *)
LEMMA TodoLife ==
  ASSUME IInv, NEW i \in Id, todo[i] # None, UNCHANGED <<mess, todo, accepted>>, Others(i),
         info'[i] \in {None, todo[i]}
  PROVE  UNCHANGED Life!lifevars
<1>1. mess[i] = todo[i]
  BY DEF IInv, OneOwner
<1>2. StateOf(i) = "S4" /\ StateOf(i)' = "S4"
  BY <1>1 DEF StateOf
<1>3. \A j \in Id : StateOf(j)' = StateOf(j) /\ Left(j)' = Left(j)
  BY <1>2, OthersLemma DEF Left
<1>4. Over' = Over
  <2>1. None \notin accepted
    BY NoneAssumption DEF NoneAssumption, IInv, TypeOK, HistTypeOK
  <2>2. info[i] \in {None, todo[i]}
    BY <1>1 DEF IInv, OneOwner
  <2>3. \A m \in accepted : (\A j \in Id : todo'[j] # m /\ info'[j] # m)
                           <=> (\A j \in Id : todo[j] # m /\ info[j] # m)
    BY <2>1, <2>2 DEF Others
  <2> QED BY <2>3 DEF Over
<1> QED BY <1>3, <1>4 DEF Life!lifevars

(* The removal of local/ or remote/: a channel less in S5. *)
LEMMA DeliveredLife ==
  ASSUME IInv, NEW i \in Id, NEW c \in Chan, Delivered(i, c)
  PROVE  Life!Finish(i, c)
<1>1. /\ UNCHANGED <<mess, todo, info, intd, accepted>> /\ Others(i) /\ chan[c][i] # None
      /\ \A b \in Chan : chan'[b][i] = IF b = c THEN None ELSE chan[b][i]
  BY DEF Delivered, dirs, IInv, TypeOK, DirTypeOK, Others
<1>2. todo[i] = None /\ info[i] # None /\ mess[i] # None
  BY DEF Delivered, IInv, PqMeaning, OneOwner
<1>3. StateOf(i) = "S5" /\ StateOf(i)' = "S5"
  BY <1>1, <1>2 DEF StateOf
<1>4. Left(i)' = Left(i) \ {c} /\ c \in Left(i)
  BY <1>1, <1>3 DEF Left
<1>5. UNCHANGED Over
  BY <1>1 DEF Over
<1> QED BY <1>1, <1>3, <1>4, <1>5, OthersLemma DEF Life!Finish

(* The removal of info/: S5 to S2. *)
LEMMA EliminateLife ==
  ASSUME IInv, Eliminate
  PROVE  Life!Next
<1> SUFFICES ASSUME NEW i \in Id, i = sid PROVE Life!Eliminate(i)
  BY DEF IInv, SendAt, Eliminate, Life!Next
<1>1. UNCHANGED <<mess, todo, intd, chan, accepted>> /\ info'[i] = None /\ Others(i)
  BY DEF Eliminate, UnlinkInfo, Unlink, IInv, TypeOK, DirTypeOK, hist, Others
<1>2. todo[i] = None /\ info[i] # None /\ NoChan(i)
  BY DEF Eliminate, IInv, SendAt
<1>3. mess[i] = info[i] /\ intd[i] = None /\ info[i] \in accepted
  BY <1>2 DEF IInv, OneOwner, Shape, Queued
<1>4. StateOf(i) = "S5" /\ StateOf(i)' = "S2"
  BY <1>1, <1>2, <1>3 DEF StateOf
<1>5. Left(i) = {} /\ \A j \in Id : Left(j)' = Left(j)
  BY <1>1, <1>2, <1>4, OthersLemma DEF Left, NoChan
<1>6. Over' = Over \cup {mess[i]}
  <2>1. \A j \in Id : todo[j] # mess[i] /\ (info[j] = mess[i] => j = i)
    <3>1. \A j \in Id : mess[j] = mess[i] => j = i
      BY <1>2, <1>3 DEF IInv, Numbers
    <3> QED BY <1>2, <1>3, <3>1 DEF IInv, OneOwner
  <2>2. None \notin accepted
    BY NoneAssumption DEF NoneAssumption, IInv, TypeOK, HistTypeOK
  <2>3. \A m \in accepted : (\A j \in Id : todo'[j] # m /\ info'[j] # m)
                           <=> (\A j \in Id : todo[j] # m /\ info[j] # m) \/ m = mess[i]
    BY <1>1, <1>3, <2>1, <2>2 DEF Others
  <2> QED BY <1>1, <1>3, <2>3 DEF Over
<1> QED BY <1>1, <1>4, <1>5, <1>6, OthersLemma, MoveLemma
    DEF Life!Eliminate, Moves

(* The first unlink() of qmail-clean: S3 to S2, or nothing. *)
LEMMA CleanIntdLife ==
  ASSUME IInv, CleanIntd
  PROVE  Life!Next \/ UNCHANGED Life!lifevars
<1> SUFFICES ASSUME NEW i \in Id, i = cid
             PROVE  Life!DropEnvelope(i) \/ UNCHANGED Life!lifevars
  BY DEF IInv, CleanAt, Busy, CleanIntd, Life!Next
<1>1. /\ UNCHANGED <<mess, todo, info, chan, accepted>> /\ intd'[i] = None /\ Others(i)
      /\ Busy
  BY DEF CleanIntd, Unlink, IInv, TypeOK, DirTypeOK, hist, Others, Busy
<1>2. CASE creq = "foop" /\ intd[i] # None
  <2>1. mess[i] # None /\ todo[i] = None /\ info[i] = None
    BY <1>1, <1>2 DEF IInv, CleanAt
  <2>2. StateOf(i) = "S3" /\ StateOf(i)' = "S2"
    BY <1>1, <1>2, <2>1 DEF StateOf
  <2>3. \A j \in Id : Left(j)' = Left(j)
    BY <1>1, <2>2, OthersLemma DEF Left
  <2> QED BY <1>1, <2>2, <2>3, OthersLemma, OverLemma, MoveLemma DEF Life!DropEnvelope, Moves
<1>3. CASE ~(creq = "foop" /\ intd[i] # None)
  <2>1. StateOf(i)' = StateOf(i) /\ Left(i)' = Left(i)
    BY <1>1, <1>3 DEF IInv, CleanAt, TypeOK, CleanTypeOK, StateOf, Left
  <2>2. \A j \in Id : StateOf(j)' = StateOf(j) /\ Left(j)' = Left(j)
    BY <1>1, <2>1, OthersLemma
  <2> QED BY <1>1, <2>2, OverLemma DEF Life!lifevars
<1> QED BY <1>2, <1>3

(* The second one: S2 to S1, or S4 to S5 for a todo/ request. *)
LEMMA CleanLastLife ==
  ASSUME IInv, CleanLast
  PROVE  Life!Next
<1> SUFFICES ASSUME NEW i \in Id, i = cid PROVE Life!Remove(i) \/ Life!Preprocess(i)
  BY DEF IInv, CleanAt, Busy, CleanLast, Life!Next
<1>1. Busy /\ intd[i] = None
  BY DEF CleanLast, IInv, CleanAt, Busy
<1>2. CASE creq = "foop"
  <2>1. /\ UNCHANGED <<todo, info, intd, chan, accepted>>
        /\ mess' = [mess EXCEPT ![i] = None] /\ mess'[i] = None /\ Others(i)
    BY <1>2 DEF CleanLast, UnlinkMess, Unlink, IInv, TypeOK, DirTypeOK, hist, Others
  <2>2. mess[i] # None /\ todo[i] = None /\ info[i] = None
    BY <1>1, <1>2 DEF IInv, CleanAt
  <2>3. StateOf(i) = "S2" /\ StateOf(i)' = "S1"
    BY <1>1, <2>1, <2>2 DEF StateOf
  <2>4. \A j \in Id : Left(j)' = Left(j)
    BY <2>1, <2>3, OthersLemma DEF Left
  <2>5. mess[i] \in accepted => mess[i] \in Over
    <3>1. \A j \in Id : mess[j] = mess[i] => j = i
      BY <2>2 DEF IInv, Numbers
    <3> QED BY <2>2, <3>1 DEF Over, IInv, OneOwner
  <2> QED BY <2>1, <2>3, <2>4, <2>5, OthersLemma, OverLemma, MoveLemma
      DEF Life!Remove, Moves
<1>3. CASE creq = "todo"
  <2>1. UNCHANGED <<mess, info, intd, chan, accepted>> /\ todo'[i] = None /\ Others(i)
    BY <1>3 DEF CleanLast, Unlink, IInv, TypeOK, DirTypeOK, hist, Others
  <2>2. todo[i] # None /\ info[i] = mess[i] /\ mess[i] = todo[i]
    BY <1>1, <1>3 DEF IInv, CleanAt, OneOwner
  <2>3. StateOf(i) = "S4" /\ StateOf(i)' = "S5"
    BY <2>1, <2>2 DEF StateOf
  <2>4. Left(i)' \subseteq Chan
    BY DEF Left
  <2>5. Over' = Over
    <3>1. None \notin accepted
      BY NoneAssumption DEF NoneAssumption, IInv, TypeOK, HistTypeOK
    <3>2. \A m \in accepted : (\A j \in Id : todo'[j] # m /\ info'[j] # m)
                             <=> (\A j \in Id : todo[j] # m /\ info[j] # m)
      BY <2>1, <2>2, <3>1 DEF Others
    <3> QED BY <2>1, <3>2 DEF Over
  <2> QED BY <2>1, <2>3, <2>4, <2>5, OthersLemma, MoveLemma
      DEF Life!Preprocess, Moves
<1> QED BY <1>2, <1>3 DEF IInv, TypeOK, CleanTypeOK

-----------------------------------------------------------------------------
(* Each step is a move or leaves all states as they are. *)
LEMMA StepLife == IInv /\ [Next]_vars => [Life!Next]_Life!lifevars
<1> SUFFICES ASSUME IInv, [Next]_vars PROVE Life!Next \/ UNCHANGED Life!lifevars
  OBVIOUS
<1>1. ASSUME NEW m \in Msg, QmailQueue(m) PROVE Life!Next \/ UNCHANGED Life!lifevars
  <2>1. CASE LinkMess(m) \/ OpenIntd(m) \/ LinkTodo(m) \/ UndoIntd(m) \/ UndoMess(m)
    <3>1. ino[m] \in Id
      BY <2>1 DEF IInv, Numbers, LinkMess, OpenIntd, LinkTodo, UndoIntd, UndoMess
    <3>2. \/ LinkMess(m) /\ mess[ino[m]] = None /\ pidf[ino[m]] = m
          \/ OpenIntd(m) /\ intd[ino[m]] = None
          \/ LinkTodo(m) /\ todo[ino[m]] = None /\ intd[ino[m]] = m
          \/ UndoIntd(m) \/ UndoMess(m)
          \/ UNCHANGED <<mess, todo, info, intd, chan, accepted>>
      BY <2>1 DEF LinkMess, OpenIntd, LinkTodo, hist
    <3> QED BY <3>1, <3>2, LinkMessLife, OpenIntdLife, LinkTodoLife, UndoIntdLife,
        UndoMessLife, NoMove DEF Life!Next
  <2>2. CASE Arm(m) \/ PidOpen(m) \/ UnlinkPid(m) \/ WriteMess(m) \/ WriteEnvelope(m)
             \/ GiveUp(m) \/ QueueDie(m)
    BY <2>2, NoMove DEF Arm, PidOpen, UnlinkPid, WriteMess, WriteEnvelope, GiveUp, QueueDie,
       dirs, hist
  <2> QED BY <1>1, <2>1, <2>2 DEF QmailQueue
<1>2. CASE QmailSend
  <2>1. CASE TodoUnlinkInfo \/ TodoCreateInfo \/ \E c \in Chan : TodoUnlinkChan(c)
                                                            \/ TodoCreateChan(c)
    <3>1. sid \in Id /\ todo[sid] # None /\ todofd = todo[sid]
      BY <2>1 DEF IInv, SendAt, Todoing, TodoUnlinkInfo, TodoCreateInfo, TodoUnlinkChan,
         TodoCreateChan
    <3>2. Others(sid) /\ UNCHANGED <<mess, todo, accepted>>
      BY <2>1, <3>1 DEF IInv, TypeOK, DirTypeOK, TodoUnlinkInfo, TodoCreateInfo,
         TodoUnlinkChan, TodoCreateChan, Others, Unlink, UnlinkOld, hist
    <3>3. info'[sid] \in {None, todo[sid]}
      BY <2>1, <3>1 DEF IInv, OneOwner, TypeOK, DirTypeOK, TodoUnlinkInfo, TodoCreateInfo,
         TodoUnlinkChan, TodoCreateChan, Unlink
    <3> QED BY <3>1, <3>2, <3>3, TodoLife
  <2>2. ASSUME NEW i \in Id, NEW c \in Chan, Delivered(i, c) PROVE Life!Next
    BY <2>2, DeliveredLife DEF Life!Next
  <2>3. CASE Eliminate
    BY <2>3, EliminateLife
  <2>4. CASE \/ StartSend \/ PqStarted \/ TodoCommit \/ TodoFail \/ TodoDone \/ InjectBounce
             \/ MessdoneFail \/ CleanupAsk \/ FoopDone \/ SendExit \/ SendDie \/ CleanDied
             \/ \E i \in Id : PqAdd(i) \/ TodoOpen(i) \/ Messdone(i) \/ CleanupStat(i)
             \/ \E i \in Id, c \in Chan : AddBounce(i, c)
    BY <2>4, NoMove DEF StartSend, PqStarted, TodoCommit, TodoFail, TodoDone, InjectBounce,
       MessdoneFail, CleanupAsk, FoopDone, SendExit, SendDie, CleanDied, PqAdd, TodoOpen,
       Messdone, CleanupStat, AddBounce, dirs, hist
  <2> QED BY <1>2, <2>1, <2>2, <2>3, <2>4 DEF QmailSend
<1>3. CASE QmailClean
  <2>1. CASE CleanIntd
    BY <2>1, CleanIntdLife
  <2>2. CASE CleanLast
    BY <2>2, CleanLastLife
  <2>3. CASE CleanFail \/ CleanDie \/ \E i \in Id : CleanPid(i)
    BY <2>3, NoMove DEF CleanFail, CleanDie, CleanPid, dirs, hist
  <2> QED BY <1>3, <2>1, <2>2, <2>3 DEF QmailClean
<1>4. CASE Tick \/ UNCHANGED vars
  BY <1>4, NoMove DEF Tick, vars, dirs, hist
<1> QED BY <1>1, <1>2, <1>3, <1>4 DEF Next

(* Whatever dies and whichever calls fail, the files of every message       *)
(* number go through the moves of INTERNALS and no others.                  *)
THEOREM QueueImplementsLife == Spec => ImplementsLife
<1>1. Spec => Life!Spec
  BY InitLife, Invariance, StepLife, PTL DEF Spec, Life!Spec
<1> QED BY <1>1 DEF ImplementsLife

-----------------------------------------------------------------------------
(* The files of i are in the queues they belong to. *)
InQueues(i) ==
  /\ \A c \in Chan : chan[c][i] # None => i \in pqchan[c]
  /\ NoChan(i) => i \in pqdone

Kept(i) == mess[i] # None /\ todo[i] = None /\ info[i] # None

(* Where a message in S5 is remembered.  An answer '!' means that todo/ is   *)
(* still there, so that nothing is forgotten when todo_do gives up.         *)
Recall ==
  /\ \A i \in Id : Kept(i) =>
       \/ spc = "down" \/ exitasap
       \/ spc = "scan" /\ i \in unscanned
       \/ sid = i /\ spc \in {"todo_wait", "bounce", "eliminate"}
       \/ InQueues(i)
  /\ spc = "todo_wait" /\ cpc = "answered" /\ ~creply => todo[sid] # None

-----------------------------------------------------------------------------
(* Each step of a program keeps Recall: the only one that creates S5 is the  *)
(* removal of todo/, and then qmail-send waits for the answer or is down.    *)
LEMMA RecallStep ==
  ASSUME IInv, Recall, Next
  PROVE  Recall'
<1> USE DEF IInv, Recall, Kept, InQueues, NoChan, TypeOK, qvars, dirs, disk, svars, cvars, hist,
     Begin, Idle, Unlink
<1>1. ASSUME NEW m \in Msg, QmailQueue(m) PROVE Recall'
  <2>1. CASE LinkMess(m)
    BY <2>1 DEF LinkMess, DirTypeOK, OneOwner, Numbers
  <2>2. CASE LinkTodo(m)
    <3>1. m # None /\ \A i \in Id : todo'[i] = todo[i] \/ todo'[i] = m
      BY <2>2, NoneAssumption DEF LinkTodo, DirTypeOK, NoneAssumption
    <3>2. UNCHANGED <<mess, info, chan, svars, cvars>>
      BY <2>2 DEF LinkTodo
    <3>3. spc = "todo_wait" => sid \in Id
      BY DEF SendAt
    <3> QED BY <3>1, <3>2, <3>3
  <2>3. CASE UndoMess(m)
    BY <2>3 DEF UndoMess, DirTypeOK
  <2>4. CASE Arm(m) \/ PidOpen(m) \/ UnlinkPid(m) \/ WriteMess(m) \/ OpenIntd(m)
             \/ WriteEnvelope(m) \/ GiveUp(m) \/ UndoIntd(m) \/ QueueDie(m)
    BY <2>4 DEF Arm, PidOpen, UnlinkPid, WriteMess, OpenIntd, WriteEnvelope, GiveUp, UndoIntd, QueueDie
  <2> QED BY <1>1, <2>1, <2>2, <2>3, <2>4 DEF QmailQueue
<1>2. CASE StartSend
  BY <1>2 DEF StartSend
<1>3. CASE PqStarted
  BY <1>3 DEF PqStarted
<1>4. CASE TodoUnlinkInfo
  BY <1>4 DEF TodoUnlinkInfo, SendAt, Todoing, DirTypeOK
<1>5. CASE TodoCreateInfo
  BY <1>5 DEF TodoCreateInfo, SendAt, Todoing, DirTypeOK
<1>6. CASE TodoCommit
  BY <1>6 DEF TodoCommit, SendAt, Todoing, Request
<1>7. CASE TodoFail
  BY <1>7 DEF TodoFail, SendAt, Todoing
<1>8. CASE TodoDone
  BY <1>8 DEF TodoDone, SendAt, DoneIf, SendTypeOK, CleanTypeOK
<1>9. CASE InjectBounce
  BY <1>9 DEF InjectBounce
<1>10. CASE Eliminate
  BY <1>10 DEF Eliminate, Request, UnlinkInfo, DirTypeOK, SendAt
<1>11. CASE MessdoneFail
  BY <1>11 DEF MessdoneFail, SendAt
<1>12. CASE CleanupAsk
  BY <1>12 DEF CleanupAsk, Request, Leftover
<1>13. CASE FoopDone
  BY <1>13 DEF FoopDone
<1>14. CASE SendExit
  BY <1>14 DEF SendExit, Forget
<1>15. CASE SendDie
  BY <1>15 DEF SendDie, Forget
<1>16. CASE CleanDied
  BY <1>16 DEF CleanDied
<1>17. ASSUME NEW i \in Id, PqAdd(i) PROVE Recall'
  BY <1>17 DEF PqAdd, Preprocessed, DoneIf, SendTypeOK
<1>18. ASSUME NEW i \in Id, TodoOpen(i) PROVE Recall'
  BY <1>18 DEF TodoOpen
<1>19. ASSUME NEW i \in Id, Messdone(i) PROVE Recall'
  BY <1>19 DEF Messdone, Preprocessed, PqMeaning
<1>20. ASSUME NEW i \in Id, CleanupStat(i) PROVE Recall'
  BY <1>20 DEF CleanupStat
<1>21. ASSUME NEW c \in Chan, TodoUnlinkChan(c) PROVE Recall'
  BY <1>21 DEF TodoUnlinkChan, UnlinkOld, SendAt, Todoing, DirTypeOK
<1>22. ASSUME NEW c \in Chan, TodoCreateChan(c) PROVE Recall'
  BY <1>22 DEF TodoCreateChan, SendAt, Todoing, DirTypeOK
<1>23. ASSUME NEW i \in Id, NEW c \in Chan, AddBounce(i, c) PROVE Recall'
  BY <1>23 DEF AddBounce
<1>24. ASSUME NEW i \in Id, NEW c \in Chan, Delivered(i, c) PROVE Recall'
  BY <1>24 DEF Delivered, DoneIf, DirTypeOK, SendTypeOK
<1>25. CASE CleanIntd
  BY <1>25 DEF CleanIntd
<1>26. CASE CleanLast
  <2>1. UNCHANGED <<info, chan, svars>> /\ creply' = TRUE
    BY <1>26 DEF CleanLast
  <2>2. \A i \in Id : mess'[i] # None => mess[i] # None
    BY <1>26 DEF CleanLast, UnlinkMess, DirTypeOK
  <2>3. \A i \in Id : todo'[i] = todo[i] \/ (i = cid /\ creq = "todo")
    BY <1>26 DEF CleanLast, DirTypeOK, CleanTypeOK
  <2>4. creq = "todo" => spc = "down" \/ (spc = "todo_wait" /\ sid = cid)
    BY <1>26 DEF CleanLast, CleanAt, Busy
  <2> QED BY <2>1, <2>2, <2>3, <2>4
<1>27. CASE CleanFail
  BY <1>27 DEF CleanFail, CleanAt, Busy
<1>28. CASE CleanDie
  BY <1>28 DEF CleanDie
<1>29. ASSUME NEW i \in Id, CleanPid(i) PROVE Recall'
  BY <1>29 DEF CleanPid
<1>30. CASE Tick
  BY <1>30 DEF Tick
<1> QED BY <1>1, <1>2, <1>3, <1>4, <1>5, <1>6, <1>7, <1>8, <1>9, <1>10, <1>11, <1>12,
    <1>13, <1>14, <1>15, <1>16, <1>17, <1>18, <1>19, <1>20, <1>21, <1>22, <1>23, <1>24,
    <1>25, <1>26, <1>27, <1>28, <1>29, <1>30 DEF Next, QmailSend, QmailClean

(* Recall is an invariant, on top of IInv. *)
LEMMA RecallInv == Spec => []Recall
<1>1. Init => Recall
  BY DEF Init, Recall, Kept
<1>2. IInv /\ Recall /\ [Next]_vars => Recall'
  <2> SUFFICES ASSUME IInv, Recall, [Next]_vars PROVE Recall'
    OBVIOUS
  <2>1. CASE UNCHANGED vars
    BY <2>1 DEF Recall, Kept, InQueues, NoChan, vars, dirs, svars, cvars
  <2> QED BY <2>1, RecallStep
<1> QED BY <1>1, <1>2, Invariance, PTL DEF Spec

(* A message in S5 is in pqdone or in the queue of each channel that is     *)
(* left, unless qmail-send is working on it: after a restart, after a       *)
(* failed call and after a failed request as well, so it is not forgotten.  *)
THEOREM RememberedHolds == Spec => []Remembered
<1>1. Recall => Remembered
  BY DEF Recall, Remembered, Kept, InQueues, S5
<1> QED BY <1>1, RecallInv, PTL
=============================================================================
